----------------------------- MODULE CloudSync -----------------------------
(***************************************************************************)
(* One vault on several devices.  A device pushes its manifest when the    *)
(* cloud's snapshot counter is not ahead of its own; otherwise the user is *)
(* asked to pull: the cloud's manifest replaces the local database and the *)
(* files whose blobs still wait in staging/pending are put back into it.   *)
(* Small files wait in the database's epoch buffer for a flush, which a    *)
(* push and a lock begin with.                                             *)
(*                                                                          *)
(* One file stands for one blob.  What a push does on its own device is    *)
(* VaultStore; here a step is what another device can see or lose.         *)
(***************************************************************************)
EXTENDS Naturals, FiniteSets

CONSTANTS
    Devices, FirstDevice,
    Files,            \* node ids (fresh UUIDs), each with one blob
    MaxCounter,       \* bound: no push begins at this snapshot counter
    Perils            \* what may happen, out of AllPerils

AllPerils == {"two_pushes",    \* pushes of two devices overlap
              "cut_push",      \* a push fails after it stored a blob, or it
                               \* ends then or between increment and manifest
              "cut_pull",      \* a pull fails or crashes after the replacement
              "ops_in_push",   \* files change during a push
              "ops_in_pull",   \* files change during a pull
              "unreadable",    \* the cloud's manifest does not open
              "cut_flush",     \* a flush fails after its first batches
              "hand_flush",    \* the command flush_epoch_buffer, which no
                               \* screen calls
              "buffered_pull"} \* a pull begins while small files are buffered

ASSUME PerilsAssumption == FirstDevice \in Devices /\ Perils \subseteq AllPerils
ASSUME CounterAssumption == MaxCounter \in Nat

VARIABLES
    joined,           \* devices that have the vault's database
    open,             \* devices whose session has a metadata store
    files, dels,      \* file nodes and pending_deletions of each database
    buffer,           \* epoch_buffer of each database: files without a blob
    counter,          \* snapshot_counter of each database
    pending, root,    \* blobs in each device's staging/pending and staging/
    cloudBlobs,       \* vault/<blob>.blob objects
    manifest,         \* manifest/manifest-backup.blob; counter 0: not there
    ui,               \* SyncState of each frontend
    pushPc,           \* push_vault of each device: its step,
    todo, up,         \*   the blobs it has yet to store and has stored
    pullPc,           \* pull_and_reconcile of each device: its step,
    kept, seen,       \*   the files to put back and the manifest it read
    added, condemned  \* history: files ever uploaded, files ever deleted

db    == <<files, dels, buffer, counter>>
staging == <<pending, root>>
cloud == <<cloudBlobs, manifest>>
push  == <<pushPc, todo, up>>
pull  == <<pullPc, kept, seen>>
hist  == <<added, condemned>>
vars  == <<joined, open, db, staging, cloud, ui, push, pull, hist>>

NoManifest == [counter |-> 0, files |-> {}, dels |-> {}, buffer |-> {}]

UiStates == {"idle", "syncing", "conflict", "pulling"}

Manifests == [counter : 0 .. MaxCounter, files : SUBSET Files, dels : SUBSET Files,
              buffer : SUBSET Files]
PushSteps == {"idle", "flush", "probe", "list", "upload", "publish", "drain"}
PullSteps == {"idle", "collected", "seen", "closed", "reinsert", "drain"}

TypeOK ==
    /\ open \subseteq joined /\ joined \subseteq Devices
    /\ files \in [Devices -> SUBSET Files] /\ dels \in [Devices -> SUBSET Files]
    /\ counter \in [Devices -> 0 .. MaxCounter]
    /\ buffer \in [Devices -> SUBSET Files]
    /\ pending \in [Devices -> SUBSET Files] /\ root \in [Devices -> SUBSET Files]
    /\ cloudBlobs \subseteq Files /\ manifest \in Manifests
    /\ ui \in [Devices -> UiStates]
    /\ pushPc \in [Devices -> PushSteps]
    /\ todo \in [Devices -> SUBSET Files] /\ up \in [Devices -> SUBSET Files]
    /\ pullPc \in [Devices -> PullSteps]
    /\ kept \in [Devices -> SUBSET Files] /\ seen \in [Devices -> Manifests]
    /\ added \subseteq Files /\ condemned \subseteq Files

Init ==
    /\ joined = {FirstDevice} /\ open = {FirstDevice}
    /\ files = [d \in Devices |-> {}] /\ dels = [d \in Devices |-> {}]
    /\ buffer = [d \in Devices |-> {}] /\ counter = [d \in Devices |-> 0]
    /\ pending = [d \in Devices |-> {}] /\ root = [d \in Devices |-> {}]
    /\ cloudBlobs = {} /\ manifest = NoManifest
    /\ ui = [d \in Devices |-> "idle"]
    /\ pushPc = [d \in Devices |-> "idle"]
    /\ todo = [d \in Devices |-> {}] /\ up = [d \in Devices |-> {}]
    /\ pullPc = [d \in Devices |-> "idle"]
    /\ kept = [d \in Devices |-> {}] /\ seen = [d \in Devices |-> NoManifest]
    /\ added = {} /\ condemned = {}

(* A task goes to its next step, or is over and has forgotten everything.   *)
PushAt(d, step) == pushPc' = [pushPc EXCEPT ![d] = step] /\ UNCHANGED <<todo, up>>
PullAt(d, step) == pullPc' = [pullPc EXCEPT ![d] = step] /\ UNCHANGED <<kept, seen>>
EndPush(d) ==
    /\ pushPc' = [pushPc EXCEPT ![d] = "idle"]
    /\ todo' = [todo EXCEPT ![d] = {}] /\ up' = [up EXCEPT ![d] = {}]
EndPull(d) ==
    /\ pullPc' = [pullPc EXCEPT ![d] = "idle"]
    /\ kept' = [kept EXCEPT ![d] = {}] /\ seen' = [seen EXCEPT ![d] = NoManifest]

-----------------------------------------------------------------------------
(* Files of one device.                                                     *)
MayChange(d) ==
    /\ d \in open
    /\ "ops_in_push" \in Perils \/ pushPc[d] = "idle"
    /\ "ops_in_pull" \in Perils \/ pullPc[d] = "idle"

(* A small file goes to the epoch buffer (RouteDecision::EpochBuffer).     *)
Upload(d, f) ==
    /\ MayChange(d) /\ f \notin added
    /\ files' = [files EXCEPT ![d] = @ \cup {f}]
    /\ \/ pending' = [pending EXCEPT ![d] = @ \cup {f}] /\ UNCHANGED buffer
       \/ buffer' = [buffer EXCEPT ![d] = @ \cup {f}] /\ UNCHANGED pending
    /\ added' = added \cup {f}
    /\ UNCHANGED <<joined, open, dels, counter, root, cloud, ui, push, pull, condemned>>

(* The row goes, its blob if it has one is queued for the drain, the staged *)
(* copy is unlinked; a push about to upload it fails then.                  *)
Delete(d, f) ==
    /\ MayChange(d) /\ f \in files[d]
    /\ "cut_push" \in Perils \/ f \notin todo[d]
    /\ files' = [files EXCEPT ![d] = @ \ {f}]
    /\ dels' = [dels EXCEPT ![d] = @ \cup ({f} \ buffer[d])]
    /\ buffer' = [buffer EXCEPT ![d] = @ \ {f}]
    /\ pending' = [pending EXCEPT ![d] = @ \ {f}]
    /\ root' = [root EXCEPT ![d] = @ \ {f}]
    /\ condemned' = condemned \cup {f}
    /\ UNCHANGED <<joined, open, counter, cloud, ui, push, pull, added>>

(* flush_epoch_buffer packs everything; when it fails nothing has changed  *)
(* or, with the peril, some batches are packed: committing the first one    *)
(* clears the whole buffer (Transfer).                                      *)
Packed(d) == {{}, buffer[d]} \cup {batch \in SUBSET buffer[d] : "cut_flush" \in Perils}
Left(d, packed) == IF packed = {} THEN buffer[d] ELSE {}

-----------------------------------------------------------------------------
(* The frontend's SyncActions: sync, dismiss_conflict and                  *)
(* pull_and_reconcile_then_sync.                                            *)
Sync(d) ==
    /\ ui[d] = "idle" /\ d \in open
    /\ ui' = [ui EXCEPT ![d] = "syncing"]
    /\ PushAt(d, "flush")
    /\ UNCHANGED <<joined, open, db, staging, cloud, pull, hist>>

DismissConflict(d) ==
    /\ ui[d] = "conflict"
    /\ ui' = [ui EXCEPT ![d] = "idle"]
    /\ UNCHANGED <<joined, open, db, staging, cloud, push, pull, hist>>

(* get_chunk_by_blob_name, else get_epoch_blob_by_blob_name and its chunks: *)
(* the file a staged blob belongs to; a blob without rows is skipped.       *)
HasRow(d, f) == f \in files[d]

(* Mutant of CollectPending: nothing is put back.                          *)
CollectPendingNone(d) == {}

(* collect_pending_local_state: the files of blobs in staging/pending.     *)
CollectPending(d) == {f \in pending[d] : HasRow(d, f)}

(* Nothing is flushed here: files in the buffer are not collected.          *)
PullThenSync(d) ==
    /\ ui[d] = "conflict" /\ d \in open
    /\ "buffered_pull" \in Perils \/ buffer[d] = {}
    /\ ui' = [ui EXCEPT ![d] = "pulling"]
    /\ pullPc' = [pullPc EXCEPT ![d] = "collected"]
    /\ kept' = [kept EXCEPT ![d] = CollectPending(d)]
    /\ UNCHANGED <<joined, open, db, staging, cloud, push, seen, hist>>

-----------------------------------------------------------------------------
(* push_active_vault flushes before push_vault; the user's command writes  *)
(* to staging/, where only the next unlock looks.                           *)
FlushCallers == {"push_active_vault"} \cup ({"hand_flush"} \cap Perils)

Flush(d, by) ==
    /\ IF by = "push_active_vault"
       THEN /\ pushPc[d] = "flush" /\ PushAt(d, "probe")
            /\ pending' = [pending EXCEPT ![d] = @ \cup buffer[d]] /\ UNCHANGED root
       ELSE /\ d \in open /\ UNCHANGED push
            /\ root' = [root EXCEPT ![d] = @ \cup buffer[d]] /\ UNCHANGED pending
    /\ buffer' = [buffer EXCEPT ![d] = {}]
    /\ UNCHANGED <<joined, open, files, dels, counter, cloud, ui, pull, hist>>

PushFlushFail(d) ==
    /\ pushPc[d] = "flush"
    /\ \E packed \in Packed(d) :
          /\ pending' = [pending EXCEPT ![d] = @ \cup packed]
          /\ buffer' = [buffer EXCEPT ![d] = Left(d, packed)]
    /\ EndPush(d) /\ ui' = [ui EXCEPT ![d] = "idle"]
    /\ UNCHANGED <<joined, open, files, dels, counter, root, cloud, pull, hist>>

Others(d) == Devices \ {d}

(* The counter in the cloud's manifest is ahead of the database's.         *)
Behind(d) == manifest.counter > counter[d]

(* A manifest that does not open counts as none: nothing is compared.      *)
PushProbe(d) ==
    /\ pushPc[d] = "probe"
    /\ "two_pushes" \in Perils
       \/ \A e \in Others(d) : pushPc[e] \in {"idle", "flush", "probe", "drain"}
    /\ \/ Behind(d) /\ EndPush(d) /\ ui' = [ui EXCEPT ![d] = "conflict"]
       \/ /\ ~Behind(d) \/ "unreadable" \in Perils
          /\ counter[d] < MaxCounter /\ PushAt(d, "list") /\ UNCHANGED ui
    /\ UNCHANGED <<joined, open, db, staging, cloud, pull, hist>>

PushList(d) ==
    /\ pushPc[d] = "list"
    /\ pushPc' = [pushPc EXCEPT ![d] = "upload"]
    /\ todo' = [todo EXCEPT ![d] = files[d] \cap pending[d]]
    /\ UNCHANGED <<joined, open, db, staging, cloud, up, ui, pull, hist>>

(* upload_blob_task: the staged blob moves to the cache once stored.       *)
PushUpload(d, f) ==
    /\ pushPc[d] = "upload" /\ f \in todo[d] \cap pending[d]
    /\ cloudBlobs' = cloudBlobs \cup {f}
    /\ pending' = [pending EXCEPT ![d] = @ \ {f}]
    /\ todo' = [todo EXCEPT ![d] = @ \ {f}] /\ up' = [up EXCEPT ![d] = @ \cup {f}]
    /\ UNCHANGED <<joined, open, db, root, manifest, pushPc, ui, pull, hist>>

PushIncrement(d) ==
    /\ pushPc[d] = "upload" /\ todo[d] = {}
    /\ counter' = [counter EXCEPT ![d] = @ + 1]
    /\ PushAt(d, "publish")
    /\ UNCHANGED <<joined, open, files, dels, buffer, staging, cloud, ui, pull, hist>>

(* The database as it is now, deletion queue and buffer included.           *)
Export(d) == [counter |-> counter[d], files |-> files[d], dels |-> dels[d],
              buffer |-> buffer[d]]

PushManifest(d) ==
    /\ pushPc[d] = "publish"
    /\ manifest' = Export(d)
    /\ PushAt(d, "drain")
    /\ UNCHANGED <<joined, open, db, staging, cloudBlobs, ui, pull, hist>>

(* Mutant of PushManifestFail: the counter stays incremented.              *)
PushManifestFailKeeps(d) ==
    /\ pushPc[d] = "publish" /\ ("cut_push" \in Perils \/ up[d] = {})
    /\ EndPush(d) /\ ui' = [ui EXCEPT ![d] = "idle"]
    /\ UNCHANGED <<joined, open, db, staging, cloud, pull, hist>>

(* rollback_snapshot_counter; the failed upload may have been stored.      *)
PushManifestFail(d) ==
    /\ pushPc[d] = "publish" /\ ("cut_push" \in Perils \/ up[d] = {})
    /\ manifest' \in {manifest, Export(d)}
    /\ counter' = [counter EXCEPT ![d] = @ - 1]
    /\ EndPush(d) /\ ui' = [ui EXCEPT ![d] = "idle"]
    /\ UNCHANGED <<joined, open, files, dels, buffer, staging, cloudBlobs, pull, hist>>

(* Any earlier error; an upload that failed may have stored its blob.      *)
PushFail(d) ==
    /\ pushPc[d] \in {"probe", "list", "upload"} /\ ("cut_push" \in Perils \/ up[d] = {})
    /\ \E stored \in SUBSET (todo[d] \cap pending[d]) :
        /\ "cut_push" \in Perils \/ stored = {}
        /\ cloudBlobs' = cloudBlobs \cup stored
    /\ EndPush(d) /\ ui' = [ui EXCEPT ![d] = "idle"]
    /\ UNCHANGED <<joined, open, db, staging, manifest, pull, hist>>

(* drain_pending_deletions: a failed deletion leaves its row queued.       *)
Drain(d, f) ==
    /\ f \in dels[d]
    /\ cloudBlobs' = cloudBlobs \ {f}
    /\ dels' = [dels EXCEPT ![d] = @ \ {f}]

PushDrain(d, f) ==
    /\ pushPc[d] = "drain" /\ Drain(d, f)
    /\ UNCHANGED <<joined, open, files, buffer, counter, staging, manifest, ui, push, pull, hist>>

(* The end of push_active_vault and of sync_to_cloud.                      *)
PushEnd(d) ==
    /\ pushPc[d] = "drain"
    /\ EndPush(d) /\ ui' = [ui EXCEPT ![d] = "idle"]
    /\ UNCHANGED <<joined, open, db, staging, cloud, pull, hist>>

-----------------------------------------------------------------------------
(* pull_and_reconcile (it does not take sync_mutex)                        *)
PullDownload(d) ==
    /\ pullPc[d] = "collected" /\ manifest.counter > 0
    /\ pullPc' = [pullPc EXCEPT ![d] = "seen"] /\ seen' = [seen EXCEPT ![d] = manifest]
    /\ UNCHANGED <<joined, open, db, staging, cloud, ui, push, kept, hist>>

(* replace_metadata_store(None)                                             *)
PullClose(d) ==
    /\ pullPc[d] = "seen"
    /\ open' = open \ {d}
    /\ PullAt(d, "closed")
    /\ UNCHANGED <<joined, db, staging, cloud, ui, push, hist>>

(* Mutant of PullReplace: the local deletion queue is carried over.        *)
PullReplaceMerges(d) ==
    /\ pullPc[d] = "closed"
    /\ files' = [files EXCEPT ![d] = seen[d].files]
    /\ dels' = [dels EXCEPT ![d] = @ \cup seen[d].dels]
    /\ buffer' = [buffer EXCEPT ![d] = seen[d].buffer]
    /\ counter' = [counter EXCEPT ![d] = seen[d].counter]
    /\ open' = open \cup {d}
    /\ PullAt(d, "reinsert")
    /\ UNCHANGED <<joined, staging, cloud, ui, push, hist>>

(* The rename of the probe over vault.db, and the new store opened.        *)
PullReplace(d) ==
    /\ pullPc[d] = "closed"
    /\ files' = [files EXCEPT ![d] = seen[d].files]
    /\ dels' = [dels EXCEPT ![d] = seen[d].dels]
    /\ buffer' = [buffer EXCEPT ![d] = seen[d].buffer]
    /\ counter' = [counter EXCEPT ![d] = seen[d].counter]
    /\ open' = open \cup {d}
    /\ PullAt(d, "reinsert")
    /\ UNCHANGED <<joined, staging, cloud, ui, push, hist>>

(* The node and its chunk rows, or its epoch blob and extents, in the new  *)
(* database.                                                                *)
Reinserted(d, f) == [files EXCEPT ![d] = @ \cup {f}]

(* reinsert_pending_state: one transaction per file, the nodes keep their  *)
(* ids and get another name where the cloud's manifest has one (NodeTree). *)
PullReinsert(d, f) ==
    /\ pullPc[d] = "reinsert" /\ f \in kept[d]
    /\ files' = Reinserted(d, f)
    /\ kept' = [kept EXCEPT ![d] = @ \ {f}]
    /\ UNCHANGED <<joined, open, dels, buffer, counter, staging, cloud, ui, push, pullPc, seen, hist>>

PullDrain(d, f) ==
    /\ pullPc[d] = "drain" /\ Drain(d, f)
    /\ UNCHANGED <<joined, open, files, buffer, counter, staging, manifest, ui, push, pull, hist>>

PullReinserted(d) ==
    /\ pullPc[d] = "reinsert" /\ kept[d] = {}
    /\ PullAt(d, "drain")
    /\ UNCHANGED <<joined, open, db, staging, cloud, ui, push, hist>>

(* ... and sync() follows.                                                  *)
PullEnd(d) ==
    /\ pullPc[d] = "drain"
    /\ EndPull(d)
    /\ ui' = [ui EXCEPT ![d] = "syncing"]
    /\ PushAt(d, "flush")
    /\ UNCHANGED <<joined, open, db, staging, cloud, hist>>

(* An error before the replacement; when vault.db cannot be renamed over,  *)
(* the old one is opened again.                                             *)
PullFail(d) ==
    /\ pullPc[d] \in {"collected", "seen", "closed"}
    /\ open' = open \cup {d}
    /\ EndPull(d)
    /\ ui' = [ui EXCEPT ![d] = "idle"]
    /\ UNCHANGED <<joined, db, staging, cloud, push, hist>>

(* An error after the replacement: files reinsert_pending_state did not    *)
(* come to stay without rows.                                               *)
PullReinsertFail(d) ==
    /\ pullPc[d] \in {"reinsert", "drain"}
    /\ "cut_pull" \in Perils \/ kept[d] = {}
    /\ EndPull(d)
    /\ ui' = [ui EXCEPT ![d] = "idle"]
    /\ UNCHANGED <<joined, open, db, staging, cloud, push, hist>>

-----------------------------------------------------------------------------
(* recover_vault: a device without the database takes the cloud's.         *)
Join(d) ==
    /\ d \notin joined /\ manifest.counter > 0
    /\ joined' = joined \cup {d} /\ open' = open \cup {d}
    /\ files' = [files EXCEPT ![d] = manifest.files]
    /\ dels' = [dels EXCEPT ![d] = manifest.dels]
    /\ buffer' = [buffer EXCEPT ![d] = manifest.buffer]
    /\ counter' = [counter EXCEPT ![d] = manifest.counter]
    /\ UNCHANGED <<staging, cloud, ui, push, pull, hist>>

(* Crash or lock and unlock: a lock flushes first, tasks end, blobs of the *)
(* staging root become pending, and those without a row are swept.         *)
Restart(d) ==
    /\ d \in joined
    /\ "cut_push" \in Perils \/ pushPc[d] = "drain" \/ (up[d] = {} /\ pushPc[d] # "publish")
    /\ "cut_pull" \in Perils \/ pullPc[d] # "reinsert" \/ kept[d] = {}
    /\ open' = open \cup {d}
    /\ \E packed \in Packed(d) :
          /\ packed # {} => d \in open
          /\ pending' = [pending EXCEPT ![d] = (@ \cup root[d] \cup packed) \cap files[d]]
          /\ buffer' = [buffer EXCEPT ![d] = Left(d, packed)]
    /\ root' = [root EXCEPT ![d] = {}]
    /\ EndPush(d) /\ EndPull(d)
    /\ ui' = [ui EXCEPT ![d] = "idle"]
    /\ UNCHANGED <<joined, files, dels, counter, cloud, hist>>

Next ==
    \E d \in Devices :
        \/ \E f \in Files : Upload(d, f) \/ Delete(d, f) \/ PushUpload(d, f) \/ PushDrain(d, f)
                            \/ PullReinsert(d, f) \/ PullDrain(d, f)
        \/ (\E by \in FlushCallers : Flush(d, by)) \/ PushFlushFail(d)
        \/ Sync(d) \/ DismissConflict(d) \/ PullThenSync(d)
        \/ PushProbe(d) \/ PushList(d) \/ PushIncrement(d) \/ PushManifest(d)
        \/ PushManifestFail(d) \/ PushFail(d) \/ PushEnd(d)
        \/ PullDownload(d) \/ PullClose(d) \/ PullReplace(d) \/ PullReinserted(d)
        \/ PullEnd(d) \/ PullFail(d) \/ PullReinsertFail(d)
        \/ Join(d) \/ Restart(d)

Spec == Init /\ [][Next]_vars

-----------------------------------------------------------------------------
(* What only a device itself has: files without a blob in the cloud.        *)
Local(d) == buffer[d] \cup pending[d] \cup root[d]

(* Files a device still brings to the cloud's manifest: buffered and staged *)
(* ones, those a running push uploaded, and uploaded ones it lists while it *)
(* is not behind, for its next push is accepted.                            *)
Carried(d) ==
    ((files[d] \cup kept[d]) \cap (Local(d) \cup up[d]))
    \cup {f \in files[d] \cap cloudBlobs : counter[d] >= manifest.counter}

(* The files of the vault: what the cloud's manifest lists, and what some  *)
(* device still carries to it.                                              *)
AliveFiles == manifest.files \cup UNION {Carried(d) : d \in Devices}

Shared == INSTANCE SharedVault WITH alive <- AliveFiles

(* Through conflicts, pulls, failed pushes and restarts a file added on    *)
(* any device stays in the vault until somebody deletes it, and none comes *)
(* back: CloudSync implements SharedVault (push_vault's counter check,     *)
(* collect_pending_local_state, reinsert_pending_state).                    *)
SharedSpec == Shared!Spec

(* The cloud's manifest never lists a file whose blob the cloud lacks and  *)
(* whose text it does not carry in its buffer either, so any device         *)
(* can join or pull at any time: no drain, whose queue pull_and_reconcile  *)
(* replaces, ever removes a blob another device counts on.                  *)
ManifestBacked == manifest.files \subseteq cloudBlobs \cup manifest.buffer

(* No blob stays in the cloud that no manifest lists or has queued for     *)
(* deletion, although a pull throws the local queue away.                   *)
NoOrphans ==
    cloudBlobs \subseteq manifest.files \cup manifest.dels
                         \cup UNION {files[d] \cup dels[d] \cup kept[d] : d \in Devices}
=============================================================================
