----------------------------- MODULE VaultStore -----------------------------
(***************************************************************************)
(* The local store of one device and its primary cloud destination: the    *)
(* manifest database (SQLCipher), the staging directory, the cloud, and    *)
(* the tasks that move blobs between them.                                  *)
(*                                                                          *)
(* A task is an async command of the Tauri backend.  Commands interleave   *)
(* at every await; a database transaction, a file write, a file removal    *)
(* and a transport call are each one step.  flush_mutex admits one epoch   *)
(* flush and sync_mutex one push at a time; uploads and deletes run freely *)
(* next to them, and nothing makes a lock wait for any of them (only the   *)
(* key ceremonies take an OperationGuard).                                  *)
(***************************************************************************)
EXTENDS Integers, FiniteSets, VaultFiles

CONSTANTS
    Blobs,            \* blob names (fresh UUIDs) encryption may generate
    NoBlob,           \* stands for "no blob in hand"
    LockDuringOps,    \* may a lock or timeout overlap an operation in flight?
    OpsDuringPush,    \* may file operations overlap a push?
    MaxCounter        \* largest snapshot_counter (u64::MAX in the code)

ASSUME NoBlobAssumption == NoBlob \notin Blobs
ASSUME FlagsAssumption ==
    EpochEnabled \in BOOLEAN /\ LockDuringOps \in BOOLEAN /\ OpsDuringPush \in BOOLEAN
ASSUME MaxCounterAssumption == MaxCounter \in Nat

VARIABLES
    \* ---- manifest database ----
    node,             \* life of each file node: none, uploading, row, gone
    sized,            \* file nodes inserted with size_bytes > 0
    refs,             \* chunk rows: the blobs each node refers to
    epochBlobs,       \* epoch_blobs rows
    buffer,           \* epoch_buffer rows: files whose plaintext is staged
    pendingDel,       \* pending_deletions rows
    counter,          \* manifest_meta.snapshot_counter
    \* ---- staging directory ----
    pending,          \* <blob>.blob in staging/pending
    cache,            \* <blob>.blob in staging/cache
    root,             \* <blob>.blob directly in staging/
    used,             \* blob names generated so far
    \* ---- cloud ----
    cloudBlobs,       \* vault/<blob>.blob objects
    cloudManifest,    \* manifest/manifest-backup.blob; counter 0: not there
    opens,            \* does the manifest key open that object?
    \* ---- tasks ----
    session,          \* closed, migrated, listed (prepare_vault_storage), open
    known,            \* blob names the orphan sweep listed
    upBlobs,          \* blobs each running upload has written
    flPc, flBy, flLeft, flBatch, flBlob,         \* the epoch flush
    delPc, delBlobs,                             \* delete_file tasks
    pushPc, pushLocal, pushTodo, pushSent, pushSnap,   \* push_vault
    drainLeft, drainCur, drainStuck               \* drain_pending_deletions

db      == <<node, sized, refs, epochBlobs, buffer, pendingDel, counter>>
staging == <<pending, cache, root, used>>
cloud   == <<cloudBlobs, cloudManifest, opens>>
sweep   == <<session, known>>
flush   == <<flPc, flBy, flLeft, flBatch, flBlob>>
delete  == <<delPc, delBlobs>>
drain   == <<drainLeft, drainCur, drainStuck>>
push    == <<pushPc, pushLocal, pushTodo, pushSent, pushSnap>>
vars    == <<db, staging, cloud, sweep, upBlobs, flush, delete, push, drain>>

NodeStates    == {"none", "uploading", "row", "gone"}
SessionStates == {"closed", "migrated", "listed", "open"}
Manifest      == [counter : Nat, blobs : SUBSET Blobs]
NoManifest    == [counter |-> 0, blobs |-> {}]

TypeOK ==
    /\ node \in [Files -> NodeStates]
    /\ sized \subseteq Files
    /\ refs \in [Files -> SUBSET Blobs]
    /\ epochBlobs \subseteq Blobs
    /\ buffer \subseteq Files
    /\ pendingDel \subseteq Blobs
    /\ counter \in Nat
    /\ pending \subseteq Blobs /\ cache \subseteq Blobs /\ root \subseteq Blobs
    /\ used \subseteq Blobs
    /\ cloudBlobs \subseteq Blobs
    /\ cloudManifest \in Manifest /\ opens \in BOOLEAN
    /\ session \in SessionStates
    /\ known \subseteq Blobs
    /\ upBlobs \in [Files -> SUBSET Blobs]
    /\ flPc \in {"idle", "packing", "staged", "failed"}
    /\ flBy \in {"user", "push", "lock"}
    /\ flLeft \subseteq Files /\ flBatch \subseteq Files
    /\ flBlob \in Blobs \cup {NoBlob}
    /\ delPc \in [Files -> {"idle", "read", "unlink"}]
    /\ delBlobs \in [Files -> SUBSET Blobs]
    /\ pushPc \in {"idle", "flush", "probe", "list", "upload", "failing",
                   "increment", "snapshot", "manifest", "header", "drain"}
    /\ pushLocal \in Nat
    /\ pushTodo \subseteq Blobs /\ pushSent \subseteq Blobs
    /\ pushSnap \in Manifest
    /\ drainLeft \subseteq Blobs
    /\ drainCur \in Blobs \cup {NoBlob}
    /\ drainStuck \in BOOLEAN

Init ==
    /\ node = [f \in Files |-> "none"]
    /\ sized = {}
    /\ refs = [f \in Files |-> {}]
    /\ epochBlobs = {} /\ buffer = {} /\ pendingDel = {} /\ counter = 0
    /\ pending = {} /\ cache = {} /\ root = {} /\ used = {}
    /\ cloudBlobs = {} /\ cloudManifest = NoManifest /\ opens = TRUE
    /\ session = "closed" /\ known = {}
    /\ upBlobs = [f \in Files |-> {}]
    /\ flPc = "idle" /\ flBy = "user"
    /\ flLeft = {} /\ flBatch = {} /\ flBlob = NoBlob
    /\ delPc = [f \in Files |-> "idle"]
    /\ delBlobs = [f \in Files |-> {}]
    /\ pushPc = "idle" /\ pushLocal = 0
    /\ pushTodo = {} /\ pushSent = {} /\ pushSnap = NoManifest
    /\ drainLeft = {} /\ drainCur = NoBlob /\ drainStuck = FALSE

-----------------------------------------------------------------------------
(* Blob names the manifest lists: chunks.blob_name UNION epoch_blobs.      *)
Referenced == {b \in Blobs : \E f \in Files : b \in refs[f]} \cup epochBlobs

(* Mutant of Fresh: a name may come up again (content-derived names).      *)
FreshReused == Blobs

(* Uuid::new_v4 never returns a name a second time.                        *)
Fresh == Blobs \ used

(* Is an upload, delete or flush of this device in flight?                 *)
FileOpRunning ==
    \/ flPc # "idle"
    \/ \E f \in Files : node[f] = "uploading" \/ delPc[f] # "idle"

(* A new file command needs an active session.                              *)
MayStart ==
    /\ session = "open"
    /\ OpsDuringPush \/ pushPc = "idle"
    /\ LockDuringOps \/ flBy # "lock"

(* lock_session and the timer wait for OperationGuards only, and no file   *)
(* or sync command holds one; with LockDuringOps = FALSE the user and the  *)
(* timer happen to leave running operations alone.                          *)
LockMayInterrupt == LockDuringOps \/ (~FileOpRunning /\ pushPc = "idle")

-----------------------------------------------------------------------------
(* upload_file: Immediate route.  Blobs are written first, the node and    *)
(* its chunk rows are inserted in one transaction at the end.               *)

UploadBegin(f) ==
    /\ MayStart
    /\ node[f] = "none"
    /\ node' = [node EXCEPT ![f] = "uploading"]
    /\ UNCHANGED <<sized, refs, epochBlobs, buffer, pendingDel, counter,
                   staging, cloud, sweep, upBlobs, flush, delete, push, drain>>

UploadWriteBlob(f) ==
    /\ node[f] = "uploading"
    /\ \E b \in Fresh :
        /\ upBlobs' = [upBlobs EXCEPT ![f] = @ \cup {b}]
        /\ pending' = pending \cup {b}
        /\ used' = used \cup {b}
    /\ UNCHANGED <<db, cache, root, cloud, sweep, flush, delete, push, drain>>

(* insert_file_with_chunks; an empty file has no chunk rows.                *)
UploadCommit(f) ==
    /\ node[f] = "uploading"
    /\ node' = [node EXCEPT ![f] = "row"]
    /\ refs' = [refs EXCEPT ![f] = upBlobs[f]]
    /\ sized' = IF upBlobs[f] = {} THEN sized ELSE sized \cup {f}
    /\ upBlobs' = [upBlobs EXCEPT ![f] = {}]
    /\ UNCHANGED <<epochBlobs, buffer, pendingDel, counter,
                   staging, cloud, sweep, flush, delete, push, drain>>

(* An error while encrypting or inserting removes what was staged.         *)
UploadFail(f) ==
    /\ node[f] = "uploading"
    /\ node' = [node EXCEPT ![f] = "gone"]
    /\ pending' = pending \ upBlobs[f]
    /\ upBlobs' = [upBlobs EXCEPT ![f] = {}]
    /\ UNCHANGED <<sized, refs, epochBlobs, buffer, pendingDel, counter,
                   cache, root, used, cloud, sweep, flush, delete, push, drain>>

(* EpochBuffer route: node row and epoch_buffer row in one transaction.    *)
StageEpoch(f) ==
    /\ EpochEnabled
    /\ MayStart
    /\ node[f] = "none"
    /\ node' = [node EXCEPT ![f] = "row"]
    /\ sized' = sized \cup {f}
    /\ buffer' = buffer \cup {f}
    /\ UNCHANGED <<refs, epochBlobs, pendingDel, counter,
                   staging, cloud, sweep, upBlobs, flush, delete, push, drain>>

-----------------------------------------------------------------------------
(* flush_epoch_buffer, under flush_mutex.  The flush_epoch_buffer command  *)
(* writes to the staging root, a push and a lock to staging/pending.       *)

FlushRead(by) ==
    /\ flPc = "idle"
    /\ \/ by = "user" /\ MayStart
       \/ by = "push" /\ pushPc = "flush"
       \/ by = "lock" /\ EpochEnabled /\ session = "open"
                      /\ LockMayInterrupt
    /\ flPc' = "packing"
    /\ flBy' = by
    /\ flLeft' = buffer
    /\ UNCHANGED <<db, staging, cloud, sweep, upBlobs, flBatch, flBlob, delete, push, drain>>

(* Entry sizes are abstracted: any non-empty part of what is left may fill *)
(* one epoch blob.  The blob file is written before its rows exist.         *)
FlushPack ==
    /\ flPc = "packing"
    /\ \E batch \in (SUBSET flLeft) \ {{}}, b \in Fresh :
        /\ flBatch' = batch
        /\ flLeft' = flLeft \ batch
        /\ flBlob' = b
        /\ used' = used \cup {b}
        /\ IF flBy = "user"
           THEN root' = root \cup {b} /\ UNCHANGED pending
           ELSE pending' = pending \cup {b} /\ UNCHANGED root
    /\ flPc' = "staged"
    /\ UNCHANGED <<db, cache, cloud, sweep, upBlobs, flBy, delete, push, drain>>

(* commit_epoch_flush: epoch_blobs row, one chunk row per packed file, and *)
(* DELETE FROM epoch_buffer without a WHERE.  The foreign key of a chunk   *)
(* row fails the transaction when a packed file was deleted meanwhile.     *)
FlushCommit ==
    /\ flPc = "staged"
    /\ \A f \in flBatch : node[f] = "row"
    /\ epochBlobs' = epochBlobs \cup {flBlob}
    /\ refs' = [f \in Files |-> IF f \in flBatch THEN refs[f] \cup {flBlob} ELSE refs[f]]
    /\ buffer' = {}
    /\ flPc' = "packing"
    /\ flBatch' = {}
    /\ flBlob' = NoBlob
    /\ UNCHANGED <<node, sized, pendingDel, counter, staging, cloud, sweep, upBlobs,
                   flBy, flLeft, delete, push, drain>>

(* An error leaves the blob that was written where it is.                   *)
FlushFail ==
    /\ flPc \in {"packing", "staged"}
    /\ flPc' = "failed"
    /\ flLeft' = {} /\ flBatch' = {} /\ flBlob' = NoBlob
    /\ UNCHANGED <<db, staging, cloud, sweep, upBlobs, flBy, delete, push, drain>>

(* The caller goes on: a push stops on a failed flush, a lock does not.    *)
FlushEnd ==
    /\ flPc = "failed" \/ (flPc = "packing" /\ flLeft = {})
    /\ flPc' = "idle"
    /\ flBy' = "user"
    /\ pushPc' = IF flBy = "push" THEN (IF flPc = "failed" THEN "idle" ELSE "probe")
                 ELSE pushPc
    /\ session' = IF flBy = "lock" THEN "closed" ELSE session
    /\ cache' = IF flBy = "lock" THEN {} ELSE cache
    /\ UNCHANGED <<db, pending, root, used, cloud, known, upBlobs, flLeft, flBatch, flBlob,
                   delete, pushLocal, pushTodo, pushSent, pushSnap, drain>>

-----------------------------------------------------------------------------
(* delete_file: the blob names are read first, the node is deleted in one  *)
(* transaction, then every local copy of the names read is removed.        *)

DeleteRead(f) ==
    /\ MayStart
    /\ node[f] = "row"
    /\ delPc[f] = "idle"
    /\ delPc' = [delPc EXCEPT ![f] = "read"]
    /\ delBlobs' = [delBlobs EXCEPT ![f] = refs[f]]
    /\ UNCHANGED <<db, staging, cloud, sweep, upBlobs, flush, push, drain>>

(* Mutant of Enqueued: without the NOT EXISTS clause for epoch blobs.      *)
EnqueuedShared(f) == refs[f]

(* Mutant of Enqueued: the epoch blobs are forgotten.                       *)
EnqueuedStandalone(f) == refs[f] \ epochBlobs

(* Names delete_node enqueues: standalone blobs always, an epoch blob only *)
(* when no other file refers to it.                                         *)
Enqueued(f) ==
    {b \in refs[f] : b \notin epochBlobs \/ \A g \in Files \ {f} : b \notin refs[g]}

DeleteCommit(f) ==
    /\ delPc[f] = "read"
    /\ node[f] = "row"
    /\ node' = [node EXCEPT ![f] = "gone"]
    /\ sized' = sized \ {f}
    /\ pendingDel' = pendingDel \cup Enqueued(f)
    /\ refs' = [refs EXCEPT ![f] = {}]
    /\ buffer' = buffer \ {f}
    /\ epochBlobs' = {b \in epochBlobs : \E g \in Files \ {f} : b \in refs[g]}
    /\ delPc' = [delPc EXCEPT ![f] = "unlink"]
    /\ UNCHANGED <<counter, staging, cloud, sweep, upBlobs, flush, delBlobs, push, drain>>

(* The lookup or the transaction fails: nothing has changed.                *)
DeleteFail(f) ==
    /\ delPc[f] = "read"
    /\ delPc' = [delPc EXCEPT ![f] = "idle"]
    /\ delBlobs' = [delBlobs EXCEPT ![f] = {}]
    /\ UNCHANGED <<db, staging, cloud, sweep, upBlobs, flush, push, drain>>

DeleteUnlink(f) ==
    /\ delPc[f] = "unlink"
    /\ pending' = pending \ delBlobs[f]
    /\ cache' = cache \ delBlobs[f]
    /\ root' = root \ delBlobs[f]
    /\ delPc' = [delPc EXCEPT ![f] = "idle"]
    /\ delBlobs' = [delBlobs EXCEPT ![f] = {}]
    /\ UNCHANGED <<db, used, cloud, sweep, upBlobs, flush, push, drain>>

(* fetch_missing_file_blobs: a blob in neither pending nor cache is        *)
(* downloaded into the cache and its checksum verified.                     *)
FetchBlob(f) ==
    /\ session = "open"
    /\ \E b \in (refs[f] \cap cloudBlobs) \ (pending \cup cache) : cache' = cache \cup {b}
    /\ UNCHANGED <<db, pending, root, used, cloud, sweep, upBlobs, flush, delete, push, drain>>

-----------------------------------------------------------------------------
(* sync_to_cloud -> push_active_vault -> push_vault.                        *)

PushBegin ==
    /\ session = "open"
    /\ pushPc = "idle"
    /\ OpsDuringPush \/ ~FileOpRunning
    /\ pushPc' = "flush"
    /\ UNCHANGED <<db, staging, cloud, sweep, upBlobs, flush, delete,
                   pushLocal, pushTodo, pushSent, pushSnap, drain>>

(* Mutant of PushProbe: the cloud counter is not compared.                  *)
PushProbeBlind ==
    /\ pushPc = "probe"
    /\ pushLocal' = counter
    /\ pushPc' = "list"
    /\ UNCHANGED <<db, staging, cloud, sweep, upBlobs, flush, delete,
                   pushTodo, pushSent, pushSnap, drain>>

(* Read the local counter, then compare with the cloud manifest: a cloud   *)
(* that is ahead is a conflict, a failing download an error.  A manifest    *)
(* that does not open counts as none, and nothing is compared.             *)
PushProbe ==
    /\ pushPc = "probe"
    /\ \/ /\ opens => cloudManifest.counter <= counter
          /\ pushPc' = "list" /\ pushLocal' = counter
       \/ pushPc' = "idle" /\ UNCHANGED pushLocal
    /\ UNCHANGED <<db, staging, cloud, sweep, upBlobs, flush, delete,
                   pushTodo, pushSent, pushSnap, drain>>

(* list_sync_chunks, keeping the blobs whose file is in staging/pending.   *)
PushList ==
    /\ pushPc = "list"
    /\ pushTodo' = Referenced \cap pending
    /\ pushPc' = "upload"
    /\ UNCHANGED <<db, staging, cloud, sweep, upBlobs, flush, delete,
                   pushLocal, pushSent, pushSnap, drain>>

(* upload_blob_task: the pending file is removed only after the upload.    *)
PushUpload(b) ==
    /\ pushPc \in {"upload", "failing"}
    /\ b \in pushTodo \cap pending
    /\ cloudBlobs' = cloudBlobs \cup {b}
    /\ pushTodo' = pushTodo \ {b}
    /\ pushSent' = pushSent \cup {b}
    /\ UNCHANGED <<db, staging, cloudManifest, opens, sweep, upBlobs, flush, delete,
                   pushPc, pushLocal, pushSnap, drain>>

PushUnstage(b) ==
    /\ b \in pushSent
    /\ pending' = pending \ {b}
    /\ pushSent' = pushSent \ {b}
    /\ UNCHANGED <<db, cache, root, used, cloud, sweep, upBlobs, flush, delete,
                   pushPc, pushLocal, pushTodo, pushSnap, drain>>

(* Mutant of PushUploadFail: the staged file goes even after an error.     *)
PushUploadFailUnstages(b) ==
    /\ pushPc \in {"upload", "failing"}
    /\ b \in pushTodo
    /\ pending' = pending \ {b}
    /\ pushTodo' = pushTodo \ {b}
    /\ pushPc' = "failing"
    /\ UNCHANGED <<db, cache, root, used, cloud, sweep, upBlobs, flush, delete,
                   pushLocal, pushSent, pushSnap, drain>>

(* A transport error may hide an object that was stored.  The driver       *)
(* starts nothing new and lets the uploads in flight finish.                *)
PushUploadFail(b) ==
    /\ pushPc \in {"upload", "failing"}
    /\ b \in pushTodo
    /\ cloudBlobs' \in {cloudBlobs} \cup (IF b \in pending THEN {cloudBlobs \cup {b}} ELSE {})
    /\ pushTodo' = pushTodo \ {b}
    /\ pushPc' = "failing"
    /\ UNCHANGED <<db, staging, cloudManifest, opens, sweep, upBlobs, flush, delete,
                   pushLocal, pushSent, pushSnap, drain>>

PushAbort ==
    /\ pushPc = "failing"
    /\ pushSent = {}
    /\ pushTodo' = {}
    /\ pushLocal' = 0
    /\ pushPc' = "idle"
    /\ UNCHANGED <<db, staging, cloud, sweep, upBlobs, flush, delete,
                   pushSent, pushSnap, drain>>

(* increment_snapshot_counter (an error when it would overflow), then      *)
(* set_meta(last_synced_at), whose error leaves the counter incremented.    *)
PushIncrement ==
    /\ pushPc = "upload"
    /\ pushTodo = {} /\ pushSent = {}
    /\ \/ counter < MaxCounter /\ counter' = counter + 1 /\ pushPc' \in {"snapshot", "idle"}
       \/ counter = MaxCounter /\ UNCHANGED counter /\ pushPc' = "idle"
    /\ pushLocal' = IF pushPc' = "idle" THEN 0 ELSE pushLocal
    /\ UNCHANGED <<node, sized, refs, epochBlobs, buffer, pendingDel, staging, cloud, sweep,
                   upBlobs, flush, delete, pushTodo, pushSent, pushSnap, drain>>

(* VACUUM INTO: a consistent copy of the database as it is now.             *)
PushSnapshot ==
    /\ pushPc = "snapshot"
    /\ pushSnap' = [counter |-> counter, blobs |-> Referenced]
    /\ pushPc' = "manifest"
    /\ UNCHANGED <<db, staging, cloud, sweep, upBlobs, flush, delete,
                   pushLocal, pushTodo, pushSent, drain>>

PushManifest ==
    /\ pushPc = "manifest"
    /\ cloudManifest' = pushSnap /\ opens' = TRUE
    /\ pushSnap' = NoManifest
    /\ pushLocal' = 0
    /\ pushPc' = "header"
    /\ UNCHANGED <<db, staging, cloudBlobs, sweep, upBlobs, flush, delete,
                   pushTodo, pushSent, drain>>

(* A failed manifest upload, stored or not, rolls the counter back; the    *)
(* rollback itself may fail.                                                *)
RolledBack == IF counter = pushLocal + 1 THEN pushLocal ELSE counter

PushManifestFail ==
    /\ pushPc \in {"snapshot", "manifest"}
    /\ \/ UNCHANGED <<cloudManifest, opens>>
       \/ pushPc = "manifest" /\ cloudManifest' = pushSnap /\ opens' = TRUE
    /\ counter' \in {RolledBack, counter}
    /\ pushSnap' = NoManifest
    /\ pushLocal' = 0
    /\ pushPc' = "idle"
    /\ UNCHANGED <<node, sized, refs, epochBlobs, buffer, pendingDel, staging, cloudBlobs,
                   sweep, upBlobs, flush, delete, pushTodo, pushSent, drain>>

PushHeader ==
    /\ pushPc = "header"
    /\ \/ pushPc' = "drain"
       \/ pushPc' = "idle"
    /\ drainStuck' = FALSE
    /\ UNCHANGED <<db, staging, cloud, sweep, upBlobs, flush, delete,
                   pushLocal, pushTodo, pushSent, pushSnap, drainLeft, drainCur>>

(* Any other error returns from push_vault: listing the chunks, creating   *)
(* the cloud folder, incrementing the counter, or a database error in the  *)
(* middle of the drain.                                                     *)
PushError ==
    /\ \/ pushPc \in {"list", "drain"}
       \/ pushPc = "upload" /\ pushTodo = {} /\ pushSent = {}
    /\ pushPc' = "idle"
    /\ pushLocal' = 0
    /\ drainLeft' = {} /\ drainCur' = NoBlob /\ drainStuck' = FALSE
    /\ UNCHANGED <<db, staging, cloud, sweep, upBlobs, flush, delete,
                   pushTodo, pushSent, pushSnap>>

(* The object is damaged, or a recovery by phrase without a transport gives *)
(* the vault another manifest key than the one it was written under.        *)
ManifestUnreadable ==
    /\ cloudManifest # NoManifest
    /\ opens' = FALSE
    /\ UNCHANGED <<db, staging, cloudBlobs, cloudManifest, sweep, upBlobs, flush, delete,
                   push, drain>>

-----------------------------------------------------------------------------
(* drain_pending_deletions: batches of queued names until the queue is     *)
(* empty or a whole batch makes no progress.  drainStuck holds while the     *)
(* current batch has made none.                                             *)

(* Mutant of DrainList: the no-progress check is gone.                      *)
DrainListEager ==
    /\ pushPc = "drain" /\ drainLeft = {} /\ drainCur = NoBlob
    /\ IF pendingDel = {}
       THEN pushPc' = "idle" /\ drainStuck' = FALSE /\ UNCHANGED drainLeft
       ELSE drainLeft' = pendingDel /\ drainStuck' = TRUE /\ UNCHANGED pushPc
    /\ UNCHANGED <<db, staging, cloud, sweep, upBlobs, flush, delete,
                   pushLocal, pushTodo, pushSent, pushSnap, drainCur>>

DrainList ==
    /\ pushPc = "drain" /\ drainLeft = {} /\ drainCur = NoBlob
    /\ IF pendingDel = {} \/ drainStuck
       THEN pushPc' = "idle" /\ drainStuck' = FALSE /\ UNCHANGED drainLeft
       ELSE drainLeft' = pendingDel /\ drainStuck' = TRUE /\ UNCHANGED pushPc
    /\ UNCHANGED <<db, staging, cloud, sweep, upBlobs, flush, delete,
                   pushLocal, pushTodo, pushSent, pushSnap, drainCur>>

(* Deleted now, or NotFound: either way the object is not there.            *)
DrainDelete(b) ==
    /\ pushPc = "drain" /\ b \in drainLeft /\ drainCur = NoBlob
    /\ cloudBlobs' = cloudBlobs \ {b}
    /\ drainCur' = b
    /\ drainLeft' = drainLeft \ {b}
    /\ UNCHANGED <<db, staging, cloudManifest, opens, sweep, upBlobs, flush, delete, push, drainStuck>>

DrainMark ==
    /\ pushPc = "drain" /\ drainCur # NoBlob
    /\ pendingDel' = pendingDel \ {drainCur}
    /\ drainCur' = NoBlob
    /\ drainStuck' = FALSE
    /\ UNCHANGED <<node, sized, refs, epochBlobs, buffer, counter, staging, cloud, sweep,
                   upBlobs, flush, delete, push, drainLeft>>

(* Any other error leaves the row queued, whatever became of the object.   *)
DrainDeleteFail(b) ==
    /\ pushPc = "drain" /\ b \in drainLeft /\ drainCur = NoBlob
    /\ cloudBlobs' \in {cloudBlobs, cloudBlobs \ {b}}
    /\ drainLeft' = drainLeft \ {b}
    /\ UNCHANGED <<db, staging, cloudManifest, opens, sweep, upBlobs, flush, delete, push,
                   drainCur, drainStuck>>

-----------------------------------------------------------------------------
(* The session.  authenticate opens it and runs prepare_vault_storage:     *)
(* flat blobs move to pending, the manifest's blob names are listed, then  *)
(* the unknown blobs of pending and cache are removed.                      *)

PrepareMigrate ==
    /\ session = "closed"
    /\ session' = "migrated"
    /\ pending' = pending \cup root
    /\ root' = {}
    /\ UNCHANGED <<db, cache, used, cloud, known, upBlobs, flush, delete, push, drain>>

PrepareList ==
    /\ session = "migrated"
    /\ session' = "listed"
    /\ known' = Referenced
    /\ UNCHANGED <<db, staging, cloud, upBlobs, flush, delete, push, drain>>

PrepareSweep ==
    /\ session = "listed"
    /\ session' = "open"
    /\ pending' = pending \cap known
    /\ cache' = cache \cap known
    /\ known' = {}
    /\ UNCHANGED <<db, root, used, cloud, upBlobs, flush, delete, push, drain>>

MayLock == session = "open" /\ LockMayInterrupt

(* lock_session without a flush: the epoch buffer is off, or its setting or *)
(* the key cannot be read.  The cache goes with the session.                *)
LockSession ==
    /\ MayLock
    /\ session' = "closed"
    /\ cache' = {}
    /\ UNCHANGED <<db, pending, root, used, cloud, known, upBlobs, flush, delete, push, drain>>

(* The inactivity timer drops the keys and leaves every file alone.        *)
SessionTimeout ==
    /\ MayLock
    /\ session' = "closed"
    /\ UNCHANGED <<db, staging, cloud, known, upBlobs, flush, delete, push, drain>>

(* The process dies: tasks are gone, database and files stay.               *)
Crash ==
    /\ session' = "closed" /\ known' = {}
    /\ node' = [f \in Files |-> IF node[f] = "uploading" THEN "gone" ELSE node[f]]
    /\ upBlobs' = [f \in Files |-> {}]
    /\ flPc' = "idle" /\ flBy' = "user"
    /\ flLeft' = {} /\ flBatch' = {} /\ flBlob' = NoBlob
    /\ delPc' = [f \in Files |-> "idle"]
    /\ delBlobs' = [f \in Files |-> {}]
    /\ pushPc' = "idle" /\ pushLocal' = 0
    /\ pushTodo' = {} /\ pushSent' = {} /\ pushSnap' = NoManifest
    /\ drainLeft' = {} /\ drainCur' = NoBlob /\ drainStuck' = FALSE
    /\ UNCHANGED <<sized, refs, epochBlobs, buffer, pendingDel, counter, staging, cloud>>

-----------------------------------------------------------------------------
FileStep ==
    \E f \in Files :
        \/ UploadBegin(f) \/ UploadWriteBlob(f) \/ UploadCommit(f) \/ UploadFail(f)
        \/ StageEpoch(f)
        \/ DeleteRead(f) \/ DeleteCommit(f) \/ DeleteFail(f) \/ DeleteUnlink(f)
        \/ FetchBlob(f)

FlushStep ==
    \/ \E by \in {"user", "push", "lock"} : FlushRead(by)
    \/ FlushPack \/ FlushCommit \/ FlushFail \/ FlushEnd

PushStep ==
    \/ PushProbe \/ PushList
    \/ \E b \in Blobs : PushUpload(b) \/ PushUnstage(b) \/ PushUploadFail(b)
    \/ PushAbort \/ PushIncrement \/ PushSnapshot
    \/ PushManifest \/ PushManifestFail \/ PushHeader \/ PushError

DrainStep ==
    \/ DrainList \/ DrainMark
    \/ \E b \in Blobs : DrainDelete(b) \/ DrainDeleteFail(b)

SessionStep ==
    PrepareMigrate \/ PrepareList \/ PrepareSweep \/ LockSession \/ SessionTimeout \/ Crash

Next ==
    \/ FileStep \/ FlushStep \/ PushBegin \/ PushStep \/ DrainStep \/ SessionStep
    \/ ManifestUnreadable

Spec == Init /\ [][Next]_vars

(* Tasks that run are polled until they finish, transport calls return (the *)
(* transport has a timeout) and tokio's Mutex hands flush_mutex over in     *)
(* FIFO order; users, locks and crashes owe nothing.  A push and its drain  *)
(* are one task: an error that could end it is not owed either.             *)
Fairness ==
    /\ WF_vars(PushStep \/ DrainStep)
    /\ WF_vars(FlushPack \/ FlushCommit \/ FlushFail \/ FlushEnd)
    /\ SF_vars(FlushRead("push"))

FairSpec == Spec /\ Fairness

-----------------------------------------------------------------------------
(* Properties.                                                              *)

(* No blob that a file of the manifest still refers to is ever queued for  *)
(* deletion from the cloud (delete_node's NOT EXISTS clause, the uniqueness *)
(* of standalone blob names and the freshness of new names together).       *)
QueuedUnreferenced == pendingDel \cap Referenced = {}

(* What makes QueuedUnreferenced inductive.  Only rows have chunk rows and *)
(* only running uploads hold staged names.                                  *)
RefsOfRows ==
    \A f \in Files :
        /\ node[f] # "row" => refs[f] = {}
        /\ node[f] # "uploading" => upBlobs[f] = {}

(* Every name that some task or table knows was generated once.             *)
NamesUsed ==
    /\ Referenced \cup pendingDel \subseteq used
    /\ \A f \in Files : upBlobs[f] \subseteq used
    /\ flBlob # NoBlob => flBlob \in used

(* A name that is staged and not committed yet belongs to one task, and no *)
(* table lists it.                                                          *)
StagedPrivate ==
    /\ \A f \in Files :
        /\ upBlobs[f] \cap (Referenced \cup pendingDel) = {}
        /\ flBlob \notin upBlobs[f]
        /\ \A g \in Files \ {f} : upBlobs[f] \cap upBlobs[g] = {}
    /\ flBlob \notin Referenced \cup pendingDel

(* Only epoch blobs are shared between files, and each of them has one.     *)
SharedAreEpoch ==
    /\ \A f, g \in Files : f # g => refs[f] \cap refs[g] \subseteq epochBlobs
    /\ \A b \in epochBlobs : \E f \in Files : b \in refs[f]

(* The drain works on rows that are still queued.                           *)
DrainQueued ==
    /\ drainLeft \subseteq pendingDel
    /\ drainCur # NoBlob => drainCur \in pendingDel \ drainLeft

(* A flush commits a batch only while it holds its blob.                    *)
FlushHolds == flPc = "staged" => flBlob # NoBlob /\ flBatch # {}

QueueInv ==
    /\ TypeOK
    /\ RefsOfRows /\ NamesUsed /\ StagedPrivate /\ SharedAreEpoch
    /\ DrainQueued /\ FlushHolds
    /\ QueuedUnreferenced

(* The drain never removes from the cloud an object the local manifest     *)
(* still lists, although it works from a batch it listed earlier and       *)
(* uploads, flushes and deletes run between the listing and the call.       *)
CloudDeleteSafe == [][(cloudBlobs \ cloudBlobs') \cap Referenced = {}]_vars

(* Every object in the cloud is listed by the manifest or queued for       *)
(* deletion: no failed push, crash or delete racing an upload leaks one.    *)
NoCloudLeak == cloudBlobs \subseteq Referenced \cup pendingDel

(* What makes NoCloudLeak inductive: what a push may still upload is       *)
(* listed or queued, nothing is uploaded while the queue is drained, and    *)
(* the object of the row about to be marked is gone; a push that waits for *)
(* its flush does nothing else.                                             *)
LeakInv ==
    /\ NoCloudLeak
    /\ pushTodo \subseteq Referenced \cup pendingDel
    /\ pushPc \notin {"upload", "failing"} => pushTodo = {}
    /\ drainCur # NoBlob => drainCur \notin cloudBlobs /\ pushPc = "drain"
    /\ flBy = "push" => pushPc = "flush"

(* Two different manifests never carry the same snapshot_counter, and the  *)
(* cloud never goes back to an older one, across failed uploads,            *)
(* rollbacks and crashes: the conflict check of a later push relies on it.  *)
(* The one exception is a manifest that does not open when it is replaced:  *)
(* push_vault treats it as none and compares no counter with it.            *)
ManifestsOrdered ==
    [][cloudManifest' # cloudManifest /\ opens =>
           cloudManifest'.counter > cloudManifest.counter]_vars

(* A push always comes to an end: no combination of failing uploads,       *)
(* failing cloud deletions and files deleted meanwhile keeps the drain      *)
(* loop or the upload driver going for ever.                                *)
PushEnds == pushPc # "idle" ~> pushPc = "idle"

(* Every blob of its own that a committed file has is in staging or in the *)
(* cloud, however uploads, pushes and deletions fail or overlap (the cache  *)
(* does not count: a lock empties it).  Blobs shared by packed files are in *)
(* Transfer.                                                                *)
NoLostBlob == Referenced \ epochBlobs \subseteq pending \cup root \cup cloudBlobs

-----------------------------------------------------------------------------
(* Statements of documents and comments that the code does not keep in every *)
(* case; the README says how TLC refutes each.                               *)

(* "after the first successful push, the cloud is in a consistent state. A *)
(* new device can ... restore the full vault": every blob the cloud        *)
(* manifest lists is in the cloud.                                          *)
CloudRestorable == cloudManifest.blobs \subseteq cloudBlobs

(* Whenever no flush is running, a file with content has chunk rows or its *)
(* plaintext is in the epoch buffer: "a crash between the two writes       *)
(* cannot leave an orphaned node with no buffer entry" (sqlcipher.rs).      *)
NoOrphanedNode ==
    flPc = "idle" => \A f \in sized : refs[f] # {} \/ f \in buffer

(* "cloud_counter > local_counter: another device pushed": with one device *)
(* the cloud is never ahead of it when it compares.                         *)
NoSelfConflict == pushPc = "probe" => cloudManifest.counter <= counter

(* "Orphan cleanup never deletes a blob that is referenced in the          *)
(* manifest".                                                               *)
SweepKeepsReferenced ==
    [][PrepareSweep => (pending \cup cache) \cap Referenced \subseteq pending' \cup cache']_vars
=============================================================================
