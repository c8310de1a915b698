---------------------------- MODULE CloudSyncProofs ----------------------------
(***************************************************************************)
(* Proofs about CloudSync, for any number of devices and files: type        *)
(* correctness whatever the perils; without them (Perils = {}), that the    *)
(* cloud's manifest is backed by blobs, that no blob is orphaned, and that *)
(* CloudSync implements SharedVault.                                        *)
(***************************************************************************)
EXTENDS CloudSync, TLAPS

-----------------------------------------------------------------------------
(* What holds under every peril.                                            *)

(* A device pushes while its frontend shows syncing, pulls while it shows   *)
(* pulling, and so never does both.                                         *)
UiMatches == \A d \in Devices :
    /\ pushPc[d] # "idle" => ui[d] = "syncing"
    /\ pullPc[d] # "idle" => ui[d] = "pulling"

(* A task that is not running has forgotten everything.                    *)
IdleIsBlank == \A d \in Devices :
    /\ pushPc[d] \in {"idle", "flush", "probe", "list"} => todo[d] = {} /\ up[d] = {}
    /\ pullPc[d] = "idle" => kept[d] = {} /\ seen[d] = NoManifest

CounterRoom == \A d \in Devices :
    /\ pushPc[d] \in {"list", "upload"} => counter[d] < MaxCounter
    /\ pushPc[d] = "publish" => counter[d] > 0

(* A device without the database has nothing.                               *)
Strangers == \A d \in Devices \ joined :
    /\ files[d] = {} /\ dels[d] = {} /\ Local(d) = {} /\ counter[d] = 0
    /\ pushPc[d] = "idle" /\ pullPc[d] = "idle" /\ ui[d] = "idle"

StateOK == TypeOK /\ UiMatches /\ IdleIsBlank /\ CounterRoom /\ Strangers

-----------------------------------------------------------------------------
(* What holds when none of the perils happens.                              *)

Mid(d)    == pushPc[d] \in {"list", "upload", "publish"}
Up(d)     == IF Mid(d) THEN up[d] ELSE {}
InSync(d) == counter[d] >= manifest.counter

OnePublisher == \A d, e \in Devices : Mid(d) /\ Mid(e) => d = e

(* Only a publisher is ahead of the cloud, by the one increment it made,    *)
(* and a manifest is known by its counter.                                  *)
CountersFollow ==
    /\ manifest.counter = 0 => manifest = NoManifest
    /\ \A d \in Devices :
         /\ pushPc[d] = "publish" => counter[d] = manifest.counter + 1
         /\ pushPc[d] # "publish" => counter[d] <= manifest.counter
         /\ pushPc[d] \in {"list", "upload"} => counter[d] = manifest.counter
         /\ seen[d].counter <= manifest.counter
         /\ seen[d].counter = manifest.counter => seen[d] = manifest

(* Nothing names a file that was never uploaded.                            *)
EverAdded ==
    /\ manifest.files \cup manifest.dels \cup cloudBlobs \subseteq added
    /\ \A d \in Devices :
         /\ files[d] \cup dels[d] \cup Local(d) \subseteq added
         /\ seen[d].files \cup seen[d].dels \subseteq added

(* A buffered or staged file is known to its own device only, and not       *)
(* queued there.                                                            *)
StagedPrivate == \A d \in Devices :
    /\ Local(d) \cap (cloudBlobs \cup manifest.files \cup manifest.dels) = {}
    /\ \A e \in Devices :
         /\ Local(d) \cap (dels[e] \cup seen[e].files \cup seen[e].dels) = {}
         /\ e # d => Local(d) \cap (files[e] \cup Local(e)) = {}

(* Who probes, publishes or pulls has flushed, so no manifest has a buffer; *)
(* nothing is left in a staging root.                                       *)
Unbuffered ==
    /\ manifest.buffer = {}
    /\ \A d \in Devices :
         /\ root[d] = {} /\ seen[d].buffer = {}
         /\ pushPc[d] \notin {"idle", "flush"} \/ pullPc[d] # "idle" => buffer[d] = {}

(* A push lists the staged files and leaves none when it publishes.         *)
PushCovers == \A d \in Devices :
    /\ pushPc[d] = "upload" => files[d] \cap pending[d] \subseteq todo[d] /\ todo[d] \subseteq files[d]
    /\ pushPc[d] = "publish" => files[d] \cap pending[d] = {}
    /\ pushPc[d] \in {"upload", "publish"} => up[d] \subseteq cloudBlobs \cap files[d]

(* A pull keeps what it collected until it has put it back.                 *)
PullKeeps == \A d \in Devices :
    /\ kept[d] \subseteq pending[d]
    /\ pullPc[d] \in {"collected", "seen", "closed"} =>
           kept[d] = files[d] \cap pending[d]
    /\ pullPc[d] = "drain" => kept[d] = {}

(* Deletions some manifest has published: what a drain may carry out.       *)
Published(d) ==
    seen[d].dels
    \cup IF pushPc[d] = "drain" \/ pullPc[d] \in {"reinsert", "drain"} THEN dels[d] ELSE {}

(* They are final: neither the manifest nor a device in sync has the file.  *)
PublishedIsFinal ==
    /\ manifest.dels \cap manifest.files = {}
    /\ \A d \in Devices :
         /\ dels[d] \cap files[d] = {} /\ seen[d].dels \cap seen[d].files = {}
         /\ Published(d) \cap manifest.files = {}
         /\ InSync(d) => manifest.dels \cap files[d] = {}
         /\ \A e \in Devices : InSync(e) => Published(d) \cap files[e] = {}

(* A device in sync differs from the manifest by what it staged, what it is *)
(* uploading and what it deleted; its queue still has the manifest's.       *)
SyncedDiffers == \A d \in Devices : InSync(d) =>
    /\ files[d] \subseteq manifest.files \cup Local(d) \cup Up(d)
    /\ manifest.files \ files[d] \subseteq condemned
    /\ cloudBlobs \cap (manifest.files \cup manifest.dels) \subseteq files[d] \cup dels[d]

CloudListed ==
    cloudBlobs \subseteq manifest.files \cup manifest.dels \cup UNION {Up(d) : d \in Devices}

(* What a finished push uploaded was published.                             *)
DrainListed == \A d \in Devices : pushPc[d] = "drain" =>
    files[d] \cap up[d] \subseteq manifest.files \cup condemned

QuietInv ==
    /\ OnePublisher /\ CountersFollow /\ EverAdded /\ StagedPrivate
    /\ PushCovers /\ PullKeeps /\ PublishedIsFinal /\ SyncedDiffers
    /\ CloudListed /\ DrainListed /\ ManifestBacked

-----------------------------------------------------------------------------
(* StateOK is inductive: one lemma per group of actions.                    *)
LEMMA BlankManifest == NoManifest \in Manifests
  BY CounterAssumption DEF NoManifest, Manifests

LEMMA InitState == Init => StateOK
  BY CounterAssumption, PerilsAssumption, BlankManifest
     DEF Init, StateOK, TypeOK, UiMatches, IdleIsBlank, CounterRoom, Strangers, Local, PushSteps,
         PullSteps, UiStates

LEMMA FileState ==
    ASSUME StateOK, NEW d \in Devices, NEW f \in Files,
           Upload(d, f) \/ Delete(d, f) \/ PushUpload(d, f) \/ PushDrain(d, f) \/
           PullReinsert(d, f) \/ PullDrain(d, f)
    PROVE  StateOK'
  <1> USE CounterAssumption, BlankManifest
      DEF StateOK, TypeOK, UiMatches, IdleIsBlank, CounterRoom, Strangers, Local, PushSteps,
          PullSteps, UiStates, Manifests, db, staging, cloud, push, pull, hist
  <1>1. CASE Upload(d, f)
    <2>1. /\ d \in open /\ files' = [files EXCEPT ![d] = @ \cup {f}] /\ added' = added \cup {f}
          /\ UNCHANGED <<joined, open, dels, counter, root, cloud, ui, push, pull, condemned>>
      BY <1>1 DEF Upload, MayChange
    <2>2. \/ pending' = [pending EXCEPT ![d] = @ \cup {f}] /\ UNCHANGED buffer
          \/ buffer' = [buffer EXCEPT ![d] = @ \cup {f}] /\ UNCHANGED pending
      BY <1>1 DEF Upload
    <2>3. CASE pending' = [pending EXCEPT ![d] = @ \cup {f}] /\ UNCHANGED buffer
      BY <2>1, <2>3
    <2>4. CASE buffer' = [buffer EXCEPT ![d] = @ \cup {f}] /\ UNCHANGED pending
      BY <2>1, <2>4
    <2>5. QED BY <2>2, <2>3, <2>4
  <1>2. CASE Delete(d, f)
    BY <1>2 DEF Delete, MayChange
  <1>3. CASE PushUpload(d, f)
    BY <1>3 DEF PushUpload
  <1>4. CASE PushDrain(d, f)
    BY <1>4 DEF PushDrain, Drain
  <1>5. CASE PullReinsert(d, f)
    BY <1>5 DEF PullReinsert, Reinserted
  <1>6. CASE PullDrain(d, f)
    BY <1>6 DEF PullDrain, Drain
  <1>7. QED BY <1>1, <1>2, <1>3, <1>4, <1>5, <1>6

LEMMA FlushState ==
    ASSUME StateOK, NEW d \in Devices,
           (\E by \in FlushCallers : Flush(d, by)) \/ PushFlushFail(d)
    PROVE  StateOK'
  <1> USE CounterAssumption, BlankManifest
      DEF StateOK, TypeOK, UiMatches, IdleIsBlank, CounterRoom, Strangers, Local, PushSteps,
          PullSteps, UiStates, Manifests, db, staging, cloud, push, pull, hist
  <1>1. CASE \E by \in FlushCallers : Flush(d, by)
    <2>1. PICK by \in FlushCallers : Flush(d, by)
      BY <1>1
    <2>2. CASE by = "push_active_vault"
      <3>1. /\ pushPc[d] = "flush" /\ pushPc' = [pushPc EXCEPT ![d] = "probe"]
            /\ pending' = [pending EXCEPT ![d] = @ \cup buffer[d]]
            /\ buffer' = [buffer EXCEPT ![d] = {}]
            /\ UNCHANGED <<joined, open, files, dels, counter, root, cloud, ui, pull, hist>>
            /\ UNCHANGED <<todo, up>>
        BY <2>1, <2>2 DEF Flush, PushAt
      <3>2. QED BY <3>1
    <2>3. CASE by # "push_active_vault"
      BY <2>1, <2>3, SMTT(20) DEF Flush
    <2>4. QED BY <2>2, <2>3
  <1>2. CASE PushFlushFail(d)
    <2>1. PICK packed \in Packed(d) : /\ pending' = [pending EXCEPT ![d] = @ \cup packed]
                                     /\ buffer' = [buffer EXCEPT ![d] = Left(d, packed)]
      BY <1>2 DEF PushFlushFail
    <2>2. packed \subseteq buffer[d] /\ Left(d, packed) \subseteq buffer[d]
      BY <2>1 DEF Packed, Left
    <2>3. QED BY <1>2, <2>1, <2>2 DEF PushFlushFail, EndPush
  <1>3. QED BY <1>1, <1>2

LEMMA DeviceState ==
    ASSUME StateOK, NEW d \in Devices,
           Sync(d) \/ DismissConflict(d) \/ PullThenSync(d) \/ Join(d) \/ Restart(d)
    PROVE  StateOK'
  <1> USE CounterAssumption, BlankManifest
      DEF StateOK, TypeOK, UiMatches, IdleIsBlank, CounterRoom, Strangers, Local, PushSteps,
          PullSteps, UiStates, Manifests, db, staging, cloud, push, pull, hist
  <1>1. CASE Sync(d)
    BY <1>1 DEF Sync, PushAt
  <1>2. CASE DismissConflict(d)
    BY <1>2 DEF DismissConflict
  <1>3. CASE PullThenSync(d)
    BY <1>3 DEF PullThenSync, CollectPending, HasRow
  <1>4. CASE Join(d)
    BY <1>4 DEF Join
  <1>5. CASE Restart(d)
    <2>1. PICK packed \in Packed(d) :
            /\ packed # {} => d \in open
            /\ pending' = [pending EXCEPT ![d] = (@ \cup root[d] \cup packed) \cap files[d]]
            /\ buffer' = [buffer EXCEPT ![d] = Left(d, packed)]
      BY <1>5 DEF Restart
    <2>2. packed \subseteq buffer[d] /\ Left(d, packed) \subseteq buffer[d]
      BY <2>1 DEF Packed, Left
    <2>3. QED BY <1>5, <2>1, <2>2 DEF Restart, EndPush, EndPull
  <1>6. QED BY <1>1, <1>2, <1>3, <1>4, <1>5

LEMMA PushState ==
    ASSUME StateOK, NEW d \in Devices,
           PushProbe(d) \/ PushList(d) \/ PushIncrement(d) \/ PushManifest(d) \/
           PushManifestFail(d) \/ PushFail(d) \/ PushEnd(d)
    PROVE  StateOK'
  <1> USE CounterAssumption, BlankManifest
      DEF StateOK, TypeOK, UiMatches, IdleIsBlank, CounterRoom, Strangers, Local, PushSteps,
          PullSteps, UiStates, Manifests, db, staging, cloud, push, pull, hist
  <1>1. CASE PushProbe(d)
    <2>1. CASE EndPush(d) /\ ui' = [ui EXCEPT ![d] = "conflict"]
      <3>1. /\ pushPc[d] = "probe" /\ EndPush(d) /\ ui' = [ui EXCEPT ![d] = "conflict"]
            /\ UNCHANGED <<joined, open, db, staging, cloud, pull, hist>>
        BY <1>1, <2>1 DEF PushProbe
      <3>2. QED BY <3>1 DEF EndPush
    <2>2. CASE PushAt(d, "list")
      <3>1. /\ pushPc[d] = "probe" /\ pushPc' = [pushPc EXCEPT ![d] = "list"]
            /\ counter[d] < MaxCounter
            /\ UNCHANGED <<joined, open, db, staging, cloud, ui, todo, up, pull, hist>>
        BY <1>1, <2>2 DEF PushProbe, PushAt, EndPush
      <3>2. QED BY <3>1
    <2>3. QED BY <1>1, <2>1, <2>2 DEF PushProbe
  <1>2. CASE PushList(d)
    BY <1>2 DEF PushList
  <1>3. CASE PushIncrement(d)
    BY <1>3 DEF PushIncrement, PushAt
  <1>4. CASE PushManifest(d)
    BY <1>4 DEF PushManifest, Export, PushAt
  <1>5. CASE PushManifestFail(d)
    BY <1>5 DEF PushManifestFail, Export, EndPush
  <1>6. CASE PushFail(d)
    BY <1>6 DEF PushFail, EndPush
  <1>7. CASE PushEnd(d)
    BY <1>7 DEF PushEnd, EndPush
  <1>8. QED BY <1>1, <1>2, <1>3, <1>4, <1>5, <1>6, <1>7

LEMMA PullState ==
    ASSUME StateOK, NEW d \in Devices,
           PullDownload(d) \/ PullClose(d) \/ PullReplace(d) \/ PullReinserted(d) \/
           PullEnd(d) \/ PullFail(d) \/ PullReinsertFail(d)
    PROVE  StateOK'
  <1> USE CounterAssumption, BlankManifest
      DEF StateOK, TypeOK, UiMatches, IdleIsBlank, CounterRoom, Strangers, Local, PushSteps,
          PullSteps, UiStates, Manifests, db, staging, cloud, push, pull, hist
  <1>1. CASE PullDownload(d)
    BY <1>1 DEF PullDownload
  <1>2. CASE PullClose(d)
    BY <1>2 DEF PullClose, PullAt
  <1>3. CASE PullReplace(d)
    BY <1>3 DEF PullReplace, PullAt
  <1>4. CASE PullReinserted(d)
    BY <1>4 DEF PullReinserted, PullAt
  <1>5. CASE PullEnd(d)
    BY <1>5 DEF PullEnd, EndPull, PushAt
  <1>6. CASE PullFail(d)
    BY <1>6 DEF PullFail, EndPull
  <1>7. CASE PullReinsertFail(d)
    BY <1>7 DEF PullReinsertFail, EndPull
  <1>8. QED BY <1>1, <1>2, <1>3, <1>4, <1>5, <1>6, <1>7

LEMMA NextState == StateOK /\ [Next]_vars => StateOK'
  <1> SUFFICES ASSUME StateOK, [Next]_vars PROVE StateOK' OBVIOUS
  <1>1. CASE UNCHANGED vars
    BY <1>1 DEF vars, db, staging, cloud, push, pull, hist, StateOK, TypeOK, UiMatches, IdleIsBlank,
                CounterRoom, Strangers, Local
  <1>2. QED BY <1>1, FileState, FlushState, DeviceState, PushState, PullState DEF Next

(* Every reachable state is well typed, whatever goes wrong: no snapshot    *)
(* counter leaves its range, no rollback goes below zero.                   *)
THEOREM TypeCorrect == Spec => []TypeOK
  <1>1. StateOK => TypeOK
    BY DEF StateOK
  <1>2. QED BY <1>1, InitState, NextState, PTL DEF Spec

-----------------------------------------------------------------------------
(* Unbuffered and then QuietInv are inductive as long as no peril is        *)
(* allowed.                                                                 *)
LEMMA InitUnbuffered == Init => Unbuffered
  BY DEF Init, Unbuffered, NoManifest

LEMMA FlushByPush ==
    ASSUME Perils = {}, NEW d \in Devices, NEW by \in FlushCallers, Flush(d, by)
    PROVE  /\ pushPc[d] = "flush" /\ PushAt(d, "probe")
           /\ pending' = [pending EXCEPT ![d] = @ \cup buffer[d]]
           /\ buffer' = [buffer EXCEPT ![d] = {}]
           /\ UNCHANGED <<joined, open, files, dels, counter, root, cloud, ui, pull, hist>>
  BY DEF Flush, FlushCallers

(* A flush that fails has packed nothing or everything.                     *)
LEMMA PackedAll ==
    ASSUME Perils = {}, NEW d \in Devices, NEW packed \in Packed(d)
    PROVE  /\ packed \subseteq buffer[d]
           /\ packed \cup Left(d, packed) = buffer[d]
  BY DEF Packed, Left

LEMMA NextUnbuffered ==
    ASSUME Perils = {}, StateOK, Unbuffered, [Next]_vars
    PROVE  Unbuffered'
  <1> USE DEF StateOK, TypeOK, UiMatches, IdleIsBlank, Unbuffered, NoManifest, db, staging, cloud,
              push, pull, hist
  <1>1. CASE UNCHANGED vars
    BY <1>1 DEF vars
  <1>2. ASSUME NEW d \in Devices, NEW f \in Files,
               Upload(d, f) \/ Delete(d, f) \/ PushUpload(d, f) \/ PushDrain(d, f) \/
               PullReinsert(d, f) \/ PullDrain(d, f)
        PROVE  Unbuffered'
    BY <1>2 DEF Upload, Delete, MayChange, PushUpload, PushDrain, PullReinsert, PullDrain, Drain
  <1>3. ASSUME NEW d \in Devices, NEW by \in FlushCallers, Flush(d, by) PROVE Unbuffered'
    BY <1>3, FlushByPush DEF PushAt
  <1>4. ASSUME NEW d \in Devices, PushFlushFail(d) PROVE Unbuffered'
    BY <1>4 DEF PushFlushFail, EndPush
  <1>5. ASSUME NEW d \in Devices,
               Sync(d) \/ DismissConflict(d) \/ PullThenSync(d) \/ Join(d)
        PROVE  Unbuffered'
    BY <1>5 DEF Sync, DismissConflict, PullThenSync, Join, PushAt
  <1>6. ASSUME NEW d \in Devices, Restart(d) PROVE Unbuffered'
    BY <1>6 DEF Restart, EndPush, EndPull
  <1>7. ASSUME NEW d \in Devices, PushProbe(d) \/ PushList(d) \/ PushIncrement(d)
        PROVE  Unbuffered'
    BY <1>7 DEF PushProbe, PushList, PushIncrement, PushAt, EndPush
  <1>8. ASSUME NEW d \in Devices,
               PushManifest(d) \/ PushManifestFail(d) \/ PushFail(d) \/ PushEnd(d)
        PROVE  Unbuffered'
    BY <1>8 DEF PushManifest, PushManifestFail, PushFail, PushEnd, Export, PushAt, EndPush
  <1>9. ASSUME NEW d \in Devices,
               PullDownload(d) \/ PullClose(d) \/ PullReplace(d) \/ PullReinserted(d) \/
               PullEnd(d) \/ PullFail(d) \/ PullReinsertFail(d)
        PROVE  Unbuffered'
    BY <1>9 DEF PullDownload, PullClose, PullReplace, PullReinserted, PullEnd, PullFail,
                PullReinsertFail, PullAt, EndPull, PushAt
  <1>10. QED BY <1>1, <1>2, <1>3, <1>4, <1>5, <1>6, <1>7, <1>8, <1>9 DEF Next

LEMMA InitQuiet == Init => QuietInv
  BY CounterAssumption, BlankManifest
     DEF Init, QuietInv, OnePublisher, CountersFollow, EverAdded, StagedPrivate, PushCovers,
         PullKeeps, PublishedIsFinal, SyncedDiffers, CloudListed, DrainListed, ManifestBacked,
         Mid, Up, InSync, Published, NoManifest, Local

(* A manifest is known by its counter.                                      *)
LEMMA SeenIsManifest ==
    ASSUME TypeOK, CountersFollow, NEW d \in Devices, seen[d].counter >= manifest.counter
    PROVE  seen[d] = manifest
  <1>1. seen[d].counter \in Nat /\ manifest.counter \in Nat
    BY CounterAssumption DEF TypeOK, Manifests
  <1>2. QED BY <1>1 DEF CountersFollow

LEMMA PushUploadQuiet ==
    ASSUME Perils = {}, StateOK, Unbuffered, QuietInv, NEW d \in Devices, NEW f \in Files,
           PushUpload(d, f)
    PROVE  QuietInv'
  <1> USE CounterAssumption, BlankManifest
      DEF StateOK, TypeOK, UiMatches, IdleIsBlank, Strangers, Local, Unbuffered, QuietInv,
          PushSteps, PullSteps, Manifests, NoManifest, db, staging, cloud, push, pull, hist
  <1>1. /\ pushPc[d] = "upload" /\ f \in pending[d] /\ f \in todo[d]
        /\ cloudBlobs' = cloudBlobs \cup {f}
        /\ pending' = [pending EXCEPT ![d] = @ \ {f}]
        /\ todo' = [todo EXCEPT ![d] = @ \ {f}] /\ up' = [up EXCEPT ![d] = @ \cup {f}]
        /\ UNCHANGED <<joined, open, files, dels, buffer, root, counter, manifest, pushPc, ui, pull>>
        /\ UNCHANGED hist
    BY DEF PushUpload
  <1>2. OnePublisher'
    BY <1>1 DEF OnePublisher, Mid
  <1>3. CountersFollow'
    BY <1>1 DEF CountersFollow, OnePublisher, Mid
  <1>4. EverAdded'
    BY <1>1 DEF EverAdded, PullKeeps
  <1>5. StagedPrivate'
    <2>1. \A e \in Devices : Local(e)' \subseteq Local(e) /\ (e = d => f \notin Local(e)')
      BY <1>1
    <2>2. f \in Local(d) /\ f \in files[d]
      BY <1>1 DEF PushCovers
    <2>3. \A e \in Devices : f \notin Local(e)'
      BY <2>1, <2>2 DEF StagedPrivate
    <2>4. QED
      <3> HIDE DEF Local
      <3> QED BY <1>1, <2>1, <2>3 DEF StagedPrivate
  <1>6. PushCovers'
    BY <1>1 DEF PushCovers, StagedPrivate, PublishedIsFinal, InSync, Published, CountersFollow
  <1>7. PullKeeps'
    <2>1. kept[d] = {} /\ pullPc[d] = "idle"
      BY <1>1
    <2>2. QED BY <1>1, <2>1 DEF PullKeeps
  <1>8. PublishedIsFinal'
    BY <1>1 DEF PublishedIsFinal, Published, InSync, StagedPrivate, EverAdded, CountersFollow,
                PullKeeps, PushCovers
  <1>9. SyncedDiffers'
    BY <1>1 DEF SyncedDiffers, Up, Mid, InSync, CountersFollow, OnePublisher, StagedPrivate,
                CloudListed, PullKeeps, PushCovers, ManifestBacked
  <1>10. CloudListed'
    BY <1>1 DEF CloudListed, Up, Mid, InSync, SyncedDiffers, PushCovers, OnePublisher,
                CountersFollow
  <1>11. DrainListed'
    BY <1>1 DEF DrainListed, SyncedDiffers, InSync, CountersFollow, PushCovers
  <1>12. ManifestBacked'
    BY <1>1 DEF ManifestBacked, SyncedDiffers, PublishedIsFinal, Published, InSync, Up, Mid,
                PushCovers, CountersFollow
  <1>13. QED BY <1>2, <1>3, <1>4, <1>5, <1>6, <1>7, <1>8, <1>9, <1>10, <1>11, <1>12

LEMMA PushDrainQuiet ==
    ASSUME Perils = {}, StateOK, Unbuffered, QuietInv, NEW d \in Devices, NEW f \in Files,
           PushDrain(d, f)
    PROVE  QuietInv'
  <1> USE CounterAssumption, BlankManifest
      DEF StateOK, TypeOK, UiMatches, IdleIsBlank, Strangers, Local, Unbuffered, QuietInv,
          PushSteps, PullSteps, Manifests, NoManifest, db, staging, cloud, push, pull, hist
  <1>1. /\ f \in dels[d] /\ cloudBlobs' = cloudBlobs \ {f} /\ dels' = [dels EXCEPT ![d] = @ \ {f}]
        /\ f \in Published(d)
        /\ UNCHANGED <<joined, open, files, counter, buffer, staging, manifest, ui, push, pull>>
        /\ UNCHANGED hist
    BY DEF PushDrain, Drain, Published
  <1>2. OnePublisher'
    BY <1>1 DEF OnePublisher, Mid
  <1>3. CountersFollow'
    BY <1>1 DEF CountersFollow, OnePublisher, Mid
  <1>4. EverAdded'
    BY <1>1 DEF EverAdded, PullKeeps
  <1>5. StagedPrivate'
    BY <1>1 DEF StagedPrivate, EverAdded, PushCovers, PullKeeps
  <1>6. PushCovers'
    BY <1>1 DEF PushCovers, StagedPrivate, PublishedIsFinal, InSync, Published, CountersFollow
  <1>7. PullKeeps'
    BY <1>1 DEF PullKeeps, StagedPrivate
  <1>8. PublishedIsFinal'
    BY <1>1 DEF PublishedIsFinal, Published, InSync, StagedPrivate, EverAdded, CountersFollow,
                PullKeeps, PushCovers
  <1>9. SyncedDiffers'
    BY <1>1 DEF SyncedDiffers, Up, Mid, InSync, CountersFollow, OnePublisher, StagedPrivate,
                CloudListed, PullKeeps, PushCovers, ManifestBacked
  <1>10. CloudListed'
    BY <1>1 DEF CloudListed, Up, Mid, InSync, SyncedDiffers, PushCovers, OnePublisher,
                CountersFollow
  <1>11. DrainListed'
    BY <1>1 DEF DrainListed, SyncedDiffers, InSync, CountersFollow, PushCovers
  <1>12. ManifestBacked'
    BY <1>1 DEF ManifestBacked, SyncedDiffers, PublishedIsFinal, Published, InSync, Up, Mid,
                PushCovers, CountersFollow
  <1>13. QED BY <1>2, <1>3, <1>4, <1>5, <1>6, <1>7, <1>8, <1>9, <1>10, <1>11, <1>12

LEMMA PullDrainQuiet ==
    ASSUME Perils = {}, StateOK, Unbuffered, QuietInv, NEW d \in Devices, NEW f \in Files,
           PullDrain(d, f)
    PROVE  QuietInv'
  <1> USE CounterAssumption, BlankManifest
      DEF StateOK, TypeOK, UiMatches, IdleIsBlank, Strangers, Local, Unbuffered, QuietInv,
          PushSteps, PullSteps, Manifests, NoManifest, db, staging, cloud, push, pull, hist
  <1>1. /\ f \in dels[d] /\ cloudBlobs' = cloudBlobs \ {f} /\ dels' = [dels EXCEPT ![d] = @ \ {f}]
        /\ f \in Published(d)
        /\ UNCHANGED <<joined, open, files, counter, buffer, staging, manifest, ui, push, pull>>
        /\ UNCHANGED hist
    BY DEF PullDrain, Drain, Published
  <1>2. OnePublisher'
    BY <1>1 DEF OnePublisher, Mid
  <1>3. CountersFollow'
    BY <1>1 DEF CountersFollow, OnePublisher, Mid
  <1>4. EverAdded'
    BY <1>1 DEF EverAdded, PullKeeps
  <1>5. StagedPrivate'
    BY <1>1 DEF StagedPrivate, EverAdded, PushCovers, PullKeeps
  <1>6. PushCovers'
    BY <1>1 DEF PushCovers, StagedPrivate, PublishedIsFinal, InSync, Published, CountersFollow
  <1>7. PullKeeps'
    BY <1>1 DEF PullKeeps, StagedPrivate
  <1>8. PublishedIsFinal'
    BY <1>1 DEF PublishedIsFinal, Published, InSync, StagedPrivate, EverAdded, CountersFollow,
                PullKeeps, PushCovers
  <1>9. SyncedDiffers'
    BY <1>1 DEF SyncedDiffers, Up, Mid, InSync, CountersFollow, OnePublisher, StagedPrivate,
                CloudListed, PullKeeps, PushCovers, ManifestBacked
  <1>10. CloudListed'
    BY <1>1 DEF CloudListed, Up, Mid, InSync, SyncedDiffers, PushCovers, OnePublisher,
                CountersFollow
  <1>11. DrainListed'
    BY <1>1 DEF DrainListed, SyncedDiffers, InSync, CountersFollow, PushCovers
  <1>12. ManifestBacked'
    BY <1>1 DEF ManifestBacked, SyncedDiffers, PublishedIsFinal, Published, InSync, Up, Mid,
                PushCovers, CountersFollow
  <1>13. QED BY <1>2, <1>3, <1>4, <1>5, <1>6, <1>7, <1>8, <1>9, <1>10, <1>11, <1>12

LEMMA PullReinsertQuiet ==
    ASSUME Perils = {}, StateOK, Unbuffered, QuietInv, NEW d \in Devices, NEW f \in Files,
           PullReinsert(d, f)
    PROVE  QuietInv'
  <1> USE CounterAssumption, BlankManifest
      DEF StateOK, TypeOK, UiMatches, IdleIsBlank, Strangers, Local, Unbuffered, QuietInv,
          PushSteps, PullSteps, Manifests, NoManifest, db, staging, cloud, push, pull, hist
  <1>1. /\ pullPc[d] = "reinsert" /\ pushPc[d] = "idle" /\ f \in kept[d] /\ f \in pending[d]
        /\ files' = [files EXCEPT ![d] = @ \cup {f}] /\ kept' = [kept EXCEPT ![d] = @ \ {f}]
        /\ UNCHANGED <<joined, open, dels, counter, buffer, staging, cloud, ui, push, pullPc, seen>>
        /\ UNCHANGED hist
    BY DEF PullReinsert, Reinserted, PullKeeps
  <1>2. OnePublisher'
    BY <1>1 DEF OnePublisher, Mid
  <1>3. CountersFollow'
    BY <1>1 DEF CountersFollow, OnePublisher, Mid
  <1>4. EverAdded'
    BY <1>1 DEF EverAdded, PullKeeps
  <1>5. StagedPrivate'
    BY <1>1 DEF StagedPrivate, EverAdded, PushCovers, PullKeeps
  <1>6. PushCovers'
    BY <1>1 DEF PushCovers, StagedPrivate, PublishedIsFinal, InSync, Published, CountersFollow
  <1>7. PullKeeps'
    BY <1>1 DEF PullKeeps, StagedPrivate
  <1>8. PublishedIsFinal'
    BY <1>1 DEF PublishedIsFinal, Published, InSync, StagedPrivate, EverAdded, CountersFollow,
                PullKeeps, PushCovers
  <1>9. SyncedDiffers'
    BY <1>1 DEF SyncedDiffers, Up, Mid, InSync, CountersFollow, OnePublisher, StagedPrivate,
                CloudListed, PullKeeps, PushCovers, ManifestBacked
  <1>10. CloudListed'
    BY <1>1 DEF CloudListed, Up, Mid, InSync, SyncedDiffers, PushCovers, OnePublisher,
                CountersFollow
  <1>11. DrainListed'
    BY <1>1 DEF DrainListed, SyncedDiffers, InSync, CountersFollow, PushCovers
  <1>12. ManifestBacked'
    BY <1>1 DEF ManifestBacked, SyncedDiffers, PublishedIsFinal, Published, InSync, Up, Mid,
                PushCovers, CountersFollow
  <1>13. QED BY <1>2, <1>3, <1>4, <1>5, <1>6, <1>7, <1>8, <1>9, <1>10, <1>11, <1>12

LEMMA RestartQuiet ==
    ASSUME Perils = {}, StateOK, Unbuffered, QuietInv, NEW d \in Devices, Restart(d)
    PROVE  QuietInv'
  <1> USE CounterAssumption, BlankManifest
      DEF StateOK, TypeOK, UiMatches, IdleIsBlank, Strangers, Local, Unbuffered, QuietInv,
          PushSteps, PullSteps, Manifests, NoManifest, db, staging, cloud, push, pull, hist
  <1>a. PICK packed \in Packed(d) :
          /\ pending' = [pending EXCEPT ![d] = (@ \cup root[d] \cup packed) \cap files[d]]
          /\ buffer' = [buffer EXCEPT ![d] = Left(d, packed)]
    BY DEF Restart
  <1>b. \A e \in Devices : /\ Local(e)' \subseteq Local(e)
                           /\ Local(e) \cap files[e] \subseteq Local(e)'
                           /\ e # d => pending'[e] = pending[e]
    <2>1. packed \subseteq buffer[d] /\ packed \cup Left(d, packed) = buffer[d]
      BY <1>a, PackedAll
    <2>2. root' = root
      BY DEF Restart
    <2>3. QED BY <1>a, <2>1, <2>2
  <1>c. /\ \A e \in Devices : pushPc'[e] = IF e = d THEN "idle" ELSE pushPc[e]
        /\ \A e \in Devices : pullPc'[e] = IF e = d THEN "idle" ELSE pullPc[e]
        /\ \A e \in Devices : up'[e] = IF e = d THEN {} ELSE up[e]
        /\ \A e \in Devices : todo'[e] = IF e = d THEN {} ELSE todo[e]
        /\ \A e \in Devices : kept'[e] = IF e = d THEN {} ELSE kept[e]
        /\ \A e \in Devices : seen'[e] = IF e = d THEN NoManifest ELSE seen[e]
        /\ pushPc[d] = "drain" \/ (up[d] = {} /\ pushPc[d] # "publish")
        /\ UNCHANGED <<files, dels, counter, cloudBlobs, manifest, hist>>
    BY DEF Restart, EndPush, EndPull
  <1> HIDE DEF Local, Unbuffered
  <1>1. \A e \in Devices : Up(e)' = Up(e)
    BY <1>c DEF Up, Mid
  <1>2. OnePublisher'
    BY <1>b, <1>c, <1>1 DEF OnePublisher, Mid
  <1>3. CountersFollow'
    <2>1. NoManifest \in Manifests /\ NoManifest.counter = 0 /\ manifest.counter \in Nat
      OBVIOUS
    <2>2. \A e \in Devices : /\ seen'[e].counter <= manifest.counter
                             /\ seen'[e].counter = manifest.counter => seen'[e] = manifest
      <3> HIDE DEF NoManifest
      <3> QED BY <1>c, <2>1 DEF CountersFollow
    <2>3. QED
      <3> HIDE DEF NoManifest
      <3> QED BY <1>c, <2>1, <2>2 DEF CountersFollow
  <1>4. EverAdded'
    <2>1. \A e \in Devices : seen'[e].files \cup seen'[e].dels \subseteq added
      <3>1. NoManifest.files = {} /\ NoManifest.dels = {}
        OBVIOUS
      <3>2. \A e \in Devices : seen[e].files \cup seen[e].dels \subseteq added
        BY DEF EverAdded
      <3> HIDE DEF NoManifest
      <3>3. \A e \in Devices : seen'[e] = NoManifest \/ seen'[e] = seen[e]
        BY <1>c
      <3>4. QED BY <3>1, <3>2, <3>3
    <2>2. \A e \in Devices : Local(e)' \subseteq added
      BY <1>b DEF EverAdded
    <2>3. QED
      <3> HIDE DEF NoManifest
      <3> QED BY <1>c, <2>1, <2>2 DEF EverAdded
  <1>5. StagedPrivate'
    BY <1>b, <1>c, <1>1 DEF StagedPrivate, EverAdded, PushCovers, PullKeeps
  <1>6. PushCovers'
    BY <1>b, <1>c, <1>1 DEF PushCovers, StagedPrivate, PublishedIsFinal, InSync,
                Published, CountersFollow
  <1>7. PullKeeps'
    BY <1>b, <1>c, <1>1 DEF PullKeeps, StagedPrivate
  <1>8. PublishedIsFinal'
    BY <1>b, <1>c, <1>1 DEF PublishedIsFinal, Published, InSync, StagedPrivate,
                EverAdded, CountersFollow, PullKeeps, PushCovers
  <1>9. SyncedDiffers'
    BY <1>b, <1>c, <1>1 DEF SyncedDiffers, Up, Mid, InSync, CountersFollow,
                OnePublisher, StagedPrivate, CloudListed, PullKeeps, PushCovers, ManifestBacked
  <1>10. CloudListed'
    BY <1>c, <1>1 DEF CloudListed
  <1>11. DrainListed'
    BY <1>b, <1>c, <1>1 DEF DrainListed, SyncedDiffers, InSync, CountersFollow,
                PushCovers
  <1>12. ManifestBacked'
    BY <1>b, <1>c, <1>1 DEF ManifestBacked, SyncedDiffers, PublishedIsFinal,
                Published, InSync, Up, Mid, PushCovers, CountersFollow
  <1>13. QED BY <1>2, <1>3, <1>4, <1>5, <1>6, <1>7, <1>8, <1>9, <1>10, <1>11, <1>12

LEMMA PushProbeQuiet ==
    ASSUME Perils = {}, StateOK, Unbuffered, QuietInv, NEW d \in Devices, PushProbe(d)
    PROVE  QuietInv'
  <1> USE CounterAssumption, BlankManifest
      DEF StateOK, TypeOK, UiMatches, IdleIsBlank, Strangers, Local, Unbuffered, QuietInv,
          PushSteps, PullSteps, Manifests, NoManifest, db, staging, cloud, push, pull, hist
  <1>1. /\ pushPc[d] = "probe" /\ up[d] = {}
        /\ \A e \in Devices \ {d} : pushPc[e] \in {"idle", "flush", "probe", "drain"}
        /\ UNCHANGED <<joined, open, db, staging, cloud, pull, hist>>
    BY DEF PushProbe, Others
  <1>2. (Behind(d) /\ EndPush(d)) \/ (~Behind(d) /\ PushAt(d, "list"))
    BY DEF PushProbe
  <1>3. /\ pushPc' \in [Devices -> PushSteps] /\ up' \in [Devices -> SUBSET Files]
        /\ \A e \in Devices : up'[e] = up[e]
        /\ \A e \in Devices \ {d} : pushPc'[e] = pushPc[e] /\ todo'[e] = todo[e]
        /\ pushPc'[d] = "idle" \/ (pushPc'[d] = "list" /\ ~Behind(d))
    <2>1. CASE Behind(d) /\ EndPush(d)
      BY <1>1, <2>1 DEF EndPush
    <2>2. CASE ~Behind(d) /\ PushAt(d, "list")
      BY <1>1, <2>2 DEF PushAt
    <2>3. QED BY <1>2, <2>1, <2>2
  <1>4. OnePublisher'
    <2>1. \A e \in Devices \ {d} : ~Mid(e)'
      BY <1>1, <1>3 DEF Mid
    <2>2. QED BY <2>1 DEF OnePublisher
  <1>5. CountersFollow'
    BY <1>1, <1>2, <1>3 DEF Behind, CountersFollow, OnePublisher, Mid
  <1>6. EverAdded'
    BY <1>1, <1>2, <1>3 DEF Behind, EverAdded, PullKeeps
  <1>7. StagedPrivate'
    BY <1>1, <1>2, <1>3 DEF Behind, StagedPrivate, EverAdded, PushCovers, PullKeeps
  <1>8. PushCovers'
    BY <1>1, <1>2, <1>3 DEF Behind, PushCovers, StagedPrivate, PublishedIsFinal, InSync,
                            Published, CountersFollow
  <1>9. PullKeeps'
    BY <1>1, <1>2, <1>3 DEF Behind, PullKeeps, StagedPrivate
  <1>10. PublishedIsFinal'
    BY <1>1, <1>2, <1>3 DEF Behind, PublishedIsFinal, Published, InSync, StagedPrivate,
                            EverAdded, CountersFollow, PullKeeps, PushCovers
  <1>11. SyncedDiffers'
    BY <1>1, <1>2, <1>3 DEF Behind, SyncedDiffers, Up, Mid, InSync, CountersFollow,
                            OnePublisher, StagedPrivate, CloudListed, PullKeeps, PushCovers,
                            ManifestBacked
  <1>12. CloudListed'
    <2>1. \A e \in Devices : Up(e)' = Up(e)
      <3>1. up'[d] = {} /\ up[d] = {}
        BY <1>1, <1>3
      <3>2. \A e \in Devices \ {d} : ~Mid(e) /\ ~Mid(e)'
        BY <1>1, <1>3 DEF Mid
      <3>3. QED BY <3>1, <3>2 DEF Up
    <2>2. QED BY <1>1, <2>1 DEF CloudListed
  <1>13. DrainListed'
    BY <1>1, <1>2, <1>3 DEF Behind, DrainListed, SyncedDiffers, InSync, CountersFollow,
                            PushCovers
  <1>14. ManifestBacked'
    BY <1>1, <1>2, <1>3 DEF Behind, ManifestBacked, SyncedDiffers, PublishedIsFinal, Published,
                            InSync, Up, Mid, PushCovers, CountersFollow
  <1>15. QED BY <1>4, <1>5, <1>6, <1>7, <1>8, <1>9, <1>10, <1>11, <1>12, <1>13, <1>14

LEMMA PushManifestQuiet ==
    ASSUME Perils = {}, StateOK, Unbuffered, QuietInv, NEW d \in Devices, PushManifest(d)
    PROVE  QuietInv'
  <1> USE CounterAssumption, BlankManifest
      DEF StateOK, TypeOK, UiMatches, IdleIsBlank, Strangers, Local, Unbuffered, QuietInv,
          PushSteps, PullSteps, Manifests, NoManifest, db, staging, cloud, push, pull, hist
  <1>1. /\ pushPc[d] = "publish" /\ manifest' = Export(d)
        /\ pushPc' = [pushPc EXCEPT ![d] = "drain"] /\ UNCHANGED <<todo, up>>
        /\ UNCHANGED <<joined, open, db, staging, cloudBlobs, ui, pull, hist>>
    BY DEF PushManifest, PushAt
  <1>2. manifest'.counter = counter[d] /\ manifest'.files = files[d] /\ manifest'.dels = dels[d]
    BY <1>1 DEF Export
  <1>3. \A e \in Devices \ {d} : counter[e] <= manifest.counter
    BY <1>1 DEF CountersFollow, OnePublisher, Mid
  <1>4. /\ counter[d] = manifest.counter + 1 /\ InSync(d)
        /\ files[d] \cap pending[d] = {} /\ Up(d) \subseteq cloudBlobs
    BY <1>1 DEF CountersFollow, PushCovers, InSync, Up, Mid
  <1>5. \A e \in Devices : InSync(e)' => e = d
    BY <1>1, <1>2, <1>3, <1>4 DEF InSync
  <1>6. OnePublisher'
    BY <1>1, <1>2, <1>3, <1>4, <1>5 DEF OnePublisher, Mid
  <1>7. CountersFollow'
    BY <1>1, <1>2, <1>3, <1>4, <1>5 DEF CountersFollow, OnePublisher, Mid
  <1>8. EverAdded'
    BY <1>1, <1>2, <1>3, <1>4, <1>5 DEF EverAdded, PullKeeps
  <1>9. StagedPrivate'
    <2>1. \A e \in Devices : Local(e)' = Local(e)
      BY <1>1
    <2>2. Local(d) \cap files[d] = {} /\ Local(d) \cap dels[d] = {}
      BY <1>1, <1>4 DEF StagedPrivate
    <2>3. \A e \in Devices : Local(e) \cap (files[d] \cup dels[d]) = {}
      <3> HIDE DEF Local
      <3> QED BY <2>2 DEF StagedPrivate
    <2>4. QED
      <3> HIDE DEF Local
      <3> QED BY <1>1, <1>2, <2>1, <2>3 DEF StagedPrivate
  <1>10. PushCovers'
    BY <1>1, <1>2, <1>3, <1>4, <1>5 DEF PushCovers, StagedPrivate, PublishedIsFinal, InSync,
                                        Published, CountersFollow
  <1>11. PullKeeps'
    BY <1>1, <1>2, <1>3, <1>4, <1>5 DEF PullKeeps, StagedPrivate
  <1>12. PublishedIsFinal'
    <2>1. \A e \in Devices : Published(e)' \subseteq Published(e) \cup dels[d]
      BY <1>1 DEF Published
    <2>2. \A e \in Devices : Published(e) \cap files[d] = {}
      BY <1>4 DEF PublishedIsFinal
    <2>3. dels[d] \cap files[d] = {}
      BY DEF PublishedIsFinal
    <2>4. \A e \in Devices : Published(e)' \cap files[d] = {}
      BY <2>1, <2>2, <2>3
    <2>5. \A e \in Devices : dels'[e] \cap files'[e] = {}
      BY <1>1 DEF PublishedIsFinal
    <2>6. QED BY <1>1, <1>2, <1>5, <2>3, <2>4, <2>5 DEF PublishedIsFinal
  <1>13. SyncedDiffers'
    BY <1>1, <1>2, <1>3, <1>4, <1>5 DEF SyncedDiffers, Up, Mid, InSync, CountersFollow,
                                        OnePublisher, StagedPrivate, CloudListed, PullKeeps,
                                        PushCovers, ManifestBacked
  <1>14. CloudListed'
    BY <1>1, <1>2, <1>3, <1>4, <1>5 DEF CloudListed, Up, Mid, InSync, SyncedDiffers, PushCovers,
                                        OnePublisher, CountersFollow
  <1>15. DrainListed'
    <2>1. manifest.files \subseteq manifest'.files \cup condemned
      BY <1>2, <1>4 DEF SyncedDiffers
    <2>2. QED BY <1>1, <1>2, <2>1 DEF DrainListed
  <1>16. ManifestBacked'
    <2>1. files[d] \subseteq manifest.files \cup pending[d] \cup Up(d)
      BY <1>1, <1>4 DEF SyncedDiffers
    <2>2. QED BY <1>1, <1>2, <1>4, <2>1 DEF ManifestBacked
  <1>17. QED BY <1>6, <1>7, <1>8, <1>9, <1>10, <1>11, <1>12, <1>13, <1>14, <1>15, <1>16

LEMMA PushManifestFailQuiet ==
    ASSUME Perils = {}, StateOK, Unbuffered, QuietInv, NEW d \in Devices, PushManifestFail(d)
    PROVE  QuietInv'
  <1> USE CounterAssumption, BlankManifest
      DEF StateOK, TypeOK, UiMatches, IdleIsBlank, Strangers, Local, Unbuffered, QuietInv,
          PushSteps, PullSteps, Manifests, NoManifest, db, staging, cloud, push, pull, hist
  <1>1. /\ pushPc[d] = "publish" /\ up[d] = {}
        /\ manifest' = manifest \/ manifest' = Export(d)
        /\ counter' = [counter EXCEPT ![d] = @ - 1]
        /\ EndPush(d)
        /\ UNCHANGED <<joined, open, files, dels, buffer, staging, cloudBlobs, pull, hist>>
    BY DEF PushManifestFail
  <1>2. \/ manifest' = manifest
        \/ /\ manifest'.counter = counter[d]
           /\ manifest'.files = files[d] /\ manifest'.dels = dels[d]
    <2>1. CASE manifest' = Export(d)
      BY <2>1 DEF Export
    <2>2. QED BY <1>1, <2>1
  <1>3. \A e \in Devices \ {d} : counter[e] <= manifest.counter
    BY <1>1 DEF CountersFollow, OnePublisher, Mid
  <1>4. counter[d] = manifest.counter + 1 /\ files[d] \cap pending[d] = {} /\ InSync(d)
    BY <1>1 DEF CountersFollow, PushCovers, InSync
  <1>5. OnePublisher'
    BY <1>1, <1>2, <1>3, <1>4 DEF EndPush, OnePublisher, Mid
  <1>6. CountersFollow'
    BY <1>1, <1>2, <1>3, <1>4 DEF EndPush, CountersFollow, OnePublisher, Mid
  <1>7. EverAdded'
    BY <1>1, <1>2, <1>3, <1>4 DEF EndPush, EverAdded, PullKeeps
  <1>8. StagedPrivate'
    <2>1. \A e \in Devices : Local(e)' = Local(e)
      BY <1>1
    <2>2. Local(d) \cap (files[d] \cup dels[d]) = {}
      BY <1>1, <1>4 DEF StagedPrivate
    <2>3. \A e \in Devices : Local(e) \cap (files[d] \cup dels[d]) = {}
      <3> HIDE DEF Local
      <3> QED BY <2>2 DEF StagedPrivate
    <2>4. QED
      <3> HIDE DEF Local
      <3> QED BY <1>1, <1>2, <2>1, <2>3 DEF StagedPrivate
  <1>9. PushCovers'
    BY <1>1, <1>2, <1>3, <1>4 DEF EndPush, PushCovers, StagedPrivate, PublishedIsFinal, InSync,
                                  Published, CountersFollow
  <1>10. PullKeeps'
    BY <1>1, <1>2, <1>3, <1>4 DEF EndPush, PullKeeps, StagedPrivate
  <1>11. PublishedIsFinal'
    <2>1. \A e \in Devices : Published(e)' \subseteq Published(e)
      BY <1>1 DEF Published, EndPush
    <2>2. \A e \in Devices : dels'[e] \cap files'[e] = {}
      BY <1>1 DEF PublishedIsFinal
    <2>3. CASE manifest' = manifest
      <3>1. \A e \in Devices : InSync(e)' => InSync(e)
        BY <1>1, <1>3, <1>4, <2>3 DEF InSync
      <3>2. QED BY <1>1, <2>1, <2>2, <2>3, <3>1 DEF PublishedIsFinal
    <2>4. CASE manifest' # manifest
      <3>1. \A e \in Devices : ~InSync(e)'
        BY <1>1, <1>2, <1>3, <1>4, <2>4 DEF InSync
      <3>2. \A e \in Devices : Published(e) \cap files[d] = {} /\ dels[d] \cap files[d] = {}
        BY <1>4 DEF PublishedIsFinal
      <3>3. QED BY <1>1, <1>2, <2>1, <2>2, <2>4, <3>1, <3>2 DEF PublishedIsFinal
    <2>5. QED BY <2>3, <2>4
  <1>12. SyncedDiffers'
    BY <1>1, <1>2, <1>3, <1>4 DEF EndPush, SyncedDiffers, Up, Mid, InSync, CountersFollow,
                                  OnePublisher, StagedPrivate, CloudListed, PullKeeps,
                                  PushCovers, ManifestBacked
  <1>13. CloudListed'
    BY <1>1, <1>2, <1>3, <1>4 DEF EndPush, CloudListed, Up, Mid, InSync, SyncedDiffers,
                                  PushCovers, OnePublisher, CountersFollow
  <1>14. DrainListed'
    BY <1>1, <1>2, <1>3, <1>4 DEF EndPush, DrainListed, SyncedDiffers, InSync, CountersFollow,
                                  PushCovers
  <1>15. ManifestBacked'
    <2>1. Local(d) \cap files[d] = {} /\ Up(d) = {}
      BY <1>1, <1>4 DEF Up
    <2>2. files[d] \subseteq manifest.files
      <3> HIDE DEF Local
      <3> QED BY <1>4, <2>1 DEF SyncedDiffers
    <2>3. QED BY <1>1, <1>2, <2>2 DEF ManifestBacked
  <1>16. QED BY <1>5, <1>6, <1>7, <1>8, <1>9, <1>10, <1>11, <1>12, <1>13, <1>14, <1>15

LEMMA PushFailQuiet ==
    ASSUME Perils = {}, StateOK, Unbuffered, QuietInv, NEW d \in Devices, PushFail(d)
    PROVE  QuietInv'
  <1> USE CounterAssumption, BlankManifest
      DEF StateOK, TypeOK, UiMatches, IdleIsBlank, Strangers, Local, Unbuffered, QuietInv,
          PushSteps, PullSteps, Manifests, NoManifest, db, staging, cloud, push, pull, hist
  <1>1. OnePublisher'
    BY DEF PushFail, EndPush, OnePublisher, Mid
  <1>2. CountersFollow'
    BY DEF PushFail, EndPush, CountersFollow, OnePublisher, Mid
  <1>3. EverAdded'
    BY DEF PushFail, EndPush, EverAdded, PullKeeps
  <1>4. StagedPrivate'
    BY DEF PushFail, EndPush, StagedPrivate, EverAdded, PushCovers, PullKeeps
  <1>5. PushCovers'
    BY DEF PushFail, EndPush, PushCovers, StagedPrivate, PublishedIsFinal, InSync, Published,
            CountersFollow
  <1>6. PullKeeps'
    BY DEF PushFail, EndPush, PullKeeps, StagedPrivate
  <1>7. PublishedIsFinal'
    BY DEF PushFail, EndPush, PublishedIsFinal, Published, InSync, StagedPrivate, EverAdded,
            CountersFollow, PullKeeps, PushCovers
  <1>8. SyncedDiffers'
    BY DEF PushFail, EndPush, SyncedDiffers, Up, Mid, InSync, CountersFollow, OnePublisher,
            StagedPrivate, CloudListed, PullKeeps, PushCovers, ManifestBacked
  <1>9. CloudListed'
    BY DEF PushFail, EndPush, CloudListed, Up, Mid, InSync, SyncedDiffers, PushCovers,
            OnePublisher, CountersFollow
  <1>10. DrainListed'
    BY DEF PushFail, EndPush, DrainListed, SyncedDiffers, InSync, CountersFollow, PushCovers
  <1>11. ManifestBacked'
    BY DEF PushFail, EndPush, ManifestBacked, SyncedDiffers, PublishedIsFinal, Published,
            InSync, Up, Mid, PushCovers, CountersFollow
  <1>12. QED BY <1>1, <1>2, <1>3, <1>4, <1>5, <1>6, <1>7, <1>8, <1>9, <1>10, <1>11

LEMMA PushEndQuiet ==
    ASSUME Perils = {}, StateOK, Unbuffered, QuietInv, NEW d \in Devices, PushEnd(d)
    PROVE  QuietInv'
  <1> USE CounterAssumption, BlankManifest
      DEF StateOK, TypeOK, UiMatches, IdleIsBlank, Strangers, Local, Unbuffered, QuietInv,
          PushSteps, PullSteps, Manifests, NoManifest, db, staging, cloud, push, pull, hist
  <1>1. \A e \in Devices : Up(e)' = Up(e)
    BY DEF PushEnd, EndPush, Up, Mid
  <1>2. OnePublisher'
    BY <1>1 DEF PushEnd, EndPush, OnePublisher, Mid
  <1>3. CountersFollow'
    BY <1>1 DEF PushEnd, EndPush, CountersFollow, OnePublisher, Mid
  <1>4. EverAdded'
    BY <1>1 DEF PushEnd, EndPush, EverAdded, PullKeeps
  <1>5. StagedPrivate'
    BY <1>1 DEF PushEnd, EndPush, StagedPrivate, EverAdded, PushCovers, PullKeeps
  <1>6. PushCovers'
    BY <1>1 DEF PushEnd, EndPush, PushCovers, StagedPrivate, PublishedIsFinal, InSync,
                Published, CountersFollow
  <1>7. PullKeeps'
    BY <1>1 DEF PushEnd, EndPush, PullKeeps, StagedPrivate
  <1>8. PublishedIsFinal'
    BY <1>1 DEF PushEnd, EndPush, PublishedIsFinal, Published, InSync, StagedPrivate, EverAdded,
                CountersFollow, PullKeeps, PushCovers
  <1>9. SyncedDiffers'
    BY <1>1 DEF PushEnd, EndPush, SyncedDiffers, Up, Mid, InSync, CountersFollow, OnePublisher,
                StagedPrivate, CloudListed, PullKeeps, PushCovers, ManifestBacked
  <1>10. CloudListed'
    BY <1>1 DEF PushEnd, EndPush, CloudListed
  <1>11. DrainListed'
    BY <1>1 DEF PushEnd, EndPush, DrainListed, SyncedDiffers, InSync, CountersFollow, PushCovers
  <1>12. ManifestBacked'
    BY <1>1 DEF PushEnd, EndPush, ManifestBacked, SyncedDiffers, PublishedIsFinal, Published,
                InSync, Up, Mid, PushCovers, CountersFollow
  <1>13. QED BY <1>2, <1>3, <1>4, <1>5, <1>6, <1>7, <1>8, <1>9, <1>10, <1>11, <1>12

LEMMA PullReplaceQuiet ==
    ASSUME Perils = {}, StateOK, Unbuffered, QuietInv, NEW d \in Devices, PullReplace(d)
    PROVE  QuietInv'
  <1> USE CounterAssumption, BlankManifest
      DEF StateOK, TypeOK, UiMatches, IdleIsBlank, Strangers, Local, Unbuffered, QuietInv,
          PushSteps, PullSteps, Manifests, NoManifest, db, staging, cloud, push, pull, hist
  <1>1. /\ pullPc[d] = "closed" /\ pushPc[d] = "idle" /\ up[d] = {}
        /\ files' = [files EXCEPT ![d] = seen[d].files]
        /\ dels' = [dels EXCEPT ![d] = seen[d].dels]
        /\ counter' = [counter EXCEPT ![d] = seen[d].counter]
        /\ pullPc' = [pullPc EXCEPT ![d] = "reinsert"]
        /\ UNCHANGED <<joined, staging, cloud, ui, push, kept, seen, hist>>
        /\ \A e \in Devices : Local(e)' = Local(e)
    BY DEF PullReplace, PullAt
  <1>2. seen[d].counter >= manifest.counter => seen[d] = manifest
    BY SeenIsManifest
  <1>3. OnePublisher'
    BY <1>1, <1>2 DEF OnePublisher, Mid
  <1>4. CountersFollow'
    BY <1>1, <1>2 DEF CountersFollow, OnePublisher, Mid
  <1>5. EverAdded'
    <2> HIDE DEF Local
    <2> QED BY <1>1 DEF EverAdded
  <1>6. StagedPrivate'
    <2> HIDE DEF Local
    <2> QED BY <1>1 DEF StagedPrivate
  <1>7. PushCovers'
    BY <1>1, <1>2 DEF PushCovers, StagedPrivate, PublishedIsFinal, InSync, Published,
                      CountersFollow
  <1>8. PullKeeps'
    BY <1>1, <1>2 DEF PullKeeps, StagedPrivate
  <1>9. PublishedIsFinal'
    <2>1. \A e \in Devices : Published(e)' \subseteq Published(e)
      BY <1>1 DEF Published
    <2>2. ASSUME NEW e \in Devices PROVE InSync(e)' => \/ InSync(e) /\ files'[e] = files[e]
                                                      \/ files'[e] = manifest.files
      BY <1>1, <1>2 DEF InSync
    <2>3. \A e \in Devices : dels'[e] \cap files'[e] = {}
      BY <1>1 DEF PublishedIsFinal
    <2>4. /\ \A e \in Devices : InSync(e)' => manifest.dels \cap files'[e] = {}
          /\ \A e, g \in Devices : InSync(g)' => Published(e)' \cap files'[g] = {}
      <3>1. \A e \in Devices : InSync(e) => manifest.dels \cap files[e] = {}
        BY DEF PublishedIsFinal
      <3>2. \A e, g \in Devices : InSync(g) => Published(e) \cap files[g] = {}
        BY DEF PublishedIsFinal
      <3>3. /\ manifest.dels \cap manifest.files = {}
            /\ \A e \in Devices : Published(e) \cap manifest.files = {}
        BY DEF PublishedIsFinal
      <3>4. ASSUME NEW g \in Devices, InSync(g)'
            PROVE  /\ manifest.dels \cap files'[g] = {}
                   /\ \A e \in Devices : Published(e) \cap files'[g] = {}
        <4>1. CASE InSync(g) /\ files'[g] = files[g]
          BY <3>1, <3>2, <4>1
        <4>2. CASE files'[g] = manifest.files
          BY <3>3, <4>2
        <4>3. QED BY <2>2, <3>4, <4>1, <4>2
      <3>5. QED BY <2>1, <3>4
    <2>5. \A e \in Devices : Published(e)' \cap manifest.files = {}
      BY <2>1 DEF PublishedIsFinal
    <2>6. QED
      <3> HIDE DEF Local
      <3> QED BY <1>1, <2>3, <2>4, <2>5 DEF PublishedIsFinal
  <1>10. SyncedDiffers'
    BY <1>1, <1>2 DEF SyncedDiffers, Up, Mid, InSync, CountersFollow, OnePublisher,
                      StagedPrivate, CloudListed, PullKeeps, PushCovers, ManifestBacked
  <1>11. CloudListed'
    BY <1>1, <1>2 DEF CloudListed, Up, Mid, InSync, SyncedDiffers, PushCovers, OnePublisher,
                      CountersFollow
  <1>12. DrainListed'
    BY <1>1, <1>2 DEF DrainListed, SyncedDiffers, InSync, CountersFollow, PushCovers
  <1>13. ManifestBacked'
    BY <1>1, <1>2 DEF ManifestBacked, SyncedDiffers, PublishedIsFinal, Published, InSync, Up,
                      Mid, PushCovers, CountersFollow
  <1>14. QED BY <1>3, <1>4, <1>5, <1>6, <1>7, <1>8, <1>9, <1>10, <1>11, <1>12, <1>13

LEMMA UploadQuiet ==
    ASSUME Perils = {}, StateOK, Unbuffered, QuietInv, NEW d \in Devices, NEW f \in Files,
           Upload(d, f)
    PROVE  QuietInv'
  <1> USE DEF StateOK, TypeOK, IdleIsBlank, QuietInv, cloud, push, pull
  <1>1. /\ f \notin added /\ added' = added \cup {f}
        /\ pushPc[d] = "idle" /\ pullPc[d] = "idle" /\ kept[d] = {} /\ up[d] = {}
        /\ files' = [files EXCEPT ![d] = @ \cup {f}]
        /\ UNCHANGED <<dels, counter, root, cloud, push, pull, condemned>>
    BY DEF Upload, MayChange
  <1>2. \A e \in Devices \ {d} : pending'[e] = pending[e] /\ Local(e)' = Local(e)
    BY <1>1 DEF Upload, Local
  <1>3. Local(d)' = Local(d) \cup {f}
    <2>1. CASE pending' = [pending EXCEPT ![d] = @ \cup {f}] /\ UNCHANGED buffer
      BY <1>1, <2>1 DEF Local
    <2>2. CASE buffer' = [buffer EXCEPT ![d] = @ \cup {f}] /\ UNCHANGED pending
      BY <1>1, <2>2 DEF Local
    <2>3. QED BY <2>1, <2>2 DEF Upload
  <1>4. /\ \A e \in Devices : /\ Up(e)' = Up(e) /\ InSync(e)' = InSync(e) /\ Mid(e)' = Mid(e)
                              /\ Published(e)' = Published(e)
                              /\ e # d => files'[e] = files[e]
        /\ files'[d] = files[d] \cup {f}
    BY <1>1 DEF Up, InSync, Mid, Published
  <1>5. OnePublisher' /\ CountersFollow'
    BY <1>1, <1>4 DEF OnePublisher, CountersFollow
  <1>6. EverAdded'
    BY <1>1, <1>2, <1>3, <1>4 DEF EverAdded
  <1>7. StagedPrivate'
    BY <1>1, <1>2, <1>3, <1>4 DEF StagedPrivate, EverAdded
  <1>8. PushCovers' /\ PullKeeps'
    BY <1>1, <1>2, <1>4 DEF PushCovers, PullKeeps
  <1>9. PublishedIsFinal'
    <2>1. \A e \in Devices : Published(e) \subseteq added /\ dels[e] \subseteq added
      BY DEF Published, EverAdded
    <2>2. QED BY <1>1, <1>4, <2>1 DEF PublishedIsFinal, EverAdded
  <1>10. SyncedDiffers'
    BY <1>1, <1>2, <1>3, <1>4 DEF SyncedDiffers
  <1>11. CloudListed' /\ DrainListed' /\ ManifestBacked'
    BY <1>1, <1>4 DEF CloudListed, DrainListed, ManifestBacked
  <1>12. QED BY <1>5, <1>6, <1>7, <1>8, <1>9, <1>10, <1>11

LEMMA FileQuiet ==
    ASSUME Perils = {}, StateOK, Unbuffered, QuietInv, NEW d \in Devices, NEW f \in Files,
           Upload(d, f) \/ Delete(d, f) \/ PushUpload(d, f) \/ PushDrain(d, f) \/
           PullReinsert(d, f) \/ PullDrain(d, f)
    PROVE  QuietInv'
  <1> USE CounterAssumption, BlankManifest
      DEF StateOK, TypeOK, UiMatches, IdleIsBlank, Strangers, Local, Unbuffered, PushSteps,
          PullSteps, Manifests, NoManifest, db, staging, cloud, push, pull, hist,
          QuietInv, OnePublisher, CountersFollow,
          EverAdded, StagedPrivate, PushCovers, PullKeeps, PublishedIsFinal, SyncedDiffers,
          CloudListed, DrainListed, ManifestBacked, Mid, Up, InSync, Published
  <1>1. CASE Upload(d, f)
    BY <1>1, UploadQuiet
  <1>2. CASE Delete(d, f)
    BY <1>2 DEF Delete, MayChange
  <1>3. CASE PushUpload(d, f)
    BY <1>3, PushUploadQuiet
  <1>4. CASE PushDrain(d, f)
    BY <1>4, PushDrainQuiet
  <1>5. CASE PullReinsert(d, f)
    BY <1>5, PullReinsertQuiet
  <1>6. CASE PullDrain(d, f)
    BY <1>6, PullDrainQuiet
  <1>7. QED BY <1>1, <1>2, <1>3, <1>4, <1>5, <1>6

LEMMA FlushQuiet ==
    ASSUME Perils = {}, StateOK, Unbuffered, QuietInv, NEW d \in Devices,
           (\E by \in FlushCallers : Flush(d, by)) \/ PushFlushFail(d)
    PROVE  QuietInv'
  <1> USE DEF StateOK, TypeOK, QuietInv, cloud, pull, hist
  <1>1. /\ pushPc[d] = "flush" /\ pushPc' \in [Devices -> PushSteps]
        /\ \A e \in Devices : pushPc'[e] = IF e = d THEN pushPc'[d] ELSE pushPc[e]
        /\ pushPc'[d] \in {"idle", "probe"}
        /\ \A e \in Devices : todo'[e] = todo[e] /\ up'[e] = up[e]
        /\ \A e \in Devices : Local(e)' = Local(e) /\ pending[e] \subseteq pending'[e]
        /\ UNCHANGED <<files, dels, counter, cloudBlobs, manifest, kept, seen, pullPc>>
        /\ UNCHANGED hist
    <2>1. CASE PushFlushFail(d)
      <3>1. PICK packed \in Packed(d) : /\ pending' = [pending EXCEPT ![d] = @ \cup packed]
                                       /\ buffer' = [buffer EXCEPT ![d] = Left(d, packed)]
        BY <2>1 DEF PushFlushFail
      <3>2. packed \cup Left(d, packed) = buffer[d]
        BY <3>1, PackedAll
      <3>3. \A e \in Devices : Local(e)' = Local(e) /\ pending[e] \subseteq pending'[e]
        BY <2>1, <3>1, <3>2 DEF PushFlushFail, Local
      <3>4. QED BY <2>1, <3>3 DEF PushFlushFail, EndPush, IdleIsBlank, PushSteps
    <2>2. CASE \E by \in FlushCallers : Flush(d, by)
      <3>1. /\ pushPc[d] = "flush" /\ PushAt(d, "probe")
            /\ pending' = [pending EXCEPT ![d] = @ \cup buffer[d]]
            /\ buffer' = [buffer EXCEPT ![d] = {}]
            /\ UNCHANGED <<joined, open, files, dels, counter, root, cloud, ui, pull, hist>>
        BY <2>2, FlushByPush
      <3>2. \A e \in Devices : Local(e)' = Local(e) /\ pending[e] \subseteq pending'[e]
        BY <3>1 DEF Local
      <3>3. QED BY <3>1, <3>2 DEF PushAt, PushSteps
    <2>3. QED BY <2>1, <2>2
  <1>2. \A e \in Devices : e # d => pending'[e] = pending[e]
    BY DEF Flush, PushFlushFail
  <1>3. /\ OnePublisher' /\ CountersFollow' /\ DrainListed' /\ ManifestBacked'
    BY <1>1, <1>2 DEF OnePublisher, CountersFollow, DrainListed, ManifestBacked, Mid
  <1>4. EverAdded' /\ StagedPrivate'
    BY <1>1 DEF EverAdded, StagedPrivate
  <1>5. PushCovers'
    BY <1>1, <1>2 DEF PushCovers
  <1>6. PullKeeps'
    BY <1>1, <1>2 DEF PullKeeps, UiMatches
  <1>7. \A e \in Devices : Up(e)' = Up(e) /\ InSync(e)' = InSync(e) /\ Published(e)' = Published(e)
    BY <1>1 DEF Up, Mid, InSync, Published
  <1>8. PublishedIsFinal' /\ SyncedDiffers' /\ CloudListed'
    BY <1>1, <1>7 DEF PublishedIsFinal, SyncedDiffers, CloudListed
  <1>9. QED BY <1>3, <1>4, <1>5, <1>6, <1>8

LEMMA DeviceQuiet ==
    ASSUME Perils = {}, StateOK, Unbuffered, QuietInv, NEW d \in Devices,
           Sync(d) \/ DismissConflict(d) \/ PullThenSync(d) \/ Join(d) \/ Restart(d)
    PROVE  QuietInv'
  <1> USE CounterAssumption, BlankManifest
      DEF StateOK, TypeOK, UiMatches, IdleIsBlank, Strangers, Local, Unbuffered, PushSteps,
          PullSteps, Manifests, NoManifest, db, staging, cloud, push, pull, hist,
          QuietInv, OnePublisher, CountersFollow,
          EverAdded, StagedPrivate, PushCovers, PullKeeps, PublishedIsFinal, SyncedDiffers,
          CloudListed, DrainListed, ManifestBacked, Mid, Up, InSync, Published
  <1>1. CASE Sync(d)
    BY <1>1, SMTT(20) DEF Sync, PushAt
  <1>2. CASE DismissConflict(d)
    BY <1>2 DEF DismissConflict
  <1>3. CASE PullThenSync(d)
    BY <1>3 DEF PullThenSync, CollectPending, HasRow
  <1>4. CASE Join(d)
    BY <1>4 DEF Join
  <1>5. CASE Restart(d)
    BY <1>5, RestartQuiet
  <1>6. QED BY <1>1, <1>2, <1>3, <1>4, <1>5

LEMMA PushQuiet ==
    ASSUME Perils = {}, StateOK, Unbuffered, QuietInv, NEW d \in Devices,
           PushProbe(d) \/ PushList(d) \/ PushIncrement(d) \/ PushManifest(d) \/
           PushManifestFail(d) \/ PushFail(d) \/ PushEnd(d)
    PROVE  QuietInv'
  <1> USE CounterAssumption, BlankManifest
      DEF StateOK, TypeOK, UiMatches, IdleIsBlank, Strangers, Local, Unbuffered, PushSteps,
          PullSteps, Manifests, NoManifest, db, staging, cloud, push, pull, hist,
          QuietInv, OnePublisher, CountersFollow,
          EverAdded, StagedPrivate, PushCovers, PullKeeps, PublishedIsFinal, SyncedDiffers,
          CloudListed, DrainListed, ManifestBacked, Mid, Up, InSync, Published
  <1>1. CASE PushProbe(d)
    BY <1>1, PushProbeQuiet
  <1>2. CASE PushList(d)
    BY <1>2 DEF PushList
  <1>3. CASE PushIncrement(d)
    BY <1>3 DEF PushIncrement, PushAt
  <1>4. CASE PushManifest(d)
    BY <1>4, PushManifestQuiet
  <1>5. CASE PushManifestFail(d)
    BY <1>5, PushManifestFailQuiet
  <1>6. CASE PushFail(d)
    BY <1>6, PushFailQuiet
  <1>7. CASE PushEnd(d)
    BY <1>7, PushEndQuiet
  <1>8. QED BY <1>1, <1>2, <1>3, <1>4, <1>5, <1>6, <1>7

LEMMA PullEndQuiet ==
    ASSUME Perils = {}, StateOK, Unbuffered, QuietInv, NEW d \in Devices, PullEnd(d)
    PROVE  QuietInv'
  <1> USE DEF StateOK, TypeOK, QuietInv, db, staging, cloud, hist
  <1>1. /\ pushPc[d] = "idle" /\ pullPc[d] = "drain"
        /\ pushPc' = [pushPc EXCEPT ![d] = "flush"]
        /\ pullPc' = [pullPc EXCEPT ![d] = "idle"]
        /\ kept' = [kept EXCEPT ![d] = {}] /\ seen' = [seen EXCEPT ![d] = NoManifest]
        /\ UNCHANGED <<joined, open, db, staging, cloud, todo, up, hist>>
    BY DEF PullEnd, EndPull, PushAt, UiMatches
  <1>2. NoManifest \in Manifests /\ NoManifest.counter = 0 /\ manifest.counter \in Nat
        /\ NoManifest.files = {} /\ NoManifest.dels = {}
    BY BlankManifest, CounterAssumption DEF NoManifest, Manifests
  <1>3. \A e \in Devices : /\ Up(e)' = Up(e) /\ InSync(e)' = InSync(e) /\ Mid(e)' = Mid(e)
                           /\ Local(e)' = Local(e) /\ Published(e)' \subseteq Published(e)
    BY <1>1, <1>2 DEF Up, InSync, Mid, Published, Local
  <1>4. OnePublisher'
    BY <1>3 DEF OnePublisher
  <1>5. CountersFollow'
    BY <1>1, <1>2 DEF CountersFollow
  <1>6. EverAdded' /\ StagedPrivate'
    BY <1>1, <1>2, <1>3 DEF EverAdded, StagedPrivate
  <1>7. PushCovers' /\ PullKeeps'
    BY <1>1 DEF PushCovers, PullKeeps
  <1>8. PublishedIsFinal'
    BY <1>1, <1>2, <1>3 DEF PublishedIsFinal
  <1>9. SyncedDiffers' /\ CloudListed' /\ DrainListed' /\ ManifestBacked'
    BY <1>1, <1>3 DEF SyncedDiffers, CloudListed, DrainListed, ManifestBacked
  <1>10. QED BY <1>4, <1>5, <1>6, <1>7, <1>8, <1>9

LEMMA PullQuiet ==
    ASSUME Perils = {}, StateOK, Unbuffered, QuietInv, NEW d \in Devices,
           PullDownload(d) \/ PullClose(d) \/ PullReplace(d) \/ PullReinserted(d) \/
           PullEnd(d) \/ PullFail(d) \/ PullReinsertFail(d)
    PROVE  QuietInv'
  <1> USE CounterAssumption, BlankManifest
      DEF StateOK, TypeOK, UiMatches, IdleIsBlank, Strangers, Local, Unbuffered, PushSteps,
          PullSteps, Manifests, NoManifest, db, staging, cloud, push, pull, hist,
          QuietInv, OnePublisher, CountersFollow,
          EverAdded, StagedPrivate, PushCovers, PullKeeps, PublishedIsFinal, SyncedDiffers,
          CloudListed, DrainListed, ManifestBacked, Mid, Up, InSync, Published
  <1>1. CASE PullDownload(d)
    BY <1>1 DEF PullDownload
  <1>2. CASE PullClose(d)
    BY <1>2 DEF PullClose, PullAt
  <1>3. CASE PullReplace(d)
    BY <1>3, PullReplaceQuiet
  <1>4. CASE PullReinserted(d)
    BY <1>4 DEF PullReinserted, PullAt
  <1>5. CASE PullEnd(d)
    BY <1>5, PullEndQuiet
  <1>6. CASE PullFail(d)
    BY <1>6 DEF PullFail, EndPull
  <1>7. CASE PullReinsertFail(d)
    BY <1>7 DEF PullReinsertFail, EndPull
  <1>8. QED BY <1>1, <1>2, <1>3, <1>4, <1>5, <1>6, <1>7

LEMMA NextQuiet ==
    ASSUME Perils = {}, StateOK, Unbuffered, QuietInv, [Next]_vars
    PROVE  QuietInv'
  <1>1. CASE UNCHANGED vars
    BY <1>1 DEF vars, db, staging, cloud, push, pull, hist,
          QuietInv, OnePublisher, CountersFollow,
                EverAdded, StagedPrivate, PushCovers, PullKeeps, PublishedIsFinal, SyncedDiffers,
                CloudListed, DrainListed, ManifestBacked, Mid, Up, InSync, Published, Local
  <1>2. QED BY <1>1, FileQuiet, FlushQuiet, DeviceQuiet, PushQuiet, PullQuiet DEF Next

LEMMA QuietInvariant == Perils = {} => (Spec => [](StateOK /\ Unbuffered /\ QuietInv))
  <1> SUFFICES ASSUME Perils = {} PROVE Spec => [](StateOK /\ Unbuffered /\ QuietInv) OBVIOUS
  <1>1. StateOK /\ Unbuffered /\ QuietInv /\ [Next]_vars =>
            StateOK' /\ Unbuffered' /\ QuietInv'
    BY NextState, NextUnbuffered, NextQuiet
  <1>2. QED BY <1>1, InitState, InitUnbuffered, InitQuiet, PTL DEF Spec

(* Without perils any device can join or pull at any time: what the cloud's *)
(* manifest lists is in the cloud.                                          *)
THEOREM ManifestIsBacked == Perils = {} => (Spec => []ManifestBacked)
  <1>1. QuietInv => ManifestBacked
    BY DEF QuietInv
  <1>2. QED BY <1>1, QuietInvariant, PTL

(* And every blob in the cloud is listed or queued somewhere, though a pull *)
(* throws the local queue away.                                             *)
THEOREM NothingOrphaned == Perils = {} => (Spec => []NoOrphans)
  <1>1. StateOK /\ QuietInv => NoOrphans
    BY DEF StateOK, TypeOK, QuietInv, CloudListed, PushCovers, IdleIsBlank, Up, Mid, NoOrphans
  <1>2. QED BY <1>1, QuietInvariant, PTL

-----------------------------------------------------------------------------
(* The refinement.  A step other than an upload or a deletion brings no     *)
(* file back and takes none out of the vault but a condemned one.           *)
Keeps == AliveFiles' \subseteq AliveFiles /\ AliveFiles \ AliveFiles' \subseteq condemned

LEMMA OneCarries ==
    ASSUME NEW d \in Devices, UNCHANGED manifest,
           \A e \in Devices \ {d} : Carried(e)' = Carried(e),
           Carried(d)' \subseteq Carried(d) \cup manifest.files,
           Carried(d) \subseteq Carried(d)' \cup manifest.files \cup condemned
    PROVE  Keeps
  BY DEF Keeps, AliveFiles

LEMMA PushProbeStays ==
    ASSUME StateOK, NEW d \in Devices, PushProbe(d)
    PROVE  Keeps
  <1>1. up \in [Devices -> SUBSET Files] /\ up[d] = {}
    BY DEF StateOK, TypeOK, IdleIsBlank, PushProbe
  <1>2. (EndPush(d) \/ PushAt(d, "list")) /\ UNCHANGED <<db, staging, cloud, pull>>
    BY DEF PushProbe
  <1>3. \A e \in Devices : up'[e] = up[e]
    BY <1>1, <1>2 DEF EndPush, PushAt
  <1>4. QED BY <1>2, <1>3 DEF Keeps, AliveFiles, Carried, Local, db, staging, cloud, pull

LEMMA FlushStays ==
    ASSUME Perils = {}, StateOK, NEW d \in Devices,
           (\E by \in FlushCallers : Flush(d, by)) \/ PushFlushFail(d)
    PROVE  Keeps /\ UNCHANGED hist
  <1>1. \A e \in Devices : Local(e)' = Local(e)
    <2>1. CASE PushFlushFail(d)
      <3>1. PICK packed \in Packed(d) : /\ pending' = [pending EXCEPT ![d] = @ \cup packed]
                                       /\ buffer' = [buffer EXCEPT ![d] = Left(d, packed)]
        BY <2>1 DEF PushFlushFail
      <3>2. packed \cup Left(d, packed) = buffer[d]
        BY <3>1, PackedAll
      <3>3. QED BY <2>1, <3>1, <3>2 DEF PushFlushFail, Local, StateOK, TypeOK
    <2>2. CASE \E by \in FlushCallers : Flush(d, by)
      <3>1. /\ pending' = [pending EXCEPT ![d] = @ \cup buffer[d]]
            /\ buffer' = [buffer EXCEPT ![d] = {}] /\ UNCHANGED root
        BY <2>2, FlushByPush
      <3>2. QED BY <3>1 DEF Local, StateOK, TypeOK
    <2>3. QED BY <2>1, <2>2
  <1>2. UNCHANGED <<files, counter, cloudBlobs, manifest, kept, hist>>
    BY DEF Flush, PushFlushFail, cloud, pull
  <1>3. \A e \in Devices : up'[e] = up[e]
    BY SMTT(20) DEF Flush, FlushCallers, PushAt, PushFlushFail, EndPush, StateOK, TypeOK, IdleIsBlank, push
  <1>4. QED BY <1>1, <1>2, <1>3 DEF Keeps, AliveFiles, Carried

LEMMA RestartStays ==
    ASSUME Perils = {}, StateOK, Unbuffered, QuietInv, NEW d \in Devices, Restart(d)
    PROVE  Keeps
  <1>1. PICK packed \in Packed(d) :
          /\ pending' = [pending EXCEPT ![d] = (@ \cup root[d] \cup packed) \cap files[d]]
          /\ buffer' = [buffer EXCEPT ![d] = Left(d, packed)]
    BY DEF Restart
  <1>2. /\ root' = [root EXCEPT ![d] = {}]
        /\ up' = [up EXCEPT ![d] = {}] /\ kept' = [kept EXCEPT ![d] = {}]
        /\ UNCHANGED <<files, counter, cloudBlobs, manifest>>
    BY DEF Restart, EndPush, EndPull, cloud
  <1>3. /\ pending \in [Devices -> SUBSET Files] /\ buffer \in [Devices -> SUBSET Files]
        /\ root \in [Devices -> SUBSET Files] /\ up \in [Devices -> SUBSET Files]
        /\ kept \in [Devices -> SUBSET Files]
    BY DEF StateOK, TypeOK
  <1>4. /\ Local(d)' \subseteq Local(d) /\ Local(d) \cap files[d] \subseteq Local(d)'
        /\ \A e \in Devices \ {d} : Local(e)' = Local(e)
    <2>1. packed \cup Left(d, packed) = buffer[d]
      BY <1>1, PackedAll
    <2>2. QED BY <1>1, <1>2, <1>3, <2>1 DEF Local
  <1>5. kept[d] \subseteq files[d]
    BY DEF Restart, StateOK, TypeOK, PullSteps, IdleIsBlank, QuietInv, PullKeeps
  <1>6. files[d] \cap up[d] \subseteq manifest.files \cup condemned
    BY DEF Restart, QuietInv, DrainListed
  <1>7. Carried(d)' \subseteq Carried(d)
    BY <1>2, <1>3, <1>4 DEF Carried
  <1>8. Carried(d) \subseteq Carried(d)' \cup manifest.files \cup condemned
    BY <1>2, <1>3, <1>4, <1>5, <1>6 DEF Carried
  <1>9. \A e \in Devices \ {d} : Carried(e)' = Carried(e)
    BY <1>2, <1>3, <1>4 DEF Carried
  <1>10. QED BY <1>2, <1>7, <1>8, <1>9 DEF Keeps, AliveFiles

LEMMA PullReplaceStays ==
    ASSUME StateOK, Unbuffered, QuietInv, NEW d \in Devices, PullReplace(d)
    PROVE  Keeps
  <1>1. /\ files' = [files EXCEPT ![d] = seen[d].files]
        /\ counter' = [counter EXCEPT ![d] = seen[d].counter]
        /\ UNCHANGED <<cloudBlobs, manifest, kept, up>>
        /\ \A e \in Devices : Local(e)' = Local(e)
    <2>1. buffer' = buffer
      BY DEF PullReplace, StateOK, TypeOK, Unbuffered
    <2>2. QED BY <2>1 DEF PullReplace, PullAt, staging, cloud, push, Local
  <1>2. /\ files \in [Devices -> SUBSET Files] /\ counter \in [Devices -> 0 .. MaxCounter]
        /\ up[d] = {} /\ Up(d) = {}
    BY DEF StateOK, TypeOK, UiMatches, IdleIsBlank, PullReplace, Up, Mid
  <1>3. kept[d] = files[d] \cap Local(d) /\ Local(d) \cap seen[d].files = {}
    <2>1. kept[d] = files[d] \cap pending[d] /\ Local(d) = pending[d]
      BY DEF PullReplace, QuietInv, PullKeeps, Unbuffered, Local
    <2>2. QED BY <2>1 DEF QuietInv, StagedPrivate
  <1>4. seen[d].counter >= manifest.counter => seen[d] = manifest
    BY SeenIsManifest DEF StateOK, QuietInv
  <1>5. counter[d] >= manifest.counter => files[d] \subseteq manifest.files \cup Local(d)
    BY <1>2 DEF QuietInv, SyncedDiffers, InSync
  <1>6. Carried(d)' \subseteq Carried(d) \cup manifest.files
    BY <1>1, <1>2, <1>3, <1>4 DEF Carried
  <1>7. Carried(d) \subseteq Carried(d)' \cup manifest.files
    BY <1>1, <1>2, <1>3, <1>5 DEF Carried
  <1>8. \A e \in Devices \ {d} : Carried(e)' = Carried(e)
    BY <1>1, <1>2 DEF Carried
  <1>9. QED BY <1>1, <1>6, <1>7, <1>8 DEF Keeps, AliveFiles

LEMMA FileStays ==
    ASSUME Perils = {}, StateOK, Unbuffered, QuietInv, NEW d \in Devices, NEW f \in Files,
           PushUpload(d, f) \/ PushDrain(d, f) \/ PullReinsert(d, f) \/ PullDrain(d, f)
    PROVE  Keeps
  <1> USE CounterAssumption, BlankManifest
      DEF StateOK, TypeOK, UiMatches, IdleIsBlank, Strangers, Local, Unbuffered, PushSteps,
          PullSteps, Manifests, NoManifest, db, staging, cloud, push, pull, hist,
          QuietInv, CountersFollow, StagedPrivate,
          PushCovers, PullKeeps, PublishedIsFinal, SyncedDiffers, DrainListed, ManifestBacked,
          Mid, Up, InSync, Published, Keeps, AliveFiles, Carried
  <1>1. CASE PushUpload(d, f)
    BY <1>1 DEF PushUpload
  <1>2. CASE PushDrain(d, f)
    BY <1>2 DEF PushDrain, Drain
  <1>3. CASE PullReinsert(d, f)
    BY <1>3 DEF PullReinsert, Reinserted
  <1>4. CASE PullDrain(d, f)
    BY <1>4 DEF PullDrain, Drain
  <1>5. QED BY <1>1, <1>2, <1>3, <1>4

LEMMA DeviceStays ==
    ASSUME Perils = {}, StateOK, Unbuffered, QuietInv, NEW d \in Devices,
           Sync(d) \/ DismissConflict(d) \/ PullThenSync(d) \/ Join(d) \/ Restart(d)
    PROVE  Keeps
  <1> USE CounterAssumption, BlankManifest
      DEF StateOK, TypeOK, UiMatches, IdleIsBlank, Strangers, Local, Unbuffered, PushSteps,
          PullSteps, Manifests, NoManifest, db, staging, cloud, push, pull, hist,
          QuietInv, CountersFollow, StagedPrivate,
          PushCovers, PullKeeps, PublishedIsFinal, SyncedDiffers, DrainListed, ManifestBacked,
          Mid, Up, InSync, Published, Keeps, AliveFiles, Carried
  <1>1. CASE Sync(d)
    BY <1>1 DEF Sync, PushAt
  <1>2. CASE DismissConflict(d)
    BY <1>2 DEF DismissConflict
  <1>3. CASE PullThenSync(d)
    <2>1. kept[d] = {} /\ kept' = [kept EXCEPT ![d] = CollectPending(d)]
      BY <1>3 DEF PullThenSync
    <2>2. CollectPending(d) \subseteq files[d]
      BY DEF CollectPending, HasRow
    <2>3. Carried(d)' = Carried(d) /\ \A e \in Devices \ {d} : Carried(e)' = Carried(e)
      BY <1>3, <2>1, <2>2 DEF PullThenSync
    <2>4. manifest' = manifest
      BY <1>3 DEF PullThenSync
    <2>5. /\ Carried(d)' \subseteq Carried(d) \cup manifest.files
          /\ Carried(d) \subseteq Carried(d)' \cup manifest.files \cup condemned
      <3> HIDE DEF Keeps, AliveFiles, Carried
      <3> QED BY <2>3
    <2>6. QED
      <3> HIDE DEF Keeps, AliveFiles, Carried
      <3> QED BY <2>3, <2>4, <2>5, OneCarries
  <1>4. CASE Join(d)
    <2>1. /\ files' = [files EXCEPT ![d] = manifest.files] /\ kept[d] = {} /\ up[d] = {}
          /\ Local(d) = {} /\ Local(d)' = {} /\ UNCHANGED <<cloud, kept, up>>
      BY <1>4 DEF Join
    <2>2. Carried(d)' \subseteq manifest.files /\ Carried(d) = {}
      BY <1>4, <2>1 DEF Join
    <2>3. \A e \in Devices \ {d} : Carried(e)' = Carried(e)
      BY <1>4 DEF Join
    <2>4. QED
      <3> HIDE DEF Keeps, AliveFiles, Carried
      <3> QED BY <2>1, <2>2, <2>3, OneCarries
  <1>5. CASE Restart(d)
    BY <1>5, RestartStays
  <1>6. QED BY <1>1, <1>2, <1>3, <1>4, <1>5

LEMMA PushStays ==
    ASSUME Perils = {}, StateOK, Unbuffered, QuietInv, NEW d \in Devices,
           PushProbe(d) \/ PushList(d) \/ PushIncrement(d) \/ PushManifest(d) \/
           PushManifestFail(d) \/ PushFail(d) \/ PushEnd(d)
    PROVE  Keeps
  <1> USE CounterAssumption, BlankManifest
      DEF StateOK, TypeOK, UiMatches, IdleIsBlank, Strangers, Local, Unbuffered, PushSteps,
          PullSteps, Manifests, NoManifest, db, staging, cloud, push, pull, hist,
          QuietInv, CountersFollow, StagedPrivate,
          PushCovers, PullKeeps, PublishedIsFinal, SyncedDiffers, DrainListed, ManifestBacked,
          Mid, Up, InSync, Published, Keeps, AliveFiles, Carried
  <1>1. CASE PushProbe(d)
    BY <1>1, PushProbeStays
  <1>2. CASE PushList(d)
    BY <1>2 DEF PushList
  <1>3. CASE PushIncrement(d)
    BY <1>3 DEF PushIncrement, PushAt
  <1>4. CASE PushManifest(d)
    BY <1>4 DEF PushManifest, Export, PushAt
  <1>5. CASE PushManifestFail(d)
    BY <1>5 DEF PushManifestFail, Export, EndPush
  <1>6. CASE PushFail(d)
    BY <1>6 DEF PushFail, EndPush
  <1>7. CASE PushEnd(d)
    BY <1>7 DEF PushEnd, EndPush
  <1>8. QED BY <1>1, <1>2, <1>3, <1>4, <1>5, <1>6, <1>7

LEMMA PullStays ==
    ASSUME Perils = {}, StateOK, Unbuffered, QuietInv, NEW d \in Devices,
           PullDownload(d) \/ PullClose(d) \/ PullReplace(d) \/ PullReinserted(d) \/
           PullEnd(d) \/ PullFail(d) \/ PullReinsertFail(d)
    PROVE  Keeps
  <1> USE CounterAssumption, BlankManifest
      DEF StateOK, TypeOK, UiMatches, IdleIsBlank, Strangers, Local, Unbuffered, PushSteps,
          PullSteps, Manifests, NoManifest, db, staging, cloud, push, pull, hist,
          QuietInv, CountersFollow, StagedPrivate,
          PushCovers, PullKeeps, PublishedIsFinal, SyncedDiffers, DrainListed, ManifestBacked,
          Mid, Up, InSync, Published, Keeps, AliveFiles, Carried
  <1>1. CASE PullDownload(d)
    BY <1>1 DEF PullDownload
  <1>2. CASE PullClose(d)
    BY <1>2 DEF PullClose, PullAt
  <1>3. CASE PullReplace(d)
    BY <1>3, PullReplaceStays
  <1>4. CASE PullReinserted(d)
    BY <1>4 DEF PullReinserted, PullAt
  <1>5. CASE PullEnd(d)
    BY <1>5 DEF PullEnd, EndPull, PushAt
  <1>6. CASE PullFail(d)
    BY <1>6 DEF PullFail, EndPull
  <1>7. CASE PullReinsertFail(d)
    BY <1>7 DEF PullReinsertFail, EndPull
  <1>8. QED BY <1>1, <1>2, <1>3, <1>4, <1>5, <1>6, <1>7

LEMMA UploadAdds ==
    ASSUME Perils = {}, StateOK, Unbuffered, QuietInv, NEW d \in Devices, NEW f \in Files,
           Upload(d, f)
    PROVE  Shared!Add(f)
  <1>1. /\ f \notin added /\ added' = added \cup {f} /\ UNCHANGED condemned
        /\ files' = [files EXCEPT ![d] = @ \cup {f}]
        /\ UNCHANGED <<root, counter, cloudBlobs, manifest, kept, up>>
    BY DEF Upload, cloud, push, pull
  <1>a. /\ Local(d)' = Local(d) \cup {f}
        /\ \A e \in Devices \ {d} : Local(e)' = Local(e)
    <2>1. pending \in [Devices -> SUBSET Files] /\ buffer \in [Devices -> SUBSET Files]
      BY DEF StateOK, TypeOK
    <2>2. CASE pending' = [pending EXCEPT ![d] = @ \cup {f}] /\ UNCHANGED buffer
      BY <1>1, <2>1, <2>2 DEF Local
    <2>3. CASE buffer' = [buffer EXCEPT ![d] = @ \cup {f}] /\ UNCHANGED pending
      BY <1>1, <2>1, <2>3 DEF Local
    <2>4. QED BY <2>2, <2>3 DEF Upload
  <1>2. /\ files \in [Devices -> SUBSET Files]
        /\ f \notin cloudBlobs /\ kept[d] = {} /\ up[d] = {}
    BY <1>1 DEF Upload, MayChange, StateOK, TypeOK, IdleIsBlank, QuietInv, EverAdded
  <1>3. Carried(d)' = Carried(d) \cup {f}
    BY <1>1, <1>a, <1>2 DEF Carried
  <1>4. \A e \in Devices \ {d} : Carried(e)' = Carried(e)
    BY <1>1, <1>a, <1>2 DEF Carried
  <1>5. AliveFiles' = AliveFiles \cup {f}
    BY <1>1, <1>3, <1>4 DEF AliveFiles
  <1>6. QED BY <1>1, <1>5 DEF Shared!Add

LEMMA DeleteDeletes ==
    ASSUME Perils = {}, StateOK, Unbuffered, QuietInv, NEW d \in Devices, NEW f \in Files,
           Delete(d, f)
    PROVE  Shared!Delete(f)
  <1>1. /\ f \in files[d] /\ condemned' = condemned \cup {f} /\ UNCHANGED added
        /\ files' = [files EXCEPT ![d] = @ \ {f}]
        /\ buffer' = [buffer EXCEPT ![d] = @ \ {f}]
        /\ pending' = [pending EXCEPT ![d] = @ \ {f}] /\ root' = [root EXCEPT ![d] = @ \ {f}]
        /\ UNCHANGED <<counter, cloudBlobs, manifest, kept, up>>
    BY DEF Delete, cloud, push, pull
  <1>2. /\ pending \in [Devices -> SUBSET Files] /\ files \in [Devices -> SUBSET Files]
        /\ f \in added /\ kept[d] = {} /\ up[d] = {}
    BY <1>1 DEF Delete, MayChange, StateOK, TypeOK, IdleIsBlank, QuietInv, EverAdded
  <1>a. /\ Local(d)' = Local(d) \ {f}
        /\ \A e \in Devices \ {d} : Local(e)' = Local(e)
    <2>1. /\ pending \in [Devices -> SUBSET Files] /\ buffer \in [Devices -> SUBSET Files]
          /\ root \in [Devices -> SUBSET Files]
      BY DEF StateOK, TypeOK
    <2>2. QED BY <1>1, <2>1 DEF Local
  <1>3. Carried(d)' = Carried(d) \ {f}
    BY <1>1, <1>a, <1>2 DEF Carried
  <1>4. \A e \in Devices \ {d} : Carried(e)' = Carried(e)
    BY <1>1, <1>a, <1>2 DEF Carried
  <1>5. AliveFiles' \in {AliveFiles, AliveFiles \ {f}}
    <2>1. AliveFiles' \subseteq AliveFiles /\ AliveFiles \ AliveFiles' \subseteq {f}
      BY <1>1, <1>3, <1>4 DEF AliveFiles
    <2>2. QED BY <2>1
  <1>6. QED BY <1>1, <1>2, <1>5 DEF Shared!Delete

LEMMA KeepsVanishes ==
    ASSUME Keeps, UNCHANGED hist PROVE Shared!Vanish
  BY DEF Keeps, hist, Shared!Vanish

LEMMA NextShared ==
    ASSUME Perils = {}, StateOK, Unbuffered, QuietInv, [Next]_vars
    PROVE  [Shared!Next]_Shared!vars
  <1>1. CASE UNCHANGED vars
    BY <1>1 DEF vars, db, staging, cloud, push, pull, hist, Shared!vars, AliveFiles, Carried, Local
  <1>2. CASE Next
    <2>1. PICK d \in Devices :
            \/ \E f \in Files : Upload(d, f) \/ Delete(d, f) \/ PushUpload(d, f) \/ PushDrain(d, f)
                                \/ PullReinsert(d, f) \/ PullDrain(d, f)
            \/ (\E by \in FlushCallers : Flush(d, by)) \/ PushFlushFail(d)
            \/ Sync(d) \/ DismissConflict(d) \/ PullThenSync(d)
            \/ PushProbe(d) \/ PushList(d) \/ PushIncrement(d) \/ PushManifest(d)
            \/ PushManifestFail(d) \/ PushFail(d) \/ PushEnd(d)
            \/ PullDownload(d) \/ PullClose(d) \/ PullReplace(d) \/ PullReinserted(d)
            \/ PullEnd(d) \/ PullFail(d) \/ PullReinsertFail(d)
            \/ Join(d) \/ Restart(d)
      BY <1>2 DEF Next
    <2>2. ASSUME NEW f \in Files, Upload(d, f) PROVE Shared!Next
      BY <2>2, UploadAdds DEF Shared!Next
    <2>3. ASSUME NEW f \in Files, Delete(d, f) PROVE Shared!Next
      BY <2>3, DeleteDeletes DEF Shared!Next
    <2>4. ASSUME NEW f \in Files,
                 PushUpload(d, f) \/ PushDrain(d, f) \/ PullReinsert(d, f) \/ PullDrain(d, f)
          PROVE  Shared!Next
      <3>1. UNCHANGED hist
        BY <2>4 DEF PushUpload, PushDrain, PullReinsert, PullDrain
      <3>2. QED BY <2>4, <3>1, FileStays, KeepsVanishes DEF Shared!Next
    <2>5. CASE Sync(d) \/ DismissConflict(d) \/ PullThenSync(d) \/ Join(d) \/ Restart(d)
      <3>1. UNCHANGED hist
        BY <2>5 DEF Sync, DismissConflict, PullThenSync, Join, Restart
      <3>2. QED BY <2>5, <3>1, DeviceStays, KeepsVanishes DEF Shared!Next
    <2>6. CASE \/ PushProbe(d) \/ PushList(d) \/ PushIncrement(d) \/ PushManifest(d)
               \/ PushManifestFail(d) \/ PushFail(d) \/ PushEnd(d)
      <3>1. UNCHANGED hist
        BY <2>6 DEF PushProbe, PushList, PushIncrement, PushManifest, PushManifestFail, PushFail,
                    PushEnd
      <3>2. QED BY <2>6, <3>1, PushStays, KeepsVanishes DEF Shared!Next
    <2>7. CASE \/ PullDownload(d) \/ PullClose(d) \/ PullReplace(d) \/ PullReinserted(d)
               \/ PullEnd(d) \/ PullFail(d) \/ PullReinsertFail(d)
      <3>1. UNCHANGED hist
        BY <2>7 DEF PullDownload, PullClose, PullReplace, PullReinserted, PullEnd, PullFail,
                    PullReinsertFail
      <3>2. QED BY <2>7, <3>1, PullStays, KeepsVanishes DEF Shared!Next
    <2>8. CASE (\E by \in FlushCallers : Flush(d, by)) \/ PushFlushFail(d)
      BY <2>8, FlushStays, KeepsVanishes DEF Shared!Next
    <2>9. QED BY <2>1, <2>2, <2>3, <2>4, <2>5, <2>6, <2>7, <2>8
  <1>3. QED BY <1>1, <1>2

(* Without perils CloudSync implements SharedVault: whatever devices push,  *)
(* pull, fail and restart in whatever order, a file stays in the vault      *)
(* until somebody deletes it, and none comes back.                          *)
THEOREM Implements == Perils = {} => (Spec => SharedSpec)
  <1> SUFFICES ASSUME Perils = {} PROVE Spec => SharedSpec OBVIOUS
  <1>1. Init => Shared!Init
    BY DEF Init, Shared!Init, AliveFiles, Carried, Local, NoManifest
  <1>2. StateOK /\ Unbuffered /\ QuietInv /\ [Next]_vars => [Shared!Next]_Shared!vars
    BY NextShared
  <1>3. Spec => [](StateOK /\ Unbuffered /\ QuietInv)
    BY QuietInvariant
  <1>4. QED BY <1>1, <1>2, <1>3, PTL DEF Spec, SharedSpec, Shared!Spec
=============================================================================
