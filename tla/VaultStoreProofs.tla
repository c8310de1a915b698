--------------------------- MODULE VaultStoreProofs ---------------------------
(***************************************************************************)
(* Proofs about the two views of one vault.  About VaultStore, for every   *)
(* set of files and blobs and every bound of the counter: type             *)
(* correctness; that no blob the manifest still refers to is ever queued   *)
(* for deletion and that the drain never removes such a blob from the      *)
(* cloud; that no object leaks; that only a newer manifest replaces one    *)
(* that opens; and, as long as no lock overlaps an operation, that no blob *)
(* of a file is lost.  About Transfer, for every chunk size,               *)
(* every set of files and sizes and any number of downloads: that a        *)
(* download gives the bytes that were stored, that content is kept, that   *)
(* downloads fail for a cause, and that saves leave no trace.              *)
(***************************************************************************)
EXTENDS VaultStore, Transfer, TLAPS, WellFoundedInduction, SequenceTheorems

-----------------------------------------------------------------------------
(* Type correctness is inductive once a flush about to commit is known to  *)
(* hold its blob.  One lemma per group of actions, each step an action.     *)

StateOK == TypeOK /\ FlushHolds

LEMMA InitType == Init => StateOK
  <1> SUFFICES ASSUME Init PROVE StateOK OBVIOUS
  <1>1. NoManifest \in Manifest
    BY DEF NoManifest, Manifest
  <1>2. drainStuck \in BOOLEAN
    BY DEF Init
  <1>3. /\ node \in [Files -> NodeStates]
        /\ delPc \in [Files -> {"idle", "read", "unlink"}]
    BY DEF Init, NodeStates
  <1>4. QED BY <1>1, <1>2, <1>3 DEF Init, StateOK, TypeOK, FlushHolds, SessionStates

LEMMA FileStepType == StateOK /\ FileStep => StateOK'
  <1> USE DEF StateOK, FlushHolds, TypeOK, NodeStates, SessionStates, Manifest, NoManifest,
              db, staging, cloud, sweep, flush, delete, drain, push
  <1> SUFFICES ASSUME StateOK, NEW f \in Files,
                      \/ UploadBegin(f) \/ UploadWriteBlob(f) \/ UploadCommit(f)
                      \/ UploadFail(f) \/ StageEpoch(f) \/ DeleteRead(f) \/ DeleteCommit(f)
                      \/ DeleteFail(f) \/ DeleteUnlink(f) \/ FetchBlob(f)
               PROVE  StateOK'
    BY DEF FileStep
  <1>1. CASE UploadBegin(f)
    BY <1>1 DEF UploadBegin
  <1>2. CASE UploadWriteBlob(f)
    BY <1>2 DEF UploadWriteBlob, Fresh
  <1>3. CASE UploadCommit(f)
    BY <1>3 DEF UploadCommit
  <1>4. CASE UploadFail(f)
    BY <1>4 DEF UploadFail
  <1>5. CASE StageEpoch(f)
    BY <1>5 DEF StageEpoch
  <1>6. CASE DeleteRead(f)
    BY <1>6 DEF DeleteRead
  <1>7. CASE DeleteCommit(f)
    BY <1>7 DEF DeleteCommit, Enqueued
  <1>8. CASE DeleteFail(f)
    BY <1>8 DEF DeleteFail
  <1>9. CASE DeleteUnlink(f)
    BY <1>9 DEF DeleteUnlink
  <1>10. CASE FetchBlob(f)
    BY <1>10 DEF FetchBlob
  <1>11. QED BY <1>1, <1>2, <1>3, <1>4, <1>5, <1>6, <1>7, <1>8, <1>9, <1>10

LEMMA FlushStepType == StateOK /\ FlushStep => StateOK'
  <1> USE DEF StateOK, FlushHolds, TypeOK, NodeStates, SessionStates, Manifest, NoManifest,
              db, staging, cloud, sweep, flush, delete, drain, push
  <1> SUFFICES ASSUME StateOK, FlushStep PROVE StateOK' OBVIOUS
  <1>1. ASSUME NEW by \in {"user", "push", "lock"}, FlushRead(by) PROVE StateOK'
    BY <1>1 DEF FlushRead
  <1>2. CASE FlushPack
    BY <1>2, NoBlobAssumption DEF FlushPack, Fresh
  <1>3. CASE FlushCommit
    <2>1. refs' \in [Files -> SUBSET Blobs] /\ flBlob \in Blobs
      BY <1>3, NoBlobAssumption DEF FlushCommit
    <2>2. QED BY <1>3, <2>1 DEF FlushCommit
  <1>4. CASE FlushFail
    BY <1>4 DEF FlushFail
  <1>5. CASE FlushEnd
    BY <1>5 DEF FlushEnd
  <1>6. QED BY <1>1, <1>2, <1>3, <1>4, <1>5 DEF FlushStep

LEMMA PushStepType == StateOK /\ (PushBegin \/ PushStep) => StateOK'
  <1> USE DEF StateOK, FlushHolds, TypeOK, NodeStates, SessionStates, Manifest, NoManifest,
              db, staging, cloud, sweep, flush, delete, drain, push
  <1> SUFFICES ASSUME StateOK, PushBegin \/ PushStep PROVE StateOK' OBVIOUS
  <1>1. CASE PushBegin
    BY <1>1 DEF PushBegin
  <1>2. CASE PushProbe
    BY <1>2 DEF PushProbe
  <1>3. CASE PushList
    BY <1>3 DEF PushList
  <1>4. ASSUME NEW b \in Blobs, PushUpload(b) PROVE StateOK'
    BY <1>4 DEF PushUpload
  <1>5. ASSUME NEW b \in Blobs, PushUnstage(b) PROVE StateOK'
    BY <1>5 DEF PushUnstage
  <1>6. ASSUME NEW b \in Blobs, PushUploadFail(b) PROVE StateOK'
    BY <1>6 DEF PushUploadFail
  <1>7. CASE PushAbort
    BY <1>7 DEF PushAbort
  <1>8. CASE PushIncrement
    BY <1>8 DEF PushIncrement
  <1>9. CASE PushSnapshot
    BY <1>9 DEF PushSnapshot, Referenced
  <1>10. CASE PushManifest
    BY <1>10 DEF PushManifest
  <1>11. CASE PushManifestFail
    <2>1. /\ cloudManifest' \in Manifest /\ opens' \in BOOLEAN /\ counter' \in Nat
          /\ pushSnap' \in Manifest /\ pushLocal' \in Nat /\ pushPc' = "idle"
      BY <1>11 DEF PushManifestFail, RolledBack
    <2>2. UNCHANGED <<node, sized, refs, epochBlobs, buffer, pendingDel, staging, cloudBlobs,
                      sweep, upBlobs, flush, delete, pushTodo, pushSent, drain>>
      BY <1>11 DEF PushManifestFail
    <2>3. QED BY <2>1, <2>2
  <1>12. CASE PushHeader
    BY <1>12, ZenonT(40) DEF PushHeader
  <1>13. CASE PushError
    BY <1>13 DEF PushError
  <1>14. QED BY <1>1, <1>2, <1>3, <1>4, <1>5, <1>6, <1>7, <1>8, <1>9, <1>10,
                <1>11, <1>12, <1>13 DEF PushStep

LEMMA DrainStepType == StateOK /\ DrainStep => StateOK'
  <1> USE DEF StateOK, FlushHolds, TypeOK, NodeStates, SessionStates, Manifest, NoManifest,
              db, staging, cloud, sweep, flush, delete, drain, push
  <1> SUFFICES ASSUME StateOK, DrainStep PROVE StateOK' OBVIOUS
  <1>1. CASE DrainList
    BY <1>1 DEF DrainList
  <1>2. CASE DrainMark
    BY <1>2 DEF DrainMark
  <1>3. ASSUME NEW b \in Blobs, DrainDelete(b) PROVE StateOK'
    BY <1>3 DEF DrainDelete
  <1>4. ASSUME NEW b \in Blobs, DrainDeleteFail(b) PROVE StateOK'
    BY <1>4 DEF DrainDeleteFail
  <1>5. QED BY <1>1, <1>2, <1>3, <1>4 DEF DrainStep

LEMMA SessionStepType == StateOK /\ SessionStep => StateOK'
  <1> USE DEF StateOK, FlushHolds, TypeOK, NodeStates, SessionStates, Manifest, NoManifest,
              db, staging, cloud, sweep, flush, delete, drain, push
  <1> SUFFICES ASSUME StateOK, SessionStep PROVE StateOK' OBVIOUS
  <1>1. CASE PrepareMigrate
    BY <1>1 DEF PrepareMigrate
  <1>2. CASE PrepareList
    BY <1>2 DEF PrepareList, Referenced
  <1>3. CASE PrepareSweep
    BY <1>3 DEF PrepareSweep
  <1>4. CASE LockSession
    BY <1>4 DEF LockSession
  <1>5. CASE SessionTimeout
    BY <1>5 DEF SessionTimeout
  <1>6. CASE Crash
    BY <1>6 DEF Crash
  <1>7. QED BY <1>1, <1>2, <1>3, <1>4, <1>5, <1>6 DEF SessionStep

LEMMA NextType == StateOK /\ [Next]_vars => StateOK'
  <1> SUFFICES ASSUME StateOK, [Next]_vars PROVE StateOK' OBVIOUS
  <1>1. CASE UNCHANGED vars
    BY <1>1 DEF vars, StateOK, FlushHolds, TypeOK, db, staging, cloud, sweep, flush, delete, drain, push
  <1>2. CASE ManifestUnreadable
    BY <1>2, ZenonT(40) DEF ManifestUnreadable, StateOK, FlushHolds, TypeOK, db, staging, sweep, flush,
                delete, drain, push
  <1>3. QED BY <1>1, <1>2, FileStepType, FlushStepType, PushStepType, DrainStepType,
               SessionStepType DEF Next

(* Every reachable state of the store is well typed, whatever the sets of  *)
(* files and blobs, the flags and the counter bound.                        *)
THEOREM TypeCorrect == Spec => []TypeOK
  <1>1. StateOK => TypeOK
    BY DEF StateOK
  <1>2. QED BY <1>1, InitType, NextType, PTL DEF Spec

-----------------------------------------------------------------------------
(* The queue of cloud deletions.  Parts are the conjuncts of QueueInv that *)
(* relate the tables, the staged names and the drain.                       *)

Parts ==
    /\ RefsOfRows /\ NamesUsed /\ StagedPrivate /\ SharedAreEpoch /\ DrainQueued
    /\ QueuedUnreferenced

queueVars ==
    <<node, refs, epochBlobs, pendingDel, used, upBlobs, flBlob, drainLeft, drainCur>>

(* Steps that touch none of these variables keep the parts.                 *)
LEMMA FrameParts == Parts /\ UNCHANGED queueVars => Parts'
  BY DEF Parts, queueVars, RefsOfRows, NamesUsed, StagedPrivate, SharedAreEpoch,
         DrainQueued, QueuedUnreferenced, Referenced

LEMMA InitParts == Init => Parts
  BY NoBlobAssumption
     DEF Init, Parts, RefsOfRows, NamesUsed, StagedPrivate, SharedAreEpoch,
         DrainQueued, QueuedUnreferenced, Referenced

(* delete_node: the enqueued names are referred to by nobody else, because *)
(* only epoch blobs are shared and a shared epoch blob is not enqueued.     *)
LEMMA DeleteCommitParts ==
    ASSUME StateOK, Parts, NEW f \in Files, DeleteCommit(f) PROVE Parts'
  <1> USE DEF StateOK, TypeOK, Parts
  <1>1. /\ refs[f] \subseteq Blobs
        /\ refs' = [refs EXCEPT ![f] = {}]
        /\ pendingDel' = pendingDel \cup Enqueued(f)
        /\ epochBlobs' = {b \in epochBlobs : \E g \in Files \ {f} : b \in refs[g]}
        /\ node' = [node EXCEPT ![f] = "gone"]
        /\ UNCHANGED <<used, upBlobs, flBlob, drainLeft, drainCur>>
    BY DEF DeleteCommit, staging, flush, drain
  <1>2. Enqueued(f) \subseteq refs[f] /\ refs[f] \subseteq Referenced
    BY <1>1 DEF Enqueued, Referenced
  <1>3. Referenced' \subseteq Referenced
    BY <1>1 DEF Referenced
  <1>4. Enqueued(f) \cap Referenced' = {}
    <2> SUFFICES ASSUME NEW b \in Enqueued(f), b \in Referenced' PROVE FALSE
      OBVIOUS
    <2>1. PICK g \in Files \ {f} : b \in refs[g]
      BY <1>1 DEF Referenced
    <2>2. b \in epochBlobs
      BY <2>1, <1>2 DEF SharedAreEpoch
    <2>3. QED BY <2>1, <2>2 DEF Enqueued
  <1>5. RefsOfRows'
    BY <1>1 DEF RefsOfRows, DeleteCommit
  <1>6. NamesUsed'
    BY <1>1, <1>2, <1>3 DEF NamesUsed
  <1>7. StagedPrivate'
    BY <1>1, <1>2, <1>3 DEF StagedPrivate
  <1>8. SharedAreEpoch'
    BY <1>1 DEF SharedAreEpoch
  <1>9. DrainQueued'
    BY <1>1 DEF DrainQueued
  <1>10. QueuedUnreferenced'
    BY <1>1, <1>3, <1>4 DEF QueuedUnreferenced
  <1>11. QED BY <1>5, <1>6, <1>7, <1>8, <1>9, <1>10

(* insert_file_with_chunks: the new rows refer to names only this upload   *)
(* knew.                                                                    *)
LEMMA UploadCommitParts ==
    ASSUME StateOK, Parts, NEW f \in Files, UploadCommit(f) PROVE Parts'
  <1> USE DEF StateOK, TypeOK, Parts
  <1>1. /\ node[f] = "uploading" /\ refs[f] = {}
        /\ refs' = [refs EXCEPT ![f] = upBlobs[f]]
        /\ upBlobs' = [upBlobs EXCEPT ![f] = {}]
        /\ node' = [node EXCEPT ![f] = "row"]
        /\ UNCHANGED <<epochBlobs, pendingDel, used, flBlob, drainLeft, drainCur>>
    BY DEF UploadCommit, RefsOfRows, staging, flush, drain
  <1>2. Referenced' \subseteq Referenced \cup upBlobs[f]
    BY <1>1 DEF Referenced
  <1>3. RefsOfRows'
    BY <1>1 DEF RefsOfRows
  <1>4. NamesUsed'
    BY <1>1, <1>2 DEF NamesUsed
  <1>5. StagedPrivate'
    BY <1>1, <1>2 DEF StagedPrivate
  <1>6. SharedAreEpoch'
    <2>1. \A g \in Files : upBlobs[f] \cap refs[g] = {}
      BY DEF StagedPrivate, Referenced
    <2>2. QED BY <1>1, <2>1 DEF SharedAreEpoch
  <1>7. DrainQueued' /\ QueuedUnreferenced'
    BY <1>1, <1>2 DEF DrainQueued, QueuedUnreferenced, StagedPrivate
  <1>8. QED BY <1>3, <1>4, <1>5, <1>6, <1>7

LEMMA UploadWriteBlobParts ==
    ASSUME StateOK, Parts, NEW f \in Files, UploadWriteBlob(f) PROVE Parts'
  <1> USE DEF StateOK, TypeOK, Parts
  <1>1. PICK b \in Fresh :
            /\ upBlobs' = [upBlobs EXCEPT ![f] = @ \cup {b}]
            /\ used' = used \cup {b}
    BY DEF UploadWriteBlob
  <1>2. /\ b \in Blobs /\ b \notin used
        /\ node[f] = "uploading"
        /\ UNCHANGED <<node, refs, epochBlobs, pendingDel, flBlob, drainLeft, drainCur>>
        /\ Referenced' = Referenced
    BY DEF UploadWriteBlob, Fresh, db, flush, drain, Referenced
  <1>3. RefsOfRows' /\ NamesUsed'
    BY <1>1, <1>2 DEF RefsOfRows, NamesUsed
  <1>4. StagedPrivate'
    BY <1>1, <1>2, NoBlobAssumption DEF StagedPrivate, NamesUsed
  <1>5. SharedAreEpoch' /\ DrainQueued' /\ QueuedUnreferenced'
    BY <1>2 DEF SharedAreEpoch, DrainQueued, QueuedUnreferenced
  <1>6. QED BY <1>3, <1>4, <1>5

(* What UploadBegin, UploadFail and StageEpoch do to a node without rows   *)
(* concerns only that node's staged names.                                  *)
LEMMA NodeParts ==
    ASSUME StateOK, Parts, NEW f \in Files,
           UploadBegin(f) \/ UploadFail(f) \/ StageEpoch(f)
    PROVE  Parts'
  <1> USE DEF StateOK, TypeOK, Parts
  <1>1. /\ refs[f] = {} /\ Referenced' = Referenced
        /\ \A g \in Files \ {f} : node'[g] = node[g] /\ upBlobs'[g] = upBlobs[g]
        /\ node'[f] # "uploading" => upBlobs'[f] = {}
        /\ upBlobs'[f] \subseteq upBlobs[f]
        /\ UNCHANGED <<refs, epochBlobs, pendingDel, used, flBlob, drainLeft, drainCur>>
    BY DEF UploadBegin, UploadFail, StageEpoch, RefsOfRows, Referenced, staging, flush, drain
  <1>2. RefsOfRows' /\ NamesUsed'
    BY <1>1 DEF RefsOfRows, NamesUsed
  <1>3. StagedPrivate'
    BY <1>1 DEF StagedPrivate
  <1>4. SharedAreEpoch' /\ DrainQueued' /\ QueuedUnreferenced'
    BY <1>1 DEF SharedAreEpoch, DrainQueued, QueuedUnreferenced
  <1>5. QED BY <1>2, <1>3, <1>4

LEMMA FlushPackParts ==
    ASSUME StateOK, Parts, FlushPack PROVE Parts'
  <1> USE DEF StateOK, TypeOK, Parts
  <1>1. PICK b \in Fresh : flBlob' = b /\ used' = used \cup {b}
    BY DEF FlushPack
  <1>2. /\ b \in Blobs /\ b \notin used
        /\ UNCHANGED <<node, refs, epochBlobs, pendingDel, upBlobs, drainLeft, drainCur>>
        /\ Referenced' = Referenced
    BY DEF FlushPack, Fresh, db, drain, Referenced
  <1>3. RefsOfRows' /\ NamesUsed'
    BY <1>1, <1>2 DEF RefsOfRows, NamesUsed
  <1>4. StagedPrivate'
    BY <1>1, <1>2 DEF StagedPrivate, NamesUsed
  <1>5. SharedAreEpoch' /\ DrainQueued' /\ QueuedUnreferenced'
    BY <1>2 DEF SharedAreEpoch, DrainQueued, QueuedUnreferenced
  <1>6. QED BY <1>3, <1>4, <1>5

(* commit_epoch_flush: the epoch blob was private to the flush, and every  *)
(* node it is given to still has its row.                                   *)
LEMMA FlushCommitParts ==
    ASSUME StateOK, Parts, FlushCommit PROVE Parts'
  <1> USE DEF StateOK, TypeOK, Parts
  <1>1. /\ flBlob \in Blobs /\ flBatch # {} /\ flBatch \subseteq Files
        /\ \A f \in flBatch : node[f] = "row"
        /\ epochBlobs' = epochBlobs \cup {flBlob}
        /\ \A f \in flBatch : refs'[f] = refs[f] \cup {flBlob}
        /\ \A f \in Files \ flBatch : refs'[f] = refs[f]
        /\ flBlob' = NoBlob
        /\ UNCHANGED <<node, pendingDel, used, upBlobs, drainLeft, drainCur>>
    BY DEF FlushCommit, FlushHolds, staging, drain
  <1>2. Referenced' \subseteq Referenced \cup {flBlob}
    BY <1>1 DEF Referenced
  <1>3. RefsOfRows'
    BY <1>1 DEF RefsOfRows
  <1>4. NamesUsed'
    BY <1>1, <1>2, NoBlobAssumption DEF NamesUsed
  <1>5. StagedPrivate'
    <2>1. NoBlob \notin Referenced' \cup pendingDel'
      BY <1>1, <1>2, NoBlobAssumption DEF Referenced
    <2>2. \A f \in Files : NoBlob \notin upBlobs'[f]
      BY <1>1, NoBlobAssumption
    <2>3. QED BY <1>1, <1>2, <2>1, <2>2 DEF StagedPrivate
  <1>6. SharedAreEpoch'
    <2>1. ASSUME NEW f \in Files, NEW g \in Files, f # g
          PROVE  refs'[f] \cap refs'[g] \subseteq epochBlobs'
      BY <1>1, <2>1 DEF SharedAreEpoch
    <2>2. ASSUME NEW b \in epochBlobs' PROVE \E f \in Files : b \in refs'[f]
      <3>1. CASE b = flBlob
        BY <1>1, <3>1
      <3>2. CASE b \in epochBlobs
        <4>1. PICK f \in Files : b \in refs[f]
          BY <3>2 DEF SharedAreEpoch
        <4>2. b \in refs'[f]
          BY <1>1, <4>1
        <4>3. QED BY <4>2
      <3>3. QED BY <1>1, <3>1, <3>2
    <2>3. QED BY <2>1, <2>2 DEF SharedAreEpoch
  <1>7. DrainQueued' /\ QueuedUnreferenced'
    BY <1>1, <1>2 DEF DrainQueued, QueuedUnreferenced, StagedPrivate
  <1>8. QED BY <1>3, <1>4, <1>5, <1>6, <1>7

(* A failed flush or a crash forgets staged names; no table changes.       *)
LEMMA ForgetParts ==
    ASSUME StateOK, Parts, FlushFail \/ Crash PROVE Parts'
  <1> USE DEF StateOK, TypeOK, Parts
  <1>1. /\ flBlob' = NoBlob
        /\ \A f \in Files : /\ upBlobs'[f] \subseteq upBlobs[f]
                            /\ (node'[f] = "row") <=> (node[f] = "row")
                            /\ node'[f] # "uploading" => upBlobs'[f] = {}
        /\ drainLeft' \subseteq drainLeft /\ drainCur' \in {drainCur, NoBlob}
        /\ UNCHANGED <<refs, epochBlobs, pendingDel, used>>
        /\ Referenced' = Referenced
    BY DEF FlushFail, Crash, RefsOfRows, Referenced, db, staging, drain
  <1>2. RefsOfRows' /\ NamesUsed'
    BY <1>1 DEF RefsOfRows, NamesUsed
  <1>3. StagedPrivate'
    <2>1. NoBlob \notin Referenced' \cup pendingDel'
      BY <1>1, NoBlobAssumption DEF Referenced
    <2>2. \A f \in Files : NoBlob \notin upBlobs'[f]
      BY <1>1, NoBlobAssumption
    <2>3. QED BY <1>1, <2>1, <2>2 DEF StagedPrivate
  <1>4. SharedAreEpoch' /\ DrainQueued' /\ QueuedUnreferenced'
    BY <1>1 DEF SharedAreEpoch, DrainQueued, QueuedUnreferenced
  <1>5. QED BY <1>2, <1>3, <1>4

(* The drain only shrinks the queue, by the row it holds, and lists only   *)
(* rows that are in it.                                                     *)
LEMMA DrainParts ==
    ASSUME StateOK, Parts, DrainStep \/ PushError PROVE Parts'
  <1> USE DEF StateOK, TypeOK, Parts
  <1>1. /\ UNCHANGED <<node, refs, epochBlobs, used, upBlobs, flBlob>>
        /\ Referenced' = Referenced
        /\ pendingDel' \subseteq pendingDel
    BY DEF DrainStep, DrainList, DrainMark, DrainDelete, DrainDeleteFail, PushError,
           db, staging, flush, Referenced
  <1>2. DrainQueued'
    BY DEF DrainQueued, DrainStep, DrainList, DrainMark, DrainDelete, DrainDeleteFail,
           PushError, db, drain
  <1>3. RefsOfRows' /\ NamesUsed'
    BY <1>1 DEF RefsOfRows, NamesUsed
  <1>4. StagedPrivate' /\ SharedAreEpoch' /\ QueuedUnreferenced'
    BY <1>1 DEF StagedPrivate, SharedAreEpoch, QueuedUnreferenced
  <1>5. QED BY <1>2, <1>3, <1>4

(* The steps outside the tables, the staged names and the drain.            *)
LEMMA OtherParts ==
    ASSUME StateOK, Parts,
           \/ \E f \in Files : DeleteRead(f) \/ DeleteFail(f) \/ DeleteUnlink(f) \/ FetchBlob(f)
           \/ \E by \in {"user", "push", "lock"} : FlushRead(by)
           \/ FlushEnd \/ PushBegin \/ PushProbe \/ PushList
           \/ \E b \in Blobs : PushUpload(b) \/ PushUnstage(b) \/ PushUploadFail(b)
           \/ PushAbort \/ PushIncrement \/ PushSnapshot \/ PushManifest \/ PushManifestFail
           \/ PushHeader \/ PrepareMigrate \/ PrepareList \/ PrepareSweep
           \/ LockSession \/ SessionTimeout \/ ManifestUnreadable \/ UNCHANGED vars
    PROVE  Parts'
  <1> USE DEF queueVars, db, staging, flush, drain
  <1>1. UNCHANGED queueVars
    <2>1. ASSUME NEW f \in Files,
                 DeleteRead(f) \/ DeleteFail(f) \/ DeleteUnlink(f) \/ FetchBlob(f)
          PROVE  UNCHANGED queueVars
      BY <2>1 DEF DeleteRead, DeleteFail, DeleteUnlink, FetchBlob
    <2>2. ASSUME NEW by \in {"user", "push", "lock"}, FlushRead(by)
          PROVE  UNCHANGED queueVars
      BY <2>2 DEF FlushRead
    <2>3. ASSUME FlushEnd \/ PushBegin \/ PushProbe \/ PushList PROVE UNCHANGED queueVars
      BY <2>3 DEF FlushEnd, PushBegin, PushProbe, PushList
    <2>4. ASSUME NEW b \in Blobs, PushUpload(b) \/ PushUnstage(b) \/ PushUploadFail(b)
          PROVE  UNCHANGED queueVars
      BY <2>4 DEF PushUpload, PushUnstage, PushUploadFail
    <2>5. ASSUME \/ PushAbort \/ PushIncrement \/ PushSnapshot
                 \/ PushManifest \/ PushManifestFail \/ PushHeader
          PROVE  UNCHANGED queueVars
      BY <2>5 DEF PushAbort, PushIncrement, PushSnapshot, PushManifest, PushManifestFail,
                  PushHeader
    <2>6. ASSUME \/ PrepareMigrate \/ PrepareList \/ PrepareSweep
                 \/ LockSession \/ SessionTimeout \/ ManifestUnreadable \/ UNCHANGED vars
          PROVE  UNCHANGED queueVars
      BY <2>6 DEF PrepareMigrate, PrepareList, PrepareSweep, LockSession, SessionTimeout,
                  ManifestUnreadable, vars
    <2>7. QED BY <2>1, <2>2, <2>3, <2>4, <2>5, <2>6
  <1>2. QED BY <1>1, FrameParts

LEMMA NextParts == StateOK /\ Parts /\ [Next]_vars => Parts'
  <1> SUFFICES ASSUME StateOK, Parts, [Next]_vars PROVE Parts' OBVIOUS
  <1>1. CASE FileStep
    BY <1>1, NodeParts, UploadWriteBlobParts, UploadCommitParts, DeleteCommitParts, OtherParts
       DEF FileStep
  <1>2. CASE FlushStep
    BY <1>2, FlushPackParts, FlushCommitParts, ForgetParts, OtherParts DEF FlushStep
  <1>3. CASE PushBegin \/ PushStep
    BY <1>3, DrainParts, OtherParts DEF PushStep
  <1>4. CASE DrainStep
    BY <1>4, DrainParts
  <1>5. CASE SessionStep
    BY <1>5, ForgetParts, OtherParts DEF SessionStep
  <1>6. CASE ManifestUnreadable \/ UNCHANGED vars
    BY <1>6, OtherParts
  <1>7. QED BY <1>1, <1>2, <1>3, <1>4, <1>5, <1>6 DEF Next

(* The inductive invariant of the deletion queue holds in every reachable  *)
(* state.                                                                   *)
THEOREM QueueInvariant == Spec => []QueueInv
  <1>1. Init => StateOK /\ Parts
    BY InitType, InitParts
  <1>2. StateOK /\ Parts /\ [Next]_vars => (StateOK /\ Parts)'
    BY NextType, NextParts
  <1>3. StateOK /\ Parts => QueueInv
    BY DEF StateOK, Parts, QueueInv
  <1>4. QED BY <1>1, <1>2, <1>3, PTL DEF Spec

(* No blob that a file of the manifest still refers to is ever queued for  *)
(* deletion from the cloud (delete_node), however many files, blobs,        *)
(* flushes, deletes and crashes there are.                                  *)
THEOREM QueuedAreUnreferenced == Spec => []QueuedUnreferenced
  <1>1. QueueInv => QueuedUnreferenced
    BY DEF QueueInv
  <1>2. QED BY <1>1, QueueInvariant, PTL

(* drain_pending_deletions never removes an object that the manifest still *)
(* lists from the cloud.                                                    *)
THEOREM CloudDeletesAreSafe == Spec => CloudDeleteSafe
  <1>1. QueueInv /\ [Next]_vars => [(cloudBlobs \ cloudBlobs') \cap Referenced = {}]_vars
    <2> SUFFICES ASSUME QueueInv, Next
                 PROVE  (cloudBlobs \ cloudBlobs') \cap Referenced = {}
      OBVIOUS
    <2>1. ASSUME NEW b \in Blobs, DrainDelete(b) \/ DrainDeleteFail(b)
          PROVE  (cloudBlobs \ cloudBlobs') \cap Referenced = {}
      <3>1. cloudBlobs \ cloudBlobs' \subseteq {b}
        BY <2>1 DEF DrainDelete, DrainDeleteFail
      <3>2. b \in pendingDel
        BY <2>1 DEF QueueInv, DrainQueued, DrainDelete, DrainDeleteFail
      <3>3. QED BY <3>1, <3>2 DEF QueueInv, QueuedUnreferenced
    <2>2. CASE DrainList \/ DrainMark
      BY <2>2 DEF DrainList, DrainMark, cloud
    <2>3. CASE FileStep
      BY <2>3 DEF FileStep, UploadBegin, UploadWriteBlob, UploadCommit, UploadFail, StageEpoch,
                  DeleteRead, DeleteCommit, DeleteFail, DeleteUnlink, FetchBlob, cloud
    <2>4. CASE FlushStep
      BY <2>4 DEF FlushStep, FlushRead, FlushPack, FlushCommit, FlushFail, FlushEnd, cloud
    <2>5. CASE PushBegin \/ PushStep
      BY <2>5 DEF PushStep, PushBegin, PushProbe, PushList, PushUpload, PushUnstage,
                  PushUploadFail, PushAbort, PushIncrement, PushSnapshot, PushManifest,
                  PushManifestFail, PushHeader, PushError, cloud
    <2>6. CASE SessionStep
      BY <2>6 DEF SessionStep, PrepareMigrate, PrepareList, PrepareSweep, LockSession,
                  SessionTimeout, Crash, cloud
    <2>7. QED BY <2>1, <2>2, <2>3, <2>4, <2>5, <2>6 DEF Next, DrainStep, ManifestUnreadable
  <1>2. QED BY <1>1, QueueInvariant, PTL DEF Spec, CloudDeleteSafe

-----------------------------------------------------------------------------
(* No leak.  Listed is what the manifest or the queue knows; only the      *)
(* drain, marking a row whose object is gone, makes it smaller.             *)

Listed == Referenced \cup pendingDel

LEMMA ListedGrows ==
    ASSUME QueueInv, Next, ~DrainMark PROVE Listed \subseteq Listed'
  <1> USE DEF Listed, QueueInv, TypeOK
  <1>1. ASSUME NEW f \in Files, DeleteCommit(f) PROVE Listed \subseteq Listed'
    <2>1. /\ refs' = [refs EXCEPT ![f] = {}]
          /\ pendingDel' = pendingDel \cup Enqueued(f)
          /\ epochBlobs' = {b \in epochBlobs : \E g \in Files \ {f} : b \in refs[g]}
      BY <1>1 DEF DeleteCommit
    <2> SUFFICES ASSUME NEW b \in Referenced PROVE b \in Listed'
      BY <2>1
    <2>2. PICK g \in Files : b \in refs[g]
      BY DEF SharedAreEpoch, Referenced
    <2>3. CASE \E h \in Files \ {f} : b \in refs[h]
      BY <2>1, <2>3 DEF Referenced
    <2>4. CASE \A h \in Files \ {f} : b \notin refs[h]
      BY <2>1, <2>2, <2>4 DEF Enqueued
    <2>5. QED BY <2>3, <2>4
  <1>2. ASSUME NEW f \in Files, UploadCommit(f) PROVE Listed \subseteq Listed'
    <2>1. refs[f] = {} /\ UNCHANGED <<epochBlobs, pendingDel>>
          /\ refs' = [refs EXCEPT ![f] = upBlobs[f]]
      BY <1>2 DEF UploadCommit, RefsOfRows
    <2>2. QED BY <2>1 DEF Referenced
  <1>3. CASE FlushCommit
    <2>1. /\ epochBlobs \subseteq epochBlobs' /\ UNCHANGED pendingDel
          /\ \A f \in Files : refs[f] \subseteq refs'[f]
      BY <1>3 DEF FlushCommit
    <2>2. QED BY <2>1 DEF Referenced
  <1>4. CASE UNCHANGED <<refs, epochBlobs, pendingDel>>
    BY <1>4 DEF Referenced
  <1>5. \/ UNCHANGED <<refs, epochBlobs, pendingDel>>
        \/ FlushCommit
        \/ \E f \in Files : UploadCommit(f) \/ DeleteCommit(f)
    <2> USE DEF db
    <2>1. CASE FileStep
      BY <2>1 DEF FileStep, UploadBegin, UploadWriteBlob, UploadFail, StageEpoch,
                  DeleteRead, DeleteFail, DeleteUnlink, FetchBlob
    <2>2. CASE FlushStep
      BY <2>2 DEF FlushStep, FlushRead, FlushPack, FlushFail, FlushEnd
    <2>3. CASE PushBegin \/ PushStep
      BY <2>3 DEF PushStep, PushBegin, PushProbe, PushList, PushUpload, PushUnstage,
                  PushUploadFail, PushAbort, PushIncrement, PushSnapshot, PushManifest,
                  PushManifestFail, PushHeader, PushError
    <2>4. CASE DrainStep
      BY <2>4 DEF DrainStep, DrainList, DrainDelete, DrainDeleteFail
    <2>5. CASE SessionStep
      BY <2>5 DEF SessionStep, PrepareMigrate, PrepareList, PrepareSweep, LockSession,
                  SessionTimeout, Crash
    <2>6. QED BY <2>1, <2>2, <2>3, <2>4, <2>5 DEF Next, ManifestUnreadable
  <1>6. QED BY <1>1, <1>2, <1>3, <1>4, <1>5

LEMMA NextLeak == QueueInv /\ LeakInv /\ [Next]_vars => LeakInv'
  <1> SUFFICES ASSUME QueueInv, LeakInv, [Next]_vars PROVE LeakInv' OBVIOUS
  <1> USE DEF LeakInv, NoCloudLeak
  <1>1. CASE UNCHANGED vars
    BY <1>1 DEF vars, db, cloud, push, drain, flush, Referenced
  <1>2. CASE DrainMark
    <2>1. /\ pendingDel' = pendingDel \ {drainCur} /\ Referenced' = Referenced
          /\ drainCur \notin cloudBlobs /\ pushTodo = {} /\ drainCur' = NoBlob
          /\ UNCHANGED <<cloudBlobs, pushTodo, pushPc, flBy>>
      BY <1>2 DEF DrainMark, cloud, push, flush, Referenced
    <2>2. QED BY <2>1
  <1>3. CASE Next /\ ~DrainMark
    <2>1. Listed \subseteq Listed'
      BY <1>3, ListedGrows
    <2>2. SUFFICES /\ cloudBlobs' \cup pushTodo' \subseteq Listed
                   /\ pushPc' \notin {"upload", "failing"} => pushTodo' = {}
                   /\ drainCur' # NoBlob => drainCur' \notin cloudBlobs' /\ pushPc' = "drain"
                   /\ flBy' = "push" => pushPc' = "flush"
      BY <2>1 DEF Listed
    <2>3. cloudBlobs \cup pushTodo \subseteq Listed
      BY DEF Listed
    <2>4. CASE FileStep
      BY <2>3, <2>4 DEF FileStep, UploadBegin, UploadWriteBlob, UploadCommit, UploadFail,
           StageEpoch, DeleteRead, DeleteCommit, DeleteFail, DeleteUnlink, FetchBlob,
           cloud, push, drain, flush
    <2>5. CASE FlushStep
      <3>1. ASSUME NEW by \in {"user", "push", "lock"}, FlushRead(by)
            PROVE  /\ UNCHANGED <<cloudBlobs, pushTodo, pushPc, drainCur>>
                   /\ flBy' = "push" => pushPc' = "flush"
        BY <3>1 DEF FlushRead, cloud, push, drain
      <3>2. CASE FlushEnd
        BY <2>3, <3>2 DEF FlushEnd, cloud, drain
      <3>3. CASE FlushPack \/ FlushCommit \/ FlushFail
        BY <2>3, <3>3 DEF FlushPack, FlushCommit, FlushFail, cloud, push, drain
      <3>4. QED BY <2>3, <2>5, <3>1, <3>2, <3>3 DEF FlushStep
    <2>6. CASE PushBegin \/ PushStep
      <3>1. ASSUME NEW b \in Blobs, PushUpload(b) \/ PushUnstage(b) \/ PushUploadFail(b)
            PROVE  /\ cloudBlobs' \subseteq cloudBlobs \cup pushTodo
                   /\ pushTodo' \subseteq pushTodo
                   /\ pushPc' \notin {"upload", "failing"} => pushTodo' = {}
                   /\ drainCur' = drainCur /\ (cloudBlobs' # cloudBlobs => pushPc # "drain")
                   /\ pushPc = "drain" => pushPc' = "drain"
                   /\ flBy' = "push" => pushPc' = "flush"
        BY <3>1 DEF PushUpload, PushUnstage, PushUploadFail, cloud, drain, flush
      <3>2. CASE PushList \/ PushAbort \/ PushIncrement
        BY <2>3, <3>2 DEF PushList, PushAbort, PushIncrement, cloud, drain, flush, Listed
      <3>3. CASE PushBegin \/ PushProbe \/ PushSnapshot \/ PushHeader
        BY <2>3, <3>3 DEF PushBegin, PushProbe, PushSnapshot, PushHeader, cloud, drain, flush
      <3>4. CASE PushManifest \/ PushManifestFail \/ PushError
        BY <2>3, <3>4 DEF PushManifest, PushManifestFail, PushError, cloud, drain, flush
      <3>5. QED BY <2>3, <2>6, <3>1, <3>2, <3>3, <3>4 DEF PushStep
    <2>7. CASE DrainStep
      <3>1. CASE DrainList
        BY <2>3, <3>1 DEF DrainList, cloud, flush
      <3>2. ASSUME NEW b \in Blobs, DrainDelete(b) \/ DrainDeleteFail(b)
            PROVE  /\ cloudBlobs' \subseteq cloudBlobs /\ UNCHANGED <<pushTodo, pushPc, flBy>>
                   /\ drainCur' # NoBlob => drainCur' \notin cloudBlobs' /\ pushPc' = "drain"
        BY <3>2 DEF DrainDelete, DrainDeleteFail, push, flush
      <3>3. QED BY <1>3, <2>3, <2>7, <3>1, <3>2 DEF DrainStep
    <2>8. CASE SessionStep
      <3>1. CASE Crash
        BY <2>3, <3>1 DEF Crash, cloud
      <3>2. CASE ~Crash
        BY <2>3, <2>8, <3>2 DEF SessionStep, PrepareMigrate, PrepareList, PrepareSweep,
             LockSession, SessionTimeout, cloud, push, drain, flush
      <3>3. QED BY <3>1, <3>2
    <2>9. CASE ManifestUnreadable
      BY <2>3, <2>9 DEF ManifestUnreadable, push, drain, flush
    <2>10. QED BY <1>3, <2>4, <2>5, <2>6, <2>7, <2>8, <2>9 DEF Next
  <1>4. QED BY <1>1, <1>2, <1>3

(* Every object in the cloud is listed by the manifest or queued for       *)
(* deletion: no failed push, crash, or delete that overlaps an upload       *)
(* leaks one (push_vault, delete_node, drain_pending_deletions).            *)
THEOREM NothingLeaks == Spec => []NoCloudLeak
  <1>1. Init => LeakInv
    BY DEF Init, LeakInv, NoCloudLeak
  <1>2. LeakInv => NoCloudLeak
    BY DEF LeakInv
  <1>3. QED BY <1>1, <1>2, QueueInvariant, NextLeak, PTL DEF Spec

-----------------------------------------------------------------------------
(* The order of manifests.  From the comparison of the counters to the     *)
(* upload of the manifest nobody else counts or publishes.                  *)
CounterInv ==
    /\ pushPc \in {"list", "upload", "failing"} =>
          counter = pushLocal /\ (opens => cloudManifest.counter <= pushLocal)
    /\ pushPc \in {"snapshot", "manifest"} =>
          counter = pushLocal + 1 /\ (opens => cloudManifest.counter <= pushLocal)
    /\ pushPc = "manifest" => pushSnap.counter = counter

LEMMA NextCounter == StateOK /\ CounterInv /\ [Next]_vars => CounterInv'
  <1> SUFFICES ASSUME StateOK, CounterInv, [Next]_vars PROVE CounterInv' OBVIOUS
  <1> USE DEF CounterInv, StateOK, TypeOK, Manifest
  <1>1. CASE UNCHANGED <<counter, cloudManifest, opens, pushPc, pushLocal, pushSnap>>
    BY <1>1
  <1>2. CASE FlushEnd
    BY <1>2 DEF FlushEnd, db, cloud
  <1>3. CASE PushBegin \/ PushProbe \/ PushList \/ PushAbort \/ PushHeader \/ PushError
    BY <1>3 DEF PushBegin, PushProbe, PushList, PushAbort, PushHeader, PushError, db, cloud
  <1>4. ASSUME NEW b \in Blobs, PushUploadFail(b) PROVE CounterInv'
    BY <1>4 DEF PushUploadFail, db
  <1>5. CASE PushIncrement
    BY <1>5 DEF PushIncrement, cloud
  <1>6. CASE PushSnapshot
    BY <1>6 DEF PushSnapshot, db, cloud
  <1>7. CASE PushManifest \/ PushManifestFail
    BY <1>7 DEF PushManifest, PushManifestFail
  <1>8. CASE DrainList \/ Crash \/ ManifestUnreadable
    BY <1>8 DEF DrainList, Crash, ManifestUnreadable, db, cloud, push
  <1>9. \/ UNCHANGED <<counter, cloudManifest, opens, pushPc, pushLocal, pushSnap>>
        \/ FlushEnd \/ PushBegin \/ PushProbe \/ PushList \/ PushAbort \/ PushHeader
        \/ PushError \/ PushIncrement \/ PushSnapshot \/ PushManifest \/ PushManifestFail
        \/ DrainList \/ Crash \/ ManifestUnreadable \/ \E b \in Blobs : PushUploadFail(b)
    <2> USE DEF db, cloud, push
    <2>1. CASE UNCHANGED vars
      BY <2>1 DEF vars
    <2>2. CASE FileStep
      BY <2>2 DEF FileStep, UploadBegin, UploadWriteBlob, UploadCommit, UploadFail, StageEpoch,
                  DeleteRead, DeleteCommit, DeleteFail, DeleteUnlink, FetchBlob
    <2>3. CASE FlushStep
      BY <2>3 DEF FlushStep, FlushRead, FlushPack, FlushCommit, FlushFail
    <2>4. CASE PushBegin \/ PushStep
      BY <2>4 DEF PushStep, PushUpload, PushUnstage
    <2>5. CASE DrainStep
      BY <2>5 DEF DrainStep, DrainMark, DrainDelete, DrainDeleteFail
    <2>6. CASE SessionStep
      BY <2>6 DEF SessionStep, PrepareMigrate, PrepareList, PrepareSweep, LockSession,
                  SessionTimeout
    <2>7. QED BY <2>1, <2>2, <2>3, <2>4, <2>5, <2>6 DEF Next
  <1>10. QED BY <1>1, <1>2, <1>3, <1>4, <1>5, <1>6, <1>7, <1>8, <1>9

(* Every manifest that reaches the cloud, by a push that succeeds or by an  *)
(* upload that is reported as failed, has a larger counter than the one it  *)
(* replaces if that one opens: a rollback of the counter never brings an    *)
(* old one back, for every bound on the counter (push_vault,                *)
(* rollback_snapshot_counter).                                              *)
THEOREM ManifestsAreOrdered == Spec => ManifestsOrdered
  <1>1. Init => StateOK /\ CounterInv
    BY InitType DEF Init, CounterInv
  <1>2. StateOK /\ CounterInv /\ [Next]_vars => (StateOK /\ CounterInv)'
    BY NextType, NextCounter
  <1>3. StateOK /\ CounterInv /\ [Next]_vars =>
            [cloudManifest' # cloudManifest /\ opens =>
                 cloudManifest'.counter > cloudManifest.counter]_vars
    <2> SUFFICES ASSUME StateOK, CounterInv, Next, cloudManifest' # cloudManifest, opens
                 PROVE  cloudManifest'.counter > cloudManifest.counter
      OBVIOUS
    <2>1. PushManifest \/ PushManifestFail
      <3> USE DEF cloud
      <3>1. ~FileStep
        BY DEF FileStep, UploadBegin, UploadWriteBlob, UploadCommit, UploadFail, StageEpoch,
               DeleteRead, DeleteCommit, DeleteFail, DeleteUnlink, FetchBlob
      <3>2. ~FlushStep
        BY DEF FlushStep, FlushRead, FlushPack, FlushCommit, FlushFail, FlushEnd
      <3>3. ~DrainStep
        BY DEF DrainStep, DrainList, DrainMark, DrainDelete, DrainDeleteFail
      <3>4. ~SessionStep
        BY DEF SessionStep, PrepareMigrate, PrepareList, PrepareSweep, LockSession,
               SessionTimeout, Crash
      <3>5. PushStep => PushManifest \/ PushManifestFail
        BY DEF PushStep, PushProbe, PushList, PushUpload, PushUnstage, PushUploadFail,
               PushAbort, PushIncrement, PushSnapshot, PushHeader, PushError
      <3>6. QED BY <3>1, <3>2, <3>3, <3>4, <3>5 DEF Next, PushBegin, ManifestUnreadable
    <2>2. pushPc = "manifest" /\ cloudManifest' = pushSnap
      BY <2>1 DEF PushManifest, PushManifestFail
    <2>3. QED BY <2>2 DEF CounterInv, StateOK, TypeOK, Manifest
  <1>4. QED BY <1>1, <1>2, <1>3, PTL DEF Spec, ManifestsOrdered

-----------------------------------------------------------------------------
(* No lost blob.  Those of their own that files have.                       *)
Own == Referenced \ epochBlobs

(* What uploads have written is in staging/pending until they commit.       *)
WrittenStaged == \A f \in Files : upBlobs[f] \subseteq pending

(* A deletion removes local copies of names it read, and by then no file   *)
(* has them, and none gets them again.                                      *)
DeletesOwn ==
    \A f \in Files :
        /\ delPc[f] = "read" => node[f] = "row" /\ delBlobs[f] \subseteq refs[f]
        /\ delPc[f] = "unlink" => delBlobs[f] \cap Own = {}
        /\ delBlobs[f] \subseteq used
        /\ \A g \in Files : delBlobs[f] \cap upBlobs[g] = {}

(* A push removes local copies of what it has stored; nothing is drained   *)
(* before.                                                                  *)
SentStored ==
    /\ pushSent \subseteq cloudBlobs
    /\ pushPc \notin {"upload", "failing"} => pushSent = {}

(* No upload runs beside the sweep or a lock, and the sweep knows every     *)
(* blob it must keep.                                                       *)
SweepAlone ==
    /\ session # "open" \/ flBy = "lock" => \A f \in Files : node[f] # "uploading"
    /\ session = "listed" => Own \subseteq known

LostInv == NoLostBlob /\ WrittenStaged /\ DeletesOwn /\ SentStored /\ SweepAlone

(* Only a commit of an upload gives a file blobs of its own.                *)
LEMMA OwnShrinks ==
    ASSUME QueueInv, [Next]_vars PROVE
           \/ Own' \subseteq Own
           \/ \E f \in Files : UploadCommit(f) /\ Own' \subseteq Own \cup upBlobs[f]
  <1> USE DEF QueueInv, TypeOK
  <1>1. CASE UNCHANGED <<refs, epochBlobs>>
    BY <1>1 DEF Own, Referenced
  <1>2. ASSUME NEW f \in Files, DeleteCommit(f) PROVE Own' \subseteq Own
    <2>1. /\ refs' = [refs EXCEPT ![f] = {}]
          /\ epochBlobs' = {b \in epochBlobs : \E g \in Files \ {f} : b \in refs[g]}
      BY <1>2 DEF DeleteCommit
    <2>2. QED BY <2>1 DEF Own, Referenced
  <1>3. ASSUME NEW f \in Files, UploadCommit(f) PROVE Own' \subseteq Own \cup upBlobs[f]
    <2>1. refs' = [refs EXCEPT ![f] = upBlobs[f]] /\ UNCHANGED epochBlobs
      BY <1>3 DEF UploadCommit
    <2>2. QED BY <2>1 DEF Own, Referenced
  <1>4. CASE FlushCommit
    <2>1. /\ epochBlobs' = epochBlobs \cup {flBlob}
          /\ \A f \in Files : refs'[f] \subseteq refs[f] \cup {flBlob}
      BY <1>4 DEF FlushCommit
    <2>2. QED BY <2>1 DEF Own, Referenced
  <1>5. \/ UNCHANGED <<refs, epochBlobs>>
        \/ FlushCommit
        \/ \E f \in Files : UploadCommit(f) \/ DeleteCommit(f)
    <2> USE DEF db
    <2>1. CASE UNCHANGED vars
      BY <2>1 DEF vars
    <2>2. CASE FileStep
      BY <2>2 DEF FileStep, UploadBegin, UploadWriteBlob, UploadFail, StageEpoch,
                  DeleteRead, DeleteFail, DeleteUnlink, FetchBlob
    <2>3. CASE FlushStep
      BY <2>3 DEF FlushStep, FlushRead, FlushPack, FlushFail, FlushEnd
    <2>4. CASE PushBegin \/ PushStep
      BY <2>4 DEF PushStep, PushBegin, PushProbe, PushList, PushUpload, PushUnstage,
                  PushUploadFail, PushAbort, PushIncrement, PushSnapshot, PushManifest,
                  PushManifestFail, PushHeader, PushError
    <2>5. CASE DrainStep
      BY <2>5 DEF DrainStep, DrainList, DrainMark, DrainDelete, DrainDeleteFail
    <2>6. CASE SessionStep
      BY <2>6 DEF SessionStep, PrepareMigrate, PrepareList, PrepareSweep, LockSession,
                  SessionTimeout, Crash
    <2>7. QED BY <2>1, <2>2, <2>3, <2>4, <2>5, <2>6 DEF Next, ManifestUnreadable
  <1>6. QED BY <1>1, <1>2, <1>3, <1>4, <1>5

(* Steps that only add to what is stored keep the invariant.                *)
LEMMA StoredGrows ==
    ASSUME QueueInv, LostInv, SentStored',
           Own' \subseteq Own,
           pending \subseteq pending', root \subseteq root', used \subseteq used',
           cloudBlobs \cap Own \subseteq cloudBlobs',
           \A f \in Files : refs[f] \subseteq refs'[f],
           UNCHANGED <<node, upBlobs, delPc, delBlobs, session, known>>,
           flBy' = "lock" => flBy = "lock"
    PROVE  LostInv'
  <1> USE DEF LostInv
  <1>1. NoLostBlob'
    BY DEF NoLostBlob, Own
  <1>2. WrittenStaged'
    BY DEF WrittenStaged
  <1>3. DeletesOwn'
    BY DEF DeletesOwn
  <1>4. SweepAlone'
    BY DEF SweepAlone
  <1>5. QED BY <1>1, <1>2, <1>3, <1>4

LEMMA UploadLost ==
    ASSUME LockDuringOps = FALSE, QueueInv, LostInv, NEW f \in Files,
           UploadBegin(f) \/ UploadWriteBlob(f) \/ UploadCommit(f) \/ UploadFail(f) \/ StageEpoch(f)
    PROVE  LostInv'
  <1> USE DEF QueueInv, TypeOK, LostInv
  <1>1. CASE UploadBegin(f) \/ StageEpoch(f)
    <2>1. /\ Own' = Own /\ session = "open" /\ flBy # "lock"
          /\ node[f] = "none" /\ \A g \in Files \ {f} : node'[g] = node[g]
          /\ UNCHANGED <<refs, pending, root, used, cloudBlobs, upBlobs, delPc, delBlobs,
                         session, known, flBy, pushPc, pushSent>>
      BY <1>1 DEF UploadBegin, StageEpoch, MayStart, Own, Referenced, staging, cloud, sweep,
                  delete, flush, push
    <2>2. NoLostBlob' /\ WrittenStaged' /\ SentStored'
      BY <2>1 DEF NoLostBlob, Own, WrittenStaged, SentStored
    <2>3. DeletesOwn' /\ SweepAlone'
      BY <2>1 DEF DeletesOwn, SweepAlone
    <2>4. QED BY <2>2, <2>3
  <1>2. CASE UploadWriteBlob(f)
    <2>1. PICK b \in Blobs \ used :
              /\ upBlobs' = [upBlobs EXCEPT ![f] = @ \cup {b}]
              /\ pending' = pending \cup {b}
              /\ used' = used \cup {b}
      BY <1>2 DEF UploadWriteBlob, Fresh
    <2>2. /\ Own' = Own
          /\ UNCHANGED <<node, refs, root, cloudBlobs, delPc, delBlobs, session, known, flBy,
                         pushPc, pushSent>>
      BY <1>2 DEF UploadWriteBlob, Own, Referenced, db, cloud, sweep, delete, flush, push
    <2>3. NoLostBlob' /\ WrittenStaged' /\ SentStored' /\ SweepAlone'
      BY <2>1, <2>2 DEF NoLostBlob, Own, WrittenStaged, SentStored, SweepAlone
    <2>4. DeletesOwn'
      BY <2>1, <2>2 DEF DeletesOwn
    <2>5. QED BY <2>3, <2>4
  <1>3. CASE UploadCommit(f)
    <2>1. /\ node[f] = "uploading" /\ refs[f] = {}
          /\ node' = [node EXCEPT ![f] = "row"]
          /\ refs' = [refs EXCEPT ![f] = upBlobs[f]]
          /\ upBlobs' = [upBlobs EXCEPT ![f] = {}]
          /\ UNCHANGED <<pending, root, used, cloudBlobs, delPc, delBlobs,
                         session, known, flBy, pushPc, pushSent>>
      BY <1>3 DEF UploadCommit, RefsOfRows, staging, cloud, sweep, delete, flush, push
    <2>2. Own' \subseteq Own \cup upBlobs[f]
      <3>1. UNCHANGED epochBlobs
        BY <1>3 DEF UploadCommit
      <3>2. QED BY <2>1, <3>1 DEF Own, Referenced
    <2>3. NoLostBlob' /\ WrittenStaged' /\ SentStored'
      BY <2>1, <2>2 DEF NoLostBlob, Own, WrittenStaged, SentStored
    <2>4. DeletesOwn'
      BY <2>1, <2>2 DEF DeletesOwn
    <2>5. SweepAlone'
      BY <2>1 DEF SweepAlone, SessionStates
    <2>6. QED BY <2>3, <2>4, <2>5
  <1>4. CASE UploadFail(f)
    <2>1. /\ Own' = Own
          /\ node[f] = "uploading"
          /\ node' = [node EXCEPT ![f] = "gone"]
          /\ pending' = pending \ upBlobs[f]
          /\ upBlobs' = [upBlobs EXCEPT ![f] = {}]
          /\ UNCHANGED <<refs, root, used, cloudBlobs, delPc, delBlobs,
                         session, known, flBy, pushPc, pushSent>>
      BY <1>4 DEF UploadFail, Own, Referenced, cloud, sweep, delete, flush, push
    <2>2. NoLostBlob' /\ SentStored'
      BY <2>1 DEF NoLostBlob, Own, SentStored, StagedPrivate
    <2>3. WrittenStaged'
      BY <2>1 DEF WrittenStaged, StagedPrivate
    <2>4. DeletesOwn' /\ SweepAlone'
      BY <2>1 DEF DeletesOwn, SweepAlone
    <2>5. QED BY <2>2, <2>3, <2>4
  <1>5. QED BY <1>1, <1>2, <1>3, <1>4

(* delete_file: when the node goes, what it had of its own goes with it,   *)
(* and what others share with it is an epoch blob and stays one.            *)
LEMMA DeleteLost ==
    ASSUME QueueInv, LostInv, NEW f \in Files,
           DeleteRead(f) \/ DeleteCommit(f) \/ DeleteFail(f) \/ DeleteUnlink(f)
    PROVE  LostInv'
  <1> USE DEF QueueInv, TypeOK, LostInv
  <1>1. CASE DeleteRead(f) \/ DeleteFail(f)
    <2>1. /\ Own' = Own
          /\ UNCHANGED <<node, refs, pending, root, used, cloudBlobs, upBlobs,
                         session, known, flBy, pushPc, pushSent>>
      BY <1>1 DEF DeleteRead, DeleteFail, Own, Referenced, db, staging, cloud, sweep, flush, push
    <2>2. /\ \A g \in Files \ {f} : delPc'[g] = delPc[g] /\ delBlobs'[g] = delBlobs[g]
          /\ \/ delPc'[f] = "read" /\ node[f] = "row" /\ delBlobs'[f] = refs[f]
             \/ delPc'[f] = "idle" /\ delBlobs'[f] = {}
      BY <1>1 DEF DeleteRead, DeleteFail
    <2>3. refs[f] \subseteq used /\ \A g \in Files : refs[f] \cap upBlobs[g] = {}
      BY DEF NamesUsed, StagedPrivate, Referenced
    <2>4. NoLostBlob' /\ WrittenStaged' /\ SentStored' /\ SweepAlone'
      BY <2>1 DEF NoLostBlob, Own, WrittenStaged, SentStored, SweepAlone
    <2>5. DeletesOwn'
      BY <2>1, <2>2, <2>3 DEF DeletesOwn
    <2>6. QED BY <2>4, <2>5
  <1>2. CASE DeleteCommit(f)
    <2>1. /\ delPc[f] = "read" /\ node[f] = "row"
          /\ node' = [node EXCEPT ![f] = "gone"]
          /\ refs' = [refs EXCEPT ![f] = {}]
          /\ epochBlobs' = {b \in epochBlobs : \E g \in Files \ {f} : b \in refs[g]}
          /\ delPc' = [delPc EXCEPT ![f] = "unlink"]
          /\ UNCHANGED <<pending, root, used, cloudBlobs, upBlobs, delBlobs,
                         session, known, flBy, pushPc, pushSent>>
      BY <1>2 DEF DeleteCommit, staging, cloud, sweep, flush, push
    <2>2. Own' \subseteq Own
      BY <2>1 DEF Own, Referenced
    <2>3. delBlobs[f] \cap Own' = {}
      <3> SUFFICES ASSUME NEW b \in delBlobs[f], b \in Own' PROVE FALSE
        OBVIOUS
      <3>1. b \in refs[f] /\ b \notin epochBlobs'
        BY <2>1 DEF DeletesOwn, Own
      <3>2. PICK g \in Files \ {f} : b \in refs[g]
        BY <2>1 DEF Own, Referenced
      <3>3. b \in epochBlobs
        BY <3>1, <3>2 DEF SharedAreEpoch
      <3>4. QED BY <2>1, <3>1, <3>2, <3>3
    <2>4. NoLostBlob' /\ WrittenStaged' /\ SentStored'
      BY <2>1, <2>2 DEF NoLostBlob, Own, WrittenStaged, SentStored
    <2>5. DeletesOwn'
      BY <2>1, <2>2, <2>3 DEF DeletesOwn
    <2>6. SweepAlone'
      BY <2>1, <2>2 DEF SweepAlone
    <2>7. QED BY <2>4, <2>5, <2>6
  <1>3. CASE DeleteUnlink(f)
    <2>1. /\ Own' = Own /\ delPc[f] = "unlink"
          /\ pending' = pending \ delBlobs[f] /\ root' = root \ delBlobs[f]
          /\ delPc' = [delPc EXCEPT ![f] = "idle"]
          /\ delBlobs' = [delBlobs EXCEPT ![f] = {}]
          /\ UNCHANGED <<node, refs, used, cloudBlobs, upBlobs,
                         session, known, flBy, pushPc, pushSent>>
      BY <1>3 DEF DeleteUnlink, Own, Referenced, db, cloud, sweep, flush, push
    <2>2. delBlobs[f] \cap Own = {} /\ \A g \in Files : delBlobs[f] \cap upBlobs[g] = {}
      BY <2>1 DEF DeletesOwn
    <2>3. NoLostBlob' /\ WrittenStaged' /\ SentStored'
      BY <2>1, <2>2 DEF NoLostBlob, Own, WrittenStaged, SentStored
    <2>4. DeletesOwn' /\ SweepAlone'
      BY <2>1 DEF DeletesOwn, SweepAlone
    <2>5. QED BY <2>3, <2>4
  <1>4. QED BY <1>1, <1>2, <1>3

(* The flush writes files and rows of epoch blobs only; the one of a lock  *)
(* starts when nothing runs and ends the session.                           *)
LEMMA FlushLost ==
    ASSUME LockDuringOps = FALSE, QueueInv, LeakInv, LostInv, FlushStep PROVE LostInv'
  <1> USE DEF LostInv
  <1>1. Own' \subseteq Own
    <2>1. Next /\ \A f \in Files : ~UploadCommit(f)
      BY DEF Next, FlushStep, FlushRead, FlushPack, FlushCommit, FlushFail, FlushEnd,
             UploadCommit, flush, QueueInv, TypeOK
    <2>2. QED BY <2>1, OwnShrinks
  <1>2. /\ pending \subseteq pending' /\ root \subseteq root' /\ used \subseteq used'
        /\ cloudBlobs' = cloudBlobs /\ pushSent' = pushSent
        /\ UNCHANGED <<node, upBlobs, delPc, delBlobs, known>>
    BY DEF FlushStep, FlushRead, FlushPack, FlushCommit, FlushFail, FlushEnd, db, staging,
           cloud, sweep, delete, push
  <1>3. \A f \in Files : refs[f] \subseteq refs'[f]
    BY DEF FlushStep, FlushRead, FlushPack, FlushCommit, FlushFail, FlushEnd, db
  <1>4. NoLostBlob' /\ WrittenStaged'
    BY <1>1, <1>2 DEF NoLostBlob, Own, WrittenStaged
  <1>5. DeletesOwn'
    BY <1>1, <1>2, <1>3 DEF DeletesOwn
  <1>6. SentStored'
    <2>1. pushPc' \notin {"upload", "failing"} => pushSent' = {}
      <3>1. CASE FlushEnd
        BY <1>2, <3>1 DEF FlushEnd, SentStored, LeakInv
      <3>2. CASE ~FlushEnd
        BY <3>2, <1>2 DEF SentStored, FlushStep, FlushRead, FlushPack, FlushCommit, FlushFail,
                          push
      <3>3. QED BY <3>1, <3>2
    <2>2. QED BY <1>2, <2>1 DEF SentStored
  <1>7. SweepAlone'
    <2>1. ASSUME session' # "open" \/ flBy' = "lock", NEW f \in Files
          PROVE  node'[f] # "uploading"
      <3>1. ASSUME NEW by \in {"user", "push", "lock"}, FlushRead(by)
            PROVE  node'[f] # "uploading"
        BY <1>2, <2>1, <3>1 DEF FlushRead, SweepAlone, LockMayInterrupt, FileOpRunning, sweep
      <3>2. CASE FlushEnd
        BY <1>2, <2>1, <3>2 DEF FlushEnd, SweepAlone
      <3>3. CASE FlushPack \/ FlushCommit \/ FlushFail
        BY <1>2, <2>1, <3>3 DEF FlushPack, FlushCommit, FlushFail, SweepAlone, sweep
      <3>4. QED BY <3>1, <3>2, <3>3 DEF FlushStep
    <2>2. session' = "listed" => session = "listed"
      BY DEF FlushStep, FlushRead, FlushPack, FlushCommit, FlushFail, FlushEnd, sweep
    <2>3. QED BY <1>1, <1>2, <2>1, <2>2 DEF SweepAlone
  <1>8. QED BY <1>4, <1>5, <1>6, <1>7

(* A push removes a local copy only after the object is stored, and a      *)
(* stored object is no upload's: uploads keep what they have staged.        *)
LEMMA PushLost ==
    ASSUME QueueInv, LeakInv, LostInv, PushBegin \/ PushStep PROVE LostInv'
  <1> USE DEF LostInv
  <1>1. /\ Own' = Own
        /\ UNCHANGED <<node, refs, root, used, upBlobs, delPc, delBlobs, session, known, flBy>>
        /\ cloudBlobs \subseteq cloudBlobs'
    BY DEF PushStep, PushBegin, PushProbe, PushList, PushUpload, PushUnstage,
           PushUploadFail, PushAbort, PushIncrement, PushSnapshot, PushManifest,
           PushManifestFail, PushHeader, PushError, Own, Referenced,
           db, staging, cloud, sweep, flush, delete
  <1>2. SentStored'
    <2>1. ASSUME NEW b \in Blobs, PushUpload(b) \/ PushUnstage(b) \/ PushUploadFail(b)
          PROVE  SentStored'
      BY <2>1 DEF SentStored, PushUpload, PushUnstage, PushUploadFail, cloud
    <2>2. CASE \/ PushBegin \/ PushProbe \/ PushList \/ PushAbort \/ PushIncrement \/ PushSnapshot
               \/ PushManifest \/ PushManifestFail \/ PushHeader \/ PushError
      BY <2>2 DEF SentStored, PushBegin, PushProbe, PushList, PushAbort, PushIncrement,
           PushSnapshot, PushManifest, PushManifestFail, PushHeader, PushError, cloud
    <2>3. QED BY <2>1, <2>2 DEF PushStep
  <1>3. ASSUME NEW b \in Blobs, PushUnstage(b) PROVE LostInv'
    <2>1. pending' = pending \ {b} /\ b \in cloudBlobs
      BY <1>3 DEF PushUnstage, SentStored
    <2>2. \A f \in Files : b \notin upBlobs[f]
      BY <2>1 DEF LeakInv, NoCloudLeak, QueueInv, StagedPrivate
    <2>3. NoLostBlob'
      BY <1>1, <2>1 DEF NoLostBlob, Own
    <2>4. WrittenStaged'
      BY <1>1, <2>1, <2>2 DEF WrittenStaged
    <2>5. DeletesOwn' /\ SweepAlone'
      BY <1>1 DEF DeletesOwn, SweepAlone
    <2>6. QED BY <1>2, <2>3, <2>4, <2>5
  <1>4. CASE UNCHANGED pending
    BY <1>1, <1>2, <1>4, StoredGrows
  <1>5. UNCHANGED pending \/ \E b \in Blobs : PushUnstage(b)
    BY DEF PushStep, PushBegin, PushProbe, PushList, PushUpload, PushUploadFail, PushAbort,
           PushIncrement, PushSnapshot, PushManifest, PushManifestFail, PushHeader, PushError,
           staging
  <1>6. QED BY <1>3, <1>4, <1>5

(* The drain removes queued objects, which no file refers to, and at a time *)
(* when the push has nothing left to remove locally.                        *)
LEMMA DrainLost ==
    ASSUME QueueInv, LostInv, DrainStep PROVE LostInv'
  <1>1. /\ Own' = Own /\ pushSent' = pushSent /\ pushSent = {}
        /\ UNCHANGED <<node, refs, pending, root, used, upBlobs, delPc, delBlobs, session,
                       known, flBy>>
    BY DEF DrainStep, DrainList, DrainMark, DrainDelete, DrainDeleteFail, Own, Referenced,
           LostInv, SentStored, db, staging, sweep, flush, delete, push
  <1>2. SentStored'
    BY <1>1 DEF SentStored
  <1>3. cloudBlobs \cap Own \subseteq cloudBlobs'
    <2>1. ASSUME NEW b \in Blobs, DrainDelete(b) \/ DrainDeleteFail(b)
          PROVE  cloudBlobs \ {b} \subseteq cloudBlobs' /\ b \notin Own
      BY <2>1 DEF DrainDelete, DrainDeleteFail, QueueInv, DrainQueued, QueuedUnreferenced, Own
    <2>2. CASE DrainList \/ DrainMark
      BY <2>2 DEF DrainList, DrainMark, cloud
    <2>3. QED BY <2>1, <2>2 DEF DrainStep
  <1>4. QED BY <1>1, <1>2, <1>3, StoredGrows

(* No upload runs when a session closes or while storage is prepared, and  *)
(* the sweep keeps every blob it listed.                                    *)
LEMMA SessionLost ==
    ASSUME LockDuringOps = FALSE, QueueInv, LostInv, SessionStep PROVE LostInv'
  <1> USE DEF QueueInv, TypeOK, LostInv
  <1>1. CASE PrepareMigrate \/ PrepareList \/ PrepareSweep
    <2>1. /\ Own' = Own /\ session # "open"
          /\ UNCHANGED <<node, refs, used, cloudBlobs, upBlobs, delPc, delBlobs, flBy,
                         pushPc, pushSent>>
      BY <1>1 DEF PrepareMigrate, PrepareList, PrepareSweep, Own, Referenced, db, staging,
                  cloud, flush, delete, push
    <2>2. \A f \in Files : upBlobs[f] = {} /\ node[f] # "uploading"
      BY <2>1 DEF SweepAlone, RefsOfRows
    <2>3. SentStored' /\ WrittenStaged' /\ DeletesOwn'
      BY <2>1, <2>2 DEF SentStored, WrittenStaged, DeletesOwn
    <2>4. NoLostBlob'
      <3>1. CASE PrepareMigrate
        BY <2>1, <3>1 DEF PrepareMigrate, NoLostBlob, Own
      <3>2. CASE PrepareList
        BY <2>1, <3>2 DEF PrepareList, NoLostBlob, Own, staging
      <3>3. CASE PrepareSweep
        BY <2>1, <3>3 DEF PrepareSweep, NoLostBlob, SweepAlone, Own
      <3>4. QED BY <1>1, <3>1, <3>2, <3>3
    <2>5. session' = "listed" => Own' \subseteq known'
      BY <1>1, <2>1 DEF PrepareMigrate, PrepareList, PrepareSweep, Own
    <2>6. SweepAlone'
      BY <2>1, <2>2, <2>5 DEF SweepAlone
    <2>7. QED BY <2>3, <2>4, <2>6
  <1>2. CASE LockSession \/ SessionTimeout
    <2>1. /\ Own' = Own /\ session' = "closed"
          /\ \A f \in Files : node[f] # "uploading"
          /\ UNCHANGED <<node, refs, pending, root, used, cloudBlobs, upBlobs, delPc, delBlobs,
                         pushPc, pushSent>>
      BY <1>2 DEF LockSession, SessionTimeout, MayLock, LockMayInterrupt, FileOpRunning,
                  Own, Referenced, db, staging, cloud, flush, delete, push
    <2>2. NoLostBlob' /\ WrittenStaged' /\ SentStored'
      BY <2>1 DEF NoLostBlob, Own, WrittenStaged, SentStored
    <2>3. DeletesOwn' /\ SweepAlone'
      BY <2>1 DEF DeletesOwn, SweepAlone
    <2>4. QED BY <2>2, <2>3
  <1>3. CASE Crash
    <2>1. /\ Own' = Own /\ session' = "closed" /\ pushSent' = {}
          /\ \A f \in Files : /\ node'[f] # "uploading" /\ upBlobs'[f] = {}
                              /\ delPc'[f] = "idle" /\ delBlobs'[f] = {}
          /\ UNCHANGED <<pending, root, cloudBlobs>>
      BY <1>3 DEF Crash, Own, Referenced, staging, cloud
    <2>2. NoLostBlob' /\ WrittenStaged' /\ SentStored'
      BY <2>1 DEF NoLostBlob, Own, WrittenStaged, SentStored
    <2>3. DeletesOwn' /\ SweepAlone'
      BY <2>1 DEF DeletesOwn, SweepAlone
    <2>4. QED BY <2>2, <2>3
  <1>4. QED BY <1>1, <1>2, <1>3 DEF SessionStep

LEMMA NextLost ==
    LockDuringOps = FALSE /\ QueueInv /\ LeakInv /\ LostInv /\ [Next]_vars => LostInv'
  <1> SUFFICES ASSUME LockDuringOps = FALSE, QueueInv, LeakInv, LostInv, [Next]_vars
               PROVE  LostInv'
    OBVIOUS
  <1>1. CASE FileStep
    <2>1. ASSUME NEW f \in Files, FetchBlob(f) PROVE LostInv'
      <3>1. /\ Own' = Own
            /\ UNCHANGED <<node, refs, pending, root, used, cloudBlobs, upBlobs, delPc, delBlobs,
                           session, known, flBy, pushPc, pushSent>>
        BY <2>1 DEF FetchBlob, Own, Referenced, db, cloud, sweep, flush, delete, push
      <3>2. SentStored'
        BY <3>1 DEF LostInv, SentStored
      <3>3. QED BY <3>1, <3>2, StoredGrows
    <2>2. QED BY <1>1, <2>1, UploadLost, DeleteLost DEF FileStep
  <1>2. CASE ManifestUnreadable \/ UNCHANGED vars
    <2>1. /\ Own' = Own
          /\ UNCHANGED <<node, refs, pending, root, used, cloudBlobs, upBlobs, delPc, delBlobs,
                         session, known, flBy, pushPc, pushSent>>
      BY <1>2 DEF ManifestUnreadable, vars, Own, Referenced, db, staging, cloud, sweep, flush,
                  delete, push
    <2>2. SentStored'
      BY <2>1 DEF LostInv, SentStored
    <2>3. QED BY <2>1, <2>2, StoredGrows
  <1>3. QED BY <1>1, <1>2, FlushLost, PushLost, DrainLost, SessionLost DEF Next

(* As long as no lock or timeout overlaps an operation, every blob of its  *)
(* own that a committed file has is in staging or in the cloud, for any     *)
(* number of uploads, flushes, pushes, deletions and crashes (upload_file,  *)
(* push_vault, delete_file, prepare_vault_storage).                         *)
THEOREM NothingLost == LockDuringOps = FALSE => (Spec => []NoLostBlob)
  <1> SUFFICES ASSUME LockDuringOps = FALSE PROVE Spec => []NoLostBlob
    OBVIOUS
  <1>1. Init => QueueInv /\ LeakInv /\ LostInv
    <2> SUFFICES ASSUME Init PROVE QueueInv /\ LeakInv /\ LostInv OBVIOUS
    <2>1. QueueInv
      BY InitType, InitParts DEF StateOK, Parts, QueueInv
    <2>2. LeakInv
      BY DEF Init, LeakInv, NoCloudLeak
    <2>3. Own = {}
      BY DEF Init, Own, Referenced
    <2>4. NoLostBlob /\ WrittenStaged /\ SentStored
      BY <2>3 DEF Init, Own, NoLostBlob, WrittenStaged, SentStored
    <2>5. DeletesOwn /\ SweepAlone
      BY DEF Init, DeletesOwn, SweepAlone
    <2>6. QED BY <2>1, <2>2, <2>4, <2>5 DEF LostInv
  <1>2. QueueInv /\ LeakInv /\ LostInv /\ [Next]_vars => (QueueInv /\ LeakInv /\ LostInv)'
    <2>1. QueueInv /\ [Next]_vars => QueueInv'
      BY NextType, NextParts DEF StateOK, Parts, QueueInv
    <2>2. QED BY <2>1, NextLeak, NextLost
  <1>3. LostInv => NoLostBlob
    BY DEF LostInv
  <1>4. QED BY <1>1, <1>2, <1>3, PTL DEF Spec

-----------------------------------------------------------------------------
(* Transfer.  Induction over a length is over its numbers.                  *)

(* Induction over the naturals, from the least number that would fail.      *)
LEMMA UpTo ==
    ASSUME NEW T, 0 \in T, \A n \in Nat : n \in T => n + 1 \in T
    PROVE  \A n \in Nat : n \in T
<1> DEFINE U == {n \in Nat : n \notin T}
<1> DEFINE R == {ss \in Nat \X Nat : ss[1] < ss[2]}
<1>0. IsWellFoundedOn(R, Nat)
  BY NatLessThanWellFounded, Zenon DEF OpToRel
<1>1. SUFFICES ASSUME U # {} PROVE FALSE
  OBVIOUS
<1>2. PICK x \in U : \A y \in U : ~(<<y, x>> \in R)
  <2>1. U \subseteq Nat
    OBVIOUS
  <2> QED BY <1>1, <2>1, <1>0, WFMin, Zenon
<1>3. x \in Nat /\ x # 0 /\ x - 1 \in Nat /\ x - 1 < x
  OBVIOUS
<1>4. <<x - 1, x>> \in R
  BY <1>3
<1>5. x - 1 \notin U
  BY <1>2, <1>4
<1> QED BY <1>3, <1>5

(* Quotients, as the prover needs them.                                     *)
LEMMA Division ==
    ASSUME NEW n \in Nat, NEW c \in Nat \ {0}
    PROVE  /\ n \div c \in Nat
           /\ c * (n \div c) <= n /\ n < c * (n \div c) + c
  OBVIOUS

Bytes   == (Files \X Nat) \cup {Zero}
Texts   == Seq(Bytes)
Entries == [file : Files, plain : Texts]

(* Entries of the buffer and their texts.                                   *)
LEMMA EntryFacts ==
    ASSUME NEW es \in Seq(Entries)
    PROVE  /\ Len(es) \in Nat /\ DOMAIN es = 1..Len(es)
           /\ \A i \in 1..Len(es) : es[i] \in Entries /\ es[i].file \in Files /\ es[i].plain \in Texts
<1>1. Len(es) \in Nat /\ DOMAIN es = 1..Len(es) /\ \A i \in 1..Len(es) : es[i] \in Entries
  BY LenProperties, ElementOfSeq
<1> QED BY <1>1 DEF Entries

LEMMA TextFacts ==
    /\ <<>> \in Texts
    /\ \A s \in Texts : Len(s) \in Nat
    /\ \A s, u \in Texts :
          /\ s \o u \in Texts /\ Len(s \o u) = Len(s) + Len(u)
          /\ \A i \in 1..Len(s) + Len(u) : (s \o u)[i] = IF i <= Len(s) THEN s[i] ELSE u[i - Len(s)]
<1>1. <<>> \in Texts
  BY EmptySeq DEF Texts
<1>2. \A s \in Texts : Len(s) \in Nat
  BY LenProperties DEF Texts
<1>3. ASSUME NEW s \in Texts, NEW u \in Texts
      PROVE  /\ s \o u \in Texts /\ Len(s \o u) = Len(s) + Len(u)
             /\ \A i \in 1..Len(s) + Len(u) :
                    (s \o u)[i] = IF i <= Len(s) THEN s[i] ELSE u[i - Len(s)]
  BY ConcatProperties DEF Texts
<1> QED BY <1>1, <1>2, <1>3

(* Texts put one after the other.                                           *)
LEMMA Joining ==
    ASSUME NEW s \in Texts, NEW u \in Texts, NEW c, c = s \o u
    PROVE  /\ c \in Texts /\ Len(s) \in Nat /\ Len(u) \in Nat /\ Len(c) = Len(s) + Len(u)
           /\ \A i \in 1..Len(s) : c[i] = s[i]
           /\ \A i \in 1..Len(u) : c[Len(s) + i] = u[i]
BY TextFacts

(* Counting down from n, G defines a function.                              *)
Defines(S, n, b, G) ==
    \E p \in [0..n -> S] : p[0] = b /\ \A j \in 1..n : p[j] = G[j][p[j - 1]]

(* A function defined from its predecessor is what its recursion says.      *)
LEMMA Recursion ==
    ASSUME NEW S, NEW n \in Nat, NEW b \in S, NEW G \in [1..n -> [S -> S]]
    PROVE  Defines(S, n, b, G)
<1> DEFINE Of(p, m) == p \in [0..m -> S] /\ p[0] = b /\ \A j \in 1..m : p[j] = G[j][p[j - 1]]
           T == {m \in Nat : m <= n => \E p : Of(p, m)}
<1>1. 0 \in T
  <2>1. Of([j \in 0..0 |-> b], 0)
    OBVIOUS
  <2> QED BY <2>1
<1>2. ASSUME NEW m \in Nat, m \in T PROVE m + 1 \in T
  <2>1. SUFFICES ASSUME m + 1 <= n PROVE \E p : Of(p, m + 1)
    OBVIOUS
  <2>2. PICK p : Of(p, m)
    BY <1>2, <2>1
  <2> DEFINE q == [j \in 0..(m + 1) |-> IF j = m + 1 THEN G[m + 1][p[m]] ELSE p[j]]
  <2>3. Of(q, m + 1)
    BY <2>1, <2>2
  <2> QED BY <2>3
<1>3. n \in T
  BY <1>1, <1>2, UpTo
<1>4. PICK p : Of(p, n)
  <2>1. n <= n
    OBVIOUS
  <2> QED BY <1>3, <2>1, Zenon
<1> QED BY <1>4 DEF Defines

(* The function that Packed chooses exists.                                 *)
LEMMA PackedIs ==
    ASSUME NEW es \in Seq(Entries)
    PROVE  /\ Packed(es) \in [0..Len(es) -> Texts]
           /\ Packed(es)[0] = <<>>
           /\ \A j \in 1..Len(es) : Packed(es)[j] = Packed(es)[j - 1] \o es[j].plain
<1> DEFINE n == Len(es)
           G == [j \in 1..n |-> [s \in Texts |-> s \o es[j].plain]]
<1>0. n \in Nat /\ \A j \in 1..n : es[j].plain \in Texts
  BY EntryFacts
<1>1. G \in [1..n -> [Texts -> Texts]]
  <2>1. \A j \in 1..n : \A s \in Texts : s \o es[j].plain \in Texts
    BY <1>0, TextFacts
  <2> QED BY <2>1, Zenon
<1>2. PICK p \in [0..n -> Texts] : p[0] = <<>> /\ \A j \in 1..n : p[j] = G[j][p[j - 1]]
  <2> DEFINE B == Texts
             e == <<>>
  <2>1. e \in B
    BY TextFacts
  <2>2. n \in Nat /\ G \in [1..n -> [B -> B]]
    BY <1>0, <1>1
  <2> HIDE DEF G, n, B, e
  <2>3. Defines(B, n, e, G)
    BY <2>1, <2>2, Recursion
  <2> QED BY <2>3 DEF B, e, Defines
<1>3. \A j \in 1..n : p[j] = p[j - 1] \o es[j].plain
  <2> SUFFICES ASSUME NEW j \in 1..n PROVE p[j] = p[j - 1] \o es[j].plain
    OBVIOUS
  <2>1. j - 1 \in 0..n
    BY <1>0
  <2> QED BY <1>2, <2>1, Zenon
<1>4. p = [j \in 0..n |-> IF j = 0 THEN <<>> ELSE p[j - 1] \o es[j].plain]
  <2> DEFINE q == [j \in 0..n |-> IF j = 0 THEN <<>> ELSE p[j - 1] \o es[j].plain]
  <2>1. ASSUME NEW j \in 0..n PROVE p[j] = q[j]
    <3>1. CASE j = 0
      BY <1>2, <3>1, Zenon
    <3>2. CASE j # 0
      <4>1. j \in 1..n
        BY <1>0, <3>2
      <4> QED BY <1>3, <3>2, <4>1, Zenon
    <3> QED BY <3>1, <3>2
  <2> HIDE DEF n
  <2>2. DOMAIN p = 0..n /\ DOMAIN q = 0..n /\ p = [j \in 0..n |-> p[j]] /\ q = [j \in 0..n |-> q[j]]
    BY <1>2, Zenon
  <2> HIDE DEF q
  <2>3. p = q
    BY <2>1, <2>2, Zenon
  <2> QED BY <2>3 DEF q
<1>5. Packed(es) = [j \in 0..n |-> IF j = 0 THEN <<>> ELSE Packed(es)[j - 1] \o es[j].plain]
  BY <1>4, Zenon DEF Packed
<1> QED OBVIOUS

(* A chunk is padded to its full length, behind its bytes.                  *)
LEMMA PadIs ==
    ASSUME NEW s \in Texts
    PROVE  /\ Pad(s) \in Texts /\ Len(Pad(s)) >= Len(s)
           /\ \A i \in 1..Len(s) : Pad(s)[i] = s[i]
<1> DEFINE z == [k \in 1..(Chunk - Len(s)) |-> Zero]
<1>1. Zero \in Bytes
  BY DEF Bytes
<1>2. z \in Texts
  <2>1. CASE Chunk - Len(s) \in Nat
    BY <1>1, <2>1 DEF Texts
  <2>2. CASE Chunk - Len(s) \notin Nat
    <3>1. 1..(Chunk - Len(s)) = 1..0
      BY <2>2, TransferConstants, TextFacts
    <3>2. z = [k \in 1..0 |-> Zero]
      BY <3>1, Zenon
    <3>3. [k \in 1..0 |-> Zero] \in Texts
      BY <1>1 DEF Texts
    <3> QED BY <3>2, <3>3
  <2> QED BY <2>1, <2>2
<1> HIDE DEF z
<1>3. Pad(s) = s \o z
  BY DEF Pad, z
<1> QED BY <1>2, <1>3, TextFacts

(* A part of a text.                                                        *)
LEMMA SliceIs ==
    ASSUME NEW S, NEW s \in Seq(S), NEW u \in Seq(S), NEW m \in Nat, m + Len(u) <= Len(s),
           \A i \in 1..Len(u) : s[m + i] = u[i]
    PROVE  SubSeq(s, m + 1, m + Len(u)) = u
<1>1. Len(u) \in Nat /\ Len(s) \in Nat
  BY LenProperties
<1>2. \A i \in (m + 1)..(m + Len(u)) : s[i] \in S
  BY <1>1, ElementOfSeq
<1>3. /\ SubSeq(s, m + 1, m + Len(u)) \in Seq(S)
      /\ Len(SubSeq(s, m + 1, m + Len(u))) = Len(u)
      /\ \A i \in 1..Len(u) : SubSeq(s, m + 1, m + Len(u))[i] = s[m + i]
  BY <1>1, <1>2, SubSeqProperties
<1> QED BY <1>3, SeqEqual

(* Later entries are packed behind the earlier ones.                        *)
LEMMA PackedPrefix ==
    ASSUME NEW es \in Seq(Entries), NEW j \in 0..Len(es)
    PROVE  \A k \in j..Len(es) :
              /\ Len(Packed(es)[j]) <= Len(Packed(es)[k])
              /\ \A m \in 1..Len(Packed(es)[j]) : Packed(es)[k][m] = Packed(es)[j][m]
<1> DEFINE p == Packed(es)
           n == Len(es)
           T == {d \in Nat : j + d <= n =>
                    /\ Len(p[j]) <= Len(p[j + d])
                    /\ \A m \in 1..Len(p[j]) : p[j + d][m] = p[j][m]}
<1>0. /\ n \in Nat /\ p \in [0..n -> Texts]
      /\ \A i \in 1..n : p[i] = p[i - 1] \o es[i].plain /\ es[i].plain \in Texts
  BY PackedIs, EntryFacts
<1>1. 0 \in T
  BY <1>0
<1>2. ASSUME NEW d \in Nat, d \in T PROVE d + 1 \in T
  <2>1. SUFFICES ASSUME j + (d + 1) <= n
                 PROVE  /\ Len(p[j]) <= Len(p[j + (d + 1)])
                        /\ \A m \in 1..Len(p[j]) : p[j + (d + 1)][m] = p[j][m]
    OBVIOUS
  <2>2. /\ Len(p[j]) <= Len(p[j + d])
        /\ \A m \in 1..Len(p[j]) : p[j + d][m] = p[j][m]
    BY <1>0, <1>2, <2>1
  <2>3. /\ j + d \in 0..n /\ p[j] \in Texts /\ p[j + d] \in Texts
        /\ p[j + (d + 1)] = p[j + d] \o es[j + (d + 1)].plain
        /\ es[j + (d + 1)].plain \in Texts
    BY <1>0, <2>1
  <2> HIDE DEF p, n
  <2> DEFINE a == p[j + d]
             u == es[j + (d + 1)].plain
             c == p[j + (d + 1)]
  <2>4. a \in Texts /\ u \in Texts /\ c = a \o u
    BY <2>3
  <2>5. Len(p[j]) \in Nat /\ Len(p[j]) <= Len(a) /\ \A m \in 1..Len(p[j]) : a[m] = p[j][m]
    BY <2>2, <2>3, TextFacts
  <2> HIDE DEF a, u, c
  <2>6. Len(a) \in Nat /\ Len(u) \in Nat /\ Len(c) = Len(a) + Len(u) /\ \A i \in 1..Len(a) : c[i] = a[i]
    BY <2>4, Joining
  <2>7. Len(p[j]) <= Len(c) /\ \A m \in 1..Len(p[j]) : c[m] = p[j][m]
    BY <2>5, <2>6
  <2> QED BY <2>7 DEF c
<1>3. \A d \in Nat : d \in T
  BY <1>1, <1>2, UpTo
<1>4. SUFFICES ASSUME NEW k \in j..n
               PROVE  /\ Len(p[j]) <= Len(p[k])
                      /\ \A m \in 1..Len(p[j]) : p[k][m] = p[j][m]
  OBVIOUS
<1>4a. k - j \in Nat
  BY <1>0
<1>5. k - j \in T /\ j + (k - j) = k /\ k <= n
  BY <1>0, <1>3, <1>4a
<1> QED BY <1>0, <1>5

(* An extent gives back the entry it was made for.                          *)
LEMMA ExtentIs ==
    ASSUME NEW es \in Seq(Entries), NEW k \in 1..Len(es), NEW j \in 1..k
    PROVE  /\ Len(Packed(es)[j - 1]) \in Nat
           /\ SubSeq(Pad(Packed(es)[k]), Len(Packed(es)[j - 1]) + 1,
                     Len(Packed(es)[j - 1]) + Len(es[j].plain)) = es[j].plain
<1> DEFINE p == Packed(es)
           n == Len(es)
<1>0. /\ n \in Nat /\ p \in [0..n -> Texts]
      /\ \A i \in 1..n : p[i] = p[i - 1] \o es[i].plain /\ es[i].plain \in Texts
  BY PackedIs, EntryFacts
<1>1. j \in 0..n /\ j - 1 \in 0..n /\ k \in 0..n /\ k \in j..n /\ j \in 1..n
  BY <1>0
<1> DEFINE a == p[j - 1]
           u == es[j].plain
           c == p[j]
           d == p[k]
           q == Pad(d)
<1>2. a \in Texts /\ u \in Texts /\ c = a \o u /\ d \in Texts /\ c \in Texts
  BY <1>0, <1>1
<1>3. /\ Len(c) <= Len(d) /\ \A m \in 1..Len(c) : d[m] = c[m]
  BY <1>1, PackedPrefix
<1> HIDE DEF a, u, c, d
<1>4. /\ Len(a) \in Nat /\ Len(u) \in Nat /\ Len(c) = Len(a) + Len(u)
      /\ \A i \in 1..Len(u) : c[Len(a) + i] = u[i]
  BY <1>2, Joining
<1>5. /\ q \in Texts /\ Len(q) >= Len(d) /\ Len(q) \in Nat /\ Len(d) \in Nat
      /\ \A i \in 1..Len(d) : q[i] = d[i]
  BY <1>2, PadIs, TextFacts
<1> HIDE DEF q
<1>6. Len(a) + Len(u) <= Len(q) /\ \A i \in 1..Len(u) : q[Len(a) + i] = u[i]
  BY <1>3, <1>4, <1>5, SMTT(40)
<1>7. SubSeq(q, Len(a) + 1, Len(a) + Len(u)) = u
  BY <1>2, <1>4, <1>5, <1>6, SliceIs DEF Texts
<1> QED BY <1>4, <1>7 DEF a, u, d, q

(* Where the i-th chunk of e bytes ends.                                    *)
Upto(i, e) == IF i * Chunk < e THEN i * Chunk ELSE e

LEMMA Times ==
    ASSUME NEW i \in Nat
    PROVE  i * Chunk \in Nat /\ (i + 1) * Chunk = i * Chunk + Chunk
BY TransferConstants

LEMMA Between ==
    ASSUME NEW i \in Nat, NEW n \in Nat, i <= n
    PROVE  i * Chunk <= n * Chunk
BY TransferConstants

(* NumChunks covers a text and does not go a whole chunk beyond it.         *)
LEMMA ChunkCount ==
    ASSUME NEW n \in Nat
    PROVE  /\ NumChunks(n) \in Nat /\ n <= NumChunks(n) * Chunk
           /\ \A i \in 1..NumChunks(n) : (i - 1) * Chunk < n
           /\ \A i \in 1..NumChunks(n) : i # NumChunks(n) => i * Chunk < n
<1> DEFINE q == NumChunks(n)
<1>0. Chunk \in Nat /\ Chunk > 0
  BY TransferConstants
<1>1. q \in Nat /\ Chunk * q <= n + Chunk - 1 /\ n + Chunk - 1 < Chunk * q + Chunk
  BY <1>0, Division DEF NumChunks
<1> HIDE DEF q
<1>2. q * Chunk = Chunk * q /\ q * Chunk \in Nat
  BY <1>0, <1>1
<1>3. n <= q * Chunk
  BY <1>0, <1>1, <1>2
<1>4. ASSUME NEW i \in Nat, i < q PROVE i * Chunk < n
  <2>1. (i + 1) * Chunk <= q * Chunk
    BY <1>1, <1>4, Between
  <2>2. i * Chunk + Chunk <= q * Chunk /\ i * Chunk \in Nat
    BY <2>1, Times
  <2> QED BY <1>0, <1>1, <1>2, <2>2
<1>5. ASSUME NEW i \in 1..q PROVE (i - 1) * Chunk < n /\ (i # q => i * Chunk < n)
  <2>1. i - 1 \in Nat /\ i - 1 < q /\ i \in Nat /\ (i # q => i < q)
    BY <1>1
  <2> QED BY <1>4, <2>1
<1> QED BY <1>1, <1>3, <1>5 DEF q

(* The chunk that byte x is in.                                             *)
LEMMA ChunkOf ==
    ASSUME NEW x \in Nat
    PROVE  /\ x \div Chunk \in Nat /\ (x \div Chunk) * Chunk <= x
           /\ x < (x \div Chunk + 1) * Chunk
<1> DEFINE q == x \div Chunk
<1>1. q \in Nat /\ Chunk * q <= x /\ x < Chunk * q + Chunk
  BY TransferConstants, Division
<1> HIDE DEF q
<1>2. q * Chunk = Chunk * q /\ q * Chunk \in Nat /\ (q + 1) * Chunk = q * Chunk + Chunk
  BY <1>1, TransferConstants
<1> QED BY <1>1, <1>2 DEF q

(* A later byte is in no earlier chunk.                                     *)
LEMMA ChunkOrder ==
    ASSUME NEW x \in Nat, NEW y \in Nat, x <= y
    PROVE  x \div Chunk <= y \div Chunk
<1> DEFINE q == x \div Chunk
           p == y \div Chunk
<1>1. q \in Nat /\ p \in Nat /\ q * Chunk <= x /\ y < (p + 1) * Chunk
  BY ChunkOf
<1> HIDE DEF q, p
<1>2. SUFFICES ASSUME p + 1 <= q PROVE FALSE
  BY <1>1 DEF q, p
<1>3. (p + 1) * Chunk <= q * Chunk
  BY <1>1, <1>2, Between
<1>4. (p + 1) * Chunk \in Nat /\ q * Chunk \in Nat
  BY <1>1, TransferConstants
<1> QED BY <1>1, <1>3, <1>4

(* A chunk that begins before the end of the file is one of its chunks.     *)
LEMMA ChunkInFile ==
    ASSUME NEW x \in Nat, NEW n \in Nat, x < n
    PROVE  x \div Chunk + 1 <= NumChunks(n)
<1> DEFINE q == x \div Chunk
           p == NumChunks(n)
<1>1. q \in Nat /\ p \in Nat /\ q * Chunk <= x /\ n <= p * Chunk
  BY ChunkOf, ChunkCount
<1> HIDE DEF q, p
<1>2. SUFFICES ASSUME p <= q PROVE FALSE
  BY <1>1 DEF q, p
<1>3. p * Chunk <= q * Chunk
  BY <1>1, <1>2, Between
<1>4. p * Chunk \in Nat /\ q * Chunk \in Nat
  BY <1>1, TransferConstants
<1> QED BY <1>1, <1>3, <1>4

-----------------------------------------------------------------------------
(* Parts of a text.                                                         *)

(* Part is the text from one byte up to another.                            *)
LEMMA PartIs ==
    ASSUME NEW s \in Texts, NEW m \in Nat, NEW e \in Int, e <= Len(s)
    PROVE  /\ SubSeq(s, m + 1, e) \in Texts
           /\ Len(SubSeq(s, m + 1, e)) = IF m < e THEN e - m ELSE 0
           /\ \A i \in 1..(e - m) : SubSeq(s, m + 1, e)[i] = s[m + i]
<1>1. Len(s) \in Nat
  BY TextFacts
<1>2. \A i \in (m + 1)..e : s[i] \in Bytes
  BY <1>1, ElementOfSeq DEF Texts
<1>3. /\ SubSeq(s, m + 1, e) \in Seq(Bytes)
      /\ Len(SubSeq(s, m + 1, e)) = IF m + 1 <= e THEN e - (m + 1) + 1 ELSE 0
      /\ \A i \in 1..(e - (m + 1) + 1) : SubSeq(s, m + 1, e)[i] = s[m + 1 + i - 1]
  BY <1>2, SubSeqProperties
<1> QED BY <1>3 DEF Texts

LEMMA PartEmpty ==
    ASSUME NEW s, NEW m \in Int, NEW e \in Int, e < m
    PROVE  SubSeq(s, m, e) = <<>>
BY SubSeqEmpty

LEMMA WholePart ==
    ASSUME NEW s \in Texts
    PROVE  SubSeq(s, 1, Len(s)) = s
BY SubSeqFull DEF Texts

(* Adjoining parts make one.                                                *)
LEMMA PartsJoin ==
    ASSUME NEW s \in Texts, NEW a \in Nat, NEW b \in Nat, NEW c \in Nat, b <= c, c <= Len(s)
    PROVE  SubSeq(s, a + 1, b) \o SubSeq(s, (IF a > b THEN a ELSE b) + 1, c) = SubSeq(s, a + 1, c)
<1>0. Len(s) \in Nat
  BY TextFacts
<1>1. CASE a >= b
  <2>1. SubSeq(s, a + 1, b) = <<>>
    BY <1>1, PartEmpty
  <2>2. SubSeq(s, a + 1, c) \in Texts
    <3>1. c \in Int /\ c <= Len(s)
      OBVIOUS
    <3> QED BY <3>1, PartIs, Zenon
  <2>3. (IF a > b THEN a ELSE b) + 1 = a + 1
    BY <1>1
  <2> QED BY <2>1, <2>2, <2>3, ConcatEmptySeq DEF Texts
<1>2. CASE a < b
  <2>1. a + 1 \in 1..(Len(s) + 1) /\ b \in ((a + 1) - 1)..Len(s) /\ c \in b..Len(s)
    BY <1>0, <1>2
  <2>2. SubSeq(s, a + 1, b) \o SubSeq(s, b + 1, c) = SubSeq(s, a + 1, c)
    BY <2>1, ConcatAdjacentSubSeq DEF Texts
  <2> QED BY <1>2, <2>2
<1> QED BY <1>1, <1>2

(* A part of a padded part, before the padding.                             *)
InPadded(s, m, e, a, b) ==
    SubSeq(Pad(SubSeq(s, m + 1, e)), a + 1, b) = SubSeq(s, (m + a) + 1, m + b)

(* What is cut out of a padded chunk below its padding.                     *)
LEMMA PartOfPadded ==
    ASSUME NEW s \in Texts, NEW m \in Nat, NEW e \in Nat, m <= e, e <= Len(s),
           NEW a \in Nat, NEW b \in Nat, m + b <= e
    PROVE  InPadded(s, m, e, a, b)
<1> DEFINE u == SubSeq(s, m + 1, e)
           w == Pad(u)
           x == SubSeq(w, a + 1, b)
           y == SubSeq(s, (m + a) + 1, m + b)
<1>0. Len(s) \in Nat
  BY TextFacts
<1>1. CASE b <= a
  <2>1. x = <<>>
    BY <1>1, PartEmpty
  <2>2. y = <<>>
    BY <1>1, PartEmpty
  <2> QED BY <2>1, <2>2 DEF InPadded
<1>2. CASE a < b
  <2>1. /\ u \in Texts /\ Len(u) = e - m
        /\ \A i \in 1..(e - m) : u[i] = s[m + i]
    BY <1>2, PartIs
  <2> HIDE DEF u
  <2>2. w \in Texts /\ Len(w) \in Nat /\ Len(w) >= e - m /\ \A i \in 1..(e - m) : w[i] = u[i]
    BY <2>1, PadIs, TextFacts
  <2> HIDE DEF w
  <2>3. x \in Texts /\ Len(x) = b - a /\ \A i \in 1..(b - a) : x[i] = w[a + i]
    BY <1>2, <2>2, PartIs
  <2>4. y \in Texts /\ Len(y) = b - a /\ \A i \in 1..(b - a) : y[i] = s[m + a + i]
    <3> DEFINE v == m + a
               z == m + b
    <3>1. v \in Nat /\ z \in Int /\ z <= Len(s) /\ v < z /\ z - v = b - a
      BY <1>0, <1>2
    <3> HIDE DEF v, z
    <3>2. /\ SubSeq(s, v + 1, z) \in Texts /\ Len(SubSeq(s, v + 1, z)) = z - v
          /\ \A i \in 1..(z - v) : SubSeq(s, v + 1, z)[i] = s[v + i]
      BY <3>1, PartIs
    <3> QED BY <3>1, <3>2 DEF v, z
  <2> HIDE DEF x, y
  <2>5. \A i \in 1..(b - a) : x[i] = y[i]
    <3> SUFFICES ASSUME NEW i \in 1..(b - a) PROVE x[i] = y[i]
      OBVIOUS
    <3>1. a + i \in 1..(e - m) /\ m + (a + i) = m + a + i
      BY <1>2
    <3> QED BY <2>1, <2>2, <2>3, <2>4, <3>1
  <2>6. x = y
    BY <2>3, <2>4, <2>5, SeqEqual DEF Texts
  <2> QED BY <2>6 DEF x, y, w, u, InPadded
<1> QED BY <1>1, <1>2

(* A piece is the chunk it was cut from, with padding behind it.            *)
LEMMA PartOfPiece ==
    ASSUME NEW s \in Texts, NEW i \in 1..NumChunks(Len(s)), NEW a \in Nat, NEW b \in Nat,
           (i - 1) * Chunk + b <= Upto(i, Len(s))
    PROVE  SubSeq(Pieces(s)[i], a + 1, b)
             = SubSeq(s, ((i - 1) * Chunk + a) + 1, (i - 1) * Chunk + b)
<1> DEFINE m == (i - 1) * Chunk
           e == Upto(i, Len(s))
<1>0. Len(s) \in Nat /\ i \in Nat /\ i - 1 \in Nat
  BY TextFacts, ChunkCount
<1>1. m \in Nat /\ i * Chunk = m + Chunk /\ m < Len(s) /\ i * Chunk \in Nat
  <2>1. (i - 1) * Chunk \in Nat /\ ((i - 1) + 1) * Chunk = (i - 1) * Chunk + Chunk
    BY <1>0, Times
  <2>2. (i - 1) + 1 = i
    BY <1>0
  <2> QED BY <1>0, <2>1, <2>2, ChunkCount, TransferConstants
<1>2. e \in Nat /\ m <= e /\ e <= Len(s)
  BY <1>0, <1>1, TransferConstants DEF Upto
<1>3. Pieces(s)[i] = Pad(SubSeq(s, m + 1, e))
  BY DEF Pieces, Upto
<1>5. m + b <= e
  OBVIOUS
<1> HIDE DEF m, e
<1>4. InPadded(s, m, e, a, b)
  BY <1>1, <1>2, <1>5, PartOfPadded
<1> QED BY <1>3, <1>4 DEF m, InPadded

-----------------------------------------------------------------------------
(* Types.                                                                   *)
Names   == (Files \cup {"epoch"}) \X (Nat \cup Files)
RowSet  == [blob : Names, idx : Nat, off : Nat, len : Nat, epoch : BOOLEAN]
Keys    == Files \cup {Zero, None}
FileSet == [there : BOOLEAN, data : Texts]
Modes   == {"save", "view", "prefetch", "stream"}
TaskSet ==
    [pc : {"idle", "fetch", "chunk", "read", "backup", "rename", "unlink", "done", "failed"},
     file : Files \cup {None}, mode : Modes \cup {"none"}, lo : Nat, hi : Nat,
     todo : SUBSET Names, rows : Seq(RowSet), size : Nat, key : Keys, i : Nat, last : Nat,
     path : {"none", "pending", "cache", "flat"}, out : Texts, bak : FileSet, excuse : BOOLEAN]

(* rows and key lead to the text o of file f in the sealed blobs sl: to its *)
(* chunks ...                                                               *)
Chunked(f, o, sl, rows, key) ==
    /\ rows = [i \in 1..NumChunks(Len(o)) |-> Row(<<f, i>>, i - 1)]
    /\ \A i \in 1..NumChunks(Len(o)) :
          /\ key = f /\ <<f, i>> \in DOMAIN sl
          /\ sl[<<f, i>>] = Seal(f, f, i - 1, Pieces(o)[i])

(* ... or to an extent of an epoch blob.                                    *)
InEpoch(o, sl, rows) ==
    \E g \in Files, off \in Nat :
       /\ rows = <<EpochRow(<<"epoch", g>>, off, Len(o))>>
       /\ <<"epoch", g>> \in DOMAIN sl
       /\ Opens(sl[<<"epoch", g>>], <<"epoch", g>>, <<"epoch", g>>, 0)
       /\ SubSeq(sl[<<"epoch", g>>].plain, off + 1, off + Len(o)) = o

Leads(f, o, sl, rows, size, key) ==
    size = Len(o) /\ (Chunked(f, o, sl, rows, key) \/ InEpoch(o, sl, rows))

(* What a download gives in the end, and what it has before chunk i.        *)
Full(r, o) == IF r.mode = "stream" THEN SubSeq(o, r.lo + 1, r.hi + 1) ELSE o

FromOf(r) == IF r.mode = "stream" THEN r.lo ELSE 0
EndOf(r, o) == IF r.mode = "stream" THEN r.hi + 1 ELSE Len(o)
Given(r, o, i) ==
    IF IsPacked(r.rows) THEN (IF i = 1 THEN <<>> ELSE o)
    ELSE SubSeq(o, FromOf(r) + 1, Upto(i - 1, EndOf(r, o)))

InFile(r, o) == r.mode = "stream" => r.lo <= r.hi /\ r.hi < Len(o)
Reading(r, o) ==
    /\ r.mode \in {"save", "view", "stream"} /\ (r.mode = "stream" => ~IsPacked(r.rows))
    /\ r.last = LastChunk(r, r.rows) /\ r.i \in 1..(r.last + 1)
    /\ r.out = Given(r, o, r.i)

(* The row of a blob, and what opening it needs.                            *)
Finds(r, sl) ==
    LET row == r.rows[r.i] IN
    /\ r.i \in 1..Len(r.rows) /\ row.blob \in DOMAIN sl
    /\ Opens(sl[row.blob], IF row.epoch THEN row.blob ELSE r.key,
             IF row.epoch THEN row.blob ELSE r.file, row.idx)

(* The rows of a file in chunks ...                                         *)
LEMMA ChunkRows ==
    ASSUME NEW f \in Files, NEW o \in Texts, NEW sl, NEW rows, NEW key, Chunked(f, o, sl, rows, key)
    PROVE  /\ rows \in Seq(RowSet) /\ Len(rows) = NumChunks(Len(o)) /\ ~IsPacked(rows)
           /\ \A i \in 1..Len(rows) : rows[i] = Row(<<f, i>>, i - 1)
<1> DEFINE n == NumChunks(Len(o))
<1>1. n \in Nat
  BY TextFacts, ChunkCount
<1> HIDE DEF n
<1>2. \A i \in 1..n : Row(<<f, i>>, i - 1) \in RowSet /\ ~Row(<<f, i>>, i - 1).epoch
  BY <1>1 DEF Row, RowSet, Names
<1>3. rows = [i \in 1..n |-> Row(<<f, i>>, i - 1)]
  BY DEF Chunked, n
<1>4. rows \in Seq(RowSet) /\ Len(rows) = n /\ \A i \in 1..n : rows[i] = Row(<<f, i>>, i - 1)
  BY <1>1, <1>2, <1>3
<1>5. ~IsPacked(rows)
  <2>1. SUFFICES ASSUME rows # <<>> PROVE ~rows[1].epoch
    BY DEF IsPacked
  <2>2. 1 \in 1..n
    BY <1>1, <1>4, <2>1, EmptySeq
  <2> QED BY <1>2, <1>4, <2>2
<1> QED BY <1>4, <1>5 DEF n

(* ... and of a packed one.                                                 *)
LEMMA EpochRows ==
    ASSUME NEW o \in Texts, NEW sl, NEW rows, InEpoch(o, sl, rows)
    PROVE  rows \in Seq(RowSet) /\ Len(rows) = 1 /\ IsPacked(rows)
<1>1. PICK g \in Files, off \in Nat : rows = <<EpochRow(<<"epoch", g>>, off, Len(o))>>
  BY DEF InEpoch
<1>2. EpochRow(<<"epoch", g>>, off, Len(o)) \in RowSet /\ EpochRow(<<"epoch", g>>, off, Len(o)).epoch
  BY TextFacts DEF EpochRow, RowSet, Names
<1> QED BY <1>1, <1>2 DEF IsPacked

(* The chunks of a stored file, read one after the other.                   *)
LEMMA ChunkNext ==
    ASSUME NEW f \in Files, NEW o \in Texts, NEW r \in TaskSet, NEW sl,
           Chunked(f, o, sl, r.rows, r.key), r.size = Len(o), r.file = f,
           InFile(r, o), Reading(r, o), r.i <= r.last
    PROVE  /\ Finds(r, sl)
           /\ r.out \o Wanted(r, sl[r.rows[r.i].blob].plain) = Given(r, o, r.i + 1)
<1> DEFINE n == NumChunks(Len(o))
           i == r.i
           base == (i - 1) * Chunk
           e == Upto(i, Len(o))
           p == sl[r.rows[r.i].blob].plain
<1>0. /\ Len(o) \in Nat /\ r.lo \in Nat /\ r.hi \in Nat /\ r.i \in Nat /\ r.last \in Nat
      /\ Chunk \in Nat /\ Chunk > 0
  BY TextFacts, TransferConstants DEF TaskSet
<1>1. Len(r.rows) = n /\ ~IsPacked(r.rows) /\ \A j \in 1..n : r.rows[j] = Row(<<f, j>>, j - 1)
  BY ChunkRows
<1>2. /\ n \in Nat /\ Len(o) <= n * Chunk
      /\ \A j \in 1..n : (j - 1) * Chunk < Len(o) /\ (j # n => j * Chunk < Len(o))
  BY <1>0, ChunkCount
<1>3. r.last <= n
  <2>1. CASE r.mode = "stream"
    <3>1. r.hi < Len(o) /\ r.last = r.hi \div Chunk + 1
      BY <2>1 DEF InFile, Reading, LastChunk
    <3> QED BY <1>0, <3>1, ChunkInFile
  <2>2. CASE r.mode # "stream"
    BY <1>1, <1>2, <2>2 DEF Reading, LastChunk
  <2> QED BY <2>1, <2>2
<1>4. i \in 1..n
  BY <1>0, <1>2, <1>3 DEF Reading
<1>5. r.rows[i] = Row(<<f, i>>, i - 1) /\ <<f, i>> \in DOMAIN sl /\ sl[<<f, i>>] = Seal(f, f, i - 1, Pieces(o)[i])
  BY <1>1, <1>4 DEF Chunked
<1>6. /\ r.rows[i].blob = <<f, i>> /\ r.rows[i].idx = i - 1 /\ ~r.rows[i].epoch
      /\ p = Pieces(o)[i]
  BY <1>5 DEF Row, Seal
<1>7. Finds(r, sl)
  <2>1. r.key = f /\ r.rows[r.i].blob = <<f, i>> /\ r.rows[r.i].idx = i - 1 /\ ~r.rows[r.i].epoch
    BY <1>4, <1>6 DEF Chunked
  <2>2. Opens(sl[<<f, i>>], f, f, i - 1)
    BY <1>5 DEF Opens, Seal
  <2>3. r.i \in 1..Len(r.rows)
    BY <1>1, <1>4
  <2> QED BY <1>5, <2>1, <2>2, <2>3, Zenon DEF Finds
<1>8. /\ base \in Nat /\ base < Len(o)
      /\ \A x : Upto(i, x) = IF base + Chunk < x THEN base + Chunk ELSE x
      /\ (i # n => base + Chunk < Len(o)) /\ (i = n => Len(o) <= base + Chunk)
  <2>1. i - 1 \in Nat /\ (i - 1) + 1 = i
    BY <1>0, <1>4
  <2>2. (i - 1) * Chunk \in Nat /\ ((i - 1) + 1) * Chunk = (i - 1) * Chunk + Chunk
    BY <2>1, Times
  <2>3. i * Chunk = base + Chunk
    BY <2>1, <2>2
  <2>4. base < Len(o) /\ (i # n => i * Chunk < Len(o)) /\ (i = n => Len(o) <= i * Chunk)
    BY <1>2, <1>4
  <2>5. \A x : Upto(i, x) = IF base + Chunk < x THEN base + Chunk ELSE x
    BY <2>3 DEF Upto
  <2> QED BY <2>2, <2>3, <2>4, <2>5
<1>9. Base(r) = base
  BY <1>6 DEF Base
<1> HIDE DEF base, n
<1>10. RealBytes(r) = e - base /\ e \in Nat /\ base <= e /\ e <= Len(o)
  <2>1. e = IF base + Chunk < Len(o) THEN base + Chunk ELSE Len(o)
    BY <1>8
  <2>2. RealBytes(r) = IF i = n THEN Len(o) - base ELSE Chunk
    BY <1>1, <1>9 DEF RealBytes
  <2> HIDE DEF e
  <2> QED BY <1>0, <1>8, <2>1, <2>2
<1>11. \A a, b \in Nat : base + b <= e => SubSeq(p, a + 1, b) = SubSeq(o, (base + a) + 1, base + b)
  <2> SUFFICES ASSUME NEW a \in Nat, NEW b \in Nat, base + b <= e
               PROVE  SubSeq(Pieces(o)[i], a + 1, b) = SubSeq(o, (base + a) + 1, base + b)
    BY <1>6
  <2> QED BY <1>4, PartOfPiece DEF base, n
<1> HIDE DEF p, e
<1>12. ~r.rows[i].epoch
  BY <1>6
<1>13. (r.i + 1) - 1 = i
  BY <1>0
<1>14. CASE r.mode # "stream"
  <2>1. Wanted(r, p) = SubSeq(p, 1, e - base)
    BY <1>10, <1>12, <1>14 DEF Wanted, OfWhole
  <2>2. e - base \in Nat /\ base + (e - base) = e /\ base + 0 = base /\ 0 + 1 = 1 /\ 0 \in Nat
    BY <1>8, <1>10
  <2> DEFINE w == e - base
  <2>3a. w \in Nat /\ base + w <= e
    BY <2>2, <1>10
  <2> HIDE DEF w
  <2>3b. SubSeq(p, 0 + 1, w) = SubSeq(o, (base + 0) + 1, base + w)
    BY <1>11, <2>3a
  <2>3. SubSeq(p, 0 + 1, e - base) = SubSeq(o, (base + 0) + 1, base + (e - base))
    BY <2>3b DEF w
  <2>4. Wanted(r, p) = SubSeq(o, base + 1, e)
    BY <2>1, <2>2, <2>3
  <2>5. Given(r, o, r.i + 1) = SubSeq(o, 0 + 1, e)
    BY <1>1, <1>13, <1>14 DEF Given, FromOf, EndOf, e
  <2>6. Upto(i - 1, Len(o)) = base
    BY <1>8 DEF Upto, base
  <2>7. r.out = SubSeq(o, 0 + 1, base)
    BY <1>1, <1>14, <2>6 DEF Reading, Given, FromOf, EndOf
  <2>8. SubSeq(o, 0 + 1, base) \o SubSeq(o, (IF 0 > base THEN 0 ELSE base) + 1, e) = SubSeq(o, 0 + 1, e)
    BY <1>8, <1>10, PartsJoin
  <2>9. (IF 0 > base THEN 0 ELSE base) = base
    BY <1>8
  <2> QED BY <1>7, <2>4, <2>5, <2>7, <2>8, <2>9 DEF p
<1>15. CASE r.mode = "stream"
  <2> DEFINE from == IF r.lo > base THEN r.lo - base ELSE 0
             to == IF r.hi - base + 1 < e - base THEN r.hi - base + 1 ELSE e - base
             h == Upto(i, r.hi + 1)
  <2>1. Wanted(r, p) = SubSeq(p, from + 1, to)
    BY <1>9, <1>10, <1>12, <1>15 DEF Wanted, OfRange
  <2>2. r.hi < Len(o) /\ r.lo <= r.hi /\ r.last = r.hi \div Chunk + 1
    BY <1>15 DEF InFile, Reading, LastChunk
  <2>3. base <= r.hi
    <3> DEFINE q == r.hi \div Chunk
    <3>1. q \in Nat /\ q * Chunk <= r.hi /\ r.last = q + 1
      BY <1>0, <2>2, ChunkOf
    <3> HIDE DEF q
    <3>2. i - 1 \in Nat /\ i - 1 <= q
      BY <1>0, <1>4, <3>1
    <3>3. base <= q * Chunk
      BY <3>1, <3>2, Between DEF base
    <3>4. q * Chunk \in Nat
      BY <3>1, Times
    <3> QED BY <1>0, <1>8, <3>1, <3>3, <3>4
  <2>4. h \in Nat /\ base <= h /\ h <= Len(o) /\ base + to = h /\ to \in Nat /\ h <= e
    <3>1. h = IF base + Chunk < r.hi + 1 THEN base + Chunk ELSE r.hi + 1
      BY <1>8
    <3>2. e = IF base + Chunk < Len(o) THEN base + Chunk ELSE Len(o)
      BY <1>8 DEF e
    <3> DEFINE z == r.hi
               w == to
    <3>3. w = IF z - base + 1 < e - base THEN z - base + 1 ELSE e - base
      OBVIOUS
    <3>4. z \in Nat /\ z < Len(o) /\ base <= z
      BY <1>0, <2>2, <2>3
    <3> HIDE DEF h, z, w
    <3>5. h = IF base + Chunk < z + 1 THEN base + Chunk ELSE z + 1
      BY <3>1 DEF z
    <3>6. h \in Nat /\ base <= h /\ h <= Len(o) /\ h <= e
      BY <1>0, <1>8, <3>2, <3>4, <3>5
    <3>7. base + w = h /\ w \in Nat
      BY <1>0, <1>8, <3>2, <3>3, <3>4, <3>5
    <3> QED BY <3>6, <3>7 DEF w
  <2>5. from \in Nat /\ base + from = IF r.lo > base THEN r.lo ELSE base
    BY <1>0, <1>8
  <2> HIDE DEF from, to, h
  <2>6. SubSeq(p, from + 1, to) = SubSeq(o, (base + from) + 1, base + to)
    BY <1>11, <2>4, <2>5
  <2>7. Wanted(r, p) = SubSeq(o, (IF r.lo > base THEN r.lo ELSE base) + 1, h)
    BY <2>1, <2>4, <2>5, <2>6
  <2>8. Given(r, o, r.i + 1) = SubSeq(o, r.lo + 1, h)
    BY <1>1, <1>13, <1>15 DEF Given, FromOf, EndOf, h
  <2>9. Upto(i - 1, r.hi + 1) = base
    BY <1>0, <1>8, <2>3 DEF Upto, base
  <2>10. r.out = SubSeq(o, r.lo + 1, base)
    BY <1>1, <1>15, <2>9 DEF Reading, Given, FromOf, EndOf
  <2>11. SubSeq(o, r.lo + 1, base) \o SubSeq(o, (IF r.lo > base THEN r.lo ELSE base) + 1, h) = SubSeq(o, r.lo + 1, h)
    <3> DEFINE z == r.lo
    <3>1. z \in Nat
      BY <1>0
    <3> HIDE DEF z
    <3>2. SubSeq(o, z + 1, base) \o SubSeq(o, (IF z > base THEN z ELSE base) + 1, h) = SubSeq(o, z + 1, h)
      BY <1>8, <2>4, <3>1, PartsJoin
    <3> QED BY <3>2 DEF z
  <2> QED BY <1>7, <2>7, <2>8, <2>10, <2>11 DEF p
<1> QED BY <1>14, <1>15

(* A packed file is read in one step.                                       *)
LEMMA EpochNext ==
    ASSUME NEW o \in Texts, NEW r \in TaskSet, NEW sl,
           InEpoch(o, sl, r.rows), Reading(r, o), r.i <= r.last
    PROVE  /\ Finds(r, sl)
           /\ r.out \o Wanted(r, sl[r.rows[r.i].blob].plain) = Given(r, o, r.i + 1)
<1>1. PICK g \in Files, off \in Nat :
         /\ r.rows = <<EpochRow(<<"epoch", g>>, off, Len(o))>>
         /\ <<"epoch", g>> \in DOMAIN sl
         /\ Opens(sl[<<"epoch", g>>], <<"epoch", g>>, <<"epoch", g>>, 0)
         /\ SubSeq(sl[<<"epoch", g>>].plain, off + 1, off + Len(o)) = o
  BY DEF InEpoch
<1>2. Len(r.rows) = 1 /\ IsPacked(r.rows)
  BY EpochRows
<1>3. r.i = 1
  BY <1>2 DEF Reading, LastChunk
<1> DEFINE row == r.rows[r.i]
           b == <<"epoch", g>>
<1>4. row = EpochRow(b, off, Len(o))
  BY <1>1, <1>3
<1>5. row.blob = b /\ row.idx = 0 /\ row.off = off /\ row.len = Len(o) /\ row.epoch
  BY <1>4 DEF EpochRow
<1>6. Finds(r, sl)
  <2>1. r.i \in 1..Len(r.rows)
    BY <1>2, <1>3
  <2> HIDE DEF b
  <2> QED BY <1>1, <1>5, <2>1, Zenon DEF Finds, b
<1>7. Wanted(r, sl[b].plain) = o
  BY <1>1, <1>5 DEF Wanted, OfPacked
<1>8. r.out = <<>> /\ Given(r, o, r.i + 1) = o
  BY <1>2, <1>3 DEF Reading, Given
<1>9. <<>> \o o = o
  BY ConcatEmptySeq DEF Texts
<1> QED BY <1>5, <1>6, <1>7, <1>8, <1>9

(* Whatever the rows, reading one adds what was due.                        *)
LEMMA ReadNext ==
    ASSUME NEW f \in Files, NEW o \in Texts, NEW r \in TaskSet, NEW sl,
           Leads(f, o, sl, r.rows, r.size, r.key), r.file = f,
           InFile(r, o), Reading(r, o), r.i <= r.last
    PROVE  /\ Finds(r, sl)
           /\ r.out \o Wanted(r, sl[r.rows[r.i].blob].plain) = Given(r, o, r.i + 1)
BY ChunkNext, EpochNext DEF Leads

(* What has been given so far is a text.                                    *)
LEMMA GivenIs ==
    ASSUME NEW o \in Texts, NEW r \in TaskSet, NEW i \in Nat \ {0}, InFile(r, o)
    PROVE  Given(r, o, i) \in Texts
<1> DEFINE lo == FromOf(r)
           e == Upto(i - 1, EndOf(r, o))
<1>0. Len(o) \in Nat /\ r.lo \in Nat /\ r.hi \in Nat
  BY TextFacts DEF TaskSet
<1>1. lo \in Nat /\ EndOf(r, o) \in Nat /\ EndOf(r, o) <= Len(o)
  BY <1>0 DEF FromOf, EndOf, InFile
<1>2. i - 1 \in Nat
  OBVIOUS
<1>3. (i - 1) * Chunk \in Nat
  BY <1>2, Times
<1>4. e \in Nat /\ e <= Len(o)
  BY <1>0, <1>1, <1>3 DEF Upto
<1> HIDE DEF lo, e
<1>5. SubSeq(o, lo + 1, e) \in Texts
  BY <1>1, <1>4, PartIs
<1> QED BY <1>5, TextFacts DEF Given, lo, e

(* At first nothing is given ...                                            *)
LEMMA NothingGiven ==
    ASSUME NEW f \in Files, NEW o \in Texts, NEW r \in TaskSet, NEW sl,
           Leads(f, o, sl, r.rows, r.size, r.key), InFile(r, o),
           r.mode = "stream" => ~IsPacked(r.rows)
    PROVE  /\ FirstChunk(r) \in 1..(LastChunk(r, r.rows) + 1) /\ LastChunk(r, r.rows) \in Nat
           /\ Given(r, o, FirstChunk(r)) = <<>>
<1>0. Len(o) \in Nat /\ r.lo \in Nat /\ r.hi \in Nat /\ r.rows \in Seq(RowSet) /\ Len(r.rows) \in Nat
  BY TextFacts, LenProperties DEF TaskSet
<1>1. CASE r.mode = "stream"
  <2> DEFINE q == r.lo \div Chunk
             p == r.hi \div Chunk
             e == Upto(q, r.hi + 1)
  <2>1. q \in Nat /\ p \in Nat /\ q * Chunk <= r.lo /\ q * Chunk \in Nat
    BY <1>0, ChunkOf, Times
  <2>2. r.lo <= r.hi /\ ~IsPacked(r.rows)
    BY <1>1 DEF InFile
  <2>3. q <= p
    BY <1>0, <2>2, ChunkOrder
  <2>4. FirstChunk(r) = q + 1 /\ LastChunk(r, r.rows) = p + 1
    BY <1>1 DEF FirstChunk, LastChunk
  <2>5. e \in Int /\ e < r.lo + 1
    BY <1>0, <2>1, <2>2 DEF Upto
  <2> HIDE DEF q, p
  <2>6. (q + 1) - 1 = q
    BY <2>1
  <2>7. Given(r, o, q + 1) = SubSeq(o, r.lo + 1, e)
    BY <1>1, <2>2, <2>6 DEF Given, FromOf, EndOf
  <2> HIDE DEF e
  <2>8. SubSeq(o, r.lo + 1, e) = <<>>
    BY <1>0, <2>5, PartEmpty
  <2>9. q + 1 \in 1..((p + 1) + 1) /\ p + 1 \in Nat
    BY <2>1, <2>3
  <2> QED BY <2>4, <2>7, <2>8, <2>9, Zenon
<1>2. CASE r.mode # "stream"
  <2>1. FirstChunk(r) = 1 /\ LastChunk(r, r.rows) = Len(r.rows)
    BY <1>2 DEF FirstChunk, LastChunk
  <2>1a. 1 \in 1..(Len(r.rows) + 1)
    BY <1>0
  <2>2. CASE IsPacked(r.rows)
    <3>1. Given(r, o, 1) = <<>>
      BY <2>2, Zenon DEF Given
    <3> QED BY <1>0, <2>1, <2>1a, <3>1, Zenon
  <2>3. CASE ~IsPacked(r.rows)
    <3>1. 0 * Chunk = 0
      BY TransferConstants
    <3>2. Upto(0, Len(o)) = 0
      BY <1>0, <3>1 DEF Upto
    <3>3. Given(r, o, 1) = SubSeq(o, 1, 0)
      BY <1>2, <2>3, <3>2 DEF Given, FromOf, EndOf
    <3>4. SubSeq(o, 1, 0) = <<>>
      BY PartEmpty
    <3> QED BY <1>0, <2>1, <2>1a, <3>3, <3>4, Zenon
  <2> QED BY <2>2, <2>3
<1> QED BY <1>1, <1>2

(* ... and at last everything.                                              *)
LEMMA AllGiven ==
    ASSUME NEW f \in Files, NEW o \in Texts, NEW r \in TaskSet, NEW sl,
           Leads(f, o, sl, r.rows, r.size, r.key), InFile(r, o), Reading(r, o), r.i > r.last
    PROVE  r.out = Full(r, o)
<1>0. Len(o) \in Nat /\ r.lo \in Nat /\ r.hi \in Nat /\ r.i \in Nat /\ r.last \in Nat
  BY TextFacts DEF TaskSet
<1>1. r.i = r.last + 1 /\ (r.i - 1) = r.last /\ r.out = Given(r, o, r.i)
  BY <1>0 DEF Reading
<1>2. CASE IsPacked(r.rows)
  <2>1. InEpoch(o, sl, r.rows)
    BY <1>2, ChunkRows DEF Leads
  <2>2. Len(r.rows) = 1
    BY <2>1, EpochRows
  <2>3. r.mode # "stream" /\ r.last = 1
    BY <1>2, <2>2 DEF Reading, LastChunk
  <2> QED BY <1>1, <1>2, <2>3 DEF Given, Full
<1>3. CASE ~IsPacked(r.rows)
  <2>1. Chunked(f, o, sl, r.rows, r.key)
    BY <1>3, EpochRows DEF Leads
  <2>2. CASE r.mode = "stream"
    <3> DEFINE q == r.hi \div Chunk
    <3>1. r.last = q + 1 /\ r.hi < Len(o)
      BY <2>2 DEF Reading, LastChunk, InFile
    <3>2. q \in Nat /\ r.hi < (q + 1) * Chunk
      BY <1>0, ChunkOf
    <3>3. r.hi < r.last * Chunk /\ r.last * Chunk \in Nat
      BY <1>0, <3>1, <3>2, Times
    <3>4. Upto(r.last, r.hi + 1) = r.hi + 1
      BY <1>0, <3>3 DEF Upto
    <3> QED BY <1>1, <1>3, <2>2, <3>4 DEF Given, FromOf, EndOf, Full
  <2>3. CASE r.mode # "stream"
    <3>1. r.last = NumChunks(Len(o))
      BY <2>1, <2>3, ChunkRows DEF Reading, LastChunk
    <3>2. Len(o) <= r.last * Chunk /\ r.last * Chunk \in Nat
      BY <1>0, <3>1, ChunkCount, Times
    <3>3. Upto(r.last, Len(o)) = Len(o)
      BY <1>0, <3>2 DEF Upto
    <3>4. r.out = SubSeq(o, 1, Len(o))
      BY <1>1, <1>3, <2>3, <3>3 DEF Given, FromOf, EndOf
    <3> QED BY <2>3, <3>4, WholePart DEF Full
  <2> QED BY <2>2, <2>3
<1> QED BY <1>2, <1>3

-----------------------------------------------------------------------------
(* The invariant behind DownloadExact.                                      *)
UploadSet == [pc : {"none", "stat", "ended"}, size : Nat, picture : BOOLEAN]
NodeSet ==
    [st : {"none", "buffered", "ready", "deleted"}, size : Nat,
     key : {None} \cup [key : Keys, fid : Files], rows : Seq(RowSet)]
PlaceSet ==
    [pending : SUBSET Names, root : SUBSET Names, cache : SUBSET Names, cloud : SUBSET Names,
     rotten : SUBSET Names, into : {"pending", "root"}]

TransferTypes ==
    /\ upload \in [Files -> UploadSet]
    /\ nodes \in [Files -> NodeSet]
    /\ entries \in Seq(Entries) /\ left \in Seq(Entries)
    /\ DOMAIN sealed \subseteq Names
    /\ at \in PlaceSet
    /\ task \in [Tasks -> TaskSet]
    /\ temp \subseteq Tasks
    /\ dest \in FileSet /\ had \in BOOLEAN
    /\ orig \in [Files -> Texts]

Ended(f) == upload[f].pc = "ended"

NodeFits(f, n, o, sl) ==
    /\ n.st # "ready" => n.rows = <<>>
    /\ n.st = "buffered" => n.size = Len(o) /\ n.key = Wrap(Zero, f)
    /\ n.st = "ready" => Leads(f, o, sl, n.rows, n.size, n.key.key) /\ n.key.key \in Keys
    /\ n.st = "buffered" \/ (n.st = "ready" /\ IsPacked(n.rows)) => ToEpoch(Len(o))

NodeOK(f) == (nodes[f].st = "none" <=> ~Ended(f)) /\ NodeFits(f, nodes[f], orig[f], sealed)

NameOK(b) ==
    \/ b[1] \in Files /\ Ended(b[1])
    \/ b[1] = "epoch" /\ b[2] \in Files /\ nodes[b[2]].st \in {"ready", "deleted"}

EntriesOK(es) ==
    /\ \A j \in 1..Len(es) :
          nodes[es[j].file].st = "buffered" /\ es[j].plain = orig[es[j].file]
    /\ \A j, k \in 1..Len(es) : es[j].file = es[k].file => j = k

Fits(r, o, sl) ==
    /\ r.mode \in Modes /\ InFile(r, o)
    /\ r.pc = "fetch" => r.out = <<>>
    /\ r.pc \in {"chunk", "read"} =>
          Leads(r.file, o, sl, r.rows, r.size, r.key) /\ Reading(r, o)
    /\ r.pc = "read" => r.i <= r.last
    /\ r.pc \in {"backup", "rename", "unlink"} => r.mode = "save" /\ r.out = o
    /\ r.pc = "done" /\ r.mode # "prefetch" => r.out = Full(r, o)

TaskOK(r) ==
    r.pc # "idle" => r.file \in Files /\ Ended(r.file) /\ Fits(r, orig[r.file], sealed)

ByteInv ==
    /\ TransferTypes
    /\ \A f \in Files : NodeOK(f)
    /\ \A b \in DOMAIN sealed : NameOK(b)
    /\ EntriesOK(entries) /\ EntriesOK(left)
    /\ \A t \in Tasks : TaskOK(task[t])

(* Where a blob exists, and where a download that has fetched finds it.     *)
Placed == at.pending \cup at.root \cup at.cloud
Near   == at.pending \cup at.root \cup at.cache

(* ... behind ContentKept ...                                               *)
Among(f, es) == \E j \in 1..Len(es) : es[j].file = f

KeptInv ==
    /\ entries # <<>> /\ left # <<>> => entries = left
    /\ \A f \in Files : nodes[f].st = "buffered" => Among(f, entries) \/ Among(f, left)
    /\ \A f \in Files : nodes[f].st = "ready" => BlobsOf(f) \subseteq Placed

(* ... behind FailsWithCause ...                                            *)
TaskServed(r) ==
    /\ r.pc = "failed" => r.excuse
    /\ r.pc \in {"fetch", "chunk", "read"} /\ ~r.excuse =>
          /\ nodes[r.file].st \in {"buffered", "ready"}
          /\ BlobsOf(r.file) \ r.todo \subseteq Near
    /\ r.pc = "fetch" => (r.mode = "stream" => ~ToEpoch(Len(orig[r.file])))
    /\ r.pc = "fetch" /\ ~r.excuse => r.todo \subseteq BlobsOf(r.file)
    /\ r.pc \in {"chunk", "read"} => r.todo = {}
    /\ r.pc \in {"chunk", "read"} /\ ~r.excuse =>
          nodes[r.file].st = "ready" /\ r.rows = nodes[r.file].rows
    /\ r.pc = "read" /\ ~r.excuse => There(r.path, r.rows[r.i].blob)

CauseInv == \A t \in Tasks : TaskServed(task[t])

(* ... and behind NoTrace.                                                  *)
WholeFile(d) == d = Old \/ \E f \in Files : Ended(f) /\ d.data = orig[f]

TraceInv ==
    /\ \A t \in temp : task[t].mode = "save" /\ task[t].pc \in {"chunk", "read", "backup", "rename"}
    /\ \A t \in Tasks : task[t].bak.there => task[t].pc \in {"rename", "unlink"} /\ WholeFile(task[t].bak)
    /\ dest.there => WholeFile(dest)
    /\ had /\ ~dest.there => \E t \in Tasks : task[t].pc = "rename" /\ task[t].bak.there

Extends(sl, sm) == DOMAIN sl \subseteq DOMAIN sm /\ \A b \in DOMAIN sl : sm[b] = sl[b]

(* Blobs are only added, so that rows keep leading to their text.           *)
LEMMA LeadsStill ==
    ASSUME NEW f, NEW o, NEW sl, NEW sm, NEW rows, NEW size, NEW key, Extends(sl, sm),
           Leads(f, o, sl, rows, size, key)
    PROVE  Leads(f, o, sm, rows, size, key)
<1>1. CASE Chunked(f, o, sl, rows, key)
  <2>1. Chunked(f, o, sm, rows, key)
    BY <1>1, Zenon DEF Chunked, Extends
  <2> QED BY <2>1 DEF Leads
<1>2. CASE InEpoch(o, sl, rows)
  <2>1. PICK g \in Files, off \in Nat :
       /\ rows = <<EpochRow(<<"epoch", g>>, off, Len(o))>>
       /\ <<"epoch", g>> \in DOMAIN sl
       /\ Opens(sl[<<"epoch", g>>], <<"epoch", g>>, <<"epoch", g>>, 0)
       /\ SubSeq(sl[<<"epoch", g>>].plain, off + 1, off + Len(o)) = o
    BY <1>2, Zenon DEF InEpoch
  <2>2. <<"epoch", g>> \in DOMAIN sm /\ sm[<<"epoch", g>>] = sl[<<"epoch", g>>]
    BY <2>1, Zenon DEF Extends
  <2>3. InEpoch(o, sm, rows)
    BY <2>1, <2>2, Zenon DEF InEpoch
  <2> QED BY <2>3 DEF Leads
<1> QED BY <1>1, <1>2 DEF Leads

LEMMA FitsStill ==
    ASSUME NEW r, NEW o, NEW sl, NEW sm, Extends(sl, sm), Fits(r, o, sl)
    PROVE  Fits(r, o, sm)
BY LeadsStill, Zenon DEF Fits

LEMMA NodeFitsStill ==
    ASSUME NEW f, NEW n, NEW o, NEW sl, NEW sm, Extends(sl, sm), NodeFits(f, n, o, sl)
    PROVE  NodeFits(f, n, o, sm)
BY LeadsStill, Zenon DEF NodeFits

(* What a step keeps of the tasks it leaves alone.                          *)
LEMMA TasksStill ==
    ASSUME NEW r, TaskOK(r), Extends(sealed, sealed'),
           \A f \in Files : Ended(f) => Ended(f)' /\ orig'[f] = orig[f]
    PROVE  TaskOK(r)'
<1>1. SUFFICES ASSUME r.pc # "idle"
               PROVE  r.file \in Files /\ Ended(r.file)' /\ Fits(r, orig'[r.file], sealed')
  BY DEF TaskOK
<1>2. r.file \in Files /\ Ended(r.file) /\ Fits(r, orig[r.file], sealed)
  BY <1>1 DEF TaskOK
<1>3. Ended(r.file)' /\ orig'[r.file] = orig[r.file]
  BY <1>2
<1>4. Fits(r, orig[r.file], sealed')
  BY <1>2, FitsStill
<1> QED BY <1>2, <1>3, <1>4

(* The first of the three facts of induction.                               *)
LEMMA StartsWell == TransferInit => ByteInv
<1> SUFFICES ASSUME TransferInit PROVE ByteInv
  OBVIOUS
<1>1. <<>> \in Texts /\ <<>> \in Seq(Entries) /\ <<>> \in Seq(RowSet) /\ Len(<<>>) = 0 /\ DOMAIN <<>> = {}
  BY TextFacts, EmptySeq
<1>2. Zero \in Bytes /\ <<Zero>> \in Texts
  BY DEF Bytes, Texts
<1>3. NoFile \in FileSet /\ Old \in FileSet
  BY <1>1, <1>2, Zenon DEF NoFile, Old, FileSet
<1>4. Idle \in TaskSet /\ Idle.pc = "idle"
  BY <1>1, <1>3, 0 \in Nat, 1 \in Nat DEF Idle, TaskSet, Keys
<1>5. NoNode \in NodeSet
  BY <1>1, 0 \in Nat DEF NoNode, NodeSet
<1>6. TransferTypes
  <2>1. upload \in [Files -> UploadSet]
    BY DEF TransferInit, UploadSet
  <2>2. nodes \in [Files -> NodeSet] /\ task \in [Tasks -> TaskSet] /\ orig \in [Files -> Texts]
    BY <1>1, <1>4, <1>5, Zenon DEF TransferInit
  <2>3. entries \in Seq(Entries) /\ left \in Seq(Entries) /\ DOMAIN sealed \subseteq Names
    BY <1>1 DEF TransferInit
  <2>4. at \in PlaceSet /\ temp \subseteq Tasks
    BY DEF TransferInit, PlaceSet
  <2>5. dest \in FileSet /\ had \in BOOLEAN
    BY <1>3, Zenon DEF TransferInit
  <2> QED BY <2>1, <2>2, <2>3, <2>4, <2>5 DEF TransferTypes
<1>7. ASSUME NEW f \in Files PROVE NodeOK(f)
  BY DEF TransferInit, NodeOK, NodeFits, NoNode, Ended
<1>8. (\A b \in DOMAIN sealed : NameOK(b)) /\ EntriesOK(entries) /\ EntriesOK(left)
  BY <1>1 DEF TransferInit, EntriesOK
<1>9. ASSUME NEW t \in Tasks PROVE TaskOK(task[t])
  BY <1>4 DEF TransferInit, TaskOK
<1> QED BY <1>6, <1>7, <1>8, <1>9 DEF ByteInv

Ends(r) == [r EXCEPT !.todo = {}, !.rows = <<>>, !.size = 0, !.key = None, !.i = 1, !.last = 0,
                     !.path = "none"]
Trimmed(r) == IF r.pc \in {"done", "failed"} THEN Ends(r) ELSE r

(* What Set keeps of a task that has ended.                                 *)
LEMMA TrimmedIs ==
    ASSUME NEW r \in TaskSet
    PROVE  /\ Trimmed(r) \in TaskSet
           /\ Trimmed(r).pc = r.pc /\ Trimmed(r).file = r.file /\ Trimmed(r).mode = r.mode
           /\ Trimmed(r).lo = r.lo /\ Trimmed(r).hi = r.hi /\ Trimmed(r).out = r.out
           /\ Trimmed(r).bak = r.bak /\ Trimmed(r).excuse = r.excuse
           /\ (r.pc \notin {"done", "failed"} => Trimmed(r) = r)
<1>1. CASE r.pc \notin {"done", "failed"}
  BY <1>1 DEF Trimmed
<1>2. CASE r.pc \in {"done", "failed"}
  <2>1. Trimmed(r) = Ends(r)
    BY <1>2 DEF Trimmed
  <2>2. <<>> \in Seq(RowSet) /\ None \in Keys /\ 0 \in Nat /\ 1 \in Nat /\ {} \in SUBSET Names
    BY EmptySeq DEF Keys
  <2>3. Ends(r) \in TaskSet
    BY <2>2 DEF TaskSet, Ends
  <2>4. /\ Ends(r).pc = r.pc /\ Ends(r).file = r.file /\ Ends(r).mode = r.mode
        /\ Ends(r).lo = r.lo /\ Ends(r).hi = r.hi /\ Ends(r).out = r.out
        /\ Ends(r).bak = r.bak /\ Ends(r).excuse = r.excuse
    BY DEF TaskSet, Ends
  <2> QED BY <1>2, <2>1, <2>3, <2>4
<1> QED BY <1>1, <1>2

LEMMA SetIs ==
    ASSUME NEW t, NEW r, Set(t, r)
    PROVE  task' = [task EXCEPT ![t] = Trimmed(r)]
BY DEF Set, Trimmed, Ends

(* A task is right, trimmed or not.                                         *)
LEMMA TrimmedOK ==
    ASSUME NEW r \in TaskSet, TaskOK(r)
    PROVE  TaskOK(Trimmed(r))
<1>1. CASE r.pc \notin {"done", "failed"}
  BY <1>1, TrimmedIs
<1>2. CASE r.pc \in {"done", "failed"}
  <2>1. r.file \in Files /\ Ended(r.file) /\ Fits(r, orig[r.file], sealed)
    BY <1>2 DEF TaskOK
  <2> DEFINE o == orig[r.file]
             q == Trimmed(r)
  <2>2. Fits(r, o, sealed)
    BY <2>1
  <2>3. /\ q.pc = r.pc /\ q.file = r.file /\ q.mode = r.mode
        /\ q.lo = r.lo /\ q.hi = r.hi /\ q.out = r.out
    BY TrimmedIs
  <2> HIDE DEF q, o
  <2>4. InFile(q, o) /\ q.mode \in Modes
    BY <2>2, <2>3 DEF Fits, InFile
  <2>5. q.pc = "done" /\ q.mode # "prefetch" => q.out = Full(q, o)
    BY <2>2, <2>3 DEF Fits, Full
  <2>6. Fits(q, o, sealed)
    BY <1>2, <2>3, <2>4, <2>5 DEF Fits
  <2> QED BY <2>1, <2>3, <2>6 DEF TaskOK, q, o
<1> QED BY <1>1, <1>2

(* A step of one task.                                                      *)
LEMMA TaskStep ==
    ASSUME ByteInv, NEW t \in Tasks, NEW r \in TaskSet, TaskOK(r), Set(t, r),
           UNCHANGED <<upload, nodes, entries, left, sealed, orig, had>>,
           at' \in PlaceSet, temp' \subseteq Tasks, dest' \in FileSet
    PROVE  ByteInv'
<1>1. task' = [task EXCEPT ![t] = Trimmed(r)] /\ Trimmed(r) \in TaskSet /\ TaskOK(Trimmed(r))
  BY SetIs, TrimmedIs, TrimmedOK
<1>2. task \in [Tasks -> TaskSet] /\ \A u \in Tasks : TaskOK(task[u])
  BY DEF ByteInv, TransferTypes
<1>3. task' \in [Tasks -> TaskSet] /\ \A u \in Tasks : TaskOK(task'[u])
  BY <1>1, <1>2
<1>4. \A u \in Tasks : TaskOK(task[u])'
  BY <1>3 DEF TaskOK, Ended
<1>5. TransferTypes'
  BY <1>3 DEF ByteInv, TransferTypes
<1>6. \A f \in Files : NodeOK(f)'
  BY DEF ByteInv, NodeOK, Ended
<1>7. \A b \in DOMAIN sealed' : NameOK(b)'
  BY DEF ByteInv, NameOK, Ended
<1>8. EntriesOK(entries)' /\ EntriesOK(left)'
  BY DEF ByteInv, EntriesOK
<1> QED BY <1>4, <1>5, <1>6, <1>7, <1>8 DEF ByteInv

(* What the invariant says of a task.                                       *)
LEMMA TaskFacts ==
    ASSUME ByteInv, NEW t \in Tasks
    PROVE  /\ task[t] \in TaskSet /\ TaskOK(task[t])
           /\ temp \subseteq Tasks /\ dest \in FileSet /\ at \in PlaceSet
BY DEF ByteInv, TransferTypes

(* What a task was asked for does not change.                               *)
LEMMA SameAsked ==
    ASSUME NEW q \in TaskSet, NEW r \in TaskSet, TaskOK(q), q.pc # "idle",
           r.file = q.file, r.mode = q.mode, r.lo = q.lo, r.hi = q.hi
    PROVE  /\ r.file \in Files /\ Ended(r.file) /\ InFile(r, orig[r.file]) /\ r.mode \in Modes
           /\ Full(r, orig[r.file]) = Full(q, orig[q.file])
BY DEF TaskOK, Fits, InFile, Full

(* A task that fails, removing its temporary file.                          *)
LEMMA FailStep ==
    ASSUME ByteInv, NEW t \in Tasks, NEW x \in BOOLEAN, task[t].pc # "idle", Fail(t, x),
           UNCHANGED <<upload, nodes, entries, left, sealed, orig, had>>,
           at' \in PlaceSet, dest' \in FileSet
    PROVE  ByteInv'
<1> DEFINE r == [task[t] EXCEPT !.pc = "failed", !.excuse = @ \/ x]
<1>0. task[t] \in TaskSet /\ TaskOK(task[t]) /\ temp \subseteq Tasks
  BY TaskFacts
<1>1. Set(t, r) /\ temp' \subseteq Tasks
  BY <1>0 DEF Fail
<1>2. /\ r \in TaskSet /\ r.pc = "failed" /\ r.file = task[t].file /\ r.mode = task[t].mode
      /\ r.lo = task[t].lo /\ r.hi = task[t].hi
  BY <1>0 DEF TaskSet
<1> HIDE DEF r
<1>3. TaskOK(r)
  BY <1>0, <1>2, SameAsked DEF TaskOK, Fits
<1> QED BY <1>1, <1>2, <1>3, TaskStep

(* A task that ends, or goes on, with the same output.                      *)
LEMMA ToFail ==
    ASSUME ByteInv, NEW t \in Tasks, task[t].pc # "idle",
           Set(t, [task[t] EXCEPT !.pc = "failed", !.excuse = TRUE]),
           UNCHANGED <<upload, nodes, entries, left, sealed, orig, had>>,
           at' \in PlaceSet, temp' \subseteq Tasks, dest' \in FileSet
    PROVE  ByteInv'
<1> DEFINE r == [task[t] EXCEPT !.pc = "failed", !.excuse = TRUE]
<1>0. task[t] \in TaskSet /\ TaskOK(task[t])
  BY TaskFacts
<1>2. /\ r \in TaskSet /\ r.pc = "failed" /\ r.file = task[t].file /\ r.mode = task[t].mode
      /\ r.lo = task[t].lo /\ r.hi = task[t].hi
  BY <1>0 DEF TaskSet
<1> HIDE DEF r
<1>3. TaskOK(r)
  BY <1>0, <1>2, SameAsked DEF TaskOK, Fits
<1> QED BY <1>2, <1>3, TaskStep DEF r

(* The blobs of a file have names.                                          *)
LEMMA BlobNames ==
    ASSUME ByteInv, NEW f \in Files
    PROVE  BlobsOf(f) \subseteq Names
<1>1. nodes[f].rows \in Seq(RowSet)
  BY DEF ByteInv, TransferTypes, NodeSet
<1>2. \A i \in DOMAIN nodes[f].rows : nodes[f].rows[i] \in RowSet
  BY <1>1, LenProperties, ElementOfSeq
<1> QED BY <1>2 DEF BlobsOf, RowsOf, RowSet

(* One lemma per step of a task.                                            *)
LEMMA BeginByte ==
    ASSUME ByteInv, NEW t \in Tasks, NEW f \in Files, TaskBegin(t, f)
    PROVE  ByteInv'
<1>1. PICK mode \in Modes, lo \in 0..MaxSize, hi \in 0..MaxSize :
        /\ Asked(f, mode, lo, hi)
        /\ Set(t, [Idle EXCEPT !.pc = "fetch", !.file = f, !.mode = mode, !.lo = lo,
                               !.hi = hi, !.todo = BlobsOf(f)])
  BY Zenon DEF TaskBegin, Modes
<1> DEFINE r == [Idle EXCEPT !.pc = "fetch", !.file = f, !.mode = mode, !.lo = lo,
                             !.hi = hi, !.todo = BlobsOf(f)]
           o == orig[f]
<1>2. lo \in Nat /\ hi \in Nat /\ BlobsOf(f) \in SUBSET Names
  BY TransferConstants, BlobNames
<1>3. Idle \in TaskSet
  <2>1. <<>> \in Texts /\ <<>> \in Seq(RowSet)
    BY TextFacts, EmptySeq
  <2>2. NoFile \in FileSet
    BY <2>1, Zenon DEF NoFile, FileSet
  <2> QED BY <2>1, <2>2, 0 \in Nat, 1 \in Nat DEF Idle, TaskSet, Keys
<1>4. /\ r \in TaskSet /\ r.pc = "fetch" /\ r.file = f /\ r.mode = mode /\ r.lo = lo /\ r.hi = hi
  BY <1>2, <1>3 DEF TaskSet
<1>5. r.out = <<>>
  BY <1>3 DEF TaskSet, Idle
<1>6. nodes[f].st \in {"buffered", "ready"} /\ NodeOK(f) /\ o \in Texts
  BY DEF TaskBegin, ByteInv, TransferTypes
<1>7. Ended(f) /\ nodes[f].size = Len(o) /\ Len(o) \in Nat
  BY <1>6, TextFacts DEF NodeOK, NodeFits, Leads
<1>8. mode = "stream" => lo <= hi /\ hi < Len(o)
  <2> SUFFICES ASSUME mode = "stream" PROVE lo <= hi /\ hi < Len(o)
    OBVIOUS
  <2>1. lo < Len(o) /\ (hi = OpenRange(lo, Len(o)) \/ \E h \in lo..MaxSize : hi = ClosedRange(h, Len(o)))
    BY <1>1, <1>7 DEF Asked, MayStream
  <2> QED BY <1>2, <1>7, <2>1, TransferConstants DEF OpenRange, ClosedRange
<1> HIDE DEF r
<1>9. TaskOK(r)
  BY <1>4, <1>5, <1>7, <1>8 DEF TaskOK, Fits, InFile
<1>10. temp \subseteq Tasks /\ dest \in FileSet /\ at \in PlaceSet
  BY TaskFacts
<1> QED BY <1>1, <1>4, <1>9, <1>10, TaskStep DEF TaskBegin, r

LEMMA FetchByte ==
    ASSUME ByteInv, NEW t \in Tasks, Fetch(t)
    PROVE  ByteInv'
<1>0. /\ task[t] \in TaskSet /\ TaskOK(task[t]) /\ task[t].pc = "fetch"
      /\ temp \subseteq Tasks /\ dest \in FileSet /\ at \in PlaceSet
  BY TaskFacts DEF Fetch
<1>1. PICK b \in task[t].todo :
          \/ /\ AtHand(b)
             /\ Set(t, [task[t] EXCEPT !.todo = @ \ {b}]) /\ UNCHANGED <<at, temp>>
          \/ /\ ~AtHand(b) /\ Download(b)
             /\ Set(t, [task[t] EXCEPT !.todo = @ \ {b}]) /\ UNCHANGED temp
          \/ /\ ~AtHand(b)
             /\ Fail(t, b \in at.cloud \cup at.root) /\ UNCHANGED at
  BY Zenon DEF Fetch
<1>2. UNCHANGED <<upload, nodes, entries, left, sealed, dest, had, orig>>
  BY DEF Fetch
<1> DEFINE r == [task[t] EXCEPT !.todo = @ \ {b}]
<1>3. /\ r \in TaskSet /\ r.pc = "fetch" /\ r.file = task[t].file /\ r.mode = task[t].mode
      /\ r.lo = task[t].lo /\ r.hi = task[t].hi /\ r.out = task[t].out
  BY <1>0 DEF TaskSet
<1> HIDE DEF r
<1>4. TaskOK(r)
  BY <1>0, <1>3, SameAsked DEF TaskOK, Fits
<1>5. CASE Set(t, r) /\ UNCHANGED <<at, temp>>
  BY <1>0, <1>2, <1>3, <1>4, <1>5, TaskStep
<1>6. CASE Download(b) /\ Set(t, r) /\ UNCHANGED temp
  <2>1. b \in at.cloud /\ at' = [at EXCEPT !.cache = @ \cup {b}]
    BY <1>6 DEF Download
  <2>2. at' \in PlaceSet
    BY <1>0, <2>1 DEF PlaceSet
  <2> QED BY <1>0, <1>2, <1>3, <1>4, <1>6, <2>2, TaskStep
<1>7. CASE Fail(t, b \in at.cloud \cup at.root) /\ UNCHANGED at
  <2> DEFINE x == b \in at.cloud \cup at.root
  <2>1. x \in BOOLEAN /\ Fail(t, x)
    BY <1>7
  <2> HIDE DEF x
  <2> QED BY <1>0, <1>2, <1>7, <2>1, FailStep
<1> QED BY <1>1, <1>5, <1>6, <1>7 DEF r

LEMMA PrefetchedByte ==
    ASSUME ByteInv, NEW t \in Tasks, Prefetched(t)
    PROVE  ByteInv'
<1>0. /\ task[t] \in TaskSet /\ TaskOK(task[t]) /\ task[t].pc = "fetch" /\ task[t].mode = "prefetch"
      /\ temp \subseteq Tasks /\ dest \in FileSet /\ at \in PlaceSet
  BY TaskFacts DEF Prefetched
<1> DEFINE r == [task[t] EXCEPT !.pc = "done"]
<1>1. /\ r \in TaskSet /\ r.pc = "done" /\ r.file = task[t].file /\ r.mode = task[t].mode
      /\ r.lo = task[t].lo /\ r.hi = task[t].hi
  BY <1>0 DEF TaskSet
<1>2. Set(t, r)
  BY DEF Prefetched
<1> HIDE DEF r
<1>3. TaskOK(r)
  BY <1>0, <1>1, SameAsked DEF TaskOK, Fits
<1> QED BY <1>0, <1>1, <1>2, <1>3, TaskStep DEF Prefetched

(* A file that is still there, and not refused, leads to its text.          *)
LEMMA OpenedLeads ==
    ASSUME NEW f \in Files, NEW o \in Texts, NEW n \in NodeSet, NEW sl, NodeFits(f, n, o, sl),
           n.st \in {"buffered", "ready"}, IsPacked(n.rows) \/ Len(n.rows) = NumChunks(n.size)
    PROVE  Leads(f, o, sl, n.rows, n.size, n.key.key) /\ n.key.key \in Keys
<1>1. CASE n.st = "ready"
  BY <1>1 DEF NodeFits
<1>2. CASE n.st = "buffered"
  <2>1. n.rows = <<>> /\ n.size = Len(o) /\ n.key = Wrap(Zero, f)
    BY <1>2 DEF NodeFits
  <2>2. NumChunks(Len(o)) = 0
    BY <2>1, EmptySeq DEF IsPacked
  <2>3. 1..NumChunks(Len(o)) = {}
    BY <2>2
  <2>4. [i \in 1..NumChunks(Len(o)) |-> Row(<<f, i>>, i - 1)] = <<>>
    BY <2>3
  <2>5. Chunked(f, o, sl, n.rows, n.key.key)
    BY <2>1, <2>3, <2>4, Zenon DEF Chunked
  <2> QED BY <2>1, <2>5 DEF Leads, Wrap, Keys
<1> QED BY <1>1, <1>2

LEMMA ValidateByte ==
    ASSUME ByteInv, NEW t \in Tasks, Validate(t)
    PROVE  ByteInv'
<1> DEFINE q == task[t]
           f == q.file
           n == nodes[f]
           o == orig[f]
<1>0. /\ q \in TaskSet /\ TaskOK(q) /\ q.pc = "fetch" /\ q.mode # "prefetch"
      /\ temp \subseteq Tasks /\ dest \in FileSet /\ at \in PlaceSet
  BY TaskFacts DEF Validate
<1>1. f \in Files /\ Ended(f) /\ q.mode \in Modes /\ InFile(q, o) /\ q.out = <<>>
  BY <1>0 DEF TaskOK, Fits
<1>2. UNCHANGED <<upload, nodes, entries, left, sealed, at, dest, had, orig>>
  BY DEF Validate
<1>3. CASE Fail(t, Waits(f))
  <2> DEFINE x == Waits(f)
  <2>1. x \in BOOLEAN /\ Fail(t, x)
    BY <1>3 DEF Waits, Buffered
  <2> HIDE DEF x
  <2> QED BY <1>0, <1>2, <2>1, FailStep
<1>4. CASE /\ ~Waits(f) /\ ~RangeRefused(q) /\ (IsPacked(n.rows) \/ Len(n.rows) = NumChunks(n.size))
           /\ Set(t, Opened(q, n))
           /\ temp' = IF q.mode = "save" /\ ~IsPacked(n.rows) THEN temp \cup {t} ELSE temp
  <2>1. NodeOK(f) /\ n \in NodeSet /\ o \in Texts
    BY <1>1 DEF ByteInv, TransferTypes
  <2>2. n.st \in {"buffered", "ready"} /\ NodeFits(f, n, o, sealed)
    BY <1>1, <1>4, <2>1 DEF NodeOK, Waits, NodeSet
  <2>3. Leads(f, o, sealed, n.rows, n.size, n.key.key) /\ n.key.key \in Keys
    BY <1>1, <1>4, <2>1, <2>2, OpenedLeads
  <2> DEFINE r == Opened(q, n)
             p == [q EXCEPT !.rows = n.rows]
  <2>4. n.rows \in Seq(RowSet) /\ n.size \in Nat
    BY <2>1 DEF NodeSet
  <2>4a. /\ p \in TaskSet /\ p.mode = q.mode /\ p.lo = q.lo /\ p.hi = q.hi /\ p.rows = n.rows
    BY <1>0, <2>4 DEF TaskSet
  <2>4b. FirstChunk(q) = FirstChunk(p) /\ LastChunk(q, n.rows) = LastChunk(p, p.rows)
    BY <2>4a DEF FirstChunk, LastChunk
  <2>4c. q.mode = "stream" => ~IsPacked(n.rows)
    BY <1>4 DEF RangeRefused, RowsOf
  <2>5. FirstChunk(q) \in Nat /\ LastChunk(q, n.rows) \in Nat /\ FirstChunk(q) \in 1..(LastChunk(q, n.rows) + 1)
    <3> DEFINE w == [p EXCEPT !.size = n.size, !.key = n.key.key]
    <3>1. /\ w \in TaskSet /\ w.mode = q.mode /\ w.lo = q.lo /\ w.hi = q.hi /\ w.rows = n.rows
          /\ w.size = n.size /\ w.key = n.key.key
      BY <2>3, <2>4, <2>4a DEF TaskSet
    <3> HIDE DEF w
    <3>2. FirstChunk(w) = FirstChunk(q) /\ LastChunk(w, w.rows) = LastChunk(q, n.rows) /\ InFile(w, o)
      BY <1>1, <3>1 DEF FirstChunk, LastChunk, InFile
    <3>3. FirstChunk(w) \in 1..(LastChunk(w, w.rows) + 1) /\ LastChunk(w, w.rows) \in Nat
      BY <1>1, <2>1, <2>3, <2>4c, <3>1, <3>2, NothingGiven
    <3> QED BY <3>2, <3>3
  <2>6. /\ r \in TaskSet /\ r.pc = "chunk" /\ r.file = f /\ r.mode = q.mode /\ r.lo = q.lo /\ r.hi = q.hi
        /\ r.rows = n.rows /\ r.size = n.size /\ r.key = n.key.key /\ r.i = FirstChunk(q)
        /\ r.last = LastChunk(q, n.rows) /\ r.out = <<>>
    BY <1>0, <1>1, <2>3, <2>4, <2>5 DEF Opened, TaskSet
  <2> HIDE DEF r
  <2>7. FirstChunk(r) = FirstChunk(q) /\ LastChunk(r, r.rows) = LastChunk(q, n.rows) /\ InFile(r, o)
    BY <1>1, <2>6 DEF FirstChunk, LastChunk, InFile
  <2>8. Given(r, o, FirstChunk(r)) = <<>>
    BY <1>1, <2>1, <2>3, <2>4c, <2>6, <2>7, NothingGiven
  <2>9. Reading(r, o)
    <3>1. r.mode \in {"save", "view", "stream"}
      BY <1>0, <1>1, <2>6 DEF Modes
    <3> QED BY <2>4c, <2>5, <2>6, <2>7, <2>8, <3>1, Zenon DEF Reading
  <2>10. TaskOK(r)
    BY <1>1, <2>3, <2>6, <2>7, <2>9 DEF TaskOK, Fits
  <2>11. temp' \subseteq Tasks /\ Set(t, r)
    BY <1>0, <1>4 DEF r
  <2> QED BY <1>0, <1>2, <2>6, <2>10, <2>11, TaskStep
<1> QED BY <1>3, <1>4 DEF Validate

LEMMA ResolveByte ==
    ASSUME ByteInv, NEW t \in Tasks, Resolve(t)
    PROVE  ByteInv'
<1> DEFINE q == task[t]
           b == q.rows[q.i].blob
           pa == IF b \in at.pending THEN "pending" ELSE IF b \in at.cache THEN "cache" ELSE "flat"
           r == [q EXCEPT !.pc = "read", !.path = pa]
<1>0. /\ q \in TaskSet /\ TaskOK(q) /\ q.pc = "chunk" /\ q.i <= q.last
      /\ temp \subseteq Tasks /\ dest \in FileSet /\ at \in PlaceSet
  BY TaskFacts DEF Resolve
<1>1. Set(t, r)
  BY DEF Resolve
<1>2. pa \in {"none", "pending", "cache", "flat"}
  OBVIOUS
<1> HIDE DEF pa
<1>3. /\ r \in TaskSet /\ r.pc = "read" /\ r.file = q.file /\ r.mode = q.mode /\ r.lo = q.lo /\ r.hi = q.hi
      /\ r.rows = q.rows /\ r.size = q.size /\ r.key = q.key /\ r.i = q.i
      /\ r.last = q.last /\ r.out = q.out
  BY <1>0, <1>2 DEF TaskSet
<1> HIDE DEF r
<1> DEFINE o == orig[q.file]
<1>4. Leads(q.file, o, sealed, q.rows, q.size, q.key) /\ Reading(q, o)
  BY <1>0 DEF TaskOK, Fits
<1>5. Reading(r, o)
  BY <1>3, <1>4 DEF Reading, Given, FromOf, EndOf, LastChunk
<1>6. TaskOK(r)
  BY <1>0, <1>3, <1>4, <1>5, SameAsked DEF TaskOK, Fits
<1> QED BY <1>0, <1>1, <1>3, <1>6, TaskStep DEF Resolve

LEMMA ReadChunkByte ==
    ASSUME ByteInv, NEW t \in Tasks, ReadChunk(t)
    PROVE  ByteInv'
<1> DEFINE q == task[t]
           o == orig[q.file]
           s == Wanted(q, sealed[q.rows[q.i].blob].plain)
           r == [q EXCEPT !.pc = "chunk", !.i = @ + 1, !.path = "none", !.out = @ \o s]
<1>0. /\ q \in TaskSet /\ TaskOK(q) /\ q.pc = "read"
      /\ temp \subseteq Tasks /\ dest \in FileSet /\ at \in PlaceSet
  BY TaskFacts DEF ReadChunk
<1>1. UNCHANGED <<upload, nodes, entries, left, sealed, at, dest, had, orig>>
  BY DEF ReadChunk
<1>2. \/ Set(t, r) /\ temp' = IF q.mode = "save" THEN temp \cup {t} ELSE temp
      \/ Fail(t, FALSE)
  BY DEF ReadChunk
<1>3. CASE Fail(t, FALSE)
  BY <1>0, <1>1, <1>3, FailStep
<1>4. CASE Set(t, r) /\ temp' = IF q.mode = "save" THEN temp \cup {t} ELSE temp
  <2>1. /\ q.file \in Files /\ Ended(q.file) /\ InFile(q, o) /\ q.mode \in Modes
        /\ Leads(q.file, o, sealed, q.rows, q.size, q.key) /\ Reading(q, o) /\ q.i <= q.last
    BY <1>0 DEF TaskOK, Fits
  <2>2. o \in Texts /\ q.i \in Nat /\ q.last \in Nat
    BY <1>0, <2>1 DEF ByteInv, TransferTypes, TaskSet
  <2>3. q.out \o s = Given(q, o, q.i + 1)
    BY <1>0, <2>1, <2>2, ReadNext
  <2>4. q.i + 1 \in 1..(q.last + 1) /\ q.i + 1 \in Nat \ {0}
    BY <2>1, <2>2
  <2>5. Given(q, o, q.i + 1) \in Texts
    BY <1>0, <2>1, <2>2, <2>4, GivenIs
  <2> HIDE DEF s
  <2> DEFINE w == q.out \o s
  <2>6. w \in Texts /\ r = [q EXCEPT !.pc = "chunk", !.i = @ + 1, !.path = "none", !.out = w]
    BY <2>3, <2>5
  <2> HIDE DEF w, r
  <2>7. /\ r \in TaskSet /\ r.pc = "chunk" /\ r.file = q.file /\ r.mode = q.mode /\ r.lo = q.lo /\ r.hi = q.hi
        /\ r.rows = q.rows /\ r.size = q.size /\ r.key = q.key /\ r.i = q.i + 1
        /\ r.last = q.last /\ r.out = w
    BY <1>0, <2>2, <2>4, <2>6 DEF TaskSet
  <2>8. Given(r, o, r.i) = Given(q, o, q.i + 1)
    BY <2>7 DEF Given, FromOf, EndOf
  <2>9. r.out = Given(r, o, r.i)
    BY <2>3, <2>7, <2>8 DEF w
  <2>10. Reading(r, o)
    BY <2>1, <2>4, <2>7, <2>9 DEF Reading, LastChunk
  <2>11. TaskOK(r)
    BY <1>0, <2>1, <2>7, <2>10, SameAsked DEF TaskOK, Fits
  <2>12. temp' \subseteq Tasks
    BY <1>0, <1>4
  <2> QED BY <1>0, <1>1, <1>4, <2>7, <2>11, <2>12, TaskStep
<1> QED BY <1>2, <1>3, <1>4

LEMMA WriteFailByte ==
    ASSUME ByteInv, NEW t \in Tasks, WriteFail(t)
    PROVE  ByteInv'
<1>0. /\ task[t].pc = "chunk" /\ temp \subseteq Tasks /\ dest \in FileSet /\ at \in PlaceSet
  BY TaskFacts DEF WriteFail
<1>1. UNCHANGED <<upload, nodes, entries, left, sealed, at, dest, had, orig>>
  BY DEF WriteFail
<1>2. \/ Set(t, [task[t] EXCEPT !.pc = "failed", !.excuse = TRUE]) /\ UNCHANGED temp
      \/ Fail(t, TRUE)
  BY DEF WriteFail
<1>3. CASE Fail(t, TRUE)
  BY <1>0, <1>1, <1>3, FailStep
<1>4. CASE Set(t, [task[t] EXCEPT !.pc = "failed", !.excuse = TRUE]) /\ UNCHANGED temp
  BY <1>0, <1>1, <1>4, ToFail
<1> QED BY <1>2, <1>3, <1>4

LEMMA FinishByte ==
    ASSUME ByteInv, NEW t \in Tasks, Finish(t)
    PROVE  ByteInv'
<1> DEFINE q == task[t]
           o == orig[q.file]
           p == IF q.mode # "save" THEN "done" ELSE IF dest.there THEN "backup" ELSE "rename"
           r == [q EXCEPT !.pc = p]
<1>0. /\ q \in TaskSet /\ TaskOK(q) /\ q.pc = "chunk" /\ q.i > q.last
      /\ temp \subseteq Tasks /\ dest \in FileSet /\ at \in PlaceSet
  BY TaskFacts DEF Finish
<1>1. Set(t, r)
  BY DEF Finish
<1>2. p \in {"done", "backup", "rename"} /\ (p # "done" => q.mode = "save")
  OBVIOUS
<1> HIDE DEF p
<1>3. /\ r \in TaskSet /\ r.pc = p /\ r.file = q.file /\ r.mode = q.mode /\ r.lo = q.lo /\ r.hi = q.hi
      /\ r.out = q.out
  BY <1>0, <1>2 DEF TaskSet
<1> HIDE DEF r
<1>4. /\ q.file \in Files /\ InFile(q, o) /\ Leads(q.file, o, sealed, q.rows, q.size, q.key) /\ Reading(q, o)
  BY <1>0 DEF TaskOK, Fits
<1>5. o \in Texts
  BY <1>4 DEF ByteInv, TransferTypes
<1>6. q.out = Full(q, o)
  BY <1>0, <1>4, <1>5, AllGiven
<1>7. r.out = Full(r, orig[r.file]) /\ (r.mode = "save" => r.out = orig[r.file])
  BY <1>3, <1>6 DEF Full
<1>8. TaskOK(r)
  BY <1>0, <1>2, <1>3, <1>7, SameAsked DEF TaskOK, Fits
<1> QED BY <1>0, <1>1, <1>3, <1>8, TaskStep DEF Finish

LEMMA BackupByte ==
    ASSUME ByteInv, NEW t \in Tasks, Backup(t)
    PROVE  ByteInv'
<1> DEFINE q == task[t]
           r == [q EXCEPT !.pc = "rename", !.bak = dest]
<1>0. /\ q \in TaskSet /\ TaskOK(q) /\ q.pc = "backup"
      /\ temp \subseteq Tasks /\ dest \in FileSet /\ at \in PlaceSet
  BY TaskFacts DEF Backup
<1>1. UNCHANGED <<upload, nodes, entries, left, sealed, at, had, orig>>
  BY DEF Backup
<1>2. \/ Set(t, r) /\ dest' = NoFile /\ UNCHANGED temp
      \/ Fail(t, TRUE) /\ UNCHANGED dest
  BY DEF Backup
<1>3. CASE Fail(t, TRUE) /\ UNCHANGED dest
  BY <1>0, <1>1, <1>3, FailStep
<1>4. CASE Set(t, r) /\ dest' = NoFile /\ UNCHANGED temp
  <2>1. NoFile \in FileSet
    BY TextFacts, Zenon DEF NoFile, FileSet
  <2>2. /\ r \in TaskSet /\ r.pc = "rename" /\ r.file = q.file /\ r.mode = q.mode /\ r.lo = q.lo /\ r.hi = q.hi
        /\ r.out = q.out
    BY <1>0 DEF TaskSet
  <2> HIDE DEF r
  <2>3. TaskOK(r)
    BY <1>0, <2>2, SameAsked DEF TaskOK, Fits
  <2> QED BY <1>0, <1>1, <1>4, <2>1, <2>2, <2>3, TaskStep
<1> QED BY <1>2, <1>3, <1>4

LEMMA RenameByte ==
    ASSUME ByteInv, NEW t \in Tasks, Rename(t)
    PROVE  ByteInv'
<1> DEFINE q == task[t]
           p == IF q.bak.there THEN "unlink" ELSE "done"
           r == [q EXCEPT !.pc = p]
           k == IF dest' = q.bak THEN NoFile ELSE q.bak
           w == [q EXCEPT !.pc = "failed", !.excuse = TRUE, !.bak = k]
<1>0. /\ q \in TaskSet /\ TaskOK(q) /\ q.pc = "rename"
      /\ temp \subseteq Tasks /\ dest \in FileSet /\ at \in PlaceSet
  BY TaskFacts DEF Rename
<1>0a. NoFile \in FileSet /\ q.bak \in FileSet /\ q.out \in Texts
  <2>1. NoFile \in FileSet
    BY TextFacts, Zenon DEF NoFile, FileSet
  <2> QED BY <1>0, <2>1 DEF TaskSet
<1>1. UNCHANGED <<upload, nodes, entries, left, sealed, at, had, orig>>
  BY DEF Rename
<1>2. \/ dest' = [there |-> TRUE, data |-> q.out] /\ Set(t, r) /\ temp' = temp \ {t}
      \/ dest' = Restored(t) /\ Set(t, w) /\ temp' = temp \ {t}
  BY DEF Rename
<1>2a. q.out = orig[q.file] /\ q.mode = "save"
  BY <1>0 DEF TaskOK, Fits
<1>3. CASE dest' = [there |-> TRUE, data |-> q.out] /\ Set(t, r) /\ temp' = temp \ {t}
  <2>1. dest' \in FileSet
    BY <1>0a, <1>3 DEF FileSet
  <2>2. p \in {"unlink", "done"}
    OBVIOUS
  <2> HIDE DEF p
  <2>3. /\ r \in TaskSet /\ r.pc = p /\ r.file = q.file /\ r.mode = q.mode /\ r.lo = q.lo /\ r.hi = q.hi
        /\ r.out = q.out
    BY <1>0, <2>2 DEF TaskSet
  <2> HIDE DEF r
  <2>4. TaskOK(r)
    BY <1>0, <1>2a, <2>2, <2>3, SameAsked DEF TaskOK, Fits, Full
  <2> QED BY <1>0, <1>1, <1>3, <2>1, <2>3, <2>4, TaskStep
<1>4. CASE dest' = Restored(t) /\ Set(t, w) /\ temp' = temp \ {t}
  <2>1. dest' \in FileSet /\ k \in FileSet
    BY <1>0, <1>0a, <1>4, Zenon DEF Restored
  <2> HIDE DEF k
  <2>3. /\ w \in TaskSet /\ w.pc = "failed" /\ w.file = q.file /\ w.mode = q.mode /\ w.lo = q.lo /\ w.hi = q.hi
        /\ w.out = q.out
    BY <1>0, <2>1 DEF TaskSet
  <2> HIDE DEF w
  <2>4. TaskOK(w)
    BY <1>0, <2>3, SameAsked DEF TaskOK, Fits
  <2> QED BY <1>0, <1>1, <1>4, <2>1, <2>3, <2>4, TaskStep
<1> QED BY <1>2, <1>3, <1>4

LEMMA UnlinkByte ==
    ASSUME ByteInv, NEW t \in Tasks, Unlink(t)
    PROVE  ByteInv'
<1> DEFINE q == task[t]
           r == [q EXCEPT !.pc = "done", !.bak = NoFile]
<1>0. /\ q \in TaskSet /\ TaskOK(q) /\ q.pc = "unlink"
      /\ temp \subseteq Tasks /\ dest \in FileSet /\ at \in PlaceSet
  BY TaskFacts DEF Unlink
<1>1. UNCHANGED <<upload, nodes, entries, left, sealed, at, temp, dest, had, orig>>
  BY DEF Unlink
<1>2. Set(t, r) \/ Set(t, [q EXCEPT !.pc = "failed", !.excuse = TRUE])
  BY DEF Unlink
<1>3. CASE Set(t, [q EXCEPT !.pc = "failed", !.excuse = TRUE])
  BY <1>0, <1>1, <1>3, ToFail
<1>4. CASE Set(t, r)
  <2>1. NoFile \in FileSet
    BY TextFacts, Zenon DEF NoFile, FileSet
  <2>2. /\ r \in TaskSet /\ r.pc = "done" /\ r.file = q.file /\ r.mode = q.mode /\ r.lo = q.lo /\ r.hi = q.hi
        /\ r.out = q.out
    BY <1>0, <2>1 DEF TaskSet
  <2> HIDE DEF r
  <2>3. q.out = orig[q.file] /\ q.mode = "save"
    BY <1>0 DEF TaskOK, Fits
  <2>4. TaskOK(r)
    BY <1>0, <2>2, <2>3, SameAsked DEF TaskOK, Fits, Full
  <2> QED BY <1>0, <1>1, <1>4, <2>2, <2>4, TaskStep
<1> QED BY <1>2, <1>3, <1>4

(* Steps that leave nodes, blobs and sources alone.                         *)
LEMMA QuietStep ==
    ASSUME ByteInv, UNCHANGED <<nodes, sealed, orig>>, TransferTypes',
           \A f \in Files : Ended(f)' <=> Ended(f),
           entries' = entries, left' \in {left, entries, <<>>},
           \A t \in Tasks : task'[t] = task[t] \/ task'[t].pc = "idle"
    PROVE  ByteInv'
<1>1. \A f \in Files : NodeOK(f)'
  BY DEF ByteInv, NodeOK
<1>2. ASSUME NEW b \in DOMAIN sealed' PROVE NameOK(b)'
  BY DEF ByteInv, NameOK
<1>3. EntriesOK(<<>>)
  <2>1. Len(<<>>) = 0
    BY EmptySeq
  <2> QED BY <2>1 DEF EntriesOK
<1>4. EntriesOK(entries)' /\ EntriesOK(left)'
  BY <1>3 DEF ByteInv, EntriesOK
<1>5. ASSUME NEW t \in Tasks PROVE TaskOK(task[t])'
  <2>1. CASE task'[t].pc = "idle"
    BY <2>1 DEF TaskOK
  <2>2. CASE task'[t] = task[t]
    <3>1. TaskOK(task[t])
      BY DEF ByteInv
    <3> QED BY <2>2, <3>1 DEF TaskOK
  <2> QED BY <2>1, <2>2
<1> QED BY <1>1, <1>2, <1>4, <1>5 DEF ByteInv

(* The steps that are not of a task.                                        *)
LEMMA UploadStatByte ==
    ASSUME ByteInv, NEW f \in Files, UploadStat(f)
    PROVE  ByteInv'
<1>1. UNCHANGED <<nodes, entries, left, sealed, at, task, temp, dest, had, orig>>
  BY DEF UploadStat
<1>2. PICK n \in Sizes, p \in BOOLEAN :
         upload' = [upload EXCEPT ![f] = [pc |-> "stat", size |-> n, picture |-> p]]
  BY DEF UploadStat
<1>3. n \in Nat /\ upload \in [Files -> UploadSet] /\ upload[f].pc = "none"
  BY TransferConstants DEF ByteInv, TransferTypes, UploadStat
<1>4. upload' \in [Files -> UploadSet]
  BY <1>2, <1>3 DEF UploadSet
<1>5. \A g \in Files : Ended(g)' <=> Ended(g)
  BY <1>2, <1>3 DEF Ended
<1>6. TransferTypes'
  BY <1>1, <1>4 DEF ByteInv, TransferTypes
<1> QED BY <1>1, <1>5, <1>6, QuietStep

LEMMA FlushBeginByte == ByteInv /\ FlushBegin => ByteInv'
<1> SUFFICES ASSUME ByteInv, FlushBegin PROVE ByteInv'
  OBVIOUS
<1>0. at' \in PlaceSet
  <2>1. PICK dir \in {"pending", "root"} : at' = [at EXCEPT !.into = dir]
    BY DEF FlushBegin
  <2> QED BY <2>1 DEF ByteInv, TransferTypes, PlaceSet
<1>1. TransferTypes'
  BY <1>0 DEF ByteInv, TransferTypes, FlushBegin
<1>2. \A g \in Files : Ended(g)' <=> Ended(g)
  BY DEF Ended, FlushBegin
<1> QED BY <1>1, <1>2, QuietStep DEF FlushBegin

LEMMA FlushStopsByte == ByteInv /\ FlushStops => ByteInv'
<1> SUFFICES ASSUME ByteInv, FlushStops PROVE ByteInv'
  OBVIOUS
<1>0. <<>> \in Seq(Entries)
  BY EmptySeq
<1>1. TransferTypes'
  BY <1>0 DEF ByteInv, TransferTypes, FlushStops
<1>2. \A g \in Files : Ended(g)' <=> Ended(g)
  BY DEF Ended, FlushStops
<1> QED BY <1>1, <1>2, QuietStep DEF FlushStops

LEMMA IdleIs == Idle \in TaskSet /\ Idle.pc = "idle"
<1>1. <<>> \in Texts /\ <<>> \in Seq(RowSet)
  BY TextFacts, EmptySeq
<1>2. NoFile \in FileSet
  BY <1>1, Zenon DEF NoFile, FileSet
<1> QED BY <1>1, <1>2, 0 \in Nat, 1 \in Nat DEF Idle, TaskSet, Keys

LEMMA ExitByte == ByteInv /\ Exit => ByteInv'
<1> SUFFICES ASSUME ByteInv, Exit PROVE ByteInv'
  OBVIOUS
<1>0. <<>> \in Seq(Entries) /\ task' \in [Tasks -> TaskSet] /\ \A t \in Tasks : task'[t].pc = "idle"
  BY EmptySeq, IdleIs DEF Exit
<1>a. at' \in PlaceSet
  <2>1. at' = [at EXCEPT !.pending = @ \cup at.root, !.root = {}] /\ at \in PlaceSet
    BY DEF Exit, ByteInv, TransferTypes
  <2> QED BY <2>1 DEF PlaceSet
<1>1. TransferTypes'
  BY <1>0, <1>a DEF ByteInv, TransferTypes, Exit
<1>2. \A g \in Files : Ended(g)' <=> Ended(g)
  BY DEF Ended, Exit
<1> QED BY <1>0, <1>1, <1>2, QuietStep DEF Exit

LEMMA PlaceByte ==
    ASSUME ByteInv, NEW b \in DOMAIN sealed, Push(b) \/ Rot(b)
    PROVE  ByteInv'
<1>1. b \in Names /\ at \in PlaceSet
  BY DEF ByteInv, TransferTypes
<1>2. at' \in PlaceSet
  <2>1. CASE Push(b)
    <3>1. at' = [at EXCEPT !.pending = @ \ {b}, !.cloud = @ \cup {b}]
      BY <2>1 DEF Push
    <3> QED BY <1>1, <3>1 DEF PlaceSet
  <2>2. CASE Rot(b)
    <3>1. at' = [at EXCEPT !.rotten = {b}]
      BY <2>2 DEF Rot
    <3> QED BY <1>1, <3>1 DEF PlaceSet
  <2> QED BY <2>1, <2>2
<1>3. UNCHANGED <<upload, nodes, entries, left, sealed, task, temp, dest, had, orig>>
  BY DEF Push, Rot
<1>4. TransferTypes'
  BY <1>2, <1>3 DEF ByteInv, TransferTypes
<1>5. \A g \in Files : Ended(g)' <=> Ended(g)
  BY <1>3 DEF Ended
<1> QED BY <1>3, <1>4, <1>5, QuietStep

-----------------------------------------------------------------------------
(* What is read of a source, pictures stripped, is a text.                  *)
LEMMA SourceIs ==
    ASSUME NEW f \in Files, NEW n \in Nat
    PROVE  Source(f, n) \in Texts /\ Len(Source(f, n)) = n /\ StripExif(Source(f, n)) \in Texts
<1>1. \A k \in 1..n : <<f, k>> \in Bytes
  BY DEF Bytes
<1>2. Source(f, n) \in Texts /\ Len(Source(f, n)) = n
  BY <1>1 DEF Source, Texts
<1> DEFINE s == Source(f, n)
<1> HIDE DEF s
<1>3. s \in Texts /\ Len(s) \in Nat
  BY <1>2 DEF s
<1>4. CASE Len(s) < 2
  BY <1>2, <1>3, <1>4 DEF StripExif, s
<1>5. CASE Len(s) >= 2
  <2>1. SubSeq(s, 0 + 1, 1) \in Texts /\ SubSeq(s, 2 + 1, Len(s)) \in Texts
    BY <1>3, <1>5, PartIs
  <2>2. SubSeq(s, 1, 1) \o SubSeq(s, 3, Len(s)) \in Texts
    BY <2>1, TextFacts
  <2>3. StripExif(s) \in Texts
    BY <1>3, <1>5, <2>2 DEF StripExif
  <2> QED BY <1>2, <2>3 DEF s
<1> QED BY <1>3, <1>4, <1>5

LEMMA PiecesLength ==
    ASSUME NEW s \in Texts
    PROVE  Len(Pieces(s)) = NumChunks(Len(s))
<1>1. NumChunks(Len(s)) \in Nat
  BY TextFacts, ChunkCount
<1> QED BY <1>1 DEF Pieces

(* A file not uploaded yet has no blob, no entry, and no task.              *)
LEMMA FreshFile ==
    ASSUME ByteInv, NEW f \in Files, ~Ended(f)
    PROVE  /\ nodes[f].st = "none"
           /\ \A b \in DOMAIN sealed : b[1] # f /\ (b[1] = "epoch" => b[2] # f)
           /\ \A j \in 1..Len(entries) : entries[j].file # f
           /\ \A j \in 1..Len(left) : left[j].file # f
<1>1. NodeOK(f) /\ (\A b \in DOMAIN sealed : NameOK(b)) /\ EntriesOK(entries) /\ EntriesOK(left)
  BY DEF ByteInv
<1>2. nodes[f].st = "none"
  BY <1>1 DEF NodeOK
<1>3. ASSUME NEW b \in DOMAIN sealed PROVE b[1] # f /\ (b[1] = "epoch" => b[2] # f)
  BY <1>1, <1>2, TransferConstants DEF NameOK
<1>4. (\A j \in 1..Len(entries) : entries[j].file # f) /\ (\A j \in 1..Len(left) : left[j].file # f)
  BY <1>1, <1>2 DEF EntriesOK
<1> QED BY <1>2, <1>3, <1>4

LEMMA AppendIs ==
    ASSUME NEW es \in Seq(Entries), NEW e \in Entries, NEW c, c = Append(es, e)
    PROVE  /\ c \in Seq(Entries) /\ Len(es) \in Nat /\ Len(c) = Len(es) + 1
           /\ \A j \in 1..Len(es) : c[j] = es[j]
           /\ c[Len(es) + 1] = e
BY AppendProperties, LenProperties

(* What upload_file stores when the source does not change meanwhile.       *)
Stores(f, s) ==
    /\ orig' = [orig EXCEPT ![f] = s]
    /\ IF ToEpoch(Len(s))
       THEN /\ nodes' = [nodes EXCEPT ![f] = [NoNode EXCEPT !.st = "buffered",
                           !.size = Len(s), !.key = Wrap(Zero, f)]]
            /\ entries' = Append(entries, [file |-> f, plain |-> s])
            /\ UNCHANGED <<sealed, at>>
       ELSE LET names == {<<f, i>> : i \in 1..NumChunks(Len(s))} IN
            /\ sealed' = [b \in DOMAIN sealed \cup names |->
                  IF b \in names THEN Seal(f, f, b[2] - 1, Pieces(s)[b[2]]) ELSE sealed[b]]
            /\ at' = [at EXCEPT !.pending = @ \cup names]
            /\ nodes' = [nodes EXCEPT ![f] =
                  [st |-> "ready", size |-> Len(s), key |-> Wrap(f, f),
                   rows |-> [i \in 1..NumChunks(Len(s)) |-> Row(<<f, i>>, i - 1)]]]
            /\ UNCHANGED entries

(* The same, of any source and any size.                                    *)
StoresAs(f, s, size) ==
    /\ orig' = [orig EXCEPT ![f] = s]
    /\ IF ToEpoch(size)
       THEN /\ "stage_in_flush" \notin Perils => left = <<>>
            /\ nodes' = [nodes EXCEPT ![f] = [NoNode EXCEPT !.st = "buffered",
                           !.size = Len(s), !.key = Wrap(Zero, f)]]
            /\ entries' = Append(entries, [file |-> f, plain |-> s])
            /\ UNCHANGED <<sealed, at>>
       ELSE LET names == {<<f, i>> : i \in 1..Len(Pieces(s))} IN
            /\ sealed' = [b \in DOMAIN sealed \cup names |->
                  IF b \in names THEN Seal(f, f, b[2] - 1, Pieces(s)[b[2]]) ELSE sealed[b]]
            /\ at' = [at EXCEPT !.pending = @ \cup names]
            /\ nodes' = [nodes EXCEPT ![f] =
                  [st |-> "ready", size |-> size, key |-> Wrap(f, f),
                   rows |-> [i \in 1..Len(Pieces(s)) |-> Row(<<f, i>>, i - 1)]]]
            /\ UNCHANGED entries

(* UploadStore does one or the other.                                       *)
LEMMA StoreIs ==
    ASSUME ByteInv, "changing" \notin Perils, NEW f \in Files, UploadStore(f)
    PROVE  /\ upload[f].pc = "stat" /\ upload' = [upload EXCEPT ![f].pc = "ended"]
           /\ UNCHANGED <<left, task, temp, dest, had>>
           /\ "stage_in_flush" \notin Perils /\ entries' # entries => left = <<>>
           /\ \E s \in Texts : Stores(f, s)
<1>1. PICK n \in (IF "changing" \in Perils THEN Sizes ELSE {upload[f].size}) :
         StoresAs(f, IF upload[f].picture THEN StripExif(Source(f, n)) ELSE Source(f, n),
                  IF upload[f].picture
                  THEN Len(IF upload[f].picture THEN StripExif(Source(f, n)) ELSE Source(f, n))
                  ELSE upload[f].size)
  BY Zenon DEF UploadStore, StoresAs
<1> DEFINE s == IF upload[f].picture THEN StripExif(Source(f, n)) ELSE Source(f, n)
<1>2. n = upload[f].size /\ n \in Nat
  BY <1>1 DEF ByteInv, TransferTypes, UploadSet
<1>3. s \in Texts /\ (IF upload[f].picture THEN Len(s) ELSE upload[f].size) = Len(s)
  BY <1>2, SourceIs
<1>4. StoresAs(f, s, Len(s))
  BY <1>1, <1>3
<1> HIDE DEF s
<1>5. Len(Pieces(s)) = NumChunks(Len(s))
  BY <1>3, PiecesLength
<1>6. Stores(f, s)
  BY <1>4, <1>5, Zenon DEF StoresAs, Stores
<1>7. "stage_in_flush" \notin Perils /\ entries' # entries => left = <<>>
  BY <1>4, Zenon DEF StoresAs
<1> QED BY <1>3, <1>6, <1>7, Zenon DEF UploadStore

Adds(f, s) ==
    /\ nodes' \in [Files -> NodeSet] /\ \A g \in Files : g # f => nodes'[g] = nodes[g]
    /\ nodes'[f].st # "none" /\ NodeFits(f, nodes'[f], s, sealed')
    /\ DOMAIN sealed' \subseteq Names /\ Extends(sealed, sealed')
    /\ \A b \in DOMAIN sealed' : b \in DOMAIN sealed \/ b[1] = f
    /\ at' \in PlaceSet
    /\ entries' \in Seq(Entries) /\ EntriesOK(entries)'

(* Storing a file makes rows that lead to its text.                         *)
LEMMA UploadStoreByte ==
    ASSUME ByteInv, "changing" \notin Perils, NEW f \in Files, UploadStore(f)
    PROVE  ByteInv'
<1>1. /\ upload[f].pc = "stat" /\ upload' = [upload EXCEPT ![f].pc = "ended"]
      /\ UNCHANGED <<left, task, temp, dest, had>>
  BY StoreIs
<1>2. PICK s \in Texts : Stores(f, s)
  BY StoreIs
<1>3. TransferTypes /\ ~Ended(f)
  BY <1>1 DEF ByteInv, Ended
<1>4. upload' \in [Files -> UploadSet] /\ \A g \in Files : Ended(g)' <=> Ended(g) \/ g = f
  BY <1>1, <1>3 DEF TransferTypes, UploadSet, Ended
<1>5. /\ orig' \in [Files -> Texts] /\ orig'[f] = s
      /\ \A g \in Files : g # f => orig'[g] = orig[g]
  BY <1>2, <1>3 DEF Stores, TransferTypes
<1>6. \A g \in Files : Ended(g) => Ended(g)' /\ orig'[g] = orig[g]
  BY <1>3, <1>4, <1>5
<1>7. /\ nodes[f].st = "none"
      /\ \A b \in DOMAIN sealed : b[1] # f /\ (b[1] = "epoch" => b[2] # f)
      /\ \A j \in 1..Len(entries) : entries[j].file # f
      /\ \A j \in 1..Len(left) : left[j].file # f
  BY <1>3, FreshFile
<1>8. ASSUME Adds(f, s) PROVE ByteInv'
  <2>0. /\ nodes' \in [Files -> NodeSet] /\ \A g \in Files : g # f => nodes'[g] = nodes[g]
        /\ nodes'[f].st # "none" /\ NodeFits(f, nodes'[f], s, sealed')
        /\ DOMAIN sealed' \subseteq Names /\ Extends(sealed, sealed')
        /\ \A b \in DOMAIN sealed' : b \in DOMAIN sealed \/ b[1] = f
        /\ at' \in PlaceSet
        /\ entries' \in Seq(Entries) /\ EntriesOK(entries)'
    BY <1>8 DEF Adds
  <2>1. TransferTypes'
    BY <1>1, <1>3, <1>4, <1>5, <2>0 DEF TransferTypes
  <2>2. ASSUME NEW g \in Files PROVE NodeOK(g)'
    <3>1. CASE g = f
      BY <1>4, <1>5, <2>0, <3>1 DEF NodeOK
    <3>2. CASE g # f
      <4>1. NodeOK(g) /\ nodes'[g] = nodes[g] /\ orig'[g] = orig[g]
        BY <1>5, <2>0, <3>2 DEF ByteInv
      <4>2. NodeFits(g, nodes[g], orig[g], sealed')
        BY <2>0, <4>1, NodeFitsStill DEF NodeOK
      <4> QED BY <1>4, <3>2, <4>1, <4>2 DEF NodeOK
    <3> QED BY <3>1, <3>2
  <2>3. ASSUME NEW b \in DOMAIN sealed' PROVE NameOK(b)'
    <3>1. CASE b[1] = f
      BY <1>4, <3>1 DEF NameOK
    <3>2. CASE b \in DOMAIN sealed
      <4>1. NameOK(b) /\ (b[1] = "epoch" => b[2] # f)
        BY <1>7, <3>2 DEF ByteInv
      <4> QED BY <1>6, <2>0, <4>1 DEF NameOK
    <3> QED BY <2>0, <3>1, <3>2
  <2>4. EntriesOK(left)'
    <3>1. \A j \in 1..Len(left) : left[j].file \in Files /\ left[j].file # f
      BY <1>3, <1>7, EntryFacts DEF TransferTypes
    <3>2. EntriesOK(left) /\ left' = left
      BY <1>1 DEF ByteInv
    <3> QED BY <1>5, <2>0, <3>1, <3>2 DEF EntriesOK
  <2>5. ASSUME NEW t \in Tasks PROVE TaskOK(task[t])'
    <3>1. TaskOK(task[t])
      BY DEF ByteInv
    <3>2. PICK q : q = task[t]
      OBVIOUS
    <3>3. task'[t] = q /\ TaskOK(q)
      BY <1>1, <3>1, <3>2
    <3>4. q.pc # "idle" => q.file \in Files /\ Ended(q.file)' /\ Fits(q, orig'[q.file], sealed')
      <4> SUFFICES ASSUME q.pc # "idle" PROVE q.file \in Files /\ Ended(q.file)' /\ Fits(q, orig'[q.file], sealed')
        OBVIOUS
      <4>1. q.file \in Files /\ Ended(q.file) /\ Fits(q, orig[q.file], sealed)
        BY <3>3 DEF TaskOK
      <4>2. Fits(q, orig[q.file], sealed')
        BY <2>0, <4>1, FitsStill
      <4> QED BY <1>6, <4>1, <4>2
    <3> QED BY <3>3, <3>4 DEF TaskOK
  <2> QED BY <2>0, <2>1, <2>2, <2>3, <2>4, <2>5 DEF ByteInv
<1>9. nodes \in [Files -> NodeSet] /\ entries \in Seq(Entries) /\ at \in PlaceSet /\ DOMAIN sealed \subseteq Names
  BY <1>3 DEF TransferTypes
<1>10. Len(s) \in Nat
  BY TextFacts
<1>11. CASE ToEpoch(Len(s))
  <2> DEFINE n == [NoNode EXCEPT !.st = "buffered", !.size = Len(s), !.key = Wrap(Zero, f)]
             e == [file |-> f, plain |-> s]
  <2>1. nodes' = [nodes EXCEPT ![f] = n] /\ entries' = Append(entries, e) /\ UNCHANGED <<sealed, at>>
    BY <1>2, <1>11 DEF Stores
  <2>2. n.st = "buffered" /\ n.rows = <<>> /\ n.size = Len(s) /\ n.key = Wrap(Zero, f)
    BY DEF NoNode
  <2>2a. n \in NodeSet
    <3>1. <<>> \in Seq(RowSet)
      BY EmptySeq
    <3> QED BY <1>10, <3>1 DEF NoNode, NodeSet, Wrap, Keys
  <2> HIDE DEF n
  <2>3. ~IsPacked(n.rows)
    BY <2>2 DEF IsPacked
  <2>4. NodeFits(f, n, s, sealed')
    BY <1>11, <2>2 DEF NodeFits
  <2>5. nodes' \in [Files -> NodeSet] /\ nodes'[f] = n /\ \A g \in Files : g # f => nodes'[g] = nodes[g]
    BY <1>9, <2>1, <2>2a
  <2>6. Extends(sealed, sealed')
    BY <2>1 DEF Extends
  <2>7. e \in Entries /\ e.file = f /\ e.plain = s
    BY DEF Entries
  <2> HIDE DEF e
  <2>8. /\ entries' \in Seq(Entries) /\ Len(entries) \in Nat /\ Len(entries') = Len(entries) + 1
        /\ \A j \in 1..Len(entries) : entries'[j] = entries[j]
        /\ entries'[Len(entries) + 1] = e
    BY <1>9, <2>1, <2>7, AppendIs
  <2>9. EntriesOK(entries)'
    <3> DEFINE m == Len(entries)
    <3>1. \A j \in 1..m : entries[j].file \in Files
      BY <1>9, EntryFacts
    <3>2. EntriesOK(entries)
      BY DEF ByteInv
    <3>3. \A j \in 1..Len(entries') : j \in 1..m \/ j = m + 1
      BY <2>8
    <3>4. ASSUME NEW j \in 1..Len(entries')
          PROVE  nodes'[entries'[j].file].st = "buffered" /\ entries'[j].plain = orig'[entries'[j].file]
      <4>1. CASE j = m + 1
        BY <1>5, <2>2, <2>5, <2>7, <2>8, <4>1
      <4>2. CASE j \in 1..m
        BY <1>5, <1>7, <2>5, <2>8, <3>1, <3>2, <4>2 DEF EntriesOK
      <4> QED BY <3>3, <4>1, <4>2
    <3>5. ASSUME NEW j \in 1..Len(entries'), NEW k \in 1..Len(entries'), entries'[j].file = entries'[k].file
          PROVE  j = k
      <4>1. CASE j \in 1..m /\ k \in 1..m
        BY <2>8, <3>2, <3>5, <4>1 DEF EntriesOK
      <4>2. CASE j = m + 1 /\ k \in 1..m
        BY <1>7, <2>7, <2>8, <3>5, <4>2
      <4>3. CASE j \in 1..m /\ k = m + 1
        BY <1>7, <2>7, <2>8, <3>5, <4>3
      <4> QED BY <3>3, <4>1, <4>2, <4>3
    <3> QED BY <3>4, <3>5 DEF EntriesOK
  <2>10. Adds(f, s)
    BY <1>9, <2>1, <2>2, <2>4, <2>5, <2>6, <2>8, <2>9 DEF Adds
  <2> QED BY <1>8, <2>10
<1>12. CASE ~ToEpoch(Len(s))
  <2> DEFINE N == NumChunks(Len(s))
             names == {<<f, i>> : i \in 1..N}
             rows == [i \in 1..N |-> Row(<<f, i>>, i - 1)]
             n == [st |-> "ready", size |-> Len(s), key |-> Wrap(f, f), rows |-> rows]
  <2>1. /\ sealed' = [b \in DOMAIN sealed \cup names |->
                  IF b \in names THEN Seal(f, f, b[2] - 1, Pieces(s)[b[2]]) ELSE sealed[b]]
        /\ at' = [at EXCEPT !.pending = @ \cup names]
        /\ nodes' = [nodes EXCEPT ![f] = n]
        /\ entries' = entries
    BY <1>2, <1>12, Zenon DEF Stores
  <2>2. N \in Nat
    BY <1>10, ChunkCount
  <2>3. names \subseteq Names /\ \A b \in names : b[1] = f
    BY <2>2 DEF Names
  <2>4. /\ DOMAIN sealed' \subseteq Names /\ Extends(sealed, sealed')
        /\ \A b \in DOMAIN sealed' : b \in DOMAIN sealed \/ b[1] = f
    <3>1. DOMAIN sealed' = DOMAIN sealed \cup names
      BY <2>1, Zenon
    <3>2. ASSUME NEW b \in DOMAIN sealed PROVE sealed'[b] = sealed[b]
      <4>1. b \notin names
        BY <1>7, <2>3
      <4> HIDE DEF names
      <4> QED BY <2>1, <4>1, Zenon
    <3> QED BY <1>9, <2>3, <3>1, <3>2 DEF Extends
  <2>5. ASSUME NEW i \in 1..N
        PROVE  <<f, i>> \in DOMAIN sealed' /\ sealed'[<<f, i>>] = Seal(f, f, i - 1, Pieces(s)[i])
    <3>1. <<f, i>> \in names
      OBVIOUS
    <3> HIDE DEF names
    <3> DEFINE b == <<f, i>>
    <3>2. b[2] = i /\ b \in names
      BY <3>1
    <3> HIDE DEF b
    <3>3. b \in DOMAIN sealed' /\ sealed'[b] = Seal(f, f, b[2] - 1, Pieces(s)[b[2]])
      BY <2>1, <3>2, Zenon
    <3> QED BY <3>2, <3>3 DEF b
  <2>6. Chunked(f, s, sealed', rows, f)
    BY <2>5, Zenon DEF Chunked
  <2>7. rows \in Seq(RowSet) /\ ~IsPacked(rows)
    BY <2>6, ChunkRows
  <2> HIDE DEF rows, N
  <2>8. n.st = "ready" /\ n.rows = rows /\ n.size = Len(s) /\ n.key.key = f /\ n \in NodeSet
    BY <1>10, <2>7 DEF NodeSet, Wrap, Keys
  <2> HIDE DEF n
  <2>9. NodeFits(f, n, s, sealed')
    BY <2>6, <2>7, <2>8 DEF NodeFits, Leads, Keys
  <2>10. nodes' \in [Files -> NodeSet] /\ nodes'[f] = n /\ \A g \in Files : g # f => nodes'[g] = nodes[g]
    BY <1>9, <2>1, <2>8
  <2>11. at' \in PlaceSet
    BY <1>9, <2>1, <2>3 DEF PlaceSet
  <2>12. EntriesOK(entries)'
    <3>1. \A j \in 1..Len(entries) : entries[j].file \in Files /\ entries[j].file # f
      BY <1>7, <1>9, EntryFacts
    <3>2. EntriesOK(entries) /\ entries' = entries
      BY <2>1 DEF ByteInv
    <3> QED BY <1>5, <2>10, <3>1, <3>2 DEF EntriesOK
  <2>13. Adds(f, s)
    BY <1>9, <2>1, <2>4, <2>8, <2>9, <2>10, <2>11, <2>12 DEF Adds
  <2> QED BY <1>8, <2>13
<1> QED BY <1>11, <1>12

(* The entries a flush has left, a batch less.                              *)
LEMMA RestIs ==
    ASSUME NEW es \in Seq(Entries), NEW k \in 1..Len(es), NEW c, c = SubSeq(es, k + 1, Len(es))
    PROVE  /\ c \in Seq(Entries) /\ Len(c) = Len(es) - k
           /\ \A j \in 1..Len(c) : k + j \in 1..Len(es) /\ c[j] = es[k + j]
<1>1. Len(es) \in Nat /\ \A i \in 1..Len(es) : es[i] \in Entries
  BY EntryFacts
<1>2. /\ SubSeq(es, k + 1, Len(es)) \in Seq(Entries)
      /\ Len(SubSeq(es, k + 1, Len(es))) = IF k + 1 <= Len(es) THEN Len(es) - (k + 1) + 1 ELSE 0
      /\ \A i \in 1..(Len(es) - (k + 1) + 1) : SubSeq(es, k + 1, Len(es))[i] = es[k + 1 + i - 1]
  BY <1>1, SubSeqProperties
<1>3. Len(c) = Len(es) - k /\ c \in Seq(Entries)
  BY <1>1, <1>2
<1>4. ASSUME NEW j \in 1..Len(c) PROVE k + j \in 1..Len(es) /\ c[j] = es[k + j]
  <2>1. j \in 1..(Len(es) - (k + 1) + 1) /\ k + 1 + j - 1 = k + j /\ k + j \in 1..Len(es)
    BY <1>1, <1>3
  <2>2. SubSeq(es, k + 1, Len(es))[j] = es[k + 1 + j - 1]
    BY <1>2, <2>1
  <2> QED BY <2>1, <2>2
<1> QED BY <1>3, <1>4

(* A batch of the first k entries left.                                     *)
Packs(k) ==
    LET b == <<"epoch", left[1].file>>
        fs == {left[j].file : j \in 1..k} IN
    /\ sealed' = [c \in DOMAIN sealed \cup {b} |->
                     IF c = b THEN Seal(b, b, 0, Pad(Packed(left)[k])) ELSE sealed[c]]
    /\ at' = IF at.into = "root" THEN [at EXCEPT !.root = @ \cup {b}]
                                ELSE [at EXCEPT !.pending = @ \cup {b}]
    /\ nodes' = [f \in Files |-> IF f \in fs
                   THEN [nodes[f] EXCEPT !.st = "ready", !.rows = <<Extent(b, left, f)>>]
                   ELSE nodes[f]]
    /\ left' = SubSeq(left, k + 1, Len(left))

(* The blob of a batch is in one of the two directories.                    *)
LEMMA Lands ==
    ASSUME at \in PlaceSet, NEW b \in Names,
           at' = IF at.into = "root" THEN [at EXCEPT !.root = @ \cup {b}]
                                     ELSE [at EXCEPT !.pending = @ \cup {b}]
    PROVE  /\ at' \in PlaceSet /\ at'.cloud = at.cloud /\ at'.cache = at.cache
           /\ at.pending \subseteq at'.pending /\ at.root \subseteq at'.root
           /\ b \in at'.pending \cup at'.root
<1>1. CASE at.into = "root"
  BY <1>1 DEF PlaceSet
<1>2. CASE at.into # "root"
  BY <1>2 DEF PlaceSet
<1> QED BY <1>1, <1>2

(* FlushBatch packs a first part of the entries.                            *)
LEMMA PackIs ==
    ASSUME FlushBatch
    PROVE  /\ left # <<>> /\ entries' = <<>> /\ UNCHANGED <<upload, task, temp, dest, had, orig>>
           /\ \E k \in 1..Len(left) : Packs(k)
BY Zenon DEF FlushBatch, Packs

(* What a batch makes of a file in it.                                      *)
LEMMA PackedLeads ==
    ASSUME ByteInv, NEW k \in 1..Len(left), Packs(k), NEW j \in 1..k
    PROVE  LET f == left[j].file IN
           /\ nodes'[f] = [nodes[f] EXCEPT !.st = "ready", !.rows = <<Extent(<<"epoch", left[1].file>>, left, f)>>]
           /\ Extent(<<"epoch", left[1].file>>, left, f) \in RowSet
           /\ Extent(<<"epoch", left[1].file>>, left, f).blob = <<"epoch", left[1].file>>
           /\ InEpoch(orig[f], sealed', <<Extent(<<"epoch", left[1].file>>, left, f)>>)
<1> DEFINE f == left[j].file
           g == left[1].file
           b == <<"epoch", g>>
           off == Len(Packed(left)[j - 1])
           o == orig[f]
           x == Extent(b, left, f)
<1>0. left \in Seq(Entries) /\ EntriesOK(left)
  BY DEF ByteInv, TransferTypes
<1>1. Len(left) \in Nat /\ DOMAIN left = 1..Len(left) /\ \A i \in 1..Len(left) : left[i].file \in Files /\ left[i].plain \in Texts
  BY <1>0, EntryFacts
<1>2. j \in 1..Len(left) /\ 1 \in 1..Len(left) /\ f \in Files /\ g \in Files
  BY <1>1
<1>3. (CHOOSE i \in DOMAIN left : left[i].file = f) = j
  <2> DEFINE c == CHOOSE i \in DOMAIN left : left[i].file = f
  <2>1. \E i \in DOMAIN left : left[i].file = f
    BY <1>1, <1>2
  <2>2. c \in DOMAIN left /\ left[c].file = f
    BY <2>1, Zenon
  <2> HIDE DEF c
  <2>3. c = j
    BY <1>0, <1>1, <1>2, <2>2 DEF EntriesOK
  <2> QED BY <2>3 DEF c
<1>4. left[j].plain = o
  BY <1>0, <1>2 DEF EntriesOK
<1>5. x = EpochRow(b, off, Len(o))
  BY <1>3, <1>4 DEF Extent
<1>6. /\ off \in Nat
      /\ SubSeq(Pad(Packed(left)[k]), off + 1, off + Len(o)) = o
  BY <1>0, <1>4, ExtentIs
<1>7. Len(o) \in Nat /\ b \in Names
  BY <1>1, <1>2, <1>4, TextFacts DEF Names
<1>8. b \in DOMAIN sealed' /\ sealed'[b] = Seal(b, b, 0, Pad(Packed(left)[k]))
  BY Zenon DEF Packs
<1>9. nodes'[f] = [nodes[f] EXCEPT !.st = "ready", !.rows = <<x>>]
  <2>1. f \in {left[i].file : i \in 1..k}
    OBVIOUS
  <2> QED BY <1>2, <2>1, Zenon DEF Packs
<1> HIDE DEF f, b, off, o, x
<1>10. x \in RowSet /\ x.blob = b
  BY <1>5, <1>6, <1>7 DEF EpochRow, RowSet
<1>11. Opens(sealed'[b], b, b, 0) /\ sealed'[b].plain = Pad(Packed(left)[k])
  BY <1>8 DEF Opens, Seal
<1>12. InEpoch(o, sealed', <<x>>)
  <2>1. SubSeq(sealed'[b].plain, off + 1, off + Len(o)) = o
    BY <1>6, <1>11
  <2> QED BY <1>2, <1>5, <1>6, <1>8, <1>11, <2>1, Zenon DEF InEpoch, b
<1> QED BY <1>9, <1>10, <1>12 DEF f, b, o, x

(* A batch makes rows that lead to the texts of its files.                  *)
LEMMA FlushBatchByte == ByteInv /\ FlushBatch => ByteInv'
<1> SUFFICES ASSUME ByteInv, FlushBatch PROVE ByteInv'
  OBVIOUS
<1>1. /\ left # <<>> /\ entries' = <<>> /\ UNCHANGED <<upload, task, temp, dest, had, orig>>
  BY PackIs
<1>2. PICK k \in 1..Len(left) : Packs(k)
  BY PackIs
<1>3. TransferTypes /\ left \in Seq(Entries) /\ EntriesOK(left) /\ nodes \in [Files -> NodeSet]
  BY DEF ByteInv, TransferTypes
<1>4. Len(left) \in Nat /\ \A i \in 1..Len(left) : left[i].file \in Files /\ left[i].plain \in Texts
  BY <1>3, EntryFacts
<1>5. PICK b : b = <<"epoch", left[1].file>>
  OBVIOUS
<1>6. PICK fs : fs = {left[j].file : j \in 1..k}
  OBVIOUS
<1>7. 1 \in 1..k /\ 1 \in 1..Len(left) /\ left[1].file \in fs /\ left[1].file \in Files /\ fs \subseteq Files
  <2>1. 1 \in 1..k /\ \A j \in 1..k : j \in 1..Len(left)
    BY <1>4
  <2> QED BY <1>4, <1>6, <2>1
<1>8. /\ b \in Names /\ b[1] = "epoch" /\ b[2] = left[1].file
  BY <1>5, <1>7 DEF Names
<1>9. b \notin DOMAIN sealed
  <2>1. SUFFICES ASSUME b \in DOMAIN sealed PROVE FALSE
    OBVIOUS
  <2>2. NameOK(b) /\ nodes[left[1].file].st = "buffered"
    BY <1>3, <1>7, <2>1 DEF ByteInv, EntriesOK
  <2> QED BY <1>8, <2>2, TransferConstants DEF NameOK
<1>10. DOMAIN sealed' = DOMAIN sealed \cup {b} /\ \A c \in DOMAIN sealed : sealed'[c] = sealed[c]
  BY <1>2, <1>5, <1>9, Zenon DEF Packs
<1>11. Extends(sealed, sealed')
  BY <1>10 DEF Extends
<1>12. ASSUME NEW f \in Files, f \notin fs PROVE nodes'[f] = nodes[f]
  BY <1>2, <1>6, <1>12, Zenon DEF Packs
<1>13. ASSUME NEW f \in fs
       PROVE  /\ f \in Files /\ nodes[f].st = "buffered" /\ nodes'[f].st = "ready"
              /\ nodes'[f] \in NodeSet /\ NodeFits(f, nodes'[f], orig[f], sealed')
  <2>1. PICK j \in 1..k : f = left[j].file
    BY <1>6
  <2>2. j \in 1..Len(left)
    BY <1>4
  <2>3. f \in Files /\ nodes[f].st = "buffered" /\ nodes[f] \in NodeSet /\ NodeFits(f, nodes[f], orig[f], sealed) /\ orig[f] \in Texts
    BY <1>3, <1>4, <2>1, <2>2 DEF EntriesOK, ByteInv, NodeOK, TransferTypes
  <2> DEFINE x == Extent(b, left, f)
  <2>4. /\ nodes'[f] = [nodes[f] EXCEPT !.st = "ready", !.rows = <<x>>]
        /\ x \in RowSet /\ InEpoch(orig[f], sealed', <<x>>)
    BY <1>2, <1>5, <2>1, PackedLeads
  <2> HIDE DEF x
  <2>5. nodes[f].size = Len(orig[f]) /\ nodes[f].key = Wrap(Zero, f) /\ ToEpoch(Len(orig[f]))
    BY <2>3 DEF NodeFits
  <2>6. /\ nodes'[f].st = "ready" /\ nodes'[f].rows = <<x>> /\ nodes'[f].size = nodes[f].size
        /\ nodes'[f].key = nodes[f].key /\ nodes'[f] \in NodeSet
    <3>1. PICK n, m : n = nodes[f] /\ m = nodes'[f]
      OBVIOUS
    <3>2. PICK xs : xs = <<x>>
      OBVIOUS
    <3>3. xs \in Seq(RowSet)
      BY <2>4, <3>2
    <3>4. n \in NodeSet /\ m = [n EXCEPT !.st = "ready", !.rows = xs]
      BY <2>3, <2>4, <3>1, <3>2
    <3>5. m.st = "ready" /\ m.rows = xs /\ m.size = n.size /\ m.key = n.key /\ m \in NodeSet
      BY <3>3, <3>4 DEF NodeSet
    <3> QED BY <3>1, <3>2, <3>5
  <2>7. nodes'[f].key.key = Zero /\ Zero \in Keys
    BY <2>5, <2>6 DEF Wrap, Keys
  <2>8. Leads(f, orig[f], sealed', nodes'[f].rows, nodes'[f].size, nodes'[f].key.key)
    BY <2>4, <2>5, <2>6 DEF Leads
  <2>9. NodeFits(f, nodes'[f], orig[f], sealed')
    BY <2>5, <2>6, <2>7, <2>8 DEF NodeFits
  <2> QED BY <2>3, <2>6, <2>9
<1>14. nodes' \in [Files -> NodeSet]
  <2>1. DOMAIN nodes' = Files /\ nodes' = [f \in Files |-> nodes'[f]]
    BY <1>2, Zenon DEF Packs
  <2>2. \A f \in Files : nodes'[f] \in NodeSet
    BY <1>3, <1>12, <1>13
  <2> QED BY <2>1, <2>2, Zenon
<1>15. \A f \in Files : Ended(f)' <=> Ended(f)
  BY <1>1 DEF Ended
<1>16. ASSUME NEW f \in Files PROVE NodeOK(f)'
  <2>0. NodeOK(f) /\ orig' = orig
    BY <1>1 DEF ByteInv
  <2>1. CASE f \in fs
    BY <1>13, <1>15, <2>0, <2>1 DEF NodeOK
  <2>2. CASE f \notin fs
    <3>1. NodeFits(f, nodes[f], orig[f], sealed')
      BY <1>11, <2>0, NodeFitsStill DEF NodeOK
    <3> QED BY <1>12, <1>15, <2>0, <2>2, <3>1 DEF NodeOK
  <2> QED BY <2>1, <2>2
<1>17. ASSUME NEW c \in DOMAIN sealed' PROVE NameOK(c)'
  <2>1. CASE c = b
    BY <1>7, <1>8, <1>13, <2>1 DEF NameOK
  <2>2. CASE c \in DOMAIN sealed
    <3>1. NameOK(c)
      BY <2>2 DEF ByteInv
    <3> QED BY <1>12, <1>13, <1>15, <3>1 DEF NameOK
  <2> QED BY <1>10, <2>1, <2>2
<1>18. left' = SubSeq(left, k + 1, Len(left))
  BY <1>2 DEF Packs
<1>19. /\ left' \in Seq(Entries) /\ \A j \in 1..Len(left') : k + j \in 1..Len(left) /\ left'[j] = left[k + j]
  BY <1>3, <1>18, RestIs
<1>20. EntriesOK(left)'
  <2>1. ASSUME NEW j \in 1..Len(left')
        PROVE  nodes'[left'[j].file].st = "buffered" /\ left'[j].plain = orig'[left'[j].file]
    <3>1. k + j \in 1..Len(left) /\ left'[j] = left[k + j]
      BY <1>19
    <3>2. left[k + j].file \notin fs
      <4>1. SUFFICES ASSUME NEW i \in 1..k, left[i].file = left[k + j].file PROVE FALSE
        BY <1>6
      <4>2. i \in 1..Len(left)
        BY <1>4
      <4>3. i = k + j
        BY <1>3, <3>1, <4>1, <4>2 DEF EntriesOK
      <4> QED BY <4>3
    <3>3. nodes'[left[k + j].file] = nodes[left[k + j].file]
      BY <1>4, <1>12, <3>1, <3>2
    <3> QED BY <1>1, <1>3, <3>1, <3>3 DEF EntriesOK
  <2>2. ASSUME NEW j \in 1..Len(left'), NEW i \in 1..Len(left'), left'[j].file = left'[i].file
        PROVE  j = i
    <3>1. PICK l, m : l = k + j /\ m = k + i
      OBVIOUS
    <3>2. l \in 1..Len(left) /\ m \in 1..Len(left) /\ left[l].file = left[m].file
      BY <1>19, <2>2, <3>1
    <3>3. l = m
      BY <1>3, <3>2 DEF EntriesOK
    <3> QED BY <3>1, <3>3
  <2> QED BY <2>1, <2>2 DEF EntriesOK
<1>21. EntriesOK(entries)' /\ entries' \in Seq(Entries)
  <2>1. Len(<<>>) = 0 /\ <<>> \in Seq(Entries)
    BY EmptySeq
  <2> QED BY <1>1, <2>1 DEF EntriesOK
<1>22. ASSUME NEW t \in Tasks PROVE TaskOK(task[t])'
  <2>1. PICK q : q = task[t]
    OBVIOUS
  <2>2. TaskOK(q) /\ task'[t] = q
    BY <1>1, <2>1 DEF ByteInv
  <2>3. q.pc # "idle" => q.file \in Files /\ Ended(q.file)' /\ Fits(q, orig'[q.file], sealed')
    BY <1>1, <1>11, <1>15, <2>2, FitsStill DEF TaskOK
  <2> QED BY <2>2, <2>3 DEF TaskOK
<1>23. at' \in PlaceSet
  <2>1. /\ at' = IF at.into = "root" THEN [at EXCEPT !.root = @ \cup {b}]
                                     ELSE [at EXCEPT !.pending = @ \cup {b}]
        /\ at \in PlaceSet
    BY <1>2, <1>3, <1>5 DEF Packs, TransferTypes
  <2> QED BY <1>8, <2>1, Lands
<1>24. TransferTypes'
  <2>1. /\ upload' \in [Files -> UploadSet] /\ task' \in [Tasks -> TaskSet] /\ temp' \subseteq Tasks
        /\ dest' \in FileSet /\ had' \in BOOLEAN /\ orig' \in [Files -> Texts]
    BY <1>1, <1>3 DEF TransferTypes
  <2>2. DOMAIN sealed' \subseteq Names
    BY <1>3, <1>8, <1>10 DEF TransferTypes
  <2> QED BY <1>14, <1>19, <1>21, <1>23, <2>1, <2>2 DEF TransferTypes
<1> QED BY <1>16, <1>17, <1>20, <1>21, <1>22, <1>24 DEF ByteInv

Concats(a, b, c) ==
    /\ Len(c) = Len(a) + Len(b)
    /\ \A i \in 1..(Len(a) + Len(b)) : c[i] = IF i <= Len(a) THEN a[i] ELSE b[i - Len(a)]

LEMMA ConcatIs ==
    ASSUME NEW a \in Seq(Entries), NEW b \in Seq(Entries), NEW c, c = a \o b
    PROVE  c \in Seq(Entries) /\ Concats(a, b, c)
BY ConcatProperties DEF Concats

(* Without leaves out the entry of the file, if there is one.               *)
LeavesOut(es, p, c) ==
    /\ p \in 1..Len(es) /\ Len(c) = Len(es) - 1
    /\ \A j \in 1..Len(c) : c[j] = IF j < p THEN es[j] ELSE es[j + 1]

(* The buffer without a file is the buffer with one entry taken out.        *)
LEMMA WithoutIs ==
    ASSUME NEW es \in Seq(Entries), NEW f, NEW c, c = Without(es, f)
    PROVE  /\ c \in Seq(Entries)
           /\ \/ c = es /\ \A j \in 1..Len(es) : es[j].file # f
              \/ \E p \in 1..Len(es) : es[p].file = f /\ LeavesOut(es, p, c)
<1>0. Len(es) \in Nat /\ DOMAIN es = 1..Len(es) /\ \A i \in 1..Len(es) : es[i] \in Entries
  BY EntryFacts
<1>1. CASE ~\E j \in DOMAIN es : es[j].file = f
  <2>1. c = es
    BY <1>1, Zenon DEF Without
  <2> QED BY <1>0, <1>1, <2>1
<1>2. CASE \E j \in DOMAIN es : es[j].file = f
  <2> DEFINE p == CHOOSE j \in DOMAIN es : es[j].file = f
  <2>1. p \in 1..Len(es) /\ es[p].file = f
    BY <1>0, <1>2, Zenon
  <2>2. c = SubSeq(es, 1, p - 1) \o SubSeq(es, p + 1, Len(es))
    BY <1>2, Zenon DEF Without
  <2> HIDE DEF p
  <2> DEFINE a == SubSeq(es, 1, p - 1)
             b == SubSeq(es, p + 1, Len(es))
  <2>3. a \in Seq(Entries) /\ Len(a) = p - 1 /\ \A j \in 1..(p - 1) : a[j] = es[j]
    <3> DEFINE m == p - 1
    <3>1. m \in Nat /\ m <= Len(es)
      BY <1>0, <2>1
    <3> HIDE DEF m
    <3>1a. \A i \in 1..m : es[i] \in Entries
      BY <1>0, <3>1
    <3>2. /\ SubSeq(es, 1, m) \in Seq(Entries) /\ Len(SubSeq(es, 1, m)) = IF 1 <= m THEN m - 1 + 1 ELSE 0
          /\ \A i \in 1..(m - 1 + 1) : SubSeq(es, 1, m)[i] = es[1 + i - 1]
      BY <3>1, <3>1a, SubSeqProperties
    <3> QED BY <3>1, <3>2 DEF m
  <2>4. b \in Seq(Entries) /\ Len(b) = Len(es) - p /\ \A j \in 1..Len(b) : b[j] = es[p + j]
    BY <2>1, RestIs
  <2> HIDE DEF a, b
  <2>5. c = a \o b
    BY <2>2 DEF a, b
  <2>6a. c \in Seq(Entries) /\ Concats(a, b, c)
    BY <2>3, <2>4, <2>5, ConcatIs
  <2>6. c \in Seq(Entries) /\ Len(c) = Len(a) + Len(b)
        /\ \A i \in 1..(Len(a) + Len(b)) : c[i] = IF i <= Len(a) THEN a[i] ELSE b[i - Len(a)]
    BY <2>6a DEF Concats
  <2>7. Len(c) = Len(es) - 1
    BY <1>0, <2>1, <2>3, <2>4, <2>6
  <2>8. ASSUME NEW j \in 1..Len(c) PROVE c[j] = IF j < p THEN es[j] ELSE es[j + 1]
    <3>1. j \in 1..(Len(a) + Len(b)) /\ c[j] = IF j <= Len(a) THEN a[j] ELSE b[j - Len(a)]
      BY <2>6
    <3>2. CASE j < p
      <4>1. j <= Len(a) /\ j \in 1..(p - 1)
        BY <1>0, <2>1, <2>3, <3>2
      <4> QED BY <2>3, <3>1, <3>2, <4>1
    <3>3. CASE ~(j < p)
      <4>1. ~(j <= Len(a)) /\ j - Len(a) \in 1..Len(b) /\ p + (j - Len(a)) = j + 1
        BY <1>0, <2>1, <2>3, <2>4, <3>1, <3>3
      <4> QED BY <2>4, <3>1, <3>3, <4>1
    <3> QED BY <3>2, <3>3
  <2> QED BY <2>1, <2>6, <2>7, <2>8 DEF LeavesOut
<1> QED BY <1>1, <1>2

(* A deletion takes rows and entry of one file only.                        *)
LEMMA DeleteFileByte ==
    ASSUME ByteInv, NEW f \in Files, DeleteFile(f)
    PROVE  ByteInv'
<1>1. /\ nodes[f].st \in {"buffered", "ready"} /\ left = <<>>
      /\ nodes' = [nodes EXCEPT ![f] = [NoNode EXCEPT !.st = "deleted"]]
      /\ entries' = Without(entries, f)
      /\ at' = [at EXCEPT !.pending = @ \ BlobsOf(f), !.root = @ \ BlobsOf(f),
                          !.cache = @ \ BlobsOf(f), !.cloud = @ \ OwnBlobs(f)]
      /\ task' = [t \in Tasks |-> IF task[t].file = f THEN [task[t] EXCEPT !.excuse = TRUE] ELSE task[t]]
      /\ UNCHANGED <<upload, left, sealed, temp, dest, had, orig>>
  BY DEF DeleteFile
<1>2. TransferTypes
  BY DEF ByteInv
<1>3. \A g \in Files : Ended(g)' <=> Ended(g)
  BY <1>1 DEF Ended
<1> DEFINE n == [NoNode EXCEPT !.st = "deleted"]
<1>4. n \in NodeSet /\ n.st = "deleted" /\ n.rows = <<>>
  <2>1. <<>> \in Seq(RowSet)
    BY EmptySeq
  <2> QED BY <2>1, 0 \in Nat DEF NoNode, NodeSet
<1> HIDE DEF n
<1>5. nodes' \in [Files -> NodeSet] /\ nodes'[f] = n /\ \A g \in Files : g # f => nodes'[g] = nodes[g]
  BY <1>1, <1>2, <1>4 DEF TransferTypes, n
<1>6. ASSUME NEW g \in Files PROVE NodeOK(g)'
  <2>0. NodeOK(g) /\ NodeOK(f)
    BY DEF ByteInv
  <2>1. CASE g = f
    BY <1>1, <1>3, <1>4, <1>5, <2>0, <2>1 DEF NodeOK, NodeFits
  <2>2. CASE g # f
    BY <1>1, <1>3, <1>5, <2>0, <2>2 DEF NodeOK
  <2> QED BY <2>1, <2>2
<1>7. ASSUME NEW b \in DOMAIN sealed' PROVE NameOK(b)'
  <2>1. NameOK(b)
    BY <1>1 DEF ByteInv
  <2>2. \A g \in Files : nodes[g].st \in {"ready", "deleted"} => nodes'[g].st \in {"ready", "deleted"}
    BY <1>4, <1>5
  <2> QED BY <1>3, <2>1, <2>2 DEF NameOK
<1>8. entries \in Seq(Entries) /\ EntriesOK(entries)
  BY <1>2 DEF ByteInv, TransferTypes
<1>9. Len(entries) \in Nat /\ \A i \in 1..Len(entries) : entries[i].file \in Files
  BY <1>8, EntryFacts
<1>10. /\ entries' \in Seq(Entries)
       /\ \/ entries' = entries /\ \A j \in 1..Len(entries) : entries[j].file # f
          \/ \E p \in 1..Len(entries) : entries[p].file = f /\ LeavesOut(entries, p, entries')
  BY <1>1, <1>8, WithoutIs
<1>11. EntriesOK(entries)'
  <2>1. CASE entries' = entries /\ \A j \in 1..Len(entries) : entries[j].file # f
    BY <1>1, <1>5, <1>8, <1>9, <2>1 DEF EntriesOK
  <2>2. CASE \E p \in 1..Len(entries) : entries[p].file = f /\ LeavesOut(entries, p, entries')
    <3>1. PICK p \in 1..Len(entries) : entries[p].file = f /\ LeavesOut(entries, p, entries')
      BY <2>2
    <3>2. PICK m : m = [j \in 1..Len(entries') |-> IF j < p THEN j ELSE j + 1]
      OBVIOUS
    <3>3. ASSUME NEW j \in 1..Len(entries')
          PROVE  m[j] \in 1..Len(entries) /\ m[j] # p /\ entries'[j] = entries[m[j]]
      BY <1>9, <3>1, <3>2 DEF LeavesOut
    <3>4. ASSUME NEW j \in 1..Len(entries'), NEW i \in 1..Len(entries'), m[j] = m[i] PROVE j = i
      BY <3>2, <3>4
    <3>5. ASSUME NEW j \in 1..Len(entries')
          PROVE  nodes'[entries'[j].file].st = "buffered" /\ entries'[j].plain = orig'[entries'[j].file]
      <4>1. entries[m[j]].file # f /\ entries[m[j]].file \in Files
        BY <1>8, <1>9, <3>1, <3>3 DEF EntriesOK
      <4>2. nodes'[entries[m[j]].file] = nodes[entries[m[j]].file]
        BY <1>5, <4>1
      <4>3. PICK k : k = m[j]
        OBVIOUS
      <4>4. nodes[entries[k].file].st = "buffered" /\ entries[k].plain = orig[entries[k].file]
        BY <1>8, <3>3, <4>3 DEF EntriesOK
      <4>5. entries'[j] = entries[k] /\ nodes'[entries[k].file] = nodes[entries[k].file] /\ orig' = orig
        BY <1>1, <3>3, <4>2, <4>3
      <4> QED BY <4>4, <4>5
    <3>6. ASSUME NEW j \in 1..Len(entries'), NEW i \in 1..Len(entries'), entries'[j].file = entries'[i].file
          PROVE  j = i
      BY <1>8, <3>3, <3>4, <3>6, SMTT(20) DEF EntriesOK
    <3> QED BY <3>5, <3>6 DEF EntriesOK
  <2> QED BY <1>10, <2>1, <2>2
<1>12. EntriesOK(left)'
  <2>1. Len(<<>>) = 0
    BY EmptySeq
  <2> QED BY <1>1, <2>1 DEF EntriesOK
<1>13. ASSUME NEW t \in Tasks PROVE task'[t] \in TaskSet /\ TaskOK(task[t])'
  <2>1. PICK q, r : q = task[t] /\ r = task'[t]
    OBVIOUS
  <2>2. q \in TaskSet /\ TaskOK(q)
    BY <2>1, TaskFacts
  <2>3. r = q \/ r = [q EXCEPT !.excuse = TRUE]
    BY <1>1, <2>1
  <2>4. r \in TaskSet
    BY <2>2, <2>3, ZenonT(40) DEF TaskSet
  <2>5. /\ r.pc = q.pc /\ r.file = q.file /\ r.mode = q.mode /\ r.lo = q.lo /\ r.hi = q.hi
        /\ r.rows = q.rows /\ r.size = q.size /\ r.key = q.key /\ r.i = q.i
        /\ r.last = q.last /\ r.out = q.out
    BY <2>2, <2>3 DEF TaskSet
  <2>6. \A o : (Reading(q, o) => Reading(r, o)) /\ (InFile(q, o) => InFile(r, o)) /\ Full(r, o) = Full(q, o)
    BY <2>5 DEF Reading, Given, FromOf, EndOf, LastChunk, InFile, Full
  <2>7. \A o, sl : Fits(q, o, sl) => Fits(r, o, sl)
    BY <2>5, <2>6 DEF Fits
  <2>8. r.pc # "idle" => r.file \in Files /\ Ended(r.file)' /\ Fits(r, orig'[r.file], sealed')
    BY <1>1, <1>3, <2>2, <2>5, <2>7 DEF TaskOK
  <2> QED BY <2>1, <2>4, <2>8 DEF TaskOK
<1>14. at' \in PlaceSet
  BY <1>1, <1>2 DEF TransferTypes, PlaceSet
<1>15. TransferTypes'
  <2>1. /\ upload' \in [Files -> UploadSet] /\ temp' \subseteq Tasks /\ left' \in Seq(Entries)
        /\ dest' \in FileSet /\ had' \in BOOLEAN /\ orig' \in [Files -> Texts] /\ DOMAIN sealed' \subseteq Names
    BY <1>1, <1>2 DEF TransferTypes
  <2>2. task' \in [Tasks -> TaskSet]
    <3>1. task' = [t \in Tasks |-> task'[t]]
      BY <1>1
    <3> QED BY <1>13, <3>1
  <2> QED BY <1>5, <1>10, <1>14, <2>1, <2>2 DEF TransferTypes
<1> QED BY <1>6, <1>7, <1>11, <1>12, <1>13, <1>15 DEF ByteInv

(* Every step keeps the bytes right, unless a source changes under the upload.*)
LEMMA BytesStep ==
    ASSUME "changing" \notin Perils, ByteInv, [TransferNext]_transferVars
    PROVE  ByteInv'
<1>1. CASE FlushBegin
  BY <1>1, FlushBeginByte
<1>2. CASE FlushBatch
  BY <1>2, FlushBatchByte
<1>3. CASE FlushStops
  BY <1>3, FlushStopsByte
<1>4. CASE Exit
  BY <1>4, ExitByte
<1>5. ASSUME NEW f \in Files, UploadStat(f) \/ UploadStore(f) \/ DeleteFile(f) PROVE ByteInv'
  BY <1>5, UploadStatByte, UploadStoreByte, DeleteFileByte
<1>6. ASSUME NEW b \in DOMAIN sealed, Push(b) \/ Rot(b) PROVE ByteInv'
  BY <1>6, PlaceByte
<1>7. ASSUME NEW t \in Tasks, NEW f \in Files, TaskBegin(t, f) PROVE ByteInv'
  BY <1>7, BeginByte
<1>8. ASSUME NEW t \in Tasks,
             \/ Fetch(t) \/ Prefetched(t) \/ Validate(t) \/ Resolve(t) \/ ReadChunk(t)
             \/ WriteFail(t) \/ Finish(t) \/ Backup(t) \/ Rename(t) \/ Unlink(t)
      PROVE ByteInv'
  BY <1>8, FetchByte, PrefetchedByte, ValidateByte, ResolveByte, ReadChunkByte, WriteFailByte,
     FinishByte, BackupByte, RenameByte, UnlinkByte
<1>9. CASE UNCHANGED transferVars
  <2>1. UNCHANGED <<upload, nodes, entries, left, sealed, at, task, temp, dest, had, orig>>
    BY <1>9 DEF transferVars
  <2>2. TransferTypes'
    BY <2>1 DEF ByteInv, TransferTypes
  <2>3. \A g \in Files : Ended(g)' <=> Ended(g)
    BY <2>1 DEF Ended
  <2> QED BY <2>1, <2>2, <2>3, QuietStep
<1> QED BY <1>1, <1>2, <1>3, <1>4, <1>5, <1>6, <1>7, <1>8, <1>9, Zenon DEF TransferNext

(* ByteInv is an invariant.                                                 *)
LEMMA BytesKept ==
    ASSUME "changing" \notin Perils
    PROVE  TransferSpec => []ByteInv
<1>1. TransferInit => ByteInv
  BY StartsWell
<1>2. ByteInv /\ [TransferNext]_transferVars => ByteInv'
  BY BytesStep
<1> QED BY <1>1, <1>2, PTL DEF TransferSpec

(* Every download that succeeds gives exactly what the source held when it  *)
(* was stored, whatever the sizes of chunks, files and ranges and whatever  *)
(* runs beside it, the other perils included: only a source that changes    *)
(* while upload_file reads it is left out (decrypt_file*, encrypt_file_inner,*)
(* flush_one_blob, serve_video_range).                                      *)
THEOREM DownloadsAreExact ==
    Perils \cap {"changing"} = {}
        => (TransferSpec => []DownloadExact)
<1> SUFFICES ASSUME Perils \cap {"changing"} = {}
             PROVE  TransferSpec => []DownloadExact
  OBVIOUS
<1>0. "changing" \notin Perils
  OBVIOUS
<1>1. ByteInv => DownloadExact
  <2> SUFFICES ASSUME ByteInv, NEW t \in Tasks, task[t].pc = "done", task[t].mode # "prefetch"
               PROVE  task[t].out = IF task[t].mode = "stream"
                                    THEN SubSeq(orig[task[t].file], task[t].lo + 1, task[t].hi + 1)
                                    ELSE orig[task[t].file]
    BY Zenon DEF DownloadExact
  <2>1. TaskOK(task[t])
    BY DEF ByteInv
  <2> QED BY <2>1 DEF TaskOK, Fits, Full
<1> QED BY <1>0, <1>1, BytesKept, PTL

-----------------------------------------------------------------------------
(* The rows of a file that is ready put its text together.                  *)
LEMMA JoinedIs ==
    ASSUME NEW f \in Files, NEW o \in Texts, nodes[f] \in NodeSet, NEW key \in Keys,
           Leads(f, o, sealed, nodes[f].rows, nodes[f].size, key)
    PROVE  Joined(f) = o
<1> DEFINE r == [Idle EXCEPT !.mode = "view", !.rows = nodes[f].rows, !.size = nodes[f].size]
           n == Len(r.rows)
           H(i) == Wanted([r EXCEPT !.i = i], sealed[r.rows[i].blob].plain)
           G(i) == Given(r, o, i)
           w(i) == [r EXCEPT !.i = i, !.last = n, !.file = f, !.key = key, !.pc = "chunk", !.out = G(i)]
<1>1. nodes[f].rows \in Seq(RowSet) /\ nodes[f].size \in Nat /\ Len(nodes[f].rows) \in Nat
  BY LenProperties DEF NodeSet
<1>2. r \in TaskSet /\ r.mode = "view" /\ r.rows = nodes[f].rows /\ r.size = nodes[f].size /\ n \in Nat
  <2>1. PICK xs, m : xs = nodes[f].rows /\ m = nodes[f].size
    OBVIOUS
  <2>2. r = [Idle EXCEPT !.mode = "view", !.rows = xs, !.size = m] /\ xs \in Seq(RowSet) /\ m \in Nat
    BY <1>1, <2>1
  <2> HIDE DEF r
  <2>3. r \in TaskSet /\ r.mode = "view" /\ r.rows = xs /\ r.size = m
    BY <2>2, IdleIs DEF TaskSet, Modes
  <2> QED BY <1>1, <2>1, <2>3
<1> HIDE DEF r
<1>3. InFile(r, o)
  BY <1>2 DEF InFile
<1>4. \A i \in 1..(n + 1) : G(i) \in Texts
  <2> SUFFICES ASSUME NEW i \in 1..(n + 1) PROVE Given(r, o, i) \in Texts
    OBVIOUS
  <2>1. i \in Nat \ {0}
    BY <1>2
  <2> QED BY <1>2, <1>3, <2>1, GivenIs
<1>5. ASSUME NEW i \in 1..(n + 1)
      PROVE  /\ w(i) \in TaskSet /\ w(i).mode = "view" /\ w(i).rows = r.rows /\ w(i).size = r.size
             /\ w(i).i = i /\ w(i).last = n /\ w(i).file = f /\ w(i).key = key /\ w(i).out = G(i)
  <2>1. G(i) \in Texts /\ i \in Nat
    BY <1>2, <1>4
  <2> HIDE DEF G, n
  <2> QED BY <1>2, <2>1 DEF TaskSet
<1>6. ASSUME NEW i \in 1..(n + 1)
      PROVE  InFile(w(i), o) /\ Reading(w(i), o) /\ Full(w(i), o) = o
             /\ \A j : Given(w(i), o, j) = G(j)
  <2>1. PICK v : v = w(i)
    OBVIOUS
  <2>2. /\ v.mode = "view" /\ v.rows = r.rows /\ v.i = i /\ v.last = n /\ v.out = G(i)
    BY <1>5, <2>1
  <2>3. \A j : Given(v, o, j) = G(j)
    BY <1>2, <2>2 DEF Given, FromOf, EndOf
  <2>4. InFile(v, o) /\ Full(v, o) = o /\ LastChunk(v, v.rows) = n
    BY <2>2 DEF InFile, Full, LastChunk
  <2>5. Reading(v, o)
    BY <2>2, <2>3, <2>4 DEF Reading
  <2> QED BY <2>1, <2>3, <2>4, <2>5
<1>7. ASSUME NEW i \in 1..n PROVE G(i) \o H(i) = G(i + 1)
  <2>1. i \in 1..(n + 1)
    BY <1>2
  <2>2. PICK v : v = w(i)
    OBVIOUS
  <2>3. /\ v \in TaskSet /\ v.mode = "view" /\ v.rows = r.rows /\ v.size = r.size /\ v.file = f /\ v.key = key
        /\ v.i = i /\ v.last = n /\ v.out = G(i) /\ InFile(v, o) /\ Reading(v, o)
    BY <1>5, <1>6, <2>1, <2>2
  <2>4. Given(v, o, v.i + 1) = G(i + 1)
    BY <1>6, <2>1, <2>2, <2>3
  <2>5. v.i <= v.last /\ Leads(f, o, sealed, v.rows, v.size, v.key)
    BY <1>2, <2>3
  <2>6. v.out \o Wanted(v, sealed[v.rows[v.i].blob].plain) = Given(v, o, v.i + 1)
    BY <2>3, <2>5, ReadNext
  <2>7. PICK u : u = [r EXCEPT !.i = i]
    OBVIOUS
  <2>8. u.mode = "view" /\ u.rows = r.rows /\ u.size = r.size /\ u.i = i
    BY <1>2, <2>7 DEF TaskSet
  <2>9. \A x : Wanted(u, x) = Wanted(v, x)
    BY <2>3, <2>8 DEF Wanted, OfWhole, RealBytes, Base
  <2>10. H(i) = Wanted(v, sealed[v.rows[v.i].blob].plain)
    BY <2>3, <2>7, <2>9
  <2> QED BY <2>3, <2>4, <2>6, <2>10
<1>8. G(1) = <<>>
  <2>1. 1 \in 1..(n + 1)
    BY <1>2
  <2>2. PICK v : v = w(1)
    OBVIOUS
  <2>3. /\ v \in TaskSet /\ v.mode = "view" /\ v.rows = r.rows /\ v.size = r.size /\ v.key = key /\ InFile(v, o)
        /\ \A j : Given(v, o, j) = G(j)
    BY <1>5, <1>6, <2>1, <2>2
  <2>4. FirstChunk(v) = 1 /\ Leads(f, o, sealed, v.rows, v.size, v.key)
    BY <1>2, <2>3 DEF FirstChunk
  <2>5. Given(v, o, FirstChunk(v)) = <<>>
    BY <2>3, <2>4, NothingGiven
  <2> QED BY <2>3, <2>4, <2>5
<1>9. G(n + 1) = o
  <2>1. n + 1 \in 1..(n + 1)
    BY <1>2
  <2>2. PICK v : v = w(n + 1)
    OBVIOUS
  <2>3. /\ v \in TaskSet /\ v.rows = r.rows /\ v.size = r.size /\ v.key = key /\ InFile(v, o) /\ Reading(v, o)
        /\ v.i = n + 1 /\ v.last = n /\ v.out = G(n + 1) /\ Full(v, o) = o
    BY <1>5, <1>6, <2>1, <2>2
  <2>4. v.i > v.last /\ Leads(f, o, sealed, v.rows, v.size, v.key)
    BY <1>2, <2>3
  <2>5. v.out = Full(v, o)
    BY <2>3, <2>4, AllGiven
  <2> QED BY <2>3, <2>5
<1> HIDE DEF n, H, G
<1> DEFINE p == [i \in 0..n |-> G(i + 1)]
           q == [i \in 0..n |-> IF i = 0 THEN <<>> ELSE p[i - 1] \o H(i)]
<1>10. p = q
  <2>1. ASSUME NEW i \in 0..n PROVE p[i] = q[i]
    <3>1. CASE i = 0
      <4>1. p[i] = G(1)
        BY <3>1
      <4> QED BY <1>8, <3>1, <4>1
    <3>2. CASE i # 0
      <4>1. i \in 1..n /\ i - 1 \in 0..n /\ (i - 1) + 1 = i
        BY <1>2, <3>2
      <4>2. p[i - 1] = G(i) /\ p[i] = G(i + 1)
        BY <4>1
      <4> HIDE DEF p
      <4>3. q[i] = p[i - 1] \o H(i)
        BY <3>2, Zenon
      <4> QED BY <1>7, <4>1, <4>2, <4>3
    <3> QED BY <3>1, <3>2
  <2>2. p = [i \in 0..n |-> p[i]]
    BY Zenon
  <2> HIDE DEF p
  <2>3. q = [i \in 0..n |-> q[i]]
    BY Zenon
  <2> HIDE DEF q
  <2> QED BY <2>1, <2>2, <2>3, Zenon
<1> HIDE DEF p
<1> DEFINE g == CHOOSE g : g = [i \in 0..n |-> IF i = 0 THEN <<>> ELSE g[i - 1] \o H(i)]
<1>11. g = [i \in 0..n |-> IF i = 0 THEN <<>> ELSE g[i - 1] \o H(i)]
  BY <1>10, Zenon
<1>12. Joined(f) = g[n]
  BY Zenon DEF Joined, r, n, H
<1> HIDE DEF g
<1> DEFINE T == {i \in Nat : i <= n => g[i] = G(i + 1)}
<1>13. 0 \in T
  BY <1>2, <1>8, <1>11
<1>14. ASSUME NEW i \in Nat, i \in T PROVE i + 1 \in T
  <2>1. SUFFICES ASSUME i + 1 <= n PROVE g[i + 1] = G((i + 1) + 1)
    OBVIOUS
  <2>2. i + 1 \in 1..n /\ i + 1 \in 0..n /\ i + 1 # 0 /\ (i + 1) - 1 = i /\ i <= n
    BY <1>2, <2>1
  <2>3. g[i] = G(i + 1)
    BY <1>14, <2>2
  <2>4. g[i + 1] = g[(i + 1) - 1] \o H(i + 1)
    BY <1>11, <2>2, Zenon
  <2>5. G(i + 1) \o H(i + 1) = G((i + 1) + 1)
    BY <1>7, <2>2
  <2> QED BY <2>2, <2>3, <2>4, <2>5
<1>15. n \in T
  BY <1>2, <1>13, <1>14, UpTo
<1>16. n <= n
  BY <1>2
<1>17. g[n] = G(n + 1)
  BY <1>15, <1>16
<1> QED BY <1>9, <1>12, <1>17

-----------------------------------------------------------------------------
(* Steps that only add places keep what is kept.                            *)
LEMMA KeptQuiet ==
    ASSUME KeptInv, UNCHANGED <<nodes, entries, left>>,
           Placed \subseteq Placed'
    PROVE  KeptInv'
<1>1. \A f \in Files : BlobsOf(f)' = BlobsOf(f)
  BY DEF BlobsOf, RowsOf
<1> QED BY <1>1 DEF KeptInv, Among

(* No file is in an empty buffer.                                           *)
LEMMA NoneAmong ==
    ASSUME NEW f
    PROVE  ~Among(f, <<>>)
<1>1. Len(<<>>) = 0
  BY EmptySeq
<1> QED BY <1>1 DEF Among

(* The entries in the buffer are again those left.                          *)
LEMMA KeptLeft ==
    ASSUME KeptInv, UNCHANGED <<nodes, entries>>, Placed \subseteq Placed', left' \in {entries, <<>>},
           left = <<>> \/ entries # <<>>
    PROVE  KeptInv'
<1>1. \A f \in Files : BlobsOf(f)' = BlobsOf(f)
  BY DEF BlobsOf, RowsOf
<1>2. ASSUME NEW f \in Files, nodes[f].st = "buffered" PROVE Among(f, entries)
  <2>1. Among(f, entries) \/ Among(f, left)
    BY <1>2 DEF KeptInv
  <2>2. left = <<>> \/ left = entries
    BY DEF KeptInv
  <2> QED BY <2>1, <2>2, NoneAmong
<1>3. ASSUME NEW f \in Files PROVE nodes'[f].st = "buffered" => Among(f, entries')
  BY <1>2
<1>4. entries' # <<>> /\ left' # <<>> => entries' = left'
  OBVIOUS
<1>5. \A f \in Files : nodes'[f].st = "ready" => BlobsOf(f)' \subseteq Placed'
  BY <1>1 DEF KeptInv
<1> QED BY <1>3, <1>4, <1>5 DEF KeptInv, Among

(* A stored file is in the buffer, or its blobs are pending.                *)
LEMMA StoreKept ==
    ASSUME "changing" \notin Perils, "stage_in_flush" \notin Perils, ByteInv, KeptInv,
           NEW f \in Files, UploadStore(f)
    PROVE  KeptInv'
<1>1. /\ left' = left /\ (entries' # entries => left = <<>>)
  BY StoreIs
<1>2. PICK s \in Texts : Stores(f, s)
  BY StoreIs
<1>3. /\ nodes \in [Files -> NodeSet] /\ entries \in Seq(Entries) /\ at \in PlaceSet
  BY DEF ByteInv, TransferTypes
<1>4. CASE ToEpoch(Len(s))
  <2>1. PICK n, e : /\ n = [NoNode EXCEPT !.st = "buffered", !.size = Len(s), !.key = Wrap(Zero, f)]
                    /\ e = [file |-> f, plain |-> s]
    OBVIOUS
  <2>2. nodes' = [nodes EXCEPT ![f] = n] /\ entries' = Append(entries, e) /\ at' = at
    BY <1>2, <1>4, <2>1 DEF Stores
  <2>3. n.st = "buffered" /\ e \in Entries /\ e.file = f
    BY <2>1 DEF NoNode, Entries
  <2>4. /\ Len(entries) \in Nat /\ Len(entries') = Len(entries) + 1
        /\ \A j \in 1..Len(entries) : entries'[j] = entries[j]
        /\ entries'[Len(entries) + 1] = e
    BY <1>3, <2>2, <2>3, AppendIs
  <2>5. left = <<>>
    BY <1>1, <2>4
  <2>6. nodes'[f] = n /\ \A g \in Files : g # f => nodes'[g] = nodes[g]
    BY <1>3, <2>2
  <2>7. ASSUME NEW g \in Files, nodes'[g].st = "buffered" PROVE Among(g, entries')
    <3>1. CASE g = f
      <4>1. Len(entries) + 1 \in 1..Len(entries')
        BY <2>4
      <4> QED BY <2>3, <2>4, <3>1, <4>1 DEF Among
    <3>2. CASE g # f
      <4>1. Among(g, entries)
        BY <2>5, <2>6, <2>7, <3>2, NoneAmong DEF KeptInv
      <4>2. \A j \in 1..Len(entries) : j \in 1..Len(entries')
        BY <2>4
      <4> QED BY <2>4, <4>1, <4>2 DEF Among
    <3> QED BY <3>1, <3>2
  <2>8. ASSUME NEW g \in Files, nodes'[g].st = "ready" PROVE BlobsOf(g)' \subseteq Placed'
    <3>1. nodes'[g] = nodes[g]
      BY <2>3, <2>6, <2>8
    <3>2. BlobsOf(g)' = BlobsOf(g)
      BY <3>1 DEF BlobsOf, RowsOf
    <3>3. Placed' = Placed
      BY <2>2 DEF Placed
    <3> QED BY <2>8, <3>1, <3>2, <3>3 DEF KeptInv
  <2> QED BY <1>1, <2>5, <2>7, <2>8 DEF KeptInv
<1>5. CASE ~ToEpoch(Len(s))
  <2>1. PICK names, n, rows :
           /\ names = {<<f, i>> : i \in 1..NumChunks(Len(s))}
           /\ rows = [i \in 1..NumChunks(Len(s)) |-> Row(<<f, i>>, i - 1)]
           /\ n = [st |-> "ready", size |-> Len(s), key |-> Wrap(f, f), rows |-> rows]
    OBVIOUS
  <2>2. at' = [at EXCEPT !.pending = @ \cup names] /\ nodes' = [nodes EXCEPT ![f] = n] /\ entries' = entries
    BY <1>2, <1>5, <2>1, Zenon DEF Stores
  <2>3. nodes'[f] = n /\ (\A g \in Files : g # f => nodes'[g] = nodes[g]) /\ n.st = "ready" /\ n.rows = rows
    BY <1>3, <2>1, <2>2
  <2>4. Placed' = Placed \cup names
    <3>1. at'.pending = at.pending \cup names /\ at'.cloud = at.cloud /\ at'.root = at.root
      BY <1>3, <2>2 DEF PlaceSet
    <3> QED BY <3>1 DEF Placed
  <2>5. ASSUME NEW g \in Files, nodes'[g].st = "buffered" PROVE Among(g, entries') \/ Among(g, left')
    BY <1>1, <2>2, <2>3, <2>5 DEF KeptInv
  <2>6. ASSUME NEW g \in Files, nodes'[g].st = "ready" PROVE BlobsOf(g)' \subseteq Placed'
    <3>1. CASE g = f
      <4>1. \A i \in DOMAIN rows : rows[i].blob \in names
        BY <2>1 DEF Row
      <4>2. BlobsOf(g)' \subseteq names
        BY <2>3, <3>1, <4>1 DEF BlobsOf, RowsOf
      <4> QED BY <2>4, <4>2
    <3>2. CASE g # f
      <4>1. nodes'[g] = nodes[g]
        BY <2>3, <3>2
      <4>2. BlobsOf(g)' = BlobsOf(g)
        BY <4>1 DEF BlobsOf, RowsOf
      <4> QED BY <2>4, <2>6, <4>1, <4>2 DEF KeptInv
    <3> QED BY <3>1, <3>2
  <2> QED BY <1>1, <2>2, <2>5, <2>6 DEF KeptInv
<1> QED BY <1>4, <1>5

(* A batch is pending, and what it did not take is left.                    *)
LEMMA FlushKept ==
    ASSUME ByteInv, KeptInv, FlushBatch
    PROVE  KeptInv'
<1>1. left # <<>> /\ entries' = <<>>
  BY PackIs
<1>2. PICK k \in 1..Len(left) : Packs(k)
  BY PackIs
<1>3. left \in Seq(Entries) /\ nodes \in [Files -> NodeSet] /\ at \in PlaceSet /\ EntriesOK(left)
  BY DEF ByteInv, TransferTypes
<1>4. Len(left) \in Nat /\ \A i \in 1..Len(left) : left[i].file \in Files
  BY <1>3, EntryFacts
<1>5. PICK b, fs : b = <<"epoch", left[1].file>> /\ fs = {left[j].file : j \in 1..k}
  OBVIOUS
<1>6. Placed \subseteq Placed' /\ b \in Placed'
  <2>1. at' = IF at.into = "root" THEN [at EXCEPT !.root = @ \cup {b}]
                                  ELSE [at EXCEPT !.pending = @ \cup {b}]
    BY <1>2, <1>5 DEF Packs
  <2>2. b \in Names
    BY <1>4, <1>5 DEF Names
  <2>3. /\ at'.cloud = at.cloud /\ at.pending \subseteq at'.pending /\ at.root \subseteq at'.root
        /\ b \in at'.pending \cup at'.root
    BY <1>3, <2>1, <2>2, Lands
  <2> QED BY <2>3 DEF Placed
<1>7. ASSUME NEW f \in Files, f \notin fs PROVE nodes'[f] = nodes[f]
  BY <1>2, <1>5, <1>7, Zenon DEF Packs
<1>8. ASSUME NEW f \in fs PROVE nodes'[f].st = "ready" /\ BlobsOf(f)' = {b}
  <2>1. PICK j \in 1..k : f = left[j].file
    BY <1>5
  <2>2. j \in 1..Len(left) /\ nodes[f] \in NodeSet
    BY <1>3, <1>4, <2>1
  <2> DEFINE x == Extent(b, left, f)
  <2>3. nodes'[f] = [nodes[f] EXCEPT !.st = "ready", !.rows = <<x>>] /\ x.blob = b
    BY <1>2, <1>5, <2>1, PackedLeads
  <2> HIDE DEF x
  <2>4. PICK xs : xs = <<x>>
    OBVIOUS
  <2>5. nodes'[f].st = "ready" /\ nodes'[f].rows = xs
    BY <2>2, <2>3, <2>4 DEF NodeSet
  <2>6. DOMAIN xs = {1} /\ xs[1] = x
    BY <2>4
  <2>7. {xs[i].blob : i \in DOMAIN xs} = {b}
    BY <2>3, <2>6
  <2> QED BY <2>5, <2>7 DEF BlobsOf, RowsOf
<1>9. left' = SubSeq(left, k + 1, Len(left))
  BY <1>2 DEF Packs
<1>10. /\ Len(left') = Len(left) - k
       /\ \A j \in 1..Len(left') : left'[j] = left[k + j]
  BY <1>3, <1>9, RestIs
<1>11. ASSUME NEW f \in Files, nodes'[f].st = "buffered" PROVE Among(f, left')
  <2>1. f \notin fs
    BY <1>8, <1>11
  <2>2. nodes[f].st = "buffered"
    BY <1>7, <1>11, <2>1
  <2>3. Among(f, left)
    BY <1>1, <2>2, NoneAmong DEF KeptInv
  <2>4. PICK i \in 1..Len(left) : left[i].file = f
    BY <2>3 DEF Among
  <2>5. ~(i <= k)
    <3> SUFFICES ASSUME i <= k PROVE FALSE
      OBVIOUS
    <3>1. i \in 1..k
      BY <1>4
    <3> QED BY <1>5, <2>1, <2>4, <3>1
  <2>6. i - k \in 1..Len(left') /\ k + (i - k) = i
    BY <1>4, <1>10, <2>5
  <2>7. left'[i - k].file = f
    BY <1>10, <2>4, <2>6
  <2> QED BY <2>6, <2>7 DEF Among
<1>12. ASSUME NEW f \in Files, nodes'[f].st = "ready" PROVE BlobsOf(f)' \subseteq Placed'
  <2>1. CASE f \in fs
    BY <1>6, <1>8, <2>1
  <2>2. CASE f \notin fs
    <3>1. nodes'[f] = nodes[f]
      BY <1>7, <2>2
    <3>2. BlobsOf(f)' = BlobsOf(f)
      BY <3>1 DEF BlobsOf, RowsOf
    <3> QED BY <1>6, <1>12, <3>1, <3>2 DEF KeptInv
  <2> QED BY <2>1, <2>2
<1> QED BY <1>1, <1>11, <1>12 DEF KeptInv

(* Without keeps the other files' entries.                                  *)
LEMMA OthersStay ==
    ASSUME NEW es \in Seq(Entries), NEW f, NEW g, g # f, Among(g, es)
    PROVE  Among(g, Without(es, f))
<1>0. Len(es) \in Nat
  BY EntryFacts
<1>1. PICK c : c = Without(es, f)
  OBVIOUS
<1>2. \/ c = es
      \/ \E p \in 1..Len(es) : es[p].file = f /\ LeavesOut(es, p, c)
  BY <1>1, WithoutIs
<1>3. ASSUME NEW p \in 1..Len(es), es[p].file = f, LeavesOut(es, p, c) PROVE Among(g, c)
  <2>1. PICK i \in 1..Len(es) : es[i].file = g
    BY DEF Among
  <2>2. i # p /\ Len(c) = Len(es) - 1 /\ \A j \in 1..Len(c) : c[j] = IF j < p THEN es[j] ELSE es[j + 1]
    BY <1>3, <2>1 DEF LeavesOut
  <2>3. CASE i < p
    <3>1. i \in 1..Len(c) /\ c[i] = es[i]
      BY <1>0, <2>2, <2>3
    <3> QED BY <2>1, <3>1 DEF Among
  <2>4. CASE i > p
    <3>1. i - 1 \in 1..Len(c) /\ ~(i - 1 < p) /\ (i - 1) + 1 = i
      BY <1>0, <2>2, <2>4
    <3>2. c[i - 1] = es[i]
      BY <2>2, <3>1
    <3> QED BY <2>1, <3>1, <3>2 DEF Among
  <2> QED BY <2>2, <2>3, <2>4
<1> QED BY <1>1, <1>2, <1>3

(* A deletion takes no blob another file has.                               *)
LEMMA DeleteKept ==
    ASSUME "delete_packed" \notin Perils, ByteInv, KeptInv, NEW f \in Files, DeleteFile(f)
    PROVE  KeptInv'
<1>1. /\ left = <<>> /\ left' = left
      /\ nodes' = [nodes EXCEPT ![f] = [NoNode EXCEPT !.st = "deleted"]]
      /\ entries' = Without(entries, f)
      /\ \A b \in BlobsOf(f) \ OwnBlobs(f) : b \notin at.pending \cup at.root
      /\ at' = [at EXCEPT !.pending = @ \ BlobsOf(f), !.root = @ \ BlobsOf(f),
                          !.cache = @ \ BlobsOf(f), !.cloud = @ \ OwnBlobs(f)]
  BY DEF DeleteFile
<1>2. nodes \in [Files -> NodeSet] /\ entries \in Seq(Entries) /\ at \in PlaceSet
  BY DEF ByteInv, TransferTypes
<1>3. /\ at'.pending = at.pending \ BlobsOf(f) /\ at'.cloud = at.cloud \ OwnBlobs(f)
      /\ at'.root = at.root \ BlobsOf(f)
  BY <1>1, <1>2 DEF PlaceSet
<1>4. nodes'[f].st = "deleted" /\ \A g \in Files : g # f => nodes'[g] = nodes[g]
  BY <1>1, <1>2 DEF NoNode
<1>5. ASSUME NEW g \in Files, nodes'[g].st = "buffered" PROVE Among(g, entries')
  <2>1. g # f /\ nodes[g].st = "buffered"
    BY <1>4, <1>5
  <2>2. Among(g, entries)
    BY <1>1, <2>1, NoneAmong DEF KeptInv
  <2> QED BY <1>1, <1>2, <2>1, <2>2, OthersStay
<1>6. ASSUME NEW g \in Files, nodes'[g].st = "ready" PROVE BlobsOf(g)' \subseteq Placed'
  <2>1. g # f /\ nodes'[g] = nodes[g]
    BY <1>4, <1>6
  <2>2. BlobsOf(g)' = BlobsOf(g) /\ BlobsOf(g) \subseteq Placed
    BY <1>6, <2>1 DEF BlobsOf, RowsOf, KeptInv
  <2>3. ASSUME NEW b \in BlobsOf(g) PROVE b \notin OwnBlobs(f)
    BY <2>1, <2>3 DEF OwnBlobs
  <2> QED BY <1>1, <1>3, <2>2, <2>3 DEF Placed
<1> QED BY <1>1, <1>5, <1>6 DEF KeptInv

(* The steps of downloads change no row, and no place but the cache.        *)
TaskMoves(t) ==
    \/ \E f \in Files : TaskBegin(t, f)
    \/ Fetch(t) \/ Prefetched(t) \/ Validate(t) \/ Resolve(t) \/ ReadChunk(t)
    \/ WriteFail(t) \/ Finish(t) \/ Backup(t) \/ Rename(t) \/ Unlink(t)

(* A task moves no row, and blobs only into the cache.                      *)
LEMMA TaskKeeps ==
    ASSUME NEW t \in Tasks, TaskMoves(t), at \in PlaceSet
    PROVE  /\ UNCHANGED <<upload, nodes, entries, left, sealed, had, orig>>
           /\ at'.pending = at.pending /\ at'.root = at.root /\ at'.cloud = at.cloud
           /\ at.cache \subseteq at'.cache
<1>1. CASE Fetch(t)
  <2>1. PICK b \in task[t].todo : at' = at \/ Download(b)
    BY <1>1, Zenon DEF Fetch
  <2>2. at' = at \/ at' = [at EXCEPT !.cache = @ \cup {b}]
    BY <2>1 DEF Download
  <2> QED BY <1>1, <2>2 DEF Fetch, PlaceSet
<1>2. CASE ~Fetch(t)
  <2>1. UNCHANGED <<upload, nodes, entries, left, sealed, at, had, orig>>
    BY <1>2, Zenon DEF TaskMoves, TaskBegin, Prefetched, Validate, Resolve, ReadChunk, WriteFail, Finish,
       Backup, Rename, Unlink
  <2> QED BY <2>1
<1> QED BY <1>1, <1>2

(* Every step keeps every stored file somewhere.                            *)
LEMMA KeptStep ==
    ASSUME "changing" \notin Perils, "flush_fails" \notin Perils, "stage_in_flush" \notin Perils,
           "delete_packed" \notin Perils, ByteInv, KeptInv, [TransferNext]_transferVars
    PROVE  KeptInv'
<1>0. at \in PlaceSet
  BY DEF ByteInv, TransferTypes
<1>1. CASE FlushBegin
  <2>1. PICK dir \in {"pending", "root"} : at' = [at EXCEPT !.into = dir]
    BY <1>1 DEF FlushBegin
  <2>2. Placed' = Placed
    BY <1>0, <2>1 DEF PlaceSet, Placed
  <2> QED BY <1>1, <2>2, KeptLeft DEF FlushBegin
<1>2. CASE FlushBatch
  BY <1>2, FlushKept
<1>3. CASE FlushStops
  <2>1. Placed' = Placed
    BY <1>3 DEF FlushStops, Placed
  <2> QED BY <1>3, <2>1, KeptLeft DEF FlushStops
<1>4. CASE Exit
  <2>1. at' = [at EXCEPT !.pending = @ \cup at.root, !.root = {}]
    BY <1>4 DEF Exit
  <2>2. Placed' = Placed
    BY <1>0, <2>1 DEF PlaceSet, Placed
  <2> QED BY <1>4, <2>2, KeptLeft DEF Exit
<1>5. ASSUME NEW f \in Files, UploadStat(f) PROVE KeptInv'
  <2>1. Placed' = Placed
    BY <1>5 DEF UploadStat, Placed
  <2> QED BY <1>5, <2>1, KeptQuiet DEF UploadStat
<1>6. ASSUME NEW f \in Files, UploadStore(f) PROVE KeptInv'
  BY <1>6, StoreKept
<1>7. ASSUME NEW f \in Files, DeleteFile(f) PROVE KeptInv'
  BY <1>7, DeleteKept
<1>8. ASSUME NEW b \in DOMAIN sealed, Push(b) PROVE KeptInv'
  <2>1. at' = [at EXCEPT !.pending = @ \ {b}, !.cloud = @ \cup {b}] /\ UNCHANGED <<nodes, entries, left>>
    BY <1>8 DEF Push
  <2>2. Placed \subseteq Placed'
    BY <1>0, <2>1 DEF PlaceSet, Placed
  <2> QED BY <2>1, <2>2, KeptQuiet
<1>9. ASSUME NEW b \in DOMAIN sealed, Rot(b) PROVE KeptInv'
  <2>1. at' = [at EXCEPT !.rotten = {b}] /\ UNCHANGED <<nodes, entries, left>>
    BY <1>9 DEF Rot
  <2>2. Placed' = Placed
    BY <1>0, <2>1 DEF PlaceSet, Placed
  <2> QED BY <2>1, <2>2, KeptQuiet
<1>10. ASSUME NEW t \in Tasks, TaskMoves(t) PROVE KeptInv'
  <2>1. Placed' = Placed
    BY <1>0, <1>10, TaskKeeps DEF Placed
  <2> QED BY <1>0, <1>10, <2>1, TaskKeeps, KeptQuiet
<1>11. CASE UNCHANGED transferVars
  <2>1. Placed' = Placed
    BY <1>11 DEF transferVars, Placed
  <2> QED BY <1>11, <2>1, KeptQuiet DEF transferVars
<1> QED BY <1>1, <1>2, <1>3, <1>4, <1>5, <1>6, <1>7, <1>8, <1>9, <1>10, <1>11, Zenon
        DEF TransferNext, TaskMoves

LEMMA StartsKept == TransferInit => KeptInv
<1> SUFFICES ASSUME TransferInit PROVE KeptInv
  OBVIOUS
<1>1. \A f \in Files : nodes[f].st = "none"
  BY DEF TransferInit, NoNode
<1> QED BY <1>1 DEF TransferInit, KeptInv

(* The rows of a kept file put its text together from blobs that exist.     *)
LEMMA KeptIs ==
    ASSUME ByteInv, KeptInv
    PROVE  ContentKept
<1> SUFFICES ASSUME NEW f \in Files
             PROVE  /\ nodes[f].st = "buffered" =>
                          \E es \in {entries, left} :
                             \E j \in DOMAIN es : es[j] = [file |-> f, plain |-> orig[f]]
                    /\ nodes[f].st = "ready" => /\ BlobsOf(f) \subseteq at.pending \cup at.root \cup at.cache \cup at.cloud
                                               /\ Joined(f) = orig[f]
  BY Zenon DEF ContentKept
<1>1. ASSUME nodes[f].st = "buffered"
      PROVE  \E es \in {entries, left} : \E j \in DOMAIN es : es[j] = [file |-> f, plain |-> orig[f]]
  <2>1. PICK es \in {entries, left} : Among(f, es)
    BY <1>1 DEF KeptInv
  <2>2. es \in Seq(Entries) /\ EntriesOK(es)
    BY DEF ByteInv, TransferTypes
  <2>3. PICK j \in 1..Len(es) : es[j].file = f
    BY <2>1 DEF Among
  <2>4. j \in DOMAIN es /\ es[j] \in Entries /\ es[j].plain = orig[f]
    BY <2>2, <2>3, EntryFacts DEF EntriesOK
  <2>5. es[j] = [file |-> f, plain |-> orig[f]]
    BY <2>3, <2>4 DEF Entries
  <2> QED BY <2>4, <2>5
<1>2. ASSUME nodes[f].st = "ready"
      PROVE  /\ BlobsOf(f) \subseteq at.pending \cup at.root \cup at.cache \cup at.cloud
             /\ Joined(f) = orig[f]
  <2>1. BlobsOf(f) \subseteq at.pending \cup at.root \cup at.cloud
    BY <1>2 DEF KeptInv, Placed
  <2>2. NodeOK(f) /\ nodes[f] \in NodeSet /\ orig[f] \in Texts
    BY DEF ByteInv, TransferTypes
  <2>3. Leads(f, orig[f], sealed, nodes[f].rows, nodes[f].size, nodes[f].key.key) /\ nodes[f].key.key \in Keys
    BY <1>2, <2>2 DEF NodeOK, NodeFits
  <2>4. Joined(f) = orig[f]
    BY <2>2, <2>3, JoinedIs
  <2> QED BY <2>1, <2>4
<1> QED BY <1>1, <1>2

(* KeptInv is an invariant.                                                 *)
LEMMA BlobsKept ==
    ASSUME "changing" \notin Perils, "flush_fails" \notin Perils, "stage_in_flush" \notin Perils,
           "delete_packed" \notin Perils
    PROVE  TransferSpec => []KeptInv
<1>1. ByteInv /\ KeptInv /\ [TransferNext]_transferVars => KeptInv'
  BY KeptStep
<1> QED BY <1>1, BytesKept, StartsKept, PTL DEF TransferSpec

(* No stored file is lost, though blobs are pushed, damaged, cached and     *)
(* deleted, batches committed one at a time and neighbours in an epoch blob *)
(* deleted: its bytes are buffered, or its rows put them together from blobs*)
(* that exist.  The perils left out are those that do lose content: a flush *)
(* that fails half-way, a file staged during one, and the deletion of a     *)
(* packed file before its blob is pushed (epoch_flush.rs, delete_file.rs).  *)
THEOREM ContentIsKept ==
    Perils \cap {"changing", "flush_fails", "stage_in_flush", "delete_packed"} = {}
        => (TransferSpec => []ContentKept)
<1> SUFFICES ASSUME Perils \cap {"changing", "flush_fails", "stage_in_flush", "delete_packed"} = {}
             PROVE  TransferSpec => []ContentKept
  OBVIOUS
<1>0. /\ "changing" \notin Perils /\ "flush_fails" \notin Perils
      /\ "stage_in_flush" \notin Perils /\ "delete_packed" \notin Perils
  OBVIOUS
<1>1. ByteInv /\ KeptInv => ContentKept
  BY KeptIs
<1> QED BY <1>0, <1>1, BytesKept, BlobsKept, PTL

-----------------------------------------------------------------------------
(* A task is served as long as nothing it looks at changes.                 *)
LEMMA ServedStill ==
    ASSUME NEW r, TaskServed(r), UNCHANGED <<nodes, orig>>,
           at.pending \subseteq at'.pending, at.root \subseteq at'.root, at.cache \subseteq at'.cache
    PROVE  TaskServed(r)'
<1>1. \A f : BlobsOf(f)' = BlobsOf(f)
  BY DEF BlobsOf, RowsOf
<1>2. \A p, b : There(p, b) => There(p, b)'
  BY DEF There
<1>3. Near \subseteq Near'
  BY DEF Near
<1> QED BY <1>1, <1>2, <1>3 DEF TaskServed

LEMMA EndServed ==
    ASSUME NEW r, r.pc \notin {"failed", "fetch", "chunk", "read"} \/ (r.pc = "failed" /\ r.excuse)
    PROVE  TaskServed(r)'
BY DEF TaskServed

(* A step of one task: the others are served as before.                     *)
LEMMA ServedStep ==
    ASSUME ByteInv, CauseInv, NEW t \in Tasks, TaskMoves(t), NEW r \in TaskSet, Set(t, r), TaskServed(r)'
    PROVE  CauseInv'
<1>1. task' = [task EXCEPT ![t] = Trimmed(r)] /\ Trimmed(r) \in TaskSet
  BY SetIs, TrimmedIs
<1>2. at \in PlaceSet /\ task \in [Tasks -> TaskSet]
  BY DEF ByteInv, TransferTypes
<1>3. /\ UNCHANGED <<nodes, orig>> /\ at.pending \subseteq at'.pending
      /\ at.root \subseteq at'.root /\ at.cache \subseteq at'.cache
  BY <1>2, TaskKeeps
<1>4. ASSUME NEW u \in Tasks PROVE TaskServed(task[u])'
  <2>1. PICK q : q = task'[u]
    OBVIOUS
  <2>2. CASE u = t
    <3>1. q = Trimmed(r)
      BY <1>1, <1>2, <2>1, <2>2
    <3>2. CASE r.pc \notin {"done", "failed"}
      BY <2>1, <3>1, <3>2, TrimmedIs
    <3>3. CASE r.pc \in {"done", "failed"}
      <4>1. q.pc = r.pc /\ q.excuse = r.excuse
        BY <3>1, TrimmedIs
      <4>2. r.pc = "failed" => r.excuse
        BY DEF TaskServed
      <4>3. TaskServed(q)'
        BY <3>3, <4>1, <4>2, EndServed
      <4> QED BY <2>1, <4>3
    <3> QED BY <3>2, <3>3
  <2>3. CASE u # t
    <3>1. q = task[u]
      BY <1>1, <1>2, <2>1, <2>3
    <3>2. TaskServed(q)
      BY <3>1 DEF CauseInv
    <3>3. TaskServed(q)'
      BY <1>3, <3>2, ServedStill
    <3> QED BY <2>1, <3>3
  <2> QED BY <2>2, <2>3
<1> QED BY <1>4 DEF CauseInv

LEMMA GoesOn ==
    ASSUME ByteInv, CauseInv, NEW t \in Tasks, TaskMoves(t), NEW r, Set(t, r), TaskServed(r)',
           r.pc \notin {"done", "failed"}
    PROVE  CauseInv'
<1>1. task' = [task EXCEPT ![t] = r]
  BY SetIs DEF Trimmed
<1>2. at \in PlaceSet /\ task \in [Tasks -> TaskSet]
  BY DEF ByteInv, TransferTypes
<1>3. /\ UNCHANGED <<nodes, orig>> /\ at.pending \subseteq at'.pending
      /\ at.root \subseteq at'.root /\ at.cache \subseteq at'.cache
  BY <1>2, TaskKeeps
<1>4. ASSUME NEW u \in Tasks PROVE TaskServed(task[u])'
  <2>1. CASE u = t
    <3>1. task'[u] = r
      BY <1>1, <1>2, <2>1
    <3> QED BY <3>1
  <2>2. CASE u # t
    <3>1. PICK v : v = task[u]
      OBVIOUS
    <3>2. task'[u] = v /\ TaskServed(v)
      BY <1>1, <1>2, <2>2, <3>1 DEF CauseInv
    <3>3. TaskServed(v)'
      BY <1>3, <3>2, ServedStill
    <3> QED BY <3>2, <3>3
  <2> QED BY <2>1, <2>2
<1> QED BY <1>4 DEF CauseInv

(* A task that fails with an excuse.                                        *)
LEMMA FailServed ==
    ASSUME ByteInv, CauseInv, NEW t \in Tasks, TaskMoves(t), NEW x \in BOOLEAN, Fail(t, x),
           task[t].excuse \/ x
    PROVE  CauseInv'
<1>1. PICK r : r = [task[t] EXCEPT !.pc = "failed", !.excuse = @ \/ x]
  OBVIOUS
<1>2. task[t] \in TaskSet
  BY TaskFacts
<1>3. r \in TaskSet /\ r.pc = "failed" /\ r.excuse /\ Set(t, r)
  BY <1>1, <1>2 DEF TaskSet, Fail
<1>4. TaskServed(r)'
  BY <1>3, EndServed
<1> QED BY <1>3, <1>4, ServedStep

LEMMA EndStep ==
    ASSUME ByteInv, CauseInv, NEW t \in Tasks, TaskMoves(t), NEW r \in TaskSet, Set(t, r),
           r.pc \notin {"failed", "fetch", "chunk", "read"} \/ (r.pc = "failed" /\ r.excuse)
    PROVE  CauseInv'
BY EndServed, ServedStep

(* One lemma per step of a task.                                            *)
LEMMA BeginServed ==
    ASSUME "stream_epoch" \notin Perils, ByteInv, CauseInv, NEW t \in Tasks, NEW f \in Files, TaskBegin(t, f)
    PROVE  CauseInv'
<1>1. PICK mode \in Modes, lo \in 0..MaxSize, hi \in 0..MaxSize :
        /\ Asked(f, mode, lo, hi)
        /\ Set(t, [Idle EXCEPT !.pc = "fetch", !.file = f, !.mode = mode, !.lo = lo,
                               !.hi = hi, !.todo = BlobsOf(f)])
  BY Zenon DEF TaskBegin, Modes
<1>2. PICK r, td : td = BlobsOf(f) /\ r = [Idle EXCEPT !.pc = "fetch", !.file = f, !.mode = mode, !.lo = lo,
                                                       !.hi = hi, !.todo = td]
  OBVIOUS
<1>3. td \in SUBSET Names /\ lo \in Nat /\ hi \in Nat
  BY <1>2, BlobNames, TransferConstants
<1>4. /\ r \in TaskSet /\ r.pc = "fetch" /\ r.file = f /\ r.mode = mode /\ r.todo = td /\ ~r.excuse
  <2>1. ~Idle.excuse
    BY DEF Idle
  <2> QED BY <1>2, <1>3, <2>1, IdleIs DEF TaskSet
<1>5. UNCHANGED <<nodes, orig, at>> /\ nodes[f].st \in {"buffered", "ready"}
  BY DEF TaskBegin
<1>6. nodes[f].size = Len(orig[f])
  BY <1>5 DEF ByteInv, NodeOK, NodeFits, Leads
<1>7. mode = "stream" => ~ToEpoch(Len(orig[f]))
  BY <1>1, <1>6 DEF Asked, MayStream
<1>8. BlobsOf(f)' = td
  BY <1>2, <1>5 DEF BlobsOf, RowsOf
<1>9. TaskServed(r)'
  BY <1>4, <1>5, <1>7, <1>8 DEF TaskServed
<1>10. Set(t, r) /\ TaskMoves(t)
  BY <1>1, <1>2 DEF TaskMoves
<1> QED BY <1>4, <1>9, <1>10, ServedStep

LEMMA FetchServed ==
    ASSUME ByteInv, KeptInv, CauseInv, NEW t \in Tasks, Fetch(t)
    PROVE  CauseInv'
<1>0. PICK q : q = task[t]
  OBVIOUS
<1>1. q \in TaskSet /\ TaskOK(q) /\ q.pc = "fetch" /\ TaskServed(q) /\ TaskMoves(t) /\ at \in PlaceSet
  BY <1>0, TaskFacts DEF Fetch, CauseInv, TaskMoves
<1>2. PICK b \in q.todo :
          \/ AtHand(b) /\ Set(t, [q EXCEPT !.todo = @ \ {b}]) /\ UNCHANGED <<at, temp>>
          \/ ~AtHand(b) /\ Download(b) /\ Set(t, [q EXCEPT !.todo = @ \ {b}]) /\ UNCHANGED temp
          \/ ~AtHand(b) /\ Fail(t, b \in at.cloud \cup at.root) /\ UNCHANGED at
  BY <1>0, Zenon DEF Fetch
<1>3. /\ UNCHANGED <<nodes, orig>> /\ at'.pending = at.pending /\ at'.root = at.root
      /\ at.cache \subseteq at'.cache
  BY <1>1, TaskKeeps
<1>4. PICK r : r = [q EXCEPT !.todo = @ \ {b}]
  OBVIOUS
<1>5. /\ r \in TaskSet /\ r.pc = "fetch" /\ r.file = q.file /\ r.mode = q.mode /\ r.excuse = q.excuse
      /\ r.todo = q.todo \ {b}
  BY <1>1, <1>4 DEF TaskSet
<1>6. \A f : BlobsOf(f)' = BlobsOf(f)
  BY <1>3 DEF BlobsOf, RowsOf
<1>7. ASSUME Set(t, r), b \in at'.pending \cup at'.cache PROVE CauseInv'
  <2>1. Near \subseteq Near' /\ b \in Near'
    BY <1>3, <1>7 DEF Near
  <2>2. TaskServed(r)'
    BY <1>1, <1>3, <1>5, <1>6, <2>1 DEF TaskServed
  <2> QED BY <1>1, <1>5, <1>7, <2>2, ServedStep
<1>8. CASE AtHand(b) /\ Set(t, r) /\ UNCHANGED <<at, temp>>
  BY <1>7, <1>8 DEF AtHand
<1>9. CASE Download(b) /\ Set(t, r)
  <2>1. at' = [at EXCEPT !.cache = @ \cup {b}]
    BY <1>9 DEF Download
  <2>2. b \in at'.cache
    BY <1>1, <2>1 DEF PlaceSet
  <2> QED BY <1>7, <1>9, <2>2
<1>10. CASE ~AtHand(b) /\ Fail(t, b \in at.cloud \cup at.root)
  <2> DEFINE x == b \in at.cloud \cup at.root
  <2>2. q.excuse \/ b \in at.cloud \cup at.root
    <3> SUFFICES ASSUME ~q.excuse PROVE b \in at.cloud \cup at.root
      OBVIOUS
    <3>1. q.file \in Files /\ b \in BlobsOf(q.file) /\ nodes[q.file].st \in {"buffered", "ready"}
      BY <1>1, <1>2 DEF TaskServed, TaskOK
    <3>2. nodes[q.file].rows # <<>>
      BY <3>1, EmptySeq DEF BlobsOf, RowsOf
    <3>3. nodes[q.file].st = "ready"
      BY <3>1, <3>2 DEF ByteInv, NodeOK, NodeFits
    <3> QED BY <1>10, <3>1, <3>3 DEF KeptInv, Placed, AtHand
  <2>3. x \in BOOLEAN /\ Fail(t, x) /\ (task[t].excuse \/ x)
    BY <1>0, <1>10, <2>2
  <2> HIDE DEF x
  <2> QED BY <1>1, <2>3, FailServed
<1> QED BY <1>2, <1>4, <1>8, <1>9, <1>10

LEMMA ValidateServed ==
    ASSUME "read_in_flush" \notin Perils, ByteInv, KeptInv, CauseInv, NEW t \in Tasks, Validate(t)
    PROVE  CauseInv'
<1>0. PICK q, f, n, o : q = task[t] /\ f = q.file /\ n = nodes[f] /\ o = orig[f]
  OBVIOUS
<1>1. /\ q \in TaskSet /\ TaskOK(q) /\ q.pc = "fetch" /\ q.todo = {} /\ q.mode # "prefetch"
      /\ TaskServed(q) /\ TaskMoves(t)
      /\ (left = <<>> \/ entries # <<>>) /\ UNCHANGED <<nodes, entries, at, orig>>
  BY <1>0, TaskFacts DEF Validate, CauseInv, TaskMoves
<1>2. f \in Files /\ NodeOK(f) /\ n \in NodeSet /\ o \in Texts /\ NodeFits(f, n, o, sealed)
  BY <1>0, <1>1 DEF TaskOK, ByteInv, TransferTypes, NodeOK
<1>3. ASSUME ~q.excuse, ~Waits(f) PROVE n.st = "ready"
  <2>1. n.st \in {"buffered", "ready"}
    BY <1>0, <1>1, <1>3 DEF TaskServed
  <2>2. n.st # "buffered"
    <3> SUFFICES ASSUME n.st = "buffered" PROVE FALSE
      OBVIOUS
    <3>1. Among(f, entries) \/ Among(f, left)
      BY <1>0, <1>2 DEF KeptInv
    <3>2. left = <<>> \/ left = entries
      BY <1>1 DEF KeptInv
    <3>3. Among(f, entries)
      BY <3>1, <3>2, NoneAmong
    <3>4. entries \in Seq(Entries)
      BY DEF ByteInv, TransferTypes
    <3>5. Buffered(f)
      BY <3>3, <3>4, EntryFacts DEF Among, Buffered
    <3> QED BY <1>3, <3>5 DEF Waits
  <2> QED BY <2>1, <2>2
<1>4. ASSUME ~q.excuse, ~Waits(f)
      PROVE  ~RangeRefused(q) /\ (IsPacked(n.rows) \/ Len(n.rows) = NumChunks(n.size))
  <2>1. n.st = "ready" /\ Leads(f, o, sealed, n.rows, n.size, n.key.key)
    BY <1>2, <1>3, <1>4 DEF NodeFits
  <2>2. IsPacked(n.rows) \/ Len(n.rows) = NumChunks(n.size)
    BY <1>2, <2>1, ChunkRows, EpochRows DEF Leads
  <2>3. ~RangeRefused(q)
    BY <1>0, <1>1, <1>2, <2>1 DEF RangeRefused, RowsOf, NodeFits, TaskServed
  <2> QED BY <2>2, <2>3
<1>5. \/ /\ Waits(f) \/ RangeRefused(q) \/ (~IsPacked(n.rows) /\ Len(n.rows) # NumChunks(n.size))
         /\ Fail(t, Waits(f))
      \/ ~Waits(f) /\ Set(t, Opened(q, n))
  BY <1>0, Zenon DEF Validate
<1>6. CASE /\ Waits(f) \/ RangeRefused(q) \/ (~IsPacked(n.rows) /\ Len(n.rows) # NumChunks(n.size))
           /\ Fail(t, Waits(f))
  <2> DEFINE x == Waits(f)
  <2>1. q.excuse \/ x
    BY <1>4, <1>6
  <2>2. x \in BOOLEAN /\ Fail(t, x) /\ (task[t].excuse \/ x)
    BY <1>0, <1>6, <2>1 DEF Waits, Buffered
  <2> HIDE DEF x
  <2> QED BY <1>1, <2>2, FailServed
<1>7. CASE ~Waits(f) /\ Set(t, Opened(q, n))
  <2>1. PICK r : r = Opened(q, n)
    OBVIOUS
  <2>2. /\ r.pc = "chunk" /\ r.file = f /\ r.rows = n.rows /\ r.todo = {} /\ r.excuse = q.excuse
    BY <1>0, <1>1, <2>1 DEF Opened, TaskSet
  <2>2a. ASSUME NEW g PROVE BlobsOf(g)' = BlobsOf(g)
    BY <1>1 DEF BlobsOf, RowsOf
  <2>3. TaskServed(r)'
    <3>1. Near' = Near
      BY <1>1 DEF Near
    <3> QED BY <1>0, <1>1, <1>3, <1>7, <2>2, <2>2a, <3>1 DEF TaskServed
  <2> QED BY <1>1, <1>7, <2>1, <2>2, <2>3, GoesOn
<1> QED BY <1>5, <1>6, <1>7

(* The row a download is at.                                                *)
LEMMA RowAt ==
    ASSUME ByteInv, NEW q \in TaskSet, TaskOK(q), q.pc \in {"chunk", "read"}, q.i <= q.last
    PROVE  /\ Finds(q, sealed) /\ q.i \in DOMAIN q.rows
<1>1. /\ q.file \in Files /\ InFile(q, orig[q.file]) /\ Reading(q, orig[q.file])
      /\ Leads(q.file, orig[q.file], sealed, q.rows, q.size, q.key) /\ orig[q.file] \in Texts
  BY DEF TaskOK, Fits, ByteInv, TransferTypes
<1>2. Finds(q, sealed)
  BY <1>1, ReadNext
<1>3. q.rows \in Seq(RowSet)
  BY DEF TaskSet
<1> QED BY <1>2, <1>3, LenProperties DEF Finds

LEMMA ResolveServed ==
    ASSUME ByteInv, CauseInv, NEW t \in Tasks, Resolve(t)
    PROVE  CauseInv'
<1>0. PICK q, b, p : /\ q = task[t] /\ b = q.rows[q.i].blob
                     /\ p = IF b \in at.pending THEN "pending" ELSE IF b \in at.cache THEN "cache" ELSE "flat"
  OBVIOUS
<1>1. /\ q \in TaskSet /\ TaskOK(q) /\ q.pc = "chunk" /\ q.i <= q.last /\ TaskServed(q) /\ TaskMoves(t)
      /\ UNCHANGED <<nodes, at, orig>>
  BY <1>0, TaskFacts DEF Resolve, CauseInv, TaskMoves
<1>2. PICK r : r = [q EXCEPT !.pc = "read", !.path = p]
  OBVIOUS
<1>3. Set(t, r)
  BY <1>0, <1>2 DEF Resolve
<1>4. p \in {"none", "pending", "cache", "flat"}
  BY <1>0
<1>5. /\ r \in TaskSet /\ r.pc = "read" /\ r.file = q.file /\ r.rows = q.rows /\ r.todo = q.todo
      /\ r.i = q.i /\ r.path = p /\ r.excuse = q.excuse
  BY <1>1, <1>2, <1>4 DEF TaskSet
<1>6. q.i \in DOMAIN q.rows
  BY <1>1, RowAt
<1>7. ASSUME ~q.excuse PROVE There(p, b)
  <2>1. q.rows = nodes[q.file].rows /\ BlobsOf(q.file) \subseteq Near
    BY <1>1, <1>7 DEF TaskServed
  <2>2. b \in BlobsOf(q.file)
    BY <1>0, <1>6, <2>1 DEF BlobsOf, RowsOf
  <2> QED BY <1>0, <2>1, <2>2 DEF There, Near
<1>8. TaskServed(r)'
  <2>1. \A f : BlobsOf(f)' = BlobsOf(f)
    BY <1>1 DEF BlobsOf, RowsOf
  <2>2. \A x, y : There(x, y)' <=> There(x, y)
    BY <1>1 DEF There
  <2>3. Near' = Near
    BY <1>1 DEF Near
  <2> QED BY <1>0, <1>1, <1>5, <1>7, <2>1, <2>2, <2>3 DEF TaskServed
<1> QED BY <1>1, <1>3, <1>5, <1>8, ServedStep

LEMMA ReadChunkServed ==
    ASSUME ByteInv, CauseInv, NEW t \in Tasks, ReadChunk(t)
    PROVE  CauseInv'
<1>0. PICK q, row : q = task[t] /\ row = q.rows[q.i]
  OBVIOUS
<1>1. /\ q \in TaskSet /\ TaskOK(q) /\ q.pc = "read" /\ TaskServed(q) /\ TaskMoves(t)
      /\ UNCHANGED <<nodes, at, orig>>
  BY <1>0, TaskFacts DEF ReadChunk, CauseInv, TaskMoves
<1>2. PICK r : r = [q EXCEPT !.pc = "chunk", !.i = @ + 1, !.path = "none",
                             !.out = @ \o Wanted(q, sealed[row.blob].plain)]
  OBVIOUS
<1>3. \/ Set(t, r)
      \/ /\ ~(There(q.path, row.blob) /\ Opens(sealed[row.blob], IF row.epoch THEN row.blob ELSE q.key,
                                                IF row.epoch THEN row.blob ELSE q.file, row.idx))
         /\ Fail(t, FALSE)
  BY <1>0, <1>2, Zenon DEF ReadChunk
<1>4. CASE Set(t, r)
  <2>1. r.pc = "chunk" /\ r.file = q.file /\ r.rows = q.rows /\ r.todo = q.todo /\ r.excuse = q.excuse
    BY <1>1, <1>2 DEF TaskSet
  <2>2. \A f : BlobsOf(f)' = BlobsOf(f)
    BY <1>1 DEF BlobsOf, RowsOf
  <2>3. Near' = Near
    BY <1>1 DEF Near
  <2>4. TaskServed(r)'
    BY <1>1, <2>1, <2>2, <2>3 DEF TaskServed
  <2> QED BY <1>1, <1>4, <2>1, <2>4, GoesOn
<1>5. CASE /\ ~(There(q.path, row.blob) /\ Opens(sealed[row.blob], IF row.epoch THEN row.blob ELSE q.key,
                                                 IF row.epoch THEN row.blob ELSE q.file, row.idx))
           /\ Fail(t, FALSE)
  <2>1. q.i <= q.last
    BY <1>1 DEF TaskOK, Fits
  <2>2. Finds(q, sealed)
    BY <1>1, <2>1, RowAt
  <2>3. ~q.excuse => There(q.path, row.blob)
    BY <1>0, <1>1 DEF TaskServed
  <2>4. q.excuse
    BY <1>0, <1>5, <2>2, <2>3, Zenon DEF Finds
  <2> QED BY <1>0, <1>1, <1>5, <2>4, FailServed
<1> QED BY <1>3, <1>4, <1>5

LEMMA LateServed ==
    ASSUME ByteInv, CauseInv, NEW t \in Tasks,
           Prefetched(t) \/ WriteFail(t) \/ Finish(t) \/ Backup(t) \/ Rename(t) \/ Unlink(t)
    PROVE  CauseInv'
<1>0. PICK q : q = task[t]
  OBVIOUS
<1>1. q \in TaskSet /\ TaskMoves(t) /\ dest \in FileSet
  BY <1>0, TaskFacts DEF TaskMoves
<1>2. NoFile \in FileSet
  BY TextFacts, Zenon DEF NoFile, FileSet
<1>3. ASSUME NEW p \in {"done", "backup", "rename", "unlink"}, NEW k \in FileSet, Set(t, [q EXCEPT !.pc = p, !.bak = k])
      PROVE  CauseInv'
  <2>1. PICK r : r = [q EXCEPT !.pc = p, !.bak = k]
    OBVIOUS
  <2>2. r \in TaskSet /\ r.pc = p
    BY <1>1, <2>1 DEF TaskSet
  <2> QED BY <1>1, <1>3, <2>1, <2>2, EndStep
<1>4. ASSUME NEW k \in FileSet, Set(t, [q EXCEPT !.pc = "failed", !.excuse = TRUE, !.bak = k])
      PROVE  CauseInv'
  <2>1. PICK r : r = [q EXCEPT !.pc = "failed", !.excuse = TRUE, !.bak = k]
    OBVIOUS
  <2>2. r \in TaskSet /\ r.pc = "failed" /\ r.excuse
    BY <1>1, <2>1 DEF TaskSet
  <2> QED BY <1>1, <1>4, <2>1, <2>2, EndStep
<1>5. q.bak \in FileSet
  BY <1>1 DEF TaskSet
<1>6. ASSUME NEW p \in {"done", "backup", "rename", "unlink"}, Set(t, [q EXCEPT !.pc = p]) PROVE CauseInv'
  <2>1. [q EXCEPT !.pc = p, !.bak = q.bak] = [q EXCEPT !.pc = p]
    BY <1>1 DEF TaskSet
  <2> QED BY <1>3, <1>5, <1>6, <2>1
<1>7. ASSUME Set(t, [q EXCEPT !.pc = "failed", !.excuse = TRUE]) PROVE CauseInv'
  <2>1. [q EXCEPT !.pc = "failed", !.excuse = TRUE, !.bak = q.bak] = [q EXCEPT !.pc = "failed", !.excuse = TRUE]
    BY <1>1 DEF TaskSet
  <2> QED BY <1>4, <1>5, <1>7, <2>1
<1>8. ASSUME Fail(t, TRUE) PROVE CauseInv'
  BY <1>1, <1>8, FailServed
<1>9. CASE Prefetched(t)
  BY <1>0, <1>6, <1>9 DEF Prefetched
<1>10. CASE WriteFail(t)
  BY <1>0, <1>7, <1>8, <1>10 DEF WriteFail
<1>11. CASE Finish(t)
  <2>1. PICK p \in {"done", "backup", "rename", "unlink"} : Set(t, [q EXCEPT !.pc = p])
    BY <1>0, <1>11, Zenon DEF Finish
  <2> QED BY <1>6, <2>1
<1>12. CASE Backup(t)
  BY <1>0, <1>1, <1>3, <1>8, <1>12 DEF Backup
<1>13. CASE Rename(t)
  <2>1. \/ \E p \in {"done", "backup", "rename", "unlink"} : Set(t, [q EXCEPT !.pc = p])
        \/ Set(t, [q EXCEPT !.pc = "failed", !.excuse = TRUE, !.bak = IF dest' = q.bak THEN NoFile ELSE q.bak])
    BY <1>0, <1>13, Zenon DEF Rename
  <2>2. (IF dest' = q.bak THEN NoFile ELSE q.bak) \in FileSet
    BY <1>2, <1>5
  <2> QED BY <1>4, <1>6, <2>1, <2>2
<1>14. CASE Unlink(t)
  BY <1>0, <1>2, <1>3, <1>7, <1>14 DEF Unlink
<1> QED BY <1>9, <1>10, <1>11, <1>12, <1>13, <1>14

(* A task that what else happens does not touch.                            *)
Busy(r) == r.pc \in {"fetch", "chunk", "read"}

LEMMA ServedBeside ==
    ASSUME ByteInv, NEW r \in TaskSet, TaskOK(r), TaskServed(r),
           Busy(r) => orig'[r.file] = orig[r.file],
           Busy(r) /\ ~r.excuse =>
              /\ nodes'[r.file] = nodes[r.file]
              /\ \A b \in BlobsOf(r.file) :
                    /\ b \in at.pending => b \in at'.pending
                    /\ b \in at.root => b \in at'.root
                    /\ b \in at.cache => b \in at'.cache
    PROVE  TaskServed(r)'
<1>1. CASE ~Busy(r)
  BY <1>1 DEF TaskServed, Busy
<1>2. CASE Busy(r) /\ r.excuse
  BY <1>2 DEF TaskServed, Busy
<1>3. CASE Busy(r) /\ ~r.excuse
  <2>1. BlobsOf(r.file)' = BlobsOf(r.file)
    BY <1>3 DEF BlobsOf, RowsOf
  <2>2. r.pc = "read" => There(r.path, r.rows[r.i].blob)'
    <3> SUFFICES ASSUME r.pc = "read" PROVE There(r.path, r.rows[r.i].blob)'
      OBVIOUS
    <3>1. r.i <= r.last
      BY DEF TaskOK, Fits
    <3>2. r.i \in DOMAIN r.rows /\ r.rows = nodes[r.file].rows /\ There(r.path, r.rows[r.i].blob)
      BY <1>3, <3>1, RowAt DEF TaskServed
    <3>3. r.rows[r.i].blob \in BlobsOf(r.file)
      BY <3>2 DEF BlobsOf, RowsOf
    <3> QED BY <1>3, <3>2, <3>3 DEF There
  <2>3. \A b \in BlobsOf(r.file) : b \in Near => b \in Near'
    BY <1>3 DEF Near
  <2> QED BY <1>3, <2>1, <2>2, <2>3 DEF TaskServed, Busy
<1> QED BY <1>1, <1>2, <1>3

LEMMA TaskServes ==
    ASSUME ByteInv, CauseInv, NEW t \in Tasks
    PROVE  /\ task[t] \in TaskSet /\ TaskOK(task[t]) /\ TaskServed(task[t])
           /\ Busy(task[t]) => task[t].file \in Files /\ Ended(task[t].file)
BY TaskFacts DEF CauseInv, TaskOK, Busy

LEMMA StillServed ==
    ASSUME ByteInv, CauseInv, task' = task, UNCHANGED <<nodes, orig>>,
           at.pending \subseteq at'.pending, at.root \subseteq at'.root, at.cache \subseteq at'.cache
    PROVE  CauseInv'
<1> SUFFICES ASSUME NEW t \in Tasks PROVE TaskServed(task[t])'
  BY DEF CauseInv
<1>1. PICK r : r = task[t]
  OBVIOUS
<1>2. TaskServed(r) /\ task'[t] = r
  BY <1>1, TaskServes
<1>3. TaskServed(r)'
  BY <1>2, ServedStill
<1> QED BY <1>2, <1>3

(* A push, an upload, a flush and a deletion beside a task.                 *)
LEMMA PushServed ==
    ASSUME "push" \notin Perils, ByteInv, CauseInv, NEW b \in DOMAIN sealed, Push(b)
    PROVE  CauseInv'
<1> SUFFICES ASSUME NEW t \in Tasks PROVE TaskServed(task[t])'
  BY DEF CauseInv
<1>1. PICK r : r = task[t]
  OBVIOUS
<1>2. /\ ~Reads(t, b) /\ UNCHANGED <<nodes, orig, task>>
      /\ at' = [at EXCEPT !.pending = @ \ {b}, !.cloud = @ \cup {b}] /\ at \in PlaceSet
  BY DEF Push, ByteInv, TransferTypes
<1>3. at'.pending = at.pending \ {b} /\ at'.root = at.root /\ at'.cache = at.cache
  BY <1>2 DEF PlaceSet
<1>4. r \in TaskSet /\ TaskOK(r) /\ TaskServed(r) /\ task'[t] = r
  BY <1>1, <1>2, TaskServes
<1>5. Busy(r) => b \notin BlobsOf(r.file)
  BY <1>1, <1>2 DEF Reads, Busy, BlobsOf, RowsOf
<1>6. TaskServed(r)'
  BY <1>2, <1>3, <1>4, <1>5, ServedBeside
<1> QED BY <1>4, <1>6

LEMMA StoreServed ==
    ASSUME "changing" \notin Perils, ByteInv, CauseInv, NEW f \in Files, UploadStore(f)
    PROVE  CauseInv'
<1> SUFFICES ASSUME NEW t \in Tasks PROVE TaskServed(task[t])'
  BY DEF CauseInv
<1>1. PICK r : r = task[t]
  OBVIOUS
<1>2. upload[f].pc = "stat" /\ task' = task
  BY StoreIs
<1>3. PICK s \in Texts : Stores(f, s)
  BY StoreIs
<1>4. nodes \in [Files -> NodeSet] /\ orig \in [Files -> Texts] /\ at \in PlaceSet
  BY DEF ByteInv, TransferTypes
<1>5. \A g \in Files : g # f => nodes'[g] = nodes[g] /\ orig'[g] = orig[g]
  <2>1. orig' = [orig EXCEPT ![f] = s] /\ \E n : nodes' = [nodes EXCEPT ![f] = n]
    BY <1>3, Zenon DEF Stores
  <2> QED BY <1>4, <2>1
<1>6. at.pending \subseteq at'.pending /\ at'.root = at.root /\ at'.cache = at.cache
  <2>1. \E names : at' = at \/ at' = [at EXCEPT !.pending = @ \cup names]
    BY <1>3, Zenon DEF Stores
  <2> QED BY <1>4, <2>1 DEF PlaceSet
<1>7. /\ r \in TaskSet /\ TaskOK(r) /\ TaskServed(r) /\ task'[t] = r
      /\ Busy(r) => r.file \in Files /\ Ended(r.file)
  BY <1>1, <1>2, TaskServes
<1>8. Busy(r) => r.file # f /\ r.file \in Files
  BY <1>2, <1>7 DEF Ended
<1>9. TaskServed(r)'
  BY <1>5, <1>6, <1>7, <1>8, ServedBeside
<1> QED BY <1>7, <1>9

LEMMA FlushServed ==
    ASSUME ByteInv, CauseInv, FlushBatch
    PROVE  CauseInv'
<1> SUFFICES ASSUME NEW t \in Tasks PROVE TaskServed(task[t])'
  BY DEF CauseInv
<1>1. PICK r : r = task[t]
  OBVIOUS
<1>2. UNCHANGED <<task, orig>>
  BY PackIs
<1>3. PICK k \in 1..Len(left) : Packs(k)
  BY PackIs
<1>4. left \in Seq(Entries) /\ nodes \in [Files -> NodeSet] /\ at \in PlaceSet /\ EntriesOK(left)
  BY DEF ByteInv, TransferTypes
<1>5. Len(left) \in Nat /\ \A i \in 1..Len(left) : left[i].file \in Files
  BY <1>4, EntryFacts
<1>6. PICK b, fs : b = <<"epoch", left[1].file>> /\ fs = {left[j].file : j \in 1..k}
  OBVIOUS
<1>7. /\ at.pending \subseteq at'.pending /\ at.root \subseteq at'.root /\ at'.cache = at.cache
      /\ b \in at'.pending \cup at'.root
  <2>1. at' = IF at.into = "root" THEN [at EXCEPT !.root = @ \cup {b}]
                                  ELSE [at EXCEPT !.pending = @ \cup {b}]
    BY <1>3, <1>6 DEF Packs
  <2>2. b \in Names
    BY <1>5, <1>6 DEF Names
  <2> QED BY <1>4, <2>1, <2>2, Lands
<1>8. ASSUME NEW f \in Files, f \notin fs PROVE nodes'[f] = nodes[f]
  BY <1>3, <1>6, <1>8, Zenon DEF Packs
<1>9. /\ r \in TaskSet /\ TaskOK(r) /\ TaskServed(r) /\ task'[t] = r
      /\ Busy(r) => r.file \in Files
  BY <1>1, <1>2, TaskServes
<1>10. CASE Busy(r) /\ r.file \in fs
  <2>1. PICK j \in 1..k : r.file = left[j].file
    BY <1>6, <1>10
  <2>2. j \in 1..Len(left) /\ nodes[r.file].st = "buffered" /\ r.file \in Files /\ nodes[r.file] \in NodeSet
    BY <1>4, <1>5, <2>1 DEF EntriesOK
  <2>3. nodes[r.file].rows = <<>>
    BY <2>2 DEF ByteInv, NodeOK, NodeFits
  <2>4. BlobsOf(r.file) = {}
    BY <2>3, EmptySeq DEF BlobsOf, RowsOf
  <2>5. PICK x, n : n = nodes[r.file] /\ x = Extent(b, left, r.file)
    OBVIOUS
  <2>6. nodes'[r.file] = [n EXCEPT !.st = "ready", !.rows = <<x>>] /\ x.blob = b
    BY <1>3, <1>6, <2>1, <2>5, PackedLeads
  <2>7. PICK xs : xs = <<x>>
    OBVIOUS
  <2>8. nodes'[r.file].st = "ready" /\ nodes'[r.file].rows = xs
    BY <2>2, <2>5, <2>6, <2>7 DEF NodeSet
  <2>9. DOMAIN xs = {1} /\ xs[1] = x
    BY <2>7
  <2>10. BlobsOf(r.file)' = {b}
    BY <2>6, <2>8, <2>9 DEF BlobsOf, RowsOf
  <2>11. r.excuse \/ (r.pc = "fetch" /\ r.todo = {})
    BY <1>9, <1>10, <2>2, <2>4 DEF TaskServed, Busy
  <2>12. TaskServed(r)'
    BY <1>2, <1>7, <1>9, <2>8, <2>10, <2>11 DEF TaskServed, Near
  <2> QED BY <1>9, <2>12
<1>11. CASE ~(Busy(r) /\ r.file \in fs)
  <2>1. TaskServed(r)'
    BY <1>2, <1>7, <1>8, <1>9, <1>11, ServedBeside
  <2> QED BY <1>9, <2>1
<1> QED BY <1>10, <1>11

LEMMA DeleteServed ==
    ASSUME "delete_packed" \notin Perils, ByteInv, CauseInv, NEW f \in Files, DeleteFile(f)
    PROVE  CauseInv'
<1> SUFFICES ASSUME NEW t \in Tasks PROVE TaskServed(task[t])'
  BY DEF CauseInv
<1>1. PICK r : r = task[t]
  OBVIOUS
<1>2. /\ nodes' = [nodes EXCEPT ![f] = [NoNode EXCEPT !.st = "deleted"]]
      /\ \A b \in BlobsOf(f) \ OwnBlobs(f) : ~Reads(t, b)
      /\ at' = [at EXCEPT !.pending = @ \ BlobsOf(f), !.root = @ \ BlobsOf(f),
                          !.cache = @ \ BlobsOf(f), !.cloud = @ \ OwnBlobs(f)]
      /\ task'[t] = IF r.file = f THEN [r EXCEPT !.excuse = TRUE] ELSE r
      /\ orig' = orig
  BY <1>1 DEF DeleteFile
<1>3. nodes \in [Files -> NodeSet] /\ at \in PlaceSet
  BY DEF ByteInv, TransferTypes
<1>4. /\ at'.pending = at.pending \ BlobsOf(f) /\ at'.root = at.root \ BlobsOf(f)
      /\ at'.cache = at.cache \ BlobsOf(f)
  BY <1>2, <1>3 DEF PlaceSet
<1>5. /\ r \in TaskSet /\ TaskOK(r) /\ TaskServed(r)
      /\ Busy(r) => r.file \in Files
  BY <1>1, TaskServes
<1>6. CASE r.file = f
  <2>1. PICK q : q = [r EXCEPT !.excuse = TRUE]
    OBVIOUS
  <2>2. q.pc = r.pc /\ q.file = r.file /\ q.mode = r.mode /\ q.todo = r.todo /\ q.excuse = TRUE
    BY <1>5, <2>1 DEF TaskSet
  <2>3. TaskServed(q)'
    BY <1>2, <1>5, <2>2 DEF TaskServed
  <2> QED BY <1>2, <1>6, <2>1, <2>3
<1>7. CASE r.file # f
  <2>1. ASSUME Busy(r), NEW b \in BlobsOf(r.file) PROVE b \notin BlobsOf(f)
    <3> SUFFICES ASSUME b \in BlobsOf(f) PROVE FALSE
      OBVIOUS
    <3>1. b \notin OwnBlobs(f)
      BY <1>5, <1>7, <2>1 DEF OwnBlobs
    <3>2. Reads(t, b)
      BY <1>1, <2>1 DEF Reads, Busy, BlobsOf, RowsOf
    <3> QED BY <1>2, <3>1, <3>2
  <2>2. Busy(r) => nodes'[r.file] = nodes[r.file]
    BY <1>2, <1>3, <1>5, <1>7
  <2>3. TaskServed(r)'
    BY <1>2, <1>4, <1>5, <2>1, <2>2, ServedBeside
  <2> QED BY <1>2, <1>7, <2>3
<1> QED BY <1>6, <1>7

(* Every step leaves every failure excused.                                 *)
LEMMA CauseStep ==
    ASSUME "changing" \notin Perils, "delete_packed" \notin Perils, "read_in_flush" \notin Perils,
           "push" \notin Perils, "stream_epoch" \notin Perils,
           ByteInv, KeptInv, CauseInv, [TransferNext]_transferVars
    PROVE  CauseInv'
<1>1. CASE FlushBegin
  <2>1. PICK dir \in {"pending", "root"} : at' = [at EXCEPT !.into = dir]
    BY <1>1 DEF FlushBegin
  <2>2. at'.pending = at.pending /\ at'.root = at.root /\ at'.cache = at.cache
    BY <2>1 DEF ByteInv, TransferTypes, PlaceSet
  <2> QED BY <1>1, <2>2, StillServed DEF FlushBegin
<1>2. CASE FlushBatch
  BY <1>2, FlushServed
<1>3. CASE FlushStops
  BY <1>3, StillServed DEF FlushStops
<1>4. CASE Exit
  <2>1. \A t \in Tasks : task'[t].pc = "idle"
    BY <1>4, IdleIs DEF Exit
  <2> QED BY <2>1 DEF CauseInv, TaskServed
<1>5. ASSUME NEW f \in Files, UploadStat(f) PROVE CauseInv'
  BY <1>5, StillServed DEF UploadStat
<1>6. ASSUME NEW f \in Files, UploadStore(f) PROVE CauseInv'
  BY <1>6, StoreServed
<1>7. ASSUME NEW f \in Files, DeleteFile(f) PROVE CauseInv'
  BY <1>7, DeleteServed
<1>8. ASSUME NEW b \in DOMAIN sealed, Push(b) PROVE CauseInv'
  BY <1>8, PushServed
<1>9. ASSUME NEW b \in DOMAIN sealed, Rot(b) PROVE CauseInv'
  <2>1. at' = [at EXCEPT !.rotten = {b}] /\ UNCHANGED <<nodes, task, orig>> /\ at \in PlaceSet
    BY <1>9 DEF Rot, ByteInv, TransferTypes
  <2>2. at'.pending = at.pending /\ at'.root = at.root /\ at'.cache = at.cache
    BY <2>1 DEF PlaceSet
  <2> QED BY <2>1, <2>2, StillServed
<1>10. ASSUME NEW t \in Tasks, NEW f \in Files, TaskBegin(t, f) PROVE CauseInv'
  BY <1>10, BeginServed
<1>11. ASSUME NEW t \in Tasks,
              \/ Fetch(t) \/ Prefetched(t) \/ Validate(t) \/ Resolve(t) \/ ReadChunk(t)
              \/ WriteFail(t) \/ Finish(t) \/ Backup(t) \/ Rename(t) \/ Unlink(t)
       PROVE  CauseInv'
  BY <1>11, FetchServed, ValidateServed, ResolveServed, ReadChunkServed, LateServed
<1>12. CASE UNCHANGED transferVars
  BY <1>12, StillServed DEF transferVars
<1> QED BY <1>1, <1>2, <1>3, <1>4, <1>5, <1>6, <1>7, <1>8, <1>9, <1>10, <1>11, <1>12, Zenon
        DEF TransferNext

(* A download fails only for the transport, the disk, damage, a deletion or *)
(* because the file is still buffered or lies, by the user's flush, where   *)
(* the fetch does not look; never because rows and size disagree or a blob  *)
(* was moved under it (download_file.rs, decrypt_file.rs, sync.rs 449-452). *)
(* Also left out: a push of what is being read, a read during a flush, and  *)
(* streams of packed files, each of which does make a download fail.        *)
THEOREM FailuresHaveCauses ==
    Perils \cap {"changing", "flush_fails", "stage_in_flush", "delete_packed", "read_in_flush",
               "push", "stream_epoch"} = {}
        => (TransferSpec => []FailsWithCause)
<1> SUFFICES ASSUME Perils \cap {"changing", "flush_fails", "stage_in_flush", "delete_packed", "read_in_flush",
               "push", "stream_epoch"} = {}
             PROVE  TransferSpec => []FailsWithCause
  OBVIOUS
<1>0. /\ "changing" \notin Perils /\ "flush_fails" \notin Perils
      /\ "stage_in_flush" \notin Perils /\ "delete_packed" \notin Perils
      /\ "read_in_flush" \notin Perils /\ "push" \notin Perils
      /\ "stream_epoch" \notin Perils
  OBVIOUS
<1>1. TransferInit => CauseInv
  <2> SUFFICES ASSUME TransferInit PROVE CauseInv
    OBVIOUS
  <2>1. \A t \in Tasks : task[t].pc = "idle"
    BY IdleIs DEF TransferInit
  <2> QED BY <2>1 DEF CauseInv, TaskServed
<1>2. ByteInv /\ KeptInv /\ CauseInv /\ [TransferNext]_transferVars => CauseInv'
  BY <1>0, CauseStep
<1>3. CauseInv => FailsWithCause
  BY DEF CauseInv, TaskServed, FailsWithCause
<1> QED BY <1>0, <1>1, <1>2, <1>3, BytesKept, BlobsKept, PTL DEF TransferSpec

-----------------------------------------------------------------------------
(* What a step of one save leaves behind.                                   *)
Temporary(r) == r.mode = "save" /\ r.pc \in {"chunk", "read", "backup", "rename"}
Replacing(r) == r.pc = "rename" /\ r.bak.there

LEMMA TraceSet ==
    ASSUME ByteInv, TraceInv, NEW t \in Tasks, NEW r \in TaskSet, Set(t, r),
           UNCHANGED <<upload, had, orig>>,
           temp' \subseteq temp \cup {t}, t \in temp' => Temporary(r),
           r.bak.there => r.pc \in {"rename", "unlink"} /\ WholeFile(r.bak),
           dest'.there => WholeFile(dest'),
           had /\ ~dest'.there => Replacing(r) \/ (~dest.there /\ ~Replacing(task[t]))
    PROVE  TraceInv'
<1>1. PICK q : q = Trimmed(r)
  OBVIOUS
<1>2. q.pc = r.pc /\ q.mode = r.mode /\ q.bak = r.bak
  BY <1>1, TrimmedIs
<1>3. task' = [task EXCEPT ![t] = q] /\ task \in [Tasks -> TaskSet]
  BY <1>1, SetIs DEF ByteInv, TransferTypes
<1>4. task'[t] = q /\ \A u \in Tasks : u # t => task'[u] = task[u]
  BY <1>3
<1>5. temp \subseteq Tasks
  BY DEF ByteInv, TransferTypes
<1>6. ASSUME NEW d PROVE WholeFile(d)' <=> WholeFile(d')
  BY DEF WholeFile, Ended
<1>7. ASSUME NEW u \in temp'
      PROVE  task'[u].mode = "save" /\ task'[u].pc \in {"chunk", "read", "backup", "rename"}
  BY <1>2, <1>4, <1>5 DEF Temporary, TraceInv
<1>8. ASSUME NEW u \in Tasks, task'[u].bak.there
      PROVE  task'[u].pc \in {"rename", "unlink"} /\ WholeFile(task'[u].bak)
  BY <1>2, <1>4, <1>8 DEF TraceInv
<1>9. had /\ ~dest'.there => \E u \in Tasks : task'[u].pc = "rename" /\ task'[u].bak.there
  BY <1>2, <1>4 DEF TraceInv, Replacing
<1>10. \A u \in Tasks : task'[u].bak.there => WholeFile(task[u].bak)'
  BY <1>8 DEF WholeFile, Ended
<1>11. dest'.there => WholeFile(dest)'
  BY DEF WholeFile, Ended
<1> QED BY <1>7, <1>8, <1>9, <1>10, <1>11 DEF TraceInv

(* A step that leaves the destination alone.                                *)
LEMMA TraceAway ==
    ASSUME ByteInv, TraceInv, NEW t \in Tasks, NEW r \in TaskSet, Set(t, r),
           UNCHANGED <<upload, had, orig, dest>>,
           temp' \subseteq temp \cup {t}, t \in temp' => Temporary(r),
           task[t].pc \notin {"rename", "unlink"}, r.bak = task[t].bak
    PROVE  TraceInv'
<1>1. ~task[t].bak.there
  BY DEF TraceInv
<1>2. ~r.bak.there /\ ~Replacing(task[t])
  BY <1>1 DEF Replacing
<1>3. dest'.there => WholeFile(dest')
  BY DEF TraceInv
<1> QED BY <1>2, <1>3, TraceSet

LEMMA FailTrace ==
    ASSUME ByteInv, TraceInv, NEW t \in Tasks, NEW x \in BOOLEAN, Fail(t, x),
           UNCHANGED <<upload, had, orig, dest>>, task[t].pc \notin {"rename", "unlink"}
    PROVE  TraceInv'
<1>1. PICK q : q = task[t]
  OBVIOUS
<1>2. q \in TaskSet
  BY <1>1, TaskFacts
<1>3. PICK r : r = [q EXCEPT !.pc = "failed", !.excuse = @ \/ x]
  OBVIOUS
<1>4. r \in TaskSet /\ r.bak = q.bak
  BY <1>2, <1>3 DEF TaskSet
<1>5. Set(t, r) /\ temp' = temp \ {t}
  BY <1>1, <1>3 DEF Fail
<1> QED BY <1>1, <1>4, <1>5, TraceAway

LEMMA BeginTrace ==
    ASSUME ByteInv, TraceInv, NEW t \in Tasks, NEW f \in Files, TaskBegin(t, f)
    PROVE  TraceInv'
<1>1. PICK mode \in Modes, lo, hi \in 0..MaxSize :
         Set(t, [Idle EXCEPT !.pc = "fetch", !.file = f, !.mode = mode, !.lo = lo, !.hi = hi, !.todo = BlobsOf(f)])
  BY Zenon DEF TaskBegin, Modes
<1>2. PICK r : r = [Idle EXCEPT !.pc = "fetch", !.file = f, !.mode = mode, !.lo = lo, !.hi = hi, !.todo = BlobsOf(f)]
  OBVIOUS
<1>3. BlobsOf(f) \subseteq Names /\ Idle \in TaskSet
  BY BlobNames, IdleIs
<1>4. PICK todo \in SUBSET Names : todo = BlobsOf(f)
  BY <1>3
<1>5. r = [Idle EXCEPT !.pc = "fetch", !.file = f, !.mode = mode, !.lo = lo, !.hi = hi, !.todo = todo]
  BY <1>2, <1>4
<1>6. lo \in Nat /\ hi \in Nat
  BY TransferConstants
<1>7. r \in TaskSet /\ r.bak = Idle.bak
  BY <1>3, <1>5, <1>6 DEF TaskSet
<1>8. ~r.bak.there
  BY <1>7 DEF Idle, NoFile
<1>9. /\ task[t].pc = "idle" /\ t \notin temp /\ ~Replacing(task[t])
      /\ UNCHANGED <<upload, had, orig, temp, dest>>
  BY DEF TaskBegin, TraceInv, Replacing
<1>10. dest'.there => WholeFile(dest')
  BY <1>9 DEF TraceInv
<1>11. Set(t, r)
  BY <1>1, <1>2
<1> QED BY <1>7, <1>8, <1>9, <1>10, <1>11, TraceSet

LEMMA FetchTrace ==
    ASSUME ByteInv, TraceInv, NEW t \in Tasks, Fetch(t) \/ Prefetched(t)
    PROVE  TraceInv'
<1>1. PICK q : q = task[t]
  OBVIOUS
<1>2. q \in TaskSet /\ q.pc = "fetch" /\ UNCHANGED <<upload, had, orig, dest>>
  BY <1>1, TaskFacts DEF Fetch, Prefetched
<1>3. t \notin temp
  BY <1>1, <1>2 DEF TraceInv
<1>4. CASE Prefetched(t)
  <2>1. PICK r : r = [q EXCEPT !.pc = "done"]
    OBVIOUS
  <2>2. r \in TaskSet /\ r.bak = q.bak
    BY <1>2, <2>1 DEF TaskSet
  <2>3. Set(t, r) /\ temp' = temp
    BY <1>1, <1>4, <2>1 DEF Prefetched
  <2> QED BY <1>1, <1>2, <1>3, <2>2, <2>3, TraceAway
<1>5. CASE Fetch(t)
  <2>1. PICK b \in q.todo : \/ Set(t, [q EXCEPT !.todo = @ \ {b}]) /\ UNCHANGED temp
                            \/ Fail(t, b \in at.cloud \cup at.root)
    BY <1>1, <1>5, Zenon DEF Fetch
  <2>2. PICK r : r = [q EXCEPT !.todo = @ \ {b}]
    OBVIOUS
  <2>3. r \in TaskSet /\ r.bak = q.bak
    BY <1>2, <2>2 DEF TaskSet
  <2>4. CASE Set(t, r) /\ UNCHANGED temp
    BY <1>1, <1>2, <1>3, <2>3, <2>4, TraceAway
  <2>5. CASE Fail(t, b \in at.cloud \cup at.root)
    <3> DEFINE x == b \in at.cloud \cup at.root
    <3>1. x \in BOOLEAN /\ Fail(t, x)
      BY <2>5
    <3> HIDE DEF x
    <3> QED BY <1>1, <1>2, <3>1, FailTrace
  <2> QED BY <2>1, <2>2, <2>4, <2>5
<1> QED BY <1>4, <1>5

(* What is set is a task, its bytes being right.                            *)
LEMMA ChunkSet ==
    ASSUME ByteInv', NEW t \in Tasks, NEW r, Set(t, r), r.pc = "chunk", task \in [Tasks -> TaskSet]
    PROVE  r \in TaskSet
<1>1. Trimmed(r) = r
  BY DEF Trimmed
<1>2. task' = [task EXCEPT ![t] = r] /\ task' \in [Tasks -> TaskSet]
  BY <1>1, SetIs DEF ByteInv, TransferTypes
<1> QED BY <1>2

LEMMA ValidateTrace ==
    ASSUME ByteInv, TraceInv, NEW t \in Tasks, Validate(t)
    PROVE  TraceInv'
<1>1. PICK q, n : q = task[t] /\ n = nodes[q.file]
  OBVIOUS
<1>2. q \in TaskSet /\ q.pc = "fetch" /\ UNCHANGED <<upload, had, orig, dest>>
  BY <1>1, TaskFacts DEF Validate
<1>3. t \notin temp
  BY <1>1, <1>2 DEF TraceInv
<1>4. ByteInv' /\ task \in [Tasks -> TaskSet]
  BY ValidateByte DEF ByteInv, TransferTypes
<1>5. CASE Fail(t, Waits(q.file))
  <2> DEFINE x == Waits(q.file)
  <2>1. x \in BOOLEAN /\ Fail(t, x)
    BY <1>5 DEF Waits, Buffered
  <2> HIDE DEF x
  <2> QED BY <1>1, <1>2, <2>1, FailTrace
<1>6. CASE /\ Set(t, Opened(q, n))
           /\ temp' = IF q.mode = "save" /\ ~IsPacked(n.rows) THEN temp \cup {t} ELSE temp
  <2>1. PICK r : r = Opened(q, n)
    OBVIOUS
  <2>2. r.pc = "chunk" /\ r.mode = q.mode /\ r.bak = q.bak
    BY <1>2, <2>1 DEF Opened, TaskSet
  <2>3. r \in TaskSet
    BY <1>4, <1>6, <2>1, <2>2, ChunkSet
  <2>4. t \in temp' => Temporary(r)
    BY <1>3, <1>6, <2>2 DEF Temporary
  <2> QED BY <1>1, <1>2, <1>6, <2>1, <2>2, <2>3, <2>4, TraceAway
<1> QED BY <1>1, <1>5, <1>6 DEF Validate

LEMMA ChunkTrace ==
    ASSUME ByteInv, TraceInv, NEW t \in Tasks, Resolve(t) \/ ReadChunk(t)
    PROVE  TraceInv'
<1>1. PICK q : q = task[t]
  OBVIOUS
<1>2. /\ q \in TaskSet /\ q.pc \in {"chunk", "read"} /\ UNCHANGED <<upload, had, orig, dest>>
      /\ task \in [Tasks -> TaskSet]
  BY <1>1, TaskFacts DEF Resolve, ReadChunk, ByteInv, TransferTypes
<1>3. t \in temp => q.mode = "save"
  BY <1>1 DEF TraceInv
<1>4. CASE Resolve(t)
  <2>1. PICK p \in {"pending", "cache", "flat"} : Set(t, [q EXCEPT !.pc = "read", !.path = p])
    <3> DEFINE b == q.rows[q.i].blob
               p == IF b \in at.pending THEN "pending" ELSE IF b \in at.cache THEN "cache" ELSE "flat"
    <3>1. p \in {"pending", "cache", "flat"} /\ Set(t, [q EXCEPT !.pc = "read", !.path = p])
      BY <1>1, <1>4 DEF Resolve
    <3> QED BY <3>1
  <2>2. PICK r : r = [q EXCEPT !.pc = "read", !.path = p]
    OBVIOUS
  <2>3. r \in TaskSet /\ r.pc = "read" /\ r.mode = q.mode /\ r.bak = q.bak
    BY <1>2, <2>2 DEF TaskSet
  <2>4. temp' = temp
    BY <1>4 DEF Resolve
  <2>5. t \in temp' => Temporary(r)
    BY <1>3, <2>3, <2>4 DEF Temporary
  <2> QED BY <1>1, <1>2, <2>1, <2>2, <2>3, <2>4, <2>5, TraceAway
<1>5. CASE ReadChunk(t)
  <2>1. PICK s : \/ /\ Set(t, [q EXCEPT !.pc = "chunk", !.i = @ + 1, !.path = "none", !.out = @ \o s])
                    /\ temp' = IF q.mode = "save" THEN temp \cup {t} ELSE temp
                 \/ Fail(t, FALSE)
    BY <1>1, <1>5 DEF ReadChunk
  <2>2. CASE Fail(t, FALSE)
    BY <1>1, <1>2, <2>2, FailTrace
  <2>3. PICK r : r = [q EXCEPT !.pc = "chunk", !.i = @ + 1, !.path = "none", !.out = @ \o s]
    OBVIOUS
  <2>4. r.pc = "chunk" /\ r.mode = q.mode /\ r.bak = q.bak
    BY <1>2, <2>3 DEF TaskSet
  <2>5. CASE Set(t, r) /\ temp' = IF q.mode = "save" THEN temp \cup {t} ELSE temp
    <3>1. r \in TaskSet
      BY <1>2, <1>5, <2>4, <2>5, ReadChunkByte, ChunkSet
    <3>2. t \in temp' => Temporary(r)
      BY <1>3, <2>4, <2>5 DEF Temporary
    <3> QED BY <1>1, <1>2, <2>4, <2>5, <3>1, <3>2, TraceAway
  <2> QED BY <2>1, <2>2, <2>3, <2>5
<1> QED BY <1>4, <1>5

LEMMA WriteFailTrace ==
    ASSUME "epoch_disk" \notin Perils, ByteInv, TraceInv, NEW t \in Tasks, WriteFail(t)
    PROVE  TraceInv'
<1>1. task[t].pc = "chunk" /\ Fail(t, TRUE) /\ UNCHANGED <<upload, had, orig, dest>>
  BY DEF WriteFail
<1> QED BY <1>1, FailTrace

LEMMA FinishTrace ==
    ASSUME ByteInv, TraceInv, NEW t \in Tasks, Finish(t)
    PROVE  TraceInv'
<1>1. PICK q : q = task[t]
  OBVIOUS
<1>2. q \in TaskSet /\ q.pc = "chunk" /\ UNCHANGED <<upload, had, orig, dest, temp>>
  BY <1>1, TaskFacts DEF Finish
<1>3. t \in temp => q.mode = "save"
  BY <1>1 DEF TraceInv
<1>4. PICK p \in {"done", "backup", "rename"} :
         Set(t, [q EXCEPT !.pc = p]) /\ (q.mode = "save" => p # "done")
  BY <1>1, Zenon DEF Finish
<1>5. PICK r : r = [q EXCEPT !.pc = p]
  OBVIOUS
<1>6. r \in TaskSet /\ r.pc = p /\ r.mode = q.mode /\ r.bak = q.bak
  BY <1>2, <1>5 DEF TaskSet
<1>7. t \in temp' => Temporary(r)
  BY <1>2, <1>3, <1>4, <1>6 DEF Temporary
<1> QED BY <1>1, <1>2, <1>4, <1>5, <1>6, <1>7, TraceAway

LEMMA BackupTrace ==
    ASSUME ByteInv, TraceInv, NEW t \in Tasks, Backup(t)
    PROVE  TraceInv'
<1>1. PICK q : q = task[t]
  OBVIOUS
<1>2. /\ q \in TaskSet /\ q.pc = "backup" /\ dest \in FileSet /\ TaskOK(q)
      /\ UNCHANGED <<upload, had, orig>>
  BY <1>1, TaskFacts DEF Backup
<1>3. CASE Fail(t, TRUE) /\ UNCHANGED dest
  BY <1>1, <1>2, <1>3, FailTrace
<1>4. CASE dest.there /\ Set(t, [q EXCEPT !.pc = "rename", !.bak = dest]) /\ dest' = NoFile /\ UNCHANGED temp
  <2>1. PICK r : r = [q EXCEPT !.pc = "rename", !.bak = dest]
    OBVIOUS
  <2>2. r \in TaskSet /\ r.pc = "rename" /\ r.mode = q.mode /\ r.bak = dest
    BY <1>2, <2>1 DEF TaskSet
  <2>3. q.mode = "save"
    BY <1>2 DEF TaskOK, Fits
  <2>4. t \in temp' => Temporary(r)
    BY <2>2, <2>3 DEF Temporary
  <2>5. WholeFile(r.bak) /\ Replacing(r) /\ ~dest'.there
    BY <1>4, <2>2 DEF TraceInv, Replacing, NoFile
  <2> QED BY <1>2, <1>4, <2>1, <2>2, <2>4, <2>5, TraceSet
<1> QED BY <1>1, <1>3, <1>4 DEF Backup

LEMMA RenameTrace ==
    ASSUME "disk" \notin Perils, ByteInv, TraceInv, NEW t \in Tasks, Rename(t)
    PROVE  TraceInv'
<1>1. PICK q : q = task[t]
  OBVIOUS
<1>2. /\ q \in TaskSet /\ q.pc = "rename" /\ TaskOK(q)
      /\ UNCHANGED <<upload, had, orig>> /\ temp' = temp \ {t}
  BY <1>1, TaskFacts DEF Rename
<1>3. q.file \in Files /\ Ended(q.file) /\ q.out = orig[q.file] /\ q.bak \in FileSet
  BY <1>2 DEF TaskOK, Fits, TaskSet
<1>4. q.bak.there => WholeFile(q.bak)
  BY <1>1 DEF TraceInv
<1>5. NoFile \in FileSet /\ ~NoFile.there
  <2>1. NoFile \in FileSet
    BY TextFacts, Zenon DEF NoFile, FileSet
  <2> QED BY <2>1 DEF NoFile
<1>6. CASE /\ dest' = [there |-> TRUE, data |-> q.out]
           /\ Set(t, [q EXCEPT !.pc = IF q.bak.there THEN "unlink" ELSE "done"])
  <2>1. PICK p \in {"unlink", "done"} : Set(t, [q EXCEPT !.pc = p]) /\ (q.bak.there => p = "unlink")
    BY <1>6, Zenon
  <2>2. PICK r : r = [q EXCEPT !.pc = p]
    OBVIOUS
  <2>3. r \in TaskSet /\ r.pc = p /\ r.bak = q.bak
    BY <1>2, <2>2 DEF TaskSet
  <2>4. dest'.there /\ dest'.data = orig[q.file]
    BY <1>3, <1>6
  <2>5. WholeFile(dest')
    BY <1>3, <2>4 DEF WholeFile
  <2> QED BY <1>2, <1>4, <2>1, <2>2, <2>3, <2>4, <2>5, TraceSet
<1>7. CASE /\ dest' = Restored(t)
           /\ Set(t, [q EXCEPT !.pc = "failed", !.excuse = TRUE, !.bak = IF dest' = @ THEN NoFile ELSE @])
  <2>1. PICK k : k = IF dest' = q.bak THEN NoFile ELSE q.bak
    OBVIOUS
  <2>2. dest' = IF q.bak.there THEN q.bak ELSE dest
    BY <1>1, <1>7 DEF Restored
  <2>3. k \in FileSet /\ ~k.there
    BY <1>3, <1>5, <2>1, <2>2
  <2>4. PICK r : r = [q EXCEPT !.pc = "failed", !.excuse = TRUE, !.bak = k]
    OBVIOUS
  <2>5. r \in TaskSet /\ r.bak = k
    BY <1>2, <2>3, <2>4 DEF TaskSet
  <2>6. Set(t, r)
    BY <1>7, <2>1, <2>4
  <2>7. dest'.there => WholeFile(dest')
    BY <1>4, <2>2 DEF TraceInv
  <2>8. ~dest'.there => ~dest.there /\ ~Replacing(task[t])
    BY <1>1, <2>2 DEF Replacing
  <2> QED BY <1>2, <2>3, <2>5, <2>6, <2>7, <2>8, TraceSet
<1> QED BY <1>1, <1>6, <1>7 DEF Rename

LEMMA UnlinkTrace ==
    ASSUME "disk" \notin Perils, ByteInv, TraceInv, NEW t \in Tasks, Unlink(t)
    PROVE  TraceInv'
<1>1. PICK q : q = task[t]
  OBVIOUS
<1>2. /\ q \in TaskSet /\ q.pc = "unlink" /\ UNCHANGED <<upload, had, orig, dest, temp>>
      /\ Set(t, [q EXCEPT !.pc = "done", !.bak = NoFile])
  BY <1>1, TaskFacts DEF Unlink
<1>3. NoFile \in FileSet /\ ~NoFile.there
  <2>1. NoFile \in FileSet
    BY TextFacts, Zenon DEF NoFile, FileSet
  <2> QED BY <2>1 DEF NoFile
<1>4. PICK k : k = NoFile
  OBVIOUS
<1>5. PICK r : r = [q EXCEPT !.pc = "done", !.bak = k]
  OBVIOUS
<1>6. r \in TaskSet /\ r.bak = k
  BY <1>2, <1>3, <1>4, <1>5 DEF TaskSet
<1>7. t \notin temp /\ ~Replacing(task[t])
  BY <1>1, <1>2 DEF TraceInv, Replacing
<1>8. dest'.there => WholeFile(dest')
  BY <1>2 DEF TraceInv
<1>9. Set(t, r)
  BY <1>2, <1>4, <1>5
<1> QED BY <1>2, <1>3, <1>4, <1>6, <1>7, <1>8, <1>9, TraceSet

(* Steps that no task takes.                                                *)
LEMMA TraceStill ==
    ASSUME ByteInv, TraceInv, UNCHANGED <<temp, dest, had>>,
           \A t \in Tasks : task'[t].pc = task[t].pc /\ task'[t].mode = task[t].mode /\ task'[t].bak = task[t].bak,
           \A f \in Files : Ended(f) => Ended(f)' /\ orig'[f] = orig[f]
    PROVE  TraceInv'
<1>1. \A d : WholeFile(d) => d = Old \/ \E f \in Files : Ended(f)' /\ d.data = orig'[f]
  BY DEF WholeFile
<1>2. temp \subseteq Tasks
  BY DEF ByteInv, TransferTypes
<1>3. dest'.there => WholeFile(dest)'
  BY <1>1 DEF TraceInv, WholeFile
<1>4. \A t \in Tasks : task'[t].bak.there => task'[t].pc \in {"rename", "unlink"} /\ WholeFile(task[t].bak)'
  BY <1>1 DEF TraceInv, WholeFile
<1>5. \A t \in temp' : task'[t].mode = "save" /\ task'[t].pc \in {"chunk", "read", "backup", "rename"}
  BY <1>2 DEF TraceInv
<1>6. had' /\ ~dest'.there => \E t \in Tasks : task'[t].pc = "rename" /\ task'[t].bak.there
  BY DEF TraceInv
<1> QED BY <1>3, <1>4, <1>5, <1>6 DEF TraceInv

(* Without a crash the program ends when no save is under way.              *)
LEMMA ExitTrace ==
    ASSUME "crash" \notin Perils, ByteInv, TraceInv, Exit
    PROVE  TraceInv'
<1>1. /\ \A t \in Tasks : task[t].pc \in {"idle", "done", "failed"}
      /\ task' = [t \in Tasks |-> Idle] /\ UNCHANGED <<upload, orig, temp, dest, had>>
  BY DEF Exit
<1>2. temp = {} /\ ~(had /\ ~dest.there)
  BY <1>1 DEF TraceInv, ByteInv, TransferTypes
<1>3. \A t \in Tasks : ~task'[t].bak.there
  BY <1>1 DEF Idle, NoFile
<1>4. dest'.there => WholeFile(dest)'
  BY <1>1 DEF TraceInv, WholeFile, Ended
<1> QED BY <1>1, <1>2, <1>3, <1>4 DEF TraceInv

(* Uploads and deletions beside a save.                                     *)
LEMMA BesideTrace ==
    ASSUME "changing" \notin Perils, ByteInv, TraceInv, NEW f \in Files,
           UploadStat(f) \/ UploadStore(f) \/ DeleteFile(f)
    PROVE  TraceInv'
<1>0. upload \in [Files -> UploadSet] /\ orig \in [Files -> Texts] /\ task \in [Tasks -> TaskSet]
  BY DEF ByteInv, TransferTypes
<1>1. CASE UploadStat(f)
  <2>1. \E u : upload' = [upload EXCEPT ![f] = u]
    BY <1>1 DEF UploadStat
  <2>2. ~Ended(f) /\ UNCHANGED <<task, temp, dest, had, orig>>
    BY <1>1 DEF UploadStat, Ended
  <2>3. \A g \in Files : Ended(g) => Ended(g)' /\ orig'[g] = orig[g]
    BY <1>0, <2>1, <2>2 DEF Ended
  <2> QED BY <2>2, <2>3, TraceStill
<1>2. CASE UploadStore(f)
  <2>1. /\ upload[f].pc = "stat" /\ upload' = [upload EXCEPT ![f].pc = "ended"]
        /\ UNCHANGED <<task, temp, dest, had>>
    BY <1>2, StoreIs
  <2>2. PICK s \in Texts : Stores(f, s)
    BY <1>2, StoreIs
  <2>3. orig' = [orig EXCEPT ![f] = s]
    BY <2>2, Zenon DEF Stores
  <2>4. \A g \in Files : Ended(g) => Ended(g)' /\ orig'[g] = orig[g]
    BY <1>0, <2>1, <2>3 DEF Ended
  <2> QED BY <2>1, <2>4, TraceStill
<1>3. CASE DeleteFile(f)
  <2>1. /\ task' = [t \in Tasks |-> IF task[t].file = f THEN [task[t] EXCEPT !.excuse = TRUE] ELSE task[t]]
        /\ UNCHANGED <<upload, temp, dest, had, orig>>
    BY <1>3 DEF DeleteFile
  <2>2. ASSUME NEW t \in Tasks
        PROVE  task'[t].pc = task[t].pc /\ task'[t].mode = task[t].mode /\ task'[t].bak = task[t].bak
    <3>1. PICK q \in TaskSet : q = task[t]
      BY <1>0
    <3>2. PICK r : r = [q EXCEPT !.excuse = TRUE]
      OBVIOUS
    <3>3. r.pc = q.pc /\ r.mode = q.mode /\ r.bak = q.bak
      BY <3>1, <3>2 DEF TaskSet
    <3>4. task'[t] = q \/ task'[t] = r
      BY <2>1, <3>1, <3>2
    <3> QED BY <3>1, <3>3, <3>4
  <2>3. \A g \in Files : Ended(g) => Ended(g)' /\ orig'[g] = orig[g]
    BY <2>1 DEF Ended
  <2> QED BY <2>1, <2>2, <2>3, TraceStill
<1> QED BY <1>1, <1>2, <1>3

(* Every step leaves temporary files and destination in order.              *)
LEMMA TraceStep ==
    ASSUME "changing" \notin Perils, "epoch_disk" \notin Perils, "disk" \notin Perils, "crash" \notin Perils,
           ByteInv, TraceInv, [TransferNext]_transferVars
    PROVE  TraceInv'
<1>1. ASSUME UNCHANGED <<upload, task, temp, dest, had, orig>> PROVE TraceInv'
  <2>1. \A g \in Files : Ended(g) => Ended(g)' /\ orig'[g] = orig[g]
    BY <1>1 DEF Ended
  <2> QED BY <1>1, <2>1, TraceStill
<1>2. CASE FlushBegin \/ FlushBatch \/ FlushStops \/ UNCHANGED transferVars
  BY <1>1, <1>2, Zenon DEF FlushBegin, FlushBatch, FlushStops, transferVars
<1>3. CASE Exit
  BY <1>3, ExitTrace
<1>4. ASSUME NEW f \in Files, UploadStat(f) \/ UploadStore(f) \/ DeleteFile(f) PROVE TraceInv'
  BY <1>4, BesideTrace
<1>5. ASSUME NEW b \in DOMAIN sealed, Push(b) \/ Rot(b) PROVE TraceInv'
  BY <1>1, <1>5, Zenon DEF Push, Rot
<1>6. ASSUME NEW t \in Tasks, NEW f \in Files, TaskBegin(t, f) PROVE TraceInv'
  BY <1>6, BeginTrace
<1>7. ASSUME NEW t \in Tasks,
             \/ Fetch(t) \/ Prefetched(t) \/ Validate(t) \/ Resolve(t) \/ ReadChunk(t)
             \/ WriteFail(t) \/ Finish(t) \/ Backup(t) \/ Rename(t) \/ Unlink(t)
      PROVE  TraceInv'
  BY <1>7, FetchTrace, ValidateTrace, ChunkTrace, WriteFailTrace, FinishTrace, BackupTrace,
     RenameTrace, UnlinkTrace
<1> QED BY <1>2, <1>3, <1>4, <1>5, <1>6, <1>7, Zenon DEF TransferNext

(* A save leaves no temporary plaintext and no renamed-away file behind when*)
(* it ends, however many saves are given the same destination, and what is at*)
(* the destination is whole (replace_destination_with_temp, decrypt_file).  *)
(* Left out are a crash, and a disk that refuses the cleanup itself.        *)
THEOREM SavesLeaveNoTrace ==
    Perils \cap {"changing", "epoch_disk", "disk", "crash"} = {}
        => (TransferSpec => []NoTrace)
<1> SUFFICES ASSUME Perils \cap {"changing", "epoch_disk", "disk", "crash"} = {}
             PROVE  TransferSpec => []NoTrace
  OBVIOUS
<1>0. /\ "changing" \notin Perils /\ "epoch_disk" \notin Perils
      /\ "disk" \notin Perils /\ "crash" \notin Perils
  OBVIOUS
<1>1. TransferInit => TraceInv
  <2> SUFFICES ASSUME TransferInit PROVE TraceInv
    OBVIOUS
  <2>1. temp = {} /\ \A t \in Tasks : ~task[t].bak.there
    BY DEF TransferInit, Idle, NoFile
  <2>2. (had => dest = Old) /\ (~had => dest = NoFile) /\ had \in BOOLEAN
    BY DEF TransferInit
  <2>3. Old.there /\ ~NoFile.there
    BY DEF Old, NoFile
  <2> QED BY <2>1, <2>2, <2>3 DEF TraceInv, WholeFile
<1>2. ByteInv /\ TraceInv /\ [TransferNext]_transferVars => TraceInv'
  BY <1>0, TraceStep
<1>3. ByteInv /\ TraceInv => NoTrace
  <2> SUFFICES ASSUME ByteInv, TraceInv PROVE NoTrace
    OBVIOUS
  <2>1. temp \subseteq Tasks
    BY DEF ByteInv, TransferTypes
  <2>2. temp \subseteq {t \in Tasks : Running(t)}
    BY <2>1 DEF TraceInv, Running
  <2>3. dest.there => dest = Old \/ \E f \in Files : dest.data = orig[f]
    BY DEF TraceInv, WholeFile
  <2> QED BY <2>2, <2>3 DEF TraceInv, NoTrace
<1> QED BY <1>0, <1>1, <1>2, <1>3, BytesKept, PTL DEF TransferSpec
=============================================================================
