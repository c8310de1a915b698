--------------------------- MODULE DestinationsProofs ---------------------------
(***************************************************************************)
(* Proofs about Destinations, for any number of blobs and destinations:     *)
(* types and a single primary for every constant; that nothing listed is    *)
(* pruned, as long as migrations leave backups alone; and, when nothing is  *)
(* cut short (Calm), that the primary is complete and that the queues say   *)
(* what the mirrors miss.                                                   *)
(***************************************************************************)
EXTENDS Destinations, FiniteSetTheorems, TLAPS

-----------------------------------------------------------------------------
(* Type correctness, for every constant.  A command that works on a         *)
(* destination has one; only set_primary_destination learns it later.       *)
DestKnown ==
    \A a \in Admins :
        /\ admin[a].pc = "idle" <=> admin[a].kind = "none"
        /\ admin[a].pc \in {"idle", "read"} \/ admin[a].dest \in Dests
        /\ admin[a].pc = "read" => admin[a].kind = "promote"

Typed == TypeOK /\ DestKnown

LEMMA IdleCommand ==
    IdleAdmin \in Commands /\ IdleAdmin.pc = "idle" /\ IdleAdmin.kind = "none"
  BY DEF IdleAdmin, Commands

LEMMA TypedInit == Init => Typed
  <1> SUFFICES ASSUME Init PROVE Typed OBVIOUS
  <1>1. IdleAdmin \in Commands /\ IdleAdmin.pc = "idle" /\ IdleAdmin.kind = "none"
    BY IdleCommand
  <1>2. mode \in [Dests -> Modes]
    BY DEF Init, Modes
  <1>3. TypeOK
    BY <1>1, <1>2, DestsAssumption DEF Init, TypeOK
  <1>4. DestKnown
    BY <1>1 DEF Init, DestKnown
  <1>5. QED BY <1>3, <1>4 DEF Typed

LEMMA TypedPush ==
    ASSUME Typed, PushStep PROVE Typed'
  <1> USE DEF Typed, TypeOK, files, tables, queues, local, link, backup
  <1>1. DestKnown'
    BY DEF DestKnown, PushStep, PushBegin, PushList, PushUpload, PushPublish, PushFail,
           PushDrain, PushListMirrors, PushEnqueue, PushEnd
  <1>2. CASE PushBegin \/ PushList \/ PushPublish \/ PushFail \/ PushListMirrors \/ PushEnd
    BY <1>1, <1>2 DEF PushBegin, PushList, PushPublish, PushFail, PushListMirrors, PushEnd,
         EndPush, Mirrors
  <1>3. CASE PushUpload
    <2>1. PICK b \in pushTodo \cap pending :
            /\ store' = [store EXCEPT ![pushVia] = @ \cup {b}]
            /\ pending' = pending \ {b}
            /\ pushTodo' = pushTodo \ {b} /\ pushUp' = pushUp \cup {b}
      BY <1>3 DEF PushUpload, Stored
    <2>2. store' \in [Dests -> SUBSET Blobs]
      BY <2>1
    <2>3. QED BY <1>1, <1>3, <2>1, <2>2 DEF PushUpload
  <1>4. CASE PushDrain
    <2>1. PICK b \in pendingDel :
            /\ store' = [store EXCEPT ![pushVia] = store[pushVia] \ {b}]
            /\ pendingDel' = pendingDel \ {b}
      BY <1>4 DEF PushDrain, Removed
    <2>2. store' \in [Dests -> SUBSET Blobs] /\ pendingDel' \subseteq Blobs
      BY <2>1
    <2>3. QED BY <1>1, <1>4, <2>2 DEF PushDrain, push
  <1>5. CASE PushEnqueue
    BY <1>1, <1>5 DEF PushEnqueue, Enqueued
  <1>6. QED BY <1>2, <1>3, <1>4, <1>5 DEF PushStep

LEMMA TypedBackup ==
    ASSUME Typed, BackupStep PROVE Typed'
  <1> USE DEF Typed, TypeOK, files, tables, queues, local, link, push
  <1>1. DestKnown'
    BY DEF DestKnown, BackupStep, BackupBegin, BackupNames, BackupLink, BackupOpen,
           BackupOpenFail, BackupBlob, BackupList, BackupPrune, BackupNext
  <1>2. CASE BackupBegin
    BY <1>1, <1>2 DEF BackupBegin, Mirrors
  <1>3. CASE BackupNames \/ BackupLink \/ BackupOpen \/ BackupOpenFail \/ BackupNext
    BY <1>1, <1>3 DEF BackupNames, BackupLink, BackupOpen, BackupOpenFail, BackupNext,
         EndBackup, QueuedFor
  <1>4. CASE BackupList
    BY <1>1, <1>4 DEF BackupList, Listed
  <1>5. CASE BackupPrune
    BY <1>1, <1>5 DEF BackupPrune, Removed
  <1>6. CASE BackupBlob
    <2>1. PICK b \in bkTodo :
            \/ BackupForget(b) \/ BackupFetch(b) \/ BackupMissing(b) \/ BackupSkip(b)
            \/ BackupUpload(b) \/ BackupUploadFail(b)
      BY <1>6 DEF BackupBlob
    <2>2. /\ store' \in [Dests -> SUBSET Blobs] /\ pendingBackup' \in [Dests -> SUBSET Blobs]
          /\ failures' \in [Dests -> SUBSET Blobs]
      <3>1. CASE BackupUpload(b) \/ BackupUploadFail(b)
        BY <3>1 DEF BackupUpload, BackupUploadFail, Stored, Dequeued, FailureCleared, Failed
      <3>2. CASE BackupForget(b) \/ BackupFetch(b) \/ BackupMissing(b) \/ BackupSkip(b)
        BY <3>2 DEF BackupForget, BackupFetch, BackupMissing, BackupSkip, Dequeued,
             FailureCleared
      <3>3. QED BY <2>1, <3>1, <3>2
    <2>3. bkTodo' \subseteq Blobs /\ bkTemp' \subseteq Blobs
      BY <2>1 DEF BackupForget, BackupFetch, BackupMissing, BackupSkip, BackupUpload,
           BackupUploadFail
    <2>4. UNCHANGED <<files, tables, local, issued, link, push, admin,
                      bkPc, bkVia, bkDests, bkMirrors, bkAll, bkDest>>
      BY <1>6 DEF BackupBlob
    <2>5. QED BY <1>1, <2>2, <2>3, <2>4
  <1>7. QED BY <1>2, <1>3, <1>4, <1>5, <1>6 DEF BackupStep

(* A destination command's record, replaced as a whole.                     *)
LEMMA Replaced ==
    ASSUME Typed, NEW a \in Admins, NEW r \in Commands, admin' = [admin EXCEPT ![a] = r],
           r.pc = "idle" <=> r.kind = "none",
           r.pc \in {"idle", "read"} \/ r.dest \in Dests,
           r.pc = "read" => r.kind = "promote"
    PROVE  admin' \in [Admins -> Commands] /\ DestKnown'
  BY DEF Typed, TypeOK, DestKnown

LEMMA Stepped ==
    ASSUME Typed, NEW a \in Admins,
           NEW pc \in {"queue", "conf", "swap", "clean"}, Step(a, pc),
           admin[a].pc \notin {"idle", "read"}
    PROVE  admin' \in [Admins -> Commands] /\ DestKnown'
  <1> DEFINE r == [admin[a] EXCEPT !.pc = pc]
  <1>1. admin[a] \in Commands
    BY DEF Typed, TypeOK
  <1>2. r \in Commands /\ r.pc = pc /\ r.kind = admin[a].kind /\ r.dest = admin[a].dest
    BY <1>1 DEF Commands
  <1>3. QED BY <1>2, Replaced DEF Step, DestKnown, Typed

LEMMA TypedAdd ==
    ASSUME Typed, NEW a \in Admins, AddStep(a) PROVE Typed'
  <1> USE DEF Typed, TypeOK, files, tables, queues, local, link, push, backup
  <1>1. CASE AddRow(a)
    <2>1. PICK d \in Dests \ issued, m \in Modes, isPrimary \in BOOLEAN :
            /\ InsertSession(d, m, isPrimary)
            /\ issued' = issued \cup {d}
            /\ IF m = "none" THEN UNCHANGED admin
               ELSE admin' = [admin EXCEPT ![a] = [IdleAdmin EXCEPT !.pc = "names", !.kind = "add",
                                                                    !.dest = d]]
      BY <1>1 DEF AddRow
    <2>2. admin' \in [Admins -> Commands] /\ DestKnown'
      <3>1. CASE m = "none"
        BY <2>1, <3>1 DEF DestKnown
      <3>2. CASE m # "none"
        <4> DEFINE r == [IdleAdmin EXCEPT !.pc = "names", !.kind = "add", !.dest = d]
        <4>1. r \in Commands /\ r.pc = "names" /\ r.kind = "add" /\ r.dest = d
          BY DEF IdleAdmin, Commands, Kinds
        <4>2. QED BY <2>1, <3>2, <4>1, Replaced
      <3>3. QED BY <3>1, <3>2
    <2>3. /\ mode' = [mode EXCEPT ![d] = m] /\ registered' = registered \cup {d}
          /\ primary' = IF isPrimary THEN {d} ELSE primary
      BY <2>1 DEF InsertSession
    <2>4. UNCHANGED <<files, queues, local, store, link, push, backup>>
      BY <1>1 DEF AddRow
    <2>5. QED BY <2>1, <2>2, <2>3, <2>4
  <1>2. CASE AddNames(a)
    <2> DEFINE r == [admin[a] EXCEPT !.pc = "seed", !.names = refs]
    <2>0. admin[a] \in Commands /\ refs \subseteq Blobs
      OBVIOUS
    <2>1. /\ r \in Commands /\ r.pc = "seed" /\ r.kind = admin[a].kind /\ r.dest = admin[a].dest
          /\ admin' = [admin EXCEPT ![a] = r]
      <3>1. admin' = [admin EXCEPT ![a] = r]
        BY <1>2 DEF AddNames
      <3>2. r \in Commands /\ r.pc = "seed" /\ r.kind = admin[a].kind /\ r.dest = admin[a].dest
        BY <2>0 DEF Commands
      <3>3. QED BY <3>1, <3>2
    <2>2. admin' \in [Admins -> Commands] /\ DestKnown'
      BY <1>2, <2>1, Replaced DEF AddNames, DestKnown
    <2>3. QED BY <1>2, <2>2 DEF AddNames
  <1>3. CASE AddSeed(a)
    <2>1. admin' \in [Admins -> Commands] /\ DestKnown'
      BY <1>3, Replaced, IdleCommand DEF AddSeed, Done
    <2>2. admin[a].names \subseteq Blobs
      BY DEF Commands
    <2>3. pendingBackup' \in [Dests -> SUBSET Blobs]
      BY <1>3, <2>2 DEF AddSeed, Enqueued
    <2>4. QED BY <1>3, <2>1, <2>3 DEF AddSeed
  <1>4. QED BY <1>1, <1>2, <1>3 DEF AddStep

LEMMA TypedDelete ==
    ASSUME Typed, NEW a \in Admins, DeleteStep(a) PROVE Typed'
  <1> USE DEF Typed, TypeOK, files, tables, queues, local, link, push, backup
  <1>1. CASE DeleteCheck(a)
    <2>1. PICK d \in Dests : admin' = [admin EXCEPT ![a] =
                                  [IdleAdmin EXCEPT !.pc = "row", !.kind = "delete", !.dest = d]]
      BY <1>1 DEF DeleteCheck, Mirrors
    <2> DEFINE r == [IdleAdmin EXCEPT !.pc = "row", !.kind = "delete", !.dest = d]
    <2>2. r \in Commands /\ r.pc = "row" /\ r.kind = "delete" /\ r.dest = d
      BY DEF IdleAdmin, Commands, Kinds
    <2>3. admin' \in [Admins -> Commands] /\ DestKnown'
      BY <2>1, <2>2, Replaced
    <2>4. QED BY <1>1, <2>3 DEF DeleteCheck
  <1>2. CASE DeleteRow(a)
    <2>1. admin' \in [Admins -> Commands] /\ DestKnown'
      BY <1>2, Stepped DEF DeleteRow
    <2>2. QED BY <1>2, <2>1 DEF DeleteRow
  <1>3. CASE DeleteQueue(a)
    <2>1. admin' \in [Admins -> Commands] /\ DestKnown'
      BY <1>3, Replaced, IdleCommand DEF DeleteQueue, Done
    <2>2. QED BY <1>3, <2>1 DEF DeleteQueue
  <1>4. QED BY <1>1, <1>2, <1>3 DEF DeleteStep

LEMMA TypedPromote ==
    ASSUME Typed, NEW a \in Admins, PromoteStep(a) PROVE Typed'
  <1> USE DEF Typed, TypeOK, files, tables, queues, local, link, push, backup
  <1>1. CASE PromoteRow(a)
    <2>1. PICK d \in registered :
            /\ SwapPrimary(d)
            /\ admin' = [admin EXCEPT ![a] = [IdleAdmin EXCEPT !.pc = "read", !.kind = "promote"]]
      BY <1>1 DEF PromoteRow
    <2> DEFINE r == [IdleAdmin EXCEPT !.pc = "read", !.kind = "promote"]
    <2>2. r \in Commands /\ r.pc = "read" /\ r.kind = "promote"
      BY DEF IdleAdmin, Commands, Kinds
    <2>3. admin' \in [Admins -> Commands] /\ DestKnown'
      BY <2>1, <2>2, Replaced
    <2>4. mode' \in [Dests -> Modes] /\ primary' = {d} /\ UNCHANGED registered
      BY <2>1 DEF SwapPrimary, Modes
    <2>5. QED BY <1>1, <2>3, <2>4 DEF PromoteRow
  <1>2. CASE PromoteRead(a)
    <2>1. admin' \in [Admins -> Commands] /\ DestKnown'
      <3>1. CASE Done(a)
        BY <3>1, Replaced, IdleCommand DEF Done
      <3>2. CASE ~Done(a)
        <4>1. PICK d \in primary : admin' = [admin EXCEPT ![a] =
                                                [admin[a] EXCEPT !.pc = "conf", !.dest = d]]
          BY <1>2, <3>2 DEF PromoteRead
        <4> DEFINE r == [admin[a] EXCEPT !.pc = "conf", !.dest = d]
        <4>2. r \in Commands /\ r.pc = "conf" /\ r.kind = admin[a].kind /\ r.dest = d
          BY SMTT(30), ZenonT(30) DEF Commands
        <4>3. QED BY <1>2, <4>1, <4>2, Replaced, SMTT(30), ZenonT(30) DEF PromoteRead
      <3>3. QED BY <3>1, <3>2
    <2>2. QED BY <1>2, <2>1 DEF PromoteRead
  <1>3. CASE PromoteConf(a)
    <2>1. admin' \in [Admins -> Commands] /\ DestKnown'
      BY <1>3, Stepped, Replaced, IdleCommand DEF PromoteConf, Done
    <2>2. admin[a].dest \in Dests
      BY <1>3 DEF PromoteConf, DestKnown
    <2>3. QED BY <1>3, <2>1, <2>2 DEF PromoteConf
  <1>4. CASE PromoteSwap(a)
    <2>1. admin' \in [Admins -> Commands] /\ DestKnown'
      BY <1>4, Replaced, IdleCommand DEF PromoteSwap, Done
    <2>2. admin[a].dest \in Dests
      BY <1>4 DEF PromoteSwap, DestKnown
    <2>3. QED BY <1>4, <2>1, <2>2 DEF PromoteSwap
  <1>5. QED BY <1>1, <1>2, <1>3, <1>4 DEF PromoteStep

LEMMA TypedMigrate ==
    ASSUME Typed, NEW a \in Admins, MigrateStep(a) PROVE Typed'
  <1> USE DEF Typed, TypeOK, files, tables, queues, local, link, push, backup
  <1>0. /\ admin[a].names \subseteq Blobs /\ admin[a].got \subseteq Blobs
        /\ admin[a].sent \subseteq Blobs
    BY DEF Commands
  <1>1. CASE MigrateList(a)
    <2>1. PICK d \in registered : admin' = [admin EXCEPT ![a] =
              [IdleAdmin EXCEPT !.pc = "fetch", !.kind = "migrate", !.dest = d,
                                !.via = transport, !.names = refs, !.sent = refs \cap root]]
      BY <1>1 DEF MigrateList
    <2> DEFINE r == [IdleAdmin EXCEPT !.pc = "fetch", !.kind = "migrate", !.dest = d,
                                      !.via = transport, !.names = refs, !.sent = refs \cap root]
    <2>2. r \in Commands /\ r.pc = "fetch" /\ r.kind = "migrate" /\ r.dest = d
      BY DEF IdleAdmin, Commands, Kinds
    <2>3. admin' \in [Admins -> Commands] /\ DestKnown'
      BY <2>1, <2>2, Replaced
    <2>4. QED BY <1>1, <2>3 DEF MigrateList
  <1>2. CASE MigrateFetch(a)
    <2>1. PICK b \in admin[a].names :
              /\ root' = root \cup {b}
              /\ admin' = [admin EXCEPT ![a] = [admin[a] EXCEPT !.got = admin[a].got \cup {b}]]
      BY <1>2 DEF MigrateFetch
    <2> DEFINE r == [admin[a] EXCEPT !.got = admin[a].got \cup {b}]
    <2>2. r \in Commands /\ r.pc = "fetch" /\ r.kind = "migrate" /\ r.dest = admin[a].dest
      BY <1>0, <1>2 DEF MigrateFetch, Commands
    <2>3. admin' \in [Admins -> Commands] /\ DestKnown'
      BY <2>1, <2>2, Replaced DEF DestKnown
    <2>4. QED BY <1>0, <1>2, <2>1, <2>3 DEF MigrateFetch
  <1>3. CASE MigrateFetchFail(a) \/ MigrateClean(a) \/ MigrateSendFail(a)
    <2>1. admin' \in [Admins -> Commands] /\ DestKnown'
      BY <1>3, Replaced, IdleCommand DEF MigrateFetchFail, MigrateClean, MigrateSendFail, Done
    <2>2. CASE MigrateFetchFail(a)
      BY <2>1, <2>2 DEF MigrateFetchFail
    <2>3. CASE MigrateClean(a)
      BY <2>1, <2>3 DEF MigrateClean
    <2>4. CASE MigrateSendFail(a)
      BY <2>1, <2>4 DEF MigrateSendFail
    <2>5. QED BY <1>3, <2>2, <2>3, <2>4
  <1>4. CASE MigrateFetched(a)
    <2> DEFINE r == [admin[a] EXCEPT !.pc = "send", !.sent = {}]
    <2>1. /\ r \in Commands /\ r.pc = "send" /\ r.kind = "migrate" /\ r.dest = admin[a].dest
          /\ admin' = [admin EXCEPT ![a] = r]
      <3>1. admin' = [admin EXCEPT ![a] = r] /\ admin[a].kind = "migrate"
        BY <1>4 DEF MigrateFetched
      <3>2. r \in Commands /\ r.pc = "send" /\ r.kind = admin[a].kind /\ r.dest = admin[a].dest
        BY <1>0, SMTT(30), ZenonT(30) DEF Commands
      <3>3. QED BY <3>1, <3>2
    <2>2. admin' \in [Admins -> Commands] /\ DestKnown'
      BY <1>4, <2>1, Replaced DEF MigrateFetched, DestKnown
    <2>3. QED BY <1>4, <2>2 DEF MigrateFetched
  <1>5. CASE MigrateSend(a)
    <2>1. PICK b \in admin[a].names :
              /\ store' = Stored(b, admin[a].dest)
              /\ admin' = [admin EXCEPT ![a] = [admin[a] EXCEPT !.sent = admin[a].sent \cup {b}]]
      BY <1>5 DEF MigrateSend
    <2> DEFINE r == [admin[a] EXCEPT !.sent = admin[a].sent \cup {b}]
    <2>2. r \in Commands /\ r.pc = "send" /\ r.kind = "migrate" /\ r.dest = admin[a].dest
      BY <1>0, <1>5 DEF MigrateSend, Commands
    <2>3. admin' \in [Admins -> Commands] /\ DestKnown'
      BY <1>5, <2>1, <2>2, Replaced DEF DestKnown, MigrateSend
    <2>4. store' \in [Dests -> SUBSET Blobs]
      BY <1>0, <2>1 DEF Stored
    <2>5. QED BY <1>5, <2>3, <2>4 DEF MigrateSend
  <1>6. CASE MigrateRow(a)
    <2>1. admin' \in [Admins -> Commands] /\ DestKnown'
      BY <1>6, Stepped, Replaced, IdleCommand DEF MigrateRow, Done
    <2>2. CASE UNCHANGED tables
      BY <1>6, <2>1, <2>2 DEF MigrateRow
    <2>3. CASE admin[a].dest \in registered /\ SwapPrimary(admin[a].dest)
      <3>1. mode' \in [Dests -> Modes] /\ primary' = {admin[a].dest} /\ UNCHANGED registered
        BY <2>3 DEF SwapPrimary, Modes
      <3>2. QED BY <1>6, <2>1, <2>3, <3>1 DEF MigrateRow
    <2>4. QED BY <1>6, <2>2, <2>3 DEF MigrateRow
  <1>7. CASE MigrateConf(a) \/ MigrateSwap(a)
    <2>1. admin' \in [Admins -> Commands] /\ DestKnown'
      BY <1>7, Stepped DEF MigrateConf, MigrateSwap
    <2>2. QED BY <1>7, <2>1 DEF MigrateConf, MigrateSwap
  <1>8. QED BY <1>1, <1>2, <1>3, <1>4, <1>5, <1>6, <1>7 DEF MigrateStep

LEMMA TypedNext == Typed /\ [Next]_vars => Typed'
  <1> SUFFICES ASSUME Typed, [Next]_vars PROVE Typed' OBVIOUS
  <1>1. CASE AddFile \/ DeleteFile
    <2>1. DestKnown'
      BY <1>1 DEF Typed, DestKnown, AddFile, DeleteFile
    <2>2. QED BY <1>1, <2>1 DEF Typed, TypeOK, AddFile, DeleteFile, tables, queues, link, push,
                                backup
  <1>2. CASE Restart
    <2>1. admin' \in [Admins -> Commands] /\ DestKnown'
      BY <1>2, IdleCommand DEF Restart, DestKnown
    <2>2. QED BY <1>2, <2>1 DEF Typed, TypeOK, Restart, files, tables, queues, EndPush, EndBackup
  <1>3. CASE UNCHANGED vars
    BY <1>3 DEF vars, Typed, TypeOK, DestKnown, files, tables, queues, local, link, push, backup
  <1>4. QED BY <1>1, <1>2, <1>3, TypedPush, TypedBackup, TypedAdd, TypedDelete, TypedPromote,
               TypedMigrate DEF Next

(* Every reachable state is well typed, whatever overlaps and fails; in     *)
(* particular there is never a second primary (insert_destination_session,  *)
(* swap_primary_destination).                                               *)
THEOREM TypeCorrect == Spec => []TypeOK
  <1>1. Typed => TypeOK
    BY DEF Typed
  <1>2. QED BY <1>1, TypedInit, TypedNext, PTL DEF Spec

-----------------------------------------------------------------------------
(* Blob names are generated once (fresh UUIDs): whatever names a blob, in a *)
(* table, a directory, a remote or a running task, names one of them.       *)
LocalNames ==
    /\ refs \subseteq used /\ pendingDel \subseteq used /\ pending \subseteq used
    /\ root \subseteq used /\ pushTodo \subseteq used /\ pushUp \subseteq used
    /\ bkAll \subseteq used /\ bkTemp \subseteq used /\ bkTodo \subseteq used

RemoteNames == \A d \in Dests : store[d] \subseteq used /\ pendingBackup[d] \subseteq used

CommandNames == \A a \in Admins : admin[a].names \subseteq used /\ admin[a].got \subseteq used

NamesUsed == LocalNames /\ RemoteNames /\ CommandNames /\ IsFiniteSet(used)

LEMMA NamesInit == Init => NamesUsed
  <1> SUFFICES ASSUME Init PROVE NamesUsed OBVIOUS
  <1>1. LocalNames /\ RemoteNames
    BY DEF Init, LocalNames, RemoteNames
  <1>2. CommandNames
    BY DEF Init, CommandNames, IdleAdmin
  <1>3. IsFiniteSet(used)
    BY FS_EmptySet DEF Init
  <1>4. QED BY <1>1, <1>2, <1>3 DEF NamesUsed

LEMMA NamesPush ==
    ASSUME Typed, NamesUsed, PushStep PROVE NamesUsed'
  <1> USE DEF files, tables, queues, local, link, backup
  <1>0. UNCHANGED <<refs, used, root, backup, admin>>
    BY DEF PushStep, PushBegin, PushList, PushUpload, PushPublish, PushFail, PushDrain,
           PushListMirrors, PushEnqueue, PushEnd
  <1>1. LocalNames'
    BY <1>0 DEF NamesUsed, LocalNames, PushStep, PushBegin, PushList, PushUpload, PushPublish,
           PushFail, EndPush, PushDrain, PushListMirrors, PushEnqueue, PushEnd, push
  <1>2. RemoteNames'
    <2>1. CASE PushUpload \/ PushDrain
      BY <1>0, <2>1 DEF NamesUsed, LocalNames, RemoteNames, Typed, TypeOK, PushUpload, PushDrain,
             Stored, Removed
    <2>2. CASE PushEnqueue
      BY <1>0, <2>2 DEF NamesUsed, LocalNames, RemoteNames, Typed, TypeOK, PushEnqueue, Enqueued
    <2>3. CASE UNCHANGED <<store, queues>>
      BY <1>0, <2>3 DEF NamesUsed, RemoteNames
    <2>4. QED BY <2>1, <2>2, <2>3 DEF PushStep, PushBegin, PushList, PushPublish, PushFail,
                 PushListMirrors, PushEnd
  <1>3. CommandNames' /\ IsFiniteSet(used')
    BY <1>0 DEF NamesUsed, CommandNames
  <1>4. QED BY <1>1, <1>2, <1>3 DEF NamesUsed

LEMMA NamesBackup ==
    ASSUME Typed, NamesUsed, BackupStep PROVE NamesUsed'
  <1> USE DEF files, tables, queues, local, link, push
  <1>0. UNCHANGED <<files, local, push, admin>>
    BY DEF BackupStep, BackupBegin, BackupNames, BackupLink, BackupOpen, BackupOpenFail,
           BackupBlob, BackupList, BackupPrune, BackupNext
  <1>1. CASE BackupBlob
    <2>1. PICK b \in bkTodo :
            \/ BackupForget(b) \/ BackupFetch(b) \/ BackupMissing(b) \/ BackupSkip(b)
            \/ BackupUpload(b) \/ BackupUploadFail(b)
      BY <1>1 DEF BackupBlob
    <2>2. UNCHANGED bkAll
      BY <1>1 DEF BackupBlob
    <2>3. LocalNames'
      BY <1>0, <2>1, <2>2 DEF NamesUsed, LocalNames, BackupForget, BackupFetch, BackupMissing,
             BackupSkip, BackupUpload, BackupUploadFail
    <2>4. RemoteNames'
      BY <1>0, <2>1 DEF NamesUsed, LocalNames, RemoteNames, Typed, TypeOK, BackupForget,
             BackupFetch, BackupMissing, BackupSkip, BackupUpload, BackupUploadFail,
             Stored, Dequeued
    <2>5. QED BY <1>0, <2>3, <2>4 DEF NamesUsed, CommandNames
  <1>2. CASE ~BackupBlob
    <2>1. LocalNames'
      BY <1>0, <1>2 DEF NamesUsed, LocalNames, RemoteNames, Typed, TypeOK, BackupStep,
             BackupBegin, BackupNames, BackupLink, BackupOpen, BackupOpenFail, BackupList,
             BackupPrune, BackupNext, EndBackup, QueuedFor, Listed
    <2>2. RemoteNames'
      BY <1>0, <1>2 DEF NamesUsed, RemoteNames, Typed, TypeOK, BackupStep,
             BackupBegin, BackupNames, BackupLink, BackupOpen, BackupOpenFail, BackupList,
             BackupPrune, BackupNext, Removed
    <2>3. QED BY <1>0, <2>1, <2>2 DEF NamesUsed, CommandNames
  <1>3. QED BY <1>1, <1>2

LEMMA NamesReplaced ==
    ASSUME Typed, CommandNames, NEW a \in Admins, NEW r, admin' = [admin EXCEPT ![a] = r],
           UNCHANGED used, r.names \subseteq used, r.got \subseteq used
    PROVE  CommandNames'
  BY DEF Typed, TypeOK, CommandNames

LEMMA NamesCommand ==
    ASSUME Typed, NamesUsed, NEW a \in Admins,
           AddStep(a) \/ DeleteStep(a) \/ PromoteStep(a) \/ MigrateStep(a)
    PROVE  NamesUsed'
  <1> USE DEF files, tables, queues, local, link, push, backup
  <1> DEFINE c == admin[a]
  <1>0. /\ c \in Commands /\ c.names \subseteq used /\ c.got \subseteq used
        /\ IdleAdmin.names = {} /\ IdleAdmin.got = {} /\ IdleAdmin \in Commands
    BY IdleCommand DEF Typed, TypeOK, NamesUsed, CommandNames, IdleAdmin
  <1>1. UNCHANGED <<files, pending, pushTodo, pushUp, bkAll, bkTemp, bkTodo>>
    BY DEF AddStep, AddRow, AddNames, AddSeed, DeleteStep, DeleteCheck, DeleteRow, DeleteQueue,
           PromoteStep, PromoteRow, PromoteRead, PromoteConf, PromoteSwap, MigrateStep,
           MigrateList, MigrateFetch, MigrateFetchFail, MigrateFetched, MigrateSend,
           MigrateSendFail, MigrateRow, MigrateConf, MigrateSwap, MigrateClean
  <1>2. LocalNames'
    <2>1. CASE MigrateFetch(a)
      BY <1>0, <1>1, <2>1 DEF NamesUsed, LocalNames, MigrateFetch
    <2>2. CASE MigrateFetchFail(a) \/ MigrateClean(a)
      BY <1>1, <2>2 DEF NamesUsed, LocalNames, MigrateFetchFail, MigrateClean
    <2>3. CASE UNCHANGED root
      BY <1>1, <2>3 DEF NamesUsed, LocalNames
    <2>4. QED BY <2>1, <2>2, <2>3 DEF AddStep, AddRow, AddNames, AddSeed, DeleteStep,
                 DeleteCheck, DeleteRow, DeleteQueue, PromoteStep, PromoteRow, PromoteRead,
                 PromoteConf, PromoteSwap, MigrateStep, MigrateList, MigrateFetched, MigrateSend,
                 MigrateSendFail, MigrateRow, MigrateConf, MigrateSwap
  <1>3. RemoteNames'
    <2>1. CASE AddSeed(a)
      BY <1>0, <1>1, <2>1 DEF NamesUsed, RemoteNames, Typed, TypeOK, AddSeed, Enqueued
    <2>2. CASE DeleteQueue(a)
      BY <1>1, <2>2 DEF NamesUsed, RemoteNames, Typed, TypeOK, DeleteQueue
    <2>3. CASE MigrateSend(a)
      BY <1>0, <1>1, <2>3 DEF NamesUsed, RemoteNames, Typed, TypeOK, MigrateSend, Stored
    <2>4. CASE UNCHANGED <<store, pendingBackup>>
      BY <1>1, <2>4 DEF NamesUsed, RemoteNames
    <2>5. QED BY <2>1, <2>2, <2>3, <2>4 DEF AddStep, AddRow, AddNames, DeleteStep,
                 DeleteCheck, DeleteRow, PromoteStep, PromoteRow, PromoteRead,
                 PromoteConf, PromoteSwap, MigrateStep, MigrateList, MigrateFetch,
                 MigrateFetchFail, MigrateFetched, MigrateSendFail, MigrateRow, MigrateConf,
                 MigrateSwap, MigrateClean
  <1>4. CommandNames'
    <2> USE NamesReplaced DEF NamesUsed
    <2>0. CASE UNCHANGED admin
      BY <1>1, <2>0 DEF CommandNames
    <2>1. CASE Done(a)
      BY <1>0, <1>1, <2>1 DEF Done
    <2>2. CASE \E pc \in {"queue", "conf", "swap", "clean"} : Step(a, pc)
      <3>1. PICK pc : admin' = [admin EXCEPT ![a] = [c EXCEPT !.pc = pc]]
        BY <2>2 DEF Step
      <3> DEFINE r == [c EXCEPT !.pc = pc]
      <3>2. r.names = c.names /\ r.got = c.got
        BY <1>0 DEF Commands
      <3>3. QED BY <1>0, <1>1, <3>1, <3>2
    <2>3. CASE AddStep(a)
      <3>1. CASE AddRow(a)
        <4>1. PICK d \in Dests : \/ UNCHANGED admin
                                 \/ admin' = [admin EXCEPT ![a] = [IdleAdmin EXCEPT
                                                  !.pc = "names", !.kind = "add", !.dest = d]]
          BY <3>1 DEF AddRow
        <4> DEFINE r == [IdleAdmin EXCEPT !.pc = "names", !.kind = "add", !.dest = d]
        <4>2. r.names = {} /\ r.got = {}
          BY <1>0 DEF IdleAdmin
        <4>3. QED BY <1>1, <2>0, <4>1, <4>2
      <3>2. CASE AddNames(a)
        <4> DEFINE r == [c EXCEPT !.pc = "seed", !.names = refs]
        <4>1. r.names = refs /\ r.got = c.got
          BY <1>0 DEF Commands
        <4>2. QED BY <1>0, <1>1, <3>2, <4>1 DEF AddNames, LocalNames
      <3>3. QED BY <2>1, <2>3, <3>1, <3>2 DEF AddStep, AddSeed
    <2>4. CASE DeleteStep(a)
      <3>1. CASE DeleteCheck(a)
        <4>1. PICK d : admin' = [admin EXCEPT ![a] = [IdleAdmin EXCEPT
                                                  !.pc = "row", !.kind = "delete", !.dest = d]]
          BY <3>1 DEF DeleteCheck
        <4> DEFINE r == [IdleAdmin EXCEPT !.pc = "row", !.kind = "delete", !.dest = d]
        <4>2. r.names = {} /\ r.got = {}
          BY <1>0 DEF IdleAdmin
        <4>3. QED BY <1>1, <4>1, <4>2
      <3>2. QED BY <2>1, <2>2, <2>4, <3>1 DEF DeleteStep, DeleteRow, DeleteQueue
    <2>5. CASE PromoteStep(a)
      <3>1. CASE PromoteRow(a)
        <4> DEFINE r == [IdleAdmin EXCEPT !.pc = "read", !.kind = "promote"]
        <4>1. r.names = {} /\ r.got = {}
          BY <1>0 DEF IdleAdmin
        <4>2. QED BY <1>1, <3>1, <4>1 DEF PromoteRow
      <3>2. CASE PromoteRead(a) /\ ~Done(a)
        <4>1. PICK d : admin' = [admin EXCEPT ![a] = [c EXCEPT !.pc = "conf", !.dest = d]]
          BY <3>2 DEF PromoteRead
        <4> DEFINE r == [c EXCEPT !.pc = "conf", !.dest = d]
        <4>2. r.names = c.names /\ r.got = c.got
          BY <1>0 DEF Commands
        <4>3. QED BY <1>0, <1>1, <4>1, <4>2
      <3>3. QED BY <2>1, <2>2, <2>5, <3>1, <3>2 DEF PromoteStep, PromoteConf, PromoteSwap
    <2>6. CASE MigrateStep(a)
      <3>1. CASE MigrateList(a)
        <4>1. PICK d : admin' = [admin EXCEPT ![a] = [IdleAdmin EXCEPT
                  !.pc = "fetch", !.kind = "migrate", !.dest = d, !.via = transport,
                  !.names = refs, !.sent = refs \cap root]]
          BY <3>1 DEF MigrateList
        <4> DEFINE r == [IdleAdmin EXCEPT
                  !.pc = "fetch", !.kind = "migrate", !.dest = d, !.via = transport,
                  !.names = refs, !.sent = refs \cap root]
        <4>2. r.names = refs /\ r.got = {}
          BY <1>0 DEF IdleAdmin
        <4>3. QED BY <1>1, <4>1, <4>2 DEF LocalNames
      <3>2. CASE MigrateFetch(a)
        <4>1. PICK b \in c.names :
                  admin' = [admin EXCEPT ![a] = [c EXCEPT !.got = c.got \cup {b}]]
          BY <3>2 DEF MigrateFetch
        <4> DEFINE r == [c EXCEPT !.got = c.got \cup {b}]
        <4>2. r.names = c.names /\ r.got = c.got \cup {b}
          BY <1>0 DEF Commands
        <4>3. QED BY <1>0, <1>1, <4>1, <4>2
      <3>3. CASE MigrateFetched(a)
        <4> DEFINE r == [c EXCEPT !.pc = "send", !.sent = {}]
        <4>1. r.names = c.names /\ r.got = c.got
          BY <1>0 DEF Commands
        <4>2. QED BY <1>0, <1>1, <3>3, <4>1 DEF MigrateFetched
      <3>4. CASE MigrateSend(a)
        <4>1. PICK b : admin' = [admin EXCEPT ![a] = [c EXCEPT !.sent = c.sent \cup {b}]]
          BY <3>4 DEF MigrateSend
        <4> DEFINE r == [c EXCEPT !.sent = c.sent \cup {b}]
        <4>2. r.names = c.names /\ r.got = c.got
          BY <1>0 DEF Commands
        <4>3. QED BY <1>0, <1>1, <4>1, <4>2
      <3>5. QED BY <2>1, <2>2, <2>6, <3>1, <3>2, <3>3, <3>4 DEF MigrateStep, MigrateFetchFail,
                   MigrateSendFail, MigrateRow, MigrateConf, MigrateSwap, MigrateClean
    <2>7. QED BY <2>3, <2>4, <2>5, <2>6
  <1>5. QED BY <1>1, <1>2, <1>3, <1>4 DEF NamesUsed

LEMMA NamesNext == Typed /\ NamesUsed /\ [Next]_vars => NamesUsed'
  <1> SUFFICES ASSUME Typed, NamesUsed, [Next]_vars PROVE NamesUsed' OBVIOUS
  <1> USE DEF files, tables, queues, local, link, push, backup
  <1>1. CASE AddFile
    <2>1. PICK b \in Blobs : used' = used \cup {b}
      BY <1>1 DEF AddFile
    <2>2. IsFiniteSet(used')
      BY <2>1, FS_AddElement DEF NamesUsed
    <2>3. LocalNames' /\ RemoteNames' /\ CommandNames'
      BY <1>1 DEF AddFile, NamesUsed, LocalNames, RemoteNames, CommandNames
    <2>4. QED BY <2>2, <2>3 DEF NamesUsed
  <1>2. CASE DeleteFile
    BY <1>2 DEF DeleteFile, NamesUsed, LocalNames, RemoteNames, CommandNames
  <1>3. CASE Restart
    <2>1. LocalNames' /\ RemoteNames' /\ IsFiniteSet(used')
      BY <1>3 DEF Restart, EndPush, EndBackup, NamesUsed, LocalNames, RemoteNames
    <2>2. CommandNames'
      BY <1>3 DEF Restart, CommandNames, IdleAdmin
    <2>3. QED BY <2>1, <2>2 DEF NamesUsed
  <1>4. CASE UNCHANGED vars
    BY <1>4 DEF vars, NamesUsed, LocalNames, RemoteNames, CommandNames
  <1>5. QED BY <1>1, <1>2, <1>3, <1>4, NamesPush, NamesBackup, NamesCommand DEF Next


-----------------------------------------------------------------------------
(* sync_mutex: a push and a backup exclude each other.  A command that does *)
(* not overlap them is never in flight beside one.                          *)
Alone ==
    /\ pushPc = "idle" \/ bkPc = "idle"
    /\ SyncRunning => \A a \in Admins : admin[a].kind \in Overlap \cup {"none"}

(* No remote holds a listed blob that a running backup does not know of,    *)
(* and what it is about to prune is not listed.                             *)
BackupKnows ==
    /\ bkPc \in {"link", "next", "blobs", "prune"} =>
          \A d \in Dests : \A b \in store[d] : b \in refs => b \in bkAll
    /\ bkPc = "prune" => bkTodo \cap refs = {}

DeletedUnlisted == pendingDel \cap refs = {}

PruneInv == Typed /\ NamesUsed /\ Alone /\ BackupKnows /\ DeletedUnlisted

LEMMA PruneInit == Init => PruneInv
  <1> SUFFICES ASSUME Init PROVE PruneInv OBVIOUS
  <1>1. Alone /\ BackupKnows /\ DeletedUnlisted
    BY DEF Init, Alone, BackupKnows, DeletedUnlisted, SyncRunning
  <1>2. QED BY <1>1, TypedInit, NamesInit DEF PruneInv

(* A command is of the kind it began as, until it is done.                  *)
LEMMA KindKept ==
    ASSUME Typed, NEW a \in Admins,
           AddStep(a) \/ DeleteStep(a) \/ PromoteStep(a) \/ MigrateStep(a), SyncRunning
    PROVE  \A e \in Admins : admin'[e].kind \in Overlap \cup {"none", admin[e].kind}
  <1> DEFINE c == admin[a]
  <1>0. c \in Commands /\ IdleAdmin \in Commands /\ IdleAdmin.kind = "none"
    BY IdleCommand DEF Typed, TypeOK
  <1>1. SUFFICES \/ UNCHANGED admin
                 \/ \E r : /\ admin' = [admin EXCEPT ![a] = r]
                           /\ r.kind \in Overlap \cup {"none", c.kind}
    BY DEF Typed, TypeOK
  <1>2. CASE Done(a)
    BY <1>0, <1>2 DEF Done
  <1>3. CASE \E pc \in {"queue", "conf", "swap", "clean"} : Step(a, pc)
    <2>1. PICK pc : admin' = [admin EXCEPT ![a] = [c EXCEPT !.pc = pc]]
      BY <1>3 DEF Step
    <2>2. [c EXCEPT !.pc = pc].kind = c.kind
      BY <1>0 DEF Commands
    <2>3. QED BY <2>1, <2>2
  <1>4. CASE AddRow(a)
    <2>1. PICK d : \/ UNCHANGED admin
                   \/ admin' = [admin EXCEPT ![a] = [IdleAdmin EXCEPT
                                                  !.pc = "names", !.kind = "add", !.dest = d]]
      BY <1>4 DEF AddRow
    <2>2. [IdleAdmin EXCEPT !.pc = "names", !.kind = "add", !.dest = d].kind = "add"
      BY DEF IdleAdmin
    <2>3. "add" \in Overlap
      BY <1>4 DEF AddRow, MayStart
    <2>4. QED BY <2>1, <2>2, <2>3
  <1>5. CASE AddNames(a)
    <2>1. [c EXCEPT !.pc = "seed", !.names = refs].kind = c.kind
      BY <1>0 DEF Commands
    <2>2. QED BY <1>5, <2>1 DEF AddNames
  <1>6. CASE DeleteCheck(a)
    <2>1. PICK d : admin' = [admin EXCEPT ![a] = [IdleAdmin EXCEPT
                                                  !.pc = "row", !.kind = "delete", !.dest = d]]
      BY <1>6 DEF DeleteCheck
    <2>2. [IdleAdmin EXCEPT !.pc = "row", !.kind = "delete", !.dest = d].kind = "delete"
      BY DEF IdleAdmin
    <2>3. "delete" \in Overlap
      BY <1>6 DEF DeleteCheck, MayStart
    <2>4. QED BY <2>1, <2>2, <2>3
  <1>7. CASE PromoteRow(a)
    <2>1. admin' = [admin EXCEPT ![a] = [IdleAdmin EXCEPT !.pc = "read", !.kind = "promote"]]
      BY <1>7 DEF PromoteRow
    <2>2. [IdleAdmin EXCEPT !.pc = "read", !.kind = "promote"].kind = "promote"
      BY DEF IdleAdmin
    <2>3. "promote" \in Overlap
      BY <1>7 DEF PromoteRow, MayStart
    <2>4. QED BY <2>1, <2>2, <2>3
  <1>8. CASE PromoteRead(a) /\ ~Done(a)
    <2>1. PICK d : admin' = [admin EXCEPT ![a] = [c EXCEPT !.pc = "conf", !.dest = d]]
      BY <1>8 DEF PromoteRead
    <2>2. [c EXCEPT !.pc = "conf", !.dest = d].kind = c.kind
      BY <1>0 DEF Commands
    <2>3. QED BY <2>1, <2>2
  <1>9. CASE MigrateList(a)
    <2>1. PICK d : admin' = [admin EXCEPT ![a] = [IdleAdmin EXCEPT
              !.pc = "fetch", !.kind = "migrate", !.dest = d, !.via = transport,
              !.names = refs, !.sent = refs \cap root]]
      BY <1>9 DEF MigrateList
    <2>2. [IdleAdmin EXCEPT
              !.pc = "fetch", !.kind = "migrate", !.dest = d, !.via = transport,
              !.names = refs, !.sent = refs \cap root].kind = "migrate"
      BY DEF IdleAdmin
    <2>3. "migrate" \in Overlap
      BY <1>9 DEF MigrateList, MayStart
    <2>4. QED BY <2>1, <2>2, <2>3
  <1>10. CASE MigrateFetch(a) \/ MigrateSend(a)
    <2>1. PICK b : \/ admin' = [admin EXCEPT ![a] = [c EXCEPT !.got = c.got \cup {b}]]
                   \/ admin' = [admin EXCEPT ![a] = [c EXCEPT !.sent = c.sent \cup {b}]]
      BY <1>10 DEF MigrateFetch, MigrateSend
    <2>2. /\ [c EXCEPT !.got = c.got \cup {b}].kind = c.kind
          /\ [c EXCEPT !.sent = c.sent \cup {b}].kind = c.kind
      BY <1>0 DEF Commands
    <2>3. QED BY <2>1, <2>2
  <1>11. CASE MigrateFetched(a)
    <2>1. [c EXCEPT !.pc = "send", !.sent = {}].kind = c.kind
      BY <1>0 DEF Commands
    <2>2. QED BY <1>11, <2>1 DEF MigrateFetched
  <1>12. QED BY <1>2, <1>3, <1>4, <1>5, <1>6, <1>7, <1>8, <1>9, <1>10, <1>11
             DEF AddStep, AddSeed, DeleteStep, DeleteRow, DeleteQueue, PromoteStep, PromoteConf,
                 PromoteSwap, MigrateStep, MigrateFetchFail, MigrateSendFail, MigrateRow,
                 MigrateConf, MigrateSwap, MigrateClean

LEMMA AloneNext == Typed /\ Alone /\ [Next]_vars => Alone'
  <1> SUFFICES ASSUME Typed, Alone, [Next]_vars PROVE Alone' OBVIOUS
  <1> USE DEF files, tables, queues, local, link
  <1>1. CASE PushStep
    <2>1. CASE PushBegin
      BY <2>1 DEF Typed, DestKnown, Alone, SyncRunning, PushBegin, backup
    <2>2. CASE ~PushBegin
      BY <1>1, <2>2 DEF Alone, SyncRunning, PushStep, PushList, PushUpload, PushPublish, PushFail,
             PushDrain, PushListMirrors, PushEnqueue, PushEnd, EndPush, backup, push
    <2>3. QED BY <2>1, <2>2
  <1>2. CASE BackupStep
    <2>1. CASE BackupBegin
      BY <2>1 DEF Typed, DestKnown, Alone, SyncRunning, BackupBegin, push
    <2>2. CASE ~BackupBegin
      BY <1>2, <2>2 DEF Alone, SyncRunning, BackupStep, BackupNames, BackupLink, BackupOpen,
             BackupOpenFail, BackupBlob, BackupList, BackupPrune, BackupNext, EndBackup, push
    <2>3. QED BY <2>1, <2>2
  <1>3. ASSUME NEW a \in Admins,
               AddStep(a) \/ DeleteStep(a) \/ PromoteStep(a) \/ MigrateStep(a)
        PROVE  Alone'
    <2>1. UNCHANGED <<pushPc, bkPc>>
      BY <1>3 DEF AddStep, AddRow, AddNames, AddSeed, DeleteStep, DeleteCheck, DeleteRow,
             DeleteQueue, PromoteStep, PromoteRow, PromoteRead, PromoteConf, PromoteSwap,
             MigrateStep, MigrateList, MigrateFetch, MigrateFetchFail, MigrateFetched,
             MigrateSend, MigrateSendFail, MigrateRow, MigrateConf, MigrateSwap, MigrateClean,
             push, backup
    <2>2. QED BY <1>3, <2>1, KindKept DEF Alone, SyncRunning
  <1>4. CASE AddFile \/ DeleteFile \/ Restart \/ UNCHANGED vars
    BY <1>4 DEF Alone, SyncRunning, AddFile, DeleteFile, Restart, EndPush, EndBackup, vars,
           push, backup
  <1>5. QED BY <1>1, <1>2, <1>3, <1>4 DEF Next

LEMMA KnowsNext ==
    "migrate" \notin Overlap =>
        (PruneInv /\ [Next]_vars => BackupKnows' /\ DeletedUnlisted')
  <1> SUFFICES ASSUME "migrate" \notin Overlap, PruneInv, [Next]_vars
               PROVE  BackupKnows' /\ DeletedUnlisted'
    OBVIOUS
  <1> USE DEF PruneInv, BackupKnows, DeletedUnlisted, files, tables, queues, local, link
  <1>1. CASE AddFile
    BY <1>1 DEF AddFile, backup, NamesUsed, LocalNames, RemoteNames
  <1>2. CASE DeleteFile
    BY <1>2 DEF DeleteFile, backup
  <1>3. CASE Restart
    BY <1>3 DEF Restart, EndBackup
  <1>4. CASE UNCHANGED vars
    BY <1>4 DEF vars, backup
  <1>5. CASE PushStep
    <2>1. bkPc = "idle" \/ PushBegin
      BY <1>5 DEF Alone, PushStep, PushList, PushUpload, PushPublish, PushFail, PushDrain,
             PushListMirrors, PushEnqueue, PushEnd
    <2>2. UNCHANGED bkPc /\ UNCHANGED refs /\ pendingDel' \subseteq pendingDel
      BY <1>5 DEF PushStep, PushBegin, PushList, PushUpload, PushPublish, PushFail, PushDrain,
             PushListMirrors, PushEnqueue, PushEnd, backup
    <2>3. QED BY <2>1, <2>2 DEF PushBegin, SyncRunning
  <1>6. CASE BackupStep
    <2>1. UNCHANGED <<refs, pendingDel>>
      BY <1>6 DEF BackupStep, BackupBegin, BackupNames, BackupLink, BackupOpen, BackupOpenFail,
             BackupBlob, BackupList, BackupPrune, BackupNext
    <2>2. CASE BackupBegin \/ BackupNames \/ BackupLink \/ BackupOpen \/ BackupOpenFail
               \/ BackupNext
      <3>1. CASE BackupNames
        BY <2>1, <3>1 DEF BackupNames
      <3>2. CASE BackupBegin \/ BackupLink \/ BackupOpen \/ BackupOpenFail \/ BackupNext
        BY <2>1, <3>2 DEF BackupBegin, BackupLink, BackupOpen, BackupOpenFail, BackupNext,
               EndBackup
      <3>3. QED BY <2>2, <3>1, <3>2
    <2>3. CASE BackupBlob
      <3>1. PICK b \in bkTodo :
              \/ BackupForget(b) \/ BackupFetch(b) \/ BackupMissing(b) \/ BackupSkip(b)
              \/ BackupUpload(b) \/ BackupUploadFail(b)
        BY <2>3 DEF BackupBlob
      <3>2. bkPc = "blobs" /\ UNCHANGED <<bkPc, bkAll>>
        BY <2>3 DEF BackupBlob
      <3>3. \A d \in Dests : \A x \in store'[d] : x \in store[d] \/ x \in bkAll
        <4>1. UNCHANGED store \/ (b \in bkAll /\ store' = Stored(b, bkDest))
          BY <3>1 DEF BackupForget, BackupFetch, BackupMissing, BackupSkip, BackupUpload,
                 BackupUploadFail
        <4>2. QED BY <4>1 DEF Stored, Typed, TypeOK
      <3>4. QED BY <2>1, <3>2, <3>3
    <2>4. CASE BackupList
      BY <2>1, <2>4 DEF BackupList, Listed, Typed, TypeOK
    <2>5. CASE BackupPrune
      BY <2>1, <2>5 DEF BackupPrune, Removed, Typed, TypeOK
    <2>6. QED BY <1>6, <2>2, <2>3, <2>4, <2>5 DEF BackupStep
  <1>7. ASSUME NEW a \in Admins,
               AddStep(a) \/ DeleteStep(a) \/ PromoteStep(a) \/ MigrateStep(a)
        PROVE  BackupKnows' /\ DeletedUnlisted'
    <2>1. UNCHANGED <<refs, pendingDel, bkPc, bkAll, bkTodo>>
      BY <1>7 DEF AddStep, AddRow, AddNames, AddSeed, DeleteStep, DeleteCheck, DeleteRow,
             DeleteQueue, PromoteStep, PromoteRow, PromoteRead, PromoteConf, PromoteSwap,
             MigrateStep, MigrateList, MigrateFetch, MigrateFetchFail, MigrateFetched,
             MigrateSend, MigrateSendFail, MigrateRow, MigrateConf, MigrateSwap, MigrateClean,
             backup
    <2>2. CASE MigrateSend(a)
      BY <2>1, <2>2 DEF MigrateSend, Alone, SyncRunning
    <2>3. CASE ~MigrateSend(a)
      <3>1. UNCHANGED store
        BY <1>7, <2>3 DEF AddStep, AddRow, AddNames, AddSeed, DeleteStep, DeleteCheck, DeleteRow,
             DeleteQueue, PromoteStep, PromoteRow, PromoteRead, PromoteConf, PromoteSwap,
             MigrateStep, MigrateList, MigrateFetch, MigrateFetchFail, MigrateFetched,
             MigrateSendFail, MigrateRow, MigrateConf, MigrateSwap, MigrateClean
      <3>2. QED BY <2>1, <3>1
    <2>4. QED BY <2>2, <2>3
  <1>8. QED BY <1>1, <1>2, <1>3, <1>4, <1>5, <1>6, <1>7 DEF Next

LEMMA PruneNext == "migrate" \notin Overlap => (PruneInv /\ [Next]_vars => PruneInv')
  BY TypedNext, NamesNext, AloneNext, KnowsNext DEF PruneInv

(* Only the drain of a push and the prune of a backup remove objects.       *)
LEMMA RemovedUnlisted ==
    PruneInv /\ [Next]_vars =>
        [\A d \in Dests : (store[d] \ store'[d]) \cap refs = {}]_vars
  <1> SUFFICES ASSUME PruneInv, Next
               PROVE  \A d \in Dests : (store[d] \ store'[d]) \cap refs = {}
    OBVIOUS
  <1> USE DEF PruneInv, Typed, TypeOK
  <1>1. CASE PushStep
    <2>1. CASE PushUpload
      BY <2>1 DEF PushUpload, Stored
    <2>2. CASE PushDrain
      BY <2>2 DEF PushDrain, Removed, DeletedUnlisted
    <2>3. CASE UNCHANGED store
      BY <2>3
    <2>4. QED BY <1>1, <2>1, <2>2, <2>3 DEF PushStep, PushBegin, PushList, PushPublish, PushFail,
                 PushListMirrors, PushEnqueue, PushEnd
  <1>2. CASE BackupStep
    <2>1. CASE BackupPrune
      BY <2>1 DEF BackupPrune, Removed, BackupKnows
    <2>2. CASE BackupBlob
      BY <2>2 DEF BackupBlob, BackupForget, BackupFetch, BackupMissing, BackupSkip, BackupUpload,
             BackupUploadFail, Stored
    <2>3. CASE UNCHANGED store
      BY <2>3
    <2>4. QED BY <1>2, <2>1, <2>2, <2>3 DEF BackupStep, BackupBegin, BackupNames, BackupLink,
                 BackupOpen, BackupOpenFail, BackupList, BackupNext
  <1>3. ASSUME NEW a \in Admins,
               AddStep(a) \/ DeleteStep(a) \/ PromoteStep(a) \/ MigrateStep(a)
        PROVE  \A d \in Dests : (store[d] \ store'[d]) \cap refs = {}
    <2>1. CASE MigrateSend(a)
      BY <2>1 DEF MigrateSend, Stored
    <2>2. CASE ~MigrateSend(a)
      BY <1>3, <2>2 DEF AddStep, AddRow, AddNames, AddSeed, DeleteStep, DeleteCheck, DeleteRow,
             DeleteQueue, PromoteStep, PromoteRow, PromoteRead, PromoteConf, PromoteSwap,
             MigrateStep, MigrateList, MigrateFetch, MigrateFetchFail, MigrateFetched,
             MigrateSendFail, MigrateRow, MigrateConf, MigrateSwap, MigrateClean
    <2>3. QED BY <2>1, <2>2
  <1>4. CASE AddFile \/ DeleteFile \/ Restart
    BY <1>4 DEF AddFile, DeleteFile, Restart
  <1>5. QED BY <1>1, <1>2, <1>3, <1>4 DEF Next

(* Whatever commands, failures and crashes come in between, sync_backup's   *)
(* prune and the push's drain remove no object the manifest lists, as long  *)
(* as no migration runs beside sync_backup (one that does can bring an      *)
(* object to a mirror after the backup read the names).                     *)
THEOREM PruneIsSafe == "migrate" \notin Overlap => (Spec => PruneSafe)
  <1> SUFFICES ASSUME "migrate" \notin Overlap PROVE Spec => PruneSafe
    OBVIOUS
  <1>1. PruneInv /\ [Next]_vars => PruneInv'
    BY PruneNext
  <1>2. QED BY <1>1, PruneInit, RemovedUnlisted, PTL DEF Spec, PruneSafe


-----------------------------------------------------------------------------
(* Completeness of the primary and of the mirrors holds when the user       *)
(* issues one destination command at a time, leaves promotions and          *)
(* migrations until no push or backup runs, promotes mirrors whose health   *)
(* report is clean, and nothing is cut short.                               *)
Calm ==
    /\ \A a, e \in Admins : a = e
    /\ Overlap \subseteq {"add", "delete"}
    /\ CutShort = FALSE /\ PromoteClean = TRUE /\ ConfFails = FALSE

(* The blob is on this device, and not just as the download of a migration. *)
Staged(b) == b \in pending \/ (b \in root /\ \A a \in Admins : b \notin admin[a].got)

(* The destination has every blob that is not staged.                       *)
Holds(d) == \A b \in refs : b \in store[d] \/ Staged(b)

(* The row is promoted before the transport is swapped; until then both     *)
(* destinations are complete.                                               *)
Moving ==
    \E a \in Admins : /\ admin[a].kind \in {"promote", "migrate"}
                      /\ admin[a].pc \in {"read", "conf", "swap"}

PrimaryHolds ==
    /\ primary # {} /\ transport # NoDest
    /\ \A p \in primary : Holds(p)
    /\ Holds(transport)
    /\ Moving \/ primary = {transport}

(* A blob on its way to a mirror: on it, in its queue, read by the command  *)
(* that adds the mirror, or uploaded by a push that still has to enqueue it. *)
Bound(b, d) ==
    \/ b \in store[d] \/ b \in pendingBackup[d]
    \/ \E a \in Admins : admin[a].pc = "seed" /\ admin[a].dest = d /\ b \in admin[a].names
    \/ b \in pushUp /\ (pushPc = "enqueue" => d \in pushDests)

MirrorHolds(d) ==
    (\A a \in Admins : admin[a].pc = "names" => admin[a].dest # d) =>
        \A b \in refs : Staged(b) \/ Bound(b, d)

MirrorsHold == \A d \in Mirrors : mode[d] # "none" => MirrorHolds(d)

(* What pushes and backups read at their start is still so.                 *)
TasksSane ==
    /\ pushPc = "idle" => pushUp = {}
    /\ pushPc # "idle" => pushVia = transport
    /\ bkPc \in {"next", "blobs", "prune"} => bkVia = transport
    /\ bkPc \in {"link", "next", "blobs", "prune"} => \A b \in refs : b \in bkAll \/ Staged(b)

(* ... and what destination commands read.                                  *)
CommandSane(a) ==
    /\ admin[a].pc \in {"names", "seed"} <=> admin[a].kind = "add"
    /\ admin[a].kind = "delete" =>
          /\ admin[a].pc \in {"row", "queue"} /\ admin[a].dest \notin primary
          /\ admin[a].pc = "queue" => admin[a].dest \notin registered
    /\ admin[a].kind = "promote" =>
          /\ admin[a].pc \in {"read", "conf", "swap"}
          /\ admin[a].pc # "read" => admin[a].dest \in primary
    /\ admin[a].kind # "migrate" => admin[a].got = {}
    /\ admin[a].kind = "migrate" =>
          /\ admin[a].pc \in {"fetch", "send", "conf", "swap", "clean"}
          /\ \A b \in refs : b \in admin[a].names \/ Staged(b)
          /\ admin[a].pc = "fetch" =>
                \A b \in root : b \in admin[a].names => b \in admin[a].sent \cup admin[a].got
          /\ admin[a].pc = "send" => admin[a].sent \subseteq store[admin[a].dest]

CommandsSane == \A a \in Admins : CommandSane(a)

CompleteInv == PruneInv /\ PrimaryHolds /\ MirrorsHold /\ TasksSane /\ CommandsSane


LEMMA CompleteInit == Init => CompleteInv
  <1> SUFFICES ASSUME Init PROVE CompleteInv OBVIOUS
  <1>1. PrimaryHolds
    BY DestsAssumption DEF Init, PrimaryHolds, Holds
  <1>2. MirrorsHold /\ TasksSane
    BY DEF Init, MirrorsHold, MirrorHolds, TasksSane
  <1>3. CommandsSane
    BY DEF Init, CommandsSane, CommandSane, IdleAdmin
  <1>4. QED BY <1>1, <1>2, <1>3, PruneInit DEF CompleteInv

(* What most steps have in common: they bring no listed blob out of         *)
(* staging, and take none from a destination.                               *)
FewerUnstaged == \A b \in refs' : Staged(b)' \/ (b \in refs /\ ~Staged(b))
StoreKept     == \A d \in Dests, b \in refs' : b \in store[d] => b \in store'[d]

LEMMA NothingTaken == ASSUME PruneInv, Next PROVE StoreKept
  <1>1. CASE UNCHANGED refs
    <2>1. UNCHANGED vars \/ \A d \in Dests : (store[d] \ store'[d]) \cap refs = {}
      BY RemovedUnlisted
    <2>2. QED BY <1>1, <2>1 DEF StoreKept, vars
  <1>2. CASE AddFile \/ DeleteFile
    BY <1>2 DEF AddFile, DeleteFile, StoreKept
  <1>3. ~(AddFile \/ DeleteFile) => UNCHANGED refs
    BY SMTT(30), ZenonT(30) DEF Next, PushStep, PushBegin, PushList, PushUpload, PushPublish, PushFail, PushDrain,
           PushListMirrors, PushEnqueue, PushEnd, BackupStep, BackupBegin, BackupNames,
           BackupLink, BackupOpen, BackupOpenFail, BackupBlob, BackupList, BackupPrune,
           BackupNext, AddStep, AddRow, AddNames, AddSeed, DeleteStep, DeleteCheck, DeleteRow,
           DeleteQueue, PromoteStep, PromoteRow, PromoteRead, PromoteConf, PromoteSwap,
           MigrateStep, MigrateList, MigrateFetch, MigrateFetchFail, MigrateFetched,
           MigrateSend, MigrateSendFail, MigrateRow, MigrateConf, MigrateSwap, MigrateClean,
           Restart, files
  <1>4. QED BY <1>1, <1>2, <1>3

LEMMA HoldsKept ==
    ASSUME FewerUnstaged, StoreKept, NEW d \in Dests, Holds(d) PROVE Holds(d)'
  BY DEF FewerUnstaged, StoreKept, Holds

LEMMA PrimaryKept ==
    ASSUME Typed, PrimaryHolds, FewerUnstaged, StoreKept, UNCHANGED <<primary, transport>>,
           Moving => Moving'
    PROVE  PrimaryHolds'
  <1>1. transport \in Dests /\ primary \subseteq Dests
    BY DEF Typed, TypeOK, PrimaryHolds
  <1>2. \A p \in primary : Holds(p)'
    BY <1>1, HoldsKept DEF PrimaryHolds
  <1>3. Holds(transport)'
    BY <1>1 DEF PrimaryHolds, Holds, FewerUnstaged, StoreKept
  <1>4. QED BY <1>2, <1>3 DEF PrimaryHolds, Holds

LEMMA TasksKept ==
    ASSUME TasksSane, FewerUnstaged, UNCHANGED <<push, backup>>, UNCHANGED transport \/ ~SyncRunning
    PROVE  TasksSane'
  BY DEF TasksSane, FewerUnstaged, push, backup, SyncRunning

-----------------------------------------------------------------------------
(* Files and restarts.                                                      *)
LEMMA CompleteFile ==
    ASSUME CompleteInv, AddFile \/ DeleteFile
    PROVE  PrimaryHolds' /\ MirrorsHold' /\ TasksSane' /\ CommandsSane'
  <1> USE DEF tables, queues, link, push, backup
  <1>1. UNCHANGED <<tables, pendingBackup, store, link, push, backup, admin>>
    BY DEF AddFile, DeleteFile
  <1>2. FewerUnstaged
    <2>1. CASE AddFile
      BY <2>1 DEF AddFile, FewerUnstaged, Staged, CompleteInv, PruneInv, NamesUsed, CommandNames
    <2>2. CASE DeleteFile
      BY <2>2 DEF DeleteFile, FewerUnstaged, Staged
    <2>3. QED BY <2>1, <2>2
  <1>3. StoreKept
    BY <1>1 DEF StoreKept
  <1>4. PrimaryHolds'
    BY <1>1, <1>2, <1>3, PrimaryKept DEF CompleteInv, PruneInv, Moving
  <1>5. MirrorsHold'
    BY <1>1, <1>2 DEF CompleteInv, MirrorsHold, MirrorHolds, Mirrors, Bound, FewerUnstaged
  <1>6. TasksSane'
    BY <1>1, <1>2, TasksKept DEF CompleteInv
  <1>7. CommandsSane'
    <2> SUFFICES ASSUME NEW a \in Admins PROVE CommandSane(a)'
      BY DEF CommandsSane
    <2>1. CommandSane(a) /\ admin[a].names \subseteq used
      BY DEF CompleteInv, CommandsSane, PruneInv, NamesUsed, CommandNames
    <2>2. \A b \in root' : b \in root \/ b \notin used
      BY DEF AddFile, DeleteFile
    <2>3. QED BY <1>1, <1>2, <2>1, <2>2 DEF CommandSane, FewerUnstaged
  <1>8. QED BY <1>4, <1>5, <1>6, <1>7

LEMMA CompleteRestart ==
    ASSUME Calm, CompleteInv, Restart
    PROVE  PrimaryHolds' /\ MirrorsHold' /\ TasksSane' /\ CommandsSane'
  <1> USE DEF files, tables, queues
  <1>1. /\ UNCHANGED <<refs, tables, queues, store>>
        /\ admin' = [a \in Admins |-> IdleAdmin]
        /\ pushUp = {} /\ \A a \in Admins : admin[a].kind # "add"
    BY DEF Restart, Calm, MayFail
  <1>2. FewerUnstaged
    BY <1>1 DEF Restart, FewerUnstaged, Staged, IdleAdmin
  <1>3. StoreKept
    BY <1>1 DEF StoreKept
  <1>4. PrimaryHolds'
    <2>1. transport' \in primary /\ primary' = primary /\ primary # {} /\ primary \subseteq Dests
      BY <1>1 DEF Restart, CompleteInv, PrimaryHolds, PruneInv, Typed, TypeOK
    <2>2. \A p \in primary : Holds(p)'
      BY <1>2, <1>3, <2>1, HoldsKept DEF CompleteInv, PrimaryHolds
    <2>3. Holds(transport)'
      BY <2>1, <2>2 DEF Holds
    <2>4. primary' = {transport'} /\ transport' # NoDest
      BY <2>1, DestsAssumption DEF CompleteInv, PruneInv, Typed, TypeOK
    <2>5. QED BY <2>1, <2>2, <2>3, <2>4 DEF PrimaryHolds, Holds
  <1>5. MirrorsHold'
    <2>1. \A a \in Admins : admin[a].pc \notin {"names", "seed"}
      BY <1>1 DEF CompleteInv, CommandsSane, CommandSane
    <2>2. QED BY <1>1, <1>2, <2>1 DEF CompleteInv, MirrorsHold, MirrorHolds, Mirrors, Bound,
                 FewerUnstaged
  <1>6. TasksSane'
    BY DEF Restart, EndPush, EndBackup, TasksSane
  <1>7. CommandsSane'
    BY <1>1 DEF CommandsSane, CommandSane, IdleAdmin
  <1>8. QED BY <1>4, <1>5, <1>6, <1>7

-----------------------------------------------------------------------------
(* Pushes.                                                                  *)
LEMMA CompletePush ==
    ASSUME Calm, CompleteInv, PushStep, StoreKept
    PROVE  PrimaryHolds' /\ MirrorsHold' /\ TasksSane' /\ CommandsSane'
  <1> USE DEF files, tables, queues, local, link
  <1>1. UNCHANGED <<refs, tables, root, transport, backup, admin>>
    BY DEF PushStep, PushBegin, PushList, PushUpload, PushPublish, PushFail, PushDrain,
           PushListMirrors, PushEnqueue, PushEnd
  <1>2. CASE PushUpload
    <2>1. PICK b \in pushTodo \cap pending :
            /\ store' = [store EXCEPT ![pushVia] = @ \cup {b}]
            /\ pending' = pending \ {b} /\ pushUp' = pushUp \cup {b}
      BY <1>2 DEF PushUpload, Stored
    <2>2. /\ pushPc = "upload" /\ UNCHANGED <<pendingBackup, pushPc, pushVia, pushDests>>
          /\ bkPc = "idle" /\ SyncRunning
      BY <1>2 DEF PushUpload, CompleteInv, PruneInv, Alone, SyncRunning
    <2>3. \A a \in Admins : admin[a].kind \notin {"promote", "migrate"}
      BY <2>2 DEF CompleteInv, PruneInv, Alone, Calm
    <2>4. primary = {transport} /\ pushVia = transport /\ transport \in Dests
      BY <2>2, <2>3 DEF CompleteInv, PrimaryHolds, Moving, TasksSane, PruneInv, Typed, TypeOK
    <2>5. \A x \in refs : x # b /\ Staged(x) => Staged(x)'
      BY <1>1, <2>1 DEF Staged
    <2>6. b \in store'[transport]
      BY <2>1, <2>4 DEF CompleteInv, PruneInv, Typed, TypeOK
    <2>7. \A x \in refs : x \in store'[transport] \/ Staged(x)'
      BY <1>1, <2>4, <2>5, <2>6 DEF CompleteInv, PrimaryHolds, Holds, StoreKept
    <2>8. PrimaryHolds'
      BY <1>1, <2>4, <2>7 DEF CompleteInv, PrimaryHolds, Holds
    <2>9. MirrorsHold'
      <3> SUFFICES ASSUME NEW d \in Mirrors, mode[d] # "none", NEW x \in refs,
                          \A a \in Admins : admin[a].pc = "names" => admin[a].dest # d
                   PROVE  Staged(x)' \/ Bound(x, d)'
        BY <1>1 DEF MirrorsHold, MirrorHolds, Mirrors
      <3>1. d \in Dests
        BY DEF Mirrors, CompleteInv, PruneInv, Typed, TypeOK
      <3>2. Staged(x) \/ Bound(x, d)
        BY DEF CompleteInv, MirrorsHold, MirrorHolds
      <3>3. QED BY <1>1, <2>1, <2>2, <2>5, <3>1, <3>2 DEF Bound, StoreKept
    <2>10. TasksSane'
      BY <1>1, <2>2 DEF CompleteInv, TasksSane, backup
    <2>11. CommandsSane'
      BY <1>1, <2>3 DEF CompleteInv, CommandsSane, CommandSane
    <2>12. QED BY <2>8, <2>9, <2>10, <2>11
  <1>3. CASE ~PushUpload
    <2>1. FewerUnstaged
      BY <1>1, <1>3 DEF PushStep, PushBegin, PushList, PushPublish, PushFail, PushDrain,
             PushListMirrors, PushEnqueue, PushEnd, FewerUnstaged, Staged
    <2>2. PrimaryHolds'
      BY <1>1, <2>1, PrimaryKept DEF CompleteInv, PruneInv, Moving
    <2>3. MirrorsHold'
      <3> SUFFICES ASSUME NEW d \in Mirrors, mode[d] # "none", NEW b \in refs, ~Staged(b),
                          \A a \in Admins : admin[a].pc = "names" => admin[a].dest # d
                   PROVE  Bound(b, d)'
        BY <1>1, <2>1 DEF MirrorsHold, MirrorHolds, Mirrors, FewerUnstaged
      <3>1. d \in Dests
        BY DEF Mirrors, CompleteInv, PruneInv, Typed, TypeOK
      <3>2. Bound(b, d)
        BY DEF CompleteInv, MirrorsHold, MirrorHolds
      <3>3. b \in store[d] => b \in store'[d]
        BY <1>1, <3>1 DEF StoreKept
      <3>4. CASE PushBegin \/ PushList \/ PushPublish
        BY <1>1, <3>2, <3>3, <3>4 DEF Bound, PushBegin, PushList, PushPublish
      <3>5. CASE PushFail \/ PushEnd
        BY <1>1, <3>2, <3>3, <3>5 DEF Bound, PushFail, PushEnd, MayFail, Calm
      <3>6. CASE PushDrain
        BY <1>1, <3>2, <3>3, <3>6 DEF Bound, PushDrain, push
      <3>7. CASE PushListMirrors
        BY <1>1, <3>2, <3>3, <3>7 DEF Bound, PushListMirrors
      <3>8. CASE PushEnqueue
        BY <1>1, <3>1, <3>2, <3>3, <3>8 DEF Bound, PushEnqueue, Enqueued, CompleteInv, PruneInv,
               Typed, TypeOK
      <3>9. QED BY <1>3, <3>4, <3>5, <3>6, <3>7, <3>8 DEF PushStep
    <2>4. TasksSane'
      BY <1>1, <1>3, <2>1 DEF PushStep, PushBegin, PushList, PushPublish, PushFail, PushDrain,
             PushListMirrors, PushEnqueue, PushEnd, EndPush, CompleteInv, TasksSane,
             FewerUnstaged, backup, push
    <2>5. CommandsSane'
      <3> SUFFICES ASSUME NEW a \in Admins PROVE CommandSane(a)'
        BY DEF CommandsSane
      <3>1. admin[a].kind # "migrate" \/ UNCHANGED store
        BY <1>3 DEF PushStep, PushBegin, PushList, PushPublish, PushFail, PushDrain,
               PushListMirrors, PushEnqueue, PushEnd, CompleteInv, PruneInv, Alone, SyncRunning,
               Calm
      <3>2. QED BY <1>1, <2>1, <3>1 DEF CompleteInv, CommandsSane, CommandSane, FewerUnstaged
    <2>6. QED BY <2>2, <2>3, <2>4, <2>5
  <1>4. QED BY <1>2, <1>3

(* Backups.  A queued blob is dropped only when it is on the mirror, no     *)
(* longer listed or staged: the primary, asked for it, holds the rest.      *)
LEMMA CompleteBackup ==
    ASSUME Calm, CompleteInv, BackupStep, StoreKept
    PROVE  PrimaryHolds' /\ MirrorsHold' /\ TasksSane' /\ CommandsSane'
  <1> USE DEF files, tables, queues, local, link
  <1>1. UNCHANGED <<refs, tables, pending, root, transport, push, admin>>
    BY DEF BackupStep, BackupBegin, BackupNames, BackupLink, BackupOpen, BackupOpenFail,
           BackupBlob, BackupList, BackupPrune, BackupNext
  <1>2. FewerUnstaged
    BY <1>1 DEF FewerUnstaged, Staged
  <1>3. PrimaryHolds'
    BY <1>1, <1>2, PrimaryKept DEF CompleteInv, PruneInv, Moving
  <1>4. TasksSane'
    BY <1>1, <1>2 DEF BackupStep, BackupBegin, BackupNames, BackupLink, BackupOpen, BackupOpenFail,
           BackupBlob, BackupList, BackupPrune, BackupNext, EndBackup, CompleteInv, TasksSane,
           FewerUnstaged, push
  <1>5. MirrorsHold'
    <2> SUFFICES ASSUME NEW d \in Mirrors, mode[d] # "none", NEW b \in refs, ~Staged(b),
                        \A a \in Admins : admin[a].pc = "names" => admin[a].dest # d
                 PROVE  Bound(b, d)'
      BY <1>1, <1>2 DEF MirrorsHold, MirrorHolds, Mirrors, FewerUnstaged
    <2>1. d \in Dests
      BY DEF Mirrors, CompleteInv, PruneInv, Typed, TypeOK
    <2>2. Bound(b, d)
      BY DEF CompleteInv, MirrorsHold, MirrorHolds
    <2>3. b \in store[d] => b \in store'[d]
      BY <1>1, <2>1 DEF StoreKept
    <2>4. b \in pendingBackup[d] => b \in pendingBackup'[d] \/ b \in store'[d]
      <3>1. CASE UNCHANGED pendingBackup
        BY <3>1
      <3>2. CASE BackupBlob
        <4>1. PICK x \in bkTodo :
                \/ BackupForget(x) \/ BackupFetch(x) \/ BackupMissing(x) \/ BackupSkip(x)
                \/ BackupUpload(x) \/ BackupUploadFail(x)
          BY <3>2 DEF BackupBlob
        <4>2. bkVia = transport /\ b \in bkAll /\ (transport \in Dests => b \in store[transport])
          BY <3>2 DEF BackupBlob, CompleteInv, TasksSane, PrimaryHolds, Holds
        <4>3. CASE BackupUpload(x)
          BY <2>1, <4>3 DEF BackupUpload, Stored, Dequeued, CompleteInv, PruneInv, Typed, TypeOK
        <4>4. CASE BackupForget(x)
          BY <2>1, <4>2, <4>4 DEF BackupForget, Dequeued, CompleteInv, PruneInv, Typed, TypeOK
        <4>5. CASE BackupMissing(x)
          BY <2>1, <4>2, <4>5 DEF BackupMissing, Retrievable, Dequeued, CompleteInv, PruneInv,
                 Typed, TypeOK
        <4>6. CASE BackupFetch(x) \/ BackupSkip(x) \/ BackupUploadFail(x)
          BY <3>1, <4>6 DEF BackupFetch, BackupSkip, BackupUploadFail
        <4>7. QED BY <4>1, <4>3, <4>4, <4>5, <4>6
      <3>3. QED BY <3>1, <3>2 DEF BackupStep, BackupBegin, BackupNames, BackupLink, BackupOpen,
                   BackupOpenFail, BackupList, BackupPrune, BackupNext
    <2>5. QED BY <1>1, <2>2, <2>3, <2>4 DEF Bound, push
  <1>6. CommandsSane'
    <2> SUFFICES ASSUME NEW a \in Admins PROVE CommandSane(a)'
      BY DEF CommandsSane
    <2>1. admin[a].kind # "migrate" \/ UNCHANGED store
      BY DEF BackupStep, BackupBegin, BackupNames, BackupLink, BackupOpen, BackupOpenFail,
             BackupBlob, BackupList, BackupPrune, BackupNext, CompleteInv, PruneInv, Alone,
             SyncRunning, Calm
    <2>2. QED BY <1>1, <1>2, <2>1 DEF CompleteInv, CommandsSane, CommandSane, FewerUnstaged
  <1>7. QED BY <1>3, <1>4, <1>5, <1>6


-----------------------------------------------------------------------------
(* Destination commands; a is the only one.                                 *)
LEMMA FewerCommand ==
    ASSUME Calm, NEW a \in Admins, UNCHANGED <<refs, pending, root>>,
           admin'[a].got \subseteq admin[a].got
    PROVE  FewerUnstaged
  BY DEF Calm, FewerUnstaged, Staged

(* The queue of a destination nobody is adding and whose queue is left.     *)
LEMMA MirrorKept ==
    ASSUME Calm, Typed, NEW a \in Admins, admin[a].pc \notin {"names", "seed"}, FewerUnstaged,
           StoreKept, UNCHANGED push, NEW d \in Dests, pendingBackup'[d] = pendingBackup[d],
           MirrorHolds(d)
    PROVE  MirrorHolds(d)'
  <1>1. \A e \in Admins : e = a
    BY DEF Calm
  <1>2. SUFFICES ASSUME NEW b \in refs', ~(Staged(b)') PROVE Bound(b, d)'
    BY DEF MirrorHolds
  <1>3. b \in refs /\ ~Staged(b)
    BY <1>2 DEF FewerUnstaged
  <1>4. Bound(b, d)
    BY <1>1, <1>3 DEF MirrorHolds
  <1>5. QED BY <1>1, <1>2, <1>4 DEF Bound, StoreKept, push

(* A destination that holds everything is a complete mirror.                *)
LEMMA HolderIsMirror ==
    ASSUME FewerUnstaged, StoreKept, NEW d \in Dests, Holds(d) PROVE MirrorHolds(d)'
  <1>1. Holds(d)'
    BY HoldsKept
  <1>2. QED BY <1>1 DEF Holds, MirrorHolds, Bound

LEMMA CompleteAdd ==
    ASSUME Calm, CompleteInv, NEW a \in Admins, AddStep(a), StoreKept
    PROVE  PrimaryHolds' /\ MirrorsHold' /\ TasksSane' /\ CommandsSane'
  <1> USE DEF files, tables, queues, local, link
  <1> DEFINE c == admin[a]
             n == admin'[a]
  <1>1. /\ UNCHANGED <<refs, pending, root, store, link, push, backup>>
        /\ \A e \in Admins : e = a
        /\ c \in Commands /\ Typed
    BY DEF AddStep, AddRow, AddNames, AddSeed, Calm, CompleteInv, PruneInv, Typed, TypeOK
  <1>2. CommandSane(a) /\ (c.pc = "idle" <=> c.kind = "none")
    BY DEF CompleteInv, CommandsSane, PruneInv, Typed, DestKnown
  <1>3. CASE AddRow(a)
    <2>1. PICK d \in Dests \ issued, m \in Modes, isPrimary \in BOOLEAN :
            /\ InsertSession(d, m, isPrimary)
            /\ IF m = "none" THEN UNCHANGED admin
               ELSE admin' = [admin EXCEPT ![a] = [IdleAdmin EXCEPT !.pc = "names", !.kind = "add",
                                                                    !.dest = d]]
      BY <1>3 DEF AddRow
    <2>2. c.pc = "idle" /\ UNCHANGED pendingBackup
      BY <1>3 DEF AddRow, MayStart
    <2>3. /\ primary' = primary /\ registered' = registered \cup {d}
          /\ mode' = [mode EXCEPT ![d] = m]
      BY <2>1 DEF InsertSession, CompleteInv, PrimaryHolds
    <2>4. \/ m = "none" /\ n = c
          \/ /\ m # "none" /\ n.pc = "names" /\ n.kind = "add" /\ n.dest = d /\ n.got = {}
      <3>1. CASE m = "none"
        BY <2>1, <3>1
      <3>2. CASE m # "none"
        <4> DEFINE r == [IdleAdmin EXCEPT !.pc = "names", !.kind = "add", !.dest = d]
        <4>1. r.pc = "names" /\ r.kind = "add" /\ r.dest = d /\ r.got = {}
          BY DEF IdleAdmin
        <4>2. n = r
          BY <2>1, <3>2 DEF CompleteInv, PruneInv, Typed, TypeOK
        <4>3. QED BY <3>2, <4>1, <4>2
      <3>3. QED BY <3>1, <3>2
    <2>5. FewerUnstaged
      BY <1>1, <2>4, FewerCommand
    <2>6. PrimaryHolds'
      BY <1>1, <1>2, <2>2, <2>3, <2>5, PrimaryKept DEF CompleteInv, Moving
    <2>7. MirrorsHold'
      <3> SUFFICES ASSUME NEW e \in Mirrors', mode'[e] # "none" PROVE MirrorHolds(e)'
        BY DEF MirrorsHold
      <3>1. CASE e = d
        <4>1. m # "none"
          BY <2>3, <3>1 DEF CompleteInv, PruneInv, Typed, TypeOK
        <4>2. QED BY <2>4, <3>1, <4>1 DEF MirrorHolds
      <3>2. CASE e # d
        <4>1. e \in Mirrors /\ mode[e] # "none" /\ e \in Dests
          BY <2>3, <3>2 DEF Mirrors, CompleteInv, PruneInv, Typed, TypeOK
        <4>2. MirrorHolds(e)
          BY <4>1 DEF CompleteInv, MirrorsHold
        <4>3. QED BY <1>1, <2>2, <2>5, <4>1, <4>2, MirrorKept
      <3>3. QED BY <3>1, <3>2
    <2>8. TasksSane'
      BY <1>1, <2>5, TasksKept DEF CompleteInv
    <2>9. CommandsSane'
      BY <1>1, <1>2, <2>2, <2>4 DEF CommandsSane, CommandSane
    <2>10. QED BY <2>6, <2>7, <2>8, <2>9
  <1>4. CASE AddNames(a)
    <2> DEFINE r == [c EXCEPT !.pc = "seed", !.names = refs]
    <2>1. r.pc = "seed" /\ r.names = refs /\ r.kind = c.kind /\ r.dest = c.dest /\ r.got = c.got
      BY <1>1 DEF Commands
    <2>2. n = r
      BY <1>4 DEF AddNames, CompleteInv, PruneInv, Typed, TypeOK
    <2>3. c.kind = "add" /\ c.pc = "names" /\ UNCHANGED <<tables, pendingBackup>>
      BY <1>4 DEF AddNames
    <2> HIDE DEF r
    <2>4. FewerUnstaged
      BY <1>1, <2>1, <2>2, FewerCommand
    <2>5. PrimaryHolds'
      BY <1>1, <2>3, <2>4, PrimaryKept DEF CompleteInv, Moving
    <2>6. MirrorsHold'
      <3> SUFFICES ASSUME NEW e \in Mirrors, mode[e] # "none", NEW b \in refs, ~Staged(b)
                   PROVE  Bound(b, e)'
        BY <1>1, <2>3, <2>4 DEF MirrorsHold, MirrorHolds, FewerUnstaged, Mirrors
      <3>1. CASE e = c.dest
        BY <2>1, <2>2, <3>1 DEF Bound
      <3>2. CASE e # c.dest
        <4>1. Bound(b, e)
          BY <1>1, <3>2 DEF CompleteInv, MirrorsHold, MirrorHolds
        <4>2. QED BY <1>1, <2>3, <4>1 DEF Bound, push
      <3>3. QED BY <3>1, <3>2
    <2>7. TasksSane'
      BY <1>1, <2>4, TasksKept DEF CompleteInv
    <2>8. CommandsSane'
      BY <1>1, <1>2, <2>1, <2>2, <2>3 DEF CommandsSane, CommandSane
    <2>9. QED BY <2>5, <2>6, <2>7, <2>8
  <1>5. CASE AddSeed(a)
    <2>1. /\ c.kind = "add" /\ c.pc = "seed" /\ UNCHANGED tables
          /\ pendingBackup' = [pendingBackup EXCEPT ![c.dest] = @ \cup c.names]
          /\ n = IdleAdmin
      BY <1>5 DEF AddSeed, Enqueued, Done, CompleteInv, PruneInv, Typed, TypeOK
    <2>2. n.got = {} /\ n.kind = "none" /\ n.pc = "idle"
      BY <2>1 DEF IdleAdmin
    <2>3. FewerUnstaged
      BY <1>1, <2>2, FewerCommand
    <2>4. PrimaryHolds'
      BY <1>1, <2>1, <2>3, PrimaryKept DEF CompleteInv, Moving
    <2>5. MirrorsHold'
      <3> SUFFICES ASSUME NEW e \in Mirrors, mode[e] # "none", NEW b \in refs, ~Staged(b)
                   PROVE  Bound(b, e)'
        BY <1>1, <2>1, <2>3 DEF MirrorsHold, MirrorHolds, FewerUnstaged, Mirrors
      <3>1. Bound(b, e) /\ e \in Dests
        BY <1>1, <2>1 DEF CompleteInv, MirrorsHold, MirrorHolds, Mirrors, Typed, TypeOK
      <3>2. b \in pendingBackup[e] => b \in pendingBackup'[e]
        BY <1>1, <2>1, <3>1 DEF Typed, TypeOK
      <3>3. c.dest = e /\ b \in c.names => b \in pendingBackup'[e]
        BY <1>1, <2>1, <3>1 DEF Typed, TypeOK
      <3>4. QED BY <1>1, <3>1, <3>2, <3>3 DEF Bound, push
    <2>6. TasksSane'
      BY <1>1, <2>3, TasksKept DEF CompleteInv
    <2>7. CommandsSane'
      BY <1>1, <2>2 DEF CommandsSane, CommandSane
    <2>8. QED BY <2>4, <2>5, <2>6, <2>7
  <1>6. QED BY <1>3, <1>4, <1>5 DEF AddStep

LEMMA CompleteDelete ==
    ASSUME Calm, CompleteInv, NEW a \in Admins, DeleteStep(a), StoreKept
    PROVE  PrimaryHolds' /\ MirrorsHold' /\ TasksSane' /\ CommandsSane'
  <1> USE DEF files, tables, queues, local, link
  <1> DEFINE c == admin[a]
             n == admin'[a]
  <1>1. /\ UNCHANGED <<refs, pending, root, store, mode, link, push, backup>>
        /\ \A e \in Admins : e = a
        /\ c \in Commands /\ Typed
    BY DEF DeleteStep, DeleteCheck, DeleteRow, DeleteQueue, Calm, CompleteInv, PruneInv, Typed,
           TypeOK
  <1>2. CommandSane(a) /\ (c.pc = "idle" <=> c.kind = "none")
    BY DEF CompleteInv, CommandsSane, PruneInv, Typed, DestKnown
  <1>3. /\ n.got = {} /\ c.pc \notin {"names", "seed", "read", "conf", "swap"}
        /\ primary' = primary /\ registered' \subseteq registered
        /\ \A d \in registered' \ primary : pendingBackup'[d] = pendingBackup[d]
        /\ CommandSane(a)'
    <2>1. CASE DeleteCheck(a)
      <3>1. PICK d \in Mirrors : admin' = [admin EXCEPT ![a] = [IdleAdmin EXCEPT
                                                  !.pc = "row", !.kind = "delete", !.dest = d]]
        BY <2>1 DEF DeleteCheck
      <3> DEFINE r == [IdleAdmin EXCEPT !.pc = "row", !.kind = "delete", !.dest = d]
      <3>2. r.pc = "row" /\ r.kind = "delete" /\ r.dest = d /\ r.got = {}
        BY DEF IdleAdmin
      <3>3. n = r
        BY <1>1, <3>1 DEF Typed, TypeOK
      <3> HIDE DEF r
      <3>4. c.pc = "idle" /\ UNCHANGED <<tables, pendingBackup>>
        BY <2>1 DEF DeleteCheck, MayStart
      <3>5. QED BY <3>2, <3>3, <3>4 DEF CommandSane, Mirrors
    <2>2. CASE DeleteRow(a)
      <3> DEFINE r == [c EXCEPT !.pc = "queue"]
      <3>1. r.pc = "queue" /\ r.kind = c.kind /\ r.dest = c.dest /\ r.got = c.got
        BY <1>1 DEF Commands
      <3>2. n = r
        BY <1>1, <2>2 DEF DeleteRow, Step, Typed, TypeOK
      <3> HIDE DEF r
      <3>3. /\ c.kind = "delete" /\ c.pc = "row" /\ UNCHANGED pendingBackup
            /\ registered' = registered \ {c.dest} /\ primary' = primary \ {c.dest}
        BY <2>2 DEF DeleteRow
      <3>4. QED BY <1>2, <3>1, <3>2, <3>3 DEF CommandSane
    <2>3. CASE DeleteQueue(a)
      <3>1. /\ c.kind = "delete" /\ c.pc = "queue" /\ UNCHANGED tables
            /\ pendingBackup' = [pendingBackup EXCEPT ![c.dest] = {}]
            /\ n = IdleAdmin
        BY <1>1, <2>3 DEF DeleteQueue, Done, Typed, TypeOK
      <3>2. n.got = {} /\ n.kind = "none" /\ n.pc = "idle"
        BY <3>1 DEF IdleAdmin
      <3>3. c.dest \notin registered /\ registered \subseteq Dests
        BY <1>1, <1>2, <3>1 DEF CommandSane, Typed, TypeOK
      <3>4. \A d \in registered' \ primary : pendingBackup'[d] = pendingBackup[d]
        BY <1>1, <3>1, <3>3 DEF Typed, TypeOK
      <3>5. QED BY <3>1, <3>2, <3>4 DEF CommandSane
    <2>4. QED BY <2>1, <2>2, <2>3 DEF DeleteStep
  <1>4. FewerUnstaged
    BY <1>1, <1>3, FewerCommand
  <1>5. PrimaryHolds'
    BY <1>1, <1>3, <1>4, PrimaryKept DEF CompleteInv, Moving
  <1>6. MirrorsHold'
    <2> SUFFICES ASSUME NEW d \in Mirrors', mode'[d] # "none" PROVE MirrorHolds(d)'
      BY DEF MirrorsHold
    <2>1. d \in Mirrors /\ d \in Dests /\ pendingBackup'[d] = pendingBackup[d] /\ MirrorHolds(d)
      BY <1>1, <1>3 DEF Mirrors, Typed, TypeOK, CompleteInv, MirrorsHold
    <2>2. QED BY <1>1, <1>3, <1>4, <2>1, MirrorKept
  <1>7. TasksSane'
    BY <1>1, <1>4, TasksKept DEF CompleteInv
  <1>8. QED BY <1>1, <1>3, <1>5, <1>6, <1>7 DEF CommandsSane


(* swap_primary_destination: a complete destination becomes the primary,    *)
(* and the old primary, which is complete as well, a mirror.                *)
LEMMA SwapKeeps ==
    ASSUME Calm, CompleteInv, NEW a \in Admins, admin[a].pc \notin {"names", "seed"},
           FewerUnstaged, StoreKept, UNCHANGED <<push, pendingBackup, transport>>,
           NEW d \in registered, Holds(d), SwapPrimary(d), Moving'
    PROVE  PrimaryHolds' /\ MirrorsHold'
  <1>1. Typed /\ registered \subseteq Dests /\ primary \subseteq Dests
    BY DEF CompleteInv, PruneInv, Typed, TypeOK
  <1>2. primary' = {d} /\ UNCHANGED registered /\ d \in Dests
    BY <1>1 DEF SwapPrimary
  <1>3. PrimaryHolds'
    <2>1. Holds(d)'
      BY <1>2, HoldsKept
    <2>2. transport \in Dests /\ Holds(transport)
      BY <1>1 DEF CompleteInv, PrimaryHolds, Typed, TypeOK
    <2>3. Holds(transport)'
      BY <2>2 DEF Holds, FewerUnstaged, StoreKept
    <2>4. QED BY <1>2, <2>1, <2>2, <2>3 DEF PrimaryHolds, Holds, CompleteInv
  <1>4. MirrorsHold'
    <2> SUFFICES ASSUME NEW e \in Mirrors', mode'[e] # "none" PROVE MirrorHolds(e)'
      BY DEF MirrorsHold
    <2>1. e \in registered /\ e \in Dests
      BY <1>1, <1>2 DEF Mirrors
    <2>2. CASE e \in primary
      BY <2>1, <2>2, HolderIsMirror DEF CompleteInv, PrimaryHolds
    <2>3. CASE e \notin primary
      <3>1. mode'[e] = mode[e]
        BY <2>1, <2>3 DEF SwapPrimary
      <3>2. MirrorHolds(e)
        BY <2>1, <2>3, <3>1 DEF CompleteInv, MirrorsHold, Mirrors
      <3>3. QED BY <1>1, <2>1, <3>2, MirrorKept
    <2>4. QED BY <2>2, <2>3
  <1>5. QED BY <1>3, <1>4

(* A mirror whose health report is clean holds everything.                  *)
LEMMA CleanHolds ==
    ASSUME Calm, CompleteInv, NEW a \in Admins, admin[a].pc \notin {"names", "seed"},
           pushPc = "idle", NEW d \in Mirrors, mode[d] # "none",
           BackupHealth(d).pending_blobs = 0
    PROVE  Holds(d)
  <1>1. d \in Dests /\ \A e \in Admins : e = a
    BY DEF Mirrors, CompleteInv, PruneInv, Typed, TypeOK, Calm
  <1>2. Cardinality(pendingBackup[d]) = 0
    BY DEF BackupHealth, PendingCount
  <1>3. pendingBackup[d] \subseteq used /\ IsFiniteSet(used)
    BY <1>1 DEF CompleteInv, PruneInv, NamesUsed, RemoteNames
  <1>4. IsFiniteSet(pendingBackup[d])
    BY <1>3, FS_Subset
  <1>5. pendingBackup[d] = {}
    BY <1>2, <1>4, FS_EmptySet
  <1>6. pushUp = {}
    BY DEF CompleteInv, TasksSane
  <1>7. \A b \in refs : Staged(b) \/ Bound(b, d)
    BY <1>1 DEF CompleteInv, MirrorsHold, MirrorHolds
  <1>8. QED BY <1>1, <1>5, <1>6, <1>7 DEF Bound, Holds

LEMMA CompletePromote ==
    ASSUME Calm, CompleteInv, NEW a \in Admins, PromoteStep(a), StoreKept
    PROVE  PrimaryHolds' /\ MirrorsHold' /\ TasksSane' /\ CommandsSane'
  <1> USE DEF files, tables, queues, local, link
  <1> DEFINE c == admin[a]
             n == admin'[a]
  <1>1. /\ UNCHANGED <<refs, pending, root, store, pendingBackup, push, backup>>
        /\ \A e \in Admins : e = a
        /\ c \in Commands /\ Typed
    BY DEF PromoteStep, PromoteRow, PromoteRead, PromoteConf, PromoteSwap, Calm, CompleteInv,
           PruneInv, Typed, TypeOK
  <1>2. CommandSane(a) /\ (c.pc = "idle" <=> c.kind = "none")
    BY DEF CompleteInv, CommandsSane, PruneInv, Typed, DestKnown
  <1>3. /\ pushPc = "idle" /\ bkPc = "idle" /\ c.pc \notin {"names", "seed"}
    <2>1. CASE PromoteRow(a)
      BY <2>1 DEF PromoteRow, MayStart, Calm, SyncRunning
    <2>2. CASE c.kind = "promote"
      BY <1>2, <2>2 DEF CommandSane, CompleteInv, PruneInv, Alone, SyncRunning, Calm
    <2>3. QED BY <2>1, <2>2 DEF PromoteStep, PromoteRead, PromoteConf, PromoteSwap
  <1>4. CASE PromoteRow(a)
    <2>1. PICK d \in registered :
            /\ d \in primary \/ (mode[d] # "none" /\ BackupHealth(d).pending_blobs = 0)
            /\ SwapPrimary(d)
            /\ admin' = [admin EXCEPT ![a] = [IdleAdmin EXCEPT !.pc = "read", !.kind = "promote"]]
      BY <1>4 DEF PromoteRow, Calm
    <2> DEFINE r == [IdleAdmin EXCEPT !.pc = "read", !.kind = "promote"]
    <2>2. r.pc = "read" /\ r.kind = "promote" /\ r.got = {}
      BY DEF IdleAdmin
    <2>3. n = r
      BY <1>1, <2>1 DEF Typed, TypeOK
    <2> HIDE DEF r
    <2>4. FewerUnstaged
      BY <1>1, <2>2, <2>3, FewerCommand
    <2>5. Holds(d)
      <3>1. CASE d \in primary
        BY <3>1 DEF CompleteInv, PrimaryHolds
      <3>2. CASE d \notin primary
        BY <1>3, <2>1, <3>2, CleanHolds DEF Mirrors
      <3>3. QED BY <3>1, <3>2
    <2>6. Moving' /\ UNCHANGED transport
      BY <1>4, <2>2, <2>3 DEF Moving, PromoteRow
    <2>7. PrimaryHolds' /\ MirrorsHold'
      BY <1>1, <1>3, <2>1, <2>4, <2>5, <2>6, SwapKeeps
    <2>8. TasksSane'
      BY <1>1, <2>4, <2>6, TasksKept DEF CompleteInv
    <2>9. CommandsSane'
      BY <1>1, <2>2, <2>3 DEF CommandsSane, CommandSane
    <2>10. QED BY <2>7, <2>8, <2>9
  <1>5. CASE ~PromoteRow(a)
    <2>1. c.kind = "promote" /\ UNCHANGED tables
      BY <1>5 DEF PromoteStep, PromoteRead, PromoteConf, PromoteSwap
    <2>2. PICK p : primary = {p}
      BY <1>1 DEF CompleteInv, PrimaryHolds, Typed, TypeOK
    <2>3. /\ n.got = {} /\ n.pc \notin {"names", "seed"} /\ CommandSane(a)'
          /\ \/ UNCHANGED transport /\ n.kind = "promote" /\ n.pc \in {"conf", "swap"}
             \/ transport' = p
      <3>1. CASE PromoteRead(a)
        <4>1. admin' = [admin EXCEPT ![a] = [c EXCEPT !.pc = "conf", !.dest = p]]
          BY <2>2, <3>1 DEF PromoteRead
        <4> DEFINE r == [c EXCEPT !.pc = "conf", !.dest = p]
        <4>2. r.pc = "conf" /\ r.kind = c.kind /\ r.dest = p /\ r.got = c.got
          BY <1>1 DEF Commands
        <4>3. n = r
          BY <1>1, <4>1 DEF Typed, TypeOK
        <4> HIDE DEF r
        <4>4. QED BY <1>2, <2>1, <2>2, <3>1, <4>2, <4>3 DEF CommandSane, PromoteRead
      <3>2. CASE PromoteConf(a)
        <4>1. admin' = [admin EXCEPT ![a] = [c EXCEPT !.pc = "swap"]] /\ c.pc = "conf"
              /\ UNCHANGED transport
          BY <3>2 DEF PromoteConf, Step, Calm
        <4> DEFINE r == [c EXCEPT !.pc = "swap"]
        <4>2. r.pc = "swap" /\ r.kind = c.kind /\ r.dest = c.dest /\ r.got = c.got
          BY <1>1 DEF Commands
        <4>3. n = r
          BY <1>1, <4>1 DEF Typed, TypeOK
        <4> HIDE DEF r
        <4>4. QED BY <1>2, <2>1, <4>1, <4>2, <4>3 DEF CommandSane
      <3>3. CASE PromoteSwap(a)
        <4>1. transport' = c.dest /\ n = IdleAdmin /\ c.pc = "swap"
          BY <1>1, <3>3 DEF PromoteSwap, Done, Typed, TypeOK
        <4>2. n.got = {} /\ n.kind = "none" /\ n.pc = "idle"
          BY <4>1 DEF IdleAdmin
        <4>3. c.dest = p
          BY <1>2, <2>1, <2>2, <4>1 DEF CommandSane
        <4>4. QED BY <4>1, <4>2, <4>3 DEF CommandSane
      <3>4. QED BY <1>5, <3>1, <3>2, <3>3 DEF PromoteStep
    <2>4. FewerUnstaged
      BY <1>1, <2>3, FewerCommand
    <2>5. PrimaryHolds'
      <3>1. CASE UNCHANGED transport /\ n.kind = "promote" /\ n.pc \in {"conf", "swap"}
        BY <1>1, <2>1, <2>4, <3>1, PrimaryKept DEF CompleteInv, Moving
      <3>2. CASE transport' = p
        <4>1. p \in Dests /\ Holds(p)
          BY <1>1, <2>2 DEF CompleteInv, PrimaryHolds, Typed, TypeOK
        <4>2. Holds(p)'
          BY <2>4, <4>1, HoldsKept
        <4>3. QED BY <2>1, <2>2, <3>2, <4>1, <4>2, DestsAssumption DEF PrimaryHolds, Holds
      <3>3. QED BY <2>3, <3>1, <3>2
    <2>6. MirrorsHold'
      <3> SUFFICES ASSUME NEW d \in Mirrors, mode[d] # "none" PROVE MirrorHolds(d)'
        BY <2>1 DEF MirrorsHold, Mirrors
      <3>1. d \in Dests /\ MirrorHolds(d)
        BY <1>1 DEF Mirrors, Typed, TypeOK, CompleteInv, MirrorsHold
      <3>2. QED BY <1>1, <1>3, <2>4, <3>1, MirrorKept
    <2>7. TasksSane'
      BY <1>1, <1>3, <2>4, TasksKept DEF CompleteInv, SyncRunning
    <2>8. QED BY <1>1, <2>3, <2>5, <2>6, <2>7 DEF CommandsSane
  <1>6. QED BY <1>4, <1>5


(* migrate_vault before its commit point.                                   *)
LEMMA CompleteCopy ==
    ASSUME Calm, CompleteInv, NEW a \in Admins, StoreKept,
           \/ MigrateList(a) \/ MigrateFetch(a) \/ MigrateFetchFail(a) \/ MigrateFetched(a)
           \/ MigrateSend(a) \/ MigrateSendFail(a)
    PROVE  PrimaryHolds' /\ MirrorsHold' /\ TasksSane' /\ CommandsSane'
  <1> USE DEF files, tables, queues, local, link
  <1> DEFINE c == admin[a]
             n == admin'[a]
  <1>1. /\ UNCHANGED <<refs, pending, tables, pendingBackup, link, push, backup>>
        /\ \A e \in Admins : e = a
        /\ c \in Commands /\ Typed
    BY DEF MigrateList, MigrateFetch, MigrateFetchFail, MigrateFetched, MigrateSend,
           MigrateSendFail, Calm, CompleteInv, PruneInv, Typed, TypeOK
  <1>2. CommandSane(a) /\ (c.pc = "idle" <=> c.kind = "none")
    BY DEF CompleteInv, CommandsSane, PruneInv, Typed, DestKnown
  <1>3. c.pc \in {"idle", "fetch", "send"}
    BY DEF MigrateList, MayStart, MigrateFetch, MigrateFetchFail, MigrateFetched, MigrateSend,
           MigrateSendFail
  <1>4. FewerUnstaged /\ CommandSane(a)'
    <2>1. CASE MigrateList(a)
      <3>1. PICK d \in registered : admin' = [admin EXCEPT ![a] = [IdleAdmin EXCEPT
                  !.pc = "fetch", !.kind = "migrate", !.dest = d, !.via = transport,
                  !.names = refs, !.sent = refs \cap root]]
        BY <2>1 DEF MigrateList
      <3> DEFINE r == [IdleAdmin EXCEPT
                  !.pc = "fetch", !.kind = "migrate", !.dest = d, !.via = transport,
                  !.names = refs, !.sent = refs \cap root]
      <3>2. /\ r.pc = "fetch" /\ r.kind = "migrate" /\ r.names = refs /\ r.sent = refs \cap root
            /\ r.got = {}
        BY DEF IdleAdmin
      <3>3. n = r
        BY <1>1, <3>1 DEF Typed, TypeOK
      <3> HIDE DEF r
      <3>4. UNCHANGED root
        BY <2>1 DEF MigrateList
      <3>5. FewerUnstaged
        BY <1>1, <3>2, <3>3, <3>4, FewerCommand
      <3>6. QED BY <1>1, <3>2, <3>3, <3>4, <3>5 DEF CommandSane
    <2>2. CASE MigrateFetch(a)
      <3>1. PICK b \in c.names \ (c.sent \cup c.got) :
                /\ root' = root \cup {b}
                /\ admin' = [admin EXCEPT ![a] = [c EXCEPT !.got = c.got \cup {b}]]
        BY <2>2 DEF MigrateFetch
      <3> DEFINE r == [c EXCEPT !.got = c.got \cup {b}]
      <3>2. /\ r.pc = c.pc /\ r.kind = c.kind /\ r.names = c.names /\ r.sent = c.sent
            /\ r.dest = c.dest /\ r.got = c.got \cup {b}
        BY <1>1 DEF Commands
      <3>3. n = r
        BY <1>1, <3>1 DEF Typed, TypeOK
      <3> HIDE DEF r
      <3>4. c.kind = "migrate" /\ c.pc = "fetch"
        BY <2>2 DEF MigrateFetch
      <3>5. b \notin root
        BY <1>2, <3>1, <3>4 DEF CommandSane
      <3>6. FewerUnstaged
        BY <1>1, <3>1, <3>2, <3>3, <3>5 DEF FewerUnstaged, Staged
      <3>7. QED BY <1>1, <1>2, <3>1, <3>2, <3>3, <3>4, <3>6 DEF CommandSane, FewerUnstaged
    <2>3. CASE MigrateFetchFail(a) \/ MigrateSendFail(a)
      <3>1. n = IdleAdmin /\ (root' = root \ c.got \/ root' = root)
        BY <1>1, <2>3 DEF MigrateFetchFail, MigrateSendFail, Done, Typed, TypeOK
      <3>2. n.got = {} /\ n.kind = "none" /\ n.pc = "idle"
        BY <3>1 DEF IdleAdmin
      <3>3. FewerUnstaged
        BY <1>1, <3>1, <3>2 DEF FewerUnstaged, Staged
      <3>4. QED BY <3>2, <3>3 DEF CommandSane
    <2>4. CASE MigrateFetched(a)
      <3> DEFINE r == [c EXCEPT !.pc = "send", !.sent = {}]
      <3>1. /\ r.pc = "send" /\ r.kind = c.kind /\ r.names = c.names /\ r.sent = {}
            /\ r.got = c.got
        BY <1>1 DEF Commands
      <3>2. n = r
        BY <1>1, <2>4 DEF MigrateFetched, Typed, TypeOK
      <3> HIDE DEF r
      <3>3. UNCHANGED root /\ c.kind = "migrate"
        BY <2>4 DEF MigrateFetched
      <3>4. FewerUnstaged
        BY <1>1, <3>1, <3>2, <3>3, FewerCommand
      <3>5. QED BY <1>1, <1>2, <3>1, <3>2, <3>3, <3>4 DEF CommandSane, FewerUnstaged
    <2>5. CASE MigrateSend(a)
      <3>1. PICK b \in c.names :
                /\ store' = [store EXCEPT ![c.dest] = @ \cup {b}]
                /\ admin' = [admin EXCEPT ![a] = [c EXCEPT !.sent = c.sent \cup {b}]]
        BY <2>5 DEF MigrateSend, Stored
      <3> DEFINE r == [c EXCEPT !.sent = c.sent \cup {b}]
      <3>2. /\ r.pc = c.pc /\ r.kind = c.kind /\ r.names = c.names /\ r.dest = c.dest
            /\ r.got = c.got /\ r.sent = c.sent \cup {b}
        BY <1>1 DEF Commands
      <3>3. n = r
        BY <1>1, <3>1 DEF Typed, TypeOK
      <3> HIDE DEF r
      <3>4. UNCHANGED root /\ c.kind = "migrate" /\ c.pc = "send" /\ c.dest \in Dests
        BY <1>1, <2>5 DEF MigrateSend, Typed, DestKnown
      <3>5. FewerUnstaged
        BY <1>1, <3>2, <3>3, <3>4, FewerCommand
      <3>6. n.sent \subseteq store'[n.dest]
        BY <1>1, <1>2, <3>1, <3>2, <3>3, <3>4 DEF CommandSane, Typed, TypeOK
      <3>7. QED BY <1>1, <1>2, <3>2, <3>3, <3>4, <3>5, <3>6 DEF CommandSane, FewerUnstaged
    <2>6. QED BY <2>1, <2>2, <2>3, <2>4, <2>5
  <1>5. PrimaryHolds'
    BY <1>1, <1>3, <1>4, PrimaryKept DEF CompleteInv, Moving
  <1>6. MirrorsHold'
    <2> SUFFICES ASSUME NEW d \in Mirrors, mode[d] # "none" PROVE MirrorHolds(d)'
      BY <1>1 DEF MirrorsHold, Mirrors
    <2>1. d \in Dests /\ MirrorHolds(d)
      BY <1>1 DEF Mirrors, Typed, TypeOK, CompleteInv, MirrorsHold
    <2>2. QED BY <1>1, <1>3, <1>4, <2>1, MirrorKept
  <1>7. TasksSane'
    BY <1>1, <1>4, TasksKept DEF CompleteInv
  <1>8. QED BY <1>1, <1>4, <1>5, <1>6, <1>7 DEF CommandsSane

(* ... and from the commit point on.                                        *)
LEMMA CompleteCommit ==
    ASSUME Calm, CompleteInv, NEW a \in Admins, StoreKept,
           MigrateRow(a) \/ MigrateConf(a) \/ MigrateSwap(a) \/ MigrateClean(a)
    PROVE  PrimaryHolds' /\ MirrorsHold' /\ TasksSane' /\ CommandsSane'
  <1> USE DEF files, tables, queues, local, link
  <1> DEFINE c == admin[a]
             n == admin'[a]
  <1>1. /\ UNCHANGED <<refs, pending, store, pendingBackup, push, backup>>
        /\ \A e \in Admins : e = a
        /\ c \in Commands /\ Typed /\ c.kind = "migrate"
    BY DEF MigrateRow, MigrateConf, MigrateSwap, MigrateClean, Calm, CompleteInv, PruneInv,
           Typed, TypeOK
  <1>2. CommandSane(a)
    BY DEF CompleteInv, CommandsSane
  <1>3. pushPc = "idle" /\ bkPc = "idle"
    BY <1>1 DEF CompleteInv, PruneInv, Alone, SyncRunning, Calm
  <1>4. ASSUME NEW pc \in {"conf", "swap", "clean"}, Step(a, pc), UNCHANGED root
        PROVE  FewerUnstaged /\ CommandSane(a)' /\ n.pc = pc /\ n.kind = "migrate"
    <2> DEFINE r == [c EXCEPT !.pc = pc]
    <2>1. r.pc = pc /\ r.kind = c.kind /\ r.names = c.names /\ r.got = c.got
      BY <1>1 DEF Commands
    <2>2. n = r
      BY <1>1, <1>4 DEF Step, Typed, TypeOK
    <2> HIDE DEF r
    <2>3. FewerUnstaged
      BY <1>1, <1>4, <2>1, <2>2, FewerCommand
    <2>4. QED BY <1>1, <1>2, <2>1, <2>2, <2>3 DEF CommandSane, FewerUnstaged
  <1>5. ASSUME Done(a), root' = root \/ root' = root \ c.got
        PROVE  FewerUnstaged /\ CommandSane(a)'
    <2>1. n = IdleAdmin
      BY <1>1, <1>5 DEF Done, Typed, TypeOK
    <2>2. n.got = {} /\ n.kind = "none" /\ n.pc = "idle"
      BY <2>1 DEF IdleAdmin
    <2>3. FewerUnstaged
      BY <1>1, <1>5, <2>2 DEF FewerUnstaged, Staged
    <2>4. QED BY <2>2, <2>3 DEF CommandSane
  <1>6. CASE MigrateRow(a) /\ c.dest \in registered
    <2>1. SwapPrimary(c.dest) /\ Step(a, "conf") /\ UNCHANGED <<root, transport>>
          /\ c.pc = "send" /\ c.sent = c.names
      BY <1>6 DEF MigrateRow
    <2>2. FewerUnstaged /\ CommandSane(a)' /\ n.pc = "conf" /\ n.kind = "migrate"
      BY <1>4, <2>1
    <2>3. Holds(c.dest)
      BY <1>1, <1>2, <2>1 DEF CommandSane, Holds
    <2>4. Moving'
      BY <2>2 DEF Moving
    <2>5. PrimaryHolds' /\ MirrorsHold'
      BY <1>1, <1>6, <2>1, <2>2, <2>3, <2>4, SwapKeeps
    <2>6. TasksSane'
      BY <1>1, <2>1, <2>2, TasksKept DEF CompleteInv
    <2>7. QED BY <1>1, <2>2, <2>5, <2>6 DEF CommandsSane
  <1>7. CASE ~(MigrateRow(a) /\ c.dest \in registered)
    <2>1. PICK p : primary = {p}
      <3>1. PICK p \in primary : TRUE
        BY DEF CompleteInv, PrimaryHolds
      <3>2. \A q \in primary : q = p
        BY <1>1, <3>1 DEF Typed, TypeOK
      <3>3. QED BY <3>1, <3>2
    <2>2. UNCHANGED tables /\ c.pc \notin {"names", "seed"}
      BY <1>7 DEF MigrateRow, MigrateConf, MigrateSwap, MigrateClean
    <2>3. FewerUnstaged /\ CommandSane(a)'
      BY <1>4, <1>5, <1>7 DEF MigrateRow, MigrateConf, MigrateSwap, MigrateClean, Calm
    <2>4. transport' = p \/ (UNCHANGED transport /\ (Moving => Moving'))
      <3>1. CASE MigrateSwap(a)
        BY <2>1, <3>1 DEF MigrateSwap
      <3>2. CASE MigrateConf(a)
        BY <1>4, <3>2 DEF MigrateConf, Calm, Moving
      <3>3. CASE MigrateRow(a) \/ MigrateClean(a)
        BY <1>1, <3>3 DEF MigrateRow, MigrateClean, Moving
      <3>4. QED BY <3>1, <3>2, <3>3
    <2>5. PrimaryHolds'
      <3>1. CASE UNCHANGED transport /\ (Moving => Moving')
        BY <1>1, <2>2, <2>3, <3>1, PrimaryKept DEF CompleteInv
      <3>2. CASE transport' = p
        <4>1. p \in Dests /\ Holds(p)
          BY <1>1, <2>1 DEF CompleteInv, PrimaryHolds, Typed, TypeOK
        <4>2. Holds(p)'
          BY <2>3, <4>1, HoldsKept
        <4>3. QED BY <2>1, <2>2, <3>2, <4>1, <4>2, DestsAssumption DEF PrimaryHolds, Holds
      <3>3. QED BY <2>4, <3>1, <3>2
    <2>6. MirrorsHold'
      <3> SUFFICES ASSUME NEW d \in Mirrors, mode[d] # "none" PROVE MirrorHolds(d)'
        BY <2>2 DEF MirrorsHold, Mirrors
      <3>1. d \in Dests /\ MirrorHolds(d)
        BY <1>1 DEF Mirrors, Typed, TypeOK, CompleteInv, MirrorsHold
      <3>2. QED BY <1>1, <2>2, <2>3, <3>1, MirrorKept
    <2>7. TasksSane'
      BY <1>1, <1>3, <2>3, TasksKept DEF CompleteInv, SyncRunning
    <2>8. QED BY <1>1, <2>3, <2>5, <2>6, <2>7 DEF CommandsSane
  <1>8. QED BY <1>6, <1>7

LEMMA CompleteNext == Calm => (CompleteInv /\ [Next]_vars => CompleteInv')
  <1> SUFFICES ASSUME Calm, CompleteInv, [Next]_vars PROVE CompleteInv' OBVIOUS
  <1>1. PruneInv'
    BY PruneNext DEF Calm, CompleteInv
  <1>2. CASE UNCHANGED vars
    BY <1>1, <1>2 DEF CompleteInv, PrimaryHolds, Holds, Staged, Moving, MirrorsHold, MirrorHolds,
           Mirrors, Bound, TasksSane, CommandsSane, CommandSane, vars, files, tables, queues,
           local, link, push, backup
  <1>3. CASE Next
    <2>1. StoreKept
      BY <1>3, NothingTaken DEF CompleteInv
    <2>2. ASSUME NEW a \in Admins, MigrateStep(a)
          PROVE  PrimaryHolds' /\ MirrorsHold' /\ TasksSane' /\ CommandsSane'
      BY <2>1, <2>2, CompleteCopy, CompleteCommit DEF MigrateStep
    <2>3. PrimaryHolds' /\ MirrorsHold' /\ TasksSane' /\ CommandsSane'
      BY <1>3, <2>1, <2>2, CompleteFile, CompleteRestart, CompletePush, CompleteBackup,
         CompleteAdd, CompleteDelete, CompletePromote DEF Next
    <2>4. QED BY <1>1, <2>3 DEF CompleteInv
  <1>4. QED BY <1>2, <1>3

LEMMA Completeness == CompleteInv => MirrorsQueued /\ PrimaryComplete
  <1> SUFFICES ASSUME CompleteInv PROVE MirrorsQueued /\ PrimaryComplete OBVIOUS
  <1>1. \A b : Staged(b) => b \in Unpushed
    BY DEF Staged, Unpushed
  <1>2. PrimaryComplete
    BY <1>1 DEF CompleteInv, PrimaryHolds, Holds, PrimaryComplete
  <1>3. MirrorsQueued
    <2> SUFFICES ASSUME NEW d \in Mirrors, mode[d] # "none", ~Adding(d), NEW b \in refs
                 PROVE  b \in store[d] \cup pendingBackup[d] \cup Unpushed \cup pushUp
      BY DEF MirrorsQueued
    <2>1. \A a \in Admins : admin[a].pc \in {"names", "seed"} => admin[a].dest # d
      BY DEF Adding, CompleteInv, CommandsSane, CommandSane
    <2>2. Staged(b) \/ Bound(b, d)
      BY <2>1 DEF CompleteInv, MirrorsHold, MirrorHolds
    <2>3. QED BY <1>1, <2>1, <2>2 DEF Bound
  <1>4. QED BY <1>2, <1>3

(* sync_backup knows what still has to reach each mirror: whatever the      *)
(* user adds, deletes, promotes and migrates between and (adds, deletes)    *)
(* during pushes and backups, and whatever uploads, downloads, deletions    *)
(* and listings fail (push_active_vault, add_destination,                   *)
(* sync_to_destination).                                                    *)
THEOREM MirrorsAreQueued == Calm => (Spec => []MirrorsQueued)
  <1> SUFFICES ASSUME Calm PROVE Spec => []MirrorsQueued
    OBVIOUS
  <1>1. CompleteInv /\ [Next]_vars => CompleteInv'
    BY CompleteNext
  <1>2. QED BY <1>1, CompleteInit, Completeness, PTL DEF Spec

(* The destination that pushes go to can restore the vault, before, during  *)
(* and after every set_primary_destination and migrate_vault.               *)
THEOREM PrimaryIsComplete == Calm => (Spec => []PrimaryComplete)
  <1> SUFFICES ASSUME Calm PROVE Spec => []PrimaryComplete
    OBVIOUS
  <1>1. CompleteInv /\ [Next]_vars => CompleteInv'
    BY CompleteNext
  <1>2. QED BY <1>1, CompleteInit, Completeness, PTL DEF Spec

=============================================================================
