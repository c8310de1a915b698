---------------------------- MODULE Destinations ----------------------------
(***************************************************************************)
(* The destinations of a vault: one primary that pushes go to, and mirrors *)
(* that sync_backup fills from a queue (pending_backup).  Commands add,    *)
(* delete and promote destinations and migrate the vault to another one.   *)
(*                                                                          *)
(* A push, its staging and its drain are modelled step by step in          *)
(* VaultStore; here they appear as far as destinations see them.  Both a   *)
(* push and sync_backup hold sync_mutex; the destination commands do not.  *)
(***************************************************************************)
EXTENDS Naturals, FiniteSets

CONSTANTS
    Blobs,            \* blob names (fresh UUIDs)
    Dests,            \* destination ids (fresh UUIDs)
    FirstDest,        \* the primary the vault was created with
    Foreign,          \* local destinations another device registered
    NoDest,           \* no destination: the NoOpCloudTransport
    Admins,           \* destination commands that may be in flight at once
    Overlap,          \* commands that may overlap a push or a sync_backup
    CutShort,         \* may a push that uploaded something fail or crash, or
                      \* an add crash between its row and its queue?
    PromoteClean,     \* are only mirrors with an empty queue promoted?
    ConfFails         \* may writing the session's rclone.conf fail?

ASSUME DestsAssumption ==
    FirstDest \in Dests /\ Foreign \subseteq Dests \ {FirstDest} /\ NoDest \notin Dests

VARIABLES
    \* ---- manifest database ----
    refs,             \* blob names list_sync_chunks returns
    pendingDel,       \* pending_deletions
    registered,       \* rows of destination_sessions
    primary,          \* ... with is_primary = 1
    mode,             \* ... backup_mode
    pendingBackup,    \* pending_backup: queued blobs per destination
    failures,         \* backup_upload_failures per destination
    \* ---- staging directory, remotes, session ----
    used,             \* blob names generated so far
    pending,          \* blobs in staging/pending
    root,             \* blobs in the staging root
    store,            \* vault/<blob>.blob objects of each destination
    issued,           \* destination ids generated so far
    transport,        \* the destination AppState.cloud_transport talks to
    conf,             \* stanzas in the session's rclone.conf
    \* ---- tasks ----
    pushPc, pushVia, pushTodo, pushUp, pushDests,          \* push_active_vault
    bkPc, bkVia, bkDests, bkMirrors, bkAll, bkDest, bkTodo, bkTemp,    \* sync_backup
    admin                                                   \* destination commands

tables == <<registered, primary, mode>>
queues == <<pendingBackup, failures>>
files  == <<refs, pendingDel, used>>
local  == <<pending, root>>
link   == <<transport, conf>>
push   == <<pushPc, pushVia, pushTodo, pushUp, pushDests>>
backup == <<bkPc, bkVia, bkDests, bkMirrors, bkAll, bkDest, bkTodo, bkTemp>>
vars   == <<files, tables, queues, local, store, issued, link, push, backup, admin>>

Modes == {"none", "mirror", "accumulating"}
Kinds == {"add", "delete", "promote", "migrate"}

IdleAdmin == [pc |-> "idle", kind |-> "none", dest |-> NoDest, via |-> NoDest,
              names |-> {}, got |-> {}, sent |-> {}]

Commands ==
    [pc : {"idle", "names", "seed", "row", "queue", "read", "conf", "swap", "fetch", "send",
           "clean"},
     kind : Kinds \cup {"none"}, dest : Dests \cup {NoDest}, via : Dests \cup {NoDest},
     names : SUBSET Blobs, got : SUBSET Blobs, sent : SUBSET Blobs]

TypeOK ==
    /\ refs \subseteq Blobs /\ pendingDel \subseteq Blobs /\ used \subseteq Blobs
    /\ registered \subseteq issued /\ issued \subseteq Dests
    /\ primary \subseteq registered /\ \A p, q \in primary : p = q
    /\ mode \in [Dests -> Modes]
    /\ pendingBackup \in [Dests -> SUBSET Blobs]
    /\ failures \in [Dests -> SUBSET Blobs]
    /\ pending \subseteq Blobs /\ root \subseteq Blobs
    /\ store \in [Dests -> SUBSET Blobs]
    /\ transport \in Dests \cup {NoDest} /\ conf \subseteq Dests
    /\ pushPc \in {"idle", "list", "upload", "drain", "enqueue"}
    /\ pushVia \in Dests \cup {NoDest}
    /\ pushTodo \subseteq Blobs /\ pushUp \subseteq Blobs /\ pushDests \subseteq Dests
    /\ bkPc \in {"idle", "names", "link", "next", "blobs", "prune"}
    /\ bkVia \in Dests \cup {NoDest} /\ bkDest \in Dests \cup {NoDest}
    /\ bkDests \subseteq Dests /\ bkMirrors \subseteq Dests
    /\ bkAll \subseteq Blobs /\ bkTodo \subseteq Blobs /\ bkTemp \subseteq Blobs
    /\ admin \in [Admins -> Commands]

Init ==
    /\ refs = {} /\ pendingDel = {} /\ used = {}
    /\ registered = {FirstDest} \cup Foreign /\ issued = {FirstDest} \cup Foreign
    /\ primary = {FirstDest}
    /\ mode = [d \in Dests |-> IF d \in Foreign THEN "mirror" ELSE "none"]
    /\ pendingBackup = [d \in Dests |-> {}] /\ failures = [d \in Dests |-> {}]
    /\ pending = {} /\ root = {}
    /\ store = [d \in Dests |-> {}]
    /\ transport = FirstDest /\ conf = registered
    /\ pushPc = "idle" /\ pushVia = NoDest
    /\ pushTodo = {} /\ pushUp = {} /\ pushDests = {}
    /\ bkPc = "idle" /\ bkVia = NoDest /\ bkDests = {} /\ bkMirrors = {}
    /\ bkAll = {} /\ bkDest = NoDest /\ bkTodo = {} /\ bkTemp = {}
    /\ admin = [a \in Admins |-> IdleAdmin]

-----------------------------------------------------------------------------
(* What the tables answer.                                                  *)

(* Rows that are not primary: where pushes enqueue and sync_backup copies. *)
Mirrors == registered \ primary

(* insert_destination_session: a second primary is refused.                *)
InsertSession(d, m, isPrimary) ==
    /\ isPrimary => primary = {}
    /\ registered' = registered \cup {d}
    /\ primary' = IF isPrimary THEN {d} ELSE primary
    /\ mode' = [mode EXCEPT ![d] = m]

(* INSERT OR IGNORE INTO pending_backup, one row per name.                 *)
Enqueued(names, d) == [pendingBackup EXCEPT ![d] = @ \cup names]

(* SELECT blob_name FROM pending_backup of one destination.                *)
QueuedFor(d) == pendingBackup[d]

(* DELETE FROM pending_backup for one blob.                                *)
Dequeued(b, d) == [pendingBackup EXCEPT ![d] = @ \ {b}]

(* INSERT INTO backup_upload_failures, counting retries up on conflict.    *)
Failed(b, d) == [failures EXCEPT ![d] = @ \cup {b}]

(* DELETE FROM backup_upload_failures for one blob.                        *)
FailureCleared(b, d) == [failures EXCEPT ![d] = @ \ {b}]

(* SELECT destination_id, COUNT of either table, one destination's row. *)
PendingCount(d) == Cardinality(pendingBackup[d])
FailureCount(d) == Cardinality(failures[d])

(* What get_backup_health reports for a destination.                       *)
BackupHealth(d) == [pending_blobs |-> PendingCount(d), pending_failure_blobs |-> FailureCount(d)]

(* swap_primary_destination, one transaction: a demoted primary without a  *)
(* mode becomes a mirror.                                                   *)
SwapPrimary(d) ==
    /\ mode' = [e \in Dests |-> IF e \in primary /\ mode[e] = "none" THEN "mirror" ELSE mode[e]]
    /\ primary' = {d}
    /\ UNCHANGED registered

(* A transport reads its stanza from the session's rclone.conf; rclone     *)
(* fails (exit code 1, not "not found") when the stanza is gone.           *)
Reaches(d) == d \in conf

(* The object commands of RcloneTransport: copyto the remote, copyto from  *)
(* it (refused when the object is absent), deletefile.                      *)
Stored(b, d)      == [store EXCEPT ![d] = @ \cup {b}]
Retrievable(b, d) == b \in store[d]
Removed(b, d)     == [store EXCEPT ![d] = @ \ {b}]

(* list_blobs("vault/"): every object below the prefix.                    *)
Listed(d) == store[d]

(* sync_mutex.                                                              *)
SyncRunning == pushPc # "idle" \/ bkPc # "idle"

(* The commands return; their locals are gone.                              *)
EndPush ==
    /\ pushPc' = "idle" /\ pushVia' = NoDest
    /\ pushTodo' = {} /\ pushUp' = {} /\ pushDests' = {}

EndBackup ==
    /\ bkPc' = "idle" /\ bkVia' = NoDest /\ bkDests' = {} /\ bkMirrors' = {}
    /\ bkAll' = {} /\ bkDest' = NoDest /\ bkTodo' = {} /\ bkTemp' = {}

-----------------------------------------------------------------------------
(* Files.  upload_file and the push's flush write to staging/pending, the  *)
(* user's flush command to the staging root; a delete queues the blob for  *)
(* the drain and unlinks the staged copies.                                 *)
AddFile ==
    \E b \in Blobs \ used, at \in {"pending", "root"} :
        /\ used' = used \cup {b} /\ refs' = refs \cup {b}
        /\ IF at = "pending" THEN pending' = pending \cup {b} /\ UNCHANGED root
                             ELSE root' = root \cup {b} /\ UNCHANGED pending
        /\ UNCHANGED <<pendingDel, tables, queues, store, issued, link, push, backup, admin>>

DeleteFile ==
    \E b \in refs :
        /\ CutShort \/ b \notin pushTodo     \* else the push fails
        /\ refs' = refs \ {b} /\ pendingDel' = pendingDel \cup {b}
        /\ pending' = pending \ {b} /\ root' = root \ {b}
        /\ UNCHANGED <<used, tables, queues, store, issued, link, push, backup, admin>>

-----------------------------------------------------------------------------
(* push_active_vault                                                        *)

(* With CutShort = FALSE a push that uploaded something runs to its end.   *)
MayFail == CutShort \/ pushUp = {}

PushBegin ==
    /\ ~SyncRunning /\ transport # NoDest
    /\ \A a \in Admins : admin[a].pc # "idle" => admin[a].kind \in Overlap
    /\ pushPc' = "list" /\ pushVia' = transport
    /\ UNCHANGED <<files, tables, queues, local, store, issued, link, backup, admin,
                   pushTodo, pushUp, pushDests>>

(* push_vault looks for its blobs in staging/pending only.                 *)
PushList ==
    /\ pushPc = "list"
    /\ pushPc' = "upload" /\ pushTodo' = refs \cap pending
    /\ UNCHANGED <<files, tables, queues, local, store, issued, link, backup, admin,
                   pushVia, pushUp, pushDests>>

(* An uploaded blob leaves staging/pending (for the cache).                *)
PushUpload ==
    /\ pushPc = "upload"
    /\ Reaches(pushVia)
    /\ \E b \in pushTodo \cap pending :
        /\ store' = Stored(b, pushVia)
        /\ pending' = pending \ {b}
        /\ pushTodo' = pushTodo \ {b} /\ pushUp' = pushUp \cup {b}
    /\ UNCHANGED <<files, tables, queues, root, issued, link, backup, admin,
                   pushPc, pushVia, pushDests>>

(* Manifest and header follow the blobs; then push_vault drains.           *)
PushPublish ==
    /\ pushPc = "upload" /\ pushTodo = {} /\ Reaches(pushVia)
    /\ pushPc' = "drain"
    /\ UNCHANGED <<files, tables, queues, local, store, issued, link, backup, admin,
                   pushVia, pushTodo, pushUp, pushDests>>

PushFail ==
    /\ pushPc \in {"list", "upload"} /\ MayFail
    /\ EndPush
    /\ UNCHANGED <<files, tables, queues, local, store, issued, link, backup, admin>>

PushDrain ==
    /\ pushPc = "drain" /\ Reaches(pushVia)
    /\ \E b \in pendingDel :
        /\ store' = Removed(b, pushVia)
        /\ pendingDel' = pendingDel \ {b}
    /\ UNCHANGED <<refs, used, tables, queues, local, issued, link, push, backup, admin>>

(* A blob whose deletion fails stays queued, so the drain may end any time. *)
PushListMirrors ==
    /\ pushPc = "drain"
    /\ pushPc' = "enqueue" /\ pushDests' = IF pushUp = {} THEN {} ELSE Mirrors
    /\ UNCHANGED <<files, tables, queues, local, store, issued, link, backup, admin,
                   pushVia, pushTodo, pushUp>>

PushEnqueue ==
    /\ pushPc = "enqueue"
    /\ \E d \in pushDests :
        /\ pendingBackup' = Enqueued(pushUp, d)
        /\ pushDests' = pushDests \ {d}
    /\ UNCHANGED <<files, tables, failures, local, store, issued, link, backup, admin,
                   pushPc, pushVia, pushTodo, pushUp>>

PushEnd ==
    /\ pushPc = "enqueue" /\ pushDests = {}
    /\ EndPush
    /\ UNCHANGED <<files, tables, queues, local, store, issued, link, backup, admin>>

-----------------------------------------------------------------------------
(* sync_backup: the destinations, the names and the transport are read once *)
(* at the start, each destination's queue when its turn comes.              *)
BackupBegin ==
    /\ ~SyncRunning
    /\ \A a \in Admins : admin[a].pc # "idle" => admin[a].kind \in Overlap
    /\ \E only \in {Dests} \cup {{d} : d \in Dests} : bkDests' = (Mirrors \ Foreign) \cap only
    /\ bkDests' # {}
    /\ bkMirrors' = {d \in bkDests' : mode[d] = "mirror"}
    /\ bkPc' = "names"
    /\ UNCHANGED <<files, tables, queues, local, store, issued, link, push, admin,
                   bkVia, bkAll, bkDest, bkTodo, bkTemp>>

(* Mutant of BackupNames: the names are those still queued.                *)
BackupNamesQueued ==
    /\ bkPc = "names"
    /\ bkPc' = "link" /\ bkAll' = UNION {pendingBackup[d] : d \in Dests}
    /\ UNCHANGED <<files, tables, queues, local, store, issued, link, push, admin,
                   bkVia, bkDests, bkMirrors, bkDest, bkTodo, bkTemp>>

BackupNames ==
    /\ bkPc = "names"
    /\ bkPc' = "link" /\ bkAll' = refs
    /\ UNCHANGED <<files, tables, queues, local, store, issued, link, push, admin,
                   bkVia, bkDests, bkMirrors, bkDest, bkTodo, bkTemp>>

BackupLink ==
    /\ bkPc = "link"
    /\ bkPc' = "next" /\ bkVia' = transport
    /\ UNCHANGED <<files, tables, queues, local, store, issued, link, push, admin,
                   bkDests, bkMirrors, bkAll, bkDest, bkTodo, bkTemp>>

BackupOpen ==
    /\ bkPc = "next"
    /\ \E d \in bkDests : bkDest' = d /\ bkDests' = bkDests \ {d} /\ bkTodo' = QueuedFor(d)
    /\ bkPc' = "blobs"
    /\ UNCHANGED <<files, tables, queues, local, store, issued, link, push, admin,
                   bkVia, bkMirrors, bkAll, bkTemp>>

(* The ? on build_destination_transport ends the whole command.            *)
BackupOpenFail ==
    /\ bkPc = "next" /\ bkDests # {}
    /\ EndBackup
    /\ UNCHANGED <<files, tables, queues, local, store, issued, link, push, admin>>

(* A queued blob the names do not list is dropped from both tables.        *)
BackupForget(b) ==
    /\ b \notin bkAll
    /\ pendingBackup' = Dequeued(b, bkDest)
    /\ failures' = FailureCleared(b, bkDest)
    /\ bkTodo' = bkTodo \ {b}
    /\ UNCHANGED <<store, bkTemp>>

(* The blob to copy: staging root, then what earlier mirrors fetched.      *)
HasLocal(b) == b \in root \cup bkTemp

BackupFetch(b) ==
    /\ b \in bkAll /\ ~HasLocal(b)
    /\ bkVia # NoDest /\ Reaches(bkVia) /\ Retrievable(b, bkVia)
    /\ bkTemp' = bkTemp \cup {b}
    /\ UNCHANGED <<queues, store, bkTodo>>

(* NotFound on the primary: the records are dropped.                        *)
BackupMissing(b) ==
    /\ b \in bkAll /\ ~HasLocal(b)
    /\ bkVia # NoDest /\ Reaches(bkVia) /\ ~Retrievable(b, bkVia)
    /\ pendingBackup' = Dequeued(b, bkDest)
    /\ failures' = FailureCleared(b, bkDest)
    /\ bkTodo' = bkTodo \ {b}
    /\ UNCHANGED <<store, bkTemp>>

(* Any other download error: the records stay for the next run.            *)
BackupSkip(b) ==
    /\ b \in bkAll /\ ~HasLocal(b)
    /\ bkTodo' = bkTodo \ {b}
    /\ UNCHANGED <<queues, store, bkTemp>>

BackupUpload(b) ==
    /\ b \in bkAll /\ HasLocal(b)
    /\ store' = Stored(b, bkDest)
    /\ pendingBackup' = Dequeued(b, bkDest)
    /\ failures' = FailureCleared(b, bkDest)
    /\ bkTodo' = bkTodo \ {b}
    /\ UNCHANGED bkTemp

(* A failed upload may have stored the object; the blob stays queued.      *)
BackupUploadFail(b) ==
    /\ b \in bkAll /\ HasLocal(b)
    /\ store' \in {store, Stored(b, bkDest)}
    /\ failures' = Failed(b, bkDest)
    /\ bkTodo' = bkTodo \ {b}
    /\ UNCHANGED <<pendingBackup, bkTemp>>

(* One blob of sync_to_destination.                                         *)
BackupBlob ==
    /\ bkPc = "blobs"
    /\ \E b \in bkTodo :
        \/ BackupForget(b) \/ BackupFetch(b) \/ BackupMissing(b) \/ BackupSkip(b)
        \/ BackupUpload(b) \/ BackupUploadFail(b)
    /\ UNCHANGED <<files, tables, local, issued, link, push, admin,
                   bkPc, bkVia, bkDests, bkMirrors, bkAll, bkDest>>

(* After manifest and header (best effort), a mirror is listed for objects *)
(* the names do not know; a listing that fails three times prunes nothing. *)
BackupList ==
    /\ bkPc = "blobs" /\ bkTodo = {}
    /\ bkPc' = "prune"
    /\ bkTodo' \in {IF bkDest \in bkMirrors THEN Listed(bkDest) \ bkAll ELSE {}, {}}
    /\ UNCHANGED <<files, tables, queues, local, store, issued, link, push, admin,
                   bkVia, bkDests, bkMirrors, bkAll, bkDest, bkTemp>>

(* A deletion that fails twice is left to the next run.                     *)
BackupPrune ==
    /\ bkPc = "prune"
    /\ \E b \in bkTodo :
        /\ store' \in {store, Removed(b, bkDest)}
        /\ bkTodo' = bkTodo \ {b}
    /\ UNCHANGED <<files, tables, queues, local, issued, link, push, admin,
                   bkPc, bkVia, bkDests, bkMirrors, bkAll, bkDest, bkTemp>>

BackupNext ==
    /\ bkPc = "prune" /\ bkTodo = {}
    /\ \/ bkDests = {} /\ EndBackup
       \/ /\ bkDests # {} /\ bkPc' = "next"
          /\ UNCHANGED <<bkVia, bkDests, bkMirrors, bkAll, bkDest, bkTodo, bkTemp>>
    /\ UNCHANGED <<files, tables, queues, local, store, issued, link, push, admin>>

-----------------------------------------------------------------------------
(* Destination commands.  Kinds outside Overlap wait for pushes and backups *)
(* (the user leaves them alone); the code itself does not.                  *)
MayStart(a, kind) ==
    /\ admin[a].pc = "idle"
    /\ SyncRunning => kind \in Overlap

Step(a, pc) == admin' = [admin EXCEPT ![a] = [@ EXCEPT !.pc = pc]]
Done(a)     == admin' = [admin EXCEPT ![a] = IdleAdmin]

(* add_destination: the row is refused when it would be a second primary.  *)
AddRow(a) ==
    /\ MayStart(a, "add")
    /\ \E d \in Dests \ issued, m \in Modes, isPrimary \in BOOLEAN :
        /\ InsertSession(d, m, isPrimary)
        /\ issued' = issued \cup {d}
        /\ IF m = "none" THEN UNCHANGED admin
           ELSE admin' = [admin EXCEPT ![a] = [IdleAdmin EXCEPT !.pc = "names", !.kind = "add",
                                                                !.dest = d]]
    /\ UNCHANGED <<files, queues, local, store, link, push, backup>>

AddNames(a) ==
    /\ admin[a].kind = "add" /\ admin[a].pc = "names"
    /\ admin' = [admin EXCEPT ![a] = [@ EXCEPT !.pc = "seed", !.names = refs]]
    /\ UNCHANGED <<files, tables, queues, local, store, issued, link, push, backup>>

(* Mutant of AddSeed: a new mirror starts with an empty queue.             *)
AddSeedNot(a) ==
    /\ admin[a].kind = "add" /\ admin[a].pc = "seed"
    /\ Done(a)
    /\ UNCHANGED <<files, tables, queues, local, store, issued, link, push, backup>>

(* The new mirror is to receive every blob of the vault.                   *)
AddSeed(a) ==
    /\ admin[a].kind = "add" /\ admin[a].pc = "seed"
    /\ pendingBackup' = Enqueued(admin[a].names, admin[a].dest)
    /\ Done(a)
    /\ UNCHANGED <<files, tables, failures, local, store, issued, link, push, backup>>

(* delete_destination: check, row and queue are three transactions.        *)
DeleteCheck(a) ==
    /\ MayStart(a, "delete")
    /\ \E d \in Mirrors :
        admin' = [admin EXCEPT ![a] = [IdleAdmin EXCEPT !.pc = "row", !.kind = "delete",
                                                        !.dest = d]]
    /\ UNCHANGED <<files, tables, queues, local, store, issued, link, push, backup>>

DeleteRow(a) ==
    /\ admin[a].kind = "delete" /\ admin[a].pc = "row"
    /\ registered' = registered \ {admin[a].dest} /\ primary' = primary \ {admin[a].dest}
    /\ Step(a, "queue")
    /\ UNCHANGED <<files, mode, queues, local, store, issued, link, push, backup>>

DeleteQueue(a) ==
    /\ admin[a].kind = "delete" /\ admin[a].pc = "queue"
    /\ pendingBackup' = [pendingBackup EXCEPT ![admin[a].dest] = {}]
    /\ Done(a)
    /\ UNCHANGED <<files, tables, failures, local, store, issued, link, push, backup>>

(* set_primary_destination: no blob is copied.                              *)
PromoteRow(a) ==
    /\ MayStart(a, "promote")
    /\ \E d \in registered :
        /\ PromoteClean => d \in primary \/ (mode[d] # "none" /\ BackupHealth(d).pending_blobs = 0)
        /\ SwapPrimary(d)
        /\ admin' = [admin EXCEPT ![a] = [IdleAdmin EXCEPT !.pc = "read", !.kind = "promote"]]
    /\ UNCHANGED <<files, queues, local, store, issued, link, push, backup>>

PromoteRead(a) ==
    /\ admin[a].kind = "promote" /\ admin[a].pc = "read"
    /\ \/ \E d \in primary : admin' = [admin EXCEPT ![a] = [@ EXCEPT !.pc = "conf", !.dest = d]]
       \/ primary = {} /\ Done(a)
    /\ UNCHANGED <<files, tables, queues, local, store, issued, link, push, backup>>

(* The session's rclone.conf is overwritten with the new primary's stanza. *)
PromoteConf(a) ==
    /\ admin[a].kind = "promote" /\ admin[a].pc = "conf"
    /\ \/ conf' = {admin[a].dest} /\ Step(a, "swap")
       \/ ConfFails /\ Done(a) /\ UNCHANGED conf
    /\ UNCHANGED <<files, tables, queues, local, store, issued, transport, push, backup>>

PromoteSwap(a) ==
    /\ admin[a].kind = "promote" /\ admin[a].pc = "swap"
    /\ transport' = admin[a].dest
    /\ Done(a)
    /\ UNCHANGED <<files, tables, queues, local, store, issued, conf, push, backup>>

(* migrate_vault: what is not in the staging root is fetched into it ...   *)
MigrateList(a) ==
    /\ MayStart(a, "migrate")
    /\ \E d \in registered :
        admin' = [admin EXCEPT ![a] = [IdleAdmin EXCEPT !.pc = "fetch", !.kind = "migrate",
                      !.dest = d, !.via = transport, !.names = refs, !.sent = refs \cap root]]
    /\ UNCHANGED <<files, tables, queues, local, store, issued, link, push, backup>>

(* ... from the primary (names in sent need no download) ...               *)
MigrateFetch(a) ==
    /\ admin[a].kind = "migrate" /\ admin[a].pc = "fetch"
    /\ admin[a].via # NoDest /\ Reaches(admin[a].via)
    /\ \E b \in admin[a].names \ (admin[a].sent \cup admin[a].got) :
        /\ Retrievable(b, admin[a].via)
        /\ root' = root \cup {b}
        /\ admin' = [admin EXCEPT ![a] = [@ EXCEPT !.got = admin[a].got \cup {b}]]
    /\ UNCHANGED <<files, tables, queues, pending, store, issued, link, push, backup>>

(* ... a blob that cannot be fetched undoes the downloads ...              *)
MigrateFetchFail(a) ==
    /\ admin[a].kind = "migrate" /\ admin[a].pc = "fetch"
    /\ admin[a].names # admin[a].sent \cup admin[a].got
    /\ root' = root \ admin[a].got
    /\ Done(a)
    /\ UNCHANGED <<files, tables, queues, pending, store, issued, link, push, backup>>

MigrateFetched(a) ==
    /\ admin[a].kind = "migrate" /\ admin[a].pc = "fetch"
    /\ admin[a].names = admin[a].sent \cup admin[a].got
    /\ admin' = [admin EXCEPT ![a] = [@ EXCEPT !.pc = "send", !.sent = {}]]
    /\ UNCHANGED <<files, tables, queues, local, store, issued, link, push, backup>>

(* ... everything is uploaded to the new destination ...                   *)
MigrateSend(a) ==
    /\ admin[a].kind = "migrate" /\ admin[a].pc = "send"
    /\ \E b \in (admin[a].names \ admin[a].sent) \cap root :
        /\ store' = Stored(b, admin[a].dest)
        /\ admin' = [admin EXCEPT ![a] = [@ EXCEPT !.sent = admin[a].sent \cup {b}]]
    /\ UNCHANGED <<files, tables, queues, local, issued, link, push, backup>>

(* ... an upload that fails, the manifest's and the header's included,     *)
(* leaves the downloads behind ...                                          *)
MigrateSendFail(a) ==
    /\ admin[a].kind = "migrate" /\ admin[a].pc = "send"
    /\ Done(a)
    /\ UNCHANGED <<files, tables, queues, local, store, issued, link, push, backup>>

(* Mutant of MigrateRow: the commit does not wait for the last upload.     *)
MigrateRowEarly(a) ==
    /\ admin[a].kind = "migrate" /\ admin[a].pc = "send"
    /\ admin[a].dest \in registered
    /\ SwapPrimary(admin[a].dest) /\ Step(a, "conf")
    /\ UNCHANGED <<files, queues, local, store, issued, link, push, backup>>

(* ... the row is promoted: the commit point ...                           *)
MigrateRow(a) ==
    /\ admin[a].kind = "migrate" /\ admin[a].pc = "send"
    /\ admin[a].sent = admin[a].names
    /\ \/ admin[a].dest \in registered /\ SwapPrimary(admin[a].dest) /\ Step(a, "conf")
       \/ admin[a].dest \notin registered /\ Done(a) /\ UNCHANGED tables
    /\ UNCHANGED <<files, queues, local, store, issued, link, push, backup>>

(* ... rclone.conf is rebuilt from all rows; a failure is only logged ...  *)
MigrateConf(a) ==
    /\ admin[a].kind = "migrate" /\ admin[a].pc = "conf"
    /\ \/ conf' = registered /\ Step(a, "swap")
       \/ ConfFails /\ Step(a, "clean") /\ UNCHANGED conf
    /\ UNCHANGED <<files, tables, queues, local, store, issued, transport, push, backup>>

MigrateSwap(a) ==
    /\ admin[a].kind = "migrate" /\ admin[a].pc = "swap"
    /\ transport' \in (IF primary = {} THEN {transport} ELSE primary)
    /\ Step(a, "clean")
    /\ UNCHANGED <<files, tables, queues, local, store, issued, conf, push, backup>>

(* ... and the downloads are removed.                                       *)
MigrateClean(a) ==
    /\ admin[a].kind = "migrate" /\ admin[a].pc = "clean"
    /\ root' = root \ admin[a].got
    /\ Done(a)
    /\ UNCHANGED <<files, tables, queues, pending, store, issued, link, push, backup>>

-----------------------------------------------------------------------------
(* The process ends and the vault is unlocked again: the sweep moves staged *)
(* blobs of the root to pending and drops unreferenced ones, the transport  *)
(* is rebuilt from the primary's row and rclone.conf from all rows.         *)
Restart ==
    /\ MayFail
    /\ CutShort \/ \A a \in Admins : admin[a].kind # "add"
    /\ EndPush /\ EndBackup /\ admin' = [a \in Admins |-> IdleAdmin]
    /\ root' = {} /\ pending' = (pending \cup root) \cap refs
    /\ conf' = registered
    /\ transport' \in (IF primary = {} THEN {NoDest} ELSE primary)
    /\ UNCHANGED <<files, tables, queues, store, issued>>

PushStep ==
    \/ PushBegin \/ PushList \/ PushUpload \/ PushPublish \/ PushFail
    \/ PushDrain \/ PushListMirrors \/ PushEnqueue \/ PushEnd

BackupStep ==
    \/ BackupBegin \/ BackupNames \/ BackupLink \/ BackupOpen \/ BackupOpenFail
    \/ BackupBlob \/ BackupList \/ BackupPrune \/ BackupNext

AddStep(a)     == AddRow(a) \/ AddNames(a) \/ AddSeed(a)
DeleteStep(a)  == DeleteCheck(a) \/ DeleteRow(a) \/ DeleteQueue(a)
PromoteStep(a) == PromoteRow(a) \/ PromoteRead(a) \/ PromoteConf(a) \/ PromoteSwap(a)
MigrateStep(a) ==
    \/ MigrateList(a) \/ MigrateFetch(a) \/ MigrateFetchFail(a) \/ MigrateFetched(a)
    \/ MigrateSend(a) \/ MigrateSendFail(a) \/ MigrateRow(a) \/ MigrateConf(a)
    \/ MigrateSwap(a) \/ MigrateClean(a)

Next ==
    \/ AddFile \/ DeleteFile \/ PushStep \/ BackupStep
    \/ \E a \in Admins : AddStep(a) \/ DeleteStep(a) \/ PromoteStep(a) \/ MigrateStep(a)
    \/ Restart

Spec == Init /\ [][Next]_vars

-----------------------------------------------------------------------------
(* A blob the manifest lists that pushes still have to bring somewhere.    *)
Unpushed == pending \cup root

Adding(d) == \E a \in Admins : admin[a].kind = "add" /\ admin[a].dest = d

(* "sync_backup knows exactly what still needs to reach each mirror": a    *)
(* destination with a backup mode holds every blob of the manifest except  *)
(* what its queue names, what was not pushed yet and what a running push   *)
(* is about to enqueue.  Hence a mirror with a clean health report is       *)
(* complete (push_active_vault, add_destination, sync_to_destination).     *)
MirrorsQueued ==
    \A d \in Mirrors :
        mode[d] # "none" /\ ~Adding(d) =>
            refs \subseteq store[d] \cup pendingBackup[d] \cup Unpushed \cup pushUp

(* Whatever was promoted or migrated, the destination that pushes go to    *)
(* holds every blob that is not waiting in staging: the vault can be       *)
(* restored from it (set_primary_destination, migrate_vault).              *)
PrimaryComplete ==
    transport # NoDest => refs \subseteq store[transport] \cup Unpushed

(* Pruning a mirror and draining deletions work from lists read earlier:   *)
(* neither ever removes an object the manifest lists by then.              *)
PruneSafe == [][\A d \in Dests : (store[d] \ store'[d]) \cap refs = {}]_vars
=============================================================================
