------------------------------- MODULE Rekey -------------------------------
(***************************************************************************)
(* The key ceremonies of auth/ceremonies: change_password and              *)
(* rotate_key_file (one shape, kind "change"), setup_recovery and           *)
(* recover_with_phrase, with the sync and the file uploads that use the    *)
(* keys meanwhile.  A ceremony moves the vault from one master key to the  *)
(* next in five places that no transaction spans: the wrapped keys inside  *)
(* the database, the database file, the session, the vault header in the   *)
(* cloud and the vault header on disk.                                      *)
(*                                                                          *)
(* A master key is known by its generation.  A header yields the key of    *)
(* its salt (the user knows the matching password and key file), so header *)
(* h opens what is encrypted under h.key.  Slot s of the recovery phrases  *)
(* was made with salt s.salt and holds s.key wrapped under the key that    *)
(* phrase and salt number s.under give.                                     *)
(***************************************************************************)
EXTENDS Integers, Sequences

CONSTANTS
    Tasks,            \* ceremonies and syncs that may run at a time
    Files,            \* files that may be added
    Packed,           \* those packed in an epoch blob
    Kinds,            \* which of change, setup, recover, sync are used
    Calm,             \* do things go as calmly as CalmOverlap and CalmFaults say?
                      \* The answers to try
    CalmOverlap,      \* kinds of task that may overlap each other in calm behaviours
    CalmFaults,       \* what may go wrong in them
    Overlap,          \* kinds of task that may overlap each other in the others
    Faults,           \* which of upload, push, rekey, open, write, keyfile, crash may happen
    FaultFiles,       \* bound: the files added in them
    FaultGen,         \* bound on master keys in them
    MaxGen,           \* bound on master keys
    MaxPhrases        \* bound on recovery phrases

ASSUME BoundsAssumption ==
    /\ Packed \subseteq Files
    /\ Overlap \cup CalmOverlap \subseteq {"change", "setup", "recover", "sync", "file"}
    /\ Calm \subseteq BOOLEAN /\ Calm # {}
    /\ FaultFiles \subseteq Files /\ FaultGen \in 1 .. MaxGen
    /\ MaxGen \in Nat \ {0} /\ MaxPhrases \in Nat

VARIABLES
    dbKey,      \* key the database file is encrypted under; 0: no file
    ident,      \* key the identity row is wrapped under
    wrapped,    \* key each file's key is wrapped under; 0: no such file
    repair,     \* manifest_meta flag: cloud needs a push after a recovery
    localHdr,   \* vault-header.json on disk
    pending,    \* pending-vault-header.json on disk
    configured, \* is there a cloud destination? (never changes here)
    cloudHdr,   \* vault-header.json in the cloud
    cloudMan,   \* key of the manifest backup in the cloud
    session,    \* key of the active session; 0: locked
    gens,       \* master keys derived so far
    phrases,    \* recovery phrases generated so far
    shown,      \* phrases the user was given and has not given up
    task,
    calm,       \* is this behaviour a calm one? (never changes)
    upKek       \* key each running file upload took; 0: none running

vault == <<dbKey, ident, wrapped, repair>>
disk  == <<localHdr, pending>>
cloud == <<configured, cloudHdr, cloudMan>>
user  == <<gens, phrases, shown>>
vars  == <<vault, disk, cloud, session, user, task, upKek, calm>>

MayOverlap == IF calm THEN CalmOverlap ELSE Overlap
Fault(k)   == k \in (IF calm THEN CalmFaults ELSE Faults)
GenLimit   == IF calm THEN MaxGen ELSE FaultGen

Gens     == 0 .. MaxGen
Phrases  == 1 .. MaxPhrases
Slot     == [salt : Phrases, under : Phrases, key : Gens]
Header   == [key : Gens, slots : Seq(Slot)]
NoHeader == [key |-> 0, slots |-> <<>>]
Idle     == [kind |-> "none", pc |-> "idle", hdr |-> NoHeader, old |-> 0, new |-> 0,
             phrase |-> 0, ok |-> TRUE]

Ceremony ==
    [kind : {"none", "change", "setup", "recover", "sync"},
     pc : {"idle", "rewrap", "rekey", "swap", "stage", "upload", "manifest",
           "flag", "install", "write", "push", "pushHeader", "clear"},
     hdr : Header, old : Gens, new : Gens, phrase : 0 .. MaxPhrases, ok : BOOLEAN]

TypeOK ==
    /\ dbKey \in Gens /\ ident \in Gens /\ wrapped \in [Files -> Gens]
    /\ calm \in Calm /\ repair \in BOOLEAN /\ configured \in BOOLEAN
    /\ localHdr \in Header /\ pending \in Header /\ cloudHdr \in Header
    /\ cloudMan \in Gens /\ session \in Gens /\ gens \in Gens
    /\ phrases \in 0 .. MaxPhrases /\ shown \subseteq Phrases
    /\ upKek \in [Files -> Gens]
    /\ task \in [Tasks -> Ceremony]

(* A vault just created: one key everywhere, no recovery phrase yet.        *)
Init ==
    /\ dbKey = 1 /\ ident = 1 /\ wrapped = [f \in Files |-> 0] /\ repair = FALSE
    /\ localHdr = [key |-> 1, slots |-> <<>>] /\ pending = NoHeader
    /\ configured \in BOOLEAN
    /\ cloudHdr = (IF configured THEN localHdr ELSE NoHeader)
    /\ cloudMan = (IF configured THEN 1 ELSE 0)
    /\ session = 1
    /\ gens = 1 /\ phrases = 0 /\ shown = {}
    /\ task = [t \in Tasks |-> Idle]
    /\ upKek = [f \in Files |-> 0]
    /\ calm \in Calm

-----------------------------------------------------------------------------
(* The master key that password, key file and the header's salt derive.     *)
KeyOf(h) == h.key

(* The database file opens under the keys of master key k.                  *)
OpensDb(k) == dbKey = k

(* verify_credentials_via_identity_row.                                     *)
VerifyCredentials(k) == OpensDb(k) /\ ident = k

(* The session holds the three vault keys expanded from master key k.       *)
InstallKeys(k) == session' = k

(* unwrap_master_key_from_recovery succeeds: the key of phrase q and the    *)
(* slot's salt is the one the slot was wrapped with.                        *)
Opens(q, s) == s.salt = q /\ s.under = q

(* Mutant of FirstRewrapped: the slot keeps the old master key.             *)
FirstRewrappedNot(slots, q, n) == slots

(* The first bip39 slot is overwritten with the new master key wrapped      *)
(* under the recovery key in hand; its salt stays.                          *)
FirstRewrapped(slots, q, n) ==
    IF slots = <<>> THEN slots
    ELSE [slots EXCEPT ![1] = [@ EXCEPT !.under = q, !.key = n]]

(* resolve_recovery_slot_action: a phrase has to open the first slot.       *)
PhraseAccepted(slots, q) == slots # <<>> /\ q # 0 => Opens(q, slots[1])

(* Without a phrase (0) the slots are removed.                              *)
SlotsAfter(slots, q, n) == IF q = 0 THEN <<>> ELSE FirstRewrapped(slots, q, n)

(* What the settings forms submit: the recovery phrase may be left empty.   *)
PhraseField == {0} \cup shown

(* The dialog of a new phrase.                                              *)
ShownWith(q) == shown \cup {q}

Running(kinds) == \E t \in Tasks : task[t].kind \in kinds

(* A task of kind k may begin: all that is running may overlap it.          *)
MayBegin(k) ==
    /\ \A t \in Tasks : task[t].kind # "none" => {task[t].kind, k} \subseteq MayOverlap
    /\ \A f \in Files : upKek[f] # 0 => {"file", k} \subseteq MayOverlap

Goto(t, pc) == task' = [task EXCEPT ![t] = [@ EXCEPT !.pc = pc]]
Retire(t)   == task' = [task EXCEPT ![t] = Idle]
At(t, pc)   == task[t].pc = pc

(* The upload of a ceremony may fail: a fault, no destination, or the       *)
(* transport of a recovery, which runs before the session has one.          *)
MayFail(t) == Fault("upload") \/ ~configured \/ task[t].kind = "recover"

-----------------------------------------------------------------------------
(* change_password, rotate_key_file: the header on disk is read, the phrase *)
(* (0: none supplied) is checked against the first slot, and the new key is *)
(* derived.  Without a phrase every slot will be cleared.                   *)
ChangeBegin(t, q) ==
    /\ "change" \in Kinds /\ MayBegin("change")
    /\ At(t, "idle") /\ session # 0 /\ gens < GenLimit
    /\ PhraseAccepted(localHdr.slots, q)
    /\ gens' = gens + 1
    /\ task' = [task EXCEPT ![t] =
         [Idle EXCEPT !.kind = "change", !.pc = "rewrap", !.old = KeyOf(localHdr), !.new = gens + 1,
            !.phrase = q,
            !.hdr = [key   |-> gens + 1,
                     slots |-> SlotsAfter(localHdr.slots, q, gens + 1)]]]
    /\ UNCHANGED <<vault, disk, cloud, session, phrases, shown, upKek, calm>>

(* setup_recovery: credentials checked against the identity row, a slot for *)
(* a new phrase pushed.                                                     *)
SetupBegin(t) ==
    /\ "setup" \in Kinds /\ MayBegin("setup")
    /\ At(t, "idle") /\ session # 0 /\ phrases < MaxPhrases
    /\ VerifyCredentials(KeyOf(localHdr))
    /\ phrases' = phrases + 1
    /\ task' = [task EXCEPT ![t] =
         [Idle EXCEPT !.kind = "setup", !.pc = "stage", !.phrase = phrases + 1,
            !.hdr = [key   |-> KeyOf(localHdr),
                     slots |-> Append(localHdr.slots,
                                      [salt |-> phrases + 1, under |-> phrases + 1,
                                       key |-> KeyOf(localHdr)])]]]
    /\ UNCHANGED <<vault, disk, cloud, session, gens, shown, upKek, calm>>

(* recover_with_phrase: every slot is tried; the first one is rewritten.    *)
RecoverBegin(t, q) ==
    /\ "recover" \in Kinds /\ MayBegin("recover")
    /\ At(t, "idle") /\ session = 0 /\ ~Running({"recover"})
    /\ dbKey # 0 /\ gens < GenLimit
    /\ gens' = gens + 1
    /\ \E i \in 1 .. Len(localHdr.slots) :
        /\ Opens(q, localHdr.slots[i])
        /\ task' = [task EXCEPT ![t] =
             [Idle EXCEPT !.kind = "recover", !.pc = "rewrap", !.old = localHdr.slots[i].key,
                !.new = gens + 1, !.phrase = q,
                !.hdr = [key |-> gens + 1,
                         slots |-> FirstRewrapped(localHdr.slots, q, gens + 1)]]]
    /\ UNCHANGED <<vault, disk, cloud, session, phrases, shown, upKek, calm>>

(* The new key file of a tier 2 recovery cannot be written (the target     *)
(* exists, say): the database is removed, downloaded or not.                *)
RecoverKeyFileFail(t) ==
    /\ At(t, "rewrap") /\ task[t].kind = "recover" /\ Fault("keyfile")
    /\ dbKey' = 0 /\ ident' = 0
    /\ wrapped' = [f \in Files |-> 0] /\ repair' = FALSE
    /\ Retire(t)
    /\ UNCHANGED <<disk, cloud, session, user, upKek, calm>>

(* Mutant of Rewrap: the keys of packed files are forgotten.                *)
RewrapNodesOnly(t) ==
    /\ At(t, "rewrap")
    /\ IF VerifyCredentials(task[t].old)
       THEN /\ ident' = task[t].new
            /\ wrapped' = [f \in Files |-> IF wrapped[f] # 0 /\ f \notin Packed THEN task[t].new
                                           ELSE wrapped[f]]
            /\ Goto(t, "rekey")
       ELSE Retire(t) /\ UNCHANGED <<ident, wrapped>>
    /\ UNCHANGED <<dbKey, repair, disk, cloud, session, user, upKek, calm>>

(* rekey_vault_db up to COMMIT: one transaction; a file key or identity key *)
(* the current key does not unwrap rolls it back, a packed file's key is    *)
(* left as it is.                                                           *)
Rewrap(t) ==
    /\ At(t, "rewrap")
    /\ IF /\ VerifyCredentials(task[t].old)
          /\ \A f \in Files \ Packed : wrapped[f] \in {0, task[t].old}
       THEN /\ ident' = task[t].new
            /\ wrapped' = [f \in Files |-> IF wrapped[f] = task[t].old THEN task[t].new
                                           ELSE wrapped[f]]
            /\ Goto(t, "rekey")
       ELSE Retire(t) /\ UNCHANGED <<ident, wrapped>>
    /\ UNCHANGED <<dbKey, repair, disk, cloud, session, user, upKek, calm>>

(* Mutant of RekeyDb: the error of sqlite3_rekey is ignored.                *)
RekeyDbIgnored(t) ==
    /\ At(t, "rekey")
    /\ Goto(t, IF task[t].kind = "change" THEN "swap" ELSE "stage")
    /\ UNCHANGED <<vault, disk, cloud, session, user, upKek, calm>>

(* rekey_sqlcipher, after the COMMIT.                                       *)
RekeyDb(t) ==
    /\ At(t, "rekey")
    /\ dbKey' = task[t].new
    /\ Goto(t, IF task[t].kind = "change" THEN "swap" ELSE "stage")
    /\ UNCHANGED <<ident, wrapped, repair, disk, cloud, session, user, upKek, calm>>

(* The transaction fails and is rolled back, or the re-keying after it      *)
(* fails.                                                                   *)
RekeyFail(t) ==
    /\ At(t, "rewrap") \/ At(t, "rekey")
    /\ Fault("rekey")
    /\ Retire(t)
    /\ UNCHANGED <<vault, disk, cloud, session, user, upKek, calm>>

(* Mutant of SwapSession: without the is_configured gate.                   *)
SwapSessionUploads(t) ==
    /\ At(t, "swap") /\ session # 0
    /\ InstallKeys(task[t].new)
    /\ Goto(t, "stage")
    /\ UNCHANGED <<vault, disk, cloud, user, upKek, calm>>

(* swap_active_session; a local-only vault skips the uploads.               *)
SwapSession(t) ==
    /\ At(t, "swap") /\ session # 0
    /\ InstallKeys(task[t].new)
    /\ Goto(t, IF configured THEN "stage" ELSE "write")
    /\ UNCHANGED <<vault, disk, cloud, user, upKek, calm>>

(* The store of the new session does not open: the old keys stay.           *)
SwapFail(t) ==
    /\ At(t, "swap") /\ Fault("open")
    /\ Retire(t)
    /\ UNCHANGED <<vault, disk, cloud, session, user, upKek, calm>>

(* upload_vault_header writes the header to its staging file,               *)
(* pending-vault-header.json, and removes it after a successful upload.     *)
StageHeader(t) ==
    /\ At(t, "stage")
    /\ pending' = task[t].hdr
    /\ Goto(t, "upload")
    /\ UNCHANGED <<vault, localHdr, cloud, session, user, upKek, calm>>

(* The header cannot be staged: like a failed upload, without the artifact. *)
StageHeaderFail(t) ==
    /\ At(t, "stage") /\ Fault("write")
    /\ pending' = NoHeader
    /\ IF task[t].kind = "recover"
       THEN task' = [task EXCEPT ![t] = [@ EXCEPT !.pc = "manifest", !.ok = FALSE]]
       ELSE Retire(t)
    /\ UNCHANGED <<vault, localHdr, cloud, session, user, upKek, calm>>

UploadHeader(t) ==
    /\ At(t, "upload") /\ configured
    /\ cloudHdr' = task[t].hdr
    /\ pending' = NoHeader
    /\ Goto(t, IF task[t].kind = "setup" THEN "write" ELSE "manifest")
    /\ UNCHANGED <<vault, localHdr, configured, cloudMan, session, user, upKek, calm>>

(* The upload fails, stored or not: a recovery goes on, a change or a setup *)
(* returns the error and leaves the header on disk as it was.               *)
UploadHeaderFail(t) ==
    /\ At(t, "upload") /\ MayFail(t)
    /\ cloudHdr' \in {cloudHdr} \cup (IF configured THEN {task[t].hdr} ELSE {})
    /\ IF task[t].kind = "recover"
       THEN task' = [task EXCEPT ![t] = [@ EXCEPT !.pc = "manifest", !.ok = FALSE]]
       ELSE Retire(t)
    /\ UNCHANGED <<vault, disk, configured, cloudMan, session, user, upKek, calm>>

(* upload_manifest_backup, best effort in a change and in a recovery.       *)
UploadManifest(t) ==
    /\ At(t, "manifest") /\ configured
    /\ cloudMan' = task[t].new
    /\ Goto(t, IF task[t].kind = "change" THEN "write" ELSE "flag")
    /\ UNCHANGED <<vault, disk, configured, cloudHdr, session, user, upKek, calm>>

UploadManifestFail(t) ==
    /\ At(t, "manifest") /\ MayFail(t)
    /\ cloudMan' \in {cloudMan} \cup (IF configured THEN {task[t].new} ELSE {})
    /\ task' = [task EXCEPT ![t] =
         [@ EXCEPT !.pc = IF task[t].kind = "change" THEN "write" ELSE "flag", !.ok = FALSE]]
    /\ UNCHANGED <<vault, disk, configured, cloudHdr, session, user, upKek, calm>>

(* Mutant of SetFlag: the flag only remembers the manifest of this call.    *)
SetFlagNever(t) ==
    /\ At(t, "flag")
    /\ Goto(t, "install")
    /\ UNCHANGED <<vault, disk, cloud, session, user, upKek, calm>>

(* pending_post_recovery_push: does the cloud still need the new keys?      *)
SetFlag(t) ==
    /\ At(t, "flag")
    /\ repair' = ~task[t].ok
    /\ Goto(t, "install")
    /\ UNCHANGED <<dbKey, ident, wrapped, disk, cloud, session, user, upKek, calm>>

(* The flag cannot be recorded: only logged.                                *)
SetFlagFail(t) ==
    /\ At(t, "flag") /\ Fault("open")
    /\ Goto(t, "install")
    /\ UNCHANGED <<vault, disk, cloud, session, user, upKek, calm>>

(* finalize_session_install.                                                *)
InstallSession(t) ==
    /\ At(t, "install") /\ session = 0
    /\ InstallKeys(task[t].new)
    /\ Goto(t, "write")
    /\ UNCHANGED <<vault, disk, cloud, user, upKek, calm>>

(* The store of the recovered session does not open: the recovery returns   *)
(* its error and the header on disk stays as it was.                        *)
InstallFail(t) ==
    /\ At(t, "install") /\ Fault("open")
    /\ Retire(t)
    /\ UNCHANGED <<vault, disk, cloud, session, user, upKek, calm>>

(* The command writes the header to disk, a failure is only logged.  A      *)
(* change removes any pending header first, a setup returns its phrase, and *)
(* a recovery pushes the vault when the cloud needs repair.                 *)
Finish(t) ==
    /\ pending' = IF task[t].kind = "change" THEN NoHeader ELSE pending
    /\ shown' = CASE task[t].kind = "setup" -> ShownWith(task[t].phrase)
                  [] task[t].kind = "change" /\ task[t].hdr.slots = <<>> -> {}
                  [] OTHER -> shown
    /\ IF task[t].kind = "recover" /\ repair /\ configured
       THEN task' = [task EXCEPT ![t] = [@ EXCEPT !.kind = "sync", !.pc = "push"]]
       ELSE Retire(t)

WriteLocal(t) ==
    /\ At(t, "write")
    /\ localHdr' = task[t].hdr
    /\ Finish(t)
    /\ UNCHANGED <<vault, cloud, session, gens, phrases, upKek, calm>>

WriteLocalFail(t) ==
    /\ At(t, "write") /\ Fault("write")
    /\ Finish(t)
    /\ UNCHANGED <<vault, localHdr, cloud, session, gens, phrases, upKek, calm>>

-----------------------------------------------------------------------------
(* sync_to_cloud and push_active_vault, as far as keys go: the header and   *)
(* the session's keys are read first and used for the whole push.           *)
SyncBegin(t) ==
    /\ "sync" \in Kinds /\ MayBegin("sync") /\ configured
    /\ At(t, "idle") /\ session # 0 /\ ~Running({"sync"})
    /\ task' = [task EXCEPT ![t] =
         [Idle EXCEPT !.kind = "sync", !.pc = "push", !.hdr = localHdr, !.new = session]]
    /\ UNCHANGED <<vault, disk, cloud, session, user, upKek, calm>>

(* The manifest export opens the database with the key taken before.        *)
SyncManifest(t) ==
    /\ At(t, "push")
    /\ IF OpensDb(task[t].new)
       THEN cloudMan' = task[t].new /\ Goto(t, "pushHeader")
       ELSE Retire(t) /\ UNCHANGED cloudMan
    /\ UNCHANGED <<vault, disk, configured, cloudHdr, session, user, upKek, calm>>

SyncHeader(t) ==
    /\ At(t, "pushHeader")
    /\ cloudHdr' = task[t].hdr
    /\ Goto(t, "clear")
    /\ UNCHANGED <<vault, disk, configured, cloudMan, session, user, upKek, calm>>

(* The flag is cleared through the connection opened with the old key.      *)
SyncClear(t) ==
    /\ At(t, "clear")
    /\ repair' = (repair /\ ~OpensDb(task[t].new))
    /\ Retire(t)
    /\ UNCHANGED <<dbKey, ident, wrapped, disk, cloud, session, user, upKek, calm>>

(* The push fails; what it was uploading may be stored all the same.        *)
SyncFail(t) ==
    /\ task[t].pc \in {"push", "pushHeader", "clear"}
    /\ Fault("push")
    /\ \/ UNCHANGED <<cloudHdr, cloudMan>>
       \/ At(t, "push") /\ OpensDb(task[t].new) /\ cloudMan' = task[t].new /\ UNCHANGED cloudHdr
       \/ At(t, "pushHeader") /\ cloudHdr' = task[t].hdr /\ UNCHANGED cloudMan
    /\ Retire(t)
    /\ UNCHANGED <<configured, vault, disk, session, user, upKek, calm>>

-----------------------------------------------------------------------------
(* upload_file (and the epoch flush for packed files): store and key come   *)
(* from the session, the row is inserted at the end through that store.     *)
FileRead(f) ==
    /\ MayBegin("file")
    /\ session # 0 /\ wrapped[f] = 0 /\ upKek[f] = 0
    /\ calm \/ f \in FaultFiles
    /\ upKek' = [upKek EXCEPT ![f] = session]
    /\ UNCHANGED <<vault, disk, cloud, session, user, task, calm>>

FileInsert(f) ==
    /\ upKek[f] # 0
    /\ wrapped' = [wrapped EXCEPT ![f] = IF OpensDb(upKek[f]) THEN upKek[f] ELSE 0]
    /\ upKek' = [upKek EXCEPT ![f] = 0]
    /\ UNCHANGED <<dbKey, ident, repair, disk, cloud, session, user, task, calm>>

(* unlock_vault: the key of the header on disk must open the database.      *)
Unlock ==
    /\ session = 0 /\ ~Running({"recover"})
    /\ OpensDb(KeyOf(localHdr))
    /\ InstallKeys(KeyOf(localHdr))
    /\ UNCHANGED <<vault, disk, cloud, user, task, upKek, calm>>

(* lock waits for the OperationGuard of a change or a setup.                *)
Lock ==
    /\ session # 0 /\ ~Running({"change", "setup"})
    /\ session' = 0
    /\ UNCHANGED <<vault, disk, cloud, user, task, upKek, calm>>

Crash ==
    /\ Fault("crash")
    /\ session' = 0
    /\ task' = [t \in Tasks |-> Idle]
    /\ upKek' = [f \in Files |-> 0]
    /\ UNCHANGED <<vault, disk, cloud, user, calm>>

-----------------------------------------------------------------------------
Begin(t) ==
    \/ \E q \in PhraseField : ChangeBegin(t, q)
    \/ \E q \in shown : RecoverBegin(t, q)
    \/ SetupBegin(t) \/ SyncBegin(t)

CeremonyStep(t) ==
    \/ RecoverKeyFileFail(t)
    \/ Rewrap(t) \/ RekeyDb(t) \/ RekeyFail(t) \/ SwapSession(t) \/ SwapFail(t)
    \/ StageHeader(t) \/ StageHeaderFail(t) \/ UploadHeader(t) \/ UploadHeaderFail(t)
    \/ UploadManifest(t) \/ UploadManifestFail(t)
    \/ SetFlag(t) \/ SetFlagFail(t) \/ InstallSession(t) \/ InstallFail(t)
    \/ WriteLocal(t) \/ WriteLocalFail(t)

SyncStep(t) == SyncManifest(t) \/ SyncHeader(t) \/ SyncClear(t) \/ SyncFail(t)

Next ==
    \/ \E t \in Tasks : Begin(t) \/ CeremonyStep(t) \/ SyncStep(t)
    \/ \E f \in Files : FileRead(f) \/ FileInsert(f)
    \/ Unlock \/ Lock \/ Crash

Spec == Init /\ [][Next]_vars

-----------------------------------------------------------------------------
Settled == ~Running({"change", "setup", "recover", "sync"})

(* Calm behaviours (the README says which of the next properties each      *)
(* fault breaks).                                                           *)

(* Between ceremonies the header on disk, the database file, the identity  *)
(* row and the session agree on one master key: nobody is locked out.       *)
Openable ==
    calm /\ Settled => localHdr.key = dbKey /\ ident = dbKey /\ session \in {0, dbKey}

(* Between ceremonies every file key, of packed files too, is wrapped under *)
(* the key of the session that will open it: the re-wrapping loop "operates *)
(* on every file_key_wrapped row".                                          *)
FileKeysCurrent == calm /\ Settled => \A f \in Files : wrapped[f] \in {0, dbKey}

(* Whatever fails, crashes or overlaps, as long as there is a database: a   *)
(* header or a manifest is published, and a session installed, only for a   *)
(* key the database is already under, and rows are never behind the         *)
(* database (rekey_vault_db re-wraps, then re-keys, then returns).          *)
KeysOrdered ==
    dbKey # 0 =>
    /\ dbKey <= ident
    /\ \A h \in {localHdr, pending, cloudHdr} : h.key <= dbKey
    /\ cloudMan <= dbKey /\ session <= dbKey

CanRecover(q) ==
    \E i \in 1 .. Len(localHdr.slots) :
        Opens(q, localHdr.slots[i]) /\ localHdr.slots[i].key = dbKey

(* A phrase the user was given, and has not given up by changing the       *)
(* password without it, opens the vault whatever ceremonies followed: "each *)
(* slot wraps the same master_key independently. Any slot unlocks the       *)
(* vault".                                                                  *)
PhrasesOpen == calm /\ Settled => \A q \in shown : CanRecover(q)

(* "Re-wrap recovery slot under new master key so the phrase stays valid": *)
(* after a recovery its own phrase opens the vault.                         *)
RecoveredPhraseOpens ==
    [][\A t \in Tasks, q \in Phrases :
         task[t].kind = "recover" /\ task[t].phrase = q /\ WriteLocal(t) => CanRecover(q)']_vars

(* However the uploads of recoveries and pushes fail, a cloud that is not  *)
(* under the current key is flagged for repair.                             *)
StaleCloudFlagged ==
    calm /\ Settled /\ configured /\ (cloudHdr.key # dbKey \/ cloudMan # dbKey) => repair

(* "This guarantees a recoverable path after power loss or force-quit       *)
(* during credential rotation": some header on disk, the pending one        *)
(* included, is of the key that the database and its rows are under.        *)
RecoverablePath ==
    Settled => /\ ident = dbKey
               /\ localHdr.key = dbKey \/ pending.key = dbKey

-----------------------------------------------------------------------------
(* Statements of documents and comments that the code does not keep in every *)
(* case; the README says how TLC refutes each.                               *)

(* "The existing DB will be re-keyed in place": no ceremony, failed or not, *)
(* costs the device its database.                                           *)
DatabaseKept == dbKey # 0

(* What retry_pending_vault_operation can parse: a PendingVaultHeader with  *)
(* its operation.  upload_vault_header writes a bare VaultHeader.           *)
Retryable(artifact) == "operation" \in DOMAIN artifact

(* "the new header is written to pending-vault-header.json. This command   *)
(* retries the upload and writes the updated header to local disk": a      *)
(* header on disk that lags behind the database can be repaired by it.      *)
FailedUploadRetryable ==
    Settled /\ localHdr.key # dbKey => Retryable(pending)
=============================================================================
