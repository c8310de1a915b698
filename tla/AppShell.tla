------------------------------ MODULE AppShell ------------------------------
(***************************************************************************)
(* The application around a session: the commands that open and close a    *)
(* vault, the vault directories on disk, the fields of AppState they set,  *)
(* and the frontend, which learns of the backend only through the answers  *)
(* to its calls and through the session-changed event.                     *)
(*                                                                         *)
(* The commands are tasks of an asynchronous runtime; a step below is what *)
(* happens between two awaits that matter.  Keys and the inactivity timer  *)
(* are the SessionManager module's, re-keying is the Rekey module's: here  *)
(* a ceremony succeeds or fails.                                           *)
(***************************************************************************)
EXTENDS FiniteSets

CONSTANTS
    Vaults,
    InCloud,    \* vaults whose header and manifest a destination holds
    Cmds,       \* commands in flight at a time
    Navs,       \* list_directory calls in flight at a time
    None,
    Perils      \* what may happen besides: see the guards that name them

AllPerils == {"again", "late", "fail_tail", "wire_fails", "sweep", "reload",
               "slow_scan"}

ASSUME AppShellConstants ==
    /\ InCloud \subseteq Vaults
    /\ None \notin Vaults
    /\ Perils \subseteq AllPerils

VARIABLES
    disk,       \* the files of each vault directory
    opened,     \* the vault of the active session, None when there is none
    gate,       \* the command that holds the session install reservation
    app,        \* AppState: transport, active_vault_id, session_vault_info
    confs,      \* rclone.conf files in the temporary directory, by owner
    swept,      \* the start-up sweep of that directory has run
    drive,      \* the removable drive with the key file, and its mount event
    cmd,        \* the commands in flight
    event,      \* a session-changed event is on its way to the frontend
    status,     \* the frontend's get_session_status call, and its answer
    ui,         \* SessionState and VaultState of the frontend
    nav         \* list_directory calls: the answer, and whether still awaited

vars == <<disk, opened, gate, app, confs, swept, drive, cmd, event, status, ui, nav>>

Opening == {"login", "phrase", "create", "recover", "recover_phrase"}
Closing == {"lock", "delete"}
Ceremonies == {"create", "recover", "recover_phrase"}

NoCmd    == [op |-> "none", pc |-> "idle", v |-> None, heard |-> FALSE]
NoNav    == [pc |-> "idle", current |-> FALSE, files |-> None]
FreshApp == [transport |-> None, active |-> None, info |-> None]
NoStatus == [pc |-> "none", vault |-> None, tier |-> None]
Asked    == [pc |-> "asked", vault |-> None, tier |-> None]
LockedUi == [unlocked |-> FALSE, vault |-> None, tier |-> None, listing |-> None,
             page |-> None, key |-> "none", scan |-> FALSE]

Complete(v)  == {"db", "header"} \subseteq disk[v]
InFlight(ops) == {c \in Cmds : cmd[c].op \in ops}

Init ==
    /\ disk \in [Vaults -> {{}, {"db", "header"}}]
    /\ opened = None /\ gate = None /\ app = FreshApp
    /\ confs = {} /\ swept = FALSE
    /\ drive = [mounted |-> FALSE, notice |-> FALSE]
    /\ cmd = [c \in Cmds |-> NoCmd]
    /\ event = FALSE /\ status = Asked
    /\ ui = LockedUi
    /\ nav = [n \in Navs |-> NoNav]

At(c, op, pc) == cmd[c].op \in op /\ cmd[c].pc = pc
GoTo(c, pc)   == cmd' = [cmd EXCEPT ![c] = [@ EXCEPT !.pc = pc]]

(* Failed ceremonies of create_vault and of the recovery from the cloud    *)
(* remove the vault's directory; the conf they wrote for their own         *)
(* transport stays behind.                                                 *)
RemoveDir(v) == disk' = [disk EXCEPT ![v] = {}]

-----------------------------------------------------------------------------
(* The frontend's signals.                                                 *)

(* Mutant of DropListing: a clear that forgets the generation.             *)
DropListingOnly == nav

(* VaultActions::clear: the listing goes and the generation moves on, so   *)
(* that no answer still under way is taken.                                *)
DropListing  == [n \in Navs |-> [nav[n] EXCEPT !.current = FALSE]]

ClearVault(u) ==
    /\ ui' = [u EXCEPT !.listing = None]
    /\ nav' = DropListing

(* The effect of AppRouter: is_unlocked going from true to false clears    *)
(* everything; any other change of the session state is just that.         *)
SetSession(u) ==
    IF ui.unlocked /\ ~u.unlocked
    THEN ClearVault(LockedUi)
    ELSE ui' = u /\ UNCHANGED nav

CompleteSuccess(v) ==
    SetSession([ui EXCEPT !.unlocked = TRUE, !.vault = v,
                          !.page = None, !.key = "none", !.scan = FALSE])
CompleteFailure    == SetSession([ui EXCEPT !.unlocked = FALSE])

-----------------------------------------------------------------------------
(* What the user starts.  The pages that open a vault show while the       *)
(* session state is locked; leaving one and coming back allows a second    *)
(* command while the first still runs.  Without the peril "again" this is  *)
(* only ever a second login to the vault the first one has just opened.    *)

Idle(c) == cmd[c] = NoCmd

MayOpen(op, v) ==
    /\ ~ui.unlocked
    /\ "again" \notin Perils =>
          \A c \in InFlight(Opening \cup Closing) :
             op = "login" /\ cmd[c].op = "login" /\ opened = v /\ ui.key # "none"
    /\ "late"  \notin Perils => status = NoStatus /\ ~event
    /\ "sweep" \notin Perils => swept

Begin(c, op, v, pc) ==
    /\ Idle(c)
    /\ cmd' = [cmd EXCEPT ![c] = [op |-> op, pc |-> pc, v |-> v, heard |-> TRUE]]
    /\ UNCHANGED <<disk, opened, gate, app, confs, swept, drive, event, status>>

(* LoginPage: a vault of list_local_vaults is unlocked with its password   *)
(* and its key file.                                                       *)
Authenticate(c, v) ==
    /\ ui.page = v /\ MayOpen("login", v)
    /\ Begin(c, "login", v, IF ui.key = "none" THEN "failed" ELSE "resolve")
    /\ UNCHANGED <<ui, nav>>

(* RecoverWithPhrasePage: or with its recovery phrase.                     *)
RecoverWithPhrase(c, v) ==
    /\ ui.page = v /\ MayOpen("phrase", v)
    /\ Begin(c, "phrase", v, "resolve")
    /\ UNCHANGED <<ui, nav>>

(* VaultCreationPage: a new vault has a fresh id.                          *)
CreateVault(c, v) ==
    /\ MayOpen("create", v)
    /\ v \notin InCloud /\ disk[v] = {} /\ \A d \in Cmds : cmd[d].v # v
    /\ Begin(c, "create", v, "conf")
    /\ UNCHANGED <<ui, nav>>

(* VaultRecoveryPage: a vault is fetched from a destination, its id known  *)
(* from the header found there; with the password or with the phrase.      *)
RecoverVault(c, op, v) ==
    /\ op \in {"recover", "recover_phrase"} /\ v \in InCloud /\ MayOpen(op, v)
    /\ Begin(c, op, v, "conf")
    /\ UNCHANGED <<ui, nav>>

(* SessionStatusBar clears the listing before it calls lock_session.       *)
BeginLock(c) ==
    /\ ui.unlocked /\ InFlight(Opening \cup Closing) = {}
    /\ Begin(c, "lock", app.active, "lock")
    /\ ClearVault(ui)

(* delete_vault takes the session manager's vault and refuses without one. *)
BeginDelete(c) ==
    /\ ui.unlocked /\ InFlight(Opening \cup Closing) = {}
    /\ Begin(c, "delete", opened, IF opened = None THEN "failed" ELSE "lock")
    /\ UNCHANGED <<ui, nav>>

(* The login page of a vault from list_local_vaults, left by its button.   *)
OpenLogin(v) ==
    /\ ~ui.unlocked /\ ui.page = None /\ Complete(v)
    /\ ui' = [ui EXCEPT !.page = v]
    /\ UNCHANGED <<disk, opened, gate, app, confs, swept, drive, cmd, event, status, nav>>

LeaveLogin ==
    /\ ~ui.unlocked /\ ui.page # None
    /\ ui' = [ui EXCEPT !.page = None, !.key = "none", !.scan = FALSE]
    /\ UNCHANGED <<disk, opened, gate, app, confs, swept, drive, cmd, event, status, nav>>

(* The Browse button of KeyFileIndicator.                                  *)
ChooseKey ==
    /\ ~ui.unlocked /\ ui.page # None
    /\ "slow_scan" \notin Perils => ~ui.scan
    /\ ui' = [ui EXCEPT !.key = "chosen"]
    /\ UNCHANGED <<disk, opened, gate, app, confs, swept, drive, cmd, event, status, nav>>

(* The device monitor reports a drive once it finds where it is mounted,   *)
(* and only when it comes or goes.                                         *)
PlugIn ==
    /\ ~drive.mounted /\ ~drive.notice
    /\ \E n \in BOOLEAN : drive' = [mounted |-> TRUE, notice |-> n]
    /\ UNCHANGED <<disk, opened, gate, app, confs, swept, cmd, event, status, ui, nav>>

Unplug ==
    /\ drive.mounted
    /\ drive' = [drive EXCEPT !.mounted = FALSE]
    /\ UNCHANGED <<disk, opened, gate, app, confs, swept, cmd, event, status, ui, nav>>

(* The page looks for a key file only while it has none.                   *)
ScanWanted == ui.key = "none"

DeviceEvent ==
    /\ drive.notice
    /\ drive' = [drive EXCEPT !.notice = FALSE]
    /\ ui' = IF ~ui.unlocked /\ ui.page # None /\ ScanWanted
             THEN [ui EXCEPT !.scan = TRUE] ELSE ui
    /\ UNCHANGED <<disk, opened, gate, app, confs, swept, cmd, event, status, nav>>

(* find_key_file: a drive that is gone by then holds nothing.              *)
KeyFound == drive.mounted

(* scan_for_key_file takes an error for no match; the path it found is set *)
(* without another look.                                                   *)
ScanAnswer ==
    /\ ui.scan
    /\ ui' = [ui EXCEPT !.scan = FALSE, !.key = IF KeyFound THEN "found" ELSE @]
    /\ UNCHANGED <<disk, opened, gate, app, confs, swept, drive, cmd, event, status, nav>>

-----------------------------------------------------------------------------
(* Opening a vault.                                                        *)

(* resolve_vault_by_id.                                                    *)
Resolve(c) ==
    /\ At(c, {"login", "phrase"}, "resolve")
    /\ GoTo(c, IF Complete(cmd[c].v) THEN "unlock" ELSE "failed")
    /\ UNCHANGED <<disk, opened, gate, app, confs, swept, drive, event, status, ui, nav>>

(* SessionManager::authenticate and the phrase ceremony hold the install   *)
(* gate throughout: one step.                                              *)
Unlock(c) ==
    /\ At(c, {"login", "phrase"}, "unlock") /\ gate = None
    /\ "late" \notin Perils => ~event
    /\ \/ /\ opened = None
          /\ opened' = cmd[c].v /\ GoTo(c, "wire")
       \/ /\ GoTo(c, IF opened = None THEN "failed" ELSE "already_open")
          /\ UNCHANGED opened
    /\ UNCHANGED <<disk, gate, app, confs, swept, drive, event, status, ui, nav>>

(* The destination is listed, its container made where there is none.      *)
ValidateDestination(c) == \E pc \in {"dir", "failed"} : GoTo(c, pc)

(* The vault's header is read from the destination, or is not there.       *)
ProbeHeader(c) == \E pc \in {"dir", "failed"} : GoTo(c, pc)

(* create_vault writes a conf for a transport of its own if the            *)
(* destination is in the cloud.                                            *)
CreateConf(c) ==
    /\ At(c, {"create"}, "conf")
    /\ confs' \in {confs, confs \cup {c}}
    /\ ValidateDestination(c)
    /\ UNCHANGED <<disk, opened, gate, app, swept, drive, event, status, ui, nav>>

(* The recoveries always do, with the password or with the phrase.         *)
OwnConf(c) ==
    /\ confs' = confs \cup {c}
    /\ ProbeHeader(c)
    /\ UNCHANGED <<disk, opened, gate, app, swept, drive, event, status, ui, nav>>

RecoverConf(c) == At(c, {"recover"}, "conf") /\ OwnConf(c)

PhraseConf(c) == At(c, {"recover_phrase"}, "conf") /\ OwnConf(c)

(* Mutant of AlreadyHere: the check is forgotten.                          *)
AlreadyHereNever(v) == FALSE

(* A recovery refuses a vault that is on this device already.              *)
AlreadyHere(v) == Complete(v)

(* The directory of a new vault; a key file that is already where the new  *)
(* one should go stops the command.                                        *)
CreateDir(c) ==
    /\ At(c, {"create"}, "dir")
    /\ \E pc \in {"reserve", "failed"} : GoTo(c, pc)
    /\ UNCHANGED <<disk, opened, gate, app, confs, swept, drive, event, status, ui, nav>>

(* Anything less than a whole vault is wiped.                              *)
PrepareDir(c, contents) ==
    LET v == cmd[c].v IN
    /\ IF AlreadyHere(v)
       THEN GoTo(c, "failed") /\ UNCHANGED disk
       ELSE disk' = [disk EXCEPT ![v] = contents] /\ GoTo(c, "reserve")
    /\ UNCHANGED <<opened, gate, app, confs, swept, drive, event, status, ui, nav>>

(* The header is written before the ceremony, except in the recovery with  *)
(* the phrase.                                                             *)
RecoverDir(c) == At(c, {"recover"}, "dir") /\ PrepareDir(c, {"header"})

PhraseDir(c) == At(c, {"recover_phrase"}, "dir") /\ PrepareDir(c, {})

(* reserve_session_install, then precheck_recovery_destination.            *)
Reserve(c) ==
    LET v == cmd[c].v IN
    /\ At(c, Ceremonies, "reserve") /\ gate = None
    /\ "late" \notin Perils => ~event
    /\ IF opened # None \/ "db" \in disk[v]
       THEN RemoveDir(v) /\ GoTo(c, "failed") /\ UNCHANGED gate
       ELSE gate' = c /\ GoTo(c, "build") /\ UNCHANGED disk
    /\ UNCHANGED <<opened, app, confs, swept, drive, event, status, ui, nav>>

(* The database is created, or downloaded and opened with the keys.        *)
Build(c) ==
    LET v == cmd[c].v IN
    /\ At(c, Ceremonies, "build")
    /\ \/ /\ disk' = [disk EXCEPT ![v] = @ \cup IF cmd[c].op = "create"
                                                THEN {"db", "header"} ELSE {"db"}]
          /\ GoTo(c, "install") /\ UNCHANGED gate
       \/ RemoveDir(v) /\ GoTo(c, "failed") /\ gate' = None
    /\ UNCHANGED <<opened, app, confs, swept, drive, event, status, ui, nav>>

(* finalize_session_install: it goes on without a database it cannot find. *)
Install(c) ==
    /\ At(c, Ceremonies, "install")
    /\ opened' = cmd[c].v /\ gate' = None
    /\ GoTo(c, IF cmd[c].op = "recover_phrase" THEN "header" ELSE "tidy")
    /\ UNCHANGED <<disk, app, confs, swept, drive, event, status, ui, nav>>

(* The recovery with the phrase writes the header of the re-keyed vault    *)
(* once the session is open; failing to, it removes the directory.         *)
WriteHeader(c) ==
    LET v == cmd[c].v IN
    /\ At(c, {"recover_phrase"}, "header")
    /\ \/ disk' = [disk EXCEPT ![v] = @ \cup {"header"}] /\ GoTo(c, "tidy")
       \/ "fail_tail" \in Perils /\ RemoveDir(v) /\ GoTo(c, "failed")
    /\ UNCHANGED <<opened, gate, app, confs, swept, drive, event, status, ui, nav>>

(* The ceremony's own conf goes.                                           *)
DropConf(c) == confs' = confs \ {c} /\ GoTo(c, "wire")

Tidy(c) ==
    /\ At(c, Ceremonies, "tidy")
    /\ DropConf(c)
    /\ UNCHANGED <<disk, opened, gate, app, swept, drive, event, status, ui, nav>>

(* Mutant of WiredTransport: a transport that is there is kept.            *)
WiredTransportKept == IF app.transport = None THEN opened ELSE app.transport

(* try_build_and_swap_rclone_transport, for whatever session is open now:  *)
(* a failure is logged and leaves the transport that was there.            *)
WiredTransport == opened

Wire(c) ==
    /\ At(c, Opening, "wire")
    /\ \/ /\ opened # None
          /\ app' = [app EXCEPT !.transport = WiredTransport]
          /\ confs' = confs \cup {"session"}
       \/ /\ opened = None \/ "wire_fails" \in Perils
          /\ UNCHANGED <<app, confs>>
    /\ GoTo(c, "record")
    /\ UNCHANGED <<disk, opened, gate, swept, drive, event, status, ui, nav>>

(* active_vault_id, and cache_session_vault_info from the header.          *)
Record(c) ==
    LET v == cmd[c].v IN
    /\ At(c, Opening, "record")
    /\ app' = [app EXCEPT !.active = v, !.info = IF Complete(v) THEN v ELSE @]
    /\ GoTo(c, "done")
    /\ UNCHANGED <<disk, opened, gate, confs, swept, drive, event, status, ui, nav>>

-----------------------------------------------------------------------------
(* Closing a vault.                                                        *)

(* Mutant of CloseSession: a lock that tells nobody.                       *)
CloseSessionSilently ==
    /\ opened' = None
    /\ confs' = confs \ {"session"}
    /\ UNCHANGED event

(* SessionManager::lock, and the timer's way to the same end.              *)
CloseSession ==
    /\ opened' = None
    /\ confs' = confs \ {"session"}
    /\ event' = (event \/ opened # None)

LockSession(c) ==
    /\ At(c, Closing, "lock")
    /\ CloseSession /\ GoTo(c, "reset")
    /\ UNCHANGED <<disk, gate, app, swept, drive, status, ui, nav>>

ResetTransport(c) ==
    /\ At(c, Closing, "reset")
    /\ app' = [app EXCEPT !.transport = None]
    /\ GoTo(c, IF cmd[c].op = "delete" THEN "remove" ELSE "forget")
    /\ UNCHANGED <<disk, opened, gate, confs, swept, drive, event, status, ui, nav>>

RemoveVault(c) ==
    /\ At(c, {"delete"}, "remove")
    /\ RemoveDir(cmd[c].v) /\ GoTo(c, "forget")
    /\ UNCHANGED <<opened, gate, app, confs, swept, drive, event, status, ui, nav>>

Forget(c) ==
    /\ At(c, Closing, "forget")
    /\ app' = [app EXCEPT !.active = None, !.info = None]
    /\ GoTo(c, "done")
    /\ UNCHANGED <<disk, opened, gate, confs, swept, drive, event, status, ui, nav>>

(* The inactivity timer.  It may run out before the frontend knows that a  *)
(* vault is open: while an opening command still runs, or while the page   *)
(* of a new vault shows its recovery phrase.                               *)
Expire ==
    /\ opened # None
    /\ "late" \notin Perils => ui.unlocked /\ InFlight(Opening \cup Closing) = {}
    /\ CloseSession
    /\ UNCHANGED <<disk, gate, app, swept, drive, cmd, status, ui, nav>>

-----------------------------------------------------------------------------
(* The answers.                                                            *)

Finish(c) == cmd' = [cmd EXCEPT ![c] = NoCmd]

(* What the pages make of the answer.  The page of a new vault does so     *)
(* when its last dialog is closed.  A login that found a session open asks *)
(* for the status and takes that vault if it is its own.                   *)
FoundOpen(c) ==
    cmd[c].op = "login" /\ cmd[c].pc = "already_open" /\ opened = cmd[c].v

OpenedAnswer(c) ==
    /\ cmd[c].op \in Opening
    /\ cmd[c].pc = "done" \/ FoundOpen(c)
    /\ CompleteSuccess(cmd[c].v) /\ UNCHANGED status

(* Only the login page touches the session state of a failure; the others  *)
(* show the message.                                                       *)
RefusedAnswer(c) ==
    /\ cmd[c].op \in Opening
    /\ cmd[c].pc # "done" /\ ~FoundOpen(c)
    /\ IF cmd[c].op = "login" THEN CompleteFailure ELSE UNCHANGED <<ui, nav>>
    /\ UNCHANGED status

LockAnswer(c) ==
    /\ cmd[c].op = "lock"
    /\ SetSession(LockedUi) /\ UNCHANGED status

DeleteAnswer(c) ==
    /\ cmd[c].op = "delete"
    /\ \/ cmd[c].pc = "done" /\ ClearVault(LockedUi) /\ status' = Asked
       \/ cmd[c].pc = "failed" /\ UNCHANGED <<ui, nav, status>>

(* A command of a page that was reloaded answers to nobody.                *)
Answer(c) ==
    /\ cmd[c].pc \in {"done", "failed", "already_open"}
    /\ Finish(c)
    /\ IF ~cmd[c].heard
       THEN UNCHANGED <<ui, nav, status>>
       ELSE OpenedAnswer(c) \/ RefusedAnswer(c) \/ LockAnswer(c) \/ DeleteAnswer(c)
    /\ UNCHANGED <<disk, opened, gate, app, confs, swept, drive, event>>

(* The session-changed event of the bridge in lib.rs.                      *)
DeliverLocked ==
    /\ event
    /\ event' = FALSE
    /\ SetSession([ui EXCEPT !.unlocked = FALSE, !.vault = None, !.tier = None])
    /\ UNCHANGED <<disk, opened, gate, app, confs, swept, drive, cmd, status>>

(* get_session_status of SessionProvider, asked once when it mounts.       *)
AnswerStatus ==
    /\ status = Asked
    /\ status' = [pc |-> "answered", vault |-> opened,
                  tier |-> IF opened # None THEN app.info ELSE None]
    /\ UNCHANGED <<disk, opened, gate, app, confs, swept, drive, cmd, event, ui, nav>>

ApplyStatus ==
    /\ status.pc = "answered"
    /\ status' = NoStatus
    /\ SetSession([ui EXCEPT !.unlocked = status.vault # None,
                             !.vault = status.vault, !.tier = status.tier])
    /\ UNCHANGED <<disk, opened, gate, app, confs, swept, drive, cmd, event>>

(* SessionProvider asks for the status when it mounts.                     *)
FirstCall == Asked

(* The page is loaded again: the frontend starts from its defaults.        *)
Reload ==
    /\ "reload" \notin Perils => InFlight(Opening \cup Closing) = {} /\ ~event
    /\ ui' = LockedUi /\ nav' = [n \in Navs |-> NoNav]
    /\ status' = FirstCall
    /\ cmd' = [c \in Cmds |-> [cmd[c] EXCEPT !.heard = FALSE]]
    /\ UNCHANGED <<disk, opened, gate, app, confs, swept, drive, event>>

(* VaultActions::navigate: a new generation, then the call.                *)
Navigate(n) ==
    /\ ui.unlocked /\ nav[n] = NoNav
    /\ nav' = [DropListing EXCEPT ![n] = [pc |-> "asked", current |-> TRUE, files |-> None]]
    /\ UNCHANGED <<disk, opened, gate, app, confs, swept, drive, cmd, event, status, ui>>

(* list_directory needs an active session and lists the vault it is of.    *)
ListDirectory(n) ==
    /\ nav[n].pc = "asked"
    /\ nav' = [nav EXCEPT ![n] = [@ EXCEPT !.pc = "answered", !.files = opened]]
    /\ UNCHANGED <<disk, opened, gate, app, confs, swept, drive, cmd, event, status, ui>>

ShowListing(n) ==
    /\ nav[n].pc = "answered"
    /\ nav' = [nav EXCEPT ![n] = NoNav]
    /\ ui' = IF nav[n].current /\ nav[n].files # None
             THEN [ui EXCEPT !.listing = nav[n].files] ELSE ui
    /\ UNCHANGED <<disk, opened, gate, app, confs, swept, drive, cmd, event, status>>

-----------------------------------------------------------------------------
(* The process ends: the window is closed (lock, then exit) or it crashes, *)
(* and what it held in memory is gone.                                     *)
Restart ==
    /\ opened' = None /\ gate' = None /\ app' = FreshApp
    /\ confs' \in {IF confs \ {"session"} = {} THEN {} ELSE {"old"},
                   IF confs = {} THEN {} ELSE {"old"}}
    /\ swept' = FALSE
    /\ cmd' = [c \in Cmds |-> NoCmd]
    /\ event' = FALSE /\ status' = FirstCall
    /\ ui' = LockedUi /\ nav' = [n \in Navs |-> NoNav]
    /\ UNCHANGED <<disk, drive>>

(* The sweep started with the process removes every arx-runa directory it  *)
(* finds, those of this process too.                                       *)
Sweep ==
    /\ ~swept
    /\ swept' = TRUE /\ confs' = {}
    /\ UNCHANGED <<disk, opened, gate, app, drive, cmd, event, status, ui, nav>>

Next ==
    \/ \E v \in Vaults : OpenLogin(v)
    \/ LeaveLogin \/ ChooseKey \/ PlugIn \/ Unplug \/ DeviceEvent \/ ScanAnswer
    \/ \E c \in Cmds, v \in Vaults :
          \/ Authenticate(c, v) \/ RecoverWithPhrase(c, v) \/ CreateVault(c, v)
          \/ \E op \in {"recover", "recover_phrase"} : RecoverVault(c, op, v)
    \/ \E c \in Cmds :
          \/ BeginLock(c) \/ BeginDelete(c)
          \/ Resolve(c) \/ Unlock(c)
          \/ CreateConf(c) \/ RecoverConf(c) \/ PhraseConf(c)
          \/ CreateDir(c) \/ RecoverDir(c) \/ PhraseDir(c)
          \/ Reserve(c) \/ Build(c) \/ Install(c) \/ WriteHeader(c)
          \/ Tidy(c) \/ Wire(c) \/ Record(c)
          \/ LockSession(c) \/ ResetTransport(c) \/ RemoveVault(c) \/ Forget(c)
          \/ Answer(c)
    \/ \E n \in Navs : Navigate(n) \/ ListDirectory(n) \/ ShowListing(n)
    \/ Expire \/ DeliverLocked \/ AnswerStatus \/ ApplyStatus
    \/ Reload \/ Restart \/ Sweep

Spec == Init /\ [][Next]_vars

-----------------------------------------------------------------------------
Busy == InFlight(Opening \cup Closing) # {}

TypeOK ==
    /\ disk \in [Vaults -> SUBSET {"db", "header"}]
    /\ opened \in Vaults \cup {None}
    /\ gate \in Cmds \cup {None}
    /\ app \in [transport : Vaults \cup {None}, active : Vaults \cup {None},
                info : Vaults \cup {None}]
    /\ confs \subseteq Cmds \cup {"session", "old"}
    /\ ui.vault \in Vaults \cup {None} /\ ui.listing \in Vaults \cup {None}

(* A frontend that shows a vault is right, or is about to be told that it  *)
(* is not: the screen never stays on a vault that is locked (the reason    *)
(* for the session-changed event of lib.rs).                               *)
UiTruthful ==
    ui.unlocked => opened = ui.vault \/ (opened = None /\ event)

(* A vault is never left open behind the vault picker: once all answers    *)
(* are in, an active session is on the screen (what SessionProvider asks   *)
(* the status for).                                                        *)
SessionShown ==
    opened # None /\ ~Busy /\ ~event /\ status = NoStatus
        => ui.unlocked /\ ui.vault = opened

(* Screen and session agree: the screen never stays on a vault that is     *)
(* locked, and no vault stays open behind the vault picker.                *)
ScreenMatches == UiTruthful /\ SessionShown

(* The listing on the screen is of the vault on the screen, and there is   *)
(* none while it is locked, whenever the answers to list_directory come    *)
(* back (vault_context.rs, navigate and clear).                            *)
NoForeignListing ==
    ui.listing # None => ui.unlocked /\ ui.listing = ui.vault

(* Once its commands are through, an open session has its database, the    *)
(* transport of its own primary destination with a conf on disk, and the   *)
(* vault id and header information the other commands read.                *)
WiredToSession ==
    opened # None /\ ~Busy =>
        /\ Complete(opened)
        /\ app = [transport |-> opened, active |-> opened, info |-> opened]
        /\ "session" \in confs

(* A whole vault on disk goes away only by delete_vault of that vault:     *)
(* never by a failed or a repeated recovery.                               *)
VaultsKept ==
    [][\A v \in Vaults : Complete(v) /\ ~Complete(v)'
          => \E c \in Cmds : At(c, {"delete"}, "remove") /\ cmd[c].v = v]_vars

(* A key file the user chose stays the page's choice: a drive that is      *)
(* plugged in later does not replace it (the check before the scan).       *)
KeyChoiceKept ==
    [][ui.key = "chosen" /\ ui'.key # "chosen" => ui'.page # ui.page]_vars

(* SessionState::vault_tier is the tier of the vault while it is unlocked: *)
(* what its comment says, and what the settings page relies on.            *)
UiKnowsTier == ui.unlocked => ui.tier = ui.vault
=============================================================================
