--------------------------- MODULE FrontendProofs ---------------------------
(***************************************************************************)
(* Proofs about the two modules in which the frontend takes part: AppShell  *)
(* (for any vaults, commands and listings), and below it OAuthSetup (for    *)
(* any number of setups).                                                   *)
(***************************************************************************)
EXTENDS AppShell, OAuthSetup, Naturals, TLAPS

-----------------------------------------------------------------------------
(* Types.                                                                   *)
MaybeVault == Vaults \cup {None}
Places == {"idle", "failed", "resolve", "unlock", "conf", "dir", "reserve", "build", "install",
           "header", "tidy", "wire", "record", "done", "already_open", "lock", "reset", "remove",
           "forget"}
Commands == [op : Opening \cup Closing \cup {"none"}, pc : Places, v : MaybeVault, heard : BOOLEAN]
Answers  == [pc : {"none", "asked", "answered"}, vault : MaybeVault, tier : MaybeVault]
Screens  == [unlocked : BOOLEAN, vault : MaybeVault, tier : MaybeVault, listing : MaybeVault,
             page : MaybeVault, key : {"none", "chosen", "found"}, scan : BOOLEAN]
Listings == [pc : {"idle", "asked", "answered"}, current : BOOLEAN, files : MaybeVault]

(* A command that opens a vault knows which.                                *)
CommandOK(r) ==
    /\ r \in Commands
    /\ r.op = "none" => r = NoCmd
    /\ r.op \in Opening => r.v \in Vaults

Typed ==
    /\ TypeOK
    /\ \A c \in Cmds : CommandOK(cmd[c])
    /\ cmd \in [Cmds -> Commands] /\ nav \in [Navs -> Listings]
    /\ event \in BOOLEAN /\ swept \in BOOLEAN /\ status \in Answers /\ ui \in Screens

-----------------------------------------------------------------------------
(* Of two commands in flight both are logins; so a ceremony, a lock and a   *)
(* deletion are alone.                                                      *)
Solo ==
    \A c, d \in Cmds : c # d /\ cmd[c].op # "none" /\ cmd[d].op # "none" =>
        cmd[c].op = "login" /\ cmd[d].op = "login"

(* The directory a ceremony builds, step by step.                           *)
Built(c) ==
    LET op == cmd[c].op  pc == cmd[c].pc  files == disk[cmd[c].v] IN
    /\ op = "create" /\ pc \in {"conf", "dir", "reserve", "build"} => files = {}
    /\ op = "recover" /\ pc \in {"reserve", "build"} => files = {"header"}
    /\ op = "recover_phrase" /\ pc \in {"reserve", "build"} => files = {}
    /\ op = "recover_phrase" /\ pc \in {"install", "header"} => files = {"db"}
    /\ op \in {"create", "recover"} /\ pc = "install" => files = {"db", "header"}

DiskInv == Typed /\ Solo /\ \A c \in Cmds : Built(c)

-----------------------------------------------------------------------------
(* Where an opening command stands says what is open.                       *)
Before == {"conf", "dir", "reserve", "build", "install", "failed"}
After  == {"header", "tidy", "wire", "record", "done", "already_open"}

OpensOwn(c) ==
    LET r == cmd[c] IN
    /\ r.op # "none" => r.heard
    /\ r.pc = "header" => r.op = "recover_phrase"
    /\ r.pc = "already_open" => r.op = "login"
    /\ r.op \in Opening =>
         /\ r.pc \in Before => opened = None
         /\ r.pc \in After => opened = r.v
         /\ r.pc \notin Before \cup After =>
               /\ r.op = "login" /\ opened # None => opened = r.v
               /\ r.op = "phrase" => opened = None
               /\ r.op \in {"login", "phrase"}
         /\ r.pc \in {"build", "install"} => ~event
         /\ r.pc = "unlock" => Complete(r.v)
    /\ r.op \in Closing /\ r.pc # "lock" => opened = None

(* A second command comes only while a vault is open.                       *)
Together ==
    \A c, d \in Cmds : c # d /\ cmd[c].op # "none" /\ cmd[d].op # "none" => opened # None

(* An open vault is whole, but for the header a recovery is about to write. *)
WholeOnDisk ==
    opened # None /\ (\A c \in Cmds : cmd[c].pc # "header") => Complete(opened)

(* While the frontend asks for the status nothing moves.                    *)
StatusFresh ==
    status # NoStatus =>
        /\ ~ui.unlocked /\ \A c \in Cmds : cmd[c].op = "none"
        /\ status = Asked \/ (status.pc = "answered" /\ status.vault = opened)

Shown ==
    opened # None /\ (\A c \in Cmds : cmd[c].op = "none") /\ status = NoStatus =>
        ui.unlocked /\ ui.vault = opened

ScreenInv ==
    /\ DiskInv /\ Together /\ \A c \in Cmds : OpensOwn(c)
    /\ WholeOnDisk /\ StatusFresh /\ Shown /\ UiTruthful /\ (ui.unlocked => ui.vault # None)
    /\ event => opened = None

(* The listing on the screen, and what is on its way to it.                 *)
ListingInv ==
    /\ ui.listing # None => ui.unlocked /\ ui.listing = ui.vault
    /\ \A n \in Navs : nav[n].current =>
          ui.unlocked /\ (nav[n].files # None => nav[n].files = ui.vault)

-----------------------------------------------------------------------------
(* What an opening command has wired of the session it opened.              *)
WiredInv ==
    /\ opened # None \/ (\E c \in Cmds : cmd[c].op \in Opening) => swept
    /\ opened # None /\ (\A c \in Cmds : cmd[c].pc \notin {"header", "tidy", "wire"}) =>
          app.transport = opened /\ "session" \in confs
    /\ opened # None /\ (\A c \in Cmds : cmd[c].pc \notin {"header", "tidy", "wire", "record"}) =>
          app.active = opened /\ app.info = opened

-----------------------------------------------------------------------------
(* What the steps of a command and of the frontend change.                  *)
LEMMA Steps ==
    ASSUME Typed, NEW c \in Cmds, NEW pc \in Places, GoTo(c, pc)
    PROVE  /\ cmd'[c].op = cmd[c].op /\ cmd'[c].v = cmd[c].v /\ cmd'[c].heard = cmd[c].heard
           /\ cmd'[c].pc = pc
           /\ \A d \in Cmds \ {c} : cmd'[d] = cmd[d]
           /\ cmd' \in [Cmds -> Commands]
           /\ cmd[c].op # "none" => \A d \in Cmds : CommandOK(cmd'[d])
<1>1. cmd[c] \in Commands /\ cmd \in [Cmds -> Commands]
  BY DEF Typed
<1>2. cmd' = [cmd EXCEPT ![c] = [cmd[c] EXCEPT !.pc = pc]]
  BY <1>1 DEF GoTo
<1>3. /\ cmd'[c].op = cmd[c].op /\ cmd'[c].v = cmd[c].v /\ cmd'[c].heard = cmd[c].heard
      /\ cmd'[c].pc = pc
      /\ \A d \in Cmds \ {c} : cmd'[d] = cmd[d]
      /\ cmd' \in [Cmds -> Commands]
  BY <1>1, <1>2 DEF Commands
<1>4. ASSUME cmd[c].op # "none", NEW d \in Cmds PROVE CommandOK(cmd'[d])
  BY <1>3, <1>4 DEF CommandOK, Typed
<1> QED BY <1>3, <1>4

LEMMA Begins ==
    ASSUME Typed, NEW c \in Cmds, NEW op \in Opening \cup Closing, NEW v \in MaybeVault,
           NEW pc \in Places, op \in Opening => v \in Vaults, Begin(c, op, v, pc)
    PROVE  /\ cmd[c] = NoCmd /\ cmd[c].op = "none"
           /\ cmd'[c] = [op |-> op, pc |-> pc, v |-> v, heard |-> TRUE]
           /\ cmd'[c].op = op /\ cmd'[c].pc = pc /\ cmd'[c].v = v /\ cmd'[c].heard = TRUE
           /\ \A d \in Cmds \ {c} : cmd'[d] = cmd[d]
           /\ cmd' \in [Cmds -> Commands]
           /\ \A d \in Cmds : CommandOK(cmd'[d])
           /\ UNCHANGED <<disk, opened, gate, app, confs, swept, drive, event, status>>
<1> DEFINE r == [op |-> op, pc |-> pc, v |-> v, heard |-> TRUE]
<1>1. cmd[c] = NoCmd /\ cmd[c].op = "none"
  BY DEF Begin, Idle, NoCmd
<1>2. r \in Commands /\ r.op = op /\ r.v = v /\ r.pc = pc /\ r.heard = TRUE
  BY DEF Commands
<1>3. cmd' = [cmd EXCEPT ![c] = r]
  BY DEF Begin
<1>4. CommandOK(r)
  BY <1>2 DEF CommandOK, Opening, Closing
<1> HIDE DEF r
<1>5. cmd'[c] = r /\ (\A d \in Cmds \ {c} : cmd'[d] = cmd[d]) /\ cmd' \in [Cmds -> Commands]
  BY <1>2, <1>3 DEF Typed
<1>6. \A d \in Cmds : CommandOK(cmd'[d])
  BY <1>4, <1>5 DEF Typed
<1>7. cmd'[c] = [op |-> op, pc |-> pc, v |-> v, heard |-> TRUE]
  BY <1>5 DEF r
<1> QED BY <1>1, <1>2, <1>5, <1>6, <1>7 DEF Begin

LEMMA Finishes ==
    ASSUME Typed, NEW c \in Cmds, Finish(c)
    PROVE  /\ cmd'[c] = NoCmd /\ cmd'[c].op = "none" /\ cmd'[c].pc = "idle"
           /\ \A d \in Cmds \ {c} : cmd'[d] = cmd[d]
           /\ cmd' \in [Cmds -> Commands]
           /\ \A d \in Cmds : CommandOK(cmd'[d])
<1>1. NoCmd \in Commands /\ CommandOK(NoCmd) /\ NoCmd.op = "none" /\ NoCmd.pc = "idle"
  BY DEF NoCmd, Commands, CommandOK, MaybeVault, Places, Opening
<1>2. cmd'[c] = NoCmd /\ (\A d \in Cmds \ {c} : cmd'[d] = cmd[d]) /\ cmd' \in [Cmds -> Commands]
  BY <1>1 DEF Finish, Typed
<1> QED BY <1>1, <1>2 DEF Typed

LEMMA LockedScreen ==
    /\ LockedUi \in Screens /\ LockedUi.unlocked = FALSE /\ LockedUi.listing = None
    /\ LockedUi.vault = None /\ LockedUi.key = "none"
BY DEF LockedUi, Screens, MaybeVault

LEMMA Drops ==
    ASSUME Typed
    PROVE  /\ DropListing \in [Navs -> Listings]
           /\ \A n \in Navs : DropListing[n].current = FALSE
BY DEF DropListing, Typed, Listings

LEMMA Clears ==
    ASSUME Typed, NEW u \in Screens, ClearVault(u)
    PROVE  /\ ui' \in Screens /\ nav' \in [Navs -> Listings]
           /\ ui'.listing = None /\ ui'.unlocked = u.unlocked /\ ui'.vault = u.vault
           /\ \A n \in Navs : nav'[n].current = FALSE
<1>1. ui' \in Screens /\ ui'.listing = None /\ ui'.unlocked = u.unlocked /\ ui'.vault = u.vault
  BY DEF ClearVault, Screens, MaybeVault
<1> QED BY <1>1, Drops DEF ClearVault

(* The session state is set: a screen that goes dark is cleared.            *)
LEMMA Sets ==
    ASSUME Typed, NEW u \in Screens, SetSession(u)
    PROVE  /\ ui' \in Screens /\ nav' \in [Navs -> Listings] /\ ui'.unlocked = u.unlocked
           /\ \/ ui' = u /\ nav' = nav
              \/ ui'.listing = None /\ (\A n \in Navs : nav'[n].current = FALSE)
           /\ ui.unlocked /\ ~u.unlocked =>
                ui'.listing = None /\ (\A n \in Navs : nav'[n].current = FALSE)
           /\ u.unlocked => ui' = u /\ nav' = nav
<1>1. CASE ui.unlocked /\ ~u.unlocked
  BY <1>1, LockedScreen, Clears DEF SetSession, Screens
<1>2. CASE ~(ui.unlocked /\ ~u.unlocked)
  BY <1>2 DEF SetSession, Typed, Screens
<1> QED BY <1>1, <1>2

LEMMA Succeeds ==
    ASSUME Typed, NEW v \in Vaults, CompleteSuccess(v)
    PROVE  /\ ui' \in Screens /\ nav' = nav
           /\ ui'.unlocked = TRUE /\ ui'.vault = v /\ ui'.listing = ui.listing
<1> DEFINE u == [ui EXCEPT !.unlocked = TRUE, !.vault = v,
                           !.page = None, !.key = "none", !.scan = FALSE]
<1>1. u \in Screens /\ u.unlocked = TRUE /\ u.vault = v /\ u.listing = ui.listing
  BY DEF Typed, Screens, MaybeVault
<1>2. SetSession(u)
  BY DEF CompleteSuccess
<1> HIDE DEF u
<1> QED BY <1>1, <1>2, Sets

LEMMA Refuses ==
    ASSUME Typed, CompleteFailure
    PROVE  /\ ui' \in Screens /\ nav' \in [Navs -> Listings] /\ ui'.unlocked = FALSE
           /\ \/ ~ui.unlocked /\ ui'.listing = ui.listing /\ nav' = nav
              \/ ui'.listing = None /\ (\A n \in Navs : nav'[n].current = FALSE)
<1> DEFINE u == [ui EXCEPT !.unlocked = FALSE]
<1>1. u \in Screens /\ u.unlocked = FALSE /\ u.listing = ui.listing
  BY DEF Typed, Screens
<1>2. SetSession(u)
  BY DEF CompleteFailure
<1>3. ui.unlocked \in BOOLEAN
  BY DEF Typed, Screens
<1> HIDE DEF u
<1> QED BY <1>1, <1>2, <1>3, Sets

-----------------------------------------------------------------------------
(* Type correctness.                                                        *)
LEMMA TypedAgain ==
    ASSUME /\ disk' \in [Vaults -> SUBSET {"db", "header"}] /\ opened' \in MaybeVault
           /\ gate' \in Cmds \cup {None}
           /\ app' \in [transport : MaybeVault, active : MaybeVault, info : MaybeVault]
           /\ confs' \subseteq Cmds \cup {"session", "old"},
           cmd' \in [Cmds -> Commands] /\ \A c \in Cmds : CommandOK(cmd'[c]),
           /\ nav' \in [Navs -> Listings] /\ event' \in BOOLEAN /\ swept' \in BOOLEAN
           /\ status' \in Answers /\ ui' \in Screens
    PROVE  Typed'
BY DEF Typed, TypeOK, MaybeVault, Screens, CommandOK

LEMMA TypedNow ==
    ASSUME Typed
    PROVE  /\ disk \in [Vaults -> SUBSET {"db", "header"}] /\ opened \in MaybeVault
           /\ gate \in Cmds \cup {None}
           /\ app \in [transport : MaybeVault, active : MaybeVault, info : MaybeVault]
           /\ confs \subseteq Cmds \cup {"session", "old"}
           /\ cmd \in [Cmds -> Commands] /\ \A c \in Cmds : CommandOK(cmd[c])
           /\ nav \in [Navs -> Listings] /\ event \in BOOLEAN /\ swept \in BOOLEAN
           /\ status \in Answers /\ ui \in Screens
BY DEF Typed, TypeOK, MaybeVault

LEMMA Nothings ==
    /\ NoCmd \in Commands /\ CommandOK(NoCmd) /\ NoCmd.op = "none" /\ NoCmd.pc = "idle"
    /\ NoNav \in Listings /\ NoNav.current = FALSE /\ NoStatus \in Answers /\ Asked \in Answers
    /\ Asked # NoStatus /\ Asked.pc = "asked" /\ NoStatus.pc = "none"
    /\ FreshApp \in [transport : MaybeVault, active : MaybeVault, info : MaybeVault]
BY DEF NoCmd, Commands, CommandOK, MaybeVault, Places, Opening, NoNav, Listings, NoStatus, Asked,
       Answers, FreshApp

LEMMA TypeInit ==
    ASSUME Init
    PROVE  Typed
<1>1. cmd \in [Cmds -> Commands] /\ \A c \in Cmds : CommandOK(cmd[c])
  BY Nothings DEF Init
<1>2. nav \in [Navs -> Listings] /\ status \in Answers /\ ui \in Screens
  BY Nothings, LockedScreen DEF Init
<1>3. /\ disk \in [Vaults -> SUBSET {"db", "header"}] /\ opened \in MaybeVault
      /\ gate \in Cmds \cup {None}
      /\ app \in [transport : MaybeVault, active : MaybeVault, info : MaybeVault]
      /\ confs \subseteq Cmds \cup {"session", "old"} /\ event \in BOOLEAN /\ swept \in BOOLEAN
  BY Nothings DEF Init, MaybeVault
<1> QED BY <1>1, <1>2, <1>3 DEF Typed, TypeOK, MaybeVault, Screens

(* The pages.                                                               *)
Paging ==
    \/ \E v \in Vaults : OpenLogin(v)
    \/ LeaveLogin \/ ChooseKey \/ PlugIn \/ Unplug \/ DeviceEvent \/ ScanAnswer

LEMMA Pages ==
    ASSUME Typed, Paging
    PROVE  /\ UNCHANGED <<disk, opened, gate, app, confs, swept, cmd, event, status, nav>>
           /\ ui' \in Screens /\ ui'.unlocked = ui.unlocked /\ ui'.vault = ui.vault
           /\ ui'.listing = ui.listing /\ ui'.tier = ui.tier
<1> USE TypedNow
<1>1. ASSUME NEW v \in Vaults, OpenLogin(v)
      PROVE  /\ UNCHANGED <<disk, opened, gate, app, confs, swept, cmd, event, status, nav>>
             /\ ui' = [ui EXCEPT !.page = v] /\ v \in MaybeVault
  BY <1>1 DEF OpenLogin, MaybeVault
<1>2. CASE \E v \in Vaults : OpenLogin(v)
  BY <1>1, <1>2 DEF Screens
<1>3. CASE LeaveLogin
  BY <1>3 DEF LeaveLogin, Screens, MaybeVault
<1>4. CASE ChooseKey
  BY <1>4 DEF ChooseKey, Screens
<1>5. CASE PlugIn
  BY <1>5 DEF PlugIn
<1>6. CASE Unplug
  BY <1>6 DEF Unplug
<1>7. CASE DeviceEvent
  BY <1>7 DEF DeviceEvent, Screens
<1>8. CASE ScanAnswer
  BY <1>8 DEF ScanAnswer, Screens
<1> QED BY <1>2, <1>3, <1>4, <1>5, <1>6, <1>7, <1>8 DEF Paging

(* The commands that begin.                                                 *)
Beginning(c) ==
    \/ \E v \in Vaults : Authenticate(c, v) \/ RecoverWithPhrase(c, v) \/ CreateVault(c, v)
    \/ \E v \in Vaults, op \in {"recover", "recover_phrase"} : RecoverVault(c, op, v)
    \/ BeginLock(c) \/ BeginDelete(c)

(* What begins, of which vault and where, with what its page demands.       *)
Begun(c, op, v, pc) ==
    /\ op \in Opening => v \in Vaults /\ MayOpen(op, v) /\ UNCHANGED <<ui, nav>>
    /\ op = "create" => disk[v] = {}
    /\ op \in Closing => ui.unlocked /\ InFlight(Opening \cup Closing) = {}
    /\ op = "lock" => ClearVault(ui)
    /\ op = "delete" => UNCHANGED <<ui, nav>> /\ v = opened
    /\ op = "login" => pc = IF ui.key = "none" THEN "failed" ELSE "resolve"
    /\ op = "phrase" => pc = "resolve"
    /\ op \in Ceremonies => pc = "conf"
    /\ op = "lock" => pc = "lock"
    /\ op = "delete" => pc = IF opened = None THEN "failed" ELSE "lock"
    /\ Begin(c, op, v, pc)

LEMMA Starting ==
    ASSUME Typed, NEW c \in Cmds, Beginning(c)
    PROVE  \E op \in Opening \cup Closing, v \in MaybeVault, pc \in Places : Begun(c, op, v, pc)
<1>1. CASE \E v \in Vaults : Authenticate(c, v)
  <2>1. PICK v \in Vaults : Authenticate(c, v)
    BY <1>1
  <2>2. Begun(c, "login", v, IF ui.key = "none" THEN "failed" ELSE "resolve")
    BY <2>1 DEF Begun, Authenticate, Opening, Closing, Ceremonies
  <2> QED BY <2>2 DEF Opening, MaybeVault, Places
<1>2. CASE \E v \in Vaults : RecoverWithPhrase(c, v)
  <2>1. PICK v \in Vaults : RecoverWithPhrase(c, v)
    BY <1>2
  <2>2. Begun(c, "phrase", v, "resolve")
    BY <2>1 DEF Begun, RecoverWithPhrase, Opening, Closing, Ceremonies
  <2> QED BY <2>2 DEF Opening, MaybeVault, Places
<1>3. CASE \E v \in Vaults : CreateVault(c, v)
  <2>1. PICK v \in Vaults : CreateVault(c, v)
    BY <1>3
  <2>2. Begun(c, "create", v, "conf")
    BY <2>1 DEF Begun, CreateVault, Opening, Closing, Ceremonies
  <2> QED BY <2>2 DEF Opening, MaybeVault, Places
<1>4. CASE \E v \in Vaults, op \in {"recover", "recover_phrase"} : RecoverVault(c, op, v)
  <2>1. PICK v \in Vaults, op \in {"recover", "recover_phrase"} : RecoverVault(c, op, v)
    BY <1>4
  <2>2. Begun(c, op, v, "conf")
    BY <2>1 DEF Begun, RecoverVault, Opening, Closing, Ceremonies
  <2> QED BY <2>2 DEF Opening, MaybeVault, Places
<1>5. CASE BeginLock(c)
  <2>1. Begun(c, "lock", app.active, "lock")
    BY <1>5 DEF Begun, BeginLock, Opening, Closing, Ceremonies
  <2>2. app.active \in MaybeVault
    BY TypedNow
  <2> QED BY <2>1, <2>2 DEF Closing, Places
<1>6. CASE BeginDelete(c)
  <2>1. Begun(c, "delete", opened, IF opened = None THEN "failed" ELSE "lock")
    BY <1>6 DEF Begun, BeginDelete, Opening, Closing, Ceremonies
  <2>2. opened \in MaybeVault
    BY TypedNow
  <2> QED BY <2>1, <2>2 DEF Closing, Places
<1> QED BY <1>1, <1>2, <1>3, <1>4, <1>5, <1>6 DEF Beginning

(* The steps of a command between its beginning and its answer.             *)
Working(c) ==
    \/ Resolve(c) \/ Unlock(c) \/ CreateConf(c) \/ RecoverConf(c) \/ PhraseConf(c)
    \/ CreateDir(c) \/ RecoverDir(c) \/ PhraseDir(c) \/ Reserve(c) \/ Build(c) \/ Install(c)
    \/ WriteHeader(c) \/ Tidy(c) \/ Wire(c) \/ Record(c) \/ LockSession(c) \/ ResetTransport(c)
    \/ RemoveVault(c) \/ Forget(c)

LEMMA Working1 ==
    ASSUME Typed, NEW c \in Cmds, Working(c)
    PROVE  /\ cmd[c].op \in Opening \cup Closing
           /\ \E pc \in Places : GoTo(c, pc)
           /\ UNCHANGED <<swept, drive, status, ui, nav>>
<1>1. CASE Resolve(c)
  BY <1>1 DEF Resolve, At, Places, Opening, Closing
<1>2. CASE Unlock(c)
  BY <1>2 DEF Unlock, At, Places, Opening, Closing
<1>3. CASE CreateConf(c)
  BY <1>3 DEF CreateConf, ValidateDestination, At, Places, Opening, Closing
<1>4. CASE RecoverConf(c)
  BY <1>4 DEF RecoverConf, OwnConf, ProbeHeader, At, Places, Opening, Closing
<1>5. CASE PhraseConf(c)
  BY <1>5 DEF PhraseConf, OwnConf, ProbeHeader, At, Places, Opening, Closing
<1>6. CASE CreateDir(c)
  BY <1>6 DEF CreateDir, At, Places, Opening, Closing
<1>7. CASE RecoverDir(c)
  BY <1>7 DEF RecoverDir, PrepareDir, At, Places, Opening, Closing
<1>8. CASE PhraseDir(c)
  BY <1>8 DEF PhraseDir, PrepareDir, At, Places, Opening, Closing
<1>9. CASE Reserve(c)
  BY <1>9 DEF Reserve, RemoveDir, Ceremonies, At, Places, Opening, Closing
<1>10. CASE Build(c)
  BY <1>10 DEF Build, RemoveDir, Ceremonies, At, Places, Opening, Closing
<1>11. CASE Install(c)
  BY <1>11 DEF Install, Ceremonies, At, Places, Opening, Closing
<1>12. CASE WriteHeader(c)
  BY <1>12 DEF WriteHeader, RemoveDir, At, Places, Opening, Closing
<1>13. CASE Tidy(c)
  BY <1>13 DEF Tidy, DropConf, Ceremonies, At, Places, Opening, Closing
<1>14. CASE Wire(c)
  BY <1>14 DEF Wire, WiredTransport, At, Places, Opening, Closing
<1>15. CASE Record(c)
  BY <1>15 DEF Record, At, Places, Opening, Closing
<1>16. CASE LockSession(c)
  BY <1>16 DEF LockSession, CloseSession, At, Places, Opening, Closing
<1>17. CASE ResetTransport(c)
  BY <1>17 DEF ResetTransport, At, Places, Opening, Closing
<1>18. CASE RemoveVault(c)
  BY <1>18 DEF RemoveVault, RemoveDir, At, Places, Opening, Closing
<1>19. CASE Forget(c)
  BY <1>19 DEF Forget, At, Places, Opening, Closing
<1> QED BY <1>1, <1>2, <1>3, <1>4, <1>5, <1>6, <1>7, <1>8, <1>9, <1>10, <1>11, <1>12, <1>13, <1>14,
           <1>15, <1>16, <1>17, <1>18, <1>19 DEF Working

LEMMA Working2 ==
    ASSUME Typed, NEW c \in Cmds, Working(c)
    PROVE  /\ disk' \in [Vaults -> SUBSET {"db", "header"}] /\ opened' \in MaybeVault
           /\ gate' \in Cmds \cup {None}
           /\ app' \in [transport : MaybeVault, active : MaybeVault, info : MaybeVault]
           /\ confs' \subseteq Cmds \cup {"session", "old"} /\ event' \in BOOLEAN
<1> USE TypedNow
<1>0. /\ cmd[c].v \in MaybeVault
      /\ cmd[c].op \in Opening => cmd[c].v \in Vaults
  BY DEF CommandOK, Commands
<1>1. CASE Resolve(c)
  BY <1>0, <1>1 DEF Resolve, At, Opening, MaybeVault
<1>2. CASE Unlock(c)
  BY <1>0, <1>2 DEF Unlock, At, Opening, MaybeVault
<1>3. CASE CreateConf(c)
  BY <1>0, <1>3 DEF CreateConf, ValidateDestination, At, Opening, MaybeVault
<1>4. CASE RecoverConf(c)
  BY <1>0, <1>4 DEF RecoverConf, OwnConf, ProbeHeader, At, Opening, MaybeVault
<1>5. CASE PhraseConf(c)
  BY <1>0, <1>5 DEF PhraseConf, OwnConf, ProbeHeader, At, Opening, MaybeVault
<1>6. CASE CreateDir(c)
  BY <1>0, <1>6 DEF CreateDir, At, Opening, MaybeVault
<1>7. CASE RecoverDir(c)
  BY <1>0, <1>7 DEF RecoverDir, PrepareDir, At, Opening, MaybeVault
<1>8. CASE PhraseDir(c)
  BY <1>0, <1>8 DEF PhraseDir, PrepareDir, At, Opening, MaybeVault
<1>9. CASE Reserve(c)
  BY <1>0, <1>9 DEF Reserve, RemoveDir, Ceremonies, At, Opening, MaybeVault
<1>10. CASE Build(c)
  BY <1>0, <1>10 DEF Build, RemoveDir, Ceremonies, At, Opening, MaybeVault
<1>11. CASE Install(c)
  BY <1>0, <1>11 DEF Install, Ceremonies, At, Opening, MaybeVault
<1>12. CASE WriteHeader(c)
  BY <1>0, <1>12 DEF WriteHeader, RemoveDir, At, Opening, MaybeVault
<1>13. CASE Tidy(c)
  BY <1>0, <1>13 DEF Tidy, DropConf, Ceremonies, At, Opening, MaybeVault
<1>14. CASE Wire(c)
  BY <1>0, <1>14 DEF Wire, WiredTransport, At, Opening, MaybeVault
<1>15. CASE Record(c)
  BY <1>0, <1>15 DEF Record, At, Opening, MaybeVault
<1>16. CASE LockSession(c)
  BY <1>0, <1>16 DEF LockSession, CloseSession, At, Opening, MaybeVault
<1>17. CASE ResetTransport(c)
  BY <1>0, <1>17 DEF ResetTransport, At, Opening, MaybeVault
<1>18. CASE RemoveVault(c)
  BY <1>0, <1>18 DEF RemoveVault, RemoveDir, At, Opening, MaybeVault
<1>19. CASE Forget(c)
  BY <1>0, <1>19 DEF Forget, At, Opening, MaybeVault
<1> QED BY <1>1, <1>2, <1>3, <1>4, <1>5, <1>6, <1>7, <1>8, <1>9, <1>10, <1>11, <1>12, <1>13, <1>14,
           <1>15, <1>16, <1>17, <1>18, <1>19 DEF Working

(* The answers of the commands, of the backend's event and of the status.   *)
LEMMA Answered ==
    ASSUME Typed, NEW c \in Cmds, Answer(c)
    PROVE  /\ Finish(c) /\ UNCHANGED <<disk, opened, gate, app, confs, swept, drive, event>>
           /\ ui' \in Screens /\ nav' \in [Navs -> Listings] /\ status' \in Answers
<1> USE TypedNow
<1>1. Finish(c) /\ UNCHANGED <<disk, opened, gate, app, confs, swept, drive, event>>
  BY DEF Answer
<1>2. CASE ~cmd[c].heard
  BY <1>1, <1>2 DEF Answer
<1>3. CASE OpenedAnswer(c)
  <2>1. cmd[c].v \in Vaults
    BY <1>3 DEF OpenedAnswer, CommandOK
  <2> QED BY <1>1, <1>3, <2>1, Succeeds DEF OpenedAnswer
<1>4. CASE RefusedAnswer(c)
  BY <1>1, <1>4, Refuses DEF RefusedAnswer
<1>5. CASE LockAnswer(c)
  BY <1>1, <1>5, Sets, LockedScreen DEF LockAnswer
<1>6. CASE DeleteAnswer(c)
  BY <1>1, <1>6, Clears, LockedScreen, Nothings DEF DeleteAnswer
<1> QED BY <1>2, <1>3, <1>4, <1>5, <1>6 DEF Answer

LEMMA Delivered ==
    ASSUME Typed, DeliverLocked
    PROVE  /\ event /\ event' = FALSE
           /\ UNCHANGED <<disk, opened, gate, app, confs, swept, drive, cmd, status>>
           /\ ui' \in Screens /\ nav' \in [Navs -> Listings] /\ ~ui'.unlocked
           /\ \/ ~ui.unlocked /\ ui'.listing = ui.listing /\ nav' = nav
              \/ ui'.listing = None /\ (\A n \in Navs : nav'[n].current = FALSE)
<1> DEFINE u == [ui EXCEPT !.unlocked = FALSE, !.vault = None, !.tier = None]
<1>1. u \in Screens /\ ~u.unlocked /\ u.listing = ui.listing
  BY TypedNow DEF Screens, MaybeVault
<1>2. SetSession(u)
  BY DEF DeliverLocked
<1>3. ui.unlocked \in BOOLEAN
  BY TypedNow DEF Screens
<1> HIDE DEF u
<1>4. ui' \in Screens /\ nav' \in [Navs -> Listings] /\ ~ui'.unlocked
  BY <1>1, <1>2, Sets
<1>5. \/ ~ui.unlocked /\ ui'.listing = ui.listing /\ nav' = nav
      \/ ui'.listing = None /\ (\A n \in Navs : nav'[n].current = FALSE)
  BY <1>1, <1>2, <1>3, Sets
<1> QED BY <1>4, <1>5 DEF DeliverLocked

LEMMA StatusAnswered ==
    ASSUME Typed, AnswerStatus
    PROVE  /\ status = Asked /\ status' \in Answers /\ status' # Asked /\ status' # NoStatus
           /\ status'.pc = "answered" /\ status'.vault = opened
           /\ UNCHANGED <<disk, opened, gate, app, confs, swept, drive, cmd, event, ui, nav>>
BY TypedNow DEF AnswerStatus, Answers, MaybeVault, Asked, NoStatus

LEMMA StatusApplied ==
    ASSUME Typed, ApplyStatus
    PROVE  /\ status.pc = "answered" /\ status # NoStatus /\ status # Asked /\ status' = NoStatus
           /\ UNCHANGED <<disk, opened, gate, app, confs, swept, drive, cmd, event>>
           /\ ui' \in Screens /\ nav' \in [Navs -> Listings]
           /\ ui'.unlocked = (status.vault # None)
           /\ ui'.unlocked => ui'.vault = status.vault
           /\ \/ nav' = nav /\ ui'.listing = ui.listing /\ (ui.unlocked => ui'.unlocked)
              \/ ui'.listing = None /\ (\A n \in Navs : nav'[n].current = FALSE)
<1> DEFINE u == [ui EXCEPT !.unlocked = status.vault # None, !.vault = status.vault,
                           !.tier = status.tier]
<1>1. status.vault \in MaybeVault /\ status.tier \in MaybeVault /\ (status.vault # None) \in BOOLEAN
  BY TypedNow DEF Answers
<1>2. /\ u \in Screens /\ u.unlocked = (status.vault # None) /\ u.vault = status.vault
      /\ u.listing = ui.listing
  BY <1>1, TypedNow DEF Screens
<1>3. SetSession(u) /\ status.pc = "answered" /\ status' = NoStatus
  BY DEF ApplyStatus
<1>4. status # NoStatus /\ status # Asked
  BY <1>3 DEF NoStatus, Asked
<1>5. ui.unlocked \in BOOLEAN
  BY TypedNow DEF Screens
<1> HIDE DEF u
<1>6. ui' \in Screens /\ nav' \in [Navs -> Listings] /\ ui'.unlocked = u.unlocked
      /\ (u.unlocked => ui' = u)
  BY <1>2, <1>3, Sets
<1>7. \/ nav' = nav /\ ui'.listing = ui.listing /\ (ui.unlocked => u.unlocked)
      \/ ui'.listing = None /\ (\A n \in Navs : nav'[n].current = FALSE)
  BY <1>2, <1>3, <1>5, Sets
<1> QED BY <1>2, <1>3, <1>4, <1>6, <1>7 DEF ApplyStatus

(* The listings: a call is current only if it was made on this screen.      *)
Listing(n) == Navigate(n) \/ ListDirectory(n) \/ ShowListing(n)

LEMMA Listed ==
    ASSUME Typed, NEW n \in Navs, Listing(n)
    PROVE  /\ UNCHANGED <<disk, opened, gate, app, confs, swept, drive, cmd, event, status>>
           /\ ui' \in Screens /\ nav' \in [Navs -> Listings]
           /\ ui'.unlocked = ui.unlocked /\ ui'.vault = ui.vault /\ ui'.key = ui.key
           /\ \/ ui' = ui
              \/ nav[n].current /\ nav[n].files # None /\ ui'.listing = nav[n].files
           /\ \A m \in Navs : nav'[m].current =>
                 \/ nav'[m] = nav[m]
                 \/ ui.unlocked /\ nav'[m].files = None
                 \/ nav[m].current /\ nav'[m].files = opened
<1> USE TypedNow
<1>1. CASE Navigate(n)
  <2> DEFINE r == [pc |-> "asked", current |-> TRUE, files |-> None]
  <2>1. r \in Listings /\ r.files = None
    BY DEF Listings, MaybeVault
  <2>2. nav' = [DropListing EXCEPT ![n] = r] /\ ui.unlocked
    BY <1>1 DEF Navigate
  <2> HIDE DEF r
  <2>3. nav' \in [Navs -> Listings]
    BY <2>1, <2>2, Drops
  <2>4. ASSUME NEW m \in Navs, nav'[m].current PROVE nav'[m].files = None
    BY <2>1, <2>2, <2>4, Drops
  <2> QED BY <1>1, <2>2, <2>3, <2>4 DEF Navigate
<1>2. CASE ListDirectory(n)
  <2>1. nav[n] \in Listings
    OBVIOUS
  <2> DEFINE r == [nav[n] EXCEPT !.pc = "answered", !.files = opened]
  <2>2. r \in Listings /\ r.files = opened /\ r.current = nav[n].current
    BY <2>1 DEF Listings
  <2>3. nav' = [nav EXCEPT ![n] = r]
    BY <1>2 DEF ListDirectory
  <2> HIDE DEF r
  <2>4. nav' \in [Navs -> Listings] /\ nav'[n] = r /\ \A m \in Navs \ {n} : nav'[m] = nav[m]
    BY <2>2, <2>3
  <2> QED BY <1>2, <2>2, <2>4 DEF ListDirectory
<1>3. CASE ShowListing(n)
  <2>1. nav' \in [Navs -> Listings] /\ nav'[n] = NoNav /\ \A m \in Navs \ {n} : nav'[m] = nav[m]
    BY <1>3, Nothings DEF ShowListing
  <2>2. ASSUME NEW m \in Navs, nav'[m].current PROVE nav'[m] = nav[m]
    BY <2>1, <2>2, Nothings
  <2>3. nav[n].files \in MaybeVault
    BY DEF Listings
  <2>4. /\ ui' \in Screens /\ ui'.unlocked = ui.unlocked /\ ui'.vault = ui.vault /\ ui'.key = ui.key
        /\ \/ ui' = ui
           \/ nav[n].current /\ nav[n].files # None /\ ui'.listing = nav[n].files
    BY <1>3, <2>3 DEF ShowListing, Screens
  <2> QED BY <1>3, <2>1, <2>2, <2>4 DEF ShowListing
<1> QED BY <1>1, <1>2, <1>3 DEF Listing

LEMMA Reloaded ==
    ASSUME Typed, Reload
    PROVE  /\ UNCHANGED <<disk, opened, gate, app, confs, swept, drive, event>>
           /\ ui' = LockedUi /\ nav' = [n \in Navs |-> NoNav] /\ status' = Asked
           /\ cmd' \in [Cmds -> Commands]
           /\ \A c \in Cmds : /\ CommandOK(cmd'[c]) /\ cmd'[c].op = cmd[c].op
                              /\ cmd'[c].v = cmd[c].v /\ cmd'[c].pc = cmd[c].pc
<1>1. \A c \in Cmds : cmd[c] \in Commands /\ CommandOK(cmd[c])
  BY TypedNow
<1>2. ASSUME NEW c \in Cmds
      PROVE  /\ cmd'[c] \in Commands /\ cmd'[c].op = cmd[c].op /\ cmd'[c].v = cmd[c].v
             /\ cmd'[c].pc = cmd[c].pc
  BY <1>1 DEF Reload, Commands
<1>3. \A c \in Cmds : cmd[c].op # "none" => CommandOK(cmd'[c])
  BY <1>1, <1>2 DEF CommandOK
<1>4. ASSUME NEW c \in Cmds, cmd[c].op = "none" PROVE CommandOK(cmd'[c])
  <2>1. cmd'[c] = [NoCmd EXCEPT !.heard = FALSE]
    BY <1>1, <1>4 DEF Reload, CommandOK
  <2>2. cmd'[c] = NoCmd
    BY <2>1 DEF NoCmd
  <2> QED BY <2>2, Nothings
<1>5. cmd' = [c \in Cmds |-> [cmd[c] EXCEPT !.heard = FALSE]]
  BY DEF Reload
<1> QED BY <1>2, <1>3, <1>4, <1>5 DEF Reload, FirstCall

LEMMA Restarted ==
    ASSUME Typed, Restart
    PROVE  /\ UNCHANGED <<disk, drive>>
           /\ opened' = None /\ gate' = None /\ app' = FreshApp /\ confs' \subseteq {"old"}
           /\ swept' = FALSE /\ event' = FALSE /\ status' = Asked
           /\ cmd' = [c \in Cmds |-> NoCmd] /\ ui' = LockedUi /\ nav' = [n \in Navs |-> NoNav]
BY DEF Restart, FirstCall

-----------------------------------------------------------------------------
LEMMA NextCases ==
    ASSUME Next
    PROVE  \/ Paging
           \/ \E c \in Cmds : Beginning(c) \/ Working(c) \/ Answer(c)
           \/ \E n \in Navs : Listing(n)
           \/ Expire \/ DeliverLocked \/ AnswerStatus \/ ApplyStatus \/ Reload \/ Restart \/ Sweep
BY DEF Next, Paging, Beginning, Working, Listing

LEMMA TypeStep ==
    ASSUME Typed, [Next]_vars
    PROVE  Typed'
<1> USE TypedNow
<1>1. CASE Paging
  BY <1>1, Pages, TypedAgain
<1>2. ASSUME NEW c \in Cmds, Beginning(c) PROVE Typed'
  <2>1. PICK op \in Opening \cup Closing, v \in MaybeVault, pc \in Places : Begun(c, op, v, pc)
    BY <1>2, Starting
  <2>2. Begin(c, op, v, pc) /\ (op \in Opening => v \in Vaults)
    BY <2>1 DEF Begun
  <2>3. /\ cmd' \in [Cmds -> Commands] /\ \A d \in Cmds : CommandOK(cmd'[d])
        /\ UNCHANGED <<disk, opened, gate, app, confs, swept, drive, event, status>>
    BY <2>2, Begins
  <2>4. ui' \in Screens /\ nav' \in [Navs -> Listings]
    BY <2>1, Clears DEF Begun, Opening, Closing
  <2> QED BY <2>3, <2>4, TypedAgain
<1>3. ASSUME NEW c \in Cmds, Working(c) PROVE Typed'
  <2>1. PICK pc \in Places : GoTo(c, pc)
    BY <1>3, Working1
  <2>2. UNCHANGED <<swept, drive, status, ui, nav>> /\ cmd[c].op # "none"
    BY <1>3, Working1 DEF Opening, Closing
  <2>3. cmd' \in [Cmds -> Commands] /\ \A d \in Cmds : CommandOK(cmd'[d])
    BY <2>1, <2>2, Steps
  <2> QED BY <1>3, <2>2, <2>3, Working2, TypedAgain
<1>4. ASSUME NEW c \in Cmds, Answer(c) PROVE Typed'
  <2>1. cmd' \in [Cmds -> Commands] /\ \A d \in Cmds : CommandOK(cmd'[d])
    BY <1>4, Answered, Finishes
  <2> QED BY <1>4, <2>1, Answered, TypedAgain
<1>5. ASSUME NEW n \in Navs, Listing(n) PROVE Typed'
  BY <1>5, Listed, TypedAgain
<1>6. CASE Expire
  BY <1>6, TypedAgain DEF Expire, CloseSession, MaybeVault
<1>7. CASE DeliverLocked
  BY <1>7, Delivered, TypedAgain
<1>8. CASE AnswerStatus
  BY <1>8, StatusAnswered, TypedAgain
<1>9. CASE ApplyStatus
  BY <1>9, StatusApplied, Nothings, TypedAgain
<1>10. CASE Reload
  BY <1>10, Reloaded, Nothings, LockedScreen, TypedAgain
<1>11. CASE Restart
  <2>1. cmd' \in [Cmds -> Commands] /\ \A c \in Cmds : CommandOK(cmd'[c])
    BY <1>11, Restarted, Nothings
  <2> QED BY <1>11, <2>1, Restarted, Nothings, LockedScreen, TypedAgain DEF MaybeVault
<1>12. CASE Sweep
  BY <1>12, TypedAgain DEF Sweep
<1>13. CASE UNCHANGED vars
  BY <1>13, TypedAgain DEF vars
<1> QED BY <1>1, <1>2, <1>3, <1>4, <1>5, <1>6, <1>7, <1>8, <1>9, <1>10, <1>11, <1>12, <1>13,
           NextCases

(* Type correctness of the application around a session: no command, event  *)
(* or reload leaves an AppState field, a vault directory or the screen with *)
(* a value its type does not have, whatever else happens meanwhile.         *)
THEOREM TypeCorrect == Spec => []TypeOK
<1>1. Init => Typed
  BY TypeInit
<1>2. Typed /\ [Next]_vars => Typed'
  BY TypeStep
<1>3. Typed => TypeOK
  BY DEF Typed
<1> QED BY <1>1, <1>2, <1>3, PTL DEF Spec

-----------------------------------------------------------------------------
(* The vault directories.                                                   *)

(* Whoever begins finds nobody at work, or logs in beside other logins.     *)
LEMMA BeginsAlone ==
    ASSUME Typed, "again" \notin Perils, NEW c \in Cmds, NEW op \in Opening \cup Closing,
           NEW v \in MaybeVault, NEW pc \in Places, Begun(c, op, v, pc), NEW d \in Cmds \ {c},
           cmd[d].op # "none"
    PROVE  op = "login" /\ cmd[d].op = "login" /\ opened = v /\ ui.key # "none"
<1>1. cmd[d].op \in Opening \cup Closing
  BY TypedNow DEF Commands
<1>2. d \in InFlight(Opening \cup Closing)
  BY <1>1 DEF InFlight
<1>3. op \in Opening
  BY <1>2 DEF Begun
<1> QED BY <1>2, <1>3 DEF Begun, MayOpen

LEMMA SoloStep ==
    ASSUME Typed, Solo, "again" \notin Perils, [Next]_vars
    PROVE  Solo'
<1>1. ASSUME NEW c \in Cmds, Beginning(c) PROVE Solo'
  <2>1. PICK op \in Opening \cup Closing, v \in MaybeVault, pc \in Places : Begun(c, op, v, pc)
    BY <1>1, Starting
  <2>2. Begin(c, op, v, pc) /\ (op \in Opening => v \in Vaults)
    BY <2>1 DEF Begun
  <2>3. cmd'[c].op = op /\ \A d \in Cmds \ {c} : cmd'[d] = cmd[d]
    BY <2>2, Begins
  <2>4. \A d \in Cmds \ {c} : cmd[d].op # "none" => op = "login" /\ cmd[d].op = "login"
    BY <2>1, BeginsAlone
  <2> QED BY <2>3, <2>4 DEF Solo
<1>2. ASSUME NEW c \in Cmds, Working(c) PROVE Solo'
  <2>1. PICK pc \in Places : GoTo(c, pc)
    BY <1>2, Working1
  <2>2. \A d \in Cmds : cmd'[d].op = cmd[d].op
    BY <2>1, Steps
  <2> QED BY <2>2 DEF Solo
<1>3. ASSUME NEW c \in Cmds, Answer(c) PROVE Solo'
  <2>1. cmd'[c].op = "none" /\ \A d \in Cmds \ {c} : cmd'[d] = cmd[d]
    BY <1>3, Answered, Finishes
  <2> QED BY <2>1 DEF Solo
<1>4. CASE UNCHANGED cmd
  BY <1>4 DEF Solo
<1>5. CASE Reload
  <2>1. \A d \in Cmds : cmd'[d].op = cmd[d].op
    BY <1>5, Reloaded
  <2> QED BY <2>1 DEF Solo
<1>6. CASE Restart
  <2>1. \A d \in Cmds : cmd'[d].op = "none"
    BY <1>6, Restarted, Nothings
  <2> QED BY <2>1 DEF Solo
<1>7. Paging \/ (\E n \in Navs : Listing(n)) \/ Expire \/ DeliverLocked \/ AnswerStatus
      \/ ApplyStatus \/ Sweep \/ UNCHANGED vars => UNCHANGED cmd
  BY Pages, Listed, Delivered, StatusAnswered, StatusApplied DEF Expire, Sweep, vars
<1> QED BY <1>1, <1>2, <1>3, <1>4, <1>5, <1>6, <1>7, NextCases

(* What a step leaves of the whole vaults.                                  *)
Keeps(c) == \A v \in Vaults : Complete(v) /\ ~Complete(v)' =>
                At(c, {"delete"}, "remove") /\ cmd[c].v = v

(* A command that touches a directory is no login, so it is alone.          *)
LEMMA OthersBuilt ==
    ASSUME Typed, Solo, NEW c \in Cmds, \A d \in Cmds : Built(d), cmd[c].op # "none",
           \A d \in Cmds \ {c} : cmd'[d] = cmd[d],
           disk' = disk \/ cmd[c].op # "login"
    PROVE  \A d \in Cmds \ {c} : Built(d)'
<1>1. CASE disk' = disk
  BY <1>1 DEF Built
<1>2. CASE cmd[c].op # "login"
  <2>1. \A d \in Cmds \ {c} : cmd'[d].op = "none"
    BY <1>2 DEF Solo
  <2> QED BY <2>1 DEF Built
<1> QED BY <1>1, <1>2

LEMMA OwnBuilt ==
    ASSUME Typed, Solo, NEW c \in Cmds, Built(c), Working(c)
    PROVE  Built(c)' /\ Keeps(c) /\ (disk' = disk \/ cmd[c].op # "login")
<1>0. ASSUME NEW pc \in Places, GoTo(c, pc)
      PROVE  cmd'[c].pc = pc /\ cmd'[c].op = cmd[c].op /\ cmd'[c].v = cmd[c].v
  BY <1>0, Steps
<1>a. /\ cmd[c].op \in Opening => cmd[c].v \in Vaults
      /\ disk \in [Vaults -> SUBSET {"db", "header"}]
  BY TypedNow DEF CommandOK
<1>1. CASE Resolve(c)
  <2>1. disk' = disk
    BY <1>1 DEF Resolve
  <2>2. Built(c)'
    BY <1>0, <1>1, <2>1 DEF Resolve, At, Places, Built, Opening, Closing
  <2> QED BY <2>1, <2>2 DEF Keeps, Complete
<1>2. CASE Unlock(c)
  <2>1. disk' = disk
    BY <1>2 DEF Unlock
  <2>2. Built(c)'
    BY <1>0, <1>2, <2>1 DEF Unlock, At, Places, Built, Opening, Closing
  <2> QED BY <2>1, <2>2 DEF Keeps, Complete
<1>3. CASE CreateConf(c)
  <2>1. disk' = disk
    BY <1>3 DEF CreateConf, ValidateDestination
  <2>2. Built(c)'
    BY <1>0, <1>3, <2>1 DEF CreateConf, ValidateDestination, At, Places, Built, Opening, Closing
  <2> QED BY <2>1, <2>2 DEF Keeps, Complete
<1>4. CASE RecoverConf(c)
  <2>1. disk' = disk
    BY <1>4 DEF RecoverConf, OwnConf, ProbeHeader
  <2>2. Built(c)'
    BY <1>0, <1>4, <2>1 DEF RecoverConf, OwnConf, ProbeHeader, At, Places, Built, Opening, Closing
  <2> QED BY <2>1, <2>2 DEF Keeps, Complete
<1>5. CASE PhraseConf(c)
  <2>1. disk' = disk
    BY <1>5 DEF PhraseConf, OwnConf, ProbeHeader
  <2>2. Built(c)'
    BY <1>0, <1>5, <2>1 DEF PhraseConf, OwnConf, ProbeHeader, At, Places, Built, Opening, Closing
  <2> QED BY <2>1, <2>2 DEF Keeps, Complete
<1>6. CASE CreateDir(c)
  <2>1. disk' = disk
    BY <1>6 DEF CreateDir
  <2>2. Built(c)'
    BY <1>0, <1>6, <2>1 DEF CreateDir, At, Places, Built, Opening, Closing
  <2> QED BY <2>1, <2>2 DEF Keeps, Complete
<1>7. CASE Install(c)
  <2>1. disk' = disk
    BY <1>7 DEF Install, Ceremonies
  <2>2. Built(c)'
    BY <1>0, <1>7, <2>1 DEF Install, Ceremonies, At, Places, Built, Opening, Closing
  <2> QED BY <2>1, <2>2 DEF Keeps, Complete
<1>8. CASE Tidy(c)
  <2>1. disk' = disk
    BY <1>8 DEF Tidy, DropConf, Ceremonies
  <2>2. Built(c)'
    BY <1>0, <1>8, <2>1 DEF Tidy, DropConf, Ceremonies, At, Places, Built, Opening, Closing
  <2> QED BY <2>1, <2>2 DEF Keeps, Complete
<1>9. CASE Wire(c)
  <2>1. disk' = disk
    BY <1>9 DEF Wire
  <2>2. Built(c)'
    BY <1>0, <1>9, <2>1 DEF Wire, At, Places, Built, Opening, Closing
  <2> QED BY <2>1, <2>2 DEF Keeps, Complete
<1>10. CASE Record(c)
  <2>1. disk' = disk
    BY <1>10 DEF Record
  <2>2. Built(c)'
    BY <1>0, <1>10, <2>1 DEF Record, At, Places, Built, Opening, Closing
  <2> QED BY <2>1, <2>2 DEF Keeps, Complete
<1>11. CASE LockSession(c)
  <2>1. disk' = disk
    BY <1>11 DEF LockSession
  <2>2. Built(c)'
    BY <1>0, <1>11, <2>1 DEF LockSession, At, Places, Built, Opening, Closing
  <2> QED BY <2>1, <2>2 DEF Keeps, Complete
<1>12. CASE ResetTransport(c)
  <2>1. disk' = disk
    BY <1>12 DEF ResetTransport
  <2>2. Built(c)'
    BY <1>0, <1>12, <2>1 DEF ResetTransport, At, Places, Built, Opening, Closing
  <2> QED BY <2>1, <2>2 DEF Keeps, Complete
<1>13. CASE Forget(c)
  <2>1. disk' = disk
    BY <1>13 DEF Forget
  <2>2. Built(c)'
    BY <1>0, <1>13, <2>1 DEF Forget, At, Places, Built, Opening, Closing
  <2> QED BY <2>1, <2>2 DEF Keeps, Complete
<1>14. CASE RecoverDir(c)
  <2>1. Built(c)'
    BY <1>0, <1>a, <1>14 DEF RecoverDir, PrepareDir, AlreadyHere, At, Complete, Places, Built,
       Opening, Closing
  <2>2. Keeps(c)
    BY <1>a, <1>14 DEF RecoverDir, PrepareDir, AlreadyHere, At, Complete, Keeps, Built, Opening
  <2> QED BY <1>14, <2>1, <2>2 DEF RecoverDir, At
<1>15. CASE PhraseDir(c)
  <2>1. Built(c)'
    BY <1>0, <1>a, <1>15 DEF PhraseDir, PrepareDir, AlreadyHere, At, Complete, Places, Built,
       Opening, Closing
  <2>2. Keeps(c)
    BY <1>a, <1>15 DEF PhraseDir, PrepareDir, AlreadyHere, At, Complete, Keeps, Built, Opening
  <2> QED BY <1>15, <2>1, <2>2 DEF PhraseDir, At
<1>16. CASE Reserve(c)
  <2>1. Built(c)'
    BY <1>0, <1>a, <1>16 DEF Reserve, RemoveDir, Ceremonies, At, Complete, Places, Built, Opening,
       Closing
  <2>2. Keeps(c)
    BY <1>a, <1>16 DEF Reserve, RemoveDir, Ceremonies, At, Complete, Keeps, Built, Opening
  <2> QED BY <1>16, <2>1, <2>2 DEF Reserve, At, Ceremonies
<1>17. CASE Build(c)
  <2>1. Built(c)'
    BY <1>0, <1>a, <1>17 DEF Build, RemoveDir, Ceremonies, At, Complete, Places, Built, Opening,
       Closing
  <2>2. Keeps(c)
    BY <1>a, <1>17 DEF Build, RemoveDir, Ceremonies, At, Complete, Keeps, Built, Opening
  <2> QED BY <1>17, <2>1, <2>2 DEF Build, At, Ceremonies
<1>18. CASE WriteHeader(c)
  <2>1. Built(c)'
    BY <1>0, <1>a, <1>18 DEF WriteHeader, RemoveDir, At, Complete, Places, Built, Opening, Closing
  <2>2. Keeps(c)
    BY <1>a, <1>18 DEF WriteHeader, RemoveDir, At, Complete, Keeps, Built, Opening
  <2> QED BY <1>18, <2>1, <2>2 DEF WriteHeader, At
<1>19. CASE RemoveVault(c)
  <2>1. Built(c)'
    BY <1>0, <1>a, <1>19 DEF RemoveVault, RemoveDir, At, Complete, Places, Built, Opening, Closing
  <2>2. Keeps(c)
    BY <1>a, <1>19 DEF RemoveVault, RemoveDir, At, Complete, Keeps, Built, Opening
  <2> QED BY <1>19, <2>1, <2>2 DEF RemoveVault, At
<1> QED BY <1>1, <1>2, <1>3, <1>4, <1>5, <1>6, <1>7, <1>8, <1>9, <1>10, <1>11, <1>12, <1>13, <1>14,
           <1>15, <1>16, <1>17, <1>18, <1>19 DEF Working

LEMMA DiskStep ==
    ASSUME DiskInv, "again" \notin Perils, [Next]_vars
    PROVE  DiskInv'
<1> USE DEF DiskInv
<1>1. Typed' /\ Solo'
  BY TypeStep, SoloStep
<1>2. ASSUME NEW c \in Cmds, Beginning(c) PROVE \A d \in Cmds : Built(d)'
  <2>1. PICK op \in Opening \cup Closing, v \in MaybeVault, pc \in Places : Begun(c, op, v, pc)
    BY <1>2, Starting
  <2>2. Begin(c, op, v, pc) /\ (op \in Opening => v \in Vaults)
    BY <2>1 DEF Begun
  <2>3. /\ cmd'[c].op = op /\ cmd'[c].pc = pc /\ cmd'[c].v = v
        /\ disk' = disk /\ \A d \in Cmds \ {c} : cmd'[d] = cmd[d]
    BY <2>2, Begins
  <2>4. op \in Ceremonies => pc = "conf"
    BY <2>1 DEF Begun
  <2>5. op = "create" => disk[v] = {}
    BY <2>1 DEF Begun
  <2>6. Built(c)'
    BY <2>3, <2>4, <2>5 DEF Built, Ceremonies
  <2> QED BY <2>3, <2>6 DEF Built
<1>3. ASSUME NEW c \in Cmds, Working(c) PROVE \A d \in Cmds : Built(d)'
  <2>1. PICK pc \in Places : GoTo(c, pc)
    BY <1>3, Working1
  <2>2. cmd[c].op # "none"
    BY <1>3, Working1 DEF Opening, Closing
  <2>3. \A d \in Cmds \ {c} : cmd'[d] = cmd[d]
    BY <2>1, Steps
  <2>4. Built(c)' /\ (disk' = disk \/ cmd[c].op # "login")
    BY <1>3, OwnBuilt
  <2> QED BY <2>2, <2>3, <2>4, OthersBuilt
<1>4. ASSUME NEW c \in Cmds, Answer(c) PROVE \A d \in Cmds : Built(d)'
  <2>1. /\ cmd'[c].op = "none" /\ \A d \in Cmds \ {c} : cmd'[d] = cmd[d]
        /\ disk' = disk
    BY <1>4, Answered, Finishes
  <2> QED BY <2>1 DEF Built
<1>5. CASE UNCHANGED <<cmd, disk>>
  BY <1>5, <1>1 DEF Built
<1>6. CASE Reload
  <2>1. /\ disk' = disk
        /\ \A d \in Cmds : /\ cmd'[d].op = cmd[d].op /\ cmd'[d].v = cmd[d].v
                           /\ cmd'[d].pc = cmd[d].pc
    BY <1>6, Reloaded
  <2> QED BY <1>1, <2>1 DEF Built
<1>7. CASE Restart
  <2>1. \A d \in Cmds : cmd'[d].op = "none"
    BY <1>7, Restarted, Nothings
  <2> QED BY <1>1, <2>1 DEF Built
<1>8. Paging \/ (\E n \in Navs : Listing(n)) \/ Expire \/ DeliverLocked \/ AnswerStatus
      \/ ApplyStatus \/ Sweep \/ UNCHANGED vars => UNCHANGED <<cmd, disk>>
  BY Pages, Listed, Delivered, StatusAnswered, StatusApplied DEF Expire, Sweep, vars
<1> QED BY <1>1, <1>2, <1>3, <1>4, <1>5, <1>6, <1>7, <1>8, NextCases

LEMMA DiskInit ==
    ASSUME Init
    PROVE  DiskInv
<1>1. Typed
  BY TypeInit
<1>2. \A c \in Cmds : cmd[c].op = "none"
  BY Nothings DEF Init
<1> QED BY <1>1, <1>2 DEF DiskInv, Solo, Built

(* The step of VaultsKept.                                                  *)
KeepsWhole ==
    \A v \in Vaults : Complete(v) /\ ~Complete(v)' =>
        \E c \in Cmds : At(c, {"delete"}, "remove") /\ cmd[c].v = v

LEMMA KeepStep ==
    ASSUME DiskInv, [Next]_vars
    PROVE  KeepsWhole
<1> USE DEF DiskInv
<1>1. CASE disk' = disk
  BY <1>1 DEF KeepsWhole, Complete
<1>2. ASSUME NEW c \in Cmds, Working(c) PROVE KeepsWhole
  BY <1>2, OwnBuilt DEF KeepsWhole, Keeps
<1>3. ASSUME NEW c \in Cmds, Beginning(c) PROVE disk' = disk
  <2>1. PICK op \in Opening \cup Closing, v \in MaybeVault, pc \in Places : Begun(c, op, v, pc)
    BY <1>3, Starting
  <2> QED BY <2>1 DEF Begun, Begin
<1>4. Paging \/ (\E c \in Cmds : Answer(c)) \/ (\E n \in Navs : Listing(n)) \/ Expire
      \/ DeliverLocked \/ AnswerStatus \/ ApplyStatus \/ Reload \/ Restart \/ Sweep
      \/ UNCHANGED vars => disk' = disk
  BY Pages, Answered, Listed, Delivered, StatusAnswered, StatusApplied, Reloaded, Restarted
     DEF Expire, Sweep, vars
<1> QED BY <1>1, <1>2, <1>3, <1>4, NextCases

(* A whole vault on this device goes away only by its delete_vault: a       *)
(* ceremony that fails, is repeated or is cut off by a restart wipes no     *)
(* directory but the one it was itself building.  It takes one command at   *)
(* a time on the pages (two logins apart); a clock, a drive, a reload, a    *)
(* failing tail or a slow scan may strike anywhere.                         *)
THEOREM WholeVaultsKept ==
    ASSUME "again" \notin Perils
    PROVE  Spec => VaultsKept
<1>1. Init => DiskInv
  BY DiskInit
<1>2. DiskInv /\ [Next]_vars => DiskInv'
  BY DiskStep
<1>3. DiskInv /\ [Next]_vars => [KeepsWhole]_vars
  BY KeepStep
<1>4. Spec => []DiskInv /\ [][Next]_vars
  BY <1>1, <1>2, PTL DEF Spec
<1>5. Spec => [][KeepsWhole]_vars
  BY <1>3, <1>4, PTL
<1> QED BY <1>5 DEF VaultsKept, KeepsWhole

-----------------------------------------------------------------------------
(* The screen, while no page starts a second command, no clock runs out     *)
(* before the page has its answer, no page is loaded again meanwhile and no *)
(* header fails to be written.                                              *)
Calm == Perils \cap {"again", "late", "reload", "fail_tail"} = {}

LEMMA SameView ==
    ASSUME ScreenInv, DiskInv', UNCHANGED <<disk, opened, cmd, event, status>>,
           ui'.unlocked = ui.unlocked, ui'.vault = ui.vault
    PROVE  ScreenInv'
<1>1. \A c \in Cmds : OpensOwn(c)'
  BY DEF ScreenInv, OpensOwn, Complete
<1>2. WholeOnDisk' /\ Together' /\ StatusFresh'
  BY DEF ScreenInv, WholeOnDisk, Complete, Together, StatusFresh
<1>3. Shown' /\ UiTruthful' /\ (ui.unlocked => ui.vault # None)' /\ (event => opened = None)'
  BY DEF ScreenInv, Shown, UiTruthful
<1> QED BY <1>1, <1>2, <1>3 DEF ScreenInv

LEMMA NobodyInFlight ==
    ASSUME Typed, InFlight(Opening \cup Closing) = {}
    PROVE  \A c \in Cmds : cmd[c].op = "none"
BY TypedNow DEF InFlight, Commands

LEMMA ScreenBegins ==
    ASSUME ScreenInv, DiskInv', Calm, NEW c \in Cmds, Beginning(c)
    PROVE  ScreenInv'
<1>0. Typed
  BY DEF ScreenInv, DiskInv
<1>1. PICK op \in Opening \cup Closing, v \in MaybeVault, pc \in Places : Begun(c, op, v, pc)
  BY <1>0, Starting
<1>2. Begin(c, op, v, pc) /\ (op \in Opening => v \in Vaults)
  BY <1>1 DEF Begun
<1>3. /\ cmd[c].op = "none" /\ cmd[c] = NoCmd
      /\ cmd'[c].op = op /\ cmd'[c].pc = pc /\ cmd'[c].v = v /\ cmd'[c].heard = TRUE
      /\ \A d \in Cmds \ {c} : cmd'[d] = cmd[d]
      /\ UNCHANGED <<disk, opened, gate, app, confs, swept, drive, event, status>>
  BY <1>0, <1>2, Begins
<1>4. \A d \in Cmds \ {c} : cmd[d].op # "none" =>
          op = "login" /\ cmd[d].op = "login" /\ opened = v /\ ui.key # "none"
  BY <1>0, <1>1, BeginsAlone DEF Calm
<1>5. status = NoStatus
  <2>1. CASE op \in Opening
    BY <1>1, <2>1 DEF Begun, MayOpen, Calm
  <2>2. CASE op \in Closing
    BY <1>1, <2>2 DEF Begun, ScreenInv, StatusFresh
  <2> QED BY <2>1, <2>2
<1>6. ui'.unlocked = ui.unlocked /\ ui'.vault = ui.vault
  <2>1. ui \in Screens
    BY <1>0, TypedNow
  <2> QED BY <1>0, <1>1, <2>1, Clears DEF Begun, Opening, Closing
<1>7. Together'
  BY <1>2, <1>3, <1>4, AppShellConstants DEF Together, ScreenInv, Opening
<1>8. op \in Opening /\ (\A d \in Cmds : cmd[d].op = "none") => opened = None
  BY <1>1, <1>5 DEF Begun, MayOpen, ScreenInv, Shown
<1>9. OpensOwn(c)'
  <2>1. CASE op = "login"
    <3>1. pc = IF ui.key = "none" THEN "failed" ELSE "resolve"
      BY <1>1, <2>1 DEF Begun
    <3>2. CASE \A d \in Cmds : cmd[d].op = "none"
      BY <1>3, <1>8, <2>1, <3>1, <3>2 DEF OpensOwn, Opening, Closing, Before, After
    <3>3. CASE \E d \in Cmds : cmd[d].op # "none"
      <4>1. opened = v /\ pc = "resolve"
        BY <1>3, <1>4, <3>1, <3>3
      <4> QED BY <1>3, <2>1, <4>1 DEF OpensOwn, Opening, Closing, Before, After
    <3> QED BY <3>2, <3>3
  <2>2. CASE op \in Opening \ {"login"}
    <3>1. opened = None
      BY <1>3, <1>4, <1>8, <2>2
    <3>2. (op = "phrase" /\ pc = "resolve") \/ pc = "conf"
      BY <1>1, <2>2 DEF Begun, Opening, Ceremonies
    <3> QED BY <1>3, <2>2, <3>1, <3>2 DEF OpensOwn, Opening, Closing, Before, After
  <2>3. CASE op \in Closing
    <3>1. pc = "lock" \/ (opened = None /\ pc = "failed")
      BY <1>1, <2>3 DEF Begun, Closing
    <3> QED BY <1>3, <2>3, <3>1 DEF OpensOwn, Opening, Closing
  <2> QED BY <2>1, <2>2, <2>3
<1>10. \A d \in Cmds \ {c} : OpensOwn(d)'
  BY <1>3 DEF ScreenInv, OpensOwn, Complete
<1>11. WholeOnDisk'
  <2>1. cmd[c].pc # "header"
    BY <1>3 DEF NoCmd
  <2>2. (\A d \in Cmds : cmd'[d].pc # "header") => \A d \in Cmds : cmd[d].pc # "header"
    BY <1>3, <2>1
  <2> QED BY <1>3, <2>2 DEF ScreenInv, WholeOnDisk, Complete
<1>12. StatusFresh' /\ Shown'
  <2>1. cmd'[c].op # "none"
    BY <1>3 DEF Opening, Closing
  <2> QED BY <1>3, <1>5, <2>1 DEF StatusFresh, Shown
<1>13. UiTruthful' /\ (ui.unlocked => ui.vault # None)' /\ (event => opened = None)'
  BY <1>3, <1>6 DEF ScreenInv, UiTruthful
<1> QED BY <1>7, <1>9, <1>10, <1>11, <1>12, <1>13 DEF ScreenInv

(* The steps of a command in flight leave the rest of the view alone, or    *)
(* the command is the only one.                                             *)
Alone(c) == \A d \in Cmds \ {c} : cmd[d].op = "none"
LEMMA OthersOpen ==
    ASSUME ScreenInv, NEW c \in Cmds, \A d \in Cmds \ {c} : cmd'[d] = cmd[d],
           Alone(c) \/ UNCHANGED <<disk, opened, event>>
    PROVE  \A d \in Cmds \ {c} : OpensOwn(d)'
<1>1. CASE UNCHANGED <<disk, opened, event>>
  BY <1>1 DEF ScreenInv, OpensOwn, Complete
<1>2. CASE Alone(c)
  <2>1. ASSUME NEW d \in Cmds \ {c} PROVE cmd'[d] = NoCmd
    BY <1>2, <2>1, TypedNow DEF ScreenInv, DiskInv, Alone, CommandOK
  <2> QED BY <2>1 DEF OpensOwn, NoCmd, Opening, Closing
<1> QED BY <1>1, <1>2

LEMMA AloneUnlessLogin ==
    ASSUME ScreenInv, NEW c \in Cmds, cmd[c].op # "none", cmd[c].op # "login" \/ opened = None
    PROVE  Alone(c)
BY DEF ScreenInv, DiskInv, Solo, Together, Alone


(* What one step of a command must show of itself.                          *)
Moves(c) ==
    /\ OpensOwn(c)' /\ (Alone(c) \/ UNCHANGED <<disk, opened, event>>)
    /\ cmd[c].pc = "header" => Alone(c)
    /\ opened' # None /\ cmd'[c].pc # "header" =>
          Complete(opened)' \/ (cmd[c].pc # "header" /\ UNCHANGED <<disk, opened>>)
    /\ opened' = opened \/ (opened' = None /\ event') \/ (opened = None /\ ~event)
    /\ event' => opened' = None
    /\ event => event'

LEMMA ScreenMoves ==
    ASSUME ScreenInv, DiskInv', NEW c \in Cmds, Working(c), Moves(c)
    PROVE  ScreenInv'
<1>0. Typed
  BY DEF ScreenInv, DiskInv
<1>1. PICK pc \in Places : GoTo(c, pc)
  BY <1>0, Working1
<1>2. cmd[c].op # "none" /\ UNCHANGED <<status, ui, nav>>
  BY <1>0, Working1 DEF Opening, Closing
<1>3. /\ cmd'[c].op = cmd[c].op /\ cmd'[c].v = cmd[c].v
      /\ \A d \in Cmds \ {c} : cmd'[d] = cmd[d]
  BY <1>0, <1>1, Steps
<1>4. status = NoStatus
  BY <1>2 DEF ScreenInv, StatusFresh
<1>5. \A d \in Cmds : OpensOwn(d)'
  BY <1>3, OthersOpen DEF Moves
<1>6. Together'
  BY <1>2, <1>3 DEF ScreenInv, Together, Moves, Alone
<1>7. WholeOnDisk'
  <2>1. SUFFICES ASSUME opened' # None, \A d \in Cmds : cmd'[d].pc # "header"
                 PROVE  Complete(opened)'
    BY DEF WholeOnDisk
  <2>2. CASE cmd[c].pc # "header" /\ UNCHANGED <<disk, opened>>
    BY <1>3, <2>1, <2>2 DEF ScreenInv, WholeOnDisk, Complete
  <2> QED BY <2>1, <2>2 DEF Moves
<1>8. StatusFresh' /\ Shown'
  BY <1>2, <1>3, <1>4 DEF StatusFresh, Shown
<1>9. UiTruthful' /\ (ui.unlocked => ui.vault # None)' /\ (event => opened = None)'
  BY <1>2 DEF ScreenInv, UiTruthful, Moves
<1> QED BY <1>5, <1>6, <1>7, <1>8, <1>9 DEF ScreenInv

LEMMA ScreenWorks ==
    ASSUME ScreenInv, Calm, NEW c \in Cmds, Working(c)
    PROVE  Moves(c)
<1>0. Typed /\ Built(c) /\ OpensOwn(c) /\ WholeOnDisk /\ (event => opened = None)
  BY DEF ScreenInv, DiskInv
<1>1. ASSUME NEW pc \in Places, GoTo(c, pc)
      PROVE  /\ cmd'[c].pc = pc /\ cmd'[c].op = cmd[c].op /\ cmd'[c].v = cmd[c].v
             /\ cmd'[c].heard = cmd[c].heard
  BY <1>0, <1>1, Steps
<1>2. /\ cmd[c].op \in Opening => cmd[c].v \in Vaults
      /\ cmd[c].op \in Opening \cup Closing /\ opened \in MaybeVault
      /\ disk \in [Vaults -> SUBSET {"db", "header"}] /\ event \in BOOLEAN
  BY <1>0, TypedNow, Working1 DEF CommandOK
<1>3. cmd[c].op # "login" \/ opened = None => Alone(c)
  BY <1>2, AloneUnlessLogin DEF Opening, Closing
<1> USE DEF Before, After, Opening, Closing, At, Places
<1>4. CASE CreateConf(c)
  <2>1. UNCHANGED <<disk, opened, event>> /\ cmd[c].pc # "header"
    BY <1>4 DEF CreateConf, ValidateDestination
  <2>2. OpensOwn(c)'
    BY <1>0, <1>1, <1>4, <2>1 DEF CreateConf, ValidateDestination, OpensOwn
  <2> QED BY <1>0, <2>1, <2>2 DEF Moves
<1>5. CASE RecoverConf(c)
  <2>1. UNCHANGED <<disk, opened, event>> /\ cmd[c].pc # "header"
    BY <1>5 DEF RecoverConf, OwnConf, ProbeHeader
  <2>2. OpensOwn(c)'
    BY <1>0, <1>1, <1>5, <2>1 DEF RecoverConf, OwnConf, ProbeHeader, OpensOwn
  <2> QED BY <1>0, <2>1, <2>2 DEF Moves
<1>6. CASE PhraseConf(c)
  <2>1. UNCHANGED <<disk, opened, event>> /\ cmd[c].pc # "header"
    BY <1>6 DEF PhraseConf, OwnConf, ProbeHeader
  <2>2. OpensOwn(c)'
    BY <1>0, <1>1, <1>6, <2>1 DEF PhraseConf, OwnConf, ProbeHeader, OpensOwn
  <2> QED BY <1>0, <2>1, <2>2 DEF Moves
<1>7. CASE CreateDir(c)
  <2>1. UNCHANGED <<disk, opened, event>> /\ cmd[c].pc # "header"
    BY <1>7 DEF CreateDir
  <2>2. OpensOwn(c)'
    BY <1>0, <1>1, <1>7, <2>1 DEF CreateDir, OpensOwn
  <2> QED BY <1>0, <2>1, <2>2 DEF Moves
<1>8. CASE Tidy(c)
  <2>1. UNCHANGED <<disk, opened, event>> /\ cmd[c].pc # "header"
    BY <1>8 DEF Tidy, DropConf, Ceremonies
  <2>2. OpensOwn(c)'
    BY <1>0, <1>1, <1>8, <2>1 DEF Tidy, DropConf, Ceremonies, OpensOwn
  <2> QED BY <1>0, <2>1, <2>2 DEF Moves
<1>9. CASE Wire(c)
  <2>1. UNCHANGED <<disk, opened, event>> /\ cmd[c].pc # "header"
    BY <1>9 DEF Wire
  <2>2. OpensOwn(c)'
    BY <1>0, <1>1, <1>9, <2>1 DEF Wire, OpensOwn
  <2> QED BY <1>0, <2>1, <2>2 DEF Moves
<1>10. CASE Record(c)
  <2>1. UNCHANGED <<disk, opened, event>> /\ cmd[c].pc # "header"
    BY <1>10 DEF Record
  <2>2. OpensOwn(c)'
    BY <1>0, <1>1, <1>10, <2>1 DEF Record, OpensOwn
  <2> QED BY <1>0, <2>1, <2>2 DEF Moves
<1>11. CASE ResetTransport(c)
  <2>1. UNCHANGED <<disk, opened, event>> /\ cmd[c].pc # "header"
    BY <1>11 DEF ResetTransport
  <2>2. OpensOwn(c)'
    BY <1>0, <1>1, <1>11, <2>1 DEF ResetTransport, OpensOwn
  <2> QED BY <1>0, <2>1, <2>2 DEF Moves
<1>12. CASE Forget(c)
  <2>1. UNCHANGED <<disk, opened, event>> /\ cmd[c].pc # "header"
    BY <1>12 DEF Forget
  <2>2. OpensOwn(c)'
    BY <1>0, <1>1, <1>12, <2>1 DEF Forget, OpensOwn
  <2> QED BY <1>0, <2>1, <2>2 DEF Moves
<1>13. CASE RecoverDir(c)
  <2>1. UNCHANGED <<opened, event>> /\ cmd[c].pc # "header" /\ cmd[c].op # "login"
    BY <1>13 DEF RecoverDir, PrepareDir
  <2>2. opened = None
    BY <1>0, <1>13 DEF RecoverDir, PrepareDir, OpensOwn
  <2>3. OpensOwn(c)'
    BY <1>0, <1>1, <1>13, <2>1, <2>2 DEF RecoverDir, PrepareDir, OpensOwn
  <2> QED BY <1>0, <1>3, <2>1, <2>2, <2>3 DEF Moves
<1>14. CASE PhraseDir(c)
  <2>1. UNCHANGED <<opened, event>> /\ cmd[c].pc # "header" /\ cmd[c].op # "login"
    BY <1>14 DEF PhraseDir, PrepareDir
  <2>2. opened = None
    BY <1>0, <1>14 DEF PhraseDir, PrepareDir, OpensOwn
  <2>3. OpensOwn(c)'
    BY <1>0, <1>1, <1>14, <2>1, <2>2 DEF PhraseDir, PrepareDir, OpensOwn
  <2> QED BY <1>0, <1>3, <2>1, <2>2, <2>3 DEF Moves
<1>15. CASE Reserve(c)
  <2>1. UNCHANGED <<opened, event>> /\ cmd[c].pc # "header" /\ cmd[c].op # "login"
    BY <1>15 DEF Reserve, Ceremonies, Calm
  <2>2. opened = None
    BY <1>0, <1>15 DEF Reserve, Ceremonies, Calm, OpensOwn
  <2>3. OpensOwn(c)'
    BY <1>0, <1>1, <1>15, <2>1, <2>2 DEF Reserve, Ceremonies, Calm, OpensOwn
  <2> QED BY <1>0, <1>3, <2>1, <2>2, <2>3 DEF Moves
<1>16. CASE Build(c)
  <2>1. UNCHANGED <<opened, event>> /\ cmd[c].pc # "header" /\ cmd[c].op # "login"
    BY <1>16 DEF Build, Ceremonies
  <2>2. opened = None
    BY <1>0, <1>16 DEF Build, Ceremonies, OpensOwn
  <2>3. OpensOwn(c)'
    BY <1>0, <1>1, <1>16, <2>1, <2>2 DEF Build, Ceremonies, OpensOwn
  <2> QED BY <1>0, <1>3, <2>1, <2>2, <2>3 DEF Moves
<1>17. CASE RemoveVault(c)
  <2>1. UNCHANGED <<opened, event>> /\ cmd[c].pc # "header" /\ cmd[c].op # "login"
    BY <1>17 DEF RemoveVault
  <2>2. opened = None
    BY <1>0, <1>17 DEF RemoveVault, OpensOwn
  <2>3. OpensOwn(c)'
    BY <1>0, <1>1, <1>17, <2>1, <2>2 DEF RemoveVault, OpensOwn
  <2> QED BY <1>0, <1>3, <2>1, <2>2, <2>3 DEF Moves
<1>30. CASE Resolve(c)
  <2>1. UNCHANGED <<disk, opened, event>> /\ cmd[c].pc # "header"
    BY <1>30 DEF Resolve
  <2>2. CASE Complete(cmd[c].v)
    <3>1. OpensOwn(c)'
      BY <1>0, <1>1, <1>30, <2>1, <2>2 DEF Resolve, OpensOwn, Complete
    <3> QED BY <1>0, <2>1, <3>1 DEF Moves
  <2>3. CASE ~Complete(cmd[c].v)
    <3>1. opened = None
      <4>1. SUFFICES ASSUME opened # None PROVE FALSE
        OBVIOUS
      <4>2. cmd[c].op = "login" /\ opened = cmd[c].v
        BY <1>0, <1>30, <4>1 DEF Resolve, OpensOwn
      <4>3. \A d \in Cmds : cmd[d].pc # "header"
        <5>1. ASSUME NEW d \in Cmds, cmd[d].pc = "header" PROVE FALSE
          <6>1. cmd[d].op = "recover_phrase"
            BY <5>1 DEF ScreenInv, OpensOwn
          <6> QED BY <4>2, <6>1 DEF ScreenInv, DiskInv, Solo
        <5> QED BY <5>1
      <4> QED BY <1>0, <2>3, <4>1, <4>2, <4>3 DEF WholeOnDisk
    <3>2. OpensOwn(c)'
      BY <1>0, <1>1, <1>30, <2>1, <2>3, <3>1 DEF Resolve, OpensOwn
    <3> QED BY <1>0, <2>1, <3>1, <3>2 DEF Moves
  <2> QED BY <2>2, <2>3
<1>31. CASE Unlock(c)
  <2>1. UNCHANGED <<disk, event>> /\ cmd[c].pc # "header" /\ ~event
    BY <1>31 DEF Unlock, Calm
  <2>2. CASE opened = None /\ opened' = cmd[c].v /\ GoTo(c, "wire")
    <3>1. OpensOwn(c)'
      BY <1>0, <1>1, <1>31, <2>1, <2>2 DEF Unlock, OpensOwn
    <3>2. Complete(opened)'
      BY <1>0, <1>31, <2>1, <2>2 DEF Unlock, OpensOwn, Complete
    <3> QED BY <1>3, <2>1, <2>2, <3>1, <3>2 DEF Moves
  <2>3. CASE GoTo(c, IF opened = None THEN "failed" ELSE "already_open") /\ UNCHANGED opened
    <3>1. OpensOwn(c)'
      BY <1>0, <1>1, <1>31, <2>1, <2>3 DEF Unlock, OpensOwn
    <3> QED BY <1>0, <2>1, <2>3, <3>1 DEF Moves
  <2> QED BY <1>31, <2>2, <2>3 DEF Unlock
<1>32. CASE Install(c)
  <2>1. /\ UNCHANGED <<disk, event>> /\ cmd[c].pc # "header" /\ cmd[c].op # "login"
        /\ opened' = cmd[c].v /\ opened = None /\ ~event
    BY <1>0, <1>32 DEF Install, OpensOwn, Ceremonies
  <2>2. OpensOwn(c)'
    BY <1>0, <1>1, <1>32, <2>1 DEF Install, OpensOwn, Ceremonies
  <2>3. cmd'[c].pc # "header" => Complete(opened)'
    BY <1>0, <1>1, <1>32, <2>1 DEF Install, Built, Complete, Ceremonies
  <2> QED BY <1>3, <2>1, <2>2, <2>3 DEF Moves
<1>33. CASE WriteHeader(c)
  <2>1. /\ UNCHANGED <<opened, event>> /\ cmd[c].op # "login" /\ cmd'[c].pc = "tidy"
        /\ cmd[c].op = "recover_phrase" /\ cmd[c].pc = "header"
        /\ disk' = [disk EXCEPT ![cmd[c].v] = disk[cmd[c].v] \cup {"header"}]
    BY <1>1, <1>33 DEF WriteHeader, Calm
  <2>2. OpensOwn(c)'
    BY <1>0, <1>1, <1>33, <2>1 DEF WriteHeader, Calm, OpensOwn
  <2>3. opened' = cmd[c].v
    BY <1>0, <2>1 DEF OpensOwn
  <2>4. Complete(opened)'
    BY <1>0, <1>2, <2>1, <2>3 DEF Built, Complete
  <2> QED BY <1>0, <1>3, <2>1, <2>2, <2>4 DEF Moves
<1>34. CASE LockSession(c)
  <2>1. /\ opened' = None /\ event' = (event \/ opened # None) /\ cmd[c].op # "login"
        /\ cmd[c].pc # "header" /\ cmd'[c].pc = "reset"
    BY <1>1, <1>34 DEF LockSession, CloseSession
  <2>2. OpensOwn(c)'
    BY <1>0, <1>1, <1>34, <2>1 DEF LockSession, OpensOwn
  <2>3. opened = None \/ event' = TRUE
    BY <2>1
  <2> QED BY <1>2, <1>3, <2>1, <2>2, <2>3 DEF Moves
<1> QED BY <1>4, <1>5, <1>6, <1>7, <1>8, <1>9, <1>10, <1>11, <1>12, <1>13, <1>14, <1>15, <1>16,
           <1>17, <1>30, <1>31, <1>32, <1>33, <1>34 DEF Working

LEMMA ScreenAnswers ==
    ASSUME ScreenInv, DiskInv', NEW c \in Cmds, Answer(c)
    PROVE  ScreenInv'
<1>0. Typed /\ OpensOwn(c)
  BY DEF ScreenInv, DiskInv
<1>1. Finish(c) /\ UNCHANGED <<disk, opened, gate, app, confs, swept, drive, event>>
  BY <1>0, Answered
<1>2. /\ cmd'[c].op = "none" /\ cmd'[c] = NoCmd /\ cmd'[c].pc = "idle"
      /\ \A d \in Cmds \ {c} : cmd'[d] = cmd[d]
  BY <1>0, <1>1, Finishes
<1>3. cmd[c].pc \in {"done", "failed", "already_open"}
  BY DEF Answer
<1>4. cmd[c].op # "none"
  BY <1>0, <1>3, TypedNow DEF CommandOK, NoCmd
<1>5. status = NoStatus /\ cmd[c].heard
  BY <1>0, <1>4 DEF ScreenInv, StatusFresh, OpensOwn
<1>6. \A d \in Cmds : OpensOwn(d)'
  <2>1. OpensOwn(c)'
    BY <1>2 DEF OpensOwn, Opening, Closing
  <2>2. \A d \in Cmds \ {c} : OpensOwn(d)'
    BY <1>1, <1>2 DEF OpensOwn, ScreenInv, Complete
  <2> QED BY <2>1, <2>2
<1>7. Together' /\ WholeOnDisk' /\ (event => opened = None)'
  <2>1. Together'
    BY <1>1, <1>2 DEF Together, ScreenInv
  <2>2. cmd[c].pc # "header"
    BY <1>3
  <2>3. (\A d \in Cmds : cmd'[d].pc # "header") => \A d \in Cmds : cmd[d].pc # "header"
    BY <1>2, <2>2
  <2> QED BY <1>1, <2>1, <2>3 DEF WholeOnDisk, ScreenInv, Complete
<1> DEFINE Screen == StatusFresh' /\ Shown' /\ UiTruthful' /\ (ui.unlocked => ui.vault # None)'
<1>8. ASSUME opened = None, ~ui'.unlocked \/ ui' = ui, status' = status PROVE Screen
  BY <1>1, <1>5, <1>8 DEF StatusFresh, Shown, UiTruthful, ScreenInv
<1>9. CASE OpenedAnswer(c)
  <2>1. cmd[c].v \in Vaults /\ opened = cmd[c].v
    BY <1>0, <1>9, TypedNow DEF OpenedAnswer, OpensOwn, FoundOpen, CommandOK, After
  <2>2. ui'.unlocked = TRUE /\ ui'.vault = cmd[c].v /\ status' = status
    BY <1>0, <1>9, <2>1, Succeeds DEF OpenedAnswer
  <2>3. Screen
    BY <1>1, <1>5, <2>1, <2>2, AppShellConstants DEF StatusFresh, Shown, UiTruthful
  <2> QED BY <1>6, <1>7, <2>3 DEF ScreenInv
<1>10. CASE RefusedAnswer(c)
  <2>1. cmd[c].pc = "failed"
    BY <1>0, <1>3, <1>10 DEF RefusedAnswer, OpensOwn, FoundOpen, After
  <2>2. opened = None
    BY <1>0, <1>10, <2>1 DEF RefusedAnswer, OpensOwn, Before
  <2>3. (~ui'.unlocked \/ ui' = ui) /\ status' = status
    BY <1>0, <1>10, Refuses DEF RefusedAnswer
  <2>4. Screen
    BY <1>8, <2>2, <2>3
  <2> QED BY <1>6, <1>7, <2>4 DEF ScreenInv
<1>11. CASE LockAnswer(c)
  <2>1. opened = None
    BY <1>0, <1>3, <1>11 DEF LockAnswer, OpensOwn, Closing
  <2>2. ~ui'.unlocked /\ status' = status
    BY <1>0, <1>11, Sets, LockedScreen DEF LockAnswer
  <2>3. Screen
    BY <1>8, <2>1, <2>2
  <2> QED BY <1>6, <1>7, <2>3 DEF ScreenInv
<1>12. CASE DeleteAnswer(c)
  <2>1. opened = None
    BY <1>0, <1>3, <1>12 DEF DeleteAnswer, OpensOwn, Closing
  <2>2. CASE ClearVault(LockedUi) /\ status' = Asked
    <3>1. ~ui'.unlocked
      BY <1>0, <2>2, Clears, LockedScreen
    <3>2. Alone(c)
      BY <1>4, <2>1, AloneUnlessLogin
    <3>3. \A d \in Cmds : cmd'[d].op = "none"
      BY <1>2, <3>2 DEF Alone
    <3>4. Screen
      BY <1>1, <2>1, <2>2, <3>1, <3>3 DEF StatusFresh, Shown, UiTruthful
    <3> QED BY <1>6, <1>7, <3>4 DEF ScreenInv
  <2>3. CASE UNCHANGED <<ui, nav, status>>
    <3>1. Screen
      BY <1>8, <2>1, <2>3
    <3> QED BY <1>6, <1>7, <3>1 DEF ScreenInv
  <2> QED BY <1>12, <2>2, <2>3 DEF DeleteAnswer
<1> QED BY <1>5, <1>9, <1>10, <1>11, <1>12 DEF Answer

(* With no command in flight the rest of the invariant is about the screen. *)
LEMMA QuietOwn ==
    ASSUME DiskInv', \A c \in Cmds : cmd'[c].op = "none"
    PROVE  (\A c \in Cmds : OpensOwn(c)') /\ Together'
<1>1. \A c \in Cmds : cmd'[c] = NoCmd
  BY DEF DiskInv, Typed, CommandOK
<1> QED BY <1>1 DEF OpensOwn, Together, NoCmd, Opening, Closing

LEMMA ScreenStep ==
    ASSUME ScreenInv, Calm, [Next]_vars
    PROVE  ScreenInv'
<1>0. Typed
  BY DEF ScreenInv, DiskInv
<1>1. DiskInv'
  BY DiskStep DEF ScreenInv, Calm
<1>2. CASE Paging \/ (\E n \in Navs : Listing(n)) \/ Sweep \/ UNCHANGED vars
  <2>1. /\ UNCHANGED <<disk, opened, cmd, event, status>>
        /\ ui'.unlocked = ui.unlocked /\ ui'.vault = ui.vault
    BY <1>0, <1>2, Pages, Listed DEF Sweep, vars
  <2> QED BY <1>1, <2>1, SameView
<1>3. ASSUME NEW c \in Cmds, Beginning(c) PROVE ScreenInv'
  BY <1>1, <1>3, ScreenBegins
<1>4. ASSUME NEW c \in Cmds, Working(c) PROVE ScreenInv'
  BY <1>1, <1>4, ScreenWorks, ScreenMoves
<1>5. ASSUME NEW c \in Cmds, Answer(c) PROVE ScreenInv'
  BY <1>1, <1>5, ScreenAnswers
<1>6. CASE Expire
  <2>1. /\ opened # None /\ ui.unlocked /\ InFlight(Opening \cup Closing) = {}
        /\ opened' = None /\ event' = (event \/ opened # None)
        /\ UNCHANGED <<disk, cmd, status, ui>>
    BY <1>6 DEF Expire, CloseSession, Calm
  <2>2. \A c \in Cmds : cmd'[c].op = "none"
    BY <1>0, <2>1, NobodyInFlight
  <2>3. (\A c \in Cmds : OpensOwn(c)') /\ Together'
    BY <1>1, <2>2, QuietOwn
  <2>4. WholeOnDisk' /\ StatusFresh' /\ Shown'
    BY <2>1 DEF ScreenInv, WholeOnDisk, StatusFresh, Shown
  <2>5. UiTruthful' /\ (ui.unlocked => ui.vault # None)' /\ (event => opened = None)'
    BY <2>1 DEF ScreenInv, UiTruthful
  <2> QED BY <1>1, <2>3, <2>4, <2>5 DEF ScreenInv
<1>7. CASE DeliverLocked
  <2>1. /\ event /\ event' = FALSE /\ UNCHANGED <<disk, opened, cmd, status>> /\ ~ui'.unlocked
    BY <1>0, <1>7, Delivered
  <2>2. opened = None
    BY <2>1 DEF ScreenInv
  <2>3. \A c \in Cmds : OpensOwn(c)'
    BY <2>1 DEF ScreenInv, OpensOwn, Complete
  <2>4. Together' /\ WholeOnDisk' /\ StatusFresh' /\ Shown'
    BY <2>1, <2>2 DEF ScreenInv, Together, WholeOnDisk, StatusFresh, Shown
  <2> QED BY <1>1, <2>1, <2>3, <2>4 DEF ScreenInv, UiTruthful
<1>8. CASE AnswerStatus
  <2>1. /\ status = Asked /\ status'.pc = "answered" /\ status'.vault = opened
        /\ status' # NoStatus /\ status # NoStatus
        /\ UNCHANGED <<disk, opened, cmd, event, ui>>
    BY <1>0, <1>8, StatusAnswered, Nothings
  <2>2. \A c \in Cmds : cmd'[c].op = "none"
    BY <2>1 DEF ScreenInv, StatusFresh
  <2>3. (\A c \in Cmds : OpensOwn(c)') /\ Together'
    BY <1>1, <2>2, QuietOwn
  <2>4. WholeOnDisk' /\ StatusFresh' /\ Shown'
    BY <2>1 DEF ScreenInv, WholeOnDisk, StatusFresh, Shown, Complete
  <2> QED BY <1>1, <2>1, <2>3, <2>4 DEF ScreenInv, UiTruthful
<1>9. CASE ApplyStatus
  <2>1. /\ status # NoStatus /\ status # Asked /\ status' = NoStatus
        /\ UNCHANGED <<disk, opened, cmd, event>>
        /\ ui'.unlocked = (status.vault # None) /\ (ui'.unlocked => ui'.vault = status.vault)
    BY <1>0, <1>9, StatusApplied
  <2>2. (\A c \in Cmds : cmd'[c].op = "none") /\ status.vault = opened
    BY <2>1 DEF ScreenInv, StatusFresh
  <2>3. (\A c \in Cmds : OpensOwn(c)') /\ Together'
    BY <1>1, <2>2, QuietOwn
  <2>4. WholeOnDisk' /\ StatusFresh' /\ (event => opened = None)'
    BY <2>1 DEF ScreenInv, WholeOnDisk, StatusFresh, Complete
  <2>5. Shown' /\ UiTruthful' /\ (ui.unlocked => ui.vault # None)'
    BY <2>1, <2>2 DEF Shown, UiTruthful
  <2> QED BY <1>1, <2>3, <2>4, <2>5 DEF ScreenInv
<1>10. CASE Reload
  <2>1. InFlight(Opening \cup Closing) = {} /\ ~event
    BY <1>10 DEF Reload, Calm
  <2>2. /\ UNCHANGED <<disk, opened, event>> /\ ui' = LockedUi /\ status' = Asked
        /\ \A c \in Cmds : cmd'[c].op = cmd[c].op /\ cmd'[c].pc = cmd[c].pc
    BY <1>0, <1>10, Reloaded
  <2>3. \A c \in Cmds : cmd'[c].op = "none"
    BY <1>0, <2>1, <2>2, NobodyInFlight
  <2>4. (\A c \in Cmds : OpensOwn(c)') /\ Together'
    BY <1>1, <2>3, QuietOwn
  <2>5. WholeOnDisk' /\ (event => opened = None)'
    BY <2>1, <2>2 DEF ScreenInv, WholeOnDisk, Complete
  <2>6. StatusFresh' /\ Shown' /\ UiTruthful' /\ (ui.unlocked => ui.vault # None)'
    BY <2>2, <2>3, Nothings, LockedScreen DEF StatusFresh, Shown, UiTruthful
  <2> QED BY <1>1, <2>4, <2>5, <2>6 DEF ScreenInv
<1>11. CASE Restart
  <2>1. opened' = None /\ event' = FALSE /\ status' = Asked /\ ui' = LockedUi
    BY <1>0, <1>11, Restarted
  <2>2. \A c \in Cmds : cmd'[c].op = "none"
    BY <1>0, <1>11, Restarted, Nothings
  <2>3. (\A c \in Cmds : OpensOwn(c)') /\ Together'
    BY <1>1, <2>2, QuietOwn
  <2>4. /\ WholeOnDisk' /\ StatusFresh' /\ Shown' /\ UiTruthful'
        /\ (ui.unlocked => ui.vault # None)' /\ (event => opened = None)'
    BY <2>1, <2>2, LockedScreen DEF WholeOnDisk, StatusFresh, Shown, UiTruthful
  <2> QED BY <1>1, <2>3, <2>4 DEF ScreenInv
<1> QED BY <1>2, <1>3, <1>4, <1>5, <1>6, <1>7, <1>8, <1>9, <1>10, <1>11, NextCases

LEMMA ScreenInit ==
    ASSUME Init
    PROVE  ScreenInv
<1>1. DiskInv
  BY DiskInit
<1>2. \A c \in Cmds : cmd[c] = NoCmd
  BY DEF Init
<1>3. Together /\ \A c \in Cmds : OpensOwn(c)
  BY <1>2 DEF Together, OpensOwn, NoCmd, Opening, Closing
<1>4. opened = None /\ ~event /\ status = Asked /\ ui = LockedUi
  BY DEF Init
<1>5. StatusFresh /\ Shown /\ UiTruthful /\ (ui.unlocked => ui.vault # None) /\ WholeOnDisk
  BY <1>2, <1>4, Nothings, LockedScreen DEF StatusFresh, Shown, UiTruthful, WholeOnDisk
<1> QED BY <1>1, <1>3, <1>4, <1>5 DEF ScreenInv

LEMMA ScreenAgrees ==
    ASSUME ScreenInv
    PROVE  ScreenMatches
<1>1. ~Busy => \A c \in Cmds : cmd[c].op = "none"
  BY NobodyInFlight DEF Busy, ScreenInv, DiskInv
<1> QED BY <1>1 DEF ScreenInv, Shown, ScreenMatches, SessionShown

(* The screen never stays on a vault that is locked, and no vault stays     *)
(* open behind the vault picker: through logins side by side, the           *)
(* ceremonies, locking, deletion, the clock, reloads and restarts, while a  *)
(* sweep, a slow scan or a transport that fails to build strikes anywhere.  *)
THEOREM ScreenAndSessionAgree ==
    ASSUME Calm
    PROVE  Spec => []ScreenMatches
<1>1. Init => ScreenInv
  BY ScreenInit
<1>2. ScreenInv /\ [Next]_vars => ScreenInv'
  BY ScreenStep
<1>3. ScreenInv => ScreenMatches
  BY ScreenAgrees
<1> QED BY <1>1, <1>2, <1>3, PTL DEF Spec

-----------------------------------------------------------------------------
(* The listing on the screen.                                               *)
LEMMA Blank ==
    ASSUME ui'.listing = None, \A n \in Navs : nav'[n].current = FALSE
    PROVE  ListingInv'
BY DEF ListingInv

LEMMA Dark ==
    ASSUME ListingInv, ~ui.unlocked
    PROVE  ui.listing = None /\ \A n \in Navs : ~nav[n].current
BY DEF ListingInv

LEMMA SameListing ==
    ASSUME ListingInv, nav' = nav, ui'.listing = ui.listing, ui'.unlocked = ui.unlocked,
           ui'.vault = ui.vault
    PROVE  ListingInv'
BY DEF ListingInv

LEMMA ListingAnswers ==
    ASSUME ScreenInv, ListingInv, NEW c \in Cmds, Answer(c)
    PROVE  ListingInv'
<1>0. Typed /\ OpensOwn(c)
  BY DEF ScreenInv, DiskInv
<1>1. CASE UNCHANGED <<ui, nav, status>>
  BY <1>1, SameListing
<1>2. CASE OpenedAnswer(c)
  <2>1. cmd[c].v \in Vaults /\ opened = cmd[c].v
    BY <1>0, <1>2, TypedNow DEF OpenedAnswer, OpensOwn, FoundOpen, CommandOK, After
  <2>2. nav' = nav /\ ui'.unlocked = TRUE /\ ui'.vault = cmd[c].v /\ ui'.listing = ui.listing
    BY <1>0, <1>2, <2>1, Succeeds DEF OpenedAnswer
  <2>3. CASE ui.unlocked
    <3>1. ui.vault = cmd[c].v
      BY <2>1, <2>3, AppShellConstants DEF ScreenInv, UiTruthful
    <3> QED BY <2>2, <2>3, <3>1 DEF ListingInv
  <2>4. CASE ~ui.unlocked
    BY <2>2, <2>4, Dark DEF ListingInv
  <2> QED BY <2>3, <2>4
<1>3. CASE RefusedAnswer(c)
  <2>1. CASE UNCHANGED <<ui, nav>>
    BY <2>1, SameListing
  <2>2. CASE CompleteFailure
    <3>1. CASE ~ui.unlocked /\ ui'.listing = ui.listing /\ nav' = nav
      BY <3>1, Dark DEF ListingInv
    <3> QED BY <1>0, <2>2, <3>1, Refuses, Blank
  <2> QED BY <1>3, <2>1, <2>2 DEF RefusedAnswer
<1>4. CASE LockAnswer(c)
  <2>1. SetSession(LockedUi)
    BY <1>4 DEF LockAnswer
  <2>2. CASE ui.unlocked
    BY <1>0, <2>1, <2>2, Sets, LockedScreen, Blank
  <2>3. CASE ~ui.unlocked
    <3>1. \/ ui' = LockedUi /\ nav' = nav
          \/ ui'.listing = None /\ (\A n \in Navs : nav'[n].current = FALSE)
      BY <1>0, <2>1, Sets, LockedScreen
    <3>2. CASE ui' = LockedUi /\ nav' = nav
      BY <2>3, <3>2, Dark, LockedScreen DEF ListingInv
    <3> QED BY <3>1, <3>2, Blank
  <2> QED BY <2>2, <2>3
<1>5. CASE DeleteAnswer(c)
  <2>1. CASE ClearVault(LockedUi)
    BY <1>0, <2>1, Clears, LockedScreen, Blank
  <2> QED BY <1>1, <1>5, <2>1 DEF DeleteAnswer
<1> QED BY <1>1, <1>2, <1>3, <1>4, <1>5 DEF Answer

LEMMA ListingStep ==
    ASSUME ScreenInv, ListingInv, [Next]_vars
    PROVE  ListingInv'
<1>0. Typed
  BY DEF ScreenInv, DiskInv
<1>1. CASE Paging
  BY <1>0, <1>1, Pages, SameListing
<1>2. ASSUME NEW c \in Cmds, Beginning(c) PROVE ListingInv'
  <2>1. PICK op \in Opening \cup Closing, v \in MaybeVault, pc \in Places : Begun(c, op, v, pc)
    BY <1>0, <1>2, Starting
  <2>2. UNCHANGED <<ui, nav>> \/ ClearVault(ui)
    BY <2>1 DEF Begun, Opening, Closing
  <2>3. ui \in Screens
    BY <1>0, TypedNow
  <2> QED BY <1>0, <2>2, <2>3, SameListing, Clears, Blank
<1>3. ASSUME NEW c \in Cmds, Working(c) PROVE ListingInv'
  BY <1>0, <1>3, Working1, SameListing
<1>4. ASSUME NEW c \in Cmds, Answer(c) PROVE ListingInv'
  BY <1>4, ListingAnswers
<1>5. ASSUME NEW n \in Navs, Listing(n) PROVE ListingInv'
  <2>1. ui'.listing # None => ui'.unlocked /\ ui'.listing = ui'.vault
    BY <1>0, <1>5, Listed DEF ListingInv
  <2>2. ASSUME NEW m \in Navs, nav'[m].current
        PROVE  ui'.unlocked /\ (nav'[m].files # None => nav'[m].files = ui'.vault)
    <3>1. ui'.unlocked = ui.unlocked /\ ui'.vault = ui.vault
      BY <1>0, <1>5, Listed
    <3>2. CASE nav'[m] = nav[m]
      BY <2>2, <3>1, <3>2 DEF ListingInv
    <3>3. CASE ui.unlocked /\ nav'[m].files = None
      BY <3>1, <3>3
    <3>4. CASE nav[m].current /\ nav'[m].files = opened
      BY <3>1, <3>4 DEF ListingInv, ScreenInv, UiTruthful
    <3> QED BY <1>0, <1>5, <2>2, <3>2, <3>3, <3>4, Listed
  <2> QED BY <2>1, <2>2 DEF ListingInv
<1>6. CASE DeliverLocked
  <2>1. CASE ~ui.unlocked /\ ui'.listing = ui.listing /\ nav' = nav
    BY <2>1, Dark DEF ListingInv
  <2> QED BY <1>0, <1>6, <2>1, Delivered, Blank
<1>7. CASE ApplyStatus
  <2>1. ~ui.unlocked
    BY <1>0, <1>7, StatusApplied DEF ScreenInv, StatusFresh
  <2>2. CASE ui'.listing = ui.listing /\ nav' = nav
    BY <2>1, <2>2, Dark DEF ListingInv
  <2> QED BY <1>0, <1>7, <2>2, StatusApplied, Blank
<1>8. CASE Reload \/ Restart
  BY <1>0, <1>8, Reloaded, Restarted, Nothings, LockedScreen, Blank
<1>9. CASE AnswerStatus \/ Expire \/ Sweep \/ UNCHANGED vars
  BY <1>0, <1>9, StatusAnswered, SameListing DEF Expire, Sweep, vars
<1> QED BY <1>1, <1>2, <1>3, <1>4, <1>5, <1>6, <1>7, <1>8, <1>9, NextCases

(* The listing on the screen is of the vault on the screen, and there is    *)
(* none while it is locked, in whatever order the answers of list_directory *)
(* come back: the generation that VaultActions::clear moves on is enough.   *)
THEOREM ListingIsOwn ==
    ASSUME Calm
    PROVE  Spec => []NoForeignListing
<1>1. Init => ScreenInv /\ ListingInv
  <2>1. ASSUME Init PROVE ListingInv
    BY <2>1, LockedScreen, Nothings DEF Init, ListingInv
  <2> QED BY <2>1, ScreenInit
<1>2. ScreenInv /\ ListingInv /\ [Next]_vars => (ScreenInv /\ ListingInv)'
  BY ScreenStep, ListingStep
<1>3. ListingInv => NoForeignListing
  BY DEF ListingInv, NoForeignListing
<1> QED BY <1>1, <1>2, <1>3, PTL DEF Spec

-----------------------------------------------------------------------------
(* What the open session is wired to.                                       *)
Tailing == {"header", "tidy", "wire", "record"}
Sound == Perils \subseteq {"slow_scan"}

LEMMA SoundIsCalm ==
    ASSUME Sound
    PROVE  Calm
BY DEF Sound, Calm

LEMMA WiredSame ==
    ASSUME WiredInv, UNCHANGED <<opened, app, swept>>, "session" \in confs => "session" \in confs',
           NEW c \in Cmds, \A d \in Cmds \ {c} : cmd'[d] = cmd[d],
           cmd'[c].op \in Opening => swept, cmd[c].pc \notin Tailing
    PROVE  WiredInv'
<1>1. (\A d \in Cmds : cmd'[d].pc \notin {"header", "tidy", "wire"}) =>
          \A d \in Cmds : cmd[d].pc \notin {"header", "tidy", "wire"}
  BY DEF Tailing
<1>2. (\A d \in Cmds : cmd'[d].pc \notin {"header", "tidy", "wire", "record"}) =>
          \A d \in Cmds : cmd[d].pc \notin {"header", "tidy", "wire", "record"}
  BY DEF Tailing
<1>3. opened' # None \/ (\E d \in Cmds : cmd'[d].op \in Opening) => swept'
  BY DEF WiredInv
<1> QED BY <1>1, <1>2, <1>3 DEF WiredInv

LEMMA WiredStill ==
    ASSUME WiredInv, UNCHANGED <<opened, app, swept, confs>>,
           \A d \in Cmds : cmd'[d].op = cmd[d].op /\ cmd'[d].pc = cmd[d].pc
    PROVE  WiredInv'
BY DEF WiredInv

LEMMA WiredClosed ==
    ASSUME WiredInv, opened' = None, swept => swept', \A d \in Cmds : cmd'[d].op = cmd[d].op
    PROVE  WiredInv'
BY DEF WiredInv

LEMMA WiredTail ==
    ASSUME WiredInv, NEW c \in Cmds, cmd'[c].pc \in {"header", "tidy", "wire"}, swept, swept'
    PROVE  WiredInv'
BY DEF WiredInv

LEMMA WiredWorks ==
    ASSUME ScreenInv, Sound, WiredInv, NEW c \in Cmds, Working(c)
    PROVE  WiredInv'
<1>0. Typed /\ OpensOwn(c) /\ WholeOnDisk
  BY DEF ScreenInv, DiskInv
<1>1. ASSUME NEW pc \in Places, GoTo(c, pc)
      PROVE  /\ cmd'[c].pc = pc /\ cmd'[c].op = cmd[c].op
             /\ \A d \in Cmds \ {c} : cmd'[d] = cmd[d]
  BY <1>0, <1>1, Steps
<1>2. \E pc \in Places : GoTo(c, pc)
  BY <1>0, Working1
<1>3. /\ \A d \in Cmds \ {c} : cmd'[d] = cmd[d]
      /\ \A d \in Cmds : cmd'[d].op = cmd[d].op
  BY <1>1, <1>2
<1>4. swept' = swept /\ (cmd[c].op \in Opening => cmd[c].v \in Vaults)
  BY <1>0, Working1, TypedNow DEF CommandOK
<1>5. cmd[c].op \in Opening => swept
  BY DEF WiredInv
<1>6. CASE Resolve(c)
  BY <1>3, <1>5, <1>6, WiredSame DEF Resolve, At, Tailing
<1>7. CASE Unlock(c)
  <2>1. cmd[c].op \in Opening /\ cmd[c].pc = "unlock" /\ UNCHANGED <<app, confs, swept>>
    BY <1>7 DEF Unlock, At, Opening
  <2>2. CASE GoTo(c, "wire")
    <3>1. cmd'[c].pc = "wire"
      BY <1>1, <2>2 DEF Places
    <3> QED BY <1>4, <1>5, <2>1, <3>1, WiredTail
  <2>3. CASE UNCHANGED opened
    BY <1>3, <1>5, <2>1, <2>3, WiredSame DEF Tailing
  <2> QED BY <1>7, <2>2, <2>3 DEF Unlock
<1>8. CASE \/ CreateConf(c) \/ RecoverConf(c) \/ PhraseConf(c) \/ CreateDir(c) \/ RecoverDir(c)
           \/ PhraseDir(c) \/ Reserve(c) \/ Build(c)
  <2>1. cmd[c].op \in Opening /\ cmd[c].pc \in Before /\ opened' = opened
    BY <1>8 DEF CreateConf, RecoverConf, PhraseConf, OwnConf, CreateDir, RecoverDir, PhraseDir,
                PrepareDir, Reserve, Build, At, Opening, Ceremonies, Before
  <2>2. opened' = None
    BY <1>0, <2>1 DEF OpensOwn
  <2> QED BY <1>3, <1>4, <2>2, WiredClosed
<1>9. CASE Install(c) \/ WriteHeader(c) \/ Tidy(c)
  <2>1. cmd[c].op \in Opening
    BY <1>9 DEF Install, WriteHeader, Tidy, At, Ceremonies, Opening
  <2>2. cmd'[c].pc \in {"header", "tidy", "wire"}
    BY <1>1, <1>9 DEF Install, WriteHeader, Tidy, DropConf, Sound, Places
  <2> QED BY <1>4, <1>5, <2>1, <2>2, WiredTail
<1>10. CASE Wire(c)
  <2>1. cmd[c].op \in Opening /\ cmd[c].pc = "wire" /\ opened' = opened /\ cmd'[c].pc = "record"
    BY <1>1, <1>10 DEF Wire, At, Places
  <2>2. opened # None
    BY <1>0, <1>4, <2>1, AppShellConstants DEF OpensOwn, After
  <2>3. app.transport \in MaybeVault /\ app = [app EXCEPT !.transport = @]
        /\ app \in [transport : MaybeVault, active : MaybeVault, info : MaybeVault]
    BY <1>0, TypedNow
  <2>4. app'.transport = opened /\ "session" \in confs'
    BY <1>10, <2>2, <2>3 DEF Wire, Sound, WiredTransport
  <2> QED BY <1>4, <1>5, <2>1, <2>4 DEF WiredInv
<1>11. CASE Record(c)
  <2>1. /\ cmd[c].op \in Opening /\ cmd[c].pc = "record" /\ cmd'[c].pc = "done"
        /\ UNCHANGED <<opened, confs>>
    BY <1>1, <1>11 DEF Record, At, Places
  <2>2. opened = cmd[c].v
    BY <1>0, <2>1 DEF OpensOwn, After
  <2>3. app \in [transport : MaybeVault, active : MaybeVault, info : MaybeVault]
    BY <1>0, TypedNow
  <2>4. /\ app'.transport = app.transport /\ app'.active = opened
        /\ Complete(opened) => app'.info = opened
    BY <1>11, <2>2, <2>3 DEF Record
  <2>5. (\A d \in Cmds : cmd'[d].pc \notin {"header", "tidy", "wire"}) =>
            \A d \in Cmds : cmd[d].pc \notin {"header", "tidy", "wire"}
    BY <1>3, <2>1
  <2>6. opened # None /\ (\A d \in Cmds : cmd'[d].pc \notin {"header", "tidy", "wire"}) =>
            app'.transport = opened /\ "session" \in confs'
    BY <2>1, <2>4, <2>5 DEF WiredInv
  <2>7. opened # None /\ (\A d \in Cmds : cmd'[d].pc \notin {"header", "tidy", "wire"}) =>
            app'.active = opened /\ app'.info = opened
    BY <1>0, <2>4, <2>5 DEF WholeOnDisk
  <2> QED BY <1>4, <1>5, <2>1, <2>6, <2>7 DEF WiredInv
<1>12. CASE LockSession(c)
  BY <1>3, <1>4, <1>12, WiredClosed DEF LockSession, CloseSession
<1>13. CASE ResetTransport(c) \/ RemoveVault(c) \/ Forget(c)
  <2>1. cmd[c].op \in Closing /\ cmd[c].pc # "lock" /\ opened' = opened
    BY <1>13 DEF ResetTransport, RemoveVault, Forget, At, Closing
  <2>2. opened' = None
    BY <1>0, <2>1 DEF OpensOwn
  <2> QED BY <1>3, <1>4, <2>2, WiredClosed
<1> QED BY <1>6, <1>7, <1>8, <1>9, <1>10, <1>11, <1>12, <1>13 DEF Working

LEMMA WiredStep ==
    ASSUME ScreenInv, Sound, WiredInv, [Next]_vars
    PROVE  WiredInv'
<1>0. Typed
  BY DEF ScreenInv, DiskInv
<1>1. CASE Paging \/ (\E n \in Navs : Listing(n)) \/ DeliverLocked \/ AnswerStatus \/ ApplyStatus
           \/ UNCHANGED vars
  <2>1. UNCHANGED <<opened, app, swept, confs, cmd>>
    BY <1>0, <1>1, Pages, Listed, Delivered, StatusAnswered, StatusApplied DEF vars
  <2> QED BY <2>1, WiredStill
<1>2. CASE Reload
  BY <1>0, <1>2, Reloaded, WiredStill
<1>3. ASSUME NEW c \in Cmds, Beginning(c) PROVE WiredInv'
  <2>1. PICK op \in Opening \cup Closing, v \in MaybeVault, pc \in Places : Begun(c, op, v, pc)
    BY <1>0, <1>3, Starting
  <2>2. Begin(c, op, v, pc) /\ (op \in Opening => v \in Vaults /\ swept)
    BY <2>1 DEF Begun, MayOpen, Sound
  <2>3. /\ cmd[c] = NoCmd /\ cmd'[c].op = op
        /\ \A d \in Cmds \ {c} : cmd'[d] = cmd[d]
        /\ UNCHANGED <<opened, app, confs, swept>>
    BY <1>0, <2>2, Begins
  <2> QED BY <2>2, <2>3, WiredSame DEF NoCmd, Tailing
<1>4. ASSUME NEW c \in Cmds, Working(c) PROVE WiredInv'
  BY <1>4, WiredWorks
<1>5. ASSUME NEW c \in Cmds, Answer(c) PROVE WiredInv'
  <2>1. /\ cmd[c].pc \notin Tailing /\ cmd'[c].op \notin Opening
        /\ \A d \in Cmds \ {c} : cmd'[d] = cmd[d]
        /\ UNCHANGED <<opened, app, confs, swept>>
    BY <1>0, <1>5, Answered, Finishes DEF Answer, Tailing, Opening
  <2> QED BY <2>1, WiredSame
<1>6. CASE Expire
  BY <1>6, WiredClosed DEF Expire, CloseSession
<1>7. CASE Restart
  <2>1. opened' = None /\ \A d \in Cmds : cmd'[d].op = "none"
    BY <1>0, <1>7, Restarted, Nothings
  <2> QED BY <2>1 DEF WiredInv, Opening
<1>8. CASE Sweep
  BY <1>8, WiredClosed DEF Sweep, WiredInv
<1> QED BY <1>1, <1>2, <1>3, <1>4, <1>5, <1>6, <1>7, <1>8, NextCases

LEMMA WiredShows ==
    ASSUME ScreenInv, WiredInv
    PROVE  WiredToSession
<1>1. SUFFICES ASSUME opened # None, ~Busy
               PROVE  /\ Complete(opened)
                      /\ app = [transport |-> opened, active |-> opened, info |-> opened]
                      /\ "session" \in confs
  BY DEF WiredToSession
<1>2. Typed
  BY DEF ScreenInv, DiskInv
<1>3. \A c \in Cmds : cmd[c].op = "none"
  BY <1>1, <1>2, NobodyInFlight DEF Busy
<1>4. \A c \in Cmds : cmd[c].pc = "idle"
  BY <1>2, <1>3, TypedNow, Nothings DEF CommandOK
<1>5. Complete(opened)
  BY <1>1, <1>4 DEF ScreenInv, WholeOnDisk
<1>6. /\ app.transport = opened /\ "session" \in confs
      /\ app.active = opened /\ app.info = opened
  BY <1>1, <1>4 DEF WiredInv
<1>7. app \in [transport : MaybeVault, active : MaybeVault, info : MaybeVault]
  BY <1>2, TypedNow
<1> QED BY <1>5, <1>6, <1>7

(* Once its commands are through, an open session has its whole vault on    *)
(* disk, the transport of its own destination with a conf that is there,    *)
(* and its own vault id and header information: of two logins side by side  *)
(* and after a restart too.  It takes the start-up sweep to be over before  *)
(* the first command and a transport that can be built.                     *)
THEOREM SessionIsWired ==
    ASSUME Sound
    PROVE  Spec => []WiredToSession
<1>1. Init => ScreenInv /\ WiredInv
  <2>1. ASSUME Init PROVE WiredInv
    BY <2>1, Nothings DEF Init, WiredInv, Opening
  <2> QED BY <2>1, ScreenInit
<1>2. ScreenInv /\ WiredInv /\ [Next]_vars => (ScreenInv /\ WiredInv)'
  BY ScreenStep, WiredStep, SoundIsCalm
<1>3. ScreenInv /\ WiredInv => WiredToSession
  BY WiredShows
<1> QED BY <1>1, <1>2, <1>3, PTL DEF Spec

-----------------------------------------------------------------------------
(* Connecting an account: the module OAuthSetup.                            *)

Setups == [provider : Kinds \cup {NoId}, child : {"none", "running", "done", "failed"},
           conf : {"none", "bare", "token"},
           place : {"none", "setups", "taken", "pending", "gone"}, old : BOOLEAN, left : BOOLEAN]
Flows  == [st : {"idle", "starting", "waiting", "selecting", "finishing", "failed", "completed"},
           id : Ids \cup {NoId}]
Early  == {"begin", "began", "refused"}
Polled == {"poll", "pending", "config", "failed", "not_found", "drives", "completed"}
Over   == {"none", "ended"}

SetupTyped ==
    /\ setup \in [Ids -> Setups] /\ begun \in 0..MaxSetups
    /\ task \in [Ids -> Early \cup Polled \cup Over \cup {"sleep"}]
    /\ pick \in [Ids -> {"none", "asked", "config", "completed", "failed"}]
    /\ cancels \subseteq Ids /\ kind \in Kinds /\ flow \in Flows
    /\ flow.st \in {"waiting", "selecting", "finishing"} => flow.id \in Ids

(* The form and its tasks: one task at a time, and the form shows where it  *)
(* is, unless it was cancelled asleep.                                      *)
InForm(i) ==
    /\ task[i] \in Early => flow.st = "starting"
    /\ task[i] \in Polled => flow.st = "waiting" /\ flow.id = i
    /\ task[i] = "sleep" => (flow.st = "waiting" /\ flow.id = i) \/ flow.st = "idle"
    /\ pick[i] # "none" => flow.st = "finishing" /\ flow.id = i
    /\ i > begun => task[i] = "none"

FormInv ==
    /\ SetupTyped /\ \A i \in Ids : InForm(i)
    /\ \A i, j \in Ids : i # j => task[i] \in Over \/ task[j] \in Over

(* Where a setup is in the backend, somebody comes for it.                  *)
InBackend(i) ==
    LET s == setup[i] IN
    /\ i > begun \/ task[i] \in {"none", "begin"} => s.place = "none"
    /\ s.child = "running" => s.place = "setups" \/ s.left
    /\ s.conf = "token" => s.place \in {"setups", "taken", "pending"} \/ s.left
    /\ s.place = "setups" =>
          \/ s.left \/ i \in cancels \/ task[i] = "began"
          \/ flow.st = "waiting" /\ flow.id = i /\ task[i] \in {"sleep", "poll", "pending"}
    /\ s.place = "taken" <=> task[i] = "config" \/ pick[i] = "config"
    /\ s.place = "pending" =>
          \/ i \in cancels \/ task[i] = "drives" \/ pick[i] = "asked"
          \/ flow.st = "selecting" /\ flow.id = i

SetupInv == FormInv /\ \A i \in Ids : InBackend(i)

-----------------------------------------------------------------------------
LEMMA SetupFacts ==
    /\ \A s \in Setups : \A g \in Gone(s) :
          g \in Setups /\ g.place = "gone" /\ (g.left \/ (g.child # "running" /\ g.conf = "none"))
    /\ NoFlow \in Flows /\ NoFlow.st = "idle"
    /\ NoSetup \in Setups /\ NoSetup.place = "none" /\ NoSetup.child = "none"
    /\ NoSetup.conf = "none"
<1>1. ASSUME NEW s \in Setups, NEW g \in Gone(s)
      PROVE  g \in Setups /\ g.place = "gone" /\ (g.left \/ (g.child # "running" /\ g.conf = "none"))
  <2>1. PICK c \in {"none", s.child} : \E f \in {"none", s.conf} :
           g = [s EXCEPT !.child = c, !.conf = f, !.place = "gone",
                         !.left = @ \/ c = "running" \/ f # "none"]
    BY DEF Gone
  <2>2. PICK f \in {"none", s.conf} :
           g = [s EXCEPT !.child = c, !.conf = f, !.place = "gone",
                         !.left = @ \/ c = "running" \/ f # "none"]
    BY <2>1
  <2> DEFINE l == s.left \/ c = "running" \/ f # "none"
  <2>3. l \in BOOLEAN /\ (l \/ (c # "running" /\ f = "none"))
    BY DEF Setups
  <2>4. g = [s EXCEPT !.child = c, !.conf = f, !.place = "gone", !.left = l]
    BY <2>2
  <2>5. c \in {"none", "running", "done", "failed"} /\ f \in {"none", "bare", "token"}
    BY DEF Setups
  <2> HIDE DEF l
  <2>6. g \in Setups /\ g.place = "gone" /\ g.left = l /\ g.child = c /\ g.conf = f
    BY <2>3, <2>4, <2>5 DEF Setups
  <2> QED BY <2>3, <2>6
<1>2. NoFlow \in Flows /\ NoFlow.st = "idle"
  BY DEF NoFlow, Flows
<1>3. /\ NoSetup \in Setups /\ NoSetup.place = "none" /\ NoSetup.child = "none"
      /\ NoSetup.conf = "none"
  BY DEF NoSetup, Setups
<1> QED BY <1>1, <1>2, <1>3

LEMMA FlowMade ==
    ASSUME NEW st \in {"idle", "starting", "waiting", "selecting", "finishing", "failed", "completed"},
           NEW i \in Ids \cup {NoId}
    PROVE  Flow(st, i) \in Flows /\ Flow(st, i).st = st /\ Flow(st, i).id = i
BY DEF Flow, Flows

LEMMA FormInit ==
    ASSUME SetupInit
    PROVE  SetupInv
<1> USE OAuthConstants
<1>1. /\ setup = [i \in Ids |-> NoSetup] /\ begun = 0 /\ cancels = {} /\ kind = "local"
      /\ task = [i \in Ids |-> "none"] /\ pick = [i \in Ids |-> "none"]
      /\ flow = NoFlow
  BY DEF SetupInit
<1>2. SetupTyped
  BY <1>1, SetupFacts DEF SetupTyped, Over, Kinds
<1>3. \A i \in Ids : InForm(i)
  BY <1>1 DEF InForm, Early, Polled
<1>4. \A i \in Ids : InBackend(i)
  BY <1>1, SetupFacts DEF InBackend
<1> QED BY <1>1, <1>2, <1>3, <1>4 DEF SetupInv, FormInv, Over

(* What a step does to the setup it is about.                               *)
LEMMA Replaces ==
    ASSUME SetupTyped, NEW i \in Ids, NEW s \in Setups, setup' = [setup EXCEPT ![i] = s]
    PROVE  /\ setup' \in [Ids -> Setups] /\ setup'[i] = s
           /\ \A j \in Ids \ {i} : setup'[j] = setup[j]
BY DEF SetupTyped

Untouched(i) == \A j \in Ids \ {i} : setup'[j] = setup[j]

LEMMA ConnectEffect ==
    ASSUME SetupTyped, Connect
    PROVE  /\ begun + 1 \in Ids /\ begun' = begun + 1 /\ setup' \in [Ids -> Setups]
           /\ Untouched(begun + 1) /\ setup'[begun + 1].place = setup[begun + 1].place
           /\ setup'[begun + 1].child = setup[begun + 1].child
           /\ setup'[begun + 1].conf = setup[begun + 1].conf
           /\ setup'[begun + 1].left = setup[begun + 1].left
<1>1. begun + 1 \in Ids /\ begun' = begun + 1
  BY OAuthConstants DEF Connect, SetupTyped, Ids
<1> DEFINE s == [setup[begun + 1] EXCEPT !.provider = kind]
<1>2. setup[begun + 1] \in Setups /\ kind \in Kinds
  BY <1>1 DEF SetupTyped
<1>3. /\ s \in Setups /\ s.place = setup[begun + 1].place /\ s.child = setup[begun + 1].child
      /\ s.conf = setup[begun + 1].conf /\ s.left = setup[begun + 1].left
  BY <1>2 DEF Setups
<1>4. setup' = [setup EXCEPT ![begun + 1] = s]
  BY <1>1 DEF Connect
<1> HIDE DEF s
<1> QED BY <1>1, <1>3, <1>4, Replaces DEF Untouched

LEMMA BeginEffect ==
    ASSUME SetupTyped, NEW i \in Ids, NEW p, BeginSetup(i, p)
    PROVE  /\ setup' \in [Ids -> Setups] /\ Untouched(i)
           /\ \/ /\ task' = [task EXCEPT ![i] = "began"] /\ setup'[i].place = "setups"
                 /\ setup'[i].conf = "bare"
              \/ /\ task' = [task EXCEPT ![i] = "refused"] /\ setup'[i].place = setup[i].place
                 /\ \/ setup'[i].left
                    \/ /\ setup'[i].left = setup[i].left
                       /\ setup'[i].child = setup[i].child /\ setup'[i].conf # "token"
<1>0. setup[i] \in Setups
  BY DEF SetupTyped
<1>a. /\ Started(setup[i]) \in Setups /\ Started(setup[i]).conf = "bare"
      /\ Started(setup[i]).place = setup[i].place
  BY <1>0 DEF Started, Setups
<1>1. CASE /\ setup' = [setup EXCEPT ![i] = [Started(setup[i]) EXCEPT !.place = "setups"]]
           /\ task' = [task EXCEPT ![i] = "began"]
  <2> DEFINE s == [Started(setup[i]) EXCEPT !.place = "setups"]
  <2>1. s \in Setups /\ s.place = "setups" /\ s.conf = "bare"
    BY <1>a DEF Setups
  <2>2. setup' = [setup EXCEPT ![i] = s]
    BY <1>1
  <2> HIDE DEF s
  <2> QED BY <1>1, <2>1, <2>2, Replaces DEF Untouched
<1>2. ASSUME NEW s \in Refused(setup[i])
      PROVE  /\ s \in Setups /\ s.place = setup[i].place
             /\ \/ s.left
                \/ s.left = setup[i].left /\ s.child = setup[i].child /\ s.conf # "token"
  <2>1. CASE s = [Started(setup[i]) EXCEPT !.left = TRUE]
    BY <1>a, <2>1 DEF Setups
  <2>2. ASSUME NEW c \in {"none", "bare"}, s = [setup[i] EXCEPT !.conf = c]
        PROVE  /\ s \in Setups /\ s.place = setup[i].place /\ s.left = setup[i].left
               /\ s.child = setup[i].child /\ s.conf # "token"
    BY <1>0, <2>2 DEF Setups
  <2> QED BY <2>1, <2>2 DEF Refused
<1>3. CASE /\ \E s \in Refused(setup[i]) : setup' = [setup EXCEPT ![i] = s]
           /\ task' = [task EXCEPT ![i] = "refused"]
  <2>1. PICK s \in Refused(setup[i]) : setup' = [setup EXCEPT ![i] = s]
    BY <1>3
  <2>2. setup' \in [Ids -> Setups] /\ setup'[i] = s /\ Untouched(i)
    BY <1>2, <2>1, Replaces DEF Untouched
  <2> QED BY <1>2, <1>3, <2>2
<1> QED BY <1>0, <1>1, <1>3 DEF BeginSetup, SetupTyped

LEMMA BrowserEffect ==
    ASSUME SetupTyped, NEW i \in Ids, Browser(i) \/ GrowOld(i)
    PROVE  /\ setup' \in [Ids -> Setups] /\ Untouched(i) /\ setup'[i].place = setup[i].place
           /\ setup'[i].child = "running" => setup[i].child = "running"
           /\ setup'[i].conf = "token" => setup[i].conf = "token" \/ setup[i].child = "running"
           /\ setup'[i].left = setup[i].left
           /\ UNCHANGED <<begun, task, pick, cancels, kind, flow, chosen>>
<1>0. setup[i] \in Setups
  BY DEF SetupTyped
<1>1. ASSUME NEW s \in {[setup[i] EXCEPT !.child = "done", !.conf = "token"],
                        [setup[i] EXCEPT !.child = "failed"], [setup[i] EXCEPT !.old = TRUE]},
             setup' = [setup EXCEPT ![i] = s], setup[i].child = "running" \/ s.conf = setup[i].conf
      PROVE  /\ setup' \in [Ids -> Setups] /\ Untouched(i) /\ setup'[i].place = setup[i].place
             /\ setup'[i].child = "running" => setup[i].child = "running"
             /\ setup'[i].conf = "token" => setup[i].conf = "token" \/ setup[i].child = "running"
             /\ setup'[i].left = setup[i].left
  <2>1. /\ s \in Setups /\ s.place = setup[i].place /\ s.left = setup[i].left
        /\ s.child = "running" => setup[i].child = "running"
    BY <1>0, <1>1 DEF Setups
  <2> QED BY <1>1, <2>1, Replaces DEF Untouched
<1>2. CASE Browser(i)
  <2>1. setup[i].child = "running"
    BY <1>2 DEF Browser
  <2>2. \/ setup' = [setup EXCEPT ![i] = [setup[i] EXCEPT !.child = "done", !.conf = "token"]]
        \/ setup' = [setup EXCEPT ![i] = [setup[i] EXCEPT !.child = "failed"]]
    BY <1>2 DEF Browser, SetupTyped
  <2> QED BY <1>1, <1>2, <2>1, <2>2 DEF Browser
<1>3. CASE GrowOld(i)
  <2>1. setup' = [setup EXCEPT ![i] = [setup[i] EXCEPT !.old = TRUE]]
    BY <1>3 DEF GrowOld, SetupTyped
  <2>2. [setup[i] EXCEPT !.old = TRUE].conf = setup[i].conf
    BY <1>0 DEF Setups
  <2> QED BY <1>1, <1>3, <2>1, <2>2 DEF GrowOld
<1> QED BY <1>2, <1>3

(* A setup that changes its table keeps its child and its conf.             *)
LEMMA PlaceEffect ==
    ASSUME SetupTyped, NEW i \in Ids, NEW p \in {"none", "setups", "taken", "pending", "gone"},
           setup' = [setup EXCEPT ![i] = [setup[i] EXCEPT !.place = p]]
    PROVE  /\ setup' \in [Ids -> Setups] /\ Untouched(i) /\ setup'[i].place = p
           /\ setup'[i].child = setup[i].child /\ setup'[i].conf = setup[i].conf
           /\ setup'[i].left = setup[i].left
<1> DEFINE s == [setup[i] EXCEPT !.place = p]
<1>1. setup[i] \in Setups
  BY DEF SetupTyped
<1>2. /\ s \in Setups /\ s.place = p /\ s.child = setup[i].child /\ s.conf = setup[i].conf
      /\ s.left = setup[i].left
  BY <1>1 DEF Setups
<1>3. setup' = [setup EXCEPT ![i] = s]
  OBVIOUS
<1> HIDE DEF s
<1> QED BY <1>2, <1>3, Replaces DEF Untouched

(* An ended setup leaves nothing, unless it is written down that it did.    *)
EndsWell(i) ==
    /\ setup'[i].place = "gone"
    /\ setup'[i].left \/ (setup'[i].child # "running" /\ setup'[i].conf = "none")

LEMMA GoneEffect ==
    ASSUME SetupTyped, NEW i \in Ids, Ended(i)
    PROVE  setup' \in [Ids -> Setups] /\ Untouched(i) /\ EndsWell(i)
<1>1. setup[i] \in Setups
  BY DEF SetupTyped
<1>2. PICK g \in Gone(setup[i]) : setup' = [setup EXCEPT ![i] = g]
  BY DEF Ended
<1>3. g \in Setups /\ g.place = "gone" /\ (g.left \/ (g.child # "running" /\ g.conf = "none"))
  BY <1>1, SetupFacts
<1>4. setup' \in [Ids -> Setups] /\ setup'[i] = g /\ Untouched(i)
  BY <1>2, <1>3, Replaces DEF Untouched
<1> QED BY <1>3, <1>4 DEF EndsWell

LEMMA LeftEffect ==
    ASSUME SetupTyped, NEW i \in Ids, setup' = [setup EXCEPT ![i] = [setup[i] EXCEPT !.left = TRUE]]
    PROVE  /\ setup' \in [Ids -> Setups] /\ Untouched(i) /\ setup'[i].left
           /\ setup'[i].place = setup[i].place
<1> DEFINE s == [setup[i] EXCEPT !.left = TRUE]
<1>0. setup[i] \in Setups
  BY DEF SetupTyped
<1>1. s \in Setups /\ s.left /\ s.place = setup[i].place
  BY <1>0 DEF Setups
<1>2. setup' = [setup EXCEPT ![i] = s]
  OBVIOUS
<1> HIDE DEF s
<1> QED BY <1>1, <1>2, Replaces DEF Untouched

(* The steps of the backend on one setup, by where they leave it.           *)
LEMMA PollEffect ==
    ASSUME SetupTyped, NEW i \in Ids, Poll(i)
    PROVE  /\ task[i] = "poll" /\ UNCHANGED <<begun, pick, cancels, kind, flow, chosen>>
           /\ setup' \in [Ids -> Setups] /\ Untouched(i)
           /\ \/ task' = [task EXCEPT ![i] = "not_found"] /\ setup' = setup
                 /\ setup[i].place # "setups"
              \/ /\ task' = [task EXCEPT ![i] = "failed"]
                 /\ EndsWell(i) \/ (setup'[i].place = "setups" /\ setup'[i].left)
              \/ task' = [task EXCEPT ![i] = "pending"] /\ setup' = setup
              \/ /\ task' = [task EXCEPT ![i] = "config"] /\ setup'[i].place = "taken"
                 /\ setup'[i].child # "running"
                 /\ setup[i].place = "setups"
<1>0. setup \in [Ids -> Setups]
  BY DEF SetupTyped
<1>1. CASE task' = [task EXCEPT ![i] = "not_found"] /\ setup' = setup /\ setup[i].place # "setups"
  BY <1>0, <1>1 DEF Poll, Untouched
<1>2. CASE task' = [task EXCEPT ![i] = "failed"] /\ Ended(i)
  BY <1>2, GoneEffect DEF Poll
<1>b. CASE /\ task' = [task EXCEPT ![i] = "failed"] /\ setup[i].place = "setups"
           /\ setup' = [setup EXCEPT ![i] = [setup[i] EXCEPT !.left = TRUE]]
  BY <1>b, LeftEffect DEF Poll
<1>3. CASE task' = [task EXCEPT ![i] = "pending"] /\ setup' = setup
  BY <1>0, <1>3 DEF Poll, Untouched
<1>4. CASE /\ task' = [task EXCEPT ![i] = "config"] /\ setup[i].child = "done"
           /\ setup[i].place = "setups"
           /\ setup' = [setup EXCEPT ![i] = [setup[i] EXCEPT !.place = "taken"]]
  <2>1. /\ setup' \in [Ids -> Setups] /\ Untouched(i) /\ setup'[i].place = "taken"
        /\ setup'[i].child = setup[i].child
    BY <1>4, PlaceEffect
  <2> QED BY <1>4, <2>1 DEF Poll
<1> QED BY <1>0, <1>1, <1>2, <1>b, <1>3, <1>4 DEF Poll

LEMMA ConfigureEffect ==
    ASSUME SetupTyped, NEW i \in Ids, Configure(i)
    PROVE  /\ task[i] = "config" /\ UNCHANGED <<begun, pick, cancels, kind, flow, chosen>>
           /\ setup' \in [Ids -> Setups] /\ Untouched(i)
           /\ \/ /\ task' = [task EXCEPT ![i] = "completed"] \/ task' = [task EXCEPT ![i] = "failed"]
                 /\ EndsWell(i)
              \/ /\ task' = [task EXCEPT ![i] = "drives"] /\ setup'[i].place = "pending"
                 /\ setup'[i].child = setup[i].child /\ setup'[i].conf = setup[i].conf
                 /\ setup'[i].left = setup[i].left
<1>0. setup \in [Ids -> Setups]
  BY DEF SetupTyped
<1>1. CASE /\ Ended(i)
           /\ (task' = [task EXCEPT ![i] = "completed"] \/ task' = [task EXCEPT ![i] = "failed"])
  BY <1>1, GoneEffect DEF Configure
<1>2. CASE /\ task' = [task EXCEPT ![i] = "drives"]
           /\ setup' = [setup EXCEPT ![i] = [setup[i] EXCEPT !.place = "pending"]]
  BY <1>2, PlaceEffect DEF Configure
<1> QED BY <1>0, <1>1, <1>2 DEF Configure

LEMMA DriveEffect ==
    ASSUME SetupTyped, NEW i \in Ids, SelectDrive(i)
    PROVE  /\ pick[i] = "asked" /\ UNCHANGED <<begun, task, cancels, kind, flow, chosen>>
           /\ setup' \in [Ids -> Setups] /\ Untouched(i)
           /\ \/ /\ pick' = [pick EXCEPT ![i] = "config"] /\ setup'[i].place = "taken"
                 /\ setup[i].place = "pending"
                 /\ setup'[i].child = setup[i].child /\ setup'[i].conf = setup[i].conf
                 /\ setup'[i].left = setup[i].left
              \/ pick' = [pick EXCEPT ![i] = "failed"] /\ setup' = setup
                 /\ setup[i].place # "pending"
<1>0. setup \in [Ids -> Setups]
  BY DEF SetupTyped
<1>1. CASE /\ pick' = [pick EXCEPT ![i] = "config"] /\ setup[i].place = "pending"
           /\ setup' = [setup EXCEPT ![i] = [setup[i] EXCEPT !.place = "taken"]]
  BY <1>1, PlaceEffect DEF SelectDrive
<1>2. CASE pick' = [pick EXCEPT ![i] = "failed"] /\ setup' = setup /\ setup[i].place # "pending"
  BY <1>0, <1>2 DEF SelectDrive, Untouched
<1> QED BY <1>0, <1>1, <1>2 DEF SelectDrive

LEMMA FinishEffect ==
    ASSUME SetupTyped, NEW i \in Ids, FinishDrive(i)
    PROVE  /\ pick[i] = "config" /\ UNCHANGED <<begun, task, cancels, kind, flow, chosen>>
           /\ setup' \in [Ids -> Setups] /\ Untouched(i)
           /\ pick' = [pick EXCEPT ![i] = "completed"] \/ pick' = [pick EXCEPT ![i] = "failed"]
           /\ EndsWell(i)
<1> QED BY GoneEffect DEF FinishDrive, SetupTyped

LEMMA CancelEffect ==
    ASSUME SetupTyped, NEW i \in Ids, Cancel(i)
    PROVE  /\ cancels' = cancels \ {i} /\ UNCHANGED <<begun, task, pick, kind, flow, chosen>>
           /\ setup' \in [Ids -> Setups] /\ Untouched(i)
           /\ \/ setup[i].place \in {"pending", "setups"} /\ EndsWell(i)
              \/ setup' = setup /\ setup[i].place \notin {"pending", "setups"}
<1>0. setup \in [Ids -> Setups]
  BY DEF SetupTyped
<1>1. CASE Ended(i) /\ setup[i].place \in {"pending", "setups"}
  BY <1>1, GoneEffect DEF Cancel
<1>2. CASE setup' = setup /\ setup[i].place \notin {"pending", "setups"}
  BY <1>0, <1>2 DEF Cancel, Untouched
<1> QED BY <1>0, <1>1, <1>2 DEF Cancel, Cancellable

(* The steps of the form, and those on one setup.                           *)
OnForm == \/ \E k \in Kinds : SelectKind(k)
          \/ Connect \/ CancelSetup \/ LeavePage \/ PickDrive

OnSetup(i) ==
    \/ (\E p \in {"google", "onedrive"} : BeginSetup(i, p)) \/ BeginAnswer(i)
    \/ Browser(i) \/ GrowOld(i) \/ Wake(i) \/ Poll(i) \/ Configure(i)
    \/ PollAnswer(i) \/ SelectDrive(i) \/ FinishDrive(i) \/ PickAnswer(i) \/ Cancel(i)

LEMMA SetupCases ==
    ASSUME SetupNext
    PROVE  OnForm \/ \E i \in Ids : OnSetup(i)
<1>1. Ids = Ids
  OBVIOUS
<1> QED BY <1>1 DEF SetupNext, OnForm, OnSetup, BeginGoogleDrive, BeginOneDrive

Patient == Habits \subseteq {"leave"}

(* The user waits for an answer before the next click.                      *)
LEMMA Unhurries ==
    ASSUME Patient, NEW i \in Ids, Unhurried(i)
    PROVE  task[i] = "sleep"
BY DEF Patient, Unhurried

(* A task that is not over is the only one.                                 *)
LEMMA OnlyTask ==
    ASSUME FormInv, NEW i \in Ids, task[i] \notin Over, NEW j \in Ids \ {i}
    PROVE  task[j] \in Over
BY DEF FormInv

LEMMA FormStepForm ==
    ASSUME FormInv, Patient, OnForm
    PROVE  FormInv'
<1> USE OAuthConstants
<1>0. SetupTyped
  BY DEF FormInv
<1>1. ASSUME NEW k \in Kinds, SelectKind(k) PROVE FormInv'
  <2>1. /\ flow' = NoFlow /\ kind' = k /\ UNCHANGED <<setup, begun, task, pick>>
        /\ cancels' \subseteq Ids /\ flow.st \notin {"starting", "selecting", "finishing"}
        /\ flow.st = "waiting" => flow.id \in Ids /\ task[flow.id] = "sleep"
    BY <1>0, <1>1, Unhurries DEF SelectKind, CancelOnSwitch, SetupTyped, Patient
  <2>2. SetupTyped'
    BY <1>0, <2>1, SetupFacts DEF SetupTyped
  <2>3. \A i \in Ids : InForm(i)'
    BY <1>0, <2>1, SetupFacts DEF FormInv, InForm, Early, Polled
  <2> QED BY <2>1, <2>2, <2>3 DEF FormInv
<1>2. CASE Connect
  <2> DEFINE n == begun + 1
  <2>1. n \in Ids /\ begun' = n /\ setup' \in [Ids -> Setups]
    BY <1>0, <1>2, ConnectEffect
  <2>2. /\ flow' = Flow("starting", NoId) /\ flow.st \in {"idle", "failed"}
        /\ \A i \in Ids : task[i] \in Over
        /\ UNCHANGED <<pick, cancels, kind>>
    BY <1>2 DEF Connect, Patient, Over
  <2>3. task' = [task EXCEPT ![n] = "begin"]
    BY <1>2, <2>1 DEF Connect
  <2>4. flow' \in Flows /\ flow'.st = "starting"
    BY <2>2, FlowMade
  <2>5. begun \in Nat /\ n > begun /\ n \in 0..MaxSetups
    BY <1>0, <2>1 DEF SetupTyped, Ids
  <2> HIDE DEF n
  <2>6. SetupTyped'
    BY <1>0, <2>1, <2>2, <2>3, <2>4, <2>5 DEF SetupTyped, Early
  <2>7. ASSUME NEW i \in Ids PROVE InForm(i)'
    <3>1. i > n => i # n /\ i > begun
      BY <2>1, <2>5 DEF Ids
    <3>2. task'[i] = IF i = n THEN "begin" ELSE task[i]
      BY <1>0, <2>3 DEF SetupTyped
    <3>3. i > n => task'[i] = "none"
      BY <3>1, <3>2 DEF FormInv, InForm
    <3>4. pick[i] = "none"
      BY <2>2 DEF FormInv, InForm
    <3>5. task'[i] \in Over \/ task'[i] = "begin"
      BY <2>2, <3>2
    <3> QED BY <2>1, <2>2, <2>4, <3>3, <3>4, <3>5 DEF InForm, Early, Polled, Over
  <2>8. \A i, j \in Ids : i # j => task'[i] \in Over \/ task'[j] \in Over
    BY <1>0, <2>2, <2>3 DEF SetupTyped
  <2> QED BY <2>6, <2>7, <2>8 DEF FormInv
<1>3. CASE CancelSetup
  <2>1. /\ flow' = NoFlow /\ UNCHANGED <<setup, begun, task, pick, kind>>
        /\ cancels' \subseteq Ids /\ flow.st \in {"waiting", "selecting"}
        /\ flow.st = "waiting" => flow.id \in Ids /\ task[flow.id] = "sleep"
    BY <1>0, <1>3, Unhurries DEF CancelSetup, SetupTyped
  <2>2. SetupTyped'
    BY <1>0, <2>1, SetupFacts DEF SetupTyped
  <2>3. \A i \in Ids : InForm(i)'
    BY <1>0, <2>1, SetupFacts DEF FormInv, InForm, Early, Polled
  <2> QED BY <2>1, <2>2, <2>3 DEF FormInv
<1>4. CASE LeavePage
  <2>1. /\ kind' = "local" /\ flow' = NoFlow /\ UNCHANGED <<setup, begun, cancels>>
        /\ task' = [i \in Ids |-> IF i <= begun THEN "ended" ELSE "none"]
        /\ pick' = [i \in Ids |-> "none"]
    BY <1>4 DEF LeavePage
  <2>2. SetupTyped'
    BY <1>0, <2>1, SetupFacts DEF SetupTyped, Over, Kinds
  <2>3. ASSUME NEW i \in Ids PROVE InForm(i)'
    <3>1. i > begun => ~(i <= begun)
      BY <1>0 DEF Ids, SetupTyped
    <3> QED BY <2>1, <3>1, SetupFacts DEF InForm, Early, Polled
  <2> QED BY <2>1, <2>2, <2>3 DEF FormInv, Over
<1>5. CASE PickDrive
  <2>1. /\ flow.st = "selecting" /\ flow.id \in Ids /\ flow' = Flow("finishing", flow.id)
        /\ pick' = [pick EXCEPT ![flow.id] = "asked"]
        /\ UNCHANGED <<setup, begun, task, cancels, kind>>
    BY <1>0, <1>5 DEF PickDrive, SetupTyped
  <2>2. flow' \in Flows /\ flow'.st = "finishing" /\ flow'.id = flow.id
    BY <2>1, FlowMade
  <2>3. SetupTyped'
    BY <1>0, <2>1, <2>2 DEF SetupTyped
  <2>4. \A i \in Ids : pick[i] = "none" /\ task[i] \in Over
    BY <1>0, <2>1 DEF FormInv, InForm, SetupTyped
  <2>5. \A i \in Ids : pick'[i] # "none" => i = flow.id
    BY <1>0, <2>1, <2>4 DEF SetupTyped
  <2>6. \A i \in Ids : InForm(i)'
    BY <2>1, <2>2, <2>4, <2>5 DEF FormInv, InForm, Early, Polled, Over
  <2> QED BY <2>1, <2>3, <2>6 DEF FormInv
<1> QED BY <1>1, <1>2, <1>3, <1>4, <1>5 DEF OnForm

(* A task moves on while the form shows it, and takes the form with it.     *)
LEMMA TaskMoves ==
    ASSUME FormInv, NEW i \in Ids, NEW t \in Early \cup Polled \cup Over \cup {"sleep"},
           task[i] \notin Over, t # "none", task' = [task EXCEPT ![i] = t],
           UNCHANGED <<begun, pick, cancels, kind>>, setup' \in [Ids -> Setups], flow' \in Flows,
           flow'.st \in {"waiting", "selecting", "finishing"} => flow'.id \in Ids,
           t \in Early => flow'.st = "starting",
           t \in Polled \/ t = "sleep" => flow'.st = "waiting" /\ flow'.id = i,
           flow' = flow \/ flow.st # "finishing"
    PROVE  FormInv'
<1>0. SetupTyped /\ InForm(i)
  BY DEF FormInv
<1>1. task'[i] = t /\ \A j \in Ids \ {i} : task'[j] = task[j] /\ task[j] \in Over
  BY <1>0, OnlyTask DEF SetupTyped
<1>2. SetupTyped'
  BY <1>0 DEF SetupTyped
<1>3. ASSUME NEW j \in Ids, flow' # flow PROVE pick[j] = "none"
  BY <1>3 DEF FormInv, InForm
<1>4. InForm(i)'
  BY <1>0, <1>1, <1>3 DEF InForm, Over, SetupTyped
<1>5. \A j \in Ids \ {i} : InForm(j)'
  BY <1>1, <1>3 DEF FormInv, InForm, Early, Polled, Over
<1>6. \A j, k \in Ids : j # k => task'[j] \in Over \/ task'[k] \in Over
  BY <1>1
<1> QED BY <1>2, <1>4, <1>5, <1>6 DEF FormInv

LEMMA SetupMoves ==
    ASSUME FormInv, setup' \in [Ids -> Setups], cancels' \subseteq Ids,
           UNCHANGED <<begun, task, pick, kind, flow>>
    PROVE  FormInv'
BY DEF FormInv, SetupTyped, InForm

(* The choice of a drive moves on while the form shows it.                  *)
LEMMA PickMoves ==
    ASSUME FormInv, NEW i \in Ids, NEW t \in {"none", "asked", "config", "completed", "failed"},
           pick[i] # "none", pick' = [pick EXCEPT ![i] = t], setup' \in [Ids -> Setups],
           UNCHANGED <<begun, task, cancels, kind>>, flow' \in Flows,
           flow' = flow \/ (t = "none" /\ flow'.st \in {"completed", "failed"})
    PROVE  FormInv'
<1>0. SetupTyped /\ InForm(i)
  BY DEF FormInv
<1>1. flow.st = "finishing" /\ flow.id = i
  BY <1>0 DEF InForm
<1>2. SetupTyped'
  BY <1>0, <1>1 DEF SetupTyped
<1>3. \A j \in Ids : task[j] \in Over
  BY <1>0, <1>1 DEF FormInv, InForm, SetupTyped
<1>4. \A j \in Ids : j # i => pick'[j] = "none"
  BY <1>0, <1>1 DEF FormInv, InForm, SetupTyped
<1>5. pick'[i] = t
  BY <1>0 DEF SetupTyped
<1>6. \A j \in Ids : InForm(j)'
  BY <1>1, <1>3, <1>4, <1>5 DEF FormInv, InForm, Early, Polled, Over
<1> QED BY <1>2, <1>3, <1>6 DEF FormInv

LEMMA FormStepSetup ==
    ASSUME FormInv, Patient, NEW i \in Ids, OnSetup(i)
    PROVE  FormInv'
<1>0. SetupTyped /\ InForm(i)
  BY DEF FormInv
<1>1. /\ setup \in [Ids -> Setups] /\ flow \in Flows /\ cancels \subseteq Ids
      /\ flow.st \in {"waiting", "selecting", "finishing"} => flow.id \in Ids
  BY <1>0 DEF SetupTyped
<1>2. ASSUME NEW p \in {"google", "onedrive"}, BeginSetup(i, p) PROVE FormInv'
  <2>1. task[i] = "begin" /\ UNCHANGED <<begun, pick, cancels, kind, flow, chosen>>
    BY <1>2 DEF BeginSetup
  <2>2. flow.st = "starting"
    BY <1>0, <2>1 DEF InForm, Early
  <2>3. CASE task' = [task EXCEPT ![i] = "began"]
    BY <1>0, <1>1, <1>2, <2>1, <2>2, <2>3, BeginEffect, TaskMoves DEF Early, Polled, Over
  <2>4. CASE task' = [task EXCEPT ![i] = "refused"]
    BY <1>0, <1>1, <1>2, <2>1, <2>2, <2>4, BeginEffect, TaskMoves DEF Early, Polled, Over
  <2> QED BY <1>0, <1>2, <2>3, <2>4, BeginEffect
<1>3. CASE BeginAnswer(i)
  <2>0. UNCHANGED <<setup, begun, pick, cancels, kind, chosen>>
    BY <1>3 DEF BeginAnswer
  <2>1. flow.st = "starting"
    BY <1>0, <1>3 DEF BeginAnswer, InForm, Early
  <2>2. CASE /\ task[i] = "began" /\ flow' = Flow("waiting", i)
             /\ task' = [task EXCEPT ![i] = "sleep"]
    <3>1. flow' \in Flows /\ flow'.st = "waiting" /\ flow'.id = i
      BY <2>2, FlowMade
    <3> QED BY <1>1, <2>0, <2>1, <2>2, <3>1, TaskMoves DEF Early, Polled, Over
  <2>3. CASE /\ task[i] = "refused" /\ flow' = Flow("failed", NoId)
             /\ task' = [task EXCEPT ![i] = "ended"]
    <3>1. flow' \in Flows /\ flow'.st = "failed"
      BY <2>3, FlowMade
    <3> QED BY <1>1, <2>0, <2>1, <2>3, <3>1, TaskMoves DEF Early, Polled, Over
  <2> QED BY <1>3, <2>2, <2>3 DEF BeginAnswer
<1>4. CASE Browser(i) \/ GrowOld(i)
  BY <1>0, <1>1, <1>4, BrowserEffect, SetupMoves
<1>5. CASE Wake(i)
  <2>1. task[i] = "sleep" /\ UNCHANGED <<setup, begun, pick, cancels, kind, flow, chosen>>
    BY <1>5 DEF Wake
  <2>2. CASE flow.st = "waiting" /\ task' = [task EXCEPT ![i] = "poll"]
    <3>1. flow.id = i
      BY <1>0, <2>1, <2>2 DEF InForm
    <3> QED BY <1>1, <2>1, <2>2, <3>1, TaskMoves DEF Early, Polled, Over
  <2>3. CASE task' = [task EXCEPT ![i] = "ended"]
    BY <1>1, <2>1, <2>3, TaskMoves DEF Early, Polled, Over
  <2> QED BY <1>5, <2>2, <2>3 DEF Wake
<1>6. CASE Poll(i)
  <2>1. /\ task[i] = "poll" /\ UNCHANGED <<begun, pick, cancels, kind, flow, chosen>>
        /\ setup' \in [Ids -> Setups]
        /\ \E t \in {"not_found", "failed", "pending", "config"} : task' = [task EXCEPT ![i] = t]
    BY <1>0, <1>6, PollEffect
  <2>2. flow.st = "waiting" /\ flow.id = i
    BY <1>0, <2>1 DEF InForm, Polled
  <2> QED BY <1>1, <2>1, <2>2, TaskMoves DEF Early, Polled, Over
<1>7. CASE Configure(i)
  <2>1. /\ task[i] = "config" /\ UNCHANGED <<begun, pick, cancels, kind, flow, chosen>>
        /\ setup' \in [Ids -> Setups]
        /\ \E t \in {"completed", "failed", "drives"} : task' = [task EXCEPT ![i] = t]
    BY <1>0, <1>7, ConfigureEffect
  <2>2. flow.st = "waiting" /\ flow.id = i
    BY <1>0, <2>1 DEF InForm, Polled
  <2> QED BY <1>1, <2>1, <2>2, TaskMoves DEF Early, Polled, Over
<1>8. CASE PollAnswer(i)
  <2>0. UNCHANGED <<setup, begun, pick, cancels, kind>>
    BY <1>8 DEF PollAnswer
  <2>1. task[i] \in Polled /\ flow.st = "waiting" /\ flow.id = i
    BY <1>0, <1>8 DEF PollAnswer, InForm, Polled
  <2>2. CASE task' = [task EXCEPT ![i] = "sleep"] /\ flow' = flow
    BY <1>1, <2>0, <2>1, <2>2, TaskMoves DEF Early, Polled, Over
  <2>3. CASE /\ task' = [task EXCEPT ![i] = "ended"]
             /\ \/ flow' = Flow("failed", NoId) \/ flow' = Flow("completed", NoId)
                \/ flow' = Flow("selecting", i)
    <3>1. flow' \in Flows /\ (flow'.st \in {"waiting", "selecting", "finishing"} => flow'.id \in Ids)
      BY <2>3, FlowMade
    <3> QED BY <1>1, <2>0, <2>1, <2>3, <3>1, TaskMoves DEF Early, Polled, Over
  <2> QED BY <1>8, <2>2, <2>3 DEF PollAnswer
<1>9. CASE SelectDrive(i)
  <2>1. \E t \in {"config", "failed"} : pick' = [pick EXCEPT ![i] = t]
    BY <1>0, <1>9, DriveEffect
  <2> QED BY <1>0, <1>1, <1>9, <2>1, DriveEffect, PickMoves
<1>10. CASE FinishDrive(i)
  <2>1. \E t \in {"completed", "failed"} : pick' = [pick EXCEPT ![i] = t]
    BY <1>0, <1>10, FinishEffect
  <2> QED BY <1>0, <1>1, <1>10, <2>1, FinishEffect, PickMoves
<1>11. CASE PickAnswer(i)
  <2>1. /\ pick[i] # "none" /\ pick' = [pick EXCEPT ![i] = "none"]
        /\ flow' = Flow("completed", NoId) \/ flow' = Flow("failed", NoId)
        /\ UNCHANGED <<setup, begun, task, cancels, kind>>
    BY <1>11 DEF PickAnswer
  <2>2. flow' \in Flows /\ flow'.st \in {"completed", "failed"}
    BY <2>1, FlowMade
  <2> QED BY <1>1, <2>1, <2>2, PickMoves
<1>12. CASE Cancel(i)
  BY <1>0, <1>1, <1>12, CancelEffect, SetupMoves
<1> QED BY <1>2, <1>3, <1>4, <1>5, <1>6, <1>7, <1>8, <1>9, <1>10, <1>11, <1>12 DEF OnSetup

LEMMA FormStep ==
    ASSUME FormInv, Patient, [SetupNext]_setupVars
    PROVE  FormInv'
<1>1. CASE UNCHANGED setupVars
  BY <1>1 DEF setupVars, FormInv, SetupTyped, InForm
<1> QED BY <1>1, SetupCases, FormStepForm, FormStepSetup

(* A step on one setup leaves the others in the hands they were in, unless  *)
(* it takes the form away from them.                                        *)
LEMMA OthersHeld ==
    ASSUME SetupInv, NEW i \in Ids, Untouched(i), UNCHANGED begun,
           cancels \ {i} \subseteq cancels',
           \A j \in Ids \ {i} : task'[j] = task[j] /\ pick'[j] = pick[j],
           flow' = flow \/ task[i] \notin Over \/ pick[i] # "none"
    PROVE  \A j \in Ids \ {i} : InBackend(j)'
<1>1. SUFFICES ASSUME NEW j \in Ids \ {i} PROVE InBackend(j)'
  OBVIOUS
<1>2. /\ setup'[j] = setup[j] /\ task'[j] = task[j] /\ pick'[j] = pick[j]
      /\ j \in cancels => j \in cancels'
  BY DEF Untouched
<1>3. InBackend(j) /\ InForm(i) /\ InForm(j) /\ SetupTyped
  BY DEF SetupInv, FormInv
<1>4. CASE flow' = flow
  BY <1>2, <1>3, <1>4 DEF InBackend
<1>5. CASE task[i] \notin Over
  <2>1. task[j] \in Over
    BY <1>5, OnlyTask DEF SetupInv
  <2>2. ~(flow.st = "selecting" /\ flow.id = j)
    BY <1>3, <1>5 DEF InForm, SetupTyped
  <2> QED BY <1>2, <1>3, <2>1, <2>2 DEF InBackend, Over
<1>6. CASE pick[i] # "none"
  <2>1. flow.st = "finishing"
    BY <1>3, <1>6 DEF InForm
  <2> QED BY <1>2, <1>3, <2>1 DEF InBackend
<1> QED BY <1>4, <1>5, <1>6

LEMMA BackendStepForm ==
    ASSUME SetupInv, Habits = {}, OnForm
    PROVE  \A i \in Ids : InBackend(i)'
<1> USE OAuthConstants
<1>0. FormInv /\ SetupTyped /\ Patient
  BY DEF SetupInv, FormInv, Patient
<1>1. ASSUME NEW k \in Kinds, SelectKind(k) PROVE \A i \in Ids : InBackend(i)'
  <2>1. /\ flow' = NoFlow /\ UNCHANGED <<setup, begun, task, pick>>
        /\ flow.st \notin {"starting", "selecting", "finishing"}
        /\ flow.st = "waiting" => flow.id \in cancels'
        /\ cancels \subseteq cancels'
    BY <1>1 DEF SelectKind, CancelOnSwitch
  <2>2. flow.st = "waiting" => task[flow.id] = "sleep"
    BY <1>0, <1>1, Unhurries DEF SelectKind, SetupTyped
  <2>3. ASSUME NEW i \in Ids PROVE InBackend(i)'
    <3>1. InBackend(i) /\ InForm(i)
      BY DEF SetupInv, FormInv
    <3>2. task[i] # "drives"
      BY <2>2, <3>1 DEF InForm, Polled
    <3> QED BY <2>1, <3>1, <3>2 DEF InBackend
  <2> QED BY <2>3
<1>2. CASE Connect
  <2>0. begun + 1 \in Ids
    BY <1>0, <1>2, ConnectEffect
  <2>a. PICK n \in Ids : n = begun + 1
    BY <2>0
  <2>1. /\ begun' = n
        /\ Untouched(n) /\ setup'[n].place = setup[n].place
        /\ setup'[n].child = setup[n].child /\ setup'[n].conf = setup[n].conf
        /\ setup'[n].left = setup[n].left
    BY <1>0, <1>2, <2>a, ConnectEffect
  <2>2. /\ flow.st \in {"idle", "failed"} /\ UNCHANGED <<pick, cancels>>
        /\ \A i \in Ids : task[i] \in Over
    BY <1>2 DEF Connect, Over
  <2>3. task' = [task EXCEPT ![n] = "begin"]
    BY <1>2, <2>1, <2>a DEF Connect
  <2>4. begun \in Nat /\ n > begun
    BY <1>0, <2>a DEF SetupTyped
  <2>5. InBackend(n)'
    <3>1. setup[n].place = "none" /\ InBackend(n) /\ task'[n] = "begin"
      BY <1>0, <2>3, <2>4 DEF SetupInv, InBackend, SetupTyped
    <3>2. pick[n] = "none"
      BY <2>2 DEF SetupInv, FormInv, InForm
    <3> QED BY <2>1, <2>2, <3>1, <3>2 DEF InBackend
  <2>6. ASSUME NEW i \in Ids \ {n} PROVE InBackend(i)'
    <3>1. InBackend(i) /\ task'[i] = task[i] /\ setup'[i] = setup[i]
      BY <1>0, <2>1, <2>3 DEF SetupInv, SetupTyped, Untouched
    <3>2. i > n => i > begun
      BY <2>1, <2>4 DEF Ids
    <3> QED BY <2>1, <2>2, <3>1, <3>2 DEF InBackend, Over
  <2> QED BY <2>5, <2>6
<1>3. CASE CancelSetup
  <2>1. /\ flow' = NoFlow /\ UNCHANGED <<setup, begun, task, pick>>
        /\ cancels' = cancels \cup {flow.id} /\ flow.st \in {"waiting", "selecting"}
    BY <1>3 DEF CancelSetup
  <2>2. flow.st = "waiting" => task[flow.id] = "sleep"
    BY <1>0, <1>3, Unhurries DEF CancelSetup, SetupTyped
  <2>3. ASSUME NEW i \in Ids PROVE InBackend(i)'
    <3>1. InBackend(i) /\ InForm(i)
      BY DEF SetupInv, FormInv
    <3> QED BY <2>1, <2>2, <3>1 DEF InBackend
  <2> QED BY <2>3
<1>4. CASE LeavePage
  <2>1. /\ ~FlowPending /\ UNCHANGED <<setup, begun, cancels>>
        /\ task' = [i \in Ids |-> IF i <= begun THEN "ended" ELSE "none"]
        /\ pick' = [i \in Ids |-> "none"]
    BY <1>4 DEF LeavePage
  <2>2. flow.st \notin {"starting", "waiting", "selecting", "finishing"}
    BY <2>1 DEF FlowPending
  <2>3. ASSUME NEW i \in Ids PROVE InBackend(i)'
    <3>1. InBackend(i) /\ InForm(i)
      BY DEF SetupInv, FormInv
    <3>2. (i <= begun \/ i > begun) /\ (i > begun => ~(i <= begun))
      BY <1>0 DEF Ids, SetupTyped
    <3>3. task'[i] \in Over /\ (task'[i] = "none" => i > begun) /\ pick'[i] = "none"
      BY <2>1, <3>2 DEF Over
    <3>4. \/ setup[i].place \notin {"setups", "taken", "pending"}
          \/ i \in cancels /\ setup[i].place # "taken"
          \/ setup[i].left /\ setup[i].place = "setups"
      BY <2>2, <3>1 DEF InBackend, InForm, Early, Polled
    <3> QED BY <2>1, <3>1, <3>3, <3>4 DEF InBackend, Over
  <2> QED BY <2>3
<1>5. CASE PickDrive
  <2>1. /\ flow.st = "selecting" /\ flow.id \in Ids
        /\ pick' = [pick EXCEPT ![flow.id] = "asked"]
        /\ UNCHANGED <<setup, begun, task, cancels>>
    BY <1>0, <1>5 DEF PickDrive, SetupTyped
  <2>2. ASSUME NEW i \in Ids PROVE InBackend(i)'
    <3>1. InBackend(i) /\ InForm(i)
      BY DEF SetupInv, FormInv
    <3>2. pick'[i] = IF i = flow.id THEN "asked" ELSE pick[i]
      BY <1>0, <2>1 DEF SetupTyped
    <3>3. pick[i] = "none"
      BY <2>1, <3>1 DEF InForm
    <3> QED BY <2>1, <3>1, <3>2, <3>3 DEF InBackend
  <2> QED BY <2>2
<1> QED BY <1>1, <1>2, <1>3, <1>4, <1>5 DEF OnForm

LEMMA BackendStepSetup ==
    ASSUME SetupInv, Habits = {}, NEW i \in Ids, OnSetup(i)
    PROVE  \A j \in Ids : InBackend(j)'
<1>0. SetupTyped /\ InForm(i) /\ InBackend(i)
  BY DEF SetupInv, FormInv
<1>1. ASSUME NEW t, task' = [task EXCEPT ![i] = t]
      PROVE  task'[i] = t /\ \A j \in Ids \ {i} : task'[j] = task[j]
  BY <1>0, <1>1 DEF SetupTyped
<1>2. ASSUME NEW t, pick' = [pick EXCEPT ![i] = t]
      PROVE  pick'[i] = t /\ \A j \in Ids \ {i} : pick'[j] = pick[j]
  BY <1>0, <1>2 DEF SetupTyped
<1>3. ASSUME NEW p \in {"google", "onedrive"}, BeginSetup(i, p) PROVE \A j \in Ids : InBackend(j)'
  <2>1. task[i] = "begin" /\ UNCHANGED <<begun, pick, cancels, kind, flow, chosen>> /\ Untouched(i)
    BY <1>0, <1>3, BeginEffect DEF BeginSetup
  <2>2. ~(i > begun) /\ setup[i].place = "none"
    BY <1>0, <2>1 DEF InForm, InBackend
  <2>3. \/ task'[i] = "began" /\ setup'[i].place = "setups" /\ setup'[i].conf = "bare"
        \/ /\ task'[i] = "refused" /\ setup'[i].place = "none"
           /\ \/ setup'[i].left
              \/ /\ setup'[i].left = setup[i].left
                 /\ setup'[i].child = setup[i].child /\ setup'[i].conf # "token"
    BY <1>0, <1>1, <1>3, <2>2, BeginEffect
  <2>4. InBackend(i)'
    BY <1>0, <2>1, <2>2, <2>3 DEF InBackend
  <2>5. \A j \in Ids \ {i} : task'[j] = task[j]
    BY <1>0, <1>1, <1>3, BeginEffect
  <2> QED BY <2>1, <2>4, <2>5, OthersHeld
<1>4. CASE BeginAnswer(i)
  <2>1. UNCHANGED <<setup, begun, pick, cancels, kind, chosen>> /\ Untouched(i)
    BY <1>4 DEF BeginAnswer, Untouched
  <2>2. /\ \/ task[i] = "began" /\ flow' = Flow("waiting", i) /\ task'[i] = "sleep"
           \/ task[i] = "refused" /\ task'[i] = "ended"
        /\ \A j \in Ids \ {i} : task'[j] = task[j]
    BY <1>1, <1>4 DEF BeginAnswer
  <2>3. flow' = Flow("waiting", i) => flow'.st = "waiting" /\ flow'.id = i
    BY FlowMade
  <2>4. flow.st = "starting"
    BY <1>0, <2>2 DEF InForm, Early
  <2>5. InBackend(i)'
    BY <1>0, <2>1, <2>2, <2>3, <2>4 DEF InBackend
  <2> QED BY <2>1, <2>2, <2>5, OthersHeld DEF Over
<1>5. CASE Browser(i) \/ GrowOld(i)
  <2>1. /\ Untouched(i) /\ setup'[i].place = setup[i].place
        /\ setup'[i].child = "running" => setup[i].child = "running"
        /\ setup'[i].conf = "token" => setup[i].conf = "token" \/ setup[i].child = "running"
        /\ setup'[i].left = setup[i].left
        /\ UNCHANGED <<begun, task, pick, cancels, kind, flow, chosen>>
    BY <1>0, <1>5, BrowserEffect
  <2>2. InBackend(i)'
    BY <1>0, <2>1 DEF InBackend
  <2> QED BY <2>1, <2>2, OthersHeld
<1>6. CASE Wake(i)
  <2>1. /\ task[i] = "sleep" /\ UNCHANGED <<setup, begun, pick, cancels, kind, flow, chosen>>
        /\ Untouched(i)
    BY <1>6 DEF Wake, Untouched
  <2>2. /\ task'[i] = IF flow.st = "waiting" THEN "poll" ELSE "ended"
        /\ \A j \in Ids \ {i} : task'[j] = task[j]
    BY <1>1, <1>6 DEF Wake
  <2>3. InBackend(i)'
    BY <1>0, <2>1, <2>2 DEF InBackend
  <2> QED BY <2>1, <2>2, <2>3, OthersHeld
<1>7. CASE Poll(i)
  <2>1. task[i] = "poll" /\ UNCHANGED <<begun, pick, cancels, kind, flow, chosen>> /\ Untouched(i)
    BY <1>0, <1>7, PollEffect
  <2>2. /\ \/ task'[i] = "not_found" /\ setup' = setup /\ setup[i].place # "setups"
           \/ task'[i] = "failed" /\ EndsWell(i)
           \/ task'[i] = "failed" /\ setup'[i].place = "setups" /\ setup'[i].left
           \/ task'[i] = "pending" /\ setup' = setup
           \/ task'[i] = "config" /\ setup'[i].place = "taken" /\ setup'[i].child # "running"
        /\ \A j \in Ids \ {i} : task'[j] = task[j]
    BY <1>0, <1>1, <1>7, PollEffect
  <2>3. ~(i > begun) /\ pick[i] = "none"
    BY <1>0, <2>1 DEF InForm, Polled
  <2>4. InBackend(i)'
    BY <1>0, <2>1, <2>2, <2>3 DEF InBackend, EndsWell
  <2> QED BY <2>1, <2>2, <2>4, OthersHeld
<1>8. CASE Configure(i)
  <2>1. task[i] = "config" /\ UNCHANGED <<begun, pick, cancels, kind, flow, chosen>> /\ Untouched(i)
    BY <1>0, <1>8, ConfigureEffect
  <2>2. ~(i > begun) /\ flow.st = "waiting" /\ flow.id = i /\ pick[i] = "none"
    BY <1>0, <2>1 DEF InForm, Polled
  <2>3. /\ \/ task'[i] \in {"completed", "failed"} /\ EndsWell(i)
           \/ /\ task'[i] = "drives" /\ setup'[i].place = "pending"
              /\ setup'[i].child = setup[i].child /\ setup'[i].conf = setup[i].conf
              /\ setup'[i].left = setup[i].left
        /\ \A j \in Ids \ {i} : task'[j] = task[j]
    <3>1. CASE /\ task' = [task EXCEPT ![i] = "completed"] \/ task' = [task EXCEPT ![i] = "failed"]
               /\ EndsWell(i)
      BY <1>1, <3>1
    <3>2. CASE /\ task' = [task EXCEPT ![i] = "drives"] /\ setup'[i].place = "pending"
               /\ setup'[i].child = setup[i].child /\ setup'[i].conf = setup[i].conf
               /\ setup'[i].left = setup[i].left
      BY <1>1, <3>2
    <3> QED BY <1>0, <1>8, <3>1, <3>2, ConfigureEffect
  <2>4. setup[i].child # "running" \/ setup[i].left
    BY <1>0, <2>1 DEF InBackend
  <2>5. InBackend(i)'
    BY <1>0, <2>1, <2>2, <2>3, <2>4 DEF InBackend, EndsWell
  <2> QED BY <2>1, <2>3, <2>5, OthersHeld
<1>9. CASE PollAnswer(i)
  <2>1. UNCHANGED <<setup, begun, pick, cancels, kind>> /\ Untouched(i)
    BY <1>9 DEF PollAnswer, Untouched
  <2>2. /\ \/ task[i] = "pending" /\ task'[i] = "sleep" /\ flow' = flow
           \/ task[i] \in {"failed", "not_found", "completed"} /\ task'[i] = "ended"
           \/ task[i] = "drives" /\ task'[i] = "ended" /\ flow' = Flow("selecting", i)
        /\ \A j \in Ids \ {i} : task'[j] = task[j]
    BY <1>1, <1>9 DEF PollAnswer
  <2>3. flow' = Flow("selecting", i) => flow'.st = "selecting" /\ flow'.id = i
    BY FlowMade
  <2>4. flow.st = "waiting" /\ flow.id = i /\ pick[i] = "none"
    BY <1>0, <2>2 DEF InForm, Polled
  <2>5. InBackend(i)'
    BY <1>0, <2>1, <2>2, <2>3, <2>4 DEF InBackend
  <2> QED BY <2>1, <2>2, <2>5, OthersHeld DEF Over
<1>10. CASE SelectDrive(i)
  <2>1. pick[i] = "asked" /\ UNCHANGED <<begun, task, cancels, kind, flow, chosen>> /\ Untouched(i)
    BY <1>0, <1>10, DriveEffect
  <2>2. /\ \/ /\ pick'[i] = "config" /\ setup'[i].place = "taken" /\ setup[i].place = "pending"
              /\ setup'[i].child = setup[i].child /\ setup'[i].conf = setup[i].conf
              /\ setup'[i].left = setup[i].left
           \/ pick'[i] = "failed" /\ setup' = setup /\ setup[i].place # "pending"
        /\ \A j \in Ids \ {i} : pick'[j] = pick[j]
    BY <1>0, <1>2, <1>10, DriveEffect
  <2>3. InBackend(i)'
    BY <1>0, <2>1, <2>2 DEF InBackend
  <2> QED BY <2>1, <2>2, <2>3, OthersHeld
<1>11. CASE FinishDrive(i)
  <2>1. /\ pick[i] = "config" /\ UNCHANGED <<begun, task, cancels, kind, flow, chosen>>
        /\ Untouched(i) /\ EndsWell(i)
    BY <1>0, <1>11, FinishEffect
  <2>2. pick'[i] \in {"completed", "failed"} /\ \A j \in Ids \ {i} : pick'[j] = pick[j]
    BY <1>0, <1>2, <1>11, FinishEffect
  <2>3. ~(i > begun) /\ task[i] \notin {"none", "begin", "config"}
    BY <1>0, <2>1 DEF InForm, InBackend, Early, Polled
  <2>4. InBackend(i)'
    BY <1>0, <2>1, <2>2, <2>3 DEF InBackend, EndsWell
  <2> QED BY <2>1, <2>2, <2>4, OthersHeld
<1>12. CASE PickAnswer(i)
  <2>1. /\ pick[i] \in {"completed", "failed"} /\ pick' = [pick EXCEPT ![i] = "none"]
        /\ UNCHANGED <<setup, begun, task, cancels, kind>> /\ Untouched(i)
    BY <1>12 DEF PickAnswer, Untouched
  <2>2. pick'[i] = "none" /\ \A j \in Ids \ {i} : pick'[j] = pick[j]
    BY <1>2, <2>1
  <2>3. flow.st = "finishing"
    BY <1>0, <2>1 DEF InForm
  <2>4. InBackend(i)'
    BY <1>0, <2>1, <2>2, <2>3 DEF InBackend
  <2> QED BY <2>1, <2>2, <2>4, OthersHeld
<1>13. CASE Cancel(i)
  <2>1. /\ cancels' = cancels \ {i} /\ UNCHANGED <<begun, task, pick, kind, flow, chosen>>
        /\ Untouched(i)
        /\ \/ setup[i].place \in {"pending", "setups"} /\ EndsWell(i)
           \/ setup' = setup /\ setup[i].place \notin {"pending", "setups"}
    BY <1>0, <1>13, CancelEffect
  <2>2. InBackend(i)'
    BY <1>0, <2>1 DEF InBackend, EndsWell
  <2> QED BY <2>1, <2>2, OthersHeld
<1> QED BY <1>3, <1>4, <1>5, <1>6, <1>7, <1>8, <1>9, <1>10, <1>11, <1>12, <1>13 DEF OnSetup

LEMMA SetupStep ==
    ASSUME SetupInv, Habits = {}, [SetupNext]_setupVars
    PROVE  SetupInv'
<1>1. FormInv'
  BY FormStep DEF SetupInv, Patient
<1>2. CASE UNCHANGED setupVars
  BY <1>1, <1>2 DEF setupVars, SetupInv, InBackend
<1> QED BY <1>1, <1>2, SetupCases, BackendStepForm, BackendStepSetup DEF SetupInv

LEMMA SomebodyComes ==
    ASSUME SetupInv
    PROVE  NothingAbandoned
<1>1. SUFFICES ASSUME NEW i \in Ids, Live(i), ~setup[i].left PROVE Watched(i)
  BY DEF NothingAbandoned
<1>2. InForm(i) /\ InBackend(i)
  BY DEF SetupInv, FormInv
<1>3. setup[i].place \in {"setups", "taken", "pending"}
  BY <1>1, <1>2 DEF Live, InBackend
<1> QED BY <1>1, <1>2, <1>3 DEF Watched, FlowPending, InForm, InBackend, Early, Polled

(* A child that serves the sign-in page, or a conf that holds a token, is   *)
(* never forgotten, however many setups there were: some part of the form   *)
(* waits for it or a cancel_oauth_setup is on its way.  Excepted is what a  *)
(* failure left: a begin that failed after the spawn, a poll that could not *)
(* read the child's state, a kill or a removal that failed.  It takes a     *)
(* user who waits for each answer (Habits = {}); with any of the four       *)
(* habits TLC shows a setup that is lost though nothing failed.             *)
THEOREM SetupsAreWatched ==
    ASSUME Habits = {}
    PROVE  SetupSpec => []NothingAbandoned
<1>1. SetupInit => SetupInv
  BY FormInit
<1>2. SetupInv /\ [SetupNext]_setupVars => SetupInv'
  BY SetupStep
<1>3. SetupInv => NothingAbandoned
  BY SomebodyComes
<1> QED BY <1>1, <1>2, <1>3, PTL DEF SetupSpec

(* The step of CompletionWanted.                                            *)
Wanted == chosen' # chosen /\ chosen' \in Ids => flow.id = chosen' /\ FlowPending

LEMMA WantedStep ==
    ASSUME FormInv, SetupNext
    PROVE  Wanted
<1>1. CASE OnForm
  <2>1. chosen' = chosen \/ chosen' = 0
    BY <1>1 DEF OnForm, SelectKind, Connect, CancelSetup, LeavePage, PickDrive
  <2> QED BY <2>1 DEF Wanted, Ids
<1>2. ASSUME NEW i \in Ids, OnSetup(i) PROVE Wanted
  <2>1. InForm(i)
    BY DEF FormInv
  <2>2. CASE PollAnswer(i)
    BY <2>1, <2>2 DEF PollAnswer, InForm, Polled, Wanted, FlowPending
  <2>3. CASE PickAnswer(i)
    BY <2>1, <2>3 DEF PickAnswer, InForm, Wanted, FlowPending
  <2>4. CASE ~PollAnswer(i) /\ ~PickAnswer(i)
    <3>1. chosen' = chosen
      BY <1>2, <2>4 DEF OnSetup, BeginSetup, BeginAnswer, Browser, GrowOld, Wake, Poll,
                        Configure, SelectDrive, FinishDrive, Cancel
    <3> QED BY <3>1 DEF Wanted
  <2> QED BY <2>2, <2>3, <2>4
<1> QED BY <1>1, <1>2, SetupCases

(* A connection changes the form only while the form waits for it: not      *)
(* after Cancel, and not after the user turned to another kind; even if the *)
(* form is left in the middle of a setup and opened again.                  *)
THEOREM OnlyWantedCompletions ==
    ASSUME Patient
    PROVE  SetupSpec => CompletionWanted
<1>1. SetupInit => FormInv
  BY FormInit DEF SetupInv
<1>2. FormInv /\ [SetupNext]_setupVars => FormInv'
  BY FormStep
<1>3. FormInv /\ [SetupNext]_setupVars => [Wanted]_setupVars
  BY WantedStep
<1>4. SetupSpec => []FormInv /\ [][SetupNext]_setupVars
  BY <1>1, <1>2, PTL DEF SetupSpec
<1>5. SetupSpec => [][Wanted]_setupVars
  BY <1>3, <1>4, PTL
<1>6. CompletionWanted <=> [][Wanted]_setupVars
  BY DEF CompletionWanted, Wanted
<1> QED BY <1>5, <1>6

=============================================================================
