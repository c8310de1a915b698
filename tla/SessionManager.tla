--------------------------- MODULE SessionManager ---------------------------
(***************************************************************************)
(* The session lifecycle of auth/session/manager.rs: who may hold the keys *)
(* and when.  authenticate (and the ceremonies' finalize_session_install)  *)
(* installs keys, lock() and the inactivity timer drop them after waiting  *)
(* for the operations that hold an OperationGuard, reset_timer aborts and  *)
(* respawns the timer, and the re-keying ceremonies swap the keys in       *)
(* place.  The fields live behind separate locks and atomics, so every     *)
(* field access is a step of its own.  An aborted task stops between two   *)
(* of its steps.                                                            *)
(*                                                                          *)
(* A session is known by the number of the authentication that opened it;  *)
(* 0 stands for None.                                                       *)
(***************************************************************************)
EXTENDS Integers, FiniteSets

CONSTANTS
    Lockers,      \* concurrent calls of lock()
    Ops,          \* concurrent ceremonies that take an OperationGuard
    MaxAuth,      \* bound on successful authentications
    MaxOps,       \* bound on guards handed out while the gate stays open
    GateFlag,     \* GATE_CLOSED_FLAG, 2^31 in the code
    Races,        \* may tasks that open or renew a session overlap tasks
                  \* that close it?  The answers to try
    RaceAuth,     \* bound on successful authentications if they may
    RaceOps,      \* bound: the ceremonies that run if they may
    MaxFailed     \* bound on failed logins

(* The code does not keep authenticate, reset_timer and begin_operation    *)
(* apart from a lock() or a timeout that is under way.  When races is FALSE *)
(* they happen not to overlap, and only operations that already hold their  *)
(* guard do: what the guard is for.                                         *)

ASSUME BoundsAssumption ==
    /\ MaxAuth \in Nat /\ MaxOps \in Nat
    /\ GateFlag \in Nat /\ GateFlag > MaxOps
    /\ Races \subseteq BOOLEAN /\ Races # {}
    /\ RaceAuth \in 0 .. MaxAuth /\ RaceOps \subseteq Ops /\ MaxFailed \in Nat

(* A process runs finitely many ceremonies at a time.                       *)
ASSUME FiniteOpsAssumption == IsFiniteSet(Ops)

VARIABLES
    keys,         \* session: whose SessionKeys are resident
    life,         \* lifecycle
    gate,         \* gate_and_counter: GateFlag bit plus a count
    watch,        \* operation_counter watch channel
    vaultId,      \* vault_id
    dbPath,       \* vault_db_path
    confPath,     \* rclone_conf_path
    confFiles,    \* rclone.conf files that exist on disk
    warned,       \* those whose deletion failed, which is logged and no more
    lockConf,     \* the path each lock() has taken to delete the file
    timer,        \* step of the timeout task: none, sleep, wait, conf, wipe, drop, life
    timerConf,    \* the path it has taken
    authPc, authGen,
    lockPc,
    resetPc,
    opPc, opGen, opGuarded,
    races,        \* does this behaviour have such overlaps? (never changes)
    failed,       \* failed_attempts
    wrong         \* logins that failed since the last that succeeded (history)

conf   == <<confPath, confFiles, warned, lockConf>>
fields == <<keys, life, gate, watch, vaultId, dbPath, conf>>
timerTask == <<timer, timerConf>>
auth   == <<authPc, authGen>>
op     == <<opPc, opGen, opGuarded>>
login  == <<races, failed, wrong>>
vars   == <<fields, timerTask, auth, lockPc, resetPc, op, login>>

Sessions == 0 .. MaxAuth
Limit    == IF races THEN RaceAuth ELSE MaxAuth

TypeOK ==
    /\ keys \in Sessions /\ vaultId \in Sessions /\ dbPath \in Sessions
    /\ confPath \in Sessions /\ timerConf \in Sessions
    /\ lockConf \in [Lockers -> Sessions]
    /\ confFiles \subseteq Sessions /\ warned \subseteq Sessions
    /\ life \in {"NoSession", "Active", "Expired"}
    /\ gate \in 0 .. 2 * GateFlag - 1
    /\ watch \in 0 .. Cardinality(Ops)
    /\ timer \in {"none", "sleep", "wait", "conf", "wipe", "drop", "life"}
    /\ authPc \in {"idle", "derive", "keys", "life", "gate", "ids", "timer", "confset", "confwrite"}
    /\ authGen \in Sessions
    /\ lockPc \in [Lockers -> {"idle", "close", "cancel", "wait", "take", "conf", "wipe", "drop", "life", "ids"}]
    /\ resetPc \in {"idle", "restart"}
    /\ opPc \in [Ops -> {"idle", "count", "recheck", "run", "work", "swap", "timer", "vault", "end"}]
    /\ opGen \in [Ops -> Sessions]
    /\ opGuarded \in [Ops -> BOOLEAN]
    /\ races \in Races /\ failed \in 0 .. MaxFailed /\ wrong \in 0 .. MaxFailed

Init ==
    /\ keys = 0 /\ life = "NoSession" /\ gate = GateFlag /\ watch = 0
    /\ vaultId = 0 /\ dbPath = 0 /\ confPath = 0 /\ confFiles = {}
    /\ warned = {} /\ lockConf = [l \in Lockers |-> 0]
    /\ timer = "none" /\ timerConf = 0
    /\ authPc = "idle" /\ authGen = 0
    /\ lockPc = [l \in Lockers |-> "idle"]
    /\ resetPc = "idle"
    /\ opPc = [o \in Ops |-> "idle"]
    /\ opGen = [o \in Ops |-> 0]
    /\ opGuarded = [o \in Ops |-> FALSE]
    /\ races \in Races /\ failed = 0 /\ wrong = 0

GateClosed == gate >= GateFlag
CloseGate  == gate' = IF GateClosed THEN gate ELSE gate + GateFlag

(* A lock() or a timeout is under way.                                      *)
Closing == timer \notin {"none", "sleep"} \/ \E l \in Lockers : lockPc[l] # "idle"

(* Something that opens or renews a session, or an operation without a     *)
(* guard (yet), is under way.                                               *)
Opening ==
    \/ authPc # "idle" \/ resetPc # "idle"
    \/ \E o \in Ops : opPc[o] # "idle" /\ ~opGuarded[o]

(* destroy_session_rclone_conf and its caller: the file is overwritten and  *)
(* removed, or it stays and a warning says so.                              *)
Wipe(path) ==
    \/ confFiles' = confFiles \ {path} /\ UNCHANGED warned
    \/ path \in confFiles /\ warned' = warned \cup {path} /\ UNCHANGED confFiles

(* A new timer task, or none; one that was running is aborted.              *)
RestartTimer == timer' = "sleep" /\ timerConf' = 0
CancelTimer  == timer' = "none" /\ timerConf' = 0

MayOpen  == races \/ ~Closing
MayClose == races \/ ~(Closing \/ Opening)

-----------------------------------------------------------------------------
(* authenticate, one at a time by authenticate_gate, after the sleep that  *)
(* the failures before ask for.                                             *)

AuthBegin ==
    /\ MayOpen
    /\ authPc = "idle" /\ life # "Active"
    /\ authPc' = "derive"
    /\ UNCHANGED <<fields, timerTask, authGen, lockPc, resetPc, op, login>>

(* record_failed_attempt, with the count it finds.                          *)
RecordFailedAttempt(found) == failed' = found + 1

(* Deriving keys succeeds with any password and resets failed_attempts;    *)
(* only then does the database refuse a wrong one.  A key file that cannot  *)
(* be read counts, one that is missing does not.                            *)
AuthDerive ==
    /\ authPc = "derive"
    /\ \/ /\ authGen < Limit /\ authPc' = "keys" /\ authGen' = authGen + 1
          /\ failed' = 0 /\ wrong' = 0
       \/ /\ wrong < MaxFailed /\ wrong' = wrong + 1
          /\ \E found \in {0, failed} : RecordFailedAttempt(found)
          /\ authPc' = "idle" /\ UNCHANGED authGen
       \/ authPc' = "idle" /\ UNCHANGED <<authGen, failed, wrong>>
    /\ UNCHANGED <<fields, timerTask, lockPc, resetPc, op, races>>

AuthInstallKeys ==
    /\ authPc = "keys" /\ authPc' = "life"
    /\ keys' = authGen
    /\ UNCHANGED <<life, gate, watch, vaultId, dbPath, conf,
                   timerTask, authGen, lockPc, resetPc, op, login>>

AuthActivate ==
    /\ authPc = "life" /\ authPc' = "gate"
    /\ life' = "Active"
    /\ UNCHANGED <<keys, gate, watch, vaultId, dbPath, conf,
                   timerTask, authGen, lockPc, resetPc, op, login>>

AuthOpenGate ==
    /\ authPc = "gate" /\ authPc' = "ids"
    /\ gate' = gate % GateFlag
    /\ UNCHANGED <<keys, life, watch, vaultId, dbPath, conf,
                   timerTask, authGen, lockPc, resetPc, op, login>>

AuthSetIds ==
    /\ authPc = "ids" /\ authPc' = "timer"
    /\ vaultId' = authGen /\ dbPath' = authGen
    /\ UNCHANGED <<keys, life, gate, watch, conf,
                   timerTask, authGen, lockPc, resetPc, op, login>>

AuthStartTimer ==
    /\ authPc = "timer" /\ authPc' = "confset"
    /\ RestartTimer
    /\ UNCHANGED <<fields, authGen, lockPc, resetPc, op, login>>

(* try_build_and_swap_rclone_transport: a conf path left over is wiped, the *)
(* new path is recorded, then the file with the credentials is written.  A  *)
(* directory that cannot be made ends it at once; a file that cannot be     *)
(* written may be there in part.                                            *)
AuthSetConf ==
    /\ authPc = "confset"
    /\ Wipe(confPath)
    /\ \/ confPath' = authGen /\ authPc' = "confwrite"
       \/ UNCHANGED confPath /\ authPc' = "idle"
    /\ UNCHANGED <<keys, life, gate, watch, vaultId, dbPath, lockConf,
                   timerTask, authGen, lockPc, resetPc, op, login>>

AuthWriteConf ==
    /\ authPc = "confwrite" /\ authPc' = "idle"
    /\ confFiles' \in {confFiles, confFiles \cup {authGen}}
    /\ UNCHANGED <<keys, life, gate, watch, vaultId, dbPath, confPath, warned, lockConf,
                   timerTask, authGen, lockPc, resetPc, op, login>>

-----------------------------------------------------------------------------
(* lock(), any number of callers at a time.                                 *)

LockBegin(l) ==
    /\ MayClose
    /\ lockPc[l] = "idle" /\ life = "Active"
    /\ lockPc' = [lockPc EXCEPT ![l] = "close"]
    /\ UNCHANGED <<fields, timerTask, auth, resetPc, op, login>>

LockCloseGate(l) ==
    /\ lockPc[l] = "close"
    /\ lockPc' = [lockPc EXCEPT ![l] = "cancel"]
    /\ CloseGate
    /\ UNCHANGED <<keys, life, watch, vaultId, dbPath, conf,
                   timerTask, auth, resetPc, op, login>>

LockCancelTimer(l) ==
    /\ lockPc[l] = "cancel"
    /\ lockPc' = [lockPc EXCEPT ![l] = "wait"]
    /\ CancelTimer
    /\ UNCHANGED <<fields, auth, resetPc, op, login>>

(* Mutant of LockWait: does not wait for the guards.                        *)
LockWaitNot(l) ==
    /\ lockPc[l] = "wait"
    /\ lockPc' = [lockPc EXCEPT ![l] = "take"]
    /\ UNCHANGED <<fields, timerTask, auth, resetPc, op, login>>

LockWait(l) ==
    /\ lockPc[l] = "wait" /\ watch = 0
    /\ lockPc' = [lockPc EXCEPT ![l] = "take"]
    /\ UNCHANGED <<fields, timerTask, auth, resetPc, op, login>>

LockTakeKeys(l) ==
    /\ lockPc[l] = "take"
    /\ lockPc' = [lockPc EXCEPT ![l] = "conf"]
    /\ keys' = 0
    /\ UNCHANGED <<life, gate, watch, vaultId, dbPath, conf,
                   timerTask, auth, resetPc, op, login>>

(* destroy_rclone_conf takes the path, and with the path in hand deletes.   *)
LockTakeConf(l) ==
    /\ lockPc[l] = "conf"
    /\ lockPc' = [lockPc EXCEPT ![l] = IF confPath = 0 THEN "drop" ELSE "wipe"]
    /\ lockConf' = [lockConf EXCEPT ![l] = confPath]
    /\ confPath' = 0
    /\ UNCHANGED <<keys, life, gate, watch, vaultId, dbPath, confFiles, warned,
                   timerTask, auth, resetPc, op, login>>

LockWipeConf(l) ==
    /\ lockPc[l] = "wipe"
    /\ lockPc' = [lockPc EXCEPT ![l] = "drop"]
    /\ Wipe(lockConf[l])
    /\ lockConf' = [lockConf EXCEPT ![l] = 0]
    /\ UNCHANGED <<keys, life, gate, watch, vaultId, dbPath, confPath,
                   timerTask, auth, resetPc, op, login>>

LockDropKeys(l) ==
    /\ lockPc[l] = "drop"
    /\ lockPc' = [lockPc EXCEPT ![l] = "life"]
    /\ keys' = 0
    /\ UNCHANGED <<life, gate, watch, vaultId, dbPath, conf,
                   timerTask, auth, resetPc, op, login>>

(* Another lock or the timer got here first: return early.                  *)
LockExpire(l) ==
    /\ lockPc[l] = "life"
    /\ IF life = "Active"
       THEN life' = "Expired" /\ lockPc' = [lockPc EXCEPT ![l] = "ids"]
       ELSE UNCHANGED life /\ lockPc' = [lockPc EXCEPT ![l] = "idle"]
    /\ UNCHANGED <<keys, gate, watch, vaultId, dbPath, conf,
                   timerTask, auth, resetPc, op, login>>

LockClearIds(l) ==
    /\ lockPc[l] = "ids"
    /\ lockPc' = [lockPc EXCEPT ![l] = "idle"]
    /\ vaultId' = 0 /\ dbPath' = 0
    /\ UNCHANGED <<keys, life, gate, watch, conf, timerTask, auth, resetPc, op, login>>

-----------------------------------------------------------------------------
(* run_timer, and reset_timer that every command calls first.               *)

TimerFire ==
    /\ MayClose
    /\ timer = "sleep" /\ timer' = "wait"
    /\ CloseGate
    /\ UNCHANGED <<keys, life, watch, vaultId, dbPath, conf, timerConf,
                   auth, lockPc, resetPc, op, login>>

TimerWait ==
    /\ timer = "wait" /\ watch = 0
    /\ timer' = "conf"
    /\ UNCHANGED <<fields, timerConf, auth, lockPc, resetPc, op, login>>

(* Mutant of TimerTakeConf: a timeout leaves the conf alone.                *)
TimerTakeConfNot ==
    /\ timer = "conf" /\ timer' = "drop"
    /\ UNCHANGED <<fields, timerConf, auth, lockPc, resetPc, op, login>>

TimerTakeConf ==
    /\ timer = "conf"
    /\ timer' = IF confPath = 0 THEN "drop" ELSE "wipe"
    /\ timerConf' = confPath
    /\ confPath' = 0
    /\ UNCHANGED <<keys, life, gate, watch, vaultId, dbPath, confFiles, warned, lockConf,
                   auth, lockPc, resetPc, op, login>>

TimerWipeConf ==
    /\ timer = "wipe" /\ timer' = "drop"
    /\ Wipe(timerConf)
    /\ timerConf' = 0
    /\ UNCHANGED <<keys, life, gate, watch, vaultId, dbPath, confPath, lockConf,
                   auth, lockPc, resetPc, op, login>>

TimerDropKeys ==
    /\ timer = "drop" /\ timer' = "life"
    /\ keys' = 0
    /\ UNCHANGED <<life, gate, watch, vaultId, dbPath, conf, timerConf,
                   auth, lockPc, resetPc, op, login>>

TimerExpire ==
    /\ timer = "life" /\ timer' = "none"
    /\ life' = IF life = "Active" THEN "Expired" ELSE life
    /\ UNCHANGED <<keys, gate, watch, vaultId, dbPath, conf, timerConf,
                   auth, lockPc, resetPc, op, login>>

ResetBegin ==
    /\ MayOpen
    /\ resetPc = "idle" /\ life = "Active"
    /\ resetPc' = "restart"
    /\ UNCHANGED <<fields, timerTask, auth, lockPc, op, login>>

(* Mutant of ResetRestart: aborts the old timer and spawns none.            *)
ResetRestartNot ==
    /\ resetPc = "restart" /\ resetPc' = "idle"
    /\ CancelTimer
    /\ UNCHANGED <<fields, auth, lockPc, op, login>>

ResetRestart ==
    /\ resetPc = "restart" /\ resetPc' = "idle"
    /\ RestartTimer
    /\ UNCHANGED <<fields, auth, lockPc, op, login>>

-----------------------------------------------------------------------------
(* A ceremony (change_password, rotate_key_file): begin_operation, then    *)
(* work with the keys, then swap_active_session, then the guard is dropped. *)

OpBegin(o) ==
    /\ MayOpen
    /\ races => o \in RaceOps
    /\ opPc[o] = "idle" /\ life = "Active"
    /\ gate % GateFlag < MaxOps
    /\ IF GateClosed
       THEN opPc' = [opPc EXCEPT ![o] = "run"] /\ UNCHANGED gate
       ELSE opPc' = [opPc EXCEPT ![o] = "count"] /\ gate' = gate + 1
    /\ UNCHANGED <<keys, life, watch, vaultId, dbPath, conf,
                   timerTask, auth, lockPc, resetPc, opGen, opGuarded, login>>

OpCount(o) ==
    /\ opPc[o] = "count"
    /\ opPc' = [opPc EXCEPT ![o] = "recheck"]
    /\ watch' = watch + 1
    /\ UNCHANGED <<keys, life, gate, vaultId, dbPath, conf,
                   timerTask, auth, lockPc, resetPc, opGen, opGuarded, login>>

(* Mutant of OpRecheck: the count of an operation that lost the race stays. *)
OpRecheckKeeps(o) ==
    /\ opPc[o] = "recheck"
    /\ opPc' = [opPc EXCEPT ![o] = "run"]
    /\ opGuarded' = [opGuarded EXCEPT ![o] = ~GateClosed]
    /\ UNCHANGED <<fields, timerTask, auth, lockPc, resetPc, opGen, login>>

(* The defensive re-check: an operation that lost the race goes on, but    *)
(* with an empty guard.                                                     *)
OpRecheck(o) ==
    /\ opPc[o] = "recheck"
    /\ opPc' = [opPc EXCEPT ![o] = "run"]
    /\ IF GateClosed
       THEN watch' = watch - 1 /\ UNCHANGED opGuarded
       ELSE opGuarded' = [opGuarded EXCEPT ![o] = TRUE] /\ UNCHANGED watch
    /\ UNCHANGED <<keys, life, gate, vaultId, dbPath, conf,
                   timerTask, auth, lockPc, resetPc, opGen, login>>

OpReadKeys(o) ==
    /\ opPc[o] = "run"
    /\ opPc' = [opPc EXCEPT ![o] = IF keys = 0 THEN "end" ELSE "work"]
    /\ opGen' = [opGen EXCEPT ![o] = keys]
    /\ UNCHANGED <<fields, timerTask, auth, lockPc, resetPc, opGuarded, login>>

(* swap_active_session: state and path are read, the database is reopened, *)
(* and only then are the keys written.                                      *)
OpSwapCheck(o) ==
    /\ opPc[o] = "work"
    /\ \/ life = "Active" /\ dbPath # 0 /\ opPc' = [opPc EXCEPT ![o] = "swap"]
       \/ opPc' = [opPc EXCEPT ![o] = "end"]
    /\ UNCHANGED <<fields, timerTask, auth, lockPc, resetPc, opGen, opGuarded, login>>

OpSwapKeys(o) ==
    /\ opPc[o] = "swap"
    /\ opPc' = [opPc EXCEPT ![o] = "timer"]
    /\ keys' = opGen[o]
    /\ UNCHANGED <<life, gate, watch, vaultId, dbPath, conf,
                   timerTask, auth, lockPc, resetPc, opGen, opGuarded, login>>

OpSwapTimer(o) ==
    /\ opPc[o] = "timer"
    /\ opPc' = [opPc EXCEPT ![o] = "vault"]
    /\ RestartTimer
    /\ UNCHANGED <<fields, auth, lockPc, resetPc, opGen, opGuarded, login>>

OpSwapVault(o) ==
    /\ opPc[o] = "vault"
    /\ opPc' = [opPc EXCEPT ![o] = "end"]
    /\ vaultId' = opGen[o]
    /\ UNCHANGED <<keys, life, gate, watch, dbPath, conf,
                   timerTask, auth, lockPc, resetPc, opGen, opGuarded, login>>

(* Mutant of OpEnd: the guard's drop does not decrement.                    *)
OpEndNever(o) ==
    /\ opPc[o] = "end"
    /\ opPc' = [opPc EXCEPT ![o] = "idle"]
    /\ opGuarded' = [opGuarded EXCEPT ![o] = FALSE]
    /\ opGen' = [opGen EXCEPT ![o] = 0]
    /\ UNCHANGED <<fields, timerTask, auth, lockPc, resetPc, login>>

OpEnd(o) ==
    /\ opPc[o] = "end"
    /\ opPc' = [opPc EXCEPT ![o] = "idle"]
    /\ watch' = IF opGuarded[o] THEN watch - 1 ELSE watch
    /\ opGuarded' = [opGuarded EXCEPT ![o] = FALSE]
    /\ opGen' = [opGen EXCEPT ![o] = 0]
    /\ UNCHANGED <<keys, life, gate, vaultId, dbPath, conf,
                   timerTask, auth, lockPc, resetPc, login>>

-----------------------------------------------------------------------------
AuthStep ==
    \/ AuthDerive \/ AuthInstallKeys \/ AuthActivate \/ AuthOpenGate
    \/ AuthSetIds \/ AuthStartTimer \/ AuthSetConf \/ AuthWriteConf

LockStep(l) ==
    \/ LockCloseGate(l) \/ LockCancelTimer(l) \/ LockWait(l) \/ LockTakeKeys(l)
    \/ LockTakeConf(l) \/ LockWipeConf(l) \/ LockDropKeys(l) \/ LockExpire(l) \/ LockClearIds(l)

TimerStep ==
    \/ TimerFire \/ TimerWait \/ TimerTakeConf \/ TimerWipeConf
    \/ TimerDropKeys \/ TimerExpire

OpStep(o) ==
    \/ OpCount(o) \/ OpRecheck(o) \/ OpReadKeys(o) \/ OpSwapCheck(o)
    \/ OpSwapKeys(o) \/ OpSwapTimer(o) \/ OpSwapVault(o) \/ OpEnd(o)

Next ==
    \/ AuthBegin \/ AuthStep
    \/ \E l \in Lockers : LockBegin(l) \/ LockStep(l)
    \/ TimerStep \/ ResetBegin \/ ResetRestart
    \/ \E o \in Ops : OpBegin(o) \/ OpStep(o)

Spec == Init /\ [][Next]_vars

(* Every started task runs to its end; new commands owe nothing.            *)
FairSpec ==
    /\ Spec
    /\ WF_vars(AuthStep) /\ WF_vars(TimerStep) /\ WF_vars(ResetRestart)
    /\ \A l \in Lockers : WF_vars(LockStep(l))
    /\ \A o \in Ops : WF_vars(OpStep(o))

-----------------------------------------------------------------------------
(* No task other than a sleeping timer is under way.                        *)
Settled ==
    /\ authPc = "idle" /\ resetPc = "idle"
    /\ timer \in {"none", "sleep"}
    /\ \A l \in Lockers : lockPc[l] = "idle"
    /\ \A o \in Ops : opPc[o] = "idle"

(* The watch channel counts exactly the guards handed out, through the     *)
(* increment, the re-check that undoes it and the drop: a lock that waits   *)
(* for zero waits for them all.                                             *)
WatchCountsGuards ==
    watch = Cardinality({o \in Ops : opGuarded[o] \/ opPc[o] = "recheck"})

(* What opens a session and what closes it not overlapping (the README says *)
(* what happens to the next two properties when they do): an operation     *)
(* that holds its guard keeps the keys it works with, though locks and the  *)
(* timer begin to close the session meanwhile.                              *)
GuardProtectsKeys ==
    ~races => \A o \in Ops : opGuarded[o] /\ opPc[o] \in {"work", "swap"} => keys = opGen[o]

(* "A prior session has been locked and keys were dropped", and "the temp  *)
(* file is overwritten and deleted on session close", or "a warning is      *)
(* logged": once things have settled, an expired session has left no keys   *)
(* in memory, and no rclone.conf with credentials on disk that no warning   *)
(* speaks of.                                                               *)
ClosedLeavesNothing ==
    ~races /\ Settled /\ life = "Expired" => keys = 0 /\ confFiles \subseteq warned

(* begin_operation "blocks timeout lock until dropped": an operation that  *)
(* begins when no lock or timeout is under way gets a real guard.           *)
GateOpenWhileActive == ~races /\ Settled /\ life = "Active" => ~GateClosed

(* lock() always returns, whatever operations, resets and other locks do.  *)
LockReturns == \A l \in Lockers : lockPc[l] # "idle" ~> lockPc[l] = "idle"

(* A session nobody uses any more is eventually closed by the timer.        *)
InactivityCloses ==
    <>[](resetPc = "idle" /\ \A o \in Ops : opPc[o] = "idle")
        => (life = "Active" ~> life # "Active")

-----------------------------------------------------------------------------
(* Statements of documents and comments that the code does not keep in every *)
(* case; the README says how TLC refutes each.                               *)

(* active_vault_id: "the active vault identifier, or None if not Active".  *)
VaultIdOnlyWhileActive == Settled /\ life # "Active" => vaultId = 0

(* "after each failed authenticate() call the session manager delays the   *)
(* next attempt by min(30s, 2^(attempts-1) s)": the attempts counted are   *)
(* the logins that failed in a row.                                         *)
BackoffCounts == failed = wrong
=============================================================================
