------------------------- MODULE SessionManagerProofs -------------------------
(***************************************************************************)
(* Proofs about SessionManager, for any number of lock() calls and         *)
(* ceremonies and any bounds: the watch channel counts the guards, and as  *)
(* long as what opens a session does not overlap with what closes it, the  *)
(* keys outlive the operations that use them and a closed session leaves   *)
(* nothing behind.                                                          *)
(***************************************************************************)
EXTENDS SessionManager, FiniteSetTheorems, TLAPS

(* The operations the watch channel stands for.                             *)
Counted == {o \in Ops : opGuarded[o] \/ opPc[o] = "recheck"}

(* A guard is handed out by the re-check and lives until the operation ends. *)
GuardsAfterRecheck ==
    \A o \in Ops : opGuarded[o] => opPc[o] \in {"run", "work", "swap", "timer", "vault", "end"}

(* What record_failed_attempt stores never exceeds the failures in a row.   *)
FailuresBounded == failed <= wrong

(* What holds under every overlap.                                          *)
StateOK == TypeOK /\ GuardsAfterRecheck /\ FailuresBounded /\ WatchCountsGuards

-----------------------------------------------------------------------------
(* Without overlaps.                                                        *)

(* Nothing opens while something closes.                                    *)
Exclusive == ~(Closing /\ Opening)

(* A lock or a timeout that has waited for the guards.                      *)
LateLock(l) == lockPc[l] \in {"take", "conf", "wipe", "drop", "life", "ids"}
Late == timer \in {"conf", "wipe", "drop", "life"} \/ \E l \in Lockers : LateLock(l)

(* It finds no operation under way.                                         *)
LateFindsNoOps == Late => \A o \in Ops : opPc[o] = "idle"

(* Operations run in active sessions, and what they read is the session.   *)
OpsInActive == \A o \in Ops : opPc[o] # "idle" => life = "Active"
OpsHoldKeys == \A o \in Ops : opPc[o] \in {"work", "swap"} => keys = opGen[o]

(* An authentication finds no session until it has activated its own, and  *)
(* then nothing closes it before it is done.                                *)
AuthNeedsNoSession == authPc \in {"derive", "keys", "life"} => life # "Active"
AuthKeepsSession ==
    authPc \in {"gate", "ids", "timer", "confset", "confwrite"} => life = "Active"

(* One lock or timeout at a time closes the session.                        *)
ClosesAlone ==
    /\ timer \notin {"none", "sleep"} => \A l \in Lockers : lockPc[l] = "idle"
    /\ \A l, m \in Lockers : lockPc[l] # "idle" /\ lockPc[m] # "idle" => l = m

(* A path is taken from the session's field, and is in hand until the file *)
(* is dealt with.                                                           *)
PathsInHand ==
    /\ timer # "wipe" => timerConf = 0
    /\ \A l \in Lockers : lockPc[l] # "wipe" => lockConf[l] = 0
    /\ timer \in {"wipe", "drop", "life"} => confPath = 0
    /\ \A l \in Lockers : lockPc[l] \in {"wipe", "drop", "life", "ids"} => confPath = 0

(* The only rclone.conf on disk are the one whose path is recorded or in   *)
(* hand, and those a warning speaks of.                                     *)
ConfRecorded ==
    /\ authPc \in {"keys", "life", "gate", "ids", "timer", "confset", "confwrite"} => authGen # 0
    /\ 0 \notin confFiles
    /\ \A c \in confFiles \ warned :
         c = confPath \/ c = timerConf \/ \E l \in Lockers : c = lockConf[l]
    /\ authPc = "confwrite" => confPath = authGen

(* What has been destroyed stays so until the next authentication.          *)
LateLeaves ==
    /\ timer \in {"drop", "life"} => confFiles \subseteq warned
    /\ timer = "life" => keys = 0
    /\ \A l \in Lockers :
         /\ lockPc[l] \in {"conf", "wipe", "drop", "life", "ids"} => keys = 0
         /\ lockPc[l] \in {"drop", "life", "ids"} => confFiles \subseteq warned

ExpiredLeaves ==
    life = "Expired" => confFiles \subseteq warned /\ (keys = 0 \/ authPc = "life")

SessionInv ==
    ~races =>
        /\ Exclusive /\ LateFindsNoOps /\ OpsInActive /\ OpsHoldKeys
        /\ AuthNeedsNoSession /\ AuthKeepsSession
        /\ ClosesAlone /\ PathsInHand /\ ConfRecorded
        /\ LateLeaves /\ ExpiredLeaves

-----------------------------------------------------------------------------
(* The gate word: the flag bit and a count below it.                        *)
LEMMA GateBits ==
    ASSUME NEW g \in 0 .. 2 * GateFlag - 1
    PROVE  /\ g % GateFlag \in 0 .. GateFlag - 1
           /\ g < GateFlag => g % GateFlag = g
  BY BoundsAssumption

(* The count of operations stays in range whatever their steps.             *)
LEMMA CountedInRange ==
    ASSUME NEW S, S \subseteq Ops
    PROVE  IsFiniteSet(S) /\ Cardinality(S) \in 0 .. Cardinality(Ops)
  <1>1. IsFiniteSet(S) /\ Cardinality(S) <= Cardinality(Ops)
    BY FiniteOpsAssumption, FS_Subset
  <1>2. Cardinality(S) \in Nat /\ Cardinality(Ops) \in Nat
    BY <1>1, FiniteOpsAssumption, FS_CardinalityType
  <1>3. QED BY <1>1, <1>2

LEMMA InitState == Init => StateOK
  <1> SUFFICES ASSUME Init PROVE StateOK OBVIOUS
  <1>1. Counted = {}
    BY DEF Init, Counted
  <1>2. watch = Cardinality(Counted) /\ watch \in 0 .. Cardinality(Ops)
    BY <1>1, FS_EmptySet, CountedInRange DEF Init
  <1>3. QED
    BY <1>2, BoundsAssumption
       DEF Init, StateOK, TypeOK, GuardsAfterRecheck, FailuresBounded, WatchCountsGuards,
           Counted, Sessions

LEMMA AuthState == StateOK /\ (AuthBegin \/ AuthStep) => StateOK'
  <1> USE DEF StateOK, TypeOK, GuardsAfterRecheck, FailuresBounded, WatchCountsGuards, Sessions,
              fields, conf, timerTask, auth, op, login
  <1> SUFFICES ASSUME StateOK, AuthBegin \/ AuthStep PROVE StateOK' OBVIOUS
  <1>1. CASE AuthBegin
    BY <1>1 DEF AuthBegin
  <1>2. CASE AuthDerive
    BY <1>2, BoundsAssumption DEF AuthDerive, RecordFailedAttempt, Limit
  <1>3. CASE AuthInstallKeys
    BY <1>3 DEF AuthInstallKeys
  <1>4. CASE AuthActivate
    BY <1>4 DEF AuthActivate
  <1>5. CASE AuthOpenGate
    <2>1. gate % GateFlag \in 0 .. 2 * GateFlag - 1
      BY GateBits, BoundsAssumption
    <2>2. QED BY <1>5, <2>1 DEF AuthOpenGate
  <1>6. CASE AuthSetIds
    BY <1>6 DEF AuthSetIds
  <1>7. CASE AuthStartTimer
    BY <1>7, BoundsAssumption DEF AuthStartTimer, RestartTimer
  <1>8. CASE AuthSetConf
    BY <1>8 DEF AuthSetConf, Wipe
  <1>9. CASE AuthWriteConf
    BY <1>9 DEF AuthWriteConf
  <1>10. QED BY <1>1, <1>2, <1>3, <1>4, <1>5, <1>6, <1>7, <1>8, <1>9 DEF AuthStep

LEMMA LockState == \A l \in Lockers : StateOK /\ (LockBegin(l) \/ LockStep(l)) => StateOK'
  <1> USE DEF StateOK, TypeOK, GuardsAfterRecheck, FailuresBounded, WatchCountsGuards, Sessions,
              fields, conf, timerTask, auth, op, login
  <1> SUFFICES ASSUME NEW l \in Lockers, StateOK, LockBegin(l) \/ LockStep(l)
               PROVE  StateOK'
    OBVIOUS
  <1>1. CASE LockBegin(l)
    BY <1>1 DEF LockBegin
  <1>2. CASE LockCloseGate(l)
    BY <1>2, BoundsAssumption DEF LockCloseGate, CloseGate, GateClosed
  <1>3. CASE LockCancelTimer(l)
    BY <1>3, BoundsAssumption DEF LockCancelTimer, CancelTimer
  <1>4. CASE LockWait(l)
    BY <1>4 DEF LockWait
  <1>5. CASE LockTakeKeys(l)
    BY <1>5, BoundsAssumption DEF LockTakeKeys
  <1>6. CASE LockTakeConf(l)
    BY <1>6, BoundsAssumption DEF LockTakeConf
  <1>11. CASE LockWipeConf(l)
    <2>1. confFiles' \subseteq Sessions /\ warned' \subseteq Sessions
      BY <1>11 DEF LockWipeConf, Wipe
    <2>2. lockConf' \in [Lockers -> Sessions] /\ confPath' \in Sessions
      BY <1>11, BoundsAssumption DEF LockWipeConf
    <2>3. QED BY <1>11, <2>1, <2>2 DEF LockWipeConf
  <1>7. CASE LockDropKeys(l)
    BY <1>7, BoundsAssumption DEF LockDropKeys
  <1>8. CASE LockExpire(l)
    BY <1>8 DEF LockExpire
  <1>9. CASE LockClearIds(l)
    BY <1>9, BoundsAssumption DEF LockClearIds
  <1>10. QED BY <1>1, <1>2, <1>3, <1>4, <1>5, <1>6, <1>7, <1>8, <1>9, <1>11 DEF LockStep

LEMMA TimerState == StateOK /\ (TimerStep \/ ResetBegin \/ ResetRestart) => StateOK'
  <1> USE DEF StateOK, TypeOK, GuardsAfterRecheck, FailuresBounded, WatchCountsGuards, Sessions,
              fields, conf, timerTask, auth, op, login
  <1> SUFFICES ASSUME StateOK, TimerStep \/ ResetBegin \/ ResetRestart PROVE StateOK' OBVIOUS
  <1>1. CASE TimerFire
    BY <1>1, BoundsAssumption DEF TimerFire, CloseGate, GateClosed
  <1>2. CASE TimerWait
    BY <1>2 DEF TimerWait
  <1>3. CASE TimerTakeConf
    BY <1>3, BoundsAssumption DEF TimerTakeConf
  <1>9. CASE TimerWipeConf
    <2>1. confFiles' \subseteq Sessions /\ warned' \subseteq Sessions /\ timerConf' \in Sessions
      <3>1. timerConf' \in Sessions
        BY <1>9, BoundsAssumption DEF TimerWipeConf
      <3>2. QED BY <1>9, <3>1 DEF TimerWipeConf, Wipe
    <2>2. QED BY <1>9, <2>1 DEF TimerWipeConf
  <1>4. CASE TimerDropKeys
    BY <1>4, BoundsAssumption DEF TimerDropKeys
  <1>5. CASE TimerExpire
    BY <1>5 DEF TimerExpire
  <1>6. CASE ResetBegin
    BY <1>6 DEF ResetBegin
  <1>7. CASE ResetRestart
    BY <1>7, BoundsAssumption DEF ResetRestart, RestartTimer
  <1>8. QED BY <1>1, <1>2, <1>3, <1>4, <1>5, <1>6, <1>7, <1>9 DEF TimerStep

(* The three steps that change the count change the counted set alike.      *)
LEMMA OpCountState == \A o \in Ops : StateOK /\ OpCount(o) => StateOK'
  <1> USE DEF StateOK, TypeOK, GuardsAfterRecheck, FailuresBounded, WatchCountsGuards, Sessions,
              fields, conf, timerTask, auth, op, login
  <1> SUFFICES ASSUME NEW o \in Ops, StateOK, OpCount(o) PROVE StateOK' OBVIOUS
  <1>1. Counted' = Counted \cup {o} /\ o \notin Counted
    BY DEF OpCount, Counted
  <1>2. IsFiniteSet(Counted) /\ Counted' \subseteq Ops
    BY CountedInRange DEF Counted
  <1>3. watch' = Cardinality(Counted')
    <2>1. watch' = Cardinality(Counted) + 1
      BY DEF OpCount, Counted
    <2>2. Cardinality(Counted \cup {o}) = Cardinality(Counted) + 1
      BY <1>1, <1>2, FS_AddElement
    <2>3. QED BY <1>1, <2>1, <2>2
  <1>4. watch' \in 0 .. Cardinality(Ops)
    BY <1>2, <1>3, CountedInRange
  <1>5. QED BY <1>3, <1>4 DEF OpCount, Counted

LEMMA OpRecheckState == \A o \in Ops : StateOK /\ OpRecheck(o) => StateOK'
  <1> USE DEF StateOK, TypeOK, GuardsAfterRecheck, FailuresBounded, WatchCountsGuards, Sessions,
              fields, conf, timerTask, auth, op, login
  <1> SUFFICES ASSUME NEW o \in Ops, StateOK, OpRecheck(o) PROVE StateOK' OBVIOUS
  <1>1. IsFiniteSet(Counted) /\ Counted' \subseteq Ops
    BY CountedInRange DEF Counted
  <1>2. watch' = Cardinality(Counted')
    <2>1. CASE GateClosed
      <3>1. Counted' = Counted \ {o} /\ o \in Counted
        BY <2>1 DEF OpRecheck, Counted
      <3>2. watch' = Cardinality(Counted) - 1
        BY <2>1 DEF OpRecheck, Counted
      <3>3. Cardinality(Counted \ {o}) = Cardinality(Counted) - 1
        BY <1>1, <3>1, FS_RemoveElement
      <3>4. QED BY <3>1, <3>2, <3>3
    <2>2. CASE ~GateClosed
      <3>1. Counted' = Counted
        BY <2>2 DEF OpRecheck, Counted
      <3>2. QED BY <2>2, <3>1 DEF OpRecheck, Counted
    <2>3. QED BY <2>1, <2>2
  <1>3. watch' \in 0 .. Cardinality(Ops)
    BY <1>1, <1>2, CountedInRange
  <1>4. QED BY <1>2, <1>3 DEF OpRecheck, Counted

LEMMA OpEndState == \A o \in Ops : StateOK /\ OpEnd(o) => StateOK'
  <1> USE DEF StateOK, TypeOK, GuardsAfterRecheck, FailuresBounded, WatchCountsGuards, Sessions,
              fields, conf, timerTask, auth, op, login
  <1> SUFFICES ASSUME NEW o \in Ops, StateOK, OpEnd(o) PROVE StateOK' OBVIOUS
  <1>1. IsFiniteSet(Counted) /\ Counted' \subseteq Ops
    BY CountedInRange DEF Counted
  <1>2. Counted' = Counted \ {o} /\ (o \in Counted <=> opGuarded[o])
    BY DEF OpEnd, Counted
  <1>3. watch' = Cardinality(Counted')
    <2>1. watch' = IF o \in Counted THEN Cardinality(Counted) - 1 ELSE Cardinality(Counted)
      BY <1>2 DEF OpEnd, Counted
    <2>2. QED BY <1>1, <1>2, <2>1, FS_RemoveElement
  <1>4. watch' \in 0 .. Cardinality(Ops)
    BY <1>1, <1>3, CountedInRange
  <1>5. opGen' \in [Ops -> Sessions] /\ opGuarded' \in [Ops -> BOOLEAN]
    BY BoundsAssumption DEF OpEnd
  <1>6. QED BY <1>3, <1>4, <1>5 DEF OpEnd, Counted

LEMMA OpState == \A o \in Ops : StateOK /\ (OpBegin(o) \/ OpStep(o)) => StateOK'
  <1> USE DEF StateOK, TypeOK, GuardsAfterRecheck, FailuresBounded, WatchCountsGuards, Sessions,
              fields, conf, timerTask, auth, op, login
  <1> SUFFICES ASSUME NEW o \in Ops, StateOK, OpBegin(o) \/ OpStep(o)
               PROVE  StateOK'
    OBVIOUS
  <1>1. CASE OpBegin(o)
    <2>1. gate' \in 0 .. 2 * GateFlag - 1
      <3>1. CASE GateClosed
        BY <1>1, <3>1 DEF OpBegin
      <3>2. CASE ~GateClosed
        <4>0. gate \in 0 .. 2 * GateFlag - 1 /\ gate < GateFlag
          BY <3>2, BoundsAssumption DEF GateClosed
        <4>1. gate % GateFlag = gate
          BY <4>0, GateBits
        <4>2. QED BY <1>1, <3>2, <4>1, BoundsAssumption DEF OpBegin
      <3>3. QED BY <3>1, <3>2
    <2>2. Counted' = Counted
      BY <1>1 DEF OpBegin, Counted
    <2>3. QED BY <1>1, <2>1, <2>2 DEF OpBegin, Counted
  <1>2. CASE OpCount(o)
    BY <1>2, OpCountState
  <1>3. CASE OpRecheck(o)
    BY <1>3, OpRecheckState
  <1>4. CASE OpReadKeys(o)
    <2>1. Counted' = Counted
      BY <1>4 DEF OpReadKeys, Counted
    <2>2. QED BY <1>4, <2>1 DEF OpReadKeys, Counted
  <1>5. CASE OpSwapCheck(o)
    <2>1. Counted' = Counted
      BY <1>5 DEF OpSwapCheck, Counted
    <2>2. opPc' \in [Ops -> {"idle", "count", "recheck", "run", "work", "swap", "timer", "vault", "end"}]
      BY <1>5 DEF OpSwapCheck
    <2>3. QED BY <1>5, <2>1, <2>2, ZenonT(40) DEF OpSwapCheck, Counted
  <1>6. CASE OpSwapKeys(o)
    <2>1. Counted' = Counted
      BY <1>6 DEF OpSwapKeys, Counted
    <2>2. QED BY <1>6, <2>1 DEF OpSwapKeys, Counted
  <1>7. CASE OpSwapTimer(o)
    <2>1. Counted' = Counted
      BY <1>7 DEF OpSwapTimer, RestartTimer, Counted
    <2>2. opPc' \in [Ops -> {"idle", "count", "recheck", "run", "work", "swap", "timer", "vault", "end"}]
      BY <1>7 DEF OpSwapTimer
    <2>3. timerConf' \in Sessions
      BY <1>7, BoundsAssumption DEF OpSwapTimer, RestartTimer
    <2>4. QED BY <1>7, <2>1, <2>2, <2>3 DEF OpSwapTimer, RestartTimer, Counted
  <1>8. CASE OpSwapVault(o)
    <2>1. Counted' = Counted
      BY <1>8 DEF OpSwapVault, Counted
    <2>2. QED BY <1>8, <2>1 DEF OpSwapVault, Counted
  <1>9. CASE OpEnd(o)
    BY <1>9, OpEndState
  <1>10. QED BY <1>1, <1>2, <1>3, <1>4, <1>5, <1>6, <1>7, <1>8, <1>9 DEF OpStep

LEMMA NextState == StateOK /\ [Next]_vars => StateOK'
  <1> SUFFICES ASSUME StateOK, [Next]_vars PROVE StateOK' OBVIOUS
  <1>1. CASE UNCHANGED vars
    BY <1>1 DEF vars, fields, conf, timerTask, auth, op, login, StateOK, TypeOK, GuardsAfterRecheck,
                FailuresBounded, WatchCountsGuards, Sessions
  <1>2. QED BY <1>1, AuthState, LockState, TimerState, OpState DEF Next

(* Every reachable state of the session manager is well typed: the gate    *)
(* word never overflows into its flag, the counters stay in range.          *)
THEOREM TypeCorrect == Spec => []TypeOK
  <1>1. StateOK => TypeOK
    BY DEF StateOK
  <1>2. QED BY <1>1, InitState, NextState, PTL DEF Spec

(* Whatever overlaps, the value lock() and the timer wait on is the number *)
(* of guards handed out and not yet dropped.                                *)
THEOREM GuardsCounted == Spec => []WatchCountsGuards
  <1>1. StateOK => WatchCountsGuards
    BY DEF StateOK
  <1>2. QED BY <1>1, InitState, NextState, PTL DEF Spec

-----------------------------------------------------------------------------
(* SessionInv is inductive.  The steps of an authentication.                *)
LEMMA AuthSession == StateOK /\ SessionInv /\ (AuthBegin \/ AuthStep) => SessionInv'
  <1> USE DEF SessionInv, Exclusive, LateFindsNoOps, Late, LateLock, OpsInActive, OpsHoldKeys,
              AuthNeedsNoSession, AuthKeepsSession, ClosesAlone, PathsInHand, ConfRecorded,
              LateLeaves, ExpiredLeaves,
              Closing, Opening, MayOpen, MayClose, fields, conf, timerTask, auth, op, login
  <1> SUFFICES ASSUME StateOK, SessionInv, ~races, AuthBegin \/ AuthStep PROVE SessionInv'
    BY DEF AuthStep, AuthBegin, AuthDerive, AuthInstallKeys, AuthActivate, AuthOpenGate,
           AuthSetIds, AuthStartTimer, AuthSetConf, AuthWriteConf
  <1>1. CASE AuthBegin
    BY <1>1 DEF AuthBegin
  <1>2. CASE AuthDerive
    BY <1>2, BoundsAssumption DEF AuthDerive, Limit, RecordFailedAttempt, StateOK, TypeOK, Sessions
  <1>3. CASE AuthInstallKeys
    BY <1>3 DEF AuthInstallKeys
  <1>4. CASE AuthActivate
    BY <1>4 DEF AuthActivate
  <1>5. CASE AuthOpenGate
    BY <1>5 DEF AuthOpenGate
  <1>6. CASE AuthSetIds
    BY <1>6 DEF AuthSetIds
  <1>7. CASE AuthStartTimer
    BY <1>7 DEF AuthStartTimer, RestartTimer
  <1>8. CASE AuthSetConf
    BY <1>8 DEF AuthSetConf, Wipe
  <1>9. CASE AuthWriteConf
    BY <1>9 DEF AuthWriteConf
  <1>10. QED BY <1>1, <1>2, <1>3, <1>4, <1>5, <1>6, <1>7, <1>8, <1>9 DEF AuthStep

(* Those of a lock: once it has waited for zero, nobody holds a guard, and *)
(* an operation without one would have kept it from starting.               *)
LEMMA ZeroMeansIdle ==
    ASSUME StateOK, SessionInv, ~races, Closing, watch = 0
    PROVE  \A o \in Ops : opPc[o] = "idle"
  <1>1. Counted = {}
    <2>1. IsFiniteSet(Counted) /\ Cardinality(Counted) = 0
      BY CountedInRange DEF StateOK, WatchCountsGuards, Counted
    <2>2. QED BY <2>1, FS_EmptySet
  <1>2. \A o \in Ops : ~opGuarded[o]
    BY <1>1 DEF Counted
  <1>3. QED BY <1>2 DEF SessionInv, Exclusive, Opening

LEMMA LockSession ==
    \A l \in Lockers : StateOK /\ SessionInv /\ (LockBegin(l) \/ LockStep(l)) => SessionInv'
  <1> USE DEF SessionInv, Exclusive, LateFindsNoOps, Late, LateLock, OpsInActive, OpsHoldKeys,
              AuthNeedsNoSession, AuthKeepsSession, ClosesAlone, PathsInHand, ConfRecorded,
              LateLeaves, ExpiredLeaves,
              Closing, Opening, MayOpen, MayClose, fields, conf, timerTask, auth, op, login
  <1> SUFFICES ASSUME NEW l \in Lockers, StateOK, SessionInv, ~races,
                      LockBegin(l) \/ LockStep(l)
               PROVE  SessionInv'
    BY DEF LockStep, LockBegin, LockCloseGate, LockCancelTimer, LockWait, LockTakeKeys,
           LockTakeConf, LockWipeConf, LockDropKeys, LockExpire, LockClearIds
  <1>0. /\ lockPc \in [Lockers -> {"idle", "close", "cancel", "wait", "take", "conf", "wipe",
                                   "drop", "life", "ids"}]
        /\ lockConf \in [Lockers -> Sessions]
    BY DEF StateOK, TypeOK
  <1>1. CASE LockBegin(l)
    BY <1>0, <1>1 DEF LockBegin
  <1>2. CASE LockCloseGate(l)
    BY <1>0, <1>2 DEF LockCloseGate
  <1>3. CASE LockCancelTimer(l)
    BY <1>0, <1>3 DEF LockCancelTimer, CancelTimer
  <1>4. CASE LockWait(l)
    <2>1. \A o \in Ops : opPc[o] = "idle"
      BY <1>4, ZeroMeansIdle DEF LockWait
    <2>2. QED BY <1>0, <1>4, <2>1 DEF LockWait
  <1>5. CASE LockTakeKeys(l)
    BY <1>0, <1>5 DEF LockTakeKeys
  <1>6. CASE LockTakeConf(l)
    BY <1>0, <1>6 DEF LockTakeConf
  <1>11. CASE LockWipeConf(l)
    BY <1>0, <1>11 DEF LockWipeConf, Wipe
  <1>7. CASE LockDropKeys(l)
    BY <1>0, <1>7 DEF LockDropKeys
  <1>8. CASE LockExpire(l)
    BY <1>0, <1>8 DEF LockExpire
  <1>9. CASE LockClearIds(l)
    BY <1>0, <1>9 DEF LockClearIds
  <1>10. QED BY <1>1, <1>2, <1>3, <1>4, <1>5, <1>6, <1>7, <1>8, <1>9, <1>11 DEF LockStep

(* Those of the inactivity timer and of reset_timer.                        *)
LEMMA TimerSession ==
    StateOK /\ SessionInv /\ (TimerStep \/ ResetBegin \/ ResetRestart) => SessionInv'
  <1> USE DEF SessionInv, Exclusive, LateFindsNoOps, Late, LateLock, OpsInActive, OpsHoldKeys,
              AuthNeedsNoSession, AuthKeepsSession, ClosesAlone, PathsInHand, ConfRecorded,
              LateLeaves, ExpiredLeaves,
              Closing, Opening, MayOpen, MayClose, fields, conf, timerTask, auth, op, login
  <1> SUFFICES ASSUME StateOK, SessionInv, ~races, TimerStep \/ ResetBegin \/ ResetRestart
               PROVE  SessionInv'
    BY DEF TimerStep, TimerFire, TimerWait, TimerTakeConf, TimerWipeConf, TimerDropKeys, TimerExpire,
           ResetBegin, ResetRestart
  <1>1. CASE TimerFire
    BY <1>1 DEF TimerFire
  <1>2. CASE TimerWait
    <2>1. \A o \in Ops : opPc[o] = "idle"
      BY <1>2, ZeroMeansIdle DEF TimerWait
    <2>2. QED BY <1>2, <2>1 DEF TimerWait
  <1>3. CASE TimerTakeConf
    BY <1>3 DEF TimerTakeConf
  <1>9. CASE TimerWipeConf
    BY <1>9 DEF TimerWipeConf, Wipe
  <1>4. CASE TimerDropKeys
    BY <1>4 DEF TimerDropKeys
  <1>5. CASE TimerExpire
    BY <1>5 DEF TimerExpire
  <1>6. CASE ResetBegin
    BY <1>6 DEF ResetBegin
  <1>7. CASE ResetRestart
    BY <1>7 DEF ResetRestart, RestartTimer
  <1>8. QED BY <1>1, <1>2, <1>3, <1>4, <1>5, <1>6, <1>7, <1>9 DEF TimerStep

(* And those of the ceremonies.                                             *)
LEMMA OpSession ==
    \A o \in Ops : StateOK /\ SessionInv /\ (OpBegin(o) \/ OpStep(o)) => SessionInv'
  <1> USE DEF SessionInv, Exclusive, LateFindsNoOps, Late, LateLock, OpsInActive, OpsHoldKeys,
              AuthNeedsNoSession, AuthKeepsSession, ClosesAlone, PathsInHand, ConfRecorded,
              LateLeaves, ExpiredLeaves,
              Closing, Opening, MayOpen, MayClose, fields, conf, timerTask, auth, op, login
  <1> SUFFICES ASSUME NEW o \in Ops, StateOK, SessionInv, ~races, OpBegin(o) \/ OpStep(o)
               PROVE  SessionInv'
    BY DEF OpStep, OpBegin, OpCount, OpRecheck, OpReadKeys, OpSwapCheck, OpSwapKeys,
           OpSwapTimer, OpSwapVault, OpEnd
  <1>0. /\ opPc \in [Ops -> {"idle", "count", "recheck", "run", "work", "swap", "timer",
                             "vault", "end"}]
        /\ opGen \in [Ops -> Sessions] /\ opGuarded \in [Ops -> BOOLEAN]
    BY DEF StateOK, TypeOK
  <1>1. CASE OpBegin(o)
    BY <1>0, <1>1 DEF OpBegin
  <1>2. CASE OpCount(o)
    BY <1>0, <1>2 DEF OpCount
  <1>3. CASE OpRecheck(o)
    BY <1>0, <1>3 DEF OpRecheck
  <1>4. CASE OpReadKeys(o)
    BY <1>0, <1>4 DEF OpReadKeys
  <1>5. CASE OpSwapCheck(o)
    BY <1>0, <1>5 DEF OpSwapCheck
  <1>6. CASE OpSwapKeys(o)
    BY <1>0, <1>6 DEF OpSwapKeys
  <1>7. CASE OpSwapTimer(o)
    BY <1>0, <1>7 DEF OpSwapTimer, RestartTimer
  <1>8. CASE OpSwapVault(o)
    BY <1>0, <1>8 DEF OpSwapVault
  <1>9. CASE OpEnd(o)
    BY <1>0, <1>9 DEF OpEnd
  <1>10. QED BY <1>1, <1>2, <1>3, <1>4, <1>5, <1>6, <1>7, <1>8, <1>9 DEF OpStep

LEMMA InitSession == Init => SessionInv
  BY DEF Init, SessionInv, Exclusive, LateFindsNoOps, Late, LateLock, OpsInActive, OpsHoldKeys,
         AuthNeedsNoSession, AuthKeepsSession, ClosesAlone, PathsInHand, ConfRecorded,
              LateLeaves, ExpiredLeaves,
         Closing, Opening

LEMMA NextSession == StateOK /\ SessionInv /\ [Next]_vars => SessionInv'
  <1> SUFFICES ASSUME StateOK, SessionInv, [Next]_vars PROVE SessionInv' OBVIOUS
  <1>1. CASE UNCHANGED vars
    BY <1>1 DEF vars, fields, conf, timerTask, auth, op, login, SessionInv, Exclusive,
                LateFindsNoOps, Late, LateLock, OpsInActive, OpsHoldKeys, AuthNeedsNoSession, AuthKeepsSession,
                ClosesAlone, PathsInHand, ConfRecorded, LateLeaves, ExpiredLeaves, Closing, Opening
  <1>2. QED BY <1>1, AuthSession, LockSession, TimerSession, OpSession DEF Next

LEMMA SessionInvariant == Spec => [](StateOK /\ SessionInv)
  BY InitState, InitSession, NextState, NextSession, PTL DEF Spec

(* As long as opening and closing do not overlap, an operation that holds  *)
(* its guard works with the keys of the session that is installed.          *)
THEOREM KeysProtected == Spec => []GuardProtectsKeys
  <1>1. SessionInv => GuardProtectsKeys
    BY DEF SessionInv, OpsHoldKeys, GuardProtectsKeys
  <1>2. QED BY <1>1, SessionInvariant, PTL

(* And a closed session has left no keys in memory and, but for files whose *)
(* deletion failed with a warning, no credentials on disk, whichever of the *)
(* locks and the timer closed it.                                           *)
THEOREM NothingLeft == Spec => []ClosedLeavesNothing
  <1>1. SessionInv => ClosedLeavesNothing
    BY DEF SessionInv, ExpiredLeaves, ClosedLeavesNothing, Settled
  <1>2. QED BY <1>1, SessionInvariant, PTL
=============================================================================
