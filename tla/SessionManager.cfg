SPECIFICATION FairSpec
CONSTANTS
  l1 = l1
  o1 = o1
  o2 = o2
  Lockers = {l1}
  Ops = {o1, o2}
  MaxAuth = 2
  MaxOps = 2
  GateFlag = 4
  Races = {TRUE, FALSE}
  RaceAuth = 1
  RaceOps = {o1}
  MaxFailed = 2
INVARIANT WatchCountsGuards GuardProtectsKeys ClosedLeavesNothing
PROPERTY LockReturns InactivityCloses
