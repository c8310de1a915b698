SPECIFICATION FairSpec
CONSTANTS
    MaxSetups = 2
    NoId = NoId
    Habits = {}
INVARIANT NothingAbandoned
PROPERTY CompletionWanted WaitEnds
CHECK_DEADLOCK FALSE
