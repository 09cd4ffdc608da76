\* One session of either purpose: a lost answer or a stopped Server anywhere.
SPECIFICATION FairSpec
CONSTANTS
    k1 = k1
    k2 = k2
    Keys <- MCKeys
    MaxAttempts = 2
    MaxRuns = 2
    MaxEdits = 2
    MaxFaults = 2
INVARIANT RunsInvariant
PROPERTY RevisionIsTheTurnsWork
PROPERTY TurnsEnd
CHECK_DEADLOCK FALSE
