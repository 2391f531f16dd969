SPECIFICATION FairSpec
CONSTANTS
    Launcher = {scheduler}
    MaxRuns = 5
    FanOut = 0
    OtherSessions = 1
    MaxSessions = 4
    MaxEdits = 2
    MaxFaults = 2
INVARIANTS
    TypeOK
    OneAtATime
    ScheduleBoundedAtTwo
PROPERTIES
    PruneNeverBlanks
    CatchesUp
CHECK_DEADLOCK FALSE
