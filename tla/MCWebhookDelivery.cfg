CONSTANTS
    d1 = d1
    d2 = d2
    h1 = h1
    w1 = w1
    w2 = w2
    Delivery <- MCDelivery
    Test = {}
    Hook <- MCHook
    HookOf <- MCHookOf
    Worker <- MCWorker
    Batch = 2
    MaxAttempts = 2
    DisableAfter = 2
    LastDay = 2
    MaxEdits = 1
    MaxFaults = 1
SPECIFICATION FairSpec
CHECK_DEADLOCK FALSE
INVARIANTS
    TypeOK
    ExclusiveClaim
    PostsWithinSchedule
PROPERTIES
    DisabledAfterDays
    EndedStaysEnded
    EveryDeliveryEnds
