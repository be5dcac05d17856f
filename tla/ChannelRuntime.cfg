\* Three kinds of events, a channel of two, batches of up to two, one handler at
\* a time per generation, one reload besides one that fails.
CONSTANTS
    dm = dm
    room = room
    reaction = reaction
    Key <- MCKey
    Single <- MCSingle
    MaxMerge = 2
    RxCapacity = 2
    Concurrency = 1
    MaxArrivals = 3
    MaxReloads = 2
SPECIFICATION RFairSpec
INVARIANTS
    TypeOK
    EveryEventOnce
PROPERTIES
    IntakeSpec
    FailedReloadLosesOneBatch
    EventuallyAnswered
CHECK_DEADLOCK FALSE
