CONSTANTS
    j1 = j1
    j2 = j2
    a1 = a1
    a2 = a2
    Job <- MCJob
    Initial <- MCInitial
    Admin <- MCAdmin
    AnyRoute <- MCAnyRoute
    Period <- MCPeriod
    Retries = 1
    Budget = 1
    Cooldown = 2
    Day = 4
    HoursStart = 2
    HoursEnd = 1
    MaxTime = 3
    MaxMishaps = 1
\* The clock stops at its bound.
CHECK_DEADLOCK FALSE
SPECIFICATION FairSpec
INVARIANTS
    LateRunAtMostOnce
    BreakerHolds
    OwnSchedule
PROPERTIES
    SlotRunsOnce
    OnlyAskedFor
    DueJobRuns
