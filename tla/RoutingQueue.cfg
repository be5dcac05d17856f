\* Three sources of three groups, room for one of them besides the overflow
\* group, channels of one event, one handler at a time, four events.
CONSTANTS
    discord = discord
    telegram = telegram
    ann = ann
    bob = bob
    dm = dm
    room = room
    any = any
    AnyValue <- MCAnyValue
    Source <- MCSource
    Rules <- MCRules
    MaxGroups = 1
    Capacity = 1
    Concurrency = 1
    MaxArrivals = 4
SPECIFICATION FairSpec
INVARIANTS
    TypeOK
    PermitsConserved
    NeverStuck
    GroupsBounded
    OnlyOverflowIsOvertaken
PROPERTIES
    DispatchSpec
    EventuallySettled
    Drained
CHECK_DEADLOCK FALSE
