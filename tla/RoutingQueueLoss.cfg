\* Fewer events than one channel holds: an idle worker still loses one.
CONSTANTS
    discord = discord
    telegram = telegram
    ann = ann
    bob = bob
    dm = dm
    room = room
    any = any
    AnyValue <- MCAnyValue
    Source <- MCSource
    Rules <- MCRules
    MaxGroups = 2
    Capacity = 2
    Concurrency = 1
    MaxArrivals = 2
SPECIFICATION FairSpec
PROPERTY SentIsKept
CHECK_DEADLOCK FALSE
