\* Two turns of one entity and one of another, which shares the state file.
CONSTANTS
    e1 = e1
    e2 = e2
    t1 = t1
    t2 = t2
    t3 = t3
    Entity <- MCEntity
    Turn <- MCTurn
    EntityOf <- MCEntityOf
    MaxMishaps = 1
    MaxSwings = 1
    MaxEvents = 1
\* It stops when every turn has ended.
CHECK_DEADLOCK FALSE
SPECIFICATION FairSpec
INVARIANTS
    TypeOK
    EpisodesAscend
    TurnCovered
PROPERTIES
    WatermarksGrow
    StatusSettles
