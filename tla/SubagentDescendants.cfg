\* One turn, so that no two calls race for the limit.
CONSTANTS
    turn1 = turn1
    turn2 = turn2
    ann = ann
    Roots = {turn1}
    RootEntity <- OneTurn
    Calls = {c1, c2, c3}
    NoContext = NoContext
    RootQuota = 3
    ChildQuota = 1
    MaxDelegationDepth = 2
    MaxDepth = 3
    MaxDescendants = 2
SPECIFICATION Spec
INVARIANT DescendantsCapped
CHECK_DEADLOCK FALSE
