\* Two turns of one entity and four calls between them: the limit on
\* descendants is reached by one turn and passed by two; subagents have
\* entities of their own.
CONSTANTS
    turn1 = turn1
    turn2 = turn2
    ann = ann
    Roots = {turn1, turn2}
    RootEntity <- MCRootEntity
    Calls = {c1, c2, c3, c4}
    NoContext = NoContext
    RootQuota = 3
    ChildQuota = 1
    MaxDelegationDepth = 2
    MaxDepth = 3
    MaxDescendants = 2
SPECIFICATION Spec
INVARIANTS
    DelegationBounded
    OvershootBounded
    NoInlineOrphan
PROPERTIES
    CancelAborts
SYMMETRY Symmetry
CHECK_DEADLOCK FALSE
