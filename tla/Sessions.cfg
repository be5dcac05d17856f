\* Two clients, two sessions at a time, four timestamps: a turn of each.  Up to seven
\* timestamps in one bound session: compactions that delete earlier summaries.
CONSTANTS
    c1 = c1
    c2 = c2
    s1 = s1
    s2 = s2
    Client <- MCClient
    Session <- MCSession
    NoSession = NoSession
    TokenThreshold = 1
    KeepPercent = 20
    KeyExchangeLimit = 1
    MaxStamp = 7
SPECIFICATION Spec
INVARIANTS
    TypeOK
    ResolvedWasBound
    NothingStranded
PROPERTY ForgottenOnlyRead
CONSTRAINT Settling
SYMMETRY Symmetry
CHECK_DEADLOCK FALSE
