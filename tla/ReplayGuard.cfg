\* Three requests with two bodies and a table with room for one.
CONSTANTS
    n1 = n1
    n2 = n2
    r1 = r1
    r2 = r2
    r3 = r3
    Nonce <- MCNonce
    Request <- MCRequest
    TTL = 2
    MaxEntries = 1
    MaxTime = 4
    MaxMishaps = 1
\* It stops when the clock is at its bound and every request has been answered.
CHECK_DEADLOCK FALSE
SPECIFICATION Spec
SYMMETRY Symmetry
INVARIANTS
    FlushedMeansSaved
PROPERTIES
    AcceptedOnce
    ReplayAcked
