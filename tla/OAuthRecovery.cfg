\* A request of each of two instances; the token expires once.
CONSTANTS
    chat = chat
    auxiliary = auxiliary
    r1 = r1
    r2 = r2
    Wrapper <- MCWrapper
    Request <- MCRequest
    Via <- MCVia
    MaxToken = 2
    MaxMishaps = 0
SPECIFICATION FairSpec
PROPERTY StaleTokenReplaced
