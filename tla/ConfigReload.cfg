\* Two admin requests that switch the same setting, two edits by hand, one restart.
CONSTANTS
    a1 = a1
    a2 = a2
    s1 = s1
    s2 = s2
    Admin <- MCAdmin
    Setting <- MCSetting
    MaxEdits = 2
    MaxRestarts = 1
    MaxFailures = 1
SPECIFICATION ConfigFairSpec
INVARIANTS
    ConfigTypeOK
    OnlyValidRuns
    NothingMissed
PROPERTY EventuallySettled
CHECK_DEADLOCK FALSE
