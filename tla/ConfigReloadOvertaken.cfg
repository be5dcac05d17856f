\* Two admin requests, no edits by hand.
CONSTANTS
    a1 = a1
    a2 = a2
    s1 = s1
    s2 = s2
    Admin <- MCAdmin
    Setting <- MCSettings
    MaxEdits = 0
    MaxRestarts = 1
    MaxFailures = 0
SPECIFICATION ConfigFairSpec
PROPERTY AdminChangesApplied
CHECK_DEADLOCK FALSE
