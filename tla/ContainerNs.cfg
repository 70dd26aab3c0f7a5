SPECIFICATION Spec
CONSTANTS
    s1 = s1
    s2 = s2
    s3 = s3
    r1 = r1
    NoInit = NoInit
    NoOne = NoOne
    NoRoot = NoRoot
    Sessions <- MCSessions
    RootFS <- MCRootFS
    MaxStarts = 4
    MaxDeaths = 1
    MaxRestarts = 1
INVARIANT HeldEntryKept
INVARIANT HeldInitServes
INVARIANT NsInv
SYMMETRY Symmetry
CHECK_DEADLOCK FALSE
