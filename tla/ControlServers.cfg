SPECIFICATION FairSpec
CONSTANTS
    s1 = s1  s2 = s2  s3 = s3  fa = fa  fb = fb
    Sessions = {s1, s2, s3}
    Frames = {fa}
    MaxServers = 3
    MaxReentries = 1
CHECK_DEADLOCK FALSE
INVARIANTS
    ControlInv
    OneListener
PROPERTIES
    WaiterWoken
