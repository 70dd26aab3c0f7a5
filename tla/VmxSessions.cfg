SPECIFICATION FairSpec
CONSTANTS
    u1 = u1  u2 = u2  u3 = u3  ka = ka  kb = kb  fa = fa  fb = fb
    Nobody = Nobody
    Users = {u1, u2, u3}
    Keys = {ka}
    Frames = {fa}
    MaxVMs = 3
CHECK_DEADLOCK FALSE
INVARIANTS
    VmxInv
PROPERTIES
    ReleaseReturns
