SPECIFICATION Spec
CONSTANTS
    ka = ka  kb = kb  g1 = g1  g2 = g2  c1 = c1  c2 = c2
    Keys = {ka}
    Configs = {g1, g2}
    Callers = {c1, c2}
    Nobody = Nobody  Shutdown = Shutdown
    MaxProcs = 2
CHECK_DEADLOCK FALSE
INVARIANTS
    AutorunInv
    StoppedMeansClosed
