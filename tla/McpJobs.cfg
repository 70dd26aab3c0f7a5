SPECIFICATION FairSpec
CONSTANTS
    fa = fa  fb = fb  c1 = c1  c2 = c2  c3 = c3
    Frames = {fa}
    Clients = {c1, c2}
    MaxID = 1
    MaxOutput = 1
    MaxView = 1
    MaxRestarts = 1
    VshdMayDie = TRUE
CHECK_DEADLOCK FALSE
INVARIANTS
    JobsInv
PROPERTIES
    OutcomeFinal
    LogsKept
    StopSettles
    KillReturns
