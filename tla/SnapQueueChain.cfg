SPECIFICATION FairSpec
CONSTANTS
    f1 = f1  f2 = f2  g1 = g1  c1 = c1  c2 = c2  t1 = t1
    Roots = {f1}
    Forks = {}
    OptKinds = {"home"}
    Content = {c1, c2}
    InitSnap = c1
    Taints = {}
    Empty = Empty  Base = Base  NoSnap = NoSnap  None = None
    Editable = {f1}
    Streams = TRUE
    MaxJobs = 2
    MaxCrashes = 0
INVARIANTS
    ParentJobSettled
    NoTmpLeak
PROPERTIES
    EverySnapSettles
