SPECIFICATION Spec
CONSTANTS
    f1 = f1  f2 = f2  g1 = g1  c1 = c1  c2 = c2  t1 = t1
    Roots = {f1}
    Forks = {g1}
    OptKinds = {}
    Content = {c1, c2}
    InitSnap = c1
    Taints = {t1}
    Empty = Empty  Base = Base  NoSnap = NoSnap  None = None
    Editable = {}
    Streams = FALSE
    MaxJobs = 2
    MaxCrashes = 1
INVARIANTS
    
    
    
    TaintsNotLaundered
    ReferencesPublished
    AncestryWellFounded

    
