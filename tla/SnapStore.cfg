SPECIFICATION Spec
CONSTANTS
    s1 = s1
    s2 = s2
    s3 = s3
    f1 = f1
    f2 = f2
    f3 = f3
    k1 = k1
    k2 = k2
    k3 = k3
    k4 = k4
    p1 = p1
    p2 = p2
    None = None
    Rot = Rot
    Base = Base
    SnapOrder <- Three
    FileOrder <- Paths
    Content <- Trees
    Stamp <- Chain
    Manifest <- Lists
    Links <- Linked
    BaseDirs <- SomeBase
    Proc = {p1, p2}
    MaxOpenTSC = 1
    MaxLocMaps = 1
    MaxDepth = 4
    MaxOps = 2
SYMMETRY Symm

    
    
PROPERTIES
    FoundWhenIntact
    ChildrenRelinked
CHECK_DEADLOCK FALSE
