SPECIFICATION FramesSpec
CONSTANTS
    r1 = r1
    r2 = r2
    f1 = f1
    f2 = f2
    f3 = f3
    p1 = p1
    p2 = p2
    s1 = s1
    a1 = a1
    a2 = a2
    None = None
    Ref = {r1}
    Frame = {f1, f2, f3}
    Proc = {p1, p2}
    Snap = {s1}
    TaintedSnap = {s1}
    DefaultRef = r1
    Namespace = None
    Argv = {a1, a2}
    Layouts <- Small
    MaxOps = 3
SYMMETRY Symm
INVARIANTS
    NamedFrameSpared
    IdentityFollowsRef
    AutorunFollowsRef
    EntersWhole
CHECK_DEADLOCK FALSE
