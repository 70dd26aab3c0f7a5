SPECIFICATION Spec
CONSTANTS
    c1 = c1  c2 = c2  b1 = b1  b2 = b2
    Conns = {c1, c2}
    Legacy = {c2}
    Blocks = {b1}
    NoReq = NoReq
    MaxSent = 2
    MaxRuns = 2
CHECK_DEADLOCK FALSE
INVARIANTS
    Durable
    ReadsCurrent
    QuietAfterClose
PROPERTIES
    KeepsPromises
