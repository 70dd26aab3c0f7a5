SPECIFICATION SessionFairSpec
CONSTANTS
    MaxInput = 3
    MaxOutput = 1
    PipeRoom = 1
    MaxTries = 2
INVARIANT ExitFaithful
INVARIANT PipeGroupReaped
PROPERTY LeafReaped
CHECK_DEADLOCK FALSE
