SPECIFICATION Spec
CONSTANTS
    Setups <- Parallel
    Pieces = 2
    MaxSize = 9
    MaxToolCalls = 3
    ChanCap = 2
    MaxLines = 5
INVARIANT OwnBlock
CHECK_DEADLOCK FALSE
