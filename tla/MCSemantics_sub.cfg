SPECIFICATION Spec
CONSTANTS
    ByteBits = 2
    NumBytes = 4
    AmountBits = 4
    NodeLimit = 4
    NumInputs = 2
    MaxOps = 4
    MaxCombine = 2
    MaxPasses = 10
    Parts = {"normalize"}
    WithSub = TRUE
INVARIANTS
    NormalizeKeeps
CHECK_DEADLOCK FALSE
