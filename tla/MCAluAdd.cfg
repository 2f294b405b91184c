SPECIFICATION Spec
CONSTANTS
    ByteBits = 1
    Size = 4
    TargetBigEndian = TRUE
    HostBigEndian = FALSE
    Programs <- OnlyAddition
    Starts <- Operands
INVARIANTS AddOverflow
