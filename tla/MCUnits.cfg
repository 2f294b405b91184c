SPECIFICATION UnitsSpec
CONSTANTS
    ByteBits = 1
    Size = 5
    TargetBigEndian = TRUE
    HostBigEndian = FALSE
    Value = {0, 1}
    MaxSet = 1
    Programs <- All
    Starts <- Operands
CONSTRAINT FewSet
VIEW Observed
INVARIANTS MemoryTypeOK FileTypeOK TypeOK CompareOrders BooleanLaws ShifterMatches DoubleWord
PROPERTIES ImplementsAbstract ImplementsBanked
