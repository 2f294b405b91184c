SPECIFICATION Spec
CONSTANTS
    ByteBits = 4
    Size = 64
    TargetBigEndian = TRUE
    HostBigEndian = FALSE
    Decode <- DecodeSession
    Plans <- SessionPlans
    BreakWord = 139
    EscapeByte = 13
    EscapedBytes = {3, 13}
    IrqBytes = {1, 6}
    MaxIrqs = 2
    MaxWrites = 2
CONSTRAINT RunsFirst
INVARIANTS TypeOK RegistersKnown MemoryKnown WriteEffect ReasonKept Example1Ends SaveRestore
PROPERTY StopsAtBreakpoint
