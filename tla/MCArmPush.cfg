SPECIFICATION Spec
CONSTANTS
    ByteBits = 4
    Size = 64
    TargetBigEndian = TRUE
    HostBigEndian = FALSE
    Decode <- DecodeProgram
    Images <- ImagesPush
    RegisterImages <- PushBases
    MaxWrites = 1
    MaxIrqs = 0
    MaxCycles = 6
INVARIANT PushPop
