SPECIFICATION Spec
CONSTANTS
    ByteBits = 4
    Size = 16
    TargetBigEndian = TRUE
    HostBigEndian = FALSE
    Decode <- DecodeTransfer
    Images <- ImagesTransfer
    RegisterImages <- TransferBases
    MaxWrites = 0
    MaxIrqs = 1
    MaxCycles = 1
PROPERTY ProperRegisters
