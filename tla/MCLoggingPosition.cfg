SPECIFICATION Spec
CONSTANTS
    MAX_FILES_NUMBER = 3
    Names = {1, 2, 3, 4}
    NULL = NULL
    FirstAddress = 100
    DumpRegisters <- SomeRegisters
    CommandLines <- TraceLines
    Messages = {1, 2, 3, 4}
    Bodies <- SomeBodies
    PcValues = {4}
    MaxSteps = 2
    MaxEvents = 2
INVARIANT PositionTold
