SPECIFICATION Spec
CONSTANTS
    Commands = {"g", "G", "p", "P", "c", "s", "k", "other"}
    MaxPackets = 2
    MaxIrqs = 2
    MaxFiles = 2
    MaxValue = 1
    LoopsForever = FALSE
INVARIANTS TypeOK TraceRestored
PROPERTIES ImplementsAtomic IrqDelivered PacketAnswered EndsWithDebugger
