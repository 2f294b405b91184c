SPECIFICATION Spec
CONSTANTS
    MAX_ERROR_SIZE = 2
    Requests = 3
    MaxDamages = 2
    MaxNoises = 2
    MaxNudges = 2
    MaxRetries = 1
INVARIANTS TypeOK ExactlyOnce OwnAnswers NeverKilled ErrorBufferBound
PROPERTY SessionCompletes
CHECK_DEADLOCK FALSE
