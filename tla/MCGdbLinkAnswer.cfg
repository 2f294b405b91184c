SPECIFICATION Spec
CONSTANTS
    MAX_ERROR_SIZE = 3
    Requests = 3
    MaxDamages = 0
    MaxNoises = 1
    MaxNudges = 0
    MaxRetries = 0
INVARIANT AnswersMatch
CHECK_DEADLOCK FALSE
