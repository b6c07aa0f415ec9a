SPECIFICATION Spec
CONSTANTS
    MaxLines = 3
    MaxAgain = 4
CHECK_DEADLOCK FALSE
INVARIANTS
    TypeOK
    ExactlyOnce
    NoSleeper
PROPERTIES
    PauseServes
    CloseReturns
