SPECIFICATION LiveSpec

CONSTANTS
    Workers = {w1, w2}
    Hour = 2
    Faults = {"slack", "db", "redis", "user"}
    MaxTime = 3

INVARIANTS
    SecondAlertIsLate
PROPERTIES
    DeniedHourIsAlerted

CHECK_DEADLOCK FALSE
