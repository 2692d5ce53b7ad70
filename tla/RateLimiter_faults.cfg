SPECIFICATION Spec

CONSTANTS
    Workers = {w1, w2}
    Processes = {p1}
    ProcessOf <- InOneProcess
    Delays = {1, 2}
    SlotTtlFactor = 2
    Limit = 1
    Hour = 2
    HourTtl = 3
    MinWait = 1
    Day = 30
    MaxFailures = 1
    MaxTime = 4

SYMMETRY Symmetry

INVARIANTS
    HourlyOverrunIsBounded
PROPERTIES
    GrantsAreSpaced
    DeferralLeavesTheHour

CHECK_DEADLOCK FALSE
