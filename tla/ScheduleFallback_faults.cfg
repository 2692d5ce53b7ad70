SPECIFICATION SettlingSpec

CONSTANTS
    Recipients = {r1}
    MaxAttempts = 2
    MaxFailures = 3
    MaxOutages = 2
    MaxRestarts = 1

INVARIANTS
    AcceptedIsHeld
    OncePerStore
    NotBeforeItsTime
PROPERTIES
    RequestSettles
    AbandonedRowSettles

CHECK_DEADLOCK FALSE
