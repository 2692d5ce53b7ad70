SPECIFICATION LiveSpec

CONSTANTS
    Emails = {e1}
    Workers = {w1, w2}
    NoWorker = NoWorker
    NoEmail = NoEmail
    Servers = {s1, s2}
    ServerOf <- OnOwnServer
    Senders = {x1}
    SenderOf <- SentByOne
    MaxAttempts = 3
    MaxStalls = 1
    MaxCrashes = 1
    Faults = {"smtp", "crash"}
    Requests = {"deleteSender"}

INVARIANTS
    RowHasItsJob
    OutcomesAgree
PROPERTIES
    OnlyClaimsAreLost

CHECK_DEADLOCK FALSE
