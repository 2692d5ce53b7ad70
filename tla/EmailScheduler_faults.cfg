SPECIFICATION Spec

CONSTANTS
    Emails = {e1}
    Workers = {w1, w2}
    NoWorker = NoWorker
    NoEmail = NoEmail
    Servers = {s1, s2}
    ServerOf <- OnOwnServer
    Senders = {x1}
    SenderOf <- SentByOne
    MaxAttempts = 2
    MaxStalls = 1
    MaxCrashes = 1
    Faults = {"smtp", "db", "stall", "crash", "redisLoss", "redisError", "api"}
    Requests = {"cancel", "deleteSender"}

INVARIANTS
    TypeOK
    SingleOwner
    SentIsTruthful
    NoDuplicateWithoutLostAck
PROPERTIES
    CancelledBeforeClaimIsFinal
    SentIsFinal
    ImplementsLease

CHECK_DEADLOCK FALSE
