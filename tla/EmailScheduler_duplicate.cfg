SPECIFICATION Spec

CONSTANTS
    Emails = {e1}
    Workers = {w1, w2}
    NoWorker = NoWorker
    NoEmail = NoEmail
    Servers = {s1}
    ServerOf <- OnOneServer
    Senders = {x1}
    SenderOf <- SentByOne
    MaxAttempts = 2
    MaxStalls = 1
    MaxCrashes = 0
    Faults = {"db"}
    Requests = {}

INVARIANTS
    NoDuplicateDelivery

CHECK_DEADLOCK FALSE
