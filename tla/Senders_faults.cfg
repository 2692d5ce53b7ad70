SPECIFICATION Spec

CONSTANTS
    g1 = g1
    other = other
    Demo = demo
    Emails = {demo, other}
    seeded = seeded
    otherUser = otherUser
    Memory <- InMemory
    Nobody = Nobody
    Headers = {other}
    GoogleIds = {g1}
    Profiles <- Renamed
    Requests = {r1, r2}
    MaxFailures = 1
    SenderIds = {x0, x1}
    SeededSender = x0

INVARIANTS
    ActsForItsAccount
    SignInSucceeds
    OneDefault
    AnswersHold

CHECK_DEADLOCK FALSE
SYMMETRY Symmetry
