SPECIFICATION LivePageSpec

CONSTANTS
    Queries = {q1, q2}
    NoQuery = NoQuery
    Requests = {r1, r2}
    MaxFailures = 1
    Calls = {c1, c2}
    MaxLapses = 1

INVARIANTS
    ResultsAnswerTheQuery
    HeaderTellsTheRow
PROPERTIES
    ConnectingEnds
