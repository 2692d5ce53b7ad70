SPECIFICATION Spec

CONSTANTS
    Emails = {e1, e2}
    MaxFailures = 1

SYMMETRY Symmetry

INVARIANTS
    SentIsIndexed
PROPERTIES
    SentSearchIsTruthful
    SettledIsFound
    ReindexRepairs

CHECK_DEADLOCK FALSE
