SPECIFICATION LiveListsSpec

CONSTANTS
    Emails = {e1}
    Polls = {p1, p2}
    MaxPollFailures = 2
    MaxRestarts = 1

PROPERTIES
    PageConverges
    ShownStaysTrue

CHECK_DEADLOCK FALSE
