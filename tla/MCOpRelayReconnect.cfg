SPECIFICATION Spec
CONSTANTS
    Reqs = {verde, run1, run2}
    Timed = {verde}
    Ids = 4
    Cap = 1
    MaxSessions = 2
INVARIANTS
    AnswerIsMine
CHECK_DEADLOCK FALSE
