SPECIFICATION LiveSpec
CONSTANTS
    Reqs = {verde, run1, run2}
    Timed = {verde}
    Ids = 4
    Cap = 1
    MaxSessions = 2
INVARIANTS
    NoOrphan
    EndedMeansEnded
    AnswersStayPaired
PROPERTIES
    VerdeSettles
CHECK_DEADLOCK FALSE
