SPECIFICATION LiveSpec
CONSTANTS
    Conns = {c1, c2}
    Controls = {k1}
    Configs = {off}
    InitSpy = off
    Upstreams = {}
    NoSession = NoSession
    Free = Free
PROPERTIES
    ActivationLands
    DeadClientLeaves
    PushEnds
