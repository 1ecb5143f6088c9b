SPECIFICATION Spec
CONSTANTS
    Conns = {c1, c2, c3}
    Controls = {k1}
    Configs = {off}
    InitSpy = off
    Upstreams = {verde}
    NoSession = NoSession
    Free = Free
SYMMETRY Symmetry
INVARIANTS
    CurrentIsStored
    NothingLeaks
    GuardHasSender
    SwitchesReflectSessions
PROPERTIES
    ImplementsSlot
