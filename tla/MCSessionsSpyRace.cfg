SPECIFICATION Spec
CONSTANTS
    Conns = {c1, c2}
    Controls = {k1, k2}
    Configs = {off, on}
    InitSpy = off
    Upstreams = {}
    NoSession = NoSession
    Free = Free
SYMMETRY Symmetry
INVARIANTS
    SpySettled
