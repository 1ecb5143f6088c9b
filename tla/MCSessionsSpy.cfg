SPECIFICATION Spec
CONSTANTS
    Conns = {c1, c2}
    Controls = {k1}
    Configs = {off, on}
    InitSpy = off
    Upstreams = {verde}
    NoSession = NoSession
    Free = Free
SYMMETRY Symmetry
INVARIANTS
    TypeOK
    SpySettled
