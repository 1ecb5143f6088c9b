SPECIFICATION LiveSpec
CONSTANTS
    Conns = {c1, c2, c3}
    Upstreams = {verde}
    Verde = verde
    NoSession = NoSession
INVARIANTS
    ServesOneSession
    NoLostWakeup
PROPERTIES
    FollowsActive
    OffPauses
