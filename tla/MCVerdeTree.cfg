SPECIFICATION Spec
CONSTANTS
    Nodes = {a, b, c}
    Root = game
    Names = {x, y}
    Capacity = 2
    Worlds = {{"lazy"}, {"rename"}, {"return"}, {"move", "release"}, {"release", "pair"}}
    MaxPatches <- MCMaxPatches
    MaxAsks = 1
CHECK_DEADLOCK FALSE
SYMMETRY AnyNode
ACTION_CONSTRAINT TranslationGoesOn
INVARIANTS
    TypeOK
    KnownIsShown
    GhostsAreAnnounced
    ShownIsMirrored
    Expandable
    Attached
