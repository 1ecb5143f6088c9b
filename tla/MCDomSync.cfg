SPECIFICATION LiveSpec
CONSTANTS
    Nodes = {a, b, c}
    Root = game
    Worlds = {{"move"}, {"leave", "refer"}, {"leave", "eager"}}
    MaxWire = 1
    MaxNodes = 2
ACTION_CONSTRAINT ApplyGoesOn
INVARIANTS
    Forest
    DeferredIsBlocked
    HalvesAgree
    FreshIsExact
PROPERTIES
    ApplyEnds
