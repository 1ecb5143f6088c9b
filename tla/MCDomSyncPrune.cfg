SPECIFICATION Spec
CONSTANTS
    Nodes = {a, b, c}
    Root = game
    Worlds = {{"move", "leave"}}
    MaxWire = 1
    MaxNodes = 2
ACTION_CONSTRAINT ApplyGoesOn
INVARIANTS
    GoneIsPruned
