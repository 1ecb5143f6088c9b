SPECIFICATION Spec
CONSTANTS
    na = na
    nb = nb
    nc = nc
    nd = nd
    Nodes = {na, nb, nc, nd}
    Root = game
    Nowhere = nil
    Huge = huge
    NoName = noname
    Catalog <- MCCatalog
    Worlds = {{"read", "edit"}, {"attribute"}, {"read", "tree"}, {"read", "secure"}, {"read", "slow"}, {"read", "game"}, {"search", "game"}}
    Class <- MCClass
    Dump <- MCDump
    Levels = {0, 2}
    Initial <- MCInitial
    ReadOnly = {"Archivable"}
    Given <- MCGiven
    Items <- MCItems
    Samples = {100, 255000}
    Named <- MCNamed
    Classed <- MCClassed
    Scattered <- MCScattered
    SKIP_PROPERTIES = {"Source"}
    HIDDEN_PROPERTIES = {"Parent"}
    MAX_SEARCH_RESULTS = 2
    MaxOps <- MCMaxOps
CHECK_DEADLOCK FALSE
INVARIANTS
    LinksResolve
    WithinThreshold
    EditsKeepTheRest
    FoundIsReachable
