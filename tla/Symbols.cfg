CONSTANTS
    Roots = {a, b}
    Builds = {b1, b2}
    Saves = {s1}
    MaxEvents = 1
    None = None
SYMMETRY Symmetric
SPECIFICATION Spec
INVARIANTS
    CacheIsHonest
    ResultIsAsGoodAsCold
    IndexDescribesItsWorkspace
    FlagFollowsTheNewest
CHECK_DEADLOCK FALSE
