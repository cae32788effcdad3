\* Three concurrent commands of any kind over two workspaces.
SPECIFICATION Spec
CONSTANTS
    Roots = {w1, w2}
    Calls = {c1, c2, c3}
    Kinds = {"openDocument", "restart", "open", "close", "activate"}
    Attempts = 2
    None = none
SYMMETRY CallSymmetry
INVARIANTS
    ServedByItsOwnWorkspace
    RetiredSessionsAreTornDown
\* Every command returns in the end.
CHECK_DEADLOCK FALSE
