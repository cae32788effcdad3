\* A question about a file that no editor has opened, then a rename.
SPECIFICATION Spec
CONSTANTS
    Docs = {d1, d2}
    Unreadable = {}
    Asks = {r1, r2}
    Kinds = {"references", "rename"}
    Immediate = TRUE
    MaxActs = 0
    MaxWindows = 0
INVARIANT RenameKnowsTheEditorsBuffers
CHECK_DEADLOCK FALSE
