\* One workspace, a document that an editor opens, and the Restart action.
SPECIFICATION Spec
CONSTANTS
    Roots = {w1}
    Calls = {c1, c2}
    Kinds = {"openDocument", "restart"}
    Attempts = 3
    None = none
INVARIANT RestartReplaysTheBuffers
CHECK_DEADLOCK FALSE
