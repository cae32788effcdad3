\* That AtRest is what it says it is.
CONSTANTS
    Launchers = {l1, l2}
    Stoppers = {s1}
    Ids = {app}
    MaxDowns = 1
    None = None
SPECIFICATION Spec
INVARIANT RestIsNoProgress
CHECK_DEADLOCK FALSE
