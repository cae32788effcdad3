\* The epochs of every report the actor receives are those of its server, so the handlers'
\* comparisons are guards that never fail.
SPECIFICATION Spec
CONSTANTS
    Docs = {d1}
    Unreadable = {}
    Asks = {r1}
    Kinds = {"references"}
    Immediate = TRUE
    MaxActs = 3
    MaxWindows = 1
INVARIANT ReportsAreCurrent
CHECK_DEADLOCK FALSE
