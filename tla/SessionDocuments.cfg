\* One document opened, edited, closed and opened again, by the editor and by a request, while
\* its server starts, dies, is restarted twice and fails.
SPECIFICATION Spec
CONSTANTS
    Docs = {d1}
    Unreadable = {}
    Asks = {r1}
    Kinds = {"references"}
    Immediate = TRUE
    MaxActs = 3
    MaxWindows = 1
INVARIANTS
    ServerHoldsTheBuffers
    AskedAboutTheCallersText
    OneServerAtATime
PROPERTY VersionsOnlyGrow
\* A session stops once it is torn down and its processes are gone.
CHECK_DEADLOCK FALSE
