\* One request and no edits: everything a server, its tasks and the handles can do.
SPECIFICATION FairSpec
CONSTANTS
    Docs = {d1}
    Unreadable = {d1}
    Asks = {r1}
    Kinds = {"references", "documentSymbol"}
    Immediate = FALSE
    MaxActs = 0
    MaxWindows = 0
PROPERTIES
    EveryAskIsAnswered
    DeathIsNoticed
    StatusCatchesUp
    NoServerOutlivesTheSession
\* A session stops once it is torn down and its processes are gone.
CHECK_DEADLOCK FALSE
