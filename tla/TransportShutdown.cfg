\* A shutdown, its own request and every other cause of death, with a server that may ignore
\* exit and EOF.
SPECIFICATION FairSpec
CONSTANTS
    Calls = {}
    Shutdown = shutdown
    Cancelled = {}
    ShutsDown = TRUE
    Answers = {"Ok", "Malformed", "Nameless"}
    Nobody = nobody
    MaxFrames = 1
    MaxFaults = 1
INVARIANT NoProcessLeftBehind
PROPERTY ShutdownEnds
\* A transport stops once its server is gone and its callers have returned.
CHECK_DEADLOCK FALSE
