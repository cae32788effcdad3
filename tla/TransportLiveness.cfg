\* One caller whose own deadline never fires, perhaps cancelled, and one fault.
SPECIFICATION FairSpec
CONSTANTS
    Calls = {c1}
    Shutdown = shutdown
    Cancelled = {c1}
    ShutsDown = FALSE
    Answers = {"Ok", "ServerError"}
    Nobody = nobody
    MaxFrames = 1
    MaxFaults = 1
PROPERTIES
    ExitWakesEveryWaiter
    ServerQuestionAnswered
\* A transport stops once its server is gone and its callers have returned.
CHECK_DEADLOCK FALSE
