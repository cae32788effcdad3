\* Two concurrent callers, late and repeated answers, one fault of the environment.
SPECIFICATION Spec
CONSTANTS
    Calls = {c1, c2}
    Shutdown = shutdown
    Cancelled = {}
    ShutsDown = FALSE
    Answers = {"Ok", "Malformed", "Nameless"}
    Nobody = nobody
    MaxFrames = 2
    MaxFaults = 1
INVARIANTS
    NoWaiterStranded
    NoAnswerIsLost
    TrueCauseReported
SYMMETRY Symmetry
PROPERTY ServiceRefined
\* A transport stops once its server is gone and its callers have returned.
CHECK_DEADLOCK FALSE
