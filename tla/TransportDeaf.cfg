\* A server that closes its stdout and goes on running.
SPECIFICATION FairSpec
CONSTANTS
    Calls = {c1}
    Shutdown = shutdown
    Cancelled = {}
    ShutsDown = FALSE
    Answers = {"Ok"}
    Nobody = nobody
    MaxFrames = 1
    MaxFaults = 1
PROPERTY DeafServerIsDead
CHECK_DEADLOCK FALSE
