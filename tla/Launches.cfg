CONSTANTS
    Launchers = {l1, l2}
    Stoppers = {s1}
    Ids = {app}
    MaxDowns = 1
    None = None
SPECIFICATION Spec
INVARIANTS
    StopsAreReportedAsStops
    EverythingRunningCanBeStopped
    ListedWhileRunning
    OneGenerationUnlessRaced
    RestLeavesNothingBehind
CHECK_DEADLOCK FALSE
