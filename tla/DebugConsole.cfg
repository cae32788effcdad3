CONSTANTS
    Streams = {out, err}
    Sizes = {1}
    MaxBatch = 2
    Socket = FALSE
    OutputRoom = 2
    InputRoom = 1
    MaxReports = 4
    None = None
SPECIFICATION Spec
PROPERTIES
    ShowsTheSession
    AdapterIsDrained
    RequestsAreAnswered
    NothingIsWithheld
CHECK_DEADLOCK FALSE
