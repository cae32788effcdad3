\* An adapter behind a socket that loses its framing while the session is writing to it.
CONSTANTS
    Streams = {out, err}
    Sizes = {1}
    MaxBatch = 2
    Socket = TRUE
    OutputRoom = 1
    InputRoom = 1
    MaxReports = 5
    None = None
SPECIFICATION Spec
PROPERTIES
    AdapterIsDrained
CHECK_DEADLOCK FALSE
