SPECIFICATION Spec
CONSTANTS
    h1 = h1
    h2 = h2
    d = d
    Appender = {h1, h2, d}
    Process <- MCProcess
    FileId = {"storage/a"}
    Kind = {"upload", "download"}
    Errno = {0, 11}
    Faults = TRUE
    MaxKeys = 3
INVARIANTS
    TypeOK
    KeysContiguous
    EventsHaveBase
PROPERTIES
    ImplementsProcMap
    NeverOverwritesOwn
CHECK_DEADLOCK FALSE
