SPECIFICATION Spec
CONSTANTS
    Daemon = {d1, d2}
    File = {"a"}
    QueueMax = 2
    NoPid = NoPid
    Errno = {0}
    Faults = FALSE
    MongoFaults = FALSE
    MaxChanges = 0
    MaxStarts = 2
    d1 = d1
    d2 = d2
INVARIANT
    OneDaemon
CHECK_DEADLOCK FALSE
