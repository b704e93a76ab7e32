SPECIFICATION FairSpec
CONSTANTS
    Daemon = {d1}
    File = {"a", "b"}
    QueueMax = 2
    NoPid = NoPid
    Errno = {0, 11}
    Faults = TRUE
    MongoFaults = FALSE
    MaxChanges = 3
    MaxStarts = 2
    d1 = d1
    d2 = d2
INVARIANTS
    TypeOK
    NothingLoggedTwice
    LastChangeLogged
PROPERTIES
    BatchFinishes
    SignalEndsDaemon
CHECK_DEADLOCK FALSE
