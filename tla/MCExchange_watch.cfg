SPECIFICATION FairSpec
CONSTANTS
    Session = {s1}
    Client = {c1}
    Name = {"a", "b"}
    Path <- MCPath
    Stem <- MCStem
    Recipient = {Absent}
    Content = {"long"}
    Blocks <- MCBlocks
    Offset = {0}
    Malformed = Malformed
    Absent = Absent
    Errno = {0}
    MaxRequests = 2
    MaxStarts = 2
    Daemon = {d1}
    QueueMax = 1
    NoPid = NoPid
    Faults = TRUE
    MaxWatches = 1
INVARIANTS
    UploadNoticed
    DenialIsJustified
PROPERTIES
    UploadLogged
CHECK_DEADLOCK FALSE
