SPECIFICATION FairSpec
CONSTANTS
    Session = {s1, s2}
    Prompt = {s1}
    Client = {c1, c2}
    Filename = {"a"}
    Unsafe = {}
    Stem <- MCStem
    Recipient = {Absent}
    Content = {"long"}
    Blocks <- MCBlocks
    Offset = {1}
    Malformed = Malformed
    Absent = Absent
    s1 = s1
    s2 = s2
    c1 = c1
    c2 = c2
    Errno = {0}
    Faults = FALSE
    MaxRequests = 3
    MaxStarts = 1
INVARIANTS
    ZeroKeyNeverRecorded
    ServedOwnUpload
    RecordedFileIsWhole
PROPERTIES
    ImplementsVault
    RequestsFinish
CHECK_DEADLOCK FALSE
