SPECIFICATION Spec
CONSTANTS
    Session = {s1}
    Prompt = {}
    Client = {c1}
    Filename = {"a"}
    Unsafe = {}
    Stem <- MCStem
    Recipient = {Absent}
    Content = {"long"}
    Blocks <- MCBlocks
    Offset = {0}
    Malformed = Malformed
    Absent = Absent
    s1 = s1
    s2 = s2
    c1 = c1
    c2 = c2
    Errno = {0}
    Faults = FALSE
    MaxRequests = 3
    MaxStarts = 1
PROPERTY
    AckedUploadDecrypts
CHECK_DEADLOCK FALSE
