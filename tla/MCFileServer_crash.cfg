SPECIFICATION Spec
CONSTANTS
    Session = {s1}
    Prompt = {}
    Client = {c1, c2}
    Filename = {"a", "a.pdf", "../a"}
    Unsafe = {"../a"}
    Stem <- MCStem
    Recipient = {Absent, Malformed}
    Content = {"long"}
    Blocks <- MCBlocks
    Offset = {0, 3}
    Malformed = Malformed
    Absent = Absent
    s1 = s1
    s2 = s2
    c1 = c1
    c2 = c2
    Errno = {0}
    Faults = TRUE
    MaxRequests = 3
    MaxStarts = 2
INVARIANTS
    TypeOK
    RecordHasFile
    AckMeansStored
    JournalBackedByRecord
    DenialIsJustified
    RecordedFileIsWhole
SYMMETRY
    MCSymmetry
CHECK_DEADLOCK FALSE
