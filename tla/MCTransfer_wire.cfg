SPECIFICATION FairSpec
CONSTANTS
    Versions <- MCVersions
    Command = {"upload", "download", "list"}
    StackOffset <- MCStackOffset
    IntMax = 2
    Missing = Missing
    Faults = TRUE
    MaxAnswers = 1
    MaxRuns = 3
    MaxWrites = 1
INVARIANTS
    TypeOK
    UploadedIsWhole
    FreshDownloadIsWhole
    RefusedForAReason
PROPERTY
    TransferEnds
CHECK_DEADLOCK FALSE
