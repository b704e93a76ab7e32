SPECIFICATION Spec
CONSTANTS
    Versions <- MCShortVersions
    Command = {"upload", "download", "list"}
    StackOffset <- MCStackOffset
    IntMax = 2
    Missing = Missing
    Faults = FALSE
    MaxAnswers = 1
    MaxRuns = 3
    MaxWrites = 0
INVARIANT
    DownloadedIsWhole
CHECK_DEADLOCK FALSE
