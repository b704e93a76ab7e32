SPECIFICATION Spec
CONSTANTS
    h1 = h1
    h2 = h2
    d = d
    Appender = {h1, h2}
    Process <- MCProcess
    FileId = {"storage/a"}
    Kind = {"upload", "download"}
    Errno = {0}
    Faults = FALSE
    MaxKeys = 3
PROPERTY
    EventAddsIndex
CHECK_DEADLOCK FALSE
