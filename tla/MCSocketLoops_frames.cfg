SPECIFICATION FairSpec
CONSTANTS
    Script <- MCScript
    Transport = {"tls", "plain"}
    RecordMax = 2
    Capacity = 4
INVARIANTS
    TypeOK
    HeaderInOneRead
PROPERTIES
    LoopsEnd
    ImplementsChannel
CHECK_DEADLOCK FALSE
