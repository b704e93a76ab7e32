SPECIFICATION FairSpec
CONSTANTS
    Connection = {k1, k2}
    Main = Main
    Nobody = Nobody
    k1 = k1
    k2 = k2
    Faults = TRUE
    MaxAccepts = 3
    MaxSignals = 2
INVARIANTS
    TypeOK
    ReturnsClean
    UndefinedOnlyAfterSignal
    DescriptorsOwned
PROPERTIES
    ShutdownCompletes
    LoggersProceed
    ImplementsLife
CHECK_DEADLOCK FALSE
