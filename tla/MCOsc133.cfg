CONSTANTS
    Commands = {"ls"}
    Codes = {0}
    Places = {"home"}
    None = None
    MaxHistory = 2
    MaxLog = 6
SPECIFICATION MCSpec
INVARIANTS
    TypeOK
    HistoryAddressable
    RunningIsNewest
    OutputsMatchStream
    LocationIsFresh
PROPERTIES
    FinishedIsFrozen
    ImplementsMarkers
CHECK_DEADLOCK FALSE
