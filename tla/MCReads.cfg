CONSTANTS
    Calls = {c1, c2}
    MaxRequests = 2
    Asks <- MCAsks
    History = 1
    OffsetsKept = 1
    MaxCommands = 2
    MaxLines = 3
SPECIFICATION Spec
INVARIANTS
    TypeOK
    NoLostCall
    NothingSkipped
    PlaceKept
    CompletedIsWhole
    EndsWakeReads
    ShowsItsContext
SYMMETRY MCSymmetry
CHECK_DEADLOCK FALSE
