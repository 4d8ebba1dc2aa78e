CONSTANTS
    Handlers = {h1, h2}
    Loop = loop
    Pieces = 2
    Capacity = 1
    MaxNotes = 2
    AttachInTime = TRUE
SPECIFICATION FairSpec
INVARIANTS
    TypeOK
    RepliesMatch
    LinesEnteredWhole
PROPERTY
    CallsReturn
CHECK_DEADLOCK FALSE
