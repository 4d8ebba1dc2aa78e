CONSTANTS
    Commands = {"ls"}
    Codes = {0}
    Places = {"home"}
    None = None
    MaxHistory = 2
    MaxLog = 6
SPECIFICATION MCSpec
INVARIANT TextInOneOutput
CHECK_DEADLOCK FALSE
