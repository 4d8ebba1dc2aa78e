CONSTANTS
    Handlers = {h1}
    Kinds = {"inject"}
    Commands = {"ls"}
    Contexts = {here}
    NoContext = NoContext
    Verdict <- MCVerdict
    PidAnswers = {TRUE}
    Programs = {sh}
    Nobody = Nobody
    MaxVersion = 4
    MaxId = 1
    MaxIncarnation = 0
SPECIFICATION Spec
INVARIANTS
    LinesAvoidModes
CHECK_DEADLOCK FALSE
