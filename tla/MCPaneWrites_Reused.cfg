CONSTANTS
    Handlers = {h1}
    Kinds = {"run"}
    Commands = {"ls"}
    Contexts = {}
    NoContext = NoContext
    Verdict <- MCVerdict
    PidAnswers = {FALSE, TRUE}
    Programs = {sh}
    Nobody = Nobody
    MaxVersion = 3
    MaxId = 1
    MaxIncarnation = 1
SPECIFICATION Spec
INVARIANTS
    RunsReachAnEmptyPromptAlways
CHECK_DEADLOCK FALSE
