CONSTANTS
    Handlers = {h1}
    Kinds = {"run", "keys"}
    Commands = {"ls"}
    Contexts = {}
    NoContext = NoContext
    Verdict <- MCVerdict
    PidAnswers = {TRUE}
    Programs = {sh, vim}
    Nobody = Nobody
    MaxVersion = 5
    MaxId = 1
    MaxIncarnation = 1
SPECIFICATION ShellSpec
PROPERTY
    CallsEnd
CHECK_DEADLOCK FALSE
