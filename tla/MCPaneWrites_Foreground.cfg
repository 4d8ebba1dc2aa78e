CONSTANTS
    Handlers = {h1, h2}
    Kinds = {"run", "approve"}
    Commands = {"rm"}
    Contexts = {here}
    NoContext = NoContext
    Verdict <- MCVerdict
    PidAnswers = {TRUE}
    Programs = {sh, vim}
    Nobody = Nobody
    MaxVersion = 4
    MaxId = 1
    MaxIncarnation = 0
SPECIFICATION Spec
INVARIANT
    ApprovalBindsForeground
CHECK_DEADLOCK FALSE
