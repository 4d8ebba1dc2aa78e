CONSTANTS
    Handlers = {h1, h2, h3}
    Kinds = {"run", "approve"}
    Commands = {"rm"}
    Contexts = {here}
    NoContext = NoContext
    Verdict <- MCVerdict
    PidAnswers = {TRUE}
    Programs = {sh}
    Nobody = Nobody
    MaxVersion = 5
    MaxId = 1
    MaxIncarnation = 0
SPECIFICATION OneAskedSpec
SYMMETRY Symmetry
INVARIANTS
    OneRunPerApproval
CHECK_DEADLOCK FALSE
