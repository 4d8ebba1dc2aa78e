CONSTANTS
    Handlers = {h1, h2}
    Kinds = {"run", "inject", "approve"}
    Commands = {"ls", "rm"}
    Contexts = {here, there}
    NoContext = NoContext
    Verdict <- MCVerdict
    PidAnswers = {TRUE}
    Programs = {sh}
    Nobody = Nobody
    MaxVersion = 4
    MaxId = 1
    MaxIncarnation = 0
SPECIFICATION AptSpec
SYMMETRY Symmetry
INVARIANTS
    TypeOK
    VersionNamesSnapshot
    RunsReachAnEmptyPrompt
    RunsWhereItWasJudged
    OneLineAtAKnownPhase
CHECK_DEADLOCK FALSE
