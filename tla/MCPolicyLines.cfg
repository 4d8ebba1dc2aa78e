CONSTANTS
    Lines <- MCLines
    RuleSets <- MCRuleSets
    Dirs <- MCDirs
    Hosts <- MCHosts
    ThisHost <- MCThisHost
    ProjectRoot <- P
    Texts <- MCTexts
    Default = "Ask"
SPECIFICATION Spec
INVARIANTS
    TypeOK
    JudgesWhatRuns
    JudgedAsRun
    OrderDecidesNothing
    AddingNeverLoosens
    ExemptionsKeepToTheirPaths
    ProjectStaysHere
CHECK_DEADLOCK FALSE
