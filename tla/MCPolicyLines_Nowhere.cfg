CONSTANTS
    Lines <- MCLines
    RuleSets <- MCRuleSets
    Dirs <- MCDirs
    Hosts <- MCHosts
    ThisHost <- MCThisHost
    ProjectRoot <- P
    Texts <- MCTexts
    Default = "Ask"
SPECIFICATION Spec
INVARIANTS
    JudgedAsRunAnywhere
CHECK_DEADLOCK FALSE
