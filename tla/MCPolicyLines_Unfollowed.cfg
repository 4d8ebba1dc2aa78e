CONSTANTS
    Lines <- MCUnfollowedLines
    RuleSets <- MCRuleSets
    Dirs <- MCDirs
    Hosts <- MCHosts
    ThisHost <- MCThisHost
    ProjectRoot <- P
    Texts <- MCTexts
    Default = "Ask"
SPECIFICATION Spec
INVARIANTS
    JudgesEveryLine
CHECK_DEADLOCK FALSE
