CONSTANTS
    Files <- MCFiles
    Reloads <- MCReloads
    NoName = NoName
    NoConfig = NoConfig
    NoPath = NoPath
    MaxLoads = 2
    Texts <- MCTexts
    Paths <- MCPaths
    Questions <- MCQuestions
    Names <- MCNames
    Lower <- MCLower
    ReverseName <- MCReverseName
    MaxDepth = 3
    MaxCount = 2
SPECIFICATION Spec
CHECK_DEADLOCK FALSE
INVARIANT FindsTheFirst
INVARIANT ShadowingLosesNothing
INVARIANT RuleOfThePath
INVARIANT DatabaseAnswers
PROPERTY OutcomeFitsFile
