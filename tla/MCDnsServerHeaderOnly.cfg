CONSTANTS
    MinId = 2
    MaxId = 3
    MaxForwardDelay = 1
    NoRequest = NoRequest
    WordHalf = 1048576
    NoServer = NoServer
    HistorySize = 2
    GlobalWhite = {}
    GlobalBlack = {}
    NoRule = NoRule
    Names <- MCNames
    Lower <- MCLower
    Resources <- MCResources
    MaxDepth = 3
    MaxCount = 32
    MinTtl = 5
    NumServers = 2
    LocalDatabase <- NoLocalAnswers
    CacheInterval = 2
    ServersInterval = 1
    ChannelCap = 2
    Clients = {c1}
    Loopback = {}
    RulesOf <- IdRules
    Questions <- IdQuestions
    Contents <- IdContents
    NoQuestion = NoQuestion
    Strays <- NoStrays
    HeaderOnly = TRUE
    SendFails = TRUE
    MsPerTick = 1000
    MaxQueries = 2
    MaxTime = 2
SPECIFICATION Spec
INVARIANT NeverPanics
