CONSTANTS
    MinId = 2
    MaxId = 4
    MaxForwardDelay = 1
    NoRequest = NoRequest
    WordHalf = 1048576
    NoServer = NoServer
    HistorySize = 2
    GlobalWhite = {}
    GlobalBlack = {"b"}
    NoRule = NoRule
    Names <- MCNames
    Lower <- MCLower
    Resources <- MCResources
    MaxDepth = 3
    MaxCount = 1
    MinTtl = 5
    NumServers = 1
    LocalDatabase <- LocalB
    CacheInterval = 2
    ServersInterval = 1
    ChannelCap = 1
    Clients = {c1, c2}
    Loopback = {c1}
    RulesOf <- PolicyRules
    Questions <- PolicyQuestions
    Contents <- PolicyContents
    NoQuestion = NoQuestion
    Strays <- PolicyStrays
    HeaderOnly = TRUE
    SendFails = FALSE
    MsPerTick = 1000
    MaxQueries = 3
    MaxTime = 2
SPECIFICATION Spec
INVARIANT LetThroughIsSent
INVARIANT CacheRestsOnAnswers
INVARIANT HistoryKeepsTheLast
INVARIANT HistoryTruthful
CHECK_DEADLOCK FALSE
