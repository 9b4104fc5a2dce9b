CONSTANTS
    MinId = 2
    MaxId = 3
    MaxForwardDelay = 1
    NoRequest = NoRequest
    WordHalf = 1048576
    NoServer = NoServer
    HistorySize = 2
    GlobalWhite = {}
    GlobalBlack = {}
    NoRule = NoRule
    Names <- MCNames
    Lower <- MCLower
    Resources <- MCResources
    MaxDepth = 3
    MaxCount = 32
    MinTtl = 5
    NumServers = 2
    LocalDatabase <- NoLocalAnswers
    CacheInterval = 1
    ServersInterval = 1
    ChannelCap = 2
    Clients = {c1}
    Loopback = {}
    RulesOf <- IdRules
    Questions <- IdQuestions
    Contents <- IdContents
    NoQuestion = NoQuestion
    Strays <- NoStrays
    HeaderOnly = FALSE
    SendFails = TRUE
    MsPerTick = 1000
    MaxQueries = 3
    MaxTime = 2
SPECIFICATION FairSpec
INVARIANT TypeOK
INVARIANT AtMostOneReply
INVARIANT AnswerFitsQuestion
INVARIANT EveryRequestAccounted
INVARIANT FiguresAgree
PROPERTY ClosedIsFinal
PROPERTY OnlySlowServersRefuse
PROPERTY ForwardedIsClosed
