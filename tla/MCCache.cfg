CONSTANTS
    Names <- MCNames
    Lower <- MCLower
    Resources <- MCResources
    Replies <- MCReplies
    Types = {"A", "CNAME", "TXT"}
    MaxDepth = 3
    MaxCount = 32
    MinTtl = 5
    CheckInterval = 2
    MaxTime = 4
SPECIFICATION Spec
INVARIANT LookupIsFresh
INVARIANT AnswerFollowsAliases
PROPERTY CleanUpInvisible
