CONSTANTS
    Names <- MCNames
    Lower <- MCLower
    Resources <- MCResources
    Replies <- MCReplies
    Types = {"A"}
    MaxDepth = 3
    MaxCount = 2
    MinTtl = 5
    CheckInterval = 2
    MaxTime = 4
SPECIFICATION Spec
INVARIANT LookupStopsAtMaxCount
