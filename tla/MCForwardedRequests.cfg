CONSTANTS
    MinId = 2
    MaxId = 5
    MaxForwardDelay = 1
    NoRequest = NoRequest
    MaxAdds = 5
    MaxTime = 4
SPECIFICATION Spec
INVARIANT TypeOK
INVARIANT SlotsInOrder
INVARIANT OneFate
PROPERTY OnlyOldestDisplaced
PROPERTY ImplementsPending
