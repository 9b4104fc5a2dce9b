CONSTANTS
    Keys = {1, 2, 3, 4, 5, 6, 7}
    Values = {v1, v2}
    Nil = Nil
SPECIFICATION Spec
INVARIANT OrderedAndLinked
INVARIANT OneFlawWhereItStands
INVARIANT LookupsAgree
PROPERTY ImplementsMap
PROPERTY RoundsClimb
