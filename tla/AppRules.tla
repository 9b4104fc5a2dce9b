------------------------------ MODULE AppRules ------------------------------
(***************************************************************************)
(* The rules of applications, config/appList.go: a list sorted by path, in   *)
(* which the rule of "*" comes first and stands for every other path.        *)
(* A rule is a record with a path.                                          *)
(***************************************************************************)
EXTENDS TextOrder

CONSTANT NoPath     \* the path of a client whose application is unknown

EveryPath == <<42>>   \* "*"

(* compareCarName                                                          *)
PathLess(a, b) ==
    IF EveryPath \in {a, b} THEN a = EveryPath /\ b # EveryPath ELSE TextLess(a, b)

RuleLess(a, b) == PathLess(a.path, b.path)

ByPath == INSTANCE MergeSort WITH Less <- RuleLess

SortedRules(rules) == ByPath!Sorted(rules)

NoIndex == 0

(* A mutant of BinarySearch: the upper end is not searched.                *)
BinarySearchOpen(rules, path) ==
    LET from[part \in (1 .. Len(rules) + 1) \X (0 .. Len(rules))] ==
            LET lo  == part[1]
                hi  == part[2]
                mid == (lo + hi) \div 2
            IN  IF lo >= hi THEN NoIndex
                ELSE IF rules[mid].path = path THEN mid
                ELSE IF PathLess(path, rules[mid].path) THEN from[<<lo, mid - 1>>]
                ELSE from[<<mid + 1, hi>>]
    IN  from[<<1, Len(rules)>>]

BinarySearch(rules, path) ==
    LET from[part \in (1 .. Len(rules) + 1) \X (0 .. Len(rules))] ==
            LET lo  == part[1]
                hi  == part[2]
                mid == (lo + hi) \div 2
            IN  IF lo > hi THEN NoIndex
                ELSE IF rules[mid].path = path THEN mid
                ELSE IF PathLess(path, rules[mid].path) THEN from[<<lo, mid - 1>>]
                ELSE from[<<mid + 1, hi>>]
    IN  from[<<1, Len(rules)>>]

(* FindName, as an index.                                                  *)
FindName(rules, path) ==
    LET found == IF path = NoPath THEN NoIndex ELSE BinarySearch(rules, path)
    IN  IF found # NoIndex THEN found
        ELSE IF rules # <<>> /\ rules[1].path = EveryPath THEN 1
        ELSE NoIndex
=============================================================================
