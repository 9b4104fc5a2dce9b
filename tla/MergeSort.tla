----------------------------- MODULE MergeSort ------------------------------
(***************************************************************************)
(* The merge sort that config/filterList.go and config/appList.go each have  *)
(* a copy of, over the order Less of their compare functions: a merge takes  *)
(* from the left half unless the right one has less.                        *)
(***************************************************************************)
EXTENDS Integers, Sequences

CONSTANT Less(_, _)

Merge(u, v) ==
    LET from[at \in (1 .. Len(u) + 1) \X (1 .. Len(v) + 1)] ==
            LET i == at[1]
                j == at[2]
            IN  IF i > Len(u) THEN SubSeq(v, j, Len(v))
                ELSE IF j > Len(v) THEN SubSeq(u, i, Len(u))
                ELSE IF Less(v[j], u[i]) THEN <<v[j]>> \o from[<<i, j + 1>>]
                ELSE <<u[i]>> \o from[<<i + 1, j>>]
    IN  from[<<1, 1>>]

Sorted(s) ==
    LET from[part \in (DOMAIN s) \X (DOMAIN s)] ==
            LET lo  == part[1]
                hi  == part[2]
                mid == (lo + hi) \div 2
            IN  IF hi <= lo THEN <<s[lo]>>
                ELSE Merge(from[<<lo, mid>>], from[<<mid + 1, hi>>])
    IN  IF s = <<>> THEN s ELSE from[<<1, Len(s)>>]
=============================================================================
