----------------------------- MODULE TextOrder ------------------------------
(* The order both compare functions of config put texts in.                *)
EXTENDS Integers, Sequences

ByteString == Seq(0 .. 255)

(* The order of names and paths: the shorter first, else byte by byte.      *)
TextLess(a, b) ==
    \/ Len(a) < Len(b)
    \/ Len(a) = Len(b) /\ \E i \in DOMAIN a :
          a[i] < b[i] /\ \A j \in 1 .. i - 1 : a[j] = b[j]
=============================================================================
