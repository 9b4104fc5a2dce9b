------------------------------- MODULE KeyMap -------------------------------
(***************************************************************************)
(* What the tree of util/bst promises: a map from some of the keys to       *)
(* values, changed in one step by each call.                               *)
(***************************************************************************)
CONSTANTS Keys, Values

VARIABLE map

With(m, k, v) == [j \in DOMAIN m \cup {k} |-> IF j = k THEN v ELSE m[j]]
Without(m, k) == [j \in DOMAIN m \ {k} |-> m[j]]

Init == map = [k \in {} |-> k]

Put(k, v) == map' = With(map, k, v)

Remove(k) == map' = Without(map, k)

Clear == map' = [k \in {} |-> k]

Next ==
    \/ \E k \in Keys, v \in Values : Put(k, v)
    \/ \E k \in Keys : Remove(k)
    \/ Clear

Spec == Init /\ [][Next]_map
=============================================================================
