--------------------------- MODULE RequestHistory ---------------------------
(***************************************************************************)
(* The last requests, Requests of dns/history/requestHistory.go, as         *)
(* operators on a value                                                    *)
(*                                                                         *)
(*     [list |-> the entries, in a slice of a fixed capacity,               *)
(*      first |-> the index of the oldest when the slice is full]           *)
(*                                                                         *)
(* Indexes count from 0 as in the code.                                     *)
(***************************************************************************)
EXTENDS Integers, Sequences

CONSTANT HistorySize    \* the capacity

ASSUME HistoryAssumption == HistorySize \in Nat \ {0}

Ring(entries) ==
    {r \in [list : Seq(entries), first : 0 .. HistorySize - 1] :
        Len(r.list) <= HistorySize /\ (Len(r.list) < HistorySize => r.first = 0)}

NewRing == [list |-> <<>>, first |-> 0]

AddEntry(r, entry) ==
    IF Len(r.list) < HistorySize
    THEN [list |-> Append(r.list, entry), first |-> r.first]
    ELSE [list |-> [i \in DOMAIN r.list |-> IF i = r.first + 1 THEN entry ELSE r.list[i]],
          first |-> IF r.first + 1 >= HistorySize THEN 0 ELSE r.first + 1]

(* A mutant of At: it counts from the start of the slice.                  *)
AtFromStart(r, index) == r.list[index + 1]

At(r, index) ==
    r.list[IF index + r.first >= HistorySize THEN index + r.first - HistorySize + 1
                                              ELSE index + r.first + 1]

(* Filter, of a date before all entries: the oldest first.                  *)
Listed(r) == [i \in DOMAIN r.list |-> At(r, i - 1)]
=============================================================================
