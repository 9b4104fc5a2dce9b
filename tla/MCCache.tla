------------------------------ MODULE MCCache -------------------------------
(* A name with an address, an alias to it, an alias chain that closes into *)
(* a loop, and an alias whose target is written in capitals.               *)
EXTENDS Cache

MCNames == {"a", "b", "c", "C"}

MCLower == [n \in MCNames |-> IF n = "C" THEN "c" ELSE n]

AddressOfA == [owner |-> "a", type |-> "A", target |-> "a"]
AddressOfC == [owner |-> "c", type |-> "A", target |-> "c"]
AliasAB    == [owner |-> "a", type |-> "CNAME", target |-> "b"]
AliasBC    == [owner |-> "b", type |-> "CNAME", target |-> "c"]
AliasCA    == [owner |-> "c", type |-> "CNAME", target |-> "a"]
AliasBUp   == [owner |-> "b", type |-> "CNAME", target |-> "C"]
TextOfA    == [owner |-> "a", type |-> "TXT", target |-> "a"]

MCResources == {AddressOfA, AddressOfC, AliasAB, AliasBC, AliasCA, AliasBUp, TextOfA}

Only(r, t) == [x \in {r} |-> t]

MCReplies ==
    {Only(AddressOfA, 1), Only(AddressOfA, 3), Only(AddressOfA, 0),
     Only(AddressOfC, 1), Only(AddressOfC, 2),
     [x \in {AliasAB, AliasBC} |-> 2],
     Only(AliasCA, 1), Only(AliasBUp, 2), Only(TextOfA, 2)}
=============================================================================
