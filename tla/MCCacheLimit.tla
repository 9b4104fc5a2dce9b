---------------------------- MODULE MCCacheLimit ----------------------------
(* Three addresses of one name against a result array of two.               *)
EXTENDS Cache

MCNames == {"a", "b", "c"}

MCLower == [n \in MCNames |-> n]

Address(body) == [owner |-> "a", type |-> "A", target |-> body]

MCResources == {Address(b) : b \in MCNames}

MCReplies == {[x \in {r} |-> 2] : r \in MCResources}
=============================================================================
