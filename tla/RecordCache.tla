---------------------------- MODULE RecordCache -----------------------------
(***************************************************************************)
(* The record cache, dns/cache/cache.go, as operators on a function        *)
(*                                                                         *)
(*     cache : Resources -> the second its entry expires, 0 if absent      *)
(*                                                                         *)
(* The code keeps, under the lower-cased owner name, a list that holds no   *)
(* two records with equal class, type and body; a resource here is such a  *)
(* (owner, type, body), and the class, always IN, is left out.  Only the    *)
(* body of an alias matters to a lookup: it is the `target`.                *)
(***************************************************************************)
EXTENDS Integers, FiniteSetsExt

CONSTANTS
    Names,       (* names as they occur in questions and alias targets      *)
    Lower,       (* strings.ToLower, a function on Names                    *)
    Resources,   (* the records [owner, type, target] there are; owner is   *)
                 (* in lower case                                           *)
    MaxDepth,    (* how many names a lookup follows, 3 in the code          *)
    MaxCount,    (* maxCount, the length of the result array, 32            *)
    MinTtl       (* the least TTL handed to a client, 5 seconds             *)

ASSUME LowerAssumption == Lower \in [Names -> Names]
ASSUME ResourceAssumption ==
    \A r \in Resources : r.owner \in Names /\ r.target \in Names
ASSUME LimitAssumption == MaxDepth \in Nat \ {0} /\ MaxCount \in Nat /\ MinTtl \in Nat

(* isTypeCacheable, and isTypeSupported of the server: the same list.       *)
KnownTypes == {"A", "AAAA", "CNAME", "NS", "MX", "PTR", "SOA", "SRV"}

Absent == 0

EmptyCache == [r \in Resources |-> Absent]

Present(cache) == {r \in Resources : cache[r] # Absent}

(* AddAll of the records of a message, a function from resources to TTLs:   *)
(* a record with TTL 0 is passed over, one that is cached already has its   *)
(* expiry replaced, later or earlier.                                       *)
AddAll(cache, records, now) ==
    [r \in Resources |->
        IF r \in DOMAIN records /\ r.type \in KnownTypes /\ records[r] > 0
        THEN now + records[r]
        ELSE cache[r]]

(* A mutant of IsExpired: it answers one second late.                      *)
IsExpiredLate(cache, r, now) == cache[r] < now - 1

(* isExpired: a record due now can still be handed out.                     *)
IsExpired(cache, r, now) == cache[r] < now

Matching(cache, name, type, now) ==
    {r \in Present(cache) : r.owner = name /\ r.type = type /\ ~IsExpired(cache, r, now)}

(* A mutant of Aliases: any alias is followed, whoever owns it.            *)
AliasesOfAnyone(cache, name, type) ==
    {r \in Present(cache) : type # "CNAME" /\ r.type = "CNAME"}

(* The aliases a lookup follows.  Neither their expiry is examined nor the *)
(* case of their targets folded.                                           *)
Aliases(cache, name, type) ==
    {r \in Present(cache) : type # "CNAME" /\ r.type = "CNAME" /\ r.owner = name}

(* getRecord: what a lookup of each name finds when it may still visit d    *)
(* names.                                                                  *)
Resolve(cache, type, now) ==
    LET found[d \in 0 .. MaxDepth] ==
            [name \in Names |->
                IF d = 0 THEN {}
                ELSE Matching(cache, name, type, now)
                       \cup UNION {found[d - 1][r.target] : r \in Aliases(cache, name, type)}]
    IN  found[MaxDepth]

(* How many slots of the result array a lookup fills: a record reached     *)
(* along two aliases is copied twice.                                      *)
Filled(cache, type, now) ==
    LET slots[d \in 0 .. MaxDepth] ==
            [name \in Names |->
                IF d = 0 THEN 0
                ELSE Cardinality(Matching(cache, name, type, now))
                       + MapThenSumSet(LAMBDA r : slots[d - 1][r.target],
                                       Aliases(cache, name, type))]
    IN  slots[MaxDepth]

(* Get: the records for a question; the empty set stands for nil.           *)
Get(cache, q, now) == Resolve(cache, q.type, now)[Lower[q.name]]

(* The limit is tested after the slot is written: the record after the last *)
(* slot is an index out of range, and no caller recovers from the panic.    *)
GetPanics(cache, q, now) == Filled(cache, q.type, now)[Lower[q.name]] > MaxCount

(* toResource                                                              *)
ServedTtl(cache, r, now) == Max({MinTtl, cache[r] - now})

(* A mutant of RemoveExpired: it takes what is due in the next second.     *)
RemoveExpiredEarly(cache, now) ==
    [r \in Resources |-> IF cache[r] <= now + 1 THEN Absent ELSE cache[r]]

(* RemoveExpired: unlike isExpired it takes a record due now.               *)
RemoveExpired(cache, now) ==
    [r \in Resources |-> IF cache[r] <= now THEN Absent ELSE cache[r]]
=============================================================================
