---------------------------- MODULE ForwardQueue ----------------------------
(***************************************************************************)
(* The table of requests that one upstream server has been asked about,    *)
(* dns/recursive/request.go, as operators on a value                       *)
(*                                                                         *)
(*     [nextId |-> an id, tree |-> a function from ids to requests].       *)
(*                                                                         *)
(* The red-black tree keyed by uint16 is the function `tree`; an id without *)
(* a node maps to NoRequest.  Every method of the type holds the mutex from *)
(* its first to its last statement, so each operator is one atomic step.    *)
(***************************************************************************)
EXTENDS Integers

CONSTANTS
    MinId,            (* minId, 0x0100 in the code                          *)
    MaxId,            (* maxId, 0xFFFF, the largest uint16                  *)
    MaxForwardDelay,  (* how long a request may wait, 8 s in the code       *)
    NoRequest         (* the nil a lookup of an absent id returns           *)

ASSUME IdAssumption == MinId \in Nat /\ MaxId \in Nat /\ MinId < MaxId
ASSUME DelayAssumption == MaxForwardDelay \in Nat

Slots == MinId .. MaxId

(* The number of ids Add hands out before it repeats one: nextId is        *)
(* incremented before it is used, so MinId itself is never handed out.     *)
IdSpace == MaxId - MinId

Forwarded(Req) == [req : Req, startDate : Nat, expireDate : Nat]

Queue(Req) == [nextId : Slots, tree : [Slots -> Forwarded(Req) \cup {NoRequest}]]

NewForwardedRequests ==
    [nextId |-> MinId, tree |-> [id \in Slots |-> NoRequest]]

(* Mutants of AllocateId: the wrap test is off by one; it forgets that     *)
(* MinId is incremented too; it wraps one id early.                        *)
AllocateIdPastMax(q) == (IF q.nextId > MaxId THEN MinId ELSE q.nextId) + 1
AllocateIdFromMin(q) == IF q.nextId >= MaxId THEN MinId ELSE q.nextId + 1
AllocateIdWrapsEarly(q) == (IF q.nextId >= MaxId - 1 THEN MinId ELSE q.nextId) + 1

(* The wrap test precedes the increment, so the uint16 never overflows.    *)
AllocateId(q) == (IF q.nextId >= MaxId THEN MinId ELSE q.nextId) + 1

Add(q, r, t) ==
    LET id == AllocateId(q)
    IN  [nextId |-> id,
         tree   |-> [q.tree EXCEPT ![id] = [req        |-> r,
                                            startDate  |-> t,
                                            expireDate |-> t + MaxForwardDelay]]]

Get(q, id) == IF id \in Slots THEN q.tree[id] ELSE NoRequest

(* q without the requests of the ids in S.                                 *)
Without(q, S) ==
    [nextId |-> q.nextId,
     tree   |-> [id \in Slots |-> IF id \in S THEN NoRequest ELSE q.tree[id]]]

(* A mutant of Remove: the request stays in the tree.                      *)
RemoveForgets(q, id) == q

Remove(q, id) == Without(q, {id})

Occupied(q) == {id \in Slots : q.tree[id] # NoRequest}

(* A mutant of ExpiredIds: a request due now has expired.                  *)
ExpiredIdsEarly(q, t) == {id \in Occupied(q) : q.tree[id].expireDate <= t}

(* filterTree: the comparison is strict, a request due now is kept.        *)
ExpiredIds(q, t) == {id \in Occupied(q) : q.tree[id].expireDate < t}

(* A mutant of RemoveExpired: what it reports stays in the tree.           *)
RemoveExpiredKeeps(q, t) == q

RemoveExpired(q, t) == Without(q, ExpiredIds(q, t))

(* Clear empties the tree and leaves nextId where it is.                   *)
Clear(q) == Without(q, Slots)
=============================================================================
