----------------------- MODULE ForwardedRequestsProofs ----------------------
(***************************************************************************)
(* The forward table for every id range, delay and number of requests.     *)
(*                                                                         *)
(* The inductive invariant is TypeOK, SlotsInOrder, Counted and OneFate.    *)
(* SlotsInOrder says which request every occupied slot holds, so two slots *)
(* never hold the same one; Counted keeps the serials still to come out of  *)
(* the sets of finished requests.                                          *)
(***************************************************************************)
EXTENDS ForwardedRequests, TLAPS

(* The id Add hands out lies above MinId and never exceeds MaxId: the      *)
(* uint16 does not wrap, and the slot MinId is never used (request.go, Add). *)
LEMMA AllocateRange ==
    ASSUME NEW q, q.nextId \in Slots
    PROVE  AllocateId(q) \in (MinId + 1) .. MaxId
BY IdAssumption DEF AllocateId, Slots

(* Add stores a well-formed request (request.go, Add).                     *)
LEMMA AddTyped ==
    ASSUME NEW Req, NEW q \in Queue(Req), NEW r \in Req, NEW t \in Nat
    PROVE  Add(q, r, t) \in Queue(Req)
<1>1. AllocateId(q) \in Slots
  BY AllocateRange, IdAssumption DEF Queue, Slots
<1>2. [req |-> r, startDate |-> t, expireDate |-> t + MaxForwardDelay] \in Forwarded(Req)
  BY DelayAssumption DEF Forwarded
<1> QED
  BY <1>1, <1>2 DEF Add, Queue

(* Remove, RemoveExpired and Clear keep the table well formed.             *)
LEMMA WithoutTyped ==
    ASSUME NEW Req, NEW q \in Queue(Req), NEW S
    PROVE  Without(q, S) \in Queue(Req)
BY DEF Without, Queue

Counted ==
    /\ \A id \in Occupied(queue) : queue.tree[id].req \in 1 .. issued
    /\ settled \subseteq 1 .. issued
    /\ timedOut \subseteq 1 .. issued

IInv == TypeOK /\ SlotsInOrder /\ Counted /\ OneFate

(* Two occupied slots hold different requests.                             *)
LEMMA Injective ==
    ASSUME TypeOK, SlotsInOrder,
           NEW a \in Occupied(queue), NEW b \in Occupied(queue),
           queue.tree[a].req = queue.tree[b].req
    PROVE  a = b
<1>1. a \in (MinId + 1) .. MaxId /\ b \in (MinId + 1) .. MaxId
  BY IdAssumption DEF Occupied, SlotsInOrder, Slots
<1>2. SerialAt(a) = SerialAt(b)
  BY DEF SlotsInOrder
<1>3. queue.nextId \in MinId .. MaxId /\ issued \in Int
  BY DEF TypeOK, Queue, Slots
<1> QED
  BY <1>1, <1>2, <1>3, IdAssumption DEF SerialAt, IdSpace

(* The invariant holds initially.                                          *)
LEMMA InitIInv == Init => IInv
<1> SUFFICES ASSUME Init PROVE IInv
  OBVIOUS
<1>1. queue \in Queue(Serials)
  BY IdAssumption DEF Init, NewForwardedRequests, Queue, Slots
<1>2. Occupied(queue) = {}
  BY DEF Init, NewForwardedRequests, Occupied
<1>3. queue.tree[MinId] = NoRequest
  BY IdAssumption DEF Init, NewForwardedRequests, Slots
<1> QED
  BY <1>1, <1>2, <1>3, BoundAssumption
     DEF Init, IInv, TypeOK, SlotsInOrder, Counted, OneFate, Waiting

(* Taking requests out of the table leaves the other slots as they were    *)
(* (request.go, Remove, RemoveExpired and Clear).                          *)
LEMMA WithoutKeeps ==
    ASSUME NEW S, queue' = Without(queue, S)
    PROVE  /\ Occupied(queue)' = Occupied(queue) \ S
           /\ \A id \in Occupied(queue)' : queue'.tree[id] = queue.tree[id]
           /\ queue'.nextId = queue.nextId
BY DEF Without, Occupied

(* Taking requests out preserves what the invariant says of the table.     *)
LEMMA WithoutInvariant ==
    ASSUME IInv, NEW S, queue' = Without(queue, S), issued' = issued
    PROVE  /\ (queue \in Queue(Serials))'
           /\ SlotsInOrder'
           /\ \A id \in Occupied(queue)' : queue'.tree[id].req \in 1 .. issued'
           /\ Waiting' = {queue.tree[id].req : id \in Occupied(queue) \ S}
<1>1. (queue \in Queue(Serials))'
  BY WithoutTyped DEF IInv, TypeOK, Serials
<1>2. SlotsInOrder'
  <2>1. queue'.tree[MinId] = NoRequest
    BY IdAssumption DEF Without, IInv, SlotsInOrder, Slots
  <2> QED
    BY <2>1, WithoutKeeps DEF IInv, SlotsInOrder, SerialAt
<1>3. \A id \in Occupied(queue)' : queue'.tree[id].req \in 1 .. issued'
  BY WithoutKeeps DEF IInv, Counted
<1>4. Waiting' = {queue.tree[id].req : id \in Occupied(queue) \ S}
  BY WithoutKeeps DEF Waiting
<1> QED
  BY <1>1, <1>2, <1>3, <1>4

(* What Add does to the slots: the new request sits in one slot, the       *)
(* others keep theirs, and the slot it took was free or held the request   *)
(* issued IdSpace calls before (request.go, Add).                          *)
LEMMA AddSlots ==
    ASSUME IInv, AddRequest
    PROVE  LET a == AllocateId(queue)
           IN  /\ a \in (MinId + 1) .. MaxId
               /\ queue'.nextId = a
               /\ Occupied(queue)' = Occupied(queue) \cup {a}
               /\ queue'.tree[a] = [req |-> issued + 1, startDate |-> now,
                                    expireDate |-> now + MaxForwardDelay]
               /\ \A id \in Slots \ {a} : queue'.tree[id] = queue.tree[id]
               /\ \A id \in Occupied(queue) :
                     queue.tree[id].req = (issued + 1) - IdSpace <=> id = a
<1> DEFINE a == AllocateId(queue)
           new == [req |-> issued + 1, startDate |-> now,
                   expireDate |-> now + MaxForwardDelay]
<1>1. /\ queue.nextId \in MinId .. MaxId /\ issued \in Nat /\ now \in Nat
      /\ queue.tree \in [Slots -> Forwarded(Serials) \cup {NoRequest}]
  BY BoundAssumption DEF IInv, TypeOK, Queue, Slots
<1>2. a \in (MinId + 1) .. MaxId
  BY <1>1, AllocateRange DEF Slots
<1>3. a \in Slots
  BY <1>2, IdAssumption DEF Slots
<1>4. queue' = [nextId |-> a, tree |-> [queue.tree EXCEPT ![a] = new]]
  BY DEF AddRequest, Add
<1>5. queue'.tree[a] = new /\ \A id \in Slots \ {a} : queue'.tree[id] = queue.tree[id]
  BY <1>1, <1>3, <1>4
<1>6. new # NoRequest
  <2>1. issued + 1 \in Serials
    BY <1>1, BoundAssumption DEF AddRequest, Serials, IInv, TypeOK
  <2>2. new \in Forwarded(Serials)
    BY <1>1, <2>1, DelayAssumption DEF Forwarded
  <2> QED
    BY <2>2, NoRequestAssumption
<1>7. Occupied(queue)' = Occupied(queue) \cup {a}
  BY <1>3, <1>5, <1>6 DEF Occupied
<1>8. ASSUME NEW id \in Occupied(queue)
      PROVE  queue.tree[id].req = (issued + 1) - IdSpace <=> id = a
  <2>1. id \in (MinId + 1) .. MaxId /\ queue.tree[id].req = SerialAt(id)
    BY IdAssumption DEF Occupied, IInv, SlotsInOrder, Slots
  <2>2. SerialAt(id) = (issued + 1) - IdSpace <=> id = a
    <3>1. CASE queue.nextId >= MaxId
      <4>1. a = MinId + 1 /\ queue.nextId = MaxId /\ id <= queue.nextId
        BY <1>1, <2>1, <3>1, IdAssumption DEF AllocateId
      <4> QED
        BY <1>1, <2>1, <4>1, IdAssumption DEF SerialAt, IdSpace
    <3>2. CASE queue.nextId < MaxId
      <4>1. a = queue.nextId + 1
        BY <1>1, <3>2, IdAssumption DEF AllocateId
      <4> HIDE DEF a
      <4> QED
        BY <1>1, <2>1, <3>2, <4>1, IdAssumption DEF SerialAt, IdSpace
    <3> QED
      BY <1>1, <3>1, <3>2, IdAssumption
  <2> QED
    BY <2>1, <2>2
<1> QED
  BY <1>2, <1>4, <1>5, <1>7, <1>8

(* Add preserves the invariant.                                            *)
LEMMA AddInvariant ==
    ASSUME IInv, AddRequest
    PROVE  IInv'
<1> DEFINE a == AllocateId(queue)
<1> USE DEF IInv
<1>1. issued \in Nat /\ now \in Nat /\ issued' = issued + 1 /\ issued' \in Serials
  BY BoundAssumption DEF AddRequest, Serials, TypeOK
<1>2. /\ queue.nextId \in MinId .. MaxId
      /\ a \in (MinId + 1) .. MaxId
      /\ queue'.nextId = a
      /\ Occupied(queue)' = Occupied(queue) \cup {a}
      /\ queue'.tree[a].req = issued + 1
      /\ \A id \in Slots \ {a} : queue'.tree[id] = queue.tree[id]
  BY AddSlots DEF TypeOK, Queue, Slots
<1>3. TypeOK'
  <2>1. queue' \in Queue(Serials)
    BY <1>1, AddTyped DEF AddRequest, TypeOK
  <2> QED
    BY <1>1, <2>1 DEF TypeOK, AddRequest, Serials
<1>4. SlotsInOrder'
  <2>1. queue'.tree[MinId] = NoRequest
    BY <1>2, IdAssumption DEF SlotsInOrder, Slots
  <2>2. ASSUME NEW id \in Occupied(queue)'
        PROVE  queue'.tree[id].req = SerialAt(id)'
    <3>1. CASE id = a
      BY <1>1, <1>2, <3>1 DEF SerialAt
    <3>2. CASE id # a
      <4>1. id \in Occupied(queue) /\ queue'.tree[id] = queue.tree[id]
        BY <1>2, <3>2 DEF Occupied
      <4>2. id \in (MinId + 1) .. MaxId /\ queue.tree[id].req = SerialAt(id)
        BY <4>1, IdAssumption DEF Occupied, SlotsInOrder, Slots
      <4>3. SerialAt(id)' = SerialAt(id)
        BY <1>1, <1>2, <3>2, <4>2, IdAssumption DEF SerialAt, IdSpace, AllocateId
      <4> QED
        BY <4>1, <4>2, <4>3
    <3> QED
      BY <3>1, <3>2
  <2> QED
    BY <2>1, <2>2 DEF SlotsInOrder
<1>5. Counted'
  <2>1. \A id \in Occupied(queue)' : queue'.tree[id].req \in 1 .. issued'
    BY <1>1, <1>2 DEF Counted, Occupied
  <2> QED
    BY <1>1, <2>1 DEF Counted, AddRequest
<1>6. OneFate'
  <2>1. Waiting' \subseteq Waiting \cup {issued + 1}
    BY <1>2 DEF Waiting, Occupied
  <2>2. issued + 1 \notin settled /\ issued + 1 \notin timedOut
    BY <1>1 DEF Counted
  <2> QED
    BY <2>1, <2>2 DEF OneFate, AddRequest
<1> QED
  BY <1>3, <1>4, <1>5, <1>6

(* Settling a request preserves the invariant: no other slot holds the     *)
(* request that leaves.                                                    *)
LEMMA SettleInvariant ==
    ASSUME IInv, NEW id \in Slots, SettleRequest(id)
    PROVE  IInv'
<1> DEFINE r == queue.tree[id].req
<1> USE DEF IInv
<1>1. id \in Occupied(queue) /\ queue' = Without(queue, {id}) /\ settled' = settled \cup {r}
      /\ UNCHANGED <<now, issued, timedOut>>
  BY DEF SettleRequest, Get, Remove, Occupied
<1>2. /\ (queue \in Queue(Serials))'
      /\ SlotsInOrder'
      /\ \A i \in Occupied(queue)' : queue'.tree[i].req \in 1 .. issued'
      /\ Waiting' = {queue.tree[i].req : i \in Occupied(queue) \ {id}}
  BY <1>1, WithoutInvariant
<1>3. r \in 1 .. issued /\ r \in Serials
  BY <1>1, BoundAssumption DEF Counted, TypeOK, Serials
<1>4. TypeOK'
  BY <1>1, <1>2, <1>3 DEF TypeOK, Serials
<1>5. Counted'
  BY <1>1, <1>2, <1>3 DEF Counted
<1>6. OneFate'
  <2>1. r \in Waiting
    BY <1>1 DEF Waiting
  <2>2. r \notin Waiting'
    BY <1>1, <1>2, Injective
  <2>3. Waiting' \subseteq Waiting
    BY <1>2 DEF Waiting
  <2> QED
    BY <1>1, <2>1, <2>2, <2>3 DEF OneFate
<1> QED
  BY <1>2, <1>4, <1>5, <1>6

(* The sweep preserves the invariant.                                      *)
LEMMA SweepInvariant ==
    ASSUME IInv, SweepExpired
    PROVE  IInv'
<1> DEFINE E == ExpiredIds(queue, now)
<1> USE DEF IInv
<1>1. /\ queue' = Without(queue, E)
      /\ timedOut' = timedOut \cup {queue.tree[id].req : id \in E}
      /\ UNCHANGED <<now, issued, settled>>
  BY DEF SweepExpired, RemoveExpired
<1>2. /\ (queue \in Queue(Serials))'
      /\ SlotsInOrder'
      /\ \A i \in Occupied(queue)' : queue'.tree[i].req \in 1 .. issued'
      /\ Waiting' = {queue.tree[i].req : i \in Occupied(queue) \ E}
  BY <1>1, WithoutInvariant
<1>3. E \subseteq Occupied(queue)
  BY DEF ExpiredIds
<1>4. {queue.tree[id].req : id \in E} \subseteq 1 .. issued
  BY <1>3 DEF Counted
<1>5. TypeOK'
  <2>1. 1 .. issued \subseteq Serials
    BY BoundAssumption DEF TypeOK, Serials
  <2> QED
    BY <1>1, <1>2, <1>4, <2>1 DEF TypeOK
<1>6. Counted'
  BY <1>1, <1>2, <1>4 DEF Counted
<1>7. OneFate'
  <2>1. {queue.tree[id].req : id \in E} \subseteq Waiting
    BY <1>3 DEF Waiting
  <2>2. Waiting' \cap {queue.tree[id].req : id \in E} = {}
    BY <1>2, <1>3, Injective
  <2>3. Waiting' \subseteq Waiting
    BY <1>2 DEF Waiting
  <2> QED
    BY <1>1, <2>1, <2>2, <2>3 DEF OneFate
<1> QED
  BY <1>2, <1>5, <1>6, <1>7

(* Every step preserves the invariant.                                     *)
LEMMA StepIInv == IInv /\ [Next]_vars => IInv'
<1> SUFFICES ASSUME IInv, [Next]_vars PROVE IInv'
  OBVIOUS
<1>1. CASE AddRequest
  BY <1>1, AddInvariant
<1>2. CASE \E id \in Slots : SettleRequest(id)
  BY <1>2, SettleInvariant
<1>3. CASE SweepExpired
  BY <1>3, SweepInvariant
<1>4. CASE ClearAll
  <2>1. /\ (queue \in Queue(Serials))'
        /\ SlotsInOrder'
        /\ \A i \in Occupied(queue)' : queue'.tree[i].req \in 1 .. issued'
        /\ Waiting' = {queue.tree[i].req : i \in Occupied(queue) \ Slots}
    BY <1>4, WithoutInvariant DEF ClearAll, Clear
  <2>2. Waiting' = {}
    BY <2>1 DEF Occupied
  <2> QED
    BY <1>4, <2>1, <2>2 DEF ClearAll, IInv, TypeOK, Counted, OneFate
<1>5. CASE Tick
  BY <1>5 DEF Tick, IInv, TypeOK, SlotsInOrder, SerialAt, Counted, OneFate, Waiting, Occupied
<1>6. CASE UNCHANGED vars
  BY <1>6 DEF vars, IInv, TypeOK, SlotsInOrder, SerialAt, Counted, OneFate, Waiting, Occupied
<1> QED
  BY <1>1, <1>2, <1>3, <1>4, <1>5, <1>6 DEF Next

(* The inductive invariant of the forward table.                           *)
THEOREM Invariant == Spec => []IInv
BY InitIInv, StepIInv, PTL DEF Spec

(* Ids stay in their range for every id range: the counter never wraps the *)
(* uint16 and never reaches the reserved small ids (request.go, Add).      *)
THEOREM TypeCorrect == Spec => []TypeOK
BY Invariant, PTL DEF IInv

(* An id stands for the request its own Add call stored (request.go).      *)
THEOREM SlotsStayInOrder == Spec => []SlotsInOrder
BY Invariant, PTL DEF IInv

(* No request is both answered and timed out (request.go, server.go).      *)
THEOREM EveryRequestOneFate == Spec => []OneFate
BY Invariant, PTL DEF IInv

(* A reused id displaces the request issued IdSpace calls before, and no   *)
(* other request is touched by an Add (request.go, Add).                   *)
THEOREM DisplacesOldest == Spec => OnlyOldestDisplaced
<1> DEFINE A == issued' # issued =>
                  \A id \in Occupied(queue) :
                     queue'.tree[id] # queue.tree[id]
                        => queue.tree[id].req = issued' - IdSpace
<1>1. IInv /\ [Next]_vars => [A]_vars
  <2> SUFFICES ASSUME IInv, Next, issued' # issued PROVE A
    OBVIOUS
  <2>1. AddRequest
    BY DEF Next, SettleRequest, SweepExpired, ClearAll, Tick
  <2>2. issued' = issued + 1
    BY <2>1 DEF AddRequest
  <2>3. /\ \A id \in Slots \ {AllocateId(queue)} : queue'.tree[id] = queue.tree[id]
        /\ \A id \in Occupied(queue) :
              queue.tree[id].req = (issued + 1) - IdSpace <=> id = AllocateId(queue)
    BY <2>1, AddSlots
  <2>4. Occupied(queue) \subseteq Slots
    BY DEF Occupied
  <2>5. ASSUME NEW id \in Occupied(queue), queue'.tree[id] # queue.tree[id]
        PROVE  queue.tree[id].req = issued' - IdSpace
    <3>1. id = AllocateId(queue)
      BY <2>3, <2>4, <2>5
    <3> QED
      BY <2>2, <2>3, <3>1
  <2> QED
    BY <2>5
<1> QED
  BY <1>1, Invariant, PTL DEF Spec, OnlyOldestDisplaced

-----------------------------------------------------------------------------
(* The id table implements the set of pending requests.                    *)

(* Removing a set of slots removes exactly the requests they hold.         *)
LEMMA WithoutPending ==
    ASSUME IInv, NEW S \in SUBSET Occupied(queue), queue' = Without(queue, S)
    PROVE  Pending' = Pending \ {AsPending(queue.tree[id]) : id \in S}
<1>1. Pending' = {AsPending(queue.tree[id]) : id \in Occupied(queue) \ S}
  BY WithoutKeeps DEF Pending
<1>2. ASSUME NEW a \in Occupied(queue), NEW b \in Occupied(queue),
             AsPending(queue.tree[a]) = AsPending(queue.tree[b])
      PROVE  a = b
  <2>1. queue.tree[a].req = queue.tree[b].req
    BY <1>2 DEF AsPending
  <2> QED
    BY <2>1, Injective DEF IInv
<1> QED
  BY <1>1, <1>2 DEF Pending

(* Every step of the table is a step of the abstract specification.        *)
LEMMA StepRefines == IInv /\ [Next]_vars => [Abstract!Next]_(Abstract!absVars)
<1> SUFFICES ASSUME IInv, [Next]_vars
             PROVE  Abstract!Next \/ UNCHANGED Abstract!absVars
  OBVIOUS
<1>1. ASSUME AddRequest
      PROVE  Abstract!Submit
  <2>1. PICK a \in Slots :
           /\ Occupied(queue)' = Occupied(queue) \cup {a}
           /\ queue'.tree[a] = [req |-> issued + 1, startDate |-> now,
                                expireDate |-> now + MaxForwardDelay]
           /\ \A id \in Slots \ {a} : queue'.tree[id] = queue.tree[id]
           /\ \A id \in Occupied(queue) : queue.tree[id].req = (issued + 1) - IdSpace <=> id = a
    <3>1. AllocateId(queue) \in Slots
      BY <1>1, AddSlots, IdAssumption DEF Slots
    <3> QED
      BY <1>1, <3>1, AddSlots
  <2>2. AsPending(queue'.tree[a]) = [serial |-> issued + 1, deadline |-> now + MaxForwardDelay]
    BY <2>1 DEF AsPending
  <2>3. Pending' = {AsPending(queue.tree[id]) : id \in Occupied(queue) \ {a}}
                     \cup {[serial |-> issued + 1, deadline |-> now + MaxForwardDelay]}
    BY <2>1, <2>2 DEF Pending, Occupied
  <2>4. {AsPending(queue.tree[id]) : id \in Occupied(queue) \ {a}}
           = {p \in Pending : p.serial # (issued + 1) - IdSpace}
    BY <2>1 DEF Pending, AsPending
  <2>5. issued' = issued + 1 /\ issued < MaxAdds /\ UNCHANGED <<now, settled, timedOut>>
    BY <1>1 DEF AddRequest
  <2>6. Pending' = {p \in Pending : p.serial # issued' - IdSpace}
                     \cup {[serial |-> issued', deadline |-> now + MaxForwardDelay]}
    BY <2>3, <2>4, <2>5
  <2> QED
    BY <2>5, <2>6 DEF Abstract!Submit
<1>2. ASSUME NEW id \in Slots, SettleRequest(id)
      PROVE  \E p \in Pending : Abstract!Settle(p)
  <2> DEFINE p == AsPending(queue.tree[id])
  <2>1. id \in Occupied(queue) /\ queue' = Without(queue, {id})
    BY <1>2 DEF SettleRequest, Get, Remove, Occupied
  <2>2. p \in Pending
    BY <2>1 DEF Pending
  <2>3. Pending' = Pending \ {p}
    BY <2>1, WithoutPending
  <2>4. settled' = settled \cup {p.serial} /\ UNCHANGED <<now, issued, timedOut>>
    BY <1>2 DEF SettleRequest, Get, AsPending
  <2>5. Abstract!Settle(p)
    BY <2>2, <2>3, <2>4 DEF Abstract!Settle
  <2> QED
    BY <2>2, <2>5
<1>3. ASSUME SweepExpired
      PROVE  Abstract!Sweep
  <2> DEFINE E == ExpiredIds(queue, now)
  <2>1. E \subseteq Occupied(queue) /\ queue' = Without(queue, E)
    BY <1>3 DEF SweepExpired, RemoveExpired, ExpiredIds
  <2>2. Abstract!Overdue = {AsPending(queue.tree[id]) : id \in E}
    BY DEF Abstract!Overdue, Pending, ExpiredIds, AsPending
  <2>3. Pending' = Pending \ {AsPending(queue.tree[id]) : id \in E}
    BY <2>1, WithoutPending
  <2>4. {queue.tree[id].req : id \in E}
           = {p.serial : p \in {AsPending(queue.tree[id]) : id \in E}}
    <3>1. \A f : AsPending(f).serial = f.req
      BY DEF AsPending
    <3> QED
      BY <3>1
  <2> QED
    BY <1>3, <2>2, <2>3, <2>4 DEF SweepExpired, Abstract!Sweep
<1>4. ASSUME ClearAll
      PROVE  Abstract!Discard
  <2>1. Occupied(queue)' = {}
    BY <1>4 DEF ClearAll, Clear, Without, Occupied
  <2>2. Pending' = {}
    BY <2>1 DEF Pending
  <2> QED
    BY <1>4, <2>2 DEF ClearAll, Abstract!Discard
<1>5. ASSUME Tick
      PROVE  Abstract!Advance
  BY <1>5 DEF Tick, Pending, Occupied, Abstract!Advance
<1>6. CASE UNCHANGED vars
  BY <1>6 DEF vars, Pending, Occupied, Abstract!absVars
<1> QED
  BY <1>1, <1>2, <1>3, <1>4, <1>5, <1>6 DEF Next, Abstract!Next

(* Looking a request up by its id, sweeping and reusing ids behave as a    *)
(* plain set of pending requests with deadlines (request.go).              *)
THEOREM Refinement == Spec => ImplementsPending
<1>1. Init => Abstract!Init
  BY DEF Init, NewForwardedRequests, Pending, Occupied, Abstract!Init
<1> QED
  BY <1>1, StepRefines, Invariant, PTL DEF Spec, ImplementsPending, Abstract!Spec
=============================================================================
