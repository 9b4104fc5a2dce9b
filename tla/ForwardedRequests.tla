------------------------- MODULE ForwardedRequests --------------------------
(***************************************************************************)
(* One forward table under every sequence of calls its callers can make.   *)
(* A request is represented by the serial number of its Add call, so that  *)
(* the properties can say which request an id stood for.                   *)
(***************************************************************************)
EXTENDS ForwardQueue

CONSTANTS
    MaxAdds,   (* bound: Add calls made                                     *)
    MaxTime    (* bound: the clock                                          *)

ASSUME BoundAssumption == MaxAdds \in Nat /\ MaxTime \in Nat

VARIABLES
    queue,     (* the table                                                 *)
    now,       (* util.TimeNowMilliseconds, in ticks                        *)
    issued,    (* how many requests Add has accepted                        *)
    settled,   (* serials found by Get and taken out by Remove              *)
    timedOut   (* serials RemoveExpired has returned                        *)

vars == <<queue, now, issued, settled, timedOut>>

Serials == 1 .. MaxAdds

ASSUME NoRequestAssumption == NoRequest \notin Forwarded(Serials)

-----------------------------------------------------------------------------
Init ==
    /\ queue = NewForwardedRequests
    /\ now = 0
    /\ issued = 0
    /\ settled = {}
    /\ timedOut = {}

AddRequest ==
    /\ issued < MaxAdds
    /\ issued' = issued + 1
    /\ queue' = Add(queue, issued + 1, now)
    /\ UNCHANGED <<now, settled, timedOut>>

(* Get, and Remove when Get found something: how processResponse settles a *)
(* request.                                                                *)
SettleRequest(id) ==
    /\ Get(queue, id) # NoRequest
    /\ settled' = settled \cup {Get(queue, id).req}
    /\ queue' = Remove(queue, id)
    /\ UNCHANGED <<now, issued, timedOut>>

SweepExpired ==
    /\ timedOut' = timedOut \cup {queue.tree[id].req : id \in ExpiredIds(queue, now)}
    /\ queue' = RemoveExpired(queue, now)
    /\ UNCHANGED <<now, issued, settled>>

ClearAll ==
    /\ queue' = Clear(queue)
    /\ UNCHANGED <<now, issued, settled, timedOut>>

Tick ==
    /\ now < MaxTime
    /\ now' = now + 1
    /\ UNCHANGED <<queue, issued, settled, timedOut>>

Next ==
    \/ AddRequest
    \/ \E id \in Slots : SettleRequest(id)
    \/ SweepExpired
    \/ ClearAll
    \/ Tick

Spec == Init /\ [][Next]_vars

-----------------------------------------------------------------------------
(* The serials that sit in the table.                                      *)
Waiting == {queue.tree[id].req : id \in Occupied(queue)}

(* The values the code's types allow; the id counter never leaves its range *)
(* and so never wraps the uint16 (request.go, Add).                         *)
TypeOK ==
    /\ queue \in Queue(Serials)
    /\ now \in Nat
    /\ issued \in 0 .. MaxAdds
    /\ settled \subseteq Serials
    /\ timedOut \subseteq Serials

(* The serial of the request an occupied slot must hold, counted back from *)
(* the last id handed out.                                                 *)
SerialAt(id) ==
    IF id <= queue.nextId
    THEN issued - (queue.nextId - id)
    ELSE issued - (queue.nextId - id) - IdSpace

(* The id a request sits under is the one its own Add returned: nothing    *)
(* ever moves a request, and the slot below the first id stays empty.      *)
SlotsInOrder ==
    /\ queue.tree[MinId] = NoRequest
    /\ \A id \in Occupied(queue) : queue.tree[id].req = SerialAt(id)

(* A request meets one fate: it is waiting, or it was settled by a reply,  *)
(* or it was reported as timed out, never two of these.  The history entry *)
(* of a request would otherwise be closed twice (server.go, processResponse *)
(* and loop).                                                              *)
OneFate ==
    /\ Waiting \cap settled = {}
    /\ Waiting \cap timedOut = {}
    /\ settled \cap timedOut = {}

(* When Add takes an id that is still in use it displaces the oldest       *)
(* request there can be, the one issued exactly IdSpace calls before; no   *)
(* younger request is ever lost to a new one (request.go, Add).            *)
OnlyOldestDisplaced ==
    [][issued' # issued =>
         \A id \in Occupied(queue) :
            queue'.tree[id] # queue.tree[id]
               => queue.tree[id].req = issued' - IdSpace]_vars

-----------------------------------------------------------------------------
(* What the table promises, free of ids: see PendingRequests.              *)
AsPending(f) == [serial |-> f.req, deadline |-> f.expireDate]

Pending == {AsPending(queue.tree[id]) : id \in Occupied(queue)}

Abstract == INSTANCE PendingRequests WITH
                pending <- Pending, clock <- now, Capacity <- IdSpace

(* The id table implements the set of pending requests: a lookup by id     *)
(* settles the request that id was given to, and the sweep reports every   *)
(* overdue request and only those.                                         *)
ImplementsPending == Abstract!Spec
=============================================================================
