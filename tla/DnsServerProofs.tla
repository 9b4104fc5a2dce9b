-------------------------- MODULE DnsServerProofs ---------------------------
(***************************************************************************)
(* The forwarding server for every number of servers, clients, queries and  *)
(* ids, every configuration and every channel capacity.                     *)
(***************************************************************************)
EXTENDS DnsServer, FiniteSetTheorems, SequenceTheorems, TLAPS

(* What the operations of a forward queue return, for every queue.          *)

(* The id Add hands out lies above MinId and never exceeds MaxId: the      *)
(* uint16 does not wrap, and the slot MinId is never used (request.go, Add). *)
LEMMA AllocateRange ==
    ASSUME NEW q, q.nextId \in Slots
    PROVE  AllocateId(q) \in (MinId + 1) .. MaxId
BY IdAssumption DEF AllocateId, Slots

(* Add stores a well-formed request (request.go, Add).                     *)
LEMMA AddTyped ==
    ASSUME NEW Req, NEW q \in Queue(Req), NEW r \in Req, NEW t \in Nat
    PROVE  Add(q, r, t) \in Queue(Req)
<1>1. AllocateId(q) \in Slots
  BY AllocateRange, IdAssumption DEF Queue, Slots
<1>2. [req |-> r, startDate |-> t, expireDate |-> t + MaxForwardDelay] \in Forwarded(Req)
  BY DelayAssumption DEF Forwarded
<1> QED
  BY <1>1, <1>2 DEF Add, Queue

(* Remove, RemoveExpired and Clear keep the table well formed.             *)
LEMMA WithoutTyped ==
    ASSUME NEW Req, NEW q \in Queue(Req), NEW S
    PROVE  Without(q, S) \in Queue(Req)
BY DEF Without, Queue

(* Taking requests out leaves the others where they are (request.go,        *)
(* Remove, RemoveExpired and Clear).                                        *)
LEMMA WithoutSlots ==
    ASSUME NEW q, NEW S
    PROVE  /\ Occupied(Without(q, S)) = Occupied(q) \ S
           /\ \A id \in Occupied(q) \ S : Without(q, S).tree[id] = q.tree[id]
BY DEF Without, Occupied

(* Add fills one slot and leaves the others as they are (request.go, Add).  *)
LEMMA AddFillsOne ==
    ASSUME NEW Req, NoRequest \notin Forwarded(Req),
           NEW q \in Queue(Req), NEW r \in Req, NEW t \in Nat
    PROVE  /\ AllocateId(q) \in Slots
           /\ Occupied(Add(q, r, t)) = Occupied(q) \cup {AllocateId(q)}
           /\ Add(q, r, t).tree[AllocateId(q)].req = r
           /\ \A id \in Slots \ {AllocateId(q)} : Add(q, r, t).tree[id] = q.tree[id]
<1> DEFINE a == AllocateId(q)
           f == [req |-> r, startDate |-> t, expireDate |-> t + MaxForwardDelay]
<1>1. a \in Slots
  BY AllocateRange, IdAssumption DEF Queue, Slots
<1>2. Add(q, r, t).tree = [q.tree EXCEPT ![a] = f]
  BY DEF Add
<1>3. Add(q, r, t).tree[a] = f
  BY <1>1, <1>2 DEF Queue
<1>4. \A id \in Slots \ {a} : Add(q, r, t).tree[id] = q.tree[id]
  BY <1>1, <1>2 DEF Queue
<1>5. f \in Forwarded(Req)
  BY DelayAssumption DEF Forwarded
<1>6. f # NoRequest
  BY <1>5
<1>7. Occupied(Add(q, r, t)) = Occupied(q) \cup {a}
  BY <1>1, <1>3, <1>4, <1>6 DEF Occupied
<1> QED
  BY <1>1, <1>3, <1>4, <1>7

(* A counter stays in its word (udp.go, the int32 fields).                  *)
LEMMA ToWordTyped == ASSUME NEW n \in Int PROVE ToWord(n) \in Word
BY WordAssumption DEF ToWord, Word

(* Counting a query keeps the figures well formed (udp.go, IncQueryCount).  *)
LEMMA IncQueryTyped == ASSUME NEW st \in Stats PROVE IncQueryCount(st) \in Stats
<1>1. st.queriesCount + 1 \in Int
  BY WordAssumption DEF Stats, Word
<1>2. ToWord(st.queriesCount + 1) \in Word
  BY <1>1, ToWordTyped
<1> QED
  BY <1>2 DEF IncQueryCount, Stats

(* The moving average of two words is a word (udp.go:31).                   *)
LEMMA AverageTyped ==
    ASSUME NEW x \in Word, NEW y \in Word
    PROVE  Quotient(85 * x + 15 * y, 100) \in Word
BY WordAssumption DEF Quotient, Word

(* Counting a reply keeps the figures well formed (udp.go, IncReplyCount).  *)
LEMMA IncReplyTyped ==
    ASSUME NEW st \in Stats, NEW d \in Int
    PROVE  IncReplyCount(st, d) \in Stats
<1>1. ToWord(d) \in Word
  BY ToWordTyped
<1>2. Quotient(85 * st.responseTime + 15 * ToWord(d), 100) \in Word
  BY <1>1, AverageTyped DEF Stats
<1>3. st.repliesCount + 1 \in Int
  BY WordAssumption DEF Stats, Word
<1>4. ToWord(st.repliesCount + 1) \in Word
  BY <1>3, ToWordTyped
<1> QED
  BY <1>1, <1>2, <1>4 DEF IncReplyCount, Stats

-----------------------------------------------------------------------------
(* The inductive invariant.                                                *)

(* Requests pass the channel in the order of their serials.                 *)
InOrder ==
    /\ \A i \in 1 .. Len(channel), n \in Serials :
          channel[i] = Request(n) =>
             n \in 1 .. Len(query) /\ \A k \in DOMAIN history : k < n
    /\ \A i, j \in 1 .. Len(channel), m, n \in Serials :
          channel[i] = Request(m) /\ channel[j] = Request(n) /\ i < j => m < n

(* A query is handed to one server at most, once.                           *)
AskedOnce ==
    /\ \A a \in asked : a.serial \in DOMAIN history
    /\ \A a, b \in asked : a.serial = b.serial => a = b

AskedAt(s, id) == [serial |-> queues[s].tree[id].req, server |-> s, id |-> id]

(* What waits in a queue was put there by forwardUdp and has no answer yet. *)
WaitingUnanswered ==
    \A s \in Servers : \A id \in Occupied(queues[s]) :
        AskedAt(s, id) \in asked /\ replies[queues[s].tree[id].req] = 0

(* A query the loop has not seen has no answer.                             *)
UnseenUnanswered == \A n \in Serials \ DOMAIN history : replies[n] = 0

Core ==
    /\ AskedOnce
    /\ WaitingUnanswered
    /\ UnseenUnanswered
    /\ AtMostOneReply
    /\ EveryRequestAccounted

IInv == LoopTypeOK /\ InOrder /\ Core

(* The invariant holds initially.                                          *)
LEMMA InitIInv == Init => IInv
<1> SUFFICES ASSUME Init PROVE IInv
  OBVIOUS
<1>1. NewForwardedRequests \in Queue(Serials) /\ Occupied(NewForwardedRequests) = {}
  BY IdAssumption DEF NewForwardedRequests, Queue, Slots, Occupied
<1>2. NewStats \in Stats
  BY WordAssumption DEF NewStats, Stats, Word
<1>3. Store!EmptyCache \in [Resources -> Nat]
  BY DEF Store!EmptyCache, Store!Absent
<1>4. DOMAIN history = {} /\ Len(query) = 0 /\ Len(channel) = 0
  BY DEF Init
<1>5. history \in [DOMAIN history -> SUBSET Flags]
  BY <1>4 DEF Init
<1>6. LoopTypeOK
  <2>1. channel \in Seq(Messages) /\ Len(channel) <= ChannelCap
    BY <1>4, ServerAssumption, EmptySeq DEF Init
  <2>2. query \in Seq([client : Clients, question : Questions])
    BY EmptySeq DEF Init
  <2>3. /\ queues \in [Servers -> Queue(Serials)]
        /\ stats \in [Servers -> Stats]
        /\ replies \in [Serials -> Nat]
    BY <1>1, <1>2 DEF Init
  <2> QED
    BY <1>3, <1>4, <1>5, <2>1, <2>2, <2>3 DEF Init, LoopTypeOK
<1>7. InOrder
  BY <1>4 DEF InOrder
<1>8. Core
  BY <1>1, <1>4 DEF Init, Core, AskedOnce, WaitingUnanswered, UnseenUnanswered,
                    AtMostOneReply, EveryRequestAccounted
<1> QED
  BY <1>6, <1>7, <1>8 DEF IInv

-----------------------------------------------------------------------------
(* The channel.                                                            *)

(* What the loop takes is a message, and what is left is still in order     *)
(* once the history has grown by no more than the serial that was taken.    *)
LEMMA TakeTyped ==
    ASSUME IInv, NEW m, Take(m)
    PROVE  /\ m \in Messages
           /\ channel' \in Seq(Messages) /\ Len(channel') <= ChannelCap
<1>1. channel \in Seq(Messages) /\ channel # <<>> /\ Len(channel) <= ChannelCap
  BY DEF IInv, LoopTypeOK, Take
<1>2. /\ Head(channel) \in Messages
      /\ Tail(channel) \in Seq(Messages)
      /\ Len(Tail(channel)) = Len(channel) - 1
      /\ Len(channel) \in Nat
  BY <1>1, HeadTailProperties
<1> QED
  BY <1>1, <1>2, ServerAssumption DEF Take

LEMMA TakeInOrder ==
    ASSUME IInv, NEW m, Take(m), query' = query,
           \/ DOMAIN history' = DOMAIN history
           \/ \E n \in Serials : m = Request(n) /\ DOMAIN history' = DOMAIN history \cup {n}
    PROVE  InOrder'
<1>1. /\ channel \in Seq(Messages) /\ channel # <<>> /\ channel[1] = m
      /\ channel' = Tail(channel)
  BY DEF IInv, LoopTypeOK, Take
<1>2. /\ Len(channel') = Len(channel) - 1
      /\ \A i \in 1 .. Len(channel') : channel'[i] = channel[i + 1] /\ i + 1 \in 2 .. Len(channel)
  BY <1>1
<1>3. Len(channel) \in Nat /\ Len(channel) >= 1
  BY <1>1
<1>4. ASSUME NEW i \in 1 .. Len(channel'), NEW n \in Serials, channel'[i] = Request(n)
      PROVE  n \in 1 .. Len(query') /\ \A k \in DOMAIN history' : k < n
  <2>1. channel[i + 1] = Request(n) /\ i + 1 \in 1 .. Len(channel) /\ 1 \in 1 .. Len(channel)
        /\ 1 < i + 1
    BY <1>2, <1>3, <1>4
  <2>2. n \in 1 .. Len(query) /\ \A k \in DOMAIN history : k < n
    BY <2>1 DEF IInv, InOrder
  <2>3. ASSUME NEW k \in Serials, m = Request(k) PROVE k < n
    BY <1>1, <2>1, <2>3 DEF IInv, InOrder
  <2> QED
    BY <2>2, <2>3
<1>5. ASSUME NEW i \in 1 .. Len(channel'), NEW j \in 1 .. Len(channel'),
             NEW k \in Serials, NEW n \in Serials,
             channel'[i] = Request(k), channel'[j] = Request(n), i < j
      PROVE  k < n
  <2>1. /\ channel[i + 1] = Request(k) /\ channel[j + 1] = Request(n)
        /\ i + 1 \in 1 .. Len(channel) /\ j + 1 \in 1 .. Len(channel) /\ i + 1 < j + 1
    BY <1>2, <1>3, <1>5
  <2> QED
    BY <2>1 DEF IInv, InOrder
<1> QED
  BY <1>4, <1>5 DEF InOrder

(* The request at the head of the channel is the next one, not seen yet.    *)
LEMMA HeadUnseen ==
    ASSUME IInv, NEW n \in Serials, Take(Request(n))
    PROVE  /\ n \in 1 .. Len(query)
           /\ \A k \in DOMAIN history : k < n
           /\ n \notin DOMAIN history
<1>1. 1 \in 1 .. Len(channel) /\ channel[1] = Request(n)
  BY DEF IInv, LoopTypeOK, Take
<1>2. n \in 1 .. Len(query) /\ \A k \in DOMAIN history : k < n
  BY <1>1 DEF IInv, InOrder
<1> QED
  BY <1>2 DEF Serials

-----------------------------------------------------------------------------
(* What the loop does to the history, the answers and the queues.          *)

(* Enter adds the entry of n and leaves the others (requestHistory.go, Add).*)
LEMMA EnterAdds ==
    ASSUME NEW n, n \notin DOMAIN history, NEW flags, Enter(n, flags)
    PROVE  /\ DOMAIN history' = DOMAIN history \cup {n}
           /\ history'[n] = flags
           /\ \A k \in DOMAIN history : history'[k] = history[k]
           /\ ring' = AddEntry(ring, n)
BY DEF Enter

(* Nothing is disturbed while history, answers and queues stay the same.    *)
LEMMA CoreStutter ==
    ASSUME IInv, UNCHANGED <<history, replies, queues, asked>>
    PROVE  Core'
<1>1. Core
  BY DEF IInv
<1> QED
  BY <1>1 DEF Core, AskedOnce, WaitingUnanswered, AskedAt, UnseenUnanswered, AtMostOneReply,
              EveryRequestAccounted, Accounted, IsWaiting, Reused

(* An answer without an upstream server: its query is not in any queue, and *)
(* it is the first answer (server.go:195-251).                              *)
LEMMA AnswerCore ==
    ASSUME IInv, NEW n \in Serials, n \notin DOMAIN history, NEW flags, Enter(n, flags),
           replies' = [replies EXCEPT ![n] = @ + 1], UNCHANGED <<queues, asked>>
    PROVE  Core'
<1>1. /\ DOMAIN history' = DOMAIN history \cup {n}
      /\ \A k \in DOMAIN history : history'[k] = history[k]
  BY EnterAdds
<1>2. Core /\ replies \in [Serials -> Nat] /\ replies[n] = 0
  BY DEF IInv, LoopTypeOK, Core, UnseenUnanswered
<1>3. replies'[n] = 1 /\ \A k \in Serials \ {n} : replies'[k] = replies[k]
  BY <1>2
<1>4. AskedOnce'
  BY <1>1, <1>2 DEF Core, AskedOnce
<1>5. WaitingUnanswered'
  <2> SUFFICES ASSUME NEW s \in Servers, NEW id \in Occupied(queues[s])
               PROVE  AskedAt(s, id) \in asked /\ replies'[queues[s].tree[id].req] = 0
    BY DEF WaitingUnanswered, AskedAt
  <2>1. AskedAt(s, id) \in asked /\ replies[queues[s].tree[id].req] = 0
    BY <1>2 DEF Core, WaitingUnanswered
  <2>2. queues[s].tree[id].req \in DOMAIN history /\ queues[s].tree[id].req \in Serials
    BY <1>2, <2>1 DEF Core, AskedOnce, AskedAt, IInv, LoopTypeOK
  <2> QED
    BY <1>3, <2>1, <2>2
<1>6. UnseenUnanswered'
  BY <1>1, <1>2, <1>3 DEF Core, UnseenUnanswered
<1>7. AtMostOneReply'
  BY <1>2, <1>3 DEF Core, AtMostOneReply
<1>8. EveryRequestAccounted'
  BY <1>1, <1>2 DEF Core, AskedOnce, EveryRequestAccounted, Accounted, IsWaiting, Reused
<1> QED
  BY <1>4, <1>5, <1>6, <1>7, <1>8 DEF Core

(* The queue of a server is well formed, and a serial is not a nil.         *)
LEMMA QueueTyped ==
    ASSUME IInv, NEW s \in Servers
    PROVE  /\ queues[s] \in Queue(Serials)
           /\ \A id \in Slots : id \in Occupied(queues[s]) <=> queues[s].tree[id] # NoRequest
           /\ \A id \in Occupied(queues[s]) :
                 /\ id \in Slots
                 /\ queues[s].tree[id] \in Forwarded(Serials)
                 /\ queues[s].tree[id].req \in Serials
                 /\ queues[s].tree[id].startDate \in Nat
                 /\ queues[s].tree[id].expireDate \in Nat
<1>1. queues[s] \in Queue(Serials)
  BY DEF IInv, LoopTypeOK
<1>2. \A id \in Slots : queues[s].tree[id] \in Forwarded(Serials) \cup {NoRequest}
  BY <1>1 DEF Queue
<1> QED
  BY <1>1, <1>2 DEF Occupied, Forwarded

(* What waits in a queue: the entry it has in `asked` is the only one of    *)
(* its serial.                                                             *)
LEMMA WaitingFacts ==
    ASSUME IInv, NEW s \in Servers, NEW id \in Occupied(queues[s])
    PROVE  /\ AskedAt(s, id) \in asked
           /\ queues[s].tree[id].req \in DOMAIN history
           /\ replies[queues[s].tree[id].req] = 0
           /\ \A a \in asked : a.serial = queues[s].tree[id].req => a = AskedAt(s, id)
<1>1. AskedAt(s, id) \in asked /\ replies[queues[s].tree[id].req] = 0
  BY DEF IInv, Core, WaitingUnanswered
<1>2. AskedAt(s, id).serial = queues[s].tree[id].req
  BY DEF AskedAt
<1> QED
  BY <1>1, <1>2 DEF IInv, Core, AskedOnce

(* IsWaiting, in terms of what a queue holds.                               *)
LEMMA WaitingMeans ==
    ASSUME IInv, NEW a \in asked
    PROVE  /\ a.server \in Servers /\ a.id \in Slots /\ a.serial \in Serials
           /\ IsWaiting(a) <=> /\ a.id \in Occupied(queues[a.server])
                               /\ queues[a.server].tree[a.id].req = a.serial
<1>1. a.server \in Servers /\ a.id \in Slots /\ a.serial \in Serials
  BY DEF IInv, LoopTypeOK
<1> QED
  BY <1>1, QueueTyped DEF IsWaiting

(* Forwarding: the new request waits under the id Add returned, and the     *)
(* one that may have waited there has had its id given to a later query     *)
(* (server.go, forwardUdp; request.go, Add).                                *)
LEMMA ForwardCore ==
    ASSUME IInv, NEW n \in Serials, n \notin DOMAIN history,
           \A k \in DOMAIN history : k < n,
           NEW s \in Servers, NEW flags,
           flags \cap {"recursion", "timeout"} = {},
           Enter(n, flags), UNCHANGED replies,
           queues' = [queues EXCEPT ![s] = Add(@, n, now)],
           asked' = asked \cup {[serial |-> n, server |-> s, id |-> AllocateId(queues[s])]}
    PROVE  Core'
<1> DEFINE new == AllocateId(queues[s])
           added == [serial |-> n, server |-> s, id |-> new]
<1>1. /\ DOMAIN history' = DOMAIN history \cup {n}
      /\ history'[n] = flags
      /\ \A k \in DOMAIN history : history'[k] = history[k]
  BY EnterAdds
<1>2. /\ queues \in [Servers -> Queue(Serials)] /\ now \in Nat /\ replies[n] = 0
      /\ asked \subseteq [serial : Serials, server : Servers, id : Slots]
      /\ queues[s] \in Queue(Serials)
  BY DEF IInv, LoopTypeOK, Core, UnseenUnanswered
<1>3. /\ new \in Slots
      /\ Occupied(Add(queues[s], n, now)) = Occupied(queues[s]) \cup {new}
      /\ Add(queues[s], n, now).tree[new].req = n
      /\ \A id \in Slots \ {new} : Add(queues[s], n, now).tree[id] = queues[s].tree[id]
  BY <1>2, AddFillsOne, NoRequestAssumption
<1>4. /\ queues'[s] = Add(queues[s], n, now)
      /\ \A o \in Servers \ {s} : queues'[o] = queues[o]
  BY <1>2
<1>5. AskedOnce'
  BY <1>1 DEF IInv, Core, AskedOnce
<1>6. WaitingUnanswered'
  <2> SUFFICES ASSUME NEW o \in Servers, NEW id \in Occupied(queues'[o])
               PROVE  /\ [serial |-> queues'[o].tree[id].req, server |-> o, id |-> id] \in asked'
                      /\ replies[queues'[o].tree[id].req] = 0
    BY DEF WaitingUnanswered, AskedAt
  <2>1. CASE o = s /\ id = new
    BY <1>2, <1>3, <1>4, <2>1
  <2>2. CASE ~(o = s /\ id = new)
    <3>1. id \in Occupied(queues[o]) /\ queues'[o].tree[id] = queues[o].tree[id]
      BY <1>3, <1>4, <2>2, QueueTyped
    <3> QED
      BY <3>1, WaitingFacts DEF AskedAt
  <2> QED
    BY <2>1, <2>2
<1>7. UnseenUnanswered'
  BY <1>1 DEF IInv, Core, UnseenUnanswered
<1>8. AtMostOneReply'
  BY DEF IInv, Core, AtMostOneReply
<1>9. EveryRequestAccounted'
  <2> SUFFICES ASSUME NEW a \in asked' PROVE Accounted(a)'
    BY DEF EveryRequestAccounted
  <2>1. CASE a = added
    BY <1>1, <1>3, <1>4, <2>1 DEF Accounted, IsWaiting, Occupied
  <2>2. CASE a \in asked
    <3>1. a.serial \in DOMAIN history /\ a.serial < n /\ history'[a.serial] = history[a.serial]
      BY <1>1, <2>2 DEF IInv, Core, AskedOnce
    <3>2. Accounted(a)
      BY <2>2 DEF IInv, Core, EveryRequestAccounted
    <3>3. Reused(a) => Reused(a)'
      BY DEF Reused
    <3>4. CASE a.server = s /\ a.id = new
      <4>1. ~IsWaiting(a)'
        BY <1>2, <1>3, <1>4, <3>1, <3>4 DEF IsWaiting
      <4>2. Reused(a)'
        <5>1. added \in asked' /\ added.server = a.server /\ added.id = a.id
          BY <3>4
        <5>2. added.serial > a.serial
          BY <2>2, <3>1, WaitingMeans DEF Serials
        <5> QED
          BY <5>1, <5>2 DEF Reused
      <4> QED
        BY <3>1, <3>2, <4>1, <4>2 DEF Accounted
    <3>5. CASE ~(a.server = s /\ a.id = new)
      <4>1. queues'[a.server].tree[a.id] = queues[a.server].tree[a.id]
        BY <1>3, <1>4, <2>2, <3>5, WaitingMeans
      <4>2. IsWaiting(a)' <=> IsWaiting(a)
        BY <4>1 DEF IsWaiting
      <4> QED
        BY <3>1, <3>2, <3>3, <4>2 DEF Accounted
    <3> QED
      BY <3>4, <3>5
  <2> QED
    BY <2>1, <2>2
<1> QED
  BY <1>5, <1>6, <1>7, <1>8, <1>9 DEF Core

(* An answer settles the request that waits under its id: no other entry of *)
(* a queue has that serial, so no other query is touched (server.go:80-88). *)
LEMMA SettleCore ==
    ASSUME IInv, NEW s \in Servers, NEW id \in Occupied(queues[s]),
           queues' = [queues EXCEPT ![s] = Remove(@, id)],
           history' = [history EXCEPT ![queues[s].tree[id].req] = @ \cup {"closed", "recursion"}],
           replies' = [replies EXCEPT ![queues[s].tree[id].req] = @ + 1],
           UNCHANGED asked
    PROVE  Core'
<1> DEFINE n == queues[s].tree[id].req
<1>1. /\ queues \in [Servers -> Queue(Serials)]
      /\ replies \in [Serials -> Nat]
      /\ asked \subseteq [serial : Serials, server : Servers, id : Slots]
  BY DEF IInv, LoopTypeOK
<1>2. /\ n \in Serials /\ n \in DOMAIN history /\ replies[n] = 0
      /\ AskedAt(s, id) \in asked /\ \A a \in asked : a.serial = n => a = AskedAt(s, id)
      /\ id \in Slots
  BY QueueTyped, WaitingFacts
<1>3. /\ DOMAIN history' = DOMAIN history
      /\ history'[n] = history[n] \cup {"closed", "recursion"}
      /\ \A k \in DOMAIN history \ {n} : history'[k] = history[k]
  BY <1>2
<1>4. replies'[n] = 1 /\ \A k \in Serials \ {n} : replies'[k] = replies[k]
  BY <1>1, <1>2
<1>5. /\ queues'[s] = Without(queues[s], {id})
      /\ \A o \in Servers \ {s} : queues'[o] = queues[o]
  BY <1>1 DEF Remove
<1>6. /\ Occupied(queues'[s]) = Occupied(queues[s]) \ {id}
      /\ \A i \in Occupied(queues[s]) \ {id} : queues'[s].tree[i] = queues[s].tree[i]
      /\ queues'[s].tree[id] = NoRequest
      /\ \A i \in Slots \ {id} : queues'[s].tree[i] = queues[s].tree[i]
  <2>1. queues'[s].tree[id] = NoRequest /\ \A i \in Slots \ {id} : queues'[s].tree[i] = queues[s].tree[i]
    BY <1>2, <1>5 DEF Without
  <2> QED
    BY <1>5, <2>1, WithoutSlots
<1>7. AskedOnce'
  BY <1>3 DEF IInv, Core, AskedOnce
<1>8. WaitingUnanswered'
  <2> SUFFICES ASSUME NEW o \in Servers, NEW i \in Occupied(queues'[o])
               PROVE  /\ [serial |-> queues'[o].tree[i].req, server |-> o, id |-> i] \in asked
                      /\ replies'[queues'[o].tree[i].req] = 0
    BY DEF WaitingUnanswered, AskedAt
  <2>1. /\ i \in Occupied(queues[o]) /\ queues'[o].tree[i] = queues[o].tree[i]
        /\ ~(o = s /\ i = id)
    BY <1>5, <1>6
  <2>2. /\ AskedAt(o, i) \in asked /\ replies[queues[o].tree[i].req] = 0
        /\ queues[o].tree[i].req \in Serials
    BY <2>1, WaitingFacts, QueueTyped
  <2>3. queues[o].tree[i].req # n
    BY <1>2, <2>1, <2>2 DEF AskedAt
  <2> QED
    BY <1>4, <2>1, <2>2, <2>3 DEF AskedAt
<1>9. UnseenUnanswered'
  BY <1>2, <1>3, <1>4 DEF IInv, Core, UnseenUnanswered
<1>10. AtMostOneReply'
  BY <1>4 DEF IInv, Core, AtMostOneReply
<1>11. EveryRequestAccounted'
  <2> SUFFICES ASSUME NEW a \in asked PROVE Accounted(a)'
    BY DEF EveryRequestAccounted
  <2>1. Accounted(a) /\ a.serial \in DOMAIN history /\ (Reused(a) => Reused(a)')
    BY DEF IInv, Core, EveryRequestAccounted, AskedOnce, Reused
  <2>2. CASE a = AskedAt(s, id)
    <3>1. a.serial = n /\ a.server = s /\ a.id = id
      BY <2>2 DEF AskedAt
    <3>2. IsWaiting(a) /\ ~IsWaiting(a)'
      BY <1>6, <3>1, WaitingMeans DEF IsWaiting
    <3> QED
      BY <1>3, <2>1, <3>1, <3>2 DEF Accounted
  <2>3. CASE a # AskedAt(s, id)
    <3>1. a.serial # n /\ history'[a.serial] = history[a.serial]
      BY <1>2, <1>3, <2>1, <2>3
    <3>2. IsWaiting(a)' <=> IsWaiting(a)
      <4>1. CASE a.server = s /\ a.id = id
        BY <1>6, <3>1, <4>1 DEF IsWaiting
      <4>2. CASE ~(a.server = s /\ a.id = id)
        <5>1. queues'[a.server].tree[a.id] = queues[a.server].tree[a.id]
          BY <1>5, <1>6, <4>2, WaitingMeans
        <5> QED
          BY <5>1 DEF IsWaiting
      <4> QED
        BY <4>1, <4>2
    <3> QED
      BY <2>1, <3>1, <3>2 DEF Accounted
  <2> QED
    BY <2>2, <2>3
<1> QED
  BY <1>7, <1>8, <1>9, <1>10, <1>11 DEF Core

(* The sweep closes what it takes out of the queues, and nothing else       *)
(* (server.go:336-349, request.go RemoveExpired).                           *)
LEMMA SweepCore ==
    ASSUME IInv,
           queues' = [s \in Servers |-> RemoveExpired(queues[s], now)],
           history' = [n \in DOMAIN history |->
                         IF n \in OverdueSerials THEN history[n] \cup {"closed", "timeout"}
                         ELSE history[n]],
           UNCHANGED <<replies, asked>>
    PROVE  Core'
<1> DEFINE Due(s) == ExpiredIds(queues[s], now)
<1>1. \A s \in Servers : Due(s) \subseteq Occupied(queues[s])
  BY DEF ExpiredIds
<1>2. \A s \in Servers :
        /\ Occupied(queues'[s]) = Occupied(queues[s]) \ Due(s)
        /\ \A i \in Occupied(queues[s]) \ Due(s) : queues'[s].tree[i] = queues[s].tree[i]
        /\ \A i \in Slots : queues'[s].tree[i] = IF i \in Due(s) THEN NoRequest
                                                ELSE queues[s].tree[i]
  <2> TAKE s \in Servers
  <2>1. queues'[s] = Without(queues[s], Due(s))
    BY DEF RemoveExpired
  <2>2. \A i \in Slots : queues'[s].tree[i] = IF i \in Due(s) THEN NoRequest
                                             ELSE queues[s].tree[i]
    BY <2>1 DEF Without
  <2> QED
    BY <2>1, <2>2, WithoutSlots
<1>3. \A a \in asked : a.serial \in OverdueSerials <=> IsWaiting(a) /\ a.id \in Due(a.server)
  <2> TAKE a \in asked
  <2>1. ASSUME a.serial \in OverdueSerials
        PROVE  IsWaiting(a) /\ a.id \in Due(a.server)
    <3>1. PICK s \in Servers : \E i \in Due(s) : queues[s].tree[i].req = a.serial
      BY <2>1 DEF OverdueSerials
    <3>2. PICK i \in Due(s) : queues[s].tree[i].req = a.serial
      BY <3>1
    <3>3. i \in Occupied(queues[s]) /\ a = AskedAt(s, i)
      BY <1>1, <3>2, WaitingFacts
    <3> QED
      BY <3>2, <3>3, WaitingMeans DEF AskedAt
  <2>2. ASSUME IsWaiting(a), a.id \in Due(a.server)
        PROVE  a.serial \in OverdueSerials
    BY <2>2, WaitingMeans DEF OverdueSerials
  <2> QED
    BY <2>1, <2>2
<1>4. DOMAIN history' = DOMAIN history
  OBVIOUS
<1>5. AskedOnce'
  BY <1>4 DEF IInv, Core, AskedOnce
<1>6. WaitingUnanswered'
  <2> SUFFICES ASSUME NEW o \in Servers, NEW i \in Occupied(queues'[o])
               PROVE  /\ [serial |-> queues'[o].tree[i].req, server |-> o, id |-> i] \in asked
                      /\ replies[queues'[o].tree[i].req] = 0
    BY DEF WaitingUnanswered, AskedAt
  <2>1. i \in Occupied(queues[o]) /\ queues'[o].tree[i] = queues[o].tree[i]
    BY <1>2
  <2>2. AskedAt(o, i) \in asked /\ replies[queues[o].tree[i].req] = 0
    BY <2>1, WaitingFacts
  <2> QED
    BY <2>1, <2>2 DEF AskedAt
<1>7. UnseenUnanswered' /\ AtMostOneReply'
  BY <1>4 DEF IInv, Core, UnseenUnanswered, AtMostOneReply
<1>8. EveryRequestAccounted'
  <2> SUFFICES ASSUME NEW a \in asked PROVE Accounted(a)'
    BY DEF EveryRequestAccounted
  <2>1. /\ Accounted(a) /\ a.serial \in DOMAIN history /\ (Reused(a) => Reused(a)')
        /\ a.server \in Servers /\ a.id \in Slots
    BY WaitingMeans DEF IInv, Core, EveryRequestAccounted, AskedOnce, Reused
  <2>2. CASE a.serial \in OverdueSerials
    <3>1. IsWaiting(a) /\ a.id \in Due(a.server)
      BY <1>3, <2>2
    <3>2. ~IsWaiting(a)'
      BY <1>2, <2>1, <3>1 DEF IsWaiting
    <3>3. history'[a.serial] = history[a.serial] \cup {"closed", "timeout"}
      BY <2>1, <2>2
    <3> QED
      BY <2>1, <3>1, <3>2, <3>3 DEF Accounted
  <2>3. CASE a.serial \notin OverdueSerials
    <3>1. history'[a.serial] = history[a.serial]
      BY <2>1, <2>3
    <3>2. IsWaiting(a)' <=> IsWaiting(a)
      <4>1. CASE a.id \in Due(a.server)
        BY <1>2, <1>3, <2>1, <2>3, <4>1 DEF IsWaiting
      <4>2. CASE a.id \notin Due(a.server)
        BY <1>2, <2>1, <4>2 DEF IsWaiting
      <4> QED
        BY <4>1, <4>2
    <3> QED
      BY <2>1, <3>1, <3>2 DEF Accounted
  <2> QED
    BY <2>2, <2>3
<1> QED
  BY <1>5, <1>6, <1>7, <1>8 DEF Core

-----------------------------------------------------------------------------
(* The steps.                                                              *)

(* An entry of the history is well formed when its flags are.               *)
LEMMA EnterTyped ==
    ASSUME IInv, NEW n \in 1 .. Len(query), NEW flags \in SUBSET Flags,
           Enter(n, flags), query' = query
    PROVE  /\ DOMAIN history' \subseteq 1 .. Len(query')
           /\ history' \in [DOMAIN history' -> SUBSET Flags]
<1>1. DOMAIN history \subseteq 1 .. Len(query) /\ history \in [DOMAIN history -> SUBSET Flags]
  BY DEF IInv, LoopTypeOK
<1> QED
  BY <1>1 DEF Enter

(* Receiving a message that is not a query with a serial.                   *)
LEMMA ReceiveOther ==
    ASSUME IInv, NEW m \in Messages, \A n \in Serials : m # Request(n),
           Receive(m), query' = query
    PROVE  IInv'
<1>1. /\ channel \in Seq(Messages) /\ channel' = Append(channel, m)
      /\ Len(channel) < ChannelCap /\ ChannelCap \in Nat /\ Len(channel) \in Nat
  BY ServerAssumption DEF IInv, LoopTypeOK, Receive
<1>2. /\ channel' \in Seq(Messages) /\ Len(channel') = Len(channel) + 1
      /\ channel'[Len(channel) + 1] = m
      /\ \A i \in 1 .. Len(channel) : channel'[i] = channel[i]
  BY <1>1, AppendProperties
<1>3. LoopTypeOK'
  BY <1>1, <1>2 DEF IInv, LoopTypeOK, Receive, historyVars, clientVars, upstreamVars, cacheVars
<1>4. InOrder'
  <2>1. \A i \in 1 .. Len(channel'), n \in Serials :
           channel'[i] = Request(n) => i \in 1 .. Len(channel) /\ channel[i] = Request(n)
    BY <1>1, <1>2
  <2> QED
    BY <2>1 DEF historyVars, IInv, InOrder, Receive
<1>5. Core'
  BY CoreStutter DEF Receive, historyVars, clientVars, upstreamVars
<1> QED
  BY <1>3, <1>4, <1>5 DEF IInv

(* Receiving a query: its serial is larger than any before.                 *)
LEMMA ReceiveQueryStep ==
    ASSUME IInv, ReceiveQuery
    PROVE  IInv'
<1> DEFINE n0 == Len(query) + 1
<1>1. PICK c \in Clients, q \in Questions :
          query' = Append(query, [client |-> c, question |-> q])
  BY DEF ReceiveQuery
<1>2. /\ channel \in Seq(Messages) /\ channel' = Append(channel, Request(n0))
      /\ Len(channel) < ChannelCap /\ ChannelCap \in Nat /\ Len(channel) \in Nat
      /\ query \in Seq([client : Clients, question : Questions]) /\ Len(query) \in Nat
      /\ Len(query) < MaxQueries /\ MaxQueries \in Nat
  BY ServerAssumption DEF IInv, LoopTypeOK, ReceiveQuery, Receive
<1>3. n0 \in Serials /\ Request(n0) \in Messages
  BY <1>2 DEF Serials, Messages
<1>4. /\ channel' \in Seq(Messages) /\ Len(channel') = Len(channel) + 1
      /\ channel'[Len(channel) + 1] = Request(n0)
      /\ \A i \in 1 .. Len(channel) : channel'[i] = channel[i]
  BY <1>2, <1>3, AppendProperties
<1>5. query' \in Seq([client : Clients, question : Questions]) /\ Len(query') = n0
  BY <1>1, <1>2, AppendProperties
<1>6. LoopTypeOK'
  BY <1>2, <1>4, <1>5
     DEF IInv, LoopTypeOK, ReceiveQuery, Receive, historyVars, clientVars, upstreamVars, cacheVars
<1>7. InOrder'
  <2>1. \A k \in DOMAIN history' : k < n0
    BY <1>2 DEF IInv, LoopTypeOK, ReceiveQuery, Receive, historyVars
  <2>2. \A n \in Serials : Request(n0) = Request(n) => n = n0
    BY DEF Request
  <2>3. \A i \in 1 .. Len(channel'), n \in Serials : channel'[i] = Request(n) =>
           \/ i = Len(channel) + 1 /\ n = n0
           \/ i \in 1 .. Len(channel) /\ channel[i] = Request(n) /\ n < n0
    <3> TAKE i \in 1 .. Len(channel'), n \in Serials
    <3> HAVE channel'[i] = Request(n)
    <3>1. CASE i = Len(channel) + 1
      BY <1>4, <2>2, <3>1
    <3>2. CASE i \in 1 .. Len(channel)
      <4>1. channel[i] = Request(n)
        BY <1>4, <3>2
      <4>2. n \in 1 .. Len(query)
        BY <3>2, <4>1 DEF IInv, InOrder
      <4> QED
        BY <1>2, <3>2, <4>1, <4>2
    <3> QED
      BY <1>2, <1>4, <3>1, <3>2
  <2>4. ASSUME NEW i \in 1 .. Len(channel'), NEW n \in Serials, channel'[i] = Request(n)
        PROVE  n \in 1 .. Len(query') /\ \A k \in DOMAIN history' : k < n
    <3>1. CASE i = Len(channel) + 1 /\ n = n0
      BY <1>2, <1>5, <2>1, <3>1
    <3>2. CASE i \in 1 .. Len(channel) /\ channel[i] = Request(n) /\ n < n0
      BY <1>2, <1>5, <3>2 DEF IInv, InOrder, ReceiveQuery, Receive, historyVars
    <3> QED
      BY <2>3, <2>4, <3>1, <3>2
  <2>5. ASSUME NEW i \in 1 .. Len(channel'), NEW j \in 1 .. Len(channel'),
               NEW k \in Serials, NEW n \in Serials,
               channel'[i] = Request(k), channel'[j] = Request(n), i < j
        PROVE  k < n
    <3>1. i \in 1 .. Len(channel) /\ channel[i] = Request(k) /\ k < n0
      <4>1. Len(channel) \in Nat /\ Len(channel') = Len(channel) + 1
        BY <1>2, <1>4
      <4>2. i # Len(channel) + 1
        BY <2>5, <4>1
      <4>3. \/ i = Len(channel) + 1 /\ k = n0
            \/ i \in 1 .. Len(channel) /\ channel[i] = Request(k) /\ k < n0
        BY <2>3, <2>5, Zenon
      <4> QED
        BY <4>2, <4>3
    <3>2. CASE j = Len(channel) + 1 /\ n = n0
      BY <3>1, <3>2
    <3>3. CASE j \in 1 .. Len(channel) /\ channel[j] = Request(n)
      BY <2>5, <3>1, <3>3 DEF IInv, InOrder
    <3> QED
      BY <2>3, <2>5, <3>2, <3>3
  <2> QED
    BY <2>4, <2>5 DEF InOrder
<1>8. Core'
  BY CoreStutter DEF ReceiveQuery, Receive, historyVars, clientVars, upstreamVars
<1> QED
  BY <1>6, <1>7, <1>8 DEF IInv

(* Forwarding keeps the types (server.go, forwardUdp).                      *)
LEMMA ForwardTyped ==
    ASSUME IInv, NEW n \in Serials, NEW s \in Servers,
           queues' = [queues EXCEPT ![s] = Add(@, n, now)],
           stats' = [stats EXCEPT ![s] = IncQueryCount(@)]
    PROVE  queues' \in [Servers -> Queue(Serials)] /\ stats' \in [Servers -> Stats]
<1>1. /\ queues \in [Servers -> Queue(Serials)] /\ stats \in [Servers -> Stats]
      /\ now \in Nat
  BY DEF IInv, LoopTypeOK
<1>2. Add(queues[s], n, now) \in Queue(Serials) /\ IncQueryCount(stats[s]) \in Stats
  BY <1>1, AddTyped, IncQueryTyped
<1> QED
  BY <1>1, <1>2

(* A request taken from the channel, through each exit of processRequest.   *)
LEMMA ProcessRequestStep ==
    ASSUME IInv, NEW n \in Serials, ProcessRequest(n)
    PROVE  IInv'
<1> DEFINE q == query[n].question
<1>1. Take(Request(n)) /\ now' = now /\ query' = query
  BY DEF ProcessRequest
<1>2. /\ n \in 1 .. Len(query) /\ \A k \in DOMAIN history : k < n
      /\ n \notin DOMAIN history
  BY <1>1, HeadUnseen
<1>3. channel' \in Seq(Messages) /\ Len(channel') <= ChannelCap
  BY <1>1, TakeTyped
<1>4. q \in Questions
  <2>1. query \in Seq([client : Clients, question : Questions])
    BY DEF IInv, LoopTypeOK
  <2>2. query[n] \in [client : Clients, question : Questions]
    BY <1>2, <2>1, ElementOfSeq
  <2> QED
    BY <2>2
<1>5. ASSUME NEW flags, Enter(n, flags) PROVE InOrder'
  <2>1. DOMAIN history' = DOMAIN history \cup {n}
    BY <1>2, <1>5, EnterAdds
  <2> QED
    BY <1>1, <2>1, TakeInOrder
<1>6. ASSUME NEW records, NEW flags \in SUBSET Flags, AnswerLocally(n, records, flags)
      PROVE  IInv'
  <2>1. /\ Enter(n, {"closed"} \cup flags)
        /\ replies' = [replies EXCEPT ![n] = @ + 1]
        /\ UNCHANGED <<upstreamVars, cacheVars, panicked>>
    BY <1>6 DEF AnswerLocally, SendResponse
  <2>2. {"closed"} \cup flags \in SUBSET Flags
    BY DEF Flags
  <2>3. Core'
    BY <1>2, <2>1, AnswerCore DEF upstreamVars
  <2>4. replies' \in [Serials -> Nat]
    BY <2>1 DEF IInv, LoopTypeOK
  <2>5. LoopTypeOK'
    BY <1>1, <1>2, <1>3, <2>1, <2>2, <2>4, EnterTyped
       DEF IInv, LoopTypeOK, upstreamVars, cacheVars
  <2> QED
    BY <1>5, <2>1, <2>3, <2>5 DEF IInv
<1>7. ASSUME NEW rule, Forward(n, q, rule) PROVE IInv'
  <2>1. PICK s \in SelectBest(stats) \ {NoServer}, ok \in BOOLEAN :
           /\ stats' = [stats EXCEPT ![s] = IncQueryCount(@)]
           /\ queues' = [queues EXCEPT ![s] = Add(@, n, now)]
           /\ asked' = asked \cup {[serial |-> n, server |-> s, id |-> AllocateId(queues[s])]}
           /\ wire' = IF ok THEN wire \cup {[server |-> s, id |-> AllocateId(queues[s]),
                                             question |-> q]}
                            ELSE wire
           /\ Enter(n, OverriddenFlag(q, rule)
                       \cup IF ok THEN {"forwarded"} ELSE {"closed", "serverError"})
    BY <1>7 DEF Forward
  <2>2. UNCHANGED <<clientVars, serversCleanUp, cacheVars, panicked>>
    BY <1>7 DEF Forward
  <2> DEFINE flags == OverriddenFlag(q, rule)
                      \cup IF ok THEN {"forwarded"} ELSE {"closed", "serverError"}
  <2>3. s \in Servers
    BY DEF IInv, LoopTypeOK, SelectBest, Best
  <2>4. flags \in SUBSET Flags /\ flags \cap {"recursion", "timeout"} = {}
    BY DEF OverriddenFlag, Flags
  <2>5. AllocateId(queues[s]) \in Slots
    BY <2>3, QueueTyped, AddFillsOne, AllocateRange, IdAssumption DEF Queue, Slots
  <2>6. queues' \in [Servers -> Queue(Serials)] /\ stats' \in [Servers -> Stats]
    BY <2>1, <2>3, ForwardTyped
  <2>7. /\ asked' \subseteq [serial : Serials, server : Servers, id : Slots]
        /\ wire' \subseteq [server : Servers, id : Slots, question : Questions]
    BY <1>4, <2>1, <2>3, <2>5 DEF IInv, LoopTypeOK
  <2>8. Enter(n, flags)
    BY <2>1
  <2>9. /\ DOMAIN history' \subseteq 1 .. Len(query')
        /\ history' \in [DOMAIN history' -> SUBSET Flags]
    BY <1>1, <1>2, <2>4, <2>8, EnterTyped
  <2>10. LoopTypeOK'
    BY <1>1, <1>3, <2>2, <2>6, <2>7, <2>9 DEF IInv, LoopTypeOK, historyVars, clientVars, cacheVars
  <2>11. replies' = replies
    BY <2>2 DEF historyVars, clientVars
  <2>12. Core'
    BY <1>2, <2>1, <2>3, <2>4, <2>8, <2>11, ForwardCore
  <2> QED
    BY <1>5, <2>8, <2>10, <2>12 DEF IInv
<1>8. ASSUME NEW flags \in SUBSET Flags, Enter(n, flags),
             UNCHANGED <<clientVars, upstreamVars, cacheVars>>, panicked' \in BOOLEAN
      PROVE  IInv'
  <2>1. /\ DOMAIN history' = DOMAIN history \cup {n}
        /\ \A k \in DOMAIN history : history'[k] = history[k]
    BY <1>2, <1>8, EnterAdds
  <2>2. LoopTypeOK'
    BY <1>1, <1>2, <1>3, <1>8, EnterTyped
       DEF IInv, LoopTypeOK, historyVars, clientVars, upstreamVars, cacheVars
  <2>3. UNCHANGED <<replies, queues, asked>>
    BY <1>8 DEF historyVars, clientVars, upstreamVars
  <2>4. AskedOnce' /\ WaitingUnanswered' /\ UnseenUnanswered' /\ AtMostOneReply'
    BY <2>1, <2>3 DEF IInv, Core, AskedOnce, WaitingUnanswered, AskedAt, UnseenUnanswered,
                      AtMostOneReply
  <2>5. EveryRequestAccounted'
    BY <2>1, <2>3 DEF IInv, Core, AskedOnce, EveryRequestAccounted, Accounted, IsWaiting, Reused
  <2> QED
    BY <1>5, <1>8, <2>2, <2>4, <2>5 DEF IInv, Core
<1>9. CASE RejectType(n, q)
  <2>1. AnswerLocally(n, {}, {"blockedType"}) /\ {"blockedType"} \in SUBSET Flags
    BY <1>9 DEF RejectType, Flags, Answered
  <2> QED
    BY <1>6, <2>1
<1>10. CASE AnswerFromDatabase(n, q)
  <2>1. AnswerLocally(n, LocalDatabase[q], {"db"}) /\ {"db"} \in SUBSET Flags
    BY <1>10 DEF AnswerFromDatabase, Flags, Answered
  <2> QED
    BY <1>6, <2>1
<1>11. CASE \E rule \in RequestRules(query[n].client) : BlockName(n, q, rule)
  <2>1. AnswerLocally(n, {}, {"blockedName"}) /\ {"blockedName"} \in SUBSET Flags
    BY <1>11 DEF BlockName, Flags, Answered
  <2> QED
    BY <1>6, <2>1
<1>12. CASE \E rule \in RequestRules(query[n].client) : AnswerFromCache(n, q, rule)
  <2>1. PICK rule : AnswerFromCache(n, q, rule)
    BY <1>12
  <2> DEFINE flags == {"cache"} \cup OverriddenFlag(q, rule)
  <2>2. flags \in SUBSET Flags
    BY DEF OverriddenFlag, Flags, Answered
  <2>3. \E records : AnswerLocally(n, records, flags)
    BY <2>1 DEF AnswerFromCache
  <2> QED
    BY <1>6, <2>2, <2>3
<1>13. CASE \E rule \in RequestRules(query[n].client) : Forward(n, q, rule)
  BY <1>7, <1>13
<1>14. CASE \E rule \in RequestRules(query[n].client) : NoServerToAsk(n, q, rule)
  <2>1. PICK rule : NoServerToAsk(n, q, rule)
    BY <1>14
  <2> DEFINE flags == {"closed", "serverError"} \cup OverriddenFlag(q, rule)
  <2>2. flags \in SUBSET Flags
    BY DEF OverriddenFlag, Flags
  <2>3. Enter(n, flags) /\ UNCHANGED <<clientVars, upstreamVars, cacheVars>> /\ panicked' = panicked
    BY <2>1 DEF NoServerToAsk
  <2>4. panicked' \in BOOLEAN
    BY <2>3 DEF IInv, LoopTypeOK
  <2> QED
    BY <1>8, <2>2, <2>3, <2>4
<1>15. CASE \E rule \in RequestRules(query[n].client) : CacheLookupPanics(n, q, rule)
  <2>1. PICK rule : CacheLookupPanics(n, q, rule)
    BY <1>15
  <2>2. OverriddenFlag(q, rule) \in SUBSET Flags
    BY DEF OverriddenFlag, Flags
  <2>3. /\ Enter(n, OverriddenFlag(q, rule))
        /\ UNCHANGED <<clientVars, upstreamVars, cacheVars>> /\ panicked' \in BOOLEAN
    BY <2>1 DEF CacheLookupPanics
  <2> QED
    BY <1>8, <2>2, <2>3
<1> QED
  BY <1>9, <1>10, <1>11, <1>12, <1>13, <1>14, <1>15 DEF ProcessRequest

(* What a response taken from the channel is when a request waits for it.   *)
LEMMA ResponseFacts ==
    ASSUME IInv, NEW m \in Messages, m.kind = "response", RequestFor(m) # NoRequest
    PROVE  /\ m.sender \in Servers
           /\ m.id \in Occupied(queues[m.sender])
           /\ RequestFor(m) = queues[m.sender].tree[m.id]
           /\ m.records \in UNION {Contents[q] : q \in Questions}
<1>1. m.sender \in Servers
  BY DEF RequestFor
<1>2. m \in Replies
  <2>1. \A n : Request(n).kind = "request"
    BY DEF Request
  <2> QED
    BY <1>1, <2>1, StrayAssumption DEF Messages
<1>3. PICK q \in Questions :
         \E s \in Servers, id \in Slots, k \in {q, NoQuestion}, records \in Contents[q] :
            m = Response(s, id, k, records)
  BY <1>2 DEF Replies
<1>4. m.id \in Slots /\ m.records \in Contents[q]
  BY <1>3 DEF Response
<1>5. RequestFor(m) = queues[m.sender].tree[m.id]
  BY <1>1, <1>4 DEF RequestFor, Get
<1> QED
  BY <1>1, <1>4, <1>5, QueueTyped

(* The cache stays a function to expiry dates (cache.go, AddAll).           *)
LEMMA CacheTyped ==
    ASSUME cache \in [Resources -> Nat], now \in Nat,
           NEW records \in UNION {Contents[q] : q \in Questions}
    PROVE  Store!AddAll(cache, records, now) \in [Resources -> Nat]
<1>1. \A r \in DOMAIN records : records[r] \in Nat
  BY ContentsAssumption
<1>2. \A r \in Resources : r \in DOMAIN records => now + records[r] \in Nat
  BY <1>1
<1> QED
  BY <1>2 DEF Store!AddAll

(* A response taken from the channel, through each branch of                *)
(* processResponse.                                                         *)
LEMMA ProcessResponseStep ==
    ASSUME IInv, ProcessResponse
    PROVE  IInv'
<1> DEFINE m == Head(channel)
<1>1. /\ m.kind = "response" /\ Take(m) /\ now' = now /\ query' = query
      /\ SettleAndReply(m) \/ IgnoreResponse(m) \/ ResponsePanics(m)
  BY DEF ProcessResponse
<1>2. m \in Messages /\ channel' \in Seq(Messages) /\ Len(channel') <= ChannelCap
  BY <1>1, TakeTyped
<1>3. CASE SettleAndReply(m)
  <2> DEFINE s  == m.sender
             id == m.id
             n  == queues[s].tree[id].req
  <2>1. RequestFor(m) # NoRequest
    BY <1>3 DEF SettleAndReply
  <2>2. /\ s \in Servers /\ id \in Occupied(queues[s])
        /\ RequestFor(m) = queues[s].tree[id]
        /\ m.records \in UNION {Contents[q] : q \in Questions}
    BY <1>1, <1>2, <2>1, ResponseFacts
  <2>3. /\ queues' = [queues EXCEPT ![s] = Remove(@, id)]
        /\ stats' = [stats EXCEPT ![s] =
                        IncReplyCount(@, (now - queues[s].tree[id].startDate) * MsPerTick)]
        /\ cache' = Store!AddAll(cache, m.records, now)
        /\ history' = [history EXCEPT ![n] = @ \cup {"closed", "recursion"}]
        /\ replies' = [replies EXCEPT ![n] = @ + 1]
        /\ UNCHANGED <<serversCleanUp, asked, wire, cacheCleanUp, panicked>>
    BY <1>3, <2>2 DEF SettleAndReply, SendResponse
  <2>4. Core'
    BY <2>2, <2>3, SettleCore
  <2>5. DOMAIN history' = DOMAIN history
    BY <2>3
  <2>6. InOrder'
    BY <1>1, <2>5, TakeInOrder
  <2>7. queues' \in [Servers -> Queue(Serials)]
    <3>1. queues \in [Servers -> Queue(Serials)]
      BY DEF IInv, LoopTypeOK
    <3>2. Remove(queues[s], id) \in Queue(Serials)
      BY <2>2, <3>1, WithoutTyped DEF Remove
    <3> QED
      BY <2>3, <3>1, <3>2
  <2>8. stats' \in [Servers -> Stats]
    <3>1. stats \in [Servers -> Stats] /\ now \in Nat
      BY DEF IInv, LoopTypeOK
    <3>2. (now - queues[s].tree[id].startDate) * MsPerTick \in Int
      BY <2>2, <3>1, QueueTyped, ServerAssumption
    <3>3. IncReplyCount(stats[s], (now - queues[s].tree[id].startDate) * MsPerTick) \in Stats
      BY <2>2, <3>1, <3>2, IncReplyTyped
    <3> QED
      BY <2>3, <3>1, <3>3
  <2>9. cache' \in [Resources -> Nat]
    BY <2>2, <2>3, CacheTyped DEF IInv, LoopTypeOK
  <2>10. history' \in [DOMAIN history' -> SUBSET Flags]
    <3>1. history \in [DOMAIN history -> SUBSET Flags]
      BY DEF IInv, LoopTypeOK
    <3>2. {"closed", "recursion"} \subseteq Flags
      BY DEF Flags, Answered
    <3> QED
      BY <2>3, <3>1, <3>2
  <2>11. replies' \in [Serials -> Nat]
    <3>1. replies \in [Serials -> Nat] /\ n \in Serials
      BY <2>2, QueueTyped DEF IInv, LoopTypeOK
    <3>2. replies[n] + 1 \in Nat
      BY <3>1
    <3> QED
      BY <2>3, <3>1, <3>2
  <2>12. LoopTypeOK'
    <3>1. LoopTypeOK
      BY DEF IInv
    <3>2. DOMAIN history' \subseteq 1 .. Len(query')
      BY <1>1, <2>5, <3>1 DEF LoopTypeOK
    <3>3. /\ serversCleanUp' \in Nat /\ cacheCleanUp' \in Nat /\ panicked' \in BOOLEAN
          /\ asked' \subseteq [serial : Serials, server : Servers, id : Slots]
          /\ wire' \subseteq [server : Servers, id : Slots, question : Questions]
      BY <2>3, <3>1 DEF LoopTypeOK
    <3>4. now' \in Nat /\ query' \in Seq([client : Clients, question : Questions])
      BY <1>1, <3>1 DEF LoopTypeOK
    <3> QED
      BY <1>2, <2>7, <2>8, <2>9, <2>10, <2>11, <3>2, <3>3, <3>4 DEF LoopTypeOK
  <2> QED
    BY <2>4, <2>6, <2>12 DEF IInv
<1>4. CASE IgnoreResponse(m) \/ ResponsePanics(m)
  <2>1. UNCHANGED <<historyVars, clientVars, upstreamVars, cacheVars>>
        /\ (panicked' = panicked \/ panicked' = TRUE)
    BY <1>4 DEF IgnoreResponse, ResponsePanics
  <2>2. Core'
    BY <2>1, CoreStutter DEF historyVars, clientVars, upstreamVars
  <2>3. InOrder'
    BY <1>1, <2>1, TakeInOrder DEF historyVars
  <2>4. LoopTypeOK'
    BY <1>1, <1>2, <2>1 DEF IInv, LoopTypeOK, historyVars, clientVars, upstreamVars, cacheVars
  <2> QED
    BY <2>2, <2>3, <2>4 DEF IInv
<1> QED
  BY <1>1, <1>3, <1>4

(* A request without a question.                                           *)
LEMMA DropStep ==
    ASSUME IInv, DropEmptyRequest
    PROVE  IInv'
<1>1. /\ Take(Request(0))
      /\ UNCHANGED <<now, query, historyVars, clientVars, upstreamVars, cacheVars, panicked>>
  BY DEF DropEmptyRequest
<1>2. channel' \in Seq(Messages) /\ Len(channel') <= ChannelCap
  BY <1>1, TakeTyped
<1>3. InOrder'
  BY <1>1, TakeInOrder DEF historyVars
<1>4. Core'
  BY <1>1, CoreStutter DEF historyVars, clientVars, upstreamVars
<1>5. LoopTypeOK'
  BY <1>1, <1>2 DEF IInv, LoopTypeOK, historyVars, clientVars, upstreamVars, cacheVars
<1> QED
  BY <1>3, <1>4, <1>5 DEF IInv

(* The iteration that finds the channel empty.                              *)
LEMMA IdleStep ==
    ASSUME IInv, Idle
    PROVE  IInv'
<1>1. /\ CleanUpCache /\ CleanUpServers
      /\ UNCHANGED <<now, channel, query, clientVars, stats, asked, wire, panicked>>
  BY DEF Idle
<1>2. /\ cache \in [Resources -> Nat] /\ now \in Nat /\ cacheCleanUp \in Nat
      /\ queues \in [Servers -> Queue(Serials)] /\ serversCleanUp \in Nat
      /\ history \in [DOMAIN history -> SUBSET Flags]
  BY DEF IInv, LoopTypeOK
<1>3. cache' \in [Resources -> Nat] /\ cacheCleanUp' \in Nat
  <2>1. Store!RemoveExpired(cache, now) \in [Resources -> Nat]
    BY <1>2 DEF Store!RemoveExpired, Store!Absent
  <2>2. now + CacheInterval \in Nat
    BY <1>2, ServerAssumption
  <2> QED
    BY <1>1, <1>2, <2>1, <2>2 DEF CleanUpCache, cacheVars
<1>4. /\ queues' \in [Servers -> Queue(Serials)] /\ serversCleanUp' \in Nat
      /\ DOMAIN history' = DOMAIN history /\ history' \in [DOMAIN history' -> SUBSET Flags]
      /\ Core'
  <2>1. CASE serversCleanUp <= now
    <3>1. /\ queues' = [s \in Servers |-> RemoveExpired(queues[s], now)]
          /\ history' = [n \in DOMAIN history |->
                           IF n \in OverdueSerials THEN history[n] \cup {"closed", "timeout"}
                           ELSE history[n]]
          /\ serversCleanUp' = IF Servers = {} THEN serversCleanUp ELSE now + ServersInterval
      BY <1>1, <2>1 DEF CleanUpServers
    <3>2. \A s \in Servers : RemoveExpired(queues[s], now) \in Queue(Serials)
      BY <1>2, WithoutTyped DEF RemoveExpired
    <3>3. queues' \in [Servers -> Queue(Serials)]
      BY <3>1, <3>2
    <3>4. {"closed", "timeout"} \subseteq Flags
      BY DEF Flags
    <3>5. DOMAIN history' = DOMAIN history /\ history' \in [DOMAIN history' -> SUBSET Flags]
      BY <1>2, <3>1, <3>4
    <3>6. serversCleanUp' \in Nat
      BY <1>2, <3>1, ServerAssumption
    <3>7. Core'
      BY <1>1, <3>1, SweepCore DEF historyVars, clientVars
    <3> QED
      BY <3>3, <3>5, <3>6, <3>7
  <2>2. CASE ~(serversCleanUp <= now)
    <3>1. UNCHANGED <<queues, history, serversCleanUp>>
      BY <1>1, <2>2 DEF CleanUpServers
    <3>2. Core'
      BY <1>1, <3>1, CoreStutter DEF historyVars, clientVars
    <3> QED
      BY <1>2, <3>1, <3>2
  <2> QED
    BY <2>1, <2>2
<1>5. LoopTypeOK'
  BY <1>1, <1>3, <1>4 DEF IInv, LoopTypeOK, historyVars, clientVars
<1>6. InOrder'
  BY <1>1, <1>4 DEF IInv, InOrder
<1> QED
  BY <1>4, <1>5, <1>6 DEF IInv

-----------------------------------------------------------------------------
(* Every step keeps the invariant.                                         *)
LEMMA StepIInv == IInv /\ [Next]_vars => IInv'
<1> SUFFICES ASSUME IInv, [Next]_vars PROVE IInv'
  OBVIOUS
<1>1. CASE ReceiveQuery
  BY <1>1, ReceiveQueryStep
<1>2. CASE ReceiveReply
  <2>1. PICK p \in wire : \E records \in Contents[p.question] :
           \E q \in {p.question} \cup (IF HeaderOnly THEN {NoQuestion} ELSE {}) :
              Receive(Response(p.server, p.id, q, records))
    BY <1>2 DEF ReceiveReply
  <2>2. PICK records \in Contents[p.question], q \in {p.question, NoQuestion} :
           Receive(Response(p.server, p.id, q, records))
    BY <2>1
  <2>3. p.server \in Servers /\ p.id \in Slots /\ p.question \in Questions
    BY DEF IInv, LoopTypeOK
  <2>4. Response(p.server, p.id, q, records) \in Messages
    BY <2>2, <2>3 DEF Messages, Replies
  <2>5. \A n \in Serials : Response(p.server, p.id, q, records) # Request(n)
    <3>1. Response(p.server, p.id, q, records).kind = "response"
      BY DEF Response
    <3>2. \A n \in Serials : Request(n).kind = "request"
      BY DEF Request
    <3> QED
      BY <3>1, <3>2
  <2>6. query' = query
    BY <1>2 DEF ReceiveReply
  <2> QED
    BY <2>2, <2>4, <2>5, <2>6, ReceiveOther
<1>3. CASE ReceiveStray
  <2>1. PICK m \in Strays : Receive(m)
    BY <1>3 DEF ReceiveStray
  <2>2. query' = query /\ m \in Messages
    BY <1>3 DEF ReceiveStray, Messages
  <2>3. \A n \in Serials : m # Request(n)
    <3>1. \A n : Request(n).kind = "request" /\ Request(n).serial = n
      BY DEF Request
    <3>2. 0 \notin Serials
      BY DEF Serials
    <3> QED
      BY <3>1, <3>2, StrayAssumption
  <2> QED
    BY <2>1, <2>2, <2>3, ReceiveOther
<1>4. CASE \E n \in Serials : ProcessRequest(n)
  BY <1>4, ProcessRequestStep
<1>5. CASE DropEmptyRequest
  BY <1>5, DropStep
<1>6. CASE ProcessResponse
  BY <1>6, ProcessResponseStep
<1>7. CASE Idle
  BY <1>7, IdleStep
<1>8. CASE Tick
  <2>1. LoopTypeOK' /\ InOrder'
    BY <1>8 DEF Tick, IInv, LoopTypeOK, InOrder, historyVars, clientVars, upstreamVars, cacheVars
  <2>2. Core'
    BY <1>8, CoreStutter DEF Tick, historyVars, clientVars, upstreamVars
  <2> QED
    BY <2>1, <2>2 DEF IInv
<1>9. CASE UNCHANGED vars
  <2>1. LoopTypeOK' /\ InOrder'
    BY <1>9 DEF vars, IInv, LoopTypeOK, InOrder
  <2>2. Core'
    BY <1>9, CoreStutter DEF vars
  <2> QED
    BY <2>1, <2>2 DEF IInv
<1> QED
  BY <1>1, <1>2, <1>3, <1>4, <1>5, <1>6, <1>7, <1>8, <1>9 DEF Next, Loop

(* The invariant holds in every state of every behaviour.                   *)
THEOREM Invariant == Spec => []IInv
<1>1. Init => IInv
  BY InitIInv
<1>2. IInv /\ [Next]_vars => IInv'
  BY StepIInv
<1> QED
  BY <1>1, <1>2, PTL DEF Spec

(* What the loop decides by keeps its type: queues, figures, cache, channel *)
(* and history (server.go, loop).                                           *)
THEOREM LoopTypeCorrect == Spec => []LoopTypeOK
<1>1. IInv => LoopTypeOK
  BY DEF IInv
<1> QED
  BY <1>1, Invariant, PTL

(* A client gets at most one answer to a query, for every number of ids,    *)
(* servers and queries, and every answer of every server, late, repeated or *)
(* out of order (server.go, processResponse).                               *)
THEOREM AtMostOneAnswer == Spec => []AtMostOneReply
<1>1. IInv => AtMostOneReply
  BY DEF IInv, Core
<1> QED
  BY <1>1, Invariant, PTL

(* No request handed to a server is forgotten or closed twice, unless its   *)
(* id was given to a later one (server.go, processResponse and loop).       *)
THEOREM NoRequestForgotten == Spec => []EveryRequestAccounted
<1>1. IInv => EveryRequestAccounted
  BY DEF IInv, Core
<1> QED
  BY <1>1, Invariant, PTL

-----------------------------------------------------------------------------
(***************************************************************************)
(* What the history says and keeps, what the clients were sent and how the   *)
(* servers are judged, for every number of servers, clients, queries and     *)
(* ids, every size of the history and every configuration.                  *)
(***************************************************************************)

(* Whoever waits for an answer was let through by a rule of its request.    *)
Judged ==
    \A a \in asked : \E rule \in RequestRules(query[a.serial].client) :
        ~Blocked(query[a.serial].question.name, rule)

LEMMA StepJudged == IInv /\ Judged /\ [Next]_vars => Judged'
<1> SUFFICES ASSUME IInv, Judged, [Next]_vars PROVE Judged'
  OBVIOUS
<1>1. CASE ReceiveQuery
  <2>1. PICK c \in Clients, q \in Questions :
            query' = Append(query, [client |-> c, question |-> q])
    BY <1>1 DEF ReceiveQuery
  <2>2. /\ query \in Seq([client : Clients, question : Questions])
        /\ \A a \in asked : a.serial \in 1 .. Len(query)
    BY DEF IInv, LoopTypeOK, Core, AskedOnce
  <2>3. \A n \in 1 .. Len(query) : query'[n] = query[n]
    BY <2>1, <2>2, AppendProperties
  <2>4. asked' = asked
    BY <1>1 DEF ReceiveQuery, Receive, upstreamVars
  <2> QED
    BY <2>2, <2>3, <2>4 DEF Judged
<1>2. CASE UNCHANGED <<asked, query>>
  BY <1>2 DEF Judged
<1>3. ASSUME NEW n \in Serials, ProcessRequest(n) PROVE Judged'
  <2> DEFINE q == query[n].question
  <2>1. query' = query
    BY <1>3 DEF ProcessRequest
  <2>2. CASE \E rule \in RequestRules(query[n].client) : Forward(n, q, rule)
    <3>1. PICK rule \in RequestRules(query[n].client) : Forward(n, q, rule)
      BY <2>2
    <3>2. ~Blocked(q.name, rule) /\ \A a \in asked' : a \in asked \/ a.serial = n
      BY <3>1 DEF Forward, MustForward
    <3> QED
      BY <2>1, <3>2 DEF Judged
  <2>3. CASE ~\E rule \in RequestRules(query[n].client) : Forward(n, q, rule)
    <3>1. asked' = asked
      BY <1>3, <2>3 DEF ProcessRequest, RejectType, AnswerFromDatabase, BlockName,
            AnswerFromCache, NoServerToAsk, CacheLookupPanics, AnswerLocally, upstreamVars
    <3> QED
      BY <2>1, <3>1, <1>2
  <2> QED
    BY <2>2, <2>3
<1>4. ReceiveReply \/ ReceiveStray \/ DropEmptyRequest \/ ProcessResponse \/ Idle \/ Tick
        \/ UNCHANGED vars => UNCHANGED <<asked, query>>
  BY DEF ReceiveReply, ReceiveStray, Receive, DropEmptyRequest, ProcessResponse, SettleAndReply,
         IgnoreResponse, ResponsePanics, Idle, Tick, upstreamVars, vars
<1> QED
  BY <1>1, <1>2, <1>3, <1>4 DEF Next, Loop

Causes == Answered \cup {"serverError", "timeout"}

(* An entry says whether its query was answered and why, and is closed when *)
(* there is a reason for it.                                                *)
EntryTrue(n) ==
    /\ replies[n] = 0 => history[n] \cap Answered = {}
    /\ replies[n] = 1 => \E cause \in Answered : history[n] \cap Answered = {cause}
    /\ "closed" \in history[n] <=> history[n] \cap Causes # {}

(* What the client was sent.                                                *)
DeliveryRight(n) ==
    /\ "recursion" \in history[n] =>
          \E records \in Contents[query[n].question] : delivered[n] \subseteq DOMAIN records
    /\ LET q == query[n].question
       IN  "recursion" \in history[n] /\ AgreedOn(q.name, query[n].client) =>
              \E records \in Contents[q] : OwnRecords(q.name, records) \subseteq delivered[n]

DomainsOK ==
    /\ DOMAIN history \subseteq Serials
    /\ delivered = [n \in Serials |-> delivered[n]]
    /\ \A n \in Serials \ DOMAIN history : delivered[n] = {}

HInv ==
    /\ DomainsOK
    /\ \A n \in DOMAIN history : EntryTrue(n) /\ DeliveryRight(n)

(* The domain of the history, and an entry that a step leaves alone.        *)
LEMMA EntryFrame ==
    ASSUME IInv, HInv, NEW n \in DOMAIN history,
           history'[n] = history[n], replies'[n] = replies[n],
           delivered'[n] = delivered[n], query'[n] = query[n]
    PROVE  (EntryTrue(n) /\ DeliveryRight(n))'
BY DEF HInv, EntryTrue, DeliveryRight

LEMMA HStutter ==
    ASSUME IInv, HInv, UNCHANGED <<history, replies, delivered>>,
           \A n \in DOMAIN history : query'[n] = query[n]
    PROVE  HInv'
<1>1. DOMAIN history \subseteq Serials
  BY DEF HInv, DomainsOK
<1>2. ASSUME NEW n \in DOMAIN history PROVE (EntryTrue(n) /\ DeliveryRight(n))'
  BY EntryFrame
<1> QED
  BY <1>1, <1>2 DEF HInv, DomainsOK

(* A new entry of a query that is not answered.                             *)
LEMMA EnterUnanswered ==
    ASSUME IInv, HInv, NEW n \in Serials, n \notin DOMAIN history, NEW flags, Enter(n, flags),
           UNCHANGED <<replies, delivered, query>>,
           flags \cap Answered = {}, "closed" \in flags <=> flags \cap Causes # {}
    PROVE  HInv'
<1>1. /\ DOMAIN history' = DOMAIN history \cup {n} /\ history'[n] = flags
      /\ \A k \in DOMAIN history : history'[k] = history[k]
  BY EnterAdds
<1>2. DOMAIN history \subseteq Serials
  BY DEF HInv, DomainsOK
<1>3. replies[n] = 0 /\ delivered[n] = {}
  BY DEF IInv, Core, UnseenUnanswered, HInv, DomainsOK
<1>4. (EntryTrue(n) /\ DeliveryRight(n))'
  BY <1>1, <1>3 DEF EntryTrue, DeliveryRight, Answered
<1>5. \A k \in DOMAIN history : (EntryTrue(k) /\ DeliveryRight(k))'
  BY <1>1, EntryFrame
<1> QED
  BY <1>1, <1>2, <1>4, <1>5 DEF HInv, DomainsOK

(* A request answered without an upstream server (server.go:195-251).       *)
LEMMA AnswerHistory ==
    ASSUME IInv, HInv, NEW n \in Serials, n \notin DOMAIN history, NEW records, NEW flags,
           NEW cause \in Answered \ {"recursion"}, flags \cap Answered = {cause},
           AnswerLocally(n, records, flags), query' = query
    PROVE  HInv'
<1>1. /\ Enter(n, {"closed"} \cup flags)
      /\ replies' = [replies EXCEPT ![n] = @ + 1]
  BY DEF AnswerLocally, SendResponse
<1>2. PICK rule \in RulesOf[query[n].client] :
         delivered' = [delivered EXCEPT ![n] = Filtered(records, rule)]
  BY DEF AnswerLocally, SendResponse
<1>3. /\ DOMAIN history' = DOMAIN history \cup {n} /\ history'[n] = {"closed"} \cup flags
      /\ \A k \in DOMAIN history : history'[k] = history[k]
  BY <1>1, EnterAdds
<1>4. /\ replies \in [Serials -> Nat] /\ replies[n] = 0 /\ DOMAIN history \subseteq Serials
      /\ DOMAIN delivered = Serials
  BY DEF IInv, LoopTypeOK, Core, UnseenUnanswered, HInv, DomainsOK
<1>5. /\ replies'[n] = 1 /\ \A k \in Serials \ {n} : replies'[k] = replies[k]
      /\ delivered'[n] = Filtered(records, rule)
      /\ \A k \in Serials \ {n} : delivered'[k] = delivered[k]
      /\ DOMAIN delivered' = Serials /\ delivered' = [k \in Serials |-> delivered'[k]]
  BY <1>1, <1>2, <1>4 DEF HInv, DomainsOK
<1>6. EntryTrue(n)'
  <2>1. history'[n] \cap Answered = {cause}
    BY <1>3 DEF Answered
  <2>2. "closed" \in history'[n] /\ history'[n] \cap Causes # {}
    BY <1>3, <2>1 DEF Causes
  <2> QED
    BY <1>5, <2>1, <2>2 DEF EntryTrue
<1>7. DeliveryRight(n)'
  <2>1. "recursion" \notin history'[n]
    BY <1>3 DEF Answered
  <2> QED
    BY <2>1 DEF DeliveryRight
<1>8. \A k \in DOMAIN history : (EntryTrue(k) /\ DeliveryRight(k))'
  BY <1>3, <1>4, <1>5, EntryFrame
<1> QED
  BY <1>3, <1>4, <1>5, <1>6, <1>7, <1>8 DEF HInv, DomainsOK

LEMMA ProcessRequestHistory ==
    ASSUME IInv, HInv, NEW n \in Serials, ProcessRequest(n)
    PROVE  HInv'
<1> DEFINE q == query[n].question
<1>1. Take(Request(n)) /\ query' = query
  BY DEF ProcessRequest
<1>2. n \notin DOMAIN history
  BY <1>1, HeadUnseen
<1>3. CASE RejectType(n, q)
  BY <1>1, <1>2, <1>3, AnswerHistory DEF RejectType, Answered
<1>4. CASE AnswerFromDatabase(n, q)
  BY <1>1, <1>2, <1>4, AnswerHistory DEF AnswerFromDatabase, Answered
<1>5. ASSUME NEW rule, BlockName(n, q, rule) PROVE HInv'
  BY <1>1, <1>2, <1>5, AnswerHistory DEF BlockName, Answered
<1>6. ASSUME NEW rule, AnswerFromCache(n, q, rule) PROVE HInv'
  <2> DEFINE flags == {"cache"} \cup OverriddenFlag(q, rule)
  <2>1. flags \cap Answered = {"cache"} /\ "cache" \in Answered \ {"recursion"}
    BY DEF OverriddenFlag, Answered
  <2>2. AnswerLocally(n, Store!Get(cache, q, now), flags)
    BY <1>6 DEF AnswerFromCache
  <2> HIDE DEF flags
  <2> QED
    BY <1>1, <1>2, <2>1, <2>2, AnswerHistory
<1>7. ASSUME NEW rule, Forward(n, q, rule) PROVE HInv'
  <2>1. PICK ok \in BOOLEAN :
           Enter(n, OverriddenFlag(q, rule)
                      \cup IF ok THEN {"forwarded"} ELSE {"closed", "serverError"})
    BY <1>7 DEF Forward
  <2> DEFINE flags == OverriddenFlag(q, rule)
                        \cup IF ok THEN {"forwarded"} ELSE {"closed", "serverError"}
  <2>2. flags \cap Answered = {} /\ ("closed" \in flags <=> flags \cap Causes # {})
    BY DEF OverriddenFlag, Answered, Causes
  <2>3. UNCHANGED <<replies, delivered>>
    BY <1>7 DEF Forward, clientVars
  <2>4. Enter(n, flags)
    BY <2>1
  <2> HIDE DEF flags
  <2> QED
    BY <1>1, <1>2, <2>2, <2>3, <2>4, EnterUnanswered
<1>8. ASSUME NEW rule, NoServerToAsk(n, q, rule) PROVE HInv'
  <2> DEFINE flags == {"closed", "serverError"} \cup OverriddenFlag(q, rule)
  <2>1. flags \cap Answered = {} /\ ("closed" \in flags <=> flags \cap Causes # {})
    BY DEF OverriddenFlag, Answered, Causes
  <2>2. Enter(n, flags) /\ UNCHANGED <<replies, delivered>>
    BY <1>8 DEF NoServerToAsk, clientVars
  <2> HIDE DEF flags
  <2> QED
    BY <1>1, <1>2, <2>1, <2>2, EnterUnanswered
<1>9. ASSUME NEW rule, CacheLookupPanics(n, q, rule) PROVE HInv'
  <2> DEFINE flags == OverriddenFlag(q, rule)
  <2>1. flags \cap Answered = {} /\ ("closed" \in flags <=> flags \cap Causes # {})
    BY DEF OverriddenFlag, Answered, Causes
  <2>2. Enter(n, flags) /\ UNCHANGED <<replies, delivered>>
    BY <1>9 DEF CacheLookupPanics, clientVars
  <2> HIDE DEF flags
  <2> QED
    BY <1>1, <1>2, <2>1, <2>2, EnterUnanswered
<1> QED
  BY <1>3, <1>4, <1>5, <1>6, <1>7, <1>8, <1>9 DEF ProcessRequest

(* An answer that settles a request is one to its question (server.go:81).  *)
LEMMA SettledAnswer ==
    ASSUME IInv, HInv, NEW m \in Messages, m.kind = "response", SettleAndReply(m),
           NEW n, n = queues[m.sender].tree[m.id].req
    PROVE  /\ m.sender \in Servers /\ m.id \in Occupied(queues[m.sender])
           /\ RequestFor(m) = queues[m.sender].tree[m.id]
           /\ AskedAt(m.sender, m.id) \in asked
           /\ n \in Serials /\ n \in DOMAIN history /\ replies[n] = 0
           /\ m.records \in Contents[query[n].question]
           /\ query[n].question \in Questions
<1> DEFINE s == m.sender
           id == m.id
<1>1. /\ RequestFor(m) # NoRequest
      /\ IsQuestionEqual(query[RequestFor(m).req].question, m.question)
  BY DEF SettleAndReply
<1>2. /\ s \in Servers /\ id \in Occupied(queues[s])
      /\ RequestFor(m) = queues[s].tree[id]
  BY <1>1, ResponseFacts
<1>3. /\ n \in DOMAIN history /\ replies[n] = 0 /\ n \in Serials
      /\ DOMAIN history \subseteq 1 .. Len(query)
      /\ query \in Seq([client : Clients, question : Questions])
      /\ AskedAt(s, id) \in asked
  BY <1>2, QueueTyped, WaitingFacts DEF IInv, LoopTypeOK
<1>4. query[n].question = m.question /\ query[n].question \in Questions
  <2>1. query[n] \in [client : Clients, question : Questions]
    BY <1>3, ElementOfSeq
  <2> QED
    BY <1>1, <1>2, <2>1 DEF IsQuestionEqual
<1>5. m.records \in Contents[query[n].question]
  <2>1. m \in Replies
    <3>1. \A k : Request(k).kind = "request"
      BY DEF Request
    <3> QED
      BY <1>2, <3>1, StrayAssumption DEF Messages
  <2>2. PICK q \in Questions :
           \E t \in Servers, i \in Slots, k \in {q, NoQuestion}, records \in Contents[q] :
              m = Response(t, i, k, records)
    BY <2>1 DEF Replies
  <2>3. m.question \in {q, NoQuestion} /\ m.records \in Contents[q]
    BY <2>2 DEF Response
  <2> QED
    BY <1>4, <2>3, QuestionAssumption
<1> QED
  BY <1>2, <1>3, <1>4, <1>5

(* An answer settles its request; nobody else is touched, and nobody else    *)
(* was sent these records (server.go:80-88).                                *)
LEMMA SettleHistory ==
    ASSUME IInv, HInv, Judged, NEW m \in Messages, m.kind = "response", SettleAndReply(m),
           query' = query
    PROVE  HInv'
<1> DEFINE s == m.sender
           id == m.id
<1>0. PICK n : n = queues[s].tree[id].req
  OBVIOUS
<1>2. /\ s \in Servers /\ id \in Occupied(queues[s])
      /\ RequestFor(m) = queues[s].tree[id]
      /\ AskedAt(s, id) \in asked
      /\ n \in Serials /\ n \in DOMAIN history /\ replies[n] = 0
      /\ m.records \in Contents[query[n].question]
  BY <1>0, SettledAnswer
<1>3. /\ n \in DOMAIN history /\ replies[n] = 0 /\ n \in Serials
      /\ replies \in [Serials -> Nat] /\ DOMAIN delivered = Serials
      /\ DOMAIN history \subseteq Serials /\ history \in [DOMAIN history -> SUBSET Flags]
  BY <1>2 DEF IInv, LoopTypeOK, HInv, DomainsOK
<1>6. PICK rule \in RulesOf[query[n].client] :
         delivered' = [delivered EXCEPT ![n] = Filtered(DOMAIN m.records, rule)]
  BY <1>0, <1>2 DEF SettleAndReply, SendResponse
<1>7. /\ replies' = [replies EXCEPT ![n] = @ + 1]
      /\ history' = [history EXCEPT ![n] = @ \cup {"closed", "recursion"}]
  BY <1>0, <1>2 DEF SettleAndReply, SendResponse
<1>8. /\ replies'[n] = 1 /\ history'[n] = history[n] \cup {"closed", "recursion"}
      /\ delivered'[n] = Filtered(DOMAIN m.records, rule)
      /\ \A k \in Serials \ {n} : replies'[k] = replies[k] /\ delivered'[k] = delivered[k]
      /\ \A k \in DOMAIN history \ {n} : history'[k] = history[k]
      /\ DOMAIN history' = DOMAIN history
      /\ delivered' = [k \in Serials |-> delivered'[k]]
  <2>1. replies'[n] = 1 /\ \A k \in Serials \ {n} : replies'[k] = replies[k]
    BY <1>3, <1>7
  <2>2. /\ history'[n] = history[n] \cup {"closed", "recursion"}
        /\ \A k \in DOMAIN history \ {n} : history'[k] = history[k]
        /\ DOMAIN history' = DOMAIN history
    BY <1>3, <1>7
  <2>3. /\ delivered'[n] = Filtered(DOMAIN m.records, rule)
        /\ \A k \in Serials \ {n} : delivered'[k] = delivered[k]
        /\ DOMAIN delivered' = Serials
    BY <1>3, <1>6
  <2>4. delivered' = [k \in Serials |-> delivered'[k]]
    BY <1>3, <1>6 DEF HInv, DomainsOK
  <2> QED
    BY <2>1, <2>2, <2>3, <2>4
<1>9. EntryTrue(n)'
  <2>1. history[n] \cap Answered = {}
    BY <1>3 DEF HInv, EntryTrue
  <2>2. history'[n] \cap Answered = {"recursion"} /\ "recursion" \in Answered
    BY <1>8, <2>1 DEF Answered
  <2>3. "closed" \in history'[n] /\ history'[n] \cap Causes # {}
    BY <1>8, <2>2 DEF Causes
  <2> QED
    BY <1>8, <2>2, <2>3 DEF EntryTrue
<1>10. DeliveryRight(n)'
  <2>1. delivered'[n] \subseteq DOMAIN m.records
    BY <1>8 DEF Filtered
  <2> DEFINE q == query[n].question
             c == query[n].client
  <2>2. PICK judge \in RequestRules(c) : ~Blocked(q.name, judge)
    BY <1>0, <1>2 DEF Judged, AskedAt
  <2>3. ASSUME AgreedOn(q.name, c)
        PROVE  OwnRecords(q.name, m.records) \subseteq delivered'[n]
    <3>1. ~Blocked(q.name, rule)
      BY <1>6, <2>2, <2>3 DEF AgreedOn
    <3> QED
      BY <1>8, <3>1 DEF OwnRecords, Filtered
  <2> QED
    BY <1>2, <2>1, <2>3 DEF DeliveryRight
<1>11. ASSUME NEW k \in DOMAIN history \ {n} PROVE (EntryTrue(k) /\ DeliveryRight(k))'
  BY <1>3, <1>8, EntryFrame
<1> QED
  BY <1>3, <1>8, <1>9, <1>10, <1>11 DEF HInv, DomainsOK

(* The sweep closes what it times out, and waiting requests only             *)
(* (server.go:337-349).                                                     *)
LEMMA OverdueWaits ==
    ASSUME IInv, HInv, NEW n \in OverdueSerials
    PROVE  /\ n \in DOMAIN history /\ replies[n] = 0
           /\ "recursion" \notin history[n] /\ "timeout" \notin history[n]
<1>1. PICK s \in Servers : \E id \in ExpiredIds(queues[s], now) : n = queues[s].tree[id].req
  BY DEF OverdueSerials
<1>2. PICK id \in ExpiredIds(queues[s], now) : n = queues[s].tree[id].req
  BY <1>1
<1>3. id \in Occupied(queues[s])
  BY <1>2 DEF ExpiredIds
<1>4. /\ AskedAt(s, id) \in asked /\ n \in DOMAIN history /\ replies[n] = 0
  BY <1>2, <1>3, WaitingFacts
<1>5. IsWaiting(AskedAt(s, id))
  BY <1>3, <1>4, WaitingMeans DEF AskedAt
<1>6. history[n] \cap {"recursion", "timeout"} = {}
  BY <1>2, <1>4, <1>5 DEF IInv, Core, EveryRequestAccounted, Accounted, AskedAt
<1> QED
  BY <1>4, <1>6

LEMMA SweepHistory ==
    ASSUME IInv, HInv, CleanUpServers, UNCHANGED <<replies, delivered, query>>
    PROVE  HInv'
<1>1. CASE history' = history
  BY <1>1, HStutter
<1>2. CASE history' = [n \in DOMAIN history |->
                         IF n \in OverdueSerials THEN history[n] \cup {"closed", "timeout"}
                         ELSE history[n]]
  <2>1. ASSUME NEW n \in DOMAIN history PROVE (EntryTrue(n) /\ DeliveryRight(n))'
    <3>1. CASE n \notin OverdueSerials
      BY <1>2, <3>1, EntryFrame
    <3>2. CASE n \in OverdueSerials
      <4>1. history'[n] = history[n] \cup {"closed", "timeout"}
        BY <1>2, <3>2
      <4>2. /\ history'[n] \cap Answered = history[n] \cap Answered
            /\ "closed" \in history'[n] /\ history'[n] \cap Causes # {}
            /\ "recursion" \in history'[n] => "recursion" \in history[n]
        BY <4>1 DEF Answered, Causes
      <4> QED
        BY <4>2 DEF HInv, EntryTrue, DeliveryRight
    <3> QED
      BY <3>1, <3>2
  <2>2. DOMAIN history' = DOMAIN history
    BY <1>2
  <2> QED
    BY <2>1, <2>2 DEF HInv, DomainsOK
<1> QED
  BY <1>1, <1>2 DEF CleanUpServers

(* Every step keeps it.                                                     *)
LEMMA StepHistory == IInv /\ HInv /\ Judged /\ [Next]_vars => HInv'
<1> SUFFICES ASSUME IInv, HInv, Judged, [Next]_vars PROVE HInv'
  OBVIOUS
<1>1. CASE ReceiveQuery
  <2>1. PICK c \in Clients, q \in Questions :
            query' = Append(query, [client |-> c, question |-> q])
    BY <1>1 DEF ReceiveQuery
  <2>2. /\ query \in Seq([client : Clients, question : Questions])
        /\ DOMAIN history \subseteq 1 .. Len(query)
    BY DEF IInv, LoopTypeOK
  <2>3. \A n \in 1 .. Len(query) : query'[n] = query[n]
    BY <2>1, <2>2, AppendProperties
  <2>4. UNCHANGED <<history, replies, delivered>>
    BY <1>1 DEF ReceiveQuery, Receive, historyVars, clientVars
  <2> QED
    BY <2>2, <2>3, <2>4, HStutter
<1>2. CASE ReceiveReply \/ ReceiveStray \/ DropEmptyRequest \/ Tick \/ UNCHANGED vars
  <2>1. UNCHANGED <<history, replies, delivered, query>>
    BY <1>2 DEF ReceiveReply, ReceiveStray, Receive, DropEmptyRequest, Tick, historyVars,
                clientVars, vars
  <2> QED
    BY <2>1, HStutter
<1>3. CASE \E n \in Serials : ProcessRequest(n)
  BY <1>3, ProcessRequestHistory
<1>4. CASE ProcessResponse
  <2> DEFINE m == Head(channel)
  <2>1. /\ m.kind = "response" /\ Take(m) /\ query' = query
        /\ SettleAndReply(m) \/ IgnoreResponse(m) \/ ResponsePanics(m)
    BY <1>4 DEF ProcessResponse
  <2>2. m \in Messages
    BY <2>1, TakeTyped
  <2>3. CASE SettleAndReply(m)
    BY <2>1, <2>2, <2>3, SettleHistory
  <2>4. CASE IgnoreResponse(m) \/ ResponsePanics(m)
    <3>1. UNCHANGED <<history, replies, delivered, query>>
      BY <2>1, <2>4 DEF IgnoreResponse, ResponsePanics, historyVars, clientVars
    <3> QED
      BY <3>1, HStutter
  <2> QED
    BY <2>1, <2>3, <2>4
<1>5. CASE Idle
  BY <1>5, SweepHistory DEF Idle, clientVars
<1> QED
  BY <1>1, <1>2, <1>3, <1>4, <1>5 DEF Next, Loop

(* What the history says and what was sent, in every state.                 *)
THEOREM HistoryInvariant == Spec => [](IInv /\ HInv /\ Judged)
<1>1. Init => IInv /\ HInv /\ Judged
  <2>1. Init => DOMAIN history = {}
    BY DEF Init
  <2> QED
    BY <2>1, InitIInv DEF Init, HInv, DomainsOK, Judged
<1>2. IInv /\ HInv /\ Judged /\ [Next]_vars => (IInv /\ HInv /\ Judged)'
  BY StepIInv, StepHistory, StepJudged
<1> QED
  BY <1>1, <1>2, PTL DEF Spec

-----------------------------------------------------------------------------
(* The records sent after asking a server answer the client's own question,  *)
(* however often ids are reused and answers come late (server.go:81).        *)
THEOREM AnswersFit == Spec => []AnswerFitsQuestion
<1>1. HInv => AnswerFitsQuestion
  BY DEF HInv, DeliveryRight, AnswerFitsQuestion
<1> QED
  BY <1>1, HistoryInvariant, PTL

(* What a query was let through for is not kept from its client by the       *)
(* second look at the rules, for every configuration and every change of     *)
(* the application behind a port on which the two agree (server.go:218, :56). *)
THEOREM LetThroughStays == Spec => []LetThroughIsSent
<1>1. HInv => LetThroughIsSent
  BY DEF HInv, DeliveryRight, LetThroughIsSent
<1> QED
  BY <1>1, HistoryInvariant, PTL

(* The history says of exactly the queries that got an answer why, and an    *)
(* entry is closed for a reason (requestHistory.go).                         *)
THEOREM HistoryTrue == Spec => []HistoryTruthful
<1>1. IInv /\ HInv => HistoryTruthful
  <2> SUFFICES ASSUME IInv, HInv, NEW n \in DOMAIN history
               PROVE  /\ Cardinality(history[n] \cap Answered) = replies[n]
                      /\ "closed" \in history[n]
                            <=> history[n] \cap (Answered \cup {"serverError", "timeout"}) # {}
    BY DEF HistoryTruthful
  <2>1. EntryTrue(n) /\ n \in Serials
    BY DEF HInv, DomainsOK
  <2>2. replies[n] \in Nat /\ replies[n] <= 1
    BY <2>1 DEF IInv, LoopTypeOK, Core, AtMostOneReply
  <2>3. CASE replies[n] = 0
    BY <2>1, <2>3, FS_EmptySet DEF EntryTrue, Causes
  <2>4. CASE replies[n] = 1
    <3>1. PICK cause \in Answered : history[n] \cap Answered = {cause}
      BY <2>1, <2>4 DEF EntryTrue
    <3>2. Cardinality({cause}) = 1
      BY FS_Singleton
    <3> QED
      BY <2>1, <2>4, <3>1, <3>2 DEF EntryTrue, Causes
  <2> QED
    BY <2>2, <2>3, <2>4
<1> QED
  BY <1>1, HistoryInvariant, PTL

(* A closed entry stays as it is, but for that of a failed write, which the   *)
(* answer or the sweep may still touch (server.go:137-139 and :345).          *)
THEOREM ClosedStays == Spec => ClosedIsFinal
<1>1. IInv /\ HInv /\ [Next]_vars =>
         [\A n \in DOMAIN history :
             "closed" \in history[n] =>
                 \/ history'[n] = history[n]
                 \/ "serverError" \in history[n]]_vars
  <2> SUFFICES ASSUME IInv, HInv, [Next]_vars, NEW n \in DOMAIN history,
                      "closed" \in history[n], "serverError" \notin history[n]
               PROVE  history'[n] = history[n]
    OBVIOUS
  <2>1. "recursion" \in history[n] \/ "timeout" \in history[n] \/ replies[n] # 0
    BY DEF HInv, EntryTrue, Causes
  <2>2. CASE ReceiveQuery \/ ReceiveReply \/ ReceiveStray \/ DropEmptyRequest \/ Tick
             \/ UNCHANGED vars
    BY <2>2 DEF ReceiveQuery, ReceiveReply, ReceiveStray, Receive, DropEmptyRequest, Tick,
                historyVars, vars
  <2>3. CASE \E k \in Serials : ProcessRequest(k)
    <3>1. PICK k \in Serials : ProcessRequest(k)
      BY <2>3
    <3>2. k \notin DOMAIN history
      BY <3>1, HeadUnseen DEF ProcessRequest
    <3>3. \E flags : Enter(k, flags)
      BY <3>1 DEF ProcessRequest, RejectType, AnswerFromDatabase, BlockName, AnswerFromCache,
                  AnswerLocally, Forward, NoServerToAsk, CacheLookupPanics
    <3> QED
      BY <3>2, <3>3, EnterAdds
  <2>4. CASE ProcessResponse
    <3> DEFINE m == Head(channel)
    <3>1. /\ m.kind = "response" /\ Take(m)
          /\ SettleAndReply(m) \/ IgnoreResponse(m) \/ ResponsePanics(m)
      BY <2>4 DEF ProcessResponse
    <3>2. CASE SettleAndReply(m)
      <4> DEFINE s == m.sender
                 id == m.id
                 k == queues[s].tree[id].req
      <4>1. RequestFor(m) # NoRequest
        BY <3>2 DEF SettleAndReply
      <4>2. s \in Servers /\ id \in Occupied(queues[s]) /\ RequestFor(m) = queues[s].tree[id]
        BY <3>1, <4>1, TakeTyped, ResponseFacts
      <4>3. history' = [history EXCEPT ![k] = @ \cup {"closed", "recursion"}]
        BY <3>2, <4>2 DEF SettleAndReply
      <4>4. /\ AskedAt(s, id) \in asked /\ replies[k] = 0
            /\ IsWaiting(AskedAt(s, id))
        BY <4>2, WaitingFacts, WaitingMeans DEF AskedAt
      <4>5. history[k] \cap {"recursion", "timeout"} = {}
        BY <4>4 DEF IInv, Core, EveryRequestAccounted, Accounted, AskedAt
      <4>6. n # k
        BY <2>1, <4>4, <4>5
      <4> QED
        BY <4>3, <4>6
    <3>3. CASE IgnoreResponse(m) \/ ResponsePanics(m)
      BY <3>3 DEF IgnoreResponse, ResponsePanics, historyVars
    <3> QED
      BY <3>1, <3>2, <3>3
  <2>5. CASE Idle
    <3>1. n \notin OverdueSerials
      BY <2>1, OverdueWaits
    <3> QED
      BY <2>5, <3>1 DEF Idle, CleanUpServers
  <2> QED
    BY <2>2, <2>3, <2>4, <2>5 DEF Next, Loop
<1> QED
  BY <1>1, HistoryInvariant, PTL DEF Spec, ClosedIsFinal

-----------------------------------------------------------------------------
(* The ring of the history.                                                 *)

(* An entry that is added becomes the last one listed, and only the oldest  *)
(* is lost, and only when the ring is full (requestHistory.go, Add and at). *)
LEMMA AddEntryListed ==
    ASSUME NEW S, NEW r \in Ring(S), NEW e \in S
    PROVE  /\ AddEntry(r, e) \in Ring(S)
           /\ Len(r.list) < HistorySize =>
                 /\ Len(AddEntry(r, e).list) = Len(r.list) + 1
                 /\ \A i \in 1 .. Len(r.list) : Listed(AddEntry(r, e))[i] = Listed(r)[i]
                 /\ Listed(AddEntry(r, e))[Len(r.list) + 1] = e
           /\ Len(r.list) = HistorySize =>
                 /\ Len(AddEntry(r, e).list) = HistorySize
                 /\ \A i \in 1 .. HistorySize - 1 : Listed(AddEntry(r, e))[i] = Listed(r)[i + 1]
                 /\ Listed(AddEntry(r, e))[HistorySize] = e
<1>1. /\ r.list \in Seq(S) /\ Len(r.list) \in Nat /\ Len(r.list) <= HistorySize
      /\ DOMAIN r.list = 1 .. Len(r.list)
      /\ r.first \in 0 .. HistorySize - 1
      /\ Len(r.list) < HistorySize => r.first = 0
      /\ HistorySize \in Nat /\ HistorySize >= 1
  BY HistoryAssumption DEF Ring
<1>2. CASE Len(r.list) < HistorySize
  <2> DEFINE new == [list |-> Append(r.list, e), first |-> r.first]
  <2>1. AddEntry(r, e) = new
    BY <1>2 DEF AddEntry
  <2>2. /\ new.list \in Seq(S) /\ Len(new.list) = Len(r.list) + 1 /\ new.first = 0
        /\ DOMAIN new.list = 1 .. Len(r.list) + 1
        /\ \A i \in 1 .. Len(r.list) : new.list[i] = r.list[i]
        /\ new.list[Len(r.list) + 1] = e
    BY <1>1, <1>2
  <2>3. new \in Ring(S)
    BY <1>1, <1>2, <2>2 DEF Ring
  <2>4. \A i \in 1 .. Len(r.list) + 1 : Listed(new)[i] = new.list[i]
    BY <1>1, <1>2, <2>2 DEF Listed, At
  <2>5. \A i \in 1 .. Len(r.list) : Listed(r)[i] = r.list[i]
    BY <1>1, <1>2 DEF Listed, At
  <2> HIDE DEF new
  <2> QED
    BY <1>1, <1>2, <2>1, <2>2, <2>3, <2>4, <2>5
<1>3. CASE Len(r.list) = HistorySize
  <2> DEFINE list == [i \in DOMAIN r.list |-> IF i = r.first + 1 THEN e ELSE r.list[i]]
             first == IF r.first + 1 >= HistorySize THEN 0 ELSE r.first + 1
             new == [list |-> list, first |-> first]
  <2>1. AddEntry(r, e) = new
    BY <1>1, <1>3 DEF AddEntry
  <2>2. list \in Seq(S) /\ Len(list) = HistorySize /\ DOMAIN list = 1 .. HistorySize
    <3>1. \A i \in 1 .. HistorySize : r.list[i] \in S
      BY <1>1, <1>3
    <3>2. list \in [1 .. HistorySize -> S]
      BY <1>1, <1>3, <3>1
    <3> QED
      BY <1>1, <3>2
  <2>3. first \in 0 .. HistorySize - 1
    BY <1>1
  <2>4. new \in Ring(S)
    BY <2>2, <2>3 DEF Ring
  <2>5. \A i \in 1 .. HistorySize :
           Listed(new)[i] = list[IF i - 1 + first >= HistorySize
                                 THEN i - 1 + first - HistorySize + 1 ELSE i - 1 + first + 1]
    BY <1>1, <2>2, <2>3 DEF Listed, At
  <2>6. \A i \in 1 .. HistorySize :
           Listed(r)[i] = r.list[IF i - 1 + r.first >= HistorySize
                                 THEN i - 1 + r.first - HistorySize + 1 ELSE i - 1 + r.first + 1]
    BY <1>1, <1>3 DEF Listed, At
  <2>7. \A i \in 1 .. HistorySize : list[i] = IF i = r.first + 1 THEN e ELSE r.list[i]
    BY <1>1, <1>3
  <2>11. /\ r.first + 1 >= HistorySize => first = 0
         /\ r.first + 1 < HistorySize => first = r.first + 1
         /\ first \in Nat /\ r.first \in Nat
    BY <1>1
  <2> HIDE DEF list, first, new
  <2>8. ASSUME NEW i \in 1 .. HistorySize - 1 PROVE Listed(new)[i] = Listed(r)[i + 1]
    <3>1. /\ i \in Nat /\ i >= 1 /\ i + 1 <= HistorySize
          /\ i \in 1 .. HistorySize /\ i + 1 \in 1 .. HistorySize
      BY <1>1
    <3>2. CASE i + r.first >= HistorySize
      <4> DEFINE k == i + r.first - HistorySize + 1
      <4>1. k \in 1 .. HistorySize /\ k # r.first + 1
        BY <1>1, <3>1, <3>2
      <4>2. Listed(r)[i + 1] = r.list[k]
        <5>1. i + 1 - 1 + r.first = i + r.first
          BY <1>1, <3>1
        <5> QED
          BY <2>6, <3>1, <3>2, <5>1
      <4>3. Listed(new)[i] = list[k]
        <5>1. CASE first = 0
          <6>1. i - 1 + first < HistorySize /\ i - 1 + first + 1 = k
            BY <1>1, <2>11, <3>1, <3>2, <5>1
          <6> QED
            BY <1>1, <2>5, <2>11, <3>1, <5>1, <6>1
        <5>2. CASE first = r.first + 1
          <6>1. i - 1 + first >= HistorySize /\ i - 1 + first - HistorySize + 1 = k
            BY <1>1, <2>11, <3>1, <3>2, <5>2
          <6> QED
            BY <1>1, <2>5, <2>11, <3>1, <5>2, <6>1
        <5> QED
          BY <1>1, <2>11, <5>1, <5>2
      <4> QED
        BY <2>7, <4>1, <4>2, <4>3
    <3>3. CASE i + r.first < HistorySize
      <4> DEFINE k == i + r.first + 1
      <4>1. k \in 1 .. HistorySize /\ k # r.first + 1
        BY <1>1, <3>1, <3>3
      <4>2. Listed(r)[i + 1] = r.list[k]
        <5>1. i + 1 - 1 + r.first + 1 = k /\ ~(i + 1 - 1 + r.first >= HistorySize)
          BY <1>1, <3>1, <3>3
        <5> HIDE DEF k
        <5> QED
          BY <2>6, <3>1, <5>1
      <4>3. Listed(new)[i] = list[k]
        <5>1. /\ first = r.first + 1
              /\ ~(i - 1 + first >= HistorySize) /\ i - 1 + first + 1 = k
          BY <1>1, <2>11, <3>1, <3>3
        <5> HIDE DEF k
        <5> QED
          BY <2>5, <3>1, <5>1
      <4> QED
        BY <2>7, <4>1, <4>2, <4>3
    <3> QED
      BY <1>1, <3>1, <3>2, <3>3
  <2>9. Listed(new)[HistorySize] = e
    <3>1. Listed(new)[HistorySize] = list[r.first + 1]
      <4>1. HistorySize \in 1 .. HistorySize
        BY <1>1
      <4>2. CASE first = 0
        <5>1. /\ HistorySize - 1 + first < HistorySize
              /\ HistorySize - 1 + first + 1 = r.first + 1
          BY <1>1, <2>11, <4>2
        <5> QED
          BY <1>1, <2>5, <2>11, <4>1, <5>1
      <4>3. CASE first = r.first + 1
        <5>1. /\ HistorySize - 1 + first >= HistorySize
              /\ HistorySize - 1 + first - HistorySize + 1 = r.first + 1
          BY <1>1, <2>11, <4>3
        <5> QED
          BY <1>1, <2>5, <2>11, <4>1, <5>1
      <4> QED
        BY <1>1, <2>11, <4>2, <4>3
    <3>2. r.first + 1 \in 1 .. HistorySize
      BY <1>1
    <3> QED
      BY <2>7, <3>1, <3>2
  <2>10. Len(new.list) = HistorySize
    BY <2>2 DEF new
  <2> QED
    BY <1>1, <1>3, <2>1, <2>4, <2>8, <2>9, <2>10
<1> QED
  BY <1>1, <1>2, <1>3

-----------------------------------------------------------------------------
RingInv == ring \in Ring(Serials) /\ HistoryKeepsTheLast

(* The indexes of the list.                                                 *)
LEMMA RingFacts ==
    ASSUME ring \in Ring(Serials)
    PROVE  /\ DOMAIN Listed(ring) = 1 .. Len(ring.list)
           /\ Len(ring.list) \in Nat /\ Len(ring.list) <= HistorySize
BY HistoryAssumption DEF Ring, Listed

(* Only the entry of a new request is added to the ring, and it is newer     *)
(* than all before it (server.go, processRequest).                          *)
LEMMA EnterRing ==
    ASSUME IInv, RingInv, NEW n \in Serials, \A k \in DOMAIN history : k < n,
           DOMAIN history' = DOMAIN history \cup {n}, ring' = AddEntry(ring, n)
    PROVE  RingInv'
<1>1. /\ ring \in Ring(Serials) /\ HistorySize \in Nat /\ HistorySize >= 1
      /\ DOMAIN Listed(ring) = 1 .. Len(ring.list)
      /\ Len(ring.list) \in Nat /\ Len(ring.list) <= HistorySize
  BY RingFacts, HistoryAssumption DEF RingInv
<1>2. /\ \A i, j \in 1 .. Len(ring.list) : i < j => Listed(ring)[i] < Listed(ring)[j]
      /\ \A i \in 1 .. Len(ring.list) : Listed(ring)[i] \in DOMAIN history
      /\ \A k \in DOMAIN history :
            \/ \E i \in 1 .. Len(ring.list) : Listed(ring)[i] = k
            \/ Len(ring.list) = HistorySize /\ k < Listed(ring)[1]
  BY <1>1 DEF RingInv, HistoryKeepsTheLast
<1>3. \A k \in DOMAIN history : k \in Nat /\ k < n
  BY DEF IInv, LoopTypeOK
<1>4. n \in Nat
  BY DEF Serials
<1>5. ring' \in Ring(Serials)
  BY <1>1, AddEntryListed
<1>6. /\ DOMAIN Listed(ring)' = 1 .. Len(ring'.list)
      /\ Len(ring'.list) \in Nat /\ Len(ring'.list) <= HistorySize
  BY <1>5, HistoryAssumption DEF Ring, Listed
<1>7. CASE Len(ring.list) < HistorySize
  <2>1. /\ Len(ring'.list) = Len(ring.list) + 1
        /\ \A i \in 1 .. Len(ring.list) : Listed(ring')[i] = Listed(ring)[i]
        /\ Listed(ring')[Len(ring.list) + 1] = n
    BY <1>1, <1>7, AddEntryListed
  <2>2. \A i, j \in 1 .. Len(ring'.list) : i < j => Listed(ring')[i] < Listed(ring')[j]
    BY <1>1, <1>2, <1>3, <2>1
  <2>3. \A i \in 1 .. Len(ring'.list) : Listed(ring')[i] \in DOMAIN history'
    BY <1>1, <1>2, <2>1
  <2>4. \A k \in DOMAIN history' : \E i \in 1 .. Len(ring'.list) : Listed(ring')[i] = k
    BY <1>1, <1>2, <1>7, <2>1
  <2> QED
    BY <1>5, <1>6, <2>2, <2>3, <2>4 DEF RingInv, HistoryKeepsTheLast
<1>8. CASE Len(ring.list) = HistorySize
  <2>1. /\ Len(ring'.list) = HistorySize
        /\ \A i \in 1 .. HistorySize - 1 : Listed(ring')[i] = Listed(ring)[i + 1]
        /\ Listed(ring')[HistorySize] = n
    BY <1>1, <1>8, AddEntryListed
  <2>2. ASSUME NEW i \in 1 .. Len(ring'.list), NEW j \in 1 .. Len(ring'.list), i < j
        PROVE  Listed(ring')[i] < Listed(ring')[j]
    <3>1. /\ i \in 1 .. HistorySize - 1 /\ i + 1 \in 1 .. Len(ring.list)
          /\ Listed(ring')[i] = Listed(ring)[i + 1]
      BY <1>1, <1>8, <2>1, <2>2
    <3>2. CASE j = HistorySize
      BY <1>2, <1>3, <2>1, <3>1, <3>2
    <3>3. CASE j # HistorySize
      <4>1. /\ j \in 1 .. HistorySize - 1 /\ j + 1 \in 1 .. Len(ring.list)
            /\ Listed(ring')[j] = Listed(ring)[j + 1]
        BY <1>1, <1>8, <2>1, <3>3
      <4>2. i + 1 < j + 1
        BY <1>1, <2>1, <2>2
      <4> QED
        BY <1>2, <3>1, <4>1, <4>2
    <3> QED
      BY <3>2, <3>3
  <2>3. \A i \in 1 .. Len(ring'.list) : Listed(ring')[i] \in DOMAIN history'
    BY <1>1, <1>2, <1>8, <2>1
  <2>4. ASSUME NEW k \in DOMAIN history
        PROVE  (\E i \in 1 .. HistorySize : Listed(ring')[i] = k) \/ k < Listed(ring')[1]
    <3>1. CASE \E i \in 2 .. HistorySize : Listed(ring)[i] = k
      <4>1. PICK i \in 2 .. HistorySize : Listed(ring)[i] = k
        BY <3>1
      <4>2. i - 1 \in 1 .. HistorySize - 1 /\ i - 1 \in 1 .. HistorySize
        BY <1>1
      <4>3. Listed(ring')[i - 1] = k
        BY <2>1, <4>1, <4>2
      <4> QED
        BY <4>2, <4>3
    <3>2. CASE k < Listed(ring)[1] \/ Listed(ring)[1] = k
      <4>1. CASE HistorySize = 1
        BY <1>3, <2>1, <4>1
      <4>2. CASE HistorySize # 1
        <5>1. Listed(ring')[1] = Listed(ring)[2] /\ Listed(ring)[1] < Listed(ring)[2]
          BY <1>1, <1>2, <1>8, <2>1, <4>2
        <5>2. Listed(ring)[1] \in Nat /\ Listed(ring)[2] \in Nat /\ k \in Nat
          BY <1>1, <1>2, <1>3, <1>8, <4>2
        <5> QED
          BY <3>2, <5>1, <5>2
      <4> QED
        BY <4>1, <4>2
    <3> QED
      BY <1>1, <1>2, <1>8, <3>1, <3>2
  <2>5. \E i \in 1 .. HistorySize : Listed(ring')[i] = n
    BY <1>1, <2>1
  <2> QED
    BY <1>5, <1>6, <2>1, <2>2, <2>3, <2>4, <2>5 DEF RingInv, HistoryKeepsTheLast
<1> QED
  BY <1>1, <1>7, <1>8

(* Nothing else touches the ring, nor which requests have been seen.        *)
LEMMA RingStutter ==
    ASSUME RingInv, ring' = ring, DOMAIN history' = DOMAIN history
    PROVE  RingInv'
BY DEF RingInv, HistoryKeepsTheLast

(* Every step of the loop and of what is around it.                          *)
LEMMA RingStep == IInv /\ RingInv /\ [Next]_vars => RingInv'
<1> SUFFICES ASSUME IInv, RingInv, [Next]_vars PROVE RingInv'
  OBVIOUS
<1>1. CASE \E n \in Serials : ProcessRequest(n)
  <2>1. PICK n \in Serials : ProcessRequest(n)
    BY <1>1
  <2>2. (\A k \in DOMAIN history : k < n) /\ n \notin DOMAIN history
    BY <2>1, HeadUnseen DEF ProcessRequest
  <2>3. \E flags : Enter(n, flags)
    BY <2>1 DEF ProcessRequest, RejectType, AnswerFromDatabase, BlockName, AnswerFromCache,
                AnswerLocally, Forward, NoServerToAsk, CacheLookupPanics
  <2>4. DOMAIN history' = DOMAIN history \cup {n} /\ ring' = AddEntry(ring, n)
    BY <2>2, <2>3, EnterAdds
  <2> QED
    BY <2>2, <2>4, EnterRing
<1>2. CASE ~\E n \in Serials : ProcessRequest(n)
  <2>1. ring' = ring /\ DOMAIN history' = DOMAIN history
    <3>1. CASE ProcessResponse
      BY <3>1 DEF ProcessResponse, SettleAndReply, IgnoreResponse, ResponsePanics, historyVars
    <3>2. CASE Idle
      BY <3>2 DEF Idle, CleanUpServers
    <3>3. CASE ReceiveQuery \/ ReceiveReply \/ ReceiveStray \/ DropEmptyRequest \/ Tick
      BY <3>3 DEF ReceiveQuery, ReceiveReply, ReceiveStray, Receive, DropEmptyRequest, Tick,
                  historyVars
    <3>4. CASE UNCHANGED vars
      BY <3>4 DEF vars
    <3> QED
      BY <1>2, <3>1, <3>2, <3>3, <3>4 DEF Next, Loop
  <2> QED
    BY <2>1, RingStutter
<1> QED
  BY <1>1, <1>2

LEMMA RingInit == Init => RingInv
<1> SUFFICES ASSUME Init PROVE RingInv
  OBVIOUS
<1>1. ring = NewRing /\ DOMAIN history = {}
  BY DEF Init
<1>2. Len(ring.list) = 0 /\ ring \in Ring(Serials)
  BY <1>1, HistoryAssumption, EmptySeq DEF NewRing, Ring
<1>3. DOMAIN Listed(ring) = 1 .. 0
  BY <1>2, RingFacts
<1> QED
  BY <1>1, <1>2, <1>3 DEF RingInv, HistoryKeepsTheLast

(* The history lists the last requests, in order and without gaps, for every *)
(* size of the ring (requestHistory.go, Add, at and Filter).                *)
THEOREM HistoryComplete == Spec => []HistoryKeepsTheLast
<1>1. Init => RingInv
  BY RingInit
<1>2. IInv /\ RingInv /\ [Next]_vars => RingInv'
  BY RingStep
<1>3. RingInv => HistoryKeepsTheLast
  BY DEF RingInv
<1> QED
  BY <1>1, <1>2, <1>3, Invariant, PTL DEF Spec

-----------------------------------------------------------------------------
(* The types of what is sent.  The lemmas about lookups are those of the     *)
(* cache.                                                                   *)
Lookups == INSTANCE CacheProofs WITH
              Replies <- {}, Types <- {}, CheckInterval <- CacheInterval,
              nextCleanUp <- cacheCleanUp, granted <- cache

(* A lookup finds records only, and such as are cached (cache.go, getRecord). *)
LEMMA FoundAreRecords ==
    ASSUME NEW q \in Questions
    PROVE  /\ Store!Get(cache, q, now) \subseteq Store!Present(cache)
           /\ Store!Get(cache, q, now) \subseteq Resources
<1> DEFINE found == Lookups!Visits(cache, q.type, now)
<1>0. /\ Lookups!LowerAssumption /\ Lookups!ResourceAssumption /\ Lookups!LimitAssumption
      /\ Lookups!ReplyAssumption /\ Lookups!IntervalAssumption
  BY RecordAssumption, ServerAssumption DEF Lookups!LowerAssumption, Lookups!ResourceAssumption,
     Lookups!LimitAssumption, Lookups!ReplyAssumption, Lookups!IntervalAssumption
<1>1. Store!Get(cache, q, now) = Lookups!Get(cache, q, now)
  BY DEF Store!Get, Store!Resolve, Store!Matching, Store!Aliases, Store!Present, Store!Absent,
         Store!IsExpired, Lookups!Get, Lookups!Resolve, Lookups!Matching, Lookups!Aliases,
         Lookups!Present, Lookups!Absent, Lookups!IsExpired
<1>2. Lookups!Get(cache, q, now) = found[MaxDepth][Lower[q.name]]
  BY <1>0, Lookups!GetIsVisits
<1>3. Lookups!IsLookup(cache, q.type, now, found)
  BY <1>0, Lookups!VisitsExist
<1>4. \A d \in 0 .. MaxDepth, name \in Names : \A x \in found[d][name] :
         x \in Lookups!Present(cache)
  BY <1>3, <1>0, Lookups!FoundIsFresh
<1>5. Lower[q.name] \in Names /\ MaxDepth \in 0 .. MaxDepth
  BY QuestionAssumption, RecordAssumption
<1> QED
  BY <1>1, <1>2, <1>4, <1>5
     DEF Lookups!Present, Lookups!Absent, Store!Present, Store!Absent

DeliveredOK == delivered \in [Serials -> SUBSET Resources]

LEMMA SendsRecords ==
    ASSUME DeliveredOK, NEW n \in Serials, NEW records \in SUBSET Resources,
           SendResponse(n, records)
    PROVE  DeliveredOK'
BY DEF DeliveredOK, SendResponse, Filtered

(* What is sent is taken from the local database, the cache or an answer     *)
(* (server.go, processRequest and processResponse).                         *)
LEMMA StepDelivered == IInv /\ DeliveredOK /\ [Next]_vars => DeliveredOK'
<1> SUFFICES ASSUME IInv, DeliveredOK, [Next]_vars PROVE DeliveredOK'
  OBVIOUS
<1>1. CASE ReceiveQuery \/ ReceiveReply \/ ReceiveStray \/ DropEmptyRequest \/ Tick \/ Idle
           \/ UNCHANGED vars
  BY <1>1 DEF ReceiveQuery, ReceiveReply, ReceiveStray, Receive, DropEmptyRequest, Tick, Idle,
              clientVars, vars, DeliveredOK
<1>2. ASSUME NEW n \in Serials, ProcessRequest(n) PROVE DeliveredOK'
  <2> DEFINE q == query[n].question
  <2>1. q \in Questions
    <3>1. n \in 1 .. Len(query) /\ query \in Seq([client : Clients, question : Questions])
      BY <1>2, HeadUnseen DEF ProcessRequest, IInv, LoopTypeOK
    <3>2. query[n] \in [client : Clients, question : Questions]
      BY <3>1, ElementOfSeq
    <3> QED
      BY <3>2
  <2>2. CASE RejectType(n, q) \/ \E rule : BlockName(n, q, rule)
    <3>1. SendResponse(n, {})
      BY <2>2 DEF RejectType, BlockName, AnswerLocally
    <3> QED
      BY <3>1, SendsRecords
  <2>3. CASE AnswerFromDatabase(n, q)
    <3>1. SendResponse(n, LocalDatabase[q]) /\ q \in DOMAIN LocalDatabase
      BY <2>3 DEF AnswerFromDatabase, AnswerLocally
    <3> QED
      BY <3>1, SendsRecords, RecordAssumption
  <2>4. CASE \E rule : AnswerFromCache(n, q, rule)
    <3>1. SendResponse(n, Store!Get(cache, q, now))
      BY <2>4 DEF AnswerFromCache, AnswerLocally
    <3> QED
      BY <2>1, <3>1, SendsRecords, FoundAreRecords
  <2>5. CASE \E rule : Forward(n, q, rule) \/ NoServerToAsk(n, q, rule)
                       \/ CacheLookupPanics(n, q, rule)
    BY <2>5 DEF Forward, NoServerToAsk, CacheLookupPanics, clientVars, DeliveredOK
  <2> QED
    BY <1>2, <2>2, <2>3, <2>4, <2>5 DEF ProcessRequest
<1>3. CASE ProcessResponse
  <2> DEFINE m == Head(channel)
  <2>1. /\ m.kind = "response" /\ Take(m)
        /\ SettleAndReply(m) \/ IgnoreResponse(m) \/ ResponsePanics(m)
    BY <1>3 DEF ProcessResponse
  <2>2. m \in Messages
    BY <2>1, TakeTyped
  <2>3. CASE SettleAndReply(m)
    <3> DEFINE s == m.sender
               id == m.id
               n == queues[s].tree[id].req
    <3>1. /\ s \in Servers /\ id \in Occupied(queues[s])
          /\ RequestFor(m) = queues[s].tree[id]
      BY <2>1, <2>2, <2>3, ResponseFacts DEF SettleAndReply
    <3>2. n \in Serials
      BY <3>1, QueueTyped
    <3>3. DOMAIN m.records \in SUBSET Resources
      <4>1. m \in Replies
        <5>1. \A k : Request(k).kind = "request"
          BY DEF Request
        <5> QED
          BY <2>1, <2>2, <3>1, <5>1, StrayAssumption DEF Messages
      <4>2. PICK q \in Questions : m.records \in Contents[q]
        BY <4>1 DEF Replies, Response
      <4> QED
        BY <4>2, ContentsAssumption
    <3>4. SendResponse(n, DOMAIN m.records)
      BY <2>3, <3>1 DEF SettleAndReply
    <3> QED
      BY <3>2, <3>3, <3>4, SendsRecords
  <2>4. CASE IgnoreResponse(m) \/ ResponsePanics(m)
    BY <2>4 DEF IgnoreResponse, ResponsePanics, clientVars, DeliveredOK
  <2> QED
    BY <2>1, <2>3, <2>4
<1> QED
  BY <1>1, <1>2, <1>3 DEF Next, Loop

(* The values the code's types allow, in every state: what the loop decides  *)
(* by, the ring of the history, and records of the store in every answer.   *)
THEOREM TypeCorrect == Spec => []TypeOK
<1>1. Init => DeliveredOK /\ RingInv
  BY RingInit DEF Init, DeliveredOK
<1>2. IInv /\ DeliveredOK /\ [Next]_vars => DeliveredOK'
  BY StepDelivered
<1>3. IInv /\ RingInv /\ [Next]_vars => RingInv'
  BY RingStep
<1>4. IInv /\ DeliveredOK /\ RingInv => TypeOK
  BY DEF IInv, DeliveredOK, RingInv, TypeOK
<1> QED
  BY <1>1, <1>2, <1>3, <1>4, Invariant, PTL DEF Spec

-----------------------------------------------------------------------------
(* Where cached records come from.                                          *)

(* An answered query stays answered, and what it asked stays known.         *)
LEMMA AnsweredStays ==
    ASSUME IInv, HInv, [Next]_vars, NEW r, WasAnswered(r)
    PROVE  WasAnswered(r)'
<1>1. PICK n \in DOMAIN history :
         /\ "recursion" \in history[n]
         /\ \E records \in Contents[query[n].question] : r \in DOMAIN records
  BY DEF WasAnswered
<1>2. query'[n] = query[n]
  <2>1. CASE ReceiveQuery
    <3>1. PICK c \in Clients, q \in Questions :
              query' = Append(query, [client |-> c, question |-> q])
      BY <2>1 DEF ReceiveQuery
    <3>2. query \in Seq([client : Clients, question : Questions]) /\ n \in 1 .. Len(query)
      BY DEF IInv, LoopTypeOK
    <3> QED
      BY <3>1, <3>2, AppendProperties
  <2>2. CASE ~ReceiveQuery
    BY <2>2 DEF Next, Loop, ReceiveReply, ReceiveStray, ProcessRequest, DropEmptyRequest,
                ProcessResponse, Idle, Tick, vars
  <2> QED
    BY <2>1, <2>2
<1>3. n \in DOMAIN history' /\ "recursion" \in history'[n]
  <2>1. CASE ReceiveQuery \/ ReceiveReply \/ ReceiveStray \/ DropEmptyRequest \/ Tick
             \/ UNCHANGED vars
    BY <1>1, <2>1 DEF ReceiveQuery, ReceiveReply, ReceiveStray, Receive, DropEmptyRequest, Tick,
                      historyVars, vars
  <2>2. CASE \E k \in Serials : ProcessRequest(k)
    <3>1. PICK k \in Serials : ProcessRequest(k)
      BY <2>2
    <3>2. k \notin DOMAIN history
      BY <3>1, HeadUnseen DEF ProcessRequest
    <3>3. \E flags : Enter(k, flags)
      BY <3>1 DEF ProcessRequest, RejectType, AnswerFromDatabase, BlockName, AnswerFromCache,
                  AnswerLocally, Forward, NoServerToAsk, CacheLookupPanics
    <3> QED
      BY <1>1, <3>2, <3>3, EnterAdds
  <2>3. CASE ProcessResponse
    BY <1>1, <2>3 DEF ProcessResponse, SettleAndReply, IgnoreResponse, ResponsePanics, historyVars
  <2>4. CASE Idle
    BY <1>1, <2>4 DEF Idle, CleanUpServers
  <2> QED
    BY <2>1, <2>2, <2>3, <2>4 DEF Next, Loop
<1> QED
  BY <1>1, <1>2, <1>3 DEF WasAnswered

CachedWasAnswered == \A r \in Store!Present(cache) : WasAnswered(r)

CacheRests == CachedWasAnswered /\ CacheRestsOnAnswers

(* A step that caches nothing and gives no query an answer from the cache.   *)
LEMMA CacheFrame ==
    ASSUME IInv, HInv, CacheRests, [Next]_vars,
           Store!Present(cache') \subseteq Store!Present(cache),
           \A n \in DOMAIN history' :
              "cache" \in history'[n] =>
                 n \in DOMAIN history /\ "cache" \in history[n] /\ delivered'[n] = delivered[n]
    PROVE  CacheRests'
<1>1. \A r : WasAnswered(r) => WasAnswered(r)'
  BY AnsweredStays
<1>2. CachedWasAnswered'
  BY <1>1 DEF CacheRests, CachedWasAnswered
<1>3. CacheRestsOnAnswers'
  BY <1>1 DEF CacheRests, CacheRestsOnAnswers
<1> QED
  BY <1>2, <1>3 DEF CacheRests

(* An answer from the cache is made of what is cached (server.go:245-251).   *)
LEMMA FromCacheRests ==
    ASSUME IInv, HInv, CacheRests, [Next]_vars, NEW n \in Serials, ProcessRequest(n)
    PROVE  CacheRests'
<1> DEFINE q == query[n].question
<1>1. n \notin DOMAIN history /\ n \in 1 .. Len(query)
  BY HeadUnseen DEF ProcessRequest
<1>2. PICK flags : Enter(n, flags)
  BY DEF ProcessRequest, RejectType, AnswerFromDatabase, BlockName, AnswerFromCache,
         AnswerLocally, Forward, NoServerToAsk, CacheLookupPanics
<1>3. /\ DOMAIN history' = DOMAIN history \cup {n} /\ history'[n] = flags
      /\ \A k \in DOMAIN history : history'[k] = history[k]
  BY <1>1, <1>2, EnterAdds
<1>4. cache' = cache
  BY DEF ProcessRequest, RejectType, AnswerFromDatabase, BlockName, AnswerFromCache,
         AnswerLocally, Forward, NoServerToAsk, CacheLookupPanics, cacheVars
<1>5. \A k \in DOMAIN history : delivered'[k] = delivered[k]
  <2>1. delivered' = delivered \/ \E records : SendResponse(n, records)
    BY DEF ProcessRequest, RejectType, AnswerFromDatabase, BlockName, AnswerFromCache,
           AnswerLocally, Forward, NoServerToAsk, CacheLookupPanics, clientVars
  <2> QED
    BY <1>1, <2>1 DEF SendResponse, HInv, DomainsOK
<1>6. CASE \E rule : AnswerFromCache(n, q, rule)
  <2>1. PICK rule \in RulesOf[query[n].client] :
           delivered' = [delivered EXCEPT ![n] = Filtered(Store!Get(cache, q, now), rule)]
    BY <1>6 DEF AnswerFromCache, AnswerLocally, SendResponse
  <2>2. q \in Questions
    <3>1. query[n] \in [client : Clients, question : Questions]
      BY <1>1, ElementOfSeq DEF IInv, LoopTypeOK
    <3> QED
      BY <3>1
  <2>3. \A r \in delivered'[n] : WasAnswered(r)
    <3>1. delivered'[n] \subseteq Store!Get(cache, q, now)
      BY <2>1 DEF Filtered, HInv, DomainsOK
    <3> QED
      BY <2>2, <3>1, FoundAreRecords DEF CacheRests, CachedWasAnswered
  <2>4. \A r : WasAnswered(r) => WasAnswered(r)'
    BY AnsweredStays
  <2>5. CachedWasAnswered'
    BY <1>4, <2>4 DEF CacheRests, CachedWasAnswered
  <2>6. CacheRestsOnAnswers'
    BY <1>3, <1>5, <2>3, <2>4 DEF CacheRests, CacheRestsOnAnswers
  <2> QED
    BY <2>5, <2>6 DEF CacheRests
<1>7. CASE ~\E rule : AnswerFromCache(n, q, rule)
  <2>1. "cache" \notin history'[n]
    <3>1. RejectType(n, q) \/ AnswerFromDatabase(n, q)
            \/ \E rule : BlockName(n, q, rule) \/ Forward(n, q, rule)
                          \/ NoServerToAsk(n, q, rule) \/ CacheLookupPanics(n, q, rule)
      BY <1>7 DEF ProcessRequest
    <3>2. ASSUME NEW set, "cache" \notin set, Enter(n, set) PROVE "cache" \notin history'[n]
      BY <1>1, <3>2, EnterAdds
    <3>3. CASE RejectType(n, q) \/ AnswerFromDatabase(n, q) \/ \E rule : BlockName(n, q, rule)
      BY <3>2, <3>3 DEF RejectType, AnswerFromDatabase, BlockName, AnswerLocally
    <3>4. ASSUME NEW rule, Forward(n, q, rule) PROVE "cache" \notin history'[n]
      <4>1. PICK ok \in BOOLEAN :
               Enter(n, OverriddenFlag(q, rule)
                          \cup IF ok THEN {"forwarded"} ELSE {"closed", "serverError"})
        BY <3>4 DEF Forward
      <4> QED
        BY <3>2, <4>1 DEF OverriddenFlag
    <3>5. ASSUME NEW rule, NoServerToAsk(n, q, rule) PROVE "cache" \notin history'[n]
      BY <3>2, <3>5 DEF NoServerToAsk, OverriddenFlag
    <3>6. ASSUME NEW rule, CacheLookupPanics(n, q, rule) PROVE "cache" \notin history'[n]
      BY <3>2, <3>6 DEF CacheLookupPanics, OverriddenFlag
    <3> QED
      BY <3>1, <3>3, <3>4, <3>5, <3>6
  <2> QED
    BY <1>3, <1>4, <1>5, <2>1, CacheFrame
<1> QED
  BY <1>6, <1>7

(* What is cached besides came with the answer to a waiting request          *)
(* (server.go:80-86).                                                       *)
LEMMA SettleRests ==
    ASSUME IInv, HInv, CacheRests, [Next]_vars, NEW m \in Messages, m.kind = "response",
           SettleAndReply(m), query' = query
    PROVE  CacheRests'
<1>0. PICK n : n = queues[m.sender].tree[m.id].req
  OBVIOUS
<1>1. /\ RequestFor(m) = queues[m.sender].tree[m.id]
      /\ n \in Serials /\ n \in DOMAIN history /\ replies[n] = 0
      /\ m.records \in Contents[query[n].question]
  BY <1>0, SettledAnswer
<1>2. history' = [history EXCEPT ![n] = @ \cup {"closed", "recursion"}]
  BY <1>0, <1>1 DEF SettleAndReply
<1>3. \A r \in DOMAIN m.records : WasAnswered(r)'
  BY <1>1, <1>2 DEF WasAnswered
<1>4. \A r : WasAnswered(r) => WasAnswered(r)'
  BY AnsweredStays
<1>5. CachedWasAnswered'
  <2>1. cache' = Store!AddAll(cache, m.records, now)
    BY DEF SettleAndReply
  <2>2. \A r \in Store!Present(cache') : r \in DOMAIN m.records \/ r \in Store!Present(cache)
    BY <2>1 DEF Store!Present, Store!AddAll
  <2> QED
    BY <1>3, <1>4, <2>2 DEF CacheRests, CachedWasAnswered
<1>6. CacheRestsOnAnswers'
  <2>1. "cache" \notin history'[n]
    BY <1>1, <1>2 DEF HInv, EntryTrue, Answered
  <2>2. /\ DOMAIN history' = DOMAIN history
        /\ \A k \in DOMAIN history \ {n} : history'[k] = history[k]
    BY <1>2
  <2>3. \A k \in DOMAIN history \ {n} : delivered'[k] = delivered[k]
    BY <1>0, <1>1 DEF SettleAndReply, SendResponse, HInv, DomainsOK
  <2> QED
    BY <1>4, <2>1, <2>2, <2>3 DEF CacheRests, CacheRestsOnAnswers
<1> QED
  BY <1>5, <1>6 DEF CacheRests

LEMMA StepCacheRests == IInv /\ HInv /\ CacheRests /\ [Next]_vars => CacheRests'
<1> SUFFICES ASSUME IInv, HInv, CacheRests, [Next]_vars PROVE CacheRests'
  OBVIOUS
<1>1. CASE ReceiveQuery \/ ReceiveReply \/ ReceiveStray \/ DropEmptyRequest \/ Tick
           \/ UNCHANGED vars
  <2>1. UNCHANGED <<history, delivered, cache>>
    BY <1>1 DEF ReceiveQuery, ReceiveReply, ReceiveStray, Receive, DropEmptyRequest, Tick,
                historyVars, clientVars, cacheVars, vars
  <2> QED
    BY <2>1, CacheFrame
<1>2. CASE \E n \in Serials : ProcessRequest(n)
  BY <1>2, FromCacheRests
<1>3. CASE ProcessResponse
  <2> DEFINE m == Head(channel)
  <2>1. /\ m.kind = "response" /\ Take(m) /\ query' = query
        /\ SettleAndReply(m) \/ IgnoreResponse(m) \/ ResponsePanics(m)
    BY <1>3 DEF ProcessResponse
  <2>2. CASE SettleAndReply(m)
    BY <2>1, <2>2, TakeTyped, SettleRests
  <2>3. CASE IgnoreResponse(m) \/ ResponsePanics(m)
    <3>1. UNCHANGED <<history, delivered, cache>>
      BY <2>3 DEF IgnoreResponse, ResponsePanics, historyVars, clientVars, cacheVars
    <3> QED
      BY <3>1, CacheFrame
  <2> QED
    BY <2>1, <2>2, <2>3
<1>4. CASE Idle
  <2>1. Store!Present(cache') \subseteq Store!Present(cache)
    BY <1>4 DEF Idle, CleanUpCache, cacheVars, Store!Present, Store!RemoveExpired, Store!Absent
  <2>2. /\ DOMAIN history' = DOMAIN history /\ delivered' = delivered
        /\ \A n \in DOMAIN history : "cache" \in history'[n] => "cache" \in history[n]
    BY <1>4 DEF Idle, CleanUpServers, clientVars
  <2> QED
    BY <2>1, <2>2, CacheFrame
<1> QED
  BY <1>1, <1>2, <1>3, <1>4 DEF Next, Loop

(* Whatever answers come, late, again, to another question or from nobody     *)
(* asked, a client gets from the cache only what has answered a request       *)
(* (server.go:80-91 and :245).                                              *)
THEOREM CacheIsEarned == Spec => []CacheRestsOnAnswers
<1>1. Init => CacheRests
  BY DEF Init, CacheRests, CachedWasAnswered, CacheRestsOnAnswers, Store!EmptyCache,
         Store!Present
<1>2. IInv /\ HInv /\ CacheRests /\ [Next]_vars => CacheRests'
  BY StepCacheRests
<1>3. CacheRests => CacheRestsOnAnswers
  BY DEF CacheRests
<1> QED
  BY <1>1, <1>2, <1>3, HistoryInvariant, PTL DEF Spec

-----------------------------------------------------------------------------
(* A count below the end of the word is not wrapped (udp.go, the int32      *)
(* fields).                                                                 *)
LEMMA CountsUp ==
    ASSUME NEW c \in Nat, c < WordHalf
    PROVE  ToWord(c) = c
<1> DEFINE m == 2 * WordHalf
<1>1. WordHalf \in Nat /\ m \in Nat /\ c + WordHalf \in Nat /\ c + WordHalf < m
  BY WordAssumption
<1>2. \A x \in Nat, y \in Nat : x < y => x % y = x
  OBVIOUS
<1>3. (c + WordHalf) % m = c + WordHalf
  BY <1>1, <1>2
<1> QED
  BY <1>1, <1>3 DEF ToWord

AskedOf(s) == {a \in asked : a.server = s}
AnsweredBy(s) == {a \in asked : a.server = s /\ "recursion" \in history[a.serial]}

(* A server is asked once at most for every query, and answers no more than *)
(* it was asked.                                                            *)
LEMMA OnePerSerial ==
    ASSUME NEW A, \A a \in A : a.serial \in Serials,
           \A a, b \in A : a.serial = b.serial => a = b,
           NEW B \in SUBSET A
    PROVE  /\ IsFiniteSet(B) /\ Cardinality(B) \in Nat /\ Cardinality(B) <= MaxQueries
<1> DEFINE serial == [b \in B |-> b.serial]
<1>1. IsFiniteSet(Serials) /\ Cardinality(Serials) = MaxQueries
  BY ServerAssumption, FS_Interval DEF Serials
<1>2. serial \in Injection(B, Serials)
  BY DEF Injection, IsInjective
<1>3. IsFiniteSet(B) /\ Cardinality(B) <= Cardinality(Serials)
  BY <1>1, <1>2, FS_Injection
<1> QED
  BY <1>1, <1>3, FS_CardinalityType

LEMMA AskedIsFew ==
    ASSUME IInv, NEW s \in Servers
    PROVE  /\ IsFiniteSet(AskedOf(s)) /\ Cardinality(AskedOf(s)) <= MaxQueries
           /\ IsFiniteSet(AnsweredBy(s)) /\ Cardinality(AnsweredBy(s)) <= MaxQueries
           /\ Cardinality(AskedOf(s)) \in Nat /\ Cardinality(AnsweredBy(s)) \in Nat
<1>1. /\ \A a \in asked : a.serial \in Serials
      /\ \A a, b \in asked : a.serial = b.serial => a = b
      /\ AskedOf(s) \in SUBSET asked /\ AnsweredBy(s) \in SUBSET asked
  BY DEF IInv, LoopTypeOK, Core, AskedOnce, AskedOf, AnsweredBy
<1> QED
  BY <1>1, OnePerSerial

FiguresRight(s) ==
    /\ stats[s].queriesCount = Cardinality(AskedOf(s))
    /\ stats[s].repliesCount = Cardinality(AnsweredBy(s))

LEMMA FiguresMean == FiguresAgree <=> \A s \in Servers : FiguresRight(s)
BY DEF FiguresAgree, FiguresRight, AskedOf, AnsweredBy

(* A step that asks nobody and answers nothing for a server leaves it be.   *)
LEMMA FiguresFrame ==
    ASSUME NEW s \in Servers, FiguresRight(s), AskedOf(s)' = AskedOf(s),
           stats'[s] = stats[s],
           \A a \in AskedOf(s) :
              ("recursion" \in history'[a.serial]) <=> ("recursion" \in history[a.serial])
    PROVE  FiguresRight(s)'
<1>1. AnsweredBy(s)' = AnsweredBy(s)
  BY DEF AnsweredBy, AskedOf
<1> QED
  BY <1>1 DEF FiguresRight

(* A query handed to a server is counted there (server.go, forwardUdp;       *)
(* udp.go, IncQueryCount).                                                  *)
LEMMA ForwardFigures ==
    ASSUME MaxQueries < WordHalf, IInv, IInv', FiguresAgree,
           NEW n \in Serials, n \notin DOMAIN history, NEW q, NEW rule, Forward(n, q, rule)
    PROVE  FiguresAgree'
<1>1. PICK s \in Servers, ok \in BOOLEAN :
         /\ stats' = [stats EXCEPT ![s] = IncQueryCount(@)]
         /\ asked' = asked \cup {[serial |-> n, server |-> s, id |-> AllocateId(queues[s])]}
         /\ Enter(n, OverriddenFlag(q, rule)
                       \cup IF ok THEN {"forwarded"} ELSE {"closed", "serverError"})
  <2>1. DOMAIN stats = Servers
    BY DEF IInv, LoopTypeOK
  <2>2. SelectBest(stats) \ {NoServer} \subseteq Servers
    BY <2>1 DEF SelectBest, Best
  <2> QED
    BY <2>2 DEF Forward
<1> DEFINE added == [serial |-> n, server |-> s, id |-> AllocateId(queues[s])]
<1>2. /\ \A k \in DOMAIN history : history'[k] = history[k]
      /\ "recursion" \notin history'[n]
  <2> DEFINE flags == OverriddenFlag(q, rule)
                        \cup IF ok THEN {"forwarded"} ELSE {"closed", "serverError"}
  <2>1. "recursion" \notin flags
    BY DEF OverriddenFlag
  <2>2. Enter(n, flags)
    BY <1>1
  <2> HIDE DEF flags
  <2> QED
    BY <2>1, <2>2, EnterAdds
<1>3. \A a \in asked : a.serial \in DOMAIN history /\ a.serial # n
  BY DEF IInv, Core, AskedOnce
<1>4. ASSUME NEW o \in Servers PROVE FiguresRight(o)'
  <2>1. FiguresRight(o) /\ stats \in [Servers -> Stats]
    BY FiguresMean DEF IInv, LoopTypeOK
  <2>2. CASE o # s
    <3>1. AskedOf(o)' = AskedOf(o)
      BY <1>1, <2>2 DEF AskedOf
    <3>2. stats'[o] = stats[o]
      BY <1>1, <2>1, <2>2
    <3> QED
      BY <1>2, <1>3, <2>1, <3>1, <3>2, FiguresFrame DEF AskedOf
  <2>3. CASE o = s
    <3>1. AskedOf(s)' = AskedOf(s) \cup {added} /\ added \notin AskedOf(s)
      BY <1>1, <1>3 DEF AskedOf
    <3>2. AnsweredBy(s)' = AnsweredBy(s)
      BY <1>1, <1>2, <1>3 DEF AnsweredBy
    <3>3. /\ IsFiniteSet(AskedOf(s)) /\ Cardinality(AskedOf(s)) \in Nat
          /\ Cardinality(AskedOf(s)') <= MaxQueries
      <4>1. /\ \A a \in asked' : a.serial \in Serials
            /\ \A a, b \in asked' : a.serial = b.serial => a = b
            /\ AskedOf(s)' \in SUBSET asked'
        BY DEF IInv, LoopTypeOK, Core, AskedOnce, AskedOf
      <4> QED
        BY <4>1, OnePerSerial, AskedIsFew
    <3>4. Cardinality(AskedOf(s)') = Cardinality(AskedOf(s)) + 1
      BY <3>1, <3>3, FS_AddElement
    <3>5. ToWord(Cardinality(AskedOf(s)) + 1) = Cardinality(AskedOf(s)) + 1
      BY <3>3, <3>4, CountsUp, ServerAssumption, WordAssumption
    <3>6. /\ stats'[s].queriesCount = ToWord(stats[s].queriesCount + 1)
          /\ stats'[s].repliesCount = stats[s].repliesCount
      BY <1>1, <2>1 DEF IncQueryCount, Stats
    <3> QED
      BY <2>1, <2>3, <3>2, <3>4, <3>5, <3>6 DEF FiguresRight
  <2> QED
    BY <2>2, <2>3
<1> QED
  BY <1>4 DEF FiguresAgree, FiguresRight, AskedOf, AnsweredBy

(* A settled request is counted for its server, once (server.go:82-88;       *)
(* udp.go, IncReplyCount).                                                  *)
LEMMA SettleFigures ==
    ASSUME MaxQueries < WordHalf, IInv, IInv', FiguresAgree,
           NEW m \in Messages, m.kind = "response", SettleAndReply(m)
    PROVE  FiguresAgree'
<1> DEFINE s == m.sender
           id == m.id
           k == queues[s].tree[id].req
<1>1. s \in Servers /\ id \in Occupied(queues[s]) /\ RequestFor(m) = queues[s].tree[id]
  BY ResponseFacts DEF SettleAndReply
<1>2. /\ AskedAt(s, id) \in asked /\ k \in DOMAIN history
      /\ \A a \in asked : a.serial = k => a = AskedAt(s, id)
      /\ IsWaiting(AskedAt(s, id))
  BY <1>1, WaitingFacts, WaitingMeans DEF AskedAt
<1>3. "recursion" \notin history[k]
  BY <1>2 DEF IInv, Core, EveryRequestAccounted, Accounted, AskedAt
<1>4. /\ history' = [history EXCEPT ![k] = @ \cup {"closed", "recursion"}]
      /\ asked' = asked
      /\ \E d \in Int : stats' = [stats EXCEPT ![s] = IncReplyCount(@, d)]
  <2>1. RequestFor(m).startDate \in Nat /\ now \in Nat /\ MsPerTick \in Nat
    BY <1>1, QueueTyped, ServerAssumption DEF IInv, LoopTypeOK
  <2>2. (now - RequestFor(m).startDate) * MsPerTick \in Int
    BY <2>1
  <2> QED
    BY <1>1, <2>2 DEF SettleAndReply
<1>5. /\ \A n \in DOMAIN history \ {k} : history'[n] = history[n]
      /\ "recursion" \in history'[k]
  BY <1>2, <1>4
<1>6. \A a \in asked : a.serial \in DOMAIN history
  BY DEF IInv, Core, AskedOnce
<1>7. ASSUME NEW o \in Servers PROVE FiguresRight(o)'
  <2>1. FiguresRight(o) /\ stats \in [Servers -> Stats]
    BY FiguresMean DEF IInv, LoopTypeOK
  <2>2. AskedOf(o)' = AskedOf(o)
    BY <1>4 DEF AskedOf
  <2>3. CASE o # s
    <3>1. stats'[o] = stats[o]
      BY <1>4, <2>1, <2>3
    <3>2. \A a \in AskedOf(o) : a.serial # k
      BY <1>2, <2>3 DEF AskedOf, AskedAt
    <3> QED
      BY <1>5, <1>6, <2>1, <2>2, <3>1, <3>2, FiguresFrame DEF AskedOf
  <2>4. CASE o = s
    <3>1. AnsweredBy(s)' = AnsweredBy(s) \cup {AskedAt(s, id)}
      BY <1>2, <1>4, <1>5, <1>6 DEF AnsweredBy, AskedAt
    <3>2. AskedAt(s, id) \notin AnsweredBy(s)
      BY <1>3 DEF AnsweredBy, AskedAt
    <3>3. /\ IsFiniteSet(AnsweredBy(s)) /\ Cardinality(AnsweredBy(s)) \in Nat
          /\ Cardinality(AnsweredBy(s)') <= MaxQueries
      <4>1. /\ \A a \in asked' : a.serial \in Serials
            /\ \A a, b \in asked' : a.serial = b.serial => a = b
            /\ AnsweredBy(s)' \in SUBSET asked'
        BY DEF IInv, LoopTypeOK, Core, AskedOnce, AnsweredBy
      <4> QED
        BY <1>1, <4>1, OnePerSerial, AskedIsFew
    <3>4. Cardinality(AnsweredBy(s)') = Cardinality(AnsweredBy(s)) + 1
      BY <3>1, <3>2, <3>3, FS_AddElement
    <3>5. ToWord(Cardinality(AnsweredBy(s)) + 1) = Cardinality(AnsweredBy(s)) + 1
      BY <3>3, <3>4, CountsUp, ServerAssumption, WordAssumption
    <3>6. /\ stats'[s].repliesCount = ToWord(stats[s].repliesCount + 1)
          /\ stats'[s].queriesCount = stats[s].queriesCount
      BY <1>1, <1>4, <2>1 DEF IncReplyCount, Stats
    <3> QED
      BY <2>1, <2>2, <2>4, <3>4, <3>5, <3>6 DEF FiguresRight
  <2> QED
    BY <2>3, <2>4
<1> QED
  BY <1>7 DEF FiguresAgree, FiguresRight, AskedOf, AnsweredBy

(* Every other step asks nobody and answers nothing.                        *)
LEMMA OtherFigures ==
    ASSUME IInv, FiguresAgree, UNCHANGED <<stats, asked>>,
           \A n \in DOMAIN history :
              ("recursion" \in history'[n]) <=> ("recursion" \in history[n])
    PROVE  FiguresAgree'
<1>1. \A a \in asked : a.serial \in DOMAIN history
  BY DEF IInv, Core, AskedOnce
<1>2. ASSUME NEW s \in Servers PROVE FiguresRight(s)'
  BY <1>1, FiguresMean, FiguresFrame DEF AskedOf
<1> QED
  BY <1>2 DEF FiguresAgree, FiguresRight, AskedOf, AnsweredBy

LEMMA StepFigures ==
    ASSUME MaxQueries < WordHalf, IInv, IInv', HInv, FiguresAgree, [Next]_vars
    PROVE  FiguresAgree'
<1>1. CASE ReceiveQuery \/ ReceiveReply \/ ReceiveStray \/ DropEmptyRequest \/ Tick
           \/ UNCHANGED vars
  BY <1>1, OtherFigures DEF ReceiveQuery, ReceiveReply, ReceiveStray, Receive, DropEmptyRequest,
                            Tick, historyVars, upstreamVars, vars
<1>2. ASSUME NEW n \in Serials, ProcessRequest(n) PROVE FiguresAgree'
  <2> DEFINE q == query[n].question
  <2>1. n \notin DOMAIN history
    BY <1>2, HeadUnseen DEF ProcessRequest
  <2>2. CASE \E rule : Forward(n, q, rule)
    BY <2>1, <2>2, ForwardFigures
  <2>3. CASE ~ \E rule : Forward(n, q, rule)
    <3>1. (\E flags : Enter(n, flags)) /\ UNCHANGED <<stats, asked>>
      BY <1>2, <2>3 DEF ProcessRequest, RejectType, AnswerFromDatabase, BlockName,
           AnswerFromCache, AnswerLocally, NoServerToAsk, CacheLookupPanics, upstreamVars
    <3> QED
      BY <2>1, <3>1, EnterAdds, OtherFigures
  <2> QED
    BY <2>2, <2>3
<1>3. CASE ProcessResponse
  <2> DEFINE m == Head(channel)
  <2>1. /\ m.kind = "response" /\ Take(m)
        /\ SettleAndReply(m) \/ IgnoreResponse(m) \/ ResponsePanics(m)
    BY <1>3 DEF ProcessResponse
  <2>2. m \in Messages
    BY <2>1, TakeTyped
  <2>3. CASE SettleAndReply(m)
    BY <2>1, <2>2, <2>3, SettleFigures
  <2>4. CASE IgnoreResponse(m) \/ ResponsePanics(m)
    BY <2>4, OtherFigures DEF IgnoreResponse, ResponsePanics, historyVars, upstreamVars
  <2> QED
    BY <2>1, <2>3, <2>4
<1>4. CASE Idle
  <2>1. UNCHANGED <<stats, asked>>
    BY <1>4 DEF Idle
  <2>2. \A n \in DOMAIN history :
           ("recursion" \in history'[n]) <=> ("recursion" \in history[n])
    BY <1>4 DEF Idle, CleanUpServers
  <2> QED
    BY <2>1, <2>2, OtherFigures
<1> QED
  BY <1>1, <1>2, <1>3, <1>4 DEF Next, Loop

(* As long as a counter of a server cannot have passed the end of its int32, *)
(* the figures say how many queries it was handed and how many of them it    *)
(* answered, whatever was late, repeated or timed out (udp.go,               *)
(* IncQueryCount and IncReplyCount).                                        *)
THEOREM FiguresHold ==
    ASSUME MaxQueries < WordHalf
    PROVE  Spec => []FiguresAgree
<1>1. Init => FiguresAgree
  <2> SUFFICES ASSUME Init PROVE FiguresAgree
    OBVIOUS
  <2>1. \A s \in Servers : stats[s] = NewStats /\ asked = {}
    BY DEF Init
  <2>2. \A s \in Servers : AskedOf(s) = {} /\ AnsweredBy(s) = {}
    BY <2>1 DEF AskedOf, AnsweredBy
  <2>3. Cardinality({}) = 0
    BY FS_EmptySet
  <2> QED
    BY <2>1, <2>2, <2>3, FiguresMean DEF FiguresRight, NewStats
<1>2. IInv /\ IInv' /\ HInv /\ FiguresAgree /\ [Next]_vars => FiguresAgree'
  BY StepFigures
<1> QED
  BY <1>1, <1>2, HistoryInvariant, PTL DEF Spec

(* A server that is not slow has a score that is not negative, as long as    *)
(* its replies in milliseconds fit an int32 (udp.go:36-48).                 *)
LEMMA PromptIsUsable ==
    ASSUME MaxQueries * 1000 < WordHalf, NEW st \in Stats,
           st.responseTime <= 1000, st.queriesCount \in Nat, st.repliesCount \in Nat,
           st.repliesCount <= MaxQueries
    PROVE  SpeedScore(st) >= 0
<1>1. CASE st.queriesCount = 0
  BY <1>1 DEF SpeedScore, UntestedScore
<1>2. CASE st.queriesCount # 0
  <2> DEFINE speed == 1000 - st.responseTime
             reliability == Quotient(ToWord(st.repliesCount * 1000), st.queriesCount)
  <2>1. speed \in Nat
    BY WordAssumption DEF Stats, Word
  <2>2. st.repliesCount * 1000 \in Nat /\ st.repliesCount * 1000 < WordHalf
    BY ServerAssumption, WordAssumption
  <2>3. reliability = (st.repliesCount * 1000) \div st.queriesCount
    BY <2>2, CountsUp DEF Quotient
  <2>4. \A a \in Nat, b \in Nat : b # 0 => a \div b \in Nat
    OBVIOUS
  <2>5. reliability \in Nat
    BY <1>2, <2>2, <2>3, <2>4
  <2> HIDE DEF speed, reliability
  <2>6. \A a \in Nat, b \in Nat : a * b \in Nat
    OBVIOUS
  <2>7. (speed * reliability) \div 4 >= 0 /\ (speed * reliability) \div 4 \in Int
    BY <2>1, <2>5, <2>6
  <2> QED
    BY <1>2, <2>7 DEF SpeedScore, speed, reliability
<1> QED
  BY <1>1, <1>2

(* A query is refused for want of a server only when all are slow, as long   *)
(* as replies counted in thousandths fit an int32 (udp.go:36-48 and          *)
(* SelectBest).                                                             *)
THEOREM OnlySlowOnesRefuse ==
    ASSUME MaxQueries * 1000 < WordHalf
    PROVE  Spec => OnlySlowServersRefuse
<1>1. MaxQueries < WordHalf
  BY ServerAssumption, WordAssumption
<1>2. ASSUME IInv, HInv, FiguresAgree, [Next]_vars
      PROVE  [\A n \in DOMAIN history' \ DOMAIN history :
                 "serverError" \in history'[n] =>
                     \/ \E a \in asked' : a.serial = n
                     \/ \A s \in Servers : stats[s].responseTime > 1000]_vars
  <2> SUFFICES ASSUME NEW k \in DOMAIN history' \ DOMAIN history, "serverError" \in history'[k]
               PROVE  \/ \E a \in asked' : a.serial = k
                      \/ \A s \in Servers : stats[s].responseTime > 1000
    OBVIOUS
  <2>1. PICK n \in Serials : ProcessRequest(n)
    <3>1. CASE ProcessResponse
      BY <3>1 DEF ProcessResponse, SettleAndReply, IgnoreResponse, ResponsePanics, historyVars
    <3>2. CASE Idle
      BY <3>2 DEF Idle, CleanUpServers
    <3>3. CASE ReceiveQuery \/ ReceiveReply \/ ReceiveStray \/ DropEmptyRequest \/ Tick
      BY <3>3 DEF ReceiveQuery, ReceiveReply, ReceiveStray, Receive, DropEmptyRequest, Tick,
                  historyVars
    <3>4. CASE UNCHANGED vars
      BY <3>4 DEF vars
    <3> QED
      BY <1>2, <3>1, <3>2, <3>3, <3>4 DEF Next, Loop
  <2> DEFINE q == query[n].question
  <2>2. n \notin DOMAIN history
    BY <1>2, <2>1, HeadUnseen DEF ProcessRequest
  <2>3. \A flags : Enter(n, flags) => k = n /\ history'[k] = flags
    BY <2>2, EnterAdds
  <2>4. CASE \E rule : Forward(n, q, rule)
    <3>1. \E flags : Enter(n, flags)
      BY <2>4 DEF Forward
    <3>2. PICK s, ok :
             asked' = asked \cup {[serial |-> n, server |-> s, id |-> AllocateId(queues[s])]}
      BY <2>4 DEF Forward
    <3>3. [serial |-> n, server |-> s, id |-> AllocateId(queues[s])] \in asked'
      BY <3>2
    <3> QED
      BY <2>3, <3>1, <3>3
  <2>5. CASE \E rule : NoServerToAsk(n, q, rule)
    <3> SUFFICES ASSUME NEW s \in Servers PROVE stats[s].responseTime > 1000
      OBVIOUS
    <3>1. NoServer \in SelectBest(stats) /\ NoServer \notin Servers /\ stats \in [Servers -> Stats]
      BY <1>2, <2>5, ServerAssumption DEF NoServerToAsk, IInv, LoopTypeOK
    <3>2. ~(SpeedScore(stats[s]) >= 0)
      BY <3>1 DEF SelectBest, Best
    <3>3. stats[s].queriesCount \in Nat /\ stats[s].repliesCount \in Nat
          /\ stats[s].repliesCount <= MaxQueries
      BY <1>2, AskedIsFew, FiguresMean, ServerAssumption DEF FiguresRight
    <3>4. stats[s] \in Stats /\ stats[s].responseTime \in Int
      BY <3>1, WordAssumption DEF Stats, Word
    <3> QED
      BY <3>2, <3>3, <3>4, PromptIsUsable
  <2>6. CASE ~ (\E rule : Forward(n, q, rule)) /\ ~ (\E rule : NoServerToAsk(n, q, rule))
    <3>1. PICK flags : Enter(n, flags) /\ "serverError" \notin flags
      <4>1. \A rule : "serverError" \notin OverriddenFlag(q, rule)
        BY DEF OverriddenFlag
      <4>2. CASE RejectType(n, q)
        BY <4>2 DEF RejectType, AnswerLocally
      <4>3. CASE AnswerFromDatabase(n, q)
        BY <4>3 DEF AnswerFromDatabase, AnswerLocally
      <4>4. CASE \E rule : BlockName(n, q, rule)
        BY <4>4 DEF BlockName, AnswerLocally
      <4>5. ASSUME NEW rule, AnswerFromCache(n, q, rule)
            PROVE  \E flags : Enter(n, flags) /\ "serverError" \notin flags
        <5>1. Enter(n, {"closed"} \cup ({"cache"} \cup OverriddenFlag(q, rule)))
          BY <4>5 DEF AnswerFromCache, AnswerLocally
        <5>2. "serverError" \notin {"closed"} \cup ({"cache"} \cup OverriddenFlag(q, rule))
          BY <4>1
        <5> QED
          BY <5>1, <5>2
      <4>6. CASE \E rule : CacheLookupPanics(n, q, rule)
        BY <4>1, <4>6 DEF CacheLookupPanics
      <4> QED
        BY <2>1, <2>6, <4>2, <4>3, <4>4, <4>5, <4>6 DEF ProcessRequest
    <3> QED
      BY <2>3, <3>1
  <2> QED
    BY <2>4, <2>5, <2>6
<1> QED
  BY <1>1, <1>2, FiguresHold, HistoryInvariant, PTL DEF Spec, OnlySlowServersRefuse
=============================================================================
