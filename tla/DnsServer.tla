----------------------------- MODULE DnsServer ------------------------------
(***************************************************************************)
(* The forwarding DNS server, dns/server.go, over one run: the receiver     *)
(* goroutine, the bounded channel msgInput, and the loop that answers       *)
(* clients, forwards to upstream servers, and cleans up when the channel is *)
(* empty.                                                                   *)
(*                                                                         *)
(* A client query is represented by its serial number n; query[n] says who  *)
(* asked what.  The loop is the only goroutine that touches the queues, the *)
(* cache and the figures of the servers, so one iteration is one step.      *)
(***************************************************************************)
EXTENDS ForwardQueue, UdpServer, NamePolicy, RequestHistory, FiniteSets

CONSTANTS
    (* the record cache, see RecordCache                                    *)
    Names, Lower, Resources, MaxDepth, MaxCount, MinTtl,
    (* the configuration                                                    *)
    NumServers,       (* upstream servers, in table order                   *)
    LocalDatabase,    (* function: question -> the records LookupAnswer     *)
                      (* returns; a question without an entry has none      *)
    CacheInterval,    (* cacheCheckInterval, 10 s in the code               *)
    ServersInterval,  (* time between sweeps of the queues, 2 s in the code *)
    ChannelCap,       (* 128 in the code                                    *)
    (* the environment                                                      *)
    Clients,
    Loopback,         (* the clients on this host                           *)
    RulesOf,          (* function: client -> the rules of the applications  *)
                      (* that may own its port when the port is looked up   *)
    Questions,        (* the questions clients ask, [name, type]            *)
    Contents,         (* function: question -> what upstream servers answer *)
                      (* it with, functions from records to TTLs            *)
    NoQuestion,       (* stands for a message without a question            *)
    Strays,           (* other messages that may arrive, any number of times *)
    HeaderOnly,       (* may an upstream answer without a question section? *)
    SendFails,        (* may a write to an upstream server fail?            *)
    MsPerTick,        (* milliseconds in a tick of the clock                *)
    (* bounds                                                               *)
    MaxQueries, MaxTime

Servers == 1 .. NumServers
Serials == 1 .. MaxQueries

Request(n) == [kind |-> "request", serial |-> n]

Response(s, id, q, records) ==
    [kind |-> "response", sender |-> s, id |-> id, question |-> q, records |-> records]

ASSUME ServerAssumption ==
    /\ NumServers \in Nat
    /\ NoServer \notin Servers
    /\ Loopback \subseteq Clients
    /\ MaxQueries \in Nat /\ MaxTime \in Nat /\ MsPerTick \in Nat
    /\ CacheInterval \in Nat /\ ServersInterval \in Nat /\ ChannelCap \in Nat

ASSUME StrayAssumption ==
    \A m \in Strays : m = Request(0) \/ (m.kind = "response" /\ m.sender \notin Servers)

ASSUME ContentsAssumption ==
    \A q \in Questions : \A records \in Contents[q] :
        DOMAIN records \subseteq Resources /\ \A r \in DOMAIN records : records[r] \in Nat

ASSUME QuestionAssumption ==
    /\ NoQuestion \notin Questions
    /\ \A q \in Questions : q.name \in Names

ASSUME RecordAssumption ==
    /\ Lower \in [Names -> Names]
    /\ \A r \in Resources : r.owner \in Names /\ r.target \in Names
    /\ \A q \in DOMAIN LocalDatabase : LocalDatabase[q] \subseteq Resources
    /\ MaxDepth \in Nat \ {0} /\ MaxCount \in Nat /\ MinTtl \in Nat

ASSUME NoRequestAssumption == NoRequest \notin Forwarded(Serials)

Store == INSTANCE RecordCache

VARIABLES
    now,             (* the clock, in ticks of one second                   *)
    channel,         (* msgInput                                            *)
    query,           (* query[n]: the n-th query received                   *)
    history,         (* history[n]: State of the entry of query n, once the *)
                     (* loop has seen it, a set of flags; the empty set is  *)
                     (* StateOpen                                           *)
    ring,            (* RequestHistory: which entries are still kept        *)
    replies,         (* replies[n]: how many answers its client was sent    *)
    delivered,       (* delivered[n]: the records of the last of them       *)
    queues,          (* the Queue of every upstream server                  *)
    stats,           (* the figures of every upstream server                *)
    serversCleanUp,  (* udpServers.nextCleanUp                              *)
    cache,
    cacheCleanUp,    (* Cache.nextCleanUp                                   *)
    asked,           (* not in the program: every Add to a queue            *)
    wire,            (* not in the program: the packets sent to servers     *)
    panicked         (* the loop has ended in a panic                       *)

vars == <<now, channel, query, history, ring, replies, delivered, queues, stats,
          serversCleanUp, cache, cacheCleanUp, asked, wire, panicked>>

clientVars   == <<replies, delivered>>
historyVars  == <<history, ring>>
upstreamVars == <<queues, stats, serversCleanUp, asked, wire>>
cacheVars    == <<cache, cacheCleanUp>>

-----------------------------------------------------------------------------
Answered == {"recursion", "db", "cache", "blockedType", "blockedName"}
Flags == Answered \cup {"closed", "serverError", "forwarded", "timeout", "overridden"}

Init ==
    /\ now = 0
    /\ channel = <<>>
    /\ query = <<>>
    /\ history = <<>>
    /\ ring = NewRing
    /\ replies = [n \in Serials |-> 0]
    /\ delivered = [n \in Serials |-> {}]
    /\ queues = [s \in Servers |-> NewForwardedRequests]
    /\ stats = [s \in Servers |-> NewStats]
    /\ serversCleanUp = 0
    /\ cache = Store!EmptyCache
    /\ cacheCleanUp = 0
    /\ asked = {}
    /\ wire = {}
    /\ panicked = FALSE

-----------------------------------------------------------------------------
(* The receiver goroutine.  It blocks while the channel is full; what does  *)
(* not arrive, is not a message, or is lost in the socket buffer is a       *)
(* message that is never received.                                          *)
Receive(m) ==
    /\ ~panicked
    /\ Len(channel) < ChannelCap
    /\ channel' = Append(channel, m)
    /\ UNCHANGED <<now, historyVars, clientVars, upstreamVars, cacheVars, panicked>>

ReceiveQuery ==
    /\ Len(query) < MaxQueries
    /\ \E c \in Clients, q \in Questions :
          query' = Append(query, [client |-> c, question |-> q])
    /\ Receive(Request(Len(query) + 1))

(* An upstream server answers any packet it was ever sent: late, again, out *)
(* of order or not at all.                                                  *)
ReceiveReply ==
    /\ \E p \in wire : \E records \in Contents[p.question] :
          \E q \in {p.question} \cup (IF HeaderOnly THEN {NoQuestion} ELSE {}) :
             Receive(Response(p.server, p.id, q, records))
    /\ UNCHANGED query

ReceiveStray ==
    /\ \E m \in Strays : Receive(m)
    /\ UNCHANGED query

-----------------------------------------------------------------------------
(* The loop.                                                               *)
Running == ~panicked

Take(m) == Running /\ channel # <<>> /\ Head(channel) = m /\ channel' = Tail(channel)

IsTypeSupported(type) == type \in Store!KnownTypes

(* The rule of the application that owns the port of a client, looked up    *)
(* for a request only when the client is on this host.                      *)
RequestRules(c) == IF c \in Loopback THEN RulesOf[c] ELSE {NoRule}

(* filterResources, which looks the rule up again, for every client.  The   *)
(* three sections of a message are one set here.                            *)
Filtered(records, rule) ==
    {r \in records : IsTypeSupported(r.type) /\ ~Blocked(r.owner, rule)}

(* A mutant of SendResponse: the rule is not looked up again.              *)
SendResponseNoRule(n, records) ==
    /\ replies' = [replies EXCEPT ![n] = @ + 1]
    /\ delivered' = [delivered EXCEPT ![n] = Filtered(records, NoRule)]

SendResponse(n, records) ==
    /\ replies' = [replies EXCEPT ![n] = @ + 1]
    /\ \E rule \in RulesOf[query[n].client] :
          delivered' = [delivered EXCEPT ![n] = Filtered(records, rule)]

(* The new entry of the history, as the handler leaves it.                  *)
Enter(n, flags) ==
    /\ history' = [k \in DOMAIN history \cup {n} |-> IF k = n THEN flags ELSE history[k]]
    /\ ring' = AddEntry(ring, n)

(* A mutant of AnswerLocally: the entry of the history stays open.         *)
AnswerLocallyOpen(n, records, flags) ==
    /\ Enter(n, flags)
    /\ SendResponse(n, records)
    /\ UNCHANGED <<upstreamVars, cacheVars, panicked>>

(* A request answered without an upstream server.                           *)
AnswerLocally(n, records, flags) ==
    /\ Enter(n, {"closed"} \cup flags)
    /\ SendResponse(n, records)
    /\ UNCHANGED <<upstreamVars, cacheVars, panicked>>

RejectType(n, q) ==
    /\ ~IsTypeSupported(q.type)
    /\ AnswerLocally(n, {}, {"blockedType"})

AnswerFromDatabase(n, q) ==
    /\ IsTypeSupported(q.type)
    /\ q \in DOMAIN LocalDatabase
    /\ AnswerLocally(n, LocalDatabase[q], {"db"})

NotLocal(q) == IsTypeSupported(q.type) /\ q \notin DOMAIN LocalDatabase

BlockName(n, q, rule) ==
    /\ NotLocal(q)
    /\ Blocked(q.name, rule)
    /\ AnswerLocally(n, {}, {"blockedName"})

OverriddenFlag(q, rule) == IF Overridden(q.name, rule) THEN {"overridden"} ELSE {}

AnswerFromCache(n, q, rule) ==
    /\ NotLocal(q)
    /\ ~Blocked(q.name, rule)
    /\ ~Store!GetPanics(cache, q, now)
    /\ Store!Get(cache, q, now) # {}
    /\ AnswerLocally(n, Store!Get(cache, q, now), {"cache"} \cup OverriddenFlag(q, rule))

MustForward(q, rule) ==
    /\ NotLocal(q)
    /\ ~Blocked(q.name, rule)
    /\ ~Store!GetPanics(cache, q, now)
    /\ Store!Get(cache, q, now) = {}

(* forwardUdp: a failed write leaves the request in the queue.              *)
Forward(n, q, rule) ==
    /\ MustForward(q, rule)
    /\ \E s \in SelectBest(stats) \ {NoServer}, ok \in IF SendFails THEN BOOLEAN ELSE {TRUE} :
          LET id == AllocateId(queues[s])
          IN  /\ stats' = [stats EXCEPT ![s] = IncQueryCount(@)]
              /\ queues' = [queues EXCEPT ![s] = Add(@, n, now)]
              /\ asked' = asked \cup {[serial |-> n, server |-> s, id |-> id]}
              /\ wire' = IF ok THEN wire \cup {[server |-> s, id |-> id, question |-> q]}
                               ELSE wire
              /\ Enter(n, OverriddenFlag(q, rule)
                         \cup IF ok THEN {"forwarded"} ELSE {"closed", "serverError"})
    /\ UNCHANGED <<clientVars, serversCleanUp, cacheVars, panicked>>

(* SelectBest found no server: nothing is sent to the client.               *)
NoServerToAsk(n, q, rule) ==
    /\ MustForward(q, rule)
    /\ NoServer \in SelectBest(stats)
    /\ Enter(n, {"closed", "serverError"} \cup OverriddenFlag(q, rule))
    /\ UNCHANGED <<clientVars, upstreamVars, cacheVars, panicked>>

CacheLookupPanics(n, q, rule) ==
    /\ NotLocal(q)
    /\ ~Blocked(q.name, rule)
    /\ Store!GetPanics(cache, q, now)
    /\ panicked' = TRUE
    /\ Enter(n, OverriddenFlag(q, rule))
    /\ UNCHANGED <<clientVars, upstreamVars, cacheVars>>

ProcessRequest(n) ==
    /\ Take(Request(n))
    /\ LET q == query[n].question
       IN  \/ RejectType(n, q)
           \/ AnswerFromDatabase(n, q)
           \/ \E rule \in RequestRules(query[n].client) :
                 \/ BlockName(n, q, rule)
                 \/ AnswerFromCache(n, q, rule)
                 \/ Forward(n, q, rule)
                 \/ NoServerToAsk(n, q, rule)
                 \/ CacheLookupPanics(n, q, rule)
    /\ UNCHANGED <<now, query>>

(* A request without a question is dropped.                                 *)
DropEmptyRequest ==
    /\ Take(Request(0))
    /\ UNCHANGED <<now, query, historyVars, clientVars, upstreamVars, cacheVars, panicked>>

-----------------------------------------------------------------------------
(* A mutant of IsQuestionEqual: only the types are compared.               *)
IsTypeEqual(q0, q1) == q1 # NoQuestion /\ q0.type = q1.type

(* Names are compared byte by byte, upper and lower case apart.             *)
IsQuestionEqual(q0, q1) == q0 = q1

(* The waiting request a response has the id of, in the queue of the server *)
(* that sent it.                                                            *)
RequestFor(m) ==
    IF m.sender \in Servers THEN Get(queues[m.sender], m.id) ELSE NoRequest

SettleAndReply(m) ==
    LET f == RequestFor(m)
        s == m.sender
    IN  /\ f # NoRequest
        /\ IsQuestionEqual(query[f.req].question, m.question)
        /\ queues' = [queues EXCEPT ![s] = Remove(@, m.id)]
        /\ stats' = [stats EXCEPT ![s] = IncReplyCount(@, (now - f.startDate) * MsPerTick)]
        /\ cache' = Store!AddAll(cache, m.records, now)
        /\ history' = [history EXCEPT ![f.req] = @ \cup {"closed", "recursion"}]
        /\ SendResponse(f.req, DOMAIN m.records)
        /\ UNCHANGED <<ring, serversCleanUp, asked, wire, cacheCleanUp, panicked>>

(* A mutant of IgnoreResponse: its records are cached before it is known.  *)
IgnoreResponseCached(m) ==
    /\ RequestFor(m) # NoRequest
         => /\ m.question # NoQuestion
            /\ ~IsQuestionEqual(query[RequestFor(m).req].question, m.question)
    /\ cache' = Store!AddAll(cache, m.records, now)
    /\ UNCHANGED <<historyVars, clientVars, upstreamVars, cacheCleanUp, panicked>>

IgnoreResponse(m) ==
    /\ RequestFor(m) # NoRequest
         => /\ m.question # NoQuestion
            /\ ~IsQuestionEqual(query[RequestFor(m).req].question, m.question)
    /\ UNCHANGED <<historyVars, clientVars, upstreamVars, cacheVars, panicked>>

(* msg.Questions[0] of a message without questions is out of range.         *)
ResponsePanics(m) ==
    /\ RequestFor(m) # NoRequest
    /\ m.question = NoQuestion
    /\ panicked' = TRUE
    /\ UNCHANGED <<historyVars, clientVars, upstreamVars, cacheVars>>

ProcessResponse ==
    /\ channel # <<>>
    /\ LET m == Head(channel)
       IN  /\ m.kind = "response"
           /\ Take(m)
           /\ SettleAndReply(m) \/ IgnoreResponse(m) \/ ResponsePanics(m)
    /\ UNCHANGED <<now, query>>

-----------------------------------------------------------------------------
CleanUpCache ==
    IF cacheCleanUp <= now
    THEN /\ cache' = Store!RemoveExpired(cache, now)
         /\ cacheCleanUp' = now + CacheInterval
    ELSE UNCHANGED cacheVars

(* A mutant of OverdueSerials: the sweep closes those of one server only.  *)
OverdueAtFirst ==
    UNION {{queues[s].tree[id].req : id \in ExpiredIds(queues[s], now)} : s \in Servers \cap {1}}

OverdueSerials ==
    UNION {{queues[s].tree[id].req : id \in ExpiredIds(queues[s], now)} : s \in Servers}

CleanUpServers ==
    IF serversCleanUp <= now
    THEN /\ queues' = [s \in Servers |-> RemoveExpired(queues[s], now)]
         /\ history' = [n \in DOMAIN history |->
                          IF n \in OverdueSerials THEN history[n] \cup {"closed", "timeout"}
                          ELSE history[n]]
         /\ serversCleanUp' = IF Servers = {} THEN serversCleanUp ELSE now + ServersInterval
    ELSE UNCHANGED <<queues, history, serversCleanUp>>

(* The iteration that finds the channel empty.                              *)
Idle ==
    /\ Running
    /\ channel = <<>>
    /\ CleanUpCache
    /\ CleanUpServers
    /\ UNCHANGED <<now, channel, query, ring, clientVars, stats, asked, wire, panicked>>

Tick ==
    /\ now < MaxTime
    /\ now' = now + 1
    /\ UNCHANGED <<channel, query, historyVars, clientVars, upstreamVars, cacheVars, panicked>>

Loop ==
    \/ \E n \in Serials : ProcessRequest(n)
    \/ DropEmptyRequest
    \/ ProcessResponse
    \/ Idle

Next == ReceiveQuery \/ ReceiveReply \/ ReceiveStray \/ Loop \/ Tick

Spec == Init /\ [][Next]_vars

(* The loop runs on and the clock does not stop; and the receiver does not  *)
(* refill the channel, each time it runs empty, before the loop looks.      *)
FairSpec == Spec /\ WF_vars(Loop) /\ SF_vars(Idle) /\ WF_vars(Tick)

-----------------------------------------------------------------------------
Replies ==
    UNION {{Response(s, id, k, records) :
               s \in Servers, id \in Slots, k \in {q, NoQuestion}, records \in Contents[q]} :
           q \in Questions}

Messages == {Request(n) : n \in Serials} \cup Replies \cup Strays

(* The values the code's types allow: of what the loop decides by, and of   *)
(* what it hands out.                                                       *)
LoopTypeOK ==
    /\ now \in Nat
    /\ channel \in Seq(Messages) /\ Len(channel) <= ChannelCap
    /\ query \in Seq([client : Clients, question : Questions])
    /\ DOMAIN history \subseteq 1 .. Len(query)
    /\ history \in [DOMAIN history -> SUBSET Flags]
    /\ replies \in [Serials -> Nat]
    /\ queues \in [Servers -> Queue(Serials)]
    /\ stats \in [Servers -> Stats]
    /\ serversCleanUp \in Nat /\ cacheCleanUp \in Nat
    /\ cache \in [Resources -> Nat]
    /\ asked \subseteq [serial : Serials, server : Servers, id : Slots]
    /\ wire \subseteq [server : Servers, id : Slots, question : Questions]
    /\ panicked \in BOOLEAN

TypeOK ==
    /\ LoopTypeOK
    /\ delivered \in [Serials -> SUBSET Resources]
    /\ ring \in Ring(Serials)

(* A client gets at most one answer to a query, whatever answers of which   *)
(* servers are late, repeated or out of order (server.go, processResponse). *)
AtMostOneReply == \A n \in Serials : replies[n] <= 1

(* The records sent to a client after asking an upstream server are an      *)
(* answer to its own question, even when the id of its request has stood    *)
(* for another question before (server.go:81, request.go Add).              *)
AnswerFitsQuestion ==
    \A n \in DOMAIN history :
        "recursion" \in history[n] =>
            \E records \in Contents[query[n].question] :
                delivered[n] \subseteq DOMAIN records

IsWaiting(a) ==
    LET f == queues[a.server].tree[a.id]
    IN  f # NoRequest /\ f.req = a.serial

(* The id of the request was given to a later one.                          *)
Reused(a) ==
    \E b \in asked : b.server = a.server /\ b.id = a.id /\ b.serial > a.serial

(* No request handed to a server is forgotten or closed twice: it waits, or *)
(* its entry says answered, or timed out, and never two of these; only of   *)
(* one whose id was handed out again nothing may be known (server.go,       *)
(* processResponse and loop; request.go).                                   *)
Accounted(a) ==
    LET fates == history[a.serial] \cap {"recursion", "timeout"}
    IN  IF IsWaiting(a) THEN fates = {}
        ELSE /\ fates # {} \/ Reused(a)
             /\ fates # {"recursion", "timeout"}

EveryRequestAccounted == \A a \in asked : Accounted(a)

(* The history tells what the client saw: exactly the queries that got an   *)
(* answer have one cause of an answer in their entry (requestHistory.go,    *)
(* server.go processRequest and processResponse).                           *)
HistoryTruthful ==
    \A n \in DOMAIN history :
        /\ Cardinality(history[n] \cap Answered) = replies[n]
        /\ "closed" \in history[n]
              <=> history[n] \cap (Answered \cup {"serverError", "timeout"}) # {}

(* The history lists the last requests in the order they came, each once,   *)
(* and misses only older ones, whatever the loop has done to their entries  *)
(* since (requestHistory.go, Add, at and Filter).                           *)
HistoryKeepsTheLast ==
    LET listed == Listed(ring)
    IN  /\ \A i, j \in DOMAIN listed : i < j => listed[i] < listed[j]
        /\ \A i \in DOMAIN listed : listed[i] \in DOMAIN history
        /\ \A n \in DOMAIN history :
              \/ \E i \in DOMAIN listed : listed[i] = n
              \/ Len(ring.list) = HistorySize /\ n < listed[1]

(* Neither lookup of the rule blocks the name, or the first one does.       *)
AgreedOn(name, client) ==
    (\E rule \in RulesOf[client] : Blocked(name, rule)) =>
        \A rule \in RequestRules(client) : Blocked(name, rule)

OwnRecords(name, records) ==
    {r \in DOMAIN records : r.owner = name /\ IsTypeSupported(r.type)}

(* A query that was let through and forwarded gets every record of its own   *)
(* name that the server answered, though the rule is looked up again when    *)
(* the answer comes (server.go:218 and :56), maybe that of another           *)
(* application: unless this one's blocks a name the first did not have to.   *)
LetThroughIsSent ==
    \A n \in DOMAIN history :
        LET q == query[n].question
        IN  "recursion" \in history[n] /\ AgreedOn(q.name, query[n].client) =>
                \E records \in Contents[q] : OwnRecords(q.name, records) \subseteq delivered[n]

WasAnswered(r) ==
    \E n \in DOMAIN history :
        /\ "recursion" \in history[n]
        /\ \E records \in Contents[query[n].question] : r \in DOMAIN records

(* Every record a client gets from the cache came in an answer that settled  *)
(* a request, its own or that of another: what was ignored, because it was   *)
(* late, came again, answered another question or was nobody's, does not     *)
(* reach a client through the cache it shares with all the others            *)
(* (server.go:80-91 and :245).                                              *)
CacheRestsOnAnswers ==
    \A n \in DOMAIN history :
        "cache" \in history[n] => \A r \in delivered[n] : WasAnswered(r)

(* The figures of a server agree with the history: as many replies as       *)
(* queries of that server were answered, so never more than were sent       *)
(* (udp.go, IncReplyCount and SpeedScore).                                  *)
FiguresAgree ==
    \A s \in Servers :
        /\ stats[s].queriesCount = Cardinality({a \in asked : a.server = s})
        /\ stats[s].repliesCount =
              Cardinality({a \in asked : a.server = s /\ "recursion" \in history[a.serial]})

(* An entry that was closed is never touched again, but for the entry of a  *)
(* request whose write failed, which is still in its queue (server.go:137-139 *)
(* and :262-264).                                                           *)
ClosedIsFinal ==
    [][\A n \in DOMAIN history :
          "closed" \in history[n] =>
              \/ history'[n] = history[n]
              \/ "serverError" \in history[n]]_vars

(* A request whose time runs out within the modelled time is closed in the  *)
(* end, or its id is given away, if the channel runs empty again and again  *)
(* (server.go, loop; request.go, Add).                                      *)
WaitsForServer(n) ==
    \E a \in asked :
        /\ a.serial = n
        /\ IsWaiting(a)
        /\ queues[a.server].tree[a.id].expireDate + ServersInterval <= MaxTime

IsClosed(n) == n \in DOMAIN history /\ "closed" \in history[n]

IsDisplaced(n) == \E a \in asked : a.serial = n /\ Reused(a)

ForwardedIsClosed ==
    []<>(channel = <<>>) =>
        \A n \in Serials : WaitsForServer(n) ~> (IsClosed(n) \/ IsDisplaced(n))

(* A query is dropped for want of a server only when every server has been   *)
(* slower than a second on average: one that is new, has yet to answer or    *)
(* has lost answers is still asked (udp.go:36-48 and SelectBest).            *)
OnlySlowServersRefuse ==
    [][\A n \in DOMAIN history' \ DOMAIN history :
          "serverError" \in history'[n] =>
              \/ \E a \in asked' : a.serial = n
              \/ \A s \in Servers : stats[s].responseTime > 1000]_vars

(* A response that is not the answer to a waiting request is an "unknown    *)
(* message" (server.go:91) that changes nothing.                            *)
NeverPanics == ~panicked
=============================================================================
