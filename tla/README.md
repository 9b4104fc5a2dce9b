# Specification of i04Dns

i04Dns is a DNS server in Go that answers clients on port 53 from a local
database, from a cache, or by forwarding their questions over UDP to upstream
servers, and that blocks names by filter lists, globally and per application.
This directory holds TLA+ modules translated from its source, TLC
configurations that check them on small instances, and proofs checked by TLAPS.

All paths below are relative to the repository's `src/`.

## 1. The system

| part | source | state | operations |
|---|---|---|---|
| server loop | `dns/server.go` | socket, context, cache, table of upstream servers, history; the channel `msgInput` (128) | `receiveUdpMessages`, `loop`, `processRequest`, `processResponse`, `forwardUdp`, `sendResponse`, `filterResources`, `IsNameAllowed` |
| life cycle | `dns/server.go`, `util/runningState.go` | flag `on` with a condition variable | `Run`, `Stop`, `OnConfigUpdate`; `SetOn`, `SetOff`, `SignalShutdownComplete`, `IsOn` |
| forward table | `dns/recursive/request.go` | `nextId`, tree from id to request | `Add`, `Get`, `Remove`, `RemoveExpired`, `Clear` |
| upstream servers | `dns/recursive/udp.go` | table of 16, `count`, `nextCleanUp`; per server an address, three counters and a forward table | `Setup`, `Clear`, `GetByAddress`, `SelectBest`, `RemoveExpiredFromQueues`; `IncQueryCount`, `IncReplyCount`, `SpeedScore` |
| record cache | `dns/cache/cache.go` | tree from name to a list of records with expiry | `AddAll`, `Get`, `RemoveExpired`, `Clear` |
| local database | `config/database.go` | tree from name to records | `Add`, `LookupAnswer` |
| history | `dns/history/requestHistory.go` | ring of entries with state flags | `Add`, `Filter` |
| filter lists | `config/filterList.go` | sorted lists of filters, by kind | `Compile`, `FindFilter` |
| application rules | `config/appList.go` | sorted list | `FindName` |
| configuration | `config/config.go`, `config/dns.go`, `common/common.go` | the current configuration | `Load`, `compile`, `LoadConfig`, `GetConfig` |
| red-black tree | `util/bst/redblacktree.go` | nodes | `Put`, `Get`, `Remove` |
| message codec | `dns/dnsmessage/dnsmessage.go` | parser and builder positions | `Parser`, `Builder`, `Name.pack`, `Name.unpack` |
| HTTP server | `http/server.go` | running flag, socket | `Run`, `Stop`, handlers |
| start-up | `main.go` | | `LoadConfig`, then the HTTP server on a goroutine and the DNS server |

### How the parts interact

`Run` opens the port, fills the table of upstream servers from the
configuration and starts two threads of control: the **receiver**, which reads a
packet, unpacks it and puts it in the channel (blocking while that is full), and
the **loop**, which takes one message at a time and answers, forwards or settles
it, and which cleans up when it finds the channel empty. Queues, figures and
cache are used by the loop only; the receiver shares nothing but the channel and
the running flag. `Stop`, called from any other goroutine, clears the flag and
waits on the condition variable until the deferred function of `Run` signals.

A query goes through a fixed order of decisions: type supported? in the local
database? blocked by name? in the cache? else forward. A forwarded query sits in
the table of its upstream server under a 16-bit id; an answer with that id, from
that server, with the same question, settles it. Every 2 seconds, when idle, the
loop closes what has waited more than 8 seconds.

### What is hard here

* Ids are handed out in a circle, with no look at whether the id is in use; answers
  come late, twice, never, or after their id has been given away.
* A write to an upstream server can fail after the request was queued.
* The sweep and the answers compete for the same requests; the sweep waits for the
  channel to be empty.
* The figures of upstream servers feed back into which one is asked, and can
  exclude all of them.
* Expiry is judged differently by lookups and by the clean-up; aliases are
  followed past their time and can form loops; a result array has a limit.
* One cache serves clients with different rules.
* The filter lists are compiled by a goroutine for every pair of filters, and filters
  are left out of the search because others stand for them.
* Deletion from the tree rotates and recolours through six cases.
* `Run` and `Stop` communicate through one flag with three meanings (running,
  asked to stop, stopped), and fields without a lock; the receiver takes no part in
  the shutdown and may outlive its run.
* A message is built into a buffer that may hold other bytes, with names that point
  into earlier ones; it may be refused, cut short, and is read by two sets of code,
  one that reads and one that skips.

`PROJECT.json` lists these under `hazards`, each at its line, with the property
that watches it.

### What makes each part correct

* forward table: a request stays under its id until it is settled, swept,
  cleared or displaced, exactly one of these; only the oldest is displaced.
* server: at most one answer per query; the answer fits the question; the history
  says what happened; figures agree with the history; what a query
  was let through for reaches its client, and what the shared cache hands out has answered
  a request; what is forwarded is closed in the end.
* cache: a lookup hands out all and only what is still granted; the clean-up cannot
  be noticed.
* life cycle: one loop at a time, with its own socket; `Stop` returns, and only when
  the loop is over; whatever was started settles.
* history: the last entries, in order, each once.
* codec: what is read is what was built, however it is read, from a whole message
  and never from a part of one.
* tree: it is the map its users take it for, and stays balanced through every
  sequence of calls.
* configuration: what is in force is all of a valid file; lookups in lists, rules and
  database find what the file says, whatever sorting and shadowing have done.

## 2. The modules

| module | models | rests on |
|---|---|---|
| `ForwardQueue` | the forward table as operators on a value | |
| `ForwardedRequests` | the table as a state machine, requests named by the number of their `Add` | `ForwardQueue` |
| `PendingRequests` | what the table promises, without ids: a set of requests with deadlines | |
| `ForwardedRequestsProofs` | the proofs | TLAPS |
| `UdpServer` | figures, score and selection of upstream servers | |
| `RecordCache` | the cache as operators on a function from records to expiry | |
| `Cache` | the cache as a state machine | `RecordCache` |
| `CacheProofs` | proofs about `Cache` | TLAPS |
| `NamePolicy` | `IsNameAllowed` | |
| `RequestHistory` | the ring of the history as operators on a value | |
| `DnsServer` | receiver, channel, loop, handlers and environment | `ForwardQueue`, `UdpServer`, `NamePolicy`, `RecordCache`, `RequestHistory` |
| `DnsServerProofs` | proofs about `DnsServer` | `CacheProofs`, TLAPS |
| `ServerTable` | the table of upstream servers: slots, count and mutex | |
| `Lifecycle` | `Run` and `Stop` as concurrent calls | `ServerTable` |
| `Receiver` | `Lifecycle` with the receiver of each run and the channel to its loop | `Lifecycle` |
| `LifecycleProofs` | proofs about `Receiver` | TLAPS |
| `DomainNames` | names in messages: compression, unpacking, skipping | |
| `WireFormat` | headers, questions and records of every type | `DomainNames` |
| `MessageBuilder`, `MessageParser` | `Builder` and `Message.Pack`; `Parser` and `Message.Unpack`, as operators on values | `WireFormat` |
| `MessageCodec` | a message built, sent, perhaps cut, and parsed, call by call | `MessageParser` |
| `MessageBuilderProofs` | proofs about `MessageCodec`: what the builder writes stands in the message | TLAPS |
| `MessageCodecProofs` | proofs about `MessageCodec`: what is written is what is read | `MessageBuilderProofs` |
| `RedBlackTree` | the tree under the forward table, the cache and the database, one step per round of the rebalancing | |
| `KeyMap` | what the tree promises: a map from keys to values | |
| `RedBlackTreeProofs` | proofs about `RedBlackTree` | TLAPS |
| `TextOrder`, `MergeSort` | the order of names and paths, and the merge sort of filters and rules | |
| `FilterList` | filters, their matching, shadowing and search | `TextOrder`, `MergeSort` |
| `AppRules` | the rules of applications | `TextOrder`, `MergeSort` |
| `LocalDatabase` | the records of the configuration and their lookup | |
| `Configuration` | `LoadConfig` with the goroutines of `Compile` | `FilterList`, `AppRules`, `LocalDatabase` |
| `ConfigurationProofs` | proofs about `Configuration` | TLAPS |
| `MC...` | instances for TLC | |

Definitions whose comment calls them a *mutant* of another are not part of any
specification: they are the same operation with a plausible mistake in it, and
serve to see that a property notices the mistake. `PROJECT.json` pairs them with
properties.

### Correspondence with the code

**ForwardQueue.** `tree` is a function from every id to a request or `NoRequest`;
a method is an operator, because each holds the mutex from beginning to end.
`MinId`, `MaxId` and `MaxForwardDelay` are constants (0x0100, 0xFFFF and 8 s).
`IdSpace` is `MaxId - MinId`: `Add` increments before use, so `MinId` is never
handed out.

**UdpServer.** The three `int32` fields are words of `2 * WordHalf` values. The
moving average is computed in `float32` by the code; for the delays that occur
(0 to 10000 ms) this gives the truncation of the exact value, which is what the
model computes. `SelectBest(stats)` is the set of possible results: the best, or in
one call of ten any.

**RecordCache, Cache.** A record is `[owner, type, target]`; the class, always IN,
and the body but for an alias's target are left out, and so is the order of a
list. `Resolve` is the recursive `getRecord`, `Filled` the number of array slots it
fills, so that the limit of 32 is visible (`GetPanics`).

**DnsServer.** One iteration of the loop is one step: it shares nothing with the
receiver but the channel. `processRequest` is `ProcessRequest(n)`, a disjunction of
its exits in the order of the code; `processResponse` has its three outcomes; the
iteration that finds the channel empty is `Idle`, with both clean-ups in it. A client
query is its serial number; `query[n]` says who asked what; `history[n]` is the
`State` of its entry as a set of flags; `replies` and `delivered` record what was
written to the socket of the client. `asked` and `wire` are not in the program: what
was ever put in a queue, and what was ever sent to an upstream server. An upstream
server may answer anything on the wire, at any time and any number of times; a
message that is lost is one that is never received. `Strays` are other packets:
queries without a question, responses from strangers.

**Lifecycle.** A step is what happens between two points where another goroutine
can come in: an access under the mutex of the flag or of the table, or an access to
an unprotected field. A nil context or a nil server in the table is a panic. The
mutex that `Setup` forgets on its error path is `table.locked`; a loop whose message needs
the table, or that finds the channel empty, is then `blocked` for ever, one whose message is
answered without it goes on.

**Receiver.** `rxPc[r]` is where the receiver of the run `r` stands between two looks at the
flag, the socket or the channel, `rxSocket[r]` its local variable, `pending[r]` how many
messages its channel holds. A step of `Run` is one of `Lifecycle`, and in it starts the
receiver (`StartsReceiver`) or takes a message (`TakesMessage`). A receiver reads whatever
socket it found: one that is closed gives errors, nil is a panic.

`overlapped` is not in the program: it says that some `Run` was called during a `Stop`,
or some `Stop` before an earlier call had settled (`Unsettled`).

**RequestHistory.** The slice and the index of its oldest entry; an index out of range is no
value at all, which TLC would report. `DnsServer` keeps serials in it, and what has become
of each in `history`.

**DomainNames, WireFormat.** A message is a sequence of bytes with offsets from 0; a name is
the sequence of its labels. The layout of each structure is a sequence of kinds of
fields (`SOAFields`, ...), and one operator each packs, unpacks and skips a sequence of
kinds, where the code has a function for every structure. The compression map is keyed, as
in the code, by the rest of the fixed array a name is in, so that two names share a
suffix only if it begins at the same place of both (`Suffix`).

**MessageBuilder, MessageParser.** A call is an operator on the value of the builder or the
parser; an error leaves the message as it was. What it does not leave as it was is
the compression map, which `AddPacked` shows.

**MessageCodec.** `built` and `read` are what went in and came out; `stale` says that a
refused call has left suffixes in the map, after which a `Builder` with compression writes
pointers to what is not there (see below). The program itself builds with `AppendPack`.

**RedBlackTree.** A node is named by its key; `tree` holds the root and the fields of
all nodes. `Remove` of a node with two children copies key and value of the predecessor
into it and unlinks the predecessor; named by keys, the two exchange places
(`ExchangeNames`). A call is several steps, `doing` says where it stands: one step per
call of `insertCase1` or `deleteCase1`, with the cases it leads to, and one for the
unlinking. The mutexes of the tree's users keep other calls away meanwhile. The walks
of `request.go` and `cache.go` over the tree are `InOrder`.

**Configuration.** A text is a sequence of bytes, because matching looks at them. A
file is a record of what `compile` distinguishes: one outcome for the sections Http
and Dns, a Boolean for each server address, and the lists as they are. `stage` is where
`LoadConfig` stands, `built` what `compile` has made so far; `pairs` are the goroutines of
`Compile` still to run for one of the two global lists. The lists of applications are
compiled in one step, with the same operators. `Covers` is `verifyFilter` and decides by
the name a filter is called by, `Matches` is `matches` with its quirks: the first byte of
the suffix is not compared, and the middle words are searched from the first byte. A lookup in
the local database collects records in an array of `MaxCount` slots; one that collects more
is a panic (`LookupPanics`), about which nothing else is said.

### Abstractions

* Time passes in ticks of one second; one tick serves both clocks of the code.
* The three sections of a message are one set of records, and the rule that
  filters them is looked up once per answer rather than once per section.
* An error of `Pack` in `sendResponse`, which the code turns into a panic, is left
  out; so is the error in building a packet for an upstream server.
* Entries the ring has dropped stay in `history`, for the properties; the loop still writes
  to them through its requests, as in the code.
* `OnConfigUpdate` is modelled where the repository calls it, in `Run`.
* An iteration of the loop in `Receiver` takes one message or none and may or may not
  reach the upstream servers; what it does with the message is `DnsServer`'s concern.
* Numbers of 32 bits in records are pairs of 16-bit halves.

## 3. What is checked

| run | instance | result |
|---|---|---|
| `forward_table` | 3 ids (`MinId`..`MaxId` = 2..5), 5 adds, delay 1, clock to 4 | holds |
| `cache` | a chain of aliases that can close to a loop, overlapping replies, `MaxDepth` 3, clock to 4 | holds |
| `cache_limit` | a limit of 2 records, 3 records of one name | violated |
| `server_ids` | 2 upstream servers with 1 id each, 3 queries, channel 2, writes may fail, clock to 2, with fairness | holds |
| `server_policy` | 1 upstream server with 2 ids, two clients, one whose port changes between two applications with different rules, database, cache, strays, header-only answers, array limit 1, a history of 2 | holds |
| `header_only` | as `server_ids`, answers may lack the question | violated |
| `lifecycle` | 3 `Run`, 2 `Stop`, the receiver of one `Run` with a channel of 1, every overlap, port may fail, table of 5 | holds |
| `restart` | 2 `Run`, 1 `Stop`, table of 8 | violated |
| `red_black_tree` | 7 keys, 2 values, calls without end | holds |
| `configuration` | 1528 files, 2 loads; texts up to 3 bytes over two letters, and one of 4 | holds |
| `filter_names` | 9 files, with named filters and with chains of filters | violated |
| `codec` | up to 2 items of 1 question and 9 records of all layouts, whole or one byte short; pointers reach 60 bytes, bodies 29, sections 2 items | holds |

### The properties

*Forward table* (`forward_table`). `SlotsInOrder`: the request under an id is the one
whose `Add` returned that id. `OneFate`: waiting, settled and timed out exclude each
other. `OnlyOldestDisplaced`: an `Add` onto an id in use loses exactly the oldest
request. `ImplementsPending`: the table with its ids implements `PendingRequests`.

*Cache* (`cache`). `LookupIsFresh`: nothing past its time, nothing missing, and raising the
TTL to 5 costs at most 5 seconds. `AnswerFollowsAliases`: only records at the end of a
chain of cached aliases. `CleanUpInvisible`: a clean-up changes no lookup, but for records
due in this very second and names reached over an alias past its time.

*Server* (`server_ids`, `server_policy`). `AtMostOneReply`; `AnswerFitsQuestion`:
what a client gets after its query was forwarded answers its own question, though ids
are reused; `EveryRequestAccounted`: a request given to a server waits, or is
answered, or is timed out, unless its id was given away; `HistoryTruthful`;
`FiguresAgree`; `ClosedIsFinal`; `HistoryKeepsTheLast`: the ring lists the
last queries in order, each once, and misses only older ones; `OnlySlowServersRefuse`: a
query is dropped for want of a server only when every server takes over a second on average.
`LetThroughIsSent` relates the two lookups of a client's rule: the one of the request
(`RequestRules`: only for clients on this host) and the one of the answer (`RulesOf`: for
every client, by its port). A query that was let through and forwarded gets every record of
its own name that the server answered, whatever application owns the port by then, unless
that one's rule blocks the name and the first did not. In that case the code keeps these
records from the client; so it does for a client elsewhere whose port number is that of an
application here whose rule blocks the name. `CacheRestsOnAnswers`: what a client gets from the cache, which
all clients share, came in an answer that settled a request; nothing gets there from an
answer that was ignored. Records of names that a rule blocks are taken out of what is
sent by `Filtered`, as the last thing before sending; that this is so needs no property.

*Liveness* (`server_ids`). `ForwardedIsClosed`: a request that was forwarded is closed, or
its id given away, under the premise that the channel runs empty again and again.
Without it the property is false of the code: the sweep is in the branch taken when
the channel is empty.

*Life cycle* (`lifecycle`). `SingleLoopUnlessOverlapped`, `StopMeansStopped` and
`RunKeepsItsFields` hold as long as no `Run` comes during a `Stop` and no `Stop` while
a `Run` starts or has yet to broadcast; without `overlapped` all three are false of the
code (a `Run` that comes after `Stop` has cleared the flag and before the loop has seen
it starts a second loop). `RunKeepsItsFields` relates three goroutines: the receiver of a run
that serves reads the socket the run has opened, although it looks for it in a field that
other calls clear and set. `FlagHasOwner` holds under every overlap.

*Liveness* (`lifecycle`). `ServerSettles`: however the calls overlap, in the end every `Stop` has
returned and the flag is on, or every `Run` and every receiver has ended as well. It leaves out a
receiver that its loop has left with a full channel, which is never drained, a process that
has died, and the mutex that `Setup` keeps.

*Tree* (`red_black_tree`). `OrderedAndLinked`, `OneFlawWhereItStands` and `RoundsClimb` hold
between the rounds of a call: the tree has one flaw at most, where the rebalancing
stands, and the flaw climbs. `ImplementsMap`: the content changes in the first step of
`Put` and `Remove` and in no round after it. `LookupsAgree`: between calls, `Get`, `Floor`
and `Ceiling` find what is there, and the size is right.

*Configuration* (`configuration`). `FindsTheFirst`: in whatever order the goroutines run,
`FindFilter` returns what can be said from the file alone. `ShadowingLosesNothing`: if
filters are called by their patterns, a name that fits one of them is found, though
shadowed filters are no longer looked at, provided that filter, or one that covers it, is
covered by none. `RuleOfThePath`, `DatabaseAnswers` compare
lookups with the file. `OutcomeFitsFile`: all of a valid file, nothing of any other.

*Codec* (`codec`). `ReadsWhatWasBuilt`: whatever calls the builder has accepted and refused, and
however the parser reads and skips, what comes out is what went in, in its section and order, and
the parser moves to the next section exactly at its end. `SkipsAsItReads`: reading an item and
skipping it end at the same place or fail alike, on whole and on cut messages. `CutIsNoticed`: no
proper beginning of a message can be unpacked. `SuffixesStandInMessage`: every suffix in the
compression map stands where the map says. `RepackingKeepsIt`: a message unpacked and packed
again, as an answer that is passed on, still says the same, though its names are
compressed otherwise. All five hold while the compression map is not stale.

### Where the code and its own words disagree

* `header_only`: a response that does not fit is ignored as an "unknown message"
  (`dns/server.go:91`), but one without a question section is an index out of range.
* `cache_limit`: the test `rCount > maxCount` (`dns/cache/cache.go:172`, `:183`) comes
  after the write.
* `restart`: "clear" (`dns/recursive/udp.go:159`) does not reset `count`.
* `filter_names`: `verifyFilter` (`config/filterList.go:244`) asks whether the name a filter
  is called by, not its pattern, matches another filter. In `conf.json` the filters
  `*ytimg*` ("youtube image", :118) and `*ytstatic*` ("youtube", :122) so disappear behind
  `*youtube*`. Filters called by their patterns can be lost too, in a chain: `abaa*` is covered by
  `ab*b*` and that by `*b*b*`, so both disappear, but `*b*b*` does not match `abaa`. What
  `verifyFilter` decides of two filters is not transitive, because the middle words of a pattern are
  searched from the first byte on, and so may be found in its prefix.

More, without a run of their own. "No udp servers to forward to" (`dns/server.go:131`) is also
reported with servers configured, when the mean response time of all is over a second and their
scores, "from 0 to 999" by the comment at `dns/recursive/udp.go:36`, are negative; the client gets
no answer. `OnlySlowServersRefuse` says that this is the only case.

A call of `Builder` that fails leaves the suffixes of its names in the compression map, which
`dns/dnsmessage/dnsmessage.go:1196` describes as a mapping "to their starting index in msg";
they are not in `msg`. `SuffixesStandInMessage` without its premise `~stale` is violated.

A receiver looks at `srv.socket` when it first runs. If its run has been stopped and the next one has
turned the flag on again, but not yet opened the port, the receiver finds nil and the process
dies (`RxPanic`); this needs no overlap of calls, only a slow goroutine.

"Already running" (`dns/server.go:364`) lets a second
loop in while the first has not noticed that it was stopped; `SingleLoop`, the part of
`SingleLoopUnlessOverlapped` that says so, is violated as an invariant by itself. And the
wildcard `%` (`config/filterList.go:10`), used in `conf.json` as in `ns%.*`, never stands for a
digit when names are matched: `startsWith` and `endsWith` compare literally, and `find`
passes the text where `cmpChar` expects the filter.

### Bounds, and why they suffice

The properties of the table relate at most two requests that share an id, or a
request, its id and the one issued `IdSpace` calls later: five adds on three ids go
around the circle once and a half. In `server_ids` each server has a single id, so
the second query to it already reuses the id, and three queries are enough for a late
answer to the first to meet the third under a different or the same question. The
clock runs past a full delay plus a sweep interval. The channel holds two messages,
so an answer and a query can wait in either order while the sweep is due. The cache
instance has a chain longer than the depth limit allows and a loop. In the life cycle
a restart and a third call that comes in between need three calls of `Run`; a table
of five overflows at the third `Setup` of two servers. Receivers do not meet each other, so it is
enough to follow that of one run, which can be the first, the second or the third to come. A
channel of one message is full after one. A history of two entries wraps with the third query. `MaxAdds`, `MaxQueries` and
`MaxTime` bound counters that the code does not bound, and so does `MaxLoads`. With seven keys every
case of insertion and deletion occurs, on both sides. Lists of three filters have every relation
between a filter, one that shadows it and one that shadows that; lists of four are
there for the order of the goroutines. Databases of three entries make a chain of
aliases longer than a lookup follows, loops, and with `MaxCount` 2 a lookup that finds more than
its array takes. `WordHalf` is 2^20 in the
instances, far beyond their counts.

In `codec` two items are enough for a name that points into another, for a name whose suffix is
known at another place, for a full section and for a refused call between two that succeed; the
buffer holds two bytes before the message, so that the two ways to count offsets differ. The
limits of the format are lowered (`MaxPointer` 60 for 2^14 - 1, `MaxPointers` 3 for 10, `MaxLength` 29 and
`MaxCount` 2 for 2^16 - 1), so that names beyond the reach of pointers, bodies that are too long and
sections that are full occur. `CutIsNoticed` cuts at every byte; the parser runs call by call on
messages one byte short.

### Fairness

`FairSpec` of `DnsServer` assumes that the loop goes on (weak fairness of `Loop`, it is a
`for` over non-blocking branches), that the clock does not stop (weak fairness of
`Tick`) and strong fairness of `Idle`: each iteration samples `len(msgInput)`, and if the
channel is empty again and again some sample finds it so. `Receiver` assumes weak fairness
of every step of a call already made and of every receiver already started: goroutines are
scheduled, a read ends after its deadline of a second at the latest, and nobody holds the mutex
of the flag for long. Nothing forces a call to be made or a message to come.

## 4. What is proved

The proofs hold for every value of the constants, under the assumptions named in
the modules (ids are a range of naturals with at least two members, nil is not a
request, no question is not a question, and the like). TLC evaluates the same
assumptions on the instances.

`ForwardedRequestsProofs`: `TypeCorrect`, `SlotsStayInOrder`, `EveryRequestOneFate`,
`DisplacesOldest` and `Refinement`, all from one inductive invariant. `OneFate` is not
inductive by itself: that a new serial meets no fate twice needs that every serial in
the table or among the settled and timed-out has been issued, and that distinct ids
hold distinct serials; both follow from `SlotsInOrder`, which says which serial an id
must hold. The same formula gives `OnlyOldestDisplaced`, and, through it, the step of
the refinement in which `Add` displaces.

`DnsServerProofs`: `LoopTypeCorrect`, `AtMostOneAnswer` and `NoRequestForgotten`, for every
number of servers, clients, ids and queries, every configuration and every channel
capacity. `AtMostOneReply` is not inductive: that a second answer is not sent rests on the
request having left its queue with the first. The invariant `IInv` therefore says
that what waits in a queue was asked and is unanswered (`WaitingUnanswered`), that
a query the loop has not seen is unanswered (`UnseenUnanswered`), that a query is
given to one server at most, once (`AskedOnce`), and, because a query must not come
out of the channel twice, that queries pass the channel in the order of their
serials (`InOrder`). `EveryRequestAccounted` is carried along: each of the steps that
take a request from a queue gives it its one fate, and `Add` takes one out only by
giving its id away (`Reused`).

In its second part: `AnswersFit`, `LetThroughStays`, `HistoryTrue` and `ClosedStays`. The invariant
adds to `IInv` that what is on the wire and in the channel as an answer is content of the
question it repeats, and how the flags of an entry and the number of replies go
together while a request waits. That an answer fits, though ids are reused, then
rests on the comparison of questions and not on the ids. `LetThroughStays` needs besides
that whoever waits was let through by a rule of its request (`Judged`), which every
step keeps because `Forward` is the only way into a queue; the records themselves are
those of the question by `AnswersFit`'s argument.
`CacheIsEarned` has as its invariant that every record in the cache, not only one that
is sent, has answered a request (`CachedWasAnswered`): an answered entry stays answered, a
clean-up only takes records, and by the lemmas of `CacheProofs` a lookup finds only
what is cached.

In the same module: `HistoryComplete`, for every capacity of the ring, which is described by what
its entries are, oldest first; that a query enters it once and after the earlier ones is
`InOrder` again. `TypeCorrect` adds to `LoopTypeCorrect` the ring and what clients are sent, for
which the lemmas of `CacheProofs` say that a lookup finds records only. `FiguresHold` and
`OnlySlowOnesRefuse` are about the counters of the servers. That an answer counts once follows
from `EveryRequestAccounted` and `AskedOnce`; both have a condition, because the code counts in
int32: `FiguresHold` that fewer than 2^31 queries are received (`MaxQueries < WordHalf`),
`OnlySlowOnesRefuse` that fewer than 2147484 are, for `SpeedScore` multiplies the replies by a
thousand. Beyond that the score of a server that always answers turns negative, and the server is
only asked by chance: that is what the code does, and the hazard is listed.

`LifecycleProofs`: `FlagIsOwned`, `OneLoop`, `StopWaits` and `FieldsStay`, for any number of calls of
`Run` and `Stop`, any set of receivers and any table. `FlagHasOwner` needs no assumption on
overlaps. For the others the invariant says what is the case as long as calls have not
overlapped: at most one run is past `SetOn` and before the end of its deferred function,
the flag is on unless it is being stopped, context and socket are those of that run, and
a `Stop` that has gone on to reset has seen the flag off or been woken, when no
run was left.

`CacheProofs`: `CacheTypeCorrect`, `LookupsFresh`, `AnswersFollow` and
`CleanUpsUnseen`, for every set of records and replies and every depth of lookups, that is, all that the
run `cache` checks. The invariant `CacheAgrees` relates the cache to what replies have
granted: an entry that is there was granted last, and one that was granted and is not due is
there. The rest is about what lookups find, which is a function defined by recursion on
the number of names still to visit (`Visits`; `Chains` for the aliases followed). The
library's induction theorems cannot be used on it, so the induction is one on sets: the set of
depths at which the claim fails would have a least member, because `<` is well founded on the
naturals (`LeastNatural`, `UpToBound`). That the recursive definitions define functions at all is
shown in the same way (`VisitsExist`, `ChainsExist`). `MaxDepth` must be positive: a lookup that
visits nothing finds nothing.

`RedBlackTreeProofs`: `TypeCorrect`, `WalksInOrder`, `LookupsFind`, `AtMostOneFlaw`, `MapImplemented`
and `RebalancingClimbs`: the type and all that the run `red_black_tree` checks, for every finite set
of integers as keys. None of these properties is inductive, and most speak of a recursive walk, of
which a rotation changes every intermediate value. The invariant of `StandsAlways` instead
describes the tree node by node: there are functions `b` and `h` such that `b[n]` is the set of
nodes below `n`, `n` included, composed of those of its two children and divided by `n` in the
order of the keys, and `h[n]` is its black height, the same on both sides. Where the flaw of
the phase stands, the description makes the one exception that the phase allows:

| phase | the exception |
|---|---|
| `rest` | none, and the root is black |
| `insert` | the node just inserted or recoloured may be red below a red parent |
| `delete` | the subtree of `at` is one black node short; the doomed node counts as red and out of order |
| `unlink` | the doomed node, without a second child, counts as red and out of order |

The rest of the module is in three layers.

* What the recursive functions return. In a tree so described the size of `b[n]` is a rank along
  which `InOrder`, `BlackHeight`, `Lookup`, `Seat`, `Outermost` and `Nearest` recurse, and the number
  of nodes not below `n` is one for `Depth`, which goes up. `RankRecursion` shows that a recursive
  definition along a rank defines a function, and `RankInduction` proves what it returns; both
  are inductions on a set of naturals, as in `CacheProofs`, because the library's induction
  theorems take an operator.
* What each change does to `b` and `h`: the lemmas `...Shaped` and `...Fits` give the new `b`
  and `h` after painting, a rotation, the attachment of a leaf, the exchange of the doomed node
  with its predecessor, and the unlinking. `insertCase4` to `5` and `deleteCase2` to `6` are
  compositions of these.
* The steps: one lemma per action and side for the invariant, then the mapping to `KeyMap`
  (`PutAbsent` and `Remove` of a present key are the steps that change the map; the rounds that follow
  leave it as it is), and that `at` climbs.

The assumption is that keys are a finite set of integers and nil is not one of them: the comparators
in use order integers and strings totally, and a tree only ever holds finitely many keys.
That `Clear`, or a `Put` of a present key, finds the tree at rest is the mutex of its users.

`ConfigurationProofs`: `TypeCorrect`, `MadeOfTheFile`, `FirstIsFound`, `NothingIsLost`, `RuleIsFound`,
`AnswersAreGiven` and `OutcomeFits`, for every set of files, so for lists of patterns, names, paths and records of any
length over any bytes. What the goroutines of `Compile` do is the heart of it. `FindsTheFirst` is
not inductive: it speaks of a list that is finished. While goroutines run, the invariant says which
filters are marked, namely those that a pair which has run covers (`Verifying`). A
goroutine reads words and names only, which no goroutine writes, so one more that ends adds its
pair to those that have run (`VerifiedMarks`), and when none is left the marks are the same
whatever the order was. Around this the invariant says of each stage what the checks of the stages
behind it have found (`ChecksInv`), and that each part that is built is what the file makes of it
(`BuiltInv`); that alone gives `MadeOfTheFile` and `OutcomeFits`.

What the parts are is proved in layers:

* Recursion along a rank, as in `RedBlackTreeProofs`: the number of elements `Merge` still has to take,
  the length of the part `Sorted` sorts or `BinarySearch` looks at, the bytes `Words` still has to
  read, the last place of the set a fold runs over.
* `Lists(r, p, s, X, P)`: `r` lists the elements of `s` at the places `X`, each once, in the order `P`
  of the places, `p` being the places in the order of `r`. A sort of `s` by a weak order lists all
  places in that order with ties broken by place: the merge sort is a stable permutation
  (`MergesStably`, `ByNameSorts`, `ByPathSorts`). Places and not elements are ordered, since a
  file may give two filters one name.
* `Compile` sorts twice, by name and with the shadowed filters last. Both sorts are composed into
  one statement about the entries of the file: the first `usefulSize` filters are those of the
  entries that are enabled and covered by none before them, in the order of their names
  (`CompiledLists`). `FoundIsExpected` then compares the first that matches with the least name.
* What patterns mean. A text that fits a pattern goes along a path through it, which tells where in
  the text each byte of the pattern stands (`PathExists`). The words of a filter have no asterisk
  and no capital in them (`WordsAreCut`, `WordsArePlain`), so a word that stands in the pattern stands in
  the text, where the path says, and words in order stay in order (`WordCarried`, `OccursCarried`).
  `find` looks for each word at the first place behind the one before; `MatchesMeans` says that this
  succeeds if the words stand in that order anywhere. So a filter that matches a pattern matches
  what fits the pattern (`MatchCarried`), and if the first filter is hidden the one that hides it stands
  in for it (`CoverersMatch`). `matches` leaves out the first byte of the last word, and there the
  proof needs that the suffix of the filter that covers is the shorter one, which
  `isSuffixMoreGeneral` checks.
* Two rules with one path may both be in the file; `SearchFinds` says that one of them is found.
* `compileDatabase` folds over the entries and over the records of each; `Adds(new, db, R)` says that
  every name has in `new` what it has in `db` and what `R` gives it, and composes (`AddsBoth`). So the
  database of a file holds what the entries say, under each name (`FilledHolds`).
* A lookup recurses on the names still to follow and starts from the far end; the property collects
  the names going forward. `WayGoesOn` says that both are the same: as far from a name as one alias more
  is as far from the names its aliases lead to. `LookupFinds` follows by induction on the depth, with
  one level of the lookup as its step (`LevelHas`).

The assumptions: texts are sequences of bytes and nil is not one of them; the file that is
read is any value of the type that JSON decoding fills; the names that are looked up are texts; lower case and the reverse names are
functions on names.

`MessageBuilderProofs`: `SuffixesStand`, for every name, record, header and buffer. The property says of each suffix in
the map that it is read where the map points. That is not inductive, because what follows changes the message: `fixLen`
fills in a length in the middle of it, `Finish` the header, and a name may point to a suffix
that ends in a pointer to another. `Packing(out, holes)` therefore says that each suffix is read
in *every* message that agrees with `out` on the bytes packed so far, but for the holes, the places
that are filled in later; then nothing that is done to the bytes behind or in the holes can
matter (`AgreesLess`, `SuffixesKept`). `BuilderAlwaysStands` says that the builder is in this state, with its header as
the hole, after every call that did not leave suffixes of an item it threw away.

* `LaidNameIsRead`: labels that stand one behind the other, ended by a stop byte or by a pointer to
  something that is read, are read. Reading recurses on an offset and on the pointers left, and
  a pointer may lead forward in the message, so the rank of the recursion counts both
  (`ReadRankFalls`).
* `PackNameIs`: what the loop of `Name.pack` has written, up to the first suffix it knows, and what it
  has learnt on the way; `NameStands` is that this name is read, that all suffixes of the map are, and that
  what was packed before is unchanged.
* The same for a field of each kind, for the fields of a layout in turn (`FieldsStand`), for a
  record with its length filled in (`RecordStands`), and for every call of the builder.

`MessageCodecProofs`: `WhatIsBuiltIsRead` is `ReadsWhatWasBuilt` for all items and all calls of both sides. It needs an invariant
of each:

* `BuilderHolds` (`BuilderAlwaysHolds`, in `MessageBuilderProofs`): there are places `ends` in the message, and the i-th item added
  stands between `ends[i - 1]` and `ends[i]`. It stands there (`ItemStands`) when in every message that agrees up to
  its end, but for the header, reading it gives the item, skipping it gives its end, and so do the
  two halves, header and body, of reading a record. The items are in the order of their sections and the
  counts say where one section ends (`Ordered`), because the section of the builder only grows.
* `ParserHolds` (`ParserAlwaysHolds`): a parser of the message, whole or cut short, has for some k taken the
  first k items; k is the counts of the sections behind it plus its index, and its
  offset is `ends[k]`, or behind the header of the next item, which is then the one it has stored
  (`Follows`). It has met no error, or the message is cut. `CallGoes` is the step: whatever is
  called, and for whatever section, the parser stays, moves to the next section at the end of this
  one, takes item k + 1, or, where this item is cut off, finds it bad.

The fields are what it rests on: each kind of field is read from its bytes (`FieldsAreRead`,
`HeaderIsRead`, `BodyIsRead`) and skipped to its end (`RecordIsSkipped`); a name is one by
what `SuffixesStand` has shown of pointers.

The same invariant gives the two properties of cut messages. `CutMessagesAreNoticed` is
`CutIsNoticed`: wherever a message is cut, `Unpack` fails. `SkippingIsReading` is `SkipsAsItReads`:
reading and skipping share the place they end at and the error they fail with, from every parser that
can be reached. The argument is a comparison of two messages, one the beginning of the other
(`Begins`). What is read from the beginning is read from the whole with the same result,
and ends within the beginning (`SameRead`, shown for names, texts, options, fields, headers and
bodies). What the whole reads beyond the cut is therefore not read from the beginning at
all: the item is lost (`ItemLost`), read or skipped, and if its header is still there its
body is not (`BodyLost`). Skipping needs an argument of its own, for it looks at fewer bytes than
reading does, and could pass what reading refuses. What one call does is then one of three (`Outcome`),
which depends on the place of the item alone and not on how it is taken; `Unpack` takes item
after item by the recursion of `ReadAll`, and meets the lost one.

`RepackingMessagesKeepsThem` is `RepackingKeepsIt`: the message is unpacked to what was put in, and so is
the message `Message.AppendPack` makes of that. The first half is the argument above for a
whole message (`WholeUnpacks`); the flags of the header come back bit by bit (`FlagsComeBack`), and the items of
a section are a slice of all items (`ItemsAreOrdered`). For the second half the danger is that what had
room once has none when it is packed again, in a record whose length must fit into two
bytes, as names are compressed otherwise: the message may have been built with compression off, or
on only for its end, behind other bytes in the buffer. Packed again, everything is compressed from the start. `RepackHolds`
(`RepackAlwaysHolds`) says, call by call, that the items added so far can be packed again, and that the
message then keeps to the front of the one being built (`Trails`): it is not longer, and it knows every suffix
that one knows. A name is then cut off at the same label or before it, and takes no more bytes (`NameFollows`).
That its suffixes are still known needs one thing more: with a suffix the suffixes of it are known, as
long as the message is within the reach of a pointer (`Closed`); beyond that neither message learns
any.

Two assumptions: the values of questions and records fit their layouts (`InputAssumption`: what the Go types and
`NewName` admit), and a name has no more labels than pointers that may be followed
(`ReachAssumption`). The second is needed: a message that holds eleven names, each a label
longer than the one before it and ending in it, makes each point to the one before, and the code follows ten pointers.

### Only model-checked

Liveness under fairness (`ForwardedIsClosed`, `ServerSettles`), which is out of the
prover's reach. Every invariant and every action property of the passing runs is proved.

## 5. Not modelled

* The HTTP server (`http/server.go`): it echoes the path of a request, and keeps nothing
  but its listener. Nothing calls its `Stop`, which would wait for ever after a
  successful start.
* The process lookup of `util/portOwner.go` (the tables of the operating system; its result,
  which application owns a port, is `RulesOf`), `util/logger.go`, `util/utils.go`, JSON decoding,
  and `main.go`, which starts the two servers. The comparators of `util/comparator.go` are the
  order of the keys; only those for integers and strings are used.
* In the codec: the texts for debugging (`GoString`, `String`), `SetEDNS0` and the EDNS readings of
  a header, and the comparison of bodies, which the cache uses as equality of records.
* In `config/filterList.go`: `Remove`, which nothing calls. A configuration update while the
  loop runs (`LoadConfig` is called once, before).
* The date in `Filter` of the history; nothing calls it with one.

### What could come next

The figures of `UdpServer` alone over long runs, to the wrap of `repliesCount * 1000`.
