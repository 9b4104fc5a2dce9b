---------------------------- MODULE MessageCodec ----------------------------
(***************************************************************************)
(* A message on its way: built call by call, sent, perhaps cut short by the *)
(* buffer it is received in, and taken apart call by call.                  *)
(***************************************************************************)
EXTENDS MessageParser

CONSTANTS
    Headers,        \* the headers [id, flags]
    Buffers,        \* what may be in the buffer before the message
    QuestionItems,  \* the questions that are added, see QuestionFields
    RecordItems,    \* the records [name, type, class, ttl, body]
    MaxItems,       \* bound on the items of a message
    Cuts            \* how many bytes may be lost at the end

(* The labels a name may have, for a chain of pointers from suffix to        *)
(* suffix that unpacking will follow.                                       *)
NamesOfRecord(r) ==
    {r.name} \cup {r.body[i] : i \in {j \in DOMAIN r.body : BodyFields(r.type)[j] \in {"name", "plain"}}}

ASSUME ReachAssumption ==
    \A name \in {q[1] : q \in QuestionItems} \cup UNION {NamesOfRecord(r) : r \in RecordItems} :
        Len(name) <= MaxPointers

ASSUME InputAssumption ==
    /\ Headers \subseteq MessageHeads /\ Buffers \subseteq Bytes /\ Cuts \subseteq Nat
    /\ \A q \in QuestionItems : FitsLayout(q, QuestionFields)
    /\ \A r \in RecordItems :
          /\ r = [name |-> r.name, type |-> r.type, class |-> r.class, ttl |-> r.ttl, body |-> r.body]
          /\ FitsLayout(<<r.name, r.type, r.class, r.ttl, 0>>, RecordHeader)
          /\ FitsLayout(r.body, BodyFields(r.type))

VARIABLES
    builder,
    parser,
    built,      \* not in the program: the items added, [section, item]
    stale,      \* not in the program: has a call of the builder that failed
                \* left suffixes in its map?
    read        \* not in the program: the items taken, [section, how, item],
                \* with the section the parser was in

vars == <<builder, parser, built, stale, read>>

Init ==
    /\ \E buf \in Buffers, head \in Headers : builder = NewBuilder(buf, head)
    /\ parser = NewParser
    /\ built = <<>>
    /\ stale = FALSE
    /\ read = <<>>

-----------------------------------------------------------------------------
Building == builder.section # SectionDone

(* A call of the builder that gives b, and adds items if it succeeds.       *)
Call(b, items) ==
    /\ Building
    /\ builder' = [b EXCEPT !.ok = TRUE]
    /\ built' = IF b.ok THEN built \o items ELSE built
    /\ stale' = IF b.ok THEN stale ELSE (stale \/ b.suffixes # builder.suffixes)
    /\ UNCHANGED <<parser, read>>

Compress == ~builder.compress /\ Call(EnableCompression(builder), <<>>)

Start(section) == Call(StartSection(builder, section), <<>>)

Entry(item) == <<[section |-> builder.section, item |-> item]>>

(* A message has few items, but a section may be tried beyond its limit.    *)
HasRoom ==
    \/ Len(built) < MaxItems
    \/ builder.section \in Sections /\ builder.counts[builder.section] = MaxCount

BuildQuestion(q) == HasRoom /\ Call(AddQuestion(builder, q), Entry(q))
BuildResource(r) == HasRoom /\ Call(AddResource(builder, r), Entry(r))

(* The message without what stood before it in the buffer, a whole or cut   *)
(* short.                                                                  *)
Message == SubSeq(builder.msg, builder.start + 1, Len(builder.msg))

FinishMessage == Call(Finish(builder), <<>>)

Arrive(lost) ==
    /\ ~Building
    /\ parser.msg = <<>>
    /\ lost < Len(Message)
    /\ parser' = StartParser(SubSeq(Message, 1, Len(Message) - lost))
    /\ UNCHANGED <<builder, built, stale, read>>

-----------------------------------------------------------------------------
Parsing == parser.msg # <<>> /\ parser.err # "bad"

(* A call of the parser that gives p.  Its caller gives up at the first      *)
(* error that says the message is bad.                                      *)
Take(how, p) ==
    /\ Parsing
    /\ parser' = IF p.err = "bad" THEN p ELSE [p EXCEPT !.err = "none", !.item = NoItem]
    /\ read' = IF p.index = parser.index + 1
               THEN Append(read, [section |-> parser.section, how |-> how, item |-> p.item])
               ELSE read
    /\ UNCHANGED <<builder, built, stale>>

TakeQuestion == Take("read", ReadQuestion(parser))
PassQuestion == Take("skip", SkipQuestion(parser))

TakeHeader(section)   == Take("read", ReadHeader(parser, section))
TakeResource(section) == Take("read", ReadResource(parser, section))
PassResource(section) == Take("skip", SkipResource(parser, section))

TakeBody(type) == Take("read", ReadBody(parser, type))
TakeUnknown    == Take("bytes", ReadUnknown(parser))

Next ==
    \/ Compress
    \/ \E section \in Sections : Start(section)
    \/ \E q \in QuestionItems : BuildQuestion(q)
    \/ \E r \in RecordItems : BuildResource(r)
    \/ FinishMessage
    \/ \E lost \in Cuts : Arrive(lost)
    \/ TakeQuestion \/ PassQuestion
    \/ \E section \in RecordSections :
          TakeHeader(section) \/ TakeResource(section) \/ PassResource(section)
    \/ \E type \in {r.type : r \in RecordItems} : TakeBody(type)
    \/ TakeUnknown

Spec == Init /\ [][Next]_vars

-----------------------------------------------------------------------------
(* The items of a section, in the order they were added.                    *)
Items(section) ==
    LET first[i \in 0 .. Len(built)] ==
            IF i = 0 THEN <<>>
            ELSE IF built[i].section = section THEN Append(first[i - 1], built[i].item)
            ELSE first[i - 1]
    IN  first[Len(built)]

Original == [head |-> builder.head, items |-> [s \in Sections |-> Items(s)]]

IsWhole == parser.msg = Message

(* What was added comes out again, in order and in its section, whether the  *)
(* caller reads or skips items, and nothing else does; the parser gets from  *)
(* section to section exactly after the last item, without an error         *)
(* (dnsmessage.go, Builder and Parser).                                     *)
ReadsWhatWasBuilt ==
    parser.msg # <<>> /\ IsWhole /\ ~stale =>
        /\ parser.err # "bad"
        /\ Len(read) <= Len(built)
        /\ \A i \in DOMAIN read :
              /\ read[i].section = built[i].section
              /\ read[i].how = "read" => read[i].item = built[i].item
        /\ Len(read) = Cardinality({i \in DOMAIN built : built[i].section < parser.section}) + parser.index

(* A message that is cut short anywhere is never taken for a whole one: what *)
(* a receive buffer drops is noticed (dnsmessage.go, Unpack; server.go:294). *)
CutIsNoticed ==
    ~Building /\ ~stale /\ parser.msg = <<>> =>
        \A n \in 1 .. Len(Message) - 1 : ~Unpack(SubSeq(Message, 1, n)).ok

(* Reading an item and skipping it lead to the same place, and fail on the   *)
(* same messages, header read before or not (dnsmessage.go, skipName,        *)
(* skipResource, unpackResourceBody).                                       *)
SkipsAsItReads ==
    LET SameOutcome(r, s) ==
            r.err = s.err /\ (r.err = "none" => [r EXCEPT !.item = NoItem] = [s EXCEPT !.header = r.header])
    IN  Parsing /\ ~stale /\ parser.section \in Sections =>
            SameOutcome(ReadItem(parser, parser.section), SkipItem(parser, parser.section))

(* Each suffix in the map stands in the message at its offset, though later   *)
(* names are cut off at pointers into earlier ones (dnsmessage.go:1196).     *)
SuffixesStandInMessage ==
    LET IsFound(found, name) == found.ok /\ found.value = name
    IN  ~stale => \A s \in DOMAIN builder.suffixes :
            IsFound(UnpackName(Message, builder.suffixes[s], TRUE), s.labels)

(* A message that is unpacked and packed again, as a forwarded answer is,    *)
(* means the same, however it was compressed before and wherever in a       *)
(* buffer it is put (dnsmessage.go, AppendPack).                            *)
RepackingKeepsIt ==
    LET IsOriginal(message) == message.ok /\ message.value = Original
        Repacked(out) == out.ok /\ IsOriginal(Unpack(out.msg))
    IN  ~Building /\ ~stale /\ parser.msg = <<>> =>
            /\ IsOriginal(Unpack(Message))
            /\ Repacked(AppendPack(<<>>, Original))
=============================================================================
