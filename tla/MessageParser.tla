---------------------------- MODULE MessageParser ---------------------------
(***************************************************************************)
(* Parser of dns/dnsmessage/dnsmessage.go, as operators on a value          *)
(*                                                                         *)
(*     [msg |-> the message, head, counts |-> what its header says,         *)
(*      section, off, index |-> the next item,                             *)
(*      hasHeader, header   |-> a record header that has been read, and     *)
(*                              whose body has not,                        *)
(*      err  |-> the error of the last call: "none", "not started",         *)
(*              "section done" or "bad",                                   *)
(*      item |-> what it returned]                                         *)
(***************************************************************************)
EXTENDS MessageBuilder

NoItem == <<>>

NoHeader == [name |-> <<>>, type |-> 0, class |-> 0, ttl |-> <<0, 0>>, length |-> 0]

NewParser ==
    [msg |-> <<>>, head |-> [id |-> 0, flags |-> UnpackBits(0)], counts |-> [s \in Sections |-> 0],
     section |-> 0, off |-> 0, index |-> 0, hasHeader |-> FALSE, header |-> NoHeader,
     err |-> "none", item |-> NoItem]

Started(msg, found) ==
    IF ~found.ok THEN [NewParser EXCEPT !.msg = msg, !.err = "bad"]
    ELSE [NewParser EXCEPT !.msg = msg, !.head = [id |-> found.value[1], flags |-> UnpackBits(found.value[2])],
                           !.counts = [s \in Sections |-> found.value[s + 1]],
                           !.section = Questions, !.off = found.next]

(* Start, of a message or what has arrived of it.                           *)
StartParser(msg) == Started(msg, UnpackFields(msg, 0, MessageHeader, 0))

Error(p, err) == [p EXCEPT !.err = err, !.item = NoItem]

(* Done with an item that ends at an offset.                                *)
Past(p, next, item) ==
    [p EXCEPT !.off = next, !.index = @ + 1, !.hasHeader = FALSE, !.err = "none", !.item = item]

(* A mutant of CheckAdvance: the index is kept for the next section.       *)
CheckAdvanceKeepingIndex(p, section) ==
    IF p.section < section THEN Error(p, "not started")
    ELSE IF p.section > section THEN Error(p, "section done")
    ELSE IF p.index = p.counts[section]
    THEN [Error(p, "section done") EXCEPT !.hasHeader = FALSE, !.section = @ + 1]
    ELSE [Error(p, "none") EXCEPT !.hasHeader = FALSE]

(* The call that finds a section at its end moves on to the next one.       *)
CheckAdvance(p, section) ==
    IF p.section < section THEN Error(p, "not started")
    ELSE IF p.section > section THEN Error(p, "section done")
    ELSE IF p.index = p.counts[section]
    THEN [Error(p, "section done") EXCEPT !.hasHeader = FALSE, !.index = 0, !.section = @ + 1]
    ELSE [Error(p, "none") EXCEPT !.hasHeader = FALSE]

(* The next item if the section has one and it could be read.               *)
Taken(p, found) ==
    IF p.err # "none" THEN p
    ELSE IF found.ok THEN Past(p, found.next, found.value) ELSE Error(p, "bad")

ReadQuestion(p) == Taken(CheckAdvance(p, Questions), UnpackFields(p.msg, p.off, QuestionFields, 0))
SkipQuestion(p) == Taken(CheckAdvance(p, Questions), SkipQuestionAt(p.msg, p.off))

HeaderTaken(p, found) ==
    IF p.err # "none" THEN p
    ELSE IF ~found.ok THEN Error(p, "bad")
    ELSE [p EXCEPT !.hasHeader = TRUE, !.header = found.value, !.off = found.next]

(* A header that has been read already is the answer for every section.     *)
ReadHeader(p, section) ==
    IF p.hasHeader THEN Error(p, "none")
    ELSE HeaderTaken(CheckAdvance(p, section), UnpackRecordHeader(p.msg, p.off))

(* The record whose header has been read, with its body.                    *)
WithBody(h, found) ==
    IF found.ok
    THEN Found([name |-> h.name, type |-> h.type, class |-> h.class, ttl |-> h.ttl,
                body |-> found.value], found.next)
    ELSE Failure

(* Parser.resource forgets the header it has read also if the body is bad.   *)
ReadRecord(p) ==
    [Taken(p, WithBody(p.header, UnpackBody(p.msg, p.off, p.header))) EXCEPT !.hasHeader = FALSE]

ReadResource(p, section) == ReadRecord(ReadHeader(p, section))

SkipResource(p, section) ==
    IF p.hasHeader THEN Taken(Error(p, "none"), SkipTo(p.msg, p.off + p.header.length))
    ELSE Taken(CheckAdvance(p, section), SkipRecord(p.msg, p.off))

(* CNAMEResource, AResource and so on, for records of their type.           *)
ReadBody(p, type) ==
    IF ~p.hasHeader \/ p.header.type # type THEN Error(p, "not started")
    ELSE Taken(p, WithBody(p.header, UnpackBody(p.msg, p.off, p.header)))

(* UnknownResource, for records of any type: the bytes of the body.         *)
ReadUnknown(p) ==
    IF ~p.hasHeader THEN Error(p, "not started")
    ELSE Taken(p, WithBody(p.header, UnpackBytes(p.msg, p.off, p.header.length)))

-----------------------------------------------------------------------------
ReadItem(p, section) == IF section = Questions THEN ReadQuestion(p) ELSE ReadResource(p, section)
SkipItem(p, section) == IF section = Questions THEN SkipQuestion(p) ELSE SkipResource(p, section)

ReadOn(items, p) ==
    [parser |-> p, items |-> IF p.err = "none" THEN Append(items, p.item) ELSE items]

(* AllQuestions, AllAnswers and so on: the items up to the end of a section. *)
ReadOneMore(r, section) ==
    IF r.parser.err = "none" THEN ReadOn(r.items, ReadItem(r.parser, section)) ELSE r

ReadAll(p, section) ==
    LET done[i \in 0 .. p.counts[section] + 1] ==
            IF i = 0 THEN [parser |-> [p EXCEPT !.err = "none"], items |-> <<>>]
            ELSE ReadOneMore(done[i - 1], section)
    IN  done[p.counts[section] + 1]

SectionRead(r, all) ==
    [ok |-> all.parser.err = "section done", parser |-> all.parser, items |-> Append(r.items, all.items)]

ReadSection(r, section) == IF r.ok THEN SectionRead(r, ReadAll(r.parser, section)) ELSE r

AsMessage(r) ==
    IF r.ok
    THEN Found([head |-> r.parser.head, items |-> [s \in Sections |-> r.items[s - 1]]], r.parser.off)
    ELSE Failure

UnpackSections(p) ==
    LET questions == ReadSection([ok |-> p.err = "none", parser |-> p, items |-> <<>>], Questions)
    IN  AsMessage(ReadSection(ReadSection(ReadSection(questions, Answers), Authorities), Additionals))

(* Message.Unpack: a message as in MessageBuilder, or Failure.              *)
Unpack(msg) == UnpackSections(StartParser(msg))
=============================================================================
