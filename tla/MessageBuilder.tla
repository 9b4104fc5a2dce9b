--------------------------- MODULE MessageBuilder ---------------------------
(***************************************************************************)
(* Builder of dns/dnsmessage/dnsmessage.go, as operators on a value         *)
(*                                                                         *)
(*     [msg, start, compress, suffixes |-> see DomainNames,                 *)
(*      head    |-> [id, flags], see PackBits,                               *)
(*      section |-> the section under construction,                        *)
(*      counts  |-> how many items each section has,                       *)
(*      ok      |-> has the last call succeeded?]                          *)
(*                                                                         *)
(* and Message.AppendPack, which packs a message in one go.                 *)
(***************************************************************************)
EXTENDS WireFormat

CONSTANT MaxCount       \* the most items in a section, 2^16 - 1

ASSUME CountAssumption == MaxCount \in 0 .. 2^16 - 1

SectionHeader == 1
Questions     == 2
Answers       == 3
Authorities   == 4
Additionals   == 5
SectionDone   == 6

Sections == Questions .. Additionals
RecordSections == Answers .. Additionals

NoSuffixes == [s \in {} |-> 0]

(* The header is packed by Finish; until then its place is held by zeros.   *)
NewBuilder(buf, head) ==
    [msg |-> buf \o [i \in 1 .. HeaderLen |-> 0], start |-> Len(buf),
     compress |-> FALSE, suffixes |-> NoSuffixes, head |-> head,
     section |-> SectionHeader, counts |-> [s \in Sections |-> 0], ok |-> TRUE]

EnableCompression(b) == [b EXCEPT !.compress = TRUE, !.suffixes = NoSuffixes]

Refused(b) == [b EXCEPT !.ok = FALSE]

StartSection(b, section) ==
    IF b.section <= section THEN [b EXCEPT !.section = section, !.ok = TRUE] ELSE Refused(b)

(* What has been packed becomes the message if it can be counted.  If not,   *)
(* or if packing failed, the message is as before, but the map of suffixes   *)
(* is not: it is shared.                                                   *)
AddPacked(b, packed) ==
    IF packed.ok /\ b.counts[b.section] < MaxCount
    THEN [packed EXCEPT !.counts[b.section] = @ + 1]
    ELSE [b EXCEPT !.ok = FALSE, !.suffixes = packed.suffixes]

AddQuestion(b, q) ==
    IF b.section # Questions THEN Refused(b)
    ELSE AddPacked(b, PackQuestion([b EXCEPT !.ok = TRUE], q))

(* The methods for the types of records differ in the type only.            *)
AddResource(b, r) ==
    IF b.section \notin RecordSections THEN Refused(b)
    ELSE AddPacked(b, PackRecord([b EXCEPT !.ok = TRUE], r))

HeaderBytes(b) ==
    PackFields([b EXCEPT !.msg = <<>>, !.ok = TRUE], MessageHeader,
               <<b.head.id, PackBits(b.head.flags)>> \o [i \in 1 .. 4 |-> b.counts[Questions + i - 1]]).msg

Finish(b) ==
    [b EXCEPT !.section = SectionDone, !.ok = TRUE,
              !.msg = SubSeq(@, 1, b.start) \o HeaderBytes(b)
                      \o SubSeq(@, b.start + HeaderLen + 1, Len(@))]

-----------------------------------------------------------------------------
PackItem(out, section, item) ==
    IF ~out.ok THEN out
    ELSE IF section = Questions THEN PackQuestion(out, item) ELSE PackRecord(out, item)

Entries(section, items) == [j \in DOMAIN items |-> [section |-> section, item |-> items[j]]]

PackEntries(out, entries) ==
    LET packed[i \in 0 .. Len(entries)] ==
            IF i = 0 THEN out ELSE PackItem(packed[i - 1], entries[i].section, entries[i].item)
    IN  packed[Len(entries)]

PackSections(empty, items) ==
    PackEntries(empty, Entries(Questions, items[Questions]) \o Entries(Answers, items[Answers])
                       \o Entries(Authorities, items[Authorities])
                       \o Entries(Additionals, items[Additionals]))

WithHeader(out) == IF out.ok THEN Finish(out) ELSE out

(* Message.AppendPack to a buffer of a message [head, items], items being    *)
(* the sequences of its sections.                                          *)
AppendPack(buf, message) ==
    LET empty == [EnableCompression(NewBuilder(buf, message.head)) EXCEPT
                     !.counts = [s \in Sections |-> Len(message.items[s])]]
    IN  IF \E s \in Sections : Len(message.items[s]) > MaxCount THEN Refused(empty)
        ELSE WithHeader(PackSections(empty, message.items))
=============================================================================
