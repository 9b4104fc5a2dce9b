----------------------------- MODULE WireFormat -----------------------------
(***************************************************************************)
(* Headers, questions and records on the wire, dns/dnsmessage/dnsmessage.go. *)
(* A structure is a sequence of values and its layout a sequence of kinds:   *)
(*                                                                         *)
(*     "uint16"   a number               "name"     a compressed name      *)
(*     "uint32"   the halves of a number "plain"    a name not compressed  *)
(*     "ip4", "ip6"  bytes               "texts"    counted strings        *)
(*     "options"  [code, data] pairs     "bytes"    the rest of a body     *)
(***************************************************************************)
EXTENDS DomainNames

CONSTANT MaxLength      \* the greatest length of a body, 2^16 - 1

ASSUME LengthAssumption == MaxLength \in 0 .. 2^16 - 1

(* The types of records, as numbered in messages.                           *)
TypeA == 1
TypeNS == 2
TypeCNAME == 5
TypeSOA == 6
TypePTR == 12
TypeMX == 15
TypeTXT == 16
TypeAAAA == 28
TypeSRV == 33
TypeOPT == 41

MessageHeader  == <<"uint16", "uint16", "uint16", "uint16", "uint16", "uint16">>
QuestionFields == <<"name", "uint16", "uint16">>
RecordHeader   == <<"name", "uint16", "uint16", "uint32", "uint16">>

HeaderLen == 12

AliasFields == <<"name">>
MXFields    == <<"uint16", "name">>
SOAFields   == <<"name", "name", "uint32", "uint32", "uint32", "uint32", "uint32">>
SRVFields   == <<"uint16", "uint16", "uint16", "plain">>

(* The layout of the body of a record.                                      *)
BodyFields(type) ==
    CASE type \in {TypeCNAME, TypeNS, TypePTR} -> AliasFields
      [] type = TypeMX   -> MXFields
      [] type = TypeSOA  -> SOAFields
      [] type = TypeTXT  -> <<"texts">>
      [] type = TypeSRV  -> SRVFields
      [] type = TypeA    -> <<"ip4">>
      [] type = TypeAAAA -> <<"ip6">>
      [] type = TypeOPT  -> <<"options">>
      [] OTHER           -> <<"bytes">>

-----------------------------------------------------------------------------
(* The values of a field, and of a structure.                               *)
Words == 0 .. 2^16 - 1

FieldValues(kind) ==
    CASE kind = "uint16"  -> Words
      [] kind = "uint32"  -> Words \X Words
      [] kind \in {"name", "plain"} -> Names
      [] kind = "texts"   -> Seq(Bytes)
      [] kind = "options" -> Seq([code : Words, data : Bytes])
      [] kind = "ip4"     -> {b \in Bytes : Len(b) = 4}
      [] kind = "ip6"     -> {b \in Bytes : Len(b) = 16}
      [] OTHER            -> Bytes

FitsLayout(values, layout) ==
    /\ values = [i \in 1 .. Len(layout) |-> values[i]]
    /\ \A i \in 1 .. Len(layout) : values[i] \in FieldValues(layout[i])

-----------------------------------------------------------------------------
(* The header of a message: numbers of 4 bits and flags, as bits.            *)
HeaderFlags ==
    [response : BOOLEAN, opCode : 0 .. 15, authoritative : BOOLEAN, truncated : BOOLEAN,
     recursionDesired : BOOLEAN, recursionAvailable : BOOLEAN, rCode : 0 .. 15]

MessageHeads == [id : Words, flags : HeaderFlags]

Flag(isSet, bit) == IF isSet THEN bit ELSE 0
IsSet(bits, bit) == (bits \div bit) % 2 = 1

PackBits(h) ==
    h.opCode * 2^11 + h.rCode + Flag(h.response, 2^15) + Flag(h.authoritative, 2^10)
    + Flag(h.truncated, 2^9) + Flag(h.recursionDesired, 2^8) + Flag(h.recursionAvailable, 2^7)

UnpackBits(bits) ==
    [response |-> IsSet(bits, 2^15), opCode |-> (bits \div 2^11) % 16,
     authoritative |-> IsSet(bits, 2^10), truncated |-> IsSet(bits, 2^9),
     recursionDesired |-> IsSet(bits, 2^8), recursionAvailable |-> IsSet(bits, 2^7),
     rCode |-> bits % 16]

-----------------------------------------------------------------------------
Emit(out, bytes) == [out EXCEPT !.msg = @ \o bytes]

PackTexts(out, texts) ==
    IF \E i \in DOMAIN texts : Len(texts[i]) > 255 THEN [out EXCEPT !.ok = FALSE]
    ELSE Emit(out, FlattenSeq([i \in DOMAIN texts |-> Counted(texts[i])]))

PackOptions(out, options) ==
    Emit(out, FlattenSeq([i \in DOMAIN options |->
                             Pack16(options[i].code) \o Pack16(Len(options[i].data)) \o options[i].data]))

PackField(out, kind, value) ==
    CASE kind = "uint16"  -> Emit(out, Pack16(value))
      [] kind = "uint32"  -> Emit(out, Pack16(value[1]) \o Pack16(value[2]))
      [] kind \in {"name", "plain"} -> PackName(out, value, out.compress /\ kind = "name")
      [] kind = "texts"   -> PackTexts(out, value)
      [] kind = "options" -> PackOptions(out, value)
      [] OTHER            -> Emit(out, value)

PackNext(out, kind, value) == IF out.ok THEN PackField(out, kind, value) ELSE out

PackFields(out, layout, values) ==
    LET packed[i \in 0 .. Len(layout)] ==
            IF i = 0 THEN out ELSE PackNext(packed[i - 1], layout[i], values[i])
    IN  packed[Len(layout)]

PackQuestion(out, q) == PackFields(out, QuestionFields, q)

(* A mutant of BodyLength: the bytes of the length are counted in.         *)
BodyLengthAndField(head, body) == Len(body.msg) - Len(head.msg) + 2

BodyLength(head, body) == Len(body.msg) - Len(head.msg)

FillIn(msg, before, bytes) ==
    [i \in DOMAIN msg |-> IF i - before \in DOMAIN bytes THEN bytes[i - before] ELSE msg[i]]

FixLength(head, body) ==
    IF ~body.ok \/ BodyLength(head, body) > MaxLength THEN [body EXCEPT !.ok = FALSE]
    ELSE [body EXCEPT !.msg = FillIn(@, Len(head.msg) - 2, Pack16(BodyLength(head, body)))]

PackBody(head, r) == FixLength(head, PackFields(head, BodyFields(r.type), r.body))

(* A record: its header with a length to be filled in, its body, and then    *)
(* the length of that.                                                     *)
PackRecord(out, r) ==
    PackBody(PackFields(out, RecordHeader, <<r.name, r.type, r.class, r.ttl, 0>>), r)

-----------------------------------------------------------------------------
Unpack16(msg, off) == At(msg, off) * 256 + At(msg, off + 1)

(* A mutant of UnpackBytes: it takes what is there.                        *)
UnpackBytesThere(msg, off, n) ==
    Found(SubSeq(msg, off + 1, IF off + n > Len(msg) THEN Len(msg) ELSE off + n), off + n)

UnpackBytes(msg, off, n) ==
    IF off + n > Len(msg) THEN Failure ELSE Found(Slice(msg, off, n), off + n)

(* Strings until they fill the length; one that goes beyond it is an error. *)
UnpackTexts(msg, off, length) ==
    LET from[o \in Nat] ==
            LET n == At(msg, o)
                next == o + 1 + n
            IN  IF o = off + length THEN Found(<<>>, o)
                ELSE IF o >= Len(msg) THEN Failure
                ELSE IF next > Len(msg) \/ next > off + length THEN Failure
                ELSE Before(Slice(msg, o + 1, n), from[next])
    IN  from[off]

(* Options until the length is reached; the last may go beyond it.          *)
UnpackOptions(msg, off, length) ==
    LET from[o \in Nat] ==
            LET n == Unpack16(msg, o + 2)
                next == o + 4 + n
            IN  IF o >= off + length THEN Found(<<>>, o)
                ELSE IF o + 4 > Len(msg) THEN Failure
                ELSE IF next > Len(msg) THEN Failure
                ELSE Before([code |-> Unpack16(msg, o), data |-> Slice(msg, o + 4, n)], from[next])
    IN  from[off]

(* The bytes a field of a fixed size takes, or the rest of a body.          *)
SizeOf(kind, length) ==
    CASE kind = "ip4" -> 4 [] kind = "ip6" -> 16 [] OTHER -> length

UnpackField(msg, off, kind, length) ==
    CASE kind = "uint16"  -> IF off + 2 > Len(msg) THEN Failure ELSE Found(Unpack16(msg, off), off + 2)
      [] kind = "uint32"  -> IF off + 4 > Len(msg) THEN Failure
                             ELSE Found(<<Unpack16(msg, off), Unpack16(msg, off + 2)>>, off + 4)
      [] kind \in {"name", "plain"} -> UnpackName(msg, off, kind = "name")
      [] kind = "texts"   -> UnpackTexts(msg, off, length)
      [] kind = "options" -> UnpackOptions(msg, off, length)
      [] OTHER            -> UnpackBytes(msg, off, SizeOf(kind, length))

After(found, field) ==
    IF field.ok THEN Found(Append(found.value, field.value), field.next) ELSE Failure

UnpackNext(msg, found, kind, length) ==
    IF found.ok THEN After(found, UnpackField(msg, found.next, kind, length)) ELSE found

UnpackFields(msg, off, layout, length) ==
    LET fields[i \in 0 .. Len(layout)] ==
            IF i = 0 THEN Found(<<>>, off) ELSE UnpackNext(msg, fields[i - 1], layout[i], length)
    IN  fields[Len(layout)]

AsHeader(found) ==
    IF ~found.ok THEN Failure
    ELSE Found([name |-> found.value[1], type |-> found.value[2], class |-> found.value[3],
                ttl |-> found.value[4], length |-> found.value[5]], found.next)

UnpackRecordHeader(msg, off) == AsHeader(UnpackFields(msg, off, RecordHeader, 0))

(* A body ends where the length in its header says, whatever its fields take. *)
UnpackBody(msg, off, head) ==
    EndingAt(UnpackFields(msg, off, BodyFields(head.type), head.length), off + head.length)

SkipTo(msg, next) == IF next <= Len(msg) THEN Found(<<>>, next) ELSE Failure

PastType(msg, name) == IF name.ok THEN SkipTo(msg, name.next + 4) ELSE Failure

SkipQuestionAt(msg, off) == PastType(msg, SkipName(msg, off))

PastBody(msg, name) ==
    IF name.ok /\ name.next + 10 <= Len(msg)
    THEN SkipTo(msg, name.next + 10 + Unpack16(msg, name.next + 8)) ELSE Failure

(* skipResource of a record whose header has not been read.                 *)
SkipRecord(msg, off) == PastBody(msg, SkipName(msg, off))
=============================================================================
