---------------------------- MODULE DomainNames -----------------------------
(***************************************************************************)
(* Domain names in messages, Name of dns/dnsmessage/dnsmessage.go: packing   *)
(* with compression, unpacking, skipping.  A message is a sequence of bytes, *)
(* its offsets count from 0 as in the code.  A name is the sequence of its   *)
(* labels and a label a sequence of bytes without the dot; every name ends   *)
(* in a dot, as NewName demands, which is left out here.                    *)
(*                                                                         *)
(* What packing works on is a record                                       *)
(*                                                                         *)
(*     [msg      |-> the bytes so far,                                     *)
(*      start    |-> compressionOff, where the message starts in them,      *)
(*      compress |-> is there a compression map?,                           *)
(*      suffixes |-> that map, from suffixes to offsets, see Suffix,         *)
(*      ok       |-> FALSE when packing has failed]                         *)
(*                                                                         *)
(* and what unpacking returns is Failure or a Found value.                  *)
(***************************************************************************)
EXTENDS SequencesExt, Integers

CONSTANTS
    MaxPointer,     \* the last offset a pointer can hold, 2^14 - 1
    MaxPointers     \* how many pointers unpacking follows, 10

ASSUME PointerAssumption == MaxPointer \in 0 .. 2^14 - 1 /\ MaxPointers \in Nat

MaxLabel == 63
MaxName == 255

(* The two high bits of a pointer, as a byte.                               *)
PointerMark == 192

At(msg, off) == msg[off + 1]
Slice(msg, off, n) == SubSeq(msg, off + 1, off + n)

Failure == [ok |-> FALSE]
Found(value, next) == [ok |-> TRUE, value |-> value, next |-> next]

(* The result of reading on, with what comes before it.                     *)
Before(item, rest) == IF rest.ok THEN [rest EXCEPT !.value = <<item>> \o @] ELSE rest

(* What has been read, with another end.                                    *)
EndingAt(found, next) == IF found.ok THEN [found EXCEPT !.next = next] ELSE Failure

Counted(bytes) == <<Len(bytes)>> \o bytes

(* The length of a name as text, with its dots.                             *)
TextLength(name) == IF name = <<>> THEN 1 ELSE Len(FlattenSeq(name)) + Len(name)

Bytes == Seq(0 .. 255)

(* What NewName makes of a text, if it is not too long.                     *)
Names == {name \in Seq(Bytes) : TextLength(name) <= MaxName}

Pack16(n) == <<(n \div 256) % 256, n % 256>>

Pointer(to) == <<PointerMark + to \div 256, to % 256>>

-----------------------------------------------------------------------------
(* Name.pack writes label after label up to a suffix it knows, then a       *)
(* pointer to that.  It learns the suffixes it has come by, also when it     *)
(* fails at a later label.                                                 *)
FirstOf(indexes, otherwise) ==
    IF indexes = {} THEN otherwise ELSE CHOOSE i \in indexes : \A j \in indexes : i <= j

PrefixLength(name, i) == Len(FlattenSeq([j \in 1 .. i - 1 |-> Counted(name[j])]))

(* The key of a suffix is the rest of an array of fixed length, so it tells   *)
(* where in its name the suffix begins, and only suffixes at the same place  *)
(* of their names are the same.                                            *)
Suffix(name, i) == [from |-> PrefixLength(name, i), labels |-> SubSeq(name, i, Len(name))]

(* A mutant of SuffixOffset: it counts from the start of the buffer.        *)
BufferOffset(out, name, i) == Len(out.msg) + PrefixLength(name, i)

(* Where in the message the i-th label of a name will be.                   *)
SuffixOffset(out, name, i) == Len(out.msg) + PrefixLength(name, i) - out.start

(* The suffixes that begin at the first labels of a name; one that starts    *)
(* too far from the start of the buffer is not kept.                        *)
NewSuffixes(out, name, labels) ==
    {Suffix(name, i) : i \in {j \in 1 .. labels :
        name[j] # <<>> /\ SuffixOffset(out, name, j) + out.start <= MaxPointer}}

Learn(out, name, labels) ==
    LET new == NewSuffixes(out, name, labels)
    IN  [s \in new \cup DOMAIN out.suffixes |->
            IF s \in new THEN SuffixOffset(out, name, Len(name) - Len(s.labels) + 1)
            ELSE out.suffixes[s]]

(* The first label with which a known suffix begins, the one after the last  *)
(* if there is none, and the first before it that cannot be written.        *)
FirstKnown(out, name, compress) ==
    FirstOf({i \in DOMAIN name : compress /\ name[i] # <<>> /\ Suffix(name, i) \in DOMAIN out.suffixes},
            Len(name) + 1)

FirstBad(name, stop) == FirstOf({i \in 1 .. stop - 1 : Len(name[i]) \notin 1 .. MaxLabel}, stop)

PackLabels(out, name, stop, learnt) ==
    [out EXCEPT
        !.suffixes = learnt,
        !.msg = @ \o FlattenSeq([i \in 1 .. stop - 1 |-> Counted(name[i])])
                  \o (IF stop <= Len(name) THEN Pointer(out.suffixes[Suffix(name, stop)]) ELSE <<0>>)]

PackUpTo(out, name, compress, stop, bad) ==
    IF bad < stop
    THEN [out EXCEPT !.ok = FALSE, !.suffixes = IF compress THEN Learn(out, name, bad) ELSE @]
    ELSE PackLabels(out, name, stop, IF compress THEN Learn(out, name, stop - 1) ELSE out.suffixes)

PackBefore(out, name, compress, stop) == PackUpTo(out, name, compress, stop, FirstBad(name, stop))

PackName(out, name, compress) == PackBefore(out, name, compress, FirstKnown(out, name, compress))

-----------------------------------------------------------------------------
(* unpackCompressed: the labels from an offset on, through pointers; next is *)
(* where the name ends at that offset, which is after the first pointer.     *)
LabelsFrom(msg, off, followed) ==
    LET from[at \in Nat \X (0 .. followed)] ==
            LET o == at[1]
                left == at[2]
                c == At(msg, o)
                to == (c - PointerMark) * 256 + At(msg, o + 1)
            IN  IF o >= Len(msg) THEN Failure
                ELSE IF c = 0 THEN Found(<<>>, o + 1)
                ELSE IF c <= MaxLabel
                THEN IF o + 1 + c > Len(msg) THEN Failure
                     ELSE Before(Slice(msg, o + 1, c), from[<<o + 1 + c, left>>])
                ELSE IF c >= PointerMark /\ o + 1 < Len(msg) /\ left > 0
                THEN EndingAt(from[<<to, left - 1>>], o + 2)
                ELSE Failure
    IN  from[<<off, followed>>]

(* A name that is not compressed takes no pointer at all.                   *)
ShortEnough(found) == IF found.ok /\ TextLength(found.value) > MaxName THEN Failure ELSE found

UnpackName(msg, off, allowCompression) ==
    ShortEnough(LabelsFrom(msg, off, IF allowCompression THEN MaxPointers ELSE 0))

(* A mutant of SkipName: a pointer is taken for one byte.                  *)
SkipNameShort(msg, off) ==
    LET from[o \in Nat] ==
            IF o >= Len(msg) THEN Failure
            ELSE LET c == At(msg, o)
                 IN  IF c = 0 \/ c >= PointerMark THEN Found(<<>>, o + 1) ELSE from[o + 1 + c]
    IN  from[off]

(* skipName: the second byte of a pointer is not looked for.                *)
SkipName(msg, off) ==
    LET from[o \in Nat] ==
            LET c == At(msg, o)
            IN  IF o >= Len(msg) THEN Failure
                ELSE IF c = 0 THEN Found(<<>>, o + 1)
                ELSE IF c <= MaxLabel
                THEN IF o + 1 + c > Len(msg) THEN Failure ELSE from[o + 1 + c]
                ELSE IF c >= PointerMark THEN Found(<<>>, o + 2)
                ELSE Failure
    IN  from[off]
=============================================================================
