-------------------------- MODULE MessageCodecProofs ---------------------------
(***************************************************************************)
(* Theorems about messages that are sent and read, for all items and all    *)
(* calls: whoever reads a message finds there what was added to it.  A      *)
(* message that is cut short is noticed, reading and skipping notice it     *)
(* alike, and what is unpacked and packed again stays the same.             *)
(***************************************************************************)
EXTENDS MessageBuilderProofs

(* The numbers of the header of a message fit in sixteen bits.                 *)
LEMMA HeadNumbersFit ==
    ASSUME NEW b \in Outs, \A s \in Sections : b.counts[s] <= MaxCount
    PROVE  \A i \in 1 .. 6 : HeadNumbers(b)[i] \in Words
<1> DEFINE top == 2^16 - 1
<1>1. Words = 0 .. top /\ MaxCount \in 0 .. top
  BY CountAssumption DEF Words
<1>2. top \in Int
  OBVIOUS
<1> HIDE DEF top
<1>3. b.head \in MessageHeads /\ b.counts \in [Sections -> Nat]
  BY DEF Outs
<1>4. HeadNumbers(b)[1] \in Words /\ HeadNumbers(b)[2] \in Words
  BY <1>3, HeadNumbersAre, BitsArePacked DEF MessageHeads
<1>5. ASSUME NEW s \in Sections PROVE HeadNumbers(b)[s + 1] \in Words
  <2> DEFINE c == b.counts[s]
  <2>1. c \in Nat /\ c <= MaxCount /\ HeadNumbers(b)[s + 1] = c
    BY <1>3, HeadNumbersAre
  <2> HIDE DEF c
  <2>2. c \in 0 .. top
    BY <1>1, <1>2, <2>1
  <2> QED
    BY <1>1, <2>1, <2>2
<1>6. ASSUME NEW i \in 1 .. 6 PROVE HeadNumbers(b)[i] \in Words
  <2>1. CASE i = 1 \/ i = 2
    BY <1>4, <2>1
  <2>2. CASE ~ (i = 1 \/ i = 2)
    <3>1. PICK s \in Sections : s + 1 = i
      <4>1. i - 1 \in Sections /\ (i - 1) + 1 = i
        BY <2>2, SectionsAre
      <4> QED
        BY <4>1
    <3> QED
      BY <1>5, <3>1
  <2> QED
    BY <2>1, <2>2
<1> QED
  BY <1>6

(* The header of a finished message is read as it was packed.                  *)
BeginsLike(m, b) ==
    /\ m \in Bytes /\ 12 <= Len(m) /\ \A x \in 1 .. 12 : m[x] = b.msg[b.start + x]
    /\ HeaderLaid(b) /\ \A s \in Sections : b.counts[s] <= MaxCount

(* The six numbers of the header are read.                                  *)
LEMMA MessageHeaderIsRead ==
    ASSUME NEW b \in Outs, NEW m, BeginsLike(m, b)
    PROVE  UnpackFields(m, 0, MessageHeader, 0) = Found(Firsts(HeadNumbers(b), 6), 12)
<1> DEFINE n == 6
           layout == MessageHeader
           values == HeadNumbers(b)
           l == Len(m)
<1>1. n \in Nat /\ Len(layout) = n /\ \A i \in 1 .. n : layout[i] = "uint16"
  BY LayoutLengths DEF MessageHeader
<1>2. l \in Nat /\ 12 <= l
  BY LenProperties DEF Bytes, BeginsLike
<1>3. \A i \in 1 .. 6 : values[i] \in Words
  BY HeadNumbersFit DEF BeginsLike
<1>4. \A i \in 1 .. 6 : m[2 * i - 1] = Pack16(values[i])[1] /\ m[2 * i] = Pack16(values[i])[2]
  <2> TAKE i \in 1 .. 6
  <2>1. 2 * i - 1 \in 1 .. 12 /\ 2 * i \in 1 .. 12
    OBVIOUS
  <2> QED
    BY <2>1 DEF HeaderLaid, BeginsLike
<1> HIDE DEF n, layout, values, l
<1>5. PICK r : UnpackRun(m, 0, layout, 0, n, r) /\ UnpackFields(m, 0, layout, 0) = r[n]
  <2> DEFINE zero == 0
  <2> HIDE DEF zero
  <2>1. \E r : UnpackRun(m, zero, layout, zero, n, r) /\ UnpackFields(m, zero, layout, zero) = r[n]
    BY <1>1, UnpackFieldsIs
  <2> QED
    BY <2>1 DEF zero
<1>6. r[0] = Found(<<>>, 0) /\ \A i \in 1 .. n : r[i] = UnpackNext(m, r[i - 1], layout[i], 0)
  BY <1>5 DEF UnpackRun
<1> DEFINE S == {i \in 0 .. n : r[i] = Found(Firsts(values, i), 2 * i)}
<1>7. 0 \in S
  <2>1. Firsts(values, 0) = <<>>
    <3>1. 1 .. 0 = {}
      OBVIOUS
    <3> QED
      BY <3>1 DEF Firsts
  <2>2. 0 \in 0 .. n /\ 2 * 0 = 0
    BY DEF n
  <2> QED
    BY <1>6, <2>1, <2>2
<1>8. ASSUME NEW d \in 0 .. n - 1, d \in S PROVE d + 1 \in S
  <2>1. PICK i \in 1 .. n : /\ i = d + 1 /\ i - 1 = d /\ i \in 0 .. n /\ d \in Nat /\ i \in 1 .. 6
                            /\ 2 * d + 2 = 2 * i /\ 2 * d + 1 = 2 * i - 1 /\ 2 * i <= 12 /\ 2 * d \in Nat
    <3>1. /\ d + 1 \in 1 .. n /\ (d + 1) - 1 = d /\ d + 1 \in 0 .. n /\ d \in Nat /\ d + 1 \in 1 .. 6
          /\ 2 * d + 2 = 2 * (d + 1) /\ 2 * d + 1 = 2 * (d + 1) - 1 /\ 2 * (d + 1) <= 12 /\ 2 * d \in Nat
      BY DEF n
    <3> QED
      BY <3>1
  <2> DEFINE o == 2 * d
             next == 2 * i
             v == values[i]
             before == Firsts(values, d)
             field == UnpackField(m, o, "uint16", 0)
  <2>2. r[d] = Found(before, o) /\ r[i] = UnpackNext(m, r[d], "uint16", 0)
    BY <1>1, <1>6, <1>8, <2>1
  <2>3. v \in Words /\ o \in Nat /\ o + 2 = next /\ next <= l
    <3>1. next <= 12
      BY <2>1
    <3>2. next <= l
      <4> HIDE DEF next
      <4> QED
        BY <1>2, <2>1, <3>1 DEF next
    <3> QED
      BY <1>3, <2>1, <3>2
  <2>4. m[o + 1] = Pack16(v)[1] /\ m[o + 2] = Pack16(v)[2]
    BY <1>4, <2>1
  <2> HIDE DEF o, next, v, before, field
  <2>5. BytesLaid(m, o, Pack16(v), 2)
    <3>1. v \in Nat
      BY <2>3, WordsAre
    <3>2. Pack16(v) \in Bytes /\ Len(Pack16(v)) = 2
      BY <3>1, Pack16Properties
    <3>3. \A x \in 1 .. 2 : x = 1 \/ x = 2
      OBVIOUS
    <3> QED
      BY <2>3, <2>4, <3>2, <3>3 DEF BytesLaid, l, BeginsLike
  <2>6. o + 2 <= Len(m) /\ Unpack16(m, o) = v
    BY <2>3, <2>5, NumberIsRead
  <2>7. field = Found(v, next)
    <3>1. ~ (o + 2 > Len(m))
      BY <1>2, <2>3 DEF l
    <3> QED
      BY <2>3, <2>6, <3>1 DEF field, UnpackField
  <2>8. r[i] = Found(Append(before, v), next)
    <3>1. r[d].ok /\ r[d].value = before /\ r[d].next = o
      BY <2>2 DEF Found
    <3>2. r[i] = After(r[d], field)
      BY <2>2, <3>1 DEF UnpackNext, field
    <3>3. field.ok /\ field.value = v /\ field.next = next
      BY <2>7 DEF Found
    <3> QED
      BY <3>1, <3>2, <3>3 DEF After
  <2>9. Append(before, v) = Firsts(values, i)
    <3>1. Append(Firsts(values, d), values[d + 1]) = Firsts(values, d + 1)
      BY <2>1, FirstsGrow
    <3> QED
      BY <2>1, <3>1 DEF before, v
  <2>10. i \in S
    BY <2>1, <2>8, <2>9 DEF next
  <2> QED
    BY <2>1, <2>10
<1> HIDE DEF S
<1>9. 0 .. n \subseteq S
  BY <1>1, <1>7, <1>8, UpToBound
<1>10. n \in S
  BY <1>1, <1>9
<1>11. r[6] = Found(Firsts(values, 6), 2 * 6) /\ 2 * 6 = 12
  BY <1>10 DEF S, n
<1> QED
  BY <1>5, <1>11 DEF n, layout, values

(* A message of which this is the beginning.                                 *)
Begins(m, whole) ==
    /\ m \in Bytes /\ whole \in Bytes /\ Len(m) <= Len(whole)
    /\ \A x \in 1 .. Len(m) : m[x] = whole[x]

(* The lengths of a message and of its beginning.                           *)
LEMMA BeginsLengths ==
    ASSUME NEW m, NEW whole, Begins(m, whole)
    PROVE  m \in Bytes /\ whole \in Bytes /\ Len(m) \in Nat /\ Len(whole) \in Nat /\ Len(m) <= Len(whole)
BY LenProperties DEF Begins, Bytes

(* What stands in the beginning of a message stands in the message.         *)
LEMMA BeginsAt ==
    ASSUME NEW m, NEW whole, Begins(m, whole), NEW o \in Nat
    PROVE  /\ o < Len(m) => At(m, o) = At(whole, o) /\ At(m, o) \in 0 .. 255 /\ o < Len(whole)
           /\ o + 2 <= Len(m) => Unpack16(m, o) = Unpack16(whole, o) /\ Unpack16(m, o) \in Nat
           /\ \A n \in Nat : o + n <= Len(m) => Slice(m, o, n) = Slice(whole, o, n) /\ o + n <= Len(whole)
<1>1. m \in Bytes /\ whole \in Bytes /\ Len(m) \in Nat /\ Len(whole) \in Nat /\ Len(m) <= Len(whole)
  BY BeginsLengths
<1>2. ASSUME NEW e \in Nat, e < Len(m) PROVE At(m, e) = At(whole, e) /\ At(m, e) \in 0 .. 255 /\ e < Len(whole)
  <2>1. e + 1 \in 1 .. Len(m) /\ e < Len(whole)
    BY <1>1, <1>2
  <2>2. At(m, e) = At(whole, e)
    BY <2>1 DEF At, Begins
  <2>3. At(m, e) \in 0 .. 255
    BY <1>1, <1>2, ByteAt
  <2> QED
    BY <2>1, <2>2, <2>3
<1>3. ASSUME o + 2 <= Len(m) PROVE Unpack16(m, o) = Unpack16(whole, o) /\ Unpack16(m, o) \in Nat
  <2>1. o < Len(m) /\ o + 1 < Len(m) /\ o + 1 \in Nat
    BY <1>1, <1>3
  <2>2. Unpack16(m, o) = Unpack16(whole, o)
    BY <1>2, <2>1 DEF Unpack16
  <2> QED
    BY <1>1, <1>3, <2>2, NumberAt
<1>4. ASSUME NEW n \in Nat, o + n <= Len(m) PROVE Slice(m, o, n) = Slice(whole, o, n) /\ o + n <= Len(whole)
  <2> DEFINE a == Slice(m, o, n)
             b == Slice(whole, o, n)
  <2>1. o + n <= Len(whole)
    BY <1>1, <1>4
  <2>2. a \in Bytes /\ Len(a) = n /\ \A x \in 1 .. n : a[x] = m[o + x]
    BY <1>1, <1>4, SliceProperties
  <2>3. b \in Bytes /\ Len(b) = n /\ \A x \in 1 .. n : b[x] = whole[o + x]
    BY <1>1, <2>1, SliceProperties
  <2> HIDE DEF a, b
  <2>4. ASSUME NEW x \in 1 .. n PROVE a[x] = b[x]
    <3>1. o + x \in 1 .. Len(m)
      BY <1>1, <1>4
    <3>2. m[o + x] = whole[o + x]
      BY <3>1 DEF Begins
    <3> QED
      BY <2>2, <2>3, <3>2
  <2>5. Len(a) = Len(b) /\ \A x \in 1 .. Len(a) : a[x] = b[x]
    BY <2>2, <2>3, <2>4
  <2>6. a = b
    BY <2>2, <2>3, <2>5, SeqEqual DEF Bytes
  <2> QED
    BY <2>1, <2>6 DEF a, b
<1> QED
  BY <1>2, <1>3, <1>4

(* The labels and pointers of the beginning are those of the message.       *)
LEMMA BeginsLabels ==
    ASSUME NEW m, NEW whole, Begins(m, whole), NEW o \in Nat, NEW k \in Nat, o < Len(m)
    PROVE  /\ LabelEnd(m, o) = LabelEnd(whole, o)
           /\ HasLabel(m, o) => HasLabel(whole, o)
           /\ HasPointer(m, o, k) => HasPointer(whole, o, k) /\ PointsTo(m, o) = PointsTo(whole, o)
<1>1. /\ Len(m) \in Nat /\ Len(whole) \in Nat /\ Len(m) <= Len(whole)
      /\ At(m, o) = At(whole, o) /\ At(m, o) \in 0 .. 255 /\ o < Len(whole)
  BY BeginsLengths, BeginsAt
<1>2. LabelEnd(m, o) = LabelEnd(whole, o) /\ LabelEnd(m, o) \in Nat
  <2> DEFINE x == At(m, o)
  <2>1. LabelEnd(m, o) = o + 1 + x /\ LabelEnd(whole, o) = o + 1 + x
    BY <1>1 DEF LabelEnd
  <2>2. x \in 0 .. 255
    BY <1>1
  <2> HIDE DEF x
  <2>3. o + 1 + x \in Nat
    BY <2>2
  <2> QED
    BY <2>1, <2>3
<1>3. HasLabel(m, o) => HasLabel(whole, o)
  BY <1>1, <1>2 DEF HasLabel
<1>4. ASSUME HasPointer(m, o, k) PROVE HasPointer(whole, o, k) /\ PointsTo(m, o) = PointsTo(whole, o)
  <2>1. o + 1 < Len(m) /\ o + 1 \in Nat
    BY <1>4 DEF HasPointer
  <2>2. At(m, o + 1) = At(whole, o + 1) /\ o + 1 < Len(whole)
    BY <2>1, BeginsAt
  <2> QED
    BY <1>1, <1>4, <2>2 DEF HasPointer, PointsTo
<1> QED
  BY <1>2, <1>3, <1>4

(* A reading that succeeds in the beginning of a message, where it ends in    *)
(* time, gives the same in the whole message.                               *)
SameRead(r, s, n) == r.ok => s = r /\ r = Found(r.value, r.next) /\ r.next \in Nat /\ r.next <= n

(* The labels that are read in the beginning of a message are read in the    *)
(* message too.                                                             *)
LEMMA BeginsLabelsFrom ==
    ASSUME NEW m, NEW whole, Begins(m, whole), NEW o \in Nat, NEW k \in Nat
    PROVE  SameRead(LabelsFrom(m, o, k), LabelsFrom(whole, o, k), Len(m))
<1> DEFINE len == Len(m)
           S == Nat \X Nat
           rank == [y \in S |-> ReadRank(len, y[1], y[2])]
           Same(y) == SameRead(LabelsFrom(m, y[1], y[2]), LabelsFrom(whole, y[1], y[2]), len)
           P == {y \in S : Same(y)}
<1>1. len \in Nat /\ m \in Bytes /\ whole \in Bytes
  BY BeginsLengths
<1>2. rank \in [S -> Nat]
  <2>1. \A y \in S : y[1] \in Nat /\ y[2] \in Nat
    OBVIOUS
  <2>2. \A y \in S : ReadRank(len, y[1], y[2]) \in Nat
    BY <1>1, <2>1, ReadRankFalls
  <2> HIDE DEF S
  <2> QED
    BY <2>2
<1>3. ASSUME NEW y \in S, \A z \in S : rank[z] < rank[y] => z \in P PROVE y \in P
  <2> DEFINE p == y[1]
             left == y[2]
             r == LabelsFrom(m, p, left)
             s == LabelsFrom(whole, p, left)
             e == LabelEnd(m, p)
             to == PointsTo(m, p)
             x == At(m, p)
  <2>1. p \in Nat /\ left \in Nat /\ y = <<p, left>>
    OBVIOUS
  <2>2. \A q \in Nat, j \in Nat : ReadRank(len, q, j) < ReadRank(len, p, left) =>
           SameRead(LabelsFrom(m, q, j), LabelsFrom(whole, q, j), len)
    <3> SUFFICES ASSUME NEW q \in Nat, NEW j \in Nat, ReadRank(len, q, j) < ReadRank(len, p, left)
                 PROVE  SameRead(LabelsFrom(m, q, j), LabelsFrom(whole, q, j), len)
      OBVIOUS
    <3> DEFINE z == <<q, j>>
    <3>1. z \in S /\ z[1] = q /\ z[2] = j
      OBVIOUS
    <3>2. rank[z] < rank[y]
      BY <2>1, <3>1
    <3>3. z \in P
      BY <1>3, <3>1, <3>2
    <3>4. Same(z)
      BY <3>3
    <3> QED
      BY <3>1, <3>4
  <2> HIDE DEF P, rank
  <2> SUFFICES ASSUME r.ok PROVE s = r /\ r = Found(r.value, r.next) /\ r.next \in Nat /\ r.next <= len
    BY DEF P, SameRead
  <2> HIDE DEF S
  <2>3. r \in NameReads /\ (r.ok <=> r # Failure) /\ (r.ok => r = Found(r.value, r.next) /\ r.next \in Nat)
    BY <1>1, <2>1, LabelsUnfold, ReadsTyped
  <2>4. p < len /\ (x = 0 \/ HasLabel(m, p) \/ HasPointer(m, p, left))
    <3> HIDE DEF r, x, p, left
    <3>1. p >= len => r = Failure
      BY <1>1, <2>1, LabelsUnfold DEF r
    <3>2. p < len /\ x # 0 /\ ~ HasLabel(m, p) /\ ~ HasPointer(m, p, left) => r = Failure
      BY <1>1, <2>1, LabelsUnfold DEF r, x
    <3> QED
      BY <1>1, <2>1, <2>3, <3>1, <3>2
  <2> HIDE DEF p, left
  <2>5. /\ x = At(whole, p) /\ p < Len(whole) /\ e = LabelEnd(whole, p)
        /\ HasLabel(m, p) => HasLabel(whole, p)
        /\ HasPointer(m, p, left) => HasPointer(whole, p, left) /\ to = PointsTo(whole, p)
    BY <2>1, <2>4, BeginsAt, BeginsLabels
  <2>6. CASE x = 0
    <3>1. r = Found(<<>>, p + 1) /\ s = Found(<<>>, p + 1)
      BY <1>1, <2>1, <2>4, <2>5, <2>6, LabelsUnfold
    <3>2. r.next = p + 1
      BY <3>1 DEF Found
    <3> QED
      BY <1>1, <2>1, <2>3, <2>4, <3>1, <3>2
  <2>7. CASE HasLabel(m, p)
    <3> DEFINE b == LabelsFrom(m, e, left)
               c == LabelsFrom(whole, e, left)
               lab == Slice(m, p + 1, x)
    <3>1. r = Before(lab, b) /\ s = Before(Slice(whole, p + 1, x), c)
      BY <1>1, <2>1, <2>5, <2>7, LabelsUnfold
    <3>2. e \in Nat /\ p < e /\ e = p + 1 + x /\ e <= len /\ x \in 0 .. 255
      BY <1>1, <2>1, <2>4, <2>7, LabelEndIs, ByteAt DEF HasLabel, LabelEnd
    <3>3. lab = Slice(whole, p + 1, x)
      <4> HIDE DEF x
      <4>1. p + 1 \in Nat /\ x \in Nat /\ (p + 1) + x <= Len(m)
        BY <2>1, <3>2
      <4> QED
        BY <4>1, BeginsAt
    <3>4. ReadRank(len, e, left) < ReadRank(len, p, left)
      <4> HIDE DEF e, len
      <4> QED
        BY <1>1, <2>1, <2>4, <3>2, ReadRankFalls
    <3>5. SameRead(b, c, len)
      BY <2>1, <2>2, <3>2, <3>4
    <3>6. b \in NameReads /\ b # Failure /\ b.ok
      <4>1. b \in NameReads
        BY <1>1, <2>1, <3>2, LabelsUnfold
      <4>2. ~ Failure.ok
        BY DEF Failure
      <4>3. b # Failure
        BY <2>3, <3>1, <4>2 DEF Before
      <4> QED
        BY <4>1, <4>3, ReadsTyped
    <3>7. c = b /\ b.next \in Nat /\ b.next <= len
      BY <3>5, <3>6 DEF SameRead
    <3>8. s = r
      BY <3>1, <3>3, <3>7
    <3>9. r.next = b.next
      <4> DEFINE v == b.value
                 n == b.next
      <4>1. b = Found(v, n)
        BY <3>6, ReadsTyped
      <4>2. r = Before(lab, Found(v, n))
        BY <3>1, <4>1
      <4>3. r = Found(<<lab>> \o v, n)
        <5> HIDE DEF v, n, lab, r
        <5> QED
          BY <4>2, ReadChanged
      <4> QED
        BY <4>3 DEF Found
    <3> QED
      BY <2>3, <3>7, <3>8, <3>9
  <2>8. CASE HasPointer(m, p, left) /\ x # 0
    <3> DEFINE b == LabelsFrom(m, to, left - 1)
               c == LabelsFrom(whole, to, left - 1)
    <3>1. r = EndingAt(b, p + 2) /\ s = EndingAt(c, p + 2)
      BY <1>1, <2>1, <2>5, <2>8, LabelsUnfold
    <3>2. to \in Nat /\ left > 0 /\ left - 1 \in Nat /\ p + 2 \in Nat /\ p + 2 <= len
      BY <1>1, <2>1, <2>8, LabelEndIs DEF HasPointer
    <3>3. ReadRank(len, to, left - 1) < ReadRank(len, p, left)
      BY <1>1, <2>1, <3>2, ReadRankFalls
    <3>4. SameRead(b, c, len)
      BY <2>2, <3>2, <3>3
    <3>5. b \in NameReads
      BY <1>1, <3>2, LabelsUnfold
    <3>6. b.ok
      <4>1. b = Failure => r = Failure
        BY <3>1, <3>2, <3>5, ReadsTyped
      <4> QED
        BY <2>3, <3>5, <4>1, ReadsTyped
    <3>7. c = b
      BY <3>4, <3>6 DEF SameRead
    <3>8. r.next = p + 2
      <4>1. b # Failure
        BY <3>5, <3>6, ReadsTyped
      <4>2. r = Found(b.value, p + 2)
        BY <3>1, <3>2, <3>5, <4>1, ReadsTyped
      <4> QED
        BY <4>2 DEF Found
    <3> QED
      BY <2>3, <3>1, <3>2, <3>7, <3>8
  <2> QED
    BY <2>4, <2>6, <2>7, <2>8
<1> HIDE DEF rank, P, S
<1>4. S \subseteq P
  BY <1>2, <1>3, RankInduction
<1>5. <<o, k>> \in P
  BY <1>4 DEF S
<1> QED
  BY <1>5 DEF P

(* So are names.                                                            *)
LEMMA BeginsName ==
    ASSUME NEW m, NEW whole, Begins(m, whole), NEW o \in Nat, NEW compressed
    PROVE  SameRead(UnpackName(m, o, compressed), UnpackName(whole, o, compressed), Len(m))
<1> DEFINE k == IF compressed THEN MaxPointers ELSE 0
           r == LabelsFrom(m, o, k)
           s == LabelsFrom(whole, o, k)
<1>1. k \in Nat
  BY PointerAssumption
<1>2. UnpackName(m, o, compressed) = ShortEnough(r) /\ UnpackName(whole, o, compressed) = ShortEnough(s)
  BY DEF UnpackName
<1> HIDE DEF k
<1>3. SameRead(r, s, Len(m))
  BY <1>1, BeginsLabelsFrom
<1> HIDE DEF r, s
<1>4. ~ Failure.ok
  BY DEF Failure
<1>5. ShortEnough(r).ok => ShortEnough(r) = r /\ r.ok
  BY <1>4 DEF ShortEnough
<1>6. ShortEnough(r).ok => ShortEnough(s) = ShortEnough(r)
  BY <1>3, <1>5 DEF SameRead
<1> QED
  BY <1>2, <1>3, <1>5, <1>6 DEF SameRead

(* What is read before it keeps two readings the same.                      *)
LEMMA BeforeSame ==
    ASSUME NEW r, NEW s, NEW n, SameRead(r, s, n), NEW item
    PROVE  SameRead(Before(item, r), Before(item, s), n)
<1>1. ASSUME Before(item, r).ok
      PROVE  LET b == Before(item, r)
             IN  Before(item, s) = b /\ b = Found(b.value, b.next) /\ b.next \in Nat /\ b.next <= n
  <2> DEFINE b == Before(item, r)
             v == r.value
             next == r.next
             w == <<item>> \o v
  <2>1. r.ok
    BY <1>1 DEF Before
  <2>2. s = r /\ r = Found(v, next) /\ next \in Nat /\ next <= n
    BY <2>1 DEF SameRead
  <2> HIDE DEF v, next
  <2>3. b = Found(w, next)
    BY <2>2, ReadChanged
  <2> HIDE DEF b, w
  <2>4. b.next = next /\ b.value = w
    BY <2>3 DEF Found
  <2> QED
    BY <2>2, <2>3, <2>4 DEF b
<1> QED
  BY <1>1 DEF SameRead

(* A reading that fails in the beginning.                                   *)
LEMMA FailureSame == ASSUME NEW s, NEW n PROVE SameRead(Failure, s, n)
<1>1. ~ Failure.ok
  BY DEF Failure
<1> QED
  BY <1>1 DEF SameRead

(* What ends at a place in time.                                            *)
LEMMA FoundSame ==
    ASSUME NEW value, NEW next \in Nat, NEW n, next <= n
    PROVE  SameRead(Found(value, next), Found(value, next), n)
<1> DEFINE r == Found(value, next)
<1>1. r.value = value /\ r.next = next
  BY DEF Found
<1>2. r = Found(r.value, r.next) /\ r.next \in Nat /\ r.next <= n
  BY <1>1
<1> QED
  BY <1>2 DEF SameRead

(* The part of a name that is skipped in the beginning is skipped in the      *)
(* message.                                                                 *)
LEMMA BeginsSkip ==
    ASSUME NEW m, NEW whole, Begins(m, whole), NEW o \in Nat, SkipName(m, o).ok
    PROVE  SkipName(whole, o) = SkipName(m, o) /\ SkipName(m, o).next \in Nat
<1> DEFINE len == Len(m)
           rank == [p \in Nat |-> IF p < len THEN len - p ELSE 0]
           P == {p \in Nat : SkipName(m, p).ok => SkipName(whole, p) = SkipName(m, p)}
<1>1. len \in Nat /\ m \in Bytes /\ whole \in Bytes
  BY BeginsLengths
<1>2. rank \in [Nat -> Nat]
  BY <1>1
<1>3. ASSUME NEW p \in Nat, \A e \in Nat : rank[e] < rank[p] => e \in P PROVE p \in P
  <2> DEFINE r == SkipName(m, p)
             s == SkipName(whole, p)
             e == LabelEnd(m, p)
             x == At(m, p)
             zero == 0
  <2> SUFFICES ASSUME r.ok PROVE s = r
    OBVIOUS
  <2>1. r # Failure
    BY DEF Failure
  <2>2. p < len /\ (x = 0 \/ HasLabel(m, p) \/ x >= PointerMark)
    <3> HIDE DEF r, x
    <3>1. p >= len => r = Failure
      BY <1>1, SkipUnfold DEF r
    <3>2. p < len /\ x # 0 /\ ~ HasLabel(m, p) /\ ~ (x >= PointerMark) => r = Failure
      BY <1>1, SkipUnfold DEF r, x
    <3> QED
      BY <1>1, <2>1, <3>1, <3>2
  <2>3. /\ x = At(whole, p) /\ p < Len(whole) /\ e = LabelEnd(whole, p)
        /\ HasLabel(m, p) => HasLabel(whole, p)
    <3>1. zero \in Nat
      OBVIOUS
    <3> HIDE DEF zero
    <3> QED
      BY <2>2, <3>1, BeginsAt, BeginsLabels
  <2>4. CASE x = 0
    BY <1>1, <2>2, <2>3, <2>4, SkipUnfold
  <2>5. CASE HasLabel(m, p)
    <3>1. r = SkipName(m, e) /\ s = SkipName(whole, e)
      BY <1>1, <2>3, <2>5, SkipUnfold
    <3>2. e \in Nat /\ p < e
      BY <1>1, <2>2, LabelEndIs
    <3>3. rank[e] < rank[p]
      <4> HIDE DEF e, len
      <4> QED
        BY <1>1, <2>2, <3>2
    <3>4. e \in P
      BY <1>3, <3>2, <3>3
    <3> QED
      BY <3>1, <3>4
  <2>6. CASE x >= PointerMark
    BY <1>1, <2>2, <2>3, <2>6, SkipUnfold
  <2> QED
    BY <2>2, <2>4, <2>5, <2>6
<1> HIDE DEF rank, P
<1>4. Nat \subseteq P
  BY <1>2, <1>3, RankInduction
<1>5. SkipName(whole, o) = SkipName(m, o)
  BY <1>4 DEF P
<1>6. SkipName(m, o).next \in Nat
  <2>1. SkipName(m, o) \in Skips /\ SkipName(m, o) # Failure
    <3>1. SkipName(m, o) \in Skips
      BY <1>1, SkipUnfold
    <3> QED
      BY <3>1 DEF Failure
  <2>2. PICK next \in Nat : SkipName(m, o) = Found(<<>>, next)
    BY <2>1 DEF Skips
  <2> QED
    BY <2>2 DEF Found
<1> QED
  BY <1>5, <1>6

(* Texts that are read in the beginning are read in the message.            *)
LEMMA BeginsTexts ==
    ASSUME NEW m, NEW whole, Begins(m, whole), NEW o \in Nat, NEW length \in Nat, o <= Len(m)
    PROVE  SameRead(UnpackTexts(m, o, length), UnpackTexts(whole, o, length), Len(m))
<1> DEFINE len == Len(m)
           big == Len(whole)
           stop == o + length
           rank == [p \in Nat |-> IF p < len THEN len - p ELSE 0]
<1>1. len \in Nat /\ big \in Nat /\ len <= big /\ m \in Bytes /\ whole \in Bytes /\ stop \in Nat
  BY BeginsLengths
<1>2. PICK f : f = TextsStep(m, o, length, f) /\ UnpackTexts(m, o, length) = f[o]
  BY <1>1, UnpackTextsIs
<1>3. PICK g : g = TextsStep(whole, o, length, g) /\ UnpackTexts(whole, o, length) = g[o]
  BY <1>1, UnpackTextsIs
<1> DEFINE P == {p \in Nat : p <= len => SameRead(f[p], g[p], len)}
<1>4. rank \in [Nat -> Nat]
  BY <1>1
<1>5. ASSUME NEW p \in Nat, \A e \in Nat : rank[e] < rank[p] => e \in P PROVE p \in P
  <2> DEFINE c == At(m, p)
             e == p + 1 + c
             lab == Slice(m, p + 1, c)
             first == Found(<<>>, p)
             last == Before(lab, f[e])
             again == Before(lab, g[e])
  <2> SUFFICES ASSUME p <= len PROVE SameRead(f[p], g[p], len)
    OBVIOUS
  <2>1. f[p] = IF p = stop THEN first ELSE IF p >= len THEN Failure
               ELSE IF e > len \/ e > stop THEN Failure ELSE last
    <3>1. f[p] = TextsStep(m, o, length, f)[p]
      BY <1>2
    <3> QED
      BY <3>1 DEF TextsStep
  <2>2. g[p] = LET d == At(whole, p)
               IN  IF p = stop THEN first ELSE IF p >= big THEN Failure
                   ELSE IF p + 1 + d > big \/ p + 1 + d > stop THEN Failure
                   ELSE Before(Slice(whole, p + 1, d), g[p + 1 + d])
    <3>1. g[p] = TextsStep(whole, o, length, g)[p]
      BY <1>3
    <3> QED
      BY <3>1 DEF TextsStep
  <2>3. SameRead(first, first, len) /\ SameRead(Failure, g[p], len)
    <3> DEFINE none == <<>>
    <3> HIDE DEF none
    <3>0. SameRead(Found(none, p), Found(none, p), len)
      BY <1>1, FoundSame
    <3>1. SameRead(first, first, len)
      BY <3>0 DEF none
    <3> QED
      BY <3>1, FailureSame
  <2>4. CASE p = stop \/ p >= len \/ e > len \/ e > stop
    <3>1. f[p] = Failure \/ (f[p] = first /\ g[p] = first)
      BY <2>1, <2>2, <2>4
    <3> QED
      BY <2>3, <3>1
  <2>5. CASE ~ (p = stop) /\ ~ (p >= len) /\ ~ (e > len) /\ ~ (e > stop)
    <3>1. p < len
      BY <1>1, <2>5
    <3>2. c = At(whole, p) /\ c \in 0 .. 255 /\ p < big /\ 0 .. 255 \subseteq Nat
      BY <3>1, BeginsAt
    <3>3. e \in Nat /\ e <= len /\ p < e
      <4>0. c \in Nat
        BY <3>2
      <4> HIDE DEF c
      <4>1. e \in Nat /\ p < e
        BY <4>0
      <4> HIDE DEF e
      <4>2. e <= len
        BY <1>1, <2>5, <4>1
      <4> QED
        BY <4>1, <4>2
    <3>4. lab = Slice(whole, p + 1, c)
      <4> HIDE DEF c
      <4>1. p + 1 \in Nat /\ c \in Nat /\ (p + 1) + c <= len
        BY <3>2, <3>3
      <4> QED
        BY <4>1, BeginsAt
    <3>5. g[p] = again
      <4>1. ~ (p >= big) /\ ~ (e > big)
        BY <1>1, <3>2, <3>3
      <4> QED
        BY <2>2, <2>5, <3>2, <3>4, <4>1
    <3>6. f[p] = last
      BY <2>1, <2>5
    <3>7. rank[e] < rank[p]
      <4> HIDE DEF e, len
      <4> QED
        BY <1>1, <3>1, <3>3
    <3>8. SameRead(f[e], g[e], len)
      <4> HIDE DEF rank, e
      <4>1. e \in P
        BY <1>5, <3>3, <3>7
      <4> QED
        BY <3>3, <4>1
    <3>9. SameRead(last, again, len)
      <4> DEFINE a == f[e]
                 b == g[e]
      <4>1. SameRead(a, b, len)
        BY <3>8
      <4> HIDE DEF a, b, lab, len
      <4>2. SameRead(Before(lab, a), Before(lab, b), len)
        BY <4>1, BeforeSame
      <4> QED
        BY <4>2 DEF a, b
    <3> QED
      BY <3>5, <3>6, <3>9
  <2> QED
    BY <2>4, <2>5
<1> HIDE DEF rank, P
<1>6. Nat \subseteq P
  <2>1. \A p \in Nat : (\A e \in Nat : rank[e] < rank[p] => e \in P) => p \in P
    BY <1>5, Zenon
  <2> DEFINE S == Nat
  <2>2. rank \in [S -> Nat]
    BY <1>4
  <2>3. \A p \in S : (\A e \in S : rank[e] < rank[p] => e \in P) => p \in P
    BY <2>1, Zenon
  <2> HIDE DEF S
  <2>4. S \subseteq P
    BY <2>2, <2>3, RankInduction
  <2> QED
    BY <2>4 DEF S
<1>7. SameRead(f[o], g[o], len)
  BY <1>6 DEF P
<1> QED
  BY <1>2, <1>3, <1>7

(* So are options.                                                          *)
LEMMA BeginsOptions ==
    ASSUME NEW m, NEW whole, Begins(m, whole), NEW o \in Nat, NEW length \in Nat, o <= Len(m)
    PROVE  SameRead(UnpackOptions(m, o, length), UnpackOptions(whole, o, length), Len(m))
<1> DEFINE len == Len(m)
           big == Len(whole)
           stop == o + length
           rank == [p \in Nat |-> IF p < len THEN len - p ELSE 0]
<1>1. len \in Nat /\ big \in Nat /\ len <= big /\ m \in Bytes /\ whole \in Bytes /\ stop \in Nat
  BY BeginsLengths
<1>2. PICK f : f = OptionsStep(m, o, length, f) /\ UnpackOptions(m, o, length) = f[o]
  BY <1>1, UnpackOptionsIs
<1>3. PICK g : g = OptionsStep(whole, o, length, g) /\ UnpackOptions(whole, o, length) = g[o]
  BY <1>1, UnpackOptionsIs
<1> DEFINE P == {p \in Nat : p <= len => SameRead(f[p], g[p], len)}
<1>4. rank \in [Nat -> Nat]
  BY <1>1
<1>5. ASSUME NEW p \in Nat, \A e \in Nat : rank[e] < rank[p] => e \in P PROVE p \in P
  <2> DEFINE c == Unpack16(m, p + 2)
             e == p + 4 + c
             opt == [code |-> Unpack16(m, p), data |-> Slice(m, p + 4, c)]
             first == Found(<<>>, p)
             last == Before(opt, f[e])
             again == Before(opt, g[e])
  <2> SUFFICES ASSUME p <= len PROVE SameRead(f[p], g[p], len)
    OBVIOUS
  <2>1. f[p] = IF p >= stop THEN first ELSE IF p + 4 > len THEN Failure
               ELSE IF e > len THEN Failure ELSE last
    <3>1. f[p] = OptionsStep(m, o, length, f)[p]
      BY <1>2
    <3> QED
      BY <3>1 DEF OptionsStep
  <2>2. g[p] = LET d == Unpack16(whole, p + 2)
               IN  IF p >= stop THEN first ELSE IF p + 4 > big THEN Failure
                   ELSE IF p + 4 + d > big THEN Failure
                   ELSE Before([code |-> Unpack16(whole, p), data |-> Slice(whole, p + 4, d)], g[p + 4 + d])
    <3>1. g[p] = OptionsStep(whole, o, length, g)[p]
      BY <1>3
    <3> QED
      BY <3>1 DEF OptionsStep
  <2>3. SameRead(first, first, len) /\ SameRead(Failure, g[p], len)
    <3> DEFINE none == <<>>
    <3> HIDE DEF none
    <3>0. SameRead(Found(none, p), Found(none, p), len)
      BY <1>1, FoundSame
    <3>1. SameRead(first, first, len)
      BY <3>0 DEF none
    <3> QED
      BY <3>1, FailureSame
  <2>4. CASE p >= stop \/ p + 4 > len \/ e > len
    <3>1. f[p] = Failure \/ (f[p] = first /\ g[p] = first)
      BY <2>1, <2>2, <2>4
    <3> QED
      BY <2>3, <3>1
  <2>5. CASE ~ (p >= stop) /\ ~ (p + 4 > len) /\ ~ (e > len)
    <3>1. p + 2 \in Nat /\ (p + 2) + 2 <= len /\ p + 2 <= len /\ p + 4 \in Nat /\ p < len
      BY <1>1, <2>5
    <3>2. c = Unpack16(whole, p + 2) /\ c \in Nat /\ Unpack16(m, p) = Unpack16(whole, p)
      BY <3>1, BeginsAt
    <3>3. e \in Nat /\ e <= len /\ p < e
      <4> HIDE DEF c
      <4>1. e \in Nat
        BY <3>2
      <4> HIDE DEF e
      <4>2. e <= len
        BY <1>1, <2>5, <4>1
      <4>3. p < e
        BY <3>2 DEF e
      <4> QED
        BY <4>1, <4>2, <4>3
    <3>4. Slice(m, p + 4, c) = Slice(whole, p + 4, c)
      <4> HIDE DEF c
      <4>1. c \in Nat /\ (p + 4) + c <= len
        BY <3>2, <3>3
      <4> QED
        BY <3>1, <4>1, BeginsAt
    <3>5. g[p] = again
      <4>1. ~ (p + 4 > big) /\ ~ (e > big)
        BY <1>1, <3>1, <3>3
      <4> QED
        BY <2>2, <2>5, <3>2, <3>4, <4>1
    <3>6. f[p] = last
      BY <2>1, <2>5
    <3>7. rank[e] < rank[p]
      <4> HIDE DEF e, len
      <4> QED
        BY <1>1, <3>1, <3>3
    <3>8. SameRead(f[e], g[e], len)
      <4> HIDE DEF rank, e
      <4>1. e \in P
        BY <1>5, <3>3, <3>7
      <4> QED
        BY <3>3, <4>1
    <3>9. SameRead(last, again, len)
      <4> DEFINE a == f[e]
                 b == g[e]
      <4>1. SameRead(a, b, len)
        BY <3>8
      <4> HIDE DEF a, b, opt, len
      <4>2. SameRead(Before(opt, a), Before(opt, b), len)
        BY <4>1, BeforeSame
      <4> QED
        BY <4>2 DEF a, b
    <3> QED
      BY <3>5, <3>6, <3>9
  <2> QED
    BY <2>4, <2>5
<1> HIDE DEF rank, P
<1>6. Nat \subseteq P
  <2>1. \A p \in Nat : (\A e \in Nat : rank[e] < rank[p] => e \in P) => p \in P
    BY <1>5, Zenon
  <2> DEFINE S == Nat
  <2>2. rank \in [S -> Nat]
    BY <1>4
  <2>3. \A p \in S : (\A e \in S : rank[e] < rank[p] => e \in P) => p \in P
    BY <2>1, Zenon
  <2> HIDE DEF S
  <2>4. S \subseteq P
    BY <2>2, <2>3, RankInduction
  <2> QED
    BY <2>4 DEF S
<1>7. SameRead(f[o], g[o], len)
  BY <1>6 DEF P
<1> QED
  BY <1>2, <1>3, <1>7

(* A number of bytes that are read in the beginning.                        *)
LEMMA BeginsBytes ==
    ASSUME NEW m, NEW whole, Begins(m, whole), NEW o \in Nat, NEW n \in Nat
    PROVE  SameRead(UnpackBytes(m, o, n), UnpackBytes(whole, o, n), Len(m))
<1> DEFINE len == Len(m)
           big == Len(whole)
           b == Slice(m, o, n)
           e == o + n
<1>1. len \in Nat /\ big \in Nat /\ len <= big /\ e \in Nat
  BY BeginsLengths
<1>2. UnpackBytes(m, o, n) = IF e > len THEN Failure ELSE Found(b, e)
  BY DEF UnpackBytes
<1>3. CASE e > len
  BY <1>2, <1>3, FailureSame
<1>4. CASE ~ (e > len)
  <2>1. e <= len /\ ~ (e > big)
    BY <1>1, <1>4
  <2>2. b = Slice(whole, o, n)
    BY <2>1, BeginsAt
  <2>3. UnpackBytes(whole, o, n) = Found(b, e)
    BY <2>1, <2>2 DEF UnpackBytes
  <2>4. SameRead(Found(b, e), Found(b, e), len)
    <3> HIDE DEF b, e, len
    <3> QED
      BY <1>1, <2>1, FoundSame
  <2> QED
    BY <1>2, <1>4, <2>3, <2>4
<1> QED
  BY <1>3, <1>4

(* A field.                                                                 *)
LEMMA BeginsField ==
    ASSUME NEW m, NEW whole, Begins(m, whole), NEW o \in Nat, NEW kind, NEW length \in Nat, o <= Len(m)
    PROVE  SameRead(UnpackField(m, o, kind, length), UnpackField(whole, o, kind, length), Len(m))
<1> DEFINE len == Len(m)
           big == Len(whole)
           r == UnpackField(m, o, kind, length)
           s == UnpackField(whole, o, kind, length)
<1>1. len \in Nat /\ big \in Nat /\ len <= big
  BY BeginsLengths
<1>2. CASE kind = "uint16"
  <2> DEFINE v == Unpack16(m, o)
             e == o + 2
  <2>1. r = (IF e > len THEN Failure ELSE Found(v, e))
        /\ s = (IF e > big THEN Failure ELSE Found(Unpack16(whole, o), e))
    BY <1>2 DEF UnpackField
  <2>2. e \in Nat
    OBVIOUS
  <2>3. CASE e > len
    BY <2>1, <2>3, FailureSame
  <2>4. CASE ~ (e > len)
    <3>1. e <= len /\ ~ (e > big)
      BY <1>1, <2>2, <2>4
    <3>2. v = Unpack16(whole, o)
      BY <3>1, BeginsAt
    <3>3. SameRead(Found(v, e), Found(v, e), len)
      <4> HIDE DEF v, e, len
      <4> QED
        BY <2>2, <3>1, FoundSame
    <3> QED
      BY <2>1, <2>4, <3>1, <3>2, <3>3
  <2> QED
    BY <2>3, <2>4
<1>3. CASE kind = "uint32"
  <2> DEFINE v == <<Unpack16(m, o), Unpack16(m, o + 2)>>
             e == o + 4
  <2>1. r = (IF e > len THEN Failure ELSE Found(v, e))
        /\ s = (IF e > big THEN Failure ELSE Found(<<Unpack16(whole, o), Unpack16(whole, o + 2)>>, e))
    BY <1>3 DEF UnpackField
  <2>2. e \in Nat
    OBVIOUS
  <2>3. CASE e > len
    BY <2>1, <2>3, FailureSame
  <2>4. CASE ~ (e > len)
    <3>1. e <= len /\ ~ (e > big) /\ o + 2 <= len /\ o + 2 \in Nat /\ (o + 2) + 2 <= len
      BY <1>1, <2>2, <2>4
    <3>2. Unpack16(m, o) = Unpack16(whole, o) /\ Unpack16(m, o + 2) = Unpack16(whole, o + 2)
      BY <3>1, BeginsAt
    <3>3. SameRead(Found(v, e), Found(v, e), len)
      <4> HIDE DEF v, e, len
      <4> QED
        BY <2>2, <3>1, FoundSame
    <3> QED
      BY <2>1, <2>4, <3>1, <3>2, <3>3
  <2> QED
    BY <2>3, <2>4
<1>4. CASE kind \in {"name", "plain"}
  <2> DEFINE compressed == kind = "name"
  <2>1. r = UnpackName(m, o, compressed) /\ s = UnpackName(whole, o, compressed)
    BY <1>4 DEF UnpackField
  <2> HIDE DEF compressed, r, s
  <2> QED
    BY <2>1, BeginsName DEF r, s
<1>5. CASE kind = "texts"
  <2>1. r = UnpackTexts(m, o, length) /\ s = UnpackTexts(whole, o, length)
    BY <1>5 DEF UnpackField
  <2> QED
    BY <2>1, BeginsTexts
<1>6. CASE kind = "options"
  <2>1. r = UnpackOptions(m, o, length) /\ s = UnpackOptions(whole, o, length)
    BY <1>6 DEF UnpackField
  <2> QED
    BY <2>1, BeginsOptions
<1>7. CASE kind \notin {"uint16", "uint32", "name", "plain", "texts", "options"}
  <2> DEFINE n == SizeOf(kind, length)
  <2>1. n \in Nat
    BY DEF SizeOf
  <2>2. r = UnpackBytes(m, o, n) /\ s = UnpackBytes(whole, o, n)
    BY <1>7 DEF UnpackField
  <2> HIDE DEF n
  <2> QED
    BY <2>1, <2>2, BeginsBytes
<1> QED
  BY <1>2, <1>3, <1>4, <1>5, <1>6, <1>7

(* The next field of a layout.                                              *)
LEMMA NextSame ==
    ASSUME NEW m, NEW whole, Begins(m, whole), NEW f, NEW g, SameRead(f, g, Len(m)), NEW kind, NEW length \in Nat
    PROVE  SameRead(UnpackNext(m, f, kind, length), UnpackNext(whole, g, kind, length), Len(m))
<1> DEFINE len == Len(m)
           r == UnpackNext(m, f, kind, length)
           s == UnpackNext(whole, g, kind, length)
           field == UnpackField(m, f.next, kind, length)
           again == UnpackField(whole, f.next, kind, length)
<1>1. CASE ~ f.ok
  <2>1. r = f
    BY <1>1 DEF UnpackNext
  <2> QED
    BY <1>1, <2>1 DEF SameRead
<1>2. CASE f.ok
  <2>1. g = f /\ f.next \in Nat /\ f.next <= len
    BY <1>2 DEF SameRead
  <2>2. r = After(f, field) /\ s = After(f, again)
    BY <1>2, <2>1 DEF UnpackNext
  <2>3. SameRead(field, again, len)
    <3> DEFINE o == f.next
    <3> HIDE DEF o
    <3>1. o \in Nat /\ o <= Len(m)
      BY <2>1 DEF o
    <3>2. SameRead(UnpackField(m, o, kind, length), UnpackField(whole, o, kind, length), Len(m))
      BY <3>1, BeginsField
    <3> QED
      BY <3>2 DEF o
  <2> HIDE DEF field, again, r, s
  <2>4. CASE ~ field.ok
    <3>1. r = Failure
      BY <2>2, <2>4 DEF After
    <3>2. SameRead(r, s, len)
      BY <3>1, FailureSame
    <3> QED
      BY <3>2 DEF r, s
  <2>5. CASE field.ok
    <3> DEFINE v == Append(f.value, field.value)
               e == field.next
    <3>1. again = field /\ e \in Nat /\ e <= len
      BY <2>3, <2>5 DEF SameRead
    <3>2. r = Found(v, e) /\ s = Found(v, e)
      BY <2>2, <2>5, <3>1 DEF After
    <3> HIDE DEF v, e, len
    <3>3. SameRead(r, s, len)
      BY <3>1, <3>2, FoundSame
    <3> QED
      BY <3>3 DEF r, s, len
  <2> QED
    BY <2>4, <2>5
<1> QED
  BY <1>1, <1>2

(* The fields of a layout.                                                  *)
LEMMA BeginsFields ==
    ASSUME NEW m, NEW whole, Begins(m, whole), NEW o \in Nat, o <= Len(m), NEW layout, Len(layout) \in Nat,
           NEW length \in Nat
    PROVE  SameRead(UnpackFields(m, o, layout, length), UnpackFields(whole, o, layout, length), Len(m))
<1> DEFINE n == Len(layout)
           len == Len(m)
           none == <<>>
<1>1. PICK f : UnpackRun(m, o, layout, length, n, f) /\ UnpackFields(m, o, layout, length) = f[n]
  BY UnpackFieldsIs
<1>2. PICK g : UnpackRun(whole, o, layout, length, n, g) /\ UnpackFields(whole, o, layout, length) = g[n]
  BY UnpackFieldsIs
<1> DEFINE S == {i \in 0 .. n : SameRead(f[i], g[i], len)}
<1>3. n \in Nat
  OBVIOUS
<1> HIDE DEF n
<1>4. 0 \in S
  <2>1. f[0] = Found(none, o) /\ g[0] = Found(none, o)
    BY <1>1, <1>2 DEF UnpackRun
  <2> HIDE DEF none
  <2>2. SameRead(Found(none, o), Found(none, o), len)
    BY FoundSame
  <2>3. 0 \in 0 .. n
    BY <1>3
  <2> QED
    BY <2>1, <2>2, <2>3
<1>5. ASSUME NEW i \in 0 .. n - 1, i \in S PROVE i + 1 \in S
  <2> DEFINE j == i + 1
  <2>1. j \in 1 .. n /\ j - 1 = i /\ j \in 0 .. n
    BY <1>3
  <2>2. SameRead(f[i], g[i], len)
    BY <1>5
  <2> HIDE DEF j
  <2>3. f[j] = UnpackNext(m, f[i], layout[j], length) /\ g[j] = UnpackNext(whole, g[i], layout[j], length)
    BY <1>1, <1>2, <2>1 DEF UnpackRun
  <2> DEFINE a == f[i]
             b == g[i]
             kind == layout[j]
  <2>4. SameRead(a, b, len)
    BY <2>2
  <2> HIDE DEF a, b, kind, S
  <2>5. SameRead(UnpackNext(m, a, kind, length), UnpackNext(whole, b, kind, length), len)
    BY <2>4, NextSame
  <2>6. SameRead(f[j], g[j], len)
    BY <2>3, <2>5 DEF a, b, kind
  <2> QED
    BY <2>1, <2>6 DEF j, S
<1> HIDE DEF S
<1>6. 0 .. n \subseteq S
  BY <1>3, <1>4, <1>5, UpToBound
<1>7. n \in S
  BY <1>3, <1>6
<1> QED
  BY <1>1, <1>2, <1>7 DEF S, len

(* The header of a record.                                                  *)
LEMMA BeginsHeader ==
    ASSUME NEW m, NEW whole, Begins(m, whole), NEW o \in Nat, o <= Len(m)
    PROVE  SameRead(UnpackRecordHeader(m, o), UnpackRecordHeader(whole, o), Len(m))
<1> DEFINE layout == RecordHeader
           zero == 0
           f == UnpackFields(m, o, layout, zero)
           g == UnpackFields(whole, o, layout, zero)
           r == AsHeader(f)
           s == AsHeader(g)
           n == Len(m)
<1>1. UnpackRecordHeader(m, o) = r /\ UnpackRecordHeader(whole, o) = s
  BY DEF UnpackRecordHeader
<1>2. SameRead(f, g, n)
  <2>1. Len(layout) \in Nat /\ zero \in Nat
    BY DEF RecordHeader
  <2> HIDE DEF layout, zero
  <2> QED
    BY <2>1, BeginsFields
<1> HIDE DEF f, g, n
<1>3. CASE ~ f.ok
  <2>1. r = Failure
    BY <1>3 DEF AsHeader
  <2> HIDE DEF r, s
  <2>2. SameRead(r, s, n)
    BY <2>1, FailureSame
  <2> QED
    BY <1>1, <2>2 DEF n
<1>4. CASE f.ok
  <2> DEFINE v == [name |-> f.value[1], type |-> f.value[2], class |-> f.value[3],
                   ttl |-> f.value[4], length |-> f.value[5]]
             e == f.next
  <2>1. g = f /\ e \in Nat /\ e <= n
    BY <1>2, <1>4 DEF SameRead
  <2>2. r = Found(v, e) /\ s = Found(v, e)
    BY <1>4, <2>1 DEF AsHeader
  <2> HIDE DEF v, e, r, s
  <2>3. SameRead(r, s, n)
    BY <2>1, <2>2, FoundSame
  <2> QED
    BY <1>1, <2>3 DEF n
<1> QED
  BY <1>3, <1>4

(* A place that is skipped to.                                              *)
LEMMA BeginsSkipTo ==
    ASSUME NEW m, NEW whole, Begins(m, whole), NEW e \in Nat
    PROVE  SameRead(SkipTo(m, e), SkipTo(whole, e), Len(m))
<1> DEFINE none == <<>>
<1>1. Len(m) \in Nat /\ Len(whole) \in Nat /\ Len(m) <= Len(whole)
  BY BeginsLengths
<1>2. SkipTo(m, e) = (IF e <= Len(m) THEN Found(none, e) ELSE Failure)
      /\ SkipTo(whole, e) = (IF e <= Len(whole) THEN Found(none, e) ELSE Failure)
  BY DEF SkipTo
<1> HIDE DEF none
<1>3. CASE e <= Len(m)
  <2>1. SameRead(Found(none, e), Found(none, e), Len(m))
    BY <1>3, FoundSame
  <2>2. e <= Len(whole)
    BY <1>1, <1>3
  <2> QED
    BY <1>2, <1>3, <2>1, <2>2
<1>4. CASE ~ (e <= Len(m))
  BY <1>2, <1>4, FailureSame
<1> QED
  BY <1>3, <1>4

(* A question or a record that is skipped.                                  *)
LEMMA BeginsSkips ==
    ASSUME NEW m, NEW whole, Begins(m, whole), NEW o \in Nat
    PROVE  /\ SameRead(SkipQuestionAt(m, o), SkipQuestionAt(whole, o), Len(m))
           /\ SameRead(SkipRecord(m, o), SkipRecord(whole, o), Len(m))
<1> DEFINE n == Len(m)
           name == SkipName(m, o)
           again == SkipName(whole, o)
           e == name.next
           length == Unpack16(m, e + 8)
           q == SkipQuestionAt(m, o)
           p == SkipQuestionAt(whole, o)
           r == SkipRecord(m, o)
           s == SkipRecord(whole, o)
<1>1. n \in Nat /\ Len(whole) \in Nat /\ n <= Len(whole)
  BY BeginsLengths
<1>2. q = PastType(m, name) /\ p = PastType(whole, again) /\ r = PastBody(m, name) /\ s = PastBody(whole, again)
  BY DEF SkipQuestionAt, SkipRecord
<1>3. name.ok => again = name /\ e \in Nat
  BY BeginsSkip
<1> HIDE DEF name, again, q, p, r, s
<1>4. CASE ~ name.ok
  <2>1. q = Failure /\ r = Failure
    BY <1>2, <1>4 DEF PastType, PastBody
  <2>2. SameRead(q, p, n) /\ SameRead(r, s, n)
    BY <2>1, FailureSame
  <2> QED
    BY <2>2 DEF q, p, r, s
<1>5. CASE name.ok
  <2> HIDE DEF e
  <2>1. again = name /\ e \in Nat /\ e = name.next
    BY <1>3, <1>5 DEF e
  <2>2. SameRead(q, p, n)
    <3>1. q = SkipTo(m, e + 4) /\ p = SkipTo(whole, e + 4)
      BY <1>2, <1>5, <2>1 DEF PastType
    <3>2. e + 4 \in Nat
      BY <2>1
    <3> QED
      BY <3>1, <3>2, BeginsSkipTo
  <2>3. CASE ~ (e + 10 <= n)
    <3>1. r = Failure
      BY <1>2, <2>1, <2>3 DEF PastBody
    <3>2. SameRead(r, s, n)
      BY <3>1, FailureSame
    <3> QED
      BY <2>2, <3>2 DEF q, p, r, s
  <2>4. CASE e + 10 <= n
    <3>1. e + 8 \in Nat /\ (e + 8) + 2 <= n /\ e + 10 <= Len(whole)
      BY <1>1, <2>1, <2>4
    <3>2. length = Unpack16(whole, e + 8) /\ length \in Nat
      BY <3>1, BeginsAt
    <3>3. r = SkipTo(m, e + 10 + length) /\ s = SkipTo(whole, e + 10 + length)
      BY <1>2, <1>5, <2>1, <2>4, <3>1, <3>2 DEF PastBody
    <3>4. e + 10 + length \in Nat
      <4> HIDE DEF length
      <4> QED
        BY <2>1, <3>2
    <3>5. SameRead(r, s, n)
      <4> HIDE DEF length
      <4> QED
        BY <3>3, <3>4, BeginsSkipTo
    <3> QED
      BY <2>2, <3>5 DEF q, p, r, s
  <2> QED
    BY <2>3, <2>4
<1> QED
  BY <1>4, <1>5

(* The body of a record that is cut off cannot be read.                      *)
BodyLost(m, r, mid, to) == ~ UnpackBody(m, mid, HeaderOf(r, to - mid)).ok

(* A question or a record that is cut off: it can be neither read nor skipped,  *)
(* though the header of a record may be whole.                              *)
ItemLost(m, entry, from, to) ==
    /\ entry.section = Questions =>
          ~ UnpackFields(m, from, QuestionFields, 0).ok /\ ~ SkipQuestionAt(m, from).ok
    /\ entry.section # Questions =>
          /\ ~ SkipRecord(m, from).ok
          /\ UnpackRecordHeader(m, from).ok =>
                \E mid : HeaderThere(m, entry.item, from, mid, to) /\ BodyLost(m, entry.item, mid, to)

(* What would be the same in the message, and ends behind the beginning, has  *)
(* not been read.                                                           *)
LEMMA EndsBehind ==
    ASSUME NEW r, NEW s, NEW n \in Nat, SameRead(r, s, n), NEW value, NEW to \in Nat, n < to, s = Found(value, to)
    PROVE  ~ r.ok
<1> SUFFICES ASSUME r.ok PROVE FALSE
  OBVIOUS
<1>1. r = Found(value, to) /\ r.next <= n
  BY DEF SameRead
<1>2. r.next = to
  BY <1>1 DEF Found
<1> QED
  BY <1>1, <1>2

(* The body of a record that goes beyond the beginning.                      *)
LEMMA CutBodyIsLost ==
    ASSUME NEW m, NEW whole, Begins(m, whole), NEW r, NEW mid \in Nat, NEW to \in Nat,
           BodyThere(whole, r, mid, to), mid <= Len(m), Len(m) < to
    PROVE  BodyLost(m, r, mid, to)
<1> DEFINE n == Len(m)
           layout == BodyFields(r.type)
           length == to - mid
           f == UnpackFields(m, mid, layout, length)
           g == UnpackFields(whole, mid, layout, length)
           h == HeaderOf(r, length)
<1>1. n \in Nat
  BY BeginsLengths
<1>2. Len(layout) \in Nat
  BY BodyKinds
<1>3. length \in Nat
  BY <1>1
<1>4. g = Found(r.body, to)
  BY DEF BodyThere
<1>5. h.type = r.type /\ h.length = length
  BY DEF HeaderOf
<1>6. UnpackBody(m, mid, h) = EndingAt(f, mid + length)
  BY <1>5 DEF UnpackBody
<1> HIDE DEF length, layout
<1>7. SameRead(f, g, n)
  BY <1>2, <1>3, BeginsFields
<1> HIDE DEF f, g
<1>8. ~ f.ok
  <2> DEFINE value == r.body
  <2>1. g = Found(value, to)
    BY <1>4
  <2> HIDE DEF value, n
  <2>2. n < to
    BY DEF n
  <2> QED
    BY <1>1, <1>7, <2>1, <2>2, EndsBehind
<1>9. EndingAt(f, mid + length) = Failure
  BY <1>8 DEF EndingAt
<1>10. ~ Failure.ok
  BY DEF Failure
<1> QED
  BY <1>6, <1>9, <1>10 DEF BodyLost, length

(* An item that begins within what has arrived of a message, and goes beyond.   *)
LEMMA CutItemIsLost ==
    ASSUME NEW m, NEW whole, Begins(m, whole), NEW entry, NEW from, NEW to, ItemThere(whole, entry, from, to),
           from <= Len(m), Len(m) < to
    PROVE  ItemLost(m, entry, from, to)
<1> DEFINE n == Len(m)
           r == entry.item
           none == <<>>
<1>1. n \in Nat /\ from \in Nat /\ to \in Nat /\ n < to
  BY BeginsLengths DEF ItemThere
<1>2. ASSUME entry.section = Questions
      PROVE  ~ UnpackFields(m, from, QuestionFields, 0).ok /\ ~ SkipQuestionAt(m, from).ok
  <2> DEFINE layout == QuestionFields
             zero == 0
             a == UnpackFields(m, from, layout, zero)
             b == UnpackFields(whole, from, layout, zero)
             c == SkipQuestionAt(m, from)
             d == SkipQuestionAt(whole, from)
  <2>1. b = Found(r, to) /\ d = Found(none, to)
    BY <1>2 DEF ItemThere, QuestionThere
  <2>2. Len(layout) \in Nat /\ zero \in Nat
    BY DEF QuestionFields
  <2> HIDE DEF layout, zero
  <2>3. SameRead(a, b, n) /\ SameRead(c, d, n)
    BY <1>1, <2>2, BeginsFields, BeginsSkips
  <2> HIDE DEF a, b, c, d, n, r, none
  <2>4. ~ a.ok /\ ~ c.ok
    BY <1>1, <2>1, <2>3, EndsBehind
  <2> QED
    BY <2>4 DEF a, c, layout, zero
<1>3. ASSUME entry.section # Questions
      PROVE  /\ ~ SkipRecord(m, from).ok
             /\ UnpackRecordHeader(m, from).ok =>
                   \E mid : HeaderThere(m, r, from, mid, to) /\ BodyLost(m, r, mid, to)
  <2> DEFINE a == UnpackRecordHeader(m, from)
             b == UnpackRecordHeader(whole, from)
             c == SkipRecord(m, from)
             d == SkipRecord(whole, from)
  <2>1. RecordThere(whole, r, from, to)
    BY <1>3 DEF ItemThere
  <2>2. PICK mid : HeaderThere(whole, r, from, mid, to) /\ BodyThere(whole, r, mid, to)
    BY <2>1 DEF RecordThere
  <2>3. d = Found(none, to)
    BY <2>1 DEF RecordThere
  <2>4. SameRead(a, b, n) /\ SameRead(c, d, n)
    BY <1>1, BeginsHeader, BeginsSkips
  <2> HIDE DEF c, d, none
  <2>5. ~ c.ok
    <3> HIDE DEF n
    <3> QED
      BY <1>1, <2>3, <2>4, EndsBehind
  <2>6. ASSUME a.ok PROVE HeaderThere(m, r, from, mid, to) /\ BodyLost(m, r, mid, to)
    <3> DEFINE h == HeaderOf(r, to - mid)
    <3>1. mid \in Nat /\ mid <= to /\ b = Found(h, mid)
      BY <2>2 DEF HeaderThere
    <3>2. a = b /\ a.next <= n
      BY <2>4, <2>6 DEF SameRead
    <3>3. a.next = mid
      BY <3>1, <3>2 DEF Found
    <3>4. HeaderThere(m, r, from, mid, to)
      BY <3>1, <3>2 DEF HeaderThere
    <3> HIDE DEF r, n
    <3>5. BodyLost(m, r, mid, to)
      BY <1>1, <2>2, <3>1, <3>2, <3>3, CutBodyIsLost DEF n
    <3> QED
      BY <3>4, <3>5
  <2> QED
    BY <2>5, <2>6 DEF c
<1> QED
  BY <1>2, <1>3 DEF ItemLost

(* The fields of a parser.                                                  *)
IsParser(p) ==
    p \in [msg : {p.msg}, head : {p.head}, counts : {p.counts}, section : {p.section}, off : {p.off},
          index : {p.index}, hasHeader : {p.hasHeader}, header : {p.header}, err : {p.err}, item : {p.item}]

(* The same message.                                                        *)
SameMessage(p, new) ==
    IsParser(new) /\ new.msg = p.msg /\ new.head = p.head /\ new.counts = p.counts

(* A parser that is where it was.                                            *)
Stays(p, new) ==
    /\ SameMessage(p, new) /\ new.section = p.section /\ new.off = p.off /\ new.index = p.index
    /\ new.hasHeader = p.hasHeader /\ new.header = p.header

(* A parser that begins the next section.                                    *)
Moves(p, new) ==
    /\ SameMessage(p, new) /\ new.section = p.section + 1 /\ new.off = p.off /\ new.index = 0
    /\ new.hasHeader = FALSE

(* A parser that has read a header.                                          *)
Heads(p, new, header, mid) ==
    /\ SameMessage(p, new) /\ new.section = p.section /\ new.off = mid /\ new.index = p.index
    /\ new.hasHeader = TRUE /\ new.header = header

(* A parser that is behind an item.                                          *)
Passes(p, new, next, item) ==
    /\ SameMessage(p, new) /\ new.section = p.section /\ new.off = next /\ new.index = p.index + 1
    /\ new.hasHeader = FALSE /\ new.err = "none" /\ new.item = item

(* Setting the error of a parser leaves it where it was.                    *)
LEMMA ErrorIs ==
    ASSUME NEW p, IsParser(p), NEW err
    PROVE  Stays(p, Error(p, err)) /\ Error(p, err).err = err /\ Error(p, err).item = NoItem
BY DEF IsParser, Error, Stays, SameMessage

(* A parser that has taken an item is behind it.                            *)
LEMMA PastIs ==
    ASSUME NEW p, IsParser(p), NEW next, NEW item
    PROVE  Passes(p, Past(p, next, item), next, item)
BY DEF IsParser, Past, Passes, SameMessage

(* What a parser that has not moved does next, it does from where it was.   *)
LEMMA StaysMore ==
    ASSUME NEW p, NEW q, NEW new, Stays(p, q)
    PROVE  /\ Stays(q, new) => Stays(p, new)
           /\ Moves(q, new) => Moves(p, new)
           /\ \A header, mid : Heads(q, new, header, mid) => Heads(p, new, header, mid)
           /\ \A next, item : Passes(q, new, next, item) => Passes(p, new, next, item)
BY DEF Stays, Moves, Heads, Passes, SameMessage

(* What the check before a call makes of a parser.                            *)
LEMMA CheckIs ==
    ASSUME NEW p, IsParser(p), p.hasHeader \in BOOLEAN, NEW section \in Int, p.section \in Int,
           p.section = section => ~ p.hasHeader
    PROVE  \/ /\ p.section # section
              /\ Stays(p, CheckAdvance(p, section)) /\ CheckAdvance(p, section).err \in {"not started", "section done"}
           \/ /\ p.section = section /\ p.index = p.counts[section]
              /\ Moves(p, CheckAdvance(p, section)) /\ CheckAdvance(p, section).err = "section done"
           \/ /\ p.section = section /\ p.index # p.counts[section]
              /\ Stays(p, CheckAdvance(p, section)) /\ CheckAdvance(p, section).err = "none"
<1> DEFINE new == CheckAdvance(p, section)
<1>1. CASE p.section < section
  <2>1. new = Error(p, "not started")
    BY <1>1 DEF CheckAdvance
  <2>2. p.section # section
    BY <1>1
  <2>3. Stays(p, new) /\ new.err = "not started"
    BY <2>1, ErrorIs
  <2> HIDE DEF new
  <2>4. p.section # section /\ Stays(p, new) /\ new.err \in {"not started", "section done"}
    BY <2>2, <2>3
  <2> QED
    BY <2>4 DEF new
<1>2. CASE p.section > section
  <2>1. ~ (p.section < section) /\ p.section # section
    BY <1>2
  <2>2. new = Error(p, "section done")
    BY <1>2, <2>1 DEF CheckAdvance
  <2>3. Stays(p, new) /\ new.err = "section done"
    BY <2>2, ErrorIs
  <2> HIDE DEF new
  <2>4. p.section # section /\ Stays(p, new) /\ new.err \in {"not started", "section done"}
    BY <2>1, <2>3
  <2> QED
    BY <2>4 DEF new
<1>3. CASE p.section = section
  <2>1. ~ (p.section < section) /\ ~ (p.section > section) /\ p.hasHeader = FALSE
    BY <1>3
  <2>2. CASE p.index = p.counts[section]
    <3> DEFINE q == Error(p, "section done")
    <3>1. new = [q EXCEPT !.hasHeader = FALSE, !.index = 0, !.section = @ + 1]
      BY <2>1, <2>2 DEF CheckAdvance
    <3>2. Stays(p, q) /\ q.err = "section done"
      BY ErrorIs
    <3> HIDE DEF q, new
    <3>3. Moves(p, new) /\ new.err = "section done"
      BY <3>1, <3>2 DEF Stays, Moves, SameMessage, IsParser
    <3> QED
      BY <1>3, <2>2, <3>3 DEF new
  <2>3. CASE p.index # p.counts[section]
    <3> DEFINE q == Error(p, "none")
    <3>1. new = [q EXCEPT !.hasHeader = FALSE]
      BY <2>1, <2>3 DEF CheckAdvance
    <3>2. Stays(p, q) /\ q.err = "none"
      BY ErrorIs
    <3> HIDE DEF q, new
    <3>3. Stays(p, new) /\ new.err = "none"
      BY <2>1, <3>1, <3>2 DEF Stays, SameMessage, IsParser
    <3> QED
      BY <1>3, <2>3, <3>3 DEF new
  <2> QED
    BY <2>2, <2>3
<1>4. p.section < section \/ p.section > section \/ p.section = section
  OBVIOUS
<1> QED
  BY <1>1, <1>2, <1>3, <1>4

(* Taking what a call has found: behind it, or where it was with an error.  *)
LEMMA TakenIs ==
    ASSUME NEW p, IsParser(p), NEW found
    PROVE  /\ p.err # "none" => Taken(p, found) = p
           /\ p.err = "none" /\ found.ok => Passes(p, Taken(p, found), found.next, found.value)
           /\ p.err = "none" /\ ~ found.ok => Stays(p, Taken(p, found)) /\ Taken(p, found).err = "bad"
<1>1. Passes(p, Past(p, found.next, found.value), found.next, found.value)
  BY PastIs
<1>2. Stays(p, Error(p, "bad")) /\ Error(p, "bad").err = "bad"
  BY ErrorIs
<1> QED
  BY <1>1, <1>2 DEF Taken

(* The same for a header that a call has found.                             *)
LEMMA HeaderTakenIs ==
    ASSUME NEW p, IsParser(p), NEW found
    PROVE  /\ p.err # "none" => HeaderTaken(p, found) = p
           /\ p.err = "none" /\ found.ok =>
                 Heads(p, HeaderTaken(p, found), found.value, found.next) /\ HeaderTaken(p, found).err = "none"
           /\ p.err = "none" /\ ~ found.ok => Stays(p, HeaderTaken(p, found)) /\ HeaderTaken(p, found).err = "bad"
<1>1. Stays(p, Error(p, "bad")) /\ Error(p, "bad").err = "bad"
  BY ErrorIs
<1>2. ASSUME p.err = "none", found.ok
      PROVE  Heads(p, HeaderTaken(p, found), found.value, found.next) /\ HeaderTaken(p, found).err = "none"
  <2>1. HeaderTaken(p, found) = [p EXCEPT !.hasHeader = TRUE, !.header = found.value, !.off = found.next]
    BY <1>2 DEF HeaderTaken
  <2> QED
    BY <1>2, <2>1 DEF Heads, SameMessage, IsParser
<1>3. p.err = "none" /\ ~ found.ok => HeaderTaken(p, found) = Error(p, "bad")
  BY DEF HeaderTaken
<1>4. p.err # "none" => HeaderTaken(p, found) = p
  BY DEF HeaderTaken
<1> QED
  BY <1>1, <1>2, <1>3, <1>4

(* A message has arrived whose items end at some places; those that have       *)
(* arrived as a whole are there.                                            *)
Arrived(m, counts, items, n, ends) ==
    /\ m \in Bytes /\ counts \in [Sections -> Nat]
    /\ n \in Nat /\ n = Len(items) /\ items \in Seq(BuiltEntries) /\ Ordered(counts, items)
    /\ ends \in [0 .. n -> Nat]
    /\ \A i \in 1 .. n : ends[i] <= Len(m) => ItemThere(m, items[i], ends[i - 1], ends[i])
    /\ \A i \in 1 .. n : ends[i - 1] <= Len(m) /\ Len(m) < ends[i] => ItemLost(m, items[i], ends[i - 1], ends[i])

(* The header of the next item has been read.                                *)
HeaderHeld(p, m, counts, items, ends, k) ==
    /\ p.section \in RecordSections /\ p.index # counts[p.section]
    /\ p.off \in Nat /\ p.off <= ends[k + 1]
    /\ p.header = HeaderOf(items[k + 1].item, ends[k + 1] - p.off)
    /\ ends[k + 1] <= Len(m) => BodyThere(m, items[k + 1].item, p.off, ends[k + 1])
    /\ Len(m) < ends[k + 1] => BodyLost(m, items[k + 1].item, p.off, ends[k + 1])

(* A parser of the message that is behind the first k items.                  *)
Follows(p, m, counts, items, n, ends, k) ==
    /\ IsParser(p) /\ p.msg = m /\ p.counts = counts /\ p.hasHeader \in BOOLEAN
    /\ p.section \in 2 .. 6 /\ p.index \in Nat
    /\ p.section \in Sections => p.index <= counts[p.section]
    /\ p.section \notin Sections => p.index = 0
    /\ k = CountBefore(counts, p.section) + p.index
    /\ ends[k] <= Len(m)
    /\ ~ p.hasHeader => p.off = ends[k]
    /\ p.hasHeader => HeaderHeld(p, m, counts, items, ends, k)

(* A parser that follows the message is behind no more items than there     *)
(* are, and the next one is of its section if the section has one left.     *)
LEMMA FollowsWithin ==
    ASSUME NEW m, NEW counts, NEW items, NEW n, NEW ends, Arrived(m, counts, items, n, ends),
           NEW p, NEW k, Follows(p, m, counts, items, n, ends, k)
    PROVE  /\ k \in Nat /\ n \in Nat /\ k <= n
           /\ p.section \in Sections /\ p.index # counts[p.section] =>
                 k + 1 \in 1 .. n /\ (k + 1) - 1 = k /\ k \in 0 .. n /\ k + 1 \in 0 .. n /\ items[k + 1].section = p.section
<1> DEFINE F(s) == CountBefore(counts, s)
           s == p.section
           x == p.index
<1>1. Sections = 2 .. 5
  BY SectionsAre
<1>2. counts \in [Sections -> Nat] /\ n \in Nat /\ n = Len(items) /\ Ordered(counts, items)
  BY DEF Arrived
<1>3. /\ \A t \in 1 .. 6 : F(t) \in Nat
      /\ \A t \in Sections : F(t + 1) = F(t) + counts[t]
      /\ \A t, u \in 1 .. 6 : t <= u => F(t) <= F(u)
  BY <1>2, CountsAre
<1>4. /\ F(6) = n
      /\ \A i \in 1 .. n, t \in Sections : items[i].section = t <=> F(t) < i /\ i <= F(t + 1)
  BY <1>2 DEF Ordered
<1>5. /\ s \in 2 .. 6 /\ x \in Nat /\ k = F(s) + x
      /\ s \in Sections => x <= counts[s]
      /\ s \notin Sections => x = 0
  BY DEF Follows
<1> HIDE DEF F, s, x
<1>6. s \in 1 .. 6 /\ F(s) \in Nat /\ k \in Nat
  BY <1>3, <1>5
<1>7. CASE s \in Sections
  <2> DEFINE c == counts[s]
             a == F(s)
             b == F(s + 1)
  <2>1. c \in Nat /\ a \in Nat /\ b = a + c /\ x <= c /\ k = a + x /\ b <= n
    <3>1. s + 1 \in 1 .. 6 /\ 6 \in 1 .. 6 /\ s + 1 <= 6
      BY <1>1, <1>7
    <3>2. F(s + 1) <= F(6)
      BY <1>3, <3>1
    <3> QED
      BY <1>2, <1>3, <1>4, <1>5, <1>6, <1>7, <3>2
  <2>2. \A i \in 1 .. n : items[i].section = s <=> a < i /\ i <= b
    BY <1>4, <1>7
  <2> HIDE DEF a, b, c
  <2>3. k <= n
    BY <1>2, <1>5, <2>1
  <2>4. ASSUME x # c
        PROVE  k + 1 \in 1 .. n /\ (k + 1) - 1 = k /\ k \in 0 .. n /\ k + 1 \in 0 .. n /\ items[k + 1].section = s
    <3>1. k + 1 \in 1 .. n /\ (k + 1) - 1 = k /\ k \in 0 .. n /\ k + 1 \in 0 .. n /\ a < k + 1 /\ k + 1 <= b
      BY <1>2, <1>5, <2>1, <2>4
    <3> QED
      BY <2>2, <3>1
  <2> QED
    BY <1>2, <1>6, <2>3, <2>4 DEF c, s, x
<1>8. CASE s \notin Sections
  <2>1. s = 6 /\ x = 0
    BY <1>1, <1>5, <1>8
  <2>2. k = n
    BY <1>2, <1>4, <1>5, <2>1
  <2>3. k <= n
    BY <1>2, <2>2
  <2> QED
    BY <1>2, <1>6, <1>8, <2>3 DEF s
<1> QED
  BY <1>7, <1>8

(* A parser that stays follows the message as before.                       *)
LEMMA StaysFollows ==
    ASSUME NEW m, NEW counts, NEW items, NEW n, NEW ends, NEW p, NEW k, Follows(p, m, counts, items, n, ends, k),
           NEW new, Stays(p, new)
    PROVE  Follows(new, m, counts, items, n, ends, k)
BY DEF Stays, SameMessage, Follows, HeaderHeld

(* At the end of a section, moving to the next one leaves the parser behind *)
(* the same items.                                                          *)
LEMMA MovesFollows ==
    ASSUME NEW m, NEW counts, NEW items, NEW n, NEW ends, Arrived(m, counts, items, n, ends),
           NEW p, NEW k, Follows(p, m, counts, items, n, ends, k),
           p.section \in Sections, p.index = counts[p.section], ~ p.hasHeader, NEW new, Moves(p, new)
    PROVE  Follows(new, m, counts, items, n, ends, k)
<1> DEFINE s == p.section
           t == new.section
<1>1. Sections = 2 .. 5 /\ counts \in [Sections -> Nat]
  BY SectionsAre DEF Arrived
<1>2. t = s + 1 /\ new.index = 0 /\ new.off = p.off /\ new.hasHeader = FALSE /\ IsParser(new)
      /\ new.msg = m /\ new.counts = counts
  BY DEF Moves, SameMessage, Follows
<1>3. k = CountBefore(counts, s) + counts[s] /\ p.off = ends[k]
  BY DEF Follows
<1>4. CountBefore(counts, s + 1) = CountBefore(counts, s) + counts[s] /\ counts[s] \in Nat
      /\ CountBefore(counts, s + 1) \in Nat
  <2>1. s + 1 \in 1 .. 6
    BY <1>1
  <2> QED
    BY <1>1, <2>1, CountsAre
<1>5. s \in Sections
  OBVIOUS
<1> HIDE DEF s, t
<1>6. t \in 2 .. 6 /\ (t \in Sections => 0 <= counts[t])
  BY <1>1, <1>2, <1>5
<1>7. k = CountBefore(counts, t) + 0
  BY <1>2, <1>3, <1>4
<1>8. new.off = ends[k] /\ 0 \in Nat
  BY <1>2, <1>3
<1>9. /\ new.section = t /\ (new.section \in Sections => new.index <= counts[new.section])
      /\ k = CountBefore(counts, new.section) + new.index
  BY <1>2, <1>6, <1>7 DEF t
<1> QED
  BY <1>2, <1>6, <1>8, <1>9 DEF Follows

(* A parser that has read the header of the next item follows the message.  *)
LEMMA HeadsFollows ==
    ASSUME NEW m, NEW counts, NEW items, NEW n, NEW ends, NEW p, NEW k, Follows(p, m, counts, items, n, ends, k),
           p.section \in RecordSections, p.index # counts[p.section],
           NEW mid \in Nat, mid <= ends[k + 1],
           ends[k + 1] <= Len(m) => BodyThere(m, items[k + 1].item, mid, ends[k + 1]),
           Len(m) < ends[k + 1] => BodyLost(m, items[k + 1].item, mid, ends[k + 1]),
           NEW new, Heads(p, new, HeaderOf(items[k + 1].item, ends[k + 1] - mid), mid)
    PROVE  Follows(new, m, counts, items, n, ends, k)
BY DEF Heads, SameMessage, Follows, HeaderHeld

(* A parser that passes the next item is behind one more.                   *)
LEMMA PassesFollows ==
    ASSUME NEW m, NEW counts, NEW items, NEW n, NEW ends, Arrived(m, counts, items, n, ends),
           NEW p, NEW k, Follows(p, m, counts, items, n, ends, k),
           p.section \in Sections, p.index # counts[p.section], ends[k + 1] <= Len(m),
           NEW new, NEW item, Passes(p, new, ends[k + 1], item)
    PROVE  Follows(new, m, counts, items, n, ends, k + 1)
<1> DEFINE s == p.section
           x == p.index
           c == counts[s]
           a == CountBefore(counts, s)
<1>1. Sections = 2 .. 5 /\ counts \in [Sections -> Nat]
  BY SectionsAre DEF Arrived
<1>2. /\ new.section = s /\ new.index = x + 1 /\ new.off = ends[k + 1] /\ new.hasHeader = FALSE /\ IsParser(new)
      /\ new.msg = m /\ new.counts = counts
  BY DEF Passes, SameMessage, Follows
<1>3. k = a + x /\ x \in Nat /\ x <= c /\ s \in 2 .. 6
  BY DEF Follows
<1>4. c \in Nat /\ a \in Nat /\ x # c /\ s \in Sections
  <2>1. s \in 1 .. 6
    BY <1>3
  <2> QED
    BY <1>1, <2>1, CountsAre
<1> HIDE DEF s, x, c, a
<1>5. k + 1 = a + (x + 1) /\ x + 1 \in Nat /\ x + 1 <= c
  BY <1>3, <1>4
<1> QED
  BY <1>2, <1>3, <1>4, <1>5 DEF Follows, a, c, s

(* A parser of the message behind its first k items that has met no error.    *)
Behind(p, m, counts, items, n, ends, k) ==
    Arrived(m, counts, items, n, ends) /\ Follows(p, m, counts, items, n, ends, k) /\ p.err = "none"

(* The next item of its section, if that has one, has arrived as a whole.    *)
Reaches(p, m, counts, items, n, ends, k) ==
    /\ Behind(p, m, counts, items, n, ends, k)
    /\ p.section \in Sections /\ p.index # counts[p.section] => ends[k + 1] <= Len(m)

(* The next item of the section of a parser.                                 *)
HasNext(p, counts) == p.section \in Sections /\ p.index # counts[p.section]

(* A call that goes on to the next item if that is what it returns.           *)
Goes(p, new, m, counts, items, n, ends, k, how) ==
    /\ new.err # "bad"
    /\ \/ new.index # p.index + 1 /\ Follows(new, m, counts, items, n, ends, k)
       \/ /\ new.index = p.index + 1 /\ HasNext(p, counts)
          /\ how = "read" => new.item = items[k + 1].item
          /\ Follows(new, m, counts, items, n, ends, k + 1)

(* The next item of the section of a parser is there.                       *)
LEMMA NextItem ==
    ASSUME NEW m, NEW counts, NEW items, NEW n, NEW ends, NEW p, NEW k,
           Reaches(p, m, counts, items, n, ends, k), HasNext(p, counts)
    PROVE  /\ ItemThere(m, items[k + 1], ends[k], ends[k + 1]) /\ items[k + 1].section = p.section
           /\ p.section # Questions => p.section \in RecordSections /\ IsRecord(items[k + 1].item)
           /\ ends[k + 1] \in Nat /\ ends[k + 1] <= Len(m)
           /\ k + 1 \in 1 .. n
<1> DEFINE i == k + 1
<1>1. Arrived(m, counts, items, n, ends) /\ Follows(p, m, counts, items, n, ends, k) /\ ends[i] <= Len(m)
  BY DEF Reaches, Behind, HasNext
<1>2. i \in 1 .. n /\ i - 1 = k /\ i \in 0 .. n /\ items[i].section = p.section
  BY <1>1, FollowsWithin DEF HasNext
<1>3. /\ ends \in [0 .. n -> Nat] /\ items \in Seq(BuiltEntries) /\ n = Len(items)
      /\ \A j \in 1 .. n : ends[j] <= Len(m) => ItemThere(m, items[j], ends[j - 1], ends[j])
  BY <1>1 DEF Arrived
<1> HIDE DEF i
<1>4. ItemThere(m, items[i], ends[k], ends[i]) /\ ends[i] \in Nat
  BY <1>1, <1>2, <1>3
<1>5. items[i] \in BuiltEntries
  <2> DEFINE V == BuiltEntries
  <2>1. items \in Seq(V) /\ i \in 1 .. Len(items)
    BY <1>2, <1>3
  <2> HIDE DEF V
  <2>2. items[i] \in V
    BY <2>1, ElementOfSeq
  <2> QED
    BY <2>2 DEF V
<1>6. ASSUME p.section # Questions PROVE p.section \in RecordSections /\ IsRecord(items[i].item)
  <2>1. items[i] \in [section : RecordSections, item : RecordItems]
    BY <1>2, <1>5, <1>6 DEF BuiltEntries
  <2> QED
    BY <1>2, <2>1, ItemsAre
<1> QED
  BY <1>1, <1>2, <1>4, <1>6 DEF i

(* A call whose answer is the next item.                                     *)
LEMMA PassesGoes ==
    ASSUME NEW m, NEW counts, NEW items, NEW n, NEW ends, NEW p, NEW k,
           Reaches(p, m, counts, items, n, ends, k), HasNext(p, counts),
           NEW new, NEW item, Passes(p, new, ends[k + 1], item), NEW how, how = "read" => item = items[k + 1].item
    PROVE  Goes(p, new, m, counts, items, n, ends, k, how)
<1>1. Follows(new, m, counts, items, n, ends, k + 1)
  BY PassesFollows DEF Reaches, Behind, HasNext
<1>2. new.index = p.index + 1 /\ new.err = "none" /\ new.item = item
  BY DEF Passes
<1> QED
  BY <1>1, <1>2 DEF Goes

(* A call that leaves the parser where it is.                               *)
LEMMA StaysGoes ==
    ASSUME NEW m, NEW counts, NEW items, NEW n, NEW ends, NEW p, NEW k,
           Behind(p, m, counts, items, n, ends, k), NEW new, Stays(p, new), new.err # "bad", NEW how
    PROVE  Goes(p, new, m, counts, items, n, ends, k, how)
<1>1. Follows(new, m, counts, items, n, ends, k)
  BY StaysFollows DEF Behind
<1>2. new.index = p.index /\ p.index \in Nat
  BY DEF Stays, Behind, Follows
<1>3. new.index # p.index + 1
  BY <1>2
<1> QED
  BY <1>1, <1>3 DEF Goes

(* A call that finds its section at its end.                                *)
LEMMA MovesGoes ==
    ASSUME NEW m, NEW counts, NEW items, NEW n, NEW ends, NEW p, NEW k,
           Behind(p, m, counts, items, n, ends, k), NEW new, Moves(p, new), new.err # "bad", NEW how,
           p.section \in Sections, p.index = counts[p.section], ~ p.hasHeader
    PROVE  Goes(p, new, m, counts, items, n, ends, k, how)
<1>1. Follows(new, m, counts, items, n, ends, k)
  BY MovesFollows DEF Behind
<1>2. new.index = 0 /\ p.index \in Nat
  BY DEF Moves, Behind, Follows
<1>3. new.index # p.index + 1
  BY <1>2
<1> QED
  BY <1>1, <1>3 DEF Goes

(* The check before a call goes on to the next section or finds an item.       *)
LEMMA CheckGoes ==
    ASSUME NEW m, NEW counts, NEW items, NEW n, NEW ends, NEW p, NEW k,
           Behind(p, m, counts, items, n, ends, k), NEW how,
           NEW section \in Sections, p.section = section => ~ p.hasHeader
    PROVE  \/ /\ Goes(p, CheckAdvance(p, section), m, counts, items, n, ends, k, how)
              /\ CheckAdvance(p, section).err # "none" /\ IsParser(CheckAdvance(p, section))
              /\ CheckAdvance(p, section).index # p.index + 1
              /\ Follows(CheckAdvance(p, section), m, counts, items, n, ends, k)
              /\ ~ p.hasHeader => ~ CheckAdvance(p, section).hasHeader
              /\ ~ (HasNext(p, counts) /\ p.section = section)
           \/ /\ HasNext(p, counts) /\ p.section = section /\ p.off = ends[k]
              /\ Stays(p, CheckAdvance(p, section)) /\ CheckAdvance(p, section).err = "none"
<1> DEFINE new == CheckAdvance(p, section)
<1>1. /\ IsParser(p) /\ p.hasHeader \in BOOLEAN /\ p.section \in Int /\ section \in Int
      /\ p.counts = counts /\ (~ p.hasHeader => p.off = ends[k]) /\ p.index \in Nat
  BY SectionsAre DEF Behind, Follows
<1>2. \/ p.section # section /\ Stays(p, new) /\ new.err \in {"not started", "section done"}
      \/ p.section = section /\ p.index = p.counts[section] /\ Moves(p, new) /\ new.err = "section done"
      \/ p.section = section /\ p.index # p.counts[section] /\ Stays(p, new) /\ new.err = "none"
  BY <1>1, CheckIs
<1> HIDE DEF new
<1>3. CASE p.section # section /\ Stays(p, new) /\ new.err \in {"not started", "section done"}
  <2>1. new.err # "bad" /\ new.err # "none"
    BY <1>3
  <2>2. Goes(p, new, m, counts, items, n, ends, k, how)
    BY <1>3, <2>1, StaysGoes
  <2>3. Follows(new, m, counts, items, n, ends, k)
    BY <1>3, StaysFollows DEF Behind
  <2>4. IsParser(new) /\ new.index = p.index /\ new.hasHeader = p.hasHeader
    BY <1>3 DEF Stays, SameMessage
  <2>5. new.index # p.index + 1
    BY <1>1, <2>4
  <2>6. ~ (HasNext(p, counts) /\ p.section = section)
    BY <1>3
  <2> QED
    BY <2>1, <2>2, <2>3, <2>4, <2>5, <2>6 DEF new
<1>4. CASE p.section = section /\ p.index = p.counts[section] /\ Moves(p, new) /\ new.err = "section done"
  <2>1. new.err # "bad" /\ new.err # "none" /\ ~ p.hasHeader /\ p.section \in Sections /\ p.index = counts[p.section]
    BY <1>1, <1>4
  <2>2. Goes(p, new, m, counts, items, n, ends, k, how)
    BY <1>4, <2>1, MovesGoes
  <2>3. Follows(new, m, counts, items, n, ends, k)
    BY <1>4, <2>1, MovesFollows DEF Behind
  <2>4. IsParser(new) /\ new.index = 0 /\ new.hasHeader = FALSE
    BY <1>4 DEF Moves, SameMessage
  <2>5. new.index # p.index + 1
    BY <1>1, <2>4
  <2>6. ~ (HasNext(p, counts) /\ p.section = section)
    BY <2>1 DEF HasNext
  <2> QED
    BY <2>1, <2>2, <2>3, <2>4, <2>5, <2>6 DEF new
<1>5. CASE p.section = section /\ p.index # p.counts[section] /\ Stays(p, new) /\ new.err = "none"
  <2>1. HasNext(p, counts) /\ p.off = ends[k]
    BY <1>1, <1>5 DEF HasNext
  <2> QED
    BY <1>5, <2>1 DEF new
<1> QED
  BY <1>2, <1>3, <1>4, <1>5

(* The calls that take an item, or its header, by what they find.             *)
LEMMA TakenGoes ==
    ASSUME NEW m, NEW counts, NEW items, NEW n, NEW ends, NEW p, NEW k,
           Reaches(p, m, counts, items, n, ends, k), NEW how,
           NEW section \in Sections, p.section = section => ~ p.hasHeader,
           NEW found, NEW item, how = "read" => item = items[k + 1].item,
           HasNext(p, counts) /\ p.section = section /\ p.off = ends[k] => found = Found(item, ends[k + 1])
    PROVE  Goes(p, Taken(CheckAdvance(p, section), found), m, counts, items, n, ends, k, how)
<1> DEFINE q == CheckAdvance(p, section)
           new == Taken(q, found)
<1>1. \/ Goes(p, q, m, counts, items, n, ends, k, how) /\ q.err # "none" /\ IsParser(q)
      \/ HasNext(p, counts) /\ p.section = section /\ p.off = ends[k] /\ Stays(p, q) /\ q.err = "none"
  BY CheckGoes DEF Reaches
<1> HIDE DEF q
<1>2. CASE Goes(p, q, m, counts, items, n, ends, k, how) /\ q.err # "none" /\ IsParser(q)
  <2>1. new = q
    BY <1>2, TakenIs
  <2> HIDE DEF new
  <2> QED
    BY <1>2, <2>1 DEF new, q
<1>3. CASE HasNext(p, counts) /\ p.section = section /\ p.off = ends[k] /\ Stays(p, q) /\ q.err = "none"
  <2>1. found.ok /\ found.next = ends[k + 1] /\ found.value = item
    BY <1>3 DEF Found
  <2>2. IsParser(q)
    BY <1>3 DEF Stays, SameMessage
  <2>3. Passes(q, new, found.next, found.value)
    BY <1>3, <2>1, <2>2, TakenIs
  <2> HIDE DEF new
  <2>4. Passes(p, new, ends[k + 1], item)
    BY <1>3, <2>1, <2>3, StaysMore
  <2>5. Goes(p, new, m, counts, items, n, ends, k, how)
    BY <1>3, <2>4, PassesGoes
  <2> QED
    BY <2>5 DEF new, q
<1> QED
  BY <1>1, <1>2, <1>3

(* Reading and skipping a question.                                         *)
LEMMA QuestionTaken ==
    ASSUME NEW m, NEW counts, NEW items, NEW n, NEW ends, NEW p, NEW k,
           Reaches(p, m, counts, items, n, ends, k)
    PROVE  /\ Goes(p, ReadQuestion(p), m, counts, items, n, ends, k, "read")
           /\ Goes(p, SkipQuestion(p), m, counts, items, n, ends, k, "skip")
<1> DEFINE section == Questions
           item == items[k + 1].item
           none == <<>>
           r == UnpackFields(p.msg, p.off, QuestionFields, 0)
           s == SkipQuestionAt(p.msg, p.off)
           asRead == "read"
           skip == "skip"
<1>1. section \in Sections /\ (p.section = section => ~ p.hasHeader) /\ p.msg = m
  <2>1. p.hasHeader => p.section \in RecordSections
    BY DEF Reaches, Behind, Follows, HeaderHeld
  <2> QED
    BY <2>1, SectionsAre DEF Reaches, Behind, Follows
<1>2. ASSUME HasNext(p, counts), p.section = section, p.off = ends[k]
      PROVE  r = Found(item, ends[k + 1]) /\ s = Found(none, ends[k + 1])
  <2>1. ItemThere(m, items[k + 1], ends[k], ends[k + 1]) /\ items[k + 1].section = Questions
    BY <1>2, NextItem
  <2>2. QuestionThere(m, item, ends[k], ends[k + 1])
    BY <2>1 DEF ItemThere
  <2> QED
    BY <1>1, <1>2, <2>2 DEF QuestionThere
<1>3. ReadQuestion(p) = Taken(CheckAdvance(p, section), r) /\ SkipQuestion(p) = Taken(CheckAdvance(p, section), s)
  BY DEF ReadQuestion, SkipQuestion
<1>4. asRead = "read" => item = items[k + 1].item
  OBVIOUS
<1>5. skip # "read"
  OBVIOUS
<1> HIDE DEF section, none, r, s, item, asRead, skip
<1>6. Goes(p, Taken(CheckAdvance(p, section), r), m, counts, items, n, ends, k, asRead)
  BY <1>1, <1>2, <1>4, TakenGoes
<1>7. Goes(p, Taken(CheckAdvance(p, section), s), m, counts, items, n, ends, k, skip)
  BY <1>1, <1>2, <1>5, TakenGoes
<1> QED
  BY <1>3, <1>6, <1>7 DEF asRead, skip

(* The header of a record.                                                  *)
HeaderGoes(p, r, m, counts, items, n, ends, k) ==
    /\ IsParser(r) /\ r.err # "bad" /\ r.index = p.index /\ r.section = p.section
    /\ r.err = "none" /\ r.hasHeader /\ Follows(r, m, counts, items, n, ends, k)

(* Reading the header of a record, or finding it read already.              *)
LEMMA ReadHeaderIs ==
    ASSUME NEW m, NEW counts, NEW items, NEW n, NEW ends, NEW p, NEW k,
           Reaches(p, m, counts, items, n, ends, k), NEW section \in RecordSections
    PROVE  \/ /\ Goes(p, ReadHeader(p, section), m, counts, items, n, ends, k, "read")
              /\ ReadHeader(p, section).err # "none" /\ IsParser(ReadHeader(p, section))
              /\ ReadHeader(p, section).index # p.index + 1
              /\ Follows(ReadHeader(p, section), m, counts, items, n, ends, k)
              /\ ~ ReadHeader(p, section).hasHeader
              /\ ~ (HasNext(p, counts) /\ p.section = section)
           \/ HeaderGoes(p, ReadHeader(p, section), m, counts, items, n, ends, k)
<1> DEFINE new == ReadHeader(p, section)
           q == CheckAdvance(p, section)
           found == UnpackRecordHeader(p.msg, p.off)
           asRead == "read"
<1>1. IsParser(p) /\ p.msg = m /\ p.index \in Nat /\ section \in Sections /\ Follows(p, m, counts, items, n, ends, k)
  BY SectionsAre DEF Reaches, Behind, Follows
<1>2. CASE p.hasHeader
  <2>1. new = Error(p, "none")
    BY <1>2 DEF ReadHeader
  <2>2. Stays(p, new) /\ new.err = "none"
    BY <1>1, <2>1, ErrorIs
  <2> HIDE DEF new
  <2>3. Follows(new, m, counts, items, n, ends, k)
    BY <1>1, <2>2, StaysFollows
  <2>4. HeaderGoes(p, new, m, counts, items, n, ends, k)
    BY <1>2, <2>2, <2>3 DEF HeaderGoes, Stays, SameMessage
  <2> QED
    BY <2>4 DEF new
<1>3. CASE ~ p.hasHeader
  <2>1. new = HeaderTaken(q, found)
    BY <1>3 DEF ReadHeader
  <2> HIDE DEF asRead, q
  <2>2. \/ /\ Goes(p, q, m, counts, items, n, ends, k, asRead) /\ q.err # "none" /\ IsParser(q)
           /\ q.index # p.index + 1 /\ Follows(q, m, counts, items, n, ends, k) /\ ~ q.hasHeader
           /\ ~ (HasNext(p, counts) /\ p.section = section)
        \/ HasNext(p, counts) /\ p.section = section /\ p.off = ends[k] /\ Stays(p, q) /\ q.err = "none"
    BY <1>1, <1>3, CheckGoes DEF q, Reaches
  <2>3. CASE /\ Goes(p, q, m, counts, items, n, ends, k, asRead) /\ q.err # "none" /\ IsParser(q)
             /\ q.index # p.index + 1 /\ Follows(q, m, counts, items, n, ends, k) /\ ~ q.hasHeader
             /\ ~ (HasNext(p, counts) /\ p.section = section)
           /\ ~ (HasNext(p, counts) /\ p.section = section)
    <3>1. new = q
      BY <2>1, <2>3, HeaderTakenIs
    <3> HIDE DEF new
    <3> QED
      BY <2>3, <3>1 DEF new, asRead
  <2>4. CASE HasNext(p, counts) /\ p.section = section /\ p.off = ends[k] /\ Stays(p, q) /\ q.err = "none"
    <3> DEFINE r == items[k + 1].item
               to == ends[k + 1]
    <3>1. ItemThere(m, items[k + 1], ends[k], to) /\ items[k + 1].section # Questions
      BY <1>1, <2>4, SectionsAre, NextItem
    <3>2. RecordThere(m, r, ends[k], to)
      BY <3>1 DEF ItemThere
    <3> HIDE DEF r, to
    <3>3. PICK mid : HeaderThere(m, r, ends[k], mid, to) /\ BodyThere(m, r, mid, to)
      BY <3>2 DEF RecordThere
    <3>4. mid \in Nat /\ mid <= to /\ found = Found(HeaderOf(r, to - mid), mid)
      BY <1>1, <2>4, <3>3 DEF HeaderThere
    <3>5. found.ok /\ found.value = HeaderOf(r, to - mid) /\ found.next = mid
      BY <3>4 DEF Found
    <3>6. IsParser(q)
      BY <2>4 DEF Stays, SameMessage
    <3>7. Heads(q, new, found.value, found.next) /\ new.err = "none"
      BY <2>1, <2>4, <3>5, <3>6, HeaderTakenIs
    <3> HIDE DEF new, found
    <3>8. Heads(p, new, HeaderOf(r, to - mid), mid)
      <4> DEFINE h == HeaderOf(r, to - mid)
      <4>1. Heads(q, new, h, mid)
        BY <3>5, <3>7
      <4> HIDE DEF h
      <4>2. Heads(p, new, h, mid)
        BY <2>4, <4>1 DEF Heads, Stays, SameMessage
      <4> QED
        BY <4>2 DEF h
    <3>9. p.section \in RecordSections /\ p.index # counts[p.section]
      BY <2>4 DEF HasNext
    <3>10. Follows(new, m, counts, items, n, ends, k)
      <4>1. mid <= ends[k + 1] /\ BodyThere(m, items[k + 1].item, mid, ends[k + 1])
            /\ Heads(p, new, HeaderOf(items[k + 1].item, ends[k + 1] - mid), mid)
        BY <3>3, <3>4, <3>8 DEF r, to
      <4>2. ~ (Len(m) < ends[k + 1])
        <5>1. to \in Nat /\ to <= Len(m) /\ Len(m) \in Int
          <6>1. m \in Seq(0 .. 255)
            BY DEF Reaches, Behind, Arrived, Bytes
          <6>2. Len(m) \in Nat
            BY <6>1, LenProperties
          <6> QED
            BY <2>4, <6>2, NextItem DEF to
        <5>2. ~ (Len(m) < to)
          BY <5>1
        <5> QED
          BY <5>2 DEF to
      <4> QED
        BY <1>1, <3>4, <3>9, <4>1, <4>2, HeadsFollows
    <3>11. HeaderGoes(p, new, m, counts, items, n, ends, k)
      BY <3>7, <3>8, <3>10 DEF HeaderGoes, Heads, SameMessage
    <3> QED
      BY <3>11 DEF new
  <2> QED
    BY <2>2, <2>3, <2>4
<1> QED
  BY <1>2, <1>3

(* The body of a record whose header has been read.                          *)
LEMMA HeldBody ==
    ASSUME NEW m, NEW counts, NEW items, NEW n, NEW ends, NEW p, NEW k,
           Reaches(p, m, counts, items, n, ends, k), p.hasHeader
    PROVE  /\ HasNext(p, counts)
           /\ p.off + p.header.length = ends[k + 1]
           /\ WithBody(p.header, UnpackBody(p.msg, p.off, p.header)) = Found(items[k + 1].item, ends[k + 1])
           /\ UnpackBytes(p.msg, p.off, p.header.length).ok
           /\ UnpackBytes(p.msg, p.off, p.header.length).next = ends[k + 1]
           /\ SkipTo(p.msg, p.off + p.header.length) = Found(<<>>, ends[k + 1])
<1> DEFINE r == items[k + 1].item
           to == ends[k + 1]
           off == p.off
           h == p.header
<1>1. /\ p.section \in RecordSections /\ p.index # counts[p.section] /\ off \in Nat /\ off <= to
      /\ h = HeaderOf(r, to - off) /\ p.msg = m
      /\ to <= Len(m) => BodyThere(m, r, off, to)
  BY DEF Reaches, Behind, Follows, HeaderHeld
<1>2. HasNext(p, counts) /\ p.section # Questions
  BY <1>1, SectionsAre DEF HasNext
<1>3. to \in Nat /\ to <= Len(m) /\ IsRecord(r)
  BY <1>2, NextItem
<1> HIDE DEF r, to, off, h
<1>4. h.length = to - off /\ h.name = r.name /\ h.type = r.type /\ h.class = r.class /\ h.ttl = r.ttl
  BY <1>1 DEF HeaderOf
<1>5. off + h.length = to
  BY <1>1, <1>3, <1>4
<1>6. UnpackBody(m, off, h) = Found(r.body, to)
  BY <1>1, <1>3 DEF BodyThere
<1>7. WithBody(h, Found(r.body, to)) = Found(r, to)
  <2> DEFINE found == Found(r.body, to)
  <2>1. found.ok /\ found.value = r.body /\ found.next = to
    BY DEF Found
  <2>2. r = [name |-> r.name, type |-> r.type, class |-> r.class, ttl |-> r.ttl, body |-> r.body]
    BY <1>3 DEF IsRecord
  <2> HIDE DEF found
  <2>3. WithBody(h, found) = Found([name |-> h.name, type |-> h.type, class |-> h.class, ttl |-> h.ttl,
                                    body |-> found.value], found.next)
    BY <2>1 DEF WithBody
  <2> QED
    BY <1>4, <2>1, <2>2, <2>3 DEF found
<1>8. Len(m) \in Int
  <2>1. m \in Seq(0 .. 255)
    BY DEF Reaches, Behind, Arrived, Bytes
  <2>2. Len(m) \in Nat
    BY <2>1, LenProperties
  <2> QED
    BY <2>2
<1>9. ~ (to > Len(m))
  BY <1>3, <1>8
<1>10. UnpackBytes(m, off, h.length).ok /\ UnpackBytes(m, off, h.length).next = to
  <2>1. UnpackBytes(m, off, h.length) = Found(Slice(m, off, h.length), to)
    BY <1>5, <1>9 DEF UnpackBytes
  <2> QED
    BY <2>1 DEF Found
<1>11. SkipTo(m, off + h.length) = Found(<<>>, to)
  BY <1>3, <1>5 DEF SkipTo
<1> QED
  BY <1>1, <1>2, <1>5, <1>6, <1>7, <1>10, <1>11 DEF r, to, off, h

(* A call that takes the record whose header has been read.                   *)
LEMMA HeldGoes ==
    ASSUME NEW m, NEW counts, NEW items, NEW n, NEW ends, NEW p, NEW k,
           Reaches(p, m, counts, items, n, ends, k), HasNext(p, counts),
           NEW q, Stays(p, q), q.err = "none",
           NEW found, found.ok, found.next = ends[k + 1], NEW how, how = "read" => found.value = items[k + 1].item
    PROVE  Goes(p, Taken(q, found), m, counts, items, n, ends, k, how)
<1> DEFINE new == Taken(q, found)
<1>1. IsParser(q)
  BY DEF Stays, SameMessage
<1>2. Passes(q, new, found.next, found.value)
  BY <1>1, TakenIs
<1> HIDE DEF new
<1> DEFINE value == found.value
           next == found.next
<1>3. Passes(q, new, next, value)
  BY <1>2
<1> HIDE DEF value, next
<1>4. Passes(p, new, next, value)
  BY <1>3 DEF Passes, Stays, SameMessage
<1>5. next = ends[k + 1] /\ (how = "read" => value = items[k + 1].item)
  BY DEF next, value
<1>6. Goes(p, new, m, counts, items, n, ends, k, how)
  BY <1>4, <1>5, PassesGoes
<1> QED
  BY <1>6 DEF new

(* A parser stays where it is.                                              *)
LEMMA SelfStays ==
    ASSUME NEW p, IsParser(p)
    PROVE  Stays(p, p)
BY DEF Stays, SameMessage

(* Forgetting a header that there is not.                                    *)
Forgotten(p) == [p EXCEPT !.hasHeader = FALSE]

(* Forgetting that a header has been read changes nothing else.             *)
LEMMA ForgottenIs ==
    ASSUME NEW p, IsParser(p), p.hasHeader = FALSE
    PROVE  Stays(p, Forgotten(p)) /\ Forgotten(p).err = p.err /\ Forgotten(p).item = p.item
BY DEF IsParser, Forgotten, Stays, SameMessage

(* Forgetting a header that has been used up.                               *)
LEMMA ForgottenGoes ==
    ASSUME NEW m, NEW counts, NEW items, NEW n, NEW ends, NEW p, NEW k, NEW how,
           NEW new, IsParser(new), new.hasHeader = FALSE, Goes(p, new, m, counts, items, n, ends, k, how)
    PROVE  Goes(p, Forgotten(new), m, counts, items, n, ends, k, how)
<1> DEFINE q == Forgotten(new)
<1>1. Stays(new, q) /\ q.err = new.err /\ q.item = new.item
  BY ForgottenIs
<1> HIDE DEF q
<1>2. q.index = new.index
  BY <1>1 DEF Stays
<1>3. \A j : Follows(new, m, counts, items, n, ends, j) => Follows(q, m, counts, items, n, ends, j)
  BY <1>1, StaysFollows
<1>4. Goes(p, q, m, counts, items, n, ends, k, how)
  BY <1>1, <1>2, <1>3 DEF Goes
<1> QED
  BY <1>4 DEF q

(* Reading the body of a record whose header has been read.                 *)
LEMMA ReadBodyGoes ==
    ASSUME NEW m, NEW counts, NEW items, NEW n, NEW ends, NEW p, NEW k,
           Reaches(p, m, counts, items, n, ends, k)
    PROVE  /\ \A type : Goes(p, ReadBody(p, type), m, counts, items, n, ends, k, "read")
           /\ Goes(p, ReadUnknown(p), m, counts, items, n, ends, k, "bytes")
<1>1. IsParser(p) /\ p.err = "none" /\ Stays(p, p)
  BY SelfStays DEF Reaches, Behind, Follows
<1> DEFINE asRead == "read"
           bytes == "bytes"
           found == WithBody(p.header, UnpackBody(p.msg, p.off, p.header))
           part == UnpackBytes(p.msg, p.off, p.header.length)
           there == WithBody(p.header, part)
           e == Error(p, "not started")
<1>2. bytes # "read"
  OBVIOUS
<1>3. Goes(p, e, m, counts, items, n, ends, k, asRead) /\ Goes(p, e, m, counts, items, n, ends, k, bytes)
  <2>1. Stays(p, e) /\ e.err = "not started"
    BY <1>1, ErrorIs
  <2> HIDE DEF e, asRead, bytes
  <2>2. e.err # "bad"
    BY <2>1
  <2> QED
    BY <2>1, <2>2, StaysGoes DEF Reaches
<1>4. ASSUME p.hasHeader
      PROVE  /\ Goes(p, Taken(p, found), m, counts, items, n, ends, k, asRead)
             /\ Goes(p, Taken(p, there), m, counts, items, n, ends, k, bytes)
  <2>1. HasNext(p, counts) /\ found = Found(items[k + 1].item, ends[k + 1]) /\ part.ok /\ part.next = ends[k + 1]
    BY <1>4, HeldBody
  <2>2. found.ok /\ found.next = ends[k + 1] /\ (asRead = "read" => found.value = items[k + 1].item)
    BY <2>1 DEF Found
  <2>3. there.ok /\ there.next = ends[k + 1]
    BY <2>1 DEF WithBody, Found
  <2> HIDE DEF found, there, asRead, bytes
  <2>4. Goes(p, Taken(p, found), m, counts, items, n, ends, k, asRead)
    BY <1>1, <2>1, <2>2, HeldGoes
  <2>5. Goes(p, Taken(p, there), m, counts, items, n, ends, k, bytes)
    BY <1>1, <1>2, <2>1, <2>3, HeldGoes
  <2> QED
    BY <2>4, <2>5
<1> HIDE DEF found, there, e, bytes, asRead
<1>5. ASSUME NEW type PROVE Goes(p, ReadBody(p, type), m, counts, items, n, ends, k, asRead)
  <2>1. ReadBody(p, type) = e \/ (p.hasHeader /\ ReadBody(p, type) = Taken(p, found))
    BY DEF ReadBody, e, found
  <2> QED
    BY <1>3, <1>4, <2>1
<1>6. Goes(p, ReadUnknown(p), m, counts, items, n, ends, k, bytes)
  <2>1. ReadUnknown(p) = e \/ (p.hasHeader /\ ReadUnknown(p) = Taken(p, there))
    BY DEF ReadUnknown, e, there
  <2> QED
    BY <1>3, <1>4, <2>1
<1> QED
  BY <1>5, <1>6 DEF asRead, bytes

(* Reading a record, its header read before or not.                         *)
LEMMA ReadResourceGoes ==
    ASSUME NEW m, NEW counts, NEW items, NEW n, NEW ends, NEW p, NEW k,
           Reaches(p, m, counts, items, n, ends, k), NEW section \in RecordSections
    PROVE  Goes(p, ReadResource(p, section), m, counts, items, n, ends, k, "read")
<1> DEFINE r == ReadHeader(p, section)
           found == WithBody(r.header, UnpackBody(r.msg, r.off, r.header))
           taken == Taken(r, found)
           asRead == "read"
<1>1. ReadResource(p, section) = Forgotten(taken)
  BY DEF ReadResource, ReadRecord, Forgotten
<1>2. \/ /\ Goes(p, r, m, counts, items, n, ends, k, asRead) /\ r.err # "none" /\ IsParser(r)
         /\ Follows(r, m, counts, items, n, ends, k) /\ ~ r.hasHeader
      \/ HeaderGoes(p, r, m, counts, items, n, ends, k)
  BY ReadHeaderIs
<1> HIDE DEF r, asRead
<1>3. CASE /\ Goes(p, r, m, counts, items, n, ends, k, asRead) /\ r.err # "none" /\ IsParser(r)
           /\ Follows(r, m, counts, items, n, ends, k) /\ ~ r.hasHeader
  <2>1. taken = r
    BY <1>3, TakenIs
  <2>2. r.hasHeader = FALSE
    BY <1>3 DEF Follows
  <2> HIDE DEF taken
  <2>3. Goes(p, Forgotten(r), m, counts, items, n, ends, k, asRead)
    BY <1>3, <2>2, ForgottenGoes
  <2> QED
    BY <1>1, <2>1, <2>3 DEF asRead
<1>4. CASE HeaderGoes(p, r, m, counts, items, n, ends, k)
  <2>1. /\ IsParser(r) /\ r.index = p.index /\ r.section = p.section /\ r.err = "none" /\ r.hasHeader
        /\ Follows(r, m, counts, items, n, ends, k)
    BY <1>4 DEF HeaderGoes
  <2>2. Reaches(r, m, counts, items, n, ends, k)
    BY <2>1 DEF Reaches, Behind
  <2>3. HasNext(r, counts) /\ found = Found(items[k + 1].item, ends[k + 1])
    BY <2>1, <2>2, HeldBody
  <2>4. found.ok /\ found.next = ends[k + 1] /\ (asRead = "read" => found.value = items[k + 1].item)
    BY <2>3 DEF Found
  <2>5. Stays(r, r)
    BY <2>1, SelfStays
  <2> HIDE DEF found
  <2>6. Goes(r, taken, m, counts, items, n, ends, k, asRead)
    BY <2>1, <2>2, <2>3, <2>4, <2>5, HeldGoes
  <2>7. Passes(r, taken, found.next, found.value)
    BY <2>1, <2>4, TakenIs
  <2>8. IsParser(taken) /\ taken.hasHeader = FALSE
    BY <2>7 DEF Passes, SameMessage
  <2> HIDE DEF taken
  <2>9. Goes(p, taken, m, counts, items, n, ends, k, asRead)
    BY <2>1, <2>6 DEF Goes, HasNext
  <2>10. Goes(p, Forgotten(taken), m, counts, items, n, ends, k, asRead)
    BY <2>8, <2>9, ForgottenGoes
  <2> QED
    BY <1>1, <2>10 DEF asRead
<1> QED
  BY <1>2, <1>3, <1>4

(* Skipping a record, its header read before or not.                        *)
LEMMA SkipResourceGoes ==
    ASSUME NEW m, NEW counts, NEW items, NEW n, NEW ends, NEW p, NEW k,
           Reaches(p, m, counts, items, n, ends, k), NEW section \in RecordSections
    PROVE  Goes(p, SkipResource(p, section), m, counts, items, n, ends, k, "skip")
<1> DEFINE skip == "skip"
           q == Error(p, "none")
           held == SkipTo(p.msg, p.off + p.header.length)
           found == SkipRecord(p.msg, p.off)
           none == <<>>
<1>1. IsParser(p) /\ p.msg = m /\ section \in Sections /\ skip # "read"
  BY SectionsAre DEF Reaches, Behind, Follows
<1>2. CASE p.hasHeader
  <2>1. SkipResource(p, section) = Taken(q, held)
    BY <1>2 DEF SkipResource
  <2>2. Stays(p, q) /\ q.err = "none"
    BY <1>1, ErrorIs
  <2>3. HasNext(p, counts) /\ held = Found(none, ends[k + 1])
    BY <1>2, HeldBody
  <2>4. held.ok /\ held.next = ends[k + 1]
    BY <2>3 DEF Found
  <2> HIDE DEF q, held, skip
  <2>5. Goes(p, Taken(q, held), m, counts, items, n, ends, k, skip)
    BY <1>1, <2>2, <2>3, <2>4, HeldGoes
  <2> QED
    BY <2>1, <2>5 DEF skip
<1>3. CASE ~ p.hasHeader
  <2>1. SkipResource(p, section) = Taken(CheckAdvance(p, section), found)
    BY <1>3 DEF SkipResource
  <2>2. ASSUME HasNext(p, counts), p.section = section, p.off = ends[k]
        PROVE  found = Found(none, ends[k + 1])
    <3>1. ItemThere(m, items[k + 1], ends[k], ends[k + 1]) /\ items[k + 1].section # Questions
      BY <2>2, SectionsAre, NextItem
    <3>2. RecordThere(m, items[k + 1].item, ends[k], ends[k + 1])
      BY <3>1 DEF ItemThere
    <3> QED
      BY <1>1, <2>2, <3>2 DEF RecordThere
  <2> HIDE DEF found, none, skip
  <2>3. Goes(p, Taken(CheckAdvance(p, section), found), m, counts, items, n, ends, k, skip)
    BY <1>1, <1>3, <2>2, TakenGoes
  <2> QED
    BY <2>1, <2>3 DEF skip
<1> QED
  BY <1>2, <1>3

(* Every call of the parser goes on to the next item if it takes one.          *)
IsCall(how, p, new) ==
    \/ how = "read" /\ new = ReadQuestion(p)
    \/ how = "skip" /\ new = SkipQuestion(p)
    \/ \E section \in RecordSections :
          \/ how = "read" /\ (new = ReadHeader(p, section) \/ new = ReadResource(p, section))
          \/ how = "skip" /\ new = SkipResource(p, section)
    \/ how = "read" /\ \E type : new = ReadBody(p, type)
    \/ how = "bytes" /\ new = ReadUnknown(p)

(* Reading the header of a record takes no item.                            *)
LEMMA ReadHeaderGoes ==
    ASSUME NEW m, NEW counts, NEW items, NEW n, NEW ends, NEW p, NEW k,
           Reaches(p, m, counts, items, n, ends, k), NEW section \in RecordSections
    PROVE  Goes(p, ReadHeader(p, section), m, counts, items, n, ends, k, "read")
<1> DEFINE r == ReadHeader(p, section)
<1>1. \/ Goes(p, r, m, counts, items, n, ends, k, "read")
      \/ HeaderGoes(p, r, m, counts, items, n, ends, k)
  BY ReadHeaderIs
<1> HIDE DEF r
<1>2. ASSUME HeaderGoes(p, r, m, counts, items, n, ends, k) PROVE Goes(p, r, m, counts, items, n, ends, k, "read")
  <2>1. p.index \in Nat
    BY DEF Reaches, Behind, Follows
  <2>2. r.index = p.index /\ r.err # "bad" /\ Follows(r, m, counts, items, n, ends, k)
    BY <1>2 DEF HeaderGoes
  <2>3. r.index # p.index + 1
    BY <2>1, <2>2
  <2> QED
    BY <2>2, <2>3 DEF Goes
<1> QED
  BY <1>1, <1>2 DEF r

(* Every call of the parser.                                                *)
LEMMA CallGoes ==
    ASSUME NEW m, NEW counts, NEW items, NEW n, NEW ends, NEW p, NEW k,
           Reaches(p, m, counts, items, n, ends, k), NEW how, NEW new, IsCall(how, p, new)
    PROVE  Goes(p, new, m, counts, items, n, ends, k, how)
<1>1. CASE how = "read" /\ new = ReadQuestion(p)
  BY <1>1, QuestionTaken
<1>2. CASE how = "skip" /\ new = SkipQuestion(p)
  BY <1>2, QuestionTaken
<1>3. ASSUME NEW section \in RecordSections, how = "read", new = ReadHeader(p, section)
      PROVE  Goes(p, new, m, counts, items, n, ends, k, how)
  BY <1>3, ReadHeaderGoes
<1>4. ASSUME NEW section \in RecordSections, how = "read", new = ReadResource(p, section)
      PROVE  Goes(p, new, m, counts, items, n, ends, k, how)
  BY <1>4, ReadResourceGoes
<1>5. ASSUME NEW section \in RecordSections, how = "skip", new = SkipResource(p, section)
      PROVE  Goes(p, new, m, counts, items, n, ends, k, how)
  BY <1>5, SkipResourceGoes
<1>6. ASSUME NEW type, how = "read", new = ReadBody(p, type)
      PROVE  Goes(p, new, m, counts, items, n, ends, k, how)
  BY <1>6, ReadBodyGoes
<1>7. CASE how = "bytes" /\ new = ReadUnknown(p)
  BY <1>7, ReadBodyGoes
<1> QED
  BY <1>1, <1>2, <1>3, <1>4, <1>5, <1>6, <1>7 DEF IsCall

(* No call changes the message of a parser.                                  *)
LEMMA SameMore ==
    ASSUME NEW p, NEW q, NEW new, SameMessage(p, q), SameMessage(q, new)
    PROVE  SameMessage(p, new)
BY DEF SameMessage

(* No part of a call changes the message or what its header says.           *)
LEMMA PartsKeep ==
    ASSUME NEW p, IsParser(p)
    PROVE  /\ \A section : SameMessage(p, CheckAdvance(p, section))
           /\ \A err : SameMessage(p, Error(p, err))
           /\ \A found : SameMessage(p, Taken(p, found)) /\ SameMessage(p, HeaderTaken(p, found))
           /\ SameMessage(p, Forgotten(p))
<1>1. SameMessage(p, p)
  BY DEF SameMessage
<1>2. ASSUME NEW err PROVE SameMessage(p, Error(p, err))
  BY ErrorIs DEF Stays
<1>3. ASSUME NEW section PROVE SameMessage(p, CheckAdvance(p, section))
  <2> DEFINE q == Error(p, "section done")
             r == Error(p, "none")
             new == CheckAdvance(p, section)
  <2>1. SameMessage(p, q) /\ SameMessage(p, r) /\ SameMessage(p, Error(p, "not started"))
    BY <1>2
  <2>2. \/ new = Error(p, "not started") \/ new = q
        \/ new = [q EXCEPT !.hasHeader = FALSE, !.index = 0, !.section = @ + 1]
        \/ new = [r EXCEPT !.hasHeader = FALSE]
    BY DEF CheckAdvance
  <2> HIDE DEF q, r, new
  <2>3. new = [q EXCEPT !.hasHeader = FALSE, !.index = 0, !.section = @ + 1] => SameMessage(p, new)
    <3> HAVE new = [q EXCEPT !.hasHeader = FALSE, !.index = 0, !.section = @ + 1]
    <3>1. IsParser(q)
      BY <2>1 DEF SameMessage
    <3>2. SameMessage(q, new)
      BY <3>1 DEF SameMessage, IsParser
    <3> QED
      BY <2>1, <3>2, SameMore
  <2>4. new = [r EXCEPT !.hasHeader = FALSE] => SameMessage(p, new)
    <3> HAVE new = [r EXCEPT !.hasHeader = FALSE]
    <3>1. IsParser(r)
      BY <2>1 DEF SameMessage
    <3>2. SameMessage(r, new)
      BY <3>1 DEF SameMessage, IsParser
    <3> QED
      BY <2>1, <3>2, SameMore
  <2>5. SameMessage(p, new)
    BY <2>1, <2>2, <2>3, <2>4
  <2> QED
    BY <2>5 DEF new
<1>4. ASSUME NEW found PROVE SameMessage(p, Taken(p, found)) /\ SameMessage(p, HeaderTaken(p, found))
  <2>1. SameMessage(p, Past(p, found.next, found.value))
    BY PastIs DEF Passes
  <2>2. SameMessage(p, Error(p, "bad"))
    BY <1>2
  <2>3. SameMessage(p, Taken(p, found))
    BY <1>1, <2>1, <2>2 DEF Taken
  <2>4. SameMessage(p, [p EXCEPT !.hasHeader = TRUE, !.header = found.value, !.off = found.next])
    BY DEF SameMessage, IsParser
  <2> QED
    BY <1>1, <2>2, <2>3, <2>4 DEF HeaderTaken
<1>5. SameMessage(p, Forgotten(p))
  BY DEF SameMessage, IsParser, Forgotten
<1> QED
  BY <1>2, <1>3, <1>4, <1>5

(* Nor does a whole call.                                                   *)
LEMMA CallKeeps ==
    ASSUME NEW p, IsParser(p), NEW how, NEW new, IsCall(how, p, new)
    PROVE  SameMessage(p, new)
<1>1. ASSUME NEW section, NEW found PROVE SameMessage(p, Taken(CheckAdvance(p, section), found))
  <2> DEFINE q == CheckAdvance(p, section)
  <2>1. SameMessage(p, q) /\ IsParser(q)
    BY PartsKeep DEF SameMessage
  <2> HIDE DEF q
  <2>2. SameMessage(q, Taken(q, found))
    BY <2>1, PartsKeep
  <2> QED
    BY <2>1, <2>2, SameMore DEF q
<1>2. ASSUME NEW section PROVE SameMessage(p, ReadHeader(p, section))
  <2> DEFINE q == CheckAdvance(p, section)
             found == UnpackRecordHeader(p.msg, p.off)
  <2>1. SameMessage(p, q) /\ IsParser(q) /\ SameMessage(p, Error(p, "none"))
    BY PartsKeep DEF SameMessage
  <2>2. ReadHeader(p, section) = Error(p, "none") \/ ReadHeader(p, section) = HeaderTaken(q, found)
    BY DEF ReadHeader
  <2> HIDE DEF q, found
  <2>3. SameMessage(q, HeaderTaken(q, found))
    BY <2>1, PartsKeep
  <2> QED
    BY <2>1, <2>2, <2>3, SameMore
<1>3. ASSUME NEW section PROVE SameMessage(p, ReadResource(p, section))
  <2> DEFINE r == ReadHeader(p, section)
             taken == Taken(r, WithBody(r.header, UnpackBody(r.msg, r.off, r.header)))
  <2>1. ReadResource(p, section) = Forgotten(taken)
    BY DEF ReadResource, ReadRecord, Forgotten
  <2>2. SameMessage(p, r) /\ IsParser(r)
    BY <1>2 DEF SameMessage
  <2> HIDE DEF r
  <2>3. SameMessage(r, taken) /\ IsParser(taken)
    BY <2>2, PartsKeep DEF SameMessage
  <2> HIDE DEF taken
  <2>4. SameMessage(taken, Forgotten(taken))
    BY <2>3, PartsKeep
  <2> QED
    BY <2>1, <2>2, <2>3, <2>4, SameMore
<1>4. ASSUME NEW section PROVE SameMessage(p, SkipResource(p, section))
  <2> DEFINE q == Error(p, "none")
             held == SkipTo(p.msg, p.off + p.header.length)
  <2>1. SameMessage(p, q) /\ IsParser(q)
    BY PartsKeep DEF SameMessage
  <2>2. \/ SkipResource(p, section) = Taken(q, held)
        \/ SkipResource(p, section) = Taken(CheckAdvance(p, section), SkipRecord(p.msg, p.off))
    BY DEF SkipResource
  <2> HIDE DEF q, held
  <2>3. SameMessage(q, Taken(q, held))
    BY <2>1, PartsKeep
  <2> QED
    BY <1>1, <2>1, <2>2, <2>3, SameMore
<1>5. SameMessage(p, ReadQuestion(p)) /\ SameMessage(p, SkipQuestion(p))
  BY <1>1 DEF ReadQuestion, SkipQuestion
<1>6. SameMessage(p, ReadUnknown(p)) /\ \A type : SameMessage(p, ReadBody(p, type))
  BY PartsKeep DEF ReadUnknown, ReadBody
<1> QED
  BY <1>2, <1>3, <1>4, <1>5, <1>6 DEF IsCall

(* A parser that has been started.                                          *)
LEMMA StartKeeps ==
    ASSUME NEW m
    PROVE  IsParser(StartParser(m)) /\ StartParser(m).msg = m
<1> DEFINE found == UnpackFields(m, 0, MessageHeader, 0)
           new == StartParser(m)
           first == NewParser
           head == [id |-> found.value[1], flags |-> UnpackBits(found.value[2])]
           counts == [s \in Sections |-> found.value[s + 1]]
<1>1. IsParser(first)
  BY DEF NewParser, IsParser
<1>2. \/ new = [first EXCEPT !.msg = m, !.err = "bad"]
      \/ new = [first EXCEPT !.msg = m, !.head = head, !.counts = counts, !.section = Questions, !.off = found.next]
  BY DEF StartParser, Started
<1> HIDE DEF new, found, first, head, counts
<1> QED
  BY <1>1, <1>2 DEF IsParser, new

(* A parser that has read the header of a message.                            *)
AtStart(p, m, b) ==
    /\ IsParser(p) /\ p.msg = m /\ p.counts = b.counts /\ p.section = Questions /\ p.off = 12
    /\ p.index = 0 /\ p.hasHeader = FALSE /\ p.err = "none" /\ p.item = NoItem
    /\ p.head = [id |-> b.head.id, flags |-> UnpackBits(PackBits(b.head.flags))]

(* A parser that is given a message with a header reads it.                 *)
LEMMA StartedIs ==
    ASSUME NEW b \in Outs, NEW m, BeginsLike(m, b), NEW p, p = StartParser(m)
    PROVE  AtStart(p, m, b)
<1> DEFINE values == Firsts(HeadNumbers(b), 6)
           found == UnpackFields(m, 0, MessageHeader, 0)
           first == NewParser
           head == [id |-> found.value[1], flags |-> UnpackBits(found.value[2])]
           counts == [s \in Sections |-> found.value[s + 1]]
<1>1. found = Found(values, 12)
  BY MessageHeaderIsRead
<1>2. found.ok /\ found.value = values /\ found.next = 12
  BY <1>1 DEF Found
<1>3. p = [first EXCEPT !.msg = m, !.head = head, !.counts = counts, !.section = Questions, !.off = found.next]
  BY <1>2 DEF StartParser, Started
<1>4. /\ IsParser(first) /\ first.index = 0 /\ first.hasHeader = FALSE /\ first.err = "none"
      /\ first.item = NoItem
  BY DEF NewParser, IsParser
<1>5. b.counts \in [Sections -> Nat]
  BY DEF Outs
<1>6. /\ HeadNumbers(b)[1] = b.head.id /\ HeadNumbers(b)[2] = PackBits(b.head.flags)
      /\ \A s \in Sections : HeadNumbers(b)[s + 1] = b.counts[s]
  BY HeadNumbersAre
<1>7. 1 \in 1 .. 6 /\ 2 \in 1 .. 6 /\ \A s \in Sections : s + 1 \in 1 .. 6
  BY SectionsAre
<1>8. values[1] = b.head.id /\ values[2] = PackBits(b.head.flags) /\ \A s \in Sections : values[s + 1] = b.counts[s]
  BY <1>6, <1>7 DEF Firsts
<1> HIDE DEF found, values
<1>9. counts = b.counts
  BY <1>2, <1>5, <1>8
<1>10. head = [id |-> b.head.id, flags |-> UnpackBits(PackBits(b.head.flags))]
  BY <1>2, <1>8
<1> HIDE DEF first, head, counts
<1> QED
  BY <1>2, <1>3, <1>4, <1>9, <1>10 DEF IsParser, AtStart

(* What a call that reads or skips an item of the section of a parser does:    *)
(* behind the last item it goes on, an item that has arrived it passes, and   *)
(* an item that is cut off it finds bad.                                     *)
Outcome(p, new, m, counts, ends, k) ==
    /\ ~ HasNext(p, counts) => Moves(p, new) /\ new.err = "section done"
    /\ HasNext(p, counts) /\ ends[k + 1] <= Len(m) => \E item : Passes(p, new, ends[k + 1], item)
    /\ HasNext(p, counts) /\ Len(m) < ends[k + 1] => new.err = "bad"

(* An item that has arrived, as the parser that is before it finds it.         *)
LEMMA WholeItem ==
    ASSUME NEW m, NEW counts, NEW items, NEW n, NEW ends, NEW p, NEW k,
           Behind(p, m, counts, items, n, ends, k), HasNext(p, counts), ends[k + 1] <= Len(m)
    PROVE  /\ Reaches(p, m, counts, items, n, ends, k)
           /\ ItemThere(m, items[k + 1], ends[k], ends[k + 1]) /\ items[k + 1].section = p.section
<1>1. Reaches(p, m, counts, items, n, ends, k)
  BY DEF Reaches
<1> QED
  BY <1>1, NextItem

(* An item that is cut off.                                                  *)
LEMMA LostItem ==
    ASSUME NEW m, NEW counts, NEW items, NEW n, NEW ends, NEW p, NEW k,
           Behind(p, m, counts, items, n, ends, k), HasNext(p, counts), Len(m) < ends[k + 1]
    PROVE  ItemLost(m, items[k + 1], ends[k], ends[k + 1]) /\ items[k + 1].section = p.section
<1> DEFINE i == k + 1
<1>1. Arrived(m, counts, items, n, ends) /\ Follows(p, m, counts, items, n, ends, k)
  BY DEF Behind
<1>2. i \in 1 .. n /\ i - 1 = k /\ items[i].section = p.section
  BY <1>1, FollowsWithin DEF HasNext
<1>3. \A j \in 1 .. n : ends[j - 1] <= Len(m) /\ Len(m) < ends[j] => ItemLost(m, items[j], ends[j - 1], ends[j])
  BY <1>1 DEF Arrived
<1>4. ends[k] <= Len(m) /\ Len(m) < ends[i]
  BY <1>1 DEF Follows
<1> HIDE DEF i
<1>5. ItemLost(m, items[i], ends[k], ends[i])
  BY <1>2, <1>3, <1>4
<1> QED
  BY <1>2, <1>5 DEF i

(* An item has either arrived or been cut off.                               *)
LEMMA ArrivedOrCut ==
    ASSUME NEW m, NEW counts, NEW items, NEW n, NEW ends, NEW p, NEW k,
           Behind(p, m, counts, items, n, ends, k), HasNext(p, counts)
    PROVE  ends[k + 1] <= Len(m) <=> ~ (Len(m) < ends[k + 1])
<1> DEFINE to == ends[k + 1]
           len == Len(m)
<1>1. k + 1 \in 0 .. n
  BY FollowsWithin DEF Behind, HasNext
<1>2. to \in Nat
  BY <1>1 DEF Behind, Arrived
<1>3. m \in Seq(0 .. 255)
  BY DEF Behind, Arrived, Bytes
<1>4. len \in Nat
  BY <1>3, LenProperties
<1> HIDE DEF to, len
<1>5. to <= len <=> ~ (len < to)
  BY <1>2, <1>4
<1> QED
  BY <1>5 DEF to, len

(* A call that takes what it finds where the next item begins.                *)
LEMMA TakenOutcome ==
    ASSUME NEW m, NEW counts, NEW items, NEW n, NEW ends, NEW p, NEW k,
           Behind(p, m, counts, items, n, ends, k), p.section \in Sections, ~ p.hasHeader, NEW found,
           HasNext(p, counts) /\ ends[k + 1] <= Len(m) => \E item : found = Found(item, ends[k + 1]),
           HasNext(p, counts) /\ Len(m) < ends[k + 1] => ~ found.ok
    PROVE  Outcome(p, Taken(CheckAdvance(p, p.section), found), m, counts, ends, k)
<1> DEFINE section == p.section
           q == CheckAdvance(p, section)
           new == Taken(q, found)
<1>1. IsParser(p) /\ p.hasHeader \in BOOLEAN /\ section \in Int /\ p.counts = counts
  BY SectionsAre DEF Behind, Follows
<1>2. \/ p.index = counts[section] /\ Moves(p, q) /\ q.err = "section done"
      \/ p.index # counts[section] /\ Stays(p, q) /\ q.err = "none"
  BY <1>1, CheckIs
<1>3. HasNext(p, counts) <=> p.index # counts[section]
  BY DEF HasNext
<1> HIDE DEF q, section
<1>4. IsParser(q)
  BY <1>2 DEF Moves, Stays, SameMessage
<1>5. CASE p.index = counts[section] /\ Moves(p, q) /\ q.err = "section done"
  <2>1. new = q /\ ~ HasNext(p, counts)
    BY <1>3, <1>4, <1>5, TakenIs
  <2> QED
    BY <1>5, <2>1 DEF Outcome, section, q
<1>6. CASE p.index # counts[section] /\ Stays(p, q) /\ q.err = "none"
  <2>1. HasNext(p, counts)
    BY <1>3, <1>6
  <2>2. ASSUME ends[k + 1] <= Len(m) PROVE \E item : Passes(p, new, ends[k + 1], item)
    <3>1. PICK item : found = Found(item, ends[k + 1])
      BY <2>1, <2>2
    <3>2. found.ok /\ found.next = ends[k + 1]
      BY <3>1 DEF Found
    <3>3. Passes(q, new, found.next, found.value)
      BY <1>4, <1>6, <3>2, TakenIs
    <3> HIDE DEF new
    <3>4. Passes(p, new, found.next, found.value)
      BY <1>6, <3>3, StaysMore
    <3> QED
      BY <3>2, <3>4
  <2>3. ASSUME Len(m) < ends[k + 1] PROVE new.err = "bad"
    <3>1. ~ found.ok
      BY <2>1, <2>3
    <3> QED
      BY <1>4, <1>6, <3>1, TakenIs
  <2> HIDE DEF new
  <2>4. Outcome(p, new, m, counts, ends, k)
    BY <2>1, <2>2, <2>3 DEF Outcome
  <2> QED
    BY <2>4 DEF new, q, section
<1> QED
  BY <1>2, <1>5, <1>6

(* A question, or what has arrived of it.                                     *)
LEMMA QuestionOutcome ==
    ASSUME NEW m, NEW counts, NEW items, NEW n, NEW ends, NEW p, NEW k,
           Behind(p, m, counts, items, n, ends, k), p.section = Questions
    PROVE  /\ Outcome(p, ReadQuestion(p), m, counts, ends, k)
           /\ Outcome(p, SkipQuestion(p), m, counts, ends, k)
<1> DEFINE section == p.section
           r == UnpackFields(p.msg, p.off, QuestionFields, 0)
           s == SkipQuestionAt(p.msg, p.off)
           q == CheckAdvance(p, section)
<1>1. section \in Sections /\ ~ p.hasHeader /\ p.msg = m /\ p.off = ends[k]
  <2>1. p.hasHeader => p.section \in RecordSections
    BY DEF Behind, Follows, HeaderHeld
  <2> QED
    BY <2>1, SectionsAre DEF Behind, Follows
<1>2. ASSUME HasNext(p, counts), ends[k + 1] <= Len(m)
      PROVE  (\E item : r = Found(item, ends[k + 1])) /\ (\E item : s = Found(item, ends[k + 1]))
  <2>1. ItemThere(m, items[k + 1], ends[k], ends[k + 1]) /\ items[k + 1].section = Questions
    BY <1>2, WholeItem
  <2>2. QuestionThere(m, items[k + 1].item, ends[k], ends[k + 1])
    BY <2>1 DEF ItemThere
  <2> QED
    BY <1>1, <2>2 DEF QuestionThere
<1>3. ASSUME HasNext(p, counts), Len(m) < ends[k + 1]
      PROVE  ~ r.ok /\ ~ s.ok
  <2>1. ItemLost(m, items[k + 1], ends[k], ends[k + 1]) /\ items[k + 1].section = Questions
    BY <1>3, LostItem
  <2> QED
    BY <1>1, <2>1 DEF ItemLost
<1>4. ReadQuestion(p) = Taken(q, r) /\ SkipQuestion(p) = Taken(q, s)
  BY DEF ReadQuestion, SkipQuestion
<1> HIDE DEF r, s
<1>5. /\ Outcome(p, Taken(q, r), m, counts, ends, k)
      /\ Outcome(p, Taken(q, s), m, counts, ends, k)
  BY <1>1, <1>2, <1>3, TakenOutcome
<1> QED
  BY <1>4, <1>5

(* The body of a record that is cut off, whose header has been read.           *)
LEMMA HeldLost ==
    ASSUME NEW m, NEW counts, NEW items, NEW n, NEW ends, NEW p, NEW k,
           Behind(p, m, counts, items, n, ends, k), p.hasHeader, Len(m) < ends[k + 1]
    PROVE  /\ ~ WithBody(p.header, UnpackBody(p.msg, p.off, p.header)).ok
           /\ ~ WithBody(p.header, UnpackBytes(p.msg, p.off, p.header.length)).ok
           /\ ~ SkipTo(p.msg, p.off + p.header.length).ok
<1> DEFINE r == items[k + 1].item
           to == ends[k + 1]
           off == p.off
           h == p.header
           e == off + h.length
<1>1. /\ p.section \in RecordSections /\ p.index # counts[p.section] /\ off \in Nat /\ off <= to
      /\ h = HeaderOf(r, to - off) /\ p.msg = m /\ BodyLost(m, r, off, to)
  BY DEF Behind, Follows, HeaderHeld
<1>2. to \in Nat
  <2>1. k + 1 \in 0 .. n
    BY <1>1, FollowsWithin, SectionsAre DEF Behind
  <2> QED
    BY <2>1 DEF Behind, Arrived
<1>3. Len(m) \in Nat
  <2>1. m \in Seq(0 .. 255)
    BY DEF Behind, Arrived, Bytes
  <2> QED
    BY <2>1, LenProperties
<1>4. Len(m) < to
  OBVIOUS
<1> HIDE DEF r, to, off, h
<1>5. h.length = to - off
  BY <1>1 DEF HeaderOf
<1>6. e = to /\ e > Len(m)
  BY <1>1, <1>2, <1>3, <1>4, <1>5
<1> HIDE DEF e
<1>7. ~ Failure.ok
  BY DEF Failure
<1>8. UnpackBytes(m, off, h.length) = Failure
  BY <1>6 DEF UnpackBytes, e
<1>9. SkipTo(m, e) = Failure
  BY <1>2, <1>3, <1>6 DEF SkipTo
<1>10. ~ UnpackBody(m, off, h).ok
  BY <1>1 DEF BodyLost
<1>11. \A found : ~ found.ok => ~ WithBody(h, found).ok
  BY <1>7 DEF WithBody
<1> QED
  BY <1>1, <1>7, <1>8, <1>9, <1>10, <1>11 DEF off, h, e

(* A call that takes the record whose header has been read.                   *)
LEMMA HeldOutcome ==
    ASSUME NEW m, NEW counts, NEW items, NEW n, NEW ends, NEW p, NEW k,
           Behind(p, m, counts, items, n, ends, k), p.hasHeader, NEW q, Stays(p, q), q.err = "none", NEW found,
           ends[k + 1] <= Len(m) => found.ok /\ found.next = ends[k + 1], Len(m) < ends[k + 1] => ~ found.ok
    PROVE  Outcome(p, Taken(q, found), m, counts, ends, k)
<1> DEFINE new == Taken(q, found)
<1>1. IsParser(q)
  BY DEF Stays, SameMessage
<1>2. HasNext(p, counts)
  BY SectionsAre DEF Behind, Follows, HeaderHeld, HasNext
<1>3. ASSUME ends[k + 1] <= Len(m) PROVE \E item : Passes(p, new, ends[k + 1], item)
  <2>1. found.ok /\ found.next = ends[k + 1]
    BY <1>3
  <2>2. Passes(q, new, found.next, found.value)
    BY <1>1, <2>1, TakenIs
  <2> HIDE DEF new
  <2>3. Passes(p, new, found.next, found.value)
    BY <2>2, StaysMore
  <2> QED
    BY <2>1, <2>3
<1>4. ASSUME Len(m) < ends[k + 1] PROVE new.err = "bad"
  BY <1>1, <1>4, TakenIs
<1> HIDE DEF new
<1>5. Outcome(p, new, m, counts, ends, k)
  BY <1>2, <1>3, <1>4 DEF Outcome
<1> QED
  BY <1>5 DEF new

(* The calls that take the body of a record whose header has been read.     *)
LEMMA HeldOutcomes ==
    ASSUME NEW m, NEW counts, NEW items, NEW n, NEW ends, NEW p, NEW k,
           Behind(p, m, counts, items, n, ends, k), p.hasHeader, NEW q, Stays(p, q), q.err = "none"
    PROVE  /\ Outcome(p, Taken(q, WithBody(p.header, UnpackBody(p.msg, p.off, p.header))), m, counts, ends, k)
           /\ Outcome(p, Taken(q, WithBody(p.header, UnpackBytes(p.msg, p.off, p.header.length))), m, counts, ends, k)
           /\ Outcome(p, Taken(q, SkipTo(p.msg, p.off + p.header.length)), m, counts, ends, k)
<1> DEFINE body == WithBody(p.header, UnpackBody(p.msg, p.off, p.header))
           bytes == UnpackBytes(p.msg, p.off, p.header.length)
           there == WithBody(p.header, bytes)
           past == SkipTo(p.msg, p.off + p.header.length)
           to == ends[k + 1]
<1>1. ASSUME to <= Len(m)
      PROVE  body.ok /\ body.next = to /\ there.ok /\ there.next = to /\ past.ok /\ past.next = to
  <2>1. Reaches(p, m, counts, items, n, ends, k)
    BY <1>1 DEF Reaches
  <2>2. body = Found(items[k + 1].item, to) /\ bytes.ok /\ bytes.next = to /\ past = Found(<<>>, to)
    BY <2>1, HeldBody
  <2>3. there.ok /\ there.next = to
    BY <2>2 DEF WithBody, Found
  <2> HIDE DEF body, there, past, bytes
  <2> QED
    BY <2>2, <2>3 DEF Found
<1>2. ASSUME Len(m) < to PROVE ~ body.ok /\ ~ there.ok /\ ~ past.ok
  BY <1>2, HeldLost
<1> HIDE DEF body, there, past
<1>3. /\ Outcome(p, Taken(q, body), m, counts, ends, k)
      /\ Outcome(p, Taken(q, there), m, counts, ends, k)
      /\ Outcome(p, Taken(q, past), m, counts, ends, k)
  BY <1>1, <1>2, HeldOutcome
<1> QED
  BY <1>3 DEF body, there, past, bytes

(* The header of a record that is cut off: it may have arrived as a whole.      *)
LEMMA HeaderLostIs ==
    ASSUME NEW m, NEW counts, NEW items, NEW n, NEW ends, NEW p, NEW k,
           Behind(p, m, counts, items, n, ends, k), p.section \in RecordSections, ~ p.hasHeader,
           HasNext(p, counts), Len(m) < ends[k + 1]
    PROVE  \/ IsParser(ReadHeader(p, p.section)) /\ ReadHeader(p, p.section).err = "bad"
           \/ HeaderGoes(p, ReadHeader(p, p.section), m, counts, items, n, ends, k)
<1> DEFINE section == p.section
           new == ReadHeader(p, section)
           q == CheckAdvance(p, section)
           found == UnpackRecordHeader(p.msg, p.off)
           r == items[k + 1].item
           to == ends[k + 1]
<1>1. /\ IsParser(p) /\ p.hasHeader \in BOOLEAN /\ section \in Int /\ p.counts = counts /\ p.msg = m
      /\ p.off = ends[k] /\ p.index # counts[section] /\ Follows(p, m, counts, items, n, ends, k)
  BY SectionsAre DEF Behind, Follows, HasNext
<1>2. Stays(p, q) /\ q.err = "none"
  BY <1>1, CheckIs
<1>3. new = HeaderTaken(q, found)
  BY DEF ReadHeader
<1>4. ItemLost(m, items[k + 1], ends[k], to) /\ items[k + 1].section # Questions
  BY LostItem, SectionsAre
<1>5. IsParser(q)
  BY <1>2 DEF Stays, SameMessage
<1>6. CASE ~ found.ok
  <2>1. Stays(q, new) /\ new.err = "bad"
    BY <1>2, <1>3, <1>5, <1>6, HeaderTakenIs
  <2> HIDE DEF new
  <2>2. IsParser(new)
    BY <2>1 DEF Stays, SameMessage
  <2> QED
    BY <2>1, <2>2 DEF new
<1>7. CASE found.ok
  <2>1. UnpackRecordHeader(m, ends[k]).ok
    BY <1>1, <1>7
  <2>2. \E mid : HeaderThere(m, r, ends[k], mid, to) /\ BodyLost(m, r, mid, to)
    BY <1>4, <2>1 DEF ItemLost
  <2> HIDE DEF r, to, found, new, q, section
  <2>3. PICK mid : HeaderThere(m, r, ends[k], mid, to) /\ BodyLost(m, r, mid, to)
    BY <2>2
  <2> DEFINE h == HeaderOf(r, to - mid)
  <2>4. mid \in Nat /\ mid <= to /\ found = Found(h, mid)
    BY <1>1, <2>3 DEF HeaderThere, found
  <2> HIDE DEF h
  <2>5. found.ok /\ found.value = h /\ found.next = mid
    BY <2>4 DEF Found
  <2>6. Heads(q, new, h, mid) /\ new.err = "none"
    BY <1>2, <1>3, <1>5, <2>5, HeaderTakenIs
  <2>7. Heads(p, new, h, mid)
    BY <1>2, <2>6, StaysMore
  <2>8. Follows(new, m, counts, items, n, ends, k)
    <3>1. /\ mid <= ends[k + 1] /\ BodyLost(m, items[k + 1].item, mid, ends[k + 1])
          /\ Heads(p, new, HeaderOf(items[k + 1].item, ends[k + 1] - mid), mid)
      BY <2>3, <2>4, <2>7 DEF h, r, to
    <3>2. ~ (ends[k + 1] <= Len(m))
      BY ArrivedOrCut
    <3>3. p.section \in RecordSections /\ p.index # counts[p.section]
      BY <1>1 DEF section
    <3> QED
      BY <1>1, <2>4, <3>1, <3>2, <3>3, HeadsFollows
  <2>9. HeaderGoes(p, new, m, counts, items, n, ends, k)
    BY <2>6, <2>7, <2>8 DEF HeaderGoes, Heads, SameMessage
  <2> QED
    BY <2>9 DEF new, section
<1> QED
  BY <1>6, <1>7

(* The header that a call for the section of a parser reads.                   *)
LEMMA HeaderOutcome ==
    ASSUME NEW m, NEW counts, NEW items, NEW n, NEW ends, NEW p, NEW k,
           Behind(p, m, counts, items, n, ends, k), p.section \in RecordSections, ~ p.hasHeader, HasNext(p, counts)
    PROVE  \/ /\ Len(m) < ends[k + 1]
              /\ IsParser(ReadHeader(p, p.section)) /\ ReadHeader(p, p.section).err = "bad"
           \/ HeaderGoes(p, ReadHeader(p, p.section), m, counts, items, n, ends, k)
<1> DEFINE section == p.section
           r == ReadHeader(p, section)
<1>1. section \in RecordSections /\ section = p.section
  OBVIOUS
<1>2. ends[k + 1] <= Len(m) \/ Len(m) < ends[k + 1]
  BY ArrivedOrCut
<1>3. CASE Len(m) < ends[k + 1]
  BY <1>3, HeaderLostIs
<1>4. CASE ends[k + 1] <= Len(m)
  <2>1. Reaches(p, m, counts, items, n, ends, k)
    BY <1>4 DEF Reaches
  <2> HIDE DEF section
  <2>2. HeaderGoes(p, r, m, counts, items, n, ends, k)
    BY <1>1, <2>1, ReadHeaderIs
  <2> QED
    BY <2>2 DEF section
<1> QED
  BY <1>2, <1>3, <1>4

(* Forgetting a header changes nothing of the outcome.                        *)
LEMMA ForgottenOutcome ==
    ASSUME NEW m, NEW counts, NEW ends, NEW p, NEW k, NEW new, IsParser(new), Outcome(p, new, m, counts, ends, k)
    PROVE  Outcome(p, Forgotten(new), m, counts, ends, k)
<1> DEFINE q == Forgotten(new)
<1>1. q.err = new.err
  BY DEF Forgotten, IsParser
<1>2. ASSUME NEW item, Passes(p, new, ends[k + 1], item) PROVE Passes(p, q, ends[k + 1], item)
  <2>1. Stays(new, q) /\ q.err = new.err /\ q.item = new.item
    BY <1>2, ForgottenIs DEF Passes
  <2> HIDE DEF q
  <2> QED
    BY <1>2, <2>1 DEF Passes, Stays, SameMessage
<1>3. ASSUME Moves(p, new) PROVE Moves(p, q)
  <2>1. Stays(new, q)
    BY <1>3, ForgottenIs DEF Moves
  <2> HIDE DEF q
  <2> QED
    BY <1>3, <2>1 DEF Moves, Stays, SameMessage
<1> HIDE DEF q
<1>4. Outcome(p, q, m, counts, ends, k)
  BY <1>1, <1>2, <1>3 DEF Outcome
<1> QED
  BY <1>4 DEF q

(* A record, or what has arrived of it, read and skipped.                      *)
LEMMA ReadResourceOutcome ==
    ASSUME NEW m, NEW counts, NEW items, NEW n, NEW ends, NEW p, NEW k,
           Behind(p, m, counts, items, n, ends, k), p.section \in RecordSections
    PROVE  Outcome(p, ReadResource(p, p.section), m, counts, ends, k)
<1> DEFINE section == p.section
           r == ReadHeader(p, section)
           found == WithBody(r.header, UnpackBody(r.msg, r.off, r.header))
           taken == Taken(r, found)
<1>1. IsParser(p) /\ section \in RecordSections /\ section = p.section /\ section \in Sections
  BY SectionsAre DEF Behind, Follows
<1>2. SameMessage(p, r)
  <2>1. \E s \in RecordSections : r = ReadHeader(p, s)
    BY <1>1
  <2> DEFINE asRead == "read"
  <2> HIDE DEF r
  <2>2. IsCall(asRead, p, r)
    BY <2>1 DEF IsCall
  <2> QED
    BY <1>1, <2>2, CallKeeps
<1>3. ReadResource(p, section) = Forgotten(taken)
  BY DEF ReadResource, ReadRecord, Forgotten
<1>4. IsParser(r)
  BY <1>2 DEF SameMessage
<1>5. IsParser(taken)
  <2> HIDE DEF r, found
  <2> QED
    BY <1>4, PartsKeep DEF SameMessage
<1>6. CASE p.hasHeader
  <2>1. r = Error(p, "none")
    BY <1>6 DEF ReadHeader
  <2>2. Stays(p, r) /\ r.err = "none"
    BY <1>1, <2>1, ErrorIs
  <2> HIDE DEF r
  <2>3. found = WithBody(p.header, UnpackBody(p.msg, p.off, p.header))
    BY <2>2 DEF Stays, SameMessage
  <2>4. Outcome(p, taken, m, counts, ends, k)
    BY <1>6, <2>2, <2>3, HeldOutcomes
  <2> HIDE DEF taken
  <2>5. Outcome(p, Forgotten(taken), m, counts, ends, k)
    BY <1>5, <2>4, ForgottenOutcome
  <2> QED
    BY <1>3, <2>5
<1>7. CASE ~ p.hasHeader /\ ~ HasNext(p, counts)
  <2>1. r = HeaderTaken(CheckAdvance(p, section), UnpackRecordHeader(p.msg, p.off))
    BY <1>7 DEF ReadHeader
  <2> DEFINE q == CheckAdvance(p, section)
  <2>2. q.err = "section done" /\ Moves(p, q)
    <3>1. p.hasHeader \in BOOLEAN /\ section \in Int /\ p.counts = counts /\ p.index = counts[section]
      BY <1>1, <1>7, SectionsAre DEF Behind, Follows, HasNext
    <3> HIDE DEF q, section, r
    <3> QED
      BY <1>1, <1>7, <3>1, CheckIs DEF q
  <2> HIDE DEF q, found
  <2>3. IsParser(q) /\ q.err # "none"
    BY <2>2 DEF Moves, SameMessage
  <2>4. r = q
    BY <2>1, <2>3, HeaderTakenIs DEF q
  <2> HIDE DEF r
  <2>5. taken = r
    BY <2>3, <2>4, TakenIs
  <2> HIDE DEF taken
  <2>6. Outcome(p, taken, m, counts, ends, k)
    BY <1>7, <2>2, <2>4, <2>5 DEF Outcome
  <2>7. Outcome(p, Forgotten(taken), m, counts, ends, k)
    BY <1>5, <2>6, ForgottenOutcome
  <2> QED
    BY <1>3, <2>7
<1>8. CASE ~ p.hasHeader /\ HasNext(p, counts)
  <2>1. \/ Len(m) < ends[k + 1] /\ r.err = "bad"
        \/ HeaderGoes(p, r, m, counts, items, n, ends, k)
    BY <1>8, HeaderOutcome
  <2> HIDE DEF r, section
  <2>2. CASE Len(m) < ends[k + 1] /\ r.err = "bad"
    <3>1. r.err # "none"
      BY <2>2
    <3>2. taken = r
      <4> HIDE DEF found
      <4> QED
        BY <1>4, <3>1, TakenIs
    <3> HIDE DEF taken
    <3>3. taken.err = "bad"
      BY <2>2, <3>2
    <3>4. ~ (ends[k + 1] <= Len(m))
      BY <1>8, <2>2, ArrivedOrCut
    <3>5. Outcome(p, taken, m, counts, ends, k)
      BY <1>8, <3>3, <3>4 DEF Outcome
    <3>6. Outcome(p, Forgotten(taken), m, counts, ends, k)
      BY <1>5, <3>5, ForgottenOutcome
    <3> QED
      BY <1>3, <3>6 DEF section
  <2>3. CASE HeaderGoes(p, r, m, counts, items, n, ends, k)
    <3>1. r.index = p.index /\ r.section = p.section /\ r.err = "none" /\ r.hasHeader /\ Follows(r, m, counts, items, n, ends, k)
      BY <2>3 DEF HeaderGoes
    <3>2. Behind(r, m, counts, items, n, ends, k)
      BY <3>1 DEF Behind
    <3>3. Stays(r, r)
      BY <1>4, SelfStays
    <3>4. Outcome(r, taken, m, counts, ends, k)
      BY <3>1, <3>2, <3>3, HeldOutcomes
    <3> HIDE DEF taken
    <3>5. Outcome(p, taken, m, counts, ends, k)
      <4>1. HasNext(r, counts)
        BY <1>8, <3>1 DEF HasNext
      <4>2. \A item : Passes(r, taken, ends[k + 1], item) => Passes(p, taken, ends[k + 1], item)
        BY <1>2, <3>1 DEF Passes, SameMessage
      <4> QED
        BY <1>8, <3>4, <4>1, <4>2 DEF Outcome
    <3>6. Outcome(p, Forgotten(taken), m, counts, ends, k)
      BY <1>5, <3>5, ForgottenOutcome
    <3> QED
      BY <1>3, <3>6 DEF section
  <2> QED
    BY <2>1, <2>2, <2>3
<1> QED
  BY <1>6, <1>7, <1>8

(* A record that is skipped, its header read before or not.                 *)
LEMMA SkipResourceOutcome ==
    ASSUME NEW m, NEW counts, NEW items, NEW n, NEW ends, NEW p, NEW k,
           Behind(p, m, counts, items, n, ends, k), p.section \in RecordSections
    PROVE  Outcome(p, SkipResource(p, p.section), m, counts, ends, k)
<1> DEFINE section == p.section
           q == Error(p, "none")
           held == SkipTo(p.msg, p.off + p.header.length)
           found == SkipRecord(p.msg, p.off)
<1>1. IsParser(p) /\ section \in Sections /\ p.msg = m /\ (~ p.hasHeader => p.off = ends[k])
  BY SectionsAre DEF Behind, Follows
<1>2. CASE p.hasHeader
  <2>1. SkipResource(p, section) = Taken(q, held)
    BY <1>2 DEF SkipResource
  <2>2. Stays(p, q) /\ q.err = "none"
    BY <1>1, ErrorIs
  <2> HIDE DEF q
  <2>3. Outcome(p, Taken(q, held), m, counts, ends, k)
    BY <1>2, <2>2, HeldOutcomes
  <2> QED
    BY <2>1, <2>3
<1>3. CASE ~ p.hasHeader
  <2>1. SkipResource(p, section) = Taken(CheckAdvance(p, section), found)
    BY <1>3 DEF SkipResource
  <2>2. ASSUME HasNext(p, counts), ends[k + 1] <= Len(m) PROVE \E item : found = Found(item, ends[k + 1])
    <3>1. ItemThere(m, items[k + 1], ends[k], ends[k + 1]) /\ items[k + 1].section # Questions
      BY <2>2, SectionsAre, WholeItem
    <3>2. RecordThere(m, items[k + 1].item, ends[k], ends[k + 1])
      BY <3>1 DEF ItemThere
    <3> QED
      BY <1>1, <1>3, <3>2 DEF RecordThere
  <2>3. ASSUME HasNext(p, counts), Len(m) < ends[k + 1] PROVE ~ found.ok
    <3>1. ItemLost(m, items[k + 1], ends[k], ends[k + 1]) /\ items[k + 1].section # Questions
      BY <2>3, SectionsAre, LostItem
    <3> QED
      BY <1>1, <1>3, <3>1 DEF ItemLost
  <2> HIDE DEF found
  <2>4. Outcome(p, Taken(CheckAdvance(p, section), found), m, counts, ends, k)
    BY <1>1, <1>3, <2>2, <2>3, TakenOutcome
  <2> QED
    BY <2>1, <2>4
<1> QED
  BY <1>2, <1>3

(* An item of the section of a parser, read and skipped.                      *)
LEMMA ItemOutcome ==
    ASSUME NEW m, NEW counts, NEW items, NEW n, NEW ends, NEW p, NEW k,
           Behind(p, m, counts, items, n, ends, k), p.section \in Sections
    PROVE  /\ Outcome(p, ReadItem(p, p.section), m, counts, ends, k)
           /\ Outcome(p, SkipItem(p, p.section), m, counts, ends, k)
<1>1. CASE p.section = Questions
  BY <1>1, QuestionOutcome DEF ReadItem, SkipItem
<1>2. CASE p.section # Questions
  <2>1. p.section \in RecordSections
    BY <1>2, SectionsAre
  <2> QED
    BY <1>2, <2>1, ReadResourceOutcome, SkipResourceOutcome DEF ReadItem, SkipItem
<1> QED
  BY <1>1, <1>2

(* Skipping an item returns nothing.                                        *)
LEMMA SkipsReturnNothing ==
    ASSUME NEW p, IsParser(p), NEW section
    PROVE  SkipItem(p, section).err = "none" => SkipItem(p, section).item = NoItem
<1>1. /\ \A m, o : SkipTo(m, o).ok => SkipTo(m, o).value = NoItem
      /\ \A m, o : SkipQuestionAt(m, o).ok => SkipQuestionAt(m, o).value = NoItem
      /\ \A m, o : SkipRecord(m, o).ok => SkipRecord(m, o).value = NoItem
  <2>1. ~ Failure.ok /\ \A value, next : Found(value, next).value = value
    BY DEF Failure, Found
  <2>2. \A m, o : SkipTo(m, o) = Failure \/ SkipTo(m, o) = Found(NoItem, o)
    BY DEF SkipTo, NoItem
  <2>3. \A m, o : SkipTo(m, o).ok => SkipTo(m, o).value = NoItem
    BY <2>1, <2>2
  <2>4. \A m, name : PastType(m, name) = Failure \/ \E o : PastType(m, name) = SkipTo(m, o)
    BY DEF PastType
  <2>5. \A m, name : PastBody(m, name) = Failure \/ \E o : PastBody(m, name) = SkipTo(m, o)
    BY DEF PastBody
  <2>6. /\ \A m, name : PastType(m, name).ok => PastType(m, name).value = NoItem
        /\ \A m, name : PastBody(m, name).ok => PastBody(m, name).value = NoItem
    BY <2>1, <2>3, <2>4, <2>5
  <2> QED
    BY <2>3, <2>6 DEF SkipQuestionAt, SkipRecord
<1>2. ASSUME NEW q, IsParser(q), NEW found, found.ok => found.value = NoItem
      PROVE  Taken(q, found).err = "none" => Taken(q, found).item = NoItem
  <2> DEFINE new == Taken(q, found)
             bad == "bad"
  <2>1. CASE q.err # "none"
    BY <1>2, <2>1, TakenIs
  <2>2. CASE q.err = "none" /\ found.ok
    BY <1>2, <2>2, TakenIs DEF Passes
  <2>3. CASE q.err = "none" /\ ~ found.ok
    <3>1. new.err = "bad"
      BY <1>2, <2>3, TakenIs
    <3> QED
      BY <3>1
  <2> QED
    BY <2>1, <2>2, <2>3
<1>3. \A s : IsParser(CheckAdvance(p, s)) /\ IsParser(Error(p, "none"))
  BY PartsKeep DEF SameMessage
<1>4. SkipQuestion(p).err = "none" => SkipQuestion(p).item = NoItem
  BY <1>1, <1>2, <1>3 DEF SkipQuestion
<1>5. SkipResource(p, section).err = "none" => SkipResource(p, section).item = NoItem
  <2> DEFINE a == Error(p, "none")
             b == CheckAdvance(p, section)
             f == SkipTo(p.msg, p.off + p.header.length)
             g == SkipRecord(p.msg, p.off)
             h == SkipResource(p, section)
  <2>1. /\ Taken(a, f).err = "none" => Taken(a, f).item = NoItem
        /\ Taken(b, g).err = "none" => Taken(b, g).item = NoItem
    <3>1. (f.ok => f.value = NoItem) /\ (g.ok => g.value = NoItem) /\ IsParser(a) /\ IsParser(b)
      BY <1>1, <1>3
    <3> HIDE DEF a, b, f, g
    <3> QED
      BY <1>2, <3>1
  <2>2. h = Taken(a, f) \/ h = Taken(b, g)
    BY DEF SkipResource
  <2> HIDE DEF a, b, f, g, h
  <2>3. h.err = "none" => h.item = NoItem
    BY <2>1, <2>2
  <2> QED
    BY <2>3 DEF h
<1> QED
  BY <1>4, <1>5 DEF SkipItem

(* Two calls with the same outcome leave the same parser, but for the item     *)
(* that one returns and a header that no call looks at.                      *)
LEMMA SameOutcomes ==
    ASSUME NEW m, NEW counts, NEW items, NEW n, NEW ends, NEW p, NEW k,
           Behind(p, m, counts, items, n, ends, k),
           NEW r, NEW s, Outcome(p, r, m, counts, ends, k), Outcome(p, s, m, counts, ends, k),
           s.err = "none" => s.item = NoItem
    PROVE  /\ r.err = s.err
           /\ r.err = "none" => [r EXCEPT !.item = NoItem] = [s EXCEPT !.header = r.header]
<1>1. CASE ~ HasNext(p, counts)
  BY <1>1 DEF Outcome
<1>2. CASE HasNext(p, counts) /\ Len(m) < ends[k + 1]
  BY <1>2 DEF Outcome
<1>3. CASE HasNext(p, counts) /\ ends[k + 1] <= Len(m)
  <2>1. PICK a : Passes(p, r, ends[k + 1], a)
    BY <1>3 DEF Outcome
  <2>2. PICK b : Passes(p, s, ends[k + 1], b)
    BY <1>3 DEF Outcome
  <2>3. /\ IsParser(r) /\ r.section = s.section /\ r.off = s.off /\ r.index = s.index /\ r.hasHeader = s.hasHeader
        /\ IsParser(s) /\ r.msg = s.msg /\ r.head = s.head /\ r.counts = s.counts /\ r.err = "none" /\ s.err = "none"
    BY <2>1, <2>2 DEF Passes, SameMessage
  <2> DEFINE same == [msg |-> r.msg, head |-> r.head, counts |-> r.counts, section |-> r.section, off |-> r.off,
                      index |-> r.index, hasHeader |-> r.hasHeader, header |-> r.header, err |-> r.err, item |-> NoItem]
  <2>4. [r EXCEPT !.item = NoItem] = same
    BY <2>3 DEF IsParser
  <2>5. s.item = NoItem /\ [s EXCEPT !.header = r.header] = same
    BY <2>3 DEF IsParser
  <2> HIDE DEF same
  <2> QED
    BY <2>3, <2>4, <2>5
<1> QED
  BY <1>1, <1>2, <1>3, ArrivedOrCut

(* A call that finds the message bad, as it may only where an item is cut off.  *)
Fails(p, new, m, counts, ends, k) == new.err = "bad" /\ HasNext(p, counts) /\ Len(m) < ends[k + 1]

(* A call for a section that the parser is not in.                            *)
LEMMA ElsewhereGoes ==
    ASSUME NEW m, NEW counts, NEW items, NEW n, NEW ends, NEW p, NEW k,
           Behind(p, m, counts, items, n, ends, k), NEW how, NEW section \in Sections, p.section # section, NEW found
    PROVE  /\ Goes(p, Taken(CheckAdvance(p, section), found), m, counts, items, n, ends, k, how)
           /\ Goes(p, HeaderTaken(CheckAdvance(p, section), found), m, counts, items, n, ends, k, how)
           /\ ~ p.hasHeader =>
                 /\ IsParser(HeaderTaken(CheckAdvance(p, section), found))
                 /\ HeaderTaken(CheckAdvance(p, section), found).err # "none"
                 /\ HeaderTaken(CheckAdvance(p, section), found).hasHeader = FALSE
<1> DEFINE q == CheckAdvance(p, section)
<1>1. /\ Goes(p, q, m, counts, items, n, ends, k, how) /\ q.err # "none" /\ IsParser(q)
      /\ Follows(q, m, counts, items, n, ends, k) /\ (~ p.hasHeader => ~ q.hasHeader)
  BY CheckGoes
<1> HIDE DEF q
<1>2. Taken(q, found) = q /\ HeaderTaken(q, found) = q
  BY <1>1, TakenIs, HeaderTakenIs
<1>3. ~ p.hasHeader => q.hasHeader = FALSE
  BY <1>1 DEF Follows
<1> QED
  BY <1>1, <1>2, <1>3 DEF q

(* The cases of a call on an item that is cut off.                            *)
LEMMA CutReadHeader ==
    ASSUME NEW m, NEW counts, NEW items, NEW n, NEW ends, NEW p, NEW k,
           Behind(p, m, counts, items, n, ends, k), HasNext(p, counts), Len(m) < ends[k + 1],
           NEW section \in RecordSections
    PROVE  \/ Fails(p, ReadHeader(p, section), m, counts, ends, k)
           \/ Goes(p, ReadHeader(p, section), m, counts, items, n, ends, k, "read")
<1> DEFINE new == ReadHeader(p, section)
           q == Error(p, "none")
           asRead == "read"
<1>1. IsParser(p) /\ p.index \in Nat /\ section \in Sections
  BY SectionsAre DEF Behind, Follows
<1>2. CASE p.hasHeader
  <2>1. Stays(p, q) /\ q.err = "none"
    BY <1>1, ErrorIs
  <2> HIDE DEF q, asRead
  <2>2. q.err # "bad"
    BY <2>1
  <2>3. Goes(p, q, m, counts, items, n, ends, k, asRead)
    BY <2>1, <2>2, StaysGoes
  <2> QED
    BY <1>2, <2>3 DEF ReadHeader, q, asRead
<1>3. CASE ~ p.hasHeader /\ p.section # section
  <2>1. new = HeaderTaken(CheckAdvance(p, section), UnpackRecordHeader(p.msg, p.off))
    BY <1>3 DEF ReadHeader
  <2> HIDE DEF new, asRead
  <2>2. Goes(p, new, m, counts, items, n, ends, k, asRead)
    BY <1>1, <1>3, <2>1, ElsewhereGoes
  <2> QED
    BY <2>2 DEF new, asRead
<1>4. CASE ~ p.hasHeader /\ p.section = section
  <2>1. new.err = "bad" \/ HeaderGoes(p, new, m, counts, items, n, ends, k)
    BY <1>4, HeaderLostIs
  <2> HIDE DEF new
  <2>2. CASE new.err = "bad"
    BY <2>2 DEF Fails, new
  <2>3. CASE HeaderGoes(p, new, m, counts, items, n, ends, k)
    <3>1. new.err # "bad" /\ new.index = p.index /\ Follows(new, m, counts, items, n, ends, k)
      BY <2>3 DEF HeaderGoes
    <3>2. new.index # p.index + 1
      BY <1>1, <3>1
    <3> QED
      BY <3>1, <3>2 DEF Goes, new
  <2> QED
    BY <2>1, <2>2, <2>3
<1> QED
  BY <1>2, <1>3, <1>4

(* A record, read where it is cut off or for another section.               *)
LEMMA CutReadResource ==
    ASSUME NEW m, NEW counts, NEW items, NEW n, NEW ends, NEW p, NEW k,
           Behind(p, m, counts, items, n, ends, k), HasNext(p, counts), Len(m) < ends[k + 1],
           NEW section \in RecordSections
    PROVE  \/ Fails(p, ReadResource(p, section), m, counts, ends, k)
           \/ Goes(p, ReadResource(p, section), m, counts, items, n, ends, k, "read")
<1> DEFINE new == ReadResource(p, section)
           asRead == "read"
<1>1. section \in Sections
  BY SectionsAre
<1>2. CASE p.hasHeader \/ p.section = section
  <2>1. p.section \in RecordSections
    BY <1>2 DEF Behind, Follows, HeaderHeld
  <2>2. ReadHeader(p, section) = ReadHeader(p, p.section)
    BY <1>2 DEF ReadHeader
  <2>3. new = ReadResource(p, p.section)
    BY <2>2 DEF ReadResource
  <2> HIDE DEF new
  <2>4. Outcome(p, new, m, counts, ends, k)
    BY <2>1, <2>3, ReadResourceOutcome
  <2> QED
    BY <2>4 DEF Outcome, Fails, new
<1>3. CASE ~ p.hasHeader /\ p.section # section
  <2> DEFINE r == ReadHeader(p, section)
             found == WithBody(r.header, UnpackBody(r.msg, r.off, r.header))
             taken == Taken(r, found)
  <2>1. r = HeaderTaken(CheckAdvance(p, section), UnpackRecordHeader(p.msg, p.off))
    BY <1>3 DEF ReadHeader
  <2>2. new = Forgotten(taken)
    BY DEF ReadResource, ReadRecord, Forgotten
  <2> HIDE DEF r, found, asRead
  <2>3. Goes(p, r, m, counts, items, n, ends, k, asRead) /\ IsParser(r) /\ r.err # "none" /\ r.hasHeader = FALSE
    BY <1>1, <1>3, <2>1, ElsewhereGoes
  <2>4. taken = r
    BY <2>3, TakenIs
  <2> HIDE DEF taken, new
  <2>5. Goes(p, Forgotten(r), m, counts, items, n, ends, k, asRead)
    BY <2>3, ForgottenGoes
  <2> QED
    BY <2>2, <2>4, <2>5 DEF new, asRead
<1> QED
  BY <1>2, <1>3

(* A record, skipped where it is cut off or for another section.            *)
LEMMA CutSkipResource ==
    ASSUME NEW m, NEW counts, NEW items, NEW n, NEW ends, NEW p, NEW k,
           Behind(p, m, counts, items, n, ends, k), HasNext(p, counts), Len(m) < ends[k + 1],
           NEW section \in RecordSections
    PROVE  \/ Fails(p, SkipResource(p, section), m, counts, ends, k)
           \/ Goes(p, SkipResource(p, section), m, counts, items, n, ends, k, "skip")
<1> DEFINE new == SkipResource(p, section)
           skip == "skip"
<1>1. section \in Sections
  BY SectionsAre
<1>2. CASE p.hasHeader \/ p.section = section
  <2>1. p.section \in RecordSections
    BY <1>2 DEF Behind, Follows, HeaderHeld
  <2>2. new = SkipResource(p, p.section)
    BY <1>2 DEF SkipResource
  <2> HIDE DEF new
  <2>3. Outcome(p, new, m, counts, ends, k)
    BY <2>1, <2>2, SkipResourceOutcome
  <2> QED
    BY <2>3 DEF Outcome, Fails, new
<1>3. CASE ~ p.hasHeader /\ p.section # section
  <2>1. new = Taken(CheckAdvance(p, section), SkipRecord(p.msg, p.off))
    BY <1>3 DEF SkipResource
  <2> HIDE DEF new, skip
  <2>2. Goes(p, new, m, counts, items, n, ends, k, skip)
    BY <1>1, <1>3, <2>1, ElsewhereGoes
  <2> QED
    BY <2>2 DEF new, skip
<1> QED
  BY <1>2, <1>3

(* A question, read or skipped where an item is cut off.                    *)
LEMMA CutQuestion ==
    ASSUME NEW m, NEW counts, NEW items, NEW n, NEW ends, NEW p, NEW k,
           Behind(p, m, counts, items, n, ends, k), HasNext(p, counts), Len(m) < ends[k + 1]
    PROVE  /\ \/ Fails(p, ReadQuestion(p), m, counts, ends, k)
              \/ Goes(p, ReadQuestion(p), m, counts, items, n, ends, k, "read")
           /\ \/ Fails(p, SkipQuestion(p), m, counts, ends, k)
              \/ Goes(p, SkipQuestion(p), m, counts, items, n, ends, k, "skip")
<1>1. CASE p.section = Questions
  BY <1>1, QuestionOutcome DEF Outcome, Fails
<1>2. CASE p.section # Questions
  <2>1. Questions \in Sections
    BY SectionsAre
  <2>2. /\ \A found, how : Goes(p, Taken(CheckAdvance(p, Questions), found), m, counts, items, n, ends, k, how)
    BY <1>2, <2>1, ElsewhereGoes
  <2> QED
    BY <2>2 DEF ReadQuestion, SkipQuestion
<1> QED
  BY <1>1, <1>2

(* A body, read where a record is cut off.                                  *)
LEMMA CutReadBody ==
    ASSUME NEW m, NEW counts, NEW items, NEW n, NEW ends, NEW p, NEW k,
           Behind(p, m, counts, items, n, ends, k), HasNext(p, counts), Len(m) < ends[k + 1]
    PROVE  /\ \A type : \/ Fails(p, ReadBody(p, type), m, counts, ends, k)
                        \/ Goes(p, ReadBody(p, type), m, counts, items, n, ends, k, "read")
           /\ \/ Fails(p, ReadUnknown(p), m, counts, ends, k)
              \/ Goes(p, ReadUnknown(p), m, counts, items, n, ends, k, "bytes")
<1> DEFINE body == Taken(p, WithBody(p.header, UnpackBody(p.msg, p.off, p.header)))
           there == Taken(p, WithBody(p.header, UnpackBytes(p.msg, p.off, p.header.length)))
           e == Error(p, "not started")
<1>1. IsParser(p) /\ p.err = "none" /\ Stays(p, p)
  BY SelfStays DEF Behind, Follows
<1>2. \A how : Goes(p, e, m, counts, items, n, ends, k, how)
  <2>1. Stays(p, e) /\ e.err = "not started"
    BY <1>1, ErrorIs
  <2> HIDE DEF e
  <2>2. e.err # "bad"
    BY <2>1
  <2> QED
    BY <2>1, <2>2, StaysGoes
<1>3. ASSUME p.hasHeader PROVE Fails(p, body, m, counts, ends, k) /\ Fails(p, there, m, counts, ends, k)
  <2>1. Outcome(p, body, m, counts, ends, k) /\ Outcome(p, there, m, counts, ends, k)
    BY <1>1, <1>3, HeldOutcomes
  <2> HIDE DEF body, there
  <2> QED
    BY <2>1 DEF Outcome, Fails
<1>4. \A type : ReadBody(p, type) = e \/ (p.hasHeader /\ ReadBody(p, type) = body)
  BY DEF ReadBody
<1>5. ReadUnknown(p) = e \/ (p.hasHeader /\ ReadUnknown(p) = there)
  BY DEF ReadUnknown
<1> HIDE DEF body, there, e
<1> QED
  BY <1>2, <1>3, <1>4, <1>5

(* Every call goes on to the next item if it takes one, or fails where the     *)
(* next item is cut off.                                                    *)
LEMMA CallGoesOrFails ==
    ASSUME NEW m, NEW counts, NEW items, NEW n, NEW ends, NEW p, NEW k,
           Behind(p, m, counts, items, n, ends, k), NEW how, NEW new, IsCall(how, p, new)
    PROVE  \/ Fails(p, new, m, counts, ends, k)
           \/ Goes(p, new, m, counts, items, n, ends, k, how)
<1>1. CASE Reaches(p, m, counts, items, n, ends, k)
  BY <1>1, CallGoes
<1>2. CASE ~ Reaches(p, m, counts, items, n, ends, k)
  <2>1. HasNext(p, counts) /\ Len(m) < ends[k + 1]
    <3>1. HasNext(p, counts) /\ ~ (ends[k + 1] <= Len(m))
      BY <1>2 DEF Reaches, HasNext
    <3> QED
      BY <3>1, ArrivedOrCut
  <2>2. CASE how = "read" /\ new = ReadQuestion(p)
    BY <2>1, <2>2, CutQuestion
  <2>3. CASE how = "skip" /\ new = SkipQuestion(p)
    BY <2>1, <2>3, CutQuestion
  <2>4. ASSUME NEW section \in RecordSections, how = "read", new = ReadHeader(p, section)
        PROVE  Fails(p, new, m, counts, ends, k) \/ Goes(p, new, m, counts, items, n, ends, k, how)
    BY <2>1, <2>4, CutReadHeader
  <2>5. ASSUME NEW section \in RecordSections, how = "read", new = ReadResource(p, section)
        PROVE  Fails(p, new, m, counts, ends, k) \/ Goes(p, new, m, counts, items, n, ends, k, how)
    BY <2>1, <2>5, CutReadResource
  <2>6. ASSUME NEW section \in RecordSections, how = "skip", new = SkipResource(p, section)
        PROVE  Fails(p, new, m, counts, ends, k) \/ Goes(p, new, m, counts, items, n, ends, k, how)
    BY <2>1, <2>6, CutSkipResource
  <2>7. ASSUME NEW type, how = "read", new = ReadBody(p, type)
        PROVE  Fails(p, new, m, counts, ends, k) \/ Goes(p, new, m, counts, items, n, ends, k, how)
    BY <2>1, <2>7, CutReadBody
  <2>8. CASE how = "bytes" /\ new = ReadUnknown(p)
    BY <2>1, <2>8, CutReadBody
  <2> QED
    BY <2>2, <2>3, <2>4, <2>5, <2>6, <2>7, <2>8 DEF IsCall
<1> QED
  BY <1>1, <1>2

(* What has been read is the first k items, each as it was added or skipped.   *)
ReadSoFar(taken, items, k) ==
    /\ k \in Nat /\ taken = Firsts(taken, k)
    /\ \A i \in 1 .. k : /\ taken[i].section = items[i].section
                         /\ taken[i].how = "read" => taken[i].item = items[i].item

(* One more item, read or skipped.                                          *)
LEMMA ReadMore ==
    ASSUME NEW taken, NEW items, NEW k, ReadSoFar(taken, items, k), NEW entry,
           entry.section = items[k + 1].section, entry.how = "read" => entry.item = items[k + 1].item
    PROVE  ReadSoFar(Append(taken, entry), items, k + 1)
<1> DEFINE values == [i \in 1 .. k + 1 |-> IF i <= k THEN taken[i] ELSE entry]
           n == k + 1
           new == Append(taken, entry)
<1>1. /\ k \in Nat /\ n \in Nat /\ n \in 1 .. n /\ ~ (n <= k)
      /\ \A i \in 1 .. k : i \in 1 .. n /\ i <= k
      /\ \A i \in 1 .. n : i \in 1 .. k \/ i = n
  BY DEF ReadSoFar
<1>2. values[n] = entry /\ \A i \in 1 .. k : values[i] = taken[i]
  BY <1>1
<1>3. Firsts(values, k) = taken
  <2>1. Firsts(taken, k) = taken
    BY DEF ReadSoFar
  <2> HIDE DEF values
  <2>2. Firsts(values, k) = Firsts(taken, k)
    BY <1>2 DEF Firsts
  <2> QED
    BY <2>1, <2>2
<1>4. new = Firsts(values, n)
  <2>1. Append(Firsts(values, k), values[k + 1]) = Firsts(values, k + 1)
    BY <1>1, FirstsGrow
  <2> HIDE DEF values
  <2> QED
    BY <1>2, <1>3, <2>1
<1> HIDE DEF values, n, new
<1>5. \A i \in 1 .. n : new[i] = values[i]
  BY <1>4 DEF Firsts
<1>6. new = Firsts(new, n)
  BY <1>4, <1>5 DEF Firsts
<1>7. ASSUME NEW i \in 1 .. n
      PROVE  new[i].section = items[i].section /\ (new[i].how = "read" => new[i].item = items[i].item)
  <2>1. CASE i = n
    <3>1. new[i] = entry
      BY <1>2, <1>5, <2>1
    <3> QED
      BY <2>1, <3>1 DEF n
  <2>2. CASE i \in 1 .. k
    <3>1. new[i] = taken[i]
      BY <1>2, <1>5, <2>2
    <3> QED
      BY <2>2, <3>1 DEF ReadSoFar
  <2> QED
    BY <1>1, <2>1, <2>2
<1>8. ReadSoFar(new, items, n)
  BY <1>1, <1>6, <1>7 DEF ReadSoFar
<1> QED
  BY <1>8 DEF new, n

(* The part of the message that arrives.                                     *)
Beginning(l) == SubSeq(Message, 1, l)

(* What has arrived is the bytes from the start of the message.             *)
LEMMA BeginningIs ==
    ASSUME Packing(builder, HeaderHole), NEW l \in Nat, l <= Len(Message)
    PROVE  /\ Beginning(l) \in Bytes /\ Len(Beginning(l)) = l
           /\ \A x \in 1 .. l : Beginning(l)[x] = builder.msg[builder.start + x]
           /\ Beginning(l) = Message <=> l = Len(Message)
<1> DEFINE m == Beginning(l)
           big == Len(Message)
           zero == 0
<1>1. Message \in Bytes /\ big \in Nat /\ big = Size(builder)
      /\ \A x \in 1 .. big : Message[x] = builder.msg[builder.start + x]
  <2>1. Message \in Bytes /\ big = Size(builder)
        /\ \A x \in 1 .. Size(builder) : Message[x] = builder.msg[builder.start + x]
    BY MessageAgrees
  <2>2. big \in Nat
    BY <2>1, LenProperties DEF Bytes
  <2> QED
    BY <2>1, <2>2
<1>2. m \in Bytes /\ Len(m) = l /\ \A x \in 1 .. l : m[x] = Message[x]
  <2>1. zero \in Nat /\ zero + l <= Len(Message) /\ m = SubSeq(Message, zero + 1, zero + l)
        /\ \A x \in 1 .. l : zero + x = x
    BY DEF Beginning
  <2> HIDE DEF m, zero
  <2>2. /\ SubSeq(Message, zero + 1, zero + l) \in Bytes /\ Len(SubSeq(Message, zero + 1, zero + l)) = l
        /\ \A x \in 1 .. l : SubSeq(Message, zero + 1, zero + l)[x] = Message[zero + x]
    BY <1>1, <2>1, PartOf
  <2> QED
    BY <2>1, <2>2
<1> HIDE DEF m, big
<1>3. l <= big
  BY DEF big
<1>4. 1 .. l \subseteq 1 .. big
  BY <1>1, <1>3
<1>5. \A x \in 1 .. l : m[x] = builder.msg[builder.start + x]
  BY <1>1, <1>2, <1>4
<1>6. m = Message <=> l = big
  <2>1. m = Message => l = big
    BY <1>2 DEF big
  <2>2. ASSUME l = big PROVE m = Message
    <3>1. Len(m) = Len(Message) /\ \A x \in 1 .. Len(m) : m[x] = Message[x]
      BY <1>2, <2>2 DEF big
    <3> QED
      BY <1>1, <1>2, <3>1, SeqEqual DEF Bytes
  <2> QED
    BY <2>1, <2>2
<1> QED
  BY <1>2, <1>5, <1>6 DEF m, big

(* What arrives is a beginning of the message.                              *)
LEMMA BeginningOf ==
    ASSUME Packing(builder, HeaderHole), NEW l \in Nat, l <= Len(Message)
    PROVE  Begins(Beginning(l), Message)
<1> DEFINE m == Beginning(l)
           u == builder.msg
           start == builder.start
           whole == Message
           size == Size(builder)
<1>1. m \in Bytes /\ Len(m) = l /\ \A x \in 1 .. l : m[x] = u[start + x]
  BY BeginningIs
<1>2. whole \in Bytes /\ Len(whole) = size /\ \A x \in 1 .. size : whole[x] = u[start + x]
  BY MessageAgrees
<1>3. Len(whole) \in Nat
  BY <1>2, LenProperties DEF Bytes
<1>4. l <= Len(whole)
  OBVIOUS
<1> HIDE DEF m, u, start, whole, size
<1>5. 1 .. l \subseteq 1 .. size
  BY <1>2, <1>3, <1>4
<1>6. \A x \in 1 .. l : m[x] = whole[x]
  BY <1>1, <1>2, <1>5
<1>7. Begins(m, whole)
  BY <1>1, <1>2, <1>4, <1>6 DEF Begins
<1> QED
  BY <1>7 DEF m, whole

(* Where the items added stand.                                              *)
ItemsLaid(b, items, n, ends) == n = Len(items) /\ Laid(b.msg, b.start, Size(b), items, n, ends)

(* The items that have arrived as a whole are there.                        *)
LEMMA BeginningArrived ==
    ASSUME Packing(builder, HeaderHole), NEW items, HoldsItems(builder, items),
           NEW n, NEW ends, ItemsLaid(builder, items, n, ends), NEW l \in Nat, l <= Len(Message)
    PROVE  Arrived(Beginning(l), builder.counts, items, n, ends)
<1> DEFINE m == Beginning(l)
<1>1. m \in Bytes /\ Len(m) = l /\ \A x \in 1 .. l : m[x] = builder.msg[builder.start + x]
  BY BeginningIs
<1>2. /\ n \in Nat /\ n = Len(items) /\ ends \in [0 .. n -> Nat]
      /\ \A i \in 1 .. n : ItemStands(builder.msg, builder.start, items[i], ends[i - 1], ends[i])
  BY DEF ItemsLaid, Laid
<1>3. items \in Seq(BuiltEntries) /\ Ordered(builder.counts, items) /\ builder.counts \in [Sections -> Nat]
  BY DEF HoldsItems, Packing, Outs
<1> HIDE DEF m
<1>4. ASSUME NEW i \in 1 .. n, ends[i] <= Len(m) PROVE ItemThere(m, items[i], ends[i - 1], ends[i])
  <2> DEFINE from == ends[i - 1]
             to == ends[i]
  <2>1. to \in Nat /\ to <= l
    BY <1>1, <1>2, <1>4
  <2>2. ItemStands(builder.msg, builder.start, items[i], from, to)
    BY <1>2
  <2> HIDE DEF from, to
  <2>3. 1 .. to \subseteq 1 .. l
    BY <2>1
  <2>4. Agrees(m, to, HeaderHole, builder.msg, builder.start)
    BY <1>1, <2>1, <2>3 DEF Agrees
  <2> QED
    BY <2>2, <2>4 DEF ItemStands, from, to
<1>5. ASSUME NEW i \in 1 .. n, ends[i - 1] <= Len(m), Len(m) < ends[i]
      PROVE  ItemLost(m, items[i], ends[i - 1], ends[i])
  <2> DEFINE from == ends[i - 1]
             to == ends[i]
             whole == Message
  <2>1. ItemStands(builder.msg, builder.start, items[i], from, to)
    BY <1>2
  <2>2. Agrees(whole, Size(builder), HeaderHole, builder.msg, builder.start) /\ Size(builder) \in Nat
    BY MessageAgrees, SizeIs DEF Packing, Outs
  <2>3. to \in Nat /\ to <= Size(builder)
    <3>1. i \in 0 .. n
      BY <1>2
    <3> QED
      BY <1>2, <3>1 DEF ItemsLaid, Laid
  <2> DEFINE size == Size(builder)
  <2>4. Agrees(whole, to, HeaderHole, builder.msg, builder.start)
    <3> HIDE DEF to, whole, size
    <3>1. whole \in Bytes /\ size <= Len(whole) /\ \A x \in 1 .. size : x \notin HeaderHole => whole[x] = builder.msg[builder.start + x]
      BY <2>2 DEF Agrees, size
    <3>2. to \in Nat /\ size \in Nat /\ to <= size /\ Len(whole) \in Nat
      BY <2>2, <2>3, <3>1, LenProperties DEF size, Bytes
    <3>3. 1 .. to \subseteq 1 .. size /\ to <= Len(whole)
      BY <3>1, <3>2
    <3> QED
      BY <3>1, <3>3 DEF Agrees
  <2>5. Begins(m, whole)
    BY BeginningOf DEF m
  <2> HIDE DEF from, to, whole, size
  <2>6. ItemThere(whole, items[i], from, to)
    BY <2>1, <2>4 DEF ItemStands
  <2>7. from <= Len(m) /\ Len(m) < to
    BY <1>5 DEF from, to
  <2>8. ItemLost(m, items[i], from, to)
    BY <2>5, <2>6, <2>7, CutItemIsLost
  <2> QED
    BY <2>8 DEF from, to
<1>6. Arrived(m, builder.counts, items, n, ends)
  BY <1>1, <1>2, <1>3, <1>4, <1>5 DEF Arrived
<1> QED
  BY <1>6 DEF m

(* The header has arrived if twelve bytes have.                             *)
LEMMA BeginningBegins ==
    ASSUME Packing(builder, HeaderHole), NEW items, HoldsItems(builder, items), HeaderLaid(builder),
           NEW l \in Nat, l <= Len(Message), 12 <= l
    PROVE  BeginsLike(Beginning(l), builder)
<1> DEFINE m == Beginning(l)
<1>1. m \in Bytes /\ Len(m) = l /\ \A x \in 1 .. l : m[x] = builder.msg[builder.start + x]
  BY BeginningIs
<1>2. \A s \in Sections : builder.counts[s] <= MaxCount
  BY DEF HoldsItems
<1> HIDE DEF m
<1>3. 1 .. 12 \subseteq 1 .. l
  OBVIOUS
<1>4. BeginsLike(m, builder)
  BY <1>1, <1>2, <1>3 DEF BeginsLike
<1> QED
  BY <1>4 DEF m

(* A parser follows the message and has read the items it is behind.           *)
KeepsUp(b, p, taken, items, n, ends, k) ==
    /\ ItemsLaid(b, items, n, ends) /\ Arrived(p.msg, b.counts, items, n, ends)
    /\ Follows(p, p.msg, b.counts, items, n, ends, k) /\ ReadSoFar(taken, items, k)

(* The parser follows the message that has been built.                      *)
ParserFollows == \E n, ends, k : KeepsUp(builder, parser, read, built, n, ends, k)

(* A parser of what has arrived of the message follows it, and finds it bad     *)
(* only where it is cut off.                                                 *)
ParserHolds ==
    /\ IsParser(parser)
    /\ parser.msg = <<>> => read = <<>>
    /\ parser.msg # <<>> => builder.section = SectionDone
    /\ ~ stale /\ parser.msg # <<>> =>
          \/ parser.err = "bad" /\ ~ IsWhole
          \/ parser.err = "none" /\ ParserFollows

(* Nothing has been read at first.                                          *)
LEMMA NoneRead == ASSUME NEW items PROVE ReadSoFar(<<>>, items, 0)
<1> DEFINE none == <<>>
<1>1. 1 .. 0 = {} /\ 0 \in Nat
  OBVIOUS
<1>2. Firsts(none, 0) = <<>>
  BY <1>1 DEF Firsts
<1> QED
  BY <1>1, <1>2 DEF ReadSoFar

(* A parser that has just been given the message follows it.                *)
LEMMA StartFollows ==
    ASSUME Packing(builder, HeaderHole), NEW items, HoldsItems(builder, items), HeaderLaid(builder),
           NEW n, NEW ends, ItemsLaid(builder, items, n, ends), NEW l \in Nat, l <= Len(Message), 12 <= l
    PROVE  /\ StartParser(Beginning(l)).err = "none"
           /\ KeepsUp(builder, StartParser(Beginning(l)), <<>>, items, n, ends, 0)
<1> DEFINE m == Beginning(l)
           p == StartParser(m)
           none == <<>>
<1>1. Arrived(m, builder.counts, items, n, ends) /\ BeginsLike(m, builder) /\ builder \in Outs
  BY BeginningArrived, BeginningBegins DEF Packing
<1> HIDE DEF m
<1>2. p = StartParser(m)
  OBVIOUS
<1> HIDE DEF p
<1>3. /\ IsParser(p) /\ p.msg = m /\ p.counts = builder.counts /\ p.section = Questions /\ p.off = 12
      /\ p.index = 0 /\ p.hasHeader = FALSE /\ p.err = "none"
  <2>1. AtStart(p, m, builder)
    BY <1>1, <1>2, StartedIs
  <2> QED
    BY <2>1 DEF AtStart
<1>4. builder.counts \in [Sections -> Nat] /\ ends[0] = 12
  BY <1>1 DEF Outs, ItemsLaid, Laid
<1>5. CountBefore(builder.counts, 2) = 0 /\ Questions = 2 /\ 2 \in Sections
  BY <1>4, CountsAre, SectionsAre DEF Questions
<1>6. p.section = 2 /\ p.section \in 2 .. 6 /\ p.section \in Sections /\ p.index \in Nat
      /\ p.index <= builder.counts[p.section]
  <2> DEFINE c == builder.counts[2]
  <2>1. c \in Nat
    BY <1>4, <1>5
  <2> HIDE DEF c
  <2>2. 0 <= c /\ 0 \in Nat /\ 2 \in 2 .. 6
    BY <2>1
  <2> QED
    BY <1>3, <1>5, <2>2 DEF c
<1>7. 0 = CountBefore(builder.counts, p.section) + p.index
  <2> DEFINE c == CountBefore(builder.counts, 2)
  <2>1. c = 0
    BY <1>5
  <2> HIDE DEF c
  <2>2. 0 = c + 0
    BY <2>1
  <2> QED
    BY <1>3, <1>6, <2>2 DEF c
<1>8. Follows(p, m, builder.counts, items, n, ends, 0)
  <2>1. p.off = ends[0] /\ ends[0] <= Len(p.msg)
    <3>1. Len(p.msg) = l
      BY <1>3, BeginningIs DEF m
    <3> QED
      BY <1>3, <1>4, <3>1
  <2>2. ends[0] <= Len(m)
    BY <1>3, <2>1
  <2> QED
    BY <1>3, <1>4, <1>6, <1>7, <2>1, <2>2 DEF Follows
<1>9. ReadSoFar(none, items, 0)
  BY NoneRead
<1> HIDE DEF none
<1>10. KeepsUp(builder, p, none, items, n, ends, 0)
  BY <1>1, <1>3, <1>8, <1>9 DEF KeepsUp
<1> QED
  BY <1>3, <1>10 DEF p, m, none

(* The message has its header.                                               *)
LEMMA HasHeader ==
    ASSUME Packing(builder, HeaderHole), NEW items, NEW n, NEW ends, ItemsLaid(builder, items, n, ends)
    PROVE  Len(Message) \in Nat /\ Len(Message) = Size(builder) /\ 12 <= Len(Message)
<1> DEFINE big == Len(Message)
<1>1. big \in Nat /\ big = Size(builder)
  BY MessageAgrees, LenProperties DEF Bytes
<1>2. n \in Nat /\ ends[0] = 12 /\ \A i \in 0 .. n : ends[i] <= Size(builder)
  BY DEF ItemsLaid, Laid
<1>3. 0 \in 0 .. n
  BY <1>2
<1>4. ends[0] <= Size(builder)
  BY <1>2, <1>3
<1> QED
  BY <1>1, <1>2, <1>4

(* A parser cannot be started on less than a header.                          *)
LEMMA StartFails ==
    ASSUME Packing(builder, HeaderHole), NEW items, HoldsItems(builder, items), HeaderLaid(builder),
           NEW n, NEW ends, ItemsLaid(builder, items, n, ends), NEW l \in Nat, l < 12
    PROVE  StartParser(Beginning(l)).err = "bad" /\ Beginning(l) # Message
<1> DEFINE m == Beginning(l)
           big == Len(Message)
           whole == Message
           zero == 0
           layout == MessageHeader
           f == UnpackFields(m, zero, layout, zero)
           g == UnpackFields(whole, zero, layout, zero)
<1>1. big \in Nat /\ 12 <= big
  BY HasHeader
<1>2. BeginsLike(whole, builder) /\ builder \in Outs
  <2>1. Beginning(big) = Message
    BY <1>1, BeginningIs
  <2>2. BeginsLike(Beginning(big), builder)
    BY <1>1, BeginningBegins
  <2> QED
    BY <2>1, <2>2 DEF Packing
<1>3. l <= big /\ l # big
  <2> HIDE DEF big
  <2> QED
    BY <1>1
<1>4. Begins(m, whole) /\ Len(m) = l /\ m # Message
  BY <1>3, BeginningOf, BeginningIs
<1>5. \E value : g = Found(value, 12)
  BY <1>2, MessageHeaderIsRead
<1>6. Len(layout) \in Nat /\ zero \in Nat /\ zero <= l
  BY DEF MessageHeader
<1> HIDE DEF m, whole, zero, layout
<1>7. SameRead(f, g, l)
  <2>1. zero <= Len(m)
    BY <1>4, <1>6
  <2>2. SameRead(f, g, Len(m))
    BY <1>4, <1>6, <2>1, BeginsFields
  <2> QED
    BY <1>4, <2>2
<1>8. ~ f.ok
  <2> HIDE DEF f, g
  <2>1. PICK value : g = Found(value, 12)
    BY <1>5
  <2>2. 12 \in Nat
    OBVIOUS
  <2> QED
    BY <1>7, <2>1, <2>2, EndsBehind
<1>9. StartParser(m) = [NewParser EXCEPT !.msg = m, !.err = "bad"]
  BY <1>8 DEF StartParser, Started, f, layout, zero
<1>10. StartParser(m).err = "bad"
  <2>1. IsParser(NewParser)
    BY DEF NewParser, IsParser
  <2> QED
    BY <1>9, <2>1 DEF IsParser
<1> QED
  BY <1>4, <1>10 DEF m

(* A message arrives.                                                       *)
LEMMA ArriveKeeps ==
    ASSUME BuilderHolds, ParserHolds, NEW lost \in Cuts, Arrive(lost)
    PROVE  ParserHolds'
<1> DEFINE l == Len(Message) - lost
           m == Beginning(l)
           p == StartParser(m)
<1>1. /\ ~ Building /\ parser.msg = <<>> /\ lost < Len(Message)
      /\ parser' = p /\ builder' = builder /\ built' = built /\ stale' = stale /\ read' = read
  BY DEF Arrive, Beginning
<1>2. builder.section = SectionDone /\ read = <<>>
  BY <1>1 DEF Building, ParserHolds
<1>3. IsParser(parser') /\ parser'.msg = m
  BY <1>1, StartKeeps
<1>4. IsWhole' <=> m = Message
  BY <1>1, <1>3 DEF IsWhole, Message
<1> HIDE DEF m, p
<1>5. ASSUME ~ stale
      PROVE  (parser'.err = "bad" /\ m # Message) \/ (parser'.err = "none" /\ ParserFollows')
  <2>1. Packing(builder, HeaderHole) /\ HoldsItems(builder, built) /\ HeaderLaid(builder)
    BY <1>2, <1>5 DEF BuilderHolds
  <2>2. PICK n, ends : ItemsLaid(builder, built, n, ends)
    BY <2>1 DEF HoldsItems, Lies, ItemsLaid
  <2> DEFINE big == Len(Message)
  <2>3. big \in Nat
    BY <2>1, <2>2, HasHeader
  <2>4. lost \in Nat /\ lost < big
    BY <1>1, InputAssumption
  <2> HIDE DEF big
  <2>5. l \in Nat /\ l <= big
    BY <2>3, <2>4 DEF big
  <2>6. m = Beginning(l) /\ p = StartParser(m)
    BY DEF m, p
  <2> HIDE DEF l
  <2>7. CASE l < 12
    <3>1. p.err = "bad" /\ m # Message
      BY <2>1, <2>2, <2>5, <2>6, <2>7, StartFails
    <3> QED
      BY <1>1, <3>1
  <2>8. CASE 12 <= l
    <3>1. p.err = "none" /\ KeepsUp(builder, p, <<>>, built, n, ends, 0)
      BY <2>1, <2>2, <2>5, <2>6, <2>8, StartFollows DEF big
    <3>2. KeepsUp(builder', parser', read', built', n, ends, 0)
      BY <1>1, <1>2, <3>1
    <3>3. ParserFollows'
      BY <3>2 DEF ParserFollows
    <3> QED
      BY <1>1, <3>1, <3>3
  <2> QED
    BY <2>5, <2>7, <2>8
<1> QED
  BY <1>1, <1>2, <1>3, <1>4, <1>5 DEF ParserHolds

(* What a step of the caller leaves of a call.                               *)
Settled(p) == IF p.err = "bad" THEN p ELSE Error(p, "none")

(* Settling a call keeps the message.                                       *)
LEMMA SettledIs ==
    ASSUME NEW p, IsParser(p)
    PROVE  /\ SameMessage(p, Settled(p))
           /\ Settled(p) = IF p.err = "bad" THEN p ELSE [p EXCEPT !.err = "none", !.item = NoItem]
<1>1. SameMessage(p, p) /\ SameMessage(p, Error(p, "none"))
  BY PartsKeep DEF SameMessage
<1> QED
  BY <1>1 DEF Settled, Error

(* What has been read after a call.                                          *)
MoreRead(taken, p, how, new) ==
    IF new.index = p.index + 1
    THEN Append(taken, [section |-> p.section, how |-> how, item |-> new.item]) ELSE taken

(* A parser that follows the message goes on doing so, or fails.                *)
LEMMA CallFollows ==
    ASSUME NEW m, NEW counts, NEW items, NEW n, NEW ends, NEW p, NEW k,
           Behind(p, m, counts, items, n, ends, k), NEW taken, ReadSoFar(taken, items, k),
           NEW how, NEW new, IsCall(how, p, new), ~ Fails(p, new, m, counts, ends, k)
    PROVE  /\ new.err # "bad"
           /\ \E j : Follows(Settled(new), m, counts, items, n, ends, j) /\ ReadSoFar(MoreRead(taken, p, how, new), items, j)
<1> DEFINE entry == [section |-> p.section, how |-> how, item |-> new.item]
           more == MoreRead(taken, p, how, new)
<1>1. Goes(p, new, m, counts, items, n, ends, k, how)
  BY CallGoesOrFails
<1>2. ASSUME NEW j, Follows(new, m, counts, items, n, ends, j), new.err # "bad"
      PROVE  Follows(Settled(new), m, counts, items, n, ends, j)
  <2>1. IsParser(new)
    BY <1>2 DEF Follows
  <2>2. Stays(new, Settled(new))
    BY <1>2, <2>1, ErrorIs DEF Settled
  <2> QED
    BY <1>2, <2>2, StaysFollows
<1>3. CASE new.index # p.index + 1
  <2>1. Follows(new, m, counts, items, n, ends, k) /\ new.err # "bad" /\ more = taken
    BY <1>1, <1>3 DEF Goes, MoreRead
  <2> QED
    BY <1>2, <2>1
<1>4. CASE new.index = p.index + 1
  <2>1. /\ Follows(new, m, counts, items, n, ends, k + 1) /\ new.err # "bad" /\ HasNext(p, counts)
        /\ how = "read" => new.item = items[k + 1].item
    BY <1>1, <1>4 DEF Goes
  <2>2. items[k + 1].section = p.section
    BY <2>1, FollowsWithin DEF Behind, HasNext
  <2>3. entry.section = items[k + 1].section /\ (entry.how = "read" => entry.item = items[k + 1].item)
    BY <2>1, <2>2
  <2>4. more = Append(taken, entry)
    BY <1>4 DEF MoreRead
  <2> HIDE DEF entry
  <2>5. ReadSoFar(more, items, k + 1)
    BY <2>3, <2>4, ReadMore
  <2> QED
    BY <1>2, <2>1, <2>5
<1> QED
  BY <1>3, <1>4

(* A whole message has no item that is cut off.                              *)
LEMMA WholeIsNotCut ==
    ASSUME Packing(builder, HeaderHole), NEW items, NEW n, NEW ends, ItemsLaid(builder, items, n, ends),
           NEW p, NEW k, Behind(p, p.msg, builder.counts, items, n, ends, k),
           HasNext(p, builder.counts), Len(p.msg) < ends[k + 1]
    PROVE  p.msg # Message
<1> DEFINE big == Len(Message)
           to == ends[k + 1]
<1>1. big \in Nat /\ big = Size(builder)
  BY HasHeader
<1>2. k + 1 \in 0 .. n
  BY FollowsWithin DEF Behind, HasNext
<1>3. to \in Nat /\ to <= big
  BY <1>1, <1>2 DEF ItemsLaid, Laid
<1> HIDE DEF to, big
<1>4. ~ (big < to)
  BY <1>1, <1>3
<1> QED
  BY <1>4 DEF to, big

(* A call of the parser.                                                    *)
LEMMA TakeKeeps ==
    ASSUME BuilderHolds, ParserHolds, NEW how, NEW p, IsCall(how, parser, p), Take(how, p)
    PROVE  ParserHolds'
<1> DEFINE more == MoreRead(read, parser, how, p)
<1>1. /\ parser.msg # <<>> /\ parser.err # "bad" /\ read' = more
      /\ builder' = builder /\ built' = built /\ stale' = stale
      /\ parser' = IF p.err = "bad" THEN p ELSE [p EXCEPT !.err = "none", !.item = NoItem]
  BY DEF Take, Parsing, MoreRead
<1>2. IsParser(parser) /\ builder.section = SectionDone
  BY <1>1 DEF ParserHolds
<1>3. SameMessage(parser, p)
  BY <1>2, CallKeeps
<1>4. parser' = Settled(p) /\ SameMessage(p, parser')
  BY <1>1, <1>3, SettledIs DEF SameMessage
<1>5. IsParser(parser') /\ parser'.msg = parser.msg
  BY <1>3, <1>4 DEF SameMessage
<1>6. IsWhole' <=> IsWhole
  BY <1>1, <1>5 DEF IsWhole, Message
<1> HIDE DEF more
<1>7. ASSUME ~ stale
      PROVE  (parser'.err = "bad" /\ ~ IsWhole) \/ (parser'.err = "none" /\ ParserFollows')
  <2> DEFINE m == parser.msg
             counts == builder.counts
  <2>1. parser.err = "none" /\ ParserFollows
    BY <1>1, <1>7 DEF ParserHolds
  <2>2. PICK n, ends, k : KeepsUp(builder, parser, read, built, n, ends, k)
    BY <2>1 DEF ParserFollows
  <2>3. /\ ItemsLaid(builder, built, n, ends) /\ Arrived(m, counts, built, n, ends)
        /\ Follows(parser, m, counts, built, n, ends, k) /\ ReadSoFar(read, built, k)
    BY <2>2 DEF KeepsUp
  <2>4. Behind(parser, m, counts, built, n, ends, k)
    BY <2>1, <2>3 DEF Behind
  <2>5. CASE Fails(parser, p, m, counts, ends, k)
    <3>1. p.err = "bad" /\ HasNext(parser, counts) /\ Len(m) < ends[k + 1]
      BY <2>5 DEF Fails
    <3>2. m # Message
      BY <1>7, <2>3, <2>4, <3>1, WholeIsNotCut DEF BuilderHolds
    <3>3. parser' = p
      BY <1>1, <3>1
    <3> QED
      BY <3>1, <3>2, <3>3 DEF IsWhole
  <2>6. CASE ~ Fails(parser, p, m, counts, ends, k)
    <3> HIDE DEF m, counts
    <3>1. PICK j : Follows(Settled(p), m, counts, built, n, ends, j) /\ ReadSoFar(more, built, j)
      BY <2>3, <2>4, <2>6, CallFollows DEF more
    <3>2. p.err # "bad"
      BY <2>3, <2>4, <2>6, CallFollows DEF more
    <3>3. parser'.err = "none"
      <4>1. IsParser(p)
        BY <1>3 DEF SameMessage
      <4>2. Error(p, "none").err = "none"
        BY <4>1, ErrorIs
      <4> QED
        BY <1>4, <3>2, <4>2 DEF Settled
    <3>4. KeepsUp(builder', parser', read', built', n, ends, j)
      BY <1>1, <1>4, <1>5, <2>3, <3>1 DEF KeepsUp, m, counts
    <3> QED
      BY <3>3, <3>4 DEF ParserFollows
  <2> QED
    BY <2>5, <2>6
<1> QED
  BY <1>1, <1>2, <1>5, <1>6, <1>7 DEF ParserHolds

(* Before a message arrives.                                                *)
LEMMA ParserStarts == Init => ParserHolds
<1>1. IsParser(NewParser) /\ NewParser.msg = <<>>
  BY DEF NewParser, IsParser
<1> QED
  BY <1>1 DEF Init, ParserHolds

(* The parser is the same, and the message is not being parsed or the same.     *)
LEMMA CallWaits ==
    ASSUME ParserHolds, NEW b, NEW items, Call(b, items)
    PROVE  ParserHolds'
<1>1. builder.section # SectionDone /\ parser' = parser /\ read' = read
  BY DEF Call, Building
<1>2. parser.msg = <<>>
  BY <1>1 DEF ParserHolds
<1> QED
  BY <1>1, <1>2 DEF ParserHolds

(* Every step.                                                              *)
LEMMA ParsingHolds == BuilderHolds /\ ParserHolds /\ [Next]_vars => ParserHolds'
<1> SUFFICES ASSUME BuilderHolds, ParserHolds, [Next]_vars PROVE ParserHolds'
  OBVIOUS
<1>1. CASE Compress
  BY <1>1, CallWaits DEF Compress
<1>2. ASSUME NEW section \in Sections, Start(section) PROVE ParserHolds'
  BY <1>2, CallWaits DEF Start
<1>3. ASSUME NEW q \in QuestionItems, BuildQuestion(q) PROVE ParserHolds'
  BY <1>3, CallWaits DEF BuildQuestion
<1>4. ASSUME NEW r \in RecordItems, BuildResource(r) PROVE ParserHolds'
  BY <1>4, CallWaits DEF BuildResource
<1>5. CASE FinishMessage
  BY <1>5, CallWaits DEF FinishMessage
<1>6. ASSUME NEW lost \in Cuts, Arrive(lost) PROVE ParserHolds'
  BY <1>6, ArriveKeeps
<1>7. CASE TakeQuestion \/ PassQuestion
  BY <1>7, TakeKeeps DEF TakeQuestion, PassQuestion, IsCall
<1>8. ASSUME NEW section \in RecordSections,
             TakeHeader(section) \/ TakeResource(section) \/ PassResource(section)
      PROVE  ParserHolds'
  BY <1>8, TakeKeeps DEF TakeHeader, TakeResource, PassResource, IsCall
<1>9. ASSUME NEW type, TakeBody(type) PROVE ParserHolds'
  BY <1>9, TakeKeeps DEF TakeBody, IsCall
<1>10. CASE TakeUnknown
  BY <1>10, TakeKeeps DEF TakeUnknown, IsCall
<1>11. CASE UNCHANGED vars
  <2>1. builder' = builder /\ parser' = parser /\ built' = built /\ stale' = stale /\ read' = read
    BY <1>11 DEF vars
  <2>2. IsWhole' <=> IsWhole
    BY <2>1 DEF IsWhole, Message
  <2>3. ParserFollows' <=> ParserFollows
    BY <2>1 DEF ParserFollows
  <2> QED
    BY <2>1, <2>2, <2>3 DEF ParserHolds
<1> QED
  BY <1>1, <1>2, <1>3, <1>4, <1>5, <1>6, <1>7, <1>8, <1>9, <1>10, <1>11 DEF Next

(* A parser is always behind as many items as it has read or skipped, and       *)
(* finds only a message bad that is cut short.                                *)
THEOREM ParserAlwaysHolds == Spec => []ParserHolds
<1>1. Init => BuilderHolds /\ ParserHolds
  BY InitHolds, ParserStarts
<1>2. BuilderHolds /\ ParserHolds /\ [Next]_vars => BuilderHolds' /\ ParserHolds'
  BY BuildingHolds, ParsingHolds
<1> QED
  BY <1>1, <1>2, PTL DEF Spec

(* How many items stand before a section.                                    *)
LEMMA BeforeSection ==
    ASSUME NEW counts \in [Sections -> Nat], NEW items, NEW n \in Nat, items \in Seq(BuiltEntries),
           n = Len(items), Ordered(counts, items), NEW s \in 2 .. 6
    PROVE  Cardinality({i \in DOMAIN items : items[i].section < s}) = CountBefore(counts, s)
<1> DEFINE F(t) == CountBefore(counts, t)
           c == F(s)
           S == {i \in 1 .. n : items[i].section < s}
<1>1. /\ \A t \in 1 .. 6 : F(t) \in Nat
      /\ \A t, u \in 1 .. 6 : t <= u => F(t) <= F(u)
      /\ F(2) = 0 /\ Sections = 2 .. 5
  BY CountsAre, SectionsAre
<1>2. /\ F(6) = n
      /\ \A i \in 1 .. n, t \in Sections : items[i].section = t <=> F(t) < i /\ i <= F(t + 1)
  BY DEF Ordered
<1>3. ASSUME NEW i \in 1 .. n PROVE items[i].section \in Sections
  <2>1. items[i] \in BuiltEntries
    BY ElementOfSeq
  <2> QED
    BY <2>1, SectionsAre DEF BuiltEntries
<1> HIDE DEF F
<1>4. c \in Nat /\ c <= n
  <2>1. s \in 1 .. 6 /\ 6 \in 1 .. 6 /\ s <= 6
    OBVIOUS
  <2>2. F(s) <= F(6) /\ F(s) \in Nat
    BY <1>1, <2>1
  <2> QED
    BY <1>2, <2>2
<1>5. ASSUME NEW i \in 1 .. n PROVE items[i].section < s <=> i <= c
  <2> DEFINE t == items[i].section
  <2>1. t \in Sections /\ F(t) < i /\ i <= F(t + 1)
    BY <1>2, <1>3
  <2> HIDE DEF t
  <2>2. t \in 1 .. 6 /\ t + 1 \in 1 .. 6 /\ s \in 1 .. 6
    BY <1>1, <2>1
  <2>3. F(t) \in Nat /\ F(t + 1) \in Nat
    BY <1>1, <2>2
  <2>4. CASE t < s
    <3>1. t + 1 <= s
      BY <2>2, <2>4
    <3>2. F(t + 1) <= c
      BY <1>1, <2>2, <3>1
    <3>3. i <= c
      <4> HIDE DEF c
      <4> QED
        BY <1>4, <2>1, <2>3, <3>2
    <3> QED
      BY <2>4, <3>3 DEF t
  <2>5. CASE ~ (t < s)
    <3>1. s <= t
      BY <2>2, <2>5
    <3>2. c <= F(t)
      BY <1>1, <2>2, <3>1
    <3>3. ~ (i <= c)
      <4> HIDE DEF c
      <4> QED
        BY <1>4, <2>1, <2>3, <3>2
    <3> QED
      BY <2>5, <3>3 DEF t
  <2> QED
    BY <2>4, <2>5
<1> HIDE DEF c
<1>6. S = 1 .. c
  <2>1. \A i \in 1 .. c : i \in 1 .. n /\ i <= c
    BY <1>4
  <2>2. \A i \in 1 .. n : i <= c => i \in 1 .. c
    BY <1>4
  <2> QED
    BY <1>5, <2>1, <2>2
<1>7. Cardinality(1 .. c) = c
  <2> DEFINE one == 1
  <2>1. one \in Int /\ c \in Int /\ one <= c + 1 /\ c - one + 1 = c
    BY <1>4
  <2>2. Cardinality(one .. c) = IF one > c THEN 0 ELSE c - one + 1
    <3> HIDE DEF one
    <3> QED
      BY <2>1, FS_Interval
  <2> QED
    BY <1>4, <2>1, <2>2
<1>8. DOMAIN items = 1 .. n
  BY LenProperties
<1> QED
  BY <1>6, <1>7, <1>8 DEF S, c, F

(* A sequence that is its first k values has the length k.                  *)
LEMMA FirstsLength ==
    ASSUME NEW taken, NEW k \in Nat, taken = Firsts(taken, k)
    PROVE  Len(taken) = k /\ DOMAIN taken = 1 .. k
<1> DEFINE V == {taken[j] : j \in 1 .. k}
<1>1. taken = [j \in 1 .. k |-> taken[j]]
  BY DEF Firsts
<1>2. taken \in [1 .. k -> V]
  BY <1>1
<1> HIDE DEF V
<1>3. taken \in Seq(V)
  BY <1>2, SeqDef
<1>4. DOMAIN taken = 1 .. k
  BY <1>1
<1> QED
  BY <1>3, <1>4, LenProperties

(* What the two invariants say of the items read.                           *)
LEMMA FollowersRead == BuilderHolds /\ ParserHolds => ReadsWhatWasBuilt
<1> SUFFICES ASSUME BuilderHolds, ParserHolds, parser.msg # <<>>, IsWhole, ~ stale
             PROVE  /\ parser.err # "bad"
                    /\ Len(read) <= Len(built)
                    /\ \A i \in DOMAIN read :
                          /\ read[i].section = built[i].section
                          /\ read[i].how = "read" => read[i].item = built[i].item
                    /\ Len(read) = Cardinality({i \in DOMAIN built : built[i].section < parser.section}) + parser.index
  BY DEF ReadsWhatWasBuilt
<1> DEFINE m == parser.msg
           counts == builder.counts
           before == Cardinality({i \in DOMAIN built : built[i].section < parser.section})
<1>1. parser.err = "none" /\ ParserFollows
  BY DEF ParserHolds
<1>2. PICK n, ends, k : KeepsUp(builder, parser, read, built, n, ends, k)
  BY <1>1 DEF ParserFollows
<1>3. /\ Arrived(m, counts, built, n, ends) /\ Follows(parser, m, counts, built, n, ends, k)
      /\ ReadSoFar(read, built, k)
  BY <1>2 DEF KeepsUp
<1>4. k \in Nat /\ n \in Nat /\ k <= n
  BY <1>3, FollowsWithin
<1>5. Len(read) = k /\ DOMAIN read = 1 .. k
  BY <1>3, <1>4, FirstsLength DEF ReadSoFar
<1>6. \A i \in 1 .. k : /\ read[i].section = built[i].section
                        /\ read[i].how = "read" => read[i].item = built[i].item
  BY <1>3 DEF ReadSoFar
<1>7. /\ counts \in [Sections -> Nat] /\ n = Len(built) /\ built \in Seq(BuiltEntries)
      /\ Ordered(counts, built) /\ parser.section \in 2 .. 6
  BY <1>3 DEF Arrived, Follows
<1> HIDE DEF counts
<1>8. before = CountBefore(counts, parser.section)
  <2> DEFINE s == parser.section
  <2>1. s \in 2 .. 6
    BY <1>7
  <2> HIDE DEF s
  <2>2. Cardinality({i \in DOMAIN built : built[i].section < s}) = CountBefore(counts, s)
    BY <1>4, <1>7, <2>1, BeforeSection
  <2> QED
    BY <2>2 DEF s
<1> HIDE DEF before
<1>9. k = before + parser.index
  BY <1>3, <1>8 DEF Follows, counts
<1> QED
  BY <1>1, <1>4, <1>5, <1>6, <1>7, <1>9 DEF before

(* What has been added is what is read, item by item and section by section,   *)
(* whatever is read and whatever is skipped.                                  *)
THEOREM WhatIsBuiltIsRead == Spec => []ReadsWhatWasBuilt
BY BuilderAlwaysHolds, ParserAlwaysHolds, FollowersRead, PTL

(* What the property says of the parser as it is.                           *)
LEMMA OutcomesAgree == BuilderHolds /\ ParserHolds => SkipsAsItReads
<1> SUFFICES ASSUME ParserHolds, Parsing, ~ stale, parser.section \in Sections
             PROVE  LET r == ReadItem(parser, parser.section)
                        s == SkipItem(parser, parser.section)
                    IN  /\ r.err = s.err
                        /\ r.err = "none" => [r EXCEPT !.item = NoItem] = [s EXCEPT !.header = r.header]
  BY DEF SkipsAsItReads
<1> DEFINE r == ReadItem(parser, parser.section)
           s == SkipItem(parser, parser.section)
           m == parser.msg
           counts == builder.counts
<1>1. IsParser(parser) /\ parser.err = "none" /\ ParserFollows
  BY DEF ParserHolds, Parsing
<1>2. PICK n, ends, k : KeepsUp(builder, parser, read, built, n, ends, k)
  BY <1>1 DEF ParserFollows
<1>3. Behind(parser, m, counts, built, n, ends, k)
  BY <1>1, <1>2 DEF KeepsUp, Behind
<1>4. s.err = "none" => s.item = NoItem
  BY <1>1, SkipsReturnNothing
<1> HIDE DEF m, counts
<1>5. Outcome(parser, r, m, counts, ends, k) /\ Outcome(parser, s, m, counts, ends, k)
  BY <1>3, ItemOutcome
<1> HIDE DEF r, s
<1>6. r.err = s.err /\ (r.err = "none" => [r EXCEPT !.item = NoItem] = [s EXCEPT !.header = r.header])
  BY <1>3, <1>4, <1>5, SameOutcomes
<1> QED
  BY <1>6 DEF r, s

(* Reading an item and skipping it lead to the same place and fail together,   *)
(* whether the message is whole or cut short and whether or not the header    *)
(* of the item has been read.                                                *)
THEOREM SkippingIsReading == Spec => []SkipsAsItReads
BY BuilderAlwaysHolds, ParserAlwaysHolds, OutcomesAgree, PTL

(* What has been read of a section before its first item.                    *)
NoneYet(p) == [parser |-> [p EXCEPT !.err = "none"], items |-> <<>>]

(* The recursion of ReadAll, and what it reads item by item.                  *)
ReadAllStep(p, section, k, f) ==
    [i \in 0 .. k |-> IF i = 0 THEN NoneYet(p) ELSE ReadOneMore(f[i - 1], section)]

ReadAllRun(p, section, k, f) ==
    f[0] = NoneYet(p) /\ \A i \in 1 .. k : f[i] = ReadOneMore(f[i - 1], section)

(* There is a function that the recursion of ReadAll defines.               *)
LEMMA ReadAllExists ==
    ASSUME NEW p, NEW section, NEW n \in Nat
    PROVE  \E f : f = ReadAllStep(p, section, n, f)
<1> DEFINE first == NoneYet(p)
           S == {k \in 0 .. n : \E f : f = ReadAllStep(p, section, k, f)}
<1>1. 0 \in S
  <2> DEFINE f == [i \in 0 .. 0 |-> first]
  <2>1. f = ReadAllStep(p, section, 0, f)
    <3>1. \A i \in 0 .. 0 : i = 0
      OBVIOUS
    <3> QED
      BY <3>1 DEF ReadAllStep
  <2> HIDE DEF f
  <2>2. 0 \in 0 .. n
    OBVIOUS
  <2> QED
    BY <2>1, <2>2
<1>2. ASSUME NEW k \in 0 .. n - 1, k \in S PROVE k + 1 \in S
  <2>1. PICK f : f = ReadAllStep(p, section, k, f)
    BY <1>2
  <2> DEFINE j == k + 1
             g == [i \in 0 .. j |-> IF i = j THEN ReadOneMore(f[k], section) ELSE f[i]]
             h == ReadAllStep(p, section, j, g)
  <2>2. k \in Nat /\ j \in 0 .. n /\ j \in Nat /\ j - 1 = k /\ j # 0
    OBVIOUS
  <2>3. h = [i \in 0 .. j |-> IF i = 0 THEN first ELSE ReadOneMore(g[i - 1], section)]
    BY DEF ReadAllStep
  <2>4. \A i \in 0 .. k : f[i] = IF i = 0 THEN first ELSE ReadOneMore(f[i - 1], section)
    BY <2>1 DEF ReadAllStep
  <2>5. ASSUME NEW i \in 0 .. j PROVE g[i] = h[i]
    <3> HIDE DEF j, h
    <3>1. CASE i = 0
      <4>1. i # j /\ i \in 0 .. k
        BY <2>2, <3>1
      <4>2. g[i] = f[i] /\ f[i] = first
        BY <2>4, <3>1, <4>1
      <4>3. h[i] = first
        BY <2>3, <3>1
      <4> QED
        BY <4>2, <4>3
    <3>2. CASE i # 0 /\ i # j
      <4>1. i \in 0 .. k /\ i - 1 \in 0 .. j /\ i - 1 # j
        BY <2>2, <3>2
      <4>2. g[i] = f[i] /\ g[i - 1] = f[i - 1]
        BY <3>2, <4>1
      <4>3. f[i] = ReadOneMore(f[i - 1], section)
        BY <2>4, <3>2, <4>1
      <4>4. h[i] = ReadOneMore(g[i - 1], section)
        BY <2>3, <3>2
      <4> QED
        BY <4>2, <4>3, <4>4
    <3>3. CASE i = j
      <4>1. i - 1 = k /\ k \in 0 .. j /\ k # j /\ i # 0
        BY <2>2, <3>3
      <4>2. g[k] = f[k] /\ g[i] = ReadOneMore(f[k], section)
        BY <3>3, <4>1
      <4>3. h[i] = ReadOneMore(g[i - 1], section)
        BY <2>3, <4>1
      <4> QED
        BY <3>3, <4>1, <4>2, <4>3
    <3> QED
      BY <3>1, <3>2, <3>3
  <2>6. g = h
    <3> HIDE DEF j
    <3>1. g = [i \in 0 .. j |-> g[i]] /\ h = [i \in 0 .. j |-> h[i]]
      BY DEF ReadAllStep
    <3> HIDE DEF g, h
    <3>2. [i \in 0 .. j |-> g[i]] = [i \in 0 .. j |-> h[i]]
      BY <2>5
    <3> QED
      BY <3>1, <3>2
  <2>7. \E e : e = ReadAllStep(p, section, j, e)
    <3> HIDE DEF g, j
    <3> QED
      BY <2>6
  <2> QED
    BY <2>2, <2>7
<1> HIDE DEF S
<1>3. 0 .. n \subseteq S
  BY <1>1, <1>2, UpToBound
<1>4. n \in S
  BY <1>3
<1> QED
  BY <1>4 DEF S

(* ReadAll is the last step of that recursion.                              *)
LEMMA ReadAllIs ==
    ASSUME NEW p, NEW section, NEW n \in Nat, p.counts[section] = n
    PROVE  \E f : ReadAllRun(p, section, n + 1, f) /\ ReadAll(p, section) = f[n + 1]
<1> DEFINE k == n + 1
           g == CHOOSE f : f = ReadAllStep(p, section, k, f)
<1>1. k \in Nat /\ 0 \in 0 .. k /\ \A i \in 1 .. k : i \in 0 .. k /\ i # 0
  OBVIOUS
<1>2. ReadAll(p, section) = g[k]
  BY DEF ReadAll, ReadAllStep, NoneYet
<1> HIDE DEF k
<1>3. g = ReadAllStep(p, section, k, g)
  BY <1>1, ReadAllExists
<1> HIDE DEF g
<1>4. ReadAllRun(p, section, k, g)
  BY <1>1, <1>3 DEF ReadAllRun, ReadAllStep
<1> QED
  BY <1>2, <1>4 DEF k

(* The items of a section, in the order they stand in.                       *)
SectionItems(counts, items, s) == [j \in 1 .. counts[s] |-> items[CountBefore(counts, s) + j].item]

(* A parser that is before the first item of a section.                       *)
AtSection(p, head, s, m, counts, items, n, ends) ==
    /\ p.head = head /\ p.section = s /\ p.index = 0 /\ ~ p.hasHeader
    /\ Follows(p, m, counts, items, n, ends, CountBefore(counts, s))

(* No item ends behind the last one.                                         *)
Ending(n, ends) == \A i \in 0 .. n : ends[i] <= ends[n]

(* One item more of the section of a parser.                                  *)
LEMMA ReadNext ==
    ASSUME NEW m, NEW counts, NEW items, NEW n, NEW ends, NEW p, NEW k,
           Behind(p, m, counts, items, n, ends, k), p.section \in Sections, ~ p.hasHeader,
           NEW new, new = ReadItem(p, p.section)
    PROVE  \/ ~ HasNext(p, counts) /\ new.err = "section done" /\ Moves(p, new) /\ Follows(new, m, counts, items, n, ends, k)
           \/ /\ HasNext(p, counts) /\ Passes(p, new, ends[k + 1], items[k + 1].item)
              /\ Follows(new, m, counts, items, n, ends, k + 1)
           \/ Fails(p, new, m, counts, ends, k)
<1>1. Outcome(p, new, m, counts, ends, k)
  BY ItemOutcome
<1>2. CASE ~ HasNext(p, counts)
  <2>1. Moves(p, new) /\ new.err = "section done"
    BY <1>1, <1>2 DEF Outcome
  <2>2. p.index = counts[p.section]
    BY <1>2 DEF HasNext
  <2>3. Follows(new, m, counts, items, n, ends, k)
    BY <2>1, <2>2, MovesFollows DEF Behind
  <2> QED
    BY <1>2, <2>1, <2>3
<1>3. CASE HasNext(p, counts) /\ Len(m) < ends[k + 1]
  BY <1>1, <1>3 DEF Outcome, Fails
<1>4. CASE HasNext(p, counts) /\ ends[k + 1] <= Len(m)
  <2> DEFINE asRead == "read"
  <2>1. PICK item : Passes(p, new, ends[k + 1], item)
    BY <1>1, <1>4 DEF Outcome
  <2>2. IsCall(asRead, p, new)
    <3>1. p.section = Questions \/ p.section \in RecordSections
      BY SectionsAre
    <3>2. new = ReadQuestion(p) \/ (p.section \in RecordSections /\ new = ReadResource(p, p.section))
      BY <3>1 DEF ReadItem
    <3> QED
      BY <3>2 DEF IsCall
  <2>3. Reaches(p, m, counts, items, n, ends, k)
    BY <1>4 DEF Reaches
  <2>4. Goes(p, new, m, counts, items, n, ends, k, asRead)
    BY <2>2, <2>3, CallGoes
  <2>5. new.item = items[k + 1].item /\ Follows(new, m, counts, items, n, ends, k + 1) /\ new.item = item
    BY <2>1, <2>4 DEF Goes, Passes
  <2> QED
    BY <1>4, <2>1, <2>5
<1> QED
  BY <1>2, <1>3, <1>4, ArrivedOrCut

(* What has been read of a section after i calls.                            *)
Reading(d, head, i, s, m, counts, items, n, ends) ==
    \/ d.parser.err = "bad" /\ Len(m) < ends[n]
    \/ /\ i <= counts[s] /\ d.parser.err = "none"
       /\ d.parser.head = head /\ d.parser.section = s /\ d.parser.index = i /\ ~ d.parser.hasHeader
       /\ Follows(d.parser, m, counts, items, n, ends, CountBefore(counts, s) + i)
       /\ d.items = Firsts(SectionItems(counts, items, s), i)
    \/ /\ d.parser.err = "section done" /\ AtSection(d.parser, head, s + 1, m, counts, items, n, ends)
       /\ d.items = SectionItems(counts, items, s)

(* A section whose last item has been read.                                   *)
LEMMA ReadingEnds ==
    ASSUME NEW m, NEW counts, NEW items, NEW n, NEW ends, Arrived(m, counts, items, n, ends), NEW s \in Sections,
           NEW p, NEW new, NEW head, p.head = head, p.section = s, p.index = counts[s], Moves(p, new),
           Follows(new, m, counts, items, n, ends, CountBefore(counts, s) + counts[s])
    PROVE  AtSection(new, head, s + 1, m, counts, items, n, ends)
<1>1. counts \in [Sections -> Nat]
  BY DEF Arrived
<1>2. CountBefore(counts, s + 1) = CountBefore(counts, s) + counts[s]
  BY <1>1, CountsAre
<1>3. new.section = s + 1 /\ new.index = 0 /\ new.hasHeader = FALSE /\ new.head = head
  BY DEF Moves, SameMessage
<1> QED
  BY <1>2, <1>3 DEF AtSection

(* One call more.                                                           *)
LEMMA ReadingGoesOn ==
    ASSUME NEW m, NEW counts, NEW items, NEW n, NEW ends, Arrived(m, counts, items, n, ends), Ending(n, ends),
           NEW s \in Sections, NEW i \in Nat, NEW d, NEW head, Reading(d, head, i, s, m, counts, items, n, ends)
    PROVE  Reading(ReadOneMore(d, s), head, i + 1, s, m, counts, items, n, ends)
<1> DEFINE new == ReadOneMore(d, s)
           p == d.parser
           q == ReadItem(p, s)
           k == CountBefore(counts, s) + i
           V == SectionItems(counts, items, s)
           c == counts[s]
           none == "none"
           bad == "bad"
           done == "section done"
<1>1. none # bad /\ none # done /\ bad # done
  OBVIOUS
<1>2. CASE d.parser.err = "bad" /\ Len(m) < ends[n]
  <2>1. new = d
    BY <1>2 DEF ReadOneMore
  <2> QED
    BY <1>2, <2>1 DEF Reading
<1>3. CASE /\ d.parser.err = "section done" /\ AtSection(d.parser, head, s + 1, m, counts, items, n, ends)
           /\ d.items = SectionItems(counts, items, s)
  <2>1. new = d
    BY <1>3 DEF ReadOneMore
  <2> QED
    BY <1>3, <2>1 DEF Reading
<1>4. CASE /\ i <= counts[s] /\ d.parser.err = "none"
           /\ d.parser.head = head /\ d.parser.section = s /\ d.parser.index = i /\ ~ d.parser.hasHeader
           /\ Follows(d.parser, m, counts, items, n, ends, CountBefore(counts, s) + i)
           /\ d.items = Firsts(SectionItems(counts, items, s), i)
  <2>1. new = ReadOn(d.items, q)
    BY <1>4 DEF ReadOneMore
  <2>2. Behind(p, m, counts, items, n, ends, k) /\ p.head = head /\ p.section = s /\ p.index = i /\ ~ p.hasHeader /\ d.items = Firsts(V, i)
    BY <1>4 DEF Behind
  <2>3. counts \in [Sections -> Nat] /\ c \in Nat /\ i <= c
    BY <1>4 DEF Arrived
  <2>4. HasNext(p, counts) <=> i # c
    BY <2>2 DEF HasNext
  <2>5. /\ new.parser = q /\ (q.err = none => new.items = Append(d.items, q.item))
        /\ q.err # none => new.items = d.items
    BY <2>1 DEF ReadOn
  <2> HIDE DEF new, q, k, p, c, V, none, bad, done
  <2>6. \/ ~ HasNext(p, counts) /\ q.err = "section done" /\ Moves(p, q) /\ Follows(q, m, counts, items, n, ends, k)
        \/ /\ HasNext(p, counts) /\ Passes(p, q, ends[k + 1], items[k + 1].item)
           /\ Follows(q, m, counts, items, n, ends, k + 1)
        \/ Fails(p, q, m, counts, ends, k)
    BY <2>2, ReadNext DEF q
  <2>7. CASE ~ HasNext(p, counts) /\ q.err = "section done" /\ Moves(p, q) /\ Follows(q, m, counts, items, n, ends, k)
    <3>1. i = c
      BY <2>4, <2>7
    <3>2. AtSection(q, head, s + 1, m, counts, items, n, ends)
      <4>1. p.head = head /\ p.section = s /\ p.index = counts[s] /\ k = CountBefore(counts, s) + counts[s]
        BY <2>2, <3>1 DEF c, k
      <4> QED
        BY <2>7, <4>1, ReadingEnds
    <3>3. new.items = V
      <4>1. Firsts(V, c) = V
        BY DEF Firsts, V, SectionItems, c
      <4> QED
        BY <1>1, <2>2, <2>5, <2>7, <3>1, <4>1 DEF none, done
    <3> QED
      BY <2>5, <2>7, <3>2, <3>3 DEF Reading, new, V
  <2>8. CASE /\ HasNext(p, counts) /\ Passes(p, q, ends[k + 1], items[k + 1].item)
             /\ Follows(q, m, counts, items, n, ends, k + 1)
    <3>1. /\ i # c /\ q.err = none /\ q.item = items[k + 1].item
          /\ q.head = head /\ q.section = s /\ q.index = i + 1 /\ q.hasHeader = FALSE
      BY <2>2, <2>4, <2>8 DEF Passes, SameMessage, none
    <3>2. i + 1 <= c /\ i + 1 \in 1 .. c
      BY <2>3, <3>1
    <3>3. k + 1 = CountBefore(counts, s) + (i + 1)
      <4> DEFINE a == CountBefore(counts, s)
      <4>1. a \in Nat
        BY <2>3, CountsAre, SectionsAre
      <4>2. k = a + i
        BY DEF k
      <4> HIDE DEF a
      <4>3. k + 1 = a + (i + 1)
        BY <4>1, <4>2
      <4> QED
        BY <4>3 DEF a
    <3>4. V[i + 1] = q.item
      BY <3>1, <3>2, <3>3 DEF V, SectionItems, c
    <3>5. new.items = Firsts(V, i + 1)
      <4>1. Append(Firsts(V, i), V[i + 1]) = Firsts(V, i + 1)
        BY FirstsGrow
      <4> QED
        BY <2>2, <2>5, <3>1, <3>4, <4>1
    <3>6. Follows(q, m, counts, items, n, ends, CountBefore(counts, s) + (i + 1))
      BY <2>8, <3>3
    <3> QED
      BY <2>5, <3>1, <3>2, <3>5, <3>6 DEF Reading, new, V, c, none
  <2>9. CASE Fails(p, q, m, counts, ends, k)
    <3>1. q.err = "bad" /\ Len(m) < ends[k + 1] /\ HasNext(p, counts)
      BY <2>9 DEF Fails
    <3> DEFINE a == ends[k + 1]
               z == ends[n]
               len == Len(m)
    <3>2. k + 1 \in 0 .. n /\ n \in 0 .. n
      BY <2>2, <3>1, FollowsWithin DEF Behind, HasNext
    <3>3. a \in Nat /\ z \in Nat /\ a <= z /\ len \in Nat
      <4>1. ends \in [0 .. n -> Nat] /\ m \in Seq(0 .. 255)
        BY DEF Arrived, Bytes
      <4> QED
        BY <3>2, <4>1, LenProperties DEF Ending
    <3> HIDE DEF a, z, len
    <3>4. len < z
      BY <3>1, <3>3 DEF a, len
    <3> QED
      BY <2>5, <3>1, <3>4 DEF Reading, new, z, len
  <2> QED
    BY <2>6, <2>7, <2>8, <2>9 DEF new
<1> QED
  BY <1>2, <1>3, <1>4 DEF Reading

(* What ReadAll makes of a section: all of it, unless the message is cut short. *)
AllRead(all, head, s, m, counts, items, n, ends) ==
    \/ all.parser.err = "bad" /\ Len(m) < ends[n]
    \/ /\ all.parser.err = "section done" /\ AtSection(all.parser, head, s + 1, m, counts, items, n, ends)
       /\ all.items = SectionItems(counts, items, s)

(* The items up to the end of a section, if all of them have arrived.          *)
LEMMA ReadAllReads ==
    ASSUME NEW m, NEW counts, NEW items, NEW n, NEW ends, Arrived(m, counts, items, n, ends), Ending(n, ends),
           NEW s \in Sections, NEW p, NEW head, AtSection(p, head, s, m, counts, items, n, ends)
    PROVE  AllRead(ReadAll(p, s), head, s, m, counts, items, n, ends)
<1> DEFINE c == counts[s]
           k == c + 1
           all == ReadAll(p, s)
<1>1. p.counts[s] = c /\ c \in Nat /\ counts \in [Sections -> Nat] /\ IsParser(p)
      /\ p.head = head /\ p.section = s /\ p.index = 0 /\ p.hasHeader = FALSE
      /\ Follows(p, m, counts, items, n, ends, CountBefore(counts, s))
  BY DEF AtSection, Arrived, Follows
<1> HIDE DEF c
<1>2. PICK f : ReadAllRun(p, s, k, f) /\ all = f[k]
  BY <1>1, ReadAllIs
<1> DEFINE T == {i \in 0 .. k : Reading(f[i], head, i, s, m, counts, items, n, ends)}
<1>3. k \in Nat /\ 0 \in 0 .. k /\ k \in 0 .. k /\ ~ (k <= c)
  BY <1>1
<1>4. 0 \in T
  <2> DEFINE first == NoneYet(p)
             q == [p EXCEPT !.err = "none"]
             zero == 0
             V == SectionItems(counts, items, s)
  <2>1. f[zero] = first /\ first.parser = q /\ first.items = <<>>
    BY <1>2 DEF ReadAllRun, NoneYet
  <2>2. Stays(p, q) /\ q.err = "none"
    BY <1>1 DEF IsParser, Stays, SameMessage
  <2> HIDE DEF q
  <2>3. Follows(q, m, counts, items, n, ends, CountBefore(counts, s))
    BY <1>1, <2>2, StaysFollows
  <2>4. CountBefore(counts, s) + zero = CountBefore(counts, s)
    <3> DEFINE a == CountBefore(counts, s)
    <3>1. a \in Nat
      BY <1>1, CountsAre, SectionsAre
    <3> HIDE DEF a
    <3>2. a + zero = a
      BY <3>1
    <3> QED
      BY <3>2 DEF a
  <2>5. Firsts(V, zero) = <<>>
    <3>1. 1 .. zero = {}
      OBVIOUS
    <3> HIDE DEF V, zero
    <3> QED
      BY <3>1 DEF Firsts
  <2>6. zero <= c
    BY <1>1
  <2>7. q.head = head /\ q.section = s /\ q.index = zero /\ ~ q.hasHeader
    BY <1>1, <2>2 DEF Stays, SameMessage
  <2> HIDE DEF zero, first, V
  <2>8. Reading(first, head, zero, s, m, counts, items, n, ends)
    BY <2>1, <2>2, <2>3, <2>4, <2>5, <2>6, <2>7 DEF Reading, c, V
  <2> QED
    BY <1>3, <2>1, <2>8 DEF zero
<1>5. ASSUME NEW i \in 0 .. k - 1, i \in T PROVE i + 1 \in T
  <2> DEFINE j == i + 1
  <2>1. i \in Nat /\ j \in 0 .. k /\ j \in 1 .. k /\ j - 1 = i
    BY <1>3
  <2>2. f[j] = ReadOneMore(f[i], s)
    <3> HIDE DEF j, k
    <3>1. f[j] = ReadOneMore(f[j - 1], s)
      BY <1>2, <2>1 DEF ReadAllRun
    <3> QED
      BY <2>1, <3>1
  <2> DEFINE d == f[i]
  <2>3. Reading(d, head, i, s, m, counts, items, n, ends)
    BY <1>5
  <2> HIDE DEF d
  <2>4. Reading(ReadOneMore(d, s), head, i + 1, s, m, counts, items, n, ends)
    BY <2>1, <2>3, ReadingGoesOn
  <2> QED
    BY <2>1, <2>2, <2>4 DEF d
<1> HIDE DEF T
<1>6. 0 .. k \subseteq T
  <2> HIDE DEF k
  <2> QED
    BY <1>3, <1>4, <1>5, UpToBound
<1>7. Reading(f[k], head, k, s, m, counts, items, n, ends)
  <2>1. k \in T
    BY <1>3, <1>6
  <2> QED
    BY <2>1 DEF T
<1> HIDE DEF all
<1>8. Reading(all, head, k, s, m, counts, items, n, ends)
  BY <1>2, <1>7
<1> HIDE DEF k
<1> QED
  BY <1>3, <1>8 DEF Reading, AllRead, all, c

(* The items of all sections.                                                *)
Lists(counts, items) == [j \in 1 .. 4 |-> SectionItems(counts, items, j + 1)]

(* What has been read of a message before a section.                         *)
SectionsRead(r, head, s, m, counts, items, n, ends) ==
    \/ ~ r.ok /\ Len(m) < ends[n]
    \/ r.ok /\ AtSection(r.parser, head, s, m, counts, items, n, ends) /\ r.items = Firsts(Lists(counts, items), s - 2)

(* One section more.                                                        *)
LEMMA SectionReads ==
    ASSUME NEW m, NEW counts, NEW items, NEW n, NEW ends, Arrived(m, counts, items, n, ends), Ending(n, ends),
           NEW s \in Sections, NEW r, NEW head, SectionsRead(r, head, s, m, counts, items, n, ends)
    PROVE  SectionsRead(ReadSection(r, s), head, s + 1, m, counts, items, n, ends)
<1> DEFINE new == ReadSection(r, s)
           all == ReadAll(r.parser, s)
           L == Lists(counts, items)
           V == SectionItems(counts, items, s)
<1>1. CASE ~ r.ok /\ Len(m) < ends[n]
  <2>1. new = r
    BY <1>1 DEF ReadSection
  <2> QED
    BY <1>1, <2>1 DEF SectionsRead
<1>2. CASE /\ r.ok /\ AtSection(r.parser, head, s, m, counts, items, n, ends)
           /\ r.items = Firsts(Lists(counts, items), s - 2)
  <2>1. /\ new.ok <=> all.parser.err = "section done"
        /\ new.parser = all.parser /\ new.items = Append(r.items, all.items)
    BY <1>2 DEF ReadSection, SectionRead
  <2>2. \/ all.parser.err = "bad" /\ Len(m) < ends[n]
        \/ /\ all.parser.err = "section done" /\ AtSection(all.parser, head, s + 1, m, counts, items, n, ends)
           /\ all.items = V
    <3> DEFINE p == r.parser
    <3>1. AtSection(p, head, s, m, counts, items, n, ends)
      BY <1>2
    <3> HIDE DEF p, all, V
    <3>2. AllRead(ReadAll(p, s), head, s, m, counts, items, n, ends)
      BY <3>1, ReadAllReads
    <3> QED
      BY <3>2 DEF AllRead, p, all, V
  <2>3. s - 2 \in Nat /\ (s - 2) + 1 = s - 1 /\ s - 1 \in 1 .. 4 /\ (s - 1) + 1 = s /\ (s + 1) - 2 = s - 1
    BY SectionsAre
  <2>4. L[s - 1] = V
    BY <2>3 DEF Lists
  <2> HIDE DEF new, all, L, V
  <2>5. Append(Firsts(L, s - 2), L[(s - 2) + 1]) = Firsts(L, (s - 2) + 1)
    BY <2>3, FirstsGrow
  <2>6. CASE all.parser.err = "bad" /\ Len(m) < ends[n]
    <3>1. ~ new.ok
      BY <2>1, <2>6
    <3> QED
      BY <2>6, <3>1 DEF SectionsRead, new
  <2>7. CASE /\ all.parser.err = "section done" /\ AtSection(all.parser, head, s + 1, m, counts, items, n, ends)
             /\ all.items = V
    <3>1. new.items = Firsts(L, (s + 1) - 2)
      BY <1>2, <2>1, <2>3, <2>4, <2>5, <2>7 DEF L
    <3> QED
      BY <2>1, <2>7, <3>1 DEF SectionsRead, new, L
  <2> QED
    BY <2>2, <2>6, <2>7 DEF V
<1> QED
  BY <1>1, <1>2 DEF SectionsRead

(* What the items of a message are as Message.Unpack gives them.               *)
Contents(head, counts, items) == [head |-> head, items |-> [s \in Sections |-> SectionItems(counts, items, s)]]

(* A message is unpacked to what was packed, unless it is cut short.           *)
LEMMA UnpackIs ==
    ASSUME NEW m, NEW counts, NEW items, NEW n, NEW ends, Arrived(m, counts, items, n, ends), Ending(n, ends),
           NEW p, NEW head, p = StartParser(m), p.err = "none", AtSection(p, head, Questions, m, counts, items, n, ends)
    PROVE  \/ ~ Unpack(m).ok /\ Len(m) < ends[n]
           \/ Unpack(m) = Found(Contents(head, counts, items), ends[n]) /\ ends[n] <= Len(m)
<1> DEFINE a == [ok |-> p.err = "none", parser |-> p, items |-> <<>>]
           b == ReadSection(a, Questions)
           c == ReadSection(b, Answers)
           d == ReadSection(c, Authorities)
           e == ReadSection(d, Additionals)
           L == Lists(counts, items)
           Met(r, s) == SectionsRead(r, head, s, m, counts, items, n, ends)
<1>1. /\ Questions = 2 /\ Answers = 3 /\ Authorities = 4 /\ Additionals = 5
      /\ 2 \in Sections /\ 3 \in Sections /\ 4 \in Sections /\ 5 \in Sections
      /\ 2 + 1 = 3 /\ 3 + 1 = 4 /\ 4 + 1 = 5 /\ 5 + 1 = 6
  BY SectionsAre DEF Questions, Answers, Authorities, Additionals
<1>2. Unpack(m) = AsMessage(e)
  BY DEF Unpack, UnpackSections
<1>3. Met(a, 2)
  <2>1. a.ok /\ a.parser = p /\ a.items = <<>>
    OBVIOUS
  <2>2. Firsts(L, 2 - 2) = <<>>
    <3> DEFINE zero == 2 - 2
    <3>1. 1 .. zero = {}
      OBVIOUS
    <3> HIDE DEF zero, L
    <3>2. Firsts(L, zero) = <<>>
      BY <3>1 DEF Firsts
    <3> QED
      BY <3>2 DEF zero
  <2> HIDE DEF a
  <2> QED
    BY <1>1, <2>1, <2>2 DEF SectionsRead
<1>4. \A r, s : s \in Sections /\ Met(r, s) => Met(ReadSection(r, s), s + 1)
  BY SectionReads
<1> HIDE DEF a, Met
<1>5. Met(b, 3)
  BY <1>1, <1>3, <1>4
<1>6. Met(c, 4)
  BY <1>1, <1>4, <1>5
<1>7. Met(d, 5)
  BY <1>1, <1>4, <1>6
<1>8. Met(e, 6)
  BY <1>1, <1>4, <1>7
<1> HIDE DEF b, c, d, e, L
<1>9. \/ ~ e.ok /\ Len(m) < ends[n]
      \/ e.ok /\ AtSection(e.parser, head, 6, m, counts, items, n, ends) /\ e.items = Firsts(L, 6 - 2)
  BY <1>8 DEF Met, SectionsRead, L
<1>10. CASE ~ e.ok /\ Len(m) < ends[n]
  BY <1>2, <1>10 DEF AsMessage, Failure
<1>11. CASE e.ok /\ AtSection(e.parser, head, 6, m, counts, items, n, ends) /\ e.items = Firsts(L, 6 - 2)
  <2>1. /\ e.parser.head = head /\ e.parser.off = ends[CountBefore(counts, 6)]
        /\ ends[CountBefore(counts, 6)] <= Len(m)
    BY <1>11 DEF AtSection, Follows
  <2>2. CountBefore(counts, 6) = n
    BY DEF Arrived, Ordered
  <2>3. ASSUME NEW s \in Sections PROVE e.items[s - 1] = SectionItems(counts, items, s)
    <3>1. s - 1 \in 1 .. 4 /\ (s - 1) + 1 = s /\ 6 - 2 = 4
      BY SectionsAre
    <3>2. L[s - 1] = SectionItems(counts, items, s)
      BY <3>1 DEF L, Lists
    <3>3. e.items[s - 1] = L[s - 1]
      BY <1>11, <3>1 DEF Firsts
    <3> QED
      BY <3>2, <3>3
  <2>4. [s \in Sections |-> e.items[s - 1]] = [s \in Sections |-> SectionItems(counts, items, s)]
    BY <2>3
  <2>5. Unpack(m) = Found([head |-> e.parser.head, items |-> [s \in Sections |-> e.items[s - 1]]], e.parser.off)
    BY <1>2, <1>11 DEF AsMessage
  <2> QED
    BY <2>1, <2>2, <2>4, <2>5 DEF Contents
<1> QED
  BY <1>9, <1>10, <1>11

(* A message that no parser can be started on is not unpacked.                 *)
LEMMA BadUnpacks ==
    ASSUME NEW m, StartParser(m).err = "bad"
    PROVE  ~ Unpack(m).ok
<1> DEFINE p == StartParser(m)
           a == [ok |-> p.err = "none", parser |-> p, items |-> <<>>]
<1>1. ~ a.ok
  BY DEF p
<1>2. Unpack(m) = AsMessage(ReadSection(ReadSection(ReadSection(ReadSection(a, Questions), Answers), Authorities), Additionals))
  BY DEF Unpack, UnpackSections
<1> HIDE DEF a
<1>3. \A s : ReadSection(a, s) = a
  BY <1>1 DEF ReadSection
<1>4. Unpack(m) = AsMessage(a)
  BY <1>2, <1>3
<1> QED
  BY <1>1, <1>4 DEF AsMessage, Failure

(* What is unpacked of a message, whole or cut short.                          *)
LEMMA BeginningUnpacks ==
    ASSUME Packing(builder, HeaderHole), NEW items, HoldsItems(builder, items), HeaderLaid(builder),
           NEW n, NEW ends, ItemsLaid(builder, items, n, ends), NEW l \in Nat, l <= Len(Message)
    PROVE  \/ ~ Unpack(Beginning(l)).ok /\ l < Len(Message)
           \/ /\ l = Len(Message)
              /\ Unpack(Beginning(l)) =
                    Found(Contents([id |-> builder.head.id, flags |-> UnpackBits(PackBits(builder.head.flags))],
                                   builder.counts, items), Len(Message))
<1> DEFINE m == Beginning(l)
           p == StartParser(m)
           counts == builder.counts
           head == [id |-> builder.head.id, flags |-> UnpackBits(PackBits(builder.head.flags))]
           big == Len(Message)
<1>1. big \in Nat /\ big = Size(builder) /\ 12 <= big
  BY HasHeader
<1>2. CASE l < 12
  <2>1. ~ Unpack(m).ok
    BY <1>2, StartFails, BadUnpacks
  <2>2. l < big
    <3> HIDE DEF big
    <3> QED
      BY <1>1, <1>2
  <2> QED
    BY <2>1, <2>2
<1>3. CASE 12 <= l
  <2>1. p.err = "none" /\ KeepsUp(builder, p, <<>>, items, n, ends, 0)
    BY <1>3, StartFollows
  <2>2. Len(m) = l
    BY BeginningIs
  <2>3. BeginsLike(m, builder) /\ builder \in Outs
    BY <1>3, BeginningBegins DEF Packing
  <2>4. ends[n] = big /\ Ending(n, ends)
    BY <1>1 DEF ItemsLaid, Laid, Ending
  <2> HIDE DEF m
  <2>5. AtStart(p, m, builder)
    BY <2>3, StartedIs
  <2>6. p = StartParser(m)
    OBVIOUS
  <2> HIDE DEF p
  <2>7. /\ p.msg = m /\ p.head = head /\ p.section = Questions /\ p.index = 0 /\ p.hasHeader = FALSE
    BY <2>5 DEF AtStart
  <2>8. Arrived(m, counts, items, n, ends) /\ Follows(p, m, counts, items, n, ends, 0)
    BY <2>1, <2>7 DEF KeepsUp
  <2>9. CountBefore(counts, Questions) = 0
    <3>1. counts \in [Sections -> Nat]
      BY <2>8 DEF Arrived
    <3> QED
      BY <3>1, CountsAre DEF Questions
  <2>10. AtSection(p, head, Questions, m, counts, items, n, ends)
    BY <2>7, <2>8, <2>9 DEF AtSection
  <2> HIDE DEF head, counts, big
  <2>11. \/ ~ Unpack(m).ok /\ Len(m) < ends[n]
         \/ Unpack(m) = Found(Contents(head, counts, items), ends[n]) /\ ends[n] <= Len(m)
    BY <2>1, <2>4, <2>6, <2>8, <2>10, UnpackIs
  <2>12. \/ ~ Unpack(m).ok /\ l < big
         \/ Unpack(m) = Found(Contents(head, counts, items), big) /\ big <= l
    BY <2>2, <2>4, <2>11
  <2>13. big <= l => l = big
    <3>1. l <= big
      BY DEF big
    <3> QED
      BY <1>1, <3>1
  <2> QED
    BY <2>12, <2>13 DEF m, big, head, counts
<1> QED
  BY <1>2, <1>3

(* What the property says of the message as it is.                          *)
LEMMA CutsAreNoticed == BuilderHolds => CutIsNoticed
<1> SUFFICES ASSUME BuilderHolds, ~ Building, ~ stale, NEW l \in 1 .. Len(Message) - 1
             PROVE  ~ Unpack(SubSeq(Message, 1, l)).ok
  BY DEF CutIsNoticed
<1>1. Packing(builder, HeaderHole) /\ HoldsItems(builder, built) /\ HeaderLaid(builder)
  BY DEF BuilderHolds, Building
<1>2. PICK n, ends : ItemsLaid(builder, built, n, ends)
  BY <1>1 DEF HoldsItems, Lies, ItemsLaid
<1> DEFINE big == Len(Message)
<1>3. big \in Nat
  BY <1>1, <1>2, HasHeader
<1>4. l \in Nat /\ l <= big /\ l # big
  <2>1. l \in 1 .. big - 1
    OBVIOUS
  <2> HIDE DEF big
  <2> QED
    BY <1>3, <2>1
<1>5. ~ Unpack(Beginning(l)).ok
  BY <1>1, <1>2, <1>4, BeginningUnpacks
<1> QED
  BY <1>5 DEF Beginning

(* No beginning of a message that was built is unpacked as if it were a whole  *)
(* one, wherever it is cut.                                                  *)
THEOREM CutMessagesAreNoticed == Spec => []CutIsNoticed
BY BuilderAlwaysHolds, CutsAreNoticed, PTL

(* Where a suffix that a name has in common with another goes on.             *)
LEMMA SuffixGoesOn ==
    ASSUME NEW name \in Names, NEW other \in Names, NEW i \in 1 .. Len(name), NEW j \in 1 .. Len(other),
           Suffix(name, i) = Suffix(other, j), i < Len(name)
    PROVE  j < Len(other) /\ Suffix(name, i + 1) = Suffix(other, j + 1)
<1> DEFINE m == Len(name)
           n == Len(other)
           r == Rest(name, i)
           s == Rest(other, j)
<1>1. /\ m \in Nat /\ n \in Nat /\ name \in Seq(Bytes) /\ other \in Seq(Bytes)
      /\ i \in 1 .. m /\ j \in 1 .. n /\ i < m
  BY LenProperties DEF Names
<1>2. /\ Len(r) = m - i + 1 /\ \A x \in 1 .. m - i + 1 : r[x] = name[i + x - 1]
      /\ Suffix(name, i).labels = r
  BY RestProperties
<1>3. /\ Len(s) = n - j + 1 /\ \A x \in 1 .. n - j + 1 : s[x] = other[j + x - 1]
      /\ Suffix(other, j).labels = s
  BY RestProperties
<1>4. r = s /\ PrefixLength(name, i) = PrefixLength(other, j)
  BY <1>2, <1>3 DEF Suffix
<1> HIDE DEF r, s
<1>5. /\ PrefixLength(name, i + 1) = PrefixLength(name, i) + 1 + Len(name[i])
      /\ PrefixLength(other, j + 1) = PrefixLength(other, j) + 1 + Len(other[j])
  BY <1>1, PrefixSteps
<1> HIDE DEF m, n
<1>6. m - i + 1 = n - j + 1 /\ j < n /\ 1 \in 1 .. m - i + 1 /\ 1 \in 1 .. n - j + 1
      /\ i + 1 - 1 = i /\ j + 1 - 1 = j
  BY <1>1, <1>2, <1>3, <1>4
<1>7. name[i] = other[j]
  BY <1>2, <1>3, <1>4, <1>6
<1>8. i + 1 \in 1 .. m /\ j + 1 \in 1 .. n
  BY <1>1, <1>6
<1> DEFINE u == Rest(name, i + 1)
           v == Rest(other, j + 1)
<1>9. /\ u \in Seq(Bytes) /\ Len(u) = m - (i + 1) + 1 /\ \A x \in 1 .. m - (i + 1) + 1 : u[x] = name[(i + 1) + x - 1]
  BY <1>8, RestProperties DEF m
<1>10. /\ v \in Seq(Bytes) /\ Len(v) = n - (j + 1) + 1 /\ \A x \in 1 .. n - (j + 1) + 1 : v[x] = other[(j + 1) + x - 1]
  BY <1>8, RestProperties DEF n
<1> HIDE DEF u, v
<1>11. Len(u) = Len(v) /\ \A x \in 1 .. Len(u) : u[x] = v[x]
  <2>1. Len(u) = m - i /\ Len(v) = m - i
    BY <1>1, <1>6, <1>9, <1>10
  <2>2. ASSUME NEW x \in 1 .. Len(u) PROVE u[x] = v[x]
    <3>1. /\ x \in 1 .. m - (i + 1) + 1 /\ x \in 1 .. n - (j + 1) + 1
          /\ x + 1 \in 1 .. m - i + 1 /\ x + 1 \in 1 .. n - j + 1
          /\ (i + 1) + x - 1 = i + (x + 1) - 1 /\ (j + 1) + x - 1 = j + (x + 1) - 1
      BY <1>1, <1>6, <2>1
    <3>2. u[x] = name[i + (x + 1) - 1] /\ v[x] = other[j + (x + 1) - 1]
      BY <1>9, <1>10, <3>1
    <3>3. r[x + 1] = name[i + (x + 1) - 1] /\ s[x + 1] = other[j + (x + 1) - 1]
      BY <1>2, <1>3, <3>1
    <3> QED
      BY <1>4, <3>2, <3>3
  <2> QED
    BY <2>1, <2>2
<1>12. u = v
  BY <1>9, <1>10, <1>11, SeqEqual
<1> QED
  BY <1>4, <1>5, <1>6, <1>7, <1>12 DEF Suffix, Rest, u, v, m, n

(* Where the labels of a name begin, in their order.                         *)
LEMMA PrefixGrows ==
    ASSUME NEW name \in Seq(Bytes), NEW i \in 1 .. Len(name) + 1, NEW j \in 1 .. Len(name) + 1, i < j
    PROVE  /\ PrefixLength(name, i) \in Nat /\ PrefixLength(name, j) \in Nat
           /\ PrefixLength(name, i) + 1 <= PrefixLength(name, j)
           /\ ValidLabels(name) => PrefixLength(name, i) + 2 <= PrefixLength(name, j)
<1> DEFINE n == Len(name)
           L(x) == PrefixLength(name, x)
           more == IF ValidLabels(name) THEN 2 ELSE 1
           S == {d \in 0 .. j - i - 1 : L(i) + more <= L(i + 1 + d)}
<1>1. n \in Nat /\ i \in 1 .. n + 1 /\ j \in 1 .. n + 1 /\ i < j /\ more \in 1 .. 2
  BY LenProperties
<1>2. /\ \A x \in 1 .. n + 1 : L(x) \in Nat
      /\ \A x \in 1 .. n : L(x + 1) = L(x) + 1 + Len(name[x])
  BY PrefixSteps
<1>3. \A x \in 1 .. n : Len(name[x]) \in Nat /\ 1 + Len(name[x]) >= more
  <2> SUFFICES ASSUME NEW x \in 1 .. n PROVE Len(name[x]) \in Nat /\ 1 + Len(name[x]) >= more
    OBVIOUS
  <2> DEFINE l == Len(name[x])
  <2>1. l \in Nat
    BY <1>1, LenProperties, ElementOfSeq DEF Bytes
  <2>2. ValidLabels(name) => l \in 1 .. 63
    BY DEF ValidLabels, MaxLabel
  <2> HIDE DEF l
  <2>3. 1 + l >= more
    BY <2>1, <2>2
  <2> QED
    BY <2>1, <2>3 DEF l
<1> HIDE DEF n, L, more
<1> DEFINE top == j - i - 1
<1>4. top \in Nat
  BY <1>1
<1>5. 0 \in S
  <2>1. i \in 1 .. n /\ i + 1 + 0 = i + 1 /\ 0 \in 0 .. j - i - 1 /\ i \in 1 .. n + 1
    BY <1>1
  <2>2. L(i + 1) = L(i) + 1 + Len(name[i]) /\ L(i) \in Nat /\ Len(name[i]) \in Nat /\ 1 + Len(name[i]) >= more
    BY <1>2, <1>3, <2>1
  <2>3. L(i) + more <= L(i + 1)
    BY <1>1, <2>2
  <2> QED
    BY <2>1, <2>3
<1>6. ASSUME NEW d \in 0 .. top - 1, d \in S PROVE d + 1 \in S
  <2>1. PICK x \in 1 .. n : x = i + 1 + d
    BY <1>1
  <2>2. i + 1 + (d + 1) = x + 1 /\ d + 1 \in 0 .. j - i - 1 /\ x \in 1 .. n + 1 /\ i \in 1 .. n + 1
    BY <1>1, <2>1
  <2>3. L(x + 1) = L(x) + 1 + Len(name[x]) /\ L(x) \in Nat /\ L(i) \in Nat /\ Len(name[x]) \in Nat
    BY <1>1, <1>2, <1>3, <2>2
  <2>4. L(i) + more <= L(x)
    BY <1>6, <2>1
  <2>5. L(i) + more <= L(x + 1)
    BY <1>1, <2>3, <2>4
  <2> QED
    BY <2>2, <2>5
<1> HIDE DEF S
<1>7. 0 .. top \subseteq S
  <2> HIDE DEF top
  <2> QED
    BY <1>4, <1>5, <1>6, UpToBound
<1>8. top \in S /\ i + 1 + top = j
  BY <1>1, <1>4, <1>7
<1>9. L(i) + more <= L(j)
  BY <1>8 DEF S
<1>10. L(i) \in Nat /\ L(j) \in Nat
  BY <1>1, <1>2
<1>11. L(i) + 1 <= L(j) /\ (more = 2 => L(i) + 2 <= L(j))
  BY <1>1, <1>9, <1>10
<1> QED
  BY <1>10, <1>11 DEF L, more

(* What packing a name comes to: up to which label it is written, how many      *)
(* bytes that takes, and which suffixes are known then.                       *)
NameTakes(name, stop) == PrefixLength(name, stop) + (IF stop <= Len(name) THEN 2 ELSE 1)

NameGoes(out, name, compress, stop, new) ==
    /\ new.ok /\ new.compress = out.compress
    /\ stop \in 1 .. Len(name) + 1
    /\ stop <= Len(name) => compress /\ Suffix(name, stop) \in DOMAIN out.suffixes
    /\ compress => \A i \in 1 .. stop - 1 : Suffix(name, i) \notin DOMAIN out.suffixes
    /\ PrefixLength(name, stop) \in Nat
    /\ Len(new.msg) = Len(out.msg) + NameTakes(name, stop)
    /\ DOMAIN new.suffixes = IF compress THEN NewSuffixes(out, name, stop - 1) \cup DOMAIN out.suffixes
                             ELSE DOMAIN out.suffixes

(* What packing comes to, from how the name is laid down.                    *)
LEMMA LaidNameGoes ==
    ASSUME NEW out \in Outs, NEW holes, Packing(out, holes), NEW name \in Names, NEW compress \in BOOLEAN,
           NEW stop, NEW tail, NEW new, PackedName(out, name, compress, stop, tail, new),
           compress => \A i \in 1 .. stop - 1 : Suffix(name, i) \notin DOMAIN out.suffixes
    PROVE  NameGoes(out, name, compress, stop, new)
<1> DEFINE n == Len(name)
<1>1. name \in Seq(Bytes) /\ n \in Nat /\ out \in Outs /\ out.ok
  BY LenProperties DEF Names, Packing
<1>2. /\ stop \in 1 .. n + 1 /\ PrefixLength(name, stop) \in Nat
      /\ Len(new.msg) = Len(out.msg) + PrefixLength(name, stop) + Len(tail)
      /\ new.suffixes = IF compress THEN Learn(out, name, stop - 1) ELSE out.suffixes
      /\ new.compress = out.compress /\ new.ok = out.ok
  BY PackedShape
<1>3. stop <= n => compress /\ Suffix(name, stop) \in DOMAIN out.suffixes
  BY DEF PackedName
<1>4. Len(tail) = IF stop <= n THEN 2 ELSE 1
  <2>1. CASE stop <= n
    <3>1. tail = Pointer(out.suffixes[Suffix(name, stop)])
      BY <2>1 DEF PackedName
    <3> QED
      BY <2>1, <3>1 DEF Pointer
  <2>2. CASE ~ (stop <= n)
    <3>1. stop > n
      BY <1>1, <1>2, <2>2
    <3>2. tail = <<0>>
      BY <3>1 DEF PackedName
    <3> QED
      BY <2>2, <3>2
  <2> QED
    BY <2>1, <2>2
<1>5. Len(new.msg) = Len(out.msg) + NameTakes(name, stop)
  <2> DEFINE l == Len(out.msg)
             p == PrefixLength(name, stop)
             k == Len(new.msg)
             t == Len(tail)
  <2>1. l \in Nat
    BY SizeIs
  <2>2. p \in Nat /\ k = l + p + t
    BY <1>2
  <2>3. t = IF stop <= n THEN 2 ELSE 1
    BY <1>4
  <2> HIDE DEF l, k, p, t, n
  <2>4. k = l + (p + (IF stop <= n THEN 2 ELSE 1))
    BY <2>1, <2>2, <2>3
  <2> QED
    BY <2>4 DEF NameTakes, l, k, p, n
<1>6. DOMAIN new.suffixes = IF compress THEN NewSuffixes(out, name, stop - 1) \cup DOMAIN out.suffixes
                            ELSE DOMAIN out.suffixes
  BY <1>2 DEF Learn
<1> QED
  BY <1>1, <1>2, <1>3, <1>5, <1>6 DEF NameGoes

(* A name whose labels can be written is packed.                             *)
LEMMA PackNameGoes ==
    ASSUME NEW out, NEW holes, Packing(out, holes), NEW name \in Names, ValidLabels(name), NEW compress \in BOOLEAN
    PROVE  \E stop : NameGoes(out, name, compress, stop, PackName(out, name, compress))
<1> DEFINE n == Len(name)
           stop == FirstKnown(out, name, compress)
           bad == FirstBad(name, stop)
           tail == IF stop <= n THEN Pointer(out.suffixes[Suffix(name, stop)]) ELSE <<0>>
           new == PackName(out, name, compress)
           learnt == IF compress THEN Learn(out, name, stop - 1) ELSE out.suffixes
<1>0. name \in Seq(Bytes) /\ n \in Nat /\ out \in Outs /\ out.ok
  BY LenProperties DEF Names, Packing
<1>1. /\ stop \in 1 .. n + 1
      /\ stop <= n => compress /\ name[stop] # <<>> /\ Suffix(name, stop) \in DOMAIN out.suffixes
      /\ compress => \A i \in 1 .. stop - 1 : name[i] # <<>> => Suffix(name, i) \notin DOMAIN out.suffixes
      /\ bad \in 1 .. stop
      /\ bad < stop => Len(name[bad]) \notin 1 .. MaxLabel
  BY <1>0, StopProperties
<1>2. \A i \in 1 .. n : name[i] # <<>> /\ Len(name[i]) \in 1 .. MaxLabel
  <2> SUFFICES ASSUME NEW i \in 1 .. n PROVE name[i] # <<>> /\ Len(name[i]) \in 1 .. MaxLabel
    OBVIOUS
  <2>1. Len(name[i]) \in 1 .. MaxLabel
    BY DEF ValidLabels
  <2>2. Len(<<>>) \notin 1 .. MaxLabel
    BY DEF MaxLabel
  <2> QED
    BY <2>1, <2>2
<1>3. new = PackUpTo(out, name, compress, stop, bad)
  BY DEF PackName, PackBefore
<1> HIDE DEF stop, bad, new
<1>4. ~ (bad < stop)
  <2> SUFFICES ASSUME bad < stop PROVE FALSE
    OBVIOUS
  <2>1. bad \in 1 .. n
    BY <1>0, <1>1
  <2> QED
    BY <1>1, <1>2, <2>1
<1>5. new = PackLabels(out, name, stop, learnt)
  BY <1>3, <1>4 DEF PackUpTo
<1>6. FlattenSeq([i \in 1 .. stop - 1 |-> Counted(name[i])]) = Flat(CountedLabels(name), stop - 1)
  <2>1. \A i \in 1 .. stop - 1 : CountedLabels(name)[i] = Counted(name[i])
    <3>1. \A i \in 1 .. stop - 1 : i \in 1 .. n
      BY <1>0, <1>1
    <3> QED
      BY <3>1 DEF CountedLabels
  <2>2. [i \in 1 .. stop - 1 |-> Counted(name[i])] = [i \in 1 .. stop - 1 |-> CountedLabels(name)[i]]
    BY <2>1
  <2> QED
    BY <2>2 DEF Flat
<1> HIDE DEF learnt
<1>7. new = [out EXCEPT !.suffixes = learnt,
                        !.msg = @ \o Flat(CountedLabels(name), stop - 1) \o tail]
  BY <1>5, <1>6 DEF PackLabels
<1>8. stop <= n => tail = Pointer(out.suffixes[Suffix(name, stop)]) /\ Len(tail) = 2
  BY DEF Pointer
<1>9. ~ (stop <= n) => tail = <<0>> /\ Len(tail) = 1
  OBVIOUS
<1> HIDE DEF tail
<1>10. PackedName(out, name, compress, stop, tail, new)
  <2>1. \A i \in 1 .. stop - 1 : i \in 1 .. n
    BY <1>0, <1>1
  <2>2. \A i \in 1 .. stop - 1 : Len(name[i]) \in 1 .. MaxLabel
    BY <1>2, <2>1
  <2>3. stop > n => ~ (stop <= n)
    BY <1>0, <1>1
  <2> QED
    BY <1>1, <1>7, <1>8, <1>9, <2>2, <2>3 DEF PackedName, learnt
<1>13. compress => \A i \in 1 .. stop - 1 : Suffix(name, i) \notin DOMAIN out.suffixes
  <2>1. \A i \in 1 .. stop - 1 : i \in 1 .. n
    BY <1>0, <1>1
  <2> QED
    BY <1>1, <1>2, <2>1
<1>15. NameGoes(out, name, compress, stop, new)
  BY <1>0, <1>10, <1>13, LaidNameGoes
<1> QED
  BY <1>15 DEF new, stop

(* The suffixes of a name that are kept are those that begin near enough.     *)
LEMMA NewSuffixesAre ==
    ASSUME NEW out, Len(out.msg) \in Nat, out.start \in Nat, NEW name \in Names, ValidLabels(name),
           NEW labels \in 0 .. Len(name)
    PROVE  /\ \A m \in 1 .. labels : Len(out.msg) + PrefixLength(name, m) <= MaxPointer
                                        => Suffix(name, m) \in NewSuffixes(out, name, labels)
           /\ \A s \in NewSuffixes(out, name, labels) :
                 \E m \in 1 .. labels : s = Suffix(name, m) /\ Len(out.msg) + PrefixLength(name, m) <= MaxPointer
<1> DEFINE l == Len(out.msg)
           n == Len(name)
           P(m) == PrefixLength(name, m)
<1>1. n \in Nat /\ name \in Seq(Bytes) /\ labels \in 0 .. n
  BY LenProperties DEF Names
<1>2. \A m \in 1 .. labels : m \in 1 .. n /\ m \in 1 .. n + 1
  <2> HIDE DEF n
  <2> QED
    BY <1>1
<1>3. \A m \in 1 .. labels : P(m) \in Nat
  BY <1>1, <1>2, PrefixSteps
<1>4. \A m \in 1 .. labels : SuffixOffset(out, name, m) + out.start = l + P(m)
  <2> SUFFICES ASSUME NEW m \in 1 .. labels PROVE SuffixOffset(out, name, m) + out.start = l + P(m)
    OBVIOUS
  <2> DEFINE p == P(m)
  <2>1. p \in Nat /\ SuffixOffset(out, name, m) = l + p - out.start
    BY <1>3 DEF SuffixOffset
  <2> HIDE DEF p, l
  <2>2. (l + p - out.start) + out.start = l + p
    BY <2>1 DEF l
  <2> QED
    BY <2>1, <2>2 DEF p
<1>5. \A m \in 1 .. labels : name[m] # <<>>
  <2> SUFFICES ASSUME NEW m \in 1 .. labels PROVE name[m] # <<>>
    OBVIOUS
  <2>1. Len(name[m]) \in 1 .. MaxLabel
    BY <1>2 DEF ValidLabels
  <2>2. Len(<<>>) \notin 1 .. MaxLabel
    BY DEF MaxLabel
  <2> QED
    BY <2>1, <2>2
<1> HIDE DEF l, P
<1>6. NewSuffixes(out, name, labels) = {Suffix(name, i) : i \in {j \in 1 .. labels : l + P(j) <= MaxPointer}}
  <2>1. {j \in 1 .. labels : name[j] # <<>> /\ SuffixOffset(out, name, j) + out.start <= MaxPointer}
           = {j \in 1 .. labels : l + P(j) <= MaxPointer}
    BY <1>4, <1>5
  <2> QED
    BY <2>1 DEF NewSuffixes
<1> QED
  BY <1>6 DEF l, P

(* With a suffix that is known, so are the suffixes of it, as far as pointers *)
(* can tell where they are.                                                 *)
Closed(out) ==
    \A name \in Names : \A i \in 1 .. Len(name) :
        i < Len(name) /\ Suffix(name, i) \in DOMAIN out.suffixes => Suffix(name, i + 1) \in DOMAIN out.suffixes

(* With a suffix, all suffixes of it are known.                             *)
LEMMA ClosedOnwards ==
    ASSUME NEW out, Closed(out), NEW name \in Names, NEW i \in 1 .. Len(name),
           Suffix(name, i) \in DOMAIN out.suffixes
    PROVE  \A m \in i .. Len(name) : Suffix(name, m) \in DOMAIN out.suffixes
<1> DEFINE n == Len(name)
           S == {d \in 0 .. n - i : Suffix(name, i + d) \in DOMAIN out.suffixes}
<1>1. n \in Nat /\ i \in 1 .. n
  BY LenProperties DEF Names
<1>2. 0 \in S
  BY <1>1
<1>3. ASSUME NEW d \in 0 .. (n - i) - 1, d \in S PROVE d + 1 \in S
  <2> DEFINE e == i + d
  <2>1. Suffix(name, e) \in DOMAIN out.suffixes
    BY <1>3
  <2>2. e \in 1 .. n /\ e < n /\ e + 1 = i + (d + 1) /\ d + 1 \in 0 .. n - i
    <3> HIDE DEF n, S
    <3> QED
      BY <1>1, <1>3
  <2> HIDE DEF e
  <2>3. Suffix(name, e + 1) \in DOMAIN out.suffixes
    BY <2>1, <2>2 DEF Closed
  <2> QED
    BY <2>2, <2>3
<1>4. 0 .. n - i \subseteq S
  <2>1. n - i \in Nat
    BY <1>1
  <2> HIDE DEF S
  <2> QED
    BY <1>2, <1>3, <2>1, UpToBound
<1> SUFFICES ASSUME NEW m \in i .. n PROVE Suffix(name, m) \in DOMAIN out.suffixes
  OBVIOUS
<1>5. m - i \in 0 .. n - i /\ i + (m - i) = m
  <2> HIDE DEF n, S
  <2> QED
    BY <1>1
<1>6. m - i \in S
  BY <1>4, <1>5
<1> QED
  BY <1>5, <1>6

(* One message, packed with every compression there is, keeps to the front of *)
(* another that is packed with the same items.                              *)
Trails(a, b) ==
    /\ Len(a.msg) \in Nat /\ Len(b.msg) \in Nat /\ a.start \in Nat /\ b.start \in Nat
    /\ Len(a.msg) <= Len(b.msg)
    /\ a.compress = TRUE
    /\ DOMAIN b.suffixes \subseteq DOMAIN a.suffixes
    /\ Len(a.msg) <= MaxPointer => Closed(a)

(* What two names take that are written up to these labels.                  *)
LEMMA NameTakesLess ==
    ASSUME NEW name \in Names, ValidLabels(name), NEW i \in 1 .. Len(name) + 1, NEW j \in 1 .. Len(name) + 1, i <= j
    PROVE  /\ NameTakes(name, i) \in Nat /\ NameTakes(name, j) \in Nat
           /\ NameTakes(name, i) <= NameTakes(name, j) /\ PrefixLength(name, i) <= NameTakes(name, i)
<1> DEFINE n == Len(name)
           p == PrefixLength(name, i)
           q == PrefixLength(name, j)
<1>1. n \in Nat /\ name \in Seq(Bytes)
  BY LenProperties DEF Names
<1>2. p \in Nat /\ q \in Nat
  BY <1>1, PrefixSteps
<1>3. i < j => p + 2 <= q
  BY <1>1, PrefixGrows
<1>4. i = j => p = q
  OBVIOUS
<1>5. NameTakes(name, i) = p + (IF i <= n THEN 2 ELSE 1) /\ NameTakes(name, j) = q + (IF j <= n THEN 2 ELSE 1)
  BY DEF NameTakes
<1>6. i \in 1 .. n + 1 /\ j \in 1 .. n + 1 /\ i <= j
  OBVIOUS
<1> HIDE DEF n, p, q
<1>7. (i < j \/ i = j) /\ i \in Nat /\ j \in Nat
  BY <1>1, <1>6
<1>8. p + (IF i <= n THEN 2 ELSE 1) <= q + (IF j <= n THEN 2 ELSE 1)
  BY <1>1, <1>2, <1>3, <1>4, <1>6, <1>7
<1> QED
  BY <1>2, <1>5, <1>8 DEF p

(* Packing something else, one message after the other.                      *)
Follow(a, b, a2, b2) ==
    Trails(a2, b2) /\ Len(a2.msg) - Len(a.msg) <= Len(b2.msg) - Len(b.msg)

(* Packing a name that is compressed in the one, and not more in the other.   *)
NamesGo(a, b, name, ca, cb, i, j, a2, b2) ==
    /\ name \in Names /\ ValidLabels(name) /\ ca \in BOOLEAN /\ cb \in BOOLEAN /\ (cb => ca)
    /\ NameGoes(a, name, ca, i, a2) /\ NameGoes(b, name, cb, j, b2)
    /\ Trails(a, b) /\ a2.start = a.start /\ b2.start = b.start

(* The name is not written further in the one message than in the other.    *)
LEMMA FirstEarlier ==
    ASSUME NEW a, NEW b, NEW name, NEW ca, NEW cb, NEW i, NEW j, NEW a2, NEW b2,
           NamesGo(a, b, name, ca, cb, i, j, a2, b2)
    PROVE  i \in 1 .. Len(name) + 1 /\ j \in 1 .. Len(name) + 1 /\ i <= j
<1> DEFINE n == Len(name)
<1>1. n \in Nat
  BY LenProperties DEF NamesGo, Names
<1>2. i \in 1 .. n + 1 /\ j \in 1 .. n + 1
  BY DEF NamesGo, NameGoes
<1>3. j <= n => j \notin 1 .. i - 1
  <2> SUFFICES ASSUME j <= n PROVE j \notin 1 .. i - 1
    OBVIOUS
  <2>1. Suffix(name, j) \in DOMAIN a.suffixes /\ ca
    BY DEF NamesGo, NameGoes, Trails
  <2>2. \A m \in 1 .. i - 1 : Suffix(name, m) \notin DOMAIN a.suffixes
    BY <2>1 DEF NamesGo, NameGoes
  <2> QED
    BY <2>1, <2>2
<1> HIDE DEF n
<1>4. i <= j
  BY <1>1, <1>2, <1>3
<1> QED
  BY <1>2, <1>4 DEF n

(* Nor does it take more there, or end further behind.                      *)
LEMMA NamesLengths ==
    ASSUME NEW a, NEW b, NEW name, NEW ca, NEW cb, NEW i, NEW j, NEW a2, NEW b2,
           NamesGo(a, b, name, ca, cb, i, j, a2, b2)
    PROVE  /\ Len(a2.msg) \in Nat /\ Len(b2.msg) \in Nat
           /\ Len(a.msg) + PrefixLength(name, i) <= Len(a2.msg) /\ PrefixLength(name, i) \in Nat
           /\ Len(a2.msg) <= Len(b2.msg)
           /\ Len(a2.msg) - Len(a.msg) <= Len(b2.msg) - Len(b.msg)
<1> DEFINE s == NameTakes(name, i)
           t == NameTakes(name, j)
           p == PrefixLength(name, i)
           k == Len(a.msg)
           l == Len(b.msg)
<1>1. i \in 1 .. Len(name) + 1 /\ j \in 1 .. Len(name) + 1 /\ i <= j
  BY FirstEarlier
<1>2. s \in Nat /\ t \in Nat /\ s <= t /\ p <= s
  BY <1>1, NameTakesLess DEF NamesGo
<1>3. Len(a2.msg) = k + s /\ Len(b2.msg) = l + t /\ p \in Nat
  BY DEF NamesGo, NameGoes
<1>4. k \in Nat /\ l \in Nat /\ k <= l
  BY DEF NamesGo, Trails
<1> HIDE DEF s, t, p, k, l
<1>5. /\ k + s \in Nat /\ l + t \in Nat /\ k + p <= k + s /\ k + s <= l + t
      /\ (k + s) - k <= (l + t) - l
  BY <1>2, <1>3, <1>4
<1> QED
  BY <1>3, <1>5 DEF p, k, l

(* Suffixes that are known in the other message then are known in the one.  *)
LEMMA NamesKnown ==
    ASSUME NEW a, NEW b, NEW name, NEW ca, NEW cb, NEW i, NEW j, NEW a2, NEW b2,
           NamesGo(a, b, name, ca, cb, i, j, a2, b2)
    PROVE  DOMAIN b2.suffixes \subseteq DOMAIN a2.suffixes
<1> DEFINE n == Len(name)
           k == Len(a.msg)
           l == Len(b.msg)
           P(m) == PrefixLength(name, m)
<1>1. n \in Nat /\ name \in Seq(Bytes)
  BY LenProperties DEF NamesGo, Names
<1>2. i \in 1 .. n + 1 /\ j \in 1 .. n + 1 /\ i <= j
  BY FirstEarlier
<1>3. DOMAIN b.suffixes \subseteq DOMAIN a.suffixes /\ DOMAIN a.suffixes \subseteq DOMAIN a2.suffixes
  BY DEF NamesGo, NameGoes, Trails
<1>4. ASSUME cb, NEW s \in NewSuffixes(b, name, j - 1) PROVE s \in DOMAIN a2.suffixes
  <2>1. ca
    BY <1>4 DEF NamesGo
  <2>2. DOMAIN a2.suffixes = NewSuffixes(a, name, i - 1) \cup DOMAIN a.suffixes
    BY <2>1 DEF NamesGo, NameGoes
  <2>3. j - 1 \in 0 .. n /\ i - 1 \in 0 .. n
    <3> HIDE DEF n
    <3> QED
      BY <1>1, <1>2
  <2>4. PICK m \in 1 .. j - 1 : s = Suffix(name, m) /\ l + P(m) <= MaxPointer
    BY <1>4, <2>3, NewSuffixesAre DEF NamesGo, Trails
  <2>5. m \in 1 .. n /\ m \in 1 .. n + 1 /\ (i <= m => m \in i .. n /\ i \in 1 .. n) /\ (~ (i <= m) => m \in 1 .. i - 1)
    <3> HIDE DEF n
    <3> QED
      BY <1>1, <1>2, <2>4
  <2>6. P(m) \in Nat
    BY <1>1, <2>5, PrefixSteps
  <2>7. k \in Nat /\ l \in Nat /\ k <= l
    BY DEF NamesGo, Trails
  <2>8. k + P(m) <= MaxPointer /\ k <= MaxPointer
    <3> DEFINE p == P(m)
    <3>1. p \in Nat /\ l + p <= MaxPointer
      BY <2>4, <2>6
    <3> HIDE DEF p, k, l
    <3>2. k + p <= MaxPointer /\ k <= MaxPointer
      BY <2>7, <3>1, PointerAssumption
    <3> QED
      BY <3>2 DEF p
  <2>9. CASE i <= m
    <3>1. Closed(a)
      BY <2>8 DEF NamesGo, Trails
    <3>2. i <= n
      <4> HIDE DEF n
      <4> QED
        BY <1>1, <2>5, <2>9
    <3>3. Suffix(name, i) \in DOMAIN a.suffixes
      BY <3>2 DEF NamesGo, NameGoes
    <3>4. Suffix(name, m) \in DOMAIN a.suffixes
      BY <2>5, <2>9, <3>1, <3>3, ClosedOnwards DEF NamesGo
    <3> QED
      BY <2>4, <1>3, <3>4
  <2>10. CASE ~ (i <= m)
    <3>1. Suffix(name, m) \in NewSuffixes(a, name, i - 1)
      BY <2>3, <2>5, <2>8, <2>10, NewSuffixesAre DEF NamesGo, Trails
    <3> QED
      BY <2>2, <2>4, <3>1
  <2> QED
    BY <2>9, <2>10
<1>5. CASE cb
  <2>1. DOMAIN b2.suffixes = NewSuffixes(b, name, j - 1) \cup DOMAIN b.suffixes
    BY <1>5 DEF NamesGo, NameGoes
  <2> QED
    BY <1>3, <1>4, <1>5, <2>1
<1>6. CASE ~ cb
  <2>1. DOMAIN b2.suffixes = DOMAIN b.suffixes
    BY <1>6 DEF NamesGo, NameGoes
  <2> QED
    BY <1>3, <2>1
<1> QED
  BY <1>5, <1>6

(* The one message still knows the suffixes of the suffixes it knows.       *)
LEMMA NamesClosed ==
    ASSUME NEW a, NEW b, NEW name, NEW ca, NEW cb, NEW i, NEW j, NEW a2, NEW b2,
           NamesGo(a, b, name, ca, cb, i, j, a2, b2), Len(a2.msg) <= MaxPointer
    PROVE  Closed(a2)
<1> DEFINE n == Len(name)
           k == Len(a.msg)
           P(m) == PrefixLength(name, m)
           D == DOMAIN a.suffixes
           D2 == DOMAIN a2.suffixes
<1>1. n \in Nat /\ name \in Seq(Bytes) /\ name \in Names
  BY LenProperties DEF NamesGo, Names
<1>2. i \in 1 .. n + 1 /\ i - 1 \in 0 .. n
  <2>1. i \in 1 .. n + 1
    BY FirstEarlier
  <2> HIDE DEF n
  <2> QED
    BY <1>1, <2>1
<1>3. k + P(i) <= MaxPointer /\ k <= MaxPointer /\ k \in Nat /\ P(i) \in Nat
  <2> DEFINE p == P(i)
             l == Len(a2.msg)
  <2>1. k \in Nat /\ p \in Nat /\ l \in Nat /\ k + p <= l /\ l <= MaxPointer
    BY NamesLengths DEF NamesGo, Trails
  <2> HIDE DEF p, k, l
  <2>2. k + p <= MaxPointer /\ k <= MaxPointer
    BY <2>1, PointerAssumption
  <2> QED
    BY <2>1, <2>2 DEF p
<1>4. Closed(a)
  BY <1>3 DEF NamesGo, Trails
<1>5. /\ ca => D2 = NewSuffixes(a, name, i - 1) \cup D
      /\ ~ ca => D2 = D
      /\ i <= n => Suffix(name, i) \in D
  BY DEF NamesGo, NameGoes
<1>6. \A m \in 1 .. i - 1 : Suffix(name, m) \in NewSuffixes(a, name, i - 1)
  <2> SUFFICES ASSUME NEW m \in 1 .. i - 1 PROVE Suffix(name, m) \in NewSuffixes(a, name, i - 1)
    OBVIOUS
  <2>1. m \in 1 .. n + 1 /\ m < i
    <3> HIDE DEF n
    <3> QED
      BY <1>1, <1>2
  <2>2. P(m) \in Nat /\ P(m) + 1 <= P(i)
    BY <1>1, <1>2, <2>1, PrefixGrows
  <2>3. k + P(m) <= MaxPointer
    <3> DEFINE p == P(i)
               q == P(m)
    <3>1. q \in Nat /\ q + 1 <= p /\ p \in Nat /\ k + p <= MaxPointer /\ k \in Nat
      BY <1>3, <2>2
    <3> HIDE DEF p, q, k
    <3>2. k + q <= MaxPointer
      BY <3>1, PointerAssumption
    <3> QED
      BY <3>2 DEF q
  <2> QED
    BY <1>2, <2>3, NewSuffixesAre DEF NamesGo, Trails
<1> SUFFICES ASSUME NEW other \in Names, NEW d \in 1 .. Len(other), d < Len(other), Suffix(other, d) \in D2
             PROVE  Suffix(other, d + 1) \in D2
  BY DEF Closed
<1>7. CASE Suffix(other, d) \in D
  <2>1. Suffix(other, d + 1) \in D
    BY <1>4, <1>7 DEF Closed
  <2> QED
    BY <1>5, <2>1
<1>8. CASE Suffix(other, d) \notin D
  <2>1. ca /\ Suffix(other, d) \in NewSuffixes(a, name, i - 1)
    BY <1>5, <1>8 DEF NamesGo
  <2>2. PICK m \in 1 .. i - 1 : Suffix(other, d) = Suffix(name, m)
    BY <1>2, <2>1, NewSuffixesAre DEF NamesGo, Trails
  <2>3. m \in 1 .. n
    <3> HIDE DEF n
    <3> QED
      BY <1>1, <1>2
  <2>4. m < n /\ Suffix(other, d + 1) = Suffix(name, m + 1)
    BY <1>1, <2>2, <2>3, SuffixGoesOn
  <2>5. (m + 1 \in 1 .. i - 1) \/ (m + 1 = i /\ i <= n)
    <3> HIDE DEF n
    <3> QED
      BY <1>1, <1>2, <2>3, <2>4
  <2> QED
    BY <1>5, <1>6, <2>1, <2>4, <2>5
<1> QED
  BY <1>7, <1>8

(* A name keeps the one message to the front of the other.                  *)
LEMMA NamesFollow ==
    ASSUME NEW a, NEW b, NEW name, NEW ca, NEW cb, NEW i, NEW j, NEW a2, NEW b2,
           NamesGo(a, b, name, ca, cb, i, j, a2, b2)
    PROVE  Follow(a, b, a2, b2)
<1>1. /\ Len(a2.msg) \in Nat /\ Len(b2.msg) \in Nat /\ Len(a2.msg) <= Len(b2.msg)
      /\ Len(a2.msg) - Len(a.msg) <= Len(b2.msg) - Len(b.msg)
  BY NamesLengths
<1>2. DOMAIN b2.suffixes \subseteq DOMAIN a2.suffixes
  BY NamesKnown
<1>3. Len(a2.msg) <= MaxPointer => Closed(a2)
  BY NamesClosed
<1>4. a2.compress = TRUE /\ a2.start \in Nat /\ b2.start \in Nat
  BY DEF NamesGo, NameGoes, Trails
<1> QED
  BY <1>1, <1>2, <1>3, <1>4 DEF Follow, Trails

(* A name that could be packed in the one is packed in the other.            *)
LEMMA NameFollows ==
    ASSUME NEW a, NEW ha, Packing(a, ha), NEW b, NEW hb, Packing(b, hb), Trails(a, b),
           NEW name \in Names, Len(name) <= MaxPointers, NEW ca \in BOOLEAN, NEW cb \in BOOLEAN, cb => ca,
           PackName(b, name, cb).ok
    PROVE  PackName(a, name, ca).ok /\ Follow(a, b, PackName(a, name, ca), PackName(b, name, cb))
<1> DEFINE a2 == PackName(a, name, ca)
           b2 == PackName(b, name, cb)
<1>1. a \in Outs /\ b \in Outs
  BY DEF Packing
<1>2. ValidLabels(name) /\ Extends(b2, b)
  BY <1>1, PackNameStands DEF NameStands
<1>3. PICK i : NameGoes(a, name, ca, i, a2)
  BY <1>2, PackNameGoes
<1>4. PICK j : NameGoes(b, name, cb, j, b2)
  BY <1>2, PackNameGoes
<1>5. a2.ok
  BY <1>3 DEF NameGoes
<1>6. Extends(a2, a)
  BY <1>1, <1>5, PackNameStands DEF NameStands
<1> HIDE DEF a2, b2
<1>7. NamesGo(a, b, name, ca, cb, i, j, a2, b2)
  BY <1>2, <1>3, <1>4, <1>6 DEF NamesGo, Extends
<1>8. Follow(a, b, a2, b2)
  BY <1>7, NamesFollow
<1> QED
  BY <1>5, <1>8 DEF a2, b2

(* Bytes that are written in both.                                          *)
LEMMA EmitFollows ==
    ASSUME NEW a, NEW ha, Packing(a, ha), NEW b, NEW hb, Packing(b, hb), Trails(a, b), NEW bytes \in Bytes
    PROVE  Follow(a, b, Emit(a, bytes), Emit(b, bytes))
<1> DEFINE a2 == Emit(a, bytes)
           b2 == Emit(b, bytes)
           k == Len(a.msg)
           l == Len(b.msg)
           c == Len(bytes)
<1>1. a \in Outs /\ b \in Outs /\ a.msg \in Bytes /\ b.msg \in Bytes
  BY DEF Packing, Outs
<1>2. /\ a2.msg = a.msg \o bytes /\ a2.suffixes = a.suffixes /\ a2.start = a.start /\ a2.compress = a.compress
      /\ b2.msg = b.msg \o bytes /\ b2.suffixes = b.suffixes /\ b2.start = b.start
  BY <1>1 DEF Outs, Emit
<1>3. k \in Nat /\ l \in Nat /\ k <= l /\ c \in Nat
  BY LenProperties DEF Trails, Bytes
<1> HIDE DEF a2, b2
<1>4. Len(a2.msg) = k + c /\ Len(b2.msg) = l + c
  BY <1>1, <1>2, ConcatProperties DEF Bytes
<1>5. Closed(a) => Closed(a2)
  BY <1>2 DEF Closed
<1> HIDE DEF k, l, c
<1>6. k + c \in Nat /\ l + c \in Nat /\ k + c <= l + c /\ (k + c) - k <= (l + c) - l
      /\ (k + c <= MaxPointer => k <= MaxPointer)
  BY <1>3, PointerAssumption
<1>7. a2.compress = TRUE /\ a2.start \in Nat /\ b2.start \in Nat /\ DOMAIN b2.suffixes \subseteq DOMAIN a2.suffixes
  BY <1>2 DEF Trails
<1>8. Len(a2.msg) <= MaxPointer => Closed(a2)
  BY <1>4, <1>5, <1>6 DEF Trails, k
<1>9. Len(a2.msg) - Len(a.msg) <= Len(b2.msg) - Len(b.msg)
  BY <1>4, <1>6 DEF k, l
<1>10. Follow(a, b, a2, b2)
  BY <1>4, <1>6, <1>7, <1>8, <1>9 DEF Follow, Trails
<1> QED
  BY <1>10 DEF a2, b2

(* A field other than a name cannot fail in one message only.                *)
LEMMA FieldSucceeds ==
    ASSUME NEW a \in Outs, a.ok, NEW b \in Outs, NEW kind, NEW value, ~ IsName(kind), PackField(b, kind, value).ok
    PROVE  PackField(a, kind, value).ok
<1>1. CASE kind = "texts"
  <2>1. PackField(a, kind, value) = PackTexts(a, value) /\ PackField(b, kind, value) = PackTexts(b, value)
    BY <1>1 DEF PackField
  <2>2. ~ \E i \in DOMAIN value : Len(value[i]) > 255
    BY <2>1 DEF PackTexts, Outs
  <2>3. PackTexts(a, value) = Emit(a, FlattenSeq([i \in DOMAIN value |-> Counted(value[i])]))
    BY <2>2 DEF PackTexts
  <2> QED
    BY <2>1, <2>3 DEF Emit, Outs
<1>2. CASE kind # "texts"
  <2>1. \E bytes : PackField(a, kind, value) = Emit(a, bytes)
    <3>1. kind = "uint16" => PackField(a, kind, value) = Emit(a, Pack16(value))
      BY DEF PackField
    <3>2. kind = "uint32" => PackField(a, kind, value) = Emit(a, Pack16(value[1]) \o Pack16(value[2]))
      BY DEF PackField
    <3>3. kind = "options" =>
             PackField(a, kind, value)
                = Emit(a, FlattenSeq([i \in DOMAIN value |->
                             Pack16(value[i].code) \o Pack16(Len(value[i].data)) \o value[i].data]))
      BY DEF PackField, PackOptions
    <3>4. kind \notin {"uint16", "uint32", "options"} => PackField(a, kind, value) = Emit(a, value)
      BY <1>2 DEF PackField, IsName
    <3> QED
      BY <3>1, <3>2, <3>3, <3>4
  <2>2. \A bytes : Emit(a, bytes).ok
    BY DEF Emit, Outs
  <2> QED
    BY <2>1, <2>2
<1> QED
  BY <1>1, <1>2

(* A field that could be packed in the one message is packed in the other.  *)
LEMMA FieldFollows ==
    ASSUME NEW a, NEW ha, Packing(a, ha), NEW b, NEW hb, Packing(b, hb), Trails(a, b),
           NEW kind, NEW value, FieldFits(kind, value), PackField(b, kind, value).ok
    PROVE  /\ PackField(a, kind, value).ok /\ Packing(PackField(a, kind, value), ha)
           /\ Follow(a, b, PackField(a, kind, value), PackField(b, kind, value))
<1>1. a \in Outs /\ b \in Outs /\ a.ok
  BY DEF Packing
<1>2. CASE IsName(kind)
  <2> DEFINE ca == a.compress /\ kind = "name"
             cb == b.compress /\ kind = "name"
  <2>1. PackField(a, kind, value) = PackName(a, value, ca) /\ PackField(b, kind, value) = PackName(b, value, cb)
    BY <1>2 DEF PackField, IsName
  <2>2. value \in Names /\ Len(value) <= MaxPointers
    <3>1. FieldValues(kind) = Names
      BY <1>2 DEF FieldValues, IsName
    <3> QED
      BY <1>2, <3>1 DEF FieldFits
  <2>3. ca \in BOOLEAN /\ cb \in BOOLEAN /\ (cb => ca)
    BY DEF Trails
  <2> HIDE DEF ca, cb
  <2>4. PackName(a, value, ca).ok /\ Follow(a, b, PackName(a, value, ca), PackName(b, value, cb))
    BY <2>1, <2>2, <2>3, NameFollows
  <2> QED
    BY <2>1, <2>4, FieldStands
<1>3. CASE ~ IsName(kind)
  <2> DEFINE bytes == FieldBytes(kind, value)
  <2>1. PackField(a, kind, value).ok
    BY <1>1, <1>3, FieldSucceeds
  <2>2. /\ PackField(a, kind, value) = Emit(a, bytes) /\ bytes \in Bytes
        /\ PackField(b, kind, value) = Emit(b, bytes)
    BY <1>1, <1>3, <2>1, FieldEmitted
  <2> HIDE DEF bytes
  <2>3. Follow(a, b, Emit(a, bytes), Emit(b, bytes))
    BY <2>2, EmitFollows
  <2> QED
    BY <2>1, <2>2, <2>3, FieldStands
<1> QED
  BY <1>2, <1>3

(* One thing after another.                                                 *)
LEMMA FollowMore ==
    ASSUME NEW a, NEW b, NEW a2, NEW b2, NEW a3, NEW b3, Trails(a, b), Follow(a, b, a2, b2), Follow(a2, b2, a3, b3)
    PROVE  Follow(a, b, a3, b3)
<1> DEFINE k1 == Len(a.msg)
           k2 == Len(a2.msg)
           k3 == Len(a3.msg)
           l1 == Len(b.msg)
           l2 == Len(b2.msg)
           l3 == Len(b3.msg)
<1>1. /\ k1 \in Nat /\ k2 \in Nat /\ k3 \in Nat /\ l1 \in Nat /\ l2 \in Nat /\ l3 \in Nat
      /\ k2 - k1 <= l2 - l1 /\ k3 - k2 <= l3 - l2
  BY DEF Follow, Trails
<1> HIDE DEF k1, k2, k3, l1, l2, l3
<1>2. k3 - k1 <= l3 - l1
  BY <1>1
<1> QED
  BY <1>2 DEF Follow, k1, k3, l1, l3

(* Fields that could be packed in the one message are packed in the other.    *)
LEMMA RunFollows ==
    ASSUME NEW a, NEW ha, Packing(a, ha), NEW b, NEW hb, Packing(b, hb), Trails(a, b),
           NEW layout, NEW values, NEW n \in Nat, FieldsFit(values, layout, n),
           NEW f, PackRun(a, layout, values, n, f), NEW g, FieldsPacked(b, layout, values, n, g, hb)
    PROVE  f[n].ok /\ Packing(f[n], ha) /\ Follow(a, b, f[n], g[n])
<1> DEFINE Good(i) == Packing(f[i], ha) /\ Follow(a, b, f[i], g[i])
           S == {i \in 0 .. n : Good(i)}
<1>1. Good(0)
  <2>1. f[0] = a /\ g[0] = b
    BY DEF PackRun, FieldsPacked
  <2>2. Len(a.msg) \in Nat /\ Len(b.msg) \in Nat
    BY DEF Trails
  <2>3. Len(a.msg) - Len(a.msg) <= Len(b.msg) - Len(b.msg)
    BY <2>2
  <2> QED
    BY <2>1, <2>3 DEF Follow
<1>2. ASSUME NEW d \in 0 .. n - 1, Good(d) PROVE Good(d + 1)
  <2>1. PICK j \in 1 .. n : j = d + 1 /\ j - 1 = d /\ d \in 0 .. n
    <3>1. d + 1 \in 1 .. n /\ (d + 1) - 1 = d /\ d \in 0 .. n
      OBVIOUS
    <3> QED
      BY <3>1
  <2> DEFINE kind == layout[j]
             value == values[j]
             x == f[d]
             y == g[d]
  <2>2. Packing(x, ha) /\ Follow(a, b, x, y) /\ Trails(x, y)
    BY <1>2 DEF Follow
  <2>3. x.ok /\ FieldFits(kind, value)
    BY <2>2 DEF Packing, FieldsFit
  <2>4. f[j] = PackField(x, kind, value)
    BY <2>1, <2>3 DEF PackRun, PackNext
  <2>5. g[j] = PackField(y, kind, value) /\ Packing(y, hb)
    BY <2>1 DEF FieldsPacked
  <2>6. g[j].ok
    <3>1. j \in 0 .. n
      BY <2>1
    <3> QED
      BY <3>1 DEF FieldsPacked, Packing
  <2> HIDE DEF kind, value, x, y
  <2>7. Packing(f[j], ha) /\ Follow(x, y, f[j], g[j])
    BY <2>2, <2>3, <2>4, <2>5, <2>6, FieldFollows
  <2>8. Follow(a, b, f[j], g[j])
    BY <2>2, <2>7, FollowMore
  <2> QED
    BY <2>1, <2>7, <2>8
<1>3. 0 \in S
  BY <1>1
<1>4. ASSUME NEW d \in 0 .. n - 1, d \in S PROVE d + 1 \in S
  <2>1. d + 1 \in 0 .. n
    OBVIOUS
  <2> HIDE DEF Good
  <2> QED
    BY <1>2, <1>4, <2>1
<1> HIDE DEF S
<1>5. 0 .. n \subseteq S
  BY <1>3, <1>4, UpToBound
<1>6. n \in 0 .. n
  OBVIOUS
<1>7. Good(n)
  <2> HIDE DEF Good
  <2> QED
    BY <1>5, <1>6 DEF S
<1> QED
  BY <1>7 DEF Packing

(* What packing fields comes to in both messages.                           *)
FieldsFollowed(a, ha, b, layout, values) ==
    /\ PackFields(a, layout, values).ok /\ Packing(PackFields(a, layout, values), ha)
    /\ Follow(a, b, PackFields(a, layout, values), PackFields(b, layout, values))

(* Fields that can all be packed in the one message.                        *)
LEMMA FieldsFollow ==
    ASSUME NEW a, NEW ha, Packing(a, ha), NEW b, NEW hb, Packing(b, hb), Trails(a, b),
           NEW layout, NEW values, NEW n \in Nat, Len(layout) = n, FieldsFit(values, layout, n),
           PackFields(b, layout, values).ok
    PROVE  FieldsFollowed(a, ha, b, layout, values)
<1>1. PICK g : FieldsPacked(b, layout, values, n, g, hb) /\ PackFields(b, layout, values) = g[n]
  BY PackFieldsStands
<1>2. PICK f : PackRun(a, layout, values, n, f) /\ PackFields(a, layout, values) = f[n]
  BY PackFieldsIs
<1>3. f[n].ok /\ Packing(f[n], ha) /\ Follow(a, b, f[n], g[n])
  BY <1>1, <1>2, RunFollows
<1> QED
  BY <1>1, <1>2, <1>3 DEF FieldsFollowed

(* A question that could be added to the one message fits into the other.     *)
LEMMA QuestionFollows ==
    ASSUME NEW a, NEW ha, Packing(a, ha), NEW b, NEW hb, Packing(b, hb), Trails(a, b),
           NEW q, QuestionFits(q), PackQuestion(b, q).ok
    PROVE  PackQuestion(a, q).ok /\ Follow(a, b, PackQuestion(a, q), PackQuestion(b, q))
<1> DEFINE three == 3
<1>1. three \in Nat /\ Len(QuestionFields) = three /\ FieldsFit(q, QuestionFields, three)
  BY LayoutLengths DEF QuestionFits
<1>2. PackFields(b, QuestionFields, q).ok
  BY DEF PackQuestion
<1> HIDE DEF three
<1>3. FieldsFollowed(a, ha, b, QuestionFields, q)
  BY <1>1, <1>2, FieldsFollow
<1> QED
  BY <1>3 DEF PackQuestion, FieldsFollowed

(* What filling in the length of a body does.                               *)
LEMMA FixedIs ==
    ASSUME NEW head, NEW body \in Outs, body.ok, NEW new, new = FixLength(head, body)
    PROVE  /\ new.ok <=> ~ (BodyLength(head, body) > MaxLength)
           /\ new.suffixes = body.suffixes /\ new.start = body.start /\ new.compress = body.compress
           /\ new.ok => Len(new.msg) = Len(body.msg)
<1>1. CASE BodyLength(head, body) > MaxLength
  <2>1. new = [body EXCEPT !.ok = FALSE]
    BY <1>1 DEF FixLength
  <2> QED
    BY <1>1, <2>1 DEF Outs
<1>2. CASE ~ (BodyLength(head, body) > MaxLength)
  <2> DEFINE w == FillIn(body.msg, Len(head.msg) - 2, Pack16(BodyLength(head, body)))
             u == body.msg
  <2>1. new = [body EXCEPT !.msg = w]
    BY <1>2 DEF FixLength
  <2>2. Len(w) = Len(u)
    <3>1. u \in Bytes
      BY DEF Outs
    <3> HIDE DEF u
    <3>2. DOMAIN u = 1 .. Len(u) /\ Len(u) \in Nat
      BY <3>1, LenProperties DEF Bytes
    <3>3. DOMAIN FillIn(u, Len(head.msg) - 2, Pack16(BodyLength(head, body))) = 1 .. Len(u)
      BY <3>2 DEF FillIn
    <3>4. DOMAIN w = 1 .. Len(u)
      BY <3>3 DEF u
    <3>5. w = [i \in 1 .. Len(u) |-> w[i]]
      BY <3>2 DEF FillIn, u
    <3> HIDE DEF w
    <3>6. Len([i \in 1 .. Len(u) |-> w[i]]) = Len(u)
      BY <3>2
    <3> QED
      BY <3>5, <3>6
  <2> HIDE DEF w
  <2>3. new.msg = w /\ new.ok = body.ok /\ new.suffixes = body.suffixes /\ new.start = body.start
        /\ new.compress = body.compress
    BY <2>1 DEF Outs
  <2> QED
    BY <1>2, <2>2, <2>3
<1> QED
  BY <1>1, <1>2

(* Fields that have been packed leave a message that can be packed on.      *)
LEMMA FieldsPacking ==
    ASSUME NEW out, NEW holes, Packing(out, holes), NEW layout, NEW values, NEW n \in Nat, Len(layout) = n,
           FieldsFit(values, layout, n), PackFields(out, layout, values).ok
    PROVE  Packing(PackFields(out, layout, values), holes)
<1>1. PICK f : FieldsPacked(out, layout, values, n, f, holes) /\ PackFields(out, layout, values) = f[n]
  BY PackFieldsStands
<1>2. n \in 0 .. n
  OBVIOUS
<1> QED
  BY <1>1, <1>2 DEF FieldsPacked

(* The header and the body of a record that has been packed.                 *)
LEMMA RecordParts ==
    ASSUME NEW out, NEW r, PackRecord(out, r).ok, NEW head, head = PackFields(out, RecordHeader, HeaderValues(r)),
           NEW body, body = PackFields(head, BodyFields(r.type), r.body)
    PROVE  head.ok /\ body.ok /\ PackRecord(out, r) = FixLength(head, body)
<1> DEFINE layout == BodyFields(r.type)
           n == Len(layout)
           new == PackRecord(out, r)
<1>1. new = FixLength(head, body)
  BY DEF PackRecord, PackBody, HeaderValues
<1>2. n \in Nat /\ Len(layout) = n
  BY BodyLayout
<1>3. body.ok
  <2> SUFFICES ASSUME ~ body.ok PROVE FALSE
    OBVIOUS
  <2>1. new = [body EXCEPT !.ok = FALSE]
    BY <1>1 DEF FixLength
  <2>2. CASE "ok" \in DOMAIN body
    BY <2>1, <2>2
  <2>3. CASE "ok" \notin DOMAIN body
    BY <2>1, <2>3
  <2> QED
    BY <2>2, <2>3
<1>4. head.ok
  <2> HIDE DEF layout, n
  <2> QED
    BY <1>2, <1>3, PackFieldsFrom DEF layout
<1> QED
  BY <1>1, <1>3, <1>4

(* The length of a body that could be filled in in the one message is       *)
(* filled in in the other.                                                  *)
LEMMA FixFollows ==
    ASSUME NEW a, NEW b, Trails(a, b), NEW ha, NEW hb, Follow(a, b, ha, hb),
           NEW ba \in Outs, ba.ok, NEW bb \in Outs, bb.ok, Follow(ha, hb, ba, bb), FixLength(hb, bb).ok
    PROVE  FixLength(ha, ba).ok /\ Follow(a, b, FixLength(ha, ba), FixLength(hb, bb))
<1> DEFINE x == FixLength(ha, ba)
           y == FixLength(hb, bb)
<1>1. /\ x.ok <=> ~ (BodyLength(ha, ba) > MaxLength)
      /\ x.suffixes = ba.suffixes /\ x.start = ba.start /\ x.compress = ba.compress
      /\ x.ok => Len(x.msg) = Len(ba.msg)
  BY FixedIs
<1>2. /\ ~ (BodyLength(hb, bb) > MaxLength)
      /\ y.suffixes = bb.suffixes /\ y.start = bb.start
      /\ Len(y.msg) = Len(bb.msg)
  BY FixedIs
<1>3. x.ok
  <2> DEFINE k == Len(ha.msg)
             l == Len(hb.msg)
             s == Len(ba.msg)
             t == Len(bb.msg)
  <2>1. k \in Nat /\ l \in Nat /\ s \in Nat /\ t \in Nat /\ s - k <= t - l
    BY DEF Follow, Trails
  <2>2. BodyLength(ha, ba) = s - k /\ BodyLength(hb, bb) = t - l
    BY DEF BodyLength
  <2> HIDE DEF k, l, s, t
  <2>3. ~ (s - k > MaxLength)
    BY <1>2, <2>1, <2>2, LengthAssumption
  <2> QED
    BY <1>1, <2>2, <2>3
<1>4. Follow(a, b, ba, bb)
  BY FollowMore
<1> HIDE DEF x, y
<1>5. Closed(ba) => Closed(x)
  BY <1>1 DEF Closed
<1>6. Follow(a, b, x, y)
  BY <1>1, <1>2, <1>3, <1>4, <1>5 DEF Follow, Trails
<1> QED
  BY <1>3, <1>6 DEF x, y

(* A record that could be added to the one message fits into the other.       *)
LEMMA RecordFollows ==
    ASSUME NEW a, NEW ha, Packing(a, ha), NEW b, NEW hb, Packing(b, hb), Trails(a, b),
           NEW r, RecordFits(r), PackRecord(b, r).ok
    PROVE  PackRecord(a, r).ok /\ Follow(a, b, PackRecord(a, r), PackRecord(b, r))
<1> DEFINE values == HeaderValues(r)
           layout == BodyFields(r.type)
           n == Len(layout)
           five == 5
           headA == PackFields(a, RecordHeader, values)
           headB == PackFields(b, RecordHeader, values)
           bodyA == PackFields(headA, layout, r.body)
           bodyB == PackFields(headB, layout, r.body)
<1>1. headB.ok /\ bodyB.ok /\ PackRecord(b, r) = FixLength(headB, bodyB)
  BY RecordParts
<1>2. five \in Nat /\ Len(RecordHeader) = five /\ FieldsFit(values, RecordHeader, five)
  BY LayoutLengths DEF RecordFits
<1>3. n \in Nat /\ Len(layout) = n /\ FieldsFit(r.body, layout, n)
  BY BodyLayout DEF RecordFits
<1>4. PackRecord(a, r) = FixLength(headA, bodyA)
  BY DEF PackRecord, PackBody, HeaderValues
<1> HIDE DEF five, values, layout, n
<1>5. Packing(headB, hb)
  BY <1>1, <1>2, FieldsPacking
<1>6. FieldsFollowed(a, ha, b, RecordHeader, values)
  BY <1>1, <1>2, FieldsFollow
<1>7. Packing(headA, ha) /\ Follow(a, b, headA, headB) /\ Trails(headA, headB)
  BY <1>6 DEF FieldsFollowed, Follow
<1> HIDE DEF headA, headB
<1>8. Packing(bodyB, hb)
  BY <1>1, <1>3, <1>5, FieldsPacking
<1>9. FieldsFollowed(headA, ha, headB, layout, r.body)
  BY <1>1, <1>3, <1>5, <1>7, FieldsFollow
<1>10. bodyA.ok /\ Packing(bodyA, ha) /\ Follow(headA, headB, bodyA, bodyB)
  BY <1>9 DEF FieldsFollowed
<1> HIDE DEF bodyA, bodyB
<1>11. bodyA \in Outs /\ bodyB \in Outs
  BY <1>8, <1>10 DEF Packing
<1>12. FixLength(headB, bodyB).ok
  BY <1>1
<1>13. FixLength(headA, bodyA).ok /\ Follow(a, b, FixLength(headA, bodyA), FixLength(headB, bodyB))
  BY <1>1, <1>7, <1>10, <1>11, <1>12, FixFollows
<1> QED
  BY <1>1, <1>4, <1>13

(* The recursion of PackEntries, and what it computes entry by entry.         *)
EntriesStep(out, entries, k, f) ==
    [i \in 0 .. k |-> IF i = 0 THEN out ELSE PackItem(f[i - 1], entries[i].section, entries[i].item)]

EntriesRun(out, entries, k, f) ==
    f[0] = out /\ \A i \in 1 .. k : f[i] = PackItem(f[i - 1], entries[i].section, entries[i].item)

(* There is a function that the recursion of PackEntries defines.           *)
LEMMA EntriesRunExists ==
    ASSUME NEW out, NEW entries, NEW n \in Nat
    PROVE  \E f : f = EntriesStep(out, entries, n, f)
<1> DEFINE S == {k \in 0 .. n : \E f : f = EntriesStep(out, entries, k, f)}
<1>1. 0 \in S
  <2> DEFINE f == [i \in 0 .. 0 |-> out]
  <2>1. f = EntriesStep(out, entries, 0, f)
    <3>1. \A i \in 0 .. 0 : i = 0
      OBVIOUS
    <3> QED
      BY <3>1 DEF EntriesStep
  <2> HIDE DEF f
  <2>2. 0 \in 0 .. n
    OBVIOUS
  <2> QED
    BY <2>1, <2>2
<1>2. ASSUME NEW k \in 0 .. n - 1, k \in S PROVE k + 1 \in S
  <2>1. PICK f : f = EntriesStep(out, entries, k, f)
    BY <1>2
  <2> DEFINE j == k + 1
             g == [i \in 0 .. j |-> IF i = j THEN PackItem(f[k], entries[j].section, entries[j].item) ELSE f[i]]
             h == EntriesStep(out, entries, j, g)
  <2>2. k \in Nat /\ j \in 0 .. n /\ j \in Nat /\ j - 1 = k /\ j # 0
    OBVIOUS
  <2>3. h = [i \in 0 .. j |-> IF i = 0 THEN out ELSE PackItem(g[i - 1], entries[i].section, entries[i].item)]
    BY DEF EntriesStep
  <2>4. \A i \in 0 .. k : f[i] = IF i = 0 THEN out ELSE PackItem(f[i - 1], entries[i].section, entries[i].item)
    BY <2>1 DEF EntriesStep
  <2>5. ASSUME NEW i \in 0 .. j PROVE g[i] = h[i]
    <3> HIDE DEF j, h
    <3>1. CASE i = 0
      <4>1. i # j /\ i \in 0 .. k
        BY <2>2, <3>1
      <4>2. g[i] = f[i] /\ f[i] = out
        BY <2>4, <3>1, <4>1
      <4>3. h[i] = out
        BY <2>3, <3>1
      <4> QED
        BY <4>2, <4>3
    <3>2. CASE i # 0 /\ i # j
      <4>1. i \in 0 .. k /\ i - 1 \in 0 .. j /\ i - 1 # j
        BY <2>2, <3>2
      <4>2. g[i] = f[i] /\ g[i - 1] = f[i - 1]
        BY <3>2, <4>1
      <4>3. f[i] = PackItem(f[i - 1], entries[i].section, entries[i].item)
        BY <2>4, <3>2, <4>1
      <4>4. h[i] = PackItem(g[i - 1], entries[i].section, entries[i].item)
        BY <2>3, <3>2
      <4> QED
        BY <4>2, <4>3, <4>4
    <3>3. CASE i = j
      <4>1. i - 1 = k /\ k \in 0 .. j /\ k # j /\ i # 0
        BY <2>2, <3>3
      <4>2. g[k] = f[k] /\ g[i] = PackItem(f[k], entries[j].section, entries[j].item)
        BY <3>3, <4>1
      <4>3. h[i] = PackItem(g[i - 1], entries[i].section, entries[i].item)
        BY <2>3, <4>1
      <4> QED
        BY <3>3, <4>1, <4>2, <4>3
    <3> QED
      BY <3>1, <3>2, <3>3
  <2>6. g = h
    <3> HIDE DEF j
    <3>1. g = [i \in 0 .. j |-> g[i]] /\ h = [i \in 0 .. j |-> h[i]]
      BY DEF EntriesStep
    <3> HIDE DEF g, h
    <3>2. [i \in 0 .. j |-> g[i]] = [i \in 0 .. j |-> h[i]]
      BY <2>5
    <3> QED
      BY <3>1, <3>2
  <2>7. \E e : e = EntriesStep(out, entries, j, e)
    <3> HIDE DEF g, j
    <3> QED
      BY <2>6
  <2> QED
    BY <2>2, <2>7
<1> HIDE DEF S
<1>3. 0 .. n \subseteq S
  BY <1>1, <1>2, UpToBound
<1>4. n \in S
  BY <1>3
<1> QED
  BY <1>4 DEF S

(* PackEntries is the last step of that recursion.                          *)
LEMMA PackEntriesIs ==
    ASSUME NEW out, NEW entries, NEW n \in Nat, Len(entries) = n
    PROVE  \E f : EntriesRun(out, entries, n, f) /\ PackEntries(out, entries) = f[n]
<1> DEFINE g == CHOOSE f : f = EntriesStep(out, entries, n, f)
<1>1. g = EntriesStep(out, entries, n, g)
  BY EntriesRunExists
<1>2. PackEntries(out, entries) = g[n]
  BY DEF PackEntries, EntriesStep
<1> HIDE DEF g
<1>3. 0 \in 0 .. n /\ \A i \in 1 .. n : i \in 0 .. n /\ i # 0
  OBVIOUS
<1>4. EntriesRun(out, entries, n, g)
  BY <1>1, <1>3 DEF EntriesRun, EntriesStep
<1> QED
  BY <1>2, <1>4

(* One entry more is packed after the others.                                *)
LEMMA PackOneMore ==
    ASSUME NEW out, NEW items, NEW n, NEW entry, NEW more, Joined(items, n, entry, more)
    PROVE  PackEntries(out, more) = PackItem(PackEntries(out, items), entry.section, entry.item)
<1> DEFINE j == n + 1
<1>1. n \in Nat /\ Len(items) = n /\ Len(more) = j /\ more[j] = entry
      /\ \A i \in 1 .. n : more[i] = items[i]
  BY DEF Joined
<1>2. j \in Nat /\ j \in 1 .. j /\ j - 1 = n /\ \A i \in 1 .. n : i \in 1 .. j
  BY <1>1
<1> HIDE DEF j
<1>3. PICK f : EntriesRun(out, items, n, f) /\ PackEntries(out, items) = f[n]
  BY <1>1, PackEntriesIs
<1>4. PICK g : EntriesRun(out, more, j, g) /\ PackEntries(out, more) = g[j]
  BY <1>1, <1>2, PackEntriesIs
<1> DEFINE S == {i \in 0 .. n : f[i] = g[i]}
<1>5. 0 \in S
  BY <1>1, <1>3, <1>4 DEF EntriesRun
<1>6. ASSUME NEW d \in 0 .. n - 1, d \in S PROVE d + 1 \in S
  <2>1. PICK i \in 1 .. n : i = d + 1 /\ i - 1 = d /\ i \in 0 .. n
    <3>1. d + 1 \in 1 .. n /\ (d + 1) - 1 = d /\ d + 1 \in 0 .. n
      BY <1>1
    <3> QED
      BY <3>1
  <2>2. f[i] = PackItem(f[d], items[i].section, items[i].item)
    BY <1>3, <2>1 DEF EntriesRun
  <2>3. g[i] = PackItem(g[d], more[i].section, more[i].item)
    BY <1>2, <1>4, <2>1 DEF EntriesRun
  <2>4. f[d] = g[d]
    BY <1>6
  <2>5. f[i] = g[i]
    BY <1>1, <2>2, <2>3, <2>4
  <2> QED
    BY <2>1, <2>5
<1> HIDE DEF S
<1>7. n \in S
  <2>1. 0 .. n \subseteq S
    BY <1>1, <1>5, <1>6, UpToBound
  <2>2. n \in 0 .. n
    BY <1>1
  <2> QED
    BY <2>1, <2>2
<1>8. g[j] = PackItem(g[n], entry.section, entry.item)
  BY <1>1, <1>2, <1>4 DEF EntriesRun
<1> QED
  BY <1>3, <1>4, <1>7, <1>8 DEF S

(* No entries.                                                              *)
LEMMA PackNoEntries ==
    ASSUME NEW out
    PROVE  PackEntries(out, <<>>) = out
<1> DEFINE none == <<>>
           zero == 0
<1>1. zero \in Nat /\ Len(none) = zero
  OBVIOUS
<1> HIDE DEF none, zero
<1>2. PICK f : EntriesRun(out, none, zero, f) /\ PackEntries(out, none) = f[zero]
  BY <1>1, PackEntriesIs
<1> QED
  BY <1>2 DEF EntriesRun, none, zero

(* A message that is packed in one go, as AppendPack does, with the counts of  *)
(* its header.                                                             *)
Fresh(head, counts) == [EnableCompression(NewBuilder(<<>>, head)) EXCEPT !.counts = counts]
Again(head, counts, items) == PackEntries(Fresh(head, counts), items)

(* What packing entries in one go comes to, for these counts in the header. *)
PackedAgain(a, head, counts, items) ==
    /\ Packing(a, HeaderHole) /\ a.start = 0 /\ a.head = head /\ a.counts = counts
    /\ Lies(a, items)

(* The message before the first entry.                                      *)
LEMMA FreshStands ==
    ASSUME NEW head \in MessageHeads, NEW counts \in [Sections -> Nat]
    PROVE  /\ PackedAgain(Fresh(head, counts), head, counts, <<>>)
           /\ Len(Fresh(head, counts).msg) = 12 /\ Fresh(head, counts).compress = TRUE
           /\ DOMAIN Fresh(head, counts).suffixes = {}
<1> DEFINE none == <<>>
           first == NewBuilder(none, head)
           second == EnableCompression(first)
           a == Fresh(head, counts)
           holes == HeaderHole
<1>1. none \in Bytes /\ Len(none) = 0
  BY DEF Bytes
<1> HIDE DEF none
<1>2. Packing(first, holes) /\ Size(first) = 12
  BY <1>1, NewBuilderStands
<1>3. first.start = 0 /\ first.head = head
  BY <1>1 DEF NewBuilder
<1> HIDE DEF first, holes
<1>4. Packing(second, holes)
  BY <1>2, CompressStands
<1>5. /\ second.start = 0 /\ second.head = head /\ second.msg = first.msg /\ second.compress = TRUE
      /\ second.suffixes = NoSuffixes
  <2>1. first \in Outs
    BY <1>2 DEF Packing
  <2> QED
    BY <1>3, <2>1 DEF EnableCompression, Outs
<1>6. a = [second EXCEPT !.counts = counts]
  BY DEF Fresh, first, none
<1> HIDE DEF second, a
<1>7. second \in Outs /\ second.ok
  BY <1>4 DEF Packing
<1>8. /\ a \in Outs /\ a.msg = second.msg /\ a.start = second.start /\ a.suffixes = second.suffixes /\ a.ok
      /\ a.head = second.head /\ a.counts = counts /\ a.compress = second.compress
  BY <1>6, <1>7 DEF Outs
<1>9. Packing(a, holes) /\ Size(a) = Size(second)
  BY <1>4, <1>8, OtherParts
<1>10. Size(a) = 12
  BY <1>2, <1>3, <1>5, <1>9 DEF Size
<1>11. Len(a.msg) = 12
  <2> DEFINE l == Len(a.msg)
  <2>1. l = a.start + Size(a)
    BY <1>9, SizeIs
  <2> QED
    BY <1>5, <1>8, <1>10, <2>1
<1>12. DOMAIN a.suffixes = {}
  BY <1>5, <1>8 DEF NoSuffixes
<1>13. Lies(a, none)
  <2> DEFINE ends == [i \in 0 .. 0 |-> 12]
  <2>1. 0 \in 0 .. 0 /\ \A i \in 0 .. 0 : i = 0
    OBVIOUS
  <2>2. ends \in [0 .. 0 -> Nat] /\ ends[0] = 12 /\ \A i \in 0 .. 0 : ends[i] <= 12
    BY <2>1
  <2>3. \A i \in 1 .. 0 : FALSE
    OBVIOUS
  <2> HIDE DEF ends
  <2>4. Laid(a.msg, a.start, Size(a), none, 0, ends)
    BY <1>10, <2>2, <2>3 DEF Laid
  <2> QED
    BY <1>1, <2>4 DEF Lies
<1>14. PackedAgain(a, head, counts, none)
  BY <1>5, <1>8, <1>9, <1>13 DEF PackedAgain, holes
<1> QED
  BY <1>5, <1>8, <1>11, <1>12, <1>14 DEF a, none

(* The message as it would be packed again keeps to the front of the one that  *)
(* is being built, so it has room for every item that one has room for.       *)
PacksAgain(b, items) ==
    \A counts \in [Sections -> Nat] :
        /\ PackedAgain(Again(b.head, counts, items), b.head, counts, items)
        /\ b.section # SectionDone => Trails(Again(b.head, counts, items), b)

(* What is added with it to the inductive invariant of the builder.         *)
RepackHolds == ~ stale => PacksAgain(builder, built)

(* A new builder has nothing to pack.                                       *)
LEMMA NewPacksAgain ==
    ASSUME NEW buf \in Bytes, NEW head \in MessageHeads
    PROVE  PacksAgain(NewBuilder(buf, head), <<>>)
<1> DEFINE b == NewBuilder(buf, head)
           none == <<>>
<1>1. b.head = head /\ b.start = Len(buf) /\ DOMAIN b.suffixes = {}
  BY DEF NewBuilder, NoSuffixes
<1>2. Len(b.msg) \in Nat /\ 12 <= Len(b.msg) /\ b.start \in Nat
  <2> DEFINE holes == HeaderHole
             l == Len(b.msg)
             s == b.start
  <2>1. Packing(b, holes) /\ Size(b) = 12
    BY NewBuilderStands
  <2> HIDE DEF b, holes
  <2>2. l \in Nat /\ s \in Nat /\ l = s + 12
    BY <2>1, SizeIs
  <2> HIDE DEF l, s
  <2>3. l \in Nat /\ 12 <= l
    BY <2>2
  <2> QED
    BY <2>2, <2>3 DEF l, s
<1> HIDE DEF b, none
<1> SUFFICES ASSUME NEW counts \in [Sections -> Nat]
             PROVE  PackedAgain(Again(b.head, counts, none), b.head, counts, none) /\ Trails(Again(b.head, counts, none), b)
  BY DEF PacksAgain, b, none
<1> DEFINE a == Fresh(head, counts)
<1>3. Again(b.head, counts, none) = a
  BY <1>1, PackNoEntries DEF Again, none
<1>4. PackedAgain(a, head, counts, none) /\ Len(a.msg) = 12 /\ a.compress = TRUE /\ DOMAIN a.suffixes = {}
  BY FreshStands DEF none
<1> HIDE DEF a
<1>5. Closed(a)
  BY <1>4 DEF Closed
<1>6. Trails(a, b)
  BY <1>1, <1>2, <1>4, <1>5 DEF Trails, PackedAgain
<1> QED
  BY <1>1, <1>3, <1>4, <1>6

(* Calls that change the message in nothing but what is known of its suffixes. *)
LEMMA SamePacksAgain ==
    ASSUME NEW b, NEW items, PacksAgain(b, items), NEW new, new.head = b.head,
           new.section # SectionDone => /\ b.section # SectionDone
                                        /\ new.msg = b.msg /\ new.start = b.start
                                        /\ DOMAIN new.suffixes \subseteq DOMAIN b.suffixes
    PROVE  PacksAgain(new, items)
<1> SUFFICES ASSUME NEW counts \in [Sections -> Nat]
             PROVE  /\ PackedAgain(Again(new.head, counts, items), new.head, counts, items)
                    /\ new.section # SectionDone => Trails(Again(new.head, counts, items), new)
  BY DEF PacksAgain
<1> DEFINE a == Again(b.head, counts, items)
<1>1. PackedAgain(a, b.head, counts, items) /\ (b.section # SectionDone => Trails(a, b))
  BY DEF PacksAgain
<1> HIDE DEF a
<1>2. new.section # SectionDone => Trails(a, new)
  BY <1>1 DEF Trails
<1> QED
  BY <1>1, <1>2 DEF a

(* An entry that is packed after those there are.                            *)
LEMMA LiesMore ==
    ASSUME NEW a, NEW head, NEW counts, NEW items \in Seq(BuiltEntries), PackedAgain(a, head, counts, items),
           NEW entry \in BuiltEntries, NEW new, Packing(new, HeaderHole), Extends(new, a),
           ItemStands(new.msg, new.start, entry, Size(a), Size(new))
    PROVE  PackedAgain(new, head, counts, items \o <<entry>>)
<1> DEFINE n == Len(items)
           more == items \o <<entry>>
           holes == HeaderHole
           V == BuiltEntries
<1>1. Joined(items, n, entry, more)
  <2>1. items \in Seq(V) /\ entry \in V
    OBVIOUS
  <2> HIDE DEF V
  <2> QED
    BY <2>1, JoinedIs
<1>2. Packing(a, holes) /\ Packing(new, holes) /\ Lies(a, items)
  BY DEF PackedAgain
<1> HIDE DEF holes
<1>3. Size(a) \in Nat /\ Size(new) \in Nat /\ Size(a) <= Size(new)
  BY <1>2, ExtendsSize
<1>4. Continues(new.msg, a.msg, a.start, Size(a))
  BY <1>2, ExtendsContinues
<1>5. PICK ends : Laid(a.msg, a.start, Size(a), items, n, ends)
  BY <1>2 DEF Lies
<1>6. new.start = a.start /\ new.head = a.head /\ new.counts = a.counts
  BY DEF Extends
<1>7. Len(more) = n + 1
  BY <1>1 DEF Joined
<1>8. Lies(new, more)
  <2> DEFINE u == a.msg
             v == new.msg
             s == a.start
             z == Size(a)
             y == Size(new)
  <2>1. /\ z \in Nat /\ Laid(u, s, z, items, n, ends) /\ Continues(v, u, s, z)
        /\ y \in Nat /\ z <= y /\ ItemStands(v, s, entry, z, y)
    BY <1>3, <1>4, <1>5, <1>6
  <2> HIDE DEF u, v, s, z, y, more, n
  <2>2. \E e : Laid(v, s, y, more, n + 1, e)
    BY <1>1, <2>1, LaidMore
  <2> QED
    BY <1>6, <1>7, <2>2 DEF Lies, v, s, y
<1> QED
  BY <1>6, <1>8 DEF PackedAgain

(* What packing an entry comes to in both messages.                          *)
GoesAgain(a, b, entry, packed, a2) ==
    /\ Packing(a2, HeaderHole) /\ Extends(a2, a) /\ Follow(a, b, a2, packed)
    /\ ItemStands(a2.msg, a2.start, entry, Size(a), Size(a2))

(* A question that has been added, packed again.                            *)
LEMMA QuestionAgain ==
    ASSUME NEW b, Packing(b, HeaderHole), NEW q, q = Firsts(q, 3), QuestionFits(q), PackQuestion(b, q).ok,
           NEW entry, entry.section = Questions, entry.item = q, NEW a, Packing(a, HeaderHole), Trails(a, b)
    PROVE  GoesAgain(a, b, entry, PackQuestion(b, q), PackItem(a, entry.section, entry.item))
<1> DEFINE a2 == PackQuestion(a, q)
           b2 == PackQuestion(b, q)
           holes == HeaderHole
<1>1. PackItem(a, entry.section, entry.item) = a2
  BY DEF PackItem, Packing
<1>2. Packing(a, holes) /\ Packing(b, holes)
  OBVIOUS
<1> HIDE DEF holes
<1>3. a2.ok /\ Follow(a, b, a2, b2)
  BY <1>2, QuestionFollows
<1>4. Packing(a2, holes) /\ Extends(a2, a)
  BY <1>2, <1>3, PackQuestionStands
<1>5. a2 = PackQuestion(a, q)
  OBVIOUS
<1> HIDE DEF a2
<1>6. ItemStands(a2.msg, a2.start, entry, Size(a), Size(a2))
  BY <1>3, <1>5, QuestionStands
<1> QED
  BY <1>1, <1>3, <1>4, <1>6 DEF GoesAgain, holes

(* A record that has been added, packed again.                              *)
LEMMA RecordAgain ==
    ASSUME NEW b, Packing(b, HeaderHole), NEW r, IsRecord(r), RecordFits(r), PackRecord(b, r).ok,
           NEW entry, entry.section # Questions, entry.item = r, NEW a, Packing(a, HeaderHole), Trails(a, b)
    PROVE  GoesAgain(a, b, entry, PackRecord(b, r), PackItem(a, entry.section, entry.item))
<1> DEFINE a2 == PackRecord(a, r)
           b2 == PackRecord(b, r)
           holes == HeaderHole
<1>1. PackItem(a, entry.section, entry.item) = a2
  BY DEF PackItem, Packing
<1>2. Packing(a, holes) /\ Packing(b, holes)
  OBVIOUS
<1> HIDE DEF holes
<1>3. a2.ok /\ Follow(a, b, a2, b2)
  BY <1>2, RecordFollows
<1>4. Packing(a2, holes) /\ Extends(a2, a)
  BY <1>2, <1>3, PackRecordStands
<1>5. a2 = PackRecord(a, r)
  OBVIOUS
<1> HIDE DEF a2
<1>6. ItemStands(a2.msg, a2.start, entry, Size(a), Size(a2))
  BY <1>3, <1>5, PackedRecordStands
<1> QED
  BY <1>1, <1>3, <1>4, <1>6 DEF GoesAgain, holes

(* One entry more.                                                          *)
LEMMA MorePacksAgain ==
    ASSUME NEW b, NEW items \in Seq(BuiltEntries), PacksAgain(b, items), b.section # SectionDone,
           NEW entry \in BuiltEntries, NEW packed \in Outs,
           \A a : Packing(a, HeaderHole) /\ Trails(a, b)
                     => GoesAgain(a, b, entry, packed, PackItem(a, entry.section, entry.item)),
           NEW new, ItemCounted(b, packed, new), packed.head = b.head
    PROVE  PacksAgain(new, items \o <<entry>>)
<1> DEFINE more == items \o <<entry>>
<1>1. new.msg = packed.msg /\ new.start = packed.start /\ new.suffixes = packed.suffixes /\ new.head = b.head
  BY DEF ItemCounted, Outs
<1>2. Joined(items, Len(items), entry, more)
  <2> DEFINE V == BuiltEntries
  <2>1. items \in Seq(V) /\ entry \in V
    OBVIOUS
  <2> HIDE DEF V
  <2> QED
    BY <2>1, JoinedIs
<1> SUFFICES ASSUME NEW counts \in [Sections -> Nat]
             PROVE  PackedAgain(Again(b.head, counts, more), b.head, counts, more) /\ Trails(Again(b.head, counts, more), new)
  BY <1>1 DEF PacksAgain
<1> DEFINE a == Again(b.head, counts, items)
           a2 == PackItem(a, entry.section, entry.item)
<1>3. PackedAgain(a, b.head, counts, items) /\ Trails(a, b)
  BY DEF PacksAgain
<1>4. Again(b.head, counts, more) = a2
  BY <1>2, PackOneMore DEF Again
<1> HIDE DEF a
<1>5. Packing(a, HeaderHole)
  BY <1>3 DEF PackedAgain
<1>6. GoesAgain(a, b, entry, packed, a2)
  BY <1>3, <1>5
<1> HIDE DEF a2, more
<1>7. PackedAgain(a2, b.head, counts, more)
  BY <1>3, <1>6, LiesMore DEF GoesAgain, more
<1>8. Trails(a2, new)
  BY <1>1, <1>6 DEF GoesAgain, Follow, Trails
<1> QED
  BY <1>4, <1>7, <1>8

(* A call of the builder that succeeds or changes nothing.                  *)
LEMMA CallAgain ==
    ASSUME BuilderHolds, RepackHolds, NEW b, NEW items, Call(b, items),
           ~ stale => \/ b.ok /\ b \in Outs /\ PacksAgain(b, built \o items)
                      \/ Failed(builder, b) /\ ~ b.ok
    PROVE  RepackHolds'
<1> SUFFICES ASSUME ~ stale' PROVE PacksAgain(builder', built')
  BY DEF RepackHolds
<1>1. /\ builder' = [b EXCEPT !.ok = TRUE]
      /\ built' = IF b.ok THEN built \o items ELSE built
      /\ stale' = IF b.ok THEN stale ELSE (stale \/ b.suffixes # builder.suffixes)
  BY DEF Call
<1>2. ~ stale
  BY <1>1
<1>3. builder \in Outs /\ builder.ok /\ PacksAgain(builder, built)
  BY <1>2 DEF BuilderHolds, Packing, RepackHolds
<1>4. CASE b.ok /\ b \in Outs /\ PacksAgain(b, built \o items)
  <2>1. builder' = b /\ built' = built \o items
    BY <1>1, <1>4, OkIsTrue
  <2> QED
    BY <1>4, <2>1
<1>5. CASE Failed(builder, b) /\ ~ b.ok
  <2>1. b.suffixes = builder.suffixes
    BY <1>1, <1>5
  <2>2. builder' = builder /\ built' = built
    BY <1>1, <1>3, <1>5, <2>1, FailedCall
  <2> QED
    BY <1>3, <2>2
<1> QED
  BY <1>2, <1>4, <1>5

(* Switching compression on.                                                *)
LEMMA CompressAgain ==
    ASSUME NEW b, Packing(b, HeaderHole), NEW items, PacksAgain(b, items)
    PROVE  LET new == EnableCompression(b) IN new.ok /\ new \in Outs /\ PacksAgain(new, items)
<1> DEFINE new == EnableCompression(b)
<1>1. new = [b EXCEPT !.compress = TRUE, !.suffixes = NoSuffixes]
  BY DEF EnableCompression
<1>2. Packing(new, HeaderHole) /\ b \in Outs
  BY CompressStands DEF Packing
<1> HIDE DEF new
<1>3. /\ new.msg = b.msg /\ new.start = b.start /\ new.head = b.head /\ new.section = b.section
      /\ new.suffixes = NoSuffixes
  BY <1>1, <1>2 DEF Outs
<1>4. DOMAIN new.suffixes \subseteq DOMAIN b.suffixes
  BY <1>3 DEF NoSuffixes
<1>5. PacksAgain(new, items)
  BY <1>3, <1>4, SamePacksAgain
<1>6. new.ok /\ new \in Outs /\ PacksAgain(new, items)
  BY <1>2, <1>5 DEF Packing
<1> QED
  BY <1>6 DEF new

(* Starting a section.                                                      *)
LEMMA StartAgain ==
    ASSUME NEW b, Packing(b, HeaderHole), b.section # SectionDone, NEW items, PacksAgain(b, items),
           NEW section \in Sections, NEW new, new = StartSection(b, section)
    PROVE  \/ new.ok /\ new \in Outs /\ PacksAgain(new, items)
           \/ Failed(b, new) /\ ~ new.ok
<1>1. CASE Failed(b, new) /\ ~ new.ok
  BY <1>1
<1>2. CASE new = [b EXCEPT !.section = section] /\ Packing(new, HeaderHole)
  <2>1. new \in Outs /\ new.ok /\ b \in Outs
    BY <1>2 DEF Packing
  <2>2. new.msg = b.msg /\ new.start = b.start /\ new.head = b.head /\ new.suffixes = b.suffixes
    BY <1>2, <2>1 DEF Outs
  <2>3. PacksAgain(new, items)
    BY <2>2, SamePacksAgain
  <2> QED
    BY <2>1, <2>3
<1>3. \/ Failed(b, new) /\ ~ new.ok
      \/ new = [b EXCEPT !.section = section] /\ Packing(new, HeaderHole)
  <2>1. \/ /\ StartSection(b, section) = [b EXCEPT !.section = section]
           /\ Packing([b EXCEPT !.section = section], HeaderHole)
        \/ Failed(b, StartSection(b, section)) /\ ~ StartSection(b, section).ok
    BY StartSectionIs
  <2> QED
    BY <2>1
<1> QED
  BY <1>1, <1>2, <1>3

(* Finishing the message.                                                   *)
LEMMA FinishAgain ==
    ASSUME NEW b, Packing(b, HeaderHole), NEW items, PacksAgain(b, items), NEW new, new = Finish(b)
    PROVE  new.ok /\ new \in Outs /\ PacksAgain(new, items)
<1>1. Packing(new, HeaderHole) /\ new.section = SectionDone /\ new.head = b.head
  BY FinishIs
<1>2. PacksAgain(new, items)
  BY <1>1, SamePacksAgain
<1> QED
  BY <1>1, <1>2 DEF Packing

(* What it takes for an entry that has been packed to be counted.            *)
LEMMA AddedAgain ==
    ASSUME NEW b, Packing(b, HeaderHole), b.section \in Sections, NEW items \in Seq(BuiltEntries),
           PacksAgain(b, items), NEW entry \in BuiltEntries,
           NEW packed, Packing(packed, HeaderHole), Extends(packed, b),
           NEW new, ItemCounted(b, packed, new),
           \A a : Packing(a, HeaderHole) /\ Trails(a, b)
                     => GoesAgain(a, b, entry, packed, PackItem(a, entry.section, entry.item))
    PROVE  new.ok /\ new \in Outs /\ PacksAgain(new, items \o <<entry>>)
<1>1. Packing(new, HeaderHole)
  BY CountedStands DEF Packing
<1>2. packed \in Outs /\ packed.head = b.head /\ b.section # SectionDone
  BY SectionsAre DEF Extends, SectionDone
<1>3. PacksAgain(new, items \o <<entry>>)
  BY <1>2, MorePacksAgain
<1> QED
  BY <1>1, <1>3 DEF Packing

(* Adding a question.                                                       *)
LEMMA QuestionsAgain ==
    ASSUME Packing(builder, HeaderHole), built \in Seq(BuiltEntries), PacksAgain(builder, built),
           NEW q \in QuestionItems, NEW b, QuestionAdded(builder, q, b)
    PROVE  b.ok /\ b \in Outs /\ PacksAgain(b, built \o Entry(q))
<1> DEFINE packed == PackQuestion(builder, q)
           entry == [section |-> Questions, item |-> q]
<1>1. /\ builder.section = Questions /\ packed.ok
      /\ Packing(packed, HeaderHole) /\ Extends(packed, builder) /\ ItemCounted(builder, packed, b)
  BY DEF QuestionAdded
<1>2. entry \in BuiltEntries /\ Entry(q) = <<entry>> /\ entry.section = Questions /\ entry.item = q
  BY <1>1, EntryIs
<1>3. builder.section \in Sections
  BY <1>1, SectionsAre
<1>4. QuestionFits(q) /\ q = Firsts(q, 3)
  BY ItemsFit, ItemsAre
<1> HIDE DEF entry
<1>5. \A a : Packing(a, HeaderHole) /\ Trails(a, builder)
                => GoesAgain(a, builder, entry, packed, PackItem(a, entry.section, entry.item))
  BY <1>1, <1>2, <1>4, QuestionAgain
<1> HIDE DEF packed
<1>6. b.ok /\ b \in Outs /\ PacksAgain(b, built \o <<entry>>)
  BY <1>1, <1>2, <1>3, <1>5, AddedAgain
<1> QED
  BY <1>2, <1>6

(* Adding a record.                                                         *)
LEMMA RecordsAgain ==
    ASSUME Packing(builder, HeaderHole), built \in Seq(BuiltEntries), PacksAgain(builder, built),
           NEW r \in RecordItems, NEW b, RecordAdded(builder, r, b)
    PROVE  b.ok /\ b \in Outs /\ PacksAgain(b, built \o Entry(r))
<1> DEFINE packed == PackRecord(builder, r)
           entry == [section |-> builder.section, item |-> r]
<1>1. /\ builder.section \in RecordSections /\ packed.ok
      /\ Packing(packed, HeaderHole) /\ Extends(packed, builder) /\ ItemCounted(builder, packed, b)
  BY DEF RecordAdded
<1>2. entry \in BuiltEntries /\ Entry(r) = <<entry>> /\ entry.section = builder.section /\ entry.item = r
  BY <1>1, EntryIs
<1>3. builder.section \in Sections /\ builder.section # Questions
  BY <1>1, SectionsAre
<1>4. RecordFits(r) /\ IsRecord(r)
  BY ItemsFit, ItemsAre
<1> HIDE DEF entry
<1>5. \A a : Packing(a, HeaderHole) /\ Trails(a, builder)
                => GoesAgain(a, builder, entry, packed, PackItem(a, entry.section, entry.item))
  BY <1>1, <1>2, <1>3, <1>4, RecordAgain
<1> HIDE DEF packed
<1>6. b.ok /\ b \in Outs /\ PacksAgain(b, built \o <<entry>>)
  BY <1>1, <1>2, <1>3, <1>5, AddedAgain
<1> QED
  BY <1>2, <1>6

(* A new builder.                                                           *)
LEMMA InitAgain == Init => RepackHolds
<1> SUFFICES ASSUME Init PROVE RepackHolds
  OBVIOUS
<1>1. PICK buf \in Buffers, head \in Headers : builder = NewBuilder(buf, head)
  BY DEF Init
<1>2. buf \in Bytes /\ head \in MessageHeads
  BY InputAssumption
<1>3. PacksAgain(builder, <<>>)
  BY <1>1, <1>2, NewPacksAgain
<1> QED
  BY <1>3 DEF RepackHolds, Init

(* Each call of the builder leaves a message that can be packed again.       *)
LEMMA BuildingAgain == BuilderHolds /\ RepackHolds /\ [Next]_vars => RepackHolds'
<1> SUFFICES ASSUME BuilderHolds, RepackHolds, [Next]_vars PROVE RepackHolds'
  OBVIOUS
<1>1. ~ stale => /\ Packing(builder, HeaderHole) /\ built \in Seq(BuiltEntries)
                 /\ PacksAgain(builder, built)
  BY DEF BuilderHolds, HoldsItems, RepackHolds
<1> DEFINE none == <<>>
<1>2. ~ stale => built \o none = built
  <2> DEFINE V == BuiltEntries
  <2>1. built \in Seq(V) => built \o none = built
    BY NoneJoined
  <2> QED
    BY <1>1, <2>1
<1> HIDE DEF none
<1>3. CASE Compress
  <2> DEFINE b == EnableCompression(builder)
  <2>1. Call(b, none)
    BY <1>3 DEF Compress, none
  <2>2. ~ stale => b.ok /\ b \in Outs /\ PacksAgain(b, built)
    BY <1>1, CompressAgain
  <2> HIDE DEF b
  <2>3. ~ stale => b.ok /\ b \in Outs /\ PacksAgain(b, built \o none)
    BY <1>2, <2>2
  <2> QED
    BY <2>1, <2>3, CallAgain
<1>4. ASSUME NEW section \in Sections, Start(section) PROVE RepackHolds'
  <2> DEFINE b == StartSection(builder, section)
  <2>1. Call(b, none) /\ builder.section # SectionDone
    BY <1>4 DEF Start, Call, Building, none
  <2>2. ~ stale => \/ b.ok /\ b \in Outs /\ PacksAgain(b, built)
                   \/ Failed(builder, b) /\ ~ b.ok
    BY <1>1, <2>1, StartAgain
  <2> HIDE DEF b
  <2>3. ~ stale => \/ b.ok /\ b \in Outs /\ PacksAgain(b, built \o none)
                   \/ Failed(builder, b) /\ ~ b.ok
    BY <1>2, <2>2
  <2> QED
    BY <2>1, <2>3, CallAgain
<1>5. ASSUME NEW q \in QuestionItems, BuildQuestion(q) PROVE RepackHolds'
  <2> DEFINE b == AddQuestion(builder, q)
             items == Entry(q)
  <2>1. Call(b, items)
    BY <1>5 DEF BuildQuestion
  <2>2. ~ stale => QuestionAdded(builder, q, b) \/ (Failed(builder, b) /\ ~ b.ok)
    BY <1>1, ItemsFit, AddQuestionIs
  <2> HIDE DEF b
  <2>3. ~ stale /\ QuestionAdded(builder, q, b) => b.ok /\ b \in Outs /\ PacksAgain(b, built \o items)
    BY <1>1, QuestionsAgain
  <2> HIDE DEF items
  <2> QED
    BY <2>1, <2>2, <2>3, CallAgain
<1>6. ASSUME NEW r \in RecordItems, BuildResource(r) PROVE RepackHolds'
  <2> DEFINE b == AddResource(builder, r)
             items == Entry(r)
  <2>1. Call(b, items)
    BY <1>6 DEF BuildResource
  <2>2. ~ stale => RecordAdded(builder, r, b) \/ (Failed(builder, b) /\ ~ b.ok)
    BY <1>1, ItemsFit, AddResourceIs
  <2> HIDE DEF b
  <2>3. ~ stale /\ RecordAdded(builder, r, b) => b.ok /\ b \in Outs /\ PacksAgain(b, built \o items)
    BY <1>1, RecordsAgain
  <2> HIDE DEF items
  <2> QED
    BY <2>1, <2>2, <2>3, CallAgain
<1>7. CASE FinishMessage
  <2> DEFINE b == Finish(builder)
  <2>1. Call(b, none)
    BY <1>7 DEF FinishMessage, none
  <2>2. ~ stale => b.ok /\ b \in Outs /\ PacksAgain(b, built)
    BY <1>1, FinishAgain
  <2> HIDE DEF b
  <2>3. ~ stale => b.ok /\ b \in Outs /\ PacksAgain(b, built \o none)
    BY <1>2, <2>2
  <2> QED
    BY <2>1, <2>3, CallAgain
<1>8. CASE UNCHANGED <<builder, stale, built>>
  BY <1>8 DEF RepackHolds
<1>9. CASE UNCHANGED vars
  BY <1>8, <1>9 DEF vars
<1>10. ASSUME NEW lost \in Cuts, Arrive(lost) PROVE RepackHolds'
  BY <1>8, <1>10 DEF Arrive
<1>11. ASSUME NEW how, NEW p, Take(how, p) PROVE RepackHolds'
  BY <1>8, <1>11 DEF Take
<1>12. CASE TakeQuestion \/ PassQuestion
  BY <1>11, <1>12 DEF TakeQuestion, PassQuestion
<1>13. ASSUME NEW section \in RecordSections,
              TakeHeader(section) \/ TakeResource(section) \/ PassResource(section)
       PROVE  RepackHolds'
  BY <1>11, <1>13 DEF TakeHeader, TakeResource, PassResource
<1>14. ASSUME NEW type, TakeBody(type) PROVE RepackHolds'
  BY <1>11, <1>14 DEF TakeBody
<1>15. CASE TakeUnknown
  BY <1>11, <1>15 DEF TakeUnknown
<1> QED
  BY <1>3, <1>4, <1>5, <1>6, <1>7, <1>9, <1>10, <1>12, <1>13, <1>14, <1>15 DEF Next

(* What has been added can be packed in one go, with the compression on from   *)
(* the start: the message that comes out is never longer, so no name and no    *)
(* record that had room lacks it.                                           *)
LEMMA RepackAlwaysHolds == Spec => []RepackHolds
BY InitAgain, BuildingAgain, BuilderAlwaysHolds, PTL DEF Spec

(* What is left of a number of bits after some of them.                     *)
LEMMA Divided ==
    ASSUME NEW q \in Nat, NEW r \in Nat
    PROVE  /\ r < 32768 => (q * 32768 + r) \div 32768 = q
           /\ r < 2048 => (q * 2048 + r) \div 2048 = q
           /\ r < 1024 => (q * 1024 + r) \div 1024 = q
           /\ r < 512 => (q * 512 + r) \div 512 = q
           /\ r < 256 => (q * 256 + r) \div 256 = q
           /\ r < 128 => (q * 128 + r) \div 128 = q
<1>1. r < 32768 => (q * 32768 + r) \div 32768 = q
  OBVIOUS
<1>2. r < 2048 => (q * 2048 + r) \div 2048 = q
  OBVIOUS
<1>3. r < 1024 => (q * 1024 + r) \div 1024 = q
  OBVIOUS
<1>4. r < 512 => (q * 512 + r) \div 512 = q
  OBVIOUS
<1>5. r < 256 => (q * 256 + r) \div 256 = q
  OBVIOUS
<1>6. r < 128 => (q * 128 + r) \div 128 = q
  OBVIOUS
<1> QED
  BY <1>1, <1>2, <1>3, <1>4, <1>5, <1>6

(* A number of bits, from the first to the last of a header.                 *)
BitsSum(a, o, b, c, d, e, r) == o * 2048 + r + a * 32768 + b * 1024 + c * 512 + d * 256 + e * 128

BitsAre(v, a, o, b, c, d, e, r) ==
    /\ (v \div 32768) % 2 = a /\ (v \div 2048) % 16 = o /\ (v \div 1024) % 2 = b
    /\ (v \div 512) % 2 = c /\ (v \div 256) % 2 = d /\ (v \div 128) % 2 = e /\ v % 16 = r

(* Each bit is where it was put.                                            *)
LEMMA BitsComeBack ==
    ASSUME NEW a \in 0 .. 1, NEW o \in 0 .. 15, NEW b \in 0 .. 1, NEW c \in 0 .. 1, NEW d \in 0 .. 1, NEW e \in 0 .. 1,
           NEW r \in 0 .. 15
    PROVE  BitsAre(BitsSum(a, o, b, c, d, e, r), a, o, b, c, d, e, r)
<1> DEFINE v == o * 2048 + r + a * 32768 + b * 1024 + c * 512 + d * 256 + e * 128
<1>1. (v \div 32768) % 2 = a
  <2> DEFINE rest == o * 2048 + r + b * 1024 + c * 512 + d * 256 + e * 128
  <2>1. rest \in Nat /\ rest < 32768 /\ v = a * 32768 + rest
    OBVIOUS
  <2> HIDE DEF rest
  <2>2. v \div 32768 = a
    BY <2>1, Divided
  <2> QED
    BY <2>2
<1>2. (v \div 2048) % 16 = o
  <2> DEFINE rest == r + b * 1024 + c * 512 + d * 256 + e * 128
             q == a * 16 + o
  <2>1. rest \in Nat /\ rest < 2048 /\ q \in Nat /\ v = q * 2048 + rest
    OBVIOUS
  <2> HIDE DEF rest
  <2>2. v \div 2048 = q
    <3> HIDE DEF q
    <3> QED
      BY <2>1, Divided
  <2> QED
    BY <2>2
<1>3. (v \div 1024) % 2 = b
  <2> DEFINE rest == r + c * 512 + d * 256 + e * 128
             q == a * 32 + o * 2 + b
  <2>1. rest \in Nat /\ rest < 1024 /\ q \in Nat /\ v = q * 1024 + rest
    OBVIOUS
  <2> HIDE DEF rest
  <2>2. v \div 1024 = q
    <3> HIDE DEF q
    <3> QED
      BY <2>1, Divided
  <2> QED
    BY <2>2
<1>4. (v \div 512) % 2 = c
  <2> DEFINE rest == r + d * 256 + e * 128
             q == a * 64 + o * 4 + b * 2 + c
  <2>1. rest \in Nat /\ rest < 512 /\ q \in Nat /\ v = q * 512 + rest
    OBVIOUS
  <2> HIDE DEF rest
  <2>2. v \div 512 = q
    <3> HIDE DEF q
    <3> QED
      BY <2>1, Divided
  <2> QED
    BY <2>2
<1>5. (v \div 256) % 2 = d
  <2> DEFINE rest == r + e * 128
             q == a * 128 + o * 8 + b * 4 + c * 2 + d
  <2>1. rest \in Nat /\ rest < 256 /\ q \in Nat /\ v = q * 256 + rest
    OBVIOUS
  <2> HIDE DEF rest
  <2>2. v \div 256 = q
    <3> HIDE DEF q
    <3> QED
      BY <2>1, Divided
  <2> QED
    BY <2>2
<1>6. (v \div 128) % 2 = e
  <2> DEFINE q == a * 256 + o * 16 + b * 8 + c * 4 + d * 2 + e
  <2>1. r \in Nat /\ r < 128 /\ q \in Nat /\ v = q * 128 + r
    OBVIOUS
  <2>2. v \div 128 = q
    <3> HIDE DEF q
    <3> QED
      BY <2>1, Divided
  <2> QED
    BY <2>2
<1>7. v % 16 = r
  OBVIOUS
<1>8. BitsSum(a, o, b, c, d, e, r) = v
  BY DEF BitsSum
<1> HIDE DEF v
<1> QED
  BY <1>1, <1>2, <1>3, <1>4, <1>5, <1>6, <1>7, <1>8 DEF BitsAre

(* The flags of a header are the same when they have been packed and unpacked. *)
LEMMA FlagsComeBack == ASSUME NEW h \in HeaderFlags PROVE UnpackBits(PackBits(h)) = h
<1> DEFINE bit(x) == IF x THEN 1 ELSE 0
           a == bit(h.response)
           b == bit(h.authoritative)
           c == bit(h.truncated)
           d == bit(h.recursionDesired)
           e == bit(h.recursionAvailable)
           o == h.opCode
           r == h.rCode
           v == PackBits(h)
<1>1. /\ 2^15 = 32768 /\ 2^11 = 2048 /\ 2^10 = 1024 /\ 2^9 = 512 /\ 2^8 = 256 /\ 2^7 = 128
  OBVIOUS
<1>2. /\ h.response \in BOOLEAN /\ h.authoritative \in BOOLEAN /\ h.truncated \in BOOLEAN
      /\ h.recursionDesired \in BOOLEAN /\ h.recursionAvailable \in BOOLEAN
      /\ o \in 0 .. 15 /\ r \in 0 .. 15
  BY DEF HeaderFlags
<1>3. /\ \A x : bit(x) \in 0 .. 1
      /\ \A x : bit(x) = 1 <=> x
      /\ \A x, y : y \in Nat => Flag(x, y) = bit(x) * y
  BY DEF Flag
<1>4. v = o * 2048 + r + a * 32768 + b * 1024 + c * 512 + d * 256 + e * 128
  <2>1. v = o * 2048 + r + Flag(h.response, 32768) + Flag(h.authoritative, 1024) + Flag(h.truncated, 512)
            + Flag(h.recursionDesired, 256) + Flag(h.recursionAvailable, 128)
    BY <1>1 DEF PackBits
  <2> HIDE DEF v, bit
  <2> QED
    BY <1>3, <2>1
<1>5. /\ a \in 0 .. 1 /\ b \in 0 .. 1 /\ c \in 0 .. 1 /\ d \in 0 .. 1 /\ e \in 0 .. 1
      /\ (a = 1 <=> h.response) /\ (b = 1 <=> h.authoritative) /\ (c = 1 <=> h.truncated)
      /\ (d = 1 <=> h.recursionDesired) /\ (e = 1 <=> h.recursionAvailable)
  BY <1>3
<1> HIDE DEF a, b, c, d, e, v, o, r
<1>6. BitsAre(v, a, o, b, c, d, e, r)
  <2>1. v = BitsSum(a, o, b, c, d, e, r)
    BY <1>4 DEF BitsSum
  <2> QED
    BY <1>2, <1>5, <2>1, BitsComeBack
<1>7. UnpackBits(v) = [response |-> IsSet(v, 32768), opCode |-> (v \div 2048) % 16,
                       authoritative |-> IsSet(v, 1024), truncated |-> IsSet(v, 512),
                       recursionDesired |-> IsSet(v, 256), recursionAvailable |-> IsSet(v, 128),
                       rCode |-> v % 16]
  BY <1>1 DEF UnpackBits
<1>8. UnpackBits(v) = [response |-> a = 1, opCode |-> o, authoritative |-> b = 1, truncated |-> c = 1,
                       recursionDesired |-> d = 1, recursionAvailable |-> e = 1, rCode |-> r]
  BY <1>6, <1>7 DEF IsSet, BitsAre
<1>9. /\ h = [response |-> h.response, opCode |-> o, authoritative |-> h.authoritative,
              truncated |-> h.truncated, recursionDesired |-> h.recursionDesired,
              recursionAvailable |-> h.recursionAvailable, rCode |-> r]
  BY DEF HeaderFlags, o, r
<1>10. /\ (a = 1) = h.response /\ (b = 1) = h.authoritative /\ (c = 1) = h.truncated
       /\ (d = 1) = h.recursionDesired /\ (e = 1) = h.recursionAvailable
  BY <1>2, <1>5
<1>11. UnpackBits(v) = [response |-> h.response, opCode |-> o, authoritative |-> h.authoritative,
              truncated |-> h.truncated, recursionDesired |-> h.recursionDesired,
              recursionAvailable |-> h.recursionAvailable, rCode |-> r]
  BY <1>8, <1>10
<1> QED
  BY <1>9, <1>11 DEF v

(* All of a message, without what stands before it in the buffer.            *)
WholeOf(m, b) == m \in Bytes /\ Len(m) = Size(b) /\ \A x \in 1 .. Size(b) : m[x] = b.msg[b.start + x]

(* All of the message has arrived: no item is lost.                         *)
LEMMA WholeArrived ==
    ASSUME NEW b, Packing(b, HeaderHole), NEW items, HoldsItems(b, items),
           NEW n, NEW ends, ItemsLaid(b, items, n, ends), NEW m, WholeOf(m, b)
    PROVE  Arrived(m, b.counts, items, n, ends) /\ Ending(n, ends) /\ ends[n] = Len(m) /\ 12 <= Len(m)
<1> DEFINE size == Size(b)
           counts == b.counts
           u == b.msg
           a == b.start
<1>1. /\ n \in Nat /\ n = Len(items) /\ ends \in [0 .. n -> Nat] /\ ends[0] = 12 /\ ends[n] = size
      /\ \A i \in 0 .. n : ends[i] <= size
      /\ \A i \in 1 .. n : ItemStands(u, a, items[i], ends[i - 1], ends[i])
  BY DEF ItemsLaid, Laid
<1>2. items \in Seq(BuiltEntries) /\ Ordered(counts, items) /\ counts \in [Sections -> Nat]
  BY DEF HoldsItems, Packing, Outs
<1>3. m \in Bytes /\ Len(m) = size /\ \A x \in 1 .. size : m[x] = u[a + x]
  BY DEF WholeOf
<1> HIDE DEF size, u, a, counts
<1>4. size \in Nat /\ 0 \in 0 .. n
  BY <1>1, <1>3, LenProperties DEF Bytes
<1>5. ASSUME NEW i \in 1 .. n PROVE ItemThere(m, items[i], ends[i - 1], ends[i]) /\ i - 1 \in 0 .. n /\ i \in 0 .. n
  <2> DEFINE from == ends[i - 1]
             to == ends[i]
  <2>1. i \in 0 .. n /\ i - 1 \in 0 .. n
    BY <1>1
  <2>2. to \in Nat /\ to <= size
    BY <1>1, <2>1
  <2>3. ItemStands(u, a, items[i], from, to)
    BY <1>1
  <2> HIDE DEF from, to
  <2>4. 1 .. to \subseteq 1 .. size
    BY <1>4, <2>2
  <2>5. Agrees(m, to, HeaderHole, u, a)
    BY <1>3, <2>2, <2>4 DEF Agrees
  <2> QED
    BY <2>1, <2>3, <2>5 DEF ItemStands, from, to
<1>6. ASSUME NEW i \in 1 .. n, Len(m) < ends[i] PROVE FALSE
  <2> DEFINE to == ends[i]
  <2>1. to \in Nat /\ to <= size
    BY <1>1, <1>5
  <2> HIDE DEF to
  <2>2. ~ (size < to)
    BY <1>4, <2>1
  <2> QED
    BY <1>3, <1>6, <2>2 DEF to
<1>7. Arrived(m, counts, items, n, ends)
  BY <1>1, <1>2, <1>3, <1>5, <1>6 DEF Arrived
<1>8. Ending(n, ends)
  BY <1>1 DEF Ending
<1>9. 12 <= Len(m)
  BY <1>1, <1>3, <1>4
<1> QED
  BY <1>1, <1>3, <1>7, <1>8, <1>9 DEF counts

(* All of a message is unpacked to what it holds.                           *)
LEMMA WholeUnpacks ==
    ASSUME NEW b, Packing(b, HeaderHole), NEW items, HoldsItems(b, items), HeaderLaid(b), NEW m, WholeOf(m, b)
    PROVE  Unpack(m) = Found(Contents(b.head, b.counts, items), Len(m))
<1> DEFINE p == StartParser(m)
           counts == b.counts
           head == [id |-> b.head.id, flags |-> UnpackBits(PackBits(b.head.flags))]
<1>1. PICK n, ends : ItemsLaid(b, items, n, ends)
  BY DEF HoldsItems, Lies, ItemsLaid
<1>2. Arrived(m, counts, items, n, ends) /\ Ending(n, ends) /\ ends[n] = Len(m) /\ 12 <= Len(m)
  BY <1>1, WholeArrived
<1>3. BeginsLike(m, b) /\ b \in Outs
  <2>1. \A s \in Sections : b.counts[s] <= MaxCount
    BY DEF HoldsItems
  <2>2. m \in Bytes /\ \A x \in 1 .. 12 : m[x] = b.msg[b.start + x]
    <3> DEFINE l == Len(m)
    <3>1. m \in Bytes /\ \A x \in 1 .. l : m[x] = b.msg[b.start + x]
      BY DEF WholeOf
    <3>2. l \in Nat /\ 12 <= l
      BY <1>2, <3>1, LenProperties DEF Bytes
    <3> HIDE DEF l
    <3>3. 1 .. 12 \subseteq 1 .. l
      BY <3>2
    <3> QED
      BY <3>1, <3>3
  <2> QED
    BY <1>2, <2>1, <2>2 DEF BeginsLike, Packing
<1>4. p = StartParser(m)
  OBVIOUS
<1> HIDE DEF p
<1>5. AtStart(p, m, b)
  BY <1>3, <1>4, StartedIs
<1>6. /\ IsParser(p) /\ p.msg = m /\ p.counts = counts /\ p.head = head /\ p.section = Questions /\ p.index = 0
      /\ p.off = 12 /\ p.hasHeader = FALSE /\ p.err = "none"
  BY <1>5 DEF AtStart
<1>7. counts \in [Sections -> Nat] /\ ends[0] = 12
  BY <1>1, <1>2 DEF Arrived, ItemsLaid, Laid
<1>8. CountBefore(counts, 2) = 0 /\ Questions = 2 /\ 2 \in Sections /\ 2 \in 2 .. 6
  <2>1. 2 \in 2 .. 6
    OBVIOUS
  <2> QED
    BY <1>7, <2>1, CountsAre, SectionsAre DEF Questions
<1> HIDE DEF counts, head
<1>9. 0 <= counts[2] /\ 0 \in Nat
  <2> DEFINE c == counts[2]
  <2>1. c \in Nat
    BY <1>7, <1>8
  <2> HIDE DEF c
  <2>2. 0 <= c /\ 0 \in Nat
    BY <2>1
  <2> QED
    BY <2>2 DEF c
<1>10. 0 = CountBefore(counts, 2) + 0
  BY <1>8
<1>11. ends[0] <= Len(m)
  BY <1>2, <1>7
<1>12. Follows(p, m, counts, items, n, ends, 0)
  <2> DEFINE zero == 0
             two == 2
             q == p
  <2>1. /\ p.section = two /\ p.index = zero /\ two \in 2 .. 6 /\ zero \in Nat /\ zero <= counts[two]
        /\ two \in Sections
        /\ zero = CountBefore(counts, two) + zero /\ ends[zero] <= Len(m) /\ p.off = ends[zero]
    BY <1>6, <1>7, <1>8, <1>9, <1>10, <1>11
  <2>2. IsParser(p) /\ p.msg = m /\ p.counts = counts /\ p.hasHeader = FALSE
    BY <1>6
  <2> HIDE DEF zero, two
  <2>3. Follows(p, m, counts, items, n, ends, zero)
    BY <2>1, <2>2 DEF Follows
  <2> QED
    BY <2>3 DEF zero
<1>13. AtSection(p, head, Questions, m, counts, items, n, ends)
  BY <1>6, <1>8, <1>12 DEF AtSection
<1>14. \/ ~ Unpack(m).ok /\ Len(m) < ends[n]
       \/ Unpack(m) = Found(Contents(head, counts, items), ends[n]) /\ ends[n] <= Len(m)
  BY <1>2, <1>4, <1>6, <1>13, UnpackIs
<1>15. ~ (Len(m) < ends[n])
  <2> DEFINE l == Len(m)
  <2>1. l \in Nat /\ ends[n] = l
    BY <1>2, <1>3, LenProperties DEF BeginsLike, Bytes
  <2> HIDE DEF l
  <2>2. ~ (l < l)
    BY <2>1
  <2> QED
    BY <2>1, <2>2 DEF l
<1>16. head = b.head
  <2>1. b.head = [id |-> b.head.id, flags |-> b.head.flags] /\ b.head.flags \in HeaderFlags
    BY <1>3 DEF Outs, MessageHeads
  <2>2. UnpackBits(PackBits(b.head.flags)) = b.head.flags
    BY <2>1, FlagsComeBack
  <2>3. head = [id |-> b.head.id, flags |-> b.head.flags]
    BY <2>2 DEF head
  <2> QED
    BY <2>1, <2>3
<1> QED
  BY <1>2, <1>14, <1>15, <1>16 DEF counts

(* The recursion of Items, and what it computes entry by entry.               *)
Chosen(first, entry, section) == IF entry.section = section THEN Append(first, entry.item) ELSE first

ItemsStep(entries, section, k, f) ==
    [i \in 0 .. k |-> IF i = 0 THEN <<>> ELSE Chosen(f[i - 1], entries[i], section)]

ItemsRun(entries, section, k, f) ==
    f[0] = <<>> /\ \A i \in 1 .. k : f[i] = Chosen(f[i - 1], entries[i], section)

(* There is a function that the recursion of Items defines.                 *)
LEMMA ItemsRunExists ==
    ASSUME NEW entries, NEW section, NEW n \in Nat
    PROVE  \E f : f = ItemsStep(entries, section, n, f)
<1> DEFINE none == <<>>
           S == {k \in 0 .. n : \E f : f = ItemsStep(entries, section, k, f)}
<1>1. 0 \in S
  <2> DEFINE f == [i \in 0 .. 0 |-> none]
  <2>1. f = ItemsStep(entries, section, 0, f)
    <3>1. \A i \in 0 .. 0 : i = 0
      OBVIOUS
    <3> QED
      BY <3>1 DEF ItemsStep
  <2> HIDE DEF f
  <2>2. 0 \in 0 .. n
    OBVIOUS
  <2> QED
    BY <2>1, <2>2
<1>2. ASSUME NEW k \in 0 .. n - 1, k \in S PROVE k + 1 \in S
  <2>1. PICK f : f = ItemsStep(entries, section, k, f)
    BY <1>2
  <2> DEFINE j == k + 1
             g == [i \in 0 .. j |-> IF i = j THEN Chosen(f[k], entries[j], section) ELSE f[i]]
             h == ItemsStep(entries, section, j, g)
  <2>2. k \in Nat /\ j \in 0 .. n /\ j \in Nat /\ j - 1 = k /\ j # 0
    OBVIOUS
  <2>3. h = [i \in 0 .. j |-> IF i = 0 THEN none ELSE Chosen(g[i - 1], entries[i], section)]
    BY DEF ItemsStep
  <2>4. \A i \in 0 .. k : f[i] = IF i = 0 THEN none ELSE Chosen(f[i - 1], entries[i], section)
    BY <2>1 DEF ItemsStep
  <2>5. ASSUME NEW i \in 0 .. j PROVE g[i] = h[i]
    <3> HIDE DEF j, h
    <3>1. CASE i = 0
      <4>1. i # j /\ i \in 0 .. k
        BY <2>2, <3>1
      <4>2. g[i] = f[i] /\ f[i] = none
        BY <2>4, <3>1, <4>1
      <4>3. h[i] = none
        BY <2>3, <3>1
      <4> QED
        BY <4>2, <4>3
    <3>2. CASE i # 0 /\ i # j
      <4>1. i \in 0 .. k /\ i - 1 \in 0 .. j /\ i - 1 # j
        BY <2>2, <3>2
      <4>2. g[i] = f[i] /\ g[i - 1] = f[i - 1]
        BY <3>2, <4>1
      <4>3. f[i] = Chosen(f[i - 1], entries[i], section)
        BY <2>4, <3>2, <4>1
      <4>4. h[i] = Chosen(g[i - 1], entries[i], section)
        BY <2>3, <3>2
      <4> QED
        BY <4>2, <4>3, <4>4
    <3>3. CASE i = j
      <4>1. i - 1 = k /\ k \in 0 .. j /\ k # j /\ i # 0
        BY <2>2, <3>3
      <4>2. g[k] = f[k] /\ g[i] = Chosen(f[k], entries[j], section)
        BY <3>3, <4>1
      <4>3. h[i] = Chosen(g[i - 1], entries[i], section)
        BY <2>3, <4>1
      <4> QED
        BY <3>3, <4>1, <4>2, <4>3
    <3> QED
      BY <3>1, <3>2, <3>3
  <2>6. g = h
    <3> HIDE DEF j
    <3>1. g = [i \in 0 .. j |-> g[i]] /\ h = [i \in 0 .. j |-> h[i]]
      BY DEF ItemsStep
    <3> HIDE DEF g, h
    <3>2. [i \in 0 .. j |-> g[i]] = [i \in 0 .. j |-> h[i]]
      BY <2>5
    <3> QED
      BY <3>1, <3>2
  <2>7. \E e : e = ItemsStep(entries, section, j, e)
    <3> HIDE DEF g, j
    <3> QED
      BY <2>6
  <2> QED
    BY <2>2, <2>7
<1> HIDE DEF S
<1>3. 0 .. n \subseteq S
  BY <1>1, <1>2, UpToBound
<1>4. n \in S
  BY <1>3
<1> QED
  BY <1>4 DEF S

(* Items is the last step of that recursion.                                *)
LEMMA ItemsRunIs ==
    ASSUME NEW section, NEW n \in Nat, Len(built) = n
    PROVE  \E f : ItemsRun(built, section, n, f) /\ Items(section) = f[n]
<1> DEFINE g == CHOOSE f : f = ItemsStep(built, section, n, f)
<1>1. g = ItemsStep(built, section, n, g)
  BY ItemsRunExists
<1>2. Items(section) = g[n]
  BY DEF Items, ItemsStep, Chosen
<1> HIDE DEF g
<1>3. 0 \in 0 .. n /\ \A i \in 1 .. n : i \in 0 .. n /\ i # 0
  OBVIOUS
<1>4. ItemsRun(built, section, n, g)
  BY <1>1, <1>3 DEF ItemsRun, ItemsStep
<1> QED
  BY <1>2, <1>4

(* The entries of a section stand together, so what is chosen is that part.   *)
Together(entries, n, s, a, c) == \A i \in 1 .. n : entries[i].section = s <=> a < i /\ i <= a + c
Part(entries, a, c) == [j \in 1 .. c |-> entries[a + j].item]

(* What is chosen of a section is its part of the entries.                  *)
LEMMA ChosenArePart ==
    ASSUME NEW entries, NEW n \in Nat, NEW s, NEW a \in Nat, NEW c \in Nat, a + c <= n,
           Together(entries, n, s, a, c),
           NEW f, ItemsRun(entries, s, n, f)
    PROVE  f[n] = Part(entries, a, c)
<1> DEFINE V == [j \in 1 .. c |-> entries[a + j].item]
           taken(i) == IF i < a THEN 0 ELSE IF i <= a + c THEN i - a ELSE c
           S == {i \in 0 .. n : f[i] = Firsts(V, taken(i))}
<1>1. 0 \in S
  <2>1. taken(0) = 0
    OBVIOUS
  <2> DEFINE zero == 0
  <2>2. Firsts(V, zero) = <<>>
    <3>1. 1 .. zero = {}
      OBVIOUS
    <3> HIDE DEF V, zero
    <3> QED
      BY <3>1 DEF Firsts
  <2>3. f[0] = <<>>
    BY DEF ItemsRun
  <2>4. 0 \in 0 .. n
    OBVIOUS
  <2> HIDE DEF V, taken
  <2> QED
    BY <2>1, <2>2, <2>3, <2>4 DEF zero
<1>2. ASSUME NEW d \in 0 .. n - 1, d \in S PROVE d + 1 \in S
  <2>1. PICK i \in 1 .. n : i = d + 1 /\ i - 1 = d /\ i \in 0 .. n
    <3>1. d + 1 \in 1 .. n /\ (d + 1) - 1 = d /\ d + 1 \in 0 .. n
      OBVIOUS
    <3> QED
      BY <3>1
  <2> DEFINE k == taken(d)
  <2>2. f[d] = Firsts(V, k)
    BY <1>2
  <2>3. f[i] = Chosen(f[d], entries[i], s)
    BY <2>1 DEF ItemsRun
  <2>4. CASE a < i /\ i <= a + c
    <3>1. k = d - a /\ k \in Nat /\ taken(i) = k + 1 /\ a + (k + 1) = i /\ k + 1 \in 1 .. c
      BY <2>1, <2>4
    <3> HIDE DEF k, taken
    <3>2. V[k + 1] = entries[i].item
      BY <3>1
    <3> HIDE DEF V
    <3>3. Append(Firsts(V, k), V[k + 1]) = Firsts(V, k + 1)
      BY <3>1, FirstsGrow
    <3>4. f[i] = Append(f[d], entries[i].item)
      BY <2>1, <2>3, <2>4 DEF Chosen, Together
    <3>5. f[i] = Firsts(V, taken(i))
      BY <2>2, <3>1, <3>2, <3>3, <3>4
    <3> QED
      BY <2>1, <3>5
  <2>5. CASE ~ (a < i /\ i <= a + c)
    <3>1. taken(i) = k
      BY <2>1, <2>5
    <3> HIDE DEF k, taken, V
    <3>2. f[i] = f[d]
      BY <2>1, <2>3, <2>5 DEF Chosen, Together
    <3>3. f[i] = Firsts(V, taken(i))
      BY <2>2, <3>1, <3>2
    <3> QED
      BY <2>1, <3>3
  <2> QED
    BY <2>4, <2>5
<1> HIDE DEF S
<1>3. n \in S
  <2>1. 0 .. n \subseteq S
    BY <1>1, <1>2, UpToBound
  <2> QED
    BY <2>1
<1>4. taken(n) = c
  OBVIOUS
<1>5. f[n] = Firsts(V, c)
  BY <1>3, <1>4 DEF S
<1>6. Firsts(V, c) = V
  BY DEF Firsts
<1> QED
  BY <1>5, <1>6 DEF Part

(* The items of a section are those that stand in it.                       *)
LEMMA ItemsAreOrdered ==
    ASSUME NEW counts \in [Sections -> Nat], built \in Seq(BuiltEntries), Ordered(counts, built), NEW s \in Sections
    PROVE  Items(s) = SectionItems(counts, built, s)
<1> DEFINE n == Len(built)
           a == CountBefore(counts, s)
           c == counts[s]
<1>1. a \in Nat /\ c \in Nat /\ CountBefore(counts, s + 1) = a + c /\ a + c <= CountBefore(counts, 6)
  <2>1. s \in 1 .. 6 /\ s + 1 \in 1 .. 6 /\ 6 \in 1 .. 6 /\ s + 1 <= 6
    BY SectionsAre
  <2>2. CountBefore(counts, s + 1) <= CountBefore(counts, 6) /\ a \in Nat /\ CountBefore(counts, s + 1) = a + c
    BY <2>1, CountsAre
  <2>3. c \in Nat
    OBVIOUS
  <2> QED
    BY <2>2, <2>3
<1>2. n = CountBefore(counts, 6) /\ Together(built, n, s, a, c)
  BY <1>1 DEF Ordered, Together
<1>3. n \in Nat
  BY LenProperties
<1> HIDE DEF n, a, c
<1>4. PICK f : ItemsRun(built, s, n, f) /\ Items(s) = f[n]
  BY <1>3, ItemsRunIs DEF n
<1>5. a + c <= n
  BY <1>1, <1>2
<1>6. f[n] = Part(built, a, c)
  BY <1>1, <1>2, <1>3, <1>4, <1>5, ChosenArePart
<1> QED
  BY <1>4, <1>6 DEF SectionItems, Part, a, c

(* Some of a sequence, from behind a place on.                               *)
Stretch(entries, a, c) == [j \in 1 .. c |-> entries[a + j]]

IsSlice(s, entries, a, c, V) == s \in Seq(V) /\ Len(s) = c /\ \A j \in 1 .. c : s[j] = entries[a + j]

(* The slice of a sequence is a sequence of its elements.                   *)
LEMMA SliceIs ==
    ASSUME NEW V, NEW entries \in Seq(V), NEW a \in Nat, NEW c \in Nat, a + c <= Len(entries)
    PROVE  IsSlice(Stretch(entries, a, c), entries, a, c, V)
<1> DEFINE s == Stretch(entries, a, c)
           n == Len(entries)
<1>1. n \in Nat /\ DOMAIN entries = 1 .. n /\ \A i \in 1 .. n : entries[i] \in V
  BY LenProperties
<1> HIDE DEF n
<1>2. \A j \in 1 .. c : a + j \in 1 .. n
  BY <1>1 DEF n
<1>3. s \in [1 .. c -> V] /\ \A j \in 1 .. c : s[j] = entries[a + j]
  BY <1>1, <1>2 DEF Stretch
<1> HIDE DEF s
<1>4. s \in Seq(V) /\ DOMAIN s = 1 .. c
  BY <1>3, SeqDef
<1>5. Len(s) = c
  BY <1>4, LenProperties
<1> QED
  BY <1>3, <1>4, <1>5 DEF s, IsSlice

(* Two slices, one behind the other.                                        *)
LEMMA SlicesJoin ==
    ASSUME NEW V, NEW entries \in Seq(V), NEW a \in Nat, NEW c \in Nat, NEW b, b = a + c, NEW d \in Nat,
           b + d <= Len(entries)
    PROVE  Stretch(entries, a, c) \o Stretch(entries, b, d) = Stretch(entries, a, c + d)
<1> DEFINE s == Stretch(entries, a, c)
           t == Stretch(entries, b, d)
           u == Stretch(entries, a, c + d)
           w == s \o t
           n == Len(entries)
<1>1. n \in Nat /\ b \in Nat /\ c + d \in Nat /\ a + (c + d) <= n /\ a + c <= n /\ b + d <= n
  BY LenProperties
<1>2. /\ s \in Seq(V) /\ Len(s) = c /\ \A j \in 1 .. c : s[j] = entries[a + j]
      /\ t \in Seq(V) /\ Len(t) = d /\ \A j \in 1 .. d : t[j] = entries[b + j]
      /\ u \in Seq(V) /\ Len(u) = c + d /\ \A j \in 1 .. c + d : u[j] = entries[a + j]
  <2>1. IsSlice(s, entries, a, c, V)
    BY <1>1, SliceIs
  <2>2. IsSlice(t, entries, b, d, V)
    BY <1>1, SliceIs
  <2>3. IsSlice(u, entries, a, c + d, V)
    <3> DEFINE m == c + d
    <3>1. m \in Nat /\ a + m <= n
      BY <1>1
    <3> HIDE DEF m
    <3>2. IsSlice(Stretch(entries, a, m), entries, a, m, V)
      BY <3>1, SliceIs
    <3> QED
      BY <3>2 DEF m
  <2> HIDE DEF s, t, u
  <2> QED
    BY <2>1, <2>2, <2>3 DEF IsSlice
<1> HIDE DEF s, t, u, n
<1>3. w \in Seq(V) /\ Len(w) = c + d /\ \A j \in 1 .. c + d : w[j] = IF j <= c THEN s[j] ELSE t[j - c]
  <2>1. w \in Seq(V) /\ Len(w) = Len(s) + Len(t)
        /\ \A j \in 1 .. Len(s) + Len(t) : w[j] = IF j <= Len(s) THEN s[j] ELSE t[j - Len(s)]
    <3>1. s \in Seq(V) /\ t \in Seq(V)
      BY <1>2
    <3> QED
      BY <3>1, ConcatProperties
  <2> QED
    BY <1>2, <2>1
<1> HIDE DEF w
<1>4. ASSUME NEW j \in 1 .. c + d PROVE w[j] = u[j]
  <2>1. CASE j <= c
    <3>1. j \in 1 .. c
      BY <2>1
    <3> QED
      BY <1>2, <1>3, <2>1, <3>1
  <2>2. CASE ~ (j <= c)
    <3>1. j - c \in 1 .. d /\ b + (j - c) = a + j
      BY <2>2
    <3> QED
      BY <1>2, <1>3, <2>2, <3>1
  <2> QED
    BY <2>1, <2>2
<1>5. w = u
  <2>1. Len(w) = Len(u) /\ \A j \in 1 .. Len(w) : w[j] = u[j]
    BY <1>2, <1>3, <1>4
  <2> QED
    BY <1>2, <1>3, <2>1, SeqEqual
<1> QED
  BY <1>5 DEF w, s, t, u

(* The slice that is all of it.                                             *)
LEMMA SliceOfAll ==
    ASSUME NEW V, NEW entries \in Seq(V), NEW n, n = Len(entries)
    PROVE  Stretch(entries, 0, n) = entries
<1> DEFINE s == Stretch(entries, 0, n)
           zero == 0
<1>1. n \in Nat /\ zero \in Nat /\ zero + n <= Len(entries) /\ \A j \in 1 .. n : zero + j = j
  BY LenProperties
<1> HIDE DEF zero
<1>2. IsSlice(Stretch(entries, zero, n), entries, zero, n, V)
  BY <1>1, SliceIs
<1>3. s \in Seq(V) /\ Len(s) = n /\ \A j \in 1 .. n : s[j] = entries[j]
  BY <1>1, <1>2 DEF zero, IsSlice
<1> HIDE DEF s
<1>4. s = entries
  BY <1>3, SeqEqual
<1> QED
  BY <1>4 DEF s

(* The entries of a section are a slice of all entries.                     *)
LEMMA EntriesAreSlice ==
    ASSUME NEW counts \in [Sections -> Nat], NEW items \in Seq(BuiltEntries), Ordered(counts, items), NEW s \in Sections
    PROVE  /\ Entries(s, SectionItems(counts, items, s)) = Stretch(items, CountBefore(counts, s), counts[s])
           /\ Len(SectionItems(counts, items, s)) = counts[s]
<1> DEFINE n == Len(items)
           a == CountBefore(counts, s)
           c == counts[s]
           w == SectionItems(counts, items, s)
<1>1. a \in Nat /\ c \in Nat /\ CountBefore(counts, s + 1) = a + c /\ a + c <= CountBefore(counts, 6)
  <2>1. s \in 1 .. 6 /\ s + 1 \in 1 .. 6 /\ 6 \in 1 .. 6 /\ s + 1 <= 6
    BY SectionsAre
  <2>2. CountBefore(counts, s + 1) <= CountBefore(counts, 6) /\ a \in Nat /\ CountBefore(counts, s + 1) = a + c
    BY <2>1, CountsAre
  <2>3. c \in Nat
    OBVIOUS
  <2> QED
    BY <2>2, <2>3
<1>2. n = CountBefore(counts, 6) /\ Together(items, n, s, a, c)
  BY <1>1 DEF Ordered, Together
<1>3. n \in Nat /\ \A i \in 1 .. n : items[i] \in BuiltEntries
  <2> DEFINE V == BuiltEntries
  <2>1. items \in Seq(V)
    OBVIOUS
  <2> HIDE DEF V
  <2>2. n \in Nat /\ \A i \in 1 .. n : items[i] \in V
    BY <2>1, LenProperties
  <2> QED
    BY <2>2 DEF V
<1>4. w = [j \in 1 .. c |-> items[a + j].item]
  BY DEF SectionItems
<1> HIDE DEF n, a, c, w
<1>5. a + c <= n
  BY <1>1, <1>2
<1>6. DOMAIN w = 1 .. c
  BY <1>4
<1>7. ASSUME NEW j \in 1 .. c PROVE [section |-> s, item |-> w[j]] = items[a + j]
  <2> DEFINE i == a + j
  <2>1. i \in 1 .. n /\ a < i /\ i <= a + c
    BY <1>1, <1>3, <1>5
  <2> HIDE DEF i
  <2>2. items[i].section = s /\ items[i] \in BuiltEntries
    BY <1>2, <1>3, <2>1 DEF Together
  <2>3. items[i] = [section |-> items[i].section, item |-> items[i].item]
    BY <2>2 DEF BuiltEntries
  <2>4. w[j] = items[i].item
    BY <1>4 DEF i
  <2>5. [section |-> s, item |-> w[j]] = items[i]
    BY <2>2, <2>3, <2>4
  <2> QED
    BY <2>5 DEF i
<1>8. Entries(s, w) = [j \in 1 .. c |-> items[a + j]]
  BY <1>6, <1>7 DEF Entries
<1>9. Len(w) = c
  <2> DEFINE V == {w[j] : j \in 1 .. c}
  <2>1. w \in [1 .. c -> V]
    BY <1>4
  <2> HIDE DEF V
  <2>2. w \in Seq(V)
    BY <1>1, <2>1, SeqDef
  <2> QED
    BY <1>1, <1>6, <2>2, LenProperties
<1> QED
  BY <1>8, <1>9 DEF Stretch, w, a, c

(* The sections of a message are packed one after the other, as they were      *)
(* built.                                                                  *)
LEMMA SectionsAreEntries ==
    ASSUME NEW counts \in [Sections -> Nat], NEW items \in Seq(BuiltEntries), Ordered(counts, items), NEW out, NEW lists,
           \A s \in Sections : lists[s] = SectionItems(counts, items, s)
    PROVE  PackSections(out, lists) = PackEntries(out, items)
<1> DEFINE n == Len(items)
           b(s) == CountBefore(counts, s)
           e(s) == Entries(s, lists[s])
           V == BuiltEntries
           S(a, c) == Stretch(items, a, c)
<1>1. /\ Questions = 2 /\ Answers = 3 /\ Authorities = 4 /\ Additionals = 5
      /\ 2 \in Sections /\ 3 \in Sections /\ 4 \in Sections /\ 5 \in Sections
      /\ 2 + 1 = 3 /\ 3 + 1 = 4 /\ 4 + 1 = 5 /\ 5 + 1 = 6
  BY SectionsAre DEF Questions, Answers, Authorities, Additionals
<1> DEFINE c2 == counts[2]
           c3 == counts[3]
           c4 == counts[4]
           c5 == counts[5]
<1>2. c2 \in Nat /\ c3 \in Nat /\ c4 \in Nat /\ c5 \in Nat
  BY <1>1
<1>3. \A s \in Sections : e(s) = S(b(s), counts[s])
  BY EntriesAreSlice
<1>4. b(2) = 0 /\ \A s \in Sections : b(s + 1) = b(s) + counts[s]
  BY CountsAre
<1>5. n = b(6) /\ items \in Seq(V)
  BY DEF Ordered
<1> HIDE DEF b, e, n, V, S
<1>6. e(2) = S(b(2), c2) /\ e(3) = S(b(3), c3) /\ e(4) = S(b(4), c4) /\ e(5) = S(b(5), c5)
  BY <1>1, <1>3
<1>7. b(3) = b(2) + c2 /\ b(4) = b(3) + c3 /\ b(5) = b(4) + c4 /\ b(6) = b(5) + c5
  BY <1>1, <1>4
<1> HIDE DEF c2, c3, c4, c5
<1> DEFINE b3 == c2
           b4 == b3 + c3
           b5 == b4 + c4
           b6 == b5 + c5
<1>8. b(2) = 0 /\ b(3) = b3 /\ b(4) = b4 /\ b(5) = b5 /\ n = b6
  BY <1>2, <1>4, <1>5, <1>7
<1>9. /\ b3 \in Nat /\ b4 \in Nat /\ b5 \in Nat /\ b6 \in Nat
      /\ b4 <= b6 /\ b5 <= b6 /\ b6 <= b6
      /\ 0 + b3 = b3 /\ 0 + b4 = b4 /\ 0 + b5 = b5 /\ b4 = b3 + c3 /\ b5 = b4 + c4 /\ b6 = b5 + c5
  BY <1>2
<1> DEFINE zero == 0
<1>10. /\ zero \in Nat /\ b3 = zero + b3 /\ b4 = zero + b4 /\ b5 = zero + b5
  BY <1>9
<1>11. /\ e(2) = S(zero, b3) /\ e(3) = S(b3, c3) /\ e(4) = S(b4, c4) /\ e(5) = S(b5, c5)
       /\ n = Len(items)
  BY <1>6, <1>8 DEF n
<1> HIDE DEF b3, b4, b5, b6, zero
<1> HIDE DEF c2, c3, c4, c5
<1>12. b3 + c3 <= Len(items) /\ b4 + c4 <= Len(items) /\ b5 + c5 <= Len(items)
  BY <1>8, <1>9, <1>11
<1>13. S(zero, b3) \o S(b3, c3) = S(zero, b4)
  <2>1. b3 \in Nat /\ b3 = zero + b3 /\ c3 \in Nat /\ b3 + c3 <= Len(items) /\ b4 = b3 + c3
    BY <1>2, <1>9, <1>10, <1>12
  <2>2. Stretch(items, zero, b3) \o Stretch(items, b3, c3) = Stretch(items, zero, b3 + c3)
    BY <1>5, <1>10, <2>1, SlicesJoin
  <2> QED
    BY <2>1, <2>2 DEF S
<1>14. S(zero, b4) \o S(b4, c4) = S(zero, b5)
  <2>1. b4 \in Nat /\ b4 = zero + b4 /\ c4 \in Nat /\ b4 + c4 <= Len(items) /\ b5 = b4 + c4
    BY <1>2, <1>9, <1>10, <1>12
  <2>2. Stretch(items, zero, b4) \o Stretch(items, b4, c4) = Stretch(items, zero, b4 + c4)
    BY <1>5, <1>10, <2>1, SlicesJoin
  <2> QED
    BY <2>1, <2>2 DEF S
<1>15. S(zero, b5) \o S(b5, c5) = S(zero, b6)
  <2>1. b5 \in Nat /\ b5 = zero + b5 /\ c5 \in Nat /\ b5 + c5 <= Len(items) /\ b6 = b5 + c5
    BY <1>2, <1>9, <1>10, <1>12
  <2>2. Stretch(items, zero, b5) \o Stretch(items, b5, c5) = Stretch(items, zero, b5 + c5)
    BY <1>5, <1>10, <2>1, SlicesJoin
  <2> QED
    BY <2>1, <2>2 DEF S
<1>16. S(zero, b6) = items
  BY <1>5, <1>8, <1>11, SliceOfAll DEF S, zero
<1>17. ((e(2) \o e(3)) \o e(4)) \o e(5) = items
  BY <1>11, <1>13, <1>14, <1>15, <1>16
<1>18. PackSections(out, lists) = PackEntries(out, ((e(2) \o e(3)) \o e(4)) \o e(5))
  BY <1>1 DEF PackSections, e
<1> QED
  BY <1>17, <1>18

(* What Message.AppendPack makes of the message that was built.              *)
LEMMA AppendPackIs ==
    ASSUME NEW head, NEW counts \in [Sections -> Nat], NEW items \in Seq(BuiltEntries), Ordered(counts, items),
           \A s \in Sections : counts[s] <= MaxCount,
           PackedAgain(Again(head, counts, items), head, counts, items)
    PROVE  AppendPack(<<>>, Contents(head, counts, items)) = Finish(Again(head, counts, items))
<1> DEFINE none == <<>>
           message == Contents(head, counts, items)
           lists == message.items
           out == Fresh(head, counts)
           a == Again(head, counts, items)
           sizes == [s \in Sections |-> Len(lists[s])]
           empty == [EnableCompression(NewBuilder(none, message.head)) EXCEPT !.counts = sizes]
<1>1. message.head = head /\ lists = [s \in Sections |-> SectionItems(counts, items, s)]
  BY DEF Contents
<1> HIDE DEF message
<1>2. \A s \in Sections : lists[s] = SectionItems(counts, items, s)
  BY <1>1
<1>3. \A s \in Sections : Len(lists[s]) = counts[s]
  BY <1>2, EntriesAreSlice
<1> HIDE DEF lists
<1>4. sizes = counts
  <2>1. sizes = [s \in Sections |-> counts[s]]
    BY <1>3
  <2> HIDE DEF sizes
  <2> QED
    BY <2>1
<1> HIDE DEF sizes
<1>5. empty = out
  BY <1>1, <1>4 DEF Fresh
<1> HIDE DEF empty
<1>6. ~ \E s \in Sections : Len(lists[s]) > MaxCount
  <2> SUFFICES ASSUME NEW s \in Sections, Len(lists[s]) > MaxCount PROVE FALSE
    OBVIOUS
  <2> DEFINE c == counts[s]
  <2>1. c \in Nat /\ c <= MaxCount /\ c > MaxCount
    BY <1>3
  <2> HIDE DEF c
  <2>2. MaxCount \in Int
    <3> DEFINE top == 2^16 - 1
    <3>1. top \in Nat
      OBVIOUS
    <3>2. MaxCount \in 0 .. top
      BY CountAssumption
    <3> HIDE DEF top
    <3> QED
      BY <3>1, <3>2
  <2> QED
    BY <2>1, <2>2
<1>7. PackSections(out, lists) = a
  <2>1. PackSections(out, lists) = PackEntries(out, items)
    BY <1>2, SectionsAreEntries
  <2> QED
    BY <2>1 DEF Again
<1>8. a.ok
  BY DEF PackedAgain, Packing
<1> HIDE DEF out, a
<1>9. AppendPack(none, message) = IF \E s \in Sections : Len(lists[s]) > MaxCount THEN Refused(empty)
                                 ELSE WithHeader(PackSections(empty, lists))
  BY DEF AppendPack, lists, empty, sizes
<1>10. AppendPack(none, message) = WithHeader(a)
  BY <1>5, <1>6, <1>7, <1>9
<1>11. AppendPack(none, message) = Finish(a)
  BY <1>8, <1>10 DEF WithHeader
<1> QED
  BY <1>11 DEF a, message

(* What was packed in one go is unpacked to what was put in.                *)
LEMMA FinishedUnpacks ==
    ASSUME NEW a, NEW head, NEW counts, NEW items \in Seq(BuiltEntries), PackedAgain(a, head, counts, items),
           Ordered(counts, items), \A s \in Sections : counts[s] <= MaxCount
    PROVE  /\ Finish(a).ok
           /\ Unpack(Finish(a).msg) = Found(Contents(head, counts, items), Len(Finish(a).msg))
<1> DEFINE new == Finish(a)
           holes == HeaderHole
<1>1. Packing(a, holes) /\ a.start = 0 /\ a.head = head /\ a.counts = counts /\ Lies(a, items)
  BY DEF PackedAgain
<1>2. /\ Packing(new, holes) /\ Size(new) = Size(a) /\ new.start = 0 /\ new.section = SectionDone /\ new.ok = TRUE
      /\ new.head = head /\ new.counts = counts
  BY <1>1, FinishIs
<1>3. HeaderLaid(new) /\ Continues(new.msg, a.msg, 0, Size(a))
  BY <1>1, FinishedHeader
<1> HIDE DEF new, holes
<1>4. HoldsItems(new, items)
  <2>1. PICK n, ends : n = Len(items) /\ Laid(a.msg, a.start, Size(a), items, n, ends)
    BY <1>1 DEF Lies
  <2> DEFINE u == a.msg
             v == new.msg
             z == Size(a)
             zero == 0
  <2>2. z \in Nat /\ Laid(u, zero, z, items, n, ends) /\ Continues(v, u, zero, z)
    BY <1>1, <1>3, <2>1, SizeIs
  <2> HIDE DEF u, v, z, zero
  <2>3. Laid(v, zero, z, items, n, ends)
    BY <2>2, LaidKept
  <2>4. Lies(new, items)
    BY <1>2, <2>1, <2>3 DEF Lies, v, z, zero
  <2>5. NoneAfter(new.counts, new.section)
    BY <1>2, SectionsAre DEF NoneAfter, SectionDone
  <2> QED
    BY <1>2, <2>4, <2>5 DEF HoldsItems
<1>5. WholeOf(new.msg, new)
  <2> DEFINE m == new.msg
             size == Size(new)
             zero == 0
  <2>1. m \in Bytes
    BY <1>2 DEF Packing, Outs
  <2>2. size \in Nat /\ Len(m) = zero + size /\ new.start = zero
    BY <1>2, SizeIs
  <2> HIDE DEF size
  <2>3. Len(m) = size /\ \A x \in 1 .. size : zero + x = x
    BY <2>2
  <2> HIDE DEF m, zero
  <2>4. m \in Bytes /\ Len(m) = size /\ \A x \in 1 .. size : m[x] = m[new.start + x]
    BY <2>1, <2>2, <2>3
  <2> QED
    BY <2>4 DEF WholeOf, m, size
<1>6. Packing(new, HeaderHole)
  BY <1>2 DEF holes
<1>7. Unpack(new.msg) = Found(Contents(new.head, new.counts, items), Len(new.msg))
  BY <1>3, <1>4, <1>5, <1>6, WholeUnpacks
<1>8. new.ok /\ Unpack(new.msg) = Found(Contents(head, counts, items), Len(new.msg))
  BY <1>2, <1>7
<1> QED
  BY <1>8 DEF new

(* The message as it was meant, from the order of its items.                *)
LEMMA OriginalIs ==
    ASSUME NEW counts \in [Sections -> Nat], built \in Seq(BuiltEntries), Ordered(counts, built)
    PROVE  Original = Contents(builder.head, counts, built)
<1>1. \A s \in Sections : Items(s) = SectionItems(counts, built, s)
  BY ItemsAreOrdered
<1>2. [s \in Sections |-> Items(s)] = [s \in Sections |-> SectionItems(counts, built, s)]
  BY <1>1
<1> QED
  BY <1>2 DEF Original, Contents

(* What the property says of the message as it is.                          *)
LEMMA RepackingIsSafe == BuilderHolds /\ RepackHolds => RepackingKeepsIt
<1> SUFFICES ASSUME BuilderHolds, RepackHolds, ~ Building, ~ stale
             PROVE  /\ Unpack(Message).ok /\ Unpack(Message).value = Original
                    /\ AppendPack(<<>>, Original).ok
                    /\ Unpack(AppendPack(<<>>, Original).msg).ok
                    /\ Unpack(AppendPack(<<>>, Original).msg).value = Original
  BY DEF RepackingKeepsIt
<1> DEFINE counts == builder.counts
           head == builder.head
           none == <<>>
           m == Message
           a == Again(head, counts, built)
           b == Finish(a)
           V == Contents(head, counts, built)
<1>1. /\ Packing(builder, HeaderHole) /\ HoldsItems(builder, built) /\ HeaderLaid(builder)
      /\ PacksAgain(builder, built)
  BY DEF BuilderHolds, Building, RepackHolds
<1>2. /\ counts \in [Sections -> Nat] /\ built \in Seq(BuiltEntries) /\ Ordered(counts, built)
      /\ \A s \in Sections : counts[s] <= MaxCount
  BY <1>1 DEF Packing, Outs, HoldsItems
<1>3. Original = V
  BY <1>2, OriginalIs
<1>4. WholeOf(m, builder)
  BY <1>1, MessageAgrees DEF WholeOf
<1> HIDE DEF m
<1>5. Unpack(m) = Found(V, Len(m))
  BY <1>1, <1>4, WholeUnpacks
<1>6. PackedAgain(a, head, counts, built)
  BY <1>1, <1>2 DEF PacksAgain
<1>7. AppendPack(none, V) = b
  BY <1>2, <1>6, AppendPackIs
<1> HIDE DEF counts, head, a
<1>8. b.ok /\ Unpack(b.msg) = Found(V, Len(b.msg))
  BY <1>2, <1>6, FinishedUnpacks
<1> HIDE DEF b, V
<1>9. Unpack(m).ok /\ Unpack(m).value = V /\ Unpack(b.msg).ok /\ Unpack(b.msg).value = V
  BY <1>5, <1>8 DEF Found
<1> QED
  BY <1>3, <1>7, <1>8, <1>9 DEF m

(* A message that was built is unpacked to what was put in, and so is the one   *)
(* that Message.AppendPack makes of that: what the server forwards says the    *)
(* same as what it received, however either of them is compressed.           *)
THEOREM RepackingMessagesKeepsThem == Spec => []RepackingKeepsIt
BY BuilderAlwaysHolds, RepackAlwaysHolds, RepackingIsSafe, PTL
================================================================================
