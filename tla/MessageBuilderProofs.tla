-------------------------- MODULE MessageBuilderProofs ---------------------------
(***************************************************************************)
(* Theorems about messages, for every name, record and buffer: what packing *)
(* puts behind a message leaves what can be read of it, however names point *)
(* back and whatever the places that are filled in later will hold.  So all *)
(* that has been added stands in the message, item after item.              *)
(***************************************************************************)
EXTENDS MessageCodec, WellFoundedInduction, FiniteSetTheorems, SequenceTheorems, TLAPS

(* The order of the naturals.                                              *)
LessNat == {ss \in Nat \X Nat : ss[1] < ss[2]}

(* Every set of naturals that is not empty has a least member.              *)
LEMMA LeastNatural ==
    ASSUME NEW T, T \subseteq Nat, T # {}
    PROVE  \E m \in T : \A k \in T : m <= k
<1>1. IsWellFoundedOn(LessNat, Nat)
  BY NatLessThanWellFounded DEF OpToRel, LessNat
<1>2. PICK m \in T : \A k \in T : ~(<<k, m>> \in LessNat)
  BY <1>1, WFMin
<1>3. \A k \in T : ~(m > k)
  BY <1>2 DEF LessNat
<1> QED
  BY <1>3

(* Induction up to a bound, on the members of a set.                        *)
LEMMA UpToBound ==
    ASSUME NEW bound \in Nat, NEW S, 0 \in S,
           \A d \in 0 .. bound - 1 : d \in S => d + 1 \in S
    PROVE  0 .. bound \subseteq S
<1> DEFINE T == {d \in 0 .. bound : d \notin S}
<1> SUFFICES ASSUME T # {} PROVE FALSE
  OBVIOUS
<1>1. PICK m \in T : \A k \in T : m <= k
  BY LeastNatural, T \subseteq Nat
<1>2. m \in 1 .. bound /\ m - 1 \in 0 .. bound - 1 /\ m - 1 \notin T
  BY <1>1
<1>3. m - 1 \in S
  BY <1>2
<1> QED
  BY <1>1, <1>2, <1>3

(* A set that has an element as soon as it has all those of lower rank has   *)
(* them all.                                                                *)
LEMMA RankInduction ==
    ASSUME NEW S, NEW rank \in [S -> Nat], NEW P,
           \A x \in S : (\A y \in S : rank[y] < rank[x] => y \in P) => x \in P
    PROVE  S \subseteq P
<1> DEFINE T == {rank[x] : x \in S \ P}
<1> SUFFICES ASSUME T # {} PROVE FALSE
  OBVIOUS
<1>1. PICK m \in T : \A k \in T : m <= k
  BY LeastNatural, T \subseteq Nat
<1>2. PICK x \in S \ P : rank[x] = m
  BY <1>1
<1>3. \A y \in S : rank[y] < rank[x] => y \in P
  BY <1>1, <1>2
<1> QED
  BY <1>2, <1>3

(* The functions F on S, and a step that defines a function anew from its     *)
(* values at lower ranks.                                                   *)
Recursive(S, F, step, rank, top) ==
    /\ F # {} /\ top \in Nat /\ \A x \in S : rank[x] \in 0 .. top
    /\ \A f, g \in F : (\A x \in S : f[x] = g[x]) => f = g
    /\ \A f \in F : step[f] \in F
    /\ \A f, g \in F, x \in S :
          (\A y \in S : rank[y] < rank[x] => f[y] = g[y]) => step[f][x] = step[g][x]

(* Such a step leaves a function as it is.                                   *)
LEMMA RankRecursion ==
    ASSUME NEW S, NEW F, NEW step, NEW rank, NEW top, Recursive(S, F, step, rank, top)
    PROVE  \E f \in F : f = step[f]
<1> USE DEF Recursive
<1> DEFINE IsGood(f, d) == \A x \in S : rank[x] < d => step[f][x] = f[x]
           T == {d \in Nat : ~ \E f \in F : IsGood(f, d)}
<1>1. \E f \in F : IsGood(f, 0)
  OBVIOUS
<1>2. ASSUME NEW d \in Nat, NEW f \in F, IsGood(f, d)
      PROVE  step[f] \in F /\ IsGood(step[f], d + 1)
  <2>1. step[f] \in F /\ step[step[f]] \in F
    OBVIOUS
  <2>2. ASSUME NEW x \in S, rank[x] < d + 1
        PROVE  step[step[f]][x] = step[f][x]
    <3>1. \A y \in S : rank[y] < rank[x] => step[f][y] = f[y]
      BY <1>2, <2>2
    <3> QED
      BY <2>1, <3>1
  <2> QED
    BY <2>1, <2>2
<1>3. T = {}
  <2> SUFFICES ASSUME T # {} PROVE FALSE
    OBVIOUS
  <2>1. PICK m \in T : \A k \in T : m <= k
    BY LeastNatural, T \subseteq Nat
  <2>2. m # 0
    BY <1>1, <2>1
  <2>3. m - 1 \in Nat /\ m - 1 \notin T
    BY <2>1, <2>2
  <2>4. PICK f \in F : IsGood(f, m - 1)
    BY <2>3
  <2>5. step[f] \in F /\ IsGood(step[f], m)
    BY <1>2, <2>3, <2>4
  <2> QED
    BY <2>1, <2>5
<1>4. PICK f \in F : IsGood(f, top + 1)
  <2>1. top + 1 \in Nat
    OBVIOUS
  <2>2. top + 1 \notin T
    BY <1>3
  <2> QED
    BY <2>1, <2>2
<1>5. \A x \in S : rank[x] < top + 1
  OBVIOUS
<1>6. \A x \in S : step[f][x] = f[x]
  BY <1>4, <1>5
<1>7. step[f] \in F
  OBVIOUS
<1> QED
  BY <1>6, <1>7

(* Functions with the same values are the same.                             *)
LEMMA SameFunctions ==
    ASSUME NEW S, NEW V, NEW f \in [S -> V], NEW g \in [S -> V], \A x \in S : f[x] = g[x]
    PROVE  f = g
OBVIOUS

-----------------------------------------------------------------------------
(* The recursion of FlattenSeq.                                             *)
FlattenStep(ss, f) == [i \in 1 .. Len(ss) |-> IF i = 1 THEN ss[i] ELSE f[i - 1] \o ss[i]]

(* FlattenSeq joins one sequence after the other.                          *)
LEMMA FlattenRun ==
    ASSUME NEW E, NEW ss \in Seq(Seq(E)), Len(ss) # 0
    PROVE  \E f \in [1 .. Len(ss) -> Seq(E)] :
              f = FlattenStep(ss, f) /\ FlattenSeq(ss) = f[Len(ss)]
<1> DEFINE n == Len(ss)
           IsRun(f, k) == /\ f \in [1 .. k -> Seq(E)]
                          /\ f = [i \in 1 .. k |-> IF i = 1 THEN ss[i] ELSE f[i - 1] \o ss[i]]
           S == {k \in 0 .. n : \E f : IsRun(f, k)}
<1>1. n \in Nat /\ \A i \in 1 .. n : ss[i] \in Seq(E)
  BY LenProperties, ElementOfSeq
<1> HIDE DEF n
<1>2. 0 \in S
  <2>1. \A i \in 1 .. 0 : FALSE
    OBVIOUS
  <2>2. 0 \in 0 .. n
    BY <1>1
  <2>3. IsRun([i \in 1 .. 0 |-> IF i = 1 THEN ss[i] ELSE <<>>], 0)
    BY <2>1
  <2> QED
    BY <2>2, <2>3
<1>3. ASSUME NEW d \in 0 .. n - 1, d \in S
      PROVE  d + 1 \in S
  <2>1. PICK f : IsRun(f, d)
    BY <1>3
  <2> DEFINE next == IF d = 0 THEN ss[1] ELSE f[d] \o ss[d + 1]
             g == [i \in 1 .. d + 1 |-> IF i = d + 1 THEN next ELSE f[i]]
  <2>2. d + 1 \in 1 .. n /\ 1 \in 1 .. n /\ ss[d + 1] \in Seq(E)
    BY <1>1
  <2>3. next \in Seq(E)
    <3>1. CASE d = 0
      BY <2>2, <3>1
    <3>2. CASE d # 0
      <4>1. f[d] \in Seq(E)
        BY <1>1, <2>1, <3>2
      <4>2. f[d] \o ss[d + 1] \in Seq(E)
        BY <2>2, <4>1, ConcatProperties
      <4> QED
        BY <3>2, <4>2
    <3> QED
      BY <3>1, <3>2
  <2>10. (d = 0 => next = ss[1]) /\ (d # 0 => next = f[d] \o ss[d + 1])
    OBVIOUS
  <2> HIDE DEF next
  <2>4. \A i \in 1 .. d + 1 : i # d + 1 => i \in 1 .. d /\ f[i] \in Seq(E)
    BY <1>1, <2>1
  <2>5. g \in [1 .. d + 1 -> Seq(E)]
    BY <2>3, <2>4
  <2>11. g[d + 1] = next /\ \A i \in 1 .. d : g[i] = f[i]
    <3>1. d + 1 \in 1 .. d + 1 /\ \A i \in 1 .. d : i \in 1 .. d + 1 /\ i # d + 1
      BY <1>1
    <3> QED
      BY <3>1
  <2> HIDE DEF g
  <2>6. ASSUME NEW i \in 1 .. d + 1
        PROVE  g[i] = IF i = 1 THEN ss[i] ELSE g[i - 1] \o ss[i]
    <3>1. CASE i = d + 1
      <4>1. CASE d = 0
        <5>1. i = 1 /\ g[i] = next /\ next = ss[1]
          BY <1>1, <2>10, <2>11, <3>1, <4>1
        <5> QED
          BY <5>1
      <4>2. CASE d # 0
        <5>1. i # 1 /\ i - 1 = d /\ d \in 1 .. d
          BY <1>1, <3>1, <4>2
        <5>2. g[i - 1] = f[d]
          BY <2>11, <5>1
        <5>3. g[i] = f[d] \o ss[i]
          BY <2>10, <2>11, <3>1, <4>2
        <5> QED
          BY <5>1, <5>2, <5>3
      <4> QED
        BY <4>1, <4>2
    <3>2. CASE i # d + 1
      <4>1. i \in 1 .. d /\ g[i] = f[i]
        BY <1>1, <2>11, <3>2
      <4>2. f[i] = IF i = 1 THEN ss[i] ELSE f[i - 1] \o ss[i]
        BY <2>1, <4>1
      <4>3. i # 1 => g[i - 1] = f[i - 1]
        <5>1. i # 1 => i - 1 \in 1 .. d
          BY <4>1
        <5> QED
          BY <2>11, <5>1
      <4> QED
        BY <4>1, <4>2, <4>3
    <3> QED
      BY <3>1, <3>2
  <2>8. g = [i \in 1 .. d + 1 |-> IF i = 1 THEN ss[i] ELSE g[i - 1] \o ss[i]]
    BY <2>5, <2>6
  <2>12. d + 1 \in 0 .. n
    BY <2>2
  <2>13. IsRun(g, d + 1)
    BY <2>5, <2>8
  <2>9. IsRun(g, d + 1) /\ d + 1 \in 0 .. n
    BY <2>12, <2>13
  <2> HIDE DEF IsRun
  <2> QED
    BY <2>9
<1>4. n \in S
  <2> HIDE DEF S
  <2>1. 0 .. n \subseteq S
    BY <1>1, <1>2, <1>3, UpToBound
  <2> QED
    BY <1>1, <2>1
<1>5. PICK f0 : IsRun(f0, n)
  BY <1>4
<1>6. \E f : f = FlattenStep(ss, f)
  BY <1>5 DEF FlattenStep, n
<1>7. \E f : f = FlattenStep(ss, f) /\ FlattenSeq(ss) = f[n]
  BY <1>6 DEF FlattenSeq, FlattenStep, n
<1>8. PICK f : f = FlattenStep(ss, f) /\ FlattenSeq(ss) = f[n]
  BY <1>7
<1> DEFINE T == {k \in 0 .. n : \A i \in 1 .. k : f[i] \in Seq(E)}
<1>9. ASSUME NEW i \in 1 .. n, i # 1 => f[i - 1] \in Seq(E)
      PROVE  f[i] \in Seq(E)
  <2>1. f[i] = IF i = 1 THEN ss[i] ELSE f[i - 1] \o ss[i]
    BY <1>8 DEF FlattenStep, n
  <2>2. i # 1 => f[i - 1] \o ss[i] \in Seq(E)
    BY <1>1, <1>9, ConcatProperties
  <2> QED
    BY <1>1, <2>1, <2>2
<1>10. ASSUME NEW d \in 0 .. n - 1, d \in T
       PROVE  d + 1 \in T
  <2>1. ASSUME NEW i \in 1 .. d + 1 PROVE f[i] \in Seq(E)
    <3>1. CASE i \in 1 .. d
      BY <1>10, <3>1
    <3>2. CASE i = d + 1
      <4>1. i \in 1 .. n /\ (i # 1 => i - 1 \in 1 .. d)
        BY <1>1, <3>2
      <4>2. i # 1 => f[i - 1] \in Seq(E)
        BY <1>10, <4>1
      <4> QED
        BY <1>9, <4>1, <4>2
    <3> QED
      BY <3>1, <3>2
  <2> QED
    BY <1>1, <2>1
<1>11. 0 \in T
  BY <1>1
<1>12. n \in T
  <2> HIDE DEF T
  <2>1. 0 .. n \subseteq T
    BY <1>1, <1>10, <1>11, UpToBound
  <2> QED
    BY <1>1, <2>1
<1>13. f \in [1 .. n -> Seq(E)]
  BY <1>8, <1>12 DEF FlattenStep, n
<1> QED
  BY <1>8, <1>13 DEF n

(* The first k sequences of a family, joined.                              *)
Flat(g, k) == FlattenSeq([j \in 1 .. k |-> g[j]])

(* Joining one more puts it at the end.                                    *)
LEMMA FlatStep ==
    ASSUME NEW E, NEW n \in Nat, NEW g, \A j \in 1 .. n : g[j] \in Seq(E)
    PROVE  /\ Flat(g, 0) = <<>>
           /\ \A k \in 0 .. n : Flat(g, k) \in Seq(E)
           /\ \A k \in 0 .. n - 1 : Flat(g, k + 1) = Flat(g, k) \o g[k + 1]
<1> DEFINE part(k) == [j \in 1 .. k |-> g[j]]
<1>1. \A k \in 0 .. n : part(k) \in Seq(Seq(E)) /\ Len(part(k)) = k
  <2> SUFFICES ASSUME NEW k \in 0 .. n PROVE part(k) \in Seq(Seq(E)) /\ Len(part(k)) = k
    OBVIOUS
  <2>1. k \in Nat /\ \A j \in 1 .. k : g[j] \in Seq(E)
    OBVIOUS
  <2>2. part(k) \in [1 .. k -> Seq(E)]
    BY <2>1
  <2>3. part(k) \in Seq(Seq(E))
    BY <2>1, <2>2, SeqDef
  <2> QED
    BY <2>1, <2>2, <2>3
<1>2. Flat(g, 0) = <<>>
  <2>1. part(0) \in Seq(Seq(E)) /\ Len(part(0)) = 0
    BY <1>1
  <2>2. part(0) = <<>>
    BY <2>1, EmptySeq
  <2>3. FlattenSeq(part(0)) = part(0)
    BY <2>1 DEF FlattenSeq
  <2> QED
    BY <2>2, <2>3 DEF Flat
<1>3. ASSUME NEW k \in 1 .. n
      PROVE  \E f \in [1 .. k -> Seq(E)] :
                f = FlattenStep(part(k), f) /\ Flat(g, k) = f[k]
  <2>1. part(k) \in Seq(Seq(E)) /\ Len(part(k)) = k /\ k # 0
    BY <1>1
  <2> HIDE DEF part
  <2>2. \E f \in [1 .. k -> Seq(E)] : f = FlattenStep(part(k), f) /\ FlattenSeq(part(k)) = f[k]
    BY <2>1, FlattenRun
  <2> QED
    BY <2>2 DEF Flat, part
<1>4. ASSUME NEW k \in 0 .. n PROVE Flat(g, k) \in Seq(E)
  <2>1. CASE k = 0
    BY <1>2, <2>1, EmptySeq
  <2>2. CASE k # 0
    <3>1. k \in 1 .. n
      BY <2>2
    <3>2. PICK f \in [1 .. k -> Seq(E)] : Flat(g, k) = f[k]
      BY <1>3, <3>1
    <3> QED
      BY <3>1, <3>2
  <2> QED
    BY <2>1, <2>2
<1>5. ASSUME NEW k \in 0 .. n - 1 PROVE Flat(g, k + 1) = Flat(g, k) \o g[k + 1]
  <2>1. k + 1 \in 1 .. n /\ k \in 0 .. n /\ k + 1 \in 0 .. n
    OBVIOUS
  <2>2. PICK f \in [1 .. k + 1 -> Seq(E)] :
           f = FlattenStep(part(k + 1), f) /\ Flat(g, k + 1) = f[k + 1]
    BY <1>3, <2>1
  <2>3. Len(part(k + 1)) = k + 1 /\ \A i \in 1 .. k + 1 : part(k + 1)[i] = g[i]
    BY <1>1, <2>1
  <2>4. ASSUME NEW i \in 1 .. k + 1
        PROVE  f[i] = IF i = 1 THEN g[i] ELSE f[i - 1] \o g[i]
    <3> HIDE DEF part
    <3>1. f[i] = IF i = 1 THEN part(k + 1)[i] ELSE f[i - 1] \o part(k + 1)[i]
      BY <2>2, <2>3 DEF FlattenStep
    <3> QED
      BY <2>3, <3>1
  <2>5. CASE k = 0
    <3>1. f[k + 1] = g[k + 1]
      BY <2>1, <2>4, <2>5
    <3>2. g[k + 1] \in Seq(E) /\ <<>> \o g[k + 1] = g[k + 1]
      BY <2>1, ConcatEmptySeq
    <3> QED
      BY <1>2, <2>2, <2>5, <3>1, <3>2
  <2>6. CASE k # 0
    <3>1. k \in 1 .. n /\ k \in 1 .. k + 1
      BY <2>6
    <3>2. PICK h \in [1 .. k -> Seq(E)] :
             h = FlattenStep(part(k), h) /\ Flat(g, k) = h[k]
      BY <1>3, <3>1
    <3>3. Len(part(k)) = k /\ \A i \in 1 .. k : part(k)[i] = g[i]
      BY <1>1, <2>1
    <3>4. ASSUME NEW i \in 1 .. k
          PROVE  h[i] = IF i = 1 THEN g[i] ELSE h[i - 1] \o g[i]
      <4> HIDE DEF part
      <4>1. h[i] = IF i = 1 THEN part(k)[i] ELSE h[i - 1] \o part(k)[i]
        BY <3>2, <3>3 DEF FlattenStep
      <4> QED
        BY <3>3, <4>1
    <3> DEFINE T == {i \in 0 .. k : i = 0 \/ f[i] = h[i]}
    <3>5. 0 \in T
      OBVIOUS
    <3>6. ASSUME NEW d \in 0 .. k - 1, d \in T PROVE d + 1 \in T
      <4>1. PICK i \in 1 .. k : i = d + 1
        OBVIOUS
      <4>2. i \in 1 .. k + 1 /\ i - 1 = d
        BY <4>1
      <4>3. f[i] = IF i = 1 THEN g[i] ELSE f[i - 1] \o g[i]
        BY <2>4, <4>2
      <4>4. h[i] = IF i = 1 THEN g[i] ELSE h[i - 1] \o g[i]
        BY <3>4
      <4>5. i # 1 => f[i - 1] = h[i - 1]
        BY <3>6, <4>1, <4>2
      <4>6. f[i] = h[i]
        BY <4>3, <4>4, <4>5
      <4> QED
        BY <4>1, <4>6
    <3>7. k \in T
      <4> HIDE DEF T
      <4>2. k \in Nat
        OBVIOUS
      <4>1. 0 .. k \subseteq T
        BY <3>5, <3>6, <4>2, UpToBound
      <4> QED
        BY <4>1
    <3>8. f[k] = h[k]
      BY <2>6, <3>7
    <3>9. PICK i \in 1 .. k + 1 : i = k + 1 /\ i # 1 /\ i - 1 = k
      BY <2>6
    <3>11. f[i] = f[i - 1] \o g[i]
      BY <2>4, <3>9
    <3>10. f[k + 1] = f[k] \o g[k + 1]
      BY <3>9, <3>11
    <3> QED
      BY <2>2, <3>2, <3>8, <3>10
  <2> QED
    BY <2>5, <2>6
<1> QED
  BY <1>2, <1>4, <1>5

(* Sequences of one and of two elements.                                    *)
LEMMA OneElement ==
    ASSUME NEW S, NEW e \in S
    PROVE  <<e>> \in Seq(S) /\ Len(<<e>>) = 1 /\ <<e>>[1] = e
OBVIOUS

(* A pair as a sequence.                                                    *)
LEMMA TwoElements ==
    ASSUME NEW S, NEW d \in S, NEW e \in S
    PROVE  <<d, e>> \in Seq(S) /\ Len(<<d, e>>) = 2 /\ <<d, e>>[1] = d /\ <<d, e>>[2] = e
OBVIOUS

(* The labels of a name with their lengths before them.                     *)
CountedLabels(name) == [j \in 1 .. Len(name) |-> Counted(name[j])]

(* A label with its length before it.                                       *)
LEMMA CountedProperties ==
    ASSUME NEW S, 0 .. 255 \subseteq S, NEW label \in Bytes, Len(label) \in S
    PROVE  /\ Counted(label) \in Seq(S) /\ Len(Counted(label)) = 1 + Len(label)
           /\ Counted(label)[1] = Len(label)
           /\ \A x \in 1 .. Len(label) : Counted(label)[1 + x] = label[x]
<1>1. label \in Seq(S) /\ Len(label) \in Nat
  BY SeqMonotonic, LenProperties DEF Bytes
<1> DEFINE len == Len(label)
           one == <<len>>
<1>2. one \in Seq(S) /\ Len(one) = 1 /\ one[1] = len
  <2>1. len \in S
    OBVIOUS
  <2> HIDE DEF len
  <2> QED
    BY <2>1, OneElement
<1>7. len \in Nat
  BY <1>1
<1> HIDE DEF one
<1>3. /\ one \o label \in Seq(S)
      /\ Len(one \o label) = 1 + len
      /\ \A i \in 1 .. 1 + len : (one \o label)[i] = IF i <= 1 THEN one[i] ELSE label[i - 1]
  <2>1. /\ one \o label \in Seq(S)
        /\ Len(one \o label) = Len(one) + Len(label)
        /\ \A i \in 1 .. Len(one) + Len(label) :
              (one \o label)[i] = IF i <= Len(one) THEN one[i] ELSE label[i - Len(one)]
    BY <1>1, <1>2, ConcatProperties
  <2> QED
    BY <1>2, <2>1
<1>4. Counted(label) = one \o label
  BY DEF Counted, one
<1> HIDE DEF len
<1>5. Counted(label)[1] = len
  <2>1. PICK i \in 1 .. 1 + len : i = 1 /\ i <= 1
    BY <1>7
  <2>2. (one \o label)[i] = one[i]
    BY <1>3, <2>1
  <2> QED
    BY <1>2, <1>4, <2>1, <2>2
<1>6. ASSUME NEW x \in 1 .. len PROVE Counted(label)[1 + x] = label[x]
  <2>1. PICK i \in 1 .. 1 + len : i = 1 + x /\ ~ (i <= 1) /\ i - 1 = x
    BY <1>7
  <2>2. (one \o label)[i] = label[i - 1]
    BY <1>3, <2>1
  <2> QED
    BY <1>4, <2>1, <2>2
<1> QED
  BY <1>3, <1>4, <1>5, <1>6 DEF len

(* Where the labels of a name begin.                                       *)
LEMMA PrefixSteps ==
    ASSUME NEW name \in Seq(Bytes)
    PROVE  /\ PrefixLength(name, 1) = 0
           /\ \A i \in 1 .. Len(name) + 1 :
                 /\ PrefixLength(name, i) \in Nat
                 /\ Flat(CountedLabels(name), i - 1) \in Seq(Nat)
                 /\ PrefixLength(name, i) = Len(Flat(CountedLabels(name), i - 1))
           /\ \A i \in 1 .. Len(name) :
                 /\ PrefixLength(name, i + 1) = PrefixLength(name, i) + 1 + Len(name[i])
                 /\ Flat(CountedLabels(name), i) = Flat(CountedLabels(name), i - 1) \o Counted(name[i])
<1> DEFINE n == Len(name)
           c == CountedLabels(name)
<1>1. n \in Nat /\ \A i \in 1 .. n : name[i] \in Bytes
  BY LenProperties, ElementOfSeq
<1>2. \A i \in 1 .. n : Len(name[i]) \in Nat
  BY <1>1, LenProperties DEF Bytes
<1>3. \A i \in 1 .. n : /\ c[i] = Counted(name[i]) /\ c[i] \in Seq(Nat)
                        /\ Len(c[i]) = 1 + Len(name[i])
  <2> SUFFICES ASSUME NEW i \in 1 .. n
               PROVE  /\ c[i] = Counted(name[i]) /\ c[i] \in Seq(Nat)
                      /\ Len(c[i]) = 1 + Len(name[i])
    OBVIOUS
  <2>1. Counted(name[i]) \in Seq(Nat) /\ Len(Counted(name[i])) = 1 + Len(name[i])
    BY <1>1, <1>2, CountedProperties, 0 .. 255 \subseteq Nat
  <2>2. c[i] = Counted(name[i])
    BY DEF CountedLabels
  <2> QED
    BY <2>1, <2>2
<1>4. \A i \in 1 .. n + 1 : PrefixLength(name, i) = Len(Flat(c, i - 1))
  <2> SUFFICES ASSUME NEW i \in 1 .. n + 1 PROVE PrefixLength(name, i) = Len(Flat(c, i - 1))
    OBVIOUS
  <2>1. \A j \in 1 .. i - 1 : c[j] = Counted(name[j])
    BY <1>1, <1>3
  <2> HIDE DEF c
  <2>2. [j \in 1 .. i - 1 |-> Counted(name[j])] = [j \in 1 .. i - 1 |-> c[j]]
    BY <2>1
  <2> QED
    BY <2>2 DEF PrefixLength, Flat
<1> HIDE DEF c, n
<1>5. /\ Flat(c, 0) = <<>>
      /\ \A k \in 0 .. n : Flat(c, k) \in Seq(Nat)
      /\ \A k \in 0 .. n - 1 : Flat(c, k + 1) = Flat(c, k) \o c[k + 1]
  BY <1>1, <1>3, FlatStep
<1>6. ASSUME NEW i \in 1 .. n + 1
      PROVE  /\ PrefixLength(name, i) \in Nat
             /\ Flat(c, i - 1) \in Seq(Nat)
             /\ PrefixLength(name, i) = Len(Flat(c, i - 1))
  <2>1. i - 1 \in 0 .. n
    BY <1>1
  <2>2. Flat(c, i - 1) \in Seq(Nat)
    BY <1>5, <2>1
  <2>3. Len(Flat(c, i - 1)) \in Nat
    BY <2>2, LenProperties
  <2> QED
    BY <1>4, <2>2, <2>3
<1>7. ASSUME NEW i \in 1 .. n
      PROVE  /\ PrefixLength(name, i + 1) = PrefixLength(name, i) + 1 + Len(name[i])
             /\ Flat(c, i) = Flat(c, i - 1) \o Counted(name[i])
  <2>1. PICK k \in 0 .. n - 1 : k = i - 1 /\ k + 1 = i
    BY <1>1
  <2>2. Flat(c, i) = Flat(c, i - 1) \o c[i]
    BY <1>5, <2>1
  <2>3. PICK j \in 1 .. n + 1 : j = i + 1 /\ j - 1 = i
    BY <1>1
  <2>4. PrefixLength(name, i + 1) = Len(Flat(c, i))
    BY <1>4, <2>3
  <2>5. i \in 1 .. n + 1
    BY <1>1
  <2>6. PrefixLength(name, i) = Len(Flat(c, i - 1)) /\ Flat(c, i - 1) \in Seq(Nat)
    BY <1>6, <2>5
  <2>7. Len(Flat(c, i - 1) \o c[i]) = Len(Flat(c, i - 1)) + Len(c[i])
    BY <1>3, <2>6, ConcatProperties
  <2>8. PrefixLength(name, i) \in Nat /\ Len(name[i]) \in Nat
    BY <1>2, <1>6, <2>5
  <2>9. Len(c[i]) = 1 + Len(name[i]) /\ c[i] = Counted(name[i])
    BY <1>3
  <2> DEFINE before == Flat(c, i - 1)
             after == Flat(c, i)
             l == Len(name[i])
  <2>10. PrefixLength(name, i + 1) = PrefixLength(name, i) + 1 + l
    <3> DEFINE p == PrefixLength(name, i)
           q == PrefixLength(name, i + 1)
    <3>1. Len(after) = Len(before) + Len(c[i])
      BY <2>2, <2>7
    <3>2. q = Len(after) /\ p = Len(before) /\ Len(c[i]) = 1 + l /\ p \in Nat /\ l \in Nat
      BY <2>4, <2>6, <2>8, <2>9
    <3> HIDE DEF before, after, p, q, l
    <3>3. q = p + 1 + l
      BY <3>1, <3>2
    <3> QED
      BY <3>3 DEF p, q
  <2> QED
    BY <2>2, <2>9, <2>10
<1>8. PrefixLength(name, 1) = 0
  <2>1. 1 \in 1 .. n + 1 /\ 1 - 1 = 0
    BY <1>1
  <2>2. PrefixLength(name, 1) = Len(Flat(c, 1 - 1))
    BY <1>4, <2>1
  <2>3. Len(<<>>) = 0
    OBVIOUS
  <2> QED
    BY <1>5, <2>2, <2>3
<1> QED
  BY <1>6, <1>7, <1>8 DEF c, n

(* The length of a name as text, and of what follows a number of labels.     *)
LEMMA SuffixText ==
    ASSUME NEW name \in Seq(Bytes), NEW i \in 1 .. Len(name)
    PROVE  /\ SubSeq(name, i, Len(name)) \in Seq(Bytes)
           /\ Len(SubSeq(name, i, Len(name))) = Len(name) - i + 1
           /\ \A j \in 1 .. Len(name) - i + 1 : SubSeq(name, i, Len(name))[j] = name[i + j - 1]
           /\ TextLength(SubSeq(name, i, Len(name)))
                 = PrefixLength(name, Len(name) + 1) - PrefixLength(name, i)
<1> DEFINE n == Len(name)
           s == SubSeq(name, i, n)
           m == n - i + 1
<1>1. n \in Nat /\ \A j \in 1 .. n : name[j] \in Bytes /\ Len(name[j]) \in Nat
  BY LenProperties, ElementOfSeq DEF Bytes
<1>2. s \in Seq(Bytes) /\ Len(s) = m /\ \A j \in 1 .. m : s[j] = name[i + j - 1]
  <2>1. \A j \in i .. n : name[j] \in Bytes
    BY <1>1
  <2>2. i \in Int /\ n \in Int /\ i <= n
    BY <1>1
  <2>3. /\ SubSeq(name, i, n) \in Seq(Bytes)
        /\ Len(SubSeq(name, i, n)) = IF i <= n THEN n - i + 1 ELSE 0
        /\ \A j \in 1 .. n - i + 1 : SubSeq(name, i, n)[j] = name[i + j - 1]
    BY <2>1, <2>2, SubSeqProperties
  <2> QED
    BY <2>2, <2>3
<1> HIDE DEF s
<1>3. m \in Nat /\ m # 0
  BY <1>1
<1> HIDE DEF n
<1>4. /\ Flat(s, 0) = <<>>
      /\ \A k \in 0 .. m : Flat(s, k) \in Seq(0 .. 255)
      /\ \A k \in 0 .. m - 1 : Flat(s, k + 1) = Flat(s, k) \o s[k + 1]
  <2>1. \A j \in 1 .. m : s[j] \in Seq(0 .. 255)
    BY <1>2, ElementOfSeq DEF Bytes
  <2> HIDE DEF m
  <2> DEFINE octets == 0 .. 255
  <2>2. \A j \in 1 .. m : s[j] \in Seq(octets)
    BY <2>1
  <2>3. m \in Nat
    BY <1>3
  <2> HIDE DEF octets
  <2>4. /\ Flat(s, 0) = <<>> /\ \A k \in 0 .. m : Flat(s, k) \in Seq(octets)
        /\ \A k \in 0 .. m - 1 : Flat(s, k + 1) = Flat(s, k) \o s[k + 1]
    BY <2>2, <2>3, FlatStep
  <2> QED
    BY <2>4 DEF octets
<1>5. \A j \in 1 .. n : PrefixLength(name, j + 1) = PrefixLength(name, j) + 1 + Len(name[j])
  BY PrefixSteps DEF n
<1>6. \A j \in 1 .. n + 1 : PrefixLength(name, j) \in Nat
  BY PrefixSteps DEF n
<1> DEFINE T == {k \in 0 .. m : Len(Flat(s, k)) + k = PrefixLength(name, i + k) - PrefixLength(name, i)}
<1>7. 0 \in T
  <2>1. i + 0 = i /\ PrefixLength(name, i) \in Nat
    BY <1>1, <1>6 DEF n
  <2>2. Len(<<>>) = 0
    OBVIOUS
  <2> QED
    BY <1>3, <1>4, <2>1, <2>2
<1>8. ASSUME NEW k \in 0 .. m - 1, k \in T PROVE k + 1 \in T
  <2>1. PICK j \in 1 .. n : j = i + k
    BY <1>1, <1>3 DEF n
  <2>2. PICK x \in 1 .. m : x = k + 1 /\ i + x - 1 = j /\ i + x = j + 1
    BY <2>1, <1>3, <1>1 DEF n
  <2>3. s[x] = name[j]
    BY <1>2, <2>2
  <2>4. Flat(s, x) = Flat(s, k) \o s[x] /\ Flat(s, k) \in Seq(0 .. 255)
    BY <1>3, <1>4, <2>2
  <2>5. Len(Flat(s, x)) = Len(Flat(s, k)) + Len(name[j]) /\ Len(Flat(s, k)) \in Nat
    <3>1. name[j] \in Seq(0 .. 255)
      BY <1>1 DEF Bytes
    <3> QED
      BY <2>3, <2>4, <3>1, ConcatProperties, LenProperties
  <2>6. Len(Flat(s, k)) + k = PrefixLength(name, j) - PrefixLength(name, i)
    BY <1>8, <2>1
  <2>7. PrefixLength(name, j + 1) = PrefixLength(name, j) + 1 + Len(name[j])
    BY <1>5
  <2>8. PrefixLength(name, j) \in Nat /\ PrefixLength(name, i) \in Nat /\ Len(name[j]) \in Nat
    <3>1. j \in 1 .. n + 1 /\ i \in 1 .. n + 1
      BY <1>1 DEF n
    <3> QED
      BY <1>1, <1>6, <3>1
  <2>9. Len(Flat(s, x)) + x = PrefixLength(name, i + x) - PrefixLength(name, i)
    <3> DEFINE a == PrefixLength(name, i)
    <3> DEFINE b == PrefixLength(name, j)
    <3> DEFINE c == PrefixLength(name, j + 1)
    <3> DEFINE u == Len(Flat(s, k))
    <3> DEFINE v == Len(Flat(s, x))
    <3> DEFINE l == Len(name[j])
    <3>1. a \in Nat /\ b \in Nat /\ l \in Nat /\ u \in Nat /\ c = b + 1 + l /\ v = u + l /\ u + k = b - a
      BY <2>5, <2>6, <2>7, <2>8
    <3> HIDE DEF a, b, c, u, v, l
    <3>2. v + x = c - a
      BY <2>2, <3>1
    <3> QED
      BY <2>2, <3>2 DEF a, c, v
  <2>10. x \in 0 .. m /\ x = k + 1
    BY <1>3, <2>2
  <2> QED
    BY <2>9, <2>10
<1>9. m \in T
  <2> HIDE DEF T, m
  <2>1. 0 .. m \subseteq T
    BY <1>3, <1>7, <1>8, UpToBound
  <2> QED
    BY <1>3, <2>1
<1>10. TextLength(s) = Len(Flat(s, m)) + m
  <2>1. s # <<>>
    BY <1>2, <1>3
  <2>2. [j \in 1 .. m |-> s[j]] = s
    BY <1>2
  <2> QED
    BY <1>2, <2>1, <2>2 DEF TextLength, Flat
<1>11. i + m = n + 1
  BY <1>1 DEF n
<1> QED
  BY <1>2, <1>9, <1>10, <1>11 DEF s, n

(* Where the first k labels of a name stand, with their lengths.            *)
LEMMA LabelsLaid ==
    ASSUME NEW name \in Seq(Bytes), NEW k \in 0 .. Len(name)
    PROVE  \A i \in 1 .. k :
              /\ PrefixLength(name, i) + 1 + Len(name[i]) <= PrefixLength(name, k + 1)
              /\ Flat(CountedLabels(name), k)[PrefixLength(name, i) + 1] = Len(name[i])
              /\ \A x \in 1 .. Len(name[i]) :
                    Flat(CountedLabels(name), k)[PrefixLength(name, i) + 1 + x] = name[i][x]
<1> DEFINE n == Len(name)
           flat(j) == Flat(CountedLabels(name), j)
           p(i) == PrefixLength(name, i)
           Laid(j, i) == /\ p(i) + 1 + Len(name[i]) <= p(j + 1)
                         /\ flat(j)[p(i) + 1] = Len(name[i])
                         /\ \A x \in 1 .. Len(name[i]) : flat(j)[p(i) + 1 + x] = name[i][x]
           T == {j \in 0 .. k : \A i \in 1 .. j : Laid(j, i)}
<1>1. n \in Nat /\ \A j \in 1 .. n : name[j] \in Bytes /\ Len(name[j]) \in Nat
  BY LenProperties, ElementOfSeq DEF Bytes
<1>2. \A i \in 1 .. n + 1 : p(i) \in Nat /\ flat(i - 1) \in Seq(Nat) /\ p(i) = Len(flat(i - 1))
  BY PrefixSteps
<1>3. \A i \in 1 .. n : p(i + 1) = p(i) + 1 + Len(name[i]) /\ flat(i) = flat(i - 1) \o Counted(name[i])
  BY PrefixSteps
<1>4. 0 \in T
  OBVIOUS
<1>5. ASSUME NEW d \in 0 .. k - 1, d \in T PROVE d + 1 \in T
  <2>1. PICK e \in 1 .. n : e = d + 1 /\ e - 1 = d /\ e \in 1 .. n + 1 /\ e \in 1 .. k
    BY <1>1
  <2> DEFINE c == Counted(name[e])
             l == Len(name[e])
  <2>2. /\ name[e] \in Bytes /\ l \in Nat /\ p(e) \in Nat /\ p(e + 1) = p(e) + 1 + l
        /\ flat(d) \in Seq(Nat) /\ Len(flat(d)) = p(e) /\ flat(e) = flat(d) \o c
    BY <1>1, <1>2, <1>3, <2>1
  <2>3. /\ c \in Seq(Nat) /\ Len(c) = 1 + l /\ c[1] = l
        /\ \A x \in 1 .. l : c[1 + x] = name[e][x]
    BY <2>2, CountedProperties, 0 .. 255 \subseteq Nat
  <2> HIDE DEF c, flat, p
  <2>4. \A y \in 1 .. p(e) + (1 + l) :
           flat(e)[y] = IF y <= p(e) THEN flat(d)[y] ELSE c[y - p(e)]
    <3>1. \A y \in 1 .. Len(flat(d)) + Len(c) :
             (flat(d) \o c)[y] = IF y <= Len(flat(d)) THEN flat(d)[y] ELSE c[y - Len(flat(d))]
      <4> DEFINE f == flat(d)
      <4>1. f \in Seq(Nat)
        BY <2>2
      <4> HIDE DEF f
      <4>2. \A y \in 1 .. Len(f) + Len(c) :
               (f \o c)[y] = IF y <= Len(f) THEN f[y] ELSE c[y - Len(f)]
        BY <2>3, <4>1, ConcatProperties
      <4> QED
        BY <4>2 DEF f
    <3> HIDE DEF l
    <3> QED
      BY <2>2, <2>3, <3>1
  <2> HIDE DEF l
  <2>5. ASSUME NEW i \in 1 .. d PROVE Laid(e, i)
    <3> DEFINE a == Len(name[i])
    <3>1. Laid(d, i)
      BY <1>5
    <3>2. i \in 1 .. n /\ i \in 1 .. n + 1
      BY <1>1, <2>1
    <3>3. a \in Nat /\ p(i) \in Nat
      BY <1>1, <1>2, <3>2
    <3>4. d + 1 = e
      BY <2>1
    <3>5. p(i) + 1 + a <= p(e)
      BY <3>1, <3>4
    <3>9. flat(d)[p(i) + 1] = a /\ \A x \in 1 .. a : flat(d)[p(i) + 1 + x] = name[i][x]
      BY <3>1
    <3> HIDE DEF a, Laid
    <3>6. p(i) + 1 + a <= p(e + 1)
      BY <2>2, <3>3, <3>5
    <3>7. flat(e)[p(i) + 1] = a
      <4>1. p(i) + 1 \in 1 .. p(e) + (1 + l) /\ p(i) + 1 <= p(e)
        <5> DEFINE first == p(i)
        <5> DEFINE last == p(e)
        <5>1. first \in Nat /\ last \in Nat /\ l \in Nat /\ a \in Nat /\ first + 1 + a <= last
          BY <2>2, <3>3, <3>5
        <5> HIDE DEF first, last
        <5>2. first + 1 \in 1 .. last + (1 + l) /\ first + 1 <= last
          BY <5>1
        <5> QED
          BY <5>2 DEF first, last
      <4> QED
        BY <2>4, <3>9, <4>1
    <3>8. ASSUME NEW x \in 1 .. a PROVE flat(e)[p(i) + 1 + x] = name[i][x]
      <4>2. /\ p(e) \in Nat /\ l \in Nat /\ x \in Int /\ 1 <= x /\ x <= a
            /\ p(i) \in Nat /\ a \in Nat
        BY <2>2, <3>3
      <4>1. p(i) + 1 + x \in 1 .. p(e) + (1 + l) /\ p(i) + 1 + x <= p(e)
        BY <3>5, <4>2
      <4> QED
        BY <2>4, <3>9, <4>1
    <3> QED
      BY <3>6, <3>7, <3>8 DEF a, Laid
  <2>6. Laid(e, e)
    <3>1. p(e) + 1 + l <= p(e + 1)
      BY <2>2
    <3>2. flat(e)[p(e) + 1] = l
      <4>1. PICK y \in 1 .. p(e) + (1 + l) : y = p(e) + 1 /\ ~ (y <= p(e)) /\ y - p(e) = 1
        BY <2>2
      <4>2. flat(e)[y] = c[y - p(e)]
        BY <2>4, <4>1
      <4>3. c[1] = l
        BY <2>3
      <4> QED
        BY <4>1, <4>2, <4>3
    <3>3. ASSUME NEW x \in 1 .. l PROVE flat(e)[p(e) + 1 + x] = name[e][x]
      <4>3. p(e) \in Nat /\ l \in Nat /\ x \in Int /\ 1 <= x /\ x <= l
        BY <2>2
      <4>1. PICK y \in 1 .. p(e) + (1 + l) : y = p(e) + 1 + x /\ ~ (y <= p(e)) /\ y - p(e) = 1 + x
        BY <4>3
      <4>2. flat(e)[y] = c[y - p(e)]
        BY <2>4, <4>1
      <4> QED
        BY <2>3, <4>1, <4>2
    <3> QED
      BY <3>1, <3>2, <3>3 DEF l
  <2> HIDE DEF Laid
  <2>7. \A i \in 1 .. e : Laid(e, i)
    <3>1. \A i \in 1 .. e : i \in 1 .. d \/ i = e
      BY <2>1
    <3> QED
      BY <2>5, <2>6, <3>1
  <2> QED
    BY <2>1, <2>7
<1>6. k \in T
  <2>1. k \in Nat
    OBVIOUS
  <2> HIDE DEF T
  <2>2. 0 .. k \subseteq T
    BY <1>4, <1>5, <2>1, UpToBound
  <2> QED
    BY <2>1, <2>2
<1> QED
  BY <1>6

(* The first labels of a name are bytes if none is too long.               *)
LEMMA LabelsAreBytes ==
    ASSUME NEW name \in Seq(Bytes), NEW k \in 0 .. Len(name), \A i \in 1 .. k : Len(name[i]) <= 255
    PROVE  Flat(CountedLabels(name), k) \in Bytes
<1>1. Len(name) \in Nat /\ k \in Nat
  BY LenProperties
<1>2. ASSUME NEW i \in 1 .. k PROVE CountedLabels(name)[i] \in Seq(0 .. 255)
  <2>1. i \in 1 .. Len(name)
    BY <1>1
  <2>2. name[i] \in Bytes
    BY <2>1, ElementOfSeq
  <2>5. Len(name[i]) \in Nat
    BY <2>2, LenProperties DEF Bytes
  <2> DEFINE l == Len(name[i])
  <2>6. l \in Nat /\ l <= 255
    BY <2>5
  <2> HIDE DEF l
  <2>7. l \in 0 .. 255
    BY <2>6
  <2>3. Len(name[i]) \in 0 .. 255
    BY <2>7 DEF l
  <2>4. Counted(name[i]) \in Seq(0 .. 255)
    <3> DEFINE S == 0 .. 255
    <3>1. Len(name[i]) \in S /\ 0 .. 255 \subseteq S
      BY <2>3
    <3> HIDE DEF S
    <3>2. Counted(name[i]) \in Seq(S)
      BY <2>2, <3>1, CountedProperties
    <3> QED
      BY <3>2 DEF S
  <2> QED
    BY <2>1, <2>4 DEF CountedLabels
<1>3. k \in 0 .. k
  BY <1>1
<1> DEFINE c == CountedLabels(name)
<1>4. \A i \in 1 .. k : c[i] \in Seq(0 .. 255)
  BY <1>2
<1> HIDE DEF c
<1>5. Flat(c, k) \in Seq(0 .. 255)
  BY <1>1, <1>3, <1>4, FlatStep
<1> QED
  BY <1>5 DEF c, Bytes

(* What reading a name gives.                                              *)
NameReads == {Failure} \cup [ok : {TRUE}, value : Seq(Bytes), next : Nat]

(* The recursion of LabelsFrom.                                             *)
LabelsStep(msg, followed, from) ==
    [at \in Nat \X (0 .. followed) |->
            LET o == at[1]
                left == at[2]
                c == At(msg, o)
                to == (c - PointerMark) * 256 + At(msg, o + 1)
            IN  IF o >= Len(msg) THEN Failure
                ELSE IF c = 0 THEN Found(<<>>, o + 1)
                ELSE IF c <= MaxLabel
                THEN IF o + 1 + c > Len(msg) THEN Failure
                     ELSE Before(Slice(msg, o + 1, c), from[<<o + 1 + c, left>>])
                ELSE IF c >= PointerMark /\ o + 1 < Len(msg) /\ left > 0
                THEN EndingAt(from[<<to, left - 1>>], o + 2)
                ELSE Failure]

(* What is read at an offset, from what is read further on, given as a       *)
(* function of the offset after a label and of that a pointer gives.        *)
Onwards(msg, o, left, afterLabel, atPointer) ==
    IF o >= Len(msg) THEN Failure
    ELSE IF At(msg, o) = 0 THEN Found(<<>>, o + 1)
    ELSE IF At(msg, o) <= MaxLabel
    THEN IF o + 1 + At(msg, o) > Len(msg) THEN Failure
         ELSE Before(Slice(msg, o + 1, At(msg, o)), afterLabel)
    ELSE IF At(msg, o) >= PointerMark /\ o + 1 < Len(msg) /\ left > 0
    THEN EndingAt(atPointer, o + 2)
    ELSE Failure

(* Where a label at an offset ends, and where a pointer leads.               *)
LabelEnd(msg, o) == o + 1 + At(msg, o)
(* Where the pointer at o points to.                                        *)
PointsTo(msg, o) == (At(msg, o) - PointerMark) * 256 + At(msg, o + 1)

(* The step of the recursion at one place, as a label or a pointer that     *)
(* leads on.                                                                *)
LEMMA LabelsStepIs ==
    ASSUME NEW msg, NEW followed \in Nat, NEW from, NEW o \in Nat, NEW left \in 0 .. followed
    PROVE  LabelsStep(msg, followed, from)[<<o, left>>] =
              Onwards(msg, o, left, from[<<LabelEnd(msg, o), left>>],
                      from[<<PointsTo(msg, o), left - 1>>])
<1>1. <<o, left>> \in Nat \X (0 .. followed) /\ <<o, left>>[1] = o /\ <<o, left>>[2] = left
  OBVIOUS
<1> QED
  BY <1>1 DEF LabelsStep, Onwards, LabelEnd, PointsTo

(* A byte of a message, and a slice of it.                                  *)
LEMMA ByteAt ==
    ASSUME NEW msg \in Bytes, NEW o \in Nat, o < Len(msg)
    PROVE  At(msg, o) \in 0 .. 255
<1>1. Len(msg) \in Nat
  BY LenProperties DEF Bytes
<1>2. o + 1 \in 1 .. Len(msg)
  BY <1>1
<1> QED
  BY <1>2, ElementOfSeq DEF At, Bytes

(* What stands between two places is bytes again.                           *)
LEMMA SliceProperties ==
    ASSUME NEW msg \in Bytes, NEW o \in Nat, NEW n \in Nat, o + n <= Len(msg)
    PROVE  /\ Slice(msg, o, n) \in Bytes /\ Len(Slice(msg, o, n)) = n
           /\ \A x \in 1 .. n : Slice(msg, o, n)[x] = msg[o + x]
<1>1. Len(msg) \in Nat
  BY LenProperties DEF Bytes
<1> DEFINE a == o + 1
           b == o + n
<1>2. a \in Int /\ b \in Int /\ (IF a <= b THEN b - a + 1 ELSE 0) = n /\ b - a + 1 = n
  OBVIOUS
<1>3. \A i \in a .. b : msg[i] \in 0 .. 255
  <2>1. \A i \in a .. b : i \in 1 .. Len(msg)
    BY <1>1
  <2> QED
    BY <2>1, ElementOfSeq DEF Bytes
<1>4. \A x \in 1 .. n : a + x - 1 = o + x
  OBVIOUS
<1> HIDE DEF a, b
<1>5. /\ SubSeq(msg, a, b) \in Seq(0 .. 255)
      /\ Len(SubSeq(msg, a, b)) = IF a <= b THEN b - a + 1 ELSE 0
      /\ \A i \in 1 .. b - a + 1 : SubSeq(msg, a, b)[i] = msg[a + i - 1]
  BY <1>2, <1>3, SubSeqProperties
<1>6. Slice(msg, o, n) = SubSeq(msg, a, b)
  BY DEF Slice, a, b
<1>7. \A x \in 1 .. n : SubSeq(msg, a, b)[x] = msg[o + x]
  BY <1>2, <1>4, <1>5
<1> QED
  BY <1>2, <1>5, <1>6, <1>7 DEF Bytes

(* What has been read with a label before it, and with another end.          *)
LEMMA ReadChanged ==
    ASSUME NEW v, NEW n, NEW l, NEW m
    PROVE  Before(l, Found(v, n)) = Found(<<l>> \o v, n) /\ EndingAt(Found(v, n), m) = Found(v, m)
<1> DEFINE r == Found(v, n)
<1>1. r = [ok |-> TRUE, value |-> v, next |-> n]
  BY DEF Found
<1> HIDE DEF r
<1> DEFINE w == <<l>> \o v
<1>2. r.ok = TRUE /\ r.value = v
  BY <1>1
<1>3. Before(l, r) = [r EXCEPT !.value = w] /\ EndingAt(r, m) = [r EXCEPT !.next = m]
  BY <1>2 DEF Before, EndingAt
<1> HIDE DEF w
<1>4. [r EXCEPT !.value = w] = [ok |-> TRUE, value |-> w, next |-> n]
  <2> DEFINE q == [r EXCEPT !.value = w]
  <2>1. q \in [ok : {TRUE}, value : {w}, next : {n}]
    BY <1>1
  <2> HIDE DEF q
  <2>2. q = [ok |-> TRUE, value |-> w, next |-> n]
    BY <2>1
  <2> QED
    BY <2>2 DEF q
<1>5. [r EXCEPT !.next = m] = [ok |-> TRUE, value |-> v, next |-> m]
  <2> DEFINE q == [r EXCEPT !.next = m]
  <2>1. q \in [ok : {TRUE}, value : {v}, next : {m}]
    BY <1>1
  <2> HIDE DEF q
  <2>2. q = [ok |-> TRUE, value |-> v, next |-> m]
    BY <2>1
  <2> QED
    BY <2>2 DEF q
<1> QED
  BY <1>3, <1>4, <1>5 DEF Found, w, r

(* What has been read before or ends elsewhere has the same type.            *)
LEMMA ReadsTyped ==
    /\ Failure \in NameReads
    /\ \A next \in Nat : Found(<<>>, next) \in NameReads
    /\ \A r \in NameReads, label \in Bytes :
          /\ Before(label, r) \in NameReads
          /\ r = Failure => Before(label, r) = Failure
          /\ r # Failure => Before(label, r) = Found(<<label>> \o r.value, r.next)
    /\ \A r \in NameReads, next \in Nat :
          /\ EndingAt(r, next) \in NameReads
          /\ r = Failure => EndingAt(r, next) = Failure
          /\ r # Failure => EndingAt(r, next) = Found(r.value, next)
    /\ \A r \in NameReads : (r.ok <=> r # Failure) /\ (r.ok \in BOOLEAN)
    /\ \A r \in NameReads : r.ok => r.value \in Seq(Bytes) /\ r.next \in Nat /\ r = Found(r.value, r.next)
<1>1. Failure.ok = FALSE /\ Failure \in NameReads
  BY DEF Failure, NameReads
<1>2. ASSUME NEW value \in Seq(Bytes), NEW next \in Nat
      PROVE  Found(value, next) \in NameReads /\ Found(value, next).ok = TRUE
  BY DEF Found, NameReads
<1>3. \A next \in Nat : Found(<<>>, next) \in NameReads
  BY <1>2, EmptySeq
<1>4. \A r \in NameReads : r # Failure => /\ r.ok = TRUE /\ r.value \in Seq(Bytes) /\ r.next \in Nat
                                          /\ r = Found(r.value, r.next)
  <2> SUFFICES ASSUME NEW r \in NameReads, r # Failure
               PROVE  /\ r.ok = TRUE /\ r.value \in Seq(Bytes) /\ r.next \in Nat
                      /\ r = Found(r.value, r.next)
    OBVIOUS
  <2> DEFINE V == Seq(Bytes)
  <2>1. r \in [ok : {TRUE}, value : V, next : Nat]
    BY DEF NameReads
  <2> HIDE DEF V
  <2>2. r.ok = TRUE /\ r.value \in V /\ r.next \in Nat
    BY <2>1
  <2>3. r = [ok |-> TRUE, value |-> r.value, next |-> r.next]
    BY <2>1, <2>2
  <2> QED
    BY <2>2, <2>3 DEF V, Found
<1>5. ASSUME NEW r \in NameReads, NEW label \in Bytes
      PROVE  /\ Before(label, r) \in NameReads
             /\ r = Failure => Before(label, r) = Failure
             /\ r # Failure => Before(label, r) = Found(<<label>> \o r.value, r.next)
  <2>1. CASE r = Failure
    BY <1>1, <2>1 DEF Before
  <2>2. CASE r # Failure
    <3>1. <<label>> \in Seq(Bytes)
      BY OneElement
    <3>2. <<label>> \o r.value \in Seq(Bytes)
      BY <1>4, <2>2, <3>1, ConcatProperties
    <3>3. Before(label, r) = Found(<<label>> \o r.value, r.next)
      <4>1. Before(label, Found(r.value, r.next)) = Found(<<label>> \o r.value, r.next)
        BY ReadChanged
      <4> QED
        BY <1>4, <2>2, <4>1
    <3> QED
      BY <1>2, <1>4, <2>2, <3>2, <3>3
  <2> QED
    BY <2>1, <2>2
<1>6. ASSUME NEW r \in NameReads, NEW next \in Nat
      PROVE  /\ EndingAt(r, next) \in NameReads
             /\ r = Failure => EndingAt(r, next) = Failure
             /\ r # Failure => EndingAt(r, next) = Found(r.value, next)
  <2>1. CASE r = Failure
    BY <1>1, <2>1 DEF EndingAt
  <2>2. CASE r # Failure
    <3>2. r = Found(r.value, r.next)
      BY <1>4, <2>2
    <3>3. EndingAt(Found(r.value, r.next), next) = Found(r.value, next)
      BY ReadChanged
    <3>1. EndingAt(r, next) = Found(r.value, next)
      BY <3>2, <3>3
    <3> QED
      BY <1>2, <1>4, <2>2, <3>1
  <2> QED
    BY <2>1, <2>2
<1> QED
  BY <1>1, <1>3, <1>4, <1>5, <1>6

(* Reading on from results of the right type gives one.                     *)
LEMMA OnwardsTyped ==
    ASSUME NEW msg \in Bytes, NEW o \in Nat, NEW left, NEW afterLabel, NEW atPointer,
           (o < Len(msg) /\ At(msg, o) <= MaxLabel) => afterLabel \in NameReads,
           (o < Len(msg) /\ o + 1 < Len(msg) /\ At(msg, o) >= PointerMark /\ left > 0) => atPointer \in NameReads
    PROVE  Onwards(msg, o, left, afterLabel, atPointer) \in NameReads
<1> DEFINE c == At(msg, o)
<1>1. Len(msg) \in Nat
  BY LenProperties DEF Bytes
<1>2. CASE o >= Len(msg)
  BY <1>2, ReadsTyped DEF Onwards
<1>3. CASE o < Len(msg)
  <2>1. c \in 0 .. 255 /\ ~ (o >= Len(msg)) /\ o + 1 \in Nat /\ o + 2 \in Nat
    BY <1>1, <1>3, ByteAt
  <2> HIDE DEF c
  <2>2. CASE c = 0
    BY <2>1, <2>2, ReadsTyped DEF Onwards, c
  <2>3. CASE c # 0 /\ c <= MaxLabel
    <3>1. CASE o + 1 + c > Len(msg)
      BY <2>1, <2>3, <3>1, ReadsTyped DEF Onwards, c
    <3>2. CASE ~ (o + 1 + c > Len(msg))
      <4>1. (o + 1) + c <= Len(msg) /\ c \in Nat
        BY <1>1, <2>1, <3>2
      <4>2. Slice(msg, o + 1, c) \in Bytes
        BY <2>1, <4>1, SliceProperties
      <4>3. Onwards(msg, o, left, afterLabel, atPointer) = Before(Slice(msg, o + 1, c), afterLabel)
        BY <2>1, <2>3, <3>2 DEF Onwards, c
      <4>4. afterLabel \in NameReads
        BY <1>3, <2>3 DEF c
      <4> QED
        BY <4>2, <4>3, <4>4, ReadsTyped
    <3> QED
      BY <3>1, <3>2
  <2>4. CASE c # 0 /\ ~ (c <= MaxLabel)
    <3>1. CASE c >= PointerMark /\ o + 1 < Len(msg) /\ left > 0
      <4>1. Onwards(msg, o, left, afterLabel, atPointer) = EndingAt(atPointer, o + 2)
        BY <2>1, <2>4, <3>1 DEF Onwards, c
      <4>2. atPointer \in NameReads
        BY <1>3, <3>1 DEF c
      <4> QED
        BY <2>1, <4>1, <4>2, ReadsTyped
    <3>2. CASE ~ (c >= PointerMark /\ o + 1 < Len(msg) /\ left > 0)
      <4>1. Onwards(msg, o, left, afterLabel, atPointer) = Failure
        BY <2>1, <2>4, <3>2 DEF Onwards, c
      <4> QED
        BY <4>1, ReadsTyped
    <3> QED
      BY <3>1, <3>2
  <2> QED
    BY <2>2, <2>3, <2>4
<1> QED
  BY <1>1, <1>2, <1>3

(* Is there a label at an offset, or a pointer that is followed?             *)
HasLabel(msg, o) == o < Len(msg) /\ At(msg, o) # 0 /\ At(msg, o) <= MaxLabel /\ LabelEnd(msg, o) <= Len(msg)
(* At o stands a pointer that may still be followed.                        *)
HasPointer(msg, o, left) ==
    o < Len(msg) /\ o + 1 < Len(msg) /\ ~ (At(msg, o) <= MaxLabel) /\ At(msg, o) >= PointerMark /\ left > 0

(* A reading at o depends on the one place it leads on to.                  *)
LEMMA OnwardsSame ==
    ASSUME NEW msg \in Bytes, NEW o \in Nat, NEW left \in Nat, NEW a, NEW b, NEW c, NEW d,
           HasLabel(msg, o) => a = c, HasPointer(msg, o, left) => b = d
    PROVE  Onwards(msg, o, left, a, b) = Onwards(msg, o, left, c, d)
<1>1. Len(msg) \in Nat
  BY LenProperties DEF Bytes
<1>2. CASE o >= Len(msg)
  BY <1>2 DEF Onwards
<1>3. CASE o < Len(msg)
  <2>1. At(msg, o) \in 0 .. 255
    BY <1>3, ByteAt
  <2>2. CASE HasLabel(msg, o)
    BY <1>1, <1>3, <2>1, <2>2 DEF Onwards, HasLabel
  <2>3. CASE HasPointer(msg, o, left)
    <3>1. At(msg, o) # 0
      BY <2>1, <2>3 DEF HasPointer, PointerMark
    <3> QED
      BY <1>1, <1>3, <2>1, <2>3, <3>1 DEF Onwards, HasPointer
  <2>4. CASE ~ HasLabel(msg, o) /\ ~ HasPointer(msg, o, left)
    <3> DEFINE x == At(msg, o)
    <3>1. x \in 0 .. 255 /\ LabelEnd(msg, o) = o + 1 + x
      BY <2>1 DEF LabelEnd
    <3>2. x # 0 /\ x <= MaxLabel => o + 1 + x > Len(msg)
      <4>1. ~ (x # 0 /\ x <= MaxLabel /\ LabelEnd(msg, o) <= Len(msg))
        BY <1>3, <2>4 DEF HasLabel
      <4> DEFINE l == Len(msg)
                 e == LabelEnd(msg, o)
      <4>4. e = o + 1 + x
        BY <3>1
      <4>5. x \in Nat
        BY <3>1
      <4>6. e \in Nat
        <5> HIDE DEF e, x
        <5> QED
          BY <4>4, <4>5
      <4>2. e \in Nat /\ l \in Nat /\ e = o + 1 + x
        BY <1>1, <4>4, <4>6
      <4>3. ~ (e <= l) => e > l
        <5> HIDE DEF e, l
        <5> QED
          BY <4>2
      <4> QED
        BY <4>1, <4>2, <4>3
    <3>3. ~ (x <= MaxLabel) => ~ (x >= PointerMark /\ o + 1 < Len(msg) /\ left > 0)
      BY <1>3, <2>4 DEF HasPointer
    <3>4. \A u, v : Onwards(msg, o, left, u, v) =
                    IF o >= Len(msg) THEN Failure
                    ELSE IF x = 0 THEN Found(<<>>, o + 1)
                    ELSE IF x <= MaxLabel
                    THEN IF o + 1 + x > Len(msg) THEN Failure ELSE Before(Slice(msg, o + 1, x), u)
                    ELSE IF x >= PointerMark /\ o + 1 < Len(msg) /\ left > 0
                    THEN EndingAt(v, o + 2) ELSE Failure
      BY DEF Onwards
    <3> HIDE DEF x
    <3>5. CASE x = 0
      BY <3>4, <3>5
    <3>6. CASE x # 0 /\ x <= MaxLabel
      BY <3>2, <3>4, <3>6
    <3>7. CASE x # 0 /\ ~ (x <= MaxLabel)
      BY <3>3, <3>4, <3>7
    <3> QED
      BY <3>5, <3>6, <3>7
  <2> QED
    BY <2>2, <2>3, <2>4
<1> QED
  BY <1>1, <1>2, <1>3

(* How much there is to read at most: first how many pointers are left.      *)
ReadRank(len, o, left) == left * (len + 1) + (IF o < len THEN len - o ELSE 0)

(* The rank falls with every label and every pointer.                       *)
LEMMA ReadRankFalls ==
    ASSUME NEW len \in Nat, NEW o \in Nat, NEW left \in Nat
    PROVE  /\ ReadRank(len, o, left) \in Nat
           /\ \A k \in Nat : left <= k => ReadRank(len, o, left) <= k * (len + 1) + len
           /\ \A e \in Nat : o < len /\ o < e => ReadRank(len, e, left) < ReadRank(len, o, left)
           /\ left > 0 => \A e \in Nat : ReadRank(len, e, left - 1) < ReadRank(len, o, left)
<1> DEFINE w == len + 1
<1>1. \A k \in Nat : k * w \in Nat
  OBVIOUS
<1>2. \A k \in Nat : left <= k => left * w <= k * w
  <2> SUFFICES ASSUME NEW k \in Nat, left <= k PROVE left * w <= k * w
    OBVIOUS
  <2>1. (k - left) * w \in Nat
    <3>1. k - left \in Nat
      OBVIOUS
    <3> DEFINE j == k - left
    <3> HIDE DEF j
    <3>2. j \in Nat
      BY <3>1 DEF j
    <3>3. j * w \in Nat
      BY <1>1, <3>2
    <3> QED
      BY <3>3 DEF j
  <2>2. (k - left) * w = k * w - left * w
    OBVIOUS
  <2> HIDE DEF w
  <2>3. k * w \in Nat /\ left * w \in Nat
    BY <1>1
  <2> QED
    BY <2>1, <2>2, <2>3
<1>3. left > 0 => (left - 1) * w = left * w - w
  OBVIOUS
<1>4. left * w \in Nat
  BY <1>1
<1> DEFINE x == left * w
           y == (left - 1) * w
<1>5. x \in Nat /\ (left > 0 => y = x - w /\ y + w = x)
  BY <1>3, <1>4
<1>6. \A e \in Nat : /\ ReadRank(len, e, left) = x + (IF e < len THEN len - e ELSE 0)
                     /\ ReadRank(len, e, left - 1) = y + (IF e < len THEN len - e ELSE 0)
  BY DEF ReadRank
<1> HIDE DEF x, y
<1>7. \A k \in Nat : left <= k => x <= k * w
  BY <1>2 DEF x
<1>8. ReadRank(len, o, left) \in Nat
  BY <1>5, <1>6
<1>9. ASSUME NEW k \in Nat, left <= k PROVE ReadRank(len, o, left) <= k * w + len
  <2> DEFINE z == k * w
  <2>1. z \in Nat /\ x <= z
    BY <1>1, <1>7, <1>9
  <2> HIDE DEF z
  <2>2. ReadRank(len, o, left) <= z + len
    BY <1>5, <1>6, <2>1
  <2> QED
    BY <2>2 DEF z
<1>10. \A e \in Nat : o < len /\ o < e => ReadRank(len, e, left) < ReadRank(len, o, left)
  BY <1>5, <1>6
<1>11. left > 0 => \A e \in Nat : ReadRank(len, e, left - 1) < ReadRank(len, o, left)
  BY <1>5, <1>6
<1> QED
  BY <1>8, <1>9, <1>10, <1>11

(* The functions that satisfy the recursion.                                *)
IsReading(msg, k, f) == f = LabelsStep(msg, k, f)

(* A label ends behind its beginning, and a pointer points to a place.      *)
LEMMA LabelEndIs ==
    ASSUME NEW msg \in Bytes, NEW o \in Nat, NEW left \in Nat
    PROVE  /\ (o < Len(msg)) => LabelEnd(msg, o) \in Nat /\ o < LabelEnd(msg, o)
           /\ HasPointer(msg, o, left) => PointsTo(msg, o) \in Nat
<1>1. Len(msg) \in Nat
  BY LenProperties DEF Bytes
<1>2. ASSUME o < Len(msg) PROVE LabelEnd(msg, o) \in Nat /\ o < LabelEnd(msg, o)
  <2>1. At(msg, o) \in 0 .. 255
    BY <1>2, ByteAt
  <2> QED
    BY <2>1 DEF LabelEnd
<1>3. ASSUME HasPointer(msg, o, left) PROVE PointsTo(msg, o) \in Nat
  <2>1. At(msg, o) \in 0 .. 255 /\ At(msg, o) >= PointerMark
    BY <1>3, ByteAt DEF HasPointer
  <2>2. At(msg, o + 1) \in 0 .. 255
    <3> DEFINE e == o + 1
    <3>1. e \in Nat /\ e < Len(msg)
      BY <1>3 DEF HasPointer
    <3> HIDE DEF e
    <3>2. At(msg, e) \in 0 .. 255
      BY <3>1, ByteAt
    <3> QED
      BY <3>2 DEF e
  <2> DEFINE x == At(msg, o)
             y == At(msg, o + 1)
  <2>3. x - 192 \in Nat /\ y \in Nat /\ PointsTo(msg, o) = (x - 192) * 256 + y
    BY <2>1, <2>2 DEF PointsTo, PointerMark
  <2> HIDE DEF x, y
  <2> QED
    BY <2>3
<1> QED
  BY <1>2, <1>3

(* The offsets and numbers of pointers left, their ranks, and the functions   *)
(* that tell what is read.                                                 *)
Places(k) == Nat \X (0 .. k)
(* The functions that reading may be, and the rank of every place in them.  *)
Readings(k) == [Places(k) -> NameReads]
PlaceRanks(msg, k) == [at \in Places(k) |-> ReadRank(Len(msg), at[1], at[2])]

(* The step of the recursion has the right type, and depends on lower ranks.   *)
LEMMA LabelsStepTyped ==
    ASSUME NEW msg \in Bytes, NEW k \in Nat, NEW f \in Readings(k)
    PROVE  LabelsStep(msg, k, f) \in Readings(k)
<1>1. ASSUME NEW o \in Nat, NEW left \in 0 .. k
      PROVE  LabelsStep(msg, k, f)[<<o, left>>] \in NameReads
  <2> DEFINE a == f[<<LabelEnd(msg, o), left>>]
             b == f[<<PointsTo(msg, o), left - 1>>]
  <2>1. LabelsStep(msg, k, f)[<<o, left>>] = Onwards(msg, o, left, a, b)
    BY LabelsStepIs
  <2>2. o < Len(msg) => a \in NameReads
    <3>1. o < Len(msg) => <<LabelEnd(msg, o), left>> \in Places(k)
      BY LabelEndIs DEF Places
    <3> QED
      BY <3>1 DEF Readings
  <2>3. (o < Len(msg) /\ o + 1 < Len(msg) /\ At(msg, o) >= PointerMark /\ left > 0) => b \in NameReads
    <3> SUFFICES ASSUME o < Len(msg), o + 1 < Len(msg), At(msg, o) >= PointerMark, left > 0
                 PROVE  b \in NameReads
      OBVIOUS
    <3>1. ~ (At(msg, o) <= MaxLabel)
      <4> DEFINE c == At(msg, o)
      <4>1. c \in 0 .. 255 /\ c >= 192
        BY ByteAt DEF PointerMark
      <4> HIDE DEF c
      <4>2. ~ (c <= 63)
        BY <4>1
      <4> QED
        BY <4>2 DEF c, MaxLabel
    <3>2. HasPointer(msg, o, left) /\ left \in Nat
      BY <3>1 DEF HasPointer
    <3>3. PointsTo(msg, o) \in Nat
      BY <3>2, LabelEndIs
    <3>4. left - 1 \in 0 .. k
      OBVIOUS
    <3> QED
      BY <3>3, <3>4 DEF Readings, Places
  <2> HIDE DEF a, b
  <2> QED
    BY <2>1, <2>2, <2>3, OnwardsTyped
<1>2. \A at \in Places(k) : LabelsStep(msg, k, f)[at] \in NameReads
  <2> SUFFICES ASSUME NEW at \in Places(k) PROVE LabelsStep(msg, k, f)[at] \in NameReads
    OBVIOUS
  <2>1. PICK o \in Nat, left \in 0 .. k : at = <<o, left>>
    BY DEF Places
  <2> QED
    BY <1>1, <2>1
<1>3. LabelsStep(msg, k, f) = [at \in Places(k) |-> LabelsStep(msg, k, f)[at]]
  BY DEF LabelsStep, Places
<1> QED
  BY <1>2, <1>3 DEF Readings

(* The step at a place depends on places of a lower rank only, whatever the *)
(* number of pointers that are allowed in all.                              *)
LEMMA LabelsStepSame ==
    ASSUME NEW msg \in Bytes, NEW k \in Nat, NEW j \in Nat, NEW f, NEW g,
           NEW o \in Nat, NEW left \in 0 .. k, left <= j,
           \A e \in Nat, l \in 0 .. k :
              l <= j /\ ReadRank(Len(msg), e, l) < ReadRank(Len(msg), o, left) => f[<<e, l>>] = g[<<e, l>>]
    PROVE  LabelsStep(msg, k, f)[<<o, left>>] = LabelsStep(msg, j, g)[<<o, left>>]
<1> DEFINE a == f[<<LabelEnd(msg, o), left>>]
           b == f[<<PointsTo(msg, o), left - 1>>]
           c == g[<<LabelEnd(msg, o), left>>]
           d == g[<<PointsTo(msg, o), left - 1>>]
<1>1. LabelsStep(msg, k, f)[<<o, left>>] = Onwards(msg, o, left, a, b)
  BY LabelsStepIs
<1>2. LabelsStep(msg, j, g)[<<o, left>>] = Onwards(msg, o, left, c, d)
  <2>1. left \in 0 .. j
    OBVIOUS
  <2> QED
    BY <2>1, LabelsStepIs
<1>3. Len(msg) \in Nat /\ left \in Nat
  BY LenProperties DEF Bytes
<1>4. ASSUME HasLabel(msg, o) PROVE a = c
  <2>1. o < Len(msg) /\ LabelEnd(msg, o) \in Nat /\ o < LabelEnd(msg, o)
    BY <1>3, <1>4, LabelEndIs DEF HasLabel
  <2>2. ReadRank(Len(msg), LabelEnd(msg, o), left) < ReadRank(Len(msg), o, left)
    BY <1>3, <2>1, ReadRankFalls
  <2> QED
    BY <2>1, <2>2
<1>5. ASSUME HasPointer(msg, o, left) PROVE b = d
  <2>1. PointsTo(msg, o) \in Nat /\ left > 0
    BY <1>3, <1>5, LabelEndIs DEF HasPointer
  <2>2. ReadRank(Len(msg), PointsTo(msg, o), left - 1) < ReadRank(Len(msg), o, left)
    BY <1>3, <2>1, ReadRankFalls
  <2>3. left - 1 \in 0 .. k /\ left - 1 <= j
    BY <2>1
  <2> QED
    BY <2>1, <2>2, <2>3
<1> HIDE DEF a, b, c, d
<1> QED
  BY <1>1, <1>2, <1>3, <1>4, <1>5, OnwardsSame

(* The recursion defines a function of the right type.                       *)
LEMMA ReadingExists ==
    ASSUME NEW msg \in Bytes, NEW k \in Nat
    PROVE  \E f \in Readings(k) : IsReading(msg, k, f)
<1> DEFINE S == Places(k)
           F == Readings(k)
           step == [f \in F |-> LabelsStep(msg, k, f)]
           rank == PlaceRanks(msg, k)
           len == Len(msg)
           top == k * (len + 1) + len
<1>1. len \in Nat
  BY LenProperties DEF Bytes
<1>2. \A at \in S : at = <<at[1], at[2]>> /\ at[1] \in Nat /\ at[2] \in 0 .. k /\ at[2] \in Nat /\ at[2] <= k
  BY DEF Places
<1>3. \A at \in S : rank[at] = ReadRank(len, at[1], at[2])
  BY DEF PlaceRanks
<1>4. top \in Nat
  <2>1. k * (len + 1) \in Nat
    <3> DEFINE w == len + 1
    <3>1. w \in Nat
      BY <1>1
    <3> HIDE DEF w
    <3>2. k * w \in Nat
      BY <3>1
    <3> QED
      BY <3>2 DEF w
  <2> QED
    BY <1>1, <2>1
<1> HIDE DEF len
<1>5. \A at \in S : rank[at] \in 0 .. top
  <2> SUFFICES ASSUME NEW at \in S PROVE rank[at] \in 0 .. top
    OBVIOUS
  <2> DEFINE r == ReadRank(len, at[1], at[2])
  <2>1. r \in Nat
    BY <1>1, <1>2, ReadRankFalls
  <2>2. r <= top
    BY <1>1, <1>2, ReadRankFalls
  <2>3. rank[at] = r
    BY <1>3
  <2> HIDE DEF r, top, rank
  <2> QED
    BY <1>4, <2>1, <2>2, <2>3
<1>6. F # {}
  <2>1. [at \in S |-> Failure] \in F
    BY ReadsTyped DEF Readings
  <2> QED
    BY <2>1
<1>7. \A f, g \in F : (\A x \in S : f[x] = g[x]) => f = g
  <2> DEFINE V == NameReads
  <2>1. F = [S -> V]
    BY DEF Readings
  <2> HIDE DEF F, S, V
  <2> QED
    BY <2>1, SameFunctions
<1>8. \A f \in F : step[f] = LabelsStep(msg, k, f) /\ step[f] \in F
  BY LabelsStepTyped
<1>9. ASSUME NEW f \in F, NEW g \in F, NEW at \in S,
             \A y \in S : rank[y] < rank[at] => f[y] = g[y]
      PROVE  step[f][at] = step[g][at]
  <2> DEFINE o == at[1]
             left == at[2]
  <2>1. at = <<o, left>> /\ o \in Nat /\ left \in 0 .. k /\ left <= k
    BY <1>2
  <2>2. \A e \in Nat, l \in 0 .. k :
           l <= k /\ ReadRank(len, e, l) < ReadRank(len, o, left) => f[<<e, l>>] = g[<<e, l>>]
    <3> SUFFICES ASSUME NEW e \in Nat, NEW l \in 0 .. k, ReadRank(len, e, l) < ReadRank(len, o, left)
                 PROVE  f[<<e, l>>] = g[<<e, l>>]
      OBVIOUS
    <3>1. <<e, l>> \in S /\ <<e, l>>[1] = e /\ <<e, l>>[2] = l
      BY DEF Places
    <3>2. rank[<<e, l>>] = ReadRank(len, e, l) /\ rank[at] = ReadRank(len, o, left)
      BY <1>3, <3>1
    <3> QED
      BY <1>9, <3>1, <3>2
  <2> HIDE DEF o, left
  <2>3. LabelsStep(msg, k, f)[<<o, left>>] = LabelsStep(msg, k, g)[<<o, left>>]
    BY <2>1, <2>2, LabelsStepSame DEF len
  <2> QED
    BY <1>8, <2>1, <2>3
<1> HIDE DEF F, S, step, rank, top
<1>10. Recursive(S, F, step, rank, top)
  BY <1>4, <1>5, <1>6, <1>7, <1>8, <1>9 DEF Recursive
<1>11. PICK f \in F : f = step[f]
  BY <1>10, RankRecursion
<1>12. f = LabelsStep(msg, k, f)
  BY <1>8, <1>11
<1> QED
  BY <1>12 DEF IsReading, F

(* However many pointers are allowed, the same is read with as many left.    *)
LEMMA ReadingsAgree ==
    ASSUME NEW msg \in Bytes, NEW k \in Nat, NEW j \in Nat, j <= k,
           NEW f, IsReading(msg, k, f), NEW g, IsReading(msg, j, g)
    PROVE  \A o \in Nat, left \in 0 .. j : f[<<o, left>>] = g[<<o, left>>]
<1> DEFINE S == Places(j)
           rank == PlaceRanks(msg, j)
           P == {at \in S : f[at] = g[at]}
           len == Len(msg)
<1>1. len \in Nat
  BY LenProperties DEF Bytes
<1>2. \A at \in S : at = <<at[1], at[2]>> /\ at[1] \in Nat /\ at[2] \in 0 .. j /\ at[2] \in Nat /\ at[2] <= j
  BY DEF Places
<1>3. \A at \in S : rank[at] = ReadRank(len, at[1], at[2])
  BY DEF PlaceRanks
<1> HIDE DEF len
<1>4. rank \in [S -> Nat]
  <2>1. ASSUME NEW at \in S PROVE rank[at] \in Nat
    <3>1. ReadRank(len, at[1], at[2]) \in Nat
      BY <1>1, <1>2, ReadRankFalls
    <3> QED
      BY <1>3, <3>1
  <2>2. rank = [at \in S |-> rank[at]]
    BY DEF PlaceRanks
  <2> HIDE DEF rank, S
  <2> QED
    BY <2>1, <2>2
<1>5. ASSUME NEW at \in S, \A y \in S : rank[y] < rank[at] => y \in P
      PROVE  at \in P
  <2> DEFINE o == at[1]
             left == at[2]
  <2>1. at = <<o, left>> /\ o \in Nat /\ left \in 0 .. j /\ left \in 0 .. k /\ left <= j
    BY <1>2
  <2>2. \A e \in Nat, l \in 0 .. k :
           l <= j /\ ReadRank(len, e, l) < ReadRank(len, o, left) => f[<<e, l>>] = g[<<e, l>>]
    <3> SUFFICES ASSUME NEW e \in Nat, NEW l \in 0 .. k, l <= j,
                        ReadRank(len, e, l) < ReadRank(len, o, left)
                 PROVE  f[<<e, l>>] = g[<<e, l>>]
      OBVIOUS
    <3>1. <<e, l>> \in S /\ <<e, l>>[1] = e /\ <<e, l>>[2] = l
      BY DEF Places
    <3>2. rank[<<e, l>>] = ReadRank(len, e, l) /\ rank[at] = ReadRank(len, o, left)
      BY <1>3, <3>1
    <3> QED
      BY <1>5, <3>1, <3>2
  <2> HIDE DEF o, left
  <2>3. LabelsStep(msg, k, f)[<<o, left>>] = LabelsStep(msg, j, g)[<<o, left>>]
    BY <2>1, <2>2, LabelsStepSame DEF len
  <2>4. f = LabelsStep(msg, k, f) /\ g = LabelsStep(msg, j, g)
    BY DEF IsReading
  <2>5. f[<<o, left>>] = g[<<o, left>>]
    BY <2>3, <2>4
  <2> QED
    BY <2>1, <2>5
<1> HIDE DEF S, rank, P
<1>6. S \subseteq P
  BY <1>4, <1>5, RankInduction
<1> SUFFICES ASSUME NEW o \in Nat, NEW left \in 0 .. j PROVE f[<<o, left>>] = g[<<o, left>>]
  OBVIOUS
<1>7. <<o, left>> \in S
  BY DEF S, Places
<1> QED
  BY <1>6, <1>7 DEF P

(* LabelsFrom is a function that satisfies its recursion.                   *)
LEMMA LabelsFromIs ==
    ASSUME NEW msg \in Bytes, NEW k \in Nat, NEW o \in Nat
    PROVE  \E f \in Readings(k) : IsReading(msg, k, f) /\ LabelsFrom(msg, o, k) = f[<<o, k>>]
<1> DEFINE g == CHOOSE f : IsReading(msg, k, f)
<1>1. PICK f \in Readings(k) : IsReading(msg, k, f)
  BY ReadingExists
<1>2. LabelsFrom(msg, o, k) = g[<<o, k>>]
  BY DEF LabelsFrom, IsReading, LabelsStep
<1>3. IsReading(msg, k, g)
  BY <1>1
<1> HIDE DEF g
<1>4. k <= k /\ k \in 0 .. k
  OBVIOUS
<1>5. f[<<o, k>>] = g[<<o, k>>]
  BY <1>1, <1>3, <1>4, ReadingsAgree
<1> QED
  BY <1>1, <1>2, <1>5

(* What is read at an offset is a label with what is read after it, or what a  *)
(* pointer leads to, or the end of the name.                                *)
LEMMA LabelsUnfold ==
    ASSUME NEW msg \in Bytes, NEW k \in Nat, NEW o \in Nat
    PROVE  /\ LabelsFrom(msg, o, k) \in NameReads
           /\ o >= Len(msg) => LabelsFrom(msg, o, k) = Failure
           /\ o < Len(msg) /\ At(msg, o) = 0 => LabelsFrom(msg, o, k) = Found(<<>>, o + 1)
           /\ HasLabel(msg, o) =>
                 LabelsFrom(msg, o, k)
                    = Before(Slice(msg, o + 1, At(msg, o)), LabelsFrom(msg, LabelEnd(msg, o), k))
           /\ HasPointer(msg, o, k) =>
                 LabelsFrom(msg, o, k) = EndingAt(LabelsFrom(msg, PointsTo(msg, o), k - 1), o + 2)
           /\ o < Len(msg) /\ At(msg, o) # 0 /\ ~ HasLabel(msg, o) /\ ~ HasPointer(msg, o, k) =>
                 LabelsFrom(msg, o, k) = Failure
<1> DEFINE a == LabelsFrom(msg, LabelEnd(msg, o), k)
           b == LabelsFrom(msg, PointsTo(msg, o), k - 1)
           r == LabelsFrom(msg, o, k)
<1>0. Len(msg) \in Nat
  BY LenProperties DEF Bytes
<1>1. PICK f \in Readings(k) : IsReading(msg, k, f) /\ r = f[<<o, k>>]
  BY LabelsFromIs
<1>2. <<o, k>> \in Places(k)
  BY DEF Places
<1>3. r \in NameReads
  BY <1>1, <1>2 DEF Readings
<1>4. r = Onwards(msg, o, k, f[<<LabelEnd(msg, o), k>>], f[<<PointsTo(msg, o), k - 1>>])
  <2>1. f = LabelsStep(msg, k, f) /\ k \in 0 .. k
    BY <1>1 DEF IsReading
  <2>2. LabelsStep(msg, k, f)[<<o, k>>]
           = Onwards(msg, o, k, f[<<LabelEnd(msg, o), k>>], f[<<PointsTo(msg, o), k - 1>>])
    BY <2>1, LabelsStepIs
  <2> QED
    BY <1>1, <2>1, <2>2
<1>5. ASSUME HasLabel(msg, o) PROVE f[<<LabelEnd(msg, o), k>>] = a
  <2>1. LabelEnd(msg, o) \in Nat
    BY <1>5, LabelEndIs DEF HasLabel
  <2>2. PICK g \in Readings(k) : IsReading(msg, k, g) /\ a = g[<<LabelEnd(msg, o), k>>]
    BY <2>1, LabelsFromIs
  <2>3. k <= k /\ k \in 0 .. k
    OBVIOUS
  <2>4. f[<<LabelEnd(msg, o), k>>] = g[<<LabelEnd(msg, o), k>>]
    BY <1>1, <2>1, <2>2, <2>3, ReadingsAgree
  <2> QED
    BY <2>2, <2>4
<1>6. ASSUME HasPointer(msg, o, k) PROVE f[<<PointsTo(msg, o), k - 1>>] = b
  <2>1. PointsTo(msg, o) \in Nat /\ k - 1 \in Nat /\ k - 1 <= k /\ k - 1 \in 0 .. k - 1
    BY <1>6, LabelEndIs DEF HasPointer
  <2> DEFINE j == k - 1
  <2>2. j \in Nat /\ j <= k /\ j \in 0 .. j
    BY <2>1
  <2> HIDE DEF j
  <2>3. PICK g \in Readings(j) :
           IsReading(msg, j, g) /\ LabelsFrom(msg, PointsTo(msg, o), j) = g[<<PointsTo(msg, o), j>>]
    BY <2>1, <2>2, LabelsFromIs
  <2>4. f[<<PointsTo(msg, o), j>>] = g[<<PointsTo(msg, o), j>>]
    BY <1>1, <2>1, <2>2, <2>3, ReadingsAgree
  <2> QED
    BY <2>3, <2>4 DEF j
<1> HIDE DEF a, b, r
<1>7. r = Onwards(msg, o, k, a, b)
  <2> DEFINE u == f[<<LabelEnd(msg, o), k>>]
             v == f[<<PointsTo(msg, o), k - 1>>]
  <2>1. (HasLabel(msg, o) => u = a) /\ (HasPointer(msg, o, k) => v = b)
    BY <1>5, <1>6
  <2> HIDE DEF u, v
  <2>2. Onwards(msg, o, k, u, v) = Onwards(msg, o, k, a, b)
    BY <2>1, OnwardsSame
  <2> QED
    BY <1>4, <2>2 DEF u, v
<1> DEFINE x == At(msg, o)
           e == LabelEnd(msg, o)
           l == Len(msg)
<1>8. r = IF o >= l THEN Failure
          ELSE IF x = 0 THEN Found(<<>>, o + 1)
          ELSE IF x <= MaxLabel
          THEN IF e > l THEN Failure ELSE Before(Slice(msg, o + 1, x), a)
          ELSE IF x >= PointerMark /\ o + 1 < l /\ k > 0 THEN EndingAt(b, o + 2) ELSE Failure
  BY <1>7 DEF Onwards, LabelEnd
<1>9. o < l => x \in 0 .. 255 /\ e \in Nat
  BY ByteAt, LabelEndIs
<1>10. /\ HasLabel(msg, o) <=> o < l /\ x # 0 /\ x <= MaxLabel /\ e <= l
       /\ HasPointer(msg, o, k) <=> o < l /\ o + 1 < l /\ ~ (x <= MaxLabel) /\ x >= PointerMark /\ k > 0
  BY DEF HasLabel, HasPointer
<1>11. l \in Nat
  BY <1>0
<1>12. 0 <= MaxLabel
  BY DEF MaxLabel
<1>13. /\ r \in NameReads
       /\ o >= l => r = Failure
       /\ o < l /\ x = 0 => r = Found(<<>>, o + 1)
  <2> HIDE DEF x, e, l
  <2> QED
    BY <1>3, <1>8, <1>11
<1>14. HasLabel(msg, o) => r = Before(Slice(msg, o + 1, x), a)
  <2> HIDE DEF x, e, l
  <2> QED
    BY <1>8, <1>9, <1>10, <1>11
<1>15. HasPointer(msg, o, k) => r = EndingAt(b, o + 2)
  <2> HIDE DEF x, e, l
  <2> QED
    BY <1>8, <1>9, <1>10, <1>11, <1>12
<1>16. o < l /\ x # 0 /\ ~ HasLabel(msg, o) /\ ~ HasPointer(msg, o, k) => r = Failure
  <2> HIDE DEF x, e, l
  <2> QED
    BY <1>8, <1>9, <1>10, <1>11
<1> QED
  BY <1>13, <1>14, <1>15, <1>16 DEF a, b, r

(* What follows a number of labels.                                        *)
Rest(name, i) == SubSeq(name, i, Len(name))

(* A label stands at an offset, and something after it.                     *)
LabelStands(m, o, label) ==
    /\ Len(label) \in 1 .. MaxLabel /\ o + 1 + Len(label) < Len(m)
    /\ m[o + 1] = Len(label) /\ \A x \in 1 .. Len(label) : m[o + 1 + x] = label[x]

(* A label that stands at an offset is read, with what is read after it.     *)
LEMMA LabelIsRead ==
    ASSUME NEW m \in Bytes, NEW o \in Nat, NEW k \in Nat, NEW label \in Bytes,
           LabelStands(m, o, label),
           NEW rest, NEW next, NEW after, after = o + 1 + Len(label),
           LabelsFrom(m, after, k) = Found(rest, next)
    PROVE  LabelsFrom(m, o, k) = Found(<<label>> \o rest, next)
<1> DEFINE l == Len(label)
           n == Len(m)
<1>0. l \in 1 .. MaxLabel /\ o + 1 + l < n /\ m[o + 1] = l /\ \A x \in 1 .. l : m[o + 1 + x] = label[x]
  BY DEF LabelStands
<1>1. l \in 1 .. 63 /\ n \in Nat /\ o + 1 + l < n
  BY <1>0, LenProperties DEF Bytes, MaxLabel
<1>2. At(m, o) = l
  BY <1>0 DEF At
<1>3. LabelEnd(m, o) = o + 1 + l
  BY <1>2 DEF LabelEnd
<1>4. HasLabel(m, o)
  <2>1. o < n /\ l # 0 /\ l <= 63 /\ o + 1 + l <= n
    <3> HIDE DEF l, n
    <3> QED
      BY <1>1
  <2> QED
    BY <1>2, <1>3, <2>1 DEF HasLabel, MaxLabel
<1>5. LabelsFrom(m, o, k) = Before(Slice(m, o + 1, At(m, o)), LabelsFrom(m, LabelEnd(m, o), k))
  BY <1>4, LabelsUnfold
<1>6. Slice(m, o + 1, l) = label
  <2> DEFINE p == o + 1
  <2>1. p \in Nat /\ l \in Nat /\ p + l <= n
    <3> HIDE DEF l, n
    <3> QED
      BY <1>1
  <2>2. \A x \in 1 .. l : m[p + x] = label[x]
    BY <1>0
  <2> HIDE DEF p, l
  <2>3. /\ Slice(m, p, l) \in Bytes /\ Len(Slice(m, p, l)) = l
        /\ \A x \in 1 .. l : Slice(m, p, l)[x] = m[p + x]
    BY <2>1, SliceProperties DEF n
  <2> DEFINE s == Slice(m, p, l)
  <2>4. s \in Seq(0 .. 255) /\ label \in Seq(0 .. 255) /\ Len(s) = Len(label)
        /\ \A x \in 1 .. Len(s) : s[x] = label[x]
    BY <2>2, <2>3 DEF Bytes, l
  <2> HIDE DEF s
  <2>5. s = label
    BY <2>4, SeqEqual
  <2> QED
    BY <2>5 DEF s, p, l
<1>7. Before(label, Found(rest, next)) = Found(<<label>> \o rest, next)
  BY ReadChanged
<1> QED
  BY <1>2, <1>3, <1>5, <1>6, <1>7

(* The first labels of a name stand at an offset, and something after them.   *)
LabelsStand(m, base, name, stop) ==
    /\ \A i \in 1 .. stop - 1 : Len(name[i]) \in 1 .. MaxLabel
    /\ base + PrefixLength(name, stop) < Len(m)
    /\ \A x \in 1 .. PrefixLength(name, stop) :
          m[base + x] = Flat(CountedLabels(name), stop - 1)[x]

(* If what follows them is read after them, then each suffix of the name is    *)
(* read where it begins.                                                   *)
LEMMA LaidNameIsRead ==
    ASSUME NEW m \in Bytes, NEW name \in Seq(Bytes), NEW stop \in 1 .. Len(name) + 1,
           NEW base \in Nat, LabelsStand(m, base, name, stop), NEW k \in Nat, NEW next, NEW end,
           end = base + PrefixLength(name, stop),
           LabelsFrom(m, end, k) = Found(Rest(name, stop), next)
    PROVE  \A i \in 1 .. stop :
              LabelsFrom(m, base + PrefixLength(name, i), k) = Found(Rest(name, i), next)
<1> DEFINE n == Len(name)
           p(i) == PrefixLength(name, i)
           Good(i) == LabelsFrom(m, base + p(i), k) = Found(Rest(name, i), next)
           flat == Flat(CountedLabels(name), stop - 1)
           top == stop - 1
           T == {d \in 0 .. top : Good(stop - d)}
<1>1. n \in Nat /\ stop \in 1 .. n + 1 /\ top \in 0 .. n /\ top + 1 = stop
  BY LenProperties
<1>2. \A i \in 1 .. n : name[i] \in Bytes /\ Len(name[i]) \in Nat
  BY ElementOfSeq, LenProperties DEF Bytes
<1>3. \A i \in 1 .. n + 1 : p(i) \in Nat
  BY PrefixSteps
<1>4. \A i \in 1 .. n : p(i + 1) = p(i) + 1 + Len(name[i])
  BY PrefixSteps
<1>5. \A i \in 1 .. top : /\ p(i) + 1 + Len(name[i]) <= p(stop)
                          /\ flat[p(i) + 1] = Len(name[i])
                          /\ \A x \in 1 .. Len(name[i]) : flat[p(i) + 1 + x] = name[i][x]
  <2> DEFINE F == Flat(CountedLabels(name), top)
  <2> HIDE DEF top
  <2>1. \A i \in 1 .. top :
              /\ PrefixLength(name, i) + 1 + Len(name[i]) <= PrefixLength(name, top + 1)
              /\ F[PrefixLength(name, i) + 1] = Len(name[i])
              /\ \A x \in 1 .. Len(name[i]) : F[PrefixLength(name, i) + 1 + x] = name[i][x]
    BY <1>1, LabelsLaid
  <2> QED
    BY <1>1, <2>1 DEF top
<1>6. \A x \in 1 .. p(stop) : m[base + x] = flat[x]
  BY DEF LabelsStand
<1>7. base + p(stop) < Len(m) /\ Len(m) \in Nat
  BY LenProperties DEF Bytes, LabelsStand
<1>14. \A i \in 1 .. top : Len(name[i]) \in 1 .. MaxLabel
  BY DEF LabelsStand
<1> HIDE DEF p, flat
<1>8. ASSUME NEW i \in 1 .. top, Good(i + 1) PROVE Good(i)
  <2> DEFINE l == Len(name[i])
             o == base + p(i)
             e == o + 1 + l
             q == p(i)
             z == p(stop)
  <2>1. i \in 1 .. n /\ i \in 1 .. n + 1 /\ i + 1 \in 1 .. n + 1 /\ stop \in 1 .. n + 1
    BY <1>1
  <2>2. name[i] \in Bytes /\ l \in 1 .. MaxLabel /\ q \in Nat /\ z \in Nat /\ l \in Nat
    BY <1>2, <1>3, <1>14, <2>1
  <2>3. q + 1 + l <= z /\ flat[q + 1] = l /\ \A x \in 1 .. l : flat[q + 1 + x] = name[i][x]
    BY <1>5
  <2>4. p(i + 1) = q + 1 + l
    BY <1>4, <2>1
  <2>5. base + z < Len(m)
    BY <1>7
  <2>6. \A x \in 1 .. z : m[base + x] = flat[x]
    BY <1>6
  <2>7. base + p(i + 1) = e
    <3>1. o = base + q
      OBVIOUS
    <3> HIDE DEF l, q, o
    <3> QED
      BY <2>2, <2>4, <3>1
  <2> HIDE DEF q, z
  <2>8. o = base + q
    BY DEF q
  <2> HIDE DEF o
  <2>9. o \in Nat /\ m[o + 1] = l
    <3> HIDE DEF l
    <3>1. q + 1 \in 1 .. z /\ base + (q + 1) = o + 1 /\ o \in Nat
      BY <2>2, <2>3, <2>8
    <3> QED
      BY <2>3, <2>6, <3>1
  <2>10. o + 1 + l < Len(m)
    <3> DEFINE w == Len(m)
    <3>1. w \in Nat /\ base + z < w
      BY <1>7, <2>5
    <3> HIDE DEF l, w
    <3>2. o + 1 + l < w
      BY <2>2, <2>3, <2>8, <3>1
    <3> QED
      BY <3>2 DEF w
  <2>11. ASSUME NEW x \in 1 .. l PROVE m[o + 1 + x] = name[i][x]
    <3> HIDE DEF l
    <3>1. q + 1 + x \in 1 .. z /\ base + (q + 1 + x) = o + 1 + x
      BY <2>2, <2>3, <2>8, <2>11
    <3> QED
      BY <2>3, <2>6, <3>1
  <2>12. LabelsFrom(m, e, k) = Found(Rest(name, i + 1), next)
    BY <1>8, <2>7
  <2>13. LabelsFrom(m, o, k) = Found(<<name[i]>> \o Rest(name, i + 1), next)
    <3> DEFINE label == name[i]
               rest == Rest(name, i + 1)
    <3> HIDE DEF l
    <3>3. o \in Nat /\ l = Len(label)
      BY <2>9 DEF l
    <3>1. LabelStands(m, o, label) /\ label \in Bytes
      BY <2>2, <2>9, <2>10, <2>11, <3>3 DEF LabelStands
    <3>4. LabelsFrom(m, e, k) = Found(rest, next) /\ e = o + 1 + Len(label)
      BY <2>12, <3>3
    <3> HIDE DEF label, rest, e
    <3>2. LabelsFrom(m, o, k) = Found(<<label>> \o rest, next)
      BY <3>1, <3>3, <3>4, LabelIsRead
    <3> QED
      BY <3>2 DEF label, rest
  <2>14. <<name[i]>> \o Rest(name, i + 1) = Rest(name, i)
    <3>1. n \in i .. n /\ i \in 1 .. n
      BY <1>1, <2>1
    <3>2. SubSeq(name, i, n) = <<name[i]>> \o SubSeq(name, i + 1, n)
      BY <3>1, SubSeqRecursiveFirst
    <3> QED
      BY <3>2 DEF Rest
  <2> QED
    BY <2>8, <2>13, <2>14 DEF q
<1>9. 0 \in T
  BY <1>1 DEF p
<1>10. ASSUME NEW d \in 0 .. top - 1, d \in T PROVE d + 1 \in T
  <2>1. PICK i \in 1 .. top : i = stop - (d + 1) /\ i + 1 = stop - d
    BY <1>1
  <2>2. Good(i + 1)
    BY <1>10, <2>1
  <2>3. Good(i)
    BY <1>8, <2>2
  <2>4. d + 1 \in 0 .. top
    BY <1>1
  <2> QED
    BY <2>1, <2>3, <2>4
<1>11. 0 .. top \subseteq T
  <2>1. top \in Nat
    BY <1>1
  <2> HIDE DEF T, top
  <2> QED
    BY <1>9, <1>10, <2>1, UpToBound
<1> SUFFICES ASSUME NEW i \in 1 .. stop PROVE Good(i)
  BY DEF p
<1>12. stop - i \in 0 .. top /\ stop - (stop - i) = i
  BY <1>1
<1>13. stop - i \in T
  BY <1>11, <1>12
<1> QED
  BY <1>12, <1>13

(* The first n bytes of a message m are those that follow the first start      *)
(* bytes of a buffer, but for some holes.                                    *)
Agrees(m, n, holes, msg, start) ==
    m \in Bytes /\ n <= Len(m) /\ \A x \in 1 .. n : x \notin holes => m[x] = msg[start + x]

(* A reading gives a name.                                                 *)
Reads(found, name) == found.ok /\ found.value = name

(* The suffixes of names, and maps from them to offsets.                     *)
SuffixKeys == [from : Nat, labels : Seq(Bytes)]
(* The maps from endings of names to offsets.                               *)
SuffixMaps == UNION {[D -> Nat] : D \in SUBSET SuffixKeys}

(* Every label of a name can be written.                                    *)
ValidLabels(name) == \A i \in 1 .. Len(name) : Len(name[i]) \in 1 .. MaxLabel

(* A suffix in a map is short enough to be a name, its offset fits in a        *)
(* pointer, and it is read there in each message that begins like the n bytes   *)
(* packed so far, if as many pointers are allowed as it has further labels.    *)
SuffixReads(s, off, msg, start, n, holes) ==
    /\ s.labels \in Seq(Bytes) /\ s.labels # <<>> /\ TextLength(s.labels) <= MaxName
    /\ ValidLabels(s.labels) /\ Len(s.labels) <= MaxPointers /\ off \in 0 .. MaxPointer
    /\ \A m \in Bytes, k \in Nat :
          Agrees(m, n, holes, msg, start) /\ Len(s.labels) <= k + 1
             => Reads(LabelsFrom(m, off, k), s.labels)

(* Every suffix in the map is read where it points, in every message that   *)
(* agrees.                                                                  *)
SuffixesRead(out, n, holes) ==
    \A s \in DOMAIN out.suffixes : SuffixReads(s, out.suffixes[s], out.msg, out.start, n, holes)

(* The bytes of a pointer.                                                 *)
LEMMA PointerBytes ==
    ASSUME NEW to \in 0 .. MaxPointer
    PROVE  /\ Pointer(to) \in Bytes /\ Len(Pointer(to)) = 2
           /\ Pointer(to)[1] \in PointerMark .. 255
           /\ (Pointer(to)[1] - PointerMark) * 256 + Pointer(to)[2] = to
<1> DEFINE a == PointerMark + to \div 256
           b == to % 256
<1>1. to \in Nat /\ to <= 16383
  <2>1. 2^14 - 1 = 16383
    OBVIOUS
  <2> QED
    BY <2>1, PointerAssumption
<1>2. a \in 192 .. 255 /\ b \in 0 .. 255 /\ (a - 192) * 256 + b = to
  BY <1>1 DEF PointerMark
<1>3. Pointer(to) = <<a, b>>
  BY DEF Pointer
<1> HIDE DEF a, b
<1> DEFINE S == 0 .. 255
<1>4. a \in S /\ b \in S
  BY <1>2
<1> HIDE DEF S
<1>5. <<a, b>> \in Seq(S) /\ Len(<<a, b>>) = 2 /\ <<a, b>>[1] = a /\ <<a, b>>[2] = b
  BY <1>4, TwoElements
<1> QED
  BY <1>2, <1>3, <1>5 DEF S, Bytes, PointerMark

(* What is the first of some places.                                       *)
LEMMA FirstOfProperties ==
    ASSUME NEW T, T \subseteq Nat, NEW otherwise
    PROVE  IF T = {} THEN FirstOf(T, otherwise) = otherwise
           ELSE FirstOf(T, otherwise) \in T /\ \A j \in T : FirstOf(T, otherwise) <= j
<1>1. CASE T = {}
  BY <1>1 DEF FirstOf
<1>2. CASE T # {}
  <2>1. \E i \in T : \A j \in T : i <= j
    BY <1>2, LeastNatural
  <2>2. FirstOf(T, otherwise) = CHOOSE i \in T : \A j \in T : i <= j
    BY <1>2 DEF FirstOf
  <2> QED
    BY <1>2, <2>1, <2>2
<1> QED
  BY <1>1, <1>2

(* Where packing stops, and at which label it fails.                        *)
LEMMA StopProperties ==
    ASSUME NEW out, NEW name \in Seq(Bytes), NEW compress
    PROVE  LET stop == FirstKnown(out, name, compress)
               bad == FirstBad(name, stop)
           IN  /\ stop \in 1 .. Len(name) + 1
               /\ stop <= Len(name) => compress /\ name[stop] # <<>> /\ Suffix(name, stop) \in DOMAIN out.suffixes
               /\ compress => \A i \in 1 .. stop - 1 :
                                 name[i] # <<>> => Suffix(name, i) \notin DOMAIN out.suffixes
               /\ bad \in 1 .. stop
               /\ bad < stop => Len(name[bad]) \notin 1 .. MaxLabel
               /\ \A i \in 1 .. bad - 1 : Len(name[i]) \in 1 .. MaxLabel
<1> DEFINE n == Len(name)
           T == {i \in DOMAIN name : compress /\ name[i] # <<>> /\ Suffix(name, i) \in DOMAIN out.suffixes}
           stop == FirstKnown(out, name, compress)
           U == {i \in 1 .. stop - 1 : Len(name[i]) \notin 1 .. MaxLabel}
           bad == FirstBad(name, stop)
<1>1. n \in Nat /\ DOMAIN name = 1 .. n
  BY LenProperties
<1>2. stop = FirstOf(T, n + 1) /\ T \subseteq 1 .. n
  BY <1>1 DEF FirstKnown
<1>3. T \subseteq Nat
  BY <1>1, <1>2
<1>4. IF T = {} THEN stop = n + 1 ELSE stop \in T /\ \A j \in T : stop <= j
  <2> DEFINE after == n + 1
  <2>1. stop = FirstOf(T, after)
    BY <1>2
  <2> HIDE DEF after, T, stop, n
  <2>2. IF T = {} THEN FirstOf(T, after) = after
        ELSE FirstOf(T, after) \in T /\ \A j \in T : FirstOf(T, after) <= j
    BY <1>3, FirstOfProperties
  <2> QED
    BY <2>1, <2>2 DEF after
<1>5. stop \in 1 .. n + 1 /\ (stop <= n => stop \in T) /\ \A i \in 1 .. stop - 1 : i \notin T /\ i \in 1 .. n
  <2> HIDE DEF T, stop, n
  <2>1. n \in Nat /\ T \subseteq 1 .. n
    BY <1>1, <1>2
  <2>2. CASE T = {}
    <3>1. stop = n + 1
      BY <1>4, <2>2
    <3> QED
      BY <2>1, <2>2, <3>1
  <2>3. CASE T # {}
    <3>1. stop \in T /\ stop \in 1 .. n /\ \A j \in T : stop <= j
      BY <1>4, <2>1, <2>3
    <3>2. \A i \in 1 .. stop - 1 : i \in 1 .. n /\ ~ (stop <= i)
      BY <2>1, <3>1
    <3> QED
      BY <2>1, <3>1, <3>2
  <2> QED
    BY <2>2, <2>3
<1>6. \A i \in 1 .. n : i \in T <=> compress /\ name[i] # <<>> /\ Suffix(name, i) \in DOMAIN out.suffixes
  BY <1>1
<1> HIDE DEF T, stop
<1>7. bad = FirstOf(U, stop) /\ U \subseteq 1 .. stop - 1 /\ U \subseteq Nat
  BY <1>5 DEF FirstBad
<1>8. IF U = {} THEN bad = stop ELSE bad \in U /\ \A j \in U : bad <= j
  <2> HIDE DEF U, bad
  <2>1. IF U = {} THEN FirstOf(U, stop) = stop
        ELSE FirstOf(U, stop) \in U /\ \A j \in U : FirstOf(U, stop) <= j
    BY <1>7, FirstOfProperties
  <2> QED
    BY <1>7, <2>1
<1>9. bad \in 1 .. stop /\ (bad < stop => bad \in U) /\ \A i \in 1 .. bad - 1 : i \notin U /\ i \in 1 .. stop - 1
  <2> HIDE DEF U, bad, n
  <2>1. stop \in Nat /\ stop # 0
    BY <1>1, <1>5
  <2>2. CASE U = {}
    BY <1>8, <2>1, <2>2
  <2>3. CASE U # {}
    <3>1. bad \in U /\ bad \in 1 .. stop - 1 /\ \A j \in U : bad <= j
      BY <1>7, <1>8, <2>3
    <3> QED
      BY <2>1, <3>1
  <2> QED
    BY <2>2, <2>3
<1>10. \A i \in 1 .. stop - 1 : i \in U <=> Len(name[i]) \notin 1 .. MaxLabel
  OBVIOUS
<1> HIDE DEF U
<1>11. stop <= n => compress /\ name[stop] # <<>> /\ Suffix(name, stop) \in DOMAIN out.suffixes
  BY <1>5, <1>6
<1>12. compress => \A i \in 1 .. stop - 1 : name[i] # <<>> => Suffix(name, i) \notin DOMAIN out.suffixes
  BY <1>5, <1>6
<1>13. bad < stop => Len(name[bad]) \notin 1 .. MaxLabel
  BY <1>7, <1>9, <1>10
<1>14. \A i \in 1 .. bad - 1 : Len(name[i]) \in 1 .. MaxLabel
  BY <1>9, <1>10
<1> HIDE DEF bad
<1> QED
  BY <1>5, <1>9, <1>11, <1>12, <1>13, <1>14 DEF stop, bad

(* A name has been packed at an offset, up to a label and with a pointer to    *)
(* the rest, or the end of the name.                                       *)
PackedAt(m, base, name, stop, tail, to, k) ==
    /\ \A i \in 1 .. stop - 1 : Len(name[i]) \in 1 .. MaxLabel
    /\ base + PrefixLength(name, stop) + Len(tail) <= Len(m)
    /\ \A x \in 1 .. PrefixLength(name, stop) :
          m[base + x] = Flat(CountedLabels(name), stop - 1)[x]
    /\ \A y \in 1 .. Len(tail) : m[base + PrefixLength(name, stop) + y] = tail[y]
    /\ stop > Len(name) => tail = <<0>>
    /\ stop <= Len(name) =>
          /\ to \in 0 .. MaxPointer /\ tail = Pointer(to)
          /\ k > 0 /\ Reads(LabelsFrom(m, to, k - 1), Rest(name, stop))

(* Then it is read there, and so is each of its suffixes up to that label.     *)
LEMMA PackedNameReads ==
    ASSUME NEW m \in Bytes, NEW name \in Seq(Bytes), NEW stop \in 1 .. Len(name) + 1,
           NEW base \in Nat, NEW tail, NEW to, NEW k \in Nat,
           PackedAt(m, base, name, stop, tail, to, k)
    PROVE  \A i \in 1 .. stop :
              LabelsFrom(m, base + PrefixLength(name, i), k)
                 = Found(Rest(name, i), base + PrefixLength(name, stop) + Len(tail))
<1> DEFINE n == Len(name)
           p == PrefixLength(name, stop)
           o == base + p
           l == Len(tail)
           w == Len(m)
           end == base + p + l
<1>1. n \in Nat /\ stop \in 1 .. n + 1 /\ w \in Nat
  BY LenProperties DEF Bytes
<1>2. p \in Nat
  BY PrefixSteps
<1>3. o \in Nat
  BY <1>2
<1>4. end <= w /\ end = o + l
  BY DEF PackedAt
<1>5. \A y \in 1 .. l : m[o + y] = tail[y]
  BY DEF PackedAt
<1>6. stop > n => tail = <<0>>
  BY DEF PackedAt
<1>7. stop <= n => /\ to \in 0 .. MaxPointer /\ tail = Pointer(to)
                   /\ k > 0 /\ Reads(LabelsFrom(m, to, k - 1), Rest(name, stop))
  BY DEF PackedAt
<1>8. LabelsFrom(m, o, k) = Found(Rest(name, stop), end) /\ o < w
  <2>1. CASE stop > n
    <3>1. tail = <<0>> /\ l = 1 /\ tail[1] = 0
      BY <1>6, <2>1
    <3> HIDE DEF l, o, w, end
    <3>2. 1 \in 1 .. l /\ end = o + 1 /\ o < w
      BY <1>1, <1>3, <1>4, <3>1
    <3>3. At(m, o) = 0
      BY <1>5, <3>1, <3>2 DEF At
    <3>4. LabelsFrom(m, o, k) = Found(<<>>, o + 1)
      BY <1>3, <3>2, <3>3, LabelsUnfold DEF w
    <3>5. Rest(name, stop) = <<>>
      BY <1>1, <2>1, SubSeqEmpty DEF Rest, n
    <3> QED
      BY <3>2, <3>4, <3>5
  <2>2. CASE stop <= n
    <3>1. to \in 0 .. MaxPointer /\ tail = Pointer(to) /\ k > 0
          /\ Reads(LabelsFrom(m, to, k - 1), Rest(name, stop))
      BY <1>7, <2>2
    <3>2. l = 2 /\ tail[1] \in PointerMark .. 255 /\ (tail[1] - PointerMark) * 256 + tail[2] = to
      BY <3>1, PointerBytes
    <3> HIDE DEF l, o, w, end
    <3>3. 1 \in 1 .. l /\ 2 \in 1 .. l /\ end = o + 2 /\ o < w /\ o + 1 < w /\ o + 1 + 1 = o + 2
      BY <1>1, <1>3, <1>4, <3>2
    <3>4. At(m, o) = tail[1] /\ At(m, o + 1) = tail[2]
      BY <1>5, <3>3 DEF At
    <3>5. PointsTo(m, o) = to
      BY <3>2, <3>4 DEF PointsTo
    <3>6. HasPointer(m, o, k)
      <4> DEFINE c == At(m, o)
      <4>1. c \in 192 .. 255
        BY <3>2, <3>4 DEF PointerMark
      <4> HIDE DEF c
      <4>2. c >= 192 /\ ~ (c <= 63)
        BY <4>1
      <4> QED
        BY <3>1, <3>3, <4>2 DEF HasPointer, MaxLabel, PointerMark, w, c
    <3> DEFINE r == LabelsFrom(m, to, k - 1)
    <3>7. LabelsFrom(m, o, k) = EndingAt(r, o + 2)
      <4>1. LabelsFrom(m, o, k) = EndingAt(LabelsFrom(m, PointsTo(m, o), k - 1), o + 2)
        BY <1>3, <3>6, LabelsUnfold
      <4> QED
        BY <3>5, <4>1
    <3>8. r \in NameReads
      <4>1. k - 1 \in Nat /\ to \in Nat
        BY <3>1, PointerAssumption
      <4> DEFINE j == k - 1
      <4> HIDE DEF j
      <4>2. LabelsFrom(m, to, j) \in NameReads
        BY <4>1, LabelsUnfold DEF j
      <4> QED
        BY <4>2 DEF j
    <3> HIDE DEF r
    <3>9. r # Failure /\ r.value = Rest(name, stop)
      BY <3>1, <3>8, ReadsTyped DEF Reads, r
    <3>10. EndingAt(r, o + 2) = Found(r.value, o + 2)
      <4>1. o + 2 \in Nat
        BY <1>3
      <4> QED
        BY <3>8, <3>9, <4>1, ReadsTyped
    <3> QED
      BY <3>3, <3>7, <3>9, <3>10
  <2> QED
    BY <1>1, <2>1, <2>2
<1>9. LabelsStand(m, base, name, stop)
  BY <1>8 DEF LabelsStand, PackedAt
<1>10. o = base + PrefixLength(name, stop)
  OBVIOUS
<1>11. end = base + PrefixLength(name, stop) + Len(tail)
  OBVIOUS
<1> HIDE DEF o, end
<1>12. \A i \in 1 .. stop : LabelsFrom(m, base + PrefixLength(name, i), k) = Found(Rest(name, i), end)
  BY <1>8, <1>9, <1>10, LaidNameIsRead
<1> QED
  BY <1>11, <1>12

(* What packing works on: a builder.                                       *)
Outs ==
    [msg : Bytes, start : Nat, compress : BOOLEAN, suffixes : SuffixMaps, head : MessageHeads,
     section : SectionHeader .. SectionDone, counts : [Sections -> Nat], ok : BOOLEAN]

(* Three sequences, joined.                                                *)
LEMMA JoinedProperties ==
    ASSUME NEW S, NEW s \in Seq(S), NEW t \in Seq(S), NEW u \in Seq(S),
           NEW a, NEW b, NEW c, a = Len(s), b = Len(t), c = Len(u)
    PROVE  /\ (s \o t) \o u \in Seq(S) /\ Len((s \o t) \o u) = a + b + c
           /\ \A x \in 1 .. a : ((s \o t) \o u)[x] = s[x]
           /\ \A x \in 1 .. b : ((s \o t) \o u)[a + x] = t[x]
           /\ \A x \in 1 .. c : ((s \o t) \o u)[a + b + x] = u[x]
<1>1. a \in Nat /\ b \in Nat /\ c \in Nat
  BY LenProperties
<1> DEFINE v == s \o t
           w == v \o u
<1>2. v \in Seq(S) /\ Len(v) = a + b /\ \A x \in 1 .. a + b : v[x] = IF x <= a THEN s[x] ELSE t[x - a]
  BY ConcatProperties
<1> HIDE DEF v
<1>3. w \in Seq(S) /\ Len(w) = (a + b) + c
      /\ \A x \in 1 .. (a + b) + c : w[x] = IF x <= a + b THEN v[x] ELSE u[x - (a + b)]
  BY <1>2, ConcatProperties
<1> HIDE DEF w
<1>4. ASSUME NEW x \in 1 .. a PROVE w[x] = s[x]
  <2>1. x \in 1 .. (a + b) + c /\ x <= a + b /\ x \in 1 .. a + b /\ x <= a
    BY <1>1
  <2> QED
    BY <1>2, <1>3, <2>1
<1>5. ASSUME NEW x \in 1 .. b PROVE w[a + x] = t[x]
  <2>1. PICK y \in 1 .. (a + b) + c : y = a + x /\ y <= a + b /\ y \in 1 .. a + b /\ ~ (y <= a) /\ y - a = x
    BY <1>1
  <2>2. w[y] = v[y] /\ v[y] = t[y - a]
    BY <1>2, <1>3, <2>1
  <2> QED
    BY <2>1, <2>2
<1>6. ASSUME NEW x \in 1 .. c PROVE w[a + b + x] = u[x]
  <2>1. PICK y \in 1 .. (a + b) + c : y = a + b + x /\ ~ (y <= a + b) /\ y - (a + b) = x
    BY <1>1
  <2>2. w[y] = u[y - (a + b)]
    BY <1>3, <2>1
  <2> QED
    BY <2>1, <2>2
<1> QED
  BY <1>1, <1>3, <1>4, <1>5, <1>6 DEF v, w

(* How PackName packs a name.                                               *)
PackedName(out, name, compress, stop, tail, new) ==
    /\ stop \in 1 .. Len(name) + 1
    /\ \A i \in 1 .. stop - 1 : Len(name[i]) \in 1 .. MaxLabel
    /\ stop > Len(name) => tail = <<0>>
    /\ stop <= Len(name) => /\ compress /\ Suffix(name, stop) \in DOMAIN out.suffixes
                            /\ tail = Pointer(out.suffixes[Suffix(name, stop)])
    /\ new = [out EXCEPT
                 !.suffixes = IF compress THEN Learn(out, name, stop - 1) ELSE out.suffixes,
                 !.msg = (@ \o Flat(CountedLabels(name), stop - 1)) \o tail]

(* A name that is packed ends in a stop byte or in a pointer to its tail.   *)
LEMMA PackNameIs ==
    ASSUME NEW out \in Outs, NEW name \in Seq(Bytes), NEW compress, PackName(out, name, compress).ok
    PROVE  \E stop, tail : PackedName(out, name, compress, stop, tail, PackName(out, name, compress))
<1> DEFINE n == Len(name)
           stop == FirstKnown(out, name, compress)
           bad == FirstBad(name, stop)
           tail == IF stop <= n THEN Pointer(out.suffixes[Suffix(name, stop)]) ELSE <<0>>
           new == PackName(out, name, compress)
           learnt == IF compress THEN Learn(out, name, stop - 1) ELSE out.suffixes
<1>1. /\ stop \in 1 .. n + 1
      /\ stop <= n => compress /\ name[stop] # <<>> /\ Suffix(name, stop) \in DOMAIN out.suffixes
      /\ bad \in 1 .. stop
      /\ \A i \in 1 .. bad - 1 : Len(name[i]) \in 1 .. MaxLabel
  BY StopProperties
<1>2. n \in Nat
  BY LenProperties
<1>3. new = PackUpTo(out, name, compress, stop, bad)
  BY DEF PackName, PackBefore
<1> HIDE DEF stop, bad, new
<1>4. bad = stop
  <2> SUFFICES ASSUME bad < stop PROVE FALSE
    BY <1>1, <1>2
  <2>1. new = [out EXCEPT !.ok = FALSE,
                          !.suffixes = IF compress THEN Learn(out, name, bad) ELSE @]
    BY <1>3 DEF PackUpTo
  <2>2. new.ok = FALSE
    BY <2>1 DEF Outs
  <2> QED
    BY <2>2 DEF new
<1>5. ~ (bad < stop)
  BY <1>1, <1>2, <1>4
<1>6. new = PackLabels(out, name, stop, learnt)
  BY <1>3, <1>5 DEF PackUpTo
<1>7. FlattenSeq([i \in 1 .. stop - 1 |-> Counted(name[i])]) = Flat(CountedLabels(name), stop - 1)
  <2>1. \A i \in 1 .. stop - 1 : CountedLabels(name)[i] = Counted(name[i])
    <3>1. \A i \in 1 .. stop - 1 : i \in 1 .. n
      BY <1>1, <1>2
    <3> QED
      BY <3>1 DEF CountedLabels
  <2>2. [i \in 1 .. stop - 1 |-> Counted(name[i])] = [i \in 1 .. stop - 1 |-> CountedLabels(name)[i]]
    BY <2>1
  <2> QED
    BY <2>2 DEF Flat
<1> HIDE DEF learnt
<1>8. new = [out EXCEPT !.suffixes = learnt,
                        !.msg = @ \o Flat(CountedLabels(name), stop - 1) \o tail]
  BY <1>6, <1>7 DEF PackLabels
<1>9. stop > n => tail = <<0>>
  BY <1>1, <1>2
<1>10. stop <= n => tail = Pointer(out.suffixes[Suffix(name, stop)])
  OBVIOUS
<1> HIDE DEF tail
<1>11. PackedName(out, name, compress, stop, tail, new)
  BY <1>1, <1>4, <1>8, <1>9, <1>10 DEF PackedName, learnt
<1> QED
  BY <1>11 DEF new

(* How much of the message has been packed.                                 *)
Size(out) == Len(out.msg) - out.start

(* Packing is under way, and the suffixes learnt stand in what is packed.      *)
Packing(out, holes) ==
    /\ out \in Outs /\ out.start <= Len(out.msg) /\ out.ok
    /\ holes \subseteq 1 .. Size(out)
    /\ SuffixesRead(out, Size(out), holes)

(* Something has been packed, at the end.                                  *)
Extends(new, out) ==
    /\ new \in Outs
    /\ new.start = out.start /\ new.compress = out.compress /\ new.head = out.head
    /\ new.section = out.section /\ new.counts = out.counts /\ new.ok = out.ok
    /\ Len(out.msg) <= Len(new.msg)
    /\ \A x \in 1 .. Len(out.msg) : new.msg[x] = out.msg[x]

(* The suffixes from a label on.                                           *)
LEMMA RestProperties ==
    ASSUME NEW name \in Names, NEW i \in 1 .. Len(name)
    PROVE  /\ Suffix(name, i) \in SuffixKeys /\ Suffix(name, i).labels = Rest(name, i)
           /\ Rest(name, i) \in Seq(Bytes) /\ Rest(name, i) # <<>>
           /\ Len(Rest(name, i)) = Len(name) - i + 1
           /\ TextLength(Rest(name, i)) <= MaxName
           /\ \A j \in 1 .. Len(name) - i + 1 : Rest(name, i)[j] = name[i + j - 1]
           /\ Rest(name, 1) = name
<1> DEFINE n == Len(name)
           r == Rest(name, i)
<1>1. name \in Seq(Bytes) /\ TextLength(name) <= 255
  BY DEF Names, MaxName
<1>2. n \in Nat
  BY <1>1, LenProperties
<1>3. /\ r \in Seq(Bytes) /\ Len(r) = n - i + 1
      /\ \A j \in 1 .. n - i + 1 : r[j] = name[i + j - 1]
      /\ TextLength(r) = PrefixLength(name, n + 1) - PrefixLength(name, i)
  BY <1>1, SuffixText DEF Rest
<1>4. Rest(name, 1) = name
  BY <1>1, SubSeqFull DEF Rest
<1>5. TextLength(name) = PrefixLength(name, n + 1)
  <2> DEFINE t == TextLength(name)
             b == PrefixLength(name, n + 1)
             a == PrefixLength(name, 1)
  <2>1. 1 \in 1 .. n
    BY <1>2
  <2>2. SubSeq(name, 1, n) = name
    BY <1>1, SubSeqFull
  <2>3. TextLength(SubSeq(name, 1, n)) = b - a
    BY <1>1, <2>1, SuffixText
  <2>4. a = 0
    BY <1>1, PrefixSteps
  <2>5. b \in Nat
    <3>1. n + 1 \in 1 .. n + 1
      BY <1>2
    <3> QED
      BY <1>1, <3>1, PrefixSteps
  <2>6. t = b - a
    BY <2>2, <2>3
  <2> HIDE DEF t, a, b
  <2>7. t = b
    BY <2>4, <2>5, <2>6
  <2> QED
    BY <2>7 DEF t, b
<1>6. PrefixLength(name, i) \in Nat /\ PrefixLength(name, n + 1) \in Nat
  <2>1. i \in 1 .. n + 1 /\ n + 1 \in 1 .. n + 1
    BY <1>2
  <2> QED
    BY <1>1, <2>1, PrefixSteps
<1>7. TextLength(r) <= MaxName
  <2> DEFINE a == PrefixLength(name, i)
             b == PrefixLength(name, n + 1)
  <2>1. a \in Nat /\ b \in Nat /\ b <= 255 /\ TextLength(r) = b - a
    BY <1>1, <1>3, <1>5, <1>6
  <2> HIDE DEF a, b
  <2>2. b - a <= 255
    BY <2>1
  <2> QED
    BY <2>1, <2>2 DEF MaxName
<1>8. r # <<>>
  <2> HIDE DEF r
  <2>1. Len(r) # 0
    BY <1>2, <1>3
  <2>2. Len(<<>>) = 0
    OBVIOUS
  <2> QED
    BY <2>1, <2>2
<1>9. Suffix(name, i).labels = r /\ Suffix(name, i) \in SuffixKeys
  BY <1>3, <1>6 DEF Suffix, Rest, SuffixKeys
<1> QED
  BY <1>3, <1>4, <1>7, <1>8, <1>9

(* The bytes of a packed name.                                             *)
LEMMA PackedShape ==
    ASSUME NEW out \in Outs, NEW name \in Names, NEW compress \in BOOLEAN, NEW stop, NEW tail, NEW new,
           NEW holes, Packing(out, holes), PackedName(out, name, compress, stop, tail, new)
    PROVE  /\ stop \in 1 .. Len(name) + 1 /\ tail \in Bytes /\ PrefixLength(name, stop) \in Nat
           /\ new.msg \in Bytes /\ new.start = out.start
           /\ Len(new.msg) = Len(out.msg) + PrefixLength(name, stop) + Len(tail)
           /\ \A x \in 1 .. Len(out.msg) : new.msg[x] = out.msg[x]
           /\ \A x \in 1 .. PrefixLength(name, stop) :
                 new.msg[Len(out.msg) + x] = Flat(CountedLabels(name), stop - 1)[x]
           /\ \A x \in 1 .. Len(tail) :
                 new.msg[Len(out.msg) + PrefixLength(name, stop) + x] = tail[x]
           /\ new.suffixes = IF compress THEN Learn(out, name, stop - 1) ELSE out.suffixes
           /\ new.suffixes \in SuffixMaps => new \in Outs
           /\ new.compress = out.compress /\ new.head = out.head
           /\ new.section = out.section /\ new.counts = out.counts /\ new.ok = out.ok
<1> DEFINE n == Len(name)
           F == Flat(CountedLabels(name), stop - 1)
           p == PrefixLength(name, stop)
           M == (out.msg \o F) \o tail
           L == IF compress THEN Learn(out, name, stop - 1) ELSE out.suffixes
<1>1. name \in Seq(Bytes) /\ n \in Nat
  BY LenProperties DEF Names
<1>2. stop \in 1 .. n + 1 /\ \A i \in 1 .. stop - 1 : Len(name[i]) \in 1 .. MaxLabel
  BY DEF PackedName
<1>3. F \in Bytes /\ Len(F) = p /\ p \in Nat
  <2> DEFINE k == stop - 1
  <2>1. k \in 0 .. n
    BY <1>1, <1>2
  <2>2. ASSUME NEW i \in 1 .. k PROVE Len(name[i]) <= 255
    <3> DEFINE l == Len(name[i])
    <3>1. l \in 1 .. 63
      BY <1>2 DEF MaxLabel
    <3> HIDE DEF l
    <3>2. l <= 255
      BY <3>1
    <3> QED
      BY <3>2 DEF l
  <2> HIDE DEF k
  <2>3. Flat(CountedLabels(name), k) \in Bytes
    BY <1>1, <2>1, <2>2, LabelsAreBytes
  <2> QED
    BY <1>1, <1>2, <2>3, PrefixSteps DEF k
<1>4. tail \in Bytes
  <2>1. CASE stop > n
    <3>1. tail = <<0>>
      BY <2>1 DEF PackedName
    <3> DEFINE S == 0 .. 255
    <3>2. 0 \in S
      OBVIOUS
    <3> HIDE DEF S
    <3>3. <<0>> \in Seq(S)
      BY <3>2, OneElement
    <3> QED
      BY <3>1, <3>3 DEF Bytes, S
  <2>2. CASE stop <= n
    <3>1. /\ Suffix(name, stop) \in DOMAIN out.suffixes
          /\ tail = Pointer(out.suffixes[Suffix(name, stop)])
      BY <2>2 DEF PackedName
    <3>2. out.suffixes[Suffix(name, stop)] \in 0 .. MaxPointer
      BY <3>1 DEF Packing, SuffixesRead, SuffixReads
    <3> QED
      BY <3>1, <3>2, PointerBytes
  <2> QED
    BY <1>1, <1>2, <2>1, <2>2
<1>5. out.msg \in Bytes
  BY DEF Outs
<1> DEFINE a == Len(out.msg)
           c == Len(tail)
<1>6. /\ M \in Bytes /\ Len(M) = a + p + c
      /\ \A x \in 1 .. a : M[x] = out.msg[x]
      /\ \A x \in 1 .. p : M[a + x] = F[x]
      /\ \A x \in 1 .. c : M[a + p + x] = tail[x]
  <2> DEFINE u == out.msg
  <2> HIDE DEF F, p, u
  <2>1. u \in Seq(0 .. 255) /\ F \in Seq(0 .. 255) /\ tail \in Seq(0 .. 255)
        /\ a = Len(u) /\ p = Len(F) /\ c = Len(tail)
    BY <1>3, <1>4, <1>5 DEF Bytes, u
  <2> HIDE DEF a, c
  <2>2. /\ (u \o F) \o tail \in Seq(0 .. 255) /\ Len((u \o F) \o tail) = a + p + c
        /\ \A x \in 1 .. a : ((u \o F) \o tail)[x] = u[x]
        /\ \A x \in 1 .. p : ((u \o F) \o tail)[a + x] = F[x]
        /\ \A x \in 1 .. c : ((u \o F) \o tail)[a + p + x] = tail[x]
    BY <2>1, JoinedProperties
  <2> QED
    BY <2>2 DEF Bytes, u
<1>7. new = [out EXCEPT !.suffixes = L, !.msg = M]
  BY DEF PackedName
<1> HIDE DEF M, L
<1>8. /\ new.msg = M /\ new.suffixes = L /\ new.start = out.start
      /\ new.compress = out.compress /\ new.head = out.head
      /\ new.section = out.section /\ new.counts = out.counts /\ new.ok = out.ok
  BY <1>7 DEF Outs
<1>9. L \in SuffixMaps => new \in Outs
  BY <1>6, <1>7 DEF Outs
<1> QED
  BY <1>2, <1>3, <1>4, <1>6, <1>8, <1>9 DEF L

(* What comes later does not change what stands: the first n bytes of msg are  *)
(* those of msg2, but for the holes, and the holes of msg2 there are holes of   *)
(* msg.                                                                    *)
Keeps(n, holes, msg, holes2, msg2, start) ==
    \A x \in 1 .. n : x \notin holes => x \notin holes2 /\ msg2[start + x] = msg[start + x]

(* What agrees with the longer message agrees with the shorter one.         *)
LEMMA AgreesLess ==
    ASSUME NEW n \in Nat, NEW n2 \in Nat, n <= n2, NEW holes, NEW holes2, NEW msg, NEW msg2, NEW start,
           Keeps(n, holes, msg, holes2, msg2, start), NEW m, Agrees(m, n2, holes2, msg2, start)
    PROVE  Agrees(m, n, holes, msg, start)
<1>1. m \in Bytes /\ n2 <= Len(m)
  BY DEF Agrees
<1>2. n <= Len(m)
  <2> DEFINE l == Len(m)
  <2>1. l \in Nat
    BY <1>1, LenProperties DEF Bytes
  <2> HIDE DEF l
  <2>2. n2 <= l
    BY <1>1 DEF l
  <2>3. n <= l
    BY <2>1, <2>2
  <2> QED
    BY <2>3 DEF l
<1>3. ASSUME NEW x \in 1 .. n, x \notin holes PROVE m[x] = msg[start + x]
  <2>1. x \in 1 .. n2
    OBVIOUS
  <2>2. x \notin holes2 /\ msg2[start + x] = msg[start + x]
    BY <1>3 DEF Keeps
  <2>3. m[x] = msg2[start + x]
    BY <2>1, <2>2 DEF Agrees
  <2> QED
    BY <2>2, <2>3
<1> QED
  BY <1>1, <1>2, <1>3 DEF Agrees

(* The suffixes that stand in a message stand in what is made of it.          *)
LEMMA SuffixKept ==
    ASSUME NEW n \in Nat, NEW n2 \in Nat, n <= n2, NEW holes, NEW holes2, NEW msg, NEW msg2, NEW start,
           Keeps(n, holes, msg, holes2, msg2, start), NEW s, NEW off,
           SuffixReads(s, off, msg, start, n, holes)
    PROVE  SuffixReads(s, off, msg2, start, n2, holes2)
<1>1. /\ s.labels \in Seq(Bytes) /\ s.labels # <<>> /\ TextLength(s.labels) <= MaxName
      /\ ValidLabels(s.labels) /\ Len(s.labels) <= MaxPointers /\ off \in 0 .. MaxPointer
  BY DEF SuffixReads
<1>2. ASSUME NEW m \in Bytes, NEW k \in Nat, Agrees(m, n2, holes2, msg2, start), Len(s.labels) <= k + 1
      PROVE  Reads(LabelsFrom(m, off, k), s.labels)
  <2>1. Agrees(m, n, holes, msg, start)
    BY <1>2, AgreesLess
  <2> QED
    BY <1>2, <2>1 DEF SuffixReads
<1> QED
  BY <1>1, <1>2 DEF SuffixReads

(* Suffixes that were read are read when more has been packed behind them.  *)
LEMMA SuffixesKept ==
    ASSUME NEW n \in Nat, NEW n2 \in Nat, n <= n2, NEW holes, NEW holes2, NEW out, NEW new,
           Keeps(n, holes, out.msg, holes2, new.msg, out.start),
           new.suffixes = out.suffixes, new.start = out.start, SuffixesRead(out, n, holes)
    PROVE  SuffixesRead(new, n2, holes2)
<1> SUFFICES ASSUME NEW s \in DOMAIN out.suffixes
             PROVE  SuffixReads(s, out.suffixes[s], new.msg, out.start, n2, holes2)
  BY DEF SuffixesRead
<1>1. SuffixReads(s, out.suffixes[s], out.msg, out.start, n, holes)
  BY DEF SuffixesRead
<1> QED
  BY <1>1, SuffixKept

(* A name is packed, one that unpacking can follow.                         *)
NamePacked(out, holes, name, compress, stop, tail, new) ==
    /\ out \in Outs /\ name \in Names /\ compress \in BOOLEAN /\ Len(name) <= MaxPointers
    /\ Packing(out, holes) /\ PackedName(out, name, compress, stop, tail, new)

(* The suffix a packed name ends in, if there is one.                        *)
LEMMA EndsInSuffix ==
    ASSUME NEW out, NEW holes, NEW name, NEW compress, NEW stop, NEW tail, NEW new,
           NamePacked(out, holes, name, compress, stop, tail, new), stop <= Len(name)
    PROVE  \E off \in 0 .. MaxPointer :
              /\ tail = Pointer(off)
              /\ \E s : s.labels = Rest(name, stop)
                        /\ SuffixReads(s, off, out.msg, out.start, Size(out), holes)
<1> DEFINE s == Suffix(name, stop)
           off == out.suffixes[s]
<1>1. s \in DOMAIN out.suffixes /\ tail = Pointer(off)
  BY DEF NamePacked, PackedName
<1>2. SuffixReads(s, off, out.msg, out.start, Size(out), holes)
  BY <1>1 DEF NamePacked, Packing, SuffixesRead
<1>3. s.labels = Rest(name, stop)
  BY DEF Suffix, Rest
<1>4. off \in 0 .. MaxPointer
  BY <1>2 DEF SuffixReads
<1> HIDE DEF s, off
<1> QED
  BY <1>1, <1>2, <1>3, <1>4

(* No label of a packed name is too long.                                   *)
LEMMA PackedNameValid ==
    ASSUME NEW out, NEW holes, NEW name, NEW compress, NEW stop, NEW tail, NEW new,
           NamePacked(out, holes, name, compress, stop, tail, new)
    PROVE  ValidLabels(name)
<1> DEFINE n == Len(name)
<1>1. name \in Names /\ name \in Seq(Bytes) /\ n \in Nat
  BY LenProperties DEF NamePacked, Names
<1>2. stop \in 1 .. n + 1 /\ \A i \in 1 .. stop - 1 : Len(name[i]) \in 1 .. MaxLabel
  BY DEF NamePacked, PackedName
<1> SUFFICES ASSUME NEW i \in 1 .. n PROVE Len(name[i]) \in 1 .. MaxLabel
  BY DEF ValidLabels
<1>3. CASE i < stop
  <2>1. i \in 1 .. stop - 1
    BY <1>1, <1>2, <1>3
  <2> QED
    BY <1>2, <2>1
<1>4. CASE ~ (i < stop)
  <2>1. stop <= n /\ stop \in 1 .. n
    BY <1>1, <1>2, <1>4
  <2>2. ValidLabels(Rest(name, stop))
    BY <2>1, EndsInSuffix DEF SuffixReads
  <2>3. /\ Len(Rest(name, stop)) = n - stop + 1
        /\ \A j \in 1 .. n - stop + 1 : Rest(name, stop)[j] = name[stop + j - 1]
    BY <1>1, <2>1, RestProperties
  <2>4. PICK j \in 1 .. n - stop + 1 : stop + j - 1 = i
    <3>1. i - stop + 1 \in 1 .. n - stop + 1 /\ stop + (i - stop + 1) - 1 = i
      BY <1>1, <1>4, <2>1
    <3> QED
      BY <3>1
  <2>5. Len(Rest(name, stop)[j]) \in 1 .. MaxLabel
    BY <2>2, <2>3 DEF ValidLabels
  <2> QED
    BY <2>3, <2>4, <2>5
<1> QED
  BY <1>3, <1>4

(* A packed name is read where it was packed, and each suffix up to where it   *)
(* stops where it begins, in every message that begins like the packed one, if *)
(* as many pointers are allowed as the suffix it ends in has labels.          *)
LEMMA PackedNameRead ==
    ASSUME NEW out, NEW holes, NEW name, NEW compress, NEW stop, NEW tail, NEW new,
           NamePacked(out, holes, name, compress, stop, tail, new),
           NEW m, Agrees(m, Size(new), holes, new.msg, new.start),
           NEW k \in Nat, Len(name) - stop + 1 <= k
    PROVE  \A i \in 1 .. stop :
              LabelsFrom(m, Size(out) + PrefixLength(name, i), k) = Found(Rest(name, i), Size(new))
<1> DEFINE n == Len(name)
           base == Size(out)
           p == PrefixLength(name, stop)
           F == Flat(CountedLabels(name), stop - 1)
           c == Len(tail)
           a == Len(out.msg)
           b == out.start
           e == Size(new)
<1>1. /\ out \in Outs /\ name \in Names /\ compress \in BOOLEAN /\ name \in Seq(Bytes) /\ n \in Nat
      /\ Packing(out, holes) /\ PackedName(out, name, compress, stop, tail, new)
  BY LenProperties DEF NamePacked, Names
<1>2. /\ stop \in 1 .. n + 1 /\ tail \in Bytes /\ p \in Nat
      /\ new.msg \in Bytes /\ new.start = b /\ Len(new.msg) = a + p + c
      /\ \A x \in 1 .. p : new.msg[a + x] = F[x]
      /\ \A x \in 1 .. c : new.msg[a + p + x] = tail[x]
  BY <1>1, PackedShape
<1>3. a \in Nat /\ c \in Nat /\ b \in Nat /\ b <= a
  BY <1>1, <1>2, LenProperties DEF Outs, Bytes, Packing
<1>4. base = a - b /\ base \in Nat
  BY <1>3 DEF Size
<1>5. e = base + p + c
  <2> DEFINE l == Len(new.msg)
             w == new.start
  <2>1. e = l - w
    BY DEF Size
  <2>2. l = a + p + c /\ w = b
    BY <1>2
  <2> HIDE DEF l, w, a, b, c, p, e, base
  <2> QED
    BY <1>2, <1>3, <1>4, <2>1, <2>2
<1>6. holes \subseteq 1 .. base
  BY <1>1 DEF Packing
<1>7. m \in Bytes /\ e <= Len(m) /\ \A x \in 1 .. e : x \notin holes => m[x] = new.msg[b + x]
  BY <1>2 DEF Agrees
<1> DEFINE M == new.msg
<1> HIDE DEF p, F, c, a, b, base, e, n, M
<1>8. ASSUME NEW x \in 1 .. p PROVE m[base + x] = F[x]
  <2>1. PICK y \in 1 .. e : y = base + x /\ y \notin 1 .. base /\ b + y = a + x
    <3>1. base + x \in 1 .. e /\ base + x \notin 1 .. base /\ b + (base + x) = a + x
      BY <1>2, <1>3, <1>4, <1>5
    <3> QED
      BY <3>1
  <2>2. m[y] = M[b + y]
    BY <1>6, <1>7, <2>1 DEF M
  <2>3. M[a + x] = F[x]
    BY <1>2 DEF M
  <2> QED
    BY <2>1, <2>2, <2>3
<1>9. ASSUME NEW x \in 1 .. c PROVE m[base + p + x] = tail[x]
  <2>1. PICK y \in 1 .. e : y = base + p + x /\ y \notin 1 .. base /\ b + y = a + p + x
    <3>1. base + p + x \in 1 .. e /\ base + p + x \notin 1 .. base /\ b + (base + p + x) = a + p + x
      BY <1>2, <1>3, <1>4, <1>5
    <3> QED
      BY <3>1
  <2>2. m[y] = M[b + y]
    BY <1>6, <1>7, <2>1 DEF M
  <2>3. M[a + p + x] = tail[x]
    BY <1>2 DEF M
  <2> QED
    BY <2>1, <2>2, <2>3
<1>10. base + p + c <= Len(m)
  BY <1>5, <1>7
<1>11. \A i \in 1 .. stop - 1 : Len(name[i]) \in 1 .. MaxLabel
  BY <1>1 DEF PackedName
<1>12. stop > n => tail = <<0>>
  BY <1>1 DEF PackedName, n
<1>13. \E to : stop <= n => /\ to \in 0 .. MaxPointer /\ tail = Pointer(to)
                            /\ k > 0 /\ Reads(LabelsFrom(m, to, k - 1), Rest(name, stop))
  <2>1. CASE stop <= n
    <3>1. stop \in 1 .. n
      BY <1>1, <1>2, <2>1
    <3>2. stop <= Len(name)
      BY <2>1 DEF n
    <3>3. PICK to \in 0 .. MaxPointer :
             /\ tail = Pointer(to)
             /\ \E s : s.labels = Rest(name, stop)
                       /\ SuffixReads(s, to, out.msg, out.start, Size(out), holes)
      BY <3>2, EndsInSuffix
    <3>4. PICK s : s.labels = Rest(name, stop) /\ SuffixReads(s, to, out.msg, b, base, holes)
      BY <3>3 DEF b, base
    <3>5. Len(Rest(name, stop)) = n - stop + 1
      BY <1>1, <3>1, RestProperties DEF n
    <3>6. k > 0 /\ k - 1 \in Nat /\ n - stop + 1 <= (k - 1) + 1
      <4>1. n - stop + 1 <= k
        BY DEF n
      <4> QED
        BY <1>1, <3>1, <4>1
    <3>7. Agrees(m, base, holes, out.msg, b)
      <4>1. \A x \in 1 .. a : M[x] = out.msg[x]
        BY <1>1, PackedShape DEF a, M
      <4>2. Keeps(base, holes, out.msg, holes, M, b)
        <5>1. \A x \in 1 .. base : b + x \in 1 .. a
          BY <1>3, <1>4
        <5> QED
          BY <4>1, <5>1 DEF Keeps
      <4>3. Agrees(m, e, holes, M, b)
        BY <1>2 DEF e, M, b
      <4>4. base \in Nat /\ e \in Nat /\ base <= e
        BY <1>2, <1>3, <1>4, <1>5
      <4> QED
        BY <4>2, <4>3, <4>4, AgreesLess
    <3>8. Reads(LabelsFrom(m, to, k - 1), s.labels)
      <4> DEFINE j == k - 1
      <4>1. j \in Nat /\ Len(s.labels) <= j + 1
        BY <3>4, <3>5, <3>6
      <4> HIDE DEF j
      <4>2. Reads(LabelsFrom(m, to, j), s.labels)
        BY <1>7, <3>4, <3>7, <4>1 DEF SuffixReads
      <4> QED
        BY <4>2 DEF j
    <3> QED
      BY <3>3, <3>4, <3>6, <3>8
  <2> QED
    BY <2>1
<1>14. PICK to : stop <= n => /\ to \in 0 .. MaxPointer /\ tail = Pointer(to)
                              /\ k > 0 /\ Reads(LabelsFrom(m, to, k - 1), Rest(name, stop))
  BY <1>13
<1>15. PackedAt(m, base, name, stop, tail, to, k)
  BY <1>8, <1>9, <1>10, <1>11, <1>12, <1>14 DEF PackedAt, p, c, F, n
<1>16. \A i \in 1 .. stop :
          LabelsFrom(m, base + PrefixLength(name, i), k)
             = Found(Rest(name, i), base + PrefixLength(name, stop) + Len(tail))
  <2>1. stop \in 1 .. Len(name) + 1
    BY <1>2 DEF n
  <2> QED
    BY <1>1, <1>4, <1>7, <1>15, <2>1, PackedNameReads
<1> QED
  BY <1>5, <1>16 DEF base, e, p, c

(* A suffix that begins at a label that is packed is read at its offset.      *)
LEMMA LearntReads ==
    ASSUME NEW out, NEW holes, NEW name, NEW compress, NEW stop, NEW tail, NEW new,
           NamePacked(out, holes, name, compress, stop, tail, new),
           NEW s \in NewSuffixes(out, name, stop - 1)
    PROVE  /\ s \in SuffixKeys
           /\ SuffixOffset(out, name, Len(name) - Len(s.labels) + 1) \in Nat
           /\ SuffixReads(s, SuffixOffset(out, name, Len(name) - Len(s.labels) + 1),
                          new.msg, out.start, Size(new), holes)
<1> DEFINE n == Len(name)
<1>1. /\ out \in Outs /\ name \in Names /\ compress \in BOOLEAN /\ name \in Seq(Bytes) /\ n \in Nat
      /\ Packing(out, holes) /\ PackedName(out, name, compress, stop, tail, new) /\ n <= MaxPointers
  BY LenProperties DEF NamePacked, Names
<1>2. stop \in 1 .. n + 1
  BY <1>1 DEF PackedName
<1>3. PICK i \in 1 .. stop - 1 : s = Suffix(name, i) /\ SuffixOffset(out, name, i) + out.start <= MaxPointer
  BY DEF NewSuffixes
<1>4. i \in 1 .. n
  BY <1>1, <1>2
<1>5. /\ Suffix(name, i) \in SuffixKeys /\ Suffix(name, i).labels = Rest(name, i)
      /\ Rest(name, i) \in Seq(Bytes) /\ Rest(name, i) # <<>>
      /\ Len(Rest(name, i)) = n - i + 1
      /\ TextLength(Rest(name, i)) <= MaxName
      /\ \A j \in 1 .. n - i + 1 : Rest(name, i)[j] = name[i + j - 1]
  BY <1>1, <1>4, RestProperties
<1> DEFINE base == Size(out)
           off == SuffixOffset(out, name, i)
           q == PrefixLength(name, i)
           a == Len(out.msg)
           b == out.start
<1>6. SuffixOffset(out, name, Len(name) - Len(s.labels) + 1) = off
  <2>1. n - Len(s.labels) + 1 = i
    <3>1. Len(s.labels) = n - i + 1
      BY <1>3, <1>5
    <3> HIDE DEF n
    <3> QED
      BY <1>1, <1>4, <3>1
  <2> QED
    BY <2>1
<1>7. a \in Nat /\ b \in Nat /\ b <= a /\ base = a - b /\ base \in Nat
  <2>1. a \in Nat /\ b \in Nat /\ b <= a
    BY <1>1, LenProperties DEF Outs, Bytes, Packing
  <2>2. base = a - b
    BY DEF Size
  <2> HIDE DEF a, b, base
  <2> QED
    BY <2>1, <2>2
<1>8. q \in Nat
  <2>1. i \in 1 .. n + 1
    BY <1>1, <1>4
  <2> QED
    BY <1>1, <2>1, PrefixSteps
<1>9. off = base + q /\ off + b <= MaxPointer
  <2>1. off = a + q - b
    BY DEF SuffixOffset
  <2>2. off + b <= MaxPointer
    BY <1>3
  <2> HIDE DEF a, q, b, off, base
  <2> QED
    BY <1>7, <1>8, <2>1, <2>2
<1>10. off \in Nat /\ off \in 0 .. MaxPointer
  <2>1. MaxPointer \in Nat
    BY PointerAssumption
  <2> HIDE DEF a, q, b, off, base
  <2> QED
    BY <1>7, <1>8, <1>9, <2>1
<1>11. ValidLabels(Rest(name, i))
  <2>1. ValidLabels(name)
    BY PackedNameValid
  <2> SUFFICES ASSUME NEW j \in 1 .. n - i + 1 PROVE Len(Rest(name, i)[j]) \in 1 .. MaxLabel
    BY <1>5 DEF ValidLabels
  <2>2. i + j - 1 \in 1 .. n
    BY <1>1, <1>4
  <2>3. Rest(name, i)[j] = name[i + j - 1]
    BY <1>5
  <2> QED
    BY <2>1, <2>2, <2>3 DEF ValidLabels
<1>12. ASSUME NEW m \in Bytes, NEW k \in Nat, Agrees(m, Size(new), holes, new.msg, out.start), n - i + 1 <= k + 1
       PROVE  Reads(LabelsFrom(m, off, k), Rest(name, i))
  <2>1. new.start = out.start
    BY <1>1, PackedShape
  <2>2. n - stop + 1 <= k
    <3> HIDE DEF n
    <3>1. n \in Nat /\ n - i + 1 <= k + 1
      BY <1>1, <1>12
    <3> QED
      BY <1>2, <3>1
  <2>3. Agrees(m, Size(new), holes, new.msg, new.start)
    BY <1>12, <2>1
  <2>4. i \in 1 .. stop
    BY <1>2
  <2>5. LabelsFrom(m, base + q, k) = Found(Rest(name, i), Size(new))
    BY <2>2, <2>3, <2>4, PackedNameRead
  <2> QED
    BY <1>9, <2>5 DEF Reads, Found
<1>13. Len(s.labels) <= MaxPointers
  <2>1. Len(s.labels) = n - i + 1
    BY <1>3, <1>5
  <2>2. MaxPointers \in Nat /\ n <= MaxPointers
    BY <1>1, PointerAssumption
  <2> HIDE DEF n
  <2> QED
    BY <1>1, <1>4, <2>1, <2>2
<1>14. s.labels = Rest(name, i)
  BY <1>3, <1>5
<1>15. SuffixReads(s, off, new.msg, out.start, Size(new), holes)
  <2> HIDE DEF off
  <2>1. ASSUME NEW m \in Bytes, NEW k \in Nat,
               Agrees(m, Size(new), holes, new.msg, out.start) /\ Len(s.labels) <= k + 1
        PROVE  Reads(LabelsFrom(m, off, k), s.labels)
    <3>1. n - i + 1 <= k + 1
      BY <1>5, <1>14, <2>1
    <3> QED
      BY <1>12, <1>14, <2>1, <3>1
  <2>2. /\ s.labels \in Seq(Bytes) /\ s.labels # <<>> /\ TextLength(s.labels) <= MaxName
        /\ ValidLabels(s.labels)
    BY <1>5, <1>11, <1>14
  <2> QED
    BY <1>10, <1>13, <2>1, <2>2 DEF SuffixReads
<1>16. s \in SuffixKeys
  BY <1>3, <1>5
<1> QED
  BY <1>6, <1>10, <1>15, <1>16

(* What packing a name makes of a builder: the name is read there, and all     *)
(* suffixes are.                                                           *)
NameStands(out, name, compress, new, holes) ==
    /\ Extends(new, out) /\ ValidLabels(name)
    /\ Size(new) \in Nat /\ Size(out) < Size(new) /\ Size(new) <= Size(out) + MaxName + 1
    /\ SuffixesRead(new, Size(new), holes)
    /\ \A m \in Bytes, k \in Nat :
          Agrees(m, Size(new), holes, new.msg, new.start) /\ (compress => Len(name) <= k)
             => LabelsFrom(m, Size(out), k) = Found(name, Size(new))

(* The map of suffixes after a name has been packed.                         *)
LEMMA MapStands ==
    ASSUME NEW out, NEW holes, NEW name, NEW compress, NEW stop, NEW tail, NEW new,
           NamePacked(out, holes, name, compress, stop, tail, new)
    PROVE  new.suffixes \in SuffixMaps /\ SuffixesRead(new, Size(new), holes)
<1> DEFINE N == NewSuffixes(out, name, stop - 1)
           Offset(s) == SuffixOffset(out, name, Len(name) - Len(s.labels) + 1)
<1>1. /\ out \in Outs /\ name \in Names /\ compress \in BOOLEAN
      /\ Packing(out, holes) /\ PackedName(out, name, compress, stop, tail, new)
  BY DEF NamePacked
<1>2. /\ new.start = out.start
      /\ new.suffixes = IF compress THEN Learn(out, name, stop - 1) ELSE out.suffixes
      /\ \A x \in 1 .. Len(out.msg) : new.msg[x] = out.msg[x]
      /\ Len(new.msg) = Len(out.msg) + PrefixLength(name, stop) + Len(tail)
      /\ PrefixLength(name, stop) \in Nat /\ tail \in Bytes
  BY <1>1, PackedShape
<1>3. ASSUME NEW s \in N
      PROVE  s \in SuffixKeys /\ Offset(s) \in Nat
             /\ SuffixReads(s, Offset(s), new.msg, out.start, Size(new), holes)
  BY LearntReads
<1>4. ASSUME NEW s \in DOMAIN out.suffixes
      PROVE  s \in SuffixKeys /\ out.suffixes[s] \in Nat
             /\ SuffixReads(s, out.suffixes[s], new.msg, out.start, Size(new), holes)
  <2>1. s \in SuffixKeys /\ out.suffixes[s] \in Nat
    <3>1. out.suffixes \in SuffixMaps
      BY <1>1 DEF Outs
    <3> QED
      BY <3>1 DEF SuffixMaps
  <2>2. SuffixReads(s, out.suffixes[s], out.msg, out.start, Size(out), holes)
    BY <1>1 DEF Packing, SuffixesRead
  <2> DEFINE a == Len(out.msg)
             b == out.start
             l == Len(new.msg)
             p == PrefixLength(name, stop)
             c == Len(tail)
             base == Size(out)
             e == Size(new)
  <2>3. a \in Nat /\ b \in Nat /\ b <= a /\ base = a - b /\ c \in Nat
    BY <1>1, <1>2, LenProperties DEF Outs, Bytes, Packing, Size
  <2>4. e = l - b /\ l = a + p + c /\ p \in Nat
    BY <1>2 DEF Size
  <2>5. base \in Nat /\ e \in Nat /\ base <= e
    <3> HIDE DEF a, b, l, p, c, base, e
    <3> QED
      BY <2>3, <2>4
  <2>6. Keeps(base, holes, out.msg, holes, new.msg, b)
    <3>1. \A x \in 1 .. base : b + x \in 1 .. a
      <4> HIDE DEF a, b, l, p, c, base, e
      <4> QED
        BY <2>3
    <3> QED
      BY <1>2, <3>1 DEF Keeps
  <2>7. SuffixReads(s, out.suffixes[s], new.msg, b, e, holes)
    <3> DEFINE msg == out.msg
               msg2 == new.msg
               off == out.suffixes[s]
    <3>1. SuffixReads(s, off, msg, b, base, holes)
      BY <2>2
    <3>2. Keeps(base, holes, msg, holes, msg2, b)
      BY <2>6
    <3> HIDE DEF b, base, e, msg, msg2, off
    <3>3. SuffixReads(s, off, msg2, b, e, holes)
      BY <2>5, <3>1, <3>2, SuffixKept
    <3> QED
      BY <3>3 DEF off, msg2
  <2> QED
    BY <2>1, <2>7
<1>5. CASE compress
  <2>1. new.suffixes = [s \in N \cup DOMAIN out.suffixes |-> IF s \in N THEN Offset(s) ELSE out.suffixes[s]]
    BY <1>2, <1>5 DEF Learn
  <2> HIDE DEF N, Offset
  <2> DEFINE D == N \cup DOMAIN out.suffixes
  <2>2. new.suffixes \in [D -> Nat] /\ D \subseteq SuffixKeys
    BY <1>3, <1>4, <2>1
  <2>3. new.suffixes \in SuffixMaps
    BY <2>2 DEF SuffixMaps
  <2>4. ASSUME NEW s \in D PROVE SuffixReads(s, new.suffixes[s], new.msg, new.start, Size(new), holes)
    <3>1. CASE s \in N
      BY <1>2, <1>3, <2>1, <3>1
    <3>2. CASE s \notin N
      BY <1>2, <1>4, <2>1, <3>2
    <3> QED
      BY <3>1, <3>2
  <2> QED
    BY <2>2, <2>3, <2>4 DEF SuffixesRead
<1>6. CASE ~ compress
  <2>1. new.suffixes = out.suffixes
    BY <1>2, <1>6
  <2>2. out.suffixes \in SuffixMaps
    BY <1>1 DEF Outs
  <2> QED
    BY <1>2, <1>4, <2>1, <2>2 DEF SuffixesRead
<1> QED
  BY <1>5, <1>6

(* How long a packed name is.                                              *)
LEMMA PackedNameSize ==
    ASSUME NEW out, NEW holes, NEW name, NEW compress, NEW stop, NEW tail, NEW new,
           NamePacked(out, holes, name, compress, stop, tail, new)
    PROVE  /\ PrefixLength(name, stop) \in Nat /\ Len(tail) \in 1 .. 2
           /\ PrefixLength(name, stop) + Len(tail) <= MaxName + 1
<1> DEFINE n == Len(name)
           p == PrefixLength(name, stop)
           q == PrefixLength(name, n + 1)
<1>1. /\ out \in Outs /\ name \in Names /\ compress \in BOOLEAN /\ name \in Seq(Bytes) /\ n \in Nat
      /\ Packing(out, holes) /\ PackedName(out, name, compress, stop, tail, new)
  BY LenProperties DEF NamePacked, Names
<1>2. stop \in 1 .. n + 1 /\ p \in Nat
  BY <1>1, PackedShape
<1>3. stop <= n => Len(tail) = 2
  <2> SUFFICES ASSUME stop <= n PROVE Len(tail) = 2
    OBVIOUS
  <2>1. PICK off \in 0 .. MaxPointer : tail = Pointer(off)
    BY EndsInSuffix
  <2> QED
    BY <2>1, PointerBytes
<1>4. stop > n => Len(tail) = 1
  <2> SUFFICES ASSUME stop > n PROVE Len(tail) = 1
    OBVIOUS
  <2>1. tail = <<0>>
    BY <1>1 DEF PackedName
  <2> QED
    BY <2>1, OneElement
<1>5. Len(tail) \in 1 .. 2
  <2> DEFINE c == Len(tail)
  <2>1. stop <= n \/ stop > n
    BY <1>1, <1>2
  <2>2. c = 1 \/ c = 2
    BY <1>3, <1>4, <2>1
  <2> HIDE DEF c
  <2>3. c \in 1 .. 2
    BY <2>2
  <2> QED
    BY <2>3 DEF c
<1>6. q \in Nat /\ q <= MaxName
  <2>1. CASE n = 0
    <3>1. n + 1 = 1
      BY <2>1
    <3>2. PrefixLength(name, 1) = 0
      BY <1>1, PrefixSteps
    <3>3. q = 0
      BY <3>1, <3>2
    <3> HIDE DEF q
    <3> QED
      BY <3>3 DEF MaxName
  <2>2. CASE n # 0
    <3>1. 1 \in 1 .. n /\ n + 1 \in 1 .. n + 1
      BY <1>1, <2>2
    <3>2. /\ Rest(name, 1) = name
          /\ TextLength(name) <= MaxName
      BY <1>1, <3>1, RestProperties DEF Names
    <3>3. TextLength(Rest(name, 1)) = q - PrefixLength(name, 1)
      BY <1>1, <3>1, SuffixText DEF Rest
    <3>4. PrefixLength(name, 1) = 0 /\ q \in Nat
      BY <1>1, <3>1, PrefixSteps
    <3> DEFINE t == TextLength(name)
               z == PrefixLength(name, 1)
    <3>5. t = q - z /\ z = 0 /\ t <= MaxName /\ q \in Nat
      BY <3>2, <3>3, <3>4
    <3> HIDE DEF t, z, q
    <3> QED
      BY <3>5 DEF MaxName
  <2> QED
    BY <2>1, <2>2
<1>7. stop <= n => p + 2 <= q
  <2> SUFFICES ASSUME stop <= n PROVE p + 2 <= q
    OBVIOUS
  <2> DEFINE l == Len(name[stop])
  <2>1. n \in 0 .. n /\ stop \in 1 .. n
    BY <1>1, <1>2
  <2>2. p + 1 + l <= q
    BY <1>1, <2>1, LabelsLaid
  <2>3. l \in 1 .. MaxLabel
    BY <2>1, PackedNameValid DEF ValidLabels
  <2> HIDE DEF l, p, q
  <2> QED
    BY <1>2, <1>6, <2>2, <2>3 DEF MaxLabel
<1>8. stop > n => p = q
  <2> SUFFICES ASSUME stop > n PROVE p = q
    OBVIOUS
  <2>1. stop = n + 1
    BY <1>1, <1>2
  <2> QED
    BY <2>1
<1>9. p + Len(tail) <= MaxName + 1
  <2> DEFINE c == Len(tail)
  <2>1. (stop <= n => c = 2) /\ (stop > n => c = 1)
    BY <1>3, <1>4
  <2>2. stop <= n \/ stop > n
    BY <1>1, <1>2
  <2> HIDE DEF c, p, q
  <2>3. p + c <= MaxName + 1
    BY <1>2, <1>6, <1>7, <1>8, <2>1, <2>2 DEF MaxName
  <2> QED
    BY <2>3 DEF c
<1> QED
  BY <1>2, <1>5, <1>9

(* A name that is packed stands, and so does all that stood before.         *)
LEMMA PackNameStands ==
    ASSUME NEW out \in Outs, NEW holes, Packing(out, holes), NEW name \in Names, Len(name) <= MaxPointers,
           NEW compress \in BOOLEAN, PackName(out, name, compress).ok
    PROVE  NameStands(out, name, compress, PackName(out, name, compress), holes)
<1> DEFINE new == PackName(out, name, compress)
           n == Len(name)
<1>1. name \in Seq(Bytes) /\ n \in Nat
  BY LenProperties DEF Names
<1>2. PICK stop, tail : PackedName(out, name, compress, stop, tail, new)
  BY <1>1, PackNameIs
<1> HIDE DEF new
<1>3. NamePacked(out, holes, name, compress, stop, tail, new)
  BY <1>2 DEF NamePacked
<1> DEFINE a == Len(out.msg)
           b == out.start
           l == Len(new.msg)
           p == PrefixLength(name, stop)
           c == Len(tail)
           base == Size(out)
           e == Size(new)
<1>4. /\ stop \in 1 .. n + 1 /\ p \in Nat
      /\ new.start = b /\ l = a + p + c
      /\ \A x \in 1 .. a : new.msg[x] = out.msg[x]
      /\ new.suffixes \in SuffixMaps => new \in Outs
      /\ new.compress = out.compress /\ new.head = out.head
      /\ new.section = out.section /\ new.counts = out.counts /\ new.ok = out.ok
  BY <1>2, PackedShape
<1>5. c \in 1 .. 2 /\ p + c <= MaxName + 1
  BY <1>3, PackedNameSize
<1>6. a \in Nat /\ b \in Nat /\ b <= a /\ base = a - b
  BY LenProperties DEF Outs, Bytes, Packing, Size
<1>7. e = l - b
  BY <1>4 DEF Size
<1>8. /\ base \in Nat /\ e \in Nat /\ base < e /\ e <= base + MaxName + 1 /\ a <= l
  <2>1. l = a + p + c
    BY <1>4
  <2> HIDE DEF a, b, l, p, c, base, e
  <2> QED
    BY <1>4, <1>5, <1>6, <1>7, <2>1 DEF MaxName
<1>9. new.suffixes \in SuffixMaps /\ SuffixesRead(new, e, holes)
  BY <1>3, MapStands
<1>10. Extends(new, out)
  BY <1>4, <1>8, <1>9 DEF Extends
<1>11. ASSUME NEW m \in Bytes, NEW k \in Nat, Agrees(m, e, holes, new.msg, new.start), compress => n <= k
       PROVE  LabelsFrom(m, base, k) = Found(name, e)
  <2>1. n - stop + 1 <= k
    <3>1. CASE compress
      <4>1. n <= k
        BY <1>11, <3>1
      <4> HIDE DEF n
      <4> QED
        BY <1>1, <1>4, <4>1
    <3>2. CASE ~ compress
      <4>1. ~ (stop <= n)
        BY <1>2, <3>2 DEF PackedName
      <4> HIDE DEF n
      <4> QED
        BY <1>1, <1>4, <4>1
    <3> QED
      BY <3>1, <3>2
  <2>2. 1 \in 1 .. stop
    BY <1>4
  <2>3. LabelsFrom(m, base + PrefixLength(name, 1), k) = Found(Rest(name, 1), e)
    BY <1>3, <1>11, <2>1, <2>2, PackedNameRead
  <2>4. PrefixLength(name, 1) = 0
    BY <1>1, PrefixSteps
  <2>5. Rest(name, 1) = name
    BY <1>1, SubSeqFull DEF Rest
  <2>6. base + PrefixLength(name, 1) = base
    <3> HIDE DEF base
    <3> QED
      BY <1>8, <2>4
  <2> QED
    BY <2>3, <2>5, <2>6
<1>12. ValidLabels(name)
  BY <1>3, PackedNameValid
<1> HIDE DEF base, e, a, b, l, p, c
<1>13. NameStands(out, name, compress, new, holes)
  BY <1>8, <1>9, <1>10, <1>11, <1>12 DEF NameStands, base, e
<1> QED
  BY <1>13 DEF new

(* Bytes that are emitted stand at the end of the message, and some of them    *)
(* may be holes.                                                           *)
BytesStand(out, bytes, new, holes, more) ==
    /\ Extends(new, out) /\ Packing(new, holes \cup more)
    /\ Size(out) \in Nat /\ Size(new) = Size(out) + Len(bytes)
    /\ \A x \in 1 .. Len(bytes) : new.msg[Len(out.msg) + x] = bytes[x]

(* The bytes of a message begin where its buffer was taken over.            *)
LEMMA SizeIs ==
    ASSUME NEW out, NEW holes, Packing(out, holes)
    PROVE  /\ Len(out.msg) \in Nat /\ out.start \in Nat /\ out.start <= Len(out.msg)
           /\ Size(out) \in Nat /\ Len(out.msg) = out.start + Size(out)
           /\ \A x \in 1 .. Size(out) : out.start + x \in 1 .. Len(out.msg)
<1> DEFINE a == Len(out.msg)
           b == out.start
<1>1. a \in Nat /\ b \in Nat /\ b <= a
  BY LenProperties DEF Outs, Bytes, Packing
<1>2. Size(out) = a - b
  BY DEF Size
<1> HIDE DEF a, b
<1>3. Size(out) \in Nat /\ a = b + Size(out)
  BY <1>1, <1>2
<1>4. \A x \in 1 .. Size(out) : b + x \in 1 .. a
  BY <1>1, <1>3
<1> QED
  BY <1>1, <1>3, <1>4 DEF a, b

(* Bytes that are put behind a message leave what stands in it.             *)
LEMMA EmitStands ==
    ASSUME NEW out, NEW holes, Packing(out, holes), NEW bytes \in Bytes, NEW more,
           more \subseteq Size(out) + 1 .. Size(out) + Len(bytes)
    PROVE  BytesStand(out, bytes, Emit(out, bytes), holes, more)
<1> DEFINE new == Emit(out, bytes)
           u == out.msg
           a == Len(u)
           b == out.start
           c == Len(bytes)
           base == Size(out)
           M == u \o bytes
           both == holes \cup more
<1>1. a \in Nat /\ b \in Nat /\ b <= a /\ base \in Nat /\ a = b + base
      /\ \A x \in 1 .. base : b + x \in 1 .. a
  BY SizeIs
<1>2. /\ out \in Outs /\ out.ok /\ holes \subseteq 1 .. base /\ SuffixesRead(out, base, holes)
  BY DEF Packing
<1>3. u \in Seq(0 .. 255) /\ bytes \in Seq(0 .. 255) /\ c \in Nat
  BY <1>2, LenProperties DEF Outs, Bytes
<1>4. M \in Seq(0 .. 255) /\ Len(M) = a + c /\ \A x \in 1 .. a + c : M[x] = IF x <= a THEN u[x] ELSE bytes[x - a]
  <2> HIDE DEF u
  <2> QED
    BY <1>3, ConcatProperties
<1>5. new = [out EXCEPT !.msg = M]
  BY DEF Emit
<1> HIDE DEF M, new
<1>6. /\ new \in Outs /\ new.msg = M /\ new.start = b /\ new.suffixes = out.suffixes
      /\ new.compress = out.compress /\ new.head = out.head
      /\ new.section = out.section /\ new.counts = out.counts /\ new.ok = out.ok
  BY <1>2, <1>4, <1>5 DEF Outs, Bytes
<1>7. Len(new.msg) = a + c /\ \A x \in 1 .. a : new.msg[x] = u[x]
  <2> HIDE DEF a, c
  <2>1. \A x \in 1 .. a : x \in 1 .. a + c /\ x <= a
    BY <1>1, <1>3
  <2> QED
    BY <1>4, <1>6, <2>1
<1>8. \A x \in 1 .. c : new.msg[a + x] = bytes[x]
  <2> HIDE DEF a, c, u
  <2> SUFFICES ASSUME NEW x \in 1 .. c PROVE M[a + x] = bytes[x]
    BY <1>6
  <2>1. PICK y \in 1 .. a + c : y = a + x /\ ~ (y <= a) /\ y - a = x
    <3>1. a + x \in 1 .. a + c /\ ~ (a + x <= a) /\ (a + x) - a = x
      BY <1>1, <1>3
    <3> QED
      BY <3>1
  <2>2. M[y] = bytes[y - a]
    BY <1>4, <2>1
  <2> QED
    BY <2>1, <2>2
<1>9. Size(new) = base + c
  <2> DEFINE l == Len(new.msg)
             w == new.start
  <2>1. Size(new) = l - w /\ l = a + c /\ w = b
    BY <1>6, <1>7 DEF Size
  <2> HIDE DEF l, w, a, b, c, base
  <2> QED
    BY <1>1, <1>3, <2>1
<1>10. Extends(new, out)
  <2>1. a <= Len(new.msg)
    <3> HIDE DEF a, c
    <3> QED
      BY <1>1, <1>3, <1>7
  <2> QED
    BY <1>6, <1>7, <2>1 DEF Extends
<1>11. Keeps(base, holes, out.msg, both, new.msg, b)
  <2> SUFFICES ASSUME NEW x \in 1 .. base, x \notin holes
               PROVE  x \notin both /\ new.msg[b + x] = out.msg[b + x]
    BY DEF Keeps
  <2>1. x \notin more
    <3> HIDE DEF base, c
    <3>1. x \notin base + 1 .. base + c
      BY <1>1, <1>3
    <3> QED
      BY <3>1 DEF base, c
  <2>2. b + x \in 1 .. a
    BY <1>1
  <2> QED
    BY <1>7, <2>1, <2>2
<1>12. SuffixesRead(new, base + c, both)
  <2> DEFINE e == base + c
  <2>1. base \in Nat /\ e \in Nat /\ base <= e
    <3> HIDE DEF base, c
    <3> QED
      BY <1>1, <1>3
  <2> HIDE DEF base, e, both
  <2>2. Keeps(base, holes, out.msg, both, new.msg, out.start) /\ new.start = out.start
    BY <1>6, <1>11
  <2> QED
    BY <1>2, <1>6, <2>1, <2>2, SuffixesKept
<1>13. both \subseteq 1 .. base + c
  <2> HIDE DEF base, c
  <2>1. 1 .. base \subseteq 1 .. base + c /\ base + 1 .. base + c \subseteq 1 .. base + c
    BY <1>1, <1>3
  <2> QED
    BY <1>2, <2>1 DEF base, c
<1>14. Packing(new, both)
  <2>1. new.start <= Len(new.msg)
    <3> HIDE DEF a, b, c
    <3>1. b <= a + c
      BY <1>1, <1>3
    <3> QED
      BY <1>6, <1>7, <3>1
  <2> QED
    BY <1>2, <1>6, <1>9, <1>12, <1>13, <2>1 DEF Packing
<1>15. BytesStand(out, bytes, new, holes, more)
  BY <1>1, <1>8, <1>9, <1>10, <1>14 DEF BytesStand
<1> QED
  BY <1>15 DEF new

(* The recursion of PackFields, and what it computes field by field.          *)
PackStep(out, layout, values, k, f) ==
    [i \in 0 .. k |-> IF i = 0 THEN out ELSE PackNext(f[i - 1], layout[i], values[i])]

(* f[i] is what i fields have been packed into.                             *)
PackRun(out, layout, values, k, f) ==
    f[0] = out /\ \A i \in 1 .. k : f[i] = PackNext(f[i - 1], layout[i], values[i])

(* The recursion of PackFields has a solution.                              *)
LEMMA PackRunExists ==
    ASSUME NEW out, NEW layout, NEW values, NEW n \in Nat
    PROVE  \E f : f = PackStep(out, layout, values, n, f)
<1> DEFINE S == {k \in 0 .. n : \E f : f = PackStep(out, layout, values, k, f)}
<1>1. 0 \in S
  <2> DEFINE f == [i \in 0 .. 0 |-> out]
  <2>1. f = PackStep(out, layout, values, 0, f)
    <3>1. \A i \in 0 .. 0 : i = 0
      OBVIOUS
    <3> QED
      BY <3>1 DEF PackStep
  <2> HIDE DEF f
  <2>2. 0 \in 0 .. n
    OBVIOUS
  <2> QED
    BY <2>1, <2>2
<1>2. ASSUME NEW k \in 0 .. n - 1, k \in S PROVE k + 1 \in S
  <2>1. PICK f : f = PackStep(out, layout, values, k, f)
    BY <1>2
  <2> DEFINE j == k + 1
             g == [i \in 0 .. j |-> IF i = j THEN PackNext(f[k], layout[j], values[j]) ELSE f[i]]
             h == PackStep(out, layout, values, j, g)
  <2>2. k \in Nat /\ j \in 0 .. n /\ j \in Nat /\ j - 1 = k /\ j # 0
    OBVIOUS
  <2>3. h = [i \in 0 .. j |-> IF i = 0 THEN out ELSE PackNext(g[i - 1], layout[i], values[i])]
    BY DEF PackStep
  <2>4. \A i \in 0 .. k : f[i] = IF i = 0 THEN out ELSE PackNext(f[i - 1], layout[i], values[i])
    BY <2>1 DEF PackStep
  <2>5. ASSUME NEW i \in 0 .. j PROVE g[i] = h[i]
    <3> HIDE DEF j, h
    <3>1. CASE i = 0
      <4>1. i # j /\ i \in 0 .. k
        BY <2>2, <3>1
      <4>2. g[i] = f[i] /\ f[i] = out
        BY <2>4, <3>1, <4>1
      <4>3. h[i] = out
        BY <2>3, <3>1
      <4> QED
        BY <4>2, <4>3
    <3>2. CASE i # 0 /\ i # j
      <4>1. i \in 0 .. k /\ i - 1 \in 0 .. j /\ i - 1 # j
        BY <2>2, <3>2
      <4>2. g[i] = f[i] /\ g[i - 1] = f[i - 1]
        BY <3>2, <4>1
      <4>3. f[i] = PackNext(f[i - 1], layout[i], values[i])
        BY <2>4, <3>2, <4>1
      <4>4. h[i] = PackNext(g[i - 1], layout[i], values[i])
        BY <2>3, <3>2
      <4> QED
        BY <4>2, <4>3, <4>4
    <3>3. CASE i = j
      <4>1. i - 1 = k /\ k \in 0 .. j /\ k # j /\ i # 0
        BY <2>2, <3>3
      <4>2. g[k] = f[k] /\ g[i] = PackNext(f[k], layout[j], values[j])
        BY <3>3, <4>1
      <4>3. h[i] = PackNext(g[i - 1], layout[i], values[i])
        BY <2>3, <4>1
      <4> QED
        BY <3>3, <4>1, <4>2, <4>3
    <3> QED
      BY <3>1, <3>2, <3>3
  <2>6. g = h
    <3> HIDE DEF j
    <3>1. g = [i \in 0 .. j |-> g[i]] /\ h = [i \in 0 .. j |-> h[i]]
      BY DEF PackStep
    <3> HIDE DEF g, h
    <3>2. [i \in 0 .. j |-> g[i]] = [i \in 0 .. j |-> h[i]]
      BY <2>5
    <3> QED
      BY <3>1, <3>2
  <2>7. \E e : e = PackStep(out, layout, values, j, e)
    <3> HIDE DEF g, j
    <3> QED
      BY <2>6
  <2> QED
    BY <2>2, <2>7
<1> HIDE DEF S
<1>3. 0 .. n \subseteq S
  BY <1>1, <1>2, UpToBound
<1>4. n \in S
  BY <1>3
<1> QED
  BY <1>4 DEF S

(* PackFields is the end of that run.                                       *)
LEMMA PackFieldsIs ==
    ASSUME NEW out, NEW layout, NEW values, NEW n \in Nat, Len(layout) = n
    PROVE  \E f : PackRun(out, layout, values, n, f) /\ PackFields(out, layout, values) = f[n]
<1> DEFINE g == CHOOSE f : f = PackStep(out, layout, values, n, f)
<1>1. g = PackStep(out, layout, values, n, g)
  BY PackRunExists
<1>2. PackFields(out, layout, values) = g[n]
  BY DEF PackFields, PackStep
<1> HIDE DEF g
<1>3. 0 \in 0 .. n /\ \A i \in 1 .. n : i \in 0 .. n /\ i # 0
  OBVIOUS
<1>4. PackRun(out, layout, values, n, g)
  BY <1>1, <1>3 DEF PackRun, PackStep
<1> QED
  BY <1>2, <1>4

(* A number of 16 bits as two bytes, and a number of 32 bits as four.         *)
LEMMA Pack16Properties ==
    ASSUME NEW n \in Nat
    PROVE  /\ Pack16(n) \in Bytes /\ Len(Pack16(n)) = 2
           /\ Pack16(n)[1] \in 0 .. 255 /\ Pack16(n)[2] \in 0 .. 255
           /\ n \in Words => Pack16(n)[1] * 256 + Pack16(n)[2] = n
<1> DEFINE d == (n \div 256) % 256
           e == n % 256
<1>1. d \in 0 .. 255 /\ e \in 0 .. 255
  OBVIOUS
<1>2. n \in Words => d * 256 + e = n
  <2>1. 2^16 - 1 = 65535
    OBVIOUS
  <2> SUFFICES ASSUME n <= 65535 PROVE d * 256 + e = n
    BY <2>1 DEF Words
  <2>2. n \div 256 \in 0 .. 255
    OBVIOUS
  <2> QED
    BY <2>2
<1>3. Pack16(n) = <<d, e>>
  BY DEF Pack16
<1> HIDE DEF d, e
<1> DEFINE S == 0 .. 255
<1>4. d \in S /\ e \in S
  BY <1>1
<1> HIDE DEF S
<1>5. <<d, e>> \in Seq(S) /\ Len(<<d, e>>) = 2 /\ <<d, e>>[1] = d /\ <<d, e>>[2] = e
  BY <1>4, TwoElements
<1> QED
  BY <1>1, <1>2, <1>3, <1>5 DEF S, Bytes

(* Two numbers behind each other are four bytes.                            *)
LEMMA TwoPacked ==
    ASSUME NEW a \in Nat, NEW b \in Nat
    PROVE  /\ Pack16(a) \o Pack16(b) \in Bytes /\ Len(Pack16(a) \o Pack16(b)) = 4
           /\ (Pack16(a) \o Pack16(b))[1] = Pack16(a)[1] /\ (Pack16(a) \o Pack16(b))[2] = Pack16(a)[2]
           /\ (Pack16(a) \o Pack16(b))[3] = Pack16(b)[1] /\ (Pack16(a) \o Pack16(b))[4] = Pack16(b)[2]
<1> DEFINE s == Pack16(a)
           t == Pack16(b)
           u == s \o t
<1>1. s \in Seq(0 .. 255) /\ t \in Seq(0 .. 255) /\ Len(s) = 2 /\ Len(t) = 2
  BY Pack16Properties DEF Bytes
<1> HIDE DEF s, t
<1>2. u \in Seq(0 .. 255) /\ Len(u) = 2 + 2 /\ \A x \in 1 .. 2 + 2 : u[x] = IF x <= 2 THEN s[x] ELSE t[x - 2]
  <2>1. u \in Seq(0 .. 255) /\ Len(u) = Len(s) + Len(t)
        /\ \A x \in 1 .. Len(s) + Len(t) : u[x] = IF x <= Len(s) THEN s[x] ELSE t[x - Len(s)]
    BY <1>1, ConcatProperties
  <2> QED
    BY <1>1, <2>1
<1> HIDE DEF u
<1>3. Len(u) = 4 /\ \A x \in 1 .. 4 : u[x] = IF x <= 2 THEN s[x] ELSE t[x - 2]
  BY <1>2
<1>4. u[1] = s[1] /\ u[2] = s[2]
  BY <1>3
<1>5. u[3] = t[3 - 2] /\ u[4] = t[4 - 2]
  BY <1>3
<1>6. u[3] = t[1] /\ u[4] = t[2]
  BY <1>5
<1> QED
  BY <1>2, <1>3, <1>4, <1>6 DEF u, s, t, Bytes

(* One of some joined sequences stands in the whole, behind those before it.  *)
IsLaid(g, n, i) ==
    /\ Len(g[i]) \in Nat /\ Len(Flat(g, i)) = Len(Flat(g, i - 1)) + Len(g[i])
    /\ Len(Flat(g, i)) <= Len(Flat(g, n))
    /\ \A x \in 1 .. Len(g[i]) : Flat(g, n)[Len(Flat(g, i - 1)) + x] = g[i][x]

(* Where one of some joined sequences stands.                                *)
LEMMA FlatLaid ==
    ASSUME NEW E, NEW n \in Nat, NEW g \in [1 .. n -> Seq(E)], NEW i \in 1 .. n
    PROVE  IsLaid(g, n, i)
<1>1. /\ Flat(g, 0) = <<>>
      /\ \A k \in 0 .. n : Flat(g, k) \in Seq(E)
      /\ \A k \in 0 .. n - 1 : Flat(g, k + 1) = Flat(g, k) \o g[k + 1]
  BY FlatStep
<1>2. \A k \in 0 .. n : Len(Flat(g, k)) \in Nat
  BY <1>1, LenProperties
<1> DEFINE p == Len(Flat(g, i - 1))
           c == Len(g[i])
           q == Len(Flat(g, i))
<1>3. /\ g[i] \in Seq(E) /\ c \in Nat /\ i \in 0 .. n /\ i - 1 \in 0 .. n
      /\ p \in Nat /\ q \in Nat
  <2>1. i \in 0 .. n /\ i - 1 \in 0 .. n
    OBVIOUS
  <2>2. g[i] \in Seq(E)
    OBVIOUS
  <2> QED
    BY <1>2, <2>1, <2>2, LenProperties
<1>4. /\ q = p + c /\ \A x \in 1 .. p + c : Flat(g, i)[x] = IF x <= p THEN Flat(g, i - 1)[x] ELSE g[i][x - p]
  <2>1. Flat(g, i) = Flat(g, i - 1) \o g[i]
    <3>1. PICK k \in 0 .. n - 1 : k = i - 1 /\ k + 1 = i
      <4>1. i - 1 \in 0 .. n - 1 /\ (i - 1) + 1 = i
        OBVIOUS
      <4> QED
        BY <4>1
    <3> QED
      BY <1>1, <3>1
  <2> DEFINE f == Flat(g, i - 1)
             h == g[i]
  <2>2. f \in Seq(E) /\ h \in Seq(E)
    BY <1>1, <1>3
  <2> HIDE DEF f, h
  <2>3. Len(f \o h) = Len(f) + Len(h)
        /\ \A x \in 1 .. Len(f) + Len(h) : (f \o h)[x] = IF x <= Len(f) THEN f[x] ELSE h[x - Len(f)]
    BY <2>2, ConcatProperties
  <2> QED
    BY <2>1, <2>3 DEF f, h
<1> DEFINE S == {d \in 0 .. n - i : /\ q <= Len(Flat(g, i + d))
                                    /\ \A x \in 1 .. q : Flat(g, i + d)[x] = Flat(g, i)[x]}
<1>5. 0 \in S
  <2>1. 0 \in 0 .. n - i /\ i + 0 = i
    OBVIOUS
  <2>2. q <= q
    BY <1>3
  <2> QED
    BY <2>1, <2>2
<1>6. ASSUME NEW d \in 0 .. (n - i) - 1, d \in S PROVE d + 1 \in S
  <2>1. PICK k \in 0 .. n - 1 : k = i + d /\ k + 1 = i + (d + 1) /\ k \in 0 .. n /\ k + 1 \in 1 .. n
    <3>1. i + d \in 0 .. n - 1 /\ (i + d) + 1 = i + (d + 1) /\ i + d \in 0 .. n /\ (i + d) + 1 \in 1 .. n
      OBVIOUS
    <3> QED
      BY <3>1
  <2> DEFINE f == Flat(g, k)
             h == g[k + 1]
             w == f \o h
  <2>2. Flat(g, i + (d + 1)) = w /\ f \in Seq(E) /\ h \in Seq(E) /\ f = Flat(g, i + d)
    BY <1>1, <2>1
  <2>3. d + 1 \in 0 .. n - i
    OBVIOUS
  <2>4. q <= Len(f) /\ \A x \in 1 .. q : f[x] = Flat(g, i)[x]
    BY <1>6, <2>2
  <2> HIDE DEF f, h, q
  <2>5. Len(w) = Len(f) + Len(h)
        /\ \A x \in 1 .. Len(f) + Len(h) : w[x] = IF x <= Len(f) THEN f[x] ELSE h[x - Len(f)]
    BY <2>2, ConcatProperties
  <2> HIDE DEF w
  <2> DEFINE u == Len(f)
             v == Len(h)
  <2>6. u \in Nat /\ v \in Nat
    BY <2>2, LenProperties
  <2>7. q <= u /\ Len(w) = u + v /\ \A x \in 1 .. u + v : w[x] = IF x <= u THEN f[x] ELSE h[x - u]
    BY <2>4, <2>5
  <2> HIDE DEF u, v
  <2>8. q <= Len(w)
    BY <1>3, <2>6, <2>7
  <2>9. ASSUME NEW x \in 1 .. q PROVE w[x] = Flat(g, i)[x]
    <3>1. x \in 1 .. u + v /\ x <= u
      BY <1>3, <2>6, <2>7
    <3> QED
      BY <2>4, <2>7, <3>1
  <2> QED
    BY <2>2, <2>3, <2>8, <2>9
<1>7. n - i \in Nat
  OBVIOUS
<1> HIDE DEF S
<1>8. 0 .. n - i \subseteq S
  <2> DEFINE b == n - i
  <2>1. b \in Nat /\ \A d \in 0 .. b - 1 : d \in S => d + 1 \in S
    BY <1>6, <1>7
  <2> HIDE DEF b
  <2>2. 0 .. b \subseteq S
    BY <1>5, <2>1, UpToBound
  <2> QED
    BY <2>2 DEF b
<1>9. n - i \in S /\ i + (n - i) = n
  BY <1>7, <1>8
<1>10. q <= Len(Flat(g, n)) /\ \A x \in 1 .. q : Flat(g, n)[x] = Flat(g, i)[x]
  BY <1>9 DEF S
<1>11. ASSUME NEW x \in 1 .. c PROVE Flat(g, n)[p + x] = g[i][x]
  <2> HIDE DEF p, c, q
  <2>1. PICK y \in 1 .. p + c : y = p + x /\ ~ (y <= p) /\ y - p = x
    <3>1. p + x \in 1 .. p + c /\ ~ (p + x <= p) /\ (p + x) - p = x
      BY <1>3
    <3> QED
      BY <3>1
  <2>2. Flat(g, i)[y] = g[i][y - p] /\ y \in 1 .. q
    BY <1>4, <2>1
  <2>3. Flat(g, n)[y] = Flat(g, i)[y]
    BY <1>10, <2>2
  <2> QED
    BY <2>1, <2>2, <2>3
<1> QED
  BY <1>3, <1>4, <1>10, <1>11 DEF IsLaid

(* The bytes of an option, and of a field that is not a name.                 *)
OptionBytes(option) == Pack16(option.code) \o Pack16(Len(option.data)) \o option.data
(* The bytes of a list of options, one sequence for each.                   *)
OptionsBytes(options) == [j \in 1 .. Len(options) |-> OptionBytes(options[j])]

(* The kinds of fields that are names.                                      *)
IsName(kind) == kind \in {"name", "plain"}

(* The bytes of a field that is no name.                                    *)
FieldBytes(kind, value) ==
    CASE kind = "uint16"  -> Pack16(value)
      [] kind = "uint32"  -> Pack16(value[1]) \o Pack16(value[2])
      [] kind = "texts"   -> Flat(CountedLabels(value), Len(value))
      [] kind = "options" -> Flat(OptionsBytes(value), Len(value))
      [] OTHER            -> value

(* A value that can be packed: unpacking can follow the name.                *)
FieldFits(kind, value) ==
    value \in FieldValues(kind) /\ (IsName(kind) => Len(value) <= MaxPointers)

(* The options of an OPT record.                                            *)
Options == [code : Words, data : Bytes]

(* Words are numbers.                                                       *)
LEMMA WordsAre ==
    \A w \in Words : w \in Nat
<1>1. 2^16 - 1 = 65535
  OBVIOUS
<1> QED
  BY <1>1 DEF Words

(* The bytes of an option: its code, the length of its data, its data.      *)
LEMMA OptionBytesProperties ==
    ASSUME NEW option \in Options
    PROVE  /\ OptionBytes(option) \in Bytes /\ Len(option.data) \in Nat
           /\ Len(OptionBytes(option)) = 4 + Len(option.data)
           /\ OptionBytes(option)[1] = Pack16(option.code)[1]
           /\ OptionBytes(option)[2] = Pack16(option.code)[2]
           /\ OptionBytes(option)[3] = Pack16(Len(option.data))[1]
           /\ OptionBytes(option)[4] = Pack16(Len(option.data))[2]
           /\ \A x \in 1 .. Len(option.data) : OptionBytes(option)[4 + x] = option.data[x]
<1> DEFINE a == option.code
           d == option.data
           n == Len(d)
           h == Pack16(a) \o Pack16(n)
           s == h \o d
<1>1. a \in Nat /\ d \in Bytes /\ n \in Nat
  <2>1. a \in Words /\ d \in Bytes
    BY DEF Options
  <2> QED
    BY <2>1, LenProperties, WordsAre DEF Bytes
<1>2. /\ h \in Seq(0 .. 255) /\ Len(h) = 4
      /\ h[1] = Pack16(a)[1] /\ h[2] = Pack16(a)[2] /\ h[3] = Pack16(n)[1] /\ h[4] = Pack16(n)[2]
  <2> HIDE DEF a, n
  <2> QED
    BY <1>1, TwoPacked DEF Bytes
<1>3. OptionBytes(option) = s
  BY DEF OptionBytes
<1>4. d \in Seq(0 .. 255)
  BY <1>1 DEF Bytes
<1> HIDE DEF h, d, a
<1>5. s \in Seq(0 .. 255) /\ Len(s) = Len(h) + Len(d)
      /\ \A x \in 1 .. Len(h) + Len(d) : s[x] = IF x <= Len(h) THEN h[x] ELSE d[x - Len(h)]
  BY <1>2, <1>4, ConcatProperties
<1> HIDE DEF s
<1>6. Len(s) = 4 + n /\ \A x \in 1 .. 4 + n : s[x] = IF x <= 4 THEN h[x] ELSE d[x - 4]
  BY <1>2, <1>5
<1> HIDE DEF n
<1>7. s[1] = h[1] /\ s[2] = h[2] /\ s[3] = h[3] /\ s[4] = h[4]
  <2>1. \A x \in 1 .. 4 : x \in 1 .. 4 + n /\ x <= 4
    BY <1>1
  <2>2. \A x \in 1 .. 4 : s[x] = h[x]
    BY <1>6, <2>1
  <2> QED
    BY <2>2
<1>8. ASSUME NEW x \in 1 .. n PROVE s[4 + x] = d[x]
  <2>1. PICK y \in 1 .. 4 + n : y = 4 + x /\ ~ (y <= 4) /\ y - 4 = x
    <3>1. 4 + x \in 1 .. 4 + n /\ ~ (4 + x <= 4) /\ (4 + x) - 4 = x
      BY <1>1
    <3> QED
      BY <3>1
  <2> QED
    BY <1>6, <2>1
<1> QED
  BY <1>1, <1>2, <1>3, <1>5, <1>6, <1>7, <1>8 DEF a, d, n, Bytes

(* The bytes of options are bytes.                                          *)
LEMMA OptionsAreBytes ==
    ASSUME NEW options \in Seq(Options)
    PROVE  /\ Len(options) \in Nat /\ \A j \in 1 .. Len(options) : OptionsBytes(options)[j] \in Bytes
           /\ \A k \in 0 .. Len(options) : Flat(OptionsBytes(options), k) \in Bytes
<1> DEFINE n == Len(options)
           g == OptionsBytes(options)
<1>1. n \in Nat /\ \A j \in 1 .. n : options[j] \in Options
  BY LenProperties, ElementOfSeq
<1>2. ASSUME NEW j \in 1 .. n PROVE g[j] \in Seq(0 .. 255)
  <2>1. options[j] \in Options
    BY <1>1
  <2>2. OptionBytes(options[j]) \in Bytes
    BY <2>1, OptionBytesProperties
  <2>3. g[j] = OptionBytes(options[j])
    BY DEF OptionsBytes
  <2> QED
    BY <2>2, <2>3 DEF Bytes
<1> HIDE DEF n, g
<1>3. \A k \in 0 .. n : Flat(g, k) \in Seq(0 .. 255)
  BY <1>1, <1>2, FlatStep
<1> QED
  BY <1>1, <1>2, <1>3 DEF n, g, Bytes

(* Packing a field that is not a name emits its bytes.                       *)
LEMMA FieldEmitted ==
    ASSUME NEW out \in Outs, NEW kind, NEW value, FieldFits(kind, value), ~ IsName(kind),
           PackField(out, kind, value).ok
    PROVE  /\ PackField(out, kind, value) = Emit(out, FieldBytes(kind, value))
           /\ FieldBytes(kind, value) \in Bytes
<1>0. value \in FieldValues(kind)
  BY DEF FieldFits
<1>1. CASE kind = "uint16"
  <2>1. value \in Words /\ value \in Nat
    <3>1. FieldValues(kind) = Words
      BY <1>1 DEF FieldValues
    <3> QED
      BY <1>0, <3>1, WordsAre
  <2>2. PackField(out, kind, value) = Emit(out, Pack16(value)) /\ FieldBytes(kind, value) = Pack16(value)
    BY <1>1 DEF PackField, FieldBytes
  <2> QED
    BY <2>1, <2>2, Pack16Properties
<1>2. CASE kind = "uint32"
  <2>1. value \in Words \X Words
    <3>1. FieldValues(kind) = Words \X Words
      BY <1>2 DEF FieldValues
    <3> QED
      BY <1>0, <3>1
  <2>2. value[1] \in Nat /\ value[2] \in Nat
    BY <2>1, WordsAre
  <2>3. PackField(out, kind, value) = Emit(out, Pack16(value[1]) \o Pack16(value[2]))
    BY <1>2 DEF PackField
  <2>4. FieldBytes(kind, value) = Pack16(value[1]) \o Pack16(value[2])
    BY <1>2 DEF FieldBytes
  <2> QED
    BY <2>2, <2>3, <2>4, TwoPacked
<1>3. CASE kind = "texts"
  <2> DEFINE n == Len(value)
  <2>1. value \in Seq(Bytes) /\ n \in Nat
    <3>1. FieldValues(kind) = Seq(Bytes)
      BY <1>3 DEF FieldValues
    <3> QED
      BY <1>0, <3>1, LenProperties
  <2>2. PackField(out, kind, value) = PackTexts(out, value)
    BY <1>3 DEF PackField
  <2>3. FieldBytes(kind, value) = Flat(CountedLabels(value), n)
    BY <1>3 DEF FieldBytes
  <2>4. DOMAIN value = 1 .. n
    BY <2>1, LenProperties
  <2>5. ~ \E i \in DOMAIN value : Len(value[i]) > 255
    BY <2>2 DEF PackTexts, Outs
  <2>6. ASSUME NEW i \in 1 .. n PROVE Len(value[i]) <= 255
    <3>1. value[i] \in Bytes
      BY <2>1, ElementOfSeq
    <3> DEFINE l == Len(value[i])
    <3>2. l \in Nat /\ ~ (l > 255)
      BY <2>4, <2>5, <3>1, LenProperties DEF Bytes
    <3> HIDE DEF l
    <3>3. l <= 255
      BY <3>2
    <3> QED
      BY <3>3 DEF l
  <2>7. PackTexts(out, value) = Emit(out, FlattenSeq([i \in DOMAIN value |-> Counted(value[i])]))
    BY <2>5 DEF PackTexts
  <2>8. FlattenSeq([i \in DOMAIN value |-> Counted(value[i])]) = Flat(CountedLabels(value), n)
    <3>1. [i \in DOMAIN value |-> Counted(value[i])] = [j \in 1 .. n |-> CountedLabels(value)[j]]
      BY <2>4 DEF CountedLabels
    <3> QED
      BY <3>1 DEF Flat
  <2>9. n \in 0 .. n
    BY <2>1
  <2>10. Flat(CountedLabels(value), n) \in Bytes
    <3> HIDE DEF n
    <3>1. n \in 0 .. Len(value)
      BY <2>9 DEF n
    <3> QED
      BY <2>1, <2>6, <3>1, LabelsAreBytes
  <2> QED
    BY <2>2, <2>3, <2>7, <2>8, <2>10
<1>4. CASE kind = "options"
  <2> DEFINE n == Len(value)
  <2>1. value \in Seq(Options) /\ n \in Nat
    <3>1. FieldValues(kind) = Seq(Options)
      BY <1>4 DEF FieldValues, Options
    <3> QED
      BY <1>0, <3>1, LenProperties
  <2>2. PackField(out, kind, value) = PackOptions(out, value)
    BY <1>4 DEF PackField
  <2>3. FieldBytes(kind, value) = Flat(OptionsBytes(value), n)
    BY <1>4 DEF FieldBytes
  <2>4. DOMAIN value = 1 .. n
    BY <2>1, LenProperties
  <2>5. PackOptions(out, value) = Emit(out, FlattenSeq([i \in DOMAIN value |-> OptionBytes(value[i])]))
    BY DEF PackOptions, OptionBytes
  <2>6. FlattenSeq([i \in DOMAIN value |-> OptionBytes(value[i])]) = Flat(OptionsBytes(value), n)
    <3>1. [i \in DOMAIN value |-> OptionBytes(value[i])] = [j \in 1 .. n |-> OptionsBytes(value)[j]]
      BY <2>4 DEF OptionsBytes
    <3> QED
      BY <3>1 DEF Flat
  <2>7. n \in 0 .. n
    BY <2>1
  <2>8. Flat(OptionsBytes(value), n) \in Bytes
    BY <2>1, <2>7, OptionsAreBytes
  <2> QED
    BY <2>2, <2>3, <2>5, <2>6, <2>8
<1>5. CASE kind \notin {"uint16", "uint32", "texts", "options"}
  <2>1. kind \notin {"uint16", "uint32", "name", "plain", "texts", "options"}
    BY <1>5 DEF IsName
  <2>2. PackField(out, kind, value) = Emit(out, value)
    BY <2>1 DEF PackField
  <2>3. FieldBytes(kind, value) = value
    BY <2>1 DEF FieldBytes
  <2>4. value \in Bytes
    <3>1. kind = "ip4" => FieldValues(kind) = {b \in Bytes : Len(b) = 4}
      BY DEF FieldValues
    <3>2. kind = "ip6" => FieldValues(kind) = {b \in Bytes : Len(b) = 16}
      BY DEF FieldValues
    <3>3. kind \notin {"ip4", "ip6"} => FieldValues(kind) = Bytes
      BY <2>1 DEF FieldValues
    <3> QED
      BY <1>0, <3>1, <3>2, <3>3
  <2> QED
    BY <2>2, <2>3, <2>4
<1> QED
  BY <1>1, <1>2, <1>3, <1>4, <1>5

(* A message extends itself.                                                *)
LEMMA ExtendsSelf ==
    ASSUME NEW out \in Outs
    PROVE  Extends(out, out)
<1> DEFINE a == Len(out.msg)
<1>1. a \in Nat
  BY LenProperties DEF Outs, Bytes
<1>2. a <= a
  <2> HIDE DEF a
  <2> QED
    BY <1>1
<1> QED
  BY <1>2 DEF Extends

(* What extends an extension extends the message.                           *)
LEMMA ExtendsMore ==
    ASSUME NEW out \in Outs, NEW mid, NEW new, Extends(mid, out), Extends(new, mid)
    PROVE  Extends(new, out)
<1> DEFINE a == Len(out.msg)
           b == Len(mid.msg)
           c == Len(new.msg)
<1>1. a \in Nat /\ b \in Nat /\ c \in Nat
  BY LenProperties DEF Outs, Bytes, Extends
<1>2. a <= b /\ b <= c
  BY DEF Extends
<1>3. a <= c /\ \A x \in 1 .. a : x \in 1 .. b
  <2> HIDE DEF a, b, c
  <2> QED
    BY <1>1, <1>2
<1>4. \A x \in 1 .. a : new.msg[x] = out.msg[x]
  BY <1>3 DEF Extends
<1> QED
  BY <1>3, <1>4 DEF Extends

(* How much has been packed does not shrink.                                *)
LEMMA ExtendsSize ==
    ASSUME NEW out, NEW new, NEW holes, NEW more, Packing(out, holes), Packing(new, more), Extends(new, out)
    PROVE  Size(out) \in Nat /\ Size(new) \in Nat /\ Size(out) <= Size(new)
<1> DEFINE a == Len(out.msg)
           b == Len(new.msg)
           s == out.start
           x == Size(out)
           y == Size(new)
<1>1. a \in Nat /\ b \in Nat /\ s \in Nat /\ x \in Nat /\ y \in Nat /\ a = s + x
  BY SizeIs
<1>2. b = s + y
  <2>1. b = new.start + Size(new)
    BY SizeIs
  <2> QED
    BY <2>1 DEF Extends
<1>3. a <= b
  BY DEF Extends
<1> HIDE DEF a, b, s, x, y
<1>4. x <= y
  BY <1>1, <1>2, <1>3
<1> QED
  BY <1>1, <1>4 DEF x, y

(* A field is packed.                                                      *)
LEMMA NamePacking ==
    ASSUME NEW out, NEW holes, Packing(out, holes), NEW name, NEW compress, NEW new,
           NameStands(out, name, compress, new, holes)
    PROVE  Packing(new, holes)
<1> DEFINE x == Size(out)
           y == Size(new)
<1>1. /\ Extends(new, out) /\ y \in Nat /\ x < y /\ SuffixesRead(new, y, holes)
  BY DEF NameStands
<1>2. new \in Outs /\ new.ok /\ holes \subseteq 1 .. x /\ x \in Nat
  BY <1>1, SizeIs DEF Extends, Packing
<1>3. holes \subseteq 1 .. y
  <2> HIDE DEF x, y
  <2>1. 1 .. x \subseteq 1 .. y
    BY <1>1, <1>2
  <2> QED
    BY <1>2, <2>1
<1>4. new.start <= Len(new.msg)
  <2> DEFINE s == out.start
             a == Len(out.msg)
             b == Len(new.msg)
  <2>1. s \in Nat /\ a \in Nat /\ b \in Nat /\ s <= a /\ a <= b /\ new.start = s
    BY <1>1, <1>2, SizeIs, LenProperties DEF Extends, Outs, Bytes
  <2> HIDE DEF s, a, b
  <2>2. s <= b
    BY <2>1
  <2> QED
    BY <2>1, <2>2 DEF b
<1> QED
  BY <1>1, <1>2, <1>3, <1>4 DEF Packing

(* A field that is packed leaves the suffixes readable, and all that stood  *)
(* before.                                                                  *)
LEMMA FieldStands ==
    ASSUME NEW out, NEW holes, Packing(out, holes), NEW kind, NEW value, FieldFits(kind, value),
           PackField(out, kind, value).ok
    PROVE  Packing(PackField(out, kind, value), holes) /\ Extends(PackField(out, kind, value), out)
<1>1. out \in Outs
  BY DEF Packing
<1>2. CASE IsName(kind)
  <2> DEFINE c == out.compress /\ kind = "name"
  <2>1. PackField(out, kind, value) = PackName(out, value, c)
    BY <1>2 DEF PackField, IsName
  <2>2. value \in Names /\ Len(value) <= MaxPointers
    <3>1. FieldValues(kind) = Names
      BY <1>2 DEF FieldValues, IsName
    <3> QED
      BY <1>2, <3>1 DEF FieldFits
  <2>3. c \in BOOLEAN
    OBVIOUS
  <2> HIDE DEF c
  <2>4. NameStands(out, value, c, PackName(out, value, c), holes)
    BY <1>1, <2>1, <2>2, <2>3, PackNameStands
  <2>5. Packing(PackName(out, value, c), holes)
    BY <2>4, NamePacking
  <2> QED
    BY <2>1, <2>4, <2>5 DEF NameStands
<1>3. CASE ~ IsName(kind)
  <2> DEFINE b == FieldBytes(kind, value)
  <2>1. PackField(out, kind, value) = Emit(out, b) /\ b \in Bytes
    BY <1>1, <1>3, FieldEmitted
  <2> HIDE DEF b
  <2>2. BytesStand(out, b, Emit(out, b), holes, {})
    BY <2>1, EmitStands
  <2>3. holes \cup {} = holes
    OBVIOUS
  <2> QED
    BY <2>1, <2>2, <2>3 DEF BytesStand
<1> QED
  BY <1>2, <1>3

-----------------------------------------------------------------------------
(* Fields are packed one after the other, without an error.                  *)
FieldsFit(values, layout, n) == \A i \in 1 .. n : FieldFits(layout[i], values[i])

(* f[i] is what i fields have been packed into, each of which fits; it      *)
(* stands, and extends what was there before.                               *)
FieldsPacked(out, layout, values, n, f, holes) ==
    /\ f[0] = out
    /\ \A i \in 1 .. n : /\ f[i] = PackField(f[i - 1], layout[i], values[i])
                         /\ FieldFits(layout[i], values[i])
    /\ \A i \in 0 .. n : Packing(f[i], holes)
    /\ \A j \in 0 .. n : \A i \in 0 .. j : Extends(f[j], f[i])

(* If the last field was packed, every one was.                             *)
LEMMA RunSucceeds ==
    ASSUME NEW out, NEW layout, NEW values, NEW n \in Nat, NEW f,
           PackRun(out, layout, values, n, f), f[n].ok
    PROVE  \A i \in 0 .. n : f[i].ok
<1> DEFINE S == {d \in 0 .. n : f[n - d].ok}
<1>1. 0 \in S
  <2>1. n - 0 = n /\ 0 \in 0 .. n
    OBVIOUS
  <2> QED
    BY <2>1
<1>2. ASSUME NEW d \in 0 .. n - 1, d \in S PROVE d + 1 \in S
  <2>1. PICK i \in 1 .. n : i = n - d /\ i - 1 = n - (d + 1)
    <3>1. n - d \in 1 .. n /\ (n - d) - 1 = n - (d + 1)
      OBVIOUS
    <3> QED
      BY <3>1
  <2>2. f[i].ok /\ f[i] = PackNext(f[i - 1], layout[i], values[i])
    BY <1>2, <2>1 DEF PackRun
  <2>3. f[i - 1].ok
    BY <2>2 DEF PackNext
  <2>4. d + 1 \in 0 .. n
    OBVIOUS
  <2> QED
    BY <2>1, <2>3, <2>4
<1> HIDE DEF S
<1>3. 0 .. n \subseteq S
  BY <1>1, <1>2, UpToBound
<1> SUFFICES ASSUME NEW i \in 0 .. n PROVE f[i].ok
  OBVIOUS
<1>4. n - i \in 0 .. n /\ n - (n - i) = i
  OBVIOUS
<1> QED
  BY <1>3, <1>4 DEF S

(* Fields that fit and are packed one after the other stand.                *)
LEMMA FieldsStand ==
    ASSUME NEW out, NEW holes, Packing(out, holes), NEW layout, NEW values, NEW n \in Nat,
           FieldsFit(values, layout, n), NEW f, PackRun(out, layout, values, n, f), f[n].ok
    PROVE  FieldsPacked(out, layout, values, n, f, holes)
<1>1. \A i \in 0 .. n : f[i].ok
  BY RunSucceeds
<1>2. f[0] = out
  BY DEF PackRun
<1>3. ASSUME NEW i \in 1 .. n
      PROVE  f[i] = PackField(f[i - 1], layout[i], values[i]) /\ FieldFits(layout[i], values[i])
  <2>1. i - 1 \in 0 .. n
    OBVIOUS
  <2> QED
    BY <1>1, <2>1 DEF PackRun, PackNext, FieldsFit
<1> DEFINE S == {j \in 0 .. n : Packing(f[j], holes) /\ \A i \in 0 .. j : Extends(f[j], f[i]) /\ f[i] \in Outs}
<1>4. 0 \in S
  <2>1. \A i \in 0 .. 0 : f[i] = out
    BY <1>2
  <2>2. out \in Outs
    BY DEF Packing
  <2>3. Extends(out, out)
    BY <2>2, ExtendsSelf
  <2>4. 0 \in 0 .. n
    OBVIOUS
  <2> QED
    BY <1>2, <2>1, <2>2, <2>3, <2>4
<1>5. ASSUME NEW d \in 0 .. n - 1, d \in S PROVE d + 1 \in S
  <2>1. PICK j \in 1 .. n : j = d + 1 /\ j - 1 = d /\ j \in 0 .. n
    <3>1. d + 1 \in 1 .. n /\ (d + 1) - 1 = d /\ d + 1 \in 0 .. n
      OBVIOUS
    <3> QED
      BY <3>1
  <2> DEFINE kind == layout[j]
             value == values[j]
  <2>2. f[j] = PackField(f[d], kind, value) /\ FieldFits(kind, value) /\ f[j].ok
    BY <1>1, <1>3, <2>1
  <2>3. Packing(f[d], holes) /\ f[d] \in Outs
    BY <1>5 DEF Packing
  <2> DEFINE mid == f[d]
  <2> HIDE DEF kind, value, mid
  <2>4. Packing(PackField(mid, kind, value), holes) /\ Extends(PackField(mid, kind, value), mid)
    BY <2>2, <2>3, FieldStands DEF mid
  <2>5. Packing(f[j], holes) /\ Extends(f[j], f[d]) /\ f[j] \in Outs
    BY <2>2, <2>4 DEF mid, Packing
  <2>6. ASSUME NEW i \in 0 .. j PROVE Extends(f[j], f[i]) /\ f[i] \in Outs
    <3>1. CASE i = j
      BY <2>5, <3>1, ExtendsSelf
    <3>2. CASE i # j
      <4>1. i \in 0 .. d
        BY <2>1, <3>2
      <4>2. Extends(f[d], f[i]) /\ f[i] \in Outs
        BY <1>5, <4>1
      <4> QED
        BY <2>5, <4>2, ExtendsMore
    <3> QED
      BY <3>1, <3>2
  <2>7. j \in S
    BY <2>1, <2>5, <2>6
  <2> QED
    BY <2>1, <2>7
<1> HIDE DEF S
<1>6. 0 .. n \subseteq S
  BY <1>4, <1>5, UpToBound
<1>7. \A i \in 0 .. n : Packing(f[i], holes) /\ \A j \in 0 .. i : Extends(f[i], f[j])
  BY <1>6 DEF S
<1> QED
  BY <1>2, <1>3, <1>7 DEF FieldsPacked

(* Fields that are packed without an error stand one after the other.          *)
LEMMA PackFieldsStands ==
    ASSUME NEW out, NEW holes, Packing(out, holes), NEW layout, NEW values, NEW n \in Nat, Len(layout) = n,
           FieldsFit(values, layout, n), PackFields(out, layout, values).ok
    PROVE  \E f : /\ FieldsPacked(out, layout, values, n, f, holes)
                  /\ PackFields(out, layout, values) = f[n]
<1>1. PICK f : PackRun(out, layout, values, n, f) /\ PackFields(out, layout, values) = f[n]
  BY PackFieldsIs
<1>2. f[n].ok
  BY <1>1
<1>3. FieldsPacked(out, layout, values, n, f, holes)
  BY <1>1, <1>2, FieldsStand
<1> QED
  BY <1>1, <1>3

(* If fields are packed without an error, there was none before.              *)
LEMMA PackFieldsFrom ==
    ASSUME NEW out, NEW layout, NEW values, NEW n \in Nat, Len(layout) = n,
           PackFields(out, layout, values).ok
    PROVE  out.ok
<1>1. PICK f : PackRun(out, layout, values, n, f) /\ PackFields(out, layout, values) = f[n]
  BY PackFieldsIs
<1>2. f[n].ok
  BY <1>1
<1>3. f[0].ok
  <2>1. \A i \in 0 .. n : f[i].ok
    BY <1>1, <1>2, RunSucceeds
  <2>2. 0 \in 0 .. n
    OBVIOUS
  <2> QED
    BY <2>1, <2>2
<1> QED
  BY <1>1, <1>3 DEF PackRun

-----------------------------------------------------------------------------
(* Bytes that are filled in.                                               *)
LEMMA FillInProperties ==
    ASSUME NEW msg \in Bytes, NEW bytes \in Bytes, NEW before \in Nat, NEW c, c = Len(bytes),
           before + c <= Len(msg)
    PROVE  /\ FillIn(msg, before, bytes) \in Bytes /\ Len(FillIn(msg, before, bytes)) = Len(msg)
           /\ \A x \in 1 .. Len(msg) : x \notin before + 1 .. before + c =>
                 FillIn(msg, before, bytes)[x] = msg[x]
           /\ \A y \in 1 .. c : FillIn(msg, before, bytes)[before + y] = bytes[y]
<1> DEFINE n == Len(msg)
           w == FillIn(msg, before, bytes)
<1>1. n \in Nat /\ DOMAIN msg = 1 .. n /\ c \in Nat /\ DOMAIN bytes = 1 .. c
  BY LenProperties DEF Bytes
<1>2. w = [x \in 1 .. n |-> IF x - before \in 1 .. c THEN bytes[x - before] ELSE msg[x]]
  BY <1>1 DEF FillIn
<1>3. (\A x \in 1 .. n : msg[x] \in 0 .. 255) /\ \A y \in 1 .. c : bytes[y] \in 0 .. 255
  <2>1. msg \in Seq(0 .. 255) /\ bytes \in Seq(0 .. 255)
    BY DEF Bytes
  <2> QED
    BY <2>1, ElementOfSeq
<1> HIDE DEF n, w
<1>4. w \in [1 .. n -> 0 .. 255]
  BY <1>2, <1>3
<1>5. w \in Seq(0 .. 255) /\ Len(w) = n
  <2>1. w \in Seq(0 .. 255) /\ DOMAIN w = 1 .. n
    BY <1>1, <1>4, SeqDef
  <2> QED
    BY <1>1, <2>1, LenProperties
<1>6. ASSUME NEW x \in 1 .. n, x \notin before + 1 .. before + c PROVE w[x] = msg[x]
  <2>1. x - before \notin 1 .. c
    BY <1>1, <1>6
  <2> QED
    BY <1>2, <2>1
<1>7. ASSUME NEW y \in 1 .. c PROVE w[before + y] = bytes[y]
  <2>1. PICK x \in 1 .. n : x = before + y /\ x - before = y
    <3>1. before + c <= n
      BY DEF n
    <3>2. before + y \in 1 .. n /\ (before + y) - before = y
      BY <1>1, <3>1
    <3> QED
      BY <3>2
  <2> QED
    BY <1>2, <2>1
<1> QED
  BY <1>5, <1>6, <1>7 DEF n, w, Bytes

(* The length of a body is filled in where two bytes were held for it.        *)
LengthAt(mid) == Size(mid) + 1 .. Size(mid) + 2

(* A record with its length filled in.                                      *)
Filled(mid, body, length) == [body EXCEPT !.msg = FillIn(@, Len(mid.msg), Pack16(length))]

(* Filling in the length touches the two bytes kept free for it, on which   *)
(* no suffix rests.                                                         *)
LEMMA FilledStands ==
    ASSUME NEW out, NEW mid, NEW head, NEW body, NEW new, NEW holes, NEW length \in Nat,
           Packing(out, holes), Packing(mid, holes), Extends(mid, out),
           Size(head) = Size(mid) + 2, Packing(head, holes \cup LengthAt(mid)), Extends(head, mid),
           Packing(body, holes \cup LengthAt(mid)), Extends(body, head),
           new = Filled(mid, body, length)
    PROVE  /\ Packing(new, holes) /\ Extends(new, mid) /\ Extends(new, out) /\ Size(new) = Size(body)
           /\ Len(new.msg) = Len(body.msg)
           /\ \A x \in 1 .. Size(body) : x \notin LengthAt(mid) =>
                 new.msg[new.start + x] = body.msg[new.start + x]
           /\ new.msg[new.start + (Size(mid) + 1)] = Pack16(length)[1]
           /\ new.msg[new.start + (Size(mid) + 2)] = Pack16(length)[2]
<1> DEFINE a == Len(mid.msg)
           b == Len(body.msg)
           s == out.start
           x0 == Size(mid)
           y0 == Size(body)
           M == FillIn(body.msg, a, Pack16(length))
<1>1. /\ out \in Outs /\ mid \in Outs /\ head \in Outs /\ body \in Outs
      /\ mid.start = s /\ head.start = s /\ body.start = s
  BY DEF Packing, Extends
<1>2. /\ a \in Nat /\ b \in Nat /\ s \in Nat /\ x0 \in Nat /\ y0 \in Nat /\ a = s + x0 /\ b = s + y0
  <2>1. a \in Nat /\ mid.start \in Nat /\ x0 \in Nat /\ a = mid.start + x0
    BY SizeIs
  <2>2. b \in Nat /\ body.start \in Nat /\ y0 \in Nat /\ b = body.start + y0
    BY SizeIs
  <2> QED
    BY <1>1, <2>1, <2>2
<1>3. x0 + 2 <= y0 /\ a + 2 <= b
  <2> DEFINE h == Size(head)
             more == holes \cup LengthAt(mid)
  <2>1. h = x0 + 2
    OBVIOUS
  <2>2. Packing(head, more) /\ Packing(body, more)
    OBVIOUS
  <2> HIDE DEF more
  <2>3. h \in Nat /\ h <= y0
    BY <2>2, ExtendsSize
  <2> HIDE DEF h, a, b, s, x0, y0
  <2> QED
    BY <1>2, <2>1, <2>3
<1>4. /\ M \in Bytes /\ Len(M) = b
      /\ \A x \in 1 .. b : x \notin a + 1 .. a + 2 => M[x] = body.msg[x]
      /\ M[a + 1] = Pack16(length)[1] /\ M[a + 2] = Pack16(length)[2]
  <2> DEFINE bytes == Pack16(length)
             u == body.msg
             c == 2
             w == FillIn(u, a, bytes)
  <2>1. u \in Bytes
    BY <1>1 DEF Outs
  <2>2. bytes \in Bytes /\ c = Len(bytes)
    BY Pack16Properties
  <2>3. a + c <= Len(u) /\ a \in Nat
    BY <1>2, <1>3
  <2> HIDE DEF bytes, u, a, c
  <2>4. /\ w \in Bytes /\ Len(w) = Len(u)
        /\ \A x \in 1 .. Len(u) : x \notin a + 1 .. a + c => w[x] = u[x]
        /\ \A y \in 1 .. c : w[a + y] = bytes[y]
    BY <2>1, <2>2, <2>3, FillInProperties
  <2>5. w[a + 1] = bytes[1] /\ w[a + 2] = bytes[2]
    <3>1. 1 \in 1 .. c /\ 2 \in 1 .. c
      BY DEF c
    <3> HIDE DEF w
    <3> QED
      BY <2>4, <3>1
  <2> QED
    BY <2>4, <2>5 DEF bytes, u, c
<1>5. new = [body EXCEPT !.msg = M]
  BY DEF Filled
<1> HIDE DEF M
<1>6. /\ new \in Outs /\ new.msg = M /\ new.start = s /\ new.suffixes = body.suffixes
      /\ new.compress = body.compress /\ new.head = body.head
      /\ new.section = body.section /\ new.counts = body.counts /\ new.ok = body.ok
  BY <1>1, <1>4, <1>5 DEF Outs
<1>7. Size(new) = y0 /\ Len(new.msg) = b
  BY <1>1, <1>4, <1>6 DEF Size
<1>8. ASSUME NEW x \in 1 .. y0, x \notin LengthAt(mid) PROVE new.msg[s + x] = body.msg[s + x]
  <2> HIDE DEF a, b, s, x0, y0
  <2>1. x \notin x0 + 1 .. x0 + 2
    BY <1>8 DEF LengthAt, x0
  <2>2. PICK y \in 1 .. b : y = s + x /\ y \notin a + 1 .. a + 2
    <3>1. s + x \in 1 .. b /\ s + x \notin a + 1 .. a + 2
      BY <1>2, <2>1
    <3> QED
      BY <3>1
  <2> QED
    BY <1>4, <1>6, <2>2 DEF b
<1>9. /\ new.msg[s + (x0 + 1)] = Pack16(length)[1]
      /\ new.msg[s + (x0 + 2)] = Pack16(length)[2]
  <2>1. s + (x0 + 1) = a + 1 /\ s + (x0 + 2) = a + 2
    <3> HIDE DEF a, s, x0
    <3> QED
      BY <1>2
  <2> QED
    BY <1>4, <1>6, <2>1
<1>10. Extends(new, mid)
  <2>1. Extends(body, mid)
    BY <1>1, ExtendsMore
  <2>2. \A x \in 1 .. a : x \in 1 .. b /\ x \notin a + 1 .. a + 2
    <3> HIDE DEF a, b
    <3> QED
      BY <1>2, <1>3
  <2>3. \A x \in 1 .. a : new.msg[x] = mid.msg[x]
    BY <1>4, <1>6, <2>1, <2>2 DEF Extends
  <2>4. a <= Len(new.msg)
    <3> HIDE DEF a, b
    <3> QED
      BY <1>2, <1>3, <1>7
  <2> QED
    BY <1>1, <1>6, <2>1, <2>3, <2>4 DEF Extends
<1>11. Extends(new, out)
  BY <1>1, <1>10, ExtendsMore
<1>12. SuffixesRead(new, y0, holes)
  <2> DEFINE more == holes \cup LengthAt(mid)
  <2>1. SuffixesRead(body, y0, more)
    BY DEF Packing
  <2>2. Keeps(y0, more, body.msg, holes, new.msg, body.start)
    BY <1>1, <1>8 DEF Keeps
  <2>3. y0 <= y0
    <3> HIDE DEF y0
    <3> QED
      BY <1>2
  <2> HIDE DEF more, y0
  <2> QED
    BY <1>1, <1>2, <1>6, <2>1, <2>2, <2>3, SuffixesKept
<1>13. holes \subseteq 1 .. y0 /\ new.ok /\ new.start <= Len(new.msg)
  <2>1. holes \subseteq 1 .. x0 /\ body.ok
    BY DEF Packing
  <2>2. 1 .. x0 \subseteq 1 .. y0 /\ s <= b
    <3> HIDE DEF a, b, s, x0, y0
    <3> QED
      BY <1>2, <1>3
  <2> QED
    BY <1>6, <1>7, <2>1, <2>2
<1>14. Packing(new, holes)
  BY <1>6, <1>7, <1>12, <1>13 DEF Packing
<1> QED
  BY <1>6, <1>7, <1>8, <1>9, <1>10, <1>11, <1>14

(* The values of the fields of a record before its body; the length is filled   *)
(* in later.                                                               *)
HeaderValues(r) == <<r.name, r.type, r.class, r.ttl, 0>>

(* A question and a record that can be packed, and read again.                *)
QuestionFits(q) == FieldsFit(q, QuestionFields, 3)
(* The values of a record fit the layout of its type.                       *)
RecordFits(r) ==
    /\ FieldsFit(HeaderValues(r), RecordHeader, 5)
    /\ FieldsFit(r.body, BodyFields(r.type), Len(BodyFields(r.type)))

(* How a record is packed: f are the steps of its header, g those of its body.  *)
RecordPacked(out, r, f, g, n, new, holes) ==
    /\ FieldsPacked(out, RecordHeader, HeaderValues(r), 5, f, holes)
    /\ FieldsPacked(f[5], BodyFields(r.type), r.body, n, g, holes \cup LengthAt(f[4]))
    /\ n \in Nat /\ Len(BodyFields(r.type)) = n
    /\ Size(f[5]) = Size(f[4]) + 2
    /\ Size(g[n]) - Size(f[5]) \in Nat /\ Size(g[n]) - Size(f[5]) <= MaxLength
    /\ new = Filled(f[4], g[n], Size(g[n]) - Size(f[5]))

(* The layouts of records, questions and headers.                           *)
LEMMA LayoutLengths ==
    /\ Len(RecordHeader) = 5 /\ Len(QuestionFields) = 3 /\ Len(MessageHeader) = 6
    /\ RecordHeader[1] = "name" /\ RecordHeader[2] = "uint16" /\ RecordHeader[3] = "uint16"
    /\ RecordHeader[4] = "uint32" /\ RecordHeader[5] = "uint16"
    /\ QuestionFields[1] = "name" /\ QuestionFields[2] = "uint16" /\ QuestionFields[3] = "uint16"
BY DEF RecordHeader, QuestionFields, MessageHeader

(* The layout of a body has a length.                                       *)
LEMMA BodyLayout ==
    ASSUME NEW type
    PROVE  Len(BodyFields(type)) \in Nat
<1> USE DEF TypeA, TypeNS, TypeCNAME, TypeSOA, TypePTR, TypeMX, TypeTXT, TypeAAAA, TypeSRV, TypeOPT
<1>1. CASE type \in {TypeCNAME, TypeNS, TypePTR}
  <2>1. BodyFields(type) = <<"name">>
    BY <1>1 DEF BodyFields, AliasFields
  <2> QED
    BY <2>1
<1>2. CASE type \notin {TypeCNAME, TypeNS, TypePTR}
  <2>1. CASE type = TypeMX
    <3>1. BodyFields(type) = MXFields
      BY <2>1 DEF BodyFields
    <3> QED
      BY <3>1 DEF MXFields
  <2>2. CASE type = TypeSOA
    <3>1. BodyFields(type) = SOAFields
      BY <2>2 DEF BodyFields
    <3> QED
      BY <3>1 DEF SOAFields
  <2>3. CASE type = TypeSRV
    <3>1. BodyFields(type) = SRVFields
      BY <2>3 DEF BodyFields
    <3> QED
      BY <3>1 DEF SRVFields
  <2>4. CASE type = TypeTXT
    <3>1. BodyFields(type) = <<"texts">>
      BY <2>4 DEF BodyFields
    <3> QED
      BY <3>1
  <2>5. CASE type = TypeA
    <3>1. BodyFields(type) = <<"ip4">>
      BY <2>5 DEF BodyFields
    <3> QED
      BY <3>1
  <2>6. CASE type = TypeAAAA
    <3>1. BodyFields(type) = <<"ip6">>
      BY <2>6 DEF BodyFields
    <3> QED
      BY <3>1
  <2>7. CASE type = TypeOPT
    <3>1. BodyFields(type) = <<"options">>
      BY <2>7 DEF BodyFields
    <3> QED
      BY <3>1
  <2>8. CASE type \notin {TypeMX, TypeSOA, TypeSRV, TypeTXT, TypeA, TypeAAAA, TypeOPT}
    <3>1. BodyFields(type) = <<"bytes">>
      BY <1>2, <2>8 DEF BodyFields
    <3> QED
      BY <3>1
  <2> QED
    BY <2>1, <2>2, <2>3, <2>4, <2>5, <2>6, <2>7, <2>8
<1> QED
  BY <1>1, <1>2

(* The bytes held for the length of a body are holes while it is packed.       *)
LEMMA LengthHeld ==
    ASSUME NEW out, NEW holes, NEW r, NEW f,
           FieldsPacked(out, RecordHeader, HeaderValues(r), 5, f, holes)
    PROVE  /\ Packing(f[4], holes) /\ Extends(f[4], out) /\ Extends(f[5], f[4])
           /\ Size(f[5]) = Size(f[4]) + 2
           /\ Packing(f[5], holes \cup LengthAt(f[4]))
<1> DEFINE mid == f[4]
<1>1. Packing(mid, holes) /\ Extends(mid, out) /\ Extends(f[5], mid)
  <2>1. 4 \in 0 .. 5 /\ 5 \in 0 .. 5 /\ 0 \in 0 .. 4 /\ 4 \in 0 .. 5
    OBVIOUS
  <2> QED
    BY <2>1 DEF FieldsPacked
<1>2. f[5] = PackField(mid, RecordHeader[5], HeaderValues(r)[5])
  <2>1. 5 \in 1 .. 5 /\ 5 - 1 = 4
    OBVIOUS
  <2> QED
    BY <2>1 DEF FieldsPacked
<1>3. RecordHeader[5] = "uint16" /\ HeaderValues(r)[5] = 0
  BY LayoutLengths DEF HeaderValues
<1>4. f[5] = Emit(mid, Pack16(0))
  BY <1>2, <1>3 DEF PackField
<1> DEFINE bytes == Pack16(0)
           more == LengthAt(mid)
<1>5. bytes \in Bytes /\ Len(bytes) = 2
  BY Pack16Properties
<1>6. more \subseteq Size(mid) + 1 .. Size(mid) + Len(bytes)
  BY <1>5 DEF LengthAt
<1> HIDE DEF mid, bytes, more
<1>7. BytesStand(mid, bytes, Emit(mid, bytes), holes, more)
  BY <1>1, <1>5, <1>6, EmitStands
<1> QED
  BY <1>1, <1>4, <1>5, <1>7 DEF BytesStand, mid, bytes, more

(* A record that is packed without an error.                                *)
LEMMA PackRecordIs ==
    ASSUME NEW out, NEW holes, Packing(out, holes), NEW r, RecordFits(r), PackRecord(out, r).ok
    PROVE  \E f, g, n : RecordPacked(out, r, f, g, n, PackRecord(out, r), holes)
<1> DEFINE head == PackFields(out, RecordHeader, HeaderValues(r))
           layout == BodyFields(r.type)
           body == PackFields(head, layout, r.body)
           n == Len(layout)
           new == PackRecord(out, r)
<1>1. new = FixLength(head, body)
  BY DEF PackRecord, PackBody, HeaderValues
<1>2. n \in Nat
  BY BodyLayout
<1> HIDE DEF n
<1>3. body.ok
  <2> SUFFICES ASSUME ~ body.ok PROVE FALSE
    OBVIOUS
  <2>1. new = [body EXCEPT !.ok = FALSE]
    BY <1>1 DEF FixLength
  <2>2. CASE "ok" \in DOMAIN body
    BY <2>1, <2>2
  <2>3. CASE "ok" \notin DOMAIN body
    BY <2>1, <2>3
  <2> QED
    BY <2>2, <2>3
<1>4. Len(layout) = n
  BY DEF n
<1>5. head.ok
  <2> HIDE DEF head, layout
  <2> QED
    BY <1>2, <1>3, <1>4, PackFieldsFrom
<1>6. PICK f : FieldsPacked(out, RecordHeader, HeaderValues(r), 5, f, holes) /\ head = f[5]
  <2> DEFINE values == HeaderValues(r)
             five == 5
  <2>1. five \in Nat /\ Len(RecordHeader) = five /\ FieldsFit(values, RecordHeader, five)
    BY LayoutLengths DEF RecordFits
  <2>2. PackFields(out, RecordHeader, values).ok
    BY <1>5
  <2> HIDE DEF values, five
  <2>3. \E f : FieldsPacked(out, RecordHeader, values, five, f, holes)
               /\ PackFields(out, RecordHeader, values) = f[five]
    BY <2>1, <2>2, PackFieldsStands
  <2> QED
    BY <2>3 DEF values, five
<1> DEFINE mid == f[4]
           more == LengthAt(mid)
<1>7. /\ Packing(mid, holes) /\ Extends(mid, out) /\ Extends(head, mid)
      /\ Size(head) = Size(mid) + 2 /\ Packing(head, holes \cup more)
  BY <1>6, LengthHeld
<1>8. PICK g : FieldsPacked(head, layout, r.body, n, g, holes \cup more) /\ body = g[n]
  <2> DEFINE values == r.body
             both == holes \cup more
  <2>1. FieldsFit(values, layout, n)
    BY DEF RecordFits, n
  <2>2. Packing(head, both) /\ body = PackFields(head, layout, values)
    BY <1>7
  <2> HIDE DEF values, both, head, layout, more
  <2>3. \E g : FieldsPacked(head, layout, values, n, g, both) /\ PackFields(head, layout, values) = g[n]
    BY <1>2, <1>3, <1>4, <2>1, <2>2, PackFieldsStands
  <2> QED
    BY <2>2, <2>3 DEF values, both
<1> DEFINE x == Size(head)
           y == Size(body)
<1>9. x \in Nat /\ y \in Nat /\ x <= y
  <2> DEFINE both == holes \cup more
  <2>1. 0 \in 0 .. n /\ n \in 0 .. n
    BY <1>2
  <2>2. Packing(head, both) /\ Packing(body, both) /\ Extends(body, head)
    BY <1>8, <2>1 DEF FieldsPacked
  <2> HIDE DEF both, head, body
  <2> QED
    BY <2>2, ExtendsSize
<1>10. BodyLength(head, body) = y - x /\ Len(head.msg) - 2 = Len(mid.msg)
  <2> DEFINE both == holes \cup more
             a == Len(head.msg)
             b == Len(body.msg)
             c == Len(mid.msg)
             w == Size(mid)
  <2>1. 0 \in 0 .. n /\ n \in 0 .. n
    BY <1>2
  <2>2. Packing(head, both) /\ Packing(body, both) /\ Extends(body, head)
    BY <1>8, <2>1 DEF FieldsPacked
  <2>3. head.start = mid.start /\ body.start = mid.start
    BY <1>7, <2>2 DEF Extends
  <2>4. a = head.start + x /\ head.start \in Nat /\ a \in Nat
    BY <2>2, SizeIs
  <2>5. b = body.start + y /\ b \in Nat
    BY <2>2, SizeIs
  <2>6. c = mid.start + w /\ c \in Nat /\ w \in Nat
    BY <1>7, SizeIs
  <2>7. x = w + 2
    BY <1>7
  <2>8. BodyLength(head, body) = b - a
    BY DEF BodyLength
  <2> DEFINE s == mid.start
  <2>9. a = s + x /\ b = s + y /\ c = s + w /\ s \in Nat
    BY <2>3, <2>4, <2>5, <2>6
  <2> HIDE DEF a, b, c, w, s, x, y
  <2>10. b - a = y - x /\ a - 2 = c
    BY <1>9, <2>6, <2>7, <2>9
  <2> QED
    BY <2>8, <2>10 DEF a, c
<1> DEFINE length == y - x
<1>11. length \in Nat
  <2> HIDE DEF x, y
  <2> QED
    BY <1>9
<1>12. length <= MaxLength /\ new = Filled(mid, body, length)
  <2>1. new = IF ~body.ok \/ length > MaxLength THEN [body EXCEPT !.ok = FALSE]
              ELSE [body EXCEPT !.msg = FillIn(@, Len(mid.msg), Pack16(length))]
    BY <1>1, <1>10 DEF FixLength
  <2>2. body \in Outs
    <3>1. n \in 0 .. n
      BY <1>2
    <3> QED
      BY <1>8, <3>1 DEF FieldsPacked, Packing
  <2>3. ~ (length > MaxLength)
    <3> SUFFICES ASSUME length > MaxLength PROVE FALSE
      OBVIOUS
    <3>1. new = [body EXCEPT !.ok = FALSE]
      BY <2>1
    <3>2. new.ok = FALSE
      <4> HIDE DEF new, body
      <4> QED
        BY <2>2, <3>1 DEF Outs
    <3> QED
      BY <3>2
  <2>4. MaxLength \in Nat
    BY LengthAssumption
  <2> HIDE DEF length, new, body
  <2>5. length <= MaxLength
    BY <1>11, <2>3, <2>4
  <2> QED
    BY <1>3, <2>1, <2>3, <2>5 DEF Filled
<1> HIDE DEF new, body, head
<1>13. RecordPacked(out, r, f, g, n, new, holes)
  <2>1. FieldsPacked(f[5], BodyFields(r.type), r.body, n, g, holes \cup LengthAt(f[4]))
    BY <1>6, <1>8
  <2>2. Size(f[5]) = Size(f[4]) + 2
    BY <1>6, <1>7
  <2>3. /\ Size(g[n]) - Size(f[5]) \in Nat /\ Size(g[n]) - Size(f[5]) <= MaxLength
        /\ new = Filled(f[4], g[n], Size(g[n]) - Size(f[5]))
    BY <1>6, <1>8, <1>11, <1>12
  <2> QED
    BY <1>2, <1>4, <1>6, <2>1, <2>2, <2>3 DEF RecordPacked
<1> QED
  BY <1>13 DEF new

(* The steps of packing a record, all in place.                              *)
LEMMA RecordStands ==
    ASSUME NEW out, NEW holes, Packing(out, holes), NEW r, NEW f, NEW g, NEW n, NEW new,
           RecordPacked(out, r, f, g, n, new, holes)
    PROVE  /\ Packing(new, holes) /\ Extends(new, f[4]) /\ Extends(new, out) /\ Size(new) = Size(g[n])
           /\ Len(new.msg) = Len(g[n].msg)
           /\ \A x \in 1 .. Size(new) : x \notin LengthAt(f[4]) =>
                 new.msg[new.start + x] = g[n].msg[new.start + x]
           /\ new.msg[new.start + (Size(f[4]) + 1)] = Pack16(Size(g[n]) - Size(f[5]))[1]
           /\ new.msg[new.start + (Size(f[4]) + 2)] = Pack16(Size(g[n]) - Size(f[5]))[2]
<1> DEFINE mid == f[4]
           head == f[5]
           body == g[n]
           length == Size(body) - Size(head)
<1>1. /\ Packing(mid, holes) /\ Extends(mid, out) /\ Extends(head, mid)
      /\ Size(head) = Size(mid) + 2 /\ Packing(head, holes \cup LengthAt(mid))
  BY LengthHeld DEF RecordPacked
<1>2. n \in Nat /\ length \in Nat /\ new = Filled(mid, body, length)
  BY DEF RecordPacked
<1>3. Packing(body, holes \cup LengthAt(mid)) /\ Extends(body, head)
  <2>1. n \in 0 .. n /\ 0 \in 0 .. n
    BY <1>2
  <2>2. FieldsPacked(head, BodyFields(r.type), r.body, n, g, holes \cup LengthAt(mid))
    BY DEF RecordPacked
  <2>3. g[0] = head
    BY <2>2 DEF FieldsPacked
  <2> QED
    BY <2>1, <2>2, <2>3 DEF FieldsPacked
<1> HIDE DEF mid, head, body, length
<1>4. /\ Packing(new, holes) /\ Extends(new, mid) /\ Extends(new, out) /\ Size(new) = Size(body)
      /\ Len(new.msg) = Len(body.msg)
      /\ \A x \in 1 .. Size(body) : x \notin LengthAt(mid) =>
            new.msg[new.start + x] = body.msg[new.start + x]
      /\ new.msg[new.start + (Size(mid) + 1)] = Pack16(length)[1]
      /\ new.msg[new.start + (Size(mid) + 2)] = Pack16(length)[2]
  BY <1>1, <1>2, <1>3, FilledStands
<1> QED
  BY <1>4 DEF mid, head, body, length

(* A record that is packed leaves the suffixes readable.                    *)
LEMMA PackRecordStands ==
    ASSUME NEW out, NEW holes, Packing(out, holes), NEW r, RecordFits(r), PackRecord(out, r).ok
    PROVE  Packing(PackRecord(out, r), holes) /\ Extends(PackRecord(out, r), out)
<1> DEFINE new == PackRecord(out, r)
<1>1. PICK f, g, n : RecordPacked(out, r, f, g, n, new, holes)
  BY PackRecordIs
<1> HIDE DEF new
<1>2. Packing(new, holes) /\ Extends(new, out)
  BY <1>1, RecordStands
<1> QED
  BY <1>2 DEF new

(* A question is packed field by field.                                     *)
LEMMA PackQuestionIs ==
    ASSUME NEW out, NEW holes, Packing(out, holes), NEW q, QuestionFits(q), PackQuestion(out, q).ok
    PROVE  \E f : FieldsPacked(out, QuestionFields, q, 3, f, holes) /\ PackQuestion(out, q) = f[3]
<1> DEFINE three == 3
           layout == QuestionFields
<1>1. three \in Nat /\ Len(layout) = three /\ FieldsFit(q, layout, three)
  BY LayoutLengths DEF QuestionFits
<1>2. PackQuestion(out, q) = PackFields(out, layout, q)
  BY DEF PackQuestion
<1> HIDE DEF three, layout
<1>3. \E f : FieldsPacked(out, layout, q, three, f, holes) /\ PackFields(out, layout, q) = f[three]
  BY <1>1, <1>2, PackFieldsStands
<1> QED
  BY <1>2, <1>3 DEF three, layout

(* A question that is packed leaves the suffixes readable.                  *)
LEMMA PackQuestionStands ==
    ASSUME NEW out, NEW holes, Packing(out, holes), NEW q, QuestionFits(q), PackQuestion(out, q).ok
    PROVE  Packing(PackQuestion(out, q), holes) /\ Extends(PackQuestion(out, q), out)
<1>1. PICK f : FieldsPacked(out, QuestionFields, q, 3, f, holes) /\ PackQuestion(out, q) = f[3]
  BY PackQuestionIs
<1>2. 3 \in 0 .. 3 /\ 0 \in 0 .. 3
  OBVIOUS
<1>3. Packing(f[3], holes) /\ Extends(f[3], f[0]) /\ f[0] = out
  BY <1>1, <1>2 DEF FieldsPacked
<1> QED
  BY <1>1, <1>3

-----------------------------------------------------------------------------
(* The items that are added can be packed.                                  *)
LEMMA ItemsFit ==
    /\ \A q \in QuestionItems : QuestionFits(q)
    /\ \A r \in RecordItems : RecordFits(r)
<1>1. ASSUME NEW q \in QuestionItems PROVE QuestionFits(q)
  <2>1. FitsLayout(q, QuestionFields)
    BY InputAssumption
  <2>2. Len(QuestionFields) = 3 /\ QuestionFields[2] = "uint16" /\ QuestionFields[3] = "uint16"
    BY LayoutLengths
  <2>3. \A i \in 1 .. 3 : q[i] \in FieldValues(QuestionFields[i])
    BY <2>1, <2>2 DEF FitsLayout
  <2>4. Len(q[1]) <= MaxPointers
    BY ReachAssumption
  <2>5. ASSUME NEW i \in 1 .. 3 PROVE FieldFits(QuestionFields[i], q[i])
    <3>1. CASE i = 1
      BY <2>3, <2>4, <3>1 DEF FieldFits
    <3>2. CASE i # 1
      <4>1. i = 2 \/ i = 3
        BY <3>2
      <4> QED
        BY <2>2, <2>3, <4>1 DEF FieldFits, IsName
    <3> QED
      BY <3>1, <3>2
  <2> QED
    BY <2>5 DEF QuestionFits, FieldsFit
<1>2. ASSUME NEW r \in RecordItems PROVE RecordFits(r)
  <2>1. FitsLayout(HeaderValues(r), RecordHeader) /\ FitsLayout(r.body, BodyFields(r.type))
    BY InputAssumption DEF HeaderValues
  <2>2. /\ Len(RecordHeader) = 5 /\ RecordHeader[2] = "uint16" /\ RecordHeader[3] = "uint16"
        /\ RecordHeader[4] = "uint32" /\ RecordHeader[5] = "uint16"
    BY LayoutLengths
  <2>3. \A i \in 1 .. 5 : HeaderValues(r)[i] \in FieldValues(RecordHeader[i])
    BY <2>1, <2>2 DEF FitsLayout
  <2>4. \A name \in NamesOfRecord(r) : Len(name) <= MaxPointers
    BY ReachAssumption
  <2>5. HeaderValues(r)[1] \in NamesOfRecord(r)
    BY DEF HeaderValues, NamesOfRecord
  <2>6. ASSUME NEW i \in 1 .. 5 PROVE FieldFits(RecordHeader[i], HeaderValues(r)[i])
    <3>1. CASE i = 1
      BY <2>3, <2>4, <2>5, <3>1 DEF FieldFits
    <3>2. CASE i # 1
      <4>1. i = 2 \/ i = 3 \/ i = 4 \/ i = 5
        BY <3>2
      <4>2. ~ IsName(RecordHeader[i])
        BY <2>2, <4>1 DEF IsName
      <4> QED
        BY <2>3, <4>2 DEF FieldFits
    <3> QED
      BY <3>1, <3>2
  <2>7. ASSUME NEW i \in 1 .. Len(BodyFields(r.type)) PROVE FieldFits(BodyFields(r.type)[i], r.body[i])
    <3>1. r.body[i] \in FieldValues(BodyFields(r.type)[i])
      BY <2>1 DEF FitsLayout
    <3>2. ASSUME IsName(BodyFields(r.type)[i]) PROVE Len(r.body[i]) <= MaxPointers
      <4>1. i \in DOMAIN r.body
        BY <2>1 DEF FitsLayout
      <4>2. r.body[i] \in NamesOfRecord(r)
        BY <3>2, <4>1 DEF NamesOfRecord, IsName
      <4> QED
        BY <2>4, <4>2
    <3> QED
      BY <3>1, <3>2 DEF FieldFits
  <2> QED
    BY <2>6, <2>7 DEF RecordFits, FieldsFit
<1> QED
  BY <1>1, <1>2

(* The numbers of a message header.                                         *)
HeadNumbers(b) ==
    <<b.head.id, PackBits(b.head.flags)>> \o [i \in 1 .. 4 |-> b.counts[Questions + i - 1]]

(* The sections in their order.                                             *)
LEMMA SectionsAre ==
    /\ Sections = 2 .. 5 /\ RecordSections = 3 .. 5 /\ RecordSections \subseteq Sections
    /\ Questions = 2 /\ Questions \in Sections
    /\ \A s \in Sections : s \in SectionHeader .. SectionDone
    /\ SectionDone \in SectionHeader .. SectionDone /\ SectionHeader \in SectionHeader .. SectionDone
    /\ HeaderLen = 12
BY DEF Sections, RecordSections, Questions, Answers, Additionals, SectionHeader, SectionDone, HeaderLen

(* The flags of a header make a number of sixteen bits.                     *)
LEMMA BitsArePacked ==
    ASSUME NEW h \in HeaderFlags
    PROVE  PackBits(h) \in Words
<1> DEFINE f(x, y) == Flag(x, y)
<1>1. \A x \in BOOLEAN, y \in Nat : Flag(x, y) \in {0, y}
  BY DEF Flag
<1>2. /\ 2^15 = 32768 /\ 2^11 = 2048 /\ 2^10 = 1024 /\ 2^9 = 512 /\ 2^8 = 256 /\ 2^7 = 128
      /\ 2^16 - 1 = 65535
  OBVIOUS
<1> DEFINE a == Flag(h.response, 32768)
           b == Flag(h.authoritative, 1024)
           c == Flag(h.truncated, 512)
           d == Flag(h.recursionDesired, 256)
           e == Flag(h.recursionAvailable, 128)
           o == h.opCode
           r == h.rCode
<1>3. a \in {0, 32768} /\ b \in {0, 1024} /\ c \in {0, 512} /\ d \in {0, 256} /\ e \in {0, 128}
  BY <1>1 DEF HeaderFlags
<1>4. o \in 0 .. 15 /\ r \in 0 .. 15
  BY DEF HeaderFlags
<1>5. PackBits(h) = o * 2048 + r + a + b + c + d + e
  BY <1>2 DEF PackBits
<1> HIDE DEF a, b, c, d, e, o, r
<1>6. /\ a \in Nat /\ a <= 32768 /\ b \in Nat /\ b <= 1024 /\ c \in Nat /\ c <= 512
      /\ d \in Nat /\ d <= 256 /\ e \in Nat /\ e <= 128
      /\ o \in Nat /\ o <= 15 /\ r \in Nat /\ r <= 15
  BY <1>3, <1>4
<1> DEFINE bits == o * 2048 + r + a + b + c + d + e
<1>7. bits \in Nat /\ bits <= 65535
  BY <1>6
<1> HIDE DEF bits
<1> DEFINE top == 2^16 - 1
<1>8. top \in Nat /\ bits <= top
  BY <1>2, <1>7
<1>9. Words = 0 .. top
  BY DEF Words
<1> HIDE DEF top
<1>10. bits \in 0 .. top
  BY <1>7, <1>8
<1> QED
  BY <1>5, <1>9, <1>10 DEF bits

(* The six numbers of a header.                                             *)
LEMMA HeadNumbersAre ==
    ASSUME NEW b \in Outs
    PROVE  /\ HeadNumbers(b)[1] = b.head.id /\ HeadNumbers(b)[2] = PackBits(b.head.flags)
           /\ \A s \in Sections : HeadNumbers(b)[s + 1] = b.counts[s]
           /\ \A i \in 1 .. 6 : HeadNumbers(b)[i] \in Nat
<1> DEFINE id == b.head.id
           bits == PackBits(b.head.flags)
           u == <<id, bits>>
           v == [i \in 1 .. 4 |-> b.counts[Questions + i - 1]]
           w == u \o v
<1>1. b.head \in MessageHeads /\ b.counts \in [Sections -> Nat]
  BY DEF Outs
<1>2. id \in Nat /\ bits \in Nat
  <2>1. id \in Words /\ b.head.flags \in HeaderFlags
    BY <1>1 DEF MessageHeads
  <2>2. bits \in Words
    BY <2>1, BitsArePacked
  <2> QED
    BY <2>1, <2>2, WordsAre
<1>3. u \in Seq(Nat) /\ Len(u) = 2 /\ u[1] = id /\ u[2] = bits
  <2> HIDE DEF id, bits
  <2> QED
    BY <1>2, TwoElements
<1>4. \A i \in 1 .. 4 : Questions + i - 1 \in Sections
  BY SectionsAre
<1>5. v \in [1 .. 4 -> Nat]
  BY <1>1, <1>4
<1>6. v \in Seq(Nat) /\ Len(v) = 4
  <2>1. v \in Seq(Nat) /\ DOMAIN v = 1 .. 4
    BY <1>5, SeqDef
  <2> HIDE DEF v
  <2> QED
    BY <2>1, LenProperties
<1>7. Len(w) = 6 /\ \A i \in 1 .. 6 : w[i] = IF i <= 2 THEN u[i] ELSE v[i - 2]
  <2> HIDE DEF u, v
  <2>1. Len(w) = Len(u) + Len(v)
        /\ \A i \in 1 .. Len(u) + Len(v) : w[i] = IF i <= Len(u) THEN u[i] ELSE v[i - Len(u)]
    BY <1>3, <1>6, ConcatProperties
  <2> HIDE DEF w
  <2> QED
    BY <1>3, <1>6, <2>1
<1>8. HeadNumbers(b) = w
  BY DEF HeadNumbers
<1> HIDE DEF w, u
<1>9. w[1] = id /\ w[2] = bits
  BY <1>3, <1>7
<1>10. ASSUME NEW s \in Sections PROVE w[s + 1] = b.counts[s]
  <2>1. PICK i \in 1 .. 4 : i = s - 1 /\ Questions + i - 1 = s
    <3>1. s - 1 \in 1 .. 4 /\ Questions + (s - 1) - 1 = s
      BY SectionsAre
    <3> QED
      BY <3>1
  <2>2. PICK j \in 1 .. 6 : j = s + 1 /\ ~ (j <= 2) /\ j - 2 = i
    <3>1. s + 1 \in 1 .. 6 /\ ~ (s + 1 <= 2) /\ (s + 1) - 2 = i
      BY <2>1, SectionsAre
    <3> QED
      BY <3>1
  <2>3. w[j] = v[i]
    BY <1>7, <2>2
  <2>4. v[i] = b.counts[s]
    BY <2>1
  <2> QED
    BY <2>2, <2>3, <2>4
<1>11. ASSUME NEW i \in 1 .. 6 PROVE w[i] \in Nat
  <2>1. CASE i <= 2
    <3>1. i = 1 \/ i = 2
      BY <2>1
    <3> QED
      BY <1>2, <1>9, <3>1
  <2>2. CASE ~ (i <= 2)
    <3>1. i - 2 \in 1 .. 4
      BY <2>2
    <3> HIDE DEF v
    <3>2. v[i - 2] \in Nat
      BY <1>5, <3>1
    <3> QED
      BY <1>7, <2>2, <3>2
  <2> QED
    BY <2>1, <2>2
<1> QED
  BY <1>8, <1>9, <1>10, <1>11 DEF id, bits

(* The bytes of a header.                                                   *)
LEMMA HeaderBytesAre ==
    ASSUME NEW b \in Outs
    PROVE  /\ HeaderBytes(b) \in Bytes /\ Len(HeaderBytes(b)) = 12
           /\ \A i \in 1 .. 6 : /\ HeaderBytes(b)[2 * i - 1] = Pack16(HeadNumbers(b)[i])[1]
                                /\ HeaderBytes(b)[2 * i] = Pack16(HeadNumbers(b)[i])[2]
<1> DEFINE empty == [b EXCEPT !.msg = <<>>, !.ok = TRUE]
           layout == MessageHeader
           values == HeadNumbers(b)
           six == 6
<1>1. six \in Nat /\ Len(layout) = six
  BY LayoutLengths
<1>2. HeaderBytes(b) = PackFields(empty, layout, values).msg
  BY DEF HeaderBytes, HeadNumbers
<1>3. empty.msg = <<>> /\ empty.ok = TRUE /\ empty \in Outs
  <2>1. <<>> \in Bytes
    BY DEF Bytes
  <2> QED
    BY <2>1 DEF Outs
<1> HIDE DEF empty, values, layout, six
<1>4. PICK f : PackRun(empty, layout, values, six, f) /\ PackFields(empty, layout, values) = f[six]
  BY <1>1, PackFieldsIs
<1> DEFINE IsPacked(k) ==
               /\ f[k] \in Outs /\ f[k].ok /\ Len(f[k].msg) = 2 * k
               /\ \A i \in 1 .. k : /\ f[k].msg[2 * i - 1] = Pack16(values[i])[1]
                                    /\ f[k].msg[2 * i] = Pack16(values[i])[2]
           S == {k \in 0 .. six : IsPacked(k)}
<1>5. 0 \in S
  <2>1. f[0] = empty
    BY <1>4 DEF PackRun
  <2>2. Len(<<>>) = 0 /\ 2 * 0 = 0 /\ (\A i \in 1 .. 0 : FALSE) /\ 0 \in 0 .. six
    BY DEF six
  <2>3. IsPacked(0)
    BY <1>3, <2>1, <2>2
  <2> QED
    BY <2>2, <2>3
<1>6. ASSUME NEW d \in 0 .. six - 1, d \in S PROVE d + 1 \in S
  <2>1. PICK k \in 1 .. six : k = d + 1 /\ k - 1 = d /\ k \in 0 .. six /\ k \in 1 .. 6
    <3>1. d + 1 \in 1 .. six /\ (d + 1) - 1 = d /\ d + 1 \in 0 .. six /\ d + 1 \in 1 .. 6
      BY DEF six
    <3> QED
      BY <3>1
  <2> DEFINE p == Pack16(values[k])
             m == f[d].msg
             w == m \o p
  <2>2. layout[k] = "uint16"
    BY <2>1 DEF layout, MessageHeader
  <2>3. values[k] \in Nat
    BY <2>1, HeadNumbersAre DEF values
  <2>4. p \in Seq(0 .. 255) /\ Len(p) = 2
    BY <2>3, Pack16Properties DEF Bytes
  <2>5. IsPacked(d)
    BY <1>6
  <2>6. m \in Seq(0 .. 255) /\ Len(m) = 2 * d
    BY <2>5 DEF Outs, Bytes
  <2>7. f[k] = Emit(f[d], p)
    <3>1. f[k] = PackNext(f[d], layout[k], values[k])
      BY <1>4, <2>1 DEF PackRun
    <3> QED
      BY <2>2, <2>5, <3>1 DEF PackNext, PackField
  <2>8. f[k] = [f[d] EXCEPT !.msg = w]
    BY <2>7 DEF Emit
  <2> HIDE DEF p
  <2>9. w \in Seq(0 .. 255) /\ Len(w) = Len(m) + Len(p)
        /\ \A x \in 1 .. Len(m) + Len(p) : w[x] = IF x <= Len(m) THEN m[x] ELSE p[x - Len(m)]
    <3> HIDE DEF m
    <3> QED
      BY <2>4, <2>6, ConcatProperties
  <2> HIDE DEF w
  <2>10. Len(w) = 2 * k /\ \A x \in 1 .. 2 * k : w[x] = IF x <= 2 * d THEN m[x] ELSE p[x - 2 * d]
    <3>1. 2 * d + 2 = 2 * k
      BY <2>1
    <3> QED
      BY <2>4, <2>6, <2>9, <3>1
  <2>11. f[k] \in Outs /\ f[k].ok /\ f[k].msg = w
    BY <2>5, <2>8, <2>9 DEF Outs, Bytes
  <2>12. ASSUME NEW i \in 1 .. k
         PROVE  w[2 * i - 1] = Pack16(values[i])[1] /\ w[2 * i] = Pack16(values[i])[2]
    <3>1. CASE i = k
      <4>1. /\ 2 * i - 1 \in 1 .. 2 * k /\ ~ (2 * i - 1 <= 2 * d) /\ (2 * i - 1) - 2 * d = 1
            /\ 2 * i \in 1 .. 2 * k /\ ~ (2 * i <= 2 * d) /\ 2 * i - 2 * d = 2
        BY <2>1, <3>1
      <4>2. w[2 * i - 1] = p[1] /\ w[2 * i] = p[2]
        BY <2>10, <4>1
      <4> QED
        BY <3>1, <4>2 DEF p
    <3>2. CASE i # k
      <4>1. /\ i \in 1 .. d /\ 2 * i - 1 \in 1 .. 2 * k /\ 2 * i - 1 <= 2 * d
            /\ 2 * i \in 1 .. 2 * k /\ 2 * i <= 2 * d
        BY <2>1, <3>2
      <4>2. w[2 * i - 1] = m[2 * i - 1] /\ w[2 * i] = m[2 * i]
        BY <2>10, <4>1
      <4> QED
        BY <2>5, <4>1, <4>2
    <3> QED
      BY <3>1, <3>2
  <2>13. IsPacked(k)
    BY <2>10, <2>11, <2>12
  <2> QED
    BY <2>1, <2>13
<1> HIDE DEF S, IsPacked
<1>7. 0 .. six \subseteq S
  BY <1>1, <1>5, <1>6, UpToBound
<1>8. six \in S
  BY <1>1, <1>7
<1>9. IsPacked(6)
  BY <1>8 DEF S, six
<1>10. f[6].msg = HeaderBytes(b)
  BY <1>2, <1>4 DEF six
<1>11. f[6] \in Outs => f[6].msg \in Bytes
  BY DEF Outs
<1>12. 2 * 6 = 12
  OBVIOUS
<1> QED
  BY <1>9, <1>10, <1>11, <1>12 DEF IsPacked, values

(* The place of the header, which is packed last.                            *)
HeaderHole == 1 .. HeaderLen

(* A part of a message.                                                     *)
LEMMA PartOf ==
    ASSUME NEW msg \in Bytes, NEW a \in Nat, NEW n \in Nat, a + n <= Len(msg)
    PROVE  /\ SubSeq(msg, a + 1, a + n) \in Bytes /\ Len(SubSeq(msg, a + 1, a + n)) = n
           /\ \A x \in 1 .. n : SubSeq(msg, a + 1, a + n)[x] = msg[a + x]
<1> DEFINE v == Slice(msg, a, n)
<1>1. SubSeq(msg, a + 1, a + n) = v
  BY DEF Slice
<1>2. v \in Bytes /\ Len(v) = n /\ \A x \in 1 .. n : v[x] = msg[a + x]
  BY SliceProperties
<1> HIDE DEF v
<1> QED
  BY <1>1, <1>2

(* What Finish does to a message.                                           *)
LEMMA FinishIs ==
    ASSUME NEW b, Packing(b, HeaderHole)
    PROVE  /\ Packing(Finish(b), HeaderHole) /\ Size(Finish(b)) = Size(b) /\ Finish(b).start = b.start
           /\ Finish(b).section = SectionDone /\ Finish(b).ok = TRUE
           /\ Finish(b).suffixes = b.suffixes /\ Finish(b).head = b.head /\ Finish(b).counts = b.counts
           /\ \A x \in 1 .. Size(b) : x \notin HeaderHole =>
                 Finish(b).msg[b.start + x] = b.msg[b.start + x]
           /\ \A x \in 1 .. 12 : Finish(b).msg[b.start + x] = HeaderBytes(b)[x]
<1> DEFINE u == b.msg
           a == Len(u)
           s == b.start
           z == Size(b)
           h == HeaderBytes(b)
           p == SubSeq(u, 1, s)
           t == SubSeq(u, s + HeaderLen + 1, a)
           w == (p \o h) \o t
           new == Finish(b)
<1>1. b \in Outs /\ b.ok /\ HeaderHole \subseteq 1 .. z /\ SuffixesRead(b, z, HeaderHole)
  BY DEF Packing
<1>2. a \in Nat /\ s \in Nat /\ z \in Nat /\ a = s + z /\ HeaderLen = 12
  BY SizeIs, SectionsAre
<1>3. 12 <= z
  <2>1. 12 \in HeaderHole
    BY <1>2 DEF HeaderHole
  <2>2. 12 \in 1 .. z
    BY <1>1, <2>1
  <2> HIDE DEF z
  <2> QED
    BY <1>2, <2>2
<1>4. u \in Bytes /\ h \in Bytes /\ Len(h) = 12
  BY <1>1, HeaderBytesAre DEF Outs
<1> DEFINE r == z - 12
           q == s + 12
<1>5. r \in Nat /\ q \in Nat /\ q + r = a /\ s <= a /\ 0 + s = s /\ 0 + 1 = 1 /\ s + HeaderLen + 1 = q + 1
      /\ s + 12 + r = a /\ \A x \in 1 .. s : 0 + x = x
  <2> HIDE DEF u, s, a, z
  <2> QED
    BY <1>2, <1>3
<1>6. p \in Bytes /\ Len(p) = s /\ \A x \in 1 .. s : p[x] = u[x]
  <2> DEFINE o == 0
             v == SubSeq(u, o + 1, o + s)
  <2>1. o \in Nat /\ o + s <= Len(u)
    BY <1>5
  <2>2. p = v
    BY <1>5
  <2> HIDE DEF u, s, o, p
  <2>3. v \in Bytes /\ Len(v) = s /\ \A x \in 1 .. s : v[x] = u[o + x]
    BY <1>2, <1>4, <2>1, PartOf
  <2> HIDE DEF v
  <2>4. \A x \in 1 .. s : o + x = x
    BY <1>5 DEF o
  <2> QED
    BY <2>2, <2>3, <2>4
<1>7. t \in Bytes /\ Len(t) = r /\ \A x \in 1 .. r : t[x] = u[q + x]
  <2> DEFINE v == SubSeq(u, q + 1, q + r)
  <2>1. t = v /\ q + r <= Len(u)
    <3>1. q + r = a /\ s + HeaderLen + 1 = q + 1
      BY <1>5
    <3>2. a <= a
      <4> HIDE DEF a
      <4> QED
        BY <1>2
    <3> HIDE DEF q, r
    <3> QED
      BY <3>1, <3>2
  <2> HIDE DEF u, q, r, t
  <2>2. v \in Bytes /\ Len(v) = r /\ \A x \in 1 .. r : v[x] = u[q + x]
    BY <1>4, <1>5, <2>1, PartOf
  <2> QED
    BY <2>1, <2>2
<1>8. /\ w \in Seq(0 .. 255) /\ Len(w) = s + 12 + r
      /\ \A x \in 1 .. s : w[x] = p[x]
      /\ \A x \in 1 .. 12 : w[s + x] = h[x]
      /\ \A x \in 1 .. r : w[s + 12 + x] = t[x]
  <2> DEFINE twelve == 12
  <2>1. p \in Seq(0 .. 255) /\ h \in Seq(0 .. 255) /\ t \in Seq(0 .. 255)
        /\ s = Len(p) /\ twelve = Len(h) /\ r = Len(t)
    BY <1>4, <1>6, <1>7 DEF Bytes
  <2> HIDE DEF p, h, t, s, r, twelve
  <2>2. /\ w \in Seq(0 .. 255) /\ Len(w) = s + twelve + r
        /\ \A x \in 1 .. s : w[x] = p[x]
        /\ \A x \in 1 .. twelve : w[s + x] = h[x]
        /\ \A x \in 1 .. r : w[s + twelve + x] = t[x]
    BY <2>1, JoinedProperties
  <2> QED
    BY <2>2 DEF twelve
<1>9. new = [b EXCEPT !.section = SectionDone, !.ok = TRUE, !.msg = w]
  BY DEF Finish
<1> HIDE DEF w, new
<1>10. /\ new \in Outs /\ new.msg = w /\ new.start = s /\ new.suffixes = b.suffixes
       /\ new.head = b.head /\ new.section = SectionDone /\ new.counts = b.counts /\ new.ok = TRUE
  <2>1. w \in Bytes /\ SectionDone \in SectionHeader .. SectionDone
    BY <1>8, SectionsAre DEF Bytes
  <2> QED
    BY <1>1, <1>9, <2>1 DEF Outs
<1>11. Len(new.msg) = a /\ Size(new) = z
  <2>1. Len(new.msg) = a
    BY <1>5, <1>8, <1>10
  <2>2. Size(new) = Len(new.msg) - new.start /\ z = a - s
    BY DEF Size
  <2> HIDE DEF z, a, s
  <2> QED
    BY <1>10, <2>1, <2>2
<1>12. ASSUME NEW x \in 1 .. z, x \notin HeaderHole PROVE w[s + x] = u[s + x]
  <2> HIDE DEF z, s, u
  <2>1. PICK y \in 1 .. r : y = x - 12 /\ s + 12 + y = s + x /\ q + y = s + x
    <3>1. x - 12 \in 1 .. r /\ s + 12 + (x - 12) = s + x /\ q + (x - 12) = s + x
      BY <1>2, <1>3, <1>12 DEF HeaderHole
    <3> QED
      BY <3>1
  <2>2. w[s + 12 + y] = t[y]
    BY <1>8
  <2>3. t[y] = u[q + y]
    BY <1>7
  <2> QED
    BY <2>1, <2>2, <2>3
<1>13. SuffixesRead(new, z, HeaderHole)
  <2>1. Keeps(z, HeaderHole, b.msg, HeaderHole, new.msg, b.start)
    BY <1>10, <1>12 DEF Keeps
  <2>2. z <= z
    <3> HIDE DEF z
    <3> QED
      BY <1>2
  <2> DEFINE hole == HeaderHole
  <2> HIDE DEF z, hole
  <2> QED
    BY <1>1, <1>2, <1>10, <2>1, <2>2, SuffixesKept DEF hole
<1>14. new.start <= Len(new.msg)
  BY <1>5, <1>10, <1>11
<1>15. Packing(new, HeaderHole)
  BY <1>1, <1>10, <1>11, <1>13, <1>14 DEF Packing
<1> QED
  BY <1>8, <1>10, <1>11, <1>12, <1>15 DEF new

-----------------------------------------------------------------------------
(* A new builder has its header free, and no suffix.                        *)
LEMMA NewBuilderStands ==
    ASSUME NEW buf \in Bytes, NEW head \in MessageHeads
    PROVE  Packing(NewBuilder(buf, head), HeaderHole) /\ Size(NewBuilder(buf, head)) = 12
<1> DEFINE zeros == [i \in 1 .. HeaderLen |-> 0]
           n == Len(buf)
           w == buf \o zeros
           b == NewBuilder(buf, head)
<1>1. HeaderLen = 12
  BY SectionsAre
<1>2. zeros \in Seq(0 .. 255) /\ Len(zeros) = 12
  <2>1. zeros \in [1 .. 12 -> 0 .. 255]
    BY <1>1
  <2> HIDE DEF zeros
  <2> DEFINE S == 0 .. 255
             twelve == 12
  <2>3. zeros \in [1 .. twelve -> S] /\ twelve \in Nat
    BY <2>1
  <2> HIDE DEF S, twelve
  <2>4. zeros \in Seq(S) /\ DOMAIN zeros = 1 .. twelve
    BY <2>3, SeqDef
  <2>2. zeros \in Seq(0 .. 255) /\ DOMAIN zeros = 1 .. 12
    BY <2>4 DEF S, twelve
  <2> QED
    BY <2>2, LenProperties
<1>3. buf \in Seq(0 .. 255) /\ n \in Nat
  BY LenProperties DEF Bytes
<1> HIDE DEF zeros
<1>4. w \in Seq(0 .. 255) /\ Len(w) = n + 12
  <2>1. w \in Seq(0 .. 255) /\ Len(w) = Len(buf) + Len(zeros)
    BY <1>2, <1>3, ConcatProperties
  <2> QED
    BY <1>2, <2>1
<1> HIDE DEF w
<1>5. NoSuffixes \in SuffixMaps /\ DOMAIN NoSuffixes = {}
  <2>1. NoSuffixes \in [{} -> Nat]
    BY DEF NoSuffixes
  <2>2. {} \in SUBSET SuffixKeys
    OBVIOUS
  <2> QED
    BY <2>1, <2>2 DEF SuffixMaps
<1>6. b = [msg |-> w, start |-> n, compress |-> FALSE, suffixes |-> NoSuffixes, head |-> head,
           section |-> SectionHeader, counts |-> [s \in Sections |-> 0], ok |-> TRUE]
  BY DEF NewBuilder, w, zeros
<1>7. b \in Outs
  <2>1. [s \in Sections |-> 0] \in [Sections -> Nat]
    OBVIOUS
  <2>2. SectionHeader \in SectionHeader .. SectionDone
    BY SectionsAre
  <2> HIDE DEF b, n
  <2> QED
    BY <1>3, <1>4, <1>5, <1>6, <2>1, <2>2 DEF Outs, Bytes
<1> HIDE DEF b
<1>8. Size(b) = 12 /\ b.start <= Len(b.msg)
  <2>1. Size(b) = (n + 12) - n /\ b.start = n /\ Len(b.msg) = n + 12
    BY <1>4, <1>6 DEF Size
  <2> HIDE DEF n
  <2> QED
    BY <1>3, <2>1
<1>9. SuffixesRead(b, Size(b), HeaderHole)
  BY <1>5, <1>6 DEF SuffixesRead
<1>10. HeaderHole \subseteq 1 .. Size(b)
  BY <1>1, <1>8 DEF HeaderHole
<1>11. Packing(b, HeaderHole)
  BY <1>6, <1>7, <1>8, <1>9, <1>10 DEF Packing
<1> QED
  BY <1>8, <1>11 DEF b

(* Turning compression on touches no byte.                                  *)
LEMMA CompressStands ==
    ASSUME NEW b, NEW holes, Packing(b, holes)
    PROVE  Packing(EnableCompression(b), holes)
<1> DEFINE new == EnableCompression(b)
<1>1. new = [b EXCEPT !.compress = TRUE, !.suffixes = NoSuffixes]
  BY DEF EnableCompression
<1>2. NoSuffixes \in SuffixMaps /\ DOMAIN NoSuffixes = {}
  <2>1. NoSuffixes \in [{} -> Nat]
    BY DEF NoSuffixes
  <2>2. {} \in SUBSET SuffixKeys
    OBVIOUS
  <2> QED
    BY <2>1, <2>2 DEF SuffixMaps
<1> HIDE DEF new
<1>3. b \in Outs
  BY DEF Packing
<1>4. new \in Outs /\ new.msg = b.msg /\ new.start = b.start /\ new.ok = b.ok /\ new.suffixes = NoSuffixes
  BY <1>1, <1>2, <1>3 DEF Outs
<1>5. Size(new) = Size(b)
  BY <1>4 DEF Size
<1> QED
  BY <1>2, <1>4, <1>5 DEF Packing, SuffixesRead, new

(* The section and the counts have nothing to do with what stands.            *)
LEMMA OtherParts ==
    ASSUME NEW b, NEW holes, Packing(b, holes), NEW new \in Outs, new.msg = b.msg, new.start = b.start,
           new.suffixes = b.suffixes, new.ok
    PROVE  Packing(new, holes) /\ Size(new) = Size(b)
<1>1. Size(new) = Size(b)
  BY DEF Size
<1> QED
  BY <1>1 DEF Packing, SuffixesRead

(* A call that fails changes no more than the map of suffixes.                *)
Failed(b, new) == \E x : new = [b EXCEPT !.ok = FALSE, !.suffixes = x]

(* A builder that is in order is so.                                        *)
LEMMA OkIsTrue ==
    ASSUME NEW b \in Outs, b.ok
    PROVE  [b EXCEPT !.ok = TRUE] = b
<1> DEFINE c == [b EXCEPT !.ok = TRUE]
<1>1. b.ok = TRUE
  BY DEF Outs
<1> QED
  BY <1>1 DEF Outs

(* A call that is refused changes nothing but the state of the call.        *)
LEMMA RefusedFails ==
    ASSUME NEW b \in Outs
    PROVE  Failed(b, Refused(b)) /\ ~ Refused(b).ok
<1>1. Refused(b) = [b EXCEPT !.ok = FALSE]
  BY DEF Refused
<1>2. [b EXCEPT !.ok = FALSE] = [b EXCEPT !.ok = FALSE, !.suffixes = b.suffixes]
  BY DEF Outs
<1>3. ~ [b EXCEPT !.ok = FALSE].ok
  BY DEF Outs
<1> QED
  BY <1>1, <1>2, <1>3 DEF Failed

(* An item that has been packed is counted, or the call fails.               *)
ItemCounted(b, packed, new) ==
    /\ packed.ok /\ b.counts[b.section] < MaxCount
    /\ new = [packed EXCEPT !.counts[b.section] = @ + 1]

(* An item that was packed is counted, or refused and thrown away.          *)
LEMMA AddPackedIs ==
    ASSUME NEW b \in Outs, NEW packed
    PROVE  \/ ItemCounted(b, packed, AddPacked(b, packed))
           \/ Failed(b, AddPacked(b, packed)) /\ ~ AddPacked(b, packed).ok
<1> DEFINE new == AddPacked(b, packed)
<1>1. CASE packed.ok /\ b.counts[b.section] < MaxCount
  BY <1>1 DEF AddPacked, ItemCounted
<1>2. CASE ~ (packed.ok /\ b.counts[b.section] < MaxCount)
  <2>1. new = [b EXCEPT !.ok = FALSE, !.suffixes = packed.suffixes]
    BY <1>2 DEF AddPacked
  <2>2. ~ new.ok
    BY <2>1 DEF Outs
  <2> QED
    BY <2>1, <2>2 DEF Failed
<1> QED
  BY <1>1, <1>2

(* Counting an item leaves the suffixes readable.                           *)
LEMMA CountedStands ==
    ASSUME NEW b \in Outs, NEW packed, NEW new, NEW holes, ItemCounted(b, packed, new), Packing(packed, holes),
           Extends(packed, b), b.section \in Sections
    PROVE  /\ Packing(new, holes) /\ Size(new) = Size(packed) /\ new.msg = packed.msg /\ new.start = b.start
           /\ new.head = b.head /\ new.section = b.section
           /\ new.counts = [b.counts EXCEPT ![b.section] = @ + 1]
<1> DEFINE s == b.section
           counts == [packed.counts EXCEPT ![s] = @ + 1]
<1>1. packed \in Outs /\ packed.ok /\ b.counts \in [Sections -> Nat]
  BY DEF Packing, Outs
<1>2. packed.counts = b.counts /\ packed.start = b.start /\ packed.head = b.head /\ packed.section = s
  BY DEF Extends
<1>3. new = [packed EXCEPT !.counts = counts]
  BY DEF ItemCounted
<1>4. counts \in [Sections -> Nat]
  BY <1>1, <1>2
<1>5. counts = [b.counts EXCEPT ![s] = @ + 1]
  BY <1>2
<1> HIDE DEF counts
<1>6. /\ new \in Outs /\ new.msg = packed.msg /\ new.start = packed.start /\ new.suffixes = packed.suffixes
      /\ new.ok /\ new.head = packed.head /\ new.section = packed.section /\ new.counts = counts
  BY <1>1, <1>3, <1>4 DEF Outs
<1>7. Packing(new, holes) /\ Size(new) = Size(packed)
  BY <1>6, OtherParts
<1> QED
  BY <1>2, <1>5, <1>6, <1>7

(* What adding an item makes of a builder.                                   *)
QuestionAdded(b, q, new) ==
    /\ b.section = Questions /\ PackQuestion(b, q).ok
    /\ Packing(PackQuestion(b, q), HeaderHole) /\ Extends(PackQuestion(b, q), b)
    /\ ItemCounted(b, PackQuestion(b, q), new)

(* new is b with the record r in the section b is in.                       *)
RecordAdded(b, r, new) ==
    /\ b.section \in RecordSections /\ PackRecord(b, r).ok
    /\ Packing(PackRecord(b, r), HeaderHole) /\ Extends(PackRecord(b, r), b)
    /\ ItemCounted(b, PackRecord(b, r), new)

(* A call of Question adds the question or fails.                           *)
LEMMA AddQuestionIs ==
    ASSUME NEW b, Packing(b, HeaderHole), NEW q, QuestionFits(q)
    PROVE  \/ QuestionAdded(b, q, AddQuestion(b, q))
           \/ Failed(b, AddQuestion(b, q)) /\ ~ AddQuestion(b, q).ok
<1>1. b \in Outs /\ b.ok
  BY DEF Packing
<1>2. CASE b.section # Questions
  BY <1>1, <1>2, RefusedFails DEF AddQuestion
<1>3. CASE b.section = Questions
  <2> DEFINE packed == PackQuestion(b, q)
  <2>1. AddQuestion(b, q) = AddPacked(b, packed)
    BY <1>1, <1>3, OkIsTrue DEF AddQuestion
  <2>2. packed.ok => Packing(packed, HeaderHole) /\ Extends(packed, b)
    BY PackQuestionStands
  <2> HIDE DEF packed
  <2>3. \/ ItemCounted(b, packed, AddPacked(b, packed))
        \/ Failed(b, AddPacked(b, packed)) /\ ~ AddPacked(b, packed).ok
    BY <1>1, AddPackedIs
  <2>4. ItemCounted(b, packed, AddPacked(b, packed)) => packed.ok
    BY DEF ItemCounted
  <2> QED
    BY <1>3, <2>1, <2>2, <2>3, <2>4 DEF QuestionAdded, packed
<1> QED
  BY <1>2, <1>3

(* A call that adds a record does so or fails.                              *)
LEMMA AddResourceIs ==
    ASSUME NEW b, Packing(b, HeaderHole), NEW r, RecordFits(r)
    PROVE  \/ RecordAdded(b, r, AddResource(b, r))
           \/ Failed(b, AddResource(b, r)) /\ ~ AddResource(b, r).ok
<1>1. b \in Outs /\ b.ok
  BY DEF Packing
<1>2. CASE b.section \notin RecordSections
  BY <1>1, <1>2, RefusedFails DEF AddResource
<1>3. CASE b.section \in RecordSections
  <2> DEFINE packed == PackRecord(b, r)
  <2>1. AddResource(b, r) = AddPacked(b, packed)
    BY <1>1, <1>3, OkIsTrue DEF AddResource
  <2>2. packed.ok => Packing(packed, HeaderHole) /\ Extends(packed, b)
    BY PackRecordStands
  <2> HIDE DEF packed
  <2>3. \/ ItemCounted(b, packed, AddPacked(b, packed))
        \/ Failed(b, AddPacked(b, packed)) /\ ~ AddPacked(b, packed).ok
    BY <1>1, AddPackedIs
  <2>4. ItemCounted(b, packed, AddPacked(b, packed)) => packed.ok
    BY DEF ItemCounted
  <2> QED
    BY <1>3, <2>1, <2>2, <2>3, <2>4 DEF RecordAdded, packed
<1> QED
  BY <1>2, <1>3

(* A section is started in its order or not at all.                         *)
LEMMA StartSectionIs ==
    ASSUME NEW b, Packing(b, HeaderHole), NEW section \in Sections
    PROVE  \/ /\ b.section <= section
              /\ StartSection(b, section) = [b EXCEPT !.section = section]
              /\ Packing([b EXCEPT !.section = section], HeaderHole)
              /\ Size([b EXCEPT !.section = section]) = Size(b)
              /\ [b EXCEPT !.section = section].ok
           \/ Failed(b, StartSection(b, section)) /\ ~ StartSection(b, section).ok
<1>1. b \in Outs /\ b.ok /\ b.ok = TRUE
  BY DEF Packing, Outs
<1>2. CASE b.section <= section
  <2> DEFINE new == [b EXCEPT !.section = section]
  <2>1. section \in SectionHeader .. SectionDone
    BY SectionsAre
  <2>2. new \in Outs /\ new.msg = b.msg /\ new.start = b.start /\ new.suffixes = b.suffixes /\ new.ok
    BY <1>1, <2>1 DEF Outs
  <2>3. StartSection(b, section) = [b EXCEPT !.section = section, !.ok = TRUE]
    BY <1>2 DEF StartSection
  <2>4. [b EXCEPT !.section = section, !.ok = TRUE] = new
    BY <1>1 DEF Outs
  <2> HIDE DEF new
  <2>5. Packing(new, HeaderHole) /\ Size(new) = Size(b)
    BY <2>2, OtherParts
  <2> QED
    BY <1>2, <2>2, <2>3, <2>4, <2>5 DEF new
<1>3. CASE ~ (b.section <= section)
  BY <1>1, <1>3, RefusedFails DEF StartSection
<1> QED
  BY <1>2, <1>3

(* Unless a call that failed has left suffixes in its map, all suffixes in the  *)
(* map stand in the message.                                               *)
BuilderStands == ~ stale => Packing(builder, HeaderHole)

(* A call of the builder that fails, with no suffix left, changes nothing.     *)
LEMMA FailedCall ==
    ASSUME NEW b \in Outs, b.ok, NEW new, Failed(b, new), new.suffixes = b.suffixes
    PROVE  [new EXCEPT !.ok = TRUE] = b
<1>1. PICK x : new = [b EXCEPT !.ok = FALSE, !.suffixes = x]
  BY DEF Failed
<1>2. x = b.suffixes
  BY <1>1 DEF Outs
<1>3. [new EXCEPT !.ok = TRUE] = [b EXCEPT !.ok = TRUE]
  BY <1>1, <1>2 DEF Outs
<1> QED
  BY <1>3, OkIsTrue

(* A call that ends in one of these two ways keeps the invariant.           *)
LEMMA CallStands ==
    ASSUME BuilderStands, NEW b, NEW items, Call(b, items),
           ~ stale => (b.ok /\ Packing(b, HeaderHole)) \/ (Failed(builder, b) /\ ~ b.ok)
    PROVE  BuilderStands'
<1> SUFFICES ASSUME ~ stale' PROVE Packing(builder', HeaderHole)
  BY DEF BuilderStands
<1>1. builder' = [b EXCEPT !.ok = TRUE] /\ stale' = IF b.ok THEN stale ELSE (stale \/ b.suffixes # builder.suffixes)
  BY DEF Call
<1>2. ~ stale
  BY <1>1
<1>3. Packing(builder, HeaderHole) /\ builder \in Outs /\ builder.ok
  BY <1>2 DEF BuilderStands, Packing
<1>4. CASE b.ok /\ Packing(b, HeaderHole)
  <2>1. b \in Outs
    BY <1>4 DEF Packing
  <2>2. builder' = b
    BY <1>1, <1>4, <2>1, OkIsTrue
  <2> QED
    BY <1>4, <2>2
<1>5. CASE Failed(builder, b) /\ ~ b.ok
  <2>1. b.suffixes = builder.suffixes
    BY <1>1, <1>5
  <2>2. builder' = builder
    BY <1>1, <1>3, <1>5, <2>1, FailedCall
  <2> QED
    BY <1>3, <2>2
<1> QED
  BY <1>2, <1>4, <1>5

(* The invariant holds at the beginning.                                    *)
LEMMA InitStands == Init => BuilderStands
<1> SUFFICES ASSUME Init PROVE BuilderStands
  OBVIOUS
<1>1. PICK buf \in Buffers, head \in Headers : builder = NewBuilder(buf, head)
  BY DEF Init
<1>2. buf \in Bytes /\ head \in MessageHeads
  BY InputAssumption
<1> QED
  BY <1>1, <1>2, NewBuilderStands DEF BuilderStands

(* Every step keeps it.                                                     *)
LEMMA NextStands == BuilderStands /\ [Next]_vars => BuilderStands'
<1> SUFFICES ASSUME BuilderStands, [Next]_vars PROVE BuilderStands'
  OBVIOUS
<1>1. ~ stale => Packing(builder, HeaderHole)
  BY DEF BuilderStands
<1>2. CASE Compress
  <2> DEFINE b == EnableCompression(builder)
  <2>1. Call(b, <<>>)
    BY <1>2 DEF Compress
  <2>2. ~ stale => Packing(b, HeaderHole)
    BY <1>1, CompressStands
  <2>3. Packing(b, HeaderHole) => b.ok
    BY DEF Packing
  <2> HIDE DEF b
  <2> QED
    BY <2>1, <2>2, <2>3, CallStands
<1>3. ASSUME NEW section \in Sections, Start(section) PROVE BuilderStands'
  <2> DEFINE b == StartSection(builder, section)
  <2>1. Call(b, <<>>)
    BY <1>3 DEF Start
  <2>2. ~ stale => (b.ok /\ Packing(b, HeaderHole)) \/ (Failed(builder, b) /\ ~ b.ok)
    BY <1>1, StartSectionIs
  <2> HIDE DEF b
  <2> QED
    BY <2>1, <2>2, CallStands
<1>4. ASSUME NEW q \in QuestionItems, BuildQuestion(q) PROVE BuilderStands'
  <2> DEFINE b == AddQuestion(builder, q)
             items == Entry(q)
             packed == PackQuestion(builder, q)
  <2>1. Call(b, items)
    BY <1>4 DEF BuildQuestion
  <2>2. ~ stale => QuestionAdded(builder, q, b) \/ (Failed(builder, b) /\ ~ b.ok)
    BY <1>1, ItemsFit, AddQuestionIs
  <2>3. ASSUME ~ stale, QuestionAdded(builder, q, b) PROVE b.ok /\ Packing(b, HeaderHole)
    <3>1. ItemCounted(builder, packed, b) /\ Packing(packed, HeaderHole) /\ Extends(packed, builder)
      BY <2>3 DEF QuestionAdded
    <3>2. builder.section \in Sections /\ builder \in Outs
      BY <1>1, <2>3, SectionsAre DEF QuestionAdded, Packing
    <3> HIDE DEF packed, b
    <3>3. Packing(b, HeaderHole)
      BY <3>1, <3>2, CountedStands
    <3> QED
      BY <3>3 DEF Packing
  <2> HIDE DEF b, items
  <2> QED
    BY <2>1, <2>2, <2>3, CallStands
<1>5. ASSUME NEW r \in RecordItems, BuildResource(r) PROVE BuilderStands'
  <2> DEFINE b == AddResource(builder, r)
             items == Entry(r)
             packed == PackRecord(builder, r)
  <2>1. Call(b, items)
    BY <1>5 DEF BuildResource
  <2>2. ~ stale => RecordAdded(builder, r, b) \/ (Failed(builder, b) /\ ~ b.ok)
    BY <1>1, ItemsFit, AddResourceIs
  <2>3. ASSUME ~ stale, RecordAdded(builder, r, b) PROVE b.ok /\ Packing(b, HeaderHole)
    <3>1. ItemCounted(builder, packed, b) /\ Packing(packed, HeaderHole) /\ Extends(packed, builder)
      BY <2>3 DEF RecordAdded
    <3>2. builder.section \in Sections /\ builder \in Outs
      BY <1>1, <2>3, SectionsAre DEF RecordAdded, Packing
    <3> HIDE DEF packed, b
    <3>3. Packing(b, HeaderHole)
      BY <3>1, <3>2, CountedStands
    <3> QED
      BY <3>3 DEF Packing
  <2> HIDE DEF b, items
  <2> QED
    BY <2>1, <2>2, <2>3, CallStands
<1>6. CASE FinishMessage
  <2> DEFINE b == Finish(builder)
  <2>1. Call(b, <<>>)
    BY <1>6 DEF FinishMessage
  <2>2. ~ stale => Packing(b, HeaderHole)
    BY <1>1, FinishIs
  <2>3. Packing(b, HeaderHole) => b.ok
    BY DEF Packing
  <2> HIDE DEF b
  <2> QED
    BY <2>1, <2>2, <2>3, CallStands
<1>7. CASE UNCHANGED <<builder, stale>>
  BY <1>7 DEF BuilderStands
<1>8. CASE UNCHANGED vars
  BY <1>7, <1>8 DEF vars
<1>9. ASSUME NEW lost \in Cuts, Arrive(lost) PROVE BuilderStands'
  BY <1>7, <1>9 DEF Arrive
<1>10. ASSUME NEW how, NEW p, Take(how, p) PROVE BuilderStands'
  BY <1>7, <1>10 DEF Take
<1>11. CASE TakeQuestion \/ PassQuestion
  BY <1>10, <1>11 DEF TakeQuestion, PassQuestion
<1>12. ASSUME NEW section \in RecordSections,
              TakeHeader(section) \/ TakeResource(section) \/ PassResource(section)
       PROVE  BuilderStands'
  BY <1>10, <1>12 DEF TakeHeader, TakeResource, PassResource
<1>13. ASSUME NEW type, TakeBody(type) PROVE BuilderStands'
  BY <1>10, <1>13 DEF TakeBody
<1>14. CASE TakeUnknown
  BY <1>10, <1>14 DEF TakeUnknown
<1> QED
  BY <1>2, <1>3, <1>4, <1>5, <1>6, <1>8, <1>9, <1>11, <1>12, <1>13, <1>14 DEF Next

(* Until an error is met, the suffixes of the builder are readable where    *)
(* they point, whatever is filled into the header: Builder of               *)
(* dnsmessage.go.                                                           *)
THEOREM BuilderAlwaysStands == Spec => []BuilderStands
BY InitStands, NextStands, PTL DEF Spec

-----------------------------------------------------------------------------
(* The message agrees with itself.                                          *)
LEMMA MessageAgrees ==
    ASSUME NEW holes, Packing(builder, holes)
    PROVE  /\ Message \in Bytes /\ Len(Message) = Size(builder)
           /\ \A x \in 1 .. Size(builder) : Message[x] = builder.msg[builder.start + x]
           /\ Agrees(Message, Size(builder), holes, builder.msg, builder.start)
<1> DEFINE u == builder.msg
           s == builder.start
           a == Len(u)
           z == Size(builder)
           v == SubSeq(u, s + 1, s + z)
<1>1. a \in Nat /\ s \in Nat /\ z \in Nat /\ a = s + z /\ u \in Bytes
  BY SizeIs DEF Packing, Outs
<1>2. Message = v
  BY <1>1 DEF Message
<1>3. s + z <= Len(u)
  <2>1. a <= a
    <3> HIDE DEF a, s, z
    <3> QED
      BY <1>1
  <2> QED
    BY <1>1, <2>1
<1> HIDE DEF u, s, z
<1>4. v \in Bytes /\ Len(v) = z /\ \A x \in 1 .. z : v[x] = u[s + x]
  BY <1>1, <1>3, PartOf
<1> HIDE DEF v
<1>5. z <= Len(v)
  BY <1>1, <1>4
<1>6. Agrees(v, z, holes, u, s)
  BY <1>4, <1>5 DEF Agrees
<1> QED
  BY <1>2, <1>4, <1>6 DEF u, s, z

(* A name that is read is taken if it is not too long.                       *)
LEMMA TextIsInteger ==
    ASSUME NEW name \in Seq(Bytes)
    PROVE  TextLength(name) \in Int
<1> DEFINE n == Len(name)
           t == TextLength(name)
<1>1. n \in Nat
  BY LenProperties
<1>2. CASE n = 0
  <2>1. name = <<>>
    BY <1>2, EmptySeq
  <2>2. t = 1
    BY <2>1 DEF TextLength
  <2> QED
    BY <2>2
<1>3. CASE n # 0
  <2> DEFINE a == PrefixLength(name, n + 1)
             b == PrefixLength(name, 1)
  <2>1. 1 \in 1 .. n /\ 1 \in 1 .. n + 1 /\ n + 1 \in 1 .. n + 1
    BY <1>1, <1>3
  <2>2. a \in Nat /\ b \in Nat
    BY <2>1, PrefixSteps
  <2>3. TextLength(SubSeq(name, 1, n)) = a - b
    BY <2>1, SuffixText
  <2>4. SubSeq(name, 1, n) = name
    BY SubSeqFull
  <2>5. t = a - b
    BY <2>3, <2>4
  <2> HIDE DEF t, a, b
  <2>6. t \in Int
    BY <2>2, <2>5
  <2> QED
    BY <2>6 DEF t
<1> QED
  BY <1>2, <1>3

(* A name that is not too long passes the check of its length.              *)
LEMMA ShortName ==
    ASSUME NEW found, NEW name \in Seq(Bytes), TextLength(name) <= MaxName, found.value = name
    PROVE  ShortEnough(found) = found
<1> DEFINE t == TextLength(name)
<1>1. t \in Int
  BY TextIsInteger
<1> HIDE DEF t
<1>2. ~ (t > MaxName)
  <2>1. t <= MaxName
    BY DEF t
  <2> QED
    BY <1>1, <2>1 DEF MaxName
<1> QED
  BY <1>2 DEF ShortEnough, t

(* That is what the run checks.                                             *)
LEMMA StandsInMessage == BuilderStands => SuffixesStandInMessage
<1> SUFFICES ASSUME BuilderStands, ~ stale, NEW s \in DOMAIN builder.suffixes
             PROVE  /\ UnpackName(Message, builder.suffixes[s], TRUE).ok
                    /\ UnpackName(Message, builder.suffixes[s], TRUE).value = s.labels
  BY DEF SuffixesStandInMessage
<1> DEFINE off == builder.suffixes[s]
           z == Size(builder)
           found == LabelsFrom(Message, off, MaxPointers)
<1>1. Packing(builder, HeaderHole)
  BY DEF BuilderStands
<1>2. SuffixReads(s, off, builder.msg, builder.start, z, HeaderHole)
  BY <1>1 DEF Packing, SuffixesRead
<1>3. Message \in Bytes /\ Agrees(Message, z, HeaderHole, builder.msg, builder.start)
  BY <1>1, MessageAgrees
<1>4. MaxPointers \in Nat /\ Len(s.labels) <= MaxPointers + 1
  <2>1. MaxPointers \in Nat /\ Len(s.labels) <= MaxPointers /\ s.labels \in Seq(Bytes)
    BY <1>2, PointerAssumption DEF SuffixReads
  <2> DEFINE l == Len(s.labels)
  <2>2. l \in Nat
    BY <2>1, LenProperties
  <2> HIDE DEF l
  <2>3. l <= MaxPointers + 1
    BY <2>1, <2>2 DEF l
  <2> QED
    BY <2>1, <2>3 DEF l
<1>5. Reads(found, s.labels)
  BY <1>2, <1>3, <1>4 DEF SuffixReads
<1>6. TextLength(s.labels) <= MaxName
  BY <1>2 DEF SuffixReads
<1>7. UnpackName(Message, off, TRUE) = ShortEnough(found)
  BY DEF UnpackName
<1> HIDE DEF found
<1>8. ShortEnough(found) = found
  <2>1. found.value = s.labels /\ s.labels \in Seq(Bytes)
    BY <1>2, <1>5 DEF Reads, SuffixReads
  <2> DEFINE name == s.labels
  <2>2. found.value = name /\ name \in Seq(Bytes) /\ TextLength(name) <= MaxName
    BY <1>6, <2>1
  <2> HIDE DEF name
  <2> QED
    BY <2>2, ShortName
<1> QED
  BY <1>5, <1>7, <1>8 DEF Reads

(* Each suffix in the map stands in the message at its offset.                 *)
THEOREM SuffixesStand == Spec => []SuffixesStandInMessage
BY BuilderAlwaysStands, StandsInMessage, PTL

(* A recursion on places of a message that only goes forward: what step makes *)
(* at o of a function depends on its values behind o, if o is in the message. *)
Forward(V, len, step) ==
    /\ V # {} /\ len \in Nat
    /\ \A f \in [Nat -> V] : step[f] \in [Nat -> V]
    /\ \A f, g \in [Nat -> V], o \in Nat :
          (\A e \in Nat : o < len /\ o < e => f[e] = g[e]) => step[f][o] = step[g][o]

(* Such a recursion defines a function.                                     *)
LEMMA ForwardRecursion ==
    ASSUME NEW V, NEW len, NEW step, Forward(V, len, step)
    PROVE  \E f \in [Nat -> V] : f = step[f]
<1> DEFINE F == [Nat -> V]
           rank == [o \in Nat |-> IF o < len THEN len - o ELSE 0]
<1>1. V # {} /\ len \in Nat /\ \A f \in F : step[f] \in F
  BY DEF Forward
<1>2. F # {}
  <2>1. PICK v \in V : TRUE
    BY <1>1
  <2>2. [o \in Nat |-> v] \in F
    BY <2>1
  <2> QED
    BY <2>2
<1>3. \A o \in Nat : rank[o] \in 0 .. len
  BY <1>1
<1>4. \A f, g \in F : (\A o \in Nat : f[o] = g[o]) => f = g
  BY SameFunctions
<1>5. ASSUME NEW f \in F, NEW g \in F, NEW o \in Nat, \A e \in Nat : rank[e] < rank[o] => f[e] = g[e]
      PROVE  step[f][o] = step[g][o]
  <2>1. ASSUME NEW e \in Nat, o < len, o < e PROVE f[e] = g[e]
    <3>1. rank[e] < rank[o]
      BY <1>1, <2>1
    <3> QED
      BY <1>5, <3>1
  <2> QED
    BY <2>1 DEF Forward
<1> HIDE DEF F, rank
<1>6. Recursive(Nat, F, step, rank, len)
  BY <1>1, <1>2, <1>3, <1>4, <1>5 DEF Recursive
<1>7. \E f \in F : f = step[f]
  BY <1>6, RankRecursion
<1> QED
  BY <1>7 DEF F

(* One step of skipping a name.                                             *)
SkipStep(msg, from) ==
    [o \in Nat |->
            LET c == At(msg, o)
            IN  IF o >= Len(msg) THEN Failure
                ELSE IF c = 0 THEN Found(<<>>, o + 1)
                ELSE IF c <= MaxLabel
                THEN IF o + 1 + c > Len(msg) THEN Failure ELSE from[o + 1 + c]
                ELSE IF c >= PointerMark THEN Found(<<>>, o + 2)
                ELSE Failure]

(* What skipping a name leads to.                                           *)
Skips == {Failure} \cup {Found(<<>>, next) : next \in Nat}

(* SkipName is a function that satisfies its recursion.                       *)
LEMMA SkipNameIs ==
    ASSUME NEW msg \in Bytes
    PROVE  \E f \in [Nat -> Skips] : f = SkipStep(msg, f) /\ \A o \in Nat : SkipName(msg, o) = f[o]
<1> DEFINE F == [Nat -> Skips]
           step == [f \in F |-> SkipStep(msg, f)]
           len == Len(msg)
<1>1. len \in Nat
  BY LenProperties DEF Bytes
<1>2. \A o \in Nat : o < len => At(msg, o) \in 0 .. 255
  BY ByteAt
<1>3. Failure \in Skips /\ \A next \in Nat : Found(<<>>, next) \in Skips
  BY DEF Skips
<1>4. \A f \in F, o \in Nat : SkipStep(msg, f)[o] \in Skips
  <2> SUFFICES ASSUME NEW f \in F, NEW o \in Nat PROVE SkipStep(msg, f)[o] \in Skips
    OBVIOUS
  <2> DEFINE c == At(msg, o)
  <2>1. o < len => c \in 0 .. 255
    BY <1>2
  <2>2. SkipStep(msg, f)[o] = IF o >= len THEN Failure
                ELSE IF c = 0 THEN Found(<<>>, o + 1)
                ELSE IF c <= MaxLabel
                THEN IF o + 1 + c > len THEN Failure ELSE f[o + 1 + c]
                ELSE IF c >= PointerMark THEN Found(<<>>, o + 2)
                ELSE Failure
    BY DEF SkipStep
  <2> HIDE DEF c, len
  <2>3. o < len => f[o + 1 + c] \in Skips /\ o + 1 \in Nat /\ o + 2 \in Nat
    <3>1. o < len => o + 1 + c \in Nat
      BY <2>1
    <3> QED
      BY <3>1
  <2> QED
    BY <1>1, <1>3, <2>2, <2>3
<1>5. \A f \in F : step[f] \in F /\ step[f] = SkipStep(msg, f)
  <2> SUFFICES ASSUME NEW f \in F PROVE SkipStep(msg, f) \in F
    OBVIOUS
  <2> QED
    BY <1>4 DEF SkipStep
<1>6. ASSUME NEW f \in F, NEW g \in F, NEW o \in Nat, \A e \in Nat : o < len /\ o < e => f[e] = g[e]
      PROVE  SkipStep(msg, f)[o] = SkipStep(msg, g)[o]
  <2> DEFINE c == At(msg, o)
  <2>1. o < len => c \in 0 .. 255
    BY <1>2
  <2>2. \A h : SkipStep(msg, h)[o] = IF o >= len THEN Failure
                ELSE IF c = 0 THEN Found(<<>>, o + 1)
                ELSE IF c <= MaxLabel
                THEN IF o + 1 + c > len THEN Failure ELSE h[o + 1 + c]
                ELSE IF c >= PointerMark THEN Found(<<>>, o + 2)
                ELSE Failure
    BY DEF SkipStep
  <2> HIDE DEF c, len
  <2>3. o < len => f[o + 1 + c] = g[o + 1 + c]
    <3>1. o < len => o + 1 + c \in Nat /\ o < o + 1 + c
      BY <2>1
    <3> QED
      BY <1>6, <3>1
  <2> QED
    BY <1>1, <2>2, <2>3
<1>7. Forward(Skips, len, step)
  <2>1. Skips # {}
    BY <1>3
  <2>2. \A f \in F : step[f] \in F
    BY <1>5
  <2>3. \A f, g \in F, o \in Nat :
           (\A e \in Nat : o < len /\ o < e => f[e] = g[e]) => step[f][o] = step[g][o]
    BY <1>5, <1>6
  <2> HIDE DEF step, len
  <2> QED
    BY <1>1, <2>1, <2>2, <2>3 DEF Forward
<1>8. \E f \in F : f = step[f]
  <2> HIDE DEF step, len
  <2> QED
    BY <1>7, ForwardRecursion
<1>9. PICK f \in F : f = SkipStep(msg, f)
  BY <1>5, <1>8
<1> DEFINE g == CHOOSE h : h = SkipStep(msg, h)
<1>10. g = SkipStep(msg, g)
  BY <1>9
<1>11. \A o \in Nat : SkipName(msg, o) = g[o]
  BY DEF SkipName, SkipStep
<1> HIDE DEF g, step
<1>12. \A o \in Nat : g[o] \in Skips
  <2> DEFINE rank == [o \in Nat |-> IF o < len THEN len - o ELSE 0]
             P == {o \in Nat : g[o] = f[o]}
  <2>1. rank \in [Nat -> Nat]
    BY <1>1
  <2>2. ASSUME NEW o \in Nat, \A e \in Nat : rank[e] < rank[o] => e \in P PROVE o \in P
    <3> DEFINE c == At(msg, o)
    <3>1. o < len => c \in 0 .. 255
      BY <1>2
    <3>2. \A h : SkipStep(msg, h)[o] = IF o >= len THEN Failure
                ELSE IF c = 0 THEN Found(<<>>, o + 1)
                ELSE IF c <= MaxLabel
                THEN IF o + 1 + c > len THEN Failure ELSE h[o + 1 + c]
                ELSE IF c >= PointerMark THEN Found(<<>>, o + 2)
                ELSE Failure
      BY DEF SkipStep
    <3>3. o < len => f[o + 1 + c] = g[o + 1 + c]
      <4> SUFFICES ASSUME o < len PROVE f[o + 1 + c] = g[o + 1 + c]
        OBVIOUS
      <4> HIDE DEF c, len, P
      <4>1. o + 1 + c \in Nat /\ rank[o + 1 + c] < rank[o]
        BY <1>1, <3>1
      <4>2. o + 1 + c \in P
        BY <2>2, <4>1
      <4> QED
        BY <4>2 DEF P
    <3> HIDE DEF c, len
    <3>4. SkipStep(msg, f)[o] = SkipStep(msg, g)[o]
      BY <1>1, <3>2, <3>3
    <3>5. f[o] = g[o]
      BY <1>9, <1>10, <3>4
    <3> QED
      BY <3>5
  <2> HIDE DEF rank, P
  <2>3. Nat \subseteq P
    BY <2>1, <2>2, RankInduction
  <2> QED
    BY <1>9, <2>3 DEF P
<1>13. g \in F
  <2>1. g = [o \in Nat |-> g[o]]
    BY <1>10 DEF SkipStep
  <2> QED
    BY <1>12, <2>1
<1> QED
  BY <1>10, <1>11, <1>13

(* A name is skipped label by label, up to a pointer or its end.              *)
LEMMA SkipUnfold ==
    ASSUME NEW msg \in Bytes, NEW o \in Nat
    PROVE  /\ SkipName(msg, o) \in Skips
           /\ o >= Len(msg) => SkipName(msg, o) = Failure
           /\ o < Len(msg) /\ At(msg, o) = 0 => SkipName(msg, o) = Found(<<>>, o + 1)
           /\ HasLabel(msg, o) => SkipName(msg, o) = SkipName(msg, LabelEnd(msg, o))
           /\ o < Len(msg) /\ At(msg, o) >= PointerMark => SkipName(msg, o) = Found(<<>>, o + 2)
           /\ o < Len(msg) /\ At(msg, o) # 0 /\ ~ HasLabel(msg, o) /\ ~ (At(msg, o) >= PointerMark) =>
                 SkipName(msg, o) = Failure
<1>1. PICK f \in [Nat -> Skips] : f = SkipStep(msg, f) /\ \A p \in Nat : SkipName(msg, p) = f[p]
  BY SkipNameIs
<1> DEFINE x == At(msg, o)
           l == Len(msg)
           e == LabelEnd(msg, o)
           r == SkipName(msg, o)
<1>2. l \in Nat
  BY LenProperties DEF Bytes
<1>3. o < l => x \in 0 .. 255 /\ e \in Nat
  BY ByteAt, LabelEndIs
<1>4. r = IF o >= l THEN Failure
          ELSE IF x = 0 THEN Found(<<>>, o + 1)
          ELSE IF x <= MaxLabel THEN IF e > l THEN Failure ELSE f[e]
          ELSE IF x >= PointerMark THEN Found(<<>>, o + 2) ELSE Failure
  <2>1. f[o] = SkipStep(msg, f)[o]
    BY <1>1
  <2>2. SkipStep(msg, f)[o] = IF o >= l THEN Failure
          ELSE IF x = 0 THEN Found(<<>>, o + 1)
          ELSE IF x <= MaxLabel THEN IF e > l THEN Failure ELSE f[e]
          ELSE IF x >= PointerMark THEN Found(<<>>, o + 2) ELSE Failure
    BY DEF SkipStep, LabelEnd
  <2>3. r = f[o]
    BY <1>1
  <2> QED
    BY <2>1, <2>2, <2>3
<1>5. HasLabel(msg, o) <=> o < l /\ x # 0 /\ x <= MaxLabel /\ e <= l
  BY DEF HasLabel
<1>6. HasLabel(msg, o) => f[e] = SkipName(msg, e)
  BY <1>1, <1>3, <1>5
<1>7. r \in Skips
  BY <1>1
<1>8. MaxLabel = 63 /\ PointerMark = 192
  BY DEF MaxLabel, PointerMark
<1> DEFINE b == SkipName(msg, e)
           first == Found(<<>>, o + 1)
           second == Found(<<>>, o + 2)
<1>9. /\ o >= l => r = Failure
      /\ o < l /\ x = 0 => r = first
      /\ HasLabel(msg, o) => r = b
      /\ o < l /\ x >= PointerMark => r = second
      /\ o < l /\ x # 0 /\ ~ HasLabel(msg, o) /\ ~ (x >= PointerMark) => r = Failure
  <2>1. r = IF o >= l THEN Failure
          ELSE IF x = 0 THEN first
          ELSE IF x <= MaxLabel THEN IF e > l THEN Failure ELSE f[e]
          ELSE IF x >= PointerMark THEN second ELSE Failure
    BY <1>4
  <2> HIDE DEF x, l, e, r, b, first, second
  <2>2. o >= l => r = Failure
    BY <2>1
  <2>3. o < l /\ x = 0 => r = first
    BY <1>2, <2>1
  <2>4. HasLabel(msg, o) => r = b
    <3>1. HasLabel(msg, o) => f[e] = b
      BY <1>6 DEF b
    <3> QED
      BY <1>2, <1>3, <1>5, <2>1, <3>1
  <2>5. o < l /\ x >= PointerMark => r = second
    BY <1>2, <1>3, <1>8, <2>1
  <2>6. o < l /\ x # 0 /\ ~ HasLabel(msg, o) /\ ~ (x >= PointerMark) => r = Failure
    BY <1>2, <1>3, <1>5, <1>8, <2>1
  <2> QED
    BY <2>2, <2>3, <2>4, <2>5, <2>6
<1> QED
  BY <1>7, <1>9

(* What can be read can be skipped, and ends at the same place: skipName and *)
(* unpackCompressed agree (dnsmessage.go:2058).                             *)
LEMMA ReadIsSkipped ==
    ASSUME NEW msg \in Bytes, NEW k \in Nat, NEW o \in Nat, LabelsFrom(msg, o, k).ok
    PROVE  SkipName(msg, o) = Found(<<>>, LabelsFrom(msg, o, k).next)
<1> DEFINE len == Len(msg)
           rank == [p \in Nat |-> IF p < len THEN len - p ELSE 0]
           P == {p \in Nat : LabelsFrom(msg, p, k).ok => SkipName(msg, p) = Found(<<>>, LabelsFrom(msg, p, k).next)}
<1>1. len \in Nat
  BY LenProperties DEF Bytes
<1>2. rank \in [Nat -> Nat]
  BY <1>1
<1>3. ASSUME NEW p \in Nat, \A e \in Nat : rank[e] < rank[p] => e \in P PROVE p \in P
  <2> DEFINE r == LabelsFrom(msg, p, k)
             s == SkipName(msg, p)
             e == LabelEnd(msg, p)
             b == LabelsFrom(msg, e, k)
             c == LabelsFrom(msg, PointsTo(msg, p), k - 1)
             x == At(msg, p)
  <2> SUFFICES ASSUME r.ok PROVE s = Found(<<>>, r.next)
    OBVIOUS
  <2>1. r \in NameReads /\ (r.ok <=> r # Failure)
    BY LabelsUnfold, ReadsTyped
  <2>2. /\ p < len /\ (x = 0 \/ HasLabel(msg, p) \/ HasPointer(msg, p, k))
    <3> HIDE DEF r, x
    <3>1. p >= len => r = Failure
      BY LabelsUnfold DEF r
    <3>2. p < len /\ x # 0 /\ ~ HasLabel(msg, p) /\ ~ HasPointer(msg, p, k) => r = Failure
      BY LabelsUnfold DEF r, x
    <3> QED
      BY <1>1, <2>1, <3>1, <3>2
  <2>3. CASE x = 0
    <3>1. r = Found(<<>>, p + 1) /\ s = Found(<<>>, p + 1)
      BY <2>2, <2>3, LabelsUnfold, SkipUnfold
    <3> QED
      BY <3>1 DEF Found
  <2>4. CASE HasLabel(msg, p)
    <3>1. r = Before(Slice(msg, p + 1, x), b) /\ s = SkipName(msg, e)
      BY <2>4, LabelsUnfold, SkipUnfold
    <3>2. e \in Nat /\ p < e
      BY <2>2, LabelEndIs
    <3>3. b \in NameReads
      BY <3>2, LabelsUnfold
    <3>4. b.ok /\ r.next = b.next
      <4>1. b.ok \in BOOLEAN /\ (b.ok <=> b # Failure) /\ (b # Failure => b = Found(b.value, b.next))
        BY <3>3, ReadsTyped
      <4>2. ~ Failure.ok
        BY DEF Failure
      <4>3. b # Failure
        BY <2>1, <3>1, <4>2 DEF Before
      <4>4. b = Found(b.value, b.next) /\ b.ok
        BY <4>1, <4>3
      <4> DEFINE v == b.value
                 n == b.next
                 lab == Slice(msg, p + 1, x)
      <4>5. r = Before(lab, Found(v, n))
        BY <3>1, <4>4
      <4>6. r = Found(<<lab>> \o v, n)
        <5> HIDE DEF v, n, lab, r
        <5> QED
          BY <4>5, ReadChanged
      <4>7. r.next = n
        BY <4>6 DEF Found
      <4> QED
        BY <4>4, <4>7
    <3>5. rank[e] < rank[p]
      <4> HIDE DEF e, len
      <4> QED
        BY <1>1, <2>2, <3>2
    <3>6. e \in P
      BY <1>3, <3>2, <3>5
    <3> QED
      BY <3>1, <3>4, <3>6
  <2>5. CASE HasPointer(msg, p, k) /\ x # 0
    <3>1. r = EndingAt(c, p + 2)
      BY <2>5, LabelsUnfold
    <3>2. x >= PointerMark
      BY <2>5 DEF HasPointer
    <3>3. s = Found(<<>>, p + 2)
      BY <2>2, <3>2, SkipUnfold
    <3>4. r.next = p + 2
      <4>1. c \in NameReads
        <5>1. PointsTo(msg, p) \in Nat /\ k - 1 \in Nat
          BY <2>5, LabelEndIs DEF HasPointer
        <5> QED
          BY <5>1, LabelsUnfold
      <4>2. c # Failure
        <5>1. c = Failure => r = Failure
          BY <3>1, <4>1, ReadsTyped
        <5> QED
          BY <2>1, <5>1
      <4>3. r = Found(c.value, p + 2)
        BY <3>1, <4>1, <4>2, ReadsTyped
      <4> QED
        BY <4>3 DEF Found
    <3> QED
      BY <3>3, <3>4
  <2> QED
    BY <2>2, <2>3, <2>4, <2>5
<1> HIDE DEF rank, P
<1>4. Nat \subseteq P
  BY <1>2, <1>3, RankInduction
<1> QED
  BY <1>4 DEF P

(* Bytes stand in a message behind an offset.                                *)
BytesLaid(m, o, bytes, n) ==
    /\ m \in Bytes /\ o \in Nat /\ bytes \in Bytes /\ n \in Nat /\ n = Len(bytes) /\ o + n <= Len(m)
    /\ \A x \in 1 .. n : m[o + x] = bytes[x]

(* What has been packed stands in every message that agrees.                 *)
LEMMA EmittedIsLaid ==
    ASSUME NEW out, NEW holes, Packing(out, holes), NEW bytes \in Bytes, NEW new,
           BytesStand(out, bytes, new, holes, {}), NEW m, Agrees(m, Size(new), holes, new.msg, new.start)
    PROVE  BytesLaid(m, Size(out), bytes, Len(bytes)) /\ Size(new) = Size(out) + Len(bytes)
<1> DEFINE n == Len(bytes)
           o == Size(out)
           a == out.start
           l == Len(out.msg)
<1>1. n \in Nat
  BY LenProperties DEF Bytes
<1>2. o \in Nat /\ a \in Nat /\ l = a + o /\ holes \subseteq 1 .. o
  BY SizeIs DEF Packing
<1>3. new.start = a /\ Size(new) = o + n /\ \A x \in 1 .. n : new.msg[l + x] = bytes[x]
  BY DEF BytesStand, Extends
<1>4. m \in Bytes /\ o + n <= Len(m)
       /\ \A x \in 1 .. o + n : x \notin holes => m[x] = new.msg[a + x]
  BY <1>3 DEF Agrees
<1> HIDE DEF n, o, a, l
<1>5. ASSUME NEW x \in 1 .. n PROVE m[o + x] = bytes[x]
  <2>1. o + x \in 1 .. o + n /\ o + x \notin 1 .. o /\ a + (o + x) = l + x
    BY <1>1, <1>2
  <2>2. m[o + x] = new.msg[a + (o + x)]
    BY <1>2, <1>4, <2>1
  <2> QED
    BY <1>3, <2>1, <2>2
<1>6. n = Len(bytes)
  BY DEF n
<1>7. BytesLaid(m, o, bytes, n)
  BY <1>1, <1>2, <1>4, <1>5, <1>6 DEF BytesLaid
<1> QED
  BY <1>3, <1>7 DEF n, o

(* A number of sixteen bits is read as it was packed.                         *)
LEMMA NumberIsRead ==
    ASSUME NEW m, NEW o, NEW v \in Words, BytesLaid(m, o, Pack16(v), 2)
    PROVE  o + 2 <= Len(m) /\ Unpack16(m, o) = v
<1>1. v \in Nat
  BY WordsAre
<1>2. Pack16(v)[1] * 256 + Pack16(v)[2] = v
  BY <1>1, Pack16Properties
<1>3. o \in Nat /\ o + 2 <= Len(m) /\ m[o + 1] = Pack16(v)[1] /\ m[o + 2] = Pack16(v)[2]
  <2>1. 1 \in 1 .. 2 /\ 2 \in 1 .. 2
    OBVIOUS
  <2> QED
    BY <2>1 DEF BytesLaid
<1>4. o + 1 + 1 = o + 2
  BY <1>3
<1> QED
  BY <1>2, <1>3, <1>4 DEF Unpack16, At

(* Bytes are read as they were packed.                                       *)
LEMMA BytesAreRead ==
    ASSUME NEW m, NEW o, NEW b, NEW n, BytesLaid(m, o, b, n)
    PROVE  UnpackBytes(m, o, n) = Found(b, o + n) /\ Slice(m, o, n) = b
<1>1. /\ m \in Bytes /\ o \in Nat /\ b \in Bytes /\ n \in Nat /\ n = Len(b) /\ o + n <= Len(m)
      /\ \A x \in 1 .. n : m[o + x] = b[x]
  BY DEF BytesLaid
<1>2. /\ Slice(m, o, n) \in Bytes /\ Len(Slice(m, o, n)) = n
      /\ \A x \in 1 .. n : Slice(m, o, n)[x] = m[o + x]
  BY <1>1, SliceProperties
<1>3. Slice(m, o, n) = b
  <2> DEFINE s == Slice(m, o, n)
             octets == 0 .. 255
  <2>1. s \in Seq(octets) /\ b \in Seq(octets) /\ Len(s) = n /\ Len(b) = n /\ \A x \in 1 .. n : s[x] = b[x]
    BY <1>1, <1>2 DEF Bytes
  <2> HIDE DEF s, octets
  <2>2. s = b
    BY <2>1, SeqEqual
  <2> QED
    BY <2>2 DEF s
<1>4. ~ (o + n > Len(m))
  <2> DEFINE l == Len(m)
  <2>1. l \in Nat /\ o + n <= l
    BY <1>1, LenProperties DEF Bytes
  <2> HIDE DEF l
  <2>2. ~ (o + n > l)
    BY <1>1, <2>1
  <2> QED
    BY <2>2 DEF l
<1> QED
  BY <1>3, <1>4 DEF UnpackBytes

(* Bytes behind each other stand each for itself.                            *)
LEMMA LaidParts ==
    ASSUME NEW m, NEW o, NEW b, NEW n, BytesLaid(m, o, b, n), NEW d \in Nat, NEW c \in Bytes, NEW k,
           k = Len(c), d + k <= n, \A x \in 1 .. k : b[d + x] = c[x]
    PROVE  BytesLaid(m, o + d, c, k)
<1>1. /\ m \in Bytes /\ o \in Nat /\ n \in Nat /\ o + n <= Len(m) /\ \A x \in 1 .. n : m[o + x] = b[x]
  BY DEF BytesLaid
<1>2. k \in Nat
  BY LenProperties DEF Bytes
<1> DEFINE l == Len(m)
<1>3. l \in Nat
  BY <1>1, LenProperties DEF Bytes
<1>4. o + n <= l
  BY <1>1
<1> HIDE DEF l
<1>5. o + d \in Nat /\ o + d + k <= l
  BY <1>1, <1>2, <1>3, <1>4
<1>6. ASSUME NEW x \in 1 .. k PROVE m[o + d + x] = c[x]
  <2>1. d + x \in 1 .. n /\ o + d + x = o + (d + x)
    BY <1>1, <1>2
  <2> QED
    BY <1>1, <2>1
<1> QED
  BY <1>1, <1>2, <1>5, <1>6 DEF BytesLaid, l

(* Places from each of which f reads an element and goes on to the next.      *)
Chain(value, n, f, p, end) ==
    /\ f[p[n + 1]] = Found(<<>>, end)
    /\ \A i \in 1 .. n : f[p[i]] = Before(value[i], f[p[i + 1]])

(* What is read at each link of a chain is the rest of the value.           *)
LEMMA ChainIsRead ==
    ASSUME NEW S, NEW value \in Seq(S), NEW n, n = Len(value), NEW f, NEW p, NEW end, Chain(value, n, f, p, end)
    PROVE  f[p[1]] = Found(value, end)
<1> DEFINE Good(i) == f[p[i]] = Found(Rest(value, i), end)
           T == {d \in 0 .. n : Good(n + 1 - d)}
<1>1. n \in Nat
  BY LenProperties
<1>2. 0 \in T
  <2>1. Rest(value, n + 1) = <<>>
    <3>1. SubSeq(value, n + 1, n) = <<>>
      BY <1>1, SubSeqEmpty
    <3> QED
      BY <3>1 DEF Rest
  <2>2. n + 1 - 0 = n + 1 /\ 0 \in 0 .. n
    BY <1>1
  <2> QED
    BY <2>1, <2>2 DEF Chain
<1>3. ASSUME NEW d \in 0 .. n - 1, d \in T PROVE d + 1 \in T
  <2>1. PICK i \in 1 .. n : i = n + 1 - (d + 1) /\ i + 1 = n + 1 - d
    <3> DEFINE j == n + 1 - (d + 1)
    <3>1. j \in 1 .. n /\ j + 1 = n + 1 - d
      BY <1>1
    <3> QED
      BY <3>1
  <2>2. f[p[i + 1]] = Found(Rest(value, i + 1), end)
    BY <1>3, <2>1
  <2>3. f[p[i]] = Before(value[i], f[p[i + 1]])
    BY DEF Chain
  <2> DEFINE e == value[i]
             v == Rest(value, i + 1)
  <2>4. f[p[i]] = Before(e, Found(v, end))
    BY <2>2, <2>3
  <2> HIDE DEF e, v
  <2>5. f[p[i]] = Found(<<e>> \o v, end)
    BY <2>4, ReadChanged
  <2>6. <<e>> \o v = Rest(value, i)
    <3>1. n \in i .. n /\ i \in 1 .. n
      BY <1>1
    <3>2. SubSeq(value, i, n) = <<value[i]>> \o SubSeq(value, i + 1, n)
      BY <3>1, SubSeqRecursiveFirst
    <3> QED
      BY <3>2 DEF Rest, e, v
  <2>8. Good(i)
    BY <2>5, <2>6
  <2>7. Good(n + 1 - (d + 1)) /\ d + 1 \in 0 .. n
    <3>1. d + 1 \in 0 .. n
      BY <1>1
    <3> HIDE DEF Good
    <3> QED
      BY <2>1, <2>8, <3>1
  <2> QED
    BY <2>7
<1>4. n \in T
  <2> HIDE DEF T
  <2>1. 0 .. n \subseteq T
    BY <1>1, <1>2, <1>3, UpToBound
  <2> QED
    BY <1>1, <2>1
<1>5. n + 1 - n = 1
  BY <1>1
<1>6. Rest(value, 1) = value
  <2>1. SubSeq(value, 1, n) = value
    BY SubSeqFull
  <2> QED
    BY <2>1 DEF Rest
<1> QED
  BY <1>4, <1>5, <1>6

(* One step of reading texts.                                               *)
TextsStep(msg, off, length, from) ==
    [o \in Nat |->
            LET n == At(msg, o)
                next == o + 1 + n
            IN  IF o = off + length THEN Found(<<>>, o)
                ELSE IF o >= Len(msg) THEN Failure
                ELSE IF next > Len(msg) \/ next > off + length THEN Failure
                ELSE Before(Slice(msg, o + 1, n), from[next])]

(* UnpackTexts is a function that satisfies its recursion.                    *)
LEMMA UnpackTextsIs ==
    ASSUME NEW msg \in Bytes, NEW off \in Nat, NEW length \in Nat
    PROVE  \E f : f = TextsStep(msg, off, length, f) /\ UnpackTexts(msg, off, length) = f[off]
<1> DEFINE V == NameReads
           F == [Nat -> V]
           step == [f \in F |-> TextsStep(msg, off, length, f)]
           len == Len(msg)
           stop == off + length
<1>1. len \in Nat /\ stop \in Nat
  BY LenProperties DEF Bytes
<1>2. \A o \in Nat : o < len => At(msg, o) \in 0 .. 255
  BY ByteAt
<1>3. \A h : \A o \in Nat : TextsStep(msg, off, length, h)[o] =
                IF o = stop THEN Found(<<>>, o)
                ELSE IF o >= len THEN Failure
                ELSE IF o + 1 + At(msg, o) > len \/ o + 1 + At(msg, o) > stop THEN Failure
                ELSE Before(Slice(msg, o + 1, At(msg, o)), h[o + 1 + At(msg, o)])
  BY DEF TextsStep
<1>4. Failure \in V /\ \A next \in Nat : Found(<<>>, next) \in V
  BY ReadsTyped
<1>5. ASSUME NEW f \in F, NEW o \in Nat PROVE TextsStep(msg, off, length, f)[o] \in V
  <2> DEFINE n == At(msg, o)
             next == o + 1 + n
             r == Before(Slice(msg, o + 1, n), f[next])
  <2>1. o < len => n \in 0 .. 255 /\ next \in Nat
    <3>1. o < len => n \in 0 .. 255
      BY <1>2
    <3> HIDE DEF n, len
    <3> QED
      BY <3>1
  <2>2. o < len /\ ~ (next > len) => r \in V
    <3> SUFFICES ASSUME o < len, ~ (next > len) PROVE r \in V
      OBVIOUS
    <3>1. n \in Nat /\ o + 1 \in Nat /\ (o + 1) + n <= len
      <4> HIDE DEF len, n
      <4> QED
        BY <1>1, <2>1
    <3>2. Slice(msg, o + 1, n) \in Bytes
      BY <3>1, SliceProperties
    <3>3. f[next] \in V
      BY <2>1
    <3> QED
      BY <3>2, <3>3, ReadsTyped
  <2> HIDE DEF n, V, len, stop, F
  <2>3. TextsStep(msg, off, length, f)[o] =
                IF o = stop THEN Found(<<>>, o)
                ELSE IF o >= len THEN Failure
                ELSE IF next > len \/ next > stop THEN Failure ELSE r
    BY <1>3 DEF n
  <2> HIDE DEF next, r
  <2> QED
    BY <1>1, <1>4, <2>2, <2>3
<1>6. \A f \in F : step[f] \in F /\ step[f] = TextsStep(msg, off, length, f)
  <2> SUFFICES ASSUME NEW f \in F PROVE TextsStep(msg, off, length, f) \in F
    OBVIOUS
  <2> QED
    BY <1>5 DEF TextsStep
<1>7. ASSUME NEW f \in F, NEW g \in F, NEW o \in Nat, \A e \in Nat : o < len /\ o < e => f[e] = g[e]
      PROVE  TextsStep(msg, off, length, f)[o] = TextsStep(msg, off, length, g)[o]
  <2> DEFINE n == At(msg, o)
             next == o + 1 + n
  <2>1. o < len => n \in 0 .. 255
    BY <1>2
  <2>2. \A h : TextsStep(msg, off, length, h)[o] =
                IF o = stop THEN Found(<<>>, o)
                ELSE IF o >= len THEN Failure
                ELSE IF next > len \/ next > stop THEN Failure
                ELSE Before(Slice(msg, o + 1, n), h[next])
    BY <1>3
  <2> HIDE DEF n, len, stop
  <2>3. o < len => f[next] = g[next]
    <3>1. o < len => next \in Nat /\ o < next
      BY <2>1
    <3> QED
      BY <1>7, <3>1
  <2> HIDE DEF next
  <2> QED
    BY <1>1, <2>2, <2>3
<1>8. Forward(V, len, step)
  <2>1. V # {}
    BY <1>4
  <2>2. \A f \in F : step[f] \in F
    BY <1>6
  <2>3. \A f, g \in F, o \in Nat :
           (\A e \in Nat : o < len /\ o < e => f[e] = g[e]) => step[f][o] = step[g][o]
    BY <1>6, <1>7
  <2> HIDE DEF step, len, V
  <2> QED
    BY <1>1, <2>1, <2>2, <2>3 DEF Forward
<1>9. \E f \in F : f = step[f]
  <2> HIDE DEF step, len, V
  <2> QED
    BY <1>8, ForwardRecursion
<1>10. PICK f \in F : f = TextsStep(msg, off, length, f)
  BY <1>6, <1>9
<1> DEFINE g == CHOOSE h : h = TextsStep(msg, off, length, h)
<1>11. g = TextsStep(msg, off, length, g)
  BY <1>10
<1>12. UnpackTexts(msg, off, length) = g[off]
  BY DEF UnpackTexts, TextsStep
<1> HIDE DEF g
<1> QED
  BY <1>11, <1>12

(* Texts are read as they were packed.                                       *)
LEMMA TextsAreRead ==
    ASSUME NEW m, NEW o, NEW value \in Seq(Bytes), NEW length,
           BytesLaid(m, o, Flat(CountedLabels(value), Len(value)), length)
    PROVE  UnpackTexts(m, o, length) = Found(value, o + length)
<1> DEFINE n == Len(value)
           flat == Flat(CountedLabels(value), n)
           p == [i \in 1 .. n + 1 |-> o + PrefixLength(value, i)]
           end == o + length
           len == Len(m)
<1>1. n \in Nat
  BY LenProperties
<1>2. /\ m \in Bytes /\ o \in Nat /\ length \in Nat /\ length = Len(flat) /\ end <= len
      /\ \A x \in 1 .. length : m[o + x] = flat[x]
  BY DEF BytesLaid
<1>3. len \in Nat
  BY <1>2, LenProperties DEF Bytes
<1>4. \A i \in 1 .. n : value[i] \in Bytes /\ Len(value[i]) \in Nat
  BY ElementOfSeq, LenProperties DEF Bytes
<1>5. \A i \in 1 .. n + 1 : PrefixLength(value, i) \in Nat
  BY PrefixSteps
<1>6. \A i \in 1 .. n : PrefixLength(value, i + 1) = PrefixLength(value, i) + 1 + Len(value[i])
  BY PrefixSteps
<1>7. PrefixLength(value, 1) = 0 /\ PrefixLength(value, n + 1) = length
  <2>1. n + 1 \in 1 .. n + 1 /\ n + 1 - 1 = n
    BY <1>1
  <2>2. PrefixLength(value, n + 1) = Len(Flat(CountedLabels(value), n + 1 - 1))
    BY <2>1, PrefixSteps
  <2> QED
    BY <1>2, <2>1, <2>2, PrefixSteps
<1>8. \A i \in 1 .. n : /\ PrefixLength(value, i) + 1 + Len(value[i]) <= PrefixLength(value, n + 1)
                        /\ flat[PrefixLength(value, i) + 1] = Len(value[i])
                        /\ \A x \in 1 .. Len(value[i]) : flat[PrefixLength(value, i) + 1 + x] = value[i][x]
  <2>1. n \in 0 .. n
    BY <1>1
  <2> QED
    BY <2>1, LabelsLaid
<1>9. PICK f : f = TextsStep(m, o, length, f) /\ UnpackTexts(m, o, length) = f[o]
  BY <1>2, UnpackTextsIs
<1>10. \A at \in Nat : f[at] =
                IF at = end THEN Found(<<>>, at)
                ELSE IF at >= len THEN Failure
                ELSE IF at + 1 + At(m, at) > len \/ at + 1 + At(m, at) > end THEN Failure
                ELSE Before(Slice(m, at + 1, At(m, at)), f[at + 1 + At(m, at)])
  BY <1>9 DEF TextsStep
<1> HIDE DEF flat
<1>11. f[p[n + 1]] = Found(<<>>, end)
  <2>1. p[n + 1] = end /\ n + 1 \in 1 .. n + 1
    BY <1>1, <1>7
  <2>2. end \in Nat
    BY <1>2
  <2> HIDE DEF end, p
  <2> QED
    BY <1>10, <2>1, <2>2
<1>12. ASSUME NEW i \in 1 .. n PROVE f[p[i]] = Before(value[i], f[p[i + 1]])
  <2> DEFINE at == o + PrefixLength(value, i)
             q == PrefixLength(value, i)
             l == Len(value[i])
             next == at + 1 + l
  <2>1. i \in 1 .. n + 1 /\ i + 1 \in 1 .. n + 1
    BY <1>1
  <2>2. q \in Nat /\ l \in Nat /\ value[i] \in Bytes
    BY <1>4, <1>5, <2>1
  <2>3. q + 1 + l <= length /\ flat[q + 1] = l /\ \A x \in 1 .. l : flat[q + 1 + x] = value[i][x]
    BY <1>7, <1>8
  <2>4. p[i] = at /\ p[i + 1] = o + PrefixLength(value, i + 1) /\ PrefixLength(value, i + 1) = q + 1 + l
    BY <1>6, <2>1
  <2>5. at = o + q
    OBVIOUS
  <2>11. p[i] = at /\ p[i + 1] = next
    <3> HIDE DEF q, l, at, p
    <3>1. next = o + (q + 1 + l)
      BY <1>2, <2>2, <2>5
    <3> QED
      BY <2>4, <3>1
  <2> HIDE DEF q, l, at
  <2>6. at \in Nat /\ next <= end /\ at # end /\ ~ (at >= len) /\ ~ (next > end) /\ ~ (next > len) /\ next <= len
    BY <1>2, <1>3, <2>2, <2>3, <2>5
  <2>7. At(m, at) = l
    <3>1. q + 1 \in 1 .. length /\ o + (q + 1) = at + 1
      BY <1>2, <2>2, <2>3, <2>5
    <3> QED
      BY <1>2, <2>3, <3>1 DEF At
  <2>8. Slice(m, at + 1, l) = value[i]
    <3> DEFINE b == value[i]
    <3>1. \A x \in 1 .. l : m[(at + 1) + x] = b[x]
      <4> SUFFICES ASSUME NEW x \in 1 .. l PROVE m[(at + 1) + x] = b[x]
        OBVIOUS
      <4>1. q + 1 + x \in 1 .. length /\ o + (q + 1 + x) = (at + 1) + x
        BY <1>2, <2>2, <2>3, <2>5
      <4> QED
        BY <1>2, <2>3, <4>1
    <3>2. at + 1 \in Nat /\ (at + 1) + l <= len
      BY <2>2, <2>6
    <3>3. l = Len(b)
      BY DEF l
    <3> DEFINE from == at + 1
    <3>4. BytesLaid(m, from, b, l)
      BY <1>2, <2>2, <3>1, <3>2, <3>3 DEF BytesLaid
    <3> HIDE DEF b, from
    <3>5. Slice(m, from, l) = b
      BY <3>4, BytesAreRead
    <3> QED
      BY <3>5 DEF b, from
  <2>9. f[at] = Before(value[i], f[next])
    <3> DEFINE t == At(m, at)
               r == Before(Slice(m, at + 1, t), f[at + 1 + t])
    <3>1. f[at] = IF at = end THEN Found(<<>>, at)
                  ELSE IF at >= len THEN Failure
                  ELSE IF at + 1 + t > len \/ at + 1 + t > end THEN Failure ELSE r
      BY <1>10, <2>6
    <3>2. t = l
      BY <2>7
    <3>3. r = Before(value[i], f[next])
      BY <2>8, <3>2
    <3>4. ~ (at + 1 + t > len) /\ ~ (at + 1 + t > end)
      BY <2>6, <3>2
    <3> HIDE DEF r, t, next, end, len
    <3> QED
      BY <2>6, <3>1, <3>3, <3>4
  <2> QED
    BY <2>9, <2>11
<1>13. Chain(value, n, f, p, end)
  BY <1>11, <1>12 DEF Chain
<1>14. f[p[1]] = Found(value, end)
  <2>1. n = Len(value)
    OBVIOUS
  <2> HIDE DEF n, p, end
  <2> QED
    BY <1>13, <2>1, ChainIsRead
<1>15. p[1] = o
  <2>1. 1 \in 1 .. n + 1
    BY <1>1
  <2> QED
    BY <1>2, <1>7, <2>1
<1> QED
  BY <1>9, <1>14, <1>15

(* One step of reading options.                                             *)
OptionsStep(msg, off, length, from) ==
    [o \in Nat |->
            LET n == Unpack16(msg, o + 2)
                next == o + 4 + n
            IN  IF o >= off + length THEN Found(<<>>, o)
                ELSE IF o + 4 > Len(msg) THEN Failure
                ELSE IF next > Len(msg) THEN Failure
                ELSE Before([code |-> Unpack16(msg, o), data |-> Slice(msg, o + 4, n)], from[next])]

(* What reading options may find.                                            *)
OptionValues == [code : Nat, data : Bytes]
(* What reading options may return.                                         *)
OptionReads == {Failure} \cup [ok : {TRUE}, value : Seq(OptionValues), next : Nat]

(* Every step of reading options returns one of these.                      *)
LEMMA OptionReadsTyped ==
    /\ Failure \in OptionReads
    /\ \A next \in Nat : Found(<<>>, next) \in OptionReads
    /\ \A r \in OptionReads, option \in OptionValues : Before(option, r) \in OptionReads
<1> DEFINE S == Seq(OptionValues)
<1>1. Failure \in OptionReads
  BY DEF OptionReads
<1>2. \A v \in S, next \in Nat : Found(v, next) \in OptionReads
  <2> HIDE DEF S
  <2> SUFFICES \A v \in S, next \in Nat : Found(v, next) \in [ok : {TRUE}, value : S, next : Nat]
    BY DEF OptionReads, S
  <2> QED
    BY DEF Found
<1>3. <<>> \in S
  BY EmptySeq
<1>4. ASSUME NEW r \in OptionReads, NEW option \in OptionValues PROVE Before(option, r) \in OptionReads
  <2>1. CASE r = Failure
    <3>1. Before(option, r) = r
      BY <2>1 DEF Before, Failure
    <3> QED
      BY <3>1
  <2>2. CASE r \in [ok : {TRUE}, value : S, next : Nat]
    <3> DEFINE v == r.value
               n == r.next
    <3>1. r = Found(v, n) /\ v \in S /\ n \in Nat
      BY <2>2 DEF Found
    <3>2. <<option>> \o v \in S
      <4>1. <<option>> \in S
        BY OneElement
      <4>2. v \in S
        BY <3>1
      <4> HIDE DEF v
      <4> QED
        BY <4>1, <4>2, ConcatProperties
    <3>3. Before(option, Found(v, n)) = Found(<<option>> \o v, n)
      <4> HIDE DEF v, n
      <4> QED
        BY ReadChanged
    <3> HIDE DEF v, n, S
    <3> QED
      BY <1>2, <3>1, <3>2, <3>3
  <2> QED
    BY <2>1, <2>2 DEF OptionReads
<1> QED
  BY <1>1, <1>2, <1>3, <1>4

(* A number of sixteen bits is a natural.                                   *)
LEMMA NumberAt ==
    ASSUME NEW msg \in Bytes, NEW o \in Nat, o + 2 <= Len(msg)
    PROVE  Unpack16(msg, o) \in Nat
<1> DEFINE a == At(msg, o)
           b == At(msg, o + 1)
           len == Len(msg)
<1>1. len \in Nat /\ o + 2 <= len
  BY LenProperties DEF Bytes
<1> HIDE DEF len
<1>2. o < len /\ o + 1 < len /\ o + 1 \in Nat
  BY <1>1
<1>3. a \in 0 .. 255 /\ b \in 0 .. 255
  BY <1>2, ByteAt DEF len
<1> HIDE DEF a, b
<1>4. a * 256 + b \in Nat
  BY <1>3
<1> QED
  BY <1>4 DEF Unpack16, a, b

(* UnpackOptions is a function that satisfies its recursion.                  *)
LEMMA UnpackOptionsIs ==
    ASSUME NEW msg \in Bytes, NEW off \in Nat, NEW length \in Nat
    PROVE  \E f : f = OptionsStep(msg, off, length, f) /\ UnpackOptions(msg, off, length) = f[off]
<1> DEFINE V == OptionReads
           F == [Nat -> V]
           step == [f \in F |-> OptionsStep(msg, off, length, f)]
           len == Len(msg)
           stop == off + length
           num(o) == Unpack16(msg, o)
<1>1. len \in Nat /\ stop \in Nat
  BY LenProperties DEF Bytes
<1>2. \A o \in Nat : o + 4 <= len => num(o) \in Nat /\ num(o + 2) \in Nat
  <2> SUFFICES ASSUME NEW o \in Nat, o + 4 <= len PROVE num(o) \in Nat /\ num(o + 2) \in Nat
    OBVIOUS
  <2>1. o + 2 <= len /\ o + 2 \in Nat /\ (o + 2) + 2 <= len
    <3> HIDE DEF len
    <3> QED
      BY <1>1
  <2> QED
    BY <2>1, NumberAt
<1>3. \A h : \A o \in Nat : OptionsStep(msg, off, length, h)[o] =
                IF o >= stop THEN Found(<<>>, o)
                ELSE IF o + 4 > len THEN Failure
                ELSE IF o + 4 + num(o + 2) > len THEN Failure
                ELSE Before([code |-> num(o), data |-> Slice(msg, o + 4, num(o + 2))], h[o + 4 + num(o + 2)])
  BY DEF OptionsStep
<1>4. Failure \in V /\ \A next \in Nat : Found(<<>>, next) \in V
  BY OptionReadsTyped
<1> HIDE DEF num
<1>5. ASSUME NEW f \in F, NEW o \in Nat PROVE OptionsStep(msg, off, length, f)[o] \in V
  <2> DEFINE n == num(o + 2)
             next == o + 4 + n
             r == Before([code |-> num(o), data |-> Slice(msg, o + 4, n)], f[next])
  <2>1. o + 4 <= len => n \in Nat /\ num(o) \in Nat
    BY <1>2
  <2>2. o + 4 <= len /\ ~ (next > len) => r \in V
    <3> SUFFICES ASSUME o + 4 <= len, ~ (next > len) PROVE r \in V
      OBVIOUS
    <3>1. n \in Nat /\ o + 4 \in Nat /\ (o + 4) + n <= len /\ next \in Nat
      <4> HIDE DEF len, n
      <4> QED
        BY <1>1, <2>1
    <3>2. Slice(msg, o + 4, n) \in Bytes
      BY <3>1, SliceProperties
    <3>3. f[next] \in V
      BY <3>1
    <3> DEFINE option == [code |-> num(o), data |-> Slice(msg, o + 4, n)]
    <3>4. option \in OptionValues
      BY <2>1, <3>2 DEF OptionValues
    <3> HIDE DEF option
    <3>5. Before(option, f[next]) \in V
      BY <3>3, <3>4, OptionReadsTyped
    <3> QED
      BY <3>5 DEF option
  <2> HIDE DEF n, V, len, stop, F
  <2>3. OptionsStep(msg, off, length, f)[o] =
                IF o >= stop THEN Found(<<>>, o)
                ELSE IF o + 4 > len THEN Failure
                ELSE IF next > len THEN Failure ELSE r
    BY <1>3 DEF n
  <2>4. ~ (o + 4 > len) <=> o + 4 <= len
    BY <1>1
  <2> HIDE DEF next, r
  <2> QED
    BY <1>1, <1>4, <2>2, <2>3, <2>4
<1>6. \A f \in F : step[f] \in F /\ step[f] = OptionsStep(msg, off, length, f)
  <2> SUFFICES ASSUME NEW f \in F PROVE OptionsStep(msg, off, length, f) \in F
    OBVIOUS
  <2> QED
    BY <1>5 DEF OptionsStep
<1>7. ASSUME NEW f \in F, NEW g \in F, NEW o \in Nat, \A e \in Nat : o < len /\ o < e => f[e] = g[e]
      PROVE  OptionsStep(msg, off, length, f)[o] = OptionsStep(msg, off, length, g)[o]
  <2> DEFINE n == num(o + 2)
             next == o + 4 + n
  <2>1. o + 4 <= len => n \in Nat
    BY <1>2
  <2>2. \A h : OptionsStep(msg, off, length, h)[o] =
                IF o >= stop THEN Found(<<>>, o)
                ELSE IF o + 4 > len THEN Failure
                ELSE IF next > len THEN Failure
                ELSE Before([code |-> num(o), data |-> Slice(msg, o + 4, n)], h[next])
    BY <1>3
  <2> HIDE DEF n, len, stop
  <2>3. o + 4 <= len => f[next] = g[next]
    <3>1. o + 4 <= len => next \in Nat /\ o < next /\ o < len
      BY <1>1, <2>1
    <3> QED
      BY <1>7, <3>1
  <2>4. ~ (o + 4 > len) <=> o + 4 <= len
    BY <1>1
  <2> HIDE DEF next
  <2> QED
    BY <2>2, <2>3, <2>4
<1>8. Forward(V, len, step)
  <2>1. V # {}
    BY <1>4
  <2>2. \A f \in F : step[f] \in F
    BY <1>6
  <2>3. \A f, g \in F, o \in Nat :
           (\A e \in Nat : o < len /\ o < e => f[e] = g[e]) => step[f][o] = step[g][o]
    BY <1>6, <1>7
  <2> HIDE DEF step, len, V
  <2> QED
    BY <1>1, <2>1, <2>2, <2>3 DEF Forward
<1>9. \E f \in F : f = step[f]
  <2> HIDE DEF step, len, V
  <2> QED
    BY <1>8, ForwardRecursion
<1>10. PICK f \in F : f = OptionsStep(msg, off, length, f)
  BY <1>6, <1>9
<1> DEFINE g == CHOOSE h : h = OptionsStep(msg, off, length, h)
<1>11. g = OptionsStep(msg, off, length, g)
  BY <1>10
<1>12. UnpackOptions(msg, off, length) = g[off]
  BY DEF UnpackOptions, OptionsStep
<1> HIDE DEF g
<1> QED
  BY <1>11, <1>12

(* An option that stands at an offset is read.                               *)
LEMMA OptionIsRead ==
    ASSUME NEW m, NEW at, NEW option \in Options, NEW k, BytesLaid(m, at, OptionBytes(option), k), k \in Words
    PROVE  /\ k \in Nat /\ Len(option.data) \in Nat /\ k = 4 + Len(option.data)
           /\ Unpack16(m, at) = option.code /\ Unpack16(m, at + 2) = Len(option.data)
           /\ Slice(m, at + 4, Len(option.data)) = option.data
<1> DEFINE b == OptionBytes(option)
           d == option.data
           l == Len(d)
           c == option.code
<1>1. /\ m \in Bytes /\ at \in Nat /\ b \in Bytes /\ k \in Nat /\ k = Len(b)
      /\ \A x \in 1 .. k : m[at + x] = b[x]
  BY DEF BytesLaid
<1>2. /\ l \in Nat /\ Len(b) = 4 + l /\ b[1] = Pack16(c)[1] /\ b[2] = Pack16(c)[2]
      /\ b[3] = Pack16(l)[1] /\ b[4] = Pack16(l)[2] /\ \A x \in 1 .. l : b[4 + x] = d[x]
  BY OptionBytesProperties
<1>3. d \in Bytes /\ c \in Words
  BY DEF Options
<1>4. k = 4 + l
  BY <1>1, <1>2
<1>5. l \in Words
  <2> DEFINE top == 2^16 - 1
  <2>1. top \in Nat /\ k \in 0 .. top
    BY DEF Words
  <2> HIDE DEF top, l
  <2>2. l \in 0 .. top
    BY <1>2, <1>4, <2>1
  <2> QED
    BY <2>2 DEF top, Words
<1>6. BytesLaid(m, at, b, k)
  OBVIOUS
<1> HIDE DEF b, l, d, c
<1>7. ASSUME NEW e \in Nat, NEW v \in Words, e + 2 <= k, b[e + 1] = Pack16(v)[1], b[e + 2] = Pack16(v)[2]
      PROVE  Unpack16(m, at + e) = v
  <2> DEFINE s == Pack16(v)
             two == 2
             from == at + e
  <2>1. v \in Nat
    BY WordsAre
  <2>2. s \in Bytes /\ two = Len(s)
    BY <2>1, Pack16Properties
  <2>3. \A x \in 1 .. two : b[e + x] = s[x]
    BY <1>7
  <2>4. e + two <= k
    BY <1>7
  <2> HIDE DEF s, two
  <2>5. BytesLaid(m, at + e, s, two)
    BY <1>6, <1>7, <2>2, <2>3, <2>4, LaidParts
  <2>6. BytesLaid(m, from, Pack16(v), 2)
    BY <2>5 DEF s, two
  <2> HIDE DEF from
  <2>7. Unpack16(m, from) = v
    BY <2>6, NumberIsRead
  <2> QED
    BY <2>7 DEF from
<1>8. Unpack16(m, at) = c
  <2>1. 0 \in Nat /\ 0 + 2 <= k /\ 0 + 1 = 1 /\ 0 + 2 = 2
    BY <1>2, <1>4
  <2>2. Unpack16(m, at + 0) = c
    BY <1>2, <1>3, <1>7, <2>1
  <2>3. at + 0 = at
    BY <1>1
  <2> QED
    BY <2>2, <2>3
<1>9. Unpack16(m, at + 2) = l
  <2>1. 2 \in Nat /\ 2 + 2 <= k /\ 2 + 1 = 3 /\ 2 + 2 = 4
    BY <1>2, <1>4
  <2> QED
    BY <1>2, <1>5, <1>7, <2>1
<1>10. Slice(m, at + 4, l) = d
  <2> DEFINE four == 4
             from == at + four
  <2>1. four \in Nat /\ four + l <= k /\ l = Len(d) /\ \A x \in 1 .. l : b[four + x] = d[x]
    BY <1>2, <1>4 DEF l
  <2> HIDE DEF four
  <2>2. BytesLaid(m, at + four, d, l)
    BY <1>3, <1>6, <2>1, LaidParts
  <2>3. BytesLaid(m, from, d, l)
    BY <2>2
  <2> HIDE DEF from
  <2>4. Slice(m, from, l) = d
    BY <2>3, BytesAreRead
  <2> QED
    BY <2>4 DEF from, four
<1> QED
  BY <1>1, <1>2, <1>4, <1>8, <1>9, <1>10 DEF l, d, c

(* Options are read as they were packed.                                     *)
LEMMA OptionsAreRead ==
    ASSUME NEW m, NEW o, NEW value \in Seq(Options), NEW length \in Words,
           BytesLaid(m, o, Flat(OptionsBytes(value), Len(value)), length)
    PROVE  UnpackOptions(m, o, length) = Found(value, o + length)
<1> DEFINE n == Len(value)
           g == OptionsBytes(value)
           flat == Flat(g, n)
           p == [i \in 1 .. n + 1 |-> o + Len(Flat(g, i - 1))]
           end == o + length
           len == Len(m)
<1>1. n \in Nat
  BY LenProperties
<1>2. m \in Bytes /\ o \in Nat /\ length \in Nat /\ length = Len(flat) /\ end <= len
  BY DEF BytesLaid
<1>3. len \in Nat
  BY <1>2, LenProperties DEF Bytes
<1>4. \A i \in 1 .. n : value[i] \in Options /\ g[i] = OptionBytes(value[i]) /\ g[i] \in Bytes
  <2>1. \A i \in 1 .. n : value[i] \in Options
    BY ElementOfSeq
  <2>2. \A i \in 1 .. n : g[i] = OptionBytes(value[i])
    BY DEF OptionsBytes
  <2> QED
    BY <2>1, <2>2, OptionBytesProperties
<1>5. PICK f : f = OptionsStep(m, o, length, f) /\ UnpackOptions(m, o, length) = f[o]
  BY <1>2, UnpackOptionsIs
<1>6. \A at \in Nat : f[at] =
                IF at >= end THEN Found(<<>>, at)
                ELSE IF at + 4 > len THEN Failure
                ELSE IF at + 4 + Unpack16(m, at + 2) > len THEN Failure
                ELSE Before([code |-> Unpack16(m, at), data |-> Slice(m, at + 4, Unpack16(m, at + 2))],
                            f[at + 4 + Unpack16(m, at + 2)])
  BY <1>5 DEF OptionsStep
<1>7. /\ \A i \in 0 .. n : Flat(g, i) \in Bytes /\ Len(Flat(g, i)) \in Nat
      /\ \A i \in 1 .. n : /\ Len(g[i]) \in Nat /\ Len(Flat(g, i)) = Len(Flat(g, i - 1)) + Len(g[i])
                           /\ Len(Flat(g, i)) <= Len(Flat(g, n))
                           /\ \A x \in 1 .. Len(g[i]) : Flat(g, n)[Len(Flat(g, i - 1)) + x] = g[i][x]
  <2> DEFINE octets == 0 .. 255
  <2>1. \A i \in 1 .. n : g[i] \in Seq(octets)
    BY <1>4 DEF Bytes
  <2>2. \A i \in 0 .. n : Flat(g, i) \in Bytes
    BY OptionsAreBytes
  <2>3. \A i \in 0 .. n : Len(Flat(g, i)) \in Nat
    BY <2>2, LenProperties DEF Bytes
  <2>4. g \in [1 .. n -> Seq(octets)]
    BY <2>1 DEF OptionsBytes
  <2> HIDE DEF octets, g, n
  <2>5. \A i \in 1 .. n : IsLaid(g, n, i)
    BY <1>1, <2>4, FlatLaid
  <2>6. \A i \in 1 .. n : /\ Len(g[i]) \in Nat /\ Len(Flat(g, i)) = Len(Flat(g, i - 1)) + Len(g[i])
                           /\ Len(Flat(g, i)) <= Len(Flat(g, n))
                           /\ \A x \in 1 .. Len(g[i]) : Flat(g, n)[Len(Flat(g, i - 1)) + x] = g[i][x]
    BY <2>5 DEF IsLaid
  <2> QED
    BY <2>2, <2>3, <2>6
<1>8. Len(Flat(g, 0)) = 0
  <2> DEFINE octets == 0 .. 255
  <2>1. \A i \in 1 .. n : g[i] \in Seq(octets)
    BY <1>4 DEF Bytes
  <2> HIDE DEF octets, g, n
  <2>2. Flat(g, 0) = <<>>
    BY <1>1, <2>1, FlatStep
  <2> QED
    BY <2>2
<1> HIDE DEF flat, g
<1>9. f[p[n + 1]] = Found(<<>>, end)
  <2>1. n + 1 \in 1 .. n + 1 /\ n + 1 - 1 = n
    BY <1>1
  <2>2. p[n + 1] = end
    BY <1>2, <2>1 DEF flat
  <2>3. end \in Nat
    BY <1>2
  <2> HIDE DEF end, p
  <2>4. end >= end
    BY <2>3
  <2> QED
    BY <1>6, <2>2, <2>3, <2>4
<1>10. ASSUME NEW i \in 1 .. n PROVE f[p[i]] = Before(value[i], f[p[i + 1]])
  <2> DEFINE q == Len(Flat(g, i - 1))
             at == o + q
             k == Len(g[i])
             option == value[i]
             l == Len(option.data)
             next == at + k
  <2>1. i \in 1 .. n + 1 /\ i + 1 \in 1 .. n + 1 /\ i - 1 \in 0 .. n /\ i + 1 - 1 = i
    BY <1>1
  <2>2. q \in Nat /\ k \in Nat /\ option \in Options /\ g[i] = OptionBytes(option) /\ g[i] \in Bytes
    BY <1>4, <1>7, <2>1
  <2>3. q + k <= length /\ Len(Flat(g, i)) = q + k /\ \A x \in 1 .. k : flat[q + x] = g[i][x]
    <3>1. Len(Flat(g, i)) = q + k /\ Len(Flat(g, i)) <= Len(Flat(g, n))
      BY <1>7
    <3>2. length = Len(Flat(g, n))
      BY <1>2 DEF flat
    <3>3. \A x \in 1 .. k : flat[q + x] = g[i][x]
      BY <1>7 DEF flat
    <3> QED
      BY <3>1, <3>2, <3>3
  <2>4. p[i] = at /\ p[i + 1] = next
    <3>1. p[i] = at /\ p[i + 1] = o + Len(Flat(g, i))
      BY <2>1
    <3>2. o + (q + k) = next
      <4> HIDE DEF q, k
      <4> QED
        BY <1>2, <2>2
    <3> QED
      BY <2>3, <3>1, <3>2
  <2>5. BytesLaid(m, at, g[i], k)
    <3> DEFINE b == g[i]
    <3>1. k = Len(b) /\ b \in Bytes
      BY <2>2
    <3>2. BytesLaid(m, o, flat, length)
      BY DEF flat, g
    <3> HIDE DEF k, b, q
    <3>3. BytesLaid(m, o + q, b, k)
      BY <2>2, <2>3, <3>1, <3>2, LaidParts DEF b
    <3> QED
      BY <3>3 DEF b
  <2>6. k \in Words
    <3> DEFINE top == 2^16 - 1
    <3>1. top \in Nat /\ length \in 0 .. top
      BY DEF Words
    <3> HIDE DEF top, k, q
    <3>2. k \in 0 .. top
      BY <2>2, <2>3, <3>1
    <3> QED
      BY <3>2 DEF top, Words
  <2>7. /\ l \in Nat /\ k = 4 + l /\ Unpack16(m, at) = option.code /\ Unpack16(m, at + 2) = l
        /\ Slice(m, at + 4, l) = option.data
    <3>1. BytesLaid(m, at, OptionBytes(option), k)
      BY <2>2, <2>5
    <3> HIDE DEF at, k, option
    <3>2. /\ Len(option.data) \in Nat /\ k = 4 + Len(option.data)
          /\ Unpack16(m, at) = option.code /\ Unpack16(m, at + 2) = Len(option.data)
          /\ Slice(m, at + 4, Len(option.data)) = option.data
      BY <2>2, <2>6, <3>1, OptionIsRead
    <3> QED
      BY <3>2
  <2>8. option = [code |-> option.code, data |-> option.data]
    BY <2>2 DEF Options
  <2>9. /\ at \in Nat /\ ~ (at >= end) /\ ~ (at + 4 > len) /\ ~ (at + 4 + l > len) /\ at + 4 + l = next
    <3>1. at = o + q
      OBVIOUS
    <3> HIDE DEF q, k, l, len, at
    <3> QED
      BY <1>2, <1>3, <2>2, <2>3, <2>7, <3>1
  <2>10. f[at] = Before(option, f[next])
    <3> DEFINE t == Unpack16(m, at + 2)
               c == [code |-> Unpack16(m, at), data |-> Slice(m, at + 4, t)]
               r == Before(c, f[at + 4 + t])
    <3>1. f[at] = IF at >= end THEN Found(<<>>, at)
                  ELSE IF at + 4 > len THEN Failure
                  ELSE IF at + 4 + t > len THEN Failure ELSE r
      BY <1>6, <2>9
    <3>2. t = l /\ c = option
      BY <2>7, <2>8
    <3>3. r = Before(option, f[next])
      BY <2>9, <3>2
    <3> HIDE DEF r, t, next, end, len, at, option
    <3> QED
      BY <2>9, <3>1, <3>2, <3>3
  <2> QED
    BY <2>4, <2>10
<1>11. Chain(value, n, f, p, end)
  BY <1>9, <1>10 DEF Chain
<1>12. f[p[1]] = Found(value, end)
  <2>1. n = Len(value)
    OBVIOUS
  <2> HIDE DEF n, p, end
  <2> QED
    BY <1>11, <2>1, ChainIsRead
<1>13. p[1] = o
  <2>1. 1 \in 1 .. n + 1 /\ 1 - 1 = 0
    BY <1>1
  <2> QED
    BY <1>2, <1>8, <2>1
<1> QED
  BY <1>5, <1>12, <1>13

(* The fields that tell their size themselves; others fill the length of the  *)
(* body they stand in.                                                       *)
Sized == {"uint16", "uint32", "name", "plain", "ip4", "ip6"}

(* The length that is given is the one of the field, if the field needs it. *)
GivenLength(kind, length, size) == kind \in Sized \/ (length = size /\ length \in Words)

(* A field that is no name is read from the bytes it has been packed into.    *)
LEMMA LaidFieldIsRead ==
    ASSUME NEW kind, NEW value, FieldFits(kind, value), ~ IsName(kind),
           NEW m, NEW o, NEW n, BytesLaid(m, o, FieldBytes(kind, value), n),
           NEW length, GivenLength(kind, length, n)
    PROVE  UnpackField(m, o, kind, length) = Found(value, o + n)
<1>0. value \in FieldValues(kind)
  BY DEF FieldFits
<1>1. m \in Bytes /\ o \in Nat /\ n \in Nat /\ Len(m) \in Nat /\ n = Len(FieldBytes(kind, value)) /\ o + n <= Len(m)
  BY LenProperties DEF BytesLaid, Bytes
<1>2. CASE kind = "uint16"
  <2>1. value \in Words /\ value \in Nat
    <3>1. FieldValues(kind) = Words
      BY <1>2 DEF FieldValues
    <3> QED
      BY <1>0, <3>1, WordsAre
  <2>2. FieldBytes(kind, value) = Pack16(value)
    BY <1>2 DEF FieldBytes
  <2>3. n = 2
    BY <1>1, <2>1, <2>2, Pack16Properties
  <2>4. BytesLaid(m, o, Pack16(value), 2)
    BY <2>2, <2>3
  <2>5. o + 2 <= Len(m) /\ Unpack16(m, o) = value
    BY <2>1, <2>4, NumberIsRead
  <2>6. UnpackField(m, o, kind, length) = IF o + 2 > Len(m) THEN Failure ELSE Found(Unpack16(m, o), o + 2)
    BY <1>2 DEF UnpackField
  <2>7. ~ (o + 2 > Len(m))
    BY <1>1, <2>5
  <2> QED
    BY <2>3, <2>5, <2>6, <2>7
<1>3. CASE kind = "uint32"
  <2> DEFINE a == value[1]
             b == value[2]
             s == Pack16(a)
             t == Pack16(b)
             two == 2
  <2>1. value \in Words \X Words
    <3>1. FieldValues(kind) = Words \X Words
      BY <1>3 DEF FieldValues
    <3> QED
      BY <1>0, <3>1
  <2>2. a \in Words /\ b \in Words /\ a \in Nat /\ b \in Nat /\ value = <<a, b>>
    BY <2>1, WordsAre
  <2>3. FieldBytes(kind, value) = s \o t
    BY <1>3 DEF FieldBytes
  <2>4. s \in Bytes /\ t \in Bytes /\ Len(s) = two /\ Len(t) = two
    BY <2>2, Pack16Properties
  <2>5. n = 4 /\ (s \o t)[1] = s[1] /\ (s \o t)[2] = s[2] /\ (s \o t)[3] = t[1] /\ (s \o t)[4] = t[2]
    <3>1. a \in Nat /\ b \in Nat
      BY <2>2
    <3> HIDE DEF a, b
    <3>2. Len(Pack16(a) \o Pack16(b)) = 4
      BY <3>1, TwoPacked
    <3>3. /\ (Pack16(a) \o Pack16(b))[1] = Pack16(a)[1] /\ (Pack16(a) \o Pack16(b))[2] = Pack16(a)[2]
          /\ (Pack16(a) \o Pack16(b))[3] = Pack16(b)[1] /\ (Pack16(a) \o Pack16(b))[4] = Pack16(b)[2]
      BY <3>1, TwoPacked
    <3> QED
      BY <1>1, <2>3, <3>2, <3>3
  <2>6. BytesLaid(m, o, s \o t, n)
    BY <2>3
  <2> DEFINE w == s \o t
  <2>7. /\ \A x \in 1 .. two : w[0 + x] = s[x]
        /\ \A x \in 1 .. two : w[two + x] = t[x]
        /\ 0 + two <= n /\ two + two <= n
    <3> HIDE DEF w, s, t
    <3>1. \A x \in 1 .. two : x = 1 \/ x = 2
      OBVIOUS
    <3>2. w[1] = s[1] /\ w[2] = s[2] /\ w[3] = t[1] /\ w[4] = t[2]
      BY <2>5 DEF w
    <3> QED
      BY <2>5, <3>1, <3>2
  <2>8. BytesLaid(m, o + 0, s, two)
    <3> HIDE DEF s, t, two, w
    <3>1. two = Len(s) /\ BytesLaid(m, o, w, n)
      BY <2>4, <2>6 DEF w
    <3> QED
      BY <2>4, <2>7, <3>1, LaidParts
  <2>9. BytesLaid(m, o + two, t, two)
    <3>1. two = Len(t) /\ BytesLaid(m, o, w, n) /\ two \in Nat
      BY <2>4, <2>6 DEF w
    <3> HIDE DEF s, t, two, w
    <3> QED
      BY <2>4, <2>7, <3>1, LaidParts
  <2>10. Unpack16(m, o) = a
    <3>1. BytesLaid(m, o, Pack16(a), 2)
      BY <1>1, <2>8
    <3> HIDE DEF a
    <3> QED
      BY <2>2, <3>1, NumberIsRead
  <2>11. Unpack16(m, o + 2) = b
    <3>1. BytesLaid(m, o + 2, Pack16(b), 2)
      BY <2>9
    <3> HIDE DEF b
    <3> DEFINE at == o + 2
    <3>2. BytesLaid(m, at, Pack16(b), 2)
      BY <3>1
    <3> HIDE DEF at
    <3>3. Unpack16(m, at) = b
      BY <2>2, <3>2, NumberIsRead
    <3> QED
      BY <3>3 DEF at
  <2>12. UnpackField(m, o, kind, length)
            = IF o + 4 > Len(m) THEN Failure ELSE Found(<<Unpack16(m, o), Unpack16(m, o + 2)>>, o + 4)
    BY <1>3 DEF UnpackField
  <2>13. ~ (o + 4 > Len(m))
    BY <1>1, <2>5
  <2> HIDE DEF a, b
  <2> QED
    BY <2>2, <2>5, <2>10, <2>11, <2>12, <2>13
<1>4. CASE kind = "texts"
  <2>1. value \in Seq(Bytes)
    <3>1. FieldValues(kind) = Seq(Bytes)
      BY <1>4 DEF FieldValues
    <3> QED
      BY <1>0, <3>1
  <2>2. length = n
    BY <1>4 DEF GivenLength, Sized
  <2>3. FieldBytes(kind, value) = Flat(CountedLabels(value), Len(value))
    BY <1>4 DEF FieldBytes
  <2>4. UnpackField(m, o, kind, length) = UnpackTexts(m, o, length)
    BY <1>4 DEF UnpackField
  <2> QED
    BY <2>1, <2>2, <2>3, <2>4, TextsAreRead
<1>5. CASE kind = "options"
  <2>1. value \in Seq(Options)
    <3>1. FieldValues(kind) = Seq(Options)
      BY <1>5 DEF FieldValues, Options
    <3> QED
      BY <1>0, <3>1
  <2>2. length = n /\ length \in Words
    BY <1>5 DEF GivenLength, Sized
  <2>3. FieldBytes(kind, value) = Flat(OptionsBytes(value), Len(value))
    BY <1>5 DEF FieldBytes
  <2>4. UnpackField(m, o, kind, length) = UnpackOptions(m, o, length)
    BY <1>5 DEF UnpackField
  <2>5. BytesLaid(m, o, Flat(OptionsBytes(value), Len(value)), length)
    BY <2>2, <2>3
  <2>6. UnpackOptions(m, o, length) = Found(value, o + length)
    BY <2>1, <2>2, <2>5, OptionsAreRead
  <2> QED
    BY <2>2, <2>4, <2>6
<1>6. CASE kind \notin {"uint16", "uint32", "texts", "options"}
  <2>1. kind \notin {"uint16", "uint32", "name", "plain", "texts", "options"}
    BY <1>6 DEF IsName
  <2>2. FieldBytes(kind, value) = value
    BY <2>1 DEF FieldBytes
  <2>3. UnpackField(m, o, kind, length) = UnpackBytes(m, o, SizeOf(kind, length))
    BY <2>1 DEF UnpackField
  <2>4. SizeOf(kind, length) = n
    <3>1. kind = "ip4" => FieldValues(kind) = {b \in Bytes : Len(b) = 4}
      BY DEF FieldValues
    <3>2. kind = "ip6" => FieldValues(kind) = {b \in Bytes : Len(b) = 16}
      BY DEF FieldValues
    <3>3. n = Len(value)
      BY <1>1, <2>2
    <3>4. CASE kind = "ip4"
      BY <1>0, <3>1, <3>3, <3>4 DEF SizeOf
    <3>5. CASE kind = "ip6"
      BY <1>0, <3>2, <3>3, <3>5 DEF SizeOf
    <3>6. CASE kind \notin {"ip4", "ip6"}
      <4>1. SizeOf(kind, length) = length
        BY <3>6 DEF SizeOf
      <4>2. length = n
        BY <2>1, <3>6 DEF GivenLength, Sized
      <4> QED
        BY <4>1, <4>2
    <3> QED
      BY <3>4, <3>5, <3>6
  <2>5. UnpackBytes(m, o, n) = Found(value, o + n)
    BY <2>2, BytesAreRead
  <2> QED
    BY <2>3, <2>4, <2>5
<1> QED
  BY <1>2, <1>3, <1>4, <1>5, <1>6

(* A field that has been packed is read from every message that agrees.       *)
LEMMA FieldIsRead ==
    ASSUME NEW out, NEW holes, Packing(out, holes), NEW kind, NEW value, FieldFits(kind, value),
           NEW new, new = PackField(out, kind, value), new.ok,
           NEW length, GivenLength(kind, length, Size(new) - Size(out)),
           NEW m, Agrees(m, Size(new), holes, new.msg, new.start)
    PROVE  UnpackField(m, Size(out), kind, length) = Found(value, Size(new))
<1>1. out \in Outs
  BY DEF Packing
<1>2. CASE IsName(kind)
  <2> DEFINE c == out.compress /\ kind = "name"
             k == IF kind = "name" THEN MaxPointers ELSE 0
             found == LabelsFrom(m, Size(out), k)
  <2>1. new = PackName(out, value, c)
    BY <1>2 DEF PackField, IsName
  <2>2. value \in Names /\ Len(value) <= MaxPointers
    <3>1. FieldValues(kind) = Names
      BY <1>2 DEF FieldValues, IsName
    <3> QED
      BY <1>2, <3>1 DEF FieldFits
  <2>3. c \in BOOLEAN /\ k \in Nat /\ (c => Len(value) <= k)
    BY <2>2, PointerAssumption
  <2>4. UnpackField(m, Size(out), kind, length) = ShortEnough(found)
    <3>1. UnpackField(m, Size(out), kind, length) = UnpackName(m, Size(out), kind = "name")
      BY <1>2 DEF UnpackField, IsName
    <3> QED
      BY <3>1 DEF UnpackName
  <2>5. m \in Bytes
    BY DEF Agrees
  <2> HIDE DEF c, k
  <2>6. NameStands(out, value, c, new, holes)
    BY <1>1, <2>1, <2>2, <2>3, PackNameStands
  <2>7. found = Found(value, Size(new))
    BY <2>3, <2>5, <2>6 DEF NameStands
  <2>8. found.value = value /\ value \in Seq(Bytes) /\ TextLength(value) <= MaxName
    BY <2>2, <2>7 DEF Found, Names
  <2> HIDE DEF found
  <2>9. ShortEnough(found) = found
    BY <2>8, ShortName
  <2> QED
    BY <2>4, <2>7, <2>9
<1>3. CASE ~ IsName(kind)
  <2> DEFINE b == FieldBytes(kind, value)
             n == Len(b)
             o == Size(out)
  <2>1. new = Emit(out, b) /\ b \in Bytes
    BY <1>1, <1>3, FieldEmitted
  <2>2. n \in Nat /\ o \in Nat
    BY <2>1, SizeIs, LenProperties DEF Bytes
  <2>3. BytesLaid(m, o, b, n) /\ Size(new) = o + n
    <3> HIDE DEF b
    <3>1. BytesStand(out, b, new, holes, {})
      BY <2>1, EmitStands
    <3> QED
      BY <2>1, <3>1, EmittedIsLaid
  <2>4. Size(new) - o = n
    <3> HIDE DEF n, o
    <3> QED
      BY <2>2, <2>3
  <2>5. GivenLength(kind, length, n)
    BY <2>4
  <2>6. BytesLaid(m, o, FieldBytes(kind, value), n)
    BY <2>3
  <2> HIDE DEF n, o
  <2>7. UnpackField(m, o, kind, length) = Found(value, o + n)
    BY <1>3, <2>5, <2>6, LaidFieldIsRead
  <2> QED
    BY <2>3, <2>7 DEF o
<1> QED
  BY <1>2, <1>3

(* The recursion of UnpackFields, and what it finds field by field.           *)
UnpackStep(msg, off, layout, length, k, f) ==
    [i \in 0 .. k |-> IF i = 0 THEN Found(<<>>, off) ELSE UnpackNext(msg, f[i - 1], layout[i], length)]

(* The results of reading the fields of a layout one after the other.       *)
UnpackRun(msg, off, layout, length, k, f) ==
    f[0] = Found(<<>>, off) /\ \A i \in 1 .. k : f[i] = UnpackNext(msg, f[i - 1], layout[i], length)

(* There is such a run.                                                     *)
LEMMA UnpackRunExists ==
    ASSUME NEW msg, NEW off, NEW layout, NEW length, NEW n \in Nat
    PROVE  \E f : f = UnpackStep(msg, off, layout, length, n, f)
<1> DEFINE first == Found(<<>>, off)
           S == {k \in 0 .. n : \E f : f = UnpackStep(msg, off, layout, length, k, f)}
<1>1. 0 \in S
  <2> DEFINE f == [i \in 0 .. 0 |-> first]
  <2>1. f = UnpackStep(msg, off, layout, length, 0, f)
    <3>1. \A i \in 0 .. 0 : i = 0
      OBVIOUS
    <3> QED
      BY <3>1 DEF UnpackStep
  <2> HIDE DEF f
  <2>2. 0 \in 0 .. n
    OBVIOUS
  <2> QED
    BY <2>1, <2>2
<1>2. ASSUME NEW k \in 0 .. n - 1, k \in S PROVE k + 1 \in S
  <2>1. PICK f : f = UnpackStep(msg, off, layout, length, k, f)
    BY <1>2
  <2> DEFINE j == k + 1
             g == [i \in 0 .. j |-> IF i = j THEN UnpackNext(msg, f[k], layout[j], length) ELSE f[i]]
             h == UnpackStep(msg, off, layout, length, j, g)
  <2>2. k \in Nat /\ j \in 0 .. n /\ j \in Nat /\ j - 1 = k /\ j # 0
    OBVIOUS
  <2>3. h = [i \in 0 .. j |-> IF i = 0 THEN first ELSE UnpackNext(msg, g[i - 1], layout[i], length)]
    BY DEF UnpackStep
  <2>4. \A i \in 0 .. k : f[i] = IF i = 0 THEN first ELSE UnpackNext(msg, f[i - 1], layout[i], length)
    BY <2>1 DEF UnpackStep
  <2>5. ASSUME NEW i \in 0 .. j PROVE g[i] = h[i]
    <3> HIDE DEF j, h
    <3>1. CASE i = 0
      <4>1. i # j /\ i \in 0 .. k
        BY <2>2, <3>1
      <4>2. g[i] = f[i] /\ f[i] = first
        BY <2>4, <3>1, <4>1
      <4>3. h[i] = first
        BY <2>3, <3>1
      <4> QED
        BY <4>2, <4>3
    <3>2. CASE i # 0 /\ i # j
      <4>1. i \in 0 .. k /\ i - 1 \in 0 .. j /\ i - 1 # j
        BY <2>2, <3>2
      <4>2. g[i] = f[i] /\ g[i - 1] = f[i - 1]
        BY <3>2, <4>1
      <4>3. f[i] = UnpackNext(msg, f[i - 1], layout[i], length)
        BY <2>4, <3>2, <4>1
      <4>4. h[i] = UnpackNext(msg, g[i - 1], layout[i], length)
        BY <2>3, <3>2
      <4> QED
        BY <4>2, <4>3, <4>4
    <3>3. CASE i = j
      <4>1. i - 1 = k /\ k \in 0 .. j /\ k # j /\ i # 0
        BY <2>2, <3>3
      <4>2. g[k] = f[k] /\ g[i] = UnpackNext(msg, f[k], layout[j], length)
        BY <3>3, <4>1
      <4>3. h[i] = UnpackNext(msg, g[i - 1], layout[i], length)
        BY <2>3, <4>1
      <4> QED
        BY <3>3, <4>1, <4>2, <4>3
    <3> QED
      BY <3>1, <3>2, <3>3
  <2>6. g = h
    <3> HIDE DEF j
    <3>1. g = [i \in 0 .. j |-> g[i]] /\ h = [i \in 0 .. j |-> h[i]]
      BY DEF UnpackStep
    <3> HIDE DEF g, h
    <3>2. [i \in 0 .. j |-> g[i]] = [i \in 0 .. j |-> h[i]]
      BY <2>5
    <3> QED
      BY <3>1, <3>2
  <2>7. \E e : e = UnpackStep(msg, off, layout, length, j, e)
    <3> HIDE DEF g, j
    <3> QED
      BY <2>6
  <2> QED
    BY <2>2, <2>7
<1> HIDE DEF S
<1>3. 0 .. n \subseteq S
  BY <1>1, <1>2, UpToBound
<1>4. n \in S
  BY <1>3
<1> QED
  BY <1>4 DEF S

(* Reading the fields of a layout is such a run.                            *)
LEMMA UnpackFieldsIs ==
    ASSUME NEW msg, NEW off, NEW layout, NEW length, NEW n \in Nat, Len(layout) = n
    PROVE  \E f : UnpackRun(msg, off, layout, length, n, f) /\ UnpackFields(msg, off, layout, length) = f[n]
<1> DEFINE g == CHOOSE f : f = UnpackStep(msg, off, layout, length, n, f)
<1>1. g = UnpackStep(msg, off, layout, length, n, g)
  BY UnpackRunExists
<1>2. UnpackFields(msg, off, layout, length) = g[n]
  BY DEF UnpackFields, UnpackStep
<1> HIDE DEF g
<1>3. 0 \in 0 .. n /\ \A i \in 1 .. n : i \in 0 .. n /\ i # 0
  OBVIOUS
<1>4. UnpackRun(msg, off, layout, length, n, g)
  BY <1>1, <1>3 DEF UnpackRun, UnpackStep
<1> QED
  BY <1>2, <1>4

(* The first i of some values.                                              *)
Firsts(values, i) == [j \in 1 .. i |-> values[j]]

(* One value more.                                                          *)
LEMMA FirstsGrow ==
    ASSUME NEW values, NEW i \in Nat
    PROVE  Append(Firsts(values, i), values[i + 1]) = Firsts(values, i + 1)
<1> DEFINE n == i + 1
           V == {values[j] : j \in 1 .. n}
           s == Firsts(values, i)
           t == Firsts(values, n)
           e == values[n]
           u == Append(s, e)
<1>1. n \in Nat /\ n \in 1 .. n /\ (\A j \in 1 .. i : j \in 1 .. n) /\ \A j \in 1 .. n : j \in 1 .. i \/ j = n
  OBVIOUS
<1> HIDE DEF n
<1>2. s \in [1 .. i -> V] /\ t \in [1 .. n -> V] /\ e \in V
  BY <1>1 DEF Firsts
<1>3. s \in Seq(V) /\ Len(s) = i /\ t \in Seq(V) /\ Len(t) = n
  <2> HIDE DEF V, s, t
  <2>1. s \in Seq(V) /\ DOMAIN s = 1 .. i /\ t \in Seq(V) /\ DOMAIN t = 1 .. n
    BY <1>1, <1>2, SeqDef
  <2> QED
    BY <1>1, <2>1, LenProperties
<1>4. \A j \in 1 .. i : s[j] = values[j]
  BY DEF Firsts
<1>5. \A j \in 1 .. n : t[j] = values[j]
  BY DEF Firsts
<1>6. u \in Seq(V) /\ Len(u) = i + 1 /\ (\A j \in 1 .. i : u[j] = s[j]) /\ u[i + 1] = e
  <2> HIDE DEF V, s, e
  <2>1. u \in Seq(V) /\ Len(u) = Len(s) + 1 /\ (\A j \in 1 .. Len(s) : u[j] = s[j]) /\ u[Len(s) + 1] = e
    BY <1>2, <1>3, AppendProperties
  <2> QED
    BY <1>3, <2>1
<1>7. n = i + 1
  BY DEF n
<1>8. \A j \in 1 .. n : u[j] = t[j]
  BY <1>1, <1>4, <1>5, <1>6, <1>7
<1> HIDE DEF u, t, V, s, e
<1>9. u = t
  <2>1. Len(u) = Len(t) /\ \A j \in 1 .. Len(u) : u[j] = t[j]
    BY <1>3, <1>6, <1>7, <1>8
  <2> QED
    BY <1>3, <1>6, <2>1, SeqEqual
<1> QED
  BY <1>9 DEF u, t, s, e, n

(* What agrees with a message agrees with what it was packed on to.           *)
LEMMA AgreesBefore ==
    ASSUME NEW out, NEW holes, Packing(out, holes), NEW new, Packing(new, holes), Extends(new, out),
           NEW m, Agrees(m, Size(new), holes, new.msg, new.start)
    PROVE  Agrees(m, Size(out), holes, out.msg, out.start)
<1> DEFINE n == Size(out)
           n2 == Size(new)
           s == out.start
           a == out.msg
           b == new.msg
<1>1. n \in Nat /\ n2 \in Nat /\ n <= n2
  BY ExtendsSize
<1>2. new.start = s
  BY DEF Extends
<1>3. Keeps(n, holes, a, holes, b, s)
  <2>1. ASSUME NEW x \in 1 .. n PROVE b[s + x] = a[s + x]
    <3>1. s + x \in 1 .. Len(a)
      BY SizeIs
    <3> QED
      BY <3>1 DEF Extends
  <2> QED
    BY <2>1 DEF Keeps
<1>4. Agrees(m, n2, holes, b, s)
  BY <1>2
<1> HIDE DEF n, n2, s, a, b
<1>5. Agrees(m, n, holes, a, s)
  BY <1>1, <1>3, <1>4, AgreesLess
<1> QED
  BY <1>5 DEF n, a, s

(* The fields that fill a body are alone in it.                              *)
LengthsGiven(layout, length, n, f) ==
    \A i \in 1 .. n : GivenLength(layout[i], length, Size(f[i]) - Size(f[i - 1]))

(* Fields that have been packed one after the other are read in that order.    *)
LEMMA FirstFieldsAreRead ==
    ASSUME NEW out, NEW holes, NEW layout, NEW values, NEW n \in Nat, NEW f,
           FieldsPacked(out, layout, values, n, f, holes),
           NEW length, LengthsGiven(layout, length, n, f),
           NEW m, Agrees(m, Size(f[n]), holes, f[n].msg, f[n].start),
           NEW r, UnpackRun(m, Size(out), layout, length, n, r)
    PROVE  r[n] = Found(Firsts(values, n), Size(f[n]))
<1> DEFINE off == Size(out)
<1>2. r[0] = Found(<<>>, off) /\ \A i \in 1 .. n : r[i] = UnpackNext(m, r[i - 1], layout[i], length)
  BY DEF UnpackRun
<1>3. /\ f[0] = out
      /\ \A i \in 1 .. n : f[i] = PackField(f[i - 1], layout[i], values[i]) /\ FieldFits(layout[i], values[i])
      /\ \A i \in 0 .. n : Packing(f[i], holes)
      /\ \A i \in 0 .. n : Extends(f[n], f[i])
  <2>1. n \in 0 .. n
    OBVIOUS
  <2> QED
    BY <2>1 DEF FieldsPacked
<1>4. \A i \in 0 .. n : Agrees(m, Size(f[i]), holes, f[i].msg, f[i].start)
  <2> TAKE i \in 0 .. n
  <2>1. Packing(f[i], holes) /\ Packing(f[n], holes) /\ Extends(f[n], f[i])
    <3>1. n \in 0 .. n
      OBVIOUS
    <3> QED
      BY <1>3, <3>1
  <2> QED
    BY <2>1, AgreesBefore
<1> DEFINE S == {i \in 0 .. n : r[i] = Found(Firsts(values, i), Size(f[i]))}
<1>5. 0 \in S
  <2>1. Firsts(values, 0) = <<>>
    <3>1. 1 .. 0 = {}
      OBVIOUS
    <3> QED
      BY <3>1 DEF Firsts
  <2>2. 0 \in 0 .. n
    OBVIOUS
  <2> QED
    BY <1>2, <1>3, <2>1, <2>2
<1>6. ASSUME NEW d \in 0 .. n - 1, d \in S PROVE d + 1 \in S
  <2>1. PICK i \in 1 .. n : i = d + 1 /\ i - 1 = d /\ i \in 0 .. n /\ d \in 0 .. n /\ d \in Nat
    <3>1. d + 1 \in 1 .. n /\ (d + 1) - 1 = d /\ d + 1 \in 0 .. n /\ d \in 0 .. n /\ d \in Nat
      OBVIOUS
    <3> QED
      BY <3>1
  <2> DEFINE kind == layout[i]
             value == values[i]
             mid == f[d]
             new == f[i]
             field == UnpackField(m, Size(mid), kind, length)
  <2>2. r[d] = Found(Firsts(values, d), Size(mid)) /\ r[i] = UnpackNext(m, r[d], kind, length)
    BY <1>2, <1>6, <2>1
  <2>3. field = Found(value, Size(new))
    <3>1. Packing(mid, holes) /\ new = PackField(mid, kind, value) /\ FieldFits(kind, value) /\ new.ok
      BY <1>3, <2>1 DEF Packing
    <3>2. GivenLength(kind, length, Size(new) - Size(mid))
      BY <2>1 DEF LengthsGiven
    <3>3. Agrees(m, Size(new), holes, new.msg, new.start)
      BY <1>4, <2>1
    <3> HIDE DEF mid, new, kind, value
    <3> QED
      BY <3>1, <3>2, <3>3, FieldIsRead
  <2> DEFINE before == Firsts(values, d)
  <2>4. r[i] = Found(Append(before, value), Size(new))
    <3>1. r[d].ok /\ r[d].value = before /\ r[d].next = Size(mid)
      BY <2>2 DEF Found
    <3>2. r[i] = After(r[d], field)
      BY <2>2, <3>1 DEF UnpackNext
    <3>3. field.ok /\ field.value = value /\ field.next = Size(new)
      BY <2>3 DEF Found
    <3> HIDE DEF field, before, value, new, mid
    <3> QED
      BY <3>1, <3>2, <3>3 DEF After
  <2>5. Append(before, value) = Firsts(values, i)
    <3>1. Append(Firsts(values, d), values[d + 1]) = Firsts(values, d + 1)
      BY <2>1, FirstsGrow
    <3> QED
      BY <2>1, <3>1
  <2>6. i \in S
    BY <2>1, <2>4, <2>5
  <2> QED
    BY <2>1, <2>6
<1> HIDE DEF S
<1>7. 0 .. n \subseteq S
  BY <1>5, <1>6, UpToBound
<1>8. n \in S
  BY <1>7
<1> QED
  BY <1>8 DEF S

(* The fields that have been packed are read, one by one.                   *)
LEMMA FieldsAreRead ==
    ASSUME NEW out, NEW holes, NEW layout, NEW values, NEW n \in Nat, Len(layout) = n, NEW f,
           FieldsPacked(out, layout, values, n, f, holes),
           NEW length, LengthsGiven(layout, length, n, f),
           NEW m, Agrees(m, Size(f[n]), holes, f[n].msg, f[n].start)
    PROVE  UnpackFields(m, Size(out), layout, length) = Found(Firsts(values, n), Size(f[n]))
<1> DEFINE off == Size(out)
<1>1. PICK r : UnpackRun(m, off, layout, length, n, r) /\ UnpackFields(m, off, layout, length) = r[n]
  BY UnpackFieldsIs
<1>2. UnpackRun(m, Size(out), layout, length, n, r)
  BY <1>1
<1> QED
  BY <1>1, <1>2, FirstFieldsAreRead

(* A field that is no name takes as many bytes as it has been packed into.    *)
LEMMA FieldSize ==
    ASSUME NEW out, NEW holes, Packing(out, holes), NEW kind, NEW value, FieldFits(kind, value), ~ IsName(kind),
           NEW new, new = PackField(out, kind, value), new.ok
    PROVE  Size(new) = Size(out) + Len(FieldBytes(kind, value))
<1> DEFINE b == FieldBytes(kind, value)
<1>1. out \in Outs
  BY DEF Packing
<1>2. new = Emit(out, b) /\ b \in Bytes
  BY <1>1, FieldEmitted
<1> HIDE DEF b
<1>3. BytesStand(out, b, new, holes, {})
  BY <1>2, EmitStands
<1> QED
  BY <1>3 DEF BytesStand, b

(* A number takes two bytes.                                                *)
LEMMA NumberSize ==
    ASSUME NEW out, NEW holes, Packing(out, holes), NEW value, FieldFits("uint16", value),
           NEW new, new = PackField(out, "uint16", value), new.ok
    PROVE  Size(new) = Size(out) + 2
<1>1. value \in Nat
  <2>1. value \in FieldValues("uint16")
    BY DEF FieldFits
  <2>2. FieldValues("uint16") = Words
    BY DEF FieldValues
  <2> QED
    BY <2>1, <2>2, WordsAre
<1>2. FieldBytes("uint16", value) = Pack16(value)
  BY DEF FieldBytes
<1>3. ~ IsName("uint16")
  BY DEF IsName
<1> DEFINE kind == "uint16"
<1>4. FieldFits(kind, value) /\ ~ IsName(kind) /\ new = PackField(out, kind, value)
  BY <1>3
<1> HIDE DEF kind
<1>5. Size(new) = Size(out) + Len(FieldBytes(kind, value))
  BY <1>4, FieldSize
<1>6. FieldBytes(kind, value) = Pack16(value)
  BY <1>2 DEF kind
<1>7. Len(Pack16(value)) = 2
  BY <1>1, Pack16Properties
<1> QED
  BY <1>5, <1>6, <1>7

(* A pair of numbers takes four bytes.                                      *)
LEMMA PairSize ==
    ASSUME NEW out, NEW holes, Packing(out, holes), NEW value, FieldFits("uint32", value),
           NEW new, new = PackField(out, "uint32", value), new.ok
    PROVE  Size(new) = Size(out) + 4
<1>1. value[1] \in Nat /\ value[2] \in Nat
  <2>1. value \in FieldValues("uint32")
    BY DEF FieldFits
  <2>2. FieldValues("uint32") = Words \X Words
    BY DEF FieldValues
  <2> QED
    BY <2>1, <2>2, WordsAre
<1>2. FieldBytes("uint32", value) = Pack16(value[1]) \o Pack16(value[2])
  BY DEF FieldBytes
<1>3. ~ IsName("uint32")
  BY DEF IsName
<1> DEFINE kind == "uint32"
<1>4. FieldFits(kind, value) /\ ~ IsName(kind) /\ new = PackField(out, kind, value)
  BY <1>3
<1> HIDE DEF kind
<1>5. Size(new) = Size(out) + Len(FieldBytes(kind, value))
  BY <1>4, FieldSize
<1>6. FieldBytes(kind, value) = Pack16(value[1]) \o Pack16(value[2])
  BY <1>2 DEF kind
<1>7. Len(Pack16(value[1]) \o Pack16(value[2])) = 4
  BY <1>1, TwoPacked
<1> QED
  BY <1>5, <1>6, <1>7

(* What has been packed is there in a message that agrees.                   *)
LEMMA AgreesLong ==
    ASSUME NEW out, NEW holes, Packing(out, holes), NEW m, Agrees(m, Size(out), holes, out.msg, out.start)
    PROVE  Size(out) \in Nat /\ Len(m) \in Nat /\ Size(out) <= Len(m) /\ m \in Bytes
<1>1. m \in Bytes /\ Size(out) <= Len(m)
  BY DEF Agrees
<1> QED
  BY <1>1, SizeIs, LenProperties DEF Bytes

(* A name that has been packed can be skipped.                               *)
LEMMA NameIsSkipped ==
    ASSUME NEW out, NEW holes, Packing(out, holes), NEW value, FieldFits("name", value),
           NEW new, new = PackField(out, "name", value), new.ok,
           NEW m, Agrees(m, Size(new), holes, new.msg, new.start)
    PROVE  SkipName(m, Size(out)) = Found(<<>>, Size(new)) /\ Size(out) < Size(new)
<1> DEFINE c == out.compress /\ "name" = "name"
<1>1. new = PackName(out, value, c) /\ c \in BOOLEAN
  BY DEF PackField
<1>2. out \in Outs /\ Size(out) \in Nat
  BY SizeIs DEF Packing
<1>3. value \in Names /\ Len(value) <= MaxPointers /\ MaxPointers \in Nat
  <2>1. FieldValues("name") = Names
    BY DEF FieldValues
  <2>2. IsName("name")
    BY DEF IsName
  <2> QED
    BY <2>1, <2>2, PointerAssumption DEF FieldFits
<1> HIDE DEF c
<1>4. NameStands(out, value, c, new, holes)
  BY <1>1, <1>2, <1>3, PackNameStands
<1> DEFINE found == LabelsFrom(m, Size(out), MaxPointers)
<1>5. m \in Bytes /\ found = Found(value, Size(new))
  <2>1. m \in Bytes
    BY DEF Agrees
  <2>2. c => Len(value) <= MaxPointers
    BY <1>3
  <2> QED
    BY <1>3, <1>4, <2>1, <2>2 DEF NameStands
<1>6. found.ok /\ found.next = Size(new)
  BY <1>5 DEF Found
<1>7. SkipName(m, Size(out)) = Found(<<>>, found.next)
  BY <1>2, <1>3, <1>5, <1>6, ReadIsSkipped
<1> QED
  BY <1>4, <1>6, <1>7 DEF NameStands

(* A question that has been packed is read and skipped.                       *)
LEMMA QuestionIsRead ==
    ASSUME NEW out, NEW holes, NEW q, q = Firsts(q, 3), NEW f, FieldsPacked(out, QuestionFields, q, 3, f, holes),
           NEW m, Agrees(m, Size(f[3]), holes, f[3].msg, f[3].start)
    PROVE  /\ UnpackFields(m, Size(out), QuestionFields, 0) = Found(q, Size(f[3]))
           /\ SkipQuestionAt(m, Size(out)) = Found(<<>>, Size(f[3]))
           /\ Size(out) < Size(f[3])
<1> DEFINE new == f[3]
<1>1. /\ f[0] = out /\ Packing(out, holes) /\ Packing(f[1], holes) /\ Packing(f[2], holes) /\ Packing(new, holes)
      /\ Extends(new, f[1])
  <2>1. 0 \in 0 .. 3 /\ 1 \in 0 .. 3 /\ 2 \in 0 .. 3 /\ 3 \in 0 .. 3 /\ 1 \in 0 .. 3
    OBVIOUS
  <2> QED
    BY <2>1 DEF FieldsPacked
<1>2. /\ f[1] = PackField(out, "name", q[1]) /\ FieldFits("name", q[1])
      /\ f[2] = PackField(f[1], "uint16", q[2]) /\ FieldFits("uint16", q[2])
      /\ new = PackField(f[2], "uint16", q[3]) /\ FieldFits("uint16", q[3])
  <2>1. 1 \in 1 .. 3 /\ 2 \in 1 .. 3 /\ 3 \in 1 .. 3 /\ 1 - 1 = 0 /\ 2 - 1 = 1 /\ 3 - 1 = 2
    OBVIOUS
  <2> QED
    BY <1>1, <2>1, LayoutLengths DEF FieldsPacked
<1>3. f[1].ok /\ f[2].ok /\ new.ok
  BY <1>1 DEF Packing
<1> HIDE DEF new
<1>4. Size(f[2]) = Size(f[1]) + 2 /\ Size(new) = Size(f[2]) + 2
  <2>1. Size(f[2]) = Size(f[1]) + 2
    BY <1>1, <1>2, <1>3, NumberSize
  <2>2. Size(new) = Size(f[2]) + 2
    BY <1>1, <1>2, <1>3, NumberSize
  <2> QED
    BY <2>1, <2>2
<1>5. Agrees(m, Size(new), holes, new.msg, new.start)
  BY DEF new
<1>6. Agrees(m, Size(f[1]), holes, f[1].msg, f[1].start)
  BY <1>1, <1>5, AgreesBefore
<1>7. SkipName(m, Size(out)) = Found(<<>>, Size(f[1])) /\ Size(out) < Size(f[1])
  BY <1>1, <1>2, <1>3, <1>6, NameIsSkipped
<1>8. /\ Size(f[1]) \in Nat /\ Size(new) \in Nat /\ Len(m) \in Nat /\ Size(new) <= Len(m) /\ Size(out) \in Nat
  BY <1>1, <1>5, AgreesLong, SizeIs
<1> DEFINE a == Size(f[1])
           b == Size(new)
           l == Len(m)
<1>9. Size(f[1]) + 4 = b
  <2>1. a \in Nat /\ Size(f[2]) = a + 2 /\ b = Size(f[2]) + 2
    BY <1>4, <1>8
  <2> HIDE DEF a, b
  <2>2. b = a + 4
    BY <2>1
  <2> QED
    BY <2>2 DEF a
<1>10. SkipQuestionAt(m, Size(out)) = Found(<<>>, b)
  <2> DEFINE name == Found(<<>>, a)
  <2>1. name.ok /\ name.next = a
    BY DEF Found
  <2>2. SkipQuestionAt(m, Size(out)) = PastType(m, name)
    BY <1>7 DEF SkipQuestionAt
  <2> HIDE DEF name
  <2>3. PastType(m, name) = SkipTo(m, b)
    BY <1>9, <2>1 DEF PastType
  <2> HIDE DEF b
  <2>4. SkipTo(m, b) = Found(<<>>, b)
    BY <1>8 DEF SkipTo, b
  <2> QED
    BY <2>2, <2>3, <2>4
<1>11. LengthsGiven(QuestionFields, 0, 3, f)
  <2>1. \A i \in 1 .. 3 : QuestionFields[i] \in Sized
    <3>1. \A i \in 1 .. 3 : i = 1 \/ i = 2 \/ i = 3
      OBVIOUS
    <3> QED
      BY <3>1, LayoutLengths DEF Sized
  <2> QED
    BY <2>1 DEF LengthsGiven, GivenLength
<1>12. UnpackFields(m, Size(out), QuestionFields, 0) = Found(Firsts(q, 3), Size(f[3]))
  <2> DEFINE n == 3
  <2>1. n \in Nat /\ Len(QuestionFields) = n
    BY LayoutLengths
  <2>2. FieldsPacked(out, QuestionFields, q, n, f, holes) /\ LengthsGiven(QuestionFields, 0, n, f)
        /\ Agrees(m, Size(f[n]), holes, f[n].msg, f[n].start)
    BY <1>11
  <2> HIDE DEF n
  <2>3. UnpackFields(m, Size(out), QuestionFields, 0) = Found(Firsts(q, n), Size(f[n]))
    BY <2>1, <2>2, FieldsAreRead
  <2> QED
    BY <2>3 DEF n
<1>13. Size(out) < b
  <2>1. a \in Nat /\ b \in Nat /\ a + 4 = b /\ Size(out) < a /\ Size(out) \in Nat
    BY <1>7, <1>8, <1>9
  <2> HIDE DEF a, b
  <2> QED
    BY <2>1
<1> QED
  BY <1>10, <1>12, <1>13 DEF new, b

(* The fields of a body tell their sizes, or it has only one.                 *)
LEMMA BodyKinds ==
    ASSUME NEW type
    PROVE  /\ Len(BodyFields(type)) \in Nat
           /\ Len(BodyFields(type)) = 1 \/ \A i \in 1 .. Len(BodyFields(type)) : BodyFields(type)[i] \in Sized
<1> USE DEF TypeA, TypeNS, TypeCNAME, TypeSOA, TypePTR, TypeMX, TypeTXT, TypeAAAA, TypeSRV, TypeOPT
<1>1. CASE type \in {TypeCNAME, TypeNS, TypePTR}
  <2>1. BodyFields(type) = <<"name">>
    BY <1>1 DEF BodyFields, AliasFields
  <2> QED
    BY <2>1
<1>2. CASE type \notin {TypeCNAME, TypeNS, TypePTR}
  <2>1. CASE type = TypeMX
    <3>1. BodyFields(type) = MXFields
      BY <2>1 DEF BodyFields
    <3> QED
      BY <3>1 DEF MXFields, Sized
  <2>2. CASE type = TypeSOA
    <3>1. BodyFields(type) = SOAFields
      BY <2>2 DEF BodyFields
    <3>2. Len(SOAFields) = 7 /\ \A i \in 1 .. 7 : SOAFields[i] \in Sized
      <4>1. \A i \in 1 .. 7 : i = 1 \/ i = 2 \/ i = 3 \/ i = 4 \/ i = 5 \/ i = 6 \/ i = 7
        OBVIOUS
      <4> QED
        BY <4>1 DEF SOAFields, Sized
    <3> QED
      BY <3>1, <3>2
  <2>3. CASE type = TypeSRV
    <3>1. BodyFields(type) = SRVFields
      BY <2>3 DEF BodyFields
    <3> QED
      BY <3>1 DEF SRVFields, Sized
  <2>4. CASE type = TypeTXT
    <3>1. BodyFields(type) = <<"texts">>
      BY <2>4 DEF BodyFields
    <3> QED
      BY <3>1
  <2>5. CASE type = TypeA
    <3>1. BodyFields(type) = <<"ip4">>
      BY <2>5 DEF BodyFields
    <3> QED
      BY <3>1
  <2>6. CASE type = TypeAAAA
    <3>1. BodyFields(type) = <<"ip6">>
      BY <2>6 DEF BodyFields
    <3> QED
      BY <3>1
  <2>7. CASE type = TypeOPT
    <3>1. BodyFields(type) = <<"options">>
      BY <2>7 DEF BodyFields
    <3> QED
      BY <3>1
  <2>8. CASE type \notin {TypeMX, TypeSOA, TypeSRV, TypeTXT, TypeA, TypeAAAA, TypeOPT}
    <3>1. BodyFields(type) = <<"bytes">>
      BY <1>2, <2>8 DEF BodyFields
    <3> QED
      BY <3>1
  <2> QED
    BY <2>1, <2>2, <2>3, <2>4, <2>5, <2>6, <2>7, <2>8
<1> QED
  BY <1>1, <1>2

(* A record in a message that agrees: its header ends at mid, its body at end. *)
RecordLies(out, r, f, g, n, new, holes, m) ==
    /\ Packing(out, holes) /\ RecordPacked(out, r, f, g, n, new, holes)
    /\ Agrees(m, Size(new), holes, new.msg, new.start)

(* The steps of the header, one by one.                                      *)
LEMMA HeaderSteps ==
    ASSUME NEW out, NEW holes, NEW r, NEW f, FieldsPacked(out, RecordHeader, HeaderValues(r), 5, f, holes)
    PROVE  /\ f[0] = out /\ Packing(out, holes)
           /\ f[1] = PackField(out, "name", r.name) /\ FieldFits("name", r.name) /\ f[1].ok
           /\ Packing(f[1], holes) /\ Extends(f[4], f[1]) /\ Packing(f[4], holes)
           /\ Size(f[1]) \in Nat /\ Size(f[4]) = Size(f[1]) + 8 /\ Size(f[5]) = Size(f[1]) + 10
<1>1. f[0] = out /\ Packing(f[0], holes) /\ Packing(f[1], holes) /\ Packing(f[2], holes) /\ Packing(f[3], holes)
      /\ Packing(f[4], holes) /\ Extends(f[4], f[1])
  <2>1. 0 \in 0 .. 5 /\ 1 \in 0 .. 5 /\ 2 \in 0 .. 5 /\ 3 \in 0 .. 5 /\ 4 \in 0 .. 5 /\ 1 \in 0 .. 4
    OBVIOUS
  <2> QED
    BY <2>1 DEF FieldsPacked
<1>2. /\ f[1] = PackField(out, "name", r.name) /\ FieldFits("name", r.name)
      /\ f[2] = PackField(f[1], "uint16", r.type) /\ FieldFits("uint16", r.type)
      /\ f[3] = PackField(f[2], "uint16", r.class) /\ FieldFits("uint16", r.class)
      /\ f[4] = PackField(f[3], "uint32", r.ttl) /\ FieldFits("uint32", r.ttl)
  <2>1. /\ 1 \in 1 .. 5 /\ 2 \in 1 .. 5 /\ 3 \in 1 .. 5 /\ 4 \in 1 .. 5
        /\ 1 - 1 = 0 /\ 2 - 1 = 1 /\ 3 - 1 = 2 /\ 4 - 1 = 3
    OBVIOUS
  <2>2. /\ HeaderValues(r)[1] = r.name /\ HeaderValues(r)[2] = r.type /\ HeaderValues(r)[3] = r.class
        /\ HeaderValues(r)[4] = r.ttl
    BY DEF HeaderValues
  <2>3. \A i \in 1 .. 5 : /\ f[i] = PackField(f[i - 1], RecordHeader[i], HeaderValues(r)[i])
                          /\ FieldFits(RecordHeader[i], HeaderValues(r)[i])
    BY DEF FieldsPacked
  <2>4. /\ f[1] = PackField(f[0], RecordHeader[1], HeaderValues(r)[1]) /\ FieldFits(RecordHeader[1], HeaderValues(r)[1])
        /\ f[2] = PackField(f[1], RecordHeader[2], HeaderValues(r)[2]) /\ FieldFits(RecordHeader[2], HeaderValues(r)[2])
    BY <2>1, <2>3
  <2>5. /\ f[3] = PackField(f[2], RecordHeader[3], HeaderValues(r)[3]) /\ FieldFits(RecordHeader[3], HeaderValues(r)[3])
        /\ f[4] = PackField(f[3], RecordHeader[4], HeaderValues(r)[4]) /\ FieldFits(RecordHeader[4], HeaderValues(r)[4])
    BY <2>1, <2>3
  <2> QED
    BY <1>1, <2>2, <2>4, <2>5, LayoutLengths
<1>3. f[1].ok /\ f[2].ok /\ f[3].ok /\ f[4].ok
  BY <1>1 DEF Packing
<1>4. Size(f[2]) = Size(f[1]) + 2
  BY <1>1, <1>2, <1>3, NumberSize
<1>5. Size(f[3]) = Size(f[2]) + 2
  BY <1>1, <1>2, <1>3, NumberSize
<1>6. Size(f[4]) = Size(f[3]) + 4
  BY <1>1, <1>2, <1>3, PairSize
<1>7. Size(f[5]) = Size(f[4]) + 2
  BY LengthHeld
<1>8. Size(f[1]) \in Nat
  BY <1>1, SizeIs
<1> DEFINE a == Size(f[1])
           b == Size(f[2])
           c == Size(f[3])
           d == Size(f[4])
           e == Size(f[5])
<1>9. d = a + 8 /\ e = a + 10
  <2>1. a \in Nat /\ b = a + 2 /\ c = b + 2 /\ d = c + 4 /\ e = d + 2
    BY <1>4, <1>5, <1>6, <1>7, <1>8
  <2> HIDE DEF a, b, c, d, e
  <2> QED
    BY <2>1
<1> QED
  BY <1>1, <1>2, <1>3, <1>8, <1>9

(* The length that has been filled in is read.                               *)
LEMMA LengthIsRead ==
    ASSUME NEW out, NEW holes, NEW r, NEW f, NEW g, NEW n, NEW new, NEW m,
           RecordLies(out, r, f, g, n, new, holes, m)
    PROVE  /\ Unpack16(m, Size(f[4])) = Size(new) - Size(f[5])
           /\ Size(new) - Size(f[5]) \in Words
           /\ Size(f[5]) \in Nat /\ Size(new) \in Nat /\ Size(f[5]) <= Size(new) /\ Size(new) <= Len(m)
           /\ m \in Bytes /\ Len(m) \in Nat
<1> DEFINE mid == Size(f[4])
           head == Size(f[5])
           end == Size(new)
           length == end - head
           s == new.start
<1>1. Packing(out, holes) /\ RecordPacked(out, r, f, g, n, new, holes)
      /\ Agrees(m, end, holes, new.msg, s)
  BY DEF RecordLies
<1>2. /\ Packing(new, holes) /\ Extends(new, out) /\ Extends(new, f[4]) /\ end = Size(g[n])
      /\ new.msg[s + (mid + 1)] = Pack16(length)[1]
      /\ new.msg[s + (mid + 2)] = Pack16(length)[2]
  <2>1. /\ Packing(new, holes) /\ Extends(new, out) /\ Extends(new, f[4]) /\ Size(new) = Size(g[n])
        /\ new.msg[new.start + (Size(f[4]) + 1)] = Pack16(Size(g[n]) - Size(f[5]))[1]
        /\ new.msg[new.start + (Size(f[4]) + 2)] = Pack16(Size(g[n]) - Size(f[5]))[2]
    BY <1>1, RecordStands
  <2> QED
    BY <2>1
<1>3. /\ length \in Nat /\ length <= MaxLength /\ head = mid + 2
      /\ FieldsPacked(out, RecordHeader, HeaderValues(r), 5, f, holes)
  BY <1>1, <1>2 DEF RecordPacked
<1>4. end \in Nat /\ Len(m) \in Nat /\ end <= Len(m) /\ m \in Bytes
  BY <1>1, <1>2, AgreesLong
<1>5. mid \in Nat /\ Size(out) \in Nat /\ Size(out) <= mid /\ holes \subseteq 1 .. Size(out)
  <2>1. Packing(f[4], holes) /\ Extends(f[4], out)
    BY <1>3, LengthHeld
  <2> QED
    BY <1>1, <2>1, ExtendsSize DEF Packing
<1> HIDE DEF mid, head, end, s
<1>6. head \in Nat /\ head <= end /\ mid + 2 <= end
  BY <1>3, <1>4, <1>5
<1>7. length \in Words
  <2> DEFINE top == 2^16 - 1
  <2>1. top \in Nat /\ MaxLength \in 0 .. top
    BY LengthAssumption
  <2> HIDE DEF top, length
  <2>2. length \in 0 .. top
    BY <1>3, <2>1
  <2> QED
    BY <2>2 DEF top, Words
<1> HIDE DEF length
<1>8. mid + 1 \notin holes /\ mid + 2 \notin holes /\ mid + 1 \in 1 .. end /\ mid + 2 \in 1 .. end
  <2> DEFINE o == Size(out)
  <2>1. o \in Nat /\ o <= mid /\ holes \subseteq 1 .. o
    BY <1>5
  <2> HIDE DEF o
  <2> QED
    BY <1>4, <1>5, <1>6, <2>1
<1>9. m[mid + 1] = Pack16(length)[1] /\ m[mid + 2] = Pack16(length)[2]
  BY <1>1, <1>2, <1>8 DEF Agrees
<1> DEFINE w == Pack16(length)
<1>10. w \in Bytes /\ Len(w) = 2
  BY <1>3, Pack16Properties
<1>11. BytesLaid(m, mid, w, 2)
  <2> HIDE DEF w
  <2>1. \A x \in 1 .. 2 : x = 1 \/ x = 2
    OBVIOUS
  <2>2. m[mid + 1] = w[1] /\ m[mid + 2] = w[2]
    BY <1>9 DEF w
  <2>3. \A x \in 1 .. 2 : m[mid + x] = w[x]
    BY <2>1, <2>2
  <2>4. mid + 2 <= Len(m)
    BY <1>4, <1>5, <1>6
  <2> QED
    BY <1>4, <1>5, <1>10, <2>3, <2>4 DEF BytesLaid
<1>12. Unpack16(m, mid) = length
  BY <1>7, <1>11, NumberIsRead
<1> QED
  BY <1>4, <1>6, <1>7, <1>12 DEF mid, head, end, length

(* The header of a record, as it is read.                                    *)
HeaderOf(r, length) ==
    [name |-> r.name, type |-> r.type, class |-> r.class, ttl |-> r.ttl, length |-> length]

(* The first values are the values.                                         *)
LEMMA FirstsAre ==
    ASSUME NEW values, NEW n \in Nat, NEW i \in 1 .. n
    PROVE  Firsts(values, n)[i] = values[i]
BY DEF Firsts

(* The header of a packed record is read, with the length of its body.      *)
LEMMA HeaderIsRead ==
    ASSUME NEW out, NEW holes, NEW r, NEW f, NEW g, NEW n, NEW new, NEW m,
           RecordLies(out, r, f, g, n, new, holes, m)
    PROVE  UnpackRecordHeader(m, Size(out)) = Found(HeaderOf(r, Size(new) - Size(f[5])), Size(f[5]))
<1> DEFINE off == Size(out)
           mid == Size(f[4])
           length == Size(new) - Size(f[5])
           four == 4
           five == 5
           values == HeaderValues(r)
           layout == RecordHeader
<1>1. FieldsPacked(out, layout, values, 5, f, holes)
  BY DEF RecordLies, RecordPacked
<1>2. FieldsPacked(out, layout, values, four, f, holes)
  <2>1. /\ \A i \in 1 .. four : i \in 1 .. 5
        /\ \A i \in 0 .. four : i \in 0 .. 5
    OBVIOUS
  <2> QED
    BY <1>1, <2>1 DEF FieldsPacked
<1>3. Agrees(m, Size(f[four]), holes, f[four].msg, f[four].start)
  <2>1. /\ Packing(new, holes) /\ Extends(new, f[4])
    BY RecordStands DEF RecordLies
  <2>2. Packing(f[4], holes)
    BY <1>1, HeaderSteps
  <2>3. Agrees(m, Size(new), holes, new.msg, new.start)
    BY DEF RecordLies
  <2> DEFINE e == f[4]
  <2> HIDE DEF e
  <2>4. Agrees(m, Size(e), holes, e.msg, e.start)
    BY <2>1, <2>2, <2>3, AgreesBefore DEF e
  <2> QED
    BY <2>4 DEF e
<1>4. LengthsGiven(layout, 0, four, f)
  <2>1. \A i \in 1 .. four : layout[i] \in Sized
    <3>1. \A i \in 1 .. four : i = 1 \/ i = 2 \/ i = 3 \/ i = 4
      OBVIOUS
    <3> QED
      BY <3>1, LayoutLengths DEF Sized
  <2> QED
    BY <2>1 DEF LengthsGiven, GivenLength
<1>5. PICK c : UnpackRun(m, off, layout, 0, five, c) /\ UnpackFields(m, off, layout, 0) = c[five]
  <2>1. five \in Nat /\ Len(layout) = five
    BY LayoutLengths
  <2> HIDE DEF five
  <2> QED
    BY <2>1, UnpackFieldsIs
<1>6. UnpackRun(m, off, layout, 0, four, c)
  <2>1. \A i \in 1 .. four : i \in 1 .. five
    OBVIOUS
  <2> QED
    BY <1>5, <2>1 DEF UnpackRun
<1> DEFINE vs == Firsts(values, four)
<1>7. c[4] = Found(vs, mid)
  <2>1. four \in Nat
    OBVIOUS
  <2> HIDE DEF four, values, layout
  <2>2. c[four] = Found(Firsts(values, four), Size(f[four]))
    BY <1>2, <1>3, <1>4, <1>6, <2>1, FirstFieldsAreRead
  <2> QED
    BY <2>2 DEF four
<1>8. c[5] = UnpackNext(m, c[4], "uint16", 0)
  <2>1. 5 \in 1 .. five /\ 5 - 1 = 4
    OBVIOUS
  <2> QED
    BY <1>5, <2>1, LayoutLengths DEF UnpackRun
<1>9. /\ Unpack16(m, mid) = length /\ Size(f[5]) <= Size(new) /\ Size(new) <= Len(m)
      /\ Size(new) \in Nat /\ Size(f[5]) \in Nat /\ Len(m) \in Nat
  BY LengthIsRead
<1>10. mid + 2 = Size(f[5])
  BY <1>1, LengthHeld
<1>11. UnpackField(m, mid, "uint16", 0) = Found(length, Size(f[5]))
  <2>1. UnpackField(m, mid, "uint16", 0) = IF mid + 2 > Len(m) THEN Failure ELSE Found(Unpack16(m, mid), mid + 2)
    BY DEF UnpackField
  <2>2. ~ (mid + 2 > Len(m))
    BY <1>9, <1>10
  <2> QED
    BY <1>9, <1>10, <2>1, <2>2
<1> DEFINE all == Append(vs, length)
<1>12. c[5] = Found(all, Size(f[5]))
  <2>1. c[4].ok /\ c[4].value = vs /\ c[4].next = mid
    BY <1>7 DEF Found
  <2> DEFINE field == UnpackField(m, mid, "uint16", 0)
  <2>2. c[5] = After(c[4], field)
    BY <1>8, <2>1 DEF UnpackNext
  <2>3. field.ok /\ field.value = length /\ field.next = Size(f[5])
    BY <1>11 DEF Found
  <2> HIDE DEF field, vs, length, mid
  <2> QED
    BY <2>1, <2>2, <2>3 DEF After
<1>13. all[1] = r.name /\ all[2] = r.type /\ all[3] = r.class /\ all[4] = r.ttl /\ all[5] = length
  <2>1. values[1] = r.name /\ values[2] = r.type /\ values[3] = r.class /\ values[4] = r.ttl
    BY DEF HeaderValues
  <2>2. vs[1] = r.name /\ vs[2] = r.type /\ vs[3] = r.class /\ vs[4] = r.ttl
    <3> HIDE DEF values
    <3>1. \A i \in 1 .. 4 : vs[i] = values[i]
      BY DEF Firsts
    <3>2. 1 \in 1 .. 4 /\ 2 \in 1 .. 4 /\ 3 \in 1 .. 4 /\ 4 \in 1 .. 4
      OBVIOUS
    <3> HIDE DEF vs
    <3> QED
      BY <2>1, <3>1, <3>2
  <2> DEFINE V == {values[i] : i \in 1 .. 4} \cup {length}
  <2>3. vs \in Seq(V) /\ Len(vs) = 4 /\ length \in V
    <3> HIDE DEF values, length
    <3>1. vs \in [1 .. 4 -> V]
      BY DEF Firsts
    <3> HIDE DEF vs, V
    <3>2. 4 \in Nat
      OBVIOUS
    <3> DEFINE k == 4
    <3>3. vs \in [1 .. k -> V] /\ k \in Nat
      BY <3>1
    <3> HIDE DEF k
    <3>4. vs \in Seq(V) /\ DOMAIN vs = 1 .. k
      BY <3>3, SeqDef
    <3>5. Len(vs) = k
      BY <3>3, <3>4, LenProperties
    <3> QED
      BY <3>4, <3>5 DEF k, V
  <2> HIDE DEF V, vs, length
  <2>4. (\A i \in 1 .. 4 : all[i] = vs[i]) /\ all[4 + 1] = length
    <3>0. vs \in Seq(V) /\ length \in V
      BY <2>3
    <3>1. /\ Append(vs, length) \in Seq(V) /\ Len(Append(vs, length)) = Len(vs) + 1
          /\ \A i \in 1 .. Len(vs) : Append(vs, length)[i] = vs[i]
          /\ Append(vs, length)[Len(vs) + 1] = length
      BY <3>0, AppendProperties
    <3>2. Len(vs) = 4
      BY <2>3
    <3> QED
      BY <3>1, <3>2
  <2>5. 1 \in 1 .. 4 /\ 2 \in 1 .. 4 /\ 3 \in 1 .. 4 /\ 4 \in 1 .. 4 /\ 4 + 1 = 5
    OBVIOUS
  <2> HIDE DEF all
  <2> QED
    BY <2>2, <2>4, <2>5
<1>14. UnpackRecordHeader(m, off) = AsHeader(Found(all, Size(f[5])))
  BY <1>5, <1>12 DEF UnpackRecordHeader
<1> HIDE DEF all, length, off
<1>15. AsHeader(Found(all, Size(f[5]))) = Found(HeaderOf(r, length), Size(f[5]))
  BY <1>13 DEF AsHeader, Found, HeaderOf
<1> QED
  BY <1>14, <1>15 DEF off, length

(* The body of a packed record is read.                                     *)
LEMMA BodyIsRead ==
    ASSUME NEW out, NEW holes, NEW r, NEW f, NEW g, NEW n, NEW new, NEW m,
           RecordLies(out, r, f, g, n, new, holes, m)
    PROVE  /\ UnpackBody(m, Size(f[5]), HeaderOf(r, Size(new) - Size(f[5]))) = Found(Firsts(r.body, n), Size(new))
           /\ UnpackFields(m, Size(f[5]), BodyFields(r.type), Size(new) - Size(f[5]))
                 = Found(Firsts(r.body, n), Size(new))
<1> DEFINE more == holes \cup LengthAt(f[4])
           layout == BodyFields(r.type)
           head == f[5]
           body == g[n]
           length == Size(new) - Size(head)
<1>1. /\ Packing(out, holes) /\ RecordPacked(out, r, f, g, n, new, holes)
      /\ Agrees(m, Size(new), holes, new.msg, new.start)
  BY DEF RecordLies
<1>2. n \in Nat /\ Len(layout) = n /\ FieldsPacked(head, layout, r.body, n, g, more)
  BY <1>1 DEF RecordPacked
<1>3. /\ Packing(new, holes) /\ Extends(new, out) /\ Size(new) = Size(body)
      /\ \A x \in 1 .. Size(new) : x \notin LengthAt(f[4]) =>
            new.msg[new.start + x] = body.msg[new.start + x]
  BY <1>1, RecordStands
<1>4. Packing(body, more) /\ Extends(body, head) /\ g[0] = head
  <2>1. n \in 0 .. n /\ 0 \in 0 .. n
    BY <1>2
  <2> QED
    BY <1>2, <2>1 DEF FieldsPacked
<1>5. body.start = new.start
  <2>1. Extends(f[5], out) /\ f[0] = out
    <3>1. 0 \in 0 .. 5 /\ 5 \in 0 .. 5
      OBVIOUS
    <3> QED
      BY <1>1, <3>1 DEF RecordPacked, FieldsPacked
  <2> QED
    BY <1>3, <1>4, <2>1 DEF Extends
<1>6. Agrees(m, Size(body), more, body.msg, body.start)
  <2> DEFINE s == new.start
             z == Size(new)
             hs == LengthAt(f[4])
  <2>1. \A x \in 1 .. z : x \notin hs => new.msg[s + x] = body.msg[s + x]
    BY <1>3
  <2>2. m \in Bytes /\ z <= Len(m) /\ \A x \in 1 .. z : x \notin holes => m[x] = new.msg[s + x]
    BY <1>1 DEF Agrees
  <2> HIDE DEF s, hs
  <2>3. \A x \in 1 .. z : x \notin holes \cup hs => m[x] = body.msg[s + x]
    BY <2>1, <2>2
  <2> QED
    BY <1>3, <1>5, <2>2, <2>3 DEF Agrees, s, hs
<1>7. /\ length \in Words /\ Size(head) \in Nat /\ Size(new) \in Nat /\ Size(head) <= Size(new)
  BY LengthIsRead
<1> HIDE DEF more, head, body, layout, length
<1>8. LengthsGiven(layout, length, n, g)
  <2>1. CASE \A i \in 1 .. n : layout[i] \in Sized
    BY <2>1 DEF LengthsGiven, GivenLength
  <2>2. CASE n = 1
    <3>1. ASSUME NEW i \in 1 .. n PROVE length = Size(g[i]) - Size(g[i - 1])
      <4>1. i = n /\ i - 1 = 0
        BY <2>2
      <4>2. Size(g[i]) = Size(new) /\ g[i - 1] = head
        BY <1>3, <1>4, <4>1 DEF body
      <4> QED
        BY <4>2 DEF length
    <3> QED
      BY <1>7, <3>1 DEF LengthsGiven, GivenLength
  <2> QED
    BY <1>2, <2>1, <2>2, BodyKinds DEF layout
<1>9. UnpackFields(m, Size(head), layout, length) = Found(Firsts(r.body, n), Size(body))
  <2>1. Agrees(m, Size(g[n]), more, g[n].msg, g[n].start)
    BY <1>6 DEF body
  <2> DEFINE values == r.body
  <2>2. FieldsPacked(head, layout, values, n, g, more)
    BY <1>2
  <2> HIDE DEF values
  <2>3. UnpackFields(m, Size(head), layout, length) = Found(Firsts(values, n), Size(g[n]))
    BY <1>2, <1>8, <2>1, <2>2, FieldsAreRead
  <2> QED
    BY <2>3 DEF values, body
<1> DEFINE h == HeaderOf(r, length)
<1>10. h.type = r.type /\ h.length = length
  BY DEF HeaderOf
<1>11. UnpackBody(m, Size(head), h) = EndingAt(Found(Firsts(r.body, n), Size(body)), Size(head) + length)
  BY <1>9, <1>10 DEF UnpackBody, layout
<1>12. Size(head) + length = Size(new)
  BY <1>7 DEF length
<1> DEFINE vs == Firsts(r.body, n)
<1>13. UnpackBody(m, Size(head), h) = Found(Firsts(r.body, n), Size(new))
  <2>1. EndingAt(Found(vs, Size(body)), Size(new)) = Found(vs, Size(new))
    <3> DEFINE b == Size(body)
               e == Size(new)
    <3> HIDE DEF vs, b, e
    <3>1. EndingAt(Found(vs, b), e) = Found(vs, e)
      BY ReadChanged
    <3> QED
      BY <3>1 DEF b, e
  <2> QED
    BY <1>11, <1>12, <2>1
<1>14. UnpackFields(m, Size(head), layout, length) = Found(Firsts(r.body, n), Size(new))
  BY <1>3, <1>9
<1> QED
  BY <1>13, <1>14 DEF head, length, layout

(* A packed record is skipped to its end.                                   *)
LEMMA RecordIsSkipped ==
    ASSUME NEW out, NEW holes, NEW r, NEW f, NEW g, NEW n, NEW new, NEW m,
           RecordLies(out, r, f, g, n, new, holes, m)
    PROVE  SkipRecord(m, Size(out)) = Found(<<>>, Size(new)) /\ Size(out) < Size(f[5])
<1> DEFINE a == Size(f[1])
           mid == Size(f[4])
           head == Size(f[5])
           end == Size(new)
           length == end - head
           l == Len(m)
<1>1. FieldsPacked(out, RecordHeader, HeaderValues(r), 5, f, holes)
  BY DEF RecordLies, RecordPacked
<1>2. /\ f[0] = out /\ Packing(out, holes)
      /\ f[1] = PackField(out, "name", r.name) /\ FieldFits("name", r.name) /\ f[1].ok
      /\ Packing(f[1], holes) /\ Extends(f[4], f[1]) /\ Packing(f[4], holes)
      /\ a \in Nat /\ mid = a + 8 /\ head = a + 10
  BY <1>1, HeaderSteps
<1>3. Packing(new, holes) /\ Extends(new, f[4]) /\ Agrees(m, Size(new), holes, new.msg, new.start)
  BY RecordStands DEF RecordLies
<1>4. Agrees(m, Size(f[1]), holes, f[1].msg, f[1].start)
  <2> DEFINE e == f[4]
             b == f[1]
  <2>1. Packing(e, holes) /\ Extends(e, b) /\ Packing(b, holes) /\ Extends(new, e)
    BY <1>2, <1>3
  <2> HIDE DEF e, b
  <2>2. Agrees(m, Size(e), holes, e.msg, e.start)
    BY <1>3, <2>1, AgreesBefore
  <2>3. Agrees(m, Size(b), holes, b.msg, b.start)
    BY <2>1, <2>2, AgreesBefore
  <2> QED
    BY <2>3 DEF b
<1>5. SkipName(m, Size(out)) = Found(<<>>, a) /\ Size(out) < a
  <2> DEFINE b == f[1]
             value == r.name
  <2>1. /\ b = PackField(out, "name", value) /\ FieldFits("name", value) /\ b.ok
        /\ Agrees(m, Size(b), holes, b.msg, b.start)
    BY <1>2, <1>4
  <2> HIDE DEF b, value
  <2>2. SkipName(m, Size(out)) = Found(<<>>, Size(b)) /\ Size(out) < Size(b)
    BY <1>2, <2>1, NameIsSkipped
  <2> QED
    BY <2>2 DEF b
<1>6. /\ Unpack16(m, mid) = length /\ head <= end /\ end <= l
      /\ end \in Nat /\ head \in Nat /\ l \in Nat
  BY LengthIsRead
<1>7. Size(out) \in Nat
  BY <1>2, SizeIs
<1> HIDE DEF a, mid, head, end, l
<1>8. mid = a + 8 /\ head = a + 10 /\ a + 10 <= l /\ (a + 10) + length = end /\ a + 10 + length = end
  BY <1>2, <1>6
<1> DEFINE name == Found(<<>>, a)
<1>9. name.ok /\ name.next = a
  BY DEF Found
<1>10. SkipRecord(m, Size(out)) = PastBody(m, name)
  BY <1>5 DEF SkipRecord
<1> HIDE DEF name
<1>11. PastBody(m, name) = SkipTo(m, end)
  <2>1. name.ok /\ name.next + 10 <= Len(m)
    BY <1>8, <1>9 DEF l
  <2>2. PastBody(m, name) = SkipTo(m, a + 10 + Unpack16(m, a + 8))
    BY <1>9, <2>1 DEF PastBody
  <2>3. Unpack16(m, a + 8) = length
    BY <1>6, <1>8
  <2> QED
    BY <1>8, <2>2, <2>3
<1>12. SkipTo(m, end) = Found(<<>>, end)
  BY <1>6 DEF SkipTo, l
<1>13. Size(out) < head
  BY <1>2, <1>5, <1>7, <1>8
<1> QED
  BY <1>10, <1>11, <1>12, <1>13 DEF head, end

(* A question, and a record, from a place of a message to another: reading    *)
(* and skipping it leads there, also when its header has been read alone.      *)
QuestionThere(m, q, from, to) ==
    /\ UnpackFields(m, from, QuestionFields, 0) = Found(q, to)
    /\ SkipQuestionAt(m, from) = Found(<<>>, to)

(* The header of a record is there, its body behind it.                     *)
HeaderThere(m, r, from, mid, to) ==
    /\ mid \in Nat /\ mid <= to
    /\ UnpackRecordHeader(m, from) = Found(HeaderOf(r, to - mid), mid)

(* The body of a record is there, for a parser that has read the header.    *)
BodyThere(m, r, mid, to) ==
    /\ UnpackBody(m, mid, HeaderOf(r, to - mid)) = Found(r.body, to)
    /\ UnpackFields(m, mid, BodyFields(r.type), to - mid) = Found(r.body, to)

(* A record is there: it can be read, header and body, and skipped.         *)
RecordThere(m, r, from, to) ==
    /\ \E mid : HeaderThere(m, r, from, mid, to) /\ BodyThere(m, r, mid, to)
    /\ SkipRecord(m, from) = Found(<<>>, to)

(* A question or a record is there.                                         *)
ItemThere(m, entry, from, to) ==
    /\ from \in Nat /\ to \in Nat /\ from < to /\ to <= Len(m)
    /\ entry.section = Questions => QuestionThere(m, entry.item, from, to)
    /\ entry.section # Questions => RecordThere(m, entry.item, from, to)

(* An item that is there in every message that agrees, whatever its header.    *)
ItemStands(msg, start, entry, from, to) ==
    /\ from \in Nat /\ to \in Nat
    /\ \A m : Agrees(m, to, HeaderHole, msg, start) => ItemThere(m, entry, from, to)

(* A question that has been packed stands in the message.                   *)
LEMMA QuestionStands ==
    ASSUME NEW out, Packing(out, HeaderHole), NEW q, q = Firsts(q, 3), QuestionFits(q),
           NEW new, new = PackQuestion(out, q), new.ok, NEW entry, entry.section = Questions, entry.item = q
    PROVE  ItemStands(new.msg, new.start, entry, Size(out), Size(new))
<1> DEFINE holes == HeaderHole
<1>1. PICK f : FieldsPacked(out, QuestionFields, q, 3, f, holes) /\ new = f[3]
  <2> HIDE DEF holes
  <2>1. Packing(out, holes) /\ PackQuestion(out, q).ok
    BY DEF holes
  <2> QED
    BY <2>1, PackQuestionIs
<1>2. Packing(new, holes)
  <2>1. 3 \in 0 .. 3
    OBVIOUS
  <2> QED
    BY <1>1, <2>1 DEF FieldsPacked
<1>3. Size(out) \in Nat /\ Size(new) \in Nat
  BY <1>2, SizeIs
<1> HIDE DEF holes
<1>4. ASSUME NEW m, Agrees(m, Size(new), holes, new.msg, new.start)
      PROVE  ItemThere(m, entry, Size(out), Size(new))
  <2>1. Agrees(m, Size(f[3]), holes, f[3].msg, f[3].start)
    BY <1>1, <1>4
  <2>2. /\ UnpackFields(m, Size(out), QuestionFields, 0) = Found(q, Size(f[3]))
        /\ SkipQuestionAt(m, Size(out)) = Found(<<>>, Size(f[3]))
        /\ Size(out) < Size(f[3])
    BY <1>1, <2>1, QuestionIsRead
  <2>3. Size(new) <= Len(m)
    BY <1>4 DEF Agrees
  <2>4. QuestionThere(m, q, Size(out), Size(new)) /\ Size(out) < Size(new)
    BY <1>1, <2>2 DEF QuestionThere
  <2> QED
    BY <1>3, <2>3, <2>4 DEF ItemThere
<1> QED
  BY <1>3, <1>4 DEF ItemStands, holes

(* A record as the values of its layout.                                     *)
IsRecord(r) ==
    /\ r = [name |-> r.name, type |-> r.type, class |-> r.class, ttl |-> r.ttl, body |-> r.body]
    /\ r.body = Firsts(r.body, Len(BodyFields(r.type)))

(* A record that has been packed stands in the message.                     *)
LEMMA PackedRecordStands ==
    ASSUME NEW out, Packing(out, HeaderHole), NEW r, IsRecord(r), RecordFits(r),
           NEW new, new = PackRecord(out, r), new.ok, NEW entry, entry.section # Questions, entry.item = r
    PROVE  ItemStands(new.msg, new.start, entry, Size(out), Size(new))
<1> DEFINE holes == HeaderHole
<1>1. PICK f, g, n : RecordPacked(out, r, f, g, n, new, holes)
  <2> HIDE DEF holes
  <2>1. Packing(out, holes) /\ PackRecord(out, r).ok
    BY DEF holes
  <2> QED
    BY <2>1, PackRecordIs
<1>2. Packing(new, holes)
  <2> HIDE DEF holes
  <2> QED
    BY <1>1, RecordStands DEF holes
<1>3. Size(out) \in Nat /\ Size(new) \in Nat
  BY <1>2, SizeIs
<1>4. r.body = Firsts(r.body, n)
  BY <1>1 DEF IsRecord, RecordPacked
<1> HIDE DEF holes
<1>5. ASSUME NEW m, Agrees(m, Size(new), holes, new.msg, new.start)
      PROVE  ItemThere(m, entry, Size(out), Size(new))
  <2> DEFINE mid == Size(f[5])
             from == Size(out)
             to == Size(new)
  <2>1. RecordLies(out, r, f, g, n, new, holes, m)
    BY <1>1, <1>5 DEF RecordLies, holes
  <2>2. UnpackRecordHeader(m, from) = Found(HeaderOf(r, to - mid), mid)
    BY <2>1, HeaderIsRead
  <2>3. /\ UnpackBody(m, mid, HeaderOf(r, to - mid)) = Found(r.body, to)
        /\ UnpackFields(m, mid, BodyFields(r.type), to - mid) = Found(r.body, to)
    <3>1. /\ UnpackBody(m, Size(f[5]), HeaderOf(r, Size(new) - Size(f[5]))) = Found(Firsts(r.body, n), Size(new))
          /\ UnpackFields(m, Size(f[5]), BodyFields(r.type), Size(new) - Size(f[5]))
                = Found(Firsts(r.body, n), Size(new))
      BY <2>1, BodyIsRead
    <3> QED
      BY <1>4, <3>1
  <2>4. SkipRecord(m, from) = Found(<<>>, to) /\ from < mid
    BY <2>1, RecordIsSkipped
  <2>5. mid \in Nat /\ to \in Nat /\ mid <= to /\ to <= Len(m)
    BY <2>1, LengthIsRead
  <2> HIDE DEF mid, from, to
  <2>6. HeaderThere(m, r, from, mid, to) /\ BodyThere(m, r, mid, to)
    BY <2>2, <2>3, <2>5 DEF HeaderThere, BodyThere
  <2>7. RecordThere(m, r, from, to)
    BY <2>4, <2>6 DEF RecordThere
  <2>8. from < to /\ from \in Nat
    BY <1>3, <2>4, <2>5 DEF from
  <2> QED
    BY <2>5, <2>7, <2>8 DEF ItemThere, from, to
<1> QED
  BY <1>3, <1>5 DEF ItemStands, holes

(* The questions and records that are added.                                *)
LEMMA ItemsAre ==
    /\ \A q \in QuestionItems : q = Firsts(q, 3)
    /\ \A r \in RecordItems : IsRecord(r)
<1>1. ASSUME NEW q \in QuestionItems PROVE q = Firsts(q, 3)
  <2>1. FitsLayout(q, QuestionFields)
    BY InputAssumption
  <2> QED
    BY <2>1, LayoutLengths DEF FitsLayout, Firsts
<1>2. ASSUME NEW r \in RecordItems PROVE IsRecord(r)
  <2>1. /\ r = [name |-> r.name, type |-> r.type, class |-> r.class, ttl |-> r.ttl, body |-> r.body]
        /\ FitsLayout(r.body, BodyFields(r.type))
    BY InputAssumption
  <2> QED
    BY <2>1 DEF FitsLayout, Firsts, IsRecord
<1> QED
  BY <1>1, <1>2

(* An item that stands does so in every longer message that agrees.           *)
LEMMA ItemKept ==
    ASSUME NEW msg, NEW start, NEW entry, NEW from, NEW to, ItemStands(msg, start, entry, from, to),
           NEW new, \A x \in 1 .. to : x \notin HeaderHole => new[start + x] = msg[start + x]
    PROVE  ItemStands(new, start, entry, from, to)
BY DEF ItemStands, Agrees

(* How many items stand before a section.                                    *)
Of(counts, k, s) == IF k < s THEN counts[k] ELSE 0

(* How many items stand before a section.                                   *)
CountBefore(counts, s) == Of(counts, 2, s) + Of(counts, 3, s) + Of(counts, 4, s) + Of(counts, 5, s)

(* No section behind this one has an item.                                  *)
NoneAfter(counts, s) == \A t \in Sections : t > s => counts[t] = 0

(* One more item in a section.                                              *)
OneMore(counts, k) == [counts EXCEPT ![k] = @ + 1]

(* The counts add up, section by section.                                   *)
LEMMA CountsAre ==
    ASSUME NEW counts \in [Sections -> Nat]
    PROVE  /\ \A s \in 1 .. 6 : CountBefore(counts, s) \in Nat
           /\ CountBefore(counts, 2) = 0
           /\ \A s \in Sections : CountBefore(counts, s + 1) = CountBefore(counts, s) + counts[s]
           /\ \A s, t \in 1 .. 6 : s <= t => CountBefore(counts, s) <= CountBefore(counts, t)
           /\ \A s \in Sections : NoneAfter(counts, s) => CountBefore(counts, s + 1) = CountBefore(counts, 6)
<1> DEFINE a == counts[2]
           b == counts[3]
           c == counts[4]
           d == counts[5]
<1>1. /\ a \in Nat /\ b \in Nat /\ c \in Nat /\ d \in Nat /\ Sections = 2 .. 5
      /\ 2 \in Sections /\ 3 \in Sections /\ 4 \in Sections /\ 5 \in Sections
  BY SectionsAre
<1> HIDE DEF a, b, c, d
<1> DEFINE F(s) == CountBefore(counts, s)
<1>2. /\ F(1) = 0 /\ F(2) = 0 /\ F(3) = a /\ F(4) = a + b /\ F(5) = a + b + c /\ F(6) = a + b + c + d
  BY <1>1 DEF CountBefore, Of, a, b, c, d
<1> HIDE DEF F
<1>3. \A s \in 1 .. 6 : s = 1 \/ s = 2 \/ s = 3 \/ s = 4 \/ s = 5 \/ s = 6
  OBVIOUS
<1>4. \A s \in 2 .. 5 : s = 2 \/ s = 3 \/ s = 4 \/ s = 5
  OBVIOUS
<1>5. \A s \in 1 .. 6 : F(s) \in Nat
  BY <1>1, <1>2, <1>3
<1>6. ASSUME NEW s \in Sections PROVE F(s + 1) = F(s) + counts[s]
  <2>1. s = 2 \/ s = 3 \/ s = 4 \/ s = 5
    BY <1>1, <1>4
  <2>2. counts[2] = a /\ counts[3] = b /\ counts[4] = c /\ counts[5] = d
    BY DEF a, b, c, d
  <2> QED
    BY <1>1, <1>2, <2>1, <2>2
<1>7. ASSUME NEW s \in 1 .. 6, NEW t \in 1 .. 6, s <= t PROVE F(s) <= F(t)
  BY <1>1, <1>2, <1>3, <1>7
<1>8. ASSUME NEW s \in Sections, NoneAfter(counts, s) PROVE F(s + 1) = F(6)
  <2>1. s = 2 \/ s = 3 \/ s = 4 \/ s = 5
    BY <1>1, <1>4
  <2>2. (s < 3 => b = 0) /\ (s < 4 => c = 0) /\ (s < 5 => d = 0)
    BY <1>1, <1>8 DEF b, c, d, NoneAfter
  <2> QED
    BY <1>1, <1>2, <2>1, <2>2
<1> QED
  BY <1>2, <1>5, <1>6, <1>7, <1>8 DEF F

(* One more item is before the sections behind its own.                     *)
LEMMA CountedBefore ==
    ASSUME NEW counts \in [Sections -> Nat], NEW k \in Sections
    PROVE  /\ OneMore(counts, k) \in [Sections -> Nat]
           /\ \A s \in 1 .. 6 : CountBefore(OneMore(counts, k), s) = CountBefore(counts, s) + (IF s > k THEN 1 ELSE 0)
<1> DEFINE new == OneMore(counts, k)
<1>1. new \in [Sections -> Nat]
  BY DEF OneMore
<1>2. /\ Sections = 2 .. 5 /\ 2 \in Sections /\ 3 \in Sections /\ 4 \in Sections /\ 5 \in Sections
  BY SectionsAre
<1>3. \A j \in Sections : new[j] = counts[j] + (IF j = k THEN 1 ELSE 0)
  BY DEF OneMore
<1> HIDE DEF new
<1>4. ASSUME NEW s \in 1 .. 6
      PROVE  CountBefore(new, s) = CountBefore(counts, s) + (IF s > k THEN 1 ELSE 0)
  <2>1. \A j \in Sections : Of(new, j, s) = Of(counts, j, s) + (IF j = k /\ j < s THEN 1 ELSE 0)
    BY <1>2, <1>3 DEF Of
  <2>2. \A j \in Sections : Of(counts, j, s) \in Nat
    BY DEF Of
  <2> DEFINE a == Of(counts, 2, s)
             b == Of(counts, 3, s)
             c == Of(counts, 4, s)
             d == Of(counts, 5, s)
             E(j) == IF j = k /\ j < s THEN 1 ELSE 0
  <2>3. a \in Nat /\ b \in Nat /\ c \in Nat /\ d \in Nat
    BY <1>2, <2>2
  <2>4. CountBefore(new, s) = (a + E(2)) + (b + E(3)) + (c + E(4)) + (d + E(5))
    BY <1>2, <2>1 DEF CountBefore
  <2>5. CountBefore(counts, s) = a + b + c + d
    BY DEF CountBefore
  <2>6. E(2) + E(3) + E(4) + E(5) = IF s > k THEN 1 ELSE 0
    <3>1. k = 2 \/ k = 3 \/ k = 4 \/ k = 5
      BY <1>2
    <3>2. s > 2 <=> 2 < s
      OBVIOUS
    <3> HIDE DEF a, b, c, d
    <3> QED
      BY <3>1, <3>2
  <2>7. E(2) \in Nat /\ E(3) \in Nat /\ E(4) \in Nat /\ E(5) \in Nat
    OBVIOUS
  <2> DEFINE e2 == E(2)
             e3 == E(3)
             e4 == E(4)
             e5 == E(5)
             one == IF s > k THEN 1 ELSE 0
  <2>8. /\ e2 \in Nat /\ e3 \in Nat /\ e4 \in Nat /\ e5 \in Nat /\ e2 + e3 + e4 + e5 = one
        /\ CountBefore(new, s) = (a + e2) + (b + e3) + (c + e4) + (d + e5)
    BY <2>4, <2>6, <2>7
  <2> HIDE DEF a, b, c, d, e2, e3, e4, e5, one
  <2>9. (a + e2) + (b + e3) + (c + e4) + (d + e5) = (a + b + c + d) + one
    BY <2>3, <2>8
  <2> QED
    BY <2>5, <2>8, <2>9 DEF one
<1> QED
  BY <1>1, <1>4 DEF new

(* The items added stand in the order of their sections.                      *)
Ordered(counts, items) ==
    /\ Len(items) = CountBefore(counts, 6)
    /\ \A i \in 1 .. Len(items), s \in Sections :
          items[i].section = s <=> CountBefore(counts, s) < i /\ i <= CountBefore(counts, s + 1)

(* Items with one more at the end.                                          *)
Joined(items, n, entry, more) ==
    /\ n \in Nat /\ Len(items) = n /\ Len(more) = n + 1
    /\ more[n + 1] = entry /\ \A i \in 1 .. n : more[i] = items[i]

(* An item of the last section that has any keeps the order.                *)
LEMMA OrderedMore ==
    ASSUME NEW counts \in [Sections -> Nat], NEW items, NEW n, Ordered(counts, items),
           NEW k \in Sections, NoneAfter(counts, k),
           NEW entry, entry.section = k, NEW more, Joined(items, n, entry, more)
    PROVE  Ordered(OneMore(counts, k), more)
<1> DEFINE new == OneMore(counts, k)
           F(s) == CountBefore(counts, s)
           G(s) == CountBefore(new, s)
<1>1. \A s \in 1 .. 6 : F(s) \in Nat /\ (s > k => G(s) = F(s) + 1) /\ (~ (s > k) => G(s) = F(s))
  <2>1. \A s \in 1 .. 6 : F(s) \in Nat
    BY CountsAre
  <2>2. /\ new \in [Sections -> Nat]
        /\ \A s \in 1 .. 6 : CountBefore(new, s) = CountBefore(counts, s) + (IF s > k THEN 1 ELSE 0)
    BY CountedBefore
  <2>3. ASSUME NEW s \in 1 .. 6
        PROVE  F(s) \in Nat /\ (s > k => G(s) = F(s) + 1) /\ (~ (s > k) => G(s) = F(s))
    <3>1. F(s) \in Nat /\ G(s) = F(s) + (IF s > k THEN 1 ELSE 0)
      BY <2>1, <2>2
    <3> HIDE DEF F, G
    <3> QED
      BY <3>1
  <2> QED
    BY <2>3
<1>2. \A s, t \in 1 .. 6 : s <= t => F(s) <= F(t)
  BY CountsAre
<1>3. F(6) = n /\ F(k + 1) = n /\ n \in Nat
  BY CountsAre DEF Ordered, Joined
<1>4. \A i \in 1 .. n, s \in Sections : items[i].section = s <=> F(s) < i /\ i <= F(s + 1)
  BY DEF Ordered, Joined
<1>5. Sections = 2 .. 5
  BY SectionsAre
<1> HIDE DEF F, G, new
<1>6. ASSUME NEW i \in 1 .. n + 1, NEW s \in Sections
      PROVE  more[i].section = s <=> G(s) < i /\ i <= G(s + 1)
  <2>1. s \in 1 .. 6 /\ s + 1 \in 1 .. 6 /\ k \in 1 .. 6 /\ k + 1 \in 1 .. 6 /\ 6 \in 1 .. 6 /\ s <= 6
    BY <1>5
  <2>2. F(s) \in Nat /\ F(s + 1) \in Nat /\ F(k) \in Nat /\ F(s) <= n
    BY <1>1, <1>2, <1>3, <2>1
  <2>3. CASE i = n + 1
    <3>1. more[i].section = k
      BY <2>3 DEF Joined
    <3>2. CASE s = k
      <4>1. G(s) = F(s) /\ G(s + 1) = n + 1
        <5>1. ~ (k > k) /\ k + 1 > k
          BY <1>5
        <5> QED
          BY <1>1, <1>3, <2>1, <3>2, <5>1
      <4>2. G(s) < i /\ i <= G(s + 1)
        BY <1>3, <2>2, <2>3, <4>1
      <4> QED
        BY <3>1, <3>2, <4>2
    <3>3. CASE s < k
      <4>1. G(s + 1) = F(s + 1) /\ F(s + 1) <= n
        <5>1. s + 1 <= 6 /\ ~ (s + 1 > k)
          BY <1>5, <3>3
        <5>2. F(s + 1) <= F(6)
          BY <1>2, <2>1, <5>1
        <5> QED
          BY <1>1, <1>3, <2>1, <5>1, <5>2
      <4>2. ~ (i <= G(s + 1)) /\ s # k
        BY <1>3, <1>5, <2>2, <2>3, <3>3, <4>1
      <4> QED
        BY <3>1, <4>2
    <3>4. CASE s > k
      <4>1. k + 1 <= s
        BY <1>5, <3>4
      <4>2. F(k + 1) <= F(s)
        BY <1>2, <2>1, <4>1
      <4>3. G(s) = F(s) + 1
        BY <1>1, <2>1, <3>4
      <4>4. ~ (G(s) < i) /\ s # k
        BY <1>3, <1>5, <2>2, <2>3, <3>4, <4>2, <4>3
      <4> QED
        BY <3>1, <4>4
    <3> QED
      BY <1>5, <3>2, <3>3, <3>4
  <2>4. CASE i \in 1 .. n
    <3>1. more[i].section = s <=> F(s) < i /\ i <= F(s + 1)
      BY <1>4, <2>4 DEF Joined
    <3>2. CASE s < k
      <4>1. G(s) = F(s) /\ G(s + 1) = F(s + 1)
        <5>1. ~ (s > k) /\ ~ (s + 1 > k)
          BY <1>5, <3>2
        <5> QED
          BY <1>1, <2>1, <5>1
      <4> QED
        BY <3>1, <4>1
    <3>3. CASE s = k
      <4>1. G(s) = F(s) /\ G(s + 1) = n + 1 /\ F(s + 1) = n
        <5>1. ~ (k > k) /\ k + 1 > k
          BY <1>5
        <5> QED
          BY <1>1, <1>3, <2>1, <3>3, <5>1
      <4> QED
        BY <2>4, <3>1, <4>1
    <3>4. CASE s > k
      <4>1. k + 1 <= s
        BY <1>5, <3>4
      <4>2. F(k + 1) <= F(s)
        BY <1>2, <2>1, <4>1
      <4>3. G(s) = F(s) + 1
        BY <1>1, <2>1, <3>4
      <4>4. ~ (G(s) < i) /\ ~ (F(s) < i)
        BY <1>3, <2>2, <2>4, <4>2, <4>3
      <4> QED
        BY <3>1, <4>4
    <3> QED
      BY <1>5, <3>2, <3>3, <3>4
  <2>5. i = n + 1 \/ i \in 1 .. n
    BY <1>3
  <2> QED
    BY <1>3, <2>3, <2>4, <2>5
<1>7. Len(more) = G(6)
  <2>1. 6 \in 1 .. 6 /\ 6 > k
    BY <1>5
  <2>2. G(6) = n + 1
    BY <1>1, <1>3, <2>1
  <2> QED
    BY <2>2 DEF Joined
<1>8. Len(more) = n + 1
  BY DEF Joined
<1> QED
  BY <1>6, <1>7, <1>8 DEF Ordered, G, new

(* n items stand in a message one after the other, behind its header; ends are  *)
(* the places where they end.                                               *)
Laid(msg, start, size, items, n, ends) ==
    /\ n \in Nat /\ ends \in [0 .. n -> Nat] /\ ends[0] = 12 /\ ends[n] = size
    /\ \A i \in 0 .. n : ends[i] <= size
    /\ \A i \in 1 .. n : ItemStands(msg, start, items[i], ends[i - 1], ends[i])

(* A message that is another one from its header up to a size.                 *)
Continues(new, msg, start, size) == \A x \in 1 .. size : x \notin HeaderHole => new[start + x] = msg[start + x]

(* What stands in a message stands in one that continues it.                *)
LEMMA StandsOn ==
    ASSUME NEW msg, NEW start, NEW size \in Nat, NEW new, Continues(new, msg, start, size),
           NEW entry, NEW from, NEW to, to \in Nat, to <= size, ItemStands(msg, start, entry, from, to)
    PROVE  ItemStands(new, start, entry, from, to)
<1>1. 1 .. to \subseteq 1 .. size
  OBVIOUS
<1>2. \A x \in 1 .. to : x \notin HeaderHole => new[start + x] = msg[start + x]
  BY <1>1 DEF Continues
<1> QED
  BY <1>2, ItemKept

(* So do all items.                                                         *)
LEMMA LaidKept ==
    ASSUME NEW msg, NEW start, NEW size \in Nat, NEW items, NEW n, NEW ends,
           Laid(msg, start, size, items, n, ends), NEW new, Continues(new, msg, start, size)
    PROVE  Laid(new, start, size, items, n, ends)
<1>1. ASSUME NEW i \in 1 .. n PROVE ItemStands(new, start, items[i], ends[i - 1], ends[i])
  <2>1. n \in Nat /\ ends \in [0 .. n -> Nat]
    BY DEF Laid
  <2>2. i \in 0 .. n
    BY <2>1
  <2> DEFINE from == ends[i - 1]
             to == ends[i]
             entry == items[i]
  <2>3. to \in Nat /\ to <= size /\ ItemStands(msg, start, entry, from, to)
    BY <2>1, <2>2 DEF Laid
  <2> HIDE DEF from, to, entry
  <2>4. ItemStands(new, start, entry, from, to)
    BY <2>3, StandsOn
  <2> QED
    BY <2>4 DEF from, to, entry
<1> QED
  BY <1>1 DEF Laid

(* One item more behind the others.                                         *)
LEMMA LaidMore ==
    ASSUME NEW msg, NEW start, NEW size \in Nat, NEW items, NEW n, NEW ends,
           Laid(msg, start, size, items, n, ends), NEW new, Continues(new, msg, start, size),
           NEW size2 \in Nat, size <= size2, NEW entry, ItemStands(new, start, entry, size, size2),
           NEW more, Joined(items, n, entry, more)
    PROVE  \E e : Laid(new, start, size2, more, n + 1, e)
<1> DEFINE N == n + 1
           e == [i \in 0 .. N |-> IF i <= n THEN ends[i] ELSE size2]
<1>1. n \in Nat /\ N \in Nat /\ N = n + 1
  BY DEF Laid
<1>2. ends \in [0 .. n -> Nat] /\ ends[0] = 12 /\ ends[n] = size /\ \A i \in 0 .. n : ends[i] <= size
  BY DEF Laid
<1>3. \A i \in 1 .. n : ItemStands(new, start, items[i], ends[i - 1], ends[i])
  BY LaidKept DEF Laid
<1> HIDE DEF N
<1>4. \A i \in 0 .. n : i \in 0 .. N /\ i <= n
  BY <1>1
<1>5. \A i \in 0 .. n : e[i] = ends[i]
  BY <1>4
<1>6. N \in 0 .. N /\ ~ (N <= n) /\ 0 \in 0 .. n /\ n \in 0 .. n
  BY <1>1
<1>7. e[N] = size2 /\ e[0] = 12 /\ e[n] = size
  BY <1>2, <1>5, <1>6
<1>8. \A i \in 0 .. N : i \in 0 .. n \/ i = N
  BY <1>1
<1>9. e \in [0 .. N -> Nat]
  <2>1. \A i \in 0 .. N : (IF i <= n THEN ends[i] ELSE size2) \in Nat
    BY <1>2, <1>6, <1>8
  <2> QED
    BY <2>1
<1> HIDE DEF e
<1>10. ASSUME NEW i \in 0 .. N PROVE e[i] <= size2
  <2>1. CASE i = N
    BY <1>7, <2>1
  <2>2. CASE i \in 0 .. n
    <3> DEFINE x == ends[i]
    <3>1. x \in Nat /\ x <= size /\ e[i] = x
      BY <1>2, <1>5, <2>2
    <3> HIDE DEF x
    <3> QED
      BY <3>1
  <2> QED
    BY <1>8, <2>1, <2>2
<1>11. ASSUME NEW i \in 1 .. N PROVE ItemStands(new, start, more[i], e[i - 1], e[i])
  <2>1. CASE i = N
    <3>1. i - 1 = n /\ n + 1 = N
      BY <1>1, <2>1
    <3>2. more[i] = entry
      BY <2>1, <3>1 DEF Joined
    <3> QED
      BY <1>7, <2>1, <3>1, <3>2
  <2>2. CASE i # N
    <3>1. i \in 1 .. n /\ i \in 0 .. n /\ i - 1 \in 0 .. n
      BY <1>1, <2>2
    <3>2. more[i] = items[i] /\ e[i] = ends[i] /\ e[i - 1] = ends[i - 1]
      BY <1>5, <3>1 DEF Joined
    <3> QED
      BY <1>3, <3>1, <3>2
  <2> QED
    BY <2>1, <2>2
<1>12. Laid(new, start, size2, more, N, e)
  BY <1>1, <1>7, <1>9, <1>10, <1>11 DEF Laid
<1> QED
  BY <1>12 DEF N

(* What is built: the items that were added, in the order of their sections.    *)
BuiltEntries == [section : {Questions}, item : QuestionItems] \cup [section : RecordSections, item : RecordItems]

(* The numbers of the header stand in its place.                             *)
HeaderLaid(b) ==
    \A i \in 1 .. 6 : /\ b.msg[b.start + (2 * i - 1)] = Pack16(HeadNumbers(b)[i])[1]
                      /\ b.msg[b.start + 2 * i] = Pack16(HeadNumbers(b)[i])[2]

(* The items added stand in the message.                                    *)
Lies(b, items) == \E n, ends : n = Len(items) /\ Laid(b.msg, b.start, Size(b), items, n, ends)

(* The builder holds these items: they stand in its message, in the order   *)
(* of their sections, and it has counted them.                              *)
HoldsItems(b, items) ==
    /\ items \in Seq(BuiltEntries) /\ Ordered(b.counts, items) /\ NoneAfter(b.counts, b.section)
    /\ \A s \in Sections : b.counts[s] <= MaxCount
    /\ Lies(b, items)

(* The inductive invariant of the builder.                                  *)
BuilderHolds ==
    ~ stale => /\ Packing(builder, HeaderHole) /\ HoldsItems(builder, built)
               /\ builder.section = SectionDone => HeaderLaid(builder)

(* Packing at the end continues a message.                                  *)
LEMMA ExtendsContinues ==
    ASSUME NEW out, NEW holes, Packing(out, holes), NEW new, Extends(new, out)
    PROVE  Continues(new.msg, out.msg, out.start, Size(out)) /\ Size(out) \in Nat
<1>1. Size(out) \in Nat /\ \A x \in 1 .. Size(out) : out.start + x \in 1 .. Len(out.msg)
  BY SizeIs
<1>2. \A x \in 1 .. Len(out.msg) : new.msg[x] = out.msg[x]
  BY DEF Extends
<1> QED
  BY <1>1, <1>2 DEF Continues

(* One more at the end.                                                     *)
LEMMA JoinedIs ==
    ASSUME NEW V, NEW items \in Seq(V), NEW entry \in V
    PROVE  /\ items \o <<entry>> \in Seq(V)
           /\ Joined(items, Len(items), entry, items \o <<entry>>)
<1> DEFINE t == <<entry>>
           n == Len(items)
           w == items \o t
<1>1. t \in Seq(V) /\ Len(t) = 1 /\ t[1] = entry
  OBVIOUS
<1>2. n \in Nat
  BY LenProperties
<1> HIDE DEF t
<1>3. w \in Seq(V) /\ Len(w) = Len(items) + Len(t)
      /\ \A i \in 1 .. Len(items) + Len(t) : w[i] = IF i <= Len(items) THEN items[i] ELSE t[i - Len(items)]
  BY <1>1, ConcatProperties
<1> HIDE DEF w
<1>4. Len(w) = n + 1 /\ \A i \in 1 .. n + 1 : w[i] = IF i <= n THEN items[i] ELSE t[i - n]
  BY <1>1, <1>3
<1>5. w[n + 1] = entry
  <2>1. n + 1 \in 1 .. n + 1 /\ ~ (n + 1 <= n) /\ (n + 1) - n = 1
    BY <1>2
  <2> QED
    BY <1>1, <1>4, <2>1
<1>6. \A i \in 1 .. n : w[i] = items[i]
  <2>1. \A i \in 1 .. n : i \in 1 .. n + 1 /\ i <= n
    BY <1>2
  <2> QED
    BY <1>4, <2>1
<1> QED
  BY <1>2, <1>3, <1>4, <1>5, <1>6 DEF Joined, w, t, n

(* Nothing added.                                                           *)
LEMMA NoneJoined ==
    ASSUME NEW V, NEW items \in Seq(V)
    PROVE  items \o <<>> = items
BY EmptySeq, ConcatProperties, ConcatEmptySeq

(* A builder that has nothing added to it.                                   *)
LEMMA SameContents ==
    ASSUME NEW b, Packing(b, HeaderHole), NEW items, HoldsItems(b, items), NEW new,
           Size(new) = Size(b), new.start = b.start, new.counts = b.counts, b.section <= new.section,
           new.section \in Int,
           Continues(new.msg, b.msg, b.start, Size(b))
    PROVE  HoldsItems(new, items)
<1>1. Size(b) \in Nat
  BY SizeIs
<1>2. PICK n, ends : n = Len(items) /\ Laid(b.msg, b.start, Size(b), items, n, ends)
  BY DEF HoldsItems, Lies
<1> DEFINE u == b.msg
           v == new.msg
           s == b.start
           z == Size(b)
<1>3. z \in Nat /\ Laid(u, s, z, items, n, ends) /\ Continues(v, u, s, z)
  BY <1>1, <1>2
<1> HIDE DEF u, v, s, z
<1>4. Laid(v, s, z, items, n, ends)
  BY <1>3, LaidKept
<1>5. Lies(new, items)
  BY <1>2, <1>4 DEF Lies, u, v, s, z
<1>6. NoneAfter(new.counts, new.section)
  <2>1. b.section \in Int /\ \A t \in Sections : t \in Int
    BY SectionsAre DEF Packing, Outs, SectionHeader, SectionDone
  <2>2. \A t \in Sections : t > new.section => t > b.section
    BY <2>1
  <2> QED
    BY <2>2 DEF HoldsItems, NoneAfter
<1> QED
  BY <1>5, <1>6 DEF HoldsItems

(* A new builder holds no item.                                             *)
LEMMA NewContains ==
    ASSUME NEW buf \in Bytes, NEW head \in MessageHeads
    PROVE  HoldsItems(NewBuilder(buf, head), <<>>)
<1> DEFINE b == NewBuilder(buf, head)
           counts == [s \in Sections |-> 0]
<1>1. Size(b) = 12
  BY NewBuilderStands
<1>2. b.counts = counts /\ b.section = SectionHeader
  BY DEF NewBuilder
<1> DEFINE none == <<>>
           V == BuiltEntries
<1>3. none \in Seq(V) /\ Len(none) = 0
  OBVIOUS
<1> HIDE DEF b, none
<1>4. Lies(b, none)
  <2> DEFINE ends == [i \in 0 .. 0 |-> 12]
  <2>1. 0 \in 0 .. 0 /\ \A i \in 0 .. 0 : i = 0
    OBVIOUS
  <2>2. ends \in [0 .. 0 -> Nat] /\ ends[0] = 12 /\ \A i \in 0 .. 0 : ends[i] <= 12
    BY <2>1
  <2>3. \A i \in 1 .. 0 : FALSE
    OBVIOUS
  <2> HIDE DEF ends
  <2>4. Laid(b.msg, b.start, Size(b), none, 0, ends)
    BY <1>1, <2>2, <2>3 DEF Laid
  <2> QED
    BY <1>3, <2>4 DEF Lies
<1>5. counts \in [Sections -> Nat] /\ \A s \in Sections : counts[s] = 0
  OBVIOUS
<1> HIDE DEF counts
<1>6. Ordered(counts, none)
  <2>1. Sections = 2 .. 5 /\ 2 \in Sections /\ 3 \in Sections /\ 4 \in Sections /\ 5 \in Sections
    BY SectionsAre
  <2>2. CountBefore(counts, 6) = 0
    BY <1>5, <2>1 DEF CountBefore, Of
  <2>3. \A i \in 1 .. 0 : FALSE
    OBVIOUS
  <2> QED
    BY <1>3, <2>2, <2>3 DEF Ordered
<1>7. \A s \in Sections : counts[s] <= MaxCount
  <2>1. MaxCount \in Int /\ 0 <= MaxCount
    <3> DEFINE top == 2^16 - 1
    <3>1. MaxCount \in 0 .. top
      BY CountAssumption
    <3>2. top \in Int
      OBVIOUS
    <3> HIDE DEF top
    <3> QED
      BY <3>1, <3>2
  <2> QED
    BY <1>5, <2>1
<1>8. NoneAfter(counts, b.section)
  BY <1>5 DEF NoneAfter
<1>9. none \in Seq(BuiltEntries)
  BY <1>3
<1> QED
  BY <1>2, <1>4, <1>6, <1>7, <1>8, <1>9 DEF HoldsItems, b, none

(* An item that has been packed and counted is the last one.                  *)
LEMMA MoreContained ==
    ASSUME NEW b, Packing(b, HeaderHole), NEW items, HoldsItems(b, items), NEW entry \in BuiltEntries,
           b.section \in Sections, entry.section = b.section,
           NEW packed, Packing(packed, HeaderHole), Extends(packed, b),
           ItemStands(packed.msg, packed.start, entry, Size(b), Size(packed)),
           NEW new, ItemCounted(b, packed, new)
    PROVE  HoldsItems(new, items \o <<entry>>)
<1> DEFINE k == b.section
           n == Len(items)
           more == items \o <<entry>>
           counts == b.counts
<1>1. items \in Seq(BuiltEntries)
  BY DEF HoldsItems
<1>2. more \in Seq(BuiltEntries) /\ Joined(items, n, entry, more)
  BY <1>1, JoinedIs
<1>3. b \in Outs /\ packed \in Outs
  BY DEF Packing
<1>4. /\ Size(new) = Size(packed) /\ new.msg = packed.msg /\ new.start = b.start
      /\ new.section = k /\ new.counts = [counts EXCEPT ![k] = @ + 1]
  <2> DEFINE holes == HeaderHole
  <2>1. b \in Outs /\ Packing(packed, holes)
    BY <1>3
  <2> HIDE DEF holes
  <2>2. Size(new) = Size(packed) /\ new.msg = packed.msg /\ new.start = b.start /\ new.section = b.section
    BY <2>1, CountedStands, ZenonT(30)
  <2>3. new.counts = [b.counts EXCEPT ![b.section] = @ + 1]
    BY <2>1, CountedStands, ZenonT(30)
  <2> QED
    BY <2>2, <2>3
<1>5. counts \in [Sections -> Nat]
  BY <1>3 DEF Outs
<1>6. new.counts = OneMore(counts, k)
  BY <1>4 DEF OneMore
<1>7. Size(b) \in Nat /\ Size(packed) \in Nat /\ Size(b) <= Size(packed)
  <2> DEFINE holes == HeaderHole
  <2>1. Packing(b, holes) /\ Packing(packed, holes)
    OBVIOUS
  <2> HIDE DEF holes
  <2> QED
    BY <2>1, ExtendsSize
<1>8. Continues(packed.msg, b.msg, b.start, Size(b))
  <2> DEFINE holes == HeaderHole
  <2>1. Packing(b, holes)
    OBVIOUS
  <2> HIDE DEF holes
  <2> QED
    BY <2>1, ExtendsContinues
<1>9. PICK ends : Laid(b.msg, b.start, Size(b), items, n, ends)
  BY DEF HoldsItems, Lies
<1>10. packed.start = b.start
  BY DEF Extends
<1>11. Len(more) = n + 1
  BY <1>2 DEF Joined
<1>12. Lies(new, more)
  <2> DEFINE u == b.msg
             v == packed.msg
             s == b.start
             z == Size(b)
             y == Size(packed)
  <2>1. /\ z \in Nat /\ Laid(u, s, z, items, n, ends) /\ Continues(v, u, s, z)
        /\ y \in Nat /\ z <= y /\ ItemStands(v, s, entry, z, y)
    BY <1>7, <1>8, <1>9, <1>10
  <2> HIDE DEF u, v, s, z, y, more, n
  <2>2. \E e : Laid(v, s, y, more, n + 1, e)
    BY <1>2, <2>1, LaidMore
  <2> QED
    BY <1>4, <1>11, <2>2 DEF Lies, v, s, y
<1>13. Ordered(counts, items) /\ NoneAfter(counts, k)
  BY DEF HoldsItems
<1>14. Ordered(OneMore(counts, k), more)
  <2> HIDE DEF counts, k, more, n
  <2>1. k \in Sections /\ entry.section = k
    BY DEF k
  <2> QED
    BY <1>2, <1>5, <1>13, <2>1, OrderedMore
<1>15. NoneAfter(new.counts, k)
  <2>1. \A t \in Sections : t > k => t # k
    BY SectionsAre
  <2>2. \A t \in Sections : t # k => new.counts[t] = counts[t]
    BY <1>4, <1>5
  <2> QED
    BY <1>13, <2>1, <2>2 DEF NoneAfter
<1>16. \A t \in Sections : new.counts[t] <= MaxCount
  <2>1. counts[k] < MaxCount /\ \A t \in Sections : counts[t] <= MaxCount /\ counts[t] \in Nat
    BY <1>5 DEF ItemCounted, HoldsItems
  <2>2. MaxCount \in Int
    <3> DEFINE top == 2^16 - 1
    <3>1. MaxCount \in 0 .. top
      BY CountAssumption
    <3>2. top \in Int
      OBVIOUS
    <3> HIDE DEF top
    <3> QED
      BY <3>1, <3>2
  <2>3. ASSUME NEW t \in Sections PROVE new.counts[t] <= MaxCount
    <3>1. CASE t = k
      <4>1. new.counts[t] = counts[k] + 1
        BY <1>4, <1>5, <3>1
      <4> DEFINE c == counts[k]
      <4>2. c \in Nat /\ c < MaxCount
        BY <2>1
      <4> HIDE DEF c
      <4>3. c + 1 <= MaxCount
        BY <2>2, <4>2
      <4> QED
        BY <4>1, <4>3 DEF c
    <3>2. CASE t # k
      <4>1. new.counts[t] = counts[t]
        BY <1>4, <1>5, <3>2
      <4> QED
        BY <2>1, <4>1
    <3> QED
      BY <3>1, <3>2
  <2> QED
    BY <2>3
<1> QED
  BY <1>2, <1>4, <1>6, <1>12, <1>14, <1>15, <1>16 DEF HoldsItems

(* Finishing a message fills in the header and nothing else.                *)
LEMMA FinishedHeader ==
    ASSUME NEW b, Packing(b, HeaderHole)
    PROVE  HeaderLaid(Finish(b)) /\ Continues(Finish(b).msg, b.msg, b.start, Size(b))
<1> DEFINE new == Finish(b)
<1>1. /\ new.start = b.start /\ new.head = b.head /\ new.counts = b.counts
      /\ \A x \in 1 .. Size(b) : x \notin HeaderHole => new.msg[b.start + x] = b.msg[b.start + x]
      /\ \A x \in 1 .. 12 : new.msg[b.start + x] = HeaderBytes(b)[x]
  BY FinishIs
<1>2. b \in Outs
  BY DEF Packing
<1> HIDE DEF new
<1>3. HeadNumbers(new) = HeadNumbers(b)
  BY <1>1 DEF HeadNumbers
<1>4. ASSUME NEW i \in 1 .. 6
      PROVE  /\ new.msg[new.start + (2 * i - 1)] = Pack16(HeadNumbers(new)[i])[1]
             /\ new.msg[new.start + 2 * i] = Pack16(HeadNumbers(new)[i])[2]
  <2>1. 2 * i - 1 \in 1 .. 12 /\ 2 * i \in 1 .. 12
    OBVIOUS
  <2>2. /\ HeaderBytes(b)[2 * i - 1] = Pack16(HeadNumbers(b)[i])[1]
        /\ HeaderBytes(b)[2 * i] = Pack16(HeadNumbers(b)[i])[2]
    BY <1>2, HeaderBytesAre
  <2> QED
    BY <1>1, <1>3, <2>1, <2>2
<1> QED
  BY <1>1, <1>4 DEF HeaderLaid, Continues, new

(* What a call of the builder that has not failed gives.                      *)
CallHolds(b, items) ==
    b.ok /\ Packing(b, HeaderHole) /\ HoldsItems(b, items) /\ (b.section = SectionDone => HeaderLaid(b))

(* A call of the builder that succeeds or changes nothing.                  *)
LEMMA CallContains ==
    ASSUME BuilderHolds, NEW b, NEW items, Call(b, items),
           ~ stale => CallHolds(b, built \o items) \/ (Failed(builder, b) /\ ~ b.ok)
    PROVE  BuilderHolds'
<1> SUFFICES ASSUME ~ stale'
             PROVE  /\ Packing(builder', HeaderHole) /\ HoldsItems(builder', built')
                    /\ builder'.section = SectionDone => HeaderLaid(builder')
  BY DEF BuilderHolds
<1>1. /\ builder' = [b EXCEPT !.ok = TRUE]
      /\ built' = IF b.ok THEN built \o items ELSE built
      /\ stale' = IF b.ok THEN stale ELSE (stale \/ b.suffixes # builder.suffixes)
  BY DEF Call
<1>2. ~ stale
  BY <1>1
<1>3. /\ Packing(builder, HeaderHole) /\ builder \in Outs /\ builder.ok /\ HoldsItems(builder, built)
      /\ builder.section = SectionDone => HeaderLaid(builder)
  BY <1>2 DEF BuilderHolds, Packing
<1>4. CASE CallHolds(b, built \o items)
  <2>1. b \in Outs /\ b.ok
    BY <1>4 DEF Packing, CallHolds
  <2>2. builder' = b /\ built' = built \o items
    BY <1>1, <2>1, OkIsTrue
  <2> QED
    BY <1>4, <2>2 DEF CallHolds
<1>5. CASE Failed(builder, b) /\ ~ b.ok
  <2>1. b.suffixes = builder.suffixes
    BY <1>1, <1>5
  <2>2. builder' = builder /\ built' = built
    BY <1>1, <1>3, <1>5, <2>1, FailedCall
  <2> QED
    BY <1>3, <2>2
<1> QED
  BY <1>2, <1>4, <1>5

(* A call of the builder that leaves the message as it is.                  *)
LEMMA SameHolds ==
    ASSUME NEW b, Packing(b, HeaderHole), NEW items, HoldsItems(b, items), b.section # SectionDone,
           NEW new, Packing(new, HeaderHole), Size(new) = Size(b), new.start = b.start, new.counts = b.counts,
           b.section <= new.section, new.section # SectionDone, new.msg = b.msg
    PROVE  CallHolds(new, items)
<1>1. new.ok /\ new.section \in Int
  BY SectionsAre DEF Packing, Outs, SectionHeader, SectionDone
<1>2. Continues(new.msg, b.msg, b.start, Size(b))
  BY DEF Continues
<1>3. HoldsItems(new, items)
  BY <1>1, <1>2, SameContents
<1> QED
  BY <1>1, <1>3 DEF CallHolds

(* A new builder.                                                           *)
LEMMA InitHolds == Init => BuilderHolds
<1> SUFFICES ASSUME Init PROVE BuilderHolds
  OBVIOUS
<1>1. PICK buf \in Buffers, head \in Headers : builder = NewBuilder(buf, head)
  BY DEF Init
<1>2. buf \in Bytes /\ head \in MessageHeads
  BY InputAssumption
<1>3. Packing(builder, HeaderHole) /\ HoldsItems(builder, <<>>)
  BY <1>1, <1>2, NewBuilderStands, NewContains
<1>4. builder.section # SectionDone
  BY <1>1 DEF NewBuilder, SectionHeader, SectionDone
<1> QED
  BY <1>3, <1>4 DEF BuilderHolds, Init

(* What a call adds is one item of the section of the builder.              *)
LEMMA EntryIs ==
    /\ builder.section = Questions =>
          \A q \in QuestionItems : Entry(q) = <<[section |-> Questions, item |-> q]>>
                                   /\ [section |-> Questions, item |-> q] \in BuiltEntries
    /\ builder.section \in RecordSections =>
          \A r \in RecordItems : Entry(r) = <<[section |-> builder.section, item |-> r]>>
                                 /\ [section |-> builder.section, item |-> r] \in BuiltEntries
BY DEF Entry, BuiltEntries

(* Adding a question.                                                       *)
LEMMA QuestionHolds ==
    ASSUME Packing(builder, HeaderHole), HoldsItems(builder, built), NEW q \in QuestionItems,
           NEW b, QuestionAdded(builder, q, b)
    PROVE  CallHolds(b, built \o Entry(q))
<1> DEFINE packed == PackQuestion(builder, q)
           entry == [section |-> Questions, item |-> q]
<1>1. /\ builder.section = Questions /\ packed.ok
      /\ Packing(packed, HeaderHole) /\ Extends(packed, builder) /\ ItemCounted(builder, packed, b)
  BY DEF QuestionAdded
<1>2. entry \in BuiltEntries /\ Entry(q) = <<entry>> /\ entry.section = Questions /\ entry.item = q
  BY <1>1, EntryIs
<1>3. builder.section \in Sections /\ builder \in Outs
  BY <1>1, SectionsAre DEF Packing
<1>4. QuestionFits(q) /\ q = Firsts(q, 3)
  BY ItemsFit, ItemsAre
<1> HIDE DEF entry
<1>5. ItemStands(packed.msg, packed.start, entry, Size(builder), Size(packed))
  <2>1. packed = PackQuestion(builder, q)
    OBVIOUS
  <2> HIDE DEF packed
  <2> QED
    BY <1>1, <1>2, <1>4, <2>1, QuestionStands
<1> HIDE DEF packed
<1>6. HoldsItems(b, built \o <<entry>>)
  BY <1>1, <1>2, <1>3, <1>5, MoreContained
<1>7. Packing(b, HeaderHole) /\ b.section = builder.section
  BY <1>1, <1>3, CountedStands
<1>8. b.ok /\ b.section # SectionDone
  BY <1>1, <1>7 DEF Packing, Questions, SectionDone
<1> QED
  BY <1>2, <1>6, <1>7, <1>8 DEF CallHolds

(* Adding a record.                                                         *)
LEMMA RecordHolds ==
    ASSUME Packing(builder, HeaderHole), HoldsItems(builder, built), NEW r \in RecordItems,
           NEW b, RecordAdded(builder, r, b)
    PROVE  CallHolds(b, built \o Entry(r))
<1> DEFINE packed == PackRecord(builder, r)
           entry == [section |-> builder.section, item |-> r]
<1>1. /\ builder.section \in RecordSections /\ packed.ok
      /\ Packing(packed, HeaderHole) /\ Extends(packed, builder) /\ ItemCounted(builder, packed, b)
  BY DEF RecordAdded
<1>2. entry \in BuiltEntries /\ Entry(r) = <<entry>> /\ entry.section = builder.section /\ entry.item = r
  BY <1>1, EntryIs
<1>3. builder.section \in Sections /\ builder \in Outs /\ builder.section # Questions
  BY <1>1, SectionsAre DEF Packing
<1>4. RecordFits(r) /\ IsRecord(r)
  BY ItemsFit, ItemsAre
<1> HIDE DEF entry
<1>5. ItemStands(packed.msg, packed.start, entry, Size(builder), Size(packed))
  <2>1. packed = PackRecord(builder, r) /\ entry.section # Questions
    BY <1>2, <1>3
  <2> HIDE DEF packed
  <2> QED
    BY <1>1, <1>2, <1>4, <2>1, PackedRecordStands
<1> HIDE DEF packed
<1>6. HoldsItems(b, built \o <<entry>>)
  BY <1>1, <1>2, <1>3, <1>5, MoreContained
<1>7. Packing(b, HeaderHole) /\ b.section = builder.section
  BY <1>1, <1>3, CountedStands
<1>8. b.ok /\ b.section # SectionDone
  BY <1>1, <1>7, SectionsAre DEF Packing, SectionDone
<1> QED
  BY <1>2, <1>6, <1>7, <1>8 DEF CallHolds

(* Switching compression on.                                                *)
LEMMA CompressHolds ==
    ASSUME NEW b, Packing(b, HeaderHole), NEW items, HoldsItems(b, items), b.section # SectionDone
    PROVE  CallHolds(EnableCompression(b), items)
<1> DEFINE new == EnableCompression(b)
<1>1. new = [b EXCEPT !.compress = TRUE, !.suffixes = NoSuffixes]
  BY DEF EnableCompression
<1>2. Packing(new, HeaderHole) /\ b \in Outs
  BY CompressStands DEF Packing
<1> HIDE DEF new
<1>3. new.msg = b.msg /\ new.start = b.start /\ new.counts = b.counts /\ new.section = b.section
  BY <1>1, <1>2 DEF Outs
<1>4. Size(new) = Size(b) /\ b.section <= new.section
  <2>1. b.section \in Int
    BY <1>2 DEF Outs, SectionHeader, SectionDone
  <2> QED
    BY <1>3, <2>1 DEF Size
<1>5. CallHolds(new, items)
  BY <1>2, <1>3, <1>4, SameHolds
<1> QED
  BY <1>5 DEF new

(* Starting a section.                                                      *)
LEMMA StartHolds ==
    ASSUME NEW b, Packing(b, HeaderHole), NEW items, HoldsItems(b, items), b.section # SectionDone,
           NEW section \in Sections
    PROVE  \/ CallHolds(StartSection(b, section), items)
           \/ Failed(b, StartSection(b, section)) /\ ~ StartSection(b, section).ok
<1> DEFINE new == [b EXCEPT !.section = section]
           started == StartSection(b, section)
<1>1. \/ /\ b.section <= section /\ started = new /\ Packing(new, HeaderHole) /\ Size(new) = Size(b)
      \/ Failed(b, started) /\ ~ started.ok
  BY StartSectionIs
<1>2. b \in Outs
  BY DEF Packing
<1>3. new.msg = b.msg /\ new.start = b.start /\ new.counts = b.counts /\ new.section = section
  BY <1>2 DEF Outs
<1>4. section # SectionDone
  BY SectionsAre DEF SectionDone
<1> HIDE DEF new, started
<1>5. ASSUME b.section <= section, Packing(new, HeaderHole), Size(new) = Size(b)
      PROVE  CallHolds(new, items)
  BY <1>3, <1>4, <1>5, SameHolds
<1> QED
  BY <1>1, <1>5 DEF started

(* Finishing the message.                                                   *)
LEMMA FinishHolds ==
    ASSUME NEW b, Packing(b, HeaderHole), NEW items, HoldsItems(b, items)
    PROVE  CallHolds(Finish(b), items)
<1> DEFINE new == Finish(b)
<1>1. /\ Packing(new, HeaderHole) /\ Size(new) = Size(b) /\ new.start = b.start
      /\ new.section = SectionDone /\ new.counts = b.counts
  BY FinishIs
<1>2. HeaderLaid(new) /\ Continues(new.msg, b.msg, b.start, Size(b))
  BY FinishedHeader
<1> HIDE DEF new
<1>3. b.section <= new.section /\ new.section \in Int
  BY <1>1 DEF Packing, Outs, SectionHeader, SectionDone
<1>4. HoldsItems(new, items)
  BY <1>1, <1>2, <1>3, SameContents
<1>5. new.ok
  BY <1>1 DEF Packing
<1> QED
  BY <1>1, <1>2, <1>4, <1>5 DEF CallHolds, new

(* Every step.                                                              *)
LEMMA BuildingHolds == BuilderHolds /\ [Next]_vars => BuilderHolds'
<1> SUFFICES ASSUME BuilderHolds, [Next]_vars PROVE BuilderHolds'
  OBVIOUS
<1>1. ~ stale => Packing(builder, HeaderHole) /\ HoldsItems(builder, built)
  BY DEF BuilderHolds
<1> DEFINE none == <<>>
<1>2. ~ stale => built \o none = built
  <2>1. HoldsItems(builder, built) => built \in Seq(BuiltEntries)
    BY DEF HoldsItems
  <2> DEFINE V == BuiltEntries
  <2>2. built \in Seq(V) => built \o none = built
    BY NoneJoined
  <2> QED
    BY <1>1, <2>1, <2>2
<1> HIDE DEF none
<1>3. CASE Compress
  <2> DEFINE b == EnableCompression(builder)
  <2>1. Call(b, none) /\ builder.section # SectionDone
    BY <1>3 DEF Compress, Call, Building, none
  <2>2. ~ stale => CallHolds(b, built)
    BY <1>1, <2>1, CompressHolds
  <2> HIDE DEF b
  <2>3. ~ stale => CallHolds(b, built \o none)
    BY <1>2, <2>2
  <2> QED
    BY <2>1, <2>3, CallContains
<1>4. ASSUME NEW section \in Sections, Start(section) PROVE BuilderHolds'
  <2> DEFINE b == StartSection(builder, section)
  <2>1. Call(b, none) /\ builder.section # SectionDone
    BY <1>4 DEF Start, Call, Building, none
  <2>2. ~ stale => CallHolds(b, built) \/ (Failed(builder, b) /\ ~ b.ok)
    BY <1>1, <2>1, StartHolds
  <2> HIDE DEF b
  <2>3. ~ stale => CallHolds(b, built \o none) \/ (Failed(builder, b) /\ ~ b.ok)
    BY <1>2, <2>2
  <2> QED
    BY <2>1, <2>3, CallContains
<1>5. ASSUME NEW q \in QuestionItems, BuildQuestion(q) PROVE BuilderHolds'
  <2> DEFINE b == AddQuestion(builder, q)
             items == Entry(q)
  <2>1. Call(b, items)
    BY <1>5 DEF BuildQuestion
  <2>2. ~ stale => QuestionAdded(builder, q, b) \/ (Failed(builder, b) /\ ~ b.ok)
    BY <1>1, ItemsFit, AddQuestionIs
  <2> HIDE DEF b
  <2>3. ~ stale /\ QuestionAdded(builder, q, b) => CallHolds(b, built \o items)
    BY <1>1, QuestionHolds
  <2> HIDE DEF items
  <2> QED
    BY <2>1, <2>2, <2>3, CallContains
<1>6. ASSUME NEW r \in RecordItems, BuildResource(r) PROVE BuilderHolds'
  <2> DEFINE b == AddResource(builder, r)
             items == Entry(r)
  <2>1. Call(b, items)
    BY <1>6 DEF BuildResource
  <2>2. ~ stale => RecordAdded(builder, r, b) \/ (Failed(builder, b) /\ ~ b.ok)
    BY <1>1, ItemsFit, AddResourceIs
  <2> HIDE DEF b
  <2>3. ~ stale /\ RecordAdded(builder, r, b) => CallHolds(b, built \o items)
    BY <1>1, RecordHolds
  <2> HIDE DEF items
  <2> QED
    BY <2>1, <2>2, <2>3, CallContains
<1>7. CASE FinishMessage
  <2> DEFINE b == Finish(builder)
  <2>1. Call(b, none)
    BY <1>7 DEF FinishMessage, none
  <2>2. ~ stale => CallHolds(b, built)
    BY <1>1, FinishHolds
  <2> HIDE DEF b
  <2>3. ~ stale => CallHolds(b, built \o none)
    BY <1>2, <2>2
  <2> QED
    BY <2>1, <2>3, CallContains
<1>8. CASE UNCHANGED <<builder, stale, built>>
  BY <1>8 DEF BuilderHolds
<1>9. CASE UNCHANGED vars
  BY <1>8, <1>9 DEF vars
<1>10. ASSUME NEW lost \in Cuts, Arrive(lost) PROVE BuilderHolds'
  BY <1>8, <1>10 DEF Arrive
<1>11. ASSUME NEW how, NEW p, Take(how, p) PROVE BuilderHolds'
  BY <1>8, <1>11 DEF Take
<1>12. CASE TakeQuestion \/ PassQuestion
  BY <1>11, <1>12 DEF TakeQuestion, PassQuestion
<1>13. ASSUME NEW section \in RecordSections,
              TakeHeader(section) \/ TakeResource(section) \/ PassResource(section)
       PROVE  BuilderHolds'
  BY <1>11, <1>13 DEF TakeHeader, TakeResource, PassResource
<1>14. ASSUME NEW type, TakeBody(type) PROVE BuilderHolds'
  BY <1>11, <1>14 DEF TakeBody
<1>15. CASE TakeUnknown
  BY <1>11, <1>15 DEF TakeUnknown
<1> QED
  BY <1>3, <1>4, <1>5, <1>6, <1>7, <1>9, <1>10, <1>12, <1>13, <1>14, <1>15 DEF Next

(* What has been added stands in the message, item after item and in the order *)
(* of the sections, and the header says so once the message is finished.       *)
THEOREM BuilderAlwaysHolds == Spec => []BuilderHolds
BY InitHolds, BuildingHolds, PTL DEF Spec
==================================================================================
