------------------------ MODULE ConfigurationProofs ------------------------
(***************************************************************************)
(* Theorems about the configuration, for every file, every list of names   *)
(* and every order of the goroutines: recursion along a rank, the orders of *)
(* texts, the merge sort and the binary search, the goroutines that mark   *)
(* the filters that others cover, and the load as a whole.                  *)
(***************************************************************************)
EXTENDS Configuration, WellFoundedInduction, FiniteSetTheorems, SequenceTheorems, TLAPS

(* The order of the naturals.                                              *)
LessNat == {ss \in Nat \X Nat : ss[1] < ss[2]}

(* Every set of naturals that is not empty has a least member.              *)
LEMMA LeastNatural ==
    ASSUME NEW T, T \subseteq Nat, T # {}
    PROVE  \E m \in T : \A k \in T : m <= k
<1>1. IsWellFoundedOn(LessNat, Nat)
  BY NatLessThanWellFounded DEF OpToRel, LessNat
<1>2. PICK m \in T : \A k \in T : ~(<<k, m>> \in LessNat)
  BY <1>1, WFMin
<1>3. \A k \in T : ~(m > k)
  BY <1>2 DEF LessNat
<1> QED
  BY <1>3

(* Induction up to a bound, on the members of a set.                        *)
LEMMA UpToBound ==
    ASSUME NEW bound \in Nat, NEW S, 0 \in S,
           \A d \in 0 .. bound - 1 : d \in S => d + 1 \in S
    PROVE  0 .. bound \subseteq S
<1> DEFINE T == {d \in 0 .. bound : d \notin S}
<1> SUFFICES ASSUME T # {} PROVE FALSE
  OBVIOUS
<1>1. PICK m \in T : \A k \in T : m <= k
  BY LeastNatural, T \subseteq Nat
<1>2. m \in 1 .. bound /\ m - 1 \in 0 .. bound - 1 /\ m - 1 \notin T
  BY <1>1
<1>3. m - 1 \in S
  BY <1>2
<1> QED
  BY <1>1, <1>2, <1>3

(* A set that has an element as soon as it has all those of lower rank has   *)
(* them all.                                                                *)
LEMMA RankInduction ==
    ASSUME NEW S, NEW rank \in [S -> Nat], NEW P,
           \A x \in S : (\A y \in S : rank[y] < rank[x] => y \in P) => x \in P
    PROVE  S \subseteq P
<1> DEFINE T == {rank[x] : x \in S \ P}
<1> SUFFICES ASSUME T # {} PROVE FALSE
  OBVIOUS
<1>1. PICK m \in T : \A k \in T : m <= k
  BY LeastNatural, T \subseteq Nat
<1>2. PICK x \in S \ P : rank[x] = m
  BY <1>1
<1>3. \A y \in S : rank[y] < rank[x] => y \in P
  BY <1>1, <1>2
<1> QED
  BY <1>2, <1>3

(* The functions F on S, and a step that defines a function anew from its     *)
(* values at lower ranks.                                                   *)
Recursive(S, F, step, rank, top) ==
    /\ F # {} /\ top \in Nat /\ \A x \in S : rank[x] \in 0 .. top
    /\ \A f, g \in F : (\A x \in S : f[x] = g[x]) => f = g
    /\ \A f \in F : step[f] \in F
    /\ \A f, g \in F, x \in S :
          (\A y \in S : rank[y] < rank[x] => f[y] = g[y]) => step[f][x] = step[g][x]

(* Such a step leaves a function as it is.                                   *)
LEMMA RankRecursion ==
    ASSUME NEW S, NEW F, NEW step, NEW rank, NEW top, Recursive(S, F, step, rank, top)
    PROVE  \E f \in F : f = step[f]
<1> USE DEF Recursive
<1> DEFINE IsGood(f, d) == \A x \in S : rank[x] < d => step[f][x] = f[x]
           T == {d \in Nat : ~ \E f \in F : IsGood(f, d)}
<1>1. \E f \in F : IsGood(f, 0)
  OBVIOUS
<1>2. ASSUME NEW d \in Nat, NEW f \in F, IsGood(f, d)
      PROVE  step[f] \in F /\ IsGood(step[f], d + 1)
  <2>1. step[f] \in F /\ step[step[f]] \in F
    OBVIOUS
  <2>2. ASSUME NEW x \in S, rank[x] < d + 1
        PROVE  step[step[f]][x] = step[f][x]
    <3>1. \A y \in S : rank[y] < rank[x] => step[f][y] = f[y]
      BY <1>2, <2>2
    <3> QED
      BY <2>1, <3>1
  <2> QED
    BY <2>1, <2>2
<1>3. T = {}
  <2> SUFFICES ASSUME T # {} PROVE FALSE
    OBVIOUS
  <2>1. PICK m \in T : \A k \in T : m <= k
    BY LeastNatural, T \subseteq Nat
  <2>2. m # 0
    BY <1>1, <2>1
  <2>3. m - 1 \in Nat /\ m - 1 \notin T
    BY <2>1, <2>2
  <2>4. PICK f \in F : IsGood(f, m - 1)
    BY <2>3
  <2>5. step[f] \in F /\ IsGood(step[f], m)
    BY <1>2, <2>3, <2>4
  <2> QED
    BY <2>1, <2>5
<1>4. PICK f \in F : IsGood(f, top + 1)
  <2>1. top + 1 \in Nat
    OBVIOUS
  <2>2. top + 1 \notin T
    BY <1>3
  <2> QED
    BY <2>1, <2>2
<1>5. \A x \in S : rank[x] < top + 1
  OBVIOUS
<1>6. \A x \in S : step[f][x] = f[x]
  BY <1>4, <1>5
<1>7. step[f] \in F
  OBVIOUS
<1> QED
  BY <1>6, <1>7

(* Functions with the same values are the same.                             *)
LEMMA SameFunctions ==
    ASSUME NEW S, NEW V, NEW f \in [S -> V], NEW g \in [S -> V], \A x \in S : f[x] = g[x]
    PROVE  f = g
OBVIOUS

-----------------------------------------------------------------------------
(* The orders.                                                             *)

(* A text is a sequence of numbers.                                        *)
LEMMA TextBytes ==
    ASSUME NEW t \in ByteString
    PROVE  /\ Len(t) \in Nat /\ DOMAIN t = 1 .. Len(t)
           /\ \A i \in DOMAIN t : t[i] \in Int
<1>1. t \in Seq(0 .. 255)
  BY DEF ByteString
<1>2. Len(t) \in Nat /\ DOMAIN t = 1 .. Len(t)
  BY <1>1, LenProperties
<1>3. \A i \in 1 .. Len(t) : t[i] \in 0 .. 255
  BY <1>1, ElementOfSeq
<1> QED
  BY <1>2, <1>3

(* Names and paths are ordered totally.                                     *)
LEMMA TextOrdered ==
    ASSUME NEW a \in ByteString, NEW b \in ByteString
    PROVE  /\ ~ TextLess(a, a)
           /\ a = b \/ TextLess(a, b) \/ TextLess(b, a)
<1>1. /\ Len(a) \in Nat /\ DOMAIN a = 1 .. Len(a) /\ \A i \in DOMAIN a : a[i] \in Int
      /\ Len(b) \in Nat /\ DOMAIN b = 1 .. Len(b) /\ \A i \in DOMAIN b : b[i] \in Int
  BY TextBytes
<1>2. ~ TextLess(a, a)
  BY <1>1 DEF TextLess
<1>3. ASSUME Len(a) = Len(b), a # b PROVE TextLess(a, b) \/ TextLess(b, a)
  <2> DEFINE T == {i \in DOMAIN a : a[i] # b[i]}
  <2>1. T \subseteq Nat /\ T # {}
    BY <1>1, <1>3, SeqEqual DEF ByteString
  <2>2. PICK m \in T : \A k \in T : m <= k
    BY <2>1, LeastNatural
  <2>3. \A j \in 1 .. m - 1 : a[j] = b[j]
    BY <1>1, <2>2
  <2>4. a[m] < b[m] \/ b[m] < a[m]
    BY <1>1, <1>3, <2>2
  <2> QED
    BY <1>1, <1>3, <2>2, <2>3, <2>4 DEF TextLess
<1>4. ASSUME Len(a) # Len(b) PROVE TextLess(a, b) \/ TextLess(b, a)
  <2>1. Len(a) \in Int /\ Len(b) \in Int
    BY <1>1
  <2>2. Len(a) < Len(b) \/ Len(b) < Len(a)
    BY <1>4, <2>1
  <2> QED
    BY <2>2 DEF TextLess
<1> QED
  BY <1>2, <1>3, <1>4

(* TextLess is transitive: cmp of config/filterList.go and of appList.go.  *)
LEMMA TextLessTransitive ==
    ASSUME NEW a \in ByteString, NEW b \in ByteString, NEW c \in ByteString,
           TextLess(a, b), TextLess(b, c)
    PROVE  TextLess(a, c)
<1>1. /\ Len(a) \in Nat /\ DOMAIN a = 1 .. Len(a) /\ \A i \in DOMAIN a : a[i] \in Int
      /\ Len(b) \in Nat /\ DOMAIN b = 1 .. Len(b) /\ \A i \in DOMAIN b : b[i] \in Int
      /\ Len(c) \in Nat /\ DOMAIN c = 1 .. Len(c) /\ \A i \in DOMAIN c : c[i] \in Int
  BY TextBytes
<1>5. Len(a) \in Int /\ Len(b) \in Int /\ Len(c) \in Int
  BY <1>1
<1>6. (Len(a) < Len(b) \/ Len(a) = Len(b)) /\ (Len(b) < Len(c) \/ Len(b) = Len(c))
  BY DEF TextLess
<1>2. Len(a) <= Len(b) /\ Len(b) <= Len(c)
  BY <1>5, <1>6
<1>3. CASE Len(a) # Len(b) \/ Len(b) # Len(c)
  <2>1. Len(a) < Len(c)
    BY <1>2, <1>3, <1>5
  <2> QED
    BY <2>1 DEF TextLess
<1>4. CASE Len(a) = Len(b) /\ Len(b) = Len(c)
  <2>1. PICK i \in DOMAIN a : a[i] < b[i] /\ \A j \in 1 .. i - 1 : a[j] = b[j]
    BY <1>1, <1>4 DEF TextLess
  <2>2. PICK k \in DOMAIN b : b[k] < c[k] /\ \A j \in 1 .. k - 1 : b[j] = c[j]
    BY <1>1, <1>4 DEF TextLess
  <2>3. /\ DOMAIN a = 1 .. Len(a) /\ DOMAIN b = DOMAIN a /\ DOMAIN c = DOMAIN a
        /\ a[i] \in Int /\ b[i] \in Int /\ c[i] \in Int
        /\ a[k] \in Int /\ b[k] \in Int /\ c[k] \in Int /\ i \in Int /\ k \in Int
    BY <1>1, <1>4, <2>1, <2>2
  <2>4. CASE i < k
    <3>1. a[i] < c[i] /\ \A j \in 1 .. i - 1 : a[j] = c[j]
      BY <2>1, <2>2, <2>3, <2>4
    <3> QED
      BY <1>4, <3>1 DEF TextLess
  <2>5. CASE k <= i
    <3>1. a[k] < c[k] /\ \A j \in 1 .. k - 1 : a[j] = c[j]
      BY <2>1, <2>2, <2>3, <2>5
    <3> QED
      BY <1>4, <2>3, <3>1 DEF TextLess
  <2> QED
    BY <2>3, <2>4, <2>5
<1> QED
  BY <1>3, <1>4

(* P orders the members of D strictly and totally.                          *)
StrictOrder(P, D) ==
    /\ \A x \in D : <<x, x>> \notin P
    /\ \A x, y, z \in D : <<x, y>> \in P /\ <<y, z>> \in P => <<x, z>> \in P
    /\ \A x, y \in D : x = y \/ <<x, y>> \in P \/ <<y, x>> \in P

(* A list r of the members of s at the places X, in the order P: p tells      *)
(* which place each comes from.                                             *)
Lists(r, p, s, X, P) ==
    /\ p \in [1 .. Len(r) -> X]
    /\ \A k \in 1 .. Len(r) : r[k] = s[p[k]]
    /\ \A k, l \in 1 .. Len(r) : k < l => <<p[k], p[l]>> \in P
    /\ \A x \in X : \E k \in 1 .. Len(r) : p[k] = x

(* The places that p lists from i on.                                      *)
Behind(p, i, n) == {p[k] : k \in i .. n}

(* The rest of a list lists what is behind.                                *)
LEMMA TailLists ==
    ASSUME NEW E, NEW s, NEW X, NEW P, NEW r \in Seq(E), NEW p, Lists(r, p, s, X, P),
           NEW i \in 1 .. Len(r) + 1
    PROVE  /\ SubSeq(r, i, Len(r)) \in Seq(E)
           /\ \E q : Lists(SubSeq(r, i, Len(r)), q, s, Behind(p, i, Len(r)), P)
<1> DEFINE t == SubSeq(r, i, Len(r))
           n == Len(r) - i + 1
           q == [k \in 1 .. n |-> p[i + k - 1]]
           B == Behind(p, i, Len(r))
<1>1. /\ Len(r) \in Nat /\ n \in Nat /\ t \in Seq(E) /\ Len(t) = n
      /\ \A k \in 1 .. n : t[k] = r[i + k - 1] /\ i + k - 1 \in i .. Len(r)
  BY SubSeqProperties
<1>2. q \in [1 .. n -> B]
  BY <1>1 DEF Behind
<1>3. \A k \in 1 .. n : t[k] = s[q[k]]
  BY <1>1 DEF Lists
<1>4. \A k, l \in 1 .. n : k < l => <<q[k], q[l]>> \in P
  BY <1>1 DEF Lists
<1>5. ASSUME NEW x \in B PROVE \E k \in 1 .. n : q[k] = x
  <2>1. PICK k \in i .. Len(r) : x = p[k]
    BY DEF Behind
  <2>2. k - i + 1 \in 1 .. n /\ q[k - i + 1] = x
    BY <1>1, <2>1
  <2> QED
    BY <2>2
<1>6. Lists(t, q, s, B, P)
  BY <1>1, <1>2, <1>3, <1>4, <1>5 DEF Lists
<1> QED
  BY <1>1, <1>6

(* A list stays in order with a member in front that is before all others. *)
LEMMA ConsLists ==
    ASSUME NEW E, NEW s, NEW X, NEW P, NEW r \in Seq(E), NEW p, Lists(r, p, s, X, P),
           NEW x, s[x] \in E, \A y \in X : <<x, y>> \in P
    PROVE  /\ <<s[x]>> \o r \in Seq(E)
           /\ \E q : Lists(<<s[x]>> \o r, q, s, {x} \cup X, P)
<1> DEFINE t == <<s[x]>> \o r
           n == Len(r) + 1
           q == [k \in 1 .. n |-> IF k = 1 THEN x ELSE p[k - 1]]
<1>1. /\ Len(r) \in Nat /\ t \in Seq(E) /\ Len(t) = n /\ t[1] = s[x]
      /\ \A k \in 2 .. n : t[k] = r[k - 1] /\ k - 1 \in 1 .. Len(r)
  BY ConcatProperties
<1> HIDE DEF t
<1>2. q \in [1 .. n -> {x} \cup X]
  BY <1>1 DEF Lists
<1>3. q[1] = x /\ \A k \in 2 .. n : q[k] = p[k - 1] /\ p[k - 1] \in X
  BY <1>1 DEF Lists
<1> HIDE DEF q
<1>8. /\ \A k \in 1 .. Len(r) : r[k] = s[p[k]]
      /\ \A k, l \in 1 .. Len(r) : k < l => <<p[k], p[l]>> \in P
  BY DEF Lists
<1>7. ASSUME NEW k \in 1 .. n PROVE t[k] = s[q[k]]
  <2>1. k = 1 \/ (k \in 2 .. n /\ k - 1 \in 1 .. Len(r))
    BY <1>1
  <2> QED
    BY <1>1, <1>3, <1>8, <2>1
<1>4. ASSUME NEW k \in 1 .. n, NEW l \in 1 .. n, k < l PROVE <<q[k], q[l]>> \in P
  <2>1. l \in 2 .. n /\ l - 1 \in 1 .. Len(r)
    BY <1>1, <1>4
  <2>2. CASE k = 1
    BY <1>3, <2>1, <2>2
  <2>3. CASE k # 1
    <3>1. k \in 2 .. n /\ k - 1 \in 1 .. Len(r) /\ k - 1 < l - 1
      BY <1>1, <1>4, <2>3
    <3> QED
      BY <1>3, <1>8, <2>1, <3>1
  <2> QED
    BY <2>2, <2>3
<1>5. ASSUME NEW y \in {x} \cup X PROVE \E k \in 1 .. n : q[k] = y
  <2>1. CASE y = x
    BY <1>1, <1>3, <2>1
  <2>2. CASE y \in X
    <3>1. PICK k \in 1 .. Len(r) : p[k] = y
      BY <2>2 DEF Lists
    <3>2. k + 1 \in 2 .. n /\ q[k + 1] = y
      BY <1>1, <1>3, <3>1
    <3> QED
      BY <3>2
  <2> QED
    BY <2>1, <2>2
<1>6. Lists(t, q, s, {x} \cup X, P)
  BY <1>1, <1>2, <1>7, <1>4, <1>5 DEF Lists
<1> QED
  BY <1>1, <1>6 DEF t

-----------------------------------------------------------------------------
(* Merging.                                                                *)

(* How far Merge can be in its two sequences.                              *)
MergePlaces(u, v) == (1 .. Len(u) + 1) \X (1 .. Len(v) + 1)

(* The recursion of Merge, where c are the places at which v has less.       *)
MergeStep(u, v, c, m) ==
    [at \in MergePlaces(u, v) |->
       IF at[1] > Len(u) THEN SubSeq(v, at[2], Len(v))
       ELSE IF at[2] > Len(v) THEN SubSeq(u, at[1], Len(u))
       ELSE IF at \in c THEN <<v[at[2]]>> \o m[<<at[1], at[2] + 1>>]
       ELSE <<u[at[1]]>> \o m[<<at[1] + 1, at[2]>>]]

(* The elements Merge still has to take.                                   *)
MergeRank(u, v) ==
    [at \in MergePlaces(u, v) |-> (Len(u) + 1 - at[1]) + (Len(v) + 1 - at[2])]

(* Every element Merge takes leaves one fewer.                             *)
LEMMA MergeRankFalls ==
    ASSUME NEW E, NEW u \in Seq(E), NEW v \in Seq(E), NEW at \in MergePlaces(u, v)
    PROVE  /\ Len(u) \in Nat /\ Len(v) \in Nat
           /\ at[1] \in 1 .. Len(u) + 1 /\ at[2] \in 1 .. Len(v) + 1 /\ at = <<at[1], at[2]>>
           /\ MergeRank(u, v)[at] \in 0 .. Len(u) + Len(v)
           /\ at[1] <= Len(u) /\ at[2] <= Len(v) =>
                 /\ u[at[1]] \in E /\ v[at[2]] \in E
                 /\ <<at[1], at[2] + 1>> \in MergePlaces(u, v)
                 /\ MergeRank(u, v)[<<at[1], at[2] + 1>>] < MergeRank(u, v)[at]
                 /\ <<at[1] + 1, at[2]>> \in MergePlaces(u, v)
                 /\ MergeRank(u, v)[<<at[1] + 1, at[2]>>] < MergeRank(u, v)[at]
<1>1. Len(u) \in Nat /\ Len(v) \in Nat
  BY LenProperties
<1>2. at[1] \in 1 .. Len(u) + 1 /\ at[2] \in 1 .. Len(v) + 1 /\ at = <<at[1], at[2]>>
  BY DEF MergePlaces
<1>3. \A i \in 1 .. Len(u) + 1, j \in 1 .. Len(v) + 1 :
         /\ <<i, j>> \in MergePlaces(u, v)
         /\ MergeRank(u, v)[<<i, j>>] = (Len(u) + 1 - i) + (Len(v) + 1 - j)
  BY <1>1 DEF MergePlaces, MergeRank
<1>4. MergeRank(u, v)[at] = (Len(u) + 1 - at[1]) + (Len(v) + 1 - at[2])
  BY <1>2, <1>3
<1> DEFINE x == at[1]
           y == at[2]
<1> HIDE DEF x, y
<1>5. x \in 1 .. Len(u) + 1 /\ y \in 1 .. Len(v) + 1
      /\ MergeRank(u, v)[at] = (Len(u) + 1 - x) + (Len(v) + 1 - y)
  BY <1>2, <1>4 DEF x, y
<1>6. MergeRank(u, v)[at] \in 0 .. Len(u) + Len(v)
  BY <1>1, <1>5
<1>7. ASSUME x <= Len(u), y <= Len(v)
      PROVE  /\ u[x] \in E /\ v[y] \in E
             /\ <<x, y + 1>> \in MergePlaces(u, v) /\ <<x + 1, y>> \in MergePlaces(u, v)
             /\ MergeRank(u, v)[<<x, y + 1>>] < MergeRank(u, v)[at]
             /\ MergeRank(u, v)[<<x + 1, y>>] < MergeRank(u, v)[at]
  <2>1. x \in 1 .. Len(u) /\ y \in 1 .. Len(v)
    BY <1>1, <1>5, <1>7
  <2>2. x + 1 \in 1 .. Len(u) + 1 /\ y + 1 \in 1 .. Len(v) + 1
    BY <1>1, <2>1
  <2>3. u[x] \in E /\ v[y] \in E
    BY <2>1, ElementOfSeq
  <2>4. /\ <<x, y + 1>> \in MergePlaces(u, v) /\ <<x + 1, y>> \in MergePlaces(u, v)
        /\ MergeRank(u, v)[<<x, y + 1>>] = (Len(u) + 1 - x) + (Len(v) + 1 - (y + 1))
        /\ MergeRank(u, v)[<<x + 1, y>>] = (Len(u) + 1 - (x + 1)) + (Len(v) + 1 - y)
    BY <1>3, <1>5, <2>2
  <2>5. x \in Int /\ y \in Int
    BY <2>1
  <2> QED
    BY <1>1, <1>5, <2>3, <2>4, <2>5
<1> QED
  BY <1>1, <1>2, <1>6, <1>7 DEF x, y

(* A function that satisfies the recursion.                                *)
HasMerge(E, u, v, c) ==
    \E m \in [MergePlaces(u, v) -> Seq(E)] : m = MergeStep(u, v, c, m)

(* The recursion defines a function.                                        *)
LEMMA MergeExists ==
    ASSUME NEW E, NEW u \in Seq(E), NEW v \in Seq(E), NEW c
    PROVE  HasMerge(E, u, v, c)
<1> DEFINE S == MergePlaces(u, v)
           F == [S -> Seq(E)]
           step == [m \in F |-> MergeStep(u, v, c, m)]
           rank == MergeRank(u, v)
           top == Len(u) + Len(v)
<1>1. F # {}
  <2>1. [at \in S |-> <<>>] \in F
    BY EmptySeq
  <2> QED
    BY <2>1
<1>2. top \in Nat /\ \A x \in S : rank[x] \in 0 .. top
  <2>1. Len(u) \in Nat /\ Len(v) \in Nat
    BY LenProperties
  <2>2. ASSUME NEW x \in S PROVE rank[x] \in 0 .. top
    BY MergeRankFalls
  <2> QED
    BY <2>1, <2>2
<1>3. \A f, g \in F : (\A x \in S : f[x] = g[x]) => f = g
  OBVIOUS
<1>4. \A f \in F : step[f] \in F
  <2> SUFFICES ASSUME NEW f \in F, NEW at \in S PROVE MergeStep(u, v, c, f)[at] \in Seq(E)
    BY DEF MergeStep
  <2>1. CASE at[1] > Len(u) \/ at[2] > Len(v)
    <3>1. /\ at[1] \in 1 .. Len(u) + 1 /\ at[2] \in 1 .. Len(v) + 1
          /\ Len(u) \in Nat /\ Len(v) \in Nat
      BY MergeRankFalls
    <3>2. SubSeq(u, at[1], Len(u)) \in Seq(E) /\ SubSeq(v, at[2], Len(v)) \in Seq(E)
      BY <3>1, SubSeqProperties
    <3> QED
      BY <2>1, <3>2 DEF MergeStep
  <2>2. CASE ~ (at[1] > Len(u)) /\ ~ (at[2] > Len(v))
    <3>1. /\ u[at[1]] \in E /\ v[at[2]] \in E
          /\ <<at[1], at[2] + 1>> \in S /\ <<at[1] + 1, at[2]>> \in S
      BY <2>2, MergeRankFalls
    <3>2. /\ <<v[at[2]]>> \o f[<<at[1], at[2] + 1>>] \in Seq(E)
          /\ <<u[at[1]]>> \o f[<<at[1] + 1, at[2]>>] \in Seq(E)
      BY <3>1, ConcatProperties
    <3> QED
      BY <2>2, <3>2 DEF MergeStep
  <2> QED
    BY <2>1, <2>2
<1>5. ASSUME NEW f \in F, NEW g \in F, NEW at \in S,
             \A y \in S : rank[y] < rank[at] => f[y] = g[y]
      PROVE  step[f][at] = step[g][at]
  <2>1. at[1] <= Len(u) /\ at[2] <= Len(v) =>
           /\ f[<<at[1], at[2] + 1>>] = g[<<at[1], at[2] + 1>>]
           /\ f[<<at[1] + 1, at[2]>>] = g[<<at[1] + 1, at[2]>>]
    BY <1>5, MergeRankFalls
  <2>2. /\ at[1] \in 1 .. Len(u) + 1 /\ at[2] \in 1 .. Len(v) + 1
        /\ Len(u) \in Nat /\ Len(v) \in Nat
    BY MergeRankFalls
  <2> QED
    BY <2>1, <2>2 DEF MergeStep
<1> HIDE DEF S, F, step, rank, top
<1>6. Recursive(S, F, step, rank, top)
  BY <1>1, <1>2, <1>3, <1>4, <1>5 DEF Recursive
<1>7. PICK m \in F : m = step[m]
  BY <1>6, RankRecursion
<1> QED
  BY <1>7 DEF F, step, S, HasMerge

(* What is behind a place is that place and what is behind the next.       *)
LEMMA BehindNext ==
    ASSUME NEW p, NEW n \in Nat, NEW i \in 1 .. n
    PROVE  Behind(p, i, n) = {p[i]} \cup Behind(p, i + 1, n)
BY DEF Behind

(* Behind the first place is everything.                                   *)
LEMMA BehindAll ==
    ASSUME NEW r, NEW p, NEW s, NEW X, NEW P, Lists(r, p, s, X, P)
    PROVE  Behind(p, 1, Len(r)) = X
<1>1. p \in [1 .. Len(r) -> X] /\ \A x \in X : \E k \in 1 .. Len(r) : p[k] = x
  BY DEF Lists
<1>2. Behind(p, 1, Len(r)) \subseteq X
  BY <1>1 DEF Behind
<1>3. ASSUME NEW x \in X PROVE x \in Behind(p, 1, Len(r))
  BY <1>1 DEF Behind
<1> QED
  BY <1>2, <1>3

(* u and v list different places of s, m merges them, and c are the places   *)
(* at which the next one of v comes first.                                  *)
Merging(E, s, P, u, v, c, m, X, Y, p, q) ==
    /\ s \in Seq(E) /\ StrictOrder(P, DOMAIN s)
    /\ u \in Seq(E) /\ v \in Seq(E) /\ m = MergeStep(u, v, c, m)
    /\ X \subseteq DOMAIN s /\ Y \subseteq DOMAIN s /\ X \cap Y = {}
    /\ Lists(u, p, s, X, P) /\ Lists(v, q, s, Y, P)
    /\ \A at \in MergePlaces(u, v) :
          at[1] <= Len(u) /\ at[2] <= Len(v) => (at \in c <=> <<q[at[2]], p[at[1]]>> \in P)

(* A merge lists the places of both lists.                                   *)
LEMMA MergeLists ==
    ASSUME NEW E, NEW s, NEW P, NEW u, NEW v, NEW c, NEW m, NEW X, NEW Y, NEW p, NEW q,
           Merging(E, s, P, u, v, c, m, X, Y, p, q)
    PROVE  /\ m[<<1, 1>>] \in Seq(E)
           /\ \E r : Lists(m[<<1, 1>>], r, s, X \cup Y, P)
<1> DEFINE D == DOMAIN s
<1> SUFFICES ASSUME s \in Seq(E), StrictOrder(P, D),
                    u \in Seq(E), v \in Seq(E), m = MergeStep(u, v, c, m),
                    X \subseteq D, Y \subseteq D, X \cap Y = {},
                    Lists(u, p, s, X, P), Lists(v, q, s, Y, P),
                    \A at \in MergePlaces(u, v) :
                       at[1] <= Len(u) /\ at[2] <= Len(v) =>
                          (at \in c <=> <<q[at[2]], p[at[1]]>> \in P)
             PROVE  /\ m[<<1, 1>>] \in Seq(E)
                    /\ \E r : Lists(m[<<1, 1>>], r, s, X \cup Y, P)
  BY DEF Merging
<1> HIDE DEF D
<1> DEFINE Rest(at) == Behind(p, at[1], Len(u)) \cup Behind(q, at[2], Len(v))
           Good == {at \in MergePlaces(u, v) :
                      /\ m[at] \in Seq(E)
                      /\ \E r : Lists(m[at], r, s, Rest(at), P)}
<1>1. Len(u) \in Nat /\ Len(v) \in Nat
  BY LenProperties
<1>2. ASSUME NEW at \in MergePlaces(u, v),
             \A y \in MergePlaces(u, v) :
                MergeRank(u, v)[y] < MergeRank(u, v)[at] => y \in Good
      PROVE  at \in Good
  <2>0. at[1] \in 1 .. Len(u) + 1 /\ at[2] \in 1 .. Len(v) + 1 /\ at = <<at[1], at[2]>>
    BY MergeRankFalls
  <2>1. CASE at[1] > Len(u)
    <3>1. m[at] = SubSeq(v, at[2], Len(v))
      BY <2>1 DEF MergeStep
    <3>2. Rest(at) = Behind(q, at[2], Len(v))
      BY <1>1, <2>0, <2>1 DEF Behind
    <3>3. /\ SubSeq(v, at[2], Len(v)) \in Seq(E)
          /\ \E r : Lists(SubSeq(v, at[2], Len(v)), r, s, Behind(q, at[2], Len(v)), P)
      BY <2>0, TailLists
    <3> QED
      BY <3>1, <3>2, <3>3
  <2>2. CASE ~ (at[1] > Len(u)) /\ at[2] > Len(v)
    <3>1. m[at] = SubSeq(u, at[1], Len(u))
      BY <2>2 DEF MergeStep
    <3>2. Rest(at) = Behind(p, at[1], Len(u))
      BY <1>1, <2>0, <2>2 DEF Behind
    <3>3. /\ SubSeq(u, at[1], Len(u)) \in Seq(E)
          /\ \E r : Lists(SubSeq(u, at[1], Len(u)), r, s, Behind(p, at[1], Len(u)), P)
      BY <2>0, TailLists
    <3> QED
      BY <3>1, <3>2, <3>3
  <2>3. CASE ~ (at[1] > Len(u)) /\ ~ (at[2] > Len(v))
    <3> DEFINE i == at[1]
               j == at[2]
    <3> HIDE DEF i, j
    <3>0. /\ i \in 1 .. Len(u) /\ j \in 1 .. Len(v) /\ at = <<i, j>>
          /\ at[1] = i /\ at[2] = j
      BY <1>1, <2>0, <2>3 DEF i, j
    <3>1. /\ u[i] = s[p[i]] /\ v[j] = s[q[j]] /\ u[i] \in E /\ v[j] \in E
          /\ p[i] \in X /\ q[j] \in Y /\ p[i] \in D /\ q[j] \in D /\ p[i] # q[j]
      BY <3>0, ElementOfSeq DEF Lists
    <3>2. /\ <<i, j + 1>> \in Good /\ <<i + 1, j>> \in Good
      <4>1. i <= Len(u) /\ j <= Len(v)
        BY <1>1, <3>0
      <4>2. /\ <<i, j + 1>> \in MergePlaces(u, v) /\ <<i + 1, j>> \in MergePlaces(u, v)
            /\ MergeRank(u, v)[<<i, j + 1>>] < MergeRank(u, v)[at]
            /\ MergeRank(u, v)[<<i + 1, j>>] < MergeRank(u, v)[at]
        BY <3>0, <4>1, MergeRankFalls
      <4> HIDE DEF Good
      <4> QED
        BY <1>2, <4>2
    <3>3. /\ \A x \in Behind(p, i + 1, Len(u)) : <<p[i], x>> \in P /\ x \in D
          /\ \A y \in Behind(q, j + 1, Len(v)) : <<q[j], y>> \in P /\ y \in D
      <4>1. ASSUME NEW k \in i + 1 .. Len(u) PROVE <<p[i], p[k]>> \in P /\ p[k] \in D
        <5>1. k \in 1 .. Len(u) /\ i < k
          BY <1>1, <3>0
        <5> QED
          BY <3>0, <5>1 DEF Lists
      <4>2. ASSUME NEW k \in j + 1 .. Len(v) PROVE <<q[j], q[k]>> \in P /\ q[k] \in D
        <5>1. k \in 1 .. Len(v) /\ j < k
          BY <1>1, <3>0
        <5> QED
          BY <3>0, <5>1 DEF Lists
      <4> QED
        BY <4>1, <4>2 DEF Behind
    <3>4. /\ Behind(p, i, Len(u)) = {p[i]} \cup Behind(p, i + 1, Len(u))
          /\ Behind(q, j, Len(v)) = {q[j]} \cup Behind(q, j + 1, Len(v))
      BY <1>1, <3>0, BehindNext
    <3>5. CASE at \in c
      <4>1. <<q[j], p[i]>> \in P
        BY <3>0, <3>5, <1>1
      <4>2. m[at] = <<v[j]>> \o m[<<i, j + 1>>]
        BY <2>3, <3>0, <3>5 DEF MergeStep
      <4> DEFINE R == Rest(<<i, j + 1>>)
      <4>3. R = Behind(p, i, Len(u)) \cup Behind(q, j + 1, Len(v))
        OBVIOUS
      <4>4. \A y \in R : <<q[j], y>> \in P
        BY <3>1, <3>3, <3>4, <4>1, <4>3 DEF StrictOrder
      <4>5. Rest(at) = {q[j]} \cup R
        BY <3>0, <3>4, <4>3
      <4>6. PICK r : Lists(m[<<i, j + 1>>], r, s, R, P)
        BY <3>2
      <4>7. m[<<i, j + 1>>] \in Seq(E)
        BY <3>2
      <4> HIDE DEF R
      <4>8. /\ <<s[q[j]]>> \o m[<<i, j + 1>>] \in Seq(E)
            /\ \E t : Lists(<<s[q[j]]>> \o m[<<i, j + 1>>], t, s, {q[j]} \cup R, P)
        BY <3>1, <4>4, <4>6, <4>7, ConsLists
      <4> QED
        BY <3>1, <4>2, <4>5, <4>8
    <3>6. CASE at \notin c
      <4>1. <<p[i], q[j]>> \in P
        <5>1. at[1] <= Len(u) /\ at[2] <= Len(v)
          BY <1>1, <3>0
        <5>2. <<q[j], p[i]>> \notin P
          BY <3>0, <3>6, <5>1
        <5> QED
          BY <3>1, <5>2 DEF StrictOrder
      <4>2. m[at] = <<u[i]>> \o m[<<i + 1, j>>]
        BY <2>3, <3>0, <3>6 DEF MergeStep
      <4> DEFINE R == Rest(<<i + 1, j>>)
      <4>3. R = Behind(p, i + 1, Len(u)) \cup Behind(q, j, Len(v))
        OBVIOUS
      <4>4. \A y \in R : <<p[i], y>> \in P
        BY <3>1, <3>3, <3>4, <4>1, <4>3 DEF StrictOrder
      <4>5. Rest(at) = {p[i]} \cup R
        BY <3>0, <3>4, <4>3
      <4>6. PICK r : Lists(m[<<i + 1, j>>], r, s, R, P)
        BY <3>2
      <4>7. m[<<i + 1, j>>] \in Seq(E)
        BY <3>2
      <4> HIDE DEF R
      <4>8. /\ <<s[p[i]]>> \o m[<<i + 1, j>>] \in Seq(E)
            /\ \E t : Lists(<<s[p[i]]>> \o m[<<i + 1, j>>], t, s, {p[i]} \cup R, P)
        BY <3>1, <4>4, <4>6, <4>7, ConsLists
      <4> QED
        BY <3>1, <4>2, <4>5, <4>8
    <3> QED
      BY <3>5, <3>6
  <2> QED
    BY <2>1, <2>2, <2>3
<1>3. MergeRank(u, v) \in [MergePlaces(u, v) -> Nat]
  <2>1. ASSUME NEW at \in MergePlaces(u, v) PROVE MergeRank(u, v)[at] \in Nat
    <3>1. MergeRank(u, v)[at] \in 0 .. Len(u) + Len(v)
      BY MergeRankFalls
    <3> QED
      BY <1>1, <3>1
  <2> QED
    BY <2>1 DEF MergeRank
<1> HIDE DEF Good
<1>4. MergePlaces(u, v) \subseteq Good
  BY <1>2, <1>3, RankInduction
<1>5. <<1, 1>> \in MergePlaces(u, v)
  BY <1>1 DEF MergePlaces
<1>6. Rest(<<1, 1>>) = X \cup Y
  <2>1. Behind(p, 1, Len(u)) = X
    BY BehindAll
  <2>2. Behind(q, 1, Len(v)) = Y
    BY BehindAll
  <2> QED
    BY <2>1, <2>2
<1> QED
  BY <1>4, <1>5, <1>6 DEF Good

-----------------------------------------------------------------------------
(* Sorting.                                                                *)

(* The parts that Sorted sorts, from a place to a place.                   *)
Parts(s) == (DOMAIN s) \X (DOMAIN s)

(* The recursion of Sorted, where mg is what Merge makes of two sequences.    *)
SortStep(s, mg, f) ==
    [part \in Parts(s) |->
       IF part[2] <= part[1] THEN <<s[part[1]]>>
       ELSE mg[<<f[<<part[1], (part[1] + part[2]) \div 2>>],
                 f[<<(part[1] + part[2]) \div 2 + 1, part[2]>>]>>]]

(* How long a part is.                                                     *)
SortRank(s) ==
    [part \in Parts(s) |-> IF part[2] <= part[1] THEN 0 ELSE part[2] - part[1]]

(* Both halves of a part are shorter than the part.                        *)
LEMMA HalvesAreShorter ==
    ASSUME NEW E, NEW s \in Seq(E), NEW part \in Parts(s)
    PROVE  /\ part[1] \in DOMAIN s /\ part[2] \in DOMAIN s /\ part = <<part[1], part[2]>>
           /\ SortRank(s)[part] \in 0 .. Len(s)
           /\ ~ (part[2] <= part[1]) =>
                 LET mid == (part[1] + part[2]) \div 2
                 IN  /\ mid \in part[1] .. part[2] - 1
                     /\ <<part[1], mid>> \in Parts(s)
                     /\ <<mid + 1, part[2]>> \in Parts(s)
                     /\ SortRank(s)[<<part[1], mid>>] < SortRank(s)[part]
                     /\ SortRank(s)[<<mid + 1, part[2]>>] < SortRank(s)[part]
<1> DEFINE lo == part[1]
           hi == part[2]
           mid == (lo + hi) \div 2
<1>1. Len(s) \in Nat /\ DOMAIN s = 1 .. Len(s)
  BY LenProperties
<1>2. lo \in DOMAIN s /\ hi \in DOMAIN s /\ part = <<lo, hi>>
  BY DEF Parts
<1>3. \A i, j \in DOMAIN s :
         <<i, j>> \in Parts(s) /\ SortRank(s)[<<i, j>>] = IF j <= i THEN 0 ELSE j - i
  BY DEF Parts, SortRank
<1>4. SortRank(s)[part] = IF hi <= lo THEN 0 ELSE hi - lo
  BY <1>2, <1>3
<1> HIDE DEF lo, hi
<1>5. SortRank(s)[part] \in 0 .. Len(s)
  BY <1>1, <1>2, <1>4
<1>6. ASSUME ~ (hi <= lo)
      PROVE  /\ mid \in lo .. hi - 1
             /\ <<lo, mid>> \in Parts(s) /\ <<mid + 1, hi>> \in Parts(s)
             /\ SortRank(s)[<<lo, mid>>] < SortRank(s)[part]
             /\ SortRank(s)[<<mid + 1, hi>>] < SortRank(s)[part]
  <2>1. lo \in Int /\ hi \in Int /\ mid \in lo .. hi - 1
    BY <1>1, <1>2, <1>6
  <2> HIDE DEF mid
  <2>2. mid \in DOMAIN s /\ mid + 1 \in DOMAIN s
    BY <1>1, <1>2, <2>1
  <2>3. /\ <<lo, mid>> \in Parts(s) /\ <<mid + 1, hi>> \in Parts(s)
        /\ SortRank(s)[<<lo, mid>>] = (IF mid <= lo THEN 0 ELSE mid - lo)
        /\ SortRank(s)[<<mid + 1, hi>>] = (IF hi <= mid + 1 THEN 0 ELSE hi - (mid + 1))
        /\ SortRank(s)[part] = hi - lo
    BY <1>2, <1>3, <1>4, <1>6, <2>2
  <2> QED
    BY <2>1, <2>3
<1> QED
  BY <1>2, <1>5, <1>6 DEF lo, hi

(* The length of a part is a natural.                                      *)
LEMMA SortRankType ==
    ASSUME NEW E, NEW s \in Seq(E)
    PROVE  SortRank(s) \in [Parts(s) -> Nat]
<1>1. ASSUME NEW part \in Parts(s) PROVE SortRank(s)[part] \in Nat
  <2>1. SortRank(s)[part] \in 0 .. Len(s) /\ Len(s) \in Nat
    BY HalvesAreShorter, LenProperties
  <2> QED
    BY <2>1
<1> QED
  BY <1>1 DEF SortRank

(* The recursion of Sorted defines a function.                             *)
LEMMA SortExists ==
    ASSUME NEW E, NEW s \in Seq(E), NEW mg \in [Seq(E) \X Seq(E) -> Seq(E)]
    PROVE  \E f \in [Parts(s) -> Seq(E)] : f = SortStep(s, mg, f)
<1> DEFINE S == Parts(s)
           F == [S -> Seq(E)]
           step == [f \in F |-> SortStep(s, mg, f)]
           rank == SortRank(s)
           top == Len(s)
<1>1. F # {}
  <2>1. [part \in S |-> <<>>] \in F
    BY EmptySeq
  <2> QED
    BY <2>1
<1>2. top \in Nat /\ \A x \in S : rank[x] \in 0 .. top
  <2>1. top \in Nat
    BY LenProperties
  <2>2. ASSUME NEW x \in S PROVE rank[x] \in 0 .. top
    BY HalvesAreShorter
  <2> QED
    BY <2>1, <2>2
<1>3. \A f, g \in F : (\A x \in S : f[x] = g[x]) => f = g
  OBVIOUS
<1>4. \A f \in F : step[f] \in F
  <2> SUFFICES ASSUME NEW f \in F, NEW part \in S PROVE SortStep(s, mg, f)[part] \in Seq(E)
    BY DEF SortStep
  <2>1. CASE part[2] <= part[1]
    <3>1. part[1] \in 1 .. Len(s)
      BY LenProperties, HalvesAreShorter
    <3>2. s[part[1]] \in E
      BY <3>1, ElementOfSeq
    <3> QED
      BY <2>1, <3>2 DEF SortStep
  <2>2. CASE ~ (part[2] <= part[1])
    <3>1. /\ <<part[1], (part[1] + part[2]) \div 2>> \in S
          /\ <<(part[1] + part[2]) \div 2 + 1, part[2]>> \in S
      BY <2>2, HalvesAreShorter
    <3> QED
      BY <2>2, <3>1 DEF SortStep
  <2> QED
    BY <2>1, <2>2
<1>5. ASSUME NEW f \in F, NEW g \in F, NEW part \in S,
             \A y \in S : rank[y] < rank[part] => f[y] = g[y]
      PROVE  step[f][part] = step[g][part]
  <2>1. CASE part[2] <= part[1]
    BY <2>1 DEF SortStep
  <2>2. CASE ~ (part[2] <= part[1])
    <3> DEFINE l == <<part[1], (part[1] + part[2]) \div 2>>
               r == <<(part[1] + part[2]) \div 2 + 1, part[2]>>
    <3>1. l \in S /\ r \in S /\ rank[l] < rank[part] /\ rank[r] < rank[part]
      BY <2>2, HalvesAreShorter
    <3>2. f[l] = g[l] /\ f[r] = g[r]
      BY <1>5, <3>1
    <3>3. step[f] = SortStep(s, mg, f) /\ step[g] = SortStep(s, mg, g)
      OBVIOUS
    <3>4. /\ SortStep(s, mg, f)[part] = mg[<<f[l], f[r]>>]
          /\ SortStep(s, mg, g)[part] = mg[<<g[l], g[r]>>]
      BY <2>2 DEF SortStep
    <3> HIDE DEF step, F, l, r
    <3> QED
      BY <3>2, <3>3, <3>4
  <2> QED
    BY <2>1, <2>2
<1> HIDE DEF S, F, step, rank, top
<1>6. Recursive(S, F, step, rank, top)
  BY <1>1, <1>2, <1>3, <1>4, <1>5 DEF Recursive
<1>7. PICK f \in F : f = step[f]
  BY <1>6, RankRecursion
<1> QED
  BY <1>7 DEF F, step, S

(* mg merges lists of two parts of s, the places of the first all before       *)
(* those of the second, to one of all their places.                         *)
Merges(mg, E, s, P) ==
    \A u, v \in Seq(E), X, Y \in SUBSET (DOMAIN s) :
       /\ \A x \in X, y \in Y : x < y
       /\ \E p : Lists(u, p, s, X, P)
       /\ \E q : Lists(v, q, s, Y, P)
       => \E r : Lists(mg[<<u, v>>], r, s, X \cup Y, P)

(* A sorted sequence lists all places, in the order P.                       *)
LEMMA SortLists ==
    ASSUME NEW E, NEW s \in Seq(E), s # <<>>, NEW P,
           NEW mg, Merges(mg, E, s, P),
           NEW f \in [Parts(s) -> Seq(E)], f = SortStep(s, mg, f)
    PROVE  \E p : Lists(f[<<1, Len(s)>>], p, s, DOMAIN s, P)
<1> DEFINE Good == {part \in Parts(s) :
                      part[1] <= part[2] => \E p : Lists(f[part], p, s, part[1] .. part[2], P)}
<1>1. Len(s) \in Nat /\ DOMAIN s = 1 .. Len(s) /\ Len(s) # 0
  BY LenProperties, EmptySeq
<1>2. ASSUME NEW part \in Parts(s),
             \A y \in Parts(s) : SortRank(s)[y] < SortRank(s)[part] => y \in Good
      PROVE  part \in Good
  <2> DEFINE lo == part[1]
             hi == part[2]
             mid == (lo + hi) \div 2
  <2>0. lo \in DOMAIN s /\ hi \in DOMAIN s
    BY HalvesAreShorter
  <2>1. lo \in DOMAIN s /\ hi \in DOMAIN s /\ lo \in Int /\ hi \in Int
    BY <1>1, <2>0
  <2>2. CASE lo = hi
    <3>0. part[2] <= part[1]
      BY <2>1, <2>2
    <3>1. f[part] = <<s[lo]>>
      BY <3>0 DEF SortStep
    <3>2. Lists(<<s[lo]>>, <<lo>>, s, lo .. hi, P)
      <4>1. lo .. hi = {lo} /\ Len(<<s[lo]>>) = 1 /\ <<s[lo]>>[1] = s[lo] /\ 1 .. 1 = {1}
        BY <2>1, <2>2
      <4>2. <<lo>> \in [1 .. 1 -> {lo}] /\ <<lo>>[1] = lo
        OBVIOUS
      <4>3. \A k, l \in 1 .. 1 : ~ (k < l)
        OBVIOUS
      <4> QED
        BY <4>1, <4>2, <4>3 DEF Lists
    <3> QED
      BY <3>1, <3>2
  <2>3. CASE lo < hi
    <3>1. /\ ~ (hi <= lo) /\ mid \in lo .. hi - 1
          /\ <<lo, mid>> \in Parts(s) /\ <<mid + 1, hi>> \in Parts(s)
          /\ SortRank(s)[<<lo, mid>>] < SortRank(s)[part]
          /\ SortRank(s)[<<mid + 1, hi>>] < SortRank(s)[part]
      BY <2>1, <2>3, HalvesAreShorter
    <3>2. f[part] = mg[<<f[<<lo, mid>>], f[<<mid + 1, hi>>]>>]
      BY <3>1 DEF SortStep
    <3>3. <<lo, mid>> \in Good /\ <<mid + 1, hi>> \in Good
      BY <1>2, <3>1
    <3>4. lo <= mid /\ mid + 1 <= hi /\ mid \in Int
      BY <2>1, <3>1
    <3>5. /\ \E p : Lists(f[<<lo, mid>>], p, s, lo .. mid, P)
          /\ \E q : Lists(f[<<mid + 1, hi>>], q, s, mid + 1 .. hi, P)
      BY <3>3, <3>4
    <3>6. /\ lo .. mid \subseteq DOMAIN s /\ mid + 1 .. hi \subseteq DOMAIN s
          /\ lo .. hi = (lo .. mid) \cup (mid + 1 .. hi)
          /\ \A x \in lo .. mid, y \in mid + 1 .. hi : x < y
      BY <1>1, <2>1, <3>4
    <3> HIDE DEF mid, lo, hi
    <3>7. f[<<lo, mid>>] \in Seq(E) /\ f[<<mid + 1, hi>>] \in Seq(E)
      BY <3>1
    <3>8. \E r : Lists(mg[<<f[<<lo, mid>>], f[<<mid + 1, hi>>]>>], r, s,
                     (lo .. mid) \cup (mid + 1 .. hi), P)
      BY <3>5, <3>6, <3>7 DEF Merges
    <3> QED
      BY <3>2, <3>6, <3>8 DEF lo, hi
  <2> QED
    BY <2>1, <2>2, <2>3
<1>3. SortRank(s) \in [Parts(s) -> Nat]
  BY SortRankType
<1>6. \A part \in Parts(s) :
         (\A y \in Parts(s) : SortRank(s)[y] < SortRank(s)[part] => y \in Good) => part \in Good
  BY <1>2
<1> DEFINE S == Parts(s)
           rank == SortRank(s)
<1>7. rank \in [S -> Nat] /\ \A x \in S : (\A y \in S : rank[y] < rank[x] => y \in Good) => x \in Good
  BY <1>3, <1>6
<1> HIDE DEF Good, S, rank
<1>8. S \subseteq Good
  BY <1>7, RankInduction
<1>4. Parts(s) \subseteq Good
  BY <1>8 DEF S
<1>5. <<1, Len(s)>> \in Parts(s) /\ 1 <= Len(s)
  BY <1>1 DEF Parts
<1> QED
  BY <1>1, <1>4, <1>5 DEF Good

(* L orders the members of E in classes of equals.                          *)
WeakOrder(L, E) ==
    /\ \A a, b \in E : <<a, b>> \in L => <<b, a>> \notin L
    /\ \A a, b, c \in E : <<a, c>> \in L => <<a, b>> \in L \/ <<b, c>> \in L

(* The order of the places of s in which equals stand as they do in s.        *)
Stable(L, s) ==
    {xy \in (DOMAIN s) \X (DOMAIN s) :
       \/ <<s[xy[1]], s[xy[2]]>> \in L
       \/ <<s[xy[2]], s[xy[1]]>> \notin L /\ xy[1] < xy[2]}

(* A weak order, with ties broken by place, is strict.                     *)
LEMMA StableIsStrict ==
    ASSUME NEW E, NEW L, WeakOrder(L, E), NEW s \in Seq(E)
    PROVE  /\ StrictOrder(Stable(L, s), DOMAIN s)
           /\ \A x, y \in DOMAIN s :
                 <<x, y>> \in Stable(L, s) <=>
                    <<s[x], s[y]>> \in L \/ (<<s[y], s[x]>> \notin L /\ x < y)
<1> DEFINE D == DOMAIN s
           P == Stable(L, s)
<1>1. D = 1 .. Len(s) /\ D \subseteq Int
  BY LenProperties
<1>2. \A x \in D : s[x] \in E
  BY <1>1, ElementOfSeq
<1>3. \A x, y \in D :
         <<x, y>> \in P <=> <<s[x], s[y]>> \in L \/ (<<s[y], s[x]>> \notin L /\ x < y)
  BY DEF Stable
<1> HIDE DEF D, P
<1>4. ASSUME NEW x \in D PROVE <<x, x>> \notin P
  <2>1. s[x] \in E /\ ~ (x < x)
    BY <1>1, <1>2
  <2>2. <<s[x], s[x]>> \notin L
    BY <2>1 DEF WeakOrder
  <2> QED
    BY <1>3, <2>1, <2>2
<1>5. ASSUME NEW x \in D, NEW y \in D, NEW z \in D, <<x, y>> \in P, <<y, z>> \in P
      PROVE  <<x, z>> \in P
  <2>1. x \in Int /\ y \in Int /\ z \in Int /\ s[x] \in E /\ s[y] \in E /\ s[z] \in E
    BY <1>1, <1>2
  <2>2. <<s[y], s[x]>> \notin L /\ <<s[z], s[y]>> \notin L
    BY <1>3, <1>5, <2>1 DEF WeakOrder
  <2>3. <<s[z], s[x]>> \notin L
    BY <2>1, <2>2 DEF WeakOrder
  <2>4. CASE <<s[x], s[y]>> \in L \/ <<s[y], s[z]>> \in L
    <3>1. <<s[x], s[z]>> \in L
      BY <2>1, <2>2, <2>4 DEF WeakOrder
    <3> QED
      BY <1>3, <3>1
  <2>5. CASE ~ (<<s[x], s[y]>> \in L \/ <<s[y], s[z]>> \in L)
    <3>1. x < y /\ y < z
      BY <1>3, <1>5, <2>5
    <3>2. x < z
      BY <2>1, <3>1
    <3> QED
      BY <1>3, <2>3, <3>2
  <2> QED
    BY <2>4, <2>5
<1>6. ASSUME NEW x \in D, NEW y \in D PROVE x = y \/ <<x, y>> \in P \/ <<y, x>> \in P
  <2>1. x = y \/ x < y \/ y < x
    BY <1>1
  <2> QED
    BY <1>3, <2>1
<1>7. StrictOrder(P, D)
  BY <1>4, <1>5, <1>6 DEF StrictOrder
<1> QED
  BY <1>3, <1>7 DEF D, P

(* mg is Merge for the order L of the members of E.                          *)
MergesBy(mg, E, L) ==
    /\ mg \in [Seq(E) \X Seq(E) -> Seq(E)]
    /\ \A u, v \in Seq(E) :
          \E c, m :
             /\ m = MergeStep(u, v, c, m)
             /\ mg[<<u, v>>] = m[<<1, 1>>]
             /\ \A at \in MergePlaces(u, v) :
                   at[1] <= Len(u) /\ at[2] <= Len(v) =>
                      (at \in c <=> <<v[at[2]], u[at[1]]>> \in L)

(* A merge that takes from the right only what is less keeps ties in place. *)
LEMMA MergesStably ==
    ASSUME NEW E, NEW L, WeakOrder(L, E), NEW s \in Seq(E), NEW mg, MergesBy(mg, E, L)
    PROVE  Merges(mg, E, s, Stable(L, s))
<1> DEFINE P == Stable(L, s)
           D == DOMAIN s
<1>1. /\ StrictOrder(P, D)
      /\ \A x, y \in D :
            <<x, y>> \in P <=> <<s[x], s[y]>> \in L \/ (<<s[y], s[x]>> \notin L /\ x < y)
  BY StableIsStrict
<1>2. D \subseteq Int /\ \A x \in D : s[x] \in E
  BY LenProperties, ElementOfSeq
<1> HIDE DEF P
<1> SUFFICES ASSUME NEW u \in Seq(E), NEW v \in Seq(E), NEW X \in SUBSET D, NEW Y \in SUBSET D,
                    \A x \in X, y \in Y : x < y,
                    NEW p, Lists(u, p, s, X, P), NEW q, Lists(v, q, s, Y, P)
             PROVE  \E r : Lists(mg[<<u, v>>], r, s, X \cup Y, P)
  BY DEF Merges, P
<1>3. PICK c, m : /\ m = MergeStep(u, v, c, m)
                  /\ mg[<<u, v>>] = m[<<1, 1>>]
                  /\ \A at \in MergePlaces(u, v) :
                        at[1] <= Len(u) /\ at[2] <= Len(v) =>
                           (at \in c <=> <<v[at[2]], u[at[1]]>> \in L)
  BY DEF MergesBy
<1>4. X \cap Y = {}
  <2>1. \A x \in X \cap Y : x < x /\ x \in Int
    BY <1>2
  <2> QED
    BY <2>1
<1>5. ASSUME NEW at \in MergePlaces(u, v), at[1] <= Len(u), at[2] <= Len(v)
      PROVE  at \in c <=> <<q[at[2]], p[at[1]]>> \in P
  <2> DEFINE i == at[1]
             j == at[2]
  <2>1. /\ i \in 1 .. Len(u) + 1 /\ j \in 1 .. Len(v) + 1
        /\ Len(u) \in Nat /\ Len(v) \in Nat
    BY MergeRankFalls
  <2> HIDE DEF i, j
  <2>2. i \in 1 .. Len(u) /\ j \in 1 .. Len(v)
    BY <1>5, <2>1 DEF i, j
  <2>3. u[i] = s[p[i]] /\ v[j] = s[q[j]] /\ p[i] \in X /\ q[j] \in Y
    BY <2>2 DEF Lists
  <2>4. p[i] \in D /\ q[j] \in D /\ p[i] < q[j] /\ p[i] \in Int /\ q[j] \in Int
    BY <1>2, <2>3
  <2>7. ~ (q[j] < p[i])
    BY <2>4
  <2>5. <<q[j], p[i]>> \in P <=> <<s[q[j]], s[p[i]]>> \in L
    BY <1>1, <2>4, <2>7
  <2>6. at \in c <=> <<v[j], u[i]>> \in L
    BY <1>3, <1>5 DEF i, j
  <2> QED
    BY <2>3, <2>5, <2>6 DEF i, j
<1>7. \A at \in MergePlaces(u, v) :
         at[1] <= Len(u) /\ at[2] <= Len(v) => (at \in c <=> <<q[at[2]], p[at[1]]>> \in P)
  BY <1>5
<1>8. Merging(E, s, P, u, v, c, m, X, Y, p, q)
  BY <1>1, <1>3, <1>4, <1>7 DEF Merging
<1>6. \E r : Lists(m[<<1, 1>>], r, s, X \cup Y, P)
  BY <1>8, MergeLists
<1> QED
  BY <1>3, <1>6

(* The recursion of Merge makes a sequence of its members.                   *)
LEMMA MergeTyped ==
    ASSUME NEW E, NEW u \in Seq(E), NEW v \in Seq(E), NEW c, NEW m, m = MergeStep(u, v, c, m)
    PROVE  m[<<1, 1>>] \in Seq(E)
<1> DEFINE Good == {at \in MergePlaces(u, v) : m[at] \in Seq(E)}
           S == MergePlaces(u, v)
           rank == MergeRank(u, v)
<1>1. Len(u) \in Nat /\ Len(v) \in Nat
  BY LenProperties
<1>2. ASSUME NEW at \in S, \A y \in S : rank[y] < rank[at] => y \in Good
      PROVE  at \in Good
  <2>1. CASE at[1] > Len(u) \/ at[2] > Len(v)
    <3>1. at[1] \in 1 .. Len(u) + 1 /\ at[2] \in 1 .. Len(v) + 1
      BY MergeRankFalls
    <3>2. SubSeq(u, at[1], Len(u)) \in Seq(E) /\ SubSeq(v, at[2], Len(v)) \in Seq(E)
      BY <1>1, <3>1, SubSeqProperties
    <3>3. m[at] \in {SubSeq(u, at[1], Len(u)), SubSeq(v, at[2], Len(v))}
      BY <2>1 DEF MergeStep
    <3> QED
      BY <3>2, <3>3
  <2>2. CASE ~ (at[1] > Len(u)) /\ ~ (at[2] > Len(v))
    <3> DEFINE a == <<at[1], at[2] + 1>>
               b == <<at[1] + 1, at[2]>>
    <3>0. at[1] <= Len(u) /\ at[2] <= Len(v)
      <4>1. at[1] \in 1 .. Len(u) + 1 /\ at[2] \in 1 .. Len(v) + 1
        BY MergeRankFalls
      <4> QED
        BY <1>1, <2>2, <4>1
    <3>1. /\ u[at[1]] \in E /\ v[at[2]] \in E /\ a \in S /\ b \in S
          /\ rank[a] < rank[at] /\ rank[b] < rank[at]
      BY <3>0, MergeRankFalls
    <3>2. m[a] \in Seq(E) /\ m[b] \in Seq(E)
      BY <1>2, <3>1
    <3>3. <<v[at[2]]>> \o m[a] \in Seq(E) /\ <<u[at[1]]>> \o m[b] \in Seq(E)
      BY <3>1, <3>2, ConcatProperties
    <3>4. m[at] \in {<<v[at[2]]>> \o m[a], <<u[at[1]]>> \o m[b]}
      BY <2>2 DEF MergeStep
    <3> QED
      BY <3>3, <3>4
  <2> QED
    BY <2>1, <2>2
<1>3. rank \in [S -> Nat]
  <2>1. ASSUME NEW at \in S PROVE rank[at] \in Nat
    <3>1. rank[at] \in 0 .. Len(u) + Len(v)
      BY MergeRankFalls
    <3> QED
      BY <1>1, <3>1
  <2> QED
    BY <2>1 DEF MergeRank
<1>4. <<1, 1>> \in S
  BY <1>1 DEF MergePlaces
<1>5. \A at \in S : (\A y \in S : rank[y] < rank[at] => y \in Good) => at \in Good
  BY <1>2
<1> HIDE DEF Good, S, rank
<1>6. S \subseteq Good
  BY <1>3, <1>5, RankInduction
<1> QED
  BY <1>4, <1>6 DEF Good

-----------------------------------------------------------------------------
(* The two orders that are sorted by.                                        *)

(* Filters by name, the shadowed ones last, and rules by path, as relations. *)
NameOrder == {ab \in Filters \X Filters : FilterLess(ab[1], ab[2])}
PathOrder == {ab \in Rules \X Rules : RuleLess(ab[1], ab[2])}

(* FilterLess orders filters.                                              *)
LEMMA NameOrderIsWeak == WeakOrder(NameOrder, Filters)
<1>1. \A a, b \in Filters : <<a, b>> \in NameOrder <=> FilterLess(a, b)
  BY DEF NameOrder
<1>2. ASSUME NEW a \in Filters, NEW b \in Filters, FilterLess(a, b) PROVE ~ FilterLess(b, a)
  <2>1. a.name \in ByteString /\ b.name \in ByteString
        /\ a.isShadowed \in BOOLEAN /\ b.isShadowed \in BOOLEAN
    BY DEF Filters
  <2>2. ~ (TextLess(a.name, b.name) /\ TextLess(b.name, a.name))
    BY <2>1, TextOrdered, TextLessTransitive
  <2> QED
    BY <1>2, <2>1, <2>2 DEF FilterLess
<1>3. ASSUME NEW a \in Filters, NEW b \in Filters, NEW c \in Filters, FilterLess(a, c)
      PROVE  FilterLess(a, b) \/ FilterLess(b, c)
  <2>1. /\ a.name \in ByteString /\ b.name \in ByteString /\ c.name \in ByteString
        /\ a.isShadowed \in BOOLEAN /\ b.isShadowed \in BOOLEAN /\ c.isShadowed \in BOOLEAN
    BY DEF Filters
  <2>2. TextLess(a.name, c.name) => TextLess(a.name, b.name) \/ TextLess(b.name, c.name)
    BY <2>1, TextOrdered, TextLessTransitive
  <2> QED
    BY <1>3, <2>1, <2>2 DEF FilterLess
<1> QED
  BY <1>1, <1>2, <1>3 DEF WeakOrder

(* Paths are ordered totally, that of every application first.                *)
LEMMA PathOrdered ==
    ASSUME NEW a \in ByteString, NEW b \in ByteString, NEW c \in ByteString
    PROVE  /\ ~ PathLess(a, a)
           /\ a = b \/ PathLess(a, b) \/ PathLess(b, a)
           /\ PathLess(a, b) /\ PathLess(b, c) => PathLess(a, c)
           /\ a # EveryPath => PathLess(EveryPath, a)
<1>1. ~ PathLess(a, a) /\ (a = b \/ PathLess(a, b) \/ PathLess(b, a))
  BY TextOrdered DEF PathLess
<1>2. PathLess(a, b) /\ PathLess(b, c) => PathLess(a, c)
  BY TextLessTransitive DEF PathLess
<1>3. a # EveryPath => PathLess(EveryPath, a)
  BY DEF PathLess
<1> QED
  BY <1>1, <1>2, <1>3

(* RuleLess orders rules.                                                  *)
LEMMA PathOrderIsWeak == WeakOrder(PathOrder, Rules)
<1>1. \A a, b \in Rules : <<a, b>> \in PathOrder <=> PathLess(a.path, b.path)
  BY DEF PathOrder, RuleLess
<1>2. \A a \in Rules : a.path \in ByteString
  BY DEF Rules
<1>3. ASSUME NEW a \in Rules, NEW b \in Rules, PathLess(a.path, b.path)
      PROVE  ~ PathLess(b.path, a.path)
  BY <1>2, <1>3, PathOrdered
<1>4. ASSUME NEW a \in Rules, NEW b \in Rules, NEW c \in Rules, PathLess(a.path, c.path)
      PROVE  PathLess(a.path, b.path) \/ PathLess(b.path, c.path)
  BY <1>2, <1>4, PathOrdered
<1> QED
  BY <1>1, <1>3, <1>4 DEF WeakOrder

(* The merge of filters is a merge by that order.                          *)
LEMMA ByNameMerges ==
    MergesBy([uv \in Seq(Filters) \X Seq(Filters) |-> ByName!Merge(uv[1], uv[2])],
             Filters, NameOrder)
<1> DEFINE mg == [uv \in Seq(Filters) \X Seq(Filters) |-> ByName!Merge(uv[1], uv[2])]
<1>1. ASSUME NEW u \in Seq(Filters), NEW v \in Seq(Filters)
      PROVE  /\ ByName!Merge(u, v) \in Seq(Filters)
             /\ \E c, m :
                   /\ m = MergeStep(u, v, c, m)
                   /\ ByName!Merge(u, v) = m[<<1, 1>>]
                   /\ \A at \in MergePlaces(u, v) :
                         at[1] <= Len(u) /\ at[2] <= Len(v) =>
                            (at \in c <=> <<v[at[2]], u[at[1]]>> \in NameOrder)
  <2> DEFINE c == {at \in MergePlaces(u, v) : FilterLess(v[at[2]], u[at[1]])}
             Body(m) ==
                [at \in (1 .. Len(u) + 1) \X (1 .. Len(v) + 1) |->
                   IF at[1] > Len(u) THEN SubSeq(v, at[2], Len(v))
                   ELSE IF at[2] > Len(v) THEN SubSeq(u, at[1], Len(u))
                   ELSE IF FilterLess(v[at[2]], u[at[1]]) THEN <<v[at[2]]>> \o m[<<at[1], at[2] + 1>>]
                   ELSE <<u[at[1]]>> \o m[<<at[1] + 1, at[2]>>]]
  <2>1. \A m : Body(m) = MergeStep(u, v, c, m)
    BY DEF MergeStep, MergePlaces
  <2>2. PICK k : k = MergeStep(u, v, c, k)
    <3>1. HasMerge(Filters, u, v, c)
      BY MergeExists
    <3> HIDE DEF c
    <3> QED
      BY <3>1 DEF HasMerge
  <2>3. \E m : m = Body(m) /\ ByName!Merge(u, v) = m[<<1, 1>>]
    <3>1. k = Body(k)
      BY <2>1, <2>2
    <3> HIDE DEF c
    <3> QED
      BY <3>1 DEF ByName!Merge
  <2>4. PICK m : m = MergeStep(u, v, c, m) /\ ByName!Merge(u, v) = m[<<1, 1>>]
    BY <2>1, <2>3
  <2>5. ASSUME NEW at \in MergePlaces(u, v), at[1] <= Len(u), at[2] <= Len(v)
        PROVE  at \in c <=> <<v[at[2]], u[at[1]]>> \in NameOrder
    <3>1. u[at[1]] \in Filters /\ v[at[2]] \in Filters
      BY <2>5, MergeRankFalls
    <3> QED
      BY <3>1 DEF NameOrder
  <2>6. m[<<1, 1>>] \in Seq(Filters)
    BY <2>4, MergeTyped
  <2> HIDE DEF c
  <2> QED
    BY <2>4, <2>5, <2>6
<1>2. mg \in [Seq(Filters) \X Seq(Filters) -> Seq(Filters)]
  BY <1>1
<1>3. \A u, v \in Seq(Filters) : mg[<<u, v>>] = ByName!Merge(u, v)
  OBVIOUS
<1> HIDE DEF mg
<1>4. MergesBy(mg, Filters, NameOrder)
  BY <1>1, <1>2, <1>3 DEF MergesBy
<1> QED
  BY <1>4 DEF mg

(* The merge of rules is a merge by that order.                            *)
LEMMA ByPathMerges ==
    MergesBy([uv \in Seq(Rules) \X Seq(Rules) |-> ByPath!Merge(uv[1], uv[2])], Rules, PathOrder)
<1> DEFINE mg == [uv \in Seq(Rules) \X Seq(Rules) |-> ByPath!Merge(uv[1], uv[2])]
<1>1. ASSUME NEW u \in Seq(Rules), NEW v \in Seq(Rules)
      PROVE  /\ ByPath!Merge(u, v) \in Seq(Rules)
             /\ \E c, m :
                   /\ m = MergeStep(u, v, c, m)
                   /\ ByPath!Merge(u, v) = m[<<1, 1>>]
                   /\ \A at \in MergePlaces(u, v) :
                         at[1] <= Len(u) /\ at[2] <= Len(v) =>
                            (at \in c <=> <<v[at[2]], u[at[1]]>> \in PathOrder)
  <2> DEFINE c == {at \in MergePlaces(u, v) : RuleLess(v[at[2]], u[at[1]])}
             Body(m) ==
                [at \in (1 .. Len(u) + 1) \X (1 .. Len(v) + 1) |->
                   IF at[1] > Len(u) THEN SubSeq(v, at[2], Len(v))
                   ELSE IF at[2] > Len(v) THEN SubSeq(u, at[1], Len(u))
                   ELSE IF RuleLess(v[at[2]], u[at[1]]) THEN <<v[at[2]]>> \o m[<<at[1], at[2] + 1>>]
                   ELSE <<u[at[1]]>> \o m[<<at[1] + 1, at[2]>>]]
  <2>1. \A m : Body(m) = MergeStep(u, v, c, m)
    BY DEF MergeStep, MergePlaces
  <2>2. PICK k : k = MergeStep(u, v, c, k)
    <3>1. HasMerge(Rules, u, v, c)
      BY MergeExists
    <3> HIDE DEF c
    <3> QED
      BY <3>1 DEF HasMerge
  <2>3. \E m : m = Body(m) /\ ByPath!Merge(u, v) = m[<<1, 1>>]
    <3>1. k = Body(k)
      BY <2>1, <2>2
    <3> HIDE DEF c
    <3> QED
      BY <3>1 DEF ByPath!Merge
  <2>4. PICK m : m = MergeStep(u, v, c, m) /\ ByPath!Merge(u, v) = m[<<1, 1>>]
    BY <2>1, <2>3
  <2>5. ASSUME NEW at \in MergePlaces(u, v), at[1] <= Len(u), at[2] <= Len(v)
        PROVE  at \in c <=> <<v[at[2]], u[at[1]]>> \in PathOrder
    <3>1. u[at[1]] \in Rules /\ v[at[2]] \in Rules
      BY <2>5, MergeRankFalls
    <3> QED
      BY <3>1 DEF PathOrder
  <2>6. m[<<1, 1>>] \in Seq(Rules)
    BY <2>4, MergeTyped
  <2> HIDE DEF c
  <2> QED
    BY <2>4, <2>5, <2>6
<1>2. mg \in [Seq(Rules) \X Seq(Rules) -> Seq(Rules)]
  BY <1>1
<1>3. \A u, v \in Seq(Rules) : mg[<<u, v>>] = ByPath!Merge(u, v)
  OBVIOUS
<1> HIDE DEF mg
<1>4. MergesBy(mg, Rules, PathOrder)
  BY <1>1, <1>2, <1>3 DEF MergesBy
<1> QED
  BY <1>4 DEF mg

(* Sorting filters lists each once, by name, ties in place: Compile of     *)
(* config/filterList.go.                                                   *)
LEMMA ByNameSorts ==
    ASSUME NEW s \in Seq(Filters)
    PROVE  /\ ByName!Sorted(s) \in Seq(Filters)
           /\ \E p : Lists(ByName!Sorted(s), p, s, DOMAIN s, Stable(NameOrder, s))
<1>1. CASE s = <<>>
  <2>1. ByName!Sorted(s) = s
    BY <1>1 DEF ByName!Sorted
  <2>2. Len(s) = 0 /\ DOMAIN s = {} /\ <<>> \in [1 .. 0 -> {}] /\ 1 .. 0 = {}
    BY <1>1
  <2>3. Lists(s, <<>>, s, DOMAIN s, Stable(NameOrder, s))
    BY <2>2 DEF Lists
  <2> QED
    BY <2>1, <2>3
<1>2. CASE s # <<>>
  <2> DEFINE mg == [uv \in Seq(Filters) \X Seq(Filters) |-> ByName!Merge(uv[1], uv[2])]
             Body(f) ==
                [part \in (DOMAIN s) \X (DOMAIN s) |->
                   IF part[2] <= part[1] THEN <<s[part[1]]>>
                   ELSE ByName!Merge(f[<<part[1], (part[1] + part[2]) \div 2>>],
                                     f[<<(part[1] + part[2]) \div 2 + 1, part[2]>>])]
  <2>1. MergesBy(mg, Filters, NameOrder) /\ WeakOrder(NameOrder, Filters)
    BY ByNameMerges, NameOrderIsWeak
  <2>2. mg \in [Seq(Filters) \X Seq(Filters) -> Seq(Filters)] /\ Merges(mg, Filters, s, Stable(NameOrder, s))
    BY <2>1, MergesStably DEF MergesBy
  <2>3. \A u, v \in Seq(Filters) : mg[<<u, v>>] = ByName!Merge(u, v)
    OBVIOUS
  <2> HIDE DEF mg
  <2>4. ASSUME NEW f \in [Parts(s) -> Seq(Filters)] PROVE Body(f) = SortStep(s, mg, f)
    <3>1. ASSUME NEW part \in Parts(s) PROVE Body(f)[part] = SortStep(s, mg, f)[part]
      <4>1. CASE part[2] <= part[1]
        BY <4>1 DEF SortStep, Parts
      <4>2. CASE ~ (part[2] <= part[1])
        <5> DEFINE l == <<part[1], (part[1] + part[2]) \div 2>>
                   r == <<(part[1] + part[2]) \div 2 + 1, part[2]>>
        <5>1. l \in Parts(s) /\ r \in Parts(s)
          BY <4>2, HalvesAreShorter
        <5>2. f[l] \in Seq(Filters) /\ f[r] \in Seq(Filters)
          BY <5>1
        <5>3. /\ Body(f)[part] = ByName!Merge(f[l], f[r])
              /\ SortStep(s, mg, f)[part] = mg[<<f[l], f[r]>>]
          BY <4>2 DEF SortStep, Parts
        <5> HIDE DEF l, r, Body
        <5> QED
          BY <2>3, <5>2, <5>3
      <4> QED
        BY <4>1, <4>2
    <3> QED
      BY <3>1 DEF SortStep, Parts
  <2>5. PICK k \in [Parts(s) -> Seq(Filters)] : k = SortStep(s, mg, k)
    BY <2>2, SortExists
  <2>6. k = Body(k)
    BY <2>4, <2>5
  <2>7. \E f : f = Body(f) /\ ByName!Sorted(s) = f[<<1, Len(s)>>]
    BY <1>2, <2>6 DEF ByName!Sorted
  <2>8. PICK f : f = Body(f) /\ ByName!Sorted(s) = f[<<1, Len(s)>>]
    BY <2>7
  <2>9. f \in [Parts(s) -> Seq(Filters)]
    <3> DEFINE S == Parts(s)
               rank == SortRank(s)
               Good == {part \in S : f[part] \in Seq(Filters)}
    <3>1. ASSUME NEW part \in S, \A y \in S : rank[y] < rank[part] => y \in Good
          PROVE  part \in Good
      <4>1. CASE part[2] <= part[1]
        <5>1. part[1] \in 1 .. Len(s)
          BY LenProperties, HalvesAreShorter
        <5>2. s[part[1]] \in Filters
          BY <5>1, ElementOfSeq
        <5>3. f[part] = <<s[part[1]]>>
          BY <2>8, <4>1 DEF Parts
        <5>4. \A e : e \in Filters => <<e>> \in Seq(Filters)
          OBVIOUS
        <5>5. f[part] \in Seq(Filters)
          BY <5>2, <5>3, <5>4
        <5> QED
          BY <5>5
      <4>2. CASE ~ (part[2] <= part[1])
        <5> DEFINE l == <<part[1], (part[1] + part[2]) \div 2>>
                   r == <<(part[1] + part[2]) \div 2 + 1, part[2]>>
        <5>1. l \in S /\ r \in S /\ rank[l] < rank[part] /\ rank[r] < rank[part]
          BY <4>2, HalvesAreShorter
        <5>2. f[l] \in Seq(Filters) /\ f[r] \in Seq(Filters)
          BY <3>1, <5>1
        <5>3. f[part] = ByName!Merge(f[l], f[r])
          BY <2>8, <4>2 DEF Parts
        <5>4. mg[<<f[l], f[r]>>] \in Seq(Filters)
          BY <2>2, <5>2
        <5> HIDE DEF l, r
        <5> QED
          BY <2>3, <5>2, <5>3, <5>4
      <4> QED
        BY <4>1, <4>2
    <3>2. rank \in [S -> Nat]
      BY SortRankType
    <3>3. \A part \in S : (\A y \in S : rank[y] < rank[part] => y \in Good) => part \in Good
      BY <3>1
    <3> HIDE DEF Good, rank, S
    <3>4. S \subseteq Good
      BY <3>2, <3>3, RankInduction
    <3>5. f = [part \in Parts(s) |-> f[part]]
      BY <2>8 DEF Parts
    <3> QED
      BY <3>4, <3>5 DEF Good, S
  <2>10. f = SortStep(s, mg, f)
    BY <2>4, <2>8, <2>9
  <2>11. <<1, Len(s)>> \in Parts(s)
    <3>1. DOMAIN s = 1 .. Len(s) /\ Len(s) \in Nat /\ Len(s) # 0
      BY <1>2, LenProperties, EmptySeq
    <3> QED
      BY <3>1 DEF Parts
  <2>12. \E p : Lists(f[<<1, Len(s)>>], p, s, DOMAIN s, Stable(NameOrder, s))
    BY <1>2, <2>2, <2>9, <2>10, SortLists
  <2> QED
    BY <2>8, <2>9, <2>11, <2>12
<1> QED
  BY <1>1, <1>2

(* Sorting rules lists each once, by path, ties in place: Sort of          *)
(* config/appList.go.                                                      *)
LEMMA ByPathSorts ==
    ASSUME NEW s \in Seq(Rules)
    PROVE  /\ ByPath!Sorted(s) \in Seq(Rules)
           /\ \E p : Lists(ByPath!Sorted(s), p, s, DOMAIN s, Stable(PathOrder, s))
<1>1. CASE s = <<>>
  <2>1. ByPath!Sorted(s) = s
    BY <1>1 DEF ByPath!Sorted
  <2>2. Len(s) = 0 /\ DOMAIN s = {} /\ <<>> \in [1 .. 0 -> {}] /\ 1 .. 0 = {}
    BY <1>1
  <2>3. Lists(s, <<>>, s, DOMAIN s, Stable(PathOrder, s))
    BY <2>2 DEF Lists
  <2> QED
    BY <2>1, <2>3
<1>2. CASE s # <<>>
  <2> DEFINE mg == [uv \in Seq(Rules) \X Seq(Rules) |-> ByPath!Merge(uv[1], uv[2])]
             Body(f) ==
                [part \in (DOMAIN s) \X (DOMAIN s) |->
                   IF part[2] <= part[1] THEN <<s[part[1]]>>
                   ELSE ByPath!Merge(f[<<part[1], (part[1] + part[2]) \div 2>>],
                                     f[<<(part[1] + part[2]) \div 2 + 1, part[2]>>])]
  <2>1. MergesBy(mg, Rules, PathOrder) /\ WeakOrder(PathOrder, Rules)
    BY ByPathMerges, PathOrderIsWeak
  <2>2. mg \in [Seq(Rules) \X Seq(Rules) -> Seq(Rules)] /\ Merges(mg, Rules, s, Stable(PathOrder, s))
    BY <2>1, MergesStably DEF MergesBy
  <2>3. \A u, v \in Seq(Rules) : mg[<<u, v>>] = ByPath!Merge(u, v)
    OBVIOUS
  <2> HIDE DEF mg
  <2>4. ASSUME NEW f \in [Parts(s) -> Seq(Rules)] PROVE Body(f) = SortStep(s, mg, f)
    <3>1. ASSUME NEW part \in Parts(s) PROVE Body(f)[part] = SortStep(s, mg, f)[part]
      <4>1. CASE part[2] <= part[1]
        BY <4>1 DEF SortStep, Parts
      <4>2. CASE ~ (part[2] <= part[1])
        <5> DEFINE l == <<part[1], (part[1] + part[2]) \div 2>>
                   r == <<(part[1] + part[2]) \div 2 + 1, part[2]>>
        <5>1. l \in Parts(s) /\ r \in Parts(s)
          BY <4>2, HalvesAreShorter
        <5>2. f[l] \in Seq(Rules) /\ f[r] \in Seq(Rules)
          BY <5>1
        <5>3. /\ Body(f)[part] = ByPath!Merge(f[l], f[r])
              /\ SortStep(s, mg, f)[part] = mg[<<f[l], f[r]>>]
          BY <4>2 DEF SortStep, Parts
        <5> HIDE DEF l, r, Body
        <5> QED
          BY <2>3, <5>2, <5>3
      <4> QED
        BY <4>1, <4>2
    <3> QED
      BY <3>1 DEF SortStep, Parts
  <2>5. PICK k \in [Parts(s) -> Seq(Rules)] : k = SortStep(s, mg, k)
    BY <2>2, SortExists
  <2>6. k = Body(k)
    BY <2>4, <2>5
  <2>7. \E f : f = Body(f) /\ ByPath!Sorted(s) = f[<<1, Len(s)>>]
    BY <1>2, <2>6 DEF ByPath!Sorted
  <2>8. PICK f : f = Body(f) /\ ByPath!Sorted(s) = f[<<1, Len(s)>>]
    BY <2>7
  <2>9. f \in [Parts(s) -> Seq(Rules)]
    <3> DEFINE S == Parts(s)
               rank == SortRank(s)
               Good == {part \in S : f[part] \in Seq(Rules)}
    <3>1. ASSUME NEW part \in S, \A y \in S : rank[y] < rank[part] => y \in Good
          PROVE  part \in Good
      <4>1. CASE part[2] <= part[1]
        <5>1. part[1] \in 1 .. Len(s)
          BY LenProperties, HalvesAreShorter
        <5>2. s[part[1]] \in Rules
          BY <5>1, ElementOfSeq
        <5>3. f[part] = <<s[part[1]]>>
          BY <2>8, <4>1 DEF Parts
        <5>4. \A e : e \in Rules => <<e>> \in Seq(Rules)
          OBVIOUS
        <5>5. f[part] \in Seq(Rules)
          BY <5>2, <5>3, <5>4
        <5> QED
          BY <5>5
      <4>2. CASE ~ (part[2] <= part[1])
        <5> DEFINE l == <<part[1], (part[1] + part[2]) \div 2>>
                   r == <<(part[1] + part[2]) \div 2 + 1, part[2]>>
        <5>1. l \in S /\ r \in S /\ rank[l] < rank[part] /\ rank[r] < rank[part]
          BY <4>2, HalvesAreShorter
        <5>2. f[l] \in Seq(Rules) /\ f[r] \in Seq(Rules)
          BY <3>1, <5>1
        <5>3. f[part] = ByPath!Merge(f[l], f[r])
          BY <2>8, <4>2 DEF Parts
        <5>4. mg[<<f[l], f[r]>>] \in Seq(Rules)
          BY <2>2, <5>2
        <5> HIDE DEF l, r
        <5> QED
          BY <2>3, <5>2, <5>3, <5>4
      <4> QED
        BY <4>1, <4>2
    <3>2. rank \in [S -> Nat]
      BY SortRankType
    <3>3. \A part \in S : (\A y \in S : rank[y] < rank[part] => y \in Good) => part \in Good
      BY <3>1
    <3> HIDE DEF Good, rank, S
    <3>4. S \subseteq Good
      BY <3>2, <3>3, RankInduction
    <3>5. f = [part \in Parts(s) |-> f[part]]
      BY <2>8 DEF Parts
    <3> QED
      BY <3>4, <3>5 DEF Good, S
  <2>10. f = SortStep(s, mg, f)
    BY <2>4, <2>8, <2>9
  <2>11. <<1, Len(s)>> \in Parts(s)
    <3>1. DOMAIN s = 1 .. Len(s) /\ Len(s) \in Nat /\ Len(s) # 0
      BY <1>2, LenProperties, EmptySeq
    <3> QED
      BY <3>1 DEF Parts
  <2>12. \E p : Lists(f[<<1, Len(s)>>], p, s, DOMAIN s, Stable(PathOrder, s))
    BY <1>2, <2>2, <2>9, <2>10, SortLists
  <2> QED
    BY <2>8, <2>9, <2>11, <2>12
<1> QED
  BY <1>1, <1>2

-----------------------------------------------------------------------------
(* The binary search.                                                       *)

(* The parts that BinarySearch looks at, from a place to a place.          *)
SearchParts(rules) == (1 .. Len(rules) + 1) \X (0 .. Len(rules))

(* The recursion of BinarySearch.                                           *)
SearchStep(rules, path, f) ==
    [part \in SearchParts(rules) |->
       IF part[1] > part[2] THEN NoIndex
       ELSE IF rules[(part[1] + part[2]) \div 2].path = path THEN (part[1] + part[2]) \div 2
       ELSE IF PathLess(path, rules[(part[1] + part[2]) \div 2].path)
            THEN f[<<part[1], (part[1] + part[2]) \div 2 - 1>>]
       ELSE f[<<(part[1] + part[2]) \div 2 + 1, part[2]>>]]

(* How long such a part is.                                                *)
SearchRank(rules) ==
    [part \in SearchParts(rules) |-> IF part[1] > part[2] THEN 0 ELSE part[2] - part[1] + 1]

(* Both halves without the middle are shorter than the part.               *)
LEMMA SearchNarrows ==
    ASSUME NEW rules \in Seq(Rules), NEW part \in SearchParts(rules)
    PROVE  /\ part[1] \in 1 .. Len(rules) + 1 /\ part[2] \in 0 .. Len(rules) /\ Len(rules) \in Nat
           /\ SearchRank(rules)[part] \in 0 .. Len(rules)
           /\ ~ (part[1] > part[2]) =>
                 LET mid == (part[1] + part[2]) \div 2
                 IN  /\ mid \in part[1] .. part[2] /\ mid \in 1 .. Len(rules)
                     /\ <<part[1], mid - 1>> \in SearchParts(rules)
                     /\ <<mid + 1, part[2]>> \in SearchParts(rules)
                     /\ SearchRank(rules)[<<part[1], mid - 1>>] < SearchRank(rules)[part]
                     /\ SearchRank(rules)[<<mid + 1, part[2]>>] < SearchRank(rules)[part]
<1> DEFINE lo == part[1]
           hi == part[2]
           mid == (lo + hi) \div 2
           n == Len(rules)
<1>1. n \in Nat
  BY LenProperties
<1>2. lo \in 1 .. n + 1 /\ hi \in 0 .. n /\ part = <<lo, hi>>
  BY DEF SearchParts
<1>3. \A i \in 1 .. n + 1, j \in 0 .. n :
         /\ <<i, j>> \in SearchParts(rules)
         /\ SearchRank(rules)[<<i, j>>] = IF i > j THEN 0 ELSE j - i + 1
  BY DEF SearchParts, SearchRank
<1> HIDE DEF n
<1>4. SearchRank(rules)[part] = IF lo > hi THEN 0 ELSE hi - lo + 1
  BY <1>2, <1>3
<1> HIDE DEF lo, hi
<1>5. SearchRank(rules)[part] \in 0 .. n
  BY <1>1, <1>2, <1>4
<1>6. ASSUME ~ (lo > hi)
      PROVE  /\ mid \in lo .. hi /\ mid \in 1 .. n
             /\ <<lo, mid - 1>> \in SearchParts(rules) /\ <<mid + 1, hi>> \in SearchParts(rules)
             /\ SearchRank(rules)[<<lo, mid - 1>>] < SearchRank(rules)[part]
             /\ SearchRank(rules)[<<mid + 1, hi>>] < SearchRank(rules)[part]
  <2>1. lo \in Int /\ hi \in Int /\ mid \in lo .. hi
    BY <1>1, <1>2, <1>6
  <2> HIDE DEF mid
  <2>2. mid \in 1 .. n /\ mid - 1 \in 0 .. n /\ mid + 1 \in 1 .. n + 1
    BY <1>1, <1>2, <2>1
  <2>3. /\ <<lo, mid - 1>> \in SearchParts(rules) /\ <<mid + 1, hi>> \in SearchParts(rules)
        /\ SearchRank(rules)[<<lo, mid - 1>>] = (IF lo > mid - 1 THEN 0 ELSE mid - 1 - lo + 1)
        /\ SearchRank(rules)[<<mid + 1, hi>>] = (IF mid + 1 > hi THEN 0 ELSE hi - (mid + 1) + 1)
        /\ SearchRank(rules)[part] = hi - lo + 1
    BY <1>2, <1>3, <1>4, <1>6, <2>2
  <2> QED
    BY <2>1, <2>2, <2>3
<1> QED
  BY <1>1, <1>2, <1>5, <1>6 DEF lo, hi, n

(* The length of a part is a natural.                                      *)
LEMMA SearchRankType ==
    ASSUME NEW rules \in Seq(Rules)
    PROVE  SearchRank(rules) \in [SearchParts(rules) -> Nat]
<1>1. ASSUME NEW part \in SearchParts(rules) PROVE SearchRank(rules)[part] \in Nat
  <2>1. SearchRank(rules)[part] \in 0 .. Len(rules) /\ Len(rules) \in Nat
    BY SearchNarrows
  <2> QED
    BY <2>1
<1> QED
  BY <1>1 DEF SearchRank

(* The recursion of BinarySearch defines a function.                         *)
LEMMA SearchExists ==
    ASSUME NEW rules \in Seq(Rules), NEW path
    PROVE  \E f : /\ f = SearchStep(rules, path, f)
                  /\ BinarySearch(rules, path) = f[<<1, Len(rules)>>]
<1> DEFINE S == SearchParts(rules)
           F == [S -> 0 .. Len(rules)]
           step == [f \in F |-> SearchStep(rules, path, f)]
           rank == SearchRank(rules)
           top == Len(rules)
<1>0. top \in Nat
  BY LenProperties
<1>1. F # {}
  <2>1. [part \in S |-> 0] \in F
    BY <1>0
  <2> QED
    BY <2>1
<1>2. top \in Nat /\ \A x \in S : rank[x] \in 0 .. top
  BY <1>0, SearchNarrows
<1>3. \A f, g \in F : (\A x \in S : f[x] = g[x]) => f = g
  OBVIOUS
<1>4. \A f \in F : step[f] \in F
  <2> SUFFICES ASSUME NEW f \in F, NEW part \in S
               PROVE  SearchStep(rules, path, f)[part] \in 0 .. Len(rules)
    BY DEF SearchStep
  <2>1. CASE part[1] > part[2]
    BY <1>0, <2>1 DEF SearchStep, NoIndex
  <2>2. CASE ~ (part[1] > part[2])
    <3> DEFINE mid == (part[1] + part[2]) \div 2
    <3>1. /\ mid \in 1 .. Len(rules)
          /\ <<part[1], mid - 1>> \in S /\ <<mid + 1, part[2]>> \in S
      BY <2>2, SearchNarrows
    <3>2. /\ mid \in 0 .. Len(rules)
          /\ f[<<part[1], mid - 1>>] \in 0 .. Len(rules)
          /\ f[<<mid + 1, part[2]>>] \in 0 .. Len(rules)
      BY <1>0, <3>1
    <3>3. SearchStep(rules, path, f)[part] \in
             {mid, f[<<part[1], mid - 1>>], f[<<mid + 1, part[2]>>]}
      BY <2>2 DEF SearchStep
    <3> HIDE DEF mid, F, S
    <3> QED
      BY <3>2, <3>3
  <2> QED
    BY <2>1, <2>2
<1>5. ASSUME NEW f \in F, NEW g \in F, NEW part \in S,
             \A y \in S : rank[y] < rank[part] => f[y] = g[y]
      PROVE  step[f][part] = step[g][part]
  <2>0. step[f] = SearchStep(rules, path, f) /\ step[g] = SearchStep(rules, path, g)
    OBVIOUS
  <2>1. CASE part[1] > part[2]
    BY <2>1 DEF SearchStep
  <2>2. CASE ~ (part[1] > part[2])
    <3> DEFINE mid == (part[1] + part[2]) \div 2
               l == <<part[1], mid - 1>>
               r == <<mid + 1, part[2]>>
    <3>1. l \in S /\ r \in S /\ rank[l] < rank[part] /\ rank[r] < rank[part]
      BY <2>2, SearchNarrows
    <3>2. f[l] = g[l] /\ f[r] = g[r]
      BY <1>5, <3>1
    <3>3. SearchStep(rules, path, f)[part] = SearchStep(rules, path, g)[part]
      BY <2>2, <3>2 DEF SearchStep
    <3> HIDE DEF step, F
    <3> QED
      BY <2>0, <3>3
  <2> QED
    BY <2>1, <2>2
<1> HIDE DEF S, F, step, rank, top
<1>6. Recursive(S, F, step, rank, top)
  BY <1>1, <1>2, <1>3, <1>4, <1>5 DEF Recursive
<1>7. PICK f \in F : f = step[f]
  BY <1>6, RankRecursion
<1>8. f = SearchStep(rules, path, f)
  BY <1>7 DEF F, step
<1> QED
  BY <1>8 DEF BinarySearch, SearchStep, SearchParts

(* The search of a sorted list finds a rule of the path if there is one.      *)
LEMMA SearchFinds ==
    ASSUME NEW rules \in Seq(Rules), NEW path \in ByteString,
           \A i, j \in 1 .. Len(rules) : i < j => ~ PathLess(rules[j].path, rules[i].path)
    PROVE  LET found == BinarySearch(rules, path)
           IN  /\ found # NoIndex => found \in 1 .. Len(rules) /\ rules[found].path = path
               /\ found = NoIndex => \A i \in 1 .. Len(rules) : rules[i].path # path
<1> DEFINE S == SearchParts(rules)
           rank == SearchRank(rules)
<1>0. PICK f : f = SearchStep(rules, path, f) /\ BinarySearch(rules, path) = f[<<1, Len(rules)>>]
  BY SearchExists
<1> DEFINE Found(part) ==
             /\ f[part] # NoIndex => f[part] \in 1 .. Len(rules) /\ rules[f[part]].path = path
             /\ f[part] = NoIndex =>
                   \A i \in 1 .. Len(rules) : part[1] <= i /\ i <= part[2] => rules[i].path # path
           Good == {part \in S : Found(part)}
<1>1. Len(rules) \in Nat /\ \A i \in 1 .. Len(rules) : rules[i].path \in ByteString
  <2>1. Len(rules) \in Nat /\ \A i \in 1 .. Len(rules) : rules[i] \in Rules
    BY LenProperties, ElementOfSeq
  <2> QED
    BY <2>1 DEF Rules
<1>2. ASSUME NEW part \in S, \A y \in S : rank[y] < rank[part] => y \in Good
      PROVE  part \in Good
  <2> DEFINE lo == part[1]
             hi == part[2]
             mid == (lo + hi) \div 2
  <2>0. lo \in 1 .. Len(rules) + 1 /\ hi \in 0 .. Len(rules)
    BY SearchNarrows
  <2>1. CASE lo > hi
    <3>1. f[part] = NoIndex
      BY <1>0, <2>1 DEF SearchStep
    <3>2. \A i \in 1 .. Len(rules) : ~ (lo <= i /\ i <= hi)
      BY <1>1, <2>0, <2>1
    <3> QED
      BY <3>1, <3>2
  <2>2. CASE ~ (lo > hi)
    <3> DEFINE l == <<lo, mid - 1>>
               r == <<mid + 1, hi>>
    <3>1. /\ mid \in lo .. hi /\ mid \in 1 .. Len(rules) /\ l \in S /\ r \in S
          /\ rank[l] < rank[part] /\ rank[r] < rank[part]
      BY <2>2, SearchNarrows
    <3>2. Found(l) /\ Found(r)
      BY <1>2, <3>1
    <3>3. f[part] = IF rules[mid].path = path THEN mid
                    ELSE IF PathLess(path, rules[mid].path) THEN f[l] ELSE f[r]
      BY <1>0, <2>2 DEF SearchStep
    <3> HIDE DEF mid, lo, hi
    <3>4. CASE rules[mid].path = path
      <4>1. f[part] = mid /\ mid # NoIndex
        BY <3>1, <3>3, <3>4 DEF NoIndex
      <4> QED
        BY <3>1, <3>4, <4>1
    <3>5. CASE rules[mid].path # path /\ PathLess(path, rules[mid].path)
      <4>1. f[part] = f[l]
        BY <3>3, <3>5
      <4>2. ASSUME NEW i \in 1 .. Len(rules), mid <= i PROVE rules[i].path # path
        <5>1. i = mid \/ mid < i
          BY <3>1, <4>2
        <5> QED
          BY <1>1, <3>1, <3>5, <5>1
      <4>3. \A i \in 1 .. Len(rules) : i <= hi => mid <= i \/ i <= mid - 1
        BY <3>1
      <4> QED
        BY <3>2, <4>1, <4>2, <4>3 DEF lo, hi
    <3>6. CASE rules[mid].path # path /\ ~ PathLess(path, rules[mid].path)
      <4>1. f[part] = f[r]
        BY <3>3, <3>6
      <4>2. ASSUME NEW i \in 1 .. Len(rules), i <= mid PROVE rules[i].path # path
        <5>1. i = mid \/ i < mid
          BY <3>1, <4>2
        <5>2. PathLess(rules[mid].path, path)
          BY <1>1, <3>1, <3>6, PathOrdered
        <5> QED
          BY <1>1, <3>1, <3>6, <5>1, <5>2
      <4>3. \A i \in 1 .. Len(rules) : lo <= i => i <= mid \/ mid + 1 <= i
        BY <3>1
      <4> QED
        BY <3>2, <4>1, <4>2, <4>3 DEF lo, hi
    <3> QED
      BY <3>4, <3>5, <3>6
  <2> QED
    BY <2>1, <2>2
<1>3. \A part \in S : (\A y \in S : rank[y] < rank[part] => y \in Good) => part \in Good
  BY <1>2
<1>4. rank \in [S -> Nat]
  BY SearchRankType
<1>5. <<1, Len(rules)>> \in S
  BY <1>1 DEF SearchParts
<1> HIDE DEF Good, S, rank
<1>6. <<1, Len(rules)>> \in Good
  BY <1>3, <1>4, <1>5, RankInduction
<1>7. Found(<<1, Len(rules)>>)
  BY <1>6 DEF Good
<1> QED
  BY <1>0, <1>1, <1>7

-----------------------------------------------------------------------------
(* The rules of applications.                                               *)

(* A sorted list of rules has the rules it was made of, none of them before    *)
(* one of a lesser path.                                                    *)
LEMMA SortedRulesAre ==
    ASSUME NEW s \in Seq(Rules)
    PROVE  LET r == SortedRules(s)
           IN  /\ r \in Seq(Rules)
               /\ \A k \in 1 .. Len(r) : \E i \in DOMAIN s : r[k] = s[i]
               /\ \A i \in DOMAIN s : \E k \in 1 .. Len(r) : r[k] = s[i]
               /\ \A k, l \in 1 .. Len(r) : k < l => ~ PathLess(r[l].path, r[k].path)
<1> DEFINE r == SortedRules(s)
           P == Stable(PathOrder, s)
<1>1. r \in Seq(Rules) /\ \E p : Lists(r, p, s, DOMAIN s, P)
  BY ByPathSorts DEF SortedRules
<1>2. PICK p : Lists(r, p, s, DOMAIN s, P)
  BY <1>1
<1>3. \A k \in 1 .. Len(r) : p[k] \in DOMAIN s /\ r[k] = s[p[k]]
  BY <1>2 DEF Lists
<1>4. \A i \in DOMAIN s : \E k \in 1 .. Len(r) : r[k] = s[i]
  BY <1>2 DEF Lists
<1>5. /\ StrictOrder(P, DOMAIN s)
      /\ \A x, y \in DOMAIN s :
            <<x, y>> \in P <=>
               <<s[x], s[y]>> \in PathOrder \/ (<<s[y], s[x]>> \notin PathOrder /\ x < y)
  BY StableIsStrict, PathOrderIsWeak
<1>6. \A x \in DOMAIN s : s[x] \in Rules
  BY LenProperties, ElementOfSeq
<1>7. ASSUME NEW k \in 1 .. Len(r), NEW l \in 1 .. Len(r), k < l
      PROVE  ~ PathLess(r[l].path, r[k].path)
  <2> DEFINE x == p[k]
             y == p[l]
  <2>1. x \in DOMAIN s /\ y \in DOMAIN s /\ <<x, y>> \in P
    BY <1>2, <1>3, <1>7 DEF Lists
  <2>2. s[x] \in Rules /\ s[y] \in Rules
    BY <1>6, <2>1
  <2>3. <<s[y], s[x]>> \notin PathOrder
    BY <1>5, <2>1, <2>2, PathOrderIsWeak DEF WeakOrder
  <2>4. ~ PathLess(s[y].path, s[x].path)
    BY <2>2, <2>3 DEF PathOrder, RuleLess
  <2> QED
    BY <1>3, <2>4
<1> QED
  BY <1>1, <1>3, <1>4, <1>7

(* FindName of a sorted list returns the rule of the path, else that of "*",   *)
(* else none.                                                               *)
LEMMA FindNameFinds ==
    ASSUME NEW s \in Seq(Rules), NEW path \in ByteString \cup {NoPath}
    PROVE  LET given == {s[i].path : i \in DOMAIN s}
               index == FindName(SortedRules(s), path)
           IN  IF path \in given THEN index # NoIndex /\ SortedRules(s)[index].path = path
               ELSE IF EveryPath \in given
                    THEN index # NoIndex /\ SortedRules(s)[index].path = EveryPath
                    ELSE index = NoIndex
<1> DEFINE r == SortedRules(s)
           given == {s[i].path : i \in DOMAIN s}
           found == IF path = NoPath THEN NoIndex ELSE BinarySearch(r, path)
           index == FindName(r, path)
<1>1. /\ r \in Seq(Rules)
      /\ \A k \in 1 .. Len(r) : \E i \in DOMAIN s : r[k] = s[i]
      /\ \A i \in DOMAIN s : \E k \in 1 .. Len(r) : r[k] = s[i]
      /\ \A k, l \in 1 .. Len(r) : k < l => ~ PathLess(r[l].path, r[k].path)
  BY SortedRulesAre
<1> HIDE DEF r
<1>2. Len(r) \in Nat /\ \A k \in 1 .. Len(r) : r[k] \in Rules /\ r[k].path \in ByteString
  <2>1. Len(r) \in Nat /\ \A k \in 1 .. Len(r) : r[k] \in Rules
    BY <1>1, LenProperties, ElementOfSeq
  <2> QED
    BY <2>1 DEF Rules
<1>3. \A t : t \in given <=> \E k \in 1 .. Len(r) : r[k].path = t
  BY <1>1
<1>4. EveryPath \in ByteString /\ NoPath \notin ByteString
  <2>1. 42 \in 0 .. 255
    OBVIOUS
  <2> QED
    BY <2>1, NilAssumption DEF EveryPath, ByteString
<1>5. /\ found # NoIndex => found \in 1 .. Len(r) /\ r[found].path = path
      /\ found = NoIndex => path \notin given
  <2>1. CASE path = NoPath
    BY <1>2, <1>3, <1>4, <2>1
  <2>2. CASE path # NoPath
    <3>1. path \in ByteString
      BY <2>2
    <3>2. found = BinarySearch(r, path)
      BY <2>2
    <3>3. /\ found # NoIndex => found \in 1 .. Len(r) /\ r[found].path = path
          /\ found = NoIndex => \A i \in 1 .. Len(r) : r[i].path # path
      BY <1>1, <3>1, <3>2, SearchFinds
    <3> QED
      BY <1>3, <3>3
  <2> QED
    BY <2>1, <2>2
<1>6. index = IF found # NoIndex THEN found
              ELSE IF r # <<>> /\ r[1].path = EveryPath THEN 1 ELSE NoIndex
  BY DEF FindName
<1>7. EveryPath \in given <=> r # <<>> /\ r[1].path = EveryPath
  <2>1. ASSUME NEW k \in 1 .. Len(r), r[k].path = EveryPath PROVE r[1].path = EveryPath
    <3>1. 1 \in 1 .. Len(r) /\ (k = 1 \/ 1 < k)
      BY <1>2
    <3>2. CASE k = 1
      BY <2>1, <3>2
    <3>3. CASE 1 < k
      <4>1. ~ PathLess(EveryPath, r[1].path) /\ r[1].path \in ByteString
        BY <1>1, <1>2, <2>1, <3>1, <3>3
      <4> QED
        BY <4>1 DEF PathLess
    <3> QED
      BY <3>1, <3>2, <3>3
  <2>2. r # <<>> <=> 1 \in 1 .. Len(r)
    BY <1>1, <1>2, EmptySeq
  <2>3. 1 .. Len(r) # {} => 1 \in 1 .. Len(r)
    BY <1>2
  <2> QED
    BY <1>3, <2>1, <2>2, <2>3
<1>8. NoIndex # 1
  BY DEF NoIndex
<1> HIDE DEF found, given, index
<1>9. IF path \in given THEN index # NoIndex /\ r[index].path = path
      ELSE IF EveryPath \in given THEN index # NoIndex /\ r[index].path = EveryPath
      ELSE index = NoIndex
  <2>1. CASE found # NoIndex
    <3>1. path \in given /\ index = found
      BY <1>3, <1>5, <1>6, <2>1
    <3> QED
      BY <1>5, <2>1, <3>1
  <2>2. CASE found = NoIndex
    BY <1>5, <1>6, <1>7, <1>8, <2>2
  <2> QED
    BY <2>1, <2>2
<1> QED
  BY <1>9 DEF index, given, r

-----------------------------------------------------------------------------
(* Folds.                                                                   *)

(* A set of places that is not empty has a last one.                       *)
LEMMA MaxIsLast ==
    ASSUME NEW n \in Nat, NEW T \in SUBSET (1 .. n), T # {}
    PROVE  Max(T) \in T /\ \A x \in T : x <= Max(T)
<1> DEFINE U == {k \in 0 .. n : n - k \in T}
<1>0. \A x \in T : x \in Int /\ n - x \in 0 .. n /\ n - (n - x) = x
  OBVIOUS
<1>1. PICK m \in U : \A k \in U : m <= k
  <2>1. PICK x \in T : TRUE
    OBVIOUS
  <2>2. n - x \in U
    BY <1>0
  <2>3. U \subseteq 0 .. n /\ 0 .. n \subseteq Nat /\ U # {}
    <3>1. U # {}
      BY <2>2
    <3>2. 0 .. n \subseteq Nat
      OBVIOUS
    <3> QED
      BY <3>1, <3>2
  <2> QED
    BY <2>3, LeastNatural, U \subseteq Nat
<1>2. PICK y \in T : m = n - y
  BY <1>0
<1>3. ASSUME NEW x \in T PROVE y >= x
  <2>1. n - x \in U
    BY <1>0
  <2>2. n - y <= n - x
    BY <1>1, <1>2, <2>1
  <2> QED
    BY <1>0, <2>2
<1>4. Max(T) \in T /\ \A x \in T : Max(T) >= x
  BY <1>3 DEF Max
<1> QED
  BY <1>4

(* The last of the first k places is the k-th.                             *)
LEMMA MaxOfPrefix ==
    ASSUME NEW n \in Nat, NEW k \in 1 .. n
    PROVE  /\ 1 .. k \in SUBSET (1 .. n) /\ 1 .. k # {} /\ 1 .. k - 1 \in SUBSET (1 .. n)
           /\ Max(1 .. k) = k /\ (1 .. k) \ {k} = 1 .. k - 1
<1>1. 1 .. k \in SUBSET (1 .. n) /\ k \in 1 .. k
  OBVIOUS
<1>2. Max(1 .. k) \in 1 .. k /\ k <= Max(1 .. k)
  BY <1>1, MaxIsLast
<1>3. Max(1 .. k) = k
  BY <1>2
<1> QED
  BY <1>1, <1>3

(* The recursion of a fold over a sequence of n elements; g takes a value on   *)
(* by one element.                                                          *)
FoldStep(n, base, g, f) ==
    [T \in SUBSET (1 .. n) |-> IF T = {} THEN base ELSE g[<<f[T \ {Max(T)}], Max(T)>>]]

(* What a fold over n places needs: a first value, and each next one.      *)
Folds(n, V, base, g) == n \in Nat /\ base \in V /\ g \in [V \X (1 .. n) -> V]

(* A function that satisfies the recursion of the fold.                    *)
HasFold(n, V, base, g) == \E f \in [SUBSET (1 .. n) -> V] : f = FoldStep(n, base, g, f)

(* The recursion of a fold defines a function.                             *)
LEMMA FoldExists ==
    ASSUME NEW n, NEW V, NEW base, NEW g, Folds(n, V, base, g)
    PROVE  HasFold(n, V, base, g)
<1> USE DEF Folds, HasFold
<1> DEFINE S == SUBSET (1 .. n)
           F == [S -> V]
           step == [f \in F |-> FoldStep(n, base, g, f)]
           rank == [T \in S |-> IF T = {} THEN 0 ELSE Max(T)]
<1>1. F # {}
  <2>1. [T \in S |-> base] \in F
    OBVIOUS
  <2> QED
    BY <2>1
<1>2. ASSUME NEW T \in S PROVE rank[T] \in 0 .. n
  <2>1. CASE T = {}
    BY <2>1
  <2>2. CASE T # {}
    <3>1. Max(T) \in 1 .. n
      BY <2>2, MaxIsLast
    <3> QED
      BY <2>2, <3>1
  <2> QED
    BY <2>1, <2>2
<1>3. ASSUME NEW T \in S, T # {}
      PROVE  T \ {Max(T)} \in S /\ Max(T) \in 1 .. n /\ rank[T \ {Max(T)}] < rank[T]
  <2>1. Max(T) \in T /\ \A x \in T : x <= Max(T)
    BY <1>3, MaxIsLast
  <2>2. T \ {Max(T)} \in S /\ Max(T) \in 1 .. n /\ rank[T] = Max(T)
    BY <1>3, <2>1
  <2>3. CASE T \ {Max(T)} = {}
    BY <2>2, <2>3
  <2>4. CASE T \ {Max(T)} # {}
    <3> DEFINE U == T \ {Max(T)}
    <3>1. U \in S /\ U # {}
      BY <2>2, <2>4
    <3> HIDE DEF U
    <3>2. Max(U) \in U /\ rank[U] = Max(U)
      BY <3>1, MaxIsLast
    <3>3. Max(U) \in T /\ Max(U) # Max(T)
      BY <3>2 DEF U
    <3>4. Max(U) < Max(T)
      BY <2>1, <2>2, <3>3
    <3> QED
      BY <2>2, <3>2, <3>4 DEF U
  <2> QED
    BY <2>3, <2>4
<1>4. \A f, h \in F : (\A T \in S : f[T] = h[T]) => f = h
  OBVIOUS
<1>5. ASSUME NEW f \in F PROVE step[f] \in F
  <2>1. ASSUME NEW T \in S
        PROVE  (IF T = {} THEN base ELSE g[<<f[T \ {Max(T)}], Max(T)>>]) \in V
    <3>1. CASE T # {}
      <4>1. T \ {Max(T)} \in S /\ Max(T) \in 1 .. n
        BY <1>3, <3>1
      <4>2. f[T \ {Max(T)}] \in V
        BY <4>1
      <4> QED
        BY <3>1, <4>1, <4>2
    <3> QED
      BY <3>1
  <2> QED
    BY <2>1 DEF FoldStep
<1>6. ASSUME NEW f \in F, NEW h \in F, NEW T \in S,
             \A y \in S : rank[y] < rank[T] => f[y] = h[y]
      PROVE  step[f][T] = step[h][T]
  <2>1. step[f] = FoldStep(n, base, g, f) /\ step[h] = FoldStep(n, base, g, h)
    OBVIOUS
  <2>2. CASE T = {}
    BY <2>1, <2>2 DEF FoldStep
  <2>3. CASE T # {}
    <3>1. T \ {Max(T)} \in S /\ rank[T \ {Max(T)}] < rank[T]
      BY <1>3, <2>3
    <3>2. f[T \ {Max(T)}] = h[T \ {Max(T)}]
      BY <1>6, <3>1
    <3>3. FoldStep(n, base, g, f)[T] = FoldStep(n, base, g, h)[T]
      BY <2>3, <3>2 DEF FoldStep
    <3> HIDE DEF step
    <3> QED
      BY <2>1, <3>3
  <2> QED
    BY <2>2, <2>3
<1> HIDE DEF S, F, step, rank
<1>7. Recursive(S, F, step, rank, n)
  BY <1>1, <1>2, <1>4, <1>5, <1>6 DEF Recursive
<1>8. PICK f \in F : f = step[f]
  BY <1>7, RankRecursion
<1>9. f = FoldStep(n, base, g, f)
  BY <1>8 DEF F, step
<1> QED
  BY <1>8, <1>9 DEF F, S

-----------------------------------------------------------------------------
(* What the filters are made of.                                            *)

(* strings.ToLower takes bytes to bytes.                                     *)
LEMMA LowerTextTyped == ASSUME NEW t \in ByteString PROVE LowerText(t) \in ByteString
<1>1. Len(t) \in Nat /\ DOMAIN t = 1 .. Len(t) /\ \A i \in 1 .. Len(t) : t[i] \in 0 .. 255
  BY LenProperties, ElementOfSeq DEF ByteString
<1>2. \A c \in 0 .. 255 : LowerByte(c) \in 0 .. 255
  BY DEF LowerByte
<1>3. LowerText(t) \in [1 .. Len(t) -> 0 .. 255]
  BY <1>1, <1>2 DEF LowerText
<1>4. LowerText(t) \in Seq(0 .. 255)
  <2>1. Len(t) \in Nat
    BY <1>1
  <2>2. LowerText(t) \in [1 .. Len(t) -> 0 .. 255]
    BY <1>3
  <2> QED
    BY <2>1, <2>2, SeqDef
<1> QED
  BY <1>4 DEF ByteString

(* The lists of words, of at least one.                                      *)
WordLists == {w \in Seq(ByteString) : w # <<>>}

(* The recursion of Words.                                                  *)
WordsStep(t, f) ==
    [i \in 1 .. Len(t) + 1 |->
       IF i > Len(t) THEN << <<>> >>
       ELSE IF t[i] = Asterisk THEN << <<>> >> \o f[i + 1]
       ELSE << <<t[i]>> \o Head(f[i + 1]) >> \o Tail(f[i + 1])]

(* One byte more leaves a list of words: newNameFilter of config/filterList.go. *)
LEMMA WordsStepTyped ==
    ASSUME NEW t \in ByteString, NEW f, NEW i \in 1 .. Len(t) + 1,
           i <= Len(t) => f[i + 1] \in WordLists
    PROVE  WordsStep(t, f)[i] \in WordLists
<1>1. /\ Len(t) \in Nat /\ t \in Seq(0 .. 255)
      /\ \A k \in 1 .. Len(t) : t[k] \in 0 .. 255
  BY LenProperties, ElementOfSeq DEF ByteString
<1>2. <<>> \in ByteString /\ \A b : b \in ByteString => <<b>> \in Seq(ByteString) /\ Len(<<b>>) = 1
  BY DEF ByteString
<1>3. CASE i > Len(t)
  <2>1. WordsStep(t, f)[i] = << <<>> >>
    BY <1>3 DEF WordsStep
  <2> QED
    BY <1>2, <2>1 DEF WordLists
<1>4. CASE ~ (i > Len(t))
  <2> DEFINE w == f[i + 1]
  <2>1. w \in Seq(ByteString) /\ w # <<>> /\ i \in 1 .. Len(t) /\ t[i] \in 0 .. 255
    BY <1>1, <1>4 DEF WordLists
  <2> HIDE DEF w
  <2>2. Head(w) \in ByteString /\ Tail(w) \in Seq(ByteString)
    BY <2>1, HeadTailProperties
  <2>3. << <<>> >> \o w \in WordLists
    <3>1. << <<>> >> \in Seq(ByteString)
      BY <1>2
    <3>2. << <<>> >> \o w \in Seq(ByteString) /\ Len(<< <<>> >> \o w) = 1 + Len(w) /\ Len(w) \in Nat
      BY <1>2, <2>1, <3>1, ConcatProperties, LenProperties
    <3>3. << <<>> >> \o w # <<>>
      BY <3>2, EmptySeq
    <3> QED
      BY <3>2, <3>3 DEF WordLists
  <2>4. << <<t[i]>> \o Head(w) >> \o Tail(w) \in WordLists
    <3> DEFINE b == <<t[i]>> \o Head(w)
    <3>1. b \in ByteString
      <4>1. \A c : c \in 0 .. 255 => <<c>> \in Seq(0 .. 255)
        OBVIOUS
      <4>2. <<t[i]>> \in Seq(0 .. 255) /\ Head(w) \in Seq(0 .. 255)
        BY <2>1, <2>2, <4>1 DEF ByteString
      <4> QED
        BY <4>2, ConcatProperties DEF ByteString
    <3> HIDE DEF b
    <3>2. <<b>> \in Seq(ByteString) /\ Len(<<b>>) = 1
      BY <1>2, <3>1
    <3>3. /\ <<b>> \o Tail(w) \in Seq(ByteString) /\ Len(<<b>> \o Tail(w)) = 1 + Len(Tail(w))
          /\ Len(Tail(w)) \in Nat
      BY <2>2, <3>2, ConcatProperties, LenProperties
    <3>4. <<b>> \o Tail(w) # <<>>
      BY <3>3, EmptySeq
    <3> QED
      BY <3>3, <3>4 DEF WordLists, b
  <2>5. WordsStep(t, f)[i] = IF t[i] = Asterisk THEN << <<>> >> \o w
                             ELSE << <<t[i]>> \o Head(w) >> \o Tail(w)
    BY <1>4 DEF WordsStep, w
  <2> QED
    BY <2>3, <2>4, <2>5
<1> QED
  BY <1>3, <1>4

(* The recursion of Words defines a function.                                 *)
LEMMA WordsExist ==
    ASSUME NEW t \in ByteString
    PROVE  \E f : /\ f = WordsStep(t, f) /\ Words(t) = f[1]
                  /\ \A i \in 1 .. Len(t) + 1 : f[i] \in WordLists
<1> DEFINE n == Len(t)
           S == 1 .. n + 1
           F == [S -> WordLists]
           step == [f \in F |-> WordsStep(t, f)]
           rank == [i \in S |-> n + 1 - i]
<1>1. n \in Nat
  BY LenProperties DEF ByteString
<1>2. F # {}
  <2>1. << <<>> >> \in WordLists
    BY DEF WordLists, ByteString
  <2>2. [i \in S |-> << <<>> >>] \in F
    BY <2>1
  <2> QED
    BY <2>2
<1>3. ASSUME NEW i \in S
      PROVE  rank[i] \in 0 .. n /\ (i <= n => i + 1 \in S /\ rank[i + 1] < rank[i])
  BY <1>1
<1>4. \A f, g \in F : (\A i \in S : f[i] = g[i]) => f = g
  OBVIOUS
<1>5. ASSUME NEW f \in F PROVE step[f] \in F
  <2>1. ASSUME NEW i \in S PROVE WordsStep(t, f)[i] \in WordLists
    <3>1. i <= n => f[i + 1] \in WordLists
      BY <1>3
    <3> QED
      BY <3>1, WordsStepTyped
  <2> QED
    BY <2>1 DEF WordsStep
<1>6. ASSUME NEW f \in F, NEW g \in F, NEW i \in S, \A y \in S : rank[y] < rank[i] => f[y] = g[y]
      PROVE  step[f][i] = step[g][i]
  <2>1. step[f] = WordsStep(t, f) /\ step[g] = WordsStep(t, g)
    OBVIOUS
  <2>2. i > n \/ i <= n
    BY <1>1
  <2>3. i <= n => f[i + 1] = g[i + 1]
    BY <1>3, <1>6
  <2>4. CASE i > n
    <3>1. WordsStep(t, f)[i] = WordsStep(t, g)[i]
      BY <2>4 DEF WordsStep
    <3> HIDE DEF step, F
    <3> QED
      BY <2>1, <3>1
  <2>5. CASE i <= n
    <3>1. f[i + 1] = g[i + 1]
      BY <2>3, <2>5
    <3>2. WordsStep(t, f)[i] = WordsStep(t, g)[i]
      BY <3>1 DEF WordsStep
    <3> HIDE DEF step, F
    <3> QED
      BY <2>1, <3>2
  <2> QED
    BY <2>2, <2>4, <2>5
<1> HIDE DEF S, F, step, rank
<1>7. Recursive(S, F, step, rank, n)
  BY <1>1, <1>2, <1>3, <1>4, <1>5, <1>6 DEF Recursive
<1>8. PICK h \in F : h = step[h]
  BY <1>7, RankRecursion
<1>9. h = WordsStep(t, h)
  BY <1>8 DEF F, step
<1>10. PICK f : f = WordsStep(t, f) /\ Words(t) = f[1]
  BY <1>9 DEF Words, WordsStep
<1> DEFINE Good == {i \in S : f[i] \in WordLists}
<1>11. ASSUME NEW i \in S, \A y \in S : rank[y] < rank[i] => y \in Good PROVE i \in Good
  <2>1. i <= n => f[i + 1] \in WordLists
    BY <1>3, <1>11
  <2>2. f[i] \in WordLists
    BY <1>10, <2>1, WordsStepTyped DEF S
  <2> QED
    BY <2>2
<1>12. rank \in [S -> Nat]
  BY <1>1 DEF rank, S
<1> HIDE DEF Good
<1>13. S \subseteq Good
  BY <1>11, <1>12, RankInduction
<1> QED
  BY <1>10, <1>13 DEF Good, S

(* A pattern is cut into words, one at least.                                *)
LEMMA WordsTyped == ASSUME NEW t \in ByteString PROVE Words(t) \in WordLists
<1>1. 1 \in 1 .. Len(t) + 1
  BY LenProperties DEF ByteString
<1> QED
  BY <1>1, WordsExist

(* newNameFilter makes a filter of any entry.                              *)
LEMMA NewNameFilterTyped ==
    ASSUME NEW e \in FilterEntries
    PROVE  NewNameFilter(e.pattern, FilterName(e)) \in Filters
<1>1. e.pattern \in ByteString /\ e.name \in ByteString \cup {NoName}
  BY DEF FilterEntries
<1>2. FilterName(e) \in ByteString
  BY <1>1 DEF FilterName
<1>3. Words(LowerText(e.pattern)) \in Seq(ByteString)
  BY <1>1, LowerTextTyped, WordsTyped DEF WordLists
<1> QED
  BY <1>2, <1>3 DEF NewNameFilter, Filters

(* The list of the enabled filters, entry by entry.                          *)
LEMMA RawListRuns ==
    ASSUME NEW entries \in Seq(FilterEntries),
           \A k \in 1 .. Len(entries) :
              NewNameFilter(entries[k].pattern, FilterName(entries[k])) \in Filters
    PROVE  \E run :
              /\ run[0] = NewFilterList
              /\ \A k \in 1 .. Len(entries) :
                    run[k] = IF IsEnabled(entries[k])
                             THEN AddFilter(run[k - 1], entries[k].pattern, FilterName(entries[k]))
                             ELSE run[k - 1]
              /\ RawList(entries) = run[Len(entries)]
<1> DEFINE n == Len(entries)
           Take(list, k) == IF IsEnabled(entries[k])
                            THEN AddFilter(list, entries[k].pattern, FilterName(entries[k]))
                            ELSE list
           Body(f) == [T \in SUBSET (1 .. n) |->
                         IF T = {} THEN NewFilterList ELSE Take(f[T \ {Max(T)}], Max(T))]
           g == [vk \in FilterLists \X (1 .. n) |-> Take(vk[1], vk[2])]
<1>1. n \in Nat /\ DOMAIN entries = 1 .. n
  BY LenProperties
<1>2. NewFilterList \in FilterLists
  BY DEF NewFilterList, FilterLists
<1>3. ASSUME NEW list \in FilterLists, NEW k \in 1 .. n PROVE Take(list, k) \in FilterLists
  <2> DEFINE new == NewNameFilter(entries[k].pattern, FilterName(entries[k]))
  <2>1. new \in Filters
    OBVIOUS
  <2> HIDE DEF new
  <2>2. list.filters \in Seq(Filters) /\ Append(list.filters, new) \in Seq(Filters)
    BY <2>1 DEF FilterLists
  <2>3. [list EXCEPT !.filters = Append(@, new), !.isCompiled = FALSE] \in FilterLists
    BY <2>2 DEF FilterLists
  <2> QED
    BY <2>3 DEF AddFilter, new
<1>4. g \in [FilterLists \X (1 .. n) -> FilterLists]
  BY <1>3
<1>5. \A list \in FilterLists, k \in 1 .. n : g[<<list, k>>] = Take(list, k)
  OBVIOUS
<1> HIDE DEF g
<1>6. PICK h \in [SUBSET (1 .. n) -> FilterLists] : h = FoldStep(n, NewFilterList, g, h)
  <2>1. Folds(n, FilterLists, NewFilterList, g)
    BY <1>1, <1>2, <1>4 DEF Folds
  <2>2. HasFold(n, FilterLists, NewFilterList, g)
    BY <2>1, FoldExists
  <2> QED
    BY <2>2 DEF HasFold
<1>7. h = Body(h)
  <2>1. ASSUME NEW T \in SUBSET (1 .. n) PROVE h[T] = Body(h)[T]
    <3>1. CASE T = {}
      BY <1>6, <3>1 DEF FoldStep
    <3>2. CASE T # {}
      <4>1. T \ {Max(T)} \in SUBSET (1 .. n) /\ Max(T) \in 1 .. n
        BY <1>1, <3>2, MaxIsLast
      <4>2. h[T \ {Max(T)}] \in FilterLists
        BY <4>1
      <4>3. h[T] = g[<<h[T \ {Max(T)}], Max(T)>>]
        BY <1>6, <3>2 DEF FoldStep
      <4>4. Body(h)[T] = Take(h[T \ {Max(T)}], Max(T))
        BY <3>2
      <4> QED
        BY <1>5, <4>1, <4>2, <4>3, <4>4
    <3> QED
      BY <3>1, <3>2
  <2> QED
    BY <2>1
<1>8. \E f : f = Body(f) /\ RawList(entries) = f[1 .. n]
  BY <1>1, <1>7 DEF RawList, FoldLeft, MapThenFoldSet
<1>9. PICK f : f = Body(f) /\ RawList(entries) = f[1 .. n]
  BY <1>8
<1> DEFINE run == [k \in 0 .. n |-> f[1 .. k]]
<1>10. run[0] = NewFilterList
  <2>1. 1 .. 0 = {} /\ {} \in SUBSET (1 .. n) /\ 0 \in 0 .. n
    BY <1>1
  <2> QED
    BY <1>9, <2>1
<1>11. ASSUME NEW k \in 1 .. n PROVE run[k] = Take(run[k - 1], k)
  <2>1. /\ 1 .. k \in SUBSET (1 .. n) /\ 1 .. k # {}
        /\ Max(1 .. k) = k /\ (1 .. k) \ {k} = 1 .. k - 1
    BY <1>1, MaxOfPrefix
  <2>2. k \in 0 .. n /\ k - 1 \in 0 .. n
    BY <1>1
  <2>3. f[1 .. k] = Take(f[1 .. k - 1], k)
    BY <1>9, <2>1
  <2> QED
    BY <2>2, <2>3
<1>12. RawList(entries) = run[n]
  BY <1>1, <1>9
<1> HIDE DEF run
<1> QED
  BY <1>10, <1>11, <1>12

(* The filters the entries stand for, the enabled ones of them, and the order  *)
(* of the entries.                                                          *)
FiltersOf(entries) ==
    [i \in DOMAIN entries |-> NewNameFilter(entries[i].pattern, FilterName(entries[i]))]
(* Which entries are in use, and which stand before which.                 *)
Enabled(entries) == {i \in DOMAIN entries : IsEnabled(entries[i])}
Earlier(entries) == {ij \in (DOMAIN entries) \X (DOMAIN entries) : ij[1] < ij[2]}

(* A list none of whose filters is shadowed or in use yet.                    *)
Fresh(list) ==
    /\ list \in FilterLists
    /\ list.usefulSize = 0
    /\ \A k \in 1 .. Len(list.filters) : ~ list.filters[k].isShadowed

(* Add puts the filter of an entry at the end of the list.                 *)
LEMMA AddFilterLists ==
    ASSUME NEW entries \in Seq(FilterEntries), NEW list, Fresh(list),
           NEW k \in DOMAIN entries, IsEnabled(entries[k]),
           NEW p, Lists(list.filters, p, FiltersOf(entries),
                        Enabled(entries) \cap 1 .. k - 1, Earlier(entries))
    PROVE  LET new == AddFilter(list, entries[k].pattern, FilterName(entries[k]))
           IN  /\ Fresh(new)
               /\ \E q : Lists(new.filters, q, FiltersOf(entries),
                               Enabled(entries) \cap 1 .. k, Earlier(entries))
<1> DEFINE f == NewNameFilter(entries[k].pattern, FilterName(entries[k]))
           new == AddFilter(list, entries[k].pattern, FilterName(entries[k]))
           m == Len(list.filters)
           X == Enabled(entries) \cap 1 .. k - 1
           Y == Enabled(entries) \cap 1 .. k
           q == [l \in 1 .. m + 1 |-> IF l = m + 1 THEN k ELSE p[l]]
<1>1. entries[k] \in FilterEntries /\ DOMAIN entries = 1 .. Len(entries) /\ Len(entries) \in Nat
  BY LenProperties, ElementOfSeq
<1>2. f \in Filters /\ ~ f.isShadowed /\ FiltersOf(entries)[k] = f
  BY <1>1, NewNameFilterTyped DEF NewNameFilter, FiltersOf
<1>3. new = [list EXCEPT !.filters = Append(@, f), !.isCompiled = FALSE]
  BY DEF AddFilter
<1> HIDE DEF f
<1>4. list.filters \in Seq(Filters) /\ m \in Nat
  BY LenProperties DEF Fresh, FilterLists
<1>5. /\ Append(list.filters, f) \in Seq(Filters) /\ Len(Append(list.filters, f)) = m + 1
      /\ \A l \in 1 .. m : Append(list.filters, f)[l] = list.filters[l]
      /\ Append(list.filters, f)[m + 1] = f
  BY <1>2, <1>4, AppendProperties
<1>6. /\ new \in FilterLists /\ new.usefulSize = 0
      /\ new.filters = Append(list.filters, f)
  <2>1. list \in FilterLists /\ list.usefulSize = 0
    BY DEF Fresh
  <2>2. [list EXCEPT !.filters = Append(@, f), !.isCompiled = FALSE] \in FilterLists
    BY <1>5, <2>1 DEF FilterLists
  <2>3. new.usefulSize = 0 /\ new.filters = Append(list.filters, f)
    BY <1>3, <2>1 DEF FilterLists
  <2> HIDE DEF new
  <2> QED
    BY <1>3, <2>2, <2>3
<1> HIDE DEF new, m
<1>7. ASSUME NEW l \in 1 .. m + 1 PROVE l \in 1 .. m \/ l = m + 1
  BY <1>4
<1>8. Fresh(new)
  <2>1. \A l \in 1 .. m : ~ list.filters[l].isShadowed
    BY DEF Fresh, m
  <2> QED
    BY <1>2, <1>5, <1>6, <1>7, <2>1 DEF Fresh
<1>9. /\ p \in [1 .. m -> X]
      /\ \A l \in 1 .. m : list.filters[l] = FiltersOf(entries)[p[l]]
      /\ \A l, j \in 1 .. m : l < j => <<p[l], p[j]>> \in Earlier(entries)
      /\ \A x \in X : \E l \in 1 .. m : p[l] = x
  BY DEF Lists, m
<1>10. k \in Y /\ X \subseteq Y /\ \A x \in Y : x = k \/ x \in X
  BY <1>1 DEF Enabled
<1>11. ASSUME NEW x \in X PROVE <<x, k>> \in Earlier(entries)
  <2>1. x \in DOMAIN entries /\ x < k
    BY <1>1 DEF Enabled
  <2> QED
    BY <2>1 DEF Earlier
<1>12. \A l \in 1 .. m : l \in 1 .. m + 1 /\ l # m + 1 /\ q[l] = p[l] /\ p[l] \in X
  BY <1>4, <1>9
<1>13. m + 1 \in 1 .. m + 1 /\ q[m + 1] = k
  BY <1>4
<1> HIDE DEF X, Y
<1>14. \A l \in 1 .. m + 1 : q[l] \in Y /\ new.filters[l] = FiltersOf(entries)[q[l]]
  BY <1>2, <1>5, <1>6, <1>7, <1>9, <1>10, <1>12, <1>13
<1>15. q \in [1 .. m + 1 -> Y]
  BY <1>14
<1>16. ASSUME NEW l \in 1 .. m + 1, NEW j \in 1 .. m + 1, l < j
       PROVE  <<q[l], q[j]>> \in Earlier(entries)
  <2>1. l \in 1 .. m
    BY <1>4, <1>16
  <2>2. CASE j \in 1 .. m
    BY <1>9, <1>12, <1>16, <2>1, <2>2
  <2>3. CASE j = m + 1
    BY <1>11, <1>12, <1>13, <2>1, <2>3
  <2> QED
    BY <1>7, <2>2, <2>3
<1>17. \A x \in Y : \E l \in 1 .. m + 1 : q[l] = x
  BY <1>9, <1>10, <1>12, <1>13
<1>18. Len(new.filters) = m + 1
  BY <1>5, <1>6
<1> HIDE DEF q
<1>19. Lists(new.filters, q, FiltersOf(entries), Y, Earlier(entries))
  BY <1>14, <1>15, <1>16, <1>17, <1>18 DEF Lists
<1> QED
  BY <1>8, <1>19 DEF new, Y

(* The list made of the entries has the enabled ones in their order.          *)
LEMMA RawListLists ==
    ASSUME NEW entries \in Seq(FilterEntries)
    PROVE  /\ Fresh(RawList(entries))
           /\ \E p : Lists(RawList(entries).filters, p, FiltersOf(entries), Enabled(entries),
                           Earlier(entries))
<1> DEFINE n == Len(entries)
           IsMade(list, k) ==
              /\ Fresh(list)
              /\ \E p : Lists(list.filters, p, FiltersOf(entries),
                              Enabled(entries) \cap 1 .. k, Earlier(entries))
<1>1. n \in Nat /\ DOMAIN entries = 1 .. n /\ \A k \in 1 .. n : entries[k] \in FilterEntries
  BY LenProperties, ElementOfSeq
<1>2. PICK run :
         /\ run[0] = NewFilterList
         /\ \A k \in 1 .. n :
               run[k] = IF IsEnabled(entries[k])
                        THEN AddFilter(run[k - 1], entries[k].pattern, FilterName(entries[k]))
                        ELSE run[k - 1]
         /\ RawList(entries) = run[n]
  BY <1>1, NewNameFilterTyped, RawListRuns
<1> DEFINE Good == {k \in 0 .. n : IsMade(run[k], k)}
<1>3. 0 \in Good
  <2>1. 0 \in 0 .. n /\ Enabled(entries) \cap 1 .. 0 = {}
    BY <1>1
  <2>2. /\ NewFilterList.filters = <<>> /\ Len(<<>>) = 0 /\ 1 .. 0 = {}
        /\ <<>> \in [1 .. 0 -> {}]
    BY DEF NewFilterList
  <2>3. Lists(NewFilterList.filters, <<>>, FiltersOf(entries), {}, Earlier(entries))
    BY <2>2 DEF Lists
  <2>4. Fresh(NewFilterList)
    BY <2>2 DEF Fresh, NewFilterList, FilterLists
  <2> QED
    BY <1>2, <2>1, <2>3, <2>4
<1>4. ASSUME NEW d \in 0 .. n - 1, d \in Good PROVE d + 1 \in Good
  <2> DEFINE k == d + 1
  <2>1. k \in 1 .. n /\ k \in DOMAIN entries /\ k - 1 = d /\ k \in 0 .. n
    BY <1>1
  <2> HIDE DEF k
  <2>2. Fresh(run[k - 1])
    BY <1>4, <2>1
  <2>3. PICK p : Lists(run[k - 1].filters, p, FiltersOf(entries),
                       Enabled(entries) \cap 1 .. k - 1, Earlier(entries))
    BY <1>4, <2>1
  <2>4. CASE IsEnabled(entries[k])
    <3>1. run[k] = AddFilter(run[k - 1], entries[k].pattern, FilterName(entries[k]))
      BY <1>2, <2>1, <2>4
    <3>2. IsMade(run[k], k)
      BY <2>1, <2>2, <2>3, <2>4, <3>1, AddFilterLists
    <3> QED
      BY <2>1, <3>2 DEF k
  <2>5. CASE ~ IsEnabled(entries[k])
    <3>1. run[k] = run[k - 1]
      BY <1>2, <2>1, <2>5
    <3>2. Enabled(entries) \cap 1 .. k = Enabled(entries) \cap 1 .. k - 1
      BY <1>1, <2>1, <2>5 DEF Enabled
    <3>3. IsMade(run[k], k)
      BY <2>2, <2>3, <3>1, <3>2
    <3> QED
      BY <2>1, <3>3 DEF k
  <2> QED
    BY <2>4, <2>5
<1> HIDE DEF Good
<1>5. 0 .. n \subseteq Good
  BY <1>1, <1>3, <1>4, UpToBound
<1>6. IsMade(run[n], n)
  <2>1. n \in Good
    BY <1>1, <1>5
  <2> HIDE DEF IsMade
  <2> QED
    BY <2>1 DEF Good
<1>7. Enabled(entries) \cap 1 .. n = Enabled(entries)
  BY <1>1 DEF Enabled
<1> QED
  BY <1>2, <1>6, <1>7

(* A list of the members of a list.                                          *)
LEMMA ListsOfLists ==
    ASSUME NEW f, NEW X, NEW P, NEW O, NEW Q, NEW u, NEW p, Lists(u, p, f, X, P),
           Len(u) \in Nat, NEW r, NEW q, Len(r) \in Nat, Lists(r, q, u, 1 .. Len(u), Q),
           \A x, y \in 1 .. Len(u) : <<x, y>> \in Q => <<p[x], p[y]>> \in O
    PROVE  Lists(r, [k \in 1 .. Len(r) |-> p[q[k]]], f, X, O)
<1> DEFINE e == [k \in 1 .. Len(r) |-> p[q[k]]]
<1>1. \A k \in 1 .. Len(r) : q[k] \in 1 .. Len(u) /\ p[q[k]] \in X /\ e[k] = p[q[k]]
  BY DEF Lists
<1>2. \A k \in 1 .. Len(r) : r[k] = f[e[k]]
  <2>1. \A k \in 1 .. Len(r) : r[k] = u[q[k]]
    BY DEF Lists
  <2>2. \A l \in 1 .. Len(u) : u[l] = f[p[l]]
    BY DEF Lists
  <2> QED
    BY <1>1, <2>1, <2>2
<1>3. ASSUME NEW k \in 1 .. Len(r), NEW l \in 1 .. Len(r), k < l PROVE <<e[k], e[l]>> \in O
  <2>1. <<q[k], q[l]>> \in Q
    BY <1>3 DEF Lists
  <2> QED
    BY <1>1, <2>1
<1>4. ASSUME NEW x \in X PROVE \E k \in 1 .. Len(r) : e[k] = x
  <2>1. PICK l \in 1 .. Len(u) : p[l] = x
    BY DEF Lists
  <2>2. PICK k \in 1 .. Len(r) : q[k] = l
    BY DEF Lists
  <2> QED
    BY <1>1, <2>1, <2>2
<1>5. e \in [1 .. Len(r) -> X]
  BY <1>1
<1> HIDE DEF e
<1>6. Lists(r, e, f, X, O)
  BY <1>2, <1>3, <1>4, <1>5 DEF Lists
<1> QED
  BY <1>6 DEF e

(* The order of the entries by the names of their filters.                    *)
EntryOrder(entries) ==
    {ij \in (DOMAIN entries) \X (DOMAIN entries) :
       LET a == FiltersOf(entries)[ij[1]].name
           b == FiltersOf(entries)[ij[2]].name
       IN  TextLess(a, b) \/ (a = b /\ ij[1] < ij[2])}

(* The filters of the entries, none of them shadowed yet.                  *)
LEMMA FiltersOfTyped ==
    ASSUME NEW entries \in Seq(FilterEntries)
    PROVE  /\ FiltersOf(entries) \in [DOMAIN entries -> Filters]
           /\ \A i \in DOMAIN entries :
                 /\ ~ FiltersOf(entries)[i].isShadowed
                 /\ FiltersOf(entries)[i].name \in ByteString
           /\ DOMAIN entries \subseteq Int
<1>1. DOMAIN entries = 1 .. Len(entries) /\ Len(entries) \in Nat
  BY LenProperties
<1>2. ASSUME NEW i \in DOMAIN entries
      PROVE  /\ FiltersOf(entries)[i] \in Filters
             /\ ~ FiltersOf(entries)[i].isShadowed
             /\ FiltersOf(entries)[i].name \in ByteString
  <2>1. entries[i] \in FilterEntries
    BY <1>1, ElementOfSeq
  <2>2. FiltersOf(entries)[i] = NewNameFilter(entries[i].pattern, FilterName(entries[i]))
    BY DEF FiltersOf
  <2>3. FiltersOf(entries)[i] \in Filters
    BY <2>1, <2>2, NewNameFilterTyped
  <2> QED
    BY <2>2, <2>3 DEF NewNameFilter, Filters
<1>3. FiltersOf(entries) \in [DOMAIN entries -> Filters]
  BY <1>2 DEF FiltersOf
<1> QED
  BY <1>1, <1>2, <1>3

(* Entries by name, ties by place, are in a strict order.                  *)
LEMMA EntryOrderIsStrict ==
    ASSUME NEW entries \in Seq(FilterEntries)
    PROVE  StrictOrder(EntryOrder(entries), DOMAIN entries)
<1> DEFINE D == DOMAIN entries
           n == [i \in D |-> FiltersOf(entries)[i].name]
           O == EntryOrder(entries)
<1>1. D \subseteq Int /\ \A i \in D : n[i] \in ByteString
  BY FiltersOfTyped
<1>2. \A i, j \in D : <<i, j>> \in O <=> TextLess(n[i], n[j]) \/ (n[i] = n[j] /\ i < j)
  BY DEF EntryOrder
<1> HIDE DEF D, n, O
<1>3. ASSUME NEW i \in D PROVE <<i, i>> \notin O
  <2>1. ~ TextLess(n[i], n[i]) /\ ~ (i < i)
    BY <1>1, TextOrdered
  <2> QED
    BY <1>2, <2>1
<1>4. ASSUME NEW i \in D, NEW j \in D, NEW k \in D, <<i, j>> \in O, <<j, k>> \in O
      PROVE  <<i, k>> \in O
  <2>1. n[i] \in ByteString /\ n[j] \in ByteString /\ n[k] \in ByteString
    BY <1>1
  <2>2. /\ TextLess(n[i], n[j]) \/ (n[i] = n[j] /\ i < j)
        /\ TextLess(n[j], n[k]) \/ (n[j] = n[k] /\ j < k)
    BY <1>2, <1>4
  <2>3. TextLess(n[i], n[j]) /\ TextLess(n[j], n[k]) => TextLess(n[i], n[k])
    BY <2>1, TextLessTransitive
  <2>4. i < j /\ j < k => i < k
    BY <1>1
  <2>5. TextLess(n[i], n[k]) \/ (n[i] = n[k] /\ i < k)
    BY <2>2, <2>3, <2>4
  <2> QED
    BY <1>2, <2>5
<1>5. ASSUME NEW i \in D, NEW j \in D PROVE i = j \/ <<i, j>> \in O \/ <<j, i>> \in O
  <2>1. n[i] = n[j] \/ TextLess(n[i], n[j]) \/ TextLess(n[j], n[i])
    BY <1>1, TextOrdered
  <2>2. i = j \/ i < j \/ j < i
    BY <1>1
  <2> QED
    BY <1>2, <2>1, <2>2
<1>6. StrictOrder(O, D)
  BY <1>3, <1>4, <1>5 DEF StrictOrder
<1> QED
  BY <1>6 DEF O, D

(* Up to the goroutines: the enabled filters, by their names.                 *)
LEMMA PreparedLists ==
    ASSUME NEW entries \in Seq(FilterEntries)
    PROVE  /\ Fresh(Prepared(RawList(entries)))
           /\ \E e : Lists(Prepared(RawList(entries)).filters, e, FiltersOf(entries),
                           Enabled(entries), EntryOrder(entries))
<1> DEFINE raw == RawList(entries)
           u == raw.filters
           r == ByName!Sorted(u)
           Q == Stable(NameOrder, u)
           F == FiltersOf(entries)
<1>1. Fresh(raw) /\ \E p : Lists(u, p, F, Enabled(entries), Earlier(entries))
  BY RawListLists
<1>2. PICK p : Lists(u, p, F, Enabled(entries), Earlier(entries))
  BY <1>1
<1>3. /\ u \in Seq(Filters) /\ Len(u) \in Nat /\ DOMAIN u = 1 .. Len(u)
      /\ \A k \in 1 .. Len(u) : u[k] \in Filters /\ ~ u[k].isShadowed
  <2>1. u \in Seq(Filters)
    BY <1>1 DEF Fresh, FilterLists
  <2> QED
    BY <1>1, <2>1, LenProperties, ElementOfSeq DEF Fresh
<1> HIDE DEF raw
<1>4. [i \in DOMAIN u |-> [u[i] EXCEPT !.isShadowed = FALSE]] = u
  <2>1. ASSUME NEW i \in DOMAIN u PROVE [u[i] EXCEPT !.isShadowed = FALSE] = u[i]
    BY <1>3 DEF Filters
  <2>2. u = [i \in DOMAIN u |-> u[i]]
    BY <1>3, LenProperties
  <2> QED
    BY <2>1, <2>2
<1>5. Prepared(raw) = [raw EXCEPT !.filters = r]
  BY <1>4 DEF Prepared
<1>6. r \in Seq(Filters) /\ \E q : Lists(r, q, u, DOMAIN u, Q)
  BY <1>3, ByNameSorts
<1>7. PICK q : Lists(r, q, u, 1 .. Len(u), Q)
  BY <1>3, <1>6
<1>8. Len(r) \in Nat
  BY <1>6, LenProperties
<1>9. \A x, y \in 1 .. Len(u) :
         <<x, y>> \in Q <=> <<u[x], u[y]>> \in NameOrder \/ (<<u[y], u[x]>> \notin NameOrder /\ x < y)
  BY <1>3, StableIsStrict, NameOrderIsWeak
<1> HIDE DEF r, u, Q, F
<1>10. ASSUME NEW x \in 1 .. Len(u), NEW y \in 1 .. Len(u), <<x, y>> \in Q
       PROVE  <<p[x], p[y]>> \in EntryOrder(entries)
  <2>1. /\ u[x] \in Filters /\ u[y] \in Filters /\ u[x].name \in ByteString /\ u[y].name \in ByteString
        /\ ~ u[x].isShadowed /\ ~ u[y].isShadowed /\ u[x].isShadowed = u[y].isShadowed
    BY <1>3 DEF Filters
  <2>2. /\ <<u[x], u[y]>> \in NameOrder <=> TextLess(u[x].name, u[y].name)
        /\ <<u[y], u[x]>> \in NameOrder <=> TextLess(u[y].name, u[x].name)
    BY <2>1 DEF NameOrder, FilterLess
  <2>3. /\ p[x] \in Enabled(entries) /\ p[y] \in Enabled(entries)
        /\ u[x] = F[p[x]] /\ u[y] = F[p[y]]
        /\ x < y => <<p[x], p[y]>> \in Earlier(entries)
    BY <1>2 DEF Lists
  <2>4. x < y => p[x] < p[y]
    BY <2>3 DEF Earlier
  <2>5. TextLess(u[x].name, u[y].name) \/ (u[x].name = u[y].name /\ p[x] < p[y])
    BY <1>9, <1>10, <2>1, <2>2, <2>4, TextOrdered
  <2>6. p[x] \in DOMAIN entries /\ p[y] \in DOMAIN entries
    BY <2>3 DEF Enabled
  <2> QED
    BY <2>3, <2>5, <2>6 DEF EntryOrder, F
<1>11. Lists(r, [k \in 1 .. Len(r) |-> p[q[k]]], F, Enabled(entries), EntryOrder(entries))
  BY <1>2, <1>3, <1>7, <1>8, <1>10, ListsOfLists
<1>12. raw \in FilterLists /\ raw.usefulSize = 0
  BY <1>1 DEF Fresh
<1>13. /\ [raw EXCEPT !.filters = r] \in FilterLists
       /\ [raw EXCEPT !.filters = r].usefulSize = 0
       /\ [raw EXCEPT !.filters = r].filters = r
  BY <1>6, <1>12 DEF FilterLists
<1>14. \A k \in 1 .. Len(r) : ~ r[k].isShadowed
  <2>1. \A k \in 1 .. Len(r) : r[k] = u[q[k]] /\ q[k] \in 1 .. Len(u)
    BY <1>7 DEF Lists
  <2> QED
    BY <1>3, <2>1
<1>15. Fresh(Prepared(raw))
  BY <1>5, <1>13, <1>14 DEF Fresh
<1> QED
  BY <1>5, <1>11, <1>13, <1>15 DEF raw, F

(* What a filter matches depends on its words only.                        *)
LEMMA MatchesByWords ==
    ASSUME NEW t, NEW a, NEW b, a.words = b.words
    PROVE  Matches(t, a) <=> Matches(t, b)
BY DEF Matches

(* What a filter covers depends on words and names only.                   *)
LEMMA CoversByName ==
    ASSUME NEW a, NEW b, NEW c, NEW d, a.words = b.words, c.words = d.words, c.name = d.name
    PROVE  Covers(a, c) <=> Covers(b, d)
<1>1. Matches(c.name, a) <=> Matches(d.name, b)
  BY MatchesByWords
<1> QED
  BY <1>1 DEF Covers

(* The pairs of goroutines that have run leave their marks on a list.          *)
Mark(list, done, i) ==
    \E q \in done : q[2] = i /\ Covers(list.filters[q[1]], list.filters[q[2]])

(* The list with all these marks.                                          *)
Marked(list, done) ==
    [list EXCEPT !.filters =
        [i \in DOMAIN @ |-> [@[i] EXCEPT !.isShadowed = Mark(list, done, i)]]]

(* m is list with these marks, spelled out.                                *)
IsMarked(m, list, done) ==
    /\ m \in FilterLists
    /\ Len(m.filters) = Len(list.filters)
    /\ DOMAIN m.filters = 1 .. Len(list.filters)
    /\ m.usefulSize = list.usefulSize
    /\ m.isCompiled = list.isCompiled
    /\ \A i \in 1 .. Len(list.filters) :
          /\ m.filters[i] = [list.filters[i] EXCEPT !.isShadowed = Mark(list, done, i)]
          /\ m.filters[i] \in Filters
          /\ m.filters[i].words = list.filters[i].words
          /\ m.filters[i].name = list.filters[i].name
          /\ m.filters[i].isShadowed = Mark(list, done, i)

(* Marking changes nothing but isShadowed.                                 *)
LEMMA MarkedTyped ==
    ASSUME NEW list \in FilterLists, NEW done
    PROVE  /\ Len(list.filters) \in Nat
           /\ DOMAIN list.filters = 1 .. Len(list.filters)
           /\ \A i \in 1 .. Len(list.filters) : list.filters[i] \in Filters
           /\ IsMarked(Marked(list, done), list, done)
<1> DEFINE u == list.filters
           m == [i \in DOMAIN u |-> [u[i] EXCEPT !.isShadowed = Mark(list, done, i)]]
           n == Len(u)
<1>1. u \in Seq(Filters)
  BY DEF FilterLists
<1>2. n \in Nat /\ DOMAIN u = 1 .. n /\ \A i \in 1 .. n : u[i] \in Filters
  BY <1>1, LenProperties, ElementOfSeq
<1>3. Marked(list, done) = [list EXCEPT !.filters = m]
  BY DEF Marked
<1> HIDE DEF n
<1>4. Mark(list, done, 0) \in BOOLEAN /\ \A i : Mark(list, done, i) \in BOOLEAN
  BY DEF Mark
<1>5. ASSUME NEW i \in 1 .. n
      PROVE  /\ m[i] = [u[i] EXCEPT !.isShadowed = Mark(list, done, i)]
             /\ m[i] \in Filters
             /\ m[i].words = u[i].words /\ m[i].name = u[i].name
             /\ m[i].isShadowed = Mark(list, done, i)
  <2>1. m[i] = [u[i] EXCEPT !.isShadowed = Mark(list, done, i)]
    BY <1>2
  <2>2. u[i] \in Filters /\ Mark(list, done, i) \in BOOLEAN
    BY <1>2, <1>4
  <2> HIDE DEF m, u
  <2> QED
    BY <2>1, <2>2 DEF Filters
<1>6. m \in [1 .. n -> Filters]
  <2>1. DOMAIN m = 1 .. n /\ m = [i \in 1 .. n |-> m[i]]
    BY <1>2
  <2> HIDE DEF m
  <2> QED
    BY <1>5, <2>1
<1>7. m \in Seq(Filters)
  BY <1>2, <1>6, SeqDef
<1>8. Len(m) = n /\ DOMAIN m = 1 .. n
  <2>1. DOMAIN m = 1 .. n /\ DOMAIN m = 1 .. Len(m) /\ Len(m) \in Nat
    BY <1>2, <1>7, LenProperties
  <2> HIDE DEF m
  <2>2. Len(m) = n
    BY <1>2, <2>1
  <2> QED
    BY <2>1, <2>2
<1> HIDE DEF m
<1>9. /\ [list EXCEPT !.filters = m] \in FilterLists
      /\ [list EXCEPT !.filters = m].filters = m
      /\ [list EXCEPT !.filters = m].usefulSize = list.usefulSize
      /\ [list EXCEPT !.filters = m].isCompiled = list.isCompiled
  BY <1>7 DEF FilterLists
<1> QED
  BY <1>2, <1>3, <1>5, <1>8, <1>9 DEF n, IsMarked

(* Before the first goroutine.                                               *)
LEMMA NoneMarked ==
    ASSUME NEW list, Fresh(list)
    PROVE  Marked(list, {}) = list
<1> DEFINE u == list.filters
           m == [i \in DOMAIN u |-> [u[i] EXCEPT !.isShadowed = Mark(list, {}, i)]]
<1>1. list \in FilterLists
  BY DEF Fresh
<1>2. /\ u \in Seq(Filters) /\ DOMAIN u = 1 .. Len(u)
      /\ \A i \in 1 .. Len(u) : u[i] \in Filters /\ ~ u[i].isShadowed
  <2>1. u \in Seq(Filters)
    BY <1>1 DEF FilterLists
  <2> QED
    BY <2>1, LenProperties, ElementOfSeq DEF Fresh
<1>3. ASSUME NEW i \in DOMAIN u PROVE [u[i] EXCEPT !.isShadowed = Mark(list, {}, i)] = u[i]
  <2>1. u[i] \in Filters /\ ~ u[i].isShadowed
    BY <1>2
  <2>2. ~ Mark(list, {}, i) /\ Mark(list, {}, i) \in BOOLEAN
    BY DEF Mark
  <2>3. Mark(list, {}, i) = FALSE /\ u[i].isShadowed = FALSE
    BY <2>1, <2>2 DEF Filters
  <2> HIDE DEF u
  <2> QED
    BY <2>1, <2>3 DEF Filters
<1>4. u = [i \in DOMAIN u |-> u[i]]
  BY <1>2, LenProperties
<1>5. m = u
  BY <1>3, <1>4
<1>6. Marked(list, {}) = [list EXCEPT !.filters = m]
  BY DEF Marked
<1> HIDE DEF m
<1> QED
  BY <1>1, <1>5, <1>6 DEF FilterLists

(* One more goroutine.                                                       *)
LEMMA VerifiedMarks ==
    ASSUME NEW list \in FilterLists, NEW done, NEW p \in Pairs(list)
    PROVE  Verified(Marked(list, done), p) = Marked(list, done \cup {p})
<1> DEFINE M == Marked(list, done)
           N == Marked(list, done \cup {p})
           n == Len(list.filters)
<1>1. /\ M \in FilterLists /\ DOMAIN M.filters = 1 .. n /\ n \in Nat
      /\ DOMAIN list.filters = 1 .. n
      /\ \A i \in 1 .. n :
            /\ M.filters[i] = [list.filters[i] EXCEPT !.isShadowed = Mark(list, done, i)]
            /\ M.filters[i] \in Filters /\ list.filters[i] \in Filters
            /\ M.filters[i].words = list.filters[i].words
            /\ M.filters[i].name = list.filters[i].name
            /\ M.filters[i].isShadowed = Mark(list, done, i)
  <2>1. IsMarked(M, list, done) /\ n \in Nat /\ DOMAIN list.filters = 1 .. n
    BY MarkedTyped
  <2>2. \A i \in 1 .. n : list.filters[i] \in Filters
    BY MarkedTyped
  <2> HIDE DEF M
  <2> QED
    BY <2>1, <2>2 DEF IsMarked
<1>2. /\ N \in FilterLists /\ DOMAIN N.filters = 1 .. n
      /\ N.usefulSize = M.usefulSize /\ N.isCompiled = M.isCompiled
      /\ \A i \in 1 .. n :
            /\ N.filters[i] = [list.filters[i] EXCEPT !.isShadowed = Mark(list, done \cup {p}, i)]
  <2>1. IsMarked(M, list, done) /\ IsMarked(N, list, done \cup {p})
    BY MarkedTyped
  <2> HIDE DEF M, N
  <2> QED
    BY <2>1 DEF IsMarked
<1>3. p[1] \in 1 .. n /\ p[2] \in 1 .. n
  BY <1>1 DEF Pairs
<1>4. Covers(M.filters[p[1]], M.filters[p[2]]) <=> Covers(list.filters[p[1]], list.filters[p[2]])
  <2>1. /\ M.filters[p[1]].words = list.filters[p[1]].words
        /\ M.filters[p[2]].words = list.filters[p[2]].words
        /\ M.filters[p[2]].name = list.filters[p[2]].name
    BY <1>1, <1>3
  <2> HIDE DEF M
  <2> QED
    BY <2>1, CoversByName
<1> HIDE DEF M, N, n
<1> DEFINE c == Covers(list.filters[p[1]], list.filters[p[2]])
<1>5. ASSUME NEW i \in 1 .. n
      PROVE  Mark(list, done \cup {p}, i) <=> Mark(list, done, i) \/ (i = p[2] /\ c)
  BY DEF Mark
<1>6. \A i : Mark(list, done, i) \in BOOLEAN /\ Mark(list, done \cup {p}, i) \in BOOLEAN
  BY DEF Mark
<1> DEFINE V == IF c THEN [M EXCEPT !.filters[p[2]].isShadowed = TRUE] ELSE M
<1>7. Verified(M, p) = V
  BY <1>4 DEF Verified
<1> HIDE DEF c
<1>8. V.filters = N.filters
  <2>1. CASE c
    <3> DEFINE v == [M.filters EXCEPT ![p[2]] = [M.filters[p[2]] EXCEPT !.isShadowed = TRUE]]
    <3>1. V.filters = v
      BY <1>1, <2>1 DEF FilterLists
    <3>2. ASSUME NEW i \in 1 .. n PROVE v[i] = N.filters[i]
      <4>1. list.filters[i] \in Filters
        BY <1>1
      <4>2. CASE i = p[2]
        <5>1. v[i] = [M.filters[i] EXCEPT !.isShadowed = TRUE]
          BY <1>1, <4>2
        <5>2. M.filters[i] = [list.filters[i] EXCEPT !.isShadowed = Mark(list, done, i)]
          BY <1>1
        <5>3. Mark(list, done \cup {p}, i) = TRUE
          BY <1>5, <1>6, <2>1, <4>2
        <5>4. N.filters[i] = [list.filters[i] EXCEPT !.isShadowed = TRUE]
          BY <1>2, <5>3
        <5> HIDE DEF v
        <5> QED
          BY <4>1, <5>1, <5>2, <5>4 DEF Filters
      <4>3. CASE i # p[2]
        <5>1. Mark(list, done \cup {p}, i) = Mark(list, done, i)
          BY <1>5, <1>6, <4>3
        <5>2. v[i] = M.filters[i]
          BY <1>1, <4>3
        <5>3. M.filters[i] = [list.filters[i] EXCEPT !.isShadowed = Mark(list, done, i)]
          BY <1>1
        <5>4. N.filters[i] =
                [list.filters[i] EXCEPT !.isShadowed = Mark(list, done \cup {p}, i)]
          BY <1>2
        <5> HIDE DEF v
        <5> QED
          BY <5>1, <5>2, <5>3, <5>4
      <4> QED
        BY <4>2, <4>3
    <3>3. v = [i \in 1 .. n |-> v[i]]
      BY <1>1
    <3>4. N.filters = [i \in 1 .. n |-> N.filters[i]]
      BY <1>2, LenProperties DEF FilterLists
    <3> HIDE DEF v
    <3> QED
      BY <3>1, <3>2, <3>3, <3>4
  <2>2. CASE ~ c
    <3>1. V.filters = M.filters
      BY <2>2
    <3>2. ASSUME NEW i \in 1 .. n PROVE M.filters[i] = N.filters[i]
      <4>1. Mark(list, done \cup {p}, i) = Mark(list, done, i)
        BY <1>5, <1>6, <2>2
      <4>2. M.filters[i] = [list.filters[i] EXCEPT !.isShadowed = Mark(list, done, i)]
        BY <1>1
      <4>3. N.filters[i] =
              [list.filters[i] EXCEPT !.isShadowed = Mark(list, done \cup {p}, i)]
        BY <1>2
      <4> QED
        BY <4>1, <4>2, <4>3
    <3>3. M.filters \in Seq(Filters) /\ N.filters \in Seq(Filters)
      BY <1>1, <1>2 DEF FilterLists
    <3>4. /\ M.filters = [i \in 1 .. n |-> M.filters[i]]
          /\ N.filters = [i \in 1 .. n |-> N.filters[i]]
      BY <1>1, <1>2, <3>3, LenProperties
    <3> QED
      BY <3>1, <3>2, <3>4
  <2> QED
    BY <2>1, <2>2
<1>9. V = N
  <2>1. V.usefulSize = M.usefulSize /\ V.isCompiled = M.isCompiled
    BY <1>1 DEF FilterLists
  <2>2. V = [filters |-> V.filters, usefulSize |-> V.usefulSize, isCompiled |-> V.isCompiled]
    BY <1>1 DEF FilterLists
  <2>3. N = [filters |-> N.filters, usefulSize |-> N.usefulSize, isCompiled |-> N.isCompiled]
    BY <1>2 DEF FilterLists
  <2> HIDE DEF V
  <2> QED
    BY <1>2, <1>8, <2>1, <2>2, <2>3
<1> QED
  BY <1>7, <1>9 DEF M, N

(* Compile as a whole is what the goroutines and the step behind them make.     *)
LEMMA CompiledIsFinished ==
    ASSUME NEW list
    PROVE  Compiled(list) = Finished(Marked(Prepared(list), Pairs(Prepared(list))))
<1> DEFINE P == Prepared(list)
           shadowed == {q[2] : q \in {r \in Pairs(P) : Covers(P.filters[r[1]], P.filters[r[2]])}}
<1>1. ASSUME NEW i PROVE i \in shadowed <=> Mark(P, Pairs(P), i)
  BY DEF Mark
<1>2. \A i : (i \in shadowed) = Mark(P, Pairs(P), i)
  <2>1. \A i : (i \in shadowed) \in BOOLEAN /\ Mark(P, Pairs(P), i) \in BOOLEAN
    BY DEF Mark
  <2> QED
    BY <1>1, <2>1
<1>3. Compiled(list) = Finished([P EXCEPT !.filters =
                           [i \in DOMAIN @ |-> [@[i] EXCEPT !.isShadowed = i \in shadowed]]])
  BY DEF Compiled
<1> HIDE DEF P, shadowed
<1>4. [P EXCEPT !.filters = [i \in DOMAIN @ |-> [@[i] EXCEPT !.isShadowed = i \in shadowed]]]
        = Marked(P, Pairs(P))
  BY <1>2 DEF Marked
<1> QED
  BY <1>3, <1>4 DEF P

(* Behind the goroutines: the list is sorted again, and the filters in use are  *)
(* those without a mark.                                                    *)
LEMMA FinishedLists ==
    ASSUME NEW list \in FilterLists
    PROVE  LET f == Finished(list)
               n == Len(f.filters)
           IN  /\ f \in FilterLists /\ f.isCompiled /\ n \in Nat
               /\ list.usefulSize = 0 =>
                     /\ f.usefulSize <= n
                     /\ \A k \in 1 .. n : k <= f.usefulSize <=> ~ f.filters[k].isShadowed
               /\ \E q : Lists(f.filters, q, list.filters, 1 .. Len(list.filters),
                               Stable(NameOrder, list.filters))
<1> DEFINE u == list.filters
           r == ByName!Sorted(u)
           n == Len(r)
           useful == {i \in DOMAIN r : ~ r[i].isShadowed}
           Q == Stable(NameOrder, u)
           size == IF useful = {} THEN list.usefulSize
                   ELSE CHOOSE i \in useful : \A j \in useful : j <= i
<1>1. u \in Seq(Filters) /\ list.usefulSize \in Nat
  BY DEF FilterLists
<1>2. Len(u) \in Nat /\ DOMAIN u = 1 .. Len(u) /\ \A i \in 1 .. Len(u) : u[i] \in Filters
  BY <1>1, LenProperties, ElementOfSeq
<1>3. r \in Seq(Filters) /\ \E q : Lists(r, q, u, DOMAIN u, Q)
  BY <1>1, ByNameSorts
<1>4. PICK q : Lists(r, q, u, 1 .. Len(u), Q)
  BY <1>2, <1>3
<1>5. n \in Nat /\ DOMAIN r = 1 .. n
  BY <1>3, LenProperties
<1>6. Finished(list) = [filters |-> r, usefulSize |-> size, isCompiled |-> TRUE]
  BY DEF Finished
<1>7. StrictOrder(Q, DOMAIN u)
      /\ \A x, y \in DOMAIN u :
            <<x, y>> \in Q <=> <<u[x], u[y]>> \in NameOrder \/ (<<u[y], u[x]>> \notin NameOrder /\ x < y)
  BY <1>1, StableIsStrict, NameOrderIsWeak
<1> HIDE DEF u, r, n, Q
<1>8. useful \in SUBSET (1 .. n)
  BY <1>5
<1>9. useful # {} => size \in useful /\ \A j \in useful : j <= size
  <2> SUFFICES ASSUME useful # {} PROVE size \in useful /\ \A j \in useful : j <= size
    OBVIOUS
  <2>1. Max(useful) \in useful /\ \A j \in useful : j <= Max(useful)
    BY <1>5, <1>8, MaxIsLast
  <2> HIDE DEF useful
  <2> QED
    BY <2>1
<1>10. size \in Nat
  <2>1. CASE useful = {}
    BY <1>1, <2>1
  <2>2. CASE useful # {}
    <3>1. size \in 1 .. n
      BY <1>8, <1>9, <2>2
    <3> QED
      BY <1>5, <3>1
  <2> QED
    BY <2>1, <2>2
<1>11. ASSUME NEW k \in 1 .. n, NEW l \in 1 .. n, k < l, ~ r[l].isShadowed
       PROVE  ~ r[k].isShadowed
  <2> DEFINE x == q[k]
             y == q[l]
  <2>1. /\ x \in 1 .. Len(u) /\ y \in 1 .. Len(u) /\ r[k] = u[x] /\ r[l] = u[y]
        /\ <<x, y>> \in Q
    BY <1>4, <1>11 DEF Lists, n
  <2>2. u[x] \in Filters /\ u[y] \in Filters /\ ~ u[y].isShadowed
    BY <1>2, <1>11, <2>1
  <2>3. ASSUME u[x].isShadowed PROVE FALSE
    <3>1. u[x].isShadowed # u[y].isShadowed /\ ~ FilterLess(u[x], u[y]) /\ FilterLess(u[y], u[x])
      BY <2>2, <2>3 DEF FilterLess, Filters
    <3>2. <<u[x], u[y]>> \notin NameOrder /\ <<u[y], u[x]>> \in NameOrder
      BY <2>2, <3>1 DEF NameOrder
    <3> QED
      BY <1>2, <1>7, <2>1, <3>2
  <2> QED
    BY <2>1, <2>3
<1>12. ASSUME list.usefulSize = 0
       PROVE  size <= n /\ \A k \in 1 .. n : k <= size <=> ~ r[k].isShadowed
  <2>1. \A k \in 1 .. n : k \in useful <=> ~ r[k].isShadowed
    BY <1>5
  <2> HIDE DEF size
  <2>2. CASE useful = {}
    <3>1. size = 0
      BY <1>12, <2>2 DEF size
    <3> HIDE DEF useful
    <3> QED
      BY <1>5, <2>1, <2>2, <3>1
  <2>3. CASE useful # {}
    <3>1. size \in useful /\ \A j \in useful : j <= size
      BY <1>9, <2>3
    <3>2. size \in 1 .. n /\ ~ r[size].isShadowed
      BY <1>8, <2>1, <3>1
    <3> HIDE DEF useful
    <3>3. ASSUME NEW k \in 1 .. n, k <= size PROVE ~ r[k].isShadowed
      <4>1. k = size \/ k < size
        BY <3>2, <3>3
      <4> QED
        BY <1>11, <3>2, <4>1
    <3> QED
      BY <1>5, <2>1, <3>1, <3>2, <3>3
  <2> QED
    BY <2>2, <2>3
<1> HIDE DEF size, useful
<1>13. /\ Finished(list).filters = r /\ Finished(list).usefulSize = size
       /\ Finished(list).isCompiled
  BY <1>6
<1>14. Finished(list) \in FilterLists
  BY <1>3, <1>6, <1>10 DEF FilterLists
<1> QED
  BY <1>4, <1>5, <1>12, <1>13, <1>14 DEF n, u, Q

(* A filter of a lesser name covers the filter of this entry.                  *)
Hidden(entries, i) ==
    \E j \in Enabled(entries) :
       <<j, i>> \in EntryOrder(entries) /\ Covers(FiltersOf(entries)[j], FiltersOf(entries)[i])

(* The list l, by e, of the enabled filters of the entries: those that no       *)
(* filter of a lesser name covers, by their names, and then the others.        *)
IsCompiledOf(l, e, entries) ==
    /\ e \in [1 .. Len(l.filters) -> Enabled(entries)]
    /\ \A x \in Enabled(entries) : \E k \in 1 .. Len(l.filters) : e[k] = x
    /\ \A k \in 1 .. Len(l.filters) :
          /\ l.filters[k].words = FiltersOf(entries)[e[k]].words
          /\ l.filters[k].name = FiltersOf(entries)[e[k]].name
          /\ k <= l.usefulSize <=> ~ Hidden(entries, e[k])
    /\ \A k, m \in 1 .. l.usefulSize : k < m => <<e[k], e[m]>> \in EntryOrder(entries)
    /\ l.usefulSize <= Len(l.filters)

(* Compile keeps the enabled filters that no other covers, by name, in front: *)
(* Compile of config/filterList.go.                                        *)
LEMMA CompiledLists ==
    ASSUME NEW entries \in Seq(FilterEntries)
    PROVE  LET l == Compiled(RawList(entries))
           IN  /\ l \in FilterLists /\ l.isCompiled
               /\ \E e : IsCompiledOf(l, e, entries)
<1> DEFINE P == Prepared(RawList(entries))
           M == Marked(P, Pairs(P))
           l == Finished(M)
           F == FiltersOf(entries)
           On == Enabled(entries)
           O == EntryOrder(entries)
           n == Len(P.filters)
           Q == Stable(NameOrder, M.filters)
<1>1. Compiled(RawList(entries)) = l
  BY CompiledIsFinished
<1>2. Fresh(P) /\ \E p : Lists(P.filters, p, F, On, O)
  BY PreparedLists
<1>3. PICK p : Lists(P.filters, p, F, On, O)
  BY <1>2
<1>4. P \in FilterLists /\ P.usefulSize = 0
  BY <1>2 DEF Fresh
<1>5. /\ n \in Nat /\ DOMAIN P.filters = 1 .. n
      /\ IsMarked(M, P, Pairs(P))
  BY <1>4, MarkedTyped
<1> HIDE DEF P
<1>6. M \in FilterLists /\ M.usefulSize = 0 /\ Len(M.filters) = n
  BY <1>4, <1>5 DEF IsMarked
<1> HIDE DEF M
<1>7. /\ l \in FilterLists /\ l.isCompiled /\ Len(l.filters) \in Nat
      /\ l.usefulSize <= Len(l.filters)
      /\ \A k \in 1 .. Len(l.filters) : k <= l.usefulSize <=> ~ l.filters[k].isShadowed
      /\ \E q : Lists(l.filters, q, M.filters, 1 .. n, Q)
  BY <1>6, FinishedLists
<1>8. PICK q : Lists(l.filters, q, M.filters, 1 .. n, Q)
  BY <1>7
<1> HIDE DEF l
<1> DEFINE m == Len(l.filters)
           e == [k \in 1 .. m |-> p[q[k]]]
<1>9. StrictOrder(O, DOMAIN entries) /\ On \subseteq DOMAIN entries
  BY EntryOrderIsStrict DEF Enabled
<1>10. \A k \in 1 .. m : q[k] \in 1 .. n /\ l.filters[k] = M.filters[q[k]] /\ e[k] = p[q[k]]
  BY <1>8 DEF Lists
<1>11. /\ \A j \in 1 .. n : p[j] \in On /\ P.filters[j] = F[p[j]]
       /\ \A j, k \in 1 .. n : j < k => <<p[j], p[k]>> \in O
       /\ \A x \in On : \E j \in 1 .. n : p[j] = x
  BY <1>3 DEF Lists
<1>12. \A j \in 1 .. n : /\ M.filters[j].words = P.filters[j].words
                         /\ M.filters[j].name = P.filters[j].name
                         /\ M.filters[j].isShadowed = Mark(P, Pairs(P), j)
                         /\ M.filters[j] \in Filters
  BY <1>5 DEF IsMarked
<1>13. ASSUME NEW j \in 1 .. n, NEW k \in 1 .. n PROVE <<p[j], p[k]>> \in O <=> j < k
  <2>1. j < k \/ j = k \/ k < j
    BY <1>5
  <2>2. p[j] \in DOMAIN entries /\ p[k] \in DOMAIN entries
    BY <1>9, <1>11
  <2>3. CASE j < k
    BY <1>11, <2>3
  <2>4. CASE j = k
    <3>1. <<p[j], p[k]>> \notin O
      BY <1>9, <2>2, <2>4 DEF StrictOrder
    <3> QED
      BY <1>5, <2>4, <3>1
  <2>5. CASE k < j
    <3>1. <<p[k], p[j]>> \in O
      BY <1>11, <2>5
    <3>2. <<p[j], p[k]>> \notin O
      BY <1>9, <2>2, <3>1 DEF StrictOrder
    <3> QED
      BY <1>5, <2>5, <3>2
  <2> QED
    BY <2>1, <2>3, <2>4, <2>5
<1>14. ASSUME NEW k \in 1 .. n PROVE Mark(P, Pairs(P), k) <=> Hidden(entries, p[k])
  <2>1. ASSUME NEW r \in Pairs(P), r[2] = k, Covers(P.filters[r[1]], P.filters[r[2]])
        PROVE  Hidden(entries, p[k])
    <3>1. r[1] \in 1 .. n /\ r[1] < k
      BY <1>5, <2>1 DEF Pairs
    <3>2. p[r[1]] \in On /\ <<p[r[1]], p[k]>> \in O /\ Covers(F[p[r[1]]], F[p[k]])
      BY <1>11, <2>1, <3>1
    <3> QED
      BY <3>2 DEF Hidden
  <2>2. ASSUME NEW x \in On, <<x, p[k]>> \in O, Covers(F[x], F[p[k]])
        PROVE  Mark(P, Pairs(P), k)
    <3>1. PICK j \in 1 .. n : p[j] = x
      BY <1>11
    <3>2. j < k
      BY <1>13, <2>2, <3>1
    <3>3. <<j, k>> \in Pairs(P)
      BY <1>5, <3>2 DEF Pairs
    <3>4. Covers(P.filters[j], P.filters[k])
      BY <1>11, <2>2, <3>1
    <3> QED
      BY <3>3, <3>4 DEF Mark
  <2> QED
    BY <2>1, <2>2 DEF Mark, Hidden
<1> HIDE DEF e, F, On, O, n, Q, m
<1>15. e \in [1 .. m -> On]
  <2>1. \A k \in 1 .. m : p[q[k]] \in On
    BY <1>10, <1>11
  <2> QED
    BY <2>1 DEF e
<1>16. ASSUME NEW x \in On PROVE \E k \in 1 .. m : e[k] = x
  <2>1. PICK j \in 1 .. n : p[j] = x
    BY <1>11
  <2>2. PICK k \in 1 .. m : q[k] = j
    BY <1>8, <2>1 DEF Lists, m
  <2> QED
    BY <1>10, <2>1, <2>2
<1>17. ASSUME NEW k \in 1 .. m
       PROVE  /\ l.filters[k].words = F[e[k]].words
              /\ l.filters[k].name = F[e[k]].name
              /\ k <= l.usefulSize <=> ~ Hidden(entries, e[k])
  <2>1. q[k] \in 1 .. n /\ l.filters[k] = M.filters[q[k]] /\ e[k] = p[q[k]]
    BY <1>10
  <2>2. P.filters[q[k]] = F[e[k]]
    BY <1>11, <2>1
  <2>3. l.filters[k].words = F[e[k]].words /\ l.filters[k].name = F[e[k]].name
    BY <1>12, <2>1, <2>2
  <2>4. k <= l.usefulSize <=> ~ l.filters[k].isShadowed
    BY <1>7 DEF m
  <2>5. l.filters[k].isShadowed <=> Hidden(entries, e[k])
    BY <1>12, <1>14, <2>1
  <2> QED
    BY <2>3, <2>4, <2>5
<1>18. ASSUME NEW j \in 1 .. l.usefulSize, NEW k \in 1 .. l.usefulSize, j < k
       PROVE  <<e[j], e[k]>> \in O
  <2>0. j \in 1 .. m /\ k \in 1 .. m /\ l.usefulSize \in Nat
    BY <1>7 DEF m, FilterLists
  <2> DEFINE x == q[j]
             y == q[k]
  <2>1. /\ x \in 1 .. n /\ l.filters[j] = M.filters[x] /\ e[j] = p[x]
        /\ y \in 1 .. n /\ l.filters[k] = M.filters[y] /\ e[k] = p[y]
    BY <1>10, <2>0
  <2>2. ~ l.filters[j].isShadowed /\ ~ l.filters[k].isShadowed
    BY <1>7, <1>18, <2>0 DEF m
  <2>3. <<x, y>> \in Q
    BY <1>8, <1>18, <2>0 DEF Lists, m
  <2>4. /\ M.filters[x] \in Filters /\ M.filters[y] \in Filters
        /\ M.filters[x].isShadowed = FALSE /\ M.filters[y].isShadowed = FALSE
        /\ M.filters[x].name \in ByteString /\ M.filters[y].name \in ByteString
    BY <1>12, <2>1, <2>2 DEF Filters
  <2> HIDE DEF x, y
  <2>5. <<M.filters[x], M.filters[y]>> \in NameOrder \/ x < y
    BY <2>3 DEF Q, Stable
  <2>6. CASE x < y
    BY <1>13, <2>1, <2>6
  <2>7. CASE <<M.filters[x], M.filters[y]>> \in NameOrder
    <3>1. TextLess(M.filters[x].name, M.filters[y].name)
      BY <2>4, <2>7 DEF NameOrder, FilterLess
    <3>2. M.filters[x].name = F[p[x]].name /\ M.filters[y].name = F[p[y]].name
      BY <1>11, <1>12, <2>1
    <3>3. p[x] \in DOMAIN entries /\ p[y] \in DOMAIN entries
      BY <1>9, <1>11, <2>1
    <3>4. <<p[x], p[y]>> \in O
      BY <3>1, <3>2, <3>3 DEF O, F, EntryOrder
    <3> QED
      BY <2>1, <3>4
  <2> QED
    BY <2>5, <2>6, <2>7
<1>19. IsCompiledOf(l, e, entries)
  BY <1>7, <1>15, <1>16, <1>17, <1>18 DEF IsCompiledOf, m, On, F, O
<1> QED
  BY <1>1, <1>7, <1>19

(* FindFilter of a compiled list returns the filter the entries determine.      *)
LEMMA FoundIsExpected ==
    ASSUME NEW entries \in Seq(FilterEntries), NEW t
    PROVE  FoundFilter(Compiled(RawList(entries)), t) = ExpectedFilter(entries, t)
<1> DEFINE l == Compiled(RawList(entries))
           on == {i \in DOMAIN entries : IsEnabled(entries[i])}
           f == [i \in on |-> NewNameFilter(entries[i].pattern, FilterName(entries[i]))]
           Before(i, j) == \/ TextLess(f[i].name, f[j].name)
                           \/ f[i].name = f[j].name /\ i < j
           expected == {i \in on : /\ Matches(t, f[i])
                                   /\ ~ \E j \in on : Before(j, i) /\ Covers(f[j], f[i])}
           O == EntryOrder(entries)
           F == FiltersOf(entries)
           hits == {i \in 1 .. l.usefulSize : Matches(t, l.filters[i])}
           index == FindFilter(l, t)
           best == CHOOSE i \in expected : \A j \in expected \ {i} : Before(i, j)
<1>1. on = Enabled(entries) /\ on \subseteq DOMAIN entries
  BY DEF Enabled
<1>2. \A i \in on : f[i] = F[i]
  BY DEF FiltersOf
<1>3. \A i, j \in on : Before(i, j) <=> <<i, j>> \in O
  <2> SUFFICES ASSUME NEW i \in on, NEW j \in on PROVE Before(i, j) <=> <<i, j>> \in O
    OBVIOUS
  <2>1. f[i] = F[i] /\ f[j] = F[j] /\ i \in DOMAIN entries /\ j \in DOMAIN entries
    BY <1>2
  <2>2. <<i, j>> \in O <=> \/ TextLess(F[i].name, F[j].name)
                           \/ F[i].name = F[j].name /\ i < j
    BY <2>1 DEF EntryOrder
  <2> HIDE DEF f, O, F, on
  <2> QED
    BY <2>1, <2>2
<1>4. ExpectedFilter(entries, t) = IF expected = {} THEN NoName ELSE f[best].name
  BY DEF ExpectedFilter
<1>5. FoundFilter(l, t) = IF index = NotFound THEN NoName ELSE l.filters[index].name
  BY DEF FoundFilter
<1>6. l \in FilterLists /\ l.isCompiled /\ l.usefulSize \in Nat /\ \E e : IsCompiledOf(l, e, entries)
  BY CompiledLists DEF FilterLists
<1>7. PICK e : IsCompiledOf(l, e, entries)
  BY <1>6
<1>8. index = IF hits = {} THEN NotFound ELSE CHOOSE i \in hits : \A j \in hits : i <= j
  BY <1>6 DEF FindFilter
<1>9. StrictOrder(O, DOMAIN entries)
  BY EntryOrderIsStrict
<1> HIDE DEF l, on, f, O, F, Before
<1>10. /\ \A k \in 1 .. Len(l.filters) :
             /\ e[k] \in on
             /\ l.filters[k].words = F[e[k]].words /\ l.filters[k].name = F[e[k]].name
             /\ k <= l.usefulSize <=> ~ Hidden(entries, e[k])
       /\ \A x \in on : \E k \in 1 .. Len(l.filters) : e[k] = x
       /\ \A k, m \in 1 .. l.usefulSize : k < m => <<e[k], e[m]>> \in O
       /\ \A k \in 1 .. l.usefulSize : k \in 1 .. Len(l.filters)
  <2>1. \A k \in 1 .. l.usefulSize : k \in 1 .. Len(l.filters)
    <3>1. l.filters \in Seq(Filters) /\ l.usefulSize <= Len(l.filters)
      BY <1>6, <1>7 DEF IsCompiledOf, FilterLists
    <3>2. Len(l.filters) \in Nat
      BY <3>1, LenProperties
    <3> QED
      BY <1>6, <3>1, <3>2
  <2> QED
    BY <1>1, <1>7, <2>1 DEF IsCompiledOf, F, O
<1>11. ASSUME NEW i \in on
       PROVE  (\E j \in on : Before(j, i) /\ Covers(f[j], f[i])) <=> Hidden(entries, i)
  <2>1. \A j \in on : Before(j, i) /\ Covers(f[j], f[i]) <=> <<j, i>> \in O /\ Covers(F[j], F[i])
    BY <1>2, <1>3
  <2>2. Hidden(entries, i) <=> \E j \in on : <<j, i>> \in O /\ Covers(F[j], F[i])
    BY <1>1 DEF Hidden, F, O
  <2> QED
    BY <2>1, <2>2
<1>12. \A i : i \in expected <=> i \in on /\ Matches(t, F[i]) /\ ~ Hidden(entries, i)
  BY <1>2, <1>11
<1>13. ASSUME NEW k \in 1 .. l.usefulSize
       PROVE  k \in hits <=> e[k] \in expected
  <2>1. Matches(t, l.filters[k]) <=> Matches(t, F[e[k]])
    BY <1>10, MatchesByWords
  <2> QED
    BY <1>10, <1>12, <2>1
<1>14. ASSUME NEW i \in expected PROVE \E k \in hits : e[k] = i
  <2>1. i \in on /\ ~ Hidden(entries, i)
    BY <1>12
  <2>2. PICK k \in 1 .. Len(l.filters) : e[k] = i
    BY <1>10, <2>1
  <2>3. k \in 1 .. l.usefulSize
    BY <1>6, <1>10, <2>1, <2>2
  <2> QED
    BY <1>13, <2>2, <2>3
<1> HIDE DEF expected
<1>15. CASE hits = {}
  <2>1. expected = {} /\ index = NotFound
    BY <1>8, <1>14, <1>15
  <2> HIDE DEF index
  <2> QED
    BY <1>4, <1>5, <2>1 DEF l
<1>16. CASE hits # {}
  <2>1. hits \subseteq Nat
    BY <1>6
  <2>2. PICK k \in hits : \A j \in hits : k <= j
    BY <1>16, <2>1, LeastNatural
  <2>3. index = k
    <3>1. index \in hits /\ \A j \in hits : index <= j
      BY <1>8, <1>16, <2>2
    <3> HIDE DEF index, hits
    <3> QED
      BY <2>1, <2>2, <3>1
  <2>4. k \in 1 .. l.usefulSize /\ k # NotFound
    BY <1>6 DEF NotFound
  <2>5. e[k] \in expected /\ e[k] \in on /\ \A i \in expected : i \in on
    BY <1>12, <1>13, <2>4
  <2>6. ASSUME NEW i \in expected \ {e[k]} PROVE Before(e[k], i)
    <3>1. PICK j \in hits : e[j] = i
      BY <1>14
    <3>2. j \in 1 .. l.usefulSize /\ k <= j /\ j # k
      BY <2>2, <3>1
    <3>3. k < j
      BY <2>4, <3>2
    <3>4. <<e[k], i>> \in O
      BY <1>10, <2>4, <3>1, <3>2, <3>3
    <3> QED
      BY <1>3, <2>5, <3>4
  <2>7. best = e[k]
    <3>1. best \in expected /\ \A j \in expected \ {best} : Before(best, j)
      BY <2>5, <2>6
    <3> HIDE DEF best
    <3>2. ASSUME best # e[k] PROVE FALSE
      <4>1. Before(best, e[k]) /\ Before(e[k], best)
        BY <2>5, <2>6, <3>1, <3>2
      <4>2. /\ <<best, e[k]>> \in O /\ <<e[k], best>> \in O
            /\ best \in DOMAIN entries /\ e[k] \in DOMAIN entries
        BY <1>1, <1>3, <2>5, <3>1, <4>1
      <4> QED
        BY <1>9, <4>2 DEF StrictOrder
    <3> QED
      BY <3>2
  <2>8. expected # {} /\ f[e[k]].name = F[e[k]].name /\ l.filters[k].name = F[e[k]].name
    BY <1>2, <1>10, <2>4, <2>5
  <2> HIDE DEF index, best
  <2> QED
    BY <1>4, <1>5, <2>3, <2>4, <2>7, <2>8 DEF l
<1> QED
  BY <1>15, <1>16

-----------------------------------------------------------------------------
(* What a pattern means.                                                    *)

(* The places of a text and a pattern that are left to compare.                *)
LEMMA PlacesLeft ==
    ASSUME NEW t \in ByteString, NEW p \in ByteString, NEW at \in MergePlaces(t, p)
    PROVE  /\ Len(t) \in Nat /\ Len(p) \in Nat
           /\ at[1] \in 1 .. Len(t) + 1 /\ at[2] \in 1 .. Len(p) + 1 /\ at = <<at[1], at[2]>>
           /\ MergeRank(t, p)[at] \in 0 .. Len(t) + Len(p)
           /\ at[2] <= Len(p) =>
                 /\ <<at[1], at[2] + 1>> \in MergePlaces(t, p)
                 /\ MergeRank(t, p)[<<at[1], at[2] + 1>>] < MergeRank(t, p)[at]
           /\ at[1] <= Len(t) =>
                 /\ <<at[1] + 1, at[2]>> \in MergePlaces(t, p)
                 /\ MergeRank(t, p)[<<at[1] + 1, at[2]>>] < MergeRank(t, p)[at]
           /\ at[1] <= Len(t) /\ at[2] <= Len(p) =>
                 /\ <<at[1] + 1, at[2] + 1>> \in MergePlaces(t, p)
                 /\ MergeRank(t, p)[<<at[1] + 1, at[2] + 1>>] < MergeRank(t, p)[at]
<1> DEFINE x == at[1]
           y == at[2]
           n == Len(t)
           m == Len(p)
<1>1. n \in Nat /\ m \in Nat
  BY LenProperties DEF ByteString
<1>2. x \in 1 .. n + 1 /\ y \in 1 .. m + 1 /\ at = <<x, y>>
  BY DEF MergePlaces
<1>3. \A i \in 1 .. n + 1, j \in 1 .. m + 1 :
         /\ <<i, j>> \in MergePlaces(t, p)
         /\ MergeRank(t, p)[<<i, j>>] = (n + 1 - i) + (m + 1 - j)
  BY <1>1 DEF MergePlaces, MergeRank
<1> HIDE DEF n, m
<1>4. MergeRank(t, p)[at] = (n + 1 - x) + (m + 1 - y)
  BY <1>2, <1>3
<1> HIDE DEF x, y
<1>5. MergeRank(t, p)[at] \in 0 .. n + m
  BY <1>1, <1>2, <1>4
<1>6. ASSUME y <= m PROVE y + 1 \in 1 .. m + 1
  BY <1>1, <1>2, <1>6
<1>7. ASSUME x <= n PROVE x + 1 \in 1 .. n + 1
  BY <1>1, <1>2, <1>7
<1>8. y <= m => /\ <<x, y + 1>> \in MergePlaces(t, p)
                /\ MergeRank(t, p)[<<x, y + 1>>] < MergeRank(t, p)[at]
  BY <1>1, <1>2, <1>3, <1>4, <1>6
<1>9. x <= n => /\ <<x + 1, y>> \in MergePlaces(t, p)
                /\ MergeRank(t, p)[<<x + 1, y>>] < MergeRank(t, p)[at]
  BY <1>1, <1>2, <1>3, <1>4, <1>7
<1>10. x <= n /\ y <= m => /\ <<x + 1, y + 1>> \in MergePlaces(t, p)
                           /\ MergeRank(t, p)[<<x + 1, y + 1>>] < MergeRank(t, p)[at]
  BY <1>1, <1>2, <1>3, <1>4, <1>6, <1>7
<1> QED
  BY <1>1, <1>2, <1>5, <1>8, <1>9, <1>10 DEF x, y, n, m

(* The recursion of Fits.                                                   *)
FitsStep(t, p, f) ==
    [at \in MergePlaces(t, p) |->
       IF at[2] > Len(p) THEN at[1] > Len(t)
       ELSE IF p[at[2]] = Asterisk
            THEN \/ f[<<at[1], at[2] + 1>>]
                 \/ at[1] <= Len(t) /\ f[<<at[1] + 1, at[2]>>]
            ELSE /\ at[1] <= Len(t) /\ t[at[1]] = p[at[2]]
                 /\ f[<<at[1] + 1, at[2] + 1>>]]

(* It defines a function.                                                   *)
LEMMA FitsExists ==
    ASSUME NEW t \in ByteString, NEW p \in ByteString
    PROVE  \E f : f = FitsStep(t, p, f) /\ (Fits(t, p) <=> f[<<1, 1>>])
<1> DEFINE S == MergePlaces(t, p)
           F == [S -> BOOLEAN]
           step == [f \in F |-> FitsStep(t, p, f)]
           rank == MergeRank(t, p)
           top == Len(t) + Len(p)
<1>1. top \in Nat /\ \A x \in S : rank[x] \in 0 .. top
  <2>1. top \in Nat
    BY LenProperties DEF ByteString
  <2> QED
    BY <2>1, PlacesLeft
<1>2. F # {}
  <2>1. [at \in S |-> TRUE] \in F
    OBVIOUS
  <2> QED
    BY <2>1
<1>3. \A f, g \in F : (\A x \in S : f[x] = g[x]) => f = g
  BY SameFunctions
<1>4. ASSUME NEW f \in F PROVE FitsStep(t, p, f) \in F
  <2>1. ASSUME NEW at \in S PROVE FitsStep(t, p, f)[at] \in BOOLEAN
    <3>1. FitsStep(t, p, f)[at] =
             IF at[2] > Len(p) THEN at[1] > Len(t)
             ELSE IF p[at[2]] = Asterisk
                  THEN \/ f[<<at[1], at[2] + 1>>]
                       \/ at[1] <= Len(t) /\ f[<<at[1] + 1, at[2]>>]
                  ELSE /\ at[1] <= Len(t) /\ t[at[1]] = p[at[2]]
                       /\ f[<<at[1] + 1, at[2] + 1>>]
      BY DEF FitsStep
    <3>2. CASE at[2] > Len(p)
      <4>1. FitsStep(t, p, f)[at] = (at[1] > Len(t))
        BY <3>1, <3>2
      <4>2. (at[1] > Len(t)) \in BOOLEAN
        BY PlacesLeft
      <4> QED
        BY <4>1, <4>2
    <3>3. CASE ~ (at[2] > Len(p))
      <4> DEFINE a == f[<<at[1], at[2] + 1>>] \/ (at[1] <= Len(t) /\ f[<<at[1] + 1, at[2]>>])
                 b == at[1] <= Len(t) /\ t[at[1]] = p[at[2]] /\ f[<<at[1] + 1, at[2] + 1>>]
      <4>1. a \in BOOLEAN /\ b \in BOOLEAN
        BY Zenon
      <4>2. FitsStep(t, p, f)[at] = IF p[at[2]] = Asterisk THEN a ELSE b
        BY <3>1, <3>3, Zenon
      <4> QED
        BY <4>1, <4>2, Zenon
    <3> QED
      BY <3>2, <3>3
  <2> QED
    BY <2>1 DEF FitsStep
<1>5. ASSUME NEW f \in F, NEW g \in F, NEW at \in S, \A y \in S : rank[y] < rank[at] => f[y] = g[y]
      PROVE  FitsStep(t, p, f)[at] = FitsStep(t, p, g)[at]
  <2>1. /\ at[1] \in 1 .. Len(t) + 1 /\ at[2] \in 1 .. Len(p) + 1
        /\ Len(t) \in Nat /\ Len(p) \in Nat
    BY PlacesLeft
  <2>2. CASE at[2] > Len(p)
    BY <2>2 DEF FitsStep
  <2>3. CASE ~ (at[2] > Len(p)) /\ p[at[2]] = Asterisk
    <3>1. at[2] <= Len(p)
      BY <2>1, <2>3
    <3>2. f[<<at[1], at[2] + 1>>] = g[<<at[1], at[2] + 1>>]
      BY <1>5, <3>1, PlacesLeft
    <3>3. at[1] <= Len(t) => f[<<at[1] + 1, at[2]>>] = g[<<at[1] + 1, at[2]>>]
      BY <1>5, PlacesLeft
    <3>4. /\ FitsStep(t, p, f)[at] =
                (f[<<at[1], at[2] + 1>>] \/ (at[1] <= Len(t) /\ f[<<at[1] + 1, at[2]>>]))
          /\ FitsStep(t, p, g)[at] =
                (g[<<at[1], at[2] + 1>>] \/ (at[1] <= Len(t) /\ g[<<at[1] + 1, at[2]>>]))
      BY <2>3 DEF FitsStep
    <3> QED
      BY <3>2, <3>3, <3>4, Zenon
  <2>4. CASE ~ (at[2] > Len(p)) /\ p[at[2]] # Asterisk
    <3>1. at[2] <= Len(p)
      BY <2>1, <2>4
    <3>2. at[1] <= Len(t) => f[<<at[1] + 1, at[2] + 1>>] = g[<<at[1] + 1, at[2] + 1>>]
      BY <1>5, <3>1, PlacesLeft
    <3>3. /\ FitsStep(t, p, f)[at] =
                (/\ at[1] <= Len(t) /\ t[at[1]] = p[at[2]] /\ f[<<at[1] + 1, at[2] + 1>>])
          /\ FitsStep(t, p, g)[at] =
                (/\ at[1] <= Len(t) /\ t[at[1]] = p[at[2]] /\ g[<<at[1] + 1, at[2] + 1>>])
      BY <2>4 DEF FitsStep
    <3> QED
      BY <3>2, <3>3, Zenon
  <2> QED
    BY <2>2, <2>3, <2>4
<1>6. \A f \in F : step[f] = FitsStep(t, p, f)
  OBVIOUS
<1> HIDE DEF S, F, step, rank, top
<1>7. Recursive(S, F, step, rank, top)
  BY <1>1, <1>2, <1>3, <1>4, <1>5, <1>6 DEF Recursive
<1>8. PICK f \in F : f = step[f]
  BY <1>7, RankRecursion
<1>9. f = FitsStep(t, p, f)
  BY <1>6, <1>8
<1>10. \E g : g = FitsStep(t, p, g)
  BY <1>9
<1> QED
  BY <1>10 DEF Fits, FitsStep, MergePlaces

(* From place k of the pattern on, e tells which part of the text each byte of  *)
(* the pattern stands for.                                                  *)
Path(t, p, e, k) ==
    /\ e \in [1 .. Len(p) + 1 -> 1 .. Len(t) + 1]
    /\ e[Len(p) + 1] = Len(t) + 1
    /\ \A j \in k .. Len(p) :
          IF p[j] = Asterisk THEN e[j] <= e[j + 1]
          ELSE e[j + 1] = e[j] + 1 /\ t[e[j]] = p[j]

(* One byte of the pattern in front of such a path.                           *)
LEMMA PathGrows ==
    ASSUME NEW t \in ByteString, NEW p \in ByteString, NEW i \in 1 .. Len(t) + 1, NEW j \in 1 .. Len(p),
           NEW e, Path(t, p, e, j + 1),
           IF p[j] = Asterisk THEN i <= e[j + 1] ELSE e[j + 1] = i + 1 /\ t[i] = p[j]
    PROVE  \E d : Path(t, p, d, j) /\ d[j] = i
<1> DEFINE d == [e EXCEPT ![j] = i]
<1>1. Len(t) \in Nat /\ Len(p) \in Nat
  BY LenProperties DEF ByteString
<1>2. e \in [1 .. Len(p) + 1 -> 1 .. Len(t) + 1] /\ j \in 1 .. Len(p) + 1 /\ j # Len(p) + 1
  BY <1>1 DEF Path
<1>3. /\ d \in [1 .. Len(p) + 1 -> 1 .. Len(t) + 1] /\ d[j] = i
      /\ \A k \in 1 .. Len(p) + 1 : k # j => d[k] = e[k]
  BY <1>2
<1> HIDE DEF d
<1>4. d[Len(p) + 1] = Len(t) + 1
  BY <1>1, <1>2, <1>3 DEF Path
<1>5. ASSUME NEW k \in j .. Len(p)
      PROVE  IF p[k] = Asterisk THEN d[k] <= d[k + 1] ELSE d[k + 1] = d[k] + 1 /\ t[d[k]] = p[k]
  <2>1. k + 1 \in 1 .. Len(p) + 1 /\ k + 1 # j /\ k \in 1 .. Len(p) + 1
    BY <1>1
  <2>2. d[k + 1] = e[k + 1]
    BY <1>3, <2>1
  <2>3. CASE k = j
    BY <1>3, <2>2, <2>3
  <2>4. CASE k # j
    <3>1. d[k] = e[k] /\ k \in j + 1 .. Len(p)
      BY <1>1, <1>3, <2>1, <2>4
    <3> QED
      BY <2>2, <3>1 DEF Path
  <2> QED
    BY <2>3, <2>4
<1>6. Path(t, p, d, j)
  BY <1>3, <1>4, <1>5 DEF Path
<1> QED
  BY <1>3, <1>6

(* A text that fits a pattern goes along a path.                             *)
LEMMA PathExists ==
    ASSUME NEW t \in ByteString, NEW p \in ByteString, Fits(t, p)
    PROVE  \E e : Path(t, p, e, 1) /\ e[1] = 1
<1> DEFINE S == MergePlaces(t, p)
           rank == MergeRank(t, p)
<1>1. PICK f : f = FitsStep(t, p, f) /\ (Fits(t, p) <=> f[<<1, 1>>])
  BY FitsExists
<1>2. Len(t) \in Nat /\ Len(p) \in Nat
  BY LenProperties DEF ByteString
<1> DEFINE Good == {at \in S : f[at] => \E e : Path(t, p, e, at[2]) /\ e[at[2]] = at[1]}
<1>3. ASSUME NEW at \in S, \A y \in S : rank[y] < rank[at] => y \in Good PROVE at \in Good
  <2> DEFINE i == at[1]
             j == at[2]
  <2>1. i \in 1 .. Len(t) + 1 /\ j \in 1 .. Len(p) + 1
    BY PlacesLeft
  <2> SUFFICES ASSUME f[at] PROVE \E e : Path(t, p, e, j) /\ e[j] = i
    OBVIOUS
  <2>2. IF j > Len(p) THEN i > Len(t)
        ELSE IF p[j] = Asterisk
             THEN f[<<i, j + 1>>] \/ (i <= Len(t) /\ f[<<i + 1, j>>])
             ELSE i <= Len(t) /\ t[i] = p[j] /\ f[<<i + 1, j + 1>>]
    BY <1>1 DEF FitsStep
  <2>3. j <= Len(p) =>
           <<i, j + 1>> \in S /\ (f[<<i, j + 1>>] => \E e : Path(t, p, e, j + 1) /\ e[j + 1] = i)
    <3>1. ASSUME j <= Len(p) PROVE <<i, j + 1>> \in S /\ <<i, j + 1>> \in Good
      BY <1>3, <3>1, PlacesLeft
    <3> QED
      BY <3>1
  <2>4. i <= Len(t) =>
           <<i + 1, j>> \in S /\ (f[<<i + 1, j>>] => \E e : Path(t, p, e, j) /\ e[j] = i + 1)
    <3>1. ASSUME i <= Len(t) PROVE <<i + 1, j>> \in S /\ <<i + 1, j>> \in Good
      BY <1>3, <3>1, PlacesLeft
    <3> QED
      BY <3>1
  <2>5. i <= Len(t) /\ j <= Len(p) =>
           /\ <<i + 1, j + 1>> \in S
           /\ f[<<i + 1, j + 1>>] => \E e : Path(t, p, e, j + 1) /\ e[j + 1] = i + 1
    <3>1. ASSUME i <= Len(t), j <= Len(p) PROVE <<i + 1, j + 1>> \in S /\ <<i + 1, j + 1>> \in Good
      BY <1>3, <3>1, PlacesLeft
    <3> QED
      BY <3>1
  <2> HIDE DEF S, rank, Good, i, j
  <2>6. CASE j > Len(p)
    <3>1. i = Len(t) + 1 /\ j = Len(p) + 1
      BY <1>2, <2>1, <2>2, <2>6
    <3> DEFINE e == [k \in 1 .. Len(p) + 1 |-> Len(t) + 1]
    <3>2. e \in [1 .. Len(p) + 1 -> 1 .. Len(t) + 1] /\ e[Len(p) + 1] = Len(t) + 1
      BY <1>2
    <3>3. j .. Len(p) = {}
      BY <1>2, <3>1
    <3>4. Path(t, p, e, j)
      BY <3>2, <3>3 DEF Path
    <3> QED
      BY <3>1, <3>2, <3>4
  <2>7. CASE j <= Len(p)
    <3>1. j \in 1 .. Len(p) /\ ~ (j > Len(p))
      BY <1>2, <2>1, <2>7
    <3>2. CASE p[j] = Asterisk /\ f[<<i, j + 1>>]
      <4>1. PICK e : Path(t, p, e, j + 1) /\ e[j + 1] = i
        BY <2>3, <2>7, <3>2
      <4> QED
        BY <2>1, <3>1, <3>2, <4>1, PathGrows
    <3>3. CASE p[j] = Asterisk /\ i <= Len(t) /\ f[<<i + 1, j>>]
      <4>1. PICK e : Path(t, p, e, j) /\ e[j] = i + 1
        BY <2>4, <3>3
      <4>2. Path(t, p, e, j + 1) /\ e[j] <= e[j + 1] /\ e[j + 1] \in Int
        <5>1. j \in j .. Len(p) /\ \A k \in j + 1 .. Len(p) : k \in j .. Len(p)
          BY <1>2, <3>1
        <5>2. j + 1 \in 1 .. Len(p) + 1
          BY <1>2, <3>1
        <5>3. e[j + 1] \in 1 .. Len(t) + 1
          BY <4>1, <5>2 DEF Path
        <5> QED
          BY <3>3, <4>1, <5>1, <5>3 DEF Path
      <4>3. i <= e[j + 1]
        BY <2>1, <4>1, <4>2
      <4> QED
        BY <2>1, <3>1, <3>3, <4>2, <4>3, PathGrows
    <3>4. CASE p[j] # Asterisk
      <4>1. PICK e : Path(t, p, e, j + 1) /\ e[j + 1] = i + 1
        BY <2>2, <2>5, <2>7, <3>1, <3>4
      <4> QED
        BY <2>1, <2>2, <3>1, <3>4, <4>1, PathGrows
    <3> QED
      BY <2>2, <3>1, <3>2, <3>3, <3>4
  <2> QED
    BY <1>2, <2>1, <2>6, <2>7
<1>4. rank \in [S -> Nat]
  <2>1. \A at \in S : rank[at] \in Nat
    <3>1. \A at \in S : rank[at] \in 0 .. Len(t) + Len(p)
      BY PlacesLeft
    <3> QED
      BY <1>2, <3>1
  <2> QED
    BY <2>1 DEF MergeRank
<1> HIDE DEF rank, Good
<1>5. S \subseteq Good
  BY <1>3, <1>4, RankInduction
<1>6. <<1, 1>> \in S
  BY <1>2 DEF MergePlaces
<1>7. <<1, 1>>[1] = 1 /\ <<1, 1>>[2] = 1
  OBVIOUS
<1> QED
  BY <1>1, <1>5, <1>6, <1>7 DEF Good

(* A path goes forward.                                                      *)
LEMMA PathClimbs ==
    ASSUME NEW t \in ByteString, NEW p \in ByteString, NEW e, Path(t, p, e, 1),
           NEW j \in 1 .. Len(p) + 1, NEW k \in 1 .. Len(p) + 1, j <= k
    PROVE  e[j] <= e[k]
<1> DEFINE top == Len(p) + 1 - j
           Good == {d \in 0 .. top : e[j] <= e[j + d]}
<1>1. Len(t) \in Nat /\ Len(p) \in Nat /\ top \in Nat
  BY LenProperties DEF ByteString
<1>2. \A i \in 1 .. Len(p) + 1 : e[i] \in Int
  <2>1. \A i \in 1 .. Len(p) + 1 : e[i] \in 1 .. Len(t) + 1
    BY DEF Path
  <2> QED
    BY <2>1
<1>3. 0 \in Good
  BY <1>1, <1>2
<1>4. ASSUME NEW d \in 0 .. top - 1, d \in Good PROVE d + 1 \in Good
  <2>1. /\ d + 1 \in 0 .. top /\ j + d \in 1 .. Len(p) /\ j + d \in 1 .. Len(p) + 1
        /\ (j + d) + 1 = j + (d + 1) /\ j + (d + 1) \in 1 .. Len(p) + 1
    BY <1>1
  <2> DEFINE i == j + d
  <2>2. IF p[i] = Asterisk THEN e[i] <= e[i + 1] ELSE e[i + 1] = e[i] + 1 /\ t[e[i]] = p[i]
    BY <2>1 DEF Path
  <2>3. e[j] \in Int /\ e[i] \in Int /\ e[i + 1] \in Int /\ e[j] <= e[i]
    BY <1>2, <1>4, <2>1
  <2> HIDE DEF i
  <2>4. e[j] <= e[i + 1]
    BY <2>2, <2>3
  <2> QED
    BY <2>1, <2>4 DEF i
<1> HIDE DEF Good
<1>5. 0 .. top \subseteq Good
  BY <1>1, <1>3, <1>4, UpToBound
<1>6. k - j \in 0 .. top /\ j + (k - j) = k
  BY <1>1
<1>7. k - j \in Good
  BY <1>5, <1>6
<1> QED
  BY <1>6, <1>7 DEF Good

(* Where the pattern has no asterisk it stands for itself.                     *)
LEMMA PathRuns ==
    ASSUME NEW t \in ByteString, NEW p \in ByteString, NEW e, Path(t, p, e, 1),
           NEW a \in 1 .. Len(p) + 1, NEW m \in Nat, a + m <= Len(p) + 1,
           \A q \in 0 .. m - 1 : p[a + q] # Asterisk
    PROVE  /\ \A q \in 0 .. m : e[a + q] = e[a] + q
           /\ \A q \in 0 .. m - 1 : t[e[a] + q] = p[a + q]
           /\ e[a] \in 1 .. Len(t) + 1 /\ e[a] + m <= Len(t) + 1
<1> DEFINE Good == {d \in 0 .. m : e[a + d] = e[a] + d}
<1>1. Len(t) \in Nat /\ Len(p) \in Nat
  BY LenProperties DEF ByteString
<1>2. \A i \in 1 .. Len(p) + 1 : e[i] \in 1 .. Len(t) + 1
  BY DEF Path
<1>3. e[a] \in 1 .. Len(t) + 1
  BY <1>2
<1>4. ASSUME NEW q \in 0 .. m - 1
      PROVE  e[a + q + 1] = e[a + q] + 1 /\ t[e[a + q]] = p[a + q]
  <2>1. a + q \in 1 .. Len(p)
    BY <1>1
  <2>2. p[a + q] # Asterisk
    OBVIOUS
  <2> DEFINE i == a + q
  <2> HIDE DEF i
  <2>3. e[i + 1] = e[i] + 1 /\ t[e[i]] = p[i]
    BY <2>1, <2>2 DEF Path, i
  <2> QED
    BY <2>3 DEF i
<1>5. 0 \in Good
  BY <1>3
<1>6. ASSUME NEW d \in 0 .. m - 1, d \in Good PROVE d + 1 \in Good
  <2>1. d + 1 \in 0 .. m /\ a + (d + 1) = a + d + 1
    BY <1>1
  <2>2. e[a + d + 1] = (e[a] + d) + 1
    BY <1>4, <1>6
  <2>3. (e[a] + d) + 1 = e[a] + (d + 1)
    BY <1>3
  <2>4. e[a + (d + 1)] = e[a] + (d + 1)
    BY <2>1, <2>2, <2>3
  <2> QED
    BY <2>1, <2>4
<1> HIDE DEF Good
<1>7. 0 .. m \subseteq Good
  BY <1>5, <1>6, UpToBound
<1>8. \A q \in 0 .. m : e[a + q] = e[a] + q
  BY <1>7 DEF Good
<1>9. \A q \in 0 .. m - 1 : t[e[a] + q] = p[a + q]
  <2> SUFFICES ASSUME NEW q \in 0 .. m - 1 PROVE t[e[a] + q] = p[a + q]
    OBVIOUS
  <2>1. q \in 0 .. m
    OBVIOUS
  <2>2. e[a + q] = e[a] + q
    BY <1>8, <2>1
  <2> QED
    BY <1>4, <2>2
<1>10. e[a] + m <= Len(t) + 1
  <2>1. a + m \in 1 .. Len(p) + 1 /\ m \in 0 .. m
    BY <1>1
  <2>2. e[a + m] \in 1 .. Len(t) + 1 /\ e[a + m] = e[a] + m
    BY <1>2, <1>8, <2>1
  <2> QED
    BY <1>1, <2>2
<1> QED
  BY <1>3, <1>8, <1>9, <1>10

(* The words w of a text from place i on begin at the places s.                *)
Cut(t, i, w, s) ==
    /\ s \in [1 .. Len(w) -> 1 .. Len(t) + 1] /\ s[1] = i
    /\ \A k \in 1 .. Len(w) :
          s[k] + Len(w[k]) = IF k = Len(w) THEN Len(t) + 1 ELSE s[k + 1] - 1
    /\ \A k \in 1 .. Len(w) : \A q \in 1 .. Len(w[k]) :
          w[k][q] = t[s[k] + q - 1] /\ w[k][q] # Asterisk

(* The words of a text are its parts between asterisks: strings.Split.          *)
LEMMA WordsAreCut ==
    ASSUME NEW t \in ByteString
    PROVE  \E s : Cut(t, 1, Words(t), s)
<1> DEFINE n == Len(t)
           S == 1 .. n + 1
           rank == [i \in S |-> n + 1 - i]
<1>1. PICK f : /\ f = WordsStep(t, f) /\ Words(t) = f[1]
               /\ \A i \in 1 .. Len(t) + 1 : f[i] \in WordLists
  BY WordsExist
<1>2. n \in Nat
  BY LenProperties DEF ByteString
<1> DEFINE Good == {i \in S : \E s : Cut(t, i, f[i], s)}
<1>3. ASSUME NEW i \in S, \A y \in S : rank[y] < rank[i] => y \in Good PROVE i \in Good
  <2>1. f[i] = IF i > n THEN << <<>> >>
               ELSE IF t[i] = Asterisk THEN << <<>> >> \o f[i + 1]
               ELSE << <<t[i]>> \o Head(f[i + 1]) >> \o Tail(f[i + 1])
    BY <1>1 DEF WordsStep
  <2>2. CASE i > n
    <3> DEFINE w == << <<>> >>
               s == [k \in 1 .. 1 |-> i]
    <3>1. i = n + 1 /\ f[i] = w /\ Len(w) = 1 /\ w[1] = <<>> /\ Len(<<>>) = 0
      BY <1>2, <2>1, <2>2
    <3>2. s \in [1 .. 1 -> 1 .. n + 1] /\ s[1] = i /\ \A k \in 1 .. 1 : k = 1
      OBVIOUS
    <3> HIDE DEF w, s
    <3>3. Cut(t, i, w, s)
      BY <1>2, <3>1, <3>2 DEF Cut
    <3> QED
      BY <3>1, <3>3
  <2>3. CASE ~ (i > n)
    <3> DEFINE r == f[i + 1]
    <3>1. i + 1 \in S /\ rank[i + 1] < rank[i] /\ i \in 1 .. n
      BY <1>2, <2>3
    <3>2. r \in Seq(ByteString) /\ r # <<>>
      BY <1>1, <3>1 DEF WordLists
    <3>3. PICK s : Cut(t, i + 1, r, s)
      BY <1>3, <3>1
    <3> HIDE DEF r
    <3> DEFINE m == Len(r)
    <3>4. m \in Nat /\ m # 0 /\ \A k \in 1 .. m : r[k] \in ByteString
      BY <3>2, LenProperties, EmptySeq, ElementOfSeq
    <3>5. \A k \in 1 .. m : Len(r[k]) \in Nat
      BY <3>4, LenProperties DEF ByteString
    <3>6. /\ s \in [1 .. m -> 1 .. n + 1] /\ s[1] = i + 1
          /\ \A k \in 1 .. m : s[k] + Len(r[k]) = IF k = m THEN n + 1 ELSE s[k + 1] - 1
          /\ \A k \in 1 .. m : \A q \in 1 .. Len(r[k]) :
                r[k][q] = t[s[k] + q - 1] /\ r[k][q] # Asterisk
      BY <3>3 DEF Cut
    <3> HIDE DEF m, n
    <3>7. CASE t[i] = Asterisk
      <4> DEFINE w == << <<>> >> \o r
                 u == [k \in 1 .. m + 1 |-> IF k = 1 THEN i ELSE s[k - 1]]
      <4>1. f[i] = w
        BY <2>1, <2>3, <3>7 DEF r
      <4>2. /\ Len(w) = m + 1 /\ w[1] = <<>> /\ Len(<<>>) = 0
            /\ \A k \in 2 .. m + 1 : w[k] = r[k - 1]
        BY <3>2, <3>4, ConcatProperties DEF m
      <4>3. /\ u \in [1 .. m + 1 -> 1 .. n + 1] /\ u[1] = i
            /\ \A k \in 2 .. m + 1 : u[k] = s[k - 1] /\ k - 1 \in 1 .. m
        BY <1>2, <3>1, <3>4, <3>6
      <4> HIDE DEF w, u
      <4>4. ASSUME NEW k \in 1 .. m + 1
            PROVE  /\ u[k] + Len(w[k]) = IF k = m + 1 THEN n + 1 ELSE u[k + 1] - 1
                   /\ \A q \in 1 .. Len(w[k]) : w[k][q] = t[u[k] + q - 1] /\ w[k][q] # Asterisk
        <5>1. CASE k = 1
          <6>1. k # m + 1 /\ 2 \in 2 .. m + 1 /\ 1 + 1 = 2 /\ 2 - 1 = 1
            BY <3>4, <5>1
          <6>2. u[1] = i /\ u[2] = i + 1 /\ Len(w[1]) = 0
            BY <3>6, <4>2, <4>3, <6>1
          <6>3. i + 0 = (i + 1) - 1 /\ 1 .. 0 = {}
            BY <3>1
          <6> QED
            BY <5>1, <6>1, <6>2, <6>3
        <5>2. CASE k # 1
          <6>1. k \in 2 .. m + 1 /\ k - 1 \in 1 .. m /\ (k - 1) + 1 = k
            BY <3>4, <5>2
          <6>2. w[k] = r[k - 1] /\ u[k] = s[k - 1]
            BY <4>2, <4>3, <6>1
          <6>3. k # m + 1 => u[k + 1] = s[k]
            <7>1. k # m + 1 => k + 1 \in 2 .. m + 1 /\ (k + 1) - 1 = k
              BY <3>4, <6>1
            <7> QED
              BY <4>3, <7>1
          <6>4. k - 1 = m <=> k = m + 1
            BY <3>4, <6>1
          <6>5. s[k - 1] + Len(r[k - 1]) = IF k - 1 = m THEN n + 1 ELSE s[(k - 1) + 1] - 1
            BY <3>6, <6>1
          <6>6. u[k] + Len(w[k]) = IF k = m + 1 THEN n + 1 ELSE u[k + 1] - 1
            BY <6>1, <6>2, <6>3, <6>4, <6>5
          <6>7. \A q \in 1 .. Len(w[k]) : w[k][q] = t[u[k] + q - 1] /\ w[k][q] # Asterisk
            BY <3>6, <6>1, <6>2
          <6> QED
            BY <6>6, <6>7
        <5> QED
          BY <5>1, <5>2
      <4>5. Cut(t, i, w, u)
        BY <4>2, <4>3, <4>4 DEF Cut, n
      <4> QED
        BY <4>1, <4>5
    <3>8. CASE t[i] # Asterisk
      <4> DEFINE b == <<t[i]>> \o Head(r)
                 w == <<b>> \o Tail(r)
                 u == [s EXCEPT ![1] = i]
      <4>1. f[i] = w
        BY <2>1, <2>3, <3>8 DEF r
      <4>2. /\ Head(r) = r[1] /\ Tail(r) \in Seq(ByteString) /\ Len(Tail(r)) = m - 1
            /\ \A k \in 1 .. m - 1 : Tail(r)[k] = r[k + 1]
        BY <3>2, <3>4, HeadTailProperties DEF m
      <4>3. t[i] \in 0 .. 255
        BY <3>1, ElementOfSeq DEF ByteString, n
      <4>4. /\ b \in ByteString /\ Len(b) = Len(r[1]) + 1 /\ b[1] = t[i]
            /\ \A q \in 2 .. Len(r[1]) + 1 : b[q] = r[1][q - 1]
        <5>1. r[1] \in Seq(0 .. 255) /\ <<t[i]>> \in Seq(0 .. 255) /\ Len(<<t[i]>>) = 1
              /\ <<t[i]>>[1] = t[i]
          BY <3>4, <4>3 DEF ByteString
        <5>2. b = <<t[i]>> \o r[1]
          BY <4>2
        <5>3. /\ b \in Seq(0 .. 255) /\ Len(b) = 1 + Len(r[1])
              /\ \A q \in 1 .. 1 + Len(r[1]) : b[q] = IF q <= 1 THEN <<t[i]>>[q] ELSE r[1][q - 1]
          BY <5>1, <5>2, ConcatProperties
        <5>4. Len(r[1]) \in Nat
          BY <3>4, <3>5
        <5> HIDE DEF b
        <5> QED
          BY <5>1, <5>3, <5>4 DEF ByteString
      <4> HIDE DEF b
      <4>5. /\ Len(w) = m /\ w[1] = b
            /\ \A k \in 2 .. m : w[k] = r[k]
        <5>1. <<b>> \in Seq(ByteString) /\ Len(<<b>>) = 1 /\ <<b>>[1] = b
          BY <4>4
        <5>2. /\ Len(w) = 1 + (m - 1)
              /\ \A k \in 1 .. 1 + (m - 1) : w[k] = IF k <= 1 THEN <<b>>[k] ELSE Tail(r)[k - 1]
          BY <4>2, <5>1, ConcatProperties
        <5>3. \A k \in 2 .. m : k - 1 \in 1 .. m - 1 /\ (k - 1) + 1 = k
          BY <3>4
        <5> HIDE DEF w
        <5>4. \A k \in 2 .. m : Tail(r)[k - 1] = r[k]
          BY <4>2, <5>3
        <5>5. w[1] = b
          <6>1. 1 \in 1 .. 1 + (m - 1) /\ 1 <= 1
            BY <3>4
          <6> QED
            BY <5>1, <5>2, <6>1
        <5>6. ASSUME NEW k \in 2 .. m PROVE w[k] = r[k]
          <6>1. k \in 1 .. 1 + (m - 1) /\ ~ (k <= 1)
            BY <3>4
          <6> QED
            BY <5>2, <5>4, <6>1
        <5>7. 1 + (m - 1) = m
          BY <3>4
        <5> QED
          BY <5>2, <5>5, <5>6, <5>7
      <4>6. /\ u \in [1 .. m -> 1 .. n + 1] /\ u[1] = i
            /\ \A k \in 2 .. m : u[k] = s[k]
        BY <1>2, <3>1, <3>4, <3>6
      <4> HIDE DEF w, u
      <4>7. ASSUME NEW k \in 1 .. m
            PROVE  /\ u[k] + Len(w[k]) = IF k = m THEN n + 1 ELSE u[k + 1] - 1
                   /\ \A q \in 1 .. Len(w[k]) : w[k][q] = t[u[k] + q - 1] /\ w[k][q] # Asterisk
        <5>0. k # m => k + 1 \in 2 .. m /\ u[k + 1] = s[k + 1]
          BY <3>4, <4>6
        <5>1. CASE k = 1
          <6>1. /\ u[k] = i /\ w[k] = b /\ Len(w[k]) = Len(r[1]) + 1 /\ s[1] = i + 1
                /\ Len(r[1]) \in Nat
            BY <3>4, <3>5, <3>6, <4>4, <4>5, <4>6, <5>1
          <6>2. s[1] + Len(r[1]) = IF k = m THEN n + 1 ELSE s[k + 1] - 1
            BY <3>4, <3>6, <5>1
          <6>3. u[k] + Len(w[k]) = s[1] + Len(r[1])
            <7>1. u[k] + Len(w[k]) = i + (Len(r[1]) + 1)
              BY <6>1
            <7>2. i + (Len(r[1]) + 1) = (i + 1) + Len(r[1])
              <8>1. \A x, y \in Int : x + (y + 1) = (x + 1) + y
                OBVIOUS
              <8>2. i \in Int /\ Len(r[1]) \in Int
                BY <1>2, <3>1, <6>1 DEF n
              <8> QED
                BY <8>1, <8>2
            <7> QED
              BY <6>1, <7>1, <7>2
          <6>4. ASSUME NEW q \in 1 .. Len(w[k])
                PROVE  w[k][q] = t[u[k] + q - 1] /\ w[k][q] # Asterisk
            <7>1. CASE q = 1
              <8>1. i + 1 - 1 = i
                BY <3>1
              <8> QED
                BY <3>8, <4>4, <6>1, <7>1, <8>1
            <7>2. CASE q # 1
              <8>1. q \in 2 .. Len(r[1]) + 1 /\ q - 1 \in 1 .. Len(r[1]) /\ 1 \in 1 .. m
                    /\ s[1] + (q - 1) - 1 = i + q - 1
                BY <3>1, <3>4, <6>1, <7>2
              <8>2. b[q] = r[1][q - 1]
                BY <4>4, <8>1
              <8>3. r[1][q - 1] = t[s[1] + (q - 1) - 1] /\ r[1][q - 1] # Asterisk
                BY <3>6, <8>1
              <8> QED
                BY <6>1, <8>1, <8>2, <8>3
            <7> QED
              BY <7>1, <7>2
          <6> QED
            BY <5>0, <6>2, <6>3, <6>4
        <5>2. CASE k # 1
          <6>1. k \in 2 .. m
            BY <3>4, <5>2
          <6>2. w[k] = r[k] /\ u[k] = s[k]
            BY <4>5, <4>6, <6>1
          <6> QED
            BY <3>6, <5>0, <6>2
        <5> QED
          BY <5>1, <5>2
      <4>8. Cut(t, i, w, u)
        BY <4>5, <4>6, <4>7 DEF Cut, n
      <4> QED
        BY <4>1, <4>8
    <3> QED
      BY <3>7, <3>8
  <2> QED
    BY <2>2, <2>3
<1>4. rank \in [S -> Nat]
  BY <1>2
<1>6. 1 \in S
  BY <1>2
<1> HIDE DEF rank, Good, S
<1>5. S \subseteq Good
  BY <1>3, <1>4, RankInduction
<1>7. 1 \in Good
  BY <1>5, <1>6
<1> QED
  BY <1>1, <1>7 DEF Good

(* What find of config/filterList.go finds: the first place, if there is one.   *)
FindsFirst(t, index, word) ==
    LET found == Find(t, index, word)
    IN  /\ found \in Nat
        /\ found = NotFound <=> Places(t, word, index) = {}
        /\ found # NotFound =>
              /\ found - Len(word) \in Places(t, word, index)
              /\ \A i \in Places(t, word, index) : found - Len(word) <= i

(* It does so from any place on.                                             *)
LEMMA FindFinds ==
    ASSUME NEW t, NEW word \in ByteString, NEW index \in Nat \ {0}
    PROVE  FindsFirst(t, index, word)
<1> DEFINE P == Places(t, word, index)
           c == CHOOSE i \in P : \A j \in P : i <= j
           found == Find(t, index, word)
<1>1. Len(word) \in Nat
  BY LenProperties DEF ByteString
<1>2. \A i \in P : i \in Nat /\ i # 0
  <2>1. \A i \in P : i \in index .. Len(t) - Len(word) + 1
    BY DEF Places
  <2> QED
    BY <2>1
<1>3. found = IF P = {} THEN NotFound ELSE Len(word) + c
  BY DEF Find
<1>4. CASE P = {}
  <2>1. found = NotFound /\ found \in Nat
    BY <1>3, <1>4 DEF NotFound
  <2> HIDE DEF found
  <2> QED
    BY <1>4, <2>1 DEF FindsFirst, found
<1>5. CASE P # {}
  <2>1. \E m \in P : \A k \in P : m <= k
    <3>1. P \subseteq Nat
      BY <1>2
    <3> HIDE DEF P
    <3> QED
      BY <1>5, <3>1, LeastNatural
  <2>2. c \in P /\ \A j \in P : c <= j
    BY <2>1
  <2> HIDE DEF c, P
  <2>3. c \in Nat /\ c # 0 /\ found = Len(word) + c
    BY <1>2, <1>3, <1>5, <2>2
  <2>4. found \in Nat /\ found # NotFound /\ found - Len(word) = c
    BY <1>1, <2>3 DEF NotFound
  <2> HIDE DEF found
  <2> QED
    BY <1>5, <2>2, <2>4 DEF FindsFirst, found, P
<1> QED
  BY <1>4, <1>5

(* The recursion of Matches.                                                *)
BehindStep(t, w, b) ==
    [i \in 1 .. Len(w) - 1 |->
       IF i = 1 THEN 1
       ELSE IF b[i - 1] = NotFound THEN NotFound
       ELSE Find(t, b[i - 1], w[i])]

(* It defines a function.                                                   *)
LEMMA BehindExists ==
    ASSUME NEW t \in ByteString, NEW f, f.words \in WordLists
    PROVE  \E b : /\ b = BehindStep(t, f.words, b)
                  /\ \A i \in 1 .. Len(f.words) - 1 : b[i] \in Nat
                  /\ Matches(t, f) <=>
                        /\ StartsWith(t, FirstWord(f.words))
                        /\ EndsWith(t, LastWord(f.words))
                        /\ Len(f.words) > 1 => b[Len(f.words) - 1] # NotFound
<1> DEFINE w == f.words
           n == Len(w)
           S == 1 .. n - 1
           F == [S -> Nat]
           step == [b \in F |-> BehindStep(t, w, b)]
           rank == [i \in S |-> i]
<1>1. n \in Nat /\ \A i \in 1 .. n : w[i] \in ByteString
  BY LenProperties, ElementOfSeq DEF WordLists
<1>2. ASSUME NEW b \in F PROVE BehindStep(t, w, b) \in F
  <2>1. ASSUME NEW i \in S PROVE BehindStep(t, w, b)[i] \in Nat
    <3>1. CASE i = 1
      BY <3>1 DEF BehindStep
    <3>2. CASE i # 1
      <4>1. i - 1 \in S /\ i \in 1 .. n
        BY <1>1, <3>2
      <4>2. b[i - 1] \in Nat /\ w[i] \in ByteString
        BY <1>1, <4>1
      <4>3. CASE b[i - 1] = NotFound
        BY <3>2, <4>3 DEF BehindStep, NotFound
      <4>4. CASE b[i - 1] # NotFound
        <5>1. BehindStep(t, w, b)[i] = Find(t, b[i - 1], w[i])
          BY <3>2, <4>4 DEF BehindStep
        <5>2. b[i - 1] \in Nat \ {0}
          BY <4>2, <4>4 DEF NotFound
        <5>3. Find(t, b[i - 1], w[i]) \in Nat
          BY <4>2, <5>2, FindFinds DEF FindsFirst
        <5> QED
          BY <5>1, <5>3
      <4> QED
        BY <4>3, <4>4
    <3> QED
      BY <3>1, <3>2
  <2> QED
    BY <2>1 DEF BehindStep
<1>3. ASSUME NEW b \in F, NEW c \in F, NEW i \in S, \A y \in S : rank[y] < rank[i] => b[y] = c[y]
      PROVE  BehindStep(t, w, b)[i] = BehindStep(t, w, c)[i]
  <2>1. CASE i = 1
    BY <2>1 DEF BehindStep
  <2>2. CASE i # 1
    <3>1. i - 1 \in S /\ rank[i - 1] < rank[i]
      BY <1>1, <2>2
    <3>2. b[i - 1] = c[i - 1]
      BY <1>3, <3>1
    <3> QED
      BY <2>2, <3>2 DEF BehindStep
  <2> QED
    BY <2>1, <2>2
<1>4. F # {}
  <2>1. [i \in S |-> 0] \in F
    OBVIOUS
  <2> QED
    BY <2>1
<1>5. \A i \in S : rank[i] \in 0 .. n
  BY <1>1
<1>6. \A b, c \in F : (\A x \in S : b[x] = c[x]) => b = c
  BY SameFunctions
<1>7. \A b \in F : step[b] = BehindStep(t, w, b)
  OBVIOUS
<1> HIDE DEF step, F, rank, S, n
<1>16. \A b \in F : step[b] \in F
  BY <1>2, <1>7
<1>17. \A b, c \in F, i \in S :
          (\A y \in S : rank[y] < rank[i] => b[y] = c[y]) => step[b][i] = step[c][i]
  BY <1>3, <1>7
<1>8. Recursive(S, F, step, rank, n)
  BY <1>1, <1>4, <1>5, <1>6, <1>16, <1>17 DEF Recursive
<1>9. PICK h \in F : h = step[h]
  BY <1>8, RankRecursion
<1>10. h = BehindStep(t, w, h)
  BY <1>7, <1>9
<1>11. \E b : b = BehindStep(t, w, b)
  BY <1>10
<1> USE DEF n
<1> DEFINE B == CHOOSE b : b = BehindStep(t, w, b)
<1>12. B = BehindStep(t, w, B)
  BY <1>11
<1>13. Matches(t, f) <=>
          /\ StartsWith(t, FirstWord(w)) /\ EndsWith(t, LastWord(w))
          /\ Len(w) > 1 => B[Len(w) - 1] # NotFound
  BY DEF Matches, BehindStep
<1> HIDE DEF B
<1> DEFINE Good == {k \in 0 .. n - 1 : k = 0 \/ B[k] \in Nat}
<1>14. CASE n = 0
  <2>1. 1 .. n - 1 = {}
    BY <1>14
  <2> QED
    BY <1>12, <1>13, <2>1
<1>15. CASE n # 0
  <2>1. 0 \in Good
    BY <1>1, <1>15
  <2>2. ASSUME NEW d \in 0 .. (n - 1) - 1, d \in Good PROVE d + 1 \in Good
    <3>1. d + 1 \in S /\ d + 1 \in 1 .. n /\ (d + 1) - 1 = d /\ d + 1 \in 0 .. n - 1
      BY <1>1 DEF S
    <3>2. B[d + 1] = IF d + 1 = 1 THEN 1 ELSE IF B[d] = NotFound THEN NotFound
                     ELSE Find(t, B[d], w[d + 1])
      BY <1>12, <3>1 DEF BehindStep
    <3>3. CASE d = 0
      BY <3>1, <3>2, <3>3
    <3>4. CASE d # 0 /\ B[d] = NotFound
      <4>1. B[d + 1] = 0
        BY <3>1, <3>2, <3>4 DEF NotFound
      <4> QED
        BY <3>1, <4>1
    <3>5. CASE d # 0 /\ B[d] # NotFound
      <4>1. B[d] \in Nat \ {0} /\ w[d + 1] \in ByteString
        BY <1>1, <2>2, <3>1, <3>5 DEF NotFound
      <4>2. Find(t, B[d], w[d + 1]) \in Nat
        BY <4>1, FindFinds DEF FindsFirst
      <4>3. B[d + 1] = Find(t, B[d], w[d + 1])
        BY <3>1, <3>2, <3>5
      <4> QED
        BY <3>1, <4>2, <4>3
    <3> QED
      BY <3>3, <3>4, <3>5
  <2> HIDE DEF Good
  <2>3. 0 .. n - 1 \subseteq Good
    <3>1. n - 1 \in Nat
      BY <1>1, <1>15
    <3> QED
      BY <2>1, <2>2, <3>1, UpToBound
  <2>4. \A i \in 1 .. n - 1 : B[i] \in Nat
    <3>1. \A i \in 1 .. n - 1 : i \in 0 .. n - 1 /\ i # 0
      BY <1>1
    <3> QED
      BY <2>3, <3>1 DEF Good
  <2> QED
    BY <1>12, <1>13, <2>4
<1> QED
  BY <1>14, <1>15

(* The words between the first and the last stand in t, one behind the other,   *)
(* at the places at.                                                        *)
Occurs(t, w, at) ==
    /\ \A k \in 2 .. Len(w) - 1 : at[k] \in Places(t, w[k], 1)
    /\ \A k \in 3 .. Len(w) - 1 : at[k - 1] + Len(w[k - 1]) <= at[k]

(* Searching for each word behind the one before finds all of them, if they     *)
(* stand anywhere in that order: matches of config/filterList.go.             *)
LEMMA MatchesMeans ==
    ASSUME NEW t \in ByteString, NEW f, f.words \in WordLists
    PROVE  Matches(t, f) <=> /\ StartsWith(t, FirstWord(f.words))
                             /\ EndsWith(t, LastWord(f.words))
                             /\ \E at : Occurs(t, f.words, at)
<1> DEFINE w == f.words
           n == Len(w)
<1>1. PICK b : /\ b = BehindStep(t, w, b)
               /\ \A i \in 1 .. n - 1 : b[i] \in Nat
               /\ Matches(t, f) <=>
                     /\ StartsWith(t, FirstWord(w)) /\ EndsWith(t, LastWord(w))
                     /\ n > 1 => b[n - 1] # NotFound
  BY BehindExists
<1>2. n \in Nat /\ n # 0 /\ \A i \in 1 .. n : w[i] \in ByteString /\ Len(w[i]) \in Nat
  <2>1. w \in Seq(ByteString) /\ w # <<>>
    BY DEF WordLists
  <2>2. n \in Nat /\ n # 0 /\ \A i \in 1 .. n : w[i] \in ByteString
    BY <2>1, LenProperties, EmptySeq, ElementOfSeq
  <2>3. \A i \in 1 .. n : Len(w[i]) \in Nat
    BY <2>2, LenProperties DEF ByteString
  <2> QED
    BY <2>2, <2>3
<1>3. /\ 1 \in 1 .. n - 1 => b[1] = 1
      /\ \A i \in 2 .. n - 1 : b[i] = IF b[i - 1] = NotFound THEN NotFound ELSE Find(t, b[i - 1], w[i])
  <2>1. \A i \in 2 .. n - 1 : i \in 1 .. n - 1 /\ i # 1
    BY <1>2
  <2> QED
    BY <1>1, <2>1 DEF BehindStep
<1>4. \A i \in 2 .. n - 1 : i - 1 \in 1 .. n - 1 /\ i \in 1 .. n /\ i - 1 \in 1 .. n
  BY <1>2
<1>5. \A i \in 2 .. n - 1 : b[i - 1] # NotFound => FindsFirst(t, b[i - 1], w[i])
  <2>1. ASSUME NEW i \in 2 .. n - 1, b[i - 1] # NotFound PROVE FindsFirst(t, b[i - 1], w[i])
    <3>1. b[i - 1] \in Nat \ {0} /\ w[i] \in ByteString
      BY <1>1, <1>2, <1>4, <2>1 DEF NotFound
    <3> QED
      BY <3>1, FindFinds
  <2> QED
    BY <2>1
<1>0. Len(t) \in Nat
  BY LenProperties DEF ByteString
<1> HIDE DEF w, n
<1>6. \A i \in 1 .. n - 1 : b[i] \in Nat
  BY <1>1
<1>7. ASSUME n > 1 => b[n - 1] # NotFound
      PROVE  \E at : Occurs(t, w, at)
  <2> DEFINE at == [k \in 1 .. n |-> b[k] - Len(w[k])]
             Good == {d \in 0 .. n - 1 : d < n - 1 => b[n - 1 - d] # NotFound}
  <2>1. 0 \in Good
    BY <1>2, <1>7
  <2>2. ASSUME NEW d \in 0 .. (n - 1) - 1, d \in Good PROVE d + 1 \in Good
    <3>1. d + 1 \in 0 .. n - 1 /\ d < n - 1
      BY <1>2
    <3>2. ASSUME d + 1 < n - 1 PROVE b[n - 1 - (d + 1)] # NotFound
      <4> DEFINE i == n - 1 - d
      <4>1. i \in 2 .. n - 1 /\ i - 1 = n - 1 - (d + 1)
        BY <1>2, <3>2
      <4>2. b[i] # NotFound
        BY <2>2, <3>1
      <4> HIDE DEF i
      <4>3. b[i - 1] # NotFound
        BY <1>3, <4>1, <4>2
      <4> QED
        BY <4>1, <4>3
    <3> QED
      BY <3>1, <3>2
  <2> HIDE DEF Good
  <2>3. 0 .. n - 1 \subseteq Good
    <3>1. n - 1 \in Nat
      BY <1>2
    <3> QED
      BY <2>1, <2>2, <3>1, UpToBound
  <2>4. ASSUME NEW i \in 1 .. n - 1 PROVE b[i] # NotFound
    <3>1. n - 1 - i \in 0 .. n - 1 /\ n - 1 - i < n - 1 /\ n - 1 - (n - 1 - i) = i
      BY <1>2
    <3> QED
      BY <2>3, <3>1 DEF Good
  <2>5. ASSUME NEW k \in 2 .. n - 1
        PROVE  /\ at[k] \in Places(t, w[k], b[k - 1]) /\ b[k - 1] \in Nat /\ b[k - 1] # 0
               /\ b[k - 1] <= at[k]
    <3>1. b[k - 1] # NotFound /\ b[k] # NotFound /\ b[k] = Find(t, b[k - 1], w[k])
      <4>1. k \in 1 .. n - 1 /\ k - 1 \in 1 .. n - 1
        BY <1>2
      <4> QED
        BY <1>3, <2>4, <4>1
    <3>2. b[k] - Len(w[k]) \in Places(t, w[k], b[k - 1])
      BY <1>5, <3>1 DEF FindsFirst
    <3>3. at[k] = b[k] - Len(w[k])
      BY <1>4
    <3> HIDE DEF at
    <3>4. b[k - 1] \in Nat
      BY <1>4, <1>6
    <3>5. at[k] \in b[k - 1] .. Len(t) - Len(w[k]) + 1
      BY <3>2, <3>3 DEF Places
    <3> QED
      BY <3>1, <3>2, <3>3, <3>4, <3>5 DEF NotFound
  <2>6. ASSUME NEW k \in 2 .. n - 1 PROVE at[k] \in Places(t, w[k], 1)
    <3> HIDE DEF at
    <3>1. at[k] \in b[k - 1] .. Len(t) - Len(w[k]) + 1 /\ WordAt(t, w[k], at[k])
      BY <2>5 DEF Places
    <3>2. at[k] \in 1 .. Len(t) - Len(w[k]) + 1
      <4>1. Len(w[k]) \in Nat
        BY <1>2, <1>4
      <4> QED
        <5> DEFINE hi == Len(t) - Len(w[k]) + 1
        <5>1. hi \in Int
          BY <1>0, <4>1
        <5> HIDE DEF hi, at
        <5>2. at[k] \in b[k - 1] .. hi
          BY <3>1 DEF hi
        <5>3. at[k] \in 1 .. hi
          BY <2>5, <5>1, <5>2
        <5> QED
          BY <5>3 DEF hi
    <3> QED
      BY <3>1, <3>2 DEF Places
  <2>7. ASSUME NEW k \in 3 .. n - 1 PROVE at[k - 1] + Len(w[k - 1]) <= at[k]
    <3>1. k \in 2 .. n - 1 /\ k - 1 \in 1 .. n
      BY <1>2
    <3>2. at[k - 1] = b[k - 1] - Len(w[k - 1])
      BY <3>1
    <3> HIDE DEF at
    <3>3. b[k - 1] \in Nat /\ Len(w[k - 1]) \in Nat /\ b[k - 1] <= at[k]
      BY <1>2, <2>5, <3>1
    <3> QED
      BY <3>2, <3>3
  <2> HIDE DEF at
  <2> QED
    BY <2>6, <2>7 DEF Occurs, n
<1>8. ASSUME NEW at, Occurs(t, w, at), n > 1 PROVE b[n - 1] # NotFound
  <2> DEFINE Good == {d \in 0 .. n - 2 :
                        /\ b[d + 1] # NotFound
                        /\ d # 0 => b[d + 1] <= at[d + 1] + Len(w[d + 1])}
  <2>1. 0 \in Good
    <3>1. 1 \in 1 .. n - 1 /\ 0 + 1 = 1 /\ 0 \in 0 .. n - 2
      BY <1>2, <1>8
    <3> QED
      BY <1>3, <3>1 DEF NotFound
  <2>2. ASSUME NEW d \in 0 .. (n - 2) - 1, d \in Good PROVE d + 1 \in Good
    <3> DEFINE k == d + 2
    <3>1. /\ k \in 2 .. n - 1 /\ k - 1 = d + 1 /\ (d + 1) + 1 = k /\ d + 1 \in 0 .. n - 2
          /\ k - 1 \in 1 .. n - 1 /\ k \in 1 .. n /\ k - 1 \in 1 .. n
      BY <1>2
    <3>2. b[k - 1] # NotFound /\ (k - 1 # 1 => b[k - 1] <= at[k - 1] + Len(w[k - 1]))
      BY <2>2, <3>1
    <3> HIDE DEF k
    <3>3. b[k] = Find(t, b[k - 1], w[k]) /\ FindsFirst(t, b[k - 1], w[k])
      BY <1>3, <1>5, <3>1, <3>2
    <3>4. at[k] \in 1 .. Len(t) - Len(w[k]) + 1 /\ WordAt(t, w[k], at[k])
      <4>1. at[k] \in Places(t, w[k], 1)
        BY <1>8, <3>1 DEF Occurs, n
      <4> QED
        BY <4>1 DEF Places
    <3>5. b[k - 1] <= at[k]
      <4>1. b[k - 1] \in Nat /\ at[k] \in Int /\ Len(w[k - 1]) \in Nat
        BY <1>2, <1>6, <3>1, <3>4
      <4>2. CASE k - 1 = 1
        BY <1>3, <3>1, <3>4, <4>2
      <4>3. CASE k - 1 # 1
        <5>1. k \in 3 .. n - 1 /\ k - 1 \in 2 .. n - 1
          BY <1>2, <3>1, <4>3
        <5>2. at[k - 1] + Len(w[k - 1]) <= at[k] /\ at[k - 1] \in Places(t, w[k - 1], 1)
          BY <1>8, <5>1 DEF Occurs, n
        <5>3. at[k - 1] \in Int
          <6>1. at[k - 1] \in 1 .. Len(t) - Len(w[k - 1]) + 1
            BY <5>2 DEF Places
          <6> QED
            BY <6>1
        <5> QED
          BY <3>2, <4>1, <4>3, <5>2, <5>3
      <4> QED
        BY <4>2, <4>3
    <3>6. at[k] \in Places(t, w[k], b[k - 1])
      <4>1. at[k] \in b[k - 1] .. Len(t) - Len(w[k]) + 1
        <5>1. b[k - 1] \in Int
          BY <1>6, <3>1
        <5> QED
          <6> DEFINE hi == Len(t) - Len(w[k]) + 1
          <6>1. hi \in Int
            BY <1>0, <1>2, <3>1
          <6> HIDE DEF hi
          <6>2. at[k] \in 1 .. hi
            BY <3>4 DEF hi
          <6>3. at[k] \in b[k - 1] .. hi
            BY <3>5, <5>1, <6>1, <6>2
          <6> QED
            BY <6>3 DEF hi
      <4> QED
        BY <3>4, <4>1 DEF Places
    <3>7. b[k] # NotFound /\ b[k] - Len(w[k]) <= at[k]
      BY <3>3, <3>6 DEF FindsFirst
    <3>8. b[k] \in Nat /\ Len(w[k]) \in Nat /\ at[k] \in Int
      <4>1. k \in 1 .. n - 1
        BY <1>2, <3>1
      <4> QED
        BY <1>2, <1>6, <3>1, <3>4, <4>1
    <3>9. b[k] <= at[k] + Len(w[k])
      BY <3>7, <3>8
    <3> QED
      BY <3>1, <3>7, <3>9
  <2> HIDE DEF Good
  <2>3. n - 2 \in Nat
    BY <1>2, <1>8
  <2>4. 0 .. n - 2 \subseteq Good
    BY <2>1, <2>2, <2>3, UpToBound
  <2>5. n - 2 \in Good /\ (n - 2) + 1 = n - 1
    <3>1. n - 2 \in 0 .. n - 2 /\ (n - 2) + 1 = n - 1
      BY <1>2, <2>3
    <3> QED
      BY <2>4, <3>1
  <2> QED
    BY <2>5 DEF Good
<1> QED
  BY <1>1, <1>7, <1>8 DEF w

(* Words of a filter: no asterisks, and no capitals.                           *)
PlainWord(w) == \A q \in 1 .. Len(w) : w[q] # Asterisk /\ w[q] \notin 65 .. 90
Plain(words) == \A k \in 1 .. Len(words) : PlainWord(words[k])

(* A word that stands in a pattern stands in a text that fits it.               *)
LEMMA WordCarried ==
    ASSUME NEW t \in ByteString, NEW p \in ByteString, NEW e, Path(t, p, e, 1),
           NEW w \in ByteString, PlainWord(w), NEW i \in Places(p, w, 1)
    PROVE  /\ e[i] \in Places(t, w, 1)
           /\ i \in 1 .. Len(p) + 1 /\ i + Len(w) \in 1 .. Len(p) + 1
           /\ e[i] \in Int /\ e[i + Len(w)] = e[i] + Len(w)
<1> DEFINE m == Len(w)
<1>1. Len(t) \in Nat /\ Len(p) \in Nat /\ m \in Nat /\ DOMAIN w = 1 .. m
  BY LenProperties DEF ByteString
<1>2. i \in 1 .. Len(p) - m + 1 /\ \A j \in 1 .. m : CmpChar(p[i + j - 1], w[j])
  BY <1>1 DEF Places, WordAt
<1> HIDE DEF m
<1>3. i \in 1 .. Len(p) + 1 /\ i + m \in 1 .. Len(p) + 1 /\ i + m <= Len(p) + 1
  BY <1>1, <1>2
<1>4. ASSUME NEW q \in 0 .. m - 1 PROVE p[i + q] # Asterisk
  <2>1. q + 1 \in 1 .. m /\ i + (q + 1) - 1 = i + q
    BY <1>1, <1>3
  <2>2. CmpChar(p[i + q], w[q + 1]) /\ w[q + 1] # Asterisk
    BY <1>2, <2>1 DEF PlainWord, m
  <2> QED
    BY <2>2 DEF CmpChar, CharAsterisk, DigitAsterisk, Asterisk
<1>5. /\ \A q \in 0 .. m : e[i + q] = e[i] + q
      /\ \A q \in 0 .. m - 1 : t[e[i] + q] = p[i + q]
      /\ e[i] \in 1 .. Len(t) + 1 /\ e[i] + m <= Len(t) + 1
  BY <1>1, <1>3, <1>4, PathRuns
<1>6. ASSUME NEW j \in 1 .. m PROVE CmpChar(t[e[i] + j - 1], w[j])
  <2>1. j - 1 \in 0 .. m - 1 /\ i + (j - 1) = i + j - 1 /\ e[i] + (j - 1) = e[i] + j - 1
    BY <1>1, <1>3, <1>5
  <2>2. t[e[i] + j - 1] = p[i + j - 1]
    BY <1>5, <2>1
  <2> QED
    BY <1>2, <2>2
<1>7. e[i] \in 1 .. Len(t) - m + 1
  BY <1>1, <1>5
<1>8. e[i + m] = e[i] + m
  BY <1>1, <1>5
<1>9. e[i] \in Places(t, w, 1)
  BY <1>1, <1>6, <1>7 DEF Places, WordAt, m
<1> QED
  BY <1>3, <1>5, <1>8, <1>9 DEF m

(* So do words in order.                                                    *)
LEMMA OccursCarried ==
    ASSUME NEW t \in ByteString, NEW p \in ByteString, NEW e, Path(t, p, e, 1),
           NEW w \in WordLists, Plain(w), NEW at, Occurs(p, w, at)
    PROVE  \E u : Occurs(t, w, u)
<1> DEFINE n == Len(w)
           u == [k \in 1 .. n |-> e[at[k]]]
<1>1. n \in Nat /\ \A k \in 1 .. n : w[k] \in ByteString /\ PlainWord(w[k])
  <2>1. n \in Nat /\ \A k \in 1 .. n : w[k] \in ByteString
    BY LenProperties, ElementOfSeq DEF WordLists
  <2> QED
    BY <2>1 DEF Plain
<1> HIDE DEF n
<1>2. ASSUME NEW k \in 2 .. n - 1
      PROVE  /\ u[k] = e[at[k]] /\ u[k] \in Places(t, w[k], 1) /\ u[k] \in Int
             /\ at[k] \in 1 .. Len(p) + 1 /\ at[k] + Len(w[k]) \in 1 .. Len(p) + 1
             /\ e[at[k] + Len(w[k])] = u[k] + Len(w[k])
  <2>1. k \in 1 .. n
    BY <1>1
  <2>2. at[k] \in Places(p, w[k], 1) /\ w[k] \in ByteString /\ PlainWord(w[k]) /\ u[k] = e[at[k]]
    BY <1>1, <2>1 DEF Occurs, n
  <2> HIDE DEF u
  <2> QED
    BY <2>2, WordCarried
<1>3. ASSUME NEW k \in 3 .. n - 1 PROVE u[k - 1] + Len(w[k - 1]) <= u[k]
  <2>1. k \in 2 .. n - 1 /\ k - 1 \in 2 .. n - 1
    BY <1>1
  <2>2. at[k - 1] + Len(w[k - 1]) <= at[k]
    BY DEF Occurs, n
  <2>3. /\ at[k] \in 1 .. Len(p) + 1 /\ u[k] = e[at[k]]
        /\ at[k - 1] + Len(w[k - 1]) \in 1 .. Len(p) + 1
        /\ e[at[k - 1] + Len(w[k - 1])] = u[k - 1] + Len(w[k - 1])
    BY <1>2, <2>1
  <2> HIDE DEF u
  <2>4. e[at[k - 1] + Len(w[k - 1])] <= e[at[k]]
    BY <2>2, <2>3, PathClimbs
  <2> QED
    BY <2>3, <2>4
<1> HIDE DEF u
<1>4. Occurs(t, w, u)
  BY <1>2, <1>3 DEF Occurs, n
<1> QED
  BY <1>4

(* What a pattern starts with starts the text.                                 *)
LEMMA StartCarried ==
    ASSUME NEW t \in ByteString, NEW p \in ByteString, NEW e, Path(t, p, e, 1), e[1] = 1,
           NEW w \in ByteString, PlainWord(w), StartsWith(p, w)
    PROVE  StartsWith(t, w)
<1> DEFINE m == Len(w)
<1>1. Len(t) \in Nat /\ Len(p) \in Nat /\ m \in Nat /\ DOMAIN w = 1 .. m
  BY LenProperties DEF ByteString
<1>2. m <= Len(p) /\ \A q \in 1 .. m : p[q] = w[q] /\ w[q] # Asterisk
  BY <1>1 DEF StartsWith, PlainWord
<1> HIDE DEF m
<1>3. 1 \in 1 .. Len(p) + 1 /\ 1 + m <= Len(p) + 1
  BY <1>1, <1>2
<1>4. ASSUME NEW q \in 0 .. m - 1 PROVE p[1 + q] # Asterisk
  <2>1. 1 + q \in 1 .. m
    BY <1>1
  <2> QED
    BY <1>2, <2>1
<1>5. /\ \A q \in 0 .. m - 1 : t[e[1] + q] = p[1 + q]
      /\ e[1] + m <= Len(t) + 1
  <2> DEFINE a == 1
  <2>1. a \in 1 .. Len(p) + 1 /\ a + m <= Len(p) + 1 /\ \A q \in 0 .. m - 1 : p[a + q] # Asterisk
    BY <1>3, <1>4
  <2> HIDE DEF a
  <2>2. /\ \A q \in 0 .. m : e[a + q] = e[a] + q
        /\ \A q \in 0 .. m - 1 : t[e[a] + q] = p[a + q]
        /\ e[a] \in 1 .. Len(t) + 1 /\ e[a] + m <= Len(t) + 1
    BY <1>1, <2>1, PathRuns
  <2> QED
    BY <2>2 DEF a
<1>6. m <= Len(t)
  BY <1>1, <1>5
<1>7. ASSUME NEW q \in 1 .. m PROVE t[q] = w[q]
  <2>1. q - 1 \in 0 .. m - 1 /\ 1 + (q - 1) = q
    BY <1>1
  <2>2. t[q] = p[q]
    BY <1>5, <2>1
  <2> QED
    BY <1>2, <2>2
<1> QED
  BY <1>1, <1>6, <1>7 DEF StartsWith, m

(* And what it ends with ends it, as far as there is no asterisk.               *)
LEMMA EndCarried ==
    ASSUME NEW t \in ByteString, NEW p \in ByteString, NEW e, Path(t, p, e, 1),
           NEW w \in ByteString, EndsWith(p, w), Len(w) <= Len(LastWord(Words(p)))
    PROVE  EndsWith(t, w)
<1> DEFINE m == Len(w)
           last == LastWord(Words(p))
           a == Len(p) + 1 - m
<1>1. Len(t) \in Nat /\ Len(p) \in Nat /\ m \in Nat
  BY LenProperties DEF ByteString
<1>2. PICK s : Cut(p, 1, Words(p), s)
  BY WordsAreCut
<1> DEFINE b == s[Len(Words(p))]
<1>3. /\ b \in 1 .. Len(p) + 1 /\ b + Len(last) = Len(p) + 1
      /\ \A q \in 1 .. Len(last) : last[q] = p[b + q - 1] /\ last[q] # Asterisk
  <2> DEFINE n == Len(Words(p))
  <2>1. n \in Nat /\ n # 0
    BY WordsTyped, LenProperties, EmptySeq DEF WordLists
  <2>2. n \in 1 .. n
    BY <2>1
  <2> QED
    BY <1>2, <2>2 DEF Cut, LastWord
<1>4. Len(last) \in Nat /\ m <= Len(last)
  <2>1. Words(p) \in Seq(ByteString) /\ Words(p) # <<>>
    BY WordsTyped DEF WordLists
  <2>2. Len(Words(p)) \in 1 .. Len(Words(p))
    BY <2>1, LenProperties, EmptySeq
  <2>3. last \in ByteString
    BY <2>1, <2>2, ElementOfSeq DEF LastWord
  <2> QED
    BY <2>3, LenProperties DEF ByteString
<1> HIDE DEF m, last, b, a
<1>5. a \in 1 .. Len(p) + 1 /\ a + m = Len(p) + 1 /\ b <= a
  BY <1>1, <1>3, <1>4 DEF a
<1>6. ASSUME NEW q \in 0 .. m - 1 PROVE p[a + q] # Asterisk
  <2>1. a + q - b + 1 \in 1 .. Len(last) /\ b + (a + q - b + 1) - 1 = a + q
    BY <1>1, <1>3, <1>4, <1>5
  <2> QED
    BY <1>3, <2>1
<1>7. /\ \A q \in 0 .. m : e[a + q] = e[a] + q
      /\ \A q \in 0 .. m - 1 : t[e[a] + q] = p[a + q]
      /\ e[a] \in 1 .. Len(t) + 1 /\ e[a] + m <= Len(t) + 1
  <2>1. a + m <= Len(p) + 1
    BY <1>1, <1>5
  <2> QED
    BY <1>1, <1>5, <1>6, <2>1, PathRuns
<1>8. e[a] = Len(t) + 1 - m
  <2>1. e[a + m] = e[a] + m /\ e[a + m] = Len(t) + 1
    <3>1. m \in 0 .. m
      BY <1>1
    <3> QED
      BY <1>5, <1>7, <3>1 DEF Path
  <2>2. e[a] \in Int
    BY <1>7
  <2> QED
    BY <1>1, <2>1, <2>2
<1>9. Len(t) - m >= 0
  BY <1>1, <1>7, <1>8
<1>10. ASSUME NEW i \in 2 .. m PROVE t[Len(t) - m + i] = w[i]
  <2>1. /\ i - 1 \in 0 .. m - 1 /\ e[a] + (i - 1) = Len(t) - m + i
        /\ a + (i - 1) = Len(p) - m + i
    BY <1>1, <1>5, <1>8 DEF a
  <2>2. t[Len(t) - m + i] = p[Len(p) - m + i]
    BY <1>7, <2>1
  <2>3. p[Len(p) - m + i] = w[i]
    BY DEF EndsWith, m
  <2> QED
    BY <2>2, <2>3
<1> QED
  BY <1>9, <1>10 DEF EndsWith, m

(* A filter that matches a pattern, taken as a text, matches every text that    *)
(* fits the pattern, if its suffix is no longer than that of the pattern.      *)
LEMMA MatchCarried ==
    ASSUME NEW t \in ByteString, NEW p \in ByteString, Fits(t, p),
           NEW f, f.words \in WordLists, Plain(f.words), Matches(p, f),
           Len(LastWord(f.words)) <= Len(LastWord(Words(p)))
    PROVE  Matches(t, f)
<1> DEFINE w == f.words
           n == Len(w)
<1>1. PICK e : Path(t, p, e, 1) /\ e[1] = 1
  BY PathExists
<1>2. StartsWith(p, FirstWord(w)) /\ EndsWith(p, LastWord(w)) /\ \E at : Occurs(p, w, at)
  BY MatchesMeans
<1>3. n \in Nat /\ n # 0 /\ \A k \in 1 .. n : w[k] \in ByteString /\ PlainWord(w[k])
  <2>1. w \in Seq(ByteString) /\ w # <<>>
    BY DEF WordLists
  <2>2. n \in Nat /\ n # 0 /\ \A k \in 1 .. n : w[k] \in ByteString
    BY <2>1, LenProperties, EmptySeq, ElementOfSeq
  <2> QED
    BY <2>2 DEF Plain
<1>4. /\ FirstWord(w) \in ByteString /\ PlainWord(FirstWord(w))
      /\ LastWord(w) \in ByteString
  <2>1. 1 \in 1 .. n /\ n \in 1 .. n
    BY <1>3
  <2> QED
    BY <1>3, <2>1 DEF FirstWord, LastWord
<1>5. StartsWith(t, FirstWord(w))
  BY <1>1, <1>2, <1>4, StartCarried
<1>6. EndsWith(t, LastWord(w))
  BY <1>1, <1>2, <1>4, EndCarried
<1>7. \E u : Occurs(t, w, u)
  BY <1>1, <1>2, OccursCarried
<1> QED
  BY <1>5, <1>6, <1>7, MatchesMeans

(* A filter matches its own pattern.                                         *)
LEMMA OwnPattern ==
    ASSUME NEW p \in ByteString, NEW f, f.words = Words(p)
    PROVE  Matches(p, f)
<1> DEFINE w == f.words
           n == Len(w)
<1>1. PICK s : Cut(p, 1, w, s)
  BY WordsAreCut
<1>2. w \in WordLists
  BY WordsTyped
<1>3. /\ n \in Nat /\ n # 0 /\ Len(p) \in Nat /\ \A k \in 1 .. n : w[k] \in ByteString
      /\ \A k \in 1 .. n : Len(w[k]) \in Nat /\ DOMAIN w[k] = 1 .. Len(w[k])
  <2>1. n \in Nat /\ n # 0 /\ \A k \in 1 .. n : w[k] \in ByteString
    BY <1>2, LenProperties, EmptySeq, ElementOfSeq DEF WordLists
  <2>2. \A k \in 1 .. n : Len(w[k]) \in Nat /\ DOMAIN w[k] = 1 .. Len(w[k])
    BY <2>1, LenProperties DEF ByteString
  <2> QED
    BY <2>1, <2>2, LenProperties DEF ByteString
<1>4. /\ s \in [1 .. n -> 1 .. Len(p) + 1] /\ s[1] = 1
      /\ \A k \in 1 .. n : s[k] + Len(w[k]) = IF k = n THEN Len(p) + 1 ELSE s[k + 1] - 1
      /\ \A k \in 1 .. n : \A q \in 1 .. Len(w[k]) : w[k][q] = p[s[k] + q - 1]
  BY <1>1 DEF Cut
<1> HIDE DEF w, n
<1>5. ASSUME NEW k \in 1 .. n PROVE s[k] \in 1 .. Len(p) + 1 /\ s[k] + Len(w[k]) <= Len(p) + 1
  <2>1. s[k] \in 1 .. Len(p) + 1
    BY <1>4
  <2>2. CASE k = n
    BY <1>3, <1>4, <2>1, <2>2
  <2>3. CASE k # n
    <3>1. k + 1 \in 1 .. n
      BY <1>3, <2>3
    <3>2. s[k + 1] \in 1 .. Len(p) + 1 /\ s[k] + Len(w[k]) = s[k + 1] - 1
      BY <1>4, <2>3, <3>1
    <3> QED
      BY <1>3, <2>1, <3>2
  <2> QED
    BY <2>2, <2>3
<1>6. StartsWith(p, FirstWord(w))
  <2>1. 1 \in 1 .. n
    BY <1>3
  <2> DEFINE m == Len(w[1])
  <2>2. m \in Nat /\ DOMAIN w[1] = 1 .. m /\ 1 + m <= Len(p) + 1
    BY <1>3, <1>4, <1>5, <2>1
  <2>3. m <= Len(p)
    BY <1>3, <2>2
  <2>4. \A q \in 1 .. m : p[q] = w[1][q]
    <3>1. \A q \in 1 .. m : 1 + q - 1 = q
      BY <2>2
    <3> QED
      BY <1>4, <2>1, <3>1
  <2> QED
    BY <2>2, <2>3, <2>4 DEF StartsWith, FirstWord
<1>7. EndsWith(p, LastWord(w))
  <2>1. n \in 1 .. n
    BY <1>3
  <2> DEFINE m == Len(w[n])
  <2>2. m \in Nat /\ s[n] \in 1 .. Len(p) + 1 /\ s[n] + m = Len(p) + 1
    BY <1>3, <1>4, <2>1
  <2>3. Len(p) - m >= 0
    BY <1>3, <2>2
  <2>4. ASSUME NEW q \in 2 .. m PROVE p[Len(p) - m + q] = w[n][q]
    <3> DEFINE b == s[n]
    <3>1. b \in Int /\ b + m = Len(p) + 1
      BY <2>2
    <3> HIDE DEF b, m
    <3>2. q \in 1 .. m /\ b + q - 1 = Len(p) - m + q
      BY <1>3, <2>2, <3>1
    <3> QED
      BY <1>4, <2>1, <3>2 DEF b, m
  <2> QED
    BY <2>3, <2>4 DEF EndsWith, LastWord, n
<1>8. Occurs(p, w, s)
  <2>1. ASSUME NEW k \in 2 .. n - 1 PROVE s[k] \in Places(p, w[k], 1)
    <3>1. k \in 1 .. n
      BY <1>3
    <3> DEFINE m == Len(w[k])
    <3>2. m \in Nat /\ s[k] \in 1 .. Len(p) + 1 /\ s[k] + m <= Len(p) + 1 /\ DOMAIN w[k] = 1 .. m
      BY <1>3, <1>5, <3>1
    <3>3. s[k] \in 1 .. Len(p) - m + 1
      <4> DEFINE b == s[k]
                 l == Len(p)
      <4>1. b \in 1 .. l + 1 /\ b + m <= l + 1 /\ l \in Nat /\ m \in Nat
        BY <1>3, <3>2
      <4> HIDE DEF b, l, m
      <4>2. b \in 1 .. l - m + 1
        BY <4>1
      <4> QED
        BY <4>2 DEF b, l
    <3>4. \A q \in 1 .. m : CmpChar(p[s[k] + q - 1], w[k][q])
      BY <1>4, <3>1 DEF CmpChar
    <3> QED
      BY <3>2, <3>3, <3>4 DEF Places, WordAt
  <2>2. ASSUME NEW k \in 3 .. n - 1 PROVE s[k - 1] + Len(w[k - 1]) <= s[k]
    <3>1. k - 1 \in 1 .. n /\ k \in 1 .. n /\ k - 1 # n /\ (k - 1) + 1 = k
      BY <1>3
    <3>2. s[k - 1] + Len(w[k - 1]) = s[k] - 1 /\ s[k] \in Int
      BY <1>4, <3>1
    <3> QED
      BY <3>2
  <2> QED
    BY <2>1, <2>2 DEF Occurs, n
<1> QED
  BY <1>2, <1>6, <1>7, <1>8, MatchesMeans DEF w

(* The words of a filter are plain.                                          *)
LEMMA WordsArePlain == ASSUME NEW p \in ByteString PROVE Plain(Words(LowerText(p)))
<1> DEFINE t == LowerText(p)
           w == Words(t)
<1>1. t \in ByteString
  BY LowerTextTyped
<1>2. Len(p) \in Nat /\ DOMAIN p = 1 .. Len(p) /\ \A i \in 1 .. Len(p) : p[i] \in 0 .. 255
  BY LenProperties, ElementOfSeq DEF ByteString
<1>3. \A i \in 1 .. Len(p) : t[i] = LowerByte(p[i]) /\ t[i] \notin 65 .. 90
  <2>1. \A c \in 0 .. 255 : LowerByte(c) \notin 65 .. 90
    BY DEF LowerByte
  <2>2. \A i \in 1 .. Len(p) : t[i] = LowerByte(p[i])
    BY <1>2 DEF LowerText
  <2> QED
    BY <1>2, <2>1, <2>2
<1>4. Len(t) = Len(p)
  <2>1. DOMAIN t = 1 .. Len(p)
    BY <1>2 DEF LowerText
  <2>2. DOMAIN t = 1 .. Len(t) /\ Len(t) \in Nat
    BY <1>1, LenProperties DEF ByteString
  <2> QED
    BY <1>2, <2>1, <2>2
<1> HIDE DEF t
<1>5. PICK s : Cut(t, 1, w, s)
  BY <1>1, WordsAreCut
<1>6. w \in WordLists
  BY <1>1, WordsTyped
<1> HIDE DEF w
<1>7. Len(w) \in Nat /\ \A k \in 1 .. Len(w) : Len(w[k]) \in Nat
  <2>1. Len(w) \in Nat /\ \A k \in 1 .. Len(w) : w[k] \in ByteString
    BY <1>6, LenProperties, ElementOfSeq DEF WordLists
  <2> QED
    BY <2>1, LenProperties DEF ByteString
<1>8. ASSUME NEW k \in 1 .. Len(w), NEW q \in 1 .. Len(w[k])
      PROVE  w[k][q] # Asterisk /\ w[k][q] \notin 65 .. 90
  <2>1. /\ s[k] \in 1 .. Len(t) + 1 /\ w[k][q] = t[s[k] + q - 1] /\ w[k][q] # Asterisk
        /\ s[k] + Len(w[k]) = IF k = Len(w) THEN Len(t) + 1 ELSE s[k + 1] - 1
    BY <1>5 DEF Cut
  <2>2. k # Len(w) => s[k + 1] \in 1 .. Len(t) + 1
    <3>1. k # Len(w) => k + 1 \in 1 .. Len(w)
      BY <1>7
    <3> QED
      BY <1>5, <3>1 DEF Cut
  <2>3. s[k] + Len(w[k]) <= Len(t) + 1
    BY <1>2, <1>4, <1>7, <2>1, <2>2
  <2>4. s[k] + q - 1 \in 1 .. Len(p)
    BY <1>2, <1>4, <1>7, <2>1, <2>3
  <2> QED
    BY <1>3, <2>1, <2>4
<1> QED
  BY <1>8 DEF Plain, PlainWord, w, t

(* A filter that matches a text matches it in lower case.                       *)
LEMMA MatchesLower ==
    ASSUME NEW t \in ByteString, NEW f, f.words \in WordLists, Plain(f.words), Matches(t, f)
    PROVE  Matches(LowerText(t), f)
<1> DEFINE w == f.words
           n == Len(w)
           l == LowerText(t)
<1>1. StartsWith(t, FirstWord(w)) /\ EndsWith(t, LastWord(w)) /\ \E at : Occurs(t, w, at)
  BY MatchesMeans
<1>2. l \in ByteString
  BY LowerTextTyped
<1>3. /\ Len(t) \in Nat /\ DOMAIN t = 1 .. Len(t) /\ Len(l) = Len(t)
      /\ \A i \in 1 .. Len(t) : l[i] = LowerByte(t[i]) /\ t[i] \in 0 .. 255
  <2>1. Len(t) \in Nat /\ DOMAIN t = 1 .. Len(t) /\ \A i \in 1 .. Len(t) : t[i] \in 0 .. 255
    BY LenProperties, ElementOfSeq DEF ByteString
  <2>2. DOMAIN l = 1 .. Len(l) /\ Len(l) \in Nat
    BY <1>2, LenProperties DEF ByteString
  <2>3. DOMAIN l = 1 .. Len(t) /\ \A i \in 1 .. Len(t) : l[i] = LowerByte(t[i])
    BY <2>1 DEF LowerText
  <2>4. Len(l) = Len(t)
    <3> DEFINE a == Len(l)
               b == Len(t)
    <3>1. a \in Nat /\ b \in Nat /\ 1 .. a = 1 .. b
      BY <2>1, <2>2, <2>3
    <3> HIDE DEF a, b
    <3>2. a = b
      <4>1. a > 0 => a \in 1 .. b
        BY <3>1
      <4>2. b > 0 => b \in 1 .. a
        BY <3>1
      <4> QED
        BY <3>1, <4>1, <4>2
    <3> QED
      BY <3>2 DEF a, b
  <2> HIDE DEF l
  <2> QED
    BY <2>1, <2>3, <2>4
<1>4. /\ n \in Nat /\ n # 0
      /\ \A k \in 1 .. n : /\ PlainWord(w[k]) /\ Len(w[k]) \in Nat
                           /\ DOMAIN w[k] = 1 .. Len(w[k])
  <2>1. w \in Seq(ByteString) /\ w # <<>>
    BY DEF WordLists
  <2>2. n \in Nat /\ n # 0 /\ \A k \in 1 .. n : w[k] \in ByteString
    BY <2>1, LenProperties, EmptySeq, ElementOfSeq
  <2>3. \A k \in 1 .. n : Len(w[k]) \in Nat /\ DOMAIN w[k] = 1 .. Len(w[k])
    BY <2>2, LenProperties DEF ByteString
  <2> QED
    BY <2>2, <2>3 DEF Plain
<1>5. f.words \in WordLists /\ l = LowerText(t)
  OBVIOUS
<1> HIDE DEF w, n, l
<1>6. ASSUME NEW c \in 0 .. 255, NEW b, b \notin 65 .. 90
      PROVE  /\ c = b => LowerByte(c) = b
             /\ CmpChar(c, b) => CmpChar(LowerByte(c), b)
  BY <1>6 DEF LowerByte, CmpChar, CharAsterisk, DigitAsterisk
<1>7. StartsWith(l, FirstWord(w))
  <2>1. 1 \in 1 .. n
    BY <1>4
  <2> DEFINE m == Len(w[1])
  <2>2. m \in Nat /\ DOMAIN w[1] = 1 .. m /\ PlainWord(w[1])
    BY <1>4, <2>1
  <2>3. m <= Len(t) /\ \A q \in 1 .. m : t[q] = w[1][q]
    BY <1>1, <2>2 DEF StartsWith, FirstWord
  <2>4. ASSUME NEW q \in 1 .. m PROVE l[q] = w[1][q]
    <3>1. q \in 1 .. Len(t) /\ w[1][q] \notin 65 .. 90
      BY <1>3, <2>2, <2>3 DEF PlainWord
    <3>4. t[q] = w[1][q]
      BY <2>3
    <3>5. l[q] = LowerByte(t[q]) /\ t[q] \in 0 .. 255
      BY <1>3, <3>1
    <3>2. l[q] = LowerByte(t[q]) /\ t[q] \in 0 .. 255 /\ t[q] = w[1][q]
      BY <3>4, <3>5
    <3>3. LowerByte(t[q]) = w[1][q]
      BY <1>6, <3>1, <3>2
    <3> QED
      BY <3>2, <3>3
  <2> QED
    BY <1>3, <2>2, <2>3, <2>4 DEF StartsWith, FirstWord
<1>8. EndsWith(l, LastWord(w))
  <2>1. n \in 1 .. n
    BY <1>4
  <2> DEFINE m == Len(w[n])
  <2>2. m \in Nat /\ PlainWord(w[n])
    BY <1>4, <2>1
  <2>3. Len(t) - m >= 0 /\ \A q \in 2 .. m : t[Len(t) - m + q] = w[n][q]
    BY <1>1 DEF EndsWith, LastWord, n
  <2>4. ASSUME NEW q \in 2 .. m PROVE l[Len(l) - m + q] = w[n][q]
    <3>1. Len(t) - m + q \in 1 .. Len(t) /\ q \in 1 .. m
      BY <1>3, <2>2, <2>3
    <3>2. w[n][q] \notin 65 .. 90
      BY <2>2, <3>1 DEF PlainWord
    <3> DEFINE i == Len(t) - m + q
    <3>3. l[i] = LowerByte(t[i]) /\ t[i] \in 0 .. 255 /\ t[i] = w[n][q]
      BY <1>3, <2>3, <3>1
    <3>4. LowerByte(t[i]) = w[n][q]
      BY <1>6, <3>2, <3>3
    <3>5. Len(l) - m + q = i
      BY <1>3
    <3> HIDE DEF i
    <3> QED
      BY <3>3, <3>4, <3>5
  <2> QED
    BY <1>3, <2>3, <2>4 DEF EndsWith, LastWord, n
<1>9. PICK at : Occurs(t, w, at)
  BY <1>1
<1>10. Occurs(l, w, at)
  <2>1. ASSUME NEW k \in 2 .. n - 1 PROVE at[k] \in Places(l, w[k], 1)
    <3>1. k \in 1 .. n
      BY <1>4
    <3> DEFINE m == Len(w[k])
    <3>2. m \in Nat /\ DOMAIN w[k] = 1 .. m /\ PlainWord(w[k])
      BY <1>4, <3>1
    <3>3. at[k] \in Places(t, w[k], 1)
      BY <1>9 DEF Occurs, n
    <3>4. at[k] \in 1 .. Len(t) - m + 1 /\ \A q \in 1 .. m : CmpChar(t[at[k] + q - 1], w[k][q])
      BY <3>2, <3>3 DEF Places, WordAt
    <3>5. ASSUME NEW q \in 1 .. m PROVE CmpChar(l[at[k] + q - 1], w[k][q])
      <4> DEFINE i == at[k] + q - 1
      <4>1. i \in 1 .. Len(t)
        <5> DEFINE a == at[k]
                   z == Len(t)
        <5>1. a \in 1 .. z - m + 1 /\ z \in Nat /\ m \in Nat
          BY <1>3, <3>2, <3>4
        <5> HIDE DEF a, z, m
        <5>2. a + q - 1 \in 1 .. z
          BY <5>1
        <5> QED
          BY <5>2 DEF a, z
      <4>2. w[k][q] \notin 65 .. 90
        BY <3>2 DEF PlainWord
      <4>3. l[i] = LowerByte(t[i]) /\ t[i] \in 0 .. 255 /\ CmpChar(t[i], w[k][q])
        BY <1>3, <3>4, <4>1
      <4> HIDE DEF i
      <4>4. CmpChar(LowerByte(t[i]), w[k][q])
        BY <1>6, <4>2, <4>3
      <4>5. CmpChar(l[i], w[k][q])
        BY <4>3, <4>4
      <4> QED
        BY <4>5 DEF i
    <3> QED
      BY <1>3, <3>2, <3>4, <3>5 DEF Places, WordAt
  <2>2. \A k \in 3 .. n - 1 : at[k - 1] + Len(w[k - 1]) <= at[k]
    BY <1>9 DEF Occurs, n
  <2> QED
    BY <2>1, <2>2 DEF Occurs, n
<1>11. \E u : Occurs(l, f.words, u)
  BY <1>10 DEF w
<1> QED
  BY <1>2, <1>5, <1>7, <1>8, <1>11, MatchesMeans DEF w

(* The filters that cover a filter are those that hide it.                     *)
LEMMA CoverersHide ==
    ASSUME NEW entries \in Seq(FilterEntries), NEW i \in DOMAIN entries
    PROVE  Coverers(entries, i) = {} <=> ~ Hidden(entries, i)
<1> DEFINE F == FiltersOf(entries)
<1>1. ASSUME NEW j \in DOMAIN entries
      PROVE  F[j] = FilterOf(entries[j]) /\ F[j].name = FilterName(entries[j])
  BY DEF FiltersOf, FilterOf, NewNameFilter
<1>2. ASSUME NEW j \in DOMAIN entries
      PROVE  <<j, i>> \in EntryOrder(entries) <=>
                \/ TextLess(FilterName(entries[j]), FilterName(entries[i]))
                \/ FilterName(entries[j]) = FilterName(entries[i]) /\ j < i
  <2>1. <<j, i>> \in EntryOrder(entries) <=>
           TextLess(F[j].name, F[i].name) \/ (F[j].name = F[i].name /\ j < i)
    BY DEF EntryOrder
  <2> HIDE DEF F
  <2> QED
    BY <1>1, <2>1
<1>3. ASSUME NEW j
      PROVE  j \in Coverers(entries, i) <=>
                /\ j \in Enabled(entries) /\ <<j, i>> \in EntryOrder(entries)
                /\ Covers(F[j], F[i])
  <2> HIDE DEF F
  <2> QED
    BY <1>1, <1>2 DEF Coverers, Enabled
<1> HIDE DEF F
<1> QED
  BY <1>3 DEF Hidden, F

(* A text that fits the pattern of an entry is matched by its filter, and by   *)
(* every filter that covers it, where it is called by its pattern.              *)
LEMMA CoverersMatch ==
    ASSUME NEW t \in ByteString, NEW a \in FilterEntries, a.name = NoName,
           Fits(t, LowerText(a.pattern)), NEW b \in FilterEntries,
           b = a \/ Covers(FilterOf(b), FilterOf(a))
    PROVE  Matches(t, FilterOf(b))
<1> DEFINE p == LowerText(a.pattern)
           f == FilterOf(b)
<1>1. a.pattern \in ByteString /\ b.pattern \in ByteString
  BY DEF FilterEntries
<1>2. p \in ByteString
  BY <1>1, LowerTextTyped
<1>3. f.words \in WordLists /\ Plain(f.words) /\ f.words = Words(LowerText(b.pattern))
  BY <1>1, LowerTextTyped, WordsTyped, WordsArePlain DEF FilterOf, NewNameFilter
<1>4. FilterOf(a).words = Words(p) /\ FilterOf(a).name = a.pattern
  BY DEF FilterOf, NewNameFilter, FilterName
<1>5. \A w \in WordLists : LastWord(w) \in ByteString
  <2> SUFFICES ASSUME NEW w \in WordLists PROVE LastWord(w) \in ByteString
    OBVIOUS
  <2>1. w \in Seq(ByteString) /\ w # <<>>
    BY DEF WordLists
  <2>2. Len(w) \in 1 .. Len(w)
    BY <2>1, LenProperties, EmptySeq
  <2> QED
    BY <2>1, <2>2, ElementOfSeq DEF LastWord
<1> HIDE DEF p, f
<1>6. Matches(p, f) /\ Len(LastWord(f.words)) <= Len(LastWord(Words(p)))
  <2>1. CASE b = a
    <3>1. f.words = Words(p)
      BY <1>3, <2>1 DEF p
    <3>2. Len(LastWord(Words(p))) \in Int
      <4>1. LastWord(Words(p)) \in ByteString
        BY <1>2, <1>5, WordsTyped
      <4> QED
        BY <4>1, LenProperties DEF ByteString
    <3> QED
      BY <1>2, <3>1, <3>2, OwnPattern
  <2>2. CASE Covers(FilterOf(b), FilterOf(a))
    <3>1. /\ IsSuffixMoreGeneral(LastWord(f.words), LastWord(Words(p)))
          /\ Matches(a.pattern, f)
      BY <1>4, <2>2 DEF Covers, f
    <3>2. Matches(LowerText(a.pattern), f)
      BY <1>1, <1>3, <3>1, MatchesLower
    <3> QED
      BY <3>1, <3>2 DEF IsSuffixMoreGeneral, p
  <2> QED
    BY <2>1, <2>2
<1>7. Matches(t, f)
  BY <1>2, <1>3, <1>6, MatchCarried DEF p
<1> QED
  BY <1>7 DEF f

(* So the compiled list finds a filter for it, if one of them is covered by     *)
(* none: verifyFilter and FindFilter of config/filterList.go.                *)
LEMMA SomethingIsFound ==
    ASSUME NEW entries \in Seq(FilterEntries), AllUnnamed(entries), NEW t \in ByteString,
           NEW i \in DOMAIN entries, IsEnabled(entries[i]), Fits(t, LowerText(entries[i].pattern)),
           NEW j \in {i} \cup Coverers(entries, i), Coverers(entries, j) = {}
    PROVE  FindFilter(Compiled(RawList(entries)), t) # NotFound
<1> DEFINE l == Compiled(RawList(entries))
           F == FiltersOf(entries)
           hits == {k \in 1 .. l.usefulSize : Matches(t, l.filters[k])}
<1>1. \A k \in DOMAIN entries : entries[k] \in FilterEntries
  <2>1. DOMAIN entries = 1 .. Len(entries)
    BY LenProperties
  <2> QED
    BY <2>1, ElementOfSeq
<1>2. /\ j \in DOMAIN entries /\ IsEnabled(entries[j])
      /\ entries[j] = entries[i] \/ Covers(FilterOf(entries[j]), FilterOf(entries[i]))
  BY DEF Coverers
<1>3. Matches(t, F[j])
  <2>1. entries[i].name = NoName
    BY DEF AllUnnamed
  <2>2. Matches(t, FilterOf(entries[j]))
    BY <1>1, <1>2, <2>1, CoverersMatch
  <2> QED
    BY <1>2, <2>2 DEF FiltersOf, FilterOf
<1>4. ~ Hidden(entries, j) /\ j \in Enabled(entries)
  BY <1>2, CoverersHide DEF Enabled
<1>5. l \in FilterLists /\ l.isCompiled /\ \E e : IsCompiledOf(l, e, entries)
  BY CompiledLists
<1>6. PICK e : IsCompiledOf(l, e, entries)
  BY <1>5
<1> HIDE DEF l, F
<1>7. PICK k \in 1 .. Len(l.filters) : e[k] = j
  BY <1>4, <1>6 DEF IsCompiledOf
<1>8. k <= l.usefulSize /\ l.filters[k].words = F[j].words
  BY <1>4, <1>6, <1>7 DEF IsCompiledOf, F
<1>9. l.usefulSize \in Nat /\ k \in 1 .. l.usefulSize
  <2>1. l.usefulSize \in Nat
    BY <1>5 DEF FilterLists
  <2> QED
    BY <1>8, <2>1
<1>10. k \in hits
  BY <1>3, <1>8, <1>9, MatchesByWords
<1>11. \E m \in hits : \A n \in hits : m <= n
  <2>1. hits \subseteq Nat
    BY <1>9
  <2> QED
    BY <1>10, <2>1, LeastNatural
<1>12. FindFilter(l, t) = CHOOSE m \in hits : \A n \in hits : m <= n
  BY <1>5, <1>10 DEF FindFilter
<1>13. FindFilter(l, t) \in hits
  BY <1>11, <1>12
<1>14. 0 \notin hits
  BY <1>9
<1> QED
  BY <1>13, <1>14 DEF NotFound, l

-----------------------------------------------------------------------------
(* The local database.                                                      *)

(* The records of R that belong under a name.                              *)
Under(R, n) == {r \in R : Lower[r.owner] = n}

(* new is db with the records R added, each under its name.                  *)
Adds(new, db, R) ==
    /\ new \in Databases
    /\ \A n \in Names : ToSet(new[n]) = ToSet(db[n]) \cup Under(R, n)

(* Add puts a record under its name.                                        *)
LEMMA AddRecordAdds ==
    ASSUME NEW db \in Databases, NEW r \in Records
    PROVE  Adds(AddRecord(db, r), db, {r})
<1> DEFINE o == Lower[r.owner]
           new == AddRecord(db, r)
<1>1. o \in Names
  BY NamesAssumption DEF Records
<1>2. db[o] \in Seq(Records)
  BY <1>1 DEF Databases
<1>3. /\ Append(db[o], r) \in Seq(Records) /\ Len(Append(db[o], r)) = Len(db[o]) + 1
      /\ \A i \in 1 .. Len(db[o]) : Append(db[o], r)[i] = db[o][i]
      /\ Append(db[o], r)[Len(db[o]) + 1] = r
  BY <1>2, AppendProperties
<1>4. new = [db EXCEPT ![o] = Append(@, r)] /\ db \in [Names -> Seq(Records)]
  BY DEF AddRecord, Databases
<1>5. new \in Databases
  BY <1>1, <1>3, <1>4 DEF Databases
<1>6. ASSUME NEW n \in Names PROVE ToSet(new[n]) = ToSet(db[n]) \cup Under({r}, n)
  <2>1. CASE n = o
    <3> DEFINE u == db[o]
               v == Append(u, r)
    <3>1. new[n] = v /\ Under({r}, n) = {r}
      BY <1>1, <1>4, <2>1 DEF Under
    <3>2. /\ Len(u) \in Nat /\ DOMAIN u = 1 .. Len(u) /\ DOMAIN v = 1 .. Len(u) + 1
      BY <1>2, <1>3, LenProperties
    <3>3. \A x : x \in ToSet(u) <=> \E i \in 1 .. Len(u) : u[i] = x
      BY <3>2 DEF ToSet
    <3>4. \A x : x \in ToSet(v) <=> \E i \in 1 .. Len(u) + 1 : v[i] = x
      BY <3>2 DEF ToSet
    <3>5. \A i : i \in 1 .. Len(u) + 1 <=> i \in 1 .. Len(u) \/ i = Len(u) + 1
      BY <3>2
    <3> HIDE DEF u, v
    <3>6. \A x : x \in ToSet(v) <=> x \in ToSet(u) \/ x = r
      BY <1>3, <3>3, <3>4, <3>5 DEF u, v
    <3>7. ToSet(v) = ToSet(u) \cup {r}
      BY <3>6
    <3> QED
      BY <2>1, <3>1, <3>7 DEF u
  <2>2. CASE n # o
    <3>1. new[n] = db[n] /\ Under({r}, n) = {}
      BY <1>4, <2>2 DEF Under
    <3> QED
      BY <3>1
  <2> QED
    BY <2>1, <2>2
<1> QED
  BY <1>5, <1>6 DEF Adds

(* What is added in two parts is added.                                     *)
LEMMA AddsBoth ==
    ASSUME NEW a, NEW b, NEW c, NEW R, NEW S, Adds(b, a, R), Adds(c, b, S)
    PROVE  Adds(c, a, R \cup S)
<1>1. \A n : Under(R \cup S, n) = Under(R, n) \cup Under(S, n)
  BY DEF Under
<1>2. ASSUME NEW n \in Names PROVE ToSet(c[n]) = ToSet(a[n]) \cup Under(R \cup S, n)
  <2>1. ToSet(b[n]) = ToSet(a[n]) \cup Under(R, n) /\ ToSet(c[n]) = ToSet(b[n]) \cup Under(S, n)
    BY DEF Adds
  <2> QED
    BY <1>1, <2>1
<1> QED
  BY <1>2 DEF Adds

(* Nothing is added by adding nothing.                                      *)
LEMMA AddsNothing == ASSUME NEW db \in Databases PROVE Adds(db, db, {})
BY DEF Adds, Under

(* The records of an entry are added.                                       *)
LEMMA AddRecordsAdd ==
    ASSUME NEW db \in Databases, NEW rs \in Seq(Records)
    PROVE  Adds(AddRecords(db, rs), db, {rs[k] : k \in 1 .. Len(rs)})
<1> DEFINE n == Len(rs)
           Body(f) == [T \in SUBSET (1 .. n) |->
                         IF T = {} THEN db ELSE AddRecord(f[T \ {Max(T)}], rs[Max(T)])]
           g == [vk \in Databases \X (1 .. n) |-> AddRecord(vk[1], rs[vk[2]])]
           Some(k) == {rs[i] : i \in 1 .. k}
<1>1. n \in Nat /\ DOMAIN rs = 1 .. n /\ \A k \in 1 .. n : rs[k] \in Records
  BY LenProperties, ElementOfSeq
<1>2. \A d \in Databases, k \in 1 .. n :
         AddRecord(d, rs[k]) \in Databases /\ Adds(AddRecord(d, rs[k]), d, {rs[k]})
  BY <1>1, AddRecordAdds DEF Adds
<1>3. g \in [Databases \X (1 .. n) -> Databases]
  BY <1>2
<1>4. \A d \in Databases, k \in 1 .. n : g[<<d, k>>] = AddRecord(d, rs[k])
  OBVIOUS
<1> HIDE DEF g
<1>5. PICK h \in [SUBSET (1 .. n) -> Databases] : h = FoldStep(n, db, g, h)
  <2>1. Folds(n, Databases, db, g)
    BY <1>1, <1>3 DEF Folds
  <2>2. HasFold(n, Databases, db, g)
    BY <2>1, FoldExists
  <2> QED
    BY <2>2 DEF HasFold
<1>6. h = Body(h)
  <2>1. ASSUME NEW T \in SUBSET (1 .. n) PROVE h[T] = Body(h)[T]
    <3>1. CASE T = {}
      BY <1>5, <3>1 DEF FoldStep
    <3>2. CASE T # {}
      <4>1. T \ {Max(T)} \in SUBSET (1 .. n) /\ Max(T) \in 1 .. n
        BY <1>1, <3>2, MaxIsLast
      <4>2. h[T \ {Max(T)}] \in Databases
        BY <4>1
      <4>3. h[T] = g[<<h[T \ {Max(T)}], Max(T)>>]
        BY <1>5, <3>2 DEF FoldStep
      <4>4. Body(h)[T] = AddRecord(h[T \ {Max(T)}], rs[Max(T)])
        BY <3>2
      <4> QED
        BY <1>4, <4>1, <4>2, <4>3, <4>4
    <3> QED
      BY <3>1, <3>2
  <2> QED
    BY <2>1
<1>7. \E f : f = Body(f) /\ AddRecords(db, rs) = f[1 .. n]
  BY <1>1, <1>6 DEF AddRecords, FoldLeft, MapThenFoldSet
<1>8. PICK f : f = Body(f) /\ AddRecords(db, rs) = f[1 .. n]
  BY <1>7
<1> DEFINE Good == {k \in 0 .. n : Adds(f[1 .. k], db, Some(k))}
<1>9. 0 \in Good
  <2>1. 1 .. 0 = {} /\ {} \in SUBSET (1 .. n) /\ 0 \in 0 .. n /\ Some(0) = {}
    BY <1>1
  <2>2. f[1 .. 0] = db
    BY <1>8, <2>1
  <2>3. Adds(db, db, {})
    BY AddsNothing
  <2> QED
    BY <2>1, <2>2, <2>3
<1>10. ASSUME NEW d \in 0 .. n - 1, d \in Good PROVE d + 1 \in Good
  <2> DEFINE k == d + 1
  <2>1. k \in 1 .. n /\ k - 1 = d /\ k \in 0 .. n
    BY <1>1
  <2>2. Some(k) = Some(k - 1) \cup {rs[k]}
    BY <2>1
  <2> HIDE DEF k, Some
  <2>3. /\ 1 .. k \in SUBSET (1 .. n) /\ 1 .. k # {}
        /\ Max(1 .. k) = k /\ (1 .. k) \ {k} = 1 .. k - 1
    BY <1>1, <2>1, MaxOfPrefix
  <2>4. f[1 .. k] = AddRecord(f[1 .. k - 1], rs[k])
    BY <1>8, <2>3
  <2>5. Adds(f[1 .. k - 1], db, Some(k - 1)) /\ f[1 .. k - 1] \in Databases
    BY <1>10, <2>1 DEF Adds
  <2>6. Adds(f[1 .. k], f[1 .. k - 1], {rs[k]})
    BY <1>2, <2>1, <2>4, <2>5
  <2>7. Adds(f[1 .. k], db, Some(k))
    BY <2>2, <2>5, <2>6, AddsBoth
  <2> QED
    BY <2>1, <2>7 DEF k
<1> HIDE DEF Good
<1>11. 0 .. n \subseteq Good
  BY <1>1, <1>9, <1>10, UpToBound
<1>12. n \in Good
  BY <1>1, <1>11
<1> QED
  BY <1>8, <1>12 DEF Good

(* An entry has records, unless it is invalid or of an unknown type:       *)
(* toDnsResource of config/dns.go.                                         *)
LEMMA ToResourcesTyped ==
    ASSUME NEW e \in DatabaseEntries
    PROVE  /\ ToResources(e) \in Seq(Records)
           /\ ToResources(e) = <<>> <=> ~ (e.valid /\ e.type \in RecordTypes)
<1>1. e.name \in Names /\ e.data \in Names /\ e.type \in STRING /\ e.valid \in BOOLEAN
  BY DEF DatabaseEntries
<1>2. ReverseName[e.data] \in Names
  BY <1>1, NamesAssumption
<1> DEFINE a == Record(e.name, e.type, e.data)
           b == Record(ReverseName[e.data], "PTR", e.name)
<1>3. b \in Records /\ (e.type \in RecordTypes => a \in Records)
  BY <1>1, <1>2 DEF Record, Records
<1> HIDE DEF a, b
<1>4. /\ <<>> \in Seq(Records)
      /\ e.type \in RecordTypes => <<a>> \in Seq(Records) /\ <<a, b>> \in Seq(Records)
  BY <1>3
<1>5. <<a>> # <<>> /\ <<a, b>> # <<>>
  OBVIOUS
<1>6. ToResources(e) = IF ~ e.valid \/ e.type \notin RecordTypes THEN <<>>
                       ELSE IF e.type \in {"A", "AAAA"} THEN <<a, b>> ELSE <<a>>
  BY DEF ToResources, a, b
<1> QED
  BY <1>4, <1>5, <1>6

(* All records of the entries of a file.                                     *)
Filled(entries) ==
    FoldLeft(LAMBDA db, e : AddRecords(db, ToResources(e)), NewDatabase, entries)

(* The records an entry stands for.                                         *)
RecordsOf(e) == {ToResources(e)[k] : k \in 1 .. Len(ToResources(e))}

(* The database of the entries of a file has their records.                   *)
LEMMA FilledAdds ==
    ASSUME NEW entries \in Seq(DatabaseEntries)
    PROVE  Adds(Filled(entries), NewDatabase,
                UNION {RecordsOf(entries[k]) : k \in 1 .. Len(entries)})
<1> DEFINE n == Len(entries)
           Take(d, k) == AddRecords(d, ToResources(entries[k]))
           Body(f) == [T \in SUBSET (1 .. n) |->
                         IF T = {} THEN NewDatabase ELSE Take(f[T \ {Max(T)}], Max(T))]
           g == [vk \in Databases \X (1 .. n) |-> Take(vk[1], vk[2])]
           Some(k) == UNION {RecordsOf(entries[i]) : i \in 1 .. k}
<1>1. n \in Nat /\ DOMAIN entries = 1 .. n /\ \A k \in 1 .. n : entries[k] \in DatabaseEntries
  BY LenProperties, ElementOfSeq
<1>2. ASSUME NEW d \in Databases, NEW k \in 1 .. n
      PROVE  Take(d, k) \in Databases /\ Adds(Take(d, k), d, RecordsOf(entries[k]))
  <2>1. ToResources(entries[k]) \in Seq(Records)
    BY <1>1, ToResourcesTyped
  <2> QED
    BY <2>1, AddRecordsAdd DEF Adds, RecordsOf
<1>3. NewDatabase \in Databases
  <2>1. <<>> \in Seq(Records)
    OBVIOUS
  <2> QED
    BY <2>1 DEF NewDatabase, Databases
<1> HIDE DEF Take
<1>4. g \in [Databases \X (1 .. n) -> Databases]
  BY <1>2
<1>5. \A d \in Databases, k \in 1 .. n : g[<<d, k>>] = Take(d, k)
  OBVIOUS
<1> HIDE DEF g
<1>6. PICK h \in [SUBSET (1 .. n) -> Databases] : h = FoldStep(n, NewDatabase, g, h)
  <2>1. Folds(n, Databases, NewDatabase, g)
    BY <1>1, <1>3, <1>4 DEF Folds
  <2>2. HasFold(n, Databases, NewDatabase, g)
    BY <2>1, FoldExists
  <2> QED
    BY <2>2 DEF HasFold
<1>7. h = Body(h)
  <2>1. ASSUME NEW T \in SUBSET (1 .. n) PROVE h[T] = Body(h)[T]
    <3>1. CASE T = {}
      BY <1>6, <3>1 DEF FoldStep
    <3>2. CASE T # {}
      <4>1. T \ {Max(T)} \in SUBSET (1 .. n) /\ Max(T) \in 1 .. n
        BY <1>1, <3>2, MaxIsLast
      <4>2. h[T \ {Max(T)}] \in Databases
        BY <4>1
      <4>3. h[T] = g[<<h[T \ {Max(T)}], Max(T)>>]
        BY <1>6, <3>2 DEF FoldStep
      <4>4. Body(h)[T] = Take(h[T \ {Max(T)}], Max(T))
        BY <3>2
      <4> QED
        BY <1>5, <4>1, <4>2, <4>3, <4>4
    <3> QED
      BY <3>1, <3>2
  <2> QED
    BY <2>1
<1>8. \E f : f = Body(f) /\ Filled(entries) = f[1 .. n]
  BY <1>1, <1>7 DEF Filled, FoldLeft, MapThenFoldSet, Take
<1>9. PICK f : f = Body(f) /\ Filled(entries) = f[1 .. n]
  BY <1>8
<1> DEFINE Good == {k \in 0 .. n : Adds(f[1 .. k], NewDatabase, Some(k))}
<1>10. 0 \in Good
  <2>1. 1 .. 0 = {} /\ {} \in SUBSET (1 .. n) /\ 0 \in 0 .. n /\ Some(0) = {}
    BY <1>1
  <2>2. f[1 .. 0] = NewDatabase
    BY <1>9, <2>1
  <2>3. Adds(NewDatabase, NewDatabase, {})
    BY <1>3, AddsNothing
  <2> QED
    BY <2>1, <2>2, <2>3
<1>11. ASSUME NEW d \in 0 .. n - 1, d \in Good PROVE d + 1 \in Good
  <2> DEFINE k == d + 1
  <2>1. k \in 1 .. n /\ k - 1 = d /\ k \in 0 .. n /\ 1 .. k = (1 .. k - 1) \cup {k}
    BY <1>1
  <2>2. Some(k) = Some(k - 1) \cup RecordsOf(entries[k])
    BY <2>1
  <2> HIDE DEF k, Some
  <2>3. /\ 1 .. k \in SUBSET (1 .. n) /\ 1 .. k # {}
        /\ Max(1 .. k) = k /\ (1 .. k) \ {k} = 1 .. k - 1
    BY <1>1, <2>1, MaxOfPrefix
  <2>4. f[1 .. k] = Take(f[1 .. k - 1], k)
    BY <1>9, <2>3
  <2>5. Adds(f[1 .. k - 1], NewDatabase, Some(k - 1)) /\ f[1 .. k - 1] \in Databases
    BY <1>11, <2>1 DEF Adds
  <2>6. Adds(f[1 .. k], f[1 .. k - 1], RecordsOf(entries[k]))
    BY <1>2, <2>1, <2>4, <2>5
  <2>7. Adds(f[1 .. k], NewDatabase, Some(k))
    BY <2>2, <2>5, <2>6, AddsBoth
  <2> QED
    BY <2>1, <2>7 DEF k
<1> HIDE DEF Good
<1>12. 0 .. n \subseteq Good
  BY <1>1, <1>10, <1>11, UpToBound
<1>13. n \in Good
  BY <1>1, <1>12
<1> QED
  BY <1>9, <1>13 DEF Good

(* The database of the entries is a database.                                 *)
LEMMA FilledTyped ==
    ASSUME NEW entries \in Seq(DatabaseEntries)
    PROVE  Filled(entries) \in Databases
BY FilledAdds DEF Adds

(* The database of a valid file has, under each name, what the file gives it.  *)
LEMMA FilledHolds ==
    ASSUME NEW entries \in Seq(DatabaseEntries),
           \A i \in DOMAIN entries : ToResources(entries[i]) # <<>>
    PROVE  /\ Filled(entries) \in Databases
           /\ Given(entries) \subseteq Records
           /\ \A n \in Names : ToSet(Filled(entries)[n]) = Under(Given(entries), n)
<1> DEFINE D == DOMAIN entries
<1>1. D = 1 .. Len(entries) /\ \A i \in D : entries[i] \in DatabaseEntries
  BY LenProperties, ElementOfSeq
<1>2. ASSUME NEW i \in D
      PROVE  /\ RecordsOf(entries[i]) =
                  {Record(entries[i].name, entries[i].type, entries[i].data)} \cup
                  (IF entries[i].type \in {"A", "AAAA"}
                   THEN {Record(ReverseName[entries[i].data], "PTR", entries[i].name)} ELSE {})
             /\ RecordsOf(entries[i]) \subseteq Records
  <2> DEFINE e == entries[i]
             a == Record(e.name, e.type, e.data)
             b == Record(ReverseName[e.data], "PTR", e.name)
  <2>1. ToResources(e) \in Seq(Records) /\ ToResources(e) # <<>>
    BY <1>1, ToResourcesTyped
  <2>2. ToResources(e) = IF e.type \in {"A", "AAAA"} THEN <<a, b>> ELSE <<a>>
    BY <2>1 DEF ToResources
  <2>3. Len(<<a, b>>) = 2 /\ <<a, b>>[1] = a /\ <<a, b>>[2] = b /\ Len(<<a>>) = 1 /\ <<a>>[1] = a
    OBVIOUS
  <2>4. \A k \in 1 .. Len(ToResources(e)) : ToResources(e)[k] \in Records
    BY <2>1, ElementOfSeq
  <2> HIDE DEF e, a, b
  <2>5. RecordsOf(e) = {a} \cup (IF e.type \in {"A", "AAAA"} THEN {b} ELSE {})
    <3>1. CASE e.type \in {"A", "AAAA"}
      <4>1. \A k : k \in 1 .. 2 <=> k = 1 \/ k = 2
        OBVIOUS
      <4> QED
        BY <2>2, <2>3, <3>1, <4>1 DEF RecordsOf
    <3>2. CASE e.type \notin {"A", "AAAA"}
      <4>1. \A k : k \in 1 .. 1 <=> k = 1
        OBVIOUS
      <4> QED
        BY <2>2, <2>3, <3>2, <4>1 DEF RecordsOf
    <3> QED
      BY <3>1, <3>2
  <2>6. RecordsOf(e) \subseteq Records
    BY <2>4 DEF RecordsOf
  <2> QED
    BY <2>5, <2>6 DEF e, a, b
<1>3. Given(entries) = UNION {RecordsOf(entries[i]) : i \in D}
  BY <1>2 DEF Given
<1>4. Given(entries) \subseteq Records
  BY <1>2, <1>3
<1>5. Adds(Filled(entries), NewDatabase, Given(entries))
  BY <1>1, <1>3, FilledAdds
<1>6. \A n \in Names : ToSet(NewDatabase[n]) = {}
  BY DEF NewDatabase, ToSet
<1> QED
  BY <1>4, <1>5, <1>6 DEF Adds

-----------------------------------------------------------------------------
(* Looking up.                                                              *)

(* The recursion of FlattenSeq.                                             *)
FlattenStep(ss, f) == [i \in 1 .. Len(ss) |-> IF i = 1 THEN ss[i] ELSE f[i - 1] \o ss[i]]

(* FlattenSeq has the elements of the sequences it is made of.                *)
LEMMA FlattenedHas ==
    ASSUME NEW E, NEW ss \in Seq(Seq(E))
    PROVE  /\ FlattenSeq(ss) \in Seq(E)
           /\ ToSet(FlattenSeq(ss)) = UNION {ToSet(ss[i]) : i \in 1 .. Len(ss)}
<1> DEFINE n == Len(ss)
           S == 1 .. n
           F == [S -> Seq(E)]
           step == [f \in F |-> FlattenStep(ss, f)]
           rank == [i \in S |-> i]
<1>1. n \in Nat /\ \A i \in S : ss[i] \in Seq(E)
  BY LenProperties, ElementOfSeq
<1>2. CASE n = 0
  <2>1. FlattenSeq(ss) = ss /\ ss = <<>>
    BY <1>2, EmptySeq DEF FlattenSeq
  <2>2. 1 .. n = {} /\ ToSet(<<>>) = {} /\ <<>> \in Seq(E)
    BY <1>2 DEF ToSet
  <2> QED
    BY <2>1, <2>2
<1>3. CASE n # 0
  <2>1. ASSUME NEW f \in F PROVE step[f] \in F
    <3>1. ASSUME NEW i \in S PROVE FlattenStep(ss, f)[i] \in Seq(E)
      <4>1. CASE i = 1
        BY <1>1, <4>1 DEF FlattenStep
      <4>2. CASE i # 1
        <5>1. i - 1 \in S
          BY <1>1, <4>2
        <5>2. f[i - 1] \o ss[i] \in Seq(E)
          BY <1>1, <5>1, ConcatProperties
        <5> QED
          BY <4>2, <5>2 DEF FlattenStep
      <4> QED
        BY <4>1, <4>2
    <3> QED
      BY <3>1 DEF FlattenStep
  <2>2. ASSUME NEW f \in F, NEW g \in F, NEW i \in S,
               \A y \in S : rank[y] < rank[i] => f[y] = g[y]
        PROVE  step[f][i] = step[g][i]
    <3>1. CASE i = 1
      BY <3>1 DEF FlattenStep
    <3>2. CASE i # 1
      <4>1. i - 1 \in S /\ rank[i - 1] < rank[i]
        BY <1>1, <3>2
      <4>2. f[i - 1] = g[i - 1]
        BY <2>2, <4>1
      <4> QED
        BY <3>2, <4>2 DEF FlattenStep
    <3> QED
      BY <3>1, <3>2
  <2>3. F # {}
    BY <1>1
  <2>4. \A i \in S : rank[i] \in 0 .. n
    BY <1>1
  <2>5. \A f, g \in F : (\A x \in S : f[x] = g[x]) => f = g
    OBVIOUS
  <2> HIDE DEF F, step, rank
  <2>6. Recursive(S, F, step, rank, n)
    BY <1>1, <2>1, <2>2, <2>3, <2>4, <2>5 DEF Recursive
  <2>7. PICK h \in F : h = step[h]
    BY <2>6, RankRecursion
  <2>8. h = FlattenStep(ss, h)
    BY <2>7 DEF step
  <2>9. \E f : f = FlattenStep(ss, f) /\ FlattenSeq(ss) = f[n]
    BY <1>3, <2>8 DEF FlattenSeq, FlattenStep
  <2>10. PICK f : f = FlattenStep(ss, f) /\ FlattenSeq(ss) = f[n]
    BY <2>9
  <2> DEFINE Good == {k \in 0 .. n : k = 0 \/
                        (/\ f[k] \in Seq(E)
                         /\ ToSet(f[k]) = UNION {ToSet(ss[i]) : i \in 1 .. k})}
  <2>11. 0 \in Good
    BY <1>1
  <2>12. ASSUME NEW d \in 0 .. n - 1, d \in Good PROVE d + 1 \in Good
    <3>1. d + 1 \in S /\ d + 1 \in 0 .. n /\ d \in Nat
      BY <1>1
    <3>2. CASE d = 0
      <4>1. f[1] = ss[1] /\ 1 \in S
        BY <2>10, <3>1, <3>2 DEF FlattenStep
      <4>2. 1 .. 1 = {1}
        OBVIOUS
      <4>3. ToSet(f[1]) = UNION {ToSet(ss[i]) : i \in 1 .. 1}
        BY <4>1, <4>2
      <4> QED
        BY <1>1, <3>1, <3>2, <4>1, <4>3
    <3>3. CASE d # 0
      <4>1. f[d + 1] = f[d] \o ss[d + 1]
        <5>1. d + 1 # 1 /\ (d + 1) - 1 = d
          BY <3>1, <3>3
        <5> QED
          BY <2>10, <3>1, <5>1 DEF FlattenStep
      <4>2. f[d] \in Seq(E) /\ ToSet(f[d]) = UNION {ToSet(ss[i]) : i \in 1 .. d}
        BY <2>12, <3>3
      <4>3. ss[d + 1] \in Seq(E)
        BY <1>1, <3>1
      <4>4. /\ f[d + 1] \in Seq(E)
            /\ ToSet(f[d + 1]) = ToSet(f[d]) \cup ToSet(ss[d + 1])
        <5> DEFINE a == f[d]
                   b == ss[d + 1]
        <5>1. /\ a \o b \in Seq(E) /\ Len(a \o b) = Len(a) + Len(b)
              /\ \A i \in 1 .. Len(a) + Len(b) :
                    (a \o b)[i] = IF i <= Len(a) THEN a[i] ELSE b[i - Len(a)]
          BY <4>2, <4>3, ConcatProperties
        <5>2. /\ Len(a) \in Nat /\ DOMAIN a = 1 .. Len(a)
              /\ Len(b) \in Nat /\ DOMAIN b = 1 .. Len(b)
              /\ DOMAIN (a \o b) = 1 .. Len(a \o b)
          BY <4>2, <4>3, <5>1, LenProperties
        <5> HIDE DEF a, b
        <5>3. ASSUME NEW x \in ToSet(a \o b) PROVE x \in ToSet(a) \cup ToSet(b)
          <6>1. PICK i \in 1 .. Len(a) + Len(b) : (a \o b)[i] = x
            BY <5>1, <5>2, <5>3 DEF ToSet
          <6>2. CASE i <= Len(a)
            BY <5>1, <5>2, <6>1, <6>2 DEF ToSet
          <6>3. CASE ~ (i <= Len(a))
            <7>1. i - Len(a) \in 1 .. Len(b)
              BY <5>2, <6>3
            <7> QED
              BY <5>1, <5>2, <6>1, <6>3, <7>1 DEF ToSet
          <6> QED
            BY <6>2, <6>3
        <5>4. ASSUME NEW x \in ToSet(a) PROVE x \in ToSet(a \o b)
          <6>1. PICK i \in 1 .. Len(a) : a[i] = x
            BY <5>2, <5>4 DEF ToSet
          <6>2. i \in 1 .. Len(a) + Len(b) /\ i <= Len(a)
            BY <5>2
          <6> QED
            BY <5>1, <5>2, <6>1, <6>2 DEF ToSet
        <5>5. ASSUME NEW x \in ToSet(b) PROVE x \in ToSet(a \o b)
          <6>1. PICK i \in 1 .. Len(b) : b[i] = x
            BY <5>2, <5>5 DEF ToSet
          <6>2. /\ i + Len(a) \in 1 .. Len(a) + Len(b) /\ ~ (i + Len(a) <= Len(a))
                /\ (i + Len(a)) - Len(a) = i
            BY <5>2
          <6> QED
            BY <5>1, <5>2, <6>1, <6>2 DEF ToSet
        <5>6. ToSet(a \o b) = ToSet(a) \cup ToSet(b)
          BY <5>3, <5>4, <5>5
        <5> QED
          BY <4>1, <5>1, <5>6 DEF a, b
      <4>5. \A i : i \in 1 .. d + 1 <=> i \in 1 .. d \/ i = d + 1
        BY <3>1
      <4>6. UNION {ToSet(ss[i]) : i \in 1 .. d + 1} =
              (UNION {ToSet(ss[i]) : i \in 1 .. d}) \cup ToSet(ss[d + 1])
        BY <4>5
      <4> QED
        BY <3>1, <4>2, <4>4, <4>6
    <3> QED
      BY <3>2, <3>3
  <2> HIDE DEF Good
  <2>13. 0 .. n \subseteq Good
    BY <1>1, <2>11, <2>12, UpToBound
  <2>14. n \in Good
    BY <1>1, <2>13
  <2> QED
    BY <1>3, <2>10, <2>14 DEF Good
<1> QED
  BY <1>2, <1>3

(* What the entries of a name contribute, where g is what its aliases find.   *)
LevelParts(l, type, g) ==
    [i \in DOMAIN l |->
       IF type # "CNAME" /\ l[i].type = "CNAME" THEN g[l[i].target]
       ELSE IF l[i].type = type THEN <<l[i]>> ELSE <<>>]

(* The recursion of GetRecord.                                              *)
FoundStep(db, type, f) ==
    [d \in 0 .. MaxDepth |->
        [n \in Names |->
            IF d = 0 THEN <<>>
            ELSE FlattenSeq(LevelParts(db[n], type, f[d - 1]))]]

(* The names the aliases of a name lead to, and the records of a type.         *)
Targets(R, n) == {r.target : r \in {x \in Under(R, n) : x.type = "CNAME"}}
OfType(R, type, n) == {r \in Under(R, n) : r.type = type}

(* What one level finds: the records of the name, and what its aliases find.   *)
LevelFinds(R, n, l, type, g) ==
    /\ FlattenSeq(LevelParts(l, type, g)) \in Seq(Records)
    /\ ToSet(FlattenSeq(LevelParts(l, type, g))) =
          OfType(R, type, n) \cup
          (IF type = "CNAME" THEN {} ELSE UNION {ToSet(g[t]) : t \in Targets(R, n)})

(* One level of the lookup.                                                 *)
LEMMA LevelHas ==
    ASSUME NEW R, R \subseteq Records, NEW n, NEW l \in Seq(Records), ToSet(l) = Under(R, n),
           NEW type, NEW g \in [Names -> Seq(Records)]
    PROVE  LevelFinds(R, n, l, type, g)
<1> DEFINE Part(i) == IF type # "CNAME" /\ l[i].type = "CNAME" THEN g[l[i].target]
                      ELSE IF l[i].type = type THEN <<l[i]>> ELSE <<>>
           parts == LevelParts(l, type, g)
           m == Len(l)
           Aliased == IF type = "CNAME" THEN {} ELSE UNION {ToSet(g[t]) : t \in Targets(R, n)}
<1>1. m \in Nat /\ DOMAIN l = 1 .. m /\ \A i \in 1 .. m : l[i] \in Records
  BY LenProperties, ElementOfSeq
<1>2. \A x : x \in Under(R, n) <=> \E i \in 1 .. m : l[i] = x
  BY <1>1 DEF ToSet
<1>3. ASSUME NEW i \in 1 .. m
      PROVE  /\ Part(i) \in Seq(Records)
             /\ ToSet(Part(i)) = IF type # "CNAME" /\ l[i].type = "CNAME" THEN ToSet(g[l[i].target])
                                 ELSE IF l[i].type = type THEN {l[i]} ELSE {}
  <2>1. l[i] \in Records /\ l[i].target \in Names
    BY <1>1 DEF Records
  <2>2. CASE type # "CNAME" /\ l[i].type = "CNAME"
    BY <2>1, <2>2
  <2>3. CASE ~ (type # "CNAME" /\ l[i].type = "CNAME") /\ l[i].type = type
    <3>1. <<l[i]>> \in Seq(Records) /\ DOMAIN <<l[i]>> = 1 .. 1 /\ <<l[i]>>[1] = l[i]
      BY <2>1
    <3>2. ToSet(<<l[i]>>) = {l[i]}
      BY <3>1 DEF ToSet
    <3> QED
      BY <2>3, <3>1, <3>2
  <2>4. CASE ~ (type # "CNAME" /\ l[i].type = "CNAME") /\ l[i].type # type
    <3>1. <<>> \in Seq(Records) /\ ToSet(<<>>) = {}
      BY DEF ToSet
    <3> QED
      BY <2>4, <3>1
  <2> QED
    BY <2>2, <2>3, <2>4
<1>0. parts = [i \in DOMAIN l |-> Part(i)]
  BY DEF LevelParts
<1> HIDE DEF Part, parts
<1>4. /\ parts \in Seq(Seq(Records)) /\ Len(parts) = m
      /\ \A i \in 1 .. m : parts[i] = Part(i)
  <2>1. parts \in [1 .. m -> Seq(Records)]
    BY <1>0, <1>1, <1>3
  <2>2. parts \in Seq(Seq(Records))
    BY <1>1, <2>1, SeqDef
  <2>3. DOMAIN parts = 1 .. m /\ DOMAIN parts = 1 .. Len(parts) /\ Len(parts) \in Nat
    BY <1>1, <2>1, <2>2, LenProperties
  <2> QED
    BY <1>0, <1>1, <2>2, <2>3
<1>5. /\ FlattenSeq(parts) \in Seq(Records)
      /\ ToSet(FlattenSeq(parts)) = UNION {ToSet(parts[i]) : i \in 1 .. Len(parts)}
  BY <1>4, FlattenedHas
<1>6. ASSUME NEW x \in ToSet(FlattenSeq(parts)) PROVE x \in OfType(R, type, n) \cup Aliased
  <2>1. PICK i \in 1 .. m : x \in ToSet(Part(i))
    BY <1>4, <1>5, <1>6
  <2>2. l[i] \in Under(R, n)
    BY <1>2
  <2>3. CASE type # "CNAME" /\ l[i].type = "CNAME"
    <3>1. x \in ToSet(g[l[i].target]) /\ l[i].target \in Targets(R, n)
      BY <1>3, <2>1, <2>2, <2>3 DEF Targets
    <3> QED
      BY <2>3, <3>1
  <2>4. CASE ~ (type # "CNAME" /\ l[i].type = "CNAME")
    <3>1. x = l[i] /\ l[i].type = type
      BY <1>3, <2>1, <2>4
    <3> QED
      BY <2>2, <3>1 DEF OfType
  <2> QED
    BY <2>3, <2>4
<1>7. ASSUME NEW x \in OfType(R, type, n) PROVE x \in ToSet(FlattenSeq(parts))
  <2>1. x \in Under(R, n) /\ x.type = type
    BY <1>7 DEF OfType
  <2>2. PICK i \in 1 .. m : l[i] = x
    BY <1>2, <2>1
  <2>3. x \in ToSet(Part(i))
    BY <1>3, <2>1, <2>2
  <2> QED
    BY <1>4, <1>5, <2>3
<1>8. ASSUME NEW x \in Aliased PROVE x \in ToSet(FlattenSeq(parts))
  <2>1. type # "CNAME"
    BY <1>8
  <2>2. PICK t \in Targets(R, n) : x \in ToSet(g[t])
    BY <1>8, <2>1
  <2>3. PICK r \in Under(R, n) : r.type = "CNAME" /\ r.target = t
    BY <2>2 DEF Targets
  <2>4. PICK i \in 1 .. m : l[i] = r
    BY <1>2, <2>3
  <2>5. x \in ToSet(Part(i))
    BY <1>3, <2>1, <2>2, <2>3, <2>4
  <2> QED
    BY <1>4, <1>5, <2>5
<1>9. ToSet(FlattenSeq(parts)) = OfType(R, type, n) \cup Aliased
  BY <1>6, <1>7, <1>8
<1> QED
  BY <1>5, <1>9 DEF parts, LevelFinds

(* A database that holds exactly the records R.                               *)
Holds(db, R) ==
    /\ db \in Databases /\ R \subseteq Records
    /\ \A n \in Names : db[n] \in Seq(Records) /\ ToSet(db[n]) = Under(R, n)

(* The recursion of GetRecord defines a function.                             *)
LEMMA FoundExists ==
    ASSUME NEW db, NEW R, Holds(db, R), NEW type, NEW name
    PROVE  \E f : f = FoundStep(db, type, f) /\ GetRecord(db, type, name) = f[MaxDepth][Lower[name]]
<1> DEFINE S == 0 .. MaxDepth
           F == [S -> [Names -> Seq(Records)]]
           step == [f \in F |-> FoundStep(db, type, f)]
           rank == [d \in S |-> d]
<1>1. MaxDepth \in Nat /\ MaxDepth # 0
  BY NamesAssumption
<1>2. ASSUME NEW f \in F PROVE FoundStep(db, type, f) \in F
  <2>1. ASSUME NEW d \in S, NEW n \in Names PROVE FoundStep(db, type, f)[d][n] \in Seq(Records)
    <3>1. CASE d = 0
      <4>1. <<>> \in Seq(Records)
        OBVIOUS
      <4> QED
        BY <3>1, <4>1 DEF FoundStep
    <3>2. CASE d # 0
      <4>1. d - 1 \in S
        BY <1>1, <3>2
      <4> DEFINE l == db[n]
                 g == f[d - 1]
      <4>2. g \in [Names -> Seq(Records)]
        BY <4>1
      <4>3. R \subseteq Records /\ l \in Seq(Records) /\ ToSet(l) = Under(R, n)
        BY DEF Holds
      <4> HIDE DEF l, g
      <4>4. FlattenSeq(LevelParts(l, type, g)) \in Seq(Records)
        BY <4>2, <4>3, LevelHas DEF LevelFinds
      <4> QED
        BY <3>2, <4>4 DEF FoundStep, l, g
    <3> QED
      BY <3>1, <3>2
  <2> QED
    BY <2>1 DEF FoundStep
<1>3. ASSUME NEW f \in F, NEW g \in F, NEW d \in S, \A y \in S : rank[y] < rank[d] => f[y] = g[y]
      PROVE  FoundStep(db, type, f)[d] = FoundStep(db, type, g)[d]
  <2>1. CASE d = 0
    BY <2>1 DEF FoundStep
  <2>2. CASE d # 0
    <3>1. d - 1 \in S /\ rank[d - 1] < rank[d]
      BY <1>1, <2>2
    <3>2. f[d - 1] = g[d - 1]
      BY <1>3, <3>1
    <3> QED
      BY <2>2, <3>2 DEF FoundStep
  <2> QED
    BY <2>1, <2>2
<1>4. F # {}
  <2>1. [d \in S |-> [n \in Names |-> <<>>]] \in F
    <3>1. <<>> \in Seq(Records)
      OBVIOUS
    <3> QED
      BY <3>1
  <2> QED
    BY <2>1
<1>5. \A d \in S : rank[d] \in 0 .. MaxDepth
  OBVIOUS
<1>6. \A f, g \in F : (\A x \in S : f[x] = g[x]) => f = g
  BY SameFunctions
<1>7. \A f \in F : step[f] = FoundStep(db, type, f)
  OBVIOUS
<1> HIDE DEF F, step, rank
<1>8. Recursive(S, F, step, rank, MaxDepth)
  BY <1>1, <1>2, <1>3, <1>4, <1>5, <1>6, <1>7 DEF Recursive
<1>9. PICK h \in F : h = step[h]
  BY <1>8, RankRecursion
<1>10. h = FoundStep(db, type, h)
  BY <1>7, <1>9
<1> QED
  BY <1>10 DEF GetRecord, FoundStep, LevelParts

(* The names the aliases of some names lead to.                               *)
Onward(R, S) == {r.target : r \in {x \in R : x.type = "CNAME" /\ Lower[x.owner] \in S}}

(* The recursion of Reached.                                                *)
ReachStep(R, n, w) ==
    [d \in 0 .. MaxDepth - 1 |-> IF d = 0 THEN {n} ELSE w[d - 1] \cup Onward(R, w[d - 1])]

(* w satisfies it.                                                        *)
IsWay(R, n, w) == w = ReachStep(R, n, w) /\ Reached(R, n) = w[MaxDepth - 1]

(* The names that 0, 1, 2... aliases lead to.                                 *)
Way(R, n) == CHOOSE w : IsWay(R, n, w)

(* The recursion of Reached defines a function.                               *)
LEMMA WayExists ==
    ASSUME NEW R, R \subseteq Records, NEW n \in Names
    PROVE  IsWay(R, n, Way(R, n))
<1> DEFINE S == 0 .. MaxDepth - 1
           V == SUBSET Names
           F == [S -> V]
           step == [w \in F |-> ReachStep(R, n, w)]
           rank == [d \in S |-> d]
<1>1. MaxDepth - 1 \in Nat /\ MaxDepth \in Nat
  BY NamesAssumption
<1>2. \A T : Onward(R, T) \subseteq Names
  BY DEF Onward, Records
<1>3. ASSUME NEW w \in F PROVE ReachStep(R, n, w) \in F
  <2>1. ASSUME NEW d \in S PROVE ReachStep(R, n, w)[d] \in V
    <3>1. CASE d = 0
      BY <3>1 DEF ReachStep
    <3>2. CASE d # 0
      <4>1. d - 1 \in S
        BY <1>1, <3>2
      <4>2. w[d - 1] \in V
        BY <4>1
      <4> QED
        BY <1>2, <3>2, <4>2 DEF ReachStep
    <3> QED
      BY <3>1, <3>2
  <2> HIDE DEF V
  <2> QED
    BY <2>1 DEF ReachStep
<1>4. ASSUME NEW f \in F, NEW g \in F, NEW d \in S, \A y \in S : rank[y] < rank[d] => f[y] = g[y]
      PROVE  ReachStep(R, n, f)[d] = ReachStep(R, n, g)[d]
  <2>1. CASE d = 0
    BY <2>1 DEF ReachStep
  <2>2. CASE d # 0
    <3>1. d - 1 \in S /\ rank[d - 1] < rank[d]
      BY <1>1, <2>2
    <3>2. f[d - 1] = g[d - 1]
      BY <1>4, <3>1
    <3> QED
      BY <2>2, <3>2 DEF ReachStep
  <2> QED
    BY <2>1, <2>2
<1>5. F # {}
  <2>1. [d \in S |-> {}] \in F
    OBVIOUS
  <2> QED
    BY <2>1
<1>6. \A d \in S : rank[d] \in 0 .. MaxDepth - 1
  OBVIOUS
<1>7. \A f, g \in F : (\A x \in S : f[x] = g[x]) => f = g
  BY SameFunctions
<1>8. \A w \in F : step[w] = ReachStep(R, n, w)
  OBVIOUS
<1> HIDE DEF F, step, rank
<1>9. Recursive(S, F, step, rank, MaxDepth - 1)
  BY <1>1, <1>3, <1>4, <1>5, <1>6, <1>7, <1>8 DEF Recursive
<1>10. PICK h \in F : h = step[h]
  BY <1>9, RankRecursion
<1>11. h = ReachStep(R, n, h)
  BY <1>8, <1>10
<1>12. \E w : IsWay(R, n, w)
  BY <1>11 DEF IsWay, Reached, ReachStep, Onward
<1> QED
  BY <1>12 DEF Way

(* One alias further from n is as far from the names its own aliases lead to.  *)
LEMMA WayGoesOn ==
    ASSUME NEW R, R \subseteq Records
    PROVE  \A k \in 0 .. MaxDepth - 1, n \in Names :
              Way(R, n)[k] = IF k = 0 THEN {n}
                             ELSE {n} \cup UNION {Way(R, t)[k - 1] : t \in Targets(R, n)}
<1> DEFINE M == MaxDepth - 1
           W(n) == Way(R, n)
           On(S) == Onward(R, S)
           T(n) == Targets(R, n)
           Good == {k \in 0 .. M : \A n \in Names :
                      /\ n \in W(n)[k]
                      /\ k # 0 => W(n)[k] = {n} \cup UNION {W(t)[k - 1] : t \in T(n)}}
<1>1. M \in Nat
  BY NamesAssumption
<1>2. \A n \in Names : /\ W(n)[0] = {n}
                       /\ \A k \in 1 .. M : W(n)[k] = W(n)[k - 1] \cup On(W(n)[k - 1])
  <2>1. ASSUME NEW n \in Names
        PROVE  /\ W(n)[0] = {n}
               /\ \A k \in 1 .. M : W(n)[k] = W(n)[k - 1] \cup On(W(n)[k - 1])
    <3>1. W(n) = ReachStep(R, n, W(n))
      BY WayExists DEF IsWay
    <3> HIDE DEF W
    <3>2. /\ ReachStep(R, n, W(n))[0] = {n}
          /\ \A k \in 1 .. M : ReachStep(R, n, W(n))[k] = W(n)[k - 1] \cup On(W(n)[k - 1])
      BY <1>1 DEF ReachStep
    <3> QED
      BY <3>1, <3>2
  <2> QED
    BY <2>1
<1>3. \A S, x : x \in On(S) <=> \E s \in S : x \in T(s)
  BY DEF Onward, Targets, Under
<1>4. \A n : T(n) \subseteq Names
  BY DEF Targets, Under, Records
<1> HIDE DEF M, W, On, T
<1>5. 0 \in Good
  BY <1>1, <1>2
<1>6. ASSUME NEW d \in 0 .. M - 1, d \in Good PROVE d + 1 \in Good
  <2>1. d + 1 \in 1 .. M /\ d + 1 \in 0 .. M /\ (d + 1) - 1 = d /\ d + 1 # 0 /\ d \in 0 .. M
    BY <1>1
  <2>2. \A n \in Names : W(n)[d + 1] = W(n)[d] \cup On(W(n)[d])
    BY <1>2, <2>1
  <2>3. \A n \in Names : n \in W(n)[d]
    BY <1>6
  <2>4. ASSUME NEW n \in Names
        PROVE  W(n)[d + 1] = {n} \cup UNION {W(t)[d] : t \in T(n)}
    <3>1. CASE d = 0
      <4>3. \A x : x \in On({n}) <=> x \in T(n)
        <5>1. \A s : s \in {n} <=> s = n
          OBVIOUS
        <5> QED
          BY <1>3, <5>1
      <4>4. W(n)[d] = {n} /\ \A t \in T(n) : W(t)[d] = {t}
        BY <1>2, <1>4, <3>1
      <4>5. UNION {W(t)[d] : t \in T(n)} = T(n)
        BY <4>4
      <4>6. W(n)[d + 1] = {n} \cup On({n})
        BY <2>2, <4>4
      <4>7. On({n}) = T(n)
        BY <4>3
      <4> QED
        BY <4>5, <4>6, <4>7
    <3>2. CASE d # 0
      <4>1. W(n)[d] = {n} \cup UNION {W(t)[d - 1] : t \in T(n)}
        BY <1>6, <3>2
      <4>2. \A t \in T(n) : W(t)[d] = W(t)[d - 1] \cup On(W(t)[d - 1])
        BY <1>2, <1>4, <2>1, <3>2
      <4>3. ASSUME NEW x \in W(n)[d + 1] PROVE x = n \/ \E t \in T(n) : x \in W(t)[d]
        <5>1. CASE x \in W(n)[d]
          BY <4>1, <4>2, <5>1
        <5>2. CASE x \in On(W(n)[d])
          <6>1. PICK s \in W(n)[d] : x \in T(s)
            BY <1>3, <5>2
          <6>2. CASE s = n
            <7>1. x \in T(n) /\ x \in Names
              BY <1>4, <6>1, <6>2
            <7> QED
              BY <2>3, <7>1
          <6>3. CASE \E t \in T(n) : s \in W(t)[d - 1]
            <7>1. PICK t \in T(n) : s \in W(t)[d - 1]
              BY <6>3
            <7>2. x \in On(W(t)[d - 1])
              BY <1>3, <6>1, <7>1
            <7> QED
              BY <4>2, <7>2
          <6> QED
            BY <4>1, <6>2, <6>3
        <5> QED
          BY <2>2, <5>1, <5>2
      <4>4. ASSUME NEW t \in T(n), NEW x \in W(t)[d] PROVE x \in W(n)[d + 1]
        <5>1. CASE x \in W(t)[d - 1]
          BY <2>2, <4>1, <5>1
        <5>2. CASE x \in On(W(t)[d - 1])
          <6>1. PICK s \in W(t)[d - 1] : x \in T(s)
            BY <1>3, <5>2
          <6>2. s \in W(n)[d]
            BY <4>1, <6>1
          <6> QED
            BY <1>3, <2>2, <6>1, <6>2
        <5> QED
          BY <4>2, <5>1, <5>2
      <4>5. n \in W(n)[d + 1]
        BY <2>2, <2>3
      <4> QED
        BY <4>3, <4>4, <4>5
    <3> QED
      BY <3>1, <3>2
  <2> QED
    BY <2>1, <2>4
<1> HIDE DEF Good
<1>7. 0 .. M \subseteq Good
  BY <1>1, <1>5, <1>6, UpToBound
<1> QED
  BY <1>2, <1>7 DEF Good, M, W, T

(* A lookup finds the records that the file gives, over aliases: getRecord of   *)
(* config/database.go.                                                      *)
LEMMA LookupFinds ==
    ASSUME NEW db, NEW R, Holds(db, R), NEW type, NEW name \in Names
    PROVE  /\ ToSet(GetRecord(db, type, name)) = ExpectedRecords(R, type, name)
           /\ GetRecord(db, type, name) # <<>> <=> ExpectedRecords(R, type, name) # {}
<1> DEFINE V == [Names -> Seq(Records)]
           W(n) == Way(R, n)
           At(d, n) == IF type = "CNAME" THEN OfType(R, type, n)
                       ELSE {r \in R : r.type = type /\ Lower[r.owner] \in W(n)[d - 1]}
<1>1. PICK f : /\ f = FoundStep(db, type, f)
               /\ GetRecord(db, type, name) = f[MaxDepth][Lower[name]]
  BY FoundExists
<1>2. R \subseteq Records /\ \A n \in Names : db[n] \in Seq(Records) /\ ToSet(db[n]) = Under(R, n)
  BY DEF Holds
<1>3. MaxDepth \in Nat /\ MaxDepth # 0 /\ Lower[name] \in Names
  BY NamesAssumption
<1>4. \A k \in 0 .. MaxDepth - 1, n \in Names :
         W(n)[k] = IF k = 0 THEN {n} ELSE {n} \cup UNION {W(t)[k - 1] : t \in Targets(R, n)}
  BY <1>2, WayGoesOn
<1>5. \A n : Targets(R, n) \subseteq Names
  BY <1>2 DEF Targets, Under, Records
<1> HIDE DEF W
<1> DEFINE Good == {d \in 0 .. MaxDepth :
                      /\ f[d] \in V
                      /\ \A n \in Names : ToSet(f[d][n]) = IF d = 0 THEN {} ELSE At(d, n)}
<1>6. 0 \in Good
  <2>1. f[0] = [n \in Names |-> <<>>]
    BY <1>1, <1>3 DEF FoundStep
  <2>2. <<>> \in Seq(Records) /\ ToSet(<<>>) = {}
    BY DEF ToSet
  <2>3. f[0] \in V
    BY <2>1, <2>2
  <2>4. \A n \in Names : ToSet(f[0][n]) = {}
    BY <2>1, <2>2
  <2> HIDE DEF V, At
  <2> QED
    BY <1>3, <2>3, <2>4
<1>7. ASSUME NEW d \in 0 .. MaxDepth - 1, d \in Good PROVE d + 1 \in Good
  <2>1. /\ d + 1 \in 0 .. MaxDepth /\ d + 1 # 0 /\ (d + 1) - 1 = d /\ d \in 0 .. MaxDepth - 1
    BY <1>3
  <2>2. f[d + 1] = [n \in Names |-> FlattenSeq(LevelParts(db[n], type, f[d]))]
    BY <1>1, <2>1 DEF FoundStep
  <2>3. f[d] \in V /\ \A n \in Names : ToSet(f[d][n]) = IF d = 0 THEN {} ELSE At(d, n)
    BY <1>7
  <2>4. ASSUME NEW n \in Names
        PROVE  /\ f[d + 1][n] \in Seq(Records)
               /\ ToSet(f[d + 1][n]) = At(d + 1, n)
    <3>1. /\ FlattenSeq(LevelParts(db[n], type, f[d])) \in Seq(Records)
          /\ ToSet(FlattenSeq(LevelParts(db[n], type, f[d]))) =
               OfType(R, type, n) \cup
               (IF type = "CNAME" THEN {} ELSE UNION {ToSet(f[d][t]) : t \in Targets(R, n)})
      <4> DEFINE l == db[n]
                 g == f[d]
      <4>1. R \subseteq Records /\ l \in Seq(Records) /\ ToSet(l) = Under(R, n)
        BY <1>2
      <4>2. g \in [Names -> Seq(Records)]
        BY <2>3
      <4> HIDE DEF l, g
      <4>3. LevelFinds(R, n, l, type, g)
        BY <4>1, <4>2, LevelHas
      <4> QED
        BY <4>3 DEF l, g, LevelFinds
    <3>2. f[d + 1][n] = FlattenSeq(LevelParts(db[n], type, f[d]))
      BY <2>2
    <3>3. CASE type = "CNAME"
      BY <3>1, <3>2, <3>3
    <3>4. CASE type # "CNAME"
      <4>1. ToSet(f[d + 1][n]) =
              OfType(R, type, n) \cup UNION {ToSet(f[d][t]) : t \in Targets(R, n)}
        BY <3>1, <3>2, <3>4
      <4>2. At(d + 1, n) = {r \in R : r.type = type /\ Lower[r.owner] \in W(n)[d]}
        BY <2>1, <3>4
      <4>3. \A r : r \in OfType(R, type, n) <=> r \in R /\ r.type = type /\ Lower[r.owner] = n
        BY DEF OfType, Under
      <4>4. CASE d = 0
        <5>1. \A t \in Targets(R, n) : ToSet(f[d][t]) = {}
          BY <1>5, <2>3, <4>4
        <5>2. W(n)[d] = {n}
          BY <1>4, <2>1, <4>4
        <5>3. UNION {ToSet(f[d][t]) : t \in Targets(R, n)} = {}
          BY <5>1
        <5>4. \A r : r \in At(d + 1, n) <=> r \in R /\ r.type = type /\ Lower[r.owner] = n
          BY <4>2, <5>2
        <5> HIDE DEF At
        <5>5. ToSet(f[d + 1][n]) = At(d + 1, n)
          BY <4>1, <4>3, <5>3, <5>4
        <5> QED
          BY <3>1, <3>2, <5>5
      <4>5. CASE d # 0
        <5>1. \A t \in Targets(R, n) :
                 ToSet(f[d][t]) = {r \in R : r.type = type /\ Lower[r.owner] \in W(t)[d - 1]}
          BY <1>5, <2>3, <3>4, <4>5
        <5>2. W(n)[d] = {n} \cup UNION {W(t)[d - 1] : t \in Targets(R, n)}
          BY <1>4, <2>1, <4>5
        <5>3. \A r : r \in UNION {ToSet(f[d][t]) : t \in Targets(R, n)} <=>
                        /\ r \in R /\ r.type = type
                        /\ \E t \in Targets(R, n) : Lower[r.owner] \in W(t)[d - 1]
          BY <5>1
        <5>4. \A r : r \in At(d + 1, n) <=>
                        /\ r \in R /\ r.type = type
                        /\ \/ Lower[r.owner] = n
                           \/ \E t \in Targets(R, n) : Lower[r.owner] \in W(t)[d - 1]
          BY <4>2, <5>2
        <5> HIDE DEF At
        <5>5. ToSet(f[d + 1][n]) = At(d + 1, n)
          BY <4>1, <4>3, <5>3, <5>4
        <5> QED
          BY <3>1, <3>2, <5>5
      <4> QED
        BY <4>4, <4>5
    <3> QED
      BY <3>3, <3>4
  <2>5. f[d + 1] \in V
    BY <2>2, <2>4
  <2> QED
    BY <2>1, <2>4, <2>5
<1> HIDE DEF Good
<1>8. 0 .. MaxDepth \subseteq Good
  BY <1>3, <1>6, <1>7, UpToBound
<1>9. MaxDepth \in Good
  BY <1>3, <1>8
<1> DEFINE m == Lower[name]
           u == GetRecord(db, type, name)
<1>10. u \in Seq(Records) /\ ToSet(u) = At(MaxDepth, m)
  BY <1>1, <1>3, <1>9 DEF Good
<1>11. At(MaxDepth, m) = ExpectedRecords(R, type, name)
  <2>1. CASE type = "CNAME"
    BY <2>1 DEF ExpectedRecords, OfType, Under
  <2>2. CASE type # "CNAME"
    <3>1. W(m)[MaxDepth - 1] = Reached(R, m)
      BY <1>2, <1>3, WayExists DEF IsWay, W
    <3> QED
      BY <2>2, <3>1 DEF ExpectedRecords
  <2> QED
    BY <2>1, <2>2
<1> HIDE DEF u
<1>12. u # <<>> <=> ToSet(u) # {}
  <2>1. DOMAIN u = 1 .. Len(u) /\ Len(u) \in Nat
    BY <1>10, LenProperties
  <2>2. u = <<>> <=> Len(u) = 0
    BY <1>10, EmptySeq
  <2>3. Len(u) # 0 => 1 \in DOMAIN u
    BY <2>1
  <2>4. Len(u) = 0 => DOMAIN u = {}
    BY <2>1
  <2> QED
    BY <2>2, <2>3, <2>4 DEF ToSet
<1> QED
  BY <1>10, <1>11, <1>12 DEF u

-----------------------------------------------------------------------------
(* The inductive invariant of a load.                                       *)

(* The rules of the applications, in the order of the file.                *)
RulesOf(apps) == [i \in DOMAIN apps |-> CompiledRule(apps[i])]

(* An application that compileApps takes.                                  *)
IsGoodApp(app) == app.name # "nil" /\ ~ IsBadRule(app)

(* What each step has found in order.                                        *)
ServersGood(f)  == \A i \in DOMAIN f.servers : f.servers[i]
AppsGood(f)     == \A i \in DOMAIN f.apps : IsGoodApp(f.apps[i])
DatabaseGood(f) == \A i \in DOMAIN f.database : ToResources(f.database[i]) # <<>>

(* The file passed the checks of the stages that are behind.               *)
ChecksInv ==
    /\ stage \notin {"idle", "basics"} => file.basics = "ok"
    /\ stage \notin {"idle", "basics", "servers"} => ServersGood(file)
    /\ stage \notin {"idle", "basics", "servers", "apps"} => AppsGood(file)
    /\ stage \notin {"idle", "basics", "servers", "apps", "database"} => DatabaseGood(file)
    /\ stage \in {"whiteVerify", "blacklist", "blackVerify", "publish"} =>
          ~ HasBadFilter(file.whitelist)
    /\ stage \in {"blackVerify", "publish"} => ~ HasBadFilter(file.blacklist)

(* What it has made of it.                                                  *)
ListOf(entries) == Compiled(RawList(entries))

(* While goroutines run, the marks are those of the pairs that have run.   *)
Verifying(which) ==
    LET list == Prepared(RawList(file[which]))
    IN  /\ pairs \subseteq Pairs(list)
        /\ built[which] = Marked(list, Pairs(list) \ pairs)

(* The parts of the stages that are behind are what the file makes of them. *)
BuiltInv ==
    /\ stage \notin {"idle", "basics", "servers", "apps"} =>
          built.apps = SortedRules(RulesOf(file.apps))
    /\ stage \notin {"idle", "basics", "servers", "apps", "database"} =>
          built.database = Filled(file.database)
    /\ stage \in {"blacklist", "blackVerify", "publish"} =>
          built.whitelist = ListOf(file.whitelist)
    /\ stage = "publish" => built.blacklist = ListOf(file.blacklist)

(* No goroutine runs outside the two verifications.                        *)
VerifyInv ==
    /\ stage = "whiteVerify" => Verifying("whitelist")
    /\ stage = "blackVerify" => Verifying("blacklist")
    /\ stage \notin {"whiteVerify", "blackVerify"} => pairs = {}

(* A configuration every part of which is made of the file.                *)
IsMadeOf(c, f) ==
    /\ c.source = f
    /\ c.apps = SortedRules(RulesOf(f.apps))
    /\ c.database = Filled(f.database)
    /\ c.whitelist = ListOf(f.whitelist)
    /\ c.blacklist = ListOf(f.blacklist)

(* The configuration in force is valid and made of the file it names.       *)
FunctionOfTheFile ==
    config # NoConfig => IsMadeOf(config, config.source) /\ IsValid(config.source)

(* All of it.                                                              *)
IInv == TypeOK /\ ChecksInv /\ BuiltInv /\ VerifyInv /\ FunctionOfTheFile

(* A compiled list is a list.                                              *)
LEMMA ListOfTyped ==
    ASSUME NEW entries \in Seq(FilterEntries)
    PROVE  ListOf(entries) \in FilterLists
BY CompiledLists DEF ListOf

(* The rules of the applications are rules, with their paths.              *)
LEMMA RulesOfTyped ==
    ASSUME NEW apps \in Seq(AppEntries)
    PROVE  /\ RulesOf(apps) \in Seq(Rules) /\ DOMAIN RulesOf(apps) = DOMAIN apps
           /\ \A i \in DOMAIN apps : RulesOf(apps)[i].path = apps[i].path
<1>1. Len(apps) \in Nat /\ DOMAIN apps = 1 .. Len(apps)
  BY LenProperties
<1>2. ASSUME NEW i \in DOMAIN apps
      PROVE  CompiledRule(apps[i]) \in Rules /\ CompiledRule(apps[i]).path = apps[i].path
  <2>1. apps[i] \in AppEntries
    BY <1>1, ElementOfSeq
  <2>2. /\ apps[i].path \in ByteString
        /\ apps[i].whitelist \in Seq(FilterEntries) /\ apps[i].blacklist \in Seq(FilterEntries)
    BY <2>1 DEF AppEntries
  <2>3. ListOf(apps[i].whitelist) \in FilterLists /\ ListOf(apps[i].blacklist) \in FilterLists
    BY <2>2, ListOfTyped
  <2> QED
    BY <2>2, <2>3 DEF CompiledRule, Rules, ListOf
<1>3. RulesOf(apps) \in [1 .. Len(apps) -> Rules]
  BY <1>1, <1>2 DEF RulesOf
<1>4. RulesOf(apps) \in Seq(Rules)
  BY <1>1, <1>3, SeqDef
<1> QED
  BY <1>2, <1>4 DEF RulesOf

(* The check of the rules stops at the first bad one, if there is one.          *)
LEMMA FirstBadRuleFound ==
    ASSUME file \in ConfFiles
    PROVE  /\ FirstBadRule = 0 => AppsGood(file)
           /\ FirstBadRule # 0 =>
                 /\ FirstBadRule \in DOMAIN file.apps
                 /\ ~ IsGoodApp(file.apps[FirstBadRule])
<1> DEFINE I == {i \in 1 .. Len(file.apps) : file.apps[i].name = "nil" \/ IsBadRule(file.apps[i])}
<1>1. file.apps \in Seq(AppEntries)
  BY DEF ConfFiles
<1>2. Len(file.apps) \in Nat /\ DOMAIN file.apps = 1 .. Len(file.apps)
  BY <1>1, LenProperties
<1>3. FirstBadRule = IF I # {} THEN Min(I) ELSE 0
  BY DEF FirstBadRule, SelectInSeq
<1>4. I \subseteq Nat /\ I \subseteq 1 .. Len(file.apps)
  BY <1>2
<1>5. \A i \in DOMAIN file.apps : i \in I <=> ~ IsGoodApp(file.apps[i])
  BY <1>2 DEF IsGoodApp
<1> HIDE DEF I
<1>6. CASE I = {}
  BY <1>3, <1>5, <1>6 DEF AppsGood
<1>7. CASE I # {}
  <2>1. PICK m \in I : \A k \in I : m <= k
    BY <1>4, <1>7, LeastNatural
  <2>2. Min(I) \in I
    BY <2>1 DEF Min
  <2>3. FirstBadRule \in I /\ FirstBadRule \in 1 .. Len(file.apps)
    BY <1>3, <1>4, <1>7, <2>2
  <2>4. FirstBadRule # 0
    BY <1>2, <2>3
  <2> QED
    BY <1>2, <1>5, <2>3, <2>4
<1> QED
  BY <1>6, <1>7

(* A valid file is one that all steps find good.                              *)
LEMMA ValidMeans ==
    ASSUME NEW f \in ConfFiles
    PROVE  IsValid(f) <=>
              /\ f.basics = "ok" /\ ServersGood(f) /\ AppsGood(f) /\ DatabaseGood(f)
              /\ ~ HasBadFilter(f.whitelist) /\ ~ HasBadFilter(f.blacklist)
<1> DEFINE IsClean(list) == \A i \in DOMAIN list : list[i].pattern # <<>> \/ list[i].disabled
           lists == {f.whitelist, f.blacklist} \cup
                    UNION {{f.apps[i].whitelist, f.apps[i].blacklist} : i \in DOMAIN f.apps}
<1>1. \A list : IsClean(list) <=> ~ HasBadFilter(list)
  BY DEF HasBadFilter, IsEnabled
<1>2. (\A list \in lists : IsClean(list)) <=>
         /\ IsClean(f.whitelist) /\ IsClean(f.blacklist)
         /\ \A i \in DOMAIN f.apps : IsClean(f.apps[i].whitelist) /\ IsClean(f.apps[i].blacklist)
  <2> HIDE DEF IsClean
  <2>1. ASSUME \A list \in lists : IsClean(list), NEW i \in DOMAIN f.apps
        PROVE  IsClean(f.apps[i].whitelist) /\ IsClean(f.apps[i].blacklist)
    <3>1. f.apps[i].whitelist \in lists /\ f.apps[i].blacklist \in lists
      OBVIOUS
    <3> HIDE DEF lists
    <3> QED
      BY <2>1, <3>1
  <2>2. (\A list \in lists : IsClean(list)) => IsClean(f.whitelist) /\ IsClean(f.blacklist)
    OBVIOUS
  <2>3. ASSUME IsClean(f.whitelist), IsClean(f.blacklist),
               \A i \in DOMAIN f.apps : IsClean(f.apps[i].whitelist) /\ IsClean(f.apps[i].blacklist),
               NEW list \in lists
        PROVE  IsClean(list)
    <3>1. \/ list = f.whitelist \/ list = f.blacklist
          \/ \E i \in DOMAIN f.apps : list = f.apps[i].whitelist \/ list = f.apps[i].blacklist
      OBVIOUS
    <3> HIDE DEF lists
    <3> QED
      BY <2>3, <3>1
  <2> HIDE DEF lists
  <2> QED
    BY <2>1, <2>2, <2>3
<1>3. AppsGood(f) <=>
         /\ \A i \in DOMAIN f.apps : f.apps[i].name \notin {"nil", "blank"} /\ f.apps[i].path # <<>>
         /\ \A i \in DOMAIN f.apps : IsClean(f.apps[i].whitelist) /\ IsClean(f.apps[i].blacklist)
  <2> HIDE DEF IsClean
  <2> QED
    BY <1>1 DEF AppsGood, IsGoodApp, IsBadRule
<1>4. DatabaseGood(f) <=>
         \A i \in DOMAIN f.database : f.database[i].valid /\ f.database[i].type \in RecordTypes
  <2>1. f.database \in Seq(DatabaseEntries)
    BY DEF ConfFiles
  <2>2. \A i \in DOMAIN f.database : f.database[i] \in DatabaseEntries
    BY <2>1, LenProperties, ElementOfSeq
  <2> QED
    BY <2>2, ToResourcesTyped DEF DatabaseGood
<1>5. IsValid(f) <=>
         /\ f.basics = "ok" /\ ServersGood(f)
         /\ \A i \in DOMAIN f.apps : f.apps[i].name \notin {"nil", "blank"} /\ f.apps[i].path # <<>>
         /\ \A i \in DOMAIN f.database : f.database[i].valid /\ f.database[i].type \in RecordTypes
         /\ \A list \in lists : IsClean(list)
  BY DEF IsValid, ServersGood
<1> HIDE DEF IsClean, lists
<1> QED
  BY <1>1, <1>2, <1>3, <1>4, <1>5

-----------------------------------------------------------------------------
(* The steps of a list.                                                     *)

(* Marks do not change which pairs there are.                              *)
LEMMA PairsStay ==
    ASSUME NEW list \in FilterLists, NEW done
    PROVE  Pairs(Marked(list, done)) = Pairs(list) /\ Marked(list, done) \in FilterLists
<1>1. /\ DOMAIN list.filters = 1 .. Len(list.filters)
      /\ IsMarked(Marked(list, done), list, done)
  BY MarkedTyped
<1> QED
  BY <1>1 DEF IsMarked, Pairs

(* A list before the goroutines, between them, and behind them.               *)
LEMMA ListStarts ==
    ASSUME NEW entries \in Seq(FilterEntries)
    PROVE  LET list == Prepared(RawList(entries))
           IN  list \in FilterLists /\ list = Marked(list, Pairs(list) \ Pairs(list))
<1> DEFINE list == Prepared(RawList(entries))
<1>1. Fresh(list)
  BY PreparedLists
<1> HIDE DEF list
<1>2. Pairs(list) \ Pairs(list) = {}
  OBVIOUS
<1>3. list \in FilterLists /\ Marked(list, {}) = list
  BY <1>1, NoneMarked DEF Fresh
<1> QED
  BY <1>2, <1>3 DEF list

(* A goroutine that ends adds its pair to those that have run.             *)
LEMMA ListGoesOn ==
    ASSUME NEW list \in FilterLists, NEW left \in SUBSET Pairs(list), NEW p \in left
    PROVE  Verified(Marked(list, Pairs(list) \ left), p) =
              Marked(list, Pairs(list) \ (left \ {p}))
<1>1. Pairs(list) \ (left \ {p}) = (Pairs(list) \ left) \cup {p}
  OBVIOUS
<1>2. p \in Pairs(list)
  OBVIOUS
<1> QED
  BY <1>1, <1>2, VerifiedMarks

(* When all have run the list is compiled.                                 *)
LEMMA ListEnds ==
    ASSUME NEW entries
    PROVE  LET list == Prepared(RawList(entries))
           IN  Finished(Marked(list, Pairs(list) \ {})) = ListOf(entries)
<1>1. \A S : S \ {} = S
  OBVIOUS
<1> QED
  BY <1>1, CompiledIsFinished DEF ListOf

-----------------------------------------------------------------------------
(* Every step keeps the invariant.                                          *)

(* The configuration that compile starts with has the right types.         *)
LEMMA NothingBuiltTyped ==
    ASSUME NEW f \in ConfFiles
    PROVE  [NothingBuilt EXCEPT !.source = f] \in Configs
<1>1. NewFilterList \in FilterLists
  BY DEF NewFilterList, FilterLists
<1>2. <<>> \in Seq(Rules) /\ <<>> \in Seq(Records)
  OBVIOUS
<1>3. NewDatabase \in Databases
  BY <1>2 DEF NewDatabase, Databases
<1> QED
  BY <1>1, <1>2, <1>3 DEF NothingBuilt, Configs

(* Before the first load there is nothing to get wrong.                    *)
LEMMA InitIInv == Init => IInv
<1> SUFFICES ASSUME Init PROVE IInv
  OBVIOUS
<1> USE DEF Init
<1>1. file \in ConfFiles
  BY FilesAssumption
<1>2. [NothingBuilt EXCEPT !.source = file] = NothingBuilt
  BY DEF NothingBuilt
<1>3. built \in Configs /\ built.source = file
  BY <1>1, <1>2, NothingBuiltTyped DEF NothingBuilt
<1>4. TypeOK
  <2>1. 0 \in 0 .. MaxLoads
    BY LoadsAssumption
  <2>2. /\ stage \in Stages /\ pairs = {} /\ config = NoConfig /\ loads = 0
        /\ panicked \in BOOLEAN
    BY DEF Stages
  <2> QED
    BY ONLY <1>1, <1>3, <2>1, <2>2 DEF TypeOK
<1> QED
  BY <1>4 DEF IInv, ChecksInv, BuiltInv, VerifyInv, FunctionOfTheFile

(* A step that changes nothing keeps the invariant.                        *)
LEMMA StutterStep == ASSUME IInv, UNCHANGED vars PROVE IInv'
<1> USE DEF vars
<1>1. TypeOK'
  BY DEF IInv, TypeOK, Configs
<1>2. ChecksInv' /\ BuiltInv' /\ FunctionOfTheFile'
  BY DEF IInv, ChecksInv, BuiltInv, FunctionOfTheFile
<1>3. VerifyInv'
  BY DEF IInv, VerifyInv, Verifying
<1> QED
  BY <1>1, <1>2, <1>3 DEF IInv

(* Reading a file starts over.                                             *)
LEMMA ReadStep ==
    ASSUME IInv, NEW f \in (IF loads = 0 THEN {file} ELSE Reloads), Read(f)
    PROVE  IInv'
<1> USE DEF Read, IInv
<1>1. f \in ConfFiles
  BY FilesAssumption DEF TypeOK
<1>2. [NothingBuilt EXCEPT !.source = f] \in Configs
      /\ [NothingBuilt EXCEPT !.source = f].source = f
  BY <1>1, NothingBuiltTyped DEF NothingBuilt
<1>3. pairs = {} /\ pairs' = {}
  BY DEF VerifyInv
<1>4. loads' \in 0 .. MaxLoads
  BY LoadsAssumption DEF TypeOK
<1>5. TypeOK'
  BY <1>1, <1>2, <1>3, <1>4 DEF TypeOK, Stages
<1>6. ChecksInv' /\ BuiltInv' /\ VerifyInv'
  BY <1>3 DEF ChecksInv, BuiltInv, VerifyInv
<1>7. FunctionOfTheFile'
  BY DEF FunctionOfTheFile
<1> QED
  BY <1>5, <1>6, <1>7

(* A file that cannot be read changes nothing.                             *)
LEMMA ReadFailsStep == ASSUME IInv, ReadFails PROVE IInv'
<1> USE DEF ReadFails, IInv
<1>1. loads' \in 0 .. MaxLoads
  BY LoadsAssumption DEF TypeOK
<1>2. TypeOK'
  BY <1>1 DEF TypeOK
<1>3. ChecksInv' /\ BuiltInv' /\ FunctionOfTheFile'
  BY DEF ChecksInv, BuiltInv, FunctionOfTheFile
<1>4. VerifyInv'
  BY DEF VerifyInv, Verifying
<1> QED
  BY <1>2, <1>3, <1>4

(* An error leaves the configuration that is in force.                     *)
LEMMA FailStep ==
    ASSUME IInv, NEW from \in Stages \ {"whiteVerify", "blackVerify"}, Fail(from)
    PROVE  IInv'
<1> USE DEF Fail, Goto, IInv
<1>1. pairs = {} /\ pairs' = {} /\ stage' = "idle"
  BY DEF VerifyInv
<1>2. TypeOK'
  BY <1>1 DEF TypeOK, Stages
<1>3. ChecksInv' /\ BuiltInv' /\ VerifyInv' /\ FunctionOfTheFile'
  BY <1>1 DEF ChecksInv, BuiltInv, VerifyInv, FunctionOfTheFile
<1> QED
  BY <1>2, <1>3

(* So does a panic.                                                        *)
LEMMA PanicStep == ASSUME IInv, NEW from, Panic(from) PROVE IInv'
<1> USE DEF Panic, Goto, IInv
<1>1. TypeOK'
  BY DEF TypeOK
<1>2. ChecksInv' /\ BuiltInv' /\ FunctionOfTheFile'
  BY DEF ChecksInv, BuiltInv, FunctionOfTheFile
<1>3. VerifyInv'
  BY DEF VerifyInv, Verifying
<1> QED
  BY <1>1, <1>2, <1>3

(* The checks of addresses and sections.                                   *)
LEMMA CheckBasicsStep == ASSUME IInv, CheckBasics PROVE IInv'
<1>1. CASE Fail("basics")
  BY <1>1, FailStep DEF Stages
<1>2. CASE Panic("basics")
  BY <1>2, PanicStep
<1>3. CASE file.basics = "ok" /\ Goto("basics", "servers") /\ UNCHANGED <<built, pairs, config, panicked>>
  <2> USE <1>3 DEF Goto, IInv
  <2>1. TypeOK'
    BY DEF TypeOK, Stages
  <2>2. ChecksInv'
    BY DEF ChecksInv
  <2>3. BuiltInv' /\ FunctionOfTheFile'
    BY DEF BuiltInv, FunctionOfTheFile
  <2>4. VerifyInv'
    BY DEF VerifyInv
  <2> QED
    BY <2>1, <2>2, <2>3, <2>4
<1> QED
  BY <1>1, <1>2, <1>3 DEF CheckBasics

(* The servers.                                                            *)
LEMMA CompileServersStep == ASSUME IInv, CompileServers PROVE IInv'
<1>1. CASE \E i \in DOMAIN file.servers : ~ file.servers[i]
  <2>1. Fail("servers")
    BY <1>1 DEF CompileServers
  <2> QED
    BY <2>1, FailStep DEF Stages
<1>2. CASE ~ \E i \in DOMAIN file.servers : ~ file.servers[i]
  <2>1. Goto("servers", "apps") /\ UNCHANGED <<built, pairs, config, panicked>>
    BY <1>2 DEF CompileServers
  <2> USE <2>1 DEF Goto, IInv
  <2>2. TypeOK'
    BY DEF TypeOK, Stages
  <2>3. ServersGood(file')
    BY <1>2 DEF ServersGood
  <2>4. ChecksInv'
    BY <2>3 DEF ChecksInv
  <2>5. BuiltInv' /\ FunctionOfTheFile'
    BY DEF BuiltInv, FunctionOfTheFile
  <2>6. VerifyInv'
    BY DEF VerifyInv
  <2> QED
    BY <2>2, <2>4, <2>5, <2>6
<1> QED
  BY <1>1, <1>2

(* The applications.                                                       *)
LEMMA CompileAppsStep == ASSUME IInv, CompileApps PROVE IInv'
<1>1. CASE FirstBadRule # 0
  <2>1. Panic("apps") \/ Fail("apps")
    BY <1>1 DEF CompileApps
  <2> QED
    BY <2>1, FailStep, PanicStep DEF Stages
<1>2. CASE FirstBadRule = 0
  <2> DEFINE apps == SortedRules([i \in DOMAIN file.apps |-> CompiledRule(file.apps[i])])
  <2>1. /\ Goto("apps", "database") /\ built' = [built EXCEPT !.apps = apps]
        /\ UNCHANGED <<pairs, config, panicked>>
    BY <1>2 DEF CompileApps
  <2>2. apps = SortedRules(RulesOf(file.apps))
    BY DEF RulesOf
  <2>3. file \in ConfFiles /\ file.apps \in Seq(AppEntries)
    BY DEF IInv, TypeOK, ConfFiles
  <2>4. apps \in Seq(Rules)
    BY <2>2, <2>3, RulesOfTyped, SortedRulesAre
  <2> HIDE DEF apps
  <2>5. /\ built' \in Configs /\ built'.source = built.source /\ built'.apps = apps
        /\ built'.whitelist = built.whitelist /\ built'.blacklist = built.blacklist
    BY <2>1, <2>4 DEF IInv, TypeOK, Configs
  <2>6. AppsGood(file)
    BY <1>2, <2>3, FirstBadRuleFound
  <2> USE <2>1 DEF Goto, IInv
  <2>7. TypeOK'
    BY <2>5 DEF TypeOK, Stages
  <2>8. ChecksInv'
    BY <2>6 DEF ChecksInv
  <2>9. BuiltInv'
    BY <2>2, <2>5 DEF BuiltInv
  <2>10. FunctionOfTheFile'
    BY DEF FunctionOfTheFile
  <2>11. VerifyInv'
    BY DEF VerifyInv
  <2> QED
    BY <2>7, <2>8, <2>9, <2>10, <2>11
<1> QED
  BY <1>1, <1>2

(* The database.                                                           *)
LEMMA CompileDatabaseStep == ASSUME IInv, CompileDatabase PROVE IInv'
<1>1. CASE \E i \in DOMAIN file.database : ToResources(file.database[i]) = <<>>
  <2>1. Fail("database")
    BY <1>1 DEF CompileDatabase
  <2> QED
    BY <2>1, FailStep DEF Stages
<1>2. CASE ~ \E i \in DOMAIN file.database : ToResources(file.database[i]) = <<>>
  <2>1. /\ Goto("database", "whitelist")
        /\ built' = [built EXCEPT !.database = Filled(file.database)]
        /\ UNCHANGED <<pairs, config, panicked>>
    BY <1>2 DEF CompileDatabase, Filled
  <2>2. file.database \in Seq(DatabaseEntries)
    BY DEF IInv, TypeOK, ConfFiles
  <2>3. Filled(file.database) \in Databases
    BY <2>2, FilledTyped
  <2>4. /\ built' \in Configs /\ built'.source = built.source /\ built'.apps = built.apps
        /\ built'.database = Filled(file.database)
        /\ built'.whitelist = built.whitelist /\ built'.blacklist = built.blacklist
    BY <2>1, <2>3 DEF IInv, TypeOK, Configs
  <2>5. DatabaseGood(file)
    BY <1>2 DEF DatabaseGood
  <2> USE <2>1 DEF Goto, IInv
  <2>6. TypeOK'
    BY <2>4 DEF TypeOK, Stages
  <2>7. ChecksInv'
    BY <2>5 DEF ChecksInv
  <2>8. BuiltInv'
    BY <2>4 DEF BuiltInv
  <2>9. FunctionOfTheFile'
    BY DEF FunctionOfTheFile
  <2>10. VerifyInv'
    BY DEF VerifyInv
  <2> QED
    BY <2>6, <2>7, <2>8, <2>9, <2>10
<1> QED
  BY <1>1, <1>2

(* The step that starts the goroutines of a list.                             *)
LEMMA StartWhiteStep == ASSUME IInv, StartList("whitelist", "whiteVerify") PROVE IInv'
<1> DEFINE entries == file.whitelist
           list == Prepared(RawList(entries))
<1>1. CASE HasBadFilter(entries)
  <2>1. Fail("whitelist")
    BY <1>1 DEF StartList
  <2> QED
    BY <2>1, FailStep DEF Stages
<1>2. CASE ~ HasBadFilter(entries)
  <2>1. /\ Goto("whitelist", "whiteVerify") /\ built' = [built EXCEPT !.whitelist = list]
        /\ pairs' = Pairs(list) /\ UNCHANGED <<config, panicked>>
    BY <1>2 DEF StartList
  <2>2. entries \in Seq(FilterEntries)
    BY DEF IInv, TypeOK, ConfFiles
  <2>3. list \in FilterLists /\ list = Marked(list, Pairs(list) \ Pairs(list))
    BY <2>2, ListStarts
  <2>4. list = Prepared(RawList(file.whitelist))
    OBVIOUS
  <2> HIDE DEF list
  <2>5. /\ built' \in Configs /\ built'.source = built.source /\ built'.whitelist = list
        /\ built'.apps = built.apps /\ built'.database = built.database
    BY <2>1, <2>3 DEF IInv, TypeOK, Configs
  <2> USE <2>1 DEF Goto, IInv
  <2>6. TypeOK'
    BY <2>5 DEF TypeOK, Stages
  <2>7. ChecksInv'
    BY <1>2 DEF ChecksInv
  <2>8. BuiltInv'
    BY <2>5 DEF BuiltInv
  <2>9. FunctionOfTheFile'
    BY DEF FunctionOfTheFile
  <2>10. Verifying("whitelist")'
    BY <2>3, <2>4, <2>5 DEF Verifying
  <2>11. VerifyInv'
    BY <2>10 DEF VerifyInv
  <2> QED
    BY <2>6, <2>7, <2>8, <2>9, <2>11
<1> QED
  BY <1>1, <1>2

(* The blacklist starts when the whitelist stands.                         *)
LEMMA StartBlackStep == ASSUME IInv, StartList("blacklist", "blackVerify") PROVE IInv'
<1> DEFINE entries == file.blacklist
           list == Prepared(RawList(entries))
<1>1. CASE HasBadFilter(entries)
  <2>1. Fail("blacklist")
    BY <1>1 DEF StartList
  <2> QED
    BY <2>1, FailStep DEF Stages
<1>2. CASE ~ HasBadFilter(entries)
  <2>1. /\ Goto("blacklist", "blackVerify") /\ built' = [built EXCEPT !.blacklist = list]
        /\ pairs' = Pairs(list) /\ UNCHANGED <<config, panicked>>
    BY <1>2 DEF StartList
  <2>2. entries \in Seq(FilterEntries)
    BY DEF IInv, TypeOK, ConfFiles
  <2>3. list \in FilterLists /\ list = Marked(list, Pairs(list) \ Pairs(list))
    BY <2>2, ListStarts
  <2>4. list = Prepared(RawList(file.blacklist))
    OBVIOUS
  <2> HIDE DEF list
  <2>5. /\ built' \in Configs /\ built'.source = built.source /\ built'.blacklist = list
        /\ built'.apps = built.apps /\ built'.database = built.database
        /\ built'.whitelist = built.whitelist
    BY <2>1, <2>3 DEF IInv, TypeOK, Configs
  <2> USE <2>1 DEF Goto, IInv
  <2>6. TypeOK'
    BY <2>5 DEF TypeOK, Stages
  <2>7. ChecksInv'
    BY <1>2 DEF ChecksInv
  <2>8. BuiltInv'
    BY <2>5 DEF BuiltInv
  <2>9. FunctionOfTheFile'
    BY DEF FunctionOfTheFile
  <2>10. Verifying("blacklist")'
    BY <2>3, <2>4, <2>5 DEF Verifying
  <2>11. VerifyInv'
    BY <2>10 DEF VerifyInv
  <2> QED
    BY <2>6, <2>7, <2>8, <2>9, <2>11
<1> QED
  BY <1>1, <1>2

(* One goroutine.                                                            *)
LEMMA VerifyWhiteStep ==
    ASSUME IInv, NEW p \in pairs, VerifyPair("whitelist", "whiteVerify", p)
    PROVE  IInv'
<1> DEFINE list == Prepared(RawList(file.whitelist))
           left == pairs \ {p}
<1>1. /\ Goto("whiteVerify", "whiteVerify") /\ pairs' = left /\ UNCHANGED <<config, panicked>>
      /\ built' = [built EXCEPT !.whitelist = Verified(@, p)]
  BY DEF VerifyPair
<1>2. file.whitelist \in Seq(FilterEntries) /\ built \in Configs
  BY DEF IInv, TypeOK, ConfFiles
<1>3. list \in FilterLists
  BY <1>2, ListStarts
<1>4. pairs \subseteq Pairs(list) /\ built.whitelist = Marked(list, Pairs(list) \ pairs)
  BY <1>1 DEF IInv, VerifyInv, Verifying, Goto
<1>5. list = Prepared(RawList(file.whitelist))
  OBVIOUS
<1> HIDE DEF list
<1>6. Verified(built.whitelist, p) = Marked(list, Pairs(list) \ left)
  BY <1>3, <1>4, ListGoesOn
<1>7. /\ Marked(list, Pairs(list) \ left) \in FilterLists
      /\ Pairs(Marked(list, Pairs(list) \ left)) = Pairs(list)
  BY <1>3, PairsStay
<1>8. /\ built' \in Configs /\ built'.source = built.source
      /\ built'.whitelist = Marked(list, Pairs(list) \ left)
      /\ built'.apps = built.apps /\ built'.database = built.database
  BY <1>1, <1>2, <1>6, <1>7 DEF Configs
<1> USE <1>1 DEF Goto, IInv
<1>9. TypeOK'
  BY <1>4, <1>7, <1>8 DEF TypeOK, Stages
<1>10. ChecksInv'
  BY DEF ChecksInv
<1>11. BuiltInv'
  BY <1>8 DEF BuiltInv
<1>12. FunctionOfTheFile'
  BY DEF FunctionOfTheFile
<1>13. Verifying("whitelist")'
  BY <1>4, <1>5, <1>8 DEF Verifying
<1>14. VerifyInv'
  BY <1>13 DEF VerifyInv
<1> QED
  BY <1>9, <1>10, <1>11, <1>12, <1>14

(* A goroutine of the blacklist ends.                                      *)
LEMMA VerifyBlackStep ==
    ASSUME IInv, NEW p \in pairs, VerifyPair("blacklist", "blackVerify", p)
    PROVE  IInv'
<1> DEFINE list == Prepared(RawList(file.blacklist))
           left == pairs \ {p}
<1>1. /\ Goto("blackVerify", "blackVerify") /\ pairs' = left /\ UNCHANGED <<config, panicked>>
      /\ built' = [built EXCEPT !.blacklist = Verified(@, p)]
  BY DEF VerifyPair
<1>2. file.blacklist \in Seq(FilterEntries) /\ built \in Configs
  BY DEF IInv, TypeOK, ConfFiles
<1>3. list \in FilterLists
  BY <1>2, ListStarts
<1>4. pairs \subseteq Pairs(list) /\ built.blacklist = Marked(list, Pairs(list) \ pairs)
  BY <1>1 DEF IInv, VerifyInv, Verifying, Goto
<1>5. list = Prepared(RawList(file.blacklist))
  OBVIOUS
<1> HIDE DEF list
<1>6. Verified(built.blacklist, p) = Marked(list, Pairs(list) \ left)
  BY <1>3, <1>4, ListGoesOn
<1>7. /\ Marked(list, Pairs(list) \ left) \in FilterLists
      /\ Pairs(Marked(list, Pairs(list) \ left)) = Pairs(list)
  BY <1>3, PairsStay
<1>8. /\ built' \in Configs /\ built'.source = built.source
      /\ built'.blacklist = Marked(list, Pairs(list) \ left)
      /\ built'.apps = built.apps /\ built'.database = built.database
      /\ built'.whitelist = built.whitelist
  BY <1>1, <1>2, <1>6, <1>7 DEF Configs
<1> USE <1>1 DEF Goto, IInv
<1>9. TypeOK'
  BY <1>4, <1>7, <1>8 DEF TypeOK, Stages
<1>10. ChecksInv'
  BY DEF ChecksInv
<1>11. BuiltInv'
  BY <1>8 DEF BuiltInv
<1>12. FunctionOfTheFile'
  BY DEF FunctionOfTheFile
<1>13. Verifying("blacklist")'
  BY <1>4, <1>5, <1>8 DEF Verifying
<1>14. VerifyInv'
  BY <1>13 DEF VerifyInv
<1> QED
  BY <1>9, <1>10, <1>11, <1>12, <1>14

(* The step behind wg.Wait.                                                  *)
LEMMA FinishWhiteStep ==
    ASSUME IInv, FinishList("whitelist", "whiteVerify", "blacklist")
    PROVE  IInv'
<1> DEFINE list == Prepared(RawList(file.whitelist))
<1>1. /\ Goto("whiteVerify", "blacklist") /\ pairs = {} /\ UNCHANGED <<pairs, config, panicked>>
      /\ built' = [built EXCEPT !.whitelist = Finished(@)]
  BY DEF FinishList
<1>2. file.whitelist \in Seq(FilterEntries) /\ built \in Configs
  BY DEF IInv, TypeOK, ConfFiles
<1>3. built.whitelist = Marked(list, Pairs(list) \ {})
  BY <1>1 DEF IInv, VerifyInv, Verifying, Goto
<1>4. Finished(built.whitelist) = ListOf(file.whitelist)
  BY <1>3, ListEnds
<1>5. ListOf(file.whitelist) \in FilterLists
  BY <1>2, ListOfTyped
<1>6. /\ built' \in Configs /\ built'.source = built.source
      /\ built'.whitelist = ListOf(file.whitelist)
      /\ built'.apps = built.apps /\ built'.database = built.database
  BY <1>1, <1>2, <1>4, <1>5 DEF Configs
<1> USE <1>1 DEF Goto, IInv
<1>7. TypeOK'
  BY <1>6 DEF TypeOK, Stages
<1>8. ChecksInv'
  BY DEF ChecksInv
<1>9. BuiltInv'
  BY <1>6 DEF BuiltInv
<1>10. FunctionOfTheFile'
  BY DEF FunctionOfTheFile
<1>11. VerifyInv'
  BY DEF VerifyInv
<1> QED
  BY <1>7, <1>8, <1>9, <1>10, <1>11

(* The blacklist is compiled.                                              *)
LEMMA FinishBlackStep ==
    ASSUME IInv, FinishList("blacklist", "blackVerify", "publish")
    PROVE  IInv'
<1> DEFINE list == Prepared(RawList(file.blacklist))
<1>1. /\ Goto("blackVerify", "publish") /\ pairs = {} /\ UNCHANGED <<pairs, config, panicked>>
      /\ built' = [built EXCEPT !.blacklist = Finished(@)]
  BY DEF FinishList
<1>2. file.blacklist \in Seq(FilterEntries) /\ built \in Configs
  BY DEF IInv, TypeOK, ConfFiles
<1>3. built.blacklist = Marked(list, Pairs(list) \ {})
  BY <1>1 DEF IInv, VerifyInv, Verifying, Goto
<1>4. Finished(built.blacklist) = ListOf(file.blacklist)
  BY <1>3, ListEnds
<1>5. ListOf(file.blacklist) \in FilterLists
  BY <1>2, ListOfTyped
<1>6. /\ built' \in Configs /\ built'.source = built.source
      /\ built'.blacklist = ListOf(file.blacklist) /\ built'.whitelist = built.whitelist
      /\ built'.apps = built.apps /\ built'.database = built.database
  BY <1>1, <1>2, <1>4, <1>5 DEF Configs
<1> USE <1>1 DEF Goto, IInv
<1>7. TypeOK'
  BY <1>6 DEF TypeOK, Stages
<1>8. ChecksInv'
  BY DEF ChecksInv
<1>9. BuiltInv'
  BY <1>6 DEF BuiltInv
<1>10. FunctionOfTheFile'
  BY DEF FunctionOfTheFile
<1>11. VerifyInv'
  BY DEF VerifyInv
<1> QED
  BY <1>7, <1>8, <1>9, <1>10, <1>11

(* What is published is valid, and all of it was made of the file.             *)
LEMMA PublishedFits ==
    ASSUME IInv, stage = "publish"
    PROVE  /\ IsMadeOf(built, file) /\ IsValid(file)
           /\ built \in Configs /\ built.source = file /\ built # NoConfig
<1>1. file \in ConfFiles /\ built \in Configs /\ built.source = file
  BY DEF IInv, TypeOK
<1>2. IsMadeOf(built, file)
  BY <1>1 DEF IInv, BuiltInv, IsMadeOf
<1>3. IsValid(file)
  BY <1>1, ValidMeans DEF IInv, ChecksInv
<1> QED
  BY <1>1, <1>2, <1>3, NilAssumption

(* What was built is put into force.                                       *)
LEMMA PublishStep == ASSUME IInv, Publish PROVE IInv'
<1> USE DEF Publish, Goto
<1>1. /\ IsMadeOf(built, file) /\ IsValid(file)
      /\ built \in Configs /\ built.source = file /\ built # NoConfig
  BY PublishedFits
<1>2. FunctionOfTheFile'
  BY <1>1 DEF FunctionOfTheFile
<1> USE DEF IInv
<1>3. TypeOK'
  BY <1>1 DEF TypeOK, Stages
<1>4. ChecksInv' /\ BuiltInv'
  BY DEF ChecksInv, BuiltInv
<1>5. VerifyInv'
  BY DEF VerifyInv
<1> QED
  BY <1>2, <1>3, <1>4, <1>5

(* Every step keeps the invariant.                                         *)
LEMMA StepIInv == IInv /\ [Next]_vars => IInv'
<1> SUFFICES ASSUME IInv, [Next]_vars PROVE IInv'
  OBVIOUS
<1>1. CASE UNCHANGED vars
  BY <1>1, StutterStep
<1>2. CASE \E f \in (IF loads = 0 THEN {file} ELSE Reloads) : Read(f)
  BY <1>2, ReadStep
<1>3. CASE ReadFails
  BY <1>3, ReadFailsStep
<1>4. CASE CheckBasics \/ CompileServers \/ CompileApps \/ CompileDatabase
  BY <1>4, CheckBasicsStep, CompileServersStep, CompileAppsStep, CompileDatabaseStep
<1>5. CASE StartList("whitelist", "whiteVerify") \/ StartList("blacklist", "blackVerify")
  BY <1>5, StartWhiteStep, StartBlackStep
<1>6. CASE \E p \in pairs : \/ VerifyPair("whitelist", "whiteVerify", p)
                            \/ VerifyPair("blacklist", "blackVerify", p)
  BY <1>6, VerifyWhiteStep, VerifyBlackStep
<1>7. CASE FinishList("whitelist", "whiteVerify", "blacklist")
  BY <1>7, FinishWhiteStep
<1>8. CASE FinishList("blacklist", "blackVerify", "publish")
  BY <1>8, FinishBlackStep
<1>9. CASE Publish
  BY <1>9, PublishStep
<1> QED
  BY <1>1, <1>2, <1>3, <1>4, <1>5, <1>6, <1>7, <1>8, <1>9 DEF Next

-----------------------------------------------------------------------------
(* The theorems.                                                            *)

(* A load builds what the file determines, whatever order the goroutines run   *)
(* in: LoadConfig of common/common.go.                                       *)
THEOREM Invariant == Spec => []IInv
<1>1. Init => IInv
  BY InitIInv
<1>2. IInv /\ [Next]_vars => IInv'
  BY StepIInv
<1> QED
  BY <1>1, <1>2, PTL DEF Spec

(* Whatever is loaded has the types of config.Config.                          *)
THEOREM TypeCorrect == Spec => []TypeOK
<1>1. IInv => TypeOK
  BY DEF IInv
<1> QED
  BY <1>1, Invariant, PTL

(* The configuration in force, every part of it, is a function of its file:  *)
(* neither the file of an earlier load nor the order of the goroutines shows. *)
THEOREM MadeOfTheFile == Spec => []FunctionOfTheFile
<1>1. IInv => FunctionOfTheFile
  BY DEF IInv
<1> QED
  BY <1>1, Invariant, PTL

(* FindFilter returns the filter the file determines: Compile and FindFilter     *)
(* of config/filterList.go.                                                 *)
THEOREM FirstIsFound == Spec => []FindsTheFirst
<1>1. IInv => FindsTheFirst
  <2> SUFFICES ASSUME IInv, config # NoConfig, NEW which \in {"whitelist", "blacklist"}, NEW t \in Texts
               PROVE  FoundFilter(config[which], t) = ExpectedFilter(config.source[which], t)
    BY DEF FindsTheFirst, InForce
  <2>1. config \in Configs
    BY DEF IInv, TypeOK
  <2>2. /\ config.whitelist = Compiled(RawList(config.source.whitelist))
        /\ config.blacklist = Compiled(RawList(config.source.blacklist))
    BY DEF IInv, FunctionOfTheFile, IsMadeOf, ListOf
  <2>3. /\ config.source.whitelist \in Seq(FilterEntries)
        /\ config.source.blacklist \in Seq(FilterEntries)
    BY <2>1 DEF Configs, ConfFiles
  <2>4. CASE which = "whitelist"
    BY <2>2, <2>3, <2>4, FoundIsExpected
  <2>5. CASE which = "blacklist"
    BY <2>2, <2>3, <2>5, FoundIsExpected
  <2> QED
    BY <2>4, <2>5
<1> QED
  BY <1>1, Invariant, PTL

(* An application gets the rule of its path, else that of "*", else none: Sort   *)
(* and FindName of config/appList.go.                                        *)
THEOREM RuleIsFound == Spec => []RuleOfThePath
<1>1. IInv => RuleOfThePath
  <2> SUFFICES ASSUME IInv, config # NoConfig, NEW path \in Paths
               PROVE  LET given == {config.source.apps[i].path : i \in DOMAIN config.source.apps}
                          index == FindName(config.apps, path)
                      IN  IF path \in given THEN index # NoIndex /\ config.apps[index].path = path
                          ELSE IF EveryPath \in given
                               THEN index # NoIndex /\ config.apps[index].path = EveryPath
                               ELSE index = NoIndex
    BY DEF RuleOfThePath, InForce
  <2> DEFINE apps == config.source.apps
             rules == RulesOf(apps)
  <2>1. config \in Configs
    BY DEF IInv, TypeOK
  <2>2. apps \in Seq(AppEntries)
    BY <2>1 DEF Configs, ConfFiles
  <2>3. config.apps = SortedRules(rules)
    BY DEF IInv, FunctionOfTheFile, IsMadeOf
  <2>4. /\ rules \in Seq(Rules) /\ DOMAIN rules = DOMAIN apps
        /\ \A i \in DOMAIN apps : rules[i].path = apps[i].path
    BY <2>2, RulesOfTyped
  <2> HIDE DEF apps, rules
  <2>5. {rules[i].path : i \in DOMAIN rules} = {apps[i].path : i \in DOMAIN apps}
    BY <2>4
  <2>6. path \in ByteString \cup {NoPath}
    BY LookupsAssumption
  <2>7. LET given == {rules[i].path : i \in DOMAIN rules}
            index == FindName(SortedRules(rules), path)
        IN  IF path \in given THEN index # NoIndex /\ SortedRules(rules)[index].path = path
            ELSE IF EveryPath \in given
                 THEN index # NoIndex /\ SortedRules(rules)[index].path = EveryPath
                 ELSE index = NoIndex
    BY <2>4, <2>6, FindNameFinds
  <2> QED
    BY <2>3, <2>5, <2>7 DEF apps
<1> QED
  BY <1>1, Invariant, PTL

(* A load that ends puts a valid file into force, all of it, and leaves the      *)
(* configuration alone for any other: LoadConfig of common/common.go.         *)
THEOREM OutcomeFits == Spec => OutcomeFitsFile
<1> DEFINE A == stage # "idle" /\ stage' = "idle" =>
                  IF IsValid(file) THEN config' # NoConfig /\ config'.source = file
                  ELSE config' = config
<1>1. IInv /\ [Next]_vars => [A]_vars
  <2> SUFFICES ASSUME IInv, Next, stage # "idle", stage' = "idle"
               PROVE  IF IsValid(file) THEN config' # NoConfig /\ config'.source = file
                      ELSE config' = config
    OBVIOUS
  <2>1. file \in ConfFiles
    BY DEF IInv, TypeOK
  <2>2. IsValid(file) <=>
           /\ file.basics = "ok" /\ ServersGood(file) /\ AppsGood(file) /\ DatabaseGood(file)
           /\ ~ HasBadFilter(file.whitelist) /\ ~ HasBadFilter(file.blacklist)
    BY <2>1, ValidMeans
  <2>3. CASE CheckBasics
    <3>1. file.basics = "error" /\ config' = config
      BY <2>3 DEF CheckBasics, Fail, Panic, Goto
    <3> QED
      BY <2>2, <3>1
  <2>4. CASE CompileServers
    <3>1. ~ ServersGood(file) /\ config' = config
      BY <2>4 DEF CompileServers, Fail, Goto, ServersGood
    <3> QED
      BY <2>2, <3>1
  <2>5. CASE CompileApps
    <3>1. FirstBadRule # 0 /\ config' = config
      BY <2>5 DEF CompileApps, Fail, Panic, Goto
    <3>2. ~ AppsGood(file)
      BY <2>1, <3>1, FirstBadRuleFound DEF AppsGood
    <3> QED
      BY <2>2, <3>1, <3>2
  <2>6. CASE CompileDatabase
    <3>1. ~ DatabaseGood(file) /\ config' = config
      BY <2>6 DEF CompileDatabase, Fail, Goto, DatabaseGood
    <3> QED
      BY <2>2, <3>1
  <2>7. CASE StartList("whitelist", "whiteVerify")
    <3>1. HasBadFilter(file.whitelist) /\ config' = config
      BY <2>7 DEF StartList, Fail, Goto
    <3> QED
      BY <2>2, <3>1
  <2>8. CASE StartList("blacklist", "blackVerify")
    <3>1. HasBadFilter(file.blacklist) /\ config' = config
      BY <2>8 DEF StartList, Fail, Goto
    <3> QED
      BY <2>2, <3>1
  <2>9. CASE Publish
    <3>1. stage = "publish" /\ config' = built
      BY <2>9 DEF Publish, Goto
    <3> QED
      BY <3>1, PublishedFits
  <2>10. \/ CheckBasics \/ CompileServers \/ CompileApps \/ CompileDatabase
         \/ StartList("whitelist", "whiteVerify") \/ StartList("blacklist", "blackVerify")
         \/ Publish
    BY DEF Next, Read, ReadFails, VerifyPair, FinishList, Goto
  <2> QED
    BY <2>3, <2>4, <2>5, <2>6, <2>7, <2>8, <2>9, <2>10
<1> QED
  BY <1>1, Invariant, PTL DEF Spec, OutcomeFitsFile

(* The local database answers with all and only what the file says, over        *)
(* aliases, loops of them too, and for addresses both ways: toDnsResource of   *)
(* config/dns.go, Add and LookupAnswer of config/database.go.                *)
THEOREM AnswersAreGiven == Spec => []DatabaseAnswers
<1>1. IInv => DatabaseAnswers
  <2> DEFINE G == Given(config.source.database)
             db == config.database
  <2> SUFFICES ASSUME IInv, config # NoConfig, NEW q \in Questions
               PROVE  LET answer == LookupAnswer(db, q)
                          expected == ExpectedRecords(G, q.type, q.name)
                          others == IF q.type \in {"A", "AAAA"}
                                    THEN ExpectedRecords(G, OtherFamily(q.type), q.name) ELSE {}
                      IN  /\ answer.isLocal <=> expected # {} \/ others # {}
                          /\ ToSet(answer.answers) = expected
                          /\ ToSet(answer.additionals) = others
    BY DEF DatabaseAnswers, InForce
  <2>1. /\ config.source.database \in Seq(DatabaseEntries)
        /\ DatabaseGood(config.source)
        /\ db = Filled(config.source.database)
    <3>1. config \in Configs /\ config.source \in ConfFiles
      BY DEF IInv, TypeOK, Configs
    <3>2. IsMadeOf(config, config.source) /\ IsValid(config.source)
      BY DEF IInv, FunctionOfTheFile
    <3> QED
      BY <3>1, <3>2, ValidMeans DEF ConfFiles, IsMadeOf
  <2>2. Holds(db, G)
    BY <2>1, FilledHolds DEF Holds, DatabaseGood, Databases
  <2>3. q.name \in Names
    BY LookupsAssumption
  <2> HIDE DEF db, G
  <2>4. \A type : /\ ToSet(GetRecord(db, type, q.name)) = ExpectedRecords(G, type, q.name)
                  /\ GetRecord(db, type, q.name) # <<>> <=>
                        ExpectedRecords(G, type, q.name) # {}
    BY <2>2, <2>3, LookupFinds
  <2>5. ToSet(<<>>) = {}
    BY DEF ToSet
  <2> QED
    BY <2>4, <2>5 DEF LookupAnswer, Additionals
<1> QED
  BY <1>1, Invariant, PTL

(* Where filters are called by their patterns, a name that fits the pattern of    *)
(* an enabled filter is found, if that filter, or one that covers it, is covered *)
(* by none: verifyFilter and the second sort of config/filterList.go.         *)
THEOREM NothingIsLost == Spec => []ShadowingLosesNothing
<1>1. IInv => ShadowingLosesNothing
  <2> SUFFICES ASSUME IInv, config # NoConfig, NEW which \in {"whitelist", "blacklist"},
                      AllUnnamed(config.source[which]),
                      NEW t \in Texts, NEW i \in DOMAIN config.source[which],
                      IsEnabled(config.source[which][i]),
                      Fits(t, LowerText(config.source[which][i].pattern)),
                      NEW j \in {i} \cup Coverers(config.source[which], i),
                      Coverers(config.source[which], j) = {}
               PROVE  FindFilter(config[which], t) # NotFound
    BY DEF ShadowingLosesNothing, InForce
  <2> DEFINE entries == config.source[which]
  <2>1. config \in Configs
    BY DEF IInv, TypeOK
  <2>2. /\ config.whitelist = Compiled(RawList(config.source.whitelist))
        /\ config.blacklist = Compiled(RawList(config.source.blacklist))
    BY DEF IInv, FunctionOfTheFile, IsMadeOf, ListOf
  <2>3. entries \in Seq(FilterEntries) /\ config[which] = Compiled(RawList(entries))
    BY <2>1, <2>2 DEF Configs, ConfFiles
  <2>4. t \in ByteString
    BY LookupsAssumption
  <2>5. FindFilter(Compiled(RawList(entries)), t) # NotFound
    <3>1. /\ AllUnnamed(entries) /\ i \in DOMAIN entries /\ IsEnabled(entries[i])
          /\ Fits(t, LowerText(entries[i].pattern))
          /\ j \in {i} \cup Coverers(entries, i) /\ Coverers(entries, j) = {}
      OBVIOUS
    <3> HIDE DEF entries
    <3> QED
      BY <2>3, <2>4, <3>1, SomethingIsFound
  <2> QED
    BY <2>3, <2>5
<1> QED
  BY <1>1, Invariant, PTL
=============================================================================
