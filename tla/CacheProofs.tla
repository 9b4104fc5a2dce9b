---------------------------- MODULE CacheProofs -----------------------------
(***************************************************************************)
(* What lookups hand out, for all records, replies and depths.  A lookup is *)
(* a recursive function of the names it may still visit.  The induction on   *)
(* that number is one on sets of numbers, from the well-foundedness of <.    *)
(***************************************************************************)
EXTENDS Cache, WellFoundedInduction, TLAPS

LessNat == {ss \in Nat \X Nat : ss[1] < ss[2]}

(* Every set of naturals that is not empty has a least member.              *)
LEMMA LeastNatural ==
    ASSUME NEW T, T \subseteq Nat, T # {}
    PROVE  \E m \in T : \A k \in T : m <= k
<1>1. IsWellFoundedOn(LessNat, Nat)
  BY NatLessThanWellFounded DEF OpToRel, LessNat
<1>2. PICK m \in T : \A k \in T : ~(<<k, m>> \in LessNat)
  BY <1>1, WFMin
<1>3. \A k \in T : ~(m > k)
  BY <1>2 DEF LessNat
<1> QED
  BY <1>3

(* Induction up to a bound, on the members of a set.                        *)
LEMMA UpToBound ==
    ASSUME NEW bound \in Nat, NEW S, 0 \in S,
           \A d \in 0 .. bound - 1 : d \in S => d + 1 \in S
    PROVE  0 .. bound \subseteq S
<1> DEFINE T == {d \in 0 .. bound : d \notin S}
<1> SUFFICES ASSUME T # {} PROVE FALSE
  OBVIOUS
<1>1. PICK m \in T : \A k \in T : m <= k
  BY LeastNatural, T \subseteq Nat
<1>2. m \in 1 .. bound /\ m - 1 \in 0 .. bound - 1 /\ m - 1 \notin T
  BY <1>1
<1>3. m - 1 \in S
  BY <1>2
<1> QED
  BY <1>1, <1>2, <1>3

-----------------------------------------------------------------------------
(* What a lookup of each name finds when it may visit d more, from what one  *)
(* that may visit fewer finds.                                              *)
Visit(c, type, n, found, d) ==
    [name \in Names |->
        IF d = 0 THEN {}
        ELSE Matching(c, name, type, n)
               \cup UNION {found[d - 1][r.target] : r \in Aliases(c, name, type)}]

IsLookup(c, type, n, found) ==
    found = [d \in 0 .. MaxDepth |-> Visit(c, type, n, found, d)]

Visits(c, type, n) == CHOOSE found : IsLookup(c, type, n, found)

(* A lookup is the function its recursive definition says (cache.go,         *)
(* getRecord).                                                              *)
LEMMA VisitsExist ==
    ASSUME NEW c, NEW type, NEW n
    PROVE  IsLookup(c, type, n, Visits(c, type, n))
<1> DEFINE IsTable(f, k) == f = [d \in 0 .. k |-> Visit(c, type, n, f, d)]
           S == {k \in 0 .. MaxDepth : \E f : IsTable(f, k)}
<1>1. 0 \in S
  <2> DEFINE f == [d \in 0 .. 0 |-> [name \in Names |-> {}]]
  <2>1. IsTable(f, 0)
    BY DEF Visit
  <2> QED
    BY <2>1, LimitAssumption
<1>2. ASSUME NEW k \in 0 .. MaxDepth - 1, k \in S
      PROVE  k + 1 \in S
  <2>1. PICK f : IsTable(f, k)
    BY <1>2
  <2> DEFINE g == [d \in 0 .. k + 1 |-> IF d = k + 1 THEN Visit(c, type, n, f, d) ELSE f[d]]
  <2>2. \A d \in 0 .. k : g[d] = f[d]
    BY LimitAssumption
  <2>3. \A d \in 0 .. k + 1 : Visit(c, type, n, g, d) = Visit(c, type, n, f, d)
    <3> TAKE d \in 0 .. k + 1
    <3>1. CASE d = 0
      BY <3>1 DEF Visit
    <3>2. CASE d # 0
      <4>1. g[d - 1] = f[d - 1]
        BY <2>2, <3>2, LimitAssumption
      <4> HIDE DEF g
      <4> QED
        BY <4>1 DEF Visit
    <3> QED
      BY <3>1, <3>2
  <2>4. \A d \in 0 .. k + 1 : g[d] = Visit(c, type, n, g, d)
    <3> TAKE d \in 0 .. k + 1
    <3>1. CASE d = k + 1
      BY <2>3, <3>1
    <3>2. CASE d \in 0 .. k
      <4>1. f[d] = Visit(c, type, n, f, d)
        BY <2>1, <3>2
      <4> QED
        BY <2>2, <2>3, <3>2, <4>1
    <3> QED
      BY <3>1, <3>2, LimitAssumption
  <2>5. IsTable(g, k + 1)
    BY <2>4
  <2>6. k + 1 \in 0 .. MaxDepth
    BY LimitAssumption
  <2> QED
    BY <2>5, <2>6
<1>3. MaxDepth \in S
  <2> HIDE DEF S
  <2>1. 0 .. MaxDepth \subseteq S
    BY <1>1, <1>2, UpToBound, LimitAssumption
  <2> QED
    BY <2>1, LimitAssumption
<1>4. \E f : IsTable(f, MaxDepth)
  BY <1>3
<1> QED
  BY <1>4 DEF Visits, IsLookup

(* One visit of a lookup, member by member.                                 *)
LEMMA OneVisit ==
    ASSUME NEW c, NEW type, NEW n, NEW found, IsLookup(c, type, n, found),
           NEW name \in Names
    PROVE  /\ found[0][name] = {}
           /\ \A d \in 0 .. MaxDepth - 1 : \A x :
                 x \in found[d + 1][name] <=>
                    \/ x \in Matching(c, name, type, n)
                    \/ \E r \in Aliases(c, name, type) : x \in found[d][r.target]
<1>1. \A d \in 0 .. MaxDepth : found[d] = Visit(c, type, n, found, d)
  BY DEF IsLookup
<1>2. found[0][name] = {}
  <2>1. found[0] = Visit(c, type, n, found, 0)
    BY <1>1, LimitAssumption
  <2> QED
    BY <2>1 DEF Visit
<1>3. ASSUME NEW d \in 0 .. MaxDepth - 1, NEW x
      PROVE  x \in found[d + 1][name] <=>
                \/ x \in Matching(c, name, type, n)
                \/ \E r \in Aliases(c, name, type) : x \in found[d][r.target]
  <2>1. d + 1 \in 0 .. MaxDepth /\ d + 1 # 0 /\ (d + 1) - 1 = d
    BY LimitAssumption
  <2>2. found[d + 1] = Visit(c, type, n, found, d + 1)
    BY <1>1, <2>1
  <2>3. \A e : e # 0 => Visit(c, type, n, found, e)[name] =
                           Matching(c, name, type, n)
                             \cup UNION {found[e - 1][r.target] : r \in Aliases(c, name, type)}
    BY DEF Visit
  <2>4. \A e : e # 0 => (x \in Visit(c, type, n, found, e)[name] <=>
                            \/ x \in Matching(c, name, type, n)
                            \/ \E r \in Aliases(c, name, type) : x \in found[e - 1][r.target])
    <3> TAKE e
    <3> HAVE e # 0
    <3>1. x \in UNION {found[e - 1][r.target] : r \in Aliases(c, name, type)}
             <=> \E r \in Aliases(c, name, type) : x \in found[e - 1][r.target]
      OBVIOUS
    <3>2. Visit(c, type, n, found, e)[name] =
             Matching(c, name, type, n)
               \cup UNION {found[e - 1][r.target] : r \in Aliases(c, name, type)}
      BY <2>3
    <3> QED
      BY <3>1, <3>2, Zenon
  <2> QED
    BY <2>1, <2>2, <2>4
<1> QED
  BY <1>2, <1>3

(* A lookup is what the visits find.                                        *)
LEMMA GetIsVisits ==
    ASSUME NEW c, NEW q, NEW n
    PROVE  Get(c, q, n) = Visits(c, q.type, n)[MaxDepth][Lower[q.name]]
  BY DEF Get, Resolve, Visits, IsLookup, Visit

(* All that a lookup finds is cached, of the type asked for, and fresh, and   *)
(* all such records of the name itself are found.                           *)
LEMMA FoundIsFresh ==
    ASSUME NEW c, NEW type, NEW n, NEW found, IsLookup(c, type, n, found)
    PROVE  \A d \in 0 .. MaxDepth, name \in Names : \A x \in found[d][name] :
              x \in Present(c) /\ x.type = type /\ ~IsExpired(c, x, n)
<1> DEFINE IsFresh(x) == x \in Present(c) /\ x.type = type /\ ~IsExpired(c, x, n)
           S == {d \in 0 .. MaxDepth : \A name \in Names : \A x \in found[d][name] : IsFresh(x)}
<1>1. 0 \in S
  BY OneVisit, LimitAssumption
<1>2. ASSUME NEW d \in 0 .. MaxDepth - 1, d \in S
      PROVE  d + 1 \in S
  <2>1. ASSUME NEW name \in Names, NEW x \in found[d + 1][name]
        PROVE  IsFresh(x)
    <3>1. CASE x \in Matching(c, name, type, n)
      BY <3>1 DEF Matching
    <3>2. CASE \E r \in Aliases(c, name, type) : x \in found[d][r.target]
      <4>1. PICK r \in Aliases(c, name, type) : x \in found[d][r.target]
        BY <3>2
      <4>2. r.target \in Names
        BY <4>1, ResourceAssumption DEF Aliases, Present
      <4> QED
        BY <1>2, <4>1, <4>2
    <3> QED
      BY <2>1, <3>1, <3>2, OneVisit
  <2>2. d + 1 \in 0 .. MaxDepth
    BY LimitAssumption
  <2> QED
    BY <2>1, <2>2
<1>3. 0 .. MaxDepth \subseteq S
  <2> HIDE DEF S
  <2> QED
    BY <1>1, <1>2, UpToBound, LimitAssumption
<1> QED
  BY <1>3

(* What matches the name itself is found.                                   *)
LEMMA OwnIsFound ==
    ASSUME NEW c, NEW type, NEW n, NEW found, IsLookup(c, type, n, found), NEW name \in Names
    PROVE  Matching(c, name, type, n) \subseteq found[MaxDepth][name]
<1>1. MaxDepth - 1 \in 0 .. MaxDepth - 1 /\ (MaxDepth - 1) + 1 = MaxDepth
  BY LimitAssumption
<1> QED
  BY <1>1, OneVisit

-----------------------------------------------------------------------------
(* What is cached is what was granted last, or due and swept.               *)
CacheAgrees ==
    /\ \A r \in Resources : cache[r] # Absent => cache[r] = granted[r]
    /\ \A r \in Resources : now < granted[r] => cache[r] = granted[r]

CInv == TypeOK /\ CacheAgrees

(* Replies, clean-ups, clearing and time keep the cache in step with what    *)
(* was granted (cache.go).                                                  *)
THEOREM CacheInvariant == Spec => []CInv
<1> USE DEF CInv, CacheAgrees, TypeOK, Absent
<1>1. Init => CInv
  BY DEF Init, EmptyCache
<1>2. CInv /\ [Next]_vars => CInv'
  <2> SUFFICES ASSUME CInv, [Next]_vars PROVE CInv'
    OBVIOUS
  <2>1. ASSUME NEW m \in Replies, AddReply(m) PROVE CInv'
    <3>1. \A r \in DOMAIN m : r \in Resources /\ m[r] \in Nat
      BY ReplyAssumption
    <3> QED
      BY <2>1, <3>1 DEF AddReply, AddAll
  <2>2. CASE CleanUp
    BY <2>2, IntervalAssumption DEF CleanUp, RemoveExpired
  <2>3. CASE ClearAll
    BY <2>3 DEF ClearAll, EmptyCache
  <2>4. CASE Tick
    BY <2>4 DEF Tick
  <2>5. CASE UNCHANGED vars
    BY <2>5 DEF vars
  <2> QED
    BY <2>1, <2>2, <2>3, <2>4, <2>5 DEF Next
<1> QED
  BY <1>1, <1>2, PTL DEF Spec

(* The cache keeps its type (cache.go, CachedResource).                     *)
THEOREM CacheTypeCorrect == Spec => []TypeOK
<1>1. CInv => TypeOK
  BY DEF CInv
<1> QED
  BY <1>1, CacheInvariant, PTL

(* What a lookup hands out is still allowed, and nothing that is allowed is   *)
(* missing, for every depth and every web of aliases (cache.go, getRecord).  *)
LEMMA LookupFacts ==
    ASSUME CInv, NEW q \in Questions
    PROVE  /\ \A r \in Get(cache, q, now) :
                 /\ r \in Resources /\ r.type = q.type
                 /\ now <= cache[r] /\ cache[r] = granted[r]
           /\ \A r \in Resources :
                 r.owner = Lower[q.name] /\ r.type = q.type /\ now < granted[r]
                   => r \in Get(cache, q, now)
<1> DEFINE found == Visits(cache, q.type, now)
<1>1. IsLookup(cache, q.type, now, found)
  BY VisitsExist
<1>2. Get(cache, q, now) = found[MaxDepth][Lower[q.name]]
  BY GetIsVisits
<1>3. Lower[q.name] \in Names
  BY LowerAssumption DEF Questions
<1> HIDE DEF found
<1>4. ASSUME NEW r \in Get(cache, q, now)
      PROVE  r \in Resources /\ r.type = q.type /\ now <= cache[r] /\ cache[r] = granted[r]
  <2>1. r \in Present(cache) /\ r.type = q.type /\ ~IsExpired(cache, r, now)
    BY <1>1, <1>2, <1>3, <1>4, FoundIsFresh, LimitAssumption
  <2> QED
    BY <2>1 DEF Present, IsExpired, CInv, CacheAgrees, TypeOK
<1>5. ASSUME NEW r \in Resources, r.owner = Lower[q.name], r.type = q.type, now < granted[r]
      PROVE  r \in Get(cache, q, now)
  <2>1. r \in Matching(cache, Lower[q.name], q.type, now)
    BY <1>5 DEF Matching, Present, IsExpired, Absent, CInv, CacheAgrees, TypeOK
  <2> QED
    BY <1>1, <1>2, <1>3, <2>1, OwnIsFound
<1> QED
  BY <1>4, <1>5

(* The TTL a record is handed out with (cache.go, toResource).              *)
LEMMA ServedWithinBound ==
    ASSUME CInv, NEW q \in Questions, NEW r \in Get(cache, q, now)
    PROVE  now + ServedTtl(cache, r, now) <= granted[r] + MinTtl
<1>1. r \in Resources /\ now <= cache[r] /\ cache[r] = granted[r]
  BY LookupFacts
<1>2. now \in Nat /\ cache[r] \in Nat /\ MinTtl \in Nat
  BY <1>1, LimitAssumption DEF CInv, TypeOK
<1>3. ServedTtl(cache, r, now) \in {MinTtl, cache[r] - now}
  <2>1. \E x \in {MinTtl, cache[r] - now} : \A y \in {MinTtl, cache[r] - now} : x >= y
    BY <1>2
  <2> QED
    BY <2>1 DEF ServedTtl, Max
<1> QED
  BY <1>1, <1>2, <1>3

(* LookupIsFresh, see Cache (cache.go, doAdd, getRecord, toResource,         *)
(* RemoveExpired).                                                          *)
THEOREM LookupsFresh == Spec => []LookupIsFresh
<1>1. CInv => LookupIsFresh
  <2> SUFFICES ASSUME CInv PROVE LookupIsFresh
    OBVIOUS
  <2>1. ASSUME NEW q \in Questions, NEW r \in Get(cache, q, now)
        PROVE  /\ r.type = q.type /\ now <= granted[r]
               /\ now + ServedTtl(cache, r, now) <= granted[r] + MinTtl
    BY <2>1, LookupFacts, ServedWithinBound
  <2> QED
    BY <2>1, LookupFacts DEF LookupIsFresh
<1> QED
  BY <1>1, CacheInvariant, PTL

-----------------------------------------------------------------------------
(* A sweep adds nothing to a lookup (cache.go, nodeFilterExpired).          *)
LEMMA SweepShrinks ==
    ASSUME NEW c \in [Resources -> Nat], NEW type, NEW n \in Nat,
           NEW before, IsLookup(c, type, n, before),
           NEW after, IsLookup(RemoveExpired(c, n), type, n, after)
    PROVE  \A d \in 0 .. MaxDepth, name \in Names : after[d][name] \subseteq before[d][name]
<1> DEFINE e == RemoveExpired(c, n)
           S == {d \in 0 .. MaxDepth : \A name \in Names : after[d][name] \subseteq before[d][name]}
<1>1. \A r \in Resources : e[r] # Absent => e[r] = c[r]
  BY DEF RemoveExpired
<1> HIDE DEF e
<1>2. \A name : /\ Matching(e, name, type, n) \subseteq Matching(c, name, type, n)
                /\ Aliases(e, name, type) \subseteq Aliases(c, name, type)
  BY <1>1 DEF Matching, Aliases, Present, IsExpired
<1>3. IsLookup(e, type, n, after)
  BY DEF e
<1>4. 0 \in S
  BY <1>3, OneVisit, LimitAssumption
<1>5. ASSUME NEW d \in 0 .. MaxDepth - 1, d \in S
      PROVE  d + 1 \in S
  <2>1. ASSUME NEW name \in Names, NEW x \in after[d + 1][name]
        PROVE  x \in before[d + 1][name]
    <3>1. CASE x \in Matching(e, name, type, n)
      BY <1>2, <3>1, OneVisit
    <3>2. CASE \E r \in Aliases(e, name, type) : x \in after[d][r.target]
      <4>1. PICK r \in Aliases(e, name, type) : x \in after[d][r.target]
        BY <3>2
      <4>2. r \in Aliases(c, name, type) /\ r.target \in Names
        BY <1>2, <4>1, ResourceAssumption DEF Aliases, Present
      <4>3. x \in before[d][r.target]
        BY <1>5, <4>1, <4>2
      <4> QED
        BY <4>2, <4>3, OneVisit
    <3> QED
      BY <1>3, <2>1, <3>1, <3>2, OneVisit
  <2>2. d + 1 \in 0 .. MaxDepth
    BY LimitAssumption
  <2> QED
    BY <2>1, <2>2
<1>6. 0 .. MaxDepth \subseteq S
  <2> HIDE DEF S
  <2> QED
    BY <1>4, <1>5, UpToBound, LimitAssumption
<1> QED
  BY <1>6

KeepsTheRest(before, after, c, n) ==
    \A d \in 0 .. MaxDepth, name \in Names : \A x \in before[d][name] :
        x \in after[d][name] \/ c[x] = n

AliasesLast(c, n) == \A r \in Present(c) : r.type = "CNAME" => c[r] > n

(* It takes away only what is due now, if every alias has time left.        *)
LEMMA SweepKeeps ==
    ASSUME NEW c \in [Resources -> Nat], NEW type, NEW n \in Nat,
           NEW before, IsLookup(c, type, n, before),
           NEW after, IsLookup(RemoveExpired(c, n), type, n, after),
           AliasesLast(c, n)
    PROVE  KeepsTheRest(before, after, c, n)
<1> DEFINE e == RemoveExpired(c, n)
           S == {d \in 0 .. MaxDepth : \A name \in Names : \A x \in before[d][name] :
                    x \in after[d][name] \/ c[x] = n}
<1>1. \A r \in Resources : c[r] > n => e[r] = c[r]
  BY DEF RemoveExpired
<1> HIDE DEF e
<1>2. ASSUME NEW name, NEW x \in Matching(c, name, type, n), c[x] # n
      PROVE  x \in Matching(e, name, type, n)
  BY <1>1, <1>2 DEF Matching, Present, IsExpired
<1>3. ASSUME NEW name, NEW r \in Aliases(c, name, type)
      PROVE  r \in Aliases(e, name, type)
  <2>1. r \in Resources /\ r \in Present(c) /\ r.type = "CNAME" /\ c[r] # Absent
    BY <1>3 DEF Aliases, Present
  <2>2. e[r] = c[r]
    BY <1>1, <2>1 DEF AliasesLast
  <2> QED
    BY <1>3, <2>1, <2>2 DEF Aliases, Present
<1>4. IsLookup(e, type, n, after)
  BY DEF e
<1>5. 0 \in S
  BY OneVisit, LimitAssumption
<1>6. ASSUME NEW d \in 0 .. MaxDepth - 1, d \in S
      PROVE  d + 1 \in S
  <2>1. ASSUME NEW name \in Names, NEW x \in before[d + 1][name], c[x] # n
        PROVE  x \in after[d + 1][name]
    <3>1. CASE x \in Matching(c, name, type, n)
      BY <1>2, <1>4, <2>1, <3>1, OneVisit
    <3>2. CASE \E r \in Aliases(c, name, type) : x \in before[d][r.target]
      <4>1. PICK r \in Aliases(c, name, type) : x \in before[d][r.target]
        BY <3>2
      <4>2. r \in Aliases(e, name, type) /\ r.target \in Names
        BY <1>3, <4>1, ResourceAssumption DEF Aliases, Present
      <4>3. x \in after[d][r.target]
        BY <1>6, <2>1, <4>1, <4>2
      <4> QED
        BY <1>4, <4>2, <4>3, OneVisit
    <3> QED
      BY <2>1, <3>1, <3>2, OneVisit
  <2>2. d + 1 \in 0 .. MaxDepth
    BY LimitAssumption
  <2> QED
    BY <2>1, <2>2
<1>7. 0 .. MaxDepth \subseteq S
  <2> HIDE DEF S
  <2> QED
    BY <1>5, <1>6, UpToBound, LimitAssumption
<1> QED
  BY <1>7 DEF KeepsTheRest

(* The same of the lookup of one question.                                  *)
LEMMA SweepOfALookup ==
    ASSUME NEW c \in [Resources -> Nat], NEW n \in Nat, NEW q \in Questions
    PROVE  /\ Get(RemoveExpired(c, n), q, n) \subseteq Get(c, q, n)
           /\ AliasesLast(c, n) =>
                 \A r \in Get(c, q, n) \ Get(RemoveExpired(c, n), q, n) : c[r] = n
<1> DEFINE type == q.type
           name == Lower[q.name]
           e    == RemoveExpired(c, n)
<1>1. PICK before : before = Visits(c, type, n)
  OBVIOUS
<1>2. PICK after : after = Visits(e, type, n)
  OBVIOUS
<1>3. IsLookup(c, type, n, before) /\ IsLookup(e, type, n, after)
  BY <1>1, <1>2, VisitsExist
<1>4. Get(c, q, n) = before[MaxDepth][name] /\ Get(e, q, n) = after[MaxDepth][name]
  BY <1>1, <1>2, GetIsVisits
<1>5. name \in Names /\ MaxDepth \in 0 .. MaxDepth
  BY LowerAssumption, LimitAssumption DEF Questions
<1>6. Get(e, q, n) \subseteq Get(c, q, n)
  <2>1. \A d \in 0 .. MaxDepth, m \in Names : after[d][m] \subseteq before[d][m]
    BY <1>3, SweepShrinks
  <2> QED
    BY <1>4, <1>5, <2>1
<1>7. ASSUME AliasesLast(c, n)
      PROVE  \A r \in Get(c, q, n) \ Get(e, q, n) : c[r] = n
  <2>1. KeepsTheRest(before, after, c, n)
    BY <1>3, <1>7, SweepKeeps
  <2> QED
    BY <1>4, <1>5, <2>1 DEF KeepsTheRest
<1> QED
  BY <1>6, <1>7

(* CleanUpInvisible, see Cache (cache.go, RemoveExpired).                   *)
THEOREM CleanUpsUnseen == Spec => CleanUpInvisible
<1>1. ASSUME CInv, CleanUp, NEW q \in Questions
      PROVE  /\ Get(cache', q, now) \subseteq Get(cache, q, now)
             /\ StaleAliases = {} =>
                   \A r \in Get(cache, q, now) \ Get(cache', q, now) : cache[r] = now
  <2>1. PICK c : c = cache
    OBVIOUS
  <2>2. PICK n : n = now
    OBVIOUS
  <2>3. PICK e : e = cache'
    OBVIOUS
  <2>4. c \in [Resources -> Nat] /\ n \in Nat /\ e = RemoveExpired(c, n)
    BY <1>1, <2>1, <2>2, <2>3 DEF CInv, TypeOK, CleanUp
  <2>5. StaleAliases = {} => AliasesLast(c, n)
    BY <2>1, <2>2, <2>4 DEF StaleAliases, AliasesLast, Present
  <2>6. /\ Get(e, q, n) \subseteq Get(c, q, n)
        /\ StaleAliases = {} => \A r \in Get(c, q, n) \ Get(e, q, n) : c[r] = n
    BY <2>4, <2>5, SweepOfALookup
  <2> QED
    BY <2>1, <2>2, <2>3, <2>6
<1>2. CInv /\ [Next]_vars => [CleanUp =>
         \A q \in Questions :
            LET before == Get(cache, q, now)
                after  == Get(cache', q, now)
            IN  /\ after \subseteq before
                /\ StaleAliases = {} => \A r \in before \ after : cache[r] = now]_vars
  BY <1>1
<1> QED
  BY <1>2, CacheInvariant, PTL DEF Spec, CleanUpInvisible

-----------------------------------------------------------------------------
(* The names a chain of d aliases of cs leads to from n.                    *)
Step(cs, n, reach, d) ==
    IF d = 0 THEN {n}
    ELSE reach[d - 1] \cup {r.target : r \in {c \in cs : c.owner \in reach[d - 1]}}

IsReach(cs, n, reach) == reach = [d \in 0 .. MaxDepth - 1 |-> Step(cs, n, reach, d)]

Chains(cs, n) == CHOOSE reach : IsReach(cs, n, reach)

(* They are the function the recursive definition says (cache.go, getRecord). *)
LEMMA ChainsExist ==
    ASSUME NEW cs, NEW n
    PROVE  IsReach(cs, n, Chains(cs, n))
<1> DEFINE last == MaxDepth - 1
           IsTable(f, k) == f = [d \in 0 .. k |-> Step(cs, n, f, d)]
           S == {k \in 0 .. last : \E f : IsTable(f, k)}
<1>1. 0 \in S
  <2> DEFINE f == [d \in 0 .. 0 |-> {n}]
  <2>1. IsTable(f, 0)
    BY DEF Step
  <2> QED
    BY <2>1, LimitAssumption
<1>2. ASSUME NEW k \in 0 .. last - 1, k \in S
      PROVE  k + 1 \in S
  <2>1. PICK f : IsTable(f, k)
    BY <1>2
  <2> DEFINE g == [d \in 0 .. k + 1 |-> IF d = k + 1 THEN Step(cs, n, f, d) ELSE f[d]]
  <2>2. \A d \in 0 .. k : g[d] = f[d]
    BY LimitAssumption
  <2>3. \A d \in 0 .. k + 1 : Step(cs, n, g, d) = Step(cs, n, f, d)
    <3> TAKE d \in 0 .. k + 1
    <3>1. CASE d = 0
      BY <3>1 DEF Step
    <3>2. CASE d # 0
      <4>1. g[d - 1] = f[d - 1]
        BY <2>2, <3>2, LimitAssumption
      <4> HIDE DEF g
      <4> QED
        BY <4>1 DEF Step
    <3> QED
      BY <3>1, <3>2
  <2>4. \A d \in 0 .. k + 1 : g[d] = Step(cs, n, g, d)
    <3> TAKE d \in 0 .. k + 1
    <3>1. CASE d = k + 1
      BY <2>3, <3>1
    <3>2. CASE d \in 0 .. k
      <4>1. f[d] = Step(cs, n, f, d)
        BY <2>1, <3>2
      <4> QED
        BY <2>2, <2>3, <3>2, <4>1
    <3> QED
      BY <3>1, <3>2, LimitAssumption
  <2>5. IsTable(g, k + 1)
    BY <2>4
  <2>6. k + 1 \in 0 .. last
    BY LimitAssumption
  <2> QED
    BY <2>5, <2>6
<1>3. last \in Nat
  BY LimitAssumption
<1>4. last \in S
  <2> HIDE DEF S, last
  <2>1. 0 .. last \subseteq S
    BY <1>1, <1>2, <1>3, UpToBound
  <2> QED
    BY <1>3, <2>1
<1>5. \E f : IsTable(f, last)
  BY <1>4
<1> QED
  BY <1>5 DEF Chains, IsReach

(* The names the answer may come from are those chains lead to.             *)
LEMMA ReachesAreChains ==
    ASSUME NEW cs, NEW n
    PROVE  Reaches(cs, n) = Chains(cs, n)[MaxDepth - 1]
  BY DEF Reaches, Chains, IsReach, Step

(* One link of a chain, member by member.                                   *)
LEMMA OneLink ==
    ASSUME NEW cs, NEW n, NEW reach, IsReach(cs, n, reach)
    PROVE  /\ reach[0] = {n}
           /\ \A d \in 0 .. MaxDepth - 2 : \A y :
                 y \in reach[d + 1] <=>
                    y \in reach[d] \/ \E r \in cs : r.owner \in reach[d] /\ y = r.target
<1>1. \A d \in 0 .. MaxDepth - 1 : reach[d] = Step(cs, n, reach, d)
  BY DEF IsReach
<1>2. reach[0] = {n}
  <2>1. reach[0] = Step(cs, n, reach, 0)
    BY <1>1, LimitAssumption
  <2> QED
    BY <2>1 DEF Step
<1>3. ASSUME NEW d \in 0 .. MaxDepth - 2, NEW y
      PROVE  y \in reach[d + 1] <=>
                y \in reach[d] \/ \E r \in cs : r.owner \in reach[d] /\ y = r.target
  <2>1. d + 1 \in 0 .. MaxDepth - 1 /\ d + 1 # 0 /\ (d + 1) - 1 = d
    BY LimitAssumption
  <2>2. reach[d + 1] = Step(cs, n, reach, d + 1)
    BY <1>1, <2>1
  <2>3. Step(cs, n, reach, d + 1) =
           reach[d] \cup {r.target : r \in {c \in cs : c.owner \in reach[d]}}
    BY <2>1 DEF Step
  <2> QED
    BY <2>2, <2>3
<1> QED
  BY <1>2, <1>3

(* The first name is on every chain.                                        *)
LEMMA ChainStarts ==
    ASSUME NEW cs, NEW n, NEW reach, IsReach(cs, n, reach)
    PROVE  \A d \in 0 .. MaxDepth - 1 : n \in reach[d]
<1> DEFINE last == MaxDepth - 1
           S == {d \in 0 .. last : n \in reach[d]}
<1>1. last \in Nat /\ MaxDepth - 2 = last - 1
  BY LimitAssumption
<1>2. 0 \in S
  BY <1>1, OneLink
<1>3. ASSUME NEW d \in 0 .. last - 1, d \in S
      PROVE  d + 1 \in S
  <2>1. d + 1 \in 0 .. last
    BY <1>1
  <2> QED
    BY <1>1, <1>3, <2>1, OneLink
<1>4. 0 .. last \subseteq S
  <2> HIDE DEF S, last
  <2> QED
    BY <1>1, <1>2, <1>3, UpToBound
<1> QED
  BY <1>4

(* A chain that starts one alias later is a link shorter.                   *)
LEMMA ChainGrows ==
    ASSUME NEW cs, NEW n, NEW r \in cs, r.owner = n,
           NEW long, IsReach(cs, n, long),
           NEW short, IsReach(cs, r.target, short)
    PROVE  \A d \in 0 .. MaxDepth - 2 : short[d] \subseteq long[d + 1]
<1> DEFINE last == MaxDepth - 1
           S == {d \in 0 .. last : d + 1 <= last => short[d] \subseteq long[d + 1]}
<1>1. last \in Nat /\ MaxDepth - 2 = last - 1
  BY LimitAssumption
<1>2. long[0] = {n} /\ short[0] = {r.target}
  BY OneLink
<1>3. \A d \in 0 .. last - 1 : \A y :
         y \in long[d + 1] <=>
            y \in long[d] \/ \E c \in cs : c.owner \in long[d] /\ y = c.target
  BY <1>1, OneLink
<1>4. \A d \in 0 .. last - 1 : \A y :
         y \in short[d + 1] <=>
            y \in short[d] \/ \E c \in cs : c.owner \in short[d] /\ y = c.target
  BY <1>1, OneLink
<1> HIDE DEF last
<1>5. 0 \in S
  BY <1>1, <1>2, <1>3
<1>6. ASSUME NEW d \in 0 .. last - 1, d \in S
      PROVE  d + 1 \in S
  <2>1. d + 1 \in 0 .. last
    BY <1>1
  <2>2. ASSUME (d + 1) + 1 <= last, NEW y \in short[d + 1]
        PROVE  y \in long[(d + 1) + 1]
    <3>1. d + 1 \in 0 .. last - 1 /\ d + 1 <= last
      BY <1>1, <2>2
    <3>2. short[d] \subseteq long[d + 1]
      BY <1>6, <3>1
    <3>3. y \in long[d + 1] \/ \E c \in cs : c.owner \in long[d + 1] /\ y = c.target
      BY <1>4, <2>2, <3>2
    <3> QED
      BY <1>3, <3>1, <3>3
  <2> QED
    BY <2>1, <2>2
<1>7. 0 .. last \subseteq S
  <2> HIDE DEF S
  <2> QED
    BY <1>1, <1>5, <1>6, UpToBound
<1> QED
  BY <1>1, <1>7 DEF last

(* Whatever a lookup finds, a chain of aliases leads to its owner.          *)
OnAChain(cs, x, name, d) == d # 0 /\ x.owner \in Chains(cs, name)[d - 1]

LEMMA FoundIsOnAChain ==
    ASSUME NEW c, NEW type, NEW n, NEW found, IsLookup(c, type, n, found),
           NEW cs, cs = {r \in Present(c) : r.type = "CNAME"}
    PROVE  \A d \in 0 .. MaxDepth, name \in Names : \A x \in found[d][name] :
              OnAChain(cs, x, name, d)
<1> DEFINE S == {d \in 0 .. MaxDepth : \A name \in Names : \A x \in found[d][name] :
                    OnAChain(cs, x, name, d)}
<1>1. 0 \in S
  BY OneVisit, LimitAssumption
<1>2. ASSUME NEW d \in 0 .. MaxDepth - 1, d \in S
      PROVE  d + 1 \in S
  <2>1. ASSUME NEW name \in Names, NEW x \in found[d + 1][name]
        PROVE  x.owner \in Chains(cs, name)[d]
    <3>1. CASE x \in Matching(c, name, type, n)
      <4>1. x.owner = name
        BY <3>1 DEF Matching
      <4> QED
        BY <4>1, ChainsExist, ChainStarts
    <3>2. CASE \E r \in Aliases(c, name, type) : x \in found[d][r.target]
      <4>1. PICK r \in Aliases(c, name, type) : x \in found[d][r.target]
        BY <3>2
      <4>2. r \in cs /\ r.owner = name /\ r.target \in Names
        BY <4>1, ResourceAssumption DEF Aliases, Present
      <4>3. d # 0 /\ x.owner \in Chains(cs, r.target)[d - 1]
        BY <1>2, <4>1, <4>2 DEF OnAChain
      <4>4. d - 1 \in 0 .. MaxDepth - 2 /\ (d - 1) + 1 = d
        BY <4>3, LimitAssumption
      <4>5. PICK long : long = Chains(cs, name)
        OBVIOUS
      <4>6. PICK short : short = Chains(cs, r.target)
        OBVIOUS
      <4>7. IsReach(cs, name, long) /\ IsReach(cs, r.target, short)
        BY <4>5, <4>6, ChainsExist
      <4>8. \A k \in 0 .. MaxDepth - 2 : short[k] \subseteq long[k + 1]
        BY <4>2, <4>7, ChainGrows
      <4> QED
        BY <4>3, <4>4, <4>5, <4>6, <4>8
    <3> QED
      BY <2>1, <3>1, <3>2, OneVisit
  <2>2. d + 1 \in 0 .. MaxDepth /\ d + 1 # 0 /\ (d + 1) - 1 = d
    BY LimitAssumption
  <2> QED
    BY <2>1, <2>2 DEF OnAChain
<1>3. 0 .. MaxDepth \subseteq S
  <2> HIDE DEF S
  <2> QED
    BY <1>1, <1>2, UpToBound, LimitAssumption
<1> QED
  BY <1>3

(* AnswerFollowsAliases, see Cache (cache.go, getRecord).                   *)
THEOREM AnswersFollow == Spec => []AnswerFollowsAliases
<1>1. ASSUME NEW c, NEW n, NEW q \in Questions, NEW cs,
             cs = {r \in Present(c) : r.type = "CNAME"}, NEW x \in Get(c, q, n)
      PROVE  x.owner \in Reaches(cs, Lower[q.name])
  <2>1. PICK found : found = Visits(c, q.type, n)
    OBVIOUS
  <2>2. IsLookup(c, q.type, n, found) /\ x \in found[MaxDepth][Lower[q.name]]
    BY <1>1, <2>1, VisitsExist, GetIsVisits
  <2>3. Lower[q.name] \in Names /\ MaxDepth \in 0 .. MaxDepth
    BY LowerAssumption, LimitAssumption DEF Questions
  <2>4. OnAChain(cs, x, Lower[q.name], MaxDepth)
    BY <1>1, <2>2, <2>3, FoundIsOnAChain
  <2> QED
    BY <2>4, ReachesAreChains DEF OnAChain
<1>2. AnswerFollowsAliases
  BY <1>1 DEF AnswerFollowsAliases
<1> QED
  BY <1>2, PTL
=============================================================================
