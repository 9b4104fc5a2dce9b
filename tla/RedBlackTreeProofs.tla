------------------------ MODULE RedBlackTreeProofs ------------------------
(***************************************************************************)
(* Theorems about the red-black tree (util/bst/redblacktree.go), for any       *)
(* finite set of integers as keys.  The recursive functions of the model are  *)
(* followed along the height of the subtrees: the invariant gives every node  *)
(* n the set b[n] of the nodes below it and the black height h[n], and each    *)
(* lemma named ...Shaped or ...Fits says which b and h belong to the tree      *)
(* that one function of the code leaves.                                    *)
(***************************************************************************)
EXTENDS RedBlackTree, FiniteSetTheorems, SequenceTheorems, WellFoundedInduction, TLAPS

-----------------------------------------------------------------------------
(* Induction and recursion along a rank, a natural number.                  *)

LessNat == {ss \in Nat \X Nat : ss[1] < ss[2]}

(* Every set of naturals that is not empty has a least member.              *)
LEMMA LeastNatural ==
    ASSUME NEW T, T \subseteq Nat, T # {}
    PROVE  \E m \in T : \A k \in T : m <= k
<1>1. IsWellFoundedOn(LessNat, Nat)
  BY NatLessThanWellFounded DEF OpToRel, LessNat
<1>2. PICK m \in T : \A k \in T : ~(<<k, m>> \in LessNat)
  BY <1>1, WFMin
<1>3. \A k \in T : ~(m > k)
  BY <1>2 DEF LessNat
<1> QED
  BY <1>3

(* A set that has an element as soon as it has all those of lower rank has   *)
(* them all.                                                                *)
LEMMA RankInduction ==
    ASSUME NEW S, NEW rank \in [S -> Nat], NEW P,
           \A x \in S : (\A y \in S : rank[y] < rank[x] => y \in P) => x \in P
    PROVE  S \subseteq P
<1> DEFINE T == {rank[x] : x \in S \ P}
<1> SUFFICES ASSUME T # {} PROVE FALSE
  OBVIOUS
<1>1. PICK m \in T : \A k \in T : m <= k
  BY LeastNatural, T \subseteq Nat
<1>2. PICK x \in S \ P : rank[x] = m
  BY <1>1
<1>3. \A y \in S : rank[y] < rank[x] => y \in P
  BY <1>1, <1>2
<1> QED
  BY <1>2, <1>3

(* The functions F on S, and a step that defines a function anew from its     *)
(* values at lower ranks.                                                   *)
Recursive(S, F, step, rank, top) ==
    /\ F # {} /\ top \in Nat /\ \A x \in S : rank[x] \in 0 .. top
    /\ \A f, g \in F : (\A x \in S : f[x] = g[x]) => f = g
    /\ \A f \in F : step[f] \in F
    /\ \A f, g \in F, x \in S :
          (\A y \in S : rank[y] < rank[x] => f[y] = g[y]) => step[f][x] = step[g][x]

(* Such a step leaves a function as it is.                                   *)
LEMMA RankRecursion ==
    ASSUME NEW S, NEW F, NEW step, NEW rank, NEW top, Recursive(S, F, step, rank, top)
    PROVE  \E f \in F : f = step[f]
<1> USE DEF Recursive
<1> DEFINE IsGood(f, d) == \A x \in S : rank[x] < d => step[f][x] = f[x]
           T == {d \in Nat : ~ \E f \in F : IsGood(f, d)}
<1>1. \E f \in F : IsGood(f, 0)
  OBVIOUS
<1>2. ASSUME NEW d \in Nat, NEW f \in F, IsGood(f, d)
      PROVE  step[f] \in F /\ IsGood(step[f], d + 1)
  <2>1. step[f] \in F /\ step[step[f]] \in F
    OBVIOUS
  <2>2. ASSUME NEW x \in S, rank[x] < d + 1
        PROVE  step[step[f]][x] = step[f][x]
    <3>1. \A y \in S : rank[y] < rank[x] => step[f][y] = f[y]
      BY <1>2, <2>2
    <3> QED
      BY <2>1, <3>1
  <2> QED
    BY <2>1, <2>2
<1>3. T = {}
  <2> SUFFICES ASSUME T # {} PROVE FALSE
    OBVIOUS
  <2>1. PICK m \in T : \A k \in T : m <= k
    BY LeastNatural, T \subseteq Nat
  <2>2. m # 0
    BY <1>1, <2>1
  <2>3. m - 1 \in Nat /\ m - 1 \notin T
    BY <2>1, <2>2
  <2>4. PICK f \in F : IsGood(f, m - 1)
    BY <2>3
  <2>5. step[f] \in F /\ IsGood(step[f], m)
    BY <1>2, <2>3, <2>4
  <2> QED
    BY <2>1, <2>5
<1>4. PICK f \in F : IsGood(f, top + 1)
  <2>1. top + 1 \in Nat
    OBVIOUS
  <2>2. top + 1 \notin T
    BY <1>3
  <2> QED
    BY <2>1, <2>2
<1>5. \A x \in S : rank[x] < top + 1
  OBVIOUS
<1>6. \A x \in S : step[f][x] = f[x]
  BY <1>4, <1>5
<1>7. step[f] \in F
  OBVIOUS
<1> QED
  BY <1>6, <1>7

-----------------------------------------------------------------------------
(* The shape of the tree: its links, what is below a node, and the order.    *)

Members(t) == {n \in Keys : n = t.root \/ t.parent[n] # Nil}

Linked(t) ==
    /\ t \in Trees
    /\ t.root # Nil => t.parent[t.root] = Nil
    /\ t.root = Nil => \A n \in Keys : t.parent[n] = Nil
    /\ \A n \in Members(t), s \in Sides :
          t.child[s][n] # Nil => t.parent[t.child[s][n]] = n
    /\ \A n \in Keys :
          t.parent[n] # Nil =>
             /\ t.parent[n] \in Members(t)
             /\ \E s \in Sides : t.child[s][t.parent[n]] = n
    /\ \A n \in Keys \ Members(t), s \in Sides : t.child[s][n] = Nil

(* The nodes below a node, itself among them.                               *)
Spread(t, b) ==
    /\ b \in [Keys \cup {Nil} -> SUBSET Keys]
    /\ b[Nil] = {}
    /\ b[t.root] = Members(t)
    /\ \A n \in Members(t) : b[n] \subseteq Members(t)
    /\ \A n \in Members(t), s \in Sides :
          /\ b[n] = {n} \cup b[t.child[s][n]] \cup b[t.child[Other(s)][n]]
          /\ n \notin b[t.child[s][n]]
          /\ b[t.child[s][n]] \cap b[t.child[Other(s)][n]] = {}

(* x lies on the side s of y.                                               *)
Beside(s, x, y) == IF s = "left" THEN x < y ELSE y < x

(* The nodes stand in the order of their keys, but for the one to unlink.     *)
Ordered(t, b, d) ==
    \A n \in Members(t), s \in Sides :
       \A x \in b[t.child[s][n]] \ {d} :
          /\ n # d => Beside(s, x, n)
          /\ \A y \in b[t.child[Other(s)][n]] \ {d} : Beside(s, x, y)

Shaped(t, b, d) == Linked(t) /\ Spread(t, b) /\ Ordered(t, b, d)

LEMMA TwoSides ==
    ASSUME NEW s \in Sides
    PROVE  Other(s) \in Sides /\ Other(s) # s /\ Other(Other(s)) = s /\ Sides = {s, Other(s)}
BY DEF Sides, Other

(* A node and its children and parent are different nodes.                  *)
LEMMA Apart ==
    ASSUME NEW t, NEW b, Linked(t), Spread(t, b), NEW n \in Members(t)
    PROVE  /\ n \in Keys /\ n # Nil
           /\ \A s \in Sides :
                 /\ t.child[s][n] \in Keys \cup {Nil}
                 /\ t.child[s][n] # Nil =>
                       /\ t.child[s][n] \in Members(t)
                       /\ t.child[s][n] # n /\ t.child[s][n] # t.parent[n]
                       /\ t.child[s][n] # t.child[Other(s)][n]
                       /\ t.child[s][n] # t.root
           /\ t.parent[n] \in Keys \cup {Nil} /\ t.parent[n] # n
           /\ t.parent[n] = Nil <=> n = t.root
           /\ n # t.root => /\ t.parent[n] \in Members(t)
                            /\ t.child[SideOf(t, n)][t.parent[n]] = n
                            /\ SideOf(t, n) \in Sides
<1>1. n \in Keys /\ n # Nil /\ t \in Trees
  BY KeyAssumption DEF Members, Linked
<1>2. ASSUME NEW m \in Members(t), NEW s \in Sides, t.child[s][m] # Nil
      PROVE  /\ t.child[s][m] \in Members(t)
             /\ t.child[s][m] # m
             /\ t.child[s][m] # t.child[Other(s)][m]
             /\ t.child[s][m] # t.root
             /\ t.child[s][m] \in b[t.child[s][m]]
  <2>1. /\ t.child[s][m] \in Keys /\ t.parent[t.child[s][m]] = m /\ m \in Keys /\ m # Nil
    BY <1>1, <1>2, KeyAssumption DEF Trees, Linked, Members
  <2>2. t.child[s][m] \in Members(t) /\ t.child[s][m] # t.root
    BY <1>2, <2>1 DEF Members, Linked
  <2>3. t.child[s][m] \in b[t.child[s][m]]
    BY <2>2, TwoSides DEF Spread
  <2> QED
    BY <2>2, <2>3 DEF Spread
<1>3. ASSUME n # t.root
      PROVE  /\ t.parent[n] \in Members(t)
             /\ t.child[SideOf(t, n)][t.parent[n]] = n
             /\ SideOf(t, n) \in Sides
             /\ t.parent[n] # Nil
  BY <1>1, <1>3 DEF Members, Linked, SideOf, Sides
<1>4. n = t.root => t.parent[n] = Nil
  BY <1>1 DEF Linked
<1>5. t.parent[n] # n
  BY <1>1, <1>2, <1>3, <1>4
<1>6. ASSUME NEW s \in Sides, t.child[s][n] # Nil
      PROVE  t.child[s][n] # t.parent[n]
  <2> SUFFICES ASSUME t.child[s][n] = t.parent[n] PROVE FALSE
    OBVIOUS
  <2>1. t.parent[n] \in Members(t) /\ n # t.root
    BY <1>2, <1>4, <1>6
  <2>2. n \in b[n] /\ b[n] \subseteq b[t.parent[n]]
    BY <1>3, <2>1, <1>6 DEF Spread
  <2> QED
    BY <1>6, <2>2 DEF Spread
<1>7. \A s \in Sides : t.child[s][n] \in Keys \cup {Nil}
  BY <1>1 DEF Trees
<1>8. t.parent[n] \in Keys \cup {Nil}
  BY <1>1 DEF Trees
<1> QED
  BY <1>1, <1>2, <1>3, <1>4, <1>5, <1>6, <1>7, <1>8

-----------------------------------------------------------------------------
(* Rotations.                                                              *)

(* r is t with n turned down to a side, and the child on the other side up.   *)
Rotated(t, r, n, side) ==
    LET up    == t.child[Other(side)][n]
        inner == t.child[side][up]
    IN  /\ r \in Trees
        /\ r.root = IF t.root = n THEN up ELSE t.root
        /\ \A m \in Keys :
              r.parent[m] = IF m = n THEN up
                            ELSE IF m = up THEN t.parent[n]
                            ELSE IF m = inner THEN n
                            ELSE t.parent[m]
        /\ \A s \in Sides, m \in Keys :
              r.child[s][m] = IF m = n /\ s = Other(side) THEN inner
                              ELSE IF m = up /\ s = side THEN n
                              ELSE IF t.child[s][m] = n THEN up
                              ELSE t.child[s][m]
        /\ r.red = t.red /\ r.value = t.value

LEMMA RotateRotates ==
    ASSUME NEW t, NEW b, Linked(t), Spread(t, b), NEW n \in Members(t), NEW side \in Sides,
           t.child[Other(side)][n] # Nil
    PROVE  Rotated(t, Rotate(t, n, side), n, side)
<1> DEFINE o == Other(side)
           up == t.child[o][n]
           inner == t.child[side][up]
           p == t.parent[n]
           q == SideOf(t, n)
           u == ReplaceNode(t, n, up)
           v == [u EXCEPT !.child[o][n] = inner, !.child[side][up] = n, !.parent[n] = up]
           w == IF inner = Nil THEN v ELSE [v EXCEPT !.parent[inner] = n]
<1>1. /\ o \in Sides /\ o # side /\ Other(o) = side /\ Sides = {side, o}
  BY DEF Sides, Other
<1>2. /\ n \in Keys /\ n # Nil /\ up \in Members(t) /\ up # n /\ up # p /\ up # t.root
      /\ up # t.child[side][n]
      /\ p \in Keys \cup {Nil} /\ p # n /\ (p = Nil <=> n = t.root)
      /\ n # t.root => p \in Members(t) /\ t.child[q][p] = n /\ q \in Sides
  BY <1>1, Apart
<1>3. up \in Keys /\ up # Nil
  BY <1>2, KeyAssumption DEF Members
<1>4. /\ inner \in Keys \cup {Nil}
      /\ inner # Nil => inner \in Members(t) /\ inner # up /\ inner # n /\ t.parent[inner] = up
  BY <1>1, <1>2, <1>3, Apart DEF Linked
<1>5. t \in Trees /\ t.parent[up] = n
  BY <1>1, <1>2 DEF Linked
<1>6. \A s \in Sides, m \in Keys : t.child[s][m] = n <=> n # t.root /\ m = p /\ s = q
  <2> SUFFICES ASSUME NEW s \in Sides, NEW m \in Keys, t.child[s][m] = n
               PROVE  n # t.root /\ m = p /\ s = q
    BY <1>2
  <2>1. m \in Members(t) /\ t.parent[n] = m
    BY <1>2 DEF Linked
  <2>2. m # Nil
    BY KeyAssumption
  <2>3. n # t.root
    BY <1>2, <2>1, <2>2
  <2>4. t.child[s][m] # t.child[Other(s)][m]
    <3>1. t.child[s][m] = n /\ t.child[s][m] # Nil
      BY <1>2
    <3>2. \A x \in Sides : t.child[x][m] # Nil => t.child[x][m] # t.child[Other(x)][m]
      BY <2>1, Apart
    <3> QED
      BY <3>1, <3>2
  <2> QED
    BY <1>2, <2>1, <2>3, <2>4 DEF Sides, Other
<1>7. /\ u \in Trees /\ u.red = t.red /\ u.value = t.value
      /\ u.root = IF t.root = n THEN up ELSE t.root
      /\ \A m \in Keys : u.parent[m] = IF m = up THEN p ELSE t.parent[m]
      /\ \A s \in Sides, m \in Keys :
            u.child[s][m] = IF t.child[s][m] = n THEN up ELSE t.child[s][m]
  <2>1. CASE n = t.root
    BY <1>2, <1>3, <1>5, <1>6, <2>1 DEF ReplaceNode, Trees
  <2>2. CASE n # t.root
    BY <1>2, <1>3, <1>5, <1>6, <2>2 DEF ReplaceNode, Trees
  <2> QED
    BY <2>1, <2>2
<1> HIDE DEF u
<1>8. /\ v \in Trees /\ v.red = t.red /\ v.value = t.value /\ v.root = u.root
      /\ \A m \in Keys : v.parent[m] = IF m = n THEN up ELSE u.parent[m]
      /\ \A s \in Sides, m \in Keys :
            v.child[s][m] = IF m = n /\ s = o THEN inner
                            ELSE IF m = up /\ s = side THEN n
                            ELSE u.child[s][m]
  BY <1>1, <1>2, <1>3, <1>4, <1>7 DEF Trees
<1> HIDE DEF v
<1>9. /\ w \in Trees /\ w.red = t.red /\ w.value = t.value /\ w.root = v.root
      /\ w.child = v.child
      /\ \A m \in Keys : w.parent[m] = IF m = inner THEN n ELSE v.parent[m]
  <2>1. CASE inner = Nil
    BY <1>8, <2>1, KeyAssumption
  <2>2. CASE inner # Nil
    BY <1>2, <1>4, <1>8, <2>2 DEF Trees
  <2> QED
    BY <2>1, <2>2
<1>10. Rotate(t, n, side) = w
  BY DEF Rotate, u, v
<1> HIDE DEF w
<1> QED
  BY <1>1, <1>2, <1>4, <1>7, <1>8, <1>9, <1>10 DEF Rotated

LEMMA RotateLinked ==
    ASSUME NEW t, NEW b, Linked(t), Spread(t, b), NEW n \in Members(t), NEW side \in Sides,
           t.child[Other(side)][n] # Nil, NEW r, Rotated(t, r, n, side)
    PROVE  Members(r) = Members(t) /\ Linked(r)
<1> DEFINE o == Other(side)
           up == t.child[o][n]
           inner == t.child[side][up]
           p == t.parent[n]
<1>1. /\ o \in Sides /\ o # side /\ Other(o) = side /\ Sides = {side, o}
  BY DEF Sides, Other
<1>2. /\ n \in Keys /\ n # Nil /\ up \in Members(t) /\ up # n /\ up # p /\ up # t.root
      /\ p \in Keys \cup {Nil} /\ p # n /\ (p = Nil <=> n = t.root)
      /\ n # t.root => p \in Members(t)
      /\ up # t.child[side][n]
  BY <1>1, Apart
<1>3. up \in Keys /\ up # Nil
  BY <1>2, KeyAssumption DEF Members
<1>4. /\ inner \in Keys \cup {Nil}
      /\ inner # Nil => inner \in Members(t) /\ inner # up /\ inner # n /\ t.parent[inner] = up
                        /\ inner # t.root /\ inner # t.child[o][up]
  BY <1>1, <1>2, <1>3, Apart DEF Linked
<1>5. \A s \in Sides, m \in Keys : t.child[s][m] = n => m = p /\ n # t.root
  BY <1>2, KeyAssumption DEF Linked
<1>6. /\ r.root = IF t.root = n THEN up ELSE t.root
      /\ \A m \in Keys :
              r.parent[m] = IF m = n THEN up
                            ELSE IF m = up THEN p
                            ELSE IF m = inner THEN n
                            ELSE t.parent[m]
      /\ \A s \in Sides, m \in Keys :
              r.child[s][m] = IF m = n /\ s = o THEN inner
                              ELSE IF m = up /\ s = side THEN n
                              ELSE IF t.child[s][m] = n THEN up
                              ELSE t.child[s][m]
      /\ r \in Trees
  BY DEF Rotated
<1>7. Members(r) = Members(t)
  <2> SUFFICES ASSUME NEW m \in Keys PROVE m \in Members(r) <=> m \in Members(t)
    BY DEF Members
  <2>1. CASE m = n
    BY <1>2, <1>3, <1>6, <2>1 DEF Members
  <2>2. CASE m = up
    BY <1>2, <1>3, <1>6, <2>2 DEF Members
  <2>3. CASE m = inner
    BY <1>2, <1>3, <1>4, <1>6, <2>3, KeyAssumption DEF Members
  <2>4. CASE m # n /\ m # up /\ m # inner
    BY <1>6, <2>4 DEF Members
  <2> QED
    BY <2>1, <2>2, <2>3, <2>4
<1> HIDE DEF o, up, inner, p
<1>8. \A m \in Members(r), s \in Sides : r.child[s][m] # Nil => r.parent[r.child[s][m]] = m
  <2> SUFFICES ASSUME NEW m \in Members(t), NEW s \in Sides, r.child[s][m] # Nil
               PROVE  r.parent[r.child[s][m]] = m
    BY <1>7
  <2>1. /\ m \in Keys /\ t.child[s][m] \in Keys \cup {Nil}
        /\ t.child[s][m] # Nil => t.parent[t.child[s][m]] = m
    BY Apart DEF Linked
  <2>2. CASE m = n
    <3>1. CASE s = o
      BY <1>1, <1>2, <1>3, <1>4, <1>6, <2>1, <2>2, <3>1
    <3>2. CASE s = side
      <4>1. r.child[s][m] = t.child[side][n]
        BY <1>1, <1>2, <1>5, <1>6, <2>1, <2>2, <3>2
      <4>2. t.child[side][n] # up /\ t.child[side][n] # n /\ t.child[side][n] # inner
        BY <1>2, <1>4, <1>5, <2>1, <2>2, <3>2, <4>1
      <4> QED
        BY <1>6, <2>1, <2>2, <3>2, <4>1, <4>2
    <3> QED
      BY <1>1, <3>1, <3>2
  <2>3. CASE m = up
    <3>1. CASE s = side
      BY <1>1, <1>2, <1>3, <1>6, <2>1, <2>3, <3>1
    <3>2. CASE s = o
      <4>1. r.child[s][m] = t.child[o][up]
        BY <1>1, <1>2, <1>5, <1>6, <2>1, <2>3, <3>2
      <4>2. t.child[o][up] # up /\ t.child[o][up] # n /\ t.child[o][up] # inner
        BY <1>2, <1>4, <1>5, <2>1, <2>3, <3>2, <4>1, Apart, KeyAssumption
      <4> QED
        BY <1>6, <2>1, <2>3, <3>2, <4>1, <4>2
    <3> QED
      BY <1>1, <3>1, <3>2
  <2>4. CASE m # n /\ m # up
    <3>1. t.child[s][m] # up /\ (inner # Nil => t.child[s][m] # inner)
      BY <1>1, <1>2, <1>3, <1>4, <2>1, <2>4 DEF up, Linked
    <3> QED
      BY <1>2, <1>3, <1>5, <1>6, <2>1, <2>4, <3>1
  <2> QED
    BY <2>2, <2>3, <2>4
<1>9. ASSUME NEW m \in Keys, r.parent[m] # Nil
      PROVE  r.parent[m] \in Members(r) /\ \E s \in Sides : r.child[s][r.parent[m]] = m
  <2>1. CASE m = n
    BY <1>1, <1>2, <1>3, <1>6, <1>7, <2>1
  <2>2. CASE m = up
    <3>1. n # t.root /\ p \in Members(t) /\ p # n /\ p # up
      BY <1>2, <1>3, <1>6, <1>9, <2>2
    <3>2. PICK s \in Sides : t.child[s][p] = n
      BY <1>2, <3>1 DEF Linked, p
    <3>3. p \in Keys
      BY <3>1 DEF Members
    <3>4. r.child[s][p] = up /\ r.parent[m] = p
      BY <1>2, <1>3, <1>6, <2>2, <3>1, <3>2, <3>3
    <3> QED
      BY <1>7, <2>2, <3>1, <3>4
  <2>3. CASE m = inner
    BY <1>1, <1>2, <1>3, <1>4, <1>6, <1>7, <2>3, KeyAssumption
  <2>4. CASE m # n /\ m # up /\ m # inner
    <3>1. r.parent[m] = t.parent[m] /\ t.parent[m] \in Members(t)
      BY <1>6, <1>9, <2>4 DEF Linked
    <3>2. PICK s \in Sides : t.child[s][t.parent[m]] = m
      BY <1>9, <3>1 DEF Linked
    <3>3. ~(t.parent[m] = n /\ s = o) /\ ~(t.parent[m] = up /\ s = side)
      BY <2>4, <3>2 DEF up, inner
    <3>4. t.parent[m] \in Keys
      BY <3>1 DEF Members
    <3> QED
      BY <1>6, <1>7, <2>4, <3>1, <3>2, <3>3, <3>4
  <2> QED
    BY <2>1, <2>2, <2>3, <2>4
<1>10. r.root # Nil => r.parent[r.root] = Nil
  <2>1. t.root # n /\ t.root # Nil => t.root \in Keys /\ t.root # inner /\ t.parent[t.root] = Nil
    BY <1>4, KeyAssumption DEF Linked, Trees
  <2> QED
    BY <1>2, <1>3, <1>6, <2>1
<1>11. r.root = Nil => \A m \in Keys : r.parent[m] = Nil
  BY <1>2, <1>3, <1>6 DEF Linked, p
<1>12. ASSUME NEW m \in Keys \ Members(r), NEW s \in Sides PROVE r.child[s][m] = Nil
  BY <1>2, <1>6, <1>7 DEF Linked
<1> QED
  BY <1>6, <1>7, <1>8, <1>9, <1>10, <1>11, <1>12 DEF Linked

(* The nodes that a rotation moves are different ones.                      *)
LEMMA MovedNodes ==
    ASSUME NEW t, NEW b, Linked(t), Spread(t, b), NEW n \in Members(t), NEW side \in Sides,
           t.child[Other(side)][n] # Nil
    PROVE  LET up    == t.child[Other(side)][n]
               inner == t.child[side][up]
               outer == t.child[Other(side)][up]
           IN  /\ n \in Keys /\ n # Nil /\ up \in Keys /\ up # Nil
               /\ up \in Members(t) /\ up # n /\ up # t.root /\ t.parent[up] = n
               /\ t.child[side][n] # n /\ t.child[side][n] # up
               /\ inner # up /\ inner # n /\ outer # up /\ outer # n
               /\ {inner, outer, t.child[side][n]} \subseteq Keys \cup {Nil}
<1> DEFINE up == t.child[Other(side)][n]
<1>1. /\ Other(side) \in Sides /\ Other(side) # side /\ Other(Other(side)) = side
  BY TwoSides
<1>2. /\ n \in Keys /\ n # Nil /\ up \in Members(t) /\ up # n /\ up # t.root
      /\ t.child[side][n] # n /\ t.child[side][n] # up /\ t.child[side][n] \in Keys \cup {Nil}
  BY <1>1, Apart
<1>3. t.parent[up] = n
  BY <1>1 DEF Linked
<1> HIDE DEF up
<1>4. /\ up \in Keys /\ up # Nil
      /\ \A s \in Sides : /\ t.child[s][up] \in Keys \cup {Nil}
                          /\ t.child[s][up] # Nil => t.child[s][up] # up /\ t.child[s][up] # n
  BY <1>2, <1>3, Apart
<1> QED
  BY <1>1, <1>2, <1>3, <1>4 DEF up

(* What is below a node after a rotation: it changes for two nodes.         *)
Turned(t, b, n, side) ==
    LET up    == t.child[Other(side)][n]
        inner == t.child[side][up]
    IN  [b EXCEPT ![up] = b[n], ![n] = {n} \cup b[t.child[side][n]] \cup b[inner]]

(* The children after a rotation, node by node.                             *)
LEMMA RotatedChildren ==
    ASSUME NEW t, NEW b, Linked(t), Spread(t, b), NEW n \in Members(t), NEW side \in Sides,
           t.child[Other(side)][n] # Nil, NEW r, Rotated(t, r, n, side)
    PROVE  LET up    == t.child[Other(side)][n]
               inner == t.child[side][up]
           IN  /\ up \in Members(t) /\ up # n /\ inner # n /\ inner # up
               /\ r.child[side][n] = t.child[side][n]
               /\ r.child[Other(side)][n] = inner
               /\ r.child[side][up] = n
               /\ r.child[Other(side)][up] = t.child[Other(side)][up]
               /\ \A m \in Members(t) \ {n, up}, s \in Sides :
                     r.child[s][m] = IF t.child[s][m] = n THEN up ELSE t.child[s][m]
               /\ \A m \in Members(t) \ {n, up}, s \in Sides :
                     t.child[s][m] # up
<1> DEFINE o == Other(side)
           up == t.child[o][n]
           inner == t.child[side][up]
<1>1. /\ o \in Sides /\ o # side /\ Other(o) = side /\ Sides = {side, o}
  BY TwoSides
<1>2. /\ n \in Keys /\ up \in Members(t) /\ up # n /\ up # t.parent[n] /\ n # Nil
      /\ t.child[side][n] # n
  BY <1>1, Apart
<1>3. up \in Keys /\ up # Nil /\ inner # up /\ inner # n /\ t.child[o][up] # n
  BY <1>1, MovedNodes
<1>4. \A s \in Sides, m \in Keys :
              r.child[s][m] = IF m = n /\ s = o THEN inner
                              ELSE IF m = up /\ s = side THEN n
                              ELSE IF t.child[s][m] = n THEN up
                              ELSE t.child[s][m]
  BY DEF Rotated
<1>5. ASSUME NEW m \in Members(t) \ {n, up}, NEW s \in Sides
      PROVE  /\ r.child[s][m] = IF t.child[s][m] = n THEN up ELSE t.child[s][m]
             /\ t.child[s][m] # up
  BY <1>1, <1>2, <1>3, <1>4 DEF Members, Linked
<1> QED
  BY <1>1, <1>2, <1>3, <1>4, <1>5

LEMMA RotateSpread ==
    ASSUME NEW t, NEW b, Linked(t), Spread(t, b), NEW n \in Members(t), NEW side \in Sides,
           t.child[Other(side)][n] # Nil, NEW r, Rotated(t, r, n, side)
    PROVE  Spread(r, Turned(t, b, n, side))
<1> DEFINE o == Other(side)
           up == t.child[o][n]
           inner == t.child[side][up]
           c == Turned(t, b, n, side)
<1>1. /\ o \in Sides /\ o # side /\ Other(o) = side /\ Sides = {side, o}
  BY TwoSides
<1>2. /\ n \in Keys /\ n # Nil /\ up \in Members(t) /\ up # n /\ up # t.root /\ t.child[side][n] # n
      /\ t.child[side][n] # up
  BY <1>1, MovedNodes
<1>3. up \in Keys /\ up # Nil /\ inner # up /\ inner # n /\ t.child[o][up] # n /\ t.child[o][up] # up
  BY <1>1, MovedNodes
<1>4. Members(r) = Members(t)
  BY RotateLinked
<1>5. /\ b \in [Keys \cup {Nil} -> SUBSET Keys] /\ b[Nil] = {} /\ b[t.root] = Members(t)
      /\ b[n] = {n} \cup b[up] \cup b[t.child[side][n]]
      /\ n \notin b[up] /\ n \notin b[t.child[side][n]]
      /\ b[up] \cap b[t.child[side][n]] = {}
      /\ b[up] = {up} \cup b[inner] \cup b[t.child[o][up]]
      /\ up \notin b[inner] /\ up \notin b[t.child[o][up]]
      /\ b[inner] \cap b[t.child[o][up]] = {}
      /\ b[n] \subseteq Members(t)
  BY <1>1, <1>2 DEF Spread
<1>6. /\ c \in [Keys \cup {Nil} -> SUBSET Keys]
      /\ c[up] = b[n] /\ c[n] = {n} \cup b[t.child[side][n]] \cup b[inner]
      /\ \A m \in (Keys \cup {Nil}) \ {n, up} : c[m] = b[m]
  <2>1. {n} \cup b[t.child[side][n]] \cup b[inner] \subseteq Keys
    BY <1>5, <1>2 DEF Members
  <2>2. b[n] \subseteq Keys
    BY <1>5, <1>2
  <2> QED
    BY <1>2, <1>3, <1>5, <2>1, <2>2 DEF Turned
<1>7. c[Nil] = {}
  BY <1>2, <1>3, <1>5, <1>6
<1>8. c[r.root] = Members(r)
  <2>1. r.root = IF t.root = n THEN up ELSE t.root
    BY DEF Rotated
  <2>2. t.root \in Keys \cup {Nil}
    BY DEF Linked, Trees
  <2> QED
    BY <1>2, <1>3, <1>4, <1>5, <1>6, <2>1, <2>2
<1>9. \A m \in Members(r) : c[m] \subseteq Members(r)
  BY <1>4, <1>5, <1>6 DEF Spread, Members
<1>10. /\ r.child[side][n] = t.child[side][n] /\ r.child[o][n] = inner
       /\ r.child[side][up] = n /\ r.child[o][up] = t.child[o][up]
       /\ \A m \in Members(t) \ {n, up}, s \in Sides :
             /\ r.child[s][m] = IF t.child[s][m] = n THEN up ELSE t.child[s][m]
             /\ t.child[s][m] # up
  BY RotatedChildren
<1>11. /\ t.child[side][n] \in Keys \cup {Nil} /\ inner \in Keys \cup {Nil} /\ t.child[o][up] \in Keys \cup {Nil}
  BY MovedNodes
<1>12. ASSUME NEW m \in Members(t) \ {n, up}, NEW s \in Sides
       PROVE  c[m] = b[m] /\ c[r.child[s][m]] = b[t.child[s][m]]
  <2>1. m \in Keys /\ t.child[s][m] \in Keys \cup {Nil}
    BY Apart
  <2> QED
    BY <1>6, <1>10, <2>1
<1>13. c[r.child[side][n]] = b[t.child[side][n]] /\ c[r.child[o][n]] = b[inner]
  BY <1>2, <1>3, <1>6, <1>10, <1>11
<1>14. c[r.child[side][up]] = c[n] /\ c[r.child[o][up]] = b[t.child[o][up]]
  BY <1>2, <1>3, <1>6, <1>10, <1>11
<1> HIDE DEF c, up, inner, o
<1>15. ASSUME NEW m \in Members(t), NEW s \in Sides
       PROVE  /\ c[m] = {m} \cup c[r.child[s][m]] \cup c[r.child[Other(s)][m]]
              /\ m \notin c[r.child[s][m]]
              /\ c[r.child[s][m]] \cap c[r.child[Other(s)][m]] = {}
  <2>1. CASE m = n /\ s = side
    BY <1>5, <1>6, <1>13, <2>1 DEF o
  <2>2. CASE m = n /\ s = o
    BY <1>1, <1>5, <1>6, <1>13, <2>2
  <2>3. CASE m = up /\ s = side
    BY <1>2, <1>5, <1>6, <1>14, <2>3 DEF o
  <2>4. CASE m = up /\ s = o
    BY <1>1, <1>2, <1>5, <1>6, <1>14, <2>4
  <2>5. CASE m \notin {n, up}
    <3>1. c[m] = b[m] /\ c[r.child[s][m]] = b[t.child[s][m]] 
          /\ c[r.child[Other(s)][m]] = b[t.child[Other(s)][m]]
      BY <1>12, <2>5, TwoSides
    <3> QED
      BY <3>1 DEF Spread
  <2> QED
    BY <1>1, <2>1, <2>2, <2>3, <2>4, <2>5
<1>16. \A m \in Members(r), s \in Sides :
          /\ c[m] = {m} \cup c[r.child[s][m]] \cup c[r.child[Other(s)][m]]
          /\ m \notin c[r.child[s][m]]
          /\ c[r.child[s][m]] \cap c[r.child[Other(s)][m]] = {}
  BY <1>4, <1>15
<1>17. Spread(r, c)
  BY <1>6, <1>7, <1>8, <1>9, <1>16 DEF Spread
<1> QED
  BY <1>17 DEF c

LEMMA RotateOrdered ==
    ASSUME NEW t, NEW b, Linked(t), Spread(t, b), NEW n \in Members(t), NEW side \in Sides,
           t.child[Other(side)][n] # Nil, NEW r, Rotated(t, r, n, side), NEW d, Ordered(t, b, d)
    PROVE  Ordered(r, Turned(t, b, n, side), d)
<1> DEFINE o == Other(side)
           up == t.child[o][n]
           inner == t.child[side][up]
           c == Turned(t, b, n, side)
<1>1. /\ o \in Sides /\ o # side /\ Other(o) = side /\ Sides = {side, o}
  BY TwoSides
<1>2. /\ n \in Keys /\ n # Nil /\ up \in Members(t) /\ up # n /\ up # t.root /\ t.child[side][n] # n
      /\ t.child[side][n] # up
  BY <1>1, MovedNodes
<1>3. up \in Keys /\ up # Nil /\ inner # up /\ inner # n /\ t.child[o][up] # n /\ t.child[o][up] # up
  BY <1>1, MovedNodes
<1>4. Members(r) = Members(t)
  BY RotateLinked
<1>5. /\ b \in [Keys \cup {Nil} -> SUBSET Keys] /\ b[Nil] = {} /\ b[t.root] = Members(t)
      /\ b[n] = {n} \cup b[up] \cup b[t.child[side][n]]
      /\ b[up] = {up} \cup b[inner] \cup b[t.child[o][up]]
      /\ b[n] \subseteq Members(t)
  BY <1>1, <1>2 DEF Spread
<1>6. /\ c[up] = b[n] /\ c[n] = {n} \cup b[t.child[side][n]] \cup b[inner]
      /\ \A m \in (Keys \cup {Nil}) \ {n, up} : c[m] = b[m]
  BY <1>2, <1>3, <1>5 DEF Turned
<1>10. /\ r.child[side][n] = t.child[side][n] /\ r.child[o][n] = inner
       /\ r.child[side][up] = n /\ r.child[o][up] = t.child[o][up]
       /\ \A m \in Members(t) \ {n, up}, s \in Sides :
             /\ r.child[s][m] = IF t.child[s][m] = n THEN up ELSE t.child[s][m]
             /\ t.child[s][m] # up
  BY RotatedChildren
<1>11. /\ t.child[side][n] \in Keys \cup {Nil} /\ inner \in Keys \cup {Nil} /\ t.child[o][up] \in Keys \cup {Nil}
  BY MovedNodes
<1>12. ASSUME NEW m \in Members(t) \ {n, up}, NEW s \in Sides
       PROVE  c[r.child[s][m]] = b[t.child[s][m]]
  <2>1. m \in Keys /\ t.child[s][m] \in Keys \cup {Nil}
    BY Apart
  <2> QED
    BY <1>6, <1>10, <2>1
<1>13. c[r.child[side][n]] = b[t.child[side][n]] /\ c[r.child[o][n]] = b[inner]
  BY <1>2, <1>3, <1>6, <1>10, <1>11
<1>14. c[r.child[side][up]] = c[n] /\ c[r.child[o][up]] = b[t.child[o][up]]
  BY <1>2, <1>3, <1>6, <1>10, <1>11
<1>15. /\ \A x \in b[t.child[side][n]] \ {d} :
             /\ n # d => Beside(side, x, n)
             /\ \A y \in b[up] \ {d} : Beside(side, x, y)
       /\ \A x \in b[up] \ {d} :
             /\ n # d => Beside(o, x, n)
             /\ \A y \in b[t.child[side][n]] \ {d} : Beside(o, x, y)
       /\ \A x \in b[inner] \ {d} :
             /\ up # d => Beside(side, x, up)
             /\ \A y \in b[t.child[o][up]] \ {d} : Beside(side, x, y)
       /\ \A x \in b[t.child[o][up]] \ {d} :
             /\ up # d => Beside(o, x, up)
             /\ \A y \in b[inner] \ {d} : Beside(o, x, y)
  BY <1>1, <1>2 DEF Ordered
<1>16. \A x, y : Beside(o, x, y) <=> Beside(side, y, x)
  BY DEF Beside, Sides, Other
<1> HIDE DEF c, up, inner, o
<1>17. ASSUME NEW m \in Members(t), NEW s \in Sides, NEW x \in c[r.child[s][m]] \ {d}
       PROVE  /\ m # d => Beside(s, x, m)
              /\ \A y \in c[r.child[Other(s)][m]] \ {d} : Beside(s, x, y)
  <2>1. CASE m = n /\ s = side
    BY <1>5, <1>13, <1>15, <1>17, <2>1 DEF o
  <2>2. CASE m = n /\ s = o
    BY <1>1, <1>5, <1>13, <1>15, <1>16, <1>17, <2>2
  <2>3. CASE m = up /\ s = side
    BY <1>2, <1>5, <1>6, <1>14, <1>15, <1>16, <1>17, <2>3 DEF o
  <2>4. CASE m = up /\ s = o
    BY <1>1, <1>2, <1>5, <1>6, <1>14, <1>15, <1>16, <1>17, <2>4
  <2>5. CASE m \notin {n, up}
    <3>1. c[r.child[s][m]] = b[t.child[s][m]] /\ c[r.child[Other(s)][m]] = b[t.child[Other(s)][m]]
      BY <1>12, <2>5, TwoSides
    <3> QED
      BY <1>17, <3>1 DEF Ordered
  <2> QED
    BY <1>1, <2>1, <2>2, <2>3, <2>4, <2>5
<1>18. Ordered(r, c, d)
  BY <1>4, <1>17 DEF Ordered
<1> QED
  BY <1>18 DEF c

(* A rotation keeps the shape.                                              *)
LEMMA RotateShaped ==
    ASSUME NEW t, NEW b, NEW d, Shaped(t, b, d), NEW n \in Members(t), NEW side \in Sides,
           t.child[Other(side)][n] # Nil
    PROVE  /\ Members(Rotate(t, n, side)) = Members(t)
           /\ Shaped(Rotate(t, n, side), Turned(t, b, n, side), d)
           /\ Rotated(t, Rotate(t, n, side), n, side)
<1> DEFINE r == Rotate(t, n, side)
<1>1. Rotated(t, r, n, side)
  BY RotateRotates DEF Shaped
<1> HIDE DEF r
<1>2. Members(r) = Members(t) /\ Linked(r) /\ Spread(r, Turned(t, b, n, side))
      /\ Ordered(r, Turned(t, b, n, side), d)
  BY <1>1, RotateLinked, RotateSpread, RotateOrdered DEF Shaped
<1> QED
  BY <1>1, <1>2 DEF Shaped, r

-----------------------------------------------------------------------------
(* The recursive definitions of the model, along the height of the subtrees. *)

Rank(t, b) ==
    [n \in Keys \cup {Nil} |->
       IF n = Nil THEN 0 ELSE IF n \in Members(t) THEN Cardinality(b[n]) ELSE 1]

LEMMA RankFalls ==
    ASSUME NEW t, NEW b, Linked(t), Spread(t, b)
    PROVE  /\ Cardinality(Keys) \in Nat
           /\ Rank(t, b) \in [Keys \cup {Nil} -> 0 .. Cardinality(Keys) + 1]
           /\ \A n \in Keys, s \in Sides : Rank(t, b)[t.child[s][n]] < Rank(t, b)[n]
<1>1. IsFiniteSet(Keys) /\ Cardinality(Keys) \in Nat
  BY KeyAssumption, FS_CardinalityType
<1>2. ASSUME NEW n \in Members(t)
      PROVE  Cardinality(b[n]) \in 0 .. Cardinality(Keys) /\ IsFiniteSet(b[n])
  <2>1. b[n] \subseteq Keys
    BY DEF Spread, Members
  <2> QED
    BY <1>1, <2>1, FS_Subset, FS_CardinalityType
<1>3. Rank(t, b) \in [Keys \cup {Nil} -> 0 .. Cardinality(Keys) + 1]
  BY <1>1, <1>2 DEF Rank
<1>4. ASSUME NEW n \in Keys, NEW s \in Sides
      PROVE  Rank(t, b)[t.child[s][n]] < Rank(t, b)[n]
  <2> DEFINE c == t.child[s][n]
  <2>1. n # Nil /\ c \in Keys \cup {Nil}
    BY KeyAssumption DEF Linked, Trees
  <2>2. CASE n \notin Members(t)
    <3>1. c = Nil
      BY <2>2 DEF Linked
    <3> QED
      BY <2>1, <2>2, <3>1 DEF Rank
  <2>3. CASE n \in Members(t) /\ c = Nil
    <3>1. n \in b[n] /\ IsFiniteSet(b[n])
      BY <1>2, <2>3 DEF Spread
    <3>2. Cardinality(b[n]) # 0 /\ Cardinality(b[n]) \in Nat
      BY <3>1, <2>3, FS_EmptySet, FS_CardinalityType
    <3> QED
      BY <2>1, <2>3, <3>2 DEF Rank
  <2>4. CASE n \in Members(t) /\ c # Nil
    <3>1. c \in Members(t)
      BY <2>4, Apart
    <3>2. b[c] \subseteq b[n] /\ b[c] # b[n]
      BY <2>4 DEF Spread
    <3>3. Cardinality(b[c]) < Cardinality(b[n])
      BY <1>2, <2>4, <3>1, <3>2, FS_Subset
    <3> QED
      BY <2>1, <2>4, <3>1, <3>3 DEF Rank
  <2> QED
    BY <2>2, <2>3, <2>4
<1> QED
  BY <1>1, <1>3, <1>4

(* A step that defines a function anew from its values at the children.      *)
Downward(t, S, F, step) ==
    /\ S \in {Keys, Keys \cup {Nil}} /\ F # {}
    /\ \A f, g \in F : (\A x \in S : f[x] = g[x]) => f = g
    /\ \A f \in F : step[f] \in F
    /\ \A f, g \in F, n \in S :
          (n \in Keys => \A s \in Sides : t.child[s][n] \in S => f[t.child[s][n]] = g[t.child[s][n]])
             => step[f][n] = step[g][n]

LEMMA DownRecursion ==
    ASSUME NEW t, NEW b, Linked(t), Spread(t, b), NEW S, NEW F, NEW step, Downward(t, S, F, step)
    PROVE  \E f \in F : f = step[f]
<1> DEFINE rank == Rank(t, b)
           top == Cardinality(Keys) + 1
<1>1. top \in Nat /\ \A x \in S : rank[x] \in 0 .. top
  BY RankFalls DEF Downward
<1>2. \A n \in Keys, s \in Sides : t.child[s][n] \in S => rank[t.child[s][n]] < rank[n]
  BY RankFalls
<1> HIDE DEF rank, top
<1>3. \A f, g \in F, x \in S :
              (\A y \in S : rank[y] < rank[x] => f[y] = g[y]) => step[f][x] = step[g][x]
  <2> SUFFICES ASSUME NEW f \in F, NEW g \in F, NEW x \in S,
                      \A y \in S : rank[y] < rank[x] => f[y] = g[y]
               PROVE  step[f][x] = step[g][x]
    OBVIOUS
  <2>1. x \in Keys => \A s \in Sides : t.child[s][x] \in S => f[t.child[s][x]] = g[t.child[s][x]]
    BY <1>2
  <2> QED
    BY <2>1 DEF Downward
<1>4. Recursive(S, F, step, rank, top)
  BY <1>1, <1>3 DEF Recursive, Downward
<1> QED
  BY <1>4, RankRecursion

LEMMA DownInduction ==
    ASSUME NEW t, NEW b, Linked(t), Spread(t, b), NEW P, Nil \in P,
           \A n \in Members(t) : (\A s \in Sides : t.child[s][n] \in P) => n \in P
    PROVE  Members(t) \subseteq P
<1> DEFINE S == Members(t) \cup {Nil}
           rank == [n \in S |-> Rank(t, b)[n]]
<1>1. S \subseteq Keys \cup {Nil}
  BY DEF Members
<1>2. rank \in [S -> Nat]
  BY <1>1, RankFalls
<1>3. \A n \in Members(t), s \in Sides : t.child[s][n] \in S /\ rank[t.child[s][n]] < rank[n]
  <2>1. \A n \in Members(t), s \in Sides : t.child[s][n] \in S /\ n \in Keys
    BY Apart
  <2> QED
    BY <2>1, RankFalls
<1> HIDE DEF rank
<1>4. \A x \in S : (\A y \in S : rank[y] < rank[x] => y \in P) => x \in P
  BY <1>3
<1>5. S \subseteq P
  BY <1>2, <1>4, RankInduction
<1> QED
  BY <1>5

(* What is below a node that is below another is below that one too.        *)
LEMMA Nested ==
    ASSUME NEW t, NEW b, Linked(t), Spread(t, b), NEW n \in Members(t), NEW m \in b[n]
    PROVE  m \in Members(t) /\ b[m] \subseteq b[n] /\ m \in b[m] /\ (m # n => n \notin b[m])
<1> DEFINE P == {Nil} \cup {x \in Members(t) : \A y \in b[x] : b[y] \subseteq b[x]}
<1>1. b[Nil] = {}
  BY DEF Spread
<1>2. ASSUME NEW x \in Members(t), \A s \in Sides : t.child[s][x] \in P
      PROVE  x \in P
  <2> SUFFICES ASSUME NEW y \in b[x] PROVE b[y] \subseteq b[x]
    OBVIOUS
  <2>1. b[x] = {x} \cup b[t.child["left"][x]] \cup b[t.child["right"][x]]
    BY DEF Spread, Sides, Other
  <2>2. /\ \A z \in b[t.child["left"][x]] : b[z] \subseteq b[t.child["left"][x]]
        /\ \A z \in b[t.child["right"][x]] : b[z] \subseteq b[t.child["right"][x]]
    BY <1>1, <1>2 DEF Sides
  <2> QED
    BY <2>1, <2>2
<1>3. Members(t) \subseteq P
  BY <1>2, DownInduction
<1>4. n \in P
  BY <1>3
<1>5. m \in Members(t) /\ m \in b[m]
  BY DEF Spread, Sides
<1>6. b[m] \subseteq b[n]
  BY <1>4, KeyAssumption DEF Members
<1>7. ASSUME m # n PROVE n \notin b[m]
  <2>1. b[n] = {n} \cup b[t.child["left"][n]] \cup b[t.child["right"][n]]
        /\ n \notin b[t.child["left"][n]] /\ n \notin b[t.child["right"][n]]
    BY DEF Spread, Sides, Other
  <2>2. PICK s \in Sides : m \in b[t.child[s][n]]
    BY <1>7, <2>1 DEF Sides
  <2>3. t.child[s][n] \in Members(t)
    BY <1>1, <2>2, Apart
  <2>4. b[m] \subseteq b[t.child[s][n]]
    BY <1>3, <2>2, <2>3, KeyAssumption DEF Members
  <2> QED
    BY <2>1, <2>4, <2>2 DEF Sides
<1> QED
  BY <1>5, <1>6, <1>7

(* The search for a key goes down the right way.                            *)
LEMMA WayDown ==
    ASSUME NEW t, NEW b, Shaped(t, b, Nil), NEW n \in Members(t), NEW k \in Keys, k # n
    PROVE  LET side == IF k < n THEN "left" ELSE "right"
           IN  /\ Toward(t, n, k) = t.child[side][n]
               /\ side \in Sides
               /\ Beside(side, k, n)
               /\ k \in b[n] <=> k \in b[Toward(t, n, k)]
               /\ b[n] = {n} \cup b[Toward(t, n, k)] \cup b[t.child[Other(side)][n]]
               /\ \A x \in b[t.child[Other(side)][n]] : Beside(side, n, x) /\ Beside(side, k, x)
<1> DEFINE side == IF k < n THEN "left" ELSE "right"
<1>1. n \in Keys /\ n \in Int /\ k \in Int /\ side \in Sides
  BY KeyAssumption DEF Members, Sides
<1>2. Toward(t, n, k) = t.child[side][n]
  BY DEF Toward
<1>3. Beside(side, k, n)
  BY <1>1 DEF Beside
<1>4. /\ b[n] = {n} \cup b[t.child[side][n]] \cup b[t.child[Other(side)][n]]
      /\ b[n] \subseteq Int /\ b[n] \subseteq Keys
  BY <1>1, KeyAssumption DEF Shaped, Spread, Members
<1>5. \A x \in b[t.child[Other(side)][n]] : Beside(Other(side), x, n)
  BY <1>1, <1>4, TwoSides, KeyAssumption DEF Shaped, Ordered
<1>6. \A x \in b[t.child[Other(side)][n]] : Beside(side, n, x) /\ Beside(side, k, x)
  BY <1>1, <1>3, <1>4, <1>5 DEF Beside, Other, Sides
<1>7. k \notin b[t.child[Other(side)][n]]
  BY <1>6, <1>1 DEF Beside
<1> QED
  BY <1>1, <1>2, <1>3, <1>4, <1>6, <1>7

LEMMA LookupFinds ==
    ASSUME NEW t, NEW b, Shaped(t, b, Nil), NEW k \in Keys
    PROVE  Lookup(t, k) = IF k \in Members(t) THEN k ELSE Nil
<1> DEFINE S == Keys \cup {Nil}
           Step(f, n) == IF n = Nil \/ n = k THEN n ELSE f[Toward(t, n, k)]
           F == [S -> S]
           step == [f \in F |-> [n \in S |-> Step(f, n)]]
           from == CHOOSE f : f = [n \in S |-> Step(f, n)]
<1>1. Linked(t) /\ Spread(t, b) /\ t \in Trees
  BY DEF Shaped, Linked
<1>2. \A n \in Keys : Toward(t, n, k) \in S
  BY <1>1 DEF Trees, Toward, Sides
<1>3. F # {} /\ \A f, g \in F : (\A x \in S : f[x] = g[x]) => f = g
  <2>1. [n \in S |-> n] \in F
    OBVIOUS
  <2>2. \A f, g \in F : (\A x \in S : f[x] = g[x]) => f = g
    OBVIOUS
  <2> QED
    BY <2>1, <2>2, Zenon
<1>4. /\ \A f \in F : step[f] \in F
      /\ \A f, g \in F, n \in S :
            (n \in Keys => \A s \in Sides : t.child[s][n] \in S => f[t.child[s][n]] = g[t.child[s][n]])
               => step[f][n] = step[g][n]
  BY <1>1, <1>2 DEF Trees, Toward, Sides
<1>5. Downward(t, S, F, step)
  BY <1>3, <1>4 DEF Downward
<1> HIDE DEF step, F
<1>6. PICK f \in F : f = step[f]
  BY <1>1, <1>5, DownRecursion
<1>7. from = [n \in S |-> Step(from, n)]
  <2>1. f = [n \in S |-> Step(f, n)]
    BY <1>6 DEF step
  <2> QED
    BY <2>1
<1>8. Lookup(t, k) = from[t.root]
  BY DEF Lookup
<1> HIDE DEF from
<1> DEFINE P == {n \in Members(t) \cup {Nil} : from[n] = IF k \in b[n] THEN k ELSE Nil}
<1>9. Nil \in P
  BY <1>1, <1>7 DEF Spread
<1>10. ASSUME NEW n \in Members(t), \A s \in Sides : t.child[s][n] \in P
       PROVE  n \in P
  <2>1. n \in Keys /\ n # Nil
    BY <1>1, Apart
  <2>2. CASE n = k
    <3>1. k \in b[n]
      BY <1>1, <2>2 DEF Spread, Sides
    <3> QED
      BY <1>7, <2>1, <2>2, <3>1
  <2>3. CASE n # k
    <3>1. from[n] = from[Toward(t, n, k)]
      BY <1>7, <2>1, <2>3
    <3>2. Toward(t, n, k) \in P
      BY <1>10 DEF Toward, Sides
    <3>3. k \in b[n] <=> k \in b[Toward(t, n, k)]
      BY <2>3, WayDown
    <3> QED
      BY <3>1, <3>2, <3>3
  <2> QED
    BY <2>2, <2>3
<1>11. Members(t) \subseteq P
  BY <1>1, <1>9, <1>10, DownInduction
<1>12. t.root \in P
  BY <1>1, <1>9, <1>11 DEF Members, Trees
<1> QED
  BY <1>1, <1>8, <1>12 DEF Spread

(* Functions on a set are determined by their values.                       *)
LEMMA Extensional ==
    ASSUME NEW S, NEW V, NEW v \in V
    PROVE  /\ [S -> V] # {}
           /\ \A f, g \in [S -> V] : (\A x \in S : f[x] = g[x]) => f = g
<1>1. [n \in S |-> v] \in [S -> V]
  OBVIOUS
<1>2. \A f, g \in [S -> V] : (\A x \in S : f[x] = g[x]) => f = g
  OBVIOUS
<1> QED
  BY <1>1, <1>2, Zenon

(* The seat of a new key is a node without a child on its side, and every     *)
(* node above has the key on the side where the seat is.                    *)
LEMMA SeatFits ==
    ASSUME NEW t, NEW b, Shaped(t, b, Nil), NEW k \in Keys, k \notin Members(t), t.root # Nil
    PROVE  /\ Seat(t, k) \in Members(t)
           /\ Toward(t, Seat(t, k), k) = Nil
           /\ \A m \in Members(t), s \in Sides :
                 Seat(t, k) \in b[t.child[s][m]] => Beside(s, k, m)
<1> DEFINE S == Keys
           Step(f, n) == IF Toward(t, n, k) = Nil THEN n ELSE f[Toward(t, n, k)]
           F == [S -> Keys]
           step == [f \in F |-> [n \in S |-> Step(f, n)]]
           from == CHOOSE f : f = [n \in S |-> Step(f, n)]
<1>1. Linked(t) /\ Spread(t, b) /\ t \in Trees
  BY DEF Shaped, Linked
<1>2. \A n \in Keys : Toward(t, n, k) \in Keys \cup {Nil}
  BY <1>1 DEF Trees, Toward, Sides
<1>3. F # {} /\ \A f, g \in F : (\A x \in S : f[x] = g[x]) => f = g
  BY Extensional
<1>4. /\ \A f \in F : step[f] \in F
      /\ \A f, g \in F, n \in S :
            (n \in Keys => \A s \in Sides : t.child[s][n] \in S => f[t.child[s][n]] = g[t.child[s][n]])
               => step[f][n] = step[g][n]
  BY <1>1, <1>2 DEF Trees, Toward, Sides
<1>5. Downward(t, S, F, step)
  BY <1>3, <1>4 DEF Downward
<1> HIDE DEF step, F
<1>6. PICK f \in F : f = step[f]
  BY <1>1, <1>5, DownRecursion
<1>7. from = [n \in S |-> Step(from, n)]
  <2>1. f = [n \in S |-> Step(f, n)]
    BY <1>6 DEF step
  <2> QED
    BY <2>1
<1>8. Seat(t, k) = from[t.root]
  BY DEF Seat
<1> HIDE DEF from
<1> DEFINE Fits(n) ==
             /\ from[n] \in b[n]
             /\ Toward(t, from[n], k) = Nil
             /\ \A m \in b[n], s \in Sides : from[n] \in b[t.child[s][m]] => Beside(s, k, m)
           P == {Nil} \cup {n \in Members(t) : Fits(n)}
<1>10. ASSUME NEW n \in Members(t), \A s \in Sides : t.child[s][n] \in P
       PROVE  Fits(n)
  <2> DEFINE side == IF k < n THEN "left" ELSE "right"
             o == Other(side)
             c == t.child[side][n]
  <2>1. n \in Keys /\ n # Nil /\ n # k
    BY <1>1, Apart
  <2>2. /\ Toward(t, n, k) = c /\ side \in Sides /\ Beside(side, k, n)
        /\ b[n] = {n} \cup b[c] \cup b[t.child[o][n]]
    BY <2>1, WayDown
  <2>3. o \in Sides /\ Other(o) = side /\ Sides = {side, o}
    BY <2>2, TwoSides
  <2>4. /\ n \notin b[c] /\ n \notin b[t.child[o][n]] /\ b[c] \cap b[t.child[o][n]] = {}
        /\ b[Nil] = {}
    BY <1>1, <2>2, <2>3 DEF Spread
  <2> HIDE DEF side, o, c
  <2>5. CASE c = Nil
    <3>1. from[n] = n
      BY <1>7, <2>1, <2>2, <2>5
    <3>2. \A m \in b[n], s \in Sides : n \in b[t.child[s][m]] => FALSE
      <4> SUFFICES ASSUME NEW m \in b[n], NEW s \in Sides, n \in b[t.child[s][m]] PROVE FALSE
        OBVIOUS
      <4>1. m \in Members(t) /\ (m # n => n \notin b[m])
        BY <1>1, Nested
      <4>2. b[t.child[s][m]] \subseteq b[m] /\ m \notin b[t.child[s][m]]
        BY <1>1, <4>1 DEF Spread
      <4> QED
        BY <4>1, <4>2
    <3> QED
      BY <2>2, <2>5, <3>1, <3>2
  <2>6. CASE c # Nil
    <3>1. from[n] = from[c]
      BY <1>7, <2>1, <2>2, <2>6
    <3>2. Fits(c) /\ c \in Members(t)
      BY <1>10, <2>2, <2>6 DEF c
    <3>3. ASSUME NEW m \in b[n], NEW s \in Sides, from[n] \in b[t.child[s][m]]
          PROVE  Beside(s, k, m)
      <4>1. CASE m = n
        BY <2>2, <2>3, <2>4, <3>1, <3>2, <3>3, <4>1 DEF c
      <4>2. CASE m \in b[c]
        BY <3>1, <3>2, <3>3, <4>2
      <4>3. CASE m \in b[t.child[o][n]]
        <5>1. t.child[o][n] \in Members(t)
          BY <1>1, <2>3, <2>4, <4>3, Apart
        <5>2. m \in Members(t) /\ b[m] \subseteq b[t.child[o][n]]
          BY <1>1, <4>3, <5>1, Nested
        <5>3. b[t.child[s][m]] \subseteq b[m]
          BY <1>1, <5>2 DEF Spread
        <5> QED
          BY <2>4, <3>1, <3>2, <3>3, <5>2, <5>3
      <4> QED
        BY <2>2, <4>1, <4>2, <4>3
    <3> QED
      BY <2>2, <3>1, <3>2, <3>3
  <2> QED
    BY <2>5, <2>6
<1> HIDE DEF Fits
<1>11. Members(t) \subseteq P
  BY <1>1, <1>10, DownInduction
<1>12. t.root \in Members(t) /\ t.root # Nil
  BY <1>1 DEF Members, Trees
<1>13. Fits(t.root)
  BY <1>11, <1>12
<1>14. b[t.root] = Members(t)
  BY <1>1 DEF Spread
<1> QED
  BY <1>8, <1>13, <1>14 DEF Fits


(* The outermost node below n on a side.                                    *)
LEMMA OutermostIsLast ==
    ASSUME NEW t, NEW b, Shaped(t, b, Nil), NEW n \in Members(t), NEW side \in Sides
    PROVE  LET p == Outermost(t, side, n)
           IN  /\ p \in b[n] /\ p \in Members(t)
               /\ t.child[side][p] = Nil
               /\ \A x \in b[n] \ {p} : Beside(Other(side), x, p)
<1> DEFINE S == Keys
           Step(f, m) == IF t.child[side][m] = Nil THEN m ELSE f[t.child[side][m]]
           F == [S -> Keys]
           step == [f \in F |-> [m \in S |-> Step(f, m)]]
           from == CHOOSE f : f = [m \in S |-> Step(f, m)]
           o == Other(side)
<1>1. Linked(t) /\ Spread(t, b) /\ t \in Trees
  BY DEF Shaped, Linked
<1>2. \A m \in Keys : t.child[side][m] \in Keys \cup {Nil}
  BY <1>1 DEF Trees
<1>3. F # {} /\ \A f, g \in F : (\A x \in S : f[x] = g[x]) => f = g
  <2>1. n \in Keys
    BY DEF Members
  <2> QED
    BY <2>1, Extensional
<1>4. /\ \A f \in F : step[f] \in F
      /\ \A f, g \in F, m \in S :
            (m \in Keys => \A s \in Sides : t.child[s][m] \in S => f[t.child[s][m]] = g[t.child[s][m]])
               => step[f][m] = step[g][m]
  BY <1>1, <1>2 DEF Trees
<1>5. Downward(t, S, F, step)
  BY <1>3, <1>4 DEF Downward
<1> HIDE DEF step, F
<1>6. PICK f \in F : f = step[f]
  BY <1>1, <1>5, DownRecursion
<1>7. from = [m \in S |-> Step(from, m)]
  <2>1. f = [m \in S |-> Step(f, m)]
    BY <1>6 DEF step
  <2> QED
    BY <2>1
<1>8. Outermost(t, side, n) = from[n]
  BY DEF Outermost
<1> HIDE DEF from
<1> DEFINE Last(m) ==
             /\ from[m] \in b[m]
             /\ t.child[side][from[m]] = Nil
             /\ \A x \in b[m] \ {from[m]} : Beside(o, x, from[m])
           P == {Nil} \cup {m \in Members(t) : Last(m)}
<1>9. /\ o \in Sides /\ Other(o) = side /\ Sides = {side, o}
  BY TwoSides
<1>10. ASSUME NEW m \in Members(t), \A s \in Sides : t.child[s][m] \in P
       PROVE  Last(m)
  <2> DEFINE c == t.child[side][m]
  <2>1. m \in Keys /\ m # Nil
    BY <1>1, Apart
  <2>2. /\ b[m] = {m} \cup b[c] \cup b[t.child[o][m]]
        /\ b[Nil] = {} /\ b[m] \subseteq Keys
    BY <1>1 DEF Spread, Members
  <2>3. /\ \A x \in b[t.child[o][m]] :
              Beside(o, x, m) /\ \A y \in b[c] : Beside(o, x, y)
        /\ \A x \in b[c] : Beside(side, x, m)
    BY <1>9, <2>1, <2>2, KeyAssumption DEF Shaped, Ordered
  <2>4. \A x, y : Beside(o, x, y) <=> Beside(side, y, x)
    BY DEF Beside, Sides, Other
  <2> HIDE DEF c, o
  <2>5. CASE c = Nil
    <3>1. from[m] = m
      BY <1>7, <2>1, <2>5 DEF c
    <3> QED
      BY <2>2, <2>3, <2>5, <3>1 DEF c
  <2>6. CASE c # Nil
    <3>1. from[m] = from[c]
      BY <1>7, <2>1, <2>6 DEF c
    <3>2. Last(c)
      BY <1>10, <2>6 DEF c
    <3> QED
      BY <2>2, <2>3, <2>4, <3>1, <3>2
  <2> QED
    BY <2>5, <2>6
<1> HIDE DEF Last
<1>11. Members(t) \subseteq P
  BY <1>1, <1>10, DownInduction
<1>12. Last(n) /\ n # Nil
  BY <1>1, <1>11, Apart
<1>13. from[n] \in Members(t)
  BY <1>1, <1>12 DEF Spread, Last
<1> QED
  BY <1>8, <1>12, <1>13 DEF Last

(* The nearest key: k itself or a key that is passed on the way to k, and     *)
(* none lies between it and k.                                              *)
LEMMA NearestIsNearest ==
    ASSUME NEW t, NEW b, Shaped(t, b, Nil), NEW k \in Keys, NEW side \in Sides
    PROVE  LET f == Nearest(t, side, k)
               before == {j \in Members(t) : j = k \/ Beside(side, j, k)}
           IN  /\ before = {} => f = Nil
               /\ before # {} => f \in before /\ \A j \in before : j = f \/ Beside(side, j, f)
<1> DEFINE S == Keys \cup {Nil}
           Passed(n) == IF side = "left" THEN n < k ELSE n > k
           Step(f, n) == IF n = Nil \/ n = k THEN n
                         ELSE IF f[Toward(t, n, k)] = Nil /\ Passed(n) THEN n
                         ELSE f[Toward(t, n, k)]
           F == [S -> S]
           step == [f \in F |-> [n \in S |-> Step(f, n)]]
           from == CHOOSE f : f = [n \in S |-> Step(f, n)]
<1>1. Linked(t) /\ Spread(t, b) /\ t \in Trees
  BY DEF Shaped, Linked
<1>2. \A n \in Keys : Toward(t, n, k) \in S
  BY <1>1 DEF Trees, Toward, Sides
<1>3. F # {} /\ \A f, g \in F : (\A x \in S : f[x] = g[x]) => f = g
  BY Extensional
<1>4. /\ \A f \in F : step[f] \in F
      /\ \A f, g \in F, n \in S :
            (n \in Keys => \A s \in Sides : t.child[s][n] \in S => f[t.child[s][n]] = g[t.child[s][n]])
               => step[f][n] = step[g][n]
  <2> HIDE DEF Passed
  <2> QED
    BY <1>1, <1>2 DEF Trees, Toward, Sides
<1>5. Downward(t, S, F, step)
  BY <1>3, <1>4 DEF Downward
<1> HIDE DEF step, F
<1>6. PICK f \in F : f = step[f]
  BY <1>1, <1>5, DownRecursion
<1>7. from = [n \in S |-> Step(from, n)]
  <2>1. f = [n \in S |-> Step(f, n)]
    BY <1>6 DEF step
  <2> QED
    BY <2>1
<1>8. Nearest(t, side, k) = from[t.root]
  BY DEF Nearest
<1> HIDE DEF from
<1> DEFINE Before(n) == {j \in b[n] : j = k \/ Beside(side, j, k)}
           Fits(n) == IF Before(n) = {} THEN from[n] = Nil
                      ELSE /\ from[n] \in Before(n)
                           /\ \A j \in Before(n) : j = from[n] \/ Beside(side, j, from[n])
           P == {n \in Members(t) \cup {Nil} : Fits(n)}
<1>9. Nil \in P
  BY <1>1, <1>7 DEF Spread
<1>10. ASSUME NEW n \in Members(t), \A s \in Sides : t.child[s][n] \in P
       PROVE  Fits(n)
  <2> DEFINE c == Toward(t, n, k)
             way == IF k < n THEN "left" ELSE "right"
             off == t.child[Other(way)][n]
  <2>1. n \in Keys /\ n # Nil /\ b[n] \subseteq Keys /\ n \in b[n]
    BY <1>1, Apart DEF Spread, Members, Sides
  <2>2. CASE n = k
    <3>1. from[n] = k
      BY <1>7, <2>1, <2>2
    <3> QED
      BY <2>1, <2>2, <3>1
  <2>3. CASE n # k
    <3>1. /\ c = t.child[way][n] /\ way \in Sides /\ Beside(way, k, n)
          /\ b[n] = {n} \cup b[c] \cup b[off]
          /\ \A x \in b[off] : Beside(way, n, x) /\ Beside(way, k, x)
      BY <2>3, WayDown
    <3>2. from[n] = IF from[c] = Nil /\ Passed(n) THEN n ELSE from[c]
      BY <1>7, <2>1, <2>3
    <3>3. c \in P /\ Fits(c)
      BY <1>10, <3>1
    <3>4. /\ Passed(n) <=> Beside(side, n, k)
          /\ \A x, y \in Keys : Beside(way, x, y) /\ side = way => ~ Beside(side, y, x)
          /\ \A x, y \in Keys : Beside(way, x, y) /\ side # way => Beside(side, y, x)
          /\ \A x, y, z \in Keys : Beside(side, x, y) /\ Beside(side, y, z) => Beside(side, x, z)
          /\ \A x, y \in Keys : Beside(side, x, y) => x # y
      BY <2>1, KeyAssumption DEF Beside, Sides
    <3>5. b[c] \subseteq Keys /\ b[off] \subseteq Keys
      BY <2>1, <3>1
    <3> HIDE DEF c, way, off, Passed
    <3>6. CASE side = way
      <4>1. Before(n) = Before(c)
        BY <2>1, <2>3, <3>1, <3>4, <3>5, <3>6
      <4>2. ~ Passed(n)
        BY <2>1, <3>1, <3>4, <3>6
      <4> QED
        BY <3>2, <3>3, <4>1, <4>2
    <3>7. CASE side # way
      <4>1. Passed(n) /\ \A x \in b[off] : Beside(side, x, n) /\ Beside(side, x, k)
        BY <2>1, <3>1, <3>4, <3>5, <3>7
      <4>2. Before(n) = {n} \cup Before(c) \cup b[off]
        BY <3>1, <3>4, <4>1
      <4>3. \A x \in b[c] : Beside(side, n, x)
        <5>1. \A x \in b[c] : Beside(way, x, n)
          BY <3>1, <2>1, KeyAssumption DEF Shaped, Ordered
        <5> QED
          BY <2>1, <3>4, <3>5, <3>7, <5>1
      <4>4. from[c] # Nil <=> Before(c) # {}
        BY <3>3, <3>5, KeyAssumption
      <4>5. CASE Before(c) = {}
        BY <3>2, <4>1, <4>2, <4>4, <4>5
      <4>6. CASE Before(c) # {}
        <5>1. from[n] = from[c] /\ from[c] \in Before(c) /\ from[c] \in b[c]
          BY <3>2, <3>3, <4>4, <4>6
        <5>2. Beside(side, n, from[c])
          BY <4>3, <5>1
        <5>3. \A x \in b[off] : Beside(side, x, from[c])
          BY <2>1, <3>4, <3>5, <4>1, <5>1, <5>2
        <5> QED
          BY <3>3, <4>2, <4>6, <5>1, <5>2, <5>3
      <4> QED
        BY <4>5, <4>6
    <3> QED
      BY <3>6, <3>7
  <2> QED
    BY <2>2, <2>3
<1>11. Members(t) \subseteq P
  <2> HIDE DEF Fits
  <2> QED
    BY <1>1, <1>9, <1>10, DownInduction
<1>12. t.root \in P
  BY <1>1, <1>9, <1>11 DEF Members, Trees
<1>13. b[t.root] = Members(t)
  BY <1>1 DEF Spread
<1> QED
  BY <1>8, <1>12, <1>13

(* A walk through two subtrees and the node between them.                   *)
LEMMA WalkJoined ==
    ASSUME NEW l \in Seq(Keys), NEW n \in Keys, NEW r \in Seq(Keys)
    PROVE  LET w == l \o <<n>> \o r
           IN  /\ w \in Seq(Keys)
               /\ Len(w) = Len(l) + 1 + Len(r)
               /\ \A i \in 1 .. Len(w) :
                     w[i] = IF i <= Len(l) THEN l[i]
                            ELSE IF i = Len(l) + 1 THEN n ELSE r[i - Len(l) - 1]
<1> DEFINE u == l \o <<n>>
           w == u \o r
<1>1. /\ u \in Seq(Keys) /\ Len(u) = Len(l) + 1
      /\ \A i \in 1 .. Len(u) : u[i] = IF i <= Len(l) THEN l[i] ELSE n
  OBVIOUS
<1>2. /\ Len(l) \in Nat /\ Len(r) \in Nat
  OBVIOUS
<1> HIDE DEF u
<1>3. /\ w \in Seq(Keys) /\ Len(w) = Len(u) + Len(r)
      /\ \A i \in 1 .. Len(w) : w[i] = IF i <= Len(u) THEN u[i] ELSE r[i - Len(u)]
  BY <1>1
<1> HIDE DEF w
<1>4. \A i \in 1 .. Len(w) :
                     w[i] = IF i <= Len(l) THEN l[i]
                            ELSE IF i = Len(l) + 1 THEN n ELSE r[i - Len(l) - 1]
  BY <1>1, <1>2, <1>3
<1> QED
  BY <1>1, <1>2, <1>3, <1>4 DEF w, u

(* The walk meets every node, and in ascending order.                       *)
LEMMA WalkIsAscending ==
    ASSUME NEW t, NEW b, NEW d, Shaped(t, b, d)
    PROVE  LET w == InOrder(t)
           IN  /\ w \in Seq(Keys)
               /\ {w[i] : i \in DOMAIN w} = Members(t)
               /\ \A i, j \in DOMAIN w : i < j /\ d \notin {w[i], w[j]} => w[i] < w[j]
<1> DEFINE S == Keys \cup {Nil}
           Step(f, n) == IF n = Nil THEN <<>>
                         ELSE f[t.child["left"][n]] \o <<n>> \o f[t.child["right"][n]]
           F == [S -> Seq(Keys)]
           step == [f \in F |-> [n \in S |-> Step(f, n)]]
           from == CHOOSE f : f = [n \in S |-> Step(f, n)]
<1>1. Linked(t) /\ Spread(t, b) /\ t \in Trees
  BY DEF Shaped, Linked
<1>2. \A n \in Keys : t.child["left"][n] \in S /\ t.child["right"][n] \in S
  BY <1>1 DEF Trees, Sides
<1>3. F # {} /\ \A f, g \in F : (\A x \in S : f[x] = g[x]) => f = g
  <2>1. <<>> \in Seq(Keys)
    OBVIOUS
  <2> QED
    BY <2>1, Extensional
<1>4. \A f \in F : step[f] \in F
  <2> SUFFICES ASSUME NEW f \in F, NEW n \in S PROVE Step(f, n) \in Seq(Keys)
    OBVIOUS
  <2>1. CASE n = Nil
    BY <2>1
  <2>2. CASE n # Nil
    <3>1. n \in Keys /\ f[t.child["left"][n]] \in Seq(Keys) /\ f[t.child["right"][n]] \in Seq(Keys)
      BY <1>2, <2>2
    <3> QED
      BY <2>2, <3>1, WalkJoined
  <2> QED
    BY <2>1, <2>2
<1>5. ASSUME NEW f \in F, NEW g \in F, NEW n \in S,
             n \in Keys => \A s \in Sides : t.child[s][n] \in S => f[t.child[s][n]] = g[t.child[s][n]]
      PROVE  step[f][n] = step[g][n]
  BY <1>2, <1>5 DEF Sides
<1>6. Downward(t, S, F, step)
  <2> HIDE DEF F, step
  <2> QED
    BY <1>3, <1>4, <1>5 DEF Downward
<1> HIDE DEF step, F
<1>7. PICK f \in F : f = step[f]
  BY <1>1, <1>6, DownRecursion
<1>8. from = [n \in S |-> Step(from, n)]
  <2>1. f = [n \in S |-> Step(f, n)]
    BY <1>7 DEF step
  <2> QED
    BY <2>1
<1>9. InOrder(t) = from[t.root]
  BY DEF InOrder
<1> HIDE DEF from
<1> DEFINE Walks(n) ==
             /\ from[n] \in Seq(Keys)
             /\ \A x \in Keys : x \in b[n] <=> \E i \in 1 .. Len(from[n]) : from[n][i] = x
             /\ \A i, j \in 1 .. Len(from[n]) :
                   i < j /\ d # from[n][i] /\ d # from[n][j] => from[n][i] < from[n][j]
           P == {n \in Members(t) \cup {Nil} : Walks(n)}
<1>10. Nil \in P
  <2>1. from[Nil] = <<>> /\ b[Nil] = {}
    BY <1>1, <1>8 DEF Spread
  <2> HIDE DEF from
  <2>2. from[Nil] \in Seq(Keys) /\ Len(from[Nil]) = 0
    BY <2>1
  <2>3. 1 .. Len(from[Nil]) = {}
    BY <2>2
  <2>4. Walks(Nil)
    BY <2>1, <2>2, <2>3, Zenon
  <2> HIDE DEF Walks
  <2> QED
    BY <2>4
<1>11. ASSUME NEW n \in Members(t), \A s \in Sides : t.child[s][n] \in P
       PROVE  Walks(n)
  <2> DEFINE l == from[t.child["left"][n]]
             r == from[t.child["right"][n]]
             w == from[n]
             bl == b[t.child["left"][n]]
             br == b[t.child["right"][n]]
  <2>1. n \in Keys /\ n # Nil
    BY <1>1, Apart
  <2>2. /\ l \in Seq(Keys) /\ r \in Seq(Keys)
        /\ \A x \in Keys : x \in bl <=> \E i \in 1 .. Len(l) : l[i] = x
        /\ \A x \in Keys : x \in br <=> \E i \in 1 .. Len(r) : r[i] = x
        /\ \A i, j \in 1 .. Len(l) : i < j /\ d # l[i] /\ d # l[j] => l[i] < l[j]
        /\ \A i, j \in 1 .. Len(r) : i < j /\ d # r[i] /\ d # r[j] => r[i] < r[j]
    BY <1>11 DEF Sides
  <2>3. w = l \o <<n>> \o r
    BY <1>8, <2>1
  <2>4. /\ b[n] = {n} \cup bl \cup br
        /\ \A x \in bl : x # d => (n # d => x < n) /\ \A y \in br : y # d => x < y
        /\ \A y \in br : y # d => (n # d => n < y)
    <3>1. "left" \in Sides /\ "right" \in Sides /\ Other("left") = "right" /\ Other("right") = "left"
      BY DEF Sides, Other
    <3> QED
      BY <1>1, <3>1 DEF Shaped, Ordered, Spread, Beside
  <2> HIDE DEF l, r, w, bl, br
  <2>5. /\ w \in Seq(Keys) /\ Len(w) = Len(l) + 1 + Len(r) /\ Len(l) \in Nat /\ Len(r) \in Nat
        /\ \A i \in 1 .. Len(w) :
              w[i] = IF i <= Len(l) THEN l[i]
                     ELSE IF i = Len(l) + 1 THEN n ELSE r[i - Len(l) - 1]
    BY <2>1, <2>2, <2>3, WalkJoined
  <2>6. ASSUME NEW x \in Keys PROVE x \in b[n] <=> \E i \in 1 .. Len(w) : w[i] = x
    <3>1. ASSUME x \in bl PROVE \E i \in 1 .. Len(w) : w[i] = x
      <4>1. PICK i \in 1 .. Len(l) : l[i] = x
        BY <2>2, <3>1
      <4>2. i \in 1 .. Len(w) /\ w[i] = x
        BY <2>5, <4>1
      <4> QED
        BY <4>2
    <3>2. ASSUME x \in br PROVE \E i \in 1 .. Len(w) : w[i] = x
      <4>1. PICK i \in 1 .. Len(r) : r[i] = x
        BY <2>2, <3>2
      <4>2. i + Len(l) + 1 \in 1 .. Len(w) /\ w[i + Len(l) + 1] = x
        BY <2>5, <4>1
      <4> QED
        BY <4>2
    <3>3. ASSUME x = n PROVE \E i \in 1 .. Len(w) : w[i] = x
      <4>1. Len(l) + 1 \in 1 .. Len(w) /\ w[Len(l) + 1] = x
        BY <2>5, <3>3
      <4> QED
        BY <4>1
    <3>4. ASSUME NEW i \in 1 .. Len(w), w[i] = x PROVE x \in b[n]
      <4>1. CASE i <= Len(l)
        BY <2>2, <2>4, <2>5, <3>4, <4>1
      <4>2. CASE i = Len(l) + 1
        BY <2>4, <2>5, <3>4, <4>2
      <4>3. CASE i > Len(l) + 1
        <5>1. i - Len(l) - 1 \in 1 .. Len(r) /\ r[i - Len(l) - 1] = x
          BY <2>5, <3>4, <4>3
        <5> QED
          BY <2>2, <2>4, <5>1
      <4> QED
        BY <2>5, <4>1, <4>2, <4>3
    <3> QED
      BY <2>4, <3>1, <3>2, <3>3, <3>4
  <2>7. ASSUME NEW i \in 1 .. Len(w), NEW j \in 1 .. Len(w), i < j, d # w[i], d # w[j]
        PROVE  w[i] < w[j]
    <3>1. CASE j <= Len(l)
      <4>1. /\ i \in 1 .. Len(l) /\ j \in 1 .. Len(l) /\ w[i] = l[i] /\ w[j] = l[j]
        BY <2>5, <2>7, <3>1
      <4> QED
        BY <2>2, <2>7, <4>1
    <3>2. CASE i <= Len(l) /\ j > Len(l)
      <4>1. i \in 1 .. Len(l) /\ w[i] = l[i] /\ l[i] \in Keys
        BY <2>2, <2>5, <3>2
      <4>2. w[i] \in bl
        BY <2>2, <4>1
      <4>3. CASE j = Len(l) + 1
        BY <2>4, <2>5, <2>7, <4>2, <4>3
      <4>4. CASE j > Len(l) + 1
        <5>1. j - Len(l) - 1 \in 1 .. Len(r) /\ w[j] = r[j - Len(l) - 1] /\ w[j] \in Keys
          BY <2>2, <2>5, <4>4
        <5>2. w[j] \in br
          BY <2>2, <5>1
        <5> QED
          BY <2>4, <2>7, <4>2, <5>2
      <4> QED
        BY <2>5, <2>7, <3>2, <4>3, <4>4
    <3>3. CASE i = Len(l) + 1
      <4>1. w[i] = n
        BY <2>5, <3>3
      <4>2. j - Len(l) - 1 \in 1 .. Len(r) /\ w[j] = r[j - Len(l) - 1] /\ w[j] \in Keys
        BY <2>2, <2>5, <2>7, <3>3
      <4>3. w[j] \in br
        BY <2>2, <4>2
      <4> QED
        BY <2>4, <2>7, <4>1, <4>3
    <3>4. CASE i > Len(l) + 1
      <4>1. /\ i - Len(l) - 1 \in 1 .. Len(r) /\ w[i] = r[i - Len(l) - 1]
            /\ j - Len(l) - 1 \in 1 .. Len(r) /\ w[j] = r[j - Len(l) - 1]
            /\ i - Len(l) - 1 < j - Len(l) - 1
        BY <2>5, <2>7, <3>4
      <4> QED
        BY <2>2, <2>7, <4>1
    <3> QED
      BY <2>5, <2>7, <3>1, <3>2, <3>3, <3>4
  <2> QED
    BY <2>5, <2>6, <2>7 DEF w
<1> HIDE DEF Walks
<1>12. Members(t) \subseteq P
  BY <1>1, <1>10, <1>11, DownInduction
<1>13. t.root \in P /\ b[t.root] = Members(t)
  BY <1>1, <1>10, <1>12 DEF Members, Trees, Spread
<1>14. Walks(t.root)
  BY <1>13
<1>15. Members(t) \subseteq Keys
  BY DEF Members
<1> DEFINE w == InOrder(t)
<1>16. w \in Seq(Keys) /\ DOMAIN w = 1 .. Len(w)
  BY <1>9, <1>14 DEF Walks
<1>17. {w[i] : i \in DOMAIN w} = Members(t)
  <2>1. \A x \in Keys : x \in Members(t) <=> \E i \in 1 .. Len(w) : w[i] = x
    BY <1>9, <1>13, <1>14 DEF Walks
  <2> HIDE DEF w
  <2>2. \A i \in 1 .. Len(w) : w[i] \in Keys
    BY <1>16
  <2> QED
    BY <1>15, <1>16, <2>1, <2>2
<1>18. \A i, j \in DOMAIN w : i < j /\ d \notin {w[i], w[j]} => w[i] < w[j]
  BY <1>9, <1>14, <1>16 DEF Walks
<1> QED
  BY <1>16, <1>17, <1>18

-----------------------------------------------------------------------------
(* The other changes of the shape.                                         *)

(* Colours and values are no part of the shape.                             *)
LEMMA SameLinks ==
    ASSUME NEW t, NEW b, NEW d, Shaped(t, b, d), NEW u, u \in Trees,
           u.root = t.root, u.child = t.child, u.parent = t.parent
    PROVE  Members(u) = Members(t) /\ Shaped(u, b, d)
<1>1. Members(u) = Members(t)
  BY DEF Members
<1>2. Linked(u)
  BY <1>1 DEF Shaped, Linked
<1>3. Spread(u, b)
  BY <1>1 DEF Shaped, Spread
<1>4. Ordered(u, b, d)
  BY <1>1 DEF Shaped, Ordered
<1> QED
  BY <1>1, <1>2, <1>3, <1>4 DEF Shaped

LEMMA PaintPaints ==
    ASSUME NEW t, t \in Trees, NEW reds, NEW blacks, reds \ blacks \subseteq Keys
    PROVE  LET u == Paint(t, reds, blacks)
           IN  /\ u \in Trees /\ u.root = t.root /\ u.child = t.child /\ u.parent = t.parent
               /\ u.value = t.value /\ u.red = (t.red \cup reds) \ blacks
BY DEF Paint, Trees

LEMMA PaintShaped ==
    ASSUME NEW t, NEW b, NEW d, Shaped(t, b, d), NEW reds, NEW blacks, reds \ blacks \subseteq Keys
    PROVE  Members(Paint(t, reds, blacks)) = Members(t) /\ Shaped(Paint(t, reds, blacks), b, d)
<1>1. t \in Trees
  BY DEF Shaped, Linked
<1> QED
  BY <1>1, PaintPaints, SameLinks

(* The fields after a new leaf is hung in.                                  *)
LEMMA AttachAttaches ==
    ASSUME NEW t, NEW b, Shaped(t, b, Nil), NEW k \in Keys, k \notin Members(t), NEW v \in Values
    PROVE  LET r == Attach(t, k, v)
               p == Seat(t, k)
           IN  /\ r \in Trees
               /\ r.red = t.red \cup {k}
               /\ \A m \in Keys : r.value[m] = IF m = k THEN v ELSE t.value[m]
               /\ t.root = Nil => r.root = k /\ r.child = t.child /\ r.parent = t.parent
               /\ t.root # Nil =>
                     /\ r.root = t.root
                     /\ \A s \in Sides, m \in Keys :
                           r.child[s][m] = IF m = p /\ Beside(s, k, p) THEN k ELSE t.child[s][m]
                     /\ \A m \in Keys : r.parent[m] = IF m = k THEN p ELSE t.parent[m]
<1> DEFINE u == [Paint(t, {k}, {}) EXCEPT !.value[k] = v]
<1>1. t \in Trees
  BY DEF Shaped, Linked
<1>2. /\ u \in Trees /\ u.root = t.root /\ u.child = t.child /\ u.parent = t.parent
      /\ u.red = t.red \cup {k}
      /\ \A m \in Keys : u.value[m] = IF m = k THEN v ELSE t.value[m]
  BY <1>1 DEF Paint, Trees
<1> HIDE DEF u
<1>3. CASE t.root = Nil
  <2>1. Attach(t, k, v) = [u EXCEPT !.root = k]
    BY <1>3 DEF Attach, u
  <2> QED
    BY <1>2, <1>3, <2>1 DEF Trees
<1>4. CASE t.root # Nil
  <2> DEFINE p == Seat(t, k)
             s == IF k < p THEN "left" ELSE "right"
  <2>1. p \in Members(t) /\ p # k /\ p \in Keys
    BY <1>4, SeatFits DEF Members
  <2> HIDE DEF p
  <2>2. \A q \in Sides : Beside(q, k, p) <=> q = s
    BY <2>1, KeyAssumption DEF Beside, Sides
  <2>3. Attach(t, k, v) = [u EXCEPT !.child[s][p] = k, !.parent[k] = p]
    BY <1>4 DEF Attach, u, p
  <2>4. s \in Sides
    BY DEF Sides
  <2> HIDE DEF s
  <2> DEFINE r == [u EXCEPT !.child[s][p] = k, !.parent[k] = p]
  <2>5. /\ r \in Trees /\ r.red = u.red /\ r.value = u.value /\ r.root = u.root
        /\ \A q \in Sides, m \in Keys :
              r.child[q][m] = IF m = p /\ q = s THEN k ELSE u.child[q][m]
        /\ \A m \in Keys : r.parent[m] = IF m = k THEN p ELSE u.parent[m]
    BY <1>2, <2>1, <2>4 DEF Trees
  <2> HIDE DEF r
  <2> QED
    BY <1>2, <1>4, <2>2, <2>3, <2>5 DEF p, r
<1> QED
  BY <1>3, <1>4

Extended(t, b, k) ==
    [m \in Keys \cup {Nil} |->
       IF m = k THEN {k}
       ELSE IF m \in Members(t) /\ Seat(t, k) \in b[m] THEN b[m] \cup {k}
       ELSE b[m]]

LEMMA AttachShaped ==
    ASSUME NEW t, NEW b, Shaped(t, b, Nil), NEW k \in Keys, k \notin Members(t), NEW v \in Values
    PROVE  /\ Members(Attach(t, k, v)) = Members(t) \cup {k}
           /\ Shaped(Attach(t, k, v), Extended(t, b, k), Nil)
<1> DEFINE r == Attach(t, k, v)
           p == Seat(t, k)
           c == Extended(t, b, k)
<1>1. Linked(t) /\ Spread(t, b) /\ Ordered(t, b, Nil) /\ t \in Trees
  BY DEF Shaped, Linked
<1>2. k # Nil /\ t.parent[k] = Nil /\ t.root # k /\ \A s \in Sides : t.child[s][k] = Nil
  BY <1>1, KeyAssumption DEF Members, Linked
<1>3. \A m \in Members(t), s \in Sides : t.child[s][m] # k
  BY <1>1, <1>2, Apart
<1>4. /\ r \in Trees
      /\ t.root = Nil => r.root = k /\ r.child = t.child /\ r.parent = t.parent
      /\ t.root # Nil =>
            /\ r.root = t.root
            /\ \A s \in Sides, m \in Keys :
                  r.child[s][m] = IF m = p /\ Beside(s, k, p) THEN k ELSE t.child[s][m]
            /\ \A m \in Keys : r.parent[m] = IF m = k THEN p ELSE t.parent[m]
  BY AttachAttaches
<1>5. /\ c \in [Keys \cup {Nil} -> SUBSET Keys]
      /\ c[k] = {k} /\ c[Nil] = {}
      /\ \A m \in Members(t) : c[m] = IF p \in b[m] THEN b[m] \cup {k} ELSE b[m]
  BY <1>1, <1>2, KeyAssumption DEF Extended, Spread, Members
<1>6. CASE t.root = Nil
  <2>1. Members(t) = {}
    BY <1>1, <1>6 DEF Spread
  <2>2. Members(r) = {k}
    BY <1>1, <1>2, <1>4, <1>6, <2>1 DEF Linked, Members
  <2>3. Linked(r)
    BY <1>1, <1>2, <1>4, <1>6, <2>1, <2>2 DEF Linked
  <2>4. \A s \in Sides : r.child[s][k] = Nil /\ r.child[Other(s)][k] = Nil
    BY <1>2, <1>4, <1>6, TwoSides
  <2>5. Spread(r, c)
    BY <1>4, <1>5, <1>6, <2>2, <2>4 DEF Spread
  <2>6. Ordered(r, c, Nil)
    BY <1>5, <2>2, <2>4 DEF Ordered
  <2> QED
    BY <2>1, <2>2, <2>3, <2>5, <2>6 DEF Shaped
<1>7. CASE t.root # Nil
  <2>1. /\ p \in Members(t) /\ p \in Keys /\ p # Nil /\ p # k
        /\ Toward(t, p, k) = Nil
        /\ \A m \in Members(t), s \in Sides : p \in b[t.child[s][m]] => Beside(s, k, m)
    BY <1>7, SeatFits, KeyAssumption DEF Members
  <2> DEFINE side == IF k < p THEN "left" ELSE "right"
             o == Other(side)
  <2>2. /\ side \in Sides /\ o \in Sides /\ o # side /\ Other(o) = side /\ Sides = {side, o}
        /\ \A s \in Sides : Beside(s, k, p) <=> s = side
        /\ t.child[side][p] = Nil
    <3>1. side \in Sides
      BY DEF Sides
    <3>2. t.child[side][p] = Nil
      BY <2>1 DEF Toward
    <3>3. k \in Int /\ p \in Int
      BY <2>1, KeyAssumption
    <3> HIDE DEF p
    <3>4. \A s \in Sides : Beside(s, k, p) <=> s = side
      BY <2>1, <3>3 DEF Sides, Beside
    <3> HIDE DEF side
    <3> QED
      BY <3>1, <3>2, <3>4, TwoSides
  <2> HIDE DEF p, c, r, side, o
  <2>3. /\ r.root = t.root
        /\ \A s \in Sides, m \in Keys :
              r.child[s][m] = IF m = p /\ s = side THEN k ELSE t.child[s][m]
        /\ \A m \in Keys : r.parent[m] = IF m = k THEN p ELSE t.parent[m]
    BY <1>4, <1>7, <2>2
  <2>4. Members(r) = Members(t) \cup {k}
    BY <2>1, <2>3 DEF Members
  <2>5. Linked(r)
    <3>1. r.root # Nil => r.parent[r.root] = Nil
      BY <1>1, <1>2, <2>3 DEF Linked, Trees
    <3>2. r.root # Nil
      BY <1>7, <2>3
    <3>3. ASSUME NEW n \in Members(r), NEW s \in Sides, r.child[s][n] # Nil
          PROVE  r.parent[r.child[s][n]] = n
      <4>1. CASE n = k
        BY <1>2, <2>1, <2>3, <3>3, <4>1
      <4>2. CASE n = p /\ s = side
        BY <2>1, <2>3, <4>2
      <4>3. CASE n # k /\ ~(n = p /\ s = side)
        <5>1. n \in Members(t) /\ n \in Keys
          BY <2>4, <4>3 DEF Members
        <5>2. r.child[s][n] = t.child[s][n] /\ t.child[s][n] # k /\ t.child[s][n] \in Keys
          BY <1>1, <1>3, <2>3, <3>3, <4>3, <5>1, Apart
        <5> QED
          BY <1>1, <2>3, <3>3, <5>1, <5>2 DEF Linked
      <4> QED
        BY <4>1, <4>2, <4>3
    <3>4. ASSUME NEW n \in Keys, r.parent[n] # Nil
          PROVE  r.parent[n] \in Members(r) /\ \E s \in Sides : r.child[s][r.parent[n]] = n
      <4>1. CASE n = k
        BY <2>1, <2>2, <2>3, <2>4, <4>1
      <4>2. CASE n # k
        <5>1. r.parent[n] = t.parent[n] /\ t.parent[n] \in Members(t) /\ t.parent[n] \in Keys
          BY <1>1, <2>3, <3>4, <4>2 DEF Linked, Members
        <5>2. PICK s \in Sides : t.child[s][t.parent[n]] = n
          BY <1>1, <3>4, <5>1 DEF Linked
        <5>3. ~(t.parent[n] = p /\ s = side)
          BY <2>2, <5>2, KeyAssumption
        <5> QED
          BY <2>3, <2>4, <5>1, <5>2, <5>3
      <4> QED
        BY <4>1, <4>2
    <3>5. ASSUME NEW n \in Keys \ Members(r), NEW s \in Sides PROVE r.child[s][n] = Nil
      BY <1>1, <2>1, <2>3, <2>4 DEF Linked
    <3> QED
      BY <1>4, <3>1, <3>2, <3>3, <3>4, <3>5 DEF Linked, r
  <2>6. ASSUME NEW n \in Members(t), NEW s \in Sides, ~(n = p /\ s = side)
        PROVE  /\ r.child[s][n] = t.child[s][n]
               /\ c[r.child[s][n]] = IF p \in b[t.child[s][n]] THEN b[t.child[s][n]] \cup {k}
                                     ELSE b[t.child[s][n]]
    <3>1. n \in Keys /\ (t.child[s][n] = Nil \/ t.child[s][n] \in Members(t))
      BY <1>1, Apart
    <3>2. b[Nil] = {}
      BY <1>1 DEF Spread
    <3>3. r.child[s][n] = t.child[s][n]
      BY <2>3, <2>6, <3>1
    <3> DEFINE y == t.child[s][n]
    <3>4. CASE y = Nil
      BY <1>5, <3>2, <3>3, <3>4
    <3>5. CASE y \in Members(t)
      BY <1>5, <3>3, <3>5
    <3> QED
      BY <3>1, <3>3, <3>4, <3>5
  <2>7. c[r.child[side][p]] = {k} /\ c[p] = b[p] \cup {k}
    <3>1. p \in b[p]
      BY <1>1, <2>1, <2>2 DEF Spread
    <3> QED
      BY <1>5, <2>1, <2>2, <2>3, <3>1
  <2>8. /\ k \notin b[t.root]
        /\ \A n \in Members(t) : k \notin b[n] /\ b[n] \subseteq Members(t)
    BY <1>1 DEF Spread
  <2>9. Spread(r, c)
    <3>1. c[r.root] = Members(r)
      <4>1. t.root \in Members(t) /\ b[t.root] = Members(t)
        BY <1>1, <1>7 DEF Spread, Members, Trees
      <4> QED
        BY <1>5, <2>1, <2>3, <2>4, <4>1
    <3>2. \A n \in Members(r) : c[n] \subseteq Members(r)
      BY <1>5, <2>4, <2>8
    <3>3. ASSUME NEW n \in Members(r), NEW s \in Sides
          PROVE  /\ c[n] = {n} \cup c[r.child[s][n]] \cup c[r.child[Other(s)][n]]
                 /\ n \notin c[r.child[s][n]]
                 /\ c[r.child[s][n]] \cap c[r.child[Other(s)][n]] = {}
      <4>1. CASE n = k
        <5>1. r.child[s][n] = Nil /\ r.child[Other(s)][n] = Nil
          BY <1>2, <2>1, <2>3, <4>1, TwoSides
        <5> QED
          BY <1>5, <4>1, <5>1
      <4>2. n # k => /\ n \in Members(t) /\ n \in Keys
                     /\ b[n] = {n} \cup b[t.child[s][n]] \cup b[t.child[Other(s)][n]]
                     /\ n \notin b[t.child[s][n]] /\ n \notin b[t.child[Other(s)][n]]
                     /\ b[t.child[s][n]] \cap b[t.child[Other(s)][n]] = {}
                     /\ k \notin b[n]
        BY <1>1, <2>4, <2>8, TwoSides DEF Spread, Members
      <4>3. CASE n = p
        <5>1. b[t.child[side][p]] = {}
          BY <1>1, <2>2 DEF Spread
        <5>2. c[r.child[o][p]] = b[t.child[o][p]]
          BY <2>1, <2>2, <2>6, <4>2, <4>3
        <5>3. CASE s = side
          BY <2>1, <2>2, <2>7, <4>2, <4>3, <5>1, <5>2, <5>3 DEF o
        <5>4. CASE s = o
          BY <2>1, <2>2, <2>7, <4>2, <4>3, <5>1, <5>2, <5>4
        <5> QED
          BY <2>2, <5>3, <5>4
      <4>4. CASE n # k /\ n # p
        <5>1. c[n] = IF p \in b[n] THEN b[n] \cup {k} ELSE b[n]
          BY <1>5, <4>2, <4>4
        <5>2. /\ c[r.child[s][n]] = IF p \in b[t.child[s][n]] THEN b[t.child[s][n]] \cup {k}
                                     ELSE b[t.child[s][n]]
              /\ c[r.child[Other(s)][n]] = IF p \in b[t.child[Other(s)][n]]
                                           THEN b[t.child[Other(s)][n]] \cup {k}
                                           ELSE b[t.child[Other(s)][n]]
          BY <2>6, <4>2, <4>4, TwoSides
        <5> QED
          BY <4>2, <4>4, <5>1, <5>2
      <4> QED
        BY <4>1, <4>3, <4>4
    <3> QED
      BY <1>5, <3>1, <3>2, <3>3 DEF Spread, c
  <2>10. Ordered(r, c, Nil)
    <3> SUFFICES ASSUME NEW n \in Members(r), NEW s \in Sides, NEW x \in c[r.child[s][n]]
                 PROVE  /\ Beside(s, x, n)
                        /\ \A y \in c[r.child[Other(s)][n]] : Beside(s, x, y)
      BY KeyAssumption DEF Ordered, Members
    <3>1. CASE n = k
      BY <1>2, <1>5, <2>1, <2>3, <3>1
    <3>2. CASE n = p
      <4>1. Beside(side, k, p) /\ c[r.child[o][p]] = b[t.child[o][p]]
        <5>1. p \notin b[t.child[o][p]]
          BY <1>1, <2>1, <2>2 DEF Spread
        <5> QED
          BY <2>1, <2>2, <2>6, <5>1
      <4>2. \A y \in b[t.child[o][p]] : Beside(o, y, p) /\ y \in Int
        <5>1. b[t.child[o][p]] \subseteq Keys
          BY <1>1, <2>1, <2>2, Apart DEF Spread
        <5> QED
          BY <1>1, <2>1, <2>2, <5>1, KeyAssumption DEF Ordered
      <4>3. p \in Int /\ k \in Int
        BY <2>1, KeyAssumption
      <4>4. \A y \in b[t.child[o][p]] : Beside(side, k, y) /\ Beside(o, y, k)
        BY <2>2, <4>1, <4>2, <4>3 DEF Beside, Sides
      <4>5. CASE s = side
        BY <2>7, <3>2, <4>1, <4>4, <4>5 DEF o
      <4>6. CASE s = o
        BY <2>2, <2>7, <3>2, <4>1, <4>2, <4>4, <4>6
      <4> QED
        BY <2>2, <4>5, <4>6
    <3>3. CASE n # k /\ n # p
      <4>1. n \in Members(t) /\ n \in Keys /\ n \in Int /\ k \in Int
        BY <2>4, <3>3, KeyAssumption DEF Members
      <4>2. Other(s) \in Sides /\ Other(s) # s /\ Other(Other(s)) = s
        BY TwoSides
      <4>3. /\ c[r.child[s][n]] = IF p \in b[t.child[s][n]] THEN b[t.child[s][n]] \cup {k}
                                     ELSE b[t.child[s][n]]
            /\ c[r.child[Other(s)][n]] = IF p \in b[t.child[Other(s)][n]]
                                           THEN b[t.child[Other(s)][n]] \cup {k}
                                           ELSE b[t.child[Other(s)][n]]
        BY <2>6, <3>3, <4>1, <4>2
      <4>4. /\ \A z \in b[t.child[s][n]] :
                  Beside(s, z, n) /\ \A y \in b[t.child[Other(s)][n]] : Beside(s, z, y)
            /\ \A z \in b[t.child[Other(s)][n]] : Beside(Other(s), z, n)
            /\ b[t.child[s][n]] \subseteq Int /\ b[t.child[Other(s)][n]] \subseteq Int
            /\ b[t.child[s][n]] \cap b[t.child[Other(s)][n]] = {}
        <5>1. b[n] \subseteq Keys /\ b[t.child[s][n]] \subseteq b[n]
              /\ b[t.child[Other(s)][n]] \subseteq b[n]
              /\ b[t.child[s][n]] \cap b[t.child[Other(s)][n]] = {}
          BY <1>1, <4>1 DEF Spread, Members
        <5> QED
          BY <1>1, <4>1, <4>2, <5>1, KeyAssumption DEF Ordered
      <4>5. /\ p \in b[t.child[s][n]] => Beside(s, k, n)
            /\ p \in b[t.child[Other(s)][n]] => Beside(Other(s), k, n)
        BY <2>1, <4>1, <4>2
      <4>6. /\ p \in b[t.child[s][n]] => \A y \in b[t.child[Other(s)][n]] : Beside(s, k, y)
            /\ p \in b[t.child[Other(s)][n]] => \A z \in b[t.child[s][n]] : Beside(s, z, k)
        BY <4>1, <4>2, <4>4, <4>5 DEF Beside, Other
      <4> QED
        BY <4>3, <4>4, <4>5, <4>6
    <3> QED
      BY <3>1, <3>2, <3>3
  <2> QED
    BY <2>4, <2>5, <2>9, <2>10 DEF Shaped, c, r
<1> QED
  BY <1>6, <1>7

(* A node that is not below k is on the same side of all that is below k.     *)
LEMMA SameSide ==
    ASSUME NEW t, NEW b, Shaped(t, b, Nil), NEW k \in Members(t),
           NEW m \in Members(t), m \notin b[k], NEW q \in b[k]
    PROVE  (m < k /\ m < q) \/ (k < m /\ q < m)
<1>1. Linked(t) /\ Spread(t, b) /\ Ordered(t, b, Nil) /\ t \in Trees
  BY DEF Shaped, Linked
<1>2. \A n \in Members(t) : b[n] \subseteq Keys /\ n \in b[n]
  BY <1>1 DEF Spread, Members, Sides
<1> DEFINE Same == (m < k /\ m < q) \/ (k < m /\ q < m)
           P == {Nil} \cup {n \in Members(t) : m \in b[n] /\ k \in b[n] => Same}
<1>3. ASSUME NEW n \in Members(t), \A s \in Sides : t.child[s][n] \in P, m \in b[n], k \in b[n]
      PROVE  Same
  <2>1. n # k
    BY <1>3
  <2>2. \A s \in Sides : b[n] = {n} \cup b[t.child[s][n]] \cup b[t.child[Other(s)][n]]
    BY <1>1 DEF Spread
  <2>3. PICK s \in Sides : k \in b[t.child[s][n]]
    BY <1>3, <2>1, <2>2 DEF Sides, Other
  <2> DEFINE c == t.child[s][n]
             e == t.child[Other(s)][n]
  <2>4. c \in Members(t) /\ b[Nil] = {}
    <3>1. b[Nil] = {}
      BY <1>1 DEF Spread
    <3>2. c # Nil
      BY <2>3, <3>1
    <3> QED
      BY <1>1, <3>1, <3>2, Apart
  <2>5. b[k] \subseteq b[c]
    BY <1>1, <2>3, <2>4, Nested
  <2>6. /\ \A x \in b[c] : Beside(s, x, n) /\ \A y \in b[e] : Beside(s, x, y)
        /\ c \in P
    BY <1>1, <1>2, <1>3, <2>2, KeyAssumption DEF Ordered
  <2> HIDE DEF c, e
  <2>7. k \in b[c] /\ q \in b[c]
    BY <2>5, <1>2
  <2>8. b[n] = {n} \cup b[c] \cup b[e]
    BY <2>2 DEF c, e
  <2>9. CASE m = n
    BY <2>6, <2>7, <2>9 DEF Beside
  <2>10. CASE m \in b[e]
    BY <2>6, <2>7, <2>10 DEF Beside
  <2>11. CASE m \in b[c]
    <3> HIDE DEF Same
    <3> QED
      BY <2>4, <2>6, <2>7, <2>11, Apart, <1>1
  <2> QED
    BY <1>3, <2>8, <2>9, <2>10, <2>11
<1> HIDE DEF Same
<1>4. Members(t) \subseteq P
  BY <1>1, <1>3, DownInduction
<1>5. t.root \in Members(t) /\ b[t.root] = Members(t) /\ t.root # Nil
  <2>1. b[t.root] = Members(t) /\ b[Nil] = {}
    BY <1>1 DEF Spread
  <2> QED
    BY <1>1, <2>1 DEF Members, Trees
<1>6. Same
  BY <1>4, <1>5
<1> QED
  BY <1>6 DEF Same

(* The name that a node has after k and p have exchanged theirs.            *)
Swap(k, p, n) == CASE n = k -> p [] n = p -> k [] OTHER -> n

LEMMA SwapTwice ==
    ASSUME NEW k, NEW p, NEW n
    PROVE  /\ Swap(k, p, Swap(k, p, n)) = n
           /\ Swap(k, p, k) = p /\ Swap(k, p, p) = k
           /\ n # k /\ n # p => Swap(k, p, n) = n
<1>1. CASE n = k
  BY <1>1 DEF Swap
<1>2. CASE n = p
  BY <1>2 DEF Swap
<1>3. CASE n # k /\ n # p
  BY <1>3 DEF Swap
<1>4. Swap(k, p, k) = p
  BY DEF Swap
<1>5. Swap(k, p, p) = k
  BY DEF Swap
<1> QED
  BY <1>1, <1>2, <1>3, <1>4, <1>5

LEMMA ExchangeExchanges ==
    ASSUME NEW t, t \in Trees, NEW k \in Keys, NEW p \in Keys
    PROVE  LET r == ExchangeNames(t, k, p)
           IN  /\ r \in Trees
               /\ r.root = Swap(k, p, t.root)
               /\ \A s \in Sides, n \in Keys : r.child[s][n] = Swap(k, p, t.child[s][Swap(k, p, n)])
               /\ \A n \in Keys : r.parent[n] = Swap(k, p, t.parent[Swap(k, p, n)])
               /\ r.red = {n \in Keys : Swap(k, p, n) \in t.red}
               /\ r.value = t.value
<1>1. \A n \in Keys \cup {Nil} : Swap(k, p, n) \in Keys \cup {Nil}
  BY DEF Swap
<1>2. \A n \in Keys : Swap(k, p, n) \in Keys
  BY DEF Swap
<1> DEFINE root == Swap(k, p, t.root)
           child == [s \in Sides |-> [n \in Keys |-> Swap(k, p, t.child[s][Swap(k, p, n)])]]
           parent == [n \in Keys |-> Swap(k, p, t.parent[Swap(k, p, n)])]
           red == {n \in Keys : Swap(k, p, n) \in t.red}
           r == [t EXCEPT !.root = root, !.child = child, !.parent = parent, !.red = red]
<1>3. ExchangeNames(t, k, p) = r
  BY DEF ExchangeNames, Swap
<1>5. /\ root \in Keys \cup {Nil} /\ parent \in [Keys -> Keys \cup {Nil}]
      /\ child \in [Sides -> [Keys -> Keys \cup {Nil}]]
      /\ red \in SUBSET Keys
  BY <1>1, <1>2 DEF Trees
<1>6. /\ \A s \in Sides, n \in Keys : child[s][n] = Swap(k, p, t.child[s][Swap(k, p, n)])
      /\ \A n \in Keys : parent[n] = Swap(k, p, t.parent[Swap(k, p, n)])
  OBVIOUS
<1> HIDE DEF root, child, parent, red
<1>7. /\ r \in Trees /\ r.root = root /\ r.child = child /\ r.parent = parent
      /\ r.red = red /\ r.value = t.value
  BY <1>5 DEF Trees
<1> HIDE DEF r
<1>4. /\ r \in Trees
      /\ r.root = Swap(k, p, t.root)
      /\ \A s \in Sides, n \in Keys : r.child[s][n] = Swap(k, p, t.child[s][Swap(k, p, n)])
      /\ \A n \in Keys : r.parent[n] = Swap(k, p, t.parent[Swap(k, p, n)])
      /\ r.red = {n \in Keys : Swap(k, p, n) \in t.red}
      /\ r.value = t.value
  BY <1>6, <1>7 DEF root, red
<1> QED
  BY <1>3, <1>4

Swapped(b, k, p) ==
    [n \in Keys \cup {Nil} |-> {x \in Keys : Swap(k, p, x) \in b[Swap(k, p, n)]}]

LEMMA ExchangeLinked ==
    ASSUME NEW t, NEW b, Linked(t), Spread(t, b), NEW k \in Members(t), NEW p \in Members(t)
    PROVE  /\ Members(ExchangeNames(t, k, p)) = Members(t)
           /\ Linked(ExchangeNames(t, k, p))
           /\ Spread(ExchangeNames(t, k, p), Swapped(b, k, p))
<1> DEFINE r == ExchangeNames(t, k, p)
           c == Swapped(b, k, p)
           N(n) == Swap(k, p, n)
           M == Members(t)
<1>1. k \in Keys /\ p \in Keys /\ k # Nil /\ p # Nil /\ t \in Trees
  BY KeyAssumption DEF Members, Linked
<1>2. /\ r \in Trees
      /\ r.root = N(t.root)
      /\ \A s \in Sides, n \in Keys : r.child[s][n] = N(t.child[s][N(n)])
      /\ \A n \in Keys : r.parent[n] = N(t.parent[N(n)])
  BY <1>1, ExchangeExchanges
<1>3. /\ \A n : N(N(n)) = n
      /\ N(Nil) = Nil
      /\ \A n \in Keys : N(n) \in Keys
      /\ \A n \in M : N(n) \in M
  <2>1. \A n : N(N(n)) = n
    BY SwapTwice
  <2>2. N(Nil) = Nil
    BY <1>1 DEF Swap
  <2>3. \A n \in Keys : N(n) \in Keys
    BY <1>1 DEF Swap
  <2>4. \A n \in M : N(n) \in M
    BY DEF Swap
  <2> HIDE DEF N
  <2> QED
    BY <2>1, <2>2, <2>3, <2>4
<1> HIDE DEF r, N
<1>4. Members(r) = M
  <2>1. \A n \in Keys : n \in Members(r) <=> N(n) \in M
    BY <1>2, <1>3 DEF Members
  <2>2. \A n \in Keys : N(n) \in M <=> n \in M
    BY <1>3
  <2> HIDE DEF M
  <2> QED
    BY <2>1, <2>2 DEF Members, M
<1>5. Linked(r)
  <2>1. r.root # Nil => r.parent[r.root] = Nil
    <3>1. r.root # Nil => t.root # Nil /\ t.root \in Keys /\ N(r.root) = t.root /\ r.root \in Keys
      BY <1>1, <1>2, <1>3 DEF Trees
    <3> QED
      BY <1>2, <1>3, <3>1 DEF Linked
  <2>2. r.root = Nil => \A n \in Keys : r.parent[n] = Nil
    <3>1. r.root = Nil => t.root = Nil
      BY <1>2, <1>3
    <3> QED
      BY <1>2, <1>3, <3>1 DEF Linked
  <2>3. ASSUME NEW n \in Members(r), NEW s \in Sides, r.child[s][n] # Nil
        PROVE  r.parent[r.child[s][n]] = n
    <3>1. N(n) \in M /\ n \in Keys /\ N(n) \in Keys
      BY <1>3, <1>4 DEF Members
    <3>2. t.child[s][N(n)] # Nil /\ t.child[s][N(n)] \in Keys
      BY <1>2, <1>3, <2>3, <3>1, <1>1 DEF Trees
    <3>3. t.parent[t.child[s][N(n)]] = N(n)
      BY <3>1, <3>2 DEF Linked
    <3> QED
      BY <1>2, <1>3, <3>1, <3>2, <3>3
  <2>4. ASSUME NEW n \in Keys, r.parent[n] # Nil
        PROVE  r.parent[n] \in Members(r) /\ \E s \in Sides : r.child[s][r.parent[n]] = n
    <3>1. N(n) \in Keys /\ t.parent[N(n)] # Nil /\ r.parent[n] = N(t.parent[N(n)])
      BY <1>2, <1>3, <2>4
    <3>2. t.parent[N(n)] \in M /\ \E s \in Sides : t.child[s][t.parent[N(n)]] = N(n)
      BY <3>1 DEF Linked
    <3>3. PICK s \in Sides : t.child[s][t.parent[N(n)]] = N(n)
      BY <3>2
    <3>4. r.parent[n] \in M /\ r.parent[n] \in Keys
      BY <1>3, <3>1, <3>2 DEF Members
    <3> QED
      BY <1>2, <1>3, <1>4, <3>1, <3>3, <3>4
  <2>5. ASSUME NEW n \in Keys \ Members(r), NEW s \in Sides PROVE r.child[s][n] = Nil
    <3>1. N(n) \in Keys /\ N(n) \notin M
      BY <1>3, <1>4
    <3> QED
      BY <1>2, <1>3, <3>1 DEF Linked
  <2> QED
    BY <1>2, <2>1, <2>2, <2>3, <2>4, <2>5 DEF Linked
<1>6. Spread(r, c)
  <2>1. /\ c \in [Keys \cup {Nil} -> SUBSET Keys]
        /\ \A n \in Keys \cup {Nil}, x \in Keys : x \in c[n] <=> N(x) \in b[N(n)]
    BY DEF Swapped, N
  <2> HIDE DEF c
  <2>2. b[Nil] = {} /\ b[t.root] = M /\ t.root \in Keys \cup {Nil}
    BY <1>1 DEF Spread, Trees
  <2>3. c[Nil] = {}
    BY <1>3, <2>1, <2>2
  <2>4. c[r.root] = Members(r)
    <3>1. r.root \in Keys \cup {Nil} /\ N(r.root) = t.root
      BY <1>2, <1>3 DEF Trees
    <3>2. \A x \in Keys : x \in c[r.root] <=> N(x) \in M
      BY <2>1, <2>2, <3>1
    <3>3. \A x \in Keys : N(x) \in M <=> x \in M
      BY <1>3
    <3>4. c[r.root] \subseteq Keys /\ M \subseteq Keys
      BY <2>1, <3>1 DEF Members
    <3> QED
      BY <1>4, <3>2, <3>3, <3>4
  <2>5. ASSUME NEW n \in Members(r), NEW s \in Sides
        PROVE  /\ c[n] \subseteq Members(r)
               /\ c[n] = {n} \cup c[r.child[s][n]] \cup c[r.child[Other(s)][n]]
               /\ n \notin c[r.child[s][n]]
               /\ c[r.child[s][n]] \cap c[r.child[Other(s)][n]] = {}
    <3> DEFINE l == r.child[s][n]
               e == r.child[Other(s)][n]
    <3>1. /\ n \in Keys /\ N(n) \in M /\ N(n) \in Keys
      BY <1>3, <1>4 DEF Members
    <3>2. /\ l \in Keys \cup {Nil} /\ e \in Keys \cup {Nil}
          /\ N(l) = t.child[s][N(n)] /\ N(e) = t.child[Other(s)][N(n)]
      BY <1>2, <1>3, <3>1, TwoSides DEF Trees
    <3>3. /\ b[N(n)] = {N(n)} \cup b[N(l)] \cup b[N(e)]
          /\ N(n) \notin b[N(l)] /\ b[N(l)] \cap b[N(e)] = {} /\ b[N(n)] \subseteq M
      BY <3>1, <3>2 DEF Spread
    <3> HIDE DEF l, e
    <3>4. /\ \A x \in Keys : x \in c[n] <=> N(x) \in b[N(n)]
          /\ \A x \in Keys : x \in c[l] <=> N(x) \in b[N(l)]
          /\ \A x \in Keys : x \in c[e] <=> N(x) \in b[N(e)]
          /\ c[n] \subseteq Keys /\ c[l] \subseteq Keys /\ c[e] \subseteq Keys
      BY <2>1, <3>1, <3>2
    <3>5. \A x \in Keys : N(x) = N(n) <=> x = n
      BY <1>3
    <3>6. \A x \in Keys : N(x) \in M <=> x \in M
      BY <1>3
    <3>7. c[n] \subseteq Members(r)
      BY <1>4, <3>3, <3>4, <3>6
    <3>8. \A x \in Keys : x \in c[n] <=> x = n \/ x \in c[l] \/ x \in c[e]
      BY <3>3, <3>4, <3>5
    <3>9. c[n] = {n} \cup c[l] \cup c[e]
      BY <3>1, <3>4, <3>8
    <3>10. n \notin c[l] /\ c[l] \cap c[e] = {}
      BY <3>1, <3>3, <3>4
    <3> QED
      BY <3>7, <3>9, <3>10 DEF l, e
  <2> QED
    BY <2>1, <2>3, <2>4, <2>5 DEF Spread, Sides
<1> QED
  BY <1>4, <1>5, <1>6 DEF r

(* The node before k has no right child, and no key is between it and k.      *)
LEMMA NodeBefore ==
    ASSUME NEW t, NEW b, Shaped(t, b, Nil), NEW k \in Members(t), t.child["left"][k] # Nil
    PROVE  LET p == Outermost(t, "right", t.child["left"][k])
           IN  /\ p \in Members(t) /\ p \in b[t.child["left"][k]] /\ p < k
               /\ t.child["right"][p] = Nil
               /\ \A m \in Members(t) \ {k, p} : m < p \/ k < m
<1> DEFINE l == t.child["left"][k]
           p == Outermost(t, "right", l)
<1>1. Linked(t) /\ Spread(t, b) /\ Ordered(t, b, Nil) /\ t \in Trees
  BY DEF Shaped, Linked
<1>2. "left" \in Sides /\ "right" \in Sides /\ Other("right") = "left" /\ Other("left") = "right"
  BY DEF Sides, Other
<1>3. l \in Members(t)
  BY <1>1, <1>2, Apart
<1> HIDE DEF l
<1>4. /\ p \in Members(t) /\ p \in b[l] /\ t.child["right"][p] = Nil
      /\ \A x \in b[l] \ {p} : Beside("left", x, p)
  BY <1>2, <1>3, OutermostIsLast
<1> HIDE DEF p
<1>5. /\ b[k] = {k} \cup b[l] \cup b[t.child["right"][k]]
      /\ b[k] \subseteq Keys
  BY <1>1, <1>2 DEF Spread, l, Members
<1>6. /\ \A x \in b[l] : Beside("left", x, k)
      /\ \A x \in b[t.child["right"][k]] : Beside("right", x, k)
  BY <1>1, <1>2, <1>5, KeyAssumption DEF Ordered, l
<1>7. ASSUME NEW m \in Members(t) \ {k, p} PROVE m < p \/ k < m
  <2>1. CASE m \in b[l]
    BY <1>4, <1>7, <2>1 DEF Beside
  <2>2. CASE m \in b[t.child["right"][k]]
    BY <1>6, <2>2 DEF Beside
  <2>3. CASE m \notin b[k]
    BY <1>4, <1>5, <2>3, SameSide
  <2> QED
    BY <1>5, <1>7, <2>1, <2>2, <2>3
<1>8. p < k
  BY <1>4, <1>6 DEF Beside
<1> QED
  BY <1>4, <1>7, <1>8 DEF l, p

LEMMA ExchangeShaped ==
    ASSUME NEW t, NEW b, Shaped(t, b, Nil), NEW k \in Members(t), NEW p \in Members(t),
           p < k, \A m \in Members(t) \ {k, p} : m < p \/ k < m
    PROVE  /\ Members(ExchangeNames(t, k, p)) = Members(t)
           /\ Shaped(ExchangeNames(t, k, p), Swapped(b, k, p), k)
<1> DEFINE r == ExchangeNames(t, k, p)
           c == Swapped(b, k, p)
           N(n) == Swap(k, p, n)
<1>1. Linked(t) /\ Spread(t, b) /\ Ordered(t, b, Nil) /\ t \in Trees
  BY DEF Shaped, Linked
<1>2. Members(r) = Members(t) /\ Linked(r) /\ Spread(r, c)
  BY <1>1, ExchangeLinked
<1>3. /\ \A n : N(N(n)) = n
      /\ N(k) = p /\ N(p) = k
      /\ \A n : n # k /\ n # p => N(n) = n
      /\ N(Nil) = Nil /\ k \in Int /\ p \in Int /\ k \in Keys /\ p \in Keys
  <2>1. k # Nil /\ p # Nil /\ k \in Int /\ p \in Int /\ k \in Keys /\ p \in Keys
    BY KeyAssumption DEF Members
  <2> QED
    BY <2>1, SwapTwice
<1>4. /\ r \in Trees
      /\ \A s \in Sides, n \in Keys : N(r.child[s][n]) = t.child[s][N(n)]
  <2>1. /\ r \in Trees
        /\ \A s \in Sides, n \in Keys : r.child[s][n] = N(t.child[s][N(n)])
    <3>1. t \in Trees /\ k \in Keys /\ p \in Keys
      BY <1>1, <1>3
    <3> QED
      BY <3>1, ExchangeExchanges
  <2> HIDE DEF r, N
  <2> QED
    BY <1>3, <2>1
<1>5. \A n \in Keys \cup {Nil}, x \in Keys : x \in c[n] <=> N(x) \in b[N(n)]
  BY DEF Swapped
<1>6. c \in [Keys \cup {Nil} -> SUBSET Keys]
  BY DEF Swapped
<1> HIDE DEF N, r, c
<1>7. ASSUME NEW x \in Members(t), NEW y \in Members(t), x # k, y # k, NEW s \in Sides,
             Beside(s, N(x), N(y))
      PROVE  Beside(s, x, y)
  <2>1. x \in Int /\ y \in Int
    BY KeyAssumption DEF Members
  <2>2. (x = p /\ N(x) = k) \/ (x # p /\ N(x) = x /\ (x < p \/ k < x))
    BY <1>3, <1>7
  <2>3. (y = p /\ N(y) = k) \/ (y # p /\ N(y) = y /\ (y < p \/ k < y))
    BY <1>3, <1>7
  <2> QED
    BY <1>3, <1>7, <2>1, <2>2, <2>3 DEF Beside
<1>8. ASSUME NEW n \in Members(r), NEW s \in Sides, NEW x \in c[r.child[s][n]] \ {k}
      PROVE  /\ n # k => Beside(s, x, n)
             /\ \A y \in c[r.child[Other(s)][n]] \ {k} : Beside(s, x, y)
  <2> DEFINE l == r.child[s][n]
             e == r.child[Other(s)][n]
             m == N(n)
  <2>1. n \in Members(t) /\ n \in Keys /\ m \in Members(t) /\ m \in Keys
    <3>1. n \in Members(t) /\ n \in Keys
      BY <1>2 DEF Members
    <3>2. m \in {n, k, p}
      BY <1>3
    <3> QED
      BY <1>3, <3>1, <3>2
  <2>2. /\ l \in Keys \cup {Nil} /\ e \in Keys \cup {Nil}
        /\ N(l) = t.child[s][m] /\ N(e) = t.child[Other(s)][m]
    BY <1>4, <2>1, TwoSides DEF Trees
  <2>3. c[n] \subseteq Members(t) /\ c[l] \subseteq c[n] /\ c[e] \subseteq c[n]
    BY <1>2, <1>8 DEF Spread
  <2>4. Members(t) \subseteq Keys /\ Nil \notin Keys
    BY KeyAssumption DEF Members
  <2> HIDE DEF l, e, m
  <2>5. N(x) \in b[N(l)] /\ x \in Members(t) /\ x # k
    BY <1>5, <1>8, <2>2, <2>3, <2>4 DEF l
  <2>6. \A y \in c[e] \ {k} : N(y) \in b[N(e)] /\ y \in Members(t) /\ y # k
    BY <1>5, <2>2, <2>3, <2>4
  <2>7. b[m] \subseteq Keys /\ b[N(l)] \subseteq b[m] /\ b[N(e)] \subseteq b[m]
    BY <1>1, <2>1, <2>2, <2>4 DEF Spread
  <2>8. /\ Beside(s, N(x), m)
        /\ \A y \in b[N(e)] : Beside(s, N(x), y)
    BY <1>1, <2>1, <2>2, <2>4, <2>5, <2>7 DEF Ordered
  <2>9. n # k => Beside(s, x, n)
    BY <1>7, <2>1, <2>5, <2>8 DEF m
  <2>10. \A y \in c[e] \ {k} : Beside(s, x, y)
    BY <1>7, <2>5, <2>6, <2>8
  <2> QED
    BY <2>9, <2>10 DEF e
<1>9. Ordered(r, c, k)
  BY <1>8 DEF Ordered
<1> QED
  BY <1>2, <1>9 DEF Shaped, r, c

(* The fields after a node that has not two children is unlinked.           *)
LEMMA UnlinkUnlinks ==
    ASSUME NEW t, NEW b, Linked(t), Spread(t, b), NEW d \in Members(t)
    PROVE  LET r == Unlinked(t, d)
               c == OnlyChild(t, d)
           IN  /\ r \in Trees
               /\ r.root = IF t.root = d THEN c ELSE t.root
               /\ \A m \in Keys : r.parent[m] = IF m = d THEN Nil
                                                ELSE IF m = c THEN t.parent[d] ELSE t.parent[m]
               /\ \A s \in Sides, m \in Keys :
                     r.child[s][m] = IF m = d THEN Nil
                                     ELSE IF t.child[s][m] = d THEN c ELSE t.child[s][m]
               /\ r.red = t.red \ ({d} \cup (IF t.root = d THEN {c} ELSE {}))
               /\ \A m \in Keys : r.value[m] = IF m = d THEN Nil ELSE t.value[m]
<1> DEFINE c == OnlyChild(t, d)
           q == t.parent[d]
           side == SideOf(t, d)
           u == ReplaceNode(t, d, c)
           v == IF q = Nil THEN Paint(u, {}, {c}) ELSE u
           w == Paint(v, {}, {d})
           r == [w EXCEPT !.parent[d] = Nil, !.value[d] = Nil,
                          !.child["left"][d] = Nil, !.child["right"][d] = Nil]
<1>1. /\ d \in Keys /\ d # Nil /\ q \in Keys \cup {Nil} /\ q # d /\ (q = Nil <=> d = t.root)
      /\ d # t.root => q \in Members(t) /\ t.child[side][q] = d /\ side \in Sides
      /\ t \in Trees
  BY Apart DEF Linked
<1>2. c \in Keys \cup {Nil} /\ c # d
  <2>1. \A s \in Sides : t.child[s][d] \in Keys \cup {Nil} /\ t.child[s][d] # d
    BY <1>1, Apart
  <2> QED
    BY <2>1 DEF OnlyChild, Sides
<1> HIDE DEF c
<1>3. \A s \in Sides, m \in Keys : t.child[s][m] = d <=> d # t.root /\ m = q /\ s = side
  <2> SUFFICES ASSUME NEW s \in Sides, NEW m \in Keys, t.child[s][m] = d
               PROVE  d # t.root /\ m = q /\ s = side
    BY <1>1
  <2>1. m \in Members(t) /\ t.parent[d] = m
    BY <1>1 DEF Linked
  <2>2. m # Nil
    BY KeyAssumption
  <2>3. d # t.root
    BY <1>1, <2>1, <2>2
  <2>4. t.child[s][m] # t.child[Other(s)][m]
    BY <1>1, <2>1, Apart
  <2> QED
    BY <1>1, <2>1, <2>3, <2>4 DEF Sides, Other
<1>4. /\ u \in Trees /\ u.red = t.red /\ u.value = t.value
      /\ u.root = IF t.root = d THEN c ELSE t.root
      /\ \A m \in Keys : u.parent[m] = IF m = c THEN q ELSE t.parent[m]
      /\ \A s \in Sides, m \in Keys :
            u.child[s][m] = IF t.child[s][m] = d THEN c ELSE t.child[s][m]
  <2> DEFINE x == IF q = Nil THEN [t EXCEPT !.root = c] ELSE [t EXCEPT !.child[side][q] = c]
  <2>1. /\ x \in Trees /\ x.red = t.red /\ x.value = t.value /\ x.parent = t.parent
        /\ x.root = IF t.root = d THEN c ELSE t.root
        /\ \A s \in Sides, m \in Keys :
              x.child[s][m] = IF t.child[s][m] = d THEN c ELSE t.child[s][m]
    <3>1. CASE q = Nil
      BY <1>1, <1>2, <1>3, <3>1 DEF Trees
    <3>2. CASE q # Nil
      BY <1>1, <1>2, <1>3, <3>2 DEF Trees
    <3> QED
      BY <3>1, <3>2
  <2>2. u = IF c = Nil THEN x ELSE [x EXCEPT !.parent[c] = q]
    BY DEF ReplaceNode
  <2> HIDE DEF x, u, q
  <2>3. CASE c = Nil
    BY <2>1, <2>2, <2>3, KeyAssumption DEF q
  <2>4. CASE c # Nil
    BY <1>1, <1>2, <2>1, <2>2, <2>4 DEF Trees, q
  <2> QED
    BY <2>3, <2>4
<1> HIDE DEF u
<1>5. /\ w \in Trees /\ w.root = u.root /\ w.child = u.child /\ w.parent = u.parent
      /\ w.value = u.value
      /\ w.red = t.red \ ({d} \cup (IF t.root = d THEN {c} ELSE {}))
  <2>1. CASE q = Nil
    BY <1>1, <1>4, <2>1 DEF Paint, Trees
  <2>2. CASE q # Nil
    BY <1>1, <1>4, <2>2 DEF Paint, Trees
  <2> QED
    BY <2>1, <2>2
<1> HIDE DEF w
<1>6. /\ r \in Trees /\ r.root = w.root /\ r.red = w.red
      /\ \A m \in Keys : r.parent[m] = IF m = d THEN Nil ELSE w.parent[m]
      /\ \A m \in Keys : r.value[m] = IF m = d THEN Nil ELSE w.value[m]
      /\ \A s \in Sides, m \in Keys : r.child[s][m] = IF m = d THEN Nil ELSE w.child[s][m]
  BY <1>1, <1>5 DEF Trees, Sides
<1>7. Unlinked(t, d) = r
  BY DEF Unlinked, w, u, c
<1> HIDE DEF r
<1> QED
  BY <1>4, <1>5, <1>6, <1>7 DEF c

LEMMA UnlinkShaped ==
    ASSUME NEW t, NEW b, NEW d, Shaped(t, b, d), d \in Members(t),
           Nil \in {t.child["left"][d], t.child["right"][d]}
    PROVE  /\ Members(Unlinked(t, d)) = Members(t) \ {d}
           /\ Shaped(Unlinked(t, d), [m \in Keys \cup {Nil} |-> b[m] \ {d}], Nil)
<1> DEFINE r == Unlinked(t, d)
           c == OnlyChild(t, d)
           e == [m \in Keys \cup {Nil} |-> b[m] \ {d}]
           q == t.parent[d]
<1>1. Linked(t) /\ Spread(t, b) /\ Ordered(t, b, d) /\ t \in Trees
  BY DEF Shaped, Linked
<1>2. /\ d \in Keys /\ d # Nil /\ q \in Keys \cup {Nil} /\ q # d /\ (q = Nil <=> d = t.root)
      /\ d # t.root => q \in Members(t) /\ \E s \in Sides : t.child[s][q] = d
  BY <1>1, Apart
<1>3. PICK o \in Sides : c = t.child[o][d] /\ t.child[Other(o)][d] = Nil
  BY DEF OnlyChild, Sides, Other
<1>4. /\ c \in Keys \cup {Nil} /\ c # d
      /\ c # Nil => c \in Members(t) /\ t.parent[c] = d /\ c # t.root /\ c # q
  <2>1. /\ t.child[o][d] \in Keys \cup {Nil} /\ t.child[o][d] # d
        /\ t.child[o][d] # Nil => /\ t.child[o][d] \in Members(t) /\ t.child[o][d] # t.root
                                  /\ t.child[o][d] # t.parent[d]
    BY <1>1, <1>2, Apart
  <2>2. t.child[o][d] # Nil => t.parent[t.child[o][d]] = d
    BY <1>1 DEF Linked
  <2> HIDE DEF c
  <2> QED
    BY <1>3, <2>1, <2>2
<1>5. /\ r \in Trees
      /\ r.root = IF t.root = d THEN c ELSE t.root
      /\ \A m \in Keys : r.parent[m] = IF m = d THEN Nil
                                       ELSE IF m = c THEN q ELSE t.parent[m]
      /\ \A s \in Sides, m \in Keys :
            r.child[s][m] = IF m = d THEN Nil
                            ELSE IF t.child[s][m] = d THEN c ELSE t.child[s][m]
  BY <1>1, UnlinkUnlinks
<1>6. /\ b[Nil] = {} /\ b[d] = {d} \cup b[c] /\ d \notin b[c] /\ b[t.root] = Members(t)
  <2>1. b[Nil] = {} /\ b[t.root] = Members(t)
    BY <1>1 DEF Spread
  <2>2. b[d] = {d} \cup b[t.child[o][d]] \cup b[t.child[Other(o)][d]] /\ d \notin b[t.child[o][d]]
    BY <1>1, <1>3 DEF Spread
  <2> QED
    BY <1>3, <2>1, <2>2
<1> HIDE DEF c, r, q
<1>7. d = t.root /\ c = Nil => Members(t) = {d}
  BY <1>6
<1>8. Members(r) = Members(t) \ {d}
  <2> SUFFICES ASSUME NEW m \in Keys PROVE m \in Members(r) <=> m \in Members(t) /\ m # d
    BY DEF Members
  <2>1. CASE m = d
    BY <1>2, <1>4, <1>5, <2>1 DEF Members
  <2>2. CASE m # d /\ m = c
    BY <1>2, <1>4, <1>5, <2>2, KeyAssumption DEF Members
  <2>3. CASE m # d /\ m # c
    BY <1>2, <1>4, <1>5, <2>3 DEF Members
  <2> QED
    BY <2>1, <2>2, <2>3
<1>9. Linked(r)
  <2>1. r.root # Nil => r.parent[r.root] = Nil
    <3>1. CASE t.root = d
      BY <1>2, <1>4, <1>5, <3>1
    <3>2. CASE t.root # d
      <4>1. t.root # Nil => t.root \in Keys /\ t.root # c /\ t.parent[t.root] = Nil
        BY <1>1, <1>4 DEF Linked, Trees
      <4> QED
        BY <1>5, <3>2, <4>1
    <3> QED
      BY <3>1, <3>2
  <2>2. r.root = Nil => \A n \in Keys : r.parent[n] = Nil
    <3> SUFFICES ASSUME r.root = Nil, NEW n \in Keys, r.parent[n] # Nil PROVE FALSE
      OBVIOUS
    <3>1. t.root # Nil
      BY <1>1, <1>2, <1>6
    <3>2. t.root = d /\ c = Nil
      BY <1>5, <3>1
    <3>3. n # d /\ n \in Members(r)
      BY <1>5 DEF Members
    <3> QED
      BY <1>7, <1>8, <3>2, <3>3
  <2>3. ASSUME NEW n \in Members(r), NEW s \in Sides, r.child[s][n] # Nil
        PROVE  r.parent[r.child[s][n]] = n
    <3>1. n \in Members(t) /\ n # d /\ n \in Keys
      BY <1>8 DEF Members
    <3>2. CASE t.child[s][n] = d
      <4>1. n = q
        BY <1>1, <1>2, <3>1, <3>2 DEF Linked, q
      <4> QED
        BY <1>4, <1>5, <2>3, <3>1, <3>2, <4>1
    <3>3. CASE t.child[s][n] # d
      <4>1. r.child[s][n] = t.child[s][n] /\ t.child[s][n] # Nil /\ t.child[s][n] \in Keys
        BY <1>1, <1>5, <2>3, <3>1, <3>3, Apart
      <4>2. t.parent[t.child[s][n]] = n
        BY <1>1, <3>1, <4>1 DEF Linked
      <4>3. t.child[s][n] # c
        BY <1>4, <3>1, <4>1, <4>2
      <4> QED
        BY <1>5, <3>3, <4>1, <4>2, <4>3
    <3> QED
      BY <3>2, <3>3
  <2>4. ASSUME NEW n \in Keys, r.parent[n] # Nil
        PROVE  r.parent[n] \in Members(r) /\ \E s \in Sides : r.child[s][r.parent[n]] = n
    <3>1. n # d
      BY <1>5, <2>4
    <3>2. CASE n = c
      <4>1. r.parent[n] = q /\ q # Nil /\ d # t.root
        BY <1>2, <1>5, <2>4, <3>1, <3>2
      <4>2. PICK s \in Sides : t.child[s][q] = d
        BY <1>2, <4>1
      <4>3. r.child[s][q] = c /\ q \in Members(r)
        BY <1>2, <1>5, <1>8, <4>1, <4>2
      <4> QED
        BY <3>2, <4>1, <4>3
    <3>3. CASE n # c
      <4>1. r.parent[n] = t.parent[n] /\ t.parent[n] \in Members(t)
        BY <1>1, <1>5, <2>4, <3>1, <3>3 DEF Linked
      <4>2. PICK s \in Sides : t.child[s][t.parent[n]] = n
        BY <1>1, <2>4, <4>1 DEF Linked
      <4>3. t.parent[n] # d
        <5>1. \A x \in Sides : t.child[x][d] \in {c, Nil}
          BY <1>3, TwoSides DEF c
        <5> QED
          BY <3>3, <4>2, <5>1, KeyAssumption
      <4>4. t.parent[n] \in Keys
        BY <4>1 DEF Members
      <4> QED
        BY <1>5, <1>8, <3>1, <4>1, <4>2, <4>3, <4>4
    <3> QED
      BY <3>2, <3>3
  <2>5. ASSUME NEW n \in Keys \ Members(r), NEW s \in Sides PROVE r.child[s][n] = Nil
    <3>1. n = d \/ n \in Keys \ Members(t)
      BY <1>8
    <3> QED
      BY <1>1, <1>2, <1>5, <3>1 DEF Linked
  <2> QED
    BY <1>5, <2>1, <2>2, <2>3, <2>4, <2>5 DEF Linked
<1>10. ASSUME NEW n \in Members(t) \ {d}, NEW s \in Sides
       PROVE  /\ n \in Keys /\ e[n] = b[n] \ {d}
              /\ e[r.child[s][n]] = b[t.child[s][n]] \ {d}
  <2>1. n \in Keys /\ t.child[s][n] \in Keys \cup {Nil}
    BY <1>1, Apart
  <2>2. r.child[s][n] = IF t.child[s][n] = d THEN c ELSE t.child[s][n]
    BY <1>5, <2>1
  <2> QED
    BY <1>2, <1>4, <1>6, <2>1, <2>2
<1>11. Spread(r, e)
  <2>1. e \in [Keys \cup {Nil} -> SUBSET Keys] /\ e[Nil] = {}
    BY <1>1, <1>6 DEF Spread
  <2>2. e[r.root] = Members(r)
    <3>1. t.root \in Keys \cup {Nil}
      BY <1>1 DEF Trees
    <3>2. CASE t.root = d
      BY <1>4, <1>5, <1>6, <1>8, <3>2
    <3>3. CASE t.root # d
      BY <1>5, <1>6, <1>8, <3>1, <3>3
    <3> QED
      BY <3>2, <3>3
  <2> HIDE DEF e
  <2>3. ASSUME NEW n \in Members(r), NEW s \in Sides
        PROVE  /\ e[n] \subseteq Members(r)
               /\ e[n] = {n} \cup e[r.child[s][n]] \cup e[r.child[Other(s)][n]]
               /\ n \notin e[r.child[s][n]]
               /\ e[r.child[s][n]] \cap e[r.child[Other(s)][n]] = {}
    <3>1. n \in Members(t) \ {d}
      BY <1>8
    <3>2. /\ e[n] = b[n] \ {d}
          /\ e[r.child[s][n]] = b[t.child[s][n]] \ {d}
          /\ e[r.child[Other(s)][n]] = b[t.child[Other(s)][n]] \ {d}
      BY <1>10, <3>1, TwoSides
    <3>3. /\ b[n] \subseteq Members(t)
          /\ b[n] = {n} \cup b[t.child[s][n]] \cup b[t.child[Other(s)][n]]
          /\ n \notin b[t.child[s][n]]
          /\ b[t.child[s][n]] \cap b[t.child[Other(s)][n]] = {}
      BY <1>1, <3>1 DEF Spread
    <3> QED
      BY <1>8, <3>1, <3>2, <3>3
  <2> QED
    BY <2>1, <2>2, <2>3 DEF Spread, Sides
<1>12. Ordered(r, e, Nil)
  <2> HIDE DEF e
  <2> SUFFICES ASSUME NEW n \in Members(r), NEW s \in Sides, NEW x \in e[r.child[s][n]]
               PROVE  /\ Beside(s, x, n)
                      /\ \A y \in e[r.child[Other(s)][n]] : Beside(s, x, y)
    BY DEF Ordered
  <2>1. n \in Members(t) \ {d}
    BY <1>8
  <2>2. /\ e[r.child[s][n]] = b[t.child[s][n]] \ {d}
        /\ e[r.child[Other(s)][n]] = b[t.child[Other(s)][n]] \ {d}
    BY <1>10, <2>1, TwoSides
  <2> QED
    BY <1>1, <2>1, <2>2 DEF Ordered
<1> QED
  BY <1>8, <1>9, <1>11, <1>12 DEF Shaped, r

-----------------------------------------------------------------------------
(* The balance.                                                            *)

(* What a node adds to the black height: nothing when it is red or is the one *)
(* to unlink, and the node where the deletion stands makes up for the black    *)
(* node that its subtree is short of.                                       *)
Weights(t, d, a) ==
    [n \in Keys |-> (IF n \in t.red \/ n = d THEN 0 ELSE 1) + (IF n = a THEN 1 ELSE 0)]

(* h is the black height of every node.                                     *)
Balanced(t, h, w) ==
    /\ h \in [Keys \cup {Nil} -> Nat]
    /\ h[Nil] = 0
    /\ \A n \in Members(t), s \in Sides : h[n] = h[t.child[s][n]] + w[n]

(* A red node has a black parent, unless it is i or next to the one to unlink. *)
RedFits(t, i, d) ==
    /\ t.red \subseteq Members(t)
    /\ \A n \in t.red :
          \/ t.parent[n] # Nil /\ t.parent[n] \notin t.red
          \/ n = i
          \/ d # Nil /\ d \in {n, t.parent[n]}

RestFits(t, b, h) ==
    /\ Shaped(t, b, Nil)
    /\ Balanced(t, h, Weights(t, Nil, Nil))
    /\ RedFits(t, Nil, Nil)

InsertFits(t, b, h, i) ==
    /\ Shaped(t, b, Nil)
    /\ Balanced(t, h, Weights(t, Nil, Nil))
    /\ RedFits(t, i, Nil)
    /\ i \in t.red

DeleteFits(t, b, h, a, d) ==
    /\ Shaped(t, b, d)
    /\ Balanced(t, h, Weights(t, d, a))
    /\ RedFits(t, Nil, d)
    /\ a \in Members(t) /\ d \in b[a]
    /\ Nil \in {t.child["left"][d], t.child["right"][d]}
    /\ a # d => a \notin t.red /\ t.parent[d] \in b[a] /\ t.parent[d] \notin t.red

UnlinkFits(t, b, h, d) ==
    /\ Shaped(t, b, d)
    /\ Balanced(t, h, Weights(t, d, Nil))
    /\ RedFits(t, Nil, d)
    /\ d \in Members(t)
    /\ Nil \in {t.child["left"][d], t.child["right"][d]}
    /\ OnlyChild(t, d) \in t.red => t.parent[d] \notin t.red

LEMMA WeightOf ==
    ASSUME NEW t, NEW d, NEW a, NEW n \in Keys
    PROVE  /\ Weights(t, d, a)[n] = (IF n \in t.red \/ n = d THEN 0 ELSE 1) + (IF n = a THEN 1 ELSE 0)
           /\ Weights(t, d, a)[n] \in {0, 1, 2}
BY DEF Weights

(* h will be the black height once n is turned down to a side.               *)
WillBalance(t, n, side, h, w) ==
    LET up    == t.child[Other(side)][n]
        inner == t.child[side][up]
        outer == t.child[Other(side)][up]
    IN  /\ h \in [Keys \cup {Nil} -> Nat] /\ h[Nil] = 0
        /\ h[n] = h[t.child[side][n]] + w[n] /\ h[n] = h[inner] + w[n]
        /\ h[up] = h[n] + w[up] /\ h[up] = h[outer] + w[up]
        /\ \A m \in Members(t) \ {n, up}, s \in Sides :
              h[m] = (IF t.child[s][m] = n THEN h[up] ELSE h[t.child[s][m]]) + w[m]

LEMMA RotateBalanced ==
    ASSUME NEW t, NEW b, Linked(t), Spread(t, b), NEW n \in Members(t), NEW side \in Sides,
           t.child[Other(side)][n] # Nil, NEW r, Rotated(t, r, n, side), NEW h, NEW w,
           WillBalance(t, n, side, h, w)
    PROVE  Balanced(r, h, w)
<1> DEFINE o == Other(side)
           up == t.child[o][n]
           inner == t.child[side][up]
<1>1. /\ up \in Members(t) /\ up # n
      /\ r.child[side][n] = t.child[side][n] /\ r.child[o][n] = inner
      /\ r.child[side][up] = n /\ r.child[o][up] = t.child[o][up]
      /\ \A m \in Members(t) \ {n, up}, s \in Sides :
            r.child[s][m] = IF t.child[s][m] = n THEN up ELSE t.child[s][m]
  BY RotatedChildren
<1>2. Members(r) = Members(t) /\ Sides = {side, o}
  BY RotateLinked, TwoSides
<1>3. ASSUME NEW m \in Members(t) \ {n, up}, NEW s \in Sides PROVE h[m] = h[r.child[s][m]] + w[m]
  BY <1>1 DEF WillBalance
<1>4. \A s \in Sides : h[n] = h[r.child[s][n]] + w[n] /\ h[up] = h[r.child[s][up]] + w[up]
  BY <1>1, <1>2 DEF WillBalance
<1> HIDE DEF up, inner, o
<1>5. \A m \in Members(r), s \in Sides : h[m] = h[r.child[s][m]] + w[m]
  BY <1>1, <1>2, <1>3, <1>4
<1> QED
  BY <1>5 DEF Balanced, WillBalance

(* The node where the deletion stands, its parent and its sibling.          *)
LEMMA SiblingStands ==
    ASSUME NEW t, NEW b, NEW h, NEW a, NEW d, DeleteFits(t, b, h, a, d), t.parent[a] # Nil
    PROVE  LET p    == t.parent[a]
               side == SideOf(t, a)
               s    == Sibling(t, a)
           IN  /\ p \in Members(t) /\ p # Nil /\ p # a /\ p # d
               /\ side \in Sides /\ t.child[side][p] = a /\ t.child[Other(side)][p] = s
               /\ s \in Members(t) /\ s # Nil /\ s # a /\ s # p /\ s # d /\ t.parent[s] = p
               /\ h[s] = h[a] /\ h[a] > 0
               /\ p \notin b[a] /\ s \notin b[a] /\ b[s] \cap b[a] = {}
               /\ {a, p, s, d} \subseteq Keys
               /\ \A m \in b[a] : t.child["left"][m] # p /\ t.child["right"][m] # p
               /\ p \in t.red => t.parent[p] # Nil /\ t.parent[p] \notin t.red
               /\ s \in t.red => p \notin t.red
               /\ \A q \in Sides : t.child[q][s] \in t.red => s \notin t.red
<1> DEFINE p == t.parent[a]
           side == SideOf(t, a)
           o == Other(side)
           s == t.child[o][p]
<1>1. /\ Linked(t) /\ Spread(t, b) /\ t \in Trees /\ a \in Members(t) /\ d \in b[a]
      /\ Balanced(t, h, Weights(t, d, a)) /\ RedFits(t, Nil, d)
  BY DEF DeleteFits, Shaped, Linked
<1>2. /\ p \in Members(t) /\ p # a /\ side \in Sides /\ t.child[side][p] = a /\ a \in Keys
      /\ a # Nil
  BY <1>1, Apart
<1>3. o \in Sides /\ o # side /\ Other(o) = side
  BY <1>2, TwoSides
<1> HIDE DEF p, side, o
<1>4. /\ b[p] = {p} \cup b[a] \cup b[s] /\ p \notin b[a] /\ p \notin b[s] /\ b[a] \cap b[s] = {}
      /\ b[Nil] = {} /\ p # d
  BY <1>1, <1>2, <1>3 DEF Spread
<1>5. h[a] = h[s] /\ h[a] > 0
  <2>1. p \in Keys
    BY <1>2 DEF Members
  <2>2. /\ h[p] = h[a] + Weights(t, d, a)[p] /\ h[p] = h[s] + Weights(t, d, a)[p]
    BY <1>1, <1>2, <1>3 DEF Balanced
  <2>3. /\ h[a] = h[t.child["left"][a]] + Weights(t, d, a)[a]
        /\ t.child["left"][a] \in Keys \cup {Nil}
    BY <1>1, <1>2, Apart DEF Balanced, Sides
  <2>4. s \in Keys \cup {Nil} /\ h \in [Keys \cup {Nil} -> Nat]
    BY <1>1, <1>2, <1>3, Apart DEF Balanced
  <2>5. Weights(t, d, a)[p] \in Nat /\ Weights(t, d, a)[a] \in Nat \ {0}
    BY <1>2, <2>1, WeightOf
  <2>6. h[a] \in Nat /\ h[s] \in Nat /\ h[t.child["left"][a]] \in Nat
    BY <1>2, <2>3, <2>4
  <2> QED
    BY <2>2, <2>3, <2>5, <2>6
<1>6. s # Nil
  BY <1>1, <1>5 DEF Balanced
<1>7. s \in Members(t) /\ s # p /\ s # a /\ t.parent[s] = p
  <2>1. t.parent[s] = p
    BY <1>1, <1>2, <1>3, <1>6 DEF Linked
  <2>2. s \in Members(t) /\ s # p /\ t.child[o][p] # t.child[Other(o)][p]
    BY <1>1, <1>2, <1>3, <1>6, Apart
  <2> QED
    BY <1>2, <1>3, <2>1, <2>2
<1>8. s \in b[s] /\ s # d /\ s \notin b[a]
  <2>1. s \in b[s]
    BY <1>1, <1>3, <1>7 DEF Spread
  <2> QED
    BY <1>1, <1>4, <2>1
<1>9. {a, p, s, d} \subseteq Keys
  BY <1>1, <1>2, <1>7 DEF Members, Spread
<1>10. \A m \in b[a] : t.child["left"][m] # p /\ t.child["right"][m] # p
  <2> SUFFICES ASSUME NEW m \in b[a], NEW q \in Sides, t.child[q][m] = p PROVE FALSE
    BY DEF Sides
  <2>1. m \in Members(t) /\ b[m] \subseteq b[a]
    BY <1>1, Nested
  <2>2. b[p] \subseteq b[m]
    BY <1>1, <2>1 DEF Spread
  <2> QED
    BY <1>4, <2>1, <2>2
<1>11. ASSUME p \in t.red PROVE t.parent[p] # Nil /\ t.parent[p] \notin t.red
  <2>1. t.parent[p] # d
    <3> SUFFICES ASSUME t.parent[p] = d PROVE FALSE
      OBVIOUS
    <3>1. \E q \in Sides : t.child[q][d] = p
      BY <1>1, <1>9, KeyAssumption DEF Linked
    <3> QED
      BY <1>1, <1>10, <3>1 DEF Sides
  <2>2. p # Nil
    BY <1>9, KeyAssumption
  <2> QED
    BY <1>1, <1>4, <1>11, <2>1, <2>2 DEF RedFits
<1>12. s \in t.red => p \notin t.red
  BY <1>1, <1>4, <1>6, <1>7, <1>8 DEF RedFits
<1>13. ASSUME NEW q \in Sides, t.child[q][s] \in t.red PROVE s \notin t.red
  <2> DEFINE x == t.child[q][s]
  <2>1. x \in Keys /\ x # Nil
    BY <1>1, <1>13, KeyAssumption DEF RedFits, Members
  <2>2. x \in Members(t) /\ t.parent[x] = s
    BY <1>1, <1>7, <2>1, Apart DEF Linked
  <2>3. x \in b[x] /\ b[x] \subseteq b[s]
    <3>1. s \in Members(t) /\ \A n \in Members(t) : n \in b[n]
      BY <1>1, <1>7 DEF Spread, Sides
    <3>2. b[t.child[q][s]] \subseteq b[s]
      BY <1>1, <1>13, <3>1 DEF Spread
    <3> QED
      BY <2>2, <3>1, <3>2
  <2>4. x # d
    BY <1>1, <1>4, <2>3
  <2> QED
    BY <1>1, <1>8, <1>13, <2>1, <2>2, <2>4 DEF RedFits
<1>14. Sibling(t, a) = s
  BY DEF Sibling, s, p, side, o
<1>15. t.child[o][p] = s /\ p # Nil
  BY <1>9, KeyAssumption
<1> HIDE DEF s
<1>16. /\ p \in Members(t) /\ p # Nil /\ p # a /\ p # d
       /\ side \in Sides /\ t.child[side][p] = a /\ t.child[o][p] = s
       /\ s \in Members(t) /\ s # Nil /\ s # a /\ s # p /\ s # d /\ t.parent[s] = p
       /\ h[s] = h[a] /\ h[a] > 0
       /\ p \notin b[a] /\ s \notin b[a] /\ b[s] \cap b[a] = {}
       /\ {a, p, s, d} \subseteq Keys
       /\ \A m \in b[a] : t.child["left"][m] # p /\ t.child["right"][m] # p
       /\ p \in t.red => t.parent[p] # Nil /\ t.parent[p] \notin t.red
       /\ s \in t.red => p \notin t.red
       /\ \A q \in Sides : t.child[q][s] \in t.red => s \notin t.red
  BY <1>2, <1>4, <1>5, <1>6, <1>7, <1>8, <1>9, <1>10, <1>11, <1>12, <1>13, <1>15, Zenon
<1> QED
  BY <1>14, <1>16, Zenon DEF p, side, o

(* A rotation leaves alone what is below a node that does not move.          *)
LEMMA RotateOutside ==
    ASSUME NEW t, NEW b, Linked(t), Spread(t, b), NEW n \in Members(t), NEW side \in Sides,
           t.child[Other(side)][n] # Nil, NEW r, Rotated(t, r, n, side),
           NEW a \in Members(t), n \notin b[a], t.child[Other(side)][n] \notin b[a]
    PROVE  /\ Turned(t, b, n, side)[a] = b[a]
           /\ \A m \in b[a], s \in Sides : r.child[s][m] = t.child[s][m]
           /\ \A m \in b[a] : t.parent[m] \in b[a] => r.parent[m] = t.parent[m]
<1> DEFINE up == t.child[Other(side)][n]
           inner == t.child[side][up]
<1>1. a \in b[a] /\ b[a] \subseteq Members(t)
  BY DEF Spread, Sides
<1>2. a # n /\ a # up /\ a \in Keys
  BY <1>1 DEF Members
<1>3. b \in [Keys \cup {Nil} -> SUBSET Keys]
  BY DEF Spread
<1>4. Turned(t, b, n, side)[a] = b[a]
  BY <1>2, <1>3 DEF Turned
<1>5. ASSUME NEW m \in b[a], NEW s \in Sides PROVE r.child[s][m] = t.child[s][m]
  <2>1. m \in Members(t) /\ b[m] \subseteq b[a] /\ m # n /\ m # up
    BY <1>1, Nested
  <2>2. t.child[s][m] # n
    <3>1. b[t.child[s][m]] \subseteq b[m] /\ n \in b[n]
      BY <2>1 DEF Spread
    <3> QED
      BY <2>1, <3>1
  <2> QED
    BY <2>1, <2>2, RotatedChildren
<1>6. ASSUME NEW m \in b[a], t.parent[m] \in b[a] PROVE r.parent[m] = t.parent[m]
  <2>1. m \in Keys /\ m # n /\ m # up
    BY <1>1 DEF Members
  <2>2. m # inner
    <3>1. up \in Members(t)
      BY MovedNodes
    <3>2. inner # Nil => t.parent[inner] = up
      BY <3>1 DEF Linked
    <3> QED
      BY <1>6, <2>1, <3>2, KeyAssumption
  <2> HIDE DEF up, inner
  <2> QED
    BY <2>1, <2>2 DEF Rotated, up, inner
<1> QED
  BY <1>4, <1>5, <1>6

(* deleteCase2 lifts a red sibling; the deletion stands where it stood.       *)
LEMMA LiftRedSiblingFits ==
    ASSUME NEW t, NEW b, NEW h, NEW a, NEW d, DeleteFits(t, b, h, a, d), t.parent[a] # Nil
    PROVE  LET r == LiftRedSibling(t, a)
           IN  \E c, g :
                  /\ DeleteFits(r, c, g, a, d)
                  /\ Members(r) = Members(t) /\ r.value = t.value
                  /\ r.parent[a] = t.parent[a]
                  /\ Sibling(r, a) \notin r.red
                  /\ t.parent[a] \notin r.red => r = t
<1> DEFINE p == t.parent[a]
           side == SideOf(t, a)
           o == Other(side)
           s == Sibling(t, a)
<1>1. /\ Linked(t) /\ Spread(t, b) /\ t \in Trees /\ a \in Members(t) /\ d \in b[a]
      /\ Shaped(t, b, d) /\ Balanced(t, h, Weights(t, d, a)) /\ RedFits(t, Nil, d)
      /\ a # d => a \notin t.red
  BY DEF DeleteFits, Shaped, Linked
<1>2. /\ p \in Members(t) /\ p # Nil /\ p # a /\ p # d
      /\ side \in Sides /\ t.child[side][p] = a /\ t.child[o][p] = s
      /\ s \in Members(t) /\ s # Nil /\ s # a /\ s # p /\ s # d /\ t.parent[s] = p
      /\ h[s] = h[a]
      /\ p \notin b[a] /\ s \notin b[a]
      /\ {a, p, s, d} \subseteq Keys
      /\ s \in t.red => p \notin t.red
      /\ \A q \in Sides : t.child[q][s] \in t.red => s \notin t.red
  BY SiblingStands
<1>3. o \in Sides /\ o # side /\ Other(o) = side /\ Sides = {side, o}
  BY <1>2, TwoSides
<1>4. CASE s \notin t.red
  <2>1. LiftRedSibling(t, a) = t
    BY <1>4 DEF LiftRedSibling, IsRed
  <2> QED
    BY <1>4, <2>1
<1>5. CASE s \in t.red
  <2> DEFINE u == Paint(t, {p}, {s})
             r == Rotate(u, p, side)
             c == Turned(u, b, p, side)
             g == [h EXCEPT ![p] = h[a], ![s] = h[a] + 1]
             inner == t.child[side][s]
             outer == t.child[o][s]
  <2>1. LiftRedSibling(t, a) = r
    BY <1>5 DEF LiftRedSibling, IsRed
  <2> HIDE DEF p, side, o, s
  <2>2. /\ u \in Trees /\ u.root = t.root /\ u.child = t.child /\ u.parent = t.parent
        /\ u.value = t.value /\ u.red = (t.red \cup {p}) \ {s}
        /\ Members(u) = Members(t) /\ Shaped(u, b, d)
    BY <1>1, <1>2, PaintPaints, PaintShaped
  <2> HIDE DEF u
  <2>3. /\ Members(r) = Members(u) /\ Shaped(r, c, d) /\ Rotated(u, r, p, side)
        /\ Linked(u) /\ Spread(u, b)
    BY <1>2, <1>3, <2>2, RotateShaped DEF Shaped, o
  <2> HIDE DEF r
  <2>4. /\ inner # p /\ inner # s /\ outer # p /\ outer # s
        /\ inner \in Keys \cup {Nil} /\ outer \in Keys \cup {Nil}
    BY <1>2, <2>2, <2>3, MovedNodes DEF o
  <2>5. /\ r.red = u.red /\ r.value = u.value
        /\ \A m \in Keys :
              r.parent[m] = IF m = p THEN s ELSE IF m = s THEN t.parent[p]
                            ELSE IF m = inner THEN p ELSE t.parent[m]
    BY <1>2, <2>2, <2>3 DEF Rotated, o
  <2>6. /\ c[a] = b[a]
        /\ \A m \in b[a], q \in Sides : r.child[q][m] = t.child[q][m]
        /\ \A m \in b[a] : t.parent[m] \in b[a] => r.parent[m] = t.parent[m]
    BY <1>1, <1>2, <2>2, <2>3, RotateOutside DEF o
  <2>7. Balanced(r, g, Weights(r, d, a))
    <3> DEFINE w == Weights(r, d, a)
    <3>1. /\ w[p] = 0 /\ w[s] = 1
          /\ Weights(t, d, a)[p] = 1 /\ Weights(t, d, a)[s] = 0
          /\ \A m \in Keys \ {p, s} : w[m] = Weights(t, d, a)[m]
      BY <1>2, <1>5, <2>2, <2>5 DEF Weights
    <3> HIDE DEF w
    <3>2. /\ h \in [Keys \cup {Nil} -> Nat] /\ h[Nil] = 0
          /\ h[p] = h[a] + 1 /\ h[inner] = h[s] /\ h[outer] = h[s]
          /\ \A m \in Members(t), q \in Sides : h[m] = h[t.child[q][m]] + Weights(t, d, a)[m]
      <4>1. /\ h \in [Keys \cup {Nil} -> Nat] /\ h[Nil] = 0
            /\ \A m \in Members(t), q \in Sides : h[m] = h[t.child[q][m]] + Weights(t, d, a)[m]
        BY <1>1 DEF Balanced
      <4>2. h[p] = h[a] + 1
        BY <1>2, <3>1, <4>1
      <4>3. h[s] = h[inner] + 0 /\ h[s] = h[outer] + 0
        BY <1>2, <1>3, <3>1, <4>1
      <4>4. h[inner] \in Nat /\ h[outer] \in Nat
        BY <2>4, <4>1
      <4> QED
        BY <4>1, <4>2, <4>3, <4>4
    <3>3. /\ g \in [Keys \cup {Nil} -> Nat] /\ g[Nil] = 0 /\ g[p] = h[a] /\ g[s] = h[a] + 1
          /\ \A m \in (Keys \cup {Nil}) \ {p, s} : g[m] = h[m]
          /\ h[a] \in Nat
      BY <1>2, <3>2
    <3> HIDE DEF g
    <3>4. /\ g[p] = g[a] + w[p] /\ g[p] = g[inner] + w[p]
          /\ g[s] = g[p] + w[s] /\ g[s] = g[outer] + w[s]
      BY <1>2, <2>4, <3>1, <3>2, <3>3
    <3>5. ASSUME NEW m \in Members(t) \ {p, s}, NEW q \in Sides
          PROVE  g[m] = (IF t.child[q][m] = p THEN g[s] ELSE g[t.child[q][m]]) + w[m]
      <4>1. m \in Keys /\ t.child[q][m] \in Keys \cup {Nil}
        BY <1>1, Apart
      <4>2. t.child[q][m] # s
        BY <1>1, <1>2, <3>5 DEF Linked
      <4>3. h[m] = h[t.child[q][m]] + w[m] /\ g[m] = h[m]
        BY <3>1, <3>2, <3>3, <4>1
      <4> QED
        BY <3>2, <3>3, <4>1, <4>2, <4>3
    <3>6. WillBalance(u, p, side, g, w)
      <4>1. /\ u.child[o][p] = s /\ u.child[side][p] = a /\ u.child[side][s] = inner
            /\ u.child[o][s] = outer
        BY <1>2, <2>2
      <4> HIDE DEF inner, outer
      <4> QED
        BY <2>2, <3>3, <3>4, <3>5, <4>1 DEF WillBalance, o
    <3>7. p \in Members(u) /\ u.child[Other(side)][p] # Nil
      BY <1>2, <2>2 DEF o
    <3> QED
      BY <1>2, <2>3, <3>6, <3>7, RotateBalanced DEF w
  <2>8. RedFits(r, Nil, d)
    <3>1. r.red \subseteq Members(r)
      BY <1>1, <1>2, <2>2, <2>3, <2>5 DEF RedFits
    <3>2. ASSUME NEW n \in r.red
          PROVE  \/ r.parent[n] # Nil /\ r.parent[n] \notin r.red
                 \/ n = Nil
                 \/ d # Nil /\ d \in {n, r.parent[n]}
      <4>1. n \in Keys
        BY <3>1 DEF Members
      <4>2. CASE n = p
        BY <1>2, <2>2, <2>5, <4>2
      <4>3. CASE n # p
        <5>1. n \in t.red /\ n # s /\ n # inner /\ n # Nil
          BY <1>2, <1>3, <1>5, <2>2, <2>5, <4>1, <4>3, KeyAssumption
        <5>2. r.parent[n] = t.parent[n]
          BY <2>5, <4>1, <4>3, <5>1
        <5>3. CASE t.parent[n] = p
          <6>1. n \in Members(t)
            BY <1>1, <5>1 DEF RedFits
          <6>2. n = a
            BY <1>1, <1>2, <1>3, <5>1, <5>3, <4>1 DEF Linked
          <6> QED
            BY <1>1, <1>2, <5>1, <6>2, KeyAssumption
        <5>4. CASE t.parent[n] # p
          BY <1>1, <2>2, <2>5, <5>1, <5>2, <5>4 DEF RedFits
        <5> QED
          BY <5>3, <5>4
      <4> QED
        BY <4>2, <4>3
    <3> QED
      BY <3>1, <3>2 DEF RedFits
  <2>9. DeleteFits(r, c, g, a, d)
    <3>1. /\ a \in Members(r) /\ d \in c[a]
          /\ Nil \in {r.child["left"][d], r.child["right"][d]}
      BY <1>1, <2>2, <2>3, <2>6 DEF DeleteFits, Sides
    <3>2. a # d => a \notin r.red /\ r.parent[d] \in c[a] /\ r.parent[d] \notin r.red
      BY <1>1, <1>2, <2>2, <2>5, <2>6 DEF DeleteFits
    <3> HIDE DEF c, g
    <3> QED
      BY <2>3, <2>7, <2>8, <3>1, <3>2 DEF DeleteFits
  <2>10. /\ r.parent[a] = p /\ p \in r.red /\ r.value = t.value /\ Members(r) = Members(t)
    <3>1. a # inner
      <4>1. inner # Nil => t.parent[inner] = s
        BY <1>1, <1>2 DEF Linked
      <4> QED
        BY <1>2, <4>1, KeyAssumption DEF p
    <3> QED
      BY <1>2, <2>2, <2>3, <2>5, <3>1 DEF p
  <2>11. Sibling(r, a) \notin r.red
    <3>1. r.child[side][p] = a /\ r.child[o][p] = inner
      BY <1>2, <2>2, <2>3, RotatedChildren DEF o
    <3>2. SideOf(r, a) = side
      <4>1. a # inner
        BY <1>2, <2>10, <2>5, <2>3, <3>1, Apart, <2>9, <1>3 DEF DeleteFits, Shaped
      <4> QED
        BY <1>3, <2>10, <3>1, <4>1 DEF SideOf, Sides
    <3>3. Sibling(r, a) = inner
      BY <2>10, <3>1, <3>2 DEF Sibling, o
    <3>4. inner \notin t.red /\ inner # p
      BY <1>2, <1>3, <1>5, <2>4
    <3> QED
      BY <2>2, <2>5, <3>3, <3>4
  <2> QED
    BY <2>1, <2>9, <2>10, <2>11 DEF p
<1> QED
  BY <1>4, <1>5

(* The children of the sibling.                                             *)
LEMMA NephewsStand ==
    ASSUME NEW t, NEW b, NEW h, NEW a, NEW d, DeleteFits(t, b, h, a, d), t.parent[a] # Nil
    PROVE  LET p     == t.parent[a]
               s     == Sibling(t, a)
           IN  \A q \in Sides :
                  LET x == t.child[q][s]
                  IN  /\ x \in Keys \cup {Nil}
                      /\ x # s /\ x # p /\ x # a
                      /\ x # Nil => /\ x \in Members(t) /\ t.parent[x] = s /\ x # d
                                    /\ x \notin b[a] /\ x # t.child[Other(q)][s]
                      /\ x \in t.red => /\ x # Nil
                                        /\ \A r \in Sides : t.child[r][x] \notin t.red
<1> DEFINE p == t.parent[a]
           s == Sibling(t, a)
<1>1. Linked(t) /\ Spread(t, b) /\ RedFits(t, Nil, d) /\ a \in Members(t) /\ d \in b[a]
  BY DEF DeleteFits, Shaped
<1>2. /\ s \in Members(t) /\ t.parent[s] = p /\ s # Nil /\ p # Nil /\ a # p /\ s # a /\ a # Nil
      /\ b[s] \cap b[a] = {} /\ p \in Members(t)
  <2>1. a # Nil
    BY <1>1, KeyAssumption DEF Members
  <2> QED
    BY <2>1, SiblingStands
<1> HIDE DEF s
<1>3. SUFFICES ASSUME NEW q \in Sides
      PROVE  LET x == t.child[q][s]
             IN  /\ x \in Keys \cup {Nil}
                 /\ x # s /\ x # p /\ x # a
                 /\ x # Nil => /\ x \in Members(t) /\ t.parent[x] = s /\ x # d
                               /\ x \notin b[a] /\ x # t.child[Other(q)][s]
                 /\ x \in t.red => /\ x # Nil
                                   /\ \A r \in Sides : t.child[r][x] \notin t.red
  BY DEF s
<1> DEFINE x == t.child[q][s]
<1>4. /\ x \in Keys \cup {Nil}
      /\ x # Nil => /\ x \in Members(t) /\ x # s /\ x # p /\ x # t.child[Other(q)][s]
                    /\ t.parent[x] = s
  <2>1. x # Nil => t.parent[x] = s
    BY <1>1, <1>2 DEF Linked
  <2>2. /\ x \in Keys \cup {Nil}
        /\ x # Nil => /\ x \in Members(t) /\ x # s /\ x # t.parent[s] /\ x # t.child[Other(q)][s]
    BY <1>1, <1>2, Apart
  <2> QED
    BY <1>2, <2>1, <2>2
<1>5. x # s /\ x # p /\ x # a
  <2>1. x = a => s = p
    BY <1>2, <1>4
  <2> QED
    BY <1>2, <1>4, <2>1, SiblingStands DEF s
<1>6. ASSUME x # Nil PROVE x # d /\ x \notin b[a] /\ x \in b[x] /\ b[x] \subseteq b[s]
  <2>1. x \in b[x] /\ b[x] \subseteq b[s]
    BY <1>1, <1>2, <1>4, <1>6 DEF Spread
  <2> QED
    BY <1>1, <1>2, <2>1
<1>7. ASSUME x \in t.red PROVE x # Nil /\ \A r \in Sides : t.child[r][x] \notin t.red
  <2>1. x # Nil
    BY <1>1, <1>7, KeyAssumption DEF RedFits, Members
  <2> SUFFICES ASSUME NEW r \in Sides, t.child[r][x] \in t.red PROVE FALSE
    BY <2>1
  <2> DEFINE y == t.child[r][x]
  <2>2. y \in Members(t) /\ y # Nil
    BY <1>1, KeyAssumption DEF RedFits, Members
  <2>3. t.parent[y] = x
    BY <1>1, <1>4, <2>1, <2>2 DEF Linked
  <2>4. y \in b[y] /\ b[y] \subseteq b[x]
    BY <1>1, <1>4, <2>1, <2>2 DEF Spread
  <2>5. y # d
    BY <1>1, <1>2, <1>6, <2>1, <2>4
  <2> HIDE DEF x, y
  <2> QED
    BY <1>1, <1>6, <1>7, <2>1, <2>2, <2>3, <2>5 DEF RedFits, y
<1> HIDE DEF x
<1>8. /\ x \in Keys \cup {Nil}
      /\ x # s /\ x # p /\ x # a
      /\ x # Nil => /\ x \in Members(t) /\ t.parent[x] = s /\ x # d
                    /\ x \notin b[a] /\ x # t.child[Other(q)][s]
      /\ x \in t.red => /\ x # Nil
                        /\ \A r \in Sides : t.child[r][x] \notin t.red
  BY <1>4, <1>5, <1>6, <1>7
<1> QED
  BY <1>8 DEF x

(* deleteCase5: a red inner child of the black sibling is turned outwards.     *)
LEMMA TurnSiblingFits ==
    ASSUME NEW t, NEW b, NEW h, NEW a, NEW d, DeleteFits(t, b, h, a, d), t.parent[a] # Nil,
           Sibling(t, a) \notin t.red, ~ BlackFamily(t, Sibling(t, a))
    PROVE  LET r == TurnSibling(t, a)
           IN  \E c, g :
                  /\ DeleteFits(r, c, g, a, d)
                  /\ Members(r) = Members(t) /\ r.value = t.value
                  /\ r.parent[a] = t.parent[a]
                  /\ Sibling(r, a) \notin r.red
                  /\ r.child[Other(SideOf(r, a))][Sibling(r, a)] \in r.red
<1> DEFINE p == t.parent[a]
           side == SideOf(t, a)
           o == Other(side)
           s == Sibling(t, a)
           x == t.child[side][s]
           f == t.child[o][s]
           y == t.child[o][x]
           z == t.child[side][x]
<1>1. /\ Linked(t) /\ Spread(t, b) /\ t \in Trees /\ a \in Members(t) /\ d \in b[a]
      /\ Shaped(t, b, d) /\ Balanced(t, h, Weights(t, d, a)) /\ RedFits(t, Nil, d)
      /\ a # d => a \notin t.red
  BY DEF DeleteFits, Shaped, Linked
<1>2. /\ p \in Members(t) /\ p # Nil /\ p # a /\ p # d
      /\ side \in Sides /\ t.child[side][p] = a /\ t.child[o][p] = s
      /\ s \in Members(t) /\ s # Nil /\ s # a /\ s # p /\ s # d /\ t.parent[s] = p
      /\ h[s] = h[a]
      /\ p \notin b[a] /\ s \notin b[a]
      /\ {a, p, s, d} \subseteq Keys
  BY SiblingStands
<1>3. o \in Sides /\ o # side /\ Other(o) = side /\ Sides = {side, o}
  BY <1>2, TwoSides
<1>4. /\ x \in Keys \cup {Nil} /\ x # s /\ x # p /\ x # a
      /\ x # Nil => x \in Members(t) /\ t.parent[x] = s /\ x # d /\ x \notin b[a]
      /\ x \in t.red => x # Nil /\ y \notin t.red
  BY <1>2, <1>3, NephewsStand
<1>5. ~(x \in t.red /\ f \notin t.red) => f \in t.red
  BY <1>2, <1>3 DEF BlackFamily, Sides
<1>6. CASE ~(x \in t.red /\ f \notin t.red)
  <2>1. TurnSibling(t, a) = t
    BY <1>6 DEF TurnSibling, IsRed
  <2>2. f \in t.red
    BY <1>5, <1>6
  <2> QED
    BY <1>6, <2>1, <2>2
<1>7. CASE x \in t.red /\ f \notin t.red
  <2> DEFINE u == Paint(t, {s}, {x})
             r == Rotate(u, s, o)
             c == Turned(u, b, s, o)
             g == [h EXCEPT ![s] = h[x], ![x] = h[s]]
  <2>1. TurnSibling(t, a) = r
    BY <1>7 DEF TurnSibling, IsRed
  <2> HIDE DEF p, side, o, s, x, y, z, f
  <2>2. /\ u \in Trees /\ u.root = t.root /\ u.child = t.child /\ u.parent = t.parent
        /\ u.value = t.value /\ u.red = (t.red \cup {s}) \ {x}
        /\ Members(u) = Members(t) /\ Shaped(u, b, d)
    BY <1>1, <1>2, PaintPaints, PaintShaped
  <2> HIDE DEF u
  <2>3. /\ x # Nil /\ x \in Members(t) /\ x \in Keys /\ t.parent[x] = s /\ x # d /\ x \notin b[a]
        /\ y \notin t.red
    BY <1>4, <1>7 DEF Members
  <2>4. /\ u.child[side][s] = x /\ u.child[o][x] = y /\ u.child[side][x] = z /\ u.child[o][s] = f
        /\ u.child[Other(o)][s] = x
    BY <1>3, <2>2 DEF x, y, z, f
  <2>5. /\ Members(r) = Members(u) /\ Shaped(r, c, d) /\ Rotated(u, r, s, o)
        /\ Linked(u) /\ Spread(u, b)
    BY <1>2, <1>3, <2>2, <2>3, <2>4, RotateShaped DEF Shaped
  <2> HIDE DEF r
  <2>6. /\ y # s /\ y # x /\ z # s /\ z # x /\ f # s /\ f # x
        /\ y \in Keys \cup {Nil} /\ z \in Keys \cup {Nil} /\ f \in Keys \cup {Nil}
    <3>1. s \in Members(u) /\ u.child[Other(o)][s] # Nil
      BY <1>2, <2>2, <2>3, <2>4
    <3> QED
      BY <1>3, <2>4, <2>5, <3>1, MovedNodes
  <2>7. /\ r.red = u.red /\ r.value = u.value
        /\ \A m \in Keys :
              r.parent[m] = IF m = s THEN x ELSE IF m = x THEN p
                            ELSE IF m = y THEN s ELSE t.parent[m]
    BY <1>2, <1>3, <2>2, <2>4, <2>5 DEF Rotated
  <2>8. /\ c[a] = b[a]
        /\ \A m \in b[a], q \in Sides : r.child[q][m] = t.child[q][m]
        /\ \A m \in b[a] : t.parent[m] \in b[a] => r.parent[m] = t.parent[m]
    <3>1. s \in Members(u) /\ u.child[Other(o)][s] # Nil /\ a \in Members(u)
          /\ s \notin b[a] /\ u.child[Other(o)][s] \notin b[a]
      BY <1>1, <1>2, <2>2, <2>3, <2>4
    <3> QED
      BY <1>3, <2>2, <2>5, <3>1, RotateOutside
  <2>9. Balanced(r, g, Weights(r, d, a))
    <3> DEFINE w == Weights(r, d, a)
    <3>1. /\ w[s] = 0 /\ w[x] = 1
          /\ Weights(t, d, a)[s] = 1 /\ Weights(t, d, a)[x] = 0
          /\ \A m \in Keys \ {x, s} : w[m] = Weights(t, d, a)[m]
      BY <1>2, <1>4, <1>7, <2>2, <2>3, <2>7 DEF Weights, s
    <3> HIDE DEF w
    <3>2. /\ h \in [Keys \cup {Nil} -> Nat] /\ h[Nil] = 0
          /\ \A m \in Members(t), q \in Sides : h[m] = h[t.child[q][m]] + Weights(t, d, a)[m]
      BY <1>1 DEF Balanced
    <3>3. /\ h[s] = h[x] + 1 /\ h[s] = h[f] + 1 /\ h[x] = h[y] /\ h[x] = h[z]
      <4>1. /\ h[s] = h[x] + 1 /\ h[s] = h[f] + 1
        BY <1>2, <1>3, <3>1, <3>2 DEF x, f
      <4>2. h[x] = h[y] + 0 /\ h[x] = h[z] + 0
        BY <1>3, <2>3, <3>1, <3>2 DEF y, z
      <4>3. h[x] \in Nat /\ h[y] \in Nat /\ h[z] \in Nat
        BY <2>3, <2>6, <3>2
      <4> QED
        BY <4>1, <4>2, <4>3
    <3>4. /\ g \in [Keys \cup {Nil} -> Nat] /\ g[Nil] = 0 /\ g[s] = h[x] /\ g[x] = h[s]
          /\ \A m \in (Keys \cup {Nil}) \ {x, s} : g[m] = h[m]
          /\ h[s] \in Nat /\ h[x] \in Nat /\ h[f] \in Nat
      BY <1>2, <2>3, <2>6, <3>2
    <3> HIDE DEF g
    <3>5. /\ g[s] = g[f] + w[s] /\ g[s] = g[y] + w[s]
          /\ g[x] = g[s] + w[x] /\ g[x] = g[z] + w[x]
      <4>1. g[f] = h[f] /\ g[y] = h[y] /\ g[z] = h[z]
        BY <2>6, <3>4
      <4>2. h[f] = h[x]
        BY <3>3, <3>4
      <4>3. /\ w[s] = 0 /\ w[x] = 1 /\ g[s] = h[x] /\ g[x] = h[s] /\ h[x] \in Nat
        BY <3>1, <3>4
      <4>4. g[f] = h[x] /\ g[y] = h[x] /\ g[z] = h[x] /\ h[s] = h[x] + 1
        BY <3>3, <4>1, <4>2
      <4> QED
        BY <4>3, <4>4
    <3>6. ASSUME NEW m \in Members(t) \ {x, s}, NEW q \in Sides
          PROVE  g[m] = (IF t.child[q][m] = s THEN g[x] ELSE g[t.child[q][m]]) + w[m]
      <4>1. m \in Keys /\ t.child[q][m] \in Keys \cup {Nil}
        BY <1>1, Apart
      <4>2. t.child[q][m] # x
        BY <1>1, <2>3, <3>6 DEF Linked
      <4>3. h[m] = h[t.child[q][m]] + w[m] /\ g[m] = h[m]
        BY <3>1, <3>2, <3>4, <4>1
      <4> QED
        BY <3>2, <3>4, <4>1, <4>2, <4>3
    <3>7. WillBalance(u, s, o, g, w)
      BY <1>3, <2>2, <2>4, <3>4, <3>5, <3>6 DEF WillBalance
    <3>8. s \in Members(u) /\ u.child[Other(o)][s] # Nil
      BY <1>2, <2>2, <2>3, <2>4
    <3> QED
      BY <1>3, <2>5, <3>7, <3>8, RotateBalanced DEF w
  <2>10. RedFits(r, Nil, d)
    <3>1. r.red \subseteq Members(r)
      BY <1>1, <1>2, <2>2, <2>5, <2>7 DEF RedFits
    <3>2. ASSUME NEW n \in r.red
          PROVE  \/ r.parent[n] # Nil /\ r.parent[n] \notin r.red
                 \/ n = Nil
                 \/ d # Nil /\ d \in {n, r.parent[n]}
      <4>1. n \in Keys /\ n # Nil
        BY <3>1, KeyAssumption DEF Members
      <4>2. CASE n = s
        BY <1>2, <2>2, <2>3, <2>7, <4>2
      <4>3. CASE n # s
        <5>1. n \in t.red /\ n # x /\ n # y
          BY <2>2, <2>3, <2>7, <4>3
        <5>2. r.parent[n] = t.parent[n]
          BY <2>7, <4>1, <4>3, <5>1
        <5>3. t.parent[n] # s
          <6> SUFFICES ASSUME t.parent[n] = s PROVE FALSE
            OBVIOUS
          <6>1. PICK q \in Sides : t.child[q][s] = n
            BY <1>1, <1>2, <4>1 DEF Linked
          <6>2. n = x \/ n = f
            BY <1>3, <6>1 DEF x, f
          <6> QED
            BY <1>7, <5>1, <6>2
        <5> QED
          BY <1>1, <2>2, <2>7, <5>1, <5>2, <5>3 DEF RedFits
      <4> QED
        BY <4>2, <4>3
    <3> QED
      BY <3>1, <3>2 DEF RedFits
  <2>11. DeleteFits(r, c, g, a, d)
    <3>1. /\ a \in Members(r) /\ d \in c[a]
          /\ Nil \in {r.child["left"][d], r.child["right"][d]}
      BY <1>1, <2>2, <2>5, <2>8 DEF DeleteFits, Sides
    <3>2. a # d => a \notin r.red /\ r.parent[d] \in c[a] /\ r.parent[d] \notin r.red
      BY <1>1, <1>2, <2>2, <2>7, <2>8 DEF DeleteFits
    <3> HIDE DEF c, g
    <3> QED
      BY <2>5, <2>9, <2>10, <3>1, <3>2 DEF DeleteFits
  <2>12. r.parent[a] = p /\ r.value = t.value /\ Members(r) = Members(t)
    <3>1. a # y
      <4>1. y # Nil => t.parent[y] = x
        BY <1>1, <1>3, <2>3 DEF Linked, y
      <4> QED
        BY <1>2, <1>4, <4>1, KeyAssumption DEF p
    <3> QED
      BY <1>2, <1>4, <2>2, <2>5, <2>7, <3>1 DEF p
  <2>13. /\ r.child[o][p] = x /\ r.child[side][p] = a /\ r.child[o][x] = s
    <3>1. s \in Members(u) /\ u.child[Other(o)][s] = x /\ x # Nil /\ p \in Members(u) \ {s, x}
      BY <1>2, <1>4, <2>2, <2>3, <2>4
    <3>2. /\ r.child[o][x] = s
          /\ \A q \in Sides : r.child[q][p] = IF u.child[q][p] = s THEN x ELSE u.child[q][p]
      BY <1>3, <2>5, <3>1, RotatedChildren
    <3> QED
      BY <1>2, <1>3, <2>2, <3>2
  <2>14. SideOf(r, a) = side /\ Sibling(r, a) = x
    <3>1. SideOf(r, a) = side
      BY <1>3, <1>4, <2>12, <2>13 DEF SideOf, Sides
    <3> QED
      BY <2>12, <2>13, <3>1 DEF Sibling, o
  <2>15. x \notin r.red /\ s \in r.red
    BY <1>4, <2>2, <2>7
  <2> QED
    BY <2>1, <2>11, <2>12, <2>13, <2>14, <2>15 DEF o, p
<1> QED
  BY <1>6, <1>7

(* deleteCase6: the sibling takes the place of the parent, and its red outer   *)
(* child becomes black.                                                    *)
LEMMA LiftSiblingFits ==
    ASSUME NEW t, NEW b, NEW h, NEW a, NEW d, DeleteFits(t, b, h, a, d), t.parent[a] # Nil,
           Sibling(t, a) \notin t.red, t.child[Other(SideOf(t, a))][Sibling(t, a)] \in t.red
    PROVE  LET r == LiftSibling(t, a)
           IN  \E c, g : /\ UnlinkFits(r, c, g, d)
                         /\ Members(r) = Members(t) /\ r.value = t.value
<1> DEFINE p == t.parent[a]
           side == SideOf(t, a)
           o == Other(side)
           s == Sibling(t, a)
           x == t.child[side][s]
           f == t.child[o][s]
<1>1. /\ Linked(t) /\ Spread(t, b) /\ t \in Trees /\ a \in Members(t) /\ d \in b[a]
      /\ Shaped(t, b, d) /\ Balanced(t, h, Weights(t, d, a)) /\ RedFits(t, Nil, d)
      /\ a # d => a \notin t.red
  BY DEF DeleteFits, Shaped, Linked
<1>2. /\ p \in Members(t) /\ p # Nil /\ p # a /\ p # d
      /\ side \in Sides /\ t.child[side][p] = a /\ t.child[o][p] = s
      /\ s \in Members(t) /\ s # Nil /\ s # a /\ s # p /\ s # d /\ t.parent[s] = p
      /\ h[s] = h[a]
      /\ p \notin b[a] /\ s \notin b[a]
      /\ {a, p, s, d} \subseteq Keys
      /\ p \in t.red => t.parent[p] # Nil /\ t.parent[p] \notin t.red
  BY SiblingStands
<1>3. o \in Sides /\ o # side /\ Other(o) = side /\ Sides = {side, o}
  BY <1>2, TwoSides
<1>4. /\ x \in Keys \cup {Nil} /\ x # s /\ x # p /\ x # a
      /\ x # Nil => x \in Members(t) /\ t.parent[x] = s /\ x # d /\ x \notin b[a]
      /\ f \in Keys \cup {Nil} /\ f # s /\ f # p /\ f # a
      /\ f # Nil /\ f \in Members(t) /\ t.parent[f] = s /\ f # d /\ f \notin b[a] /\ f # x
  BY <1>2, <1>3, NephewsStand
<1>5. f \in t.red /\ s \notin t.red
  OBVIOUS
<1> DEFINE reds == IF p \in t.red THEN {s} ELSE {}
           blacks == {p} \cup (IF p \in t.red THEN {} ELSE {s})
           v == Paint(t, reds, blacks)
           u == Paint(v, {}, {f})
           r == Rotate(u, p, side)
           c == Turned(u, b, p, side)
           g == [h EXCEPT ![a] = h[a] - 1, ![p] = h[a], ![s] = h[p], ![f] = h[s]]
<1>6. LiftSibling(t, a) = r
  <2>1. t.parent[a] = p /\ v.child = t.child
    BY DEF Paint
  <2>2. f \in v.red
    <3>1. f \notin blacks
      BY <1>4
    <3> QED
      BY <1>5, <3>1 DEF Paint
  <2>3. CASE side = "left"
    <3>1. f = v.child["right"][s]
      BY <2>1, <2>3 DEF Other
    <3> QED
      BY <2>1, <2>2, <2>3, <3>1 DEF LiftSibling, IsRed
  <2>4. CASE side # "left"
    <3>1. f = v.child["left"][s] /\ side = "right"
      BY <1>2, <2>1, <2>4 DEF Other, Sides
    <3> QED
      BY <2>1, <2>2, <2>4, <3>1 DEF LiftSibling, IsRed
  <2> QED
    BY <2>3, <2>4
<1> HIDE DEF p, side, o, s, x, f
<1>7. /\ u \in Trees /\ u.root = t.root /\ u.child = t.child /\ u.parent = t.parent
      /\ u.value = t.value /\ u.red = ((t.red \cup reds) \ blacks) \ {f}
      /\ Members(u) = Members(t) /\ Shaped(u, b, d)
  <2>1. reds \ blacks \subseteq Keys /\ {} \ {f} \subseteq Keys
    BY <1>2
  <2>2. /\ v \in Trees /\ v.root = t.root /\ v.child = t.child /\ v.parent = t.parent
        /\ v.value = t.value /\ v.red = (t.red \cup reds) \ blacks
        /\ Members(v) = Members(t) /\ Shaped(v, b, d)
    BY <1>1, <2>1, PaintPaints, PaintShaped
  <2> HIDE DEF v
  <2>3. /\ u \in Trees /\ u.root = v.root /\ u.child = v.child /\ u.parent = v.parent
        /\ u.value = v.value /\ u.red = (v.red \cup {}) \ {f}
        /\ Members(u) = Members(v) /\ Shaped(u, b, d)
    BY <2>1, <2>2, PaintPaints, PaintShaped
  <2> QED
    BY <2>2, <2>3
<1> HIDE DEF u, v
<1>8. /\ p \notin u.red /\ f \notin u.red
      /\ s \in u.red <=> p \in t.red
      /\ \A m \in Keys \ {p, s, f} : m \in u.red <=> m \in t.red
      /\ u.red \subseteq t.red \cup {s}
  BY <1>2, <1>4, <1>5, <1>7
<1> HIDE DEF reds, blacks
<1>9. /\ u.child[side][p] = a /\ u.child[o][p] = s /\ u.child[side][s] = x /\ u.child[o][s] = f
      /\ p \in Members(u) /\ u.child[Other(side)][p] # Nil
  BY <1>2, <1>7 DEF o, x, f
<1>10. /\ Members(r) = Members(u) /\ Shaped(r, c, d) /\ Rotated(u, r, p, side)
       /\ Linked(u) /\ Spread(u, b)
  BY <1>2, <1>7, <1>9, RotateShaped DEF Shaped
<1> HIDE DEF r
<1>11. /\ r.red = u.red /\ r.value = u.value
       /\ \A m \in Keys :
             r.parent[m] = IF m = p THEN s ELSE IF m = s THEN t.parent[p]
                           ELSE IF m = x THEN p ELSE t.parent[m]
  BY <1>2, <1>7, <1>9, <1>10 DEF Rotated, o
<1>12. /\ c[a] = b[a]
       /\ \A m \in b[a], q \in Sides : r.child[q][m] = t.child[q][m]
       /\ \A m \in b[a] : t.parent[m] \in b[a] => r.parent[m] = t.parent[m]
  <2>1. a \in Members(u) /\ p \notin b[a] /\ u.child[Other(side)][p] \notin b[a]
    BY <1>1, <1>2, <1>7, <1>9 DEF o
  <2> QED
    BY <1>2, <1>7, <1>9, <1>10, <2>1, RotateOutside
<1>13. Balanced(r, g, Weights(r, d, Nil))
  <2> DEFINE w == Weights(r, d, Nil)
             W == Weights(t, d, a)
  <2>1. /\ w[p] = 1 /\ w[s] = W[p] /\ w[f] = 1 /\ w[a] = W[a] - 1
        /\ W[s] = 1 /\ W[f] = 0 /\ W[p] \in {0, 1} /\ W[a] \in {1, 2}
        /\ \A m \in Keys \ {p, s, f, a} : w[m] = W[m]
    <3>1. /\ w[p] = 1 /\ w[s] = W[p] /\ w[f] = 1
          /\ W[s] = 1 /\ W[f] = 0 /\ W[p] \in {0, 1}
      BY <1>2, <1>4, <1>5, <1>8, <1>11, KeyAssumption DEF Weights
    <3>2. w[a] = W[a] - 1 /\ W[a] \in {1, 2}
      <4>1. a \in Keys /\ a # Nil /\ (a \in r.red <=> a \in t.red)
        BY <1>2, <1>4, <1>8, <1>11, KeyAssumption
      <4>2. /\ W[a] = (IF a \in t.red \/ a = d THEN 0 ELSE 1) + 1
            /\ w[a] = (IF a \in r.red \/ a = d THEN 0 ELSE 1) + 0
        BY <4>1 DEF Weights
      <4> QED
        BY <4>1, <4>2
    <3>3. \A m \in Keys \ {p, s, f, a} : w[m] = W[m]
      BY <1>8, <1>11, KeyAssumption DEF Weights
    <3> QED
      BY <3>1, <3>2, <3>3
  <2> HIDE DEF w, W
  <2>2. /\ h \in [Keys \cup {Nil} -> Nat] /\ h[Nil] = 0
        /\ \A m \in Members(t), q \in Sides : h[m] = h[t.child[q][m]] + W[m]
    BY <1>1 DEF Balanced, W
  <2>3. /\ h[s] \in Nat /\ h[a] \in Nat /\ h[p] \in Nat /\ h[x] \in Nat /\ h[f] \in Nat
    BY <1>2, <1>4, <2>2
  <2>4. /\ h[s] = h[x] + 1 /\ h[s] = h[f] + 1 /\ h[p] = h[a] + W[p]
    BY <1>2, <1>3, <2>1, <2>2 DEF x, f
  <2>5. /\ g[Nil] = 0 /\ g[a] = h[a] - 1 /\ g[p] = h[a] /\ g[s] = h[p] /\ g[f] = h[s]
        /\ \A m \in (Keys \cup {Nil}) \ {a, p, s, f} : g[m] = h[m]
        /\ g \in [Keys \cup {Nil} -> Nat]
    <3>1. h[a] - 1 \in Nat
      BY <1>2, <2>3, <2>4
    <3>2. a # Nil /\ f \in Keys
      BY <1>2, <1>4, KeyAssumption
    <3>3. /\ g[Nil] = 0 /\ g[a] = h[a] - 1 /\ g[p] = h[a] /\ g[s] = h[p] /\ g[f] = h[s]
      BY <1>2, <1>4, <2>2, <3>2
    <3>4. g \in [Keys \cup {Nil} -> Nat]
      BY <2>2, <2>3, <3>1
    <3>5. \A m \in (Keys \cup {Nil}) \ {a, p, s, f} : g[m] = h[m]
      BY <2>2
    <3> QED
      BY <3>3, <3>4, <3>5
  <2> HIDE DEF g
  <2>6. g[x] = h[x]
    BY <1>2, <1>4, <2>5
  <2>7. /\ g[p] = g[a] + w[p] /\ g[p] = g[x] + w[p]
        /\ g[s] = g[p] + w[s] /\ g[s] = g[f] + w[s]
    <3>1. /\ w[p] = 1 /\ w[s] = W[p] /\ g[a] = h[a] - 1 /\ g[p] = h[a] /\ g[s] = h[p] /\ g[f] = h[s]
          /\ h[s] = h[a] /\ W[p] \in {0, 1}
      BY <1>2, <2>1, <2>5
    <3> QED
      BY <2>3, <2>4, <2>6, <3>1
  <2>8. ASSUME NEW m \in Members(t) \ {p, s}, NEW q \in Sides
        PROVE  g[m] = (IF t.child[q][m] = p THEN g[s] ELSE g[t.child[q][m]]) + w[m]
    <3> DEFINE y == t.child[q][m]
    <3>1. m \in Keys /\ y \in Keys \cup {Nil}
      BY <1>1, Apart
    <3>2. y # s /\ y # a /\ y # f
      <4>1. y # Nil => t.parent[y] = m
        BY <1>1 DEF Linked
      <4>2. t.parent[a] = p /\ a # Nil
        BY <1>2, KeyAssumption DEF p
      <4> HIDE DEF y
      <4> QED
        BY <1>2, <1>4, <4>1, <4>2
    <3>3. h[m] = h[y] + W[m] /\ h[m] \in Nat /\ h[y] \in Nat
      BY <2>2, <3>1
    <3>4. (IF y = p THEN g[s] ELSE g[y]) = h[y]
      BY <2>5, <3>1, <3>2
    <3> HIDE DEF y
    <3>5. CASE m = a
      <4>1. g[m] = h[m] - 1 /\ w[m] = W[m] - 1 /\ W[m] \in {1, 2}
        BY <2>1, <2>5, <3>5
      <4>2. g[m] = h[y] + w[m]
        BY <3>3, <4>1
      <4> QED
        BY <3>4, <4>2 DEF y
    <3>6. CASE m = f
      <4>1. g[m] = h[s] /\ h[s] = h[m] + 1 /\ w[m] = 1 /\ W[m] = 0
        BY <2>1, <2>4, <2>5, <3>6
      <4>2. g[m] = h[y] + w[m]
        BY <3>3, <4>1
      <4> QED
        BY <3>4, <4>2 DEF y
    <3>7. CASE m # a /\ m # f
      <4>1. g[m] = h[m] /\ w[m] = W[m]
        BY <2>1, <2>5, <2>8, <3>1, <3>7
      <4>2. g[m] = h[y] + w[m]
        BY <3>3, <4>1
      <4> QED
        BY <3>4, <4>2 DEF y
    <3> QED
      BY <3>5, <3>6, <3>7
  <2>9. WillBalance(u, p, side, g, w)
    BY <1>7, <1>9, <2>5, <2>7, <2>8 DEF WillBalance, o
  <2> QED
    BY <1>2, <1>9, <1>10, <2>9, RotateBalanced DEF w
<1>14. RedFits(r, Nil, d)
  <2>1. r.red \subseteq Members(r)
    BY <1>1, <1>2, <1>7, <1>8, <1>10, <1>11 DEF RedFits
  <2>2. ASSUME NEW n \in r.red
        PROVE  \/ r.parent[n] # Nil /\ r.parent[n] \notin r.red
               \/ n = Nil
               \/ d # Nil /\ d \in {n, r.parent[n]}
    <3>1. n \in Keys /\ n # Nil /\ n # p /\ n # f
      BY <1>8, <1>11, <2>1, KeyAssumption DEF Members
    <3>2. CASE n = s
      <4>1. t.parent[p] # s
        BY <1>1, <1>2, Apart
      <4>2. p \in t.red
        BY <1>8, <1>11, <3>2
      <4> QED
        BY <1>2, <1>8, <1>11, <3>1, <3>2, <4>1, <4>2
    <3>3. CASE n # s
      <4>1. n \in t.red
        BY <1>8, <1>11, <3>1, <3>3
      <4>2. CASE n = x
        BY <1>2, <1>8, <1>11, <3>1, <3>3, <4>2
      <4>3. CASE n # x
        <5>1. r.parent[n] = t.parent[n]
          BY <1>11, <3>1, <3>3, <4>3
        <5>2. t.parent[n] # s
          <6> SUFFICES ASSUME t.parent[n] = s PROVE FALSE
            OBVIOUS
          <6>1. PICK q \in Sides : t.child[q][s] = n
            BY <1>1, <1>2, <3>1 DEF Linked
          <6> QED
            BY <1>3, <3>1, <4>3, <6>1 DEF x, f
        <5> QED
          BY <1>1, <1>8, <1>11, <3>1, <4>1, <5>1, <5>2 DEF RedFits
      <4> QED
        BY <4>2, <4>3
    <3> QED
      BY <3>2, <3>3
  <2> QED
    BY <2>1, <2>2 DEF RedFits
<1>15. /\ d \in Members(r)
       /\ Nil \in {r.child["left"][d], r.child["right"][d]}
  BY <1>1, <1>7, <1>10, <1>12 DEF DeleteFits, Sides, Spread
<1>16. r.parent[d] \notin r.red
  <2>1. CASE a = d
    BY <1>2, <1>4, <1>8, <1>11, <2>1 DEF p
  <2>2. CASE a # d
    <3>1. t.parent[d] \in b[a] /\ t.parent[d] \notin t.red
      BY <2>2 DEF DeleteFits
    <3>2. r.parent[d] = t.parent[d] /\ t.parent[d] # s
      BY <1>1, <1>2, <1>12, <3>1
    <3> QED
      BY <1>8, <1>11, <3>1, <3>2
  <2> QED
    BY <2>1, <2>2
<1>17. UnlinkFits(r, c, g, d)
  <2> HIDE DEF c, g
  <2> QED
    BY <1>10, <1>13, <1>14, <1>15, <1>16 DEF UnlinkFits
<1>18. Members(r) = Members(t) /\ r.value = t.value
  BY <1>7, <1>10, <1>11
<1> QED
  BY <1>6, <1>17, <1>18

(* deleteCase3 and deleteCase4: the sibling becomes red; a red parent becomes  *)
(* black and makes up for the loss, below a black one the loss moves up to it.  *)
LEMMA BlackFamilyFits ==
    ASSUME NEW t, NEW b, NEW h, NEW a, NEW d, DeleteFits(t, b, h, a, d), t.parent[a] # Nil,
           BlackFamily(t, Sibling(t, a))
    PROVE  LET p == t.parent[a]
               s == Sibling(t, a)
           IN  \E g :
                  /\ p \in t.red => UnlinkFits(Paint(t, {s}, {p}), b, g, d)
                  /\ p \notin t.red => DeleteFits(Paint(t, {s}, {}), b, g, p, d)
<1> DEFINE p == t.parent[a]
           side == SideOf(t, a)
           o == Other(side)
           s == Sibling(t, a)
           blacks == IF p \in t.red THEN {p} ELSE {}
           e == IF p \in t.red THEN Nil ELSE p
           r == Paint(t, {s}, blacks)
           g == [h EXCEPT ![a] = h[a] - 1, ![s] = h[s] - 1]
<1>1. /\ Linked(t) /\ Spread(t, b) /\ t \in Trees /\ a \in Members(t) /\ d \in b[a]
      /\ Shaped(t, b, d) /\ Balanced(t, h, Weights(t, d, a)) /\ RedFits(t, Nil, d)
      /\ a # d => a \notin t.red /\ t.parent[d] \in b[a] /\ t.parent[d] \notin t.red
      /\ Nil \in {t.child["left"][d], t.child["right"][d]}
  BY DEF DeleteFits, Shaped, Linked
<1>2. /\ p \in Members(t) /\ p # Nil /\ p # a /\ p # d
      /\ side \in Sides /\ t.child[side][p] = a /\ t.child[o][p] = s
      /\ s \in Members(t) /\ s # Nil /\ s # a /\ s # p /\ s # d /\ t.parent[s] = p
      /\ h[s] = h[a] /\ h[a] > 0
      /\ p \notin b[a] /\ s \notin b[a]
      /\ {a, p, s, d} \subseteq Keys
  BY SiblingStands
<1>3. o \in Sides /\ o # side /\ Other(o) = side /\ Sides = {side, o}
  BY <1>2, TwoSides
<1>4. s \notin t.red /\ \A q \in Sides : t.child[q][s] \notin t.red
  BY DEF BlackFamily, Sides
<1>5. t.parent[a] = p /\ a # Nil
  BY <1>2, KeyAssumption
<1> HIDE DEF p, side, o, s
<1>6. /\ r \in Trees /\ r.root = t.root /\ r.child = t.child /\ r.parent = t.parent
      /\ r.value = t.value /\ r.red = (t.red \cup {s}) \ blacks
      /\ Members(r) = Members(t) /\ Shaped(r, b, d)
  <2>1. {s} \ blacks \subseteq Keys
    BY <1>2
  <2> QED
    BY <1>1, <2>1, PaintPaints, PaintShaped
<1> HIDE DEF r
<1>7. /\ s \in r.red /\ p \notin r.red
      /\ \A m \in Keys \ {p, s} : m \in r.red <=> m \in t.red
      /\ r.red \subseteq t.red \cup {s}
  BY <1>2, <1>6
<1>8. Balanced(r, g, Weights(r, d, e))
  <2> DEFINE w == Weights(r, d, e)
             W == Weights(t, d, a)
  <2>1. /\ w[p] = W[p] + 1 /\ w[s] = 0 /\ W[s] = 1 /\ w[a] = W[a] - 1
        /\ W[p] \in {0, 1} /\ W[a] \in {1, 2}
        /\ \A m \in Keys \ {p, s, a} : w[m] = W[m] /\ w[m] \in {0, 1, 2}
    <3>1. /\ w[p] = W[p] + 1 /\ W[p] \in {0, 1}
      BY <1>2, <1>7, KeyAssumption DEF Weights
    <3>2. w[s] = 0 /\ W[s] = 1
      BY <1>2, <1>4, <1>7, KeyAssumption DEF Weights
    <3>3. w[a] = W[a] - 1 /\ W[a] \in {1, 2}
      <4>1. a \in Keys /\ a # e /\ (a \in r.red <=> a \in t.red)
        BY <1>2, <1>5, <1>7, KeyAssumption
      <4>2. /\ W[a] = (IF a \in t.red \/ a = d THEN 0 ELSE 1) + 1
            /\ w[a] = (IF a \in r.red \/ a = d THEN 0 ELSE 1) + 0
        BY <4>1 DEF Weights
      <4> QED
        BY <4>1, <4>2
    <3>4. \A m \in Keys \ {p, s, a} : w[m] = W[m] /\ w[m] \in {0, 1, 2}
      BY <1>7, KeyAssumption DEF Weights
    <3> QED
      BY <3>1, <3>2, <3>3, <3>4
  <2> HIDE DEF w, W
  <2>2. /\ h \in [Keys \cup {Nil} -> Nat] /\ h[Nil] = 0
        /\ \A m \in Members(t), q \in Sides : h[m] = h[t.child[q][m]] + W[m]
    BY <1>1 DEF Balanced, W
  <2>3. h[s] \in Nat /\ h[a] \in Nat /\ h[p] \in Nat /\ h[p] = h[a] + W[p]
    BY <1>2, <2>2
  <2>4. /\ g[Nil] = 0 /\ g[a] = h[a] - 1 /\ g[s] = h[s] - 1
        /\ \A m \in (Keys \cup {Nil}) \ {a, s} : g[m] = h[m]
        /\ g \in [Keys \cup {Nil} -> Nat]
    <3>1. h[a] - 1 \in Nat /\ h[s] - 1 \in Nat
      BY <1>2, <2>3
    <3>2. g[Nil] = 0 /\ g[a] = h[a] - 1 /\ g[s] = h[s] - 1
      BY <1>2, <1>5, <2>2
    <3>3. g \in [Keys \cup {Nil} -> Nat]
      BY <2>2, <3>1
    <3>4. \A m \in (Keys \cup {Nil}) \ {a, s} : g[m] = h[m]
      BY <2>2
    <3> QED
      BY <3>2, <3>3, <3>4
  <2> HIDE DEF g
  <2>5. ASSUME NEW m \in Members(t), NEW q \in Sides PROVE g[m] = g[t.child[q][m]] + w[m]
    <3> DEFINE y == t.child[q][m]
    <3>1. m \in Keys /\ y \in Keys \cup {Nil}
      BY <1>1, Apart
    <3>2. y # Nil => t.parent[y] = m
      BY <1>1 DEF Linked
    <3>3. h[m] = h[y] + W[m] /\ h[m] \in Nat /\ h[y] \in Nat
      BY <2>2, <3>1
    <3>4. m = p => y \in {a, s}
      BY <1>2, <1>3
    <3>5. m # p => y # a /\ y # s
      BY <1>2, <1>5, <3>2
    <3> HIDE DEF y
    <3>6. CASE m = p
      <4>1. g[y] = h[a] - 1 /\ g[m] = h[p] /\ w[m] = W[p] + 1
        BY <1>2, <2>1, <2>4, <3>4, <3>6
      <4>2. g[m] = g[y] + w[m]
        BY <2>1, <2>3, <4>1
      <4> QED
        BY <4>2 DEF y
    <3>7. CASE m = a
      <4>1. g[y] = h[y] /\ g[m] = h[m] - 1 /\ w[m] = W[m] - 1 /\ W[m] \in {1, 2}
        BY <1>2, <2>1, <2>4, <3>1, <3>5, <3>7
      <4>2. g[m] = g[y] + w[m]
        BY <3>3, <4>1
      <4> QED
        BY <4>2 DEF y
    <3>8. CASE m = s
      <4>1. g[y] = h[y] /\ g[m] = h[m] - 1 /\ w[m] = 0 /\ W[m] = 1
        BY <1>2, <2>1, <2>4, <3>1, <3>5, <3>8
      <4>2. g[m] = g[y] + w[m]
        BY <3>3, <4>1
      <4> QED
        BY <4>2 DEF y
    <3>9. CASE m \notin {p, s, a}
      <4>1. g[y] = h[y] /\ g[m] = h[m] /\ w[m] = W[m]
        BY <2>1, <2>4, <3>1, <3>5, <3>9
      <4>2. g[m] = g[y] + w[m]
        BY <3>3, <4>1
      <4> QED
        BY <4>2 DEF y
    <3> QED
      BY <3>6, <3>7, <3>8, <3>9
  <2> QED
    BY <1>6, <2>4, <2>5 DEF Balanced, w
<1>9. RedFits(r, Nil, d)
  <2>1. r.red \subseteq Members(r)
    BY <1>1, <1>2, <1>6, <1>7 DEF RedFits
  <2>2. ASSUME NEW n \in r.red
        PROVE  \/ r.parent[n] # Nil /\ r.parent[n] \notin r.red
               \/ n = Nil
               \/ d # Nil /\ d \in {n, r.parent[n]}
    <3>1. CASE n = s
      BY <1>2, <1>6, <1>7, <3>1
    <3>2. CASE n # s
      <4>1. n \in t.red /\ n \in Keys
        BY <1>6, <1>7, <2>1, <3>2 DEF Members
      <4>2. t.parent[n] # s
        <5> SUFFICES ASSUME t.parent[n] = s PROVE FALSE
          OBVIOUS
        <5>1. PICK q \in Sides : t.child[q][s] = n
          BY <1>1, <1>2, <4>1 DEF Linked
        <5> QED
          BY <1>4, <4>1, <5>1
      <4> QED
        BY <1>1, <1>6, <1>7, <4>1, <4>2 DEF RedFits
    <3> QED
      BY <3>1, <3>2
  <2> QED
    BY <2>1, <2>2 DEF RedFits
<1>10. d \in Members(r) /\ Nil \in {r.child["left"][d], r.child["right"][d]}
  BY <1>1, <1>6 DEF Spread
<1>11. r.parent[d] \notin r.red
  BY <1>1, <1>2, <1>5, <1>6, <1>7
<1>12. b[a] \subseteq b[p] /\ p \in b[p]
  BY <1>1, <1>2 DEF Spread
<1> HIDE DEF g
<1>13. CASE p \in t.red
  <2>1. UnlinkFits(r, b, g, d)
    BY <1>6, <1>8, <1>9, <1>10, <1>11, <1>13 DEF UnlinkFits
  <2>2. r = Paint(t, {s}, {p})
    BY <1>13 DEF r
  <2> QED
    BY <1>13, <2>1, <2>2 DEF p, s
<1>14. CASE p \notin t.red
  <2>1. r.parent[d] \in b[p]
    BY <1>1, <1>5, <1>6, <1>12
  <2>2. p \in Members(r) /\ d \in b[p]
    BY <1>1, <1>2, <1>6, <1>12
  <2>3. DeleteFits(r, b, g, p, d)
    BY <1>6, <1>7, <1>8, <1>9, <1>10, <1>11, <1>14, <2>1, <2>2 DEF DeleteFits
  <2>4. r = Paint(t, {s}, {})
    BY <1>14 DEF r
  <2> QED
    BY <1>14, <2>3, <2>4 DEF p, s
<1> QED
  BY <1>13, <1>14

(* deleteCase1: at the root nothing is left to do.                          *)
LEMMA RootFits ==
    ASSUME NEW t, NEW b, NEW h, NEW a, NEW d, DeleteFits(t, b, h, a, d), t.parent[a] = Nil
    PROVE  \E g : UnlinkFits(t, b, g, d)
<1> DEFINE g == [h EXCEPT ![a] = h[a] - 1]
           w == Weights(t, d, Nil)
           W == Weights(t, d, a)
<1>1. /\ Linked(t) /\ Spread(t, b) /\ t \in Trees /\ a \in Members(t) /\ d \in b[a]
      /\ Shaped(t, b, d) /\ Balanced(t, h, W) /\ RedFits(t, Nil, d)
      /\ a # d => t.parent[d] \notin t.red
      /\ Nil \in {t.child["left"][d], t.child["right"][d]}
  BY DEF DeleteFits, Shaped, Linked
<1>2. a \in Keys /\ a # Nil /\ d \in Members(t)
  BY <1>1, KeyAssumption DEF Members, Spread
<1>3. t.parent[d] \notin t.red
  BY <1>1, KeyAssumption DEF RedFits, Members
<1>4. /\ w[a] = W[a] - 1 /\ W[a] \in {1, 2}
      /\ \A m \in Keys \ {a} : w[m] = W[m]
  <2>1. w[a] = W[a] - 1 /\ W[a] \in {1, 2}
    <3>1. /\ W[a] = (IF a \in t.red \/ a = d THEN 0 ELSE 1) + 1
          /\ w[a] = (IF a \in t.red \/ a = d THEN 0 ELSE 1) + 0
      BY <1>2 DEF Weights
    <3> QED
      BY <3>1
  <2>2. \A m \in Keys \ {a} : w[m] = W[m]
    BY KeyAssumption DEF Weights
  <2> QED
    BY <2>1, <2>2
<1> HIDE DEF w, W
<1>5. /\ h \in [Keys \cup {Nil} -> Nat] /\ h[Nil] = 0
      /\ \A m \in Members(t), q \in Sides : h[m] = h[t.child[q][m]] + W[m]
  BY <1>1 DEF Balanced
<1>6. h[a] \in Nat /\ h[a] > 0
  <2>1. /\ h[a] = h[t.child["left"][a]] + W[a]
        /\ t.child["left"][a] \in Keys \cup {Nil}
    BY <1>1, <1>5, Apart DEF Sides
  <2>2. h[a] \in Nat /\ h[t.child["left"][a]] \in Nat
    BY <1>2, <1>5, <2>1
  <2> QED
    BY <1>4, <2>1, <2>2
<1>7. /\ g[Nil] = 0 /\ g[a] = h[a] - 1
      /\ \A m \in (Keys \cup {Nil}) \ {a} : g[m] = h[m]
      /\ g \in [Keys \cup {Nil} -> Nat]
  <2>1. h[a] - 1 \in Nat
    BY <1>6
  <2> QED
    BY <1>2, <1>5, <2>1
<1> HIDE DEF g
<1>8. ASSUME NEW m \in Members(t), NEW q \in Sides PROVE g[m] = g[t.child[q][m]] + w[m]
  <2> DEFINE y == t.child[q][m]
  <2>1. m \in Keys /\ y \in Keys \cup {Nil} /\ y # a
    <3>1. y # Nil => t.parent[y] = m
      BY <1>1 DEF Linked
    <3>2. m \in Keys /\ y \in Keys \cup {Nil} /\ m # Nil
      BY <1>1, Apart, KeyAssumption
    <3> QED
      BY <1>2, <3>1, <3>2
  <2>2. h[m] = h[y] + W[m] /\ h[m] \in Nat /\ h[y] \in Nat
    BY <1>5, <2>1
  <2>3. g[y] = h[y]
    BY <1>7, <2>1
  <2> HIDE DEF y
  <2>4. g[m] = g[y] + w[m]
    BY <1>4, <1>7, <2>1, <2>2, <2>3
  <2> QED
    BY <2>4 DEF y
<1>9. Balanced(t, g, w)
  BY <1>7, <1>8 DEF Balanced
<1> QED
  BY <1>1, <1>2, <1>3, <1>9 DEF UnlinkFits, w

-----------------------------------------------------------------------------
(* Putting a key in.                                                       *)

(* The new leaf is red, so that it adds to no black height.                  *)
LEMMA AttachFits ==
    ASSUME NEW t, NEW b, NEW h, RestFits(t, b, h), NEW k \in Keys, k \notin Members(t),
           NEW v \in Values
    PROVE  \E c, g : InsertFits(Attach(t, k, v), c, g, k)
<1> DEFINE r == Attach(t, k, v)
           p == Seat(t, k)
           c == Extended(t, b, k)
           g == [h EXCEPT ![k] = 0]
           w == Weights(r, Nil, Nil)
           W == Weights(t, Nil, Nil)
<1>1. /\ Linked(t) /\ Spread(t, b) /\ t \in Trees
      /\ Shaped(t, b, Nil) /\ Balanced(t, h, W) /\ RedFits(t, Nil, Nil)
  BY DEF RestFits, Shaped, Linked
<1>2. Members(r) = Members(t) \cup {k} /\ Shaped(r, c, Nil)
  BY <1>1, AttachShaped
<1>3. k # Nil /\ \A s \in Sides : t.child[s][k] = Nil
  BY <1>1, KeyAssumption DEF Linked
<1>4. \A m \in Members(t), s \in Sides : t.child[s][m] # k
  BY <1>1, <1>3, Apart
<1>5. /\ r \in Trees /\ r.red = t.red \cup {k}
      /\ \A s \in Sides, m \in Keys :
            \/ r.child[s][m] = t.child[s][m]
            \/ r.child[s][m] = k /\ t.child[s][m] = Nil /\ m # k
      /\ \A m \in Keys \ {k} : r.parent[m] = t.parent[m]
  <2>1. /\ r \in Trees
        /\ r.red = t.red \cup {k}
        /\ t.root = Nil => r.child = t.child /\ r.parent = t.parent
        /\ t.root # Nil =>
              /\ \A s \in Sides, m \in Keys :
                    r.child[s][m] = IF m = p /\ Beside(s, k, p) THEN k ELSE t.child[s][m]
              /\ \A m \in Keys : r.parent[m] = IF m = k THEN p ELSE t.parent[m]
    BY <1>1, AttachAttaches
  <2>2. CASE t.root = Nil
    BY <2>1, <2>2
  <2>3. CASE t.root # Nil
    <3>1. p \in Members(t) /\ Toward(t, p, k) = Nil /\ p # k
      BY <1>1, <2>3, SeatFits
    <3> HIDE DEF p
    <3>2. \A s \in Sides : Beside(s, k, p) => t.child[s][p] = Nil
      BY <3>1, KeyAssumption DEF Toward, Beside, Sides, Members
    <3> QED
      BY <2>1, <2>3, <3>1, <3>2
  <2> QED
    BY <2>2, <2>3
<1> HIDE DEF r, c
<1>6. Balanced(r, g, w)
  <2>1. w[k] = 0 /\ \A m \in Keys \ {k} : w[m] = W[m] /\ w[m] \in {0, 1}
    BY <1>3, <1>5, KeyAssumption DEF Weights
  <2> HIDE DEF w, W
  <2>2. /\ h \in [Keys \cup {Nil} -> Nat] /\ h[Nil] = 0
        /\ \A m \in Members(t), s \in Sides : h[m] = h[t.child[s][m]] + W[m]
    BY <1>1 DEF Balanced
  <2>3. /\ g \in [Keys \cup {Nil} -> Nat] /\ g[Nil] = 0 /\ g[k] = 0
        /\ \A m \in (Keys \cup {Nil}) \ {k} : g[m] = h[m]
    BY <1>3, <2>2
  <2> HIDE DEF g
  <2>4. ASSUME NEW m \in Members(r), NEW s \in Sides PROVE g[m] = g[r.child[s][m]] + w[m]
    <3> DEFINE y == t.child[s][m]
    <3>1. m \in Keys /\ y \in Keys \cup {Nil}
      BY <1>1, <1>2 DEF Trees, Members
    <3>2. r.child[s][m] = y \/ (r.child[s][m] = k /\ y = Nil /\ m # k)
      BY <1>5, <3>1
    <3>3. CASE m = k
      <4>1. y = Nil /\ r.child[s][m] = Nil
        BY <1>3, <3>2, <3>3
      <4> QED
        BY <2>1, <2>3, <3>3, <4>1
    <3>4. CASE m # k
      <4>1. m \in Members(t) /\ y # k
        BY <1>2, <1>4, <3>4
      <4>2. h[m] = h[y] + W[m] /\ g[m] = h[m] /\ g[y] = h[y] /\ w[m] = W[m]
        BY <2>1, <2>2, <2>3, <3>1, <3>4, <4>1
      <4>3. g[r.child[s][m]] = g[y]
        BY <2>3, <3>2
      <4> QED
        BY <4>2, <4>3
    <3> QED
      BY <3>3, <3>4
  <2> QED
    BY <2>3, <2>4 DEF Balanced
<1>7. RedFits(r, k, Nil)
  <2>1. r.red \subseteq Members(r)
    BY <1>1, <1>2, <1>5 DEF RedFits
  <2>2. ASSUME NEW n \in r.red, n # k
        PROVE  r.parent[n] # Nil /\ r.parent[n] \notin r.red
    <3>1. n \in t.red /\ n \in Keys /\ n # Nil /\ n \in Members(t)
      BY <1>2, <1>5, <2>1, <2>2, KeyAssumption DEF Members
    <3>2. t.parent[n] # Nil /\ t.parent[n] \notin t.red
      BY <1>1, <3>1 DEF RedFits
    <3>3. t.parent[n] # k
      BY <1>1, <1>4, <3>1, <3>2, Apart
    <3> QED
      BY <1>5, <2>2, <3>1, <3>2, <3>3
  <2> QED
    BY <2>1, <2>2 DEF RedFits
<1> HIDE DEF g
<1>8. InsertFits(r, c, g, k)
  BY <1>2, <1>5, <1>6, <1>7 DEF InsertFits, w
<1> QED
  BY <1>8 DEF r

(* insertCase1: a red root becomes black.                                   *)
LEMMA InsertAtRootFits ==
    ASSUME NEW t, NEW b, NEW h, NEW i, InsertFits(t, b, h, i), t.parent[i] = Nil
    PROVE  \E g : RestFits(Paint(t, {}, {i}), b, g)
<1> DEFINE r == Paint(t, {}, {i})
           g == [h EXCEPT ![i] = h[i] + 1]
           w == Weights(r, Nil, Nil)
           W == Weights(t, Nil, Nil)
<1>1. /\ Linked(t) /\ Spread(t, b) /\ t \in Trees /\ i \in t.red
      /\ Shaped(t, b, Nil) /\ Balanced(t, h, W) /\ RedFits(t, i, Nil)
  BY DEF InsertFits, Shaped, Linked
<1>2. i \in Members(t) /\ i \in Keys /\ i # Nil
  BY <1>1, KeyAssumption DEF RedFits, Members
<1>3. /\ r \in Trees /\ r.child = t.child /\ r.parent = t.parent /\ r.red = t.red \ {i}
      /\ Members(r) = Members(t) /\ Shaped(r, b, Nil)
  <2>1. {} \ {i} \subseteq Keys
    OBVIOUS
  <2> QED
    BY <1>1, <2>1, PaintPaints, PaintShaped
<1> HIDE DEF r
<1>4. Balanced(r, g, w)
  <2>1. w[i] = 1 /\ W[i] = 0 /\ \A m \in Keys \ {i} : w[m] = W[m] /\ w[m] \in {0, 1}
    BY <1>1, <1>2, <1>3, KeyAssumption DEF Weights
  <2> HIDE DEF w, W
  <2>2. /\ h \in [Keys \cup {Nil} -> Nat] /\ h[Nil] = 0
        /\ \A m \in Members(t), s \in Sides : h[m] = h[t.child[s][m]] + W[m]
    BY <1>1 DEF Balanced
  <2>3. /\ g \in [Keys \cup {Nil} -> Nat] /\ g[Nil] = 0 /\ g[i] = h[i] + 1
        /\ \A m \in (Keys \cup {Nil}) \ {i} : g[m] = h[m]
    BY <1>2, <2>2
  <2> HIDE DEF g
  <2>4. ASSUME NEW m \in Members(r), NEW s \in Sides PROVE g[m] = g[r.child[s][m]] + w[m]
    <3> DEFINE y == t.child[s][m]
    <3>1. /\ m \in Keys /\ y \in Keys \cup {Nil} /\ r.child[s][m] = y /\ m \in Members(t)
          /\ m # Nil
      BY <1>1, <1>3, Apart
    <3>2. y # i
      <4>1. y # Nil => t.parent[y] = m
        BY <1>1, <3>1 DEF Linked
      <4> QED
        BY <1>2, <3>1, <4>1
    <3>3. h[m] = h[y] + W[m] /\ h[m] \in Nat /\ h[y] \in Nat /\ g[y] = h[y]
      BY <2>2, <2>3, <3>1, <3>2
    <3> HIDE DEF y
    <3>4. g[m] = g[y] + w[m]
      BY <2>1, <2>3, <3>1, <3>3
    <3> QED
      BY <3>1, <3>4
  <2> QED
    BY <2>3, <2>4 DEF Balanced
<1>5. RedFits(r, Nil, Nil)
  BY <1>1, <1>3 DEF RedFits
<1> HIDE DEF g
<1> QED
  BY <1>3, <1>4, <1>5 DEF RestFits, r, w

(* insertCase2: below a black node a red one may stay.                       *)
LEMMA InsertBelowBlackFits ==
    ASSUME NEW t, NEW b, NEW h, NEW i, InsertFits(t, b, h, i),
           t.parent[i] # Nil, t.parent[i] \notin t.red
    PROVE  RestFits(t, b, h)
BY DEF InsertFits, RestFits, RedFits

(* The parent, the grandparent and the uncle of a red node below a red one.   *)
LEMMA RedParentStands ==
    ASSUME NEW t, NEW b, NEW h, NEW i, InsertFits(t, b, h, i), t.parent[i] \in t.red
    PROVE  LET p    == t.parent[i]
               g    == t.parent[p]
               side == SideOf(t, p)
               q    == SideOf(t, i)
               u    == t.child[Other(side)][g]
           IN  /\ {i, p, g} \subseteq Members(t) /\ {i, p, g} \subseteq Keys
               /\ Nil \notin {i, p, g} /\ i # p /\ i # g /\ p # g
               /\ side \in Sides /\ t.child[side][g] = p /\ g \notin t.red /\ i \in t.red
               /\ q \in Sides /\ t.child[q][p] = i /\ t.child[Other(q)][p] \notin t.red
               /\ u \in Keys \cup {Nil} /\ u # p /\ u # g /\ u # i /\ u = Sibling(t, p)
               /\ u # Nil => u \in Members(t) /\ t.parent[u] = g
<1> DEFINE p == t.parent[i]
           g == t.parent[p]
           side == SideOf(t, p)
           q == SideOf(t, i)
           u == t.child[Other(side)][g]
<1>1. /\ Linked(t) /\ Spread(t, b) /\ t \in Trees /\ i \in t.red
      /\ RedFits(t, i, Nil)
  BY DEF InsertFits, Shaped, Linked
<1>2. /\ i \in Members(t) /\ i \in Keys /\ i # Nil
      /\ p \in Members(t) /\ p \in Keys /\ p # Nil /\ p # i
      /\ q \in Sides /\ t.child[q][p] = i /\ p \in t.red
  <2>1. i \in Members(t) /\ p \in Members(t)
    BY <1>1 DEF RedFits
  <2> QED
    BY <1>1, <2>1, Apart, KeyAssumption DEF Members
<1>3. g # Nil /\ g \notin t.red
  BY <1>1, <1>2 DEF RedFits
<1> HIDE DEF p, q
<1>4. /\ g \in Members(t) /\ g \in Keys /\ g # p
      /\ side \in Sides /\ t.child[side][g] = p
  BY <1>1, <1>2, <1>3, Apart
<1> HIDE DEF g, side
<1>5. t.child[Other(q)][p] \notin t.red
  <2> SUFFICES ASSUME t.child[Other(q)][p] \in t.red PROVE FALSE
    OBVIOUS
  <2> DEFINE y == t.child[Other(q)][p]
  <2>1. y \in Members(t) /\ y # Nil
    BY <1>1, KeyAssumption DEF RedFits, Members
  <2>2. y # i
    BY <1>1, <1>2, Apart
  <2>3. t.parent[y] = p
    BY <1>1, <1>2, <2>1, TwoSides DEF Linked
  <2> HIDE DEF y
  <2> QED
    BY <1>1, <1>2, <2>1, <2>2, <2>3 DEF RedFits, y
<1>6. /\ u \in Keys \cup {Nil} /\ u # p /\ u # g
      /\ u # Nil => u \in Members(t) /\ t.parent[u] = g
  <2>1. Other(side) \in Sides
    BY <1>4, TwoSides
  <2>2. u # Nil => t.parent[u] = g
    BY <1>1, <1>4, <2>1 DEF Linked
  <2>3. /\ u \in Keys \cup {Nil}
        /\ u # Nil => u \in Members(t) /\ u # g
    BY <1>1, <1>4, <2>1, Apart
  <2>4. u # p
    BY <1>1, <1>2, <1>4, Apart
  <2> QED
    BY <1>3, <2>2, <2>3, <2>4
<1>7. t.parent[i] = p
  BY DEF p
<1>8. u = Sibling(t, p)
  BY DEF Sibling, u, g, side
<1>9. u # i /\ i # g
  <2>1. u = i => p = g
    BY <1>2, <1>6, <1>7
  <2> QED
    BY <1>1, <1>3, <1>4, <2>1
<1> QED
  BY <1>1, <1>2, <1>3, <1>4, <1>5, <1>6, <1>8, <1>9 DEF p, q, g, side

LEMMA RedParentApart ==
    ASSUME NEW t, NEW b, NEW h, NEW i, InsertFits(t, b, h, i), t.parent[i] \in t.red
    PROVE  LET p == t.parent[i]
               g == t.parent[p]
           IN  /\ {i, p, g} \subseteq Members(t) /\ {i, p, g} \subseteq Keys
               /\ Nil \notin {i, p, g} /\ i # p /\ i # g /\ p # g
               /\ g \notin t.red /\ i \in t.red
BY RedParentStands

(* insertCase3: parent and uncle become black, and the grandparent red.       *)
LEMMA InsertRecolourFits ==
    ASSUME NEW t, NEW b, NEW h, NEW i, InsertFits(t, b, h, i), t.parent[i] \in t.red,
           Sibling(t, t.parent[i]) \in t.red
    PROVE  LET p == t.parent[i]
               g == t.parent[p]
           IN  \E e : InsertFits(Paint(t, {g}, {p, Sibling(t, p)}), b, e, g)
<1> DEFINE p == t.parent[i]
           g == t.parent[p]
           side == SideOf(t, p)
           u == Sibling(t, p)
           r == Paint(t, {g}, {p, u})
           e == [h EXCEPT ![p] = h[p] + 1, ![u] = h[u] + 1]
           w == Weights(r, Nil, Nil)
           W == Weights(t, Nil, Nil)
<1>1. /\ Linked(t) /\ Spread(t, b) /\ t \in Trees /\ i \in t.red
      /\ Shaped(t, b, Nil) /\ Balanced(t, h, W) /\ RedFits(t, i, Nil)
      /\ u \in t.red /\ u # Nil
  BY KeyAssumption DEF InsertFits, Shaped, Linked, RedFits, Members
<1>2. /\ {i, p, g} \subseteq Members(t) /\ {i, p, g} \subseteq Keys
      /\ Nil \notin {i, p, g} /\ i # p /\ i # g /\ p # g
      /\ side \in Sides /\ t.child[side][g] = p /\ g \notin t.red /\ i \in t.red
      /\ t.child[Other(side)][g] = u
      /\ u \in Keys \cup {Nil} /\ u # p /\ u # g /\ u # i
      /\ u # Nil => u \in Members(t) /\ t.parent[u] = g
  BY RedParentStands
<1>3. t.parent[i] = p /\ p \in t.red /\ t.parent[p] = g
  OBVIOUS
<1>4. Sides = {side, Other(side)}
  BY <1>2, TwoSides
<1> HIDE DEF p, g, side, u
<1>5. /\ r \in Trees /\ r.child = t.child /\ r.parent = t.parent
      /\ r.red = (t.red \cup {g}) \ {p, u}
      /\ Members(r) = Members(t) /\ Shaped(r, b, Nil)
  <2>1. {g} \ {p, u} \subseteq Keys
    BY <1>2
  <2> QED
    BY <1>1, <2>1, PaintPaints, PaintShaped
<1> HIDE DEF r
<1>6. Balanced(r, e, w)
  <2>1. /\ w[p] = 1 /\ w[u] = 1 /\ w[g] = 0 /\ W[p] = 0 /\ W[u] = 0 /\ W[g] = 1
        /\ \A m \in Keys \ {p, u, g} : w[m] = W[m] /\ w[m] \in {0, 1}
    BY <1>1, <1>2, <1>3, <1>5, KeyAssumption DEF Weights
  <2> HIDE DEF w, W
  <2>2. /\ h \in [Keys \cup {Nil} -> Nat] /\ h[Nil] = 0
        /\ \A m \in Members(t), s \in Sides : h[m] = h[t.child[s][m]] + W[m]
    BY <1>1 DEF Balanced
  <2>3. /\ e \in [Keys \cup {Nil} -> Nat] /\ e[Nil] = 0 /\ e[p] = h[p] + 1 /\ e[u] = h[u] + 1
        /\ \A m \in (Keys \cup {Nil}) \ {p, u} : e[m] = h[m]
    BY <1>1, <1>2, <2>2
  <2> HIDE DEF e
  <2>4. ASSUME NEW m \in Members(r), NEW s \in Sides PROVE e[m] = e[r.child[s][m]] + w[m]
    <3> DEFINE y == t.child[s][m]
    <3>1. /\ m \in Keys /\ y \in Keys \cup {Nil} /\ r.child[s][m] = y /\ m \in Members(t)
          /\ m # Nil
      BY <1>1, <1>5, Apart
    <3>2. m = g => y \in {p, u}
      BY <1>2, <1>4
    <3>3. m # g => y # p /\ y # u
      <4>1. y # Nil => t.parent[y] = m
        BY <1>1, <3>1 DEF Linked
      <4> QED
        BY <1>1, <1>2, <1>3, <3>1, <4>1
    <3>4. h[m] = h[y] + W[m] /\ h[m] \in Nat /\ h[y] \in Nat
      BY <2>2, <3>1
    <3> HIDE DEF y
    <3>5. CASE m = g
      <4>1. e[y] = h[y] + 1 /\ e[m] = h[m] /\ W[m] = 1 /\ w[m] = 0
        BY <1>2, <2>1, <2>3, <3>1, <3>2, <3>5
      <4>2. e[m] = e[y] + w[m]
        BY <3>4, <4>1
      <4> QED
        BY <3>1, <4>2
    <3>6. CASE m \in {p, u}
      <4>1. e[y] = h[y] /\ e[m] = h[m] + 1 /\ W[m] = 0 /\ w[m] = 1
        BY <1>2, <2>1, <2>3, <3>1, <3>3, <3>6
      <4>2. e[m] = e[y] + w[m]
        BY <3>4, <4>1
      <4> QED
        BY <3>1, <4>2
    <3>7. CASE m \notin {p, u, g}
      <4>1. e[y] = h[y] /\ e[m] = h[m] /\ W[m] = w[m]
        BY <2>1, <2>3, <3>1, <3>3, <3>7
      <4>2. e[m] = e[y] + w[m]
        BY <3>4, <4>1
      <4> QED
        BY <3>1, <4>2
    <3> QED
      BY <3>5, <3>6, <3>7
  <2> QED
    BY <2>3, <2>4 DEF Balanced
<1>7. RedFits(r, g, Nil)
  <2>1. r.red \subseteq Members(r)
    BY <1>1, <1>2, <1>5 DEF RedFits
  <2>2. ASSUME NEW n \in r.red, n # g
        PROVE  r.parent[n] # Nil /\ r.parent[n] \notin r.red
    <3>1. n \in t.red /\ n \in Members(t) /\ n \in Keys /\ n # Nil /\ n # p /\ n # u
      BY <1>5, <2>1, <2>2, KeyAssumption DEF Members
    <3>2. CASE n = i
      BY <1>2, <1>3, <1>5, <3>2
    <3>3. CASE n # i
      <4>1. t.parent[n] # Nil /\ t.parent[n] \notin t.red
        BY <1>1, <3>1, <3>3 DEF RedFits
      <4>2. t.parent[n] # g
        <5> SUFFICES ASSUME t.parent[n] = g PROVE FALSE
          OBVIOUS
        <5>1. PICK s \in Sides : t.child[s][g] = n
          BY <1>1, <1>2, <3>1 DEF Linked
        <5> QED
          BY <1>2, <1>4, <3>1, <5>1
      <4> QED
        BY <1>5, <4>1, <4>2
    <3> QED
      BY <3>2, <3>3
  <2> QED
    BY <2>1, <2>2 DEF RedFits
<1>8. g \in r.red
  BY <1>2, <1>5
<1> HIDE DEF e
<1>9. InsertFits(r, b, e, g)
  BY <1>5, <1>6, <1>7, <1>8 DEF InsertFits, w
<1> QED
  BY <1>9 DEF p, g, u, r

(* insertCase4: a bent pair of red nodes is straightened, and the flaw is then *)
(* where the parent is.                                                    *)
LEMMA StraightenFits ==
    ASSUME NEW t, NEW b, NEW h, NEW i, InsertFits(t, b, h, i), t.parent[i] \in t.red,
           Sibling(t, t.parent[i]) \notin t.red, SideOf(t, i) # SideOf(t, t.parent[i])
    PROVE  LET p    == t.parent[i]
               g    == t.parent[p]
               side == SideOf(t, p)
               r    == Rotate(t, p, side)
           IN  \E c : /\ InsertFits(r, c, h, p)
                      /\ Members(r) = Members(t) /\ r.value = t.value
                      /\ r.parent[p] = i /\ i \in r.red /\ r.parent[i] = g
                      /\ r.child[side][i] = p /\ r.child[side][g] = i
                      /\ r.child[Other(side)][g] \notin r.red
<1> DEFINE p == t.parent[i]
           g == t.parent[p]
           side == SideOf(t, p)
           o == Other(side)
           q == SideOf(t, i)
           x == t.child[side][i]
           r == Rotate(t, p, side)
           c == Turned(t, b, p, side)
           w == Weights(r, Nil, Nil)
           W == Weights(t, Nil, Nil)
<1>1. /\ Linked(t) /\ Spread(t, b) /\ t \in Trees /\ i \in t.red
      /\ Shaped(t, b, Nil) /\ Balanced(t, h, W) /\ RedFits(t, i, Nil)
  BY DEF InsertFits, Shaped, Linked
<1>2. /\ {i, p, g} \subseteq Members(t) /\ {i, p, g} \subseteq Keys
      /\ Nil \notin {i, p, g} /\ i # p /\ i # g /\ p # g
      /\ side \in Sides /\ t.child[side][g] = p /\ g \notin t.red /\ i \in t.red
      /\ q \in Sides /\ t.child[q][p] = i /\ t.child[Other(q)][p] \notin t.red
      /\ t.child[o][g] = Sibling(t, p)
      /\ t.child[o][g] # p
  BY RedParentStands, SMTT(30)
<1>3. t.parent[i] = p /\ p \in t.red /\ t.parent[p] = g /\ q # side /\ t.child[o][g] \notin t.red
  BY <1>2
<1>4. q = o /\ o \in Sides /\ side # o /\ Sides = {side, o} /\ t.child[o][p] = i
  BY <1>2, <1>3, TwoSides
<1> HIDE DEF p, g, side, q
<1>5. /\ Members(r) = Members(t) /\ Shaped(r, c, Nil) /\ Rotated(t, r, p, side)
      /\ t.child[Other(side)][p] # Nil
  BY <1>1, <1>2, <1>4, RotateShaped
<1> HIDE DEF r
<1>6. /\ r.red = t.red /\ r.value = t.value
      /\ \A m \in Keys :
            r.parent[m] = IF m = p THEN i ELSE IF m = i THEN g
                          ELSE IF m = x THEN p ELSE t.parent[m]
      /\ \A s \in Sides, m \in Keys :
            r.child[s][m] = IF m = p /\ s = o THEN x
                            ELSE IF m = i /\ s = side THEN p
                            ELSE IF t.child[s][m] = p THEN i
                            ELSE t.child[s][m]
  BY <1>3, <1>4, <1>5 DEF Rotated
<1>7. /\ r.parent[p] = i /\ i \in r.red /\ r.parent[i] = g
      /\ r.child[side][i] = p /\ r.child[side][g] = i
      /\ r.child[o][g] = t.child[o][g] /\ r.child[o][g] \notin r.red
  BY <1>2, <1>3, <1>4, <1>6
<1>8. Balanced(r, h, w)
  <2>1. w = W /\ w[p] = 0 /\ w[i] = 0
    BY <1>2, <1>3, <1>6, KeyAssumption DEF Weights
  <2> HIDE DEF w, W
  <2>2. /\ h \in [Keys \cup {Nil} -> Nat] /\ h[Nil] = 0
        /\ \A m \in Members(t), s \in Sides : h[m] = h[t.child[s][m]] + w[m]
    BY <1>1, <2>1 DEF Balanced
  <2>3. x \in Keys \cup {Nil} /\ t.child[side][p] \in Keys \cup {Nil} /\ t.child[o][i] \in Keys \cup {Nil}
    BY <1>1, <1>2, <1>4, Apart
  <2>4. h[i] \in Nat /\ h[p] \in Nat /\ h[x] \in Nat
        /\ h[t.child[side][p]] \in Nat /\ h[t.child[o][i]] \in Nat
    BY <1>2, <2>2, <2>3
  <2>5. /\ h[p] = h[i] /\ h[p] = h[t.child[side][p]] /\ h[i] = h[x] /\ h[i] = h[t.child[o][i]]
    <3>1. /\ h[p] = h[i] + 0 /\ h[p] = h[t.child[side][p]] + 0
          /\ h[i] = h[x] + 0 /\ h[i] = h[t.child[o][i]] + 0
      BY <1>2, <1>4, <2>1, <2>2
    <3> QED
      BY <2>4, <3>1
  <2>6. ASSUME NEW m \in Members(t) \ {p, i}, NEW s \in Sides
        PROVE  h[m] = (IF t.child[s][m] = p THEN h[i] ELSE h[t.child[s][m]]) + w[m]
    BY <2>2, <2>5
  <2>7. WillBalance(t, p, side, h, w)
    <3>1. /\ h[p] = h[t.child[side][p]] + w[p] /\ h[p] = h[x] + w[p]
          /\ h[i] = h[p] + w[i] /\ h[i] = h[t.child[o][i]] + w[i]
      <4>1. /\ w[p] = 0 /\ w[i] = 0 /\ h[i] = h[p]
            /\ h[p] = h[t.child[side][p]] /\ h[p] = h[x] /\ h[i] = h[t.child[o][i]]
        BY <2>1, <2>5
      <4>2. h[p] + 0 = h[p] /\ h[i] + 0 = h[i]
        BY <2>4
      <4> QED
        BY <4>1, <4>2
    <3> QED
      BY <1>4, <2>2, <2>6, <3>1 DEF WillBalance
  <2> QED
    BY <1>1, <1>2, <1>5, <2>7, RotateBalanced
<1>9. RedFits(r, p, Nil)
  <2>1. r.red \subseteq Members(r)
    BY <1>1, <1>5, <1>6 DEF RedFits
  <2>2. ASSUME NEW n \in r.red, n # p
        PROVE  r.parent[n] # Nil /\ r.parent[n] \notin r.red
    <3>1. n \in t.red /\ n \in Members(t) /\ n \in Keys /\ n # Nil
      BY <1>5, <1>6, <2>1, <2>2, KeyAssumption DEF Members
    <3>2. CASE n = i
      BY <1>2, <1>6, <3>2
    <3>3. CASE n # i
      <4>1. t.parent[n] # Nil /\ t.parent[n] \notin t.red
        BY <1>1, <3>1, <3>3 DEF RedFits
      <4>2. n # x
        <5>1. n = x => t.parent[n] = i
          BY <1>1, <1>2, <3>1 DEF Linked
        <5> QED
          BY <1>2, <4>1, <5>1
      <4> QED
        BY <1>6, <2>2, <3>1, <3>3, <4>1, <4>2
    <3> QED
      BY <3>2, <3>3
  <2> QED
    BY <2>1, <2>2 DEF RedFits
<1> HIDE DEF c
<1>10. InsertFits(r, c, h, p)
  BY <1>3, <1>5, <1>6, <1>8, <1>9 DEF InsertFits, w
<1> QED
  BY <1>5, <1>6, <1>7, <1>10 DEF p, g, side, r

(* insertCase5: the red parent takes the place of the grandparent.            *)
LEMMA LiftFits ==
    ASSUME NEW t, NEW b, NEW h, NEW i, InsertFits(t, b, h, i), t.parent[i] \in t.red,
           NEW side \in Sides, t.child[side][t.parent[i]] = i,
           t.child[side][t.parent[t.parent[i]]] = t.parent[i],
           t.child[Other(side)][t.parent[t.parent[i]]] \notin t.red
    PROVE  LET p == t.parent[i]
               g == t.parent[p]
               r == Rotate(Paint(t, {g}, {p}), g, Other(side))
           IN  \E c, e : /\ RestFits(r, c, e)
                         /\ Members(r) = Members(t) /\ r.value = t.value
<1> DEFINE p == t.parent[i]
           g == t.parent[p]
           o == Other(side)
           x == t.child[o][p]
           z == t.child[o][g]
           u == Paint(t, {g}, {p})
           r == Rotate(u, g, o)
           c == Turned(u, b, g, o)
           e == [h EXCEPT ![p] = h[g], ![g] = h[p]]
           w == Weights(r, Nil, Nil)
           W == Weights(t, Nil, Nil)
<1>1. /\ Linked(t) /\ Spread(t, b) /\ t \in Trees /\ i \in t.red
      /\ Shaped(t, b, Nil) /\ Balanced(t, h, W) /\ RedFits(t, i, Nil)
  BY DEF InsertFits, Shaped, Linked
<1>2. /\ {i, p, g} \subseteq Members(t) /\ {i, p, g} \subseteq Keys
      /\ Nil \notin {i, p, g} /\ i # p /\ i # g /\ p # g
      /\ g \notin t.red /\ i \in t.red
  BY RedParentApart
<1>3. /\ t.parent[i] = p /\ p \in t.red /\ t.parent[p] = g /\ z \notin t.red
      /\ t.child[side][g] = p /\ t.child[side][p] = i
  OBVIOUS
<1>4. o \in Sides /\ side # o /\ Sides = {side, o} /\ Other(o) = side
  BY TwoSides
<1> HIDE DEF p, g, o
<1>5. /\ x \in Keys \cup {Nil} /\ x # i /\ x # p /\ x # g /\ x \notin t.red
      /\ z \in Keys \cup {Nil} /\ z # p /\ z # g /\ z # i
  <2>1. /\ x \in Keys \cup {Nil} /\ z \in Keys \cup {Nil} /\ x # i /\ z # p
        /\ x # Nil => x # p /\ x # g
        /\ z # Nil => z # g
        /\ x # Nil => x \in Members(t)
    BY <1>1, <1>2, <1>3, <1>4, Apart
  <2>2. /\ x # Nil => t.parent[x] = p
        /\ z # Nil => t.parent[z] = g
    BY <1>1, <1>2, <1>4 DEF Linked
  <2>3. x \notin t.red
    <3>1. Nil \notin t.red
      BY <1>1, KeyAssumption DEF RedFits, Members
    <3> HIDE DEF x
    <3> QED
      BY <1>1, <1>3, <2>1, <2>2, <3>1 DEF RedFits
  <2> QED
    BY <1>2, <1>3, <2>1, <2>2, <2>3
<1> HIDE DEF x, z
<1>6. /\ u \in Trees /\ u.child = t.child /\ u.parent = t.parent /\ u.value = t.value
      /\ u.red = (t.red \cup {g}) \ {p}
      /\ Members(u) = Members(t) /\ Shaped(u, b, Nil)
  <2>1. {g} \ {p} \subseteq Keys
    BY <1>2
  <2> QED
    BY <1>1, <2>1, PaintPaints, PaintShaped
<1> HIDE DEF u
<1>7. /\ u.child[side][g] = p /\ u.child[o][p] = x /\ u.child[side][p] = i /\ u.child[o][g] = z
      /\ g \in Members(u) /\ u.child[Other(o)][g] # Nil
  BY <1>2, <1>3, <1>4, <1>6 DEF x, z
<1>8. /\ Members(r) = Members(u) /\ Shaped(r, c, Nil) /\ Rotated(u, r, g, o)
      /\ Linked(u) /\ Spread(u, b)
  BY <1>4, <1>6, <1>7, RotateShaped DEF Shaped
<1> HIDE DEF r
<1>9. /\ r.red = u.red /\ r.value = t.value
      /\ \A m \in Keys :
            r.parent[m] = IF m = g THEN p ELSE IF m = p THEN t.parent[g]
                          ELSE IF m = x THEN g ELSE t.parent[m]
  BY <1>4, <1>6, <1>7, <1>8 DEF Rotated
<1>10. Balanced(r, e, w)
  <2>1. /\ w[p] = 1 /\ w[g] = 0 /\ W[p] = 0 /\ W[g] = 1
        /\ \A m \in Keys \ {p, g} : w[m] = W[m] /\ w[m] \in {0, 1}
    BY <1>2, <1>3, <1>6, <1>9, KeyAssumption DEF Weights
  <2> HIDE DEF w, W
  <2>2. /\ h \in [Keys \cup {Nil} -> Nat] /\ h[Nil] = 0
        /\ \A m \in Members(t), s \in Sides : h[m] = h[t.child[s][m]] + W[m]
    BY <1>1 DEF Balanced
  <2>3. /\ e \in [Keys \cup {Nil} -> Nat] /\ e[Nil] = 0 /\ e[p] = h[g] /\ e[g] = h[p]
        /\ \A m \in (Keys \cup {Nil}) \ {p, g} : e[m] = h[m]
    BY <1>1, <1>2, <2>2
  <2> HIDE DEF e
  <2>4. /\ h[p] \in Nat /\ h[g] \in Nat /\ h[i] \in Nat /\ h[x] \in Nat /\ h[z] \in Nat
    BY <1>2, <1>5, <2>2
  <2>5. /\ h[g] = h[p] + 1 /\ h[p] = h[z] /\ h[p] = h[i] /\ h[p] = h[x]
    <3>1. /\ h[g] = h[p] + 1 /\ h[g] = h[z] + 1 /\ h[p] = h[i] + 0 /\ h[p] = h[x] + 0
      BY <1>2, <1>3, <1>4, <2>1, <2>2 DEF x, z
    <3> QED
      BY <2>4, <3>1
  <2>6. /\ e[g] = e[z] + w[g] /\ e[g] = e[x] + w[g]
        /\ e[p] = e[g] + w[p] /\ e[p] = e[i] + w[p]
    <3>1. e[z] = h[z] /\ e[x] = h[x] /\ e[i] = h[i]
      BY <1>2, <1>5, <2>3
    <3>2. /\ w[g] = 0 /\ w[p] = 1 /\ e[p] = h[p] + 1 /\ e[g] = h[p]
          /\ e[z] = h[p] /\ e[x] = h[p] /\ e[i] = h[p]
      BY <2>1, <2>3, <2>5, <3>1
    <3>3. h[p] + 0 = h[p]
      BY <2>4
    <3> QED
      BY <3>2, <3>3
  <2>7. ASSUME NEW m \in Members(t) \ {g, p}, NEW s \in Sides
        PROVE  e[m] = (IF t.child[s][m] = g THEN e[p] ELSE e[t.child[s][m]]) + w[m]
    <3> DEFINE y == t.child[s][m]
    <3>1. m \in Keys /\ y \in Keys \cup {Nil}
      BY <1>1, Apart
    <3>2. y # p
      <4>1. y # Nil => t.parent[y] = m
        BY <1>1 DEF Linked
      <4> QED
        BY <1>2, <1>3, <2>7, <4>1
    <3>3. h[m] = h[y] + W[m]
      BY <2>2
    <3> HIDE DEF y
    <3>4. e[m] = h[m] /\ w[m] = W[m] /\ (IF y = g THEN e[p] ELSE e[y]) = h[y]
      BY <2>1, <2>3, <2>7, <3>1, <3>2
    <3> QED
      BY <3>3, <3>4 DEF y
  <2>8. WillBalance(u, g, o, e, w)
    BY <1>4, <1>6, <1>7, <2>3, <2>6, <2>7 DEF WillBalance
  <2> QED
    BY <1>4, <1>7, <1>8, <2>8, RotateBalanced
<1>11. RedFits(r, Nil, Nil)
  <2>1. r.red \subseteq Members(r)
    BY <1>1, <1>2, <1>6, <1>8, <1>9 DEF RedFits
  <2>2. ASSUME NEW n \in r.red
        PROVE  r.parent[n] # Nil /\ r.parent[n] \notin r.red
    <3>1. /\ n \in Keys /\ n # Nil /\ n \in Members(t) /\ n # p
          /\ n = g \/ n \in t.red
      BY <1>6, <1>8, <1>9, <2>1, <2>2, KeyAssumption DEF Members
    <3>2. p \notin r.red
      BY <1>6, <1>9
    <3>3. CASE n = g
      BY <1>2, <1>9, <3>2, <3>3
    <3>4. CASE n # g /\ n = i
      BY <1>2, <1>3, <1>5, <1>9, <3>2, <3>4
    <3>5. CASE n # g /\ n # i
      <4>1. t.parent[n] # Nil /\ t.parent[n] \notin t.red
        BY <1>1, <3>1, <3>5 DEF RedFits
      <4>2. t.parent[n] # g
        <5> SUFFICES ASSUME t.parent[n] = g PROVE FALSE
          OBVIOUS
        <5>1. PICK s \in Sides : t.child[s][g] = n
          BY <1>1, <1>2, <3>1 DEF Linked
        <5> QED
          BY <1>3, <1>4, <3>1, <3>5, <5>1 DEF z
      <4>3. n # x
        BY <1>5, <3>1, <3>5
      <4> QED
        BY <1>6, <1>9, <3>1, <3>5, <4>1, <4>2, <4>3
    <3> QED
      BY <3>3, <3>4, <3>5
  <2> QED
    BY <2>1, <2>2 DEF RedFits
<1> HIDE DEF c, e
<1>12. RestFits(r, c, e)
  BY <1>8, <1>10, <1>11 DEF RestFits, w
<1>13. Members(r) = Members(t) /\ r.value = t.value
  BY <1>6, <1>8, <1>9
<1> QED
  BY <1>12, <1>13 DEF p, g, r, u, o

LEMMA StraightenAndLiftFits ==
    ASSUME NEW t, NEW b, NEW h, NEW i, InsertFits(t, b, h, i), t.parent[i] \in t.red,
           Sibling(t, t.parent[i]) \notin t.red
    PROVE  LET r == StraightenAndLift(t, i)
           IN  \E c, e : /\ RestFits(r, c, e)
                         /\ Members(r) = Members(t) /\ r.value = t.value
<1> DEFINE p == t.parent[i]
           g == t.parent[p]
           side == SideOf(t, p)
           q == SideOf(t, i)
<1>1. /\ side \in Sides /\ t.child[side][g] = p /\ t.child[q][p] = i
      /\ t.child[Other(side)][g] = Sibling(t, p)
  BY RedParentStands
<1>2. CASE q = side
  <2>1. StraightenAndLift(t, i) = Rotate(Paint(t, {g}, {p}), g, Other(side))
    BY <1>2 DEF StraightenAndLift
  <2>2. /\ t.child[side][t.parent[i]] = i
        /\ t.child[side][t.parent[t.parent[i]]] = t.parent[i]
        /\ t.child[Other(side)][t.parent[t.parent[i]]] \notin t.red
    BY <1>1, <1>2
  <2>3. side \in Sides
    BY <1>1
  <2> HIDE DEF side
  <2>4. LET r == Rotate(Paint(t, {t.parent[t.parent[i]]}, {t.parent[i]}),
                        t.parent[t.parent[i]], Other(side))
        IN  \E c, e : /\ RestFits(r, c, e)
                      /\ Members(r) = Members(t) /\ r.value = t.value
    BY <2>2, <2>3, LiftFits, SMTT(30)
  <2> QED
    BY <2>1, <2>4
<1>3. CASE q # side
  <2> DEFINE u == Rotate(t, p, side)
  <2>1. StraightenAndLift(t, i) = Rotate(Paint(u, {g}, {i}), g, Other(side))
    BY <1>3 DEF StraightenAndLift
  <2>2. PICK c : /\ InsertFits(u, c, h, p)
                 /\ Members(u) = Members(t) /\ u.value = t.value
                 /\ u.parent[p] = i /\ i \in u.red /\ u.parent[i] = g
                 /\ u.child[side][i] = p /\ u.child[side][g] = i
                 /\ u.child[Other(side)][g] \notin u.red
    BY <1>3, StraightenFits
  <2> HIDE DEF side, g, p, u
  <2>3. /\ u.parent[p] \in u.red
        /\ u.child[side][u.parent[p]] = p
        /\ u.child[side][u.parent[u.parent[p]]] = u.parent[p]
        /\ u.child[Other(side)][u.parent[u.parent[p]]] \notin u.red
        /\ u.parent[p] = i /\ u.parent[u.parent[p]] = g
    BY <2>2
  <2>4. LET r == Rotate(Paint(u, {g}, {i}), g, Other(side))
        IN  \E f, e : /\ RestFits(r, f, e)
                      /\ Members(r) = Members(u) /\ r.value = u.value
    BY <1>1, <2>2, <2>3, LiftFits
  <2> QED
    BY <2>1, <2>2, <2>4
<1> QED
  BY <1>2, <1>3

-----------------------------------------------------------------------------
(* Taking a key out.                                                       *)

(* The node before k takes the place and the colour of k.                    *)
LEMMA ExchangeFits ==
    ASSUME NEW t, NEW b, NEW h, RestFits(t, b, h), NEW k \in Members(t), NEW p \in Members(t)
    PROVE  LET r == ExchangeNames(t, k, p)
           IN  \E g : Balanced(r, g, Weights(r, Nil, Nil)) /\ RedFits(r, Nil, Nil)
<1> DEFINE r == ExchangeNames(t, k, p)
           N(n) == Swap(k, p, n)
           g == [n \in Keys \cup {Nil} |-> h[N(n)]]
           w == Weights(r, Nil, Nil)
           W == Weights(t, Nil, Nil)
<1>1. /\ Linked(t) /\ Spread(t, b) /\ t \in Trees
      /\ Balanced(t, h, W) /\ RedFits(t, Nil, Nil)
  BY DEF RestFits, Shaped, Linked
<1>2. k \in Keys /\ p \in Keys /\ k # Nil /\ p # Nil
  BY KeyAssumption DEF Members
<1>3. /\ \A s \in Sides, n \in Keys : r.child[s][n] = N(t.child[s][N(n)])
      /\ \A n \in Keys : r.parent[n] = N(t.parent[N(n)])
      /\ r.red = {n \in Keys : N(n) \in t.red}
      /\ Members(r) = Members(t)
  BY <1>1, <1>2, ExchangeExchanges, ExchangeLinked
<1> HIDE DEF r
<1>4. /\ \A n : N(N(n)) = n
      /\ N(k) = p /\ N(p) = k
      /\ N(Nil) = Nil
      /\ \A n \in Keys : N(n) \in Keys
      /\ \A n \in Keys \cup {Nil} : N(n) \in Keys \cup {Nil}
      /\ \A n \in Members(t) : N(n) \in Members(t)
  <2>1. \A n : N(N(n)) = n /\ (n # k /\ n # p => N(n) = n)
    BY SwapTwice
  <2>2. N(k) = p /\ N(p) = k
    BY SwapTwice
  <2> HIDE DEF N
  <2> QED
    BY <1>2, <2>1, <2>2
<1> HIDE DEF N
<1>5. \A n \in Keys : w[n] = W[N(n)]
  <2> SUFFICES ASSUME NEW n \in Keys PROVE w[n] = W[N(n)]
    OBVIOUS
  <2>1. N(n) \in Keys /\ n # Nil /\ N(n) # Nil /\ (n \in r.red <=> N(n) \in t.red)
    BY <1>3, <1>4, KeyAssumption
  <2> QED
    BY <2>1 DEF Weights
<1> HIDE DEF w, W
<1>6. /\ h \in [Keys \cup {Nil} -> Nat] /\ h[Nil] = 0
      /\ \A m \in Members(t), s \in Sides : h[m] = h[t.child[s][m]] + W[m]
  BY <1>1 DEF Balanced
<1>7. ASSUME NEW n \in Members(r), NEW s \in Sides PROVE g[n] = g[r.child[s][n]] + w[n]
  <2> DEFINE y == t.child[s][N(n)]
  <2>1. n \in Keys /\ N(n) \in Members(t) /\ N(n) \in Keys
    BY <1>3, <1>4 DEF Members
  <2>2. y \in Keys \cup {Nil}
    BY <1>1, <2>1, Apart
  <2>3. h[N(n)] = h[y] + W[N(n)]
    BY <1>6, <2>1
  <2>4. r.child[s][n] = N(y) /\ w[n] = W[N(n)] /\ N(N(y)) = y /\ N(y) \in Keys \cup {Nil}
    BY <1>3, <1>4, <1>5, <2>1, <2>2
  <2> HIDE DEF y
  <2>5. g[n] = h[N(n)] /\ g[N(y)] = h[y]
    BY <2>1, <2>4
  <2> QED
    BY <2>3, <2>4, <2>5
<1>8. g \in [Keys \cup {Nil} -> Nat] /\ g[Nil] = 0
  BY <1>4, <1>6
<1> HIDE DEF g
<1>9. Balanced(r, g, w)
  BY <1>7, <1>8 DEF Balanced
<1>10. RedFits(r, Nil, Nil)
  <2>1. \A n \in t.red : n \in Members(t) /\ t.parent[n] # Nil /\ t.parent[n] \notin t.red
    BY <1>1, KeyAssumption DEF RedFits, Members
  <2>2. ASSUME NEW n \in r.red
        PROVE  n \in Members(r) /\ r.parent[n] # Nil /\ r.parent[n] \notin r.red
    <3>1. n \in Keys /\ N(n) \in t.red /\ N(n) \in Members(t) /\ N(n) \in Keys
      BY <1>3, <1>4, <2>1
    <3>2. t.parent[N(n)] # Nil /\ t.parent[N(n)] \notin t.red /\ t.parent[N(n)] \in Keys \cup {Nil}
      BY <1>1, <2>1, <3>1, Apart
    <3>3. n = N(N(n)) /\ r.parent[n] = N(t.parent[N(n)])
      BY <1>3, <1>4, <3>1
    <3>4. N(r.parent[n]) = t.parent[N(n)]
      BY <1>4, <3>3
    <3> QED
      BY <1>3, <1>4, <3>1, <3>2, <3>3, <3>4
  <2> QED
    BY <2>2 DEF RedFits
<1> QED
  BY <1>9, <1>10 DEF r, w

(* The tree in which k is the node to unlink is as well balanced.             *)
LEMMA DoomedStands ==
    ASSUME NEW t, NEW b, NEW h, RestFits(t, b, h), NEW k \in Members(t)
    PROVE  LET r == Doomed(t, k)
           IN  /\ Members(r) = Members(t) /\ r.value = t.value
               /\ Nil \in {r.child["left"][k], r.child["right"][k]}
               /\ \E c, g : /\ Shaped(r, c, k)
                            /\ Balanced(r, g, Weights(r, Nil, Nil))
                            /\ RedFits(r, Nil, Nil)
<1> DEFINE r == Doomed(t, k)
<1>1. Shaped(t, b, Nil) /\ Balanced(t, h, Weights(t, Nil, Nil)) /\ RedFits(t, Nil, Nil)
  BY DEF RestFits
<1>2. k \in Keys /\ k # Nil /\ t \in Trees
  BY <1>1, KeyAssumption DEF Members, Shaped, Linked
<1>3. CASE Nil \in {t.child["left"][k], t.child["right"][k]}
  <2>1. r = t
    BY <1>3 DEF Doomed
  <2>2. Shaped(t, b, k)
    <3>1. Linked(t) /\ Spread(t, b) /\ Ordered(t, b, Nil)
      BY <1>1 DEF Shaped
    <3>2. Ordered(t, b, k)
      <4>1. \A m \in Keys \cup {Nil} : b[m] \subseteq Keys
        BY <3>1 DEF Spread
      <4>2. \A n \in Members(t), s \in Sides :
               /\ b[t.child[s][n]] \subseteq Keys /\ b[t.child[Other(s)][n]] \subseteq Keys
               /\ n # Nil
        BY <3>1, <4>1, Apart, TwoSides
      <4> QED
        BY <3>1, <4>2, KeyAssumption DEF Ordered
    <3> QED
      BY <3>1, <3>2 DEF Shaped
  <2> HIDE DEF r
  <2> QED
    BY <1>1, <1>3, <2>1, <2>2 DEF r
<1>4. CASE Nil \notin {t.child["left"][k], t.child["right"][k]}
  <2> DEFINE p == Outermost(t, "right", t.child["left"][k])
  <2>1. r = ExchangeNames(t, k, p)
    BY <1>4 DEF Doomed
  <2>2. /\ p \in Members(t) /\ p < k
        /\ t.child["right"][p] = Nil
        /\ \A m \in Members(t) \ {k, p} : m < p \/ k < m
    BY <1>1, <1>4, NodeBefore
  <2> HIDE DEF p
  <2>3. Members(r) = Members(t) /\ Shaped(r, Swapped(b, k, p), k)
    BY <1>1, <2>1, <2>2, ExchangeShaped
  <2>4. p \in Keys
    BY <2>2 DEF Members
  <2>5. r.value = t.value /\ r.child["right"][k] = Nil
    <3>1. /\ r.value = t.value
          /\ r.child["right"][k] = Swap(k, p, t.child["right"][Swap(k, p, k)])
      BY <1>2, <2>1, <2>4, ExchangeExchanges DEF Sides
    <3>2. Swap(k, p, k) = p /\ Swap(k, p, Nil) = Nil
      BY <1>2, <2>4, SwapTwice, KeyAssumption
    <3> QED
      BY <2>2, <3>1, <3>2
  <2>6. \E g : Balanced(r, g, Weights(r, Nil, Nil)) /\ RedFits(r, Nil, Nil)
    BY <2>1, <2>2, ExchangeFits
  <2> HIDE DEF r
  <2> QED
    BY <2>3, <2>5, <2>6 DEF r
<1> QED
  BY <1>3, <1>4

(* Remove begins: a red node can be unlinked at once; in the place of a black  *)
(* one the subtree is one black node short.                                 *)
LEMMA DoomedFits ==
    ASSUME NEW t, NEW b, NEW h, RestFits(t, b, h), NEW k \in Members(t)
    PROVE  LET r == Doomed(t, k)
               reds == IF OnlyChild(r, k) \in r.red THEN {k} ELSE {}
               u == Paint(r, reds, {})
           IN  \E c, g :
                  /\ k \in r.red => UnlinkFits(r, c, g, k)
                  /\ k \notin r.red => /\ DeleteFits(u, c, g, k, k)
                                       /\ Members(u) = Members(r) /\ u.value = r.value
<1> DEFINE r == Doomed(t, k)
           reds == IF OnlyChild(r, k) \in r.red THEN {k} ELSE {}
           u == Paint(r, reds, {})
<1>1. Nil \in {r.child["left"][k], r.child["right"][k]} /\ k \in Members(r)
  BY DoomedStands
<1>2. PICK c, g : /\ Shaped(r, c, k)
                  /\ Balanced(r, g, Weights(r, Nil, Nil))
                  /\ RedFits(r, Nil, Nil)
  BY DoomedStands
<1> HIDE DEF r
<1>3. k \in Keys /\ k # Nil /\ r \in Trees /\ Spread(r, c) /\ Linked(r)
  BY <1>1, <1>2, KeyAssumption DEF Members, Shaped, Linked
<1>4. CASE k \in r.red
  <2>1. Weights(r, k, Nil) = Weights(r, Nil, Nil)
    BY <1>4, KeyAssumption DEF Weights
  <2>2. RedFits(r, Nil, k)
    BY <1>2, KeyAssumption DEF RedFits, Members
  <2>3. r.parent[k] \notin r.red
    BY <1>2, <1>3, <1>4 DEF RedFits
  <2>4. UnlinkFits(r, c, g, k)
    BY <1>1, <1>2, <2>1, <2>2, <2>3 DEF UnlinkFits
  <2> QED
    BY <1>4, <2>4 DEF r
<1>5. CASE k \notin r.red
  <2>1. /\ u \in Trees /\ u.child = r.child /\ u.parent = r.parent
        /\ u.value = r.value /\ u.red = r.red \cup reds
        /\ Members(u) = Members(r) /\ Shaped(u, c, k)
    <3>1. reds \ {} \subseteq Keys
      BY <1>3
    <3> HIDE DEF reds
    <3>2. /\ u.red = (r.red \cup reds) \ {}
          /\ u \in Trees /\ u.child = r.child /\ u.parent = r.parent
          /\ u.value = r.value /\ Members(u) = Members(r) /\ Shaped(u, c, k)
      BY <1>2, <1>3, <3>1, PaintPaints, PaintShaped
    <3> QED
      BY <3>2
  <2>2. reds \subseteq {k}
    OBVIOUS
  <2> HIDE DEF u, reds
  <2>3. Balanced(u, g, Weights(u, k, k))
    <3>1. Weights(u, k, k) = Weights(r, Nil, Nil)
      <4> SUFFICES ASSUME NEW n \in Keys PROVE Weights(u, k, k)[n] = Weights(r, Nil, Nil)[n]
        BY DEF Weights
      <4>1. CASE n = k
        <5>1. /\ Weights(u, k, k)[k] = 0 + 1
              /\ Weights(r, Nil, Nil)[k] = 1 + 0
          BY <1>3, <1>5 DEF Weights
        <5> QED
          BY <4>1, <5>1
      <4>2. CASE n # k
        <5>1. n # Nil /\ (n \in u.red <=> n \in r.red)
          BY <2>1, <2>2, <4>2, KeyAssumption
        <5> QED
          BY <4>2, <5>1 DEF Weights
      <4> QED
        BY <4>1, <4>2
    <3> QED
      BY <1>2, <2>1, <3>1 DEF Balanced
  <2>4. RedFits(u, Nil, k)
    <3>1. \A n \in r.red : n \in Members(r) /\ r.parent[n] # Nil /\ r.parent[n] \notin r.red
      BY <1>2, KeyAssumption DEF RedFits, Members
    <3> QED
      BY <1>1, <1>3, <2>1, <2>2, <3>1 DEF RedFits
  <2>5. k \in c[k]
    BY <1>1, <1>3 DEF Spread, Sides
  <2>6. DeleteFits(u, c, g, k, k)
    BY <1>1, <2>1, <2>3, <2>4, <2>5 DEF DeleteFits
  <2> QED
    BY <1>5, <2>1, <2>6 DEF r, u, reds
<1> QED
  BY <1>4, <1>5

(* Remove ends: the node that counts for nothing is gone.                    *)
LEMMA UnlinkedFits ==
    ASSUME NEW t, NEW b, NEW h, NEW d, UnlinkFits(t, b, h, d)
    PROVE  \E c, g : RestFits(Unlinked(t, d), c, g)
<1> DEFINE r == Unlinked(t, d)
           c == OnlyChild(t, d)
           e == [m \in Keys \cup {Nil} |-> b[m] \ {d}]
           top == t.root = d /\ c \in t.red
           g == [m \in Keys \cup {Nil} |-> h[m] + (IF top /\ m = c THEN 1 ELSE 0)]
           w == Weights(r, Nil, Nil)
           W == Weights(t, d, Nil)
<1>1. /\ Linked(t) /\ Spread(t, b) /\ t \in Trees /\ Shaped(t, b, d)
      /\ Balanced(t, h, W) /\ RedFits(t, Nil, d) /\ d \in Members(t)
      /\ Nil \in {t.child["left"][d], t.child["right"][d]}
      /\ c \in t.red => t.parent[d] \notin t.red
  BY DEF UnlinkFits, Shaped, Linked
<1>2. Members(r) = Members(t) \ {d} /\ Shaped(r, e, Nil)
  BY <1>1, UnlinkShaped
<1>3. /\ d \in Keys /\ d # Nil /\ t.parent[d] # d /\ (t.parent[d] = Nil <=> d = t.root)
      /\ t.parent[d] \in Keys \cup {Nil}
  BY <1>1, Apart
<1>4. PICK o \in Sides : c = t.child[o][d] /\ t.child[Other(o)][d] = Nil
  BY <1>1 DEF OnlyChild, Sides, Other
<1>5. /\ c \in Keys \cup {Nil} /\ c # d
      /\ c # Nil => c \in Members(t) /\ t.parent[c] = d
  <2>1. /\ t.child[o][d] \in Keys \cup {Nil} /\ d # Nil
        /\ t.child[o][d] # Nil => t.child[o][d] \in Members(t) /\ t.child[o][d] # d
    BY <1>1, <1>4, Apart
  <2>2. t.child[o][d] # Nil => t.parent[t.child[o][d]] = d
    BY <1>1, <1>4 DEF Linked
  <2> QED
    BY <1>4, <2>1, <2>2
<1>6. /\ r \in Trees
      /\ \A m \in Keys : r.parent[m] = IF m = d THEN Nil
                                       ELSE IF m = c THEN t.parent[d] ELSE t.parent[m]
      /\ \A s \in Sides, m \in Keys :
            r.child[s][m] = IF m = d THEN Nil
                            ELSE IF t.child[s][m] = d THEN c ELSE t.child[s][m]
      /\ r.red = t.red \ ({d} \cup (IF t.root = d THEN {c} ELSE {}))
  BY <1>1, UnlinkUnlinks
<1>7. c \in t.red => c # Nil
  BY <1>1, KeyAssumption DEF RedFits, Members
<1> HIDE DEF r, c, e
<1>8. Balanced(r, g, w)
  <2>1. /\ \A m \in Keys \ {d} : w[m] = W[m] + (IF top /\ m = c THEN 1 ELSE 0)
        /\ W[d] = 0 /\ \A m \in Keys : W[m] \in {0, 1}
    <3>1. W[d] = 0 /\ \A m \in Keys : W[m] \in {0, 1}
      BY <1>3, KeyAssumption DEF Weights
    <3>2. ASSUME NEW m \in Keys \ {d} PROVE w[m] = W[m] + (IF top /\ m = c THEN 1 ELSE 0)
      <4>1. /\ m # Nil
            /\ w[m] = (IF m \in r.red THEN 0 ELSE 1)
            /\ W[m] = (IF m \in t.red THEN 0 ELSE 1)
        BY <3>2, KeyAssumption DEF Weights
      <4>2. m \in r.red <=> m \in t.red /\ ~(top /\ m = c)
        BY <1>6, <3>2
      <4>3. top /\ m = c => m \in t.red
        OBVIOUS
      <4> HIDE DEF top
      <4> QED
        BY <4>1, <4>2, <4>3
    <3> QED
      BY <3>1, <3>2
  <2> HIDE DEF w, W
  <2>2. /\ h \in [Keys \cup {Nil} -> Nat] /\ h[Nil] = 0
        /\ \A m \in Members(t), s \in Sides : h[m] = h[t.child[s][m]] + W[m]
    BY <1>1 DEF Balanced
  <2>3. g \in [Keys \cup {Nil} -> Nat] /\ g[Nil] = 0
    BY <1>7, <2>2
  <2>4. h[d] = h[c]
    <3>1. h[d] = h[c] + 0 /\ h[c] \in Nat
      BY <1>1, <1>4, <1>5, <2>1, <2>2
    <3> QED
      BY <3>1
  <2>5. ASSUME NEW m \in Members(r), NEW s \in Sides PROVE g[m] = g[r.child[s][m]] + w[m]
    <3> DEFINE y == t.child[s][m]
               z == r.child[s][m]
    <3>1. m \in Members(t) /\ m # d /\ m \in Keys /\ y \in Keys \cup {Nil}
          /\ (y # Nil => t.parent[y] = m) /\ y # t.root
      <4>1. m \in Members(t) /\ m # d
        BY <1>2
      <4>2. y # Nil => t.parent[y] = m /\ y # t.root
        BY <1>1, <4>1, Apart DEF Linked
      <4>3. t.root # Nil
        BY <1>1, <4>1, KeyAssumption DEF Linked, Members
      <4> QED
        BY <1>1, <4>1, <4>2, <4>3, Apart
    <3>2. h[m] = h[y] + W[m] /\ h[m] \in Nat /\ h[y] \in Nat /\ W[m] \in {0, 1}
      BY <2>1, <2>2, <3>1
    <3>3. z = IF y = d THEN c ELSE y
      BY <1>6, <3>1
    <3>4. h[z] = h[y] /\ z \in Keys \cup {Nil}
      BY <1>5, <2>4, <3>1, <3>3
    <3>5. ~(top /\ z = c)
      <4> SUFFICES ASSUME top, z = c PROVE FALSE
        OBVIOUS
      <4>1. y # d /\ y = c /\ t.parent[y] = d
        BY <1>5, <1>7, <3>1, <3>3
      <4> QED
        BY <1>7, <3>1, <4>1
    <3> HIDE DEF y, z
    <3>6. g[z] = h[z] + 0 /\ g[m] = h[m] + (IF top /\ m = c THEN 1 ELSE 0)
      BY <3>1, <3>4, <3>5
    <3>7. w[m] = W[m] + (IF top /\ m = c THEN 1 ELSE 0)
      BY <2>1, <3>1
    <3> HIDE DEF g, top
    <3>8. g[m] = g[z] + w[m]
      BY <3>2, <3>4, <3>6, <3>7
    <3> QED
      BY <3>8 DEF z
  <2> QED
    BY <2>3, <2>5 DEF Balanced
<1>9. RedFits(r, Nil, Nil)
  <2>1. r.red \subseteq Members(r)
    BY <1>1, <1>2, <1>6 DEF RedFits
  <2>2. ASSUME NEW n \in r.red
        PROVE  r.parent[n] # Nil /\ r.parent[n] \notin r.red
    <3>1. /\ n \in t.red /\ n \in Members(t) /\ n \in Keys /\ n # Nil /\ n # d
          /\ t.root = d => n # c
      BY <1>2, <1>6, <2>1, <2>2, KeyAssumption DEF Members
    <3>2. CASE n = c
      BY <1>1, <1>3, <1>6, <3>1, <3>2
    <3>3. CASE n # c
      <4>1. t.parent[n] # d
        <5> SUFFICES ASSUME t.parent[n] = d PROVE FALSE
          OBVIOUS
        <5>1. PICK s \in Sides : t.child[s][d] = n
          BY <1>1, <1>3, <3>1 DEF Linked
        <5>2. Sides = {o, Other(o)}
          BY <1>4, TwoSides
        <5> QED
          BY <1>4, <3>1, <3>3, <5>1, <5>2
      <4>2. t.parent[n] # Nil /\ t.parent[n] \notin t.red
        BY <1>1, <1>3, <3>1, <4>1 DEF RedFits
      <4> QED
        BY <1>6, <3>1, <3>3, <4>2
    <3> QED
      BY <3>2, <3>3
  <2> QED
    BY <2>1, <2>2 DEF RedFits
<1> HIDE DEF g
<1>10. RestFits(r, e, g)
  BY <1>2, <1>8, <1>9 DEF RestFits, w
<1> QED
  BY <1>10 DEF r

LEMMA EmptyFits ==
    Members(Empty) = {} /\ \E b, h : RestFits(Empty, b, h)
<1> DEFINE b == [n \in Keys \cup {Nil} |-> {}]
           h == [n \in Keys \cup {Nil} |-> 0]
<1>1. /\ Empty \in Trees /\ Empty.root = Nil
      /\ \A n \in Keys : Empty.parent[n] = Nil
      /\ \A n \in Keys, s \in Sides : Empty.child[s][n] = Nil
      /\ Empty.red = {}
  BY DEF Empty, Trees
<1>2. Members(Empty) = {}
  BY <1>1, KeyAssumption DEF Members
<1>3. Linked(Empty) /\ Spread(Empty, b) /\ Ordered(Empty, b, Nil)
  BY <1>1, <1>2 DEF Linked, Spread, Ordered
<1>4. Balanced(Empty, h, Weights(Empty, Nil, Nil)) /\ RedFits(Empty, Nil, Nil)
  BY <1>1, <1>2 DEF Balanced, RedFits
<1>5. RestFits(Empty, b, h)
  BY <1>3, <1>4 DEF RestFits, Shaped
<1> QED
  BY <1>2, <1>5

-----------------------------------------------------------------------------
(* The invariant.                                                          *)

(* The tree t as the call w leaves it between two of its rounds.              *)
Stands(t, w) ==
    \/ w = AtRest /\ \E b, h : RestFits(t, b, h)
    \/ \E i \in Keys : w = Inserting(i) /\ \E b, h : InsertFits(t, b, h, i)
    \/ \E a, d \in Keys : w = Deleting(a, d) /\ \E b, h : DeleteFits(t, b, h, a, d)
    \/ \E d \in Keys : w = Unlinking(d) /\ \E b, h : UnlinkFits(t, b, h, d)

(* A key that is put in is counted when the rebalancing is done, one that is  *)
(* taken out when it is unlinked.                                           *)
Counted(t, n, w) == n = Cardinality(Members(t)) - (IF w.phase = "insert" THEN 1 ELSE 0)

Inv == Stands(tree, doing) /\ Counted(tree, size, doing)

(* What the tree holds for its user.                                        *)
Held(t, w) == Members(t) \ {w.doomed}

SameContent ==
    /\ Held(tree', doing') = Held(tree, doing)
    /\ \A k \in Held(tree, doing) : tree'.value[k] = tree.value[k]

LEMMA Phases ==
    ASSUME NEW i, NEW d
    PROVE  /\ AtRest.phase = "rest" /\ AtRest.doomed = Nil
           /\ Inserting(i).phase = "insert" /\ Inserting(i).at = i /\ Inserting(i).doomed = Nil
           /\ Deleting(i, d).phase = "delete" /\ Deleting(i, d).at = i /\ Deleting(i, d).doomed = d
           /\ Unlinking(d).phase = "unlink" /\ Unlinking(d).doomed = d
BY DEF AtRest, Inserting, Deleting, Unlinking

(* The phase tells the disjunct.                                            *)
LEMMA StandsByPhase ==
    ASSUME NEW t, NEW w, Stands(t, w)
    PROVE  /\ w.phase = "rest" => w = AtRest /\ \E b, h : RestFits(t, b, h)
           /\ w.phase = "insert" =>
                 w.at \in Keys /\ w = Inserting(w.at) /\ \E b, h : InsertFits(t, b, h, w.at)
           /\ w.phase = "delete" =>
                 /\ w.at \in Keys /\ w.doomed \in Keys /\ w = Deleting(w.at, w.doomed)
                 /\ \E b, h : DeleteFits(t, b, h, w.at, w.doomed)
           /\ w.phase = "unlink" =>
                 /\ w.doomed \in Keys /\ w = Unlinking(w.doomed)
                 /\ \E b, h : UnlinkFits(t, b, h, w.doomed)
<1>1. CASE w = AtRest /\ \E b, h : RestFits(t, b, h)
  BY <1>1, Phases
<1>2. CASE \E i \in Keys : w = Inserting(i) /\ \E b, h : InsertFits(t, b, h, i)
  BY <1>2, Phases
<1>3. CASE \E a, d \in Keys : w = Deleting(a, d) /\ \E b, h : DeleteFits(t, b, h, a, d)
  BY <1>3, Phases
<1>4. CASE \E d \in Keys : w = Unlinking(d) /\ \E b, h : UnlinkFits(t, b, h, d)
  BY <1>4, Phases
<1> QED
  BY <1>1, <1>2, <1>3, <1>4 DEF Stands

LEMMA StandsShaped ==
    ASSUME NEW t, NEW w, Stands(t, w)
    PROVE  /\ \E b : Shaped(t, b, w.doomed)
           /\ t \in Trees /\ t.red \subseteq Members(t)
           /\ Members(t) \subseteq Keys /\ IsFiniteSet(Members(t))
           /\ Cardinality(Members(t)) \in 0 .. Cardinality(Keys)
<1>1. \E b : Shaped(t, b, w.doomed) /\ t.red \subseteq Members(t)
  <2>1. CASE w = AtRest /\ \E b, h : RestFits(t, b, h)
    BY <2>1, Phases DEF RestFits, RedFits
  <2>2. CASE \E i \in Keys : w = Inserting(i) /\ \E b, h : InsertFits(t, b, h, i)
    BY <2>2, Phases DEF InsertFits, RedFits
  <2>3. CASE \E a, d \in Keys : w = Deleting(a, d) /\ \E b, h : DeleteFits(t, b, h, a, d)
    BY <2>3, Phases DEF DeleteFits, RedFits
  <2>4. CASE \E d \in Keys : w = Unlinking(d) /\ \E b, h : UnlinkFits(t, b, h, d)
    BY <2>4, Phases DEF UnlinkFits, RedFits
  <2> QED
    BY <2>1, <2>2, <2>3, <2>4 DEF Stands
<1>2. t \in Trees
  BY <1>1 DEF Shaped, Linked
<1>3. Members(t) \subseteq Keys
  BY DEF Members
<1>4. IsFiniteSet(Members(t)) /\ Cardinality(Members(t)) \in 0 .. Cardinality(Keys)
  BY <1>3, KeyAssumption, FS_Subset, FS_CardinalityType
<1> QED
  BY <1>1, <1>2, <1>3, <1>4

-----------------------------------------------------------------------------
(* The calls begin.                                                        *)

LEMMA InitInv == Init => Inv
<1> SUFFICES ASSUME Init PROVE Inv
  OBVIOUS
<1>1. Members(tree) = {} /\ Stands(tree, doing)
  BY EmptyFits DEF Init, Stands
<1>2. Cardinality(Members(tree)) = 0
  BY <1>1, FS_EmptySet
<1> QED
  BY <1>1, <1>2, Phases DEF Init, Inv, Counted

LEMMA PutPresentStep ==
    ASSUME Inv, NEW k \in Keys, NEW v \in Values, PutPresent(k, v)
    PROVE  /\ Inv' /\ k \in Members(tree) /\ Members(tree') = Members(tree)
           /\ doing = AtRest /\ doing' = AtRest
           /\ \A m \in Keys : tree'.value[m] = IF m = k THEN v ELSE tree.value[m]
<1>1. doing = AtRest /\ doing' = doing /\ size' = size /\ Lookup(tree, k) = k
      /\ tree' = [tree EXCEPT !.value[k] = v]
  BY DEF PutPresent
<1>2. PICK b, h : RestFits(tree, b, h)
  BY <1>1, Phases, StandsByPhase DEF Inv
<1>3. Shaped(tree, b, Nil) /\ tree \in Trees
  BY <1>2 DEF RestFits, Shaped, Linked
<1>4. k \in Members(tree)
  BY <1>1, <1>3, LookupFinds, KeyAssumption
<1>5. /\ tree' \in Trees
      /\ tree'.root = tree.root /\ tree'.child = tree.child /\ tree'.parent = tree.parent
      /\ tree'.red = tree.red
      /\ \A m \in Keys : tree'.value[m] = IF m = k THEN v ELSE tree.value[m]
  BY <1>1, <1>3 DEF Trees
<1>6. Members(tree') = Members(tree) /\ Shaped(tree', b, Nil)
  BY <1>3, <1>5, SameLinks
<1>7. RestFits(tree', b, h)
  <2>1. Weights(tree', Nil, Nil) = Weights(tree, Nil, Nil)
    BY <1>5 DEF Weights
  <2> QED
    BY <1>2, <1>5, <1>6, <2>1 DEF RestFits, Balanced, RedFits
<1>8. Stands(tree', doing')
  BY <1>1, <1>7 DEF Stands
<1>9. Counted(tree', size', doing')
  BY <1>1, <1>6 DEF Inv, Counted
<1> QED
  BY <1>1, <1>4, <1>5, <1>6, <1>8, <1>9 DEF Inv

LEMMA PutAbsentStep ==
    ASSUME Inv, NEW k \in Keys, NEW v \in Values, PutAbsent(k, v)
    PROVE  /\ Inv' /\ k \notin Members(tree) /\ Members(tree') = Members(tree) \cup {k}
           /\ doing = AtRest /\ doing' = Inserting(k)
           /\ \A m \in Keys : tree'.value[m] = IF m = k THEN v ELSE tree.value[m]
<1>1. doing = AtRest /\ doing' = Inserting(k) /\ size' = size /\ Lookup(tree, k) = Nil
      /\ tree' = Attach(tree, k, v)
  BY DEF PutAbsent
<1>2. PICK b, h : RestFits(tree, b, h)
  BY <1>1, Phases, StandsByPhase DEF Inv
<1>3. Shaped(tree, b, Nil)
  BY <1>2 DEF RestFits
<1>4. k \notin Members(tree)
  BY <1>1, <1>3, LookupFinds, KeyAssumption
<1>5. /\ Members(tree') = Members(tree) \cup {k}
      /\ \A m \in Keys : tree'.value[m] = IF m = k THEN v ELSE tree.value[m]
  BY <1>1, <1>3, <1>4, AttachAttaches, AttachShaped
<1>6. \E c, g : InsertFits(tree', c, g, k)
  BY <1>1, <1>2, <1>4, AttachFits
<1>7. Stands(tree', doing')
  BY <1>1, <1>6 DEF Stands
<1>8. Counted(tree', size', doing')
  <2>1. /\ IsFiniteSet(Members(tree)) /\ Cardinality(Members(tree)) \in Nat
    BY StandsShaped, FS_CardinalityType DEF Inv
  <2>2. Cardinality(Members(tree')) = Cardinality(Members(tree)) + 1
    BY <1>4, <1>5, <2>1, FS_AddElement
  <2>3. size = Cardinality(Members(tree)) - 0
    BY <1>1, Phases DEF Inv, Counted
  <2>4. size' = Cardinality(Members(tree')) - 1
    BY <1>1, <2>1, <2>2, <2>3
  <2> QED
    BY <1>1, <2>4, Phases DEF Counted
<1> QED
  BY <1>1, <1>4, <1>5, <1>7, <1>8 DEF Inv

LEMMA RemoveStep ==
    ASSUME Inv, NEW k \in Keys, Remove(k)
    PROVE  /\ Inv' /\ k \in Members(tree) /\ Members(tree') = Members(tree)
           /\ doing = AtRest /\ doing'.doomed = k
           /\ tree'.value = tree.value
<1> DEFINE r == Doomed(tree, k)
           reds == IF OnlyChild(r, k) \in r.red THEN {k} ELSE {}
           u == Paint(r, reds, {})
<1>1. /\ doing = AtRest /\ size' = size /\ Lookup(tree, k) = k
      /\ k \in r.red => tree' = r /\ doing' = Unlinking(k)
      /\ k \notin r.red => tree' = u /\ doing' = Deleting(k, k)
  BY DEF Remove, IsRed
<1>2. PICK b, h : RestFits(tree, b, h)
  BY <1>1, Phases, StandsByPhase DEF Inv
<1>3. Shaped(tree, b, Nil)
  BY <1>2 DEF RestFits
<1>4. k \in Members(tree)
  BY <1>1, <1>3, LookupFinds, KeyAssumption
<1>5. Members(r) = Members(tree) /\ r.value = tree.value
  BY <1>2, <1>4, DoomedStands
<1>6. PICK c, g : /\ k \in r.red => UnlinkFits(r, c, g, k)
                  /\ k \notin r.red => /\ DeleteFits(u, c, g, k, k)
                                       /\ Members(u) = Members(r) /\ u.value = r.value
  BY <1>2, <1>4, DoomedFits
<1> HIDE DEF r, u
<1>7. /\ Stands(tree', doing') /\ Members(tree') = Members(tree) /\ tree'.value = tree.value
      /\ doing'.doomed = k /\ doing'.phase # "insert"
  <2>1. CASE k \in r.red
    BY <1>1, <1>5, <1>6, <2>1, Phases DEF Stands
  <2>2. CASE k \notin r.red
    BY <1>1, <1>5, <1>6, <2>2, Phases DEF Stands
  <2> QED
    BY <2>1, <2>2
<1>8. Counted(tree', size', doing')
  <2>1. doing.phase # "insert"
    BY <1>1, Phases
  <2> QED
    BY <1>1, <1>7, <2>1 DEF Inv, Counted
<1> QED
  BY <1>1, <1>4, <1>7, <1>8 DEF Inv

LEMMA ClearStep ==
    ASSUME Inv, Clear
    PROVE  Inv' /\ Members(tree') = {} /\ doing' = AtRest
<1>1. doing = AtRest /\ doing' = doing /\ tree' = Empty /\ size' = 0
  BY DEF Clear
<1>2. Members(tree') = {} /\ Stands(tree', doing')
  BY <1>1, EmptyFits DEF Stands
<1>3. Cardinality(Members(tree')) = 0
  BY <1>2, FS_EmptySet
<1> QED
  BY <1>1, <1>2, <1>3, Phases DEF Inv, Counted

-----------------------------------------------------------------------------
(* The rounds of the rebalancing.                                           *)

(* The number of keys is counted, once an insertion is done.                  *)
LEMMA InsertDoneStep ==
    ASSUME Inv, doing.phase = "insert", NEW u, InsertDone(u),
           \E b, h : RestFits(u, b, h), Members(u) = Members(tree), u.value = tree.value
    PROVE  Inv' /\ SameContent /\ doing'.phase = "rest"
<1>1. tree' = u /\ size' = size + 1 /\ doing' = AtRest
  BY DEF InsertDone
<1>2. doing.doomed = Nil /\ doing'.doomed = Nil /\ doing'.phase = "rest"
  BY <1>1, Phases, StandsByPhase DEF Inv
<1>3. Stands(tree', doing')
  BY <1>1 DEF Stands
<1>4. Counted(tree', size', doing')
  <2>1. Cardinality(Members(tree)) \in Nat
    BY StandsShaped, KeyAssumption, FS_CardinalityType DEF Inv
  <2>2. size = Cardinality(Members(tree)) - 1
    BY DEF Inv, Counted
  <2> QED
    BY <1>1, <1>2, <2>1, <2>2 DEF Counted
<1> QED
  BY <1>1, <1>2, <1>3, <1>4 DEF Inv, SameContent, Held

LEMMA InsertAtRootStep ==
    ASSUME Inv, InsertAtRoot PROVE Inv' /\ SameContent /\ doing'.phase = "rest"
<1> DEFINE i == doing.at
           u == Paint(tree, {}, {i})
<1>1. doing.phase = "insert" /\ tree.parent[i] = Nil /\ InsertDone(u)
  BY DEF InsertAtRoot
<1>2. \E b, h : InsertFits(tree, b, h, i)
  BY <1>1, StandsByPhase DEF Inv
<1>3. \E b, h : RestFits(u, b, h)
  BY <1>1, <1>2, InsertAtRootFits
<1>4. Members(u) = Members(tree) /\ u.value = tree.value
  <2>1. tree \in Trees /\ {} \ {i} \subseteq Keys
    BY StandsShaped DEF Inv
  <2> QED
    BY <2>1, PaintPaints DEF Members
<1> HIDE DEF u
<1> QED
  BY <1>1, <1>3, <1>4, InsertDoneStep

LEMMA InsertBelowBlackStep ==
    ASSUME Inv, InsertBelowBlack PROVE Inv' /\ SameContent /\ doing'.phase = "rest"
<1> DEFINE i == doing.at
<1>1. /\ doing.phase = "insert" /\ tree.parent[i] # Nil /\ tree.parent[i] \notin tree.red
      /\ InsertDone(tree)
  BY DEF InsertBelowBlack, IsRed
<1>2. \E b, h : InsertFits(tree, b, h, i)
  BY <1>1, StandsByPhase DEF Inv
<1>3. \E b, h : RestFits(tree, b, h)
  BY <1>1, <1>2, InsertBelowBlackFits
<1> QED
  BY <1>1, <1>3, InsertDoneStep

LEMMA UncleIsSibling ==
    ASSUME NEW b, NEW h, NEW i, InsertFits(tree, b, h, i), tree.parent[i] \in tree.red
    PROVE  Uncle(i) = Sibling(tree, tree.parent[i])
BY RedParentStands DEF Uncle, Grandparent

LEMMA InsertRecolourStep ==
    ASSUME Inv, InsertRecolour
    PROVE  /\ Inv' /\ SameContent
           /\ doing.phase = "insert" /\ doing'.at = tree.parent[tree.parent[doing.at]]
           /\ tree'.parent = tree.parent
<1> DEFINE i == doing.at
           p == tree.parent[i]
           g == tree.parent[p]
           u == Sibling(tree, p)
           r == Paint(tree, {g}, {p, u})
<1>1. /\ doing.phase = "insert" /\ p \in tree.red /\ Uncle(i) \in tree.red
      /\ tree' = Paint(tree, {g}, {p, Uncle(i)}) /\ doing' = Inserting(g) /\ size' = size
  BY DEF InsertRecolour, HasRedParent, IsRed, Grandparent
<1>2. PICK b, h : InsertFits(tree, b, h, i)
  BY <1>1, StandsByPhase DEF Inv
<1>3. Uncle(i) = u
  BY <1>1, <1>2, UncleIsSibling
<1>4. \E e : InsertFits(r, b, e, g)
  BY <1>1, <1>2, <1>3, InsertRecolourFits
<1>5. g \in Keys
  BY <1>1, <1>2, RedParentApart
<1>6. Members(r) = Members(tree) /\ r.value = tree.value /\ r.parent = tree.parent
  <2>1. {g} \ {p, u} \subseteq Keys
    BY <1>5
  <2>2. tree \in Trees
    BY StandsShaped DEF Inv
  <2> QED
    BY <2>1, <2>2, PaintPaints DEF Members
<1> HIDE DEF r, g, u
<1>7. tree' = r
  BY <1>1, <1>3 DEF r
<1>8. Stands(tree', doing')
  BY <1>1, <1>4, <1>5, <1>7 DEF Stands
<1>9. doing'.phase = "insert" /\ doing'.doomed = Nil /\ doing.doomed = Nil /\ doing'.at = g
  BY <1>1, Phases, StandsByPhase DEF Inv
<1>10. Counted(tree', size', doing')
  BY <1>1, <1>6, <1>7, <1>9 DEF Inv, Counted
<1> QED
  BY <1>1, <1>6, <1>7, <1>8, <1>9, <1>10 DEF Inv, SameContent, Held, g

LEMMA InsertRotateStep ==
    ASSUME Inv, InsertRotate PROVE Inv' /\ SameContent /\ doing'.phase = "rest"
<1> DEFINE i == doing.at
           p == tree.parent[i]
           r == StraightenAndLift(tree, i)
<1>1. /\ doing.phase = "insert" /\ p \in tree.red /\ Uncle(i) \notin tree.red
      /\ InsertDone(r)
  BY DEF InsertRotate, HasRedParent, IsRed
<1>2. PICK b, h : InsertFits(tree, b, h, i)
  BY <1>1, StandsByPhase DEF Inv
<1>3. Sibling(tree, p) \notin tree.red
  BY <1>1, <1>2, UncleIsSibling
<1>4. /\ \E c, e : RestFits(r, c, e)
      /\ Members(r) = Members(tree) /\ r.value = tree.value
  BY <1>1, <1>2, <1>3, StraightenAndLiftFits
<1> HIDE DEF r
<1> QED
  BY <1>1, <1>4, InsertDoneStep

(* A round of a deletion that is the last one.                               *)
LEMMA DeleteDoneStep ==
    ASSUME Inv, doing.phase = "delete", NEW u, DeleteDone(u),
           \E b, h : UnlinkFits(u, b, h, doing.doomed),
           Members(u) = Members(tree), u.value = tree.value
    PROVE  Inv' /\ SameContent /\ doing'.phase = "unlink"
<1>1. tree' = u /\ size' = size /\ doing' = Unlinking(doing.doomed)
  BY DEF DeleteDone
<1>2. doing.doomed \in Keys /\ doing'.doomed = doing.doomed /\ doing'.phase = "unlink"
  BY <1>1, Phases, StandsByPhase DEF Inv
<1>3. Stands(tree', doing')
  BY <1>1, <1>2 DEF Stands
<1>4. Counted(tree', size', doing')
  BY <1>1, <1>2 DEF Inv, Counted
<1> QED
  BY <1>1, <1>2, <1>3, <1>4 DEF Inv, SameContent, Held

LEMMA DeleteAtRootStep ==
    ASSUME Inv, DeleteAtRoot PROVE Inv' /\ SameContent /\ doing'.phase = "unlink"
<1>1. doing.phase = "delete" /\ tree.parent[doing.at] = Nil /\ DeleteDone(tree)
  BY DEF DeleteAtRoot
<1>2. PICK b, h : DeleteFits(tree, b, h, doing.at, doing.doomed)
  BY <1>1, StandsByPhase DEF Inv
<1>3. \E g : UnlinkFits(tree, b, g, doing.doomed)
  BY <1>1, <1>2, RootFits
<1> QED
  BY <1>1, <1>3, DeleteDoneStep

(* The tree after deleteCase2.                                              *)
LEMMA Lifted ==
    ASSUME Inv, doing.phase = "delete", tree.parent[doing.at] # Nil
    PROVE  LET t == LiftRedSibling(tree, doing.at)
           IN  /\ \E c, g : DeleteFits(t, c, g, doing.at, doing.doomed)
               /\ Members(t) = Members(tree) /\ t.value = tree.value /\ t \in Trees
               /\ t.parent[doing.at] = tree.parent[doing.at]
               /\ tree.parent[doing.at] \in Keys
               /\ Sibling(t, doing.at) \in Keys
               /\ Sibling(t, doing.at) \notin t.red
               /\ tree.parent[doing.at] \notin t.red => t = tree
<1> DEFINE t == LiftRedSibling(tree, doing.at)
<1>1. PICK b, h : DeleteFits(tree, b, h, doing.at, doing.doomed)
  BY StandsByPhase DEF Inv
<1>2. PICK c, g : /\ DeleteFits(t, c, g, doing.at, doing.doomed)
                  /\ Members(t) = Members(tree) /\ t.value = tree.value
                  /\ t.parent[doing.at] = tree.parent[doing.at]
                  /\ Sibling(t, doing.at) \notin t.red
                  /\ tree.parent[doing.at] \notin t.red => t = tree
  BY <1>1, LiftRedSiblingFits
<1> HIDE DEF t
<1>3. t \in Trees
  BY <1>2 DEF DeleteFits, Shaped, Linked
<1>4. t.parent[doing.at] \in Keys /\ Sibling(t, doing.at) \in Keys
  BY <1>2, SiblingStands
<1> QED
  BY <1>2, <1>3, <1>4 DEF t

LEMMA DeleteRecolourStep ==
    ASSUME Inv, DeleteRecolour
    PROVE  /\ Inv' /\ SameContent
           /\ doing.phase = "delete" /\ doing'.at = tree.parent[doing.at]
           /\ tree'.parent = tree.parent
<1> DEFINE a == doing.at
           d == doing.doomed
           p == tree.parent[a]
           t == LiftRedSibling(tree, a)
           s == Sibling(t, a)
           r == Paint(t, {s}, {})
<1>1. /\ doing.phase = "delete" /\ p # Nil /\ p \notin t.red /\ BlackFamily(t, s)
      /\ tree' = r /\ doing' = Deleting(t.parent[a], d) /\ size' = size
  BY DEF DeleteRecolour, IsRed, Shortened
<1>2. /\ Members(t) = Members(tree) /\ t.value = tree.value /\ t \in Trees
      /\ t.parent[a] = p /\ p \in Keys /\ s \in Keys /\ t = tree
  BY <1>1, Lifted
<1>3. PICK c, g : DeleteFits(t, c, g, a, d)
  BY <1>1, Lifted
<1> HIDE DEF t
<1>4. \E e : DeleteFits(r, c, e, p, d)
  BY <1>1, <1>2, <1>3, BlackFamilyFits
<1>5. Members(r) = Members(t) /\ r.value = t.value /\ r.parent = t.parent
  BY <1>2, PaintPaints DEF Members
<1>6. d \in Keys /\ doing'.phase = "delete" /\ doing'.doomed = d /\ doing'.at = p
  BY <1>1, <1>2, Phases, StandsByPhase DEF Inv
<1> HIDE DEF r, p
<1>7. Stands(tree', doing')
  BY <1>1, <1>2, <1>4, <1>6 DEF Stands
<1>8. Counted(tree', size', doing')
  BY <1>1, <1>2, <1>5, <1>6 DEF Inv, Counted
<1> QED
  BY <1>1, <1>2, <1>5, <1>6, <1>7, <1>8 DEF Inv, SameContent, Held, p

LEMMA DeleteBlackenParentStep ==
    ASSUME Inv, DeleteBlackenParent PROVE Inv' /\ SameContent /\ doing'.phase = "unlink"
<1> DEFINE a == doing.at
           d == doing.doomed
           p == tree.parent[a]
           t == LiftRedSibling(tree, a)
           s == Sibling(t, a)
           r == Paint(t, {s}, {p})
<1>1. /\ doing.phase = "delete" /\ p # Nil /\ p \in t.red /\ BlackFamily(t, s)
      /\ DeleteDone(r)
  BY DEF DeleteBlackenParent, IsRed
<1>2. /\ Members(t) = Members(tree) /\ t.value = tree.value /\ t \in Trees
      /\ t.parent[a] = p /\ s \in Keys
  BY <1>1, Lifted
<1>3. PICK c, g : DeleteFits(t, c, g, a, d)
  BY <1>1, Lifted
<1> HIDE DEF t
<1>4. \E e : UnlinkFits(r, c, e, d)
  BY <1>1, <1>2, <1>3, BlackFamilyFits
<1>5. Members(r) = Members(t) /\ r.value = t.value
  <2>1. {s} \ {p} \subseteq Keys
    BY <1>2
  <2> QED
    BY <1>2, <2>1, PaintPaints DEF Members
<1> HIDE DEF r
<1> QED
  BY <1>1, <1>2, <1>4, <1>5, DeleteDoneStep

LEMMA DeleteRotateStep ==
    ASSUME Inv, DeleteRotate PROVE Inv' /\ SameContent /\ doing'.phase = "unlink"
<1> DEFINE a == doing.at
           d == doing.doomed
           t == LiftRedSibling(tree, a)
           s == Sibling(t, a)
           u == TurnSibling(t, a)
           r == LiftSibling(u, a)
<1>1. /\ doing.phase = "delete" /\ tree.parent[a] # Nil /\ ~ BlackFamily(t, s)
      /\ DeleteDone(r)
  BY DEF DeleteRotate
<1>2. /\ Members(t) = Members(tree) /\ t.value = tree.value /\ s \notin t.red
      /\ t.parent[a] # Nil
  BY <1>1, Lifted
<1>3. PICK b, h : DeleteFits(t, b, h, a, d)
  BY <1>1, Lifted
<1> HIDE DEF t
<1>4. PICK c, g : /\ DeleteFits(u, c, g, a, d)
                  /\ Members(u) = Members(t) /\ u.value = t.value
                  /\ u.parent[a] = t.parent[a]
                  /\ Sibling(u, a) \notin u.red
                  /\ u.child[Other(SideOf(u, a))][Sibling(u, a)] \in u.red
  BY <1>1, <1>2, <1>3, TurnSiblingFits
<1> HIDE DEF u
<1>5. \E e, f : UnlinkFits(r, e, f, d) /\ Members(r) = Members(u) /\ r.value = u.value
  BY <1>2, <1>4, LiftSiblingFits
<1> HIDE DEF r
<1> QED
  BY <1>1, <1>2, <1>4, <1>5, DeleteDoneStep

LEMMA UnlinkStep ==
    ASSUME Inv, Unlink PROVE Inv' /\ SameContent /\ doing'.phase = "rest"
<1> DEFINE d == doing.doomed
<1>1. doing.phase = "unlink" /\ tree' = Unlinked(tree, d) /\ size' = size - 1 /\ doing' = AtRest
  BY DEF Unlink
<1>2. PICK b, h : UnlinkFits(tree, b, h, d)
  BY <1>1, StandsByPhase DEF Inv
<1>3. /\ Shaped(tree, b, d) /\ Linked(tree) /\ Spread(tree, b) /\ d \in Members(tree)
      /\ Nil \in {tree.child["left"][d], tree.child["right"][d]}
  BY <1>2 DEF UnlinkFits, Shaped
<1>4. /\ Members(tree') = Members(tree) \ {d}
      /\ \A m \in Keys : tree'.value[m] = IF m = d THEN Nil ELSE tree.value[m]
  <2> DEFINE r == Unlinked(tree, d)
  <2>1. Members(r) = Members(tree) \ {d}
    BY <1>3, UnlinkShaped
  <2>2. \A m \in Keys : r.value[m] = IF m = d THEN Nil ELSE tree.value[m]
    BY <1>3, UnlinkUnlinks
  <2> HIDE DEF r, d
  <2> QED
    BY <1>1, <2>1, <2>2 DEF r
<1>5. Stands(tree', doing')
  BY <1>1, <1>2, UnlinkedFits DEF Stands
<1>6. doing'.doomed = Nil /\ doing'.phase = "rest"
  BY <1>1, Phases
<1>7. Counted(tree', size', doing')
  <2>1. IsFiniteSet(Members(tree)) /\ Cardinality(Members(tree)) \in Nat
    BY StandsShaped, FS_CardinalityType DEF Inv
  <2>2. Cardinality(Members(tree')) = Cardinality(Members(tree)) - 1
    BY <1>3, <1>4, <2>1, FS_RemoveElement
  <2>3. size = Cardinality(Members(tree)) - 0
    BY <1>1 DEF Inv, Counted
  <2>4. size' = Cardinality(Members(tree')) - 0
    BY <1>1, <2>1, <2>2, <2>3
  <2> QED
    BY <1>6, <2>4 DEF Counted
<1>8. SameContent
  <2>1. Held(tree, doing) = Members(tree) \ {d} /\ Held(tree', doing') = Members(tree')
    BY <1>6, KeyAssumption DEF Held, Members
  <2>2. \A k \in Held(tree, doing) : tree'.value[k] = tree.value[k]
    BY <1>4, <2>1 DEF Members
  <2> QED
    BY <1>4, <2>1, <2>2 DEF SameContent
<1> QED
  BY <1>5, <1>6, <1>7, <1>8 DEF Inv

(* Every round keeps the invariant and what the tree holds.                   *)
LEMMA RebalanceStep ==
    ASSUME Inv, Rebalance PROVE Inv' /\ SameContent
BY InsertAtRootStep, InsertBelowBlackStep, InsertRecolourStep, InsertRotateStep,
   DeleteAtRootStep, DeleteRecolourStep, DeleteBlackenParentStep, DeleteRotateStep,
   UnlinkStep DEF Rebalance

LEMMA InvStep == Inv /\ [Next]_vars => Inv'
<1> SUFFICES ASSUME Inv, [Next]_vars PROVE Inv'
  OBVIOUS
<1>1. CASE Rebalance
  BY <1>1, RebalanceStep
<1>2. CASE Call
  BY <1>2, PutPresentStep, PutAbsentStep, RemoveStep, ClearStep DEF Call
<1>3. CASE UNCHANGED vars
  BY <1>3 DEF vars, Inv
<1> QED
  BY <1>1, <1>2, <1>3 DEF Next

(* Between two rounds of any call the nodes form a search tree, the only flaw   *)
(* of which is the one that the phase of the call allows, and size counts the  *)
(* keys that are in it (Put, Remove and the insertCases and deleteCases of      *)
(* redblacktree.go).                                                       *)
THEOREM StandsAlways == Spec => []Inv
BY InitInv, InvStep, PTL DEF Spec

-----------------------------------------------------------------------------
(* What follows from the invariant.                                         *)

LEMMA NodesAreMembers ==
    ASSUME NEW t, NEW w, Stands(t, w) PROVE Nodes(t) = Members(t)
<1>1. PICK b : Shaped(t, b, w.doomed)
  BY StandsShaped
<1>2. {InOrder(t)[i] : i \in DOMAIN InOrder(t)} = Members(t)
  BY <1>1, WalkIsAscending
<1> QED
  BY <1>2 DEF Nodes

LEMMA InvTypeOK == Inv => TypeOK
<1> SUFFICES ASSUME Inv PROVE TypeOK
  OBVIOUS
<1>1. tree \in Trees /\ Cardinality(Members(tree)) \in 0 .. Cardinality(Keys)
      /\ Cardinality(Keys) \in Nat /\ IsFiniteSet(Members(tree))
  BY StandsShaped, KeyAssumption, FS_CardinalityType DEF Inv
<1>2. doing \in {AtRest} \cup {Inserting(n) : n \in Keys}
                \cup {Deleting(n, d) : n, d \in Keys} \cup {Unlinking(d) : d \in Keys}
  BY DEF Inv, Stands
<1>3. size \in 0 .. Cardinality(Keys)
  <2>1. CASE doing.phase = "insert"
    <3>1. doing.at \in Members(tree)
      <4>1. \E b, h : InsertFits(tree, b, h, doing.at)
        BY <2>1, StandsByPhase DEF Inv
      <4> QED
        BY <4>1 DEF InsertFits, RedFits
    <3>2. Cardinality(Members(tree)) # 0
      BY <1>1, <3>1, FS_EmptySet
    <3>3. size = Cardinality(Members(tree)) - 1
      BY <2>1 DEF Inv, Counted
    <3> QED
      BY <1>1, <3>2, <3>3
  <2>2. CASE doing.phase # "insert"
    <3>1. size = Cardinality(Members(tree)) - 0
      BY <2>2 DEF Inv, Counted
    <3> QED
      BY <1>1, <3>1
  <2> QED
    BY <2>1, <2>2
<1> QED
  BY <1>1, <1>2, <1>3 DEF TypeOK

LEMMA InvOrdered == Inv => OrderedAndLinked
<1> SUFFICES ASSUME Inv PROVE OrderedAndLinked
  OBVIOUS
<1>1. PICK b : Shaped(tree, b, doing.doomed)
  BY StandsShaped DEF Inv
<1>2. Linked(tree) /\ Nodes(tree) = Members(tree)
  BY <1>1, NodesAreMembers DEF Inv, Shaped
<1> DEFINE walk == InOrder(tree)
<1>3. \A i, j \in DOMAIN walk :
              i < j /\ doing.doomed \notin {walk[i], walk[j]} => walk[i] < walk[j]
  BY <1>1, WalkIsAscending
<1> HIDE DEF walk
<1>4. /\ tree.root # Nil => tree.parent[tree.root] = Nil
      /\ \A n \in Nodes(tree), s \in Sides :
              tree.child[s][n] # Nil => tree.parent[tree.child[s][n]] = n
  BY <1>2 DEF Linked
<1> QED
  BY <1>3, <1>4 DEF OrderedAndLinked, walk

LEMMA InvLookups == Inv => LookupsAgree
<1> SUFFICES ASSUME Inv, doing = AtRest PROVE LookupsAgree
  BY DEF LookupsAgree
<1>1. PICK b, h : RestFits(tree, b, h)
  BY Phases, StandsByPhase DEF Inv
<1> DEFINE keys == Nodes(tree)
<1>2. Shaped(tree, b, Nil) /\ keys = Members(tree) /\ keys \subseteq Keys
  BY <1>1, NodesAreMembers DEF Inv, RestFits, Members
<1> HIDE DEF keys
<1>3. size = Cardinality(keys)
  <2>1. size = Cardinality(Members(tree)) - 0 /\ Cardinality(Members(tree)) \in Nat
    BY Phases, StandsShaped, FS_CardinalityType DEF Inv, Counted
  <2> QED
    BY <1>2, <2>1
<1>4. ASSUME NEW k \in Keys
      PROVE  /\ (Lookup(tree, k) = k) = (k \in keys)
             /\ LET floor == Nearest(tree, "left", k)
                    ceiling == Nearest(tree, "right", k)
                IN  /\ IF \A j \in keys : j > k THEN floor = Nil
                       ELSE /\ floor \in keys /\ floor <= k
                            /\ \A j \in keys : j <= k => j <= floor
                    /\ IF \A j \in keys : j < k THEN ceiling = Nil
                       ELSE /\ ceiling \in keys /\ ceiling >= k
                            /\ \A j \in keys : j >= k => j >= ceiling
  <2>1. (Lookup(tree, k) = k) = (k \in keys)
    <3>1. Lookup(tree, k) = IF k \in Members(tree) THEN k ELSE Nil
      BY <1>2, LookupFinds
    <3> QED
      BY <1>2, <3>1, KeyAssumption
  <2>2. k \in Int /\ \A j \in keys : j \in Int
    BY <1>2, KeyAssumption
  <2> DEFINE floor == Nearest(tree, "left", k)
             ceiling == Nearest(tree, "right", k)
             below == {j \in Members(tree) : j = k \/ Beside("left", j, k)}
             above == {j \in Members(tree) : j = k \/ Beside("right", j, k)}
  <2>3. "left" \in Sides /\ "right" \in Sides
    BY DEF Sides
  <2>4. /\ below = {} => floor = Nil
        /\ below # {} => floor \in below /\ \A j \in below : j = floor \/ Beside("left", j, floor)
    BY <1>2, <2>3, NearestIsNearest
  <2>5. /\ above = {} => ceiling = Nil
        /\ above # {} => ceiling \in above /\ \A j \in above : j = ceiling \/ Beside("right", j, ceiling)
    BY <1>2, <2>3, NearestIsNearest
  <2> HIDE DEF floor, ceiling
  <2>6. below = {j \in keys : j <= k} /\ above = {j \in keys : j >= k}
    <3>1. \A j : (Beside("left", j, k) <=> j < k) /\ (Beside("right", j, k) <=> k < j)
      BY DEF Beside
    <3>2. \A j \in Members(tree) : (j <= k <=> j = k \/ j < k) /\ (j >= k <=> j = k \/ k < j)
      BY <1>2, <2>2
    <3>3. below = {j \in keys : j <= k}
      BY <1>2, <3>1, <3>2
    <3>4. above = {j \in keys : j >= k}
      BY <1>2, <3>1, <3>2
    <3> QED
      BY <3>3, <3>4
  <2> HIDE DEF below, above
  <2>7. IF \A j \in keys : j > k THEN floor = Nil
        ELSE /\ floor \in keys /\ floor <= k
             /\ \A j \in keys : j <= k => j <= floor
    <3>1. (\A j \in keys : j > k) <=> below = {}
      BY <2>2, <2>6
    <3>2. below # {} => /\ floor \in keys /\ floor <= k
                        /\ \A j \in keys : j <= k => j = floor \/ j < floor
      BY <2>4, <2>6 DEF Beside
    <3>3. below # {} => \A j \in keys : j <= k => j <= floor
      BY <2>2, <3>2
    <3> QED
      BY <2>4, <3>1, <3>2, <3>3
  <2>8. IF \A j \in keys : j < k THEN ceiling = Nil
        ELSE /\ ceiling \in keys /\ ceiling >= k
             /\ \A j \in keys : j >= k => j >= ceiling
    <3>1. (\A j \in keys : j < k) <=> above = {}
      BY <2>2, <2>6
    <3>2. above # {} => /\ ceiling \in keys /\ ceiling >= k
                        /\ \A j \in keys : j >= k => j = ceiling \/ ceiling < j
      BY <2>5, <2>6 DEF Beside
    <3>3. above # {} => \A j \in keys : j >= k => j >= ceiling
      BY <2>2, <3>2
    <3> QED
      BY <2>5, <3>1, <3>2, <3>3
  <2> QED
    BY <2>1, <2>7, <2>8 DEF floor, ceiling
<1> QED
  BY <1>3, <1>4 DEF LookupsAgree, keys

(* The black height that the model computes is the h of the invariant.        *)
LEMMA BlackHeightIs ==
    ASSUME NEW b, NEW d, Shaped(tree, b, d), NEW h,
           Balanced(tree, h, Weights(tree, doing.doomed, IF doing.phase = "delete" THEN doing.at ELSE Nil))
    PROVE  BlackHeight = h[tree.root]
<1> DEFINE S == Keys \cup {Nil}
           Own(n) == (IF IsRed(tree, n) \/ n = doing.doomed THEN 0 ELSE 1)
                        + (IF doing.phase = "delete" /\ n = doing.at THEN 1 ELSE 0)
           Step(f, n) == IF n = Nil THEN 0
                         ELSE IF f[tree.child["left"][n]] # f[tree.child["right"][n]]
                                 \/ f[tree.child["left"][n]] = Uneven THEN Uneven
                         ELSE f[tree.child["left"][n]]
                              + (IF IsRed(tree, n) \/ n = doing.doomed THEN 0 ELSE 1)
                              + (IF doing.phase = "delete" /\ n = doing.at THEN 1 ELSE 0)
           F == [S -> Int]
           step == [f \in F |-> [n \in S |-> Step(f, n)]]
           height == CHOOSE f : f = [n \in S |-> Step(f, n)]
           w == Weights(tree, doing.doomed, IF doing.phase = "delete" THEN doing.at ELSE Nil)
<1>1. Linked(tree) /\ Spread(tree, b) /\ tree \in Trees
  BY DEF Shaped, Linked
<1>2. \A n \in Keys : tree.child["left"][n] \in S /\ tree.child["right"][n] \in S
  BY <1>1 DEF Trees, Sides
<1>3. F # {} /\ \A f, g \in F : (\A x \in S : f[x] = g[x]) => f = g
  <2>1. 0 \in Int
    OBVIOUS
  <2> QED
    BY <2>1, Extensional
<1>4. \A f \in F : step[f] \in F
  BY <1>2 DEF Uneven
<1>5. ASSUME NEW f \in F, NEW g \in F, NEW n \in S,
             n \in Keys => \A s \in Sides : tree.child[s][n] \in S => f[tree.child[s][n]] = g[tree.child[s][n]]
      PROVE  step[f][n] = step[g][n]
  BY <1>2, <1>5 DEF Sides
<1>6. Downward(tree, S, F, step)
  <2> HIDE DEF F, step
  <2> QED
    BY <1>3, <1>4, <1>5 DEF Downward
<1> HIDE DEF step, F
<1>7. PICK f \in F : f = step[f]
  BY <1>1, <1>6, DownRecursion
<1>8. height = [n \in S |-> Step(height, n)]
  <2>1. f = [n \in S |-> Step(f, n)]
    BY <1>7 DEF step
  <2> QED
    BY <2>1
<1>9. BlackHeight = height[tree.root]
  BY DEF BlackHeight
<1> HIDE DEF height
<1>10. /\ h \in [Keys \cup {Nil} -> Nat] /\ h[Nil] = 0
       /\ \A n \in Members(tree), s \in Sides : h[n] = h[tree.child[s][n]] + w[n]
  BY DEF Balanced
<1> DEFINE P == {n \in Members(tree) \cup {Nil} : height[n] = h[n]}
<1>11. Nil \in P
  BY <1>8, <1>10
<1>12. ASSUME NEW n \in Members(tree), \A s \in Sides : tree.child[s][n] \in P
       PROVE  n \in P
  <2> DEFINE l == tree.child["left"][n]
             r == tree.child["right"][n]
  <2>1. n \in Keys /\ n # Nil /\ l \in S /\ r \in S
    BY <1>1, <1>2, Apart
  <2>2. height[l] = h[l] /\ height[r] = h[r]
    BY <1>12 DEF Sides
  <2>3. h[l] \in Nat /\ h[r] \in Nat
    BY <1>10, <2>1
  <2>4. w[n] = Own(n) /\ Own(n) \in Nat
    BY <2>1 DEF Weights, IsRed
  <2>5. h[n] = h[l] + w[n] /\ h[n] = h[r] + w[n]
    BY <1>10 DEF Sides
  <2>6. h[l] = h[r] /\ h[l] # Uneven
    <3> HIDE DEF w, Own, l, r
    <3> QED
      BY <2>3, <2>4, <2>5 DEF Uneven
  <2>7. height[n] = Step(height, n)
    BY <1>8, <2>1
  <2> HIDE DEF l, r, w
  <2>8. height[n] = h[l] + (IF IsRed(tree, n) \/ n = doing.doomed THEN 0 ELSE 1)
                         + (IF doing.phase = "delete" /\ n = doing.at THEN 1 ELSE 0)
    BY <2>1, <2>2, <2>6, <2>7 DEF l, r
  <2>9. height[n] = h[n]
    BY <2>3, <2>4, <2>5, <2>8
  <2> QED
    BY <2>9
<1> HIDE DEF P
<1>13. Members(tree) \subseteq P
  BY <1>1, <1>11, <1>12, DownInduction
<1>14. tree.root \in Members(tree) \cup {Nil}
  BY <1>1 DEF Members, Trees
<1>15. tree.root \in P
  BY <1>11, <1>13, <1>14
<1> QED
  BY <1>9, <1>15 DEF P

LEMMA InvOneFlaw == Inv => OneFlawWhereItStands
<1> SUFFICES ASSUME Inv PROVE OneFlawWhereItStands
  OBVIOUS
<1> DEFINE e == IF doing.phase = "delete" THEN doing.at ELSE Nil
<1>1. /\ \E b, h : /\ Shaped(tree, b, doing.doomed)
                   /\ Balanced(tree, h, Weights(tree, doing.doomed, e))
      /\ RedFits(tree, IF doing.phase = "insert" THEN doing.at ELSE Nil, doing.doomed)
  <2>1. CASE doing = AtRest /\ \E b, h : RestFits(tree, b, h)
    BY <2>1, Phases DEF RestFits
  <2>2. CASE \E i \in Keys : doing = Inserting(i) /\ \E b, h : InsertFits(tree, b, h, i)
    BY <2>2, Phases DEF InsertFits
  <2>3. CASE \E a, d \in Keys : doing = Deleting(a, d) /\ \E b, h : DeleteFits(tree, b, h, a, d)
    BY <2>3, Phases DEF DeleteFits
  <2>4. CASE \E d \in Keys : doing = Unlinking(d) /\ \E b, h : UnlinkFits(tree, b, h, d)
    BY <2>4, Phases DEF UnlinkFits
  <2> QED
    BY <2>1, <2>2, <2>3, <2>4 DEF Inv, Stands
<1>2. PICK b, h : /\ Shaped(tree, b, doing.doomed)
                  /\ Balanced(tree, h, Weights(tree, doing.doomed, e))
  BY <1>1
<1>3. BlackHeight = h[tree.root]
  BY <1>2, BlackHeightIs
<1>4. h[tree.root] \in Nat
  <2>1. tree.root \in Keys \cup {Nil}
    BY <1>2 DEF Shaped, Linked, Trees
  <2> QED
    BY <1>2, <2>1 DEF Balanced
<1>5. BlackHeight # Uneven
  BY <1>3, <1>4 DEF Uneven
<1>6. \A n \in tree.red : n # Nil
  BY <1>1, KeyAssumption DEF RedFits, Members
<1>7. \A n \in Nodes(tree) \cap tree.red :
          \/ tree.parent[n] # Nil /\ ~ IsRed(tree, tree.parent[n])
          \/ doing.phase = "insert" /\ n = doing.at
          \/ doing.doomed # Nil /\ doing.doomed \in {n, tree.parent[n]}
  BY <1>1, <1>6 DEF RedFits, IsRed
<1> QED
  BY <1>5, <1>7 DEF OneFlawWhereItStands

-----------------------------------------------------------------------------
(* The abstract map.                                                        *)

LEMMA ContentIsHeld ==
    Inv => Content = [k \in Held(tree, doing) |-> tree.value[k]]
BY NodesAreMembers DEF Inv, Content, Held

(* A step that leaves the names and their values leaves the map.              *)
LEMMA SameContentStutters ==
    ASSUME Inv, Inv', SameContent PROVE Content' = Content
<1>1. Content = [k \in Held(tree, doing) |-> tree.value[k]]
  BY ContentIsHeld
<1>2. Nodes(tree)' = Members(tree)'
  BY NodesAreMembers DEF Inv
<1>3. Content' = [k \in Held(tree', doing') |-> tree'.value[k]]
  BY <1>2 DEF Content, Held
<1> QED
  BY <1>1, <1>3 DEF SameContent

LEMMA NextContent ==
    ASSUME Inv' PROVE Content' = [k \in Held(tree', doing') |-> tree'.value[k]]
<1>1. Nodes(tree)' = Members(tree)'
  BY NodesAreMembers DEF Inv
<1> QED
  BY <1>1 DEF Content, Held

LEMMA ImplementsInit == Init => Abstract!Init
<1> SUFFICES ASSUME Init PROVE Abstract!Init
  OBVIOUS
<1>1. Members(tree) = {}
  BY EmptyFits DEF Init
<1>2. Content = [k \in Held(tree, doing) |-> tree.value[k]]
  BY InitInv, ContentIsHeld
<1>3. Held(tree, doing) = {}
  BY <1>1 DEF Held
<1> QED
  BY <1>2, <1>3 DEF Abstract!Init

LEMMA ImplementsStep ==
    Inv /\ [Next]_vars => [Abstract!Next]_Content
<1> SUFFICES ASSUME Inv, [Next]_vars PROVE [Abstract!Next]_Content
  OBVIOUS
<1>1. Content = [k \in Held(tree, doing) |-> tree.value[k]]
  BY ContentIsHeld
<1>2. Content' = [k \in Held(tree', doing') |-> tree'.value[k]]
  BY InvStep, NextContent
<1>3. Nil \notin Members(tree) /\ Nil \notin Members(tree') /\ Members(tree) \subseteq Keys
  BY KeyAssumption DEF Members
<1>4. CASE Rebalance
  <2>1. Inv' /\ SameContent
    BY <1>4, RebalanceStep
  <2> QED
    BY <2>1, SameContentStutters
<1>5. ASSUME NEW k \in Keys, NEW v \in Values, PutPresent(k, v)
      PROVE  Abstract!Put(k, v)
  <2>1. /\ k \in Members(tree) /\ Members(tree') = Members(tree)
        /\ doing = AtRest /\ doing' = AtRest
        /\ \A m \in Keys : tree'.value[m] = IF m = k THEN v ELSE tree.value[m]
    BY <1>5, PutPresentStep
  <2>2. Held(tree, doing) = Members(tree) /\ Held(tree', doing') = Members(tree)
    BY <1>3, <2>1, Phases DEF Held
  <2>3. Members(tree) \cup {k} = Members(tree)
    BY <2>1
  <2>4. Content' = [j \in DOMAIN Content \cup {k} |-> IF j = k THEN v ELSE Content[j]]
    BY <1>1, <1>2, <1>3, <2>1, <2>2, <2>3
  <2> QED
    BY <2>4 DEF Abstract!Put, Abstract!With
<1>6. ASSUME NEW k \in Keys, NEW v \in Values, PutAbsent(k, v)
      PROVE  Abstract!Put(k, v)
  <2>1. /\ k \notin Members(tree) /\ Members(tree') = Members(tree) \cup {k}
        /\ doing = AtRest /\ doing' = Inserting(k)
        /\ \A m \in Keys : tree'.value[m] = IF m = k THEN v ELSE tree.value[m]
    BY <1>6, PutAbsentStep
  <2>2. Held(tree, doing) = Members(tree) /\ Held(tree', doing') = Members(tree) \cup {k}
    BY <1>3, <2>1, Phases DEF Held
  <2>3. Content' = [j \in DOMAIN Content \cup {k} |-> IF j = k THEN v ELSE Content[j]]
    BY <1>1, <1>2, <1>3, <2>1, <2>2
  <2> QED
    BY <2>3 DEF Abstract!Put, Abstract!With
<1>7. ASSUME NEW k \in Keys, Remove(k)
      PROVE  Abstract!Remove(k)
  <2>1. /\ k \in Members(tree) /\ Members(tree') = Members(tree)
        /\ doing = AtRest /\ doing'.doomed = k /\ tree'.value = tree.value
    BY <1>7, RemoveStep
  <2>2. Held(tree, doing) = Members(tree) /\ Held(tree', doing') = Members(tree) \ {k}
    BY <1>3, <2>1, Phases DEF Held
  <2>3. Content' = [j \in DOMAIN Content \ {k} |-> Content[j]]
    BY <1>1, <1>2, <2>1, <2>2
  <2> QED
    BY <2>3 DEF Abstract!Remove, Abstract!Without
<1>8. CASE Clear
  <2>1. Members(tree') = {} /\ doing' = AtRest
    BY <1>8, ClearStep
  <2>2. Held(tree', doing') = {}
    BY <2>1 DEF Held
  <2>3. Content' = [k \in {} |-> k]
    BY <1>2, <2>2
  <2> QED
    BY <2>3 DEF Abstract!Next, Abstract!Clear
<1>9. CASE UNCHANGED vars
  BY <1>9 DEF vars, Content
<1> QED
  BY <1>4, <1>5, <1>6, <1>7, <1>8, <1>9 DEF Next, Call, Abstract!Next

-----------------------------------------------------------------------------
(* The rounds climb.                                                        *)

(* The depth of a node is one more than that of its parent.                  *)
LEMMA DepthOf ==
    ASSUME NEW t, NEW b, Linked(t), Spread(t, b)
    PROVE  /\ \A n \in Keys \cup {Nil} : Depth(t, n) \in Nat
           /\ \A n \in Keys : Depth(t, n) = 1 + Depth(t, t.parent[n])
<1> DEFINE S == Keys \cup {Nil}
           Step(f, m) == IF m = Nil THEN 0 ELSE 1 + f[t.parent[m]]
           F == [S -> Nat]
           step == [f \in F |-> [m \in S |-> Step(f, m)]]
           from == CHOOSE f : f = [m \in S |-> Step(f, m)]
           top == Cardinality(Keys) + 2
           rank == [n \in S |-> IF n = Nil THEN 0
                                ELSE IF n \in Members(t) THEN top - Cardinality(b[n]) ELSE 1]
<1>1. t \in Trees /\ \A n \in Keys : t.parent[n] \in S
  BY DEF Linked, Trees
<1>2. IsFiniteSet(Keys) /\ Cardinality(Keys) \in Nat
  BY KeyAssumption, FS_CardinalityType
<1>3. /\ top \in Nat
      /\ \A n \in Members(t) : /\ IsFiniteSet(b[n])
                               /\ Cardinality(b[n]) \in 0 .. Cardinality(Keys)
  <2>1. \A n \in Members(t) : b[n] \subseteq Keys
    BY DEF Spread, Members
  <2> QED
    BY <1>2, <2>1, FS_Subset, FS_CardinalityType
<1>4. rank \in [S -> Nat] /\ \A x \in S : rank[x] \in 0 .. top
  <2>1. \A x \in S : rank[x] \in 0 .. top
    BY <1>2, <1>3
  <2>2. top \in Nat
    BY <1>3
  <2>3. DOMAIN rank = S
    OBVIOUS
  <2>4. rank = [n \in S |-> rank[n]]
    OBVIOUS
  <2> HIDE DEF rank, top
  <2>5. \A x \in S : rank[x] \in Nat
    BY <2>1, <2>2
  <2> QED
    BY <2>1, <2>4, <2>5
<1>5. \A n \in Keys : rank[t.parent[n]] < rank[n]
  <2> SUFFICES ASSUME NEW n \in Keys PROVE rank[t.parent[n]] < rank[n]
    OBVIOUS
  <2>1. n # Nil
    BY KeyAssumption
  <2>2. CASE n \notin Members(t)
    <3>1. t.parent[n] = Nil
      BY <2>2 DEF Members
    <3> QED
      BY <1>1, <2>1, <2>2, <3>1
  <2>3. CASE n \in Members(t) /\ t.parent[n] = Nil
    <3>1. rank[t.parent[n]] = 0 /\ rank[n] = top - Cardinality(b[n])
      BY <2>1, <2>3
    <3> QED
      BY <1>2, <1>3, <2>3, <3>1
  <2>4. CASE n \in Members(t) /\ t.parent[n] # Nil
    <3> DEFINE p == t.parent[n]
    <3>1. p \in Members(t) /\ p \in Keys /\ p # n
      BY <2>4, Apart DEF Linked, Members
    <3>2. PICK s \in Sides : t.child[s][p] = n
      BY <2>4 DEF Linked
    <3>3. p \notin b[n] /\ p \in b[p] /\ b[n] \subseteq b[p]
      BY <3>1, <3>2 DEF Spread
    <3> HIDE DEF p
    <3>4. Cardinality(b[n]) < Cardinality(b[p])
      <4>1. /\ IsFiniteSet(b[p]) /\ Cardinality(b[p]) \in Nat /\ Cardinality(b[n]) \in Nat
            /\ b[n] \subseteq b[p] /\ b[n] # b[p]
        BY <1>2, <1>3, <2>4, <3>1, <3>3
      <4> QED
        BY <4>1, FS_Subset
    <3>5. rank[n] = top - Cardinality(b[n]) /\ rank[p] = top - Cardinality(b[p])
      BY <2>1, <2>4, <3>1, KeyAssumption
    <3>6. rank[p] < rank[n]
      BY <1>2, <1>3, <2>4, <3>1, <3>4, <3>5
    <3> QED
      BY <3>6 DEF p
  <2> QED
    BY <2>2, <2>3, <2>4
<1> HIDE DEF rank, top
<1>6. F # {} /\ \A f, g \in F : (\A x \in S : f[x] = g[x]) => f = g
  <2>1. 0 \in Nat
    OBVIOUS
  <2> QED
    BY <2>1, Extensional
<1>7. \A f \in F : step[f] \in F
  BY <1>1
<1>8. ASSUME NEW f \in F, NEW g \in F, NEW x \in S, \A y \in S : rank[y] < rank[x] => f[y] = g[y]
      PROVE  step[f][x] = step[g][x]
  BY <1>1, <1>5, <1>8
<1>9. Recursive(S, F, step, rank, top)
  <2> HIDE DEF F, step
  <2> QED
    BY <1>3, <1>4, <1>6, <1>7, <1>8 DEF Recursive
<1> HIDE DEF F, step
<1>10. PICK f \in F : f = step[f]
  BY <1>9, RankRecursion
<1>11. f = [m \in S |-> Step(f, m)]
  BY <1>10 DEF step
<1>12. from = [m \in S |-> Step(from, m)]
  BY <1>11
<1>13. \A n : Depth(t, n) = from[n]
  BY DEF Depth
<1> HIDE DEF from
<1>14. \A n \in Keys : from[n] = 1 + from[t.parent[n]]
  BY <1>1, <1>12, KeyAssumption
<1> DEFINE P == {n \in S : from[n] \in Nat}
<1>15. S \subseteq P
  <2>1. rank \in [S -> Nat]
    BY <1>4
  <2>2. ASSUME NEW x \in S, \A y \in S : rank[y] < rank[x] => y \in P
        PROVE  x \in P
    <3>1. CASE x = Nil
      BY <1>12, <3>1
    <3>2. CASE x # Nil
      <4>1. x \in Keys /\ t.parent[x] \in P
        BY <1>1, <1>5, <2>2, <3>2
      <4>2. from[x] \in Nat
        BY <1>14, <4>1
      <4> QED
        BY <4>2
    <3> QED
      BY <3>1, <3>2
  <2> HIDE DEF P
  <2> QED
    BY <2>1, <2>2, RankInduction
<1> QED
  BY <1>13, <1>14, <1>15

LEMMA ClimbStep ==
    Inv /\ [Next]_vars =>
      [doing.phase \in {"insert", "delete"} /\ doing'.phase = doing.phase =>
         Depth(tree', doing'.at) < Depth(tree, doing.at)]_vars
<1> SUFFICES ASSUME Inv, Next, doing.phase \in {"insert", "delete"}, doing'.phase = doing.phase
             PROVE  Depth(tree', doing'.at) < Depth(tree, doing.at)
  OBVIOUS
<1>1. PICK b : Shaped(tree, b, doing.doomed)
  BY StandsShaped DEF Inv
<1>2. /\ Linked(tree) /\ Spread(tree, b)
      /\ \A n \in Keys : tree.parent[n] \in Keys \cup {Nil}
  BY <1>1 DEF Shaped, Linked, Trees
<1>3. /\ \A n \in Keys \cup {Nil} : Depth(tree, n) \in Nat
      /\ \A n \in Keys : Depth(tree, n) = 1 + Depth(tree, tree.parent[n])
  BY <1>2, DepthOf
<1>4. doing.at \in Keys
  BY StandsByPhase DEF Inv
<1>5. \A t, u, n : t.parent = u.parent => Depth(t, n) = Depth(u, n)
  BY DEF Depth
<1>6. ~ Call /\ doing # AtRest
  <2>1. doing # AtRest
    BY Phases
  <2> QED
    BY <2>1 DEF Call, PutPresent, PutAbsent, Remove, Clear
<1>7. CASE InsertRecolour
  <2>1. doing'.at = tree.parent[tree.parent[doing.at]] /\ tree'.parent = tree.parent
    BY <1>7, InsertRecolourStep
  <2>2. tree.parent[doing.at] \in Keys
    <3>1. \E c, h : InsertFits(tree, c, h, doing.at)
      BY <1>7, StandsByPhase DEF Inv, InsertRecolour
    <3>2. tree.parent[doing.at] \in tree.red
      BY <1>7 DEF InsertRecolour, HasRedParent, IsRed
    <3> QED
      BY <3>1, <3>2 DEF InsertFits, RedFits, Members
  <2>3. Depth(tree', doing'.at) = Depth(tree, doing'.at)
    BY <1>5, <2>1
  <2> DEFINE p == tree.parent[doing.at]
             g == tree.parent[p]
  <2>4. /\ Depth(tree, doing.at) = 1 + Depth(tree, p) /\ Depth(tree, p) = 1 + Depth(tree, g)
        /\ Depth(tree, g) \in Nat
    BY <1>2, <1>3, <1>4, <2>2
  <2>5. Depth(tree', doing'.at) = Depth(tree, g)
    BY <2>1, <2>3
  <2> HIDE DEF p, g
  <2> QED
    BY <2>4, <2>5
<1>8. CASE DeleteRecolour
  <2>1. doing'.at = tree.parent[doing.at] /\ tree'.parent = tree.parent
    BY <1>8, DeleteRecolourStep
  <2> DEFINE p == tree.parent[doing.at]
  <2>2. Depth(tree, doing.at) = 1 + Depth(tree, p) /\ Depth(tree, p) \in Nat
    BY <1>2, <1>3, <1>4
  <2>3. Depth(tree', doing'.at) = Depth(tree, p)
    BY <1>5, <2>1
  <2> HIDE DEF p
  <2> QED
    BY <2>2, <2>3
<1>9. Rebalance
  BY <1>6 DEF Next
<1>10. ~ (InsertAtRoot \/ InsertBelowBlack \/ InsertRotate
           \/ DeleteAtRoot \/ DeleteBlackenParent \/ DeleteRotate \/ Unlink)
  BY InsertAtRootStep, InsertBelowBlackStep, InsertRotateStep,
     DeleteAtRootStep, DeleteBlackenParentStep, DeleteRotateStep, UnlinkStep
     DEF InsertAtRoot, InsertBelowBlack, InsertRotate, DeleteAtRoot, DeleteBlackenParent,
         DeleteRotate, Unlink
<1> QED
  BY <1>7, <1>8, <1>9, <1>10 DEF Rebalance

-----------------------------------------------------------------------------
(* The theorems.                                                            *)

(* The fields hold what their types allow, and size never exceeds the number   *)
(* of keys nor falls below zero (Put and Remove count up and down once each).  *)
THEOREM TypeCorrect == Spec => []TypeOK
BY StandsAlways, InvTypeOK, PTL

(* Through every rotation the recursive walk meets the keys in ascending       *)
(* order, and every parent link leads back where the child link came from       *)
(* (rotateLeft, rotateRight, replaceNode).                                   *)
THEOREM WalksInOrder == Spec => []OrderedAndLinked
BY StandsAlways, InvOrdered, PTL

(* Between two calls a lookup finds exactly the keys that were put in and not   *)
(* taken out, Floor and Ceiling the nearest of them, and size is their number.  *)
THEOREM LookupsFind == Spec => []LookupsAgree
BY StandsAlways, InvLookups, PTL

(* Each round leaves at most one breach of the colour rules, where the next     *)
(* round starts: the tree stays balanced through the insertCases and the        *)
(* deleteCases.                                                            *)
THEOREM AtMostOneFlaw == Spec => []OneFlawWhereItStands
BY StandsAlways, InvOneFlaw, PTL

(* To its callers the tree is a map that Put, Remove and Clear change in one    *)
(* step; no round of the rebalancing loses, adds or mixes up an entry.         *)
THEOREM MapImplemented == Spec => ImplementsMap
BY StandsAlways, ImplementsInit, ImplementsStep, PTL DEF Spec, ImplementsMap, Abstract!Spec

(* insertCase3 and deleteCase3 call case 1 again nearer to the root only, so    *)
(* that the recursion of the rebalancing ends.                                *)
THEOREM RebalancingClimbs == Spec => RoundsClimb
BY StandsAlways, ClimbStep, PTL DEF Spec, RoundsClimb
=============================================================================
