---------------------------- MODULE RedBlackTree ----------------------------
(***************************************************************************)
(* The red-black tree that holds the forward table, the cache and the local *)
(* database (util/bst/redblacktree.go).  A node is named by its key.  Remove *)
(* of a node with two children copies the key and the value of its           *)
(* predecessor into it and unlinks the predecessor; here the two nodes        *)
(* exchange names, so that the one to be unlinked carries the removed key.   *)
(* One step is one round of the rebalancing, so that the invariants that     *)
(* hold between the rounds can be stated.                                   *)
(***************************************************************************)
EXTENDS Integers, FiniteSets, Sequences

CONSTANTS Keys, Values, Nil

ASSUME KeyAssumption ==
    /\ Keys \subseteq Int /\ IsFiniteSet(Keys)
    /\ Nil \notin Keys /\ Nil \notin Values

VARIABLES
    tree,   \* root and, by node, the fields child, parent, red and value
    size,   \* the field size
    doing   \* the call in progress: where it stands, what it will unlink

vars == <<tree, size, doing>>

Sides == {"left", "right"}
Other(side) == IF side = "left" THEN "right" ELSE "left"

Trees ==
    [root   : Keys \cup {Nil},
     child  : [Sides -> [Keys -> Keys \cup {Nil}]],
     parent : [Keys -> Keys \cup {Nil}],
     red    : SUBSET Keys,
     value  : [Keys -> Values \cup {Nil}]]

Empty ==
    [root |-> Nil,
     child |-> [s \in Sides |-> [k \in Keys |-> Nil]],
     parent |-> [k \in Keys |-> Nil],
     red |-> {},
     value |-> [k \in Keys |-> Nil]]

-----------------------------------------------------------------------------
(* Reading the tree.                                                       *)

(* nodeColor: a nil node is black.                                         *)
IsRed(t, n) == n \in t.red

SideOf(t, n) == IF t.child["left"][t.parent[n]] = n THEN "left" ELSE "right"

Sibling(t, n) == t.child[Other(SideOf(t, n))][t.parent[n]]

Grandparent(t, n) == t.parent[t.parent[n]]

Toward(t, n, k) == t.child[IF k < n THEN "left" ELSE "right"][n]

Lookup(t, k) ==
    LET from[n \in Keys \cup {Nil}] ==
            IF n = Nil \/ n = k THEN n ELSE from[Toward(t, n, k)]
    IN  from[t.root]

(* The node below which Put hangs a new key.                               *)
Seat(t, k) ==
    LET from[n \in Keys] ==
            IF Toward(t, n, k) = Nil THEN n ELSE from[Toward(t, n, k)]
    IN  from[t.root]

Outermost(t, side, n) ==
    LET from[m \in Keys] ==
            IF t.child[side][m] = Nil THEN m ELSE from[t.child[side][m]]
    IN  from[n]

(* A mutant of Nearest that returns the last node on the way down.          *)
NearestPassed(t, side, k) ==
    LET from[n \in Keys \cup {Nil}] ==
            IF n = Nil \/ n = k THEN n
            ELSE IF from[Toward(t, n, k)] = Nil THEN n ELSE from[Toward(t, n, k)]
    IN  from[t.root]

(* Floor with side "left", Ceiling with side "right".                      *)
Nearest(t, side, k) ==
    LET from[n \in Keys \cup {Nil}] ==
            IF n = Nil \/ n = k THEN n
            ELSE LET further == from[Toward(t, n, k)]
                     passed  == IF side = "left" THEN n < k ELSE n > k
                 IN  IF further = Nil /\ passed THEN n ELSE further
    IN  from[t.root]

(* The order of the recursive walks over the tree.                         *)
InOrder(t) ==
    LET from[n \in Keys \cup {Nil}] ==
            IF n = Nil THEN <<>>
            ELSE from[t.child["left"][n]] \o <<n>> \o from[t.child["right"][n]]
    IN  from[t.root]

Nodes(t) == LET walk == InOrder(t) IN {walk[i] : i \in DOMAIN walk}

-----------------------------------------------------------------------------
(* Changing it.                                                            *)

ReplaceNode(t, old, new) ==
    LET p == t.parent[old]
        u == IF p = Nil THEN [t EXCEPT !.root = new]
             ELSE [t EXCEPT !.child[SideOf(t, old)][p] = new]
    IN  IF new = Nil THEN u ELSE [u EXCEPT !.parent[new] = p]

(* A mutant of Rotate that forgets the parent of the subtree that changes   *)
(* sides.                                                                  *)
RotateOrphans(t, n, side) ==
    LET up    == t.child[Other(side)][n]
        inner == t.child[side][up]
    IN  [ReplaceNode(t, n, up) EXCEPT
           !.child[Other(side)][n] = inner, !.child[side][up] = n, !.parent[n] = up]

(* rotateLeft with side "left", rotateRight with side "right".             *)
Rotate(t, n, side) ==
    LET up    == t.child[Other(side)][n]
        inner == t.child[side][up]
        u     == [ReplaceNode(t, n, up) EXCEPT
                    !.child[Other(side)][n] = inner,
                    !.child[side][up] = n,
                    !.parent[n] = up]
    IN  IF inner = Nil THEN u ELSE [u EXCEPT !.parent[inner] = n]

Paint(t, reds, blacks) == [t EXCEPT !.red = (@ \cup reds) \ blacks]

(* A new red leaf.                                                         *)
Attach(t, k, v) ==
    LET u == [Paint(t, {k}, {}) EXCEPT !.value[k] = v]
    IN  IF t.root = Nil THEN [u EXCEPT !.root = k]
        ELSE LET p == Seat(t, k)
             IN  [u EXCEPT !.child[IF k < p THEN "left" ELSE "right"][p] = k,
                           !.parent[k] = p]

(* insertCase4: turn an inner grandchild outwards; insertCase5: lift it.   *)
StraightenAndLift(t, n) ==
    LET p      == t.parent[n]
        side   == SideOf(t, p)
        bent   == SideOf(t, n) # side
        u      == IF bent THEN Rotate(t, p, side) ELSE t
        top    == IF bent THEN n ELSE p
        g      == t.parent[p]
    IN  Rotate(Paint(u, {g}, {top}), g, Other(side))

(* The nodes k and p exchange places; each keeps its own value.            *)
ExchangeNames(t, k, p) ==
    LET name(n) == CASE n = k -> p [] n = p -> k [] OTHER -> n
    IN  [t EXCEPT !.root = name(@),
                  !.child = [s \in Sides |-> [n \in Keys |-> name(t.child[s][name(n)])]],
                  !.parent = [n \in Keys |-> name(t.parent[name(n)])],
                  !.red = {n \in Keys : name(n) \in t.red}]

(* The one child of a node that has not two.                               *)
OnlyChild(t, n) ==
    IF t.child["right"][n] = Nil THEN t.child["left"][n] ELSE t.child["right"][n]

(* deleteCase2: a red sibling is lifted, so that the new one is black.     *)
LiftRedSibling(t, n) ==
    LET s == Sibling(t, n)
        p == t.parent[n]
    IN  IF IsRed(t, s) THEN Rotate(Paint(t, {p}, {s}), p, SideOf(t, n)) ELSE t

(* A mutant of TurnSibling: deleteCase5 left out.                          *)
TurnNothing(t, n) == t

(* deleteCase5: make the outer child of the sibling the red one.           *)
TurnSibling(t, n) ==
    LET s     == Sibling(t, n)
        side  == SideOf(t, n)
        inner == t.child[side][s]
        outer == t.child[Other(side)][s]
    IN  IF IsRed(t, inner) /\ ~ IsRed(t, outer) /\ ~ IsRed(t, s)
        THEN Rotate(Paint(t, {s}, {inner}), s, Other(side))
        ELSE t

(* deleteCase6: lift the sibling, its outer child makes up for the loss.   *)
LiftSibling(t, n) ==
    LET s    == Sibling(t, n)
        p    == t.parent[n]
        side == SideOf(t, n)
        u    == Paint(t, IF IsRed(t, p) THEN {s} ELSE {},
                         {p} \cup (IF IsRed(t, p) THEN {} ELSE {s}))
        l    == u.child["left"][s]
        r    == u.child["right"][s]
    IN  IF side = "left" /\ IsRed(u, r)
        THEN Rotate(Paint(u, {}, {r}), p, "left")
        ELSE IF IsRed(u, l) THEN Rotate(Paint(u, {}, {l}), p, "right") ELSE u

(* replaceNode and the colour of a new root; the fields of the node that    *)
(* is gone are reset, as nobody reads them again.                          *)
Unlinked(t, n) ==
    LET c == OnlyChild(t, n)
        u == ReplaceNode(t, n, c)
        v == IF t.parent[n] = Nil THEN Paint(u, {}, {c}) ELSE u
    IN  [Paint(v, {}, {n}) EXCEPT
           !.parent[n] = Nil, !.value[n] = Nil,
           !.child["left"][n] = Nil, !.child["right"][n] = Nil]

-----------------------------------------------------------------------------
(* The calls.  A call runs to its end under the mutex of its user.         *)

AtRest == [phase |-> "rest", at |-> Nil, doomed |-> Nil]
Inserting(n) == [phase |-> "insert", at |-> n, doomed |-> Nil]
Deleting(n, d) == [phase |-> "delete", at |-> n, doomed |-> d]
Unlinking(d) == [phase |-> "unlink", at |-> Nil, doomed |-> d]

Init ==
    /\ tree = Empty
    /\ size = 0
    /\ doing = AtRest

PutPresent(k, v) ==
    /\ doing = AtRest
    /\ Lookup(tree, k) = k
    /\ tree' = [tree EXCEPT !.value[k] = v]
    /\ UNCHANGED <<size, doing>>

PutAbsent(k, v) ==
    /\ doing = AtRest
    /\ Lookup(tree, k) = Nil
    /\ tree' = Attach(tree, k, v)
    /\ doing' = Inserting(k)
    /\ UNCHANGED size

InsertDone(t) ==
    /\ tree' = t
    /\ size' = size + 1
    /\ doing' = AtRest

(* insertCase1, 2.                                                         *)
InsertAtRoot ==
    /\ doing.phase = "insert"
    /\ tree.parent[doing.at] = Nil
    /\ InsertDone(Paint(tree, {}, {doing.at}))

InsertBelowBlack ==
    /\ doing.phase = "insert"
    /\ tree.parent[doing.at] # Nil
    /\ ~ IsRed(tree, tree.parent[doing.at])
    /\ InsertDone(tree)

(* insertCase3 and the branch that leads to 4.                             *)
HasRedParent(n) == tree.parent[n] # Nil /\ IsRed(tree, tree.parent[n])
Uncle(n) == IF Grandparent(tree, n) = Nil THEN Nil ELSE Sibling(tree, tree.parent[n])

InsertRecolour ==
    LET n == doing.at
        g == Grandparent(tree, n)
    IN  /\ doing.phase = "insert"
        /\ HasRedParent(n)
        /\ IsRed(tree, Uncle(n))
        /\ tree' = Paint(tree, {g}, {tree.parent[n], Uncle(n)})
        /\ doing' = Inserting(g)
        /\ UNCHANGED size

InsertRotate ==
    /\ doing.phase = "insert"
    /\ HasRedParent(doing.at)
    /\ ~ IsRed(tree, Uncle(doing.at))
    /\ InsertDone(StraightenAndLift(tree, doing.at))

(* A mutant of Doomed that leaves the value of the predecessor behind.      *)
DoomedValueStays(t, k) ==
    LET p == Outermost(t, "right", t.child["left"][k])
    IN  IF Nil \in {t.child["left"][k], t.child["right"][k]} THEN t
        ELSE [ExchangeNames(t, k, p) EXCEPT !.value[p] = t.value[k]]

(* The tree in which the node named k is the one to unlink.                *)
Doomed(t, k) ==
    IF Nil \in {t.child["left"][k], t.child["right"][k]} THEN t
    ELSE ExchangeNames(t, k, Outermost(t, "right", t.child["left"][k]))

Remove(k) ==
    LET t == Doomed(tree, k)
        c == OnlyChild(t, k)
    IN  /\ doing = AtRest
        /\ Lookup(tree, k) = k
        /\ IF IsRed(t, k)
           THEN tree' = t /\ doing' = Unlinking(k)
           ELSE /\ tree' = Paint(t, IF IsRed(t, c) THEN {k} ELSE {}, {})
                /\ doing' = Deleting(k, k)
        /\ UNCHANGED size

DeleteDone(t) ==
    /\ tree' = t
    /\ doing' = Unlinking(doing.doomed)
    /\ UNCHANGED size

DeleteAtRoot ==
    /\ doing.phase = "delete"
    /\ tree.parent[doing.at] = Nil
    /\ DeleteDone(tree)

(* A mutant of Shortened that stays with the child.                        *)
ShortenedBelow(t, n) == n

(* The subtree that is short of a black node once the sibling of n is red.  *)
Shortened(t, n) == t.parent[n]

(* The sibling and its children are black.                                 *)
BlackFamily(t, s) == {s, t.child["left"][s], t.child["right"][s]} \cap t.red = {}

(* deleteCase3: the loss moves up.                                         *)
DeleteRecolour ==
    LET n == doing.at
        p == tree.parent[n]
        t == LiftRedSibling(tree, n)
        s == Sibling(t, n)
    IN  /\ doing.phase = "delete"
        /\ p # Nil
        /\ ~ IsRed(t, p) /\ BlackFamily(t, s)
        /\ tree' = Paint(t, {s}, {})
        /\ doing' = Deleting(Shortened(t, n), doing.doomed)
        /\ UNCHANGED size

(* deleteCase4: the parent makes up for it.                                *)
DeleteBlackenParent ==
    LET n == doing.at
        p == tree.parent[n]
        t == LiftRedSibling(tree, n)
        s == Sibling(t, n)
    IN  /\ doing.phase = "delete"
        /\ p # Nil
        /\ IsRed(t, p) /\ BlackFamily(t, s)
        /\ DeleteDone(Paint(t, {s}, {p}))

(* deleteCase5, 6.                                                         *)
DeleteRotate ==
    LET n == doing.at
        t == LiftRedSibling(tree, n)
    IN  /\ doing.phase = "delete"
        /\ tree.parent[n] # Nil
        /\ ~ BlackFamily(t, Sibling(t, n))
        /\ DeleteDone(LiftSibling(TurnSibling(t, n), n))

Unlink ==
    /\ doing.phase = "unlink"
    /\ tree' = Unlinked(tree, doing.doomed)
    /\ size' = size - 1
    /\ doing' = AtRest

Clear ==
    /\ doing = AtRest
    /\ tree' = Empty
    /\ size' = 0
    /\ UNCHANGED doing

Rebalance ==
    \/ InsertAtRoot \/ InsertBelowBlack \/ InsertRecolour \/ InsertRotate
    \/ DeleteAtRoot \/ DeleteRecolour \/ DeleteBlackenParent \/ DeleteRotate
    \/ Unlink

Call ==
    \/ \E k \in Keys, v \in Values : PutPresent(k, v) \/ PutAbsent(k, v)
    \/ \E k \in Keys : Remove(k)
    \/ Clear

Next == Rebalance \/ Call

Spec == Init /\ [][Next]_vars

-----------------------------------------------------------------------------
(* Properties.                                                             *)

TypeOK ==
    /\ tree \in Trees
    /\ size \in 0 .. Cardinality(Keys)
    /\ doing \in {AtRest} \cup {Inserting(n) : n \in Keys}
                \cup {Deleting(n, d) : n, d \in Keys} \cup {Unlinking(d) : d \in Keys}

(* What the tree holds for its user: all nodes but the one being unlinked.  *)
Content == [k \in Nodes(tree) \ {doing.doomed} |-> tree.value[k]]

(* Through every rotation of every call the tree is the map its callers      *)
(* believe it to be (redblacktree.go, Put, Remove and Clear).               *)
Abstract == INSTANCE KeyMap WITH map <- Content
ImplementsMap == Abstract!Spec

(* The walk over the tree meets the keys in ascending order, and every       *)
(* parent link leads back where the child link came from                    *)
(* (redblacktree.go:339, rotateLeft, rotateRight, replaceNode).              *)
OrderedAndLinked ==
    LET walk == InOrder(tree)
    IN  /\ \A i, j \in DOMAIN walk :
              i < j /\ doing.doomed \notin {walk[i], walk[j]} => walk[i] < walk[j]
        /\ tree.root # Nil => tree.parent[tree.root] = Nil
        /\ \A n \in Nodes(tree), s \in Sides :
              tree.child[s][n] # Nil => tree.parent[tree.child[s][n]] = n

(* The number of black nodes on the way down from n, Uneven when that        *)
(* depends on the way.  While a node is deleted it does not count, and the   *)
(* subtree where the rebalancing stands is short of one.                     *)
Uneven == -1

BlackHeight ==
    LET height[n \in Keys \cup {Nil}] ==
            IF n = Nil THEN 0
            ELSE LET l == height[tree.child["left"][n]]
                     r == height[tree.child["right"][n]]
                 IN  IF l # r \/ l = Uneven THEN Uneven
                     ELSE l + (IF IsRed(tree, n) \/ n = doing.doomed THEN 0 ELSE 1)
                            + (IF doing.phase = "delete" /\ n = doing.at THEN 1 ELSE 0)
    IN  height[tree.root]

(* Every round of the rebalancing leaves one flaw at most, and it is where    *)
(* the rebalancing stands: a red node below a red one while inserting, one    *)
(* black too few while deleting; at rest there is none, and the root is       *)
(* black.  This is what bounds the depth of every lookup                      *)
(* (redblacktree.go:376 and :436).                                           *)
OneFlawWhereItStands ==
    /\ BlackHeight # Uneven
    /\ \A n \in Nodes(tree) \cap tree.red :
          \/ tree.parent[n] # Nil /\ ~ IsRed(tree, tree.parent[n])
          \/ doing.phase = "insert" /\ n = doing.at
          \/ doing.doomed # Nil /\ doing.doomed \in {n, tree.parent[n]}

(* Between two calls every lookup finds what is in the tree and nothing       *)
(* else, the nearest keys below and above are found, and the size is right    *)
(* (redblacktree.go:299, :195, :226).                                        *)
LookupsAgree ==
    LET keys == Nodes(tree)
    IN  doing = AtRest =>
          /\ size = Cardinality(keys)
          /\ \A k \in Keys :
                /\ (Lookup(tree, k) = k) = (k \in keys)
                /\ LET floor == Nearest(tree, "left", k)
                       ceiling == Nearest(tree, "right", k)
                   IN  /\ IF \A j \in keys : j > k THEN floor = Nil
                          ELSE /\ floor \in keys /\ floor <= k
                               /\ \A j \in keys : j <= k => j <= floor
                       /\ IF \A j \in keys : j < k THEN ceiling = Nil
                          ELSE /\ ceiling \in keys /\ ceiling >= k
                               /\ \A j \in keys : j >= k => j >= ceiling

Depth(t, n) ==
    LET from[m \in Keys \cup {Nil}] == IF m = Nil THEN 0 ELSE 1 + from[t.parent[m]]
    IN  from[n]

(* The rebalancing does not go in circles: the case that calls the first one *)
(* again does so nearer to the root, and every other one ends it             *)
(* (redblacktree.go:390 and :458).                                          *)
RoundsClimb ==
    [][doing.phase \in {"insert", "delete"} /\ doing'.phase = doing.phase =>
         Depth(tree', doing'.at) < Depth(tree, doing.at)]_vars
=============================================================================
