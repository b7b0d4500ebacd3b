--------------------------- MODULE FuseTreeProofs ---------------------------
(***************************************************************************)
(* Proofs about FuseTree, for any nodes, files, names and any finite set of *)
(* threads.  First part: the tree of parents, chains and paths, the lock    *)
(* accounting, the inductive invariant Inv, and what the operations of      *)
(* NodeTable and the steps that only touch the table keep of it.            *)
(***************************************************************************)
EXTENDS FuseTree, FiniteSetTheorems, TLAPS

---------------------------------------------------------------------------
(* The chain of a node.  A recursive function over a tree that need not be  *)
(* one: its equation always has a solution, the nodes every closed set that *)
(* has the node has too; it is the only one if there is no cycle.           *)

Places == Nodes \cup {NoNode}
Parents(d) == \A u \in Ids : d[u].parent \in Places

Closed(d, S) == \A x \in S \cap Ids : d[x].parent \in S
Reach(d, u) == {v \in Ids : \A S \in SUBSET Places : u \in S /\ Closed(d, S) => v \in S}

LEMMA IdsPlaces ==
  /\ Root \notin Ids /\ NoNode \notin Ids /\ Root # NoNode
  /\ Root \in Places /\ NoNode \in Places /\ Ids \subseteq Places /\ Ids \subseteq Nodes
  /\ Root \in Nodes /\ Nodes \subseteq Places
  /\ \A u \in Places : u \in Ids \/ u \in {Root, NoNode}
BY NodesAssumption DEF Places, Nodes

LEMMA ReachEnds == ASSUME NEW d, NEW u \in {Root, NoNode} PROVE Reach(d, u) = {}
<1> SUFFICES ASSUME NEW v \in Reach(d, u) PROVE FALSE
  OBVIOUS
<1>1. {u} \in SUBSET Places /\ Closed(d, {u}) /\ u \in {u}
  BY IdsPlaces DEF Closed
<1>2. v \in {u} /\ v \in Ids
  BY <1>1 DEF Reach
<1> QED BY <1>2, IdsPlaces

LEMMA ReachStep ==
  ASSUME NEW d, Parents(d), NEW u \in Ids
  PROVE  Reach(d, u) = {u} \cup Reach(d, d[u].parent)
<1> DEFINE p == d[u].parent
<1>1. ASSUME NEW v \in Reach(d, u), v # u PROVE v \in Reach(d, p)
  <2> SUFFICES ASSUME NEW S \in SUBSET Places, p \in S, Closed(d, S) PROVE v \in S
    BY <1>1 DEF Reach
  <2>1. S \cup {u} \in SUBSET Places /\ Closed(d, S \cup {u})
    BY IdsPlaces DEF Closed
  <2>2. v \in S \cup {u}
    BY <2>1, <1>1 DEF Reach
  <2> QED BY <2>2, <1>1
<1>2. ASSUME NEW v \in Reach(d, p) PROVE v \in Reach(d, u)
  <2> SUFFICES ASSUME NEW S \in SUBSET Places, u \in S, Closed(d, S) PROVE v \in S
    BY <1>2 DEF Reach
  <2>1. p \in S
    BY DEF Closed
  <2> QED BY <2>1, <1>2 DEF Reach
<1>3. u \in Reach(d, u)
  BY DEF Reach
<1> QED BY <1>1, <1>2, <1>3

LEMMA ChainIs ==
  ASSUME NEW d, Parents(d)
  PROVE  /\ \A n \in {Root, NoNode} : Chain(d, n) = {}
         /\ \A n \in Ids : Chain(d, n) = {n} \cup Chain(d, d[n].parent)
<1> DEFINE up == CHOOSE f : f = [u \in Places |-> IF u \in {Root, NoNode} THEN {}
                                                 ELSE {u} \cup f[d[u].parent]]
           g == [u \in Places |-> Reach(d, u)]
<1>1. \A n : Chain(d, n) = up[n]
  BY Zenon DEF Chain, Places
<1>2. g = [u \in Places |-> IF u \in {Root, NoNode} THEN {} ELSE {u} \cup g[d[u].parent]]
  <2>1. ASSUME NEW u \in Places
        PROVE  g[u] = IF u \in {Root, NoNode} THEN {} ELSE {u} \cup g[d[u].parent]
    <3>1. CASE u \in {Root, NoNode}
      BY <3>1, ReachEnds
    <3>2. CASE u \in Ids
      <4>1. u \notin {Root, NoNode} /\ d[u].parent \in Places
        BY <3>2, IdsPlaces DEF Parents
      <4> QED BY <4>1, <3>2, ReachStep
    <3> QED BY <3>1, <3>2, IdsPlaces
  <2> QED BY <2>1
<1>3. up = [u \in Places |-> IF u \in {Root, NoNode} THEN {} ELSE {u} \cup up[d[u].parent]]
  <2> HIDE DEF g
  <2> QED BY <1>2, Zenon
<1> HIDE DEF up
<1>4. ASSUME NEW n \in {Root, NoNode} PROVE Chain(d, n) = {}
  BY <1>1, <1>3, <1>4, IdsPlaces
<1>5. ASSUME NEW n \in Ids PROVE Chain(d, n) = {n} \cup Chain(d, d[n].parent)
  <2>1. n \in Places /\ n \notin {Root, NoNode}
    BY IdsPlaces
  <2> QED BY <1>1, <1>3, <2>1
<1> QED BY <1>4, <1>5

---------------------------------------------------------------------------
(* A tree: every set of nodes has one whose parent is not in it. *)

WellFounded(d) == \A S \in SUBSET Ids : S # {} => \E u \in S : d[u].parent \notin S
Tree(d) == Parents(d) /\ WellFounded(d)

LEMMA ChainIds == ASSUME NEW d, Tree(d), NEW n \in Places PROVE Chain(d, n) \subseteq Ids
<1> DEFINE S == {u \in Ids : ~(Chain(d, u) \subseteq Ids)}
<1>1. S = {}
  <2> SUFFICES ASSUME S # {} PROVE FALSE
    OBVIOUS
  <2>1. PICK u \in S : d[u].parent \notin S
    BY DEF Tree, WellFounded
  <2>2. d[u].parent \in Places
    BY DEF Tree, Parents
  <2>3. Chain(d, d[u].parent) \subseteq Ids
    BY <2>1, <2>2, ChainIs, IdsPlaces DEF Tree
  <2>4. Chain(d, u) = {u} \cup Chain(d, d[u].parent)
    BY ChainIs DEF Tree
  <2> QED BY <2>3, <2>4
<1> QED BY <1>1, ChainIs, IdsPlaces DEF Tree

LEMMA ChainLeast ==
  ASSUME NEW d, Tree(d), NEW n \in Places, NEW X, n \in Ids => n \in X,
         \A v \in X \cap Ids : d[v].parent \in Ids => d[v].parent \in X
  PROVE  Chain(d, n) \subseteq X
<1> DEFINE S == {u \in Ids : u \in X /\ ~(Chain(d, u) \subseteq X)}
<1>1. S = {}
  <2> SUFFICES ASSUME S # {} PROVE FALSE
    OBVIOUS
  <2>1. PICK u \in S : d[u].parent \notin S
    BY DEF Tree, WellFounded
  <2>2. d[u].parent \in Places
    BY DEF Tree, Parents
  <2>3. Chain(d, d[u].parent) \subseteq X
    <3>1. CASE d[u].parent \in Ids
      BY <3>1, <2>1
    <3>2. CASE d[u].parent \in {Root, NoNode}
      BY <3>2, ChainIs DEF Tree
    <3> QED BY <3>1, <3>2, <2>2, IdsPlaces
  <2>4. Chain(d, u) = {u} \cup Chain(d, d[u].parent)
    BY ChainIs DEF Tree
  <2> QED BY <2>3, <2>4
<1>2. CASE n \in Ids
  BY <1>1, <1>2
<1>3. CASE n \in {Root, NoNode}
  BY <1>3, ChainIs DEF Tree
<1> QED BY <1>2, <1>3, IdsPlaces

LEMMA ChainUp ==
  ASSUME NEW d, Tree(d), NEW u \in Ids
  PROVE  /\ u \in Chain(d, u) /\ Chain(d, u) = {u} \cup Chain(d, d[u].parent)
         /\ d[u].parent \in Places /\ (d[u].parent \in Ids => d[u].parent \in Chain(d, u))
BY ChainIs DEF Tree, Parents

LEMMA ChainTrans ==
  ASSUME NEW d, Tree(d), NEW n \in Places, NEW u \in Chain(d, n)
  PROVE  Chain(d, u) \subseteq Chain(d, n)
<1> DEFINE X == {v \in Ids : Chain(d, v) \subseteq Chain(d, n)}
<1>1. n \in Ids => n \in X
  OBVIOUS
<1>2. ASSUME NEW v \in X \cap Ids, d[v].parent \in Ids PROVE d[v].parent \in X
  BY <1>2, ChainUp
<1>3. Chain(d, n) \subseteq X
  <2> HIDE DEF X
  <2> QED BY <1>1, <1>2, ChainLeast
<1> QED BY <1>3

LEMMA ChainNoLoop ==
  ASSUME NEW d, Tree(d), NEW n \in Ids PROVE n \notin Chain(d, d[n].parent)
<1> DEFINE S == {u \in Ids : u \in Chain(d, d[u].parent)}
<1> SUFFICES ASSUME S # {} PROVE FALSE
  OBVIOUS
<1>1. PICK u \in S : d[u].parent \notin S
  BY DEF Tree, WellFounded
<1> DEFINE p == d[u].parent
<1>2. p \in Ids
  BY <1>1, ChainIs, ChainUp, IdsPlaces DEF Tree
<1>3. p \in Chain(d, u) /\ Chain(d, p) = {p} \cup Chain(d, d[p].parent) /\ d[p].parent \in Places
  BY <1>2, ChainUp
<1>4. u # p
  BY <1>1
<1>5. u \in Chain(d, d[p].parent)
  BY <1>1, <1>3, <1>4
<1>6. p \in Chain(d, d[p].parent)
  BY <1>3, <1>5, ChainTrans
<1> QED BY <1>1, <1>2, <1>6

LEMMA ChainAnti ==
  ASSUME NEW d, Tree(d), NEW u \in Ids, NEW v \in Ids, u \in Chain(d, v), v \in Chain(d, u)
  PROVE  u = v
<1> SUFFICES ASSUME u # v PROVE FALSE
  OBVIOUS
<1>1. u \in Chain(d, d[v].parent) /\ d[v].parent \in Places
  BY ChainUp
<1>2. v \in Chain(d, d[v].parent)
  BY <1>1, ChainTrans
<1> QED BY <1>2, ChainNoLoop

LEMMA ChainChild ==
  ASSUME NEW d, Tree(d), NEW n \in Places, NEW u \in Chain(d, n), u # n
  PROVE  \E v \in Chain(d, n) : d[v].parent = u
<1> DEFINE X == {x \in Chain(d, n) : x = n \/ \E v \in Chain(d, n) : d[v].parent = x}
<1>1. n \in Ids => n \in X
  BY ChainUp
<1>2. ASSUME NEW v \in X \cap Ids, d[v].parent \in Ids PROVE d[v].parent \in X
  <2>1. d[v].parent \in Chain(d, n)
    BY <1>2, ChainUp, ChainTrans
  <2> QED BY <2>1
<1>3. Chain(d, n) \subseteq X
  <2> HIDE DEF X
  <2> QED BY <1>1, <1>2, ChainLeast
<1> QED BY <1>3

LEMMA ChainLinear ==
  ASSUME NEW d, Tree(d), NEW n \in Places, NEW u \in Chain(d, n), NEW v \in Chain(d, n)
  PROVE  u \in Chain(d, v) \/ v \in Chain(d, u)
<1> DEFINE X == {x \in Chain(d, n) :
                   \A y \in Chain(d, n) : x \in Chain(d, y) \/ y \in Chain(d, x)}
<1>1. n \in Ids => n \in X
  BY ChainUp
<1>2. ASSUME NEW x \in X \cap Ids, d[x].parent \in Ids PROVE d[x].parent \in X
  <2>1. d[x].parent \in Chain(d, x) /\ d[x].parent \in Chain(d, n)
    BY <1>2, ChainUp, ChainTrans
  <2>2. ASSUME NEW y \in Chain(d, n)
        PROVE  d[x].parent \in Chain(d, y) \/ y \in Chain(d, d[x].parent)
    <3>1. CASE x \in Chain(d, y)
      <4>1. y \in Places
        BY ChainIds, IdsPlaces
      <4> QED BY <2>1, <3>1, <4>1, ChainTrans
    <3>2. CASE y \in Chain(d, x)
      BY <2>1, <3>2, ChainUp
    <3> QED BY <3>1, <3>2
  <2> QED BY <2>1, <2>2
<1>3. Chain(d, n) \subseteq X
  <2> HIDE DEF X
  <2> QED BY <1>1, <1>2, ChainLeast
<1> QED BY <1>3

LEMMA OneChild ==
  ASSUME NEW d, Tree(d), NEW n \in Places, NEW u \in Chain(d, n), NEW v \in Chain(d, n),
         d[u].parent = d[v].parent
  PROVE  u = v
<1>1. u \in Ids /\ v \in Ids
  BY ChainIds
<1>2. u \in Chain(d, v) \/ v \in Chain(d, u)
  BY ChainLinear
<1> QED BY <1>1, <1>2, ChainUp, ChainNoLoop

\* A chain depends on the parents along it only.
LEMMA ChainFrame ==
  ASSUME NEW d, Tree(d), NEW e, Parents(e), NEW n \in Places,
         \A u \in Chain(d, n) : e[u].parent = d[u].parent
  PROVE  Chain(e, n) = Chain(d, n)
<1> DEFINE S == {u \in Ids : /\ \A x \in Chain(d, u) : e[x].parent = d[x].parent
                            /\ Chain(e, u) # Chain(d, u)}
<1>1. S = {}
  <2> SUFFICES ASSUME S # {} PROVE FALSE
    OBVIOUS
  <2>1. PICK u \in S : d[u].parent \notin S
    BY DEF Tree, WellFounded
  <2>2. d[u].parent \in Places /\ u \in Chain(d, u) /\ e[u].parent = d[u].parent
    BY <2>1, ChainUp
  <2>3. \A x \in Chain(d, d[u].parent) : e[x].parent = d[x].parent
    BY ChainUp
  <2>4. Chain(e, d[u].parent) = Chain(d, d[u].parent)
    <3>1. CASE d[u].parent \in Ids
      BY <3>1, <2>1, <2>3
    <3>2. CASE d[u].parent \in {Root, NoNode}
      BY <3>2, ChainIs DEF Tree
    <3> QED BY <3>1, <3>2, <2>2, IdsPlaces
  <2>5. Chain(e, u) = {u} \cup Chain(e, e[u].parent)
    BY ChainIs
  <2> QED BY <2>2, <2>4, <2>5, ChainUp
<1>2. CASE n \in Ids
  BY <1>1, <1>2
<1>3. CASE n \in {Root, NoNode}
  BY <1>3, ChainIs DEF Tree
<1> QED BY <1>2, <1>3, IdsPlaces

\* Nodes that lose their parent leave a tree.
LEMMA CutTree ==
  ASSUME NEW d, Tree(d), NEW e, \A u \in Ids : e[u].parent \in {d[u].parent, NoNode}
  PROVE  Tree(e)
<1>1. Parents(e)
  BY IdsPlaces DEF Tree, Parents
<1>2. ASSUME NEW S \in SUBSET Ids, S # {} PROVE \E u \in S : e[u].parent \notin S
  BY <1>2, IdsPlaces DEF Tree, WellFounded
<1> QED BY <1>1, <1>2 DEF Tree, WellFounded

\* So does a node put below one that it is not above.
LEMMA MoveTree ==
  ASSUME NEW d, Tree(d), NEW e, NEW s \in Ids, NEW p \in Nodes, s \notin Chain(d, p),
         e[s].parent = p, \A u \in Ids \ {s} : e[u].parent = d[u].parent
  PROVE  Tree(e)
<1>1. Parents(e)
  BY IdsPlaces DEF Tree, Parents
<1>2. ASSUME NEW S \in SUBSET Ids, S # {}, \A u \in S : e[u].parent \in S PROVE FALSE
  <2>1. CASE s \notin S
    BY <1>2, <2>1 DEF Tree, WellFounded
  <2>2. CASE s \in S
    <3>1. p \in S /\ p \in Chain(d, p) /\ p \in Places
      BY <1>2, <2>2, ChainUp, IdsPlaces
    <3> DEFINE S2 == S \cap Chain(d, p)
    <3>2. PICK u \in S2 : d[u].parent \notin S2
      BY <3>1 DEF Tree, WellFounded
    <3>3. d[u].parent \in S /\ u \in Chain(d, p)
      BY <1>2
    <3>4. d[u].parent \in Chain(d, p)
      BY <3>1, <3>3, ChainUp, ChainTrans
    <3> QED BY <3>2, <3>3, <3>4
  <2> QED BY <2>1, <2>2
<1> QED BY <1>1, <1>2 DEF Tree, WellFounded

---------------------------------------------------------------------------
(* Counting threads *)

In(x, S) == IF x \in S THEN 1 ELSE 0

\* Two sets of threads that differ in one thread at most.
LEMMA OneThread ==
  ASSUME NEW A \in SUBSET Threads, NEW B \in SUBSET Threads, NEW t \in Threads,
         \A u \in Threads \ {t} : u \in A <=> u \in B
  PROVE  /\ Cardinality(A) \in Nat /\ Cardinality(B) \in Nat
         /\ Cardinality(B) + In(t, A) = Cardinality(A) + In(t, B)
<1>1. IsFiniteSet(A) /\ IsFiniteSet(B) /\ Cardinality(A) \in Nat /\ Cardinality(B) \in Nat
  BY ThreadsAssumption, FS_Subset, FS_CardinalityType
<1>2. CASE (t \in A) <=> (t \in B)
  <2>1. A = B
    BY <1>2
  <2> QED BY <1>1, <2>1 DEF In
<1>3. CASE t \in A /\ t \notin B
  <2>1. B = A \ {t}
    BY <1>3
  <2>2. Cardinality(B) = Cardinality(A) - 1
    BY <1>1, <1>3, <2>1, FS_RemoveElement
  <2> QED BY <1>1, <1>3, <2>2 DEF In
<1>4. CASE t \notin A /\ t \in B
  <2>1. B = A \cup {t}
    BY <1>4
  <2>2. Cardinality(B) = Cardinality(A) + 1
    BY <1>1, <1>4, <2>1, FS_AddElement
  <2> QED BY <1>1, <1>4, <2>2 DEF In
<1> QED BY <1>2, <1>3, <1>4

LEMMA ThreadCount ==
  ASSUME NEW A \in SUBSET Threads
  PROVE  /\ Cardinality(A) \in Nat /\ Cardinality(A) < 1073741824
         /\ (Cardinality(A) = 0 <=> A = {})
<1>1. IsFiniteSet(A) /\ Cardinality(A) \in Nat /\ Cardinality(A) <= Cardinality(Threads)
      /\ Cardinality(Threads) \in Nat
  BY ThreadsAssumption, FS_Subset, FS_CardinalityType
<1>2. Cardinality(A) = 0 <=> A = {}
  BY <1>1, FS_EmptySet
<1> QED BY <1>1, <1>2, ThreadsAssumption

---------------------------------------------------------------------------
(* The locks, for any table d, treelocks tl and requests cl *)

R1(d, cl, n) == {t \in Threads : cl[t].l /\ n \in Chain(d, cl[t].n)}
R2(d, cl, n) == {t \in Threads : cl[t].l2 /\ n \in Chain(d, cl[t].n2)}
W1(cl, n) == {t \in Threads : cl[t].l /\ cl[t].w = n}
W2(cl, n) == {t \in Threads : cl[t].l2 /\ cl[t].w2 = n}
RN(d, cl, n) == Cardinality(R1(d, cl, n)) + Cardinality(R2(d, cl, n))
WN(cl, n) == Cardinality(W1(cl, n)) + Cardinality(W2(cl, n))

LockVal(v, w, r) == \/ w = 1 /\ r = 0 /\ v = TREELOCK_WRITE
                    \/ w = 0 /\ v = r
                    \/ w = 0 /\ r > 0 /\ v = r + TREELOCK_WAIT_OFFSET
LockOk(d, tl, cl) == \A n \in Ids : LockVal(tl[n], WN(cl, n), RN(d, cl, n))

LEMMA LocksAre == LocksExact <=> LockOk(nd, treelock, call)
BY DEF LocksExact, LockOk, LockVal, Readers, Writers, RN, WN, R1, R2, W1, W2

LEMMA CountBounds ==
  ASSUME NEW d, NEW cl, NEW n
  PROVE  /\ RN(d, cl, n) \in Nat /\ RN(d, cl, n) < 2147483648 /\ WN(cl, n) \in Nat
         /\ RN(d, cl, n) = 0 <=> R1(d, cl, n) = {} /\ R2(d, cl, n) = {}
         /\ WN(cl, n) = 0 <=> W1(cl, n) = {} /\ W2(cl, n) = {}
<1>1. /\ R1(d, cl, n) \in SUBSET Threads /\ R2(d, cl, n) \in SUBSET Threads
      /\ W1(cl, n) \in SUBSET Threads /\ W2(cl, n) \in SUBSET Threads
  BY DEF R1, R2, W1, W2
<1> DEFINE a == Cardinality(R1(d, cl, n))
           b == Cardinality(R2(d, cl, n))
           e == Cardinality(W1(cl, n))
           f == Cardinality(W2(cl, n))
<1>2. /\ a \in Nat /\ a < 1073741824 /\ (a = 0 <=> R1(d, cl, n) = {})
      /\ b \in Nat /\ b < 1073741824 /\ (b = 0 <=> R2(d, cl, n) = {})
      /\ e \in Nat /\ e < 1073741824 /\ (e = 0 <=> W1(cl, n) = {})
      /\ f \in Nat /\ f < 1073741824 /\ (f = 0 <=> W2(cl, n) = {})
  BY <1>1, ThreadCount
<1> HIDE DEF a, b, e, f
<1>3. RN(d, cl, n) = a + b /\ WN(cl, n) = e + f
  BY DEF RN, WN, a, b, e, f
<1> QED BY <1>2, <1>3

\* One thread takes or gives up its first path, or its second.
LEMMA FirstCounts ==
  ASSUME NEW d, NEW cl, NEW c2, NEW t \in Threads, NEW n,
         \A u \in Threads \ {t} : c2[u] = cl[u],
         ~cl[t].l, c2[t].l, c2[t].l2 = cl[t].l2, c2[t].n2 = cl[t].n2, c2[t].w2 = cl[t].w2
  PROVE  /\ RN(d, c2, n) = RN(d, cl, n) + In(n, Chain(d, c2[t].n))
         /\ WN(c2, n) = WN(cl, n) + In(n, {c2[t].w})
<1>1. R2(d, c2, n) = R2(d, cl, n) /\ W2(c2, n) = W2(cl, n)
  BY DEF R2, W2
<1>2. /\ R1(d, cl, n) \in SUBSET Threads /\ R1(d, c2, n) \in SUBSET Threads
      /\ W1(cl, n) \in SUBSET Threads /\ W1(c2, n) \in SUBSET Threads
      /\ R2(d, cl, n) \in SUBSET Threads /\ W2(cl, n) \in SUBSET Threads
  BY DEF R1, W1, R2, W2
<1>3. /\ \A u \in Threads \ {t} : u \in R1(d, cl, n) <=> u \in R1(d, c2, n)
      /\ \A u \in Threads \ {t} : u \in W1(cl, n) <=> u \in W1(c2, n)
      /\ t \notin R1(d, cl, n) /\ t \notin W1(cl, n)
      /\ t \in R1(d, c2, n) <=> n \in Chain(d, c2[t].n)
      /\ t \in W1(c2, n) <=> n \in {c2[t].w}
  BY DEF R1, W1
<1>4. /\ Cardinality(R1(d, c2, n)) = Cardinality(R1(d, cl, n)) + In(n, Chain(d, c2[t].n))
      /\ Cardinality(R1(d, cl, n)) \in Nat
  BY <1>2, <1>3, OneThread DEF In
<1>5. /\ Cardinality(W1(c2, n)) = Cardinality(W1(cl, n)) + In(n, {c2[t].w})
      /\ Cardinality(W1(cl, n)) \in Nat
  BY <1>2, <1>3, OneThread DEF In
<1>6. Cardinality(R2(d, cl, n)) \in Nat /\ Cardinality(W2(cl, n)) \in Nat
  BY <1>2, ThreadCount
<1> QED BY <1>1, <1>4, <1>5, <1>6 DEF RN, WN, In

LEMMA SecondCounts ==
  ASSUME NEW d, NEW cl, NEW c2, NEW t \in Threads, NEW n,
         \A u \in Threads \ {t} : c2[u] = cl[u],
         ~cl[t].l2, c2[t].l2, c2[t].l = cl[t].l, c2[t].n = cl[t].n, c2[t].w = cl[t].w
  PROVE  /\ RN(d, c2, n) = RN(d, cl, n) + In(n, Chain(d, c2[t].n2))
         /\ WN(c2, n) = WN(cl, n) + In(n, {c2[t].w2})
<1>1. R1(d, c2, n) = R1(d, cl, n) /\ W1(c2, n) = W1(cl, n)
  BY DEF R1, W1
<1>2. /\ R2(d, cl, n) \in SUBSET Threads /\ R2(d, c2, n) \in SUBSET Threads
      /\ W2(cl, n) \in SUBSET Threads /\ W2(c2, n) \in SUBSET Threads
      /\ R1(d, cl, n) \in SUBSET Threads /\ W1(cl, n) \in SUBSET Threads
  BY DEF R1, W1, R2, W2
<1>3. /\ \A u \in Threads \ {t} : u \in R2(d, cl, n) <=> u \in R2(d, c2, n)
      /\ \A u \in Threads \ {t} : u \in W2(cl, n) <=> u \in W2(c2, n)
      /\ t \notin R2(d, cl, n) /\ t \notin W2(cl, n)
      /\ t \in R2(d, c2, n) <=> n \in Chain(d, c2[t].n2)
      /\ t \in W2(c2, n) <=> n \in {c2[t].w2}
  BY DEF R2, W2
<1>4. /\ Cardinality(R2(d, c2, n)) = Cardinality(R2(d, cl, n)) + In(n, Chain(d, c2[t].n2))
      /\ Cardinality(R2(d, cl, n)) \in Nat
  BY <1>2, <1>3, OneThread DEF In
<1>5. /\ Cardinality(W2(c2, n)) = Cardinality(W2(cl, n)) + In(n, {c2[t].w2})
      /\ Cardinality(W2(cl, n)) \in Nat
  BY <1>2, <1>3, OneThread DEF In
<1>6. Cardinality(R1(d, cl, n)) \in Nat /\ Cardinality(W1(cl, n)) \in Nat
  BY <1>2, ThreadCount
<1> QED BY <1>1, <1>4, <1>5, <1>6 DEF RN, WN, In

\* From cl to c2, a path is taken: the nodes of C read-locked, w write-locked.
Takes(d, cl, c2, C, w) ==
  \A n \in Ids : /\ RN(d, c2, n) = RN(d, cl, n) + In(n, C)
                 /\ WN(c2, n) = WN(cl, n) + In(n, {w})

AllNamed(d, C) == \A u \in C : d[u].name # NoName

LockResult(d, cl, c2, C, w, path, a) ==
  /\ a.tl \in [Ids -> Int] /\ a.err \in {"ok", "again", "noent"}
  /\ a.err = "ok" => LockOk(d, a.tl, c2) /\ a.w = w /\ a.path = path /\ AllNamed(d, C)
  /\ a.err # "ok" => LockOk(d, a.tl, cl)
  /\ a.err = "noent" => ~AllNamed(d, C)

\* LockPath takes a path, or leaves the locks exact without it.
LEMMA LockPathOk ==
  ASSUME NEW d, NEW tl \in [Ids -> Int], NEW cl, NEW c2, NEW C \in SUBSET Ids,
         NEW w \in Ids \cup {NoNode}, NEW path, NEW a,
         a = LockPath(d, tl, C, w, path), LockOk(d, tl, cl), Takes(d, cl, c2, C, w)
  PROVE  LockResult(d, cl, c2, C, w, path, a)
<1> DEFINE named == {u \in C : d[u].name # NoName}
           tlw == [u \in Ids |-> IF u = w THEN TREELOCK_WRITE ELSE tl[u]]
           fail(e, t) == [err |-> e, tl |-> t, w |-> NoNode, path |-> <<>>]
           new == [u \in Ids |-> IF u \in C THEN tlw[u] + 1 ELSE tlw[u]]
<1>0. a = IF w # NoNode /\ tl[w] # 0 THEN fail("again", WaitFor(tl, w))
          ELSE IF \E u \in named : tlw[u] < 0 THEN fail("again", tl)
          ELSE IF named # C THEN fail("noent", tl)
          ELSE [err |-> "ok", w |-> w, path |-> path, tl |-> new]
  BY DEF LockPath
<1>1. CASE w # NoNode /\ tl[w] # 0
  <2>1. a = fail("again", WaitFor(tl, w))
    BY <1>0, <1>1
  <2>2. WaitFor(tl, w) \in [Ids -> Int]
    BY <1>1 DEF WaitFor, TREELOCK_WAIT_OFFSET
  <2>3. ASSUME NEW n \in Ids PROVE LockVal(WaitFor(tl, w)[n], WN(cl, n), RN(d, cl, n))
    <3>1. LockVal(tl[n], WN(cl, n), RN(d, cl, n)) /\ tl[n] \in Int
      BY DEF LockOk
    <3>2. RN(d, cl, n) \in Nat /\ RN(d, cl, n) < 2147483648
      BY CountBounds
    <3>3. WaitFor(tl, w)[n] = IF n = w /\ tl[n] > 0 THEN tl[n] + TREELOCK_WAIT_OFFSET ELSE tl[n]
      BY DEF WaitFor
    <3> QED BY <3>1, <3>2, <3>3 DEF LockVal, TREELOCK_WAIT_OFFSET, TREELOCK_WRITE
  <2> QED BY <2>1, <2>2, <2>3 DEF LockOk, LockResult
<1>2. CASE ~(w # NoNode /\ tl[w] # 0) /\ \E u \in named : tlw[u] < 0
  BY <1>0, <1>2 DEF LockResult
<1>3. CASE ~(w # NoNode /\ tl[w] # 0) /\ ~(\E u \in named : tlw[u] < 0) /\ named # C
  <2>1. a = fail("noent", tl)
    BY <1>0, <1>3
  <2> QED BY <2>1, <1>3 DEF AllNamed, LockResult
<1>4. CASE ~(w # NoNode /\ tl[w] # 0) /\ ~(\E u \in named : tlw[u] < 0) /\ named = C
  <2>1. a = [err |-> "ok", w |-> w, path |-> path, tl |-> new]
    BY <1>0, <1>4
  <2>2. tlw \in [Ids -> Int] /\ new \in [Ids -> Int]
    BY DEF TREELOCK_WRITE
  <2>3. ASSUME NEW n \in Ids PROVE LockVal(new[n], WN(c2, n), RN(d, c2, n))
    <3>1. LockVal(tl[n], WN(cl, n), RN(d, cl, n)) /\ tl[n] \in Int
      BY DEF LockOk
    <3>2. RN(d, cl, n) \in Nat /\ RN(d, cl, n) < 2147483648 /\ WN(cl, n) \in Nat
      BY CountBounds
    <3>3. w \in Ids => w # NoNode
      BY IdsPlaces
    <3>4. n \in C => tlw[n] >= 0
      BY <1>4, <2>2
    <3>5. n = w => tl[n] = 0 /\ n \notin C
      BY <1>4, <3>3, <3>4 DEF TREELOCK_WRITE
    <3>6. CASE n = w
      <4>1. new[n] = TREELOCK_WRITE /\ RN(d, c2, n) = RN(d, cl, n) /\ WN(c2, n) = WN(cl, n) + 1
        BY <3>5, <3>6, <3>2 DEF In, Takes
      <4> QED BY <4>1, <3>1, <3>2, <3>5, <3>6 DEF LockVal, TREELOCK_WAIT_OFFSET, TREELOCK_WRITE
    <3>7. CASE n # w /\ n \in C
      <4>1. new[n] = tl[n] + 1 /\ RN(d, c2, n) = RN(d, cl, n) + 1 /\ WN(c2, n) = WN(cl, n)
        BY <3>7, <3>2 DEF In, Takes
      <4>2. tl[n] >= 0
        BY <3>4, <3>7
      <4> QED BY <4>1, <4>2, <3>1, <3>2 DEF LockVal, TREELOCK_WAIT_OFFSET, TREELOCK_WRITE
    <3>8. CASE n # w /\ n \notin C
      <4>1. new[n] = tl[n] /\ RN(d, c2, n) = RN(d, cl, n) /\ WN(c2, n) = WN(cl, n)
        BY <3>8, <3>2 DEF In, Takes
      <4> QED BY <4>1, <3>1
    <3> QED BY <3>6, <3>7, <3>8
  <2>4. LockOk(d, new, c2)
    BY <2>3 DEF LockOk
  <2> QED BY <2>1, <2>2, <2>4, <1>4 DEF AllNamed, LockResult
<1> QED BY <1>1, <1>2, <1>3, <1>4

LEMMA UnlockOk ==
  ASSUME NEW d, NEW tl \in [Ids -> Int], NEW cl, NEW c2, NEW x, NEW w, NEW a,
         a = unlock_path(d, tl, x, w), LockOk(d, tl, cl), Takes(d, c2, cl, Chain(d, x), w)
  PROVE  a \in [Ids -> Int] /\ LockOk(d, a, c2)
<1> DEFINE dec(v) == IF v - 1 = TREELOCK_WAIT_OFFSET THEN 0 ELSE v - 1
<1>1. a = [u \in Ids |-> IF u = w THEN 0 ELSE IF u \in Chain(d, x) THEN dec(tl[u]) ELSE tl[u]]
  BY DEF unlock_path
<1>2. a \in [Ids -> Int]
  BY <1>1
<1>3. ASSUME NEW n \in Ids PROVE LockVal(a[n], WN(c2, n), RN(d, c2, n))
  <2>1. LockVal(tl[n], WN(cl, n), RN(d, cl, n)) /\ tl[n] \in Int
    BY DEF LockOk
  <2>2. /\ RN(d, cl, n) \in Nat /\ RN(d, cl, n) < 2147483648 /\ WN(cl, n) \in Nat
        /\ RN(d, c2, n) \in Nat /\ WN(c2, n) \in Nat
    BY CountBounds
  <2>3. CASE n = w
    <3>1. a[n] = 0 /\ WN(cl, n) = WN(c2, n) + 1
      BY <1>1, <2>3 DEF In, Takes
    <3>2. RN(d, cl, n) >= RN(d, c2, n)
      BY <2>2 DEF In, Takes
    <3> QED BY <3>1, <3>2, <2>1, <2>2 DEF LockVal
  <2>4. CASE n # w /\ n \in Chain(d, x)
    <3>1. a[n] = dec(tl[n]) /\ RN(d, cl, n) = RN(d, c2, n) + 1 /\ WN(cl, n) = WN(c2, n)
      BY <1>1, <2>4, <2>2 DEF In, Takes
    <3> QED BY <3>1, <2>1, <2>2 DEF LockVal, TREELOCK_WAIT_OFFSET, TREELOCK_WRITE
  <2>5. CASE n # w /\ n \notin Chain(d, x)
    <3>1. a[n] = tl[n] /\ RN(d, cl, n) = RN(d, c2, n) /\ WN(cl, n) = WN(c2, n)
      BY <1>1, <2>5, <2>2 DEF In, Takes
    <3> QED BY <3>1, <2>1
  <2> QED BY <2>3, <2>4, <2>5
<1> QED BY <1>2, <1>3 DEF LockOk

---------------------------------------------------------------------------
(* The path of a node.  Its equation has a solution: the names of the chain, *)
(* in the order of the lengths of their chains.                              *)

Depth(d, u) == Cardinality(Chain(d, u))
PathNames(d, u) ==
  [i \in 1 .. Depth(d, u) |-> d[CHOOSE v \in Chain(d, u) : Depth(d, v) = i].name]

LEMMA DepthIs ==
  ASSUME NEW d, Tree(d)
  PROVE  /\ \A u \in Places : IsFiniteSet(Chain(d, u)) /\ Depth(d, u) \in Nat
         /\ \A u \in {Root, NoNode} : Depth(d, u) = 0
         /\ \A u \in Ids : Depth(d, u) = Depth(d, d[u].parent) + 1
         /\ \A u \in Places : \A v \in Chain(d, u) : Depth(d, v) <= Depth(d, u)
<1>1. \A u \in Places : IsFiniteSet(Chain(d, u)) /\ Depth(d, u) \in Nat
  BY ChainIds, NodesAssumption, FS_Subset, FS_CardinalityType DEF Depth
<1>2. ASSUME NEW u \in {Root, NoNode} PROVE Depth(d, u) = 0
  BY <1>2, ChainIs, FS_EmptySet DEF Tree, Depth
<1>3. ASSUME NEW u \in Ids PROVE Depth(d, u) = Depth(d, d[u].parent) + 1
  <2>1. /\ Chain(d, u) = Chain(d, d[u].parent) \cup {u} /\ u \notin Chain(d, d[u].parent)
        /\ d[u].parent \in Places
    BY ChainUp, ChainNoLoop
  <2> QED BY <1>1, <2>1, FS_AddElement DEF Depth
<1>4. ASSUME NEW u \in Places, NEW v \in Chain(d, u) PROVE Depth(d, v) <= Depth(d, u)
  <2>1. Chain(d, v) \subseteq Chain(d, u)
    BY ChainTrans
  <2> QED BY <1>1, <2>1, FS_Subset DEF Depth
<1> QED BY <1>1, <1>2, <1>3, <1>4

LEMMA PathNamesStep ==
  ASSUME NEW d, Tree(d), NEW u \in Ids
  PROVE  PathNames(d, u) = Append(PathNames(d, d[u].parent), d[u].name)
<1> DEFINE p == d[u].parent
           N == Depth(d, p)
           pick(v, i) == CHOOSE x \in Chain(d, v) : Depth(d, x) = i
<1>1. p \in Places /\ Chain(d, u) = {u} \cup Chain(d, p) /\ u \in Places
  BY ChainUp, IdsPlaces
<1>2. N \in Nat /\ Depth(d, u) = N + 1 /\ \A v \in Chain(d, p) : Depth(d, v) <= N
  BY <1>1, DepthIs
<1>3. ASSUME NEW i \in 1 .. N PROVE pick(u, i) = pick(p, i)
  <2>1. \A x : (x \in Chain(d, u) /\ Depth(d, x) = i) <=> (x \in Chain(d, p) /\ Depth(d, x) = i)
    BY <1>1, <1>2
  <2> QED BY <2>1
<1>4. pick(u, N + 1) = u
  <2>1. ASSUME NEW x \in Chain(d, u), Depth(d, x) = N + 1 PROVE x = u
    <3> SUFFICES ASSUME x \in Chain(d, p) PROVE FALSE
      BY <1>1, <2>1
    <3>1. Depth(d, x) <= N
      BY <1>2
    <3> QED BY <2>1, <3>1, <1>2
  <2>2. u \in Chain(d, u) /\ Depth(d, u) = N + 1
    BY <1>1, <1>2
  <2> QED BY <2>1, <2>2
<1>5. PathNames(d, u) = [i \in 1 .. (N + 1) |-> d[pick(u, i)].name]
  BY <1>2 DEF PathNames
<1>6. PathNames(d, p) = [i \in 1 .. N |-> d[pick(p, i)].name]
  BY DEF PathNames
<1> HIDE DEF pick, N
<1>7. PathNames(d, p) \in Seq({d[pick(p, i)].name : i \in 1 .. N}) /\ Len(PathNames(d, p)) = N
  BY <1>2, <1>6
<1>8. Append(PathNames(d, p), d[u].name)
        = [i \in 1 .. (N + 1) |-> IF i = N + 1 THEN d[u].name ELSE PathNames(d, p)[i]]
  BY <1>2, <1>7
<1>9. ASSUME NEW i \in 1 .. (N + 1)
      PROVE  d[pick(u, i)].name = IF i = N + 1 THEN d[u].name ELSE PathNames(d, p)[i]
  <2>1. CASE i = N + 1
    BY <2>1, <1>4
  <2>2. CASE i \in 1 .. N
    BY <2>2, <1>2, <1>3, <1>6
  <2> QED BY <2>1, <2>2, <1>2
<1> QED BY <1>5, <1>8, <1>9

LEMMA PathIs ==
  ASSUME NEW d, Tree(d)
  PROVE  /\ \A n \in {Root, NoNode} : PathOf(d, n) = <<>>
         /\ \A n \in Ids : PathOf(d, n) = Append(PathOf(d, d[n].parent), d[n].name)
<1> DEFINE path == CHOOSE f : f = [u \in Places |-> IF u \in {Root, NoNode} THEN <<>>
                                                   ELSE Append(f[d[u].parent], d[u].name)]
           g == [u \in Places |-> PathNames(d, u)]
<1>1. \A n : PathOf(d, n) = path[n]
  BY Zenon DEF PathOf, Places
<1>2. g = [u \in Places |-> IF u \in {Root, NoNode} THEN <<>>
                            ELSE Append(g[d[u].parent], d[u].name)]
  <2>1. ASSUME NEW u \in Places
        PROVE  g[u] = IF u \in {Root, NoNode} THEN <<>> ELSE Append(g[d[u].parent], d[u].name)
    <3>1. CASE u \in {Root, NoNode}
      <4>1. Depth(d, u) = 0
        BY <3>1, DepthIs
      <4>2. PathNames(d, u) = <<>>
        BY <4>1 DEF PathNames
      <4> QED BY <3>1, <4>2
    <3>2. CASE u \in Ids
      <4>1. u \notin {Root, NoNode} /\ d[u].parent \in Places
        BY <3>2, IdsPlaces, ChainUp
      <4>2. g[u] = Append(g[d[u].parent], d[u].name)
        BY <3>2, <4>1, PathNamesStep
      <4> QED BY <4>1, <4>2
    <3> QED BY <3>1, <3>2, IdsPlaces
  <2> QED BY <2>1
<1>3. path = [u \in Places |-> IF u \in {Root, NoNode} THEN <<>>
                               ELSE Append(path[d[u].parent], d[u].name)]
  <2> HIDE DEF g
  <2> QED BY <1>2, Zenon
<1> HIDE DEF path
<1>4. ASSUME NEW n \in {Root, NoNode} PROVE PathOf(d, n) = <<>>
  BY <1>1, <1>3, <1>4, IdsPlaces
<1>5. ASSUME NEW n \in Ids PROVE PathOf(d, n) = Append(PathOf(d, d[n].parent), d[n].name)
  <2>1. n \in Places /\ n \notin {Root, NoNode}
    BY IdsPlaces
  <2> QED BY <1>1, <1>3, <2>1
<1> QED BY <1>4, <1>5

LEMMA PathType ==
  ASSUME NEW d, Tree(d), NEW n \in Places, NEW N, \A u \in Chain(d, n) : d[u].name \in N
  PROVE  PathOf(d, n) \in Seq(N)
<1> DEFINE S == {u \in Ids : (\A x \in Chain(d, u) : d[x].name \in N) /\ PathOf(d, u) \notin Seq(N)}
<1>1. S = {}
  <2> SUFFICES ASSUME S # {} PROVE FALSE
    OBVIOUS
  <2>1. PICK u \in S : d[u].parent \notin S
    BY DEF Tree, WellFounded
  <2>2. /\ d[u].parent \in Places /\ d[u].name \in N
        /\ \A x \in Chain(d, d[u].parent) : d[x].name \in N
    BY ChainUp
  <2>3. PathOf(d, d[u].parent) \in Seq(N)
    <3>1. CASE d[u].parent \in Ids
      BY <3>1, <2>1, <2>2
    <3>2. CASE d[u].parent \in {Root, NoNode}
      <4>1. PathOf(d, d[u].parent) = <<>>
        BY <3>2, PathIs
      <4> QED BY <4>1
    <3> QED BY <3>1, <3>2, <2>2, IdsPlaces
  <2>4. PathOf(d, u) = Append(PathOf(d, d[u].parent), d[u].name)
    BY PathIs
  <2>5. PathOf(d, u) \in Seq(N)
    BY <2>2, <2>3, <2>4
  <2> QED BY <2>5
<1>2. CASE n \in Ids
  BY <1>1, <1>2
<1>3. CASE n \in {Root, NoNode}
  <2>1. PathOf(d, n) = <<>>
    BY <1>3, PathIs
  <2> QED BY <2>1
<1> QED BY <1>2, <1>3, IdsPlaces

\* A path depends on the parents and names along it only.
LEMMA PathFrame ==
  ASSUME NEW d, Tree(d), NEW e, Tree(e), NEW n \in Places,
         \A u \in Chain(d, n) : e[u].parent = d[u].parent /\ e[u].name = d[u].name
  PROVE  PathOf(e, n) = PathOf(d, n)
<1> DEFINE S == {u \in Ids : /\ \A x \in Chain(d, u) : /\ e[x].parent = d[x].parent
                                                      /\ e[x].name = d[x].name
                            /\ PathOf(e, u) # PathOf(d, u)}
<1>1. S = {}
  <2> SUFFICES ASSUME S # {} PROVE FALSE
    OBVIOUS
  <2>1. PICK u \in S : d[u].parent \notin S
    BY DEF Tree, WellFounded
  <2>2. d[u].parent \in Places /\ e[u].parent = d[u].parent /\ e[u].name = d[u].name
    BY <2>1, ChainUp
  <2>3. \A x \in Chain(d, d[u].parent) : e[x].parent = d[x].parent /\ e[x].name = d[x].name
    BY ChainUp
  <2>4. PathOf(e, d[u].parent) = PathOf(d, d[u].parent)
    <3>1. CASE d[u].parent \in Ids
      BY <3>1, <2>1, <2>3
    <3>2. CASE d[u].parent \in {Root, NoNode}
      BY <3>2, PathIs
    <3> QED BY <3>1, <3>2, <2>2, IdsPlaces
  <2> QED BY SMTT(40), <2>2, <2>4, PathIs
<1>2. CASE n \in Ids
  BY <1>1, <1>2
<1>3. CASE n \in {Root, NoNode}
  BY <1>3, PathIs
<1> QED BY <1>2, <1>3, IdsPlaces

---------------------------------------------------------------------------
(* The inductive invariant *)

Children(d, n) == {c \in Ids : d[c].parent = n}
Alive(d, n) == n = Root \/ d[n].nlookup > 0
Named(d, n) == AllNamed(d, Chain(d, n))

NodeType == [parent : Nodes \cup {NoNode}, name : AllNames \cup {NoName}, nlookup : Nat,
             refctr : Nat, open_count : Nat, is_hidden : BOOLEAN, file : Files \cup {NoFile}]

\* The table: a forest, its references counted, no two nodes with the same name.
TreeInv(d) ==
  /\ d \in [Nodes -> NodeType]
  /\ WellFounded(d)
  /\ \A n \in Ids : d[n].refctr = 0 => d[n] = FreeNode
  /\ \A n \in Ids : d[n].parent = NoNode <=> d[n].name = NoName
  /\ d[Root].nlookup = 1 /\ d[Root].parent = NoNode
  /\ \A n \in Nodes :
       d[n].refctr = (IF d[n].nlookup > 0 THEN 1 ELSE 0) + Cardinality(Children(d, n))
  /\ \A a, b \in Ids :
       (d[a].parent # NoNode /\ d[a].parent = d[b].parent /\ d[a].name = d[b].name) => a = b
  /\ \A n \in Ids : d[n].is_hidden => d[n].name \in HiddenNames

InDir == {"lookup", "mknod", "unlink", "rmdir", "rename"}
Ready(r) == r.l /\ (Two(r) => r.l2)

Steps ==
  [lookup  |-> {"wait", "stat", "find", "free"},
   getattr |-> {"wait", "fs"},
   mknod   |-> {"wait", "fs", "stat", "find", "free"},
   link    |-> {"wait", "fs", "stat", "find", "free"},
   unlink  |-> {"wait", "fs", "hidefs", "hidenode", "rm", "table", "free"},
   rename  |-> {"wait", "fs", "hidefs", "hidenode", "rm", "table", "free"},
   rmdir   |-> {"wait", "fs", "table", "free"},
   open    |-> {"wait", "fs", "count", "reply", "rel", "hidunlink", "free"},
   release |-> {"wait", "rel", "hidunlink", "free"},
   forget  |-> {"forget", "fwait"}]

\* What a request asks for.
Asked(r) ==
  /\ r.op \in DOMAIN Steps /\ r.n \in Nodes
  /\ r.op \notin InDir => r.n \in Ids /\ r.m = NoName
  /\ r.op \in InDir => r.m \in Names /\ r.n \in r.mx
  /\ Two(r) => r.n2 \in Nodes /\ r.m2 \in Names /\ r.n2 \in r.mx
  /\ r.op = "rename" => r.fl \in RenameFlags

\* What it has at each of its steps.
Phase(r) ==
  /\ r.at \in Steps[r.op]
  /\ r.at = "wait" /\ r.done => IF r.err THEN ~r.l /\ ~r.l2 ELSE Ready(r)
  /\ r.at # "wait" => r.op \in {"release", "forget"} \/ Ready(r)
  /\ r.op = "forget" => ~r.l /\ ~r.l2 /\ r.kref = {} /\ r.k > 0
  /\ r.ino # NoNode => r.op \in Finding /\ r.at = "free"
  /\ \/ r.op = "forget" \/ r.n \in r.kref
     \/ r.op = "open" /\ r.at \in {"rel", "hidunlink", "free"}
  /\ Two(r) => r.n2 \in r.kref
  /\ r.at \in {"hidefs", "hidenode"} => r.hid \in HiddenNames /\ r.fl # "exchange"
  /\ r.at = "hidunlink" => r.l

Shape(r) == r = NoCall \/ (Asked(r) /\ Phase(r))

\* What a request that has locked a path relies on.
OnlyChild(d, n, m, w) == \A c \in Ids : d[c].parent = n /\ d[c].name = m => c = w

Locks(d, r) ==
  /\ (~r.l \/ ~Wr(r) => r.w = NoNode) /\ (~r.l2 \/ ~Wr(r) => r.w2 = NoNode)
  /\ r.l => Alive(d, r.n) /\ Named(d, r.n) /\ r.p = PathFor(d, r.n, r.m)
  /\ r.l2 => Two(r) /\ Alive(d, r.n2) /\ Named(d, r.n2) /\ r.p2 = PathFor(d, r.n2, r.m2)
  /\ r.w # NoNode => d[r.w].nlookup > 0
  /\ r.w2 # NoNode => d[r.w2].nlookup > 0
  /\ r.w # NoNode => d[r.w].parent \in {NoNode, r.n} \/ (r.l2 /\ d[r.w].parent = r.n2)
  /\ r.w2 # NoNode => d[r.w2].parent \in {NoNode, r.n2} \/ (r.l /\ d[r.w2].parent = r.n)
  /\ Wr(r) /\ r.l /\ r.at # "free" => OnlyChild(d, r.n, r.m, r.w)
  /\ Wr(r) /\ r.l2 /\ r.at # "free" => OnlyChild(d, r.n2, r.m2, r.w2)
  /\ r.at \in {"hidefs", "hidenode"} =>
       \A c \in Ids : ~(d[c].parent = Victim(r).dir /\ d[c].name = r.hid)
  /\ r.at = "hidunlink" => d[r.n].name \in HiddenNames
  /\ r.at = "wait" /\ r.done /\ r.err => ~Named(d, r.n) \/ (Two(r) /\ ~Named(d, r.n2))

Calls(d, cl) == \A t \in Threads : Shape(cl[t]) /\ Locks(d, cl[t])

\* What the kernel keeps until it has the answer.
KernelInv(cl, kn, ko) ==
  /\ \A t, u \in Threads : t # u => cl[t].mx \cap cl[u].mx = {}
  /\ \A t \in Threads : \A n \in cl[t].kref \cap Ids : kn[n] > 0
  /\ \A n \in Ids : ko[n] > 0 => kn[n] > 0

\* The queue has the threads that wait, each once.
Waits(r) == r.at \in {"wait", "fwait"}
QueueInv(q, cl) ==
  /\ \A i, j \in DOMAIN q : q[i] = q[j] => i = j
  /\ \A t \in Threads : Waits(cl[t]) <=> \E i \in DOMAIN q : q[i] = t

Finders(cl, n) == {t \in Threads : cl[t].ino = n}
Forgetters(cl, n) ==
  UNION {{t} \X (1 .. cl[t].k) : t \in {u \in Threads : cl[u].op = "forget" /\ cl[u].n = n}}
OpenAt(r) == \/ r.op = "open" /\ r.at = "reply"
             \/ r.op \in {"open", "release"} /\ r.at = "rel"
             \/ r.op = "release" /\ r.at = "wait"
Openers(cl, n) == {t \in Threads : cl[t].n = n /\ OpenAt(cl[t])}

\* The nodes it means to write-lock.
Target(d, r, c) == \/ d[c].parent = r.n /\ d[c].name = r.m
                   \/ Two(r) /\ d[c].parent = r.n2 /\ d[c].name = r.m2

\* What a waiting request means to write-lock, the kernel keeps.
Targets(d, cl) ==
  \A t \in Threads : Wr(cl[t]) /\ cl[t].at = "wait" =>
    \A c \in Ids : Target(d, cl[t], c) => c \in cl[t].kref

Counts(d, cl, kn, ko) ==
  \A n \in Ids :
    /\ d[n].nlookup = kn[n] + Cardinality(Finders(cl, n)) + Cardinality(Forgetters(cl, n))
    /\ d[n].open_count = ko[n] + Cardinality(Openers(cl, n))

Inv ==
  /\ TypeOK /\ TreeInv(nd) /\ Calls(nd, call) /\ KernelInv(call, knows, kopen)
  /\ QueueInv(lockq, call) /\ LockOk(nd, treelock, call) /\ Counts(nd, call, knows, kopen)
  /\ Targets(nd, call)

LEMMA InvGives == Inv => LocksExact /\ CountsExact
<1> SUFFICES ASSUME Inv PROVE LocksExact /\ CountsExact
  OBVIOUS
<1>1. LocksExact
  BY LocksAre DEF Inv
<1>2. ASSUME NEW n \in Ids
      PROVE  /\ Finders(call, n) = {t \in Threads : call[t].ino = n}
             /\ Forgetters(call, n) = Forgetting(n)
             /\ Openers(call, n) = {t \in Threads :
                  /\ call[t].n = n
                  /\ \/ At(t, {"open"}, "reply") \/ At(t, {"open", "release"}, "rel")
                     \/ At(t, {"release"}, "wait")}
  <2>1. \A t \in Threads : OpenAt(call[t]) <=> (\/ At(t, {"open"}, "reply")
          \/ At(t, {"open", "release"}, "rel") \/ At(t, {"release"}, "wait"))
    BY DEF OpenAt, At
  <2> QED BY <2>1 DEF Finders, Forgetters, Forgetting, Openers
<1>3. ASSUME NEW n \in Ids
      PROVE  nd[n].refctr = (IF nd[n].nlookup > 0 THEN 1 ELSE 0)
                            + Cardinality({c \in Ids : nd[c].parent = n})
  BY IdsPlaces DEF Inv, TreeInv, Children
<1>4. TypeOK /\ Counts(nd, call, knows, kopen)
  BY DEF Inv
<1>5. CountsExact
  BY <1>2, <1>3, <1>4 DEF CountsExact, Counts
<1> QED BY <1>1, <1>5

---------------------------------------------------------------------------
(* Tries at the paths of a request *)

LEMMA InvTree == ASSUME NEW d, TreeInv(d) PROVE Tree(d)
BY DEF TreeInv, Tree, Parents, NodeType, Places, Nodes

LEMMA LookupIs ==
  ASSUME NEW d, TreeInv(d), NEW n \in Nodes, NEW m, NEW c, c = lookup_node(d, n, m)
  PROVE  /\ c \in Ids \cup {NoNode} /\ OnlyChild(d, n, m, c)
         /\ c # NoNode => c \in Ids /\ d[c].parent = n /\ d[c].name = m
<1> DEFINE found == {x \in Ids : d[x].parent = n /\ d[x].name = m}
<1>1. c = IF found = {} THEN NoNode ELSE CHOOSE x \in found : TRUE
  BY DEF lookup_node
<1>2. CASE found = {}
  BY <1>1, <1>2 DEF OnlyChild
<1>3. CASE found # {}
  <2>1. c \in found
    BY <1>1, <1>3
  <2>2. n # NoNode
    BY IdsPlaces DEF Nodes
  <2>3. \A x \in Ids : d[x].parent = n /\ d[x].name = m => x = c
    BY <2>1, <2>2 DEF TreeInv
  <2> QED BY <2>1, <2>3 DEF OnlyChild
<1> QED BY <1>2, <1>3

LEMMA PathForType ==
  ASSUME NEW d, TreeInv(d), NEW n \in Nodes, NEW m \in Names \cup {NoName}, Named(d, n)
  PROVE  PathFor(d, n, m) \in Seq(AllNames)
<1>1. n \in Places /\ Tree(d)
  BY IdsPlaces, InvTree
<1>2. \A u \in Chain(d, n) : d[u].name \in AllNames
  <2> SUFFICES ASSUME NEW u \in Chain(d, n) PROVE d[u].name \in AllNames
    OBVIOUS
  <2>1. u \in Nodes /\ d[u].name # NoName
    BY <1>1, ChainIds, IdsPlaces DEF Named, AllNamed
  <2> QED BY <2>1 DEF TreeInv, NodeType
<1>3. PathOf(d, n) \in Seq(AllNames)
  BY <1>1, <1>2, PathType
<1> QED BY <1>3, NamesAssumption DEF PathFor, AllNames

\* What locking leaves alone in a request.
Same(r, q) ==
  /\ r.op = q.op /\ r.at = q.at /\ r.n = q.n /\ r.m = q.m /\ r.n2 = q.n2 /\ r.m2 = q.m2
  /\ r.fl = q.fl /\ r.ino = q.ino /\ r.hid = q.hid /\ r.k = q.k
  /\ r.mx = q.mx /\ r.kref = q.kref

Lockable(d, r) ==
  /\ Asked(r) /\ Alive(d, r.n) /\ (Two(r) => Alive(d, r.n2))
  /\ Wr(r) => \A c \in Ids : Target(d, r, c) => d[c].nlookup > 0

\* The locks with request r of thread t, and what r relies on.
Held(d, tl, cl, t, r) ==
  /\ tl \in [Ids -> Int] /\ r \in CallType
  /\ LockOk(d, tl, [cl EXCEPT ![t] = r]) /\ Locks(d, r)

LEMMA CallTypes ==
  ASSUME NEW r \in CallType, NEW w \in Ids \cup {NoNode}, NEW path \in Seq(AllNames)
  PROVE  /\ [r EXCEPT !.l = TRUE, !.w = w, !.p = path] \in CallType
         /\ [r EXCEPT !.l2 = TRUE, !.w2 = w, !.p2 = path] \in CallType
<1>1. [r EXCEPT !.l = TRUE, !.w = w, !.p = path] \in CallType
  BY ZenonT(40) DEF CallType
<1>2. [r EXCEPT !.l2 = TRUE, !.w2 = w, !.p2 = path] \in CallType
  BY ZenonT(40) DEF CallType
<1> QED BY <1>1, <1>2

FirstTaken(cl, t, r, w, path, b, q) ==
  /\ b.err \in {"ok", "again", "noent"}
  /\ b.err = "ok" => /\ b.w = w /\ b.path = path
                     /\ Held(nd, b.tl, cl, t, q) /\ Same(q, r) /\ q.l
                     /\ q.l2 = r.l2 /\ q.done = r.done /\ q.err = r.err
  /\ b.err # "ok" => Held(nd, b.tl, cl, t, r)
  /\ b.err = "noent" => ~Named(nd, r.n)

LEMMA TakeFirst ==
  ASSUME TreeInv(nd), NEW t \in Threads, NEW cl \in [Threads -> CallType], NEW tl, NEW r,
         Held(nd, tl, cl, t, r), Lockable(nd, r), ~r.l,
         NEW w, w = IF Wr(r) THEN lookup_node(nd, r.n, r.m) ELSE NoNode,
         NEW path, path = PathFor(nd, r.n, r.m),
         NEW b, b = LockPath(nd, tl, Chain(nd, r.n), w, path),
         NEW q, q = [r EXCEPT !.l = TRUE, !.w = w, !.p = path]
  PROVE  FirstTaken(cl, t, r, w, path, b, q)
<1>1. /\ r \in CallType /\ r.n \in Nodes /\ tl \in [Ids -> Int] /\ Locks(nd, r)
      /\ LockOk(nd, tl, [cl EXCEPT ![t] = r]) /\ r.n \in Places /\ Tree(nd)
  BY IdsPlaces, InvTree DEF Held, Lockable, Asked
<1>2. /\ w \in Ids \cup {NoNode} /\ (w # NoNode => nd[w].parent = r.n)
      /\ (Wr(r) => OnlyChild(nd, r.n, r.m, w)) /\ (~Wr(r) => w = NoNode)
      /\ w # NoNode => nd[w].nlookup > 0
  BY <1>1, LookupIs DEF Lockable, Target
<1>3. Chain(nd, r.n) \in SUBSET Ids
  BY <1>1, ChainIds
<1>4. Takes(nd, [cl EXCEPT ![t] = r], [cl EXCEPT ![t] = q], Chain(nd, r.n), w)
  <2> DEFINE c1 == [cl EXCEPT ![t] = r]
             c2 == [cl EXCEPT ![t] = q]
  <2>1. \A u \in Threads \ {t} : c2[u] = c1[u]
    OBVIOUS
  <2>2. /\ ~c1[t].l /\ c2[t].l /\ c2[t].l2 = c1[t].l2 /\ c2[t].n2 = c1[t].n2
        /\ c2[t].w2 = c1[t].w2 /\ c2[t].n = r.n /\ c2[t].w = w
    BY <1>1 DEF CallType
  <2> HIDE DEF c1, c2
  <2>3. ASSUME NEW n \in Ids
        PROVE  /\ RN(nd, c2, n) = RN(nd, c1, n) + In(n, Chain(nd, c2[t].n))
               /\ WN(c2, n) = WN(c1, n) + In(n, {c2[t].w})
    BY <2>1, <2>2, FirstCounts
  <2>4. Takes(nd, c1, c2, Chain(nd, r.n), w)
    BY <2>2, <2>3 DEF Takes
  <2> QED BY <2>4 DEF c1, c2
<1>5. LockResult(nd, [cl EXCEPT ![t] = r], [cl EXCEPT ![t] = q], Chain(nd, r.n), w, path, b)
  BY <1>1, <1>2, <1>3, <1>4, LockPathOk
<1>6. CASE b.err # "ok"
  BY <1>1, <1>5, <1>6 DEF Held, Named, LockResult, FirstTaken
<1>7. CASE b.err = "ok"
  <2>1. Named(nd, r.n)
    BY <1>5, <1>7 DEF Named, LockResult
  <2>2. path \in Seq(AllNames)
    BY <1>1, <2>1, PathForType DEF CallType
  <2>3. q \in CallType
    BY <1>1, <1>2, <2>2, CallTypes
  <2>4. /\ Same(q, r) /\ q.l2 = r.l2 /\ q.done = r.done /\ q.err = r.err /\ q.l
        /\ q.w = w /\ q.p = path /\ q.w2 = r.w2 /\ q.p2 = r.p2
    BY <1>1 DEF CallType, Same
  <2>5. Wr(q) = Wr(r) /\ Two(q) = Two(r) /\ Victim(q).dir = Victim(r).dir
    BY <2>4 DEF Wr, Two, Same, Victim
  <2>6. Locks(nd, q)
    BY ZenonT(40), <1>1, <1>2, <2>1, <2>4, <2>5 DEF Locks, Same, Lockable
  <2> QED BY <1>5, <1>7, <2>3, <2>4, <2>6 DEF Held, LockResult, FirstTaken
<1> QED BY <1>6, <1>7

SecondTaken(cl, t, r, w, path, b, q) ==
  /\ b.err \in {"ok", "again", "noent"}
  /\ b.err = "ok" => /\ b.w = w /\ b.path = path
                     /\ Held(nd, b.tl, cl, t, q) /\ Same(q, r) /\ q.l2
                     /\ q.l = r.l /\ q.done = r.done /\ q.err = r.err
  /\ b.err # "ok" => Held(nd, b.tl, cl, t, r)
  /\ b.err = "noent" => ~Named(nd, r.n2)

LEMMA TakeSecond ==
  ASSUME TreeInv(nd), NEW t \in Threads, NEW cl \in [Threads -> CallType], NEW tl, NEW r,
         Held(nd, tl, cl, t, r), Lockable(nd, r), Two(r), ~r.l2,
         NEW w, w = IF Wr(r) THEN lookup_node(nd, r.n2, r.m2) ELSE NoNode,
         NEW path, path = PathFor(nd, r.n2, r.m2),
         NEW b, b = LockPath(nd, tl, Chain(nd, r.n2), w, path),
         NEW q, q = [r EXCEPT !.l2 = TRUE, !.w2 = w, !.p2 = path]
  PROVE  SecondTaken(cl, t, r, w, path, b, q)
<1>1. /\ r \in CallType /\ r.n2 \in Nodes /\ tl \in [Ids -> Int] /\ Locks(nd, r)
      /\ LockOk(nd, tl, [cl EXCEPT ![t] = r]) /\ r.n2 \in Places /\ Tree(nd)
  BY IdsPlaces, InvTree DEF Held, Lockable, Asked
<1>2. /\ w \in Ids \cup {NoNode} /\ (w # NoNode => nd[w].parent = r.n2)
      /\ (Wr(r) => OnlyChild(nd, r.n2, r.m2, w)) /\ (~Wr(r) => w = NoNode)
      /\ w # NoNode => nd[w].nlookup > 0
  BY <1>1, LookupIs DEF Lockable, Target
<1>3. Chain(nd, r.n2) \in SUBSET Ids
  BY <1>1, ChainIds
<1>4. Takes(nd, [cl EXCEPT ![t] = r], [cl EXCEPT ![t] = q], Chain(nd, r.n2), w)
  <2> DEFINE c1 == [cl EXCEPT ![t] = r]
             c2 == [cl EXCEPT ![t] = q]
  <2>1. \A u \in Threads \ {t} : c2[u] = c1[u]
    OBVIOUS
  <2>2. /\ ~c1[t].l2 /\ c2[t].l2 /\ c2[t].l = c1[t].l /\ c2[t].n = c1[t].n
        /\ c2[t].w = c1[t].w /\ c2[t].n2 = r.n2 /\ c2[t].w2 = w
    BY <1>1 DEF CallType
  <2> HIDE DEF c1, c2
  <2>3. ASSUME NEW n \in Ids
        PROVE  /\ RN(nd, c2, n) = RN(nd, c1, n) + In(n, Chain(nd, c2[t].n2))
               /\ WN(c2, n) = WN(c1, n) + In(n, {c2[t].w2})
    BY <2>1, <2>2, SecondCounts
  <2>4. Takes(nd, c1, c2, Chain(nd, r.n2), w)
    BY <2>2, <2>3 DEF Takes
  <2> QED BY <2>4 DEF c1, c2
<1>5. LockResult(nd, [cl EXCEPT ![t] = r], [cl EXCEPT ![t] = q], Chain(nd, r.n2), w, path, b)
  BY <1>1, <1>2, <1>3, <1>4, LockPathOk
<1>6. CASE b.err # "ok"
  BY <1>1, <1>5, <1>6 DEF Held, Named, LockResult, SecondTaken
<1>7. CASE b.err = "ok"
  <2>1. Named(nd, r.n2)
    BY <1>5, <1>7 DEF Named, LockResult
  <2>2. path \in Seq(AllNames)
    BY <1>1, <2>1, PathForType DEF Lockable, Asked
  <2>3. q \in CallType
    BY <1>1, <1>2, <2>2, CallTypes
  <2>4. /\ Same(q, r) /\ q.l = r.l /\ q.done = r.done /\ q.err = r.err /\ q.l2
        /\ q.w2 = w /\ q.p2 = path /\ q.w = r.w /\ q.p = r.p
    BY <1>1 DEF CallType, Same
  <2>5. Wr(q) = Wr(r) /\ Two(q) = Two(r) /\ Victim(q).dir = Victim(r).dir
    BY <2>4 DEF Wr, Two, Same, Victim
  <2>6. Locks(nd, q)
    BY ZenonT(40), <1>1, <1>2, <2>1, <2>4, <2>5 DEF Locks, Same, Lockable
  <2> QED BY <1>5, <1>7, <2>3, <2>4, <2>6 DEF Held, LockResult, SecondTaken
<1> QED BY <1>6, <1>7

FirstTried(cl, t, s, a) ==
  /\ Held(nd, a.tl, cl, t, a.r) /\ Same(a.r, s.r)
  /\ a.r.l2 = s.r.l2 /\ a.r.done = s.r.done /\ a.r.err = s.r.err
  /\ a.err \in {"ok", "again", "noent"} /\ (a.err = "ok" <=> a.r.l)
  /\ a.err = "noent" => ~Named(nd, s.r.n)

LEMMA TryFirstOk ==
  ASSUME TreeInv(nd), NEW t \in Threads, NEW cl \in [Threads -> CallType], NEW s, s.err = "ok",
         Held(nd, s.tl, cl, t, s.r), Lockable(nd, s.r), NEW a, a = TryFirst(s)
  PROVE  FirstTried(cl, t, s, a)
<1>1. CASE s.r.l
  <2>1. a = s
    BY <1>1 DEF TryFirst
  <2> QED BY <2>1, <1>1 DEF Same, FirstTried
<1>2. CASE ~s.r.l
  <2>1. PICK w : w = IF Wr(s.r) THEN lookup_node(nd, s.r.n, s.r.m) ELSE NoNode
    OBVIOUS
  <2>2. PICK path : path = PathFor(nd, s.r.n, s.r.m)
    OBVIOUS
  <2>3. PICK b : b = LockPath(nd, s.tl, Chain(nd, s.r.n), w, path)
    OBVIOUS
  <2>4. PICK q : q = [s.r EXCEPT !.l = TRUE, !.w = w, !.p = path]
    OBVIOUS
  <2>5. FirstTaken(cl, t, s.r, w, path, b, q)
    BY <1>2, <2>1, <2>2, <2>3, <2>4, TakeFirst
  <2>6. a = Took(s, b)
    BY <1>2, <2>1, <2>2, <2>3 DEF TryFirst, try_get_path
  <2>7. CASE b.err = "ok"
    <3>1. a.tl = b.tl /\ a.err = "ok" /\ a.r = q
      <4>1. b.w = w /\ b.path = path
        BY <2>5, <2>7 DEF FirstTaken
      <4> QED BY <2>4, <2>6, <2>7, <4>1 DEF Took
    <3> QED BY <2>5, <2>7, <3>1 DEF FirstTaken, FirstTried
  <2>8. CASE b.err # "ok"
    <3>1. a.tl = b.tl /\ a.err = b.err /\ a.r = s.r
      BY <2>6, <2>8 DEF Took
    <3> QED BY <2>5, <2>8, <3>1, <1>2 DEF Same, FirstTaken, FirstTried
  <2> QED BY <2>7, <2>8
<1> QED BY <1>1, <1>2

SecondTried(cl, t, s, a) ==
  /\ Held(nd, a.tl, cl, t, a.r) /\ Same(a.r, s.r)
  /\ a.r.l = s.r.l /\ a.r.done = s.r.done /\ a.r.err = s.r.err
  /\ \/ a.err = s.err /\ a.r.l2
     \/ a.err = "again" /\ ~a.r.l2
     \/ a.err = "noent" /\ ~a.r.l2 /\ ~Named(nd, s.r.n2)

LEMMA TrySecondOk ==
  ASSUME TreeInv(nd), NEW t \in Threads, NEW cl \in [Threads -> CallType], NEW s, Two(s.r),
         Held(nd, s.tl, cl, t, s.r), Lockable(nd, s.r), NEW a, a = TrySecond(s)
  PROVE  SecondTried(cl, t, s, a)
<1>1. CASE s.r.l2
  <2>1. a = s
    BY <1>1 DEF TrySecond
  <2> QED BY <2>1, <1>1 DEF Same, SecondTried
<1>2. CASE ~s.r.l2
  <2>1. PICK w : w = IF Wr(s.r) THEN lookup_node(nd, s.r.n2, s.r.m2) ELSE NoNode
    OBVIOUS
  <2>2. PICK path : path = PathFor(nd, s.r.n2, s.r.m2)
    OBVIOUS
  <2>3. PICK b : b = LockPath(nd, s.tl, Chain(nd, s.r.n2), w, path)
    OBVIOUS
  <2>4. PICK q : q = [s.r EXCEPT !.l2 = TRUE, !.w2 = w, !.p2 = path]
    OBVIOUS
  <2>5. SecondTaken(cl, t, s.r, w, path, b, q)
    BY <1>2, <2>1, <2>2, <2>3, <2>4, TakeSecond
  <2>6. a = Took2(s, b)
    BY <1>2, <2>1, <2>2, <2>3 DEF TrySecond, try_get_path
  <2>7. CASE b.err = "ok"
    <3>1. a.tl = b.tl /\ a.err = s.err /\ a.r = q
      <4>1. b.w = w /\ b.path = path
        BY <2>5, <2>7 DEF SecondTaken
      <4> QED BY <2>4, <2>6, <2>7, <4>1 DEF Took2
    <3> QED BY <2>5, <2>7, <3>1 DEF SecondTaken, SecondTried
  <2>8. CASE b.err # "ok"
    <3>1. a.tl = b.tl /\ a.err = b.err /\ a.r = s.r
      BY <2>6, <2>8 DEF Took2
    <3> QED BY <2>5, <2>8, <3>1, <1>2 DEF Same, SecondTaken, SecondTried
  <2> QED BY <2>7, <2>8
<1> QED BY <1>1, <1>2

\* Locks given up: the ones of the request, whatever it is then.
LEMMA UnlockedOk ==
  ASSUME TreeInv(nd), NEW t \in Threads, NEW cl \in [Threads -> CallType], NEW tl, NEW r,
         Held(nd, tl, cl, t, r), NEW q, ~q.l, ~q.l2, NEW a, a = Unlock(tl, r)
  PROVE  a \in [Ids -> Int] /\ LockOk(nd, a, [cl EXCEPT ![t] = q])
<1> DEFINE half == [r EXCEPT !.l = FALSE]
<1>1. PICK c1 : c1 = [cl EXCEPT ![t] = r]
  OBVIOUS
<1>2. PICK c2 : c2 = [cl EXCEPT ![t] = half]
  OBVIOUS
<1>3. PICK c3 : c3 = [cl EXCEPT ![t] = q]
  OBVIOUS
<1>4. PICK one : one = IF r.l THEN unlock_path(nd, tl, r.n, r.w) ELSE tl
  OBVIOUS
<1>5. a = IF r.l2 THEN unlock_path(nd, one, r.n2, r.w2) ELSE one
  BY <1>4 DEF Unlock
<1>6. r \in CallType /\ tl \in [Ids -> Int] /\ LockOk(nd, tl, c1)
  BY <1>1 DEF Held
<1>7. /\ \A u \in Threads \ {t} : c1[u] = c2[u] /\ c3[u] = c2[u]
      /\ c1[t] = r /\ c2[t] = half /\ c3[t] = q
  BY <1>1, <1>2, <1>3
<1>8. ~half.l /\ half.l2 = r.l2 /\ half.n2 = r.n2 /\ half.w2 = r.w2
  BY <1>6 DEF CallType
<1> HIDE DEF half
<1>9. one \in [Ids -> Int] /\ LockOk(nd, one, c2)
  <2>1. CASE r.l
    <3>1. ASSUME NEW n \in Ids
          PROVE  /\ RN(nd, c1, n) = RN(nd, c2, n) + In(n, Chain(nd, c1[t].n))
                 /\ WN(c1, n) = WN(c2, n) + In(n, {c1[t].w})
      BY <2>1, <1>7, <1>8, FirstCounts
    <3>2. Takes(nd, c2, c1, Chain(nd, r.n), r.w)
      BY <3>1, <1>7 DEF Takes
    <3> QED BY <3>2, <2>1, <1>4, <1>6, UnlockOk
  <2>2. CASE ~r.l
    <3>1. \A n \in Ids : RN(nd, c2, n) = RN(nd, c1, n) /\ WN(c2, n) = WN(c1, n)
      <4>1. ASSUME NEW n \in Ids
            PROVE  /\ R1(nd, c2, n) = R1(nd, c1, n) /\ R2(nd, c2, n) = R2(nd, c1, n)
                   /\ W1(c2, n) = W1(c1, n) /\ W2(c2, n) = W2(c1, n)
        BY <2>2, <1>7, <1>8 DEF R1, R2, W1, W2
      <4> QED BY <4>1 DEF RN, WN
    <3> QED BY <2>2, <3>1, <1>4, <1>6 DEF LockOk
  <2> QED BY <2>1, <2>2
<1>10. ASSUME r.l2 PROVE a \in [Ids -> Int] /\ LockOk(nd, a, c3)
  <2>1. ASSUME NEW n \in Ids
        PROVE  /\ RN(nd, c2, n) = RN(nd, [c2 EXCEPT ![t].l2 = FALSE], n)
                                  + In(n, Chain(nd, c2[t].n2))
               /\ WN(c2, n) = WN([c2 EXCEPT ![t].l2 = FALSE], n) + In(n, {c2[t].w2})
               /\ RN(nd, [c2 EXCEPT ![t].l2 = FALSE], n) = RN(nd, c3, n)
               /\ WN([c2 EXCEPT ![t].l2 = FALSE], n) = WN(c3, n)
    <3> DEFINE c4 == [c2 EXCEPT ![t].l2 = FALSE]
    <3>1. half \in CallType
      BY ZenonT(40), <1>6 DEF CallType, half
    <3>2. /\ \A u \in Threads \ {t} : c2[u] = c4[u]
          /\ ~c4[t].l2 /\ c2[t].l2 /\ c2[t].l = c4[t].l /\ c2[t].n = c4[t].n
          /\ c2[t].w = c4[t].w
      BY <1>2, <1>7, <1>8, <1>10, <3>1 DEF CallType
    <3> HIDE DEF c4
    <3>3. /\ RN(nd, c2, n) = RN(nd, c4, n) + In(n, Chain(nd, c2[t].n2))
          /\ WN(c2, n) = WN(c4, n) + In(n, {c2[t].w2})
      BY <1>7, <1>8, <1>10, <3>2, SecondCounts
    <3>4. /\ R1(nd, c4, n) = R1(nd, c3, n) /\ R2(nd, c4, n) = R2(nd, c3, n)
          /\ W1(c4, n) = W1(c3, n) /\ W2(c4, n) = W2(c3, n)
      BY <1>7, <1>8, <3>2 DEF R1, R2, W1, W2
    <3>5. RN(nd, c4, n) = RN(nd, c3, n) /\ WN(c4, n) = WN(c3, n)
      BY <3>4 DEF RN, WN
    <3> QED BY <3>3, <3>5 DEF c4
  <2>2. Takes(nd, c3, c2, Chain(nd, r.n2), r.w2)
    BY <2>1, <1>7, <1>8 DEF Takes
  <2> QED BY <2>2, <1>5, <1>9, <1>10, UnlockOk
<1>11. ASSUME ~r.l2 PROVE a \in [Ids -> Int] /\ LockOk(nd, a, c3)
  <2>1. ASSUME NEW n \in Ids
        PROVE  /\ R1(nd, c2, n) = R1(nd, c3, n) /\ R2(nd, c2, n) = R2(nd, c3, n)
               /\ W1(c2, n) = W1(c3, n) /\ W2(c2, n) = W2(c3, n)
    BY <1>7, <1>8, <1>11 DEF R1, R2, W1, W2
  <2>2. \A n \in Ids : RN(nd, c2, n) = RN(nd, c3, n) /\ WN(c2, n) = WN(c3, n)
    BY <2>1 DEF RN, WN
  <2> QED BY <2>2, <1>5, <1>9, <1>11 DEF LockOk
<1> QED BY <1>3, <1>10, <1>11

\* The locks depend on what the requests hold only.
LEMMA LockFrame ==
  ASSUME NEW d, NEW e, NEW tl, NEW cl, NEW c2, LockOk(d, tl, cl),
         \A u \in Threads :
           /\ cl[u].l <=> c2[u].l
           /\ cl[u].l2 <=> c2[u].l2
           /\ cl[u].l => c2[u].w = cl[u].w /\ Chain(e, c2[u].n) = Chain(d, cl[u].n)
           /\ cl[u].l2 => c2[u].w2 = cl[u].w2 /\ Chain(e, c2[u].n2) = Chain(d, cl[u].n2)
  PROVE  LockOk(e, tl, c2)
<1>1. ASSUME NEW n \in Ids
      PROVE  /\ R1(e, c2, n) = R1(d, cl, n) /\ R2(e, c2, n) = R2(d, cl, n)
             /\ W1(c2, n) = W1(cl, n) /\ W2(c2, n) = W2(cl, n)
  BY DEF R1, R2, W1, W2
<1>2. \A n \in Ids : RN(e, c2, n) = RN(d, cl, n) /\ WN(c2, n) = WN(cl, n)
  BY <1>1 DEF RN, WN
<1> QED BY <1>2 DEF LockOk

\* What is write-locked is read by nobody, and a node somebody reads is locked.
LEMMA LockedBy ==
  ASSUME NEW d, NEW tl, NEW cl, LockOk(d, tl, cl), NEW n \in Ids
  PROVE  /\ tl[n] = 0 => R1(d, cl, n) = {} /\ R2(d, cl, n) = {}
         /\ W1(cl, n) \cup W2(cl, n) # {} =>
              R1(d, cl, n) = {} /\ R2(d, cl, n) = {} /\ Cardinality(W1(cl, n) \cup W2(cl, n)) = 1
         /\ R1(d, cl, n) \cup R2(d, cl, n) \cup W1(cl, n) \cup W2(cl, n) = {} => tl[n] = 0
<1>1. LockVal(tl[n], WN(cl, n), RN(d, cl, n))
  BY DEF LockOk
<1>2. /\ RN(d, cl, n) \in Nat /\ RN(d, cl, n) < 2147483648 /\ WN(cl, n) \in Nat
      /\ RN(d, cl, n) = 0 <=> R1(d, cl, n) = {} /\ R2(d, cl, n) = {}
      /\ WN(cl, n) = 0 <=> W1(cl, n) = {} /\ W2(cl, n) = {}
  BY CountBounds, SMT
<1>3. CASE W1(cl, n) \cup W2(cl, n) # {}
  <2>1. WN(cl, n) = 1 /\ RN(d, cl, n) = 0 /\ tl[n] = TREELOCK_WRITE
    BY <1>1, <1>2, <1>3, SMT DEF LockVal
  <2>2. /\ W1(cl, n) \in SUBSET Threads /\ W2(cl, n) \in SUBSET Threads
        /\ IsFiniteSet(W1(cl, n)) /\ IsFiniteSet(W2(cl, n))
    BY ThreadsAssumption, FS_Subset DEF W1, W2
  <2>3. /\ Cardinality(W1(cl, n)) \in Nat /\ Cardinality(W2(cl, n)) \in Nat
        /\ Cardinality(W1(cl, n)) + Cardinality(W2(cl, n)) = 1
        /\ Cardinality(W1(cl, n)) = 0 <=> W1(cl, n) = {}
        /\ Cardinality(W2(cl, n)) = 0 <=> W2(cl, n) = {}
    BY <2>1, <2>2, ThreadCount DEF WN
  <2>4. CASE W1(cl, n) = {}
    <3>1. W1(cl, n) \cup W2(cl, n) = W2(cl, n) /\ Cardinality(W2(cl, n)) = 1
      BY <2>3, <2>4
    <3> QED BY <3>1, <2>1, <1>2, <1>3, SMT DEF TREELOCK_WRITE
  <2>5. CASE W1(cl, n) # {}
    <3>1. W2(cl, n) = {}
      BY <2>3, <2>5
    <3>2. W1(cl, n) \cup W2(cl, n) = W1(cl, n) /\ Cardinality(W1(cl, n)) = 1
      BY <2>3, <3>1
    <3> QED BY <3>2, <2>1, <1>2, <1>3, SMT DEF TREELOCK_WRITE
  <2> QED BY <2>4, <2>5
<1>4. CASE W1(cl, n) \cup W2(cl, n) = {}
  <2>1. WN(cl, n) = 0
    BY <1>2, <1>4, SMT
  <2>2. \/ tl[n] = RN(d, cl, n)
        \/ RN(d, cl, n) > 0 /\ tl[n] = RN(d, cl, n) - 2147483648
    BY <1>1, <1>2, <2>1, SMT DEF LockVal, TREELOCK_WAIT_OFFSET
  <2>3. tl[n] = 0 <=> RN(d, cl, n) = 0
    BY <2>2, <1>2, SMT
  <2> QED BY <2>3, <1>2, <1>4, SMT
<1> QED BY <1>3, <1>4

\* Below a node that has lost its name nothing is locked.
LEMMA DoomedFree ==
  ASSUME TreeInv(nd), NEW tl, NEW cl \in [Threads -> CallType], LockOk(nd, tl, cl),
         \A u \in Threads : Locks(nd, cl[u]),
         NEW v \in Ids, nd[v].name # NoName, ~Named(nd, v)
  PROVE  tl[v] = 0
<1>1. Tree(nd)
  BY InvTree
<1>2. ASSUME NEW x \in Places, Named(nd, x) PROVE v \notin Chain(nd, x)
  <2> SUFFICES ASSUME v \in Chain(nd, x) PROVE FALSE
    OBVIOUS
  <2>1. Chain(nd, v) \subseteq Chain(nd, x)
    BY <1>1, ChainTrans
  <2> QED BY <2>1, <1>2 DEF Named, AllNamed
<1>3. ASSUME NEW x, Named(nd, x) PROVE nd[v].parent # x
  <2> SUFFICES ASSUME nd[v].parent = x PROVE FALSE
    OBVIOUS
  <2>1. Chain(nd, v) = {v} \cup Chain(nd, x)
    BY <1>1, ChainUp
  <2> QED BY <2>1, <1>3 DEF Named, AllNamed
<1>4. nd[v].parent # NoNode
  BY DEF TreeInv
<1>5. ASSUME NEW u \in Threads
      PROVE  u \notin R1(nd, cl, v) /\ u \notin R2(nd, cl, v)
             /\ u \notin W1(cl, v) /\ u \notin W2(cl, v)
  <2>0. Locks(nd, cl[u])
    OBVIOUS
  <2>1. v # NoNode
    BY IdsPlaces
  <2>2. /\ cl[u].l => Named(nd, cl[u].n)
        /\ cl[u].l2 => Named(nd, cl[u].n2)
        /\ cl[u].w = v => nd[v].parent = cl[u].n \/ (cl[u].l2 /\ nd[v].parent = cl[u].n2)
        /\ cl[u].w2 = v => nd[v].parent = cl[u].n2 \/ (cl[u].l /\ nd[v].parent = cl[u].n)
    BY <2>0, <2>1, <1>4 DEF Locks
  <2>3. cl[u].n \in Places /\ cl[u].n2 \in Places
    BY DEF CallType, Places
  <2> QED BY <2>2, <2>3, <1>2, <1>3 DEF R1, R2, W1, W2
<1>6. R1(nd, cl, v) \cup R2(nd, cl, v) \cup W1(cl, v) \cup W2(cl, v) = {}
  BY <1>5 DEF R1, R2, W1, W2
<1> QED BY <1>6, LockedBy

LEMMA TryDoomed ==
  ASSUME TreeInv(nd), NEW tl, NEW cl \in [Threads -> CallType], LockOk(nd, tl, cl),
         \A u \in Threads : Locks(nd, cl[u]),
         NEW n \in Nodes, ~Named(nd, n), NEW m, NEW wr, wr => m # NoName,
         NEW a, a = try_get_path(nd, tl, n, m, wr)
  PROVE  a.err = "noent"
<1>1. Tree(nd) /\ n \in Places
  BY InvTree, IdsPlaces
<1>2. PICK x \in Chain(nd, n) : nd[x].name = NoName
  BY DEF Named, AllNamed
<1>3. n \in Ids /\ x \in Ids
  BY <1>1, <1>2, ChainIs, ChainIds, IdsPlaces DEF Tree
<1>4. PICK w : w = IF wr THEN lookup_node(nd, n, m) ELSE NoNode
  OBVIOUS
<1>5. w # NoNode => w \in Ids /\ nd[w].parent = n /\ nd[w].name = m /\ m # NoName
  BY <1>4, LookupIs
<1>6. w # NoNode => tl[w] = 0 /\ w \notin Chain(nd, n)
  <2> SUFFICES ASSUME w # NoNode PROVE tl[w] = 0 /\ w \notin Chain(nd, n)
    OBVIOUS
  <2>1. Chain(nd, w) = {w} \cup Chain(nd, n)
    BY <1>1, <1>5, ChainUp
  <2>2. ~Named(nd, w)
    BY <2>1, <1>2 DEF Named, AllNamed
  <2>3. tl[w] = 0
    BY <2>2, <1>5, DoomedFree
  <2> QED BY <2>3, <1>1, <1>5, ChainNoLoop
<1>7. ASSUME NEW u \in Chain(nd, n), nd[u].name # NoName PROVE tl[u] = 0 /\ u \in Ids
  <2>1. u \in Ids
    BY <1>1, ChainIds
  <2>2. x \in Chain(nd, u)
    <3>1. x \in Chain(nd, u) \/ u \in Chain(nd, x)
      BY <1>1, <1>2, ChainLinear
    <3>2. Chain(nd, x) = {x}
      <4>1. nd[x].parent = NoNode
        BY <1>2, <1>3 DEF TreeInv
      <4> QED BY <4>1, <1>1, <1>3, ChainUp, ChainIs DEF Tree
    <3> QED BY <3>1, <3>2, <1>2, <1>7
  <2>3. ~Named(nd, u)
    BY <2>2, <1>2 DEF Named, AllNamed
  <2> QED BY <2>1, <2>3, <1>7, DoomedFree
<1>8. PICK path : path = PathFor(nd, n, m)
  OBVIOUS
<1>9. a = LockPath(nd, tl, Chain(nd, n), w, path)
  BY <1>4, <1>8 DEF try_get_path
<1> DEFINE named == {u \in Chain(nd, n) : nd[u].name # NoName}
<1>10. named # Chain(nd, n)
  BY <1>2
<1>11. ~(\E u \in named : [v \in Ids |-> IF v = w THEN TREELOCK_WRITE ELSE tl[v]][u] < 0)
  <2> SUFFICES ASSUME NEW u \in named,
                      [v \in Ids |-> IF v = w THEN TREELOCK_WRITE ELSE tl[v]][u] < 0
               PROVE  FALSE
    OBVIOUS
  <2>1. u \in Ids /\ tl[u] = 0 /\ u # w
    BY <1>3, <1>6, <1>7, IdsPlaces
  <2> QED BY <2>1
<1>12. ~(w # NoNode /\ tl[w] # 0)
  BY <1>6
<1> QED BY <1>9, <1>10, <1>11, <1>12 DEF LockPath

---------------------------------------------------------------------------
(* The queue is woken *)

WakeInv(c0, s) ==
  /\ s \in [tl : [Ids -> Int], call : [Threads -> CallType]]
  /\ LockOk(nd, s.tl, s.call) /\ Calls(nd, s.call)
  /\ \A u \in Threads : Same(s.call[u], c0[u]) /\ (~Waits(c0[u]) => s.call[u] = c0[u])

LEMMA AskedSame ==
  ASSUME NEW r, NEW q, Same(q, r)
  PROVE  /\ Asked(r) <=> Asked(q)
         /\ Lockable(nd, r) <=> Lockable(nd, q)
         /\ Two(r) <=> Two(q)
         /\ Wr(r) <=> Wr(q)
<1>1. Two(r) <=> Two(q)
  BY DEF Same, Two
<1>2. Asked(r) <=> Asked(q)
  BY <1>1 DEF Same, Asked
<1>3. Wr(r) <=> Wr(q)
  BY DEF Same, Wr
<1>4. Lockable(nd, r) <=> Lockable(nd, q)
  BY <1>1, <1>2, <1>3 DEF Same, Lockable, Target
<1> QED BY <1>1, <1>2, <1>3, <1>4

Retried(cl, t, r, a) ==
  /\ Held(nd, a.tl, cl, t, a.r) /\ Same(a.r, r)
  /\ a.r.done = r.done /\ a.r.err = r.err
  /\ a.err = "noent" => ~Named(nd, r.n) \/ (Two(r) /\ ~Named(nd, r.n2))
  /\ Ready(r) => Ready(a.r)
  /\ ~r.l /\ ~r.l2 /\ ~Named(nd, r.n) => a.err = "noent"
  /\ ~r.l /\ ~r.l2 /\ Two(r) /\ ~Named(nd, r.n2) => a.err = "noent"

\* A waiting request's paths are tried again.
LEMMA RetryOk ==
  ASSUME TreeInv(nd), NEW t \in Threads, NEW cl \in [Threads -> CallType], NEW tl, NEW r,
         Held(nd, tl, cl, t, r), Lockable(nd, r), \A u \in Threads : Locks(nd, cl[u]),
         NEW a, a = RetryPaths(TryFirst(Untried(tl, r)))
  PROVE  Retried(cl, t, r, a)
<1>1. PICK s : s = Untried(tl, r)
  OBVIOUS
<1>2. s.tl = tl /\ s.r = r /\ s.err = "ok"
  BY <1>1 DEF Untried
<1>3. PICK b : b = TryFirst(s)
  OBVIOUS
<1>4. FirstTried(cl, t, s, b)
  BY <1>2, <1>3, TryFirstOk
<1>5. b.r \in CallType /\ Lockable(nd, b.r) /\ (Two(b.r) <=> Two(r))
  BY <1>2, <1>4, AskedSame DEF FirstTried, Held
<1>6. ~r.l /\ ~r.l2 /\ ~Named(nd, r.n) => b.err = "noent"
  <2> SUFFICES ASSUME ~r.l, ~Named(nd, r.n) PROVE b.err = "noent"
    OBVIOUS
  <2>1. PICK e : e = try_get_path(nd, tl, r.n, r.m, Wr(r))
    OBVIOUS
  <2>2. [cl EXCEPT ![t] = r] \in [Threads -> CallType] /\ LockOk(nd, tl, [cl EXCEPT ![t] = r])
        /\ \A u \in Threads : Locks(nd, [cl EXCEPT ![t] = r][u])
    BY DEF Held
  <2>3. r.n \in Nodes /\ (Wr(r) => r.m # NoName)
    BY NamesAssumption DEF Lockable, Asked, Wr, InDir
  <2>4. e.err = "noent"
    BY <2>1, <2>2, <2>3, TryDoomed
  <2>5. b = Took(s, e)
    BY <1>2, <1>3, <2>1 DEF TryFirst
  <2> QED BY <2>4, <2>5 DEF Took
<1>7. CASE Two(r) /\ b.err # "noent"
  <2>1. a = TrySecond(b)
    BY <1>1, <1>3, <1>5, <1>7 DEF RetryPaths
  <2>2. Held(nd, b.tl, cl, t, b.r)
    BY <1>4 DEF FirstTried
  <2>3. SecondTried(cl, t, b, a)
    BY <1>5, <1>7, <2>1, <2>2, TrySecondOk
  <2>4. ~r.l /\ ~r.l2 /\ ~Named(nd, r.n2) => a.err = "noent"
    <3> SUFFICES ASSUME ~r.l2, ~Named(nd, r.n2) PROVE a.err = "noent"
      OBVIOUS
    <3>1. PICK e : e = try_get_path(nd, b.tl, b.r.n2, b.r.m2, Wr(b.r))
      OBVIOUS
    <3>2. [cl EXCEPT ![t] = b.r] \in [Threads -> CallType]
          /\ LockOk(nd, b.tl, [cl EXCEPT ![t] = b.r])
          /\ \A u \in Threads : Locks(nd, [cl EXCEPT ![t] = b.r][u])
      BY <2>2 DEF Held
    <3>3. b.r.n2 = r.n2 /\ b.r.l2 = r.l2
      BY <1>2, <1>4 DEF FirstTried, Same
    <3>4. b.r.n2 \in Nodes /\ (Wr(b.r) => b.r.m2 # NoName) /\ ~Named(nd, b.r.n2)
      BY <1>5, <1>7, <3>3, NamesAssumption DEF Lockable, Asked
    <3>5. PICK c2 : c2 = [cl EXCEPT ![t] = b.r]
      OBVIOUS
    <3>6. c2 \in [Threads -> CallType] /\ LockOk(nd, b.tl, c2)
          /\ \A u \in Threads : Locks(nd, c2[u])
      BY <3>2, <3>5
    <3>7. e.err = "noent"
      BY <3>1, <3>4, <3>6, TryDoomed
    <3>8. a = Took2(b, e)
      BY <2>1, <3>1, <3>3 DEF TrySecond
    <3> QED BY <3>7, <3>8 DEF Took2
  <2>5. /\ Held(nd, a.tl, cl, t, a.r) /\ Same(a.r, b.r) /\ Same(b.r, r)
        /\ a.r.l = b.r.l /\ a.r.done = b.r.done /\ a.r.err = b.r.err
        /\ b.r.done = r.done /\ b.r.err = r.err /\ b.r.l2 = r.l2
    BY <2>3, <1>2, <1>4 DEF SecondTried, FirstTried
  <2>6. Same(a.r, r)
    BY <2>5 DEF Same
  <2>7. a.err = "noent" => ~Named(nd, r.n2)
    BY <2>3, <2>5, <1>4, <1>7 DEF SecondTried, FirstTried, Same
  <2>8. Ready(r) => Ready(a.r)
    <3> SUFFICES ASSUME Ready(r) PROVE Ready(a.r)
      OBVIOUS
    <3>1. r.l /\ r.l2
      BY <1>7 DEF Ready
    <3>2. b = s
      BY <3>1, <1>2, <1>3 DEF TryFirst
    <3>3. a = b
      BY <3>1, <3>2, <1>2, <2>1 DEF TrySecond
    <3> QED BY <3>1, <3>2, <3>3, <1>2 DEF Ready
  <2> QED BY <1>6, <1>7, <2>4, <2>5, <2>6, <2>7, <2>8 DEF Retried
<1>8. CASE ~(Two(r) /\ b.err # "noent")
  <2>1. a = b
    BY <1>1, <1>3, <1>5, <1>8 DEF RetryPaths
  <2>2. Ready(r) => Ready(a.r)
    <3> SUFFICES ASSUME Ready(r) PROVE Ready(a.r)
      OBVIOUS
    <3>1. b = s
      BY <1>2, <1>3 DEF TryFirst, Ready
    <3> QED BY <3>1, <2>1, <1>2
  <2> QED BY <1>2, <1>4, <1>6, <1>8, <2>1, <2>2 DEF Retried, FirstTried
<1> QED BY <1>7, <1>8

LEMMA UnlockedIs ==
  ASSUME NEW r \in CallType, NEW q, q = Unlocked(r)
  PROVE  /\ q \in CallType /\ Same(q, r) /\ ~q.l /\ ~q.l2 /\ q.w = NoNode /\ q.w2 = NoNode
         /\ q.done = r.done /\ q.err = r.err
<1>1. q \in CallType
  <2>1. <<>> \in Seq(AllNames)
    OBVIOUS
  <2> QED BY <2>1 DEF CallType, Unlocked
<1>2. /\ Same(q, r) /\ ~q.l /\ ~q.l2 /\ q.w = NoNode /\ q.w2 = NoNode
      /\ q.done = r.done /\ q.err = r.err
  BY DEF CallType, Unlocked, Same
<1> QED BY <1>1, <1>2

Marked(q, r, b) ==
  /\ q \in CallType /\ Same(q, r) /\ q.l = r.l /\ q.l2 = r.l2
  /\ q.w = r.w /\ q.w2 = r.w2 /\ q.p = r.p /\ q.p2 = r.p2 /\ q.done /\ q.err = b

LEMMA MarkIs ==
  ASSUME NEW r \in CallType, NEW b \in BOOLEAN
  PROVE  Marked([r EXCEPT !.done = TRUE, !.err = b], r, b)
<1>1. [r EXCEPT !.done = TRUE, !.err = b] \in CallType
  BY ZenonT(40) DEF CallType
<1> QED BY <1>1 DEF CallType, Same, Marked

LEMMA PhaseWait ==
  ASSUME NEW r, NEW q, Phase(r), r.at = "wait", Same(q, r), r.op # "forget",
         q.done => IF q.err THEN ~q.l /\ ~q.l2 ELSE Ready(q)
  PROVE  Phase(q)
<1>1. Two(r) <=> Two(q)
  BY AskedSame
<1> QED BY <1>1 DEF Phase, Same

\* What a request without locks relies on.
LEMMA NoLocks ==
  ASSUME NEW d, NEW q, ~q.l, ~q.l2, q.w = NoNode, q.w2 = NoNode,
         q.at \notin {"hidefs", "hidenode", "hidunlink"},
         q.at = "wait" /\ q.done /\ q.err => ~Named(d, q.n) \/ (Two(q) /\ ~Named(d, q.n2))
  PROVE  Locks(d, q)
BY DEF Locks

LEMMA WokenOk ==
  ASSUME TreeInv(nd), NEW c0, NEW s, WakeInv(c0, s), NEW t \in Threads, NEW first \in BOOLEAN,
         s.call[t].at = "wait", Lockable(nd, s.call[t]), NEW e,
         e = Update(s, t, Woken(first, RetryPaths(TryFirst(Untried(s.tl, s.call[t])))))
  PROVE  WakeInv(c0, e)
<1>1. PICK r : r = s.call[t]
  OBVIOUS
<1>2. /\ r \in CallType /\ s.tl \in [Ids -> Int] /\ s.call \in [Threads -> CallType]
      /\ LockOk(nd, s.tl, s.call) /\ Calls(nd, s.call) /\ Shape(r) /\ Locks(nd, r)
      /\ \A u \in Threads : Same(s.call[u], c0[u])
      /\ \A u \in Threads : ~Waits(c0[u]) => s.call[u] = c0[u]
  BY <1>1 DEF WakeInv, Calls
<1>3. [s.call EXCEPT ![t] = r] = s.call
  BY <1>1, <1>2
<1>4. Held(nd, s.tl, s.call, t, r)
  BY <1>2, <1>3 DEF Held
<1>5. PICK a : a = RetryPaths(TryFirst(Untried(s.tl, r)))
  OBVIOUS
<1>6. Retried(s.call, t, r, a)
  BY <1>1, <1>2, <1>4, <1>5, RetryOk DEF Calls
<1>7. PICK new : new = Woken(first, a)
  OBVIOUS
<1>8. /\ e = [tl |-> new.tl, call |-> [s.call EXCEPT ![t] = new.r]]
      /\ e.tl = new.tl /\ e.call = [s.call EXCEPT ![t] = new.r]
  BY <1>1, <1>5, <1>7 DEF Update
<1>9. Asked(r) /\ Phase(r) /\ r.at = "wait" /\ r.op # "forget" /\ r.op \in DOMAIN Steps
  BY <1>1, <1>2 DEF Shape, NoCall, Phase, Asked, Steps
<1>10. /\ Held(nd, a.tl, s.call, t, a.r) /\ a.r \in CallType /\ Same(a.r, r) /\ Locks(nd, a.r)
       /\ a.r.done = r.done /\ a.r.err = r.err /\ a.r.at = "wait"
       /\ (Two(a.r) <=> Two(r)) /\ Asked(a.r)
  BY <1>6, <1>9, AskedSame DEF Retried, Held, Same
<1>11. r.done => Ready(r) \/ a.err = "noent"
  BY <1>2, <1>6, <1>9 DEF Phase, Locks, Retried
<1> DEFINE Good(q, tl) ==
      /\ q \in CallType /\ tl \in [Ids -> Int] /\ LockOk(nd, tl, [s.call EXCEPT ![t] = q])
      /\ Same(q, r) /\ Phase(q) /\ Locks(nd, q)
<1>12. Good(new.r, new.tl)
  <2>1. CASE a.err = "noent"
    <3>1. PICK u : u = Unlocked(a.r)
      OBVIOUS
    <3>2. PICK q : q = [u EXCEPT !.done = TRUE, !.err = TRUE]
      OBVIOUS
    <3>3. new.tl = Unlock(a.tl, a.r) /\ new.r = q
      BY <1>7, <2>1, <3>1, <3>2 DEF Woken, queue_element_unlock
    <3>4. /\ u \in CallType /\ Same(u, a.r) /\ ~u.l /\ ~u.l2 /\ u.w = NoNode /\ u.w2 = NoNode
      BY <1>10, <3>1, UnlockedIs
    <3>5. /\ q \in CallType /\ Same(q, u) /\ ~q.l /\ ~q.l2 /\ q.done /\ q.err
          /\ q.w = NoNode /\ q.w2 = NoNode
      <4>1. Marked(q, u, TRUE)
        BY <3>2, <3>4, MarkIs
      <4> QED BY <3>4, <4>1 DEF Marked
    <3>6. Same(q, r)
      BY <1>10, <3>4, <3>5 DEF Same
    <3>7. new.tl \in [Ids -> Int] /\ LockOk(nd, new.tl, [s.call EXCEPT ![t] = q])
      BY <1>2, <1>10, <3>3, <3>5, UnlockedOk
    <3>8. Phase(q)
      BY <1>9, <3>5, <3>6, PhaseWait
    <3>9. Locks(nd, q)
      <4>1. ~Named(nd, q.n) \/ (Two(q) /\ ~Named(nd, q.n2))
        BY <1>6, <2>1, <3>6, AskedSame DEF Retried, Same
      <4>2. q.at = "wait"
        BY <1>9, <3>6 DEF Same
      <4> QED BY <3>5, <4>1, <4>2, NoLocks
    <3> QED BY <3>3, <3>5, <3>6, <3>7, <3>8, <3>9
  <2>2. CASE a.err # "noent" /\ a.r.l /\ (a.r.l2 \/ ~Two(a.r))
    <3>1. PICK q : q = [a.r EXCEPT !.done = TRUE, !.err = FALSE]
      OBVIOUS
    <3>2. new.tl = a.tl /\ new.r = q
      BY <1>7, <2>2, <3>1 DEF Woken
    <3>3. /\ q \in CallType /\ Same(q, a.r) /\ q.l = a.r.l /\ q.l2 = a.r.l2 /\ q.w = a.r.w
          /\ q.w2 = a.r.w2 /\ q.p = a.r.p /\ q.p2 = a.r.p2 /\ q.done /\ ~q.err
      BY <1>10, <3>1, MarkIs DEF Marked
    <3>4. Same(q, r)
      BY <1>10, <3>3 DEF Same
    <3>5. Phase(q)
      <4>1. Ready(q)
        BY <2>2, <3>3, AskedSame DEF Ready
      <4> QED BY <1>9, <3>3, <3>4, <4>1, PhaseWait
    <3>6. Locks(nd, q)
      <4>1. (Two(q) <=> Two(a.r)) /\ (Wr(q) <=> Wr(a.r)) /\ q.at = "wait"
        BY <1>10, <3>3, AskedSame DEF Same
      <4> QED BY <1>10, <3>3, <4>1 DEF Locks, Same
    <3>7. new.tl \in [Ids -> Int] /\ LockOk(nd, new.tl, [s.call EXCEPT ![t] = q])
      <4>1. PICK c1 : c1 = [s.call EXCEPT ![t] = a.r]
        OBVIOUS
      <4>2. PICK c2 : c2 = [s.call EXCEPT ![t] = q]
        OBVIOUS
      <4>3. LockOk(nd, a.tl, c1) /\ a.tl \in [Ids -> Int]
        BY <1>10, <4>1 DEF Held
      <4>4. /\ \A u \in Threads \ {t} : c2[u] = c1[u]
            /\ c1[t] = a.r /\ c2[t] = q
        BY <1>2, <4>1, <4>2
      <4>5. LockOk(nd, a.tl, c2)
        BY <3>3, <4>3, <4>4, LockFrame DEF Same
      <4> QED BY <3>2, <4>2, <4>3, <4>5
    <3> QED BY <3>2, <3>3, <3>4, <3>5, <3>6, <3>7
  <2>3. CASE a.err # "noent" /\ ~(a.r.l /\ (a.r.l2 \/ ~Two(a.r))) /\ first
    <3>1. new = a
      BY <1>7, <2>3 DEF Woken
    <3>2. ~r.done
      BY <1>6, <1>10, <1>11, <2>3 DEF Ready, Retried
    <3>3. Phase(a.r)
      BY <1>9, <1>10, <3>2, PhaseWait
    <3> QED BY <1>10, <3>1, <3>3 DEF Held
  <2>4. CASE a.err # "noent" /\ ~(a.r.l /\ (a.r.l2 \/ ~Two(a.r))) /\ ~first
    <3>1. PICK q : q = Unlocked(a.r)
      OBVIOUS
    <3>2. new.tl = Unlock(a.tl, a.r) /\ new.r = q
      BY <1>7, <2>4, <3>1 DEF Woken, queue_element_unlock
    <3>3. /\ q \in CallType /\ Same(q, a.r) /\ ~q.l /\ ~q.l2 /\ q.w = NoNode /\ q.w2 = NoNode
          /\ q.done = a.r.done
      BY <1>10, <3>1, UnlockedIs
    <3>4. ~r.done
      BY <1>6, <1>10, <1>11, <2>4 DEF Ready, Retried
    <3>5. Same(q, r) /\ q.at = "wait"
      BY <1>10, <3>3 DEF Same
    <3>6. new.tl \in [Ids -> Int] /\ LockOk(nd, new.tl, [s.call EXCEPT ![t] = q])
      BY <1>2, <1>10, <3>2, <3>3, UnlockedOk
    <3>7. Phase(q)
      BY <1>9, <1>10, <3>3, <3>4, <3>5, PhaseWait
    <3>8. Locks(nd, q)
      BY <1>10, <3>3, <3>4, <3>5, NoLocks
    <3> QED BY <3>2, <3>3, <3>5, <3>6, <3>7, <3>8
  <2> HIDE DEF Good
  <2> QED BY <2>1, <2>2, <2>3, <2>4
<1>13. /\ e \in [tl : [Ids -> Int], call : [Threads -> CallType]]
       /\ LockOk(nd, e.tl, e.call)
  BY <1>2, <1>8, <1>12
<1>14. Calls(nd, e.call)
  <2> SUFFICES ASSUME NEW u \in Threads PROVE Shape(e.call[u]) /\ Locks(nd, e.call[u])
    BY DEF Calls
  <2>1. CASE u = t
    <3>1. e.call[u] = new.r
      BY <1>2, <1>8, <2>1
    <3>2. Asked(new.r)
      BY <1>9, <1>12, AskedSame
    <3> QED BY <3>1, <3>2, <1>12 DEF Shape
  <2>2. CASE u # t
    BY <1>2, <1>8, <2>2 DEF Calls
  <2> QED BY <2>1, <2>2
<1>15. ASSUME NEW u \in Threads
       PROVE  Same(e.call[u], c0[u]) /\ (~Waits(c0[u]) => e.call[u] = c0[u])
  <2>1. CASE u = t
    <3>1. e.call[u] = new.r /\ Same(new.r, r) /\ Same(r, c0[u])
      BY <1>1, <1>2, <1>8, <1>12, <2>1
    <3>2. Same(e.call[u], c0[u])
      BY <3>1 DEF Same
    <3>3. Waits(c0[u])
      BY <1>9, <3>1 DEF Same, Waits
    <3> QED BY <3>2, <3>3
  <2>2. CASE u # t
    BY <1>2, <1>8, <2>2
  <2> QED BY <2>1, <2>2
<1> QED BY <1>13, <1>14, <1>15 DEF WakeInv

LEMMA QueueElementOk ==
  ASSUME TreeInv(nd), NEW c0, NEW s, WakeInv(c0, s), NEW t \in Threads, NEW first \in BOOLEAN,
         Waits(c0[t]), c0[t].at = "wait" => Lockable(nd, c0[t]),
         NEW e, e = queue_element_wakeup(s, t, first)
  PROVE  WakeInv(c0, e)
<1>1. PICK r : r = s.call[t]
  OBVIOUS
<1>2. /\ s \in [tl : [Ids -> Int], call : [Threads -> CallType]] /\ r \in CallType
      /\ LockOk(nd, s.tl, s.call) /\ Calls(nd, s.call) /\ Shape(r) /\ Locks(nd, r)
      /\ \A u \in Threads : Same(s.call[u], c0[u])
      /\ \A u \in Threads : ~Waits(c0[u]) => s.call[u] = c0[u]
      /\ Same(r, c0[t])
  BY <1>1 DEF WakeInv, Calls
<1>3. CASE r.at # "fwait"
  <2>1. r.at = "wait" /\ Lockable(nd, r)
    BY <1>2, <1>3, AskedSame DEF Waits, Same
  <2>2. e = Update(s, t, Woken(first, RetryPaths(TryFirst(Untried(s.tl, s.call[t])))))
    BY <1>1, <1>3 DEF queue_element_wakeup
  <2> QED BY <1>1, <2>1, <2>2, WokenOk
<1>4. CASE r.at = "fwait"
  <2>1. PICK b : b = (r.done \/ s.tl[r.n] = 0)
    OBVIOUS
  <2>2. PICK q : q = [r EXCEPT !.done = b]
    OBVIOUS
  <2>3. e = [s EXCEPT !.call[t].done = b]
    BY <1>1, <1>4, <2>1 DEF queue_element_wakeup
  <2>4. b \in BOOLEAN
    BY <1>2, <2>1 DEF CallType
  <2>5. q \in CallType
    BY <1>2, <2>2, <2>4 DEF CallType
  <2>6. /\ Same(q, r) /\ q.l = r.l /\ q.l2 = r.l2 /\ q.w = r.w /\ q.w2 = r.w2
        /\ q.p = r.p /\ q.p2 = r.p2
    BY <1>2, <2>2 DEF CallType, Same
  <2>7. e = [tl |-> s.tl, call |-> [s.call EXCEPT ![t] = q]]
    BY <1>1, <1>2, <2>2, <2>3
  <2>8. e \in [tl : [Ids -> Int], call : [Threads -> CallType]]
        /\ e.tl = s.tl /\ e.call = [s.call EXCEPT ![t] = q]
    BY <1>2, <2>5, <2>7
  <2>9. /\ \A u \in Threads \ {t} : e.call[u] = s.call[u]
        /\ e.call[t] = q /\ s.call[t] = r
    BY <1>1, <1>2, <2>8
  <2>10. LockOk(nd, e.tl, e.call)
    <3>1. LockOk(nd, s.tl, e.call)
      BY <1>2, <2>6, <2>9, LockFrame DEF Same
    <3> QED BY <3>1, <2>8
  <2>11. Asked(r) /\ Phase(r)
    BY <1>2, <1>4 DEF Shape, NoCall
  <2>12. Shape(q) /\ Locks(nd, q)
    <3>1. (Two(q) <=> Two(r)) /\ (Wr(q) <=> Wr(r)) /\ Asked(q) /\ q.at = "fwait"
      BY <1>4, <2>6, <2>11, AskedSame DEF Same
    <3>2. Phase(q)
      BY <1>4, <2>6, <2>11, <3>1 DEF Phase, Same, Ready
    <3>3. Locks(nd, q)
      BY <1>2, <1>4, <2>6, <3>1 DEF Locks, Same
    <3> QED BY <3>1, <3>2, <3>3 DEF Shape
  <2>13. Calls(nd, e.call)
    BY <1>2, <2>9, <2>12 DEF Calls
  <2>14. ASSUME NEW u \in Threads
         PROVE  Same(e.call[u], c0[u]) /\ (~Waits(c0[u]) => e.call[u] = c0[u])
    <3>1. CASE u = t
      BY <1>2, <2>6, <2>9, <3>1 DEF Same
    <3>2. CASE u # t
      BY <1>2, <2>9, <3>2
    <3> QED BY <3>1, <3>2
  <2> QED BY <2>8, <2>10, <2>13, <2>14 DEF WakeInv
<1> QED BY <1>3, <1>4

---------------------------------------------------------------------------
(* Recursion over the queue and over a path *)

LEMMA NatMin ==
  ASSUME NEW T, T \subseteq Nat, T # {}
  PROVE  \E x \in T : \A y \in T : x <= y
<1>1. IsWellFoundedOn(OpToRel(<, Nat), Nat)
  BY NatLessThanWellFounded, Zenon
<1>2. PICK x \in T : \A y \in T : ~(<<y, x>> \in OpToRel(<, Nat))
  BY <1>1, WFMin, Zenon
<1>3. \A y \in T : ~(y < x)
  BY <1>2 DEF OpToRel
<1> QED BY <1>3

LEMMA NatInd ==
  ASSUME NEW T, 0 \in T, \A n \in Nat : n \in T => n + 1 \in T
  PROVE  Nat \subseteq T
<1> SUFFICES ASSUME ~(Nat \subseteq T) PROVE FALSE
  OBVIOUS
<1>1. PICK x \in Nat \ T : \A y \in Nat \ T : x <= y
  BY NatMin
<1>2. x # 0 /\ x - 1 \in Nat /\ x - 1 \in T
  BY <1>1
<1> QED BY <1>1, <1>2

IsWake(w, s, n) ==
  w = [i \in 0 .. n |-> IF i = 0 THEN s ELSE queue_element_wakeup(w[i - 1], lockq[i], i = 1)]

LEMMA WakeAt ==
  ASSUME NEW w, NEW s, NEW n \in Nat, IsWake(w, s, n), NEW i \in 1 .. n
  PROVE  w[i] = queue_element_wakeup(w[i - 1], lockq[i], i = 1)
<1>1. i \in 0 .. n /\ i # 0
  OBVIOUS
<1>2. w[i] = IF i = 0 THEN s ELSE queue_element_wakeup(w[i - 1], lockq[i], i = 1)
  BY <1>1, Zenon DEF IsWake
<1> QED BY <1>1, <1>2

LEMMA WakeExists == ASSUME NEW s PROVE \A n \in Nat : \E w : IsWake(w, s, n)
<1> DEFINE T == {n \in Nat : \E w : IsWake(w, s, n)}
<1>1. 0 \in T
  <2> DEFINE w == [i \in 0 .. 0 |-> s]
  <2>1. w = [i \in 0 .. 0 |-> IF i = 0 THEN s
                             ELSE queue_element_wakeup(w[i - 1], lockq[i], i = 1)]
    OBVIOUS
  <2> HIDE DEF w
  <2> QED BY <2>1 DEF IsWake
<1>2. ASSUME NEW n \in Nat, n \in T PROVE n + 1 \in T
  <2>1. PICK w : IsWake(w, s, n)
    BY <1>2
  <2> DEFINE v == [i \in 0 .. n + 1 |->
                     IF i <= n THEN w[i]
                     ELSE queue_element_wakeup(w[n], lockq[n + 1], n + 1 = 1)]
  <2>2. v[0] = s
    BY <2>1 DEF IsWake
  <2>3. ASSUME NEW i \in 1 .. n + 1
        PROVE  v[i] = queue_element_wakeup(v[i - 1], lockq[i], i = 1)
    <3>1. CASE i <= n
      <4>1. w[i] = queue_element_wakeup(w[i - 1], lockq[i], i = 1)
        BY <2>1, <3>1 DEF IsWake
      <4>2. v[i] = w[i] /\ v[i - 1] = w[i - 1]
        BY <3>1
      <4> HIDE DEF v
      <4> QED BY <4>1, <4>2
    <3>2. CASE i = n + 1
      <4>1. v[i] = queue_element_wakeup(w[n], lockq[n + 1], n + 1 = 1) /\ v[i - 1] = w[n]
        BY <3>2
      <4> HIDE DEF v
      <4> QED BY <3>2, <4>1
    <3>3. i <= n \/ i = n + 1
      OBVIOUS
    <3> QED BY <3>1, <3>2, <3>3
  <2>4. v = [i \in 0 .. n + 1 |-> v[i]]
    OBVIOUS
  <2> HIDE DEF v
  <2>5. \A i \in 0 .. n + 1 :
          v[i] = IF i = 0 THEN s ELSE queue_element_wakeup(v[i - 1], lockq[i], i = 1)
    BY <2>2, <2>3
  <2>6. IsWake(v, s, n + 1)
    BY <2>4, <2>5 DEF IsWake
  <2> QED BY <2>6
<1> HIDE DEF T
<1>3. Nat \subseteq T
  BY <1>1, <1>2, NatInd
<1> QED BY <1>3 DEF T

LEMMA WakeAllOk ==
  ASSUME TreeInv(nd), NEW c0, NEW s, WakeInv(c0, s), lockq \in Seq(Threads),
         \A i \in 1 .. Len(lockq) :
           Waits(c0[lockq[i]]) /\ (c0[lockq[i]].at = "wait" => Lockable(nd, c0[lockq[i]]))
  PROVE  WakeInv(c0, wake_up_queued(s))
<1> DEFINE N == Len(lockq)
           w == CHOOSE f : f = [i \in 0 .. N |->
                  IF i = 0 THEN s ELSE queue_element_wakeup(f[i - 1], lockq[i], i = 1)]
           T == {n \in Nat : n <= N => WakeInv(c0, w[n])}
<1>1. N \in Nat
  OBVIOUS
<1>2. wake_up_queued(s) = w[N]
  BY Zenon DEF wake_up_queued
<1>3. w = [i \in 0 .. N |-> IF i = 0 THEN s
                            ELSE queue_element_wakeup(w[i - 1], lockq[i], i = 1)]
  <2>1. PICK f : IsWake(f, s, N)
    BY <1>1, WakeExists
  <2>2. f = [i \in 0 .. N |-> IF i = 0 THEN s
                              ELSE queue_element_wakeup(f[i - 1], lockq[i], i = 1)]
    BY <2>1 DEF IsWake
  <2> QED BY <2>2, Zenon
<1> HIDE DEF w, N
<1>4. 0 \in T
  BY <1>1, <1>3
<1>5. ASSUME NEW n \in Nat, n \in T PROVE n + 1 \in T
  <2> SUFFICES ASSUME n + 1 <= N PROVE WakeInv(c0, w[n + 1])
    OBVIOUS
  <2>1. WakeInv(c0, w[n])
    BY <1>1, <1>5
  <2>2. w[n + 1] = queue_element_wakeup(w[n], lockq[n + 1], n + 1 = 1)
    <3>1. ASSUME NEW i \in 1 .. N
          PROVE  w[i] = queue_element_wakeup(w[i - 1], lockq[i], i = 1)
      <4>1. IsWake(w, s, N)
        BY <1>3, Zenon DEF IsWake
      <4> QED BY <1>1, <4>1, WakeAt
    <3>2. n + 1 \in 1 .. N /\ (n + 1) - 1 = n
      BY <1>1
    <3> HIDE DEF T
    <3>3. w[n + 1] = queue_element_wakeup(w[(n + 1) - 1], lockq[n + 1], n + 1 = 1)
      BY <3>1, <3>2, Zenon
    <3> QED BY <3>2, <3>3
  <2>3. n + 1 \in 1 .. N
    BY <1>1
  <2>4. /\ lockq[n + 1] \in Threads /\ Waits(c0[lockq[n + 1]])
        /\ c0[lockq[n + 1]].at = "wait" => Lockable(nd, c0[lockq[n + 1]])
    BY <2>3 DEF N
  <2>5. PICK b \in BOOLEAN : b = (n + 1 = 1)
    OBVIOUS
  <2> QED BY <2>1, <2>2, <2>4, <2>5, QueueElementOk
<1> HIDE DEF T
<1>6. N \in T
  BY <1>1, <1>4, <1>5, NatInd
<1> QED BY <1>1, <1>2, <1>6 DEF T

---------------------------------------------------------------------------
(* Counting forgets *)

LEMMA ForgettersFinite ==
  ASSUME NEW cl \in [Threads -> CallType], NEW n
  PROVE  IsFiniteSet(Forgetters(cl, n)) /\ Cardinality(Forgetters(cl, n)) \in Nat
<1> DEFINE U == {u \in Threads : cl[u].op = "forget" /\ cl[u].n = n}
           f == [u \in U |-> {u} \X (1 .. cl[u].k)]
           T == {f[u] : u \in U}
<1>1. IsFiniteSet(U)
  BY ThreadsAssumption, FS_Subset
<1>2. f \in Surjection(U, T)
  BY DEF Surjection
<1>3. IsFiniteSet(T)
  <2> HIDE DEF f, T, U
  <2> QED BY <1>1, <1>2, FS_Surjection
<1>4. ASSUME NEW u \in U PROVE IsFiniteSet(f[u])
  <2>1. cl[u].k \in Nat /\ f[u] = {u} \X (1 .. cl[u].k)
    BY DEF CallType
  <2>2. 1 \in Int /\ cl[u].k \in Int
    BY <2>1
  <2>3. IsFiniteSet({u}) /\ IsFiniteSet(1 .. cl[u].k)
    BY <2>2, FS_Singleton, FS_Interval, Zenon
  <2> QED BY <2>1, <2>3, FS_Product
<1>5. IsFiniteSet(UNION T)
  <2> HIDE DEF f
  <2> QED BY <1>3, <1>4, FS_UNION
<1>6. Forgetters(cl, n) = UNION T
  BY DEF Forgetters
<1> QED BY <1>5, <1>6, FS_CardinalityType

\* How many lookups of the node the request will forget, or has counted for an answer.
Forgets(r, n) == IF r.op = "forget" /\ r.n = n THEN r.k ELSE 0
Opened(r, n) == IF r.n = n /\ OpenAt(r) THEN 1 ELSE 0

LEMMA ForgetStep ==
  ASSUME NEW cl \in [Threads -> CallType], NEW c2 \in [Threads -> CallType],
         NEW t \in Threads, \A u \in Threads \ {t} : c2[u] = cl[u], NEW n
  PROVE  Cardinality(Forgetters(c2, n)) + Forgets(cl[t], n)
           = Cardinality(Forgetters(cl, n)) + Forgets(c2[t], n)
<1> DEFINE G == {x \in Forgetters(cl, n) : x[1] # t}
           P(r) == IF r.op = "forget" /\ r.n = n THEN {t} \X (1 .. r.k) ELSE {}
<1>1. ASSUME NEW r \in CallType
      PROVE  /\ IsFiniteSet(P(r)) /\ Cardinality(P(r)) = Forgets(r, n) /\ Forgets(r, n) \in Nat
  <2>1. r.k \in Nat
    BY DEF CallType
  <2>2. CASE r.op = "forget" /\ r.n = n
    <3>1. IsFiniteSet({t}) /\ Cardinality({t}) = 1
      BY FS_Singleton
    <3>2. 1 \in Int /\ r.k \in Int
      BY <2>1
    <3>3. IsFiniteSet(1 .. r.k) /\ Cardinality(1 .. r.k) = IF 1 > r.k THEN 0 ELSE r.k - 1 + 1
      BY <3>2, FS_Interval, Zenon
    <3>4. Cardinality(1 .. r.k) = r.k
      BY <2>1, <3>3
    <3>5. /\ IsFiniteSet({t} \X (1 .. r.k))
          /\ Cardinality({t} \X (1 .. r.k)) = Cardinality({t}) * Cardinality(1 .. r.k)
      BY <3>1, <3>3, FS_Product, Zenon
    <3>6. Cardinality({t} \X (1 .. r.k)) = r.k
      BY <2>1, <3>1, <3>4, <3>5
    <3> QED BY <2>1, <2>2, <3>5, <3>6 DEF Forgets
  <2>3. CASE ~(r.op = "forget" /\ r.n = n)
    BY <2>3, FS_EmptySet DEF Forgets
  <2> QED BY <2>2, <2>3
<1>2. Forgetters(cl, n) = G \cup P(cl[t]) /\ Forgetters(c2, n) = G \cup P(c2[t])
  BY DEF Forgetters
<1>3. G \cap P(cl[t]) = {} /\ G \cap P(c2[t]) = {}
  OBVIOUS
<1>4. IsFiniteSet(G)
  BY ForgettersFinite, FS_Subset
<1> HIDE DEF G, P
<1>5. Cardinality(G) \in Nat
  BY <1>4, FS_CardinalityType
<1>6. /\ Cardinality(Forgetters(cl, n)) = Cardinality(G) + Forgets(cl[t], n)
      /\ Cardinality(Forgetters(c2, n)) = Cardinality(G) + Forgets(c2[t], n)
  <2>1. cl[t] \in CallType /\ c2[t] \in CallType
    OBVIOUS
  <2>2. Cardinality({}) = 0
    BY FS_EmptySet
  <2>3. Cardinality(Forgetters(cl, n)) = Cardinality(G) + Cardinality(P(cl[t])) - 0
    BY <1>1, <1>2, <1>3, <1>4, <2>1, <2>2, FS_Union
  <2>4. Cardinality(Forgetters(c2, n)) = Cardinality(G) + Cardinality(P(c2[t])) - 0
    BY <1>1, <1>2, <1>3, <1>4, <2>1, <2>2, FS_Union
  <2> QED BY <1>1, <1>5, <2>1, <2>3, <2>4
<1> QED BY <1>1, <1>5, <1>6

\* The counts after one thread's step.
Balanced(d, e, cl, c2, t, kn, ko, kn2, ko2, n) ==
  /\ e[n].nlookup + kn[n] + In(n, {cl[t].ino}) + Forgets(cl[t], n)
       = d[n].nlookup + kn2[n] + In(n, {c2[t].ino}) + Forgets(c2[t], n)
  /\ e[n].open_count + ko[n] + Opened(cl[t], n) = d[n].open_count + ko2[n] + Opened(c2[t], n)

LEMMA CountsStep ==
  ASSUME NEW cl \in [Threads -> CallType], NEW c2 \in [Threads -> CallType],
         NEW t \in Threads, \A u \in Threads \ {t} : c2[u] = cl[u],
         NEW d \in [Nodes -> NodeType], NEW e \in [Nodes -> NodeType],
         NEW kn \in [Ids -> Nat], NEW ko \in [Ids -> Nat],
         NEW kn2 \in [Ids -> Nat], NEW ko2 \in [Ids -> Nat], Counts(d, cl, kn, ko),
         \A n \in Ids : Balanced(d, e, cl, c2, t, kn, ko, kn2, ko2, n)
  PROVE  Counts(e, c2, kn2, ko2)
<1> SUFFICES ASSUME NEW n \in Ids
             PROVE  /\ e[n].nlookup = kn2[n] + Cardinality(Finders(c2, n))
                                      + Cardinality(Forgetters(c2, n))
                    /\ e[n].open_count = ko2[n] + Cardinality(Openers(c2, n))
  BY DEF Counts
<1>1. /\ Finders(cl, n) \in SUBSET Threads /\ Finders(c2, n) \in SUBSET Threads
      /\ Openers(cl, n) \in SUBSET Threads /\ Openers(c2, n) \in SUBSET Threads
      /\ \A u \in Threads \ {t} : u \in Finders(cl, n) <=> u \in Finders(c2, n)
      /\ \A u \in Threads \ {t} : u \in Openers(cl, n) <=> u \in Openers(c2, n)
  BY DEF Finders, Openers
<1>2. /\ Cardinality(Finders(cl, n)) \in Nat /\ Cardinality(Finders(c2, n)) \in Nat
      /\ Cardinality(Finders(c2, n)) + In(t, Finders(cl, n))
           = Cardinality(Finders(cl, n)) + In(t, Finders(c2, n))
  BY <1>1, OneThread
<1>3. /\ Cardinality(Openers(cl, n)) \in Nat /\ Cardinality(Openers(c2, n)) \in Nat
      /\ Cardinality(Openers(c2, n)) + In(t, Openers(cl, n))
           = Cardinality(Openers(cl, n)) + In(t, Openers(c2, n))
  BY <1>1, OneThread
<1>4. /\ In(t, Finders(cl, n)) = In(n, {cl[t].ino}) /\ In(t, Finders(c2, n)) = In(n, {c2[t].ino})
      /\ In(t, Openers(cl, n)) = Opened(cl[t], n) /\ In(t, Openers(c2, n)) = Opened(c2[t], n)
  BY DEF In, Finders, Openers, Opened
<1>5. /\ Cardinality(Forgetters(cl, n)) \in Nat /\ Cardinality(Forgetters(c2, n)) \in Nat
      /\ Cardinality(Forgetters(c2, n)) + Forgets(cl[t], n)
           = Cardinality(Forgetters(cl, n)) + Forgets(c2[t], n)
  BY ForgettersFinite, ForgetStep
<1>6. /\ Forgets(cl[t], n) \in Nat /\ Forgets(c2[t], n) \in Nat
      /\ In(n, {cl[t].ino}) \in Nat /\ In(n, {c2[t].ino}) \in Nat
      /\ Opened(cl[t], n) \in Nat /\ Opened(c2[t], n) \in Nat
  BY DEF Forgets, In, Opened, CallType
<1>7. /\ d[n].nlookup \in Nat /\ e[n].nlookup \in Nat /\ d[n].open_count \in Nat
      /\ e[n].open_count \in Nat /\ kn[n] \in Nat /\ kn2[n] \in Nat /\ ko[n] \in Nat
      /\ ko2[n] \in Nat
  BY IdsPlaces DEF NodeType
<1>8. /\ d[n].nlookup = kn[n] + Cardinality(Finders(cl, n)) + Cardinality(Forgetters(cl, n))
      /\ d[n].open_count = ko[n] + Cardinality(Openers(cl, n))
      /\ Balanced(d, e, cl, c2, t, kn, ko, kn2, ko2, n)
  BY DEF Counts
<1>9. e[n].open_count = ko2[n] + Cardinality(Openers(c2, n))
  <2>1. PICK a \in Nat : a = d[n].open_count
    BY <1>7
  <2>2. PICK b \in Nat : b = e[n].open_count
    BY <1>7
  <2>3. PICK k \in Nat : k = ko[n]
    BY <1>7
  <2>4. PICK l \in Nat : l = ko2[n]
    BY <1>7
  <2>5. PICK x \in Nat : x = Cardinality(Openers(cl, n))
    BY <1>3
  <2>6. PICK y \in Nat : y = Cardinality(Openers(c2, n))
    BY <1>3
  <2>7. PICK i \in Nat : i = Opened(cl[t], n)
    BY <1>6
  <2>8. PICK j \in Nat : j = Opened(c2[t], n)
    BY <1>6
  <2>9. a = k + x
    BY <1>8, <2>1, <2>3, <2>5
  <2>10. y + i = x + j
    BY <1>3, <1>4, <2>5, <2>6, <2>7, <2>8
  <2>11. b + k + i = a + l + j
    BY <1>8, <2>1, <2>2, <2>3, <2>4, <2>7, <2>8 DEF Balanced
  <2>12. b = l + y
    BY <2>9, <2>10, <2>11
  <2> QED BY <2>2, <2>4, <2>6, <2>12
<1>10. e[n].nlookup = kn2[n] + Cardinality(Finders(c2, n)) + Cardinality(Forgetters(c2, n))
  <2>1. PICK a \in Nat : a = d[n].nlookup
    BY <1>7
  <2>2. PICK b \in Nat : b = e[n].nlookup
    BY <1>7
  <2>3. PICK k \in Nat : k = kn[n]
    BY <1>7
  <2>4. PICK l \in Nat : l = kn2[n]
    BY <1>7
  <2>5. PICK x \in Nat : x = Cardinality(Finders(cl, n))
    BY <1>2
  <2>6. PICK y \in Nat : y = Cardinality(Finders(c2, n))
    BY <1>2
  <2>7. PICK i \in Nat : i = In(n, {cl[t].ino})
    BY <1>6
  <2>8. PICK j \in Nat : j = In(n, {c2[t].ino})
    BY <1>6
  <2>9. PICK u \in Nat : u = Cardinality(Forgetters(cl, n))
    BY <1>5
  <2>10. PICK v \in Nat : v = Cardinality(Forgetters(c2, n))
    BY <1>5
  <2>11. PICK f \in Nat : f = Forgets(cl[t], n)
    BY <1>6
  <2>12. PICK g \in Nat : g = Forgets(c2[t], n)
    BY <1>6
  <2>13. a = k + x + u
    BY <1>8, <2>1, <2>3, <2>5, <2>9
  <2>14. y + i = x + j
    BY <1>2, <1>4, <2>5, <2>6, <2>7, <2>8
  <2>15. v + f = u + g
    BY <1>5, <2>9, <2>10, <2>11, <2>12
  <2>16. b + k + i + f = a + l + j + g
    BY <1>8, <2>1, <2>2, <2>3, <2>4, <2>7, <2>8, <2>11, <2>12 DEF Balanced
  <2>17. b = l + y + v
    BY <2>13, <2>14, <2>15, <2>16
  <2> QED BY <2>2, <2>4, <2>6, <2>10, <2>17
<1> QED BY <1>9, <1>10

LEMMA NoCallIs ==
  /\ NoCall \in CallType /\ NoCall.op = "none" /\ NoCall.at = "idle" /\ ~NoCall.l /\ ~NoCall.l2
  /\ NoCall.w = NoNode /\ NoCall.w2 = NoNode /\ NoCall.ino = NoNode /\ NoCall.k = 0
  /\ NoCall.mx = {} /\ NoCall.kref = {} /\ ~NoCall.done /\ NoCall.n = NoNode
  /\ Shape(NoCall) /\ (\A d : Locks(d, NoCall)) /\ ~Waits(NoCall) /\ ~Wr(NoCall)
<1>1. /\ NoCall.op = "none" /\ NoCall.at = "idle" /\ ~NoCall.l /\ ~NoCall.l2
      /\ NoCall.w = NoNode /\ NoCall.w2 = NoNode /\ NoCall.ino = NoNode /\ NoCall.k = 0
      /\ NoCall.mx = {} /\ NoCall.kref = {} /\ ~NoCall.done /\ NoCall.n = NoNode
  BY DEF NoCall
<1>2. NoCall \in CallType
  <2>1. <<>> \in Seq(AllNames)
    OBVIOUS
  <2>2. NoNode \in Nodes \cup {NoNode} /\ NoNode \in Ids \cup {NoNode}
        /\ NoName \in Names \cup {NoName} /\ NoName \in HiddenNames \cup {NoName}
        /\ NoFile \in Files \cup {NoFile} /\ {} \in SUBSET Nodes
    OBVIOUS
  <2> QED BY <2>1, <2>2 DEF NoCall, CallType, OpNames, StepNames, Flags
<1>3. \A d : Locks(d, NoCall)
  BY <1>1, NoLocks
<1> QED BY <1>1, <1>2, <1>3 DEF Shape, Waits, Wr

LEMMA NoForgets ==
  ASSUME NEW n \in Ids
  PROVE  Forgets(NoCall, n) = 0 /\ Opened(NoCall, n) = 0 /\ In(n, {NoCall.ino}) = 0
BY NoCallIs, IdsPlaces DEF Forgets, Opened, OpenAt, In

LEMMA CountsAtLeast ==
  ASSUME NEW cl \in [Threads -> CallType], NEW d \in [Nodes -> NodeType],
         NEW kn \in [Ids -> Nat], NEW ko \in [Ids -> Nat], Counts(d, cl, kn, ko),
         NEW t \in Threads, NEW n \in Ids
  PROVE  /\ d[n].nlookup >= kn[n] + Forgets(cl[t], n)
         /\ d[n].nlookup >= kn[n] + In(n, {cl[t].ino})
         /\ d[n].nlookup >= kn[n]
         /\ d[n].open_count >= ko[n] + Opened(cl[t], n)
         /\ d[n].open_count >= ko[n]
         /\ Forgets(cl[t], n) \in Nat /\ Opened(cl[t], n) \in Nat
<1>1. PICK c2 : c2 = [cl EXCEPT ![t] = NoCall]
  OBVIOUS
<1>2. c2 \in [Threads -> CallType] /\ c2[t] = NoCall /\ \A u \in Threads \ {t} : c2[u] = cl[u]
  BY <1>1, NoCallIs
<1>3. /\ Finders(cl, n) \in SUBSET Threads /\ Openers(cl, n) \in SUBSET Threads
      /\ Finders(c2, n) \in SUBSET Threads /\ Openers(c2, n) \in SUBSET Threads
      /\ \A u \in Threads \ {t} : u \in Finders(cl, n) <=> u \in Finders(c2, n)
      /\ \A u \in Threads \ {t} : u \in Openers(cl, n) <=> u \in Openers(c2, n)
      /\ t \in Finders(cl, n) <=> n \in {cl[t].ino}
      /\ t \notin Finders(c2, n)
      /\ t \in Openers(cl, n) <=> Opened(cl[t], n) = 1
      /\ t \notin Openers(c2, n)
  BY <1>2, NoCallIs, IdsPlaces DEF Finders, Openers, OpenAt, Opened
<1>4. PICK x \in Nat : x = Cardinality(Finders(cl, n))
  BY <1>3, ThreadCount
<1>5. PICK y \in Nat : y = Cardinality(Openers(cl, n))
  BY <1>3, ThreadCount
<1>6. PICK z \in Nat : z = Cardinality(Forgetters(cl, n))
  BY ForgettersFinite
<1>7. PICK i \in Nat : i = In(n, {cl[t].ino})
  BY DEF In
<1>8. PICK o \in Nat : o = Opened(cl[t], n)
  BY DEF Opened
<1>9. PICK f \in Nat : f = Forgets(cl[t], n)
  BY DEF Forgets, CallType
<1>10. i <= x
  <2>1. Cardinality(Finders(c2, n)) + In(t, Finders(cl, n)) = x + In(t, Finders(c2, n))
        /\ Cardinality(Finders(c2, n)) \in Nat
    BY <1>3, <1>4, OneThread
  <2>2. In(t, Finders(c2, n)) = 0 /\ In(t, Finders(cl, n)) = i
    BY <1>3, <1>7 DEF In
  <2> QED BY <2>1, <2>2
<1>11. o <= y
  <2>1. Cardinality(Openers(c2, n)) + In(t, Openers(cl, n)) = y + In(t, Openers(c2, n))
        /\ Cardinality(Openers(c2, n)) \in Nat
    BY <1>3, <1>5, OneThread
  <2>2. In(t, Openers(c2, n)) = 0 /\ In(t, Openers(cl, n)) = o
    BY <1>3, <1>8 DEF In, Opened
  <2> QED BY <2>1, <2>2
<1>12. f <= z
  <2>1. Cardinality(Forgetters(c2, n)) + f = z + Forgets(c2[t], n)
        /\ Cardinality(Forgetters(c2, n)) \in Nat
    BY <1>2, <1>6, <1>9, ForgetStep, ForgettersFinite
  <2>2. Forgets(c2[t], n) = 0
    BY <1>2, NoForgets
  <2> QED BY <2>1, <2>2
<1>13. PICK k \in Nat : k = kn[n]
  OBVIOUS
<1>14. PICK l \in Nat : l = ko[n]
  OBVIOUS
<1>15. d[n].nlookup = k + x + z /\ d[n].open_count = l + y
  BY <1>4, <1>5, <1>6, <1>13, <1>14 DEF Counts
<1> QED BY <1>7, <1>8, <1>9, <1>10, <1>11, <1>12, <1>13, <1>14, <1>15

\* What the counts, the kernel and the queue say depends on what locking leaves alone.
LEMMA RestSame ==
  ASSUME NEW cl, NEW c2, \A u \in Threads : Same(c2[u], cl[u]), NEW d, NEW kn, NEW ko, NEW q
  PROVE  /\ Counts(d, cl, kn, ko) => Counts(d, c2, kn, ko)
         /\ KernelInv(cl, kn, ko) => KernelInv(c2, kn, ko)
         /\ QueueInv(q, cl) => QueueInv(q, c2)
         /\ Targets(d, cl) => Targets(d, c2)
<1>1. ASSUME NEW n \in Ids
      PROVE  /\ Finders(c2, n) = Finders(cl, n) /\ Openers(c2, n) = Openers(cl, n)
             /\ Forgetters(c2, n) = Forgetters(cl, n)
  <2>1. \A u \in Threads : OpenAt(c2[u]) <=> OpenAt(cl[u])
    BY DEF Same, OpenAt
  <2> QED BY <2>1 DEF Finders, Openers, Forgetters, Same
<1>2. Counts(d, cl, kn, ko) => Counts(d, c2, kn, ko)
  BY <1>1 DEF Counts
<1>3. KernelInv(cl, kn, ko) => KernelInv(c2, kn, ko)
  BY DEF KernelInv, Same
<1>4. QueueInv(q, cl) => QueueInv(q, c2)
  BY DEF QueueInv, Waits, Same
<1>5. Targets(d, cl) => Targets(d, c2)
  BY DEF Targets, Target, Wr, Two, Same
<1> QED BY <1>2, <1>3, <1>4, <1>5

---------------------------------------------------------------------------
(* Paths freed and got *)

LEMMA KnownAlive ==
  ASSUME Inv, NEW n \in Nodes, n \in Ids => knows[n] > 0
  PROVE  Alive(nd, n)
<1>1. CASE n = Root
  BY <1>1 DEF Alive
<1>2. CASE n \in Ids
  <2>1. /\ call \in [Threads -> CallType] /\ nd \in [Nodes -> NodeType]
        /\ knows \in [Ids -> Nat] /\ kopen \in [Ids -> Nat] /\ Counts(nd, call, knows, kopen)
    BY DEF Inv, TypeOK, NodeType
  <2>2. /\ nd[n].nlookup = knows[n] + Cardinality(Finders(call, n))
                           + Cardinality(Forgetters(call, n))
        /\ knows[n] \in Nat /\ knows[n] > 0
    BY <1>2, <2>1 DEF Counts
  <2>3. /\ Cardinality(Forgetters(call, n)) \in Nat
        /\ Cardinality(Finders(call, n)) \in Nat
    <3>1. Finders(call, n) \in SUBSET Threads
      BY DEF Finders
    <3> QED BY <2>1, <3>1, ForgettersFinite, ThreadCount
  <2> QED BY <2>2, <2>3 DEF Alive
<1> QED BY <1>1, <1>2 DEF Nodes

LEMMA WaitLockable ==
  ASSUME Inv, NEW t \in Threads, call[t].at = "wait"
  PROVE  Lockable(nd, call[t])
<1>1. PICK r : r = call[t]
  OBVIOUS
<1>2. r \in CallType /\ Shape(r) /\ r.at = "wait"
  BY <1>1 DEF Inv, TypeOK, Calls
<1>3. Asked(r) /\ Phase(r)
  BY <1>2, NoCallIs DEF Shape
<1>4. r.n \in r.kref /\ r.n \in Nodes /\ (Two(r) => r.n2 \in r.kref /\ r.n2 \in Nodes)
  BY <1>2, <1>3 DEF Phase, Asked, Steps
<1>5. \A n \in r.kref \cap Ids : knows[n] > 0
  BY <1>1 DEF Inv, KernelInv
<1>6. Alive(nd, r.n) /\ (Two(r) => Alive(nd, r.n2))
  BY <1>4, <1>5, KnownAlive
<1>7. Wr(r) => \A c \in Ids : Target(nd, r, c) => nd[c].nlookup > 0
  <2> SUFFICES ASSUME Wr(r), NEW c \in Ids, Target(nd, r, c) PROVE nd[c].nlookup > 0
    OBVIOUS
  <2>1. c \in r.kref
    BY <1>1, <1>2 DEF Inv, Targets
  <2>2. Alive(nd, c)
    BY <1>5, <2>1, KnownAlive, IdsPlaces
  <2> QED BY <2>2, IdsPlaces DEF Alive
<1> QED BY <1>1, <1>3, <1>6, <1>7 DEF Lockable

Freed(t, new) ==
  /\ treelock' \in [Ids -> Int] /\ call' \in [Threads -> CallType]
  /\ LockOk(nd, treelock', call') /\ Calls(nd, call')
  /\ \A u \in Threads : Same(call'[u], [call EXCEPT ![t] = new][u])
  /\ call'[t] = new
  /\ \A u \in Threads \ {t} : ~Waits(call[u]) => call'[u] = call[u]

LEMMA FreePathOk ==
  ASSUME Inv, NEW t \in Threads, ~Waits(call[t]), call[t].l2 => call[t].l,
         NEW new \in CallType, ~new.l, ~new.l2, ~Waits(new), Shape(new), Locks(nd, new),
         FreePath(t, new)
  PROVE  Freed(t, new)
<1>1. PICK c0 : c0 = [call EXCEPT ![t] = new]
  OBVIOUS
<1>2. /\ call \in [Threads -> CallType] /\ treelock \in [Ids -> Int] /\ lockq \in Seq(Threads)
      /\ TreeInv(nd) /\ Calls(nd, call) /\ LockOk(nd, treelock, call) /\ QueueInv(lockq, call)
  BY DEF Inv, TypeOK
<1>3. /\ c0 \in [Threads -> CallType] /\ c0[t] = new /\ Calls(nd, c0)
      /\ \A u \in Threads \ {t} : c0[u] = call[u]
  BY <1>1, <1>2 DEF Calls
<1>4. CASE call[t].l
  <2>1. PICK tl : tl = Unlock(treelock, call[t])
    OBVIOUS
  <2>2. Held(nd, treelock, call, t, call[t])
    <3>1. [call EXCEPT ![t] = call[t]] = call
      BY <1>2
    <3> QED BY <1>2, <3>1 DEF Held, Calls
  <2>3. tl \in [Ids -> Int] /\ LockOk(nd, tl, c0)
    BY <1>1, <1>2, <2>1, <2>2, UnlockedOk
  <2>4. PICK s : s = [tl |-> tl, call |-> c0]
    OBVIOUS
  <2>5. WakeInv(c0, s)
    <3>1. \A u \in Threads : Same(c0[u], c0[u])
      BY DEF Same
    <3> QED BY <1>3, <2>3, <2>4, <3>1 DEF WakeInv
  <2>6. ASSUME NEW i \in 1 .. Len(lockq)
        PROVE  Waits(c0[lockq[i]]) /\ (c0[lockq[i]].at = "wait" => Lockable(nd, c0[lockq[i]]))
    <3>1. lockq[i] \in Threads /\ i \in DOMAIN lockq
      BY <1>2
    <3>2. Waits(call[lockq[i]])
      BY <1>2, <3>1 DEF QueueInv
    <3>3. c0[lockq[i]] = call[lockq[i]]
      BY <1>3, <3>1, <3>2
    <3> QED BY <3>1, <3>2, <3>3, WaitLockable
  <2>7. WakeInv(c0, wake_up_queued(s))
    BY <1>2, <2>5, <2>6, WakeAllOk
  <2>8. treelock' = wake_up_queued(s).tl /\ call' = wake_up_queued(s).call
    BY <1>1, <1>4, <2>1, <2>4 DEF FreePath
  <2>9. /\ call' \in [Threads -> CallType] /\ treelock' \in [Ids -> Int]
        /\ LockOk(nd, treelock', call') /\ Calls(nd, call')
        /\ \A u \in Threads : Same(call'[u], c0[u]) /\ (~Waits(c0[u]) => call'[u] = c0[u])
    BY <2>7, <2>8 DEF WakeInv
  <2>10. call'[t] = new /\ \A u \in Threads \ {t} : ~Waits(call[u]) => call'[u] = call[u]
    BY <1>3, <2>9
  <2> QED BY <1>1, <2>9, <2>10 DEF Freed
<1>5. CASE ~call[t].l
  <2>1. treelock' = treelock /\ call' = c0
    BY <1>1, <1>5 DEF FreePath
  <2>2. LockOk(nd, treelock, c0)
    BY <1>2, <1>3, <1>5, LockFrame
  <2>3. \A u \in Threads : Same(c0[u], c0[u])
    BY DEF Same
  <2> QED BY <1>1, <1>2, <1>3, <2>1, <2>2, <2>3 DEF Freed
<1> QED BY <1>4, <1>5

LEMMA IdleIs == ASSUME Inv, NEW t \in Threads, Idle(t) PROVE call[t] = NoCall
<1>1. Shape(call[t]) /\ call[t].at = "idle"
  BY DEF Inv, Calls, Idle
<1> QED BY <1>1 DEF Shape, Asked, Phase, Steps

\* A request the kernel has just sent.
Fresh(r) ==
  /\ r \in CallType /\ r.at = "idle" /\ ~r.l /\ ~r.l2 /\ r.w = NoNode /\ r.w2 = NoNode
  /\ ~r.done /\ ~r.err /\ r.ino = NoNode /\ Asked(r) /\ r.op # "forget"
  /\ r.n \in r.kref /\ (Two(r) => r.n2 \in r.kref)
  /\ \A n \in r.kref \cap Ids : knows[n] > 0
  /\ Wr(r) => \A c \in Ids : Target(nd, r, c) => c \in r.kref

Tried(t, r, s) ==
  /\ Held(nd, s.tl, call, t, s.r) /\ Same(s.r, r) /\ s.r.done = r.done /\ s.r.err = r.err
  /\ s.err \in {"ok", "again", "noent"} /\ (s.err = "ok" => Ready(s.r))

LEMMA GetPathTried ==
  ASSUME Inv, NEW t \in Threads, call[t] = NoCall, NEW r, Fresh(r),
         NEW s, s = GetPath2(GetPath1(r))
  PROVE  Tried(t, r, s)
<1>1. /\ call \in [Threads -> CallType] /\ treelock \in [Ids -> Int]
      /\ TreeInv(nd) /\ Calls(nd, call) /\ LockOk(nd, treelock, call)
  BY DEF Inv, TypeOK
<1>2. PICK c1 : c1 = [call EXCEPT ![t] = r]
  OBVIOUS
<1>3. c1[t] = r /\ \A u \in Threads \ {t} : c1[u] = call[u]
  BY <1>1, <1>2
<1>4. LockOk(nd, treelock, c1)
  BY <1>1, <1>3, NoCallIs, LockFrame DEF Fresh
<1>5. Locks(nd, r)
  BY NoLocks DEF Fresh
<1>6. Held(nd, treelock, call, t, r)
  BY <1>1, <1>2, <1>4, <1>5 DEF Held, Fresh
<1>7. Lockable(nd, r)
  <2>1. Asked(r) /\ r.n \in Nodes /\ (Two(r) => r.n2 \in Nodes)
    BY DEF Fresh, Asked
  <2>2. Alive(nd, r.n) /\ (Two(r) => Alive(nd, r.n2))
    BY <2>1, KnownAlive DEF Fresh
  <2>3. ASSUME Wr(r), NEW c \in Ids, Target(nd, r, c) PROVE nd[c].nlookup > 0
    <3>1. Alive(nd, c)
      BY <2>3, KnownAlive, IdsPlaces DEF Fresh
    <3> QED BY <3>1, IdsPlaces DEF Alive
  <2> QED BY <2>1, <2>2, <2>3 DEF Lockable
<1>8. PICK s0 : s0 = Untried(treelock, r)
  OBVIOUS
<1>9. s0.tl = treelock /\ s0.r = r /\ s0.err = "ok"
  BY <1>8 DEF Untried
<1>10. PICK a : a = TryFirst(s0)
  OBVIOUS
<1>11. FirstTried(call, t, s0, a)
  BY <1>1, <1>6, <1>7, <1>9, <1>10, TryFirstOk
<1>12. s = GetPath2(a)
  BY <1>8, <1>10 DEF GetPath1
<1>13. /\ Held(nd, a.tl, call, t, a.r) /\ Same(a.r, r) /\ a.r.done = r.done /\ a.r.err = r.err
       /\ a.err \in {"ok", "again", "noent"} /\ (a.err = "ok" <=> a.r.l)
  BY <1>9, <1>11 DEF FirstTried
<1>14. (Two(a.r) <=> Two(r)) /\ Lockable(nd, a.r)
  BY <1>7, <1>13, AskedSame
<1>15. CASE Two(r) /\ a.err = "ok"
  <2>1. s = TrySecond(a)
    BY <1>12, <1>14, <1>15 DEF GetPath2
  <2>2. SecondTried(call, t, a, s)
    BY <1>1, <1>13, <1>14, <1>15, <2>1, TrySecondOk
  <2>3. Same(s.r, r)
    BY <1>13, <2>2 DEF SecondTried, Same
  <2>4. s.err = "ok" => Ready(s.r)
    BY <1>13, <1>15, <2>2 DEF SecondTried, Ready
  <2> QED BY <1>13, <1>15, <2>2, <2>3, <2>4 DEF SecondTried, Tried
<1>16. CASE ~(Two(r) /\ a.err = "ok")
  <2>1. s = a
    BY <1>12, <1>14, <1>16 DEF GetPath2
  <2> QED BY <1>13, <1>14, <1>16, <2>1 DEF Tried, Ready
<1> QED BY <1>15, <1>16

\* The request r has got its paths, waits for them, or is answered without.
Started(t, r, q) ==
  /\ q \in CallType /\ call' = [call EXCEPT ![t] = q] /\ Shape(q) /\ Locks(nd, q)
  /\ treelock' \in [Ids -> Int] /\ LockOk(nd, treelock', call')
  /\ \/ q = NoCall /\ r.op # "release" /\ lockq' = lockq
     \/ /\ Same(q, [r EXCEPT !.at = FirstStep(r.op)])
        /\ lockq' = lockq
     \/ /\ Same(q, [r EXCEPT !.at = "wait"]) /\ ~q.done
        /\ lockq' = Append(lockq, t)

LEMMA AtIs ==
  ASSUME NEW r \in CallType, NEW a \in StepNames, NEW q, q = [r EXCEPT !.at = a]
  PROVE  /\ q \in CallType /\ q.at = a /\ q.op = r.op /\ q.n = r.n /\ q.m = r.m /\ q.n2 = r.n2
         /\ q.m2 = r.m2 /\ q.fl = r.fl /\ q.w = r.w /\ q.w2 = r.w2 /\ q.l = r.l /\ q.l2 = r.l2
         /\ q.p = r.p /\ q.p2 = r.p2 /\ q.done = r.done /\ q.err = r.err /\ q.ino = r.ino
         /\ q.f = r.f /\ q.hid = r.hid /\ q.k = r.k /\ q.mx = r.mx /\ q.kref = r.kref
<1>1. q \in CallType
  BY DEF CallType
<1> QED BY <1>1 DEF CallType

LEMMA GotOk ==
  ASSUME Inv, NEW t \in Threads, call[t] = NoCall, NEW r, Fresh(r), GetPath(t, r)
  PROVE  \E q : Started(t, r, q)
<1>1. PICK s : s = GetPath2(GetPath1(r))
  OBVIOUS
<1>2. Tried(t, r, s)
  BY <1>1, GetPathTried
<1>3. Got(t, r, s)
  BY <1>1 DEF GetPath
<1>4. /\ call \in [Threads -> CallType] /\ treelock \in [Ids -> Int]
      /\ TreeInv(nd) /\ Calls(nd, call) /\ LockOk(nd, treelock, call)
  BY DEF Inv, TypeOK
<1>5. /\ Held(nd, s.tl, call, t, s.r) /\ s.r \in CallType /\ s.tl \in [Ids -> Int]
      /\ Same(s.r, r) /\ Locks(nd, s.r)
      /\ LockOk(nd, s.tl, [call EXCEPT ![t] = s.r])
  BY <1>2 DEF Tried, Held
<1>6. r \in CallType /\ Asked(r) /\ r.op # "forget" /\ r.op \in DOMAIN Steps
      /\ r.n \in r.kref /\ (Two(r) => r.n2 \in r.kref) /\ r.ino = NoNode
      /\ r.at = "idle" /\ ~r.l /\ ~r.l2 /\ r.w = NoNode /\ r.w2 = NoNode /\ ~r.done
  BY DEF Fresh, Asked
<1>7. FirstStep(r.op) \in Steps[r.op] /\ FirstStep(r.op) \in StepNames
      /\ FirstStep(r.op) \in {"stat", "rel", "fs"}
  BY <1>6 DEF FirstStep, Steps, StepNames
<1>8. CASE s.err = "ok"
  <2>1. PICK q : q = [s.r EXCEPT !.at = FirstStep(r.op)]
    OBVIOUS
  <2>2. treelock' = s.tl /\ call' = [call EXCEPT ![t] = q] /\ lockq' = lockq
    BY <1>3, <1>8, <2>1 DEF Got
  <2>3. /\ q \in CallType /\ q.at = FirstStep(r.op) /\ q.op = r.op /\ q.n = r.n /\ q.m = r.m
        /\ q.n2 = r.n2 /\ q.m2 = r.m2 /\ q.fl = r.fl /\ q.ino = r.ino /\ q.hid = r.hid
        /\ q.k = r.k /\ q.mx = r.mx /\ q.kref = r.kref
        /\ q.l = s.r.l /\ q.l2 = s.r.l2 /\ q.w = s.r.w /\ q.w2 = s.r.w2 /\ q.p = s.r.p
        /\ q.p2 = s.r.p2
    BY <1>5, <1>7, <2>1, AtIs DEF Same
  <2>4. Ready(s.r)
    BY <1>2, <1>8 DEF Tried
  <2>5. (Two(q) <=> Two(r)) /\ (Two(s.r) <=> Two(r)) /\ (Wr(q) <=> Wr(r)) /\ (Wr(s.r) <=> Wr(r))
    BY <1>5, <2>3 DEF Two, Wr, Same
  <2>6. Ready(q)
    BY <2>3, <2>4, <2>5 DEF Ready
  <2>7. Asked(q)
    BY <1>6, <2>3, <2>5 DEF Asked
  <2>8. Phase(q)
    BY <1>6, <1>7, <2>3, <2>5, <2>6 DEF Phase
  <2>9. Locks(nd, q)
    BY <1>5, <1>6, <1>7, <2>3, <2>5 DEF Locks, Same
  <2>10. LockOk(nd, s.tl, [call EXCEPT ![t] = q])
    <3>1. PICK c1 : c1 = [call EXCEPT ![t] = s.r]
      OBVIOUS
    <3>2. PICK c2 : c2 = [call EXCEPT ![t] = q]
      OBVIOUS
    <3>3. c1[t] = s.r /\ c2[t] = q /\ \A u \in Threads \ {t} : c1[u] = c2[u]
      BY <1>4, <3>1, <3>2
    <3>4. LockOk(nd, s.tl, c1) /\ s.r.n = q.n /\ s.r.n2 = q.n2
      BY <1>5, <2>3, <3>1 DEF Same
    <3>5. LockOk(nd, s.tl, c2)
      BY <2>3, <3>3, <3>4, LockFrame
    <3> QED BY <3>2, <3>5
  <2>11. Same(q, [r EXCEPT !.at = FirstStep(r.op)])
    <3>1. PICK x : x = [r EXCEPT !.at = FirstStep(r.op)]
      OBVIOUS
    <3>2. Same(q, x)
      BY <1>6, <1>7, <2>3, <3>1, AtIs DEF Same
    <3> QED BY <3>1, <3>2
  <2> QED BY <1>5, <2>2, <2>3, <2>7, <2>8, <2>9, <2>10, <2>11 DEF Started, Shape
<1>9. CASE s.err = "again"
  <2>1. PICK q : q = [r EXCEPT !.at = "wait"]
    OBVIOUS
  <2>2. treelock' = Unlock(s.tl, s.r) /\ call' = [call EXCEPT ![t] = q]
        /\ lockq' = Append(lockq, t)
    BY <1>3, <1>9, <2>1 DEF Got
  <2>3. /\ q \in CallType /\ q.at = "wait" /\ q.op = r.op /\ q.n = r.n /\ q.m = r.m
        /\ q.n2 = r.n2 /\ q.m2 = r.m2 /\ q.fl = r.fl /\ q.ino = r.ino /\ q.hid = r.hid
        /\ q.k = r.k /\ q.mx = r.mx /\ q.kref = r.kref
        /\ ~q.l /\ ~q.l2 /\ q.w = NoNode /\ q.w2 = NoNode /\ ~q.done
    BY <1>6, <2>1, AtIs DEF StepNames
  <2>4. (Two(q) <=> Two(r)) /\ (Wr(q) <=> Wr(r))
    BY <2>3 DEF Two, Wr
  <2>5. Asked(q)
    BY <1>6, <2>3, <2>4 DEF Asked
  <2>6. Phase(q)
    <3>1. "wait" \in Steps[r.op]
      BY <1>6 DEF Steps
    <3> QED BY <1>6, <2>3, <2>4, <3>1 DEF Phase
  <2>7. Locks(nd, q)
    BY <2>3, NoLocks
  <2>8. treelock' \in [Ids -> Int] /\ LockOk(nd, treelock', [call EXCEPT ![t] = q])
    BY <1>4, <1>5, <2>2, <2>3, UnlockedOk
  <2>9. Same(q, [r EXCEPT !.at = "wait"])
    BY <2>1 DEF Same
  <2> QED BY <2>2, <2>3, <2>5, <2>6, <2>7, <2>8, <2>9 DEF Started, Shape
<1>10. CASE s.err = "noent"
  <2>1. PICK q : q = NoPathFor(r)
    OBVIOUS
  <2>2. treelock' = Unlock(s.tl, s.r) /\ call' = [call EXCEPT ![t] = q] /\ lockq' = lockq
    BY <1>3, <1>10, <2>1 DEF Got
  <2>3. CASE r.op = "release"
    <3>1. PICK u : u = Unlocked(r)
      OBVIOUS
    <3>2. /\ u \in CallType /\ Same(u, r) /\ ~u.l /\ ~u.l2 /\ u.w = NoNode /\ u.w2 = NoNode
          /\ u.done = r.done
      BY <1>6, <3>1, UnlockedIs
    <3>3. q = [u EXCEPT !.at = "rel", !.done = FALSE, !.err = FALSE]
      BY <2>1, <2>3, <3>1 DEF NoPathFor
    <3>4. q \in CallType
      <4>1. "rel" \in StepNames
        BY DEF StepNames
      <4> QED BY <3>2, <3>3, <4>1 DEF CallType
    <3>5. /\ q.at = "rel" /\ q.op = u.op /\ q.n = u.n /\ q.m = u.m
          /\ q.n2 = u.n2 /\ q.m2 = u.m2 /\ q.fl = u.fl /\ q.ino = u.ino /\ q.hid = u.hid
          /\ q.k = u.k /\ q.mx = u.mx /\ q.kref = u.kref
          /\ ~q.l /\ ~q.l2 /\ q.w = NoNode /\ q.w2 = NoNode /\ ~q.done
      BY <3>2, <3>3 DEF CallType
    <3>6. (Two(q) <=> Two(r)) /\ ~Two(q)
      BY <2>3, <3>2, <3>5 DEF Two, Same
    <3>7. Asked(q)
      BY <1>6, <3>2, <3>5, <3>6 DEF Asked, Same
    <3>8. Phase(q)
      <4>1. "rel" \in Steps[r.op]
        BY <2>3 DEF Steps
      <4> QED BY <1>6, <2>3, <3>2, <3>5, <3>6, <4>1 DEF Phase, Same
    <3>9. Locks(nd, q)
      BY <3>5, NoLocks
    <3>10. treelock' \in [Ids -> Int] /\ LockOk(nd, treelock', [call EXCEPT ![t] = q])
      BY <1>4, <1>5, <2>2, <3>5, UnlockedOk
    <3>11. Same(q, [r EXCEPT !.at = FirstStep(r.op)])
      <4>1. PICK x : x = [r EXCEPT !.at = FirstStep(r.op)]
        OBVIOUS
      <4>2. FirstStep(r.op) = "rel"
        BY <2>3 DEF FirstStep
      <4>3. Same(q, x)
        BY <1>6, <1>7, <3>2, <3>5, <4>1, <4>2, AtIs DEF Same
      <4> QED BY <4>1, <4>3
    <3> QED BY <2>2, <3>4, <3>7, <3>8, <3>9, <3>10, <3>11 DEF Started, Shape
  <2>4. CASE r.op # "release"
    <3>1. q = NoCall
      BY <2>1, <2>4 DEF NoPathFor
    <3>2. treelock' \in [Ids -> Int] /\ LockOk(nd, treelock', [call EXCEPT ![t] = q])
      BY <1>4, <1>5, <2>2, <3>1, NoCallIs, UnlockedOk
    <3> QED BY <2>2, <2>4, <3>1, <3>2, NoCallIs DEF Started
  <2> QED BY <2>3, <2>4
<1> QED BY <1>2, <1>8, <1>9, <1>10 DEF Tried

---------------------------------------------------------------------------
(* The operations on the table *)

SamePlace(d, e, u) == e[u].parent = d[u].parent /\ e[u].name = d[u].name

\* Only places change, and references.
Edit(d, e) ==
  \A u \in Nodes : /\ e[u].nlookup = d[u].nlookup /\ e[u].open_count = d[u].open_count
                   /\ e[u].is_hidden = d[u].is_hidden /\ e[u].file = d[u].file

LEMMA ChildrenFinite ==
  ASSUME NEW d, NEW n
  PROVE  IsFiniteSet(Children(d, n)) /\ Cardinality(Children(d, n)) \in Nat
BY NodesAssumption, FS_Subset, FS_CardinalityType DEF Children

LEMMA NodeIs ==
  ASSUME NEW d, TreeInv(d), NEW n \in Nodes
  PROVE  /\ d[n] \in NodeType /\ d[n].refctr \in Nat /\ d[n].nlookup \in Nat
         /\ d[n].parent \in Nodes \cup {NoNode} /\ d[n].name \in AllNames \cup {NoName}
         /\ d[n].refctr = (IF d[n].nlookup > 0 THEN 1 ELSE 0) + Cardinality(Children(d, n))
BY DEF TreeInv, NodeType

\* The reference of a child to an alive parent is not the last one.
LEMMA UnrefOne ==
  ASSUME NEW d, TreeInv(d), NEW p \in Nodes, Alive(d, p), NEW c \in Ids, d[c].parent = p
  PROVE  /\ unref_node(d, p) = [d EXCEPT ![p].refctr = @ - 1]
         /\ d[p].refctr >= 2
<1>1. Tree(d) /\ p \in Places
  BY InvTree, IdsPlaces
<1>2. d[p].refctr >= 2
  <2>1. c \in Children(d, p)
    BY DEF Children
  <2>2. Cardinality(Children(d, p)) >= 1
    BY <2>1, ChildrenFinite, FS_EmptySet
  <2>3. d[p].nlookup > 0
    BY DEF Alive, TreeInv
  <2> QED BY <2>2, <2>3, NodeIs, ChildrenFinite
<1>3. ASSUME NEW u \in Chain(d, p)
      PROVE  ~ \A v \in Chain(d, p) : u \in Chain(d, v) => d[v].refctr = 1
  <2>1. p \in Chain(d, p)
    <3>1. p \notin {Root, NoNode}
      BY <1>1, ChainIs DEF Tree
    <3> QED BY <1>1, <3>1, ChainUp, IdsPlaces
  <2> QED BY <2>1, <1>2
<1>4. {u \in Chain(d, p) : \A v \in Chain(d, p) : u \in Chain(d, v) => d[v].refctr = 1} = {}
  BY <1>3
<1>5. unref_node(d, p) = [u \in Nodes |-> IF u = p THEN [d[u] EXCEPT !.refctr = @ - 1] ELSE d[u]]
  BY <1>4 DEF unref_node
<1>6. d \in [Nodes -> NodeType]
  BY DEF TreeInv
<1>7. unref_node(d, p) = [d EXCEPT ![p].refctr = @ - 1]
  BY <1>5, <1>6
<1> QED BY <1>2, <1>7

\* A node with another place, or other counts.
Replaced(q, r, p, m) ==
  /\ q \in NodeType /\ q.parent = p /\ q.name = m /\ q.nlookup = r.nlookup /\ q.refctr = r.refctr
  /\ q.open_count = r.open_count /\ q.is_hidden = r.is_hidden /\ q.file = r.file
Recounted(q, r, k) ==
  /\ q \in NodeType /\ q.parent = r.parent /\ q.name = r.name /\ q.nlookup = r.nlookup
  /\ q.refctr = k
  /\ q.open_count = r.open_count /\ q.is_hidden = r.is_hidden /\ q.file = r.file

LEMMA PlaceEdit ==
  ASSUME NEW r \in NodeType, NEW p \in Nodes \cup {NoNode}, NEW m \in AllNames \cup {NoName},
         NEW q, q = [r EXCEPT !.parent = p, !.name = m]
  PROVE  Replaced(q, r, p, m)
BY DEF NodeType, Replaced

LEMMA CountEdit ==
  ASSUME NEW r \in NodeType, NEW k \in Nat, NEW q, q = [r EXCEPT !.refctr = k]
  PROVE  Recounted(q, r, k)
BY DEF NodeType, Recounted

Unhashed(d, e, n) ==
  /\ TreeInv(e) /\ Edit(d, e) /\ e[n].parent = NoNode /\ e[n].name = NoName
  /\ e[n].refctr > 0 /\ \A u \in Ids \ {n} : SamePlace(d, e, u)

LEMMA UnhashOk ==
  ASSUME NEW d, TreeInv(d), NEW n \in Ids, d[n].name # NoName, ~d[n].is_hidden,
         Alive(d, d[n].parent), NEW e, e = unhash_name(d, n)
  PROVE  Unhashed(d, e, n)
<1>1. PICK p : p = d[n].parent
  OBVIOUS
<1>2. /\ d \in [Nodes -> NodeType] /\ n \in Nodes /\ p \in Nodes /\ p # NoNode /\ p # n
      /\ n # Root
  <2>1. n \in Nodes /\ Tree(d) /\ n # Root
    BY IdsPlaces, InvTree
  <2>2. p # n
    <3> SUFFICES ASSUME p = n PROVE FALSE
      OBVIOUS
    <3>1. n \in Chain(d, n)
      BY <2>1, ChainUp
    <3> QED BY <1>1, <2>1, <3>1, ChainNoLoop
  <2> QED BY <1>1, <2>1, <2>2, NodeIs DEF TreeInv
<1>3. unref_node(d, p) = [d EXCEPT ![p].refctr = @ - 1] /\ d[p].refctr >= 2
  BY <1>1, <1>2, UnrefOne
<1>4. e = [[d EXCEPT ![p].refctr = @ - 1] EXCEPT ![n].parent = NoNode, ![n].name = NoName]
  BY <1>1, <1>3 DEF unhash_name
<1>5. /\ e[n] = [d[n] EXCEPT !.parent = NoNode, !.name = NoName]
      /\ e[p] = [d[p] EXCEPT !.refctr = @ - 1]
      /\ \A u \in Nodes \ {n, p} : e[u] = d[u]
      /\ DOMAIN e = Nodes
  BY <1>2, <1>4
<1>6. /\ Replaced(e[n], d[n], NoNode, NoName) /\ Recounted(e[p], d[p], d[p].refctr - 1)
      /\ e \in [Nodes -> NodeType]
  <2>1. d[n] \in NodeType /\ d[p] \in NodeType /\ d[p].refctr - 1 \in Nat
    BY <1>2, <1>3, NodeIs
  <2>2. Replaced(e[n], d[n], NoNode, NoName)
    BY <1>5, <2>1, PlaceEdit
  <2>3. Recounted(e[p], d[p], d[p].refctr - 1)
    BY <1>5, <2>1, CountEdit
  <2>4. \A u \in Nodes : e[u] \in NodeType
    BY <1>2, <1>5, <2>2, <2>3 DEF Replaced, Recounted
  <2>5. e = [u \in Nodes |-> e[u]]
    BY <1>2, <1>4
  <2> QED BY <2>2, <2>3, <2>4, <2>5
<1>7. /\ e[n].parent = NoNode /\ e[n].name = NoName /\ e[n].refctr = d[n].refctr
      /\ e[p].parent = d[p].parent /\ e[p].name = d[p].name /\ e[p].refctr = d[p].refctr - 1
      /\ \A u \in Nodes \ {n} : SamePlace(d, e, u)
      /\ \A u \in Nodes \ {p} : e[u].refctr = d[u].refctr
  BY <1>2, <1>5, <1>6 DEF Replaced, Recounted, SamePlace
<1>8. Edit(d, e)
  BY ZenonT(40), <1>2, <1>5, <1>6 DEF Replaced, Recounted, Edit
<1>9. d[n].refctr > 0
  <2> SUFFICES ASSUME d[n].refctr = 0 PROVE FALSE
    BY <1>2, NodeIs
  <2> QED BY DEF TreeInv, FreeNode
<1>10. ASSUME NEW u \in Nodes
       PROVE  e[u].refctr = (IF e[u].nlookup > 0 THEN 1 ELSE 0) + Cardinality(Children(e, u))
  <2>1. d[u].refctr = (IF d[u].nlookup > 0 THEN 1 ELSE 0) + Cardinality(Children(d, u))
        /\ e[u].nlookup = d[u].nlookup
    BY <1>8, NodeIs DEF Edit
  <2>2. CASE u = p
    <3>1. Children(e, u) = Children(d, u) \ {n} /\ n \in Children(d, u)
      BY <1>1, <1>2, <1>7, <2>2, IdsPlaces DEF Children, SamePlace
    <3>2. Cardinality(Children(e, u)) = Cardinality(Children(d, u)) - 1
      BY <3>1, ChildrenFinite, FS_RemoveElement
    <3> QED BY <1>7, <2>1, <2>2, <3>2, ChildrenFinite
  <2>3. CASE u # p
    <3>1. u # NoNode
      BY IdsPlaces DEF Nodes
    <3>2. Children(e, u) = Children(d, u)
      BY <1>1, <1>7, <2>3, <3>1, IdsPlaces DEF Children, SamePlace
    <3> QED BY <1>7, <2>1, <2>3, <3>2
  <2> QED BY <2>2, <2>3
<1>11. WellFounded(e)
  <2>1. \A u \in Ids : e[u].parent \in {d[u].parent, NoNode}
    BY <1>7, IdsPlaces DEF SamePlace
  <2>2. Tree(d)
    BY InvTree
  <2>3. Tree(e)
    BY <2>1, <2>2, CutTree
  <2> QED BY <2>3 DEF Tree
<1>12. \A u \in Ids : e[u].refctr = 0 => e[u] = FreeNode
  <2> SUFFICES ASSUME NEW u \in Ids, e[u].refctr = 0 PROVE e[u] = FreeNode
    OBVIOUS
  <2>1. u # n /\ u # p /\ u \in Nodes
    BY <1>3, <1>7, <1>9, NodeIs, <1>2, IdsPlaces
  <2> QED BY <2>1, <1>5 DEF TreeInv
<1>13. /\ \A u \in Ids : e[u].parent = NoNode <=> e[u].name = NoName
       /\ \A u \in Ids : e[u].is_hidden => e[u].name \in HiddenNames
  <2> SUFFICES ASSUME NEW u \in Ids
               PROVE  /\ e[u].parent = NoNode <=> e[u].name = NoName
                      /\ e[u].is_hidden => e[u].name \in HiddenNames
    OBVIOUS
  <2>1. u \in Nodes
    BY IdsPlaces
  <2> QED BY <2>1, <1>7, <1>8 DEF TreeInv, SamePlace, Edit
<1>14. e[Root].nlookup = 1 /\ e[Root].parent = NoNode
  BY <1>2, <1>7, <1>8, IdsPlaces DEF TreeInv, SamePlace, Edit
<1>15. \A a, b \in Ids :
         (e[a].parent # NoNode /\ e[a].parent = e[b].parent /\ e[a].name = e[b].name) => a = b
  <2> SUFFICES ASSUME NEW a \in Ids, NEW b \in Ids, e[a].parent # NoNode,
                      e[a].parent = e[b].parent, e[a].name = e[b].name
               PROVE  a = b
    OBVIOUS
  <2>1. a # n /\ b # n /\ a \in Nodes /\ b \in Nodes
    BY <1>7, IdsPlaces
  <2>2. SamePlace(d, e, a) /\ SamePlace(d, e, b)
    BY <2>1, <1>7
  <2> QED BY <2>2 DEF TreeInv, SamePlace
<1>16. TreeInv(e)
  BY <1>6, <1>10, <1>11, <1>12, <1>13, <1>14, <1>15 DEF TreeInv
<1> QED BY <1>7, <1>8, <1>9, <1>16, IdsPlaces DEF Unhashed

Hashed(d, e, n, p, m) ==
  /\ TreeInv(e) /\ Edit(d, e) /\ e[n].parent = p /\ e[n].name = m
  /\ \A u \in Ids \ {n} : SamePlace(d, e, u)

LEMMA HashOk ==
  ASSUME NEW d, TreeInv(d), NEW n \in Ids, d[n].name = NoName, d[n].refctr > 0,
         NEW p \in Nodes, n \notin Chain(d, p), NEW m \in AllNames,
         d[n].is_hidden => m \in HiddenNames,
         \A c \in Ids : ~(d[c].parent = p /\ d[c].name = m),
         NEW e, e = hash_name(d, n, p, m)
  PROVE  Hashed(d, e, n, p, m)
<1>1. /\ d \in [Nodes -> NodeType] /\ n \in Nodes /\ p # NoNode /\ p # n
      /\ n # Root /\ m # NoName /\ Tree(d) /\ d[n].parent = NoNode /\ p \in Places
  <2>1. n \in Nodes /\ Tree(d) /\ n # Root /\ p \in Places /\ p # NoNode
    BY IdsPlaces, InvTree DEF Nodes
  <2>2. p # n
    BY <2>1, ChainUp
  <2> QED BY <2>1, <2>2, NamesAssumption DEF TreeInv, AllNames
<1>4. e = [[d EXCEPT ![p].refctr = @ + 1] EXCEPT ![n].parent = p, ![n].name = m]
  BY DEF hash_name
<1>5. /\ e[n] = [d[n] EXCEPT !.parent = p, !.name = m]
      /\ e[p] = [d[p] EXCEPT !.refctr = @ + 1]
      /\ \A u \in Nodes \ {n, p} : e[u] = d[u]
      /\ DOMAIN e = Nodes
  BY <1>1, <1>4
<1>6. /\ Replaced(e[n], d[n], p, m) /\ Recounted(e[p], d[p], d[p].refctr + 1)
      /\ e \in [Nodes -> NodeType]
  <2>1. d[n] \in NodeType /\ d[p] \in NodeType /\ d[p].refctr + 1 \in Nat
    BY <1>1, NodeIs
  <2>2. Replaced(e[n], d[n], p, m)
    BY <1>5, <2>1, PlaceEdit
  <2>3. Recounted(e[p], d[p], d[p].refctr + 1)
    BY <1>5, <2>1, CountEdit
  <2>4. \A u \in Nodes : e[u] \in NodeType
    BY <1>1, <1>5, <2>2, <2>3 DEF Replaced, Recounted
  <2>5. e = [u \in Nodes |-> e[u]]
    BY <1>1, <1>4
  <2> QED BY <2>2, <2>3, <2>4, <2>5
<1>7. /\ e[n].parent = p /\ e[n].name = m /\ e[n].refctr = d[n].refctr
      /\ e[p].parent = d[p].parent /\ e[p].name = d[p].name /\ e[p].refctr = d[p].refctr + 1
      /\ \A u \in Nodes \ {n} : SamePlace(d, e, u)
      /\ \A u \in Nodes \ {p} : e[u].refctr = d[u].refctr
  BY <1>1, <1>5, <1>6 DEF Replaced, Recounted, SamePlace
<1>8. Edit(d, e)
  BY <1>1, <1>5, <1>6 DEF Replaced, Recounted, Edit
<1>10. ASSUME NEW u \in Nodes
       PROVE  e[u].refctr = (IF e[u].nlookup > 0 THEN 1 ELSE 0) + Cardinality(Children(e, u))
  <2>1. d[u].refctr = (IF d[u].nlookup > 0 THEN 1 ELSE 0) + Cardinality(Children(d, u))
        /\ e[u].nlookup = d[u].nlookup
    BY <1>8, NodeIs DEF Edit
  <2>2. CASE u = p
    <3>1. Children(e, u) = Children(d, u) \cup {n} /\ n \notin Children(d, u)
      BY <1>1, <1>7, <2>2, IdsPlaces DEF Children, SamePlace
    <3>2. Cardinality(Children(e, u)) = Cardinality(Children(d, u)) + 1
      BY <3>1, ChildrenFinite, FS_AddElement
    <3> QED BY <1>7, <2>1, <2>2, <3>2, ChildrenFinite
  <2>3. CASE u # p
    <3>1. u # NoNode
      BY IdsPlaces DEF Nodes
    <3>2. Children(e, u) = Children(d, u)
      BY <1>1, <1>7, <2>3, <3>1, IdsPlaces DEF Children, SamePlace
    <3> QED BY <1>7, <2>1, <2>3, <3>2
  <2> QED BY <2>2, <2>3
<1>11. WellFounded(e)
  <2>1. \A u \in Ids \ {n} : e[u].parent = d[u].parent
    BY <1>7, IdsPlaces DEF SamePlace
  <2>2. Tree(e)
    BY <1>1, <1>7, <2>1, MoveTree
  <2> QED BY <2>2 DEF Tree
<1>12. \A u \in Ids : e[u].refctr = 0 => e[u] = FreeNode
  <2> SUFFICES ASSUME NEW u \in Ids, e[u].refctr = 0 PROVE e[u] = FreeNode
    OBVIOUS
  <2>1. u # n /\ u # p /\ u \in Nodes
    BY <1>7, NodeIs, <1>1, IdsPlaces
  <2> QED BY <2>1, <1>5 DEF TreeInv
<1>13. /\ \A u \in Ids : e[u].parent = NoNode <=> e[u].name = NoName
       /\ \A u \in Ids : e[u].is_hidden => e[u].name \in HiddenNames
  <2> SUFFICES ASSUME NEW u \in Ids
               PROVE  /\ e[u].parent = NoNode <=> e[u].name = NoName
                      /\ e[u].is_hidden => e[u].name \in HiddenNames
    OBVIOUS
  <2>1. u \in Nodes
    BY IdsPlaces
  <2> QED BY <2>1, <1>1, <1>7, <1>8 DEF TreeInv, SamePlace, Edit
<1>14. e[Root].nlookup = 1 /\ e[Root].parent = NoNode
  BY <1>1, <1>7, <1>8, IdsPlaces DEF TreeInv, SamePlace, Edit
<1>15. \A a, b \in Ids :
         (e[a].parent # NoNode /\ e[a].parent = e[b].parent /\ e[a].name = e[b].name) => a = b
  <2> SUFFICES ASSUME NEW a \in Ids, NEW b \in Ids, e[a].parent # NoNode,
                      e[a].parent = e[b].parent, e[a].name = e[b].name
               PROVE  a = b
    OBVIOUS
  <2>1. a \in Nodes /\ b \in Nodes
    BY IdsPlaces
  <2>2. (a # n => SamePlace(d, e, a)) /\ (b # n => SamePlace(d, e, b))
    BY <2>1, <1>7
  <2> QED BY <2>2, <1>7 DEF TreeInv, SamePlace
<1>16. TreeInv(e)
  BY <1>6, <1>10, <1>11, <1>12, <1>13, <1>14, <1>15 DEF TreeInv
<1> QED BY <1>7, <1>8, <1>16, IdsPlaces DEF Hashed

\* A lookup is counted, of a node that means file f.
Looked(d, e, n, f) ==
  /\ TreeInv(e) /\ e[n].nlookup = d[n].nlookup + 1 /\ e[n].open_count = d[n].open_count
  /\ e[n].refctr > 0 /\ e[n].is_hidden = d[n].is_hidden /\ e[n].file = f
  /\ SamePlace(d, e, n) /\ \A u \in Nodes \ {n} : e[u] = d[u]

Counted(q, r, f, k, l) ==
  /\ q \in NodeType /\ q.parent = r.parent /\ q.name = r.name /\ q.nlookup = l
  /\ q.refctr = k /\ q.open_count = r.open_count /\ q.is_hidden = r.is_hidden
  /\ q.file = f

LEMMA LookEdit ==
  ASSUME NEW r \in NodeType, NEW f \in Files \cup {NoFile}, NEW k \in Nat, NEW l \in Nat,
         NEW q, q = [r EXCEPT !.file = f, !.refctr = k, !.nlookup = l]
  PROVE  Counted(q, r, f, k, l)
BY DEF NodeType, Counted

LEMMA LookOk ==
  ASSUME NEW d, TreeInv(d), NEW n \in Ids, NEW f \in Files \cup {NoFile},
         NEW e, e = inc_nlookup([d EXCEPT ![n].file = f], n)
  PROVE  Looked(d, e, n, f)
<1>1. /\ d \in [Nodes -> NodeType] /\ n \in Nodes /\ d[n] \in NodeType /\ n # Root
      /\ d[n].refctr \in Nat /\ d[n].nlookup \in Nat
      /\ d[n].refctr = (IF d[n].nlookup > 0 THEN 1 ELSE 0) + Cardinality(Children(d, n))
  BY IdsPlaces, NodeIs DEF TreeInv
<1>2. PICK k : k = IF d[n].nlookup = 0 THEN d[n].refctr + 1 ELSE d[n].refctr
  OBVIOUS
<1>3. k \in Nat /\ k > 0 /\ k = 1 + Cardinality(Children(d, n))
  <2>1. Cardinality(Children(d, n)) \in Nat
    BY ChildrenFinite
  <2> QED BY <2>1, <1>1, <1>2
<1>4. PICK a : a = [d EXCEPT ![n].file = f]
  OBVIOUS
<1>5. a[n] = [d[n] EXCEPT !.file = f] /\ a[n].nlookup = d[n].nlookup /\ a[n].refctr = d[n].refctr
      /\ DOMAIN a = Nodes /\ \A u \in Nodes \ {n} : a[u] = d[u]
  <2>1. a[n] = [d[n] EXCEPT !.file = f] /\ DOMAIN a = Nodes /\ \A u \in Nodes \ {n} : a[u] = d[u]
    BY <1>1, <1>4
  <2> QED BY <2>1, <1>1 DEF NodeType
<1>6. e = [a EXCEPT ![n].refctr = k, ![n].nlookup = @ + 1]
  BY <1>2, <1>4, <1>5 DEF inc_nlookup
<1>7. /\ e[n] = [[d[n] EXCEPT !.file = f] EXCEPT !.refctr = k, !.nlookup = @ + 1]
      /\ \A u \in Nodes \ {n} : e[u] = d[u]
      /\ DOMAIN e = Nodes
  BY <1>1, <1>5, <1>6
<1>8. e[n] = [d[n] EXCEPT !.file = f, !.refctr = k, !.nlookup = d[n].nlookup + 1]
  BY <1>1, <1>7 DEF NodeType
<1>9. /\ e[n] \in NodeType /\ e[n].parent = d[n].parent /\ e[n].name = d[n].name
      /\ e[n].nlookup = d[n].nlookup + 1
      /\ e[n].refctr = k /\ e[n].open_count = d[n].open_count /\ e[n].is_hidden = d[n].is_hidden
      /\ e[n].file = f
  <2>1. PICK l \in Nat : l = d[n].nlookup + 1
    BY <1>1
  <2>2. e[n] = [d[n] EXCEPT !.file = f, !.refctr = k, !.nlookup = l]
    BY <1>8, <2>1
  <2>3. k \in Nat /\ d[n] \in NodeType
    BY <1>1, <1>3
  <2>4. Counted(e[n], d[n], f, k, l)
    BY <2>1, <2>2, <2>3, LookEdit
  <2> QED BY <2>1, <2>4 DEF Counted
<1>10. e \in [Nodes -> NodeType]
  <2>1. \A u \in Nodes : e[u] \in NodeType
    BY <1>1, <1>7, <1>9
  <2>2. e = [u \in Nodes |-> e[u]]
    BY <1>4, <1>6, <1>1
  <2> QED BY <2>1, <2>2
<1>11. \A u \in Nodes : SamePlace(d, e, u)
  BY <1>7, <1>9 DEF SamePlace
<1>12. \A u \in Nodes : Children(e, u) = Children(d, u)
  BY <1>11, IdsPlaces DEF Children, SamePlace
<1>13. ASSUME NEW u \in Nodes
       PROVE  e[u].refctr = (IF e[u].nlookup > 0 THEN 1 ELSE 0) + Cardinality(Children(e, u))
  <2>1. Children(e, u) = Children(d, u)
    BY <1>12
  <2>2. CASE u = n
    <3>1. e[n].nlookup > 0
      BY <1>1, <1>9
    <3>2. e[n].refctr = 1 + Cardinality(Children(e, n))
      BY <1>3, <1>9, <2>1, <2>2
    <3> QED BY <2>2, <3>1, <3>2
  <2>3. CASE u # n
    <3>1. d[u].refctr = (IF d[u].nlookup > 0 THEN 1 ELSE 0) + Cardinality(Children(d, u))
      BY NodeIs
    <3>2. e[u] = d[u]
      BY <1>7, <2>3
    <3> QED BY <2>1, <3>1, <3>2
  <2> QED BY <2>2, <2>3
<1>14. WellFounded(e)
  BY <1>11, IdsPlaces DEF TreeInv, WellFounded, SamePlace
<1>15. /\ \A u \in Ids : e[u].refctr = 0 => e[u] = FreeNode
       /\ \A u \in Ids : e[u].is_hidden => e[u].name \in HiddenNames
  <2> SUFFICES ASSUME NEW u \in Ids
               PROVE  /\ e[u].refctr = 0 => e[u] = FreeNode
                      /\ e[u].is_hidden => e[u].name \in HiddenNames
    OBVIOUS
  <2>1. CASE u = n
    BY <2>1, <1>3, <1>9 DEF TreeInv
  <2>2. CASE u # n
    <3>1. e[u] = d[u]
      BY <2>2, <1>7, IdsPlaces
    <3> QED BY <3>1 DEF TreeInv
  <2> QED BY <2>1, <2>2
<1>16. /\ \A u \in Ids : e[u].parent = NoNode <=> e[u].name = NoName
       /\ \A a1, b \in Ids :
            (e[a1].parent # NoNode /\ e[a1].parent = e[b].parent /\ e[a1].name = e[b].name) => a1 = b
  <2>1. \A u \in Ids : e[u].parent = d[u].parent /\ e[u].name = d[u].name
    BY <1>11, IdsPlaces DEF SamePlace
  <2>2. \A u \in Ids : e[u].parent = NoNode <=> e[u].name = NoName
    BY <2>1 DEF TreeInv
  <2>3. ASSUME NEW x \in Ids, NEW y \in Ids, e[x].parent # NoNode, e[x].parent = e[y].parent,
               e[x].name = e[y].name
        PROVE  x = y
    BY ZenonT(40), <2>1, <2>3 DEF TreeInv
  <2> QED BY <2>2, <2>3
<1>17. e[Root].nlookup = 1 /\ e[Root].parent = NoNode
  BY <1>1, <1>7, IdsPlaces DEF TreeInv
<1>18. TreeInv(e)
  BY <1>10, <1>13, <1>14, <1>15, <1>16, <1>17 DEF TreeInv
<1> QED BY <1>3, <1>7, <1>9, <1>11, <1>18, <1>1 DEF Looked

LEMMA FindOldOk ==
  ASSUME NEW d, TreeInv(d), NEW n \in Ids, NEW e, e = inc_nlookup(d, n)
  PROVE  Looked(d, e, n, d[n].file)
<1>1. /\ d \in [Nodes -> NodeType] /\ n \in Nodes /\ d[n] \in NodeType
  BY IdsPlaces, NodeIs DEF TreeInv
<1>2. [d EXCEPT ![n].file = d[n].file] = d /\ d[n].file \in Files \cup {NoFile}
  <2>1. [d[n] EXCEPT !.file = d[n].file] = d[n] /\ d[n].file \in Files \cup {NoFile}
    BY <1>1 DEF NodeType
  <2> QED BY <2>1, <1>1
<1> QED BY <1>2, LookOk

Found(d, e, n, p, m, f) ==
  /\ TreeInv(e) /\ e[n].nlookup = 1 /\ e[n].open_count = 0 /\ e[n].parent = p /\ e[n].name = m
  /\ e[n].file = f /\ ~e[n].is_hidden
  /\ \A u \in Nodes \ {n} : /\ e[u].nlookup = d[u].nlookup /\ e[u].open_count = d[u].open_count
                            /\ e[u].is_hidden = d[u].is_hidden /\ e[u].file = d[u].file
  /\ \A u \in Ids \ {n} : SamePlace(d, e, u)

LEMMA FindNewOk ==
  ASSUME NEW d, TreeInv(d), NEW n \in Ids, d[n].refctr = 0, NEW p \in Nodes, Alive(d, p),
         NEW m \in AllNames, \A c \in Ids : ~(d[c].parent = p /\ d[c].name = m),
         NEW f \in Files \cup {NoFile}, NEW e, e = find_node_new(d, p, m, n, f)
  PROVE  Found(d, e, n, p, m, f)
<1>1. /\ d \in [Nodes -> NodeType] /\ n \in Nodes /\ d[n] = FreeNode /\ n # Root
      /\ Tree(d) /\ p \in Places
  BY IdsPlaces, InvTree DEF TreeInv
<1>2. /\ d[n].name = NoName /\ d[n].parent = NoNode /\ d[n].nlookup = 0 /\ ~d[n].is_hidden
      /\ d[n].open_count = 0
  BY <1>1 DEF FreeNode
<1>3. p # n
  <2>1. d[n].nlookup = 0
    BY <1>2
  <2> QED BY <2>1, <1>1 DEF Alive
<1>4. \A c \in Ids : d[c].parent # n
  <2>1. Cardinality(Children(d, n)) = 0
    <3>1. 0 = (IF d[n].nlookup > 0 THEN 1 ELSE 0) + Cardinality(Children(d, n))
      BY <1>1, NodeIs
    <3> QED BY <1>2, <3>1, ChildrenFinite
  <2>2. Children(d, n) = {}
    BY <2>1, ChildrenFinite, FS_EmptySet
  <2> QED BY <2>2 DEF Children
<1>5. n \notin Chain(d, p)
  BY <1>1, <1>3, <1>4, ChainChild, ChainIds
<1>6. PICK a : a = [d EXCEPT ![n].file = f]
  OBVIOUS
<1>7. PICK b : b = inc_nlookup(a, n)
  OBVIOUS
<1>8. Looked(d, b, n, f)
  BY <1>6, <1>7, LookOk
<1>9. PICK c : c = hash_name(b, n, p, m)
  OBVIOUS
<1>10. Hashed(b, c, n, p, m)
  <2>1. /\ b[n].name = NoName /\ b[n].refctr > 0 /\ ~b[n].is_hidden
        /\ \A u \in Nodes : SamePlace(d, b, u)
    BY <1>1, <1>2, <1>8 DEF Looked, SamePlace
  <2>2. Tree(b)
    BY <1>8, InvTree DEF Looked
  <2>3. Chain(b, p) = Chain(d, p)
    <3>1. \A u \in Chain(d, p) : b[u].parent = d[u].parent
      BY <1>1, <2>1, ChainIds, IdsPlaces DEF SamePlace
    <3> QED BY <3>1, <1>1, <2>2, ChainFrame DEF Tree
  <2>4. \A x \in Ids : ~(b[x].parent = p /\ b[x].name = m)
    BY <2>1, IdsPlaces DEF SamePlace
  <2>5. TreeInv(b)
    BY <1>8 DEF Looked
  <2> QED BY <2>1, <2>3, <2>4, <2>5, <1>5, <1>9, HashOk
<1>11. e = c
  <2>1. a \in [Nodes -> NodeType] /\ a[n] \in NodeType /\ a[p] \in NodeType
    <3>1. [d[n] EXCEPT !.file = f] \in NodeType
      BY <1>1 DEF NodeType
    <3>2. a = [d EXCEPT ![n] = [d[n] EXCEPT !.file = f]]
      BY <1>6, <1>1
    <3>3. a \in [Nodes -> NodeType]
      BY <1>1, <3>1, <3>2
    <3> QED BY <1>1, <3>3
  <2>2. PICK h : h = hash_name(a, n, p, m)
    OBVIOUS
  <2>3. h = [[a EXCEPT ![p].refctr = @ + 1] EXCEPT ![n].parent = p, ![n].name = m]
    BY <2>2 DEF hash_name
  <2>4. /\ h[n] = [a[n] EXCEPT !.parent = p, !.name = m] /\ h[p] = [a[p] EXCEPT !.refctr = @ + 1]
        /\ \A u \in Nodes \ {n, p} : h[u] = a[u]
        /\ DOMAIN h = Nodes
    BY <1>1, <1>3, <2>1, <2>3
  <2>5. PICK k : k = IF a[n].nlookup = 0 THEN a[n].refctr + 1 ELSE a[n].refctr
    OBVIOUS
  <2>6. k = IF h[n].nlookup = 0 THEN h[n].refctr + 1 ELSE h[n].refctr
    BY <2>1, <2>4, <2>5 DEF NodeType
  <2>7. e = [h EXCEPT ![n].refctr = k, ![n].nlookup = @ + 1]
    BY <2>2, <2>6, <1>6 DEF find_node_new, inc_nlookup
  <2>8. b = [a EXCEPT ![n].refctr = k, ![n].nlookup = @ + 1]
    BY <1>7, <2>5 DEF inc_nlookup
  <2>9. c = [[b EXCEPT ![p].refctr = @ + 1] EXCEPT ![n].parent = p, ![n].name = m]
    BY <1>9 DEF hash_name
  <2>10. /\ e[n] = [h[n] EXCEPT !.refctr = k, !.nlookup = @ + 1]
         /\ e[p] = h[p]
         /\ \A u \in Nodes \ {n, p} : e[u] = a[u]
         /\ DOMAIN e = Nodes
    BY <1>1, <1>3, <2>4, <2>7
  <2>11. /\ b[n] = [a[n] EXCEPT !.refctr = k, !.nlookup = @ + 1]
         /\ b[p] = a[p] /\ DOMAIN b = Nodes
         /\ \A u \in Nodes \ {n, p} : b[u] = a[u]
    BY <1>1, <1>3, <2>1, <2>8
  <2>14. /\ c[n] = [b[n] EXCEPT !.parent = p, !.name = m]
         /\ c[p] = [a[p] EXCEPT !.refctr = @ + 1]
         /\ \A u \in Nodes \ {n, p} : c[u] = a[u]
         /\ DOMAIN c = Nodes
    BY <1>1, <1>3, <2>9, <2>11
  <2>15. a[n].nlookup \in Nat
    BY <2>1 DEF NodeType
  <2>12. e[n] = c[n]
    <3>1. PICK x : x = a[n].nlookup + 1
      OBVIOUS
    <3>2. e[n] = [[a[n] EXCEPT !.parent = p, !.name = m] EXCEPT !.refctr = k, !.nlookup = x]
      <4>1. h[n].nlookup = a[n].nlookup
        BY <2>1, <2>4 DEF NodeType
      <4> QED BY <2>4, <2>10, <3>1, <4>1
    <3>3. c[n] = [[a[n] EXCEPT !.refctr = k, !.nlookup = x] EXCEPT !.parent = p, !.name = m]
      BY <2>11, <2>14, <3>1
    <3> QED BY <2>1, <3>2, <3>3 DEF NodeType
  <2>16. e = [u \in Nodes |-> e[u]] /\ c = [u \in Nodes |-> c[u]]
    <3>1. e = [u \in DOMAIN e |-> e[u]]
      BY <2>7
    <3>2. c = [u \in DOMAIN c |-> c[u]]
      BY <2>9
    <3> QED BY <3>1, <3>2, <2>10, <2>14
  <2>13. \A u \in Nodes : e[u] = c[u]
    BY <2>4, <2>10, <2>12, <2>14
  <2> QED BY <2>13, <2>16
<1>12. TreeInv(c) /\ c[n].parent = p /\ c[n].name = m
  BY <1>10 DEF Hashed
<1>13. /\ c[n].nlookup = 1 /\ c[n].open_count = 0 /\ c[n].file = f /\ ~c[n].is_hidden
  BY <1>1, <1>2, <1>8, <1>10 DEF Looked, Hashed, Edit
<1>14. ASSUME NEW u \in Nodes \ {n}
       PROVE  /\ c[u].nlookup = d[u].nlookup /\ c[u].open_count = d[u].open_count
              /\ c[u].is_hidden = d[u].is_hidden /\ c[u].file = d[u].file
  <2>1. b[u] = d[u]
    BY <1>8 DEF Looked
  <2>3. /\ c[u].nlookup = b[u].nlookup /\ c[u].open_count = b[u].open_count
        /\ c[u].is_hidden = b[u].is_hidden /\ c[u].file = b[u].file
    BY <1>10 DEF Hashed, Edit
  <2> QED BY <2>1, <2>3
<1>15. ASSUME NEW u \in Ids \ {n} PROVE SamePlace(d, c, u)
  <2>1. b[u] = d[u]
    BY <1>8, IdsPlaces DEF Looked
  <2> QED BY <2>1, <1>10 DEF Hashed, SamePlace
<1> QED BY <1>11, <1>12, <1>13, <1>14, <1>15 DEF Found

\* Only the nodes of M change their places.
Moved(d, e, M) == TreeInv(e) /\ Edit(d, e) /\ \A u \in Ids \ M : SamePlace(d, e, u)

LEMMA MovedTrans ==
  ASSUME NEW d, NEW e, NEW g, NEW A, NEW B, Moved(d, e, A), Moved(e, g, B)
  PROVE  Moved(d, g, A \cup B)
<1>1. Edit(d, g)
  BY DEF Moved, Edit
<1>2. ASSUME NEW u \in Ids \ (A \cup B) PROVE SamePlace(d, g, u)
  BY DEF Moved, SamePlace
<1> QED BY <1>1, <1>2 DEF Moved

\* Chains that no moved node is in are kept.
LEMMA MovedChain ==
  ASSUME NEW d, TreeInv(d), NEW e, NEW M, Moved(d, e, M), NEW n \in Places, M \cap Chain(d, n) = {}
  PROVE  Chain(e, n) = Chain(d, n)
<1>1. Tree(d) /\ Tree(e)
  BY InvTree DEF Moved
<1>2. \A u \in Chain(d, n) : e[u].parent = d[u].parent
  BY <1>1, ChainIds DEF Moved, SamePlace
<1> QED BY <1>1, <1>2, ChainFrame DEF Tree

LEMMA MovedAlive ==
  ASSUME NEW d, NEW e, NEW M, Moved(d, e, M), NEW n \in Nodes, Alive(d, n)
  PROVE  Alive(e, n)
BY DEF Moved, Edit, Alive

LEMMA NotHidden ==
  ASSUME NEW d, TreeInv(d), NEW c \in Ids, d[c].name \in Names
  PROVE  ~d[c].is_hidden /\ d[c].name # NoName /\ d[c].refctr > 0
<1>1. d[c].name \notin HiddenNames /\ d[c].name # NoName
  BY NamesAssumption
<1>2. d[c].refctr # 0
  BY <1>1 DEF TreeInv, FreeNode
<1> QED BY <1>1, <1>2, NodeIs, IdsPlaces DEF TreeInv

Removed(d, e, p, m, c) ==
  /\ Moved(d, e, {c}) /\ (c # NoNode => e[c].parent = NoNode /\ e[c].name = NoName)
  /\ \A u \in Ids : ~(e[u].parent = p /\ e[u].name = m)

LEMMA RemoveOk ==
  ASSUME NEW d, TreeInv(d), NEW p \in Nodes, Alive(d, p), NEW m,
         NEW c, c = lookup_node(d, p, m), c # NoNode => m \in Names, NEW e, e = remove_node(d, p, m)
  PROVE  Removed(d, e, p, m, c)
<1>1. /\ c \in Ids \cup {NoNode} /\ OnlyChild(d, p, m, c) /\ p # NoNode
      /\ c # NoNode => c \in Ids /\ d[c].parent = p /\ d[c].name = m
  BY LookupIs, IdsPlaces DEF Nodes
<1>2. e = IF c = NoNode THEN d ELSE unhash_name(d, c)
  BY DEF remove_node
<1>3. CASE c = NoNode
  <2>1. e = d /\ \A u \in Ids : ~(e[u].parent = p /\ e[u].name = m)
    BY <1>1, <1>2, <1>3, IdsPlaces DEF OnlyChild
  <2> QED BY <1>3, <2>1 DEF Removed, Moved, Edit, SamePlace
<1>4. CASE c # NoNode
  <2>1. ~d[c].is_hidden /\ d[c].name # NoName
    BY <1>1, <1>4, NotHidden
  <2>2. Unhashed(d, e, c)
    BY <1>1, <1>2, <1>4, <2>1, UnhashOk
  <2>3. ASSUME NEW u \in Ids PROVE ~(e[u].parent = p /\ e[u].name = m)
    <3>1. u = c => e[u].parent = NoNode
      BY <2>2 DEF Unhashed
    <3>2. u # c => SamePlace(d, e, u)
      BY <2>2 DEF Unhashed
    <3> QED BY <3>1, <3>2, <1>1 DEF OnlyChild, SamePlace
  <2> QED BY <2>2, <2>3 DEF Unhashed, Removed, Moved
<1> QED BY <1>3, <1>4

Renamed(d, e, s, v, p, m) ==
  /\ Moved(d, e, {s, v}) /\ e[s].parent = p /\ e[s].name = m
  /\ (v # NoNode => e[v].name = NoName /\ e[v].parent = NoNode)

\* A node is moved to a place that v leaves.
LEMMA RenameOk ==
  ASSUME NEW d, TreeInv(d), NEW p \in Nodes, NEW q \in Nodes, Alive(d, p), Alive(d, q),
         NEW m \in Names, NEW m2 \in AllNames,
         NEW s, s = lookup_node(d, p, m), NEW v, v = lookup_node(d, q, m2),
         v # NoNode => m2 \in Names, s # NoNode, s # v, s \notin Chain(d, q),
         NEW e, e = rename_node(d, p, m, q, m2)
  PROVE  Renamed(d, e, s, v, q, m2)
<1>1. /\ s \in Ids /\ d[s].parent = p /\ d[s].name = m /\ p # NoNode /\ q # NoNode
      /\ v \in Ids \cup {NoNode} /\ p \in Places /\ q \in Places /\ Tree(d)
  BY LookupIs, IdsPlaces, InvTree DEF Nodes
<1>2. PICK a : a = remove_node(d, q, m2)
  OBVIOUS
<1>3. Removed(d, a, q, m2, v)
  BY <1>2, RemoveOk
<1>4. PICK b : b = unhash_name(a, s)
  OBVIOUS
<1>5. e = hash_name(b, s, q, m2)
  BY <1>2, <1>4 DEF rename_node
<1>6. /\ SamePlace(d, a, s) /\ TreeInv(a) /\ Alive(a, p) /\ Moved(d, a, {v})
      /\ \A u \in Ids : ~(a[u].parent = q /\ a[u].name = m2)
  BY <1>1, <1>3, MovedAlive DEF Removed, Moved
<1>7. Unhashed(a, b, s)
  <2>1. ~a[s].is_hidden /\ a[s].name # NoName /\ Alive(a, a[s].parent)
    BY <1>1, <1>6, NotHidden DEF SamePlace
  <2> QED BY <1>1, <1>4, <1>6, <2>1, UnhashOk
<1>8. Moved(a, b, {s}) /\ TreeInv(b) /\ b[s].name = NoName /\ b[s].refctr > 0
  BY <1>7 DEF Unhashed, Moved
<1>9. Moved(d, b, {v} \cup {s})
  BY <1>6, <1>8, MovedTrans
<1>10. Chain(b, q) = Chain(d, q)
  <2>1. v \notin Chain(d, q)
    <3> SUFFICES ASSUME v \in Chain(d, q) PROVE FALSE
      OBVIOUS
    <3>1. v \in Ids /\ d[v].parent = q
      BY <1>1, ChainIds, LookupIs, IdsPlaces
    <3> QED BY <3>1, <1>1, ChainNoLoop
  <2> QED BY <2>1, <1>1, <1>9, MovedChain
<1>11. \A u \in Ids : ~(b[u].parent = q /\ b[u].name = m2)
  <2> SUFFICES ASSUME NEW u \in Ids PROVE ~(b[u].parent = q /\ b[u].name = m2)
    OBVIOUS
  <2>1. u = s => b[u].parent = NoNode
    BY <1>7 DEF Unhashed
  <2>2. u # s => SamePlace(a, b, u)
    BY <1>8 DEF Moved
  <2> QED BY <2>1, <2>2, <1>1, <1>6 DEF SamePlace
<1>12. ~b[s].is_hidden
  <2>1. ~d[s].is_hidden
    BY <1>1, NotHidden
  <2> QED BY <2>1, <1>1, <1>9, IdsPlaces DEF Moved, Edit
<1>13. Hashed(b, e, s, q, m2)
  BY <1>1, <1>5, <1>8, <1>10, <1>11, <1>12, HashOk
<1>14. Moved(b, e, {s}) /\ e[s].parent = q /\ e[s].name = m2
  BY <1>13 DEF Hashed, Moved
<1>15. Moved(d, e, {s, v})
  <2>1. Moved(d, e, ({v} \cup {s}) \cup {s})
    BY <1>9, <1>14, MovedTrans
  <2>2. ({v} \cup {s}) \cup {s} = {s, v}
    OBVIOUS
  <2> QED BY <2>1, <2>2
<1>16. v # NoNode => e[v].name = NoName /\ e[v].parent = NoNode
  <2> SUFFICES ASSUME v # NoNode PROVE e[v].name = NoName /\ e[v].parent = NoNode
    OBVIOUS
  <2>1. v \in Ids /\ v # s
    BY <1>1
  <2>2. SamePlace(a, b, v) /\ SamePlace(b, e, v)
    BY <2>1, <1>8, <1>14 DEF Moved
  <2> QED BY <2>2, <1>3 DEF SamePlace, Removed
<1> QED BY <1>14, <1>15, <1>16 DEF Renamed

HidePlace(d, e, s, p, h) ==
  /\ TreeInv(e) /\ e[s].parent = p /\ e[s].name = h /\ e[s].is_hidden
  /\ e[s].nlookup = d[s].nlookup /\ e[s].open_count = d[s].open_count /\ e[s].file = d[s].file
  /\ \A u \in Nodes \ {s} : /\ e[u].nlookup = d[u].nlookup /\ e[u].open_count = d[u].open_count
                            /\ e[u].is_hidden = d[u].is_hidden /\ e[u].file = d[u].file
  /\ \A u \in Ids \ {s} : SamePlace(d, e, u)

HiddenNow(q, r) ==
  /\ q \in NodeType /\ q.parent = r.parent /\ q.name = r.name /\ q.nlookup = r.nlookup
  /\ q.refctr = r.refctr /\ q.open_count = r.open_count /\ q.is_hidden
  /\ q.file = r.file

LEMMA HideEdit ==
  ASSUME NEW r \in NodeType, NEW q, q = [r EXCEPT !.is_hidden = TRUE]
  PROVE  HiddenNow(q, r)
BY DEF NodeType, HiddenNow

LEMMA HideOk ==
  ASSUME NEW d, TreeInv(d), NEW p \in Nodes, Alive(d, p), NEW m \in Names,
         NEW h \in HiddenNames, \A c \in Ids : ~(d[c].parent = p /\ d[c].name = h),
         NEW s, s = lookup_node(d, p, m), s # NoNode,
         NEW e, e = rename_node_hide(d, p, m, h)
  PROVE  HidePlace(d, e, s, p, h)
<1>1. /\ s \in Ids /\ d[s].parent = p /\ d[s].name = m /\ p # NoNode /\ s \in Nodes /\ s # Root
      /\ p \in Places /\ Tree(d) /\ h \in AllNames
  BY LookupIs, IdsPlaces, InvTree DEF Nodes, AllNames
<1>2. PICK v : v = lookup_node(d, p, h)
  OBVIOUS
<1>3. v = NoNode
  BY <1>1, <1>2, LookupIs
<1>4. PICK a : a = rename_node(d, p, m, p, h)
  OBVIOUS
<1>5. s \notin Chain(d, p)
  BY <1>1, ChainNoLoop
<1>6. Renamed(d, a, s, v, p, h)
  BY <1>1, <1>2, <1>3, <1>4, <1>5, RenameOk
<1>7. /\ TreeInv(a) /\ Edit(d, a) /\ a[s].parent = p /\ a[s].name = h
      /\ \A u \in Ids \ {s} : SamePlace(d, a, u)
  <2>1. \A u \in Ids \ {s, v} : SamePlace(d, a, u)
    BY <1>6 DEF Renamed, Moved
  <2> QED BY <2>1, <1>3, <1>6, IdsPlaces DEF Renamed, Moved
<1>8. e = [a EXCEPT ![s].is_hidden = TRUE]
  BY <1>2, <1>3, <1>4 DEF rename_node_hide, NameTaken
<1>9. a \in [Nodes -> NodeType] /\ a[s] \in NodeType
  BY <1>1, <1>7 DEF TreeInv
<1>10. e[s] = [a[s] EXCEPT !.is_hidden = TRUE] /\ \A u \in Nodes \ {s} : e[u] = a[u]
  BY <1>1, <1>8, <1>9
<1>11. HiddenNow(e[s], a[s])
  BY <1>9, <1>10, HideEdit
<1>12. e \in [Nodes -> NodeType]
  <2>1. \A u \in Nodes : e[u] \in NodeType
    BY <1>9, <1>10, <1>11 DEF HiddenNow
  <2>2. e = [u \in Nodes |-> e[u]]
    BY <1>8, <1>9
  <2> QED BY <2>1, <2>2
<1>13. \A u \in Nodes : /\ e[u].parent = a[u].parent /\ e[u].name = a[u].name
                        /\ e[u].nlookup = a[u].nlookup /\ e[u].refctr = a[u].refctr
                        /\ e[u].open_count = a[u].open_count /\ e[u].file = a[u].file
  BY <1>10, <1>11 DEF HiddenNow
<1>14. TreeInv(e)
  <2>1. \A u \in Nodes : Children(e, u) = Children(a, u)
    BY <1>13, IdsPlaces DEF Children
  <2>2. ASSUME NEW u \in Nodes
        PROVE  e[u].refctr = (IF e[u].nlookup > 0 THEN 1 ELSE 0) + Cardinality(Children(e, u))
    <3>1. a[u].refctr = (IF a[u].nlookup > 0 THEN 1 ELSE 0) + Cardinality(Children(a, u))
      BY <1>7, NodeIs
    <3> QED BY <3>1, <2>1, <1>13
  <2>3. WellFounded(e)
    BY <1>7, <1>13, IdsPlaces DEF TreeInv, WellFounded
  <2>4. \A u \in Ids : e[u].refctr = 0 => e[u] = FreeNode
    <3> SUFFICES ASSUME NEW u \in Ids, e[u].refctr = 0 PROVE e[u] = FreeNode
      OBVIOUS
    <3>1. a[u].refctr = 0 /\ a[u] = FreeNode
      BY <1>7, <1>13, IdsPlaces DEF TreeInv
    <3>2. u # s
      <4>1. h # NoName
        BY NamesAssumption
      <4> QED BY <3>1, <4>1, <1>7 DEF FreeNode
    <3> QED BY <3>1, <3>2, <1>10, IdsPlaces
  <2>5. /\ \A u \in Ids : e[u].parent = NoNode <=> e[u].name = NoName
        /\ \A u \in Ids : e[u].is_hidden => e[u].name \in HiddenNames
    <3> SUFFICES ASSUME NEW u \in Ids
                 PROVE  /\ e[u].parent = NoNode <=> e[u].name = NoName
                        /\ e[u].is_hidden => e[u].name \in HiddenNames
      OBVIOUS
    <3>1. e[u].parent = a[u].parent /\ e[u].name = a[u].name /\ (u # s => e[u] = a[u])
      BY <1>10, <1>13, IdsPlaces
    <3> QED BY <3>1, <1>7 DEF TreeInv
  <2>6. e[Root].nlookup = 1 /\ e[Root].parent = NoNode
    BY <1>7, <1>13, IdsPlaces DEF TreeInv
  <2>7. \A x, y \in Ids :
          (e[x].parent # NoNode /\ e[x].parent = e[y].parent /\ e[x].name = e[y].name) => x = y
    <3> SUFFICES ASSUME NEW x \in Ids, NEW y \in Ids, e[x].parent # NoNode,
                        e[x].parent = e[y].parent, e[x].name = e[y].name
                 PROVE  x = y
      OBVIOUS
    <3>1. /\ e[x].parent = a[x].parent /\ e[x].name = a[x].name
          /\ e[y].parent = a[y].parent /\ e[y].name = a[y].name
      BY <1>13, IdsPlaces
    <3> QED BY ZenonT(40), <3>1, <1>7 DEF TreeInv
  <2> QED BY <1>12, <2>2, <2>3, <2>4, <2>5, <2>6, <2>7 DEF TreeInv
<1>15. ASSUME NEW u \in Nodes \ {s}
       PROVE  /\ e[u].nlookup = d[u].nlookup /\ e[u].open_count = d[u].open_count
              /\ e[u].is_hidden = d[u].is_hidden /\ e[u].file = d[u].file
  BY <1>7, <1>10 DEF Edit
<1>16. \A u \in Ids \ {s} : SamePlace(d, e, u)
  BY <1>7, <1>13, IdsPlaces DEF SamePlace
<1>17. e[s].nlookup = d[s].nlookup /\ e[s].open_count = d[s].open_count /\ e[s].file = d[s].file
  BY <1>1, <1>7, <1>11 DEF Edit, HiddenNow
<1> QED BY <1>7, <1>11, <1>14, <1>13, <1>15, <1>16, <1>17, <1>1 DEF HidePlace, HiddenNow

Exchanged(d, e, o, n, p, m, q, m2) ==
  /\ Moved(d, e, {o, n})
  /\ o # NoNode => e[o].parent = q /\ e[o].name = m2
  /\ n # NoNode => e[n].parent = p /\ e[n].name = m

LEMMA ExchangeOk ==
  ASSUME NEW d, TreeInv(d), NEW p \in Nodes, NEW q \in Nodes, Alive(d, p), Alive(d, q),
         NEW m \in Names, NEW m2 \in Names,
         NEW o, o = lookup_node(d, p, m), NEW n, n = lookup_node(d, q, m2),
         o # NoNode => o # n /\ d[o].nlookup > 0, n # NoNode => d[n].nlookup > 0,
         o \notin Chain(d, q), n \notin Chain(d, p),
         NEW e, e = exchange_node(d, p, m, q, m2)
  PROVE  Exchanged(d, e, o, n, p, m, q, m2)
<1>1. /\ p # NoNode /\ q # NoNode /\ p \in Places /\ q \in Places /\ Tree(d)
      /\ o \in Ids \cup {NoNode} /\ OnlyChild(d, p, m, o)
      /\ n \in Ids \cup {NoNode} /\ OnlyChild(d, q, m2, n)
      /\ o # NoNode => o \in Ids /\ d[o].parent = p /\ d[o].name = m
      /\ n # NoNode => n \in Ids /\ d[n].parent = q /\ d[n].name = m2
      /\ m \in AllNames /\ m2 \in AllNames
  BY LookupIs, IdsPlaces, InvTree DEF Nodes, AllNames
<1>2. PICK a : a = IF o = NoNode THEN d ELSE unhash_name(d, o)
  OBVIOUS
<1>3. PICK b : b = IF n = NoNode THEN a ELSE unhash_name(a, n)
  OBVIOUS
<1>4. PICK c : c = IF o = NoNode THEN b ELSE hash_name(b, o, q, m2)
  OBVIOUS
<1>5. e = IF n = NoNode THEN c ELSE hash_name(c, n, p, m)
  BY <1>2, <1>3, <1>4 DEF exchange_node
<1>6. Removed(d, a, p, m, o)
  <2>1. a = remove_node(d, p, m)
    BY <1>2 DEF remove_node
  <2> QED BY <2>1, RemoveOk
<1>7. /\ TreeInv(a) /\ Alive(a, q) /\ Moved(d, a, {o}) /\ (o # NoNode => a[o].parent = NoNode)
      /\ \A u \in Ids : ~(a[u].parent = p /\ a[u].name = m)
  BY <1>6, MovedAlive DEF Removed, Moved
<1>8. n = lookup_node(a, q, m2)
  <2>1. PICK x : x = lookup_node(a, q, m2)
    OBVIOUS
  <2>2. /\ x \in Ids \cup {NoNode} /\ OnlyChild(a, q, m2, x)
        /\ x # NoNode => x \in Ids /\ a[x].parent = q /\ a[x].name = m2
    BY <2>1, <1>7, LookupIs
  <2>3. CASE n # NoNode
    <3>1. n \in Ids /\ n # o
      BY <1>1, <2>3
    <3>2. SamePlace(d, a, n)
      BY <3>1, <1>7 DEF Moved
    <3>3. a[n].parent = q /\ a[n].name = m2
      BY <1>1, <2>3, <3>2 DEF SamePlace
    <3>4. n = x
      BY <2>2, <3>1, <3>3 DEF OnlyChild
    <3> QED BY <2>1, <3>4
  <2>4. CASE n = NoNode
    <3> SUFFICES ASSUME x # NoNode PROVE FALSE
      BY <2>1, <2>4
    <3>1. x \in Ids /\ x # o
      BY <2>2, <1>1, <1>7
    <3>2. SamePlace(d, a, x)
      BY <3>1, <1>7 DEF Moved
    <3> QED BY <2>2, <2>4, <3>1, <3>2, <1>1, IdsPlaces DEF SamePlace, OnlyChild
  <2> QED BY <2>3, <2>4
<1>9. Removed(a, b, q, m2, n)
  <2>1. b = remove_node(a, q, m2)
    BY <1>3, <1>8 DEF remove_node
  <2> QED BY <2>1, <1>7, <1>8, RemoveOk
<1>10. /\ TreeInv(b) /\ Moved(a, b, {n}) /\ Moved(d, b, {o} \cup {n})
       /\ \A u \in Ids : ~(b[u].parent = q /\ b[u].name = m2)
  BY <1>7, <1>9, MovedTrans DEF Removed, Moved
<1>11. Chain(b, q) = Chain(d, q) /\ Chain(b, p) = Chain(d, p)
  <2>1. n \notin Chain(d, q)
    <3> SUFFICES ASSUME n \in Chain(d, q) PROVE FALSE
      OBVIOUS
    <3>1. n \in Ids
      BY <1>1, ChainIds
    <3>2. n # NoNode
      BY <3>1, IdsPlaces
    <3> QED BY <3>1, <3>2, <1>1, ChainNoLoop
  <2>2. o \notin Chain(d, p)
    <3> SUFFICES ASSUME o \in Chain(d, p) PROVE FALSE
      OBVIOUS
    <3>1. o \in Ids
      BY <1>1, ChainIds
    <3>2. o # NoNode
      BY <3>1, IdsPlaces
    <3> QED BY <3>1, <3>2, <1>1, ChainNoLoop
  <2>3. ({o} \cup {n}) \cap Chain(d, q) = {} /\ ({o} \cup {n}) \cap Chain(d, p) = {}
    BY <2>1, <2>2
  <2> QED BY <2>3, <1>1, <1>10, MovedChain
<1>12. \A u \in Ids : ~(b[u].parent = p /\ b[u].name = m)
  <2> SUFFICES ASSUME NEW u \in Ids PROVE ~(b[u].parent = p /\ b[u].name = m)
    OBVIOUS
  <2>1. u = n => b[u].parent = NoNode
    BY <1>9, IdsPlaces DEF Removed
  <2>2. u # n => SamePlace(a, b, u)
    BY <1>10 DEF Moved
  <2> QED BY <2>1, <2>2, <1>1, <1>7 DEF SamePlace
<1>13. /\ o # NoNode => b[o].name = NoName /\ b[o].refctr > 0 /\ ~b[o].is_hidden
       /\ n # NoNode => b[n].name = NoName /\ b[n].refctr > 0 /\ ~b[n].is_hidden
  <2>1. ASSUME NEW x \in Ids, d[x].name \in Names, d[x].nlookup > 0
        PROVE  b[x].refctr > 0 /\ ~b[x].is_hidden
    <3>1. ~d[x].is_hidden /\ x \in Nodes
      BY <2>1, NotHidden, IdsPlaces
    <3>2. ~b[x].is_hidden /\ b[x].nlookup > 0
      BY <2>1, <3>1, <1>10 DEF Moved, Edit
    <3>3. b[x].refctr > 0
      BY <3>1, <3>2, <1>10, NodeIs, ChildrenFinite
    <3> QED BY <3>2, <3>3
  <2>2. ASSUME o # NoNode PROVE b[o].name = NoName /\ b[o].refctr > 0 /\ ~b[o].is_hidden
    <3>1. o \in Ids /\ o # n /\ d[o].name = m /\ d[o].nlookup > 0
      BY <2>2, <1>1
    <3>2. SamePlace(a, b, o) /\ a[o].name = NoName
      BY <3>1, <2>2, <1>6, <1>10 DEF Moved, Removed
    <3> QED BY <3>1, <3>2, <2>1 DEF SamePlace
  <2>3. ASSUME n # NoNode PROVE b[n].name = NoName /\ b[n].refctr > 0 /\ ~b[n].is_hidden
    <3>1. n \in Ids /\ d[n].name = m2 /\ d[n].nlookup > 0
      BY <2>3, <1>1
    <3>2. b[n].name = NoName
      BY <2>3, <1>9 DEF Removed
    <3> QED BY <3>1, <3>2, <2>1
  <2> QED BY <2>2, <2>3
<1>14. /\ TreeInv(c) /\ Moved(b, c, {o})
       /\ o # NoNode => c[o].parent = q /\ c[o].name = m2
  <2>1. CASE o = NoNode
    BY <2>1, <1>4, <1>10 DEF Moved, Edit, SamePlace
  <2>2. CASE o # NoNode
    <3>1. Hashed(b, c, o, q, m2)
      BY <2>2, <1>1, <1>4, <1>10, <1>11, <1>13, HashOk
    <3> QED BY <3>1 DEF Hashed, Moved
  <2> QED BY <2>1, <2>2
<1>15. Moved(d, c, {o, n})
  <2>1. Moved(d, c, ({o} \cup {n}) \cup {o})
    BY <1>10, <1>14, MovedTrans
  <2>2. ({o} \cup {n}) \cup {o} = {o, n}
    OBVIOUS
  <2> QED BY <2>1, <2>2
<1>16. CASE n = NoNode
  BY <1>5, <1>14, <1>15, <1>16 DEF Exchanged
<1>17. CASE n # NoNode
  <2>1. n \in Ids /\ n # o
    BY <1>1, <1>17
  <2>2. SamePlace(b, c, n)
    BY <2>1, <1>14 DEF Moved
  <2>3. c[n].name = NoName /\ c[n].refctr > 0 /\ ~c[n].is_hidden
    <3>1. n \in Nodes /\ d[n].nlookup > 0 /\ ~d[n].is_hidden
      BY <2>1, <1>1, <1>17, NotHidden, IdsPlaces
    <3>2. c[n].nlookup > 0 /\ ~c[n].is_hidden
      BY <3>1, <1>15 DEF Moved, Edit
    <3>3. c[n].refctr > 0
      BY <3>1, <3>2, <1>14, NodeIs, ChildrenFinite
    <3> QED BY <3>2, <3>3, <2>2, <1>13, <1>17 DEF SamePlace
  <2>4. n \notin Chain(c, p)
    <3>1. o \notin Chain(b, p)
      <4>1. o \notin Chain(d, p)
        <5> SUFFICES ASSUME o \in Chain(d, p) PROVE FALSE
          OBVIOUS
        <5>1. o \in Ids /\ o # NoNode
          BY <1>1, ChainIds, IdsPlaces
        <5> QED BY <5>1, <1>1, ChainNoLoop
      <4> QED BY <4>1, <1>11
    <3>2. {o} \cap Chain(b, p) = {}
      BY <3>1
    <3>3. Chain(c, p) = Chain(b, p)
      BY <3>2, <1>1, <1>10, <1>14, MovedChain
    <3> QED BY <3>3, <1>11
  <2>5. \A u \in Ids : ~(c[u].parent = p /\ c[u].name = m)
    <3> SUFFICES ASSUME NEW u \in Ids, c[u].parent = p, c[u].name = m PROVE FALSE
      OBVIOUS
    <3>1. CASE u # o
      <4>1. SamePlace(b, c, u)
        BY <3>1, <1>14 DEF Moved
      <4> QED BY <4>1, <1>12 DEF SamePlace
    <3>2. CASE u = o
      <4>1. o # NoNode
        BY <3>2, IdsPlaces
      <4>2. q = p /\ m2 = m
        BY <3>2, <4>1, <1>14
      <4>3. d[n].parent = p /\ d[n].name = m
        BY <4>2, <1>1, <1>17
      <4> QED BY <4>1, <4>3, <2>1, <1>1 DEF OnlyChild
    <3> QED BY <3>1, <3>2
  <2>6. Hashed(c, e, n, p, m)
    BY <2>1, <2>3, <2>4, <2>5, <1>1, <1>5, <1>14, <1>17, HashOk
  <2>7. Moved(c, e, {n}) /\ e[n].parent = p /\ e[n].name = m
    BY <2>6 DEF Hashed, Moved
  <2>8. Moved(d, e, {o, n})
    <3>1. Moved(d, e, {o, n} \cup {n})
      BY <2>7, <1>15, MovedTrans
    <3>2. {o, n} \cup {n} = {o, n}
      OBVIOUS
    <3> QED BY <3>1, <3>2
  <2>9. o # NoNode => e[o].parent = q /\ e[o].name = m2
    <3> SUFFICES ASSUME o # NoNode PROVE e[o].parent = q /\ e[o].name = m2
      OBVIOUS
    <3>1. SamePlace(c, e, o)
      BY <2>1, <2>7, <1>1 DEF Moved
    <3> QED BY <3>1, <1>14 DEF SamePlace
  <2> QED BY <2>7, <2>8, <2>9 DEF Exchanged
<1> QED BY <1>16, <1>17

\* The table with the lookups dropped and the nodes of F freed.
Dropped(d, e, n, k, F) ==
  /\ TreeInv(e) /\ F \subseteq Chain(d, n) /\ (d[n].nlookup # k => F = {})
  /\ \A u \in F : e[u] = FreeNode /\ (u # n => d[u].nlookup = 0)
  /\ \A u \in Nodes \ F :
       /\ e[u].nlookup = (IF u = n THEN d[u].nlookup - k ELSE d[u].nlookup)
       /\ e[u].open_count = d[u].open_count /\ e[u].is_hidden = d[u].is_hidden
       /\ e[u].file = d[u].file /\ SamePlace(d, e, u)

\* The nodes a dropped reference to n frees: from n up, as long as it was the last one.
FreedUp(d, n) ==
  {u \in Chain(d, n) : \A v \in Chain(d, n) : u \in Chain(d, v) => d[v].refctr = 1}

LEMMA FreedUpIs ==
  ASSUME NEW d, TreeInv(d), NEW n \in Ids
  PROVE  /\ FreedUp(d, n) \subseteq Chain(d, n)
         /\ \A u \in FreedUp(d, n) : d[u].refctr = 1
         /\ FreedUp(d, n) # {} => n \in FreedUp(d, n)
         /\ d[n].refctr = 1 => n \in FreedUp(d, n)
         /\ \A u \in FreedUp(d, n) : u # n =>
              \E v \in FreedUp(d, n) : d[v].parent = u
         /\ \A u \in FreedUp(d, n) : d[u].parent \in Ids \ FreedUp(d, n) =>
              d[d[u].parent].refctr # 1
<1> DEFINE F == FreedUp(d, n)
<1>1. Tree(d) /\ n \in Places /\ n \in Chain(d, n) /\ Chain(d, n) \subseteq Ids
  BY InvTree, IdsPlaces, ChainUp, ChainIds
<1>2. ASSUME NEW u \in F PROVE u \in Chain(d, n) /\ d[u].refctr = 1 /\ n \in F
  <2>1. u \in Chain(d, n) /\ u \in Ids
    BY <1>1 DEF FreedUp
  <2>2. u \in Chain(d, u)
    BY <1>1, <2>1, ChainUp
  <2>3. \A v \in Chain(d, n) : u \in Chain(d, v) => d[v].refctr = 1
    BY DEF FreedUp
  <2>4. ASSUME NEW v \in Chain(d, n), n \in Chain(d, v) PROVE d[v].refctr = 1
    <3>1. v \in Ids /\ v = n
      BY <1>1, <2>4, ChainAnti
    <3> QED BY <2>1, <2>3, <3>1
  <2> QED BY <1>1, <2>1, <2>2, <2>3, <2>4 DEF FreedUp
<1>3. ASSUME d[n].refctr = 1 PROVE n \in F
  <2>1. ASSUME NEW v \in Chain(d, n), n \in Chain(d, v) PROVE d[v].refctr = 1
    <3>1. v \in Ids /\ v = n
      BY <1>1, <2>1, ChainAnti
    <3> QED BY <1>3, <3>1
  <2> QED BY <1>1, <2>1 DEF FreedUp
<1>4. ASSUME NEW u \in F, u # n PROVE \E v \in F : d[v].parent = u
  <2>1. u \in Chain(d, n) /\ u \in Ids
    BY <1>1, <1>2
  <2>2. PICK v \in Chain(d, n) : d[v].parent = u
    BY <1>1, <1>4, <2>1, ChainChild
  <2>3. v \in Ids /\ v \in Places /\ u \in Chain(d, v)
    BY <1>1, <2>1, <2>2, ChainUp, IdsPlaces
  <2>4. ASSUME NEW w \in Chain(d, n), v \in Chain(d, w) PROVE d[w].refctr = 1
    <3>1. w \in Ids /\ w \in Places
      BY <1>1, IdsPlaces
    <3>2. u \in Chain(d, w)
      BY <1>1, <2>3, <2>4, <3>1, ChainTrans
    <3> QED BY <3>2 DEF FreedUp
  <2> QED BY <2>2, <2>4 DEF FreedUp
<1>5. ASSUME NEW v \in F, d[v].parent \in Ids \ F PROVE d[d[v].parent].refctr # 1
  <2>1. PICK u : u = d[v].parent
    OBVIOUS
  <2>2. v \in Chain(d, n) /\ v \in Ids /\ u \in Ids /\ u \notin F /\ v \in Places
    BY <1>1, <1>2, <1>5, <2>1, IdsPlaces
  <2>3. u \in Chain(d, v) /\ Chain(d, v) = {v} \cup Chain(d, u) /\ u \in Chain(d, n)
    BY <1>1, <2>1, <2>2, ChainUp, ChainTrans
  <2> SUFFICES ASSUME d[u].refctr = 1 PROVE FALSE
    BY <2>1
  <2>4. ASSUME NEW w \in Chain(d, n), u \in Chain(d, w) PROVE d[w].refctr = 1
    <3>1. w \in Ids
      BY <1>1
    <3>2. CASE v \in Chain(d, w)
      BY <3>2 DEF FreedUp
    <3>3. CASE w \in Chain(d, v)
      <4>1. CASE w = v
        BY <4>1, <1>2
      <4>2. CASE w \in Chain(d, u)
        <5>1. w = u
          BY <4>2, <2>4, <3>1, <1>1, <2>2, ChainAnti
        <5> QED BY <5>1
      <4> QED BY <3>3, <4>1, <4>2, <2>3
    <3>4. v \in Chain(d, w) \/ w \in Chain(d, v)
      BY <1>1, <2>2, ChainLinear
    <3> QED BY <3>2, <3>3, <3>4
  <2> QED BY <2>2, <2>3, <2>4 DEF FreedUp
<1> QED BY <1>2, <1>3, <1>4, <1>5

Less(q, r, k) ==
  /\ q \in NodeType /\ q.parent = r.parent /\ q.name = r.name /\ q.nlookup = k
  /\ q.refctr = r.refctr /\ q.open_count = r.open_count /\ q.is_hidden = r.is_hidden
  /\ q.file = r.file

LEMMA LessEdit ==
  ASSUME NEW r \in NodeType, NEW k \in Nat, NEW q, q = [r EXCEPT !.nlookup = k]
  PROVE  Less(q, r, k)
BY DEF NodeType, Less

LEMMA DropSome ==
  ASSUME NEW d, TreeInv(d), NEW n \in Ids, NEW k \in Nat, k < d[n].nlookup,
         NEW e, e = DropLookups(d, n, k)
  PROVE  Dropped(d, e, n, k, {})
<1>1. /\ d \in [Nodes -> NodeType] /\ n \in Nodes /\ n # Root /\ d[n] \in NodeType
      /\ d[n].nlookup \in Nat
  BY IdsPlaces, NodeIs DEF TreeInv
<1>2. PICK l \in Nat : l = d[n].nlookup - k /\ l > 0
  BY <1>1
<1>3. PICK a : a = [d EXCEPT ![n].nlookup = l]
  OBVIOUS
<1>4. a[n] = [d[n] EXCEPT !.nlookup = l] /\ (\A u \in Nodes \ {n} : a[u] = d[u])
      /\ a = [u \in Nodes |-> a[u]]
  BY <1>1, <1>3
<1>5. Less(a[n], d[n], l)
  BY <1>1, <1>4, LessEdit
<1>6. e = a
  <2>1. a[n].nlookup # 0
    BY <1>2, <1>5 DEF Less
  <2> QED BY <2>1, <1>2, <1>3 DEF DropLookups
<1>7. \A u \in Nodes : /\ e[u].parent = d[u].parent /\ e[u].name = d[u].name
                       /\ e[u].refctr = d[u].refctr
                       /\ e[u].open_count = d[u].open_count /\ e[u].is_hidden = d[u].is_hidden
                       /\ e[u].file = d[u].file
                       /\ e[u].nlookup = (IF u = n THEN d[u].nlookup - k ELSE d[u].nlookup)
  BY <1>2, <1>4, <1>5, <1>6 DEF Less
<1>8. TreeInv(e)
  <2>1. e \in [Nodes -> NodeType]
    BY <1>1, <1>4, <1>5, <1>6 DEF Less
  <2>2. \A u \in Nodes : Children(e, u) = Children(d, u)
    BY <1>7, IdsPlaces DEF Children
  <2>3. ASSUME NEW u \in Nodes
        PROVE  e[u].refctr = (IF e[u].nlookup > 0 THEN 1 ELSE 0) + Cardinality(Children(e, u))
    <3>1. d[u].refctr = (IF d[u].nlookup > 0 THEN 1 ELSE 0) + Cardinality(Children(d, u))
      BY NodeIs
    <3>2. e[u].nlookup > 0 <=> d[u].nlookup > 0
      BY <1>1, <1>2, <1>7
    <3> QED BY <3>1, <3>2, <2>2, <1>7
  <2>4. WellFounded(e)
    BY <1>7, IdsPlaces DEF TreeInv, WellFounded
  <2>5. \A u \in Ids : e[u].refctr = 0 => e[u] = FreeNode
    <3> SUFFICES ASSUME NEW u \in Ids, e[u].refctr = 0 PROVE e[u] = FreeNode
      OBVIOUS
    <3>1. d[u] = FreeNode /\ u \in Nodes
      BY <1>7, IdsPlaces DEF TreeInv
    <3>2. u # n
      BY <3>1, <1>2 DEF FreeNode
    <3> QED BY <3>1, <3>2, <1>4, <1>6
  <2>6. /\ \A u \in Ids : e[u].parent = NoNode <=> e[u].name = NoName
        /\ \A u \in Ids : e[u].is_hidden => e[u].name \in HiddenNames
    <3> SUFFICES ASSUME NEW u \in Ids
                 PROVE  /\ e[u].parent = NoNode <=> e[u].name = NoName
                        /\ e[u].is_hidden => e[u].name \in HiddenNames
      OBVIOUS
    <3>1. u \in Nodes
      BY IdsPlaces
    <3> QED BY <3>1, <1>7 DEF TreeInv
  <2>7. e[Root].nlookup = 1 /\ e[Root].parent = NoNode
    BY <1>1, <1>7, IdsPlaces DEF TreeInv
  <2>8. \A x, y \in Ids :
          (e[x].parent # NoNode /\ e[x].parent = e[y].parent /\ e[x].name = e[y].name) => x = y
    <3> SUFFICES ASSUME NEW x \in Ids, NEW y \in Ids, e[x].parent # NoNode,
                        e[x].parent = e[y].parent, e[x].name = e[y].name
                 PROVE  x = y
      OBVIOUS
    <3>1. x \in Nodes /\ y \in Nodes
      BY IdsPlaces
    <3>2. /\ e[x].parent = d[x].parent /\ e[x].name = d[x].name
          /\ e[y].parent = d[y].parent /\ e[y].name = d[y].name
      BY <1>7, <3>1
    <3> QED BY <3>2 DEF TreeInv
  <2> QED BY <2>1, <2>3, <2>4, <2>5, <2>6, <2>7, <2>8 DEF TreeInv
<1> QED BY <1>7, <1>8 DEF Dropped, SamePlace

LEMMA DropLast ==
  ASSUME NEW d, TreeInv(d), NEW n \in Ids, d[n].nlookup > 0,
         NEW e, e = DropLookups(d, n, d[n].nlookup)
  PROVE  Dropped(d, e, n, d[n].nlookup, FreedUp(d, n))
<1> DEFINE F == FreedUp(d, n)
<1>1. /\ d \in [Nodes -> NodeType] /\ n \in Nodes /\ n # Root /\ d[n] \in NodeType
      /\ d[n].nlookup \in Nat /\ Tree(d) /\ n \in Places /\ Chain(d, n) \subseteq Ids
      /\ n \in Chain(d, n)
  BY IdsPlaces, NodeIs, InvTree, ChainIds, ChainUp DEF TreeInv
<1>2. PICK a : a = [d EXCEPT ![n].nlookup = 0]
  OBVIOUS
<1>3. a[n] = [d[n] EXCEPT !.nlookup = 0] /\ (\A u \in Nodes \ {n} : a[u] = d[u])
      /\ a = [u \in Nodes |-> a[u]]
  BY <1>1, <1>2
<1>4. Less(a[n], d[n], 0)
  BY <1>1, <1>3, LessEdit
<1>5. \A u \in Nodes : /\ a[u] \in NodeType
                       /\ a[u].parent = d[u].parent /\ a[u].name = d[u].name
                       /\ a[u].refctr = d[u].refctr
                       /\ a[u].open_count = d[u].open_count /\ a[u].is_hidden = d[u].is_hidden
                       /\ a[u].file = d[u].file
                       /\ a[u].nlookup = (IF u = n THEN 0 ELSE d[u].nlookup)
  BY <1>1, <1>3, <1>4 DEF Less
<1>6. e = unref_node(a, n)
  <2>1. a = [d EXCEPT ![n].nlookup = @ - d[n].nlookup]
    <3>1. d[n].nlookup - d[n].nlookup = 0
      BY <1>1
    <3>2. [d EXCEPT ![n].nlookup = @ - d[n].nlookup]
            = [d EXCEPT ![n].nlookup = d[n].nlookup - d[n].nlookup]
      OBVIOUS
    <3> QED BY <3>1, <3>2, <1>2
  <2>2. a[n].nlookup = 0
    BY <1>5, <1>1
  <2> QED BY <2>1, <2>2 DEF DropLookups
<1>7. Tree(a) /\ \A u \in Places : Chain(a, u) = Chain(d, u)
  <2>1. Tree(a)
    BY <1>1, <1>5, IdsPlaces, CutTree
  <2>2. ASSUME NEW u \in Places PROVE Chain(a, u) = Chain(d, u)
    <3>1. \A x \in Chain(d, u) : a[x].parent = d[x].parent
      BY <1>1, <1>5, ChainIds, IdsPlaces
    <3> QED BY <2>1, <3>1, <1>1, ChainFrame DEF Tree
  <2> QED BY <2>1, <2>2
<1>8. F = {u \in Chain(a, n) : \A v \in Chain(a, n) : u \in Chain(a, v) => a[v].refctr = 1}
  <2>1. Chain(a, n) = Chain(d, n)
    BY <1>1, <1>7
  <2>2. \A v \in Chain(d, n) : Chain(a, v) = Chain(d, v) /\ a[v].refctr = d[v].refctr
    BY <1>1, <1>5, <1>7, IdsPlaces
  <2> QED BY <2>1, <2>2 DEF FreedUp
<1> HIDE DEF F
<1>9. e = [u \in Nodes |-> IF u \in F THEN FreeNode
                           ELSE IF u = n \/ \E v \in F : a[v].parent = u
                                THEN [a[u] EXCEPT !.refctr = @ - 1] ELSE a[u]]
  BY <1>6, <1>8 DEF unref_node
<1>10. /\ F \subseteq Chain(d, n) /\ F \subseteq Ids
       /\ \A u \in F : d[u].refctr = 1
       /\ F # {} => n \in F
       /\ d[n].refctr = 1 => n \in F
       /\ \A u \in F : u # n => \E v \in F : d[v].parent = u
       /\ \A u \in F : d[u].parent \in Ids \ F => d[d[u].parent].refctr # 1
  BY <1>1, FreedUpIs DEF F
<1> DEFINE loses(u) == u = n \/ \E v \in F : d[v].parent = u
<1>11. \A u \in Nodes : loses(u) <=> (u = n \/ \E v \in F : a[v].parent = u)
  BY <1>5, <1>10, IdsPlaces
\* How many children a node has that are not freed.
<1>12. ASSUME NEW u \in F PROVE (u # n => d[u].nlookup = 0) /\ Children(d, u) \subseteq F
  <2>1. u \in Ids /\ u \in Nodes /\ d[u].refctr = 1
        /\ d[u].refctr = (IF d[u].nlookup > 0 THEN 1 ELSE 0) + Cardinality(Children(d, u))
    BY <1>10, NodeIs, IdsPlaces
  <2>2. CASE u = n
    <3>1. Cardinality(Children(d, u)) = 0
      BY <2>1, <2>2, <1>1, ChildrenFinite
    <3>2. Children(d, u) = {}
      BY <3>1, ChildrenFinite, FS_EmptySet
    <3> QED BY <2>2, <3>2
  <2>3. CASE u # n
    <3>1. PICK v \in F : d[v].parent = u
      BY <1>10, <2>3
    <3>2. v \in Children(d, u)
      BY <3>1, <1>10 DEF Children
    <3>3. Cardinality(Children(d, u) \ {v}) = Cardinality(Children(d, u)) - 1
          /\ Cardinality(Children(d, u) \ {v}) \in Nat /\ IsFiniteSet(Children(d, u) \ {v})
      BY <3>2, ChildrenFinite, FS_RemoveElement, FS_CardinalityType
    <3>4. PICK c \in Nat : c = Cardinality(Children(d, u))
      BY ChildrenFinite
    <3>5. d[u].nlookup \in Nat
      BY <2>1, NodeIs
    <3>6. c = 1 /\ d[u].nlookup = 0
      BY <2>1, <3>3, <3>4, <3>5
    <3>7. Children(d, u) \ {v} = {}
      BY <3>3, <3>4, <3>6, FS_EmptySet
    <3> QED BY <3>1, <3>6, <3>7
  <2> QED BY <2>2, <2>3
<1>13. ASSUME NEW u \in Nodes \ F, loses(u), u # n
       PROVE  \E v \in F : Children(d, u) \cap F = {v} /\ d[u].refctr >= 2
  <2>1. PICK v \in F : d[v].parent = u
    BY <1>13
  <2>2. Children(d, u) \cap F = {v}
    <3>1. ASSUME NEW x \in Children(d, u) \cap F PROVE x = v
      BY <3>1, <2>1, <1>1, <1>10, OneChild DEF Children
    <3>2. v \in Children(d, u)
      BY <2>1, <1>10 DEF Children
    <3> QED BY <3>1, <3>2
  <2>3. Cardinality(Children(d, u)) >= 1
    BY <2>2, ChildrenFinite, FS_EmptySet
  <2>4. d[u].refctr = (IF d[u].nlookup > 0 THEN 1 ELSE 0) + Cardinality(Children(d, u))
        /\ d[u].refctr \in Nat
    BY NodeIs
  <2>5. CASE u = Root
    <3>1. d[u].nlookup = 1
      BY <2>5 DEF TreeInv
    <3>2. d[u].refctr >= 2
      BY <2>3, <2>4, <3>1, ChildrenFinite
    <3> QED BY <2>2, <3>2
  <2>6. CASE u \in Ids
    <3>1. d[u].refctr # 1
      BY <1>10, <2>1, <2>6
    <3>2. PICK c \in Nat : c = Cardinality(Children(d, u))
      BY ChildrenFinite
    <3>3. d[u].refctr >= 2
      BY <2>3, <2>4, <3>1, <3>2
    <3> QED BY <2>2, <3>3
  <2> QED BY <2>5, <2>6 DEF Nodes
<1>14. n \notin F => d[n].refctr >= 2
  <2> SUFFICES ASSUME n \notin F PROVE d[n].refctr >= 2
    OBVIOUS
  <2>1. d[n].refctr # 1
    BY <1>10
  <2>2. d[n].refctr = (IF d[n].nlookup > 0 THEN 1 ELSE 0) + Cardinality(Children(d, n))
    BY <1>1, NodeIs
  <2>3. PICK c \in Nat : c = Cardinality(Children(d, n))
    BY ChildrenFinite
  <2> QED BY <2>1, <2>2, <2>3
<1>15. ASSUME NEW u \in Nodes \ F, loses(u) PROVE d[u].refctr >= 2
  BY <1>13, <1>14, <1>15
<1>16. ASSUME NEW u \in F PROVE e[u] = FreeNode
  BY <1>9, <1>10, IdsPlaces
<1>17. ASSUME NEW u \in Nodes \ F
       PROVE  /\ e[u] \in NodeType /\ e[u].parent = d[u].parent /\ e[u].name = d[u].name
              /\ e[u].refctr = (IF loses(u) THEN d[u].refctr - 1 ELSE d[u].refctr)
              /\ e[u].open_count = d[u].open_count /\ e[u].is_hidden = d[u].is_hidden
              /\ e[u].file = d[u].file
              /\ e[u].nlookup = (IF u = n THEN 0 ELSE d[u].nlookup)
              /\ ~loses(u) => e[u] = a[u]
  <2>1. CASE loses(u)
    <3>1. e[u] = [a[u] EXCEPT !.refctr = @ - 1]
      BY <1>9, <1>11, <2>1
    <3>2. a[u] \in NodeType
      BY <1>5
    <3>3. PICK k \in Nat : k = a[u].refctr - 1
      <4>1. d[u].refctr >= 2 /\ a[u].refctr = d[u].refctr /\ d[u].refctr \in Nat
        BY <1>5, <1>15, <2>1, NodeIs
      <4> QED BY <4>1
    <3>4. Recounted(e[u], a[u], k)
      BY <3>1, <3>2, <3>3, CountEdit
    <3> HIDE DEF loses
    <3> QED BY <2>1, <3>3, <3>4, <1>5 DEF Recounted
  <2>2. CASE ~loses(u)
    <3>1. e[u] = a[u]
      BY <1>9, <1>11, <2>2
    <3> HIDE DEF loses
    <3> QED BY <2>2, <3>1, <1>5
  <2> QED BY <2>1, <2>2
<1>18. e \in [Nodes -> NodeType]
  <2>1. FreeNode \in NodeType
    BY DEF FreeNode, NodeType
  <2>2. \A u \in Nodes : e[u] \in NodeType
    BY <2>1, <1>16, <1>17
  <2>3. e = [u \in Nodes |-> e[u]]
    BY <1>9
  <2> QED BY <2>2, <2>3
<1>19. \A u \in Ids : IF u \in F THEN e[u].parent = NoNode /\ e[u].name = NoName
                      ELSE e[u].parent = d[u].parent /\ e[u].name = d[u].name
  BY <1>16, <1>17, IdsPlaces DEF FreeNode
<1>20. ASSUME NEW u \in Nodes PROVE Children(e, u) = Children(d, u) \ F
  <2>1. u # NoNode
    BY IdsPlaces DEF Nodes
  <2> QED BY <2>1, <1>19 DEF Children
<1>21. ASSUME NEW u \in Nodes
       PROVE  e[u].refctr = (IF e[u].nlookup > 0 THEN 1 ELSE 0) + Cardinality(Children(e, u))
  <2>0. d[u].refctr = (IF d[u].nlookup > 0 THEN 1 ELSE 0) + Cardinality(Children(d, u))
        /\ d[u].refctr \in Nat
    BY NodeIs
  <2>1. CASE u \in F
    <3>1. Children(e, u) = {}
      BY <2>1, <1>12, <1>20
    <3>2. Cardinality(Children(e, u)) = 0
      BY <3>1, FS_EmptySet
    <3> QED BY <2>1, <3>2, <1>16 DEF FreeNode
  <2>2. CASE u \notin F /\ loses(u) /\ u # n
    <3>1. PICK v \in F : Children(d, u) \cap F = {v}
      BY <2>2, <1>13
    <3>2. Children(e, u) = Children(d, u) \ {v} /\ v \in Children(d, u)
      BY <3>1, <1>20
    <3>3. Cardinality(Children(e, u)) = Cardinality(Children(d, u)) - 1
      BY <3>2, ChildrenFinite, FS_RemoveElement
    <3>4. e[u].refctr = d[u].refctr - 1 /\ e[u].nlookup = d[u].nlookup
      BY <2>2, <1>17
    <3>5. PICK c \in Nat : c = Cardinality(Children(d, u))
      BY ChildrenFinite
    <3> QED BY <2>0, <3>3, <3>4, <3>5
  <2>3. CASE u \notin F /\ u = n
    <3>1. F = {}
      BY <2>3, <1>10
    <3>2. Children(e, u) = Children(d, u)
      BY <1>20, <3>1
    <3>3. e[u].refctr = d[u].refctr - 1 /\ e[u].nlookup = 0
      BY <2>3, <1>17
    <3>5. PICK c \in Nat : c = Cardinality(Children(d, u))
      BY ChildrenFinite
    <3> QED BY <2>0, <2>3, <3>2, <3>3, <3>5
  <2>4. CASE u \notin F /\ ~loses(u)
    <3>1. Children(d, u) \cap F = {}
      BY <2>4, <1>10 DEF Children
    <3>2. Children(e, u) = Children(d, u)
      BY <1>20, <3>1
    <3>3. e[u].refctr = d[u].refctr /\ e[u].nlookup = d[u].nlookup
      BY <2>4, <1>17
    <3> QED BY <2>0, <3>2, <3>3
  <2> QED BY <2>1, <2>2, <2>3, <2>4
<1>22. WellFounded(e)
  <2>1. \A u \in Ids : e[u].parent \in {d[u].parent, NoNode}
    BY <1>19
  <2>2. Tree(e)
    BY <2>1, <1>1, CutTree
  <2> QED BY <2>2 DEF Tree
<1>23. \A u \in Ids : e[u].refctr = 0 => e[u] = FreeNode
  <2> SUFFICES ASSUME NEW u \in Ids, e[u].refctr = 0, u \notin F PROVE e[u] = FreeNode
    BY <1>16
  <2>1. u \in Nodes \ F /\ d[u].refctr \in Nat
    BY IdsPlaces, NodeIs
  <2>2. ~loses(u)
    <3> SUFFICES ASSUME loses(u) PROVE FALSE
      OBVIOUS
    <3>1. e[u].refctr = d[u].refctr - 1 /\ d[u].refctr >= 2
      BY <2>1, <1>15, <1>17
    <3> QED BY <3>1, <2>1
  <2>3. e[u].refctr = d[u].refctr /\ e[u] = a[u] /\ u # n
    BY <2>1, <2>2, <1>17
  <2> QED BY <2>1, <2>3, <1>3 DEF TreeInv
<1>24. /\ \A u \in Ids : e[u].parent = NoNode <=> e[u].name = NoName
       /\ \A u \in Ids : e[u].is_hidden => e[u].name \in HiddenNames
  <2> SUFFICES ASSUME NEW u \in Ids
               PROVE  /\ e[u].parent = NoNode <=> e[u].name = NoName
                      /\ e[u].is_hidden => e[u].name \in HiddenNames
    OBVIOUS
  <2>1. CASE u \in F
    BY <2>1, <1>16 DEF FreeNode
  <2>2. CASE u \notin F
    <3>1. u \in Nodes \ F
      BY <2>2, IdsPlaces
    <3>2. e[u].is_hidden = d[u].is_hidden /\ e[u].parent = d[u].parent /\ e[u].name = d[u].name
      BY <3>1, <1>17
    <3> QED BY <3>2 DEF TreeInv
  <2> QED BY <2>1, <2>2
<1>25. e[Root].nlookup = 1 /\ e[Root].parent = NoNode
  <2>1. Root \in Nodes \ F
    BY <1>10, IdsPlaces
  <2>2. e[Root].nlookup = d[Root].nlookup /\ e[Root].parent = d[Root].parent
    BY <2>1, <1>1, <1>17
  <2> QED BY <2>2 DEF TreeInv
<1>26. \A x, y \in Ids :
         (e[x].parent # NoNode /\ e[x].parent = e[y].parent /\ e[x].name = e[y].name) => x = y
  <2> SUFFICES ASSUME NEW x \in Ids, NEW y \in Ids, e[x].parent # NoNode,
                      e[x].parent = e[y].parent, e[x].name = e[y].name
               PROVE  x = y
    OBVIOUS
  <2>1. /\ e[x].parent = d[x].parent /\ e[x].name = d[x].name
        /\ e[y].parent = d[y].parent /\ e[y].name = d[y].name
    BY <1>19
  <2> QED BY ZenonT(40), <2>1 DEF TreeInv
<1>27. TreeInv(e)
  BY <1>18, <1>21, <1>22, <1>23, <1>24, <1>25, <1>26 DEF TreeInv
<1>28. ASSUME NEW u \in Nodes \ F
       PROVE  /\ e[u].nlookup = (IF u = n THEN d[u].nlookup - d[n].nlookup ELSE d[u].nlookup)
              /\ e[u].open_count = d[u].open_count /\ e[u].is_hidden = d[u].is_hidden
              /\ e[u].file = d[u].file /\ SamePlace(d, e, u)
  BY <1>1, <1>17 DEF SamePlace
<1>29. Dropped(d, e, n, d[n].nlookup, F)
  BY <1>10, <1>12, <1>16, <1>27, <1>28 DEF Dropped
<1> QED BY <1>29 DEF F

LEMMA DropOk ==
  ASSUME NEW d, TreeInv(d), NEW n \in Ids, NEW k \in Nat, k > 0, k <= d[n].nlookup,
         NEW e, e = DropLookups(d, n, k)
  PROVE  \E F : Dropped(d, e, n, k, F)
<1>1. d[n].nlookup \in Nat
  BY NodeIs, IdsPlaces
<1>2. CASE k = d[n].nlookup
  <2>1. Dropped(d, e, n, d[n].nlookup, FreedUp(d, n))
    BY <1>1, <1>2, DropLast
  <2> QED BY <1>2, <2>1
<1>3. CASE k < d[n].nlookup
  BY <1>1, <1>3, DropSome
<1> QED BY <1>1, <1>2, <1>3

---------------------------------------------------------------------------
(* What a change of the table leaves to the requests *)

PathKept(d, e, n) == Alive(e, n) /\ \A u \in Chain(d, n) : SamePlace(d, e, u)

WriterKept(d, e, w) ==
  w # NoNode => e[w].nlookup > 0 /\ e[w].parent \in {NoNode, d[w].parent}

DirsKept(d, e, r) == \A c \in Ids : e[c].parent \in r.mx => SamePlace(d, e, c)

DoomKept(d, e, r) ==
  r.at = "wait" /\ r.done /\ r.err =>
    /\ ~Named(d, r.n) => ~Named(e, r.n)
    /\ Two(r) /\ ~Named(d, r.n2) => ~Named(e, r.n2)

Keeps(d, e, r) ==
  /\ r.l => PathKept(d, e, r.n)
  /\ r.l2 => PathKept(d, e, r.n2)
  /\ WriterKept(d, e, r.w) /\ WriterKept(d, e, r.w2) /\ DirsKept(d, e, r) /\ DoomKept(d, e, r)

LEMMA PathKeptIs ==
  ASSUME NEW d, TreeInv(d), NEW e, TreeInv(e), NEW n \in Nodes, PathKept(d, e, n), NEW m
  PROVE  /\ Chain(e, n) = Chain(d, n) /\ PathFor(e, n, m) = PathFor(d, n, m)
         /\ (Named(d, n) => Named(e, n)) /\ Alive(e, n)
<1>1. Tree(d) /\ Tree(e) /\ n \in Places
  BY InvTree, IdsPlaces
<1>2. \A u \in Chain(d, n) : e[u].parent = d[u].parent /\ e[u].name = d[u].name
  BY DEF PathKept, SamePlace
<1>3. Chain(e, n) = Chain(d, n)
  BY <1>1, <1>2, ChainFrame DEF Tree
<1>4. PathOf(e, n) = PathOf(d, n)
  BY <1>1, <1>2, PathFrame
<1>5. PathFor(e, n, m) = PathFor(d, n, m)
  BY <1>4 DEF PathFor
<1>6. Named(d, n) => Named(e, n)
  BY <1>2, <1>3 DEF Named, AllNamed
<1> QED BY <1>3, <1>5, <1>6 DEF PathKept

LockStays(d, e, r) ==
  /\ Locks(e, r)
  /\ r.l => Chain(e, r.n) = Chain(d, r.n)
  /\ r.l2 => Chain(e, r.n2) = Chain(d, r.n2)

LEMMA LocksKept ==
  ASSUME NEW d, TreeInv(d), NEW e, TreeInv(e), NEW r \in CallType, Shape(r), Locks(d, r),
         Keeps(d, e, r)
  PROVE  LockStays(d, e, r)
<1>1. CASE r = NoCall
  <2>1. ~r.l /\ ~r.l2 /\ Locks(e, r)
    BY <1>1, NoCallIs
  <2> QED BY <2>1 DEF LockStays
<1>2. CASE r # NoCall
  <2>1. Asked(r) /\ Phase(r) /\ r.n \in Nodes /\ (Two(r) => r.n2 \in Nodes)
    BY <1>2 DEF Shape, Asked
  <2>2. ASSUME r.l
        PROVE  /\ Chain(e, r.n) = Chain(d, r.n) /\ Alive(e, r.n) /\ Named(e, r.n)
               /\ r.p = PathFor(e, r.n, r.m)
    <3>1. PathKept(d, e, r.n) /\ Named(d, r.n) /\ r.p = PathFor(d, r.n, r.m)
      BY <2>2 DEF Keeps, Locks
    <3> QED BY <3>1, <2>1, PathKeptIs
  <2>3. ASSUME r.l2
        PROVE  /\ Chain(e, r.n2) = Chain(d, r.n2) /\ Two(r) /\ Alive(e, r.n2) /\ Named(e, r.n2)
               /\ r.p2 = PathFor(e, r.n2, r.m2)
    <3>1. /\ PathKept(d, e, r.n2) /\ Named(d, r.n2) /\ r.p2 = PathFor(d, r.n2, r.m2)
          /\ Two(r) /\ r.n2 \in Nodes
      BY <2>1, <2>3 DEF Keeps, Locks
    <3> QED BY <3>1, PathKeptIs
  <2>4. /\ r.w # NoNode => e[r.w].nlookup > 0
        /\ r.w2 # NoNode => e[r.w2].nlookup > 0
        /\ r.w # NoNode => e[r.w].parent \in {NoNode, r.n} \/ (r.l2 /\ e[r.w].parent = r.n2)
        /\ r.w2 # NoNode => e[r.w2].parent \in {NoNode, r.n2} \/ (r.l /\ e[r.w2].parent = r.n)
    <3>1. WriterKept(d, e, r.w) /\ WriterKept(d, e, r.w2)
      BY DEF Keeps
    <3>2. r.w # NoNode => d[r.w].parent \in {NoNode, r.n} \/ (r.l2 /\ d[r.w].parent = r.n2)
      BY DEF Locks
    <3>3. r.w2 # NoNode => d[r.w2].parent \in {NoNode, r.n2} \/ (r.l /\ d[r.w2].parent = r.n)
      BY DEF Locks
    <3> QED BY <3>1, <3>2, <3>3 DEF WriterKept
  <2>5. ASSUME Wr(r), NEW c \in Ids, e[c].parent = r.n \/ (Two(r) /\ e[c].parent = r.n2)
        PROVE  d[c].parent = e[c].parent /\ d[c].name = e[c].name
    <3>1. r.n \in r.mx /\ (Two(r) => r.n2 \in r.mx)
      BY <2>1, <2>5 DEF Asked, InDir, Wr
    <3> QED BY <2>5, <3>1 DEF Keeps, DirsKept, SamePlace
  <2>6. /\ Wr(r) /\ r.l /\ r.at # "free" => OnlyChild(e, r.n, r.m, r.w)
        /\ Wr(r) /\ r.l2 /\ r.at # "free" => OnlyChild(e, r.n2, r.m2, r.w2)
    <3>1. ASSUME Wr(r), r.l, r.at # "free", NEW c \in Ids, e[c].parent = r.n, e[c].name = r.m
          PROVE  c = r.w
      <4>1. OnlyChild(d, r.n, r.m, r.w)
        BY <3>1 DEF Locks
      <4> QED BY <3>1, <4>1, <2>5 DEF OnlyChild
    <3>2. ASSUME Wr(r), r.l2, r.at # "free", NEW c \in Ids, e[c].parent = r.n2, e[c].name = r.m2
          PROVE  c = r.w2
      <4>1. OnlyChild(d, r.n2, r.m2, r.w2)
        BY <3>2 DEF Locks
      <4> QED BY <3>2, <4>1, <2>3, <2>5 DEF OnlyChild
    <3> QED BY <3>1, <3>2 DEF OnlyChild
  <2>7. r.at \in {"hidefs", "hidenode"} =>
          \A c \in Ids : ~(e[c].parent = Victim(r).dir /\ e[c].name = r.hid)
    <3> SUFFICES ASSUME r.at \in {"hidefs", "hidenode"}, NEW c \in Ids,
                        e[c].parent = Victim(r).dir, e[c].name = r.hid
                 PROVE  FALSE
      OBVIOUS
    <3>1. r.op \in {"unlink", "rename"}
      BY <2>1 DEF Phase, Steps, Asked
    <3>2. Victim(r).dir = r.n \/ (Two(r) /\ Victim(r).dir = r.n2)
      BY <3>1 DEF Victim, Two
    <3>3. Wr(r)
      BY <3>1 DEF Wr
    <3> QED BY <3>2, <3>3, <2>5 DEF Locks
  <2>8. r.at = "hidunlink" => e[r.n].name \in HiddenNames
    <3> SUFFICES ASSUME r.at = "hidunlink" PROVE e[r.n].name \in HiddenNames
      OBVIOUS
    <3>1. r.op \in {"open", "release"} /\ r.l
      BY <2>1 DEF Phase, Steps, Asked
    <3>2. r.n \in Ids
      BY <2>1, <3>1 DEF Asked, InDir
    <3>3. r.n \in Chain(d, r.n)
      BY <3>2, InvTree, ChainUp
    <3>4. SamePlace(d, e, r.n)
      BY <3>1, <3>3 DEF Keeps, PathKept
    <3> QED BY <3>4 DEF SamePlace, Locks
  <2>9. r.at = "wait" /\ r.done /\ r.err => ~Named(e, r.n) \/ (Two(r) /\ ~Named(e, r.n2))
    BY DEF Keeps, DoomKept, Locks
  <2>10. Locks(e, r)
    <3>1. (~r.l \/ ~Wr(r) => r.w = NoNode) /\ (~r.l2 \/ ~Wr(r) => r.w2 = NoNode)
      BY DEF Locks
    <3> QED BY <3>1, <2>2, <2>3, <2>4, <2>6, <2>7, <2>8, <2>9 DEF Locks
  <2> QED BY <2>2, <2>3, <2>10 DEF LockStays
<1> QED BY <1>1, <1>2

\* A node below an unnamed one stays so if no such node is named, but for a free one.
LEMMA DoomedStays ==
  ASSUME NEW d, Tree(d), NEW e, Tree(e), NEW F, \A u \in Ids : d[u].parent \notin F,
         \A u \in Ids \ F : ~SamePlace(d, e, u) => e[u].name = NoName \/ Named(d, u),
         NEW n \in Places, n \notin F, ~Named(d, n)
  PROVE  ~Named(e, n)
<1> DEFINE S == {u \in Ids \ F : ~Named(d, u) /\ Named(e, u)}
<1>1. ASSUME NEW u \in Ids, Named(e, u) PROVE e[u].name # NoName /\ Named(e, e[u].parent)
  <2>1. u \in Chain(e, u) /\ Chain(e, u) = {u} \cup Chain(e, e[u].parent)
    BY ChainUp
  <2> QED BY <1>1, <2>1 DEF Named, AllNamed
<1>2. ASSUME NEW u \in S PROVE d[u].parent \in S
  <2>1. u \in Ids \ F /\ e[u].name # NoName /\ SamePlace(d, e, u) /\ Named(e, e[u].parent)
    BY <1>1
  <2>2. PICK p : p = d[u].parent
    OBVIOUS
  <2>3. /\ p \in Places /\ p \notin F /\ Named(e, p) /\ d[u].name # NoName
        /\ Chain(d, u) = {u} \cup Chain(d, p)
    BY <2>1, <2>2, ChainUp DEF SamePlace
  <2>4. ~Named(d, p)
    <3> SUFFICES ASSUME Named(d, p) PROVE FALSE
      OBVIOUS
    <3>1. Named(d, u)
      BY <2>3 DEF Named, AllNamed
    <3> QED BY <3>1
  <2>5. p \in Ids
    <3> SUFFICES ASSUME p \notin Ids PROVE FALSE
      OBVIOUS
    <3>1. Chain(d, p) = {}
      BY <2>3, ChainIs, IdsPlaces DEF Tree
    <3> QED BY <2>4, <3>1 DEF Named, AllNamed
  <2> QED BY <2>2, <2>3, <2>4, <2>5
<1>3. S = {}
  <2> SUFFICES ASSUME S # {} PROVE FALSE
    OBVIOUS
  <2>1. PICK u \in S : d[u].parent \notin S
    BY DEF Tree, WellFounded
  <2> HIDE DEF S
  <2> QED BY <1>2, <2>1
<1>4. n \in Ids
  <2> SUFFICES ASSUME n \notin Ids PROVE FALSE
    OBVIOUS
  <2>1. Chain(d, n) = {}
    BY ChainIs, IdsPlaces DEF Tree
  <2> QED BY <2>1 DEF Named, AllNamed
<1> QED BY <1>3, <1>4

\* A change of the table by thread t: the nodes it moves nobody else has locked, the ones
\* that lose their lookups nobody has; F: nodes that were free.
TableStep(t, e, F) ==
  /\ TreeInv(e) /\ F \subseteq Ids
  /\ \A u \in Ids : ~SamePlace(nd, e, u) =>
       /\ R1(nd, call, u) = {} /\ R2(nd, call, u) = {}
       /\ W1(call, u) \cup W2(call, u) \subseteq {t}
       /\ e[u].parent \in {NoNode} \cup call[t].mx
       /\ u \in F \/ e[u].name = NoName \/ Named(nd, u)
  /\ \A u \in Ids : nd[u].nlookup > 0 /\ e[u].nlookup = 0 =>
       /\ R1(nd, call, u) = {} /\ R2(nd, call, u) = {}
       /\ W1(call, u) = {} /\ W2(call, u) = {}
  /\ \A u \in F : nd[u].refctr = 0

LEMMA FreeNoChild ==
  ASSUME NEW d, TreeInv(d), NEW n \in Ids, d[n].refctr = 0
  PROVE  d[n].nlookup = 0 /\ \A c \in Ids : d[c].parent # n
<1>1. 0 = (IF d[n].nlookup > 0 THEN 1 ELSE 0) + Cardinality(Children(d, n)) /\ d[n].nlookup \in Nat
  BY NodeIs, IdsPlaces
<1>2. PICK c \in Nat : c = Cardinality(Children(d, n))
  BY ChildrenFinite
<1>3. d[n].nlookup = 0 /\ c = 0
  BY <1>1, <1>2
<1>4. Children(d, n) = {}
  BY <1>2, <1>3, ChildrenFinite, FS_EmptySet
<1> QED BY <1>3, <1>4 DEF Children

LEMMA PathsKept ==
  ASSUME Inv, NEW t \in Threads, NEW e, NEW F, TableStep(t, e, F), NEW u \in Threads
  PROVE  /\ call[u].l => PathKept(nd, e, call[u].n)
         /\ call[u].l2 => PathKept(nd, e, call[u].n2)
<1>1. TreeInv(nd) /\ Tree(nd) /\ TreeInv(e) /\ Shape(call[u]) /\ Locks(nd, call[u])
  BY InvTree DEF Inv, Calls, TableStep
<1>2. ASSUME NEW n \in Nodes, Alive(nd, n),
             \A v \in Chain(nd, n) : u \in R1(nd, call, v) \cup R2(nd, call, v)
      PROVE  PathKept(nd, e, n)
  <2>1. \A v \in Chain(nd, n) : v \in Ids
    BY <1>1, ChainIds, IdsPlaces
  <2>2. \A v \in Chain(nd, n) : SamePlace(nd, e, v)
    BY <1>2, <2>1 DEF TableStep
  <2>3. Alive(e, n)
    <3> SUFFICES ASSUME n # Root PROVE e[n].nlookup > 0
      BY DEF Alive
    <3>1. n \in Ids /\ n \in Chain(nd, n) /\ nd[n].nlookup > 0
      BY <1>1, <1>2, ChainUp DEF Nodes, Alive
    <3>2. e[n].nlookup # 0
      BY <1>2, <3>1 DEF TableStep
    <3> QED BY <1>1, <3>1, <3>2, NodeIs, IdsPlaces
  <2> QED BY <2>2, <2>3 DEF PathKept
<1>3. ASSUME call[u].l PROVE PathKept(nd, e, call[u].n)
  <2>1. call[u] # NoCall
    BY <1>3, NoCallIs
  <2>2. call[u].n \in Nodes /\ Alive(nd, call[u].n)
    BY <1>1, <1>3, <2>1 DEF Shape, Asked, Locks
  <2>3. \A v \in Chain(nd, call[u].n) : u \in R1(nd, call, v)
    BY <1>3 DEF R1
  <2> QED BY <1>2, <2>2, <2>3
<1>4. ASSUME call[u].l2 PROVE PathKept(nd, e, call[u].n2)
  <2>1. call[u] # NoCall
    BY <1>4, NoCallIs
  <2>2. call[u].n2 \in Nodes /\ Alive(nd, call[u].n2)
    BY <1>1, <1>4, <2>1 DEF Shape, Asked, Locks
  <2>3. \A v \in Chain(nd, call[u].n2) : u \in R2(nd, call, v)
    BY <1>4 DEF R2
  <2> QED BY <1>2, <2>2, <2>3
<1> QED BY <1>3, <1>4

LEMMA OthersKept ==
  ASSUME Inv, NEW t \in Threads, NEW e, NEW F, TableStep(t, e, F), NEW u \in Threads \ {t}
  PROVE  Keeps(nd, e, call[u])
<1>1. /\ TreeInv(nd) /\ Tree(nd) /\ TreeInv(e) /\ Tree(e) /\ Shape(call[u]) /\ Locks(nd, call[u])
      /\ call[u] \in CallType
  BY InvTree DEF Inv, Calls, TableStep, TypeOK
<1>2. /\ call[u].l => PathKept(nd, e, call[u].n)
      /\ call[u].l2 => PathKept(nd, e, call[u].n2)
  BY PathsKept
<1>3. ASSUME NEW w \in Ids, u \in W1(call, w) \cup W2(call, w), nd[w].nlookup > 0
      PROVE  WriterKept(nd, e, w)
  <2>1. SamePlace(nd, e, w)
    BY <1>3 DEF TableStep
  <2>2. e[w].nlookup # 0
    BY <1>3 DEF TableStep
  <2>3. e[w].nlookup > 0
    BY <1>1, <2>2, NodeIs, IdsPlaces
  <2> QED BY <2>1, <2>3 DEF WriterKept, SamePlace
<1>4. WriterKept(nd, e, call[u].w)
  <2> SUFFICES ASSUME call[u].w # NoNode PROVE WriterKept(nd, e, call[u].w)
    BY DEF WriterKept
  <2>1. call[u].w \in Ids /\ call[u].l /\ nd[call[u].w].nlookup > 0
    BY <1>1 DEF Locks, CallType
  <2>2. u \in W1(call, call[u].w)
    BY <2>1 DEF W1
  <2> QED BY <1>3, <2>1, <2>2
<1>5. WriterKept(nd, e, call[u].w2)
  <2> SUFFICES ASSUME call[u].w2 # NoNode PROVE WriterKept(nd, e, call[u].w2)
    BY DEF WriterKept
  <2>1. call[u].w2 \in Ids /\ call[u].l2 /\ nd[call[u].w2].nlookup > 0
    BY <1>1 DEF Locks, CallType
  <2>2. u \in W2(call, call[u].w2)
    BY <2>1 DEF W2
  <2> QED BY <1>3, <2>1, <2>2
<1>6. DirsKept(nd, e, call[u])
  <2> SUFFICES ASSUME NEW c \in Ids, e[c].parent \in call[u].mx, ~SamePlace(nd, e, c) PROVE FALSE
    BY DEF DirsKept
  <2>1. e[c].parent \in {NoNode} \cup call[t].mx
    BY DEF TableStep
  <2>2. call[u].mx \subseteq Nodes
    BY <1>1 DEF CallType
  <2>3. e[c].parent # NoNode
    BY <2>2, IdsPlaces DEF Nodes
  <2>4. call[t].mx \cap call[u].mx = {}
    BY DEF Inv, KernelInv
  <2> QED BY <2>1, <2>3, <2>4
<1>7. DoomKept(nd, e, call[u])
  <2> SUFFICES ASSUME call[u].at = "wait"
               PROVE  /\ ~Named(nd, call[u].n) => ~Named(e, call[u].n)
                      /\ Two(call[u]) /\ ~Named(nd, call[u].n2) => ~Named(e, call[u].n2)
    BY DEF DoomKept
  <2>1. Lockable(nd, call[u])
    BY WaitLockable
  <2>2. ASSUME NEW n \in Nodes, Alive(nd, n), ~Named(nd, n) PROVE ~Named(e, n)
    <3>1. n \notin F
      <4> SUFFICES ASSUME n \in F PROVE FALSE
        OBVIOUS
      <4>1. n \in Ids /\ nd[n].refctr = 0
        BY DEF TableStep
      <4>2. nd[n].nlookup = 0
        BY <1>1, <4>1, FreeNoChild
      <4> QED BY <2>2, <4>1, <4>2, IdsPlaces DEF Alive
    <3>2. \A c \in Ids : nd[c].parent \notin F
      BY <1>1, FreeNoChild DEF TableStep
    <3>3. \A c \in Ids \ F : ~SamePlace(nd, e, c) => e[c].name = NoName \/ Named(nd, c)
      BY DEF TableStep
    <3>4. n \in Places
      BY IdsPlaces
    <3> QED BY <1>1, <2>2, <3>1, <3>2, <3>3, <3>4, DoomedStays
  <2>3. call[u].n \in Nodes /\ Alive(nd, call[u].n)
        /\ (Two(call[u]) => call[u].n2 \in Nodes /\ Alive(nd, call[u].n2))
    BY <2>1 DEF Lockable, Asked
  <2> QED BY <2>2, <2>3
<1> QED BY <1>2, <1>4, <1>5, <1>6, <1>7 DEF Keeps

---------------------------------------------------------------------------
(* A step of a thread that leaves its locks alone *)

HostType == [Dirs \X AllNames -> Files \cup {NoFile}]

SameLocks(q, r) ==
  /\ q.l <=> r.l
  /\ q.l2 <=> r.l2
  /\ r.l => q.n = r.n /\ q.w = r.w
  /\ r.l2 => q.n2 = r.n2 /\ q.w2 = r.w2

LEMMA TypeSplit ==
  TypeOK <=> /\ nd \in [Nodes -> NodeType] /\ treelock \in [Ids -> Int] /\ lockq \in Seq(Threads)
             /\ call \in [Threads -> CallType] /\ host \in HostType
             /\ knows \in [Ids -> Nat] /\ kopen \in [Ids -> Nat] /\ left \subseteq HiddenNames
BY DEF TypeOK, NodeType, HostType

LEMMA TypeSplitNext ==
  TypeOK' <=> /\ nd' \in [Nodes -> NodeType] /\ treelock' \in [Ids -> Int] /\ lockq' \in Seq(Threads)
              /\ call' \in [Threads -> CallType] /\ host' \in HostType
              /\ knows' \in [Ids -> Nat] /\ kopen' \in [Ids -> Nat] /\ left' \subseteq HiddenNames
BY DEF TypeOK, NodeType, HostType

LEMMA StepInv ==
  ASSUME Inv, NEW t \in Threads, NEW q \in CallType, call' = [call EXCEPT ![t] = q],
         NEW F, TableStep(t, nd', F), treelock' = treelock,
         lockq' \in Seq(Threads), QueueInv(lockq', call'), host' \in HostType,
         left' \subseteq HiddenNames, knows' \in [Ids -> Nat], kopen' \in [Ids -> Nat],
         KernelInv(call', knows', kopen'), SameLocks(q, call[t]), Shape(q), Locks(nd', q),
         ~(Wr(q) /\ q.at = "wait"),
         \A n \in Ids : Balanced(nd, nd', call, call', t, knows, kopen, knows', kopen', n)
  PROVE  Inv'
<1>1. /\ TreeInv(nd) /\ TreeInv(nd') /\ call \in [Threads -> CallType]
      /\ treelock \in [Ids -> Int] /\ knows \in [Ids -> Nat] /\ kopen \in [Ids -> Nat]
      /\ nd \in [Nodes -> NodeType] /\ nd' \in [Nodes -> NodeType]
      /\ Calls(nd, call) /\ LockOk(nd, treelock, call) /\ Counts(nd, call, knows, kopen)
      /\ Targets(nd, call)
  BY TypeSplit DEF Inv, TableStep, TreeInv
<1>2. call' \in [Threads -> CallType] /\ call'[t] = q /\ \A u \in Threads \ {t} : call'[u] = call[u]
  BY <1>1
<1>3. TypeOK'
  BY <1>1, <1>2, TypeSplitNext
<1>4. ASSUME NEW u \in Threads \ {t} PROVE LockStays(nd, nd', call[u]) /\ Keeps(nd, nd', call[u])
  <2>1. Keeps(nd, nd', call[u])
    BY OthersKept
  <2>2. call[u] \in CallType /\ Shape(call[u]) /\ Locks(nd, call[u])
    BY <1>1 DEF Calls
  <2> QED BY <2>1, <2>2, <1>1, LocksKept
<1>5. Calls(nd', call')
  <2> SUFFICES ASSUME NEW u \in Threads PROVE Shape(call'[u]) /\ Locks(nd', call'[u])
    BY DEF Calls
  <2>1. CASE u = t
    BY <2>1, <1>2
  <2>2. CASE u # t
    <3>1. call'[u] = call[u] /\ Shape(call[u]) /\ LockStays(nd, nd', call[u])
      BY <2>2, <1>1, <1>2, <1>4 DEF Calls
    <3> QED BY <3>1 DEF LockStays
  <2> QED BY <2>1, <2>2
<1>6. LockOk(nd', treelock', call')
  <2>1. ASSUME NEW u \in Threads
        PROVE  /\ call[u].l <=> call'[u].l
               /\ call[u].l2 <=> call'[u].l2
               /\ call[u].l => call'[u].w = call[u].w /\ Chain(nd', call'[u].n) = Chain(nd, call[u].n)
               /\ call[u].l2 => call'[u].w2 = call[u].w2
                                /\ Chain(nd', call'[u].n2) = Chain(nd, call[u].n2)
    <3>1. CASE u = t
      <4>1. /\ call[t].l => PathKept(nd, nd', call[t].n)
            /\ call[t].l2 => PathKept(nd, nd', call[t].n2)
        BY PathsKept
      <4>2. /\ call[t].l => call[t].n \in Nodes
            /\ call[t].l2 => call[t].n2 \in Nodes
        <5>1. Shape(call[t]) /\ Locks(nd, call[t])
          BY <1>1 DEF Calls
        <5> QED BY <5>1, NoCallIs DEF Shape, Asked, Locks
      <4>3. /\ call[t].l => Chain(nd', call[t].n) = Chain(nd, call[t].n)
            /\ call[t].l2 => Chain(nd', call[t].n2) = Chain(nd, call[t].n2)
        BY <4>1, <4>2, <1>1, PathKeptIs
      <4> QED BY <3>1, <4>3, <1>2 DEF SameLocks
    <3>2. CASE u # t
      <4>1. call'[u] = call[u]
        BY <3>2, <1>2
      <4>2. LockStays(nd, nd', call[u])
        BY <3>2, <1>4
      <4> QED BY <4>1, <4>2 DEF LockStays
    <3> QED BY <3>1, <3>2
  <2>2. PICK e, c2 : e = nd' /\ c2 = call'
    OBVIOUS
  <2>3. ASSUME NEW u \in Threads
        PROVE  /\ call[u].l <=> c2[u].l
               /\ call[u].l2 <=> c2[u].l2
               /\ call[u].l => c2[u].w = call[u].w /\ Chain(e, c2[u].n) = Chain(nd, call[u].n)
               /\ call[u].l2 => c2[u].w2 = call[u].w2 /\ Chain(e, c2[u].n2) = Chain(nd, call[u].n2)
    BY <2>1, <2>2
  <2>4. LockOk(nd, treelock, call)
    BY <1>1
  <2>5. LockOk(e, treelock, c2)
    BY <2>3, <2>4, LockFrame
  <2> QED BY <2>2, <2>5
<1>7. Counts(nd', call', knows', kopen')
  BY <1>1, <1>2, CountsStep
<1>8. Targets(nd', call')
  <2> SUFFICES ASSUME NEW u \in Threads, Wr(call'[u]), call'[u].at = "wait", NEW c \in Ids,
                      Target(nd', call'[u], c)
               PROVE  c \in call'[u].kref
    BY DEF Targets
  <2>1. u # t
    BY <1>2
  <2>2. call'[u] = call[u] /\ Shape(call[u]) /\ DirsKept(nd, nd', call[u])
    BY <2>1, <1>1, <1>2, <1>4 DEF Calls, Keeps
  <2>3. Asked(call[u])
    BY <2>2, NoCallIs DEF Shape
  <2>4. call[u].n \in call[u].mx /\ (Two(call[u]) => call[u].n2 \in call[u].mx)
    BY <2>2, <2>3 DEF Asked, InDir, Wr
  <2>5. nd'[c].parent \in call[u].mx
    BY <2>2, <2>4 DEF Target
  <2>6. SamePlace(nd, nd', c)
    BY <2>2, <2>5 DEF DirsKept
  <2>7. Target(nd, call[u], c)
    BY <2>2, <2>6 DEF Target, SamePlace
  <2> QED BY <2>2, <2>7, <1>1 DEF Targets
<1> QED BY <1>1, <1>3, <1>5, <1>6, <1>7, <1>8 DEF Inv

LEMMA SameTable == Inv => \A t \in Threads : TableStep(t, nd, {})
BY DEF Inv, TableStep, SamePlace

---------------------------------------------------------------------------
(* A step that only moves a request on *)

Onward(q, r) ==
  /\ q \in CallType /\ q.op = r.op /\ q.n = r.n /\ q.m = r.m /\ q.n2 = r.n2
  /\ q.m2 = r.m2 /\ q.fl = r.fl /\ q.w = r.w /\ q.w2 = r.w2 /\ q.l = r.l /\ q.l2 = r.l2
  /\ q.p = r.p /\ q.p2 = r.p2 /\ q.done = r.done /\ q.err = r.err /\ q.ino = r.ino
  /\ q.k = r.k /\ q.mx = r.mx /\ q.kref = r.kref

\* From one step to another, none of them in the queue.
Onto(q, r) ==
  /\ r.at \notin {"idle", "wait", "fwait", "free"} /\ q.at \in Steps[r.op]
  /\ q.at \notin {"wait", "fwait"}
  /\ r.at \in {"rel", "hidunlink"} => q.at \in {"hidunlink", "free"}
  /\ q.at \in {"hidefs", "hidenode"} => q.hid \in HiddenNames /\ q.fl # "exchange"
  /\ q.at = "hidunlink" => q.l

LEMMA OnwardShape ==
  ASSUME NEW r, NEW q, Shape(r), Onward(q, r), Onto(q, r)
  PROVE  Shape(q) /\ Asked(q) /\ Phase(q) /\ ~Waits(q) /\ ~Waits(r)
<1>1. Asked(r) /\ Phase(r)
  BY NoCallIs DEF Shape, Onto
<1>2. (Two(r) <=> Two(q)) /\ Asked(q)
  BY <1>1 DEF Two, Onward, Asked
<1>3. Phase(q)
  BY <1>1, <1>2 DEF Phase, Onward, Onto, Ready
<1> QED BY <1>2, <1>3 DEF Shape, Waits, Onto

LEMMA OnwardLocks ==
  ASSUME NEW d, NEW r, NEW q, Locks(d, r), Onward(q, r), r.at # "free",
         q.at # "wait",
         q.at \in {"hidefs", "hidenode"} =>
           \A c \in Ids : ~(d[c].parent = Victim(q).dir /\ d[c].name = q.hid),
         q.at = "hidunlink" => d[q.n].name \in HiddenNames
  PROVE  Locks(d, q)
<1>1. (Two(r) <=> Two(q)) /\ (Wr(r) <=> Wr(q))
  BY DEF Two, Wr, Onward
<1> QED BY <1>1 DEF Locks, Onward

LEMMA KernelSame ==
  ASSUME NEW cl \in [Threads -> CallType], NEW kn, NEW ko, KernelInv(cl, kn, ko),
         NEW t \in Threads, NEW q,
         q.mx \subseteq cl[t].mx, q.kref \subseteq cl[t].kref
  PROVE  KernelInv([cl EXCEPT ![t] = q], kn, ko)
<1>1. PICK c2 : c2 = [cl EXCEPT ![t] = q]
  OBVIOUS
<1>2. c2[t] = q /\ \A u \in Threads \ {t} : c2[u] = cl[u]
  BY <1>1
<1>3. \A u \in Threads : c2[u].mx \subseteq cl[u].mx /\ c2[u].kref \subseteq cl[u].kref
  BY <1>2
<1>4. KernelInv(c2, kn, ko)
  BY <1>3 DEF KernelInv
<1> QED BY <1>1, <1>4

LEMMA QueueSame ==
  ASSUME NEW cl \in [Threads -> CallType], NEW lq, QueueInv(lq, cl), NEW t \in Threads, NEW q,
         Waits(q) <=> Waits(cl[t])
  PROVE  QueueInv(lq, [cl EXCEPT ![t] = q])
<1>1. PICK c2 : c2 = [cl EXCEPT ![t] = q]
  OBVIOUS
<1>2. c2[t] = q /\ \A u \in Threads \ {t} : c2[u] = cl[u]
  BY <1>1
<1>3. \A u \in Threads : Waits(c2[u]) <=> Waits(cl[u])
  BY <1>2
<1>4. QueueInv(lq, c2)
  BY <1>3 DEF QueueInv
<1> QED BY <1>1, <1>4

LEMMA OnwardBalanced ==
  ASSUME Inv, NEW t \in Threads, NEW q \in CallType, Onward(q, call[t]),
         OpenAt(q) <=> OpenAt(call[t]), NEW n \in Ids, NEW c2, c2 = [call EXCEPT ![t] = q],
         NEW e \in [Nodes -> NodeType], e[n].nlookup = nd[n].nlookup, e[n].open_count = nd[n].open_count
  PROVE  Balanced(nd, e, call, c2, t, knows, kopen, knows, kopen, n)
<1>1. call[t] \in CallType /\ c2[t] = q
  BY TypeSplit DEF Inv
<1>2. /\ Forgets(q, n) = Forgets(call[t], n) /\ Opened(q, n) = Opened(call[t], n)
      /\ q.ino = call[t].ino
  BY DEF Forgets, Opened, Onward
<1> QED BY <1>1, <1>2 DEF Balanced

\* Such a step keeps the invariant.
LEMMA OnwardInv ==
  ASSUME Inv, NEW t \in Threads, NEW q, Onward(q, call[t]), Onto(q, call[t]),
         OpenAt(q) <=> OpenAt(call[t]),
         q.at \in {"hidefs", "hidenode"} =>
           \A c \in Ids : ~(nd[c].parent = Victim(q).dir /\ nd[c].name = q.hid),
         q.at = "hidunlink" => nd[q.n].name \in HiddenNames,
         call' = [call EXCEPT ![t] = q], host' \in HostType, left' \subseteq HiddenNames,
         nd' = nd, treelock' = treelock, lockq' = lockq, knows' = knows, kopen' = kopen
  PROVE  Inv'
<1>1. /\ call \in [Threads -> CallType] /\ Shape(call[t]) /\ Locks(nd, call[t]) /\ q \in CallType
      /\ nd \in [Nodes -> NodeType] /\ lockq \in Seq(Threads) /\ knows \in [Ids -> Nat]
      /\ kopen \in [Ids -> Nat] /\ QueueInv(lockq, call) /\ KernelInv(call, knows, kopen)
  BY TypeSplit DEF Inv, Calls, Onward
<1>2. Shape(q) /\ Phase(q) /\ ~Waits(q) /\ ~Waits(call[t])
  BY <1>1, OnwardShape
<1>3. Locks(nd, q)
  BY <1>1, OnwardLocks DEF Onto
<1>4. QueueInv(lockq', call')
  BY <1>1, <1>2, QueueSame
<1>5. KernelInv(call', knows', kopen')
  <2>1. q.mx \subseteq call[t].mx /\ q.kref \subseteq call[t].kref
    BY DEF Onward
  <2> QED BY <1>1, <2>1, KernelSame
<1>6. SameLocks(q, call[t])
  BY DEF Onward, SameLocks
<1>7. ~(Wr(q) /\ q.at = "wait")
  BY DEF Onto
<1>8. ASSUME NEW n \in Ids
      PROVE  Balanced(nd, nd', call, call', t, knows, kopen, knows', kopen', n)
  BY <1>1, OnwardBalanced
<1>9. TableStep(t, nd', {})
  BY SameTable
<1> QED BY <1>1, <1>2, <1>3, <1>4, <1>5, <1>6, <1>7, <1>8, <1>9, StepInv

---------------------------------------------------------------------------
(* The host's files, by path *)

Down(f, m) == IF f \in Dirs THEN host[f, m] ELSE NoFile

IsResolve(f, p, n) == f = [i \in 0 .. n |-> IF i = 0 THEN RootFile ELSE Down(f[i - 1], p[i])]

LEMMA DownType ==
  ASSUME host \in HostType, NEW f, NEW m \in AllNames
  PROVE  Down(f, m) \in Files \cup {NoFile}
<1>1. CASE f \in Dirs
  <2>1. <<f, m>> \in Dirs \X AllNames
    BY <1>1
  <2>2. host[<<f, m>>] \in Files \cup {NoFile}
    BY <2>1 DEF HostType
  <2>3. Down(f, m) = host[<<f, m>>]
    BY <1>1 DEF Down
  <2> QED BY <2>2, <2>3
<1>2. CASE f \notin Dirs
  BY <1>2 DEF Down
<1> QED BY <1>1, <1>2

LEMMA ResolveAt ==
  ASSUME NEW f, NEW p, NEW n \in Nat, IsResolve(f, p, n)
  PROVE  /\ f[0] = RootFile
         /\ \A i \in 1 .. n : f[i] = Down(f[i - 1], p[i])
<1>1. 0 \in 0 .. n /\ \A i \in 1 .. n : i \in 0 .. n /\ i # 0
  OBVIOUS
<1>2. \A i \in 0 .. n : f[i] = IF i = 0 THEN RootFile
                               ELSE Down(f[i - 1], p[i])
  BY Zenon DEF IsResolve
<1> QED BY <1>1, <1>2

LEMMA ResolveExists == ASSUME NEW p PROVE \A n \in Nat : \E f : IsResolve(f, p, n)
<1> DEFINE T == {n \in Nat : \E f : IsResolve(f, p, n)}
<1>1. 0 \in T
  <2> DEFINE f == [i \in 0 .. 0 |-> RootFile]
  <2>1. f = [i \in 0 .. 0 |-> IF i = 0 THEN RootFile
                              ELSE Down(f[i - 1], p[i])]
    OBVIOUS
  <2> HIDE DEF f
  <2> QED BY <2>1 DEF IsResolve
<1>2. ASSUME NEW n \in Nat, n \in T PROVE n + 1 \in T
  <2>1. PICK f : IsResolve(f, p, n)
    BY <1>2
  <2> DEFINE next == Down(f[n], p[n + 1])
             v == [i \in 0 .. n + 1 |-> IF i <= n THEN f[i] ELSE next]
  <2>2. v[0] = RootFile
    BY <2>1, ResolveAt
  <2>3. ASSUME NEW i \in 1 .. n + 1
        PROVE  v[i] = Down(v[i - 1], p[i])
    <3>1. CASE i <= n
      <4>1. i \in 1 .. n
        BY <3>1
      <4>2. f[i] = Down(f[i - 1], p[i])
        BY <2>1, <4>1, ResolveAt
      <4>3. v[i] = f[i] /\ v[i - 1] = f[i - 1]
        BY <3>1
      <4> HIDE DEF v
      <4> QED BY <4>2, <4>3
    <3>2. CASE i = n + 1
      <4>1. v[i] = next /\ v[i - 1] = f[n]
        BY <3>2
      <4> HIDE DEF v
      <4> QED BY <3>2, <4>1
    <3> QED BY <3>1, <3>2
  <2>4. v = [i \in 0 .. n + 1 |-> v[i]]
    OBVIOUS
  <2> HIDE DEF v, next
  <2>5. \A i \in 0 .. n + 1 :
          v[i] = IF i = 0 THEN RootFile
                 ELSE Down(v[i - 1], p[i])
    BY <2>2, <2>3
  <2>6. IsResolve(v, p, n + 1)
    BY <2>4, <2>5 DEF IsResolve
  <2> QED BY <2>6
<1> HIDE DEF T
<1>3. Nat \subseteq T
  BY <1>1, <1>2, NatInd
<1> QED BY <1>3 DEF T

LEMMA ResolveFrom ==
  ASSUME NEW p, NEW S, p \in Seq(S)
  PROVE  \E f : IsResolve(f, p, Len(p)) /\ Resolve(p) = f[Len(p)]
<1> DEFINE N == Len(p)
           f == CHOOSE at : at = [i \in 0 .. N |->
                  IF i = 0 THEN RootFile
                  ELSE Down(at[i - 1], p[i])]
<1>1. N \in Nat
  OBVIOUS
<1>2. Resolve(p) = f[N]
  BY Zenon DEF Resolve, Down
<1>3. IsResolve(f, p, N)
  <2>1. PICK at : IsResolve(at, p, N)
    BY <1>1, ResolveExists
  <2>2. at = [i \in 0 .. N |-> IF i = 0 THEN RootFile
                ELSE Down(at[i - 1], p[i])]
    BY <2>1 DEF IsResolve
  <2>3. f = [i \in 0 .. N |-> IF i = 0 THEN RootFile
                ELSE Down(f[i - 1], p[i])]
    BY <2>2, Zenon
  <2> QED BY <2>3, Zenon DEF IsResolve
<1> HIDE DEF f
<1> QED BY <1>2, <1>3

\* What a path leads to: a file or nothing.
LEMMA ResolveType ==
  ASSUME host \in HostType, NEW p \in Seq(AllNames)
  PROVE  Resolve(p) \in Files \cup {NoFile}
<1>1. PICK f : IsResolve(f, p, Len(p)) /\ Resolve(p) = f[Len(p)]
  BY ResolveFrom
<1>2. CASE Len(p) = 0
  BY <1>1, <1>2, ResolveAt, FilesAssumption
<1>3. CASE Len(p) # 0
  <2>1. Len(p) \in 1 .. Len(p) /\ p[Len(p)] \in AllNames
    BY <1>3
  <2>2. Resolve(p) = Down(f[Len(p) - 1], p[Len(p)])
    BY <1>1, <2>1, ResolveAt
  <2> QED BY <2>1, <2>2, DownType
<1> QED BY <1>2, <1>3

LEMMA ResolveIs ==
  /\ Resolve(<<>>) = RootFile
  /\ \A p \in Seq(AllNames), m \in AllNames :
       Resolve(Append(p, m)) = Down(Resolve(p), m)
<1>1. Resolve(<<>>) = RootFile
  <2>1. <<>> \in Seq(AllNames) /\ Len(<<>>) = 0
    OBVIOUS
  <2>2. PICK f : IsResolve(f, <<>>, 0) /\ Resolve(<<>>) = f[0]
    BY <2>1, ResolveFrom
  <2> QED BY <2>2, ResolveAt
<1>2. ASSUME NEW p \in Seq(AllNames), NEW m \in AllNames
      PROVE  Resolve(Append(p, m)) = Down(Resolve(p), m)
  <2>1. PICK q : q = Append(p, m)
    OBVIOUS
  <2>2. PICK N \in Nat : N = Len(p)
    OBVIOUS
  <2>3. q \in Seq(AllNames) /\ Len(q) = N + 1 /\ q[N + 1] = m /\ \A i \in 1 .. N : q[i] = p[i]
    BY <2>1, <2>2
  <2>4. PICK f : IsResolve(f, p, N) /\ Resolve(p) = f[N]
    BY <2>2, ResolveFrom
  <2>5. PICK g : IsResolve(g, q, N + 1) /\ Resolve(q) = g[N + 1]
    BY <2>3, ResolveFrom
  <2> DEFINE T == {n \in Nat : n <= N => f[n] = g[n]}
  <2>6. 0 \in T
    BY <2>4, <2>5, ResolveAt
  <2>7. ASSUME NEW n \in Nat, n \in T PROVE n + 1 \in T
    <3> SUFFICES ASSUME n + 1 <= N PROVE f[n + 1] = g[n + 1]
      OBVIOUS
    <3>1. n + 1 \in 1 .. N /\ n + 1 \in 1 .. N + 1 /\ (n + 1) - 1 = n
      OBVIOUS
    <3>2. f[n + 1] = Down(f[n], p[n + 1])
      BY <2>4, <3>1, ResolveAt
    <3>3. g[n + 1] = Down(g[n], q[n + 1])
      BY <2>5, <3>1, ResolveAt
    <3>4. f[n] = g[n] /\ q[n + 1] = p[n + 1]
      BY <2>7, <2>3, <3>1
    <3> QED BY <3>2, <3>3, <3>4
  <2> HIDE DEF T
  <2>8. N \in T
    BY <2>6, <2>7, NatInd
  <2>9. f[N] = g[N]
    BY <2>8 DEF T
  <2>10. N + 1 \in 1 .. N + 1 /\ (N + 1) - 1 = N
    OBVIOUS
  <2>11. g[N + 1] = Down(g[N], q[N + 1])
    BY <2>5, <2>10, ResolveAt
  <2> QED BY <2>1, <2>3, <2>4, <2>5, <2>9, <2>11
<1> QED BY <1>1, <1>2

---------------------------------------------------------------------------
(* The handlers *)

\* A request at one of its steps.
LEMMA AtStep ==
  ASSUME Inv, NEW t \in Threads, call[t].at # "idle"
  PROVE  /\ call[t] \in CallType /\ Asked(call[t]) /\ Phase(call[t]) /\ Locks(nd, call[t])
         /\ TreeInv(nd) /\ host \in HostType /\ left \subseteq HiddenNames
BY NoCallIs, TypeSplit DEF Inv, Calls, Shape

\* The request moves on to step a, with f and hid as they may be.
Went(t, a, f, hid, q) ==
  /\ Onward(q, call[t]) /\ q.at = a /\ q.hid = hid /\ call' = [call EXCEPT ![t] = q]

Edited(r, a, f, hid, q) == q = [r EXCEPT !.at = a, !.f = f, !.hid = hid]

GoesTo(r, a, hid, q) == Onward(q, r) /\ q.at = a /\ q.hid = hid

LEMMA StepIs ==
  ASSUME NEW r \in CallType, NEW a \in StepNames, NEW f \in Files \cup {NoFile},
         NEW hid \in HiddenNames \cup {NoName},
         NEW q, Edited(r, a, f, hid, q)
  PROVE  GoesTo(r, a, hid, q)
<1> USE DEF Edited
<1>1. q \in CallType
  BY DEF CallType
<1>2. /\ q.at = a /\ q.op = r.op /\ q.n = r.n /\ q.m = r.m /\ q.n2 = r.n2
      /\ q.m2 = r.m2 /\ q.fl = r.fl /\ q.w = r.w /\ q.w2 = r.w2 /\ q.l = r.l /\ q.l2 = r.l2
      /\ q.p = r.p /\ q.p2 = r.p2 /\ q.done = r.done /\ q.err = r.err /\ q.ino = r.ino
      /\ q.hid = hid /\ q.k = r.k /\ q.mx = r.mx /\ q.kref = r.kref
  BY DEF CallType
<1> QED BY <1>1, <1>2 DEF Onward, GoesTo

LEMMA GotoIs ==
  ASSUME NEW t \in Threads, call[t] \in CallType, NEW a \in StepNames, Goto(t, a)
  PROVE  \E q : Went(t, a, call[t].f, call[t].hid, q)
<1>1. PICK q : q = [call[t] EXCEPT !.at = a]
  OBVIOUS
<1>2. call' = [call EXCEPT ![t] = q]
  BY <1>1 DEF Goto
<1>3. Onward(q, call[t]) /\ q.at = a /\ q.hid = call[t].hid
  BY <1>1, AtIs DEF Onward
<1> QED BY <1>2, <1>3 DEF Went

\* Steps a handler goes from, and on to.
Busy == {"fs", "stat", "find", "hidefs", "hidenode", "rm", "table", "count"}
Onwards == {"stat", "find", "rm", "table", "count", "free"}

LEMMA WentInv ==
  ASSUME Inv, NEW t \in Threads, call[t].at \in Busy, NEW a, NEW f, NEW hid, NEW q,
         Went(t, a, f, hid, q), a \in Steps[call[t].op],
         \/ a \in Onwards
         \/ a = "hidenode" /\ call[t].at = "hidefs" /\ hid = call[t].hid
         \/ /\ a = "hidefs" /\ hid \in HiddenNames /\ call[t].fl # "exchange"
            /\ \A c \in Ids : ~(nd[c].parent = Victim(call[t]).dir /\ nd[c].name = hid),
         host' \in HostType, UNCHANGED <<table, kernel, left>>
  PROVE  Inv'
<1>1. /\ call[t] \in CallType /\ Asked(call[t]) /\ Phase(call[t]) /\ Locks(nd, call[t])
      /\ left \subseteq HiddenNames
  BY AtStep DEF Busy
<1>2. Onward(q, call[t]) /\ q.at = a /\ q.hid = hid /\ call' = [call EXCEPT ![t] = q]
  BY DEF Went
<1>3. Victim(q) = Victim(call[t]) /\ q.fl = call[t].fl /\ q.op = call[t].op
  BY <1>2 DEF Victim, Onward
<1>4. Onto(q, call[t])
  BY <1>1, <1>2, <1>3 DEF Onto, Busy, Onwards, Phase
<1>5. ~OpenAt(q) /\ ~OpenAt(call[t])
  BY <1>2 DEF OpenAt, Busy, Onwards
<1>6. q.at \in {"hidefs", "hidenode"} =>
        \A c \in Ids : ~(nd[c].parent = Victim(q).dir /\ nd[c].name = q.hid)
  BY <1>1, <1>2, <1>3 DEF Locks, Onwards
<1>7. q.at # "hidunlink"
  BY <1>2 DEF Onwards
<1>8. /\ nd' = nd /\ treelock' = treelock /\ lockq' = lockq /\ knows' = knows /\ kopen' = kopen
      /\ left' \subseteq HiddenNames
  BY <1>1 DEF table, kernel
<1> QED BY <1>2, <1>4, <1>5, <1>6, <1>7, <1>8, OnwardInv

LEMMA PutType ==
  ASSUME host \in HostType, NEW p, NEW f \in Files \cup {NoFile}, Put(p, f)
  PROVE  host' \in HostType
BY DEF Put, HostType

LEMMA StepsAre ==
  /\ {"stat", "find", "free"} \subseteq Steps["mknod"]
  /\ {"stat", "find", "free"} \subseteq Steps["link"]
  /\ {"stat", "find", "free"} \subseteq Steps["lookup"]
  /\ {"hidefs", "hidenode", "rm", "table", "free"} \subseteq Steps["unlink"]
  /\ {"hidefs", "hidenode", "rm", "table", "free"} \subseteq Steps["rename"]
  /\ {"table", "free"} \subseteq Steps["rmdir"]
  /\ {"count", "reply", "rel", "hidunlink", "free"} \subseteq Steps["open"]
  /\ {"rel", "hidunlink", "free"} \subseteq Steps["release"]
BY DEF Steps

LEMMA GotoInv ==
  ASSUME Inv, NEW t \in Threads, call[t].at \in Busy, NEW a \in Onwards,
         a \in Steps[call[t].op], Goto(t, a), host' \in HostType,
         UNCHANGED <<table, kernel, left>>
  PROVE  Inv'
<1>1. call[t] \in CallType
  BY AtStep DEF Busy
<1>2. a \in StepNames
  BY DEF Onwards, StepNames
<1>3. PICK q : Went(t, a, call[t].f, call[t].hid, q)
  BY <1>1, <1>2, GotoIs
<1> QED BY <1>3, WentInv

LEMMA lookup_pathInv == ASSUME Inv, NEW t \in Threads, lookup_path(t) PROVE Inv'
<1>1. /\ call[t].op \in Finding /\ call[t].at = "stat"
      /\ UNCHANGED <<table, host, kernel, left>>
      /\ call' = [call EXCEPT ![t].at = "find", ![t].f = Resolve(FoundPath(call[t]))]
  BY DEF lookup_path, At
<1>2. /\ call[t] \in CallType /\ host \in HostType
  BY <1>1, AtStep
<1>3. FoundPath(call[t]) \in Seq(AllNames)
  BY <1>2 DEF FoundPath, CallType
<1>4. PICK f \in Files \cup {NoFile} : f = Resolve(FoundPath(call[t]))
  BY <1>2, <1>3, ResolveType
<1>5. PICK q : q = [call[t] EXCEPT !.at = "find", !.f = f]
  OBVIOUS
<1>6. call' = [call EXCEPT ![t] = q]
  BY <1>1, <1>4, <1>5
<1>7. Edited(call[t], "find", f, call[t].hid, q)
  BY <1>2, <1>5 DEF CallType, Edited
<1>8. Went(t, "find", f, call[t].hid, q)
  <2>1. /\ call[t].hid \in HiddenNames \cup {NoName} /\ "find" \in StepNames
        /\ f \in Files \cup {NoFile} /\ call[t] \in CallType
    BY <1>2, <1>4 DEF CallType, StepNames
  <2>2. Onward(q, call[t]) /\ q.at = "find" /\ q.hid = call[t].hid
    BY <2>1, <1>7, StepIs DEF GoesTo
  <2> QED BY <2>2, <1>6 DEF Went
<1>9. /\ "find" \in Steps[call[t].op] /\ "find" \in Onwards /\ call[t].at \in Busy
      /\ host' \in HostType /\ UNCHANGED <<table, kernel, left>>
  BY <1>1, <1>2, StepsAre DEF Finding, Onwards, Busy
<1> QED BY <1>8, <1>9, WentInv

LEMMA fs_createInv == ASSUME Inv, NEW t \in Threads, fs_create(t) PROVE Inv'
<1>1. /\ call[t].op = "mknod" /\ call[t].at = "fs" /\ Goto(t, "stat")
      /\ UNCHANGED <<table, kernel, left>>
      /\ \E f \in Unused : Put(call[t].p, f)
  BY DEF fs_create, At
<1>2. host \in HostType
  BY <1>1, AtStep
<1>3. host' \in HostType
  BY <1>1, <1>2, PutType DEF Unused
<1>4. "stat" \in Steps[call[t].op] /\ "stat" \in Onwards /\ call[t].at \in Busy
  BY <1>1, StepsAre DEF Onwards, Busy
<1> QED BY <1>1, <1>3, <1>4, GotoInv

LEMMA fs_linkInv == ASSUME Inv, NEW t \in Threads, fs_link(t) PROVE Inv'
<1>1. /\ call[t].op = "link" /\ call[t].at = "fs" /\ Goto(t, "stat")
      /\ UNCHANGED <<table, kernel, left>> /\ Put(call[t].p2, Resolve(call[t].p))
  BY DEF fs_link, At
<1>2. host \in HostType /\ call[t].p \in Seq(AllNames)
  BY <1>1, AtStep DEF CallType
<1>3. host' \in HostType
  BY <1>1, <1>2, PutType, ResolveType
<1>4. "stat" \in Steps[call[t].op] /\ "stat" \in Onwards /\ call[t].at \in Busy
  BY <1>1, StepsAre DEF Onwards, Busy
<1> QED BY <1>1, <1>3, <1>4, GotoInv

LEMMA fs_rmdirInv == ASSUME Inv, NEW t \in Threads, fs_rmdir(t) PROVE Inv'
<1>1. /\ call[t].op = "rmdir" /\ call[t].at = "fs" /\ Goto(t, "table")
      /\ UNCHANGED <<table, kernel, left>> /\ Put(call[t].p, NoFile)
  BY DEF fs_rmdir, At
<1>2. host' \in HostType
  BY <1>1, AtStep, PutType
<1>3. "table" \in Steps[call[t].op] /\ "table" \in Onwards /\ call[t].at \in Busy
  BY <1>1, StepsAre DEF Onwards, Busy
<1> QED BY <1>1, <1>2, <1>3, GotoInv

LEMMA fs_unlinkInv == ASSUME Inv, NEW t \in Threads, fs_unlink(t) PROVE Inv'
<1>1. /\ call[t].op = "unlink" /\ call[t].at = "rm" /\ Goto(t, "table")
      /\ UNCHANGED <<table, kernel, left>> /\ Put(call[t].p, NoFile)
  BY DEF fs_unlink, At
<1>2. host' \in HostType
  BY <1>1, AtStep, PutType
<1>3. "table" \in Steps[call[t].op] /\ "table" \in Onwards /\ call[t].at \in Busy
  BY <1>1, StepsAre DEF Onwards, Busy
<1> QED BY <1>1, <1>2, <1>3, GotoInv

LEMMA fs_openInv == ASSUME Inv, NEW t \in Threads, fs_open(t) PROVE Inv'
<1>1. /\ call[t].op = "open" /\ call[t].at = "fs" /\ Goto(t, "count")
      /\ UNCHANGED <<table, host, kernel, left>>
  BY DEF fs_open, At
<1>2. host' \in HostType /\ UNCHANGED <<table, kernel, left>>
  BY <1>1, AtStep
<1>3. "count" \in Steps[call[t].op] /\ "count" \in Onwards /\ call[t].at \in Busy
  BY <1>1, StepsAre DEF Onwards, Busy
<1> QED BY <1>1, <1>2, <1>3, GotoInv

Hiding(r, h, q) == q = [r EXCEPT !.at = "hidefs", !.hid = h]

LEMMA AddHid ==
  ASSUME NEW r \in CallType, NEW h \in HiddenNames, NEW q, Hiding(r, h, q)
  PROVE  Onward(q, r) /\ q.at = "hidefs" /\ q.hid = h
<1>1. Edited(r, "hidefs", r.f, h, q)
  BY DEF CallType, Edited, Hiding
<1>2. r.f \in Files \cup {NoFile} /\ "hidefs" \in StepNames /\ h \in HiddenNames \cup {NoName}
  BY DEF CallType, StepNames
<1> QED BY <1>1, <1>2, StepIs DEF GoesTo

LEMMA unlink_or_hideInv == ASSUME Inv, NEW t \in Threads, unlink_or_hide(t) PROVE Inv'
<1> DEFINE H == hidden_name(Victim(call[t]).dir)
<1>1. /\ call[t].op \in {"unlink", "rename"} /\ call[t].at = "fs"
      /\ UNCHANGED <<table, host, kernel, left>>
  BY DEF unlink_or_hide, At
<1>2. \/ /\ call[t].fl # "exchange" /\ H # {}
         /\ call' = [call EXCEPT ![t].at = "hidefs", ![t].hid = CHOOSE h \in H : TRUE]
      \/ \E a \in {"free", "rm"} : Goto(t, a)
  BY DEF unlink_or_hide
<1>3. /\ call[t] \in CallType /\ host' \in HostType /\ Asked(call[t]) /\ TreeInv(nd)
      /\ UNCHANGED <<table, kernel, left>>
  BY <1>1, AtStep
<1>4. {"free", "rm", "hidefs"} \subseteq Steps[call[t].op] /\ call[t].at \in Busy
  BY <1>1, StepsAre DEF Busy
<1>5. CASE \E a \in {"free", "rm"} : Goto(t, a)
  <2>1. PICK a \in {"free", "rm"} : Goto(t, a)
    BY <1>5
  <2>2. a \in Onwards /\ a \in Steps[call[t].op]
    BY <1>4, <2>1 DEF Onwards
  <2> QED BY <2>1, <2>2, <1>3, <1>4, GotoInv
<1>6. CASE /\ call[t].fl # "exchange" /\ H # {}
           /\ call' = [call EXCEPT ![t].at = "hidefs", ![t].hid = CHOOSE h \in H : TRUE]
  <2>1. PICK h : h = CHOOSE x \in H : TRUE
    OBVIOUS
  <2>2. h \in H
    BY <2>1, <1>6
  <2>3. Victim(call[t]).dir \in Nodes
    BY <1>1, <1>3 DEF Victim, Asked, Two
  <2>4. h \in HiddenNames /\ lookup_node(nd, Victim(call[t]).dir, h) = NoNode
    BY <2>2 DEF hidden_name
  <2>5. \A c \in Ids : ~(nd[c].parent = Victim(call[t]).dir /\ nd[c].name = h)
    BY <1>3, <2>3, <2>4, LookupIs, IdsPlaces DEF OnlyChild
  <2>6. PICK q : Hiding(call[t], h, q)
    BY DEF Hiding
  <2>7. call' = [call EXCEPT ![t] = q]
    BY <1>6, <2>1, <2>6 DEF Hiding
  <2>8. Went(t, "hidefs", call[t].f, h, q)
    BY <2>6, <2>7, <2>4, <1>3, AddHid DEF Went
  <2> QED BY <2>8, <2>4, <2>5, <1>3, <1>4, <1>6, WentInv
<1> QED BY <1>2, <1>5, <1>6

LEMMA fs_renameType ==
  ASSUME host \in HostType, NEW a \in Seq(AllNames), NEW b, fs_rename(a, b)
  PROVE  host' \in HostType
<1>1. PICK f \in Files \cup {NoFile} : f = Resolve(a)
  BY ResolveType
<1>2. \/ host' = host
      \/ host' = [host EXCEPT ![Entry(a)] = NoFile, ![Entry(b)] = f]
  BY <1>1 DEF fs_rename
<1> QED BY <1>1, <1>2 DEF HostType

LEMMA hide_node_fsInv == ASSUME Inv, NEW t \in Threads, hide_node_fs(t) PROVE Inv'
<1> DEFINE v == Victim(call[t])
<1>1. /\ call[t].op \in {"unlink", "rename"} /\ call[t].at = "hidefs" /\ Goto(t, "hidenode")
      /\ UNCHANGED <<table, kernel, left>>
      /\ fs_rename(v.path, HidPath(v.dir, call[t].hid))
  BY DEF hide_node_fs, At
<1>2. /\ call[t] \in CallType /\ host \in HostType
  BY <1>1, AtStep
<1>3. v.path \in Seq(AllNames)
  BY <1>2 DEF Victim, CallType
<1>4. host' \in HostType
  BY <1>1, <1>2, <1>3, fs_renameType
<1>5. "hidenode" \in StepNames /\ "hidenode" \in Steps[call[t].op] /\ call[t].at \in Busy
  BY <1>1, StepsAre DEF StepNames, Busy
<1>6. PICK q : Went(t, "hidenode", call[t].f, call[t].hid, q)
  BY <1>1, <1>2, <1>5, GotoIs
<1> QED BY <1>1, <1>4, <1>5, <1>6, WentInv

LEMMA fs_rename_requestInv == ASSUME Inv, NEW t \in Threads, fs_rename_request(t) PROVE Inv'
<1> DEFINE r == call[t]
<1>1. /\ r.op = "rename" /\ r.at = "rm" /\ Goto(t, "table") /\ UNCHANGED <<table, kernel, left>>
      /\ \/ fs_rename(r.p, r.p2)
         \/ host' = [host EXCEPT ![Entry(r.p)] = Resolve(r.p2), ![Entry(r.p2)] = Resolve(r.p)]
  BY DEF fs_rename_request, At
<1>2. host \in HostType /\ r.p \in Seq(AllNames) /\ r.p2 \in Seq(AllNames)
  BY <1>1, AtStep DEF CallType
<1>3. host' \in HostType
  <2>1. CASE fs_rename(r.p, r.p2)
    BY <2>1, <1>2, fs_renameType
  <2>2. CASE host' = [host EXCEPT ![Entry(r.p)] = Resolve(r.p2), ![Entry(r.p2)] = Resolve(r.p)]
    <3>1. PICK f \in Files \cup {NoFile} : f = Resolve(r.p)
      BY <1>2, ResolveType
    <3>2. PICK g \in Files \cup {NoFile} : g = Resolve(r.p2)
      BY <1>2, ResolveType
    <3>3. host' = [host EXCEPT ![Entry(r.p)] = g, ![Entry(r.p2)] = f]
      BY <2>2, <3>1, <3>2
    <3> QED BY <1>2, <3>1, <3>2, <3>3 DEF HostType
  <2> QED BY <1>1, <2>1, <2>2
<1>4. "table" \in Steps[r.op] /\ "table" \in Onwards /\ r.at \in Busy
  BY <1>1, StepsAre DEF Onwards, Busy
<1> QED BY <1>1, <1>3, <1>4, GotoInv

---------------------------------------------------------------------------
(* Open files *)

LeavesOpen(r, a, q) == q = [r EXCEPT !.at = a, !.kref = {}]

LEMMA LeavesIs ==
  ASSUME NEW r \in CallType, NEW a \in StepNames, NEW q, LeavesOpen(r, a, q)
  PROVE  /\ q \in CallType /\ q.at = a /\ q.op = r.op /\ q.n = r.n /\ q.m = r.m /\ q.n2 = r.n2
         /\ q.m2 = r.m2 /\ q.fl = r.fl /\ q.w = r.w /\ q.w2 = r.w2 /\ q.l = r.l /\ q.l2 = r.l2
         /\ q.p = r.p /\ q.p2 = r.p2 /\ q.done = r.done /\ q.err = r.err /\ q.ino = r.ino
         /\ q.f = r.f /\ q.hid = r.hid /\ q.k = r.k /\ q.mx = r.mx /\ q.kref = {}
<1>1. q \in CallType
  BY DEF CallType, LeavesOpen
<1>2. /\ q.at = a /\ q.op = r.op /\ q.n = r.n /\ q.m = r.m /\ q.n2 = r.n2
      /\ q.m2 = r.m2 /\ q.fl = r.fl /\ q.w = r.w /\ q.w2 = r.w2 /\ q.l = r.l /\ q.l2 = r.l2
      /\ q.p = r.p /\ q.p2 = r.p2 /\ q.done = r.done /\ q.err = r.err /\ q.ino = r.ino
      /\ q.f = r.f /\ q.hid = r.hid /\ q.k = r.k /\ q.mx = r.mx /\ q.kref = {}
  BY DEF CallType, LeavesOpen
<1> QED BY <1>1, <1>2

\* The kernel is told about the open file, or that there is none.
LEMMA AnswerOpenInv ==
  ASSUME Inv, NEW t \in Threads, call[t].op = "open", NEW a \in {"free", "rel"}, NEW q,
         LeavesOpen(call[t], a, q), call' = [call EXCEPT ![t] = q],
         UNCHANGED <<table, host, knows, left>>,
         \/ call[t].at = "fs" /\ a = "free" /\ kopen' = kopen
         \/ /\ call[t].at = "reply" /\ a = "free"
            /\ kopen' = [kopen EXCEPT ![call[t].n] = @ + 1]
         \/ call[t].at = "reply" /\ a = "rel" /\ kopen' = kopen
  PROVE  Inv'
<1> DEFINE r == call[t]
<1>1. /\ r \in CallType /\ Asked(r) /\ Phase(r) /\ Locks(nd, r) /\ r.at \in {"fs", "reply"}
      /\ TreeInv(nd) /\ host \in HostType /\ left \subseteq HiddenNames
  BY AtStep
<1>2. /\ call \in [Threads -> CallType] /\ lockq \in Seq(Threads) /\ knows \in [Ids -> Nat]
      /\ kopen \in [Ids -> Nat] /\ QueueInv(lockq, call) /\ KernelInv(call, knows, kopen)
      /\ nd \in [Nodes -> NodeType]
  BY TypeSplit DEF Inv
<1>3. a \in StepNames
  BY DEF StepNames
<1>4. /\ q \in CallType /\ q.at = a /\ q.op = r.op /\ q.n = r.n /\ q.m = r.m /\ q.n2 = r.n2
      /\ q.m2 = r.m2 /\ q.fl = r.fl /\ q.w = r.w /\ q.w2 = r.w2 /\ q.l = r.l /\ q.l2 = r.l2
      /\ q.p = r.p /\ q.p2 = r.p2 /\ q.done = r.done /\ q.err = r.err /\ q.ino = r.ino
      /\ q.hid = r.hid /\ q.k = r.k /\ q.mx = r.mx /\ q.kref = {}
  BY <1>1, <1>3, LeavesIs
<1>5. r.n \in Ids /\ ~Two(r) /\ ~Two(q) /\ ~Wr(r) /\ ~Wr(q) /\ ~Waits(r) /\ ~Waits(q)
  BY <1>1, <1>4 DEF Asked, InDir, Two, Wr, Waits
<1>6. r.n \in r.kref /\ r.l /\ r.ino = NoNode
  BY <1>1 DEF Phase, Ready, Finding
<1>7. Shape(q)
  <2>1. Asked(q)
    BY <1>1, <1>4, <1>5 DEF Asked, InDir
  <2>2. Phase(q)
    BY <1>4, <1>5, <1>6, StepsAre DEF Phase, Ready, Finding
  <2> QED BY <2>1, <2>2 DEF Shape
<1>8. Locks(nd, q)
  BY <1>1, <1>4, <1>5 DEF Locks
<1>9. SameLocks(q, r)
  BY <1>4 DEF SameLocks
<1>10. knows[r.n] > 0
  BY <1>2, <1>5, <1>6 DEF KernelInv
<1>11. kopen' \in [Ids -> Nat] /\ \A n \in Ids \ {r.n} : kopen'[n] = kopen[n]
  <2>1. CASE kopen' = kopen
    BY <2>1, <1>2
  <2>2. CASE kopen' = [kopen EXCEPT ![r.n] = @ + 1]
    <3>1. PICK x \in Ids : x = r.n
      BY <1>5
    <3>2. kopen' = [kopen EXCEPT ![x] = kopen[x] + 1]
      BY <2>2, <3>1
    <3> QED BY <3>1, <3>2, <1>2
  <2> QED BY <2>1, <2>2
<1>12. KernelInv(call', knows', kopen')
  <2>1. KernelInv(call', knows, kopen)
    <3>1. q.mx \subseteq r.mx /\ q.kref \subseteq r.kref
      BY <1>4
    <3> QED BY <3>1, <1>2, KernelSame
  <2> QED BY <2>1, <1>10, <1>11 DEF KernelInv
<1>13. ASSUME NEW n \in Ids
       PROVE  Balanced(nd, nd', call, call', t, knows, kopen, knows', kopen', n)
  <2>1. call'[t] = q /\ nd'[n] = nd[n] /\ knows'[n] = knows[n]
    BY <1>2 DEF table
  <2>2. Forgets(q, n) = Forgets(r, n) /\ q.ino = r.ino
    BY <1>4 DEF Forgets
  <2>3. kopen'[n] + Opened(q, n) = kopen[n] + Opened(r, n)
    <3>1. kopen[n] \in Nat
      BY <1>2
    <3>2. CASE n # r.n
      BY <3>1, <3>2, <1>11, <1>4 DEF Opened
    <3>3. CASE n = r.n
      <4>1. Opened(r, n) = IF r.at = "reply" THEN 1 ELSE 0
        BY <3>3, <1>1 DEF Opened, OpenAt
      <4>2. Opened(q, n) = IF a = "rel" THEN 1 ELSE 0
        BY <3>3, <1>4 DEF Opened, OpenAt
      <4> QED BY <4>1, <4>2, <3>1, <3>3, <1>2, <1>5
    <3> QED BY <3>2, <3>3
  <2>4. PICK A \in Nat, B \in Nat, C \in Nat, D \in Nat, E \in Nat :
          A = nd[n].open_count /\ B = kopen[n] /\ C = kopen'[n]
          /\ D = Opened(r, n) /\ E = Opened(q, n)
    BY <1>2, <1>11, IdsPlaces DEF Opened, NodeType
  <2>5. C + E = B + D
    BY <2>3, <2>4
  <2>6. A + B + D = A + C + E
    BY <2>5
  <2> QED BY <2>1, <2>2, <2>4, <2>6 DEF Balanced
<1>14. TableStep(t, nd', {})
  BY SameTable DEF table
<1>15. /\ QueueInv(lockq', call') /\ treelock' = treelock /\ lockq' \in Seq(Threads)
       /\ host' \in HostType /\ left' \subseteq HiddenNames /\ knows' \in [Ids -> Nat]
       /\ Locks(nd', q) /\ ~(Wr(q) /\ q.at = "wait")
  <2>1. QueueInv(lockq, call')
    BY <1>2, <1>5, QueueSame
  <2> QED BY <2>1, <1>1, <1>2, <1>5, <1>8 DEF table
<1> QED BY <1>4, <1>7, <1>9, <1>11, <1>12, <1>13, <1>14, <1>15, StepInv

LEMMA fuse_reply_openInv == ASSUME Inv, NEW t \in Threads, fuse_reply_open(t) PROVE Inv'
<1>1. /\ call[t].op = "open" /\ call[t].at = "reply" /\ UNCHANGED <<table, host, knows, left>>
      /\ \/ /\ kopen' = [kopen EXCEPT ![call[t].n] = @ + 1]
            /\ call' = [call EXCEPT ![t].at = "free", ![t].kref = {}]
         \/ /\ call' = [call EXCEPT ![t].at = "rel", ![t].kref = {}]
            /\ kopen' = kopen
  BY DEF fuse_reply_open, At
<1>2. PICK a \in {"free", "rel"} :
        /\ call' = [call EXCEPT ![t].at = a, ![t].kref = {}]
        /\ kopen' = IF a = "free" THEN [kopen EXCEPT ![call[t].n] = @ + 1] ELSE kopen
  BY <1>1
<1>3. PICK q : LeavesOpen(call[t], a, q)
  BY DEF LeavesOpen
<1>4. call' = [call EXCEPT ![t] = q]
  BY <1>2, <1>3 DEF LeavesOpen
<1>5. \/ call[t].at = "reply" /\ a = "free" /\ kopen' = [kopen EXCEPT ![call[t].n] = @ + 1]
      \/ call[t].at = "reply" /\ a = "rel" /\ kopen' = kopen
  BY <1>1, <1>2
<1>6. a \in {"free", "rel"} /\ call[t].op = "open" /\ UNCHANGED <<table, host, knows, left>>
  BY <1>1, <1>2
<1> QED BY <1>3, <1>4, <1>5, <1>6, AnswerOpenInv

LEMMA fs_failsInv == ASSUME Inv, NEW t \in Threads, fs_fails(t) PROVE Inv'
<1>1. /\ \/ call[t].op \in {"mknod", "link", "rmdir", "open"} /\ call[t].at = "fs"
         \/ call[t].op \in Finding /\ call[t].at = "stat"
         \/ call[t].op \in {"unlink", "rename"} /\ call[t].at \in {"hidefs", "rm"}
      /\ call' = [call EXCEPT ![t].at = "free",
                              ![t].kref = IF call[t].op = "open" THEN {} ELSE @]
      /\ UNCHANGED <<table, host, kernel, left>>
  BY DEF fs_fails, At
<1>2. call[t] \in CallType /\ host \in HostType /\ call[t].at \in Busy
  BY <1>1, AtStep DEF Busy
<1>3. CASE call[t].op = "open"
  <2>1. PICK q : LeavesOpen(call[t], "free", q)
    BY DEF LeavesOpen
  <2>2. call' = [call EXCEPT ![t] = q]
    BY <1>1, <1>3, <2>1 DEF LeavesOpen
  <2>3. call[t].at = "fs" /\ kopen' = kopen /\ UNCHANGED <<table, host, knows, left>>
    BY <1>1, <1>3 DEF Finding, kernel
  <2> QED BY <1>3, <2>1, <2>2, <2>3, AnswerOpenInv
<1>4. CASE call[t].op # "open"
  <2>1. [call[t] EXCEPT !.at = "free", !.kref = call[t].kref] = [call[t] EXCEPT !.at = "free"]
    BY <1>2 DEF CallType
  <2>2. Goto(t, "free")
    BY <1>1, <1>4, <2>1 DEF Goto
  <2>3. "free" \in Steps[call[t].op] /\ "free" \in Onwards
    BY <1>1, <1>4, StepsAre DEF Onwards, Finding
  <2> QED BY <1>1, <1>2, <2>2, <2>3, GotoInv
<1> QED BY <1>3, <1>4

LEMMA LastHidden ==
  ASSUME Inv, NEW t \in Threads, call[t].op \in {"open", "release"}, call[t].at = "hidunlink"
  PROVE  Last(call[t].p) \in HiddenNames
<1> DEFINE r == call[t]
<1>1. Asked(r) /\ Phase(r) /\ Locks(nd, r) /\ TreeInv(nd) /\ r.l
  BY AtStep DEF Phase
<1>2. r.n \in Ids /\ r.m = NoName
  BY <1>1 DEF Asked, InDir
<1>3. r.p = PathOf(nd, r.n) /\ nd[r.n].name \in HiddenNames /\ Named(nd, r.n)
  BY <1>1, <1>2 DEF Locks, PathFor
<1>4. PICK q : q = PathOf(nd, nd[r.n].parent)
  OBVIOUS
<1>5. q \in Seq(AllNames \cup {NoName})
  <2>1. Tree(nd) /\ nd[r.n].parent \in Places
    BY <1>1, <1>2, InvTree, NodeIs, IdsPlaces DEF Places
  <2>2. \A u \in Chain(nd, nd[r.n].parent) : nd[u].name \in AllNames \cup {NoName}
    BY <2>1, <1>1, ChainIds, NodeIs, IdsPlaces
  <2> QED BY <1>4, <2>1, <2>2, PathType
<1>6. r.p = Append(q, nd[r.n].name)
  BY <1>1, <1>2, <1>3, <1>4, InvTree, PathIs
<1>7. Last(r.p) = nd[r.n].name
  <2>1. PICK m : m = nd[r.n].name
    OBVIOUS
  <2>2. Len(Append(q, m)) = Len(q) + 1 /\ Append(q, m)[Len(q) + 1] = m
    BY <1>5
  <2> QED BY <1>6, <2>1, <2>2 DEF Last
<1> QED BY <1>3, <1>7

LEMMA unlink_hiddenInv == ASSUME Inv, NEW t \in Threads, unlink_hidden(t) PROVE Inv'
<1>1. /\ call[t].op \in {"open", "release"} /\ call[t].at = "hidunlink" /\ Goto(t, "free")
      /\ UNCHANGED <<table, kernel>>
      /\ \/ Put(call[t].p, NoFile) /\ left' = left
         \/ left' = left \cup {Last(call[t].p)} /\ host' = host
  BY DEF unlink_hidden, At
<1>2. call[t] \in CallType /\ host \in HostType /\ left \subseteq HiddenNames
  BY <1>1, AtStep
<1>3. Last(call[t].p) \in HiddenNames
  BY <1>1, LastHidden
<1>4. host' \in HostType /\ left' \subseteq HiddenNames
  BY <1>1, <1>2, <1>3, PutType
<1>5. PICK q : Went(t, "free", call[t].f, call[t].hid, q)
  BY <1>1, <1>2, GotoIs DEF StepNames
<1>6. Onward(q, call[t]) /\ q.at = "free" /\ call' = [call EXCEPT ![t] = q]
  BY <1>5 DEF Went
<1>7. Onto(q, call[t])
  BY <1>1, <1>6, StepsAre DEF Onto
<1>8. ~OpenAt(q) /\ ~OpenAt(call[t])
  BY <1>1, <1>6 DEF OpenAt
<1>9. q.at \notin {"hidefs", "hidenode", "hidunlink"}
  BY <1>6
<1>10. nd' = nd /\ treelock' = treelock /\ lockq' = lockq /\ knows' = knows /\ kopen' = kopen
  BY <1>1 DEF table, kernel
<1> QED BY <1>4, <1>6, <1>7, <1>8, <1>9, <1>10, OnwardInv

---------------------------------------------------------------------------
(* Nodes found *)

FindsNode(r, n, q) == q = [r EXCEPT !.at = "free", !.ino = n, !.f = NoFile]

LEMMA FindsIs ==
  ASSUME NEW r \in CallType, NEW n \in Ids \cup {NoNode}, NEW q, FindsNode(r, n, q)
  PROVE  /\ q \in CallType /\ q.at = "free" /\ q.op = r.op /\ q.n = r.n /\ q.m = r.m
         /\ q.n2 = r.n2 /\ q.m2 = r.m2 /\ q.fl = r.fl /\ q.w = r.w /\ q.w2 = r.w2 /\ q.l = r.l
         /\ q.l2 = r.l2 /\ q.p = r.p /\ q.p2 = r.p2 /\ q.done = r.done /\ q.err = r.err
         /\ q.ino = n /\ q.f = NoFile /\ q.hid = r.hid /\ q.k = r.k /\ q.mx = r.mx
         /\ q.kref = r.kref
<1>1. "free" \in StepNames /\ NoFile \in Files \cup {NoFile}
  BY DEF StepNames
<1>2. q \in CallType
  BY <1>1 DEF CallType, FindsNode
<1>3. /\ q.at = "free" /\ q.op = r.op /\ q.n = r.n /\ q.m = r.m
      /\ q.n2 = r.n2 /\ q.m2 = r.m2 /\ q.fl = r.fl /\ q.w = r.w /\ q.w2 = r.w2 /\ q.l = r.l
      /\ q.l2 = r.l2 /\ q.p = r.p /\ q.p2 = r.p2 /\ q.done = r.done /\ q.err = r.err
      /\ q.ino = n /\ q.f = NoFile /\ q.hid = r.hid /\ q.k = r.k /\ q.mx = r.mx
      /\ q.kref = r.kref
  BY DEF CallType, FindsNode
<1> QED BY <1>2, <1>3

\* What a request that only reads relies on after a step of its own on the table.
LEMMA ReadLocks ==
  ASSUME Inv, NEW t \in Threads, NEW e, NEW F, TableStep(t, e, F), NEW q, ~Wr(q),
         q.op = call[t].op, q.n = call[t].n, q.m = call[t].m, q.n2 = call[t].n2,
         q.m2 = call[t].m2, q.l <=> call[t].l, q.l2 <=> call[t].l2, q.w = call[t].w,
         q.w2 = call[t].w2, q.p = call[t].p, q.p2 = call[t].p2,
         q.at \notin {"wait", "hidefs", "hidenode"},
         q.at = "hidunlink" => e[q.n].name \in HiddenNames
  PROVE  Locks(e, q)
<1> DEFINE r == call[t]
<1>1. Locks(nd, r) /\ Shape(r) /\ TreeInv(nd) /\ TreeInv(e)
  BY DEF Inv, Calls, TableStep
<1>2. ~Wr(r) /\ (Two(r) <=> Two(q))
  BY DEF Wr, Two
<1>3. r.w = NoNode /\ r.w2 = NoNode
  BY <1>1, <1>2 DEF Locks
<1>4. ASSUME r.l PROVE Alive(e, r.n) /\ Named(e, r.n) /\ r.p = PathFor(e, r.n, r.m)
  <2>1. PathKept(nd, e, r.n) /\ r.n \in Nodes /\ Named(nd, r.n) /\ r.p = PathFor(nd, r.n, r.m)
    BY <1>1, <1>4, PathsKept, NoCallIs DEF Shape, Asked, Locks
  <2> QED BY <2>1, <1>1, PathKeptIs
<1>5. ASSUME r.l2
      PROVE  Two(r) /\ Alive(e, r.n2) /\ Named(e, r.n2) /\ r.p2 = PathFor(e, r.n2, r.m2)
  <2>1. /\ PathKept(nd, e, r.n2) /\ Two(r) /\ r.n2 \in Nodes /\ Named(nd, r.n2)
        /\ r.p2 = PathFor(nd, r.n2, r.m2)
    BY <1>1, <1>5, PathsKept, NoCallIs DEF Shape, Asked, Locks
  <2> QED BY <2>1, <1>1, PathKeptIs
<1> QED BY <1>2, <1>3, <1>4, <1>5 DEF Locks

\* A lookup that ends with node n, counted, or with none.
LEMMA FinderInv ==
  ASSUME Inv, NEW t \in Threads, call[t].op \in Finding, call[t].at = "find",
         NEW n \in Ids \cup {NoNode}, NEW q, FindsNode(call[t], n, q),
         call' = [call EXCEPT ![t] = q], NEW F, TableStep(t, nd', F),
         \A i \in Ids : nd'[i].nlookup = nd[i].nlookup + In(i, {n}),
         \A i \in Ids : nd'[i].open_count = nd[i].open_count,
         UNCHANGED <<treelock, lockq, host, kernel, left>>
  PROVE  Inv'
<1> DEFINE r == call[t]
<1>1. /\ r \in CallType /\ Asked(r) /\ Phase(r) /\ Locks(nd, r)
      /\ TreeInv(nd) /\ host \in HostType /\ left \subseteq HiddenNames
  BY AtStep
<1>2. /\ call \in [Threads -> CallType] /\ lockq \in Seq(Threads) /\ knows \in [Ids -> Nat]
      /\ kopen \in [Ids -> Nat] /\ QueueInv(lockq, call) /\ KernelInv(call, knows, kopen)
      /\ nd \in [Nodes -> NodeType]
  BY TypeSplit DEF Inv
<1>3. /\ q \in CallType /\ q.at = "free" /\ q.op = r.op /\ q.n = r.n /\ q.m = r.m
      /\ q.n2 = r.n2 /\ q.m2 = r.m2 /\ q.fl = r.fl /\ q.w = r.w /\ q.w2 = r.w2 /\ q.l = r.l
      /\ q.l2 = r.l2 /\ q.p = r.p /\ q.p2 = r.p2 /\ q.done = r.done /\ q.err = r.err
      /\ q.ino = n /\ q.f = NoFile /\ q.hid = r.hid /\ q.k = r.k /\ q.mx = r.mx
      /\ q.kref = r.kref
  BY <1>1, FindsIs
<1>4. (Two(r) <=> Two(q)) /\ ~Wr(r) /\ ~Wr(q) /\ ~Waits(r) /\ ~Waits(q) /\ r.ino = NoNode
  BY <1>1, <1>3 DEF Two, Wr, Waits, Finding, Phase
<1>5. Shape(q)
  <2>1. Asked(q)
    BY <1>1, <1>3, <1>4 DEF Asked
  <2>2. Phase(q)
    BY <1>1, <1>3, <1>4, StepsAre DEF Phase, Ready, Finding
  <2> QED BY <2>1, <2>2 DEF Shape
<1>6. Locks(nd', q)
  <2>1. q.at \notin {"wait", "hidefs", "hidenode", "hidunlink"}
    BY <1>3
  <2> QED BY <2>1, <1>3, <1>4, ReadLocks
<1>7. SameLocks(q, r)
  BY <1>3 DEF SameLocks
<1>8. KernelInv(call', knows', kopen')
  <2>1. q.mx \subseteq r.mx /\ q.kref \subseteq r.kref
    BY <1>3
  <2>2. KernelInv(call', knows, kopen)
    BY <2>1, <1>2, KernelSame
  <2> QED BY <2>2 DEF kernel
<1>9. ASSUME NEW i \in Ids
      PROVE  Balanced(nd, nd', call, call', t, knows, kopen, knows', kopen', i)
  <2>1. call'[t] = q /\ knows' = knows /\ kopen' = kopen
    BY <1>2 DEF kernel
  <2>2. Forgets(q, i) = 0 /\ Forgets(r, i) = 0 /\ Opened(q, i) = 0 /\ Opened(r, i) = 0
    BY <1>3 DEF Forgets, Opened, OpenAt, Finding
  <2>3. In(i, {r.ino}) = 0
    BY <1>4, IdsPlaces DEF In
  <2>4. PICK A \in Nat, B \in Nat, C \in Nat, D \in Nat, E \in Nat :
          /\ A = nd[i].nlookup /\ B = knows[i] /\ C = In(i, {n})
          /\ D = nd[i].open_count /\ E = kopen[i]
    BY <1>1, <1>2, NodeIs, IdsPlaces DEF In, NodeType
  <2>5. nd'[i].nlookup = A + C /\ nd'[i].open_count = D
    BY <2>4
  <2>6. (A + C) + B + 0 + 0 = A + B + C + 0
    BY <2>4
  <2>7. call[t] = r /\ In(i, {call'[t].ino}) = C
    BY <2>1, <2>4, <1>3
  <2>8. nd'[i].nlookup + knows[i] + In(i, {r.ino}) + Forgets(r, i)
          = nd[i].nlookup + knows'[i] + In(i, {call'[t].ino}) + Forgets(call'[t], i)
    BY <2>1, <2>2, <2>3, <2>4, <2>5, <2>6, <2>7
  <2>9. nd'[i].open_count + kopen[i] + Opened(r, i)
          = nd[i].open_count + kopen'[i] + Opened(call'[t], i)
    BY <2>1, <2>2, <2>4, <2>5
  <2> QED BY <2>8, <2>9 DEF Balanced
<1>10. /\ QueueInv(lockq', call') /\ treelock' = treelock /\ lockq' \in Seq(Threads)
       /\ host' \in HostType /\ left' \subseteq HiddenNames /\ knows' \in [Ids -> Nat]
       /\ kopen' \in [Ids -> Nat] /\ ~(Wr(q) /\ q.at = "wait")
  <2>1. QueueInv(lockq, call')
    BY <1>2, <1>4, QueueSame
  <2> QED BY <2>1, <1>1, <1>2, <1>4 DEF kernel
<1> QED BY <1>3, <1>5, <1>6, <1>7, <1>8, <1>9, <1>10, StepInv

\* A free node is nobody's.
LEMMA FreeUnlocked ==
  ASSUME Inv, NEW n \in Ids, nd[n].refctr = 0
  PROVE  R1(nd, call, n) = {} /\ R2(nd, call, n) = {} /\ W1(call, n) = {} /\ W2(call, n) = {}
<1>1. nd[n].name = NoName /\ nd[n].nlookup = 0 /\ nd[n].open_count = 0
  BY DEF Inv, TreeInv, FreeNode
<1>2. \A u \in Threads : Locks(nd, call[u])
  BY DEF Inv, Calls
<1>3. R1(nd, call, n) = {} /\ R2(nd, call, n) = {}
  BY <1>1, <1>2 DEF R1, R2, Locks, Named, AllNamed
<1>4. \A u \in Threads : call[u].w # n /\ call[u].w2 # n
  BY <1>1, <1>2, IdsPlaces DEF Locks
<1> QED BY <1>3, <1>4 DEF W1, W2

LEMMA FoundPlace ==
  ASSUME Inv, NEW t \in Threads, call[t].op \in Finding, call[t].at = "find"
  PROVE  /\ FoundDir(call[t]) \in Nodes /\ Alive(nd, FoundDir(call[t]))
         /\ FoundDir(call[t]) \in call[t].mx /\ FoundName(call[t]) \in Names
<1> DEFINE r == call[t]
<1>1. r \in CallType /\ Asked(r) /\ Phase(r) /\ Locks(nd, r)
  BY AtStep
<1>2. r.l /\ (Two(r) => r.l2)
  BY <1>1 DEF Phase, Ready, Finding
<1>3. CASE r.op = "link"
  BY <1>1, <1>2, <1>3 DEF Two, Asked, Locks, FoundDir, FoundName
<1>4. CASE r.op # "link"
  BY <1>1, <1>2, <1>4 DEF Asked, Locks, FoundDir, FoundName, Finding, InDir
<1> QED BY <1>3, <1>4

LEMMA find_nodeInv == ASSUME Inv, NEW t \in Threads, find_node(t) PROVE Inv'
<1> DEFINE r == call[t]
           p == FoundDir(r)
           m == FoundName(r)
           old == lookup_node(nd, p, m)
           found(n) == call' = [call EXCEPT ![t].at = "free", ![t].ino = n, ![t].f = NoFile]
<1>1. /\ r.op \in Finding /\ r.at = "find" /\ UNCHANGED <<treelock, lockq, host, kernel, left>>
      /\ \/ old # NoNode /\ nd' = inc_nlookup(nd, old) /\ found(old)
         \/ /\ old = NoNode
            /\ \E n \in FreshIds(nd) : nd' = find_node_new(nd, p, m, n, r.f) /\ found(n)
         \/ old = NoNode /\ nd' = nd /\ found(NoNode)
  BY DEF find_node, At, find_node_old
<1>2. r \in CallType /\ TreeInv(nd) /\ r.f \in Files \cup {NoFile}
  BY <1>1, AtStep DEF CallType
<1>3. p \in Nodes /\ Alive(nd, p) /\ p \in r.mx /\ m \in Names /\ m \in AllNames
  BY <1>1, FoundPlace DEF AllNames
<1> HIDE DEF p, m, old
<1>4. old \in Ids \cup {NoNode}
  BY <1>2, <1>3, LookupIs DEF old
<1>5. ASSUME NEW n \in Ids \cup {NoNode}, found(n), NEW F, TableStep(t, nd', F),
             \A i \in Ids : nd'[i].nlookup = nd[i].nlookup + In(i, {n}),
             \A i \in Ids : nd'[i].open_count = nd[i].open_count
      PROVE  Inv'
  <2>1. PICK q : FindsNode(r, n, q)
    BY DEF FindsNode
  <2>2. call' = [call EXCEPT ![t] = q]
    BY <1>5, <2>1 DEF FindsNode
  <2> QED BY <1>1, <1>5, <2>1, <2>2, FinderInv
<1> HIDE DEF found
<1>6. CASE old # NoNode /\ nd' = inc_nlookup(nd, old) /\ found(old)
  <2>1. Looked(nd, nd', old, nd[old].file)
    BY <1>2, <1>4, <1>6, FindOldOk
  <2>2. \A i \in Ids : /\ nd'[i].nlookup = nd[i].nlookup + In(i, {old})
                       /\ nd'[i].open_count = nd[i].open_count /\ SamePlace(nd, nd', i)
    BY <2>1, <1>2, <1>4, NodeIs, IdsPlaces DEF Looked, In, SamePlace
  <2>3. TableStep(t, nd', {})
    <3>1. \A i \in Ids : nd[i].nlookup > 0 => nd'[i].nlookup # 0
      BY <2>2, <1>2, NodeIs, IdsPlaces DEF In
    <3> QED BY <2>1, <2>2, <3>1 DEF TableStep, Looked
  <2> QED BY <2>2, <2>3, <1>4, <1>5, <1>6
<1>7. CASE \E n \in FreshIds(nd) :
             old = NoNode /\ nd' = find_node_new(nd, p, m, n, r.f) /\ found(n)
  <2>1. PICK n \in FreshIds(nd) :
               old = NoNode /\ nd' = find_node_new(nd, p, m, n, r.f) /\ found(n)
    BY <1>7
  <2>2. n \in Ids /\ nd[n].refctr = 0
    BY <2>1, <1>2, NodeIs, IdsPlaces DEF FreshIds, Allocated
  <2>3. \A c \in Ids : ~(nd[c].parent = p /\ nd[c].name = m)
    BY <2>1, <1>2, <1>3, LookupIs, IdsPlaces DEF OnlyChild, old
  <2>4. Found(nd, nd', n, p, m, r.f)
    BY <2>1, <2>2, <2>3, <1>2, <1>3, FindNewOk
  <2>5. nd[n].nlookup = 0 /\ nd[n].open_count = 0
    BY <2>2, <1>2 DEF TreeInv, FreeNode
  <2>6. \A i \in Ids : /\ nd'[i].nlookup = nd[i].nlookup + In(i, {n})
                       /\ nd'[i].open_count = nd[i].open_count
    BY <2>4, <2>5, <1>2, NodeIs, IdsPlaces DEF Found, In
  <2>7. TableStep(t, nd', {n})
    <3>1. \A i \in Ids : nd[i].nlookup > 0 => nd'[i].nlookup # 0
      BY <2>6, <1>2, NodeIs, IdsPlaces DEF In
    <3>2. \A i \in Ids : ~SamePlace(nd, nd', i) => i = n
      BY <2>4 DEF Found
    <3>3. R1(nd, call, n) = {} /\ R2(nd, call, n) = {} /\ W1(call, n) = {} /\ W2(call, n) = {}
      BY <2>2, FreeUnlocked
    <3> QED BY <2>2, <2>4, <3>1, <3>2, <3>3, <1>3 DEF TableStep, Found
  <2> QED BY <2>1, <2>2, <2>6, <2>7, <1>5
<1>8. CASE old = NoNode /\ nd' = nd /\ found(NoNode)
  <2>1. TableStep(t, nd', {})
    BY <1>8, SameTable
  <2>2. \A i \in Ids : /\ nd'[i].nlookup = nd[i].nlookup + In(i, {NoNode})
                       /\ nd'[i].open_count = nd[i].open_count
    BY <1>2, <1>8, NodeIs, IdsPlaces DEF In
  <2> QED BY <2>1, <2>2, <1>5, <1>8
<1> QED BY <1>1, <1>6, <1>7, <1>8

---------------------------------------------------------------------------
(* Open counts *)

LEMMA OnwardTableInv ==
  ASSUME Inv, NEW t \in Threads, NEW q, Onward(q, call[t]), Onto(q, call[t]),
         call' = [call EXCEPT ![t] = q], NEW F, TableStep(t, nd', F), Locks(nd', q),
         \A n \in Ids : Balanced(nd, nd', call, call', t, knows, kopen, knows, kopen, n),
         UNCHANGED <<treelock, lockq, host, kernel, left>>
  PROVE  Inv'
<1>1. /\ call \in [Threads -> CallType] /\ Shape(call[t]) /\ q \in CallType
      /\ lockq \in Seq(Threads) /\ knows \in [Ids -> Nat] /\ host \in HostType
      /\ kopen \in [Ids -> Nat] /\ QueueInv(lockq, call) /\ KernelInv(call, knows, kopen)
      /\ left \subseteq HiddenNames
  BY TypeSplit DEF Inv, Calls, Onward
<1>2. Shape(q) /\ ~Waits(q) /\ ~Waits(call[t])
  BY <1>1, OnwardShape
<1>3. QueueInv(lockq, call')
  BY <1>1, <1>2, QueueSame
<1>4. KernelInv(call', knows, kopen)
  <2>1. q.mx \subseteq call[t].mx /\ q.kref \subseteq call[t].kref
    BY DEF Onward
  <2> QED BY <1>1, <2>1, KernelSame
<1>5. SameLocks(q, call[t])
  BY DEF Onward, SameLocks
<1>6. ~(Wr(q) /\ q.at = "wait")
  BY DEF Onto
<1>7. /\ treelock' = treelock /\ lockq' = lockq /\ host' = host /\ knows' = knows
      /\ kopen' = kopen /\ left' = left
  BY DEF kernel
<1>8. /\ QueueInv(lockq', call') /\ KernelInv(call', knows', kopen') /\ lockq' \in Seq(Threads)
      /\ host' \in HostType /\ left' \subseteq HiddenNames /\ knows' \in [Ids -> Nat]
      /\ kopen' \in [Ids -> Nat]
      /\ \A n \in Ids : Balanced(nd, nd', call, call', t, knows, kopen, knows', kopen', n)
  BY <1>1, <1>3, <1>4, <1>7
<1> QED BY <1>1, <1>2, <1>5, <1>6, <1>7, <1>8, StepInv

\* A node with another number of open files.
Reopened(d, e, n, k, b) ==
  /\ TreeInv(e) /\ e[n].open_count = k /\ e[n].is_hidden = b
  /\ \A u \in Ids : SamePlace(d, e, u)
  /\ \A u \in Nodes : e[u].nlookup = d[u].nlookup /\ e[u].file = d[u].file
  /\ \A u \in Nodes \ {n} : e[u] = d[u]

OpenedNow(q, r, k, b) ==
  /\ q \in NodeType /\ q.parent = r.parent /\ q.name = r.name /\ q.nlookup = r.nlookup
  /\ q.refctr = r.refctr /\ q.open_count = k /\ q.is_hidden = b
  /\ q.file = r.file

LEMMA OpenEdit ==
  ASSUME NEW r \in NodeType, NEW k \in Nat, NEW b \in BOOLEAN,
         NEW q, q = [r EXCEPT !.open_count = k, !.is_hidden = b]
  PROVE  OpenedNow(q, r, k, b)
BY DEF NodeType, OpenedNow

LEMMA ReopenOk ==
  ASSUME NEW d, TreeInv(d), NEW n \in Ids, d[n].refctr > 0, NEW k \in Nat, NEW b \in BOOLEAN,
         b => d[n].is_hidden, NEW q, OpenedNow(q, d[n], k, b), NEW e, e = [d EXCEPT ![n] = q]
  PROVE  Reopened(d, e, n, k, b)
<1>1. d \in [Nodes -> NodeType] /\ n \in Nodes /\ n # Root /\ q \in NodeType
  BY IdsPlaces DEF TreeInv, OpenedNow
<1>2. e[n] = q /\ \A u \in Nodes \ {n} : e[u] = d[u]
  BY <1>1
<1>3. \A u \in Nodes : /\ e[u].parent = d[u].parent /\ e[u].name = d[u].name
                       /\ e[u].nlookup = d[u].nlookup /\ e[u].refctr = d[u].refctr
                       /\ e[u].file = d[u].file
  BY <1>2 DEF OpenedNow
<1>4. \A u \in Nodes : Children(e, u) = Children(d, u)
  BY <1>3, IdsPlaces DEF Children
<1>5. e \in [Nodes -> NodeType]
  BY <1>1
<1>6. WellFounded(e)
  BY <1>3, IdsPlaces DEF WellFounded, TreeInv
<1>7. \A u \in Ids : e[u].refctr = 0 => e[u] = FreeNode
  BY <1>2, <1>3, IdsPlaces DEF TreeInv
<1>8. /\ \A u \in Ids : e[u].parent = NoNode <=> e[u].name = NoName
      /\ e[Root].nlookup = 1 /\ e[Root].parent = NoNode
  BY <1>3, IdsPlaces DEF TreeInv
<1>9. ASSUME NEW u \in Nodes
      PROVE  e[u].refctr = (IF e[u].nlookup > 0 THEN 1 ELSE 0) + Cardinality(Children(e, u))
  <2>1. d[u].refctr = (IF d[u].nlookup > 0 THEN 1 ELSE 0) + Cardinality(Children(d, u))
    BY DEF TreeInv
  <2>2. /\ e[u].nlookup = d[u].nlookup /\ e[u].refctr = d[u].refctr
        /\ Children(e, u) = Children(d, u)
    BY <1>3, <1>4
  <2> QED BY <2>1, <2>2
<1>10. ASSUME NEW x \in Ids, NEW y \in Ids, e[x].parent # NoNode, e[x].parent = e[y].parent,
              e[x].name = e[y].name
       PROVE  x = y
  <2>1. d[x].parent # NoNode /\ d[x].parent = d[y].parent /\ d[x].name = d[y].name
    BY <1>3, <1>10, IdsPlaces
  <2> QED BY <2>1 DEF TreeInv
<1>11. \A u \in Ids : e[u].is_hidden => e[u].name \in HiddenNames
  BY <1>2, <1>3, IdsPlaces DEF TreeInv, OpenedNow
<1>12. TreeInv(e)
  BY <1>5, <1>6, <1>7, <1>8, <1>9, <1>10, <1>11 DEF TreeInv
<1> QED BY <1>2, <1>3, <1>12, IdsPlaces DEF Reopened, SamePlace, OpenedNow

LEMMA ReopenStep ==
  ASSUME Inv, NEW t \in Threads, NEW n \in Ids, NEW k, NEW b, NEW e, Reopened(nd, e, n, k, b)
  PROVE  TableStep(t, e, {})
BY IdsPlaces DEF TableStep, Reopened

LEMMA open_countedInv == ASSUME Inv, NEW t \in Threads, open_counted(t) PROVE Inv'
<1> DEFINE r == call[t]
           n == call[t].n
<1>1. /\ r.op = "open" /\ r.at = "count" /\ Goto(t, "reply")
      /\ nd' = [nd EXCEPT ![n].open_count = @ + 1]
      /\ UNCHANGED <<treelock, lockq, host, kernel, left>>
  BY DEF open_counted, At
<1>2. r \in CallType /\ Asked(r) /\ Phase(r) /\ Locks(nd, r) /\ TreeInv(nd)
  BY <1>1, AtStep
<1>3. n \in Ids /\ ~Wr(r) /\ r.l
  BY <1>1, <1>2 DEF Asked, InDir, Wr, Phase, Ready
<1>4. nd[n].nlookup > 0 /\ nd[n] \in NodeType
  BY <1>2, <1>3, NodeIs, IdsPlaces DEF Locks, Alive
<1>5. nd[n].refctr > 0
  BY <1>2, <1>3, <1>4, NodeIs DEF TreeInv, FreeNode, NodeType
<1>6. PICK k \in Nat : k = nd[n].open_count + 1
  BY <1>4 DEF NodeType
<1>7. PICK b \in BOOLEAN : b = nd[n].is_hidden
  BY <1>4 DEF NodeType
<1>8. PICK x : x = [nd[n] EXCEPT !.open_count = k, !.is_hidden = b]
  OBVIOUS
<1>9. x = [nd[n] EXCEPT !.open_count = k]
  BY <1>4, <1>7, <1>8 DEF NodeType
<1>10. nd' = [nd EXCEPT ![n] = x]
  BY <1>1, <1>6, <1>9
<1>11. OpenedNow(x, nd[n], k, b)
  BY <1>4, <1>6, <1>7, <1>8, OpenEdit
<1>12. Reopened(nd, nd', n, k, b)
  BY <1>2, <1>3, <1>5, <1>6, <1>7, <1>10, <1>11, ReopenOk
<1>13. TableStep(t, nd', {})
  BY <1>3, <1>12, ReopenStep
<1>14. PICK q : Went(t, "reply", r.f, r.hid, q)
  BY <1>1, <1>2, GotoIs DEF StepNames
<1>15. Onward(q, r) /\ q.at = "reply" /\ call' = [call EXCEPT ![t] = q]
  BY <1>14 DEF Went
<1>16. Onto(q, r) /\ ~Wr(q)
  BY <1>1, <1>3, <1>15, StepsAre DEF Onto, Wr, Onward
<1>17. Locks(nd', q)
  <2>1. q.at \notin {"wait", "hidefs", "hidenode", "hidunlink"}
    BY <1>15
  <2> QED BY <2>1, <1>13, <1>15, <1>16, ReadLocks DEF Onward
<1>18. ASSUME NEW i \in Ids
       PROVE  Balanced(nd, nd', call, call', t, knows, kopen, knows, kopen, i)
  <2>1. call'[t] = q
    BY <1>15, TypeSplit DEF Inv
  <2>2. /\ Forgets(q, i) = Forgets(r, i) /\ q.ino = r.ino /\ Opened(r, i) = 0
        /\ Opened(q, i) = IF i = n THEN 1 ELSE 0
    BY <1>1, <1>15 DEF Forgets, Opened, OpenAt, Onward
  <2>3. nd'[i].nlookup = nd[i].nlookup
    BY <1>12, IdsPlaces DEF Reopened
  <2>4. PICK A \in Nat, B \in Nat : A = nd[i].open_count /\ B = kopen[i]
    BY <1>2, NodeIs, IdsPlaces, TypeSplit DEF NodeType, Inv
  <2>5. nd'[i].open_count = IF i = n THEN A + 1 ELSE A
    BY <1>6, <1>12, <2>4, IdsPlaces DEF Reopened
  <2>6. nd'[i].open_count + B + 0 = A + B + (IF i = n THEN 1 ELSE 0)
    BY <2>4, <2>5
  <2> QED BY <2>1, <2>2, <2>3, <2>4, <2>6 DEF Balanced
<1> QED BY <1>1, <1>13, <1>15, <1>16, <1>17, <1>18, OnwardTableInv

LEMMA fuse_do_releaseInv == ASSUME Inv, NEW t \in Threads, fuse_do_release(t) PROVE Inv'
<1> DEFINE r == call[t]
           n == call[t].n
           last == nd[n].open_count = 1 /\ nd[n].is_hidden
<1>1. /\ r.op \in {"open", "release"} /\ r.at = "rel"
      /\ Goto(t, IF last /\ r.l THEN "hidunlink" ELSE "free")
      /\ nd' = [nd EXCEPT ![n].open_count = @ - 1, ![n].is_hidden = @ /\ ~last]
      /\ UNCHANGED <<treelock, lockq, host, kernel, left>>
  BY DEF fuse_do_release, At
<1>2. r \in CallType /\ Asked(r) /\ Phase(r) /\ Locks(nd, r) /\ TreeInv(nd)
  BY <1>1, AtStep
<1>3. n \in Ids /\ ~Wr(r)
  BY <1>1, <1>2 DEF Asked, InDir, Wr
<1>4. nd[n] \in NodeType
  BY <1>2, <1>3, NodeIs, IdsPlaces
<1>5. nd[n].open_count >= 1
  <2>1. /\ call \in [Threads -> CallType] /\ nd \in [Nodes -> NodeType] /\ knows \in [Ids -> Nat]
        /\ kopen \in [Ids -> Nat] /\ Counts(nd, call, knows, kopen)
    BY TypeSplit DEF Inv
  <2>2. nd[n].open_count >= kopen[n] + Opened(r, n)
    BY <2>1, <1>3, CountsAtLeast
  <2>3. Opened(r, n) = 1
    BY <1>1 DEF Opened, OpenAt
  <2>4. PICK A \in Nat : A = kopen[n]
    BY <2>1, <1>3
  <2>5. PICK B \in Nat : B = nd[n].open_count
    BY <1>4 DEF NodeType
  <2>6. B >= A + 1
    BY <2>2, <2>3, <2>4, <2>5
  <2>7. B >= 1
    BY <2>6
  <2> QED BY <2>5, <2>7
<1>6. PICK k \in Nat : k = nd[n].open_count - 1
  BY <1>4, <1>5 DEF NodeType
<1>7. nd[n].refctr > 0
  <2>1. nd[n] # FreeNode
    BY <1>5 DEF FreeNode
  <2>2. nd[n].refctr # 0
    BY <2>1, <1>2, <1>3 DEF TreeInv
  <2> QED BY <2>2, <1>2, <1>3, NodeIs, IdsPlaces
<1>8. PICK b \in BOOLEAN : b = (nd[n].is_hidden /\ ~last)
  OBVIOUS
<1>9. PICK x : x = [nd[n] EXCEPT !.open_count = k, !.is_hidden = b]
  OBVIOUS
<1>10. nd' = [nd EXCEPT ![n] = x]
  BY <1>1, <1>6, <1>8, <1>9
<1>11. OpenedNow(x, nd[n], k, b)
  BY <1>4, <1>6, <1>8, <1>9, OpenEdit
<1>12. Reopened(nd, nd', n, k, b)
  <2>1. b => nd[n].is_hidden
    BY <1>8, Zenon
  <2> QED BY <2>1, <1>2, <1>3, <1>7, <1>6, <1>8, <1>10, <1>11, ReopenOk
<1>13. TableStep(t, nd', {})
  BY <1>3, <1>12, ReopenStep
<1>14. PICK a \in {"hidunlink", "free"} :
             /\ a = IF last /\ r.l THEN "hidunlink" ELSE "free"
             /\ a = "hidunlink" => nd[n].is_hidden /\ r.l
  OBVIOUS
<1>15. PICK q : Went(t, a, r.f, r.hid, q)
  BY <1>1, <1>2, <1>14, GotoIs DEF StepNames
<1>16. Onward(q, r) /\ q.at = a /\ call' = [call EXCEPT ![t] = q]
  BY <1>15 DEF Went
<1>17. q.at = "hidunlink" => q.l
  BY <1>14, <1>16 DEF Onward
<1>18. Onto(q, r) /\ ~Wr(q)
  BY <1>1, <1>3, <1>14, <1>16, <1>17, StepsAre DEF Onto, Wr, Onward
<1>19. Locks(nd', q)
  <2>1. q.at \notin {"wait", "hidefs", "hidenode"}
    BY <1>14, <1>16
  <2>2. q.n = n /\ (q.at = "hidunlink" => nd[n].is_hidden)
    BY <1>14, <1>16 DEF Onward
  <2>3. q.at = "hidunlink" => nd'[q.n].name \in HiddenNames
    BY <2>2, <1>2, <1>3, <1>12 DEF TreeInv, Reopened, SamePlace
  <2> QED BY <2>1, <2>3, <1>13, <1>16, <1>18, ReadLocks DEF Onward
<1>20. ASSUME NEW i \in Ids
       PROVE  Balanced(nd, nd', call, call', t, knows, kopen, knows, kopen, i)
  <2>1. call'[t] = q
    BY <1>16, TypeSplit DEF Inv
  <2>2. /\ Forgets(q, i) = Forgets(r, i) /\ q.ino = r.ino /\ Opened(q, i) = 0
        /\ Opened(r, i) = IF i = n THEN 1 ELSE 0
    BY <1>1, <1>14, <1>16 DEF Forgets, Opened, OpenAt, Onward
  <2>3. nd'[i].nlookup = nd[i].nlookup
    BY <1>12, IdsPlaces DEF Reopened
  <2>4. PICK A \in Nat, B \in Nat : A = nd[i].open_count /\ B = kopen[i]
    BY <1>2, NodeIs, IdsPlaces, TypeSplit DEF NodeType, Inv
  <2>5. nd'[i].open_count = IF i = n THEN A - 1 ELSE A
    BY <1>6, <1>12, <2>4, IdsPlaces DEF Reopened
  <2>6. nd'[i].open_count + B + (IF i = n THEN 1 ELSE 0) = A + B + 0
    BY <2>4, <2>5
  <2> QED BY <2>1, <2>2, <2>3, <2>4, <2>6 DEF Balanced
<1> QED BY <1>1, <1>13, <1>16, <1>18, <1>19, <1>20, OnwardTableInv

---------------------------------------------------------------------------
(* Nodes moved and removed *)

\* What a request that writes relies on after a step of its own on the table.
WriterAt(d, q, w) ==
  w # NoNode => d[w].nlookup > 0 /\ d[w].parent \in {NoNode, q.n} \cup IF q.l2 THEN {q.n2} ELSE {}

LEMMA WriteLocks ==
  ASSUME Inv, NEW t \in Threads, NEW e, NEW F, TableStep(t, e, F), NEW q, Onward(q, call[t]),
         Wr(q), q.l, (q.op = "rename" => q.l2),
         WriterAt(e, q, q.w), WriterAt(e, q, q.w2),
         q.at # "free" => OnlyChild(e, q.n, q.m, q.w) /\ (q.l2 => OnlyChild(e, q.n2, q.m2, q.w2)),
         q.at \in {"rm", "table", "free"}
  PROVE  Locks(e, q)
<1> DEFINE r == call[t]
<1>1. Locks(nd, r) /\ Shape(r) /\ TreeInv(nd) /\ TreeInv(e)
  BY DEF Inv, Calls, TableStep
<1>2. /\ q.op = r.op /\ q.n = r.n /\ q.m = r.m /\ q.n2 = r.n2 /\ q.m2 = r.m2
      /\ (q.l <=> r.l) /\ (q.l2 <=> r.l2) /\ q.w = r.w /\ q.w2 = r.w2 /\ q.p = r.p /\ q.p2 = r.p2
  BY DEF Onward
<1>3. Wr(r) /\ (Two(r) <=> Two(q))
  BY <1>2 DEF Wr, Two
<1>4. Alive(e, q.n) /\ Named(e, q.n) /\ q.p = PathFor(e, q.n, q.m)
  <2>1. PathKept(nd, e, r.n) /\ r.n \in Nodes /\ Named(nd, r.n) /\ r.p = PathFor(nd, r.n, r.m)
    BY <1>1, <1>2, PathsKept, NoCallIs DEF Shape, Asked, Locks
  <2> QED BY <2>1, <1>1, <1>2, PathKeptIs
<1>5. ASSUME q.l2
      PROVE  Two(q) /\ Alive(e, q.n2) /\ Named(e, q.n2) /\ q.p2 = PathFor(e, q.n2, q.m2)
  <2>1. /\ PathKept(nd, e, r.n2) /\ Two(r) /\ r.n2 \in Nodes /\ Named(nd, r.n2)
        /\ r.p2 = PathFor(nd, r.n2, r.m2)
    BY <1>1, <1>2, <1>5, PathsKept, NoCallIs DEF Shape, Asked, Locks
  <2> QED BY <2>1, <1>1, <1>2, <1>3, PathKeptIs
<1>6. /\ (~q.l \/ ~Wr(q) => q.w = NoNode) /\ (~q.l2 \/ ~Wr(q) => q.w2 = NoNode)
  BY <1>1, <1>2, <1>3 DEF Locks
<1>7. /\ q.w # NoNode => e[q.w].nlookup > 0
      /\ q.w2 # NoNode => e[q.w2].nlookup > 0
      /\ q.w # NoNode => e[q.w].parent \in {NoNode, q.n} \/ (q.l2 /\ e[q.w].parent = q.n2)
      /\ q.w2 # NoNode => e[q.w2].parent \in {NoNode, q.n2} \/ (q.l /\ e[q.w2].parent = q.n)
  <2>1. q.w2 # NoNode => q.l2
    BY <1>6
  <2> QED BY <2>1 DEF WriterAt
<1>8. /\ Wr(q) /\ q.l /\ q.at # "free" => OnlyChild(e, q.n, q.m, q.w)
      /\ Wr(q) /\ q.l2 /\ q.at # "free" => OnlyChild(e, q.n2, q.m2, q.w2)
  OBVIOUS
<1>9. q.at \notin {"wait", "hidefs", "hidenode", "hidunlink"}
  OBVIOUS
<1> QED BY <1>4, <1>5, <1>6, <1>7, <1>8, <1>9 DEF Locks

\* The node at the place a request has locked for writing is the request's alone.
Exclusive(t, x) ==
  /\ R1(nd, call, x) = {} /\ R2(nd, call, x) = {} /\ W1(call, x) \cup W2(call, x) \subseteq {t}
  /\ Named(nd, x) /\ nd[x].nlookup > 0

LEMMA NamedBelow ==
  ASSUME NEW d, TreeInv(d), NEW x \in Ids, NEW p, d[x].parent = p, d[x].name # NoName, Named(d, p)
  PROVE  Named(d, x)
<1>1. Chain(d, x) = {x} \cup Chain(d, p)
  BY InvTree, ChainIs DEF Tree
<1> QED BY <1>1 DEF Named, AllNamed

LEMMA WrittenBy ==
  ASSUME Inv, NEW t \in Threads, NEW x \in Ids, t \in W1(call, x) \cup W2(call, x)
  PROVE  /\ R1(nd, call, x) = {} /\ R2(nd, call, x) = {}
         /\ W1(call, x) \cup W2(call, x) \subseteq {t}
         /\ ~(t \in W1(call, x) /\ t \in W2(call, x))
<1>1. LockOk(nd, treelock, call)
  BY DEF Inv
<1>2. /\ R1(nd, call, x) = {} /\ R2(nd, call, x) = {}
      /\ Cardinality(W1(call, x) \cup W2(call, x)) = 1
  BY <1>1, LockedBy
<1>3. W1(call, x) \cup W2(call, x) = {t}
  <2>1. IsFiniteSet(W1(call, x) \cup W2(call, x))
    BY ThreadsAssumption, FS_Subset DEF W1, W2
  <2>2. PICK y : W1(call, x) \cup W2(call, x) = {y}
    BY <2>1, <1>2, FS_Singleton
  <2> QED BY <2>2
<1>4. ASSUME t \in W1(call, x), t \in W2(call, x) PROVE FALSE
  <2>1. W1(call, x) = {t} /\ W2(call, x) = {t}
    BY <1>3, <1>4
  <2>2. Cardinality({t}) = 1
    BY FS_Singleton
  <2>3. WN(call, x) = 2
    BY <2>1, <2>2 DEF WN
  <2>4. LockVal(treelock[x], WN(call, x), RN(nd, call, x))
    BY <1>1 DEF LockOk
  <2> QED BY <2>3, <2>4 DEF LockVal
<1> QED BY <1>2, <1>3, <1>4

LEMMA FirstPlace ==
  ASSUME Inv, NEW t \in Threads, call[t].at \in {"hidenode", "rm", "table"}, Wr(call[t]),
         NEW x, x = lookup_node(nd, call[t].n, call[t].m), x # NoNode
  PROVE  x = call[t].w /\ x \in Ids /\ Exclusive(t, x) /\ nd[x].parent = call[t].n
<1> DEFINE r == call[t]
<1>1. r \in CallType /\ Asked(r) /\ Phase(r) /\ Locks(nd, r) /\ TreeInv(nd)
  BY AtStep
<1>2. r.l /\ r.op \in InDir /\ r.n \in Nodes /\ r.m \in Names
  BY <1>1 DEF Phase, Ready, Wr, InDir, Asked
<1>3. x \in Ids /\ nd[x].parent = r.n /\ nd[x].name = r.m
  BY <1>1, <1>2, LookupIs
<1>4. OnlyChild(nd, r.n, r.m, r.w) /\ Named(nd, r.n) /\ (r.w # NoNode => nd[r.w].nlookup > 0)
  BY <1>1, <1>2 DEF Locks
<1>5. x = r.w
  BY <1>3, <1>4 DEF OnlyChild
<1>6. t \in W1(call, x)
  BY <1>2, <1>5 DEF W1
<1>7. /\ R1(nd, call, x) = {} /\ R2(nd, call, x) = {} /\ W1(call, x) \cup W2(call, x) \subseteq {t}
  BY <1>3, <1>6, WrittenBy
<1>8. Named(nd, x) /\ nd[x].nlookup > 0
  BY <1>1, <1>2, <1>3, <1>4, <1>5, NamedBelow, NamesAssumption
<1> QED BY <1>3, <1>5, <1>7, <1>8 DEF Exclusive

LEMMA SecondPlace ==
  ASSUME Inv, NEW t \in Threads, call[t].at \in {"hidenode", "rm", "table"},
         call[t].op = "rename", NEW x, x = lookup_node(nd, call[t].n2, call[t].m2), x # NoNode
  PROVE  x = call[t].w2 /\ x \in Ids /\ Exclusive(t, x) /\ nd[x].parent = call[t].n2
<1> DEFINE r == call[t]
<1>1. r \in CallType /\ Asked(r) /\ Phase(r) /\ Locks(nd, r) /\ TreeInv(nd)
  BY AtStep
<1>2. r.l2 /\ Wr(r) /\ r.n2 \in Nodes /\ r.m2 \in Names
  BY <1>1 DEF Phase, Ready, Wr, Two, Asked
<1>3. x \in Ids /\ nd[x].parent = r.n2 /\ nd[x].name = r.m2
  BY <1>1, <1>2, LookupIs
<1>4. OnlyChild(nd, r.n2, r.m2, r.w2) /\ Named(nd, r.n2) /\ (r.w2 # NoNode => nd[r.w2].nlookup > 0)
  BY <1>1, <1>2 DEF Locks
<1>5. x = r.w2
  BY <1>3, <1>4 DEF OnlyChild
<1>6. t \in W2(call, x)
  BY <1>2, <1>5 DEF W2
<1>7. /\ R1(nd, call, x) = {} /\ R2(nd, call, x) = {} /\ W1(call, x) \cup W2(call, x) \subseteq {t}
  BY <1>3, <1>6, WrittenBy
<1>8. Named(nd, x) /\ nd[x].nlookup > 0
  BY <1>1, <1>2, <1>3, <1>4, <1>5, NamedBelow, NamesAssumption
<1> QED BY <1>3, <1>5, <1>7, <1>8 DEF Exclusive

\* A step that moves nodes of its own only.
LEMMA MoveStep ==
  ASSUME Inv, NEW t \in Threads, NEW e, TreeInv(e), NEW M,
         \A u \in Ids : e[u].nlookup = nd[u].nlookup,
         \A u \in Ids \ M : SamePlace(nd, e, u),
         \A u \in M \cap Ids : Exclusive(t, u) /\ e[u].parent \in {NoNode} \cup call[t].mx
  PROVE  TableStep(t, e, {})
<1>1. ASSUME NEW u \in Ids, ~SamePlace(nd, e, u)
      PROVE  /\ R1(nd, call, u) = {} /\ R2(nd, call, u) = {}
             /\ W1(call, u) \cup W2(call, u) \subseteq {t}
             /\ e[u].parent \in {NoNode} \cup call[t].mx
             /\ u \in {} \/ e[u].name = NoName \/ Named(nd, u)
  BY <1>1 DEF Exclusive
<1> QED BY <1>1 DEF TableStep

\* It leaves the counts alone.
LEMMA MoveBalanced ==
  ASSUME Inv, NEW t \in Threads, NEW q, Onward(q, call[t]), ~OpenAt(q), ~OpenAt(call[t]),
         call' = [call EXCEPT ![t] = q], NEW e,
         \A u \in Ids : e[u].nlookup = nd[u].nlookup /\ e[u].open_count = nd[u].open_count,
         NEW n \in Ids
  PROVE  Balanced(nd, e, call, call', t, knows, kopen, knows, kopen, n)
<1>1. call'[t] = q
  BY TypeSplit DEF Inv
<1>2. /\ Forgets(q, n) = Forgets(call[t], n) /\ Opened(q, n) = 0 /\ Opened(call[t], n) = 0
      /\ q.ino = call[t].ino
  BY DEF Forgets, Opened, Onward
<1> QED BY <1>1, <1>2 DEF Balanced

\* The places of the nodes a request has write-locked.
LEMMA WriterWas ==
  ASSUME Inv, NEW t \in Threads, call[t].at # "idle", Wr(call[t]), Ready(call[t])
  PROVE  /\ WriterAt(nd, call[t], call[t].w)
         /\ call[t].w # NoNode => call[t].w \in Ids
         /\ call[t].w2 # NoNode => call[t].w2 \in Ids /\ call[t].l2
         /\ WriterAt(nd, call[t], call[t].w2)
<1> DEFINE r == call[t]
<1>1. r \in CallType /\ Locks(nd, r) /\ r.l
  BY AtStep DEF Ready
<1>2. /\ r.w # NoNode => r.w \in Ids
      /\ r.w2 # NoNode => r.w2 \in Ids /\ r.l2
  BY <1>1 DEF Locks, CallType
<1>3. WriterAt(nd, r, r.w)
  BY <1>1 DEF Locks, WriterAt
<1>4. WriterAt(nd, r, r.w2)
  BY <1>1, <1>2 DEF Locks, WriterAt
<1> QED BY <1>2, <1>3, <1>4

\* They stay where the request can have them, but for the ones it moves.
MovedTo(d, e, r, w) == \/ SamePlace(d, e, w)
                       \/ e[w].parent \in {NoNode, r.n} \cup IF r.l2 THEN {r.n2} ELSE {}

LEMMA WriterNow ==
  ASSUME NEW r, NEW q, Onward(q, r), NEW d, NEW e, NEW w, w # NoNode => w \in Ids,
         WriterAt(d, r, w), \A u \in Ids : e[u].nlookup = d[u].nlookup,
         w # NoNode => MovedTo(d, e, r, w)
  PROVE  WriterAt(e, q, w)
<1>1. q.n = r.n /\ q.n2 = r.n2 /\ q.l2 = r.l2
  BY DEF Onward
<1> QED BY <1>1 DEF WriterAt, SamePlace, MovedTo

LEMMA TableIs ==
  ASSUME Inv, NEW t \in Threads, call[t].op \in {"unlink", "rmdir", "rename"},
         call[t].at \in {"hidenode", "rm", "table"}, NEW a \in {"free", "rm"},
         a \in Steps[call[t].op], NEW f, NEW hid, NEW q, Went(t, a, f, hid, q)
  PROVE  /\ Onto(q, call[t]) /\ Onward(q, call[t]) /\ q.at = a /\ Wr(q) /\ Wr(call[t])
         /\ call' = [call EXCEPT ![t] = q]
         /\ ~OpenAt(q) /\ ~OpenAt(call[t]) /\ Ready(call[t])
         /\ q.l /\ (q.op = "rename" => q.l2)
<1>1. Onward(q, call[t]) /\ q.at = a /\ call' = [call EXCEPT ![t] = q]
  BY DEF Went
<1>2. Phase(call[t])
  BY AtStep
<1>3. Ready(call[t]) /\ call[t].l /\ (call[t].op = "rename" => call[t].l2)
  BY <1>2 DEF Phase, Ready, Two
<1>4. ~OpenAt(q) /\ ~OpenAt(call[t]) /\ Wr(q) /\ Wr(call[t])
  BY <1>1 DEF OpenAt, Wr, Onward
<1>5. Onto(q, call[t])
  BY <1>1 DEF Onto
<1>6. q.l /\ (q.op = "rename" => q.l2)
  BY <1>1, <1>3 DEF Onward
<1> QED BY <1>1, <1>3, <1>4, <1>5, <1>6

LEMMA remove_node_requestInv == ASSUME Inv, NEW t \in Threads, remove_node_request(t) PROVE Inv'
<1> DEFINE r == call[t]
           c == lookup_node(nd, r.n, r.m)
<1>1. /\ r.op \in {"unlink", "rmdir"} /\ r.at = "table" /\ Goto(t, "free")
      /\ nd' = remove_node(nd, r.n, r.m)
      /\ UNCHANGED <<treelock, lockq, host, kernel, left>>
  BY DEF remove_node_request, At
<1>2. r \in CallType /\ Asked(r) /\ Locks(nd, r) /\ TreeInv(nd) /\ "free" \in Steps[r.op]
  BY <1>1, AtStep, StepsAre
<1>3. PICK q : Went(t, "free", r.f, r.hid, q)
  BY <1>1, <1>2, GotoIs DEF StepNames
<1>4. /\ Onto(q, r) /\ Onward(q, r) /\ q.at = "free" /\ Wr(q) /\ Wr(r)
      /\ call' = [call EXCEPT ![t] = q]
      /\ ~OpenAt(q) /\ ~OpenAt(r) /\ Ready(r) /\ q.l /\ (q.op = "rename" => q.l2)
  BY <1>1, <1>2, <1>3, TableIs
<1>5. r.n \in Nodes /\ Alive(nd, r.n) /\ r.m \in Names /\ r.l
  BY <1>1, <1>2, <1>4 DEF Asked, InDir, Locks, Ready
<1>6. Removed(nd, nd', r.n, r.m, c)
  BY <1>1, <1>2, <1>5, RemoveOk
<1>7. Moved(nd, nd', {c}) /\ (c # NoNode => nd'[c].parent = NoNode /\ c \in Ids)
  BY <1>6, <1>2, <1>5, LookupIs DEF Removed
<1>8. /\ \A u \in Ids : nd'[u].nlookup = nd[u].nlookup /\ nd'[u].open_count = nd[u].open_count
      /\ \A u \in Ids \ {c} : SamePlace(nd, nd', u)
      /\ TreeInv(nd')
  BY <1>7, IdsPlaces DEF Moved, Edit
<1>9. TableStep(t, nd', {})
  <2>1. \A u \in {c} \cap Ids : Exclusive(t, u) /\ nd'[u].parent \in {NoNode} \cup r.mx
    BY <1>1, <1>4, <1>7, FirstPlace, IdsPlaces
  <2> QED BY <2>1, <1>8, MoveStep
<1>10. WriterAt(nd', q, q.w) /\ WriterAt(nd', q, q.w2)
  <2>1. /\ WriterAt(nd, r, r.w) /\ (r.w # NoNode => r.w \in Ids)
        /\ WriterAt(nd, r, r.w2) /\ (r.w2 # NoNode => r.w2 \in Ids)
    BY <1>1, <1>4, WriterWas
  <2>2. \A w \in Ids : MovedTo(nd, nd', r, w)
    BY <1>7, <1>8, IdsPlaces DEF MovedTo
  <2>3. WriterAt(nd', q, r.w)
    BY <2>1, <2>2, <1>4, <1>8, WriterNow
  <2>4. WriterAt(nd', q, r.w2)
    BY <2>1, <2>2, <1>4, <1>8, WriterNow
  <2> QED BY <2>3, <2>4, <1>4 DEF Onward
<1>11. Locks(nd', q)
  BY <1>4, <1>9, <1>10, WriteLocks
<1>12. \A n \in Ids : Balanced(nd, nd', call, call', t, knows, kopen, knows, kopen, n)
  BY <1>4, <1>8, MoveBalanced
<1> QED BY <1>1, <1>4, <1>9, <1>11, <1>12, OnwardTableInv

\* What a rename does to the table: the nodes at its two places are the request's alone.
RenamesTo(t, s, v) ==
  LET r == call[t] IN
  /\ s # NoNode => s = r.w /\ s \in Ids /\ Exclusive(t, s) /\ s # v
  /\ v # NoNode => v = r.w2 /\ v \in Ids /\ Exclusive(t, v)
  /\ IF r.fl = "exchange" THEN Exchanged(nd, nd', s, v, r.n, r.m, r.n2, r.m2)
     ELSE IF s # NoNode THEN Renamed(nd, nd', s, v, r.n2, r.m2) ELSE nd' = nd

LEMMA RenameMoves ==
  ASSUME Inv, NEW t \in Threads, rename_node_request(t),
         NEW s, s = lookup_node(nd, call[t].n, call[t].m),
         NEW v, v = lookup_node(nd, call[t].n2, call[t].m2)
  PROVE  RenamesTo(t, s, v)
<1> DEFINE r == call[t]
<1>1. /\ r.op = "rename" /\ r.at = "table"
      /\ nd' = IF r.fl = "exchange" THEN exchange_node(nd, r.n, r.m, r.n2, r.m2)
               ELSE rename_node(nd, r.n, r.m, r.n2, r.m2)
  BY DEF rename_node_request, At
<1>2. Asked(r) /\ Locks(nd, r) /\ TreeInv(nd) /\ Ready(r) /\ Wr(r)
  BY <1>1, AtStep DEF Phase, Wr
<1>3. /\ r.n \in Nodes /\ Alive(nd, r.n) /\ r.m \in Names /\ r.l
      /\ r.n2 \in Nodes /\ Alive(nd, r.n2) /\ r.m2 \in Names /\ r.l2
  BY <1>1, <1>2 DEF Asked, InDir, Locks, Ready, Two
<1>4. s # NoNode => s = r.w /\ s \in Ids /\ Exclusive(t, s)
  BY <1>1, <1>2, FirstPlace
<1>5. v # NoNode => v = r.w2 /\ v \in Ids /\ Exclusive(t, v)
  BY <1>1, SecondPlace
<1>6. s \notin Chain(nd, r.n2) /\ v \notin Chain(nd, r.n)
  <2>1. NoNode \notin Chain(nd, r.n2) /\ NoNode \notin Chain(nd, r.n)
    BY <1>2, <1>3, InvTree, ChainIds, IdsPlaces
  <2>2. s # NoNode => t \notin R2(nd, call, s)
    BY <1>4 DEF Exclusive
  <2>3. v # NoNode => t \notin R1(nd, call, v)
    BY <1>5 DEF Exclusive
  <2> QED BY <2>1, <2>2, <2>3, <1>3 DEF R1, R2
<1>7. s # NoNode => s # v
  <2> SUFFICES ASSUME s # NoNode, s = v PROVE FALSE
    OBVIOUS
  <2>1. s \in Ids /\ t \in W1(call, s) /\ t \in W2(call, s)
    BY <1>3, <1>4, <1>5 DEF W1, W2
  <2> QED BY <2>1, WrittenBy
<1>8. CASE r.fl = "exchange"
  <2>1. s # NoNode => s # v /\ nd[s].nlookup > 0
    BY <1>4, <1>7 DEF Exclusive
  <2>2. v # NoNode => nd[v].nlookup > 0
    BY <1>5 DEF Exclusive
  <2>3. nd' = exchange_node(nd, r.n, r.m, r.n2, r.m2)
    BY <1>1, <1>8
  <2>4. Exchanged(nd, nd', s, v, r.n, r.m, r.n2, r.m2)
    BY <2>1, <2>2, <2>3, <1>2, <1>3, <1>6, ExchangeOk
  <2> QED BY <2>4, <1>4, <1>5, <1>7, <1>8 DEF RenamesTo
<1>9. CASE r.fl # "exchange"
  <2>1. nd' = rename_node(nd, r.n, r.m, r.n2, r.m2)
    BY <1>1, <1>9
  <2>2. CASE s # NoNode
    <3>1. r.m2 \in AllNames
      BY <1>3 DEF AllNames
    <3>2. Renamed(nd, nd', s, v, r.n2, r.m2)
      BY <2>1, <2>2, <3>1, <1>2, <1>3, <1>6, <1>7, RenameOk
    <3> QED BY <2>2, <3>2, <1>4, <1>5, <1>7, <1>9 DEF RenamesTo
  <2>3. CASE s = NoNode
    <3>1. nd' = nd
      BY <2>1, <2>3 DEF rename_node
    <3> QED BY <2>3, <3>1, <1>5, <1>9 DEF RenamesTo
  <2> QED BY <2>2, <2>3
<1> QED BY <1>8, <1>9

LEMMA rename_node_requestInv == ASSUME Inv, NEW t \in Threads, rename_node_request(t) PROVE Inv'
<1> DEFINE r == call[t]
<1>1. /\ r.op = "rename" /\ r.at = "table" /\ Goto(t, "free")
      /\ UNCHANGED <<treelock, lockq, host, kernel, left>>
  BY DEF rename_node_request, At
<1>2. r \in CallType /\ Asked(r) /\ Locks(nd, r) /\ TreeInv(nd) /\ "free" \in Steps[r.op]
  BY <1>1, AtStep, StepsAre
<1>3. PICK q : Went(t, "free", r.f, r.hid, q)
  BY <1>1, <1>2, GotoIs DEF StepNames
<1>4. /\ Onto(q, r) /\ Onward(q, r) /\ q.at = "free" /\ Wr(q) /\ Wr(r)
      /\ call' = [call EXCEPT ![t] = q]
      /\ ~OpenAt(q) /\ ~OpenAt(r) /\ Ready(r) /\ q.l /\ (q.op = "rename" => q.l2)
  BY <1>1, <1>2, <1>3, TableIs
<1>5. r.n \in r.mx /\ r.n2 \in Nodes /\ r.l2 /\ r.n2 \in r.mx
  BY <1>1, <1>2, <1>4 DEF Asked, InDir, Ready, Two
<1>6. PICK s, v : /\ s = lookup_node(nd, r.n, r.m) /\ v = lookup_node(nd, r.n2, r.m2)
                  /\ RenamesTo(t, s, v)
  BY RenameMoves
<1>7. /\ s # NoNode => s \in Ids /\ Exclusive(t, s)
      /\ v # NoNode => v \in Ids /\ Exclusive(t, v)
  BY <1>6 DEF RenamesTo
<1>10. /\ Moved(nd, nd', {s, v})
       /\ s # NoNode => nd'[s].parent \in {NoNode, r.n, r.n2}
       /\ v # NoNode => nd'[v].parent \in {NoNode, r.n, r.n2}
  <2>1. CASE r.fl = "exchange"
    BY <2>1, <1>6 DEF RenamesTo, Exchanged
  <2>2. CASE r.fl # "exchange" /\ s # NoNode
    BY <2>2, <1>6 DEF RenamesTo, Renamed
  <2>3. CASE r.fl # "exchange" /\ s = NoNode
    <3>1. nd' = nd
      BY <2>3, <1>6 DEF RenamesTo
    <3>2. Moved(nd, nd', {s, v})
      BY <3>1, <1>2 DEF Moved, Edit, SamePlace
    <3>3. v # NoNode => nd[v].parent = r.n2
      BY <1>1, <1>6, SecondPlace
    <3> QED BY <2>3, <3>1, <3>2, <3>3
  <2> QED BY <2>1, <2>2, <2>3
<1>11. /\ \A u \in Ids : nd'[u].nlookup = nd[u].nlookup /\ nd'[u].open_count = nd[u].open_count
       /\ \A u \in Ids \ {s, v} : SamePlace(nd, nd', u)
       /\ TreeInv(nd')
  BY <1>10, IdsPlaces DEF Moved, Edit
<1>12. TableStep(t, nd', {})
  <2>1. \A u \in {s, v} \cap Ids : Exclusive(t, u) /\ nd'[u].parent \in {NoNode} \cup r.mx
    BY <1>5, <1>7, <1>10, IdsPlaces
  <2> QED BY <2>1, <1>11, MoveStep
<1>13. WriterAt(nd', q, q.w) /\ WriterAt(nd', q, q.w2)
  <2>1. /\ WriterAt(nd, r, r.w) /\ (r.w # NoNode => r.w \in Ids)
        /\ WriterAt(nd, r, r.w2) /\ (r.w2 # NoNode => r.w2 \in Ids)
    BY <1>1, <1>4, WriterWas
  <2>2. ASSUME NEW w \in Ids
        PROVE  MovedTo(nd, nd', r, w)
    <3>1. CASE w \in {s, v}
      BY <3>1, <1>5, <1>10, IdsPlaces DEF MovedTo
    <3>2. CASE w \notin {s, v}
      BY <3>2, <1>11 DEF MovedTo
    <3> QED BY <3>1, <3>2
  <2>3. WriterAt(nd', q, r.w)
    BY <2>1, <2>2, <1>4, <1>11, WriterNow
  <2>4. WriterAt(nd', q, r.w2)
    BY <2>1, <2>2, <1>4, <1>11, WriterNow
  <2> QED BY <2>3, <2>4, <1>4 DEF Onward
<1>14. Locks(nd', q)
  BY <1>4, <1>12, <1>13, WriteLocks
<1>15. \A n \in Ids : Balanced(nd, nd', call, call', t, knows, kopen, knows, kopen, n)
  BY <1>4, <1>11, MoveBalanced
<1> QED BY <1>1, <1>4, <1>12, <1>14, <1>15, OnwardTableInv

\* What hiding a node does to the table.
Hides(t, s) ==
  LET r == call[t]
      p == Victim(r).dir
  IN
  /\ p \in Nodes /\ p \in r.mx /\ p \in {r.n} \cup IF r.l2 THEN {r.n2} ELSE {}
  /\ r.hid \in HiddenNames
  /\ s # NoNode => s \in Ids /\ Exclusive(t, s) /\ HidePlace(nd, nd', s, p, r.hid)
  /\ s = NoNode => nd' = nd

LEMMA HideMoves ==
  ASSUME Inv, NEW t \in Threads, hide_node_table(t),
         NEW s, s = lookup_node(nd, Victim(call[t]).dir, Victim(call[t]).name)
  PROVE  Hides(t, s)
<1> DEFINE r == call[t]
<1>1. PICK p, m, h : p = Victim(r).dir /\ m = Victim(r).name /\ h = r.hid
  OBVIOUS
<1>2. /\ r.op \in {"unlink", "rename"} /\ r.at = "hidenode"
      /\ nd' = rename_node_hide(nd, p, m, h)
  BY <1>1 DEF hide_node_table, At
<1>3. Asked(r) /\ Phase(r) /\ Locks(nd, r) /\ TreeInv(nd) /\ Ready(r) /\ Wr(r)
  BY <1>2, AtStep DEF Phase, Wr
<1>4. /\ p \in Nodes /\ Alive(nd, p) /\ m \in Names /\ p \in r.mx /\ h \in HiddenNames
      /\ p \in {r.n} \cup IF r.l2 THEN {r.n2} ELSE {}
  <2>1. CASE r.op = "unlink"
    BY <2>1, <1>1, <1>2, <1>3 DEF Asked, InDir, Locks, Ready, Two, Victim, Phase
  <2>2. CASE r.op = "rename"
    BY <2>2, <1>1, <1>2, <1>3 DEF Asked, InDir, Locks, Ready, Two, Victim, Phase
  <2> QED BY <2>1, <2>2, <1>2
<1>5. \A c \in Ids : ~(nd[c].parent = p /\ nd[c].name = h)
  BY <1>1, <1>2, <1>3 DEF Locks
<1>6. s # NoNode => s \in Ids /\ Exclusive(t, s)
  <2>1. CASE r.op = "unlink"
    <3>1. s = lookup_node(nd, r.n, r.m)
      BY <2>1 DEF Victim
    <3> QED BY <3>1, <1>2, <1>3, FirstPlace
  <2>2. CASE r.op = "rename"
    <3>1. s = lookup_node(nd, r.n2, r.m2)
      BY <2>2 DEF Victim
    <3> QED BY <2>2, <3>1, <1>2, SecondPlace
  <2> QED BY <2>1, <2>2, <1>2
<1>7. s = lookup_node(nd, p, m)
  BY <1>1
<1>8. s = NoNode => nd' = nd
  BY <1>2, <1>7 DEF rename_node_hide
<1>9. s # NoNode => HidePlace(nd, nd', s, p, h)
  BY <1>2, <1>3, <1>4, <1>5, <1>7, HideOk
<1> QED BY <1>1, <1>4, <1>6, <1>8, <1>9 DEF Hides

LEMMA hide_node_tableInv == ASSUME Inv, NEW t \in Threads, hide_node_table(t) PROVE Inv'
<1> DEFINE r == call[t]
           p == Victim(r).dir
           m == Victim(r).name
           h == r.hid
           s == lookup_node(nd, p, m)
           a == IF r.op = "unlink" \/ NameTaken(nd, p, m, h) THEN "free" ELSE "rm"
<1>1. /\ r.op \in {"unlink", "rename"} /\ r.at = "hidenode"
      /\ nd' = rename_node_hide(nd, p, m, h)
      /\ call' = [call EXCEPT ![t].at = a, ![t].hid = NoName]
      /\ UNCHANGED <<treelock, lockq, host, kernel, left>>
  BY DEF hide_node_table, At
<1>2. /\ r \in CallType /\ Asked(r) /\ Phase(r) /\ Locks(nd, r) /\ TreeInv(nd)
      /\ a \in Steps[r.op] /\ a \in {"free", "rm"} /\ a \in StepNames
  BY <1>1, AtStep, StepsAre DEF StepNames
<1> HIDE DEF a
<1>3. \E q : Went(t, a, r.f, NoName, q)
  <2>1. PICK q : Edited(r, a, r.f, NoName, q)
    BY DEF Edited
  <2>2. q = [r EXCEPT !.at = a, !.hid = NoName]
    BY <2>1, <1>2 DEF Edited, CallType
  <2>3. call' = [call EXCEPT ![t] = q]
    BY <1>1, <2>2
  <2>4. /\ r.f \in Files \cup {NoFile} /\ NoName \in HiddenNames \cup {NoName}
        /\ r \in CallType /\ a \in StepNames
    BY <1>2 DEF CallType
  <2>5. GoesTo(r, a, NoName, q)
    BY <2>1, <2>4, StepIs
  <2> QED BY <2>3, <2>5 DEF Went, GoesTo
<1>4. PICK q : Went(t, a, r.f, NoName, q)
  BY <1>3
<1>5. /\ Onto(q, r) /\ Onward(q, r) /\ q.at = a /\ Wr(q) /\ Wr(r)
      /\ call' = [call EXCEPT ![t] = q]
      /\ ~OpenAt(q) /\ ~OpenAt(r) /\ Ready(r) /\ q.l /\ (q.op = "rename" => q.l2)
  <2>1. /\ r.op \in {"unlink", "rmdir", "rename"} /\ r.at \in {"hidenode", "rm", "table"}
        /\ a \in {"free", "rm"} /\ a \in Steps[r.op]
    BY <1>1, <1>2
  <2> QED BY <2>1, <1>4, TableIs
<1>6. Hides(t, s)
  BY HideMoves
<1> HIDE DEF p, m, h, s
<1>7. /\ p \in Nodes /\ p \in r.mx /\ p \in {r.n} \cup IF r.l2 THEN {r.n2} ELSE {}
      /\ h \in HiddenNames /\ (s # NoNode => s \in Ids /\ Exclusive(t, s))
      /\ s # NoNode => HidePlace(nd, nd', s, p, h)
      /\ s = NoNode => nd' = nd
  BY <1>6 DEF Hides, p, h
<1>9. /\ TreeInv(nd') /\ \A u \in Ids \ {s} : SamePlace(nd, nd', u)
      /\ \A u \in Ids : nd'[u].nlookup = nd[u].nlookup /\ nd'[u].open_count = nd[u].open_count
      /\ s # NoNode => nd'[s].parent = p /\ nd'[s].name = h
  <2>1. CASE s = NoNode
    BY <2>1, <1>2, <1>7 DEF SamePlace
  <2>2. CASE s # NoNode
    BY <2>2, <1>7, IdsPlaces DEF HidePlace
  <2> QED BY <2>1, <2>2
<1>10. TableStep(t, nd', {})
  <2>1. \A u \in {s} \cap Ids : Exclusive(t, u) /\ nd'[u].parent \in {NoNode} \cup r.mx
    BY <1>7, <1>9, IdsPlaces
  <2> QED BY <2>1, <1>9, MoveStep
<1>11. WriterAt(nd', q, q.w) /\ WriterAt(nd', q, q.w2)
  <2>1. /\ WriterAt(nd, r, r.w) /\ (r.w # NoNode => r.w \in Ids)
        /\ WriterAt(nd, r, r.w2) /\ (r.w2 # NoNode => r.w2 \in Ids)
    BY <1>1, <1>5, WriterWas
  <2>2. ASSUME NEW w \in Ids
        PROVE  MovedTo(nd, nd', r, w)
    <3>1. CASE w = s
      BY <3>1, <1>7, <1>9, IdsPlaces DEF MovedTo
    <3>2. CASE w # s
      BY <3>2, <1>9 DEF MovedTo
    <3> QED BY <3>1, <3>2
  <2>3. Onward(q, r) /\ \A u \in Ids : nd'[u].nlookup = nd[u].nlookup
    BY <1>5, <1>9
  <2>4. WriterAt(nd', q, r.w)
    BY <2>1, <2>2, <2>3, WriterNow
  <2>5. WriterAt(nd', q, r.w2)
    BY <2>1, <2>2, <2>3, WriterNow
  <2> QED BY <2>4, <2>5, <1>5 DEF Onward
<1>12. ASSUME NEW n, NEW k \in Names, NEW w, OnlyChild(nd, n, k, w) PROVE OnlyChild(nd', n, k, w)
  <2> SUFFICES ASSUME NEW c \in Ids, nd'[c].parent = n, nd'[c].name = k PROVE c = w
    BY DEF OnlyChild
  <2>1. c # s
    BY <1>7, <1>9, NamesAssumption, IdsPlaces
  <2>2. nd[c].parent = n /\ nd[c].name = k
    BY <2>1, <1>9 DEF SamePlace
  <2> QED BY <2>2, <1>12 DEF OnlyChild
<1>13. q.at # "free" => OnlyChild(nd', q.n, q.m, q.w) /\ (q.l2 => OnlyChild(nd', q.n2, q.m2, q.w2))
  <2>1. q.n = r.n /\ q.m = r.m /\ q.w = r.w /\ q.n2 = r.n2 /\ q.m2 = r.m2 /\ q.w2 = r.w2
        /\ q.l2 = r.l2
    BY <1>5 DEF Onward
  <2>2. r.m \in Names /\ OnlyChild(nd, r.n, r.m, r.w)
    BY <1>1, <1>2, <1>5 DEF Asked, InDir, Locks, Ready
  <2>3. r.l2 => r.m2 \in Names /\ OnlyChild(nd, r.n2, r.m2, r.w2)
    BY <1>1, <1>2, <1>5 DEF Asked, Locks
  <2> QED BY <2>1, <2>2, <2>3, <1>12
<1>14. Locks(nd', q)
  <2>1. q.at \in {"rm", "table", "free"}
    BY <1>2, <1>5
  <2> QED BY <2>1, <1>5, <1>10, <1>11, <1>13, WriteLocks
<1>15. \A n \in Ids : Balanced(nd, nd', call, call', t, knows, kopen, knows, kopen, n)
  BY <1>5, <1>9, MoveBalanced
<1> QED BY <1>1, <1>5, <1>10, <1>14, <1>15, OnwardTableInv

=============================================================================
