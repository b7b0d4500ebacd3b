------------------------ MODULE FuseTreeQueueProofs ------------------------
(***************************************************************************)
(* That the lock queue of FuseTree has no way to get stuck but the one       *)
(* BlocksItself names (QueueMoves).  QInv, the strengthening: a request that *)
(* has locks is at work, or every one that sleeps is blocked by a lock; and   *)
(* of those that sleep only the first of the queue has locks.  So if all      *)
(* sleep, the first has all the locks there are, and its own block it.        *)
(***************************************************************************)
EXTENDS FuseTreeStepProofs

---------------------------------------------------------------------------
(* Paths that are blocked *)

\* Every lock of tl is one of g, and every waiting writer.
Tighter(tl, g) == \A u \in Ids : (tl[u] # 0 => g[u] # 0) /\ (tl[u] < 0 => g[u] < 0)

\* The path n, m of request r is not to be had.
PathBlocked(d, tl, r, n, m) ==
  \/ Wr(r) /\ \E c \in Ids : Child(d, n, m, c) /\ tl[c] # 0
  \/ \E u \in Chain(d, n) : tl[u] < 0

LEMMA BlockedTighter ==
  ASSUME NEW d, TreeInv(d), NEW tl, NEW g, Tighter(tl, g), NEW n \in Nodes, NEW m, NEW r,
         PathBlocked(d, tl, r, n, m)
  PROVE  PathBlocked(d, g, r, n, m)
<1>1. Chain(d, n) \subseteq Ids
  BY InvTree, ChainIds, IdsPlaces
<1> QED BY <1>1 DEF PathBlocked, Tighter

LEMMA TighterTrans ==
  ASSUME NEW tl, NEW g, NEW h, Tighter(tl, g), Tighter(g, h)
  PROVE  Tighter(tl, h)
BY DEF Tighter

\* From tl to g, the path n, m of r is locked, the node w for writing.
LocksPath(d, tl, g, r, n, m, w) ==
  /\ w \in Ids \cup {NoNode} /\ (w # NoNode => Wr(r) /\ Child(d, n, m, w) /\ w \notin Chain(d, n))
  /\ \A u \in Ids : IF u \in Chain(d, n) THEN tl[u] >= 0 /\ g[u] > 0
                    ELSE IF u = w THEN tl[u] = 0 /\ g[u] < 0 ELSE g[u] = tl[u]

\* It is not, but its writer may wait.
OnlyWaits(d, tl, g, r, n, m) ==
  \A u \in Ids : \/ g[u] = tl[u]
                 \/ tl[u] > 0 /\ g[u] < 0 /\ Wr(r) /\ Child(d, n, m, u)

Bounded(tl) == tl \in [Ids -> Int] /\ \A u \in Ids : tl[u] + TREELOCK_WAIT_OFFSET < 0

LEMMA LockBound ==
  ASSUME NEW d, NEW tl \in [Ids -> Int], NEW cl, LockOk(d, tl, cl)
  PROVE  Bounded(tl)
<1> SUFFICES ASSUME NEW u \in Ids PROVE tl[u] + TREELOCK_WAIT_OFFSET < 0
  BY DEF Bounded
<1>1. LockVal(tl[u], WN(cl, u), RN(d, cl, u)) /\ tl[u] \in Int
  BY DEF LockOk
<1>2. RN(d, cl, u) \in Nat /\ RN(d, cl, u) < 2147483648
  BY CountBounds, SMT
<1> QED BY <1>1, <1>2, SMT DEF LockVal, TREELOCK_WAIT_OFFSET, TREELOCK_WRITE

\* What a try at the path n, m of r, with the result a, does to the locks tl.
Tries(d, tl, r, n, m, a) ==
  /\ a.err \in {"ok", "again", "noent"}
  /\ a.err = "ok" => LocksPath(d, tl, a.tl, r, n, m, a.w)
  /\ a.err # "ok" => OnlyWaits(d, tl, a.tl, r, n, m)
  /\ a.err = "again" => PathBlocked(d, a.tl, r, n, m)

LEMMA TryIs ==
  ASSUME NEW d, TreeInv(d), NEW tl, Bounded(tl), NEW r, NEW n \in Nodes, NEW m,
         NEW w, w = IF Wr(r) THEN lookup_node(d, n, m) ELSE NoNode,
         NEW path, NEW a, a = LockPath(d, tl, Chain(d, n), w, path)
  PROVE  Tries(d, tl, r, n, m, a)
<1>1. PICK C : C = Chain(d, n)
  OBVIOUS
<1>2. C \subseteq Ids /\ Tree(d)
  BY <1>1, InvTree, ChainIds, IdsPlaces
<1>3. w \in Ids \cup {NoNode} /\ (w # NoNode => Wr(r) /\ Child(d, n, m, w))
  BY LookupIs DEF Child
<1>4. w # NoNode => w \in Ids /\ w \notin C
  <2> SUFFICES ASSUME w # NoNode PROVE w \in Ids /\ w \notin C
    OBVIOUS
  <2>1. w \in Ids /\ d[w].parent = n
    BY <1>3 DEF Child
  <2> QED BY <1>1, <1>2, <2>1, ChainNoLoop
<1> DEFINE named == {u \in C : d[u].name # NoName}
           tlw == [u \in Ids |-> IF u = w THEN TREELOCK_WRITE ELSE tl[u]]
           fail(e, t) == [err |-> e, tl |-> t, w |-> NoNode, path |-> <<>>]
           new == [u \in Ids |-> IF u \in C THEN tlw[u] + 1 ELSE tlw[u]]
<1>5. a = IF w # NoNode /\ tl[w] # 0 THEN fail("again", WaitFor(tl, w))
          ELSE IF \E u \in named : tlw[u] < 0 THEN fail("again", tl)
          ELSE IF named # C THEN fail("noent", tl)
          ELSE [err |-> "ok", w |-> w, path |-> path, tl |-> new]
  BY <1>1 DEF LockPath
<1> HIDE DEF named, tlw, new
<1>6. tl \in [Ids -> Int] /\ \A u \in Ids : tl[u] + TREELOCK_WAIT_OFFSET < 0
  BY DEF Bounded
<1>7. CASE w # NoNode /\ tl[w] # 0
  <2>1. a.err = "again" /\ a.tl = WaitFor(tl, w)
    BY <1>5, <1>7
  <2>2. ASSUME NEW u \in Ids
        PROVE  \/ a.tl[u] = tl[u]
               \/ u = w /\ tl[u] > 0 /\ a.tl[u] < 0
    <3>1. a.tl[u] = IF u = w /\ tl[u] > 0 THEN tl[u] + TREELOCK_WAIT_OFFSET ELSE tl[u]
      BY <1>6, <1>4, <1>7, <2>1 DEF WaitFor
    <3> QED BY <1>6, <3>1
  <2>3. OnlyWaits(d, tl, a.tl, r, n, m)
    BY <1>3, <1>7, <2>2 DEF OnlyWaits
  <2>4. a.tl[w] # 0
    BY <1>4, <1>6, <1>7, <2>2
  <2>5. PathBlocked(d, a.tl, r, n, m)
    BY <1>3, <1>4, <1>7, <2>4 DEF PathBlocked
  <2> QED BY <2>1, <2>3, <2>5 DEF Tries
<1>8. CASE ~(w # NoNode /\ tl[w] # 0) /\ \E u \in named : tlw[u] < 0
  <2>1. a.err = "again" /\ a.tl = tl
    BY <1>5, <1>8
  <2>2. PICK u \in C : tlw[u] < 0
    BY <1>8 DEF named
  <2>3. u \in Ids /\ u # w /\ tl[u] < 0
    BY <1>2, <1>4, <2>2, IdsPlaces DEF tlw
  <2>4. PathBlocked(d, a.tl, r, n, m)
    BY <1>1, <2>1, <2>2, <2>3 DEF PathBlocked
  <2>5. OnlyWaits(d, tl, a.tl, r, n, m)
    BY <2>1 DEF OnlyWaits
  <2> QED BY <2>1, <2>4, <2>5 DEF Tries
<1>9. CASE ~(w # NoNode /\ tl[w] # 0) /\ ~(\E u \in named : tlw[u] < 0) /\ named # C
  <2>1. a.err = "noent" /\ a.tl = tl
    BY <1>5, <1>9
  <2>2. OnlyWaits(d, tl, a.tl, r, n, m)
    BY <2>1 DEF OnlyWaits
  <2> QED BY <2>1, <2>2 DEF Tries
<1>10. CASE ~(w # NoNode /\ tl[w] # 0) /\ ~(\E u \in named : tlw[u] < 0) /\ named = C
  <2>1. a.err = "ok" /\ a.tl = new /\ a.w = w
    BY <1>5, <1>10
  <2>2. ASSUME NEW u \in Ids
        PROVE  IF u \in Chain(d, n) THEN tl[u] >= 0 /\ a.tl[u] > 0
               ELSE IF u = w THEN tl[u] = 0 /\ a.tl[u] < 0 ELSE a.tl[u] = tl[u]
    <3>1. a.tl[u] = IF u \in C THEN tlw[u] + 1 ELSE tlw[u]
      BY <2>1 DEF new
    <3>2. CASE u \in C
      <4>1. u # w
        BY <1>4, <3>2, IdsPlaces
      <4>2. tlw[u] = tl[u] /\ ~(tlw[u] < 0)
        BY <1>10, <3>2, <4>1 DEF tlw
      <4> QED BY <1>1, <1>6, <3>1, <3>2, <4>2
    <3>3. CASE u \notin C /\ u = w
      <4>1. tlw[u] = -1 /\ tl[u] = 0
        BY <1>10, <3>3, IdsPlaces DEF TREELOCK_WRITE, tlw
      <4> QED BY <1>1, <3>1, <3>3, <4>1
    <3>4. CASE u \notin C /\ u # w
      BY <1>1, <3>1, <3>4 DEF tlw
    <3> QED BY <3>2, <3>3, <3>4
  <2>3. w # NoNode => Wr(r) /\ Child(d, n, m, w) /\ w \notin Chain(d, n)
    BY <1>1, <1>3, <1>4
  <2>4. LocksPath(d, tl, a.tl, r, n, m, a.w)
    BY <1>3, <2>1, <2>2, <2>3 DEF LocksPath
  <2> QED BY <2>1, <2>4 DEF Tries
<1> QED BY <1>7, <1>8, <1>9, <1>10

LEMMA WaitsTighter ==
  ASSUME NEW d, NEW tl \in [Ids -> Int], NEW g, NEW r, NEW n, NEW m, OnlyWaits(d, tl, g, r, n, m)
  PROVE  Tighter(tl, g)
BY DEF OnlyWaits, Tighter

LEMMA LocksTighter ==
  ASSUME NEW d, NEW tl \in [Ids -> Int], NEW g, NEW r, NEW n, NEW m, NEW w,
         LocksPath(d, tl, g, r, n, m, w)
  PROVE  Tighter(tl, g)
<1> SUFFICES ASSUME NEW u \in Ids PROVE (tl[u] # 0 => g[u] # 0) /\ (tl[u] < 0 => g[u] < 0)
  BY DEF Tighter
<1>1. IF u \in Chain(d, n) THEN tl[u] >= 0 /\ g[u] > 0
      ELSE IF u = w THEN tl[u] = 0 /\ g[u] < 0 ELSE g[u] = tl[u]
  BY DEF LocksPath
<1> QED BY <1>1

\* A path that is locked and given up, while the writer of another comes to wait.
LEMMA UndoNegative ==
  ASSUME NEW d, TreeInv(d), NEW tl \in [Ids -> Int], NEW g, NEW h, NEW k, NEW r, NEW n, NEW m, NEW w,
         LocksPath(d, tl, g, r, n, m, w), NEW n2, NEW m2, OnlyWaits(d, g, h, r, n2, m2),
         k = unlock_path(d, h, n, w), NEW u \in Ids, tl[u] < 0
  PROVE  k[u] < 0
<1>1. u \notin Chain(d, n) /\ u # w /\ g[u] = tl[u]
  BY DEF LocksPath
<1>2. h[u] = g[u]
  BY <1>1 DEF OnlyWaits
<1>3. k[u] = h[u]
  BY <1>1 DEF unlock_path
<1> QED BY <1>1, <1>2, <1>3

\* The two paths of a request that moves: what it locks for writing in one is not in the
\* other.
Clear(d, r) ==
  Wr(r) /\ Two(r) =>
    /\ Split(d, r.n, r.m, r.n2) /\ Split(d, r.n2, r.m2, r.n)
    /\ \A c \in Ids : ~(Child(d, r.n, r.m, c) /\ Child(d, r.n2, r.m2, c))

\* What blocks one path is not undone with the other.
Parts(d, r, n, m, n2, m2) ==
  Wr(r) => /\ Split(d, n, m, n2) /\ Split(d, n2, m2, n)
           /\ \A c \in Ids : ~(Child(d, n, m, c) /\ Child(d, n2, m2, c))

LEMMA UndoBlocked ==
  ASSUME NEW d, TreeInv(d), NEW tl, NEW g, NEW h \in [Ids -> Int], NEW k, NEW r,
         NEW n \in Nodes, NEW m, NEW w, NEW n2 \in Nodes, NEW m2, Parts(d, r, n, m, n2, m2),
         LocksPath(d, tl, g, r, n, m, w), OnlyWaits(d, g, h, r, n2, m2),
         PathBlocked(d, h, r, n2, m2), k = unlock_path(d, h, n, w)
  PROVE  PathBlocked(d, k, r, n2, m2)
<1>1. CASE Wr(r) /\ \E c \in Ids : Child(d, n2, m2, c) /\ h[c] # 0
  <2>1. PICK c \in Ids : Child(d, n2, m2, c) /\ h[c] # 0
    BY <1>1
  <2>2. c \notin Chain(d, n)
    BY <1>1, <2>1 DEF Parts, Split
  <2>3. c # w
    BY <1>1, <2>1, IdsPlaces DEF Parts, LocksPath
  <2>4. k[c] = h[c]
    BY <2>2, <2>3 DEF unlock_path
  <2> QED BY <1>1, <2>1, <2>4 DEF PathBlocked
<1>2. CASE \E u \in Chain(d, n2) : h[u] < 0
  <2>1. PICK u \in Chain(d, n2) : h[u] < 0
    BY <1>2
  <2>2. u \in Ids
    BY <2>1, InvTree, ChainIds, IdsPlaces
  <2>3. u # w
    BY <2>1, <2>2, IdsPlaces DEF Parts, LocksPath, Split
  <2>4. u \notin Chain(d, n)
    <3> SUFFICES ASSUME u \in Chain(d, n) PROVE FALSE
      OBVIOUS
    <3>1. g[u] > 0
      BY <2>2 DEF LocksPath
    <3>2. Wr(r) /\ Child(d, n2, m2, u)
      BY <2>1, <2>2, <3>1 DEF OnlyWaits
    <3> QED BY <2>2, <3>2 DEF Parts, Split
  <2>5. k[u] = h[u]
    BY <2>2, <2>3, <2>4 DEF unlock_path
  <2> QED BY <2>1, <2>5 DEF PathBlocked
<1> QED BY <1>1, <1>2 DEF PathBlocked
---------------------------------------------------------------------------
(* Tries at the paths of a request, again *)

Holds(r) == r.l \/ r.l2

\* What the first try does to the locks.
FirstDoes(tl, r, a) ==
  /\ r.l => a.tl = tl /\ a.r = r
  /\ ~r.l /\ a.r.l => LocksPath(nd, tl, a.tl, r, r.n, r.m, a.r.w)
  /\ ~a.r.l => /\ a.r = r /\ OnlyWaits(nd, tl, a.tl, r, r.n, r.m)
               /\ a.err = "again" => PathBlocked(nd, a.tl, r, r.n, r.m)

LEMMA FirstIs ==
  ASSUME TreeInv(nd), NEW tl, Bounded(tl), NEW r \in CallType, r.n \in Nodes,
         NEW a, a = TryFirst(Untried(tl, r))
  PROVE  FirstDoes(tl, r, a)
<1>1. PICK s : s = Untried(tl, r)
  OBVIOUS
<1>2. s.tl = tl /\ s.r = r /\ s.err = "ok" /\ a = TryFirst(s)
  BY <1>1 DEF Untried
<1>3. CASE r.l
  <2>1. a = s
    BY <1>2, <1>3 DEF TryFirst
  <2> QED BY <1>2, <1>3, <2>1 DEF FirstDoes
<1>4. CASE ~r.l
  <2>1. PICK w : w = IF Wr(r) THEN lookup_node(nd, r.n, r.m) ELSE NoNode
    OBVIOUS
  <2>2. PICK path : path = PathFor(nd, r.n, r.m)
    OBVIOUS
  <2>3. PICK b : b = LockPath(nd, tl, Chain(nd, r.n), w, path)
    OBVIOUS
  <2>4. Tries(nd, tl, r, r.n, r.m, b)
    BY <2>1, <2>3, TryIs
  <2>5. a = Took(s, b)
    BY <1>2, <1>4, <2>1, <2>2, <2>3 DEF TryFirst, try_get_path
  <2>6. CASE b.err = "ok"
    <3>1. a.tl = b.tl /\ a.r = [r EXCEPT !.l = TRUE, !.w = b.w, !.p = b.path]
      BY <1>2, <2>5, <2>6 DEF Took
    <3>2. a.r.l /\ a.r.w = b.w
      BY <3>1 DEF CallType
    <3> QED BY <1>4, <2>4, <2>6, <3>1, <3>2 DEF Tries, FirstDoes
  <2>7. CASE b.err # "ok"
    <3>1. a.tl = b.tl /\ a.err = b.err /\ a.r = r
      BY <1>2, <2>5, <2>7 DEF Took
    <3> QED BY <1>4, <2>4, <2>7, <3>1 DEF Tries, FirstDoes
  <2> QED BY <2>6, <2>7
<1> QED BY <1>3, <1>4

\* What the second one does, on s; r is the request before the first.
SecondDoes(s, r, a) ==
  /\ s.r.l2 => a.tl = s.tl /\ a.r = s.r
  /\ ~s.r.l2 /\ a.r.l2 => /\ LocksPath(nd, s.tl, a.tl, r, r.n2, r.m2, a.r.w2) /\ a.r.w = s.r.w
  /\ ~a.r.l2 => /\ a.r = s.r /\ OnlyWaits(nd, s.tl, a.tl, r, r.n2, r.m2)
                /\ a.err = "again" => PathBlocked(nd, a.tl, r, r.n2, r.m2)

LEMMA SecondDoesIs ==
  ASSUME TreeInv(nd), NEW s, Bounded(s.tl), s.r \in CallType, NEW r, Same(s.r, r), r.n2 \in Nodes,
         NEW a, a = TrySecond(s)
  PROVE  SecondDoes(s, r, a)
<1>1. (Wr(s.r) <=> Wr(r)) /\ s.r.n2 = r.n2 /\ s.r.m2 = r.m2
  BY DEF Same, Wr
<1>3. CASE s.r.l2
  <2>1. a = s
    BY <1>3 DEF TrySecond
  <2> QED BY <1>3, <2>1 DEF SecondDoes
<1>4. CASE ~s.r.l2
  <2>1. PICK w : w = IF Wr(r) THEN lookup_node(nd, r.n2, r.m2) ELSE NoNode
    OBVIOUS
  <2>2. PICK path : path = PathFor(nd, r.n2, r.m2)
    OBVIOUS
  <2>3. PICK b : b = LockPath(nd, s.tl, Chain(nd, r.n2), w, path)
    OBVIOUS
  <2>4. Tries(nd, s.tl, r, r.n2, r.m2, b)
    BY <2>1, <2>3, TryIs
  <2>5. a = Took2(s, b)
    <3>1. w = IF Wr(s.r) THEN lookup_node(nd, s.r.n2, s.r.m2) ELSE NoNode
      BY <1>1, <2>1
    <3> QED BY <1>1, <1>4, <3>1, <2>2, <2>3 DEF TrySecond, try_get_path
  <2>6. CASE b.err = "ok"
    <3>1. a.tl = b.tl /\ a.r = [s.r EXCEPT !.l2 = TRUE, !.w2 = b.w, !.p2 = b.path]
      BY <2>5, <2>6 DEF Took2
    <3>2. a.r.l2 /\ a.r.w2 = b.w /\ a.r.w = s.r.w
      BY <3>1 DEF CallType
    <3> QED BY <1>4, <2>4, <2>6, <3>1, <3>2 DEF Tries, SecondDoes
  <2>7. CASE b.err # "ok"
    <3>1. a.tl = b.tl /\ a.err = b.err /\ a.r = s.r
      BY <2>5, <2>7 DEF Took2
    <3> QED BY <1>4, <2>4, <2>7, <3>1 DEF Tries, SecondDoes
  <2> QED BY <2>6, <2>7
<1> QED BY <1>3, <1>4

\* A request's waiting writers stay when its locks are given up, and what blocks it.
StillBlocked(tl, k, r, e) ==
  /\ \A u \in Ids : tl[u] < 0 => k[u] < 0
  /\ e # "noent" => \/ PathBlocked(nd, k, r, r.n, r.m)
                    \/ Two(r) /\ PathBlocked(nd, k, r, r.n2, r.m2)

LEMMA OneHeld ==
  ASSUME TreeInv(nd), NEW tl \in [Ids -> Int], NEW r, r.n \in Nodes, r.n2 \in Nodes, Clear(nd, r),
         Two(r), NEW g, NEW h \in [Ids -> Int], NEW w, LocksPath(nd, tl, g, r, r.n, r.m, w),
         OnlyWaits(nd, g, h, r, r.n2, r.m2), NEW e,
         e # "noent" => PathBlocked(nd, h, r, r.n2, r.m2),
         NEW k, k = unlock_path(nd, h, r.n, w)
  PROVE  StillBlocked(tl, k, r, e)
<1>1. Parts(nd, r, r.n, r.m, r.n2, r.m2)
  BY DEF Clear, Parts
<1>2. ASSUME NEW u \in Ids, tl[u] < 0 PROVE k[u] < 0
  BY <1>2, UndoNegative
<1>3. ASSUME e # "noent" PROVE PathBlocked(nd, k, r, r.n2, r.m2)
  BY <1>1, <1>3, UndoBlocked
<1> QED BY <1>2, <1>3 DEF StillBlocked

LEMMA OtherHeld ==
  ASSUME TreeInv(nd), NEW tl \in [Ids -> Int], NEW r, r.n \in Nodes, r.n2 \in Nodes, Clear(nd, r),
         Two(r), NEW g \in [Ids -> Int], NEW h \in [Ids -> Int], NEW w,
         OnlyWaits(nd, tl, g, r, r.n, r.m), PathBlocked(nd, g, r, r.n, r.m),
         LocksPath(nd, g, h, r, r.n2, r.m2, w), NEW e,
         NEW k, k = unlock_path(nd, h, r.n2, w)
  PROVE  StillBlocked(tl, k, r, e)
<1>1. Parts(nd, r, r.n2, r.m2, r.n, r.m)
  BY DEF Clear, Parts
<1>2. OnlyWaits(nd, h, h, r, r.n, r.m) /\ Tighter(tl, g) /\ Tighter(g, h)
  BY WaitsTighter, LocksTighter DEF OnlyWaits
<1>3. ASSUME NEW u \in Ids, tl[u] < 0 PROVE k[u] < 0
  <2>1. g[u] < 0
    BY <1>2, <1>3 DEF Tighter
  <2> QED BY <1>2, <2>1, UndoNegative
<1>4. PathBlocked(nd, h, r, r.n, r.m)
  BY <1>2, BlockedTighter
<1>5. PathBlocked(nd, k, r, r.n, r.m)
  BY <1>1, <1>2, <1>4, UndoBlocked
<1> QED BY <1>3, <1>5 DEF StillBlocked
RetryDoes(tl, r, a) ==
  /\ a.err # "noent" /\ ~a.r.l => PathBlocked(nd, a.tl, r, r.n, r.m)
  /\ a.err # "noent" /\ Two(r) /\ ~a.r.l2 => PathBlocked(nd, a.tl, r, r.n2, r.m2)
  /\ IF r.l THEN a.r.w = r.w ELSE a.r.l /\ a.r.w # NoNode => Child(nd, r.n, r.m, a.r.w)
  /\ IF r.l2 THEN a.r.w2 = r.w2 ELSE a.r.l2 /\ a.r.w2 # NoNode => Child(nd, r.n2, r.m2, a.r.w2)
  /\ ~Holds(r) /\ ~Ready(a.r) => StillBlocked(tl, Unlock(a.tl, a.r), r, a.err)

LEMMA RetryBlocks ==
  ASSUME TreeInv(nd), NEW t \in Threads, NEW cl \in [Threads -> CallType], NEW tl, NEW r,
         Held(nd, tl, cl, t, r), Lockable(nd, r), Clear(nd, r),
         NEW a, a = RetryPaths(TryFirst(Untried(tl, r)))
  PROVE  RetryDoes(tl, r, a)
<1>1. PICK s : s = Untried(tl, r)
  OBVIOUS
<1>2. s.tl = tl /\ s.r = r /\ s.err = "ok"
  BY <1>1 DEF Untried
<1>3. PICK b : b = TryFirst(s)
  OBVIOUS
<1>4. FirstTried(cl, t, s, b)
  BY <1>2, <1>3, TryFirstOk
<1>5. /\ Held(nd, b.tl, cl, t, b.r) /\ Same(b.r, r) /\ b.r.l2 = r.l2
      /\ b.err \in {"ok", "again", "noent"} /\ (b.err = "ok" <=> b.r.l)
  BY <1>2, <1>4 DEF FirstTried
<1>6. /\ tl \in [Ids -> Int] /\ Bounded(tl) /\ r \in CallType
      /\ b.tl \in [Ids -> Int] /\ Bounded(b.tl) /\ b.r \in CallType /\ (r.l2 => Two(r))
  BY <1>5, LockBound DEF Held, Locks
<1>7. Asked(r) /\ r.n \in Nodes /\ (Two(r) => r.n2 \in Nodes)
  BY DEF Lockable, Asked
<1>8. FirstDoes(tl, r, b)
  BY <1>1, <1>3, <1>6, <1>7, FirstIs
<1>9. (Two(b.r) <=> Two(r)) /\ Lockable(nd, b.r)
  BY <1>5, AskedSame
<1>10. a = RetryPaths(b)
  BY <1>1, <1>3
<1>11. ASSUME b.r.l, r.l => b.r.w = r.w, ~r.l => LocksPath(nd, tl, b.tl, r, r.n, r.m, b.r.w)
       PROVE  IF r.l THEN b.r.w = r.w ELSE b.r.w # NoNode => Child(nd, r.n, r.m, b.r.w)
  BY <1>11 DEF LocksPath
<1>12. /\ r.l => b.tl = tl /\ b.r = r
       /\ ~r.l /\ b.r.l => LocksPath(nd, tl, b.tl, r, r.n, r.m, b.r.w)
       /\ ~b.r.l => /\ b.r = r /\ OnlyWaits(nd, tl, b.tl, r, r.n, r.m)
                    /\ b.err = "again" => PathBlocked(nd, b.tl, r, r.n, r.m)
  BY <1>8 DEF FirstDoes
<1>13. CASE ~(Two(b.r) /\ b.err # "noent")
  <2>1. a = b
    BY <1>10, <1>13 DEF RetryPaths
  <2>2. r.l2 => b.r = r
    BY <1>5, <1>6, <1>9, <1>12, <1>13
  <2>3. IF r.l2 THEN a.r.w2 = r.w2 ELSE a.r.l2 /\ a.r.w2 # NoNode => Child(nd, r.n2, r.m2, a.r.w2)
    BY <1>5, <2>1, <2>2
  <2>4. IF r.l THEN a.r.w = r.w ELSE a.r.l /\ a.r.w # NoNode => Child(nd, r.n, r.m, a.r.w)
    BY <1>11, <1>12, <2>1
  <2>5. a.err # "noent" /\ ~a.r.l => PathBlocked(nd, a.tl, r, r.n, r.m)
    BY <1>5, <1>12, <2>1
  <2>6. a.err # "noent" => ~Two(r)
    BY <1>9, <1>13, <2>1
  <2>7. ASSUME ~Holds(r), ~Ready(a.r) PROVE StillBlocked(tl, Unlock(a.tl, a.r), r, a.err)
    <3>1. ~a.r.l /\ ~a.r.l2 /\ a.r = r
      BY <1>5, <1>9, <1>12, <1>13, <2>1, <2>7 DEF Ready, Holds
    <3>2. Unlock(a.tl, a.r) = b.tl
      BY <2>1, <3>1 DEF Unlock
    <3>3. Tighter(tl, b.tl)
      BY <1>6, <1>12, <2>1, <3>1, WaitsTighter
    <3>4. a.err # "noent" => PathBlocked(nd, b.tl, r, r.n, r.m)
      BY <2>1, <2>5, <3>1
    <3> QED BY <3>2, <3>3, <3>4 DEF StillBlocked, Tighter
  <2> QED BY <2>3, <2>4, <2>5, <2>6, <2>7 DEF RetryDoes
<1>14. CASE Two(b.r) /\ b.err # "noent"
  <2>1. a = TrySecond(b)
    BY <1>10, <1>14 DEF RetryPaths
  <2>2. SecondTried(cl, t, b, a)
    BY <1>5, <1>9, <1>14, <2>1, TrySecondOk
  <2>3. /\ Held(nd, a.tl, cl, t, a.r) /\ a.r.l = b.r.l
        /\ \/ a.err = b.err /\ a.r.l2
           \/ a.err = "again" /\ ~a.r.l2
           \/ a.err = "noent" /\ ~a.r.l2
    BY <2>2 DEF SecondTried
  <2>4. SecondDoes(b, r, a)
    BY <1>5, <1>6, <1>7, <1>9, <1>14, <2>1, SecondDoesIs
  <2>5. /\ b.r.l2 => a.tl = b.tl /\ a.r = b.r
        /\ ~b.r.l2 /\ a.r.l2 => /\ LocksPath(nd, b.tl, a.tl, r, r.n2, r.m2, a.r.w2) /\ a.r.w = b.r.w
        /\ ~a.r.l2 => /\ a.r = b.r /\ OnlyWaits(nd, b.tl, a.tl, r, r.n2, r.m2)
                      /\ a.err = "again" => PathBlocked(nd, a.tl, r, r.n2, r.m2)
    BY <2>4 DEF SecondDoes
  <2>6. a.tl \in [Ids -> Int] /\ a.r \in CallType
    BY <2>3 DEF Held
  <2>7. a.r.l <=> b.r.l
    BY <2>3
  <2>8. a.r.w = b.r.w
    BY <2>5
  <2>9. IF r.l THEN a.r.w = r.w ELSE a.r.l /\ a.r.w # NoNode => Child(nd, r.n, r.m, a.r.w)
    BY <1>11, <1>12, <2>7, <2>8
  <2>10. IF r.l2 THEN a.r.w2 = r.w2 ELSE a.r.l2 /\ a.r.w2 # NoNode => Child(nd, r.n2, r.m2, a.r.w2)
    <3>1. CASE r.l2
      <4>1. a.r = b.r
        BY <1>5, <2>5, <3>1
      <4>2. b.r.w2 = r.w2
        <5>1. CASE r.l
          BY <1>12, <5>1
        <5>2. CASE ~r.l /\ ~b.r.l
          BY <1>12, <5>2
        <5>3. CASE ~r.l /\ b.r.l
          <6>1. b = Took(s, try_get_path(nd, s.tl, s.r.n, s.r.m, Wr(s.r)))
            BY <1>2, <1>3, <5>3 DEF TryFirst
          <6> QED BY <1>2, <1>6, <6>1 DEF Took, CallType
        <5> QED BY <5>1, <5>2, <5>3
      <4> QED BY <3>1, <4>1, <4>2
    <3>2. CASE ~r.l2
      BY <1>5, <2>5, <3>2 DEF LocksPath
    <3> QED BY <3>1, <3>2
  <2>11. Tighter(b.tl, a.tl)
    <3>1. CASE b.r.l2
      BY <2>5, <3>1 DEF Tighter
    <3>2. CASE ~b.r.l2 /\ a.r.l2
      BY <1>6, <2>5, <3>2, LocksTighter
    <3>3. CASE ~a.r.l2
      BY <1>6, <2>5, <3>3, WaitsTighter
    <3> QED BY <3>1, <3>2, <3>3
  <2>12. a.err # "noent" /\ ~a.r.l => PathBlocked(nd, a.tl, r, r.n, r.m)
    BY <1>5, <1>7, <1>12, <1>14, <2>7, <2>11, BlockedTighter
  <2>13. a.err # "noent" /\ ~a.r.l2 => PathBlocked(nd, a.tl, r, r.n2, r.m2)
    BY <2>3, <2>5
  <2>14. ASSUME ~Holds(r), ~Ready(a.r) PROVE StillBlocked(tl, Unlock(a.tl, a.r), r, a.err)
    <3>1. ~r.l /\ ~r.l2 /\ ~b.r.l2
      BY <1>5, <2>14 DEF Holds
    <3>2. CASE b.r.l
      <4>1. ~a.r.l2 /\ a.r = b.r
        BY <2>5, <2>7, <2>14, <3>2 DEF Ready
      <4>2. Unlock(a.tl, a.r) = unlock_path(nd, a.tl, r.n, b.r.w)
        BY <1>5, <3>1, <3>2, <4>1 DEF Unlock, Same
      <4>3. LocksPath(nd, tl, b.tl, r, r.n, r.m, b.r.w) /\ OnlyWaits(nd, b.tl, a.tl, r, r.n2, r.m2)
        BY <1>12, <2>5, <3>1, <3>2, <4>1
      <4>4. a.err # "noent" => PathBlocked(nd, a.tl, r, r.n2, r.m2)
        BY <2>13, <4>1
      <4>5. PICK e : e = a.err
        OBVIOUS
      <4>6. StillBlocked(tl, Unlock(a.tl, a.r), r, e)
        BY <1>6, <1>7, <1>9, <1>14, <2>6, <4>2, <4>3, <4>4, <4>5, OneHeld
      <4> QED BY <4>5, <4>6
    <3>3. CASE ~b.r.l /\ a.r.l2
      <4>1. a.r.l = FALSE /\ a.r.n2 = r.n2 /\ ~a.r.l
        <5>1. a.r.n2 = r.n2
          BY <1>5, <2>2 DEF SecondTried, Same
        <5>2. a.r.l \in BOOLEAN
          BY <2>6 DEF CallType
        <5> QED BY <2>7, <3>3, <5>1, <5>2
      <4>2. Unlock(a.tl, a.r) = unlock_path(nd, a.tl, r.n2, a.r.w2)
        BY <3>3, <4>1 DEF Unlock
      <4>3. OnlyWaits(nd, tl, b.tl, r, r.n, r.m) /\ PathBlocked(nd, b.tl, r, r.n, r.m)
        BY <1>5, <1>12, <1>14, <3>3
      <4>4. LocksPath(nd, b.tl, a.tl, r, r.n2, r.m2, a.r.w2)
        BY <2>5, <3>1, <3>3
      <4>5. PICK e : e = a.err
        OBVIOUS
      <4>6. StillBlocked(tl, Unlock(a.tl, a.r), r, e)
        BY <1>6, <1>7, <1>9, <1>14, <2>6, <4>2, <4>3, <4>4, <4>5, OtherHeld
      <4> QED BY <4>5, <4>6
    <3>4. CASE ~b.r.l /\ ~a.r.l2
      <4>1. ~a.r.l
        BY <2>7, <3>4
      <4>2. Unlock(a.tl, a.r) = a.tl
        BY <3>4, <4>1 DEF Unlock
      <4>3. Tighter(tl, b.tl)
        BY <1>6, <1>12, <3>4, WaitsTighter
      <4>4. Tighter(tl, a.tl)
        BY <4>3, <2>11, TighterTrans
      <4> QED BY <2>12, <4>1, <4>2, <4>4 DEF StillBlocked, Tighter
    <3> QED BY <3>2, <3>3, <3>4
  <2> QED BY <2>9, <2>10, <2>12, <2>13, <2>14 DEF RetryDoes
<1> QED BY <1>13, <1>14
---------------------------------------------------------------------------
(* Requests that sleep in the queue *)

Asleep(r) == r.at \in {"wait", "fwait"} /\ ~r.done

\* A request that has locks and does not sleep.
Working(r) == Holds(r) /\ ~Asleep(r)

\* What a request waits for is not to be had.
Blocked(d, tl, r) ==
  IF r.at = "fwait" THEN tl[r.n] # 0
  ELSE \/ ~r.l /\ PathBlocked(d, tl, r, r.n, r.m)
       \/ Two(r) /\ ~r.l2 /\ PathBlocked(d, tl, r, r.n2, r.m2)

\* What a waiting request has locked for writing is what it asks for.
WaitsAt(d, r) ==
  r.at = "wait" => /\ r.l /\ r.w # NoNode => Child(d, r.n, r.m, r.w)
                   /\ r.l2 /\ r.w2 # NoNode => Child(d, r.n2, r.m2, r.w2)

\* Between two waits it has one of its two paths at most.
HalfHeld(r) == Asleep(r) /\ Holds(r) => Two(r) /\ (r.l # r.l2)

LEMMA SameZero ==
  ASSUME NEW d, NEW tl, NEW g, NEW cl, LockOk(d, tl, cl), LockOk(d, g, cl), NEW n \in Ids
  PROVE  tl[n] = 0 <=> g[n] = 0
<1> DEFINE S == R1(d, cl, n) \cup R2(d, cl, n) \cup W1(cl, n) \cup W2(cl, n)
<1>1. ASSUME NEW h, LockOk(d, h, cl) PROVE h[n] = 0 <=> S = {}
  <2>1. LockVal(h[n], WN(cl, n), RN(d, cl, n))
    BY <1>1 DEF LockOk
  <2>2. /\ RN(d, cl, n) \in Nat /\ RN(d, cl, n) + TREELOCK_WAIT_OFFSET < 0 /\ WN(cl, n) \in Nat
        /\ RN(d, cl, n) = 0 <=> R1(d, cl, n) = {} /\ R2(d, cl, n) = {}
        /\ WN(cl, n) = 0 <=> W1(cl, n) = {} /\ W2(cl, n) = {}
    BY CountBounds, SMT DEF TREELOCK_WAIT_OFFSET
  <2>3. TREELOCK_WAIT_OFFSET \in Int
    BY DEF TREELOCK_WAIT_OFFSET
  <2>4. h[n] = 0 <=> WN(cl, n) = 0 /\ RN(d, cl, n) = 0
    BY <2>1, <2>2, <2>3 DEF LockVal, TREELOCK_WRITE
  <2> QED BY <2>2, <2>4
<1> QED BY <1>1

LEMMA BlockedSame ==
  ASSUME NEW q, NEW r, Same(q, r), NEW d, NEW tl, NEW n, NEW m
  PROVE  PathBlocked(d, tl, q, n, m) <=> PathBlocked(d, tl, r, n, m)
<1>1. Wr(q) <=> Wr(r)
  BY DEF Same, Wr
<1> QED BY <1>1 DEF PathBlocked

\* What waking thread t does.
ElementDoes(s, e, t, first) ==
  /\ \A u \in Threads \ {t} : e.call[u] = s.call[u]
  /\ WaitsAt(nd, e.call[t]) /\ HalfHeld(e.call[t])
  /\ Working(s.call[t]) => Working(e.call[t])
  /\ Asleep(e.call[t]) => Blocked(nd, e.tl, e.call[t])
  /\ Asleep(e.call[t]) /\ Holds(e.call[t]) => first
  /\ ~first /\ ~Working(e.call[t]) => Tighter(s.tl, e.tl)

LEMMA WokenDoes ==
  ASSUME TreeInv(nd), NEW c0, NEW s, WakeInv(c0, s), NEW t \in Threads, NEW first \in BOOLEAN,
         s.call[t].at = "wait", Lockable(nd, s.call[t]), Clear(nd, s.call[t]),
         WaitsAt(nd, s.call[t]), ~first /\ Asleep(s.call[t]) => ~Holds(s.call[t]), NEW e,
         e = Update(s, t, Woken(first, RetryPaths(TryFirst(Untried(s.tl, s.call[t])))))
  PROVE  ElementDoes(s, e, t, first)
<1>1. PICK r : r = s.call[t]
  OBVIOUS
<1>2. /\ r \in CallType /\ s.tl \in [Ids -> Int] /\ s.call \in [Threads -> CallType]
      /\ LockOk(nd, s.tl, s.call) /\ Calls(nd, s.call) /\ Shape(r) /\ Locks(nd, r)
  BY <1>1 DEF WakeInv, Calls
<1>3. [s.call EXCEPT ![t] = r] = s.call
  BY <1>1, <1>2
<1>4. Held(nd, s.tl, s.call, t, r)
  BY <1>2, <1>3 DEF Held
<1>5. PICK a : a = RetryPaths(TryFirst(Untried(s.tl, r)))
  OBVIOUS
<1>6. Retried(s.call, t, r, a)
  BY <1>1, <1>2, <1>4, <1>5, RetryOk DEF Calls
<1>7. PICK new : new = Woken(first, a)
  OBVIOUS
<1>8. e.tl = new.tl /\ e.call = [s.call EXCEPT ![t] = new.r]
  BY <1>1, <1>5, <1>7 DEF Update
<1>9. /\ e.call[t] = new.r /\ s.call[t] = r
      /\ \A u \in Threads \ {t} : e.call[u] = s.call[u]
  BY <1>1, <1>2, <1>8
<1>10. Phase(r) /\ r.at = "wait"
  BY <1>1, <1>2 DEF Shape, NoCall
<1>11. /\ Held(nd, a.tl, s.call, t, a.r) /\ a.r \in CallType /\ Same(a.r, r) /\ Locks(nd, a.r)
       /\ a.r.done = r.done /\ a.r.err = r.err /\ a.r.at = "wait"
       /\ (Two(a.r) <=> Two(r)) /\ (Ready(r) => Ready(a.r))
  BY <1>6, <1>10, AskedSame DEF Retried, Held, Same
<1>12. a.err = "noent" => ~Ready(a.r)
  BY <1>6, <1>11 DEF Retried, Locks, Ready, Same
<1>13. RetryDoes(s.tl, r, a)
  BY <1>1, <1>2, <1>4, <1>5, RetryBlocks
<1>14. r.done /\ ~Ready(r) => ~r.l /\ ~r.l2
  BY <1>10 DEF Phase
<1>15. r.done /\ ~Ready(a.r) => ~Holds(r) /\ a.err = "noent"
  <2>1. ASSUME r.done, ~Ready(a.r) PROVE ~r.l /\ ~r.l2 /\ r.err
    BY <1>10, <1>11, <2>1 DEF Phase
  <2>2. ASSUME r.done, ~Ready(a.r) PROVE a.err = "noent"
    BY <1>2, <1>6, <1>10, <2>1, <2>2 DEF Locks, Retried
  <2> QED BY <2>1, <2>2 DEF Holds
<1>16. ~first /\ ~Ready(a.r) => ~Holds(r)
  BY <1>1, <1>10, <1>15 DEF Asleep
<1>17. ~Ready(a.r) => ~Working(r)
  BY <1>10, <1>15 DEF Working, Asleep
<1>18. LockOk(nd, e.tl, e.call)
  <2>1. WakeInv(c0, e)
    BY <1>1, <1>5, WokenOk
  <2> QED BY <2>1 DEF WakeInv
<1>19. ASSUME ~Holds(r), ~Ready(a.r), ~new.r.l, ~new.r.l2, e.tl = Unlock(a.tl, a.r)
       PROVE  StillBlocked(s.tl, e.tl, r, a.err) /\ Tighter(s.tl, e.tl)
  <2>1. StillBlocked(s.tl, e.tl, r, a.err)
    BY <1>13, <1>19 DEF RetryDoes
  <2>2. LockOk(nd, s.tl, e.call)
    BY <1>2, <1>9, <1>19, LockFrame DEF Holds
  <2>3. \A u \in Ids : s.tl[u] = 0 <=> e.tl[u] = 0
    BY <1>18, <2>2, SameZero
  <2> QED BY <2>1, <2>3 DEF StillBlocked, Tighter
<1>20. CASE a.err = "noent"
  <2>1. PICK u : u = Unlocked(a.r)
    OBVIOUS
  <2>2. PICK q : q = [u EXCEPT !.done = TRUE, !.err = TRUE]
    OBVIOUS
  <2>3. new.tl = Unlock(a.tl, a.r) /\ new.r = q
    BY <1>7, <1>20, <2>1, <2>2 DEF Woken, queue_element_unlock
  <2>4. u \in CallType /\ ~u.l /\ ~u.l2
    BY <1>11, <2>1, UnlockedIs
  <2>5. ~q.l /\ ~q.l2 /\ q.done
    <3>1. Marked(q, u, TRUE)
      BY <2>2, <2>4, MarkIs
    <3> QED BY <2>4, <3>1 DEF Marked
  <2>6. ~Asleep(q) /\ WaitsAt(nd, q) /\ HalfHeld(q)
    BY <2>5 DEF Asleep, WaitsAt, HalfHeld
  <2>7. ~first => Tighter(s.tl, e.tl)
    BY <1>8, <1>12, <1>16, <1>19, <1>20, <2>3, <2>5
  <2> QED BY <1>9, <1>12, <1>17, <1>20, <2>3, <2>6, <2>7 DEF ElementDoes
<1>21. CASE a.err # "noent" /\ a.r.l /\ (a.r.l2 \/ ~Two(a.r))
  <2>1. PICK q : q = [a.r EXCEPT !.done = TRUE, !.err = FALSE]
    OBVIOUS
  <2>2. new.tl = a.tl /\ new.r = q
    BY <1>7, <1>21, <2>1 DEF Woken
  <2>3. /\ Same(q, a.r) /\ q.l = a.r.l /\ q.l2 = a.r.l2 /\ q.w = a.r.w
        /\ q.w2 = a.r.w2 /\ q.done
    BY <1>11, <2>1, MarkIs DEF Marked
  <2>4. ~Asleep(q) /\ Working(q) /\ HalfHeld(q)
    BY <1>21, <2>3 DEF Asleep, Working, Holds, HalfHeld
  <2>5. WaitsAt(nd, q)
    <3>1. q.n = r.n /\ q.m = r.m /\ q.n2 = r.n2 /\ q.m2 = r.m2
      BY <1>11, <2>3 DEF Same
    <3>2. r.l /\ r.w # NoNode => Child(nd, r.n, r.m, r.w)
      BY <1>1, <1>10 DEF WaitsAt
    <3>3. r.l2 /\ r.w2 # NoNode => Child(nd, r.n2, r.m2, r.w2)
      BY <1>1, <1>10 DEF WaitsAt
    <3>4. a.r.l /\ a.r.w # NoNode => Child(nd, r.n, r.m, a.r.w)
      BY <1>13, <3>2 DEF RetryDoes
    <3>5. a.r.l2 /\ a.r.w2 # NoNode => Child(nd, r.n2, r.m2, a.r.w2)
      BY <1>13, <3>3 DEF RetryDoes
    <3> QED BY <2>3, <3>1, <3>4, <3>5 DEF WaitsAt
  <2> QED BY <1>9, <2>2, <2>4, <2>5 DEF ElementDoes
<1>22. CASE a.err # "noent" /\ ~(a.r.l /\ (a.r.l2 \/ ~Two(a.r))) /\ first
  <2>1. new = a
    BY <1>7, <1>22 DEF Woken
  <2>2. ~Ready(a.r) /\ ~r.done
    BY <1>15, <1>22 DEF Ready
  <2>3. /\ a.r.n = r.n /\ a.r.m = r.m /\ a.r.n2 = r.n2 /\ a.r.m2 = r.m2
    BY <1>11 DEF Same
  <2>4. Blocked(nd, a.tl, a.r)
    <3>1. CASE ~a.r.l
      <4>1. PathBlocked(nd, a.tl, r, r.n, r.m)
        BY <1>13, <1>22, <3>1 DEF RetryDoes
      <4>2. PathBlocked(nd, a.tl, a.r, a.r.n, a.r.m)
        BY <1>11, <2>3, <4>1, BlockedSame
      <4> QED BY <1>11, <3>1, <4>2 DEF Blocked
    <3>2. CASE a.r.l /\ Two(a.r) /\ ~a.r.l2
      <4>1. PathBlocked(nd, a.tl, r, r.n2, r.m2)
        BY <1>11, <1>13, <1>22, <3>2 DEF RetryDoes
      <4>2. PathBlocked(nd, a.tl, a.r, a.r.n2, a.r.m2)
        BY <1>11, <2>3, <4>1, BlockedSame
      <4> QED BY <1>11, <3>2, <4>2 DEF Blocked
    <3> QED BY <1>22, <3>1, <3>2
  <2>5. HalfHeld(a.r)
    <3>1. a.r.l \in BOOLEAN /\ a.r.l2 \in BOOLEAN
      BY <1>11 DEF CallType
    <3>2. a.r.l2 => Two(a.r)
      BY <1>11 DEF Locks
    <3> QED BY <1>22, <3>1, <3>2 DEF HalfHeld, Holds
  <2>6. WaitsAt(nd, a.r)
    <3>2. r.l /\ r.w # NoNode => Child(nd, r.n, r.m, r.w)
      BY <1>1, <1>10 DEF WaitsAt
    <3>3. r.l2 /\ r.w2 # NoNode => Child(nd, r.n2, r.m2, r.w2)
      BY <1>1, <1>10 DEF WaitsAt
    <3>4. a.r.l /\ a.r.w # NoNode => Child(nd, r.n, r.m, a.r.w)
      BY <1>13, <3>2 DEF RetryDoes
    <3>5. a.r.l2 /\ a.r.w2 # NoNode => Child(nd, r.n2, r.m2, a.r.w2)
      BY <1>13, <3>3 DEF RetryDoes
    <3> QED BY <2>3, <3>4, <3>5 DEF WaitsAt
  <2> QED BY <1>8, <1>9, <1>17, <1>22, <2>1, <2>2, <2>4, <2>5, <2>6 DEF ElementDoes
<1>23. CASE a.err # "noent" /\ ~(a.r.l /\ (a.r.l2 \/ ~Two(a.r))) /\ ~first
  <2>1. PICK q : q = Unlocked(a.r)
    OBVIOUS
  <2>2. new.tl = Unlock(a.tl, a.r) /\ new.r = q
    BY <1>7, <1>23, <2>1 DEF Woken, queue_element_unlock
  <2>3. Same(q, a.r) /\ ~q.l /\ ~q.l2
    BY <1>11, <2>1, UnlockedIs
  <2>4. ~Ready(a.r)
    BY <1>23 DEF Ready
  <2>5. ~Holds(r) /\ StillBlocked(s.tl, e.tl, r, a.err) /\ Tighter(s.tl, e.tl)
    BY <1>8, <1>16, <1>19, <1>23, <2>2, <2>3, <2>4
  <2>6. /\ q.n = r.n /\ q.m = r.m /\ q.n2 = r.n2 /\ q.m2 = r.m2 /\ q.at = "wait"
        /\ (Two(q) <=> Two(r)) /\ Same(q, r)
    BY <1>11, <2>3, AskedSame DEF Same
  <2>7. Blocked(nd, e.tl, q)
    <3>1. \/ PathBlocked(nd, e.tl, q, q.n, q.m)
          \/ Two(q) /\ PathBlocked(nd, e.tl, q, q.n2, q.m2)
      BY <1>23, <2>5, <2>6, BlockedSame DEF StillBlocked
    <3> QED BY <2>3, <2>6, <3>1 DEF Blocked
  <2>8. WaitsAt(nd, q) /\ HalfHeld(q) /\ ~Holds(q)
    BY <2>3 DEF WaitsAt, HalfHeld, Holds
  <2> QED BY <1>9, <1>17, <2>2, <2>4, <2>5, <2>7, <2>8 DEF ElementDoes
<1> QED BY <1>20, <1>21, <1>22, <1>23
\* Two of a request's paths are as far apart as what it asks for.
LEMMA ClearSame ==
  ASSUME NEW q, NEW r, Same(q, r), NEW d, Clear(d, r)
  PROVE  Clear(d, q)
<1>1. /\ Wr(q) <=> Wr(r)
      /\ Two(q) <=> Two(r)
      /\ q.n = r.n /\ q.m = r.m /\ q.n2 = r.n2 /\ q.m2 = r.m2
  BY DEF Same, Wr, Two
<1> QED BY <1>1 DEF Clear

LEMMA ElementIs ==
  ASSUME TreeInv(nd), NEW c0, NEW s, WakeInv(c0, s), NEW t \in Threads, NEW first \in BOOLEAN,
         Waits(c0[t]), c0[t].at = "wait" => Lockable(nd, c0[t]) /\ Clear(nd, c0[t]),
         WaitsAt(nd, s.call[t]), ~first /\ Asleep(s.call[t]) => ~Holds(s.call[t]), NEW e,
         e = queue_element_wakeup(s, t, first)
  PROVE  ElementDoes(s, e, t, first)
<1>1. PICK r : r = s.call[t]
  OBVIOUS
<1>2. /\ s \in [tl : [Ids -> Int], call : [Threads -> CallType]] /\ r \in CallType
      /\ Shape(r) /\ Locks(nd, r) /\ Same(r, c0[t])
  BY <1>1 DEF WakeInv, Calls
<1>3. CASE r.at # "fwait"
  <2>1. r.at = "wait" /\ Lockable(nd, r) /\ Clear(nd, r)
    BY <1>2, <1>3, AskedSame, ClearSame DEF Waits, Same
  <2>2. e = Update(s, t, Woken(first, RetryPaths(TryFirst(Untried(s.tl, s.call[t])))))
    BY <1>1, <1>3 DEF queue_element_wakeup
  <2> QED BY <1>1, <2>1, <2>2, WokenDoes
<1>4. CASE r.at = "fwait"
  <2>1. PICK b : b = (r.done \/ s.tl[r.n] = 0)
    OBVIOUS
  <2>2. PICK q : q = [r EXCEPT !.done = b]
    OBVIOUS
  <2>3. e = [s EXCEPT !.call[t].done = b]
    BY <1>1, <1>4, <2>1 DEF queue_element_wakeup
  <2>4. b \in BOOLEAN
    BY <1>2, <2>1 DEF CallType
  <2>5. q.at = r.at /\ q.l = r.l /\ q.l2 = r.l2 /\ q.n = r.n /\ q.done = b
    BY <1>2, <2>2 DEF CallType
  <2>6. e = [tl |-> s.tl, call |-> [s.call EXCEPT ![t] = q]]
    BY <1>1, <1>2, <2>2, <2>3
  <2>7. e.tl = s.tl /\ e.call = [s.call EXCEPT ![t] = q]
    BY <2>6
  <2>8. /\ \A u \in Threads \ {t} : e.call[u] = s.call[u]
        /\ e.call[t] = q /\ s.call[t] = r
    BY <1>1, <1>2, <2>7
  <2>9. Asked(r) /\ Phase(r)
    BY <1>2, <1>4 DEF Shape, NoCall
  <2>10. ~r.l /\ ~r.l2
    <3>1. r.op = "forget"
      BY <1>4, <2>9 DEF Asked, Phase, Steps
    <3> QED BY <2>9, <3>1 DEF Phase
  <2>11. ~Holds(q) /\ ~Holds(r)
    BY <2>5, <2>10 DEF Holds
  <2>12. Asleep(q) => Blocked(nd, s.tl, q)
    <3>1. ASSUME Asleep(q) PROVE s.tl[q.n] # 0
      BY <2>1, <2>5, <3>1, Zenon DEF Asleep
    <3> QED BY <1>4, <2>5, <3>1 DEF Blocked
  <2>13. WaitsAt(nd, q) /\ HalfHeld(q) /\ ~Working(r) /\ Tighter(s.tl, s.tl)
    BY <1>4, <2>5, <2>11 DEF WaitsAt, HalfHeld, Working, Tighter
  <2> QED BY <2>7, <2>8, <2>11, <2>12, <2>13 DEF ElementDoes
<1> QED BY <1>3, <1>4

\* What blocks a request still blocks it with more locks.
LEMMA BlockedStays ==
  ASSUME NEW d, TreeInv(d), NEW tl, NEW g, Tighter(tl, g), NEW r, Shape(r), Waits(r),
         Blocked(d, tl, r)
  PROVE  Blocked(d, g, r)
<1>1. Asked(r) /\ Phase(r)
  BY DEF Shape, Waits, NoCall
<1>2. r.at = "fwait" => r.n \in Ids
  BY <1>1 DEF Asked, Phase, Steps, InDir
<1>3. r.n \in Nodes /\ (Two(r) => r.n2 \in Nodes)
  BY <1>1 DEF Asked
<1>4. CASE r.at = "fwait"
  BY <1>2, <1>4 DEF Blocked, Tighter
<1>5. CASE r.at # "fwait" /\ ~r.l /\ PathBlocked(d, tl, r, r.n, r.m)
  <2>1. PathBlocked(d, g, r, r.n, r.m)
    BY <1>3, <1>5, BlockedTighter
  <2> QED BY <1>5, <2>1 DEF Blocked
<1>6. CASE r.at # "fwait" /\ Two(r) /\ ~r.l2 /\ PathBlocked(d, tl, r, r.n2, r.m2)
  <2>1. PathBlocked(d, g, r, r.n2, r.m2)
    BY <1>3, <1>6, BlockedTighter
  <2> QED BY <1>6, <2>1 DEF Blocked
<1> QED BY <1>4, <1>5, <1>6 DEF Blocked

\* A sleeping request has a lock only at the head of the queue q.
OnlyFirst(q, cl) == \A t \in Threads : HalfHeld(cl[t]) /\ (Asleep(cl[t]) /\ Holds(cl[t]) => q[1] = t)

SomeWorks(cl) == \E t \in Threads : Working(cl[t])

\* Up to element i of the queue: what sleeps is blocked.
WokenTo(c0, s, i) ==
  /\ WakeInv(c0, s) /\ (\A t \in Threads : WaitsAt(nd, s.call[t])) /\ OnlyFirst(lockq, s.call)
  /\ \/ SomeWorks(s.call)
     \/ \A j \in 1 .. i : Asleep(s.call[lockq[j]]) => Blocked(nd, s.tl, s.call[lockq[j]])

LEMMA WokenNext ==
  ASSUME TreeInv(nd), NEW c0, NEW s, NEW i \in Nat, WokenTo(c0, s, i), lockq \in Seq(Threads),
         QueueInv(lockq, c0), i + 1 \in 1 .. Len(lockq),
         NEW t, t = lockq[i + 1],
         c0[t].at = "wait" => Lockable(nd, c0[t]) /\ Clear(nd, c0[t]), NEW first \in BOOLEAN,
         first <=> i + 1 = 1,
         NEW e, e = queue_element_wakeup(s, t, first), WakeInv(c0, e)
  PROVE  WokenTo(c0, e, i + 1)
<1>1. /\ t \in Threads /\ Waits(c0[t]) /\ 1 \in 1 .. Len(lockq)
      /\ \A j \in 1 .. i : j \in 1 .. Len(lockq) /\ lockq[j] \in Threads /\ j # i + 1
  BY DEF QueueInv
<1>2. \A j \in 1 .. Len(lockq) : lockq[j] = t => j = i + 1
  BY DEF QueueInv
<1>3. /\ WakeInv(c0, s) /\ \A u \in Threads : WaitsAt(nd, s.call[u])
      /\ OnlyFirst(lockq, s.call)
      /\ \/ SomeWorks(s.call)
         \/ \A j \in 1 .. i : Asleep(s.call[lockq[j]]) => Blocked(nd, s.tl, s.call[lockq[j]])
  BY DEF WokenTo
<1>4. ~first /\ Asleep(s.call[t]) => ~Holds(s.call[t])
  BY <1>1, <1>2, <1>3 DEF OnlyFirst
<1>5. ElementDoes(s, e, t, first)
  BY <1>1, <1>3, <1>4, ElementIs
<1>6. /\ \A u \in Threads \ {t} : e.call[u] = s.call[u]
      /\ WaitsAt(nd, e.call[t]) /\ HalfHeld(e.call[t])
      /\ Working(s.call[t]) => Working(e.call[t])
      /\ Asleep(e.call[t]) => Blocked(nd, e.tl, e.call[t])
      /\ Asleep(e.call[t]) /\ Holds(e.call[t]) => first
      /\ ~first /\ ~Working(e.call[t]) => Tighter(s.tl, e.tl)
  BY <1>5 DEF ElementDoes
<1>7. \A u \in Threads : WaitsAt(nd, e.call[u])
  BY <1>3, <1>6
<1>8. OnlyFirst(lockq, e.call)
  <2> SUFFICES ASSUME NEW u \in Threads
               PROVE  HalfHeld(e.call[u]) /\ (Asleep(e.call[u]) /\ Holds(e.call[u]) => lockq[1] = u)
    BY DEF OnlyFirst
  <2>1. CASE u = t
    BY <1>6, <2>1
  <2>2. CASE u # t
    BY <1>3, <1>6, <2>2 DEF OnlyFirst
  <2> QED BY <2>1, <2>2
<1>9. SomeWorks(s.call) => SomeWorks(e.call)
  BY <1>6 DEF SomeWorks
<1>10. ASSUME ~SomeWorks(e.call), NEW j \in 1 .. i + 1, Asleep(e.call[lockq[j]])
       PROVE  Blocked(nd, e.tl, e.call[lockq[j]])
  <2>1. CASE j = i + 1
    BY <1>6, <1>10, <2>1
  <2>2. CASE j # i + 1
    <3>1. j \in 1 .. i /\ lockq[j] \in Threads /\ lockq[j] # t
      BY <1>1, <1>2, <2>2
    <3>2. e.call[lockq[j]] = s.call[lockq[j]]
      BY <1>6, <3>1
    <3>3. Blocked(nd, s.tl, s.call[lockq[j]])
      BY <1>3, <1>9, <1>10, <3>1, <3>2
    <3>4. ~first /\ ~Working(e.call[t])
      BY <1>1, <1>10, <3>1 DEF SomeWorks
    <3>5. Shape(s.call[lockq[j]]) /\ Waits(s.call[lockq[j]])
      <4>1. Waits(e.call[lockq[j]])
        BY <1>10 DEF Asleep, Waits
      <4> QED BY <1>3, <3>1, <3>2, <4>1 DEF WakeInv, Calls
    <3>6. Tighter(s.tl, e.tl)
      BY <1>6, <3>4
    <3> QED BY <3>2, <3>3, <3>5, <3>6, BlockedStays
  <2> QED BY <2>1, <2>2
<1> QED BY <1>7, <1>8, <1>10 DEF WokenTo

\* The whole queue is woken: what still sleeps is blocked, unless somebody has locks and
\* is awake.
LEMMA WakeAllDone ==
  ASSUME TreeInv(nd), NEW c0, NEW s, WokenTo(c0, s, 0), lockq \in Seq(Threads),
         QueueInv(lockq, c0),
         \A t \in Threads : c0[t].at = "wait" => Lockable(nd, c0[t]) /\ Clear(nd, c0[t])
  PROVE  WokenTo(c0, wake_up_queued(s), Len(lockq))
<1> DEFINE N == Len(lockq)
           w == CHOOSE f : f = [i \in 0 .. N |->
                  IF i = 0 THEN s ELSE queue_element_wakeup(f[i - 1], lockq[i], i = 1)]
           T == {n \in Nat : n <= N => WokenTo(c0, w[n], n)}
<1>1. N \in Nat
  OBVIOUS
<1>2. wake_up_queued(s) = w[N]
  BY Zenon DEF wake_up_queued
<1>3. w = [i \in 0 .. N |-> IF i = 0 THEN s
                            ELSE queue_element_wakeup(w[i - 1], lockq[i], i = 1)]
  <2>1. PICK f : IsWake(f, s, N)
    BY <1>1, WakeExists
  <2>2. f = [i \in 0 .. N |-> IF i = 0 THEN s
                              ELSE queue_element_wakeup(f[i - 1], lockq[i], i = 1)]
    BY <2>1 DEF IsWake
  <2> QED BY <2>2, Zenon
<1> HIDE DEF w, N
<1>4. 0 \in T
  BY <1>1, <1>3
<1>5. ASSUME NEW n \in Nat, n \in T PROVE n + 1 \in T
  <2> SUFFICES ASSUME n + 1 <= N PROVE WokenTo(c0, w[n + 1], n + 1)
    OBVIOUS
  <2>1. WokenTo(c0, w[n], n)
    BY <1>1, <1>5
  <2>2. w[n + 1] = queue_element_wakeup(w[n], lockq[n + 1], n + 1 = 1)
    <3>1. ASSUME NEW i \in 1 .. N
          PROVE  w[i] = queue_element_wakeup(w[i - 1], lockq[i], i = 1)
      <4>1. IsWake(w, s, N)
        BY <1>3, Zenon DEF IsWake
      <4> QED BY <1>1, <4>1, WakeAt
    <3>2. n + 1 \in 1 .. N /\ (n + 1) - 1 = n
      BY <1>1
    <3> HIDE DEF T
    <3>3. w[n + 1] = queue_element_wakeup(w[(n + 1) - 1], lockq[n + 1], n + 1 = 1)
      BY <3>1, <3>2, Zenon
    <3> QED BY <3>2, <3>3
  <2>3. n + 1 \in 1 .. N
    BY <1>1
  <2>4. PICK t : t = lockq[n + 1]
    OBVIOUS
  <2>5. n + 1 \in 1 .. Len(lockq)
    BY <2>3 DEF N
  <2>6. t \in Threads /\ Waits(c0[t])
    BY <2>4, <2>5 DEF QueueInv
  <2>7. PICK b \in BOOLEAN : b = (n + 1 = 1)
    OBVIOUS
  <2>8. PICK e : e = queue_element_wakeup(w[n], t, b)
    OBVIOUS
  <2>9. w[n + 1] = e
    BY <2>2, <2>4, <2>7, <2>8
  <2>10. WakeInv(c0, w[n]) /\ (c0[t].at = "wait" => Lockable(nd, c0[t]) /\ Clear(nd, c0[t]))
    BY <2>1, <2>6 DEF WokenTo
  <2>11. WakeInv(c0, e)
    BY <2>6, <2>8, <2>10, QueueElementOk
  <2>12. b <=> n + 1 = 1
    BY <2>7
  <2>13. WokenTo(c0, e, n + 1)
    BY <2>1, <2>4, <2>5, <2>8, <2>10, <2>11, <2>12, WokenNext
  <2> QED BY <2>9, <2>13
<1> HIDE DEF T
<1>6. N \in T
  BY <1>1, <1>4, <1>5, NatInd
<1> QED BY <1>1, <1>2, <1>6 DEF T, N

LEMMA FreshHeld ==
  ASSUME Inv, NEW t \in Threads, call[t] = NoCall, NEW r, Fresh(r)
  PROVE  Held(nd, treelock, call, t, r) /\ Lockable(nd, r)
<1>1. /\ call \in [Threads -> CallType] /\ treelock \in [Ids -> Int]
      /\ TreeInv(nd) /\ Calls(nd, call) /\ LockOk(nd, treelock, call)
  BY DEF Inv, TypeOK
<1>2. PICK c1 : c1 = [call EXCEPT ![t] = r]
  OBVIOUS
<1>3. c1[t] = r /\ \A u \in Threads \ {t} : c1[u] = call[u]
  BY <1>1, <1>2
<1>4. LockOk(nd, treelock, c1)
  BY <1>1, <1>3, NoCallIs, LockFrame DEF Fresh
<1>5. Locks(nd, r)
  BY NoLocks DEF Fresh
<1>6. Held(nd, treelock, call, t, r)
  BY <1>1, <1>2, <1>4, <1>5 DEF Held, Fresh
<1>7. Lockable(nd, r)
  <2>1. Asked(r) /\ r.n \in Nodes /\ (Two(r) => r.n2 \in Nodes)
    BY DEF Fresh, Asked
  <2>2. Alive(nd, r.n) /\ (Two(r) => Alive(nd, r.n2))
    BY <2>1, KnownAlive DEF Fresh
  <2>3. ASSUME Wr(r), NEW c \in Ids, Target(nd, r, c) PROVE nd[c].nlookup > 0
    <3>1. Alive(nd, c)
      BY <2>3, KnownAlive, IdsPlaces DEF Fresh
    <3> QED BY <3>1, IdsPlaces DEF Alive
  <2> QED BY <2>1, <2>2, <2>3 DEF Lockable
<1> QED BY <1>6, <1>7

\* A request that gets no path leaves what blocks others, and is blocked if it has to wait.
LEMMA GotBlocked ==
  ASSUME Inv, NEW t \in Threads, call[t] = NoCall, NEW r, Fresh(r), Clear(nd, r),
         NEW s, s = GetPath2(GetPath1(r)), s.err # "ok"
  PROVE  StillBlocked(treelock, Unlock(s.tl, s.r), r, s.err)
<1>1. /\ call \in [Threads -> CallType] /\ treelock \in [Ids -> Int] /\ TreeInv(nd)
      /\ LockOk(nd, treelock, call) /\ Bounded(treelock)
  BY LockBound DEF Inv, TypeOK
<1>2. r \in CallType /\ r.n \in Nodes /\ (Two(r) => r.n2 \in Nodes) /\ ~r.l /\ ~r.l2
  BY DEF Fresh, Asked
<1>3. PICK s0 : s0 = Untried(treelock, r)
  OBVIOUS
<1>4. s0.tl = treelock /\ s0.r = r /\ s0.err = "ok"
  BY <1>3 DEF Untried
<1>5. PICK b : b = TryFirst(s0)
  OBVIOUS
<1>6. s = GetPath2(b)
  BY <1>3, <1>5 DEF GetPath1
<1>7. Held(nd, treelock, call, t, r) /\ Lockable(nd, r)
  BY FreshHeld
<1>8. FirstTried(call, t, s0, b)
  BY <1>1, <1>4, <1>5, <1>7, TryFirstOk
<1>9. /\ Held(nd, b.tl, call, t, b.r) /\ Same(b.r, r) /\ b.r.l2 = r.l2
      /\ b.err \in {"ok", "again", "noent"} /\ (b.err = "ok" <=> b.r.l)
  BY <1>4, <1>8 DEF FirstTried
<1>10. b.tl \in [Ids -> Int] /\ b.r \in CallType /\ Bounded(b.tl)
  BY <1>9, LockBound DEF Held
<1>11. FirstDoes(treelock, r, b)
  BY <1>1, <1>2, <1>3, <1>5, FirstIs
<1>12. (Two(b.r) <=> Two(r)) /\ Lockable(nd, b.r)
  BY <1>7, <1>9, AskedSame
<1>13. CASE ~(Two(r) /\ b.err = "ok")
  <2>1. s = b
    BY <1>6, <1>12, <1>13 DEF GetPath2
  <2>2. /\ ~b.r.l /\ b.r = r /\ OnlyWaits(nd, treelock, b.tl, r, r.n, r.m)
        /\ b.err = "again" => PathBlocked(nd, b.tl, r, r.n, r.m)
    BY <1>9, <1>11, <2>1 DEF FirstDoes
  <2>3. Unlock(s.tl, s.r) = b.tl
    BY <1>2, <2>1, <2>2 DEF Unlock
  <2>4. Tighter(treelock, b.tl)
    BY <1>1, <2>2, WaitsTighter
  <2>5. s.err # "noent" => PathBlocked(nd, b.tl, r, r.n, r.m)
    BY <1>9, <2>1, <2>2
  <2> QED BY <2>3, <2>4, <2>5 DEF StillBlocked, Tighter
<1>14. CASE Two(r) /\ b.err = "ok"
  <2>1. s = TrySecond(b)
    BY <1>6, <1>12, <1>14 DEF GetPath2
  <2>2. SecondTried(call, t, b, s)
    BY <1>1, <1>9, <1>12, <1>14, <2>1, TrySecondOk
  <2>3. /\ Held(nd, s.tl, call, t, s.r) /\ s.r.l = b.r.l /\ ~s.r.l2 /\ s.err \in {"again", "noent"}
    BY <1>14, <2>2 DEF SecondTried
  <2>4. SecondDoes(b, r, s)
    BY <1>1, <1>2, <1>9, <1>10, <1>14, <2>1, SecondDoesIs
  <2>5. /\ s.r = b.r /\ OnlyWaits(nd, b.tl, s.tl, r, r.n2, r.m2)
        /\ s.err = "again" => PathBlocked(nd, s.tl, r, r.n2, r.m2)
    BY <2>3, <2>4 DEF SecondDoes
  <2>6. LocksPath(nd, treelock, b.tl, r, r.n, r.m, b.r.w)
    BY <1>2, <1>9, <1>11, <1>14 DEF FirstDoes
  <2>7. Unlock(s.tl, s.r) = unlock_path(nd, s.tl, r.n, b.r.w)
    BY <1>2, <1>9, <1>14, <2>3, <2>5 DEF Unlock, Same
  <2>8. s.tl \in [Ids -> Int]
    BY <2>3 DEF Held
  <2>9. PICK e : e = s.err
    OBVIOUS
  <2>10. StillBlocked(treelock, Unlock(s.tl, s.r), r, e)
    BY <1>1, <1>2, <1>14, <2>3, <2>5, <2>6, <2>7, <2>8, <2>9, OneHeld
  <2> QED BY <2>9, <2>10
<1> QED BY <1>13, <1>14

\* What a new request does to the queue and its locks.
Queued(t, r) ==
  /\ \A u \in Threads \ {t} : call'[u] = call[u]
  /\ \/ call'[t] = NoCall
     \/ call'[t].op = r.op /\ call'[t].n = r.n /\ call'[t].m = r.m
        /\ call'[t].n2 = r.n2 /\ call'[t].m2 = r.m2
  /\ \/ Working(call'[t]) /\ call'[t].at # "wait" /\ lockq' = lockq
     \/ /\ Tighter(treelock, treelock') /\ ~Holds(call'[t])
        /\ \/ ~Waits(call'[t]) /\ lockq' = lockq
           \/ Blocked(nd, treelock', call'[t]) /\ lockq' = Append(lockq, t)

LEMMA GotDoes ==
  ASSUME Inv, NEW t \in Threads, call[t] = NoCall, NEW r, Fresh(r), Clear(nd, r), GetPath(t, r)
  PROVE  Queued(t, r)
<1>1. PICK s : s = GetPath2(GetPath1(r))
  OBVIOUS
<1>2. Tried(t, r, s) /\ Got(t, r, s)
  BY <1>1, GetPathTried DEF GetPath
<1>3. PICK q : Started(t, r, q)
  BY GotOk
<1>4. /\ call \in [Threads -> CallType] /\ treelock \in [Ids -> Int] /\ LockOk(nd, treelock, call)
      /\ TreeInv(nd)
  BY DEF Inv, TypeOK
<1>5. /\ call' = [call EXCEPT ![t] = q] /\ call'[t] = q /\ \A u \in Threads \ {t} : call'[u] = call[u]
      /\ LockOk(nd, treelock', call')
  BY <1>3, <1>4 DEF Started
<1>6. r \in CallType /\ ~r.l /\ ~r.l2 /\ ~r.done /\ r.at = "idle" /\ Asked(r) /\ r.n \in Nodes
  BY DEF Fresh, Asked
<1>7. s.r \in CallType /\ Same(s.r, r) /\ s.err \in {"ok", "again", "noent"}
  BY <1>2 DEF Tried, Held
<1>8. CASE s.err = "ok"
  <2>1. PICK x : x = [s.r EXCEPT !.at = FirstStep(r.op)]
    OBVIOUS
  <2>2. q = x /\ lockq' = lockq
    BY <1>2, <1>4, <1>5, <1>8, <2>1 DEF Got
  <2>3. FirstStep(r.op) \in StepNames /\ FirstStep(r.op) \notin {"wait", "fwait"}
    BY DEF FirstStep, StepNames
  <2>4. /\ x.at = FirstStep(r.op) /\ x.op = r.op /\ x.n = r.n /\ x.m = r.m
        /\ x.n2 = r.n2 /\ x.m2 = r.m2 /\ x.l = s.r.l
    BY <1>7, <2>1, <2>3, AtIs DEF Same
  <2>5. s.r.l
    BY <1>2, <1>8 DEF Tried, Ready
  <2>6. Working(q) /\ q.at # "wait"
    BY <2>2, <2>3, <2>4, <2>5 DEF Working, Holds, Asleep
  <2> QED BY <1>5, <2>2, <2>4, <2>6 DEF Queued
<1>9. CASE s.err # "ok"
  <2>1. PICK k : k = Unlock(s.tl, s.r)
    OBVIOUS
  <2>2. StillBlocked(treelock, k, r, s.err) /\ treelock' = k
    BY <1>1, <1>2, <1>9, <2>1, GotBlocked DEF Got
  <2>3. ASSUME ~q.l, ~q.l2 PROVE Tighter(treelock, treelock')
    <3>1. LockOk(nd, treelock, call')
      BY <1>4, <1>5, <2>3, NoCallIs, LockFrame
    <3>2. PICK g : g = treelock'
      OBVIOUS
    <3>3. PICK c2 : c2 = call'
      OBVIOUS
    <3>4. LockOk(nd, treelock, c2) /\ LockOk(nd, g, c2)
      BY <1>5, <3>1, <3>2, <3>3
    <3>5. \A n \in Ids : treelock[n] = 0 <=> g[n] = 0
      BY <3>4, SameZero
    <3> QED BY <2>2, <3>2, <3>5 DEF StillBlocked, Tighter
  <2>4. CASE s.err = "again"
    <3>1. PICK x : x = [r EXCEPT !.at = "wait"]
      OBVIOUS
    <3>2. q = x /\ lockq' = Append(lockq, t)
      BY <1>2, <1>4, <1>5, <2>4, <3>1 DEF Got
    <3>3. /\ x.at = "wait" /\ x.op = r.op /\ x.n = r.n /\ x.m = r.m
          /\ x.n2 = r.n2 /\ x.m2 = r.m2 /\ x.l = r.l /\ x.l2 = r.l2
      BY <1>6, <3>1, AtIs DEF StepNames
    <3>4. /\ Wr(x) <=> Wr(r)
          /\ Two(x) <=> Two(r)
      BY <3>3 DEF Wr, Two
    <3>5. \/ PathBlocked(nd, k, r, r.n, r.m)
          \/ Two(r) /\ PathBlocked(nd, k, r, r.n2, r.m2)
      BY <2>2, <2>4 DEF StillBlocked
    <3>6. \/ PathBlocked(nd, k, x, x.n, x.m)
          \/ Two(x) /\ PathBlocked(nd, k, x, x.n2, x.m2)
      BY <3>3, <3>4, <3>5 DEF PathBlocked
    <3>7. Blocked(nd, k, x) /\ ~Holds(x)
      BY <1>6, <3>3, <3>6 DEF Blocked, Holds
    <3>8. Tighter(treelock, treelock')
      BY <1>6, <2>3, <3>2, <3>3
    <3> QED BY <1>5, <2>2, <3>2, <3>3, <3>7, <3>8 DEF Queued
  <2>5. CASE s.err = "noent"
    <3>1. q = NoPathFor(r) /\ lockq' = lockq
      BY <1>2, <1>4, <1>5, <2>5 DEF Got
    <3>2. CASE r.op = "release"
      <4>1. PICK u : u = Unlocked(r)
        OBVIOUS
      <4>2. u \in CallType /\ Same(u, r) /\ ~u.l /\ ~u.l2
        BY <1>6, <4>1, UnlockedIs
      <4>3. q = [u EXCEPT !.at = "rel", !.done = FALSE, !.err = FALSE]
        BY <3>1, <3>2, <4>1 DEF NoPathFor
      <4>4. /\ q.at = "rel" /\ q.op = u.op /\ q.n = u.n /\ q.m = u.m
            /\ q.n2 = u.n2 /\ q.m2 = u.m2 /\ q.l = u.l /\ q.l2 = u.l2
        BY <4>2, <4>3 DEF CallType
      <4>5. ~Holds(q) /\ ~Waits(q) /\ Tighter(treelock, treelock')
        BY <2>3, <4>2, <4>4 DEF Holds, Waits
      <4> QED BY <1>5, <3>1, <4>2, <4>4, <4>5 DEF Queued, Same
    <3>3. CASE r.op # "release"
      <4>1. q = NoCall
        BY <3>1, <3>3 DEF NoPathFor
      <4>2. ~Holds(q) /\ ~Waits(q) /\ Tighter(treelock, treelock')
        BY <2>3, <4>1, NoCallIs DEF Holds
      <4> QED BY <1>5, <3>1, <4>1, <4>2 DEF Queued
    <3> QED BY <3>2, <3>3
  <2> QED BY <1>7, <1>9, <2>4, <2>5
<1> QED BY <1>8, <1>9

---------------------------------------------------------------------------
(* What keeps the queue moving *)

OneCross(cl) == \A t, u \in Threads : t # u => ~(Cross(cl[t]) /\ Cross(cl[u]))

Apart(d, r) == r.at = "wait" => Parted(d, r)

LEMMA PartedClear ==
  ASSUME NEW d, TreeInv(d), NEW r, Asked(r), Parted(d, r), r.op = "rename" => r.n # r.n2 \/ r.m # r.m2
  PROVE  Clear(d, r)
<1> SUFFICES ASSUME Wr(r), Two(r)
             PROVE  /\ Split(d, r.n, r.m, r.n2) /\ Split(d, r.n2, r.m2, r.n)
                    /\ \A c \in Ids : ~(Child(d, r.n, r.m, c) /\ Child(d, r.n2, r.m2, c))
  BY DEF Clear
<1>1. r.op = "rename" /\ r.n \in Nodes
  BY DEF Wr, Two, Asked
<1>2. CASE r.n = r.n2
  <2>1. \A c \in Ids : d[c].parent = r.n => c \notin Chain(d, r.n)
    BY InvTree, ChainNoLoop
  <2> QED BY <1>1, <1>2, <2>1 DEF Split, Child
<1>3. CASE r.n # r.n2
  BY <1>1, <1>3 DEF Parted, Cross, Child
<1> QED BY <1>2, <1>3

QWaits(d, cl) == \A t \in Threads : Apart(d, cl[t]) /\ WaitsAt(d, cl[t])
Stuck(d, tl, cl) == SomeWorks(cl) \/ \A t \in Threads : Asleep(cl[t]) => Blocked(d, tl, cl[t])

\* A request with locks is at work, or every one that sleeps is blocked.
QInv == OneCross(call) /\ QWaits(nd, call) /\ OnlyFirst(lockq, call) /\ Stuck(nd, treelock, call)

LEMMA WaitClear ==
  ASSUME BothInv, QInv, NEW t \in Threads, call[t].at = "wait"
  PROVE  Lockable(nd, call[t]) /\ Clear(nd, call[t])
<1>1. Lockable(nd, call[t]) /\ Asked(call[t])
  BY WaitLockable DEF BothInv, Lockable
<1>2. call[t].op = "rename" => call[t].n # call[t].n2 \/ call[t].m # call[t].m2
  BY DEF BothInv, HostInv, Wants
<1>3. TreeInv(nd) /\ Parted(nd, call[t])
  BY DEF BothInv, Inv, QInv, QWaits, Apart
<1> QED BY <1>1, <1>2, <1>3, PartedClear

---------------------------------------------------------------------------
(* Changes of the table, and the requests that wait *)

\* What thread t moves nobody else has locked for writing, and it moves it to another
\* directory only by such a rename; F: nodes that were free.
Shift(t, e, F) ==
  /\ TreeInv(e) /\ F \subseteq Ids /\ \A u \in F : nd[u].refctr = 0
  /\ \A u \in Ids : ~SamePlace(nd, e, u) =>
       /\ W1(call, u) \cup W2(call, u) \subseteq {t}
       /\ e[u].parent \in {NoNode} \cup call[t].mx
       /\ Cross(call[t]) \/ u \in F \/ e[u].parent \in {NoNode, nd[u].parent}

LEMMA FewerAbove ==
  ASSUME TreeInv(nd), NEW e, TreeInv(e), NEW F, \A u \in F : nd[u].refctr = 0,
         \A u \in Ids : ~SamePlace(nd, e, u) => u \in F \/ e[u].parent \in {NoNode, nd[u].parent},
         NEW n \in Nodes, Alive(nd, n)
  PROVE  Chain(e, n) \subseteq Chain(nd, n)
<1>1. Tree(nd) /\ Tree(e) /\ n \in Places /\ Chain(nd, n) \subseteq Ids
  BY InvTree, ChainIds, IdsPlaces
<1>2. n \in Ids => n \in Chain(nd, n)
  BY <1>1, ChainUp
<1>3. ASSUME NEW v \in Chain(nd, n) PROVE v \notin F
  <2> SUFFICES ASSUME v \in F PROVE FALSE
    OBVIOUS
  <2>1. v \in Ids /\ nd[v].nlookup = 0 /\ \A c \in Ids : nd[c].parent # v
    BY <1>1, <1>3, FreeNoChild
  <2>2. v = n
    BY <1>1, <2>1, ChainChild
  <2> QED BY <2>1, <2>2, IdsPlaces DEF Alive
<1>4. ASSUME NEW v \in Chain(nd, n) \cap Ids, e[v].parent \in Ids
      PROVE  e[v].parent \in Chain(nd, n)
  <2>1. e[v].parent = nd[v].parent
    BY <1>3, <1>4, IdsPlaces DEF SamePlace
  <2>2. nd[v].parent \in Chain(nd, v)
    BY <1>1, <1>4, <2>1, ChainUp
  <2>3. Chain(nd, v) \subseteq Chain(nd, n)
    BY <1>1, ChainTrans
  <2> QED BY <2>1, <2>2, <2>3
<1> QED BY <1>1, <1>2, <1>4, ChainLeast

LEMMA OthersApart ==
  ASSUME Inv, OneCross(call), QWaits(nd, call), NEW t \in Threads, NEW e, NEW F, Shift(t, e, F),
         NEW u \in Threads, u # t
  PROVE  Apart(e, call[u]) /\ WaitsAt(e, call[u])
<1> SUFFICES ASSUME call[u].at = "wait" PROVE Parted(e, call[u]) /\ WaitsAt(e, call[u])
  BY DEF Apart, WaitsAt
<1>1. PICK r : r = call[u]
  OBVIOUS
<1>2. Lockable(nd, r) /\ Asked(r) /\ TreeInv(nd) /\ TreeInv(e) /\ r \in CallType
  BY <1>1, WaitLockable DEF Lockable, Shift, Inv, TypeOK
<1>3. Parted(nd, r) /\ WaitsAt(nd, r)
  BY <1>1 DEF QWaits, Apart
<1>4. Cross(r) => ~Cross(call[t])
  BY <1>1 DEF OneCross
<1>5. ASSUME NEW n \in Nodes, NEW n2 \in Nodes, NEW m, n \in r.mx, Alive(nd, n2), ~Cross(call[t]),
             Split(nd, n, m, n2)
      PROVE  Split(e, n, m, n2)
  <2> SUFFICES ASSUME NEW c \in Ids, Child(e, n, m, c) PROVE c \notin Chain(e, n2)
    BY DEF Split
  <2>1. n \notin call[t].mx
    BY <1>1, <1>5 DEF Inv, KernelInv
  <2>2. SamePlace(nd, e, c)
    <3>1. e[c].parent = n /\ n # NoNode
      BY <1>5, IdsPlaces DEF Child, Nodes
    <3>2. ~SamePlace(nd, e, c) => e[c].parent \in {NoNode} \cup call[t].mx
      BY DEF Shift
    <3> QED BY <2>1, <3>1, <3>2
  <2>3. c \notin Chain(nd, n2)
    BY <1>5, <2>2 DEF SamePlace, Child, Split
  <2>4. Chain(e, n2) \subseteq Chain(nd, n2)
    BY <1>2, <1>5, FewerAbove DEF Shift
  <2> QED BY <2>3, <2>4
<1>6. Parted(e, r)
  <2> SUFFICES ASSUME Cross(r) PROVE Split(e, r.n, r.m, r.n2) /\ Split(e, r.n2, r.m2, r.n)
    BY DEF Parted
  <2>1. /\ r.n \in Nodes /\ r.n2 \in Nodes /\ r.n \in r.mx /\ r.n2 \in r.mx /\ Alive(nd, r.n)
        /\ Alive(nd, r.n2)
    BY <1>2 DEF Cross, Asked, Lockable, Two, InDir
  <2> QED BY <1>3, <1>4, <1>5, <2>1 DEF Parted
<1>7. ASSUME NEW w \in Ids, NEW n, NEW m, Child(nd, n, m, w), u \in W1(call, w) \cup W2(call, w)
      PROVE  Child(e, n, m, w)
  <2>1. SamePlace(nd, e, w)
    BY <1>7 DEF Shift
  <2> QED BY <1>7, <2>1 DEF SamePlace, Child
<1>8. WaitsAt(e, r)
  <2>1. r.w \in Ids \cup {NoNode} /\ r.w2 \in Ids \cup {NoNode}
    BY <1>2 DEF CallType
  <2>2. /\ r.l => u \in W1(call, r.w)
        /\ r.l2 => u \in W2(call, r.w2)
    BY <1>1 DEF W1, W2
  <2> QED BY <1>3, <1>7, <2>1, <2>2 DEF WaitsAt
<1> QED BY <1>1, <1>6, <1>8

---------------------------------------------------------------------------
(* Steps that leave the locks alone *)

\* Thread t has another request, that does not wait, and moves nodes at most.
LEMMA QuietQueue ==
  ASSUME BothInv, QInv, NEW t \in Threads, NEW q, call' = [call EXCEPT ![t] = q], ~Waits(q),
         Working(call[t]) => Working(q), Cross(q) => Cross(call[t]), treelock' = treelock,
         NEW F, Shift(t, nd', F),
         \A u \in Threads \ {t} : Asleep(call[u]) /\ Holds(call[u]) => lockq'[1] = u,
         Working(q) \/ \A u \in Threads \ {t} :
           Asleep(call[u]) /\ Blocked(nd, treelock, call[u]) => Blocked(nd', treelock, call[u])
  PROVE  QInv'
<1>1. PICK c2, e, lq : c2 = call' /\ e = nd' /\ lq = lockq'
  OBVIOUS
<1>2. /\ Inv /\ OneCross(call) /\ QWaits(nd, call) /\ OnlyFirst(lockq, call)
      /\ Stuck(nd, treelock, call) /\ call \in [Threads -> CallType]
  BY TypeSplit DEF QInv, BothInv, Inv
<1>3. c2[t] = q /\ \A u \in Threads \ {t} : c2[u] = call[u]
  BY <1>1, <1>2
<1>4. ~Asleep(q) /\ q.at # "wait"
  BY DEF Waits, Asleep
<1>5. OneCross(c2)
  BY <1>2, <1>3 DEF OneCross
<1>6. QWaits(e, c2)
  <2>1. ASSUME NEW u \in Threads PROVE Apart(e, c2[u]) /\ WaitsAt(e, c2[u])
    <3>1. CASE u = t
      BY <3>1, <1>3, <1>4 DEF Apart, WaitsAt
    <3>2. CASE u # t
      <4>1. Shift(t, e, F)
        BY <1>1
      <4>2. Apart(e, call[u]) /\ WaitsAt(e, call[u])
        BY <4>1, <3>2, <1>2, OthersApart
      <4> QED BY <4>2, <3>2, <1>3
    <3> QED BY <3>1, <3>2
  <2> QED BY <2>1 DEF QWaits
<1>7. OnlyFirst(lq, c2)
  <2>1. ASSUME NEW u \in Threads
        PROVE  HalfHeld(c2[u]) /\ (Asleep(c2[u]) /\ Holds(c2[u]) => lq[1] = u)
    <3>1. CASE u = t
      BY <3>1, <1>3, <1>4 DEF HalfHeld
    <3>2. CASE u # t
      BY <3>2, <1>1, <1>2, <1>3 DEF OnlyFirst
    <3> QED BY <3>1, <3>2
  <2> QED BY <2>1 DEF OnlyFirst
<1>8. Stuck(e, treelock, c2)
  <2>1. CASE SomeWorks(call)
    <3>1. PICK u \in Threads : Working(call[u])
      BY <2>1 DEF SomeWorks
    <3>2. Working(c2[u])
      BY <3>1, <1>3
    <3> QED BY <3>2 DEF Stuck, SomeWorks
  <2>2. CASE ~SomeWorks(call)
    <3>1. \A u \in Threads : Asleep(call[u]) => Blocked(nd, treelock, call[u])
      BY <2>2, <1>2 DEF Stuck
    <3>2. CASE Working(q)
      BY <3>2, <1>3 DEF Stuck, SomeWorks
    <3>3. CASE ~Working(q)
      <4>1. ASSUME NEW u \in Threads, Asleep(c2[u]) PROVE Blocked(e, treelock, c2[u])
        <5>1. u # t /\ c2[u] = call[u]
          BY <4>1, <1>3, <1>4
        <5>2. Asleep(call[u]) /\ Blocked(nd, treelock, call[u])
          BY <3>1, <4>1, <5>1
        <5> QED BY <3>3, <5>1, <5>2, <1>1
      <4> QED BY <4>1 DEF Stuck
    <3> QED BY <3>2, <3>3
  <2> QED BY <2>1, <2>2
<1> QED BY <1>1, <1>5, <1>6, <1>7, <1>8 DEF QInv

\* Nodes keep their places.
LEMMA ShiftSame ==
  ASSUME NEW t, NEW e, TreeInv(e), \A u \in Ids : SamePlace(nd, e, u)
  PROVE  Shift(t, e, {})
BY DEF Shift

LEMMA BlockedPlaces ==
  ASSUME TreeInv(nd), NEW e, TreeInv(e), \A u \in Ids : SamePlace(nd, e, u), NEW tl, NEW r,
         r.n \in Nodes, Two(r) => r.n2 \in Nodes, Blocked(nd, tl, r)
  PROVE  Blocked(e, tl, r)
<1>1. Tree(nd) /\ Tree(e)
  BY InvTree
<1>2. ASSUME NEW n \in Nodes PROVE Chain(e, n) = Chain(nd, n)
  <2>1. n \in Places /\ \A u \in Chain(nd, n) : e[u].parent = nd[u].parent
    BY <1>1, ChainIds, IdsPlaces DEF SamePlace
  <2> QED BY <1>1, <2>1, ChainFrame DEF Tree
<1>3. ASSUME NEW n \in Nodes, NEW m, PathBlocked(nd, tl, r, n, m) PROVE PathBlocked(e, tl, r, n, m)
  BY <1>2, <1>3 DEF PathBlocked, Child, SamePlace
<1> QED BY <1>3 DEF Blocked

\* A request with its locks goes on, and may change the table.
LEMMA WorkerQueue ==
  ASSUME BothInv, BothInv', QInv, NEW t \in Threads, NEW q, call' = [call EXCEPT ![t] = q],
         q.op = call[t].op, q.n = call[t].n, q.n2 = call[t].n2,
         q.op \notin {"none", "release", "forget"}, q.at # "wait", 
         treelock' = treelock, lockq' = lockq, NEW F, Shift(t, nd', F)
  PROVE  QInv'
<1>1. PICK c2 : c2 = call'
  OBVIOUS
<1>2. Calls(nd', c2) /\ call \in [Threads -> CallType]
  BY <1>1, TypeSplit DEF BothInv, Inv
<1>3. c2[t] = q
  BY <1>1, <1>2
<1>4. Asked(q) /\ Phase(q)
  BY <1>2, <1>3, NoCallIs DEF Calls, Shape
<1>5. Working(q) /\ ~Waits(q)
  BY <1>4 DEF Phase, Asked, Steps, Ready, Working, Holds, Asleep, Waits
<1>6. Cross(q) => Cross(call[t])
  BY DEF Cross
<1>7. \A u \in Threads \ {t} : Asleep(call[u]) /\ Holds(call[u]) => lockq'[1] = u
  BY DEF QInv, OnlyFirst
<1> QED BY <1>5, <1>6, <1>7, QuietQueue

LEMMA GotoQueue ==
  ASSUME BothInv, BothInv', QInv, NEW t \in Threads, NEW a, a # "wait", Goto(t, a),
         call[t].op \notin {"none", "release", "forget"},
         treelock' = treelock, lockq' = lockq, NEW F, Shift(t, nd', F)
  PROVE  QInv'
<1>1. PICK q : q = [call[t] EXCEPT !.at = a]
  OBVIOUS
<1>2. call[t] \in CallType
  BY TypeSplit DEF BothInv, Inv
<1>3. q.op = call[t].op /\ q.n = call[t].n /\ q.n2 = call[t].n2 /\ q.at = a
  BY <1>1, <1>2 DEF CallType
<1>4. call' = [call EXCEPT ![t] = q]
  BY <1>1 DEF Goto
<1> QED BY <1>3, <1>4, WorkerQueue

LEMMA TableSame ==
  ASSUME BothInv, NEW t, nd' = nd
  PROVE  Shift(t, nd', {})
BY ShiftSame DEF BothInv, Inv, SamePlace

LEMMA lookup_pathQueue ==
  ASSUME BothInv, BothInv', QInv, NEW t \in Threads, lookup_path(t)
  PROVE  QInv'
<1>1. PICK f : call' = [call EXCEPT ![t].at = "find", ![t].f = f]
  BY DEF lookup_path
<1>2. /\ call[t].op \in Finding /\ nd' = nd /\ treelock' = treelock /\ lockq' = lockq
  BY DEF lookup_path, At, table
<1>3. PICK q : q = [call[t] EXCEPT !.at = "find", !.f = f]
  OBVIOUS
<1>4. call[t] \in CallType /\ Shift(t, nd', {})
  BY <1>2, TableSame, TypeSplit DEF BothInv, Inv
<1>5. q.op = call[t].op /\ q.n = call[t].n /\ q.n2 = call[t].n2 /\ q.at # "wait"
  BY <1>3, <1>4 DEF CallType
<1>6. call' = [call EXCEPT ![t] = q]
  BY <1>1, <1>3
<1> QED BY <1>2, <1>4, <1>5, <1>6, WorkerQueue DEF Finding

LEMMA LeavesQueue ==
  ASSUME BothInv, BothInv', QInv, NEW t \in Threads, NEW a, a # "wait", NEW k,
         call' = [call EXCEPT ![t].at = a, ![t].kref = k],
         call[t].op \notin {"none", "release", "forget"}, nd' = nd, treelock' = treelock,
         lockq' = lockq
  PROVE  QInv'
<1>1. PICK q : q = [call[t] EXCEPT !.at = a, !.kref = k]
  OBVIOUS
<1>2. call[t] \in CallType /\ Shift(t, nd', {})
  BY TableSame, TypeSplit DEF BothInv, Inv
<1>3. q.op = call[t].op /\ q.n = call[t].n /\ q.n2 = call[t].n2 /\ q.at = a
  BY <1>1, <1>2 DEF CallType
<1>4. call' = [call EXCEPT ![t] = q]
  BY <1>1
<1> QED BY <1>2, <1>3, <1>4, WorkerQueue

LEMMA fs_failsQueue ==
  ASSUME BothInv, BothInv', QInv, NEW t \in Threads, fs_fails(t)
  PROVE  QInv'
<1>1. /\ call[t].op \notin {"none", "release", "forget"}
      /\ nd' = nd /\ treelock' = treelock /\ lockq' = lockq
      /\ \E k : call' = [call EXCEPT ![t].at = "free", ![t].kref = k]
  BY DEF fs_fails, At, table, Finding
<1> QED BY <1>1, LeavesQueue

LEMMA fuse_reply_openQueue ==
  ASSUME BothInv, BothInv', QInv, NEW t \in Threads, fuse_reply_open(t)
  PROVE  QInv'
<1>1. /\ call[t].op = "open" /\ nd' = nd /\ treelock' = treelock /\ lockq' = lockq
      /\ \E a \in {"free", "rel"} : call' = [call EXCEPT ![t].at = a, ![t].kref = {}]
  BY DEF fuse_reply_open, At, table
<1> QED BY <1>1, LeavesQueue

LEMMA unlink_or_hideQueue ==
  ASSUME BothInv, BothInv', QInv, NEW t \in Threads, unlink_or_hide(t)
  PROVE  QInv'
<1>1. /\ call[t].op \in {"unlink", "rename"} /\ nd' = nd /\ treelock' = treelock
      /\ lockq' = lockq
      /\ \/ \E a \in {"free", "rm"} : Goto(t, a)
         \/ \E h : call' = [call EXCEPT ![t].at = "hidefs", ![t].hid = h]
  BY DEF unlink_or_hide, At, table
<1>2. Shift(t, nd', {})
  BY <1>1, TableSame
<1>3. CASE \E a \in {"free", "rm"} : Goto(t, a)
  BY <1>1, <1>2, <1>3, GotoQueue
<1>4. CASE \E h : call' = [call EXCEPT ![t].at = "hidefs", ![t].hid = h]
  <2>1. PICK h : call' = [call EXCEPT ![t].at = "hidefs", ![t].hid = h]
    BY <1>4
  <2>2. PICK q : q = [call[t] EXCEPT !.at = "hidefs", !.hid = h]
    OBVIOUS
  <2>3. call[t] \in CallType
    BY TypeSplit DEF BothInv, Inv
  <2>4. q.op = call[t].op /\ q.n = call[t].n /\ q.n2 = call[t].n2 /\ q.at # "wait"
    BY <2>2, <2>3 DEF CallType
  <2>5. call' = [call EXCEPT ![t] = q]
    BY <2>1, <2>2
  <2> QED BY <1>1, <1>2, <2>4, <2>5, WorkerQueue
<1> QED BY <1>1, <1>3, <1>4

\* Calls of the file system's handlers.
LEMMA HandlerQueue ==
  ASSUME BothInv, BothInv', QInv, NEW t \in Threads,
         \/ fs_create(t) \/ fs_link(t) \/ fs_rmdir(t) \/ hide_node_fs(t) \/ fs_unlink(t)
         \/ fs_rename_request(t) \/ fs_open(t)
  PROVE  QInv'
<1>1. /\ call[t].op \in {"mknod", "link", "rmdir", "unlink", "rename", "open"}
      /\ nd' = nd /\ treelock' = treelock /\ lockq' = lockq
      /\ \E a \in {"stat", "table", "hidenode", "count"} : Goto(t, a)
  BY DEF fs_create, fs_link, fs_rmdir, hide_node_fs, fs_unlink, fs_rename_request, fs_open,
         At, table
<1>2. Shift(t, nd', {})
  BY <1>1, TableSame
<1> QED BY <1>1, <1>2, GotoQueue

---------------------------------------------------------------------------
(* Steps that change the table *)

LEMMA find_nodeQueue ==
  ASSUME BothInv, BothInv', QInv, NEW t \in Threads, find_node(t)
  PROVE  QInv'
<1>1. PICK r, p, m : r = call[t] /\ p = FoundDir(r) /\ m = FoundName(r)
  OBVIOUS
<1>2. PICK old : old = lookup_node(nd, p, m)
  OBVIOUS
<1>3. /\ r.op \in Finding /\ r.at = "find" /\ treelock' = treelock /\ lockq' = lockq
      /\ \E i : call' = [call EXCEPT ![t].at = "free", ![t].ino = i, ![t].f = NoFile]
      /\ \/ old # NoNode /\ nd' = inc_nlookup(nd, old)
         \/ /\ old = NoNode
            /\ \E n \in FreshIds(nd) : nd' = find_node_new(nd, p, m, n, r.f)
         \/ nd' = nd
  BY <1>1, <1>2 DEF find_node, At, find_node_old
<1>4. r \in CallType /\ TreeInv(nd) /\ r.f \in Files \cup {NoFile} /\ Inv
  BY <1>1, <1>3, AtStep DEF CallType, BothInv
<1>5. p \in Nodes /\ Alive(nd, p) /\ p \in r.mx /\ m \in Names /\ m \in AllNames
  BY <1>1, <1>3, <1>4, FoundPlace DEF AllNames
<1>6. \E F : Shift(t, nd', F)
  <2>1. CASE old # NoNode /\ nd' = inc_nlookup(nd, old)
    <3>1. old \in Ids
      BY <2>1, <1>2, <1>4, <1>5, LookupIs
    <3>2. PICK e : e = nd'
      OBVIOUS
    <3>3. Looked(nd, e, old, nd[old].file)
      BY <2>1, <3>1, <3>2, <1>4, FindOldOk
    <3>4. TreeInv(e) /\ \A i \in Ids : SamePlace(nd, e, i)
      BY <3>3, IdsPlaces DEF Looked, SamePlace
    <3> QED BY <3>2, <3>4, ShiftSame
  <2>2. CASE /\ old = NoNode
             /\ \E n \in FreshIds(nd) : nd' = find_node_new(nd, p, m, n, r.f)
    <3>1. PICK n \in FreshIds(nd) : nd' = find_node_new(nd, p, m, n, r.f)
      BY <2>2
    <3>2. n \in Ids /\ nd[n].refctr = 0
      BY <3>1, <1>4, NodeIs, IdsPlaces DEF FreshIds, Allocated
    <3>3. \A c \in Ids : ~(nd[c].parent = p /\ nd[c].name = m)
      BY <2>2, <1>2, <1>4, <1>5, LookupIs, IdsPlaces DEF OnlyChild
    <3>4. PICK e : e = nd'
      OBVIOUS
    <3>5. Found(nd, e, n, p, m, r.f)
      BY <3>1, <3>2, <3>3, <3>4, <1>4, <1>5, FindNewOk
    <3>6. W1(call, n) \cup W2(call, n) \subseteq {t}
      BY <3>2, <1>4, FreeUnlocked
    <3>7. TreeInv(e) /\ e[n].parent = p /\ \A i \in Ids \ {n} : SamePlace(nd, e, i)
      BY <3>5 DEF Found
    <3>8. Shift(t, e, {n})
      BY <3>2, <3>6, <3>7, <1>1, <1>5 DEF Shift
    <3> QED BY <3>4, <3>8
  <2>3. CASE nd' = nd
    BY <2>3, TableSame
  <2> QED BY <1>3, <2>1, <2>2, <2>3
<1>7. PICK i : call' = [call EXCEPT ![t].at = "free", ![t].ino = i, ![t].f = NoFile]
  BY <1>3
<1>8. PICK q : q = [call[t] EXCEPT !.at = "free", !.ino = i, !.f = NoFile]
  OBVIOUS
<1>9. q.op = call[t].op /\ q.n = call[t].n /\ q.n2 = call[t].n2 /\ q.at # "wait"
  BY <1>1, <1>4, <1>8 DEF CallType
<1>10. call' = [call EXCEPT ![t] = q]
  BY <1>7, <1>8
<1>11. q.op \notin {"none", "release", "forget"}
  BY <1>1, <1>3, <1>9 DEF Finding
<1> QED BY <1>3, <1>6, <1>9, <1>10, <1>11, WorkerQueue

LEMMA remove_node_requestQueue ==
  ASSUME BothInv, BothInv', QInv, NEW t \in Threads, remove_node_request(t)
  PROVE  QInv'
<1>1. PICK r, c, e : r = call[t] /\ c = lookup_node(nd, r.n, r.m) /\ e = nd'
  OBVIOUS
<1>2. /\ r.op \in {"unlink", "rmdir"} /\ r.at = "table" /\ Goto(t, "free")
      /\ e = remove_node(nd, r.n, r.m) /\ treelock' = treelock /\ lockq' = lockq
  BY <1>1 DEF remove_node_request, At
<1>3. Asked(r) /\ Phase(r) /\ Locks(nd, r) /\ TreeInv(nd) /\ Inv
  BY <1>1, <1>2, AtStep DEF BothInv
<1>4. r.n \in Nodes /\ Alive(nd, r.n) /\ r.m \in Names /\ Wr(r)
  BY <1>2, <1>3 DEF Asked, InDir, Locks, Ready, Phase, Wr
<1>5. c # NoNode => c \in Ids /\ Exclusive(t, c)
  BY <1>1, <1>2, <1>3, <1>4, FirstPlace
<1>6. Removed(nd, e, r.n, r.m, c)
  BY <1>1, <1>2, <1>3, <1>4, RemoveOk
<1>7. Shift(t, e, {})
  <2>1. TreeInv(e) /\ \A u \in Ids \ {c} : SamePlace(nd, e, u)
    BY <1>6 DEF Removed, Moved
  <2>2. ASSUME NEW u \in Ids, ~SamePlace(nd, e, u)
        PROVE  e[u].parent = NoNode /\ W1(call, u) \cup W2(call, u) \subseteq {t}
    <3>1. u = c /\ c # NoNode
      BY <2>1, <2>2, IdsPlaces
    <3> QED BY <3>1, <1>5, <1>6 DEF Removed, Exclusive
  <2> QED BY <2>1, <2>2 DEF Shift
<1> QED BY <1>1, <1>2, <1>7, GotoQueue

LEMMA hide_node_tableQueue ==
  ASSUME BothInv, BothInv', QInv, NEW t \in Threads, hide_node_table(t)
  PROVE  QInv'
<1>1. PICK r, p, s, e : /\ r = call[t] /\ p = Victim(r).dir
                        /\ s = lookup_node(nd, p, Victim(r).name) /\ e = nd'
  OBVIOUS
<1>2. PICK a : a \in {"free", "rm"} /\ call' = [call EXCEPT ![t].at = a, ![t].hid = NoName]
  BY DEF hide_node_table
<1>3. /\ r.op \in {"unlink", "rename"} /\ r.at = "hidenode" /\ treelock' = treelock
      /\ lockq' = lockq
  BY <1>1 DEF hide_node_table, At
<1>4. r \in CallType /\ TreeInv(nd) /\ Inv
  BY <1>1, <1>3, AtStep DEF BothInv
<1>5. Hides(t, s)
  BY <1>1, <1>4, HideMoves
<1>6. Shift(t, e, {})
  <2>1. CASE s = NoNode
    <3>1. nd' = nd
      BY <2>1, <1>5 DEF Hides
    <3> QED BY <3>1, <1>1, TableSame
  <2>2. CASE s # NoNode
    <3>1. /\ p \in Nodes /\ p \in r.mx /\ s \in Ids /\ Exclusive(t, s)
          /\ HidePlace(nd, e, s, p, r.hid)
      BY <2>2, <1>1, <1>5 DEF Hides
    <3>2. nd[s].parent = p
      BY <2>2, <3>1, <1>1, <1>4, LookupIs
    <3>3. e[s].parent = p /\ TreeInv(e) /\ \A u \in Ids \ {s} : SamePlace(nd, e, u)
      BY <3>1 DEF HidePlace
    <3>4. W1(call, s) \cup W2(call, s) \subseteq {t}
      BY <3>1 DEF Exclusive
    <3> QED BY <3>1, <3>2, <3>3, <3>4, <1>1 DEF Shift
  <2> QED BY <2>1, <2>2
<1>7. PICK q : q = [call[t] EXCEPT !.at = a, !.hid = NoName]
  OBVIOUS
<1>8. q.op = call[t].op /\ q.n = call[t].n /\ q.n2 = call[t].n2 /\ q.at # "wait"
  BY <1>1, <1>2, <1>4, <1>7 DEF CallType
<1>9. call' = [call EXCEPT ![t] = q]
  BY <1>2, <1>7
<1> QED BY <1>1, <1>3, <1>6, <1>8, <1>9, WorkerQueue

LEMMA rename_node_requestQueue ==
  ASSUME BothInv, BothInv', QInv, NEW t \in Threads, rename_node_request(t)
  PROVE  QInv'
<1>1. PICK r, s, v, e : /\ r = call[t] /\ s = lookup_node(nd, r.n, r.m)
                        /\ v = lookup_node(nd, r.n2, r.m2) /\ e = nd'
  OBVIOUS
<1>2. /\ r.op = "rename" /\ r.at = "table" /\ Goto(t, "free") /\ treelock' = treelock
      /\ lockq' = lockq
  BY <1>1 DEF rename_node_request, At
<1>3. Asked(r) /\ TreeInv(nd) /\ Inv
  BY <1>1, <1>2, AtStep DEF BothInv
<1>4. r.n \in Nodes /\ r.n \in r.mx /\ r.n2 \in Nodes /\ r.n2 \in r.mx
  BY <1>2, <1>3 DEF Asked, InDir, Two
<1>5. RenamesTo(t, s, v)
  BY <1>1, <1>3, RenameMoves
<1>6. /\ s # NoNode => s \in Ids /\ Exclusive(t, s) /\ nd[s].parent = r.n
      /\ v # NoNode => v \in Ids /\ Exclusive(t, v) /\ nd[v].parent = r.n2
  BY <1>1, <1>3, <1>4, <1>5, LookupIs DEF RenamesTo
<1>7. \/ e = nd
      \/ /\ Moved(nd, e, {s, v})
         /\ s # NoNode => e[s].parent = r.n2
         /\ v # NoNode => e[v].parent \in {NoNode, r.n}
  <2>1. CASE r.fl = "exchange"
    BY <2>1, <1>1, <1>5 DEF RenamesTo, Exchanged
  <2>2. CASE r.fl # "exchange"
    BY <2>2, <1>1, <1>5 DEF RenamesTo, Renamed
  <2> QED BY <2>1, <2>2
<1>8. Shift(t, e, {})
  <2>1. CASE e = nd
    BY <2>1, <1>1, TableSame
  <2>2. CASE /\ Moved(nd, e, {s, v})
             /\ s # NoNode => e[s].parent = r.n2
             /\ v # NoNode => e[v].parent \in {NoNode, r.n}
    <3>1. TreeInv(e) /\ \A u \in Ids \ {s, v} : SamePlace(nd, e, u)
      BY <2>2 DEF Moved
    <3>2. ASSUME NEW u \in Ids, ~SamePlace(nd, e, u)
          PROVE  /\ W1(call, u) \cup W2(call, u) \subseteq {t}
                 /\ e[u].parent \in {NoNode} \cup r.mx
                 /\ Cross(r) \/ e[u].parent \in {NoNode, nd[u].parent}
      <4>1. CASE u = s
        <5>1. s # NoNode
          BY <4>1, IdsPlaces
        <5> QED BY <4>1, <5>1, <1>2, <1>4, <1>6, <2>2 DEF Exclusive, Cross
      <4>2. CASE u = v
        <5>1. v # NoNode
          BY <4>2, IdsPlaces
        <5> QED BY <4>2, <5>1, <1>2, <1>4, <1>6, <2>2 DEF Exclusive, Cross
      <4> QED BY <3>1, <3>2, <4>1, <4>2
    <3> QED BY <3>1, <3>2, <1>1 DEF Shift
  <2> QED BY <1>7, <2>1, <2>2
<1> QED BY <1>1, <1>2, <1>8, GotoQueue

\* Only the files that are open are counted anew.
LEMMA OpensPlaces ==
  ASSUME BothInv, BothInv', NEW t, NEW n \in Nodes, NEW x,
         nd' = [nd EXCEPT ![n] = x], x.parent = nd[n].parent, x.name = nd[n].name
  PROVE  Shift(t, nd', {}) /\ TreeInv(nd') /\ \A u \in Ids : SamePlace(nd, nd', u)
<1>1. nd \in [Nodes -> NodeType] /\ TreeInv(nd')
  BY TypeSplit DEF BothInv, Inv
<1>2. \A u \in Ids : SamePlace(nd, nd', u)
  BY <1>1, IdsPlaces DEF SamePlace
<1> QED BY <1>1, <1>2, ShiftSame

LEMMA open_countedQueue ==
  ASSUME BothInv, BothInv', QInv, NEW t \in Threads, open_counted(t)
  PROVE  QInv'
<1>1. PICK n : n = call[t].n
  OBVIOUS
<1>2. /\ call[t].op = "open" /\ call[t].at = "count" /\ Goto(t, "reply") /\ treelock' = treelock
      /\ lockq' = lockq /\ nd' = [nd EXCEPT ![n].open_count = @ + 1]
  BY <1>1 DEF open_counted, At
<1>3. n \in Nodes /\ nd \in [Nodes -> NodeType]
  BY <1>1, <1>2, AtStep, TypeSplit DEF BothInv, Inv, Asked
<1>4. PICK x : x = [nd[n] EXCEPT !.open_count = @ + 1]
  OBVIOUS
<1>5. x.parent = nd[n].parent /\ x.name = nd[n].name
  BY <1>3, <1>4 DEF NodeType
<1>6. nd' = [nd EXCEPT ![n] = x]
  BY <1>2, <1>4
<1>7. Shift(t, nd', {})
  BY <1>3, <1>5, <1>6, OpensPlaces
<1> QED BY <1>2, <1>7, GotoQueue

\* A step of a release, with its path or without.
LEMMA CloseQueue ==
  ASSUME BothInv, BothInv', QInv, NEW t \in Threads, NEW a \in StepNames, Goto(t, a),
         call[t].op \in {"open", "release"}, a \notin {"wait", "fwait"},
         treelock' = treelock, lockq' = lockq, Shift(t, nd', {}),
         \A u \in Ids : SamePlace(nd, nd', u)
  PROVE  QInv'
<1>1. PICK q : Went(t, a, call[t].f, call[t].hid, q)
  BY GotoIs, TypeSplit DEF BothInv, Inv
<1>2. /\ q.op = call[t].op /\ q.at = a /\ (q.l <=> call[t].l) /\ (q.l2 <=> call[t].l2)
      /\ call' = [call EXCEPT ![t] = q]
  BY <1>1 DEF Went, Onward
<1>3. ~Waits(q) /\ (Working(call[t]) => Working(q)) /\ ~Cross(q)
  BY <1>2 DEF Waits, Working, Holds, Asleep, Cross
<1>4. \A u \in Threads \ {t} : Asleep(call[u]) /\ Holds(call[u]) => lockq'[1] = u
  BY DEF QInv, OnlyFirst
<1>5. PICK e : e = nd'
  OBVIOUS
<1>6. ASSUME NEW u \in Threads \ {t}, Asleep(call[u]), Blocked(nd, treelock, call[u])
      PROVE  Blocked(e, treelock, call[u])
  <2>1. Shape(call[u]) /\ TreeInv(nd)
    BY DEF BothInv, Inv, Calls
  <2>2. call[u].n \in Nodes /\ (Two(call[u]) => call[u].n2 \in Nodes)
    BY <2>1, <1>6, NoCallIs DEF Shape, Asked, Asleep
  <2>3. TreeInv(e) /\ \A x \in Ids : SamePlace(nd, e, x)
    BY <1>5 DEF Shift
  <2> QED BY <2>1, <2>2, <2>3, <1>6, BlockedPlaces
<1> QED BY <1>2, <1>3, <1>4, <1>5, <1>6, QuietQueue

LEMMA fuse_do_releaseQueue ==
  ASSUME BothInv, BothInv', QInv, NEW t \in Threads, fuse_do_release(t)
  PROVE  QInv'
<1>1. PICK n : n = call[t].n
  OBVIOUS
<1>2. /\ call[t].op \in {"open", "release"} /\ call[t].at = "rel" /\ treelock' = treelock
      /\ lockq' = lockq /\ \E a \in {"hidunlink", "free"} : Goto(t, a)
      /\ \E k, b : nd' = [nd EXCEPT ![n].open_count = k, ![n].is_hidden = b]
  BY <1>1 DEF fuse_do_release, At
<1>3. n \in Nodes /\ nd \in [Nodes -> NodeType]
  BY <1>1, <1>2, AtStep, TypeSplit DEF BothInv, Inv, Asked
<1>4. PICK k, b : nd' = [nd EXCEPT ![n].open_count = k, ![n].is_hidden = b]
  BY <1>2
<1>5. PICK x : x = [nd[n] EXCEPT !.open_count = k, !.is_hidden = b]
  OBVIOUS
<1>6. x.parent = nd[n].parent /\ x.name = nd[n].name
  BY <1>3, <1>5 DEF NodeType
<1>7. nd' = [nd EXCEPT ![n] = x]
  BY <1>4, <1>5
<1>8. Shift(t, nd', {}) /\ \A u \in Ids : SamePlace(nd, nd', u)
  BY <1>3, <1>6, <1>7, OpensPlaces
<1> QED BY <1>2, <1>8, CloseQueue DEF StepNames

LEMMA unlink_hiddenQueue ==
  ASSUME BothInv, BothInv', QInv, NEW t \in Threads, unlink_hidden(t)
  PROVE  QInv'
<1>1. /\ call[t].op \in {"open", "release"} /\ treelock' = treelock /\ lockq' = lockq
      /\ Goto(t, "free") /\ nd' = nd
  BY DEF unlink_hidden, At, table
<1> QED BY <1>1, TableSame, CloseQueue DEF StepNames, SamePlace

---------------------------------------------------------------------------
(* Nodes freed *)

\* Nodes go that nobody has locked and the kernel does not know.
OnlyFreed(e) ==
  /\ TreeInv(e)
  /\ \A u \in Ids : SamePlace(nd, e, u) \/ (e[u].refctr = 0 /\ treelock[u] = 0 /\ knows[u] = 0)

LEMMA GoneFreed ==
  ASSUME Inv, NEW t \in Threads, NEW n, NEW k, NEW F, Gone(n, k, F)
  PROVE  OnlyFreed(nd') /\ Shift(t, nd', {})
<1>1. PICK e : e = nd'
  OBVIOUS
<1>2. Dropped(nd, e, n, k, F) /\ F \subseteq Ids /\ LockOk(nd, treelock, call)
  BY <1>1 DEF Gone, Inv
<1>3. ASSUME NEW u \in Ids \ F PROVE SamePlace(nd, e, u)
  BY <1>2, IdsPlaces DEF Dropped
<1>4. ASSUME NEW u \in F
      PROVE  /\ e[u].refctr = 0 /\ e[u].parent = NoNode /\ treelock[u] = 0 /\ knows[u] = 0
             /\ W1(call, u) = {} /\ W2(call, u) = {}
  <2>1. /\ u \in Ids /\ knows[u] = 0 /\ R1(nd, call, u) = {} /\ R2(nd, call, u) = {}
        /\ W1(call, u) = {} /\ W2(call, u) = {}
    BY GoneFree
  <2>2. WN(call, u) = 0 /\ RN(nd, call, u) = 0
    BY <2>1, CountBounds
  <2>3. treelock[u] = 0
    BY <2>1, <2>2, <1>2 DEF LockOk, LockVal
  <2>4. e[u] = FreeNode
    BY <1>2 DEF Dropped
  <2> QED BY <2>1, <2>3, <2>4 DEF FreeNode
<1>5. TreeInv(e)
  BY <1>2 DEF Dropped
<1>6. OnlyFreed(e)
  BY <1>3, <1>4, <1>5 DEF OnlyFreed
<1>7. Shift(t, e, {})
  BY <1>3, <1>4, <1>5 DEF Shift
<1> QED BY <1>1, <1>6, <1>7

LEMMA BlockedFreed ==
  ASSUME Inv, NEW e, OnlyFreed(e), NEW u \in Threads, Waits(call[u]),
         Blocked(nd, treelock, call[u])
  PROVE  Blocked(e, treelock, call[u])
<1>1. PICK r : r = call[u]
  OBVIOUS
<1>2. Shape(r) /\ TreeInv(nd) /\ TreeInv(e) /\ KernelInv(call, knows, kopen)
  BY <1>1 DEF Inv, Calls, OnlyFreed
<1>3. Asked(r) /\ Phase(r)
  BY <1>1, <1>2, NoCallIs DEF Shape, Waits
<1>4. Tree(nd) /\ Tree(e) /\ knows \in [Ids -> Nat]
  BY <1>2, InvTree, TypeSplit DEF Inv
<1>5. ASSUME NEW n \in Nodes, n \in r.kref, NEW m, PathBlocked(nd, treelock, r, n, m)
      PROVE  PathBlocked(e, treelock, r, n, m)
  <2>1. CASE \E c \in Ids : Wr(r) /\ Child(nd, n, m, c) /\ treelock[c] # 0
    <3>1. PICK c \in Ids : Wr(r) /\ Child(nd, n, m, c) /\ treelock[c] # 0
      BY <2>1
    <3>2. Child(e, n, m, c)
      BY <3>1 DEF OnlyFreed, SamePlace, Child
    <3> QED BY <3>1, <3>2 DEF PathBlocked
  <2>2. CASE \E v \in Chain(nd, n) : treelock[v] < 0
    <3>1. PICK X : X = {v \in Ids : SamePlace(nd, e, v)}
      OBVIOUS
    <3>2. n \in Ids => n \in X
      <4> SUFFICES ASSUME n \in Ids PROVE n \in X
        OBVIOUS
      <4>1. knows[n] > 0
        BY <1>1, <1>2, <1>5 DEF KernelInv
      <4> QED BY <4>1, <3>1 DEF OnlyFreed
    <3>3. ASSUME NEW v \in X \cap Ids, nd[v].parent \in Ids PROVE nd[v].parent \in X
      <4>1. e[v].parent = nd[v].parent
        BY <3>1 DEF SamePlace
      <4>2. e[nd[v].parent].refctr # 0
        BY <4>1, <3>3, <1>2, FreeNoChild
      <4> QED BY <4>2, <3>1, <3>3 DEF OnlyFreed
    <3>4. n \in Places
      BY IdsPlaces
    <3>5. Chain(nd, n) \subseteq X
      BY <1>4, <3>2, <3>3, <3>4, ChainLeast
    <3>6. \A v \in Chain(nd, n) : e[v].parent = nd[v].parent
      BY <3>1, <3>5 DEF SamePlace
    <3>7. Chain(e, n) = Chain(nd, n)
      BY <1>4, <3>4, <3>6, ChainFrame DEF Tree
    <3> QED BY <2>2, <3>7 DEF PathBlocked
  <2> QED BY <1>5, <2>1, <2>2 DEF PathBlocked
<1>6. CASE r.at = "fwait"
  BY <1>1, <1>6 DEF Blocked
<1>7. CASE r.at = "wait"
  <2>1. r.n \in Nodes /\ r.n \in r.kref
    BY <1>3, <1>7 DEF Asked, Phase, Steps
  <2>2. Two(r) => r.n2 \in Nodes /\ r.n2 \in r.kref
    BY <1>3 DEF Asked, Phase
  <2> QED BY <1>1, <1>5, <1>7, <2>1, <2>2 DEF Blocked
<1> QED BY <1>1, <1>6, <1>7 DEF Waits

LEMMA ForgottenQueue ==
  ASSUME BothInv, QInv, NEW t \in Threads, call[t].op = "forget", ~MustWait(call[t]),
         nd' = DropLookups(nd, call[t].n, call[t].k), call' = [call EXCEPT ![t] = NoCall],
         treelock' = treelock,
         \A u \in Threads \ {t} : Asleep(call[u]) /\ Holds(call[u]) => lockq'[1] = u
  PROVE  QInv'
<1>1. Inv
  BY DEF BothInv
<1>2. PICK F : Gone(call[t].n, call[t].k, F)
  BY <1>1, ForgottenGone
<1>3. OnlyFreed(nd') /\ Shift(t, nd', {})
  BY <1>1, <1>2, GoneFreed
<1>4. PICK e, q : e = nd' /\ q = NoCall
  OBVIOUS
<1>5. \A u \in Threads \ {t} : Asleep(call[u]) /\ Blocked(nd, treelock, call[u])
                                 => Blocked(e, treelock, call[u])
  BY <1>1, <1>3, <1>4, BlockedFreed DEF Asleep, Waits
<1>6. ~Working(call[t])
  BY <1>1, ForgetIs DEF Working, Holds
<1>7. ~Waits(q) /\ ~Cross(q)
  BY <1>4, NoCallIs DEF Cross, Waits
<1> QED BY <1>3, <1>4, <1>5, <1>6, <1>7, QuietQueue

---------------------------------------------------------------------------
(* Requests that join the queue, and leave it *)

LEMMA HeadStays ==
  ASSUME NEW lq \in Seq(Threads), NEW t \in Threads, NEW p \in DOMAIN lq, lq[p] = t,
         NEW u \in Threads, u # t, lq[1] = u
  PROVE  RemoveAt(lq, p)[1] = u
<1>1. PICK N \in Nat : N = Len(lq)
  OBVIOUS
<1>2. p \in 1 .. N /\ p # 1
  BY <1>1
<1>3. 1 \in 1 .. N - 1 /\ 1 < p
  BY <1>2
<1> QED BY <1>1, <1>2, <1>3, RemoveAtIs

\* The head of the queue stays when another thread leaves it.
LEMMA HeadKept ==
  ASSUME BothInv, QInv, NEW t \in Threads, Waits(call[t]), lockq' = dequeue_path(t)
  PROVE  \A u \in Threads \ {t} : Asleep(call[u]) /\ Holds(call[u]) => lockq'[1] = u
<1> SUFFICES ASSUME NEW u \in Threads \ {t}, Asleep(call[u]), Holds(call[u])
             PROVE  lockq'[1] = u
  OBVIOUS
<1>1. lockq[1] = u /\ lockq \in Seq(Threads) /\ QueueInv(lockq, call)
  BY TypeSplit DEF BothInv, QInv, OnlyFirst, Inv
<1>2. PICK p : p = CHOOSE i \in DOMAIN lockq : lockq[i] = t
  OBVIOUS
<1>3. p \in DOMAIN lockq /\ lockq[p] = t
  BY <1>1, <1>2 DEF QueueInv
<1>4. RemoveAt(lockq, p)[1] = u
  BY <1>1, <1>3, HeadStays
<1> QED BY <1>2, <1>4 DEF dequeue_path

LEMMA HeadSame ==
  ASSUME QInv, NEW t, lockq' = lockq
  PROVE  \A u \in Threads \ {t} : Asleep(call[u]) /\ Holds(call[u]) => lockq'[1] = u
BY DEF QInv, OnlyFirst

LEMMA wait_path_doneQueue ==
  ASSUME BothInv, QInv, NEW t \in Threads, wait_path_done(t)
  PROVE  QInv'
<1>1. PICK r : r = call[t]
  OBVIOUS
<1>2. /\ r.at = "wait" /\ r.done /\ lockq' = dequeue_path(t) /\ nd' = nd /\ treelock' = treelock
      /\ call' = [call EXCEPT ![t] = IF r.err THEN NoPathFor(r)
                                     ELSE [r EXCEPT !.at = FirstStep(r.op), !.done = FALSE]]
  BY <1>1 DEF wait_path_done
<1>3. r \in CallType /\ Asked(r) /\ Phase(r) /\ Shift(t, nd', {})
  BY <1>1, <1>2, AtStep, TableSame DEF BothInv
<1>4. \A u \in Threads \ {t} : Asleep(call[u]) /\ Holds(call[u]) => lockq'[1] = u
  BY <1>1, <1>2, HeadKept DEF Waits
<1>5. PICK q : q = IF r.err THEN NoPathFor(r)
                   ELSE [r EXCEPT !.at = FirstStep(r.op), !.done = FALSE]
  OBVIOUS
<1>6. ~Waits(q) /\ (Cross(q) => Cross(r)) /\ (Working(r) => Working(q))
  <2>1. CASE ~r.err
    <3>1. q.at = FirstStep(r.op) /\ q.op = r.op /\ q.n = r.n /\ q.n2 = r.n2 /\ q.l = r.l
      BY <2>1, <1>3, <1>5 DEF CallType
    <3>2. Ready(r)
      BY <2>1, <1>2, <1>3 DEF Phase
    <3> QED BY <3>1, <3>2 DEF FirstStep, Waits, Cross, Working, Holds, Asleep, Ready
  <2>2. CASE r.err
    <3>1. ~r.l /\ ~r.l2
      BY <2>2, <1>2, <1>3 DEF Phase
    <3>2. q = NoCall \/ (q.at = "rel" /\ q.op = "release")
      BY <2>2, <1>3, <1>5 DEF NoPathFor, Unlocked, CallType
    <3> QED BY <3>1, <3>2, NoCallIs DEF Waits, Cross, Working, Holds
  <2> QED BY <2>1, <2>2
<1>7. \A u \in Threads \ {t} :
        Asleep(call[u]) /\ Blocked(nd, treelock, call[u]) => Blocked(nd', treelock, call[u])
  BY <1>2
<1>8. call' = [call EXCEPT ![t] = q]
  BY <1>2, <1>5
<1> QED BY <1>1, <1>2, <1>3, <1>4, <1>6, <1>7, <1>8, QuietQueue

\* A forget that waits for its node, again perhaps.
LEMMA ForgetWaitQueue ==
  ASSUME BothInv, QInv, NEW t \in Threads, call[t].op = "forget", MustWait(call[t]),
         NEW q, q.op = "forget", q.at = "fwait", q.n = call[t].n, ~q.l, ~q.l2,
         call' = [call EXCEPT ![t] = q], nd' = nd, treelock' = treelock,
         \A u \in Threads \ {t} : Asleep(call[u]) /\ Holds(call[u]) => lockq'[1] = u
  PROVE  QInv'
<1>1. PICK c2, lq : c2 = call' /\ lq = lockq'
  OBVIOUS
<1>2. /\ OneCross(call) /\ QWaits(nd, call) /\ OnlyFirst(lockq, call) /\ Inv
      /\ Stuck(nd, treelock, call) /\ call \in [Threads -> CallType]
  BY TypeSplit DEF QInv, BothInv, Inv
<1>3. c2[t] = q /\ \A u \in Threads \ {t} : c2[u] = call[u]
  BY <1>1, <1>2
<1>4. ~Cross(q) /\ ~Holds(q) /\ ~Holds(call[t])
  BY <1>2, ForgetIs DEF Cross, Holds
<1>5. OneCross(c2)
  BY <1>2, <1>3, <1>4 DEF OneCross
<1>6. QWaits(nd, c2)
  BY <1>2, <1>3 DEF QWaits, Apart, WaitsAt
<1>7. OnlyFirst(lq, c2)
  BY <1>1, <1>2, <1>3, <1>4 DEF OnlyFirst, HalfHeld
<1>8. Blocked(nd, treelock, q)
  BY DEF Blocked, MustWait
<1>9. Stuck(nd, treelock, c2)
  <2>1. CASE SomeWorks(call)
    <3>1. PICK u \in Threads : Working(call[u])
      BY <2>1 DEF SomeWorks
    <3>2. u # t
      BY <3>1, <1>4 DEF Working
    <3> QED BY <3>1, <3>2, <1>3 DEF Stuck, SomeWorks
  <2>2. CASE ~SomeWorks(call)
    BY <2>2, <1>2, <1>3, <1>8 DEF Stuck
  <2> QED BY <2>1, <2>2
<1> QED BY <1>1, <1>5, <1>6, <1>7, <1>9 DEF QInv

LEMMA forget_nodeQueue ==
  ASSUME BothInv, QInv, NEW t \in Threads, forget_node(t)
  PROVE  QInv'
<1>1. /\ call[t].op = "forget" /\ call[t].at = "forget" /\ treelock' = treelock
  BY DEF forget_node, At
<1>2. /\ call \in [Threads -> CallType] /\ lockq \in Seq(Threads) /\ QueueInv(lockq, call)
      /\ call[t] \in CallType /\ ~call[t].l /\ ~call[t].l2
  BY <1>1, ForgetIs, TypeSplit DEF BothInv, Inv
<1>3. CASE MustWait(call[t])
  <2>1. PICK q : q = [call[t] EXCEPT !.at = "fwait"]
    OBVIOUS
  <2>2. lockq' = Append(lockq, t) /\ call' = [call EXCEPT ![t] = q] /\ nd' = nd
    BY <1>3, <2>1 DEF forget_node, Goto
  <2>3. q.op = "forget" /\ q.at = "fwait" /\ q.n = call[t].n /\ ~q.l /\ ~q.l2
    BY <1>1, <1>2, <2>1 DEF CallType
  <2>4. ASSUME NEW u \in Threads \ {t}, Asleep(call[u]), Holds(call[u]) PROVE lockq'[1] = u
    <3>1. lockq[1] = u
      BY <2>4 DEF QInv, OnlyFirst
    <3>2. PICK i \in DOMAIN lockq : lockq[i] = u
      BY <2>4, <1>2 DEF QueueInv, Asleep, Waits
    <3>3. Append(lockq, t)[1] = lockq[1]
      BY <3>2, <1>2
    <3> QED BY <3>1, <3>3, <2>2
  <2> QED BY <1>1, <1>3, <2>2, <2>3, <2>4, ForgetWaitQueue
<1>4. CASE ~MustWait(call[t])
  <2>1. /\ nd' = DropLookups(nd, call[t].n, call[t].k) /\ call' = [call EXCEPT ![t] = NoCall]
        /\ lockq' = lockq
    BY <1>4 DEF forget_node
  <2> QED BY <1>1, <1>4, <2>1, HeadSame, ForgottenQueue
<1> QED BY <1>3, <1>4

LEMMA forget_node_wokenQueue ==
  ASSUME BothInv, QInv, NEW t \in Threads, forget_node_woken(t)
  PROVE  QInv'
<1>1. /\ call[t].op = "forget" /\ call[t].at = "fwait" /\ treelock' = treelock
  BY DEF forget_node_woken, At
<1>2. call[t] \in CallType /\ ~call[t].l /\ ~call[t].l2 /\ Waits(call[t])
  BY <1>1, ForgetIs, TypeSplit DEF BothInv, Inv, Waits
<1>3. CASE MustWait(call[t])
  <2>1. PICK q : q = [call[t] EXCEPT !.done = FALSE]
    OBVIOUS
  <2>2. call' = [call EXCEPT ![t] = q] /\ nd' = nd /\ lockq' = lockq
    BY <1>3, <2>1 DEF forget_node_woken
  <2>3. q.op = "forget" /\ q.at = "fwait" /\ q.n = call[t].n /\ ~q.l /\ ~q.l2
    BY <1>1, <1>2, <2>1 DEF CallType
  <2> QED BY <1>1, <1>3, <2>2, <2>3, HeadSame, ForgetWaitQueue
<1>4. CASE ~MustWait(call[t])
  <2>1. /\ nd' = DropLookups(nd, call[t].n, call[t].k) /\ call' = [call EXCEPT ![t] = NoCall]
        /\ lockq' = dequeue_path(t)
    BY <1>4 DEF forget_node_woken
  <2> QED BY <1>1, <1>2, <1>4, <2>1, HeadKept, ForgottenQueue
<1> QED BY <1>3, <1>4

\* The kernel's forget is not yet in the queue.
LEMMA fuse_lib_forgetQueue ==
  ASSUME BothInv, QInv, NEW t \in Threads, NEW n \in Ids, Idle(t), fuse_lib_forget(t, n)
  PROVE  QInv'
<1>1. PICK q : q = [NoCall EXCEPT !.op = "forget", !.at = "forget", !.n = n, !.k = knows[n]]
  OBVIOUS
<1>2. call' = [call EXCEPT ![t] = q] /\ nd' = nd /\ treelock' = treelock /\ lockq' = lockq
  BY <1>1 DEF fuse_lib_forget, table
<1>3. q.op = "forget" /\ q.at = "forget"
  BY <1>1 DEF NoCall
<1>4. ~Waits(q) /\ ~Cross(q)
  BY <1>3 DEF Waits, Cross
<1>5. ~Working(call[t])
  BY IdleIs, NoCallIs DEF BothInv, Working, Holds
<1>6. Shift(t, nd', {})
  BY <1>2, TableSame
<1> QED BY <1>2, <1>4, <1>5, <1>6, HeadSame, QuietQueue

---------------------------------------------------------------------------
(* Paths freed, and requests that are new *)

\* The queue is woken: what sleeps then is blocked, unless somebody works.
LEMMA WokenQueue ==
  ASSUME BothInv, QInv, NEW t \in Threads, ~Waits(call[t]), NEW new, ~Waits(new), ~Cross(new),
         NEW c0, c0 = [call EXCEPT ![t] = new], NEW s, s.call = c0, WakeInv(c0, s),
         NEW k, k = wake_up_queued(s), call' = k.call, treelock' = k.tl, nd' = nd, lockq' = lockq
  PROVE  QInv'
<1>1. PICK c2, tl : c2 = call' /\ tl = treelock'
  OBVIOUS
<1>2. /\ OneCross(call) /\ QWaits(nd, call) /\ OnlyFirst(lockq, call) /\ TreeInv(nd)
      /\ call \in [Threads -> CallType] /\ lockq \in Seq(Threads) /\ QueueInv(lockq, call)
  BY TypeSplit DEF QInv, BothInv, Inv
<1>3. c0[t] = new /\ \A u \in Threads \ {t} : c0[u] = call[u]
  BY <1>2
<1>4. ~Asleep(new) /\ new.at # "wait"
  BY DEF Waits, Asleep
<1>5. WokenTo(c0, s, 0)
  <2>1. \A u \in Threads : WaitsAt(nd, c0[u])
    BY <1>2, <1>3, <1>4 DEF QWaits, WaitsAt
  <2>2. OnlyFirst(lockq, c0)
    <3>1. \A u \in Threads : ~Asleep(c0[u]) \/ c0[u] = call[u]
      BY <1>3, <1>4
    <3> QED BY <3>1, <1>2 DEF OnlyFirst, HalfHeld
  <2>3. \A j \in 1 .. 0 : FALSE
    OBVIOUS
  <2> QED BY <2>1, <2>2, <2>3 DEF WokenTo
<1>6. QueueInv(lockq, c0)
  <2>1. \A u \in Threads : Waits(c0[u]) <=> Waits(call[u])
    BY <1>3
  <2> QED BY <1>2, <2>1 DEF QueueInv
<1>7. \A u \in Threads : c0[u].at = "wait" => Lockable(nd, c0[u]) /\ Clear(nd, c0[u])
  BY <1>3, <1>4, WaitClear
<1>8. WokenTo(c0, k, Len(lockq))
  BY <1>2, <1>5, <1>6, <1>7, WakeAllDone
<1>9. /\ WakeInv(c0, k) /\ (\A u \in Threads : WaitsAt(nd, c2[u])) /\ OnlyFirst(lockq, c2)
      /\ \/ SomeWorks(c2)
         \/ \A j \in 1 .. Len(lockq) : Asleep(c2[lockq[j]]) => Blocked(nd, tl, c2[lockq[j]])
  BY <1>1, <1>8 DEF WokenTo
<1>10. \A u \in Threads : Same(c2[u], c0[u])
  BY <1>1, <1>9 DEF WakeInv
<1>11. OneCross(c2)
  <2>1. \A u \in Threads : Cross(c2[u]) => Cross(call[u])
    <3> SUFFICES ASSUME NEW u \in Threads, Cross(c2[u]) PROVE Cross(call[u])
      OBVIOUS
    <3>1. Cross(c0[u])
      BY <1>10 DEF Same, Cross
    <3> QED BY <3>1, <1>3
  <2> QED BY <2>1, <1>2 DEF OneCross
<1>12. QWaits(nd, c2)
  <2> SUFFICES ASSUME NEW u \in Threads PROVE Apart(nd, c2[u])
    BY <1>9 DEF QWaits
  <2>1. Apart(nd, c0[u])
    BY <1>2, <1>3, <1>4 DEF QWaits, Apart
  <2> QED BY <2>1, <1>10 DEF Same, Apart, Parted, Cross
<1>13. Stuck(nd, tl, c2)
  <2>1. ASSUME ~SomeWorks(c2), NEW u \in Threads, Asleep(c2[u]) PROVE Blocked(nd, tl, c2[u])
    <3>1. Waits(c0[u])
      BY <2>1, <1>10 DEF Asleep, Same, Waits
    <3>2. PICK j \in DOMAIN lockq : lockq[j] = u
      BY <3>1, <1>6 DEF QueueInv
    <3>3. j \in 1 .. Len(lockq)
      BY <3>2, <1>2
    <3> QED BY <2>1, <3>2, <3>3, <1>9
  <2> QED BY <2>1 DEF Stuck
<1> QED BY <1>1, <1>9, <1>11, <1>12, <1>13 DEF QInv

LEMMA FreedQueue ==
  ASSUME BothInv, QInv, NEW t \in Threads, ~Waits(call[t]), call[t].l2 => call[t].l,
         NEW new \in CallType, ~new.l, ~new.l2, ~Waits(new), Shape(new), Locks(nd, new),
         ~Cross(new), FreePath(t, new), nd' = nd, lockq' = lockq
  PROVE  QInv'
<1>1. PICK c0 : c0 = [call EXCEPT ![t] = new]
  OBVIOUS
<1>2. /\ call \in [Threads -> CallType] /\ treelock \in [Ids -> Int] /\ Inv
      /\ TreeInv(nd) /\ Calls(nd, call) /\ LockOk(nd, treelock, call)
  BY TypeSplit DEF BothInv, Inv
<1>3. /\ c0 \in [Threads -> CallType] /\ c0[t] = new /\ Calls(nd, c0)
  BY <1>1, <1>2 DEF Calls
<1>4. CASE call[t].l
  <2>1. PICK tl : tl = Unlock(treelock, call[t])
    OBVIOUS
  <2>2. Held(nd, treelock, call, t, call[t])
    <3>1. [call EXCEPT ![t] = call[t]] = call
      BY <1>2
    <3> QED BY <1>2, <3>1 DEF Held, Calls
  <2>3. tl \in [Ids -> Int] /\ LockOk(nd, tl, c0)
    BY <1>1, <1>2, <2>1, <2>2, UnlockedOk
  <2>4. PICK s : s = [tl |-> tl, call |-> c0]
    OBVIOUS
  <2>5. WakeInv(c0, s)
    <3>1. \A u \in Threads : Same(c0[u], c0[u])
      BY DEF Same
    <3> QED BY <1>3, <2>3, <2>4, <3>1 DEF WakeInv
  <2>6. PICK k : k = wake_up_queued(s)
    OBVIOUS
  <2>7. treelock' = k.tl /\ call' = k.call /\ s.call = c0
    BY <1>1, <1>4, <2>1, <2>4, <2>6 DEF FreePath
  <2> QED BY <1>1, <2>5, <2>6, <2>7, WokenQueue
<1>5. CASE ~call[t].l
  <2>1. treelock' = treelock /\ call' = c0
    BY <1>1, <1>5 DEF FreePath
  <2>2. ~Working(call[t])
    BY <1>5 DEF Working, Holds
  <2>3. Shift(t, nd', {})
    BY TableSame
  <2>4. \A u \in Threads \ {t} : Asleep(call[u]) /\ Holds(call[u]) => lockq'[1] = u
    BY HeadSame
  <2>5. \A u \in Threads \ {t} :
          Asleep(call[u]) /\ Blocked(nd, treelock, call[u]) => Blocked(nd', treelock, call[u])
    OBVIOUS
  <2> QED BY <1>1, <2>1, <2>2, <2>3, <2>4, <2>5, QuietQueue
<1> QED BY <1>4, <1>5

LEMMA free_and_replyQueue ==
  ASSUME BothInv, QInv, NEW t \in Threads, free_and_reply(t)
  PROVE  QInv'
<1>1. /\ \/ call[t].op = "getattr" /\ call[t].at = "fs"
         \/ call[t].at = "free"
      /\ FreePath(t, NoCall) /\ nd' = nd /\ lockq' = lockq
  BY DEF free_and_reply, At, Finding
<1>2. ~Waits(call[t]) /\ (call[t].l2 => call[t].l)
  BY <1>1, AnswersIs DEF BothInv
<1>3. PICK new : new = NoCall
  OBVIOUS
<1>4. /\ new \in CallType /\ ~new.l /\ ~new.l2 /\ ~Waits(new) /\ Shape(new) /\ Locks(nd, new)
      /\ FreePath(t, new) /\ ~Cross(new)
  BY <1>1, <1>3, NoCallIs DEF Cross
<1> QED BY <1>1, <1>2, <1>4, FreedQueue

LEMMA reply_entryQueue ==
  ASSUME BothInv, QInv, NEW t \in Threads, reply_entry(t)
  PROVE  QInv'
<1>1. PICK n : n = call[t].ino
  OBVIOUS
<1>2. /\ call[t].at = "free" /\ n # NoNode /\ nd' = nd /\ lockq' = lockq
      /\ \/ FreePath(t, NoCall)
         \/ FreePath(t, [NoCall EXCEPT !.op = "forget", !.at = "forget", !.n = n, !.k = 1])
  BY <1>1 DEF reply_entry, At
<1>3. call[t] \in CallType
  BY <1>2, AtStep DEF BothInv
<1>4. n \in Ids
  BY <1>1, <1>2, <1>3 DEF CallType
<1>5. ~Waits(call[t]) /\ (call[t].l2 => call[t].l)
  BY <1>2, AnswersIs DEF BothInv
<1>6. CASE FreePath(t, NoCall)
  <2>1. PICK new : new = NoCall
    OBVIOUS
  <2>2. /\ new \in CallType /\ ~new.l /\ ~new.l2 /\ ~Waits(new) /\ Shape(new) /\ Locks(nd, new)
        /\ FreePath(t, new) /\ ~Cross(new)
    BY <1>6, <2>1, NoCallIs DEF Cross
  <2> QED BY <1>2, <1>5, <2>2, FreedQueue
<1>7. CASE FreePath(t, [NoCall EXCEPT !.op = "forget", !.at = "forget", !.n = n, !.k = 1])
  <2>1. PICK new : new = [NoCall EXCEPT !.op = "forget", !.at = "forget", !.n = n, !.k = 1]
    OBVIOUS
  <2>2. PICK k \in Nat : k = 1
    OBVIOUS
  <2>3. new = [NoCall EXCEPT !.op = "forget", !.at = "forget", !.n = n, !.k = k] /\ k > 0
    BY <2>1, <2>2
  <2>4. ForgetOf(n, k, new) /\ Shape(new) /\ ~Waits(new) /\ Locks(nd, new)
    BY <1>4, <2>3, ForgetOfIs
  <2>5. new \in CallType /\ ~new.l /\ ~new.l2 /\ new.op = "forget"
    BY <2>4 DEF ForgetOf
  <2>6. FreePath(t, new) /\ ~Cross(new)
    BY <1>7, <2>1, <2>5 DEF Cross
  <2> QED BY <1>2, <1>5, <2>4, <2>5, <2>6, FreedQueue
<1> QED BY <1>2, <1>6, <1>7

\* A request that is new works, or is blocked, or is answered at once.
LEMMA TakesQueue ==
  ASSUME BothInv, QInv, NEW t \in Threads, Idle(t), NEW r, Sends(t, r)
  PROVE  QInv'
<1>1. PICK c2, tl, lq : c2 = call' /\ tl = treelock' /\ lq = lockq'
  OBVIOUS
<1>2. /\ OneCross(call) /\ QWaits(nd, call) /\ OnlyFirst(lockq, call) /\ TreeInv(nd) /\ Inv
      /\ Stuck(nd, treelock, call) /\ Calls(nd, call) /\ lockq \in Seq(Threads)
      /\ QueueInv(lockq, call)
  BY TypeSplit DEF QInv, BothInv, Inv
<1>3. call[t] = NoCall
  BY <1>2, IdleIs
<1>4. GetPath(t, r) /\ Fresh(r) /\ Wants(nd, host, r) /\ Crosses(r) /\ Asked(r)
  BY DEF Sends, Request, Fresh
<1>5. Parted(nd, r)
  BY <1>4 DEF Crosses, Parted
<1>6. r.op = "rename" => r.n # r.n2 \/ r.m # r.m2
  BY <1>4 DEF Wants
<1>7. Clear(nd, r)
  BY <1>2, <1>4, <1>5, <1>6, PartedClear
<1>8. Queued(t, r)
  BY <1>2, <1>3, <1>4, <1>7, GotDoes
<1>9. /\ \A u \in Threads \ {t} : c2[u] = call[u]
      /\ \/ c2[t] = NoCall
         \/ c2[t].op = r.op /\ c2[t].n = r.n /\ c2[t].m = r.m
            /\ c2[t].n2 = r.n2 /\ c2[t].m2 = r.m2
      /\ \/ Working(c2[t]) /\ c2[t].at # "wait" /\ lq = lockq
         \/ /\ Tighter(treelock, tl) /\ ~Holds(c2[t])
            /\ \/ ~Waits(c2[t]) /\ lq = lockq
               \/ Blocked(nd, tl, c2[t]) /\ lq = Append(lockq, t)
  BY <1>1, <1>8 DEF Queued
<1>10. nd' = nd
  BY <1>4 DEF GetPath, Got
<1>11. NoCall.op # "rename" /\ NoCall.at # "wait"
  BY DEF NoCall
<1>12. OneCross(c2)
  <2>1. Cross(c2[t]) => \A u \in Threads : ~Cross(call[u])
    BY <1>4, <1>9, <1>11 DEF Crosses, Cross
  <2> QED BY <1>2, <1>9, <2>1 DEF OneCross
<1>13. QWaits(nd, c2)
  <2>1. Apart(nd, c2[t])
    BY <1>5, <1>9, <1>11 DEF Apart, Parted, Cross
  <2>2. WaitsAt(nd, c2[t])
    BY <1>9 DEF WaitsAt, Holds
  <2> QED BY <1>2, <1>9, <2>1, <2>2 DEF QWaits
<1>14. ASSUME NEW u \in Threads \ {t}, Asleep(call[u]), Holds(call[u]) PROVE lq[1] = u
  <2>1. lockq[1] = u
    BY <1>2, <1>14 DEF OnlyFirst
  <2>2. \E i \in DOMAIN lockq : lockq[i] = u
    BY <1>2, <1>14 DEF QueueInv, Asleep, Waits
  <2>3. Len(lockq) >= 1
    BY <1>2, <2>2
  <2> QED BY <1>2, <1>9, <2>1, <2>3
<1>15. OnlyFirst(lq, c2)
  <2>1. ~(Asleep(c2[t]) /\ Holds(c2[t]))
    BY <1>9 DEF Working
  <2> QED BY <1>2, <1>9, <1>14, <2>1 DEF OnlyFirst, HalfHeld
<1>16. Stuck(nd, tl, c2)
  <2>1. CASE SomeWorks(call)
    <3>1. PICK u \in Threads : Working(call[u])
      BY <2>1 DEF SomeWorks
    <3>2. u # t
      BY <3>1, <1>3, NoCallIs DEF Working, Holds
    <3> QED BY <3>1, <3>2, <1>9 DEF Stuck, SomeWorks
  <2>2. CASE Working(c2[t])
    BY <2>2 DEF Stuck, SomeWorks
  <2>3. CASE ~SomeWorks(call) /\ ~Working(c2[t])
    <3>1. Tighter(treelock, tl)
      BY <2>3, <1>9
    <3>2. ASSUME NEW u \in Threads \ {t}, Asleep(call[u]) PROVE Blocked(nd, tl, call[u])
      <4>1. Shape(call[u]) /\ Waits(call[u]) /\ Blocked(nd, treelock, call[u])
        BY <1>2, <2>3, <3>2 DEF Stuck, Calls, Asleep, Waits
      <4> QED BY <1>2, <3>1, <4>1, BlockedStays
    <3>3. Asleep(c2[t]) => Blocked(nd, tl, c2[t])
      BY <2>3, <1>9 DEF Asleep, Waits
    <3> QED BY <3>2, <3>3, <1>9 DEF Stuck
  <2> QED BY <2>1, <2>2, <2>3
<1> QED BY <1>1, <1>10, <1>12, <1>13, <1>15, <1>16 DEF QInv

---------------------------------------------------------------------------
(* The queue moves *)

LEMMA InitKeepsQ == Init => QInv
<1> SUFFICES ASSUME Init PROVE QInv
  OBVIOUS
<1>1. \A t \in Threads : call[t] = NoCall
  BY DEF Init
<1>2. NoCall.op = "none" /\ NoCall.at = "idle"
  BY DEF NoCall
<1>3. ~Cross(NoCall) /\ ~Asleep(NoCall)
  BY <1>2 DEF Cross, Asleep
<1>4. QWaits(nd, call)
  BY <1>1, <1>2 DEF QWaits, Apart, WaitsAt
<1> QED BY <1>1, <1>3, <1>4 DEF QInv, OneCross, OnlyFirst, HalfHeld, Stuck

LEMMA SendKeepsQ ==
  ASSUME BothInv, QInv, NEW t \in Threads, Idle(t), KernelSends(t)
  PROVE  QInv'
<1>1. CASE \E r : Sends(t, r)
  BY <1>1, TakesQueue
<1>2. CASE \E n \in Ids : fuse_lib_forget(t, n)
  BY <1>2, fuse_lib_forgetQueue
<1> QED BY <1>1, <1>2, SendTakes

LEMMA StepKeepsQ ==
  ASSUME BothInv, BothInv', QInv, NEW t \in Threads, Step(t)
  PROVE  QInv'
BY wait_path_doneQueue, fs_failsQueue, lookup_pathQueue, find_nodeQueue, HandlerQueue,
   unlink_or_hideQueue, hide_node_tableQueue, remove_node_requestQueue, rename_node_requestQueue,
   open_countedQueue, fuse_reply_openQueue, fuse_do_releaseQueue, unlink_hiddenQueue,
   free_and_replyQueue, reply_entryQueue, forget_nodeQueue, forget_node_wokenQueue
   DEF Step

LEMMA NextKeepsQ == BothInv /\ QInv /\ [Next]_vars => QInv'
<1> SUFFICES ASSUME BothInv, QInv, [Next]_vars PROVE QInv'
  OBVIOUS
<1>1. BothInv'
  BY NextKeeps
<1>2. CASE Next
  <2>1. PICK t \in Threads : (Idle(t) /\ KernelSends(t)) \/ Step(t)
    BY <1>2 DEF Next
  <2> QED BY <1>1, <2>1, SendKeepsQ, StepKeepsQ
<1>3. CASE vars' = vars
  <2>1. nd' = nd /\ treelock' = treelock /\ lockq' = lockq /\ call' = call
    BY <1>3 DEF vars
  <2> QED BY <2>1 DEF QInv
<1> QED BY <1>2, <1>3

\* Request r has one of its paths, n, m, with w write-locked, and is blocked on n2, m2.
BlockedHalf(r, n, m, w, n2, m2) ==
  /\ n \in Nodes /\ n2 \in Nodes /\ PathBlocked(nd, treelock, r, n2, m2)
  /\ Parts(nd, r, n, m, n2, m2)
  /\ w \in Ids => Wr(r) /\ Child(nd, n, m, w)
  /\ \A u \in Ids : treelock[u] # 0 => u \in Chain(nd, n) \/ u = w

ByItself(n, n2) == \E u \in Chain(nd, n) \cap Chain(nd, n2) : treelock[u] < 0

\* If nobody else has locks, a writer waits on a node of both.
LEMMA BlockedByItself ==
  ASSUME TreeInv(nd), NEW r, NEW n, NEW m, NEW w, NEW n2, NEW m2, BlockedHalf(r, n, m, w, n2, m2)
  PROVE  ByItself(n, n2)
<1>1. Chain(nd, n2) \subseteq Ids
  BY InvTree, ChainIds, IdsPlaces DEF BlockedHalf
<1>2. Wr(r) => /\ Split(nd, n, m, n2) /\ Split(nd, n2, m2, n)
               /\ \A c \in Ids : ~(Child(nd, n, m, c) /\ Child(nd, n2, m2, c))
  BY DEF BlockedHalf, Parts
<1>3. ~(Wr(r) /\ \E c \in Ids : Child(nd, n2, m2, c) /\ treelock[c] # 0)
  BY <1>2 DEF BlockedHalf, Split
<1>4. PICK u \in Chain(nd, n2) : treelock[u] < 0
  BY <1>3 DEF BlockedHalf, PathBlocked
<1>5. u \in Ids /\ treelock[u] # 0
  BY <1>1, <1>4
<1>6. u # w
  BY <1>2, <1>4, <1>5 DEF BlockedHalf, Split
<1> QED BY <1>4, <1>5, <1>6 DEF BlockedHalf, ByItself

LEMMA QueueMovesIs == BothInv /\ QInv => QueueMoves
<1> SUFFICES ASSUME BothInv, QInv, NEW t0 \in Threads, Sleeps(t0),
                    \A t \in Threads : Idle(t) \/ Sleeps(t)
             PROVE  BlocksItself
  BY DEF QueueMoves
<1>1. /\ QWaits(nd, call) /\ OnlyFirst(lockq, call) /\ Stuck(nd, treelock, call) /\ Inv
      /\ TreeInv(nd) /\ QueueInv(lockq, call) /\ LockOk(nd, treelock, call) /\ Calls(nd, call)
      /\ lockq \in Seq(Threads) /\ call \in [Threads -> CallType]
  BY TypeSplit DEF QInv, BothInv, Inv
<1>2. \A t \in Threads : Sleeps(t) <=> Asleep(call[t])
  BY DEF Sleeps, Asleep
<1>3. \A t \in Threads : Holds(call[t]) => Asleep(call[t])
  BY <1>1, <1>2, IdleIs, NoCallIs DEF Holds
<1>4. \A t \in Threads : Asleep(call[t]) => Blocked(nd, treelock, call[t])
  BY <1>1, <1>3 DEF Stuck, SomeWorks, Working
<1>5. PICK h : h = lockq[1]
  OBVIOUS
<1>6. lockq # <<>> /\ Head(lockq) = h /\ h \in Threads /\ Waits(call[h])
  <2>1. \E i \in DOMAIN lockq : lockq[i] = t0
    BY <1>1 DEF QueueInv, Sleeps, Waits
  <2>2. 1 \in DOMAIN lockq /\ lockq # <<>>
    BY <1>1, <2>1
  <2>3. h \in Threads /\ Head(lockq) = h
    BY <1>1, <1>5, <2>2
  <2> QED BY <1>1, <1>5, <2>2, <2>3 DEF QueueInv
<1>7. PICK r : r = call[h]
  OBVIOUS
<1>8. /\ r \in CallType /\ Shape(r) /\ Locks(nd, r) /\ Asleep(r) /\ Blocked(nd, treelock, r)
      /\ Waits(r) /\ HalfHeld(r) /\ WaitsAt(nd, r)
  <2>1. ~Idle(h)
    BY <1>6 DEF Waits, Idle
  <2>2. Asleep(r)
    BY <1>2, <1>6, <1>7, <2>1
  <2> QED BY <1>1, <1>4, <1>6, <1>7, <2>2 DEF Calls, OnlyFirst, QWaits
<1>9. Asked(r) /\ Phase(r)
  BY <1>8 DEF Shape, Waits, NoCall
<1>10. r.n \in Nodes /\ (Two(r) => r.n2 \in Nodes) /\ (r.at = "fwait" => r.n \in Ids /\ r.op = "forget")
  BY <1>9 DEF Asked, Phase, Steps, InDir
\* Only the first request of the queue has locks.
<1>11. ASSUME NEW u \in Ids, treelock[u] # 0
       PROVE  \/ r.l /\ (u \in Chain(nd, r.n) \/ r.w = u)
              \/ r.l2 /\ (u \in Chain(nd, r.n2) \/ r.w2 = u)
  <2>4. R1(nd, call, u) \cup R2(nd, call, u) \cup W1(call, u) \cup W2(call, u) # {}
    <3>1. LockOk(nd, treelock, call)
      BY <1>1
    <3>2. R1(nd, call, u) \cup R2(nd, call, u) \cup W1(call, u) \cup W2(call, u) = {} =>
            treelock[u] = 0
      BY <3>1, LockedBy
    <3> QED BY <1>11, <3>2
  <2>1. PICK x : x \in R1(nd, call, u) \cup R2(nd, call, u) \cup W1(call, u) \cup W2(call, u)
    BY <2>4
  <2>2. x \in Threads /\ Holds(call[x])
    BY <2>1 DEF R1, R2, W1, W2, Holds
  <2>3. x = h
    BY <1>1, <1>3, <1>5, <2>2 DEF OnlyFirst
  <2> QED BY <1>7, <2>1, <2>3 DEF R1, R2, W1, W2
<1>12. Holds(r)
  <2> SUFFICES ASSUME ~r.l, ~r.l2 PROVE FALSE
    BY DEF Holds
  <2>1. \A u \in Ids : treelock[u] = 0
    BY <1>11
  <2>2. ASSUME NEW n \in Nodes, NEW m, PathBlocked(nd, treelock, r, n, m) PROVE FALSE
    <3>1. Chain(nd, n) \subseteq Ids
      BY <1>1, InvTree, ChainIds, IdsPlaces
    <3>2. \A u \in Ids : ~(treelock[u] < 0) /\ ~(treelock[u] # 0)
      BY <2>1
    <3> QED BY <2>2, <3>1, <3>2 DEF PathBlocked
  <2> QED BY <1>8, <1>10, <2>1, <2>2 DEF Blocked
<1>13. Two(r) /\ (r.l # r.l2) /\ r.at = "wait"
  BY <1>8, <1>10, <1>12 DEF HalfHeld, Two, Waits
<1>14. Clear(nd, r) /\ r.l \in BOOLEAN /\ r.l2 \in BOOLEAN
  BY <1>6, <1>7, <1>8, <1>13, WaitClear DEF CallType
<1>15. Parts(nd, r, r.n, r.m, r.n2, r.m2) /\ Parts(nd, r, r.n2, r.m2, r.n, r.m)
  BY <1>13, <1>14 DEF Clear, Parts
<1>16. (~Wr(r) => r.w = NoNode /\ r.w2 = NoNode) /\ NoNode \notin Ids
  BY <1>8, IdsPlaces DEF Locks
<1>17. CASE r.l /\ ~r.l2
  <2>1. PathBlocked(nd, treelock, r, r.n2, r.m2)
    BY <1>8, <1>13, <1>17 DEF Blocked
  <2>2. r.w \in Ids => Wr(r) /\ Child(nd, r.n, r.m, r.w)
    BY <1>8, <1>13, <1>16, <1>17 DEF WaitsAt
  <2>3. \A u \in Ids : treelock[u] # 0 => u \in Chain(nd, r.n) \/ u = r.w
    BY <1>11, <1>17
  <2>4. BlockedHalf(r, r.n, r.m, r.w, r.n2, r.m2)
    BY <1>10, <1>13, <1>15, <2>1, <2>2, <2>3 DEF BlockedHalf
  <2>5. ByItself(r.n, r.n2)
    BY <1>1, <2>4, BlockedByItself
  <2> QED BY <1>6, <1>7, <1>13, <2>5 DEF BlocksItself, ByItself
<1>18. CASE ~r.l /\ r.l2
  <2>1. PathBlocked(nd, treelock, r, r.n, r.m)
    BY <1>8, <1>13, <1>18 DEF Blocked
  <2>2. r.w2 \in Ids => Wr(r) /\ Child(nd, r.n2, r.m2, r.w2)
    BY <1>8, <1>13, <1>16, <1>18 DEF WaitsAt
  <2>3. \A u \in Ids : treelock[u] # 0 => u \in Chain(nd, r.n2) \/ u = r.w2
    BY <1>11, <1>18
  <2>4. BlockedHalf(r, r.n2, r.m2, r.w2, r.n, r.m)
    BY <1>10, <1>13, <1>15, <2>1, <2>2, <2>3 DEF BlockedHalf
  <2>5. ByItself(r.n2, r.n)
    BY <1>1, <2>4, BlockedByItself
  <2> QED BY <1>6, <1>7, <1>13, <2>5 DEF BlocksItself, ByItself
<1> QED BY <1>13, <1>14, <1>17, <1>18

\* Whenever a request sleeps in the queue, a thread is at work that will wake it
\* (wake_up_queued in free_path), or the first of the queue blocks itself, as long as
\* exchanges are made (FlagsHonoured).
THEOREM SpecQueueMoves == FlagsHonoured /\ Spec => []QueueMoves
<1>1. FlagsHonoured /\ Init => BothInv /\ QInv
  BY InitKeeps, InitKeepsQ
<1>2. BothInv /\ QInv /\ [Next]_vars => (BothInv /\ QInv)'
  BY NextKeeps, NextKeepsQ
<1>3. BothInv /\ QInv => QueueMoves
  BY QueueMovesIs
<1> QED BY <1>1, <1>2, <1>3, PTL DEF Spec

=============================================================================
