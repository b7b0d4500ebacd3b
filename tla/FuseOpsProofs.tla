--------------------------- MODULE FuseOpsProofs ---------------------------
(***************************************************************************)
(* Proofs about FuseOps, for every set of owners, every offset limit, every *)
(* configuration and every listing: each request is ended exactly once with *)
(* nothing left behind (RequestDone), the record of locks is exact          *)
(* (LocksAgree), getlk tells the truth (GetlkTrue) and the record           *)
(* implements the abstract one (LockRecord).                                *)
(*                                                                          *)
(* A request is handled by operators on the call c, so the proof is about   *)
(* what each of them leaves alone: LockSame, the locks and what was asked;  *)
(* EndSame, how far the request is.  A function of the file system leaves   *)
(* both alone, a path or an answer only the first.                          *)
(***************************************************************************)
EXTENDS FuseOps, WellFoundedInduction, TLAPS

---------------------------------------------------------------------------
(* Induction *)

LEMMA NatMin ==
  ASSUME NEW T, T \subseteq Nat, T # {}
  PROVE  \E x \in T : \A y \in T : x <= y
<1>1. IsWellFoundedOn(OpToRel(<, Nat), Nat)
  BY NatLessThanWellFounded, Zenon
<1>2. PICK x \in T : \A y \in T : ~(<<y, x>> \in OpToRel(<, Nat))
  BY <1>1, WFMin, Zenon
<1>3. \A y \in T : ~(y < x)
  BY <1>2 DEF OpToRel
<1> QED BY <1>3

LEMMA NatInd ==
  ASSUME NEW T, 0 \in T, \A n \in Nat : n \in T => n + 1 \in T
  PROVE  Nat \subseteq T
<1> SUFFICES ASSUME ~(Nat \subseteq T) PROVE FALSE
  OBVIOUS
<1>1. PICK x \in Nat \ T : \A y \in Nat \ T : x <= y
  BY NatMin
<1>2. x # 0 /\ x - 1 \in Nat /\ x - 1 \in T
  BY <1>1
<1> QED BY <1>1, <1>2

---------------------------------------------------------------------------
(* The walk *)

StartWalk(k) == [lock |-> k, out |-> <<>>, pos |-> 0, done |-> FALSE]

\* w is the walk over the first n ranges of ls.
IsWalk(w, ls, k, n) ==
  w = [i \in 0 .. n |-> IF i = 0 THEN StartWalk(k) ELSE Walk(w[i - 1], ls[i])]

LEMMA WalkExists == ASSUME NEW ls, NEW k PROVE \A n \in Nat : \E w : IsWalk(w, ls, k, n)
<1> DEFINE T == {n \in Nat : \E w : IsWalk(w, ls, k, n)}
<1>1. 0 \in T
  <2> DEFINE w == [i \in 0 .. 0 |-> StartWalk(k)]
  <2>1. w = [i \in 0 .. 0 |-> IF i = 0 THEN StartWalk(k) ELSE Walk(w[i - 1], ls[i])]
    OBVIOUS
  <2> HIDE DEF w
  <2> QED BY <2>1 DEF IsWalk
<1>2. ASSUME NEW n \in Nat, n \in T PROVE n + 1 \in T
  <2>1. PICK w : IsWalk(w, ls, k, n)
    BY <1>2
  <2> DEFINE v == [i \in 0 .. n + 1 |-> IF i <= n THEN w[i] ELSE Walk(w[n], ls[n + 1])]
  <2>2. v[0] = StartWalk(k)
    BY <2>1 DEF IsWalk
  <2>3. ASSUME NEW i \in 1 .. n + 1 PROVE v[i] = Walk(v[i - 1], ls[i])
    <3>1. CASE i <= n
      <4>1. w[i] = Walk(w[i - 1], ls[i])
        BY <2>1, <3>1 DEF IsWalk
      <4>2. v[i] = w[i] /\ v[i - 1] = w[i - 1]
        BY <3>1
      <4> HIDE DEF v
      <4> QED BY <4>1, <4>2
    <3>2. CASE i = n + 1
      <4>1. v[i] = Walk(w[n], ls[i]) /\ v[i - 1] = w[n]
        BY <3>2
      <4> HIDE DEF v
      <4> QED BY <4>1
    <3>3. i <= n \/ i = n + 1
      OBVIOUS
    <3> QED BY <3>1, <3>2, <3>3
  <2>4. v = [i \in 0 .. n + 1 |-> v[i]]
    OBVIOUS
  <2> HIDE DEF v
  <2>5. \A i \in 0 .. n + 1 : v[i] = IF i = 0 THEN StartWalk(k) ELSE Walk(v[i - 1], ls[i])
    BY <2>2, <2>3
  <2>6. v = [i \in 0 .. n + 1 |-> IF i = 0 THEN StartWalk(k) ELSE Walk(v[i - 1], ls[i])]
    BY <2>4, <2>5
  <2>7. IsWalk(v, ls, k, n + 1)
    BY <2>6 DEF IsWalk
  <2> QED BY <2>7
<1> HIDE DEF T
<1>3. Nat \subseteq T
  BY <1>1, <1>2, NatInd
<1> QED BY <1>3 DEF T

LEMMA WalkedIs ==
  ASSUME NEW ls, Len(ls) \in Nat, NEW k
  PROVE  \E w : IsWalk(w, ls, k, Len(ls)) /\ Walked(ls, k) = w[Len(ls)]
<1> DEFINE w == CHOOSE w : w = [i \in 0 .. Len(ls) |->
                                  IF i = 0 THEN StartWalk(k) ELSE Walk(w[i - 1], ls[i])]
<1>1. Walked(ls, k) = w[Len(ls)]
  BY Zenon DEF Walked, StartWalk
<1>2. \E v : v = [i \in 0 .. Len(ls) |-> IF i = 0 THEN StartWalk(k) ELSE Walk(v[i - 1], ls[i])]
  <2>1. PICK v : IsWalk(v, ls, k, Len(ls))
    BY WalkExists
  <2>2. v = [i \in 0 .. Len(ls) |-> IF i = 0 THEN StartWalk(k) ELSE Walk(v[i - 1], ls[i])]
    BY <2>1, Zenon DEF IsWalk
  <2> QED BY <2>2, Zenon
<1>3. w = [i \in 0 .. Len(ls) |-> IF i = 0 THEN StartWalk(k) ELSE Walk(w[i - 1], ls[i])]
  BY <1>2, Zenon
<1> HIDE DEF w
<1> QED BY <1>1, <1>3 DEF IsWalk

---------------------------------------------------------------------------
(* Lists of ranges *)

NewLock == [owner: Owners, type: LockTypes \cup {"U"}, start: Offsets, end: Offsets]

In(e, o, b) == e.owner = o /\ e.start <= b /\ b <= e.end

\* One of the first n ranges of ls gives byte b of owner o the type t.
Says(ls, n, o, b, t) == \E m \in 1 .. n : In(ls[m], o, b) /\ ls[m].type = t

Before(e, f) == e.end < f.start /\ (e.type = f.type => e.end + 1 < f.start)

RangeList(ls) == ls \in Seq(Lock) /\ \A m \in 1 .. Len(ls) : ls[m].start <= ls[m].end

LockList(ls) == RangeList(ls) /\ OrderedLocks(ls)

\* x is a piece of l.
Part(x, l) ==
  /\ x \in Lock /\ x.owner = l.owner /\ x.type = l.type
  /\ l.start <= x.start /\ x.start <= x.end /\ x.end <= l.end

LEMMA NewLockInt == ASSUME NEW e \in NewLock PROVE e.start \in Int /\ e.end \in Int
BY DEF NewLock, Offsets

LEMMA LockInt ==
  ASSUME NEW e \in Lock
  PROVE  /\ e.start \in Int /\ e.end \in Int
         /\ 0 <= e.start /\ e.start <= OFFSET_MAX /\ 0 <= e.end /\ e.end <= OFFSET_MAX
BY DEF Lock, Offsets

LEMMA CutEnd ==
  ASSUME NEW l \in Lock, NEW e \in Int, l.start <= e, e <= l.end, NEW x,
         x = [l EXCEPT !.end = e]
  PROVE  Part(x, l) /\ x.start = l.start /\ x.end = e
<1>1. /\ x.owner = l.owner /\ x.type = l.type /\ x.start = l.start /\ x.end = e
  BY DEF Lock
<1>2. e \in Offsets /\ l.start \in Int /\ l.end \in Int
  <2>1. l.start \in Int /\ l.end \in Int /\ 0 <= l.start /\ l.end <= OFFSET_MAX
    BY LockInt
  <2>2. OFFSET_MAX \in Int
    BY OffsetAssumption
  <2>3. 0 <= e /\ e <= OFFSET_MAX
    BY <2>1, <2>2
  <2> QED BY <2>1, <2>3 DEF Offsets
<1>3. x \in Lock
  BY <1>2 DEF Lock
<1> QED BY <1>1, <1>2, <1>3 DEF Part

LEMMA CutStart ==
  ASSUME NEW l \in Lock, NEW e \in Int, l.start <= e, e <= l.end, NEW x,
         x = [l EXCEPT !.start = e]
  PROVE  Part(x, l) /\ x.start = e /\ x.end = l.end
<1>1. /\ x.owner = l.owner /\ x.type = l.type /\ x.start = e /\ x.end = l.end
  BY DEF Lock
<1>2. e \in Offsets /\ l.start \in Int /\ l.end \in Int
  <2>1. l.start \in Int /\ l.end \in Int /\ 0 <= l.start /\ l.end <= OFFSET_MAX
    BY LockInt
  <2>2. OFFSET_MAX \in Int
    BY OffsetAssumption
  <2>3. 0 <= e /\ e <= OFFSET_MAX
    BY <2>1, <2>2
  <2> QED BY <2>1, <2>3 DEF Offsets
<1>3. x \in Lock
  BY <1>2 DEF Lock
<1> QED BY <1>1, <1>2, <1>3 DEF Part

LEMMA OrderedIs ==
  ASSUME NEW ls \in Seq(Lock)
  PROVE  OrderedLocks(ls) <=>
           \A m \in 1 .. Len(ls), j \in 1 .. Len(ls) :
             m < j /\ ls[m].owner = ls[j].owner => Before(ls[m], ls[j])
BY DOMAIN ls = 1 .. Len(ls) DEF OrderedLocks, Before

LEMMA AppendRanges ==
  ASSUME NEW ls, RangeList(ls), NEW x \in Lock, x.start <= x.end
  PROVE  /\ RangeList(Append(ls, x))
         /\ Len(Append(ls, x)) = Len(ls) + 1 /\ Len(ls) \in Nat
         /\ \A m \in 1 .. Len(ls) : Append(ls, x)[m] = ls[m]
         /\ Append(ls, x)[Len(ls) + 1] = x
<1>1. /\ Append(ls, x) \in Seq(Lock)
      /\ Len(Append(ls, x)) = Len(ls) + 1 /\ Len(ls) \in Nat
      /\ \A m \in 1 .. Len(ls) : Append(ls, x)[m] = ls[m]
      /\ Append(ls, x)[Len(ls) + 1] = x
  BY DEF RangeList
<1>2. \A m \in 1 .. Len(ls) + 1 : m \in 1 .. Len(ls) \/ m = Len(ls) + 1
  BY <1>1
<1> QED BY <1>1, <1>2 DEF RangeList

LEMMA AppendSays ==
  ASSUME NEW ls, RangeList(ls), NEW x \in Lock, x.start <= x.end, NEW o, NEW b, NEW t
  PROVE  Says(Append(ls, x), Len(ls) + 1, o, b, t)
           <=> Says(ls, Len(ls), o, b, t) \/ (In(x, o, b) /\ x.type = t)
<1> DEFINE a == Append(ls, x)
<1>1. /\ Len(ls) \in Nat
      /\ \A m \in 1 .. Len(ls) : a[m] = ls[m]
      /\ a[Len(ls) + 1] = x
  BY AppendRanges
<1>2. \A m \in 1 .. Len(ls) + 1 : m \in 1 .. Len(ls) \/ m = Len(ls) + 1
  BY <1>1
<1>3. Len(ls) + 1 \in 1 .. Len(ls) + 1 /\ \A m \in 1 .. Len(ls) : m \in 1 .. Len(ls) + 1
  BY <1>1
<1> HIDE DEF a
<1>4. Says(a, Len(ls) + 1, o, b, t) => Says(ls, Len(ls), o, b, t) \/ (In(x, o, b) /\ x.type = t)
  BY <1>1, <1>2 DEF Says
<1>5. Says(ls, Len(ls), o, b, t) => Says(a, Len(ls) + 1, o, b, t)
  BY <1>1, <1>3 DEF Says
<1>6. In(x, o, b) /\ x.type = t => Says(a, Len(ls) + 1, o, b, t)
  BY <1>1, <1>3 DEF Says
<1> QED BY <1>4, <1>5, <1>6 DEF a

LEMMA AppendOrdered ==
  ASSUME NEW ls, LockList(ls), NEW x \in Lock, x.start <= x.end,
         \A m \in 1 .. Len(ls) : ls[m].owner = x.owner => Before(ls[m], x)
  PROVE  OrderedLocks(Append(ls, x))
<1> DEFINE a == Append(ls, x)
<1>1. /\ Len(ls) \in Nat /\ a \in Seq(Lock) /\ Len(a) = Len(ls) + 1
      /\ \A m \in 1 .. Len(ls) : a[m] = ls[m]
      /\ a[Len(ls) + 1] = x
  BY AppendRanges DEF LockList, RangeList
<1>2. \A m \in 1 .. Len(ls) + 1 : m \in 1 .. Len(ls) \/ m = Len(ls) + 1
  BY <1>1
<1>3. \A m \in 1 .. Len(ls), j \in 1 .. Len(ls) :
        m < j /\ ls[m].owner = ls[j].owner => Before(ls[m], ls[j])
  BY OrderedIs DEF LockList, RangeList
<1> HIDE DEF a
<1>4. ASSUME NEW m \in 1 .. Len(a), NEW j \in 1 .. Len(a), m < j, a[m].owner = a[j].owner
      PROVE  Before(a[m], a[j])
  <2>1. CASE j \in 1 .. Len(ls)
    <3>1. m \in 1 .. Len(ls) /\ a[m] = ls[m] /\ a[j] = ls[j]
      BY <1>1, <1>4, <2>1
    <3> QED BY <1>3, <1>4, <2>1, <3>1
  <2>2. CASE j = Len(ls) + 1
    <3>1. m \in 1 .. Len(ls) /\ a[m] = ls[m] /\ a[j] = x
      BY <1>1, <1>4, <2>2
    <3> QED BY <1>4, <3>1
  <2> QED BY <1>1, <1>2, <2>1, <2>2
<1>5. OrderedLocks(a)
  BY <1>1, <1>4, OrderedIs
<1> QED BY <1>5 DEF a

---------------------------------------------------------------------------
(* What the walk keeps.  q is the lock being inserted, as k has grown into  *)
(* it, and i the number of ranges of ls that were walked.                   *)

\* The type byte b of owner o is to have, as far as i ranges tell.
Wanted(ls, k, i, o, b, t) == IF In(k, o, b) THEN t = k.type ELSE Says(ls, i, o, b, t)

Kept(q, k) ==
  /\ k \in NewLock /\ k.start <= k.end
  /\ q \in NewLock /\ q.owner = k.owner /\ q.type = k.type
  /\ q.start <= k.start /\ k.end <= q.end

\* Whatever is left to walk lies behind what was put out,
Behind(out, ls, i) ==
  \A j \in i + 1 .. Len(ls) :
    \A m \in 1 .. Len(out) : out[m].owner = ls[j].owner => Before(out[m], ls[j])

\* and behind q once q has its place.
Ahead(q, pos, done, ls, i) ==
  \A j \in i + 1 .. Len(ls) :
    /\ (done \/ pos # 0) /\ ls[j].owner = q.owner => q.end < ls[j].start
    /\ pos # 0 /\ ls[j].owner = q.owner => Before(q, ls[j])

\* q belongs at pos, or at the end while pos is open.
Placed(q, out, pos) ==
  \A m \in 1 .. Len(out) :
    out[m].owner = q.owner =>
      IF pos = 0 \/ m < pos THEN Before(out[m], q) ELSE Before(q, out[m])

Walking(q, out, pos, done, ls, k, i) ==
  /\ Kept(q, k) /\ LockList(out) /\ pos \in 0 .. Len(out) /\ done \in BOOLEAN
  /\ Behind(out, ls, i) /\ Ahead(q, pos, done, ls, i)
  /\ ~done => Placed(q, out, pos)
  /\ \A o, t : \A b \in Offsets :
       Says(out, Len(out), o, b, t) \/ (~done /\ In(q, o, b) /\ q.type = t)
         <=> Wanted(ls, k, i, o, b, t)

\* The next range of the list.
NextRange(ls, i, l) == LockList(ls) /\ i \in Nat /\ i < Len(ls) /\ l = ls[i + 1]

LEMMA NextFacts ==
  ASSUME NEW ls, NEW i, NEW l, NextRange(ls, i, l)
  PROVE  /\ l \in Lock /\ l.start <= l.end
         /\ i + 1 \in i + 1 .. Len(ls)
         /\ \A j \in i + 2 .. Len(ls) : /\ j \in i + 1 .. Len(ls)
                                        /\ ls[j] \in Lock /\ ls[j].start <= ls[j].end
                                        /\ ls[j].owner = l.owner => Before(l, ls[j])
         /\ \A m \in 1 .. i : ls[m] \in Lock /\ (ls[m].owner = l.owner => Before(ls[m], l))
<1>1. ls \in Seq(Lock) /\ i \in Nat /\ Len(ls) \in Nat /\ i < Len(ls) /\ l = ls[i + 1]
  BY DEF NextRange, LockList, RangeList
<1>2. \A m \in 1 .. Len(ls) : ls[m] \in Lock /\ ls[m].start <= ls[m].end
  BY <1>1 DEF NextRange, LockList, RangeList
<1>3. \A m \in 1 .. Len(ls), j \in 1 .. Len(ls) :
        m < j /\ ls[m].owner = ls[j].owner => Before(ls[m], ls[j])
  BY <1>1, OrderedIs DEF NextRange, LockList
<1> QED BY <1>1, <1>2, <1>3

\* One more range adds what that range says.
LEMMA NextSays ==
  ASSUME NEW ls, NEW i, NEW l, NextRange(ls, i, l), NEW o, NEW b, NEW t
  PROVE  Says(ls, i + 1, o, b, t) <=> Says(ls, i, o, b, t) \/ (In(l, o, b) /\ l.type = t)
<1>1. i \in Nat /\ l = ls[i + 1]
  BY DEF NextRange
<1>2. i + 1 \in 1 .. i + 1 /\ \A m \in 1 .. i : m \in 1 .. i + 1
  BY <1>1
<1>3. \A m \in 1 .. i + 1 : m \in 1 .. i \/ m = i + 1
  BY <1>1
<1> QED BY <1>1, <1>2, <1>3 DEF Says

\* The bytes q has grown by are those of ranges walked, so the next range has none of them.
LEMMA GrownBy ==
  ASSUME NEW ls, NEW i, NEW l, NextRange(ls, i, l), NEW q, NEW k, NEW out, NEW pos,
         Walking(q, out, pos, FALSE, ls, k, i),
         NEW o, NEW b \in Offsets, In(q, o, b), In(l, o, b)
  PROVE  In(k, o, b)
<1> SUFFICES ASSUME ~In(k, o, b) PROVE FALSE
  OBVIOUS
<1>1. Wanted(ls, k, i, o, b, q.type)
  BY DEF Walking
<1>2. PICK m \in 1 .. i : In(ls[m], o, b)
  BY <1>1 DEF Wanted, Says
<1>3. ls[m] \in Lock /\ Before(ls[m], l) /\ l \in Lock
  BY <1>2, NextFacts DEF In
<1> QED BY <1>2, <1>3 DEF In, Before, Lock, Offsets

---------------------------------------------------------------------------
(* One step of the walk *)

\* A piece of the next range can be put out behind all that was.
LEMMA AppendPart ==
  ASSUME NEW ls, NEW i, NEW l, NextRange(ls, i, l), NEW out, LockList(out), Behind(out, ls, i),
         NEW x, Part(x, l)
  PROVE  /\ LockList(Append(out, x))
         /\ Len(Append(out, x)) = Len(out) + 1 /\ Len(out) \in Nat
         /\ \A m \in 1 .. Len(out) : Append(out, x)[m] = out[m]
         /\ \A m \in 1 .. Len(out) : out[m] \in Lock /\ out[m].start <= out[m].end
         /\ Append(out, x)[Len(out) + 1] = x
         /\ Behind(Append(out, x), ls, i + 1)
<1> DEFINE a == Append(out, x)
<1>1. RangeList(out) /\ x \in Lock /\ x.start <= x.end
  BY DEF LockList, Part
<1>2. /\ RangeList(a) /\ Len(a) = Len(out) + 1 /\ Len(out) \in Nat
      /\ \A m \in 1 .. Len(out) : a[m] = out[m]
      /\ a[Len(out) + 1] = x
  BY <1>1, AppendRanges
<1>3. \A m \in 1 .. Len(out) : out[m] \in Lock /\ out[m].start <= out[m].end
  BY <1>1 DEF RangeList
<1>4. l \in Lock /\ l = ls[i + 1] /\ i + 1 \in i + 1 .. Len(ls)
  BY NextFacts DEF NextRange
<1>5. \A m \in 1 .. Len(out) : out[m].owner = l.owner => Before(out[m], l)
  BY <1>4 DEF Behind
<1>6. \A m \in 1 .. Len(out) : out[m].owner = x.owner => Before(out[m], x)
  BY <1>3, <1>4, <1>5 DEF Part, Before, Lock, Offsets
<1>7. OrderedLocks(a)
  BY <1>1, <1>6, AppendOrdered
<1>8. ASSUME NEW j \in i + 2 .. Len(ls), NEW m \in 1 .. Len(out) + 1, a[m].owner = ls[j].owner
      PROVE  Before(a[m], ls[j])
  <2>1. /\ j \in i + 1 .. Len(ls) /\ ls[j] \in Lock
        /\ ls[j].owner = l.owner => Before(l, ls[j])
    BY NextFacts
  <2>2. CASE m \in 1 .. Len(out)
    <3>1. a[m] = out[m]
      BY <1>2, <2>2
    <3> HIDE DEF a
    <3> QED BY <1>8, <2>1, <2>2, <3>1 DEF Behind
  <2>3. CASE m = Len(out) + 1
    <3>1. a[m] = x
      BY <1>2, <2>3
    <3> HIDE DEF a
    <3>2. Before(l, ls[j])
      BY <1>8, <2>1, <3>1 DEF Part
    <3>3. x.end <= l.end /\ x.type = l.type /\ x \in Lock
      BY DEF Part
    <3>4. x.end \in Int /\ l.end \in Int /\ ls[j].start \in Int
      BY <1>4, <2>1, <3>3, LockInt
    <3>5. Before(x, ls[j])
      BY <3>2, <3>3, <3>4 DEF Before
    <3> QED BY <3>1, <3>5
  <2> QED BY <1>2, <2>2, <2>3
<1>9. Behind(a, ls, i + 1)
  <2>1. (i + 1) + 1 = i + 2
    BY DEF NextRange
  <2> HIDE DEF a
  <2> QED BY <1>2, <1>8, <2>1 DEF Behind
<1> QED BY <1>2, <1>3, <1>7, <1>9 DEF LockList

\* What a list says and is to say after a piece x of the next range is put out.
LEMMA AppendWanted ==
  ASSUME NEW ls, NEW i, NEW l, NextRange(ls, i, l), NEW q, NEW k, NEW out, NEW pos, NEW done,
         Walking(q, out, pos, done, ls, k, i), NEW x, Part(x, l),
         \A o : \A b \in Offsets : /\ In(l, o, b) /\ ~In(x, o, b) => In(k, o, b)
                                   /\ In(x, o, b) => ~In(k, o, b)
  PROVE  \A o, t : \A b \in Offsets :
           Says(Append(out, x), Len(out) + 1, o, b, t) \/ (~done /\ In(q, o, b) /\ q.type = t)
             <=> Wanted(ls, k, i + 1, o, b, t)
<1> SUFFICES ASSUME NEW o, NEW t, NEW b \in Offsets
             PROVE  Says(Append(out, x), Len(out) + 1, o, b, t)
                        \/ (~done /\ In(q, o, b) /\ q.type = t)
                      <=> Wanted(ls, k, i + 1, o, b, t)
  OBVIOUS
<1>1. RangeList(out) /\ x \in Lock /\ x.start <= x.end /\ x.type = l.type
  BY DEF Walking, LockList, Part
<1>2. Says(Append(out, x), Len(out) + 1, o, b, t)
        <=> Says(out, Len(out), o, b, t) \/ (In(x, o, b) /\ x.type = t)
  BY <1>1, AppendSays
<1>3. Says(ls, i + 1, o, b, t) <=> Says(ls, i, o, b, t) \/ (In(l, o, b) /\ l.type = t)
  BY NextSays
<1>4. Says(out, Len(out), o, b, t) \/ (~done /\ In(q, o, b) /\ q.type = t)
        <=> Wanted(ls, k, i, o, b, t)
  BY DEF Walking
<1>5. In(x, o, b) => In(l, o, b)
  BY NextFacts DEF Part, In, Lock, Offsets
<1>6. CASE In(k, o, b)
  <2>1. Wanted(ls, k, i + 1, o, b, t) <=> Wanted(ls, k, i, o, b, t)
    BY <1>6 DEF Wanted
  <2>2. ~In(x, o, b)
    BY <1>6
  <2> QED BY <1>2, <1>4, <2>1, <2>2
<1>7. CASE ~In(k, o, b)
  <2>1. In(l, o, b) <=> In(x, o, b)
    BY <1>5, <1>7
  <2>2. Wanted(ls, k, i + 1, o, b, t) <=> Wanted(ls, k, i, o, b, t) \/ (In(l, o, b) /\ l.type = t)
    BY <1>3, <1>7 DEF Wanted
  <2> QED BY <1>1, <1>2, <1>4, <2>1, <2>2
<1> QED BY <1>6, <1>7

\* The range is of another owner, or q has its place already.
LEMMA KeepFar ==
  ASSUME NEW ls, NEW i, NEW l, NextRange(ls, i, l), NEW q, NEW k, NEW out, NEW pos, NEW done,
         Walking(q, out, pos, done, ls, k, i), done \/ pos # 0 \/ l.owner # q.owner
  PROVE  Walking(q, Append(out, l), pos, done, ls, k, i + 1)
<1> DEFINE a == Append(out, l)
<1>1. l \in Lock /\ Part(l, l) /\ l = ls[i + 1] /\ i + 1 \in i + 1 .. Len(ls)
  BY NextFacts DEF NextRange, Part, Lock, Offsets
<1>2. Kept(q, k) /\ Ahead(q, pos, done, ls, i) /\ (~done => Placed(q, out, pos))
  BY DEF Walking
<1>3. \A o : \A b \in Offsets : In(l, o, b) => ~In(k, o, b)
  <2>1. l.owner = q.owner => q.end < l.start
    BY <1>1, <1>2 DEF Ahead
  <2> QED BY <1>1, <1>2, <2>1 DEF In, Kept, NewLock, Lock, Offsets
<1>4. /\ LockList(a) /\ Len(a) = Len(out) + 1 /\ Len(out) \in Nat
      /\ \A m \in 1 .. Len(out) : a[m] = out[m]
      /\ a[Len(out) + 1] = l
      /\ Behind(a, ls, i + 1)
  BY <1>1, AppendPart DEF Walking
<1>5. \A o, t : \A b \in Offsets :
        Says(a, Len(out) + 1, o, b, t) \/ (~done /\ In(q, o, b) /\ q.type = t)
          <=> Wanted(ls, k, i + 1, o, b, t)
  BY <1>1, <1>3, AppendWanted
<1> HIDE DEF a
<1>6. Ahead(q, pos, done, ls, i + 1)
  <2>1. \A j \in i + 2 .. Len(ls) : j \in i + 1 .. Len(ls)
    BY NextFacts
  <2>2. (i + 1) + 1 = i + 2
    BY DEF NextRange
  <2> QED BY <1>2, <1>4, <2>1, <2>2 DEF Ahead
<1>7. ASSUME ~done PROVE Placed(q, a, pos)
  <2>1. \A m \in 1 .. Len(a) : m \in 1 .. Len(out) \/ m = Len(out) + 1
    BY <1>4
  <2>2. pos \in 0 .. Len(out)
    BY DEF Walking
  <2>3. l.owner = q.owner => pos # 0 /\ Before(q, l)
    BY <1>1, <1>2, <1>7 DEF Ahead
  <2>4. ~(Len(out) + 1 < pos)
    BY <1>4, <2>2
  <2>5. \A m \in 1 .. Len(out) : a[m].owner = q.owner =>
          IF pos = 0 \/ m < pos THEN Before(a[m], q) ELSE Before(q, a[m])
    BY <1>2, <1>4, <1>7 DEF Placed
  <2>6. a[Len(out) + 1].owner = q.owner =>
          IF pos = 0 \/ Len(out) + 1 < pos THEN Before(a[Len(out) + 1], q)
          ELSE Before(q, a[Len(out) + 1])
    BY <1>4, <2>3, <2>4
  <2> QED BY <2>1, <2>5, <2>6 DEF Placed
<1>8. pos \in 0 .. Len(a) /\ done \in BOOLEAN
  BY <1>4 DEF Walking
<1>9. Walking(q, a, pos, done, ls, k, i + 1)
  BY <1>2, <1>4, <1>5, <1>6, <1>7, <1>8 DEF Walking
<1> QED BY <1>9 DEF a

\* A piece of the range lies before q; the rest of it is overwritten.
LEMMA KeepBefore ==
  ASSUME NEW ls, NEW i, NEW l, NextRange(ls, i, l), NEW q, NEW k, NEW out,
         Walking(q, out, 0, FALSE, ls, k, i), NEW x, Part(x, l), Before(x, q),
         \A o : \A b \in Offsets : In(l, o, b) /\ ~In(x, o, b) => In(k, o, b)
  PROVE  Walking(q, Append(out, x), 0, FALSE, ls, k, i + 1)
<1> DEFINE a == Append(out, x)
<1>1. l \in Lock /\ l = ls[i + 1]
  BY NextFacts DEF NextRange
<1>2. Kept(q, k) /\ Placed(q, out, 0)
  BY DEF Walking
<1>3. \A o : \A b \in Offsets : In(x, o, b) => ~In(k, o, b)
  BY <1>1, <1>2 DEF In, Kept, NewLock, Lock, Offsets, Part, Before
<1>4. /\ LockList(a) /\ Len(a) = Len(out) + 1 /\ Len(out) \in Nat
      /\ \A m \in 1 .. Len(out) : a[m] = out[m]
      /\ a[Len(out) + 1] = x
      /\ Behind(a, ls, i + 1)
  BY AppendPart DEF Walking
<1>5. \A o, t : \A b \in Offsets :
        Says(a, Len(out) + 1, o, b, t) \/ (~FALSE /\ In(q, o, b) /\ q.type = t)
          <=> Wanted(ls, k, i + 1, o, b, t)
  BY <1>3, AppendWanted
<1> HIDE DEF a
<1>6. Ahead(q, 0, FALSE, ls, i + 1)
  <2>1. (i + 1) + 1 = i + 2
    BY DEF NextRange
  <2> QED BY <1>4, <2>1 DEF Ahead
<1>7. Placed(q, a, 0)
  <2>1. \A m \in 1 .. Len(a) : m \in 1 .. Len(out) \/ m = Len(out) + 1
    BY <1>4
  <2>2. \A m \in 1 .. Len(out) : a[m].owner = q.owner => Before(a[m], q)
    BY <1>2, <1>4 DEF Placed
  <2>3. Before(a[Len(out) + 1], q)
    BY <1>4
  <2> QED BY <2>1, <2>2, <2>3 DEF Placed
<1>8. 0 \in 0 .. Len(a)
  BY <1>4
<1>9. Walking(q, a, 0, FALSE, ls, k, i + 1)
  BY <1>2, <1>4, <1>5, <1>6, <1>7, <1>8 DEF Walking
<1> QED BY <1>9 DEF a

\* A piece of the range that has its end lies behind q: the place of q is found.
LEMMA StopAt ==
  ASSUME NEW ls, NEW i, NEW l, NextRange(ls, i, l), NEW q, NEW k, NEW out,
         Walking(q, out, 0, FALSE, ls, k, i), l.owner = q.owner,
         NEW x, Part(x, l), x.end = l.end, Before(q, x),
         \A o : \A b \in Offsets : In(l, o, b) /\ ~In(x, o, b) => In(k, o, b)
  PROVE  Walking(q, Append(out, x), Len(out) + 1, FALSE, ls, k, i + 1)
<1> DEFINE a == Append(out, x)
<1>1. l \in Lock /\ l = ls[i + 1] /\ x \in Lock
  BY NextFacts DEF NextRange, Part
<1>2. Kept(q, k) /\ Placed(q, out, 0) /\ q \in NewLock
  BY DEF Walking, Kept
<1>3. \A o : \A b \in Offsets : In(x, o, b) => ~In(k, o, b)
  BY <1>1, <1>2 DEF In, Kept, NewLock, Lock, Offsets, Before
<1>4. /\ LockList(a) /\ Len(a) = Len(out) + 1 /\ Len(out) \in Nat
      /\ \A m \in 1 .. Len(out) : a[m] = out[m]
      /\ a[Len(out) + 1] = x
      /\ Behind(a, ls, i + 1)
  BY AppendPart DEF Walking
<1>5. \A o, t : \A b \in Offsets :
        Says(a, Len(out) + 1, o, b, t) \/ (~FALSE /\ In(q, o, b) /\ q.type = t)
          <=> Wanted(ls, k, i + 1, o, b, t)
  BY <1>3, AppendWanted
<1> DEFINE p == Len(out) + 1
<1>p. p \in Nat /\ p # 0 /\ p = Len(a) /\ p = Len(out) + 1
  BY <1>4
<1> HIDE DEF a, p
<1>6. Ahead(q, p, FALSE, ls, i + 1)
  <2>1. (i + 1) + 1 = i + 2
    BY DEF NextRange
  <2>2. ASSUME NEW j \in i + 2 .. Len(ls), ls[j].owner = q.owner
        PROVE  Before(q, ls[j]) /\ q.end < ls[j].start
    <3>1. ls[j] \in Lock /\ Before(l, ls[j])
      BY <2>2, NextFacts
    <3> QED BY <1>1, <1>2, <3>1, SMTT(30) DEF Before, Part, NewLock, Lock, Offsets
  <2> QED BY <1>4, <2>1, <2>2, <1>p DEF Ahead
<1>7. Placed(q, a, p)
  <2>1. \A m \in 1 .. Len(a) : (m \in 1 .. Len(out) /\ m < p) \/ m = p
    BY <1>4, <1>p
  <2>2. \A m \in 1 .. Len(out) : a[m].owner = q.owner => Before(a[m], q)
    BY <1>2, <1>4 DEF Placed
  <2>3. Before(q, a[p]) /\ ~(p = 0 \/ p < p)
    BY <1>4, <1>p
  <2> QED BY <2>1, <2>2, <2>3 DEF Placed
<1>8. p \in 0 .. Len(a)
  BY <1>p
<1>9. Walking(q, a, p, FALSE, ls, k, i + 1)
  BY <1>2, <1>4, <1>5, <1>6, <1>7, <1>8 DEF Walking
<1> QED BY <1>9 DEF a, p

\* The range is of q's type and has q in it: nothing is left to insert.
LEMMA DoneAt ==
  ASSUME NEW ls, NEW i, NEW l, NextRange(ls, i, l), NEW q, NEW k, NEW out,
         Walking(q, out, 0, FALSE, ls, k, i), l.owner = q.owner, l.type = q.type,
         l.start <= q.start, q.end <= l.end
  PROVE  Walking(q, Append(out, l), 0, TRUE, ls, k, i + 1)
<1> DEFINE a == Append(out, l)
<1>1. l \in Lock /\ l = ls[i + 1] /\ Part(l, l)
  BY NextFacts DEF NextRange, Part, Lock, Offsets
<1>2. Kept(q, k) /\ q \in NewLock /\ k \in NewLock /\ LockList(out) /\ RangeList(out)
  BY DEF Walking, Kept, LockList
<1>4. /\ LockList(a) /\ Len(a) = Len(out) + 1 /\ Len(out) \in Nat
      /\ Behind(a, ls, i + 1)
  BY <1>1, AppendPart DEF Walking
<1>5. ASSUME NEW o, NEW t, NEW b \in Offsets
      PROVE  Says(a, Len(out) + 1, o, b, t) <=> Wanted(ls, k, i + 1, o, b, t)
  <2>1. Says(a, Len(out) + 1, o, b, t)
          <=> Says(out, Len(out), o, b, t) \/ (In(l, o, b) /\ l.type = t)
    BY <1>1, <1>2, NextFacts, AppendSays
  <2>2. Says(ls, i + 1, o, b, t) <=> Says(ls, i, o, b, t) \/ (In(l, o, b) /\ l.type = t)
    BY NextSays
  <2>3. Says(out, Len(out), o, b, t) \/ (In(q, o, b) /\ q.type = t)
          <=> Wanted(ls, k, i, o, b, t)
    BY DEF Walking
  <2>4. (In(k, o, b) => In(q, o, b)) /\ (In(q, o, b) => In(l, o, b)) /\ k.type = q.type
    BY <1>1, <1>2 DEF Kept, In, NewLock, Lock, Offsets
  <2>5. CASE In(k, o, b)
    BY <2>1, <2>3, <2>4, <2>5 DEF Wanted
  <2>6. CASE ~In(k, o, b)
    BY <2>1, <2>2, <2>3, <2>4, <2>6 DEF Wanted
  <2> QED BY <2>5, <2>6
<1> HIDE DEF a
<1>6. Ahead(q, 0, TRUE, ls, i + 1)
  <2>1. (i + 1) + 1 = i + 2
    BY DEF NextRange
  <2>2. ASSUME NEW j \in i + 2 .. Len(ls), ls[j].owner = q.owner
        PROVE  q.end < ls[j].start
    <3>1. ls[j] \in Lock /\ Before(l, ls[j])
      BY <2>2, NextFacts
    <3> QED BY <1>1, <1>2, <3>1 DEF Before, NewLock, Lock, Offsets
  <2> QED BY <1>4, <2>1, <2>2 DEF Ahead
<1>8. 0 \in 0 .. Len(a)
  BY <1>4
<1>9. Walking(q, a, 0, TRUE, ls, k, i + 1)
  BY <1>2, <1>4, <1>5, <1>6, <1>8 DEF Walking
<1> QED BY <1>9 DEF a

\* The range is of q's type and touches it: q grows by it.
LEMMA MergeAt ==
  ASSUME NEW ls, NEW i, NEW l, NextRange(ls, i, l), NEW q, NEW k, NEW out,
         Walking(q, out, 0, FALSE, ls, k, i), l.owner = q.owner, l.type = q.type,
         q.start - 1 <= l.end, l.start - 1 <= q.end,
         NEW r, r = [q EXCEPT !.start = Min2(@, l.start), !.end = Max2(@, l.end)]
  PROVE  Walking(r, out, 0, FALSE, ls, k, i + 1)
<1>1. l \in Lock /\ l = ls[i + 1] /\ l.start <= l.end /\ i + 1 \in i + 1 .. Len(ls)
  BY NextFacts DEF NextRange
<1>2. Kept(q, k) /\ q \in NewLock /\ k \in NewLock /\ LockList(out) /\ RangeList(out)
  BY DEF Walking, Kept, LockList
<1>3. /\ r \in NewLock /\ r.owner = q.owner /\ r.type = q.type
      /\ r.start = Min2(q.start, l.start) /\ r.end = Max2(q.end, l.end)
  BY <1>1, <1>2 DEF NewLock, Lock, Min2, Max2
<1>4. r.start <= q.start /\ q.end <= r.end /\ (r.start = q.start \/ r.start = l.start)
  BY <1>1, <1>2, <1>3, SMTT(30) DEF Min2, Max2, NewLock, Lock, Offsets
<1>5. Kept(r, k)
  <2>1. /\ r.start \in Int /\ r.end \in Int /\ q.start \in Int /\ q.end \in Int
        /\ k.start \in Int /\ k.end \in Int
    BY <1>2, <1>3, NewLockInt
  <2>2. r.start <= k.start /\ k.end <= r.end
    BY <1>2, <1>4, <2>1 DEF Kept
  <2> QED BY <1>2, <1>3, <2>2 DEF Kept
<1>6. ASSUME NEW o, NEW b \in Offsets
      PROVE  In(r, o, b) <=> In(q, o, b) \/ In(l, o, b)
  BY <1>1, <1>2, <1>3, SMTT(30) DEF Kept, In, NewLock, Lock, Offsets, Min2, Max2
<1>7. ASSUME NEW o, NEW t, NEW b \in Offsets
      PROVE  Says(out, Len(out), o, b, t) \/ (In(r, o, b) /\ r.type = t)
               <=> Wanted(ls, k, i + 1, o, b, t)
  <2>1. In(r, o, b) <=> In(q, o, b) \/ In(l, o, b)
    BY <1>6
  <2>2. Says(ls, i + 1, o, b, t) <=> Says(ls, i, o, b, t) \/ (In(l, o, b) /\ l.type = t)
    BY NextSays
  <2>3. Says(out, Len(out), o, b, t) \/ (In(q, o, b) /\ q.type = t)
          <=> Wanted(ls, k, i, o, b, t)
    BY DEF Walking
  <2>4. (In(k, o, b) => In(q, o, b)) /\ k.type = q.type /\ r.type = q.type
    BY <1>2, <1>3 DEF Kept, In, NewLock, Offsets
  <2>5. CASE In(k, o, b)
    BY <2>1, <2>3, <2>4, <2>5 DEF Wanted
  <2>6. CASE ~In(k, o, b)
    BY <2>1, <2>2, <2>3, <2>4, <2>6 DEF Wanted
  <2> QED BY <2>5, <2>6
<1>8. Behind(out, ls, i + 1) /\ Ahead(r, 0, FALSE, ls, i + 1)
  <2>1. (i + 1) + 1 = i + 2
    BY DEF NextRange
  <2>2. \A j \in i + 2 .. Len(ls) : j \in i + 1 .. Len(ls)
    BY NextFacts
  <2> QED BY <2>1, <2>2 DEF Behind, Ahead, Walking
<1>9. Placed(r, out, 0)
  <2>1. \A m \in 1 .. Len(out) : out[m] \in Lock
    BY <1>2 DEF RangeList
  <2>2. \A m \in 1 .. Len(out) : out[m].owner = l.owner => Before(out[m], l)
    BY <1>1 DEF Walking, Behind
  <2>3. \A m \in 1 .. Len(out) : out[m].owner = q.owner => Before(out[m], q)
    BY DEF Walking, Placed
  <2>4. \A m \in 1 .. Len(out) : out[m].owner = r.owner => Before(out[m], r)
    BY <1>3, <1>4, <2>2, <2>3 DEF Before
  <2> QED BY <2>4 DEF Placed
<1> QED BY <1>2, <1>5, <1>7, <1>8, <1>9 DEF Walking

\* The range is of another type and all of it is overwritten.
LEMMA DropAt ==
  ASSUME NEW ls, NEW i, NEW l, NextRange(ls, i, l), NEW q, NEW k, NEW out,
         Walking(q, out, 0, FALSE, ls, k, i),
         \A o : \A b \in Offsets : In(l, o, b) => In(k, o, b)
  PROVE  Walking(q, out, 0, FALSE, ls, k, i + 1)
<1>1. ASSUME NEW o, NEW t, NEW b \in Offsets
      PROVE  Wanted(ls, k, i + 1, o, b, t) <=> Wanted(ls, k, i, o, b, t)
  <2>1. Says(ls, i + 1, o, b, t) <=> Says(ls, i, o, b, t) \/ (In(l, o, b) /\ l.type = t)
    BY NextSays
  <2> QED BY <2>1 DEF Wanted
<1>2. Behind(out, ls, i + 1) /\ Ahead(q, 0, FALSE, ls, i + 1)
  <2>1. (i + 1) + 1 = i + 2
    BY DEF NextRange
  <2>2. \A j \in i + 2 .. Len(ls) : j \in i + 1 .. Len(ls)
    BY NextFacts
  <2> QED BY <2>1, <2>2 DEF Behind, Ahead, Walking
<1> QED BY <1>1, <1>2 DEF Walking

\* The range is of another type and reaches beyond q on both sides: two pieces x and y remain.
LEMMA SplitAt ==
  ASSUME NEW ls, NEW i, NEW l, NextRange(ls, i, l), NEW q, NEW k, NEW out,
         Walking(q, out, 0, FALSE, ls, k, i), l.owner = q.owner, l.type # q.type,
         l.start < q.start, q.end < l.end,
         NEW x, Part(x, l), x.start = l.start, x.end = q.start - 1,
         NEW y, Part(y, l), y.start = q.end + 1, y.end = l.end
  PROVE  Walking(q, Append(Append(out, x), y), Len(out) + 2, FALSE, ls, k, i + 1)
<1> DEFINE a == Append(out, x)
           c == Append(a, y)
           p == Len(out) + 2
<1>1. l \in Lock /\ l = ls[i + 1] /\ i + 1 \in i + 1 .. Len(ls)
  BY NextFacts DEF NextRange
<1>2. Kept(q, k) /\ Placed(q, out, 0) /\ q \in NewLock /\ k \in NewLock /\ RangeList(out)
  BY DEF Walking, Kept, LockList
<1>3. /\ x.owner = l.owner /\ x.type = l.type /\ x.start = l.start /\ x.end = q.start - 1
      /\ y.owner = l.owner /\ y.type = l.type /\ y.start = q.end + 1 /\ y.end = l.end
  BY DEF Part
<1>4. x \in Lock /\ y \in Lock
  BY DEF Part
<1>5. Before(x, q) /\ Before(q, y) /\ Before(x, y)
  BY <1>1, <1>2, <1>3 DEF Before, Lock, NewLock, Offsets, Kept
<1>6. x.start <= x.end /\ y.start <= y.end
  BY <1>5 DEF Part
<1>7. /\ LockList(a) /\ Len(a) = Len(out) + 1 /\ Len(out) \in Nat
      /\ \A m \in 1 .. Len(out) : a[m] = out[m] /\ out[m] \in Lock
      /\ a[Len(out) + 1] = x
      /\ Behind(a, ls, i + 1)
  BY <1>5, AppendPart DEF Walking
<1>8. RangeList(a)
  BY <1>7 DEF LockList
<1>9. \A m \in 1 .. Len(out) : out[m].owner = l.owner => Before(out[m], l)
  BY <1>1 DEF Walking, Behind
<1>10. ASSUME NEW m \in 1 .. Len(out), out[m].owner = y.owner PROVE Before(out[m], y)
  <2>1. out[m] \in Lock /\ Before(out[m], l) /\ y.type = l.type /\ l.start <= y.start
    BY <1>3, <1>7, <1>9, <1>10 DEF Part
  <2> QED BY <1>1, <1>4, <2>1, SMTT(30) DEF Before, Lock, Offsets
<1>11. ASSUME NEW o, NEW t, NEW b \in Offsets
       PROVE  Says(c, Len(a) + 1, o, b, t) \/ (~FALSE /\ In(q, o, b) /\ q.type = t)
                <=> Wanted(ls, k, i + 1, o, b, t)
  <2>1. Says(a, Len(out) + 1, o, b, t)
          <=> Says(out, Len(out), o, b, t) \/ (In(x, o, b) /\ x.type = t)
    BY <1>2, <1>4, <1>6, AppendSays
  <2>2. Says(c, Len(a) + 1, o, b, t)
          <=> Says(a, Len(a), o, b, t) \/ (In(y, o, b) /\ y.type = t)
    <3> HIDE DEF a
    <3> QED BY <1>4, <1>6, <1>8, AppendSays
  <2>3. Says(ls, i + 1, o, b, t) <=> Says(ls, i, o, b, t) \/ (In(l, o, b) /\ l.type = t)
    BY NextSays
  <2>4. Says(out, Len(out), o, b, t) \/ (In(q, o, b) /\ q.type = t)
          <=> Wanted(ls, k, i, o, b, t)
    BY DEF Walking
  <2>5. In(q, o, b) /\ In(l, o, b) => In(k, o, b)
    BY GrownBy
  <2>6. In(k, o, b) => In(q, o, b) /\ ~In(x, o, b) /\ ~In(y, o, b)
    BY <1>2, <1>3 DEF Kept, In, NewLock, Offsets
  <2>7. In(l, o, b) => In(x, o, b) \/ In(y, o, b) \/ In(q, o, b)
    BY <1>1, <1>2, <1>3 DEF In, NewLock, Lock, Offsets
  <2>8. In(x, o, b) \/ In(y, o, b) => In(l, o, b)
    BY <1>1, <1>2, <1>3, <1>6 DEF In, NewLock, Lock, Offsets, Kept
  <2>9. Len(a) = Len(out) + 1 /\ x.type = l.type /\ y.type = l.type
    BY <1>3, <1>7
  <2> HIDE DEF a, c
  <2>10. CASE In(k, o, b)
    <3>1. Wanted(ls, k, i + 1, o, b, t) <=> Wanted(ls, k, i, o, b, t)
      BY <2>10 DEF Wanted
    <3> QED BY <2>1, <2>2, <2>4, <2>6, <2>9, <2>10, <3>1
  <2>11. CASE ~In(k, o, b)
    <3>1. Wanted(ls, k, i + 1, o, b, t)
            <=> Wanted(ls, k, i, o, b, t) \/ (In(l, o, b) /\ l.type = t)
      BY <2>3, <2>11 DEF Wanted
    <3>2. In(l, o, b) <=> In(x, o, b) \/ In(y, o, b)
      BY <2>5, <2>7, <2>8, <2>11
    <3> QED BY <2>1, <2>2, <2>4, <2>9, <3>1, <3>2
  <2> QED BY <2>10, <2>11
<1> HIDE DEF a
<1>12. /\ RangeList(c) /\ Len(c) = Len(a) + 1
       /\ \A m \in 1 .. Len(a) : c[m] = a[m]
       /\ c[Len(a) + 1] = y
  BY <1>4, <1>6, <1>8, AppendRanges
<1>13. \A m \in 1 .. Len(a) : m \in 1 .. Len(out) \/ m = Len(out) + 1
  BY <1>7
<1>14. \A m \in 1 .. Len(a) : a[m].owner = y.owner => Before(a[m], y)
  BY <1>5, <1>7, <1>10, <1>13
<1>15. LockList(c)
  BY <1>4, <1>6, <1>7, <1>12, <1>14, AppendOrdered DEF LockList
<1> HIDE DEF c, p
<1>p. p \in Nat /\ p # 0 /\ p = Len(c) /\ p = Len(out) + 2 /\ p = Len(a) + 1
  BY <1>7, <1>12 DEF p
<1>16. \A m \in 1 .. Len(c) : m \in 1 .. Len(a) \/ m = Len(a) + 1
  BY <1>7, <1>12
<1>17. ASSUME NEW j \in i + 2 .. Len(ls)
       PROVE  /\ ls[j].owner = l.owner => Before(y, ls[j]) /\ Before(q, ls[j]) /\ q.end < ls[j].start
  <2>1. ls[j] \in Lock /\ (ls[j].owner = l.owner => Before(l, ls[j]))
    BY NextFacts
  <2>2. /\ l.end \in Int /\ q.end \in Int /\ ls[j].start \in Int
    BY <1>1, <1>2, <2>1, LockInt, NewLockInt
  <2> QED BY <1>3, <2>1, <2>2 DEF Before
<1>18. (i + 1) + 1 = i + 2
  BY DEF NextRange
<1>19. Behind(c, ls, i + 1)
  <2>1. ASSUME NEW j \in i + 2 .. Len(ls), NEW m \in 1 .. Len(c), c[m].owner = ls[j].owner
        PROVE  Before(c[m], ls[j])
    <3>1. CASE m \in 1 .. Len(a)
      BY <1>7, <1>12, <1>18, <2>1, <3>1 DEF Behind
    <3>2. CASE m = Len(a) + 1
      BY <1>3, <1>12, <1>17, <2>1, <3>2
    <3> QED BY <1>16, <3>1, <3>2
  <2> QED BY <1>18, <2>1 DEF Behind
<1>20. Ahead(q, p, FALSE, ls, i + 1)
  BY <1>17, <1>18 DEF Ahead
<1>21. Placed(q, c, p)
  <2>1. \A m \in 1 .. Len(out) : a[m].owner = q.owner => Before(a[m], q)
    BY <1>2, <1>7 DEF Placed
  <2>2. \A m \in 1 .. Len(a) : a[m].owner = q.owner => Before(a[m], q)
    BY <1>5, <1>7, <1>13, <2>1
  <2>3. \A m \in 1 .. Len(a) : m < p
    BY <1>7, <1>p
  <2>4. Before(q, c[p]) /\ ~(p = 0 \/ p < p)
    BY <1>5, <1>12, <1>p
  <2> QED BY <1>12, <1>16, <1>p, <2>2, <2>3, <2>4 DEF Placed
<1>22. p \in 0 .. Len(c)
  BY <1>p
<1>23. Walking(q, c, p, FALSE, ls, k, i + 1)
  BY <1>2, <1>11, <1>12, <1>15, <1>19, <1>20, <1>21, <1>22 DEF Walking
<1> QED BY <1>23 DEF a, c, p

---------------------------------------------------------------------------
(* The whole walk *)

WalkStates == [lock: NewLock, out: Seq(Lock), pos: Nat, done: BOOLEAN]

WalkInv(s, ls, k, i) ==
  s \in WalkStates /\ Walking(s.lock, s.out, s.pos, s.done, ls, k, i)

LEMMA KeepState ==
  ASSUME NEW s \in WalkStates, NEW x \in Lock
  PROVE  /\ Keep(s, x) \in WalkStates
         /\ Keep(s, x).lock = s.lock /\ Keep(s, x).out = Append(s.out, x)
         /\ Keep(s, x).pos = s.pos /\ Keep(s, x).done = s.done
BY SMTT(30) DEF Keep, WalkStates

LEMMA StopState ==
  ASSUME NEW s \in WalkStates, NEW x \in Lock
  PROVE  /\ Stop(s, <<x>>) \in WalkStates
         /\ Stop(s, <<x>>).lock = s.lock /\ Stop(s, <<x>>).out = Append(s.out, x)
         /\ Stop(s, <<x>>).pos = Len(s.out) + 1 /\ Stop(s, <<x>>).done = s.done
<1>1. s.out \in Seq(Lock)
  BY DEF WalkStates
<1>2. s.out \o <<x>> = Append(s.out, x) /\ Append(s.out, x) \in Seq(Lock) /\ Len(s.out) + 1 \in Nat
  BY <1>1
<1>3. Stop(s, <<x>>) = [s EXCEPT !.pos = Len(s.out) + 1, !.out = Append(s.out, x)]
  BY <1>2 DEF Stop, WalkStates
<1> QED BY <1>2, <1>3 DEF WalkStates

LEMMA KeepInv ==
  ASSUME NEW s \in WalkStates, NEW x \in Lock, NEW ls, NEW k, NEW i,
         Walking(s.lock, Append(s.out, x), s.pos, s.done, ls, k, i)
  PROVE  WalkInv(Keep(s, x), ls, k, i)
BY KeepState DEF WalkInv

LEMMA StopInv ==
  ASSUME NEW s \in WalkStates, NEW x \in Lock, NEW ls, NEW k, NEW i,
         Walking(s.lock, Append(s.out, x), Len(s.out) + 1, s.done, ls, k, i)
  PROVE  WalkInv(Stop(s, <<x>>), ls, k, i)
BY StopState DEF WalkInv

LEMMA SameTypeStep ==
  ASSUME NEW ls, NEW i, NEW l, NextRange(ls, i, l), NEW k, NEW s, WalkInv(s, ls, k, i),
         ~s.done, s.pos = 0, l.owner = s.lock.owner, l.type = s.lock.type
  PROVE  WalkInv(SameType(s, l), ls, k, i + 1)
<1> DEFINE q == s.lock
<1>1. l \in Lock /\ l.start <= l.end /\ Part(l, l)
  BY NextFacts DEF Part, Lock, Offsets
<1>2. s \in WalkStates /\ Walking(q, s.out, 0, FALSE, ls, k, i) /\ s.done = FALSE
  BY DEF WalkInv, WalkStates
<1>3. q \in NewLock /\ q.start \in Int /\ q.end \in Int /\ l.start \in Int /\ l.end \in Int
  BY <1>1, <1>2, LockInt, NewLockInt DEF WalkStates
<1>4. CASE l.end < q.start - 1
  <2>1. Before(l, q)
    BY <1>3, <1>4 DEF Before
  <2>2. Walking(q, Append(s.out, l), 0, FALSE, ls, k, i + 1)
    BY <1>1, <1>2, <2>1, KeepBefore
  <2>3. SameType(s, l) = Keep(s, l)
    BY <1>4 DEF SameType
  <2> QED BY <1>1, <1>2, <2>2, <2>3, KeepInv
<1>5. CASE ~(l.end < q.start - 1) /\ q.end < l.start - 1
  <2>1. Before(q, l)
    BY <1>3, <1>5 DEF Before
  <2>2. Walking(q, Append(s.out, l), Len(s.out) + 1, FALSE, ls, k, i + 1)
    BY <1>1, <1>2, <2>1, StopAt
  <2>3. SameType(s, l) = Stop(s, <<l>>)
    BY <1>5 DEF SameType
  <2> QED BY <1>1, <1>2, <2>2, <2>3, StopInv
<1>6. CASE /\ ~(l.end < q.start - 1) /\ ~(q.end < l.start - 1)
           /\ l.start <= q.start /\ q.end <= l.end
  <2>1. Walking(q, Append(s.out, l), 0, TRUE, ls, k, i + 1)
    BY <1>2, <1>6, DoneAt
  <2>2. SameType(s, l) = [Keep(s, l) EXCEPT !.done = TRUE]
    BY <1>6 DEF SameType
  <2>3. /\ Keep(s, l) \in WalkStates /\ Keep(s, l).lock = q /\ Keep(s, l).out = Append(s.out, l)
        /\ Keep(s, l).pos = 0
    BY <1>1, <1>2, KeepState
  <2>4. /\ SameType(s, l) \in WalkStates /\ SameType(s, l).lock = q
        /\ SameType(s, l).out = Append(s.out, l)
        /\ SameType(s, l).pos = 0 /\ SameType(s, l).done = TRUE
    BY <2>2, <2>3 DEF WalkStates
  <2> QED BY <2>1, <2>4 DEF WalkInv
<1>7. CASE /\ ~(l.end < q.start - 1) /\ ~(q.end < l.start - 1)
           /\ ~(l.start <= q.start /\ q.end <= l.end)
  <2> DEFINE r == [q EXCEPT !.start = Min2(@, l.start), !.end = Max2(@, l.end)]
  <2>1. q.start - 1 <= l.end /\ l.start - 1 <= q.end
    BY <1>3, <1>7
  <2>2. Walking(r, s.out, 0, FALSE, ls, k, i + 1)
    BY <1>2, <2>1, MergeAt
  <2>3. SameType(s, l) = [s EXCEPT !.lock.start = Min2(@, l.start), !.lock.end = Max2(@, l.end)]
    BY <1>7 DEF SameType
  <2>4. SameType(s, l) = [s EXCEPT !.lock = r]
    BY <1>2, <2>3 DEF WalkStates, NewLock
  <2>5. r \in NewLock
    BY <2>2 DEF Walking, Kept
  <2> HIDE DEF r
  <2>6. /\ SameType(s, l) \in WalkStates /\ SameType(s, l).lock = r /\ SameType(s, l).out = s.out
        /\ SameType(s, l).pos = 0 /\ SameType(s, l).done = FALSE
    BY <1>2, <2>4, <2>5 DEF WalkStates
  <2> QED BY <2>2, <2>6 DEF WalkInv
<1> QED BY <1>4, <1>5, <1>6, <1>7

LEMMA OtherTypeStep ==
  ASSUME NEW ls, NEW i, NEW l, NextRange(ls, i, l), NEW k, NEW s, WalkInv(s, ls, k, i),
         ~s.done, s.pos = 0, l.owner = s.lock.owner, l.type # s.lock.type
  PROVE  WalkInv(OtherType(s, l), ls, k, i + 1)
<1> DEFINE q == s.lock
<1>1. l \in Lock /\ l.start <= l.end /\ Part(l, l)
  BY NextFacts DEF Part, Lock, Offsets
<1>2. s \in WalkStates /\ Walking(q, s.out, 0, FALSE, ls, k, i) /\ s.done = FALSE
  BY DEF WalkInv, WalkStates
<1>3. q \in NewLock /\ q.start \in Int /\ q.end \in Int /\ l.start \in Int /\ l.end \in Int
  BY <1>1, <1>2, LockInt, NewLockInt DEF WalkStates
<1>4. q.start <= q.end /\ q.owner = l.owner /\ Offsets \subseteq Int
  <2>1. Kept(q, k) /\ k.start \in Int /\ k.end \in Int
    BY <1>2, NewLockInt DEF Walking, Kept
  <2> QED BY <1>3, <2>1 DEF Kept, Offsets
<1>5. \A o : \A b \in Offsets : In(l, o, b) /\ In(q, o, b) => In(k, o, b)
  BY <1>2, GrownBy
<1>6. CASE l.end < q.start
  <2>1. Before(l, q)
    BY <1>6 DEF Before
  <2>2. Walking(q, Append(s.out, l), 0, FALSE, ls, k, i + 1)
    BY <1>1, <1>2, <2>1, KeepBefore
  <2>3. OtherType(s, l) = Keep(s, l)
    BY <1>6 DEF OtherType
  <2> QED BY <1>1, <1>2, <2>2, <2>3, KeepInv
<1>7. CASE ~(l.end < q.start) /\ q.end < l.start
  <2>1. Before(q, l)
    BY <1>7 DEF Before
  <2>2. Walking(q, Append(s.out, l), Len(s.out) + 1, FALSE, ls, k, i + 1)
    BY <1>1, <1>2, <2>1, StopAt
  <2>3. OtherType(s, l) = Stop(s, <<l>>)
    BY <1>7 DEF OtherType
  <2> QED BY <1>1, <1>2, <2>2, <2>3, StopInv
<1>8. CASE /\ ~(l.end < q.start) /\ ~(q.end < l.start)
           /\ q.start <= l.start /\ l.end <= q.end
  <2>1. \A o : \A b \in Offsets : In(l, o, b) => In(q, o, b)
    BY <1>3, <1>4, <1>8 DEF In
  <2>2. Walking(q, s.out, 0, FALSE, ls, k, i + 1)
    BY <1>2, <1>5, <2>1, DropAt
  <2>3. OtherType(s, l) = s
    BY <1>8 DEF OtherType
  <2> QED BY <1>2, <2>2, <2>3 DEF WalkInv
<1>9. CASE /\ ~(l.end < q.start) /\ ~(q.end < l.start)
           /\ ~(q.start <= l.start /\ l.end <= q.end) /\ l.end <= q.end
  <2> DEFINE x == [l EXCEPT !.end = q.start - 1]
  <2>1. Part(x, l) /\ x.start = l.start /\ x.end = q.start - 1
    <3>1. q.start - 1 \in Int /\ l.start <= q.start - 1 /\ q.start - 1 <= l.end
      BY <1>3, <1>9
    <3> QED BY <1>1, <3>1, CutEnd
  <2>2. OtherType(s, l) = Keep(s, x)
    BY <1>9 DEF OtherType
  <2> HIDE DEF x
  <2>3. Before(x, q)
    BY <1>3, <2>1 DEF Before, Part
  <2>4. ASSUME NEW o, NEW b \in Offsets, In(l, o, b), ~In(x, o, b) PROVE In(q, o, b)
    <3>1. b \in Int /\ x.owner = l.owner
      BY <1>4, <2>1 DEF Part
    <3>2. l.owner = o /\ l.start <= b /\ b <= l.end
      BY <2>4 DEF In
    <3>3. ~(b <= q.start - 1)
      BY <2>1, <2>4, <3>1, <3>2 DEF In
    <3> QED BY <1>3, <1>4, <1>9, <3>1, <3>2, <3>3 DEF In
  <2>5. Walking(q, Append(s.out, x), 0, FALSE, ls, k, i + 1)
    BY <1>2, <1>5, <2>1, <2>3, <2>4, KeepBefore
  <2>6. x \in Lock
    BY <2>1 DEF Part
  <2> QED BY <1>2, <2>2, <2>5, <2>6, KeepInv
<1>10. CASE /\ ~(l.end < q.start) /\ ~(q.end < l.start)
            /\ ~(l.end <= q.end) /\ q.start <= l.start
  <2> DEFINE x == [l EXCEPT !.start = q.end + 1]
  <2>1. Part(x, l) /\ x.start = q.end + 1 /\ x.end = l.end
    <3>1. q.end + 1 \in Int /\ l.start <= q.end + 1 /\ q.end + 1 <= l.end
      BY <1>3, <1>10
    <3> QED BY <1>1, <3>1, CutStart
  <2>2. OtherType(s, l) = Stop(s, <<x>>)
    BY <1>10 DEF OtherType
  <2> HIDE DEF x
  <2>3. Before(q, x)
    BY <1>3, <2>1 DEF Before, Part
  <2>4. ASSUME NEW o, NEW b \in Offsets, In(l, o, b), ~In(x, o, b) PROVE In(q, o, b)
    <3>1. b \in Int /\ x.owner = l.owner
      BY <1>4, <2>1 DEF Part
    <3>2. l.owner = o /\ l.start <= b /\ b <= l.end
      BY <2>4 DEF In
    <3>3. ~(q.end + 1 <= b)
      BY <2>1, <2>4, <3>1, <3>2 DEF In
    <3> QED BY <1>3, <1>4, <1>10, <3>1, <3>2, <3>3 DEF In
  <2>5. Walking(q, Append(s.out, x), Len(s.out) + 1, FALSE, ls, k, i + 1)
    BY <1>2, <1>5, <2>1, <2>3, <2>4, StopAt
  <2>6. x \in Lock
    BY <2>1 DEF Part
  <2> QED BY <1>2, <2>2, <2>5, <2>6, StopInv
<1>11. CASE /\ ~(l.end < q.start) /\ ~(q.end < l.start)
            /\ ~(l.end <= q.end) /\ ~(q.start <= l.start)
  <2> DEFINE x == [l EXCEPT !.end = q.start - 1]
             y == [l EXCEPT !.start = q.end + 1]
  <2>1. Part(x, l) /\ x.start = l.start /\ x.end = q.start - 1
    <3>1. q.start - 1 \in Int /\ l.start <= q.start - 1 /\ q.start - 1 <= l.end
      BY <1>3, <1>11
    <3> QED BY <1>1, <3>1, CutEnd
  <2>2. Part(y, l) /\ y.start = q.end + 1 /\ y.end = l.end
    <3>1. q.end + 1 \in Int /\ l.start <= q.end + 1 /\ q.end + 1 <= l.end
      BY <1>3, <1>4, <1>11
    <3> QED BY <1>1, <3>1, CutStart
  <2>3. OtherType(s, l) = Stop(Keep(s, x), <<y>>)
    BY <1>11 DEF OtherType
  <2> HIDE DEF x, y
  <2>4. l.start < q.start /\ q.end < l.end
    BY <1>3, <1>11
  <2>5. Walking(q, Append(Append(s.out, x), y), Len(s.out) + 2, FALSE, ls, k, i + 1)
    BY <1>2, <1>4, <2>1, <2>2, <2>4, SplitAt
  <2>6. x \in Lock /\ y \in Lock
    BY <2>1, <2>2 DEF Part
  <2>7. /\ Keep(s, x) \in WalkStates /\ Keep(s, x).lock = q /\ Keep(s, x).out = Append(s.out, x)
        /\ Keep(s, x).done = FALSE
    BY <1>2, <2>6, KeepState
  <2>8. Len(Append(s.out, x)) + 1 = Len(s.out) + 2
    BY <1>2, <2>6 DEF WalkStates
  <2> DEFINE v == Keep(s, x)
  <2>9. Walking(v.lock, Append(v.out, y), Len(v.out) + 1, v.done, ls, k, i + 1)
    BY <2>5, <2>7, <2>8
  <2> HIDE DEF v
  <2>10. v \in WalkStates
    BY <2>7 DEF v
  <2>11. WalkInv(Stop(v, <<y>>), ls, k, i + 1)
    BY <2>6, <2>9, <2>10, StopInv
  <2> QED BY <2>3, <2>11 DEF v
<1> QED BY <1>6, <1>7, <1>8, <1>9, <1>10, <1>11

LEMMA WalkStep ==
  ASSUME NEW ls, NEW i, NEW l, NextRange(ls, i, l), NEW k, NEW s, WalkInv(s, ls, k, i)
  PROVE  WalkInv(Walk(s, l), ls, k, i + 1)
<1>1. CASE s.done \/ s.pos # 0 \/ l.owner # s.lock.owner
  <2>1. Walking(s.lock, Append(s.out, l), s.pos, s.done, ls, k, i + 1)
    BY <1>1, KeepFar DEF WalkInv
  <2>2. l \in Lock /\ s \in WalkStates
    BY NextFacts DEF WalkInv
  <2>3. Walk(s, l) = Keep(s, l)
    BY <1>1 DEF Walk
  <2> QED BY <2>1, <2>2, <2>3, KeepInv
<1>2. CASE ~(s.done \/ s.pos # 0 \/ l.owner # s.lock.owner) /\ l.type = s.lock.type
  <2>1. Walk(s, l) = SameType(s, l)
    BY <1>2 DEF Walk
  <2> QED BY <1>2, <2>1, SameTypeStep
<1>3. CASE ~(s.done \/ s.pos # 0 \/ l.owner # s.lock.owner) /\ l.type # s.lock.type
  <2>1. Walk(s, l) = OtherType(s, l)
    BY <1>3 DEF Walk
  <2> QED BY <1>3, <2>1, OtherTypeStep
<1> QED BY <1>1, <1>2, <1>3

LEMMA WalkStart ==
  ASSUME NEW ls, NEW k \in NewLock, k.start <= k.end
  PROVE  WalkInv(StartWalk(k), ls, k, 0)
<1>1. /\ StartWalk(k) \in WalkStates /\ StartWalk(k).lock = k /\ StartWalk(k).out = <<>>
      /\ StartWalk(k).pos = 0 /\ StartWalk(k).done = FALSE
  BY DEF StartWalk, WalkStates
<1>2. Kept(k, k)
  BY NewLockInt DEF Kept
<1>3. LockList(<<>>)
  <2>1. <<>> \in Seq(Lock) /\ Len(<<>>) = 0 /\ \A m \in 1 .. 0 : FALSE
    OBVIOUS
  <2>2. OrderedLocks(<<>>)
    BY <2>1, OrderedIs
  <2> QED BY <2>1, <2>2 DEF LockList, RangeList
<1>4. Len(<<>>) = 0 /\ 1 .. 0 = {} /\ 0 \in 0 .. 0
  OBVIOUS
<1>5. Behind(<<>>, ls, 0) /\ Ahead(k, 0, FALSE, ls, 0) /\ Placed(k, <<>>, 0)
  BY <1>4 DEF Behind, Ahead, Placed
<1>6. ASSUME NEW o, NEW t, NEW b \in Offsets
      PROVE  Says(<<>>, 0, o, b, t) \/ (In(k, o, b) /\ k.type = t) <=> Wanted(ls, k, 0, o, b, t)
  BY <1>4 DEF Says, Wanted
<1>7. Walking(k, <<>>, 0, FALSE, ls, k, 0)
  BY <1>2, <1>3, <1>4, <1>5, <1>6 DEF Walking
<1> QED BY <1>1, <1>7 DEF WalkInv

LEMMA WalkedInv ==
  ASSUME NEW ls, LockList(ls), NEW k \in NewLock, k.start <= k.end
  PROVE  WalkInv(Walked(ls, k), ls, k, Len(ls))
<1>1. Len(ls) \in Nat
  BY DEF LockList, RangeList
<1>2. PICK w : IsWalk(w, ls, k, Len(ls)) /\ Walked(ls, k) = w[Len(ls)]
  BY <1>1, WalkedIs
<1>3. w[0] = StartWalk(k) /\ \A i \in 1 .. Len(ls) : w[i] = Walk(w[i - 1], ls[i])
  BY <1>1, <1>2 DEF IsWalk
<1> DEFINE T == {i \in Nat : i <= Len(ls) => WalkInv(w[i], ls, k, i)}
<1>4. 0 \in T
  BY <1>3, WalkStart
<1>5. ASSUME NEW i \in Nat, i \in T PROVE i + 1 \in T
  <2> SUFFICES ASSUME i + 1 <= Len(ls) PROVE WalkInv(w[i + 1], ls, k, i + 1)
    OBVIOUS
  <2>1. i < Len(ls) /\ i + 1 \in 1 .. Len(ls) /\ (i + 1) - 1 = i
    BY <1>1
  <2>2. WalkInv(w[i], ls, k, i)
    BY <1>1, <1>5, <2>1
  <2>3. w[i + 1] = Walk(w[i], ls[i + 1])
    BY <1>3, <2>1
  <2>4. NextRange(ls, i, ls[i + 1])
    BY <2>1 DEF NextRange
  <2>5. WalkInv(Walk(w[i], ls[i + 1]), ls, k, i + 1)
    BY <2>2, <2>4, WalkStep
  <2> QED BY <2>3, <2>5
<1> HIDE DEF T
<1>6. Nat \subseteq T
  BY <1>4, <1>5, NatInd
<1>7. Len(ls) \in T /\ Len(ls) <= Len(ls)
  BY <1>1, <1>6
<1> QED BY <1>2, <1>7 DEF T

---------------------------------------------------------------------------
(* Putting the lock into the list *)

LEMMA InsertAtIs ==
  ASSUME NEW ls \in Seq(Lock), NEW x \in Lock, NEW p \in 1 .. Len(ls) + 1
  PROVE  /\ InsertAt(ls, p, x) \in Seq(Lock) /\ Len(InsertAt(ls, p, x)) = Len(ls) + 1
         /\ \A m \in 1 .. Len(ls) + 1 :
              InsertAt(ls, p, x)[m] = IF m < p THEN ls[m] ELSE IF m = p THEN x ELSE ls[m - 1]
<1> DEFINE a == SubSeq(ls, 1, p - 1)
           c == SubSeq(ls, p, Len(ls))
           d == a \o <<x>>
<1>0. Len(ls) \in Nat /\ p \in Int
  OBVIOUS
<1>1. a \in Seq(Lock) /\ Len(a) = p - 1 /\ \A m \in 1 .. p - 1 : a[m] = ls[m]
  BY <1>0
<1>2. c \in Seq(Lock) /\ Len(c) = Len(ls) - p + 1
      /\ \A m \in 1 .. Len(ls) - p + 1 : c[m] = ls[p + m - 1]
  BY <1>0
<1> HIDE DEF a, c
<1>3. <<x>> \in Seq(Lock) /\ Len(<<x>>) = 1 /\ <<x>>[1] = x
  OBVIOUS
<1>4. d \in Seq(Lock) /\ Len(d) = p /\ \A m \in 1 .. p : d[m] = IF m < p THEN ls[m] ELSE x
  BY <1>0, <1>1, <1>3
<1> HIDE DEF d
<1>5. d \o c \in Seq(Lock) /\ Len(d \o c) = Len(ls) + 1
  BY <1>0, <1>2, <1>4
<1>6. ASSUME NEW m \in 1 .. Len(ls) + 1
      PROVE  (d \o c)[m] = IF m < p THEN ls[m] ELSE IF m = p THEN x ELSE ls[m - 1]
  <2>1. CASE m <= p
    BY <1>0, <1>2, <1>4, <2>1
  <2>2. CASE p < m
    <3>1. (d \o c)[m] = c[m - p]
      BY <1>0, <1>2, <1>4, <2>2
    <3>2. m - p \in 1 .. Len(ls) - p + 1 /\ p + (m - p) - 1 = m - 1
      BY <1>0, <2>2
    <3>3. c[m - p] = ls[m - 1]
      BY <1>2, <3>2
    <3> QED BY <1>0, <2>2, <3>1, <3>3
  <2>3. m <= p \/ p < m
    BY <1>0
  <2> QED BY <2>1, <2>2, <2>3
<1>7. InsertAt(ls, p, x) = d \o c
  BY DEF InsertAt, a, c, d
<1> QED BY <1>5, <1>6, <1>7

\* A list says of a byte what its record of bytes holds.
LEMMA HeldIs ==
  ASSUME NEW ls, LockList(ls), NEW o \in Owners, NEW b \in Offsets
  PROVE  /\ HeldBytes(ls)[o][b] \in LockTypes \cup {"U"}
         /\ \A t \in LockTypes : HeldBytes(ls)[o][b] = t <=> Says(ls, Len(ls), o, b, t)
<1> DEFINE C == Covering(ls, o, b)
           h == HeldBytes(ls)[o][b]
<1>1. ls \in Seq(Lock) /\ Len(ls) \in Nat /\ DOMAIN ls = 1 .. Len(ls)
  BY DEF LockList, RangeList
<1>2. h = IF C = {} THEN "U" ELSE ls[CHOOSE i \in C : TRUE].type
  BY DEF HeldBytes
<1>3. \A m : m \in C <=> m \in 1 .. Len(ls) /\ In(ls[m], o, b)
  BY <1>1 DEF Covering, In
<1>4. \A m \in 1 .. Len(ls) : ls[m] \in Lock /\ ls[m].type \in LockTypes
  <2>1. \A m \in 1 .. Len(ls) : ls[m] \in Lock
    BY <1>1
  <2>2. \A l \in Lock : l.type \in LockTypes
    BY DEF Lock
  <2> QED BY <2>1, <2>2
<1> HIDE DEF C, h
<1>5. CASE C = {}
  <2>1. h = "U"
    BY <1>2, <1>5
  <2>2. \A t : ~Says(ls, Len(ls), o, b, t)
    BY <1>3, <1>5 DEF Says
  <2>3. "U" \notin LockTypes
    BY DEF LockTypes
  <2> QED BY <2>1, <2>2, <2>3 DEF h
<1>6. CASE C # {}
  <2>1. PICK m \in C : h = ls[m].type
    BY <1>2, <1>6, Zenon
  <2>2. m \in 1 .. Len(ls) /\ In(ls[m], o, b) /\ h \in LockTypes
    BY <1>3, <1>4, <2>1
  <2>3. ASSUME NEW j \in 1 .. Len(ls), In(ls[j], o, b) PROVE j = m
    <3>1. ls[m] \in Lock /\ ls[j] \in Lock
      BY <1>4, <2>2
    <3>2. ls[m].start \in Int /\ ls[m].end \in Int /\ ls[j].start \in Int /\ ls[j].end \in Int
      BY <3>1, LockInt
    <3>3. b \in Int
      BY DEF Offsets
    <3>4. ~(m < j) /\ ~(j < m)
      <4>1. (m < j => Before(ls[m], ls[j])) /\ (j < m => Before(ls[j], ls[m]))
        BY <1>1, <2>2, <2>3, OrderedIs DEF LockList, In
      <4>2. ~Before(ls[m], ls[j]) /\ ~Before(ls[j], ls[m])
        BY <2>2, <2>3, <3>2, <3>3 DEF Before, In
      <4> QED BY <4>1, <4>2
    <3> QED BY <2>2, <3>4
  <2>4. \A t \in LockTypes : h = t <=> Says(ls, Len(ls), o, b, t)
    BY <2>1, <2>2, <2>3 DEF Says
  <2> QED BY <2>2, <2>4 DEF h
<1> QED BY <1>5, <1>6

\* The list after the walk and the insertion.
LEMMA InsertIs ==
  ASSUME NEW ls, LockList(ls), NEW k \in NewLock, k.start <= k.end,
         NEW new, new = Insert(Walked(ls, k))
  PROVE  /\ LockList(new)
         /\ \A o : \A t \in LockTypes : \A b \in Offsets :
              Says(new, Len(new), o, b, t) <=> Wanted(ls, k, Len(ls), o, b, t)
<1> DEFINE s == Walked(ls, k)
           q == s.lock
           out == s.out
<1>1. WalkInv(s, ls, k, Len(ls))
  BY WalkedInv
<1> HIDE DEF s
<1>2. s \in WalkStates /\ Walking(q, out, s.pos, s.done, ls, k, Len(ls)) /\ s.done \in BOOLEAN
  BY <1>1 DEF WalkInv, WalkStates
<1>3. LockList(out) /\ Kept(q, k) /\ q \in NewLock /\ q.type = k.type /\ s.pos \in 0 .. Len(out)
  BY <1>2 DEF Walking, Kept
<1>4. \A o, t : \A b \in Offsets :
        Says(out, Len(out), o, b, t) \/ (~s.done /\ In(q, o, b) /\ q.type = t)
          <=> Wanted(ls, k, Len(ls), o, b, t)
  BY <1>2 DEF Walking
<1>5. CASE s.done \/ q.type = "U"
  <2>1. new = out
    BY <1>5 DEF Insert, s
  <2>2. "U" \notin LockTypes
    BY DEF LockTypes
  <2> QED BY <1>3, <1>4, <1>5, <2>1, <2>2
<1>6. CASE ~(s.done \/ q.type = "U")
  <2> DEFINE p == IF s.pos = 0 THEN Len(out) + 1 ELSE s.pos
  <2>1. new = InsertAt(out, p, q)
    BY <1>6 DEF Insert, s
  <2>2. out \in Seq(Lock) /\ Len(out) \in Nat /\ p \in 1 .. Len(out) + 1
    BY <1>3 DEF LockList, RangeList
  <2>3. q \in Lock
    BY <1>3, <1>6 DEF NewLock, Lock
  <2>4. q.start <= q.end
    <3>1. k.start \in Int /\ k.end \in Int /\ q.start \in Int /\ q.end \in Int
      BY <1>3, NewLockInt
    <3> QED BY <1>3, <3>1 DEF Kept
  <2>5. Placed(q, out, s.pos)
    BY <1>2, <1>6 DEF Walking
  <2>6. \A m \in 1 .. Len(out) : out[m].owner = q.owner =>
          IF m < p THEN Before(out[m], q) ELSE Before(q, out[m])
    <3>1. \A m \in 1 .. Len(out) : (s.pos = 0 \/ m < s.pos) <=> m < p
      BY <1>3, <2>2
    <3> HIDE DEF p
    <3> QED BY <2>5, <3>1 DEF Placed
  <2> HIDE DEF p
  <2>7. /\ new \in Seq(Lock) /\ Len(new) = Len(out) + 1
        /\ \A m \in 1 .. Len(out) + 1 :
             new[m] = IF m < p THEN out[m] ELSE IF m = p THEN q ELSE out[m - 1]
    <3> HIDE DEF q, out
    <3>1. p \in 1 .. Len(out) + 1
      BY <2>2
    <3>2. out \in Seq(Lock) /\ q \in Lock
      BY <2>2, <2>3
    <3>3. /\ InsertAt(out, p, q) \in Seq(Lock) /\ Len(InsertAt(out, p, q)) = Len(out) + 1
          /\ \A m \in 1 .. Len(out) + 1 :
               InsertAt(out, p, q)[m] = IF m < p THEN out[m] ELSE IF m = p THEN q ELSE out[m - 1]
      BY <3>1, <3>2, InsertAtIs
    <3> QED BY <2>1, <3>3
  <2>8. RangeList(out) /\ OrderedLocks(out)
    BY <1>3 DEF LockList
  <2>9. \A m, j \in 1 .. Len(out) :
          m < j /\ out[m].owner = out[j].owner => Before(out[m], out[j])
    BY <2>2, <2>8, OrderedIs
  <2>10. ASSUME NEW m \in 1 .. Len(new)
         PROVE  \/ m < p /\ m \in 1 .. Len(out) /\ new[m] = out[m]
                \/ m = p /\ new[m] = q
                \/ p < m /\ m - 1 \in 1 .. Len(out) /\ new[m] = out[m - 1]
    BY <2>2, <2>7
  <2>11. RangeList(new)
    <3>1. \A m \in 1 .. Len(out) : out[m].start <= out[m].end
      BY <2>8 DEF RangeList
    <3> QED BY <2>4, <2>7, <2>10, <3>1 DEF RangeList
  <2>12. ASSUME NEW m \in 1 .. Len(new), NEW j \in 1 .. Len(new), m < j,
                new[m].owner = new[j].owner
         PROVE  Before(new[m], new[j])
    <3>1. CASE j < p
      BY <2>2, <2>7, <2>9, <2>10, <2>12, <3>1, SMTT(30)
    <3>2. CASE j = p
      BY <2>2, <2>6, <2>7, <2>10, <2>12, <3>2
    <3>3. CASE p < j
      <4>1. j - 1 \in 1 .. Len(out) /\ new[j] = out[j - 1] /\ ~(j - 1 < p)
        BY <2>2, <2>7, <2>10, <3>3
      <4>2. CASE m < p
        <5>1. m \in 1 .. Len(out) /\ new[m] = out[m] /\ m < j - 1
          BY <2>2, <2>7, <2>10, <3>3, <4>2
        <5> QED BY <2>9, <2>12, <4>1, <5>1
      <4>3. CASE m = p
        <5>1. new[m] = q /\ out[j - 1].owner = q.owner
          BY <2>2, <2>10, <2>12, <4>1, <4>3
        <5> QED BY <2>6, <4>1, <5>1
      <4>4. CASE p < m
        <5>1. m - 1 \in 1 .. Len(out) /\ new[m] = out[m - 1] /\ m - 1 < j - 1
          BY <2>2, <2>7, <2>10, <2>12, <4>4
        <5> QED BY <2>9, <2>12, <4>1, <5>1
      <4> QED BY <2>2, <2>7, <4>2, <4>3, <4>4
    <3> QED BY <2>2, <2>7, <3>1, <3>2, <3>3
  <2>13. OrderedLocks(new)
    BY <2>7, <2>12, OrderedIs
  <2>14. ASSUME NEW o, NEW t, NEW b
         PROVE  Says(new, Len(new), o, b, t)
                  <=> Says(out, Len(out), o, b, t) \/ (In(q, o, b) /\ q.type = t)
    <3>1. Says(new, Len(new), o, b, t)
            => Says(out, Len(out), o, b, t) \/ (In(q, o, b) /\ q.type = t)
      BY <2>10 DEF Says
    <3>2. p \in 1 .. Len(new) /\ new[p] = q
      BY <2>2, <2>7
    <3>3. In(q, o, b) /\ q.type = t => Says(new, Len(new), o, b, t)
      BY <3>2 DEF Says
    <3>4. ASSUME NEW m \in 1 .. Len(out) PROVE \E j \in 1 .. Len(new) : new[j] = out[m]
      <4>1. CASE m < p
        <5>1. m \in 1 .. Len(new) /\ new[m] = out[m]
          BY <2>2, <2>7, <4>1
        <5> QED BY <5>1
      <4>2. CASE ~(m < p)
        <5>1. m + 1 \in 1 .. Len(new) /\ (m + 1) - 1 = m /\ new[m + 1] = out[m]
          BY <2>2, <2>7, <4>2
        <5> QED BY <5>1
      <4> QED BY <4>1, <4>2
    <3>5. Says(out, Len(out), o, b, t) => Says(new, Len(new), o, b, t)
      BY <3>4 DEF Says
    <3> QED BY <3>1, <3>3, <3>5
  <2> QED BY <1>4, <1>6, <2>11, <2>13, <2>14 DEF LockList
<1> QED BY <1>5, <1>6

---------------------------------------------------------------------------
(* The theorems *)

\* What the bytes are when the owner of k sets its range.
SetBytes(held, k) ==
  [held EXCEPT ![k.owner] = [b \in Offsets |-> IF k.start <= b /\ b <= k.end THEN k.type
                                               ELSE @[b]]]

\* locks_insert (fuse.c:3855-3927), whatever ranges it has to merge, trim, split or drop:
\* every byte of the range gets the new type, no other byte and no other owner's bytes
\* change, and the record stays in order, with the ranges of one type joined.  Without the
\* memory it needs it changes nothing.
THEOREM LocksInsertExact ==
  ASSUME NEW ls, LockList(ls), NEW k \in NewLock, k.start <= k.end, NEW mem \in BOOLEAN
  PROVE  /\ LockList(locks_insert(ls, k, mem))
         /\ HeldBytes(locks_insert(ls, k, mem)) =
              IF NeedsMemory(k) /\ ~mem THEN HeldBytes(ls) ELSE SetBytes(HeldBytes(ls), k)
<1>1. CASE NeedsMemory(k) /\ ~mem
  BY <1>1 DEF locks_insert
<1>2. CASE ~(NeedsMemory(k) /\ ~mem)
  <2> DEFINE new == Insert(Walked(ls, k))
             old == HeldBytes(ls)
  <2>1. locks_insert(ls, k, mem) = new
    BY <1>2 DEF locks_insert
  <2>2. /\ LockList(new)
        /\ \A o : \A t \in LockTypes : \A b \in Offsets :
             Says(new, Len(new), o, b, t) <=> Wanted(ls, k, Len(ls), o, b, t)
    BY InsertIs
  <2> HIDE DEF new
  <2>3. k.owner \in Owners /\ k.type \in LockTypes \cup {"U"}
    BY DEF NewLock
  <2>4. ASSUME NEW o \in Owners, NEW b \in Offsets
        PROVE  HeldBytes(new)[o][b] = IF In(k, o, b) THEN k.type ELSE old[o][b]
    <3>1. /\ HeldBytes(new)[o][b] \in LockTypes \cup {"U"}
          /\ \A t \in LockTypes : HeldBytes(new)[o][b] = t <=> Says(new, Len(new), o, b, t)
      BY <2>2, HeldIs
    <3>2. /\ old[o][b] \in LockTypes \cup {"U"}
          /\ \A t \in LockTypes : old[o][b] = t <=> Says(ls, Len(ls), o, b, t)
      BY HeldIs
    <3> HIDE DEF old
    <3>3. \A t \in LockTypes : HeldBytes(new)[o][b] = t <=> Wanted(ls, k, Len(ls), o, b, t)
      BY <2>2, <3>1
    <3>4. CASE In(k, o, b)
      <4>1. \A t \in LockTypes : HeldBytes(new)[o][b] = t <=> t = k.type
        BY <3>3, <3>4 DEF Wanted
      <4> QED BY <2>3, <3>1, <3>4, <4>1
    <3>5. CASE ~In(k, o, b)
      <4>1. \A t \in LockTypes : HeldBytes(new)[o][b] = t <=> old[o][b] = t
        BY <3>2, <3>3, <3>5 DEF Wanted
      <4> QED BY <3>1, <3>2, <3>5, <4>1
    <3> QED BY <3>4, <3>5
  <2>5. ASSUME NEW l PROVE HeldBytes(l) = [o \in Owners |-> [b \in Offsets |-> HeldBytes(l)[o][b]]]
    BY DEF HeldBytes
  <2>6. SetBytes(old, k) = [o \in Owners |-> [b \in Offsets |->
                              IF In(k, o, b) THEN k.type ELSE old[o][b]]]
    <3>1. old = [o \in Owners |-> [b \in Offsets |-> old[o][b]]]
      BY <2>5
    <3> HIDE DEF old
    <3> QED BY <2>3, <3>1 DEF SetBytes, In
  <2>7. HeldBytes(new) = [o \in Owners |-> [b \in Offsets |->
                            IF In(k, o, b) THEN k.type ELSE old[o][b]]]
    <3>1. HeldBytes(new) = [o \in Owners |-> [b \in Offsets |-> HeldBytes(new)[o][b]]]
      BY <2>5
    <3> HIDE DEF old
    <3> QED BY <2>4, <3>1
  <2>8. HeldBytes(new) = SetBytes(old, k)
    BY <2>6, <2>7
  <2> QED BY <1>2, <2>1, <2>2, <2>8
<1> QED BY <1>1, <1>2

\* locks_conflict (fuse.c:3829): the record has a conflict with a lock if and only if some
\* other owner holds one of its bytes, and one of the two is for writing.
THEOREM LocksConflictExact ==
  ASSUME NEW ls, LockList(ls), NEW k \in Lock, k.start <= k.end
  PROVE  locks_conflict(ls, k) # {} <=>
           \E o \in Owners \ {k.owner}, b \in k.start .. k.end :
             HeldBytes(ls)[o][b] # "U" /\ "W" \in {HeldBytes(ls)[o][b], k.type}
<1>1. ls \in Seq(Lock) /\ DOMAIN ls = 1 .. Len(ls) /\ Len(ls) \in Nat
  BY DEF LockList, RangeList
<1>2. \A m \in 1 .. Len(ls) : ls[m] \in Lock /\ ls[m].start <= ls[m].end
  BY DEF LockList, RangeList
<1>3. /\ k.start \in Int /\ k.end \in Int /\ 0 <= k.start /\ k.end <= OFFSET_MAX
      /\ OFFSET_MAX \in Int
  BY LockInt, OffsetAssumption
<1>4. k.start .. k.end \subseteq Offsets
  BY <1>3 DEF Offsets
<1>5. ASSUME NEW m \in locks_conflict(ls, k)
      PROVE  \E o \in Owners \ {k.owner}, b \in k.start .. k.end :
               HeldBytes(ls)[o][b] # "U" /\ "W" \in {HeldBytes(ls)[o][b], k.type}
  <2>1. /\ m \in 1 .. Len(ls) /\ ls[m].owner # k.owner /\ k.start <= ls[m].end
        /\ ls[m].start <= k.end /\ "W" \in {ls[m].type, k.type}
    BY <1>1 DEF locks_conflict
  <2>2. /\ ls[m] \in Lock /\ ls[m].start \in Int /\ ls[m].end \in Int
        /\ ls[m].start <= ls[m].end
    BY <1>2, <2>1, LockInt
  <2>3. ls[m].owner \in Owners /\ ls[m].type \in LockTypes
    BY <2>2 DEF Lock
  <2> DEFINE b == Max2(k.start, ls[m].start)
  <2>4. b \in k.start .. k.end /\ ls[m].start <= b /\ b <= ls[m].end
    BY <1>3, <2>1, <2>2 DEF Max2
  <2> HIDE DEF b
  <2>5. Says(ls, Len(ls), ls[m].owner, b, ls[m].type)
    BY <2>1, <2>4 DEF Says, In
  <2>6. HeldBytes(ls)[ls[m].owner][b] = ls[m].type
    BY <1>4, <2>3, <2>4, <2>5, HeldIs
  <2>7. ls[m].type # "U"
    BY <2>3 DEF LockTypes
  <2> QED BY <2>1, <2>3, <2>4, <2>6, <2>7
<1>6. ASSUME NEW o \in Owners \ {k.owner}, NEW b \in k.start .. k.end,
             HeldBytes(ls)[o][b] # "U", "W" \in {HeldBytes(ls)[o][b], k.type}
      PROVE  locks_conflict(ls, k) # {}
  <2> DEFINE t == HeldBytes(ls)[o][b]
  <2>1. t \in LockTypes /\ Says(ls, Len(ls), o, b, t)
    <3>1. b \in Offsets
      BY <1>4
    <3> QED BY <1>6, <3>1, HeldIs
  <2>2. "W" \in {t, k.type}
    BY <1>6
  <2> HIDE DEF t
  <2>3. PICK m \in 1 .. Len(ls) : In(ls[m], o, b) /\ ls[m].type = t
    BY <2>1 DEF Says
  <2>4. ls[m].start \in Int /\ ls[m].end \in Int /\ b \in Int /\ k.start <= b /\ b <= k.end
    BY <1>2, <1>3, <2>3, LockInt
  <2>5. ls[m].owner # k.owner /\ k.start <= ls[m].end /\ ls[m].start <= k.end
    BY <1>3, <2>3, <2>4 DEF In
  <2>6. m \in locks_conflict(ls, k)
    BY <1>1, <2>2, <2>3, <2>5 DEF locks_conflict
  <2> QED BY <2>6
<1> QED BY <1>5, <1>6

\* The conversions of a range to a struct flock, whose length 0 stands for a range up to
\* OFFSET_MAX, and back (fuse.c:3929-3946, fuse_lowlevel.c:871, 1570): the record is asked for the
\* range the kernel asked for, and a lock of the record is answered with its own range.
THEOREM FlockRoundTrip ==
  ASSUME NEW k \in NewLock, k.start <= k.end
  PROVE  /\ flock_to_lock(convert_fuse_file_lock(k), k.owner) = k
         /\ flock_to_lock(lock_to_flock(k), k.owner) = k
         /\ k.type # "U" => FlockAnswer(lock_to_flock(k)) =
                              [type |-> k.type, start |-> k.start, end |-> k.end]
<1>1. /\ k.start \in Int /\ k.end \in Int
      /\ k = [owner |-> k.owner, type |-> k.type, start |-> k.start, end |-> k.end]
  BY NewLockInt DEF NewLock
<1> DEFINE f == [type |-> k.type, start |-> k.start,
                 len |-> IF k.end = OFFSET_MAX THEN 0 ELSE k.end - k.start + 1]
<1>2. convert_fuse_file_lock(k) = f /\ lock_to_flock(k) = f
  BY DEF convert_fuse_file_lock, lock_to_flock
<1>3. /\ f.type = k.type /\ f.start = k.start
      /\ f.len = IF k.end = OFFSET_MAX THEN 0 ELSE k.end - k.start + 1
  OBVIOUS
<1> HIDE DEF f
<1>4. k.end = IF f.len # 0 THEN f.start + f.len - 1 ELSE OFFSET_MAX
  BY <1>1, <1>3
<1>5. flock_to_lock(f, k.owner) = k
  BY <1>1, <1>3, <1>4 DEF flock_to_lock
<1>6. k.type # "U" => FlockAnswer(f) = [type |-> k.type, start |-> k.start, end |-> k.end]
  BY <1>3, <1>4 DEF FlockAnswer
<1> QED BY <1>2, <1>5, <1>6

---------------------------------------------------------------------------
(* What an operator on a call leaves alone *)

Fields ==
  {"req", "conf", "env", "err", "val", "path", "held", "intr", "calls", "kind", "code", "nans",
   "gone", "bad", "look", "opened", "count", "dirs", "dhs", "ino", "locks", "fslocks", "lost",
   "flock", "cache", "keep", "dh", "stop", "io", "in", "head", "buf", "wrote"}

IsCall(c) == DOMAIN c = Fields

ReqSame(b, c) == IsCall(c) /\ c.req = b.req /\ c.conf = b.conf /\ c.env = b.env

\* A directory handle with a list of names and a reply of entries.
Entry == [name: STRING, off: Nat, ino: BOOLEAN]
DirOk(dh_) ==
  /\ DOMAIN dh_ = {"filled", "list", "len", "needlen", "size", "error", "contents"}
  /\ dh_.list \in Seq(STRING) /\ dh_.contents \in Seq(Entry)

\* What was asked, and the locks; a directory handle stays one.
LockSame(b, c) ==
  /\ ReqSame(b, c) /\ c.locks = b.locks /\ c.fslocks = b.fslocks /\ c.lost = b.lost
  /\ DirOk(b.dh) => DirOk(c.dh)

\* How far the request is.
EndSame(b, c) ==
  /\ ReqSame(b, c)
  /\ c.path = b.path /\ c.held = b.held /\ c.intr = b.intr /\ c.kind = b.kind
  /\ c.nans = b.nans /\ c.gone = b.gone /\ c.bad = b.bad

Same(b, c) == LockSame(b, c) /\ EndSame(b, c)

LEMMA SameSelf == ASSUME NEW c, IsCall(c) PROVE Same(c, c)
BY DEF Same, LockSame, EndSame, ReqSame

LEMMA LockTrans ==
  ASSUME NEW a, NEW b, NEW c, LockSame(a, b), LockSame(b, c) PROVE LockSame(a, c)
BY DEF LockSame, ReqSame

---------------------------------------------------------------------------
(* The functions of the file system *)

LEMMA FailsSame ==
  ASSUME NEW b, NEW c, Same(b, c), NEW e PROVE Same(b, Fails(c, e))
BY DEF Same, LockSame, EndSame, ReqSame, IsCall, Fields, Fails

LEMMA CalledSame ==
  ASSUME NEW b, NEW c, Same(b, c), NEW op PROVE Same(b, Called(c, op))
BY DEF Same, LockSame, EndSame, ReqSame, IsCall, Fields, Called

LEMMA FsSame ==
  ASSUME NEW b, NEW c, Same(b, c), NEW op, NEW e PROVE Same(b, Fs(c, op, e))
BY FailsSame, CalledSame DEF Fs, Unless

LEMMA SizedSame == ASSUME NEW b, NEW c, Same(b, c) PROVE Same(b, Sized(c))
BY DEF Same, LockSame, EndSame, ReqSame, IsCall, Fields, Sized

\* A call whose result is ignored: d is what it made of the call.
LEMMA QuietSame ==
  ASSUME NEW b, NEW d, Same(b, d), NEW e PROVE Same(b, [d EXCEPT !.err = e])
BY DEF Same, LockSame, EndSame, ReqSame, IsCall, Fields

LEMMA SimpleFsSame ==
  ASSUME NEW b, NEW c, Same(b, c)
  PROVE  /\ Same(b, fuse_fs_getattr(c)) /\ Same(b, fuse_fs_symlink(c))
         /\ Same(b, fuse_fs_release(c)) /\ Same(b, fuse_fs_opendir(c))
         /\ Same(b, fuse_fs_open(c)) /\ Same(b, fuse_fs_fsync(c))
         /\ Same(b, fuse_fs_fsyncdir(c)) /\ Same(b, fuse_fs_flush(c))
         /\ Same(b, fuse_fs_statfs(c)) /\ Same(b, fuse_fs_releasedir(c))
         /\ Same(b, fuse_fs_create(c)) /\ Same(b, fuse_fs_flock(c))
         /\ Same(b, fuse_fs_chmod(c)) /\ Same(b, fuse_fs_chown(c))
         /\ Same(b, fuse_fs_truncate(c)) /\ Same(b, fuse_fs_utimens(c))
         /\ Same(b, fuse_fs_access(c)) /\ Same(b, fuse_fs_readlink(c))
         /\ Same(b, fuse_fs_mknod(c)) /\ Same(b, fuse_fs_mkdir(c))
         /\ Same(b, fuse_fs_setxattr(c)) /\ Same(b, fuse_fs_bmap(c))
         /\ Same(b, fuse_fs_removexattr(c)) /\ Same(b, fuse_fs_ioctl(c))
         /\ Same(b, fuse_fs_poll(c)) /\ Same(b, fuse_fs_fallocate(c))
BY FsSame
   DEF fuse_fs_getattr, fuse_fs_symlink, fuse_fs_release, fuse_fs_opendir, fuse_fs_open,
       fuse_fs_fsync, fuse_fs_fsyncdir, fuse_fs_flush, fuse_fs_statfs, fuse_fs_releasedir,
       fuse_fs_create, fuse_fs_flock, fuse_fs_chmod, fuse_fs_chown, fuse_fs_truncate,
       fuse_fs_utimens, fuse_fs_access, fuse_fs_readlink, fuse_fs_mknod, fuse_fs_mkdir,
       fuse_fs_setxattr, fuse_fs_bmap, fuse_fs_removexattr, fuse_fs_ioctl, fuse_fs_poll,
       fuse_fs_fallocate

LEMMA OtherFsSame ==
  ASSUME NEW b, NEW c, Same(b, c)
  PROVE  /\ Same(b, fuse_fs_fgetattr(c)) /\ Same(b, fuse_fs_ftruncate(c))
         /\ Same(b, fuse_fs_getxattr(c)) /\ Same(b, fuse_fs_listxattr(c))
<1>1. Same(b, fuse_fs_fgetattr(c)) /\ Same(b, fuse_fs_ftruncate(c))
  BY FsSame, FailsSame DEF fuse_fs_fgetattr, fuse_fs_ftruncate, Unless
<1>2. Same(b, fuse_fs_getxattr(c)) /\ Same(b, fuse_fs_listxattr(c))
  BY FsSame, SizedSame DEF fuse_fs_getxattr, fuse_fs_listxattr
<1> QED BY <1>1, <1>2

LEMMA ReadIntoSame ==
  ASSUME NEW b, NEW c, Same(b, c), NEW s PROVE Same(b, ReadInto(c, s))
BY DEF Same, LockSame, EndSame, ReqSame, IsCall, Fields, ReadInto

LEMMA ReadBufSame == ASSUME NEW b, NEW c, Same(b, c) PROVE Same(b, fuse_fs_read_buf(c))
<1>1. /\ Same(b, NoSize(Fs(c, "read_buf", 0))) /\ Same(b, Sized(Fs(c, "read", 0)))
      /\ \A e : Same(b, Unless(c, Fails(c, e)))
  BY FsSame, SizedSame, FailsSame DEF Unless, NoSize
<1> QED BY <1>1, ReadIntoSame DEF fuse_fs_read_buf, ReadSized

LEMMA ConsumedSame ==
  ASSUME NEW b, NEW c, Same(b, c), NEW r PROVE Same(b, Consumed(c, r))
BY DEF Same, LockSame, EndSame, ReqSame, IsCall, Fields, Consumed

LEMMA WriteMemSame ==
  ASSUME NEW b, NEW c, Same(b, c), NEW data PROVE Same(b, WriteMem(c, data))
<1>1. Same(b, Sized(Fs(c, "write", 0)))
  BY FsSame, SizedSame
<1> QED BY <1>1 DEF WriteMem, Same, LockSame, EndSame, ReqSame, IsCall, Fields

LEMMA WroteBufSame ==
  ASSUME NEW b, NEW c, Same(b, c), NEW r PROVE Same(b, WroteBuf(c, r))
<1>1. Same(b, Consumed(c, r))
  BY ConsumedSame
<1>2. Same(b, Fails(Consumed(c, r), r.res))
  BY <1>1, FailsSame
<1>3. Same(b, [Consumed(c, r) EXCEPT !.val = r.res])
  BY <1>1 DEF Same, LockSame, EndSame, ReqSame, IsCall, Fields
<1> QED BY <1>2, <1>3 DEF WroteBuf

LEMMA WriteBufSame == ASSUME NEW b, NEW c, Same(b, c) PROVE Same(b, fuse_fs_write_buf(c))
<1>1. Same(b, WriteBuf(Fs(c, "write_buf", 0)))
  BY FsSame, WroteBufSame DEF WriteBuf
<1>2. \A r : Same(b, FromCopy(c, r))
  BY ConsumedSame, FailsSame, WriteMemSame DEF FromCopy
<1>3. \A e : Same(b, Fails(c, e))
  BY FailsSame
<1>4. \A data : Same(b, WriteMem(c, data))
  BY WriteMemSame
<1> QED BY <1>1, <1>2, <1>3, <1>4 DEF fuse_fs_write_buf

---------------------------------------------------------------------------
(* How far a request is *)

Held(c) == c.held = IF c.path = "held" THEN 1 ELSE 0

\* Not answered yet, and with an interrupt function set.
Going(c) ==
  /\ IsCall(c) /\ c.kind = "none" /\ c.nans = 0 /\ c.gone = FALSE /\ c.bad = FALSE
  /\ c.intr = FALSE /\ Held(c)
Prepared(c) ==
  /\ IsCall(c) /\ c.kind = "none" /\ c.nans = 0 /\ c.gone = FALSE /\ c.bad = FALSE
  /\ c.intr = TRUE /\ Held(c)

Answered(c) ==
  /\ IsCall(c) /\ c.nans = 1 /\ c.gone = TRUE /\ c.bad = FALSE /\ c.intr = FALSE /\ Held(c)

\* As the low-level layer hands it on.
New(c) == Going(c) /\ c.path # "held" /\ c.err = 0

\* A handler's path is given back, and the locks are as they were before it.
Ready(b, c) == LockSame(b, c) /\ Going(c) /\ c.path # "held"
Ended(b, c) == LockSame(b, c) /\ Answered(c) /\ c.held = 0

LEMMA GoingSame ==
  ASSUME NEW b, NEW c, EndSame(b, c)
  PROVE  (Going(b) => Going(c)) /\ (Prepared(b) => Prepared(c))
BY DEF Going, Prepared, EndSame, ReqSame, Held

LEMMA AnsweredSame ==
  ASSUME NEW b, NEW c, Answered(b), EndSame(b, c) PROVE Answered(c)
BY DEF Answered, EndSame, ReqSame, Held

LEMMA AnswerLock ==
  ASSUME NEW b, NEW c, LockSame(b, c), NEW kind, NEW e
  PROVE  LockSame(b, send_reply_iov(c, kind, e))
BY DEF LockSame, ReqSame, IsCall, Fields, send_reply_iov, Use

LEMMA AnswerEnd ==
  ASSUME NEW c, Going(c), NEW kind, NEW e
  PROVE  /\ Answered(send_reply_iov(c, kind, e)) /\ send_reply_iov(c, kind, e).path = c.path
         /\ send_reply_iov(c, kind, e).calls = c.calls
         /\ send_reply_iov(c, kind, e).flock = c.flock
         /\ send_reply_iov(c, kind, e).kind = kind
<1> DEFINE used == Use(c)
           code == IF e <= -1000 \/ e > 0 THEN ERANGE ELSE e
           d == [used EXCEPT !.kind = kind, !.nans = @ + 1, !.gone = TRUE, !.code = code]
<1>1. /\ IsCall(used) /\ used.nans = 0 /\ used.bad = FALSE /\ used.intr = FALSE /\ used.held = c.held
      /\ used.path = c.path /\ used.calls = c.calls /\ used.flock = c.flock
  BY DEF Going, IsCall, Fields, Use
<1>2. d = send_reply_iov(c, kind, e)
  BY DEF send_reply_iov
<1> HIDE DEF used, code
<1>3. /\ IsCall(d) /\ d.nans = 1 /\ d.gone = TRUE /\ d.bad = FALSE /\ d.intr = FALSE
      /\ d.held = c.held /\ d.path = c.path /\ d.calls = c.calls /\ d.flock = c.flock
      /\ d.kind = kind
  BY <1>1 DEF IsCall, Fields
<1> HIDE DEF d
<1>4. Held(d)
  BY <1>3 DEF Going, Held
<1> QED BY <1>2, <1>3, <1>4 DEF Answered

LEMMA ReplyEnded ==
  ASSUME NEW b, NEW c, Ready(b, c), NEW kind, NEW e
  PROVE  Ended(b, send_reply_iov(c, kind, e))
<1>1. LockSame(b, send_reply_iov(c, kind, e))
  BY AnswerLock DEF Ready
<1>2. Answered(send_reply_iov(c, kind, e)) /\ send_reply_iov(c, kind, e).path # "held"
  <2>1. Going(c) /\ c.path # "held"
    BY DEF Ready
  <2> QED BY <2>1, AnswerEnd
<1> QED BY <1>1, <1>2 DEF Ended, Answered, Held

LEMMA ErrEnded ==
  ASSUME NEW b, NEW c, Ready(b, c) PROVE Ended(b, reply_err(c)) /\ \A e : Ended(b, fuse_reply_err(c, e))
BY ReplyEnded DEF reply_err, fuse_reply_err

---------------------------------------------------------------------------
(* Paths and interrupts *)

LEMMA PathLock ==
  ASSUME NEW b, NEW c, LockSame(b, c)
  PROVE  /\ LockSame(b, get_path(c)) /\ LockSame(b, get_path_name(c))
         /\ LockSame(b, get_path_nullok(c)) /\ LockSame(b, free_path(c))
         /\ LockSame(b, fuse_prepare_interrupt(c)) /\ LockSame(b, fuse_finish_interrupt(c))
<1>1. LockSame(b, try_path(c))
  BY DEF LockSame, ReqSame, IsCall, Fields, try_path
<1>2. LockSame(b, [c EXCEPT !.path = "null"])
  BY DEF LockSame, ReqSame, IsCall, Fields
<1>3. LockSame(b, free_path(c))
  BY DEF LockSame, ReqSame, IsCall, Fields, free_path
<1>4. LockSame(b, fuse_prepare_interrupt(c)) /\ LockSame(b, fuse_finish_interrupt(c))
  BY DEF LockSame, ReqSame, IsCall, Fields, fuse_prepare_interrupt, fuse_finish_interrupt, Use
<1> QED BY <1>1, <1>2, <1>3, <1>4 DEF get_path, get_path_name, get_path_nullok

\* A path that could not be had is not held.
Got(c) == Going(c) /\ (c.err # 0 => c.path # "held")

LEMMA PathGot ==
  ASSUME NEW c, New(c)
  PROVE  Got(get_path(c)) /\ Got(get_path_name(c)) /\ Got(get_path_nullok(c))
<1>1. Got(try_path(c))
  BY DEF New, Got, Going, Held, IsCall, Fields, try_path
<1>2. Got([c EXCEPT !.path = "null"])
  BY DEF New, Got, Going, Held, IsCall, Fields
<1> QED BY <1>1, <1>2 DEF get_path, get_path_name, get_path_nullok

LEMMA PrepareGoing ==
  ASSUME NEW c, Going(c) PROVE Prepared(fuse_prepare_interrupt(c))
BY DEF Going, Prepared, Held, IsCall, Fields, fuse_prepare_interrupt, Use

LEMMA FinishGoing ==
  ASSUME NEW c, Going(c) \/ Prepared(c) PROVE Going(fuse_finish_interrupt(c))
BY DEF Going, Prepared, Held, IsCall, Fields, fuse_finish_interrupt, Use

LEMMA FreeGoing ==
  ASSUME NEW c, Going(c)
  PROVE  Going(free_path(c)) /\ free_path(c).path # "held"
BY DEF Going, Held, IsCall, Fields, free_path

LEMMA FreeAnswered ==
  ASSUME NEW c, Answered(c) PROVE Answered(free_path(c)) /\ free_path(c).held = 0
BY DEF Answered, Held, IsCall, Fields, free_path

\* The calls of a handler that has got its path p, if it has; x is what they made of it.
LEMMA WithinGoing ==
  ASSUME NEW p, NEW x, Going(p), p.err = 0 => EndSame(fuse_prepare_interrupt(p), x)
  PROVE  Going(fuse_finish_interrupt(IF p.err = 0 THEN x ELSE p))
<1>1. CASE p.err = 0
  <2>1. Prepared(x)
    BY <1>1, PrepareGoing, GoingSame
  <2> QED BY <1>1, <2>1, FinishGoing
<1>2. CASE p.err # 0
  BY <1>2, FinishGoing
<1> QED BY <1>1, <1>2

LEMMA WithinLock ==
  ASSUME NEW b, NEW p, NEW x, LockSame(b, p),
         p.err = 0 => LockSame(fuse_prepare_interrupt(p), x)
  PROVE  LockSame(b, fuse_finish_interrupt(IF p.err = 0 THEN x ELSE p))
<1>1. p.err = 0 => LockSame(b, x)
  BY PathLock, LockTrans
<1>2. LockSame(b, IF p.err = 0 THEN x ELSE p)
  BY <1>1
<1> QED BY <1>2, PathLock

LEMMA WithPathReady ==
  ASSUME NEW b, NEW p, NEW x, LockSame(b, p), Going(p),
         p.err = 0 => Same(fuse_prepare_interrupt(p), x)
  PROVE  Ready(b, free_path(fuse_finish_interrupt(IF p.err = 0 THEN x ELSE p)))
<1> DEFINE y == fuse_finish_interrupt(IF p.err = 0 THEN x ELSE p)
<1>1. Going(y)
  BY WithinGoing DEF Same
<1>2. LockSame(b, y)
  BY WithinLock DEF Same
<1> HIDE DEF y
<1>3. Ready(b, free_path(y))
  BY <1>1, <1>2, FreeGoing, PathLock DEF Ready
<1> QED BY <1>3 DEF y

LEMMA PreparedCall ==
  ASSUME NEW p, Going(p)
  PROVE  Same(fuse_prepare_interrupt(p), fuse_prepare_interrupt(p))
BY PrepareGoing, SameSelf DEF Prepared

---------------------------------------------------------------------------
(* Answers *)

LEMMA ReadySame == ASSUME NEW b, NEW c, NEW d, Ready(b, c), Same(c, d) PROVE Ready(b, d)
<1>1. LockSame(b, d)
  BY LockTrans DEF Ready, Same
<1>2. Going(d) /\ d.path # "held"
  BY GoingSame DEF Ready, Same, EndSame
<1> QED BY <1>1, <1>2 DEF Ready

LEMMA RepliesEnded ==
  ASSUME NEW b, NEW c, Ready(b, c)
  PROVE  /\ Ended(b, ReplyLink(c)) /\ Ended(b, ReplyBmap(c)) /\ Ended(b, ReplyPoll(c))
         /\ Ended(b, ReplyStatfs(c)) /\ Ended(b, ReplyValue(c)) /\ Ended(b, ReplySize(c))
         /\ Ended(b, ReplyWrite(c)) /\ Ended(b, ReplyLock(c)) /\ Ended(b, DirAnswer(c))
BY ReplyEnded
   DEF ReplyLink, ReplyBmap, ReplyPoll, ReplyStatfs, ReplyValue, ReplySize, ReplyWrite, ReplyLock,
       DirAnswer, reply_err, fuse_reply_err, fuse_reply_readlink, fuse_reply_bmap,
       fuse_reply_poll, fuse_reply_statfs, fuse_reply_buf, fuse_reply_xattr, fuse_reply_write,
       fuse_reply_lock

LEMMA ReplyDataEnded == ASSUME NEW b, NEW c, Ready(b, c) PROVE Ended(b, ReplyData(c))
<1>1. ASSUME NEW x PROVE Ready(b, [c EXCEPT !.io = x])
  <2>1. Same(c, [c EXCEPT !.io = x])
    BY DEF Ready, Going, Same, LockSame, EndSame, ReqSame, IsCall, Fields
  <2> QED BY <2>1, ReadySame
<1>2. \A d : Ready(b, d) => Ended(b, DataSent(d))
  BY ReplyEnded DEF DataSent, fuse_reply_err
<1>3. Ended(b, fuse_reply_data(c))
  BY <1>1, <1>2 DEF fuse_reply_data
<1> QED BY <1>3, ErrEnded DEF ReplyData

LEMMA AutoStatSame == ASSUME NEW b, NEW c, Same(b, c) PROVE Same(b, AutoStat(c))
BY DEF AutoStat, update_stat, Same, LockSame, EndSame, ReqSame, IsCall, Fields

LEMMA ReplyAttrEnded == ASSUME NEW b, NEW c, Ready(b, c) PROVE Ended(b, ReplyAttr(c))
<1>1. Same(c, c)
  BY SameSelf DEF Ready, Going
<1>2. Ready(b, AutoStat(c))
  BY <1>1, AutoStatSame, ReadySame
<1> QED BY <1>2, ReplyEnded, ErrEnded DEF ReplyAttr, fuse_reply_attr

LEMMA ForgetNodeSame ==
  ASSUME NEW b, NEW c, Same(b, c) PROVE Same(b, forget_node(c))
BY DEF forget_node, Same, LockSame, EndSame, ReqSame, IsCall, Fields

\* An answer may be followed by what undoes it.
LEMMA EndedSame == ASSUME NEW b, NEW c, NEW d, Ended(b, c), Same(c, d) PROVE Ended(b, d)
<1>1. LockSame(b, d)
  BY LockTrans DEF Ended, Same
<1>2. Answered(d) /\ d.held = 0
  BY AnsweredSame DEF Ended, Same, EndSame
<1> QED BY <1>1, <1>2 DEF Ended

LEMMA ReplyEntryEnded == ASSUME NEW b, NEW c, Ready(b, c) PROVE Ended(b, reply_entry(c))
<1> DEFINE d == fuse_reply_entry(c)
<1>1. Ended(b, d)
  BY ReplyEnded DEF fuse_reply_entry
<1> HIDE DEF d
<1>2. Ended(b, forget_node(d))
  <2>1. Same(d, d)
    BY <1>1, SameSelf DEF Ended, Answered
  <2> QED BY <1>1, <2>1, ForgetNodeSame, EndedSame
<1> QED BY <1>1, <1>2, ErrEnded DEF reply_entry, d

---------------------------------------------------------------------------
(* Handlers that call one function with a path *)

\* A handler gets its path.
LEMMA PathStart ==
  ASSUME NEW c, New(c)
  PROVE  /\ LockSame(c, get_path(c)) /\ Got(get_path(c)) /\ Going(get_path(c))
         /\ LockSame(c, get_path_name(c)) /\ Got(get_path_name(c)) /\ Going(get_path_name(c))
         /\ LockSame(c, get_path_nullok(c)) /\ Got(get_path_nullok(c))
         /\ Going(get_path_nullok(c)) /\ Ready(c, c) /\ LockSame(c, c)
<1>1. LockSame(c, c)
  BY SameSelf DEF New, Going, Same
<1> QED BY <1>1, PathGot, PathLock DEF Got, Ready, New

LEMMA PathHandlersEnded ==
  ASSUME NEW c, New(c)
  PROVE  /\ Ended(c, fuse_lib_access(c)) /\ Ended(c, fuse_lib_readlink(c))
         /\ Ended(c, fuse_lib_setxattr(c)) /\ Ended(c, fuse_lib_removexattr(c))
         /\ Ended(c, fuse_lib_bmap(c))
         /\ Ready(c, common_getxattr(c)) /\ Ready(c, common_listxattr(c))
<1> DEFINE p == get_path(c)
           q == fuse_prepare_interrupt(p)
<1>1. LockSame(c, p) /\ Going(p) /\ Same(q, q)
  BY PathStart, PreparedCall
<1>2. /\ Same(q, fuse_fs_access(q)) /\ Same(q, fuse_fs_readlink(q)) /\ Same(q, fuse_fs_setxattr(q))
      /\ Same(q, fuse_fs_removexattr(q)) /\ Same(q, fuse_fs_bmap(q))
      /\ Same(q, fuse_fs_getxattr(q)) /\ Same(q, fuse_fs_listxattr(q))
  BY <1>1, SimpleFsSame, OtherFsSame
<1> HIDE DEF p
<1>3. /\ Ready(c, WithPath(p, fuse_fs_access)) /\ Ready(c, WithPath(p, fuse_fs_readlink))
      /\ Ready(c, WithPath(p, fuse_fs_setxattr)) /\ Ready(c, WithPath(p, fuse_fs_removexattr))
      /\ Ready(c, WithPath(p, fuse_fs_bmap))
      /\ Ready(c, WithPath(p, fuse_fs_getxattr)) /\ Ready(c, WithPath(p, fuse_fs_listxattr))
  BY <1>1, <1>2, WithPathReady DEF WithPath, Within
<1> QED BY <1>3, ErrEnded, RepliesEnded
        DEF p, fuse_lib_access, fuse_lib_readlink, fuse_lib_setxattr, fuse_lib_removexattr,
            fuse_lib_bmap, common_getxattr, common_listxattr

LEMMA HandleHandlersEnded ==
  ASSUME NEW c, New(c)
  PROVE  /\ Ended(c, fuse_lib_fsync(c)) /\ Ended(c, fuse_lib_fallocate(c))
         /\ Ended(c, fuse_lib_flock(c)) /\ Ended(c, fuse_lib_fsyncdir(c))
         /\ Ended(c, fuse_lib_poll(c)) /\ Ended(c, fuse_lib_read(c))
         /\ Ended(c, fuse_lib_write_buf(c))
<1> DEFINE p == get_path_nullok(c)
           q == fuse_prepare_interrupt(p)
<1>1. LockSame(c, p) /\ Going(p) /\ Same(q, q)
  BY PathStart, PreparedCall
<1>2. /\ Same(q, fuse_fs_fsync(q)) /\ Same(q, fuse_fs_fallocate(q)) /\ Same(q, fuse_fs_flock(q))
      /\ Same(q, fuse_fs_fsyncdir(q)) /\ Same(q, fuse_fs_poll(q))
      /\ Same(q, fuse_fs_read_buf(q)) /\ Same(q, fuse_fs_write_buf(q))
  BY <1>1, SimpleFsSame, ReadBufSame, WriteBufSame
<1> HIDE DEF p
<1>3. /\ Ready(c, WithPath(p, fuse_fs_fsync)) /\ Ready(c, WithPath(p, fuse_fs_fallocate))
      /\ Ready(c, WithPath(p, fuse_fs_flock)) /\ Ready(c, WithPath(p, fuse_fs_fsyncdir))
      /\ Ready(c, WithPath(p, fuse_fs_poll)) /\ Ready(c, WithPath(p, fuse_fs_read_buf))
      /\ Ready(c, WithPath(p, fuse_fs_write_buf))
  BY <1>1, <1>2, WithPathReady DEF WithPath, Within
<1> QED BY <1>3, ErrEnded, RepliesEnded, ReplyDataEnded
        DEF p, fuse_lib_fsync, fuse_lib_fallocate, fuse_lib_flock, fuse_lib_fsyncdir,
            fuse_lib_poll, fuse_lib_read, fuse_lib_write_buf

LEMMA XattrEnded ==
  ASSUME NEW c, New(c) PROVE Ended(c, fuse_lib_getxattr(c)) /\ Ended(c, fuse_lib_listxattr(c))
<1>1. Ready(c, c) /\ Ready(c, common_getxattr(c)) /\ Ready(c, common_listxattr(c))
  BY PathStart, PathHandlersEnded
<1> QED BY <1>1, RepliesEnded, ErrEnded DEF fuse_lib_getxattr, fuse_lib_listxattr

LEMMA StatfsEnded == ASSUME NEW c, New(c) PROVE Ended(c, fuse_lib_statfs(c))
<1> DEFINE p == IF c.req.root THEN c ELSE get_path(c)
           q == fuse_prepare_interrupt(p)
<1>1. LockSame(c, p) /\ Going(p)
  BY PathStart DEF New
<1> HIDE DEF p
<1>2. Same(q, fuse_fs_statfs(q))
  BY <1>1, PreparedCall, SimpleFsSame
<1>3. Ready(c, WithPath(p, fuse_fs_statfs))
  BY <1>1, <1>2, WithPathReady DEF WithPath, Within
<1> QED BY <1>3, RepliesEnded DEF p, fuse_lib_statfs

LEMMA AttrSame == ASSUME NEW b, NEW c, Same(b, c) PROVE Same(b, Attr(c))
BY SimpleFsSame, OtherFsSame DEF Attr

LEMMA GetattrEnded == ASSUME NEW c, New(c) PROVE Ended(c, fuse_lib_getattr(c))
<1> DEFINE p == IF c.req.fi /\ Registered(c, "fgetattr") THEN get_path_nullok(c) ELSE get_path(c)
           q == fuse_prepare_interrupt(p)
<1>1. LockSame(c, p) /\ Going(p)
  BY PathStart
<1> HIDE DEF p
<1>2. Same(q, Attr(q))
  BY <1>1, PreparedCall, AttrSame
<1>3. Ready(c, WithPath(p, Attr))
  BY <1>1, <1>2, WithPathReady DEF WithPath, Within
<1> QED BY <1>3, ReplyAttrEnded DEF p, fuse_lib_getattr

LEMMA SetAttrSame == ASSUME NEW b, NEW c, Same(b, c) PROVE Same(b, SetAttr(c))
<1> DEFINE c1 == If(c, "mode", fuse_fs_chmod)
           c2 == If(c1, "owner", fuse_fs_chown)
           c3 == If(c2, "size", Truncate)
           c4 == If(c3, "time", fuse_fs_utimens)
<1>1. Same(b, c1)
  BY SimpleFsSame DEF If
<1> HIDE DEF c1
<1>2. Same(b, c2)
  BY <1>1, SimpleFsSame DEF If
<1> HIDE DEF c2
<1>3. Same(b, c3)
  BY <1>2, SimpleFsSame, OtherFsSame DEF If, Truncate
<1> HIDE DEF c3
<1>4. Same(b, c4)
  BY <1>3, SimpleFsSame DEF If
<1> HIDE DEF c4
<1>5. SetAttr(c) = Attr(c4)
  BY DEF SetAttr, c1, c2, c3, c4
<1> QED BY <1>4, <1>5, AttrSame

LEMMA SetattrEnded == ASSUME NEW c, New(c) PROVE Ended(c, fuse_lib_setattr(c))
<1> DEFINE p == IF /\ c.req.valid = {"size"} /\ c.req.fi
                   /\ Registered(c, "ftruncate") /\ Registered(c, "fgetattr")
                THEN get_path_nullok(c) ELSE get_path(c)
           q == fuse_prepare_interrupt(p)
<1>1. LockSame(c, p) /\ Going(p)
  BY PathStart
<1>2. fuse_lib_setattr(c) = ReplyAttr(WithPath(p, SetAttr))
  BY DEF fuse_lib_setattr
<1> HIDE DEF p
<1>3. Same(q, SetAttr(q))
  BY <1>1, PreparedCall, SetAttrSame
<1>4. Ready(c, WithPath(p, SetAttr))
  BY <1>1, <1>3, WithPathReady DEF WithPath, Within
<1> QED BY <1>2, <1>4, ReplyAttrEnded

---------------------------------------------------------------------------
(* New names *)

LEMMA LookupSame ==
  ASSUME NEW b, NEW c, Same(b, c), NEW fi PROVE Same(b, lookup_path(c, fi))
<1>1. ASSUME NEW d, Same(b, d) PROVE Same(b, do_lookup(d))
  <2>1. Same(b, [d EXCEPT !.look = @ + 1, !.ino = TRUE])
    BY <1>1 DEF Same, LockSame, EndSame, ReqSame, IsCall, Fields
  <2> QED BY <1>1, <2>1, AutoStatSame, FailsSame DEF do_lookup, Unless
<1> QED BY <1>1, SimpleFsSame, OtherFsSame DEF lookup_path

LEMMA QuietReleaseSame ==
  ASSUME NEW b, NEW c, Same(b, c)
  PROVE  Same(b, Quiet(c, fuse_fs_release)) /\ Same(b, Quiet(c, fuse_fs_releasedir))
BY FailsSame, SimpleFsSame, QuietSame DEF Quiet

LEMMA NameCallsSame ==
  ASSUME NEW b, NEW c, Same(b, c)
  PROVE  /\ Same(b, LookupCalls(c)) /\ Same(b, MkdirCalls(c)) /\ Same(b, SymlinkCalls(c))
         /\ Same(b, MknodCalls(c)) /\ Same(b, CreateCalls(c))
<1>1. Same(b, LookupCalls(c))
  <2>1. ASSUME NEW d, Same(b, d) PROVE Same(b, Negative(d))
    BY <2>1 DEF Negative, Same, LockSame, EndSame, ReqSame, IsCall, Fields
  <2> QED BY <2>1, LookupSame DEF LookupCalls
<1>2. Same(b, MkdirCalls(c)) /\ Same(b, SymlinkCalls(c))
  BY SimpleFsSame, LookupSame DEF MkdirCalls, SymlinkCalls
<1>3. Same(b, MknodCalls(c))
  <2>1. ASSUME NEW d, Same(b, d) PROVE Same(b, Mknod(d))
    BY <2>1, FailsSame, SimpleFsSame, LookupSame DEF Mknod
  <2>2. ASSUME NEW d, Same(b, d) PROVE Same(b, CreateFile(d))
    BY <2>2, LookupSame, QuietReleaseSame DEF CreateFile
  <2> QED BY <2>1, <2>2, SimpleFsSame, FailsSame DEF MknodCalls
<1>4. Same(b, CreateCalls(c))
  <2>1. ASSUME NEW d, Same(b, d) PROVE Same(b, NotRegular(d))
    BY <2>1, QuietReleaseSame, ForgetNodeSame, FailsSame DEF NotRegular
  <2>2. ASSUME NEW d, Same(b, d) PROVE Same(b, Created(d))
    BY <2>1, <2>2, QuietReleaseSame DEF Created
  <2>3. ASSUME NEW d, Same(b, d) PROVE Same(b, FindCreated(d))
    BY <2>2, <2>3, LookupSame DEF FindCreated
  <2> QED BY <2>3, SimpleFsSame DEF CreateCalls
<1> QED BY <1>1, <1>2, <1>3, <1>4

LEMMA NameHandlersEnded ==
  ASSUME NEW c, New(c)
  PROVE  /\ Ended(c, fuse_lib_lookup(c)) /\ Ended(c, fuse_lib_mkdir(c))
         /\ Ended(c, fuse_lib_symlink(c)) /\ Ended(c, fuse_lib_mknod(c))
<1> DEFINE p == get_path_name(c)
           q == fuse_prepare_interrupt(p)
<1>1. LockSame(c, p) /\ Going(p) /\ Same(q, q)
  BY PathStart, PreparedCall
<1> HIDE DEF p
<1>2. /\ Same(q, LookupCalls(q)) /\ Same(q, MkdirCalls(q)) /\ Same(q, SymlinkCalls(q))
      /\ Same(q, MknodCalls(q))
  BY <1>1, NameCallsSame
<1>3. /\ Ready(c, WithPath(p, LookupCalls)) /\ Ready(c, WithPath(p, MkdirCalls))
      /\ Ready(c, WithPath(p, SymlinkCalls)) /\ Ready(c, WithPath(p, MknodCalls))
  BY <1>1, <1>2, WithPathReady DEF WithPath, Within
<1>4. Ready(c, Fails(c, ESTALE))
  BY PathStart, FailsSame, SameSelf DEF Ready, Same, LockSame, EndSame, ReqSame, New, Going, Held,
     IsCall, Fields, Fails
<1> QED BY <1>3, <1>4, ReplyEntryEnded
        DEF p, fuse_lib_lookup, fuse_lib_mkdir, fuse_lib_symlink, fuse_lib_mknod

---------------------------------------------------------------------------
(* Handlers that answer before they give the path back *)

Open_(b, c) == LockSame(b, c) /\ Going(c)
Said(b, c) == LockSame(b, c) /\ Answered(c)

LEMMA ReplySaid ==
  ASSUME NEW b, NEW c, Open_(b, c), NEW kind, NEW e
  PROVE  Said(b, send_reply_iov(c, kind, e))
BY AnswerLock, AnswerEnd DEF Open_, Said

LEMMA SaidFree == ASSUME NEW b, NEW c, Said(b, c) PROVE Ended(b, free_path(c))
BY FreeAnswered, PathLock DEF Said, Ended

LEMMA SaidSame == ASSUME NEW b, NEW c, NEW d, Said(b, c), Same(c, d) PROVE Said(b, d)
BY LockTrans, AnsweredSame DEF Said, Same

LEMMA CountOpen ==
  ASSUME NEW b, NEW c, Open_(b, c), NEW n PROVE Open_(b, [c EXCEPT !.count = n])
<1> DEFINE d == [c EXCEPT !.count = n]
<1>1. IsCall(c)
  BY DEF Open_, Going
<1>2. Same(c, d)
  BY <1>1 DEF Same, LockSame, EndSame, ReqSame, IsCall, Fields
<1> HIDE DEF d
<1>3. Open_(b, d)
  BY <1>2, LockTrans, GoingSame DEF Open_, Same
<1> QED BY <1>3 DEF d

LEMMA DoReleaseSame ==
  ASSUME NEW b, NEW c, Same(b, c) PROVE Same(b, fuse_do_release(c))
<1>1. ASSUME NEW d, Same(b, d), NEW n PROVE Same(b, [d EXCEPT !.count = n])
  BY <1>1 DEF Same, LockSame, EndSame, ReqSame, IsCall, Fields
<1> QED BY <1>1, QuietReleaseSame DEF fuse_do_release

LEMMA AnswersSaid ==
  ASSUME NEW b, NEW c, Open_(b, c)
  PROVE  Said(b, CreateAnswer(c)) /\ Said(b, OpenAnswer(c)) /\ Said(b, OpendirAnswer(c))
<1>1. Said(b, reply_err(c)) /\ Said(b, fuse_reply_open(c))
  BY ReplySaid DEF reply_err, fuse_reply_err, fuse_reply_open
<1> DEFINE d == fuse_reply_create([c EXCEPT !.count = @ + 1])
           e == fuse_reply_open([c EXCEPT !.count = @ + 1])
           f == fuse_reply_open(c)
           g == reply_err(c)
<1>2. Said(b, d) /\ Said(b, e)
  BY CountOpen, ReplySaid DEF fuse_reply_create, fuse_reply_open
<1>3. \A x : Said(b, x) => Same(x, x)
  BY SameSelf DEF Said, Answered
<1>4. ASSUME NEW x, Said(b, x)
      PROVE  /\ Said(b, fuse_do_release(x)) /\ Said(b, forget_node(fuse_do_release(x)))
             /\ Said(b, FreeDh(x)) /\ Said(b, FreeDh(Quiet(x, fuse_fs_releasedir)))
  <2>1. Same(x, fuse_do_release(x)) /\ Same(x, forget_node(fuse_do_release(x)))
    BY <1>3, <1>4, DoReleaseSame, ForgetNodeSame
  <2>2. \A y : Same(x, y) => Same(x, FreeDh(y))
    BY DEF FreeDh, Same, LockSame, EndSame, ReqSame, IsCall, Fields
  <2>3. Same(x, FreeDh(x)) /\ Same(x, FreeDh(Quiet(x, fuse_fs_releasedir)))
    BY <1>3, <1>4, <2>2, QuietReleaseSame
  <2> QED BY <1>4, <2>1, <2>3, SaidSame
<1>5. CreateAnswer(c) \in {g, forget_node(fuse_do_release(d)), d}
  BY DEF CreateAnswer
<1>6. OpenAnswer(c) \in {g, fuse_do_release(e), e}
  BY DEF OpenAnswer
<1>7. OpendirAnswer(c) \in {FreeDh(g), FreeDh(Quiet(f, fuse_fs_releasedir)), f}
  BY DEF OpendirAnswer
<1> HIDE DEF d, e, f, g
<1> QED BY <1>1, <1>2, <1>4, <1>5, <1>6, <1>7 DEF f, g

LEMMA FsOpenSame == ASSUME NEW b, NEW c, Same(b, c) PROVE Same(b, FsOpen(c))
<1>1. ASSUME NEW d, Same(b, d) PROVE Same(b, KeepCache(d))
  BY <1>1 DEF KeepCache, Same, LockSame, EndSame, ReqSame, IsCall, Fields
<1>2. ASSUME NEW a, NEW d, Same(b, d) PROVE Same(b, Rechecked(a, d))
  BY <1>2 DEF Rechecked, update_stat, Same, LockSame, EndSame, ReqSame, IsCall, Fields
<1>3. ASSUME NEW d, Same(b, d) PROVE Same(b, open_auto_cache(d))
  BY <1>1, <1>2, <1>3, FailsSame, OtherFsSame DEF open_auto_cache
<1> QED BY <1>3, SimpleFsSame DEF FsOpen, OpenCalls

LEMMA WithinOpen ==
  ASSUME NEW b, NEW p, NEW x, LockSame(b, p), Going(p),
         p.err = 0 => Same(fuse_prepare_interrupt(p), x)
  PROVE  Open_(b, fuse_finish_interrupt(IF p.err = 0 THEN x ELSE p))
BY WithinGoing, WithinLock DEF Open_, Same

LEMMA OpenHandlersEnded ==
  ASSUME NEW c, New(c)
  PROVE  Ended(c, fuse_lib_create(c)) /\ Ended(c, fuse_lib_open(c))
<1>1. Ended(c, fuse_lib_create(c))
  <2> DEFINE p == get_path_name(c)
             q == fuse_prepare_interrupt(p)
  <2>1. LockSame(c, p) /\ Going(p) /\ Same(q, q)
    BY PathStart, PreparedCall
  <2> HIDE DEF p
  <2>2. Same(q, CreateCalls(q))
    BY <2>1, NameCallsSame
  <2>3. Open_(c, Within(p, CreateCalls))
    BY <2>1, <2>2, WithinOpen DEF Within
  <2> QED BY <2>3, AnswersSaid, SaidFree DEF p, fuse_lib_create
<1>2. Ended(c, fuse_lib_open(c))
  <2> DEFINE p == get_path(c)
             q == fuse_prepare_interrupt(p)
  <2>1. LockSame(c, p) /\ Going(p) /\ Same(q, q)
    BY PathStart, PreparedCall
  <2> HIDE DEF p
  <2>2. Same(q, FsOpen(q))
    BY <2>1, FsOpenSame
  <2>3. Open_(c, Within(p, FsOpen))
    BY <2>1, <2>2, WithinOpen DEF Within
  <2> QED BY <2>3, AnswersSaid, SaidFree DEF p, fuse_lib_open
<1> QED BY <1>1, <1>2

LEMMA IoctlEnded == ASSUME NEW c, New(c) PROVE Ended(c, fuse_lib_ioctl(c))
<1> DEFINE p == get_path_nullok(c)
           q == fuse_prepare_interrupt(p)
<1>1. LockSame(c, p) /\ Going(p) /\ Got(p) /\ Same(q, q) /\ Ready(c, c)
  BY PathStart, PreparedCall
<1>2. fuse_lib_ioctl(c) \in {fuse_reply_err(c, EPERM), fuse_reply_err(c, ENOMEM), IoctlCalls(p)}
  BY DEF fuse_lib_ioctl
<1> HIDE DEF p
<1>3. Ready(c, WithPath(p, fuse_fs_ioctl))
  BY <1>1, SimpleFsSame, WithPathReady DEF WithPath, Within
<1>4. ASSUME NEW d, Ready(c, d) PROVE Ended(c, fuse_reply_ioctl(d))
  <2>1. \A v : Ready(c, [d EXCEPT !.val = v])
    <3>1. \A v : Same(d, [d EXCEPT !.val = v])
      BY <1>4 DEF Ready, Going, Same, LockSame, EndSame, ReqSame, IsCall, Fields
    <3> QED BY <1>4, <3>1, ReadySame
  <2> QED BY <2>1, ReplyEnded DEF fuse_reply_ioctl
<1>5. CASE p.err # 0
  <2>1. Ready(c, p)
    BY <1>1, <1>5 DEF Got, Ready
  <2>2. Ended(c, IoctlCalls(p))
    BY <1>5, <2>1, ErrEnded DEF IoctlCalls
  <2> QED BY <1>1, <1>2, <2>2, ErrEnded
<1>6. CASE p.err = 0
  <2>1. Ended(c, IoctlCalls(p))
    BY <1>3, <1>4, <1>6 DEF IoctlCalls
  <2> QED BY <1>1, <1>2, <2>1, ErrEnded
<1> QED BY <1>5, <1>6

---------------------------------------------------------------------------
(* Directories *)

\* What a change of the handle keeps; h is the new handle.
LEMMA HandleSame ==
  ASSUME NEW b, NEW c, Same(b, c), NEW h, DirOk(c.dh) => DirOk(h), NEW n, NEW s
  PROVE  /\ Same(b, [c EXCEPT !.dh = h]) /\ Same(b, [c EXCEPT !.dh = h, !.stop = s])
         /\ Same(b, [c EXCEPT !.stop = s]) /\ Same(b, [c EXCEPT !.dhs = n])
         /\ Same(b, [c EXCEPT !.look = n])
BY DEF Same, LockSame, EndSame, ReqSame, IsCall, Fields

LEMMA HandleOk ==
  ASSUME NEW h, DirOk(h), NEW x
  PROVE  /\ DirOk([h EXCEPT !.error = x]) /\ DirOk([h EXCEPT !.size = x])
         /\ DirOk([h EXCEPT !.filled = x]) /\ DirOk([h EXCEPT !.needlen = x])
         /\ x \in STRING => DirOk([h EXCEPT !.list = Append(@, x)])
         /\ \A n : x \in Entry => DirOk([h EXCEPT !.contents = Append(@, x), !.len = n])
         /\ \A n : DirOk([h EXCEPT !.len = n, !.contents = <<>>])
         /\ DirOk(NewDh)
<1> USE DEF DirOk
<1>1. DirOk([h EXCEPT !.error = x]) /\ DirOk([h EXCEPT !.size = x])
  OBVIOUS
<1>2. DirOk([h EXCEPT !.filled = x]) /\ DirOk([h EXCEPT !.needlen = x])
  OBVIOUS
<1>3. x \in STRING => DirOk([h EXCEPT !.list = Append(@, x)])
  OBVIOUS
<1>4. \A n : x \in Entry => DirOk([h EXCEPT !.contents = Append(@, x), !.len = n])
  OBVIOUS
<1>5. \A n : DirOk([h EXCEPT !.len = n, !.contents = <<>>])
  OBVIOUS
<1>6. DirOk(NewDh)
  BY DEF NewDh
<1> QED BY <1>1, <1>2, <1>3, <1>4, <1>5, <1>6

LEMMA DhErrorSame ==
  ASSUME NEW b, NEW c, Same(b, c), NEW e PROVE Same(b, DhError(c, e)) /\ Same(b, Stops(c))
<1> DEFINE h == [c.dh EXCEPT !.error = e]
<1>1. DirOk(c.dh) => DirOk(h)
  BY HandleOk
<1>2. DhError(c, e) = [c EXCEPT !.dh = h, !.stop = TRUE]
  BY DEF DhError
<1> HIDE DEF h
<1>3. Same(b, [c EXCEPT !.dh = h, !.stop = TRUE]) /\ Same(b, [c EXCEPT !.stop = TRUE])
  BY <1>1, HandleSame
<1> QED BY <1>2, <1>3 DEF Stops

LEMMA ExtendSame ==
  ASSUME NEW b, NEW c, Same(b, c), NEW n PROVE Same(b, extend_contents(c, n))
<1>1. ASSUME NEW k PROVE Same(b, [c EXCEPT !.dh.size = k])
  <2> DEFINE h == [c.dh EXCEPT !.size = k]
  <2>1. DirOk(c.dh) => DirOk(h)
    BY HandleOk
  <2>2. [c EXCEPT !.dh.size = k] = [c EXCEPT !.dh = h]
    OBVIOUS
  <2> HIDE DEF h
  <2> QED BY <2>1, <2>2, HandleSame
<1> QED BY <1>1, DhErrorSame DEF extend_contents

\* An entry the file system passes, and one in the reply.
Passing == [name: STRING, off: Nat, plus: BOOLEAN, bad: BOOLEAN]

LEMMA AppendSame ==
  ASSUME NEW b, NEW c, Same(b, c), NEW e \in Entry, NEW plus
  PROVE  Same(b, Append1(c, e, plus))
<1> DEFINE h == [c.dh EXCEPT !.contents = Append(@, e), !.len = @ + EntLen(plus)]
<1>1. DirOk(c.dh) => DirOk(h)
  BY HandleOk
<1>2. Append1(c, e, plus) = [c EXCEPT !.dh = h]
  BY DEF Append1
<1> HIDE DEF h
<1>3. Same(b, [c EXCEPT !.dh = h])
  BY <1>1, HandleSame
<1> QED BY <1>2, <1>3

LEMMA NotFilledSame ==
  ASSUME NEW b, NEW c, Same(b, c), NEW x
  PROVE  Same(b, [c EXCEPT !.dh.filled = x]) /\ Same(b, [c EXCEPT !.dh.needlen = x])
<1>1. Same(b, [c EXCEPT !.dh.filled = x])
  <2> DEFINE h == [c.dh EXCEPT !.filled = x]
  <2>1. DirOk(c.dh) => DirOk(h)
    BY HandleOk
  <2>2. [c EXCEPT !.dh.filled = x] = [c EXCEPT !.dh = h]
    OBVIOUS
  <2> HIDE DEF h
  <2> QED BY <2>1, <2>2, HandleSame
<1>2. Same(b, [c EXCEPT !.dh.needlen = x])
  <2> DEFINE h == [c.dh EXCEPT !.needlen = x]
  <2>1. DirOk(c.dh) => DirOk(h)
    BY HandleOk
  <2>2. [c EXCEPT !.dh.needlen = x] = [c EXCEPT !.dh = h]
    OBVIOUS
  <2> HIDE DEF h
  <2> QED BY <2>1, <2>2, HandleSame
<1> QED BY <1>1, <1>2

LEMMA WithOffsetSame ==
  ASSUME NEW b, NEW c, Same(b, c), NEW e \in Entry, NEW plus
  PROVE  Same(b, WithOffset(c, e, plus))
<1>1. ASSUME NEW d, Same(b, d) PROVE Same(b, Direct(d, e, plus))
  <2>1. Same(b, [d EXCEPT !.dh.filled = FALSE])
    BY <1>1, NotFilledSame
  <2> QED BY <1>1, <2>1, DhErrorSame, AppendSame DEF Direct
<1> QED BY <1>1, ExtendSame, DhErrorSame DEF WithOffset

LEMMA FillerSame ==
  ASSUME NEW b, NEW c, Same(b, c), NEW x \in Passing PROVE Same(b, Filler(c, x))
<1>1. /\ [name |-> x.name, off |-> x.off, ino |-> FALSE] \in Entry
      /\ [name |-> x.name, off |-> x.off, ino |-> x.plus /\ x.name # "dot"] \in Entry
      /\ x.name \in STRING
  BY DEF Passing, Entry
<1>2. Same(b, NoOffset(c, x.name))
  <2>1. Same(b, [c EXCEPT !.dh.list = Append(@, x.name)])
    <3> DEFINE h == [c.dh EXCEPT !.list = Append(@, x.name)]
    <3>1. DirOk(c.dh) => DirOk(h)
      BY <1>1, HandleOk
    <3>2. [c EXCEPT !.dh.list = Append(@, x.name)] = [c EXCEPT !.dh = h]
      OBVIOUS
    <3> HIDE DEF h
    <3> QED BY <3>1, <3>2, HandleSame
  <2> QED BY <2>1, DhErrorSame DEF NoOffset, fuse_add_direntry_to_dh
<1>3. Same(b, fill_dir(c, x))
  BY <1>1, <1>2, WithOffsetSame, DhErrorSame DEF fill_dir
<1>4. Same(b, PlusLookup(c, x))
  <2>1. Same(b, [c EXCEPT !.look = @ + 1])
    BY DEF Same, LockSame, EndSame, ReqSame, IsCall, Fields
  <2> QED BY <2>1, DhErrorSame DEF PlusLookup
<1>5. Same(b, fill_dir_plus(c, x))
  BY <1>1, <1>2, <1>4, WithOffsetSame, DhErrorSame DEF fill_dir_plus
<1> QED BY <1>3, <1>5 DEF Filler

\* A read of a directory asks for a place in it.
DirReq(c) == c.env.listing \in Seq(STRING) /\ c.req.off \in Nat

LEMMA EntriesPass ==
  ASSUME NEW c, DirReq(c)
  PROVE  /\ Len(Entries(c)) \in Nat
         /\ \A i \in 1 .. Len(Entries(c)) : Entries(c)[i] \in Passing
<1> DEFINE own == c.conf.mode \in {"offset", "offplus"}
           first == IF own THEN c.req.off + 1 ELSE 1
           off(i) == CASE own -> i [] c.conf.mode = "mixed" -> (i % 2) * i [] OTHER -> 0
           n == Max2(0, Len(c.env.listing) - first + 1)
           e(k) == [name |-> c.env.listing[first + k - 1], off |-> off(first + k - 1),
                    plus |-> c.conf.mode = "offplus", bad |-> c.conf.mode = "flags"]
<1>1. Entries(c) = [k \in 1 .. n |-> e(k)]
  BY DEF Entries
<1>2. first \in Nat /\ first >= 1 /\ Len(c.env.listing) \in Nat
  BY DEF DirReq
<1>3. n \in Nat
  BY <1>2 DEF Max2
<1>4. ASSUME NEW k \in 1 .. n PROVE e(k) \in Passing
  <2> DEFINE i == first + k - 1
  <2>1. i \in Nat /\ i \in 1 .. Len(c.env.listing)
    BY <1>2, <1>4, SMTT(30) DEF Max2
  <2>2. c.env.listing[i] \in STRING
    BY <2>1 DEF DirReq
  <2>3. off(i) \in Nat
    <3>1. i % 2 = 0 \/ i % 2 = 1
      BY <2>1
    <3>2. (i % 2) * i \in Nat
      BY <2>1, <3>1
    <3> HIDE DEF i
    <3> QED BY <2>1, <3>2
  <2> QED BY <2>2, <2>3 DEF Passing
<1> HIDE DEF n, e
<1>5. Len(Entries(c)) = n
  BY <1>1, <1>3
<1> QED BY <1>1, <1>3, <1>4, <1>5

\* w is what the filler makes of c with the first n of es.
IsFill(w, c, es, n) == w = [i \in 0 .. n |-> IF i = 0 THEN c ELSE Filler(w[i - 1], es[i])]

LEMMA FillExists == ASSUME NEW c, NEW es PROVE \A n \in Nat : \E w : IsFill(w, c, es, n)
<1> DEFINE T == {n \in Nat : \E w : IsFill(w, c, es, n)}
<1>1. 0 \in T
  <2> DEFINE w == [i \in 0 .. 0 |-> c]
  <2>1. w = [i \in 0 .. 0 |-> IF i = 0 THEN c ELSE Filler(w[i - 1], es[i])]
    OBVIOUS
  <2> HIDE DEF w
  <2> QED BY <2>1 DEF IsFill
<1>2. ASSUME NEW n \in Nat, n \in T PROVE n + 1 \in T
  <2>1. PICK w : IsFill(w, c, es, n)
    BY <1>2
  <2> DEFINE v == [i \in 0 .. n + 1 |-> IF i <= n THEN w[i] ELSE Filler(w[n], es[n + 1])]
  <2>2. v[0] = c
    BY <2>1 DEF IsFill
  <2>3. ASSUME NEW i \in 1 .. n + 1 PROVE v[i] = Filler(v[i - 1], es[i])
    <3>1. CASE i <= n
      <4>1. w[i] = Filler(w[i - 1], es[i])
        BY <2>1, <3>1 DEF IsFill
      <4>2. v[i] = w[i] /\ v[i - 1] = w[i - 1]
        BY <3>1
      <4> HIDE DEF v
      <4> QED BY <4>1, <4>2
    <3>2. CASE i = n + 1
      <4>1. v[i] = Filler(w[n], es[i]) /\ v[i - 1] = w[n]
        BY <3>2
      <4> HIDE DEF v
      <4> QED BY <4>1
    <3>3. i <= n \/ i = n + 1
      OBVIOUS
    <3> QED BY <3>1, <3>2, <3>3
  <2>4. v = [i \in 0 .. n + 1 |-> v[i]]
    OBVIOUS
  <2> HIDE DEF v
  <2>5. \A i \in 0 .. n + 1 : v[i] = IF i = 0 THEN c ELSE Filler(v[i - 1], es[i])
    BY <2>2, <2>3
  <2>6. v = [i \in 0 .. n + 1 |-> IF i = 0 THEN c ELSE Filler(v[i - 1], es[i])]
    BY <2>4, <2>5
  <2>7. IsFill(v, c, es, n + 1)
    BY <2>6 DEF IsFill
  <2> QED BY <2>7
<1> HIDE DEF T
<1>3. Nat \subseteq T
  BY <1>1, <1>2, NatInd
<1> QED BY <1>3 DEF T

LEMMA FilledSame ==
  ASSUME NEW b, NEW c, Same(b, c), NEW es, Len(es) \in Nat,
         \A i \in 1 .. Len(es) : es[i] \in Passing
  PROVE  Same(b, FilledWith(c, es))
<1> DEFINE w == CHOOSE w : w = [i \in 0 .. Len(es) |->
                                  IF i = 0 THEN c ELSE Filler(w[i - 1], es[i])]
<1>1. FilledWith(c, es) = w[Len(es)]
  BY Zenon DEF FilledWith
<1>2. \E v : v = [i \in 0 .. Len(es) |-> IF i = 0 THEN c ELSE Filler(v[i - 1], es[i])]
  <2>1. PICK v : IsFill(v, c, es, Len(es))
    BY FillExists
  <2>2. v = [i \in 0 .. Len(es) |-> IF i = 0 THEN c ELSE Filler(v[i - 1], es[i])]
    BY <2>1, Zenon DEF IsFill
  <2> QED BY <2>2, Zenon
<1>3. w = [i \in 0 .. Len(es) |-> IF i = 0 THEN c ELSE Filler(w[i - 1], es[i])]
  BY <1>2, Zenon
<1> HIDE DEF w
<1> DEFINE T == {n \in Nat : n <= Len(es) => Same(b, w[n])}
<1>4. w[0] = c /\ \A n \in Nat : n + 1 <= Len(es) => w[n + 1] = Filler(w[n], es[n + 1])
  BY <1>3
<1>5. 0 \in T
  BY <1>4
<1>6. ASSUME NEW n \in Nat, n \in T PROVE n + 1 \in T
  <2>1. CASE n + 1 <= Len(es)
    <3>1. es[n + 1] \in Passing /\ Same(b, w[n])
      BY <1>6, <2>1
    <3>2. Same(b, Filler(w[n], es[n + 1]))
      BY <3>1, FillerSame
    <3> QED BY <1>4, <2>1, <3>2
  <2> QED BY <2>1
<1> HIDE DEF T
<1>7. Nat \subseteq T
  BY <1>5, <1>6, NatInd
<1>8. Same(b, w[Len(es)])
  BY <1>7 DEF T
<1> QED BY <1>1, <1>8

\* w is the reply after the first n names of the list.
IsPart(w, c, n) == w = [i \in 0 .. n |-> IF i = 0 THEN c ELSE FromList(w[i - 1], i)]

LEMMA PartExists == ASSUME NEW c PROVE \A n \in Nat : \E w : IsPart(w, c, n)
<1> DEFINE T == {n \in Nat : \E w : IsPart(w, c, n)}
<1>1. 0 \in T
  <2> DEFINE w == [i \in 0 .. 0 |-> c]
  <2>1. w = [i \in 0 .. 0 |-> IF i = 0 THEN c ELSE FromList(w[i - 1], i)]
    OBVIOUS
  <2> HIDE DEF w
  <2> QED BY <2>1 DEF IsPart
<1>2. ASSUME NEW n \in Nat, n \in T PROVE n + 1 \in T
  <2>1. PICK w : IsPart(w, c, n)
    BY <1>2
  <2> DEFINE v == [i \in 0 .. n + 1 |-> IF i <= n THEN w[i] ELSE FromList(w[n], n + 1)]
  <2>2. v[0] = c
    BY <2>1 DEF IsPart
  <2>3. ASSUME NEW i \in 1 .. n + 1 PROVE v[i] = FromList(v[i - 1], i)
    <3>1. CASE i <= n
      <4>1. w[i] = FromList(w[i - 1], i)
        BY <2>1, <3>1 DEF IsPart
      <4>2. v[i] = w[i] /\ v[i - 1] = w[i - 1]
        BY <3>1
      <4> HIDE DEF v
      <4> QED BY <4>1, <4>2
    <3>2. CASE i = n + 1
      <4>1. v[i] = FromList(w[n], i) /\ v[i - 1] = w[n]
        BY <3>2
      <4> HIDE DEF v
      <4> QED BY <4>1
    <3>3. i <= n \/ i = n + 1
      OBVIOUS
    <3> QED BY <3>1, <3>2, <3>3
  <2>4. v = [i \in 0 .. n + 1 |-> v[i]]
    OBVIOUS
  <2> HIDE DEF v
  <2>5. \A i \in 0 .. n + 1 : v[i] = IF i = 0 THEN c ELSE FromList(v[i - 1], i)
    BY <2>2, <2>3
  <2>6. v = [i \in 0 .. n + 1 |-> IF i = 0 THEN c ELSE FromList(v[i - 1], i)]
    BY <2>4, <2>5
  <2>7. IsPart(v, c, n + 1)
    BY <2>6 DEF IsPart
  <2> QED BY <2>7
<1> HIDE DEF T
<1>3. Nat \subseteq T
  BY <1>1, <1>2, NatInd
<1> QED BY <1>3 DEF T

\* The list is not changed by what is taken from it.
Listed(b, c, l) == Same(b, c) /\ DirOk(c.dh) /\ c.dh.list = l

LEMMA FromListed ==
  ASSUME NEW b, NEW c, NEW l, Listed(b, c, l), NEW i \in 1 .. Len(l)
  PROVE  Listed(b, FromList(c, i), l)
<1> DEFINE e == [name |-> c.dh.list[i], off |-> i, ino |-> FALSE]
<1>1. e \in Entry
  BY DEF Listed, DirOk, Entry
<1> HIDE DEF e
<1>2. Listed(b, Append1(c, e, c.req.plus), l)
  <2>1. Same(b, Append1(c, e, c.req.plus))
    BY <1>1, AppendSame DEF Listed
  <2> DEFINE h == [c.dh EXCEPT !.contents = Append(@, e), !.len = @ + EntLen(c.req.plus)]
  <2>2. DirOk(h) /\ h.list = l
    BY <1>1, HandleOk DEF Listed, DirOk
  <2>3. Append1(c, e, c.req.plus) = [c EXCEPT !.dh = h] /\ IsCall(c)
    BY DEF Append1, Listed, Same, LockSame, ReqSame
  <2> HIDE DEF h
  <2>4. Append1(c, e, c.req.plus).dh = h
    BY <2>3 DEF IsCall, Fields
  <2> QED BY <2>1, <2>2, <2>4 DEF Listed
<1>3. Listed(b, Stops(c), l)
  <2>1. Same(b, Stops(c))
    BY DhErrorSame DEF Listed
  <2>2. Stops(c).dh = c.dh
    BY DEF Stops, Listed, Same, LockSame, ReqSame, IsCall, Fields
  <2> QED BY <2>1, <2>2 DEF Listed
<1> QED BY <1>2, <1>3 DEF FromList, e

LEMMA ListSame ==
  ASSUME NEW b, NEW c, Same(b, c), DirOk(c.dh) PROVE Same(b, ListUpTo(c, Len(c.dh.list)))
<1> DEFINE l == c.dh.list
           k == Len(l)
           w == CHOOSE w : w = [i \in 0 .. k |-> IF i = 0 THEN c ELSE FromList(w[i - 1], i)]
<1>1. ListUpTo(c, k) = w[k]
  BY Zenon DEF ListUpTo
<1>2. k \in Nat
  BY DEF DirOk
<1> HIDE DEF k
<1>3. \E v : v = [i \in 0 .. k |-> IF i = 0 THEN c ELSE FromList(v[i - 1], i)]
  <2>1. PICK v : IsPart(v, c, k)
    BY <1>2, PartExists
  <2>2. v = [i \in 0 .. k |-> IF i = 0 THEN c ELSE FromList(v[i - 1], i)]
    BY <2>1, Zenon DEF IsPart
  <2> QED BY <2>2, Zenon
<1>4. w = [i \in 0 .. k |-> IF i = 0 THEN c ELSE FromList(w[i - 1], i)]
  BY <1>3, Zenon
<1> HIDE DEF w
<1> DEFINE T == {n \in Nat : n <= k => Listed(b, w[n], l)}
<1>5. w[0] = c /\ \A n \in Nat : n + 1 <= k => w[n + 1] = FromList(w[n], n + 1)
  BY <1>2, <1>4
<1>6. 0 \in T
  BY <1>5 DEF Listed
<1>7. ASSUME NEW n \in Nat, n \in T PROVE n + 1 \in T
  <2>1. CASE n + 1 <= k
    <3>1. n + 1 \in 1 .. Len(l) /\ Listed(b, w[n], l)
      BY <1>2, <1>7, <2>1 DEF k
    <3>2. Listed(b, FromList(w[n], n + 1), l)
      BY <3>1, FromListed
    <3> QED BY <1>5, <2>1, <3>2
  <2> QED BY <2>1
<1> HIDE DEF T
<1>8. Nat \subseteq T
  BY <1>6, <1>7, NatInd
<1>9. Same(b, w[k])
  BY <1>2, <1>8 DEF T, Listed
<1> QED BY <1>1, <1>9 DEF k

LEMMA FromDhSame ==
  ASSUME NEW b, NEW c, Same(b, c), DirOk(b.dh) PROVE Same(b, FromDh(c))
<1>1. ASSUME NEW d, Same(b, d) PROVE Same(b, ListInto(d))
  <2>1. DirOk(d.dh)
    BY <1>1 DEF Same, LockSame
  <2> QED BY <1>1, <2>1, FailsSame, ListSame DEF ListInto
<1>2. ASSUME NEW d, Same(b, d) PROVE Same(b, readdir_fill_from_list(d))
  <2> DEFINE h == [d.dh EXCEPT !.len = 0, !.contents = <<>>]
             e == [d EXCEPT !.dh.len = 0, !.dh.contents = <<>>, !.stop = FALSE]
  <2>1. DirOk(d.dh) => DirOk(h)
    BY HandleOk
  <2>2. e = [d EXCEPT !.dh = h, !.stop = FALSE]
    OBVIOUS
  <2> HIDE DEF h
  <2>3. Same(b, [d EXCEPT !.dh = h, !.stop = FALSE])
    BY <1>2, <2>1, HandleSame
  <2>4. Same(b, e)
    BY <2>2, <2>3
  <2> HIDE DEF e
  <2>5. readdir_fill_from_list(d) = ListInto(extend_contents(e, d.dh.needlen))
    BY DEF readdir_fill_from_list, e
  <2> QED BY <1>1, <2>4, <2>5, ExtendSame
<1>3. \A x : Same(b, [c EXCEPT !.dh.needlen = x])
  BY NotFilledSame
<1> QED BY <1>2, <1>3 DEF FromDh

LEMMA FillCallsSame ==
  ASSUME NEW b, NEW c, Same(b, c), DirReq(c) PROVE Same(b, FillCalls(c))
<1> DEFINE h == [c.dh EXCEPT !.list = <<>>, !.len = 0, !.contents = <<>>, !.error = 0,
                             !.needlen = c.req.size, !.filled = TRUE]
           d == ResetDh(c)
<1>1. DirOk(c.dh) => DirOk(h)
  BY DEF DirOk
<1>2. d = [c EXCEPT !.dh = h]
  BY DEF ResetDh
<1> HIDE DEF h, d
<1>3. Same(b, [c EXCEPT !.dh = h])
  BY <1>1, HandleSame
<1>4. Same(b, d)
  BY <1>2, <1>3
<1>5. DirReq(d)
  BY <1>4 DEF Same, LockSame, ReqSame, DirReq
<1>6. Same(b, Called(d, "readdir"))
  BY <1>4, CalledSame
<1>7. Same(b, FilledWith(Called(d, "readdir"), Entries(d)))
  BY <1>5, <1>6, EntriesPass, FilledSame
<1> QED BY <1>4, <1>7, FailsSame DEF FillCalls, fuse_fs_readdir, d

LEMMA FillReady ==
  ASSUME NEW b, NEW c, Ready(b, c), c.err = 0, DirReq(c) PROVE Ready(b, readdir_fill(c))
<1> DEFINE p == IF Registered(c, "readdir") THEN get_path_nullok(c) ELSE get_path(c)
           q == fuse_prepare_interrupt(p)
           x == FillCalls(q)
           y == fuse_finish_interrupt(x)
           z == NotFilled(FillErr(y))
<1>1. LockSame(b, p) /\ Got(p) /\ Going(p)
  <2>1. New(c) /\ LockSame(b, c)
    BY DEF Ready, New
  <2> QED BY <2>1, PathGot, PathLock DEF Got
<1>2. readdir_fill(c) = IF p.err # 0 THEN p ELSE free_path(z)
  BY DEF readdir_fill, Filled
<1> HIDE DEF p
<1>3. CASE p.err # 0
  BY <1>1, <1>2, <1>3 DEF Ready, Got
<1>4. CASE p.err = 0
  <2>1. Same(q, q) /\ DirReq(q)
    <3>1. LockSame(b, q) /\ LockSame(b, c)
      BY <1>1, PathLock DEF Ready
    <3> QED BY <1>1, <3>1, PreparedCall DEF LockSame, ReqSame, DirReq
  <2>2. Same(q, x)
    BY <2>1, FillCallsSame
  <2> HIDE DEF x
  <2>3. Prepared(x) /\ LockSame(b, x)
    BY <1>1, <2>2, PrepareGoing, GoingSame, PathLock, LockTrans DEF Same
  <2>4. Going(y) /\ LockSame(b, y)
    BY <2>3, FinishGoing, PathLock
  <2> HIDE DEF y
  <2>5. Same(y, FillErr(y))
    <3>1. Same(y, y)
      BY <2>4, SameSelf DEF Going
    <3> QED BY <3>1, FailsSame DEF FillErr
  <2>6. Same(y, z)
    <3>1. Same(y, [FillErr(y) EXCEPT !.dh.filled = FALSE])
      BY <2>5, NotFilledSame
    <3> QED BY <2>5, <3>1 DEF NotFilled
  <2> HIDE DEF z
  <2>7. Going(z) /\ LockSame(b, z)
    BY <2>4, <2>6, GoingSame, LockTrans DEF Same
  <2>8. Ready(b, free_path(z))
    BY <2>7, FreeGoing, PathLock DEF Ready
  <2> QED BY <1>2, <1>4, <2>8
<1> QED BY <1>3, <1>4

LEMMA ReaddirEnded ==
  ASSUME NEW c, New(c), DirOk(c.dh), DirReq(c)
  PROVE  Ended(c, fuse_lib_readdir(c)) /\ Ended(c, fuse_lib_readdirplus(c))
<1> DEFINE d == Rewind(c)
           f == ReadFrom(d)
<1>1. Same(c, d) /\ d.err = c.err
  <2>1. Same(c, c) /\ IsCall(c)
    BY SameSelf DEF New, Going
  <2>2. Same(c, [c EXCEPT !.dh.filled = FALSE])
    BY <2>1, NotFilledSame
  <2> QED BY <2>1, <2>2 DEF Rewind, IsCall, Fields
<1> HIDE DEF d
<1>2. Ready(c, d) /\ d.err = 0 /\ DirReq(d)
  <2>1. Ready(c, c)
    BY PathStart
  <2> QED BY <1>1, <2>1, ReadySame DEF New, Same, LockSame, ReqSame, DirReq
<1>3. Ready(c, f)
  BY <1>2, FillReady DEF ReadFrom
<1> HIDE DEF f
<1>4. Same(f, FromDh(f))
  <2>1. Same(f, f) /\ DirOk(f.dh)
    BY <1>3, SameSelf DEF Ready, Going, LockSame
  <2> QED BY <2>1, FromDhSame
<1>5. Ended(c, DirAnswer(FromDh(f)))
  BY <1>3, <1>4, ReadySame, RepliesEnded
<1> QED BY <1>5 DEF d, f, fuse_lib_readdir, fuse_lib_readdirplus, fuse_readdir_common

LEMMA OpendirEnded ==
  ASSUME NEW c, New(c) PROVE Ended(c, fuse_lib_opendir(c)) /\ Ended(c, fuse_lib_releasedir(c))
<1>1. Ended(c, fuse_lib_opendir(c))
  <2> DEFINE d == [c EXCEPT !.dhs = @ + 1, !.dh = NewDh]
             p == get_path(d)
             q == fuse_prepare_interrupt(p)
  <2>1. New(d) /\ LockSame(c, d)
    <3>1. DirOk(NewDh)
      BY DEF DirOk, NewDh
    <3> QED BY <3>1 DEF New, Going, Held, LockSame, ReqSame, IsCall, Fields
  <2> HIDE DEF d
  <2>2. LockSame(c, p) /\ Going(p) /\ Same(q, q)
    BY <2>1, PathLock, PathGot, PreparedCall DEF Got
  <2> HIDE DEF p
  <2>3. Open_(c, Within(p, fuse_fs_opendir))
    BY <2>2, SimpleFsSame, WithinOpen DEF Within
  <2>4. Ended(c, free_path(OpendirAnswer(Within(p, fuse_fs_opendir))))
    BY <2>3, AnswersSaid, SaidFree
  <2> QED BY <2>4, PathStart, ErrEnded DEF d, p, fuse_lib_opendir
<1>2. Ended(c, fuse_lib_releasedir(c))
  <2> DEFINE p == Fails(get_path_nullok(c), 0)
             q == fuse_prepare_interrupt(p)
  <2>1. LockSame(c, p) /\ Going(p)
    <3>1. LockSame(c, get_path_nullok(c)) /\ Going(get_path_nullok(c))
      BY PathStart
    <3>2. Same(get_path_nullok(c), p)
      BY <3>1, SameSelf, FailsSame DEF Going
    <3> QED BY <3>1, <3>2, LockTrans, GoingSame DEF Same
  <2> HIDE DEF p
  <2>2. Same(q, ReleasedirCalls(q))
    BY <2>1, PreparedCall, QuietReleaseSame DEF ReleasedirCalls
  <2> DEFINE y == WithPath(p, ReleasedirCalls)
  <2>3. Ready(c, y)
    BY <2>1, <2>2, WithPathReady DEF WithPath, Within
  <2> HIDE DEF y
  <2>4. Ready(c, FreeDh(y))
    <3>1. Same(y, FreeDh(y))
      BY <2>3 DEF Ready, Going, FreeDh, Same, LockSame, EndSame, ReqSame, IsCall, Fields
    <3> QED BY <2>3, <3>1, ReadySame
  <2> QED BY <2>4, ErrEnded DEF y, p, fuse_lib_releasedir
<1> QED BY <1>1, <1>2

---------------------------------------------------------------------------
(* Locks *)

\* What a path or an interrupt leaves alone besides.
Carries(b, c) == c.flock = b.flock /\ c.calls = b.calls

LEMMA PathCarries ==
  ASSUME NEW c, IsCall(c)
  PROVE  /\ Carries(c, get_path_nullok(c)) /\ Carries(c, fuse_prepare_interrupt(c))
         /\ Carries(c, fuse_finish_interrupt(c)) /\ Carries(c, free_path(c))
         /\ fuse_prepare_interrupt(c).err = c.err /\ fuse_finish_interrupt(c).err = c.err
         /\ free_path(c).err = c.err
<1>1. Carries(c, get_path_nullok(c))
  BY DEF Carries, get_path_nullok, try_path, IsCall, Fields
<1>2. /\ Carries(c, fuse_prepare_interrupt(c)) /\ fuse_prepare_interrupt(c).err = c.err
      /\ Carries(c, fuse_finish_interrupt(c)) /\ fuse_finish_interrupt(c).err = c.err
  BY DEF Carries, fuse_prepare_interrupt, fuse_finish_interrupt, Use, IsCall, Fields
<1>3. Carries(c, free_path(c)) /\ free_path(c).err = c.err
  BY DEF Carries, free_path, IsCall, Fields
<1> QED BY <1>1, <1>2, <1>3

\* The file system has no locks of its own, or said so.
NoLocks(c) ==
  \/ "lock" \notin c.conf.reg
  \/ \E i \in DOMAIN c.calls : c.calls[i].op = "lock" /\ c.calls[i].res = ENOSYS

LEMMA FsLockCalled ==
  ASSUME NEW q, IsCall(q), q.err = 0, Len(q.calls) \in Nat,
         NEW d, d = Fs(q, "lock", ENOSYS)
  PROVE  /\ Same(q, d) /\ d.flock = q.flock /\ IsCall(d)
         /\ d.err = ENOSYS => NoLocks(d)
         /\ d.err = 0 => d.calls # q.calls
<1>1. Same(q, d)
  BY SameSelf, FsSame
<1>2. CASE "lock" \notin q.conf.reg
  <2>1. d = Fails(q, ENOSYS)
    BY <1>2 DEF Fs, Unless, Registered
  <2>2. d.flock = q.flock /\ d.conf = q.conf /\ d.err # 0 /\ IsCall(d)
    BY <2>1 DEF Fails, IsCall, Fields, ENOSYS
  <2> QED BY <1>1, <1>2, <2>2 DEF NoLocks
<1>3. CASE "lock" \in q.conf.reg
  <2> DEFINE r == IF Len(q.calls) + 1 \in q.env.fail THEN q.env.code ELSE 0
             x == [op |-> "lock", null |-> q.path = "null", res |-> r]
  <2>1. d = Called(q, "lock")
    BY <1>3 DEF Fs, Unless, Registered
  <2>2. d.flock = q.flock /\ d.calls = Append(q.calls, x) /\ d.err = r /\ IsCall(d)
    BY <2>1 DEF Called, IsCall, Fields
  <2>3. d.calls # q.calls /\ Len(q.calls) + 1 \in DOMAIN d.calls
        /\ d.calls[Len(q.calls) + 1] = x
    <3> HIDE DEF x
    <3> QED BY <2>2
  <2>4. d.calls[Len(q.calls) + 1].op = "lock" /\ d.calls[Len(q.calls) + 1].res = d.err
    BY <2>2, <2>3
  <2> QED BY <1>1, <2>2, <2>3, <2>4 DEF NoLocks
<1> QED BY <1>2, <1>3

\* A lock in the file system: x is what it makes of q, k the range.
SetLkDone(q, x, k) ==
  /\ EndSame(q, x) /\ x.locks = q.locks /\ x.lost = q.lost /\ x.flock = q.flock
  /\ DirOk(q.dh) => DirOk(x.dh)
  /\ x.fslocks = IF x.err = 0 THEN FsSet(q.fslocks, k) ELSE q.fslocks
  /\ x.err = ENOSYS => NoLocks(x)

LEMMA FsLockSet ==
  ASSUME NEW q, IsCall(q), q.err = 0, Len(q.calls) \in Nat
  PROVE  SetLkDone(q, fuse_fs_lock(q, "F_SETLK"), FlockBytes(q.flock, q.req.owner))
<1> DEFINE d == Fs(q, "lock", ENOSYS)
           k == FlockBytes(q.flock, q.req.owner)
           x == SetLk(q, d, k)
<1> SUFFICES SetLkDone(q, x, k)
  BY DEF fuse_fs_lock
<1>2. /\ Same(q, d) /\ d.flock = q.flock /\ IsCall(d) /\ (d.err = ENOSYS => NoLocks(d))
      /\ d.err = 0 => d.calls # q.calls
  BY FsLockCalled
<1> HIDE DEF d, k
<1>3. CASE d.err # 0
  BY <1>2, <1>3 DEF SetLk, SetLkDone, Same, LockSame
<1>4. CASE d.err = 0 /\ k.type # "U" /\ FsConflict(q.fslocks, k)
  <2>1. x = Fails(d, EAGAIN)
    BY <1>2, <1>4 DEF SetLk
  <2>2. x.flock = d.flock /\ x.err = EAGAIN /\ x.dh = d.dh /\ x.fslocks = d.fslocks
    BY <1>2, <2>1 DEF Fails, IsCall, Fields
  <2>3. EndSame(q, x) /\ x.locks = q.locks /\ x.lost = q.lost
    BY <1>2, <2>1, FailsSame DEF Same, LockSame
  <2>4. EAGAIN # ENOSYS /\ EAGAIN # 0
    BY DEF EAGAIN, ENOSYS
  <2> HIDE DEF x
  <2> QED BY <1>2, <2>2, <2>3, <2>4 DEF SetLkDone, Same, LockSame
<1>5. CASE d.err = 0 /\ ~(k.type # "U" /\ FsConflict(q.fslocks, k))
  <2>1. x = [d EXCEPT !.fslocks = FsSet(@, k)]
    BY <1>2, <1>5 DEF SetLk
  <2>2. /\ x.flock = d.flock /\ x.err = d.err /\ x.dh = d.dh /\ x.fslocks = FsSet(d.fslocks, k)
        /\ x.locks = d.locks /\ x.lost = d.lost /\ EndSame(d, x)
    BY <1>2, <2>1 DEF IsCall, Fields, EndSame, ReqSame
  <2> HIDE DEF x
  <2>3. EndSame(q, x) /\ x.fslocks = FsSet(q.fslocks, k)
    BY <1>2, <2>2 DEF Same, LockSame, EndSame, ReqSame
  <2> QED BY <1>2, <1>5, <2>2, <2>3 DEF SetLkDone, Same, LockSame, ENOSYS
<1> QED BY <1>3, <1>4, <1>5

\* Asking the file system: no lock changes, and the answer is free if nothing conflicts.
GetLkDone(q, x, k) ==
  /\ Same(q, x)
  /\ x.err = 0 => x.flock = IF FsConflict(q.fslocks, k) THEN q.flock
                            ELSE [q.flock EXCEPT !.type = "U"]

LEMMA FsLockGet ==
  ASSUME NEW q, IsCall(q), q.err = 0, Len(q.calls) \in Nat
  PROVE  GetLkDone(q, fuse_fs_lock(q, "F_GETLK"), FlockBytes(q.flock, q.req.owner))
<1> DEFINE d == Fs(q, "lock", ENOSYS)
           k == FlockBytes(q.flock, q.req.owner)
           x == GetLk(q, d, k)
<1> SUFFICES GetLkDone(q, x, k)
  BY DEF fuse_fs_lock
<1>2. Same(q, d) /\ d.flock = q.flock /\ IsCall(d) /\ (d.err = 0 => d.calls # q.calls)
  BY FsLockCalled
<1> HIDE DEF d, k
<1>3. CASE d.err # 0
  BY <1>2, <1>3 DEF GetLk, GetLkDone
<1>4. CASE d.err = 0 /\ FsConflict(q.fslocks, k)
  <2>1. x = d
    BY <1>4 DEF GetLk
  <2> HIDE DEF x
  <2> QED BY <1>2, <1>4, <2>1, Zenon DEF GetLkDone
<1>5. CASE d.err = 0 /\ ~FsConflict(q.fslocks, k)
  <2>1. x = [d EXCEPT !.flock.type = "U"]
    BY <1>2, <1>5 DEF GetLk
  <2>2. x.flock = [d.flock EXCEPT !.type = "U"]
    BY <1>2, <2>1 DEF IsCall, Fields
  <2>3. Same(q, x)
    BY <1>2, <2>1 DEF IsCall, Fields, Same, LockSame, EndSame, ReqSame
  <2> HIDE DEF x
  <2>4. x.flock = [q.flock EXCEPT !.type = "U"]
    BY <1>2, <2>2
  <2> QED BY <1>5, <2>3, <2>4, Zenon DEF GetLkDone
<1> QED BY <1>3, <1>4, <1>5

\* The two ways to read a struct flock agree.
LEMMA FlockBytesIs ==
  ASSUME NEW f, NEW o PROVE FlockBytes(f, o) = flock_to_lock(f, o)
BY DEF FlockBytes, flock_to_lock

\* A new request has made no call yet.
Fresh(c) == New(c) /\ c.calls = <<>>

\* x is what the file system's lock function makes of the request once it has its path.
LEMMA CommonFrame ==
  ASSUME NEW c, Fresh(c), NEW cmd, NEW p, p = get_path_nullok(c),
         NEW x, x = fuse_fs_lock(fuse_prepare_interrupt(p), cmd),
         p.err = 0 => EndSame(fuse_prepare_interrupt(p), x),
         NEW y, y = LockCommon(c, cmd)
  PROVE  /\ Going(y) /\ y.path # "held" /\ Going(p) /\ LockSame(c, p) /\ Carries(c, p)
         /\ p.err = 0 => LockSame(x, y) /\ Carries(x, y) /\ y.err = x.err
         /\ p.err # 0 => Ready(c, y) /\ y.err # 0
<1> DEFINE z == IF p.err = 0 THEN x ELSE p
           f == fuse_finish_interrupt(z)
<1>1. y = free_path(f)
  BY DEF LockCommon, WithPath, Within
<1>2. Going(p) /\ LockSame(c, p) /\ Carries(c, p)
  BY PathStart, PathCarries DEF Fresh, New, Going
<1>3. Going(f)
  BY <1>2, WithinGoing
<1>4. IsCall(z) /\ LockSame(z, z)
  <2>1. IsCall(z)
    BY <1>2 DEF EndSame, ReqSame, Going
  <2> QED BY <2>1, SameSelf DEF Same
<1> HIDE DEF z
<1>5. LockSame(z, f) /\ IsCall(f) /\ Carries(z, f) /\ f.err = z.err
  BY <1>3, <1>4, PathLock, PathCarries DEF Going
<1> HIDE DEF f
<1>6. Going(y) /\ y.path # "held"
  BY <1>1, <1>3, FreeGoing
<1>7. LockSame(z, y) /\ Carries(z, y) /\ y.err = z.err
  BY <1>1, <1>5, PathLock, PathCarries DEF Carries
<1>8. CASE p.err = 0
  BY <1>2, <1>6, <1>7, <1>8 DEF z
<1>9. CASE p.err # 0
  BY <1>2, <1>6, <1>7, <1>9, LockTrans DEF z, Ready
<1> QED BY <1>8, <1>9

\* A lock that was set: in the file system, and in the record unless memory lacked.
SetDone(b, c, k) ==
  /\ ReqSame(b, c) /\ Answered(c) /\ c.held = 0 /\ (DirOk(b.dh) => DirOk(c.dh))
  /\ c.fslocks = FsSet(b.fslocks, k) /\ c.locks = locks_insert(b.locks, k, b.env.lkmem)
  /\ NeedsMemory(k) /\ ~b.env.lkmem => c.lost

LEMMA SetlkEnded ==
  ASSUME NEW c, Fresh(c)
  PROVE  \/ Ended(c, fuse_lib_setlk(c))
         \/ SetDone(c, fuse_lib_setlk(c), flock_to_lock(c.flock, c.req.owner))
<1> DEFINE p == get_path_nullok(c)
           q == fuse_prepare_interrupt(p)
           x == fuse_fs_lock(q, "F_SETLK")
           y == LockCommon(c, "F_SETLK")
           k == flock_to_lock(c.flock, c.req.owner)
<1>1. Going(p) /\ LockSame(c, p) /\ Carries(c, p)
  BY PathStart, PathCarries DEF Fresh, New, Going
<1>2. IsCall(q) /\ q.err = p.err /\ Carries(c, q) /\ LockSame(c, q) /\ Len(q.calls) \in Nat
  <2>1. IsCall(q) /\ LockSame(c, q)
    BY <1>1, PrepareGoing, PathLock DEF Prepared
  <2>2. q.err = p.err /\ Carries(c, q)
    BY <1>1, PathCarries DEF Carries, Going
  <2> HIDE DEF q
  <2> QED BY <2>1, <2>2 DEF Carries, Fresh
<1> HIDE DEF q
<1>3. FlockBytes(q.flock, q.req.owner) = k
  BY <1>2, FlockBytesIs DEF Carries, LockSame, ReqSame
<1>4. p.err = 0 => SetLkDone(q, x, k)
  BY <1>2, <1>3, FsLockSet
<1> HIDE DEF k, x
<1>5. /\ Going(y) /\ y.path # "held"
      /\ p.err = 0 => LockSame(x, y) /\ Carries(x, y) /\ y.err = x.err
      /\ p.err # 0 => Ready(c, y) /\ y.err # 0
  BY <1>4, CommonFrame DEF SetLkDone, q, x
<1> HIDE DEF p, y
<1>6. fuse_lib_setlk(c) =
        reply_err(IF y.err = 0 THEN Recorded(y, flock_to_lock(y.flock, y.req.owner)) ELSE y)
  BY DEF fuse_lib_setlk, SetAnswer, y
<1>7. CASE y.err # 0
  <2>1. Ready(c, y)
    <3>1. CASE p.err = 0
      <4>1. LockSame(c, x)
        BY <1>2, <1>4, <1>5, <1>7, <3>1 DEF SetLkDone, LockSame, EndSame, ReqSame
      <4> QED BY <1>5, <3>1, <4>1, LockTrans DEF Ready
    <3> QED BY <1>5, <3>1
  <2> QED BY <1>6, <1>7, <2>1, ErrEnded
<1>8. CASE y.err = 0
  <2>1. p.err = 0 /\ x.err = 0
    BY <1>5, <1>8
  <2>2. /\ ReqSame(c, y) /\ y.locks = c.locks /\ y.fslocks = FsSet(c.fslocks, k)
        /\ DirOk(c.dh) => DirOk(y.dh)
    BY <1>2, <1>4, <1>5, <2>1 DEF SetLkDone, LockSame, EndSame, ReqSame
  <2>3. flock_to_lock(y.flock, y.req.owner) = k
    BY <1>2, <1>4, <1>5, <2>1, <2>2 DEF SetLkDone, Carries, ReqSame, k
  <2> DEFINE z == Recorded(y, k)
             a == reply_err(z)
  <2>4. /\ IsCall(z) /\ Going(z) /\ z.path # "held" /\ ReqSame(c, z) /\ z.dh = y.dh
        /\ z.locks = locks_insert(y.locks, k, y.env.lkmem) /\ z.fslocks = y.fslocks
    BY <1>5, <2>2 DEF Going, Held, ReqSame, IsCall, Fields, Recorded
  <2>5. NeedsMemory(k) /\ ~c.env.lkmem => z.lost
    <3>1. z.lost = (y.lost \/ (NeedsMemory(k) /\ ~y.env.lkmem))
      BY <1>5 DEF Going, IsCall, Fields, Recorded
    <3>2. y.env = c.env
      BY <2>2 DEF ReqSame
    <3> HIDE DEF z
    <3> QED BY <3>1, <3>2, Zenon
  <2> HIDE DEF z
  <2>6. Ready(z, z)
    BY <2>4, SameSelf DEF Same, Ready
  <2>7. Ended(z, a)
    BY <2>6, ErrEnded
  <2>8. fuse_lib_setlk(c) = a
    BY <1>6, <1>8, <2>3 DEF z
  <2> HIDE DEF a
  <2>9. /\ ReqSame(c, a) /\ a.locks = locks_insert(c.locks, k, c.env.lkmem)
        /\ a.fslocks = FsSet(c.fslocks, k) /\ (DirOk(c.dh) => DirOk(a.dh))
    BY <2>2, <2>4, <2>7 DEF Ended, LockSame, ReqSame
  <2>10. NeedsMemory(k) /\ ~c.env.lkmem => a.lost
    <3>1. a.lost = z.lost
      BY <2>7 DEF Ended, LockSame
    <3> QED BY <2>5, <3>1, Zenon
  <2>11. Answered(a) /\ a.held = 0
    BY <2>7 DEF Ended
  <2>12. SetDone(c, a, k)
    BY <2>9, <2>10, <2>11, Zenon DEF SetDone
  <2> QED BY <2>8, <2>12 DEF k
<1> QED BY <1>7, <1>8

\* What the answer to a question for a lock is taken from: the record, or the file system.
GetAnswer(c, a, k) ==
  \/ \E i \in locks_conflict(c.locks, k) : a.flock = lock_to_flock(c.locks[i])
  \/ /\ locks_conflict(c.locks, k) = {}
     /\ FsConflict(c.fslocks, k) \/ a.flock = [c.flock EXCEPT !.type = "U"]

LEMMA ReplyLockIs ==
  ASSUME NEW c, Going(c), ReplyLock(c).kind = "lock"
  PROVE  ReplyLock(c).flock = c.flock /\ c.err = 0
<1>1. CASE c.err = 0
  BY <1>1, AnswerEnd DEF ReplyLock, fuse_reply_lock
<1>2. CASE c.err # 0
  BY <1>2, AnswerEnd DEF ReplyLock, reply_err, fuse_reply_err
<1> QED BY <1>1, <1>2

LEMMA GetlkEnded ==
  ASSUME NEW c, Fresh(c), DOMAIN c.locks \subseteq Nat
  PROVE  /\ Ended(c, fuse_lib_getlk(c))
         /\ fuse_lib_getlk(c).kind = "lock" =>
              GetAnswer(c, fuse_lib_getlk(c), flock_to_lock(c.flock, c.req.owner))
<1> DEFINE p == get_path_nullok(c)
           q == fuse_prepare_interrupt(p)
           x == fuse_fs_lock(q, "F_GETLK")
           y == LockCommon(c, "F_GETLK")
           k == flock_to_lock(c.flock, c.req.owner)
           found == locks_conflict(c.locks, k)
           i == CHOOSE i \in found : \A j \in found : i <= j
           r == [c EXCEPT !.flock = lock_to_flock(c.locks[i])]
           a == fuse_lib_getlk(c)
<1>1. a = ReplyLock(IF found = {} THEN y ELSE r)
  BY DEF fuse_lib_getlk, GetConflict
<1>2. CASE found # {}
  <2>1. found \subseteq Nat
    BY DEF locks_conflict
  <2>2. i \in found
    <3> HIDE DEF found
    <3>1. \E n \in found : \A j \in found : n <= j
      BY <1>2, <2>1, NatMin
    <3> QED BY <3>1, Zenon
  <2> HIDE DEF found, i
  <2>3. Ready(c, r) /\ r.flock = lock_to_flock(c.locks[i])
    BY DEF Fresh, New, Going, Held, Ready, LockSame, ReqSame, IsCall, Fields
  <2> HIDE DEF r, a
  <2>4. a = ReplyLock(r)
    BY <1>1, <1>2
  <2>5. Ended(c, a)
    BY <2>3, <2>4, RepliesEnded
  <2>6. a.kind = "lock" => a.flock = lock_to_flock(c.locks[i])
    BY <2>3, <2>4, ReplyLockIs DEF Ready
  <2> HIDE DEF k
  <2>7. a.kind = "lock" => GetAnswer(c, a, k)
    BY <2>2, <2>6, Zenon DEF GetAnswer, found
  <2> QED BY <2>5, <2>7 DEF a, k
<1>3. CASE found = {}
  <2>1. Going(p) /\ LockSame(c, p) /\ Carries(c, p)
    BY PathStart, PathCarries DEF Fresh, New, Going
  <2>2. IsCall(q) /\ q.err = p.err /\ Carries(c, q) /\ LockSame(c, q) /\ Len(q.calls) \in Nat
    <3>1. IsCall(q) /\ LockSame(c, q)
      BY <2>1, PrepareGoing, PathLock DEF Prepared
    <3>2. q.err = p.err /\ Carries(c, q)
      BY <2>1, PathCarries DEF Carries, Going
    <3> HIDE DEF q
    <3> QED BY <3>1, <3>2 DEF Carries, Fresh
  <2> HIDE DEF q
  <2>3. FlockBytes(q.flock, q.req.owner) = k
    BY <2>2, FlockBytesIs DEF Carries, LockSame, ReqSame
  <2>4. p.err = 0 => GetLkDone(q, x, k)
    BY <2>2, <2>3, FsLockGet
  <2> HIDE DEF k, x, found, a
  <2>5. /\ Going(y) /\ y.path # "held"
        /\ p.err = 0 => LockSame(x, y) /\ Carries(x, y) /\ y.err = x.err
        /\ p.err # 0 => Ready(c, y) /\ y.err # 0
    BY <2>4, CommonFrame DEF GetLkDone, Same, q, x
  <2> HIDE DEF p, y
  <2>6. Ready(c, y)
    <3>1. CASE p.err = 0
      <4>1. LockSame(c, x)
        BY <2>2, <2>4, <3>1, LockTrans DEF GetLkDone, Same
      <4> QED BY <2>5, <3>1, <4>1, LockTrans DEF Ready
    <3> QED BY <2>5, <3>1
  <2>7. a = ReplyLock(y)
    BY <1>1, <1>3
  <2>8. Ended(c, a)
    BY <2>6, <2>7, RepliesEnded
  <2>9. ASSUME a.kind = "lock" PROVE GetAnswer(c, a, k)
    <3>1. a.flock = y.flock /\ y.err = 0
      BY <2>5, <2>7, <2>9, ReplyLockIs
    <3>2. p.err = 0 /\ x.err = 0 /\ a.flock = x.flock /\ q.flock = c.flock
      BY <2>2, <2>5, <3>1 DEF Carries
    <3>3. q.fslocks = c.fslocks /\ GetLkDone(q, x, k)
      BY <2>2, <2>4, <3>2 DEF LockSame
    <3>4. FsConflict(c.fslocks, k) \/ a.flock = [c.flock EXCEPT !.type = "U"]
      BY <3>2, <3>3, Zenon DEF GetLkDone
    <3> QED BY <1>3, <3>4, Zenon DEF GetAnswer, found
  <2> QED BY <2>8, <2>9 DEF a, k
<1> QED BY <1>2, <1>3

\* Everything an owner has locked.
Everything(o) == [owner |-> o, type |-> "U", start |-> 0, end |-> OFFSET_MAX]

\* An owner's locks are taken back in the record; in the file system too, or it said no.
Flushed(b, c) ==
  /\ ReqSame(b, c) /\ (DirOk(b.dh) => DirOk(c.dh))
  /\ c.locks = locks_insert(b.locks, Everything(b.req.owner), b.env.lkmem)
  /\ \/ c.fslocks = FsSet(b.fslocks, Everything(b.req.owner))
     \/ c.fslocks = b.fslocks /\ c.lost

FlushOut(b, c) == (LockSame(b, c) /\ NoLocks(c)) \/ Flushed(b, c)

LEMMA FlushedSame == ASSUME NEW b, NEW c, NEW d, Flushed(b, c), LockSame(c, d) PROVE Flushed(b, d)
<1>1. /\ ReqSame(b, d) /\ (DirOk(b.dh) => DirOk(d.dh)) /\ d.locks = c.locks
      /\ d.fslocks = c.fslocks /\ d.lost = c.lost
  BY DEF Flushed, LockSame, ReqSame
<1> QED BY <1>1, Zenon DEF Flushed

LEMMA FlushOutSame ==
  ASSUME NEW b, NEW c, NEW d, FlushOut(b, c), LockSame(c, d), d.calls = c.calls
  PROVE  FlushOut(b, d)
<1>1. NoLocks(c) => NoLocks(d)
  BY DEF NoLocks, LockSame, ReqSame
<1> QED BY <1>1, FlushedSame, LockTrans DEF FlushOut

LEMMA FsFlushCalls ==
  ASSUME NEW u_, IsCall(u_), u_.err = 0, u_.calls = <<>>, NEW f, f = fuse_fs_flush(u_)
  PROVE  Same(u_, f) /\ f.flock = u_.flock /\ Len(f.calls) \in Nat
<1>1. Same(u_, f)
  BY SameSelf, SimpleFsSame
<1>2. CASE Registered(u_, "flush")
  <2>1. f = Called(u_, "flush")
    BY <1>2 DEF fuse_fs_flush, Fs, Unless
  <2>2. f.flock = u_.flock
    BY <2>1 DEF Called, IsCall, Fields
  <2>3. \E y : f.calls = Append(<<>>, y)
    BY <2>1 DEF Called, IsCall, Fields
  <2> QED BY <1>1, <2>2, <2>3
<1>3. CASE ~Registered(u_, "flush")
  <2>1. f = Fails(u_, ENOSYS)
    BY <1>3 DEF fuse_fs_flush, Fs, Unless
  <2>2. f.flock = u_.flock /\ f.calls = <<>>
    BY <2>1 DEF Fails, IsCall, Fields
  <2> QED BY <1>1, <2>2
<1> QED BY <1>2, <1>3

LEMMA UnlockEnd ==
  ASSUME NEW q, IsCall(q)
  PROVE  /\ Same(q, UnlockAll(q)) /\ UnlockAll(q).flock = NoFlock
         /\ UnlockAll(q).err = q.err /\ UnlockAll(q).calls = q.calls
BY DEF UnlockAll, Same, LockSame, EndSame, ReqSame, IsCall, Fields

\* After the file system's unlock the interrupt is taken off and the record updated: d is
\* the call then, errlock what the file system said.
LEMMA FlushLocksOut ==
  ASSUME NEW b, NEW f, ReqSame(b, f), NEW d, Going(d), ReqSame(b, d),
         DirOk(b.dh) => DirOk(d.dh), d.locks = b.locks, d.lost = b.lost, d.flock = NoFlock,
         NEW errlock, errlock = ENOSYS => NoLocks(d),
         d.fslocks = IF errlock = 0 THEN FsSet(b.fslocks, Everything(b.req.owner)) ELSE b.fslocks
  PROVE  Going(FlushLocks(f, d, errlock)) /\ FlushOut(b, FlushLocks(f, d, errlock))
<1>1. CASE errlock = ENOSYS
  <2>1. LockSame(b, d)
    BY <1>1 DEF LockSame, ENOSYS
  <2> QED BY <1>1, <2>1 DEF FlushLocks, FlushOut
<1>2. CASE errlock # ENOSYS
  <2> DEFINE z == FlushLocks(f, d, errlock)
             k == flock_to_lock(d.flock, f.req.owner)
  <2>1. z = [d EXCEPT !.locks = locks_insert(@, k, f.env.lkmem), !.lost = @ \/ errlock # 0,
                      !.err = IF @ = ENOSYS THEN 0 ELSE @]
    BY <1>2 DEF FlushLocks
  <2>2. k = Everything(b.req.owner) /\ f.env = b.env
    BY DEF flock_to_lock, NoFlock, Everything, ReqSame
  <2> HIDE DEF k
  <2>3. /\ Going(z) /\ ReqSame(b, z) /\ z.dh = d.dh /\ z.fslocks = d.fslocks
        /\ z.locks = locks_insert(d.locks, k, f.env.lkmem) /\ z.lost = (d.lost \/ errlock # 0)
    BY <2>1 DEF Going, Held, ReqSame, IsCall, Fields
  <2> HIDE DEF z
  <2>4. \/ z.fslocks = FsSet(b.fslocks, Everything(b.req.owner))
        \/ z.fslocks = b.fslocks /\ errlock # 0
    BY <2>3
  <2>5. errlock # 0 => z.lost
    BY <2>3, Zenon
  <2>6. z.locks = locks_insert(b.locks, Everything(b.req.owner), b.env.lkmem)
    BY <2>2, <2>3
  <2>7. Flushed(b, z)
    BY <2>3, <2>4, <2>5, <2>6, Zenon DEF Flushed
  <2> QED BY <2>3, <2>7 DEF FlushOut, z
<1> QED BY <1>1, <1>2

LEMMA FlushCommonOut ==
  ASSUME NEW c, Going(c), c.err = 0, c.calls = <<>>
  PROVE  Going(fuse_flush_common(c)) /\ FlushOut(c, fuse_flush_common(c))
<1> DEFINE q == fuse_prepare_interrupt(c)
           t == UnlockAll(q)
           f == fuse_fs_flush(t)
           g == Fails(f, 0)
           x == fuse_fs_lock(g, "F_SETLK")
           e == [x EXCEPT !.err = f.err]
           d == fuse_finish_interrupt(e)
<1>1. Prepared(q) /\ LockSame(c, q) /\ q.err = 0 /\ q.calls = <<>>
  <2>1. LockSame(c, c)
    BY SameSelf DEF Going, Same
  <2> QED BY <2>1, PrepareGoing, PathLock, PathCarries DEF Going, Carries
<1> HIDE DEF q
<1>2. Same(q, t) /\ t.flock = NoFlock /\ t.err = 0 /\ t.calls = <<>> /\ IsCall(t)
  BY <1>1, UnlockEnd DEF Prepared, Same, LockSame, ReqSame
<1> HIDE DEF t
<1>3. Same(t, f) /\ f.flock = NoFlock /\ Len(f.calls) \in Nat
  BY <1>2, FsFlushCalls
<1> HIDE DEF f
<1>4. /\ Same(t, g) /\ g.flock = NoFlock /\ g.calls = f.calls /\ g.err = 0 /\ IsCall(g)
  BY <1>3, FailsSame DEF Fails, Same, LockSame, ReqSame, IsCall, Fields
<1> HIDE DEF g
<1>5. SetLkDone(g, x, Everything(c.req.owner))
  <2>1. g.req = c.req
    BY <1>1, <1>2, <1>4 DEF Same, LockSame, ReqSame
  <2>2. FlockBytes(g.flock, g.req.owner) = Everything(c.req.owner)
    BY <1>4, <2>1 DEF FlockBytes, NoFlock, Everything
  <2> QED BY <1>3, <1>4, <2>2, FsLockSet
<1> HIDE DEF x
<1>6. /\ ReqSame(c, x) /\ x.locks = c.locks /\ x.lost = c.lost /\ x.flock = NoFlock
      /\ DirOk(c.dh) => DirOk(x.dh)
      /\ x.fslocks = IF x.err = 0 THEN FsSet(c.fslocks, Everything(c.req.owner)) ELSE c.fslocks
      /\ x.err = ENOSYS => NoLocks(x)
  BY <1>1, <1>2, <1>4, <1>5 DEF SetLkDone, Same, LockSame, EndSame, ReqSame
<1>7. Prepared(x)
  <2>1. Prepared(t)
    BY <1>1, <1>2, GoingSame DEF Same
  <2>2. Prepared(g)
    BY <1>4, <2>1, GoingSame DEF Same
  <2> QED BY <1>5, <2>2, GoingSame DEF SetLkDone
<1>8. /\ Prepared(e) /\ LockSame(x, e) /\ e.calls = x.calls /\ e.flock = x.flock
  BY <1>7 DEF Prepared, Held, LockSame, ReqSame, IsCall, Fields
<1> HIDE DEF e
<1>9. /\ Going(d) /\ LockSame(x, d) /\ d.calls = x.calls /\ d.flock = x.flock
  BY <1>8, FinishGoing, PathLock, PathCarries DEF Prepared, Carries
<1> HIDE DEF d
<1>10. /\ ReqSame(c, d) /\ d.locks = c.locks /\ d.lost = c.lost /\ d.flock = NoFlock
       /\ DirOk(c.dh) => DirOk(d.dh)
       /\ d.fslocks = IF x.err = 0 THEN FsSet(c.fslocks, Everything(c.req.owner)) ELSE c.fslocks
  BY <1>6, <1>9 DEF LockSame, ReqSame
<1>11. x.err = ENOSYS => NoLocks(d)
  BY <1>6, <1>9 DEF NoLocks, LockSame, ReqSame
<1>12. ReqSame(c, f)
  BY <1>1, <1>2, <1>3 DEF Same, LockSame, ReqSame
<1>13. Going(FlushLocks(f, d, x.err)) /\ FlushOut(c, FlushLocks(f, d, x.err))
  BY <1>9, <1>10, <1>11, <1>12, FlushLocksOut
<1> QED BY <1>13 DEF fuse_flush_common, FlushFs, FlushDone, q, t, f, g, x, e, d

\* Ended, whatever became of the locks.
Finished(b, c) ==
  ReqSame(b, c) /\ Answered(c) /\ c.held = 0 /\ (DirOk(b.dh) => DirOk(c.dh))

\* An answer to a request whose path is given back.
LEMMA ErrFinished ==
  ASSUME NEW c, Going(c), c.path # "held", NEW a, a = reply_err(c)
  PROVE  Answered(a) /\ a.held = 0 /\ LockSame(c, a) /\ a.calls = c.calls
<1>1. Ready(c, c)
  BY SameSelf DEF Ready, Going, Same
<1>2. Ended(c, a)
  BY <1>1, ErrEnded
<1>3. a.calls = c.calls
  BY AnswerEnd DEF reply_err, fuse_reply_err
<1> QED BY <1>2, <1>3 DEF Ended

LEMMA FreshPath ==
  ASSUME NEW c, Fresh(c), NEW p, p = Fails(get_path_nullok(c), 0)
  PROVE  Going(p) /\ LockSame(c, p) /\ p.err = 0 /\ p.calls = <<>>
<1> DEFINE g == get_path_nullok(c)
<1>1. Going(g) /\ LockSame(c, g) /\ g.calls = <<>>
  BY PathStart, PathCarries DEF Fresh, New, Going, Carries
<1> HIDE DEF g
<1>2. Same(g, Fails(g, 0)) /\ Fails(g, 0).calls = g.calls /\ Fails(g, 0).err = 0
  <2>1. Same(g, g)
    BY <1>1, SameSelf DEF Going
  <2> QED BY <1>1, <2>1, FailsSame DEF Fails, Going, IsCall, Fields
<1>3. p = Fails(g, 0)
  BY DEF g
<1> QED BY <1>1, <1>2, <1>3, GoingSame, LockTrans DEF Same

LEMMA FlushedFrom ==
  ASSUME NEW b, NEW p, LockSame(b, p), NEW z, Flushed(p, z) PROVE Flushed(b, z)
<1>1. /\ ReqSame(b, z) /\ (DirOk(b.dh) => DirOk(z.dh)) /\ p.locks = b.locks
      /\ p.fslocks = b.fslocks /\ p.env = b.env /\ p.req = b.req
  BY DEF Flushed, LockSame, ReqSame
<1> QED BY <1>1 DEF Flushed

LEMMA FlushEnded ==
  ASSUME NEW c, Fresh(c)
  PROVE  Finished(c, fuse_lib_flush(c)) /\ FlushOut(c, fuse_lib_flush(c))
<1> DEFINE p == Fails(get_path_nullok(c), 0)
           z == fuse_flush_common(p)
           y == free_path(z)
           a == reply_err(y)
<1>1. Going(p) /\ LockSame(c, p) /\ p.err = 0 /\ p.calls = <<>>
  BY FreshPath
<1> HIDE DEF p
<1>2. Going(z) /\ FlushOut(p, z)
  BY <1>1, FlushCommonOut
<1> HIDE DEF z
<1>3. Going(y) /\ y.path # "held" /\ LockSame(z, y) /\ y.calls = z.calls
  <2>1. LockSame(z, z)
    BY <1>2, SameSelf DEF Going, Same
  <2> QED BY <1>2, <2>1, FreeGoing, PathLock, PathCarries DEF Going, Carries
<1> HIDE DEF y
<1>4. Answered(a) /\ a.held = 0 /\ LockSame(y, a) /\ a.calls = y.calls
  BY <1>3, ErrFinished
<1> HIDE DEF a
<1>5. FlushOut(p, a)
  BY <1>2, <1>3, <1>4, LockTrans, FlushOutSame
<1>6. FlushOut(c, a)
  BY <1>1, <1>5, LockTrans, FlushedFrom DEF FlushOut
<1>7. ReqSame(c, a) /\ (DirOk(c.dh) => DirOk(a.dh))
  BY <1>6 DEF FlushOut, Flushed, LockSame
<1> QED BY <1>4, <1>6, <1>7 DEF Finished, p, z, y, a, fuse_lib_flush

LEMMA ReleaseEnded ==
  ASSUME NEW c, Fresh(c)
  PROVE  /\ Finished(c, fuse_lib_release(c))
         /\ LockSame(c, fuse_lib_release(c)) \/ Flushed(c, fuse_lib_release(c))
<1> DEFINE p == Fails(get_path_nullok(c), 0)
           f == fuse_flush_common(p)
           z == IF c.req.flush THEN NotENOSYS(f) ELSE p
           q == fuse_prepare_interrupt(z)
           r == fuse_do_release(q)
           w == fuse_finish_interrupt(r)
           y == free_path(w)
           a == reply_err(y)
<1>1. Going(p) /\ LockSame(c, p) /\ p.err = 0 /\ p.calls = <<>>
  BY FreshPath
<1>2. a = fuse_lib_release(c)
  BY DEF fuse_lib_release, ReleaseCalls
<1> HIDE DEF p
<1>3. Going(f) /\ FlushOut(p, f)
  BY <1>1, FlushCommonOut
<1> HIDE DEF f
<1>4. Going(z) /\ (LockSame(c, z) \/ Flushed(c, z))
  <2>1. Same(f, NotENOSYS(f))
    BY <1>3, SameSelf, FailsSame DEF NotENOSYS, Going
  <2>2. Going(NotENOSYS(f)) /\ (LockSame(p, NotENOSYS(f)) \/ Flushed(p, NotENOSYS(f)))
    BY <1>3, <2>1, GoingSame, LockTrans, FlushedSame DEF FlushOut, Same
  <2> QED BY <1>1, <2>2, LockTrans, FlushedFrom
<1> HIDE DEF z
<1>5. Going(y) /\ y.path # "held" /\ LockSame(z, y)
  <2>1. Prepared(q) /\ LockSame(z, q)
    <3>1. LockSame(z, z)
      BY <1>4, SameSelf DEF Going, Same
    <3> QED BY <1>4, <3>1, PrepareGoing, PathLock
  <2> HIDE DEF q
  <2>2. Same(q, r)
    BY <2>1, SameSelf, DoReleaseSame DEF Prepared
  <2> HIDE DEF r
  <2>3. Prepared(r) /\ LockSame(z, r)
    BY <2>1, <2>2, GoingSame, LockTrans DEF Same
  <2>4. Going(w) /\ LockSame(z, w)
    BY <2>3, FinishGoing, PathLock
  <2> HIDE DEF w
  <2> QED BY <2>4, FreeGoing, PathLock
<1> HIDE DEF y
<1>6. Answered(a) /\ a.held = 0 /\ LockSame(y, a)
  BY <1>5, ErrFinished
<1> HIDE DEF a
<1>7. LockSame(c, a) \/ Flushed(c, a)
  BY <1>4, <1>5, <1>6, LockTrans, FlushedSame
<1>8. ReqSame(c, a) /\ (DirOk(c.dh) => DirOk(a.dh))
  BY <1>7 DEF Flushed, LockSame
<1> QED BY <1>2, <1>6, <1>7, <1>8 DEF Finished

---------------------------------------------------------------------------
(* From the device to the answer *)

\* Requests that neither are about locks nor go without an answer.
PlainOps ==
  {"LOOKUP", "GETATTR", "SETATTR", "ACCESS", "READLINK", "MKNOD", "MKDIR", "SYMLINK", "CREATE",
   "OPEN", "READ", "WRITE", "FSYNC", "OPENDIR", "READDIR", "READDIRPLUS", "RELEASEDIR",
   "FSYNCDIR", "STATFS", "SETXATTR", "GETXATTR", "LISTXATTR", "REMOVEXATTR", "BMAP", "IOCTL",
   "POLL", "FALLOCATE"}
Forgets == {"FORGET", "BATCH_FORGET"}
SetOps == {"SETLK", "SETLKW"}
Requests == PlainOps \cup Forgets \cup SetOps \cup {"GETLK", "FLUSH", "RELEASE"}
Opcodes == Requests \cup {"INIT", "UNKNOWN"}

LEMMA WriteEnded == ASSUME NEW c, New(c) PROVE Ended(c, do_write_buf(c))
<1> DEFINE d == WriteData(c)
           a == IF c.req.short THEN fuse_reply_err(d, EIO) ELSE fuse_lib_write_buf(d)
<1>1. New(d) /\ LockSame(c, d)
  BY DEF WriteData, New, Going, Held, LockSame, ReqSame, IsCall, Fields
<1> HIDE DEF d
<1>2. Ended(d, a)
  BY <1>1, PathStart, HandleHandlersEnded, ErrEnded
<1>3. Ended(c, a)
  BY <1>1, <1>2, LockTrans DEF Ended
<1> HIDE DEF a
<1>4. Same(a, Unread(a))
  BY <1>3 DEF Unread, Ended, Answered, Same, LockSame, EndSame, ReqSame, IsCall, Fields
<1>5. Ended(c, Unread(a))
  BY <1>3, <1>4, EndedSame
<1> QED BY <1>5 DEF do_write_buf, d, a

LEMMA PlainEnded ==
  ASSUME NEW c, New(c), DirOk(c.dh), DirReq(c), c.req.op \in PlainOps
  PROVE  Ended(c, fuse_ll_ops(c))
<1>1. \A e : Ended(c, fuse_reply_err(c, e))
  BY PathStart, ErrEnded
<1>2. /\ Ended(c, ll_do_lookup(c)) /\ Ended(c, do_mkdir(c)) /\ Ended(c, do_symlink(c))
      /\ Ended(c, do_mknod(c))
  BY <1>1, NameHandlersEnded DEF Op, ll_do_lookup, do_mkdir, do_symlink, do_mknod
<1>3. /\ Ended(c, do_getattr(c)) /\ Ended(c, do_setattr(c)) /\ Ended(c, do_create(c))
      /\ Ended(c, do_open(c))
  BY <1>1, GetattrEnded, SetattrEnded, OpenHandlersEnded
     DEF Op, do_getattr, do_setattr, do_create, do_open, fuse_path_ops
<1>4. /\ Ended(c, do_access(c)) /\ Ended(c, do_readlink(c)) /\ Ended(c, do_setxattr(c))
      /\ Ended(c, do_removexattr(c)) /\ Ended(c, do_bmap(c)) /\ Ended(c, do_getxattr(c))
      /\ Ended(c, do_listxattr(c)) /\ Ended(c, do_statfs(c))
  BY <1>1, PathHandlersEnded, XattrEnded, StatfsEnded
     DEF Op, do_access, do_readlink, do_setxattr, do_removexattr, do_bmap, do_getxattr,
         do_listxattr, do_statfs, fuse_path_ops
<1>5. /\ Ended(c, do_read(c)) /\ Ended(c, do_fsync(c)) /\ Ended(c, do_fsyncdir(c))
      /\ Ended(c, do_poll(c)) /\ Ended(c, do_fallocate(c)) /\ Ended(c, do_ioctl(c))
  BY <1>1, HandleHandlersEnded, IoctlEnded
     DEF Op, do_read, do_fsync, do_fsyncdir, do_poll, do_fallocate, do_ioctl
<1>6. /\ Ended(c, do_opendir(c)) /\ Ended(c, do_releasedir(c)) /\ Ended(c, do_readdir(c))
      /\ Ended(c, do_readdirplus(c))
  BY <1>1, OpendirEnded, ReaddirEnded
     DEF Op, do_opendir, do_releasedir, do_readdir, do_readdirplus, fuse_path_ops
<1>7. Ended(c, do_write_buf(c))
  BY WriteEnded
<1> QED BY <1>2, <1>3, <1>4, <1>5, <1>6, <1>7 DEF fuse_ll_ops, PlainOps

\* A forget is not answered.
Silent(b, c) ==
  /\ LockSame(b, c) /\ c.nans = 0 /\ c.gone = TRUE /\ c.bad = FALSE /\ c.intr = FALSE
  /\ c.held = 0

LEMMA ForgetsSilent ==
  ASSUME NEW c, New(c), c.req.op \in Forgets PROVE Silent(c, fuse_ll_ops(c))
<1>1. fuse_ll_ops(c) = fuse_reply_none([c EXCEPT !.look = -c.req.n])
  BY DEF fuse_ll_ops, Forgets, do_forget, do_batch_forget, fuse_lib_forget,
         fuse_lib_forget_multi, fuse_path_ops
<1>2. ASSUME NEW n PROVE Silent(c, fuse_reply_none([c EXCEPT !.look = n]))
  BY DEF fuse_reply_none, Use, Silent, New, Going, Held, LockSame, ReqSame, IsCall, Fields
<1> QED BY <1>1, <1>2

\* The range a request for a lock is about.
Asked(c) == flock_to_lock(convert_fuse_file_lock(c.req.lk), c.req.owner)

LEMMA WithFlockFresh ==
  ASSUME NEW c, Fresh(c)
  PROVE  /\ Fresh(WithFlock(c)) /\ LockSame(c, WithFlock(c))
         /\ WithFlock(c).flock = convert_fuse_file_lock(c.req.lk)
BY DEF WithFlock, Fresh, New, Going, Held, LockSame, ReqSame, IsCall, Fields

LEMMA SetOpsEnded ==
  ASSUME NEW c, Fresh(c), c.req.op \in SetOps
  PROVE  \/ Ended(c, fuse_ll_ops(c))
         \/ /\ SetDone(c, fuse_ll_ops(c), Asked(c)) /\ ~c.req.bsd /\ "lock" \in c.conf.reg
<1> DEFINE w == WithFlock(c)
           a == fuse_lib_setlk(w)
<1>1. fuse_ll_ops(c) = do_setlk_common(c)
  BY DEF fuse_ll_ops, SetOps, do_setlk, do_setlkw
<1>2. Fresh(w) /\ LockSame(c, w) /\ w.flock = convert_fuse_file_lock(c.req.lk)
  BY WithFlockFresh
<1>3. Ended(c, fuse_lib_flock(c)) /\ \A e : Ended(c, fuse_reply_err(c, e))
  BY PathStart, ErrEnded, HandleHandlersEnded DEF Fresh
<1>4. CASE c.req.bsd
  BY <1>1, <1>3, <1>4 DEF do_setlk_common, Op
<1>5. CASE ~c.req.bsd
  <2>1. fuse_ll_ops(c) = IF "setlk" \in llop(w) THEN a ELSE fuse_reply_err(w, ENOSYS)
    BY <1>1, <1>5 DEF do_setlk_common, Op
  <2> HIDE DEF w
  <2>2. CASE "setlk" \notin llop(w)
    <3>1. Ready(c, w)
      BY <1>2 DEF Ready, Fresh, New
    <3> QED BY <2>1, <2>2, <3>1, ErrEnded
  <2>3. CASE "setlk" \in llop(w)
    <3>1. "lock" \in c.conf.reg
      BY <1>2, <2>3 DEF llop, Registered, LockSame, ReqSame
    <3>2. flock_to_lock(w.flock, w.req.owner) = Asked(c)
      BY <1>2 DEF Asked, LockSame, ReqSame
    <3>3. Ended(w, a) \/ SetDone(w, a, Asked(c))
      BY <1>2, <3>2, SetlkEnded
    <3> HIDE DEF a
    <3>4. Ended(w, a) => Ended(c, a)
      BY <1>2, LockTrans DEF Ended
    <3>5. ASSUME SetDone(w, a, Asked(c)) PROVE SetDone(c, a, Asked(c))
      <4>1. /\ w.locks = c.locks /\ w.fslocks = c.fslocks /\ w.env = c.env
            /\ ReqSame(c, a) /\ (DirOk(c.dh) => DirOk(w.dh))
        BY <1>2, <3>5 DEF SetDone, LockSame, ReqSame
      <4> QED BY <3>5, <4>1, Zenon DEF SetDone
    <3> QED BY <1>5, <2>1, <2>3, <3>1, <3>3, <3>4, <3>5
  <2> QED BY <2>2, <2>3
<1> QED BY <1>4, <1>5

LEMMA GetOpEnded ==
  ASSUME NEW c, Fresh(c), DOMAIN c.locks \subseteq Nat, c.req.op = "GETLK"
  PROVE  /\ Ended(c, fuse_ll_ops(c))
         /\ fuse_ll_ops(c).kind = "lock" =>
              GetAnswer(WithFlock(c), fuse_ll_ops(c), Asked(c))
<1> DEFINE w == WithFlock(c)
           a == fuse_ll_ops(c)
           g == fuse_lib_getlk(w)
<1>1. a = IF "getlk" \in llop(w) THEN g ELSE fuse_reply_err(w, ENOSYS)
  BY DEF fuse_ll_ops, do_getlk, Op
<1>2. Fresh(w) /\ LockSame(c, w) /\ w.flock = convert_fuse_file_lock(c.req.lk)
  BY WithFlockFresh
<1> HIDE DEF w, a
<1>3. CASE "getlk" \notin llop(w)
  <2>1. Ready(c, w) /\ Going(w)
    BY <1>2 DEF Ready, Fresh, New
  <2>2. a.kind = "err"
    BY <1>1, <1>3, <2>1, AnswerEnd DEF fuse_reply_err
  <2>3. Ended(c, a)
    BY <1>1, <1>3, <2>1, ErrEnded
  <2> QED BY <2>2, <2>3 DEF a
<1>4. CASE "getlk" \in llop(w)
  <2>1. flock_to_lock(w.flock, w.req.owner) = Asked(c)
    BY <1>2 DEF Asked, LockSame, ReqSame
  <2>2. DOMAIN w.locks \subseteq Nat
    BY <1>2 DEF LockSame
  <2>3. Ended(w, g) /\ (g.kind = "lock" => GetAnswer(w, g, Asked(c)))
    BY <1>2, <2>1, <2>2, GetlkEnded
  <2> HIDE DEF g
  <2>4. Ended(c, g)
    BY <1>2, <2>3, LockTrans DEF Ended
  <2> QED BY <1>1, <1>4, <2>3, <2>4 DEF a, w
<1> QED BY <1>3, <1>4

LEMMA CloseOpsEnded ==
  ASSUME NEW c, Fresh(c)
  PROVE  /\ c.req.op = "FLUSH" => /\ Finished(c, fuse_ll_ops(c)) /\ FlushOut(c, fuse_ll_ops(c))
         /\ c.req.op = "RELEASE" =>
              /\ Finished(c, fuse_ll_ops(c))
              /\ LockSame(c, fuse_ll_ops(c)) \/ Flushed(c, fuse_ll_ops(c))
<1>1. c.req.op = "FLUSH" => fuse_ll_ops(c) = fuse_lib_flush(c)
  BY DEF fuse_ll_ops, do_flush, Op, llop, fuse_path_ops
<1>2. c.req.op = "RELEASE" => fuse_ll_ops(c) = fuse_lib_release(c)
  BY DEF fuse_ll_ops, do_release, fuse_path_ops
<1> QED BY <1>1, <1>2, FlushEnded, ReleaseEnded

\* What the answer to a question for a lock says, in terms of the request.
Truthful(b, a) ==
  \/ \E i \in locks_conflict(b.locks, Asked(b)) : a.flock = lock_to_flock(b.locks[i])
  \/ /\ locks_conflict(b.locks, Asked(b)) = {}
     /\ \/ FsConflict(b.fslocks, Asked(b))
        \/ a.flock = [convert_fuse_file_lock(b.req.lk) EXCEPT !.type = "U"]

\* What a request does to the locks.
LocksMoved(b, a) ==
  \/ LockSame(b, a)
  \/ b.req.op \in SetOps /\ ~b.req.bsd /\ "lock" \in b.conf.reg /\ SetDone(b, a, Asked(b))
  \/ b.req.op \in {"FLUSH", "RELEASE"} /\ Flushed(b, a)

\* A request that reached its handler.
Handled(b, a) ==
  /\ b.req.op \in Forgets => Silent(b, a)
  /\ b.req.op \notin Forgets => Finished(b, a)
  /\ LocksMoved(b, a)
  /\ b.req.op = "FLUSH" /\ ~Barred(b) => FlushOut(b, a)
  /\ b.req.op = "GETLK" /\ a.kind = "lock" => Truthful(b, a)

LEMMA EndedFinished == ASSUME NEW b, NEW c, Ended(b, c) PROVE Finished(b, c) /\ LockSame(b, c)
BY DEF Ended, Finished, LockSame

LEMMA OpsHandled ==
  ASSUME NEW c, Fresh(c), DirOk(c.dh), DirReq(c), DOMAIN c.locks \subseteq Nat,
         c.req.op \in Requests
  PROVE  Handled(c, fuse_ll_ops(c))
<1> DEFINE a == fuse_ll_ops(c)
<1>1. CASE c.req.op \in PlainOps
  <2>1. Ended(c, a)
    BY <1>1, PlainEnded DEF Fresh
  <2>2. c.req.op \notin Forgets /\ c.req.op # "FLUSH" /\ c.req.op # "GETLK"
    BY <1>1 DEF PlainOps, Forgets
  <2> HIDE DEF a
  <2> QED BY <2>1, <2>2, EndedFinished DEF Handled, LocksMoved, a
<1>2. CASE c.req.op \in Forgets
  <2>1. Silent(c, a) /\ LockSame(c, a)
    BY <1>2, ForgetsSilent DEF Fresh, Silent
  <2>2. c.req.op # "FLUSH" /\ c.req.op # "GETLK"
    BY <1>2 DEF Forgets
  <2> HIDE DEF a
  <2> QED BY <1>2, <2>1, <2>2 DEF Handled, LocksMoved, a
<1>3. CASE c.req.op \in SetOps
  <2>1. Ended(c, a) \/ (SetDone(c, a, Asked(c)) /\ ~c.req.bsd /\ "lock" \in c.conf.reg)
    BY <1>3, SetOpsEnded
  <2>2. c.req.op \notin Forgets /\ c.req.op # "FLUSH" /\ c.req.op # "GETLK"
    BY <1>3 DEF SetOps, Forgets
  <2> HIDE DEF a
  <2>3. Finished(c, a)
    BY <2>1, EndedFinished DEF SetDone, Finished
  <2>4. LocksMoved(c, a)
    BY <1>3, <2>1, EndedFinished DEF LocksMoved
  <2> QED BY <2>2, <2>3, <2>4 DEF Handled, a
<1>4. CASE c.req.op = "GETLK"
  <2>1. Ended(c, a) /\ (a.kind = "lock" => GetAnswer(WithFlock(c), a, Asked(c)))
    BY <1>4, GetOpEnded
  <2>2. /\ WithFlock(c).locks = c.locks /\ WithFlock(c).fslocks = c.fslocks
        /\ WithFlock(c).flock = convert_fuse_file_lock(c.req.lk)
    BY WithFlockFresh DEF LockSame
  <2> HIDE DEF a
  <2>3. a.kind = "lock" => Truthful(c, a)
    BY <2>1, <2>2 DEF GetAnswer, Truthful
  <2> QED BY <1>4, <2>1, <2>3, EndedFinished DEF Handled, LocksMoved, Forgets, a
<1>5. CASE c.req.op \in {"FLUSH", "RELEASE"}
  <2>1. /\ Finished(c, a) /\ (LockSame(c, a) \/ Flushed(c, a))
        /\ c.req.op = "FLUSH" => FlushOut(c, a)
    BY <1>5, CloseOpsEnded DEF FlushOut
  <2>2. c.req.op \notin Forgets /\ c.req.op # "GETLK"
    BY <1>5 DEF Forgets
  <2> HIDE DEF a
  <2> QED BY <1>5, <2>1, <2>2 DEF Handled, LocksMoved, a
<1> QED BY <1>1, <1>2, <1>3, <1>4, <1>5 DEF Requests

\* The same, seen from before the request was taken out of the pipe.
LEMMA HandledFrom ==
  ASSUME NEW b, NEW c, LockSame(b, c), NEW a, Handled(c, a) PROVE Handled(b, a)
<1>1. /\ c.req = b.req /\ c.conf = b.conf /\ c.env = b.env /\ c.locks = b.locks
      /\ c.fslocks = b.fslocks /\ c.lost = b.lost /\ (DirOk(b.dh) => DirOk(c.dh))
      /\ Asked(c) = Asked(b)
  BY DEF LockSame, ReqSame, Asked
<1>2. Silent(c, a) => Silent(b, a)
  BY LockTrans DEF Silent
<1>3. Finished(c, a) => Finished(b, a)
  BY <1>1 DEF Finished, ReqSame
<1>9. Barred(c) = Barred(b)
  BY <1>1 DEF Barred
<1>4. Flushed(c, a) => Flushed(b, a)
  BY FlushedFrom
<1>5. SetDone(c, a, Asked(c)) => SetDone(b, a, Asked(b))
  <2>1. ReqSame(c, a) => ReqSame(b, a)
    BY <1>1 DEF ReqSame
  <2> QED BY <1>1, <2>1, Zenon DEF SetDone
<1>6. Truthful(c, a) => Truthful(b, a)
  BY <1>1 DEF Truthful
<1>7. LocksMoved(c, a) => LocksMoved(b, a)
  BY <1>1, <1>4, <1>5, LockTrans DEF LocksMoved
<1>8. FlushOut(c, a) => FlushOut(b, a)
  BY <1>4, LockTrans DEF FlushOut
<1> QED BY <1>1, <1>2, <1>3, <1>6, <1>7, <1>8, <1>9 DEF Handled

\* A request that was not taken out of the pipe.
Undelivered(b, a) == a.kind \in Unhandled /\ LockSame(b, a)

\* A request of a header alone never stays in the pipe.
LEMMA SmallInMemory ==
  ASSUME NEW io_, NEW u_, NEW mem, NEW want, NEW bufsize,
         NEW r, r = fuse_session_receive_buf_int(io_, Bytes(u_, "q", 0, 0), mem, want, bufsize)
  PROVE  r.in # "fd"
<1> DEFINE s == Bytes(u_, "q", 0, 0)
<1>1. Len(s) = 1
  <2>1. s = [i \in 1 .. 1 |-> Byte(u_, "q", 0 + i - 1)]
    BY DEF Bytes
  <2> QED BY <2>1
<1> HIDE DEF s
<1>2. ASSUME NEW x PROVE Ends(x).in = "none" /\ \A p, t : Received(x, p, t).in = p
  BY DEF Ends, Received
<1>3. ASSUME NEW x PROVE ReadIn(x, s, mem).in # "fd"
  BY <1>2 DEF ReadIn
<1>4. ASSUME NEW x PROVE FromPipe(x, 1, mem).in # "fd"
  BY <1>2 DEF FromPipe, CopyOut, Located, HEADER, PAGE
<1>5. ASSUME NEW x PROVE ReceiveBy(x, s, mem, bufsize).in # "fd"
  BY <1>1, <1>2, <1>3, <1>4 DEF ReceiveBy, SpliceIn
<1> QED BY <1>3, <1>5 DEF fuse_session_receive_buf_int, s

\* What the handler gets.
Delivered(b, c) == LockSame(b, c) /\ (Fresh(c) \/ c.kind \in Unhandled)

LEMMA DroppedIs ==
  ASSUME NEW b, NEW c, LockSame(b, c) PROVE Undelivered(b, Dropped(c))
BY DEF Dropped, Undelivered, Unhandled, LockSame, ReqSame, IsCall, Fields

LEMMA HeadDelivered ==
  ASSUME NEW b, NEW c, Delivered(b, c)
  PROVE  Delivered(b, WithHead(c)) /\ (c.in # "fd" => WithHead(c).in # "fd")
<1>1. ASSUME NEW h, NEW x PROVE Delivered(b, [c EXCEPT !.head = h, !.io = x])
  BY DEF Delivered, Fresh, New, Going, Held, LockSame, ReqSame, IsCall, Fields
<1>2. ASSUME NEW d, Delivered(b, d) PROVE Delivered(b, HeadIn(d)) /\ Delivered(b, Dropped(d))
  BY <1>2, DroppedIs DEF HeadIn, Delivered, Undelivered
<1>3. Delivered(b, Stale(c)) /\ Stale(c).in = c.in
  <2>1. Delivered(b, [c EXCEPT !.io.ended = TRUE, !.kind = "stray"])
    BY DEF Delivered, Unhandled, LockSame, ReqSame, IsCall, Fields
  <2>2. IsCall(c)
    BY DEF Delivered, LockSame, ReqSame
  <2>3. Dropped(c).in = c.in /\ [c EXCEPT !.io.ended = TRUE, !.kind = "stray"].in = c.in
    BY <2>2 DEF Dropped, IsCall, Fields
  <2> QED BY <1>2, <2>1, <2>3 DEF Stale
<1> QED BY <1>1, <1>2, <1>3 DEF WithHead

LEMMA RefuseEnded ==
  ASSUME NEW b, NEW c, LockSame(b, c), Fresh(c), NEW e
  PROVE  Ended(b, Refuse(c, e)) /\ Refuse(c, e).kind = "err"
<1> DEFINE d == fuse_reply_err(c, e)
<1>1. Ended(b, d) /\ d.kind = "err"
  <2>1. Ready(b, c) /\ Going(c)
    BY DEF Ready, Fresh, New
  <2> QED BY <2>1, ErrEnded, AnswerEnd DEF fuse_reply_err
<1> HIDE DEF d
<1>2. \A x : Same(d, [d EXCEPT !.io = x]) /\ [d EXCEPT !.io = x].kind = "err"
  BY <1>1 DEF Ended, Answered, Same, LockSame, EndSame, ReqSame, IsCall, Fields
<1>3. Same(d, d)
  BY <1>1, SameSelf DEF Ended, Answered
<1> QED BY <1>1, <1>2, <1>3, EndedSame DEF Refuse, Cleared, d

LEMMA AdmittedIs ==
  ASSUME NEW b, NEW c, Delivered(b, c), b.req.op \in Opcodes, NEW m, m = Admitted(c)
  PROVE  \/ /\ Delivered(b, m) /\ (c.in # "fd" => m.in # "fd")
            /\ m.kind \in Unhandled \/ b.req.op \in Requests
         \/ /\ Ended(b, m) /\ m.kind = "err" /\ m.in = c.in
            /\ Barred(b) \/ b.req.op \in {"INIT", "UNKNOWN"}
<1>1. c.req = b.req /\ c.conf = b.conf /\ Barred(c) = Barred(b) /\ LockSame(b, c) /\ IsCall(c)
  BY DEF Delivered, LockSame, ReqSame, Barred
<1>2. CASE c.kind # "none"
  <2>1. m = c
    BY <1>2 DEF Admitted
  <2>2. c.kind \in Unhandled
    BY <1>2 DEF Delivered, Fresh, New, Going
  <2> QED BY <2>1, <2>2
<1>3. CASE c.kind = "none" /\ ~c.env.rqmem
  <2>1. m = Cleared([c EXCEPT !.kind = "noreq"])
    BY <1>3 DEF Admitted, NoRequest
  <2> DEFINE n == [c EXCEPT !.kind = "noreq"]
  <2>2. /\ n.kind = "noreq" /\ n.in = c.in /\ LockSame(b, n)
        /\ \A x : /\ [n EXCEPT !.io = x].kind = "noreq" /\ [n EXCEPT !.io = x].in = c.in
                  /\ LockSame(b, [n EXCEPT !.io = x])
    BY <1>1 DEF LockSame, ReqSame, IsCall, Fields
  <2> HIDE DEF n
  <2>3. m.kind = "noreq" /\ m.in = c.in /\ LockSame(b, m)
    BY <2>1, <2>2 DEF Cleared, n
  <2> QED BY <2>3 DEF Delivered, Unhandled
<1>4. CASE c.kind = "none" /\ c.env.rqmem
  <2>1. Fresh(c)
    BY <1>4 DEF Delivered, Unhandled
  <2>2. \/ m = c /\ ~Barred(c) /\ c.req.op \notin {"INIT", "UNKNOWN"}
        \/ /\ m \in {Refuse(c, EIO), Refuse(c, EACCES), Refuse(c, ENOSYS)}
           /\ Barred(c) \/ c.req.op \in {"INIT", "UNKNOWN"}
    BY <1>4, Zenon DEF Admitted
  <2>3. ASSUME NEW e PROVE Refuse(c, e).in = c.in
    BY <1>1 DEF Refuse, Cleared, fuse_reply_err, send_reply_iov, Use, IsCall, Fields
  <2>4. CASE m = c /\ ~Barred(c) /\ c.req.op \notin {"INIT", "UNKNOWN"}
    BY <1>1, <2>4 DEF Opcodes
  <2>5. CASE /\ m \in {Refuse(c, EIO), Refuse(c, EACCES), Refuse(c, ENOSYS)}
             /\ Barred(c) \/ c.req.op \in {"INIT", "UNKNOWN"}
    <3>1. Ended(b, m) /\ m.kind = "err" /\ m.in = c.in
      BY <1>1, <2>1, <2>3, <2>5, RefuseEnded
    <3> QED BY <1>1, <2>5, <3>1
  <2> QED BY <2>2, <2>4, <2>5
<1> QED BY <1>2, <1>3, <1>4

LEMMA RestDelivered ==
  ASSUME NEW b, NEW c, Delivered(b, c)
  PROVE  \/ Delivered(b, WithRest(c))
         \/ c.in = "fd" /\ Ended(b, WithRest(c)) /\ WithRest(c).kind = "err"
<1>1. CASE c.in # "fd" \/ c.req.op = "WRITE" \/ c.kind # "none"
  BY <1>1 DEF WithRest
<1>2. CASE c.in = "fd" /\ c.req.op # "WRITE" /\ c.kind = "none"
  <2>1. Fresh(c) /\ LockSame(b, c)
    BY <1>2 DEF Delivered, Unhandled
  <2>2. ASSUME NEW x PROVE Fresh([c EXCEPT !.io = x]) /\ LockSame(b, [c EXCEPT !.io = x])
    BY <2>1 DEF Fresh, New, Going, Held, LockSame, ReqSame, IsCall, Fields
  <2>3. ASSUME NEW d, Fresh(d), LockSame(b, d)
        PROVE  Fresh([d EXCEPT !.in = "mem"]) /\ LockSame(b, [d EXCEPT !.in = "mem"])
    BY <2>3 DEF Fresh, New, Going, Held, LockSame, ReqSame, IsCall, Fields
  <2>4. CASE ~c.env.mem
    <3>1. WithRest(c) = Refuse(c, ENOMEM)
      BY <1>2, <2>4 DEF WithRest
    <3> QED BY <1>2, <2>1, <3>1, RefuseEnded
  <2>5. CASE c.env.mem
    <3> DEFINE x == CopyFromPipe(c.io, c.req.len)
               d == [c EXCEPT !.io = x]
    <3>1. WithRest(c) = RestIn(d)
      BY <1>2, <2>5 DEF WithRest
    <3>2. Fresh(d) /\ LockSame(b, d)
      BY <2>2
    <3> HIDE DEF d
    <3> QED BY <1>2, <2>3, <3>1, <3>2, RefuseEnded DEF RestIn, Delivered
  <2> QED BY <2>4, <2>5
<1> QED BY <1>1, <1>2

LEMMA ArrivedDelivered ==
  ASSUME NEW c, Fresh(c), NEW r
  PROVE  Delivered(c, Arrived(c, r)) /\ (r.in # "fd" => Arrived(c, r).in # "fd")
BY DEF Arrived, Delivered, Unhandled, Fresh, New, Going, Held, LockSame, ReqSame, IsCall, Fields

LEMMA ProcessedIs ==
  ASSUME NEW c, Fresh(c), DirOk(c.dh), DirReq(c), DOMAIN c.locks \subseteq Nat,
         c.req.op \in Opcodes, c.req.op \in Forgets \cup {"FLUSH"} => c.req.len = 0,
         c.req.op \in Forgets => ~c.req.stranger,
         NEW a, a = receive_and_process(c)
  PROVE  Undelivered(c, a) \/ Handled(c, a)
<1> DEFINE r == fuse_session_receive_buf_int(c.io, Bytes(c.env.u, "q", 0, c.req.len),
                                             c.env.rmem, c.conf.splice, c.conf.bufsize)
           d == Arrived(c, r)
           h == WithHead(d)
           m == Admitted(h)
           t == WithRest(m)
<1>1. a = Dispatch(t)
  BY DEF receive_and_process, fuse_session_process_buf_int
<1>2. c.req.len = 0 => r.in # "fd"
  BY SmallInMemory
<1> HIDE DEF r
<1>3. Delivered(c, d) /\ (r.in # "fd" => d.in # "fd")
  BY ArrivedDelivered
<1> HIDE DEF d
<1>4. Delivered(c, h) /\ (d.in # "fd" => h.in # "fd")
  BY <1>3, HeadDelivered
<1> HIDE DEF h
<1>9. \/ /\ Delivered(c, m) /\ (h.in # "fd" => m.in # "fd")
         /\ m.kind \in Unhandled \/ c.req.op \in Requests
      \/ /\ Ended(c, m) /\ m.kind = "err" /\ m.in = h.in
         /\ Barred(c) \/ c.req.op \in {"INIT", "UNKNOWN"}
  BY <1>4, AdmittedIs
<1> HIDE DEF m
<1>10. CASE /\ Ended(c, m) /\ m.kind = "err"
            /\ Barred(c) \/ c.req.op \in {"INIT", "UNKNOWN"}
  <2>1. t = m
    BY <1>10 DEF WithRest
  <2> HIDE DEF t
  <2>2. a = m
    BY <1>1, <1>10, <2>1 DEF Dispatch
  <2>3. Finished(c, a) /\ LockSame(c, a) /\ a.kind = "err"
    BY <1>10, <2>2, EndedFinished
  <2>4. c.req.op \notin Forgets /\ (c.req.op = "FLUSH" => Barred(c))
    BY <1>10 DEF Barred, Forgets
  <2> QED BY <2>3, <2>4 DEF Handled, LocksMoved
<1> SUFFICES ASSUME Delivered(c, m), h.in # "fd" => m.in # "fd",
                    m.kind \in Unhandled \/ c.req.op \in Requests
             PROVE  Undelivered(c, a) \/ Handled(c, a)
  BY <1>9, <1>10
<1>5. Delivered(c, t) \/ (m.in = "fd" /\ Ended(c, t) /\ t.kind = "err")
  BY RestDelivered
<1>11. m.kind \in Unhandled => t = m
  BY DEF WithRest, Unhandled
<1> HIDE DEF t
<1>6. CASE Delivered(c, t) /\ t.kind \in Unhandled
  BY <1>1, <1>6 DEF Dispatch, Delivered, Undelivered, Unhandled
<1>7. CASE Delivered(c, t) /\ t.kind \notin Unhandled
  <2>1. Fresh(t) /\ LockSame(c, t) /\ t.kind = "none"
    BY <1>7 DEF Delivered, Fresh, New, Going
  <2>5. c.req.op \in Requests
    BY <1>7, <1>11
  <2>2. DirOk(t.dh) /\ DirReq(t) /\ DOMAIN t.locks \subseteq Nat /\ t.req.op \in Requests
    BY <2>1, <2>5 DEF LockSame, ReqSame, DirReq
  <2>3. Handled(t, fuse_ll_ops(t))
    BY <2>1, <2>2, OpsHandled
  <2>4. a = fuse_ll_ops(t)
    BY <1>1, <2>1 DEF Dispatch
  <2> QED BY <2>1, <2>3, <2>4, HandledFrom
<1>8. CASE m.in = "fd" /\ Ended(c, t) /\ t.kind = "err"
  <2>1. a = t
    BY <1>1, <1>8 DEF Dispatch
  <2>2. c.req.op \notin Forgets \cup {"FLUSH"}
    BY <1>2, <1>3, <1>4, <1>8
  <2>3. Finished(c, a) /\ LockSame(c, a)
    BY <1>8, <2>1, EndedFinished
  <2> QED BY <1>8, <2>1, <2>2, <2>3 DEF Handled, LocksMoved
<1> QED BY <1>5, <1>6, <1>7, <1>8

---------------------------------------------------------------------------
(* What a request does to the locks, byte by byte *)

\* A request as the kernel makes it.
IsRange(lk) == lk.start \in Offsets /\ lk.end \in Offsets /\ lk.start <= lk.end
ReqOk(r) ==
  /\ r.op \in Opcodes /\ r.off \in Nat
  /\ r.op \in Forgets \cup {"FLUSH"} => r.len = 0
  /\ r.op \in Forgets => ~r.stranger
  /\ r.op \in SetOps \cup {"GETLK", "FLUSH", "RELEASE"} => r.owner \in Owners
  /\ r.op \in SetOps /\ ~r.bsd => IsRange(r.lk) /\ r.lk.type \in LockTypes \cup {"U"}
  /\ r.op = "GETLK" => IsRange(r.lk) /\ r.lk.type \in LockTypes

LEMMA AskedIs ==
  ASSUME NEW c, c.req.owner \in Owners, IsRange(c.req.lk),
         c.req.lk.type \in LockTypes \cup {"U"}
  PROVE  /\ Asked(c) = [owner |-> c.req.owner, type |-> c.req.lk.type,
                        start |-> c.req.lk.start, end |-> c.req.lk.end]
         /\ Asked(c) \in NewLock /\ Asked(c).start <= Asked(c).end
<1> DEFINE k == [owner |-> c.req.owner, type |-> c.req.lk.type,
                 start |-> c.req.lk.start, end |-> c.req.lk.end]
<1>1. k \in NewLock /\ k.start <= k.end
  BY DEF NewLock, IsRange
<1>2. convert_fuse_file_lock(k) = convert_fuse_file_lock(c.req.lk)
  BY DEF convert_fuse_file_lock
<1>3. flock_to_lock(convert_fuse_file_lock(k), k.owner) = k
  BY <1>1, FlockRoundTrip
<1>4. Asked(c) = k
  BY <1>2, <1>3 DEF Asked
<1> QED BY <1>1, <1>4

LEMMA EverythingIs ==
  ASSUME NEW o \in Owners
  PROVE  /\ Everything(o) \in NewLock /\ Everything(o).start <= Everything(o).end
         /\ ~NeedsMemory(Everything(o))
BY OffsetAssumption DEF Everything, NewLock, NeedsMemory, Offsets

LEMMA FsSetIs == ASSUME NEW fl, NEW k PROVE FsSet(fl, k) = SetBytes(fl, k)
BY DEF FsSet, SetBytes

\* A list that gives no byte of an owner's a type has nothing of that owner's.
LEMMA NothingHeld ==
  ASSUME NEW ls, LockList(ls), NEW o \in Owners, \A b \in Offsets : HeldBytes(ls)[o][b] = "U"
  PROVE  \A i \in DOMAIN ls : ls[i].owner # o
<1> SUFFICES ASSUME NEW i \in DOMAIN ls, ls[i].owner = o PROVE FALSE
  OBVIOUS
<1> DEFINE b == ls[i].start
           t == ls[i].type
<1>1. i \in 1 .. Len(ls) /\ ls[i] \in Lock /\ ls[i].start <= ls[i].end
  BY DEF LockList, RangeList
<1>2. b \in Offsets /\ t \in LockTypes
  BY <1>1 DEF Lock
<1>3. Says(ls, Len(ls), o, b, t)
  BY <1>1, <1>2 DEF Says, In, Offsets
<1>4. HeldBytes(ls)[o][b] = t
  BY <1>2, <1>3, HeldIs
<1> QED BY <1>2, <1>4 DEF LockTypes

LEMMA HeldTyped == ASSUME NEW ls PROVE
  HeldBytes(ls) = [o \in Owners |-> [b \in Offsets |-> HeldBytes(ls)[o][b]]]
BY DEF HeldBytes

LEMMA SetTyped ==
  ASSUME NEW ls, NEW k \in NewLock, NEW o \in Owners, NEW b \in Offsets
  PROVE  SetBytes(HeldBytes(ls), k)[o][b] =
           IF k.owner = o /\ k.start <= b /\ b <= k.end THEN k.type ELSE HeldBytes(ls)[o][b]
<1> DEFINE h == HeldBytes(ls)
<1>1. h = [p \in Owners |-> [d \in Offsets |-> h[p][d]]]
  BY HeldTyped
<1>2. k.owner \in Owners
  BY DEF NewLock
<1> HIDE DEF h
<1>3. DOMAIN h = Owners
  BY <1>1
<1>4. SetBytes(h, k)[o] = IF o = k.owner
                          THEN [d \in Offsets |-> IF k.start <= d /\ d <= k.end THEN k.type
                                                  ELSE h[o][d]]
                          ELSE h[o]
  BY <1>2, <1>3 DEF SetBytes
<1> QED BY <1>4 DEF h

\* After an owner's locks are taken back the record has none of them, and is empty if it was.
LEMMA FlushedNone ==
  ASSUME NEW b, NEW a, Flushed(b, a), LockList(b.locks), b.req.owner \in Owners,
         b.env.lkmem \in BOOLEAN
  PROVE  /\ LockList(a.locks)
         /\ HeldBytes(a.locks) = SetBytes(HeldBytes(b.locks), Everything(b.req.owner))
         /\ \A i \in DOMAIN a.locks : a.locks[i].owner # b.req.owner
         /\ b.locks = <<>> => a.locks = <<>>
<1> DEFINE k == Everything(b.req.owner)
           ls == b.locks
           new == a.locks
<1>1. k \in NewLock /\ k.start <= k.end /\ ~NeedsMemory(k)
  BY EverythingIs
<1>2. new = locks_insert(ls, k, b.env.lkmem)
  BY DEF Flushed
<1>3. LockList(new) /\ HeldBytes(new) = SetBytes(HeldBytes(ls), k)
  BY <1>1, <1>2, LocksInsertExact
<1>4. ASSUME NEW d \in Offsets PROVE HeldBytes(new)[b.req.owner][d] = "U"
  <2>1. k.owner = b.req.owner /\ k.type = "U" /\ k.start = 0 /\ k.end = OFFSET_MAX
    BY DEF Everything
  <2>2. 0 <= d /\ d <= OFFSET_MAX
    BY OffsetAssumption DEF Offsets
  <2> HIDE DEF k, new
  <2> QED BY <1>1, <1>3, <2>1, <2>2, SetTyped
<1> HIDE DEF k, new
<1>5. \A i \in DOMAIN new : new[i].owner # b.req.owner
  BY <1>3, <1>4, NothingHeld
<1>6. ASSUME ls = <<>> PROVE new = <<>>
  <2>1. ASSUME NEW o \in Owners, NEW d \in Offsets PROVE HeldBytes(new)[o][d] = "U"
    <3>1. HeldBytes(ls)[o][d] = "U"
      <4>1. Covering(<<>>, o, d) = {}
        BY DEF Covering
      <4> QED BY <1>6, <4>1 DEF HeldBytes
    <3>2. k.type = "U"
      BY DEF k, Everything
    <3> QED BY <1>1, <1>3, <3>1, <3>2, SetTyped
  <2>2. \A o \in Owners : \A i \in DOMAIN new : new[i].owner # o
    BY <1>3, <2>1, NothingHeld
  <2>3. new \in Seq(Lock)
    BY <1>3 DEF LockList, RangeList
  <2>4. ASSUME new # <<>> PROVE FALSE
    <3>1. 1 \in DOMAIN new /\ new[1] \in Lock
      BY <2>3, <2>4
    <3> QED BY <2>2, <3>1 DEF Lock
  <2> QED BY <2>4
<1> QED BY <1>3, <1>5, <1>6 DEF k, new

LEMMA MovedLocks ==
  ASSUME NEW b, NEW a, LocksMoved(b, a), ReqOk(b.req), LockList(b.locks), b.env.lkmem \in BOOLEAN
  PROVE  /\ LockList(a.locks)
         /\ \/ HeldBytes(a.locks) = HeldBytes(b.locks)
            \/ \E k \in NewLock : /\ k.start <= k.end
                                  /\ HeldBytes(a.locks) = SetBytes(HeldBytes(b.locks), k)
         /\ HeldBytes(b.locks) = b.fslocks => a.lost \/ HeldBytes(a.locks) = a.fslocks
         /\ "lock" \notin b.conf.reg /\ b.locks = <<>> => a.locks = <<>>
<1>1. CASE LockSame(b, a)
  BY <1>1 DEF LockSame
<1>2. CASE /\ b.req.op \in SetOps /\ ~b.req.bsd /\ "lock" \in b.conf.reg
           /\ SetDone(b, a, Asked(b))
  <2> DEFINE k == Asked(b)
             h == HeldBytes(b.locks)
  <2>1. k \in NewLock /\ k.start <= k.end
    BY <1>2, AskedIs DEF ReqOk
  <2>2. a.locks = locks_insert(b.locks, k, b.env.lkmem) /\ a.fslocks = SetBytes(b.fslocks, k)
    BY <1>2, FsSetIs DEF SetDone
  <2>3. NeedsMemory(k) /\ ~b.env.lkmem => a.lost
    BY <1>2, Zenon DEF SetDone
  <2> HIDE DEF k
  <2>4. /\ LockList(a.locks)
        /\ HeldBytes(a.locks) = IF NeedsMemory(k) /\ ~b.env.lkmem THEN h ELSE SetBytes(h, k)
    BY <2>1, <2>2, LocksInsertExact
  <2>5. HeldBytes(a.locks) = h \/ HeldBytes(a.locks) = SetBytes(h, k)
    BY <2>4, Zenon
  <2>6. h = b.fslocks => a.lost \/ HeldBytes(a.locks) = a.fslocks
    BY <2>2, <2>3, <2>4, Zenon
  <2> QED BY <1>2, <2>1, <2>4, <2>5, <2>6
<1>3. CASE b.req.op \in {"FLUSH", "RELEASE"} /\ Flushed(b, a)
  <2> DEFINE k == Everything(b.req.owner)
  <2>1. b.req.owner \in Owners
    BY <1>3 DEF ReqOk
  <2>2. k \in NewLock /\ k.start <= k.end
    BY <2>1, EverythingIs
  <2>3. /\ LockList(a.locks) /\ HeldBytes(a.locks) = SetBytes(HeldBytes(b.locks), k)
        /\ b.locks = <<>> => a.locks = <<>>
    BY <1>3, <2>1, FlushedNone
  <2>4. a.fslocks = SetBytes(b.fslocks, k) \/ a.lost
    BY <1>3, FsSetIs DEF Flushed
  <2> HIDE DEF k
  <2>5. HeldBytes(b.locks) = b.fslocks => a.lost \/ HeldBytes(a.locks) = a.fslocks
    BY <2>3, <2>4, Zenon
  <2> QED BY <2>2, <2>3, <2>5
<1> QED BY <1>1, <1>2, <1>3 DEF LocksMoved

\* The answer names a lock another owner has there, and says free only if all of it is.
LEMMA TruthfulIs ==
  ASSUME NEW b, NEW a, Truthful(b, a), ReqOk(b.req), b.req.op = "GETLK", LockList(b.locks),
         b.fslocks = HeldBytes(b.locks),
         NEW ans, ans = FlockAnswer(a.flock),
         NEW k, k = [owner |-> b.req.owner, type |-> b.req.lk.type,
                     start |-> b.req.lk.start, end |-> b.req.lk.end]
  PROVE  IF ans.type = "U" THEN ~FsConflict(b.fslocks, k)
         ELSE /\ ans.start <= k.end /\ k.start <= ans.end
              /\ "W" \in {ans.type, k.type}
              /\ \E o \in Owners \ {b.req.owner} :
                   \A d \in ans.start .. ans.end : b.fslocks[o][d] = ans.type
<1>1. Asked(b) = k /\ k \in NewLock /\ k.start <= k.end /\ b.req.lk.type \in LockTypes
  BY AskedIs DEF ReqOk
<1>2. k \in Lock /\ k.owner = b.req.owner
  BY <1>1 DEF Lock, NewLock
<1>3. CASE locks_conflict(b.locks, k) = {}
  <2>1. ~FsConflict(b.fslocks, k)
    BY <1>1, <1>2, <1>3, LocksConflictExact DEF FsConflict
  <2>2. a.flock = [convert_fuse_file_lock(b.req.lk) EXCEPT !.type = "U"]
    BY <1>1, <1>3, <2>1 DEF Truthful
  <2>3. a.flock.type = "U"
    BY <2>2 DEF convert_fuse_file_lock
  <2>4. ans.type = "U"
    BY <2>3 DEF FlockAnswer
  <2> QED BY <2>1, <2>4
<1>4. CASE locks_conflict(b.locks, k) # {}
  <2>1. PICK i \in locks_conflict(b.locks, k) : a.flock = lock_to_flock(b.locks[i])
    BY <1>1, <1>4 DEF Truthful
  <2> DEFINE l == b.locks[i]
  <2>2. /\ i \in DOMAIN b.locks /\ l.owner # k.owner /\ k.start <= l.end /\ l.start <= k.end
        /\ "W" \in {l.type, k.type}
    BY DEF locks_conflict
  <2>3. i \in 1 .. Len(b.locks) /\ l \in Lock /\ l.start <= l.end
    BY <2>2 DEF LockList, RangeList
  <2>4. l \in NewLock /\ l.type \in LockTypes /\ l.type # "U" /\ l.owner \in Owners
    BY <2>3 DEF Lock, NewLock, LockTypes
  <2> HIDE DEF l
  <2>5. ans = [type |-> l.type, start |-> l.start, end |-> l.end]
    BY <2>1, <2>3, <2>4, FlockRoundTrip DEF l
  <2>6. ASSUME NEW d \in l.start .. l.end PROVE b.fslocks[l.owner][d] = l.type
    <3>1. d \in Offsets
      <4>1. l.start \in Offsets /\ l.end \in Offsets
        BY <2>3 DEF Lock
      <4> QED BY <2>6, <4>1, OffsetAssumption DEF Offsets
    <3>2. Says(b.locks, Len(b.locks), l.owner, d, l.type)
      BY <2>3, <2>6 DEF Says, In, l, Lock, Offsets
    <3> QED BY <2>4, <3>1, <3>2, HeldIs
  <2> QED BY <1>2, <2>2, <2>4, <2>5, <2>6
<1> QED BY <1>3, <1>4

---------------------------------------------------------------------------
(* The kernel's requests and the world they meet *)

EnvFields ==
  {"path", "fail", "code", "val", "mem", "node", "dev", "lkmem", "isreg", "ver", "listing",
   "rmem", "hmem", "rqmem", "sys", "stray", "shape", "known", "u"}
EnvOk(e) == DOMAIN e = EnvFields /\ e.listing = listing /\ e.lkmem \in BOOLEAN

LEMMA FineOk == EnvOk(Fine)
BY DEF EnvOk, EnvFields, Fine

LEMMA FaultOk ==
  ASSUME NEW e, EnvOk(e), NEW x, NEW y, NEW z
  PROVE  /\ EnvOk([e EXCEPT !.path = x]) /\ EnvOk([e EXCEPT !.mem = x])
         /\ EnvOk([e EXCEPT !.node = x]) /\ EnvOk([e EXCEPT !.isreg = x])
         /\ EnvOk([e EXCEPT !.lkmem = FALSE]) /\ EnvOk([e EXCEPT !.val = x])
         /\ EnvOk([e EXCEPT !.fail = x, !.code = y]) /\ EnvOk([e EXCEPT !.dev = x])
         /\ EnvOk([e EXCEPT !.dev = x, !.fail = y, !.code = z])
         /\ EnvOk([e EXCEPT !.hmem = x]) /\ EnvOk([e EXCEPT !.rmem = x])
         /\ EnvOk([e EXCEPT !.sys = x]) /\ EnvOk([e EXCEPT !.shape = x])
         /\ EnvOk([e EXCEPT !.rqmem = x]) /\ EnvOk([e EXCEPT !.known = x])
         /\ EnvOk([e EXCEPT !.stray = x, !.sys = y])
BY DEF EnvOk, EnvFields

\* Everything that may go wrong is Fine but for some fields.
LEMMA FaultsAre ==
  ASSUME NEW x, NEW y, NEW z
  PROVE  /\ EnvOk(Fine)
         /\ EnvOk([Fine EXCEPT !.path = x]) /\ EnvOk([Fine EXCEPT !.mem = x])
         /\ EnvOk([Fine EXCEPT !.node = x]) /\ EnvOk([Fine EXCEPT !.isreg = x])
         /\ EnvOk([Fine EXCEPT !.lkmem = FALSE]) /\ EnvOk([Fine EXCEPT !.val = x])
         /\ EnvOk([Fine EXCEPT !.fail = x, !.code = y]) /\ EnvOk([Fine EXCEPT !.dev = x])
         /\ EnvOk([Fine EXCEPT !.dev = x, !.fail = y, !.code = z])
         /\ EnvOk([Fine EXCEPT !.hmem = x]) /\ EnvOk([Fine EXCEPT !.rmem = x])
         /\ EnvOk([Fine EXCEPT !.sys = x])
         /\ EnvOk([Fine EXCEPT !.rqmem = x]) /\ EnvOk([Fine EXCEPT !.known = x])
         /\ EnvOk([Fine EXCEPT !.stray = x, !.sys = y])
<1> DEFINE e == Fine
<1>1. EnvOk(e)
  BY FineOk
<1> HIDE DEF e
<1>2. /\ EnvOk([e EXCEPT !.path = x]) /\ EnvOk([e EXCEPT !.mem = x])
      /\ EnvOk([e EXCEPT !.node = x]) /\ EnvOk([e EXCEPT !.isreg = x])
      /\ EnvOk([e EXCEPT !.lkmem = FALSE]) /\ EnvOk([e EXCEPT !.val = x])
      /\ EnvOk([e EXCEPT !.fail = x, !.code = y]) /\ EnvOk([e EXCEPT !.dev = x])
      /\ EnvOk([e EXCEPT !.dev = x, !.fail = y, !.code = z])
      /\ EnvOk([e EXCEPT !.hmem = x]) /\ EnvOk([e EXCEPT !.rmem = x])
      /\ EnvOk([e EXCEPT !.sys = x])
      /\ EnvOk([e EXCEPT !.rqmem = x]) /\ EnvOk([e EXCEPT !.known = x])
      /\ EnvOk([e EXCEPT !.stray = x, !.sys = y])
  BY <1>1, FaultOk
<1> QED BY <1>1, <1>2, Zenon DEF e

LEMMA FailsAre ==
  ASSUME NEW x, NEW y, NEW z, NEW e,
         e = [Fine EXCEPT !.fail = x, !.code = y] \/ e = [Fine EXCEPT !.dev = z, !.fail = x, !.code = y]
  PROVE  EnvOk(e)
BY DEF EnvOk, EnvFields, Fine

LEMMA WorldOk == \A e \in World : EnvOk(e)
<1>1. ASSUME NEW e \in Faults PROVE EnvOk(e)
  <2>1. CASE e = Fine
    BY <2>1, FaultsAre, Zenon
  <2>2. CASE e \in {[Fine EXCEPT !.path = p] : p \in {ENOENT, ENOMEM}}
    BY <2>2, FaultsAre, Zenon
  <2>3. CASE e \in {[Fine EXCEPT !.mem = FALSE], [Fine EXCEPT !.node = FALSE],
                    [Fine EXCEPT !.isreg = FALSE], [Fine EXCEPT !.lkmem = FALSE],
                    [Fine EXCEPT !.val = 0]}
    BY <2>3, FaultsAre, Zenon
  <2>4. CASE e \in {[Fine EXCEPT !.fail = f[1], !.code = f[2]] : f \in Failing}
    BY <2>4, FailsAre
  <2> QED BY <2>1, <2>2, <2>3, <2>4, Zenon DEF Faults
<1>2. ASSUME NEW e \in {[Fine EXCEPT !.dev = ENOENT, !.fail = f, !.code = EIO] :
                         f \in {{}, {1}, {2}, {3}}}
      PROVE  EnvOk(e)
  BY FailsAre
<1> QED BY <1>1, <1>2, Zenon DEF World

LEMMA CalmOk ==
  /\ \A e \in Calm : EnvOk(e)
  /\ \A e \in Calm \cup {[Fine EXCEPT !.node = FALSE]} : EnvOk(e)
  /\ \A e \in CacheFaults : EnvOk(e)
<1>1. ASSUME NEW e \in Calm PROVE EnvOk(e)
  <2>1. CASE e = [Fine EXCEPT !.fail = {1}, !.code = EIO]
    BY <2>1, FailsAre
  <2> QED BY <2>1, FaultsAre, Zenon DEF Calm
<1>2. \A e \in Calm \cup {[Fine EXCEPT !.node = FALSE]} : EnvOk(e)
  BY <1>1, FaultsAre, Zenon
<1>3. ASSUME NEW e \in CacheFaults PROVE EnvOk(e)
  <2>1. CASE e = [Fine EXCEPT !.fail = {2}, !.code = EIO]
    BY <2>1, FailsAre
  <2> QED BY <1>1, <2>1, Zenon DEF CacheFaults
<1> QED BY <1>1, <1>2, <1>3

LEMMA LockFaultsOk == (\A e \in LockFaults : EnvOk(e)) /\ (\A e \in FlushFaults : EnvOk(e))
<1>1. ASSUME NEW e \in LockFaults PROVE EnvOk(e)
  <2>1. CASE e = [Fine EXCEPT !.fail = {1}, !.code = EIO]
    BY <2>1, FailsAre
  <2> QED BY <2>1, FaultsAre, Zenon DEF LockFaults
<1>2. ASSUME NEW e \in FlushFaults PROVE EnvOk(e)
  <2>1. CASE e = [Fine EXCEPT !.fail = {2}, !.code = EIO]
    BY <2>1, FailsAre
  <2>2. CASE e = [Fine EXCEPT !.fail = {1, 2}, !.code = ENOSYS]
    BY <2>2, FailsAre
  <2> QED BY <1>1, <2>1, <2>2, Zenon DEF FlushFaults
<1> QED BY <1>1, <1>2

LEMMA DataFaultsOk ==
  /\ \A e \in DataFaults : EnvOk(e)
  /\ \A e \in {[d EXCEPT !.shape = s] : d \in DataFaults, s \in Shapes} : EnvOk(e)
<1>1. ASSUME NEW e \in DataFaults PROVE EnvOk(e)
  <2>1. CASE e \in {Fine, [Fine EXCEPT !.dev = ENOENT], [Fine EXCEPT !.dev = EIO],
                    [Fine EXCEPT !.hmem = FALSE], [Fine EXCEPT !.rmem = FALSE],
                    [Fine EXCEPT !.rqmem = FALSE], [Fine EXCEPT !.mem = FALSE],
                    [Fine EXCEPT !.fail = {1}, !.code = EIO], [Fine EXCEPT !.path = ENOMEM],
                    [Fine EXCEPT !.stray = TRUE, !.sys = <<EIO>>]}
    <3>1. CASE e = [Fine EXCEPT !.fail = {1}, !.code = EIO]
      <4>1. ASSUME NEW x, NEW y, e = [Fine EXCEPT !.fail = x, !.code = y] PROVE EnvOk(e)
        BY <4>1 DEF EnvOk, EnvFields, Fine
      <4> QED BY <3>1, <4>1, Zenon
    <3>2. CASE e = [Fine EXCEPT !.stray = TRUE, !.sys = <<EIO>>]
      BY <3>2, FaultsAre, Zenon
    <3>3. CASE e \in {Fine, [Fine EXCEPT !.dev = ENOENT], [Fine EXCEPT !.dev = EIO],
                      [Fine EXCEPT !.hmem = FALSE], [Fine EXCEPT !.rmem = FALSE]}
      BY <3>3, FaultsAre, Zenon
    <3>4. CASE e \in {[Fine EXCEPT !.rqmem = FALSE], [Fine EXCEPT !.mem = FALSE],
                      [Fine EXCEPT !.path = ENOMEM]}
      BY <3>4, FaultsAre, Zenon
    <3> QED BY <2>1, <3>1, <3>2, <3>3, <3>4, Zenon
  <2>2. CASE e \in {[Fine EXCEPT !.sys = s] : s \in SysCalls}
    BY <2>2, FaultsAre, Zenon
  <2> QED BY <2>1, <2>2, Zenon DEF DataFaults
<1>2. ASSUME NEW d \in DataFaults, NEW s \in Shapes, NEW e, e = [d EXCEPT !.shape = s]
      PROVE  EnvOk(e)
  <2>1. EnvOk(d)
    BY <1>1
  <2> QED BY <1>2, <2>1 DEF EnvOk, EnvFields
<1> DEFINE S == {[d EXCEPT !.shape = s] : d \in DataFaults, s \in Shapes}
<1>3. ASSUME NEW e \in S PROVE EnvOk(e)
  <2>1. PICK d \in DataFaults, s \in Shapes : e = [d EXCEPT !.shape = s]
    BY <1>3
  <2> QED BY <1>2, <2>1
<1> HIDE DEF S
<1>4. \A e \in S : EnvOk(e)
  BY <1>3
<1>5. \A e \in DataFaults : EnvOk(e)
  BY <1>1
<1> QED BY <1>4, <1>5 DEF S

ReqFields ==
  {"op", "fi", "valid", "isreg", "flush", "owner", "n", "len", "unrestricted", "out", "room",
   "root", "off", "size", "plus", "lk", "bsd", "dir", "notify", "short", "dot", "stranger"}
ReqIs(r, op) ==
  /\ DOMAIN r = ReqFields /\ r.op = op /\ r.len = 0 /\ r.off = 0 /\ r.bsd = FALSE
  /\ r.stranger = FALSE

LEMMA ReqIsReq == ASSUME NEW op PROVE ReqIs(Req(op), op)
BY DEF ReqIs, ReqFields, Req

\* A plain request may ask for anything else.
PlainReq(r) == r.op \in PlainOps /\ r.off \in Nat

LEMMA PlainReqOk == ASSUME NEW r, PlainReq(r) PROVE ReqOk(r)
BY DEF PlainReq, ReqOk, Opcodes, Requests, PlainOps, Forgets, SetOps

LEMMA PlainReqs ==
  ASSUME NEW op \in PlainOps, NEW r, ReqIs(r, op), NEW x, NEW y, NEW z
  PROVE  /\ PlainReq(r) /\ PlainReq([r EXCEPT !.fi = x]) /\ PlainReq([r EXCEPT !.fi = x, !.valid = y])
         /\ PlainReq([r EXCEPT !.room = x]) /\ PlainReq([r EXCEPT !.root = x])
         /\ PlainReq([r EXCEPT !.isreg = x]) /\ PlainReq([r EXCEPT !.len = x])
         /\ PlainReq([r EXCEPT !.dot = x]) /\ PlainReq([r EXCEPT !.stranger = x])
         /\ PlainReq([r EXCEPT !.len = x, !.stranger = y])
         /\ PlainReq([r EXCEPT !.len = x, !.short = y]) /\ PlainReq([r EXCEPT !.notify = x])
         /\ PlainReq([r EXCEPT !.unrestricted = x, !.out = y, !.dir = z])
         /\ x \in Nat => PlainReq([r EXCEPT !.off = x, !.size = y, !.plus = z])
BY DEF PlainReq, ReqIs, ReqFields

LEMMA ForgetReqOk ==
  ASSUME NEW op \in Forgets, NEW n PROVE ReqOk([Req(op) EXCEPT !.n = n])
<1> DEFINE r == Req(op)
           s == [r EXCEPT !.n = n]
<1>1. ReqIs(r, op)
  BY ReqIsReq
<1> HIDE DEF r
<1>2. s.op = op /\ s.off = 0 /\ s.len = 0 /\ s.stranger = FALSE
  BY <1>1 DEF ReqIs, ReqFields
<1> HIDE DEF s
<1>3. ReqOk(s)
  BY <1>2 DEF ReqOk, Opcodes, Requests, Forgets, SetOps
<1> QED BY <1>3 DEF r, s

LEMMA CloseReqOk ==
  ASSUME NEW o \in Owners, NEW f
  PROVE  /\ ReqOk(FlockReq(o))
         /\ \A s : ReqOk(By(FlushReq(o), s)) /\ ReqOk(By(ReleaseReq(o, f), s))
<1>1. ASSUME NEW s, s.op = "FLUSH", s.off = 0, s.len = 0, s.owner = o PROVE ReqOk(s)
  BY <1>1 DEF ReqOk, Opcodes, Requests, Forgets, SetOps
<1>2. ASSUME NEW s, s.op = "RELEASE", s.off = 0, s.owner = o PROVE ReqOk(s)
  BY <1>2 DEF ReqOk, Opcodes, Requests, Forgets, SetOps
<1>3. ASSUME NEW s, s.op = "SETLKW", s.off = 0, s.owner = o, s.bsd = TRUE PROVE ReqOk(s)
  BY <1>3 DEF ReqOk, Opcodes, Requests, Forgets, SetOps
<1>4. ASSUME NEW r, NEW op, ReqIs(r, op)
      PROVE  /\ [r EXCEPT !.owner = o].op = op /\ [r EXCEPT !.owner = o].off = 0
             /\ [r EXCEPT !.owner = o].len = 0 /\ [r EXCEPT !.owner = o].owner = o
             /\ [r EXCEPT !.flush = f, !.owner = o].op = op
             /\ [r EXCEPT !.flush = f, !.owner = o].off = 0
             /\ [r EXCEPT !.flush = f, !.owner = o].owner = o
             /\ [r EXCEPT !.bsd = TRUE, !.owner = o].op = op
             /\ [r EXCEPT !.bsd = TRUE, !.owner = o].off = 0
             /\ [r EXCEPT !.bsd = TRUE, !.owner = o].owner = o
             /\ [r EXCEPT !.bsd = TRUE, !.owner = o].bsd = TRUE
             /\ DOMAIN [r EXCEPT !.owner = o] = ReqFields
             /\ DOMAIN [r EXCEPT !.flush = f, !.owner = o] = ReqFields
  BY <1>4 DEF ReqIs, ReqFields
<1>5. ASSUME NEW r, DOMAIN r = ReqFields, NEW s
      PROVE  /\ By(r, s).op = r.op /\ By(r, s).off = r.off /\ By(r, s).len = r.len
             /\ By(r, s).owner = r.owner
  BY <1>5 DEF By, ReqFields
<1>6. ReqOk(FlockReq(o))
  BY <1>3, <1>4, ReqIsReq DEF FlockReq
<1>7. ASSUME NEW s PROVE ReqOk(By(FlushReq(o), s))
  <2> DEFINE r == FlushReq(o)
  <2>1. r.op = "FLUSH" /\ r.off = 0 /\ r.len = 0 /\ r.owner = o /\ DOMAIN r = ReqFields
    BY <1>4, ReqIsReq DEF FlushReq
  <2> HIDE DEF r
  <2> DEFINE q == By(r, s)
  <2>2. q.op = "FLUSH" /\ q.off = 0 /\ q.len = 0 /\ q.owner = o
    BY <1>5, <2>1
  <2> HIDE DEF q
  <2> QED BY <1>1, <2>2 DEF q, r
<1>8. ASSUME NEW s PROVE ReqOk(By(ReleaseReq(o, f), s))
  <2> DEFINE r == ReleaseReq(o, f)
  <2>1. r.op = "RELEASE" /\ r.off = 0 /\ r.owner = o /\ DOMAIN r = ReqFields
    BY <1>4, ReqIsReq DEF ReleaseReq
  <2> HIDE DEF r
  <2> DEFINE q == By(r, s)
  <2>2. q.op = "RELEASE" /\ q.off = 0 /\ q.owner = o
    BY <1>5, <2>1
  <2> HIDE DEF q
  <2> QED BY <1>2, <2>2 DEF q, r
<1> QED BY <1>6, <1>7, <1>8

LEMMA LockReqOk ==
  ASSUME NEW o \in Owners, NEW lk
  PROVE  /\ lk \in Ranges(LockTypes) => ReqOk(LockReq("GETLK", o, lk))
         /\ lk \in Ranges(LockTypes \cup {"U"}) => ReqOk(LockReq("SETLK", o, lk))
<1>1. lk \in Ranges(LockTypes) => IsRange(lk) /\ lk.type \in LockTypes
  BY DEF Ranges, IsRange
<1>2. lk \in Ranges(LockTypes \cup {"U"}) => IsRange(lk) /\ lk.type \in LockTypes \cup {"U"}
  BY DEF Ranges, IsRange
<1>3. ASSUME NEW r, NEW op, ReqIs(r, op)
      PROVE  /\ [r EXCEPT !.owner = o, !.lk = lk].op = op
             /\ [r EXCEPT !.owner = o, !.lk = lk].off = 0
             /\ [r EXCEPT !.owner = o, !.lk = lk].owner = o
             /\ [r EXCEPT !.owner = o, !.lk = lk].lk = lk
  BY <1>3 DEF ReqIs, ReqFields
<1>4. ASSUME NEW s, s.op = "GETLK", s.off = 0, s.owner = o, s.lk = lk,
             IsRange(lk), lk.type \in LockTypes
      PROVE  ReqOk(s)
  BY <1>4 DEF ReqOk, Opcodes, Requests, Forgets, SetOps
<1>5. ASSUME NEW s, s.op = "SETLK", s.off = 0, s.owner = o, s.lk = lk,
             IsRange(lk), lk.type \in LockTypes \cup {"U"}
      PROVE  ReqOk(s)
  BY <1>5 DEF ReqOk, Opcodes, Requests, Forgets, SetOps
<1> QED BY <1>1, <1>2, <1>3, <1>4, <1>5, ReqIsReq DEF LockReq

\* A request the kernel may send, handled in a world that is possible.
Asks == \E r, e : ReqOk(r) /\ EnvOk(e) /\ Handle(r, e)

LEMMA SendAsks ==
  ASSUME NEW reqs, NEW envs, Send(reqs, envs), \A r \in reqs : ReqOk(r), \A e \in envs : EnvOk(e)
  PROVE  Asks
BY Zenon DEF Send, Asks

LEMMA PlainReqSets ==
  ASSUME NEW op \in PlainOps
  PROVE  /\ ReqOk(Req(op))
         /\ \A x : ReqOk([Req(op) EXCEPT !.fi = x]) /\ ReqOk([Req(op) EXCEPT !.room = x])
         /\ \A x : ReqOk([Req(op) EXCEPT !.root = x]) /\ ReqOk([Req(op) EXCEPT !.isreg = x])
         /\ \A x : ReqOk([Req(op) EXCEPT !.len = x]) /\ ReqOk([Req(op) EXCEPT !.notify = x])
         /\ \A x : ReqOk([Req(op) EXCEPT !.dot = x]) /\ ReqOk([Req(op) EXCEPT !.stranger = x])
<1> DEFINE r == Req(op)
<1>1. ReqIs(r, op)
  BY ReqIsReq
<1> HIDE DEF r
<1>2. ASSUME NEW x
      PROVE  /\ ReqOk(r) /\ ReqOk([r EXCEPT !.fi = x]) /\ ReqOk([r EXCEPT !.room = x])
             /\ ReqOk([r EXCEPT !.root = x]) /\ ReqOk([r EXCEPT !.isreg = x])
             /\ ReqOk([r EXCEPT !.len = x]) /\ ReqOk([r EXCEPT !.notify = x])
             /\ ReqOk([r EXCEPT !.dot = x]) /\ ReqOk([r EXCEPT !.stranger = x])
  BY <1>1, PlainReqs, PlainReqOk
<1> QED BY <1>2, Zenon DEF r

\* The same of requests of several operations, or that differ in more than one field.
LEMMA SetxattrOk ==
  ASSUME NEW q, ReqIs(q, "SETXATTR"), NEW n, NEW s
  PROVE  ReqOk(By([q EXCEPT !.len = n], s))
<1>1. PlainReq(By([q EXCEPT !.len = n], s))
  BY DEF PlainReq, PlainOps, ReqIs, ReqFields, By
<1> QED BY <1>1, PlainReqOk

LEMMA PlainReqTuples ==
  ASSUME NEW op \in PlainOps, NEW x, NEW y, NEW z
  PROVE  /\ ReqOk(RoomReq(op, x)) /\ ReqOk(SetattrReq(x, y))
         /\ ReqOk(WriteReq(x, y)) /\ ReqOk(IoctlReq(x, y, z))
         /\ x \in Nat => ReqOk(DirectoryReq(op, x, y))
<1>1. ASSUME NEW r, NEW o, ReqIs(r, o)
      PROVE  /\ [r EXCEPT !.room = x].op = o /\ [r EXCEPT !.room = x].off = 0
             /\ [r EXCEPT !.fi = x, !.valid = y].op = o /\ [r EXCEPT !.fi = x, !.valid = y].off = 0
             /\ [r EXCEPT !.len = x, !.short = y].op = o /\ [r EXCEPT !.len = x, !.short = y].off = 0
             /\ [r EXCEPT !.unrestricted = x, !.out = y, !.dir = z].op = o
             /\ [r EXCEPT !.unrestricted = x, !.out = y, !.dir = z].off = 0
  BY <1>1 DEF ReqIs, ReqFields
<1>2. /\ RoomReq(op, x).op = op /\ RoomReq(op, x).off = 0
      /\ SetattrReq(x, y).op = "SETATTR" /\ SetattrReq(x, y).off = 0
      /\ WriteReq(x, y).op = "WRITE" /\ WriteReq(x, y).off = 0
      /\ IoctlReq(x, y, z).op = "IOCTL" /\ IoctlReq(x, y, z).off = 0
  BY <1>1, ReqIsReq DEF RoomReq, SetattrReq, WriteReq, IoctlReq
<1>4. DirectoryReq(op, x, y).op = op /\ DirectoryReq(op, x, y).off = x
  <2> DEFINE p == op = "READDIRPLUS"
             r == Req(op)
             s == [r EXCEPT !.off = x, !.size = y, !.plus = p]
  <2>1. DirectoryReq(op, x, y) = s
    BY Zenon DEF DirectoryReq
  <2>2. ReqIs(r, op)
    BY ReqIsReq
  <2> HIDE DEF p, r
  <2>3. s.op = op /\ s.off = x
    BY <2>2 DEF ReqIs, ReqFields
  <2> HIDE DEF s
  <2> QED BY <2>1, <2>3
<1>3. "SETATTR" \in PlainOps /\ "WRITE" \in PlainOps /\ "IOCTL" \in PlainOps
  BY DEF PlainOps
<1> QED BY <1>2, <1>3, <1>4, PlainReqOk DEF PlainReq

LEMMA LookupAsks == Lookup => Asks
<1>1. "LOOKUP" \in PlainOps
  BY DEF PlainOps
<1> DEFINE S == {[Req("LOOKUP") EXCEPT !.dot = d] : d \in {"", ".", ".."}}
           W == World \cup {[Fine EXCEPT !.known = FALSE]}
<1>2. \A r \in S : ReqOk(r)
  BY <1>1, PlainReqSets, Zenon
<1>3. \A e \in W : EnvOk(e)
  BY WorldOk, FaultsAre, Zenon
<1>4. Lookup => Send(S, W)
  BY DEF Lookup
<1> HIDE DEF S, W
<1> QED BY <1>2, <1>3, <1>4, SendAsks

LEMMA ForgetAsks == Forget => Asks
<1> DEFINE N == 1 .. knows - One(kopen > 0)
           S == {[Req(op) EXCEPT !.n = n] : op \in {"FORGET", "BATCH_FORGET"}, n \in N}
<1>0. ASSUME NEW op \in {"FORGET", "BATCH_FORGET"}, NEW n, NEW r, r = [Req(op) EXCEPT !.n = n]
      PROVE  ReqOk(r)
  <2>1. op \in Forgets
    BY DEF Forgets
  <2> QED BY <1>0, <2>1, ForgetReqOk, Zenon
<1>1. ASSUME NEW r \in S PROVE ReqOk(r)
  <2> HIDE DEF N
  <2>1. PICK op \in {"FORGET", "BATCH_FORGET"}, n \in N : r = [Req(op) EXCEPT !.n = n]
    BY <1>1
  <2> QED BY <1>0, <2>1
<1>2. \A e \in {Fine} : EnvOk(e)
  BY FineOk
<1>3. Forget => Send(S, {Fine})
  BY DEF Forget
<1> HIDE DEF S
<1> QED BY <1>1, <1>2, <1>3, SendAsks

LEMMA AttrAsks == Attr_ => Asks
<1> DEFINE V == SUBSET {"mode", "owner", "size", "time"}
           G == {[Req("GETATTR") EXCEPT !.fi = fi] : fi \in ByFi}
           S == {SetattrReq(fi, v) : fi \in ByFi, v \in V}
<1>1. "GETATTR" \in PlainOps /\ "SETATTR" \in PlainOps
  BY DEF PlainOps
<1>2. ASSUME NEW r \in G PROVE ReqOk(r)
  BY <1>1, PlainReqSets, Zenon
<1>3. ASSUME NEW r \in S PROVE ReqOk(r)
  <2>1. PICK x \in ByFi, y \in V : r = SetattrReq(x, y)
    BY <1>3
  <2>2. ReqOk(SetattrReq(x, y))
    BY <1>1, PlainReqTuples
  <2> QED BY <2>1, <2>2
<1>4. Attr_ => Send(G \cup S, World)
  BY DEF Attr_
<1> HIDE DEF G, S
<1>5. \A r \in G \cup S : ReqOk(r)
  BY <1>2, <1>3
<1> QED BY <1>4, <1>5, WorldOk, SendAsks

LEMMA ByNodeAsks == ByNode => Asks
<1> DEFINE A == {Req(op) : op \in {"ACCESS", "READLINK", "SETXATTR", "REMOVEXATTR", "BMAP"}}
           T == BOOLEAN
           B == {RoomReq(op, r) : op \in {"GETXATTR", "LISTXATTR"}, r \in T}
           C == {[Req("STATFS") EXCEPT !.root = r] : r \in BOOLEAN}
<1>1. {"ACCESS", "READLINK", "SETXATTR", "REMOVEXATTR", "BMAP", "GETXATTR", "LISTXATTR",
       "STATFS"} \subseteq PlainOps
  BY DEF PlainOps
<1>2. ASSUME NEW r \in A PROVE ReqOk(r)
  BY <1>1, PlainReqSets, Zenon
<1>3. ASSUME NEW r \in B PROVE ReqOk(r)
  <2> HIDE DEF T
  <2>1. PICK op \in {"GETXATTR", "LISTXATTR"}, x \in T : r = RoomReq(op, x)
    BY <1>3
  <2>2. op \in PlainOps
    BY <1>1
  <2> QED BY <2>1, <2>2, PlainReqTuples
<1>4. ASSUME NEW r \in C PROVE ReqOk(r)
  <2>1. PICK x : r = [Req("STATFS") EXCEPT !.root = x]
    BY Zenon
  <2>2. "STATFS" \in PlainOps
    BY <1>1
  <2> QED BY <2>1, <2>2, PlainReqSets, Zenon
<1>5. ByNode => Send(A \cup B \cup C, World)
  BY DEF ByNode
<1> HIDE DEF A, B, C
<1>6. \A r \in A \cup B \cup C : ReqOk(r)
  BY <1>2, <1>3, <1>4
<1> QED BY <1>5, <1>6, WorldOk, SendAsks

LEMMA UnwelcomeAsks == Unwelcome => Asks
<1> DEFINE A == {Req("INIT"), Req("UNKNOWN")}
           B == IF conf.allow_root
                THEN {By(Req(op), TRUE) : op \in {"LOOKUP", "OPEN", "MKDIR"}} ELSE {}
<1>1. {"LOOKUP", "OPEN", "MKDIR"} \subseteq PlainOps
  BY DEF PlainOps
<1>2. ASSUME NEW r \in A PROVE ReqOk(r)
  <2>1. PICK op \in {"INIT", "UNKNOWN"} : r = Req(op)
    OBVIOUS
  <2>2. ReqIs(r, op)
    BY <2>1, ReqIsReq
  <2> QED BY <2>2 DEF ReqIs, ReqOk, Opcodes, Forgets, SetOps
<1>3. ASSUME NEW r \in B PROVE ReqOk(r)
  <2>1. PICK op \in {"LOOKUP", "OPEN", "MKDIR"} : r = [Req(op) EXCEPT !.stranger = TRUE]
    BY <1>3, Zenon DEF By
  <2>2. op \in PlainOps
    BY <1>1
  <2> QED BY <2>1, <2>2, PlainReqSets, Zenon
<1>4. Unwelcome => Send(A \cup B, {Fine})
  BY DEF Unwelcome
<1> HIDE DEF A, B
<1>5. (\A r \in A \cup B : ReqOk(r)) /\ (\A e \in {Fine} : EnvOk(e))
  BY <1>2, <1>3, FineOk
<1> QED BY <1>4, <1>5, SendAsks

LEMMA NewNameAsks == NewName => Asks
<1> DEFINE A == {Req("MKDIR"), Req("SYMLINK")}
           B == {[Req("MKNOD") EXCEPT !.isreg = r] : r \in BOOLEAN}
<1>1. {"MKDIR", "SYMLINK", "MKNOD"} \subseteq PlainOps
  BY DEF PlainOps
<1>2. ASSUME NEW r \in A PROVE ReqOk(r)
  BY <1>1, PlainReqSets, Zenon
<1>3. ASSUME NEW r \in B PROVE ReqOk(r)
  <2>1. PICK x : r = [Req("MKNOD") EXCEPT !.isreg = x]
    BY Zenon
  <2>2. "MKNOD" \in PlainOps
    BY <1>1
  <2> QED BY <2>1, <2>2, PlainReqSets, Zenon
<1>4. NewName => Send(A \cup B, World)
  BY DEF NewName
<1> HIDE DEF A, B
<1>5. \A r \in A \cup B : ReqOk(r)
  BY <1>2, <1>3
<1> QED BY <1>4, <1>5, WorldOk, SendAsks

LEMMA CreateAsks == Create \/ Open \/ Opendir \/ Releasedir => Asks
<1>1. {"CREATE", "OPEN", "OPENDIR", "FSYNCDIR", "RELEASEDIR"} \subseteq PlainOps
  BY DEF PlainOps
<1>2. /\ \A r \in {Req("CREATE")} : ReqOk(r)
      /\ \A r \in {Req("OPEN")} : ReqOk(r)
      /\ \A r \in {Req("OPENDIR")} : ReqOk(r)
      /\ \A r \in {Req("FSYNCDIR"), Req("RELEASEDIR")} : ReqOk(r)
  BY <1>1, PlainReqSets, Zenon
<1>3. \A e \in IF conf.work = "cache" THEN CacheFaults ELSE World : EnvOk(e)
  BY WorldOk, CalmOk
<1>4. Create => Asks
  BY <1>2, WorldOk, SendAsks DEF Create
<1>5. Open => Asks
  BY <1>2, <1>3, SendAsks DEF Open
<1>6. Opendir => Asks
  BY <1>2, WorldOk, SendAsks DEF Opendir
<1>7. Releasedir => Asks
  BY <1>2, WorldOk, SendAsks DEF Releasedir
<1> QED BY <1>4, <1>5, <1>6, <1>7

LEMMA ByHandleAsks == ByHandle => Asks
<1> DEFINE A == {Req(op) : op \in {"READ", "FSYNC", "FALLOCATE"}}
           B == {WriteReq(1, s) : s \in BOOLEAN}
           C == {[Req("POLL") EXCEPT !.notify = n] : n \in BOOLEAN}
           T == BOOLEAN
           D == {IoctlReq(un, o, d) : un \in T, o \in T, d \in T}
           E == {FlockReq(o) : o \in Owners}
<1>1. {"READ", "FSYNC", "FALLOCATE", "POLL"} \subseteq PlainOps
  BY DEF PlainOps
<1>2. ASSUME NEW r \in A PROVE ReqOk(r)
  BY <1>1, PlainReqSets, Zenon
<1>3. ASSUME NEW r \in B PROVE ReqOk(r)
  <2>1. ASSUME NEW x PROVE ReqOk(WriteReq(1, x))
    BY <1>1, PlainReqTuples
  <2> QED BY <2>1, Zenon
<1>4. ASSUME NEW r \in C PROVE ReqOk(r)
  <2>1. PICK x : r = [Req("POLL") EXCEPT !.notify = x]
    BY Zenon
  <2>2. "POLL" \in PlainOps
    BY <1>1
  <2> QED BY <2>1, <2>2, PlainReqSets, Zenon
<1>5. ASSUME NEW r \in D PROVE ReqOk(r)
  <2> HIDE DEF T
  <2>1. PICK x \in T, y \in T, z \in T : r = IoctlReq(x, y, z)
    BY <1>5
  <2>2. "READ" \in PlainOps
    BY <1>1
  <2> QED BY <2>1, <2>2, PlainReqTuples
<1>6. ASSUME NEW r \in E PROVE ReqOk(r)
  BY CloseReqOk, Zenon
<1>7. ByHandle => Send(A \cup B \cup C \cup D \cup E, World)
  BY DEF ByHandle
<1> HIDE DEF A, B, C, D, E
<1>8. \A r \in A \cup B \cup C \cup D \cup E : ReqOk(r)
  BY <1>2, <1>3, <1>4, <1>5, <1>6
<1> QED BY <1>7, <1>8, WorldOk, SendAsks

LEMMA FlushAsks == Flush => Asks
<1> DEFINE T == {FALSE, conf.allow_root}
           S == {By(FlushReq(o), s) : o \in Owners, s \in T}
           W == IF conf.work = "locks" THEN FlushFaults ELSE World
<1>1. ASSUME NEW r \in S PROVE ReqOk(r)
  <2> HIDE DEF T
  <2>1. PICK o \in Owners, s \in T : r = By(FlushReq(o), s)
    BY <1>1
  <2> QED BY <2>1, CloseReqOk
<1>2. \A e \in W : EnvOk(e)
  BY WorldOk, LockFaultsOk
<1>3. Flush => Send(S, W)
  BY DEF Flush
<1> HIDE DEF S, W
<1> QED BY <1>1, <1>2, <1>3, SendAsks

LEMMA ReleaseAsks == Release => Asks
<1> DEFINE T == BOOLEAN
           U == {FALSE, conf.allow_root}
           S == {By(ReleaseReq(o, f), s) : o \in Owners, f \in T, s \in U}
           W == IF conf.work = "cache" THEN {Fine} ELSE World
<1>1. ASSUME NEW r \in S PROVE ReqOk(r)
  <2> HIDE DEF T, U
  <2>1. PICK o \in Owners, f \in T, s \in U : r = By(ReleaseReq(o, f), s)
    BY <1>1
  <2> QED BY <2>1, CloseReqOk
<1>2. \A e \in W : EnvOk(e)
  BY WorldOk, FineOk
<1>3. Release => Send(S, W)
  BY DEF Release
<1> HIDE DEF S, W
<1> QED BY <1>1, <1>2, <1>3, SendAsks

LEMMA LockAsks == Lock_ => Asks
<1> DEFINE R == Ranges(LockTypes)
           Q == Ranges(LockTypes \cup {"U"})
           A == {LockReq("GETLK", o, lk) : o \in Owners, lk \in R}
           B == {LockReq("SETLK", o, lk) : o \in Owners, lk \in Q}
<1> HIDE DEF R, Q
<1>1. ASSUME NEW r \in A PROVE ReqOk(r)
  <2>1. PICK o \in Owners, lk \in R : r = LockReq("GETLK", o, lk)
    BY <1>1
  <2> QED BY <2>1, LockReqOk DEF R
<1>2. ASSUME NEW r \in B PROVE ReqOk(r)
  <2>1. PICK o \in Owners, lk \in Q : r = LockReq("SETLK", o, lk)
    BY <1>2
  <2> QED BY <2>1, LockReqOk DEF Q
<1>3. Lock_ => Send(A \cup B, LockFaults)
  BY DEF Lock_, R, Q
<1> HIDE DEF A, B
<1>4. \A r \in A \cup B : ReqOk(r)
  BY <1>1, <1>2
<1> QED BY <1>3, <1>4, LockFaultsOk, SendAsks

LEMMA ReaddirAsks == koff \in Nat /\ Readdir => Asks
<1> SUFFICES ASSUME koff \in Nat PROVE Readdir => Asks
  OBVIOUS
<1>1. ASSUME NEW op \in {"READDIR", "READDIRPLUS"}, NEW r \in ReadReq(op) PROVE ReqOk(r)
  <2>1. op \in PlainOps
    BY DEF PlainOps
  <2>2. PICK off \in {0, koff}, s \in Sizes : r = DirectoryReq(op, off, s)
    BY <1>1 DEF ReadReq
  <2>3. off \in Nat
    BY <2>2
  <2> QED BY <2>1, <2>2, <2>3, PlainReqTuples
<1> DEFINE S == ReadReq("READDIR") \cup (IF nlookup < MaxLookups THEN ReadReq("READDIRPLUS") ELSE {})
<1>2. \A r \in S : ReqOk(r)
  BY <1>1
<1>3. Readdir => Send(S, Calm \cup {[Fine EXCEPT !.node = FALSE]})
  BY DEF Readdir
<1> HIDE DEF S
<1> QED BY <1>2, <1>3, CalmOk, SendAsks

LEMMA DataAsks == DataRead \/ DataWrite => Asks
<1> DEFINE W == {[e EXCEPT !.shape = s] : e \in DataFaults, s \in Shapes}
           T == BOOLEAN
           A == {WriteReq(n, s) : n \in 1 .. MaxData, s \in T}
           U == {FALSE, conf.allow_root}
           B == {By([Req("SETXATTR") EXCEPT !.len = n], s) : n \in 1 .. MaxData, s \in U}
<1>1. "READ" \in PlainOps /\ "SETXATTR" \in PlainOps
  BY DEF PlainOps
<1>2. \A r \in {Req("READ")} : ReqOk(r)
  BY <1>1, PlainReqSets, Zenon
<1>3. \A e \in W : EnvOk(e)
  BY DataFaultsOk
<1>4. DataRead => Send({Req("READ")}, W)
  BY DEF DataRead
<1>5. ASSUME NEW r \in A PROVE ReqOk(r)
  <2> HIDE DEF T
  <2>1. PICK n \in 1 .. MaxData, s \in T : r = WriteReq(n, s)
    BY <1>5
  <2> QED BY <1>1, <2>1, PlainReqTuples
<1>6. ASSUME NEW r \in B PROVE ReqOk(r)
  <2> HIDE DEF U
  <2>1. PICK n \in 1 .. MaxData, s \in U : r = By([Req("SETXATTR") EXCEPT !.len = n], s)
    BY <1>6
  <2>2. PICK q : q = Req("SETXATTR")
    OBVIOUS
  <2>3. ReqIs(q, "SETXATTR")
    BY <2>2, ReqIsReq
  <2>4. ReqOk(By([q EXCEPT !.len = n], s))
    BY <2>3, SetxattrOk
  <2> QED BY <2>1, <2>2, <2>4
<1>7. DataWrite => Send(A \cup B, DataFaults)
  BY DEF DataWrite
<1> HIDE DEF A, B, W
<1>8. \A r \in A \cup B : ReqOk(r)
  BY <1>5, <1>6
<1> QED BY <1>2, <1>3, <1>4, <1>7, <1>8, DataFaultsOk, SendAsks

LEMMA CacheAsks == CacheRead \/ CacheStat => Asks
<1> DEFINE S == {Req("GETATTR")} \cup (IF knows < MaxLookups THEN {Req("LOOKUP")} ELSE {})
<1>1. "READ" \in PlainOps /\ "GETATTR" \in PlainOps /\ "LOOKUP" \in PlainOps
  BY DEF PlainOps
<1>2. ReqOk(Req("READ")) /\ ReqOk(Req("GETATTR")) /\ ReqOk(Req("LOOKUP"))
  BY <1>1, PlainReqSets, Zenon
<1>3. CacheRead => Send({Req("READ")}, {Fine})
  BY DEF CacheRead
<1>4. CacheStat => Send(S, Calm)
  BY DEF CacheStat
<1>5. (\A r \in {Req("READ")} : ReqOk(r)) /\ (\A r \in S : ReqOk(r)) /\ (\A e \in {Fine} : EnvOk(e))
  BY <1>2, FineOk
<1> HIDE DEF S
<1> QED BY <1>3, <1>4, <1>5, CalmOk, SendAsks

\* Every step is a request's, one of the world's, or its end.
LEMMA StepIs ==
  ASSUME koff \in Nat, Next PROVE Asks \/ Change \/ Expire \/ Relist \/ Done
BY LookupAsks, ForgetAsks, AttrAsks, ByNodeAsks, UnwelcomeAsks, NewNameAsks, CreateAsks, ByHandleAsks, FlushAsks,
   ReleaseAsks, LockAsks, ReaddirAsks, DataAsks, CacheAsks DEF Next

---------------------------------------------------------------------------
(* The inductive invariant *)

\* The record of locks; there is none without the file system's lock function.
LocksInv ==
  /\ LockList(locks) /\ (lost \/ HeldBytes(locks) = fslocks)
  /\ "lock" \notin conf.reg => locks = <<>>
\* The directory handle, and where the kernel reads on.
ReadInv == DirOk(dh) /\ koff \in Nat /\ listing \in Seq(STRING)
OpsInv == LocksInv /\ ReadInv /\ RequestDone /\ FlushClears /\ GetlkTrue

\* A request b was handled with the outcome a.
Handles(b, a) ==
  /\ ReqOk(b.req) /\ b.env.lkmem \in BOOLEAN /\ b.conf = conf
  /\ b.locks = locks /\ b.fslocks = fslocks /\ b.dh = dh /\ IsCall(b)
  /\ Undelivered(b, a) \/ Handled(b, a)
  /\ Effect(a)

LEMMA NewCallIs ==
  ASSUME NEW r, NEW cf, NEW e, NEW st, NEW c, c = NewCall(r, cf, e, st)
  PROVE  /\ Fresh(c) /\ IsCall(c) /\ c.req = r /\ c.conf = cf /\ c.env = e
         /\ c.locks = st.locks /\ c.fslocks = st.fslocks /\ c.dh = st.dh
<1>1. IsCall(c)
  BY DEF NewCall, IsCall, Fields
<1>2. /\ c.req = r /\ c.conf = cf /\ c.env = e
      /\ c.locks = st.locks /\ c.fslocks = st.fslocks /\ c.dh = st.dh
  BY DEF NewCall
<1>3. /\ c.kind = "none" /\ c.nans = 0 /\ c.gone = FALSE /\ c.bad = FALSE /\ c.intr = FALSE
      /\ c.held = 0 /\ c.path = "none" /\ c.err = 0 /\ c.calls = <<>>
  BY DEF NewCall
<1> QED BY <1>1, <1>2, <1>3 DEF Fresh, New, Going, Held

LEMMA AsksHandles ==
  ASSUME OpsInv, Asks PROVE \E b, a : Handles(b, a)
<1>1. PICK r, e : ReqOk(r) /\ EnvOk(e) /\ Handle(r, e)
  BY Zenon DEF Asks
<1> DEFINE st == State(e)
           b == NewCall(r, conf, e, st)
           a == receive_and_process(b)
<1>2. Effect(a)
  BY <1>1, Zenon DEF Handle
<1>3. st.locks = locks /\ st.fslocks = fslocks /\ st.dh = dh
  BY DEF State
<1> HIDE DEF st
<1>4. /\ Fresh(b) /\ IsCall(b) /\ b.req = r /\ b.conf = conf /\ b.env = e
      /\ b.locks = locks /\ b.fslocks = fslocks /\ b.dh = dh
  BY <1>3, NewCallIs
<1> HIDE DEF b
<1>5. DirOk(b.dh) /\ DirReq(b) /\ DOMAIN b.locks \subseteq Nat
  BY <1>1, <1>4 DEF OpsInv, ReadInv, LocksInv, LockList, RangeList, DirReq, EnvOk, ReqOk
<1>6. /\ b.req.op \in Opcodes /\ (b.req.op \in Forgets \cup {"FLUSH"} => b.req.len = 0)
      /\ b.req.op \in Forgets => ~b.req.stranger
  BY <1>1, <1>4 DEF ReqOk
<1>7. Undelivered(b, a) \/ Handled(b, a)
  BY <1>4, <1>5, <1>6, ProcessedIs
<1> HIDE DEF a
<1>8. b.env.lkmem \in BOOLEAN
  BY <1>1, <1>4 DEF EnvOk
<1>9. Handles(b, a)
  BY <1>1, <1>2, <1>4, <1>7, <1>8, Zenon DEF Handles
<1> QED BY <1>9, Zenon

LEMMA HandlesFacts ==
  ASSUME NEW b, NEW a, Handles(b, a)
  PROVE  /\ LocksMoved(b, a) /\ IsCall(a) /\ a.req = b.req /\ a.conf = b.conf /\ a.env = b.env
         /\ DirOk(b.dh) => DirOk(a.dh)
<1>1. CASE Undelivered(b, a)
  BY <1>1 DEF Undelivered, LocksMoved, LockSame, ReqSame
<1>2. CASE Handled(b, a)
  BY <1>2 DEF Handled, Silent, Finished, LockSame, ReqSame
<1> QED BY <1>1, <1>2 DEF Handles

LEMMA OutcomeIs ==
  ASSUME NEW c, NEW o, o = Outcome(c)
  PROVE  /\ o.op = c.req.op /\ o.owner = c.req.owner /\ o.lk = c.req.lk /\ o.kind = c.kind
         /\ o.nans = c.nans /\ o.gone = c.gone /\ o.bad = c.bad /\ o.held = c.held
         /\ o.intr = c.intr /\ o.calls = c.calls /\ o.flock = c.flock /\ o.barred = Barred(c)
BY DEF Outcome

LEMMA HandlesLocks ==
  ASSUME OpsInv, NEW b, NEW a, Handles(b, a) PROVE LocksInv'
<1>1. /\ LockList(a.locks)
      /\ HeldBytes(b.locks) = b.fslocks => a.lost \/ HeldBytes(a.locks) = a.fslocks
      /\ "lock" \notin b.conf.reg /\ b.locks = <<>> => a.locks = <<>>
  BY HandlesFacts, MovedLocks DEF Handles, OpsInv, LocksInv
<1>2. b.locks = locks /\ b.fslocks = fslocks /\ b.conf = conf
  BY DEF Handles
<1>3. locks' = a.locks /\ fslocks' = a.fslocks /\ lost' = (lost \/ a.lost) /\ conf' = conf
  BY Zenon DEF Handles, Effect
<1>4. lost' \/ HeldBytes(locks') = fslocks'
  BY <1>1, <1>2, <1>3 DEF OpsInv, LocksInv
<1> QED BY <1>1, <1>2, <1>3, <1>4 DEF OpsInv, LocksInv

LEMMA HandlesRead ==
  ASSUME OpsInv, NEW b, NEW a, Handles(b, a) PROVE ReadInv'
<1>1. DirOk(a.dh) /\ a.req.off \in Nat
  BY HandlesFacts DEF Handles, OpsInv, ReadInv, ReqOk
<1>2. /\ listing' = listing
      /\ dh' = (IF dhs + a.dhs = 0 THEN NewDh
                ELSE [a.dh EXCEPT !.contents = <<>>, !.len = 0, !.needlen = 0, !.error = 0])
  BY Zenon DEF Handles, Effect
<1>3. DirOk(NewDh)
  BY DEF NewDh, DirOk
<1>4. DirOk([a.dh EXCEPT !.contents = <<>>, !.len = 0, !.needlen = 0, !.error = 0])
  BY <1>1 DEF DirOk
<1>5. DirOk(dh')
  BY <1>2, <1>3, <1>4, Zenon
<1>6. \/ koff' = Last(a.dh.contents).off /\ a.dh.contents # <<>>
      \/ koff' = a.req.off \/ koff' = 0 \/ koff' = koff
  BY Zenon DEF Handles, Effect
<1>7. a.dh.contents # <<>> => Last(a.dh.contents).off \in Nat
  <2> DEFINE s == a.dh.contents
  <2>1. s \in Seq(Entry)
    BY <1>1 DEF DirOk
  <2> HIDE DEF s
  <2>2. s # <<>> => s[Len(s)] \in Entry
    BY <2>1
  <2>3. s # <<>> => s[Len(s)].off \in Nat
    BY <2>2 DEF Entry
  <2> QED BY <2>3 DEF s, Last
<1>8. koff' \in Nat
  BY <1>1, <1>6, <1>7 DEF OpsInv, ReadInv
<1> QED BY <1>2, <1>5, <1>8 DEF OpsInv, ReadInv

LEMMA HandlesDone ==
  ASSUME OpsInv, NEW b, NEW a, Handles(b, a) PROVE RequestDone'
<1>1. last' = Outcome(a)
  BY Zenon DEF Handles, Effect
<1>2. /\ last'.op = b.req.op /\ last'.kind = a.kind /\ last'.nans = a.nans /\ last'.gone = a.gone
      /\ last'.bad = a.bad /\ last'.held = a.held /\ last'.intr = a.intr
  BY <1>1, OutcomeIs, HandlesFacts
<1>3. CASE Undelivered(b, a)
  BY <1>2, <1>3 DEF Undelivered, RequestDone
<1>4. CASE Handled(b, a)
  <2>1. /\ a.gone = TRUE /\ a.bad = FALSE /\ a.held = 0 /\ a.intr = FALSE
        /\ a.nans = IF b.req.op \in Forgets THEN 0 ELSE 1
    BY <1>4 DEF Handled, Silent, Finished, Answered
  <2>2. last'.nans = One(last'.op \notin {"FORGET", "BATCH_FORGET"})
    BY <1>2, <2>1 DEF One, Forgets
  <2> QED BY <1>2, <2>1, <2>2, Zenon DEF RequestDone
<1> QED BY <1>3, <1>4 DEF Handles

LEMMA HandlesFlush ==
  ASSUME OpsInv, NEW b, NEW a, Handles(b, a) PROVE FlushClears'
<1>1. last' = Outcome(a) /\ locks' = a.locks
  BY Zenon DEF Handles, Effect
<1>2. /\ last'.op = b.req.op /\ last'.kind = a.kind /\ last'.calls = a.calls
      /\ last'.owner = b.req.owner
  BY <1>1, OutcomeIs, HandlesFacts
<1>3. CASE b.req.op # "FLUSH" \/ Barred(b)
  <2>1. Barred(b) => Barred(a)
    BY HandlesFacts DEF Barred
  <2>2. Barred(a) => last'.barred
    BY <1>1, OutcomeIs, Zenon
  <2> QED BY <1>2, <1>3, <2>1, <2>2 DEF FlushClears
<1>4. CASE Undelivered(b, a)
  BY <1>2, <1>4 DEF Undelivered, FlushClears
<1>5. CASE b.req.op = "FLUSH" /\ LockSame(b, a) /\ NoLocks(a)
  <2>1. CASE "lock" \notin a.conf.reg
    <3>1. a.locks = <<>>
      BY <1>5, <2>1 DEF LockSame, ReqSame, Handles, OpsInv, LocksInv
    <3> QED BY <1>1, <3>1 DEF FlushClears
  <2>2. CASE \E i \in DOMAIN a.calls : a.calls[i].op = "lock" /\ a.calls[i].res = ENOSYS
    BY <1>2, <2>2, Zenon DEF FlushClears
  <2> QED BY <1>5, <2>1, <2>2 DEF NoLocks
<1>6. CASE b.req.op = "FLUSH" /\ Flushed(b, a)
  <2>1. b.req.owner \in Owners
    BY <1>6 DEF Handles, ReqOk
  <2>2. \A i \in DOMAIN a.locks : a.locks[i].owner # b.req.owner
    BY <1>6, <2>1, FlushedNone DEF Handles, OpsInv, LocksInv
  <2> QED BY <1>1, <1>2, <2>2, Zenon DEF FlushClears
<1> QED BY <1>3, <1>4, <1>5, <1>6 DEF Handles, Handled, FlushOut

LEMMA HandlesGetlk ==
  ASSUME OpsInv, NEW b, NEW a, Handles(b, a) PROVE GetlkTrue'
<1>1. last' = Outcome(a) /\ fslocks' = a.fslocks /\ lost' = (lost \/ a.lost)
  BY Zenon DEF Handles, Effect
<1>2. /\ last'.op = b.req.op /\ last'.kind = a.kind /\ last'.flock = a.flock
      /\ last'.owner = b.req.owner /\ last'.lk = b.req.lk
  BY <1>1, OutcomeIs, HandlesFacts
<1>3. CASE b.req.op # "GETLK" \/ a.kind # "lock" \/ lost'
  BY <1>2, <1>3 DEF GetlkTrue
<1>4. CASE b.req.op = "GETLK" /\ a.kind = "lock" /\ ~lost'
  <2>1. Handled(b, a) /\ LockSame(b, a)
    BY <1>4, HandlesFacts DEF Handles, Undelivered, Unhandled, LocksMoved, SetOps
  <2>2. Truthful(b, a)
    BY <1>4, <2>1 DEF Handled
  <2>3. ReqOk(b.req) /\ LockList(b.locks) /\ b.fslocks = HeldBytes(b.locks) /\ fslocks' = b.fslocks
    BY <1>1, <1>4, <2>1 DEF Handles, OpsInv, LocksInv, LockSame
  <2> DEFINE ans == FlockAnswer(a.flock)
             k == [owner |-> b.req.owner, type |-> b.req.lk.type,
                   start |-> b.req.lk.start, end |-> b.req.lk.end]
  <2>4. IF ans.type = "U" THEN ~FsConflict(b.fslocks, k)
        ELSE /\ ans.start <= k.end /\ k.start <= ans.end
             /\ "W" \in {ans.type, k.type}
             /\ \E o \in Owners \ {b.req.owner} :
                  \A d \in ans.start .. ans.end : b.fslocks[o][d] = ans.type
    <3> HIDE DEF ans, k
    <3> QED BY <1>4, <2>2, <2>3, TruthfulIs DEF ans, k
  <2>5. ans = FlockAnswer(last'.flock)
    BY <1>2
  <2>6. k = [owner |-> last'.owner, type |-> last'.lk.type,
             start |-> last'.lk.start, end |-> last'.lk.end]
    BY <1>2
  <2> HIDE DEF ans, k
  <2> QED BY <1>2, <2>3, <2>4, <2>5, <2>6, Zenon DEF GetlkTrue
<1> QED BY <1>3, <1>4

---------------------------------------------------------------------------
(* The theorems *)

LEMMA NoneHeld == HeldBytes(<<>>) = [o \in Owners |-> [b \in Offsets |-> "U"]]
BY DEF HeldBytes, Covering

LEMMA InitInv == Init => OpsInv
<1> SUFFICES ASSUME Init PROVE OpsInv
  OBVIOUS
<1>1. LockList(<<>>)
  BY DEF LockList, RangeList, OrderedLocks
<1>2. LocksInv
  BY <1>1, NoneHeld DEF Init, LocksInv
<1>3. listing \in Seq(STRING)
  <2>1. listing \in Listings \/ listing = <<>>
    BY Zenon DEF Init
  <2>2. <<>> \in Seq(STRING)
    OBVIOUS
  <2> QED BY <2>1, <2>2, ListingsAssumption
<1>4. DirOk(NewDh)
  BY DEF NewDh, DirOk
<1>5. ReadInv
  BY <1>3, <1>4 DEF Init, ReadInv
<1>6. last = <<>>
  BY DEF Init
<1> QED BY <1>2, <1>5, <1>6, Zenon DEF OpsInv, RequestDone, FlushClears, GetlkTrue, Idle

\* The steps between two requests leave all of it alone.
LEMMA WorldStep ==
  ASSUME OpsInv, Change \/ Expire \/ Relist \/ Done \/ UNCHANGED vars
  PROVE  /\ UNCHANGED <<locks, fslocks, lost, dh, koff, conf>>
         /\ listing' \in Seq(STRING) /\ (last' = last \/ last' = <<>>)
<1> USE DEF OpsInv, ReadInv, lib, fsys, kern
<1>1. CASE Change
  BY <1>1 DEF Change
<1>2. CASE Expire
  BY <1>2 DEF Expire
<1>3. CASE Relist
  BY <1>3, ListingsAssumption DEF Relist
<1>4. CASE Done
  BY <1>4 DEF Done
<1>5. CASE UNCHANGED vars
  BY <1>5 DEF vars
<1> QED BY <1>1, <1>2, <1>3, <1>4, <1>5

LEMMA StepInv == OpsInv /\ [Next]_vars => OpsInv'
<1> SUFFICES ASSUME OpsInv, [Next]_vars PROVE OpsInv'
  OBVIOUS
<1>1. CASE Asks
  <2>1. PICK b, a : Handles(b, a)
    BY <1>1, AsksHandles
  <2> QED BY <2>1, HandlesLocks, HandlesRead, HandlesDone, HandlesFlush, HandlesGetlk DEF OpsInv
<1>2. CASE Change \/ Expire \/ Relist \/ Done \/ UNCHANGED vars
  <2>1. /\ UNCHANGED <<locks, fslocks, lost, dh, koff, conf>>
        /\ listing' \in Seq(STRING) /\ (last' = last \/ last' = <<>>)
    BY <1>2, WorldStep
  <2>2. LocksInv'
    BY <2>1 DEF OpsInv, LocksInv
  <2>3. ReadInv'
    BY <2>1 DEF OpsInv, ReadInv
  <2>4. CASE last' = <<>>
    BY <2>2, <2>3, <2>4, Zenon DEF OpsInv, RequestDone, FlushClears, GetlkTrue, Idle
  <2>5. CASE last' = last
    <3>1. RequestDone'
      BY <2>5, Zenon DEF OpsInv, RequestDone, Idle
    <3>2. FlushClears'
      BY <2>1, <2>5, Zenon DEF OpsInv, FlushClears, Idle
    <3>3. GetlkTrue'
      BY <2>1, <2>5, Zenon DEF OpsInv, GetlkTrue, Idle
    <3> QED BY <2>2, <2>3, <3>1, <3>2, <3>3 DEF OpsInv
  <2> QED BY <2>1, <2>4, <2>5
<1>3. koff \in Nat
  BY DEF OpsInv, ReadInv
<1> QED BY <1>1, <1>2, <1>3, StepIs

LEMMA Invariant == Spec => []OpsInv
<1> QED BY InitInv, StepInv, PTL DEF Spec

\* Every request is ended exactly once, whichever of the calls on its way fail, whether or
\* not the device takes the answer: one answer (none to a forget), no use of the request
\* after it, no path left locked, no interrupt function left set (fuse.c:2700-4260).
THEOREM RequestsAreDone == Spec => []RequestDone
<1>1. OpsInv => RequestDone
  BY DEF OpsInv
<1> QED BY <1>1, Invariant, PTL

\* The library's record of locks (fuse.c:3855-3969) is in order, says of every byte of every
\* owner what the file system's own locks say as long as no insertion failed, and has
\* nothing left of an owner that closed the file.
THEOREM LocksAgreeAlways == Spec => []LocksAgree
<1>1. OpsInv => LocksAgree
  BY DEF OpsInv, LocksInv, LocksAgree, LockList
<1> QED BY <1>1, Invariant, PTL

\* getlk (fuse.c:4033-4060) names a lock another owner really holds on bytes asked for, and
\* says that there is none only if there is none.
THEOREM GetlkIsTrue == Spec => []GetlkTrue
<1>1. OpsInv => GetlkTrue
  BY DEF OpsInv
<1> QED BY <1>1, Invariant, PTL

\* The record implements the locks of POSIX (PosixLocks): a request gives one range of one
\* owner's bytes one type, or changes no byte, although locks_insert splits, merges and
\* drops ranges and may run out of memory.
THEOREM LockRecordKept == Spec => LockRecord
<1> DEFINE h == HeldBytes(locks)
<1>1. Init => Record!Init
  BY NoneHeld DEF Init, Record!Init, Offsets, Record!Offsets
<1>2. OpsInv /\ [Next]_vars => [Record!Next]_h
  <2> SUFFICES ASSUME OpsInv, [Next]_vars PROVE [Record!Next]_h
    OBVIOUS
  <2>1. CASE Asks
    <3>1. PICK b, a : Handles(b, a)
      BY <2>1, AsksHandles
    <3>2. \/ HeldBytes(a.locks) = HeldBytes(b.locks)
          \/ \E k \in NewLock : /\ k.start <= k.end
                                /\ HeldBytes(a.locks) = SetBytes(HeldBytes(b.locks), k)
      BY <3>1, HandlesFacts, MovedLocks DEF Handles, OpsInv, LocksInv
    <3>3. locks' = a.locks /\ b.locks = locks
      BY <3>1, Zenon DEF Handles, Effect
    <3>4. CASE HeldBytes(a.locks) = HeldBytes(b.locks)
      BY <3>3, <3>4
    <3>5. CASE \E k \in NewLock : /\ k.start <= k.end
                                  /\ HeldBytes(a.locks) = SetBytes(HeldBytes(b.locks), k)
      <4>1. PICK k \in NewLock : /\ k.start <= k.end
                                 /\ HeldBytes(a.locks) = SetBytes(HeldBytes(b.locks), k)
        BY <3>5
      <4>2. /\ k.owner \in Owners /\ k.type \in {"R", "W", "U"}
            /\ k.start \in Record!Offsets /\ k.end \in Record!Offsets
        BY DEF NewLock, LockTypes, Offsets, Record!Offsets
      <4>3. Record!Set(k.owner, k.type, k.start, k.end)
        BY <3>3, <4>1 DEF Record!Set, SetBytes, Offsets, Record!Offsets
      <4>4. Record!Next
        BY <4>1, <4>2, <4>3 DEF Record!Next
      <4> QED BY <4>4
    <3> QED BY <3>2, <3>4, <3>5
  <2>2. CASE Change \/ Expire \/ Relist \/ Done \/ UNCHANGED vars
    <3>1. locks' = locks
      BY <2>2, WorldStep
    <3> QED BY <3>1
  <2>3. koff \in Nat
    BY DEF OpsInv, ReadInv
  <2> QED BY <2>1, <2>2, <2>3, StepIs
<1> QED BY <1>1, <1>2, Invariant, PTL DEF Spec, LockRecord, Record!Spec

=============================================================================
