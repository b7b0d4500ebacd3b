------------------------- MODULE FuseTreeStepProofs -------------------------
(***************************************************************************)
(* Proofs about FuseTree, second part: the steps of requests and of the     *)
(* queue keep Inv; the host's tree agrees with the table; the theorems.     *)
(***************************************************************************)
EXTENDS FuseTreeProofs

---------------------------------------------------------------------------
(* The queue *)

LEMMA RemoveAtIs ==
  ASSUME NEW s \in Seq(Threads), NEW p \in 1 .. Len(s)
  PROVE  /\ RemoveAt(s, p) \in Seq(Threads) /\ Len(RemoveAt(s, p)) = Len(s) - 1
         /\ \A j \in 1 .. Len(s) - 1 : RemoveAt(s, p)[j] = IF j < p THEN s[j] ELSE s[j + 1]
<1>1. SubSeq(s, 1, p - 1) \in Seq(Threads) /\ Len(SubSeq(s, 1, p - 1)) = p - 1
  OBVIOUS
<1>2. /\ SubSeq(s, p + 1, Len(s)) \in Seq(Threads)
      /\ Len(SubSeq(s, p + 1, Len(s))) = Len(s) - p
  OBVIOUS
<1>3. \A j \in 1 .. p - 1 : SubSeq(s, 1, p - 1)[j] = s[j]
  OBVIOUS
<1>4. \A j \in 1 .. Len(s) - p : SubSeq(s, p + 1, Len(s))[j] = s[p + j]
  OBVIOUS
<1> DEFINE a == SubSeq(s, 1, p - 1)
           b == SubSeq(s, p + 1, Len(s))
<1> HIDE DEF a, b
<1>5. RemoveAt(s, p) = a \o b
  BY DEF RemoveAt, a, b
<1>6. a \in Seq(Threads) /\ b \in Seq(Threads) /\ Len(a) = p - 1 /\ Len(b) = Len(s) - p
  BY <1>1, <1>2 DEF a, b
<1>7. a \o b \in Seq(Threads) /\ Len(a \o b) = Len(s) - 1
  BY <1>6
<1>8. ASSUME NEW j \in 1 .. Len(s) - 1 PROVE (a \o b)[j] = IF j < p THEN s[j] ELSE s[j + 1]
  <2>1. (a \o b)[j] = IF j <= p - 1 THEN a[j] ELSE b[j - (p - 1)]
    BY <1>6
  <2>2. CASE j < p
    BY <1>3, <2>1, <2>2 DEF a
  <2>3. CASE j >= p
    <3>1. j - (p - 1) \in 1 .. Len(s) - p /\ p + (j - (p - 1)) = j + 1
      BY <2>3
    <3>2. b[j - (p - 1)] = s[p + (j - (p - 1))]
      BY <1>4, <3>1 DEF b
    <3>3. (a \o b)[j] = b[j - (p - 1)]
      BY <2>1, <2>3
    <3> QED BY <2>3, <3>1, <3>2, <3>3
  <2>4. j < p \/ j >= p
    OBVIOUS
  <2> QED BY <2>2, <2>3, <2>4
<1> QED BY <1>5, <1>7, <1>8

\* A thread goes to the end of the queue, and leaves it.
LEMMA QueueJoins ==
  ASSUME NEW cl \in [Threads -> CallType], NEW lq \in Seq(Threads), QueueInv(lq, cl),
         NEW t \in Threads, ~Waits(cl[t]), NEW q, Waits(q), NEW c2, c2 = [cl EXCEPT ![t] = q]
  PROVE  Append(lq, t) \in Seq(Threads) /\ QueueInv(Append(lq, t), c2)
<1> DEFINE N == Len(lq)
<1>1. PICK l2 : l2 = Append(lq, t)
  OBVIOUS
<1>2. /\ N \in Nat /\ l2 \in Seq(Threads) /\ DOMAIN l2 = 1 .. N + 1 /\ DOMAIN lq = 1 .. N
      /\ l2[N + 1] = t /\ \A i \in 1 .. N : l2[i] = lq[i]
  BY <1>1
<1>3. c2[t] = q /\ \A u \in Threads \ {t} : c2[u] = cl[u]
  OBVIOUS
<1> HIDE DEF N
<1>4. \A i \in 1 .. N : lq[i] # t
  BY <1>2 DEF QueueInv
<1>5. ASSUME NEW i \in DOMAIN l2, NEW j \in DOMAIN l2, l2[i] = l2[j] PROVE i = j
  <2>1. CASE i \in 1 .. N /\ j \in 1 .. N
    BY <2>1, <1>2, <1>5 DEF QueueInv
  <2>2. CASE i = N + 1 \/ j = N + 1
    BY <2>2, <1>2, <1>4, <1>5
  <2> QED BY <2>1, <2>2, <1>2
<1>6. ASSUME NEW u \in Threads PROVE Waits(c2[u]) <=> \E i \in DOMAIN l2 : l2[i] = u
  <2>1. CASE u = t
    BY <2>1, <1>2, <1>3
  <2>2. CASE u # t
    <3>1. Waits(c2[u]) <=> \E i \in 1 .. N : lq[i] = u
      BY <2>2, <1>2, <1>3 DEF QueueInv
    <3>2. (\E i \in 1 .. N : lq[i] = u) <=> \E i \in 1 .. N + 1 : l2[i] = u
      BY <2>2, <1>2
    <3> QED BY <3>1, <3>2, <1>2
  <2> QED BY <2>1, <2>2
<1> QED BY <1>1, <1>2, <1>5, <1>6 DEF QueueInv

\* Where the element was before the one at p went.
LEMMA Shifted ==
  ASSUME NEW N \in Nat, NEW p \in 1 .. N, NEW i \in 1 .. N - 1
  PROVE  IF i < p THEN i \in 1 .. N /\ i # p ELSE i + 1 \in 1 .. N /\ i + 1 # p
OBVIOUS

LEMMA QueueLeaves ==
  ASSUME NEW cl \in [Threads -> CallType], NEW lq \in Seq(Threads), QueueInv(lq, cl),
         NEW t \in Threads, Waits(cl[t]), NEW q, ~Waits(q), NEW c2, c2 = [cl EXCEPT ![t] = q],
         NEW p, p = CHOOSE i \in DOMAIN lq : lq[i] = t
  PROVE  RemoveAt(lq, p) \in Seq(Threads) /\ QueueInv(RemoveAt(lq, p), c2)
<1>1. \E i \in DOMAIN lq : lq[i] = t
  BY DEF QueueInv
<1>2. p \in DOMAIN lq /\ lq[p] = t
  BY <1>1
<1>3. PICK l2 : l2 = RemoveAt(lq, p)
  OBVIOUS
<1>4. PICK N \in Nat : N = Len(lq)
  OBVIOUS
<1>5. DOMAIN lq = 1 .. N
  BY <1>4
<1>6. p \in 1 .. N
  BY <1>2, <1>5
<1>7. l2 \in Seq(Threads) /\ Len(l2) = N - 1
  BY <1>3, <1>4, <1>6, RemoveAtIs
<1>8. DOMAIN l2 = 1 .. N - 1
  BY <1>7
<1>9. \A j \in 1 .. N - 1 : l2[j] = IF j < p THEN lq[j] ELSE lq[j + 1]
  BY SMTT(40), <1>3, <1>4, <1>6, RemoveAtIs
<1>10. c2[t] = q /\ \A u \in Threads \ {t} : c2[u] = cl[u]
  OBVIOUS
<1>11. \A i \in 1 .. N, j \in 1 .. N : lq[i] = lq[j] => i = j
  BY <1>5 DEF QueueInv
<1>12. \A u \in Threads : Waits(cl[u]) <=> \E i \in 1 .. N : lq[i] = u
  BY <1>5 DEF QueueInv
<1>13. ASSUME NEW i \in 1 .. N - 1
       PROVE  \E a \in 1 .. N : a # p /\ l2[i] = lq[a] /\ a = IF i < p THEN i ELSE i + 1
  <2>1. CASE i < p
    <3>1. i \in 1 .. N /\ i # p
      BY <2>1, <1>6, <1>4, Shifted
    <3>2. l2[i] = lq[i]
      BY <2>1, <1>9
    <3> QED BY <2>1, <3>1, <3>2
  <2>2. CASE ~(i < p)
    <3>1. i + 1 \in 1 .. N /\ i + 1 # p
      BY <2>2, <1>6, <1>4, Shifted
    <3>2. l2[i] = lq[i + 1]
      BY <2>2, <1>9
    <3> QED BY <2>2, <3>1, <3>2
  <2> QED BY <2>1, <2>2
<1>14. ASSUME NEW i \in 1 .. N - 1, NEW j \in 1 .. N - 1, l2[i] = l2[j] PROVE i = j
  <2>1. PICK a \in 1 .. N : l2[i] = lq[a] /\ a = IF i < p THEN i ELSE i + 1
    BY <1>13
  <2>2. PICK b \in 1 .. N : l2[j] = lq[b] /\ b = IF j < p THEN j ELSE j + 1
    BY <1>13
  <2>3. a = b
    BY <2>1, <2>2, <1>11, <1>14
  <2>4. i \in Nat /\ j \in Nat /\ p \in Nat
    BY <1>6
  <2> QED BY <2>1, <2>2, <2>3, <2>4
<1>15. ASSUME NEW u \in Threads PROVE Waits(c2[u]) <=> \E i \in 1 .. N - 1 : l2[i] = u
  <2>1. CASE u = t
    <3>1. ASSUME NEW i \in 1 .. N - 1, l2[i] = t PROVE FALSE
      <4>1. PICK a \in 1 .. N : a # p /\ l2[i] = lq[a]
        BY <1>13
      <4> QED BY <4>1, <3>1, <1>2, <1>6, <1>11
    <3> QED BY <2>1, <3>1, <1>10
  <2>2. CASE u # t
    <3>1. Waits(c2[u]) <=> \E i \in 1 .. N : lq[i] = u
      BY <2>2, <1>10, <1>12
    <3>2. ASSUME NEW i \in 1 .. N, lq[i] = u PROVE \E j \in 1 .. N - 1 : l2[j] = u
      <4>1. i # p
        BY <3>2, <2>2, <1>2
      <4>2. CASE i < p
        <5>1. i \in 1 .. N - 1 /\ l2[i] = lq[i]
          BY <4>2, <1>6, <1>9
        <5> QED BY <5>1, <3>2
      <4>3. CASE ~(i < p)
        <5>1. i - 1 \in 1 .. N - 1 /\ ~(i - 1 < p) /\ (i - 1) + 1 = i
          BY <4>1, <4>3, <1>6
        <5>2. l2[i - 1] = lq[(i - 1) + 1]
          BY <5>1, <1>9
        <5> QED BY <5>1, <5>2, <3>2
      <4> QED BY <4>2, <4>3
    <3>3. ASSUME NEW i \in 1 .. N - 1, l2[i] = u PROVE \E j \in 1 .. N : lq[j] = u
      <4>1. PICK a \in 1 .. N : l2[i] = lq[a]
        BY <1>13
      <4> QED BY <4>1, <3>3
    <3> QED BY <3>1, <3>2, <3>3
  <2> QED BY <2>1, <2>2
<1>16. QueueInv(l2, c2)
  BY <1>8, <1>14, <1>15 DEF QueueInv
<1> QED BY <1>3, <1>7, <1>16

\* A request that leaves the queue.
LEMMA WaitEnds ==
  ASSUME Inv, NEW t \in Threads, call[t].at = "wait", NEW q \in CallType,
         call' = [call EXCEPT ![t] = q], lockq' = dequeue_path(t), Shape(q), Locks(nd, q),
         SameLocks(q, call[t]), ~Waits(q), q.mx \subseteq call[t].mx,
         q.kref \subseteq call[t].kref, q.ino = NoNode, q.op # "forget",
         \A n \in Ids : Opened(q, n) = Opened(call[t], n),
         UNCHANGED <<nd, treelock, host, kernel, left>>
  PROVE  Inv'
<1>1. /\ call \in [Threads -> CallType] /\ lockq \in Seq(Threads) /\ QueueInv(lockq, call)
      /\ KernelInv(call, knows, kopen) /\ host \in HostType /\ left \subseteq HiddenNames
      /\ knows \in [Ids -> Nat] /\ kopen \in [Ids -> Nat] /\ nd \in [Nodes -> NodeType]
      /\ Shape(call[t])
  BY TypeSplit DEF Inv, Calls
<1>2. nd' = nd /\ treelock' = treelock /\ host' = host /\ knows' = knows /\ kopen' = kopen
      /\ left' = left
  BY DEF kernel
<1>3. lockq' \in Seq(Threads) /\ QueueInv(lockq', call')
  <2>1. PICK c2 : c2 = [call EXCEPT ![t] = q]
    OBVIOUS
  <2>2. PICK p : p = CHOOSE i \in DOMAIN lockq : lockq[i] = t
    OBVIOUS
  <2>3. Waits(call[t]) /\ lockq' = RemoveAt(lockq, p)
    BY <2>2 DEF Waits, dequeue_path
  <2>4. RemoveAt(lockq, p) \in Seq(Threads) /\ QueueInv(RemoveAt(lockq, p), c2)
    BY <1>1, <2>1, <2>2, <2>3, QueueLeaves
  <2> QED BY <2>1, <2>3, <2>4
<1>4. KernelInv(call', knows', kopen')
  BY <1>1, <1>2, KernelSame
<1>5. call[t].ino = NoNode /\ call[t].op # "forget"
  <2>1. PICK r : r = call[t]
    OBVIOUS
  <2>2. Shape(r) /\ r.at = "wait"
    BY <1>1, <2>1
  <2>3. r.op \in DOMAIN Steps /\ r.at \in Steps[r.op] /\ (r.ino # NoNode => r.at = "free")
    BY <2>2, NoCallIs DEF Shape, Phase, Asked
  <2>4. r.op # "forget"
    BY <2>2, <2>3 DEF Steps
  <2> QED BY <2>1, <2>2, <2>3, <2>4
<1>6. ASSUME NEW n \in Ids
      PROVE  Balanced(nd, nd', call, call', t, knows, kopen, knows', kopen', n)
  <2>1. /\ Forgets(q, n) = 0 /\ Forgets(call[t], n) = 0 /\ In(n, {q.ino}) = In(n, {call[t].ino})
        /\ Opened(q, n) = Opened(call[t], n) /\ call'[t] = q
    BY <1>1, <1>5 DEF Forgets
  <2> QED BY <1>2, <2>1 DEF Balanced
<1>7. TableStep(t, nd', {})
  BY <1>2, SameTable
<1> QED BY <1>1, <1>2, <1>3, <1>4, <1>6, <1>7, StepInv DEF Waits

WaitOver(r, a, q) ==
  /\ q \in CallType /\ q.at = a /\ q.op = r.op /\ q.n = r.n /\ q.m = r.m /\ q.n2 = r.n2
  /\ q.m2 = r.m2 /\ q.fl = r.fl /\ q.w = r.w /\ q.w2 = r.w2 /\ q.l = r.l /\ q.l2 = r.l2
  /\ q.p = r.p /\ q.p2 = r.p2 /\ ~q.done /\ q.ino = r.ino /\ q.hid = r.hid
  /\ q.k = r.k /\ q.mx = r.mx /\ q.kref = r.kref

LEMMA OverIs ==
  ASSUME NEW r \in CallType, NEW a \in StepNames
  PROVE  /\ WaitOver(r, a, [r EXCEPT !.at = a, !.done = FALSE])
         /\ WaitOver(r, a, [r EXCEPT !.at = a, !.done = FALSE, !.err = FALSE])
<1>1. [r EXCEPT !.at = a, !.done = FALSE] \in CallType
  BY ZenonT(40) DEF CallType
<1>2. [r EXCEPT !.at = a, !.done = FALSE, !.err = FALSE] \in CallType
  BY ZenonT(40) DEF CallType
<1> QED BY <1>1, <1>2 DEF CallType, WaitOver

\* The request goes on with its first step.
LEMMA OverInv ==
  ASSUME Inv, NEW t \in Threads, call[t].at = "wait", NEW r, NEW q,
         WaitOver(r, FirstStep(r.op), q), Same(r, call[t]), r.l = call[t].l, r.l2 = call[t].l2,
         r.l => r.w = call[t].w, r.l2 => r.w2 = call[t].w2, r.op = "release" \/ Ready(r),
         Locks(nd, r), call' = [call EXCEPT ![t] = q], lockq' = dequeue_path(t),
         UNCHANGED <<nd, treelock, host, kernel, left>>
  PROVE  Inv'
<1>1. call[t] \in CallType /\ Asked(call[t]) /\ Phase(call[t])
  BY AtStep
<1>2. /\ call[t].op # "forget" /\ call[t].ino = NoNode /\ call[t].n \in call[t].kref
      /\ (Two(call[t]) => call[t].n2 \in call[t].kref)
  BY <1>1 DEF Phase, Steps, Asked
<1>3. /\ FirstStep(r.op) \in Steps[r.op] /\ FirstStep(r.op) \in {"stat", "rel", "fs"}
      /\ (FirstStep(r.op) = "rel" <=> r.op = "release")
  BY <1>1, <1>2 DEF FirstStep, Steps, Asked, Same
<1>4. /\ Two(q) <=> Two(r)
      /\ Two(call[t]) <=> Two(r)
      /\ Wr(q) <=> Wr(r)
  BY DEF WaitOver, Two, Wr, Same
<1>5. Asked(q)
  BY <1>1, <1>4 DEF WaitOver, Same, Asked
<1>6. Phase(q)
  BY <1>2, <1>3, <1>4 DEF WaitOver, Same, Phase, Ready
<1>7. Locks(nd, q)
  BY <1>3, <1>4 DEF WaitOver, Same, Locks
<1>8. SameLocks(q, call[t])
  BY DEF WaitOver, SameLocks, Same
<1>9. ~Waits(q) /\ q.mx \subseteq call[t].mx /\ q.kref \subseteq call[t].kref
      /\ q.ino = NoNode /\ q.op # "forget" /\ q \in CallType
  BY <1>2, <1>3 DEF WaitOver, Same, Waits
<1>10. OpenAt(q) <=> OpenAt(call[t])
  BY <1>2, <1>3 DEF OpenAt, WaitOver, Same
<1>11. \A n \in Ids : Opened(q, n) = Opened(call[t], n)
  BY <1>10 DEF Opened, WaitOver, Same
<1>12. Shape(q)
  BY <1>5, <1>6 DEF Shape
<1> QED BY <1>7, <1>8, <1>9, <1>11, <1>12, WaitEnds

LEMMA wait_path_doneInv == ASSUME Inv, NEW t \in Threads, wait_path_done(t) PROVE Inv'
<1>1. PICK r : r = call[t]
  OBVIOUS
<1>2. /\ r.at = "wait" /\ r.done /\ lockq' = dequeue_path(t)
      /\ call' = [call EXCEPT ![t] = IF r.err THEN NoPathFor(r)
                                     ELSE [r EXCEPT !.at = FirstStep(r.op), !.done = FALSE]]
      /\ UNCHANGED <<nd, treelock, host, kernel, left>>
  BY <1>1 DEF wait_path_done
<1>3. r \in CallType /\ Asked(r) /\ Phase(r) /\ Locks(nd, r) /\ Same(r, call[t])
  BY <1>1, <1>2, AtStep DEF Same
<1>4. FirstStep(r.op) \in StepNames
  BY DEF FirstStep, StepNames
<1>5. CASE ~r.err
  <2>1. PICK q : q = [r EXCEPT !.at = FirstStep(r.op), !.done = FALSE]
    OBVIOUS
  <2>2. WaitOver(r, FirstStep(r.op), q) /\ call' = [call EXCEPT ![t] = q]
    BY <1>2, <1>3, <1>4, <1>5, <2>1, OverIs
  <2>3. Ready(r)
    BY <1>2, <1>3, <1>5 DEF Phase
  <2> QED BY <1>1, <1>2, <1>3, <2>2, <2>3, OverInv
<1>6. CASE r.err /\ r.op = "release"
  <2>1. PICK u : u = Unlocked(r)
    OBVIOUS
  <2>2. PICK q : q = [u EXCEPT !.at = "rel", !.done = FALSE, !.err = FALSE]
    OBVIOUS
  <2>3. call' = [call EXCEPT ![t] = q]
    BY <1>2, <1>6, <2>1, <2>2 DEF NoPathFor
  <2>4. /\ u \in CallType /\ Same(u, r) /\ ~u.l /\ ~u.l2 /\ u.w = NoNode /\ u.w2 = NoNode
    BY <1>3, <2>1, UnlockedIs
  <2>5. FirstStep(u.op) = "rel" /\ u.op = "release"
    BY <1>6, <2>4 DEF FirstStep, Same
  <2>6. WaitOver(u, FirstStep(u.op), q)
    BY <1>4, <1>6, <2>2, <2>4, <2>5, OverIs DEF StepNames
  <2>7. ~r.l /\ ~r.l2
    BY <1>2, <1>3, <1>6 DEF Phase
  <2>8. u.l = call[t].l /\ u.l2 = call[t].l2
    <3>1. r.l \in BOOLEAN /\ r.l2 \in BOOLEAN /\ u.l \in BOOLEAN /\ u.l2 \in BOOLEAN
      BY <1>3, <2>4 DEF CallType
    <3> QED BY <1>1, <2>4, <2>7, <3>1
  <2>9. Same(u, call[t])
    BY <1>1, <2>4
  <2>10. Locks(nd, u)
    <3>1. u.at = "wait" /\ u.done = r.done /\ u.err = r.err
      BY <1>2, <1>3, <2>1, <2>4, UnlockedIs DEF Same
    <3>2. ~Named(nd, r.n) \/ (Two(r) /\ ~Named(nd, r.n2))
      BY <1>2, <1>3, <1>6 DEF Locks
    <3>3. ~Named(nd, u.n) \/ (Two(u) /\ ~Named(nd, u.n2))
      BY <2>4, <3>2 DEF Same, Two
    <3> QED BY <2>4, <3>1, <3>3, NoLocks
  <2> QED BY <1>1, <1>2, <2>3, <2>4, <2>5, <2>6, <2>8, <2>9, <2>10, OverInv
<1>7. CASE r.err /\ r.op # "release"
  <2>1. call' = [call EXCEPT ![t] = NoCall]
    BY <1>2, <1>7 DEF NoPathFor
  <2>2. ~r.l /\ ~r.l2
    BY <1>2, <1>3, <1>7 DEF Phase
  <2>3. SameLocks(NoCall, call[t])
    BY <1>1, <2>2, NoCallIs DEF SameLocks
  <2>4. ~OpenAt(call[t]) /\ ~OpenAt(NoCall)
    BY <1>1, <1>2, <1>7, NoCallIs DEF OpenAt
  <2>5. \A n \in Ids : Opened(NoCall, n) = Opened(call[t], n)
    BY <2>4 DEF Opened
  <2>6. /\ NoCall \in CallType /\ Shape(NoCall) /\ Locks(nd, NoCall) /\ ~Waits(NoCall)
        /\ NoCall.mx \subseteq call[t].mx /\ NoCall.kref \subseteq call[t].kref
        /\ NoCall.ino = NoNode /\ NoCall.op # "forget"
    BY NoCallIs
  <2>7. PICK q : q = NoCall
    OBVIOUS
  <2> QED BY <1>1, <1>2, <2>1, <2>3, <2>5, <2>6, <2>7, WaitEnds
<1> QED BY <1>5, <1>6, <1>7

---------------------------------------------------------------------------
(* Nodes forgotten *)

LEMMA UnlockedNode ==
  ASSUME Inv, NEW n \in Ids, treelock[n] = 0
  PROVE  R1(nd, call, n) = {} /\ R2(nd, call, n) = {} /\ W1(call, n) = {} /\ W2(call, n) = {}
<1>1. LockOk(nd, treelock, call)
  BY DEF Inv
<1>2. R1(nd, call, n) = {} /\ R2(nd, call, n) = {}
  BY <1>1, LockedBy
<1>3. LockVal(0, WN(call, n), RN(nd, call, n))
  BY <1>1 DEF LockOk
<1>4. RN(nd, call, n) \in Nat /\ WN(call, n) \in Nat 
  BY CountBounds, SMT
<1>5. PICK w \in Nat, r \in Nat : w = WN(call, n) /\ r = RN(nd, call, n)
  BY <1>4
<1>6. w = 0
  BY <1>3, <1>5, SMT DEF LockVal, TREELOCK_WRITE
<1>7. WN(call, n) = 0 => W1(call, n) = {} /\ W2(call, n) = {}
  BY CountBounds, SMT
<1> QED BY <1>2, <1>5, <1>6, <1>7

\* Nodes freed by a forget: what refers to them.
Gone(n, k, F) ==
  /\ n \in Ids /\ k \in Nat \ {0} /\ F \subseteq Ids /\ Dropped(nd, nd', n, k, F)
  /\ F # {} => nd[n].nlookup = k
  /\ nd[n].nlookup = k => treelock[n] = 0 /\ knows[n] = 0

LEMMA GoneFree ==
  ASSUME Inv, NEW thr \in Threads, NEW n, NEW k, NEW F, Gone(n, k, F), NEW u \in F
  PROVE  /\ u \in Ids /\ knows[u] = 0
         /\ R1(nd, call, u) = {} /\ R2(nd, call, u) = {}
         /\ W1(call, u) = {} /\ W2(call, u) = {}
<1>1. /\ u \in Ids /\ nd[n].nlookup = k /\ treelock[n] = 0 /\ knows[n] = 0 /\ n \in Ids
      /\ TreeInv(nd) /\ TreeInv(nd') /\ Calls(nd, call) /\ call \in [Threads -> CallType]
      /\ nd \in [Nodes -> NodeType] /\ knows \in [Ids -> Nat] /\ kopen \in [Ids -> Nat]
      /\ Counts(nd, call, knows, kopen)
  BY TypeSplit DEF Gone, Inv, Dropped
<1>2. u # n => nd[u].nlookup = 0
  BY DEF Gone, Dropped
<1>3. R1(nd, call, n) = {} /\ R2(nd, call, n) = {} /\ W1(call, n) = {} /\ W2(call, n) = {}
  BY <1>1, UnlockedNode
<1>4. knows[u] = 0
  <2>1. CASE u = n
    BY <2>1, <1>1
  <2>2. CASE u # n
    <3>1. nd[u].nlookup = 0 /\ nd[u].nlookup >= knows[u] /\ knows[u] \in Nat
      BY <2>2, <1>1, <1>2, CountsAtLeast
    <3> QED BY <3>1
  <2> QED BY <2>1, <2>2
<1>5. ASSUME NEW v \in Places, v \notin F PROVE u \notin Chain(nd, v)
  <2>1. Tree(nd)
    BY <1>1, InvTree
  <2>2. PICK X : X = Places \ F
    OBVIOUS
  <2>3. ASSUME NEW y \in X \cap Ids, nd[y].parent \in Ids PROVE nd[y].parent \in X
    <3>1. y \in Nodes \ F /\ nd[y].parent \in Places
      BY <2>1, <2>2, <2>3, IdsPlaces DEF Tree, Parents
    <3>2. nd'[y].parent = nd[y].parent
      BY <3>1 DEF Gone, Dropped, SamePlace
    <3>3. ASSUME nd[y].parent \in F PROVE FALSE
      <4>1. nd'[nd[y].parent] = FreeNode /\ nd[y].parent \in Ids
        BY <3>3 DEF Gone, Dropped
      <4>2. nd'[nd[y].parent].refctr = 0
        BY <4>1 DEF FreeNode
      <4>3. PICK e, x : e = nd' /\ x = nd[y].parent
        OBVIOUS
      <4>4. TreeInv(e) /\ x \in Ids /\ e[x].refctr = 0
        BY <4>1, <4>2, <4>3, <1>1
      <4>5. \A c \in Ids : e[c].parent # x
        BY <4>4, FreeNoChild
      <4> QED BY <4>3, <4>5, <3>2
    <3> QED BY <3>1, <3>3, <2>2
  <2>4. v \in Ids => v \in X
    BY <1>5, <2>2
  <2>5. Chain(nd, v) \subseteq X
    BY <2>1, <2>3, <2>4, ChainLeast
  <2> QED BY <2>2, <2>5
<1>6. ASSUME NEW t \in Threads, NEW v \in Nodes, Alive(nd, v), v \in F PROVE v = n
  <2>1. v \in Ids /\ v # Root
    BY <1>6, IdsPlaces DEF Gone
  <2>2. nd[v].nlookup > 0
    BY <1>6, <2>1 DEF Alive
  <2>3. v # n => nd[v].nlookup = 0
    BY <1>6 DEF Gone, Dropped
  <2> QED BY <2>2, <2>3
<1>7. ASSUME NEW t \in Threads PROVE t \notin R1(nd, call, u) /\ t \notin R2(nd, call, u)
  <2>1. Locks(nd, call[t]) /\ Shape(call[t])
    BY <1>1 DEF Calls
  <2>2. ASSUME t \in R1(nd, call, u) PROVE FALSE
    <3>1. call[t].l /\ u \in Chain(nd, call[t].n)
      BY <2>2 DEF R1
    <3>2. Alive(nd, call[t].n) /\ call[t].n \in Nodes
      BY <2>1, <3>1, NoCallIs DEF Locks, Shape, Asked
    <3>3. call[t].n \in F
      BY <1>5, <3>1, <3>2, IdsPlaces
    <3>4. call[t].n = n
      BY <1>6, <3>2, <3>3
    <3>5. n \in Chain(nd, n)
      BY <1>1, InvTree, ChainUp
    <3>6. t \in R1(nd, call, n)
      BY <3>1, <3>4, <3>5 DEF R1
    <3> QED BY <3>6, <1>3
  <2>3. ASSUME t \in R2(nd, call, u) PROVE FALSE
    <3>1. call[t].l2 /\ u \in Chain(nd, call[t].n2)
      BY <2>3 DEF R2
    <3>2. Alive(nd, call[t].n2) /\ call[t].n2 \in Nodes
      BY <2>1, <3>1, NoCallIs DEF Locks, Shape, Asked
    <3>3. call[t].n2 \in F
      BY <1>5, <3>1, <3>2, IdsPlaces
    <3>4. call[t].n2 = n
      BY <1>6, <3>2, <3>3
    <3>5. n \in Chain(nd, n)
      BY <1>1, InvTree, ChainUp
    <3>6. t \in R2(nd, call, n)
      BY <3>1, <3>4, <3>5 DEF R2
    <3> QED BY <3>6, <1>3
  <2> QED BY <2>2, <2>3
<1>8. ASSUME NEW t \in Threads PROVE t \notin W1(call, u) /\ t \notin W2(call, u)
  <2>1. Locks(nd, call[t])
    BY <1>1 DEF Calls
  <2>2. ASSUME t \in W1(call, u) \/ t \in W2(call, u) PROVE FALSE
    <3>1. nd[u].nlookup > 0
      BY <2>1, <2>2, <1>1, IdsPlaces DEF W1, W2, Locks
    <3>2. u = n
      BY <3>1, <1>2
    <3> QED BY <2>2, <3>2, <1>3
  <2> QED BY <2>2
<1>9. R1(nd, call, u) \subseteq Threads /\ R2(nd, call, u) \subseteq Threads
      /\ W1(call, u) \subseteq Threads /\ W2(call, u) \subseteq Threads
  BY DEF R1, R2, W1, W2
<1> QED BY <1>1, <1>4, <1>7, <1>8, <1>9

\* Nobody has a freed node open.
LEMMA GoneClosed ==
  ASSUME Inv, NEW thr \in Threads, NEW n, NEW k, NEW F, Gone(n, k, F), NEW u \in F
  PROVE  nd[u].open_count = 0
<1>1. /\ u \in Ids /\ knows[u] = 0 /\ R1(nd, call, u) = {}
  BY GoneFree
<1>2. /\ TreeInv(nd) /\ Calls(nd, call) /\ KernelInv(call, knows, kopen)
      /\ kopen \in [Ids -> Nat] /\ Counts(nd, call, knows, kopen)
  BY TypeSplit DEF Inv
<1>3. kopen[u] = 0
  BY <1>1, <1>2 DEF KernelInv
<1>4. ASSUME NEW t \in Threads, call[t].n = u, OpenAt(call[t]) PROVE FALSE
  <2>1. Shape(call[t])
    BY <1>2 DEF Calls
  <2>2. Phase(call[t]) /\ call[t].op # "forget"
    BY <2>1, <1>4, NoCallIs DEF OpenAt, Shape
  <2>3. u \notin call[t].kref
    BY <1>1, <1>2 DEF KernelInv
  <2>4. call[t].op = "open" /\ call[t].at = "rel"
    BY <2>2, <2>3, <1>4 DEF Phase, OpenAt
  <2>5. call[t].l
    BY <2>2, <2>4 DEF Phase, Ready
  <2>6. u \in Chain(nd, u)
    BY <1>1, <1>2, InvTree, ChainUp
  <2>7. t \in R1(nd, call, u)
    BY <1>4, <2>5, <2>6 DEF R1
  <2> QED BY <1>1, <2>7
<1>5. Openers(call, u) = {}
  BY <1>4 DEF Openers
<1>6. Cardinality(Openers(call, u)) = 0
  BY <1>5, FS_EmptySet
<1>7. nd[u].open_count = kopen[u] + Cardinality(Openers(call, u))
  BY <1>1, <1>2 DEF Counts
<1> QED BY <1>3, <1>6, <1>7

LEMMA GoneStep ==
  ASSUME Inv, NEW t \in Threads, NEW n, NEW k, NEW F, Gone(n, k, F)
  PROVE  TableStep(t, nd', {})
<1>1. TreeInv(nd') /\ n \in Ids /\ TreeInv(nd)
  BY DEF Gone, Dropped, Inv
<1>2. ASSUME NEW u \in Ids, ~SamePlace(nd, nd', u)
      PROVE  /\ R1(nd, call, u) = {} /\ R2(nd, call, u) = {}
             /\ W1(call, u) \cup W2(call, u) \subseteq {t}
             /\ nd'[u].parent \in {NoNode} \cup call[t].mx
             /\ nd'[u].name = NoName
  <2>1. u \in F
    BY <1>2 DEF Gone, Dropped, Nodes
  <2>2. nd'[u] = FreeNode
    BY <2>1 DEF Gone, Dropped
  <2>3. /\ R1(nd, call, u) = {} /\ R2(nd, call, u) = {}
        /\ W1(call, u) = {} /\ W2(call, u) = {}
    BY <2>1, GoneFree
  <2> QED BY <2>2, <2>3 DEF FreeNode
<1>3. ASSUME NEW u \in Ids, nd[u].nlookup > 0, nd'[u].nlookup = 0
      PROVE  /\ R1(nd, call, u) = {} /\ R2(nd, call, u) = {}
             /\ W1(call, u) = {} /\ W2(call, u) = {}
  <2>1. CASE u \in F
    BY <2>1, GoneFree
  <2>2. CASE u \notin F
    <3>1. u \in Nodes \ F
      BY <2>2 DEF Nodes
    <3>2. nd'[u].nlookup = IF u = n THEN nd[u].nlookup - k ELSE nd[u].nlookup
      BY <3>1 DEF Gone, Dropped
    <3>3. nd[u].nlookup \in Nat /\ k \in Nat
      BY <1>1, NodeIs, <3>1 DEF Gone
    <3>4. u = n /\ nd[n].nlookup = k
      BY <3>2, <3>3, <1>3
    <3>5. treelock[u] = 0
      BY <3>4 DEF Gone
    <3> QED BY <3>5, UnlockedNode
  <2> QED BY <2>1, <2>2
<1> QED BY <1>1, <1>2, <1>3 DEF TableStep

\* The lookups are dropped, of a node nobody has locked if they are its last.
LEMMA ForgottenGone ==
  ASSUME Inv, NEW t \in Threads, call[t].op = "forget", ~MustWait(call[t]),
         nd' = DropLookups(nd, call[t].n, call[t].k)
  PROVE  \E F : Gone(call[t].n, call[t].k, F)
<1>1. /\ call \in [Threads -> CallType] /\ TreeInv(nd) /\ Counts(nd, call, knows, kopen)
      /\ KernelInv(call, knows, kopen) /\ host \in HostType /\ left \subseteq HiddenNames
      /\ knows \in [Ids -> Nat] /\ kopen \in [Ids -> Nat] /\ nd \in [Nodes -> NodeType]
      /\ Shape(call[t])
  BY TypeSplit DEF Inv, Calls
<1>2. PICK n, k : n = call[t].n /\ k = call[t].k
  OBVIOUS
<1>3. /\ Asked(call[t]) /\ Phase(call[t])
  BY <1>1, NoCallIs DEF Shape
<1>4. /\ n \in Ids /\ k \in Nat /\ k > 0 /\ ~call[t].l /\ ~call[t].l2 /\ call[t].ino = NoNode
  BY <1>1, <1>2, <1>3 DEF Asked, Phase, InDir, Finding, CallType
<1>5. nd[n].nlookup >= knows[n] + k /\ nd[n].nlookup \in Nat /\ knows[n] \in Nat
  <2>1. Forgets(call[t], n) = k
    BY <1>2 DEF Forgets
  <2>2. nd[n].nlookup >= knows[n] + Forgets(call[t], n)
    BY <1>1, <1>4, CountsAtLeast
  <2>3. n \in Nodes
    BY <1>4 DEF Nodes
  <2> QED BY <1>1, <1>4, <2>1, <2>2, <2>3, NodeIs
<1>6. k <= nd[n].nlookup
  BY <1>4, <1>5
<1>7. PICK F : Dropped(nd, nd', n, k, F)
  <2>1. PICK e : e = nd'
    OBVIOUS
  <2>2. e = DropLookups(nd, n, k)
    BY <2>1, <1>2
  <2>3. \E F : Dropped(nd, e, n, k, F)
    BY <1>1, <1>4, <1>6, <2>2, DropOk
  <2> QED BY <2>1, <2>3
<1>8. Gone(n, k, F)
  <2>1. F \subseteq Ids
    <3>1. Chain(nd, n) \subseteq Ids
      BY <1>1, <1>4, InvTree, ChainIds, IdsPlaces
    <3> QED BY <3>1, <1>7 DEF Dropped
  <2>2. F # {} => nd[n].nlookup = k
    BY <1>7 DEF Dropped
  <2>3. nd[n].nlookup = k => treelock[n] = 0 /\ knows[n] = 0
    BY <1>2, <1>4, <1>5 DEF MustWait
  <2> QED BY <1>4, <1>7, <2>1, <2>2, <2>3 DEF Gone
<1> QED BY <1>2, <1>8

\* Its request is over.
LEMMA ForgottenInv ==
  ASSUME Inv, NEW t \in Threads, call[t].op = "forget", ~MustWait(call[t]),
         nd' = DropLookups(nd, call[t].n, call[t].k), call' = [call EXCEPT ![t] = NoCall],
         lockq' \in Seq(Threads), QueueInv(lockq', call'),
         UNCHANGED <<treelock, host, kernel, left>>
  PROVE  Inv'
<1>1. /\ call \in [Threads -> CallType] /\ TreeInv(nd) /\ Counts(nd, call, knows, kopen)
      /\ KernelInv(call, knows, kopen) /\ host \in HostType /\ left \subseteq HiddenNames
      /\ knows \in [Ids -> Nat] /\ kopen \in [Ids -> Nat] /\ nd \in [Nodes -> NodeType]
      /\ Shape(call[t])
  BY TypeSplit DEF Inv, Calls
<1>2. PICK n, k : n = call[t].n /\ k = call[t].k
  OBVIOUS
<1>3. /\ Asked(call[t]) /\ Phase(call[t])
  BY <1>1, NoCallIs DEF Shape
<1>4. /\ n \in Ids /\ k \in Nat /\ k > 0 /\ ~call[t].l /\ ~call[t].l2 /\ call[t].ino = NoNode
  BY <1>1, <1>2, <1>3 DEF Asked, Phase, InDir, Finding, CallType
<1>8. PICK F : Gone(n, k, F)
  BY <1>2, ForgottenGone
<1>7. Dropped(nd, nd', n, k, F)
  BY <1>8 DEF Gone
<1>9. TableStep(t, nd', {})
  BY <1>8, GoneStep
<1>10. KernelInv(call', knows', kopen')
  BY <1>1, NoCallIs, KernelSame DEF kernel
<1>11. ASSUME NEW i \in Ids
       PROVE  Balanced(nd, nd', call, call', t, knows, kopen, knows', kopen', i)
  <2>1. /\ call'[t] = NoCall /\ Forgets(NoCall, i) = 0 /\ Opened(NoCall, i) = 0
        /\ In(i, {NoCall.ino}) = 0 /\ knows' = knows /\ kopen' = kopen
    BY <1>1, NoForgets DEF kernel
  <2>2. In(i, {call[t].ino}) = 0 /\ Opened(call[t], i) = 0
    BY <1>4, IdsPlaces DEF In, Opened, OpenAt
  <2>3. Forgets(call[t], i) = IF i = n THEN k ELSE 0
    BY <1>2 DEF Forgets
  <2>4. nd[i].nlookup \in Nat /\ nd[i].open_count \in Nat
    BY <1>1 DEF NodeType, Nodes
  <2>5. nd'[i].nlookup = (IF i = n THEN nd[i].nlookup - k ELSE nd[i].nlookup)
    <3>1. CASE i \in F
      <4>1. nd'[i].nlookup = 0
        BY <3>1, <1>7 DEF Dropped, FreeNode
      <4>2. i # n => nd[i].nlookup = 0
        BY <3>1, <1>7 DEF Dropped
      <4>3. nd[n].nlookup = k
        BY <3>1, <1>8 DEF Gone
      <4> QED BY <4>1, <4>2, <4>3, <1>4
    <3>2. CASE i \notin F
      BY <3>2, <1>7 DEF Dropped, Nodes
    <3> QED BY <3>1, <3>2
  <2>6. nd'[i].open_count = nd[i].open_count
    <3>1. CASE i \in F
      <4>1. nd'[i].open_count = 0
        BY <3>1, <1>7 DEF Dropped, FreeNode
      <4> QED BY <3>1, <4>1, <1>8, GoneClosed
    <3>2. CASE i \notin F
      BY <3>2, <1>7 DEF Dropped, Nodes
    <3> QED BY <3>1, <3>2
  <2>7. PICK a \in Nat, b \in Nat, o \in Nat : a = nd[i].nlookup /\ b = knows[i] /\ o = kopen[i]
    BY <2>4, <1>1
  <2>8. nd'[i].nlookup + knows'[i] + In(i, {call[t].ino}) + Forgets(call[t], i)
          = nd[i].nlookup + knows'[i] + In(i, {call'[t].ino}) + Forgets(call'[t], i)
    <3>1. CASE i = n
      <4>1. nd'[i].nlookup = a - k /\ Forgets(call[t], i) = k
        BY <3>1, <2>3, <2>5, <2>7
      <4>2. (a - k) + b + 0 + k = a + b + 0 + 0
        BY <1>4
      <4> QED BY <4>1, <4>2, <2>1, <2>2, <2>7
    <3>2. CASE i # n
      BY <3>2, <2>1, <2>2, <2>3, <2>5
    <3> QED BY <3>1, <3>2
  <2>9. nd'[i].open_count + kopen[i] + Opened(call[t], i)
          = nd[i].open_count + kopen'[i] + Opened(call'[t], i)
    BY <2>1, <2>2, <2>6
  <2> QED BY <2>1, <2>8, <2>9 DEF Balanced
<1>12. SameLocks(NoCall, call[t]) /\ Locks(nd', NoCall)
  BY <1>4, NoCallIs DEF SameLocks
<1>13. host' = host /\ left' = left /\ knows' = knows /\ kopen' = kopen /\ treelock' = treelock
  BY DEF kernel
<1>14. PICK q : q = NoCall
  OBVIOUS
<1>15. q \in CallType /\ Shape(q) /\ ~(Wr(q) /\ q.at = "wait") /\ SameLocks(q, call[t])
       /\ Locks(nd', q) /\ call' = [call EXCEPT ![t] = q]
  BY <1>12, <1>14, NoCallIs
<1> QED BY <1>1, <1>9, <1>10, <1>11, <1>13, <1>15, StepInv

LEMMA ForgetIs ==
  ASSUME Inv, NEW t \in Threads, call[t].op = "forget"
  PROVE  /\ Asked(call[t]) /\ Phase(call[t]) /\ call[t] \in CallType /\ Locks(nd, call[t])
         /\ call[t].n \in Ids /\ ~call[t].l /\ ~call[t].l2 /\ call[t].ino = NoNode
         /\ call[t].w = NoNode /\ call[t].w2 = NoNode
<1>1. call[t] \in CallType /\ Shape(call[t]) /\ Locks(nd, call[t])
  BY TypeSplit DEF Inv, Calls
<1>2. Asked(call[t]) /\ Phase(call[t])
  BY <1>1, NoCallIs DEF Shape
<1> QED BY <1>1, <1>2 DEF Asked, Phase, InDir, Locks, Finding

\* A forget that only joins the queue, or goes on waiting in it.
LEMMA ForgetWaitInv ==
  ASSUME Inv, NEW t \in Threads, call[t].op = "forget", NEW q \in CallType,
         q.op = "forget", q.n = call[t].n, q.m = call[t].m, q.k = call[t].k, q.at = "fwait",
         ~q.l, ~q.l2, q.ino = NoNode, q.w = NoNode, q.w2 = NoNode, q.mx = call[t].mx,
         q.kref = call[t].kref, call' = [call EXCEPT ![t] = q],
         lockq' \in Seq(Threads), QueueInv(lockq', call'),
         UNCHANGED <<nd, treelock, host, kernel, left>>
  PROVE  Inv'
<1>1. /\ call \in [Threads -> CallType] /\ KernelInv(call, knows, kopen) /\ host \in HostType
      /\ left \subseteq HiddenNames /\ knows \in [Ids -> Nat] /\ kopen \in [Ids -> Nat]
  BY TypeSplit DEF Inv
<1>2. /\ Asked(call[t]) /\ Phase(call[t]) /\ ~call[t].l /\ ~call[t].l2 /\ call[t].ino = NoNode
  BY ForgetIs
<1>3. ~Two(q) /\ ~Wr(q)
  BY DEF Two, Wr
<1>4. Asked(q)
  BY <1>2, <1>3 DEF Asked, InDir
<1>5. Phase(q)
  BY <1>2, <1>3 DEF Phase, Steps
<1>6. Locks(nd, q)
  BY NoLocks
<1>7. KernelInv(call', knows', kopen')
  BY <1>1, KernelSame DEF kernel
<1>8. ASSUME NEW n \in Ids
      PROVE  Balanced(nd, nd', call, call', t, knows, kopen, knows', kopen', n)
  <2>1. call'[t] = q /\ nd' = nd /\ knows' = knows /\ kopen' = kopen
    BY <1>1 DEF kernel
  <2>2. Forgets(q, n) = Forgets(call[t], n)
    BY DEF Forgets
  <2>3. Opened(q, n) = 0 /\ Opened(call[t], n) = 0
    BY DEF Opened, OpenAt
  <2> QED BY <1>2, <2>1, <2>2, <2>3 DEF Balanced
<1>9. TableStep(t, nd', {})
  BY SameTable
<1>10. SameLocks(q, call[t]) /\ Shape(q)
  BY <1>2, <1>4, <1>5 DEF SameLocks, Shape
<1>11. nd' = nd /\ host' = host /\ left' = left /\ knows' = knows /\ kopen' = kopen
       /\ treelock' = treelock
  BY DEF kernel
<1> QED BY <1>1, <1>3, <1>6, <1>7, <1>8, <1>9, <1>10, <1>11, StepInv

LEMMA forget_nodeInv == ASSUME Inv, NEW t \in Threads, forget_node(t) PROVE Inv'
<1>1. /\ call[t].op = "forget" /\ call[t].at = "forget"
      /\ UNCHANGED <<treelock, host, kernel, left>>
  BY DEF forget_node, At
<1>2. /\ call \in [Threads -> CallType] /\ lockq \in Seq(Threads) /\ QueueInv(lockq, call)
  BY TypeSplit DEF Inv
<1>3. /\ call[t] \in CallType /\ ~call[t].l /\ ~call[t].l2 /\ call[t].ino = NoNode
      /\ call[t].w = NoNode /\ call[t].w2 = NoNode /\ ~Waits(call[t])
  BY <1>1, ForgetIs DEF Waits
<1>4. CASE MustWait(call[t])
  <2>1. PICK q : q = [call[t] EXCEPT !.at = "fwait"]
    OBVIOUS
  <2>2. lockq' = Append(lockq, t) /\ call' = [call EXCEPT ![t] = q] /\ UNCHANGED nd
    BY <1>2, <1>4, <2>1 DEF forget_node, Goto
  <2>3. "fwait" \in StepNames
    BY DEF StepNames
  <2>4. /\ q \in CallType /\ q.op = "forget" /\ q.n = call[t].n /\ q.m = call[t].m
        /\ q.k = call[t].k /\ q.at = "fwait" /\ ~q.l /\ ~q.l2 /\ q.ino = NoNode /\ q.w = NoNode
        /\ q.w2 = NoNode /\ q.mx = call[t].mx /\ q.kref = call[t].kref /\ Waits(q)
    BY <1>1, <1>3, <2>1, <2>3, AtIs DEF Waits
  <2>5. lockq' \in Seq(Threads) /\ QueueInv(lockq', call')
    <3>1. PICK c2 : c2 = [call EXCEPT ![t] = q]
      OBVIOUS
    <3>2. Append(lockq, t) \in Seq(Threads) /\ QueueInv(Append(lockq, t), c2)
      BY <1>2, <1>3, <2>4, <3>1, QueueJoins
    <3> QED BY <2>2, <3>1, <3>2
  <2> QED BY <1>1, <2>2, <2>4, <2>5, ForgetWaitInv
<1>5. CASE ~MustWait(call[t])
  <2>1. /\ nd' = DropLookups(nd, call[t].n, call[t].k) /\ call' = [call EXCEPT ![t] = NoCall]
        /\ lockq' = lockq
    BY <1>5 DEF forget_node
  <2>2. QueueInv(lockq', call')
    BY <1>2, <1>3, <2>1, NoCallIs, QueueSame
  <2> QED BY <1>1, <1>2, <1>5, <2>1, <2>2, ForgottenInv
<1> QED BY <1>4, <1>5

LEMMA forget_node_wokenInv == ASSUME Inv, NEW t \in Threads, forget_node_woken(t) PROVE Inv'
<1>1. /\ call[t].op = "forget" /\ call[t].at = "fwait"
      /\ UNCHANGED <<treelock, host, kernel, left>>
  BY DEF forget_node_woken, At
<1>2. /\ call \in [Threads -> CallType] /\ lockq \in Seq(Threads) /\ QueueInv(lockq, call)
  BY TypeSplit DEF Inv
<1>3. /\ call[t] \in CallType /\ ~call[t].l /\ ~call[t].l2 /\ call[t].ino = NoNode
      /\ call[t].w = NoNode /\ call[t].w2 = NoNode /\ Waits(call[t])
  BY <1>1, ForgetIs DEF Waits
<1>4. CASE MustWait(call[t])
  <2>1. PICK q : q = [call[t] EXCEPT !.done = FALSE]
    OBVIOUS
  <2>2. call' = [call EXCEPT ![t] = q] /\ UNCHANGED <<nd, lockq>>
    BY <1>2, <1>4, <2>1 DEF forget_node_woken
  <2>3. q \in CallType
    BY <1>3, <2>1 DEF CallType
  <2>4. /\ q.op = "forget" /\ q.n = call[t].n /\ q.m = call[t].m
        /\ q.k = call[t].k /\ q.at = "fwait" /\ ~q.l /\ ~q.l2 /\ q.ino = NoNode /\ q.w = NoNode
        /\ q.w2 = NoNode /\ q.mx = call[t].mx /\ q.kref = call[t].kref /\ Waits(q)
    BY <1>1, <1>3, <2>1 DEF Waits, CallType
  <2>5. lockq' \in Seq(Threads) /\ QueueInv(lockq', call')
    <3>1. QueueInv(lockq, [call EXCEPT ![t] = q])
      BY <1>2, <1>3, <2>4, QueueSame
    <3> QED BY <1>2, <2>2, <3>1
  <2> QED BY <1>1, <2>2, <2>3, <2>4, <2>5, ForgetWaitInv
<1>5. CASE ~MustWait(call[t])
  <2>1. /\ nd' = DropLookups(nd, call[t].n, call[t].k) /\ call' = [call EXCEPT ![t] = NoCall]
        /\ lockq' = dequeue_path(t)
    BY <1>5 DEF forget_node_woken
  <2>2. lockq' \in Seq(Threads) /\ QueueInv(lockq', call')
    <3>1. PICK c2 : c2 = [call EXCEPT ![t] = NoCall]
      OBVIOUS
    <3>2. PICK p : p = CHOOSE i \in DOMAIN lockq : lockq[i] = t
      OBVIOUS
    <3>3. PICK q : q = NoCall
      OBVIOUS
    <3>4. ~Waits(q) /\ c2 = [call EXCEPT ![t] = q]
      BY <3>1, <3>3, NoCallIs
    <3>5. RemoveAt(lockq, p) \in Seq(Threads) /\ QueueInv(RemoveAt(lockq, p), c2)
      BY <1>2, <1>3, <3>2, <3>4, QueueLeaves
    <3> QED BY <2>1, <3>1, <3>2, <3>5 DEF dequeue_path
  <2> QED BY <1>1, <1>2, <1>5, <2>1, <2>2, ForgottenInv
<1> QED BY <1>4, <1>5

ForgetOf(n, k, q) ==
  /\ q \in CallType /\ q.op = "forget" /\ q.at = "forget" /\ q.n = n /\ q.k = k /\ q.m = NoName
  /\ ~q.l /\ ~q.l2 /\ q.ino = NoNode /\ q.w = NoNode /\ q.w2 = NoNode /\ q.mx = {}
  /\ q.kref = {} /\ ~q.done

LEMMA ForgetOfIs ==
  ASSUME NEW n \in Ids, NEW k \in Nat, k > 0, NEW q,
         q = [NoCall EXCEPT !.op = "forget", !.at = "forget", !.n = n, !.k = k]
  PROVE  ForgetOf(n, k, q) /\ Shape(q) /\ ~Waits(q) /\ ~Wr(q) /\ ~OpenAt(q) /\ ~Two(q)
         /\ \A d : Locks(d, q)
<1>1. NoCall.m = NoName
  BY DEF NoCall
<1>2. q \in CallType
  <2>1. "forget" \in OpNames /\ "forget" \in StepNames /\ n \in Nodes \cup {NoNode}
    BY DEF OpNames, StepNames, Nodes
  <2> QED BY <2>1, NoCallIs DEF CallType
<1>3. ForgetOf(n, k, q)
  BY <1>1, <1>2, NoCallIs DEF ForgetOf, CallType
<1>4. ~Two(q) /\ ~Wr(q) /\ ~Waits(q) /\ ~OpenAt(q)
  BY <1>3 DEF ForgetOf, Two, Wr, Waits, OpenAt
<1>5. Asked(q)
  BY <1>3, <1>4 DEF ForgetOf, Asked, Steps, InDir, Nodes
<1>6. Phase(q)
  BY <1>3, <1>4 DEF ForgetOf, Phase, Steps
<1>7. \A d : Locks(d, q)
  BY <1>3, NoLocks DEF ForgetOf
<1> QED BY <1>3, <1>4, <1>5, <1>6, <1>7 DEF Shape

LEMMA fuse_lib_forgetInv ==
  ASSUME Inv, NEW t \in Threads, Idle(t), NEW n \in Ids, fuse_lib_forget(t, n)
  PROVE  Inv'
<1>1. /\ call \in [Threads -> CallType] /\ KernelInv(call, knows, kopen) /\ host \in HostType
      /\ left \subseteq HiddenNames /\ knows \in [Ids -> Nat] /\ kopen \in [Ids -> Nat]
      /\ lockq \in Seq(Threads) /\ QueueInv(lockq, call)
  BY TypeSplit DEF Inv
<1>2. call[t] = NoCall
  BY IdleIs
<1>3. PICK q : q = [NoCall EXCEPT !.op = "forget", !.at = "forget", !.n = n, !.k = knows[n]]
  OBVIOUS
<1>4. /\ knows[n] > 0 /\ kopen[n] = 0 /\ \A u \in Threads : n \notin call[u].kref
      /\ knows' = [knows EXCEPT ![n] = 0] /\ call' = [call EXCEPT ![t] = q]
      /\ nd' = nd /\ treelock' = treelock /\ lockq' = lockq /\ host' = host /\ kopen' = kopen
      /\ left' = left
  BY <1>3 DEF fuse_lib_forget, table
<1>5. ForgetOf(n, knows[n], q) /\ Shape(q) /\ ~Waits(q) /\ ~Wr(q) /\ ~OpenAt(q) /\ Locks(nd, q)
  <2>1. PICK k : k = knows[n]
    OBVIOUS
  <2>2. k \in Nat /\ k > 0 /\ q = [NoCall EXCEPT !.op = "forget", !.at = "forget", !.n = n, !.k = k]
    BY <1>1, <1>3, <1>4, <2>1
  <2>3. ForgetOf(n, k, q) /\ Shape(q) /\ ~Waits(q) /\ ~Wr(q) /\ ~OpenAt(q)
        /\ \A d : Locks(d, q)
    BY <2>2, ForgetOfIs
  <2> QED BY <2>1, <2>3
<1>6. QueueInv(lockq', call')
  BY <1>1, <1>2, <1>4, <1>5, NoCallIs, QueueSame
<1>7. KernelInv(call', knows', kopen')
  <2>1. PICK c2 : c2 = [call EXCEPT ![t] = q]
    OBVIOUS
  <2>2. KernelInv(c2, knows, kopen)
    BY <1>1, <1>2, <1>5, <2>1, KernelSame DEF ForgetOf
  <2>3. \A u \in Threads : n \notin c2[u].kref
    BY <1>1, <1>4, <1>5, <2>1 DEF ForgetOf
  <2>4. KernelInv(c2, [knows EXCEPT ![n] = 0], kopen)
    BY <1>1, <1>4, <2>2, <2>3 DEF KernelInv
  <2> QED BY <1>4, <2>1, <2>4
<1>8. knows' \in [Ids -> Nat] /\ kopen' \in [Ids -> Nat]
  BY <1>1, <1>4
<1>9. ASSUME NEW i \in Ids
      PROVE  Balanced(nd, nd', call, call', t, knows, kopen, knows', kopen', i)
  <2>1. call'[t] = q
    BY <1>1, <1>4
  <2>2. /\ Forgets(call[t], i) = 0 /\ Opened(call[t], i) = 0 /\ In(i, {call[t].ino}) = 0
    BY <1>2, NoForgets
  <2>3. Opened(q, i) = 0 /\ In(i, {q.ino}) = 0
    BY <1>5, IdsPlaces DEF Opened, In, ForgetOf
  <2>4. Forgets(q, i) = IF i = n THEN knows[n] ELSE 0
    BY <1>5 DEF Forgets, ForgetOf
  <2>5. knows'[i] = IF i = n THEN 0 ELSE knows[i]
    BY <1>1, <1>4
  <2>6. knows[i] + 0 + 0 = knows'[i] + 0 + Forgets(q, i)
    BY <1>1, <2>4, <2>5
  <2>7. nd[i].nlookup \in Nat /\ knows[i] \in Nat
    BY <1>1, TypeSplit DEF Inv, NodeType, Nodes
  <2>8. PICK a \in Nat, k1 \in Nat : a = nd[i].nlookup /\ k1 = knows[i]
    BY <2>7
  <2>9. PICK k2 \in Nat, f \in Nat : k2 = knows'[i] /\ f = Forgets(q, i)
    BY <2>4, <2>5, <2>7, <1>1
  <2>10. a + k1 + 0 + 0 = a + k2 + 0 + f
    BY <2>6, <2>8, <2>9
  <2> QED BY <1>4, <2>1, <2>2, <2>3, <2>8, <2>9, <2>10 DEF Balanced
<1>10. TableStep(t, nd', {})
  BY <1>4, SameTable
<1>11. SameLocks(q, call[t])
  BY <1>2, <1>5, NoCallIs DEF ForgetOf, SameLocks
<1>12. q \in CallType
  BY <1>5 DEF ForgetOf
<1> QED BY <1>1, <1>4, <1>5, <1>6, <1>7, <1>8, <1>9, <1>10, <1>11, <1>12, StepInv

---------------------------------------------------------------------------
(* Requests answered *)

LEMMA FreedInv ==
  ASSUME Inv, NEW t \in Threads, NEW new \in CallType, Freed(t, new), new.mx = {},
         new.kref = {}, ~Waits(new), ~Waits(call[t]), ~Wr(new),
         knows' \in [Ids -> Nat], \A n \in Ids : knows'[n] >= knows[n],
         NEW c1, c1 = [call EXCEPT ![t] = new],
         \A n \in Ids : Balanced(nd, nd, call, c1, t, knows, kopen, knows', kopen, n),
         UNCHANGED <<nd, lockq, host, kopen, left>>
  PROVE  Inv'
<1>1. /\ call \in [Threads -> CallType] /\ KernelInv(call, knows, kopen) /\ host \in HostType
      /\ left \subseteq HiddenNames /\ knows \in [Ids -> Nat] /\ kopen \in [Ids -> Nat]
      /\ lockq \in Seq(Threads) /\ QueueInv(lockq, call) /\ TreeInv(nd) /\ Targets(nd, call)
      /\ nd \in [Nodes -> NodeType] /\ Counts(nd, call, knows, kopen)
  BY TypeSplit DEF Inv
<1>2. /\ treelock' \in [Ids -> Int] /\ call' \in [Threads -> CallType]
      /\ LockOk(nd, treelock', call') /\ Calls(nd, call')
      /\ \A u \in Threads : Same(call'[u], c1[u])
  BY DEF Freed
<1>3. /\ c1 \in [Threads -> CallType] /\ c1[t] = new /\ \A u \in Threads \ {t} : c1[u] = call[u]
  BY <1>1
<1>4. KernelInv(c1, knows', kopen)
  <2>1. KernelInv(c1, knows, kopen)
    BY <1>1, KernelSame
  <2>2. ASSUME NEW n \in Ids, knows[n] > 0 PROVE knows'[n] > 0
    <3>1. knows[n] \in Nat /\ knows'[n] \in Nat /\ knows'[n] >= knows[n]
      BY <1>1
    <3> QED BY <2>2, <3>1
  <2> QED BY <2>1, <2>2 DEF KernelInv
<1>5. QueueInv(lockq, c1)
  BY <1>1, QueueSame
<1>6. Counts(nd, c1, knows', kopen)
  BY <1>1, <1>3, CountsStep
<1>7. Targets(nd, c1)
  <2> SUFFICES ASSUME NEW u \in Threads, Wr(c1[u]), c1[u].at = "wait", NEW c \in Ids,
                      Target(nd, c1[u], c)
               PROVE  c \in c1[u].kref
    BY DEF Targets
  <2>1. u # t
    BY <1>3
  <2> QED BY <2>1, <1>1, <1>3 DEF Targets
<1>8. PICK c2, kn2 : c2 = call' /\ kn2 = knows'
  OBVIOUS
<1>9. /\ Counts(nd, c2, kn2, kopen) /\ KernelInv(c2, kn2, kopen) /\ QueueInv(lockq, c2)
      /\ Targets(nd, c2)
  <2>1. \A u \in Threads : Same(c2[u], c1[u])
    BY <1>2, <1>8
  <2>2. Counts(nd, c1, kn2, kopen) /\ KernelInv(c1, kn2, kopen)
    BY <1>4, <1>6, <1>8
  <2> QED BY <2>1, <2>2, <1>5, <1>7, RestSame
<1>10. nd' = nd /\ lockq' = lockq /\ host' = host /\ kopen' = kopen /\ left' = left
  OBVIOUS
<1>11. TypeOK'
  BY <1>1, <1>2, <1>10, TypeSplitNext
<1> QED BY <1>1, <1>2, <1>8, <1>9, <1>10, <1>11 DEF Inv

\* A request whose path may be freed.
LEMMA AnswersIs ==
  ASSUME Inv, NEW t \in Threads,
         \/ call[t].op = "getattr" /\ call[t].at = "fs"
         \/ call[t].at = "free"
  PROVE  /\ ~Waits(call[t]) /\ (call[t].l2 => call[t].l) /\ call[t] \in CallType
         /\ \A n \in Ids : Forgets(call[t], n) = 0 /\ Opened(call[t], n) = 0
<1>1. call[t] \in CallType /\ Asked(call[t]) /\ Phase(call[t]) /\ Locks(nd, call[t])
  BY AtStep
<1>2. call[t].op # "forget"
  BY <1>1 DEF Phase, Steps
<1>3. ~Waits(call[t]) /\ ~OpenAt(call[t])
  BY DEF Waits, OpenAt
<1>4. call[t].l2 => call[t].l
  <2>1. call[t].op = "release" \/ Ready(call[t])
    BY <1>1, <1>2 DEF Phase
  <2>2. call[t].l2 => Two(call[t])
    BY <1>1 DEF Locks
  <2> QED BY <2>1, <2>2 DEF Ready, Two
<1> QED BY <1>1, <1>2, <1>3, <1>4 DEF Forgets, Opened

LEMMA free_and_replyInv == ASSUME Inv, NEW t \in Threads, free_and_reply(t) PROVE Inv'
<1>1. /\ \/ call[t].op = "getattr" /\ call[t].at = "fs"
         \/ call[t].at = "free"
      /\ call[t].op = "getattr" \/ call[t].op \notin Finding \/ call[t].ino = NoNode
      /\ FreePath(t, NoCall) /\ UNCHANGED <<nd, lockq, host, kernel, left>>
  BY DEF free_and_reply, At, Finding
<1>2. call[t] \in CallType /\ Asked(call[t]) /\ Phase(call[t]) /\ call \in [Threads -> CallType]
      /\ knows \in [Ids -> Nat]
  BY <1>1, AtStep, TypeSplit DEF Inv
<1>3. call[t].ino = NoNode
  BY <1>1, <1>2 DEF Phase, Finding
<1>4. /\ ~Waits(call[t]) /\ (call[t].l2 => call[t].l)
      /\ \A n \in Ids : Forgets(call[t], n) = 0 /\ Opened(call[t], n) = 0
  BY <1>1, AnswersIs
<1>5. PICK new : new = NoCall
  OBVIOUS
<1>6. /\ new \in CallType /\ ~new.l /\ ~new.l2 /\ ~Waits(new) /\ Shape(new) /\ Locks(nd, new)
      /\ new.mx = {} /\ new.kref = {} /\ ~Wr(new) /\ FreePath(t, new)
  BY <1>1, <1>5, NoCallIs
<1>7. Freed(t, new)
  BY <1>4, <1>6, FreePathOk
<1>8. PICK c1 : c1 = [call EXCEPT ![t] = new]
  OBVIOUS
<1>9. knows' = knows /\ kopen' = kopen
  BY <1>1 DEF kernel
<1>10. ASSUME NEW n \in Ids
       PROVE  Balanced(nd, nd, call, c1, t, knows, kopen, knows', kopen, n)
  <2>1. c1[t] = new
    BY <1>2, <1>8
  <2>2. Forgets(new, n) = 0 /\ Opened(new, n) = 0 /\ In(n, {new.ino}) = 0
    BY <1>5, NoForgets
  <2>3. In(n, {call[t].ino}) = 0
    BY <1>3, IdsPlaces DEF In
  <2> QED BY <2>1, <2>2, <2>3, <1>4, <1>9 DEF Balanced
<1>11. \A n \in Ids : knows'[n] >= knows[n]
  BY <1>2, <1>9
<1>12. UNCHANGED <<nd, lockq, host, kopen, left>> /\ knows' \in [Ids -> Nat]
  BY <1>1, <1>2, <1>9
<1> QED BY <1>4, <1>6, <1>7, <1>8, <1>10, <1>11, <1>12, FreedInv

LEMMA reply_entryInv == ASSUME Inv, NEW t \in Threads, reply_entry(t) PROVE Inv'
<1>1. PICK n : n = call[t].ino
  OBVIOUS
<1>2. /\ call[t].at = "free" /\ n # NoNode /\ UNCHANGED <<nd, lockq, host, kopen, left>>
      /\ \/ FreePath(t, NoCall) /\ knows' = [knows EXCEPT ![n] = @ + 1]
         \/ /\ FreePath(t, [NoCall EXCEPT !.op = "forget", !.at = "forget", !.n = n, !.k = 1])
            /\ UNCHANGED knows
  BY <1>1 DEF reply_entry, At
<1>3. call[t] \in CallType /\ call \in [Threads -> CallType] /\ knows \in [Ids -> Nat]
      /\ nd \in [Nodes -> NodeType] /\ kopen \in [Ids -> Nat]
  BY <1>2, AtStep, TypeSplit DEF Inv
<1>4. n \in Ids
  BY <1>1, <1>2, <1>3 DEF CallType
<1>5. /\ ~Waits(call[t]) /\ (call[t].l2 => call[t].l)
      /\ \A i \in Ids : Forgets(call[t], i) = 0 /\ Opened(call[t], i) = 0
  BY <1>2, AnswersIs
<1>6. CASE FreePath(t, NoCall) /\ knows' = [knows EXCEPT ![n] = @ + 1]
  <2>1. PICK new : new = NoCall
    OBVIOUS
  <2>2. /\ new \in CallType /\ ~new.l /\ ~new.l2 /\ ~Waits(new) /\ Shape(new) /\ Locks(nd, new)
        /\ new.mx = {} /\ new.kref = {} /\ ~Wr(new) /\ FreePath(t, new)
    BY <1>6, <2>1, NoCallIs
  <2>3. Freed(t, new)
    BY <1>5, <2>2, FreePathOk
  <2>4. PICK c1 : c1 = [call EXCEPT ![t] = new]
    OBVIOUS
  <2>5. ASSUME NEW i \in Ids
        PROVE  Balanced(nd, nd, call, c1, t, knows, kopen, knows', kopen, i)
    <3>1. c1[t] = new
      BY <1>3, <2>4
    <3>2. Forgets(new, i) = 0 /\ Opened(new, i) = 0 /\ In(i, {new.ino}) = 0
      BY <2>1, NoForgets
    <3>3. knows'[i] = knows[i] + In(i, {call[t].ino})
      BY <1>1, <1>3, <1>6 DEF In
    <3>4. PICK a \in Nat, k \in Nat, j \in Nat :
            a = nd[i].nlookup /\ k = knows[i] /\ j = In(i, {call[t].ino})
      BY <1>3 DEF NodeType, Nodes, In
    <3>5. a + k + j + 0 = a + (k + j) + 0 + 0
      OBVIOUS
    <3> QED BY <3>1, <3>2, <3>3, <3>4, <3>5, <1>5 DEF Balanced
  <2>6. knows' \in [Ids -> Nat] /\ \A i \in Ids : knows'[i] >= knows[i]
    BY <1>3, <1>4, <1>6
  <2> QED BY <1>2, <1>5, <2>2, <2>3, <2>4, <2>5, <2>6, FreedInv
<1>7. CASE /\ FreePath(t, [NoCall EXCEPT !.op = "forget", !.at = "forget", !.n = n, !.k = 1])
           /\ UNCHANGED knows
  <2>1. PICK new : new = [NoCall EXCEPT !.op = "forget", !.at = "forget", !.n = n, !.k = 1]
    OBVIOUS
  <2>2. PICK k \in Nat : k = 1
    OBVIOUS
  <2>3. new = [NoCall EXCEPT !.op = "forget", !.at = "forget", !.n = n, !.k = k] /\ k > 0
    BY <2>1, <2>2
  <2>4. /\ ForgetOf(n, k, new) /\ Shape(new) /\ ~Waits(new) /\ ~Wr(new) /\ ~OpenAt(new)
        /\ Locks(nd, new)
    BY <1>4, <2>3, ForgetOfIs
  <2>5. /\ new \in CallType /\ ~new.l /\ ~new.l2 /\ new.mx = {} /\ new.kref = {}
        /\ new.op = "forget" /\ new.n = n /\ new.k = 1 /\ new.ino = NoNode
    BY <2>2, <2>4 DEF ForgetOf
  <2>6. FreePath(t, new)
    BY <1>7, <2>1
  <2>7. Freed(t, new)
    BY <1>5, <2>4, <2>5, <2>6, FreePathOk
  <2>8. PICK c1 : c1 = [call EXCEPT ![t] = new]
    OBVIOUS
  <2>9. ASSUME NEW i \in Ids
        PROVE  Balanced(nd, nd, call, c1, t, knows, kopen, knows', kopen, i)
    <3>1. c1[t] = new /\ knows' = knows
      BY <1>3, <1>7, <2>8
    <3>2. Opened(new, i) = 0 /\ In(i, {new.ino}) = 0
      BY <2>4, <2>5, IdsPlaces DEF Opened, In
    <3>3. Forgets(new, i) = In(i, {call[t].ino})
      BY <1>1, <2>5 DEF Forgets, In
    <3>4. PICK a \in Nat, x \in Nat, j \in Nat :
            a = nd[i].nlookup /\ x = knows[i] /\ j = In(i, {call[t].ino})
      BY <1>3 DEF NodeType, Nodes, In
    <3>5. a + x + j + 0 = a + x + 0 + j
      OBVIOUS
    <3> QED BY <3>1, <3>2, <3>3, <3>4, <3>5, <1>5 DEF Balanced
  <2>10. knows' \in [Ids -> Nat] /\ \A i \in Ids : knows'[i] >= knows[i]
    BY <1>3, <1>7
  <2> QED BY <1>2, <1>5, <2>4, <2>5, <2>7, <2>8, <2>9, <2>10, FreedInv
<1> QED BY <1>2, <1>6, <1>7

---------------------------------------------------------------------------
(* Requests the kernel sends *)

\* The kernel's open files after it has sent the request.
Closing(r, i) == IF r.op = "release" /\ i = r.n THEN 1 ELSE 0

LEMMA StartedInv ==
  ASSUME Inv, NEW t \in Threads, call[t] = NoCall, NEW r, Fresh(r), NEW q, Started(t, r, q),
         \A u \in Threads : call[u].mx \cap r.mx = {},
         kopen' \in [Ids -> Nat], \A i \in Ids : kopen[i] = kopen'[i] + Closing(r, i),
         UNCHANGED <<nd, host, left, knows>>
  PROVE  Inv'
<1>1. /\ call \in [Threads -> CallType] /\ KernelInv(call, knows, kopen) /\ host \in HostType
      /\ left \subseteq HiddenNames /\ knows \in [Ids -> Nat] /\ kopen \in [Ids -> Nat]
      /\ lockq \in Seq(Threads) /\ QueueInv(lockq, call) /\ TreeInv(nd) /\ Targets(nd, call)
      /\ nd \in [Nodes -> NodeType] /\ Counts(nd, call, knows, kopen) /\ Calls(nd, call)
  BY TypeSplit DEF Inv
<1>2. /\ q \in CallType /\ Shape(q) /\ Locks(nd, q)
      /\ treelock' \in [Ids -> Int] /\ LockOk(nd, treelock', call')
  BY DEF Started
<1>3. PICK c2 : c2 = [call EXCEPT ![t] = q]
  OBVIOUS
<1>4. /\ c2 \in [Threads -> CallType] /\ c2[t] = q /\ \A u \in Threads \ {t} : c2[u] = call[u]
      /\ call' = c2
  BY <1>1, <1>2, <1>3 DEF Started
<1>5. nd' = nd /\ host' = host /\ left' = left /\ knows' = knows
  OBVIOUS
\* What the request has, or none of it.
<1>6. \/ q = NoCall /\ r.op # "release" /\ lockq' = lockq
      \/ /\ q.op = r.op /\ q.n = r.n /\ q.m = r.m /\ q.n2 = r.n2 /\ q.m2 = r.m2
         /\ q.ino = NoNode /\ q.mx = r.mx /\ q.kref = r.kref
         /\ \/ q.at = FirstStep(r.op) /\ lockq' = lockq
            \/ q.at = "wait" /\ lockq' = Append(lockq, t)
  <2>1. r \in CallType /\ r.ino = NoNode
    BY DEF Fresh
  <2>2. FirstStep(r.op) \in StepNames /\ "wait" \in StepNames
    BY DEF FirstStep, StepNames
  <2>3. PICK x, y : x = [r EXCEPT !.at = FirstStep(r.op)] /\ y = [r EXCEPT !.at = "wait"]
    OBVIOUS
  <2>4. /\ x.op = r.op /\ x.n = r.n /\ x.m = r.m /\ x.n2 = r.n2 /\ x.m2 = r.m2 /\ x.ino = NoNode
        /\ x.mx = r.mx /\ x.kref = r.kref /\ x.at = FirstStep(r.op)
    BY <2>1, <2>2, <2>3, AtIs
  <2>5. /\ y.op = r.op /\ y.n = r.n /\ y.m = r.m /\ y.n2 = r.n2 /\ y.m2 = r.m2 /\ y.ino = NoNode
        /\ y.mx = r.mx /\ y.kref = r.kref /\ y.at = "wait"
    BY <2>1, <2>2, <2>3, AtIs
  <2>6. \/ q = NoCall /\ r.op # "release" /\ lockq' = lockq
        \/ Same(q, x) /\ lockq' = lockq
        \/ Same(q, y) /\ lockq' = Append(lockq, t)
    BY <2>3 DEF Started
  <2> QED BY <2>4, <2>5, <2>6 DEF Same
<1>7. FirstStep(r.op) \in {"stat", "rel", "fs"} /\ (FirstStep(r.op) = "rel" <=> r.op = "release")
  BY DEF FirstStep
<1>8. lockq' \in Seq(Threads) /\ QueueInv(lockq', c2)
  <2>1. ~Waits(call[t])
    BY NoCallIs
  <2>2. CASE Waits(q)
    <3>1. lockq' = Append(lockq, t)
      BY <1>6, <1>7, <2>2, NoCallIs DEF Waits
    <3> QED BY <1>1, <1>3, <2>1, <2>2, <3>1, QueueJoins
  <2>3. CASE ~Waits(q)
    <3>1. lockq' = lockq
      BY <1>6, <1>7, <2>3 DEF Waits
    <3> QED BY <1>1, <1>3, <2>1, <2>3, <3>1, QueueSame
  <2> QED BY <2>2, <2>3
<1>9. ASSUME NEW n \in Ids, kopen'[n] > 0 PROVE knows[n] > 0
  <2>1. kopen'[n] \in Nat /\ kopen[n] = kopen'[n] + Closing(r, n) /\ Closing(r, n) \in Nat
    BY DEF Closing
  <2>2. kopen[n] > 0
    BY <1>9, <2>1
  <2> QED BY <2>2, <1>1 DEF KernelInv
<1>10. KernelInv(c2, knows, kopen')
  <2>1. q.mx \in {{}, r.mx} /\ q.kref \in {{}, r.kref}
    BY <1>6, NoCallIs
  <2>2. ASSUME NEW u \in Threads, NEW v \in Threads, u # v PROVE c2[u].mx \cap c2[v].mx = {}
    <3>1. CASE u # t /\ v # t
      BY <2>2, <3>1, <1>1, <1>4 DEF KernelInv
    <3>2. CASE u = t \/ v = t
      BY <2>1, <2>2, <3>2, <1>4
    <3> QED BY <3>1, <3>2
  <2>3. ASSUME NEW u \in Threads, NEW n \in c2[u].kref \cap Ids PROVE knows[n] > 0
    <3>1. CASE u = t
      BY <2>1, <3>1, <1>4 DEF Fresh
    <3>2. CASE u # t
      BY <3>2, <1>1, <1>4 DEF KernelInv
    <3> QED BY <3>1, <3>2
  <2> QED BY <2>2, <2>3, <1>9 DEF KernelInv
<1>11. ASSUME NEW n \in Ids
       PROVE  Balanced(nd, nd, call, c2, t, knows, kopen, knows, kopen', n)
  <2>1. /\ Forgets(call[t], n) = 0 /\ Opened(call[t], n) = 0 /\ In(n, {call[t].ino}) = 0
    BY NoForgets
  <2>2. Forgets(q, n) = 0
    <3>1. q.op # "forget"
      BY <1>6, NoCallIs DEF Fresh
    <3> QED BY <3>1 DEF Forgets
  <2>3. In(n, {q.ino}) = 0
    BY <1>6, NoCallIs, IdsPlaces DEF In
  <2>4. Opened(q, n) = Closing(r, n)
    <3>1. CASE q = NoCall
      BY <3>1, <1>6, NoCallIs DEF Opened, Closing, OpenAt
    <3>2. CASE q # NoCall
      <4>1. OpenAt(q) <=> r.op = "release"
        BY <3>2, <1>6, <1>7 DEF OpenAt
      <4> QED BY <3>2, <4>1, <1>6 DEF Opened, Closing
    <3> QED BY <3>1, <3>2
  <2>5. PICK a \in Nat, k \in Nat, o \in Nat, k2 \in Nat, c \in Nat :
          a = nd[n].nlookup /\ k = knows[n] /\ o = nd[n].open_count /\ k2 = kopen'[n]
          /\ c = Closing(r, n)
    BY <1>1 DEF NodeType, Nodes, Closing
  <2>6. a + k + 0 + 0 = a + k + 0 + 0 /\ o + (k2 + c) + 0 = o + k2 + c
    OBVIOUS
  <2>7. kopen[n] = k2 + c
    BY <2>5
  <2> QED BY <2>1, <2>2, <2>3, <2>4, <2>5, <2>6, <2>7, <1>4 DEF Balanced
<1>12. Counts(nd, c2, knows, kopen')
  BY <1>1, <1>4, <1>11, CountsStep
<1>13. Targets(nd, c2)
  <2> SUFFICES ASSUME NEW u \in Threads, Wr(c2[u]), c2[u].at = "wait", NEW c \in Ids,
                      Target(nd, c2[u], c)
               PROVE  c \in c2[u].kref
    BY DEF Targets
  <2>1. CASE u # t
    BY <2>1, <1>1, <1>4 DEF Targets
  <2>2. CASE u = t
    <3>1. q # NoCall
      BY <2>2, <1>4, NoCallIs
    <3>2. q.op = r.op /\ q.n = r.n /\ q.m = r.m /\ q.n2 = r.n2 /\ q.m2 = r.m2 /\ q.kref = r.kref
      BY <3>1, <1>6
    <3>3. Wr(r) /\ Target(nd, r, c)
      BY <2>2, <3>2, <1>4 DEF Wr, Two, Target
    <3> QED BY <2>2, <3>2, <3>3, <1>4 DEF Fresh
  <2> QED BY <2>1, <2>2
<1>14. Calls(nd, c2)
  <2> SUFFICES ASSUME NEW u \in Threads PROVE Shape(c2[u]) /\ Locks(nd, c2[u])
    BY DEF Calls
  <2> QED BY <1>1, <1>2, <1>4 DEF Calls
<1>15. TypeOK'
  BY <1>1, <1>2, <1>4, <1>5, <1>8, TypeSplitNext
<1> QED BY <1>1, <1>2, <1>4, <1>5, <1>8, <1>10, <1>12, <1>13, <1>14, <1>15 DEF Inv

\* The request as the kernel sends it.
Sent(r, op, n, m, n2, m2, mx, kref) ==
  /\ r \in CallType /\ r.at = "idle" /\ ~r.l /\ ~r.l2 /\ r.w = NoNode /\ r.w2 = NoNode
  /\ ~r.done /\ ~r.err /\ r.ino = NoNode
  /\ r.op = op /\ r.n = n /\ r.m = m /\ r.n2 = n2 /\ r.m2 = m2 /\ r.mx = mx /\ r.kref = kref

LEMMA ReqIs ==
  ASSUME NEW op \in OpNames, NEW n \in Nodes, NEW m \in Names \cup {NoName},
         NEW mx \in SUBSET Nodes, NEW kref \in SUBSET Nodes, NEW r, r = Req(op, n, m, mx, kref)
  PROVE  Sent(r, op, n, m, NoNode, NoName, mx, kref)
<1>1. NoCall.n2 = NoNode /\ NoCall.m2 = NoName /\ ~NoCall.err
  BY DEF NoCall
<1>2. r \in CallType
  BY NoCallIs DEF Req, CallType
<1> QED BY <1>1, <1>2, NoCallIs DEF Req, CallType, Sent

LEMMA FlagIs ==
  ASSUME NEW op, NEW n, NEW m, NEW mx, NEW kref, NEW r,
         Sent(r, op, n, m, NoNode, NoName, mx, kref), NEW fl \in Flags,
         NEW q, q = [r EXCEPT !.fl = fl]
  PROVE  Sent(q, op, n, m, NoNode, NoName, mx, kref)
<1>1. r \in CallType
  BY DEF Sent
<1>2. q \in CallType
  BY <1>1 DEF CallType
<1> QED BY <1>1, <1>2 DEF CallType, Sent

LEMMA SecondIs ==
  ASSUME NEW op, NEW n, NEW m, NEW mx, NEW kref, NEW r,
         Sent(r, op, n, m, NoNode, NoName, mx, kref), NEW n2 \in Nodes, NEW m2 \in Names,
         NEW q, q = [r EXCEPT !.n2 = n2, !.m2 = m2]
  PROVE  Sent(q, op, n, m, n2, m2, mx, kref)
<1>1. r \in CallType
  BY DEF Sent
<1>2. q \in CallType
  BY <1>1 DEF CallType
<1> QED BY <1>1, <1>2 DEF CallType, Sent

\* A request to rename, with its flag.
SentRename(q, n, m, n2, m2, fl, mx, kref) ==
  Sent(q, "rename", n, m, n2, m2, mx, kref) /\ q.fl = fl

LEMMA RenameIs ==
  ASSUME NEW n, NEW m, NEW mx, NEW kref, NEW r,
         Sent(r, "rename", n, m, NoNode, NoName, mx, kref), NEW n2 \in Nodes, NEW m2 \in Names,
         NEW fl \in Flags, NEW q, q = [r EXCEPT !.n2 = n2, !.m2 = m2, !.fl = fl]
  PROVE  SentRename(q, n, m, n2, m2, fl, mx, kref)
<1>1. r \in CallType
  BY DEF Sent
<1>2. q \in CallType
  BY <1>1 DEF CallType
<1> QED BY <1>1, <1>2 DEF CallType, Sent, SentRename

---------------------------------------------------------------------------
(* The host's tree and the table: what the handlers rely on *)

FileAt(hs, f, m) == hs[f, m]

Child(d, p, m, c) == d[c].parent = p /\ d[c].name = m

\* The request is about to change the place of the name m in p in the table too.
Placing(r, p, m) ==
  \/ r.at = "table" /\ p = r.n /\ m = r.m
  \/ r.at = "table" /\ Two(r) /\ p = r.n2 /\ m = r.m2
  \/ r.at = "hidenode" /\ p = Victim(r).dir /\ m = Victim(r).name

\* A directory that no entry leads to.
Off(hs, f) == f \in Dirs => \A g \in Dirs, m \in AllNames : FileAt(hs, g, m) # f

\* A directory has one entry at most, the root none.
DirsOnce(hs) ==
  /\ Off(hs, RootFile)
  /\ \A g, k \in Dirs, m, l \in AllNames :
       FileAt(hs, g, m) \in Dirs /\ FileAt(hs, g, m) = FileAt(hs, k, l) => g = k /\ m = l

\* The files the kernel means by the nodes.
FilesInv(d) ==
  /\ d[Root].file = RootFile
  /\ \A n \in Ids : d[n].name # NoName => d[n].file \in Files
  /\ \A n \in Ids : d[n].parent # NoNode => d[d[n].parent].file \in Dirs
  /\ \A n \in Ids : d[n].open_count > 0 \/ d[n].name \in HiddenNames => d[n].file \notin Dirs
  /\ \A a, b \in Nodes : d[a].file \in Dirs /\ d[a].file = d[b].file => a = b

\* A node with a name is where the host has its file, unless a request is about to change
\* that, or it is hidden and removed.
InPlace(d, hs, cl, c) ==
  \/ \E t \in Threads : Placing(cl[t], d[c].parent, d[c].name)
  \/ FileAt(hs, d[d[c].parent].file, d[c].name) = d[c].file
  \/ d[c].name \in HiddenNames /\ FileAt(hs, d[d[c].parent].file, d[c].name) = NoFile

Placed(d, hs, cl) == \A c \in Ids : d[c].name # NoName => InPlace(d, hs, cl, c)

\* A directory whose node has lost its name is gone.
Unplaced(d, hs) == \A n \in Ids : d[n].name = NoName => Off(hs, d[n].file)

\* What a request relies on.
Wants(d, hs, r) ==
  /\ r.op \in InDir => d[r.n].file \in Dirs
  /\ Two(r) => d[r.n2].file \in Dirs
  /\ r.op = "open" /\ r.n \in r.kref => d[r.n].file \notin Dirs
  /\ r.at = "find" => r.f # NoFile /\ FileAt(hs, d[FoundDir(r)].file, FoundName(r)) = r.f
  /\ r.op = "rename" => r.n # r.n2 \/ r.m # r.m2
  /\ r.op = "rename" /\ r.at # "free" => \E c \in Ids : Child(d, r.n, r.m, c)
  /\ r.op \in {"unlink", "rmdir"} /\ r.at = "table" =>
       \A c \in Ids : Child(d, r.n, r.m, c) => Off(hs, d[c].file)
  /\ r.op = "rename" /\ r.at = "table" =>
       \A c \in Ids :
         /\ Child(d, r.n, r.m, c) => FileAt(hs, d[r.n2].file, r.m2) = d[c].file
         /\ Child(d, r.n2, r.m2, c) =>
              IF r.fl = "exchange" THEN FileAt(hs, d[r.n].file, r.m) = d[c].file
              ELSE Off(hs, d[c].file)
  /\ r.at \in {"hidefs", "hidenode"} =>
       \E c \in Ids : /\ Child(d, Victim(r).dir, Victim(r).name, c) /\ d[c].file \notin Dirs
                      /\ r.at = "hidenode" => FileAt(hs, d[Victim(r).dir].file, r.hid) = d[c].file

HostInv ==
  /\ DirsOnce(host) /\ FilesInv(nd) /\ Placed(nd, host, call) /\ Unplaced(nd, host)
  /\ \A t \in Threads : Wants(nd, host, call[t])

LEMMA HostIs ==
  ASSUME Inv
  PROVE  /\ \A f \in Dirs, m \in AllNames :
              FileAt(host, f, m) \in Files \cup {NoFile} /\ Down(f, m) = FileAt(host, f, m)
         /\ TreeInv(nd) /\ host \in HostType /\ NoFile \notin Files /\ Dirs \subseteq Files
         /\ RootFile \in Dirs
BY FilesAssumption DEF Inv, TypeOK, HostType, FileAt, Down

LEMMA NamesAre ==
  /\ NoName \notin AllNames /\ Names \subseteq AllNames /\ HiddenNames \subseteq AllNames
  /\ \A m \in Names : m \notin HiddenNames
BY NamesAssumption DEF AllNames

\* A node with a name has a file, in the directory of its parent.
LEMMA NamedFile ==
  ASSUME Inv, HostInv, NEW c \in Ids, nd[c].name # NoName
  PROVE  /\ nd[c].file \in Files /\ nd[c].file # NoFile /\ nd[c].name \in AllNames
         /\ nd[c].parent \in Nodes /\ nd[nd[c].parent].file \in Dirs
<1>1. TreeInv(nd) /\ FilesInv(nd) /\ NoFile \notin Files
  BY HostIs DEF HostInv
<1>2. nd[c].parent \in Nodes \cup {NoNode} /\ nd[c].name \in AllNames \cup {NoName}
  BY <1>1, IdsPlaces, NodeIs
<1>3. nd[c].parent # NoNode
  BY <1>1 DEF TreeInv
<1> QED BY <1>1, <1>2, <1>3 DEF FilesInv

\* The place a request is about to change, it has locked for writing.
LEMMA PlacingIs ==
  ASSUME Inv, NEW v \in Threads, NEW c \in Ids, Placing(call[v], nd[c].parent, nd[c].name)
  PROVE  /\ v \in W1(call, c) \cup W2(call, c) /\ nd[c].parent \in call[v].mx
         /\ nd[c].name \in Names
<1> DEFINE r == call[v]
<1>1. r.at \in {"table", "hidenode"}
  BY DEF Placing
<1>2. Asked(r) /\ Phase(r) /\ Locks(nd, r)
  BY <1>1, AtStep
<1>3. /\ r.op \in {"unlink", "rename"} \/ (r.op = "rmdir" /\ r.at = "table")
      /\ r.l /\ (r.op = "rename" => r.l2)
  BY <1>1, <1>2 DEF Asked, Phase, Steps, Ready, Two
<1>4. /\ OnlyChild(nd, r.n, r.m, r.w) /\ r.n \in r.mx /\ r.m \in Names
      /\ r.op = "rename" => OnlyChild(nd, r.n2, r.m2, r.w2) /\ r.n2 \in r.mx /\ r.m2 \in Names
  BY <1>1, <1>2, <1>3 DEF Locks, Wr, Asked, InDir, Two
<1>5. \/ nd[c].parent = r.n /\ nd[c].name = r.m
      \/ r.op = "rename" /\ nd[c].parent = r.n2 /\ nd[c].name = r.m2
  BY <1>3 DEF Placing, Victim, Two
<1>6. CASE nd[c].parent = r.n /\ nd[c].name = r.m
  BY <1>6, <1>3, <1>4 DEF OnlyChild, W1
<1>7. CASE r.op = "rename" /\ nd[c].parent = r.n2 /\ nd[c].name = r.m2
  BY <1>7, <1>3, <1>4 DEF OnlyChild, W2
<1> QED BY <1>5, <1>6, <1>7

\* A path a request has locked for reading.
Reads(t, n) == t \in Threads /\ ((call[t].l /\ n = call[t].n) \/ (call[t].l2 /\ n = call[t].n2))

LEMMA ReadsIs ==
  ASSUME Inv, NEW t, NEW n, Reads(t, n)
  PROVE  /\ n \in Nodes /\ Alive(nd, n) /\ Named(nd, n)
         /\ \A u \in Chain(nd, n) : R1(nd, call, u) \cup R2(nd, call, u) # {}
<1>1. t \in Threads /\ (call[t].l \/ call[t].l2)
  BY DEF Reads
<1>2. call[t].at # "idle"
  BY <1>1, IdleIs, NoCallIs DEF Idle
<1>3. Asked(call[t]) /\ Locks(nd, call[t])
  BY <1>1, <1>2, AtStep
<1>4. n \in Nodes /\ Alive(nd, n) /\ Named(nd, n)
  BY <1>1, <1>3 DEF Reads, Asked, Locks
<1> QED BY <1>1, <1>4 DEF Reads, R1, R2

\* Nobody changes a place on a path that is locked.
LEMMA ReadPlaced ==
  ASSUME Inv, HostInv, NEW t, NEW n, Reads(t, n), NEW u \in Chain(nd, n)
  PROVE  /\ u \in Ids /\ nd[u].name # NoName
         /\ \/ FileAt(host, nd[nd[u].parent].file, nd[u].name) = nd[u].file
            \/ /\ nd[u].name \in HiddenNames
               /\ FileAt(host, nd[nd[u].parent].file, nd[u].name) = NoFile
<1>1. n \in Nodes /\ Named(nd, n) /\ R1(nd, call, u) \cup R2(nd, call, u) # {}
  BY ReadsIs
<1>2. u \in Ids /\ nd[u].name # NoName
  BY <1>1, HostIs, InvTree, ChainIds, IdsPlaces DEF Named, AllNamed
<1>3. ASSUME NEW v \in Threads PROVE ~Placing(call[v], nd[u].parent, nd[u].name)
  BY <1>1, <1>2, PlacingIs, WrittenBy
<1>4. InPlace(nd, host, call, u)
  BY <1>2 DEF HostInv, Placed
<1> QED BY <1>2, <1>3, <1>4 DEF InPlace

Leads(u) ==
  \/ Resolve(PathOf(nd, u)) = nd[u].file
  \/ nd[u].name \in HiddenNames /\ Resolve(PathOf(nd, u)) = NoFile

\* Such a path leads to the file of its node: the one of a node whose parent's does.
LEMMA LeadsStep ==
  ASSUME Inv, HostInv, NEW t, NEW n, Reads(t, n), NEW u \in Chain(nd, n), NEW p,
         p = nd[u].parent, p = Root \/ (p \in Chain(nd, n) /\ Leads(p))
  PROVE  Leads(u)
<1>1. /\ u \in Ids /\ nd[u].name # NoName
      /\ \/ FileAt(host, nd[p].file, nd[u].name) = nd[u].file
         \/ nd[u].name \in HiddenNames /\ FileAt(host, nd[p].file, nd[u].name) = NoFile
  BY ReadPlaced
<1>2. /\ nd[u].name \in AllNames /\ p \in Nodes /\ nd[p].file \in Dirs
  BY <1>1, NamedFile
<1>3. Tree(nd) /\ n \in Nodes /\ Named(nd, n)
  BY HostIs, InvTree, ReadsIs
<1>4. Resolve(PathOf(nd, p)) = nd[p].file
  <2>1. CASE p = Root
    <3>1. PathOf(nd, p) = <<>>
      BY <2>1, <1>3, PathIs
    <3> QED BY <2>1, <3>1, ResolveIs DEF HostInv, FilesInv
  <2>2. CASE p # Root
    <3>1. p \in Ids /\ Leads(p)
      BY <2>2, <1>2 DEF Nodes
    <3>2. nd[p].name \notin HiddenNames
      BY <3>1, <1>2 DEF HostInv, FilesInv
    <3> QED BY <3>1, <3>2 DEF Leads
  <2> QED BY <2>1, <2>2
<1>5. PathOf(nd, p) \in Seq(AllNames)
  <2>1. Chain(nd, p) \subseteq Chain(nd, n)
    <3>1. CASE p = Root
      BY <3>1, <1>3, ChainIs DEF Tree
    <3>2. CASE p \in Chain(nd, n)
      BY <3>2, <1>3, ChainTrans, IdsPlaces
    <3> QED BY <3>1, <3>2
  <2>2. \A v \in Chain(nd, p) : nd[v].name \in AllNames
    <3>1. Chain(nd, n) \subseteq Ids
      BY <1>3, ChainIds, IdsPlaces
    <3> QED BY <2>1, <3>1, <1>3, NamedFile DEF Named, AllNamed
  <2> QED BY <1>2, <1>3, <2>2, PathType, IdsPlaces
<1>6. PathOf(nd, u) = Append(PathOf(nd, p), nd[u].name)
  BY <1>1, <1>3, PathIs
<1>7. Resolve(PathOf(nd, u)) = Down(nd[p].file, nd[u].name)
  BY <1>2, <1>4, <1>5, <1>6, ResolveIs
<1>8. Down(nd[p].file, nd[u].name) = FileAt(host, nd[p].file, nd[u].name)
  BY <1>2, HostIs
<1> QED BY <1>1, <1>7, <1>8 DEF Leads

LEMMA ReadsLead ==
  ASSUME Inv, HostInv, NEW t, NEW n, Reads(t, n), NEW u \in Chain(nd, n)
  PROVE  Leads(u)
<1> DEFINE S == {v \in Chain(nd, n) : ~Leads(v)}
<1>1. Tree(nd) /\ n \in Nodes /\ Named(nd, n) /\ Chain(nd, n) \subseteq Ids
  BY HostIs, InvTree, ReadsIs, ChainIds, IdsPlaces
<1>2. ASSUME S # {} PROVE FALSE
  <2>1. PICK v \in S : nd[v].parent \notin S
    BY <1>1, <1>2 DEF Tree, WellFounded
  <2>2. v \in Chain(nd, n) /\ ~Leads(v) /\ v \in Ids
    BY <2>1, <1>1
  <2>3. nd[v].parent \in Nodes
    BY <2>2, <1>1, NamedFile DEF Named, AllNamed
  <2>4. nd[v].parent = Root \/ nd[v].parent \in Chain(nd, n)
    BY <2>2, <2>3, <1>1, ChainTrans, ChainUp, IdsPlaces DEF Nodes
  <2>5. nd[v].parent = Root \/ (nd[v].parent \in Chain(nd, n) /\ Leads(nd[v].parent))
    BY <2>1, <2>4
  <2> QED BY <2>2, <2>5, LeadsStep
<1> QED BY <1>2

LEMMA ReadsLeadsTo ==
  ASSUME Inv, HostInv, NEW t, NEW n, Reads(t, n)
  PROVE  LeadsTo(n) /\ (nd[n].file \in Dirs => Resolve(PathOf(nd, n)) = nd[n].file)
<1>1. Tree(nd) /\ n \in Nodes
  BY HostIs, InvTree, ReadsIs
<1>2. CASE n = Root
  BY <1>1, <1>2, PathIs, ResolveIs DEF LeadsTo, HostInv, FilesInv
<1>3. CASE n \in Ids
  <2>1. Leads(n)
    BY <1>1, <1>3, ChainUp, ReadsLead
  <2> QED BY <2>1, <1>3 DEF Leads, LeadsTo, HostInv, FilesInv
<1> QED BY <1>1, <1>2, <1>3 DEF Nodes

\* The path of a request is the one of its node, and leads to its file.
LEMMA RightFileIs == Inv /\ HostInv => RightFile
<1> SUFFICES ASSUME Inv, HostInv, NEW t \in Threads
             PROVE  /\ call[t].l => /\ call[t].p = PathFor(nd, call[t].n, call[t].m)
                                    /\ LeadsTo(call[t].n)
                    /\ call[t].l2 => /\ call[t].p2 = PathFor(nd, call[t].n2, call[t].m2)
                                     /\ LeadsTo(call[t].n2)
  BY DEF RightFile
<1>1. Locks(nd, call[t])
  BY DEF Inv, Calls
<1>2. call[t].l => Reads(t, call[t].n)
  BY DEF Reads
<1>3. call[t].l2 => Reads(t, call[t].n2)
  BY DEF Reads
<1> QED BY <1>1, <1>2, <1>3, ReadsLeadsTo DEF Locks

---------------------------------------------------------------------------
(* The entries the handlers work on *)

LEMMA FrontLast ==
  ASSUME NEW S, NEW p \in Seq(S), NEW m \in S
  PROVE  Front(Append(p, m)) = p /\ Last(Append(p, m)) = m
<1>1. /\ Append(p, m) \in Seq(S) /\ Len(Append(p, m)) = Len(p) + 1 /\ Len(p) \in Nat
      /\ Append(p, m)[Len(p) + 1] = m /\ \A i \in 1 .. Len(p) : Append(p, m)[i] = p[i]
  OBVIOUS
<1>2. Last(Append(p, m)) = m
  BY <1>1 DEF Last
<1>3. Front(Append(p, m)) = SubSeq(Append(p, m), 1, Len(p))
  BY <1>1 DEF Front
<1>4. SubSeq(Append(p, m), 1, Len(p)) = [i \in 1 .. Len(p) |-> p[i]]
  BY <1>1 DEF SubSeq
<1>5. p = [i \in 1 .. Len(p) |-> p[i]]
  OBVIOUS
<1> QED BY <1>2, <1>3, <1>4, <1>5

\* The path leads to the entry of name m in the directory f.
EntryAt(p, f, m) ==
  /\ f \in Dirs /\ m \in AllNames /\ Entry(p) = <<f, m>> /\ EntryThere(p) /\ Last(p) = m
  /\ Resolve(p) = FileAt(host, f, m) /\ p \in Seq(AllNames)

LEMMA EntryIs ==
  ASSUME Inv, NEW p \in Seq(AllNames), NEW f \in Dirs, Resolve(p) = f, NEW m \in AllNames
  PROVE  EntryAt(Append(p, m), f, m)
<1>1. Resolve(Append(p, m)) = FileAt(host, f, m)
  BY ResolveIs, HostIs
<1>2. Front(Append(p, m)) = p /\ Last(Append(p, m)) = m
  BY FrontLast
<1>3. Append(p, m) \in Seq(AllNames)
  OBVIOUS
<1> QED BY <1>1, <1>2, <1>3 DEF EntryAt, Entry, EntryThere

LEMMA ReadsPath ==
  ASSUME Inv, HostInv, NEW t, NEW n, Reads(t, n), NEW u \in Chain(nd, n) \cup {n}
  PROVE  PathOf(nd, u) \in Seq(AllNames)
<1>1. Tree(nd) /\ n \in Nodes /\ Named(nd, n) /\ Chain(nd, n) \subseteq Ids
  BY HostIs, InvTree, ReadsIs, ChainIds, IdsPlaces
<1>2. \A v \in Chain(nd, n) : nd[v].name \in AllNames
  BY <1>1, NamedFile DEF Named, AllNamed
<1>3. Chain(nd, u) \subseteq Chain(nd, n) /\ u \in Nodes
  BY <1>1, ChainTrans, IdsPlaces
<1> QED BY <1>1, <1>2, <1>3, PathType, IdsPlaces

LEMMA ReadsEntry ==
  ASSUME Inv, HostInv, NEW t, NEW n, Reads(t, n), nd[n].file \in Dirs, NEW m \in AllNames
  PROVE  EntryAt(Append(PathOf(nd, n), m), nd[n].file, m)
<1>1. Resolve(PathOf(nd, n)) = nd[n].file
  BY ReadsLeadsTo
<1>2. PathOf(nd, n) \in Seq(AllNames)
  BY ReadsPath
<1> QED BY <1>1, <1>2, EntryIs

\* The entry of a node whose path is locked.
LEMMA NodeEntry ==
  ASSUME Inv, HostInv, NEW t, NEW n \in Ids, Reads(t, n)
  PROVE  EntryAt(PathOf(nd, n), nd[nd[n].parent].file, nd[n].name)
<1>1. Tree(nd) /\ n \in Chain(nd, n) /\ Named(nd, n)
  BY HostIs, InvTree, ReadsIs, ChainUp
<1>2. /\ nd[n].name # NoName /\ nd[n].name \in AllNames /\ nd[n].parent \in Nodes
      /\ nd[nd[n].parent].file \in Dirs
  BY <1>1, NamedFile DEF Named, AllNamed
<1>3. PICK p : p = nd[n].parent
  OBVIOUS
<1>4. PathOf(nd, n) = Append(PathOf(nd, p), nd[n].name)
  BY <1>1, <1>3, PathIs
<1>5. Resolve(PathOf(nd, p)) = nd[p].file /\ PathOf(nd, p) \in Seq(AllNames)
  <2>1. CASE p = Root
    <3>1. PathOf(nd, p) = <<>>
      BY <2>1, <1>1, PathIs
    <3> QED BY <2>1, <3>1, ResolveIs DEF HostInv, FilesInv
  <2>2. CASE p # Root
    <3>1. p \in Ids /\ p \in Chain(nd, n)
      BY <2>2, <1>1, <1>2, <1>3, ChainUp DEF Nodes
    <3>2. Leads(p) /\ PathOf(nd, p) \in Seq(AllNames)
      BY <3>1, ReadsLead, ReadsPath
    <3>3. nd[p].name \notin HiddenNames
      BY <3>1, <1>2, <1>3 DEF HostInv, FilesInv
    <3> QED BY <3>2, <3>3 DEF Leads
  <2> QED BY <2>1, <2>2
<1> QED BY <1>2, <1>3, <1>4, <1>5, EntryIs

LEMMA FirstEntry ==
  ASSUME Inv, HostInv, NEW t \in Threads, call[t].l, call[t].op \in InDir
  PROVE  /\ EntryAt(call[t].p, nd[call[t].n].file, call[t].m) /\ call[t].m \in Names
         /\ Reads(t, call[t].n) /\ call[t].n \in call[t].mx /\ call[t].n \in Nodes
         /\ nd[call[t].n].file \in Dirs
<1>1. call[t].at # "idle"
  BY IdleIs, NoCallIs DEF Idle
<1>2. Asked(call[t]) /\ Locks(nd, call[t]) /\ Wants(nd, host, call[t])
  BY <1>1, AtStep DEF HostInv
<1>3. /\ call[t].p = PathFor(nd, call[t].n, call[t].m) /\ call[t].m \in Names
      /\ call[t].n \in call[t].mx /\ nd[call[t].n].file \in Dirs
      /\ call[t].m # NoName /\ call[t].m \in AllNames /\ call[t].n \in Nodes
  BY <1>2, NamesAre DEF Locks, Asked, Wants
<1>4. Reads(t, call[t].n)
  BY DEF Reads
<1> QED BY <1>3, <1>4, ReadsEntry DEF PathFor

LEMMA SecondEntry ==
  ASSUME Inv, HostInv, NEW t \in Threads, call[t].l2
  PROVE  /\ EntryAt(call[t].p2, nd[call[t].n2].file, call[t].m2) /\ call[t].m2 \in Names
         /\ Reads(t, call[t].n2) /\ call[t].n2 \in call[t].mx /\ call[t].n2 \in Nodes
         /\ nd[call[t].n2].file \in Dirs /\ Two(call[t])
<1>1. call[t].at # "idle"
  BY IdleIs, NoCallIs DEF Idle
<1>2. Asked(call[t]) /\ Locks(nd, call[t]) /\ Wants(nd, host, call[t])
  BY <1>1, AtStep DEF HostInv
<1>3. /\ call[t].p2 = PathFor(nd, call[t].n2, call[t].m2) /\ call[t].m2 \in Names
      /\ call[t].n2 \in call[t].mx /\ nd[call[t].n2].file \in Dirs
      /\ call[t].m2 # NoName /\ call[t].m2 \in AllNames /\ Two(call[t]) /\ call[t].n2 \in Nodes
  BY <1>2, NamesAre DEF Locks, Asked, Wants
<1>4. Reads(t, call[t].n2)
  BY DEF Reads
<1> QED BY <1>3, <1>4, ReadsEntry DEF PathFor

\* The entry a lookup looks at, and the one that is unlinked or hidden.
LEMMA FoundEntry ==
  ASSUME Inv, HostInv, NEW t \in Threads, call[t].op \in Finding, Ready(call[t])
  PROVE  /\ EntryAt(FoundPath(call[t]), nd[FoundDir(call[t])].file, FoundName(call[t]))
         /\ FoundDir(call[t]) \in call[t].mx /\ FoundDir(call[t]) \in Nodes
         /\ FoundName(call[t]) \in Names /\ nd[FoundDir(call[t])].file \in Dirs
<1>1. CASE call[t].op = "link"
  BY <1>1, SecondEntry DEF Ready, Two, FoundPath, FoundDir, FoundName
<1>2. CASE call[t].op # "link"
  BY <1>2, FirstEntry DEF Ready, Finding, InDir, FoundPath, FoundDir, FoundName
<1> QED BY <1>1, <1>2

LEMMA VictimEntry ==
  ASSUME Inv, HostInv, NEW t \in Threads, call[t].op \in {"unlink", "rename"}, Ready(call[t]),
         NEW v, v = Victim(call[t])
  PROVE  /\ EntryAt(v.path, nd[v.dir].file, v.name)
         /\ v.dir \in call[t].mx /\ v.dir \in Nodes /\ v.name \in Names
         /\ nd[v.dir].file \in Dirs /\ Reads(t, v.dir)
<1>1. CASE call[t].op = "rename"
  <2>1. v.path = call[t].p2 /\ v.dir = call[t].n2 /\ v.name = call[t].m2 /\ call[t].l2
    BY <1>1 DEF Ready, Two, Victim
  <2> QED BY <2>1, SecondEntry
<1>2. CASE call[t].op = "unlink"
  <2>1. v.path = call[t].p /\ v.dir = call[t].n /\ v.name = call[t].m /\ call[t].l
    BY <1>2 DEF Ready, Victim
  <2> QED BY <2>1, <1>2, FirstEntry DEF InDir
<1> QED BY <1>1, <1>2

LEMMA HidEntry ==
  ASSUME Inv, HostInv, NEW t, NEW n, Reads(t, n), nd[n].file \in Dirs, NEW h \in HiddenNames
  PROVE  EntryAt(HidPath(n, h), nd[n].file, h)
BY ReadsEntry, NamesAre DEF HidPath

---------------------------------------------------------------------------
(* What a step leaves to the other requests *)

\* A node that may go: the kernel does not know it and nobody has it locked.
Goes(e, c) ==
  /\ e[c].parent = NoNode /\ e[c].name = NoName /\ knows[c] = 0
  /\ W1(call, c) = {} /\ W2(call, c) = {}

TableKept(t, e) ==
  /\ \A n \in Ids : knows[n] > 0 => e[n].file = nd[n].file
  /\ e[Root].file = nd[Root].file
  /\ \A u \in Threads \ {t}, c \in Ids :
       nd[c].parent \in call[u].mx \/ e[c].parent \in call[u].mx =>
         \/ SamePlace(nd, e, c) /\ e[c].file = nd[c].file
         \/ Goes(e, c)

HostKept(t, hs) ==
  /\ \A u \in Threads \ {t} : \A p \in call[u].mx, m \in AllNames :
       nd[p].file \in Dirs /\ (m \in Names \/ \A c \in Ids : ~Child(nd, p, m, c)) =>
         FileAt(hs, nd[p].file, m) = FileAt(host, nd[p].file, m)
  /\ \A n \in Ids : Off(host, nd[n].file) => Off(hs, nd[n].file)

LEMMA NoCallWants == ASSUME NEW d, NEW hs PROVE Wants(d, hs, NoCall)
BY NoCallIs DEF Wants, InDir, Two

\* The node at a place that a request means to change stays there.
LEMMA TargetStays ==
  ASSUME Inv, NEW t \in Threads, NEW u \in Threads \ {t}, NEW e, TableKept(t, e), Wr(call[u]),
         call[u].at \notin {"idle", "free"}, NEW c \in Ids, NEW p, NEW m, Child(nd, p, m, c),
         \/ p = call[u].n /\ m = call[u].m
         \/ Two(call[u]) /\ p = call[u].n2 /\ m = call[u].m2
  PROVE  Child(e, p, m, c) /\ e[c].file = nd[c].file
<1> DEFINE r == call[u]
<1>1. Asked(r) /\ Phase(r) /\ Locks(nd, r)
  BY AtStep
<1>2. p \in r.mx
  BY <1>1 DEF Asked, InDir, Wr
<1>3. ~Goes(e, c)
  <2>1. CASE r.at = "wait"
    <3>1. c \in r.kref
      BY <2>1 DEF Inv, Targets, Target, Child
    <3>2. knows[c] > 0
      BY <3>1 DEF Inv, KernelInv
    <3> QED BY <3>2 DEF Goes
  <2>2. CASE r.at # "wait"
    <3>1. r.l /\ (Two(r) => r.l2)
      BY <2>2, <1>1 DEF Phase, Ready, Wr
    <3>2. c = r.w \/ (r.l2 /\ c = r.w2)
      BY <3>1, <1>1 DEF Locks, OnlyChild, Child
    <3>3. u \in W1(call, c) \cup W2(call, c)
      BY <3>1, <3>2 DEF W1, W2
    <3> QED BY <3>3 DEF Goes
  <2> QED BY <2>1, <2>2
<1>4. SamePlace(nd, e, c) /\ e[c].file = nd[c].file
  BY <1>2, <1>3 DEF TableKept, Child
<1> QED BY <1>4 DEF Child, SamePlace

LEMMA ChildWas ==
  ASSUME NEW t \in Threads, NEW u \in Threads \ {t}, NEW e, TableKept(t, e), NEW c \in Ids,
         NEW p \in call[u].mx \cap Nodes, NEW m, Child(e, p, m, c)
  PROVE  Child(nd, p, m, c) /\ e[c].file = nd[c].file
<1>1. ~Goes(e, c)
  BY NodesAssumption DEF Goes, Child, Nodes
<1> QED BY <1>1 DEF TableKept, Child, SamePlace

LEMMA OthersWant ==
  ASSUME Inv, HostInv, NEW t \in Threads, NEW e, TableKept(t, e), NEW hs, HostKept(t, hs),
         NEW u \in Threads \ {t}
  PROVE  Wants(e, hs, call[u])
<1> DEFINE r == call[u]
<1>1. CASE r = NoCall
  BY <1>1, NoCallWants
<1>2. CASE r # NoCall
  <2>1. Asked(r) /\ Phase(r) /\ Locks(nd, r) /\ r.at # "idle"
    BY <1>2, IdleIs, AtStep DEF Idle
  <2>2. Wants(nd, host, r)
    BY DEF HostInv
  <2>3. ASSUME NEW p \in r.kref \cap Nodes PROVE e[p].file = nd[p].file
    <3>1. p = Root \/ knows[p] > 0
      BY <2>3 DEF Inv, KernelInv, Nodes
    <3> QED BY <3>1, <2>3 DEF TableKept, Nodes
  <2>4. /\ r.n \in Nodes /\ (r.op \in InDir => r.n \in r.mx /\ r.n \in r.kref /\ r.m \in Names)
        /\ Two(r) => r.n2 \in Nodes /\ r.n2 \in r.mx /\ r.n2 \in r.kref /\ r.m2 \in Names
    BY <2>1 DEF Asked, Phase, InDir
  <2>5. /\ r.op \in InDir => e[r.n].file = nd[r.n].file /\ nd[r.n].file \in Dirs
        /\ Two(r) => e[r.n2].file = nd[r.n2].file /\ nd[r.n2].file \in Dirs
    BY <2>2, <2>3, <2>4 DEF Wants
  <2>6. r.op = "open" /\ r.n \in r.kref => e[r.n].file \notin Dirs
    BY <2>2, <2>3, <2>4 DEF Wants
  <2>7. ASSUME NEW p \in r.mx, nd[p].file \in Dirs, NEW m \in Names
        PROVE  FileAt(hs, nd[p].file, m) = FileAt(host, nd[p].file, m)
    BY <2>7, NamesAre DEF HostKept
  <2>8. r.at = "find" => r.f # NoFile /\ FileAt(hs, e[FoundDir(r)].file, FoundName(r)) = r.f
    <3>1. SUFFICES ASSUME r.at = "find"
                   PROVE  r.f # NoFile /\ FileAt(hs, e[FoundDir(r)].file, FoundName(r)) = r.f
      OBVIOUS
    <3>2. r.op \in Finding
      BY <2>1, <3>1 DEF Asked, Phase, Steps, Finding
    <3>3. /\ FoundDir(r) \in r.mx /\ nd[FoundDir(r)].file \in Dirs /\ FoundName(r) \in Names
          /\ e[FoundDir(r)].file = nd[FoundDir(r)].file
      BY <2>4, <2>5, <3>2 DEF Finding, InDir, Two, FoundDir, FoundName
    <3>4. r.f # NoFile /\ FileAt(host, nd[FoundDir(r)].file, FoundName(r)) = r.f
      BY <2>2, <3>1 DEF Wants
    <3> QED BY <2>7, <3>3, <3>4
  <2>9. r.op = "rename" /\ r.at # "free" => \E c \in Ids : Child(e, r.n, r.m, c)
    <3>1. SUFFICES ASSUME r.op = "rename", r.at # "free"
                   PROVE  \E c \in Ids : Child(e, r.n, r.m, c)
      OBVIOUS
    <3>2. PICK c \in Ids : Child(nd, r.n, r.m, c)
      BY <2>2, <3>1 DEF Wants
    <3>3. Wr(r) /\ r.at \notin {"idle", "free"}
      BY <3>1, <2>1 DEF Wr
    <3> QED BY <3>2, <3>3, TargetStays
  <2>10. r.op \in {"unlink", "rmdir"} /\ r.at = "table" =>
           \A c \in Ids : Child(e, r.n, r.m, c) => Off(hs, e[c].file)
    <3>1. SUFFICES ASSUME r.op \in {"unlink", "rmdir"}, r.at = "table",
                          NEW c \in Ids, Child(e, r.n, r.m, c)
                   PROVE  Off(hs, e[c].file)
      OBVIOUS
    <3>2. Child(nd, r.n, r.m, c) /\ e[c].file = nd[c].file
      BY <2>4, <3>1, ChildWas DEF InDir
    <3>3. Off(host, nd[c].file)
      BY <2>2, <3>1, <3>2 DEF Wants
    <3> QED BY <3>2, <3>3 DEF HostKept
  <2>11. ASSUME r.op = "rename", r.at = "table", NEW c \in Ids
         PROVE  /\ Child(e, r.n, r.m, c) => FileAt(hs, e[r.n2].file, r.m2) = e[c].file
                /\ Child(e, r.n2, r.m2, c) =>
                     IF r.fl = "exchange" THEN FileAt(hs, e[r.n].file, r.m) = e[c].file
                     ELSE Off(hs, e[c].file)
    <3>1. /\ r.n \in r.mx \cap Nodes /\ r.n2 \in r.mx \cap Nodes /\ r.m \in Names /\ r.m2 \in Names
          /\ e[r.n].file = nd[r.n].file /\ nd[r.n].file \in Dirs
          /\ e[r.n2].file = nd[r.n2].file /\ nd[r.n2].file \in Dirs
      BY <2>4, <2>5, <2>11 DEF InDir, Two
    <3>2. /\ FileAt(hs, nd[r.n].file, r.m) = FileAt(host, nd[r.n].file, r.m)
          /\ FileAt(hs, nd[r.n2].file, r.m2) = FileAt(host, nd[r.n2].file, r.m2)
      BY <2>7, <3>1
    <3>3. ASSUME Child(e, r.n, r.m, c) PROVE FileAt(hs, e[r.n2].file, r.m2) = e[c].file
      <4>1. Child(nd, r.n, r.m, c) /\ e[c].file = nd[c].file
        BY <3>1, <3>3, ChildWas
      <4>2. FileAt(host, nd[r.n2].file, r.m2) = nd[c].file
        BY <2>2, <2>11, <4>1 DEF Wants
      <4> QED BY <3>1, <3>2, <4>1, <4>2
    <3>4. ASSUME Child(e, r.n2, r.m2, c)
          PROVE  IF r.fl = "exchange" THEN FileAt(hs, e[r.n].file, r.m) = e[c].file
                 ELSE Off(hs, e[c].file)
      <4>1. Child(nd, r.n2, r.m2, c) /\ e[c].file = nd[c].file
        BY <3>1, <3>4, ChildWas
      <4>2. IF r.fl = "exchange" THEN FileAt(host, nd[r.n].file, r.m) = nd[c].file
            ELSE Off(host, nd[c].file)
        BY <2>2, <2>11, <4>1 DEF Wants
      <4>3. Off(host, nd[c].file) => Off(hs, nd[c].file)
        BY DEF HostKept
      <4> QED BY <3>1, <3>2, <4>1, <4>2, <4>3
    <3> QED BY <3>3, <3>4
  <2>12. ASSUME r.at \in {"hidefs", "hidenode"}
         PROVE \E c \in Ids :
                 /\ Child(e, Victim(r).dir, Victim(r).name, c) /\ e[c].file \notin Dirs
                 /\ r.at = "hidenode" => FileAt(hs, e[Victim(r).dir].file, r.hid) = e[c].file
    <3>1. r.op \in {"unlink", "rename"}
      BY <2>1, <2>12 DEF Asked, Phase, Steps
    <3>2. PICK p, m : p = Victim(r).dir /\ m = Victim(r).name
      OBVIOUS
    <3>3. /\ p \in r.mx \cap Nodes /\ e[p].file = nd[p].file /\ nd[p].file \in Dirs
          /\ \/ p = r.n /\ m = r.m
             \/ Two(r) /\ p = r.n2 /\ m = r.m2
      BY <2>4, <2>5, <3>1, <3>2 DEF Victim, Two, InDir
    <3>4. PICK c \in Ids : /\ Child(nd, p, m, c) /\ nd[c].file \notin Dirs
                           /\ r.at = "hidenode" => FileAt(host, nd[p].file, r.hid) = nd[c].file
      BY <2>2, <2>12, <3>2 DEF Wants
    <3>5. Child(e, p, m, c) /\ e[c].file = nd[c].file
      BY <2>12, <3>1, <3>3, <3>4, TargetStays DEF Wr
    <3>6. r.hid \in HiddenNames /\ \A x \in Ids : ~Child(nd, p, r.hid, x)
      BY <2>1, <2>12, <3>2 DEF Phase, Locks, Child
    <3>7. FileAt(hs, nd[p].file, r.hid) = FileAt(host, nd[p].file, r.hid)
      BY <3>3, <3>6, NamesAre DEF HostKept
    <3> QED BY <3>2, <3>3, <3>4, <3>5, <3>7
  <2>13. r.op = "rename" => r.n # r.n2 \/ r.m # r.m2
    BY <2>2 DEF Wants
  <2> QED BY <2>5, <2>6, <2>8, <2>9, <2>10, <2>11, <2>12, <2>13 DEF Wants
<1> QED BY <1>1, <1>2

---------------------------------------------------------------------------
(* Steps that leave the table and the host alone *)

\* A request goes on with what it asked for.
Carries(q, r, a) ==
  /\ q.op = r.op /\ q.n = r.n /\ q.m = r.m /\ q.n2 = r.n2 /\ q.m2 = r.m2
  /\ q.kref \subseteq r.kref /\ q.at = a

Calm == {"fs", "stat", "rm", "count", "reply", "rel", "hidunlink", "free", "wait"}

LEMMA WantsOn ==
  ASSUME NEW d, NEW hs, NEW r, NEW q, NEW a \in Calm, Wants(d, hs, r), Carries(q, r, a),
         r.at # "free" \/ a = "free"
  PROVE  Wants(d, hs, q)
<1>1. /\ q.op = r.op /\ q.n = r.n /\ q.m = r.m /\ q.n2 = r.n2 /\ q.m2 = r.m2
      /\ q.kref \subseteq r.kref /\ (r.at # "free" \/ q.at = "free")
      /\ q.at \notin {"find", "table", "hidefs", "hidenode"}
  BY DEF Carries, Calm
<1>2. /\ q.op \in InDir => d[q.n].file \in Dirs
      /\ Two(q) => d[q.n2].file \in Dirs
      /\ q.op = "open" /\ q.n \in q.kref => d[q.n].file \notin Dirs
  BY <1>1 DEF Wants, Two
<1>3. /\ q.op = "rename" => q.n # q.n2 \/ q.m # q.m2
      /\ q.op = "rename" /\ q.at # "free" => \E c \in Ids : Child(d, q.n, q.m, c)
  BY <1>1 DEF Wants
<1> QED BY <1>1, <1>2, <1>3 DEF Wants

LEMMA WantsSame ==
  ASSUME NEW d, NEW hs, NEW r, NEW q, Wants(d, hs, r), Same(q, r), q = r \/ Waits(r)
  PROVE  Wants(d, hs, q)
<1>1. CASE q = r
  BY <1>1
<1>2. CASE Waits(r)
  BY <1>2 DEF Waits, Wants, Same, Two
<1> QED BY <1>1, <1>2

\* The requests of the other threads, but for what waking the queue changes.
OthersSame(t) ==
  \A u \in Threads \ {t} :
    Same(call'[u], call[u]) /\ (~Waits(call[u]) => call'[u] = call[u])

LEMMA PlacingSame ==
  ASSUME NEW t \in Threads, OthersSame(t), NEW u \in Threads \ {t}, NEW p, NEW m
  PROVE  Placing(call'[u], p, m) <=> Placing(call[u], p, m)
BY DEF OthersSame, Same, Placing, Two, Victim

LEMMA QuietHost ==
  ASSUME Inv, HostInv, NEW t \in Threads, OthersSame(t), nd' = nd, host' = host,
         call[t].at \notin {"table", "hidenode"}, Wants(nd, host, call'[t])
  PROVE  HostInv'
<1>1. ASSUME NEW u \in Threads PROVE Wants(nd', host', call'[u])
  <2>1. CASE u = t
    BY <2>1
  <2>2. CASE u # t
    <3>1. Wants(nd, host, call[u]) /\ Same(call'[u], call[u])
          /\ (call'[u] = call[u] \/ Waits(call[u]))
      BY <2>2 DEF HostInv, OthersSame
    <3>2. Wants(nd, host, call'[u])
      BY <3>1, WantsSame
    <3> QED BY <3>2
  <2> QED BY <2>1, <2>2
<1>2. Placed(nd', host', call')
  <2> SUFFICES ASSUME NEW c \in Ids, nd[c].name # NoName PROVE InPlace(nd, host, call', c)
    BY DEF Placed
  <2>1. InPlace(nd, host, call, c)
    BY DEF HostInv, Placed
  <2>2. ASSUME NEW u \in Threads, Placing(call[u], nd[c].parent, nd[c].name)
        PROVE  Placing(call'[u], nd[c].parent, nd[c].name)
    <3>1. u # t
      BY <2>2 DEF Placing
    <3> QED BY <2>2, <3>1, PlacingSame
  <2> QED BY <2>1, <2>2 DEF InPlace
<1> QED BY <1>1, <1>2 DEF HostInv

LEMMA OneSame ==
  ASSUME Inv, NEW t \in Threads, NEW q, call' = [call EXCEPT ![t] = q]
  PROVE  OthersSame(t) /\ call'[t] = q
<1>1. call \in [Threads -> CallType]
  BY TypeSplit DEF Inv
<1> QED BY <1>1 DEF OthersSame, Same

LEMMA CalmHost ==
  ASSUME Inv, HostInv, NEW t \in Threads, NEW q, NEW a \in Calm, Carries(q, call[t], a),
         call[t].at \notin {"table", "hidenode"}, call[t].at # "free" \/ a = "free",
         call' = [call EXCEPT ![t] = q], nd' = nd, host' = host
  PROVE  HostInv'
<1>1. Wants(nd, host, call[t])
  BY DEF HostInv
<1>2. Wants(nd, host, q)
  BY <1>1, WantsOn
<1> QED BY <1>2, OneSame, QuietHost

LEMMA CalmGoto ==
  ASSUME Inv, NEW t \in Threads, NEW a \in Calm, Goto(t, a)
  PROVE  \E q : Carries(q, call[t], a) /\ call' = [call EXCEPT ![t] = q]
<1>1. call[t] \in CallType /\ a \in StepNames
  BY TypeSplit DEF Inv, Calm, StepNames
<1>2. PICK q : Went(t, a, call[t].f, call[t].hid, q)
  BY <1>1, GotoIs
<1> QED BY <1>2 DEF Went, Onward, Carries

LEMMA GotoHost ==
  ASSUME Inv, HostInv, NEW t \in Threads, NEW a \in Calm, Goto(t, a),
         call[t].at \notin {"table", "hidenode"}, call[t].at # "free" \/ a = "free",
         nd' = nd, host' = host
  PROVE  HostInv'
BY CalmGoto, CalmHost

LEMMA NoCallHost ==
  ASSUME Inv, HostInv, NEW t \in Threads, call[t].at \notin {"table", "hidenode"},
         call' = [call EXCEPT ![t] = NoCall], nd' = nd, host' = host
  PROVE  HostInv'
<1>1. PICK q : q = NoCall
  OBVIOUS
<1>2. OthersSame(t) /\ call'[t] = q
  BY <1>1, OneSame
<1> QED BY <1>1, <1>2, NoCallWants, QuietHost

LEMMA wait_path_doneHost ==
  ASSUME Inv, HostInv, NEW t \in Threads, wait_path_done(t)
  PROVE  HostInv'
<1>1. PICK r : r = call[t]
  OBVIOUS
<1>2. /\ r.at = "wait" /\ nd' = nd /\ host' = host
      /\ call' = [call EXCEPT ![t] = IF r.err THEN NoPathFor(r)
                                     ELSE [r EXCEPT !.at = FirstStep(r.op), !.done = FALSE]]
  BY <1>1 DEF wait_path_done
<1>3. r \in CallType
  BY <1>1, TypeSplit DEF Inv
<1>4. FirstStep(r.op) \in StepNames \cap Calm /\ "rel" \in StepNames \cap Calm
  BY DEF FirstStep, StepNames, Calm
<1>5. CASE ~r.err
  <2>1. PICK q : q = [r EXCEPT !.at = FirstStep(r.op), !.done = FALSE]
    OBVIOUS
  <2>2. WaitOver(r, FirstStep(r.op), q) /\ call' = [call EXCEPT ![t] = q]
    BY <1>2, <1>3, <1>4, <1>5, <2>1, OverIs
  <2>3. Carries(q, call[t], FirstStep(r.op))
    BY <1>1, <2>2 DEF WaitOver, Carries
  <2> QED BY <1>1, <1>2, <1>4, <2>2, <2>3, CalmHost
<1>6. CASE r.err /\ r.op = "release"
  <2>1. PICK u : u = Unlocked(r)
    OBVIOUS
  <2>2. PICK q : q = [u EXCEPT !.at = "rel", !.done = FALSE, !.err = FALSE]
    OBVIOUS
  <2>3. call' = [call EXCEPT ![t] = q]
    BY <1>2, <1>6, <2>1, <2>2 DEF NoPathFor
  <2>4. u \in CallType /\ Same(u, r)
    BY <1>3, <2>1, UnlockedIs
  <2>5. WaitOver(u, "rel", q)
    BY <1>4, <2>2, <2>4, OverIs
  <2>6. Carries(q, call[t], "rel")
    BY <1>1, <2>4, <2>5 DEF WaitOver, Same, Carries
  <2> QED BY <1>1, <1>2, <1>4, <2>3, <2>6, CalmHost
<1>7. CASE r.err /\ r.op # "release"
  <2>1. call' = [call EXCEPT ![t] = NoCall]
    BY <1>2, <1>7 DEF NoPathFor
  <2> QED BY <1>1, <1>2, <2>1, NoCallHost
<1> QED BY <1>5, <1>6, <1>7

LEMMA lookup_pathHost ==
  ASSUME Inv, HostInv, NEW t \in Threads, lookup_path(t)
  PROVE  HostInv'
<1>1. PICK r : r = call[t]
  OBVIOUS
<1>2. PICK f : f = Resolve(FoundPath(r))
  OBVIOUS
<1>3. PICK q : q = [r EXCEPT !.at = "find", !.f = f]
  OBVIOUS
<1>4. /\ r.op \in Finding /\ r.at = "stat" /\ f # NoFile /\ nd' = nd /\ host' = host
      /\ call' = [call EXCEPT ![t] = q]
  <2>1. call' = [call EXCEPT ![t].at = "find", ![t].f = f]
    BY <1>1, <1>2 DEF lookup_path
  <2>2. call' = [call EXCEPT ![t] = q]
    BY <1>1, <1>3, <2>1
  <2> QED BY <1>1, <1>2, <2>2 DEF lookup_path, At, table
<1>5. r \in CallType /\ Phase(r) /\ Wants(nd, host, r)
  BY <1>1, <1>4, AtStep DEF HostInv
<1>6. Ready(r)
  BY <1>4, <1>5 DEF Phase, Finding
<1>7. FileAt(host, nd[FoundDir(r)].file, FoundName(r)) = f
  BY <1>1, <1>2, <1>4, <1>6, FoundEntry DEF EntryAt
<1>8. /\ q.at = "find" /\ q.f = f /\ q.op = r.op /\ q.n = r.n /\ q.m = r.m /\ q.n2 = r.n2
      /\ q.m2 = r.m2 /\ q.kref = r.kref
  BY <1>3, <1>5 DEF CallType
<1>9. FoundDir(q) = FoundDir(r) /\ FoundName(q) = FoundName(r)
  BY <1>8 DEF FoundDir, FoundName
<1>10. Wants(nd, host, q)
  BY <1>4, <1>5, <1>7, <1>8, <1>9 DEF Wants, Two
<1> QED BY <1>1, <1>4, <1>10, OneSame, QuietHost

LEMMA ForgetWants ==
  ASSUME NEW d, NEW hs, NEW q, q.op = "forget", q.at \in {"forget", "fwait"}
  PROVE  Wants(d, hs, q)
BY DEF Wants, InDir, Two

LEMMA LeavesHost ==
  ASSUME Inv, HostInv, NEW t \in Threads, NEW a \in {"free", "rel"}, call[t].op = "open",
         call[t].at \in {"fs", "reply"},
         call' = [call EXCEPT ![t].at = a, ![t].kref = {}], nd' = nd, host' = host
  PROVE  HostInv'
<1>1. call[t] \in CallType
  BY TypeSplit DEF Inv
<1>2. PICK q : LeavesOpen(call[t], a, q)
  BY DEF LeavesOpen
<1>3. call' = [call EXCEPT ![t] = q]
  BY <1>2 DEF LeavesOpen
<1>4. a \in StepNames /\ a \in Calm
  BY DEF StepNames, Calm
<1>5. Carries(q, call[t], a)
  BY <1>1, <1>2, <1>4, LeavesIs DEF Carries
<1> QED BY <1>3, <1>4, <1>5, CalmHost

LEMMA fs_failsHost == ASSUME Inv, HostInv, NEW t \in Threads, fs_fails(t) PROVE HostInv'
<1>1. /\ \/ call[t].op \in {"mknod", "link", "rmdir", "open"} /\ call[t].at = "fs"
         \/ call[t].op \in Finding /\ call[t].at = "stat"
         \/ call[t].op \in {"unlink", "rename"} /\ call[t].at \in {"hidefs", "rm"}
      /\ call' = [call EXCEPT ![t].at = "free",
                              ![t].kref = IF call[t].op = "open" THEN {} ELSE @]
      /\ nd' = nd /\ host' = host
  BY DEF fs_fails, At, table
<1>2. call[t] \in CallType /\ call[t].at \notin {"table", "hidenode", "free"}
  BY <1>1, AtStep
<1>3. CASE call[t].op = "open"
  <2>1. call' = [call EXCEPT ![t].at = "free", ![t].kref = {}] /\ call[t].at = "fs"
    BY <1>1, <1>3 DEF Finding
  <2> QED BY <1>1, <1>3, <2>1, LeavesHost
<1>4. CASE call[t].op # "open"
  <2>1. [call[t] EXCEPT !.at = "free", !.kref = call[t].kref] = [call[t] EXCEPT !.at = "free"]
    BY <1>2 DEF CallType
  <2>2. Goto(t, "free")
    BY <1>1, <1>4, <2>1 DEF Goto
  <2>3. "free" \in Calm
    BY DEF Calm
  <2> QED BY <1>1, <1>2, <2>2, <2>3, GotoHost
<1> QED BY <1>3, <1>4

LEMMA fuse_reply_openHost ==
  ASSUME Inv, HostInv, NEW t \in Threads, fuse_reply_open(t)
  PROVE  HostInv'
<1>1. /\ call[t].op = "open" /\ call[t].at = "reply" /\ nd' = nd /\ host' = host
      /\ \E a \in {"free", "rel"} : call' = [call EXCEPT ![t].at = a, ![t].kref = {}]
  BY DEF fuse_reply_open, At, table
<1> QED BY <1>1, LeavesHost

LEMMA fs_openHost == ASSUME Inv, HostInv, NEW t \in Threads, fs_open(t) PROVE HostInv'
<1>1. /\ call[t].at = "fs" /\ Goto(t, "count") /\ nd' = nd /\ host' = host
  BY DEF fs_open, At, table
<1>2. "count" \in Calm
  BY DEF Calm
<1> QED BY <1>1, <1>2, GotoHost

\* An open victim is the one that is hidden, and no directory.
LEMMA unlink_or_hideHost ==
  ASSUME Inv, HostInv, NEW t \in Threads, unlink_or_hide(t)
  PROVE  HostInv'
<1> DEFINE v == Victim(call[t])
<1>1. call[t].op \in {"unlink", "rename"} /\ call[t].at = "fs" /\ nd' = nd /\ host' = host
  BY DEF unlink_or_hide, At, table
<1>2. \/ \E a \in {"free", "rm"} : Goto(t, a)
      \/ /\ is_open(v.dir, v.name)
         /\ call' = [call EXCEPT ![t].at = "hidefs", ![t].hid = CHOOSE h \in hidden_name(v.dir) : TRUE]
  BY DEF unlink_or_hide
<1>3. call[t] \in CallType /\ Phase(call[t]) /\ Wants(nd, host, call[t]) /\ TreeInv(nd)
  BY <1>1, AtStep DEF HostInv
<1>4. CASE \E a \in {"free", "rm"} : Goto(t, a)
  <2>1. {"free", "rm"} \subseteq Calm
    BY DEF Calm
  <2> QED BY <1>1, <1>4, <2>1, GotoHost
<1>5. CASE /\ is_open(v.dir, v.name)
           /\ call' = [call EXCEPT ![t].at = "hidefs", ![t].hid = CHOOSE h \in hidden_name(v.dir) : TRUE]
  <2>1. PICK h : call' = [call EXCEPT ![t].at = "hidefs", ![t].hid = h]
    BY <1>5
  <2>2. PICK q : Hiding(call[t], h, q)
    BY DEF Hiding
  <2>3. call' = [call EXCEPT ![t] = q]
    BY <2>1, <2>2 DEF Hiding
  <2>4. /\ q.at = "hidefs" /\ q.op = call[t].op /\ q.n = call[t].n /\ q.m = call[t].m
        /\ q.n2 = call[t].n2 /\ q.m2 = call[t].m2 /\ q.kref = call[t].kref
    BY <1>3, <2>2 DEF CallType, Hiding
  <2>5. Ready(call[t])
    BY <1>1, <1>3 DEF Phase
  <2>6. v.dir \in Nodes
    BY <1>1, <2>5, VictimEntry
  <2>7. PICK c : c = lookup_node(nd, v.dir, v.name)
    OBVIOUS
  <2>8. c # NoNode /\ nd[c].open_count > 0
    BY <1>5, <2>7 DEF is_open
  <2>9. c \in Ids /\ Child(nd, v.dir, v.name, c)
    BY <1>3, <2>6, <2>7, <2>8, LookupIs DEF Child
  <2>10. nd[c].file \notin Dirs
    BY <2>8, <2>9 DEF HostInv, FilesInv
  <2>11. Victim(q).dir = v.dir /\ Victim(q).name = v.name
    BY <2>4 DEF Victim
  <2>12. Wants(nd, host, q)
    <3>1. /\ q.op \in InDir => nd[q.n].file \in Dirs
          /\ Two(q) => nd[q.n2].file \in Dirs
          /\ q.op = "rename" => q.n # q.n2 \/ q.m # q.m2
          /\ q.op = "rename" => \E x \in Ids : Child(nd, q.n, q.m, x)
      BY <1>1, <1>3, <2>4 DEF Wants, Two
    <3> QED BY <1>1, <2>4, <2>9, <2>10, <2>11, <3>1 DEF Wants
  <2>13. OthersSame(t) /\ call'[t] = q
    BY <2>3, OneSame
  <2>14. Wants(nd, host, call'[t]) /\ call[t].at \notin {"table", "hidenode"}
    BY <1>1, <2>12, <2>13
  <2> QED BY <1>1, <2>13, <2>14, QuietHost
<1> QED BY <1>2, <1>4, <1>5

LEMMA FreedHost ==
  ASSUME Inv, HostInv, NEW t \in Threads, NEW new, Freed(t, new), Wants(nd, host, new),
         call[t].at \notin {"table", "hidenode"}, nd' = nd, host' = host
  PROVE  HostInv'
<1>1. call \in [Threads -> CallType]
  BY TypeSplit DEF Inv
<1>2. ASSUME NEW u \in Threads \ {t}
      PROVE  Same(call'[u], call[u]) /\ (~Waits(call[u]) => call'[u] = call[u])
  <2>1. [call EXCEPT ![t] = new][u] = call[u]
    BY <1>1, <1>2
  <2> QED BY <2>1, <1>2 DEF Freed
<1>3. OthersSame(t) /\ call'[t] = new
  BY <1>2 DEF OthersSame, Freed
<1> QED BY <1>3, QuietHost

LEMMA free_and_replyHost ==
  ASSUME Inv, HostInv, NEW t \in Threads, free_and_reply(t)
  PROVE  HostInv'
<1>1. /\ \/ call[t].op = "getattr" /\ call[t].at = "fs"
         \/ call[t].at = "free"
      /\ FreePath(t, NoCall) /\ nd' = nd /\ host' = host
  BY DEF free_and_reply, At, Finding
<1>2. ~Waits(call[t]) /\ (call[t].l2 => call[t].l)
  BY <1>1, AnswersIs
<1>3. PICK new : new = NoCall
  OBVIOUS
<1>4. /\ new \in CallType /\ ~new.l /\ ~new.l2 /\ ~Waits(new) /\ Shape(new) /\ Locks(nd, new)
      /\ FreePath(t, new)
  BY <1>1, <1>3, NoCallIs
<1>5. Freed(t, new)
  BY <1>2, <1>4, FreePathOk
<1> QED BY <1>1, <1>3, <1>5, NoCallWants, FreedHost

LEMMA reply_entryHost == ASSUME Inv, HostInv, NEW t \in Threads, reply_entry(t) PROVE HostInv'
<1>1. PICK n : n = call[t].ino
  OBVIOUS
<1>2. /\ call[t].at = "free" /\ n # NoNode /\ nd' = nd /\ host' = host
      /\ \/ FreePath(t, NoCall)
         \/ FreePath(t, [NoCall EXCEPT !.op = "forget", !.at = "forget", !.n = n, !.k = 1])
  BY <1>1 DEF reply_entry, At
<1>3. call[t] \in CallType
  BY <1>2, AtStep
<1>4. n \in Ids
  BY <1>1, <1>2, <1>3 DEF CallType
<1>5. ~Waits(call[t]) /\ (call[t].l2 => call[t].l)
  BY <1>2, AnswersIs
<1>6. CASE FreePath(t, NoCall)
  <2>1. PICK new : new = NoCall
    OBVIOUS
  <2>2. /\ new \in CallType /\ ~new.l /\ ~new.l2 /\ ~Waits(new) /\ Shape(new) /\ Locks(nd, new)
        /\ FreePath(t, new)
    BY <1>6, <2>1, NoCallIs
  <2>3. Freed(t, new)
    BY <1>5, <2>2, FreePathOk
  <2> QED BY <1>2, <2>1, <2>3, NoCallWants, FreedHost
<1>7. CASE FreePath(t, [NoCall EXCEPT !.op = "forget", !.at = "forget", !.n = n, !.k = 1])
  <2>1. PICK new : new = [NoCall EXCEPT !.op = "forget", !.at = "forget", !.n = n, !.k = 1]
    OBVIOUS
  <2>2. PICK k \in Nat : k = 1
    OBVIOUS
  <2>3. new = [NoCall EXCEPT !.op = "forget", !.at = "forget", !.n = n, !.k = k] /\ k > 0
    BY <2>1, <2>2
  <2>4. ForgetOf(n, k, new) /\ Shape(new) /\ ~Waits(new) /\ Locks(nd, new)
    BY <1>4, <2>3, ForgetOfIs
  <2>5. new \in CallType /\ ~new.l /\ ~new.l2 /\ new.op = "forget" /\ new.at = "forget"
    BY <2>4 DEF ForgetOf
  <2>6. FreePath(t, new)
    BY <1>7, <2>1
  <2>7. Freed(t, new)
    BY <1>5, <2>4, <2>5, <2>6, FreePathOk
  <2>8. Wants(nd, host, new)
    BY <2>5, ForgetWants
  <2> QED BY <1>2, <2>7, <2>8, FreedHost
<1> QED BY <1>2, <1>6, <1>7

\* A forget that goes on, or has just been sent, with the table as it was.
LEMMA ForgetHost ==
  ASSUME Inv, HostInv, NEW t \in Threads, NEW q, q.op = "forget", q.at \in {"forget", "fwait"},
         call[t].at \notin {"table", "hidenode"}, call' = [call EXCEPT ![t] = q],
         nd' = nd, host' = host
  PROVE  HostInv'
BY ForgetWants, OneSame, QuietHost

---------------------------------------------------------------------------
(* The requests *)

\* A request starts with what it asked for, or is answered.
LEMMA StartedWants ==
  ASSUME NEW t \in Threads, NEW r, Fresh(r), Wants(nd, host, r), NEW q, Started(t, r, q)
  PROVE  Wants(nd, host, q)
<1>1. FirstStep(r.op) \in StepNames \cap Calm /\ "wait" \in StepNames \cap Calm
      /\ r \in CallType /\ r.at = "idle"
  BY DEF FirstStep, StepNames, Calm, Fresh
<1>2. ASSUME NEW a \in StepNames \cap Calm, NEW x, x = [r EXCEPT !.at = a], Same(q, x)
      PROVE  Wants(nd, host, q)
  <2>1. Carries(q, r, a)
    BY <1>1, <1>2, AtIs DEF Carries, Same
  <2> QED BY <1>1, <1>2, <2>1, WantsOn
<1>3. PICK x, y : x = [r EXCEPT !.at = FirstStep(r.op)] /\ y = [r EXCEPT !.at = "wait"]
  OBVIOUS
<1>4. q = NoCall \/ Same(q, x) \/ Same(q, y)
  BY <1>3 DEF Started
<1> QED BY <1>1, <1>2, <1>3, <1>4, NoCallWants

\* A rename from one directory to another, of which there is one at a time: what it moves
\* is not above the place it moves to.
Cross(r) == r.op = "rename" /\ r.n # r.n2
Split(d, n, m, n2) == \A c \in Ids : Child(d, n, m, c) => c \notin Chain(d, n2)
Parted(d, r) == Cross(r) => Split(d, r.n, r.m, r.n2) /\ Split(d, r.n2, r.m2, r.n)
Crosses(r) == Cross(r) => Parted(nd, r) /\ \A u \in Threads : ~Cross(call[u])

\* The thread takes a request that relies on what holds.
Sends(t, r) ==
  /\ Fresh(r) /\ Request(t, r) /\ knows' = knows /\ Wants(nd, host, r) /\ Crosses(r)
  /\ \/ kopen' = kopen /\ r.op # "release"
     \/ /\ r.op = "release" /\ r.n \in Ids /\ kopen[r.n] > 0
        /\ kopen' = [kopen EXCEPT ![r.n] = @ - 1]

BothInv == FlagsHonoured /\ Inv /\ HostInv

LEMMA TakesKeeps ==
  ASSUME BothInv, NEW t \in Threads, Idle(t), NEW r, Sends(t, r)
  PROVE  BothInv'
<1>1. call[t] = NoCall /\ kopen \in [Ids -> Nat]
  BY IdleIs, TypeSplit DEF Inv, BothInv
<1>2. GetPath(t, r) /\ (\A u \in Threads : call[u].mx \cap r.mx = {}) /\ Inv /\ HostInv
      /\ Fresh(r) /\ Wants(nd, host, r)
  BY DEF Request, BothInv, Sends
<1>3. PICK q : Started(t, r, q)
  BY <1>1, <1>2, GotOk
<1>4. nd' = nd /\ host' = host /\ left' = left /\ knows' = knows
  BY <1>2 DEF GetPath, Got, Sends
<1>5. kopen' \in [Ids -> Nat] /\ \A i \in Ids : kopen[i] = kopen'[i] + Closing(r, i)
  <2>1. CASE kopen' = kopen /\ r.op # "release"
    BY <2>1, <1>1 DEF Closing
  <2>2. CASE /\ r.op = "release" /\ r.n \in Ids /\ kopen[r.n] > 0
             /\ kopen' = [kopen EXCEPT ![r.n] = @ - 1]
    BY <2>2, <1>1 DEF Closing
  <2> QED BY <2>1, <2>2 DEF Sends
<1>6. Inv'
  BY <1>1, <1>2, <1>3, <1>4, <1>5, StartedInv
<1>7. HostInv'
  <2>1. call' = [call EXCEPT ![t] = q]
    BY <1>3 DEF Started
  <2>2. OthersSame(t) /\ call'[t] = q
    BY <2>1, <1>2, OneSame
  <2>3. Wants(nd, host, call'[t]) /\ call[t].at \notin {"table", "hidenode"}
    BY <1>1, <1>2, <1>3, <2>2, StartedWants, NoCallIs
  <2> QED BY <1>2, <1>4, <2>2, <2>3, QuietHost
<1> QED BY <1>6, <1>7 DEF BothInv

LEMMA KnownIs ==
  ASSUME Inv, NEW n, Known(n) \/ LiveDir(n)
  PROVE  n \in Nodes /\ (n \in Ids => knows[n] > 0)
BY IdsPlaces DEF Known, LiveDir, Nodes

\* What the kernel knows when it sends a request.
Grounds(op, n, m, n2, m2) ==
  /\ op \in InDir => nd[n].file \in Dirs
  /\ op \in {"rename", "link"} => nd[n2].file \in Dirs
  /\ op = "open" => nd[n].file \notin Dirs
  /\ op = "rename" => (n # n2 \/ m # m2) /\ \E c \in Ids : Child(nd, n, m, c)
  /\ op = "rename" /\ n # n2 => /\ Split(nd, n, m, n2) /\ Split(nd, n2, m2, n)
                               /\ \A u \in Threads : ~Cross(call[u])

LEMMA SentWants ==
  ASSUME NEW op, NEW n, NEW m, NEW n2, NEW m2, NEW mx, NEW kref, NEW r,
         Sent(r, op, n, m, n2, m2, mx, kref), Grounds(op, n, m, n2, m2)
  PROVE  Wants(nd, host, r) /\ Crosses(r)
<1>1. r.op = op /\ r.at = "idle" /\ r.n = n /\ r.m = m /\ r.n2 = n2 /\ r.m2 = m2
  BY DEF Sent
<1>2. Wants(nd, host, r)
  BY <1>1 DEF Grounds, Wants, Two
<1>3. Crosses(r)
  BY <1>1 DEF Grounds, Crosses, Parted, Cross
<1> QED BY <1>2, <1>3

\* A request that is not for a name.
LEMMA PlainFresh ==
  ASSUME Inv, NEW r, NEW op \in {"getattr", "open", "release"}, NEW n \in Ids, knows[n] > 0,
         Sent(r, op, n, NoName, NoNode, NoName, {}, {n})
  PROVE  Fresh(r)
<1>1. ~Two(r) /\ ~Wr(r)
  BY DEF Sent, Two, Wr
<1>2. Asked(r)
  BY <1>1 DEF Sent, Asked, Steps, InDir, Nodes
<1> QED BY <1>1, <1>2 DEF Sent, Fresh

LEMMA NameFresh ==
  ASSUME Inv, NEW r, NEW op \in {"lookup", "mknod"}, NEW n \in Nodes, NEW m \in Names, LiveDir(n),
         Sent(r, op, n, m, NoNode, NoName, {n}, {n})
  PROVE  Fresh(r)
<1>1. ~Two(r) /\ ~Wr(r)
  BY DEF Sent, Two, Wr
<1>2. Asked(r)
  BY <1>1 DEF Sent, Asked, Steps, InDir, Nodes
<1> QED BY <1>1, <1>2, KnownIs DEF Sent, Fresh

LEMMA PlainTypes ==
  /\ \A n \in Ids : n \in Nodes /\ {n} \in SUBSET Nodes
  /\ \A n \in Nodes : {n} \in SUBSET Nodes
  /\ {} \in SUBSET Nodes /\ NoName \in Names \cup {NoName}
  /\ {"lookup", "getattr", "mknod", "unlink", "rmdir", "rename", "link", "open", "release"}
       \subseteq OpNames
  /\ {"reg", "dir", "none", "exchange"} \subseteq Flags
BY DEF Nodes, OpNames, Flags

LEMMA fuse_lib_lookupTakes ==
  ASSUME Inv, NEW t \in Threads, Idle(t), NEW n \in Nodes, NEW m \in Names, fuse_lib_lookup(t, n, m)
  PROVE  \E r : Sends(t, r)
<1>1. PICK r : r = Req("lookup", n, m, {n}, {n})
  OBVIOUS
<1>2. Request(t, r) /\ LiveDir(n) /\ knows' = knows /\ kopen' = kopen
  BY <1>1 DEF fuse_lib_lookup, kernel
<1>3. Sent(r, "lookup", n, m, NoNode, NoName, {n}, {n})
  BY <1>1, PlainTypes, ReqIs
<1>4. Fresh(r) /\ r.op # "release"
  BY <1>2, <1>3, NameFresh DEF Sent
<1>5. Grounds("lookup", n, m, NoNode, NoName)
  BY <1>2 DEF LiveDir, Grounds
<1> QED BY <1>2, <1>3, <1>4, <1>5, SentWants DEF Sends

LEMMA CreateReqTakes ==
  ASSUME Inv, NEW t \in Threads, Idle(t), NEW n \in Nodes, NEW m \in Names, NEW kind \in Flags,
         CreateReq(t, n, m, kind)
  PROVE  \E r : Sends(t, r)
<1>1. PICK r : r = Req("mknod", n, m, {n}, {n})
  OBVIOUS
<1>2. PICK q : q = [r EXCEPT !.fl = kind]
  OBVIOUS
<1>3. Request(t, q) /\ LiveDir(n) /\ knows' = knows /\ kopen' = kopen
  BY <1>1, <1>2 DEF CreateReq, kernel
<1>4. Sent(r, "mknod", n, m, NoNode, NoName, {n}, {n})
  BY <1>1, PlainTypes, ReqIs
<1>5. Sent(q, "mknod", n, m, NoNode, NoName, {n}, {n})
  BY <1>2, <1>4, FlagIs
<1>6. Fresh(q) /\ q.op # "release"
  BY <1>3, <1>5, NameFresh DEF Sent
<1>7. Grounds("mknod", n, m, NoNode, NoName)
  BY <1>3 DEF LiveDir, Grounds
<1> QED BY <1>3, <1>5, <1>6, <1>7, SentWants DEF Sends

LEMMA fuse_lib_getattrTakes ==
  ASSUME Inv, NEW t \in Threads, Idle(t), NEW n \in Ids, fuse_lib_getattr(t, n)
  PROVE  \E r : Sends(t, r)
<1>1. PICK r : r = Req("getattr", n, NoName, {}, {n})
  OBVIOUS
<1>2. Request(t, r) /\ Known(n) /\ knows' = knows /\ kopen' = kopen
  BY <1>1 DEF fuse_lib_getattr, kernel
<1>3. Sent(r, "getattr", n, NoName, NoNode, NoName, {}, {n})
  BY <1>1, PlainTypes, ReqIs
<1>4. knows[n] > 0
  BY <1>2, KnownIs
<1>5. Fresh(r) /\ r.op # "release"
  BY <1>3, <1>4, PlainFresh DEF Sent
<1>6. Grounds("getattr", n, NoName, NoNode, NoName)
  BY DEF InDir, Grounds
<1> QED BY <1>2, <1>3, <1>5, <1>6, SentWants DEF Sends

LEMMA fuse_lib_openTakes ==
  ASSUME Inv, NEW t \in Threads, Idle(t), NEW n \in Ids, fuse_lib_open(t, n)
  PROVE  \E r : Sends(t, r)
<1>1. PICK r : r = Req("open", n, NoName, {}, {n})
  OBVIOUS
<1>2. Request(t, r) /\ Known(n) /\ nd[n].file \notin Dirs /\ knows' = knows /\ kopen' = kopen
  BY <1>1 DEF fuse_lib_open, kernel
<1>3. Sent(r, "open", n, NoName, NoNode, NoName, {}, {n})
  BY <1>1, PlainTypes, ReqIs
<1>4. knows[n] > 0
  BY <1>2, KnownIs
<1>5. Fresh(r) /\ r.op # "release"
  BY <1>3, <1>4, PlainFresh DEF Sent
<1>6. Grounds("open", n, NoName, NoNode, NoName)
  BY <1>2 DEF InDir, Grounds
<1> QED BY <1>2, <1>3, <1>5, <1>6, SentWants DEF Sends

LEMMA fuse_lib_releaseTakes ==
  ASSUME Inv, NEW t \in Threads, Idle(t), NEW n \in Ids, fuse_lib_release(t, n)
  PROVE  \E r : Sends(t, r)
<1>1. PICK r : r = Req("release", n, NoName, {}, {n})
  OBVIOUS
<1>2. Request(t, r) /\ kopen[n] > 0 /\ knows' = knows /\ kopen' = [kopen EXCEPT ![n] = @ - 1]
  BY <1>1 DEF fuse_lib_release
<1>3. Sent(r, "release", n, NoName, NoNode, NoName, {}, {n})
  BY <1>1, PlainTypes, ReqIs
<1>4. knows[n] > 0
  BY <1>2 DEF Inv, KernelInv
<1>5. Fresh(r) /\ r.op = "release" /\ r.n = n
  BY <1>3, <1>4, PlainFresh DEF Sent
<1>6. Grounds("release", n, NoName, NoNode, NoName)
  BY DEF InDir, Grounds
<1> QED BY <1>2, <1>3, <1>5, <1>6, SentWants DEF Sends

\* The node the kernel knows by a name is the only one of that name.
LEMMA PositiveIs ==
  ASSUME Inv, NEW n \in Nodes, NEW m, NEW c, c = lookup_node(nd, n, m), Positive(n, m)
  PROVE  c \in Ids /\ knows[c] > 0 /\ OnlyChild(nd, n, m, c) /\ Child(nd, n, m, c)
<1>1. TreeInv(nd) /\ Known(c) /\ c # NoNode
  BY DEF Inv, Positive
<1>2. c \in Ids /\ OnlyChild(nd, n, m, c) /\ Child(nd, n, m, c)
  BY <1>1, LookupIs DEF Child
<1>3. knows[c] > 0
  BY <1>1, <1>2, KnownIs
<1> QED BY <1>2, <1>3

LEMMA RemoveReqTakes ==
  ASSUME Inv, NEW t \in Threads, Idle(t), NEW op \in {"unlink", "rmdir"}, NEW n \in Nodes,
         NEW m \in Names, NEW kind, RemoveReq(t, op, n, m, kind)
  PROVE  \E r : Sends(t, r)
<1>1. PICK c : c = lookup_node(nd, n, m)
  OBVIOUS
<1>2. PICK r : r = Req(op, n, m, {n, c}, {n, c})
  OBVIOUS
<1>3. Request(t, r) /\ LiveDir(n) /\ Positive(n, m) /\ knows' = knows /\ kopen' = kopen
  BY <1>1, <1>2 DEF RemoveReq, kernel
<1>4. c \in Ids /\ knows[c] > 0 /\ OnlyChild(nd, n, m, c)
  BY <1>1, <1>3, PositiveIs
<1>5. {n, c} \in SUBSET Nodes
  BY <1>4 DEF Nodes
<1>6. Sent(r, op, n, m, NoNode, NoName, {n, c}, {n, c})
  BY <1>2, <1>5, PlainTypes, ReqIs
<1>7. ~Two(r) /\ r.op # "release"
  BY <1>6 DEF Sent, Two
<1>8. Asked(r)
  BY <1>6, <1>7 DEF Sent, Asked, Steps, InDir
<1>9. \A i \in r.kref \cap Ids : knows[i] > 0
  BY <1>3, <1>4, <1>6, KnownIs DEF Sent
<1>10. \A i \in Ids : Target(nd, r, i) => i \in r.kref
  BY <1>4, <1>6, <1>7 DEF Sent, Target, OnlyChild
<1>11. Fresh(r)
  BY <1>6, <1>7, <1>8, <1>9, <1>10 DEF Sent, Fresh
<1>12. Grounds(op, n, m, NoNode, NoName)
  BY <1>3 DEF LiveDir, Grounds
<1> QED BY <1>3, <1>6, <1>7, <1>11, <1>12, SentWants DEF Sends

LEMMA fuse_lib_linkTakes ==
  ASSUME Inv, NEW t \in Threads, Idle(t), NEW s \in Ids, NEW n2 \in Nodes, NEW m2 \in Names,
         fuse_lib_link(t, s, n2, m2)
  PROVE  \E r : Sends(t, r)
<1>1. PICK r : r = Req("link", s, NoName, {n2, s}, {n2, s})
  OBVIOUS
<1>2. PICK q : q = [r EXCEPT !.n2 = n2, !.m2 = m2]
  OBVIOUS
<1>3. Request(t, q) /\ Known(s) /\ LiveDir(n2) /\ knows' = knows /\ kopen' = kopen
  BY <1>1, <1>2 DEF fuse_lib_link, kernel
<1>4. s \in Nodes /\ {n2, s} \in SUBSET Nodes
  BY DEF Nodes
<1>5. Sent(r, "link", s, NoName, NoNode, NoName, {n2, s}, {n2, s})
  BY <1>1, <1>4, PlainTypes, ReqIs
<1>6. Sent(q, "link", s, NoName, n2, m2, {n2, s}, {n2, s})
  BY <1>2, <1>5, SecondIs
<1>7. ~Wr(q) /\ q.op # "release"
  BY <1>6 DEF Sent, Wr
<1>8. Asked(q)
  BY <1>6 DEF Sent, Asked, Steps, InDir, Nodes
<1>9. \A i \in q.kref \cap Ids : knows[i] > 0
  BY <1>3, <1>6, KnownIs DEF Sent
<1>10. Fresh(q)
  BY <1>6, <1>7, <1>8, <1>9 DEF Sent, Fresh
<1>11. Grounds("link", s, NoName, n2, m2)
  BY <1>3 DEF LiveDir, Grounds, InDir
<1> QED BY <1>3, <1>6, <1>7, <1>10, <1>11, SentWants DEF Sends

\* A name that leads to nothing on the host has no node.
NegativeKnown(n2, m2) ==
  (LiveDir(n2) /\ Negative(n2, m2) /\ \A u \in Threads : n2 \notin call[u].mx) =>
    \A c \in Ids : ~(nd[c].parent = n2 /\ nd[c].name = m2)

LEMMA NegativeKnownIs ==
  ASSUME Inv, HostInv, NEW n2 \in Nodes, NEW m2 \in Names
  PROVE  NegativeKnown(n2, m2)
<1> SUFFICES ASSUME LiveDir(n2), Negative(n2, m2), \A u \in Threads : n2 \notin call[u].mx,
                    NEW c \in Ids, nd[c].parent = n2, nd[c].name = m2
             PROVE  FALSE
  BY DEF NegativeKnown
<1>1. nd[c].name # NoName /\ m2 \notin HiddenNames
  BY NamesAre
<1>2. nd[c].file # NoFile
  BY <1>1, NamedFile
<1>3. InPlace(nd, host, call, c)
  BY <1>1 DEF HostInv, Placed
<1>4. \A v \in Threads : ~Placing(call[v], nd[c].parent, nd[c].name)
  BY PlacingIs
<1>5. FileAt(host, nd[n2].file, m2) = NoFile
  BY DEF Negative, FileAt
<1> QED BY <1>1, <1>2, <1>3, <1>4, <1>5 DEF InPlace

LEMMA fuse_lib_renameTakes ==
  ASSUME Inv, NEW t \in Threads, Idle(t), NEW n \in Nodes, NEW m \in Names, NEW n2 \in Nodes,
         NEW m2 \in Names, NEW fl \in RenameFlags, NegativeKnown(n2, m2),
         fuse_lib_rename(t, n, m, n2, m2, fl)
  PROVE  \E r : Sends(t, r)
<1>1. PICK s, v, victims : /\ s = lookup_node(nd, n, m) /\ v = lookup_node(nd, n2, m2)
                           /\ victims = IF Positive(n2, m2) THEN {v} ELSE {}
  OBVIOUS
<1>2. PICK mx : mx = {n, n2} \cup victims \cup IF nd[s].file \in Dirs THEN {} ELSE {s}
  OBVIOUS
<1>19. PICK kref : kref = mx \cup {s}
  OBVIOUS
<1>3. PICK r : r = Req("rename", n, m, mx, kref)
  OBVIOUS
<1>4. PICK q : q = [r EXCEPT !.n2 = n2, !.m2 = m2, !.fl = fl]
  OBVIOUS
<1>5. /\ Request(t, q) /\ LiveDir(n) /\ LiveDir(n2) /\ Positive(n, m) /\ knows' = knows
      /\ kopen' = kopen /\ (Positive(n2, m2) \/ Negative(n2, m2))
  BY <1>1, <1>2, <1>3, <1>4, <1>19 DEF fuse_lib_rename, kernel
<1>21. /\ s \notin Chain(nd, n2) /\ \A x \in victims : x \notin Chain(nd, n)
       /\ n # n2 => \A u \in Threads : call[u].op = "rename" => call[u].n = call[u].n2
  BY <1>1 DEF fuse_lib_rename
<1>6. s \in Ids /\ knows[s] > 0 /\ OnlyChild(nd, n, m, s) /\ Child(nd, n, m, s)
  BY <1>1, <1>5, PositiveIs
<1>7. Positive(n2, m2) => v \in Ids /\ knows[v] > 0 /\ OnlyChild(nd, n2, m2, v)
  BY <1>1, PositiveIs
<1>8. victims \subseteq Ids /\ \A i \in victims : knows[i] > 0
  BY <1>1, <1>7
<1>9. mx \in SUBSET Nodes /\ kref \in SUBSET Nodes
  BY <1>19, <1>2, <1>6, <1>8 DEF Nodes
<1>10. fl \in Flags
  BY RequestsAssumption DEF Flags
<1>11. Sent(r, "rename", n, m, NoNode, NoName, mx, kref)
  BY <1>3, <1>9, PlainTypes, ReqIs
<1>12. Sent(q, "rename", n, m, n2, m2, mx, kref) /\ q.fl = fl
  <2>1. PICK f \in Flags : f = fl
    BY <1>10
  <2>2. q = [r EXCEPT !.n2 = n2, !.m2 = m2, !.fl = f]
    BY <1>4, <2>1
  <2>3. SentRename(q, n, m, n2, m2, f, mx, kref)
    BY <1>11, <2>1, <2>2, RenameIs
  <2> QED BY <2>1, <2>3 DEF SentRename
<1>13. q.op # "release" /\ fl \in RenameFlags /\ n \in mx /\ n2 \in mx
  BY <1>2, <1>12 DEF Sent
<1>14. Asked(q)
  BY <1>12, <1>13 DEF Sent, Asked, Steps, InDir
<1>15. \A i \in q.kref \cap Ids : knows[i] > 0
  <2>1. \A i \in {n, n2} \cap Ids : knows[i] > 0
    BY <1>5, KnownIs
  <2> QED BY <2>1, <1>2, <1>6, <1>8, <1>12, <1>19 DEF Sent
<1>22. ASSUME NEW i \in Ids, nd[i].parent = n2, nd[i].name = m2 PROVE i \in victims
  <2>1. \A u \in Threads : n2 \notin call[u].mx
    BY <1>5, <1>12, <1>13 DEF Request, Sent
  <2>2. Positive(n2, m2)
    BY <1>22, <2>1, <1>5 DEF NegativeKnown
  <2> QED BY <1>22, <2>2, <1>1, <1>7 DEF OnlyChild
<1>16. ASSUME NEW i \in Ids, Target(nd, q, i) PROVE i \in q.kref
  <2>1. \/ nd[i].parent = n /\ nd[i].name = m
        \/ nd[i].parent = n2 /\ nd[i].name = m2
    BY <1>12, <1>16 DEF Sent, Target
  <2>2. CASE nd[i].parent = n /\ nd[i].name = m
    BY <2>2, <1>6, <1>12, <1>19 DEF Sent, OnlyChild
  <2>3. CASE nd[i].parent = n2 /\ nd[i].name = m2
    BY <2>3, <1>22, <1>2, <1>12, <1>19 DEF Sent
  <2> QED BY <2>1, <2>2, <2>3
<1>17. n \in q.kref /\ n2 \in q.kref
  BY <1>12, <1>13, <1>19 DEF Sent
<1>18. Fresh(q)
  BY <1>12, <1>14, <1>15, <1>16, <1>17 DEF Sent, Fresh
<1>20. Grounds("rename", n, m, n2, m2)
  <2>1. n # n2 \/ m # m2
    BY DEF fuse_lib_rename
  <2>2. nd[n].file \in Dirs /\ nd[n2].file \in Dirs
    BY <1>5 DEF LiveDir
  <2>3. Split(nd, n, m, n2)
    BY <1>6, <1>21 DEF Split, Child, OnlyChild
  <2>4. Split(nd, n2, m2, n)
    BY <1>21, <1>22 DEF Split, Child
  <2>5. n # n2 => \A u \in Threads : ~Cross(call[u])
    BY <1>21 DEF Cross
  <2> QED BY <1>6, <2>1, <2>2, <2>3, <2>4, <2>5 DEF Grounds
<1> QED BY <1>5, <1>12, <1>13, <1>18, <1>20, SentWants DEF Sends

LEMMA fuse_lib_forgetHost ==
  ASSUME Inv, HostInv, NEW t \in Threads, Idle(t), NEW n \in Ids, fuse_lib_forget(t, n)
  PROVE  HostInv'
<1>1. PICK q : q = [NoCall EXCEPT !.op = "forget", !.at = "forget", !.n = n, !.k = knows[n]]
  OBVIOUS
<1>2. call' = [call EXCEPT ![t] = q] /\ nd' = nd /\ host' = host
  BY <1>1 DEF fuse_lib_forget, table
<1>3. q.op = "forget" /\ q.at = "forget"
  BY <1>1 DEF NoCall
<1>4. call[t].at \notin {"table", "hidenode"}
  BY DEF Idle
<1> QED BY <1>2, <1>3, <1>4, ForgetHost

LEMMA SendTakes ==
  ASSUME BothInv, NEW t \in Threads, Idle(t), KernelSends(t)
  PROVE  (\E r : Sends(t, r)) \/ \E n \in Ids : fuse_lib_forget(t, n)
<1>0. Inv /\ HostInv
  BY DEF BothInv
<1>1. CASE \E n \in Nodes, m \in Names :
             \/ fuse_lib_lookup(t, n, m) \/ fuse_lib_mknod(t, n, m) \/ fuse_lib_mkdir(t, n, m)
             \/ fuse_lib_unlink(t, n, m) \/ fuse_lib_rmdir(t, n, m)
             \/ \E n2 \in Nodes, m2 \in Names, fl \in RenameFlags :
                  fuse_lib_rename(t, n, m, n2, m2, fl)
             \/ \E s \in Ids : fuse_lib_link(t, s, n, m)
  <2>1. PICK n \in Nodes, m \in Names :
             \/ fuse_lib_lookup(t, n, m) \/ fuse_lib_mknod(t, n, m) \/ fuse_lib_mkdir(t, n, m)
             \/ fuse_lib_unlink(t, n, m) \/ fuse_lib_rmdir(t, n, m)
             \/ \E n2 \in Nodes, m2 \in Names, fl \in RenameFlags :
                  fuse_lib_rename(t, n, m, n2, m2, fl)
             \/ \E s \in Ids : fuse_lib_link(t, s, n, m)
    BY <1>1
  <2>2. CASE fuse_lib_lookup(t, n, m)
    BY <2>2, <1>0, fuse_lib_lookupTakes
  <2>3. CASE fuse_lib_mknod(t, n, m)
    BY <2>3, <1>0, PlainTypes, CreateReqTakes DEF fuse_lib_mknod
  <2>4. CASE fuse_lib_mkdir(t, n, m)
    BY <2>4, <1>0, PlainTypes, CreateReqTakes DEF fuse_lib_mkdir
  <2>5. CASE fuse_lib_unlink(t, n, m)
    BY <2>5, <1>0, RemoveReqTakes DEF fuse_lib_unlink
  <2>6. CASE fuse_lib_rmdir(t, n, m)
    BY <2>6, <1>0, RemoveReqTakes DEF fuse_lib_rmdir
  <2>7. CASE \E n2 \in Nodes, m2 \in Names, fl \in RenameFlags :
               fuse_lib_rename(t, n, m, n2, m2, fl)
    BY <2>7, <1>0, NegativeKnownIs, fuse_lib_renameTakes
  <2>8. CASE \E s \in Ids : fuse_lib_link(t, s, n, m)
    BY <2>8, <1>0, fuse_lib_linkTakes
  <2> QED BY <2>1, <2>2, <2>3, <2>4, <2>5, <2>6, <2>7, <2>8
<1>2. CASE \E n \in Ids : \/ fuse_lib_getattr(t, n) \/ fuse_lib_open(t, n)
                          \/ fuse_lib_release(t, n) \/ fuse_lib_forget(t, n)
  <2>1. PICK n \in Ids : \/ fuse_lib_getattr(t, n) \/ fuse_lib_open(t, n)
                        \/ fuse_lib_release(t, n) \/ fuse_lib_forget(t, n)
    BY <1>2
  <2>2. CASE fuse_lib_getattr(t, n) \/ fuse_lib_open(t, n) \/ fuse_lib_release(t, n)
    BY <2>2, <1>0, fuse_lib_getattrTakes, fuse_lib_openTakes, fuse_lib_releaseTakes
  <2> QED BY <2>1, <2>2
<1> QED BY <1>1, <1>2 DEF KernelSends

LEMMA SendKeeps ==
  ASSUME BothInv, NEW t \in Threads, Idle(t), KernelSends(t)
  PROVE  BothInv'
<1>1. CASE \E r : Sends(t, r)
  BY <1>1, TakesKeeps
<1>2. CASE \E n \in Ids : fuse_lib_forget(t, n)
  BY <1>2, fuse_lib_forgetInv, fuse_lib_forgetHost DEF BothInv
<1> QED BY <1>1, <1>2, SendTakes

---------------------------------------------------------------------------
(* Steps on the table or the host *)

LEMMA HostStep ==
  ASSUME Inv, HostInv, NEW t \in Threads, OthersSame(t), TableKept(t, nd'), HostKept(t, host'),
         DirsOnce(host'), FilesInv(nd'), Placed(nd', host', call'), Unplaced(nd', host'),
         Wants(nd', host', call'[t])
  PROVE  HostInv'
<1>1. ASSUME NEW u \in Threads PROVE Wants(nd', host', call'[u])
  <2>1. CASE u = t
    BY <2>1
  <2>2. CASE u # t
    <3>1. PICK e, hs : e = nd' /\ hs = host'
      OBVIOUS
    <3>2. Same(call'[u], call[u]) /\ (call'[u] = call[u] \/ Waits(call[u]))
      BY <2>2 DEF OthersSame
    <3>3. TableKept(t, e) /\ HostKept(t, hs)
      BY <3>1
    <3>4. Wants(e, hs, call[u])
      BY <2>2, <3>3, OthersWant
    <3>5. PICK q : q = call'[u]
      OBVIOUS
    <3>6. Wants(e, hs, q)
      BY <3>2, <3>4, <3>5, WantsSame
    <3> QED BY <3>1, <3>5, <3>6
  <2> QED BY <2>1, <2>2
<1> QED BY <1>1 DEF HostInv

\* A node that stays, with its file and its directory's, is where it was.
LEMMA StaysPlaced ==
  ASSUME Inv, HostInv, NEW t \in Threads, OthersSame(t), NEW e, NEW hs, NEW c \in Ids,
         nd[c].name # NoName, SamePlace(nd, e, c), e[c].file = nd[c].file,
         e[nd[c].parent].file = nd[nd[c].parent].file,
         ~Placing(call[t], nd[c].parent, nd[c].name),
         FileAt(hs, nd[nd[c].parent].file, nd[c].name)
           = FileAt(host, nd[nd[c].parent].file, nd[c].name)
  PROVE  InPlace(e, hs, call', c)
<1>1. InPlace(nd, host, call, c)
  BY DEF HostInv, Placed
<1>2. ASSUME NEW u \in Threads, Placing(call[u], nd[c].parent, nd[c].name)
      PROVE  Placing(call'[u], nd[c].parent, nd[c].name)
  <2>1. u # t
    BY <1>2
  <2> QED BY <1>2, <2>1, PlacingSame
<1>3. e[c].parent = nd[c].parent /\ e[c].name = nd[c].name
  BY DEF SamePlace
<1> QED BY <1>1, <1>2, <1>3 DEF InPlace

LEMMA HostSame == ASSUME NEW t PROVE HostKept(t, host)
BY DEF HostKept

---------------------------------------------------------------------------
(* Counts *)

\* Only counts change, and open files are none of directories.
SameTree(d, e) ==
  /\ \A u \in Nodes : e[u].file = d[u].file
  /\ \A u \in Ids : SamePlace(d, e, u)
  /\ \A u \in Ids : e[u].open_count > 0 => d[u].open_count > 0 \/ d[u].file \notin Dirs

LEMMA CountHost ==
  ASSUME Inv, HostInv, NEW t \in Threads, NEW q, call' = [call EXCEPT ![t] = q], host' = host,
         call[t].at \notin {"table", "hidenode"}, SameTree(nd, nd'), Wants(nd, host, q),
         q.op \in {"lookup", "mknod", "link", "open", "release"}, q.n \in Nodes,
         q.op = "link" => q.n2 \in Nodes,
         q.at \notin {"find", "table", "hidefs", "hidenode"}
  PROVE  HostInv'
<1>1. OthersSame(t) /\ call'[t] = q
  BY OneSame
<1>2. TreeInv(nd) /\ FilesInv(nd) /\ Unplaced(nd, host) /\ DirsOnce(host) /\ Root \in Nodes
  BY HostIs DEF HostInv, Nodes
<1>3. \A u \in Ids : u \in Nodes /\ nd[u].parent \in Nodes \cup {NoNode}
  BY <1>2, NodeIs, IdsPlaces
<1>4. TableKept(t, nd')
  BY <1>2, <1>3 DEF TableKept, SameTree
<1>5. HostKept(t, host')
  BY HostSame
<1>6. FilesInv(nd')
  <2>1. nd'[Root].file = RootFile
    BY <1>2 DEF FilesInv, SameTree
  <2>2. \A n \in Ids : nd'[n].name # NoName => nd'[n].file \in Files
    BY <1>2, <1>3 DEF FilesInv, SameTree, SamePlace
  <2>3. \A n \in Ids : nd'[n].parent # NoNode => nd'[nd'[n].parent].file \in Dirs
    BY <1>2, <1>3 DEF FilesInv, SameTree, SamePlace
  <2>4. \A n \in Ids :
          nd'[n].open_count > 0 \/ nd'[n].name \in HiddenNames => nd'[n].file \notin Dirs
    BY <1>2, <1>3 DEF FilesInv, SameTree, SamePlace
  <2>5. \A a, b \in Nodes : nd'[a].file \in Dirs /\ nd'[a].file = nd'[b].file => a = b
    BY <1>2 DEF FilesInv, SameTree
  <2> QED BY <2>1, <2>2, <2>3, <2>4, <2>5 DEF FilesInv
<1>7. Placed(nd', host', call')
  <2> SUFFICES ASSUME NEW c \in Ids, nd'[c].name # NoName PROVE InPlace(nd', host', call', c)
    BY DEF Placed
  <2>1. nd[c].name # NoName /\ SamePlace(nd, nd', c)
    BY DEF SameTree, SamePlace
  <2>2. nd'[c].file = nd[c].file /\ nd'[nd[c].parent].file = nd[nd[c].parent].file
    BY <1>3, <2>1, NamedFile DEF SameTree
  <2>3. ~Placing(call[t], nd[c].parent, nd[c].name)
    BY DEF Placing
  <2> QED BY <1>1, <2>1, <2>2, <2>3, StaysPlaced
<1>8. Unplaced(nd', host')
  BY <1>2, <1>3 DEF Unplaced, SameTree, SamePlace
<1>9. Wants(nd', host', q)
  <2>1. /\ q.op \in InDir => nd'[q.n].file \in Dirs
        /\ Two(q) => nd'[q.n2].file \in Dirs
        /\ q.op = "open" /\ q.n \in q.kref => nd'[q.n].file \notin Dirs
    BY DEF Wants, SameTree, Two
  <2> QED BY <2>1 DEF Wants
<1>10. Wants(nd', host', call'[t]) /\ DirsOnce(host')
  BY <1>1, <1>2, <1>9
<1> QED BY <1>1, <1>4, <1>5, <1>6, <1>7, <1>8, <1>10, HostStep

\* A request at a step of its own goes on.
LEMMA WentWants ==
  ASSUME Inv, HostInv, NEW t \in Threads, NEW a \in Calm, NEW f, NEW hid, NEW q,
         Went(t, a, f, hid, q), call[t].at # "free"
  PROVE  Wants(nd, host, q) /\ q.at = a /\ q.op = call[t].op /\ q.n = call[t].n
         /\ q.n2 = call[t].n2 /\ call' = [call EXCEPT ![t] = q]
<1>1. Carries(q, call[t], a) /\ call' = [call EXCEPT ![t] = q]
  BY DEF Went, Onward, Carries
<1>2. Wants(nd, host, call[t])
  BY DEF HostInv
<1>3. Wants(nd, host, q)
  BY <1>1, <1>2, WantsOn
<1> QED BY <1>1, <1>3 DEF Carries

\* One node with another number of open files.
Opens(d, e, n) ==
  /\ \A u \in Nodes : /\ e[u].file = d[u].file /\ SamePlace(d, e, u)
                      /\ u # n => e[u].open_count = d[u].open_count

LEMMA OpensIs ==
  ASSUME NEW d \in [Nodes -> NodeType], NEW n \in Nodes, NEW k \in Nat, NEW b \in BOOLEAN,
         NEW e, e = [d EXCEPT ![n].open_count = k, ![n].is_hidden = b]
  PROVE  Opens(d, e, n)
<1>1. PICK x : x = [d[n] EXCEPT !.open_count = k, !.is_hidden = b]
  OBVIOUS
<1>2. OpenedNow(x, d[n], k, b)
  BY <1>1, OpenEdit
<1>3. e = [d EXCEPT ![n] = x]
  BY <1>1
<1> QED BY <1>2, <1>3 DEF Opens, OpenedNow, SamePlace

LEMMA open_countedHost ==
  ASSUME Inv, HostInv, NEW t \in Threads, open_counted(t)
  PROVE  HostInv'
<1> DEFINE r == call[t]
           n == call[t].n
<1>1. /\ r.op = "open" /\ r.at = "count" /\ Goto(t, "reply") /\ host' = host
      /\ nd' = [nd EXCEPT ![n].open_count = @ + 1]
  BY DEF open_counted, At
<1>2. r \in CallType /\ Asked(r) /\ Phase(r) /\ nd \in [Nodes -> NodeType]
      /\ Wants(nd, host, r)
  BY <1>1, AtStep, TypeSplit DEF Inv, HostInv
<1>3. n \in Ids /\ n \in Nodes /\ r.n \in r.kref
  BY <1>1, <1>2 DEF Asked, InDir, Phase
<1>4. nd[n].file \notin Dirs /\ nd[n] \in NodeType
  BY <1>1, <1>2, <1>3 DEF Wants
<1>5. PICK k \in Nat, b \in BOOLEAN : k = nd[n].open_count + 1 /\ b = nd[n].is_hidden
  BY <1>4 DEF NodeType
<1>6. nd' = [nd EXCEPT ![n].open_count = k, ![n].is_hidden = b]
  BY <1>1, <1>2, <1>3, <1>4, <1>5 DEF NodeType
<1>7. Opens(nd, nd', n)
  BY <1>2, <1>3, <1>5, <1>6, OpensIs
<1>8. SameTree(nd, nd')
  BY <1>4, <1>7, IdsPlaces DEF Opens, SameTree
<1>9. "reply" \in StepNames \cap Calm
  BY DEF StepNames, Calm
<1>10. PICK q : Went(t, "reply", r.f, r.hid, q)
  BY <1>1, <1>2, <1>9, GotoIs
<1>11. Wants(nd, host, q) /\ q.at = "reply" /\ q.op = "open" /\ q.n = n
       /\ call' = [call EXCEPT ![t] = q]
  BY <1>1, <1>9, <1>10, WentWants
<1> QED BY <1>1, <1>3, <1>8, <1>11, CountHost

LEMMA fuse_do_releaseHost ==
  ASSUME Inv, HostInv, NEW t \in Threads, fuse_do_release(t)
  PROVE  HostInv'
<1> DEFINE r == call[t]
           n == call[t].n
           last == nd[n].open_count = 1 /\ nd[n].is_hidden
<1>1. /\ r.op \in {"open", "release"} /\ r.at = "rel" /\ host' = host
      /\ Goto(t, IF last /\ r.l THEN "hidunlink" ELSE "free")
      /\ nd' = [nd EXCEPT ![n].open_count = @ - 1, ![n].is_hidden = @ /\ ~last]
  BY DEF fuse_do_release, At
<1>2. r \in CallType /\ Asked(r) /\ Phase(r) /\ nd \in [Nodes -> NodeType]
  BY <1>1, AtStep, TypeSplit DEF Inv
<1>3. n \in Ids /\ n \in Nodes
  BY <1>1, <1>2 DEF Asked, InDir
<1>4. nd[n] \in NodeType
  BY <1>2, <1>3
<1>5. nd[n].open_count >= 1
  <2>1. /\ call \in [Threads -> CallType] /\ nd \in [Nodes -> NodeType] /\ knows \in [Ids -> Nat]
        /\ kopen \in [Ids -> Nat] /\ Counts(nd, call, knows, kopen)
    BY TypeSplit DEF Inv
  <2>2. nd[n].open_count >= kopen[n] + Opened(r, n)
    BY <2>1, <1>3, CountsAtLeast
  <2>3. Opened(r, n) = 1
    BY <1>1 DEF Opened, OpenAt
  <2>4. PICK A \in Nat : A = kopen[n]
    BY <2>1, <1>3
  <2>5. PICK B \in Nat : B = nd[n].open_count
    BY <1>4 DEF NodeType
  <2>6. B >= A + 1
    BY <2>2, <2>3, <2>4, <2>5
  <2> QED BY <2>5, <2>6
<1>6. PICK k \in Nat : k = nd[n].open_count - 1
  BY <1>4, <1>5 DEF NodeType
<1>7. PICK b \in BOOLEAN : b = (nd[n].is_hidden /\ ~last)
  OBVIOUS
<1>8. nd' = [nd EXCEPT ![n].open_count = k, ![n].is_hidden = b]
  BY <1>1, <1>6, <1>7
<1>9. Opens(nd, nd', n)
  BY <1>2, <1>3, <1>6, <1>7, <1>8, OpensIs
<1>10. SameTree(nd, nd')
  <2>1. nd[n].open_count > 0
    BY <1>4, <1>5 DEF NodeType
  <2> QED BY <2>1, <1>9, IdsPlaces DEF Opens, SameTree
<1>11. PICK a \in {"hidunlink", "free"} : a = IF last /\ r.l THEN "hidunlink" ELSE "free"
  OBVIOUS
<1>12. a \in StepNames /\ a \in Calm /\ Goto(t, a)
  BY <1>1, <1>11 DEF StepNames, Calm
<1>13. PICK q : Went(t, a, r.f, r.hid, q)
  BY <1>2, <1>12, GotoIs
<1>14. Wants(nd, host, q) /\ q.at = a /\ q.op = r.op /\ q.n = n
       /\ call' = [call EXCEPT ![t] = q]
  BY <1>1, <1>12, <1>13, WentWants
<1> QED BY <1>1, <1>3, <1>10, <1>11, <1>14, CountHost

---------------------------------------------------------------------------
(* Where directories are *)

\* A node that is at a place in the table has the place of a request that is about to
\* change it.
LEMMA PlaceIs ==
  ASSUME Inv, NEW a \in Ids, NEW b \in Ids, NEW p, NEW m, Child(nd, p, m, a), Child(nd, p, m, b),
         nd[a].name # NoName
  PROVE  a = b
BY HostIs DEF TreeInv, Child

\* A directory with a node is where the node is, or in the hands of a request that has
\* the directory it is in locked.
LEMMA DirPlace ==
  ASSUME Inv, HostInv, NEW b \in Nodes, nd[b].file \in Dirs, NEW g \in Dirs, NEW m \in AllNames,
         FileAt(host, g, m) = nd[b].file
  PROVE  /\ b \in Ids /\ nd[b].name # NoName
         /\ \/ nd[nd[b].parent].file = g /\ nd[b].name = m
            \/ \E u \in Threads : /\ call[u].at = "table" /\ call[u].op = "rename"
                                  /\ \/ nd[call[u].n].file = g /\ call[u].m = m
                                     \/ nd[call[u].n2].file = g /\ call[u].m2 = m
<1>1. DirsOnce(host) /\ FilesInv(nd) /\ Placed(nd, host, call) /\ Unplaced(nd, host)
  BY DEF HostInv
<1>2. b \in Ids
  <2>1. b # Root
    BY <1>1 DEF DirsOnce, FilesInv, Off
  <2> QED BY <2>1 DEF Nodes
<1>3. nd[b].name # NoName
  BY <1>1, <1>2 DEF Unplaced, Off
<1>4. nd[b].name \notin HiddenNames
  BY <1>1, <1>2 DEF FilesInv
<1>5. nd[b].name \in AllNames /\ nd[nd[b].parent].file \in Dirs
  BY <1>2, <1>3, NamedFile
<1>6. ASSUME NEW k \in Dirs, NEW l \in AllNames, FileAt(host, k, l) = nd[b].file
      PROVE  k = g /\ l = m
  BY <1>1, <1>6 DEF DirsOnce
<1>7. InPlace(nd, host, call, b)
  BY <1>1, <1>2, <1>3 DEF Placed
<1>8. CASE FileAt(host, nd[nd[b].parent].file, nd[b].name) = nd[b].file
  BY <1>2, <1>3, <1>5, <1>6, <1>8
<1>9. CASE \E u \in Threads : Placing(call[u], nd[b].parent, nd[b].name)
  <2>1. PICK u \in Threads : Placing(call[u], nd[b].parent, nd[b].name)
    BY <1>9
  <2> DEFINE r == call[u]
  <2>2. r.at \in {"table", "hidenode"} /\ Wants(nd, host, r)
    BY <2>1 DEF Placing, HostInv
  <2>3. Asked(r) /\ Phase(r)
    BY <2>2, AtStep
  <2>4. r.op \in {"unlink", "rmdir", "rename"} /\ (r.at = "hidenode" => r.op \in {"unlink", "rename"})
    BY <2>2, <2>3 DEF Asked, Phase, Steps
  <2>5. r.at # "hidenode"
    <3> SUFFICES ASSUME r.at = "hidenode" PROVE FALSE
      OBVIOUS
    <3>1. Child(nd, Victim(r).dir, Victim(r).name, b)
      BY <2>1 DEF Placing, Child
    <3>2. PICK c \in Ids : Child(nd, Victim(r).dir, Victim(r).name, c) /\ nd[c].file \notin Dirs
      BY <2>2 DEF Wants
    <3> QED BY <3>1, <3>2, <1>2, <1>3, PlaceIs
  <2>6. r.at = "table" /\ (Child(nd, r.n, r.m, b) \/ (Two(r) /\ Child(nd, r.n2, r.m2, b)))
    BY <2>1, <2>2, <2>5 DEF Placing, Child
  <2>7. ~Off(host, nd[b].file)
    BY DEF Off
  <2>8. r.op = "rename"
    BY <2>2, <2>4, <2>6, <2>7, <1>2 DEF Wants, Two
  <2>9. /\ r.m \in AllNames /\ r.m2 \in AllNames /\ nd[r.n].file \in Dirs /\ nd[r.n2].file \in Dirs
    BY <2>2, <2>3, <2>8, NamesAre DEF Asked, InDir, Two, Wants
  <2>10. \/ FileAt(host, nd[r.n2].file, r.m2) = nd[b].file
         \/ FileAt(host, nd[r.n].file, r.m) = nd[b].file
    <3>1. CASE Child(nd, r.n, r.m, b)
      BY <3>1, <2>2, <2>6, <2>8, <1>2 DEF Wants
    <3>2. CASE Child(nd, r.n2, r.m2, b)
      BY <3>2, <2>2, <2>6, <2>7, <2>8, <1>2 DEF Wants
    <3> QED BY <3>1, <3>2, <2>6
  <2> QED BY <2>6, <2>8, <2>9, <2>10, <1>2, <1>3, <1>6
<1> QED BY <1>4, <1>7, <1>8, <1>9 DEF InPlace

---------------------------------------------------------------------------
(* Nodes found *)

\* The file of a lookup has no node yet, if it is a directory and the name has none.
LEMMA FoundAlone ==
  ASSUME Inv, HostInv, NEW t \in Threads, call[t].op \in Finding, call[t].at = "find",
         call[t].f \in Dirs,
         \A c \in Ids : ~Child(nd, FoundDir(call[t]), FoundName(call[t]), c), NEW b \in Nodes
  PROVE  nd[b].file # call[t].f
<1> SUFFICES ASSUME nd[b].file = call[t].f PROVE FALSE
  OBVIOUS
<1>1. PICK p, m : p = FoundDir(call[t]) /\ m = FoundName(call[t])
  OBVIOUS
<1>2. p \in Nodes /\ p \in call[t].mx /\ m \in AllNames /\ Phase(call[t])
  BY <1>1, FoundPlace, AtStep, NamesAre
<1>3. FileAt(host, nd[p].file, m) = nd[b].file /\ nd[p].file \in Dirs
  BY <1>1 DEF HostInv, Wants, Finding, InDir, Two, FoundDir
<1>4. \A a, c \in Nodes : nd[a].file \in Dirs /\ nd[a].file = nd[c].file => a = c
  BY DEF HostInv, FilesInv
<1>5. /\ b \in Ids /\ nd[b].name # NoName
      /\ \/ nd[nd[b].parent].file = nd[p].file /\ nd[b].name = m
         \/ \E u \in Threads : /\ call[u].at = "table" /\ call[u].op = "rename"
                               /\ \/ nd[call[u].n].file = nd[p].file /\ call[u].m = m
                                  \/ nd[call[u].n2].file = nd[p].file /\ call[u].m2 = m
  BY <1>2, <1>3, DirPlace
<1>6. CASE nd[nd[b].parent].file = nd[p].file /\ nd[b].name = m
  <2>1. nd[b].parent \in Nodes
    BY <1>5, NamedFile
  <2>2. nd[b].parent = p
    BY <1>2, <1>3, <1>4, <1>6, <2>1
  <2> QED BY <1>1, <1>5, <1>6, <2>2 DEF Child
<1>7. CASE \E u \in Threads : /\ call[u].at = "table" /\ call[u].op = "rename"
                              /\ \/ nd[call[u].n].file = nd[p].file
                                 \/ nd[call[u].n2].file = nd[p].file
  <2>1. PICK u \in Threads : /\ call[u].at = "table" /\ call[u].op = "rename"
                             /\ \/ nd[call[u].n].file = nd[p].file
                                \/ nd[call[u].n2].file = nd[p].file
    BY <1>7
  <2>2. /\ call[u].n \in Nodes /\ call[u].n \in call[u].mx
        /\ call[u].n2 \in Nodes /\ call[u].n2 \in call[u].mx
    BY <2>1, AtStep DEF Asked, InDir, Two
  <2>3. p \in call[u].mx
    BY <1>2, <1>3, <1>4, <2>1, <2>2
  <2>4. u # t
    BY <2>1
  <2> QED BY <1>2, <2>3, <2>4 DEF Inv, KernelInv
<1> QED BY <1>5, <1>6, <1>7

LEMMA FoundHost ==
  ASSUME Inv, HostInv, NEW t \in Threads, call[t].op \in Finding, call[t].at = "find",
         NEW n \in Ids, nd[n].refctr = 0, NEW q, FindsNode(call[t], n, q),
         \A c \in Ids : ~Child(nd, FoundDir(call[t]), FoundName(call[t]), c),
         Found(nd, nd', n, FoundDir(call[t]), FoundName(call[t]), call[t].f),
         call' = [call EXCEPT ![t] = q], host' = host
  PROVE  HostInv'
<1>1. PICK r, p, m : r = call[t] /\ p = FoundDir(r) /\ m = FoundName(r)
  OBVIOUS
<1>2. /\ r \in CallType /\ Asked(r) /\ Phase(r) /\ TreeInv(nd) /\ Wants(nd, host, r)
      /\ FilesInv(nd) /\ Unplaced(nd, host) /\ DirsOnce(host) /\ NoFile \notin Files
      /\ Root \in Nodes /\ Dirs \subseteq Files
  BY <1>1, AtStep, HostIs DEF HostInv, Nodes
<1>3. p \in Nodes /\ p \in r.mx /\ m \in Names
  BY <1>1, FoundPlace
<1>4. r.f \in Files /\ FileAt(host, nd[p].file, m) = r.f /\ nd[p].file \in Dirs
  BY <1>1, <1>2 DEF Wants, Finding, InDir, Two, FoundDir, CallType
<1>5. nd[n] = FreeNode /\ n # p
  <2>1. nd[n] = FreeNode
    BY <1>2 DEF TreeInv
  <2> QED BY <1>2, <1>4, <2>1 DEF FreeNode
<1>6. /\ nd'[n].open_count = 0 /\ nd'[n].parent = p /\ nd'[n].name = m /\ nd'[n].file = r.f
      /\ \A u \in Nodes \ {n} : nd'[u].open_count = nd[u].open_count /\ nd'[u].file = nd[u].file
      /\ \A u \in Ids \ {n} : nd'[u].parent = nd[u].parent /\ nd'[u].name = nd[u].name
  BY <1>1 DEF Found, SamePlace
<1>7. /\ \A u \in Ids : u \in Nodes /\ nd[u].parent \in Nodes \cup {NoNode} /\ nd[u].parent # n
      /\ Root # n
  <2>1. \A u \in Ids : nd[u].parent # n
    BY <1>2, FreeNoChild
  <2> QED BY <1>2, <2>1, NodeIs, IdsPlaces
<1>8. OthersSame(t) /\ call'[t] = q /\ HostKept(t, host')
  BY OneSame, HostSame
<1>9. TableKept(t, nd')
  <2>1. knows[n] = 0
    <3>1. /\ call \in [Threads -> CallType] /\ nd \in [Nodes -> NodeType] /\ knows \in [Ids -> Nat]
          /\ kopen \in [Ids -> Nat] /\ Counts(nd, call, knows, kopen)
      BY TypeSplit DEF Inv
    <3>2. nd[n].nlookup >= knows[n] /\ knows[n] \in Nat
      BY <3>1, CountsAtLeast
    <3> QED BY <1>5, <3>2 DEF FreeNode
  <2>2. ASSUME NEW u \in Threads \ {t}
        PROVE  nd[n].parent \notin call[u].mx /\ nd'[n].parent \notin call[u].mx
    <3>1. call[u].mx \subseteq Nodes
      BY TypeSplit DEF Inv, CallType
    <3>2. nd[n].parent \notin call[u].mx
      BY <1>5, <3>1, NodesAssumption DEF FreeNode, Nodes
    <3>3. p \notin call[u].mx
      BY <1>1, <1>3 DEF Inv, KernelInv
    <3> QED BY <1>6, <3>2, <3>3
  <2>3. \A u \in Ids \ {n} : SamePlace(nd, nd', u) /\ nd'[u].file = nd[u].file
    BY <1>6, <1>7 DEF SamePlace
  <2>4. nd'[Root].file = nd[Root].file
    BY <1>2, <1>6, <1>7
  <2> QED BY <2>1, <2>2, <2>3, <2>4 DEF TableKept
<1>10. FilesInv(nd')
  <2>1. nd'[Root].file = RootFile
    BY <1>2, <1>6, <1>7 DEF FilesInv
  <2>2. \A i \in Ids : nd'[i].name # NoName => nd'[i].file \in Files
    BY <1>2, <1>4, <1>6, <1>7 DEF FilesInv
  <2>3. \A i \in Ids : nd'[i].parent # NoNode => nd'[nd'[i].parent].file \in Dirs
    BY <1>2, <1>3, <1>4, <1>5, <1>6, <1>7 DEF FilesInv
  <2>4. \A i \in Ids :
          nd'[i].open_count > 0 \/ nd'[i].name \in HiddenNames => nd'[i].file \notin Dirs
    BY <1>2, <1>3, <1>6, <1>7, NamesAre DEF FilesInv
  <2>5. ASSUME NEW a \in Nodes, NEW b \in Nodes, nd'[a].file \in Dirs, nd'[a].file = nd'[b].file
        PROVE  a = b
    <3>1. ASSUME NEW x \in Nodes \ {n}, r.f \in Dirs PROVE nd[x].file # r.f
      BY <1>1, <3>1, FoundAlone
    <3>2. CASE a # n /\ b # n
      BY <2>5, <3>2, <1>2, <1>6 DEF FilesInv
    <3>3. CASE a = n \/ b = n
      BY <2>5, <3>1, <3>3, <1>6
    <3> QED BY <3>2, <3>3
  <2> QED BY <2>1, <2>2, <2>3, <2>4, <2>5 DEF FilesInv
<1>11. Placed(nd', host', call')
  <2> SUFFICES ASSUME NEW c \in Ids, nd'[c].name # NoName PROVE InPlace(nd', host', call', c)
    BY DEF Placed
  <2>1. CASE c = n
    <3>1. FileAt(host, nd'[nd'[c].parent].file, nd'[c].name) = nd'[c].file
      BY <2>1, <1>3, <1>4, <1>5, <1>6
    <3> QED BY <3>1 DEF InPlace
  <2>2. CASE c # n
    <3>1. nd[c].name # NoName /\ SamePlace(nd, nd', c)
      BY <2>2, <1>6 DEF SamePlace
    <3>2. nd[c].parent \in Nodes \ {n}
      BY <1>7, <3>1, NamedFile
    <3>3. nd'[c].file = nd[c].file /\ nd'[nd[c].parent].file = nd[nd[c].parent].file
      BY <2>2, <3>2, <1>6, <1>7
    <3>4. ~Placing(call[t], nd[c].parent, nd[c].name)
      BY DEF Placing
    <3> QED BY <1>8, <3>1, <3>3, <3>4, StaysPlaced
  <2> QED BY <2>1, <2>2
<1>12. Unplaced(nd', host')
  <2>1. n \in Ids => nd'[n].name # NoName
    BY <1>3, <1>6, NamesAre
  <2> QED BY <2>1, <1>2, <1>6, <1>7 DEF Unplaced
<1>13. Wants(nd', host', q)
  <2>1. /\ q.at = "free" /\ q.op = r.op /\ q.n = r.n /\ q.n2 = r.n2 /\ q.op \in Finding
        /\ q.m = r.m /\ q.m2 = r.m2
    BY <1>1, <1>2, FindsIs
  <2>2. /\ r.n \in Nodes /\ (Two(r) => r.n2 \in Nodes)
        /\ r.op \in InDir => nd[r.n].file \in Dirs /\ r.n # n
        /\ Two(r) => nd[r.n2].file \in Dirs /\ r.n2 # n
    BY <1>2, <1>5 DEF Asked, Wants, FreeNode
  <2>3. /\ q.op \in InDir => nd'[q.n].file \in Dirs
        /\ Two(q) => nd'[q.n2].file \in Dirs
    BY <1>6, <2>1, <2>2 DEF Two
  <2> QED BY <2>1, <2>3 DEF Wants, Finding
<1>14. DirsOnce(host') /\ Wants(nd', host', call'[t])
  BY <1>2, <1>8, <1>13
<1> QED BY <1>8, <1>9, <1>10, <1>11, <1>12, <1>14, HostStep

LEMMA find_nodeHost == ASSUME Inv, HostInv, NEW t \in Threads, find_node(t) PROVE HostInv'
<1>1. PICK r, p, m, old :
        r = call[t] /\ p = FoundDir(r) /\ m = FoundName(r) /\ old = lookup_node(nd, p, m)
  OBVIOUS
<1>2. /\ r.op \in Finding /\ r.at = "find" /\ host' = host
      /\ \/ /\ old # NoNode /\ nd' = inc_nlookup(nd, old)
            /\ call' = [call EXCEPT ![t].at = "free", ![t].ino = old, ![t].f = NoFile]
         \/ /\ old = NoNode
            /\ \E n \in FreshIds(nd) :
                 /\ nd' = find_node_new(nd, p, m, n, r.f)
                 /\ call' = [call EXCEPT ![t].at = "free", ![t].ino = n, ![t].f = NoFile]
         \/ /\ old = NoNode /\ nd' = nd
            /\ call' = [call EXCEPT ![t].at = "free", ![t].ino = NoNode, ![t].f = NoFile]
  BY <1>1 DEF find_node, At, find_node_old
<1>3. r \in CallType /\ TreeInv(nd) /\ r.f \in Files \cup {NoFile} /\ Asked(r) /\ Phase(r)
      /\ Wants(nd, host, r)
  BY <1>1, <1>2, AtStep DEF CallType, HostInv
<1>4. p \in Nodes /\ Alive(nd, p) /\ m \in AllNames
  BY <1>1, <1>2, FoundPlace, NamesAre
<1>5. old \in Ids \cup {NoNode} /\ OnlyChild(nd, p, m, old)
  BY <1>1, <1>3, <1>4, LookupIs
<1>6. ASSUME NEW n \in Ids \cup {NoNode}, SameTree(nd, nd'),
             call' = [call EXCEPT ![t].at = "free", ![t].ino = n, ![t].f = NoFile]
      PROVE  HostInv'
  <2>1. PICK q : FindsNode(r, n, q)
    BY DEF FindsNode
  <2>2. call' = [call EXCEPT ![t] = q]
    BY <1>1, <1>6, <2>1 DEF FindsNode
  <2>3. /\ q.at = "free" /\ q.op = r.op /\ q.n = r.n /\ q.m = r.m /\ q.n2 = r.n2 /\ q.m2 = r.m2
        /\ q.kref = r.kref
    BY <1>3, <2>1, FindsIs
  <2>4. Wants(nd, host, q)
    BY <1>2, <1>3, <2>3, WantsOn DEF Carries, Calm
  <2>5. q.op \in {"lookup", "mknod", "link"} /\ q.n \in Nodes /\ (q.op = "link" => q.n2 \in Nodes)
    BY <1>2, <1>3, <2>3 DEF Asked, Two, Finding
  <2> QED BY <1>1, <1>2, <1>6, <2>2, <2>3, <2>4, <2>5, CountHost
<1>7. CASE /\ old # NoNode /\ nd' = inc_nlookup(nd, old)
           /\ call' = [call EXCEPT ![t].at = "free", ![t].ino = old, ![t].f = NoFile]
  <2>1. Looked(nd, nd', old, nd[old].file)
    BY <1>3, <1>5, <1>7, FindOldOk
  <2>2. SameTree(nd, nd')
    BY <2>1, IdsPlaces DEF Looked, SameTree, SamePlace
  <2> QED BY <1>5, <1>6, <1>7, <2>2
<1>8. CASE /\ old = NoNode
           /\ \E n \in FreshIds(nd) :
                /\ nd' = find_node_new(nd, p, m, n, r.f)
                /\ call' = [call EXCEPT ![t].at = "free", ![t].ino = n, ![t].f = NoFile]
  <2>1. PICK n \in FreshIds(nd) :
               /\ nd' = find_node_new(nd, p, m, n, r.f)
               /\ call' = [call EXCEPT ![t].at = "free", ![t].ino = n, ![t].f = NoFile]
    BY <1>8
  <2>2. n \in Ids /\ nd[n].refctr = 0
    BY <2>1, <1>3, NodeIs, IdsPlaces DEF FreshIds, Allocated
  <2>3. \A c \in Ids : ~(nd[c].parent = p /\ nd[c].name = m)
    BY <1>5, <1>8, IdsPlaces DEF OnlyChild
  <2>4. Found(nd, nd', n, p, m, r.f)
    BY <2>1, <2>2, <2>3, <1>3, <1>4, FindNewOk
  <2>5. PICK q : FindsNode(r, n, q)
    BY DEF FindsNode
  <2>6. call' = [call EXCEPT ![t] = q]
    BY <1>1, <2>1, <2>5 DEF FindsNode
  <2>7. \A c \in Ids : ~Child(nd, p, m, c)
    BY <2>3 DEF Child
  <2> QED BY <1>1, <1>2, <2>2, <2>4, <2>5, <2>6, <2>7, FoundHost
<1>9. CASE /\ old = NoNode /\ nd' = nd
           /\ call' = [call EXCEPT ![t].at = "free", ![t].ino = NoNode, ![t].f = NoFile]
  <2>1. SameTree(nd, nd')
    BY <1>9 DEF SameTree, SamePlace
  <2> QED BY <1>6, <1>9, <2>1
<1> QED BY <1>2, <1>7, <1>8, <1>9

---------------------------------------------------------------------------
(* Nodes forgotten *)

LEMMA ForgottenHost ==
  ASSUME Inv, HostInv, NEW t \in Threads, call[t].op = "forget", ~MustWait(call[t]),
         call[t].at \in {"forget", "fwait"},
         nd' = DropLookups(nd, call[t].n, call[t].k), call' = [call EXCEPT ![t] = NoCall],
         host' = host
  PROVE  HostInv'
<1>1. PICK n, k, F : Gone(n, k, F)
  BY ForgottenGone
<1>2. /\ TreeInv(nd) /\ FilesInv(nd) /\ Unplaced(nd, host) /\ DirsOnce(host)
      /\ NoFile \notin Files /\ Dirs \subseteq Files
  BY HostIs DEF HostInv
<1>3. /\ TreeInv(nd') /\ F \subseteq Ids /\ \A u \in F : nd'[u] = FreeNode
      /\ \A u \in Nodes \ F : /\ nd'[u].open_count = nd[u].open_count /\ nd'[u].file = nd[u].file
                              /\ nd'[u].parent = nd[u].parent /\ nd'[u].name = nd[u].name
  BY <1>1 DEF Gone, Dropped, SamePlace
<1>4. /\ FreeNode.parent = NoNode /\ FreeNode.name = NoName /\ FreeNode.file = NoFile
      /\ FreeNode.open_count = 0 /\ FreeNode.refctr = 0
  BY DEF FreeNode
<1>5. ASSUME NEW c \in Ids, nd'[c].name # NoName
      PROVE  /\ c \notin F /\ nd[c].name # NoName /\ SamePlace(nd, nd', c)
             /\ nd'[c].file = nd[c].file
             /\ nd[c].parent \in Nodes \ F /\ nd'[nd[c].parent].file = nd[nd[c].parent].file
  <2>1. c \notin F /\ c \in Nodes
    BY <1>3, <1>4, <1>5, IdsPlaces
  <2>2. nd[c].name # NoName /\ nd'[c].parent = nd[c].parent /\ SamePlace(nd, nd', c)
    BY <1>3, <1>5, <2>1 DEF SamePlace
  <2>3. nd[c].parent \in Nodes
    BY <2>2, NamedFile
  <2>4. nd[c].parent \notin F
    <3> SUFFICES ASSUME nd[c].parent \in F PROVE FALSE
      OBVIOUS
    <3>1. nd[c].parent \in Ids /\ nd'[nd[c].parent].refctr = 0
      BY <1>3, <1>4
    <3> QED BY <1>3, <2>2, <3>1, FreeNoChild
  <2> QED BY <1>3, <2>1, <2>2, <2>3, <2>4
<1>6. Root \in Nodes \ F /\ \A u \in Ids : u \in Nodes
  BY <1>3, IdsPlaces
<1>7. OthersSame(t) /\ call'[t] = NoCall /\ HostKept(t, host')
  <2>1. PICK q : q = NoCall
    OBVIOUS
  <2> QED BY <2>1, OneSame, HostSame
<1>8. TableKept(t, nd')
  <2>1. ASSUME NEW u \in F
        PROVE  knows[u] = 0 /\ Goes(nd', u)
    <3>1. u \in Ids /\ knows[u] = 0 /\ W1(call, u) = {} /\ W2(call, u) = {}
      BY <1>1, GoneFree
    <3> QED BY <1>3, <1>4, <3>1 DEF Goes
  <2>2. \A u \in Ids \ F : SamePlace(nd, nd', u) /\ nd'[u].file = nd[u].file
    BY <1>3, <1>6 DEF SamePlace
  <2> QED BY <1>3, <1>6, <2>1, <2>2 DEF TableKept
<1>9. FilesInv(nd')
  <2>1. nd'[Root].file = RootFile
    BY <1>2, <1>3, <1>6 DEF FilesInv
  <2>2. \A i \in Ids : nd'[i].name # NoName => nd'[i].file \in Files
    BY <1>2, <1>5 DEF FilesInv
  <2>3. ASSUME NEW i \in Ids, nd'[i].parent # NoNode PROVE nd'[nd'[i].parent].file \in Dirs
    <3>1. nd'[i].name # NoName
      BY <1>3, <2>3 DEF TreeInv
    <3>2. nd'[nd'[i].parent].file = nd[nd[i].parent].file /\ nd[i].name # NoName
      BY <1>5, <3>1 DEF SamePlace
    <3> QED BY <3>2, NamedFile
  <2>4. \A i \in Ids :
          nd'[i].open_count > 0 \/ nd'[i].name \in HiddenNames => nd'[i].file \notin Dirs
    <3>1. \A i \in F : nd'[i].file \notin Dirs
      BY <1>2, <1>3, <1>4
    <3> QED BY <3>1, <1>2, <1>3, <1>6 DEF FilesInv
  <2>5. ASSUME NEW a \in Nodes, NEW b \in Nodes, nd'[a].file \in Dirs, nd'[a].file = nd'[b].file
        PROVE  a = b
    <3>1. a \notin F /\ b \notin F
      BY <2>5, <1>2, <1>3, <1>4
    <3> QED BY <3>1, <2>5, <1>2, <1>3 DEF FilesInv
  <2> QED BY <2>1, <2>2, <2>3, <2>4, <2>5 DEF FilesInv
<1>10. Placed(nd', host', call')
  <2> SUFFICES ASSUME NEW c \in Ids, nd'[c].name # NoName PROVE InPlace(nd', host', call', c)
    BY DEF Placed
  <2>1. ~Placing(call[t], nd[c].parent, nd[c].name)
    BY DEF Placing
  <2> QED BY <1>5, <1>7, <2>1, StaysPlaced
<1>11. Unplaced(nd', host')
  <2> SUFFICES ASSUME NEW i \in Ids, nd'[i].name = NoName PROVE Off(host, nd'[i].file)
    BY DEF Unplaced
  <2>1. CASE i \in F
    BY <2>1, <1>2, <1>3, <1>4 DEF Off
  <2>2. CASE i \notin F
    BY <2>2, <1>2, <1>3, <1>6 DEF Unplaced
  <2> QED BY <2>1, <2>2
<1>12. DirsOnce(host') /\ Wants(nd', host', call'[t])
  <2>1. PICK e : e = nd'
    OBVIOUS
  <2>2. Wants(e, host, NoCall)
    BY NoCallWants
  <2> QED BY <1>2, <1>7, <2>1, <2>2
<1> QED BY <1>7, <1>8, <1>9, <1>10, <1>11, <1>12, HostStep

LEMMA forget_nodeHost == ASSUME Inv, HostInv, NEW t \in Threads, forget_node(t) PROVE HostInv'
<1>1. call[t].op = "forget" /\ call[t].at = "forget" /\ host' = host /\ call[t] \in CallType
  BY TypeSplit DEF forget_node, At, Inv
<1>2. CASE ~MustWait(call[t])
  <2>1. nd' = DropLookups(nd, call[t].n, call[t].k) /\ call' = [call EXCEPT ![t] = NoCall]
    BY <1>2 DEF forget_node
  <2> QED BY <1>1, <1>2, <2>1, ForgottenHost
<1>3. CASE MustWait(call[t])
  <2>1. PICK q : q = [call[t] EXCEPT !.at = "fwait"]
    OBVIOUS
  <2>2. call' = [call EXCEPT ![t] = q] /\ nd' = nd
    BY <1>3, <2>1 DEF forget_node, Goto
  <2>3. q.op = "forget" /\ q.at = "fwait"
    BY <1>1, <2>1, AtIs DEF StepNames
  <2> QED BY <1>1, <2>2, <2>3, ForgetHost
<1> QED BY <1>2, <1>3

LEMMA forget_node_wokenHost ==
  ASSUME Inv, HostInv, NEW t \in Threads, forget_node_woken(t)
  PROVE  HostInv'
<1>1. call[t].op = "forget" /\ call[t].at = "fwait" /\ host' = host /\ call[t] \in CallType
  BY TypeSplit DEF forget_node_woken, At, Inv
<1>2. CASE ~MustWait(call[t])
  <2>1. nd' = DropLookups(nd, call[t].n, call[t].k) /\ call' = [call EXCEPT ![t] = NoCall]
    BY <1>2 DEF forget_node_woken
  <2> QED BY <1>1, <1>2, <2>1, ForgottenHost
<1>3. CASE MustWait(call[t])
  <2>1. PICK q : q = [call[t] EXCEPT !.done = FALSE]
    OBVIOUS
  <2>2. call' = [call EXCEPT ![t] = q] /\ nd' = nd
    BY <1>3, <2>1 DEF forget_node_woken
  <2>3. q.op = "forget" /\ q.at = "fwait"
    BY <1>1, <2>1 DEF CallType
  <2> QED BY <1>1, <2>2, <2>3, ForgetHost
<1> QED BY <1>2, <1>3

---------------------------------------------------------------------------
(* Nodes moved and removed *)

\* The place a moved node has now is where the host has its file; without a name, its
\* directory is gone.
PlacedNow(d, e, hs, u) ==
  \/ e[u].name = NoName /\ e[u].parent = NoNode /\ Off(hs, d[u].file)
  \/ /\ e[u].parent \in Nodes /\ d[e[u].parent].file \in Dirs
     /\ FileAt(hs, d[e[u].parent].file, e[u].name) = d[u].file
     /\ e[u].name \in HiddenNames => d[u].file \notin Dirs

\* The files and the open files of the nodes are the same.
SameFiles(d, e) ==
  \A u \in Nodes : e[u].file = d[u].file /\ e[u].open_count = d[u].open_count

LEMMA MovesHost ==
  ASSUME Inv, HostInv, NEW t \in Threads, TreeInv(nd'), SameFiles(nd, nd'), NEW M,
         \A u \in Ids \ M : SamePlace(nd, nd', u),
         \A u \in M : /\ u \in Ids /\ nd[u].parent \in call[t].mx
                      /\ nd'[u].parent \in {NoNode} \cup call[t].mx
                      /\ PlacedNow(nd, nd', host, u),
         \A c \in Ids : Placing(call[t], nd[c].parent, nd[c].name) => c \in M,
         NEW q, call' = [call EXCEPT ![t] = q], host' = host, Wants(nd', host, q)
  PROVE  HostInv'
<1>1. /\ TreeInv(nd) /\ FilesInv(nd) /\ Placed(nd, host, call) /\ Unplaced(nd, host)
      /\ DirsOnce(host)
  BY HostIs DEF HostInv
<1>2. /\ \A n \in Nodes : nd'[n].file = nd[n].file /\ nd'[n].open_count = nd[n].open_count
      /\ Root \in Nodes /\ \A n \in Ids : n \in Nodes
  BY IdsPlaces DEF SameFiles
<1>3. OthersSame(t) /\ call'[t] = q
  BY OneSame
<1>4. /\ \A n \in Ids : nd[n].parent \in Nodes \cup {NoNode}
      /\ \A n \in Ids : nd[n].parent = NoNode <=> nd[n].name = NoName
      /\ NoNode \notin Nodes
  BY <1>1, NodeIs, IdsPlaces, NodesAssumption DEF TreeInv, Nodes
<1>5. \A u \in Threads : call[u].mx \subseteq Nodes
  BY TypeSplit DEF Inv, CallType
<1>6. \A u \in M : nd[u].name # NoName /\ nd[u].parent \in Nodes
  BY <1>4, <1>5
<1>7. TableKept(t, nd')
  <2>1. \A n \in Ids : nd'[n].file = nd[n].file
    BY <1>2
  <2>2. ASSUME NEW u \in Threads \ {t}, NEW c \in M
        PROVE  nd[c].parent \notin call[u].mx /\ nd'[c].parent \notin call[u].mx
    <3>1. call[t].mx \cap call[u].mx = {} /\ NoNode \notin call[u].mx
      BY <1>4, <1>5 DEF Inv, KernelInv
    <3> QED BY <3>1
  <2> QED BY <2>1, <2>2, <1>2 DEF TableKept
<1>8. HostKept(t, host') /\ DirsOnce(host')
  BY <1>1, HostSame
<1>9. FilesInv(nd')
  <2>1. nd'[Root].file = RootFile
    BY <1>1, <1>2 DEF FilesInv
  <2>2. ASSUME NEW n \in Ids, nd'[n].name # NoName PROVE nd'[n].file \in Files
    <3>1. nd[n].name # NoName
      BY <2>2, <1>6 DEF SamePlace
    <3> QED BY <3>1, <1>1, <1>2 DEF FilesInv
  <2>3. ASSUME NEW n \in Ids, nd'[n].parent # NoNode PROVE nd'[nd'[n].parent].file \in Dirs
    <3>1. CASE n \in M
      <4>1. nd'[n].parent \in Nodes /\ nd[nd'[n].parent].file \in Dirs
        BY <2>3, <3>1 DEF PlacedNow
      <4> QED BY <4>1, <1>2
    <3>2. CASE n \notin M
      <4>1. nd'[n].parent = nd[n].parent /\ nd[n].parent \in Nodes
        BY <2>3, <3>2, <1>4 DEF SamePlace
      <4> QED BY <2>3, <4>1, <1>1, <1>2 DEF FilesInv
    <3> QED BY <3>1, <3>2
  <2>4. ASSUME NEW n \in Ids, nd'[n].open_count > 0 \/ nd'[n].name \in HiddenNames
        PROVE  nd'[n].file \notin Dirs
    <3>1. CASE nd[n].open_count > 0 \/ nd[n].name \in HiddenNames
      BY <3>1, <1>1, <1>2 DEF FilesInv
    <3>2. CASE nd'[n].name \in HiddenNames /\ nd[n].name \notin HiddenNames
      <4>1. n \in M /\ nd'[n].name # NoName
        BY <3>2, NamesAre DEF SamePlace
      <4> QED BY <3>2, <4>1, <1>2 DEF PlacedNow
    <3> QED BY <2>4, <3>1, <3>2, <1>2
  <2>5. \A a, b \in Nodes : nd'[a].file \in Dirs /\ nd'[a].file = nd'[b].file => a = b
    BY <1>1, <1>2 DEF FilesInv
  <2> QED BY <2>1, <2>2, <2>3, <2>4, <2>5 DEF FilesInv
<1>10. Placed(nd', host', call')
  <2> SUFFICES ASSUME NEW c \in Ids, nd'[c].name # NoName PROVE InPlace(nd', host', call', c)
    BY DEF Placed
  <2>1. CASE c \in M
    <3>1. /\ nd'[c].parent \in Nodes
          /\ FileAt(host, nd[nd'[c].parent].file, nd'[c].name) = nd[c].file
      BY <2>1 DEF PlacedNow
    <3>2. FileAt(host', nd'[nd'[c].parent].file, nd'[c].name) = nd'[c].file
      BY <3>1, <1>2
    <3> QED BY <3>2 DEF InPlace
  <2>2. CASE c \notin M
    <3>1. SamePlace(nd, nd', c) /\ nd[c].name # NoName /\ nd[c].parent \in Nodes
      BY <2>2, <1>4 DEF SamePlace
    <3>2. nd'[c].file = nd[c].file /\ nd'[nd[c].parent].file = nd[nd[c].parent].file
      BY <3>1, <1>2
    <3>3. ~Placing(call[t], nd[c].parent, nd[c].name)
      BY <2>2
    <3> QED BY <3>1, <3>2, <3>3, <1>3, StaysPlaced
  <2> QED BY <2>1, <2>2
<1>11. Unplaced(nd', host')
  <2> SUFFICES ASSUME NEW n \in Ids, nd'[n].name = NoName PROVE Off(host', nd'[n].file)
    BY DEF Unplaced
  <2>1. CASE n \in M
    <3>1. Off(host, nd[n].file)
      <4>1. CASE nd'[n].parent \in Nodes /\ FileAt(host, nd[nd'[n].parent].file, nd'[n].name) = nd[n].file
                 /\ nd[nd'[n].parent].file \in Dirs
        <5>1. (nd'[n].parent = NoNode <=> nd'[n].name = NoName)
          BY DEF TreeInv
        <5> QED BY <4>1, <5>1, <1>4
      <4> QED BY <2>1, <4>1 DEF PlacedNow
    <3> QED BY <3>1, <1>2
  <2>2. CASE n \notin M
    BY <2>2, <1>1, <1>2 DEF Unplaced, SamePlace
  <2> QED BY <2>1, <2>2
<1>12. Wants(nd', host', call'[t])
  BY <1>3
<1> QED BY <1>3, <1>7, <1>8, <1>9, <1>10, <1>11, <1>12, HostStep

\* A request that removes or moves, after its step on the table.
LEMMA TableWants ==
  ASSUME Inv, HostInv, NEW t \in Threads, call[t].op \in {"unlink", "rmdir", "rename"},
         call[t].at # "idle", NEW q, Onward(q, call[t]), NEW e, SameFiles(nd, e), NEW hs,
         \/ q.at = "free"
         \/ q.at = "rm" /\ (q.op = "rename" => \E c \in Ids : Child(e, q.n, q.m, c))
  PROVE  Wants(e, hs, q)
<1>1. q.op = call[t].op /\ q.n = call[t].n /\ q.m = call[t].m /\ q.n2 = call[t].n2
      /\ q.m2 = call[t].m2
  BY DEF Onward
<1>2. Asked(call[t]) /\ Wants(nd, host, call[t])
  BY AtStep DEF HostInv
<1>3. /\ q.n \in Nodes /\ (Two(q) => q.n2 \in Nodes)
      /\ (q.op \in InDir => nd[q.n].file \in Dirs) /\ (Two(q) => nd[q.n2].file \in Dirs)
      /\ q.op = "rename" => q.n # q.n2 \/ q.m # q.m2
  BY <1>1, <1>2 DEF Asked, Wants, Two
<1>4. /\ q.op \in InDir => e[q.n].file \in Dirs
      /\ Two(q) => e[q.n2].file \in Dirs
  BY <1>3 DEF SameFiles
<1> QED BY <1>1, <1>3, <1>4 DEF Wants

LEMMA remove_node_requestHost ==
  ASSUME Inv, HostInv, NEW t \in Threads, remove_node_request(t)
  PROVE  HostInv'
<1>1. PICK r, c : r = call[t] /\ c = lookup_node(nd, r.n, r.m)
  OBVIOUS
<1>2. /\ r.op \in {"unlink", "rmdir"} /\ r.at = "table" /\ Goto(t, "free")
      /\ nd' = remove_node(nd, r.n, r.m) /\ host' = host
  BY <1>1 DEF remove_node_request, At
<1>3. /\ r \in CallType /\ Asked(r) /\ Phase(r) /\ Locks(nd, r) /\ TreeInv(nd)
      /\ Wants(nd, host, r)
  BY <1>1, <1>2, AtStep DEF HostInv
<1>4. r.n \in Nodes /\ Alive(nd, r.n) /\ r.m \in Names /\ r.n \in r.mx /\ ~Two(r)
  BY <1>2, <1>3 DEF Asked, InDir, Locks, Ready, Phase, Two
<1>5. /\ c \in Ids \cup {NoNode} /\ OnlyChild(nd, r.n, r.m, c)
      /\ c # NoNode => c \in Ids /\ nd[c].parent = r.n /\ nd[c].name = r.m
  BY <1>1, <1>3, <1>4, LookupIs
<1>6. Removed(nd, nd', r.n, r.m, c)
  BY <1>1, <1>2, <1>3, <1>4, RemoveOk
<1>7. PICK M : M = {c} \cap Ids
  OBVIOUS
<1>8. /\ TreeInv(nd') /\ SameFiles(nd, nd') /\ \A u \in Ids \ M : SamePlace(nd, nd', u)
  BY <1>6, <1>7 DEF Removed, Moved, Edit, SameFiles
<1>9. ASSUME NEW u \in M
      PROVE  /\ u \in Ids /\ nd[u].parent \in r.mx /\ nd'[u].parent \in {NoNode} \cup r.mx
             /\ PlacedNow(nd, nd', host, u)
  <2>1. u = c /\ c \in Ids /\ c # NoNode
    BY <1>7, IdsPlaces
  <2>2. nd'[c].parent = NoNode /\ nd'[c].name = NoName
    BY <2>1, <1>6 DEF Removed
  <2>3. Off(host, nd[c].file)
    BY <2>1, <1>2, <1>3, <1>5 DEF Wants, Child
  <2> QED BY <2>1, <2>2, <2>3, <1>4, <1>5 DEF PlacedNow
<1>10. ASSUME NEW x \in Ids, Placing(r, nd[x].parent, nd[x].name) PROVE x \in M
  BY <1>2, <1>4, <1>5, <1>7, <1>10 DEF Placing, OnlyChild
<1>11. PICK q : Went(t, "free", r.f, r.hid, q)
  BY <1>1, <1>2, <1>3, GotoIs DEF StepNames
<1>12. Onward(q, r) /\ q.at = "free" /\ call' = [call EXCEPT ![t] = q]
  BY <1>1, <1>11 DEF Went
<1>13. Wants(nd', host, q)
  BY <1>1, <1>2, <1>8, <1>12, TableWants
<1> QED BY <1>1, <1>2, <1>8, <1>9, <1>10, <1>12, <1>13, MovesHost

LEMMA hide_node_tableHost ==
  ASSUME Inv, HostInv, NEW t \in Threads, hide_node_table(t)
  PROVE  HostInv'
<1>1. PICK r, p, m, h, s : /\ r = call[t] /\ p = Victim(r).dir /\ m = Victim(r).name
                           /\ h = r.hid /\ s = lookup_node(nd, p, m)
  OBVIOUS
<1>2. PICK a : a = IF r.op = "unlink" \/ NameTaken(nd, p, m, h) THEN "free" ELSE "rm"
  OBVIOUS
<1>3. /\ r.op \in {"unlink", "rename"} /\ r.at = "hidenode" /\ host' = host
      /\ call' = [call EXCEPT ![t].at = a, ![t].hid = NoName]
  BY <1>1, <1>2 DEF hide_node_table, At
<1>4. /\ r \in CallType /\ Asked(r) /\ Phase(r) /\ Locks(nd, r) /\ TreeInv(nd)
      /\ Wants(nd, host, r) /\ a \in StepNames
  BY <1>1, <1>2, <1>3, AtStep DEF HostInv, StepNames
<1>5. Hides(t, s)
  BY <1>1, HideMoves
<1>6. PICK c \in Ids : /\ Child(nd, p, m, c) /\ nd[c].file \notin Dirs
                       /\ FileAt(host, nd[p].file, h) = nd[c].file
  BY <1>1, <1>3, <1>4 DEF Wants
<1>7. p \in Nodes /\ p \in r.mx /\ h \in HiddenNames
  BY <1>1, <1>5 DEF Hides
<1>8. OnlyChild(nd, p, m, s)
  BY <1>1, <1>4, <1>7, LookupIs
<1>9. c = s /\ s # NoNode /\ s \in Ids
  BY <1>6, <1>8, IdsPlaces DEF OnlyChild, Child
<1>10. HidePlace(nd, nd', s, p, h)
  BY <1>1, <1>5, <1>9 DEF Hides
<1>12. /\ TreeInv(nd') /\ \A u \in Ids \ {s} : SamePlace(nd, nd', u)
       /\ SameFiles(nd, nd') /\ nd'[s].parent = p /\ nd'[s].name = h
  BY <1>10 DEF HidePlace, SameFiles
<1>13. (p = r.n /\ m = r.m) \/ (r.op = "rename" /\ p = r.n2 /\ m = r.m2)
  BY <1>1, <1>3 DEF Victim
<1>14. nd[p].file \in Dirs
  BY <1>3, <1>4, <1>13 DEF Wants, InDir, Two
<1>15. PICK M : M = {s}
  OBVIOUS
<1>16. ASSUME NEW u \in M
       PROVE  /\ u \in Ids /\ nd[u].parent \in r.mx /\ nd'[u].parent \in {NoNode} \cup r.mx
              /\ PlacedNow(nd, nd', host, u)
  BY <1>6, <1>7, <1>9, <1>12, <1>14, <1>15 DEF Child, PlacedNow
<1>17. ASSUME NEW x \in Ids, Placing(r, nd[x].parent, nd[x].name) PROVE x \in M
  <2>1. nd[x].parent = p /\ nd[x].name = m
    BY <1>1, <1>3, <1>17 DEF Placing
  <2> QED BY <2>1, <1>8, <1>15 DEF OnlyChild
<1>18. PICK q : q = [r EXCEPT !.at = a, !.hid = NoName]
  OBVIOUS
<1>19. Onward(q, r) /\ q.at = a
  <2>1. /\ r.f \in Files \cup {NoFile} /\ NoName \in HiddenNames \cup {NoName}
    BY <1>4 DEF CallType
  <2>2. Edited(r, a, r.f, NoName, q)
    BY <1>4, <1>18 DEF Edited, CallType
  <2>3. GoesTo(r, a, NoName, q)
    BY <2>1, <2>2, <1>4, StepIs
  <2> QED BY <2>3 DEF GoesTo
<1>20. call' = [call EXCEPT ![t] = q]
  BY <1>1, <1>3, <1>18
<1>21. q.at = "rm" /\ q.op = "rename" => \E x \in Ids : Child(nd', q.n, q.m, x)
  <2> SUFFICES ASSUME q.at = "rm", q.op = "rename" PROVE \E x \in Ids : Child(nd', q.n, q.m, x)
    OBVIOUS
  <2>1. r.op = "rename" /\ q.n = r.n /\ q.m = r.m
    BY <1>19 DEF Onward
  <2>2. PICK x \in Ids : Child(nd, r.n, r.m, x)
    BY <2>1, <1>3, <1>4 DEF Wants
  <2>3. (r.n # r.n2 \/ r.m # r.m2) /\ p = r.n2 /\ m = r.m2
    BY <2>1, <1>1, <1>4 DEF Wants, Victim
  <2>4. x # s
    BY <2>2, <2>3, <1>6, <1>9 DEF Child
  <2>5. SamePlace(nd, nd', x)
    BY <2>4, <1>12
  <2> QED BY <2>1, <2>2, <2>5 DEF SamePlace, Child
<1>22. Wants(nd', host, q)
  BY <1>1, <1>2, <1>3, <1>12, <1>19, <1>21, TableWants DEF Onward
<1> QED BY <1>1, <1>3, <1>12, <1>15, <1>16, <1>17, <1>20, <1>22, MovesHost

LEMMA rename_node_requestHost ==
  ASSUME Inv, HostInv, NEW t \in Threads, rename_node_request(t)
  PROVE  HostInv'
<1>1. PICK r, s, v : /\ r = call[t] /\ s = lookup_node(nd, r.n, r.m)
                     /\ v = lookup_node(nd, r.n2, r.m2)
  OBVIOUS
<1>2. r.op = "rename" /\ r.at = "table" /\ Goto(t, "free") /\ host' = host
  BY <1>1 DEF rename_node_request, At
<1>3. /\ r \in CallType /\ Asked(r) /\ Phase(r) /\ TreeInv(nd) /\ Wants(nd, host, r) /\ Two(r)
  BY <1>1, <1>2, AtStep DEF HostInv, Two
<1>4. /\ r.n \in Nodes /\ r.m \in Names /\ r.n \in r.mx
      /\ r.n2 \in Nodes /\ r.m2 \in Names /\ r.n2 \in r.mx
      /\ nd[r.n].file \in Dirs /\ nd[r.n2].file \in Dirs
  BY <1>2, <1>3 DEF Asked, InDir, Two, Wants
<1>5. /\ OnlyChild(nd, r.n, r.m, s) /\ (s # NoNode => s \in Ids /\ Child(nd, r.n, r.m, s))
      /\ OnlyChild(nd, r.n2, r.m2, v) /\ (v # NoNode => v \in Ids /\ Child(nd, r.n2, r.m2, v))
  BY <1>1, <1>3, <1>4, LookupIs DEF Child
<1>6. s # NoNode /\ s \in Ids /\ Child(nd, r.n, r.m, s)
  <2>1. PICK c \in Ids : Child(nd, r.n, r.m, c)
    BY <1>2, <1>3 DEF Wants
  <2>2. c = s
    BY <2>1, <1>5 DEF OnlyChild, Child
  <2> QED BY <2>1, <2>2, IdsPlaces
<1>7. RenamesTo(t, s, v)
  BY <1>1, RenameMoves
<1>8. s # v /\ (v # NoNode => v \in Ids)
  BY <1>6, <1>7 DEF RenamesTo
<1>9. /\ Moved(nd, nd', {s, v}) /\ nd'[s].parent = r.n2 /\ nd'[s].name = r.m2
      /\ r.fl = "exchange" /\ v # NoNode => nd'[v].parent = r.n /\ nd'[v].name = r.m
      /\ r.fl # "exchange" /\ v # NoNode => nd'[v].parent = NoNode /\ nd'[v].name = NoName
  <2>1. CASE r.fl = "exchange"
    BY <2>1, <1>1, <1>6, <1>7 DEF RenamesTo, Exchanged
  <2>2. CASE r.fl # "exchange"
    BY <2>2, <1>1, <1>6, <1>7 DEF RenamesTo, Renamed
  <2> QED BY <2>1, <2>2
<1>10. PICK M : M = {s, v} \cap Ids
  OBVIOUS
<1>11. TreeInv(nd') /\ SameFiles(nd, nd') /\ \A u \in Ids \ M : SamePlace(nd, nd', u)
  BY <1>9, <1>10 DEF Moved, Edit, SameFiles
<1>12. FileAt(host, nd[r.n2].file, r.m2) = nd[s].file
  BY <1>2, <1>3, <1>6 DEF Wants
<1>13. v # NoNode => IF r.fl = "exchange" THEN FileAt(host, nd[r.n].file, r.m) = nd[v].file
                     ELSE Off(host, nd[v].file)
  BY <1>2, <1>3, <1>5 DEF Wants
<1>14. ASSUME NEW u \in M
       PROVE  /\ u \in Ids /\ nd[u].parent \in r.mx /\ nd'[u].parent \in {NoNode} \cup r.mx
              /\ PlacedNow(nd, nd', host, u)
  <2>1. CASE u = s
    BY <2>1, <1>4, <1>6, <1>9, <1>12, NamesAre DEF Child, PlacedNow
  <2>2. CASE u = v
    <3>1. v # NoNode /\ v \in Ids
      BY <2>2, <1>8, <1>10, IdsPlaces
    <3>2. CASE r.fl = "exchange"
      BY <2>2, <3>1, <3>2, <1>4, <1>5, <1>9, <1>13, NamesAre DEF Child, PlacedNow
    <3>3. CASE r.fl # "exchange"
      BY <2>2, <3>1, <3>3, <1>4, <1>5, <1>9, <1>13 DEF Child, PlacedNow
    <3> QED BY <3>2, <3>3
  <2> QED BY <2>1, <2>2, <1>10
<1>15. ASSUME NEW x \in Ids, Placing(r, nd[x].parent, nd[x].name) PROVE x \in M
  <2>1. x = s \/ x = v
    BY <1>2, <1>5, <1>15 DEF Placing, OnlyChild
  <2> QED BY <2>1, <1>10
<1>16. PICK q : Went(t, "free", r.f, r.hid, q)
  BY <1>1, <1>2, <1>3, GotoIs DEF StepNames
<1>17. Onward(q, r) /\ q.at = "free" /\ call' = [call EXCEPT ![t] = q]
  BY <1>1, <1>16 DEF Went
<1>18. Wants(nd', host, q)
  BY <1>1, <1>2, <1>11, <1>17, TableWants
<1> QED BY <1>1, <1>2, <1>11, <1>14, <1>15, <1>17, <1>18, MovesHost

---------------------------------------------------------------------------
(* Entries of the host's directories *)

\* The node at a name that a request has locked is where the host has its file.
LEMMA ChildFile ==
  ASSUME Inv, HostInv, NEW t \in Threads, call[t].at \notin {"table", "hidenode"},
         NEW p \in call[t].mx, NEW m \in Names, NEW c \in Ids, Child(nd, p, m, c)
  PROVE  /\ FileAt(host, nd[p].file, m) = nd[c].file
         /\ nd[c].file # NoFile /\ nd[c].name # NoName
<1>1. nd[c].parent = p /\ nd[c].name = m /\ m # NoName /\ m \notin HiddenNames
  BY NamesAre DEF Child
<1>2. nd[c].file # NoFile
  BY <1>1, NamedFile
<1>3. InPlace(nd, host, call, c)
  BY <1>1 DEF HostInv, Placed
<1>4. ASSUME NEW u \in Threads, Placing(call[u], nd[c].parent, nd[c].name) PROVE FALSE
  <2>1. u # t
    BY <1>4 DEF Placing
  <2>2. p \in call[u].mx
    BY <1>1, <1>4, PlacingIs
  <2> QED BY <2>1, <2>2 DEF Inv, KernelInv
<1> QED BY <1>1, <1>2, <1>3, <1>4 DEF InPlace

\* The entries of the request are in a directory it has locked, or hidden ones of a node.
Owns(t, p, m) ==
  /\ p \in Nodes /\ m \in AllNames /\ nd[p].file \in Dirs
  /\ p \in call[t].mx \/ (m \in HiddenNames /\ \E c \in Ids : Child(nd, p, m, c))

\* Two entries change at most, and directories only come from elsewhere or are new.
Rewritten(hs, p, m, p2, m2) ==
  \A f \in Dirs, k \in AllNames :
    /\ \/ f = nd[p].file /\ k = m
       \/ f = nd[p2].file /\ k = m2
       \/ FileAt(hs, f, k) = FileAt(host, f, k)
    /\ FileAt(hs, f, k) \in Dirs =>
         \/ \E g \in Dirs, l \in AllNames : FileAt(host, g, l) = FileAt(hs, f, k)
         \/ \A n \in Ids : nd[n].file # FileAt(hs, f, k)

LEMMA EntriesHost ==
  ASSUME Inv, HostInv, NEW t \in Threads, call[t].at \notin {"table", "hidenode"},
         NEW p, NEW m, NEW p2, NEW m2, Owns(t, p, m), Owns(t, p2, m2),
         Rewritten(host', p, m, p2, m2), DirsOnce(host'), nd' = nd,
         NEW q, call' = [call EXCEPT ![t] = q], Wants(nd, host', q),
         \A c \in Ids : Child(nd, p, m, c) \/ Child(nd, p2, m2, c) => InPlace(nd, host', call', c)
  PROVE  HostInv'
<1>1. FilesInv(nd) /\ Unplaced(nd, host) /\ Placed(nd, host, call)
  BY DEF HostInv
<1>2. OthersSame(t) /\ call'[t] = q
  BY OneSame
<1>3. \A a, b \in Nodes : nd[a].file \in Dirs /\ nd[a].file = nd[b].file => a = b
  BY <1>1 DEF FilesInv
<1>4. TableKept(t, nd')
  BY DEF TableKept, SamePlace
<1>5. PICK hs : hs = host'
  OBVIOUS
<1>6. ASSUME NEW n \in Ids, Off(host, nd[n].file) PROVE Off(hs, nd[n].file)
  <2> SUFFICES ASSUME nd[n].file \in Dirs, NEW g \in Dirs, NEW l \in AllNames,
                      FileAt(hs, g, l) = nd[n].file
               PROVE  FALSE
    BY DEF Off
  <2> QED BY <1>5, <1>6 DEF Rewritten, Off
<1>7. HostKept(t, hs)
  <2>1. ASSUME NEW u \in Threads \ {t}, NEW x \in call[u].mx, NEW k \in AllNames,
               nd[x].file \in Dirs, k \in Names \/ \A c \in Ids : ~Child(nd, x, k, c)
        PROVE  FileAt(hs, nd[x].file, k) = FileAt(host, nd[x].file, k)
    <3>1. x \in Nodes /\ x \notin call[t].mx
      BY TypeSplit DEF Inv, CallType, KernelInv
    <3>2. ASSUME NEW y, Owns(t, y, k), nd[x].file = nd[y].file PROVE FALSE
      <4>1. x = y
        BY <3>1, <3>2, <1>3, <2>1 DEF Owns
      <4> QED BY <3>1, <3>2, <4>1, <2>1, NamesAre DEF Owns
    <3>3. ~(nd[x].file = nd[p].file /\ k = m) /\ ~(nd[x].file = nd[p2].file /\ k = m2)
      BY <3>2
    <3> QED BY <3>3, <2>1, <1>5 DEF Rewritten
  <2> QED BY <2>1, <1>6 DEF HostKept
<1>8. Placed(nd, hs, call')
  <2> SUFFICES ASSUME NEW c \in Ids, nd[c].name # NoName PROVE InPlace(nd, hs, call', c)
    BY DEF Placed
  <2>1. nd[c].parent \in Nodes /\ nd[nd[c].parent].file \in Dirs /\ nd[c].name \in AllNames
    BY NamedFile
  <2>2. CASE nd[nd[c].parent].file = nd[p].file /\ nd[c].name = m
    <3>1. nd[c].parent = p
      BY <2>1, <2>2, <1>3 DEF Owns
    <3> QED BY <2>2, <3>1, <1>5 DEF Child
  <2>3. CASE nd[nd[c].parent].file = nd[p2].file /\ nd[c].name = m2
    <3>1. nd[c].parent = p2
      BY <2>1, <2>3, <1>3 DEF Owns
    <3> QED BY <2>3, <3>1, <1>5 DEF Child
  <2>4. CASE FileAt(hs, nd[nd[c].parent].file, nd[c].name)
               = FileAt(host, nd[nd[c].parent].file, nd[c].name)
    <3>1. ~Placing(call[t], nd[c].parent, nd[c].name)
      BY DEF Placing
    <3>2. SamePlace(nd, nd, c)
      BY DEF SamePlace
    <3> QED BY <2>4, <3>1, <3>2, <1>2, StaysPlaced
  <2> QED BY <2>1, <2>2, <2>3, <2>4, <1>5 DEF Rewritten
<1>9. Unplaced(nd, hs)
  BY <1>1, <1>6 DEF Unplaced
<1>10. /\ HostKept(t, host') /\ FilesInv(nd') /\ Placed(nd', host', call')
       /\ Unplaced(nd', host') /\ Wants(nd', host', call'[t])
  BY <1>1, <1>2, <1>5, <1>7, <1>8, <1>9
<1> QED BY <1>2, <1>4, <1>10, HostStep

\* One entry written.
Written(hs, f, m, x) ==
  \A g \in Dirs, k \in AllNames :
    FileAt(hs, g, k) = IF g = f /\ k = m THEN x ELSE FileAt(host, g, k)

LEMMA PutIs ==
  ASSUME Inv, NEW p, NEW f, NEW m, EntryAt(p, f, m), NEW x, NEW hs, hs = [host EXCEPT ![Entry(p)] = x]
  PROVE  Written(hs, f, m, x)
<1>1. host \in [Dirs \X AllNames -> Files \cup {NoFile}]
  BY HostIs DEF HostType
<1>2. hs = [host EXCEPT ![<<f, m>>] = x] /\ f \in Dirs /\ m \in AllNames
  BY DEF EntryAt
<1> SUFFICES ASSUME NEW g \in Dirs, NEW k \in AllNames
             PROVE  FileAt(hs, g, k) = IF g = f /\ k = m THEN x ELSE FileAt(host, g, k)
  BY DEF Written
<1>3. PICK e : e = <<g, k>>
  OBVIOUS
<1>4. e \in Dirs \X AllNames /\ (e = <<f, m>> <=> g = f /\ k = m)
  BY <1>3
<1>5. hs[e] = IF e = <<f, m>> THEN x ELSE host[e]
  BY <1>1, <1>2, <1>4
<1> QED BY <1>3, <1>4, <1>5 DEF FileAt

LEMMA WriteHost ==
  ASSUME Inv, HostInv, NEW t \in Threads, call[t].at \notin {"table", "hidenode"},
         NEW p, NEW m, Owns(t, p, m), NEW x, Written(host', nd[p].file, m, x),
         x \in Dirs => /\ x # RootFile /\ \A n \in Ids : nd[n].file # x
                       /\ \A g \in Dirs, k \in AllNames : FileAt(host, g, k) # x,
         nd' = nd, NEW q, call' = [call EXCEPT ![t] = q], Wants(nd, host', q),
         \A c \in Ids : Child(nd, p, m, c) => InPlace(nd, host', call', c)
  PROVE  HostInv'
<1>1. PICK hs : hs = host'
  OBVIOUS
<1>2. Written(hs, nd[p].file, m, x) /\ DirsOnce(host)
  BY <1>1 DEF HostInv
<1>3. Rewritten(hs, p, m, p, m)
  BY <1>2 DEF Rewritten, Written
<1>4. DirsOnce(hs)
  <2>1. Off(hs, RootFile)
    BY <1>2 DEF Off, DirsOnce, Written
  <2>2. ASSUME NEW g \in Dirs, NEW k \in Dirs, NEW a \in AllNames, NEW b \in AllNames,
               FileAt(hs, g, a) \in Dirs, FileAt(hs, g, a) = FileAt(hs, k, b)
        PROVE  g = k /\ a = b
    <3>1. /\ FileAt(hs, g, a) = IF g = nd[p].file /\ a = m THEN x ELSE FileAt(host, g, a)
          /\ FileAt(hs, k, b) = IF k = nd[p].file /\ b = m THEN x ELSE FileAt(host, k, b)
      BY <1>2 DEF Written
    <3>2. FileAt(host, g, a) \in Dirs /\ FileAt(host, g, a) = FileAt(host, k, b) => g = k /\ a = b
      BY <1>2 DEF DirsOnce
    <3> QED BY <2>2, <3>1, <3>2
  <2> QED BY <2>1, <2>2 DEF DirsOnce
<1>5. Rewritten(host', p, m, p, m) /\ DirsOnce(host')
  BY <1>1, <1>3, <1>4
<1> QED BY <1>5, EntriesHost

\* A handler has made an entry, of a new file or of one that is no directory.
LEMMA MadeHost ==
  ASSUME Inv, HostInv, NEW t \in Threads, call[t].at = "fs", call[t].op \in {"mknod", "link"},
         NEW x, host' = [host EXCEPT ![Entry(FoundPath(call[t]))] = x],
         Resolve(FoundPath(call[t])) = NoFile, x \notin Dirs \/ x \in Unused,
         Goto(t, "stat"), nd' = nd
  PROVE  HostInv'
<1>1. PICK r, p, m, f : /\ r = call[t] /\ p = FoundDir(r) /\ m = FoundName(r)
                        /\ f = nd[p].file
  OBVIOUS
<1>2. /\ r \in CallType /\ Asked(r) /\ Phase(r) /\ Wants(nd, host, r) /\ r.op \in Finding
      /\ Ready(r)
  BY <1>1, AtStep DEF HostInv, Phase, Finding
<1>3. /\ EntryAt(FoundPath(r), f, m) /\ p \in r.mx /\ p \in Nodes /\ m \in Names /\ f \in Dirs
  BY <1>1, <1>2, FoundEntry
<1>4. FileAt(host, f, m) = NoFile
  BY <1>1, <1>3 DEF EntryAt
<1>5. \A c \in Ids : ~Child(nd, p, m, c)
  BY <1>1, <1>3, <1>4, ChildFile
<1>6. PICK hs : hs = host'
  OBVIOUS
<1>7. Written(hs, f, m, x)
  BY <1>1, <1>3, <1>6, PutIs
<1>8. x \in Dirs => /\ x # RootFile /\ \A n \in Ids : nd[n].file # x
                    /\ \A g \in Dirs, k \in AllNames : FileAt(host, g, k) # x
  <2> SUFFICES ASSUME x \in Dirs
               PROVE  /\ x # RootFile /\ \A n \in Ids : nd[n].file # x
                      /\ \A g \in Dirs, k \in AllNames : FileAt(host, g, k) # x
    OBVIOUS
  <2>1. /\ x # RootFile /\ (\A n \in Ids : nd[n].file # x) /\ \A e \in DOMAIN host : host[e] # x
    BY DEF Unused
  <2>2. DOMAIN host = Dirs \X AllNames
    BY HostIs DEF HostType
  <2>3. ASSUME NEW g \in Dirs, NEW k \in AllNames PROVE FileAt(host, g, k) # x
    <3>1. <<g, k>> \in DOMAIN host
      BY <2>2
    <3> QED BY <2>1, <3>1 DEF FileAt
  <2> QED BY <2>1, <2>3
<1>9. PICK q : q = [r EXCEPT !.at = "stat"]
  OBVIOUS
<1>10. /\ call' = [call EXCEPT ![t] = q] /\ q.at = "stat" /\ q.op = r.op /\ q.n = r.n
       /\ q.m = r.m /\ q.n2 = r.n2 /\ q.m2 = r.m2 /\ q.kref = r.kref
  BY <1>1, <1>2, <1>9 DEF Goto, CallType
<1>11. Wants(nd, host, q)
  BY <1>1, <1>2, <1>10, WantsOn DEF Carries, Calm
<1>12. Wants(nd, host', q)
  BY <1>1, <1>10, <1>11 DEF Wants
<1>13. Owns(t, p, m)
  BY <1>1, <1>3, NamesAre DEF Owns
<1> QED BY <1>1, <1>5, <1>6, <1>7, <1>8, <1>10, <1>12, <1>13, WriteHost

LEMMA fs_createHost == ASSUME Inv, HostInv, NEW t \in Threads, fs_create(t) PROVE HostInv'
<1>1. PICK x \in Unused : host' = [host EXCEPT ![Entry(call[t].p)] = x]
  BY DEF fs_create, Put
<1>2. /\ call[t].at = "fs" /\ call[t].op = "mknod" /\ Resolve(call[t].p) = NoFile
      /\ Goto(t, "stat") /\ nd' = nd /\ FoundPath(call[t]) = call[t].p
  BY DEF fs_create, At, table, FoundPath
<1>3. host' = [host EXCEPT ![Entry(FoundPath(call[t]))] = x]
  BY <1>1, <1>2
<1> QED BY <1>2, <1>3, MadeHost

LEMMA fs_linkHost == ASSUME Inv, HostInv, NEW t \in Threads, fs_link(t) PROVE HostInv'
<1>1. PICK x : x = Resolve(call[t].p)
  OBVIOUS
<1>2. /\ call[t].at = "fs" /\ call[t].op = "link" /\ Resolve(call[t].p2) = NoFile
      /\ Goto(t, "stat") /\ nd' = nd /\ x \notin Dirs /\ FoundPath(call[t]) = call[t].p2
  BY <1>1 DEF fs_link, At, table, FoundPath
<1>3. host' = [host EXCEPT ![Entry(FoundPath(call[t]))] = x]
  BY <1>1, <1>2 DEF fs_link, Put
<1> QED BY <1>2, <1>3, MadeHost

\* A handler has removed the entry of the request's name.
LEMMA UnmadeHost ==
  ASSUME Inv, HostInv, NEW t \in Threads, call[t].op \in {"unlink", "rmdir"},
         call[t].at \in {"fs", "rm"}, host' = [host EXCEPT ![Entry(call[t].p)] = NoFile],
         Goto(t, "table"), nd' = nd
  PROVE  HostInv'
<1>1. PICK r, p, m, f : r = call[t] /\ p = r.n /\ m = r.m /\ f = nd[p].file
  OBVIOUS
<1>2. /\ r \in CallType /\ Asked(r) /\ Phase(r) /\ Wants(nd, host, r) /\ r.l /\ ~Two(r)
  BY <1>1, AtStep DEF HostInv, Phase, Ready, Two
<1>3. /\ EntryAt(r.p, f, m) /\ p \in r.mx /\ p \in Nodes /\ m \in Names /\ f \in Dirs
  BY <1>1, <1>2, FirstEntry DEF InDir
<1>4. PICK hs : hs = host'
  OBVIOUS
<1>5. Written(hs, f, m, NoFile) /\ NoFile \notin Dirs /\ DirsOnce(host)
  BY <1>1, <1>3, <1>4, PutIs, HostIs DEF HostInv
<1>6. PICK q : q = [r EXCEPT !.at = "table"]
  OBVIOUS
<1>7. /\ call' = [call EXCEPT ![t] = q] /\ q.at = "table" /\ q.op = r.op /\ q.n = r.n
      /\ q.m = r.m /\ q.n2 = r.n2 /\ q.m2 = r.m2 /\ q.kref = r.kref
  BY <1>1, <1>2, <1>6 DEF Goto, CallType
<1>8. ASSUME NEW c \in Ids, Child(nd, p, m, c) PROVE Off(hs, nd[c].file)
  <2>1. FileAt(host, f, m) = nd[c].file
    BY <1>1, <1>3, <1>8, ChildFile
  <2> SUFFICES ASSUME nd[c].file \in Dirs, NEW g \in Dirs, NEW k \in AllNames,
                      FileAt(hs, g, k) = nd[c].file
               PROVE  FALSE
    BY DEF Off
  <2>2. FileAt(host, g, k) = nd[c].file /\ ~(g = f /\ k = m)
    BY <1>5 DEF Written
  <2> QED BY <2>1, <2>2, <1>3, <1>5, NamesAre DEF DirsOnce
<1>9. ASSUME NEW c \in Ids, Child(nd, p, m, c) PROVE InPlace(nd, hs, call', c)
  <2>1. call'[t] = q
    BY <1>7, OneSame
  <2>2. Placing(call'[t], nd[c].parent, nd[c].name)
    BY <2>1, <1>1, <1>7, <1>9 DEF Placing, Child
  <2> QED BY <2>2 DEF InPlace
<1>10. Wants(nd, hs, q)
  <2>1. q.op \in InDir /\ nd[q.n].file \in Dirs /\ ~Two(q)
    BY <1>1, <1>3, <1>7 DEF InDir, Two
  <2>2. \A c \in Ids : Child(nd, q.n, q.m, c) => Off(hs, nd[c].file)
    BY <1>1, <1>7, <1>8
  <2> QED BY <2>1, <2>2, <1>1, <1>7 DEF Wants
<1>11. Owns(t, p, m)
  BY <1>1, <1>3, NamesAre DEF Owns
<1> QED BY <1>1, <1>4, <1>5, <1>7, <1>9, <1>10, <1>11, WriteHost

LEMMA fs_rmdirHost == ASSUME Inv, HostInv, NEW t \in Threads, fs_rmdir(t) PROVE HostInv'
BY UnmadeHost DEF fs_rmdir, At, Put, table

LEMMA fs_unlinkHost == ASSUME Inv, HostInv, NEW t \in Threads, fs_unlink(t) PROVE HostInv'
BY UnmadeHost DEF fs_unlink, At, Put, table

LEMMA unlink_hiddenHost ==
  ASSUME Inv, HostInv, NEW t \in Threads, unlink_hidden(t)
  PROVE  HostInv'
<1>1. PICK r, c : r = call[t] /\ c = r.n
  OBVIOUS
<1>2. /\ r.op \in {"open", "release"} /\ r.at = "hidunlink" /\ Goto(t, "free") /\ nd' = nd
      /\ \/ host' = [host EXCEPT ![Entry(r.p)] = NoFile]
         \/ host' = host
  BY <1>1 DEF unlink_hidden, At, table, Put
<1>3. CASE host' = host
  BY <1>1, <1>2, <1>3, GotoHost DEF Calm
<1>4. CASE host' = [host EXCEPT ![Entry(r.p)] = NoFile]
  <2>1. /\ r \in CallType /\ Asked(r) /\ Phase(r) /\ Locks(nd, r) /\ Wants(nd, host, r)
        /\ TreeInv(nd)
    BY <1>1, <1>2, AtStep DEF HostInv
  <2>2. /\ r.l /\ c \in Ids /\ r.p = PathOf(nd, c) /\ nd[c].name \in HiddenNames
    BY <1>1, <1>2, <2>1 DEF Phase, Locks, Asked, InDir, PathFor
  <2>3. Reads(t, c)
    BY <1>1, <2>2 DEF Reads
  <2>4. PICK p, m, f : p = nd[c].parent /\ m = nd[c].name /\ f = nd[p].file
    OBVIOUS
  <2>5. EntryAt(r.p, f, m)
    BY <2>2, <2>3, <2>4, NodeEntry
  <2>6. Child(nd, p, m, c) /\ p \in Nodes /\ f \in Dirs /\ nd[c].name # NoName
    BY <2>2, <2>4, NamedFile, NamesAre DEF Child
  <2>7. Owns(t, p, m)
    BY <2>2, <2>4, <2>6, NamesAre DEF Owns
  <2>8. PICK hs : hs = host'
    OBVIOUS
  <2>9. Written(hs, f, m, NoFile) /\ NoFile \notin Dirs
    BY <1>4, <2>5, <2>8, PutIs, HostIs
  <2>10. ASSUME NEW x \in Ids, Child(nd, p, m, x) PROVE InPlace(nd, hs, call', x)
    <3>1. FileAt(hs, f, m) = NoFile
      BY <2>4, <2>5, <2>9 DEF Written, EntryAt
    <3> QED BY <3>1, <2>2, <2>4, <2>10 DEF InPlace, Child
  <2>11. PICK q : q = [r EXCEPT !.at = "free"]
    OBVIOUS
  <2>12. /\ call' = [call EXCEPT ![t] = q] /\ q.at = "free" /\ q.op = r.op /\ q.n = r.n
         /\ q.m = r.m /\ q.n2 = r.n2 /\ q.m2 = r.m2 /\ q.kref = r.kref
    BY <1>1, <1>2, <2>1, <2>11 DEF Goto, CallType
  <2>13. Wants(nd, host, q)
    BY <1>1, <1>2, <2>1, <2>12, WantsOn DEF Carries, Calm
  <2>14. Wants(nd, hs, q)
    BY <2>12, <2>13, <1>2 DEF Wants
  <2> QED BY <1>1, <1>2, <2>4, <2>7, <2>8, <2>9, <2>10, <2>12, <2>14, WriteHost
<1> QED BY <1>2, <1>3, <1>4

\* An entry moved, or two exchanged: the second gets the first one's file.
Swapped(hs, f, m, x, f2, m2, x2) ==
  \A g \in Dirs, k \in AllNames :
    FileAt(hs, g, k) = IF g = f2 /\ k = m2 THEN x2
                       ELSE IF g = f /\ k = m THEN x ELSE FileAt(host, g, k)

LEMMA SwapIs ==
  ASSUME Inv, NEW a, NEW f, NEW m, EntryAt(a, f, m), NEW x,
         NEW b, NEW f2, NEW m2, EntryAt(b, f2, m2), NEW x2,
         NEW hs, hs = [host EXCEPT ![Entry(a)] = x, ![Entry(b)] = x2]
  PROVE  Swapped(hs, f, m, x, f2, m2, x2)
<1>1. host \in [Dirs \X AllNames -> Files \cup {NoFile}]
  BY HostIs DEF HostType
<1>2. PICK u, v : u = Entry(a) /\ v = Entry(b)
  OBVIOUS
<1>3. u = <<f, m>> /\ v = <<f2, m2>>
  BY <1>2 DEF EntryAt
<1>4. hs = [host EXCEPT ![u] = x, ![v] = x2]
  BY <1>2
<1> SUFFICES ASSUME NEW g \in Dirs, NEW k \in AllNames
             PROVE  FileAt(hs, g, k) = IF g = f2 /\ k = m2 THEN x2
                                       ELSE IF g = f /\ k = m THEN x ELSE FileAt(host, g, k)
  BY DEF Swapped
<1>5. PICK e : e = <<g, k>>
  OBVIOUS
<1>6. e \in Dirs \X AllNames /\ (e = u <=> g = f /\ k = m) /\ (e = v <=> g = f2 /\ k = m2)
  BY <1>3, <1>5
<1>7. hs[e] = IF e = v THEN x2 ELSE IF e = u THEN x ELSE host[e]
  BY <1>1, <1>4, <1>6
<1> QED BY <1>5, <1>6, <1>7 DEF FileAt

LEMMA SwapHost ==
  ASSUME Inv, HostInv, NEW t \in Threads, call[t].at \notin {"table", "hidenode"},
         NEW p, NEW m, Owns(t, p, m), NEW p2, NEW m2, Owns(t, p2, m2), p # p2 \/ m # m2,
         NEW x, NEW x2, Swapped(host', nd[p].file, m, x, nd[p2].file, m2, x2),
         x2 = FileAt(host, nd[p].file, m), x = NoFile \/ x = FileAt(host, nd[p2].file, m2),
         nd' = nd, NEW q, call' = [call EXCEPT ![t] = q], Wants(nd, host', q),
         \A c \in Ids : Child(nd, p, m, c) \/ Child(nd, p2, m2, c) => InPlace(nd, host', call', c)
  PROVE  HostInv'
<1>1. PICK hs, f, f2 : hs = host' /\ f = nd[p].file /\ f2 = nd[p2].file
  OBVIOUS
<1>2. /\ f \in Dirs /\ f2 \in Dirs /\ m \in AllNames /\ m2 \in AllNames /\ (f # f2 \/ m # m2)
      /\ DirsOnce(host) /\ NoFile \notin Dirs
  <2>1. \A a, b \in Nodes : nd[a].file \in Dirs /\ nd[a].file = nd[b].file => a = b
    BY DEF HostInv, FilesInv
  <2>2. f = f2 => p = p2
    BY <2>1, <1>1 DEF Owns
  <2> QED BY <2>2, <1>1, HostIs DEF Owns, HostInv
<1>3. Swapped(hs, f, m, x, f2, m2, x2)
  BY <1>1
<1>4. Rewritten(hs, p, m, p2, m2)
  <2> SUFFICES ASSUME NEW g \in Dirs, NEW k \in AllNames
               PROVE  /\ \/ g = f /\ k = m
                         \/ g = f2 /\ k = m2
                         \/ FileAt(hs, g, k) = FileAt(host, g, k)
                      /\ FileAt(hs, g, k) \in Dirs =>
                           \E h \in Dirs, l \in AllNames : FileAt(host, h, l) = FileAt(hs, g, k)
    BY <1>1 DEF Rewritten
  <2>1. FileAt(hs, g, k) = IF g = f2 /\ k = m2 THEN x2
                           ELSE IF g = f /\ k = m THEN x ELSE FileAt(host, g, k)
    BY <1>3 DEF Swapped
  <2> QED BY <2>1, <1>1, <1>2
<1>5. DirsOnce(hs)
  <2>1. Off(hs, RootFile)
    BY <1>1, <1>2, <1>3 DEF Off, DirsOnce, Swapped
  <2>2. ASSUME NEW g \in Dirs, NEW h \in Dirs, NEW a \in AllNames, NEW b \in AllNames,
               FileAt(hs, g, a) \in Dirs, FileAt(hs, g, a) = FileAt(hs, h, b)
        PROVE  g = h /\ a = b
    <3>1. ASSUME NEW i \in Dirs, NEW k \in AllNames, FileAt(hs, i, k) \in Dirs
          PROVE  \E j \in Dirs, l \in AllNames :
                   /\ FileAt(host, j, l) = FileAt(hs, i, k)
                   /\ IF i = f2 /\ k = m2 THEN j = f /\ l = m
                      ELSE IF i = f /\ k = m THEN j = f2 /\ l = m2 ELSE j = i /\ l = k
      <4>1. FileAt(hs, i, k) = IF i = f2 /\ k = m2 THEN x2
                               ELSE IF i = f /\ k = m THEN x ELSE FileAt(host, i, k)
        BY <1>3 DEF Swapped
      <4> QED BY <3>1, <4>1, <1>1, <1>2
    <3>2. PICK i \in Dirs, k \in AllNames :
            /\ FileAt(host, i, k) = FileAt(hs, g, a)
            /\ IF g = f2 /\ a = m2 THEN i = f /\ k = m
               ELSE IF g = f /\ a = m THEN i = f2 /\ k = m2 ELSE i = g /\ k = a
      BY <2>2, <3>1
    <3>3. PICK j \in Dirs, l \in AllNames :
            /\ FileAt(host, j, l) = FileAt(hs, h, b)
            /\ IF h = f2 /\ b = m2 THEN j = f /\ l = m
               ELSE IF h = f /\ b = m THEN j = f2 /\ l = m2 ELSE j = h /\ l = b
      BY <2>2, <3>1
    <3>4. i = j /\ k = l
      BY <2>2, <3>2, <3>3, <1>2 DEF DirsOnce
    <3> QED BY <3>2, <3>3, <3>4, <1>2
  <2> QED BY <2>1, <2>2 DEF DirsOnce
<1>6. Rewritten(host', p, m, p2, m2) /\ DirsOnce(host')
  BY <1>1, <1>4, <1>5
<1> QED BY <1>6, EntriesHost

\* The node that is hidden.
LEMMA hide_node_fsHost ==
  ASSUME Inv, HostInv, NEW t \in Threads, hide_node_fs(t)
  PROVE  HostInv'
<1>1. PICK r, v, p, m, h, f :
        /\ r = call[t] /\ v = Victim(r) /\ p = v.dir /\ m = v.name /\ h = r.hid /\ f = nd[p].file
  OBVIOUS
<1>2. PICK a, b : a = v.path /\ b = HidPath(p, h)
  OBVIOUS
<1>3. /\ r.op \in {"unlink", "rename"} /\ r.at = "hidefs" /\ Goto(t, "hidenode") /\ nd' = nd
      /\ host' = IF Resolve(a) = Resolve(b) THEN host
                 ELSE [host EXCEPT ![Entry(a)] = NoFile, ![Entry(b)] = Resolve(a)]
  BY <1>1, <1>2 DEF hide_node_fs, At, table, fs_rename
<1>4. /\ r \in CallType /\ Asked(r) /\ Phase(r) /\ Locks(nd, r) /\ Wants(nd, host, r) /\ Ready(r)
  BY <1>1, <1>3, AtStep DEF HostInv, Phase
<1>5. /\ EntryAt(a, f, m) /\ p \in r.mx /\ p \in Nodes /\ m \in Names /\ f \in Dirs
      /\ Reads(t, p)
  BY <1>1, <1>2, <1>3, <1>4, VictimEntry
<1>6. h \in HiddenNames /\ \A c \in Ids : ~Child(nd, p, h, c)
  BY <1>1, <1>3, <1>4 DEF Phase, Locks, Child
<1>7. EntryAt(b, f, h)
  BY <1>1, <1>2, <1>5, <1>6, HidEntry
<1>8. PICK c \in Ids : Child(nd, p, m, c) /\ nd[c].file \notin Dirs
  BY <1>1, <1>3, <1>4 DEF Wants
<1>9. FileAt(host, f, m) = nd[c].file /\ Resolve(a) = nd[c].file
  BY <1>1, <1>3, <1>5, <1>8, ChildFile DEF EntryAt
<1>10. PICK q : q = [r EXCEPT !.at = "hidenode"]
  OBVIOUS
<1>11. /\ call' = [call EXCEPT ![t] = q] /\ q.at = "hidenode" /\ q.op = r.op /\ q.n = r.n
       /\ q.m = r.m /\ q.n2 = r.n2 /\ q.m2 = r.m2 /\ q.kref = r.kref /\ q.hid = h
       /\ Victim(q).dir = p /\ Victim(q).name = m
  BY <1>1, <1>3, <1>4, <1>10 DEF Goto, CallType, Victim
<1>12. ASSUME NEW hs, hs = host', FileAt(hs, f, h) = nd[c].file PROVE Wants(nd, hs, q)
  <2>1. /\ q.op \in InDir => nd[q.n].file \in Dirs
        /\ Two(q) => nd[q.n2].file \in Dirs
        /\ q.op = "rename" => q.n # q.n2 \/ q.m # q.m2
        /\ q.op = "rename" => \E x \in Ids : Child(nd, q.n, q.m, x)
    BY <1>3, <1>4, <1>11 DEF Wants, Two
  <2>2. \E x \in Ids : /\ Child(nd, Victim(q).dir, Victim(q).name, x) /\ nd[x].file \notin Dirs
                       /\ FileAt(hs, nd[Victim(q).dir].file, q.hid) = nd[x].file
    BY <1>1, <1>8, <1>11, <1>12
  <2> QED BY <2>1, <2>2, <1>3, <1>11 DEF Wants
<1>13. CASE Resolve(a) = Resolve(b)
  <2>1. FileAt(host, f, h) = nd[c].file /\ host' = host
    BY <1>3, <1>7, <1>9, <1>13 DEF EntryAt
  <2>2. Wants(nd, host, q)
    BY <2>1, <1>12
  <2>3. OthersSame(t) /\ call'[t] = q
    BY <1>11, OneSame
  <2>4. call[t].at \notin {"table", "hidenode"}
    BY <1>1, <1>3
  <2> QED BY <2>1, <2>2, <2>3, <2>4, <1>3, QuietHost
<1>14. CASE Resolve(a) # Resolve(b)
  <2>1. PICK hs : hs = host'
    OBVIOUS
  <2>2. hs = [host EXCEPT ![Entry(a)] = NoFile, ![Entry(b)] = nd[c].file]
    BY <2>1, <1>3, <1>9, <1>14
  <2>3. Swapped(hs, f, m, NoFile, f, h, nd[c].file)
    BY <2>2, <1>5, <1>7, SwapIs
  <2>4. FileAt(hs, f, h) = nd[c].file
    BY <2>3, <1>5, <1>6, NamesAre DEF Swapped
  <2>5. Wants(nd, hs, q)
    BY <2>1, <2>4, <1>12
  <2>6. ASSUME NEW x \in Ids, Child(nd, p, m, x) \/ Child(nd, p, h, x)
        PROVE  InPlace(nd, hs, call', x)
    <3>1. call'[t] = q
      BY <1>11, OneSame
    <3>2. Placing(call'[t], nd[x].parent, nd[x].name)
      BY <2>6, <3>1, <1>6, <1>11 DEF Placing, Child
    <3> QED BY <3>2 DEF InPlace
  <2>7. Owns(t, p, m) /\ Owns(t, p, h)
    BY <1>1, <1>5, <1>6, NamesAre DEF Owns
  <2>8. m # h
    BY <1>5, <1>6, NamesAre
  <2>9. call[t].at \notin {"table", "hidenode"}
    BY <1>1, <1>3
  <2>10. /\ Swapped(host', nd[p].file, m, NoFile, nd[p].file, h, nd[c].file)
         /\ nd[c].file = FileAt(host, nd[p].file, m) /\ Wants(nd, host', q)
         /\ \A x \in Ids : Child(nd, p, m, x) \/ Child(nd, p, h, x) => InPlace(nd, host', call', x)
    BY <2>1, <2>3, <2>5, <2>6, <1>1, <1>9
  <2> QED BY <2>7, <2>8, <2>9, <2>10, <1>3, <1>11, SwapHost
<1> QED BY <1>13, <1>14

\* A request that has renamed on the host.
Renames(r, q) ==
  /\ q.at = "table" /\ q.op = "rename" /\ q.n = r.n /\ q.m = r.m /\ q.n2 = r.n2 /\ q.m2 = r.m2
  /\ q.fl = r.fl

LEMMA RenameWants ==
  ASSUME NEW r, NEW q, Renames(r, q), Wants(nd, host, r), r.op = "rename", r.at = "rm", NEW hs,
         \A c \in Ids :
           /\ Child(nd, r.n, r.m, c) => FileAt(hs, nd[r.n2].file, r.m2) = nd[c].file
           /\ Child(nd, r.n2, r.m2, c) =>
                IF r.fl = "exchange" THEN FileAt(hs, nd[r.n].file, r.m) = nd[c].file
                ELSE Off(hs, nd[c].file)
  PROVE  Wants(nd, hs, q)
<1>1. /\ q.op \in InDir => nd[q.n].file \in Dirs
      /\ Two(q) => nd[q.n2].file \in Dirs
      /\ q.n # q.n2 \/ q.m # q.m2
      /\ \E c \in Ids : Child(nd, q.n, q.m, c)
  BY DEF Wants, Renames, Two
<1>2. \A c \in Ids :
        /\ Child(nd, q.n, q.m, c) => FileAt(hs, nd[q.n2].file, q.m2) = nd[c].file
        /\ Child(nd, q.n2, q.m2, c) =>
             IF q.fl = "exchange" THEN FileAt(hs, nd[q.n].file, q.m) = nd[c].file
             ELSE Off(hs, nd[c].file)
  BY DEF Renames
<1>3. q.at = "table" /\ q.op = "rename"
  BY DEF Renames
<1> QED BY <1>1, <1>2, <1>3 DEF Wants

LEMMA fs_rename_requestHost ==
  ASSUME FlagsHonoured, Inv, HostInv, NEW t \in Threads, fs_rename_request(t)
  PROVE  HostInv'
<1>1. PICK r, p, m, f, p2, m2, f2 :
        /\ r = call[t] /\ p = r.n /\ m = r.m /\ f = nd[p].file
        /\ p2 = r.n2 /\ m2 = r.m2 /\ f2 = nd[p2].file
  OBVIOUS
<1>2. PICK a, b : a = r.p /\ b = r.p2
  OBVIOUS
<1>0. r.fl \in {"none", "exchange"} /\ (r.fl = "exchange" => HonoursFlags)
  <2>1. r.op = "rename" /\ Asked(r)
    BY <1>1, AtStep DEF fs_rename_request, At
  <2> QED BY <2>1, RequestsAssumption DEF Asked, FlagsHonoured
<1>3. /\ r.op = "rename" /\ r.at = "rm" /\ Goto(t, "table") /\ nd' = nd
      /\ \/ /\ r.fl = "none"
            /\ host' = IF Resolve(a) = Resolve(b) THEN host
                       ELSE [host EXCEPT ![Entry(a)] = NoFile, ![Entry(b)] = Resolve(a)]
         \/ /\ r.fl = "exchange"
            /\ host' = [host EXCEPT ![Entry(a)] = Resolve(b), ![Entry(b)] = Resolve(a)]
  BY <1>0, <1>1, <1>2 DEF fs_rename_request, At, table, fs_rename
<1>4. /\ r \in CallType /\ Asked(r) /\ Phase(r) /\ Wants(nd, host, r) /\ r.l /\ r.l2
  BY <1>1, <1>3, AtStep DEF HostInv, Phase, Ready, Two
<1>5. /\ EntryAt(a, f, m) /\ p \in r.mx /\ p \in Nodes /\ m \in Names /\ f \in Dirs
  BY <1>1, <1>2, <1>3, <1>4, FirstEntry DEF InDir
<1>6. /\ EntryAt(b, f2, m2) /\ p2 \in r.mx /\ p2 \in Nodes /\ m2 \in Names /\ f2 \in Dirs
  BY <1>1, <1>2, <1>3, <1>4, SecondEntry
<1>7. p # p2 \/ m # m2
  BY <1>1, <1>3, <1>4 DEF Wants
<1>8. f # f2 \/ m # m2
  BY <1>1, <1>5, <1>6, <1>7 DEF HostInv, FilesInv
<1>9. PICK fa, fb : fa = Resolve(a) /\ fb = Resolve(b)
  OBVIOUS
<1>10. fa = FileAt(host, f, m) /\ fb = FileAt(host, f2, m2)
  BY <1>5, <1>6, <1>9 DEF EntryAt
<1>11. ASSUME NEW c \in Ids, Child(nd, p, m, c) PROVE nd[c].file = fa
  BY <1>1, <1>3, <1>5, <1>10, <1>11, ChildFile
<1>12. ASSUME NEW c \in Ids, Child(nd, p2, m2, c) PROVE nd[c].file = fb
  BY <1>1, <1>3, <1>6, <1>10, <1>12, ChildFile
<1>13. PICK q : q = [r EXCEPT !.at = "table"]
  OBVIOUS
<1>14. call' = [call EXCEPT ![t] = q] /\ Renames(r, q)
  BY <1>1, <1>3, <1>4, <1>13 DEF Goto, CallType, Renames
<1>15. OthersSame(t) /\ call'[t] = q /\ call[t].at \notin {"table", "hidenode"}
  BY <1>1, <1>3, <1>14, OneSame
<1>16. DirsOnce(host) /\ m \in AllNames /\ m2 \in AllNames
  BY <1>5, <1>6, NamesAre DEF HostInv
<1>17. ASSUME NEW hs,
              \A c \in Ids :
                /\ Child(nd, p, m, c) => FileAt(hs, f2, m2) = nd[c].file
                /\ Child(nd, p2, m2, c) => IF r.fl = "exchange" THEN FileAt(hs, f, m) = nd[c].file
                                           ELSE Off(hs, nd[c].file)
       PROVE  Wants(nd, hs, q)
  BY <1>1, <1>3, <1>4, <1>14, <1>17, RenameWants
<1>18. CASE r.fl = "none" /\ fa = fb
  <2>1. host' = host
    BY <1>3, <1>9, <1>18
  <2>2. ASSUME NEW c \in Ids, Child(nd, p2, m2, c) PROVE Off(host, nd[c].file)
    <3>1. nd[c].file = fb
      BY <2>2, <1>12
    <3>2. fb \notin Dirs
      BY <1>5, <1>6, <1>8, <1>10, <1>16, <1>18 DEF DirsOnce
    <3> QED BY <3>1, <3>2 DEF Off
  <2>3. Wants(nd, host, q)
    BY <2>2, <1>10, <1>11, <1>17, <1>18
  <2> QED BY <2>1, <2>3, <1>3, <1>15, QuietHost
<1>19. ASSUME NEW x, NEW hs, hs = host', x = NoFile \/ x = fb,
              hs = [host EXCEPT ![Entry(a)] = x, ![Entry(b)] = fa],
              IF r.fl = "exchange" THEN x = fb ELSE x = NoFile /\ fa # fb
       PROVE  HostInv'
  <2>1. Swapped(hs, f, m, x, f2, m2, fa)
    BY <1>5, <1>6, <1>19, SwapIs
  <2>2. FileAt(hs, f2, m2) = fa /\ FileAt(hs, f, m) = x
    BY <2>1, <1>5, <1>6, <1>8, <1>16 DEF Swapped
  <2>3. ASSUME r.fl # "exchange", NEW c \in Ids, Child(nd, p2, m2, c) PROVE Off(hs, nd[c].file)
    <3>1. nd[c].file = fb /\ fa # fb /\ x = NoFile /\ NoFile \notin Dirs
      BY <2>3, <1>12, <1>19, HostIs
    <3> SUFFICES ASSUME fb \in Dirs, NEW g \in Dirs, NEW k \in AllNames, FileAt(hs, g, k) = fb
                 PROVE  FALSE
      BY <3>1 DEF Off
    <3>2. FileAt(host, g, k) = fb /\ ~(g = f2 /\ k = m2)
      BY <2>1, <3>1 DEF Swapped
    <3> QED BY <3>2, <1>6, <1>10, <1>16 DEF DirsOnce
  <2>4. Wants(nd, hs, q)
    BY <2>2, <2>3, <1>11, <1>12, <1>17, <1>19
  <2>5. ASSUME NEW c \in Ids, Child(nd, p, m, c) \/ Child(nd, p2, m2, c)
        PROVE  InPlace(nd, hs, call', c)
    <3>1. Placing(q, nd[c].parent, nd[c].name)
      BY <2>5, <1>1, <1>14 DEF Placing, Child, Renames, Two
    <3> QED BY <3>1, <1>15 DEF InPlace
  <2>6. Owns(t, p, m) /\ Owns(t, p2, m2)
    BY <1>1, <1>5, <1>6, <1>16 DEF Owns
  <2>7. /\ Swapped(host', nd[p].file, m, x, nd[p2].file, m2, fa)
        /\ fa = FileAt(host, nd[p].file, m)
        /\ x = NoFile \/ x = FileAt(host, nd[p2].file, m2)
        /\ Wants(nd, host', q)
        /\ \A c \in Ids : Child(nd, p, m, c) \/ Child(nd, p2, m2, c) => InPlace(nd, host', call', c)
    BY <2>1, <2>4, <2>5, <1>1, <1>10, <1>19
  <2> QED BY <2>6, <2>7, <1>3, <1>7, <1>14, <1>15, SwapHost
<1>20. CASE r.fl = "none" /\ fa # fb
  <2>1. PICK x, hs : x = NoFile /\ hs = host'
    OBVIOUS
  <2>2. hs = [host EXCEPT ![Entry(a)] = x, ![Entry(b)] = fa]
    BY <2>1, <1>3, <1>9, <1>20
  <2> QED BY <2>1, <2>2, <1>19, <1>20
<1>21. CASE r.fl = "exchange"
  <2>1. PICK hs : hs = host'
    OBVIOUS
  <2>2. hs = [host EXCEPT ![Entry(a)] = fb, ![Entry(b)] = fa]
    BY <2>1, <1>3, <1>9, <1>21
  <2> QED BY <2>1, <2>2, <1>19, <1>21
<1> QED BY <1>3, <1>18, <1>20, <1>21

---------------------------------------------------------------------------
(* Every step *)

LEMMA StepKeepsInv ==
  ASSUME Inv, NEW t \in Threads, Step(t)
  PROVE  Inv'
BY wait_path_doneInv, fs_failsInv, lookup_pathInv, find_nodeInv, fs_createInv, fs_linkInv,
   fs_rmdirInv, unlink_or_hideInv, hide_node_fsInv, hide_node_tableInv, fs_unlinkInv,
   fs_rename_requestInv, remove_node_requestInv, rename_node_requestInv, fs_openInv,
   open_countedInv, fuse_reply_openInv, fuse_do_releaseInv, unlink_hiddenInv, free_and_replyInv,
   reply_entryInv, forget_nodeInv, forget_node_wokenInv
   DEF Step

LEMMA StepKeepsHost ==
  ASSUME FlagsHonoured, Inv, HostInv, NEW t \in Threads, Step(t)
  PROVE  HostInv'
BY wait_path_doneHost, fs_failsHost, lookup_pathHost, find_nodeHost, fs_createHost, fs_linkHost,
   fs_rmdirHost, unlink_or_hideHost, hide_node_fsHost, hide_node_tableHost, fs_unlinkHost,
   fs_rename_requestHost, remove_node_requestHost, rename_node_requestHost, fs_openHost,
   open_countedHost, fuse_reply_openHost, fuse_do_releaseHost, unlink_hiddenHost,
   free_and_replyHost, reply_entryHost, forget_nodeHost, forget_node_wokenHost
   DEF Step

LEMMA NextKeeps == BothInv /\ [Next]_vars => BothInv'
<1> SUFFICES ASSUME BothInv, [Next]_vars PROVE BothInv'
  OBVIOUS
<1>1. CASE Next
  <2>1. PICK t \in Threads : (Idle(t) /\ KernelSends(t)) \/ Step(t)
    BY <1>1 DEF Next
  <2>2. CASE Idle(t) /\ KernelSends(t)
    BY <2>2, SendKeeps
  <2>3. CASE Step(t)
    BY <2>3, StepKeepsInv, StepKeepsHost DEF BothInv
  <2> QED BY <2>1, <2>2, <2>3
<1>2. CASE vars' = vars
  <2>1. /\ nd' = nd /\ treelock' = treelock /\ lockq' = lockq /\ call' = call /\ host' = host
        /\ knows' = knows /\ kopen' = kopen /\ left' = left
    BY <1>2 DEF vars
  <2>2. TypeOK'
    BY <2>1 DEF BothInv, Inv, TypeOK
  <2>3. /\ TreeInv(nd') /\ Calls(nd', call') /\ KernelInv(call', knows', kopen')
        /\ QueueInv(lockq', call') /\ LockOk(nd', treelock', call')
        /\ Counts(nd', call', knows', kopen') /\ Targets(nd', call')
    BY <2>1 DEF BothInv, Inv
  <2>4. HostInv'
    BY <2>1 DEF BothInv, HostInv
  <2> QED BY <2>2, <2>3, <2>4 DEF BothInv, Inv
<1> QED BY <1>1, <1>2

---------------------------------------------------------------------------
(* The start *)

LEMMA InitTable ==
  ASSUME Init
  PROVE  /\ nd \in [Nodes -> NodeType]
         /\ nd[Root].parent = NoNode /\ nd[Root].nlookup = 1 /\ nd[Root].refctr = 1
         /\ nd[Root].file = RootFile /\ nd[Root].open_count = 0
         /\ \A n \in Ids : nd[n] = FreeNode
<1>1. FreeNode \in NodeType
  BY DEF FreeNode, NodeType
<1>2. PICK r : r = [FreeNode EXCEPT !.nlookup = 1, !.refctr = 1, !.file = RootFile]
  OBVIOUS
<1>3. /\ r \in NodeType /\ r.parent = NoNode /\ r.nlookup = 1 /\ r.refctr = 1
      /\ r.file = RootFile /\ r.open_count = 0
  BY <1>2, FilesAssumption DEF FreeNode, NodeType
<1>4. nd = [n \in Nodes |-> IF n = Root THEN r ELSE FreeNode]
  BY <1>2 DEF Init
<1> QED BY <1>1, <1>3, <1>4, IdsPlaces

LEMMA InitKeeps == FlagsHonoured /\ Init => BothInv
<1> SUFFICES ASSUME FlagsHonoured, Init PROVE BothInv
  OBVIOUS
<1>1. /\ treelock = [n \in Ids |-> 0] /\ lockq = <<>> /\ call = [t \in Threads |-> NoCall]
      /\ host = InitHost /\ knows = [n \in Ids |-> 0] /\ kopen = [n \in Ids |-> 0] /\ left = {}
  BY DEF Init
<1>2. \A t \in Threads : call[t] = NoCall
  BY <1>1
<1>3. /\ treelock \in [Ids -> Int] /\ lockq \in Seq(Threads) /\ call \in [Threads -> CallType]
      /\ host \in HostType /\ knows \in [Ids -> Nat] /\ kopen \in [Ids -> Nat]
      /\ left \subseteq HiddenNames
  BY <1>1, NoCallIs, HostAssumption DEF HostType, AllNames
<1>4. TypeOK
  BY <1>3, InitTable DEF TypeOK, NodeType, HostType
<1>5. \A n \in Ids : FreeNode.parent = NoNode /\ FreeNode.name = NoName /\ FreeNode.nlookup = 0
                     /\ FreeNode.refctr = 0 /\ FreeNode.open_count = 0 /\ ~FreeNode.is_hidden
                     /\ FreeNode.file = NoFile
  BY DEF FreeNode
<1>6. TreeInv(nd)
  <2>1. WellFounded(nd)
    BY InitTable, <1>5, IdsPlaces DEF WellFounded
  <2>2. \A n \in Nodes : Children(nd, n) = {}
    BY InitTable, <1>5, IdsPlaces DEF Children, Nodes
  <2>3. Cardinality({}) = 0
    BY FS_EmptySet
  <2>4. \A n \in Nodes :
          nd[n].refctr = (IF nd[n].nlookup > 0 THEN 1 ELSE 0) + Cardinality(Children(nd, n))
    <3> SUFFICES ASSUME NEW n \in Nodes
                 PROVE  nd[n].refctr = (IF nd[n].nlookup > 0 THEN 1 ELSE 0)
                                       + Cardinality(Children(nd, n))
      OBVIOUS
    <3>1. Cardinality(Children(nd, n)) = 0
      BY <2>2, <2>3
    <3>2. (n = Root /\ nd[n].nlookup = 1 /\ nd[n].refctr = 1)
          \/ (nd[n].nlookup = 0 /\ nd[n].refctr = 0)
      BY InitTable, <1>5 DEF Nodes
    <3> QED BY <3>1, <3>2
  <2>5. /\ \A n \in Ids : nd[n].refctr = 0 => nd[n] = FreeNode
        /\ \A n \in Ids : nd[n].parent = NoNode <=> nd[n].name = NoName
        /\ \A n \in Ids : nd[n].is_hidden => nd[n].name \in HiddenNames
        /\ \A a, b \in Ids :
             (nd[a].parent # NoNode /\ nd[a].parent = nd[b].parent /\ nd[a].name = nd[b].name)
               => a = b
    BY InitTable, <1>5
  <2>6. nd \in [Nodes -> NodeType] /\ nd[Root].nlookup = 1 /\ nd[Root].parent = NoNode
    BY InitTable
  <2> QED BY <2>1, <2>4, <2>5, <2>6 DEF TreeInv
<1>7. Calls(nd, call)
  BY <1>2, NoCallIs DEF Calls
<1>8. KernelInv(call, knows, kopen)
  BY <1>1, <1>2, NoCallIs DEF KernelInv
<1>9. QueueInv(lockq, call)
  BY <1>1, <1>2, NoCallIs DEF QueueInv
<1>10. LockOk(nd, treelock, call)
  <2> SUFFICES ASSUME NEW n \in Ids PROVE LockVal(treelock[n], WN(call, n), RN(nd, call, n))
    BY DEF LockOk
  <2>1. R1(nd, call, n) = {} /\ R2(nd, call, n) = {} /\ W1(call, n) = {} /\ W2(call, n) = {}
    BY <1>2, NoCallIs DEF R1, R2, W1, W2
  <2>2. WN(call, n) = 0 /\ RN(nd, call, n) = 0
    BY <2>1, CountBounds
  <2>3. treelock[n] = 0
    BY <1>1
  <2> QED BY <2>2, <2>3 DEF LockVal
<1>11. Counts(nd, call, knows, kopen)
  <2> SUFFICES ASSUME NEW n \in Ids
               PROVE  /\ nd[n].nlookup = knows[n] + Cardinality(Finders(call, n))
                                         + Cardinality(Forgetters(call, n))
                      /\ nd[n].open_count = kopen[n] + Cardinality(Openers(call, n))
    BY DEF Counts
  <2>1. n # NoNode
    BY IdsPlaces
  <2>2. Finders(call, n) = {} /\ Forgetters(call, n) = {} /\ Openers(call, n) = {}
    BY <2>1, <1>2, NoCallIs DEF Finders, Forgetters, Openers
  <2>3. Cardinality({}) = 0
    BY FS_EmptySet
  <2> QED BY <2>2, <2>3, <1>1, <1>5, InitTable
<1>12. Targets(nd, call)
  BY <1>2, NoCallIs DEF Targets
<1>13. Inv
  BY <1>4, <1>6, <1>7, <1>8, <1>9, <1>10, <1>11, <1>12 DEF Inv
<1>14. DirsOnce(host)
  <2>1. \A e, g \in DOMAIN InitHost : InitHost[e] \in Dirs /\ InitHost[e] = InitHost[g] => e = g
    BY HostAssumption
  <2>2. \A e \in DOMAIN InitHost : InitHost[e] # RootFile
    BY HostAssumption
  <2>3. DOMAIN InitHost = Dirs \X AllNames
    BY <1>1, <1>3 DEF HostType
  <2>4. ASSUME NEW g \in Dirs, NEW m \in AllNames
        PROVE  <<g, m>> \in DOMAIN InitHost /\ FileAt(host, g, m) = InitHost[<<g, m>>]
    BY <2>3, <1>1 DEF FileAt
  <2>5. Off(host, RootFile)
    BY <2>2, <2>4 DEF Off
  <2>6. ASSUME NEW g \in Dirs, NEW k \in Dirs, NEW m \in AllNames, NEW l \in AllNames,
               FileAt(host, g, m) \in Dirs, FileAt(host, g, m) = FileAt(host, k, l)
        PROVE  g = k /\ m = l
    <3>1. PICK e, h : e = <<g, m>> /\ h = <<k, l>>
      OBVIOUS
    <3>2. e = h
      BY <3>1, <2>1, <2>4, <2>6
    <3> QED BY <3>1, <3>2
  <2> QED BY <2>5, <2>6 DEF DirsOnce
<1>15. FilesInv(nd)
  <2>1. NoFile \notin Dirs /\ NoName \notin HiddenNames /\ \A n \in Ids : nd[n].file = NoFile
    BY FilesAssumption, NamesAre, NamesAssumption, InitTable, <1>5
  <2>2. \A a, b \in Nodes : nd[a].file \in Dirs /\ nd[a].file = nd[b].file => a = b
    BY <2>1 DEF Nodes
  <2> QED BY <2>1, <2>2, InitTable, <1>5 DEF FilesInv
<1>16. Placed(nd, host, call)
  BY InitTable, <1>5 DEF Placed
<1>17. Unplaced(nd, host)
  BY InitTable, <1>5, FilesAssumption DEF Unplaced, Off
<1>18. \A t \in Threads : Wants(nd, host, call[t])
  BY <1>2, NoCallWants
<1> QED BY <1>13, <1>14, <1>15, <1>16, <1>17, <1>18 DEF BothInv, HostInv

LEMMA SpecBothInv == FlagsHonoured /\ Spec => []BothInv
<1> QED BY InitKeeps, NextKeeps, PTL DEF Spec

---------------------------------------------------------------------------
(* The theorems.  FlagsHonoured: after an exchange the handler did not make *)
(* (nosqlFS.c:151) the kernel may lock, for writing, a name whose node it   *)
(* has forgotten, and a locked node may be freed.  No request names a       *)
(* hidden file (NamesAssumption).                                           *)

\* treelock is exact (try_get_path, unlock_path, wake_up_queued, fuse.c 949-1160): it says
\* which requests have the node locked, the ones that wait with one of two paths included,
\* and a writer is alone, as long as exchanges are made (FlagsHonoured).
THEOREM SpecLocksExact == FlagsHonoured /\ Spec => []LocksExact
<1>1. BothInv => LocksExact
  BY InvGives DEF BothInv
<1> QED BY <1>1, SpecBothInv, PTL

\* The counts of a node are exact (find_node, forget_node, unref_node, fuse_do_release): its
\* references are its children and its lookups, its lookups are those of the kernel and of
\* answers and forgets on their way, its open_count the open files.  None is ever negative, as long
\* as exchanges are made (FlagsHonoured).
THEOREM SpecCountsExact == FlagsHonoured /\ Spec => []CountsExact
<1>1. BothInv => CountsExact
  BY InvGives DEF BothInv
<1> QED BY <1>1, SpecBothInv, PTL

\* The path a request has locked (get_path, get_path2) stays the path of its node and leads
\* to the file the kernel means by it, whatever other requests rename, remove or hide
\* meanwhile: where exchanges are made (FlagsHonoured) and no request names a hidden file.
THEOREM SpecRightFile == FlagsHonoured /\ Spec => []RightFile
<1>1. BothInv => RightFile
  BY RightFileIs DEF BothInv
<1> QED BY <1>1, SpecBothInv, PTL

=============================================================================
