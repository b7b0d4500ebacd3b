-------------------------- MODULE FuseLoopMtProofs --------------------------
(***************************************************************************)
(* Proofs about FuseLoopMt, for any finite number of workers, any requests  *)
(* that wait for each other in any way, and any size of the pool.           *)
(***************************************************************************)
EXTENDS FuseLoopMt, FiniteSetTheorems, TLAPS

\* A worker that is started had no structure before.
LEMMA Fresh ==
  ASSUME NEW now, NEW v \in FreshWorker(now)
  PROVE  v \in Workers /\ now[v] = "free"
BY DEF FreshWorker

LEMMA TypeInit == Init => TypeOK
<1> SUFFICES ASSUME Init PROVE TypeOK
  OBVIOUS
<1>1. intr \in 0 .. MaxIntr /\ sem \in Nat /\ numworker \in Int /\ numavail \in Int /\ ctr \in Int
  BY BoundAssumption DEF Init
<1>2. pc \in [Workers -> WorkerPc] /\ main \in MainPc
  BY DEF Init, WorkerPc, MainPc
<1>3. /\ cur \in [Workers -> Reqs \cup {NoReq}]
      /\ req \in [Reqs -> {"none", "queued", "taken", "done", "lost"}]
      /\ list \subseteq Workers /\ cancelled \subseteq Workers
      /\ mnt \in {"fuse", "none", "other"}
  BY DEF Init
<1>4. /\ exited \in BOOLEAN /\ mtexit \in BOOLEAN /\ error \in BOOLEAN
      /\ failed \in BOOLEAN /\ signalled \in BOOLEAN
  BY DEF Init
<1> QED BY <1>1, <1>2, <1>3, <1>4 DEF TypeOK

\* fuse_loop_start_thread keeps the types of what it changes.
LEMMA StartType ==
  ASSUME TypeOK, NEW now \in [Workers -> WorkerPc], NEW avail \in Int,
         fuse_loop_start_thread(now, avail)
  PROVE  /\ pc' \in [Workers -> WorkerPc] /\ list' \subseteq Workers
         /\ numavail' \in Int /\ numworker' \in Int /\ ctr' \in Int /\ failed' \in BOOLEAN
<1>1. "top" \in WorkerPc
  BY DEF WorkerPc
<1>2. \A v \in FreshWorker(now) : [now EXCEPT ![v] = "top"] \in [Workers -> WorkerPc]
  BY <1>1
<1>3. failed' \in BOOLEAN
  BY DEF fuse_loop_start_thread, TypeOK
<1>4. ASSUME NEW v \in FreshWorker(now), pc' = [now EXCEPT ![v] = "top"],
             list' = list \cup {v}, numavail' = avail + 1, numworker' = numworker + 1,
             ctr' = ctr + 1
      PROVE  /\ pc' \in [Workers -> WorkerPc] /\ list' \subseteq Workers
             /\ numavail' \in Int /\ numworker' \in Int /\ ctr' \in Int
  BY <1>2, <1>4, Fresh DEF TypeOK
<1>5. ASSUME pc' = now, numavail' = avail, UNCHANGED <<list, numworker, ctr>>
      PROVE  /\ pc' \in [Workers -> WorkerPc] /\ list' \subseteq Workers
             /\ numavail' \in Int /\ numworker' \in Int /\ ctr' \in Int
  BY <1>5 DEF TypeOK
<1> QED BY <1>3, <1>4, <1>5 DEF fuse_loop_start_thread

LEMMA TypeStep == TypeOK /\ [Next]_vars => TypeOK'
<1> SUFFICES ASSUME TypeOK, [Next]_vars PROVE TypeOK'
  OBVIOUS
<1> USE DEF mtvars, kernel, history, Go, MainGo
<1>1. ASSUME NEW w \in Workers, fuse_do_work_test(w) PROVE TypeOK'
  BY <1>1 DEF fuse_do_work_test, TypeOK, WorkerPc
<1>2. ASSUME NEW w \in Workers, receive_request(w) PROVE TypeOK'
  BY <1>2 DEF receive_request, TypeOK, WorkerPc
<1>3. ASSUME NEW w \in Workers, receive_enodev(w) PROVE TypeOK'
  BY <1>3 DEF receive_enodev, TypeOK, WorkerPc
<1>4. ASSUME NEW w \in Workers, receive_error(w) PROVE TypeOK'
  BY <1>4 DEF receive_error, TypeOK, WorkerPc
<1>5. ASSUME NEW w \in Workers, receive_eintr(w) PROVE TypeOK'
  BY <1>5, BoundAssumption DEF receive_eintr, TypeOK, WorkerPc
<1>6. ASSUME NEW w \in Workers, receive_cancelled(w) PROVE TypeOK'
  BY <1>6 DEF receive_cancelled, TypeOK, WorkerPc
<1>7. ASSUME NEW w \in Workers, fuse_do_work_got(w) PROVE TypeOK'
  <2> DEFINE avail == IF cur[w] \in Forgets THEN numavail ELSE numavail - 1
             now   == [pc EXCEPT ![w] = "work"]
  <2>1. avail \in Int /\ now \in [Workers -> WorkerPc]
    BY DEF TypeOK, WorkerPc
  <2>2. [pc EXCEPT ![w] = "ended"] \in [Workers -> WorkerPc]
    BY DEF TypeOK, WorkerPc
  <2>3. /\ pc' \in [Workers -> WorkerPc] /\ list' \subseteq Workers
        /\ numavail' \in Int /\ numworker' \in Int /\ ctr' \in Int /\ failed' \in BOOLEAN
    <3>1. CASE fuse_loop_start_thread(now, avail)
      BY <2>1, <3>1, StartType
    <3>2. CASE UNCHANGED <<list, numavail, numworker, ctr, failed>> /\ mtexit
      BY <1>7, <2>2, <3>2 DEF fuse_do_work_got, TypeOK
    <3>3. CASE pc' = now /\ numavail' = avail /\ UNCHANGED <<list, numworker, ctr, failed>>
      BY <2>1, <3>3 DEF TypeOK
    <3> QED BY <1>7, <3>1, <3>2, <3>3 DEF fuse_do_work_got
  <2>4. /\ req' \in [Reqs -> {"none", "queued", "taken", "done", "lost"}]
        /\ cur' \in [Workers -> Reqs \cup {NoReq}]
    BY <1>7 DEF fuse_do_work_got, TypeOK
  <2> QED BY <1>7, <2>3, <2>4 DEF fuse_do_work_got, TypeOK
<1>8. ASSUME NEW w \in Workers, process_nested(w) PROVE TypeOK'
  BY <1>8 DEF process_nested, TypeOK
<1>9. ASSUME NEW w \in Workers, process_done(w) PROVE TypeOK'
  BY <1>9 DEF process_done, TypeOK, WorkerPc
<1>10. ASSUME NEW w \in Workers, fuse_do_work_after(w) PROVE TypeOK'
  BY <1>10 DEF fuse_do_work_after, TypeOK, WorkerPc
<1>11. ASSUME NEW w \in Workers, fuse_do_work_detach(w) PROVE TypeOK'
  BY <1>11 DEF fuse_do_work_detach, TypeOK, WorkerPc
<1>12. ASSUME NEW w \in Workers, fuse_do_work_post(w) PROVE TypeOK'
  BY <1>12 DEF fuse_do_work_post, TypeOK, WorkerPc
<1>13. CASE loop_start
  <2>1. /\ pc' \in [Workers -> WorkerPc] /\ list' \subseteq Workers
        /\ numavail' \in Int /\ numworker' \in Int /\ ctr' \in Int /\ failed' \in BOOLEAN
    BY <1>13, StartType DEF loop_start, TypeOK
  <2> QED BY <1>13, <2>1 DEF loop_start, TypeOK, MainPc
<1>14. CASE loop_test \/ sem_wait_enter \/ sem_wait_return \/ loop_cancel
  <2>1. CASE sem_wait_return
    <3>1. sem' \in Nat /\ main' \in MainPc
      BY <2>1 DEF sem_wait_return, TypeOK, MainPc
    <3> QED BY <2>1, <3>1 DEF sem_wait_return, TypeOK
  <2>2. CASE loop_test
    BY <2>2 DEF loop_test, TypeOK, MainPc
  <2>3. CASE sem_wait_enter
    BY <2>3 DEF sem_wait_enter, TypeOK, MainPc
  <2>4. CASE loop_cancel
    BY <2>4 DEF loop_cancel, TypeOK, MainPc
  <2> QED BY <1>14, <2>1, <2>2, <2>3, <2>4
<1>15. ASSUME NEW w \in Workers, fuse_join_worker(w) PROVE TypeOK'
  BY <1>15 DEF fuse_join_worker, TypeOK, WorkerPc
<1>16. CASE loop_end \/ fuse_session_unmount \/ fuse_session_destroy \/ exit_handler
  BY <1>16, ZenonT(30) DEF loop_end, fuse_session_unmount, fuse_session_destroy, exit_handler, TypeOK,
               MainPc
<1>17. CASE KernelRequest \/ ExternalUnmount \/ OtherMount \/ Finished
  BY <1>17 DEF KernelRequest, ExternalUnmount, OtherMount, Finished, vars, TypeOK, Roots
<1>18. CASE UNCHANGED vars
  BY <1>18 DEF vars, TypeOK
<1> QED BY <1>1, <1>2, <1>3, <1>4, <1>5, <1>6, <1>7, <1>8, <1>9, <1>10, <1>11, <1>12, <1>13,
           <1>14, <1>15, <1>16, <1>17, <1>18 DEF Next, WorkerStep, MainStep

\* Type correctness; in particular the semaphore never goes below zero.
THEOREM TypeCorrect == Spec => []TypeOK
BY TypeInit, TypeStep, PTL DEF Spec


---------------------------------------------------------------------------
(* The list of workers and the return of the loop *)

ReturnInv == TypeOK /\ ListedOrLeaving /\ NoUseAfterReturn /\ (main = "start" => list = {} /\ ~failed)

\* A step in which the pool stays as it is: no worker structure comes or goes, and the
\* list is unchanged.
SamePool ==
  /\ list' = list
  /\ \A w \in Workers : pc'[w] \in {"free", "unlisted"} <=> pc[w] \in {"free", "unlisted"}

\* A start adds one worker to the list, or changes nothing.
LEMMA StartListed ==
  ASSUME ReturnInv, NEW now \in [Workers -> WorkerPc], NEW avail,
         \A u \in Workers : now[u] \in {"free", "unlisted"} <=> pc[u] \in {"free", "unlisted"},
         fuse_loop_start_thread(now, avail)
  PROVE  ListedOrLeaving'
<1>1. ASSUME NEW v \in FreshWorker(now), pc' = [now EXCEPT ![v] = "top"],
             list' = list \cup {v}
      PROVE  ListedOrLeaving'
  BY <1>1, Fresh DEF ListedOrLeaving, ReturnInv
<1>2. ASSUME pc' = now, list' = list PROVE ListedOrLeaving'
  BY <1>2 DEF ListedOrLeaving, ReturnInv
<1> QED BY <1>1, <1>2 DEF fuse_loop_start_thread

\* Once the loop has returned, a worker that is left can only finish.
LEMMA AfterReturn ==
  ASSUME ReturnInv, NEW w \in Workers, pc[w] \notin {"free", "unlisted"}
  PROVE  main \notin {"unmount", "destroy", "done"}
BY DEF ReturnInv, NoUseAfterReturn

LEMMA ReturnStep == ReturnInv /\ [Next]_vars => ReturnInv'
<1> SUFFICES ASSUME ReturnInv, [Next]_vars PROVE ReturnInv'
  OBVIOUS
<1>0. TypeOK'
  BY TypeStep DEF ReturnInv
<1> USE DEF mtvars, kernel, history, Go, MainGo
<1>a. ASSUME SamePool, UNCHANGED <<main, failed>> PROVE ReturnInv'
  BY <1>0, <1>a DEF SamePool, ReturnInv, ListedOrLeaving, NoUseAfterReturn
<1>1. ASSUME NEW w \in Workers,
             \/ fuse_do_work_test(w) \/ receive_request(w) \/ receive_enodev(w)
             \/ receive_error(w) \/ receive_eintr(w) \/ receive_cancelled(w)
             \/ process_nested(w) \/ process_done(w) \/ fuse_do_work_post(w)
      PROVE  ReturnInv'
  <2>1. SamePool /\ UNCHANGED <<main, failed>>
    BY <1>1 DEF fuse_do_work_test, receive_request, receive_enodev, receive_error,
                receive_eintr, receive_cancelled, process_nested, process_done,
                fuse_do_work_post, SamePool, ReturnInv, TypeOK
  <2> QED BY <2>1, <1>a
<1>2. ASSUME NEW w \in Workers, fuse_do_work_got(w) PROVE ReturnInv'
  <2>1. main' = main /\ main \notin {"unmount", "destroy", "done"}
    BY <1>2, AfterReturn DEF fuse_do_work_got
  <2>2. main # "start"
    BY <1>2 DEF ReturnInv, ListedOrLeaving, fuse_do_work_got
  <2>3. ListedOrLeaving'
    <3> DEFINE avail == IF cur[w] \in Forgets THEN numavail ELSE numavail - 1
               now   == [pc EXCEPT ![w] = "work"]
    <3>1. /\ now \in [Workers -> WorkerPc]
          /\ \A u \in Workers : now[u] \in {"free", "unlisted"}
                                  <=> pc[u] \in {"free", "unlisted"}
      BY <1>2 DEF fuse_do_work_got, ReturnInv, TypeOK, WorkerPc
    <3>2. CASE fuse_loop_start_thread(now, avail)
      BY <3>1, <3>2, StartListed
    <3>3. CASE list' = list /\ (pc' = now \/ pc' = [pc EXCEPT ![w] = "ended"])
      BY <1>2, <3>3 DEF fuse_do_work_got, ReturnInv, TypeOK, ListedOrLeaving
    <3> QED BY <1>2, <3>2, <3>3 DEF fuse_do_work_got
  <2> QED BY <1>0, <2>1, <2>2, <2>3 DEF ReturnInv, NoUseAfterReturn
<1>3. ASSUME NEW w \in Workers, fuse_do_work_after(w) PROVE ReturnInv'
  <2>1. main' = main /\ main \notin {"unmount", "destroy", "done"}
    BY <1>3, AfterReturn DEF fuse_do_work_after
  <2>2. main # "start"
    BY <1>3 DEF ReturnInv, ListedOrLeaving, fuse_do_work_after
  <2>3. ListedOrLeaving'
    BY <1>3 DEF fuse_do_work_after, ReturnInv, TypeOK, ListedOrLeaving
  <2> QED BY <1>0, <2>1, <2>2, <2>3 DEF ReturnInv, NoUseAfterReturn
<1>4. ASSUME NEW w \in Workers, fuse_do_work_detach(w) PROVE ReturnInv'
  <2>1. SamePool /\ UNCHANGED <<main, failed>>
    BY <1>4 DEF fuse_do_work_detach, SamePool, ReturnInv, TypeOK
  <2> QED BY <2>1, <1>a
<1>5. CASE loop_start
  <2>1. ListedOrLeaving'
    BY <1>5, StartListed DEF loop_start, ReturnInv, TypeOK
  <2>2. ASSUME main' = "unmount" PROVE \A w \in Workers : pc'[w] \in {"free", "unlisted"}
    BY <1>5, <2>2 DEF loop_start, fuse_loop_start_thread, ReturnInv, ListedOrLeaving
  <2> QED BY <1>0, <1>5, <2>1, <2>2 DEF loop_start, ReturnInv, NoUseAfterReturn
<1>6. CASE loop_test \/ sem_wait_enter \/ sem_wait_return \/ loop_cancel \/ exit_handler
  BY <1>0, <1>6 DEF loop_test, sem_wait_enter, sem_wait_return, loop_cancel, exit_handler,
                    ReturnInv, ListedOrLeaving, NoUseAfterReturn
<1>7. ASSUME NEW w \in Workers, fuse_join_worker(w) PROVE ReturnInv'
  BY <1>0, <1>7 DEF fuse_join_worker, ReturnInv, TypeOK, ListedOrLeaving, NoUseAfterReturn
<1>8. CASE loop_end \/ fuse_session_unmount \/ fuse_session_destroy
  BY <1>0, <1>8 DEF loop_end, fuse_session_unmount, fuse_session_destroy, ReturnInv,
                    ListedOrLeaving, NoUseAfterReturn
<1>9. CASE KernelRequest \/ ExternalUnmount \/ OtherMount \/ Finished \/ UNCHANGED vars
  BY <1>a, <1>9 DEF KernelRequest, ExternalUnmount, OtherMount, Finished, vars, SamePool
<1> QED BY <1>1, <1>2, <1>3, <1>4, <1>5, <1>6, <1>7, <1>8, <1>9
        DEF Next, WorkerStep, MainStep

LEMMA ReturnInit == Init => ReturnInv
BY TypeInit DEF Init, ReturnInv, ListedOrLeaving, NoUseAfterReturn

LEMMA ReturnAlways == Spec => []ReturnInv
BY ReturnInit, ReturnStep, PTL DEF Spec

\* The list always holds exactly the workers that have neither left the pool nor been
\* joined.
THEOREM WorkersListed == Spec => []ListedOrLeaving
<1>1. ReturnInv => ListedOrLeaving
  BY DEF ReturnInv
<1> QED BY <1>1, ReturnAlways, PTL

\* When fuse_session_loop_mt has returned, no thread touches mt or the session.
THEOREM ReturnSafe == Spec => []NoUseAfterReturn
<1>1. ReturnInv => NoUseAfterReturn
  BY DEF ReturnInv
<1> QED BY <1>1, ReturnAlways, PTL


---------------------------------------------------------------------------
(* The counters of the pool *)

CountInv == ReturnInv /\ PoolCounts /\ PoolInv

\* The workers numavail counts.
FreeWorkers == {w \in list : ~Busy(w)}

LEMMA PoolFinite ==
  ASSUME ReturnInv
  PROVE  /\ IsFiniteSet(list) /\ Cardinality(list) \in Nat
         /\ IsFiniteSet(FreeWorkers) /\ Cardinality(FreeWorkers) \in Nat
<1>1. list \subseteq Workers /\ FreeWorkers \subseteq Workers
  BY DEF ReturnInv, TypeOK, FreeWorkers
<1>2. IsFiniteSet(list) /\ IsFiniteSet(FreeWorkers)
  BY <1>1, WorkersAssumption, FS_Subset
<1> QED BY <1>2, FS_CardinalityType

\* A new worker is one more on the list and one more free one.
LEMMA StartCounts ==
  ASSUME CountInv, NEW F, IsFiniteSet(F), Cardinality(F) \in Nat,
         NEW now \in [Workers -> WorkerPc], NEW avail,
         ~mtexit, avail = Cardinality(F),
         \A u \in Workers : now[u] = "free" => pc[u] = "free",
         F = {u \in list : ~(now[u] \in {"work", "after"} /\ cur[u] \notin Forgets)},
         cur' = cur,
         fuse_loop_start_thread(now, avail)
  PROVE  numworker' = Cardinality(list') /\ numavail' = Cardinality(FreeWorkers')
<1>1. numworker = Cardinality(list) /\ IsFiniteSet(list) /\ Cardinality(list) \in Nat
  BY PoolFinite DEF CountInv, PoolCounts
<1>2. ASSUME NEW v \in FreshWorker(now), pc' = [now EXCEPT ![v] = "top"],
             list' = list \cup {v}, numavail' = avail + 1, numworker' = numworker + 1
      PROVE  numworker' = Cardinality(list') /\ numavail' = Cardinality(FreeWorkers')
  <2>1. v \in Workers /\ now[v] = "free" /\ v \notin list
    BY Fresh DEF CountInv, ReturnInv, ListedOrLeaving
  <2>2. Cardinality(list \cup {v}) = Cardinality(list) + 1
    BY <1>1, <2>1, FS_AddElement
  <2>3. FreeWorkers' = F \cup {v}
    BY <1>2, <2>1 DEF FreeWorkers, Busy, CountInv, ReturnInv, TypeOK
  <2>4. Cardinality(F \cup {v}) = Cardinality(F) + 1
    BY <2>1, FS_AddElement
  <2> QED BY <1>1, <1>2, <2>2, <2>3, <2>4
<1>3. ASSUME pc' = now, numavail' = avail, UNCHANGED <<list, numworker>>
      PROVE  numworker' = Cardinality(list') /\ numavail' = Cardinality(FreeWorkers')
  <2>1. FreeWorkers' = F
    BY <1>3 DEF FreeWorkers, Busy
  <2> QED BY <1>1, <1>3, <2>1
<1> QED BY <1>2, <1>3 DEF fuse_loop_start_thread

\* The section after a receive counts the worker as busy, unless it has a FORGET.
LEMMA GotCounts ==
  ASSUME CountInv, NEW w \in Workers, fuse_do_work_got(w), ~mtexit
  PROVE  numworker' = Cardinality(list') /\ numavail' = Cardinality(FreeWorkers')
<1> DEFINE avail == IF cur[w] \in Forgets THEN numavail ELSE numavail - 1
           now   == [pc EXCEPT ![w] = "work"]
           F     == {u \in list : ~(now[u] \in {"work", "after"} /\ cur[u] \notin Forgets)}
<1>1. /\ numworker = Cardinality(list) /\ numavail = Cardinality(FreeWorkers)
      /\ IsFiniteSet(FreeWorkers) /\ Cardinality(FreeWorkers) \in Nat
      /\ list \subseteq Workers
  BY PoolFinite DEF CountInv, PoolCounts, FreeWorkers, ReturnInv, TypeOK
<1>2. w \in list /\ w \in FreeWorkers /\ pc[w] = "got"
  BY DEF fuse_do_work_got, CountInv, ReturnInv, ListedOrLeaving, FreeWorkers, Busy
<1>3. F = IF cur[w] \in Forgets THEN FreeWorkers ELSE FreeWorkers \ {w}
  BY <1>1, <1>2 DEF FreeWorkers, Busy, CountInv, ReturnInv, TypeOK
<1>4. IsFiniteSet(F) /\ Cardinality(F) = avail /\ Cardinality(F) \in Nat
  <2>1. /\ IsFiniteSet(FreeWorkers \ {w})
        /\ Cardinality(FreeWorkers \ {w}) = Cardinality(FreeWorkers) - 1
    BY <1>1, <1>2, FS_RemoveElement
  <2>2. Cardinality(FreeWorkers \ {w}) \in Nat
    BY <2>1, FS_CardinalityType
  <2> QED BY <1>1, <1>3, <2>1, <2>2
<1>5. /\ now \in [Workers -> WorkerPc]
      /\ \A u \in Workers : now[u] = "free" => pc[u] = "free"
  BY <1>2 DEF CountInv, ReturnInv, TypeOK, WorkerPc
<1>6. CASE fuse_loop_start_thread(now, avail) /\ cur' = cur
  <2> HIDE DEF avail, now, F
  <2> QED BY <1>4, <1>5, <1>6, StartCounts DEF F
<1>7. CASE pc' = now /\ numavail' = avail /\ UNCHANGED <<list, numworker, cur>>
  <2>1. FreeWorkers' = F
    BY <1>7 DEF FreeWorkers, Busy
  <2> QED BY <1>1, <1>4, <1>7, <2>1
<1> QED BY <1>6, <1>7 DEF fuse_do_work_got

\* The section after a request makes the worker free again, or takes it out.
LEMMA AfterCounts ==
  ASSUME CountInv, NEW w \in Workers, fuse_do_work_after(w), ~mtexit
  PROVE  numworker' = Cardinality(list') /\ numavail' = Cardinality(FreeWorkers')
<1> DEFINE avail == IF cur[w] \in Forgets THEN numavail ELSE numavail + 1
<1>1. /\ numworker = Cardinality(list) /\ numavail = Cardinality(FreeWorkers)
      /\ IsFiniteSet(FreeWorkers) /\ Cardinality(FreeWorkers) \in Nat
      /\ IsFiniteSet(list) /\ Cardinality(list) \in Nat /\ list \subseteq Workers
  BY PoolFinite DEF CountInv, PoolCounts, FreeWorkers, ReturnInv, TypeOK
<1>2. w \in list /\ pc[w] = "after" /\ (w \in FreeWorkers <=> cur[w] \in Forgets)
  BY DEF fuse_do_work_after, CountInv, ReturnInv, ListedOrLeaving, FreeWorkers, Busy
<1>3. /\ IsFiniteSet(FreeWorkers \cup {w})
      /\ Cardinality(FreeWorkers \cup {w}) = avail
  BY <1>1, <1>2, FS_AddElement
<1>4. \A u \in Workers \ {w} : pc'[u] = pc[u] /\ cur'[u] = cur[u]
  BY DEF fuse_do_work_after, CountInv, ReturnInv, TypeOK
<1>5. CASE pc'[w] = "top" /\ numavail' = avail /\ UNCHANGED <<list, numworker>>
  <2>1. FreeWorkers' = FreeWorkers \cup {w}
    BY <1>1, <1>2, <1>4, <1>5 DEF FreeWorkers, Busy
  <2> QED BY <1>1, <1>3, <1>5, <2>1
<1>6. CASE /\ list' = list \ {w} /\ numavail' = avail - 1 /\ numworker' = numworker - 1
  <2>1. FreeWorkers' = (FreeWorkers \cup {w}) \ {w}
    BY <1>1, <1>2, <1>4, <1>6 DEF FreeWorkers, Busy
  <2>2. Cardinality((FreeWorkers \cup {w}) \ {w}) = avail - 1
    BY <1>3, FS_RemoveElement
  <2>3. Cardinality(list \ {w}) = Cardinality(list) - 1
    BY <1>1, <1>2, FS_RemoveElement
  <2> QED BY <1>1, <1>6, <2>1, <2>2, <2>3
<1>7. pc \in [Workers -> WorkerPc]
  BY DEF CountInv, ReturnInv, TypeOK
<1> QED BY <1>5, <1>6, <1>7 DEF fuse_do_work_after


\* The counts after each step.
LEMMA CountsStep ==
  ASSUME CountInv, Next PROVE PoolCounts'
<1> USE DEF mtvars, kernel, history, Go, MainGo
<1>0. list \subseteq Workers /\ pc \in [Workers -> WorkerPc]
  BY DEF CountInv, ReturnInv, TypeOK
<1>a. ASSUME UNCHANGED <<list, numworker, numavail>>, mtexit' = mtexit \/ mtexit',
             \A u \in list : Busy(u)' <=> Busy(u)
      PROVE  PoolCounts'
  <2>1. FreeWorkers' = FreeWorkers
    BY <1>a DEF FreeWorkers
  <2> QED BY <1>a, <2>1 DEF CountInv, PoolCounts, FreeWorkers
<1>b. ASSUME ~mtexit, numworker' = Cardinality(list'),
             numavail' = Cardinality(FreeWorkers')
      PROVE  PoolCounts'
  BY <1>b DEF PoolCounts, FreeWorkers
<1>c. ASSUME mtexit' PROVE PoolCounts'
  BY <1>c DEF PoolCounts
<1>1. ASSUME NEW w \in Workers,
             \/ fuse_do_work_test(w) \/ receive_enodev(w) \/ receive_error(w)
             \/ receive_eintr(w) \/ receive_cancelled(w) \/ process_nested(w)
             \/ process_done(w) \/ fuse_do_work_post(w) \/ fuse_do_work_detach(w)
      PROVE  PoolCounts'
  <2>1. \A u \in list : Busy(u)' <=> Busy(u)
    BY <1>0, <1>1 DEF fuse_do_work_test, receive_enodev, receive_error, receive_eintr,
                receive_cancelled, process_nested, process_done, fuse_do_work_post,
                fuse_do_work_detach, Busy
  <2>2. UNCHANGED <<list, numworker, numavail, mtexit>>
    BY <1>1 DEF fuse_do_work_test, receive_enodev, receive_error, receive_eintr,
                receive_cancelled, process_nested, process_done, fuse_do_work_post,
                fuse_do_work_detach
  <2> QED BY <1>a, <2>1, <2>2
<1>2. ASSUME NEW w \in Workers, receive_request(w) PROVE PoolCounts'
  <2>1. /\ pc[w] = "recv" /\ pc'[w] \in {"post", "got"}
        /\ \A u \in Workers \ {w} : pc'[u] = pc[u] /\ cur'[u] = cur[u]
    BY <1>0, <1>2 DEF receive_request, CountInv, ReturnInv, TypeOK
  <2>2. \A u \in list : Busy(u)' <=> Busy(u)
    BY <1>0, <2>1 DEF Busy
  <2> QED BY <1>2, <1>a, <2>2 DEF receive_request
<1>3. ASSUME NEW w \in Workers, fuse_do_work_got(w) PROVE PoolCounts'
  BY <1>3, <1>b, <1>c, GotCounts DEF fuse_do_work_got
<1>4. ASSUME NEW w \in Workers, fuse_do_work_after(w) PROVE PoolCounts'
  BY <1>4, <1>b, <1>c, AfterCounts DEF fuse_do_work_after
<1>5. CASE loop_start
  <2>1. list = {} /\ numavail = 0 /\ ~mtexit
    BY <1>5 DEF loop_start, CountInv, PoolInv
  <2>2. IsFiniteSet({}) /\ Cardinality({}) = 0
    BY FS_EmptySet
  <2>3. {} = {u \in list : ~(pc[u] \in {"work", "after"} /\ cur[u] \notin Forgets)}
    BY <2>1
  <2>4. cur' = cur /\ fuse_loop_start_thread(pc, numavail)
    BY <1>5 DEF loop_start
  <2> QED BY <1>0, <1>b, <2>1, <2>2, <2>3, <2>4, StartCounts
<1>6. CASE loop_test \/ sem_wait_enter \/ sem_wait_return \/ loop_end
           \/ fuse_session_unmount \/ fuse_session_destroy \/ exit_handler
           \/ KernelRequest \/ ExternalUnmount \/ OtherMount \/ Finished
  <2>1. UNCHANGED <<list, numworker, numavail, mtexit, pc, cur>>
    BY <1>6 DEF loop_test, sem_wait_enter, sem_wait_return, loop_end, fuse_session_unmount,
                fuse_session_destroy, exit_handler, KernelRequest, ExternalUnmount,
                OtherMount, Finished, vars
  <2> QED BY <1>a, <2>1 DEF Busy
<1>7. CASE loop_cancel
  BY <1>7, <1>c DEF loop_cancel
<1>8. ASSUME NEW w \in Workers, fuse_join_worker(w) PROVE PoolCounts'
  BY <1>8, <1>c DEF fuse_join_worker, CountInv, PoolInv
<1> QED BY <1>1, <1>2, <1>3, <1>4, <1>5, <1>6, <1>7, <1>8 DEF Next, WorkerStep, MainStep

\* The conditions of PoolInv after each step.
LEMMA PoolStep ==
  ASSUME CountInv, Next PROVE PoolInv'
<1> USE DEF mtvars, kernel, history, Go, MainGo
<1>0. pc \in [Workers -> WorkerPc] /\ numavail \in Int
  BY DEF CountInv, ReturnInv, TypeOK
<1>1. ASSUME NEW w \in Workers,
             \/ fuse_do_work_test(w) \/ receive_request(w) \/ receive_enodev(w)
             \/ receive_error(w) \/ receive_eintr(w) \/ process_nested(w)
             \/ process_done(w) \/ fuse_do_work_post(w) \/ fuse_do_work_detach(w)
      PROVE  PoolInv'
  BY <1>0, <1>1
     DEF fuse_do_work_test, receive_request, receive_enodev, receive_error,
         receive_eintr, process_nested, process_done, fuse_do_work_post,
         fuse_do_work_detach, CountInv, PoolInv
<1>2. ASSUME NEW w \in Workers, receive_cancelled(w) PROVE PoolInv'
  BY <1>0, <1>2 DEF receive_cancelled, CountInv, PoolInv
<1>3. ASSUME NEW w \in Workers, fuse_do_work_got(w) PROVE PoolInv'
  <2> DEFINE avail == IF cur[w] \in Forgets THEN numavail ELSE numavail - 1
             now   == [pc EXCEPT ![w] = "work"]
  <2>1. main' = main /\ main # "start" /\ UNCHANGED <<mtexit, cancelled, exited>>
    BY <1>3 DEF fuse_do_work_got, CountInv, ReturnInv, ListedOrLeaving
  <2>2. CASE mtexit
    BY <1>0, <1>3, <2>1, <2>2 DEF fuse_do_work_got, CountInv, PoolInv
  <2>3. CASE ~mtexit
    <3>1. main \in {"test", "tosem", "sem", "cancel"} /\ ~failed' => numavail' > 0
      BY <1>0, <1>3, <2>1, <2>3
         DEF fuse_do_work_got, fuse_loop_start_thread, CountInv, PoolInv, PoolCounts
    <3>2. \A u \in Workers : pc'[u] \in {"post", "ended"} => pc[u] = pc'[u]
      <4>1. \A u \in Workers : now[u] \in {"post", "ended"} => pc[u] = now[u]
        BY <1>0
      <4>2. ASSUME NEW v \in FreshWorker(now), pc' = [now EXCEPT ![v] = "top"]
            PROVE  \A u \in Workers : pc'[u] \in {"post", "ended"} => pc[u] = pc'[u]
        BY <1>0, <4>1, <4>2
      <4> QED BY <1>3, <2>3, <4>1, <4>2 DEF fuse_do_work_got, fuse_loop_start_thread
    <3> QED BY <2>1, <2>3, <3>1, <3>2 DEF CountInv, PoolInv
  <2> QED BY <2>2, <2>3
<1>4. ASSUME NEW w \in Workers, fuse_do_work_after(w) PROVE PoolInv'
  <2>1. main' = main /\ main # "start" /\ UNCHANGED <<mtexit, cancelled, exited, failed>>
    BY <1>4 DEF fuse_do_work_after, CountInv, ReturnInv, ListedOrLeaving, history
  <2>2. main \in {"test", "tosem", "sem", "cancel"} /\ ~failed => numavail' > 0
    BY <1>0, <1>4, <2>1, BoundAssumption DEF fuse_do_work_after, CountInv, PoolInv
  <2>3. \A u \in Workers : pc'[u] \in {"post", "ended"} => pc[u] = pc'[u] \/ mtexit
    BY <1>0, <1>4 DEF fuse_do_work_after
  <2> QED BY <2>1, <2>2, <2>3 DEF CountInv, PoolInv
<1>5. CASE loop_start
  <2>1. list = {} /\ numavail = 0 /\ ~mtexit /\ ~failed /\ cancelled = {}
    BY <1>5 DEF loop_start, CountInv, ReturnInv, PoolInv
  <2>2. \A u \in Workers : pc[u] \in {"free", "unlisted"}
    BY <2>1 DEF CountInv, ReturnInv, ListedOrLeaving
  <2>3. \A u \in Workers : pc'[u] \notin {"post", "ended"}
    BY <1>0, <1>5, <2>2 DEF loop_start, fuse_loop_start_thread
  <2>4. main' \in {"test", "unmount"} /\ UNCHANGED <<mtexit, cancelled>>
    BY <1>5 DEF loop_start
  <2>5. main' = "test" => numavail' > 0
    BY <1>5, <2>1 DEF loop_start, fuse_loop_start_thread
  <2> QED BY <2>1, <2>3, <2>4, <2>5 DEF PoolInv
<1>6. CASE loop_test \/ sem_wait_enter \/ sem_wait_return \/ loop_cancel \/ exit_handler
  BY <1>6 DEF loop_test, sem_wait_enter, sem_wait_return, loop_cancel, exit_handler,
              CountInv, PoolInv
<1>7. ASSUME NEW w \in Workers, fuse_join_worker(w) PROVE PoolInv'
  BY <1>0, <1>7 DEF fuse_join_worker, CountInv, PoolInv
<1>8. CASE loop_end \/ fuse_session_unmount \/ fuse_session_destroy
  BY <1>8 DEF loop_end, fuse_session_unmount, fuse_session_destroy, CountInv, PoolInv
<1>9. CASE KernelRequest \/ ExternalUnmount \/ OtherMount \/ Finished
  BY <1>9 DEF KernelRequest, ExternalUnmount, OtherMount, Finished, vars, CountInv, PoolInv
<1> QED BY <1>1, <1>2, <1>3, <1>4, <1>5, <1>6, <1>7, <1>8, <1>9
        DEF Next, WorkerStep, MainStep

LEMMA CountStep == CountInv /\ [Next]_vars => CountInv'
<1> SUFFICES ASSUME CountInv, [Next]_vars PROVE CountInv'
  OBVIOUS
<1>1. CASE Next
  BY <1>1, ReturnStep, CountsStep, PoolStep DEF CountInv
<1>2. CASE UNCHANGED vars
  <2>1. ReturnInv'
    BY <1>2, ReturnStep DEF CountInv
  <2>2. PoolCounts' /\ PoolInv'
    BY <1>2 DEF vars, mtvars, kernel, history, CountInv, PoolCounts, PoolInv, Busy
  <2> QED BY <2>1, <2>2 DEF CountInv
<1> QED BY <1>1, <1>2

LEMMA CountInit == Init => CountInv
<1> SUFFICES ASSUME Init PROVE CountInv
  OBVIOUS
<1>1. PoolCounts
  <2>1. {w \in list : ~Busy(w)} = {} /\ list = {} /\ numworker = 0 /\ numavail = 0
    BY DEF Init
  <2> QED BY <2>1, FS_EmptySet DEF PoolCounts
<1>2. PoolInv
  BY DEF Init, PoolInv
<1> QED BY <1>1, <1>2, ReturnInit DEF CountInv

LEMMA CountAlways == Spec => []CountInv
BY CountInit, CountStep, PTL DEF Spec

\* The counters never drift: numworker and numavail are what they are meant to count,
\* however often the pool grows and shrinks.
THEOREM CountersExact == Spec => []PoolCounts
<1>1. CountInv => PoolCounts
  BY DEF CountInv
<1> QED BY <1>1, CountAlways, PTL

\* While every start succeeds and the session runs, some worker is ready for the next
\* request or busy only with a FORGET.
THEOREM SomeWorkerAvailable == Spec => []AvailableWorker
<1>1. CountInv => AvailableWorker
  <2> SUFFICES ASSUME CountInv, main \in {"test", "tosem", "sem"}, ~exited, ~failed
               PROVE  \E w \in list : pc[w] \in {"top", "recv", "got"} \/ cur[w] \in Forgets
    BY DEF AvailableWorker
  <2>1. numavail > 0 /\ numavail = Cardinality(FreeWorkers)
    BY DEF CountInv, PoolInv, PoolCounts, FreeWorkers
  <2>2. FreeWorkers # {}
    BY <2>1, FS_EmptySet
  <2>3. PICK w \in list : ~Busy(w)
    BY <2>2 DEF FreeWorkers
  <2>4. w \in Workers /\ pc[w] \in WorkerPc
    BY DEF CountInv, ReturnInv, TypeOK
  <2>5. pc[w] \notin {"free", "unlisted", "post", "ended"}
    BY <2>4 DEF CountInv, ReturnInv, ListedOrLeaving, PoolInv
  <2> QED BY <2>3, <2>4, <2>5 DEF Busy, WorkerPc
<1> QED BY <1>1, CountAlways, PTL

---------------------------------------------------------------------------
(* The references to the channel *)

RefInv == ReturnInv /\ ChanRefs

LEMMA AllocatedFinite ==
  IsFiniteSet(Allocated) /\ Cardinality(Allocated) \in Nat
<1>1. Allocated \subseteq Workers
  BY DEF Allocated
<1> QED BY <1>1, WorkersAssumption, FS_Subset, FS_CardinalityType

\* A start takes one reference with the structure, and none when it fails.
LEMMA StartRefs ==
  ASSUME RefInv, NEW now \in [Workers -> WorkerPc], NEW avail,
         \A u \in Workers : now[u] = "free" <=> pc[u] = "free",
         fuse_loop_start_thread(now, avail)
  PROVE  ChanRefs'
<1>1. ASSUME NEW v \in FreshWorker(now), pc' = [now EXCEPT ![v] = "top"], ctr' = ctr + 1
      PROVE  ChanRefs'
  <2>1. v \in Workers /\ v \notin Allocated
    BY Fresh DEF Allocated
  <2>2. Allocated' = Allocated \cup {v}
    BY <1>1, <2>1 DEF Allocated
  <2>3. Cardinality(Allocated \cup {v}) = Cardinality(Allocated) + 1
    BY <2>1, AllocatedFinite, FS_AddElement
  <2> QED BY <1>1, <2>2, <2>3, AllocatedFinite DEF RefInv, ChanRefs
<1>2. ASSUME pc' = now, ctr' = ctr PROVE ChanRefs'
  <2>1. Allocated' = Allocated
    BY <1>2 DEF Allocated
  <2> QED BY <1>2, <2>1 DEF RefInv, ChanRefs
<1> QED BY <1>1, <1>2 DEF fuse_loop_start_thread

\* A worker that ends, detached or joined, puts its reference with its structure.
LEMMA EndRefs ==
  ASSUME RefInv, NEW w \in Workers, pc[w] # "free", pc' = [pc EXCEPT ![w] = "free"],
         ctr' = ctr - 1
  PROVE  ChanRefs'
<1>1. w \in Allocated /\ Allocated' = Allocated \ {w}
  BY DEF Allocated, RefInv, ReturnInv, TypeOK
<1>2. Cardinality(Allocated \ {w}) = Cardinality(Allocated) - 1
  BY <1>1, AllocatedFinite, FS_RemoveElement
<1> QED BY <1>1, <1>2, AllocatedFinite DEF RefInv, ChanRefs

LEMMA RefStep == RefInv /\ [Next]_vars => RefInv'
<1> SUFFICES ASSUME RefInv, [Next]_vars PROVE ChanRefs'
  BY ReturnStep DEF RefInv
<1> USE DEF mtvars, kernel, history, Go, MainGo
<1>0. pc \in [Workers -> WorkerPc]
  BY DEF RefInv, ReturnInv, TypeOK
<1>a. ASSUME ctr' = ctr, \A u \in Workers : pc'[u] = "free" <=> pc[u] = "free"
      PROVE  ChanRefs'
  <2>1. Allocated' = Allocated
    BY <1>a DEF Allocated
  <2> QED BY <1>a, <2>1 DEF RefInv, ChanRefs
<1>1. ASSUME NEW w \in Workers,
             \/ fuse_do_work_test(w) \/ receive_request(w) \/ receive_enodev(w)
             \/ receive_error(w) \/ receive_eintr(w) \/ receive_cancelled(w)
             \/ process_nested(w) \/ process_done(w) \/ fuse_do_work_after(w)
             \/ fuse_do_work_post(w)
      PROVE  ChanRefs'
  BY <1>0, <1>1, <1>a
     DEF fuse_do_work_test, receive_request, receive_enodev, receive_error, receive_eintr,
         receive_cancelled, process_nested, process_done, fuse_do_work_after,
         fuse_do_work_post
<1>2. ASSUME NEW w \in Workers, fuse_do_work_got(w) PROVE ChanRefs'
  <2> DEFINE avail == IF cur[w] \in Forgets THEN numavail ELSE numavail - 1
             now   == [pc EXCEPT ![w] = "work"]
  <2>1. /\ now \in [Workers -> WorkerPc]
        /\ \A u \in Workers : now[u] = "free" <=> pc[u] = "free"
    BY <1>0, <1>2 DEF fuse_do_work_got, WorkerPc
  <2>2. CASE fuse_loop_start_thread(now, avail)
    BY <2>1, <2>2, StartRefs
  <2>3. CASE ctr' = ctr /\ (pc' = now \/ pc' = [pc EXCEPT ![w] = "ended"])
    BY <1>0, <1>2, <1>a, <2>1, <2>3 DEF fuse_do_work_got
  <2> QED BY <1>2, <2>2, <2>3 DEF fuse_do_work_got
<1>3. ASSUME NEW w \in Workers, fuse_do_work_detach(w) \/ fuse_join_worker(w)
      PROVE  ChanRefs'
  BY <1>3, EndRefs DEF fuse_do_work_detach, fuse_join_worker
<1>4. CASE loop_start
  BY <1>0, <1>4, StartRefs DEF loop_start
<1>5. CASE loop_test \/ sem_wait_enter \/ sem_wait_return \/ loop_cancel \/ loop_end
           \/ fuse_session_unmount \/ fuse_session_destroy \/ exit_handler
           \/ KernelRequest \/ ExternalUnmount \/ OtherMount \/ Finished
           \/ UNCHANGED vars
  BY <1>5, <1>a
     DEF loop_test, sem_wait_enter, sem_wait_return, loop_cancel, loop_end,
         fuse_session_unmount, fuse_session_destroy, exit_handler, KernelRequest,
         ExternalUnmount, OtherMount, Finished, vars
<1> QED BY <1>1, <1>2, <1>3, <1>4, <1>5 DEF Next, WorkerStep, MainStep

LEMMA RefInit == Init => RefInv
<1> SUFFICES ASSUME Init PROVE ChanRefs
  BY ReturnInit DEF RefInv
<1>1. Allocated = {} /\ ctr = 1
  BY DEF Init, Allocated
<1> QED BY <1>1, FS_EmptySet DEF ChanRefs

\* The channel's reference count is exact: one for the session and one for each worker
\* structure, whichever way workers start and end.
THEOREM ChannelRefsExact == Spec => []ChanRefs
<1>1. Spec => []RefInv
  BY RefInit, RefStep, PTL DEF Spec
<1>2. RefInv => ChanRefs
  BY DEF RefInv
<1> QED BY <1>1, <1>2, PTL

====
