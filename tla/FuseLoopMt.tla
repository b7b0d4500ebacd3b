----------------------------- MODULE FuseLoopMt -----------------------------
(***************************************************************************)
(* The multi-threaded session loop of libfuse (fuse_loop_mt.c), with the    *)
(* receive path and the channel of fuse_lowlevel.c, the signal handler of   *)
(* fuse_signals.c and the teardown of fuse_main_real: a main thread that    *)
(* sleeps on a semaphore until the session exits, and a pool of workers     *)
(* that grows by a worker whenever the last free one takes a request.       *)
(*                                                                          *)
(* What mt->lock protects is one action.  Between two actions of a thread   *)
(* every other thread, a signal and the kernel may run.  The kernel's side  *)
(* of /dev/fuse is external: a set of requests, some of which can only be   *)
(* answered after another request of the same mount has been (nosqlFS       *)
(* serves the host's "/", its own mountpoint included, so a handler's       *)
(* system call may come back as a request).                                 *)
(***************************************************************************)
EXTENDS Integers, FiniteSets

CONSTANTS Workers,   \* worker structures (and threads) that can exist at a time
          Reqs,      \* requests of the kernel
          Forgets,   \* the FORGET requests among them
          Child,     \* the request a request's handler waits for, or NoReq
          NoReq,
          MaxAvail,  \* the pool shrinks above this many free workers (10 in the code)
          MaxIntr    \* bound: reads of the device that EINTR interrupts

ASSUME WorkersAssumption == IsFiniteSet(Workers)
ASSUME ReqsAssumption  == Forgets \subseteq Reqs /\ NoReq \notin Reqs
ASSUME ChildAssumption == /\ Child \in [Reqs -> Reqs \cup {NoReq}]
                          /\ \A r \in Forgets : Child[r] = NoReq
ASSUME BoundAssumption == MaxAvail \in Nat \ {0} /\ MaxIntr \in Nat

VARIABLES exited,     \* se->exited
          mtexit,     \* mt.exit
          error,      \* mt.error # 0
          sem,        \* mt.finish
          numworker,  \* mt.numworker
          numavail,   \* mt.numavail
          list,       \* the workers on mt.main's list
          pc,         \* where in fuse_do_work each worker is; "free": no such worker
          cur,        \* the request in each worker's buffer
          cancelled,  \* workers with a pending pthread_cancel
          main,       \* where in fuse_session_loop_mt and the teardown main is
          ctr,        \* references to the session's channel
          req,        \* kernel: the state of each request
          mnt,        \* kernel: what is mounted on the mountpoint
          intr,       \* reads interrupted so far
          failed,     \* a worker could not be started
          signalled   \* a HUP, INT or TERM signal was delivered

mtvars  == <<mtexit, error, sem, numworker, numavail, list, cancelled>>
kernel  == <<req, mnt>>
history == <<intr, failed, signalled>>
vars == <<exited, mtvars, pc, cur, main, ctr, kernel, history>>

WorkerPc == {"free", "top", "recv", "got", "work", "after", "unlisted", "post", "ended"}
MainPc   == {"start", "test", "tosem", "sem", "cancel", "join", "unmount", "destroy",
             "done"}

\* Types: every variable stays in its range.
TypeOK ==
  /\ exited \in BOOLEAN /\ mtexit \in BOOLEAN /\ error \in BOOLEAN
  /\ sem \in Nat /\ numworker \in Int /\ numavail \in Int /\ ctr \in Int
  /\ list \subseteq Workers /\ cancelled \subseteq Workers
  /\ pc \in [Workers -> WorkerPc]
  /\ cur \in [Workers -> Reqs \cup {NoReq}]
  /\ main \in MainPc
  /\ req \in [Reqs -> {"none", "queued", "taken", "done", "lost"}]
  /\ mnt \in {"fuse", "none", "other"}
  /\ intr \in 0 .. MaxIntr /\ failed \in BOOLEAN /\ signalled \in BOOLEAN

\* After fuse_mount, fuse_daemonize and fuse_set_signal_handlers.
Init ==
  /\ exited = FALSE /\ mtexit = FALSE /\ error = FALSE
  /\ sem = 0 /\ numworker = 0 /\ numavail = 0 /\ ctr = 1
  /\ list = {} /\ cancelled = {}
  /\ pc = [w \in Workers |-> "free"]
  /\ cur = [w \in Workers |-> NoReq]
  /\ main = "start"
  /\ req = [r \in Reqs |-> "none"]
  /\ mnt = "fuse"
  /\ intr = 0 /\ failed = FALSE /\ signalled = FALSE

---------------------------------------------------------------------------
(* Workers *)

Go(w, from, to) == pc[w] = from /\ pc' = [pc EXCEPT ![w] = to]

\* malloc and pthread_create: which free structure is taken does not matter.
FreshWorker(now) ==
  {v \in Workers : now[v] = "free" /\ v = CHOOSE u \in Workers : now[u] = "free"}

\* fuse_loop_start_thread: on success the worker v is listed and counted, and its
\* thread is at the top of its loop; on failure nothing is left behind.  now and
\* avail are pc and numavail as the caller leaves them.
fuse_loop_start_thread(now, avail) ==
  \/ \E v \in FreshWorker(now) :
       /\ pc' = [now EXCEPT ![v] = "top"]
       /\ list' = list \cup {v}
       /\ numavail' = avail + 1
       /\ numworker' = numworker + 1
       /\ ctr' = ctr + 1
       /\ UNCHANGED failed
  \/ /\ pc' = now /\ numavail' = avail /\ failed' = TRUE
     /\ UNCHANGED <<list, numworker, ctr>>

\* while (!fuse_session_exited(mt->se))
fuse_do_work_test(w) ==
  /\ Go(w, "top", IF exited THEN "post" ELSE "recv")
  /\ UNCHANGED <<exited, mtvars, cur, main, ctr, kernel, history>>

\* read() returns a request.  fuse_session_receive_buf_int looks at exited again and
\* drops the request when the session is over.
receive_request(w) ==
  \E r \in Reqs :
    /\ req[r] = "queued" /\ mnt = "fuse"
    /\ Go(w, "recv", IF exited THEN "post" ELSE "got")
    /\ req' = [req EXCEPT ![r] = IF exited THEN "lost" ELSE "taken"]
    /\ cur' = [cur EXCEPT ![w] = IF exited THEN NoReq ELSE r]
    /\ UNCHANGED <<exited, mtvars, main, ctr, mnt, history>>

\* Mutant: ENODEV ends the worker without ending the session.
receive_enodev_NoExit(w) ==
  /\ mnt # "fuse"
  /\ Go(w, "recv", "post")
  /\ UNCHANGED <<exited, mtvars, cur, main, ctr, kernel, history>>

\* read() fails with ENODEV once the file system is unmounted: the session exits.
receive_enodev(w) ==
  /\ mnt # "fuse"
  /\ Go(w, "recv", "post")
  /\ exited' = TRUE
  /\ UNCHANGED <<mtvars, cur, main, ctr, kernel, history>>

\* Any other error but EINTR ends the loop with -1, unless the session is over.
receive_error(w) ==
  /\ Go(w, "recv", "post")
  /\ exited' = TRUE
  /\ error' = (error \/ ~exited)
  /\ UNCHANGED <<mtexit, sem, numworker, numavail, list, cancelled, cur, main, ctr,
                 kernel, history>>

\* EINTR: 0 when the session is over, and another turn of the loop otherwise.
receive_eintr(w) ==
  /\ intr < MaxIntr
  /\ Go(w, "recv", IF exited THEN "post" ELSE "top")
  /\ intr' = intr + 1
  /\ UNCHANGED <<exited, mtvars, cur, main, ctr, kernel, failed, signalled>>

\* Only the receive is a cancellation point: cancelling is disabled everywhere else.
receive_cancelled(w) ==
  /\ w \in cancelled
  /\ Go(w, "recv", "ended")
  /\ UNCHANGED <<exited, mtvars, cur, main, ctr, kernel, history>>

\* Mutant: no worker is started when the last free one takes a request.
fuse_do_work_got_NoStart(w) ==
  LET avail == IF cur[w] \in Forgets THEN numavail ELSE numavail - 1 IN
  /\ pc[w] = "got" /\ ~mtexit
  /\ pc' = [pc EXCEPT ![w] = "work"]
  /\ numavail' = avail
  /\ UNCHANGED <<exited, mtexit, error, sem, numworker, list, cancelled, cur, main, ctr,
                 kernel, history>>

\* The section under mt->lock after a request has come in: nothing is done for it
\* once the loop is being torn down, and a FORGET does not make its worker busy.
fuse_do_work_got(w) ==
  LET avail == IF cur[w] \in Forgets THEN numavail ELSE numavail - 1
      now   == [pc EXCEPT ![w] = "work"]
  IN
  /\ pc[w] = "got"
  /\ \/ /\ mtexit
        /\ pc' = [pc EXCEPT ![w] = "ended"]
        /\ req' = [req EXCEPT ![cur[w]] = "lost"]
        /\ cur' = [cur EXCEPT ![w] = NoReq]
        /\ UNCHANGED <<list, numavail, numworker, ctr, failed>>
     \/ /\ ~mtexit /\ avail = 0
        /\ fuse_loop_start_thread(now, avail)
        /\ UNCHANGED <<req, cur>>
     \/ /\ ~mtexit /\ avail # 0
        /\ pc' = now /\ numavail' = avail
        /\ UNCHANGED <<list, numworker, ctr, failed, req, cur>>
  /\ UNCHANGED <<exited, mtexit, error, sem, cancelled, main, mnt, intr, signalled>>

\* The request's handler makes a system call on a path under the mountpoint: the
\* kernel sends it back as a request of its own.
process_nested(w) ==
  LET n == IF pc[w] = "work" THEN Child[cur[w]] ELSE NoReq IN
  /\ n # NoReq /\ mnt = "fuse"
  /\ req[n] = "none"
  /\ req' = [req EXCEPT ![n] = "queued"]
  /\ UNCHANGED <<exited, mtvars, pc, cur, main, ctr, mnt, history>>

\* fuse_session_process_buf_int returns: the handler waited for nothing, or for a
\* request that was answered or aborted by an unmount.
process_done(w) ==
  /\ Go(w, "work", "after")
  /\ LET n == Child[cur[w]] IN n # NoReq /\ mnt = "fuse" => req[n] = "done"
  /\ req' = [req EXCEPT ![cur[w]] = "done"]
  /\ UNCHANGED <<exited, mtvars, cur, main, ctr, mnt, history>>

\* The shape of the section after a request, for the mutants: a worker leaves the
\* pool when more than toomany are free; left is the list then, taken what numavail loses.
AfterLike(w, toomany, left, taken) ==
  LET avail == IF cur[w] \in Forgets THEN numavail ELSE numavail + 1 IN
  /\ pc[w] = "after"
  /\ cur' = [cur EXCEPT ![w] = NoReq]
  /\ IF avail > toomany /\ ~mtexit
     THEN /\ pc' = [pc EXCEPT ![w] = "unlisted"]
          /\ list' = left
          /\ numavail' = avail - taken
          /\ numworker' = numworker - 1
     ELSE /\ pc' = [pc EXCEPT ![w] = "top"]
          /\ numavail' = avail
          /\ UNCHANGED <<list, numworker>>
  /\ UNCHANGED <<exited, mtexit, error, sem, cancelled, main, ctr, kernel, history>>

\* Mutant: a worker that leaves the pool stays counted as free.
fuse_do_work_after_StillFree(w) == AfterLike(w, MaxAvail, list \ {w}, 0)

\* Mutant: a worker that leaves the pool stays on the list.
fuse_do_work_after_StillListed(w) == AfterLike(w, MaxAvail, list, 1)

\* Mutant: the pool shrinks one worker too early.
fuse_do_work_after_OneTooFew(w) == AfterLike(w, MaxAvail - 1, list \ {w}, 1)

\* The section under mt->lock after a request: the worker is free again, and leaves
\* the pool when there are too many.
fuse_do_work_after(w) ==
  LET avail == IF cur[w] \in Forgets THEN numavail ELSE numavail + 1 IN
  /\ pc[w] = "after"
  /\ cur' = [cur EXCEPT ![w] = NoReq]
  /\ \/ /\ avail > MaxAvail /\ mtexit
        /\ pc' = [pc EXCEPT ![w] = "ended"]
        /\ numavail' = avail
        /\ UNCHANGED <<list, numworker>>
     \/ /\ avail > MaxAvail /\ ~mtexit
        /\ pc' = [pc EXCEPT ![w] = "unlisted"]
        /\ list' = list \ {w}
        /\ numavail' = avail - 1
        /\ numworker' = numworker - 1
     \/ /\ avail <= MaxAvail
        /\ pc' = [pc EXCEPT ![w] = "top"]
        /\ numavail' = avail
        /\ UNCHANGED <<list, numworker>>
  /\ UNCHANGED <<exited, mtexit, error, sem, cancelled, main, ctr, kernel, history>>

\* Mutant: a worker that leaves the pool keeps its reference to the channel.
fuse_do_work_detach_NoPut(w) ==
  /\ Go(w, "unlisted", "free")
  /\ UNCHANGED <<exited, mtvars, cur, main, ctr, kernel, history>>

\* pthread_detach, fuse_chan_put and free of a worker that has left the list: it
\* touches neither mt nor the session any more.
fuse_do_work_detach(w) ==
  /\ Go(w, "unlisted", "free")
  /\ ctr' = ctr - 1
  /\ UNCHANGED <<exited, mtvars, cur, main, kernel, history>>

\* sem_post(&mt->finish) and return.
fuse_do_work_post(w) ==
  /\ Go(w, "post", "ended")
  /\ sem' = sem + 1
  /\ UNCHANGED <<exited, mtexit, error, numworker, numavail, list, cancelled, cur, main,
                 ctr, kernel, history>>

---------------------------------------------------------------------------
(* Main thread *)

MainGo(from, to) == main = from /\ main' = to

\* The first worker; when it cannot be started the loop resets the session and returns.
loop_start ==
  /\ main = "start"
  /\ fuse_loop_start_thread(pc, numavail)
  /\ main' = IF failed' THEN "unmount" ELSE "test"
  /\ exited' = (exited /\ ~failed')
  /\ UNCHANGED <<mtexit, error, sem, cancelled, cur, kernel, intr, signalled>>

\* while (!fuse_session_exited(se)) sem_wait(&mt.finish): the test, the call, and
\* the return from the call.
loop_test ==
  /\ MainGo("test", IF exited THEN "cancel" ELSE "tosem")
  /\ UNCHANGED <<exited, mtvars, pc, cur, ctr, kernel, history>>

sem_wait_enter ==
  /\ MainGo("tosem", "sem")
  /\ UNCHANGED <<exited, mtvars, pc, cur, ctr, kernel, history>>

sem_wait_return ==
  /\ MainGo("sem", "test")
  /\ sem > 0 /\ sem' = sem - 1
  /\ UNCHANGED <<exited, mtexit, error, numworker, numavail, list, cancelled, pc, cur,
                 ctr, kernel, history>>

\* Every listed worker is cancelled and mt.exit set, under mt.lock.
loop_cancel ==
  /\ MainGo("cancel", "join")
  /\ cancelled' = list
  /\ mtexit' = TRUE
  /\ UNCHANGED <<exited, error, sem, numworker, numavail, list, pc, cur, ctr, kernel,
                 history>>

\* fuse_join_worker, for a worker of the list whose thread has returned (which one
\* comes first does not matter: all of them are joined).
fuse_join_worker(w) ==
  /\ main = "join" /\ w \in list
  /\ Go(w, "ended", "free")
  /\ list' = list \ {w}
  /\ cancelled' = cancelled \ {w}
  /\ ctr' = ctr - 1
  /\ UNCHANGED <<exited, mtexit, error, sem, numworker, numavail, cur, main, kernel,
                 history>>

\* Mutant: the loop returns without waiting for its workers.
loop_end_NoJoin ==
  /\ MainGo("join", "unmount")
  /\ exited' = FALSE
  /\ UNCHANGED <<mtvars, pc, cur, ctr, kernel, history>>

\* The list is empty: mt is destroyed and the session reset.
loop_end ==
  /\ MainGo("join", "unmount")
  /\ list = {}
  /\ exited' = FALSE
  /\ UNCHANGED <<mtvars, pc, cur, ctr, kernel, history>>

\* fuse_session_unmount: fuse_session_remove_chan has already cleared se->ch when it
\* is looked at, so fuse_kern_unmount gets -1 for the descriptor, does not poll it to
\* see whether the file system is unmounted, and the channel keeps its reference.
fuse_session_unmount ==
  /\ MainGo("unmount", "destroy")
  /\ mnt' = "none"
  /\ UNCHANGED <<exited, mtvars, pc, cur, ctr, req, history>>

\* fuse_destroy: se->ch is NULL by now.
fuse_session_destroy ==
  /\ MainGo("destroy", "done")
  /\ UNCHANGED <<exited, mtvars, pc, cur, ctr, kernel, history>>

\* exit_handler runs in the main thread (the workers block the signals).  A sem_wait
\* that is under way is interrupted; a later one is not.
exit_handler ==
  /\ main \in {"start", "test", "tosem", "sem", "cancel", "join"}
  /\ ~signalled /\ signalled' = TRUE
  /\ exited' = TRUE
  /\ main' = IF main = "sem" THEN "test" ELSE main
  /\ UNCHANGED <<mtvars, pc, cur, ctr, kernel, intr, failed>>

---------------------------------------------------------------------------
(* The kernel and other processes *)

Roots == {r \in Reqs : \A q \in Reqs : Child[q] # r}

\* The kernel sends each request once.
KernelRequest ==
  \E r \in Roots :
    /\ mnt = "fuse" /\ req[r] = "none"
    /\ req' = [req EXCEPT ![r] = "queued"]
    /\ UNCHANGED <<exited, mtvars, pc, cur, main, ctr, mnt, history>>

\* fusermount -u by the user.
ExternalUnmount ==
  /\ mnt = "fuse" /\ mnt' = "none"
  /\ UNCHANGED <<exited, mtvars, pc, cur, main, ctr, req, history>>

\* Another file system is mounted on the same directory.
OtherMount ==
  /\ mnt = "none" /\ main # "done" /\ mnt' = "other"
  /\ UNCHANGED <<exited, mtvars, pc, cur, main, ctr, req, history>>

\* The session is over and no thread is left.
Finished ==
  /\ main = "done" /\ \A w \in Workers : pc[w] = "free"
  /\ UNCHANGED vars

WorkerStep(w) ==
  \/ fuse_do_work_test(w)  \/ receive_request(w)     \/ receive_enodev(w)
  \/ receive_cancelled(w)  \/ fuse_do_work_got(w)    \/ process_nested(w)
  \/ process_done(w)       \/ fuse_do_work_after(w)  \/ fuse_do_work_detach(w)
  \/ fuse_do_work_post(w)

MainStep ==
  \/ loop_start \/ loop_test \/ sem_wait_enter \/ sem_wait_return \/ loop_cancel
  \/ \E w \in Workers : fuse_join_worker(w)
  \/ loop_end \/ fuse_session_unmount \/ fuse_session_destroy

Next ==
  \/ \E w \in Workers : WorkerStep(w) \/ receive_error(w) \/ receive_eintr(w)
  \/ MainStep
  \/ exit_handler
  \/ KernelRequest \/ ExternalUnmount \/ OtherMount
  \/ Finished

\* A thread that can run runs, and a blocked read returns when there is something to
\* return: weak fairness of every thread.  No signal, request, error or unmount has
\* to happen.
Fairness == (\A w \in Workers : WF_vars(WorkerStep(w))) /\ WF_vars(MainStep)

Spec == Init /\ [][Next]_vars /\ Fairness

---------------------------------------------------------------------------
(* Properties *)

Allocated == {w \in Workers : pc[w] # "free"}

\* A worker that a request other than FORGET keeps busy.
Busy(w) == pc[w] \in {"work", "after"} /\ cur[w] \notin Forgets

\* Until the teardown, numworker and numavail count the listed workers and the ones
\* of them that are not busy: no order of takes, FORGETs, starts that fail and
\* workers leaving the pool makes them drift.
PoolCounts ==
  ~mtexit => /\ numworker = Cardinality(list)
             /\ numavail = Cardinality({w \in list : ~Busy(w)})

\* Every worker that exists is on the list exactly until it has left the pool or
\* has been joined: the unlocked walk over the list at the end misses none, and joins
\* none that was detached.
ListedOrLeaving ==
  \A w \in Workers : w \in list <=> pc[w] \notin {"free", "unlisted"}

\* Once fuse_session_loop_mt has returned (mt was on its stack), no thread is left
\* that will still touch mt or the session.
NoUseAfterReturn ==
  main \in {"unmount", "destroy", "done"} => \A w \in Workers : pc[w] \in {"free", "unlisted"}

\* Each worker structure, and the session, holds one reference to the channel: none
\* is lost or put twice by the two ways a worker can end.
ChanRefs == ctr = 1 + Cardinality(Allocated)

\* While the session runs and every start has succeeded, some worker is ready to
\* receive or only delayed by a FORGET, however many requests are being processed.
AvailableWorker ==
  main \in {"test", "tosem", "sem"} /\ ~exited /\ ~failed =>
    \E w \in list : pc[w] \in {"top", "recv", "got"} \/ cur[w] \in Forgets

\* What makes AvailableWorker inductive: the counter stays positive, and a worker has
\* left its loop only because the session is over.
PoolInv ==
  /\ main = "start" => list = {} /\ numavail = 0
  /\ main \in {"start", "test", "tosem", "sem", "cancel"} => ~mtexit /\ cancelled = {}
  /\ main \in {"cancel", "join"} => exited
  /\ main = "join" => mtexit
  /\ main \in {"test", "tosem", "sem", "cancel"} /\ ~failed => numavail > 0
  /\ main \in {"test", "tosem", "sem", "cancel", "join"} =>
       \A w \in Workers : pc[w] \in {"post", "ended"} => exited

\* A request gets its answer even when requests wait for others of the same mount,
\* unless a worker could not be started, the session ends or the mount goes away.
Served ==
  \A r \in Reqs :
    req[r] = "queued" ~> req[r] = "done" \/ failed \/ exited \/ main = "done" \/ mnt # "fuse"

\* An unmount ends the program: the main thread's sem_wait is woken, no worker stays in
\* a read or in a handler, and all of them are joined.  (A signal or an error of the
\* device does not always: a handler that waits for a request of the same mount waits
\* for workers that have been cancelled.)
UnmountEnds == mnt # "fuse" ~> main = "done"

\* fuse_common.h: "Exit session on HUP, TERM and INT signals".  A signal between the
\* test of exited and sem_wait interrupts nothing, and the loop sleeps on.
SignalEnds == signalled ~> main = "done"

====
