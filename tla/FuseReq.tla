------------------------------ MODULE FuseReq ------------------------------
(***************************************************************************)
(* Request objects and interrupts: fuse_lowlevel.c creates an object for    *)
(* every message it reads, keeps ordinary requests on f->list until they    *)
(* are answered, and looks there for the request an INTERRUPT names.  The   *)
(* two are read by different threads, so the interrupt may be looked at     *)
(* before its request is listed, while its handler runs or after it was     *)
(* answered.  With the option intr, fuse.c registers a callback that sends  *)
(* signals to the handler's thread until the handler has finished.          *)
(*                                                                          *)
(* One action is one section under f->lock or under fuse.c's lock; req->lock*)
(* is a variable, as it is held over the callback.  External: the kernel,   *)
(* which interrupts requests that were read and not answered, and sends an  *)
(* interrupt again when it is answered with EAGAIN.                         *)
(***************************************************************************)
EXTENDS Integers, Sequences, FiniteSets, SequencesExt

CONSTANTS Threads,   \* worker threads
          Reqs,      \* requests; stands for their unique ids, too
          Kind,      \* "op", "forget" (no answer), "noop" (no handler is registered)
                     \* or "unknown" (no such opcode)
          NoReq, NoThread

ASSUME KindsAssumption == Kind \in [Reqs -> {"op", "forget", "noop", "unknown"}]
ASSUME NoneIsNone == NoReq \notin Reqs /\ NoThread \notin Threads
ASSUME ThreadsFinite == IsFiniteSet(Threads)

VARIABLES intr,        \* conf.intr, fixed at the start
          req,         \* the object of each request
          lock,        \* req->lock
          interrupts,  \* f->interrupts: the requests its objects name, in order
          data,        \* the fuse_intr_data in the frame of each request's handler
          ctr,         \* references to the channel
          th,          \* where each thread is, and the request it works on
          kreq,        \* kernel: each request
          kintr,       \* kernel: the interrupt of each request
          signalled    \* a signal was sent for the request

objects == <<req, lock, interrupts, ctr>>
kernel  == <<kreq, kintr>>
vars    == <<intr, req, lock, interrupts, data, ctr, th, kreq, kintr, signalled>>

Owning       == {"new", "again", "prepare", "work", "finish", "unregister", "reply", "free"}
Interrupting == {"int", "intlock", "callback", "intunlock", "intput"}

NoObject  == [st |-> "none",  ctr |-> 0, listed |-> FALSE, interrupted |-> FALSE, func |-> FALSE]
NewObject == [st |-> "alive", ctr |-> 1, listed |-> FALSE, interrupted |-> FALSE, func |-> FALSE]
Rest      == [at |-> "idle", r |-> NoReq, i |-> NoReq]

Init ==
  /\ intr \in BOOLEAN
  /\ req = [r \in Reqs |-> NoObject]
  /\ lock = [r \in Reqs |-> NoThread]
  /\ interrupts = <<>>
  /\ data = [r \in Reqs |-> "none"]
  /\ ctr = 1
  /\ th = [t \in Threads |-> Rest]
  /\ kreq = [r \in Reqs |-> "queued"]
  /\ kintr = [r \in Reqs |-> "none"]
  /\ signalled = [r \in Reqs |-> FALSE]

At(t, at)   == th[t].at = at
Goto(t, at) == th' = [th EXCEPT ![t].at = at]

\* The object loses a reference; the last one destroys it.
Put(o) == [o EXCEPT !.ctr = @ - 1, !.st = IF o.ctr = 1 THEN "destroyed" ELSE @]

---------------------------------------------------------------------------
(* A request *)

\* A request is read and its object made.
fuse_ll_alloc_req(t, r) ==
  /\ At(t, "idle") /\ kreq[r] = "queued"
  /\ kreq' = [kreq EXCEPT ![r] = "sent"]
  /\ req' = [req EXCEPT ![r] = NewObject]
  /\ ctr' = ctr + 1
  /\ th' = [th EXCEPT ![t] = [at |-> "new", r |-> r, i |-> NoReq]]
  /\ UNCHANGED <<intr, lock, interrupts, data, kintr, signalled>>

\* An opcode that is not in the table is answered with ENOSYS, and never listed.  (A
\* request before INIT, a second INIT and, with allow_root, another user's request end
\* the same way.)
process_unknown(t) ==
  /\ At(t, "new") /\ Kind[th[t].r] = "unknown"
  /\ Goto(t, "reply")
  /\ UNCHANGED <<intr, objects, data, kernel, signalled>>

\* Mutant: an interrupt that came before its request is dropped without a trace.
check_interrupt_Forget(t) ==
  LET r == th[t].r IN
  /\ At(t, "new") /\ Kind[r] # "unknown"
  /\ \/ \E p \in 1 .. Len(interrupts) :
          /\ interrupts[p] = r
          /\ interrupts' = RemoveAt(interrupts, p)
          /\ req' = [req EXCEPT ![r].listed = TRUE]
          /\ Goto(t, "prepare")
     \/ /\ ~Contains(interrupts, r)
        /\ req' = [req EXCEPT ![r].listed = TRUE]
        /\ \/ interrupts = <<>> /\ Goto(t, "prepare") /\ UNCHANGED interrupts
           \/ /\ interrupts # <<>>
              /\ interrupts' = Tail(interrupts)
              /\ th' = [th EXCEPT ![t].at = "again", ![t].i = Head(interrupts)]
  /\ UNCHANGED <<intr, lock, data, ctr, kernel, signalled>>

\* check_interrupt and the listing, under one lock: an interrupt that came before its
\* request is found (at most one: do_interrupt keeps no second) and freed, but not its
\* reference to the channel; otherwise the first waiting interrupt, if any, is taken off
\* the list, to be answered.
check_interrupt(t) ==
  LET r == th[t].r IN
  /\ At(t, "new") /\ Kind[r] # "unknown"
  /\ \/ \E p \in 1 .. Len(interrupts) :
          /\ interrupts[p] = r
          /\ interrupts' = RemoveAt(interrupts, p)
          /\ req' = [req EXCEPT ![r].listed = TRUE, ![r].interrupted = TRUE]
          /\ Goto(t, "prepare")
     \/ /\ ~Contains(interrupts, r)
        /\ req' = [req EXCEPT ![r].listed = TRUE]
        /\ \/ interrupts = <<>> /\ Goto(t, "prepare") /\ UNCHANGED interrupts
           \/ /\ interrupts # <<>>
              /\ interrupts' = Tail(interrupts)
              /\ th' = [th EXCEPT ![t].at = "again", ![t].i = Head(interrupts)]
  /\ UNCHANGED <<intr, lock, data, ctr, kernel, signalled>>

\* Mutant: the interrupt is freed again after the answer, which already frees it.
reply_again_Twice(t) ==
  LET i == th[t].i IN
  /\ At(t, "again")
  /\ kintr' = [kintr EXCEPT ![i] = IF kreq[i] = "sent" THEN "queued" ELSE @]
  /\ ctr' = ctr - 2
  /\ th' = [th EXCEPT ![t].at = "prepare", ![t].i = NoReq]
  /\ UNCHANGED <<intr, req, lock, interrupts, data, kreq, signalled>>

\* The waiting interrupt is answered with EAGAIN: the kernel sends it again unless its
\* request has been answered.
reply_again(t) ==
  LET i == th[t].i IN
  /\ At(t, "again")
  /\ kintr' = [kintr EXCEPT ![i] = IF kreq[i] = "sent" THEN "queued" ELSE @]
  /\ ctr' = ctr - 1
  /\ th' = [th EXCEPT ![t].at = "prepare", ![t].i = NoReq]
  /\ UNCHANGED <<intr, req, lock, interrupts, data, kreq, signalled>>

\* The handler of r is called with a callback registered.
Interruptible(r) == intr /\ Kind[r] = "op"

\* fuse_prepare_interrupt.  If the request was interrupted before, the callback is called
\* here, by the handler's own thread, and returns at once.
fuse_prepare_interrupt(t) ==
  LET r == th[t].r IN
  /\ At(t, "prepare")
  /\ IF Interruptible(r)
     THEN /\ lock[r] = NoThread
          /\ req' = [req EXCEPT ![r].func = TRUE]
          /\ data' = [data EXCEPT ![r] = "live"]
     ELSE UNCHANGED <<req, data>>
  /\ Goto(t, IF Kind[r] = "noop" THEN "reply" ELSE "work")
  /\ UNCHANGED <<intr, lock, interrupts, ctr, kernel, signalled>>

\* The handler returns; with intr, fuse_finish_interrupt comes first.
handler_returns(t) ==
  /\ At(t, "work")
  /\ Goto(t, IF Interruptible(th[t].r) THEN "finish" ELSE "reply")
  /\ UNCHANGED <<intr, objects, data, kernel, signalled>>

\* Mutant: the callback is unregistered without telling it that the handler has finished.
fuse_do_finish_interrupt_Silent(t) ==
  /\ At(t, "finish")
  /\ Goto(t, "unregister")
  /\ UNCHANGED <<intr, objects, data, kernel, signalled>>

\* fuse_do_finish_interrupt: finished is set under fuse.c's lock ...
fuse_do_finish_interrupt(t) ==
  /\ At(t, "finish")
  /\ data' = [data EXCEPT ![th[t].r] = "finished"]
  /\ Goto(t, "unregister")
  /\ UNCHANGED <<intr, objects, kernel, signalled>>

\* Mutant: the callback is unregistered without req->lock.
fuse_req_interrupt_func_Unlocked(t) ==
  LET r == th[t].r IN
  /\ At(t, "unregister")
  /\ req' = [req EXCEPT ![r].func = FALSE]
  /\ data' = [data EXCEPT ![r] = "gone"]
  /\ Goto(t, "reply")
  /\ UNCHANGED <<intr, lock, interrupts, ctr, kernel, signalled>>

\* ... and the callback is unregistered under req->lock; then the data goes away.
fuse_req_interrupt_func(t) ==
  LET r == th[t].r IN
  /\ At(t, "unregister") /\ lock[r] = NoThread
  /\ req' = [req EXCEPT ![r].func = FALSE]
  /\ data' = [data EXCEPT ![r] = "gone"]
  /\ Goto(t, "reply")
  /\ UNCHANGED <<intr, lock, interrupts, ctr, kernel, signalled>>

\* The answer (none for a FORGET).  The kernel then drops an interrupt not yet read.
send_reply(t) ==
  LET r == th[t].r IN
  /\ At(t, "reply")
  /\ kreq' = [kreq EXCEPT ![r] = "answered"]
  /\ kintr' = [kintr EXCEPT ![r] = IF @ = "queued" THEN "none" ELSE @]
  /\ Goto(t, "free")
  /\ UNCHANGED <<intr, objects, data, signalled>>

\* Mutant: the reference an interrupting thread holds is not respected.
fuse_free_req_Destroy(t) ==
  LET r == th[t].r IN
  /\ At(t, "free")
  /\ req' = [req EXCEPT ![r] = [@ EXCEPT !.func = FALSE, !.listed = FALSE, !.ctr = @ - 1,
                                         !.st = "destroyed"]]
  /\ ctr' = ctr - 1
  /\ th' = [th EXCEPT ![t] = Rest]
  /\ UNCHANGED <<intr, lock, interrupts, data, kernel, signalled>>

\* fuse_free_req, with which every answer ends: off the list, the channel put, the object
\* destroyed unless an interrupting thread holds it.
fuse_free_req(t) ==
  LET r == th[t].r IN
  /\ At(t, "free")
  /\ req' = [req EXCEPT ![r] = Put([@ EXCEPT !.func = FALSE, !.listed = FALSE])]
  /\ ctr' = ctr - 1
  /\ th' = [th EXCEPT ![t] = Rest]
  /\ UNCHANGED <<intr, lock, interrupts, data, kernel, signalled>>

---------------------------------------------------------------------------
(* An interrupt *)

\* The kernel interrupts a request that waits for its answer.
KernelInterrupts(r) ==
  /\ kreq[r] = "sent" /\ kintr[r] = "none" /\ Kind[r] # "forget"
  /\ kintr' = [kintr EXCEPT ![r] = "queued"]
  /\ UNCHANGED <<intr, objects, data, th, kreq, signalled>>

\* An INTERRUPT is read and an object made for it.
receive_interrupt(t, r) ==
  /\ At(t, "idle") /\ kintr[r] = "queued"
  /\ kintr' = [kintr EXCEPT ![r] = "read"]
  /\ ctr' = ctr + 1
  /\ th' = [th EXCEPT ![t] = [at |-> "int", r |-> r, i |-> NoReq]]
  /\ UNCHANGED <<intr, req, lock, interrupts, data, kreq, signalled>>

\* do_interrupt up to the unlock in find_interrupted: a listed request is held; else the
\* interrupt is kept, unless the list already has one for the request.
do_interrupt(t) ==
  LET r == th[t].r IN
  /\ At(t, "int")
  /\ \/ /\ req[r].listed
        /\ req' = [req EXCEPT ![r].ctr = @ + 1]
        /\ Goto(t, "intlock")
        /\ UNCHANGED interrupts
     \/ /\ ~req[r].listed
        /\ interrupts' = IF Contains(interrupts, r) THEN interrupts ELSE Append(interrupts, r)
        /\ th' = [th EXCEPT ![t] = Rest]
        /\ UNCHANGED req
  /\ UNCHANGED <<intr, lock, data, ctr, kernel, signalled>>

\* With req->lock taken, the request is marked and its callback read.
find_interrupted_mark(t) ==
  LET r == th[t].r IN
  /\ At(t, "intlock") /\ lock[r] = NoThread
  /\ lock' = [lock EXCEPT ![r] = t]
  /\ req' = [req EXCEPT ![r].interrupted = TRUE]
  /\ Goto(t, IF req[r].func THEN "callback" ELSE "intunlock")
  /\ UNCHANGED <<intr, interrupts, data, ctr, kernel, signalled>>

\* Mutant: a signal is sent before finished is looked at.
fuse_interrupt_First(t) ==
  LET r == th[t].r IN
  /\ At(t, "callback")
  /\ signalled' = [signalled EXCEPT ![r] = TRUE]
  /\ Goto(t, IF data[r] = "finished" THEN "intunlock" ELSE "callback")
  /\ UNCHANGED <<intr, objects, data, kernel>>

\* fuse_interrupt: signals while the handler has not finished.  (The signals after the
\* first, one a second, change nothing here.)
fuse_interrupt(t) ==
  LET r == th[t].r IN
  /\ At(t, "callback")
  /\ IF data[r] = "finished"
     THEN Goto(t, "intunlock") /\ UNCHANGED signalled
     ELSE signalled' = [signalled EXCEPT ![r] = TRUE] /\ UNCHANGED th
  /\ UNCHANGED <<intr, objects, data, kernel>>

\* The callback, if any, has returned.
find_interrupted_unlock(t) ==
  /\ At(t, "intunlock")
  /\ lock' = [lock EXCEPT ![th[t].r] = NoThread]
  /\ Goto(t, "intput")
  /\ UNCHANGED <<intr, req, interrupts, data, ctr, kernel, signalled>>

\* The end of find_interrupted and of do_interrupt, which destroys its own object (but
\* keeps that object's reference to the channel).
find_interrupted_put(t) ==
  /\ At(t, "intput")
  /\ req' = [req EXCEPT ![th[t].r] = Put(@)]
  /\ th' = [th EXCEPT ![t] = Rest]
  /\ UNCHANGED <<intr, lock, interrupts, data, ctr, kernel, signalled>>

---------------------------------------------------------------------------

Step(t) ==
  \/ \E r \in Reqs : fuse_ll_alloc_req(t, r) \/ receive_interrupt(t, r)
  \/ process_unknown(t) \/ check_interrupt(t) \/ reply_again(t)
  \/ fuse_prepare_interrupt(t) \/ handler_returns(t) \/ fuse_do_finish_interrupt(t)
  \/ fuse_req_interrupt_func(t) \/ send_reply(t) \/ fuse_free_req(t)
  \/ do_interrupt(t) \/ find_interrupted_mark(t) \/ fuse_interrupt(t)
  \/ find_interrupted_unlock(t) \/ find_interrupted_put(t)

Next == (\E t \in Threads : Step(t)) \/ (\E r \in Reqs : KernelInterrupts(r))

\* Threads run, read what is there, and handlers return.
Fairness == \A t \in Threads : WF_vars(Step(t))

Spec == Init /\ [][Next]_vars /\ Fairness

---------------------------------------------------------------------------
(* Properties *)

\* Every variable keeps its type; in particular no counter of references, to an object
\* (req->ctr) or to the channel, falls below zero.
TypeOK ==
  /\ intr \in BOOLEAN
  /\ req \in [Reqs -> [st : {"none", "alive", "destroyed"}, ctr : Nat, listed : BOOLEAN,
                       interrupted : BOOLEAN, func : BOOLEAN]]
  /\ lock \in [Reqs -> Threads \cup {NoThread}]
  /\ interrupts \in Seq(Reqs)
  /\ data \in [Reqs -> {"none", "live", "finished", "gone"}]
  /\ ctr \in Nat
  /\ th \in [Threads -> [at : {"idle"} \cup Owning \cup Interrupting,
                         r : Reqs \cup {NoReq}, i : Reqs \cup {NoReq}]]
  /\ kreq \in [Reqs -> {"queued", "sent", "answered"}]
  /\ kintr \in [Reqs -> {"none", "queued", "read"}]
  /\ signalled \in [Reqs -> BOOLEAN]

Owners(r)  == {t \in Threads : th[t].r = r /\ th[t].at \in Owning}
Holders(r) == {t \in Threads : th[t].r = r /\ th[t].at \in Interrupting \ {"int"}}

\* An object lives exactly as long as a thread uses it: the thread that answers it or
\* threads that interrupt it, whichever is last.  Nobody uses an object, or finds one on
\* the list, that has been destroyed, and none is left behind.
ObjectsExact ==
  /\ TypeOK
  /\ \A r \in Reqs :
       /\ req[r].ctr = Cardinality(Owners(r)) + Cardinality(Holders(r))
       /\ req[r].st = "alive" <=> req[r].ctr > 0
       /\ req[r].listed => Owners(r) # {}
       /\ lock[r] # NoThread => lock[r] \in Holders(r)

\* The callback uses data in the frame of the handler's function: while it runs, that
\* function has not returned.
DataInScope ==
  \A t \in Threads : At(t, "callback") => data[th[t].r] \in {"live", "finished"}

\* fuse_lowlevel.h: "it's not possible for interrupts to be lost".  An interrupt that was
\* read, of a request not yet answered, is known to the request, or waits on the list
\* and the request will find it there, or some thread is still busy with it.
InterruptKept ==
  \A r \in Reqs :
    kintr[r] = "read" /\ kreq[r] = "sent" =>
      \/ req[r].interrupted
      \/ Contains(interrupts, r) /\ ~req[r].listed
      \/ \E t \in Threads : \/ th[t].r = r /\ th[t].at \in {"int", "intlock"}
                            \/ th[t].i = r

\* Signals only hit the thread while it is in the handler of the interrupted request,
\* never the next thing the thread does.
SignalsHitHandler ==
  [][\A r \in Reqs : signalled[r] # signalled'[r] =>
       \E t \in Owners(r) : th[t].at \in {"work", "finish"}]_vars

\* The requests that have an object in use, and the threads that have an interrupt's.
Owned       == {r \in Reqs : Owners(r) # {}}
AtInterrupt == {t \in Threads : th[t].at \in Interrupting \cup {"again"}}

\* The channel is never given up while an object still has a reference to it, although
\* objects end in five different places.
ChannelKept ==
  ctr >= 1 + Cardinality(Owned) + Len(interrupts) + Cardinality(AtInterrupt)

\* Every request that was read is answered, although its thread waits for a thread that
\* interrupts it and that one waits for the handler.
Answered == \A r \in Reqs : kreq[r] = "sent" ~> kreq[r] = "answered"

---------------------------------------------------------------------------
(* Inductive strengthenings *)

\* One thread answers a request.
OneOwner == \A r \in Reqs : \A t, u \in Owners(r) : t = u

\* A request that was not read yet is known to no thread, and not interrupted.
QueuedUnknown ==
  \A r \in Reqs : kreq[r] = "queued" =>
    /\ kintr[r] = "none"
    /\ \A t \in Threads : th[t].r # r

\* req->lock is held only by a thread between the look at the callback and its return.
LockOwned ==
  \A r \in Reqs : lock[r] # NoThread =>
    th[lock[r]].r = r /\ th[lock[r]].at \in {"callback", "intunlock"}

\* A thread has an interrupt to answer exactly between check_interrupt and the answer.
AgainNames == \A t \in Threads : th[t].at = "again" <=> th[t].i # NoReq

====
