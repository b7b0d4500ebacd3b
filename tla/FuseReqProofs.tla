--------------------------- MODULE FuseReqProofs ---------------------------
(***************************************************************************)
(* Proofs about FuseReq, for any threads and requests.  An interrupt's      *)
(* callback only uses the data of a handler that is still there, and its    *)
(* signals only reach a thread inside the handler.  For any finite pool of  *)
(* threads: the references to the objects and to the channel are exact or   *)
(* safe, and no interrupt is lost.                                          *)
(***************************************************************************)
EXTENDS FuseReq, FiniteSetTheorems, TLAPS

Places == {"idle"} \cup Owning \cup Interrupting
Work   == [at : Places, r : Reqs \cup {NoReq}, i : Reqs \cup {NoReq}]
Object == [st : {"none", "alive", "destroyed"}, ctr : Int, listed : BOOLEAN,
           interrupted : BOOLEAN, func : BOOLEAN]

\* A thread that works works on a request.
Busy(w) == w.at # "idle" => w.r \in Reqs

ThreadShape == th \in [Threads -> Work] /\ \A t \in Threads : Busy(th[t])

\* The types the argument needs.  (That no counter is negative needs ObjectsExact.)
Shape ==
  /\ req \in [Reqs -> Object]
  /\ lock \in [Reqs -> Threads \cup {NoThread}]
  /\ interrupts \in Seq(Reqs)
  /\ data \in [Reqs -> {"none", "live", "finished", "gone"}]
  /\ signalled \in [Reqs -> BOOLEAN]
  /\ ThreadShape

\* A thread holds req->lock from the look at the callback to its return, ...
LockHeld == \A t \in Threads : th[t].at \in {"callback", "intunlock"} => lock[th[t].r] = t

\* ... a callback that is registered has data, ...
FuncHasData == \A r \in Reqs : req[r].func => data[r] \in {"live", "finished"}

\* ... and data that is live belongs to a thread in a handler that was prepared for
\* interrupts.
LiveInHandler ==
  \A r \in Reqs : data[r] = "live" =>
    /\ Interruptible(r)
    /\ \E t \in Threads : th[t].r = r /\ th[t].at \in {"work", "finish"}

Scopes == LockHeld /\ FuncHasData /\ DataInScope /\ LiveInHandler

IInv == Shape /\ Scopes

---------------------------------------------------------------------------
(* Objects and threads *)

LEMMA NewType == NewObject \in Object /\ NewObject.func = FALSE
BY DEF Object, NewObject

\* What the code assigns to an object keeps its type; only the assignments to u.ni.func
\* change the callback.
ReqSet(f, r, b) == f \in [Reqs -> Object] /\ \A x \in Reqs : f[x].func = IF x = r THEN b ELSE req[x].func

LEMMA ObjectPut ==
  ASSUME NEW o \in Object
  PROVE  /\ Put(o) \in Object /\ Put(o).func = o.func
         /\ [o EXCEPT !.func = FALSE, !.listed = FALSE] \in Object
         /\ [o EXCEPT !.func = FALSE, !.listed = FALSE].func = FALSE
<1>1. ASSUME NEW n \in Int, NEW s \in {"none", "alive", "destroyed"}
      PROVE  /\ [o EXCEPT !.ctr = n, !.st = s] \in Object
             /\ [o EXCEPT !.ctr = n, !.st = s].func = o.func
  BY DEF Object
<1>2. o.ctr - 1 \in Int /\ (IF o.ctr = 1 THEN "destroyed" ELSE o.st) \in {"none", "alive", "destroyed"}
  BY DEF Object
<1>3. Put(o) = [o EXCEPT !.ctr = o.ctr - 1, !.st = IF o.ctr = 1 THEN "destroyed" ELSE o.st]
  BY DEF Put, Object
<1>4. /\ [o EXCEPT !.func = FALSE, !.listed = FALSE] \in Object
      /\ [o EXCEPT !.func = FALSE, !.listed = FALSE].func = FALSE
  BY DEF Object
<1> QED BY <1>1, <1>2, <1>3, <1>4, ZenonT(30)

LEMMA ReqFields ==
  ASSUME req \in [Reqs -> Object], NEW r \in Reqs
  PROVE  /\ ReqSet([req EXCEPT ![r].listed = TRUE], r, req[r].func)
         /\ ReqSet([req EXCEPT ![r].listed = TRUE, ![r].interrupted = TRUE], r, req[r].func)
         /\ ReqSet([req EXCEPT ![r].interrupted = TRUE], r, req[r].func)
         /\ ReqSet([req EXCEPT ![r].ctr = @ + 1], r, req[r].func)
         /\ ReqSet([req EXCEPT ![r].func = TRUE], r, TRUE)
         /\ ReqSet([req EXCEPT ![r].func = FALSE], r, FALSE)
         /\ ReqSet([req EXCEPT ![r] = Put(@)], r, req[r].func)
         /\ ReqSet([req EXCEPT ![r] = Put([@ EXCEPT !.func = FALSE, !.listed = FALSE])], r, FALSE)
         /\ ReqSet([req EXCEPT ![r] = NewObject], r, FALSE)
<1>1. ReqSet([req EXCEPT ![r].listed = TRUE], r, req[r].func)
  BY DEF ReqSet, Object
<1>2. ReqSet([req EXCEPT ![r].listed = TRUE, ![r].interrupted = TRUE], r, req[r].func)
  BY DEF ReqSet, Object
<1>3. ReqSet([req EXCEPT ![r].interrupted = TRUE], r, req[r].func)
  BY DEF ReqSet, Object
<1>4. ReqSet([req EXCEPT ![r].ctr = @ + 1], r, req[r].func)
  BY DEF ReqSet, Object
<1>5. ReqSet([req EXCEPT ![r].func = TRUE], r, TRUE)
  BY DEF ReqSet, Object
<1>6. ReqSet([req EXCEPT ![r].func = FALSE], r, FALSE)
  BY DEF ReqSet, Object
<1>7. ReqSet([req EXCEPT ![r] = Put(@)], r, req[r].func)
  BY ObjectPut DEF ReqSet
<1>8. ReqSet([req EXCEPT ![r] = Put([@ EXCEPT !.func = FALSE, !.listed = FALSE])], r, FALSE)
  BY ObjectPut DEF ReqSet
<1>9. ReqSet([req EXCEPT ![r] = NewObject], r, FALSE)
  BY NewType DEF ReqSet
<1> QED BY <1>1, <1>2, <1>3, <1>4, <1>5, <1>6, <1>7, <1>8, <1>9

LEMMA GotoShape ==
  ASSUME ThreadShape, NEW t \in Threads, NEW a \in Places, th[t].at # "idle", Goto(t, a)
  PROVE  ThreadShape'
BY DEF ThreadShape, Work, Busy, Goto

LEMMA SetShape ==
  ASSUME ThreadShape, NEW t \in Threads, NEW w \in Work, Busy(w), th' = [th EXCEPT ![t] = w]
  PROVE  ThreadShape'
BY DEF ThreadShape, Busy

LEMMA RestShape == Rest \in Work /\ Busy(Rest)
BY DEF Work, Rest, Places, Busy

---------------------------------------------------------------------------
(* Types *)

LEMMA ShapeInit == Init => Shape
<1> SUFFICES ASSUME Init PROVE Shape
  OBVIOUS
<1>1. NoObject \in Object
  BY DEF NoObject, Object
<1>2. ThreadShape
  BY RestShape DEF Init, ThreadShape
<1> QED BY <1>1, <1>2 DEF Init, Shape

\* A step that only moves a thread, or lets it rest.
LEMMA MoveShape ==
  ASSUME Shape, NEW t \in Threads, th[t].at # "idle",
         \/ \E a \in Places : Goto(t, a)
         \/ th' = [th EXCEPT ![t] = Rest],
         UNCHANGED <<req, lock, interrupts, data, signalled>>
  PROVE  Shape'
<1>1. ThreadShape'
  BY GotoShape, SetShape, RestShape DEF Shape
<1> QED BY <1>1 DEF Shape

LEMMA ShapeStep == Shape /\ [Next]_vars => Shape'
<1> SUFFICES ASSUME Shape, [Next]_vars PROVE Shape'
  OBVIOUS
<1> USE DEF objects, kernel, At
<1>a. /\ "idle" \in Places /\ "new" \in Places /\ "again" \in Places /\ "prepare" \in Places
      /\ "work" \in Places /\ "finish" \in Places /\ "unregister" \in Places
      /\ "reply" \in Places /\ "free" \in Places /\ "int" \in Places /\ "intlock" \in Places
      /\ "callback" \in Places /\ "intunlock" \in Places /\ "intput" \in Places
  BY DEF Places, Owning, Interrupting
<1>b. \A t \in Threads : th[t].at # "idle" => th[t].r \in Reqs
  BY DEF Shape, ThreadShape, Busy
<1>c. ASSUME NEW r \in Reqs, NEW f, NEW b, ReqSet(f, r, b) PROVE f \in [Reqs -> Object]
  BY <1>c DEF ReqSet
<1>d. req \in [Reqs -> Object]
  BY DEF Shape
<1>1. ASSUME NEW t \in Threads, NEW r \in Reqs, fuse_ll_alloc_req(t, r) PROVE Shape'
  <2>1. [at |-> "new", r |-> r, i |-> NoReq] \in Work /\ Busy([at |-> "new", r |-> r, i |-> NoReq])
    BY <1>a DEF Work, Busy
  <2>2. ThreadShape'
    BY <1>1, <2>1, SetShape DEF fuse_ll_alloc_req, Shape
  <2> QED BY <1>1, <2>2, NewType DEF fuse_ll_alloc_req, Shape
<1>2. ASSUME NEW t \in Threads, NEW r \in Reqs, receive_interrupt(t, r) PROVE Shape'
  <2>1. [at |-> "int", r |-> r, i |-> NoReq] \in Work /\ Busy([at |-> "int", r |-> r, i |-> NoReq])
    BY <1>a DEF Work, Busy
  <2>2. ThreadShape'
    BY <1>2, <2>1, SetShape DEF receive_interrupt, Shape
  <2> QED BY <1>2, <2>2 DEF receive_interrupt, Shape
<1>3. ASSUME NEW t \in Threads, process_unknown(t) PROVE Shape'
  BY <1>3, <1>a, MoveShape DEF process_unknown
<1>4. ASSUME NEW t \in Threads, check_interrupt(t) PROVE Shape'
  <2>1. th[t].r \in Reqs /\ th[t].at # "idle"
    BY <1>4, <1>b DEF check_interrupt
  <2>2. \A p \in 1 .. Len(interrupts) : RemoveAt(interrupts, p) \in Seq(Reqs)
    BY DEF RemoveAt, Shape
  <2>3. interrupts # <<>> => Head(interrupts) \in Reqs /\ Tail(interrupts) \in Seq(Reqs)
    BY DEF Shape
  <2>4. interrupts' \in Seq(Reqs)
    BY <1>4, <2>2, <2>3 DEF check_interrupt, Shape
  <2>5. req' \in [Reqs -> Object]
    <3>1. /\ [req EXCEPT ![th[t].r].listed = TRUE] \in [Reqs -> Object]
          /\ [req EXCEPT ![th[t].r].listed = TRUE, ![th[t].r].interrupted = TRUE] \in [Reqs -> Object]
      BY <2>1, <1>c, <1>d, ReqFields
    <3> QED BY <1>4, <3>1 DEF check_interrupt
  <2>6. ThreadShape'
    <3>1. CASE Goto(t, "prepare")
      BY <3>1, <2>1, <1>a, GotoShape DEF Shape
    <3>2. CASE interrupts # <<>> /\ th' = [th EXCEPT ![t].at = "again", ![t].i = Head(interrupts)]
      <4>1. /\ [th[t] EXCEPT !.at = "again", !.i = Head(interrupts)] \in Work
            /\ Busy([th[t] EXCEPT !.at = "again", !.i = Head(interrupts)])
        BY <3>2, <2>1, <2>3, <1>a DEF Shape, ThreadShape, Work, Busy
      <4>2. th' = [th EXCEPT ![t] = [th[t] EXCEPT !.at = "again", !.i = Head(interrupts)]]
        BY <3>2
      <4> QED BY <4>1, <4>2, SetShape DEF Shape
    <3> QED BY <1>4, <3>1, <3>2 DEF check_interrupt
  <2> QED BY <1>4, <2>4, <2>5, <2>6 DEF check_interrupt, Shape
<1>5. ASSUME NEW t \in Threads, reply_again(t) PROVE Shape'
  <2>1. th[t].r \in Reqs
    BY <1>5, <1>b DEF reply_again
  <2>2. /\ [th[t] EXCEPT !.at = "prepare", !.i = NoReq] \in Work
        /\ Busy([th[t] EXCEPT !.at = "prepare", !.i = NoReq])
    BY <2>1, <1>a DEF Shape, ThreadShape, Work, Busy
  <2>3. th' = [th EXCEPT ![t] = [th[t] EXCEPT !.at = "prepare", !.i = NoReq]]
    BY <1>5 DEF reply_again
  <2>4. ThreadShape'
    BY <2>2, <2>3, SetShape DEF Shape
  <2> QED BY <1>5, <2>4 DEF reply_again, Shape
<1>6. ASSUME NEW t \in Threads, fuse_prepare_interrupt(t) PROVE Shape'
  <2>1. ThreadShape'
    BY <1>6, <1>a, GotoShape DEF fuse_prepare_interrupt, Shape
  <2>2. req' \in [Reqs -> Object]
    <3>1. th[t].r \in Reqs
      BY <1>6, <1>b DEF fuse_prepare_interrupt
    <3>2. [req EXCEPT ![th[t].r].func = TRUE] \in [Reqs -> Object]
      BY <3>1, <1>c, <1>d, ReqFields
    <3> QED BY <1>6, <1>d, <3>2 DEF fuse_prepare_interrupt
  <2>3. data' \in [Reqs -> {"none", "live", "finished", "gone"}]
    BY <1>6 DEF fuse_prepare_interrupt, Shape
  <2> QED BY <1>6, <2>1, <2>2, <2>3 DEF fuse_prepare_interrupt, Shape
<1>7. ASSUME NEW t \in Threads, handler_returns(t) PROVE Shape'
  BY <1>7, <1>a, MoveShape DEF handler_returns
<1>8. ASSUME NEW t \in Threads, fuse_do_finish_interrupt(t) PROVE Shape'
  <2>1. ThreadShape'
    BY <1>8, <1>a, GotoShape DEF fuse_do_finish_interrupt, Shape
  <2> QED BY <1>8, <2>1 DEF fuse_do_finish_interrupt, Shape
<1>9. ASSUME NEW t \in Threads, fuse_req_interrupt_func(t) PROVE Shape'
  <2>1. ThreadShape'
    BY <1>9, <1>a, GotoShape DEF fuse_req_interrupt_func, Shape
  <2>2. req' \in [Reqs -> Object]
    <3>1. th[t].r \in Reqs
      BY <1>9, <1>b DEF fuse_req_interrupt_func
    <3>2. [req EXCEPT ![th[t].r].func = FALSE] \in [Reqs -> Object]
      BY <3>1, <1>c, <1>d, ReqFields
    <3> QED BY <1>9, <3>2 DEF fuse_req_interrupt_func
  <2> QED BY <1>9, <2>1, <2>2 DEF fuse_req_interrupt_func, Shape
<1>10. ASSUME NEW t \in Threads, send_reply(t) PROVE Shape'
  BY <1>10, <1>a, MoveShape DEF send_reply
<1>11. ASSUME NEW t \in Threads, fuse_free_req(t) PROVE Shape'
  <2>1. ThreadShape'
    BY <1>11, SetShape, RestShape DEF fuse_free_req, Shape
  <2>2. req' \in [Reqs -> Object]
    <3>1. th[t].r \in Reqs
      BY <1>11, <1>b DEF fuse_free_req
    <3>2. [req EXCEPT ![th[t].r] = Put([@ EXCEPT !.func = FALSE, !.listed = FALSE])] \in [Reqs -> Object]
      BY <3>1, <1>c, <1>d, ReqFields
    <3> QED BY <1>11, <3>2 DEF fuse_free_req
  <2> QED BY <1>11, <2>1, <2>2 DEF fuse_free_req, Shape
<1>12. ASSUME NEW t \in Threads, do_interrupt(t) PROVE Shape'
  <2>1. th[t].r \in Reqs
    BY <1>12, <1>b DEF do_interrupt
  <2>2. interrupts' \in Seq(Reqs)
    BY <1>12, <2>1, SMTT(30) DEF do_interrupt, Shape
  <2>3. ThreadShape'
    BY <1>12, <1>a, GotoShape, SetShape, RestShape DEF do_interrupt, Shape
  <2>4. [req EXCEPT ![th[t].r].ctr = @ + 1] \in [Reqs -> Object]
    BY <2>1, <1>c, <1>d, ReqFields
  <2>5. req' \in [Reqs -> Object]
    BY <1>12, <2>4, <1>d DEF do_interrupt
  <2> QED BY <1>12, <2>2, <2>3, <2>5 DEF do_interrupt, Shape
<1>13. ASSUME NEW t \in Threads, find_interrupted_mark(t) PROVE Shape'
  <2>1. ThreadShape'
    BY <1>13, <1>a, GotoShape DEF find_interrupted_mark, Shape
  <2>2. req' \in [Reqs -> Object]
    <3>1. th[t].r \in Reqs
      BY <1>13, <1>b DEF find_interrupted_mark
    <3>2. [req EXCEPT ![th[t].r].interrupted = TRUE] \in [Reqs -> Object]
      BY <3>1, <1>c, <1>d, ReqFields
    <3> QED BY <1>13, <3>2 DEF find_interrupted_mark
  <2> QED BY <1>13, <2>1, <2>2 DEF find_interrupted_mark, Shape
<1>14. ASSUME NEW t \in Threads, fuse_interrupt(t) PROVE Shape'
  <2>1. ThreadShape'
    BY <1>14, <1>a, GotoShape DEF fuse_interrupt, Shape, ThreadShape
  <2> QED BY <1>14, <2>1 DEF fuse_interrupt, Shape
<1>15. ASSUME NEW t \in Threads, find_interrupted_unlock(t) PROVE Shape'
  <2>1. ThreadShape'
    BY <1>15, <1>a, GotoShape DEF find_interrupted_unlock, Shape
  <2> QED BY <1>15, <2>1 DEF find_interrupted_unlock, Shape
<1>16. ASSUME NEW t \in Threads, find_interrupted_put(t) PROVE Shape'
  <2>1. ThreadShape'
    BY <1>16, SetShape, RestShape DEF find_interrupted_put, Shape
  <2>2. req' \in [Reqs -> Object]
    <3>1. th[t].r \in Reqs
      BY <1>16, <1>b DEF find_interrupted_put
    <3>2. [req EXCEPT ![th[t].r] = Put(@)] \in [Reqs -> Object]
      BY <3>1, <1>c, <1>d, ReqFields
    <3> QED BY <1>16, <3>2 DEF find_interrupted_put
  <2> QED BY <1>16, <2>1, <2>2 DEF find_interrupted_put, Shape
<1>17. ASSUME NEW r \in Reqs, KernelInterrupts(r) PROVE Shape'
  BY <1>17 DEF KernelInterrupts, Shape, ThreadShape
<1>18. CASE UNCHANGED vars
  BY <1>18 DEF vars, Shape, ThreadShape
<1> QED BY <1>1, <1>2, <1>3, <1>4, <1>5, <1>6, <1>7, <1>8, <1>9, <1>10, <1>11, <1>12,
           <1>13, <1>14, <1>15, <1>16, <1>17, <1>18 DEF Next, Step

---------------------------------------------------------------------------
(* The data of the callback *)

\* The request of t stays, the others do not move, and t is now at a.
Moved(t, a) == th'[t].at = a /\ th'[t].r = th[t].r /\ \A u \in Threads \ {t} : th'[u] = th[u]

LEMMA GotoMoves ==
  ASSUME ThreadShape, NEW t \in Threads, NEW a, Goto(t, a)
  PROVE  Moved(t, a)
BY DEF ThreadShape, Work, Goto, Moved

\* A step of t that neither enters nor leaves the handler or the callback, and registers
\* nothing.
LEMMA QuietStep ==
  ASSUME IInv, NEW t \in Threads, \A u \in Threads \ {t} : th'[u] = th[u],
         th[t].at \notin {"work", "finish"}, th'[t].at \notin {"callback", "intunlock"},
         \A r \in Reqs : req'[r].func => req[r].func,
         UNCHANGED <<intr, lock, data>>
  PROVE  Scopes'
<1>1. LockHeld'
  BY DEF IInv, Scopes, LockHeld
<1>2. FuncHasData'
  BY DEF IInv, Scopes, FuncHasData
<1>3. DataInScope'
  BY DEF IInv, Scopes, DataInScope, At
<1>4. LiveInHandler'
  BY DEF IInv, Scopes, LiveInHandler, Interruptible
<1> QED BY <1>1, <1>2, <1>3, <1>4 DEF Scopes

LEMMA ScopesStep == IInv /\ [Next]_vars => Scopes'
<1> SUFFICES ASSUME IInv, [Next]_vars PROVE Scopes'
  OBVIOUS
<1> USE DEF objects, kernel, At
<1>a. req \in [Reqs -> Object] /\ ThreadShape /\ th \in [Threads -> Work]
  BY DEF IInv, Shape, ThreadShape
<1>b. \A t \in Threads : th[t].at # "idle" => th[t].r \in Reqs
  BY DEF IInv, Shape, ThreadShape, Busy
<1>d. intr' = intr
  BY DEF Next, Step, vars, fuse_ll_alloc_req, receive_interrupt, process_unknown, check_interrupt,
     reply_again, fuse_prepare_interrupt, handler_returns, fuse_do_finish_interrupt,
     fuse_req_interrupt_func, send_reply, fuse_free_req, do_interrupt, find_interrupted_mark,
     fuse_interrupt, find_interrupted_unlock, find_interrupted_put, KernelInterrupts
<1>c. ASSUME NEW r \in Reqs, NEW b, ReqSet(req', r, b), b => req[r].func
      PROVE  \A x \in Reqs : req'[x].func => req[x].func
  BY <1>c DEF ReqSet
<1>1. ASSUME NEW t \in Threads, NEW r \in Reqs, fuse_ll_alloc_req(t, r) PROVE Scopes'
  <2>1. ReqSet(req', r, FALSE)
    BY <1>1, <1>a, ReqFields DEF fuse_ll_alloc_req
  <2>2. th'[t].at = "new" /\ \A u \in Threads \ {t} : th'[u] = th[u]
    BY <1>1, <1>a DEF fuse_ll_alloc_req
  <2>3. \A x \in Reqs : req'[x].func => req[x].func
    BY <2>1, <1>c
  <2> QED BY <1>1, <2>2, <2>3, QuietStep DEF fuse_ll_alloc_req
<1>2. ASSUME NEW t \in Threads, NEW r \in Reqs, receive_interrupt(t, r) PROVE Scopes'
  <2>1. th'[t].at = "int" /\ \A u \in Threads \ {t} : th'[u] = th[u]
    BY <1>2, <1>a DEF receive_interrupt
  <2> QED BY <1>2, <2>1, QuietStep DEF receive_interrupt
<1>3. ASSUME NEW t \in Threads, process_unknown(t) PROVE Scopes'
  <2>1. Moved(t, "reply")
    BY <1>3, <1>a, GotoMoves DEF process_unknown
  <2> QED BY <1>3, <2>1, QuietStep DEF process_unknown, Moved
<1>4. ASSUME NEW t \in Threads, check_interrupt(t) PROVE Scopes'
  <2>1. th[t].r \in Reqs
    BY <1>4, <1>b DEF check_interrupt
  <2>2. ReqSet(req', th[t].r, req[th[t].r].func)
    BY <1>4, <1>a, <2>1, ReqFields, ZenonT(30) DEF check_interrupt
  <2>3. \A x \in Reqs : req'[x].func => req[x].func
    BY <2>1, <2>2, <1>c
  <2>4. th'[t].at \in {"prepare", "again"} /\ \A u \in Threads \ {t} : th'[u] = th[u]
    BY <1>4, <1>a DEF check_interrupt, Goto, Work
  <2> QED BY <1>4, <2>3, <2>4, QuietStep DEF check_interrupt
<1>5. ASSUME NEW t \in Threads, reply_again(t) PROVE Scopes'
  <2>1. th'[t].at = "prepare" /\ \A u \in Threads \ {t} : th'[u] = th[u]
    BY <1>5, <1>a DEF reply_again, Work
  <2> QED BY <1>5, <2>1, QuietStep DEF reply_again
<1>6. ASSUME NEW t \in Threads, fuse_prepare_interrupt(t) PROVE Scopes'
  <2> DEFINE r == th[t].r
  <2>1. r \in Reqs
    BY <1>6, <1>b DEF fuse_prepare_interrupt
  <2>2. CASE ~Interruptible(r)
    <3>1. th'[t].at \in {"reply", "work"} /\ \A u \in Threads \ {t} : th'[u] = th[u]
      BY <1>6, <1>a, GotoMoves DEF fuse_prepare_interrupt, Moved
    <3> QED BY <1>6, <2>2, <3>1, QuietStep DEF fuse_prepare_interrupt
  <2>3. CASE Interruptible(r)
    <3>1. Moved(t, "work")
      BY <1>6, <1>a, <2>3, GotoMoves DEF fuse_prepare_interrupt, Interruptible
    <3>2. data' = [data EXCEPT ![r] = "live"] /\ UNCHANGED lock
      BY <1>6, <2>3 DEF fuse_prepare_interrupt
    <3>3. ReqSet(req', r, TRUE)
      BY <1>6, <1>a, <2>1, <2>3, ReqFields DEF fuse_prepare_interrupt
    <3>4. data'[r] = "live" /\ \A x \in Reqs \ {r} : data'[x] = data[x]
      BY <3>2, <2>1 DEF IInv, Shape
    <3>5. LockHeld'
      BY <3>1, <3>2 DEF IInv, Scopes, LockHeld, Moved
    <3>6. FuncHasData'
      BY <3>3, <3>4 DEF IInv, Scopes, FuncHasData, ReqSet
    <3>7. DataInScope'
      BY <3>1, <3>4, <1>b DEF IInv, Scopes, DataInScope, Moved
    <3>8. LiveInHandler'
      BY <1>d, <2>3, <3>1, <3>4, <1>6 DEF IInv, Scopes, LiveInHandler, Interruptible, Moved, fuse_prepare_interrupt
    <3> QED BY <3>5, <3>6, <3>7, <3>8 DEF Scopes
  <2> QED BY <2>2, <2>3
<1>7. ASSUME NEW t \in Threads, handler_returns(t) PROVE Scopes'
  <2>1. UNCHANGED <<lock, data, req>> /\ th[t].at = "work"
    BY <1>7 DEF handler_returns
  <2>2. /\ th'[t].r = th[t].r /\ \A u \in Threads \ {t} : th'[u] = th[u]
        /\ th'[t].at = IF Interruptible(th[t].r) THEN "finish" ELSE "reply"
    BY <1>7, <1>a, GotoMoves DEF handler_returns, Moved
  <2>3. LockHeld'
    BY <2>1, <2>2 DEF IInv, Scopes, LockHeld
  <2>4. FuncHasData'
    BY <2>1 DEF IInv, Scopes, FuncHasData
  <2>5. DataInScope'
    BY <2>1, <2>2 DEF IInv, Scopes, DataInScope
  <2>6. LiveInHandler'
    BY <1>d, <2>1, <2>2 DEF IInv, Scopes, LiveInHandler, Interruptible
  <2> QED BY <2>3, <2>4, <2>5, <2>6 DEF Scopes
<1>8. ASSUME NEW t \in Threads, fuse_do_finish_interrupt(t) PROVE Scopes'
  <2> DEFINE r == th[t].r
  <2>1. r \in Reqs /\ UNCHANGED <<lock, req>> /\ th[t].at = "finish"
    BY <1>8, <1>b DEF fuse_do_finish_interrupt
  <2>2. Moved(t, "unregister")
    BY <1>8, <1>a, GotoMoves DEF fuse_do_finish_interrupt
  <2>3. data'[r] = "finished" /\ \A x \in Reqs \ {r} : data'[x] = data[x]
    BY <1>8, <2>1 DEF fuse_do_finish_interrupt, IInv, Shape
  <2>4. LockHeld'
    BY <2>1, <2>2 DEF IInv, Scopes, LockHeld, Moved
  <2>5. FuncHasData'
    BY <2>1, <2>3 DEF IInv, Scopes, FuncHasData
  <2>6. DataInScope'
    BY <2>2, <2>3, <1>b DEF IInv, Scopes, DataInScope, Moved
  <2>7. LiveInHandler'
    BY <1>d, <2>2, <2>3 DEF IInv, Scopes, LiveInHandler, Interruptible, Moved
  <2> QED BY <2>4, <2>5, <2>6, <2>7 DEF Scopes
<1>9. ASSUME NEW t \in Threads, fuse_req_interrupt_func(t) PROVE Scopes'
  <2> DEFINE r == th[t].r
  <2>1. r \in Reqs /\ UNCHANGED lock /\ th[t].at = "unregister" /\ lock[r] = NoThread
    BY <1>9, <1>b DEF fuse_req_interrupt_func
  <2>2. Moved(t, "reply")
    BY <1>9, <1>a, GotoMoves DEF fuse_req_interrupt_func
  <2>3. data'[r] = "gone" /\ \A x \in Reqs \ {r} : data'[x] = data[x]
    BY <1>9, <2>1 DEF fuse_req_interrupt_func, IInv, Shape
  <2>4. ReqSet(req', r, FALSE)
    BY <1>9, <1>a, <2>1, ReqFields DEF fuse_req_interrupt_func
  <2>5. LockHeld'
    BY <2>1, <2>2 DEF IInv, Scopes, LockHeld, Moved
  <2>6. FuncHasData'
    BY <2>3, <2>4 DEF IInv, Scopes, FuncHasData, ReqSet
  <2>7. DataInScope'
    \* A thread in the callback of r would hold its lock.
    <3>1. \A u \in Threads : th[u].at = "callback" => th[u].r # r
      BY <2>1, NoneIsNone DEF IInv, Scopes, LockHeld
    <3> QED BY <2>2, <2>3, <3>1, <1>b DEF IInv, Scopes, DataInScope, Moved
  <2>8. LiveInHandler'
    BY <1>d, <2>1, <2>2, <2>3 DEF IInv, Scopes, LiveInHandler, Interruptible, Moved
  <2> QED BY <2>5, <2>6, <2>7, <2>8 DEF Scopes
<1>10. ASSUME NEW t \in Threads, send_reply(t) PROVE Scopes'
  <2>1. Moved(t, "free")
    BY <1>10, <1>a, GotoMoves DEF send_reply
  <2> QED BY <1>10, <2>1, QuietStep DEF send_reply, Moved
<1>11. ASSUME NEW t \in Threads, fuse_free_req(t) PROVE Scopes'
  <2>1. th[t].r \in Reqs
    BY <1>11, <1>b DEF fuse_free_req
  <2>2. ReqSet(req', th[t].r, FALSE)
    BY <1>11, <1>a, <2>1, ReqFields DEF fuse_free_req
  <2>3. th'[t].at = "idle" /\ \A u \in Threads \ {t} : th'[u] = th[u]
    BY <1>11, <1>a DEF fuse_free_req, Rest
  <2>4. \A x \in Reqs : req'[x].func => req[x].func
    BY <2>1, <2>2, <1>c
  <2> QED BY <1>11, <2>3, <2>4, QuietStep DEF fuse_free_req
<1>12. ASSUME NEW t \in Threads, do_interrupt(t) PROVE Scopes'
  <2>1. th[t].r \in Reqs
    BY <1>12, <1>b DEF do_interrupt
  <2>2. ReqSet([req EXCEPT ![th[t].r].ctr = @ + 1], th[t].r, req[th[t].r].func)
    BY <1>a, <2>1, ReqFields
  <2>3. \A x \in Reqs : req'[x].func => req[x].func
    BY <1>12, <2>1, <2>2, <1>c DEF do_interrupt
  <2>4. th'[t].at \in {"intlock", "idle"} /\ \A u \in Threads \ {t} : th'[u] = th[u]
    BY <1>12, <1>a, GotoMoves DEF do_interrupt, Moved, Rest
  <2> QED BY <1>12, <2>3, <2>4, QuietStep DEF do_interrupt
<1>13. ASSUME NEW t \in Threads, find_interrupted_mark(t) PROVE Scopes'
  <2> DEFINE r == th[t].r
  <2>1. r \in Reqs /\ UNCHANGED data /\ th[t].at = "intlock" /\ lock[r] = NoThread
    BY <1>13, <1>b DEF find_interrupted_mark
  <2>2. Moved(t, IF req[r].func THEN "callback" ELSE "intunlock")
    BY <1>13, <1>a, GotoMoves DEF find_interrupted_mark
  <2>3. lock'[r] = t /\ \A x \in Reqs \ {r} : lock'[x] = lock[x]
    BY <1>13, <2>1 DEF find_interrupted_mark, IInv, Shape
  <2>4. ReqSet(req', r, req[r].func)
    BY <1>13, <1>a, <2>1, ReqFields DEF find_interrupted_mark
  <2>5. LockHeld'
    \* No other thread holds the lock, which was free.
    <3>1. \A u \in Threads : th[u].at \in {"callback", "intunlock"} => th[u].r \in Reqs \ {r}
      BY <2>1, <1>b, NoneIsNone DEF IInv, Scopes, LockHeld
    <3> QED BY <2>2, <2>3, <3>1 DEF IInv, Scopes, LockHeld, Moved
  <2>6. FuncHasData'
    BY <2>1, <2>4 DEF IInv, Scopes, FuncHasData, ReqSet
  <2>7. DataInScope'
    BY <2>1, <2>2 DEF IInv, Scopes, DataInScope, FuncHasData, Moved
  <2>8. LiveInHandler'
    BY <1>d, <2>1, <2>2 DEF IInv, Scopes, LiveInHandler, Interruptible, Moved
  <2> QED BY <2>5, <2>6, <2>7, <2>8 DEF Scopes
<1>14. ASSUME NEW t \in Threads, fuse_interrupt(t) PROVE Scopes'
  <2>1. UNCHANGED <<lock, data, req>> /\ th[t].at = "callback"
    BY <1>14 DEF fuse_interrupt
  <2>2. /\ th'[t].r = th[t].r /\ \A u \in Threads \ {t} : th'[u] = th[u]
        /\ th'[t].at \in {"callback", "intunlock"}
    BY <1>14, <1>a, GotoMoves DEF fuse_interrupt, Moved
  <2>3. LockHeld'
    BY <2>1, <2>2 DEF IInv, Scopes, LockHeld
  <2>4. FuncHasData'
    BY <2>1 DEF IInv, Scopes, FuncHasData
  <2>5. DataInScope'
    BY <2>1, <2>2 DEF IInv, Scopes, DataInScope
  <2>6. LiveInHandler'
    BY <1>d, <2>1, <2>2 DEF IInv, Scopes, LiveInHandler, Interruptible
  <2> QED BY <2>3, <2>4, <2>5, <2>6 DEF Scopes
<1>15. ASSUME NEW t \in Threads, find_interrupted_unlock(t) PROVE Scopes'
  <2> DEFINE r == th[t].r
  <2>1. r \in Reqs /\ UNCHANGED <<data, req>> /\ th[t].at = "intunlock" /\ lock[r] = t
    BY <1>15, <1>b DEF find_interrupted_unlock, IInv, Scopes, LockHeld
  <2>2. Moved(t, "intput")
    BY <1>15, <1>a, GotoMoves DEF find_interrupted_unlock
  <2>3. \A x \in Reqs \ {r} : lock'[x] = lock[x]
    BY <1>15, <2>1 DEF find_interrupted_unlock, IInv, Shape
  <2>4. LockHeld'
    <3>1. \A u \in Threads \ {t} : th[u].at \in {"callback", "intunlock"} => th[u].r \in Reqs \ {r}
      BY <2>1, <1>b DEF IInv, Scopes, LockHeld
    <3> QED BY <2>2, <2>3, <3>1 DEF IInv, Scopes, LockHeld, Moved
  <2>5. FuncHasData'
    BY <2>1 DEF IInv, Scopes, FuncHasData
  <2>6. DataInScope'
    BY <2>1, <2>2 DEF IInv, Scopes, DataInScope, Moved
  <2>7. LiveInHandler'
    BY <1>d, <2>1, <2>2 DEF IInv, Scopes, LiveInHandler, Interruptible, Moved
  <2> QED BY <2>4, <2>5, <2>6, <2>7 DEF Scopes
<1>16. ASSUME NEW t \in Threads, find_interrupted_put(t) PROVE Scopes'
  <2>1. th[t].r \in Reqs
    BY <1>16, <1>b DEF find_interrupted_put
  <2>2. ReqSet(req', th[t].r, req[th[t].r].func)
    BY <1>16, <1>a, <2>1, ReqFields DEF find_interrupted_put
  <2>3. th'[t].at = "idle" /\ \A u \in Threads \ {t} : th'[u] = th[u]
    BY <1>16, <1>a DEF find_interrupted_put, Rest
  <2>4. \A x \in Reqs : req'[x].func => req[x].func
    BY <2>1, <2>2, <1>c
  <2> QED BY <1>16, <2>3, <2>4, QuietStep DEF find_interrupted_put
<1>17. ASSUME UNCHANGED <<intr, req, lock, data, th>> PROVE Scopes'
  BY <1>17 DEF IInv, Scopes, LockHeld, FuncHasData, DataInScope, LiveInHandler, Interruptible
<1>18. ASSUME NEW r \in Reqs, KernelInterrupts(r) PROVE Scopes'
  BY <1>17, <1>18 DEF KernelInterrupts
<1>19. CASE UNCHANGED vars
  BY <1>17, <1>19 DEF vars
<1> QED BY <1>1, <1>2, <1>3, <1>4, <1>5, <1>6, <1>7, <1>8, <1>9, <1>10, <1>11, <1>12,
           <1>13, <1>14, <1>15, <1>16, <1>18, <1>19 DEF Next, Step

LEMMA IInvInit == Init => IInv
<1> SUFFICES ASSUME Init PROVE IInv
  OBVIOUS
<1>1. Shape
  BY ShapeInit
<1>2. Scopes
  BY DEF Init, Scopes, LockHeld, FuncHasData, DataInScope, LiveInHandler, At, Rest, NoObject
<1> QED BY <1>1, <1>2 DEF IInv

LEMMA IInvAlways == Spec => []IInv
<1>1. IInv /\ [Next]_vars => IInv'
  BY ShapeStep, ScopesStep DEF IInv
<1> QED BY IInvInit, <1>1, PTL DEF Spec

\* While an interrupting thread is in fuse_interrupt, the function whose frame holds the
\* fuse_intr_data it works with has not returned: fuse_req_interrupt_func unregisters the
\* callback under req->lock, which find_interrupted holds over the call.
THEOREM CallbackDataInScope == Spec => []DataInScope
<1>1. IInv => DataInScope
  BY DEF IInv, Scopes
<1> QED BY IInvAlways, <1>1, PTL

\* Only fuse_interrupt sends signals, and only while the thread is in the handler of the
\* interrupted request: never while it does something else.
THEOREM SignalsStayInHandler == Spec => SignalsHitHandler
<1>1. ASSUME IInv, [Next]_vars, NEW r \in Reqs, signalled[r] # signalled'[r]
      PROVE  \E t \in Owners(r) : th[t].at \in {"work", "finish"}
  <2>1. PICK u \in Threads : fuse_interrupt(u)
    BY <1>1 DEF Next, Step, vars, objects, kernel, fuse_ll_alloc_req, receive_interrupt,
         process_unknown, check_interrupt, reply_again, fuse_prepare_interrupt,
         handler_returns, fuse_do_finish_interrupt, fuse_req_interrupt_func, send_reply,
         fuse_free_req, do_interrupt, find_interrupted_mark, find_interrupted_unlock,
         find_interrupted_put, KernelInterrupts
  <2>2. /\ th[u].at = "callback" /\ data[th[u].r] # "finished"
        /\ signalled' = [signalled EXCEPT ![th[u].r] = TRUE]
    BY <1>1, <2>1 DEF fuse_interrupt, At
  <2>3. th[u].r = r
    BY <1>1, <2>2 DEF IInv, Shape
  <2>4. data[r] = "live"
    BY <1>1, <2>2, <2>3 DEF IInv, Scopes, DataInScope, At
  <2> QED BY <1>1, <2>4 DEF IInv, Scopes, LiveInHandler, Interruptible, Owners, Owning
<1>2. IInv /\ [Next]_vars => [\A r \in Reqs : signalled[r] # signalled'[r] =>
                                \E t \in Owners(r) : th[t].at \in {"work", "finish"}]_vars
  BY <1>1
<1> QED BY IInvAlways, <1>2, PTL DEF Spec, SignalsHitHandler

---------------------------------------------------------------------------
(* What a step does to the threads and to the objects *)

OnlyMoves(t) == \A u \in Threads \ {t} : th'[u] = th[u]

\* t goes on with its request.
Went(t, from, to) ==
  /\ OnlyMoves(t)
  /\ th[t].at = from /\ th'[t].at = to
  /\ th[t].r \in Reqs /\ th'[t].r = th[t].r /\ th'[t].i = th[t].i

\* t has nothing to do any more.
Ended(t, from) ==
  OnlyMoves(t) /\ th[t].at = from /\ th[t].r \in Reqs /\ th'[t] = Rest

LEMMA GotoWent ==
  ASSUME IInv, NEW t \in Threads, NEW a, th[t].at # "idle", Goto(t, a)
  PROVE  Went(t, th[t].at, a)
BY DEF IInv, Shape, ThreadShape, Busy, Work, Goto, Went, OnlyMoves

LEMMA RestEnded ==
  ASSUME IInv, NEW t \in Threads, th[t].at # "idle", th' = [th EXCEPT ![t] = Rest]
  PROVE  Ended(t, th[t].at)
BY DEF IInv, Shape, ThreadShape, Busy, Ended, OnlyMoves

\* The moves of every step of a thread.
LEMMA Moves ==
  ASSUME IInv, NEW t \in Threads
  PROVE  /\ \A r \in Reqs : fuse_ll_alloc_req(t, r) =>
              /\ OnlyMoves(t) /\ th[t].at = "idle"
              /\ th'[t].at = "new" /\ th'[t].r = r /\ th'[t].i = NoReq
         /\ \A r \in Reqs : receive_interrupt(t, r) =>
              /\ OnlyMoves(t) /\ th[t].at = "idle"
              /\ th'[t].at = "int" /\ th'[t].r = r /\ th'[t].i = NoReq
         /\ process_unknown(t) => Went(t, "new", "reply")
         /\ check_interrupt(t) =>
              \/ Went(t, "new", "prepare")
              \/ /\ ~Contains(interrupts, th[t].r) /\ interrupts # <<>>
                 /\ OnlyMoves(t) /\ th[t].at = "new" /\ th'[t].at = "again"
                 /\ th[t].r \in Reqs /\ th'[t].r = th[t].r /\ th'[t].i = Head(interrupts)
         /\ reply_again(t) =>
              /\ OnlyMoves(t) /\ th[t].at = "again" /\ th'[t].at = "prepare"
              /\ th[t].r \in Reqs /\ th'[t].r = th[t].r /\ th'[t].i = NoReq
         /\ fuse_prepare_interrupt(t) =>
              Went(t, "prepare", "reply") \/ Went(t, "prepare", "work")
         /\ handler_returns(t) => Went(t, "work", "finish") \/ Went(t, "work", "reply")
         /\ fuse_do_finish_interrupt(t) => Went(t, "finish", "unregister")
         /\ fuse_req_interrupt_func(t) => Went(t, "unregister", "reply")
         /\ send_reply(t) => Went(t, "reply", "free")
         /\ fuse_free_req(t) => Ended(t, "free")
         /\ do_interrupt(t) => \/ req[th[t].r].listed /\ Went(t, "int", "intlock")
                               \/ ~req[th[t].r].listed /\ Ended(t, "int")
         /\ find_interrupted_mark(t) =>
              Went(t, "intlock", "callback") \/ Went(t, "intlock", "intunlock")
         /\ fuse_interrupt(t) =>
              Went(t, "callback", "intunlock") \/ Went(t, "callback", "callback")
         /\ find_interrupted_unlock(t) => Went(t, "intunlock", "intput")
         /\ find_interrupted_put(t) => Ended(t, "intput")
<1> USE DEF At
<1>a. th \in [Threads -> Work] /\ (th[t].at # "idle" => th[t].r \in Reqs)
  BY DEF IInv, Shape, ThreadShape, Busy
<1>1. ASSUME NEW r \in Reqs, fuse_ll_alloc_req(t, r)
      PROVE  /\ OnlyMoves(t) /\ th[t].at = "idle"
             /\ th'[t].at = "new" /\ th'[t].r = r /\ th'[t].i = NoReq
  BY <1>1, <1>a DEF fuse_ll_alloc_req, OnlyMoves
<1>2. ASSUME NEW r \in Reqs, receive_interrupt(t, r)
      PROVE  /\ OnlyMoves(t) /\ th[t].at = "idle"
             /\ th'[t].at = "int" /\ th'[t].r = r /\ th'[t].i = NoReq
  BY <1>2, <1>a DEF receive_interrupt, OnlyMoves
<1>3. process_unknown(t) => Went(t, "new", "reply")
  BY GotoWent DEF process_unknown
<1>4. ASSUME check_interrupt(t)
      PROVE  \/ Went(t, "new", "prepare")
             \/ /\ ~Contains(interrupts, th[t].r) /\ interrupts # <<>>
                /\ OnlyMoves(t) /\ th[t].at = "new" /\ th'[t].at = "again"
                /\ th[t].r \in Reqs /\ th'[t].r = th[t].r /\ th'[t].i = Head(interrupts)
  <2>1. th[t].at = "new"
    BY <1>4 DEF check_interrupt
  <2>2. CASE Goto(t, "prepare")
    BY <2>1, <2>2, GotoWent
  <2>3. CASE th' = [th EXCEPT ![t].at = "again", ![t].i = Head(interrupts)]
    <3>1. /\ OnlyMoves(t) /\ th'[t].at = "again"
          /\ th'[t].r = th[t].r /\ th'[t].i = Head(interrupts)
      BY <1>a, <2>3 DEF OnlyMoves, Work
    <3>2. CASE ~Contains(interrupts, th[t].r) /\ interrupts # <<>>
      BY <1>a, <2>1, <3>1, <3>2
    <3>3. CASE Goto(t, "prepare")
      BY <2>1, <3>3, GotoWent
    <3> QED BY <1>4, <3>2, <3>3 DEF check_interrupt
  <2> QED BY <1>4, <2>2, <2>3 DEF check_interrupt
<1>5. ASSUME reply_again(t)
      PROVE  /\ OnlyMoves(t) /\ th[t].at = "again" /\ th'[t].at = "prepare"
             /\ th[t].r \in Reqs /\ th'[t].r = th[t].r /\ th'[t].i = NoReq
  BY <1>5, <1>a DEF reply_again, OnlyMoves, Work
<1>6. fuse_prepare_interrupt(t) => Went(t, "prepare", "reply") \/ Went(t, "prepare", "work")
  BY GotoWent DEF fuse_prepare_interrupt
<1>7. handler_returns(t) => Went(t, "work", "finish") \/ Went(t, "work", "reply")
  BY GotoWent DEF handler_returns
<1>8. fuse_do_finish_interrupt(t) => Went(t, "finish", "unregister")
  BY GotoWent DEF fuse_do_finish_interrupt
<1>9. fuse_req_interrupt_func(t) => Went(t, "unregister", "reply")
  BY GotoWent DEF fuse_req_interrupt_func
<1>10. send_reply(t) => Went(t, "reply", "free")
  BY GotoWent DEF send_reply
<1>11. fuse_free_req(t) => Ended(t, "free")
  BY RestEnded DEF fuse_free_req
<1>12. do_interrupt(t) => \/ req[th[t].r].listed /\ Went(t, "int", "intlock")
                          \/ ~req[th[t].r].listed /\ Ended(t, "int")
  BY GotoWent, RestEnded DEF do_interrupt
<1>13. find_interrupted_mark(t) =>
         Went(t, "intlock", "callback") \/ Went(t, "intlock", "intunlock")
  BY GotoWent DEF find_interrupted_mark
<1>14. fuse_interrupt(t) =>
         Went(t, "callback", "intunlock") \/ Went(t, "callback", "callback")
  <2>1. UNCHANGED th /\ th[t].at = "callback" => Went(t, "callback", "callback")
    BY <1>a DEF Went, OnlyMoves
  <2> QED BY <2>1, GotoWent DEF fuse_interrupt
<1>15. find_interrupted_unlock(t) => Went(t, "intunlock", "intput")
  BY GotoWent DEF find_interrupted_unlock
<1>16. find_interrupted_put(t) => Ended(t, "intput")
  BY RestEnded DEF find_interrupted_put
<1> QED BY <1>1, <1>2, <1>3, <1>4, <1>5, <1>6, <1>7, <1>8, <1>9, <1>10, <1>11, <1>12,
           <1>13, <1>14, <1>15, <1>16

\* f is req with these fields of r.
Fields(f, r, s, n, l, m) ==
  \A x \in Reqs :
    IF x = r THEN f[x].st = s /\ f[x].ctr = n /\ f[x].listed = l /\ f[x].interrupted = m
    ELSE f[x] = req[x]

AfterPut(n, s) == IF n = 1 THEN "destroyed" ELSE s

\* The fields of the object that the steps assign.
LEMMA ReqEffects ==
  ASSUME req \in [Reqs -> Object], NEW r \in Reqs
  PROVE  LET o == req[r] IN
         /\ Fields([req EXCEPT ![r].listed = TRUE], r, o.st, o.ctr, TRUE, o.interrupted)
         /\ Fields([req EXCEPT ![r].listed = TRUE, ![r].interrupted = TRUE],
                   r, o.st, o.ctr, TRUE, TRUE)
         /\ Fields([req EXCEPT ![r].interrupted = TRUE], r, o.st, o.ctr, o.listed, TRUE)
         /\ Fields([req EXCEPT ![r].ctr = @ + 1], r, o.st, o.ctr + 1, o.listed,
                   o.interrupted)
         /\ Fields([req EXCEPT ![r].func = TRUE], r, o.st, o.ctr, o.listed, o.interrupted)
         /\ Fields([req EXCEPT ![r].func = FALSE], r, o.st, o.ctr, o.listed, o.interrupted)
         /\ Fields([req EXCEPT ![r] = Put(@)], r, AfterPut(o.ctr, o.st), o.ctr - 1, o.listed,
                   o.interrupted)
         /\ Fields([req EXCEPT ![r] = Put([@ EXCEPT !.func = FALSE, !.listed = FALSE])],
                   r, AfterPut(o.ctr, o.st), o.ctr - 1, FALSE, o.interrupted)
         /\ Fields([req EXCEPT ![r] = NewObject], r, "alive", 1, FALSE, FALSE)
<1> DEFINE o == req[r]
<1>0. o \in Object
  OBVIOUS
<1>a. ASSUME NEW b \in Object, NEW f, f = [req EXCEPT ![r] = b]
      PROVE  Fields(f, r, b.st, b.ctr, b.listed, b.interrupted)
  BY <1>a DEF Fields
<1>b. ASSUME NEW b \in Object
      PROVE  /\ Put(b) \in Object /\ Put(b).st = AfterPut(b.ctr, b.st) /\ Put(b).ctr = b.ctr - 1
             /\ Put(b).listed = b.listed /\ Put(b).interrupted = b.interrupted
  <2>1. Put(b) \in Object
    BY ObjectPut
  <2> QED BY <2>1 DEF Put, AfterPut, Object
<1>1. Fields([req EXCEPT ![r].listed = TRUE], r, o.st, o.ctr, TRUE, o.interrupted)
  BY DEF Fields, Object
<1>2. Fields([req EXCEPT ![r].listed = TRUE, ![r].interrupted = TRUE],
             r, o.st, o.ctr, TRUE, TRUE)
  BY DEF Fields, Object
<1>3. Fields([req EXCEPT ![r].interrupted = TRUE], r, o.st, o.ctr, o.listed, TRUE)
  BY DEF Fields, Object
<1>4. Fields([req EXCEPT ![r].ctr = @ + 1], r, o.st, o.ctr + 1, o.listed, o.interrupted)
  BY DEF Fields, Object
<1>5. Fields([req EXCEPT ![r].func = TRUE], r, o.st, o.ctr, o.listed, o.interrupted)
  BY DEF Fields, Object
<1>6. Fields([req EXCEPT ![r].func = FALSE], r, o.st, o.ctr, o.listed, o.interrupted)
  BY DEF Fields, Object
<1>7. Fields([req EXCEPT ![r] = Put(@)], r, AfterPut(o.ctr, o.st), o.ctr - 1, o.listed,
             o.interrupted)
  <2>1. [req EXCEPT ![r] = Put(@)] = [req EXCEPT ![r] = Put(o)]
    OBVIOUS
  <2> QED BY <2>1, <1>0, <1>a, <1>b
<1>8. Fields([req EXCEPT ![r] = Put([@ EXCEPT !.func = FALSE, !.listed = FALSE])],
             r, AfterPut(o.ctr, o.st), o.ctr - 1, FALSE, o.interrupted)
  <2> DEFINE b == [o EXCEPT !.func = FALSE, !.listed = FALSE]
  <2>1. /\ b \in Object /\ b.st = o.st /\ b.ctr = o.ctr /\ b.listed = FALSE
        /\ b.interrupted = o.interrupted
    BY <1>0, ObjectPut DEF Object
  <2>2. [req EXCEPT ![r] = Put([@ EXCEPT !.func = FALSE, !.listed = FALSE])]
          = [req EXCEPT ![r] = Put(b)]
    OBVIOUS
  <2>3. /\ Put(b) \in Object /\ Put(b).st = AfterPut(o.ctr, o.st) /\ Put(b).ctr = o.ctr - 1
        /\ Put(b).listed = FALSE /\ Put(b).interrupted = o.interrupted
    BY <2>1, <1>b
  <2>4. Fields([req EXCEPT ![r] = Put(b)], r, Put(b).st, Put(b).ctr, Put(b).listed,
               Put(b).interrupted)
    BY <2>3, <1>a
  <2> HIDE DEF b
  <2>5. Fields([req EXCEPT ![r] = Put(b)], r, AfterPut(o.ctr, o.st), o.ctr - 1, FALSE,
               o.interrupted)
    BY <2>3, <2>4
  <2> QED BY <2>2, <2>5
<1>9. Fields([req EXCEPT ![r] = NewObject], r, "alive", 1, FALSE, FALSE)
  BY NewType, <1>a DEF NewObject
<1> QED BY <1>1, <1>2, <1>3, <1>4, <1>5, <1>6, <1>7, <1>8, <1>9

---------------------------------------------------------------------------
(* References to the objects *)

KernelShape ==
  /\ kreq \in [Reqs -> {"queued", "sent", "answered"}]
  /\ kintr \in [Reqs -> {"none", "queued", "read"}]

CountsAt(r) ==
  /\ req[r].ctr = Cardinality(Owners(r)) + Cardinality(Holders(r))
  /\ req[r].st = "alive" <=> req[r].ctr > 0
  /\ req[r].listed => Owners(r) # {}

Counts == \A r \in Reqs : CountsAt(r)

ObjInv ==
  /\ IInv /\ KernelShape /\ Counts
  /\ OneOwner /\ QueuedUnknown /\ LockOwned /\ AgainNames

LEMMA RolesFinite ==
  ASSUME NEW r
  PROVE  /\ IsFiniteSet(Owners(r)) /\ Cardinality(Owners(r)) \in Nat
         /\ IsFiniteSet(Holders(r)) /\ Cardinality(Holders(r)) \in Nat
         /\ Owners(r) # {} => Cardinality(Owners(r)) > 0
<1>1. Owners(r) \subseteq Threads /\ Holders(r) \subseteq Threads
  BY DEF Owners, Holders
<1>2. IsFiniteSet(Owners(r)) /\ IsFiniteSet(Holders(r))
  BY <1>1, ThreadsFinite, FS_Subset
<1>3. Cardinality(Owners(r)) \in Nat /\ Cardinality(Holders(r)) \in Nat
  BY <1>2, FS_CardinalityType
<1> QED BY <1>2, <1>3, FS_EmptySet

Holding == Interrupting \ {"int"}

\* A step of t in which it neither takes nor gives up a part in an object's life.
SameRole(t) ==
  /\ OnlyMoves(t)
  /\ \/ th'[t].r = th[t].r /\ th[t].at \in Owning /\ th'[t].at \in Owning
     \/ th'[t].r = th[t].r /\ th[t].at \in Holding /\ th'[t].at \in Holding
     \/ th[t].at \notin Owning \cup Holding /\ th'[t].at \notin Owning \cup Holding

\* The places of the two roles are apart.
LEMMA RolesApart == \A a \in Owning : a \notin Interrupting /\ a # "idle"
BY DEF Owning, Interrupting

LEMMA RolesKept ==
  ASSUME NEW t \in Threads, SameRole(t)
  PROVE  \A r : Owners(r)' = Owners(r) /\ Holders(r)' = Holders(r)
BY RolesApart DEF SameRole, OnlyMoves, Owners, Holders, Holding

\* The steps in which no reference is taken or put.
LEMMA CountsQuiet ==
  ASSUME ObjInv, \A r \in Reqs : Owners(r)' = Owners(r) /\ Holders(r)' = Holders(r),
         \A x \in Reqs : /\ req'[x].ctr = req[x].ctr /\ req'[x].st = req[x].st
                         /\ req'[x].listed => req[x].listed \/ Owners(x) # {}
  PROVE  Counts' /\ OneOwner'
<1>1. ASSUME NEW r \in Reqs PROVE CountsAt(r)'
  BY <1>1 DEF ObjInv, Counts, CountsAt
<1>2. OneOwner'
  BY DEF ObjInv, OneOwner
<1> QED BY <1>1, <1>2 DEF Counts

\* Another request's counts are not disturbed.
LEMMA CountsOther ==
  ASSUME ObjInv, NEW x \in Reqs, req'[x] = req[x], Owners(x)' = Owners(x),
         Holders(x)' = Holders(x)
  PROVE  CountsAt(x)'
BY DEF ObjInv, Counts, CountsAt

LEMMA AllocCounts ==
  ASSUME ObjInv, NEW t \in Threads, NEW r \in Reqs, fuse_ll_alloc_req(t, r)
  PROVE  Counts' /\ OneOwner'
<1>0. req \in [Reqs -> Object] /\ IInv
  BY DEF ObjInv, IInv, Shape
<1>1. /\ OnlyMoves(t) /\ th[t].at = "idle"
      /\ th'[t].at = "new" /\ th'[t].r = r /\ th'[t].i = NoReq
  BY <1>0, Moves
<1>2. Fields(req', r, "alive", 1, FALSE, FALSE)
  BY <1>0, ReqEffects DEF fuse_ll_alloc_req
<1>3. \A u \in Threads : th[u].r # r
  BY DEF ObjInv, QueuedUnknown, fuse_ll_alloc_req
<1>4. Owners(r)' = {t} /\ Holders(r)' = {}
  BY <1>1, <1>3 DEF OnlyMoves, Owners, Holders, Owning, Interrupting
<1>5. \A x \in Reqs \ {r} : Owners(x)' = Owners(x) /\ Holders(x)' = Holders(x)
  BY <1>1 DEF OnlyMoves, Owners, Holders, Owning, Interrupting
<1>6. CountsAt(r)'
  <2>1. Cardinality({t}) = 1 /\ Cardinality({}) = 0
    BY FS_EmptySet, FS_Singleton, Zenon
  <2>2. req'[r].ctr = 1 /\ req'[r].st = "alive" /\ req'[r].listed = FALSE
    BY <1>2 DEF Fields
  <2> QED BY <1>4, <2>1, <2>2 DEF CountsAt
<1>7. ASSUME NEW x \in Reqs \ {r} PROVE CountsAt(x)'
  BY <1>2, <1>5, CountsOther DEF Fields
<1>8. OneOwner'
  <2>1. ASSUME NEW x \in Reqs PROVE \A a, b \in Owners(x)' : a = b
    <3>1. CASE x = r
      BY <1>4, <3>1 DEF ObjInv, OneOwner
    <3>2. CASE x # r
      BY <1>5, <3>2 DEF ObjInv, OneOwner
    <3> QED BY <3>1, <3>2
  <2> QED BY <2>1 DEF OneOwner
<1> QED BY <1>6, <1>7, <1>8 DEF Counts

LEMMA FreeCounts ==
  ASSUME ObjInv, NEW t \in Threads, NEW r \in Reqs, r = th[t].r,
         fuse_free_req(t)
  PROVE  Counts' /\ OneOwner'
<1>0. req \in [Reqs -> Object] /\ IInv
  BY DEF ObjInv, IInv, Shape
<1>1. OnlyMoves(t) /\ th[t].at = "free" /\ r \in Reqs /\ th'[t] = Rest
  BY <1>0, Moves DEF Ended
<1>2. Fields(req', r, AfterPut(req[r].ctr, req[r].st), req[r].ctr - 1, FALSE,
             req[r].interrupted)
  BY <1>0, <1>1, ReqEffects DEF fuse_free_req
<1>3. Rest.at = "idle" /\ Rest.r = NoReq
  BY DEF Rest
<1>4. t \in Owners(r) /\ Owners(r)' = Owners(r) \ {t} /\ Holders(r)' = Holders(r)
  BY <1>1, <1>3 DEF OnlyMoves, Owners, Holders, Owning, Interrupting
<1>5. \A x \in Reqs \ {r} : Owners(x)' = Owners(x) /\ Holders(x)' = Holders(x)
  BY <1>1, <1>3 DEF OnlyMoves, Owners, Holders, Owning, Interrupting
<1>6. CountsAt(r)'
  <2>1. Cardinality(Owners(r) \ {t}) = Cardinality(Owners(r)) - 1
    BY <1>4, RolesFinite, FS_RemoveElement
  <2>2. /\ req[r].ctr = Cardinality(Owners(r)) + Cardinality(Holders(r))
        /\ req[r].st = "alive" <=> req[r].ctr > 0
    BY <1>1 DEF ObjInv, Counts, CountsAt
  <2>3. /\ req'[r].ctr = req[r].ctr - 1 /\ req'[r].listed = FALSE
        /\ req'[r].st = AfterPut(req[r].ctr, req[r].st)
    BY <1>1, <1>2 DEF Fields
  <2>4. Cardinality(Owners(r)) \in Nat /\ Cardinality(Holders(r)) \in Nat
        /\ Cardinality(Owners(r)) > 0
    BY <1>4, RolesFinite
  <2>5. req'[r].st = "alive" <=> req'[r].ctr > 0
    BY <2>2, <2>3, <2>4 DEF AfterPut
  <2>6. req'[r].ctr = Cardinality(Owners(r)') + Cardinality(Holders(r)')
    BY <1>4, <2>1, <2>2, <2>3, <2>4
  <2> QED BY <2>3, <2>5, <2>6 DEF CountsAt
<1>7. ASSUME NEW x \in Reqs \ {r} PROVE CountsAt(x)'
  BY <1>2, <1>5, CountsOther DEF Fields
<1>8. OneOwner'
  <2>1. ASSUME NEW x \in Reqs PROVE \A a, b \in Owners(x)' : a = b
    <3>1. CASE x = r
      BY <1>4, <3>1 DEF ObjInv, OneOwner
    <3>2. CASE x # r
      BY <1>5, <3>2 DEF ObjInv, OneOwner
    <3> QED BY <3>1, <3>2
  <2> QED BY <2>1 DEF OneOwner
<1> QED BY <1>6, <1>7, <1>8 DEF Counts

LEMMA HoldCounts ==
  ASSUME ObjInv, NEW t \in Threads, NEW r \in Reqs, r = th[t].r,
         do_interrupt(t), req[r].listed
  PROVE  Counts' /\ OneOwner'
<1>0. req \in [Reqs -> Object] /\ IInv
  BY DEF ObjInv, IInv, Shape
<1>1. /\ OnlyMoves(t) /\ th[t].at = "int" /\ r \in Reqs
      /\ th'[t].at = "intlock" /\ th'[t].r = r
  BY <1>0, Moves DEF Went
<1>2. Fields(req', r, req[r].st, req[r].ctr + 1, req[r].listed, req[r].interrupted)
  BY <1>0, <1>1, ReqEffects DEF do_interrupt
<1>4. t \notin Holders(r) /\ Holders(r)' = Holders(r) \cup {t} /\ Owners(r)' = Owners(r)
  BY <1>1 DEF OnlyMoves, Owners, Holders, Owning, Interrupting
<1>5. \A x \in Reqs \ {r} : Owners(x)' = Owners(x) /\ Holders(x)' = Holders(x)
  BY <1>1 DEF OnlyMoves, Owners, Holders, Owning, Interrupting
<1>6. CountsAt(r)'
  <2>1. Cardinality(Holders(r) \cup {t}) = Cardinality(Holders(r)) + 1
    BY <1>4, RolesFinite, FS_AddElement
  <2>2. /\ req[r].ctr = Cardinality(Owners(r)) + Cardinality(Holders(r))
        /\ req[r].st = "alive" <=> req[r].ctr > 0
        /\ Owners(r) # {}
    BY <1>1 DEF ObjInv, Counts, CountsAt
  <2>3. /\ req'[r].ctr = req[r].ctr + 1 /\ req'[r].st = req[r].st
    BY <1>1, <1>2 DEF Fields
  <2>4. Cardinality(Owners(r)) \in Nat /\ Cardinality(Holders(r)) \in Nat
        /\ Cardinality(Owners(r)) > 0
    BY <2>2, RolesFinite
  <2> QED BY <1>4, <2>1, <2>2, <2>3, <2>4 DEF CountsAt
<1>7. ASSUME NEW x \in Reqs \ {r} PROVE CountsAt(x)'
  BY <1>2, <1>5, CountsOther DEF Fields
<1>8. OneOwner'
  <2>1. ASSUME NEW x \in Reqs PROVE \A a, b \in Owners(x)' : a = b
    <3>1. CASE x = r
      BY <1>4, <3>1 DEF ObjInv, OneOwner
    <3>2. CASE x # r
      BY <1>5, <3>2 DEF ObjInv, OneOwner
    <3> QED BY <3>1, <3>2
  <2> QED BY <2>1 DEF OneOwner
<1> QED BY <1>6, <1>7, <1>8 DEF Counts

LEMMA DropCounts ==
  ASSUME ObjInv, NEW t \in Threads, NEW r \in Reqs, r = th[t].r,
         find_interrupted_put(t)
  PROVE  Counts' /\ OneOwner'
<1>0. req \in [Reqs -> Object] /\ IInv
  BY DEF ObjInv, IInv, Shape
<1>1. OnlyMoves(t) /\ th[t].at = "intput" /\ r \in Reqs /\ th'[t] = Rest
  BY <1>0, Moves DEF Ended
<1>2. Fields(req', r, AfterPut(req[r].ctr, req[r].st), req[r].ctr - 1, req[r].listed,
             req[r].interrupted)
  BY <1>0, <1>1, ReqEffects DEF find_interrupted_put
<1>3. Rest.at = "idle" /\ Rest.r = NoReq
  BY DEF Rest
<1>4. t \in Holders(r) /\ Holders(r)' = Holders(r) \ {t} /\ Owners(r)' = Owners(r)
  BY <1>1, <1>3 DEF OnlyMoves, Owners, Holders, Owning, Interrupting
<1>5. \A x \in Reqs \ {r} : Owners(x)' = Owners(x) /\ Holders(x)' = Holders(x)
  BY <1>1, <1>3 DEF OnlyMoves, Owners, Holders, Owning, Interrupting
<1>6. CountsAt(r)'
  <2>1. Cardinality(Holders(r) \ {t}) = Cardinality(Holders(r)) - 1
    BY <1>4, RolesFinite, FS_RemoveElement
  <2>2. CountsAt(r)
    BY <1>1 DEF ObjInv, Counts
  <2>3. /\ req'[r].ctr = req[r].ctr - 1 /\ req'[r].listed = req[r].listed
        /\ req'[r].st = AfterPut(req[r].ctr, req[r].st)
    BY <1>1, <1>2 DEF Fields
  <2>4. Cardinality(Owners(r)) \in Nat /\ Cardinality(Holders(r)) \in Nat
        /\ Cardinality(Holders(r)) > 0
    BY <1>4, RolesFinite, FS_EmptySet
  <2>5. req'[r].st = "alive" <=> req'[r].ctr > 0
    BY <2>2, <2>3, <2>4 DEF AfterPut, CountsAt
  <2>6. req'[r].ctr = Cardinality(Owners(r)') + Cardinality(Holders(r)')
    BY <1>4, <2>1, <2>2, <2>3, <2>4 DEF CountsAt
  <2>7. req'[r].listed => Owners(r)' # {}
    BY <1>4, <2>2, <2>3 DEF CountsAt
  <2> QED BY <2>5, <2>6, <2>7 DEF CountsAt
<1>7. ASSUME NEW x \in Reqs \ {r} PROVE CountsAt(x)'
  BY <1>2, <1>5, CountsOther DEF Fields
<1>8. OneOwner'
  <2>1. ASSUME NEW x \in Reqs PROVE \A a, b \in Owners(x)' : a = b
    <3>1. CASE x = r
      BY <1>4, <3>1 DEF ObjInv, OneOwner
    <3>2. CASE x # r
      BY <1>5, <3>2 DEF ObjInv, OneOwner
    <3> QED BY <3>1, <3>2
  <2> QED BY <2>1 DEF OneOwner
<1> QED BY <1>6, <1>7, <1>8 DEF Counts

LEMMA CountsStep ==
  ASSUME ObjInv, [Next]_vars PROVE Counts' /\ OneOwner'
<1> USE DEF objects, kernel
<1>0. req \in [Reqs -> Object] /\ IInv
  BY DEF ObjInv, IInv, Shape
<1>a. ASSUME NEW t \in Threads, SameRole(t), UNCHANGED req PROVE Counts' /\ OneOwner'
  BY <1>a, RolesKept, CountsQuiet
<1>b. ASSUME NEW t \in Threads, SameRole(t), th[t].r \in Reqs, NEW l, NEW m,
             Fields(req', th[t].r, req[th[t].r].st, req[th[t].r].ctr, l, m),
             l = req[th[t].r].listed \/ th[t].at \in Owning
      PROVE  Counts' /\ OneOwner'
  <2>1. th[t].at \in Owning => Owners(th[t].r) # {}
    BY DEF Owners
  <2>2. \A x \in Reqs : /\ req'[x].ctr = req[x].ctr /\ req'[x].st = req[x].st
                        /\ req'[x].listed => req[x].listed \/ Owners(x) # {}
    BY <1>b, <2>1 DEF Fields
  <2> QED BY <1>b, <2>2, RolesKept, CountsQuiet
<1>c. ASSUME NEW t \in Threads, NEW from \in Owning, NEW to \in Owning, Went(t, from, to)
      PROVE  SameRole(t) /\ th[t].r \in Reqs /\ th[t].at \in Owning
  BY <1>c DEF Went, SameRole
<1>d. ASSUME NEW t \in Threads, NEW from \in Holding, NEW to \in Holding, Went(t, from, to)
      PROVE  SameRole(t) /\ th[t].r \in Reqs
  BY <1>d DEF Went, SameRole
<1>e. /\ "new" \in Owning /\ "again" \in Owning /\ "prepare" \in Owning /\ "work" \in Owning
      /\ "finish" \in Owning /\ "unregister" \in Owning /\ "reply" \in Owning
      /\ "free" \in Owning /\ "intlock" \in Holding /\ "callback" \in Holding
      /\ "intunlock" \in Holding /\ "intput" \in Holding
      /\ "idle" \notin Owning \cup Holding /\ "int" \notin Owning \cup Holding
  BY DEF Owning, Holding, Interrupting
<1>1. ASSUME NEW t \in Threads, NEW r \in Reqs, fuse_ll_alloc_req(t, r)
      PROVE  Counts' /\ OneOwner'
  BY <1>1, AllocCounts
<1>2. ASSUME NEW t \in Threads, NEW r \in Reqs, receive_interrupt(t, r)
      PROVE  Counts' /\ OneOwner'
  <2>1. SameRole(t)
    BY <1>0, <1>2, <1>e, Moves DEF SameRole
  <2> QED BY <1>2, <1>a, <2>1 DEF receive_interrupt
<1>3. ASSUME NEW t \in Threads,
             process_unknown(t) \/ handler_returns(t) \/ fuse_do_finish_interrupt(t)
             \/ send_reply(t)
      PROVE  Counts' /\ OneOwner'
  <2>1. SameRole(t)
    BY <1>0, <1>3, <1>c, <1>e, Moves
  <2>2. UNCHANGED req
    BY <1>3 DEF process_unknown, handler_returns, fuse_do_finish_interrupt, send_reply
  <2> QED BY <1>a, <2>1, <2>2
<1>4. ASSUME NEW t \in Threads, check_interrupt(t) PROVE Counts' /\ OneOwner'
  <2>1. SameRole(t) /\ th[t].r \in Reqs /\ th[t].at \in Owning
    BY <1>0, <1>4, <1>c, <1>e, Moves DEF SameRole
  <2>2. \/ req' = [req EXCEPT ![th[t].r].listed = TRUE, ![th[t].r].interrupted = TRUE]
        \/ req' = [req EXCEPT ![th[t].r].listed = TRUE]
    BY <1>4 DEF check_interrupt
  <2>3. \/ Fields(req', th[t].r, req[th[t].r].st, req[th[t].r].ctr, TRUE, TRUE)
        \/ Fields(req', th[t].r, req[th[t].r].st, req[th[t].r].ctr, TRUE,
                  req[th[t].r].interrupted)
    BY <1>0, <2>1, <2>2, ReqEffects
  <2> QED BY <1>b, <2>1, <2>3
<1>5. ASSUME NEW t \in Threads, reply_again(t) PROVE Counts' /\ OneOwner'
  <2>1. SameRole(t)
    BY <1>0, <1>5, <1>e, Moves DEF SameRole
  <2> QED BY <1>5, <1>a, <2>1 DEF reply_again
<1>6. ASSUME NEW t \in Threads, fuse_prepare_interrupt(t) \/ fuse_req_interrupt_func(t)
      PROVE  Counts' /\ OneOwner'
  <2>1. SameRole(t) /\ th[t].r \in Reqs
    BY <1>0, <1>6, <1>c, <1>e, Moves
  <2>2. UNCHANGED req \/ Fields(req', th[t].r, req[th[t].r].st, req[th[t].r].ctr,
                                req[th[t].r].listed, req[th[t].r].interrupted)
    BY <1>0, <1>6, <2>1, ReqEffects DEF fuse_prepare_interrupt, fuse_req_interrupt_func
  <2> QED BY <1>a, <1>b, <2>1, <2>2
<1>7. ASSUME NEW t \in Threads, fuse_free_req(t) PROVE Counts' /\ OneOwner'
  <2>1. th[t].r \in Reqs
    BY <1>0, <1>7, Moves DEF Ended
  <2> QED BY <1>7, <2>1, FreeCounts
<1>8. ASSUME NEW t \in Threads, do_interrupt(t) PROVE Counts' /\ OneOwner'
  <2>1. CASE req[th[t].r].listed
    <3>1. th[t].r \in Reqs
      BY <1>0, <1>8, <2>1, Moves DEF Went
    <3> QED BY <1>8, <2>1, <3>1, HoldCounts
  <2>2. CASE ~req[th[t].r].listed
    <3>1. Ended(t, "int") /\ Rest.at = "idle"
      BY <1>0, <1>8, <2>2, Moves DEF Rest
    <3>2. SameRole(t)
      BY <1>e, <3>1 DEF SameRole, Ended
    <3> QED BY <1>8, <1>a, <2>2, <3>2 DEF do_interrupt
  <2> QED BY <2>1, <2>2
<1>9. ASSUME NEW t \in Threads, find_interrupted_mark(t) PROVE Counts' /\ OneOwner'
  <2>1. SameRole(t) /\ th[t].r \in Reqs
    BY <1>0, <1>9, <1>d, <1>e, Moves
  <2>2. Fields(req', th[t].r, req[th[t].r].st, req[th[t].r].ctr, req[th[t].r].listed, TRUE)
    BY <1>0, <1>9, <2>1, ReqEffects DEF find_interrupted_mark
  <2> QED BY <1>b, <2>1, <2>2
<1>10. ASSUME NEW t \in Threads, fuse_interrupt(t) \/ find_interrupted_unlock(t)
       PROVE  Counts' /\ OneOwner'
  <2>1. SameRole(t)
    BY <1>0, <1>10, <1>d, <1>e, Moves
  <2> QED BY <1>10, <1>a, <2>1 DEF fuse_interrupt, find_interrupted_unlock
<1>11. ASSUME NEW t \in Threads, find_interrupted_put(t) PROVE Counts' /\ OneOwner'
  <2>1. th[t].r \in Reqs
    BY <1>0, <1>11, Moves DEF Ended
  <2> QED BY <1>11, <2>1, DropCounts
<1>12. ASSUME UNCHANGED <<req, th>> PROVE Counts' /\ OneOwner'
  <2>1. \A r : Owners(r)' = Owners(r) /\ Holders(r)' = Holders(r)
    BY <1>12 DEF Owners, Holders
  <2> QED BY <1>12, <2>1, CountsQuiet
<1>13. ASSUME NEW r \in Reqs, KernelInterrupts(r) PROVE Counts' /\ OneOwner'
  BY <1>12, <1>13 DEF KernelInterrupts
<1>14. CASE UNCHANGED vars
  BY <1>12, <1>14 DEF vars
<1> QED BY <1>1, <1>2, <1>3, <1>4, <1>5, <1>6, <1>7, <1>8, <1>9, <1>10, <1>11, <1>13, <1>14
        DEF Next, Step

---------------------------------------------------------------------------
(* The rest of the invariant *)

\* A thread takes up a request only by reading it or an interrupt of it.
LEMMA TakesUp ==
  ASSUME IInv, NEW t \in Threads, Step(t),
         \A r \in Reqs : ~fuse_ll_alloc_req(t, r) /\ ~receive_interrupt(t, r)
  PROVE  OnlyMoves(t) /\ th'[t].r \in {th[t].r, NoReq}
<1>1. Rest.r = NoReq
  BY DEF Rest
<1> QED BY <1>1, Moves DEF Step, Went, Ended

LEMMA KernelStep ==
  ASSUME ObjInv, [Next]_vars PROVE KernelShape' /\ QueuedUnknown'
<1> USE DEF kernel, objects
<1>0. /\ KernelShape /\ QueuedUnknown /\ IInv
      /\ kreq \in [Reqs -> {"queued", "sent", "answered"}]
      /\ kintr \in [Reqs -> {"none", "queued", "read"}]
  BY DEF ObjInv, KernelShape
<1>a. ASSUME kreq' = kreq \/ \E r \in Reqs, v \in {"sent", "answered"} :
                                kreq' = [kreq EXCEPT ![r] = v],
             \/ kintr' = kintr
             \/ \E r \in Reqs, v \in {"none", "queued", "read"} :
                  kintr' = [kintr EXCEPT ![r] = v] /\ (kreq[r] = "queued" => v = "none"),
             \A x \in Reqs : kreq[x] = "queued" /\ kreq'[x] = "queued" =>
                               \A u \in Threads : th'[u].r # x
      PROVE  KernelShape' /\ QueuedUnknown'
  <2>1. KernelShape'
    BY <1>0, <1>a DEF KernelShape
  <2>2. ASSUME NEW x \in Reqs, kreq'[x] = "queued"
        PROVE  kintr'[x] = "none" /\ \A u \in Threads : th'[u].r # x
    <3>1. kreq[x] = "queued"
      BY <1>0, <1>a, <2>2
    <3>2. kintr[x] = "none"
      BY <1>0, <3>1 DEF QueuedUnknown
    <3>3. kintr'[x] = "none"
      BY <1>0, <1>a, <3>1, <3>2
    <3> QED BY <1>a, <2>2, <3>1, <3>3
  <2> QED BY <2>1, <2>2 DEF QueuedUnknown
<1>b. ASSUME NEW t \in Threads, OnlyMoves(t), th'[t].r \in {th[t].r, NoReq}
      PROVE  \A x \in Reqs : kreq[x] = "queued" => \A u \in Threads : th'[u].r # x
  BY <1>0, <1>b, NoneIsNone DEF QueuedUnknown, OnlyMoves
<1>1. ASSUME NEW t \in Threads, NEW r \in Reqs, fuse_ll_alloc_req(t, r)
      PROVE  KernelShape' /\ QueuedUnknown'
  <2>1. OnlyMoves(t) /\ th'[t].r = r
    BY <1>0, <1>1, Moves
  <2>2. kreq' = [kreq EXCEPT ![r] = "sent"] /\ kintr' = kintr
    BY <1>1 DEF fuse_ll_alloc_req
  <2>3. ASSUME NEW x \in Reqs, kreq[x] = "queued", kreq'[x] = "queued"
        PROVE  \A u \in Threads : th'[u].r # x
    <3>1. x # r
      BY <1>0, <2>2, <2>3
    <3>2. \A u \in Threads : th[u].r # x
      BY <1>0, <2>3 DEF QueuedUnknown
    <3> QED BY <2>1, <3>1, <3>2 DEF OnlyMoves
  <2> QED BY <1>a, <2>2, <2>3
<1>2. ASSUME NEW t \in Threads, NEW r \in Reqs, receive_interrupt(t, r)
      PROVE  KernelShape' /\ QueuedUnknown'
  <2>1. OnlyMoves(t) /\ th'[t].r = r
    BY <1>0, <1>2, Moves
  <2>2. kintr' = [kintr EXCEPT ![r] = "read"] /\ kreq' = kreq /\ kintr[r] = "queued"
    BY <1>2 DEF receive_interrupt
  <2>3. kreq[r] # "queued"
    BY <1>0, <2>2 DEF QueuedUnknown
  <2>4. ASSUME NEW x \in Reqs, kreq[x] = "queued"
        PROVE  \A u \in Threads : th'[u].r # x
    <3>1. \A u \in Threads : th[u].r # x
      BY <1>0, <2>4 DEF QueuedUnknown
    <3> QED BY <2>1, <2>3, <2>4, <3>1 DEF OnlyMoves
  <2> QED BY <1>a, <2>2, <2>3, <2>4
<1>3. ASSUME NEW t \in Threads, Step(t),
             \A r \in Reqs : ~fuse_ll_alloc_req(t, r) /\ ~receive_interrupt(t, r)
      PROVE  KernelShape' /\ QueuedUnknown'
  <2>1. \A x \in Reqs : kreq[x] = "queued" => \A u \in Threads : th'[u].r # x
    BY <1>0, <1>3, <1>b, TakesUp
  <2>2. CASE reply_again(t)
    <3>1. th[t].i \in Reqs
      BY <1>0, <2>2 DEF ObjInv, AgainNames, reply_again, At, IInv, Shape, ThreadShape, Work
    <3>2. PICK v \in {"none", "queued", "read"} :
            kintr' = [kintr EXCEPT ![th[t].i] = v] /\ (kreq[th[t].i] = "queued" => v = "none")
      BY <1>0, <2>2, <3>1 DEF reply_again, QueuedUnknown
    <3> QED BY <1>a, <2>1, <2>2, <3>1, <3>2 DEF reply_again
  <2>3. CASE send_reply(t)
    <3>1. th[t].r \in Reqs
      BY <1>0, <2>3, Moves DEF Went
    <3>2. PICK v \in {"none", "queued", "read"} :
            kintr' = [kintr EXCEPT ![th[t].r] = v] /\ (kreq[th[t].r] = "queued" => v = "none")
      BY <1>0, <2>3, <3>1 DEF send_reply, QueuedUnknown
    <3>3. kreq' = [kreq EXCEPT ![th[t].r] = "answered"]
      BY <2>3 DEF send_reply
    <3> QED BY <1>a, <2>1, <3>1, <3>2, <3>3
  <2>4. CASE ~reply_again(t) /\ ~send_reply(t)
    <3>1. kreq' = kreq /\ kintr' = kintr
      BY <1>3, <2>4 DEF Step, process_unknown, check_interrupt, fuse_prepare_interrupt,
         handler_returns, fuse_do_finish_interrupt, fuse_req_interrupt_func, fuse_free_req,
         do_interrupt, find_interrupted_mark, fuse_interrupt, find_interrupted_unlock,
         find_interrupted_put
    <3> QED BY <1>a, <2>1, <3>1
  <2> QED BY <2>2, <2>3, <2>4
<1>4. ASSUME NEW r \in Reqs, KernelInterrupts(r) PROVE KernelShape' /\ QueuedUnknown'
  <2>1. kintr' = [kintr EXCEPT ![r] = "queued"] /\ kreq[r] = "sent" /\ UNCHANGED <<kreq, th>>
    BY <1>4 DEF KernelInterrupts
  <2> QED BY <1>0, <1>a, <2>1 DEF QueuedUnknown
<1>5. CASE UNCHANGED vars
  BY <1>0, <1>5 DEF vars, KernelShape, QueuedUnknown
<1> QED BY <1>1, <1>2, <1>3, <1>4, <1>5 DEF Next

LEMMA AgainStep == ASSUME ObjInv, [Next]_vars PROVE AgainNames'
<1>0. /\ IInv /\ AgainNames /\ interrupts \in Seq(Reqs)
  BY DEF ObjInv, IInv, Shape
<1>a. ASSUME NEW t \in Threads, OnlyMoves(t), th'[t].at = "again" <=> th'[t].i # NoReq
      PROVE  AgainNames'
  BY <1>0, <1>a DEF AgainNames, OnlyMoves
<1>b. Rest.at = "idle" /\ Rest.i = NoReq
  BY DEF Rest
<1>c. ASSUME NEW t \in Threads, NEW from, NEW to, Went(t, from, to), from # "again", to # "again"
      PROVE  AgainNames'
  BY <1>0, <1>a, <1>c DEF Went, AgainNames
<1>d. ASSUME NEW t \in Threads, NEW from, Ended(t, from) PROVE AgainNames'
  BY <1>a, <1>b, <1>d DEF Ended
<1>1. ASSUME NEW t \in Threads, NEW r \in Reqs, fuse_ll_alloc_req(t, r) \/ receive_interrupt(t, r)
      PROVE  AgainNames'
  BY <1>0, <1>1, <1>a, Moves
<1>2. ASSUME NEW t \in Threads, check_interrupt(t) PROVE AgainNames'
  <2>1. CASE Went(t, "new", "prepare")
    BY <1>c, <2>1
  <2>2. CASE /\ interrupts # <<>> /\ OnlyMoves(t) /\ th'[t].at = "again"
             /\ th'[t].i = Head(interrupts)
    <3>1. Head(interrupts) # NoReq
      BY <1>0, <2>2, NoneIsNone
    <3> QED BY <1>a, <2>2, <3>1
  <2> QED BY <1>0, <1>2, <2>1, <2>2, Moves
<1>3. ASSUME NEW t \in Threads, reply_again(t) PROVE AgainNames'
  BY <1>0, <1>3, <1>a, Moves
<1>4. ASSUME NEW t \in Threads,
             \/ process_unknown(t) \/ fuse_prepare_interrupt(t) \/ handler_returns(t)
             \/ fuse_do_finish_interrupt(t) \/ fuse_req_interrupt_func(t) \/ send_reply(t)
             \/ fuse_free_req(t) \/ do_interrupt(t) \/ find_interrupted_mark(t)
             \/ fuse_interrupt(t) \/ find_interrupted_unlock(t) \/ find_interrupted_put(t)
      PROVE  AgainNames'
  BY <1>0, <1>4, <1>c, <1>d, Moves
<1>5. ASSUME UNCHANGED th PROVE AgainNames'
  BY <1>0, <1>5 DEF AgainNames
<1> QED BY <1>1, <1>2, <1>3, <1>4, <1>5 DEF Next, Step, KernelInterrupts, vars

LEMMA LockStep == ASSUME ObjInv, [Next]_vars PROVE LockOwned'
<1> USE DEF objects
<1>0. /\ IInv /\ LockOwned /\ lock \in [Reqs -> Threads \cup {NoThread}]
  BY DEF ObjInv, IInv, Shape
<1>a. ASSUME NEW t \in Threads, OnlyMoves(t), th[t].at \notin {"callback", "intunlock"},
             lock' = lock
      PROVE  LockOwned'
  BY <1>0, <1>a DEF LockOwned, OnlyMoves
<1>1. ASSUME NEW t \in Threads, find_interrupted_mark(t) PROVE LockOwned'
  <2>1. /\ OnlyMoves(t) /\ th[t].at = "intlock" /\ th'[t].at \in {"callback", "intunlock"}
        /\ th[t].r \in Reqs /\ th'[t].r = th[t].r
    BY <1>0, <1>1, Moves DEF Went
  <2>2. lock' = [lock EXCEPT ![th[t].r] = t]
    BY <1>1 DEF find_interrupted_mark
  <2> QED BY <1>0, <2>1, <2>2 DEF LockOwned, OnlyMoves
<1>2. ASSUME NEW t \in Threads, find_interrupted_unlock(t) PROVE LockOwned'
  <2>1. OnlyMoves(t) /\ th[t].r \in Reqs
    BY <1>0, <1>2, Moves DEF Went
  <2>2. lock' = [lock EXCEPT ![th[t].r] = NoThread]
    BY <1>2 DEF find_interrupted_unlock
  <2> QED BY <1>0, <2>1, <2>2 DEF LockOwned, OnlyMoves
<1>3. ASSUME NEW t \in Threads, fuse_interrupt(t) PROVE LockOwned'
  <2>1. OnlyMoves(t) /\ th'[t].r = th[t].r /\ th'[t].at \in {"callback", "intunlock"}
    BY <1>0, <1>3, Moves DEF Went
  <2>2. lock' = lock
    BY <1>3 DEF fuse_interrupt
  <2> QED BY <1>0, <2>1, <2>2 DEF LockOwned, OnlyMoves
<1>4. ASSUME NEW t \in Threads, Step(t), ~find_interrupted_mark(t),
             ~find_interrupted_unlock(t), ~fuse_interrupt(t)
      PROVE  LockOwned'
  <2>1. OnlyMoves(t) /\ th[t].at \notin {"callback", "intunlock"}
    BY <1>0, <1>4, Moves DEF Step, Went, Ended
  <2>2. lock' = lock
    BY <1>4 DEF Step, fuse_ll_alloc_req, receive_interrupt, process_unknown, check_interrupt,
       reply_again, fuse_prepare_interrupt, handler_returns, fuse_do_finish_interrupt,
       fuse_req_interrupt_func, send_reply, fuse_free_req, do_interrupt, find_interrupted_put
  <2> QED BY <1>a, <2>1, <2>2
<1>5. ASSUME UNCHANGED <<lock, th>> PROVE LockOwned'
  BY <1>0, <1>5 DEF LockOwned
<1> QED BY <1>1, <1>2, <1>3, <1>4, <1>5 DEF Next, KernelInterrupts, vars

LEMMA ObjInit == Init => ObjInv
<1> SUFFICES ASSUME Init PROVE ObjInv
  OBVIOUS
<1>1. IInv
  BY IInvInit
<1>2. Rest.at = "idle" /\ Rest.r = NoReq /\ Rest.i = NoReq /\ \A t \in Threads : th[t] = Rest
  BY DEF Init, Rest
<1>3. \A r \in Reqs : Owners(r) = {} /\ Holders(r) = {}
  BY <1>2 DEF Owners, Holders, Owning, Interrupting
<1>4. Counts
  <2>1. Cardinality({}) = 0
    BY FS_EmptySet, Zenon
  <2>2. ASSUME NEW r \in Reqs PROVE CountsAt(r)
    <3>1. req[r].ctr = 0 /\ req[r].st = "none" /\ req[r].listed = FALSE
      BY DEF Init, NoObject
    <3> QED BY <1>3, <2>1, <3>1 DEF CountsAt
  <2> QED BY <2>2 DEF Counts
<1>5. OneOwner
  BY <1>3 DEF OneOwner
<1>6. KernelShape /\ QueuedUnknown /\ LockOwned /\ AgainNames
  BY <1>2, NoneIsNone DEF Init, KernelShape, QueuedUnknown, LockOwned, AgainNames
<1> QED BY <1>1, <1>4, <1>5, <1>6 DEF ObjInv

LEMMA ObjAlways == Spec => []ObjInv
<1>1. ObjInv /\ [Next]_vars => ObjInv'
  <2> SUFFICES ASSUME ObjInv, [Next]_vars PROVE ObjInv'
    OBVIOUS
  <2>1. IInv'
    BY ShapeStep, ScopesStep DEF ObjInv, IInv
  <2> QED BY <2>1, CountsStep, KernelStep, AgainStep, LockStep DEF ObjInv
<1> QED BY <1>1, ObjInit, PTL DEF Spec

---------------------------------------------------------------------------
(* The list of waiting interrupts *)

LEMMA RemoveAtLen ==
  ASSUME NEW S, NEW s \in Seq(S), NEW p \in 1 .. Len(s)
  PROVE  /\ RemoveAt(s, p) \in Seq(S) /\ Len(RemoveAt(s, p)) = Len(s) - 1
         /\ \A j \in 1 .. Len(s) - 1 : RemoveAt(s, p)[j] = IF j < p THEN s[j] ELSE s[j + 1]
<1>1. SubSeq(s, 1, p - 1) \in Seq(S) /\ Len(SubSeq(s, 1, p - 1)) = p - 1
  OBVIOUS
<1>2. SubSeq(s, p + 1, Len(s)) \in Seq(S) /\ Len(SubSeq(s, p + 1, Len(s))) = Len(s) - p
  OBVIOUS
<1>3. \A j \in 1 .. p - 1 : SubSeq(s, 1, p - 1)[j] = s[j]
  OBVIOUS
<1>4. \A j \in 1 .. Len(s) - p : SubSeq(s, p + 1, Len(s))[j] = s[p + j]
  OBVIOUS
<1> DEFINE a == SubSeq(s, 1, p - 1)
           b == SubSeq(s, p + 1, Len(s))
<1> HIDE DEF a, b
<1>5. RemoveAt(s, p) = a \o b
  BY DEF RemoveAt, a, b
<1>6. a \in Seq(S) /\ b \in Seq(S) /\ Len(a) = p - 1 /\ Len(b) = Len(s) - p
  BY <1>1, <1>2 DEF a, b
<1>7. a \o b \in Seq(S) /\ Len(a \o b) = Len(s) - 1
  BY <1>6
<1>8. ASSUME NEW j \in 1 .. Len(s) - 1
      PROVE  (a \o b)[j] = IF j < p THEN s[j] ELSE s[j + 1]
  <2>1. (a \o b)[j] = IF j <= p - 1 THEN a[j] ELSE b[j - (p - 1)]
    BY <1>6
  <2>2. CASE j < p
    BY <1>3, <2>1, <2>2 DEF a
  <2>3. CASE j >= p
    <3>1. j - (p - 1) \in 1 .. Len(s) - p /\ p + (j - (p - 1)) = j + 1
      BY <2>3
    <3>2. b[j - (p - 1)] = s[p + (j - (p - 1))]
      BY <1>4, <3>1 DEF b
    <3>3. (a \o b)[j] = b[j - (p - 1)]
      BY <2>1, <2>3
    <3> QED BY <2>3, <3>1, <3>2, <3>3
  <2>4. j < p \/ j >= p
    OBVIOUS
  <2> QED BY <2>2, <2>3, <2>4
<1> QED BY <1>5, <1>7, <1>8

\* What is taken off the list is the only thing that leaves it.
LEMMA ListKeeps ==
  ASSUME NEW S, NEW s \in Seq(S), NEW x \in S, Contains(s, x)
  PROVE  /\ \A p \in 1 .. Len(s) : s[p] # x => Contains(RemoveAt(s, p), x)
         /\ s # <<>> /\ (Head(s) # x => Contains(Tail(s), x))
         /\ \A y \in S : Contains(Append(s, y), x)
<1>1. PICK k \in 1 .. Len(s) : s[k] = x
  BY DEF Contains
<1>2. ASSUME NEW p \in 1 .. Len(s), s[p] # x PROVE Contains(RemoveAt(s, p), x)
  <2> DEFINE j == IF k < p THEN k ELSE k - 1
  <2>1. j \in 1 .. Len(s) - 1 /\ (IF j < p THEN s[j] ELSE s[j + 1]) = x
    BY <1>1, <1>2
  <2>2. RemoveAt(s, p)[j] = x /\ Len(RemoveAt(s, p)) = Len(s) - 1
    BY <2>1, RemoveAtLen
  <2> QED BY <2>1, <2>2 DEF Contains
<1>3. s # <<>>
  BY <1>1
<1>4. ASSUME Head(s) # x PROVE Contains(Tail(s), x)
  <2>1. k - 1 \in 1 .. Len(Tail(s)) /\ Tail(s)[k - 1] = x
    BY <1>1, <1>3, <1>4
  <2> QED BY <2>1 DEF Contains
<1>5. ASSUME NEW y \in S PROVE Contains(Append(s, y), x)
  <2>1. k \in 1 .. Len(Append(s, y)) /\ Append(s, y)[k] = x
    BY <1>1
  <2> QED BY <2>1 DEF Contains
<1> QED BY <1>2, <1>3, <1>4, <1>5

LEMMA AppendContains ==
  ASSUME NEW S, NEW s \in Seq(S), NEW x \in S PROVE Contains(Append(s, x), x)
<1>1. Len(s) + 1 \in 1 .. Len(Append(s, x)) /\ Append(s, x)[Len(s) + 1] = x
  OBVIOUS
<1> QED BY <1>1 DEF Contains

---------------------------------------------------------------------------
(* References to the channel *)

Chan == ctr \in Int /\ ChannelKept

LEMMA ChanFinite ==
  /\ IsFiniteSet(Owned) /\ Cardinality(Owned) \in Nat
  /\ IsFiniteSet(AtInterrupt) /\ Cardinality(AtInterrupt) \in Nat
<1> DEFINE T == {t \in Threads : th[t].at \in Owning /\ th[t].r \in Reqs}
           f == [t \in T |-> th[t].r]
<1>1. IsFiniteSet(T) /\ IsFiniteSet(AtInterrupt)
  BY ThreadsFinite, FS_Subset DEF AtInterrupt
<1>2. f \in Surjection(T, Owned)
  <2>1. f \in [T -> Owned]
    BY DEF Owned, Owners
  <2>2. \A r \in Owned : \E t \in T : f[t] = r
    BY DEF Owned, Owners
  <2> QED BY <2>1, <2>2 DEF Surjection
<1>3. IsFiniteSet(Owned)
  BY <1>1, <1>2, FS_Surjection
<1> QED BY <1>1, <1>3, FS_CardinalityType

AtInt == Interrupting \cup {"again"}

\* How a step moves its thread in and out of the two sets.
LEMMA OwnersSame ==
  ASSUME NEW t \in Threads, OnlyMoves(t),
         \/ th[t].at \notin Owning /\ th'[t].at \notin Owning
         \/ th[t].at \in Owning /\ th'[t].at \in Owning /\ th'[t].r = th[t].r
  PROVE  Owned' = Owned
<1>1. \A r \in Reqs : Owners(r)' = Owners(r)
  BY DEF OnlyMoves, Owners
<1> QED BY <1>1 DEF Owned

LEMMA AtMoves ==
  ASSUME NEW t \in Threads, OnlyMoves(t)
  PROVE  /\ (th[t].at \in AtInt <=> th'[t].at \in AtInt) => AtInterrupt' = AtInterrupt
         /\ th[t].at \notin AtInt /\ th'[t].at \in AtInt =>
              Cardinality(AtInterrupt') = Cardinality(AtInterrupt) + 1
         /\ th[t].at \in AtInt /\ th'[t].at \notin AtInt =>
              Cardinality(AtInterrupt') = Cardinality(AtInterrupt) - 1
<1>1. AtInterrupt = {u \in Threads : th[u].at \in AtInt}
      /\ AtInterrupt' = {u \in Threads : th'[u].at \in AtInt}
  BY DEF AtInterrupt, AtInt
<1>2. (th[t].at \in AtInt <=> th'[t].at \in AtInt) => AtInterrupt' = AtInterrupt
  BY <1>1 DEF OnlyMoves
<1>3. ASSUME th[t].at \notin AtInt, th'[t].at \in AtInt
      PROVE  Cardinality(AtInterrupt') = Cardinality(AtInterrupt) + 1
  <2>1. AtInterrupt' = AtInterrupt \cup {t} /\ t \notin AtInterrupt
    BY <1>1, <1>3 DEF OnlyMoves
  <2> QED BY <2>1, ChanFinite, FS_AddElement
<1>4. ASSUME th[t].at \in AtInt, th'[t].at \notin AtInt
      PROVE  Cardinality(AtInterrupt') = Cardinality(AtInterrupt) - 1
  <2>1. AtInterrupt' = AtInterrupt \ {t} /\ t \in AtInterrupt
    BY <1>1, <1>4 DEF OnlyMoves
  <2> QED BY <2>1, ChanFinite, FS_RemoveElement
<1> QED BY <1>2, <1>3, <1>4

LEMMA OwnedChanges ==
  ASSUME ObjInv, NEW t \in Threads, NEW r \in Reqs
  PROVE  /\ fuse_ll_alloc_req(t, r) => Cardinality(Owned') = Cardinality(Owned) + 1
         /\ fuse_free_req(t) /\ r = th[t].r => Cardinality(Owned') = Cardinality(Owned) - 1
<1>0. IInv
  BY DEF ObjInv
<1>1. ASSUME fuse_ll_alloc_req(t, r) PROVE Cardinality(Owned') = Cardinality(Owned) + 1
  <2>1. OnlyMoves(t) /\ th[t].at = "idle" /\ th'[t].at = "new" /\ th'[t].r = r
    BY <1>0, <1>1, Moves
  <2>2. \A u \in Threads : th[u].r # r
    BY <1>1 DEF ObjInv, QueuedUnknown, fuse_ll_alloc_req
  <2>3. Owners(r) = {} /\ Owners(r)' = {t}
    BY <2>1, <2>2 DEF OnlyMoves, Owners, Owning
  <2>4. \A x \in Reqs \ {r} : Owners(x)' = Owners(x)
    BY <2>1 DEF OnlyMoves, Owners, Owning
  <2>5. Owned' = Owned \cup {r} /\ r \notin Owned
    BY <2>3, <2>4 DEF Owned
  <2> QED BY <2>5, ChanFinite, FS_AddElement
<1>2. ASSUME fuse_free_req(t), r = th[t].r
      PROVE  Cardinality(Owned') = Cardinality(Owned) - 1
  <2>1. OnlyMoves(t) /\ th[t].at = "free" /\ th'[t].at = "idle" /\ th'[t].r = NoReq
    BY <1>0, <1>2, Moves DEF Ended, Rest
  <2>2. t \in Owners(r) /\ \A u \in Owners(r) : u = t
    BY <1>2, <2>1 DEF ObjInv, OneOwner, Owners, Owning
  <2>3. Owners(r)' = {}
    BY <2>1, <2>2, NoneIsNone DEF OnlyMoves, Owners
  <2>4. \A x \in Reqs \ {r} : Owners(x)' = Owners(x)
    BY <1>2, <2>1, NoneIsNone DEF OnlyMoves, Owners, Owning
  <2>5. Owned' = Owned \ {r} /\ r \in Owned
    BY <2>2, <2>3, <2>4 DEF Owned
  <2> QED BY <2>5, ChanFinite, FS_RemoveElement
<1> QED BY <1>1, <1>2

LEMMA ChanStep == ASSUME ObjInv, Chan, [Next]_vars PROVE Chan'
<1> USE DEF objects, kernel
<1>0. /\ IInv /\ interrupts \in Seq(Reqs) /\ Len(interrupts) \in Nat
      /\ ctr \in Int /\ ctr >= 1 + Cardinality(Owned) + Len(interrupts) + Cardinality(AtInterrupt)
  BY DEF ObjInv, IInv, Shape, Chan, ChannelKept
<1>a. ASSUME ctr' = ctr, Owned' = Owned, Len(interrupts') = Len(interrupts),
             AtInterrupt' = AtInterrupt
      PROVE  Chan'
  BY <1>0, <1>a DEF Chan, ChannelKept
<1>b. ASSUME NEW t \in Threads, NEW from \in Owning \ {"again"}, NEW to \in Owning \ {"again"},
             Went(t, from, to), UNCHANGED <<ctr, interrupts>>
      PROVE  Chan'
  <2>1. from \notin AtInt /\ to \notin AtInt
    BY DEF Owning, AtInt, Interrupting
  <2> QED BY <1>a, <1>b, <2>1, OwnersSame, AtMoves DEF Went
<1>c. ASSUME NEW t \in Threads, NEW from \in Interrupting, NEW to \in Interrupting,
             Went(t, from, to), UNCHANGED <<ctr, interrupts>>
      PROVE  Chan'
  <2>1. from \notin Owning /\ to \notin Owning /\ from \in AtInt /\ to \in AtInt
    BY DEF Owning, AtInt, Interrupting
  <2> QED BY <1>a, <1>c, <2>1, OwnersSame, AtMoves DEF Went
<1>d. /\ "int" \in AtInt /\ "again" \in AtInt /\ "intput" \in AtInt
      /\ "idle" \notin AtInt /\ "new" \notin AtInt /\ "prepare" \notin AtInt /\ "free" \notin AtInt
      /\ "idle" \notin Owning /\ "int" \notin Owning /\ "intput" \notin Owning
      /\ "new" \in Owning /\ "again" \in Owning /\ "prepare" \in Owning
  BY DEF Owning, AtInt, Interrupting
<1>e. /\ Cardinality(Owned) \in Nat /\ Cardinality(AtInterrupt) \in Nat
  BY ChanFinite
<1>1. ASSUME NEW t \in Threads, NEW r \in Reqs, fuse_ll_alloc_req(t, r) PROVE Chan'
  <2>1. OnlyMoves(t) /\ th[t].at = "idle" /\ th'[t].at = "new"
    BY <1>0, <1>1, Moves
  <2>2. AtInterrupt' = AtInterrupt
    BY <1>d, <2>1, AtMoves
  <2>3. Cardinality(Owned') = Cardinality(Owned) + 1
    BY <1>1, OwnedChanges
  <2>4. ctr' = ctr + 1 /\ interrupts' = interrupts
    BY <1>1 DEF fuse_ll_alloc_req
  <2> QED BY <1>0, <1>e, <2>2, <2>3, <2>4 DEF Chan, ChannelKept
<1>2. ASSUME NEW t \in Threads, NEW r \in Reqs, receive_interrupt(t, r) PROVE Chan'
  <2>1. OnlyMoves(t) /\ th[t].at = "idle" /\ th'[t].at = "int"
    BY <1>0, <1>2, Moves
  <2>2. Cardinality(AtInterrupt') = Cardinality(AtInterrupt) + 1
    BY <1>d, <2>1, AtMoves
  <2>3. Owned' = Owned
    BY <1>d, <2>1, OwnersSame
  <2>4. ctr' = ctr + 1 /\ interrupts' = interrupts
    BY <1>2 DEF receive_interrupt
  <2> QED BY <1>0, <1>e, <2>2, <2>3, <2>4 DEF Chan, ChannelKept
<1>3. ASSUME NEW t \in Threads,
             \/ process_unknown(t) \/ fuse_prepare_interrupt(t) \/ handler_returns(t)
             \/ fuse_do_finish_interrupt(t) \/ fuse_req_interrupt_func(t) \/ send_reply(t)
      PROVE  Chan'
  <2>1. UNCHANGED <<ctr, interrupts>>
    BY <1>3 DEF process_unknown, fuse_prepare_interrupt, handler_returns,
       fuse_do_finish_interrupt, fuse_req_interrupt_func, send_reply
  <2>2. \E from \in Owning \ {"again"}, to \in Owning \ {"again"} : Went(t, from, to)
    <3>1. {"new", "prepare", "work", "finish", "unregister", "reply", "free"}
            \subseteq Owning \ {"again"}
      BY DEF Owning
    <3> QED BY <1>0, <1>3, <3>1, Moves
  <2> QED BY <1>b, <2>1, <2>2
<1>4. ASSUME NEW t \in Threads, check_interrupt(t) PROVE Chan'
  <2>1. ctr' = ctr
    BY <1>4 DEF check_interrupt
  <2>2. CASE Went(t, "new", "prepare")
    <3>1. Owned' = Owned /\ AtInterrupt' = AtInterrupt
      BY <1>d, <2>2, OwnersSame, AtMoves DEF Went
    <3>2. \/ interrupts' = interrupts
          \/ \E p \in 1 .. Len(interrupts) : interrupts' = RemoveAt(interrupts, p)
          \/ interrupts # <<>> /\ interrupts' = Tail(interrupts)
      BY <1>4 DEF check_interrupt
    <3>3. Len(interrupts') <= Len(interrupts) /\ Len(interrupts') \in Nat
      BY <1>0, <3>2, RemoveAtLen
    <3> QED BY <1>0, <1>e, <2>1, <3>1, <3>3 DEF Chan, ChannelKept
  <2>3. CASE /\ ~Contains(interrupts, th[t].r) /\ interrupts # <<>>
             /\ OnlyMoves(t) /\ th[t].at = "new" /\ th'[t].at = "again" /\ th'[t].r = th[t].r
    <3>1. Owned' = Owned /\ Cardinality(AtInterrupt') = Cardinality(AtInterrupt) + 1
      BY <1>d, <2>3, OwnersSame, AtMoves
    <3>2. interrupts' = Tail(interrupts)
      BY <1>4, <2>3 DEF check_interrupt, Contains
    <3>3. Len(interrupts') = Len(interrupts) - 1
      BY <1>0, <2>3, <3>2
    <3> QED BY <1>0, <1>e, <2>1, <3>1, <3>3 DEF Chan, ChannelKept
  <2> QED BY <1>0, <1>4, <2>2, <2>3, Moves
<1>5. ASSUME NEW t \in Threads, reply_again(t) PROVE Chan'
  <2>1. OnlyMoves(t) /\ th[t].at = "again" /\ th'[t].at = "prepare" /\ th'[t].r = th[t].r
    BY <1>0, <1>5, Moves
  <2>2. Owned' = Owned /\ Cardinality(AtInterrupt') = Cardinality(AtInterrupt) - 1
    BY <1>d, <2>1, OwnersSame, AtMoves
  <2>3. ctr' = ctr - 1 /\ interrupts' = interrupts
    BY <1>5 DEF reply_again
  <2> QED BY <1>0, <1>e, <2>2, <2>3 DEF Chan, ChannelKept
<1>6. ASSUME NEW t \in Threads, fuse_free_req(t) PROVE Chan'
  <2>1. OnlyMoves(t) /\ th[t].at = "free" /\ th[t].r \in Reqs /\ th'[t].at = "idle"
    BY <1>0, <1>6, Moves DEF Ended, Rest
  <2>2. AtInterrupt' = AtInterrupt
    BY <1>d, <2>1, AtMoves
  <2>3. Cardinality(Owned') = Cardinality(Owned) - 1
    BY <1>6, <2>1, OwnedChanges
  <2>4. ctr' = ctr - 1 /\ interrupts' = interrupts
    BY <1>6 DEF fuse_free_req
  <2> QED BY <1>0, <1>e, <2>2, <2>3, <2>4 DEF Chan, ChannelKept
<1>7. ASSUME NEW t \in Threads, do_interrupt(t) PROVE Chan'
  <2>1. ctr' = ctr
    BY <1>7 DEF do_interrupt
  <2>2. CASE req[th[t].r].listed
    <3>1. Went(t, "int", "intlock") /\ interrupts' = interrupts
      BY <1>0, <1>7, <2>2, Moves DEF do_interrupt
    <3> QED BY <1>c, <2>1, <3>1 DEF Interrupting
  <2>3. CASE ~req[th[t].r].listed
    <3>1. OnlyMoves(t) /\ th[t].at = "int" /\ th[t].r \in Reqs /\ th'[t].at = "idle"
      BY <1>0, <1>7, <2>3, Moves DEF Ended, Rest
    <3>2. Owned' = Owned /\ Cardinality(AtInterrupt') = Cardinality(AtInterrupt) - 1
      BY <1>d, <3>1, OwnersSame, AtMoves
    <3>3. interrupts' = interrupts \/ interrupts' = Append(interrupts, th[t].r)
      BY <1>7, <2>3 DEF do_interrupt
    <3>4. Len(interrupts') <= Len(interrupts) + 1 /\ Len(interrupts') \in Nat
      BY <1>0, <3>1, <3>3
    <3> QED BY <1>0, <1>e, <2>1, <3>2, <3>4 DEF Chan, ChannelKept
  <2> QED BY <2>2, <2>3
<1>8. ASSUME NEW t \in Threads,
             find_interrupted_mark(t) \/ fuse_interrupt(t) \/ find_interrupted_unlock(t)
      PROVE  Chan'
  <2>1. UNCHANGED <<ctr, interrupts>>
    BY <1>8 DEF find_interrupted_mark, fuse_interrupt, find_interrupted_unlock
  <2>2. {"intlock", "callback", "intunlock", "intput"} \subseteq Interrupting
    BY DEF Interrupting
  <2>3. \E from, to \in Interrupting : Went(t, from, to)
    BY <1>0, <1>8, <2>2, Moves
  <2> QED BY <1>c, <2>1, <2>3
<1>9. ASSUME NEW t \in Threads, find_interrupted_put(t) PROVE Chan'
  <2>1. OnlyMoves(t) /\ th[t].at = "intput" /\ th'[t].at = "idle"
    BY <1>0, <1>9, Moves DEF Ended, Rest
  <2>2. Owned' = Owned /\ Cardinality(AtInterrupt') = Cardinality(AtInterrupt) - 1
    BY <1>d, <2>1, OwnersSame, AtMoves
  <2>3. UNCHANGED <<ctr, interrupts>>
    BY <1>9 DEF find_interrupted_put
  <2> QED BY <1>0, <1>e, <2>2, <2>3 DEF Chan, ChannelKept
<1>10. ASSUME UNCHANGED <<ctr, interrupts, th>> PROVE Chan'
  BY <1>10, <1>a DEF Owned, Owners, AtInterrupt
<1> QED BY <1>1, <1>2, <1>3, <1>4, <1>5, <1>6, <1>7, <1>8, <1>9, <1>10
        DEF Next, Step, KernelInterrupts, vars

LEMMA ChanAlways == Spec => []Chan
<1>1. Init => Chan
  <2> SUFFICES ASSUME Init PROVE Chan
    OBVIOUS
  <2>1. Owned = {} /\ AtInterrupt = {}
    BY DEF Init, Rest, Owned, Owners, AtInterrupt, Owning, Interrupting
  <2>2. Cardinality({}) = 0
    BY FS_EmptySet, Zenon
  <2> QED BY <2>1, <2>2 DEF Init, Chan, ChannelKept
<1>2. ObjInv /\ Chan /\ [Next]_vars => Chan'
  BY ChanStep
<1> QED BY <1>1, <1>2, ObjAlways, PTL DEF Spec

\* Every object, of a request or of an interrupt, has its reference to the channel: the
\* channel is never given up too early, wherever the objects end.
THEOREM ChannelIsKept == Spec => []ChannelKept
<1>1. Chan => ChannelKept
  BY DEF Chan
<1> QED BY <1>1, ChanAlways, PTL

---------------------------------------------------------------------------
(* The objects *)

\* The references to the objects are exact: an object lives exactly as long as a thread
\* answers it or interrupts it, and no counter falls below zero.
THEOREM ObjectsAreExact == Spec => []ObjectsExact
<1>1. ObjInv /\ Chan /\ intr \in BOOLEAN => ObjectsExact
  <2> SUFFICES ASSUME ObjInv, Chan, intr \in BOOLEAN PROVE ObjectsExact
    OBVIOUS
  <2>0. Shape /\ KernelShape /\ Counts /\ LockOwned
    BY DEF ObjInv, IInv
  <2>1. ctr \in Nat
    BY <2>0, ChanFinite DEF Chan, ChannelKept, Shape
  <2>2. \A r \in Reqs : req[r].ctr \in Nat
    BY <2>0, RolesFinite DEF Counts, CountsAt
  <2>3. req \in [Reqs -> [st : {"none", "alive", "destroyed"}, ctr : Nat, listed : BOOLEAN,
                          interrupted : BOOLEAN, func : BOOLEAN]]
    <3>1. ASSUME NEW r \in Reqs
          PROVE  req[r] \in [st : {"none", "alive", "destroyed"}, ctr : Nat, listed : BOOLEAN,
                             interrupted : BOOLEAN, func : BOOLEAN]
      <4>1. req[r] \in Object /\ req[r].ctr \in Nat
        BY <2>0, <2>2 DEF Shape
      <4> QED BY <4>1 DEF Object
    <3> QED BY <2>0, <3>1 DEF Shape
  <2>4. TypeOK
    BY <2>0, <2>1, <2>3 DEF TypeOK, Shape, ThreadShape, Work, Places, KernelShape
  <2>5. ASSUME NEW r \in Reqs, lock[r] # NoThread PROVE lock[r] \in Holders(r)
    BY <2>0, <2>5 DEF LockOwned, Shape, Holders, Interrupting
  <2> QED BY <2>0, <2>4, <2>5 DEF ObjectsExact, Counts, CountsAt
<1>2. intr \in BOOLEAN /\ [Next]_vars => (intr \in BOOLEAN)'
  BY ZenonT(30) DEF Next, Step, fuse_ll_alloc_req, receive_interrupt, process_unknown, check_interrupt,
     reply_again, fuse_prepare_interrupt, handler_returns, fuse_do_finish_interrupt,
     fuse_req_interrupt_func, send_reply, fuse_free_req, do_interrupt, find_interrupted_mark,
     fuse_interrupt, find_interrupted_unlock, find_interrupted_put, KernelInterrupts, vars
<1>3. Init => intr \in BOOLEAN
  BY DEF Init
<1> QED BY <1>1, <1>2, <1>3, ChanAlways, ObjAlways, PTL DEF Spec

---------------------------------------------------------------------------
(* Interrupts *)

\* Some thread is busy with an interrupt of x.
BusyWith(x) == \E t \in Threads : \/ th[t].r = x /\ th[t].at \in {"int", "intlock"}
                                  \/ th[t].i = x

KeptAt(x) ==
  kintr[x] = "read" /\ kreq[x] = "sent" =>
    req[x].interrupted \/ (Contains(interrupts, x) /\ ~req[x].listed) \/ BusyWith(x)

\* The interrupt of x is where it was.
Undisturbed(x) ==
  kintr'[x] = "read" /\ kreq'[x] = "sent" =>
    /\ kintr[x] = "read" /\ kreq[x] = "sent"
    /\ req[x].interrupted => req'[x].interrupted
    /\ Contains(interrupts, x) /\ ~req[x].listed => Contains(interrupts', x) /\ ~req'[x].listed
    /\ BusyWith(x) => BusyWith(x)'

LEMMA UndisturbedKept ==
  ASSUME InterruptKept, NEW x \in Reqs, Undisturbed(x) PROVE KeptAt(x)'
<1>1. KeptAt(x)
  BY DEF InterruptKept, KeptAt, BusyWith
<1>2. ASSUME kintr'[x] = "read", kreq'[x] = "sent"
      PROVE  req'[x].interrupted \/ (Contains(interrupts', x) /\ ~req'[x].listed) \/ BusyWith(x)'
  BY <1>1, <1>2 DEF KeptAt, Undisturbed
<1> QED BY <1>2 DEF KeptAt

LEMMA BusyKept ==
  ASSUME NEW t \in Threads, NEW x \in Reqs, OnlyMoves(t),
         ~(th[t].r = x /\ th[t].at \in {"int", "intlock"}), th[t].i # x
  PROVE  BusyWith(x) => BusyWith(x)'
BY DEF BusyWith, OnlyMoves

\* A step of a thread that has no interrupt in hand and touches no list.
LEMMA OtherWork ==
  ASSUME ObjInv, InterruptKept, NEW t \in Threads, OnlyMoves(t),
         th[t].at \notin {"int", "intlock", "again"}, interrupts' = interrupts,
         \A x \in Reqs : kintr'[x] = "read" /\ kreq'[x] = "sent" =>
           /\ kintr[x] = "read" /\ kreq[x] = "sent"
           /\ req[x].interrupted => req'[x].interrupted
           /\ ~req[x].listed => ~req'[x].listed
  PROVE  \A x \in Reqs : KeptAt(x)'
<1>1. th[t].i = NoReq
  BY DEF ObjInv, AgainNames
<1>2. ASSUME NEW x \in Reqs PROVE KeptAt(x)'
  <2>1. BusyWith(x) => BusyWith(x)'
    BY <1>1, BusyKept, NoneIsNone
  <2>2. Undisturbed(x)
    BY <2>1 DEF Undisturbed
  <2> QED BY <2>2, UndisturbedKept
<1> QED BY <1>2

LEMMA KeptStep ==
  ASSUME ObjInv, InterruptKept, [Next]_vars PROVE \A x \in Reqs : KeptAt(x)'
<1> USE DEF objects, kernel
<1>0. /\ IInv /\ interrupts \in Seq(Reqs) /\ req \in [Reqs -> Object]
      /\ kreq \in [Reqs -> {"queued", "sent", "answered"}]
      /\ kintr \in [Reqs -> {"none", "queued", "read"}]
      /\ QueuedUnknown
      /\ \A t \in Threads : th[t].at # "again" => th[t].i = NoReq
      /\ \A t \in Threads : th[t].at = "again" => th[t].i \in Reqs
  BY DEF ObjInv, IInv, Shape, ThreadShape, Work, KernelShape, AgainNames
<1>1. ASSUME NEW t \in Threads, NEW r \in Reqs, fuse_ll_alloc_req(t, r)
      PROVE  \A x \in Reqs : KeptAt(x)'
  <2>1. OnlyMoves(t) /\ th[t].at = "idle"
    BY <1>0, <1>1, Moves
  <2>2. /\ kreq' = [kreq EXCEPT ![r] = "sent"] /\ kreq[r] = "queued"
        /\ req' = [req EXCEPT ![r] = NewObject] /\ UNCHANGED <<kintr, interrupts>>
    BY <1>1 DEF fuse_ll_alloc_req
  <2>3. kintr[r] = "none"
    BY <1>0, <2>2 DEF QueuedUnknown
  <2>4. ASSUME NEW x \in Reqs, kintr'[x] = "read", kreq'[x] = "sent"
        PROVE  kintr[x] = "read" /\ kreq[x] = "sent" /\ req'[x] = req[x]
    BY <1>0, <2>2, <2>3, <2>4
  <2> QED BY <2>1, <2>2, <2>4, OtherWork
<1>2. ASSUME NEW t \in Threads, NEW r \in Reqs, receive_interrupt(t, r)
      PROVE  \A x \in Reqs : KeptAt(x)'
  <2>1. OnlyMoves(t) /\ th[t].at = "idle" /\ th'[t].at = "int" /\ th'[t].r = r
    BY <1>0, <1>2, Moves
  <2>2. kintr' = [kintr EXCEPT ![r] = "read"] /\ UNCHANGED <<kreq, interrupts, req>>
    BY <1>2 DEF receive_interrupt
  <2>3. BusyWith(r)'
    BY <2>1 DEF BusyWith
  <2>4. ASSUME NEW x \in Reqs \ {r} PROVE KeptAt(x)'
    <3>1. BusyWith(x) => BusyWith(x)'
      BY <1>0, <2>1, BusyKept, NoneIsNone
    <3>2. Undisturbed(x)
      BY <1>0, <2>2, <3>1 DEF Undisturbed
    <3> QED BY <3>2, UndisturbedKept
  <2> QED BY <2>3, <2>4 DEF KeptAt
<1>3. ASSUME NEW t \in Threads,
             \/ process_unknown(t) \/ handler_returns(t) \/ fuse_do_finish_interrupt(t)
             \/ fuse_interrupt(t) \/ find_interrupted_unlock(t)
      PROVE  \A x \in Reqs : KeptAt(x)'
  <2>1. OnlyMoves(t) /\ th[t].at \notin {"int", "intlock", "again"}
    BY <1>0, <1>3, Moves DEF Went
  <2>2. UNCHANGED <<kreq, kintr, req, interrupts>>
    BY <1>3 DEF process_unknown, handler_returns, fuse_do_finish_interrupt, fuse_interrupt,
       find_interrupted_unlock
  <2> QED BY <2>1, <2>2, OtherWork
<1>4. ASSUME NEW t \in Threads,
             \/ fuse_prepare_interrupt(t) \/ fuse_req_interrupt_func(t) \/ fuse_free_req(t)
             \/ find_interrupted_put(t)
      PROVE  \A x \in Reqs : KeptAt(x)'
  <2>1. OnlyMoves(t) /\ th[t].at \notin {"int", "intlock", "again"} /\ th[t].r \in Reqs
    BY <1>0, <1>4, Moves DEF Went, Ended
  <2>2. UNCHANGED <<kreq, kintr, interrupts>>
    BY <1>4 DEF fuse_prepare_interrupt, fuse_req_interrupt_func, fuse_free_req,
       find_interrupted_put
  <2>3. PICK o \in Reqs : o = th[t].r
    BY <2>1
  <2>4. \/ req' = req
        \/ req' = [req EXCEPT ![o].func = TRUE] \/ req' = [req EXCEPT ![o].func = FALSE]
        \/ req' = [req EXCEPT ![o] = Put([@ EXCEPT !.func = FALSE, !.listed = FALSE])]
        \/ req' = [req EXCEPT ![o] = Put(@)]
    BY <1>4, <2>3 DEF fuse_prepare_interrupt, fuse_req_interrupt_func, fuse_free_req,
       find_interrupted_put
  <2>a. CASE req' = req
    BY <2>1, <2>2, <2>a, OtherWork
  <2>b. CASE req' = [req EXCEPT ![o].func = TRUE] \/ req' = [req EXCEPT ![o].func = FALSE]
    <3>1. Fields(req', o, req[o].st, req[o].ctr, req[o].listed, req[o].interrupted)
      <4>1. /\ Fields([req EXCEPT ![o].func = TRUE], o, req[o].st, req[o].ctr, req[o].listed,
                      req[o].interrupted)
            /\ Fields([req EXCEPT ![o].func = FALSE], o, req[o].st, req[o].ctr, req[o].listed,
                      req[o].interrupted)
        BY <1>0, ReqEffects
      <4> QED BY <2>b, <4>1
    <3>2. \A x \in Reqs : /\ req[x].interrupted => req'[x].interrupted
                          /\ ~req[x].listed => ~req'[x].listed
      BY <3>1 DEF Fields
    <3> QED BY <2>1, <2>2, <3>2, OtherWork
  <2>c. CASE req' = [req EXCEPT ![o] = Put([@ EXCEPT !.func = FALSE, !.listed = FALSE])]
    <3>1. Fields(req', o, AfterPut(req[o].ctr, req[o].st), req[o].ctr - 1, FALSE,
                 req[o].interrupted)
      BY <1>0, <2>c, ReqEffects
    <3>2. \A x \in Reqs : /\ req[x].interrupted => req'[x].interrupted
                          /\ ~req[x].listed => ~req'[x].listed
      BY <3>1 DEF Fields
    <3> QED BY <2>1, <2>2, <3>2, OtherWork
  <2>d. CASE req' = [req EXCEPT ![o] = Put(@)]
    <3>1. Fields(req', o, AfterPut(req[o].ctr, req[o].st), req[o].ctr - 1, req[o].listed,
                 req[o].interrupted)
      BY <1>0, <2>d, ReqEffects
    <3>2. \A x \in Reqs : /\ req[x].interrupted => req'[x].interrupted
                          /\ ~req[x].listed => ~req'[x].listed
      BY <3>1 DEF Fields
    <3> QED BY <2>1, <2>2, <3>2, OtherWork
  <2> QED BY <2>4, <2>a, <2>b, <2>c, <2>d
<1>5. ASSUME NEW t \in Threads, send_reply(t) PROVE \A x \in Reqs : KeptAt(x)'
  <2>1. OnlyMoves(t) /\ th[t].at = "reply" /\ th[t].r \in Reqs
    BY <1>0, <1>5, Moves DEF Went
  <2>2. /\ kreq' = [kreq EXCEPT ![th[t].r] = "answered"] /\ UNCHANGED <<req, interrupts>>
        /\ \E v : kintr' = [kintr EXCEPT ![th[t].r] = v]
    BY <1>5 DEF send_reply
  <2>3. ASSUME NEW x \in Reqs, kintr'[x] = "read", kreq'[x] = "sent"
        PROVE  kintr[x] = "read" /\ kreq[x] = "sent"
    BY <1>0, <2>1, <2>2, <2>3
  <2> QED BY <2>1, <2>2, <2>3, OtherWork
<1>6. ASSUME NEW t \in Threads, check_interrupt(t), NEW x \in Reqs PROVE KeptAt(x)'
  <2>0. UNCHANGED <<kreq, kintr>>
    BY <1>6 DEF check_interrupt
  <2>1. OnlyMoves(t) /\ th[t].at = "new" /\ th[t].r \in Reqs /\ th[t].i = NoReq
    BY <1>0, <1>6, Moves DEF Went
  <2>2. BusyWith(x) => BusyWith(x)'
    BY <2>1, BusyKept, NoneIsNone
  <2>3. PICK r \in Reqs : r = th[t].r
    BY <2>1
  <2>4. CASE \E p \in 1 .. Len(interrupts) :
               /\ interrupts[p] = r
               /\ interrupts' = RemoveAt(interrupts, p)
               /\ req' = [req EXCEPT ![r].listed = TRUE, ![r].interrupted = TRUE]
    <3>1. Fields(req', r, req[r].st, req[r].ctr, TRUE, TRUE)
      BY <1>0, <2>4, ReqEffects
    <3>2. CASE x = r
      BY <3>1, <3>2 DEF Fields, KeptAt
    <3>3. CASE x # r
      <4>1. Contains(interrupts, x) => Contains(interrupts', x)
        BY <1>0, <2>4, <3>3, ListKeeps
      <4>2. req'[x] = req[x]
        BY <3>1, <3>3 DEF Fields
      <4>3. Undisturbed(x)
        BY <2>0, <2>2, <4>1, <4>2 DEF Undisturbed
      <4> QED BY <4>3, UndisturbedKept
    <3> QED BY <3>2, <3>3
  <2>5. CASE /\ ~Contains(interrupts, r)
             /\ req' = [req EXCEPT ![r].listed = TRUE]
             /\ \/ interrupts' = interrupts
                \/ /\ interrupts # <<>> /\ interrupts' = Tail(interrupts)
                   /\ th'[t].i = Head(interrupts)
    <3>1. Fields(req', r, req[r].st, req[r].ctr, TRUE, req[r].interrupted)
      BY <1>0, <2>5, ReqEffects
    <3>2. req[x].interrupted => req'[x].interrupted
      BY <3>1 DEF Fields
    <3>3. Contains(interrupts, x) => req'[x] = req[x]
      BY <2>5, <3>1 DEF Fields
    <3>4. CASE interrupts' = interrupts
      <4>1. Undisturbed(x)
        BY <2>0, <2>2, <3>2, <3>3, <3>4 DEF Undisturbed
      <4> QED BY <4>1, UndisturbedKept
    <3>5. CASE interrupts' = Tail(interrupts) /\ th'[t].i = Head(interrupts)
      <4>1. CASE x = Head(interrupts)
        BY <3>5, <4>1 DEF KeptAt, BusyWith
      <4>2. CASE x # Head(interrupts)
        <5>1. Contains(interrupts, x) => Contains(interrupts', x)
          BY <1>0, <3>5, <4>2, ListKeeps
        <5>2. Undisturbed(x)
          BY <2>0, <2>2, <3>2, <3>3, <5>1 DEF Undisturbed
        <5> QED BY <5>2, UndisturbedKept
      <4> QED BY <4>1, <4>2
    <3> QED BY <2>5, <3>4, <3>5
  <2>6. th' = [th EXCEPT ![t].at = "again", ![t].i = Head(interrupts)] =>
          th'[t].i = Head(interrupts)
    BY <1>0 DEF IInv, Shape, ThreadShape, Work
  <2> QED BY <1>6, <2>3, <2>4, <2>5, <2>6 DEF check_interrupt
<1>7. ASSUME NEW t \in Threads, reply_again(t), NEW x \in Reqs PROVE KeptAt(x)'
  <2>1. OnlyMoves(t) /\ th[t].at = "again" /\ th[t].i \in Reqs
    BY <1>0, <1>7, Moves
  <2>2. /\ kintr' = [kintr EXCEPT ![th[t].i] = IF kreq[th[t].i] = "sent" THEN "queued" ELSE @]
        /\ UNCHANGED <<kreq, req, interrupts>>
    BY <1>7 DEF reply_again
  <2>3. CASE x = th[t].i
    <3>1. kintr'[x] = "read" => kreq'[x] # "sent"
      BY <1>0, <2>2, <2>3
    <3> QED BY <3>1 DEF KeptAt
  <2>4. CASE x # th[t].i
    <3>1. BusyWith(x) => BusyWith(x)'
      BY <2>1, <2>4, BusyKept
    <3>2. kintr'[x] = kintr[x]
      BY <1>0, <2>2, <2>4
    <3>3. Undisturbed(x)
      BY <2>2, <3>1, <3>2 DEF Undisturbed
    <3> QED BY <3>3, UndisturbedKept
  <2> QED BY <2>3, <2>4
<1>8. ASSUME NEW t \in Threads, do_interrupt(t), NEW x \in Reqs PROVE KeptAt(x)'
  <2>1. UNCHANGED <<kreq, kintr>> /\ th[t].r \in Reqs /\ OnlyMoves(t) /\ th[t].at = "int"
    BY <1>0, <1>8, Moves DEF do_interrupt, Went, Ended
  <2>2. PICK r \in Reqs : r = th[t].r
    BY <2>1
  <2>3. x # r => (BusyWith(x) => BusyWith(x)')
    BY <1>0, <2>1, <2>2, BusyKept, NoneIsNone
  <2>4. CASE req[r].listed
    <3>1. th'[t].at = "intlock" /\ th'[t].r = r
      BY <1>0, <1>8, <2>2, <2>4, Moves DEF Went
    <3>2. req' = [req EXCEPT ![r].ctr = @ + 1] /\ interrupts' = interrupts
      BY <1>8, <2>2, <2>4 DEF do_interrupt
    <3>3. x = r => BusyWith(x)'
      BY <3>1 DEF BusyWith
    <3>4. x # r => req'[x] = req[x]
      BY <1>0, <3>2
    <3>5. x # r => Undisturbed(x)
      BY <2>1, <2>3, <3>2, <3>4 DEF Undisturbed
    <3> QED BY <3>3, <3>5, UndisturbedKept DEF KeptAt
  <2>5. CASE ~req[r].listed
    <3>1. req' = req /\ interrupts' = IF Contains(interrupts, r) THEN interrupts
                                      ELSE Append(interrupts, r)
      BY <1>8, <2>2, <2>5 DEF do_interrupt
    <3>2. Contains(interrupts', r) /\ (Contains(interrupts, x) => Contains(interrupts', x))
      BY <1>0, <3>1, AppendContains, ListKeeps
    <3>3. x # r => Undisturbed(x)
      BY <2>1, <2>3, <3>1, <3>2 DEF Undisturbed
    <3>4. x = r => KeptAt(x)'
      BY <2>5, <3>1, <3>2 DEF KeptAt
    <3> QED BY <3>3, <3>4, UndisturbedKept
  <2> QED BY <2>4, <2>5
<1>9. ASSUME NEW t \in Threads, find_interrupted_mark(t), NEW x \in Reqs PROVE KeptAt(x)'
  <2>1. /\ UNCHANGED <<kreq, kintr, interrupts>> /\ th[t].r \in Reqs /\ OnlyMoves(t)
        /\ th[t].at = "intlock"
    BY <1>0, <1>9, Moves DEF find_interrupted_mark, Went
  <2>2. Fields(req', th[t].r, req[th[t].r].st, req[th[t].r].ctr, req[th[t].r].listed, TRUE)
    BY <1>0, <1>9, <2>1, ReqEffects DEF find_interrupted_mark
  <2>3. CASE x = th[t].r
    BY <2>2, <2>3 DEF KeptAt, Fields
  <2>4. CASE x # th[t].r
    <3>1. BusyWith(x) => BusyWith(x)'
      BY <1>0, <2>1, <2>4, BusyKept, NoneIsNone
    <3>2. Undisturbed(x)
      BY <2>1, <2>2, <2>4, <3>1 DEF Undisturbed, Fields
    <3> QED BY <3>2, UndisturbedKept
  <2> QED BY <2>3, <2>4
<1>10. ASSUME NEW r \in Reqs, KernelInterrupts(r), NEW x \in Reqs PROVE KeptAt(x)'
  <2>1. kintr' = [kintr EXCEPT ![r] = "queued"] /\ UNCHANGED <<req, interrupts, th, kreq>>
    BY <1>10 DEF KernelInterrupts
  <2>2. kintr'[x] = "read" => kintr[x] = "read"
    BY <1>0, <2>1
  <2>3. Undisturbed(x)
    BY <2>1, <2>2 DEF Undisturbed, BusyWith
  <2> QED BY <2>3, UndisturbedKept
<1>11. ASSUME UNCHANGED vars, NEW x \in Reqs PROVE KeptAt(x)'
  <2>1. Undisturbed(x)
    BY <1>11 DEF Undisturbed, BusyWith, vars
  <2> QED BY <2>1, UndisturbedKept
<1> QED BY <1>1, <1>2, <1>3, <1>4, <1>5, <1>6, <1>7, <1>8, <1>9, <1>10, <1>11 DEF Next, Step

\* No interrupt is lost: as long as its request is not answered, an interrupt that was
\* read is known to the request, waits on the list where the request will look for it, or
\* is in the hands of a thread.
THEOREM InterruptsAreKept == Spec => []InterruptKept
<1>1. Init => InterruptKept
  BY DEF Init, InterruptKept
<1>2. ObjInv /\ InterruptKept /\ [Next]_vars => InterruptKept'
  <2> SUFFICES ASSUME ObjInv, InterruptKept, [Next]_vars PROVE InterruptKept'
    OBVIOUS
  <2>1. \A x \in Reqs : KeptAt(x)'
    BY KeptStep
  <2> QED BY <2>1 DEF InterruptKept, KeptAt, BusyWith
<1> QED BY <1>1, <1>2, ObjAlways, PTL DEF Spec

====
