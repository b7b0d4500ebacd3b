---------------------------- MODULE MCFuseLoopMt ----------------------------
(* A pool of up to three workers; one request that waits for another one of the *)
(* same mount, and a FORGET.                                                   *)
EXTENDS FuseLoopMt, TLC

CONSTANTS w1, w2, w3, r1, r2, f1

MCWorkers == {w1, w2, w3}
MCReqs     == {r1, r2, f1}
MCForgets  == {f1}
MCNoChild  == [r \in MCReqs |-> NoReq]
MCChild    == [r \in MCReqs |-> IF r = r1 THEN r2 ELSE NoReq]

====
