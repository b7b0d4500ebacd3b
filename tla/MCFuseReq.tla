----------------------------- MODULE MCFuseReq -----------------------------
(* A request with a handler, one that no handler is registered for, one with no  *)
(* such opcode (never listed, so that an interrupt of it stays behind) and a      *)
(* FORGET.                                                                        *)
EXTENDS FuseReq

CONSTANTS t1, t2, r1, n1, u1, f1

MCKind == [r \in Reqs |-> CASE r = n1 -> "noop" [] r = u1 -> "unknown" [] r = f1 -> "forget" [] OTHER -> "op"]

====
