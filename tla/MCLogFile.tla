----------------------------- MODULE MCLogFile -----------------------------
(* Two threads of the worker pool, two messages each. *)
EXTENDS LogFile, TLC

CONSTANTS t1, t2

MCThreads == {t1, t2}
MCSymmetry == Permutations(MCThreads)

====
