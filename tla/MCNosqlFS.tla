----------------------------- MODULE MCNosqlFS -----------------------------
(* Small instances of NosqlFS for TLC. *)
EXTENDS NosqlFS, TLC

CONSTANTS t1, t2, reg1, dir1, lnk1, spc1, p1, p2

MCThreads == {t1, t2}
MCInodes  == {reg1, dir1, lnk1, spc1}
MCPaths   == {p1, p2}

MCKind    == [i \in MCInodes |-> CASE i = reg1 -> "reg" [] i = dir1 -> "dir"
                                   [] i = lnk1 -> "lnk" [] i = spc1 -> "spc"]

\* EPERM is the errno the -1 tests can see.
MCHostErrors == {EPERM}

MCSymmetry == Permutations(MCThreads)
              \cup Permutations(MCPaths)

====
