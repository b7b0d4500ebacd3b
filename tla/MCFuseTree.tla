----------------------------- MODULE MCFuseTree -----------------------------
(* The host holds a directory x with a file x in it; in MCHostTwo an empty directory *)
(* y next to it as well.                                                            *)
EXTENDS FuseTree

CONSTANTS t1, t2, t3, n1, n2, n3, x, y, h, R, D, A, B

MCDirs == {R, D}
MCHost == [e \in MCDirs \X {x, y, h} |->
             CASE e = <<R, x>> -> D [] e = <<D, x>> -> A [] OTHER -> NoFile]
MCTwoDirs == {R, D, B}
MCHostTwo == [e \in MCTwoDirs \X {x, y, h} |->
                CASE e = <<R, x>> -> D [] e = <<D, x>> -> A [] e = <<R, y>> -> B
                  [] OTHER -> NoFile]
MCSymmetry == Permutations(Ids) \cup Permutations(Threads)

====
