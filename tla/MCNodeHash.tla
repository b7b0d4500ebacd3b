----------------------------- MODULE MCNodeHash -----------------------------
(***************************************************************************)
(* Small instances of NodeHash: tables that begin with 2 buckets, ids that  *)
(* wrap after 7, pages of 2 nodes.                                          *)
(***************************************************************************)
EXTENDS NodeHash

Setup(remember, may) ==
  [remember |-> remember, may |-> may, MaxNodes |-> 3, MaxDrawn |-> 9, MaxKnows |-> 2,
   Parents |-> Ids]
\* One directory, and nodes and ids enough for two full buckets to be merged.
Flat(remember, may) ==
  [remember |-> remember, may |-> may, MaxNodes |-> 4, MaxDrawn |-> 10, MaxKnows |-> 1,
   Parents |-> {FUSE_ROOT_ID}]
MCSetups == {Setup(0, "realloc"), Setup(-1, "mmap"), Setup(1, "strdup"), Flat(0, "none")}
MCCode(name) == IF name = "a" THEN 97 ELSE 98
=============================================================================
