----------------------------- MODULE PosixLocks -----------------------------
(***************************************************************************)
(* What a record of POSIX locks on one file promises, byte by byte: an      *)
(* owner's bytes take the type of its last lock or unlock of them, and no   *)
(* other byte changes.                                                      *)
(***************************************************************************)
EXTENDS Integers

CONSTANTS OFFSET_MAX, Owners

VARIABLE held  \* the type each owner holds on each byte

Offsets == 0 .. OFFSET_MAX

Init == held = [o \in Owners |-> [b \in Offsets |-> "U"]]

Set(o, t, s, e) ==
  held' = [held EXCEPT ![o] = [b \in Offsets |-> IF s <= b /\ b <= e THEN t ELSE @[b]]]

Next == \E o \in Owners, t \in {"R", "W", "U"}, s, e \in Offsets : s <= e /\ Set(o, t, s, e)

Spec == Init /\ [][Next]_held
=============================================================================
