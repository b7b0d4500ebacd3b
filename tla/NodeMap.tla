------------------------------ MODULE NodeMap ------------------------------
(***************************************************************************)
(* What the node tables of fuse.c promise: every node has an id, and a pair *)
(* of id and generation that no node had before it; a name in a directory   *)
(* leads to one node; both change only as nodes are made, renamed, unlinked *)
(* and given up.                                                            *)
(***************************************************************************)
EXTENDS Integers

CONSTANTS Ids,     \* node ids
          Keys,    \* pairs of a directory's id and a name
          RootId,  \* FUSE_ROOT_ID
          None     \* no node

VARIABLES nodes,   \* the generation of every id that has a node, None if it has none
          names,   \* the id each key leads to, or None
          given    \* the pairs handed out so far

mvars == <<nodes, names, given>>

Init == /\ nodes = [i \in Ids |-> IF i = RootId THEN 0 ELSE None]
        /\ names = [k \in Keys |-> None]
        /\ given = {<<RootId, 0>>}

\* A new node under a name that had none; the rest stays.
Make(k, i) ==
  /\ names[k] = None /\ names'[k] = i /\ nodes[i] = None /\ nodes'[i] # None
  /\ <<i, nodes'[i]>> \notin given /\ given' = given \cup {<<i, nodes'[i]>>}
  /\ \A j \in Ids \ {i} : nodes'[j] = nodes[j]
  /\ \A l \in Keys \ {k} : names'[l] = names[l]

\* Nodes that nothing leads to may go, and with a node its name, but no other name.
Fade(but) ==
  /\ \A k \in Keys \ but :
       names'[k] = names[k] \/ (names'[k] = None /\ nodes'[names[k]] = None)
  /\ \A k \in Keys : names'[k] # None => nodes'[names'[k]] # None /\ nodes'[k[1]] # None
  /\ \A i \in Ids : nodes'[i] = nodes[i] \/ (nodes'[i] = None /\ i # RootId)
  /\ given' = given

\* A forget of the last lookup, a pruning.
Lose == Fade({})

\* unlink, rmdir: one name goes; its node may be there as long as the kernel holds it.
Unlink(k) == names[k] # None /\ names'[k] = None /\ Fade({k})

\* rename: a node gets another name, whose node loses it; for want of memory it gets none.
Rename(k, l) ==
  /\ names[k] # None /\ k # l /\ names'[k] = None /\ names'[l] \in {names[k], None}
  /\ Fade({k, l})

Next == \/ Lose
        \/ \E k \in Keys : Unlink(k)
        \/ \E k \in Keys, i \in Ids : Make(k, i)
        \/ \E k, l \in Keys : Rename(k, l)

Spec == Init /\ [][Next]_mvars
=============================================================================
