----------------------------- MODULE NodeTable -----------------------------
(***************************************************************************)
(* The node table of libfuse's fuse.c and the tree locks on its nodes, as   *)
(* operators on values: nd is the table (a record per node id), tl the      *)
(* treelock of every node.  Each operator is a function that runs under     *)
(* f->lock; FuseTree makes them parts of its actions.                       *)
(*                                                                          *)
(* The hash chains are left out: a node is found by its parent and name.    *)
(* The options remember, nopath and hard_remove are off, as nosqlFS runs.   *)
(***************************************************************************)
EXTENDS Integers, Sequences, FiniteSets

CONSTANTS Ids,     \* node ids libfuse can hand out
          Root,    \* FUSE_ROOT_ID
          NoNode,  \* NULL, for a node
          NoName,  \* NULL, for a name
          NoFile   \* no file of the host

ASSUME NodesAssumption ==
  IsFiniteSet(Ids) /\ Root \notin Ids /\ NoNode \notin Ids \cup {Root}

Nodes == Ids \cup {Root}

\* file is not in the code: the host's file the kernel means by the node, recorded when
\* the node is made.
FreeNode == [parent |-> NoNode, name |-> NoName, nlookup |-> 0, refctr |-> 0,
             open_count |-> 0, is_hidden |-> FALSE, file |-> NoFile]

Allocated(nd) == {n \in Ids : nd[n].refctr > 0}

---------------------------------------------------------------------------
(* Names, references, lookup counts *)

lookup_node(nd, parent, name) ==
  LET found == {n \in Ids : nd[n].parent = parent /\ nd[n].name = name}
  IN  IF found = {} THEN NoNode ELSE CHOOSE n \in found : TRUE

\* The node and its ancestors below the root, as far as the parent pointers lead.
Chain(nd, n) ==
  LET up[u \in Nodes \cup {NoNode}] ==
        IF u \in {Root, NoNode} THEN {} ELSE {u} \cup up[nd[u].parent]
  IN  up[n]

\* The names from the root to the node.
PathOf(nd, n) ==
  LET path[u \in Nodes \cup {NoNode}] ==
        IF u \in {Root, NoNode} THEN <<>> ELSE Append(path[nd[u].parent], nd[u].name)
  IN  path[n]

\* unref_node with delete_node: a node whose last reference goes is freed, and with its
\* name goes its reference to its parent, and so on up the tree.
unref_node(nd, n) ==
  LET freed == {u \in Chain(nd, n) :
                  \A v \in Chain(nd, n) : u \in Chain(nd, v) => nd[v].refctr = 1}
      loses(u) == u = n \/ \E v \in freed : nd[v].parent = u
  IN  [u \in Nodes |-> IF u \in freed THEN FreeNode
                       ELSE IF loses(u) THEN [nd[u] EXCEPT !.refctr = @ - 1]
                       ELSE nd[u]]

unhash_name(nd, n) ==
  IF nd[n].name = NoName THEN nd
  ELSE [unref_node(nd, nd[n].parent) EXCEPT ![n].parent = NoNode, ![n].name = NoName]

hash_name(nd, n, parent, name) ==
  [nd EXCEPT ![parent].refctr = @ + 1, ![n].parent = parent, ![n].name = name]

inc_nlookup(nd, n) ==
  [nd EXCEPT ![n].refctr = IF nd[n].nlookup = 0 THEN @ + 1 ELSE @,
             ![n].nlookup = @ + 1]

\* alloc_node and next_id: an id no node has.
FreshIds(nd) == {n \in Ids \ Allocated(nd) : n = CHOOSE i \in Ids \ Allocated(nd) : TRUE}

\* find_node, when the name has no node yet (new is its id) and when it has one.
find_node_new(nd, parent, name, new, file) ==
  inc_nlookup(hash_name([nd EXCEPT ![new].file = file], new, parent, name), new)

\* Mutant: the lookup of a name that has a node is not counted.
find_node_old_NotCounted(nd, parent, name) == nd

find_node_old(nd, parent, name) == inc_nlookup(nd, lookup_node(nd, parent, name))

\* The end of forget_node.
DropLookups(nd, n, k) ==
  LET less == [nd EXCEPT ![n].nlookup = @ - k]
  IN  IF less[n].nlookup = 0 THEN unref_node(less, n) ELSE less

remove_node(nd, dir, name) ==
  LET n == lookup_node(nd, dir, name)
  IN  IF n = NoNode THEN nd ELSE unhash_name(nd, n)

\* rename_node(..., 0): the target's node, if any, loses its name.
rename_node(nd, olddir, oldname, newdir, newname) ==
  LET n == lookup_node(nd, olddir, oldname)
  IN  IF n = NoNode THEN nd
      ELSE hash_name(unhash_name(remove_node(nd, newdir, newname), n), n, newdir, newname)

\* Mutant: the node is not marked as hidden.
rename_node_hide_NotMarked(nd, dir, oldname, newname) ==
  rename_node(nd, dir, oldname, dir, newname)

\* rename_node(..., 1): nothing is hidden if the hidden name has a node by now (-EBUSY).
NameTaken(nd, dir, oldname, newname) ==
  lookup_node(nd, dir, oldname) # NoNode /\ lookup_node(nd, dir, newname) # NoNode
rename_node_hide(nd, dir, oldname, newname) ==
  LET n == lookup_node(nd, dir, oldname)
  IN  IF n = NoNode \/ NameTaken(nd, dir, oldname, newname) THEN nd
      ELSE [rename_node(nd, dir, oldname, dir, newname) EXCEPT ![n].is_hidden = TRUE]

exchange_node(nd, olddir, oldname, newdir, newname) ==
  LET o == lookup_node(nd, olddir, oldname)
      n == lookup_node(nd, newdir, newname)
      a == IF o = NoNode THEN nd ELSE unhash_name(nd, o)
      b == IF n = NoNode THEN a ELSE unhash_name(a, n)
      c == IF o = NoNode THEN b ELSE hash_name(b, o, newdir, newname)
  IN  IF n = NoNode THEN c ELSE hash_name(c, n, olddir, oldname)

---------------------------------------------------------------------------
(* Tree locks *)

TREELOCK_WRITE == -1
TREELOCK_WAIT_OFFSET == -2147483647 - 1  \* INT_MIN

\* Mutant: a writer that has to wait does not keep new readers out.
WaitFor_NoOffset(tl, w) == tl

\* A writer that finds readers keeps new ones out.
WaitFor(tl, w) ==
  IF tl[w] > 0 THEN [tl EXCEPT ![w] = @ + TREELOCK_WAIT_OFFSET] ELSE tl

PathFor(nd, n, name) ==
  IF name = NoName THEN PathOf(nd, n) ELSE Append(PathOf(nd, n), name)

\* The locks of a path: w is write-locked unless it is NoNode, the nodes of chain are
\* read-locked.  err is "ok", "again" (-EAGAIN) or "noent".
LockPath(nd, tl, chain, w, path) ==
  LET named == {u \in chain : nd[u].name # NoName}
      tlw   == [u \in Ids |-> IF u = w THEN TREELOCK_WRITE ELSE tl[u]]
      fail(e, t) == [err |-> e, tl |-> t, w |-> NoNode, path |-> <<>>]
  IN  IF w # NoNode /\ tl[w] # 0 THEN fail("again", WaitFor(tl, w))
      ELSE IF \E u \in named : tlw[u] < 0 THEN fail("again", tl)
      ELSE IF named # chain THEN fail("noent", tl)
      ELSE [err |-> "ok", w |-> w, path |-> path,
            tl |-> [u \in Ids |-> IF u \in chain THEN tlw[u] + 1 ELSE tlw[u]]]

\* try_get_path with need_lock: the node and its ancestors are read-locked, and with wr
\* the child, if it has a node, is write-locked.
try_get_path(nd, tl, n, name, wr) ==
  LockPath(nd, tl, Chain(nd, n), IF wr THEN lookup_node(nd, n, name) ELSE NoNode,
           PathFor(nd, n, name))

\* Mutant: only the node itself is unlocked.
unlock_path_NodeOnly(nd, tl, n, w) ==
  [u \in Ids |-> IF u = w THEN 0 ELSE IF u = n THEN tl[u] - 1 ELSE tl[u]]

\* unlock_path(f, nodeid, wnode, NULL)
unlock_path(nd, tl, n, w) ==
  LET dec(v) == IF v - 1 = TREELOCK_WAIT_OFFSET THEN 0 ELSE v - 1
  IN  [u \in Ids |-> IF u = w THEN 0
                     ELSE IF u \in Chain(nd, n) THEN dec(tl[u]) ELSE tl[u]]

====
