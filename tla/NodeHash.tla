------------------------------ MODULE NodeHash ------------------------------
(***************************************************************************)
(* How fuse.c keeps its nodes: two hash tables that are split and merged a  *)
(* bucket at a time while in use, ids that wrap around, memory in slabs of  *)
(* one page, and with the option remember a list of the nodes the kernel    *)
(* has forgotten, pruned by age.                                            *)
(*                                                                          *)
(* f is struct fuse; a node is the address of its memory, a page and a      *)
(* place in it.  Each action is a function that runs under f->lock; path    *)
(* locks and the tree of names as such are in FuseTree.                     *)
(***************************************************************************)
EXTENDS Integers, SequencesExt

CONSTANTS NODE_TABLE_MIN_SIZE,  \* a power of two, as 8192 is
          IdLimit,              \* node ids are below this: 2^32 in the code
          PerSlab,              \* nodes on a page
          Pages,                \* bound: pages that can be mapped
          Names, Code(_),       \* names, and the number the hash makes of one
          Setups                \* the option remember (0, -1, a time), what may fail, and the
                                \* bounds: MaxNodes, how many nodes there may be at once,
                                \* MaxDrawn, the ids drawn over time (passed ones too),
                                \* MaxKnows, the lookups the kernel holds of a node, and
                                \* Parents, the directories names are looked up in

ASSUME HashAssumption ==
  /\ NODE_TABLE_MIN_SIZE \in {2 ^ k : k \in 1 .. 13}
  /\ \A s \in Setups : s.MaxNodes <= IdLimit - 2 /\ s.MaxNodes <= PerSlab * Cardinality(Pages)

VARIABLES setup,  \* one of Setups
          f,      \* struct fuse
          found,  \* what a lookup of each id and of each name in it finds
          knows,  \* the lookups the kernel holds of each id
          given,  \* the pairs of id and generation handed out so far
          over    \* whether one of the two ends NodesKept names has come

vars == <<setup, f, found, knows, given, over>>

FUSE_ROOT_ID == 1
FUSE_UNKNOWN_INO == IdLimit - 1
NULL == <<0, 0>>

Ids == 0 .. IdLimit - 1

---------------------------------------------------------------------------
(* Memory *)

NewNode == [nodeid |-> 0, generation |-> 0, parent |-> NULL, name |-> "", nlookup |-> 0,
            refctr |-> 0]

\* External: which page mmap gives.
alloc_slab(g) ==
  LET page == CHOOSE p \in Pages \ DOMAIN g.slab : \A q \in Pages \ DOMAIN g.slab : p <= q
  IN  [g EXCEPT !.slab = [p \in DOMAIN @ \cup {page} |->
                            IF p = page THEN [free |-> [i \in 1 .. PerSlab |-> i], used |-> 0]
                            ELSE @[p]],
                !.partial_slabs = Append(@, page)]

NoMemory(g) == g.partial_slabs = <<>> /\ (g.fail = "mmap" \/ Pages = DOMAIN g.slab)

\* The node allocated is g.new.
Take(g, page) ==
  LET rest == Tail(g.slab[page].free)
      addr == <<page, Head(g.slab[page].free)>>
  IN  [g EXCEPT !.slab[page] = [free |-> rest, used |-> @.used + 1],
                !.partial_slabs = IF rest = <<>> THEN Tail(@) ELSE @,
                !.full_slabs = IF rest = <<>> THEN Append(@, page) ELSE @,
                !.node = [n \in DOMAIN @ \cup {addr} |-> IF n = addr THEN NewNode ELSE @[n]],
                !.new = addr]
TakeFirst(g) == Take(g, Head(g.partial_slabs))
alloc_node(g) ==
  IF NoMemory(g) THEN [g EXCEPT !.new = NULL]
  ELSE TakeFirst(IF g.partial_slabs = <<>> THEN alloc_slab(g) ELSE g)

Without(s, x) == SelectSeq(s, LAMBDA y : y # x)

free_slab(g, page) ==
  [g EXCEPT !.partial_slabs = Without(@, page), !.full_slabs = Without(@, page),
            !.slab = [p \in DOMAIN @ \ {page} |-> @[p]]]

\* Mutant: a page that was full is not put among those with room.
GiveBack_Full(g, page, place) ==
  [g EXCEPT !.slab[page] = [free |-> <<place>> \o @.free, used |-> @.used - 1]]

GiveBack(g, page, place) ==
  [g EXCEPT !.slab[page] = [free |-> <<place>> \o @.free, used |-> @.used - 1],
            !.full_slabs = Without(@, page),
            !.partial_slabs = IF g.slab[page].free = <<>> THEN Append(@, page) ELSE @]

\* free_node_mem: the last node of a page takes the page with it.
free_node(g, n) ==
  [(IF g.slab[n[1]].used > 1 THEN GiveBack(g, n[1], n[2]) ELSE free_slab(g, n[1]))
     EXCEPT !.node = [m \in DOMAIN @ \ {n} |-> @[m]]]

---------------------------------------------------------------------------
(* A hash table with linear splitting: the buckets below split, and those   *)
(* size / 2 above them, are hashed with size, the others with size / 2.     *)

node_table_init == [array |-> [b \in 0 .. NODE_TABLE_MIN_SIZE - 1 |-> <<>>], use |-> 0,
                    size |-> NODE_TABLE_MIN_SIZE, split |-> 0]

Bucket(t, hash) == IF hash % (t.size \div 2) >= t.split THEN hash % (t.size \div 2) ELSE hash

\* 2654435761 modulo the size, a power of two of at most 256 here.
id_hash(t, g, n) == Bucket(t, (g.node[n].nodeid * 177) % t.size)
IdBucket(t, id) == Bucket(t, (id * 177) % t.size)
NameBucket(t, id, name) == Bucket(t, (id * 31 + Code(name)) % t.size)
name_hash(t, g, n) == NameBucket(t, g.node[g.node[n].parent].nodeid, g.node[n].name)

node_table_reduce(t) ==
  IF t.size \div 2 < NODE_TABLE_MIN_SIZE THEN t
  ELSE [t EXCEPT !.array = [b \in 0 .. t.size \div 2 - 1 |-> @[b]], !.size = @ \div 2,
                 !.split = t.size \div 4]

\* Up to 8 buckets are merged, or until one of them was not empty.
\* Mutant: what is in the lower of the two is lost.
Merge_Over(m) ==
  LET upper == m.t.array[m.t.split - 1 + m.t.size \div 2]
  IN  IF m.done \/ m.t.split = 0 THEN m
      ELSE [done |-> upper # <<>>,
            t |-> [m.t EXCEPT !.split = @ - 1,
                              !.array[m.t.split - 1] = IF upper # <<>> THEN upper ELSE @,
                              !.array[m.t.split - 1 + m.t.size \div 2] = <<>>]]

Merge(m) ==
  IF m.done \/ m.t.split = 0 THEN m
  ELSE [done |-> m.t.array[m.t.split - 1 + m.t.size \div 2] # <<>>,
        t |-> [m.t EXCEPT !.split = @ - 1,
                          !.array[m.t.split - 1] =
                             @ \o m.t.array[m.t.split - 1 + m.t.size \div 2],
                          !.array[m.t.split - 1 + m.t.size \div 2] = <<>>]]
remerge(t) ==
  LET m[i \in 0 .. 8] ==
        IF i = 0 THEN [done |-> FALSE, t |-> IF t.split = 0 THEN node_table_reduce(t) ELSE t]
        ELSE Merge(m[i - 1])
  IN  m[8].t
remerge_id(g) == [g EXCEPT !.id_table = remerge(@)]
remerge_name(g) == [g EXCEPT !.name_table = remerge(@)]

\* A table that cannot grow stays as it is.
node_table_resize(t, fail) ==
  IF fail = "realloc" THEN t
  ELSE [t EXCEPT !.array = [b \in 0 .. 2 * t.size - 1 |-> IF b < t.size THEN @[b] ELSE <<>>],
                 !.size = 2 * @, !.split = 0]

\* One bucket is split: each node that hashes elsewhere goes to the head of its new bucket.
Move(t, from, n, to) ==
  IF to = from THEN t
  ELSE [t EXCEPT !.array[from] = Without(@, n), !.array[to] = <<n>> \o @]
Split(t, g, from, Hash(_, _, _)) ==
  FoldLeft(LAMBDA u, n : Move(u, from, n, Hash(u, g, n)), [t EXCEPT !.split = from + 1],
           t.array[from])
Resized(t, fail) == IF t.split = t.size \div 2 THEN node_table_resize(t, fail) ELSE t
rehash(t, g, Hash(_, _, _)) ==
  IF t.split = t.size \div 2 THEN t ELSE Resized(Split(t, g, t.split, Hash), g.fail)
rehash_id(g) == [g EXCEPT !.id_table = rehash(@, g, id_hash)]
rehash_name(g) == [g EXCEPT !.name_table = rehash(@, g, name_hash)]

Put(t, b, n) == [t EXCEPT !.array[b] = <<n>> \o @, !.use = @ + 1]
Drop(t, b, n) == [t EXCEPT !.array[b] = Without(@, n)]
HalfUsed(t) == t.use >= t.size \div 2
HardlyUsed(t) == t.use < t.size \div 4

First(s) == IF s = <<>> THEN NULL ELSE Head(s)
get_node_nocheck(g, id) ==
  First(SelectSeq(g.id_table.array[IdBucket(g.id_table, id)],
                  LAMBDA n : g.node[n].nodeid = id))
lookup_node(g, id, name) ==
  First(SelectSeq(g.name_table.array[NameBucket(g.name_table, id, name)],
                  LAMBDA n : g.node[g.node[n].parent].nodeid = id /\ g.node[n].name = name))

\* abort() and a failed assert.
Abort(g) == [g EXCEPT !.aborted = TRUE]
Assert_(g, ok) == IF ok THEN g ELSE Abort(g)

---------------------------------------------------------------------------
(* Nodes in and out of the tables *)

HashedId(g) == IF HalfUsed(g.id_table) THEN rehash_id(g) ELSE g
hash_id(g, n) ==
  HashedId([g EXCEPT !.id_table = Put(@, IdBucket(@, g.node[n].nodeid), n)])

UnhashedId(g) == IF HardlyUsed(g.id_table) THEN remerge_id(g) ELSE g
unhash_id(g, n) ==
  UnhashedId([g EXCEPT !.id_table = [Drop(@, id_hash(@, g, n), n) EXCEPT !.use = @ - 1]])

HashedName(g) == IF HalfUsed(g.name_table) THEN rehash_name(g) ELSE g
\* A name that does not fit into the node may find no memory; g.new is NULL then.
hash_name(g, n, parent, name) ==
  IF g.fail = "strdup" THEN [g EXCEPT !.new = NULL]
  ELSE HashedName([g EXCEPT !.node[parent].refctr = @ + 1, !.node[n].parent = parent,
                            !.node[n].name = name,
                            !.name_table = Put(@, NameBucket(@, g.node[parent].nodeid, name), n)])

\* In unhash_name, a reference to the parent goes, and with the last one the parent, before
\* the node has lost its name.
RECURSIVE unref_node(_, _)
UnhashedName(g, n) ==
  LET h == [g EXCEPT !.node[n].name = "", !.node[n].parent = NULL, !.name_table.use = @ - 1]
  IN  IF HardlyUsed(h.name_table) THEN remerge_name(h) ELSE h
InNames(g, n) ==
  \E i \in DOMAIN g.name_table.array[name_hash(g.name_table, g, n)] :
    g.name_table.array[name_hash(g.name_table, g, n)][i] = n
unhash_name(g, n) ==
  IF g.node[n].name = "" THEN g
  ELSE IF ~InNames(g, n) THEN Abort(g)
  ELSE UnhashedName(unref_node([g EXCEPT !.name_table = Drop(@, name_hash(@, g, n), n)],
                               g.node[n].parent), n)

lru_enabled(g) == g.remember > 0
remove_node_lru(g, n) == [g EXCEPT !.lru_table = SelectSeq(@, LAMBDA e : e.node # n)]
set_forget_time(g, n) ==
  [g EXCEPT !.lru_table = Append(SelectSeq(@, LAMBDA e : e.node # n), [node |-> n, old |-> FALSE])]


delete_node(g, n) ==
  free_node(unhash_id(IF lru_enabled(g) THEN remove_node_lru(unhash_name(g, n), n)
                      ELSE unhash_name(g, n), n), n)
Unref(g, n) == IF g.node[n].refctr = 0 THEN delete_node(g, n) ELSE g
unref_node(g, n) ==
  Unref(Assert_([g EXCEPT !.node[n].refctr = @ - 1], g.node[n].refctr > 0), n)

inc_nlookup(g, n) ==
  [g EXCEPT !.node[n].refctr = IF g.node[n].nlookup = 0 THEN @ + 1 ELSE @,
            !.node[n].nlookup = @ + 1]

\* k steps on; 0 is passed at most once.
next_id(g, k) ==
  [g EXCEPT !.ctr = (@ + k) % IdLimit, !.generation = IF g.ctr + k >= IdLimit THEN @ + 1 ELSE @]
Usable(g, id) == id \notin {0, FUSE_UNKNOWN_INO} /\ get_node_nocheck(g, id) = NULL
Steps(g) == CHOOSE k \in 1 .. IdLimit :
              /\ Usable(g, (g.ctr + k) % IdLimit)
              /\ \A j \in 1 .. k - 1 : ~Usable(g, (g.ctr + j) % IdLimit)

Remembered(g, n) == IF g.remember # 0 THEN inc_nlookup(g, n) ELSE g
Identified(g, n) == [g EXCEPT !.node[n].nodeid = g.ctr, !.node[n].generation = g.generation]
Named(g, n) == IF g.new = NULL THEN free_node(g, n) ELSE inc_nlookup(hash_id(g, n), n)
Made(g, n, parent, name) ==
  IF n = NULL THEN g
  ELSE Named(hash_name(Remembered(Identified(next_id(g, Steps(g)), n), n), n,
                       get_node_nocheck(g, parent), name), n)
MakeNode(g, parent, name) == Made(g, g.new, parent, name)
FoundNode(g, n) ==
  inc_nlookup(IF lru_enabled(g) /\ g.node[n].nlookup = 1 THEN remove_node_lru(g, n) ELSE g, n)

\* The node is g.new, NULL if there is none.
find_node(g, parent, name) ==
  IF lookup_node(g, parent, name) = NULL THEN MakeNode(alloc_node(g), parent, name)
  ELSE [FoundNode(g, lookup_node(g, parent, name)) EXCEPT !.new = lookup_node(g, parent, name)]

Forgotten(g, n) ==
  IF g.node[n].nlookup = 0 THEN unref_node(g, n)
  ELSE IF lru_enabled(g) /\ g.node[n].nlookup = 1 THEN set_forget_time(g, n)
  ELSE g
ForgetNode(g, n, k) ==
  IF n = NULL THEN Abort(g)
  ELSE Forgotten(Assert_([g EXCEPT !.node[n].nlookup = @ - k], g.node[n].nlookup >= k), n)
forget_node(g, id, k) ==
  IF id = FUSE_ROOT_ID THEN g ELSE ForgetNode(g, get_node_nocheck(g, id), k)

unlink_node(g, n) ==
  unhash_name(IF g.remember # 0
              THEN Assert_([g EXCEPT !.node[n].nlookup = @ - 1], g.node[n].nlookup > 1)
              ELSE g, n)

UnlinkIf(g, n) == IF n = NULL THEN g ELSE unlink_node(g, n)
remove_node(g, dir, name) == UnlinkIf(g, lookup_node(g, dir, name))

\* hide = 0.  When the new name finds no memory the node is left without one.
Renamed(g, n, newdir, newname) ==
  hash_name(unhash_name(g, n), n, get_node_nocheck(g, newdir), newname)
rename_node(g, olddir, oldname, newdir, newname) ==
  IF lookup_node(g, olddir, oldname) = NULL THEN g
  ELSE Renamed(UnlinkIf(g, lookup_node(g, newdir, newname)), lookup_node(g, olddir, oldname),
               newdir, newname)

\* The list is in the order of forgetting: the first that is young ends the walk.
Clean(g, n) ==
  IF g.node[n].refctr > 1 THEN g
  ELSE unref_node(unhash_name([g EXCEPT !.node[n].nlookup = 0], n), n)
CleanOne(s, e) ==
  IF s.stop \/ ~e.old THEN [s EXCEPT !.stop = TRUE]
  ELSE [s EXCEPT !.g = Clean(Assert_(s.g, s.g.node[e.node].nlookup = 1), e.node)]
fuse_clean_cache(g) == FoldLeft(CleanOne, [g |-> g, stop |-> FALSE], g.lru_table).g

---------------------------------------------------------------------------
(* Behaviour *)

\* fuse_new: the root has a node that is never given up.
Empty(remember) ==
  [id_table |-> node_table_init, name_table |-> node_table_init, node |-> [n \in {} |-> NewNode],
   slab |-> [p \in {} |-> 0], partial_slabs |-> <<>>, full_slabs |-> <<>>, lru_table |-> <<>>,
   ctr |-> 0, generation |-> 0, remember |-> remember, fail |-> "none", new |-> NULL,
   aborted |-> FALSE]
RootNode(g) == [g EXCEPT !.node[g.new].nodeid = FUSE_ROOT_ID, !.node[g.new].name = "/"]
HashRoot(g) == hash_id(inc_nlookup(g, g.new), g.new)
fuse_new(remember) == HashRoot(RootNode(alloc_node(Empty(remember))))

\* All lookups there can be: the generation of a node, the id a name leads to.
Keys == Ids \X Names
NoNode == -1
Generation(g, n) == IF n = NULL THEN NoNode ELSE g.node[n].generation
IdOf(g, n) == IF n = NULL THEN NoNode ELSE g.node[n].nodeid
Find(g) == [nodes |-> [i \in Ids |-> Generation(g, get_node_nocheck(g, i))],
            names |-> [k \in Keys |-> IdOf(g, lookup_node(g, k[1], k[2]))]]

Quiet(g) == [g EXCEPT !.fail = "none", !.new = NULL]

Init == /\ setup \in Setups
        /\ f = Quiet(fuse_new(setup.remember)) /\ found = Find(f)
        /\ knows = [i \in Ids |-> IF i = FUSE_ROOT_ID THEN 1 ELSE 0]
        /\ given = {<<FUSE_ROOT_ID, 0>>}
        /\ over = FALSE

Failing == {"none", setup.may}  \* of "mmap", "strdup" and "realloc"
Known == {i \in Ids : knows[i] > 0}
Pairs(g) == {<<g.node[n].nodeid, g.node[n].generation>> : n \in DOMAIN g.node}

\* A function that aborts ends the process: nothing it left is seen by anybody.
Step(g) == /\ f' = IF g.aborted THEN Abort(f) ELSE Quiet(g)
           /\ found' = Find(f') /\ given' = given \cup Pairs(f')
           /\ UNCHANGED setup
Goes == ~over /\ over' = FALSE

Room(parent, name) ==
  IF lookup_node(f, parent, name) = NULL
  THEN Cardinality(DOMAIN f.node) < setup.MaxNodes /\ f.generation * IdLimit + f.ctr < setup.MaxDrawn
  ELSE knows[f.node[lookup_node(f, parent, name)].nodeid] < setup.MaxKnows

\* The directories the kernel works in: those it knows and has not removed.
Dirs == {i \in Known \cap setup.Parents : f.node[get_node_nocheck(f, i)].name # ""}

\* A lookup; an answer the device refuses is undone at once.
Kept(g) == /\ Step(g)
           /\ knows' = IF g.new = NULL THEN knows
                       ELSE [knows EXCEPT ![g.node[g.new].nodeid] = @ + 1]
Refused(g) == /\ Step(IF g.new = NULL THEN g ELSE forget_node(g, g.node[g.new].nodeid, 1))
              /\ UNCHANGED knows
Lookup == /\ Goes
          /\ \E parent \in Dirs, name \in Names, x \in Failing :
               /\ Room(parent, name)
               /\ \E g \in {find_node([f EXCEPT !.fail = x], parent, name)} : Kept(g) \/ Refused(g)

\* The kernel gives up an inode with all its lookups, or a lookup that lost a race alone.
Forget == /\ Goes
          /\ \E id \in Known \ {FUSE_ROOT_ID} :
               \E k \in 1 .. knows[id] :
                 /\ Step(forget_node(f, id, k))
                 /\ knows' = [knows EXCEPT ![id] = @ - k]

\* It unlinks and renames what it has looked up, and replaces no directory that has entries.
Holds(n) == knows[f.node[n].nodeid] > 0
Seen(dir, name) == lookup_node(f, dir, name) # NULL /\ Holds(lookup_node(f, dir, name))
Childless(n) == \A m \in DOMAIN f.node : f.node[m].parent # n
Unlink == /\ Goes
          /\ \E dir \in Dirs, name \in Names :
               /\ Seen(dir, name) /\ Childless(lookup_node(f, dir, name))
               /\ Step(remove_node(f, dir, name)) /\ UNCHANGED knows

\* No directory moves below itself.
Above(n) ==
  LET up[k \in 0 .. setup.MaxNodes] ==
        IF k = 0 THEN {n}
        ELSE up[k - 1] \cup {f.node[m].parent : m \in up[k - 1] \ {NULL}}
  IN  up[setup.MaxNodes]

\* A name the kernel knows to be free may have a node: the lookup that said ENOENT left the
\* one it had been forgotten by, or remembered by, where it was.
Replaceable(n) == n = NULL \/ Childless(n)
Remains(n) == n # NULL /\ ~Holds(n)
Rename == /\ ~over
          /\ \E dir, newdir \in Dirs, name, newname \in Names, x \in Failing :
               /\ <<dir, name>> # <<newdir, newname>> /\ Seen(dir, name)
               /\ Replaceable(lookup_node(f, newdir, newname))
               /\ over' = (f.remember # 0 /\ Remains(lookup_node(f, newdir, newname)))
               /\ lookup_node(f, dir, name) \notin Above(get_node_nocheck(f, newdir))
               /\ Step(rename_node([f EXCEPT !.fail = x], dir, name, newdir, newname))
               /\ UNCHANGED knows

\* Time passes: what is on the list is older than the option says.
Age == /\ Goes
       /\ \E i \in DOMAIN f.lru_table : ~f.lru_table[i].old
       /\ f' = [f EXCEPT !.lru_table = [i \in DOMAIN @ |-> [@[i] EXCEPT !.old = TRUE]]]
       /\ UNCHANGED <<setup, found, knows, given>>

\* fuse_prune_nodes, or the loop of a single thread.
Prune == /\ ~over /\ lru_enabled(f) /\ Step(fuse_clean_cache(f)) /\ UNCHANGED knows
         /\ over' = \E i \in DOMAIN f.lru_table : f.lru_table[i].old /\ Holds(f.lru_table[i].node)

Next == Lookup \/ Forget \/ Unlink \/ Rename \/ Age \/ Prune

Spec == Init /\ [][Next]_vars

---------------------------------------------------------------------------
(* Properties *)

\* What a lookup by id or by name finds, however the tables are split and merged
\* (fuse.c:586-830), is what NodeMap says: nothing is lost, found twice or found under
\* another name, and no pair of id and generation is given twice (fuse.c:848; fuse_lowlevel.h:73).
Map == INSTANCE NodeMap WITH None <- NoNode, RootId <- FUSE_ROOT_ID,
                             nodes <- found.nodes, names <- found.names
TablesMap == Map!Spec


\* A place in a page is a node or free, never both; a page is on the list that says whether
\* it has room, and mapped as long as it holds a node (fuse.c:430-508); and everything that
\* points to a node points to one that is there.
MemoryExact ==
  /\ \A p \in DOMAIN f.slab :
       LET mine == {n \in DOMAIN f.node : n[1] = p}
       IN  /\ f.slab[p].used = Cardinality(mine) /\ mine # {}
           /\ Len(f.slab[p].free) = PerSlab - f.slab[p].used
           /\ {n[2] : n \in mine} \cap ToSet(f.slab[p].free) = {}
           /\ (p \in ToSet(f.partial_slabs)) = (f.slab[p].free # <<>>)
           /\ (p \in ToSet(f.full_slabs)) = (f.slab[p].free = <<>>)
  /\ \A n \in DOMAIN f.node : n[1] \in DOMAIN f.slab /\ f.node[n].parent \in DOMAIN f.node \cup {NULL}
  /\ \A t \in {f.id_table, f.name_table} : \A b \in DOMAIN t.array : ToSet(t.array[b]) \subseteq DOMAIN f.node
=============================================================================
