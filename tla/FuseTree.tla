----------------------------- MODULE FuseTree -----------------------------
(***************************************************************************)
(* The path-based layer of libfuse (fuse.c) under concurrent requests: it   *)
(* turns the kernel's node ids into paths, locks the nodes a path passes    *)
(* through while the file system's handler works on it, queues requests     *)
(* that cannot lock, hides open files instead of removing them, and frees   *)
(* nodes the kernel forgets.                                                *)
(*                                                                          *)
(* One action is one section under f->lock, or one call of a handler.  The  *)
(* table's operations are in NodeTable.  External: the host's files, which  *)
(* only the handlers change here, and the kernel.  The kernel sends         *)
(* requests for nodes it has looked up and not forgotten, locks directories *)
(* (i_mutex) and the file a name operation removes or links until it has    *)
(* the answer, and never moves a directory below itself.                    *)
(***************************************************************************)
EXTENDS NodeTable, SequencesExt

CONSTANTS Threads,      \* worker threads
          Names,        \* names requests use
          HiddenNames,  \* names hidden_name can make up
          Files,        \* the host's files
          Dirs,         \* the directories among them
          RootFile,     \* the host's root directory
          InitHost,     \* the host's tree at the start
          Ops,          \* the kinds of request the kernel sends
          RenameFlags,  \* the flags of rename requests
          HonoursFlags, \* whether the file system's rename looks at them
          MaxLookup,    \* bound: lookups of one node the kernel has not forgotten
          MaxOpen       \* bound: open files of one node

ASSUME FilesAssumption == RootFile \in Dirs /\ Dirs \subseteq Files /\ NoFile \notin Files
\* The kernel's users do not name hidden files.  The code does not refuse such a name: a
\* hidden file that is renamed stays marked (fuse.c:1388-1422), and its last release
\* removes it under the new name (3027-3043).  That is outside this model.
ASSUME NamesAssumption == NoName \notin Names \cup HiddenNames
                          /\ Names \cap HiddenNames = {}
ASSUME TreeBounds == MaxLookup \in Nat /\ MaxOpen \in Nat
ASSUME RequestsAssumption == RenameFlags \subseteq {"none", "exchange"}
                             /\ HonoursFlags \in BOOLEAN
\* treelock is an int: each thread can add two readers to it.
ASSUME ThreadsAssumption == IsFiniteSet(Threads) /\ Cardinality(Threads) < 1073741824
\* A directory has one place in the host's tree, the root none.
ASSUME HostAssumption ==
  /\ InitHost \in [Dirs \X (Names \cup HiddenNames) -> Files \cup {NoFile}]
  /\ \A e, g \in DOMAIN InitHost : InitHost[e] \in Dirs /\ InitHost[e] = InitHost[g] => e = g
  /\ \A e \in DOMAIN InitHost : InitHost[e] # RootFile

VARIABLES nd,        \* the node table
          treelock,  \* the lock on each node
          lockq,     \* f->lockq: the threads whose request waits, in order
          call,      \* the request each thread works on
          host,      \* host: the file of each directory entry
          knows,     \* kernel: lookups of each node it has not forgotten
          kopen,     \* kernel: open files of each node
          left       \* hidden names whose removal the host refused

table  == <<nd, treelock, lockq>>
kernel == <<knows, kopen>>
vars   == <<nd, treelock, lockq, call, host, knows, kopen, left>>

\* n, m, n2, m2: the nodes and names of the request; fl: its flag or the kind of file;
\* w, w2, l, l2, p, p2: write-locked nodes, whether each path is locked, and the paths;
\* done, err: the queue element's; ino, f: the node and file a lookup found; hid: the
\* hidden name; k: the count of a forget; mx, kref: nodes the kernel keeps locked and
\* alive until the reply.
NoCall == [op |-> "none", at |-> "idle", n |-> NoNode, m |-> NoName, n2 |-> NoNode,
           m2 |-> NoName, fl |-> "none", w |-> NoNode, w2 |-> NoNode, l |-> FALSE,
           l2 |-> FALSE, p |-> <<>>, p2 |-> <<>>, done |-> FALSE, err |-> FALSE,
           ino |-> NoNode, f |-> NoFile, hid |-> NoName, k |-> 0, mx |-> {}, kref |-> {}]

AllNames == Names \cup HiddenNames

Init ==
  /\ nd = [n \in Nodes |-> IF n = Root
                           THEN [FreeNode EXCEPT !.nlookup = 1, !.refctr = 1,
                                                 !.file = RootFile]
                           ELSE FreeNode]
  /\ treelock = [n \in Ids |-> 0]
  /\ lockq = <<>>
  /\ call = [t \in Threads |-> NoCall]
  /\ host = InitHost
  /\ knows = [n \in Ids |-> 0] /\ kopen = [n \in Ids |-> 0]
  /\ left = {}

---------------------------------------------------------------------------
(* The host's files, by path *)

Resolve(p) ==
  LET at[i \in 0 .. Len(p)] ==
        IF i = 0 THEN RootFile
        ELSE IF at[i - 1] \in Dirs THEN host[at[i - 1], p[i]] ELSE NoFile
  IN  at[Len(p)]

Entry(p) == <<Resolve(Front(p)), Last(p)>>
EntryThere(p) == Resolve(Front(p)) \in Dirs
Empty(d) == \A m \in AllNames : host[d, m] = NoFile

Unused == {f \in Files \ {RootFile} : /\ \A e \in DOMAIN host : host[e] # f
                                      /\ \A n \in Ids : nd[n].file # f
                                      /\ \A t \in Threads : call[t].f # f}

---------------------------------------------------------------------------
(* Locking paths *)

Two(r) == r.op \in {"rename", "link"}

\* Mutant: a rename does not write-lock what it moves.
Wr_NotRename(r) == r.op \in {"unlink", "rmdir"}

Wr(r)  == r.op \in {"unlink", "rmdir", "rename"}

\* The first step of each request once its paths are locked.
FirstStep(op) == IF op = "lookup" THEN "stat" ELSE IF op = "release" THEN "rel" ELSE "fs"

\* The request's locks are given up.
Unlocked(r) == [r EXCEPT !.l = FALSE, !.l2 = FALSE, !.w = NoNode, !.w2 = NoNode,
                         !.p = <<>>, !.p2 = <<>>]

Unlock(tl, r) ==
  LET one == IF r.l THEN unlock_path(nd, tl, r.n, r.w) ELSE tl
  IN  IF r.l2 THEN unlock_path(nd, one, r.n2, r.w2) ELSE one

\* Tries at the paths of a request, on s: the locks, the request and the result so far.
\* A path that is locked stays locked.
Took(s, a)  == [tl |-> a.tl, err |-> a.err,
                r |-> IF a.err # "ok" THEN s.r
                      ELSE [s.r EXCEPT !.l = TRUE, !.w = a.w, !.p = a.path]]
Took2(s, a) == [tl |-> a.tl, err |-> IF a.err = "ok" THEN s.err ELSE a.err,
                r |-> IF a.err # "ok" THEN s.r
                      ELSE [s.r EXCEPT !.l2 = TRUE, !.w2 = a.w, !.p2 = a.path]]
TryFirst(s) ==
  IF s.r.l THEN s ELSE Took(s, try_get_path(nd, s.tl, s.r.n, s.r.m, Wr(s.r)))
TrySecond(s) ==
  IF s.r.l2 THEN s ELSE Took2(s, try_get_path(nd, s.tl, s.r.n2, s.r.m2, Wr(s.r)))

Untried(tl, r) == [tl |-> tl, r |-> r, err |-> "ok"]

\* A request that got no path: it is answered, except a release, which goes on without.
NoPathFor(r) == IF r.op = "release" THEN [Unlocked(r) EXCEPT !.at = "rel", !.done = FALSE,
                                                             !.err = FALSE]
                ELSE NoCall

\* get_path_common and get_path2: the first try, and the queue.  The second path is
\* tried only with the first one locked, and all is unlocked unless both are.
GetPath1(r) == TryFirst(Untried(treelock, r))
GetPath2(s) == IF Two(s.r) /\ s.err = "ok" THEN TrySecond(s) ELSE s

Got(t, r, s) ==
  /\ treelock' = IF s.err = "ok" THEN s.tl ELSE Unlock(s.tl, s.r)
  /\ call' = [call EXCEPT ![t] = IF s.err = "ok" THEN [s.r EXCEPT !.at = FirstStep(r.op)]
                                 ELSE IF s.err = "again" THEN [r EXCEPT !.at = "wait"]
                                 ELSE NoPathFor(r)]
  /\ lockq' = IF s.err = "again" THEN Append(lockq, t) ELSE lockq
  /\ UNCHANGED <<nd, host, left>>

GetPath(t, r) == Got(t, r, GetPath2(GetPath1(r)))

\* queue_element_wakeup, on s: the locks and the requests so far.  Here the second path
\* is tried even if the first is not to be had; only the first element of the queue may
\* keep one path while it waits for the other.
RetryPaths(s) == IF Two(s.r) /\ s.err # "noent" THEN TrySecond(s) ELSE s

queue_element_unlock(s) == [s EXCEPT !.tl = Unlock(s.tl, s.r), !.r = Unlocked(s.r)]

Woken(first, s) ==
  IF s.err = "noent"
  THEN [queue_element_unlock(s) EXCEPT !.r.done = TRUE, !.r.err = TRUE]
  ELSE IF s.r.l /\ (s.r.l2 \/ ~Two(s.r))
  THEN [s EXCEPT !.r.done = TRUE, !.r.err = FALSE]
  ELSE IF first THEN s ELSE queue_element_unlock(s)

Update(s, t, new) == [tl |-> new.tl, call |-> [s.call EXCEPT ![t] = new.r]]

\* Mutant: a forget that waits is not looked at.
queue_element_wakeup_PathsOnly(s, t, first) ==
  IF s.call[t].at = "fwait" THEN s
  ELSE Update(s, t, Woken(first, RetryPaths(TryFirst(Untried(s.tl, s.call[t])))))

queue_element_wakeup(s, t, first) ==
  IF s.call[t].at = "fwait"
  THEN [s EXCEPT !.call[t].done = @ \/ s.tl[s.call[t].n] = 0]
  ELSE Update(s, t, Woken(first, RetryPaths(TryFirst(Untried(s.tl, s.call[t])))))

wake_up_queued(s) ==
  LET w[i \in 0 .. Len(lockq)] ==
        IF i = 0 THEN s ELSE queue_element_wakeup(w[i - 1], lockq[i], i = 1)
  IN  w[Len(lockq)]

\* free_path, free_path_wrlock and free_path2 of thread t, which goes on with new.
FreePath(t, new) ==
  LET after == [call EXCEPT ![t] = new]
      s == IF call[t].l THEN wake_up_queued([tl |-> Unlock(treelock, call[t]), call |-> after])
           ELSE [tl |-> treelock, call |-> after]
  IN  treelock' = s.tl /\ call' = s.call

dequeue_path(t) == RemoveAt(lockq, CHOOSE i \in DOMAIN lockq : lockq[i] = t)

\* The end of wait_path.
wait_path_done(t) ==
  LET r == call[t] IN
  /\ r.at = "wait" /\ r.done
  /\ lockq' = dequeue_path(t)
  /\ call' = [call EXCEPT ![t] =
                IF r.err THEN NoPathFor(r)
                ELSE [r EXCEPT !.at = FirstStep(r.op), !.done = FALSE]]
  /\ UNCHANGED <<nd, treelock, host, kernel, left>>

---------------------------------------------------------------------------
(* What the kernel may send *)

Idle(t) == call[t].at = "idle"

Known(n) == n \in {Root} \cup {i \in Ids : knows[i] > 0}
LiveDir(n) == Known(n) /\ nd[n].file \in Dirs /\ (n = Root \/ nd[n].name # NoName)
Positive(n, m) == LET c == lookup_node(nd, n, m) IN c # NoNode /\ Known(c)
Negative(n, m) == host[nd[n].file, m] = NoFile

\* Thread t takes the request r, whose directories and victims nobody has locked.
Request(t, r) ==
  /\ r.op \in Ops
  /\ \A u \in Threads : call[u].mx \cap r.mx = {}
  /\ GetPath(t, r)

Req(op, n, m, mx, kref) ==
  [NoCall EXCEPT !.op = op, !.n = n, !.m = m, !.mx = mx, !.kref = kref]

\* "." and "..", which the kernel asks for when the file system is exported over NFS, are left
\* out: for them the handler holds a reference of the directory until it has answered and
\* goes on with its parent (fuse.c:2570-2593, 2610-2614).
fuse_lib_lookup(t, n, m) ==
  /\ LiveDir(n)
  /\ LET c == lookup_node(nd, n, m) IN c # NoNode => knows[c] < MaxLookup
  /\ Request(t, Req("lookup", n, m, {n}, {n}))
  /\ UNCHANGED kernel

\* getattr stands for every request that locks one path and changes nothing here: also
\* setattr, access, readlink, read, write, fsync, statfs.
fuse_lib_getattr(t, n) ==
  /\ Known(n)
  /\ Request(t, Req("getattr", n, NoName, {}, {n}))
  /\ UNCHANGED kernel

CreateReq(t, n, m, kind) ==
  /\ LiveDir(n) /\ Negative(n, m)
  /\ Request(t, [Req("mknod", n, m, {n}, {n}) EXCEPT !.fl = kind])
  /\ UNCHANGED kernel

fuse_lib_mknod(t, n, m) == CreateReq(t, n, m, "reg")
fuse_lib_mkdir(t, n, m) == CreateReq(t, n, m, "dir")

RemoveReq(t, op, n, m, kind) ==
  LET c == lookup_node(nd, n, m) IN
  /\ LiveDir(n) /\ Positive(n, m) /\ (nd[c].file \in Dirs) = (kind = "dir")
  /\ Request(t, Req(op, n, m, {n, c}, {n, c}))
  /\ UNCHANGED kernel

fuse_lib_unlink(t, n, m) == RemoveReq(t, "unlink", n, m, "reg")
fuse_lib_rmdir(t, n, m)  == RemoveReq(t, "rmdir", n, m, "dir")

fuse_lib_rename(t, n, m, n2, m2, fl) ==
  LET s == lookup_node(nd, n, m)
      v == lookup_node(nd, n2, m2)
      victims == IF Positive(n2, m2) THEN {v} ELSE {}
      mx == {n, n2} \cup victims \cup IF nd[s].file \in Dirs THEN {} ELSE {s}
  IN
  /\ LiveDir(n) /\ LiveDir(n2) /\ Positive(n, m) /\ <<n, m>> # <<n2, m2>>
  /\ Positive(n2, m2) \/ (Negative(n2, m2) /\ fl = "none")
  /\ s \notin Chain(nd, n2)
  /\ \A x \in victims : /\ x \notin Chain(nd, n)
                        /\ fl = "none" => (nd[x].file \in Dirs) = (nd[s].file \in Dirs)
  /\ n # n2 => \A u \in Threads : call[u].op = "rename" => call[u].n = call[u].n2
  /\ Request(t, [Req("rename", n, m, mx, mx \cup {s}) EXCEPT !.n2 = n2, !.m2 = m2, !.fl = fl])
  /\ UNCHANGED kernel

fuse_lib_link(t, s, n2, m2) ==
  /\ Known(s) /\ nd[s].file \notin Dirs /\ nd[s].name \in Names
  /\ LiveDir(n2) /\ Negative(n2, m2)
  /\ Request(t, [Req("link", s, NoName, {n2, s}, {n2, s}) EXCEPT !.n2 = n2, !.m2 = m2])
  /\ UNCHANGED kernel

fuse_lib_open(t, n) ==
  /\ Known(n) /\ nd[n].file \notin Dirs /\ kopen[n] < MaxOpen
  /\ \A u \in Threads : call[u].op = "open" => call[u].n # n
  /\ Request(t, Req("open", n, NoName, {}, {n}))
  /\ UNCHANGED kernel

\* The last close of an open file; the kernel does not wait for the answer.
fuse_lib_release(t, n) ==
  /\ kopen[n] > 0
  /\ Request(t, Req("release", n, NoName, {}, {n}))
  /\ kopen' = [kopen EXCEPT ![n] = @ - 1]
  /\ UNCHANGED knows

\* The kernel drops a node nothing in it refers to any more, with all its lookups.
fuse_lib_forget(t, n) ==
  /\ "forget" \in Ops
  /\ knows[n] > 0 /\ kopen[n] = 0
  /\ \A u \in Threads : n \notin call[u].kref
  /\ \A c \in Ids : nd[c].parent = n => knows[c] = 0
  /\ knows' = [knows EXCEPT ![n] = 0]
  /\ call' = [call EXCEPT ![t] = [NoCall EXCEPT !.op = "forget", !.at = "forget", !.n = n,
                                                !.k = knows[n]]]
  /\ UNCHANGED <<table, host, kopen, left>>

---------------------------------------------------------------------------
(* Handlers and table updates *)

At(t, ops, at) == call[t].op \in ops /\ call[t].at = at
Goto(t, at) == call' = [call EXCEPT ![t].at = at]

Finding == {"lookup", "mknod", "link"}

\* A handler that fails changes nothing.  -EIO and the like may come from any of them.
\* A failed open is answered before its path is freed.
fs_fails(t) ==
  /\ \/ At(t, {"mknod", "link", "rmdir", "open"}, "fs")
     \/ At(t, Finding, "stat")
     \/ At(t, {"unlink", "rename"}, "hidefs") \/ At(t, {"unlink", "rename"}, "rm")
  /\ call' = [call EXCEPT ![t].at = "free",
                          ![t].kref = IF call[t].op = "open" THEN {} ELSE @]
  /\ UNCHANGED <<table, host, kernel, left>>

FoundPath(r) == IF r.op = "link" THEN r.p2 ELSE r.p
FoundDir(r)  == IF r.op = "link" THEN r.n2 ELSE r.n
FoundName(r) == IF r.op = "link" THEN r.m2 ELSE r.m

\* lookup_path: getattr of the path.
lookup_path(t) ==
  LET f == Resolve(FoundPath(call[t])) IN
  /\ At(t, Finding, "stat") /\ f # NoFile
  /\ call' = [call EXCEPT ![t].at = "find", ![t].f = f]
  /\ UNCHANGED <<table, host, kernel, left>>

\* do_lookup: find_node, which fails when no node can be allocated.
find_node(t) ==
  LET r == call[t]
      old == lookup_node(nd, FoundDir(r), FoundName(r))
      found(n) == call' = [call EXCEPT ![t].at = "free", ![t].ino = n, ![t].f = NoFile]
  IN
  /\ At(t, Finding, "find")
  /\ \/ old # NoNode /\ nd' = find_node_old(nd, FoundDir(r), FoundName(r)) /\ found(old)
     \/ /\ old = NoNode
        /\ \E n \in FreshIds(nd) :
             nd' = find_node_new(nd, FoundDir(r), FoundName(r), n, r.f) /\ found(n)
     \/ old = NoNode /\ FreshIds(nd) = {} /\ found(NoNode) /\ UNCHANGED nd
  /\ UNCHANGED <<treelock, lockq, host, kernel, left>>

Put(p, f) == host' = [host EXCEPT ![Entry(p)] = f]

fs_create(t) ==
  LET r == call[t] IN
  /\ At(t, {"mknod"}, "fs") /\ EntryThere(r.p) /\ Resolve(r.p) = NoFile
  /\ \E f \in Unused : (f \in Dirs) = (r.fl = "dir") /\ Put(r.p, f)
  /\ Goto(t, "stat")
  /\ UNCHANGED <<table, kernel, left>>

fs_link(t) ==
  LET r == call[t] IN
  /\ At(t, {"link"}, "fs") /\ EntryThere(r.p2) /\ Resolve(r.p2) = NoFile
  /\ Resolve(r.p) \notin Dirs \cup {NoFile} /\ Put(r.p2, Resolve(r.p))
  /\ Goto(t, "stat")
  /\ UNCHANGED <<table, kernel, left>>

fs_rmdir(t) ==
  LET r == call[t] IN
  /\ At(t, {"rmdir"}, "fs") /\ Resolve(r.p) \in Dirs /\ Empty(Resolve(r.p))
  /\ Put(r.p, NoFile)
  /\ Goto(t, "table")
  /\ UNCHANGED <<table, kernel, left>>

\* The entry an unlink or a rename would remove.
Victim(r) == IF r.op = "rename" THEN [dir |-> r.n2, name |-> r.m2, path |-> r.p2]
             ELSE [dir |-> r.n, name |-> r.m, path |-> r.p]

is_open(dir, name) ==
  LET n == lookup_node(nd, dir, name) IN n # NoNode /\ nd[n].open_count > 0

HidPath(dir, h) == Append(PathOf(nd, dir), h)

\* A name that neither the table nor the host has in the directory.
hidden_name(dir) ==
  {h \in HiddenNames : lookup_node(nd, dir, h) = NoNode /\ Resolve(HidPath(dir, h)) = NoFile}

\* fuse_lib_unlink and fuse_lib_rename with their paths locked: an open victim is
\* hidden first.
unlink_or_hide(t) ==
  LET r == call[t]
      v == Victim(r)
  IN
  /\ At(t, {"unlink", "rename"}, "fs")
  /\ IF is_open(v.dir, v.name) /\ r.fl # "exchange"
     THEN \/ /\ hidden_name(v.dir) # {}
             /\ call' = [call EXCEPT ![t].at = "hidefs",
                                     ![t].hid = CHOOSE h \in hidden_name(v.dir) : TRUE]
          \/ hidden_name(v.dir) = {} /\ Goto(t, "free")
     ELSE Goto(t, "rm")
  /\ UNCHANGED <<table, host, kernel, left>>

CanRename(a, b) ==
  LET fa == Resolve(a)
      fb == Resolve(b)
  IN  /\ fa # NoFile /\ EntryThere(b)
      /\ fb # NoFile => (fa \in Dirs) = (fb \in Dirs)
      /\ fb \in Dirs => Empty(fb)

fs_rename(a, b) ==
  host' = IF Resolve(a) = Resolve(b) THEN host
          ELSE [host EXCEPT ![Entry(a)] = NoFile, ![Entry(b)] = Resolve(a)]

\* hide_node: the rename to the hidden name, and rename_node(..., 1).
hide_node_fs(t) ==
  LET r == call[t]
      v == Victim(r)
  IN
  /\ At(t, {"unlink", "rename"}, "hidefs") /\ CanRename(v.path, HidPath(v.dir, r.hid))
  /\ fs_rename(v.path, HidPath(v.dir, r.hid))
  /\ Goto(t, "hidenode")
  /\ UNCHANGED <<table, kernel, left>>

hide_node_table(t) ==
  LET r == call[t]
      v == Victim(r)
  IN
  /\ At(t, {"unlink", "rename"}, "hidenode")
  /\ nd' = rename_node_hide(nd, v.dir, v.name, r.hid)
  /\ call' = [call EXCEPT ![t].at = IF \/ r.op = "unlink"
                                       \/ NameTaken(nd, v.dir, v.name, r.hid)
                                    THEN "free" ELSE "rm",
                          ![t].hid = NoName]
  /\ UNCHANGED <<treelock, lockq, host, kernel, left>>

fs_unlink(t) ==
  LET r == call[t] IN
  /\ At(t, {"unlink"}, "rm") /\ Resolve(r.p) \notin Dirs \cup {NoFile}
  /\ Put(r.p, NoFile)
  /\ Goto(t, "table")
  /\ UNCHANGED <<table, kernel, left>>

\* fuse_fs_rename.  nosqlFS's handler leaves the flags out: an exchange replaces there.
fs_rename_request(t) ==
  LET r == call[t] IN
  /\ At(t, {"rename"}, "rm")
  /\ \/ /\ r.fl = "none" \/ ~HonoursFlags
        /\ CanRename(r.p, r.p2) /\ fs_rename(r.p, r.p2)
     \/ /\ r.fl = "exchange" /\ HonoursFlags
        /\ Resolve(r.p) # NoFile /\ Resolve(r.p2) # NoFile
        /\ host' = [host EXCEPT ![Entry(r.p)] = Resolve(r.p2), ![Entry(r.p2)] = Resolve(r.p)]
  /\ Goto(t, "table")
  /\ UNCHANGED <<table, kernel, left>>

remove_node_request(t) ==
  /\ At(t, {"unlink", "rmdir"}, "table")
  /\ nd' = remove_node(nd, call[t].n, call[t].m)
  /\ Goto(t, "free")
  /\ UNCHANGED <<treelock, lockq, host, kernel, left>>

rename_node_request(t) ==
  LET r == call[t] IN
  /\ At(t, {"rename"}, "table")
  /\ nd' = IF r.fl = "exchange" THEN exchange_node(nd, r.n, r.m, r.n2, r.m2)
           ELSE rename_node(nd, r.n, r.m, r.n2, r.m2)
  /\ Goto(t, "free")
  /\ UNCHANGED <<treelock, lockq, host, kernel, left>>

---------------------------------------------------------------------------
(* Open files *)

fs_open(t) ==
  /\ At(t, {"open"}, "fs") /\ Resolve(call[t].p) \notin Dirs \cup {NoFile}
  /\ Goto(t, "count")
  /\ UNCHANGED <<table, host, kernel, left>>

open_counted(t) ==
  /\ At(t, {"open"}, "count")
  /\ nd' = [nd EXCEPT ![call[t].n].open_count = @ + 1]
  /\ Goto(t, "reply")
  /\ UNCHANGED <<treelock, lockq, host, kernel, left>>

\* fuse_reply_open, while the path is still locked: the kernel has the open file and
\* may release it and forget the node at once, or the call was interrupted (-ENOENT).
fuse_reply_open(t) ==
  /\ At(t, {"open"}, "reply")
  /\ \/ /\ kopen' = [kopen EXCEPT ![call[t].n] = @ + 1]
        /\ call' = [call EXCEPT ![t].at = "free", ![t].kref = {}]
     \/ /\ call' = [call EXCEPT ![t].at = "rel", ![t].kref = {}]
        /\ UNCHANGED kopen
  /\ UNCHANGED <<table, host, knows, left>>

\* fuse_do_release: the section under the lock.
fuse_do_release(t) ==
  LET n == call[t].n
      last == nd[n].open_count = 1 /\ nd[n].is_hidden
  IN
  /\ At(t, {"open", "release"}, "rel")
  /\ nd' = [nd EXCEPT ![n].open_count = @ - 1, ![n].is_hidden = @ /\ ~last]
  /\ Goto(t, IF last /\ call[t].l THEN "hidunlink" ELSE "free")
  /\ UNCHANGED <<treelock, lockq, host, kernel, left>>

\* Its fuse_fs_unlink, whose result is ignored.
unlink_hidden(t) ==
  LET p == call[t].p IN
  /\ At(t, {"open", "release"}, "hidunlink")
  /\ \/ Resolve(p) \notin Dirs \cup {NoFile} /\ Put(p, NoFile) /\ UNCHANGED left
     \/ left' = left \cup {Last(p)} /\ UNCHANGED host
  /\ Goto(t, "free")
  /\ UNCHANGED <<table, kernel>>

---------------------------------------------------------------------------
(* Ends *)

\* The path is freed and the request answered.
free_and_reply(t) ==
  /\ \/ At(t, {"getattr"}, "fs")
     \/ At(t, {"unlink", "rmdir", "rename", "open", "release"}, "free")
     \/ At(t, Finding, "free") /\ call[t].ino = NoNode
  /\ FreePath(t, NoCall)
  /\ UNCHANGED <<nd, lockq, host, kernel, left>>

\* reply_entry: the kernel has one more lookup of the node, or does not want it
\* (-ENOENT), and the lookup is forgotten here.
reply_entry(t) ==
  LET n == call[t].ino IN
  /\ At(t, Finding, "free") /\ n # NoNode
  /\ \/ FreePath(t, NoCall) /\ knows' = [knows EXCEPT ![n] = @ + 1]
     \/ /\ FreePath(t, [NoCall EXCEPT !.op = "forget", !.at = "forget", !.n = n, !.k = 1])
        /\ UNCHANGED knows
  /\ UNCHANGED <<nd, lockq, host, kopen, left>>

MustWait(r) == nd[r.n].nlookup = r.k /\ treelock[r.n] # 0

\* forget_node: the drop, or a place in the queue while the node is locked.
forget_node(t) ==
  LET r == call[t] IN
  /\ At(t, {"forget"}, "forget")
  /\ \/ /\ MustWait(r)
        /\ lockq' = Append(lockq, t)
        /\ Goto(t, "fwait")
        /\ UNCHANGED nd
     \/ /\ ~MustWait(r)
        /\ nd' = DropLookups(nd, r.n, r.k)
        /\ call' = [call EXCEPT ![t] = NoCall]
        /\ UNCHANGED lockq
  /\ UNCHANGED <<treelock, host, kernel, left>>

forget_node_woken(t) ==
  LET r == call[t] IN
  /\ At(t, {"forget"}, "fwait") /\ r.done
  /\ IF MustWait(r)
     THEN call' = [call EXCEPT ![t].done = FALSE] /\ UNCHANGED <<nd, lockq>>
     ELSE /\ nd' = DropLookups(nd, r.n, r.k)
          /\ lockq' = dequeue_path(t)
          /\ call' = [call EXCEPT ![t] = NoCall]
  /\ UNCHANGED <<treelock, host, kernel, left>>

---------------------------------------------------------------------------

KernelSends(t) ==
  \/ \E n \in Nodes, m \in Names :
       \/ fuse_lib_lookup(t, n, m) \/ fuse_lib_mknod(t, n, m) \/ fuse_lib_mkdir(t, n, m)
       \/ fuse_lib_unlink(t, n, m) \/ fuse_lib_rmdir(t, n, m)
       \/ \E n2 \in Nodes, m2 \in Names, fl \in RenameFlags :
            fuse_lib_rename(t, n, m, n2, m2, fl)
       \/ \E s \in Ids : fuse_lib_link(t, s, n, m)
  \/ \E n \in Ids : \/ fuse_lib_getattr(t, n) \/ fuse_lib_open(t, n)
                    \/ fuse_lib_release(t, n) \/ fuse_lib_forget(t, n)

Step(t) ==
  \/ wait_path_done(t) \/ fs_fails(t) \/ lookup_path(t) \/ find_node(t)
  \/ fs_create(t) \/ fs_link(t) \/ fs_rmdir(t) \/ unlink_or_hide(t)
  \/ hide_node_fs(t) \/ hide_node_table(t) \/ fs_unlink(t) \/ fs_rename_request(t)
  \/ remove_node_request(t) \/ rename_node_request(t)
  \/ fs_open(t) \/ open_counted(t) \/ fuse_reply_open(t) \/ fuse_do_release(t)
  \/ unlink_hidden(t) \/ free_and_reply(t) \/ reply_entry(t)
  \/ forget_node(t) \/ forget_node_woken(t)

Next == \E t \in Threads : (Idle(t) /\ KernelSends(t)) \/ Step(t)

\* Weak fairness of Step(t), handlers return and threads run, with the condition under
\* which it is enabled spelled out: a thread that works on a request and does not sleep
\* in the queue moves on.  The kernel need not send anything.
CanStep(t) == ~Idle(t) /\ (call[t].at \in {"wait", "fwait"} => call[t].done)
Moves(t) == call'[t].at # call[t].at \/ (call[t].done /\ ~call'[t].done)
Fairness == \A t \in Threads : []<>(~CanStep(t)) \/ []<><<Moves(t)>>_vars

Spec == Init /\ [][Next]_vars /\ Fairness

---------------------------------------------------------------------------
(* Properties *)

OpNames == {"none", "lookup", "getattr", "mknod", "unlink", "rmdir", "rename", "link", "open",
            "release", "forget"}
StepNames == {"idle", "wait", "fs", "stat", "find", "hidefs", "hidenode", "rm", "table",
              "count", "reply", "rel", "hidunlink", "free", "forget", "fwait"}
Flags == {"none", "exchange", "reg", "dir"}

CallType ==
  [op : OpNames, at : StepNames, n : Nodes \cup {NoNode}, m : Names \cup {NoName},
   n2 : Nodes \cup {NoNode}, m2 : Names \cup {NoName}, fl : Flags,
   w : Ids \cup {NoNode}, w2 : Ids \cup {NoNode}, l : BOOLEAN, l2 : BOOLEAN,
   p : Seq(AllNames), p2 : Seq(AllNames), done : BOOLEAN, err : BOOLEAN,
   ino : Ids \cup {NoNode}, f : Files \cup {NoFile}, hid : HiddenNames \cup {NoName},
   k : Nat, mx : SUBSET Nodes, kref : SUBSET Nodes]

\* Types.  No count ever goes below zero, as fuse_do_release and forget_node assert, also
\* when an interrupted open is released by the thread that opened it.
TypeOK ==
  /\ nd \in [Nodes -> [parent : Nodes \cup {NoNode}, name : AllNames \cup {NoName},
                       nlookup : Nat, refctr : Nat, open_count : Nat,
                       is_hidden : BOOLEAN, file : Files \cup {NoFile}]]
  /\ treelock \in [Ids -> Int]
  /\ lockq \in Seq(Threads)
  /\ call \in [Threads -> CallType]
  /\ host \in [Dirs \X AllNames -> Files \cup {NoFile}]
  /\ knows \in [Ids -> Nat] /\ kopen \in [Ids -> Nat]
  /\ left \subseteq HiddenNames

\* How many locked paths of requests pass through the node, and how many requests have
\* it write-locked.
Readers(n) ==
  Cardinality({t \in Threads : call[t].l /\ n \in Chain(nd, call[t].n)})
  + Cardinality({t \in Threads : call[t].l2 /\ n \in Chain(nd, call[t].n2)})
Writers(n) ==
  Cardinality({t \in Threads : call[t].l /\ call[t].w = n})
  + Cardinality({t \in Threads : call[t].l2 /\ call[t].w2 = n})

\* treelock says exactly which requests hold the node, waiting writers included, also
\* for requests that wait with one of their paths locked, and although unlock_path
\* follows the parent pointers as they are then: no lock is leaked, dropped twice or
\* left on a node that is freed, and a writer is alone.
LocksExact ==
  \A n \in Ids :
    \/ Writers(n) = 1 /\ Readers(n) = 0 /\ treelock[n] = TREELOCK_WRITE
    \/ Writers(n) = 0 /\ treelock[n] = Readers(n)
    \/ /\ Writers(n) = 0 /\ Readers(n) > 0
       /\ treelock[n] = Readers(n) + TREELOCK_WAIT_OFFSET

\* The lookups of the node that forgets on their way will drop, one by one.
Forgetting(n) ==
  UNION {{t} \X (1 .. call[t].k) : t \in {u \in Threads : call[u].op = "forget" /\ call[u].n = n}}

\* A node lives exactly as long as the kernel, an answer on its way, a forget not yet
\* done or a child refers to it, and its open files are the kernel's and the ones being
\* opened or released.  No count leaves its range.
CountsExact ==
  /\ TypeOK
  /\ \A n \in Ids :
       /\ nd[n].refctr = (IF nd[n].nlookup > 0 THEN 1 ELSE 0)
                         + Cardinality({c \in Ids : nd[c].parent = n})
       /\ nd[n].nlookup = knows[n] + Cardinality({t \in Threads : call[t].ino = n})
                          + Cardinality(Forgetting(n))
       /\ nd[n].open_count = kopen[n] + Cardinality({t \in Threads :
                               /\ call[t].n = n
                               /\ \/ At(t, {"open"}, "reply") \/ At(t, {"open", "release"}, "rel")
                                  \/ At(t, {"release"}, "wait")})

\* No request asks for what the file system's rename does not do.  Else, as with nosqlFS,
\* an exchange parts the table from the host: the table swaps what the host replaces.
FlagsHonoured == HonoursFlags \/ "exchange" \notin RenameFlags

\* A hidden file may be gone once its last release has removed it.
LeadsTo(n) ==
  \/ n = Root \/ Resolve(PathOf(nd, n)) = nd[n].file
  \/ nd[n].name \in HiddenNames /\ Resolve(PathOf(nd, n)) = NoFile

\* While a request has its path locked, the path it computed is still the path of its
\* node, and leads to the file the kernel means by the node, whatever is renamed,
\* removed or hidden meanwhile.  This is so where FlagsHonoured; and as no request names
\* a hidden file (NamesAssumption), none is renamed and then removed by its new name.
RightFile ==
  \A t \in Threads :
    /\ call[t].l  => call[t].p = PathFor(nd, call[t].n, call[t].m) /\ LeadsTo(call[t].n)
    /\ call[t].l2 => call[t].p2 = PathFor(nd, call[t].n2, call[t].m2) /\ LeadsTo(call[t].n2)

\* Every hidden file on the host still has someone who will remove it, unless the host
\* refused to; no request names one (NamesAssumption).
HiddenOwned ==
  \A d \in Dirs, h \in HiddenNames :
    host[d, h] # NoFile =>
      \/ h \in left
      \/ \E n \in Ids : /\ nd[n].is_hidden /\ nd[n].open_count > 0
                        /\ nd[n].name = h /\ nd[n].file = host[d, h]
      \/ \E t \in Threads : \/ call[t].at = "hidenode" /\ call[t].hid = h
                            \/ call[t].at = "hidunlink" /\ Last(call[t].p) = h

Sleeps(t) == call[t].at \in {"wait", "fwait"} /\ ~call[t].done

\* The first request of the queue has one of its paths locked and waits for the other,
\* which passes through a node of the first where a writer waits.
BlocksItself ==
  /\ lockq # <<>>
  /\ LET r == call[Head(lockq)] IN
     /\ Two(r) /\ r.l # r.l2
     /\ \E n \in Chain(nd, r.n) \cap Chain(nd, r.n2) : treelock[n] < 0

\* Whenever a request sleeps in the queue, some thread is at work that will wake it, or
\* the first one blocks itself: the queue has no other way to get stuck.
QueueMoves ==
  (\E t \in Threads : Sleeps(t)) =>
    (\E t \in Threads : ~Idle(t) /\ ~Sleeps(t)) \/ BlocksItself

\* A request that sleeps in the queue gets its paths or its error, however many others
\* overtake it, unless the first of the queue blocks itself.
QueueServed == \A t \in Threads : call[t].at = "wait" ~> call[t].at # "wait" \/ BlocksItself

\* fuse.c on the queue: "Only let the first element be partially locked otherwise there
\* could be a deadlock."  There is one all the same: a rename within a directory that has
\* one path locked waits for the other behind a writer of the directory, and that one
\* waits for the rename.
NoDeadlock ==
  (\E t \in Threads : Sleeps(t)) => \E t \in Threads : ~Idle(t) /\ ~Sleeps(t)

\* fuse_lowlevel.h on unlink: "the file system is expected to postpone any removal of the
\* inode until the lookup count reaches zero".  An open file at least should stay; but
\* fuse_do_release decides to remove a hidden file under f->lock and removes it later,
\* and an open in between goes with it.
OpenFileKept ==
  \A n \in Ids :
    kopen[n] > 0 /\ (\A u \in Chain(nd, n) : treelock[u] # TREELOCK_WRITE) =>
      nd[n].name # NoName /\ Resolve(PathOf(nd, n)) = nd[n].file

====
