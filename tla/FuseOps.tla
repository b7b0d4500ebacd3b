------------------------------ MODULE FuseOps ------------------------------
(***************************************************************************)
(* A mounted file system under the kernel's requests: every request goes    *)
(* through do_*, fuse_lib_* and the file system's functions to its answer   *)
(* (FuseRequests), any of the calls on the way may fail, and the device may *)
(* refuse the answer of a request that was interrupted (ENOENT).            *)
(*                                                                          *)
(* What is left behind is compared with what the other side believes: the   *)
(* kernel's open files, directories and lookups, the file system's own open *)
(* files and locks.  One file and one directory; a request is handled in    *)
(* one step, the interleavings are in FuseTree and FuseReq.                 *)
(***************************************************************************)
EXTENDS FuseRequests

CONSTANTS Configs,      \* how the library and the file system are set up, and which
                        \* requests the kernel sends (work)
          Listings,     \* what the directory may contain
          Sizes,        \* sizes of a directory read, in units of an entry
          MaxOpen,      \* bound on open files and directories
          MaxLookups,   \* bound on what the kernel has to forget
          Shapes,       \* of the data a read gives
          MaxData,      \* bound on a write's bytes
          MaxCalls,     \* bound on the system calls that may go wrong
          MaxVersion    \* bound on changes of the file's content

ASSUME OpsAssumption == MaxOpen \in Nat /\ MaxLookups \in Nat /\ MaxVersion \in Nat
ASSUME ListingsAssumption == Listings \subseteq Seq(STRING)

VARIABLES
  conf,                         \* chosen at the start
  locks, cache, dh,             \* the node's locks and cache state, the directory handle
  open_count, nlookup, dhs,     \* the node's counts, the struct fuse_dh allocated
  fslocks, fsopen, fsdirs,      \* the file system's own locks, open files, open directories
  ver, listing,                 \* the file's content and the directory's, in the file system
  kopen, kdirs, knows,          \* what the kernel holds: files, directories, lookups
  kpages, kseen, koff, ksnap,   \* its pages; the entries read, where, and of which listing
  lost,                         \* some lock could not be recorded
  io, u,                        \* the thread's pipe, and which request is next
  missed,                       \* an open the kernel gave up has called its pages current
  last                          \* the request just handled; <<>> when there is none

lib == <<locks, cache, dh, open_count, nlookup, dhs, io, u>>
fsys == <<fslocks, fsopen, fsdirs>>
kern == <<kopen, kdirs, knows, kpages, kseen, koff, ksnap>>
vars == <<conf, lib, fsys, kern, ver, listing, lost, missed, last>>

NoLk == [type |-> "U", start |-> 0, end |-> OFFSET_MAX]
NoPages == -1

\* Locks and data are of a file that is open from the start.
Given == IF conf.work \in {"locks", "data"} THEN 1 ELSE 0

Init ==
  /\ conf \in Configs
  /\ locks = <<>> /\ cache = [valid |-> FALSE, ver |-> -1, recent |-> FALSE] /\ dh = NewDh
  /\ open_count = Given /\ nlookup = Given /\ dhs = 0
  /\ fslocks = [o \in Owners |-> [b \in Offsets |-> "U"]]
  /\ fsopen = (IF "open" \in conf.reg THEN Given ELSE 0) /\ fsdirs = 0
  /\ ver = 0 /\ listing \in IF conf.work = "dir" THEN Listings ELSE {<<>>}
  /\ kopen = Given /\ kdirs = 0 /\ knows = Given
  /\ kpages = NoPages /\ kseen = <<>> /\ koff = 0 /\ ksnap = <<>>
  /\ io = NoPipe /\ u = 0 /\ lost = FALSE /\ missed = FALSE /\ last = <<>>

---------------------------------------------------------------------------
(* Requests and what may happen to them *)

Req(op) ==
  [op |-> op, fi |-> FALSE, valid |-> {}, isreg |-> FALSE, flush |-> FALSE, owner |-> 0,
   n |-> 0, len |-> 0, unrestricted |-> FALSE, out |-> FALSE, room |-> FALSE,
   root |-> FALSE, off |-> 0, size |-> 0, plus |-> FALSE, lk |-> NoLk, bsd |-> FALSE,
   dir |-> FALSE, notify |-> FALSE, short |-> FALSE, dot |-> "", stranger |-> FALSE]

Fine ==
  [path |-> 0, fail |-> {}, code |-> 0, val |-> 1, mem |-> TRUE, node |-> TRUE, dev |-> 0,
   lkmem |-> TRUE, isreg |-> TRUE, ver |-> ver, listing |-> listing,
   rmem |-> TRUE, hmem |-> TRUE, rqmem |-> TRUE, sys |-> <<>>, stray |-> FALSE,
   shape |-> Flat(1), known |-> TRUE, u |-> u]

\* The calls of the file system's that fail: one, or all from one on.
Failing == ({{n} : n \in 1 .. 4} \X {ENOENT, EIO, ENOSYS, 1})
             \cup ({n .. 5 : n \in 1 .. 3} \X {EIO, ENOSYS})

\* One thing goes wrong: the path, a malloc, the file system; a result
\* above 0 is a file system's mistake.
Faults ==
  {Fine} \cup {[Fine EXCEPT !.path = p] : p \in {ENOENT, ENOMEM}}
         \cup {[Fine EXCEPT !.mem = FALSE], [Fine EXCEPT !.node = FALSE],
               [Fine EXCEPT !.isreg = FALSE], [Fine EXCEPT !.lkmem = FALSE],
               [Fine EXCEPT !.val = 0]}
         \cup {[Fine EXCEPT !.fail = f[1], !.code = f[2]] : f \in Failing}

\* The answer is refused when the request was interrupted, and the undoing may fail too.
\* Other errors of the device are in DataFaults: what was set up is not undone then.
World == Faults \cup {[Fine EXCEPT !.dev = ENOENT, !.fail = f, !.code = EIO] :
                        f \in {{}, {1}, {2}, {3}}}

\* The few that matter to requests made in long sequences.
Calm == {Fine, [Fine EXCEPT !.fail = {1}, !.code = EIO], [Fine EXCEPT !.mem = FALSE],
         [Fine EXCEPT !.dev = ENOENT]}

LockFaults == {Fine, [Fine EXCEPT !.lkmem = FALSE], [Fine EXCEPT !.fail = {1}, !.code = EIO]}
FlushFaults == LockFaults \cup {[Fine EXCEPT !.fail = {2}, !.code = EIO],
                               [Fine EXCEPT !.fail = {1, 2}, !.code = ENOSYS]}

\* At most two of the coming system calls are short or fail.
Wrong == {Less, EAGAIN, EINVAL, EIO}
SysCalls == {[i \in 1 .. MaxCalls |-> IF i = p THEN x ELSE IF i = q THEN y ELSE Full] :
               p \in 1 .. MaxCalls, q \in 1 .. MaxCalls, x \in Wrong, y \in {Full} \cup Wrong}
DataFaults == {Fine, [Fine EXCEPT !.dev = ENOENT], [Fine EXCEPT !.dev = EIO],
               [Fine EXCEPT !.hmem = FALSE], [Fine EXCEPT !.rmem = FALSE],
               [Fine EXCEPT !.rqmem = FALSE], [Fine EXCEPT !.mem = FALSE],
               [Fine EXCEPT !.fail = {1}, !.code = EIO], [Fine EXCEPT !.path = ENOMEM],
               [Fine EXCEPT !.stray = TRUE, !.sys = <<EIO>>]}
              \cup {[Fine EXCEPT !.sys = s] : s \in SysCalls}

CacheFaults == Calm \cup {[Fine EXCEPT !.fail = {2}, !.code = EIO]}

---------------------------------------------------------------------------
(* The kernel takes an answer, if the device took it *)

Accepted(c) == c.env.dev = 0 /\ c.io.res >= 0
Taken(c, kind) == c.kind = kind /\ Accepted(c)
One(b) == IF b THEN 1 ELSE 0

Told(c) == Cardinality({i \in DOMAIN c.dh.contents : c.dh.contents[i].ino})
Names(c) == [i \in DOMAIN c.dh.contents |-> c.dh.contents[i].name]
IsRead(c) == c.req.op \in {"READDIR", "READDIRPLUS"}

Outcome(c) ==
  [op |-> c.req.op, valid |-> c.req.valid, owner |-> c.req.owner, lk |-> c.req.lk,
   kind |-> c.kind, code |-> c.code, nans |-> c.nans, gone |-> c.gone, bad |-> c.bad,
   held |-> c.held, intr |-> c.intr, calls |-> c.calls, flock |-> c.flock, val |-> c.val, keep |-> c.keep,
   sent |-> c.io.sent, wrote |-> c.wrote, head |-> c.head, u |-> u, bufs |-> c.buf.bufs,
   clean |-> c.env.sys = <<>>, dir |-> c.dh, size |-> c.req.size, off |-> c.req.off, taken |-> Accepted(c),
   barred |-> Barred(c)]

\* The reply buffer is refilled from its start by every read: its content is not kept.
Effect(c) ==
  /\ last' = Outcome(c)
  /\ locks' = c.locks /\ cache' = c.cache
  /\ dh' = (IF dhs + c.dhs = 0 THEN NewDh
            ELSE [c.dh EXCEPT !.contents = <<>>, !.len = 0, !.needlen = 0, !.error = 0])
  /\ open_count' = open_count + c.count /\ nlookup' = nlookup + c.look /\ dhs' = dhs + c.dhs
  /\ fslocks' = c.fslocks /\ fsopen' = fsopen + c.opened /\ fsdirs' = fsdirs + c.dirs
  /\ io' = [c.io EXCEPT !.sys = <<>>, !.sent = <<>>, !.res = 0]
  /\ u' = (IF conf.work = "data" THEN 1 - u ELSE u)
  /\ lost' = (lost \/ c.lost)
  /\ missed' = IF c.req.op = "OPEN" /\ c.kind = "open" /\ ~c.keep THEN conf.auto /\ Refused(c)
               ELSE missed
  /\ kopen' = kopen + One(c.req.op = "OPEN" /\ Taken(c, "open")) + One(Taken(c, "create"))
                    - One(c.req.op = "RELEASE")
  /\ kdirs' = kdirs + One(c.req.op = "OPENDIR" /\ Taken(c, "open"))
                    - One(c.req.op = "RELEASEDIR")
  /\ knows' = knows + One(Taken(c, "entry") /\ c.ino) + One(Taken(c, "create")) - c.req.n
                    + (IF IsRead(c) /\ Taken(c, "buf") THEN Told(c) ELSE 0)
  /\ kpages' = CASE c.req.op = "OPEN" /\ Taken(c, "open") /\ ~c.keep -> NoPages
                 [] c.req.op = "READ" /\ Taken(c, "buf") /\ kpages = NoPages -> ver
                 [] OTHER -> kpages
  /\ IF IsRead(c)
     THEN /\ kseen' = (IF c.req.off = 0 THEN <<>> ELSE kseen)
                        \o (IF Taken(c, "buf") THEN Names(c) ELSE <<>>)
          /\ koff' = (IF Taken(c, "buf") /\ c.dh.contents # <<>> THEN Last(c.dh.contents).off
                      ELSE c.req.off)
          /\ ksnap' = (IF c.req.off = 0 THEN listing ELSE ksnap)
     ELSE IF c.req.op \in {"OPENDIR", "RELEASEDIR"}
     THEN kseen' = <<>> /\ koff' = 0 /\ ksnap' = <<>>
     ELSE UNCHANGED <<kseen, koff, ksnap>>
  /\ UNCHANGED <<conf, ver, listing>>

State(env) == [io |-> [io EXCEPT !.sys = env.sys], locks |-> locks, fslocks |-> fslocks, cache |-> cache, dh |-> dh]

Handle(r, env) ==
  /\ last = <<>> /\ ~io.ended
  /\ \E c \in {receive_and_process(NewCall(r, conf, env, State(env)))} : Effect(c)

Send(reqs, envs) == \E r \in reqs, e \in envs : Handle(r, e)

---------------------------------------------------------------------------
(* The kernel's requests *)

SetattrReq(fi, valid) == [Req("SETATTR") EXCEPT !.fi = fi, !.valid = valid]
RoomReq(op, room) == [Req(op) EXCEPT !.room = room]
WriteReq(n, short) == [Req("WRITE") EXCEPT !.len = n, !.short = short]
IoctlReq(un, out, dir) == [Req("IOCTL") EXCEPT !.unrestricted = un, !.out = out, !.dir = dir]
FlushReq(o) == [Req("FLUSH") EXCEPT !.owner = o]
ReleaseReq(o, f) == [Req("RELEASE") EXCEPT !.flush = f, !.owner = o]
By(r, s) == [r EXCEPT !.stranger = s]
FlockReq(o) == [Req("SETLKW") EXCEPT !.bsd = TRUE, !.owner = o]
LockReq(op, o, lk) == [Req(op) EXCEPT !.owner = o, !.lk = lk]
DirectoryReq(op, off, size) ==
  [Req(op) EXCEPT !.off = off, !.size = size, !.plus = op = "READDIRPLUS"]

\* "." and ".." are looked up when the file system is exported.
Lookup == /\ conf.work = "files" /\ knows < MaxLookups
          /\ Send({[Req("LOOKUP") EXCEPT !.dot = d] : d \in {"", ".", ".."}},
                  World \cup {[Fine EXCEPT !.known = FALSE]})

Forget == /\ conf.work \in {"files", "dir"} /\ knows > 0
          /\ Send({[Req(op) EXCEPT !.n = n] : op \in {"FORGET", "BATCH_FORGET"},
                                             n \in 1 .. knows - One(kopen > 0)}, {Fine})

\* A request may name an open file by its handle.
ByFi == {FALSE, kopen > 0}
Attr_ == /\ conf.work = "files"
         /\ Send({[Req("GETATTR") EXCEPT !.fi = fi] : fi \in ByFi}
                   \cup {SetattrReq(fi, v) :
                            fi \in ByFi, v \in SUBSET {"mode", "owner", "size", "time"}}, World)

\* Requests that name a file by its inode alone.
ByNode == /\ conf.work = "files"
          /\ Send({Req(op) : op \in {"ACCESS", "READLINK", "SETXATTR", "REMOVEXATTR", "BMAP"}}
                    \cup {RoomReq(op, r) : op \in {"GETXATTR", "LISTXATTR"}, r \in BOOLEAN}
                    \cup {[Req("STATFS") EXCEPT !.root = r] : r \in BOOLEAN}, World)

\* A second INIT, an opcode the library does not know, another user's requests.
Unwelcome ==
  /\ conf.work = "files"
  /\ Send({Req("INIT"), Req("UNKNOWN")}
            \cup (IF conf.allow_root
                  THEN {By(Req(op), TRUE) : op \in {"LOOKUP", "OPEN", "MKDIR"}}
                  ELSE {}), {Fine})

NewName == /\ conf.work = "files" /\ knows < MaxLookups
           /\ Send({Req("MKDIR"), Req("SYMLINK")}
                     \cup {[Req("MKNOD") EXCEPT !.isreg = r] : r \in BOOLEAN}, World)

Create == /\ conf.work = "files" /\ knows < MaxLookups /\ kopen < MaxOpen
          /\ Send({Req("CREATE")}, World)

Open == /\ conf.work \in {"files", "cache"} /\ knows > 0 /\ kopen < MaxOpen
        /\ Send({Req("OPEN")}, IF conf.work = "cache" THEN CacheFaults ELSE World)

\* Requests on an open file.
ByHandle ==
  /\ conf.work = "files" /\ kopen > 0
  /\ Send({Req(op) : op \in {"READ", "FSYNC", "FALLOCATE"}}
            \cup {WriteReq(1, s) : s \in BOOLEAN}
            \cup {[Req("POLL") EXCEPT !.notify = n] : n \in BOOLEAN}
            \cup {IoctlReq(un, o, d) : un \in BOOLEAN, o \in BOOLEAN, d \in BOOLEAN}
            \cup {FlockReq(o) : o \in Owners}, World)

Flush == /\ conf.work \in {"files", "locks"} /\ kopen > 0
         /\ Send({By(FlushReq(o), s) : o \in Owners, s \in {FALSE, conf.allow_root}},
                 IF conf.work = "locks" THEN FlushFaults ELSE World)

Release == /\ conf.work \in {"files", "cache"} /\ kopen > 0
           /\ Send({By(ReleaseReq(o, f), s) :
                      o \in Owners, f \in BOOLEAN, s \in {FALSE, conf.allow_root}},
                   IF conf.work = "cache" THEN {Fine} ELSE World)

\* Locks on a file that stays open.  Bound: once the record has lost one, only closing goes on.
Ranges(types) == {lk \in [type : types, start : Offsets, end : Offsets] : lk.start <= lk.end}
Lock_ == /\ conf.work = "locks" /\ ~lost
         /\ Send({LockReq("GETLK", o, lk) : o \in Owners, lk \in Ranges(LockTypes)}
                   \cup {LockReq("SETLK", o, lk) : o \in Owners, lk \in Ranges(LockTypes \cup {"U"})},
                 LockFaults)

Opendir == /\ conf.work = "dir" /\ kdirs = 0 /\ Send({Req("OPENDIR")}, World)

\* The directory is read on from where the last answer ended, or again from the start.
ReadReq(op) == {DirectoryReq(op, off, s) : off \in {0, koff}, s \in Sizes}
Readdir == /\ conf.work = "dir" /\ kdirs > 0
           /\ Send(ReadReq("READDIR")
                     \cup (IF nlookup < MaxLookups THEN ReadReq("READDIRPLUS") ELSE {}),
                   Calm \cup {[Fine EXCEPT !.node = FALSE]})

Releasedir == /\ conf.work = "dir" /\ kdirs > 0
              /\ Send({Req("FSYNCDIR"), Req("RELEASEDIR")}, World)

\* With auto_cache: the file is read, or looked at.
CacheRead == /\ conf.work = "cache" /\ kopen > 0 /\ Send({Req("READ")}, {Fine})
CacheStat == /\ conf.work = "cache"
             /\ Send({Req("GETATTR")} \cup (IF knows < MaxLookups THEN {Req("LOOKUP")} ELSE {}),
                     Calm)

\* Data through the pipe, on a file that stays open.
DataRead == /\ conf.work = "data"
            /\ Send({Req("READ")}, {[e EXCEPT !.shape = s] : e \in DataFaults, s \in Shapes})
DataWrite == /\ conf.work = "data"
             /\ Send({WriteReq(n, s) : n \in 1 .. MaxData, s \in BOOLEAN}
                       \cup {By([Req("SETXATTR") EXCEPT !.len = n], s) :
                                n \in 1 .. MaxData, s \in {FALSE, conf.allow_root}}, DataFaults)

---------------------------------------------------------------------------
(* The world *)

\* Someone else changes the file; the attributes' time runs out; a listing without
\* offsets may change under the reader.
Change == /\ last = <<>> /\ conf.work = "cache" /\ ver < MaxVersion /\ ver' = ver + 1
          /\ UNCHANGED <<conf, lib, fsys, kern, listing, lost, missed, last>>
Expire == /\ last = <<>> /\ conf.work = "cache" /\ cache.recent
          /\ cache' = [cache EXCEPT !.recent = FALSE]
          /\ UNCHANGED <<conf, locks, dh, open_count, nlookup, dhs, io, u, fsys, kern, ver,
                         listing, lost, missed, last>>
Relist == /\ last = <<>> /\ conf.work = "dir" /\ conf.mode = "list"
          /\ \E l \in Listings \ {listing} : listing' = l
          /\ UNCHANGED <<conf, lib, fsys, kern, ver, lost, missed, last>>

Done == /\ last # <<>> /\ last' = <<>>
        /\ UNCHANGED <<conf, lib, fsys, kern, ver, listing, lost, missed>>

Next == \/ Lookup \/ Forget \/ Attr_ \/ ByNode \/ Unwelcome \/ NewName \/ Create \/ Open \/ ByHandle
        \/ Flush \/ Release \/ Lock_ \/ Opendir \/ Readdir \/ Releasedir
        \/ DataRead \/ DataWrite \/ CacheRead \/ CacheStat \/ Change \/ Expire \/ Relist \/ Done

Spec == Init /\ [][Next]_vars

---------------------------------------------------------------------------
(* Properties *)

Idle == last = <<>>

\* Every handler (fuse.c:2700-4260) ends the request it was given: one answer, none to a
\* forget, no use of the request after the answer has freed it, the path's locks given
\* back and the interrupt function taken off, whichever call on the way fails.  What is
\* counted are the calls of fuse_reply_*: an answer the device does not take for another
\* reason than ENOENT frees the request too (fuse_lowlevel.c:793-805), and nobody is told.
\* A request that could not be taken out of the pipe, or has no memory (Unhandled), has no
\* handler.
RequestDone ==
  Idle \/ last.kind \in Unhandled
       \/ /\ last.nans = One(last.op \notin {"FORGET", "BATCH_FORGET"})
          /\ last.gone /\ ~last.bad /\ last.held = 0 /\ ~last.intr

\* What open, create, opendir, mknod and lookup set up is what the kernel knows of, also
\* when a later call fails or the answer is refused and it has to be undone
\* (fuse.c:2890-2940, 3290, 2590): open files, directory handles and lookups agree.
\* A directory read with attributes may count lookups the kernel is not told of.
HandlesAgree ==
  /\ open_count = kopen /\ dhs = kdirs
  /\ {"open", "release"} \subseteq conf.reg => fsopen = kopen
  /\ {"opendir", "releasedir"} \subseteq conf.reg => fsdirs = kdirs
  /\ nlookup >= knows /\ (conf.mode # "offplus" => nlookup = knows)

\* The results a handler does not pass on: of what is undone or given up, of locks at a
\* flush, of the look before the kernel's pages are kept, of the other ways to make a node,
\* of a lookup when missing names may be cached.
Passed(l, i) ==
  LET k == l.calls[i]
  IN  ~ \/ k.op \in {"release", "releasedir"}
        \/ l.op \in {"FLUSH", "RELEASE"} /\ (k.op = "lock" \/ k.res = ENOSYS)
        \/ l.op = "OPEN" /\ k.op \in {"getattr", "fgetattr"}
        \/ l.op = "MKNOD" /\ k.res = ENOSYS /\ k.op \in {"create", "fgetattr"}
        \/ l.op = "LOOKUP" /\ conf.negative /\ k.res = ENOENT
Failed(k) ==
  k.res # 0 /\ (k.res > 0 => k.op \notin {"read", "read_buf", "write", "write_buf", "getxattr",
                                          "listxattr"})
Told_(l, res) == IF l.kind = "ioctl" THEN l.val = res
                 ELSE l.kind = "err" /\ l.code = (IF res > 0 THEN ERANGE ELSE res)

\* The error answered is the first that counts, with a sign the kernel understands
\* (fuse_lowlevel.c:141), and the file system is not called again but to clean up.
FirstErrorStops ==
  Idle \/ LET wrong == {i \in DOMAIN last.calls : Failed(last.calls[i]) /\ Passed(last, i)}
          IN  \A i \in wrong : (\A j \in wrong : i <= j) =>
                /\ Told_(last, last.calls[i].res)
                /\ \A j \in i + 1 .. Len(last.calls) :
                     last.calls[j].op \in {"release", "releasedir", "lock"}

\* A file that lost its name, or a file system that wants no paths, gets NULL: only in the
\* functions that have the file's handle (include/fuse.h:104-108; flock and fallocate,
\* which the list there lacks, get it too).
NullPathOnly ==
  Idle \/ \A i \in DOMAIN last.calls :
            last.calls[i].null =>
              last.calls[i].op \in {"read", "read_buf", "write", "write_buf", "flush", "release",
                                    "fsync", "readdir", "releasedir", "fsyncdir", "ftruncate",
                                    "fgetattr", "lock", "ioctl", "poll", "flock", "fallocate"}

\* The closer's locks are forgotten, whatever failed before or during the close, or no one
\* could release them (fuse.c:3959); only a file system without locks has none to forget,
\* and a request that could not be received, or that allow_root refuses, does nothing.
FlushClears ==
  Idle \/ last.op # "FLUSH" \/ last.kind \in Unhandled \/ last.barred
       \/ (\E i \in DOMAIN last.calls :
             last.calls[i].op = "lock" /\ last.calls[i].res = ENOSYS)
       \/ \A i \in DOMAIN locks : locks[i].owner # last.owner

\* The record of locks says of every byte what the file system's own locks say, as long as
\* no insertion failed (fuse.c:3855 locks_insert splits, merges and removes ranges), stays in
\* order, and has nothing of an owner left after its close.
LocksAgree ==
  OrderedLocks(locks) /\ (lost \/ HeldBytes(locks) = fslocks) /\ FlushClears

\* getlk (fuse.c:4033) answers from its record: it names a lock another owner really has on
\* those bytes, and says there is none only if there is none.
GetlkTrue ==
  Idle \/ last.op # "GETLK" \/ last.kind # "lock" \/ lost
       \/ LET ans == FlockAnswer(last.flock)
              asked == [owner |-> last.owner, type |-> last.lk.type,
                        start |-> last.lk.start, end |-> last.lk.end]
          IN  IF ans.type = "U" THEN ~FsConflict(fslocks, asked)
              ELSE /\ ans.start <= asked.end /\ asked.start <= ans.end
                   /\ "W" \in {ans.type, asked.type}
                   /\ \E o \in Owners \ {last.owner} :
                        \A b \in ans.start .. ans.end : fslocks[o][b] = ans.type

\* The record of locks implements the locks of POSIX: each request changes the type of one
\* owner's bytes in one range, or nothing.
Record == INSTANCE PosixLocks WITH held <- HeldBytes(locks)
LockRecord == Record!Spec

\* A directory read piece by piece (fuse.c:3588) gives every entry of one listing once, in
\* order and within the size asked for, and ends only at its end, whether the entries come
\* from the list or straight from the file system.
DirInOrder ==
  /\ IsPrefix(kseen, ksnap)
  /\ Idle \/ last.op \notin {"READDIR", "READDIRPLUS"} \/ last.kind # "buf"
     \/ /\ last.dir.len <= last.size
        /\ \/ ~last.taken \/ last.dir.contents # <<>> \/ kseen = ksnap
           \/ last.size < EntLen(last.op = "READDIRPLUS")

\* With auto_cache an open lets the kernel keep its pages only if they are of the file as it
\* is, when the attributes were asked for again (fuse.c:3104) and the kernel has heard of the
\* last open that told it to drop them: open_auto_cache sets cache_valid before the answer
\* is known to be taken, and nothing clears it when it is not.
KeepCurrent ==
  Idle \/ last.op # "OPEN" \/ ~last.keep \/ missed \/ kpages = NoPages \/ kpages = ver
       \/ \A i \in DOMAIN last.calls : last.calls[i].op \notin {"getattr", "fgetattr"}

\* Between two requests the thread's pipe is empty or gone (fuse_lowlevel.c:522-590, 1380,
\* 2560), whatever failed and wherever, or the session ends: no byte of a request or an
\* answer gets into the next one.
PipeEmpty == io.bytes = <<>> \/ io.ended

\* The bytes up to the first buffer that has less than its size.
Whole(bufs) ==
  LET short == {j \in DOMAIN bufs : Len(bufs[j].data) < bufs[j].size}
      n == IF short = {} THEN Len(bufs) ELSE Min(short)
  IN  FoldLeft(LAMBDA m, b : m + Len(b.data), 0, SubSeq(bufs, 1, n))

\* A request that is handled is read from its own bytes; a read is answered with its header
\* and its data from the start, in order and without a gap, all of it if no system call
\* misbehaved; a write hands the file system its data from the start
\* (fuse_lowlevel.c:602-788, buffer.c).  Except that a request received by read() after a
\* spliced one is taken from the old descriptor, which the buffer still names
\* (fuse_lowlevel.c:2800-2801, 2807-2848; fuse_loop_mt.c:81, 117): it is dropped, or read
\* from whatever file has that number now ("stray").
DataExact ==
  Idle \/ conf.work # "data" \/ last.kind \in Unhandled
       \/ /\ last.head = <<Byte(last.u, "q", 0)>>
          /\ IsPrefix(last.wrote, Bytes(last.u, "q", 1, MaxData))
          /\ last.op = "READ" /\ last.kind = "buf" /\ last.taken =>
               /\ IsPrefix(<<Byte(last.u, "a", 0)>>, last.sent)
               /\ IsPrefix(last.sent, Bytes(last.u, "a", 0, Whole(last.bufs)))
               /\ last.clean => Len(last.sent) = 1 + Whole(last.bufs)
=============================================================================
