----------------------------- MODULE FuseCalls -----------------------------
(***************************************************************************)
(* One request on its way through libfuse: do_* of the low-level layer      *)
(* takes it apart, fuse_lib_* of the path layer gets the path, calls the    *)
(* file system through fuse_fs_* and answers through fuse_reply_*.          *)
(*                                                                          *)
(* A function that handles a request is an operator on the call c: what the *)
(* request asks (req), how the library and the file system are set up       *)
(* (conf), how the world outside will answer (env), and what the handler    *)
(* has done so far.  Errors are the C code's negative numbers.  unlink,     *)
(* rmdir, rename and link and the tree of nodes are in FuseTree.            *)
(***************************************************************************)
EXTENDS FuseLocks, FuseSplice

ENOENT == -2
EIO    == -5
ENOMEM == -12
EPERM  == -1
ENOTTY == -25
ERANGE == -34
EACCES == -13
ESTALE == -116
ENOSYS == -38

NoFlock == [type |-> "U", start |-> 0, len |-> 0]

\* Byte i of the request (q) or the answer (a) with unique u; byte 0 is the header.
Byte(u, side, i) == <<u, side, i>>
Bytes(u, side, from, to) == [i \in 1 .. to - from + 1 |-> Byte(u, side, from + i - 1)]

\* A vector with buffers of these shapes: size, and how many bytes there are.
Shaped(u, shape) ==
  Vec([j \in DOMAIN shape |->
        LET from == FoldLeft(LAMBDA n, b : n + b.have, 1, SubSeq(shape, 1, j - 1))
        IN  [fd |-> shape[j].fd, retry |-> shape[j].retry, size |-> shape[j].size,
             data |-> Bytes(u, "a", from, from + shape[j].have - 1)]])
Flat(n) == <<[fd |-> FALSE, retry |-> FALSE, size |-> n, have |-> n]>>

\* err, val: the code's err or res; path: "none", "held" or "null"; held: path locks
\* taken and not given back; intr: an interrupt function is set; calls: the file system's
\* functions called, whether with a NULL path, and what they returned; kind, code, nans:
\* the answer and how many; gone, bad: the request is freed, and was used after that;
\* look, opened, count, dirs, dhs: changes of nlookup, of the files open in the file system,
\* of open_count, of the directories open in the file system, of the struct fuse_dh;
\* locks, fslocks, lost: the record of locks, the file system's locks, and that the two
\* may differ; cache: the node's cache_valid, mtime and whether stat_updated is recent;
\* keep: keep_cache; dh: the directory handle's content; stop: the filler said stop;
\* io: the thread's pipe; in: where the request's data is; head: its header; buf: the data
\* of a read or write; wrote: what the file system was given to write.
NewCall(req, conf, env, st) ==
  [req |-> req, conf |-> conf, env |-> env, err |-> 0, val |-> 0, path |-> "none",
   held |-> 0, intr |-> FALSE, calls |-> <<>>, kind |-> "none", code |-> 0, nans |-> 0,
   gone |-> FALSE, bad |-> FALSE, look |-> 0, opened |-> 0, count |-> 0, dirs |-> 0,
   dhs |-> 0, ino |-> FALSE, locks |-> st.locks, fslocks |-> st.fslocks, lost |-> FALSE,
   flock |-> NoFlock, cache |-> st.cache, keep |-> FALSE, dh |-> st.dh, stop |-> FALSE,
   io |-> st.io, in |-> "mem", head |-> <<>>, buf |-> Vec(<<>>), wrote |-> <<>>]

Fails(c, e) == [c EXCEPT !.err = e]
Unless(c, d) == IF c.err # 0 THEN c ELSE d

---------------------------------------------------------------------------
(* Answers: fuse_lowlevel.c.  Each frees the request, whether or not the    *)
(* device takes it.                                                         *)

Use(c) == [c EXCEPT !.bad = @ \/ c.gone]

send_reply_iov(c, kind, error) ==
  [Use(c) EXCEPT !.kind = kind, !.nans = @ + 1, !.gone = TRUE,
                 !.code = IF error <= -1000 \/ error > 0 THEN ERANGE ELSE error]

Refused(c) == c.env.dev = ENOENT

fuse_reply_err(c, error) == send_reply_iov(c, "err", error)
fuse_reply_none(c)   == [Use(c) EXCEPT !.gone = TRUE]
fuse_reply_entry(c)  == send_reply_iov(c, "entry", 0)
fuse_reply_create(c) == send_reply_iov(c, "create", 0)
fuse_reply_attr(c)   == send_reply_iov(c, "attr", 0)
fuse_reply_readlink(c) == send_reply_iov(c, "readlink", 0)
fuse_reply_open(c)   == send_reply_iov(c, "open", 0)
fuse_reply_write(c)  == send_reply_iov(c, "write", 0)
fuse_reply_buf(c)    == send_reply_iov(c, "buf", 0)
fuse_reply_statfs(c) == send_reply_iov(c, "statfs", 0)
fuse_reply_xattr(c)  == send_reply_iov(c, "xattr", 0)
fuse_reply_lock(c)   == send_reply_iov(c, "lock", 0)
fuse_reply_bmap(c)   == send_reply_iov(c, "bmap", 0)
fuse_reply_poll(c)   == send_reply_iov(c, "poll", 0)

\* Data through the pipe or through memory; an error is answered in its place.
DataSent(c) ==
  IF c.io.res > 0 THEN fuse_reply_err(c, -c.io.res) ELSE send_reply_iov(c, "buf", 0)
fuse_reply_data(c) ==
  DataSent([c EXCEPT !.io = fuse_send_data_iov(c.io,
              [hdr |-> <<Byte(c.env.u, "a", 0)>>, vec |-> c.buf, mem |-> c.env.mem,
               dev |-> c.env.dev], c.conf.splice)])

\* The result of an ioctl is not the error of its answer.
fuse_reply_ioctl(c)  == send_reply_iov([c EXCEPT !.val = c.err], "ioctl", 0)

---------------------------------------------------------------------------
(* The path layer's frame *)

reply_err(c) == fuse_reply_err(c, c.err)

try_path(c) ==
  IF c.env.path = 0 THEN [c EXCEPT !.path = "held", !.held = @ + 1]
  ELSE [c EXCEPT !.path = "null", !.err = c.env.path]

get_path(c) == try_path(c)
get_path_name(c) == try_path(c)

\* A file that has lost its name is used without a path.
get_path_nullok(c) ==
  IF c.conf.nopath THEN [c EXCEPT !.path = "null"]
  ELSE IF c.env.path = ENOENT THEN [c EXCEPT !.path = "null"]
  ELSE try_path(c)

free_path(c) == IF c.path = "held" THEN [c EXCEPT !.path = "freed", !.held = @ - 1] ELSE c

fuse_prepare_interrupt(c) == [Use(c) EXCEPT !.intr = TRUE]
fuse_finish_interrupt(c) == IF c.intr THEN [Use(c) EXCEPT !.intr = FALSE] ELSE c

\* The calls a handler makes with a path, if it got one.
Within(c, Calls(_)) ==
  fuse_finish_interrupt(IF c.err = 0 THEN Calls(fuse_prepare_interrupt(c)) ELSE c)
WithPath(c, Calls(_)) == free_path(Within(c, Calls))

---------------------------------------------------------------------------
(* Calling the file system *)

Registered(c, op) == op \in c.conf.reg

\* External: what a function of the file system does.  A result below 0 is an error.
Called(c, op) ==
  LET n == Len(c.calls) + 1
      r == IF n \in c.env.fail THEN c.env.code ELSE 0
  IN  [c EXCEPT !.calls = Append(@, [op |-> op, null |-> c.path = "null", res |-> r]),
                !.err = r,
                !.opened = @ + (IF r # 0 /\ op # "release" THEN 0
                                ELSE IF op \in {"open", "create"} THEN 1
                                ELSE IF op = "release" THEN -1 ELSE 0),
                !.dirs = @ + (IF r # 0 /\ op # "releasedir" THEN 0
                              ELSE IF op = "opendir" THEN 1
                              ELSE IF op = "releasedir" THEN -1 ELSE 0)]

\* A function that is not registered answers absent.
Fs(c, op, absent) ==
  Unless(c, IF Registered(c, op) THEN Called(c, op) ELSE Fails(c, absent))

\* Its result is a size: 0 or more is no error.
Sized(c) == IF c.err >= 0 THEN [c EXCEPT !.val = Max2(c.err, c.env.val), !.err = 0] ELSE c

NoSize(c) == IF c.err > 0 THEN Fails(c, 0) ELSE c

\* A call whose result the handler ignores.
Quiet(c, Call(_)) == [Call(Fails(c, 0)) EXCEPT !.err = c.err]

fuse_fs_getattr(c) == Fs(c, "getattr", ENOSYS)
fuse_fs_fgetattr(c) ==
  IF Registered(c, "fgetattr") THEN Fs(c, "fgetattr", 0)
  ELSE IF c.path # "null" THEN Fs(c, "getattr", ENOSYS)
  ELSE Unless(c, Fails(c, ENOSYS))
fuse_fs_symlink(c)  == Fs(c, "symlink", ENOSYS)
fuse_fs_release(c)  == Fs(c, "release", 0)
fuse_fs_opendir(c)  == Fs(c, "opendir", 0)
fuse_fs_open(c)     == Fs(c, "open", 0)

\* External: read_buf gives buffers of any shape, and a result of 0 or more is success.
\* read goes into one of the library's.
ReadInto(c, shape) == IF c.err = 0 THEN [c EXCEPT !.buf = Shaped(c.env.u, shape)] ELSE c
ReadSized(c) == ReadInto(c, Flat(c.val))
fuse_fs_read_buf(c) ==
  IF Registered(c, "read_buf") THEN ReadInto(NoSize(Fs(c, "read_buf", 0)), c.env.shape)
  ELSE IF ~Registered(c, "read") THEN Unless(c, Fails(c, ENOSYS))
  ELSE IF ~c.env.mem THEN Unless(c, Fails(c, ENOMEM))
  ELSE ReadSized(Sized(Fs(c, "read", 0)))

\* External: a write_buf that copies the data to a descriptor of its own.
Consumed(c, r) ==
  [c EXCEPT !.buf = r.src, !.io.sys = r.sys, !.wrote = r.out,
            !.io.bytes = IF c.in = "fd" THEN Left(c.io, Len(r.out)) ELSE @]
WroteBuf(c, r) ==
  IF r.res < 0 THEN Fails(Consumed(c, r), r.res) ELSE [Consumed(c, r) EXCEPT !.val = r.res]
WriteBuf(c) ==
  IF c.err # 0 THEN c
  ELSE WroteBuf(c, fuse_buf_copy(Vec(<<[fd |-> TRUE, retry |-> FALSE, size |-> c.req.len,
                                        data |-> <<>>]>>), c.buf, {}, c.io.sys))

\* write takes one piece of memory: data in a pipe is copied first.
WriteMem(c, data) == [Sized(Fs(c, "write", 0)) EXCEPT !.wrote = data]
FromCopy(c, r) ==
  IF r.res <= 0 THEN Fails(Consumed(c, r), r.res) ELSE WriteMem(Consumed(c, r), r.out)
fuse_fs_write_buf(c) ==
  IF c.err # 0 THEN c
  ELSE IF Registered(c, "write_buf") THEN WriteBuf(Fs(c, "write_buf", 0))
  ELSE IF ~Registered(c, "write") THEN Fails(c, ENOSYS)
  ELSE IF c.in = "mem" THEN WriteMem(c, c.buf.bufs[1].data)
  ELSE IF ~c.env.mem THEN Fails(c, ENOMEM)
  ELSE FromCopy(c, fuse_buf_copy(MemVec(c.req.len), c.buf, {}, c.io.sys))

fuse_fs_fsync(c)    == Fs(c, "fsync", ENOSYS)
fuse_fs_fsyncdir(c) == Fs(c, "fsyncdir", ENOSYS)
fuse_fs_flush(c)    == Fs(c, "flush", ENOSYS)
fuse_fs_statfs(c)   == Fs(c, "statfs", 0)
fuse_fs_releasedir(c) == Fs(c, "releasedir", 0)
fuse_fs_create(c)   == Fs(c, "create", ENOSYS)
fuse_fs_flock(c)    == Fs(c, "flock", ENOSYS)
fuse_fs_chmod(c)    == Fs(c, "chmod", ENOSYS)
fuse_fs_chown(c)    == Fs(c, "chown", ENOSYS)
fuse_fs_truncate(c) == Fs(c, "truncate", ENOSYS)
fuse_fs_ftruncate(c) ==
  IF Registered(c, "ftruncate") THEN Fs(c, "ftruncate", 0)
  ELSE IF c.path # "null" THEN Fs(c, "truncate", ENOSYS)
  ELSE Unless(c, Fails(c, ENOSYS))
fuse_fs_utimens(c)  == Fs(c, "utimens", ENOSYS)
fuse_fs_access(c)   == Fs(c, "access", ENOSYS)
fuse_fs_readlink(c) == Fs(c, "readlink", ENOSYS)
fuse_fs_mknod(c)    == Fs(c, "mknod", ENOSYS)
fuse_fs_mkdir(c)    == Fs(c, "mkdir", ENOSYS)
fuse_fs_setxattr(c) == Fs(c, "setxattr", ENOSYS)
fuse_fs_getxattr(c) == Sized(Fs(c, "getxattr", ENOSYS))
fuse_fs_listxattr(c) == Sized(Fs(c, "listxattr", ENOSYS))
fuse_fs_bmap(c)     == Fs(c, "bmap", ENOSYS)
fuse_fs_removexattr(c) == Fs(c, "removexattr", ENOSYS)
fuse_fs_ioctl(c)    == Fs(c, "ioctl", ENOSYS)
fuse_fs_poll(c)     == Fs(c, "poll", ENOSYS)
fuse_fs_fallocate(c) == Fs(c, "fallocate", ENOSYS)

\* External: the file system's own locks, byte by byte.  It refuses a lock that conflicts.
FsConflict(fl, lock) ==
  \E o \in Owners \ {lock.owner}, b \in lock.start .. lock.end :
    fl[o][b] # "U" /\ "W" \in {fl[o][b], lock.type}
FsSet(fl, lock) ==
  [fl EXCEPT ![lock.owner] = [b \in Offsets |-> IF lock.start <= b /\ b <= lock.end
                                                THEN lock.type ELSE @[b]]]
FlockBytes(flock, o) ==
  [owner |-> o, type |-> flock.type, start |-> flock.start,
   end |-> IF flock.len = 0 THEN OFFSET_MAX ELSE flock.start + flock.len - 1]
SetLk(c, d, lock) ==
  IF d.err # 0 \/ d.calls = c.calls THEN d
  ELSE IF lock.type # "U" /\ FsConflict(c.fslocks, lock) THEN Fails(d, EAGAIN)
  ELSE [d EXCEPT !.fslocks = FsSet(@, lock)]
GetLk(c, d, lock) ==
  IF d.err # 0 \/ d.calls = c.calls \/ FsConflict(c.fslocks, lock) THEN d
  ELSE [d EXCEPT !.flock.type = "U"]

fuse_fs_lock(c, cmd) ==
  IF cmd = "F_GETLK"
  THEN GetLk(c, Fs(c, "lock", ENOSYS), FlockBytes(c.flock, c.req.owner))
  ELSE SetLk(c, Fs(c, "lock", ENOSYS), FlockBytes(c.flock, c.req.owner))
=============================================================================
