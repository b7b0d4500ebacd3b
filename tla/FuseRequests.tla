---------------------------- MODULE FuseRequests ----------------------------
(***************************************************************************)
(* do_* of fuse_lowlevel.c: what the low-level layer makes of a request     *)
(* before it calls the function of fuse_path_ops, and what it answers when  *)
(* there is none; before that, how it gets the request from the device.     *)
(* unlink, rmdir, rename and link are in FuseTree.                          *)
(***************************************************************************)
EXTENDS FuseDir

\* The functions fuse.c gives the low-level layer; write is not among them.
fuse_path_ops ==
  {"lookup", "forget", "forget_multi", "getattr", "setattr", "access", "readlink", "mknod",
   "mkdir", "symlink", "create", "open", "read", "write_buf", "flush", "release", "fsync",
   "opendir", "readdir", "readdirplus", "releasedir", "fsyncdir", "statfs", "setxattr",
   "getxattr", "listxattr", "removexattr", "getlk", "setlk", "flock", "bmap", "ioctl",
   "poll", "fallocate"}

\* fuse_new takes the lock functions away again if the file system has no lock of its own.
llop(c) == fuse_path_ops \ (IF Registered(c, "lock") THEN {} ELSE {"getlk", "setlk"})

\* f->op.op(...), or the answer for a function that is not there.
Op(c, op, Lib(_)) == IF op \in llop(c) THEN Lib(c) ELSE fuse_reply_err(c, ENOSYS)

\* LOOKUP; fuse.c has a do_lookup of its own.
ll_do_lookup(c)  == Op(c, "lookup", fuse_lib_lookup)
do_forget(c)     == IF "forget" \in fuse_path_ops THEN fuse_lib_forget(c) ELSE fuse_reply_none(c)
do_batch_forget(c) ==
  IF "forget_multi" \in fuse_path_ops THEN fuse_lib_forget_multi(c) ELSE fuse_reply_none(c)
do_getattr(c)    == Op(c, "getattr", fuse_lib_getattr)
do_setattr(c)    == Op(c, "setattr", fuse_lib_setattr)
do_access(c)     == Op(c, "access", fuse_lib_access)
do_readlink(c)   == Op(c, "readlink", fuse_lib_readlink)
do_mknod(c)      == Op(c, "mknod", fuse_lib_mknod)
do_mkdir(c)      == Op(c, "mkdir", fuse_lib_mkdir)
do_symlink(c)    == Op(c, "symlink", fuse_lib_symlink)
do_create(c)     == Op(c, "create", fuse_lib_create)
do_open(c)       == IF "open" \in fuse_path_ops THEN fuse_lib_open(c) ELSE fuse_reply_open(c)
do_read(c)       == Op(c, "read", fuse_lib_read)

\* The header promises more data than came: refused.  Data the file system left in the
\* pipe goes with the pipe.
WriteData(c) ==
  [c EXCEPT !.buf = IF c.in = "fd" THEN PipeVec(c.io, c.req.len)
                    ELSE Vec(<<[fd |-> FALSE, retry |-> FALSE, size |-> c.req.len,
                                data |-> Bytes(c.env.u, "q", 1, c.req.len)]>>)]
Unread(c) ==
  IF c.in = "fd" /\ ~AtEnd(c.buf) THEN [c EXCEPT !.io = fuse_ll_clear_pipe(@)] ELSE c
do_write_buf(c)  ==
  Unread(IF c.req.short THEN fuse_reply_err(WriteData(c), EIO)
         ELSE fuse_lib_write_buf(WriteData(c)))

do_flush(c)      == Op(c, "flush", fuse_lib_flush)
do_release(c)    ==
  IF "release" \in fuse_path_ops THEN fuse_lib_release(c) ELSE fuse_reply_err(c, 0)
do_fsync(c)      == Op(c, "fsync", fuse_lib_fsync)
do_opendir(c)    ==
  IF "opendir" \in fuse_path_ops THEN fuse_lib_opendir(c) ELSE fuse_reply_open(c)
do_readdir(c)    == Op(c, "readdir", fuse_lib_readdir)
do_readdirplus(c) == Op(c, "readdirplus", fuse_lib_readdirplus)
do_releasedir(c) ==
  IF "releasedir" \in fuse_path_ops THEN fuse_lib_releasedir(c) ELSE fuse_reply_err(c, 0)
do_fsyncdir(c)   == Op(c, "fsyncdir", fuse_lib_fsyncdir)
do_statfs(c)     ==
  IF "statfs" \in fuse_path_ops THEN fuse_lib_statfs(c) ELSE fuse_reply_statfs(c)
do_setxattr(c)   == Op(c, "setxattr", fuse_lib_setxattr)
do_getxattr(c)   == Op(c, "getxattr", fuse_lib_getxattr)
do_listxattr(c)  == Op(c, "listxattr", fuse_lib_listxattr)
do_removexattr(c) == Op(c, "removexattr", fuse_lib_removexattr)

WithFlock(c) == [c EXCEPT !.flock = convert_fuse_file_lock(c.req.lk)]
do_getlk(c)      == Op(WithFlock(c), "getlk", fuse_lib_getlk)

\* A BSD lock comes as a request for a POSIX lock with a flag.
do_setlk_common(c) ==
  IF c.req.bsd THEN Op(c, "flock", fuse_lib_flock) ELSE Op(WithFlock(c), "setlk", fuse_lib_setlk)
do_setlk(c)      == do_setlk_common(c)
do_setlkw(c)     == do_setlk_common(c)

do_bmap(c)       == Op(c, "bmap", fuse_lib_bmap)

\* Mutant: the refusal does not return.
do_ioctl_Goon(c) ==
  Op(IF c.req.dir /\ ~c.conf.ioctldir THEN fuse_reply_err(c, ENOTTY) ELSE c,
     "ioctl", fuse_lib_ioctl)

\* On a directory only if the file system wants that.
do_ioctl(c)      ==
  IF c.req.dir /\ ~c.conf.ioctldir THEN fuse_reply_err(c, ENOTTY)
  ELSE Op(c, "ioctl", fuse_lib_ioctl)

\* A handle for the notification is the file system's to free.
do_poll(c)       ==
  IF c.req.notify /\ ~c.env.mem THEN fuse_reply_err(c, ENOMEM)
  ELSE Op(c, "poll", fuse_lib_poll)
do_fallocate(c)  == Op(c, "fallocate", fuse_lib_fallocate)

\* The table the session dispatches by.
fuse_ll_ops(c) ==
  CASE c.req.op = "LOOKUP" -> ll_do_lookup(c)
    [] c.req.op = "FORGET" -> do_forget(c)
    [] c.req.op = "BATCH_FORGET" -> do_batch_forget(c)
    [] c.req.op = "GETATTR" -> do_getattr(c)
    [] c.req.op = "SETATTR" -> do_setattr(c)
    [] c.req.op = "ACCESS" -> do_access(c)
    [] c.req.op = "READLINK" -> do_readlink(c)
    [] c.req.op = "MKNOD" -> do_mknod(c)
    [] c.req.op = "MKDIR" -> do_mkdir(c)
    [] c.req.op = "SYMLINK" -> do_symlink(c)
    [] c.req.op = "CREATE" -> do_create(c)
    [] c.req.op = "OPEN" -> do_open(c)
    [] c.req.op = "READ" -> do_read(c)
    [] c.req.op = "WRITE" -> do_write_buf(c)
    [] c.req.op = "FLUSH" -> do_flush(c)
    [] c.req.op = "RELEASE" -> do_release(c)
    [] c.req.op = "FSYNC" -> do_fsync(c)
    [] c.req.op = "OPENDIR" -> do_opendir(c)
    [] c.req.op = "READDIR" -> do_readdir(c)
    [] c.req.op = "READDIRPLUS" -> do_readdirplus(c)
    [] c.req.op = "RELEASEDIR" -> do_releasedir(c)
    [] c.req.op = "FSYNCDIR" -> do_fsyncdir(c)
    [] c.req.op = "STATFS" -> do_statfs(c)
    [] c.req.op = "SETXATTR" -> do_setxattr(c)
    [] c.req.op = "GETXATTR" -> do_getxattr(c)
    [] c.req.op = "LISTXATTR" -> do_listxattr(c)
    [] c.req.op = "REMOVEXATTR" -> do_removexattr(c)
    [] c.req.op = "GETLK" -> do_getlk(c)
    [] c.req.op = "SETLK" -> do_setlk(c)
    [] c.req.op = "SETLKW" -> do_setlkw(c)
    [] c.req.op = "BMAP" -> do_bmap(c)
    [] c.req.op = "IOCTL" -> do_ioctl(c)
    [] c.req.op = "POLL" -> do_poll(c)
    [] c.req.op = "FALLOCATE" -> do_fallocate(c)

---------------------------------------------------------------------------
(* From the device to the handler *)

\* A request whose header cannot be read is dropped, with the pipe.
Dropped(c) == [c EXCEPT !.io = fuse_ll_clear_pipe(@), !.kind = "dropped"]
HeadIn(c) == IF c.io.res < 0 THEN Dropped(c) ELSE c

\* The read() fallback has left the flag and the descriptor of an earlier request in the
\* buffer, and this one is taken from there: the descriptor is closed, or a new and empty
\* pipe's, and the copy fails; or it is another file's by now (stray), and what its bytes
\* make the library do is not followed.
Stale(c) ==
  IF c.env.stray THEN [c EXCEPT !.io.ended = TRUE, !.kind = "stray"] ELSE Dropped(c)

WithHead(c) ==
  IF c.in = "stale" THEN Stale(c)
  ELSE IF c.in # "fd" THEN c
  ELSE IF ~c.env.hmem THEN Dropped(c)
  ELSE HeadIn([c EXCEPT !.head = SubSeq(c.io.bytes, 1, HEADER), !.io = CopyFromPipe(@, HEADER)])

\* What fails now can be answered.
Cleared(c) == IF c.in = "fd" THEN [c EXCEPT !.io = fuse_ll_clear_pipe(@)] ELSE c
Refuse(c, e) == Cleared(fuse_reply_err(c, e))

\* Without memory for the request ENOMEM is sent all the same.
NoRequest(c) == Cleared([c EXCEPT !.kind = "noreq"])

\* The kinds of a request that no handler has seen.
Unhandled == {"dropped", "ended", "stray", "noreq"}

\* allow_root keeps other users out, but not from what they have open.
Barred(c) ==
  /\ c.conf.allow_root /\ c.req.stranger
  /\ c.req.op \notin {"READ", "WRITE", "FSYNC", "RELEASE", "READDIR", "FSYNCDIR",
                      "RELEASEDIR", "READDIRPLUS"}

\* The session has had its INIT.
Admitted(c) ==
  IF c.kind # "none" THEN c
  ELSE IF ~c.env.rqmem THEN NoRequest(c)
  ELSE IF c.req.op = "INIT" THEN Refuse(c, EIO)
  ELSE IF Barred(c) THEN Refuse(c, EACCES)
  ELSE IF c.req.op = "UNKNOWN" THEN Refuse(c, ENOSYS)
  ELSE c

\* Only the data of a write may stay in the pipe.
RestIn(c) == IF c.io.res < 0 THEN Refuse(c, c.io.res) ELSE [c EXCEPT !.in = "mem"]
WithRest(c) ==
  IF c.in # "fd" \/ c.req.op = "WRITE" \/ c.kind # "none" THEN c
  ELSE IF ~c.env.mem THEN Refuse(c, ENOMEM)
  ELSE RestIn([c EXCEPT !.io = CopyFromPipe(@, c.req.len)])

Dispatch(c) == IF c.kind = "none" THEN fuse_ll_ops(c) ELSE c
fuse_session_process_buf_int(c) == Dispatch(WithRest(Admitted(WithHead(c))))

Arrived(c, r) ==
  IF r.in = "none" THEN [c EXCEPT !.io = r.io, !.kind = "ended", !.in = "none"]
  ELSE [c EXCEPT !.io = r.io, !.in = r.in,
                 !.head = IF r.in = "mem" THEN SubSeq(r.got, 1, HEADER) ELSE <<>>]
receive_and_process(c) ==
  fuse_session_process_buf_int(
    Arrived(c, fuse_session_receive_buf_int(c.io, Bytes(c.env.u, "q", 0, c.req.len),
                                            c.env.rmem, c.conf.splice, c.conf.bufsize)))
=============================================================================
