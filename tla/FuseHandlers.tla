--------------------------- MODULE FuseHandlers ---------------------------
(***************************************************************************)
(* fuse_lib_* of fuse.c: what the path layer does with each request, from   *)
(* the path to the answer, and do_* of fuse_lowlevel.c, which hands it the  *)
(* request.  Reading a directory is in FuseDir.                             *)
(***************************************************************************)
EXTENDS FuseCalls

\* auto_cache: attributes that differ from the node's end what the kernel may keep.
\* Mutant: the attributes are recorded without a look at the old ones.
update_stat_Blind(c) ==
  [c EXCEPT !.cache = [valid |-> @.valid, ver |-> c.env.ver, recent |-> TRUE]]

update_stat(c) ==
  [c EXCEPT !.cache = [valid |-> @.valid /\ @.ver = c.env.ver, ver |-> c.env.ver,
                       recent |-> TRUE]]
AutoStat(c) == IF c.err = 0 /\ c.conf.auto THEN update_stat(c) ELSE c

\* find_node, with a new node's memory, or get_node without a name: one more lookup for the
\* kernel to forget.
do_lookup(c) ==
  Unless(c, IF c.env.node \/ c.req.dot # "" THEN AutoStat([c EXCEPT !.look = @ + 1, !.ino = TRUE])
            ELSE Fails(c, ENOMEM))

forget_node(c) == [c EXCEPT !.look = @ - 1]

lookup_path(c, fi) ==
  do_lookup(IF fi THEN fuse_fs_fgetattr(c) ELSE fuse_fs_getattr(c))

reply_entry(c) ==
  IF c.err # 0 THEN reply_err(c)
  ELSE IF Refused(c) /\ c.ino THEN forget_node(fuse_reply_entry(c))
  ELSE fuse_reply_entry(c)

Negative(c) ==
  IF c.err = ENOENT /\ c.conf.negative THEN [c EXCEPT !.err = 0, !.ino = FALSE] ELSE c
LookupCalls(c) == Negative(lookup_path(c, FALSE))

\* "." asks for a node by its number alone, which may be forgotten; ".." for a node's parent.
\* The reference that keeps dot's node while its path is used is left out.
fuse_lib_lookup(c) ==
  IF c.req.dot = "." /\ ~c.env.known THEN reply_entry(Fails(c, ESTALE))
  ELSE reply_entry(WithPath(get_path_name(c), LookupCalls))

fuse_lib_forget(c) == fuse_reply_none([c EXCEPT !.look = -c.req.n])
fuse_lib_forget_multi(c) == fuse_reply_none([c EXCEPT !.look = -c.req.n])

---------------------------------------------------------------------------
(* Attributes *)

Attr(c) == IF c.req.fi THEN fuse_fs_fgetattr(c) ELSE fuse_fs_getattr(c)
ReplyAttr(c) == IF c.err = 0 THEN fuse_reply_attr(AutoStat(c)) ELSE reply_err(c)

fuse_lib_getattr(c) ==
  ReplyAttr(WithPath(IF c.req.fi /\ Registered(c, "fgetattr")
                     THEN get_path_nullok(c) ELSE get_path(c), Attr))

If(c, what, Call(_)) == IF what \in c.req.valid THEN Call(c) ELSE c
Truncate(c) == IF c.req.fi THEN fuse_fs_ftruncate(c) ELSE fuse_fs_truncate(c)

\* Mutant: an error of chown does not stop the request.
SetAttr_Goon(c) ==
  Attr(If(If(Fails(If(If(c, "mode", fuse_fs_chmod), "owner", fuse_fs_chown), 0),
             "size", Truncate), "time", fuse_fs_utimens))

SetAttr(c) ==
  Attr(If(If(If(If(c, "mode", fuse_fs_chmod), "owner", fuse_fs_chown),
             "size", Truncate), "time", fuse_fs_utimens))

\* Mutant: a change of more than the size is made without a path.
fuse_lib_setattr_AnySize(c) ==
  ReplyAttr(WithPath(IF /\ "size" \in c.req.valid /\ c.req.fi
                        /\ Registered(c, "ftruncate") /\ Registered(c, "fgetattr")
                     THEN get_path_nullok(c) ELSE get_path(c), SetAttr))

fuse_lib_setattr(c) ==
  ReplyAttr(WithPath(IF /\ c.req.valid = {"size"} /\ c.req.fi
                        /\ Registered(c, "ftruncate") /\ Registered(c, "fgetattr")
                     THEN get_path_nullok(c) ELSE get_path(c), SetAttr))

fuse_lib_access(c) == reply_err(WithPath(get_path(c), fuse_fs_access))

ReplyLink(c) == IF c.err = 0 THEN fuse_reply_readlink(c) ELSE reply_err(c)
fuse_lib_readlink(c) == ReplyLink(WithPath(get_path(c), fuse_fs_readlink))

---------------------------------------------------------------------------
(* New names *)

MkdirCalls(c) == lookup_path(fuse_fs_mkdir(c), FALSE)
fuse_lib_mkdir(c) == reply_entry(WithPath(get_path_name(c), MkdirCalls))

SymlinkCalls(c) == lookup_path(fuse_fs_symlink(c), FALSE)
fuse_lib_symlink(c) == reply_entry(WithPath(get_path_name(c), SymlinkCalls))

\* A regular file is created as by open, and released again.
CreateFile(c) == IF c.err # 0 THEN c ELSE Quiet(lookup_path(c, TRUE), fuse_fs_release)

Mknod(c) ==
  IF c.err = ENOSYS THEN lookup_path(fuse_fs_mknod(Fails(c, 0)), FALSE) ELSE c
MknodCalls(c) ==
  Mknod(IF c.req.isreg THEN CreateFile(fuse_fs_create(c)) ELSE Fails(c, ENOSYS))

fuse_lib_mknod(c) == reply_entry(WithPath(get_path_name(c), MknodCalls))

---------------------------------------------------------------------------
(* Open files.  A hidden file is removed with its last release: FuseTree.   *)

fuse_do_release(c) == [Quiet(c, fuse_fs_release) EXCEPT !.count = @ - 1]

NotRegular(c) == Fails(forget_node(Quiet(c, fuse_fs_release)), EIO)

Created(c) ==
  IF c.err # 0 THEN Quiet(c, fuse_fs_release)
  ELSE IF ~c.env.isreg THEN NotRegular(c)
  ELSE c
FindCreated(c) == IF c.err # 0 THEN c ELSE Created(lookup_path(c, TRUE))
CreateCalls(c) == FindCreated(fuse_fs_create(c))

CreateAnswer(c) ==
  IF c.err # 0 THEN reply_err(c)
  ELSE IF Refused(c)
  THEN forget_node(fuse_do_release(fuse_reply_create([c EXCEPT !.count = @ + 1])))
  ELSE fuse_reply_create([c EXCEPT !.count = @ + 1])

fuse_lib_create(c) == free_path(CreateAnswer(Within(get_path_name(c), CreateCalls)))

\* Mutant: an open that was interrupted is not cancelled.
OpenAnswer_Kept(c) ==
  IF c.err # 0 THEN reply_err(c) ELSE fuse_reply_open([c EXCEPT !.count = @ + 1])

OpenAnswer(c) ==
  IF c.err # 0 THEN reply_err(c)
  ELSE IF Refused(c) THEN fuse_do_release(fuse_reply_open([c EXCEPT !.count = @ + 1]))
  ELSE fuse_reply_open([c EXCEPT !.count = @ + 1])

\* The kernel may keep its pages of a file whose attributes were the same all along.
KeepCache(c) == [c EXCEPT !.keep = c.cache.valid, !.cache.valid = TRUE]
Rechecked(c, d) ==
  IF d.err = 0 THEN [update_stat(d) EXCEPT !.err = c.err]
  ELSE [d EXCEPT !.cache.valid = FALSE, !.err = c.err]
open_auto_cache(c) ==
  KeepCache(IF c.cache.valid /\ ~c.cache.recent
            THEN Rechecked(c, fuse_fs_fgetattr(Fails(c, 0))) ELSE c)
OpenCalls(c) == IF c.err = 0 /\ c.conf.auto THEN open_auto_cache(c) ELSE c
FsOpen(c) == OpenCalls(fuse_fs_open(c))

fuse_lib_open(c) == free_path(OpenAnswer(Within(get_path(c), FsOpen)))

ReplyData(c) == IF c.err = 0 THEN fuse_reply_data(c) ELSE reply_err(c)
fuse_lib_read(c) == ReplyData(WithPath(get_path_nullok(c), fuse_fs_read_buf))

ReplyWrite(c) == IF c.err >= 0 THEN fuse_reply_write(c) ELSE reply_err(c)
fuse_lib_write_buf(c) == ReplyWrite(WithPath(get_path_nullok(c), fuse_fs_write_buf))

fuse_lib_fsync(c) == reply_err(WithPath(get_path_nullok(c), fuse_fs_fsync))

\* The file system's locks go whatever its flush says; then the library's.
UnlockAll(c) == [c EXCEPT !.flock = NoFlock]
FlushLocks(c, d, errlock) ==
  IF errlock = ENOSYS THEN d
  ELSE [d EXCEPT !.locks = locks_insert(@, flock_to_lock(d.flock, c.req.owner), c.env.lkmem),
                 !.lost = @ \/ errlock # 0,
                 !.err = IF @ = ENOSYS THEN 0 ELSE @]
FlushDone(c, d) == FlushLocks(c, fuse_finish_interrupt([d EXCEPT !.err = c.err]), d.err)

FlushFs(c) == FlushDone(c, fuse_fs_lock(Fails(c, 0), "F_SETLK"))
fuse_flush_common(c) == FlushFs(fuse_fs_flush(UnlockAll(fuse_prepare_interrupt(c))))

fuse_lib_flush(c) == reply_err(free_path(fuse_flush_common(Fails(get_path_nullok(c), 0))))

NotENOSYS(c) == IF c.err = ENOSYS THEN Fails(c, 0) ELSE c
ReleaseCalls(c) == fuse_finish_interrupt(fuse_do_release(fuse_prepare_interrupt(c)))
fuse_lib_release(c) ==
  reply_err(free_path(ReleaseCalls(
    IF c.req.flush THEN NotENOSYS(fuse_flush_common(Fails(get_path_nullok(c), 0)))
    ELSE Fails(get_path_nullok(c), 0))))

fuse_lib_fallocate(c) == reply_err(WithPath(get_path_nullok(c), fuse_fs_fallocate))
fuse_lib_flock(c) == reply_err(WithPath(get_path_nullok(c), fuse_fs_flock))

ReplyBmap(c) == IF c.err = 0 THEN fuse_reply_bmap(c) ELSE reply_err(c)
fuse_lib_bmap(c) == ReplyBmap(WithPath(get_path(c), fuse_fs_bmap))

ReplyPoll(c) == IF c.err = 0 THEN fuse_reply_poll(c) ELSE reply_err(c)
fuse_lib_poll(c) == ReplyPoll(WithPath(get_path_nullok(c), fuse_fs_poll))

IoctlCalls(c) ==
  IF c.err # 0 THEN reply_err(c) ELSE fuse_reply_ioctl(WithPath(c, fuse_fs_ioctl))
fuse_lib_ioctl(c) ==
  IF c.req.unrestricted THEN fuse_reply_err(c, EPERM)
  ELSE IF c.req.out /\ ~c.env.mem THEN fuse_reply_err(c, ENOMEM)
  ELSE IoctlCalls(get_path_nullok(c))

---------------------------------------------------------------------------
(* POSIX locks *)

LockCommon(c, cmd) ==
  LET Call(d) == fuse_fs_lock(d, cmd) IN WithPath(get_path_nullok(c), Call)

ReplyLock(c) == IF c.err = 0 THEN fuse_reply_lock(c) ELSE reply_err(c)

\* The library's own record first; the file system only if that knows no conflict.
GetConflict(c, found) ==
  IF found = {} THEN LockCommon(c, "F_GETLK")
  ELSE [c EXCEPT !.flock = lock_to_flock(c.locks[CHOOSE i \in found : \A j \in found : i <= j])]
fuse_lib_getlk(c) ==
  ReplyLock(GetConflict(c, locks_conflict(c.locks, flock_to_lock(c.flock, c.req.owner))))

\* What the record lacks for want of memory is lost.
Recorded(c, lock) ==
  [c EXCEPT !.locks = locks_insert(@, lock, c.env.lkmem),
            !.lost = @ \/ (NeedsMemory(lock) /\ ~c.env.lkmem)]
SetAnswer(c) ==
  reply_err(IF c.err = 0 THEN Recorded(c, flock_to_lock(c.flock, c.req.owner)) ELSE c)
fuse_lib_setlk(c) == SetAnswer(LockCommon(c, "F_SETLK"))

---------------------------------------------------------------------------
(* The file system as a whole, and extended attributes *)

ReplyStatfs(c) == IF c.err = 0 THEN fuse_reply_statfs(c) ELSE reply_err(c)
fuse_lib_statfs(c) ==
  ReplyStatfs(WithPath(IF c.req.root THEN c ELSE get_path(c), fuse_fs_statfs))

fuse_lib_setxattr(c) == reply_err(WithPath(get_path(c), fuse_fs_setxattr))
fuse_lib_removexattr(c) == reply_err(WithPath(get_path(c), fuse_fs_removexattr))

common_getxattr(c) == WithPath(get_path(c), fuse_fs_getxattr)
common_listxattr(c) == WithPath(get_path(c), fuse_fs_listxattr)

\* With room for a value the value is answered, else its size.
ReplyValue(c) == IF c.err = 0 /\ c.val > 0 THEN fuse_reply_buf(c) ELSE reply_err(c)
ReplySize(c) == IF c.err = 0 THEN fuse_reply_xattr(c) ELSE reply_err(c)

fuse_lib_getxattr(c) ==
  IF ~c.req.room THEN ReplySize(common_getxattr(c))
  ELSE IF c.env.mem THEN ReplyValue(common_getxattr(c))
  ELSE fuse_reply_err(c, ENOMEM)
fuse_lib_listxattr(c) ==
  IF ~c.req.room THEN ReplySize(common_listxattr(c))
  ELSE IF c.env.mem THEN ReplyValue(common_listxattr(c))
  ELSE fuse_reply_err(c, ENOMEM)
=============================================================================
