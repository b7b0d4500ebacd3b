------------------------------ MODULE NosqlFS ------------------------------
(***************************************************************************)
(* The FUSE handlers of nosqlFS.c, run by several worker threads over the   *)
(* host file system.  Every handler forwards its path to the host's system  *)
(* calls and turns their result into the value libfuse sends to the kernel; *)
(* log_syscall of log.c does the conversion from -1/errno to -errno.        *)
(*                                                                          *)
(* A handler with one system call is one action: the rest of it is local to *)
(* its thread.  open, mknod, read, write and readdir make several calls,    *)
(* and other threads run between them.  The host is external: a call fails  *)
(* with an errno its state forces, or with one of HostErrors at any time;   *)
(* readdir(3), closedir and close too, whose results the handlers drop.     *)
(* Nothing is assumed of libfuse's locks, which are FuseTree's subject: any *)
(* handler may run beside any other, on the same path too.                  *)
(***************************************************************************)
EXTENDS Integers, FiniteSets

CONSTANTS Threads,     \* worker threads of fuse_session_loop_mt
          Paths,       \* the paths requests name (all in one directory)
          Inodes,      \* inodes the host can allocate
          Kind,        \* the kind of file each inode is used for
          NoInode,     \* a path that names nothing, a closed descriptor
          NoPath,      \* the path of a thread that runs no handler
          MaxFd,       \* highest descriptor the process may open (EMFILE above)
          HostErrors   \* errnos the host may return whatever its state

EPERM  == 1
ENOENT == 2
EBADF  == 9
EEXIST == 17
EINVAL == 22  \* stands for every errno of a file of the wrong kind
EMFILE == 24
ENOSPC == 28

ASSUME ThreadsAssumption == Threads # {}
ASSUME NoneAssumption    == NoInode \notin Inodes /\ NoPath \notin Paths
ASSUME KindAssumption    == Kind \in [Inodes -> {"reg", "dir", "lnk", "spc"}]
ASSUME MaxFdAssumption   == MaxFd \in Nat /\ MaxFd >= 3
ASSUME ErrnoAssumption   == HostErrors \subseteq Nat \ {0}

\* Descriptors 0, 1 and 2 are taken (fuse_daemonize dups /dev/null on them).
Fds == 3 .. MaxFd

VARIABLES dir,   \* host: the inode each path names, or NoInode
          fdt,   \* process: the inode each descriptor refers to, or NoInode
          call,  \* the handler each thread is in the middle of
          last   \* what the handler that ended in the last step returned

vars == <<dir, fdt, call, last>>

OneCall == {"getattr", "access", "readlink", "mkdir", "unlink", "rmdir", "symlink",
            "rename", "rename_exchange", "link", "chmod", "chown", "truncate", "statfs"}
MultiCall == {"readdir", "mknod", "open", "read", "write"}
RenameFlags == {"none", "exchange"}

\* The name under which a rename request is remembered in last.
RenameOp == [none |-> "rename", exchange |-> "rename_exchange"]

NoCall == [op |-> "none", at |-> "idle", path |-> NoPath, fd |-> -1,
           ret |-> 0, sys |-> 0, logged |-> TRUE, lost |-> FALSE]

\* No handler ended in the last step.
NoResult == [op |-> "none", ret |-> 0, sys |-> 0, logged |-> TRUE, lost |-> FALSE]

Errnos  == HostErrors \cup {EPERM, ENOENT, EBADF, EEXIST, EINVAL, EMFILE, ENOSPC}
Results == {-e : e \in Errnos} \cup {0, 1}

\* Types: a handler returns a negated errno or a count, never a positive errno, and its
\* descriptor is one of the process or what a failed open() was converted to.
TypeOK ==
  /\ dir \in [Paths -> Inodes \cup {NoInode}]
  /\ fdt \in [Fds -> Inodes \cup {NoInode}]
  /\ call \in [Threads -> [op : MultiCall \cup {"none"},
                           at : {"idle", "io", "loop", "close"},
                           path : Paths \cup {NoPath},
                           fd : Fds \cup {-e : e \in Errnos}, ret : Results,
                           sys : Errnos \cup {0}, logged : BOOLEAN, lost : BOOLEAN]]
  /\ last \in [op : OneCall \cup MultiCall \cup {"none"}, ret : Results,
               sys : Errnos \cup {0}, logged : BOOLEAN, lost : BOOLEAN]

---------------------------------------------------------------------------
(* log.c *)

\* What errno holds after log_error's log_msg: what it was, or the errno of the
\* failed write to the log file (log_error, unlike log_retstat, does not save it).
ErrnoAfterLog(e) == {e, ENOSPC}

\* Mutant: the errno is returned without its sign.
log_syscall_Positive(r, c) == IF r < 0 THEN c ELSE r

\* Mutant: the -1 of the system call is returned as it is.
log_syscall_Raw(r, c) == r

\* log_syscall(func, retstat, 0), with c the errno left by log_error.
log_syscall(r, c) == IF r < 0 THEN -c ELSE r

---------------------------------------------------------------------------
(* The host's system calls: the errnos its state forces on each. *)

Exists(p) == dir[p] # NoInode
KindOf(p) == Kind[dir[p]]
FreeInodes(k) == {i \in Inodes : /\ Kind[i] = k
                                 /\ \A p \in Paths : dir[p] # i
                                 /\ \A f \in Fds : fdt[f] # i}
FreeFds == {f \in Fds : fdt[f] = NoInode}

ErrIf(cond, e) == IF cond THEN {e} ELSE {}

AbsentErr(p) == ErrIf(~Exists(p), ENOENT)
CreateErr(q, k) == ErrIf(Exists(q), EEXIST) \cup ErrIf(FreeInodes(k) = {}, ENOSPC)
unlinkErr(p) == IF Exists(p) THEN ErrIf(KindOf(p) = "dir", EINVAL) ELSE {ENOENT}
rmdirErr(p)  == IF Exists(p) THEN ErrIf(KindOf(p) # "dir", EINVAL) ELSE {ENOENT}
readlinkErr(p) == IF Exists(p) THEN ErrIf(KindOf(p) # "lnk", EINVAL) ELSE {ENOENT}
truncateErr(p) == IF Exists(p) THEN ErrIf(KindOf(p) # "reg", EINVAL) ELSE {ENOENT}
renameErr(p, q) ==
  IF Exists(p)
  THEN ErrIf(Exists(q) /\ (KindOf(p) = "dir") # (KindOf(q) = "dir"), EINVAL)
  ELSE {ENOENT}
\* The kernel follows symbolic links and opens special files itself: a request to open
\* one comes only when the name has just changed hands, and the link may dangle.
openErr(p, flags) ==
  ErrIf(FreeFds = {}, EMFILE) \cup
  IF Exists(p)
  THEN ErrIf(KindOf(p) \in {"lnk", "spc"} \/ (KindOf(p) = "dir" /\ flags = "wr"), EINVAL)
  ELSE {ENOENT}
opendirErr(p) ==
  ErrIf(FreeFds = {}, EMFILE) \cup
  IF Exists(p) THEN ErrIf(KindOf(p) # "dir", EINVAL) ELSE {ENOENT}

\* open() hands out the lowest free descriptor.
LowestFd(f) == f \in FreeFds /\ \A g \in FreeFds : f <= g

\* A new inode of the given kind at q.
MakeInode(q, k) ==
  \E i \in FreeInodes(k) :
    dir' = [dir EXCEPT ![q] = i]

---------------------------------------------------------------------------
(* Handlers with one system call *)

Idle(t) == call[t].at = "idle"

\* A handler returns r to libfuse.  sys is the errno of the first host call that failed
\* for it, of those whose result it keeps (0: none did), logged whether the log file took
\* the error message, lost whether a call failed whose result it drops.
Ended(op, r, e, ok, l) ==
  last' = [op |-> op, ret |-> r, sys |-> e, logged |-> ok, lost |-> l]
Return(op, r, e, ok) == Ended(op, r, e, ok, FALSE)

\* A handler that is one log_syscall(...) around one host call: the call fails with
\* an errno and changes nothing, or takes effect and returns 0.
OneSyscall(t, op, errs, Effect) ==
  /\ Idle(t)
  /\ \/ \E e \in errs \cup HostErrors : \E c \in ErrnoAfterLog(e) :
          Return(op, log_syscall(-1, c), e, c = e) /\ UNCHANGED dir
     \/ errs = {} /\ Effect /\ Return(op, log_syscall(0, 0), 0, TRUE)
  /\ UNCHANGED <<fdt, call>>

Nothing == UNCHANGED dir

nosqlFS_getattr(t, p) == OneSyscall(t, "getattr", AbsentErr(p), Nothing)
nosqlFS_statfs(t, p)  == OneSyscall(t, "statfs", AbsentErr(p), Nothing)
nosqlFS_chmod(t, p)   == OneSyscall(t, "chmod", AbsentErr(p), Nothing)
nosqlFS_chown(t, p)   == OneSyscall(t, "chown", AbsentErr(p), Nothing)

\* access() is not logged: -errno is returned at once.
nosqlFS_access(t, p) ==
  /\ Idle(t)
  /\ \/ \E e \in AbsentErr(p) \cup HostErrors : Return("access", -e, e, TRUE)
     \/ AbsentErr(p) = {} /\ Return("access", 0, 0, TRUE)
  /\ UNCHANGED <<dir, fdt, call>>

\* A positive length is turned into 0 once the terminator is in place.
nosqlFS_readlink(t, p) ==
  OneSyscall(t, "readlink", readlinkErr(p), Nothing)

nosqlFS_mkdir(t, p) == OneSyscall(t, "mkdir", CreateErr(p, "dir"), MakeInode(p, "dir"))

nosqlFS_symlink(t, q) == OneSyscall(t, "symlink", CreateErr(q, "lnk"), MakeInode(q, "lnk"))

nosqlFS_unlink(t, p) ==
  OneSyscall(t, "unlink", unlinkErr(p), dir' = [dir EXCEPT ![p] = NoInode])

nosqlFS_rmdir(t, p) ==
  OneSyscall(t, "rmdir", rmdirErr(p), dir' = [dir EXCEPT ![p] = NoInode])

\* rename(from, to): replaces the target, and does nothing when both name one inode.
HostRename(p, q) ==
  dir' = IF dir[p] = dir[q] THEN dir ELSE [dir EXCEPT ![q] = dir[p], ![p] = NoInode]

\* flags is logged and otherwise ignored.
nosqlFS_rename(t, p, q, flags) ==
  OneSyscall(t, RenameOp[flags], renameErr(p, q), HostRename(p, q))

nosqlFS_link(t, p, q) ==
  OneSyscall(t, "link",
             AbsentErr(p) \cup ErrIf(Exists(q), EEXIST)
               \cup ErrIf(Exists(p) /\ KindOf(p) = "dir", EPERM),
             dir' = [dir EXCEPT ![q] = dir[p]])

nosqlFS_truncate(t, p) == OneSyscall(t, "truncate", truncateErr(p), Nothing)

---------------------------------------------------------------------------
(* Handlers with several system calls *)

\* The thread goes on with descriptor fd, stopping before its next host call.
Continue(t, op, at, p, fd, r, e, ok) ==
  /\ call' = [call EXCEPT ![t] = [op |-> op, at |-> at, path |-> p, fd |-> fd,
                               ret |-> r, sys |-> e, logged |-> ok, lost |-> FALSE]]
  /\ last' = NoResult

\* A host open() that succeeds: the lowest free descriptor refers to the file.
OpenOK(t, op, at, p) ==
  \E f \in FreeFds :
    /\ LowestFd(f)
    /\ fdt' = [fdt EXCEPT ![f] = dir[p]]
    /\ Continue(t, op, at, p, f, 0, 0, TRUE)
    /\ UNCHANGED dir

\* nosqlFS_open calls log_fi before it looks at errno; read and write look at once.
ErrnoAfterOpen(op, c) == IF op = "open" THEN ErrnoAfterLog(c) ELSE {c}

\* A host open() that fails with e: log_syscall returns -c, which the handlers then
\* compare with -1.  Only errno 1 passes for -1.
OpenFailed(t, op, at, p, e, c) ==
  /\ IF log_syscall(-1, c) = -1
     THEN /\ \E d \in ErrnoAfterOpen(op, c) : Return(op, -d, e, d = e)
          /\ UNCHANGED call
     ELSE Continue(t, op, at, p, log_syscall(-1, c), 0, e, c = e)
  /\ UNCHANGED <<dir, fdt>>

\* open(path, flags): ends in close(retstat) and 0 unless retstat is -1.
nosqlFS_open(t, p, flags) ==
  /\ Idle(t)
  /\ \/ openErr(p, flags) = {} /\ OpenOK(t, "open", "close", p)
     \/ \E e \in openErr(p, flags) \cup HostErrors : \E c \in ErrnoAfterLog(e) :
          OpenFailed(t, "open", "close", p, e, c)

\* read and write open the path again for every request: fi->fh is not used.
nosqlFS_read(t, p) ==
  /\ Idle(t)
  /\ \/ openErr(p, "rd") = {} /\ OpenOK(t, "read", "io", p)
     \/ \E e \in openErr(p, "rd") \cup HostErrors : \E c \in ErrnoAfterLog(e) :
          OpenFailed(t, "read", "io", p, e, c)

nosqlFS_write(t, p) ==
  /\ Idle(t)
  /\ \/ openErr(p, "wr") = {} /\ OpenOK(t, "write", "io", p)
     \/ \E e \in openErr(p, "wr") \cup HostErrors : \E c \in ErrnoAfterLog(e) :
          OpenFailed(t, "write", "io", p, e, c)

IsOpen(fd) == fd \in Fds /\ fdt[fd] # NoInode

\* pread and pwrite fail with EBADF on a descriptor that is not open (a negative one
\* never is), and must fail on a directory's.
ioErr(fd) == IF IsOpen(fd) THEN ErrIf(Kind[fdt[fd]] = "dir", EINVAL) ELSE {EBADF}
ioErrs(fd) == ioErr(fd) \cup IF IsOpen(fd) THEN HostErrors ELSE {}

FirstErr(sys, e) == IF sys = 0 THEN e ELSE sys

\* pread or pwrite, logged; its result, a byte count (0 at the end of the file) or an
\* error, is what the handler will return.
Transfer(t, op) ==
  LET c0 == call[t] IN
  /\ c0.at = "io" /\ c0.op = op
  /\ \/ \E e \in ioErrs(c0.fd) : \E c \in ErrnoAfterLog(e) :
          Continue(t, op, "close", c0.path, c0.fd, log_syscall(-1, c),
                   FirstErr(c0.sys, e), c0.logged /\ c = e)
     \/ /\ ioErr(c0.fd) = {}
        /\ \E n \in 0 .. 1 : Continue(t, op, "close", c0.path, c0.fd, log_syscall(n, 0),
                                      c0.sys, c0.logged)
  /\ UNCHANGED <<dir, fdt>>

nosqlFS_read_pread(t)   == Transfer(t, "read")
nosqlFS_write_pwrite(t) == Transfer(t, "write")

\* The end of nosqlFS_mknod: -errno for -1, and 0 for everything else.
mknod_tail(r, c, e, ok) == Return("mknod", IF r = -1 THEN -c ELSE 0, e, ok)

\* mknod of a regular file creates it with open(O_CREAT | O_EXCL) and closes it.
nosqlFS_mknod_reg(t, p) ==
  /\ Idle(t)
  /\ \/ /\ CreateErr(p, "reg") = {} /\ FreeFds # {}
        /\ MakeInode(p, "reg")
        /\ \E f \in FreeFds : /\ LowestFd(f)
                              /\ fdt' = [fdt EXCEPT ![f] = dir'[p]]
                              /\ Continue(t, "mknod", "close", p, f, 0, 0, TRUE)
     \/ /\ \E e \in CreateErr(p, "reg") \cup ErrIf(FreeFds = {}, EMFILE) \cup HostErrors :
             \E c \in ErrnoAfterLog(e) : mknod_tail(log_syscall(-1, c), c, e, c = e)
        /\ UNCHANGED <<dir, fdt, call>>

\* mkfifo and mknod, for the other kinds of node.
nosqlFS_mknod_special(t, p) ==
  /\ Idle(t)
  /\ \/ \E e \in CreateErr(p, "spc") \cup HostErrors : \E c \in ErrnoAfterLog(e) :
          mknod_tail(log_syscall(-1, c), c, e, c = e) /\ UNCHANGED dir
     \/ CreateErr(p, "spc") = {} /\ MakeInode(p, "spc") /\ mknod_tail(0, 0, 0, TRUE)
  /\ UNCHANGED <<fdt, call>>

\* opendir takes a descriptor; its failure goes through log_error alone.
nosqlFS_readdir(t, p) ==
  /\ Idle(t)
  /\ \/ opendirErr(p) = {} /\ OpenOK(t, "readdir", "loop", p)
     \/ /\ \E e \in opendirErr(p) \cup HostErrors : \E c \in ErrnoAfterLog(e) :
             Return("readdir", -c, e, c = e)
        /\ UNCHANGED <<dir, fdt, call>>

\* The loop over readdir(3) and filler ends at the end of the directory, at a full buffer,
\* or at a readdir(3) that fails, which the code takes for the end: errno is not looked at.
nosqlFS_readdir_loop(t) ==
  /\ call[t].at = "loop"
  /\ \E l \in BOOLEAN :
       /\ l => HostErrors # {}
       /\ call' = [call EXCEPT ![t].at = "close", ![t].lost = l]
  /\ last' = NoResult
  /\ UNCHANGED <<dir, fdt>>

\* close(fd) and closedir: nothing happens to a descriptor that is not open; the host
\* frees one that is even when it reports an error.
CloseFd(fd) == fdt' = IF fd \in Fds THEN [fdt EXCEPT ![fd] = NoInode] ELSE fdt

\* Whether a close whose result is dropped may have failed (l) or succeeded.
CloseMay(fd, l) == IF l THEN IsOpen(fd) => HostErrors # {} ELSE IsOpen(fd)

\* Mutant: the descriptor is not closed, as in a file system that keeps it in fi->fh.
nosqlFS_open_close_Leak(t) ==
  /\ call[t].at = "close" /\ call[t].op = "open"
  /\ Return("open", 0, call[t].sys, call[t].logged)
  /\ call' = [call EXCEPT ![t] = NoCall]
  /\ UNCHANGED <<dir, fdt>>

\* The end of nosqlFS_open: close(retstat), whatever it is and whatever comes of it, and 0.
nosqlFS_open_close(t) ==
  /\ call[t].at = "close" /\ call[t].op = "open"
  /\ CloseFd(call[t].fd)
  /\ \E l \in BOOLEAN : /\ CloseMay(call[t].fd, l)
                       /\ Ended("open", 0, call[t].sys, call[t].logged, l)
  /\ call' = [call EXCEPT ![t] = NoCall]
  /\ UNCHANGED dir

\* Mutant: the result of close takes the place of the handler's.
nosqlFS_io_close_Result(t) ==
  /\ call[t].at = "close" /\ call[t].op \in {"read", "write", "readdir"}
  /\ CloseFd(call[t].fd)
  /\ \E l \in BOOLEAN : /\ CloseMay(call[t].fd, l)
                       /\ Ended(call[t].op, IF l THEN -EPERM ELSE call[t].ret, call[t].sys,
                                call[t].logged, call[t].lost \/ l)
  /\ call' = [call EXCEPT ![t] = NoCall]
  /\ UNCHANGED dir

\* The end of nosqlFS_read, nosqlFS_write and nosqlFS_readdir: close, whose result is
\* dropped, and the handler's.
nosqlFS_io_close(t) ==
  /\ call[t].at = "close" /\ call[t].op \in {"read", "write", "readdir"}
  /\ CloseFd(call[t].fd)
  /\ \E l \in BOOLEAN : /\ CloseMay(call[t].fd, l)
                       /\ Ended(call[t].op, call[t].ret, call[t].sys, call[t].logged,
                                call[t].lost \/ l)
  /\ call' = [call EXCEPT ![t] = NoCall]
  /\ UNCHANGED dir

\* The close in nosqlFS_mknod is logged, and its result kept.
nosqlFS_mknod_close(t) ==
  /\ call[t].at = "close" /\ call[t].op = "mknod"
  /\ CloseFd(call[t].fd)
  /\ \/ \E e \in HostErrors : \E c \in ErrnoAfterLog(e) :
          mknod_tail(log_syscall(-1, c), c, e, c = e)
     \/ mknod_tail(log_syscall(0, 0), 0, 0, TRUE)
  /\ call' = [call EXCEPT ![t] = NoCall]
  /\ UNCHANGED dir

---------------------------------------------------------------------------

\* Another process of the host changes a name: the handlers serve the live tree.
Outside(p) ==
  /\ \/ Exists(p) /\ dir' = [dir EXCEPT ![p] = NoInode]
     \/ ~Exists(p) /\ MakeInode(p, "reg")
  /\ last' = NoResult
  /\ UNCHANGED <<fdt, call>>

Init ==
  /\ dir = [p \in Paths |-> NoInode]
  /\ fdt = [f \in Fds |-> NoInode]
  /\ call = [t \in Threads |-> NoCall]
  /\ last = NoResult

\* The handlers of nosqlFS_oper that take one path.
PathRequest(t, p) ==
  \/ nosqlFS_getattr(t, p)  \/ nosqlFS_access(t, p)   \/ nosqlFS_readlink(t, p)
  \/ nosqlFS_readdir(t, p)  \/ nosqlFS_mknod_reg(t, p) \/ nosqlFS_mknod_special(t, p)
  \/ nosqlFS_mkdir(t, p)    \/ nosqlFS_symlink(t, p)  \/ nosqlFS_unlink(t, p)
  \/ nosqlFS_rmdir(t, p)    \/ nosqlFS_chmod(t, p)    \/ nosqlFS_chown(t, p)
  \/ nosqlFS_truncate(t, p) \/ nosqlFS_read(t, p)     \/ nosqlFS_write(t, p)
  \/ nosqlFS_statfs(t, p)
  \/ \E flags \in {"rd", "wr"} : nosqlFS_open(t, p, flags)

Progress(t) ==
  \/ nosqlFS_read_pread(t) \/ nosqlFS_write_pwrite(t) \/ nosqlFS_readdir_loop(t)
  \/ nosqlFS_open_close(t) \/ nosqlFS_io_close(t) \/ nosqlFS_mknod_close(t)

Next ==
  \/ \E t \in Threads : \E p \in Paths : PathRequest(t, p)
  \/ \E t \in Threads : \E p \in Paths : \E q \in Paths \ {p} :
       \/ nosqlFS_link(t, p, q)
       \/ \E flags \in RenameFlags : nosqlFS_rename(t, p, q, flags)
  \/ \E t \in Threads : Progress(t)
  \/ \E p \in Paths : Outside(p)

Spec == Init /\ [][Next]_vars

---------------------------------------------------------------------------
(* Properties *)

Holds(t, f) == ~Idle(t) /\ call[t].fd = f

\* Every open descriptor is held by exactly one handler that is still running, and
\* a handler's descriptor stays open until it closes it itself: no path through
\* open, mknod, read, write and readdir leaks a descriptor, closes one twice or
\* closes another thread's, although a failed open leaves a negated errno in fd.
FdsOwned ==
  /\ \A f \in Fds : fdt[f] # NoInode => \E t \in Threads : Holds(t, f)
  /\ \A t \in Threads, f \in Fds : Holds(t, f) => fdt[f] # NoInode
  /\ \A t, u \in Threads, f \in Fds : Holds(t, f) /\ Holds(u, f) => t = u

\* What the record of a handler between two host calls says, the strengthening that
\* makes FdsOwned and FailureReportedByOthers inductive.
CallInv ==
  \A t \in Threads :
    /\ Idle(t) <=> call[t].op = "none"
    /\ ~Idle(t) => call[t].path \in Paths
    /\ call[t].at = "io" => /\ call[t].op \in {"read", "write"}
                            /\ call[t].fd \in Fds <=> call[t].sys = 0
    /\ call[t].at = "loop" => call[t].op = "readdir"
    /\ \/ call[t].at = "loop"
       \/ call[t].at = "close" /\ call[t].op \in {"read", "write", "readdir"}
       => (call[t].ret < 0 <=> call[t].sys # 0)

\* The handlers that compare a value log_syscall has already converted with -1.
Masking == {"open", "mknod"}

\* Whatever the interleaving and even when the log cannot be written, every handler
\* other than open and mknod returns a negative value exactly when a host call it made
\* has failed whose result it keeps: read and write recover from their own missed -1 test
\* because the next call on the bogus descriptor fails.  The results of readdir(3),
\* closedir and the final close are dropped: their failures, which only the handlers with
\* a descriptor can meet, never show in what the handler returns.
FailureReportedByOthers ==
  /\ last.op \notin Masking => (last.ret < 0 <=> last.sys # 0)
  /\ last.lost => last.op \in {"open", "read", "write", "readdir"}

\* When the log takes the message, a handler built on one log_syscall returns the negated
\* errno of its own call, and readdir that of its opendir; for read and write this holds
\* when open succeeded, and a failed open is reported as itself or as EBADF.  A failure of
\* readdir(3), closedir or close takes no other's place.
ErrorCodeKept ==
  last.logged /\ last.sys # 0 =>
    /\ last.op \in OneCall \cup {"readdir"} => last.ret = -last.sys
    /\ last.op \in {"read", "write"} => last.ret \in {-last.sys, -EBADF}

\* The strengthening that makes ErrorCodeKept inductive: the same of a handler that has
\* its result and has not closed its descriptor yet.
CodeInv ==
  \A t \in Threads :
    /\ \/ call[t].at = "loop"
       \/ call[t].at = "close" /\ call[t].op \in {"read", "write", "readdir"}
    /\ call[t].logged /\ call[t].sys # 0
    => call[t].op # "readdir" /\ call[t].ret \in {-call[t].sys, -EBADF}

\* fuse.h: "the operation should return the negated error value (-errno) directly".
\* Not so for open and mknod: log_syscall has turned -1 into -errno before they test
\* for -1, and they return 0 for every failure but EPERM.
FailureReported == last.logged => (last.ret < 0 <=> last.sys # 0)

====
