--------------------------- MODULE NosqlFSProofs ---------------------------
(***************************************************************************)
(* Proofs about NosqlFS, for any number of threads, paths, inodes and       *)
(* descriptors and any set of host errors.                                  *)
(***************************************************************************)
EXTENDS NosqlFS, TLAPS

\* The errnos the model names are positive, so a negated one is never a descriptor.
LEMMA ErrnosPositive == Errnos \subseteq Nat \ {0}
BY ErrnoAssumption DEF Errnos, EPERM, ENOENT, EBADF, EEXIST, EINVAL, EMFILE, ENOSPC

LEMMA NegatedErrno == \A e \in Errnos : e # 0 /\ -e < 0
BY ErrnosPositive

LEMMA FdsArePositive ==
  /\ Fds \subseteq Nat
  /\ \A f \in Fds : f >= 3
  /\ \A e \in Errnos : -e \notin Fds
BY ErrnosPositive, MaxFdAssumption DEF Fds

\* Every errno a handler can meet is one of Errnos.
LEMMA ErrsAreErrnos ==
  ASSUME NEW p, NEW q, NEW k, NEW flags
  PROVE  /\ HostErrors \subseteq Errnos
         /\ AbsentErr(p) \subseteq Errnos       /\ CreateErr(q, k) \subseteq Errnos
         /\ unlinkErr(p) \subseteq Errnos       /\ rmdirErr(p) \subseteq Errnos
         /\ readlinkErr(p) \subseteq Errnos     /\ truncateErr(p) \subseteq Errnos
         /\ renameErr(p, q) \subseteq Errnos    /\ openErr(p, flags) \subseteq Errnos
         /\ opendirErr(p) \subseteq Errnos
         /\ ErrIf(FreeFds = {}, EMFILE) \subseteq Errnos
BY DEF Errnos, AbsentErr, CreateErr, unlinkErr, rmdirErr, readlinkErr, truncateErr,
       renameErr, openErr, opendirErr, ErrIf

\* log_syscall turns a failure into the negated errno and keeps a result.
LEMMA LogSyscall ==
  /\ \A c \in Errnos : log_syscall(-1, c) = -c /\ -c \in Results
  /\ \A c \in {0, 1} : log_syscall(c, 0) = c /\ c \in Results
  /\ \A e \in Errnos : ErrnoAfterLog(e) \subseteq Errnos
BY ErrnosPositive DEF log_syscall, Results, ErrnoAfterLog, Errnos

Dirs == [Paths -> Inodes \cup {NoInode}]

\* The records of handlers.
CallRec == [op : MultiCall \cup {"none"}, at : {"idle", "io", "loop", "close"},
            path : Paths \cup {NoPath}, fd : Fds \cup {-e : e \in Errnos},
            ret : Results, sys : Errnos \cup {0}, logged : BOOLEAN, lost : BOOLEAN]

\* A handler of one system call keeps the types if its effect on the directory does.
LEMMA OneSyscallType ==
  ASSUME TypeOK, NEW t \in Threads, NEW op \in OneCall, NEW errs \in SUBSET Errnos,
         NEW ACTION Effect, Effect => dir' \in Dirs,
         OneSyscall(t, op, errs, Effect)
  PROVE  TypeOK'
<1>1. errs \cup HostErrors \subseteq Errnos
  BY ErrsAreErrnos
<1>2. dir' \in Dirs
  BY DEF OneSyscall, TypeOK, Dirs
<1>3. last' \in [op : OneCall \cup MultiCall \cup {"none"}, ret : Results,
                 sys : Errnos \cup {0}, logged : BOOLEAN, lost : BOOLEAN]
  <2>1. CASE \E e \in errs \cup HostErrors : \E c \in ErrnoAfterLog(e) :
               Return(op, log_syscall(-1, c), e, c = e)
    BY <2>1, <1>1, LogSyscall DEF Return, Ended
  <2>2. CASE Return(op, log_syscall(0, 0), 0, TRUE)
    BY <2>2, LogSyscall DEF Return, Ended
  <2> QED BY <2>1, <2>2 DEF OneSyscall
<1> QED BY <1>2, <1>3 DEF OneSyscall, TypeOK, Dirs


\* The effects on the directory of the handlers that change it keep its type.
LEMMA EffectTypes ==
  ASSUME TypeOK, NEW p \in Paths, NEW q \in Paths
  PROVE  /\ Nothing => dir' \in Dirs
         /\ \A k : MakeInode(p, k) => dir' \in Dirs
         /\ dir' = [dir EXCEPT ![p] = NoInode] => dir' \in Dirs
         /\ HostRename(p, q) => dir' \in Dirs
         /\ dir' = [dir EXCEPT ![q] = dir[p]] => dir' \in Dirs
<1>1. dir \in Dirs
  BY DEF TypeOK, Dirs
<1>2. \A x \in Paths, i \in Inodes \cup {NoInode} : [dir EXCEPT ![x] = i] \in Dirs
  BY <1>1 DEF Dirs
<1>3. dir[p] \in Inodes \cup {NoInode}
  BY <1>1 DEF Dirs
<1>4. \A k : MakeInode(p, k) => dir' \in Dirs
  BY <1>2, ZenonT(30) DEF MakeInode, FreeInodes
<1>5. HostRename(p, q) => dir' \in Dirs
  <2>1. [dir EXCEPT ![q] = dir[p], ![p] = NoInode] \in Dirs
    BY <1>1, <1>3 DEF Dirs
  <2> QED BY <2>1, <1>1 DEF HostRename
<1> QED BY <1>1, <1>2, <1>3, <1>4, <1>5 DEF Nothing

\* Going on with a handler keeps the types.
LEMMA ContinueType ==
  ASSUME TypeOK, NEW t \in Threads, NEW op \in MultiCall, NEW at \in {"io", "loop", "close"},
         NEW p \in Paths \cup {NoPath}, NEW fd \in Fds \cup {-e : e \in Errnos},
         NEW r \in Results, NEW e \in Errnos \cup {0}, NEW ok \in BOOLEAN,
         Continue(t, op, at, p, fd, r, e, ok),
         dir' \in Dirs, fdt' \in [Fds -> Inodes \cup {NoInode}]
  PROVE  TypeOK'
BY DEF TypeOK, Continue, Dirs, NoResult, Results

\* Returning from a handler that had not stopped keeps the types.
LEMMA ReturnType ==
  ASSUME TypeOK, NEW op \in OneCall \cup MultiCall, NEW r \in Results,
         NEW e \in Errnos \cup {0}, NEW ok \in BOOLEAN, Return(op, r, e, ok),
         dir' \in Dirs, UNCHANGED <<fdt, call>>
  PROVE  TypeOK'
BY DEF TypeOK, Return, Ended, Dirs

\* A host open() keeps the types, whether it succeeds or fails.
LEMMA OpenType ==
  ASSUME TypeOK, NEW t \in Threads, NEW op \in MultiCall, NEW at \in {"io", "loop", "close"},
         NEW p \in Paths
  PROVE  /\ OpenOK(t, op, at, p) => TypeOK'
         /\ \A e \in Errnos : \A c \in ErrnoAfterLog(e) :
              OpenFailed(t, op, at, p, e, c) => TypeOK'
<1>1. ASSUME OpenOK(t, op, at, p) PROVE TypeOK'
  <2>1. PICK f \in FreeFds : /\ fdt' = [fdt EXCEPT ![f] = dir[p]]
                             /\ Continue(t, op, at, p, f, 0, 0, TRUE)
                             /\ UNCHANGED dir
    BY <1>1 DEF OpenOK
  <2>2. f \in Fds /\ dir[p] \in Inodes \cup {NoInode}
    BY DEF FreeFds, TypeOK
  <2>3. dir' \in Dirs /\ fdt' \in [Fds -> Inodes \cup {NoInode}]
    BY <2>1, <2>2 DEF TypeOK, Dirs
  <2>4. 0 \in Results
    BY DEF Results
  <2> QED BY <2>1, <2>2, <2>3, <2>4, ContinueType
<1>2. ASSUME NEW e \in Errnos, NEW c \in ErrnoAfterLog(e), OpenFailed(t, op, at, p, e, c)
      PROVE  TypeOK'
  <2>1. c \in Errnos /\ log_syscall(-1, c) = -c /\ -c \in Results
    BY LogSyscall
  <2>2. dir' \in Dirs /\ fdt' \in [Fds -> Inodes \cup {NoInode}]
    BY <1>2 DEF OpenFailed, TypeOK, Dirs
  <2>3. CASE /\ \E d \in ErrnoAfterOpen(op, c) : Return(op, -d, e, d = e)
             /\ UNCHANGED call
    <3>1. PICK d \in ErrnoAfterOpen(op, c) : Return(op, -d, e, d = e)
      BY <2>3
    <3>2. -d \in Results
      BY <2>1, LogSyscall DEF ErrnoAfterOpen
    <3> QED BY <2>2, <2>3, <3>1, <3>2, <1>2, ReturnType DEF OpenFailed
  <2>4. CASE Continue(t, op, at, p, -c, 0, e, c = e)
    <3>1. 0 \in Results /\ -c \in Fds \cup {-x : x \in Errnos}
      BY <2>1 DEF Results
    <3> QED BY <3>1, <2>2, <2>4, ContinueType
  <2> QED BY <2>1, <2>3, <2>4, <1>2 DEF OpenFailed
<1> QED BY <1>1, <1>2

\* Ending a handler that had stopped before its close keeps the types.
LEMMA CloseType ==
  ASSUME TypeOK, NEW t \in Threads, NEW op \in MultiCall, NEW r \in Results,
         NEW e \in Errnos \cup {0}, NEW ok \in BOOLEAN, NEW l \in BOOLEAN,
         CloseFd(call[t].fd), Ended(op, r, e, ok, l),
         call' = [call EXCEPT ![t] = NoCall], UNCHANGED dir
  PROVE  TypeOK'
<1>1. NoCall \in [op : MultiCall \cup {"none"}, at : {"idle", "io", "loop", "close"},
                  path : Paths \cup {NoPath}, fd : Fds \cup {-x : x \in Errnos},
                  ret : Results, sys : Errnos \cup {0}, logged : BOOLEAN, lost : BOOLEAN]
  <2>1. -1 \in {-x : x \in Errnos} /\ 0 \in Results
    BY DEF Errnos, EPERM, Results
  <2> QED BY <2>1 DEF NoCall
<1>2. fdt' \in [Fds -> Inodes \cup {NoInode}]
  BY DEF CloseFd, TypeOK
<1> QED BY <1>1, <1>2 DEF TypeOK, Return, Ended


\* The handlers of one path keep the types.
LEMMA PathRequestType ==
  ASSUME TypeOK, NEW t \in Threads, NEW p \in Paths, PathRequest(t, p)
  PROVE  TypeOK'
<1> USE ErrsAreErrnos
<1>1. CASE nosqlFS_getattr(t, p) \/ nosqlFS_statfs(t, p) \/ nosqlFS_chmod(t, p)
           \/ nosqlFS_chown(t, p) \/ nosqlFS_readlink(t, p) \/ nosqlFS_truncate(t, p)
  <2>1. Nothing => dir' \in Dirs
    BY EffectTypes
  <2>2. /\ nosqlFS_getattr(t, p) => TypeOK'
        /\ nosqlFS_statfs(t, p) => TypeOK'
        /\ nosqlFS_chmod(t, p) => TypeOK'
        /\ nosqlFS_chown(t, p) => TypeOK'
        /\ nosqlFS_readlink(t, p) => TypeOK'
        /\ nosqlFS_truncate(t, p) => TypeOK'
    BY <2>1, OneSyscallType
       DEF OneCall, nosqlFS_getattr, nosqlFS_statfs, nosqlFS_chmod, nosqlFS_chown,
           nosqlFS_readlink, nosqlFS_truncate
  <2> QED BY <1>1, <2>2
<1>2. CASE nosqlFS_access(t, p)
  <2>1. dir' \in Dirs /\ UNCHANGED <<fdt, call>>
    BY <1>2 DEF nosqlFS_access, TypeOK, Dirs
  <2>2. ASSUME NEW e \in Errnos, Return("access", -e, e, TRUE) PROVE TypeOK'
    BY <2>1, <2>2, LogSyscall, ReturnType DEF OneCall
  <2>3. ASSUME Return("access", 0, 0, TRUE) PROVE TypeOK'
    BY <2>1, <2>3, LogSyscall, ReturnType DEF OneCall
  <2> QED BY <1>2, <2>2, <2>3 DEF nosqlFS_access
<1>3. CASE nosqlFS_mkdir(t, p) \/ nosqlFS_symlink(t, p)
  <2>1. \A k : MakeInode(p, k) => dir' \in Dirs
    BY EffectTypes
  <2>2. nosqlFS_mkdir(t, p) => TypeOK'
    BY <2>1, OneSyscallType DEF OneCall, nosqlFS_mkdir
  <2>3. nosqlFS_symlink(t, p) => TypeOK'
    BY <2>1, OneSyscallType DEF OneCall, nosqlFS_symlink
  <2> QED BY <1>3, <2>2, <2>3
<1>4. CASE nosqlFS_unlink(t, p) \/ nosqlFS_rmdir(t, p)
  <2>1. dir' = [dir EXCEPT ![p] = NoInode] => dir' \in Dirs
    BY EffectTypes
  <2>2. nosqlFS_unlink(t, p) => TypeOK'
    BY <2>1, OneSyscallType DEF OneCall, nosqlFS_unlink
  <2>3. nosqlFS_rmdir(t, p) => TypeOK'
    BY <2>1, OneSyscallType DEF OneCall, nosqlFS_rmdir
  <2> QED BY <1>4, <2>2, <2>3
<1>5. CASE nosqlFS_readdir(t, p)
  <2>1. OpenOK(t, "readdir", "loop", p) => TypeOK'
    BY OpenType DEF MultiCall
  <2>2. ASSUME NEW e \in Errnos, NEW c \in ErrnoAfterLog(e), Return("readdir", -c, e, c = e),
               UNCHANGED <<dir, fdt, call>>
        PROVE  TypeOK'
    BY <2>2, LogSyscall, ReturnType DEF MultiCall, TypeOK, Dirs
  <2> QED BY <1>5, <2>1, <2>2 DEF nosqlFS_readdir
<1>6. CASE \E flags \in {"rd", "wr"} : nosqlFS_open(t, p, flags)
  BY <1>6, OpenType DEF nosqlFS_open, MultiCall
<1>7. CASE nosqlFS_read(t, p)
  BY <1>7, OpenType DEF nosqlFS_read, MultiCall
<1>8. CASE nosqlFS_write(t, p)
  BY <1>8, OpenType DEF nosqlFS_write, MultiCall
<1>9. ASSUME NEW e \in Errnos \cup {0}, NEW c \in Errnos \cup {0}, NEW ok \in BOOLEAN,
             NEW r, mknod_tail(r, c, e, ok)
      PROVE  \E x \in Results : Return("mknod", x, e, ok)
  BY <1>9, ErrnosPositive DEF mknod_tail, Results
<1>10. CASE nosqlFS_mknod_reg(t, p)
  <2>1. CASE MakeInode(p, "reg") /\ \E f \in FreeFds :
               /\ fdt' = [fdt EXCEPT ![f] = dir'[p]]
               /\ Continue(t, "mknod", "close", p, f, 0, 0, TRUE)
    <3>1. PICK f \in FreeFds : /\ fdt' = [fdt EXCEPT ![f] = dir'[p]]
                               /\ Continue(t, "mknod", "close", p, f, 0, 0, TRUE)
      BY <2>1
    <3>2. dir' \in Dirs /\ f \in Fds
      BY <2>1, EffectTypes DEF FreeFds
    <3>3. fdt' \in [Fds -> Inodes \cup {NoInode}]
      BY <3>1, <3>2 DEF Dirs, TypeOK
    <3> QED BY <3>1, <3>2, <3>3, ContinueType DEF MultiCall, Results
  <2>2. CASE /\ \E e \in Errnos : \E c \in ErrnoAfterLog(e) :
                  mknod_tail(log_syscall(-1, c), c, e, c = e)
             /\ UNCHANGED <<dir, fdt, call>>
    BY <2>2, <1>9, LogSyscall, ReturnType, ZenonT(30) DEF MultiCall, TypeOK, Dirs
  <2> QED BY <1>10, <2>1, <2>2 DEF nosqlFS_mknod_reg
<1>11. CASE nosqlFS_mknod_special(t, p)
  <2>1. dir' \in Dirs
    BY <1>11, EffectTypes DEF nosqlFS_mknod_special, TypeOK, Dirs
  <2>2. ASSUME NEW e \in Errnos, NEW c \in ErrnoAfterLog(e),
               mknod_tail(log_syscall(-1, c), c, e, c = e)
        PROVE  TypeOK'
    BY <1>9, <1>11, <2>1, <2>2, LogSyscall, ReturnType DEF MultiCall, nosqlFS_mknod_special
  <2>3. ASSUME mknod_tail(0, 0, 0, TRUE) PROVE TypeOK'
    BY <1>9, <1>11, <2>1, <2>3, ReturnType DEF MultiCall, nosqlFS_mknod_special
  <2> QED BY <1>11, <2>2, <2>3 DEF nosqlFS_mknod_special
<1> QED BY <1>1, <1>2, <1>3, <1>4, <1>5, <1>6, <1>7, <1>8, <1>10, <1>11 DEF PathRequest

\* The steps of a handler that had stopped keep the types.
LEMMA ProgressType ==
  ASSUME TypeOK, NEW t \in Threads, Progress(t)
  PROVE  TypeOK'
<1>1. /\ call[t].fd \in Fds \cup {-e : e \in Errnos}
      /\ call[t].ret \in Results /\ call[t].sys \in Errnos \cup {0}
      /\ call[t].logged \in BOOLEAN /\ call[t].op \in MultiCall \cup {"none"}
      /\ call[t].path \in Paths \cup {NoPath}
  BY DEF TypeOK
<1>2. ASSUME NEW op \in {"read", "write"}, Transfer(t, op)
      PROVE  TypeOK'
  <2>1. \A e \in ioErrs(call[t].fd) : e \in Errnos
    BY ErrsAreErrnos DEF ioErrs, ioErr, ErrIf, Errnos
  <2>2. dir' \in Dirs /\ fdt' \in [Fds -> Inodes \cup {NoInode}] /\ op \in MultiCall
    BY <1>2 DEF Transfer, TypeOK, Dirs, MultiCall
  <2>3. ASSUME NEW e \in ioErrs(call[t].fd), NEW c \in ErrnoAfterLog(e),
               Continue(t, op, "close", call[t].path, call[t].fd, log_syscall(-1, c),
                        FirstErr(call[t].sys, e), call[t].logged /\ c = e)
        PROVE  TypeOK'
    <3>1. log_syscall(-1, c) \in Results /\ FirstErr(call[t].sys, e) \in Errnos \cup {0}
      BY <1>1, <2>1, LogSyscall DEF FirstErr
    <3>2. (call[t].logged /\ c = e) \in BOOLEAN
      OBVIOUS
    <3> QED BY <1>1, <2>3, <2>2, <3>1, <3>2, ContinueType
  <2>4. ASSUME NEW n \in 0 .. 1,
               Continue(t, op, "close", call[t].path, call[t].fd, log_syscall(n, 0),
                        call[t].sys, call[t].logged)
        PROVE  TypeOK'
    <3>1. log_syscall(n, 0) \in Results
      BY LogSyscall
    <3> QED BY <1>1, <2>4, <2>2, <3>1, ContinueType
  <2> QED BY <1>2, <2>3, <2>4 DEF Transfer
<1>3. CASE nosqlFS_read_pread(t) \/ nosqlFS_write_pwrite(t)
  BY <1>2, <1>3 DEF nosqlFS_read_pread, nosqlFS_write_pwrite
<1>4. CASE nosqlFS_open_close(t)
  <2>1. PICK l \in BOOLEAN : Ended("open", 0, call[t].sys, call[t].logged, l)
    BY <1>4 DEF nosqlFS_open_close
  <2>2. 0 \in Results /\ "open" \in MultiCall
    BY DEF MultiCall, Results
  <2> QED BY <1>1, <1>4, <2>1, <2>2, CloseType DEF nosqlFS_open_close
<1>5. CASE nosqlFS_io_close(t)
  <2>1. PICK l \in BOOLEAN : Ended(call[t].op, call[t].ret, call[t].sys, call[t].logged,
                                   call[t].lost \/ l)
    BY <1>5 DEF nosqlFS_io_close
  <2>2. call[t].op \in MultiCall /\ (call[t].lost \/ l) \in BOOLEAN
    BY <1>5 DEF nosqlFS_io_close, MultiCall
  <2> QED BY <1>1, <1>5, <2>1, <2>2, CloseType DEF nosqlFS_io_close
<1>6. CASE nosqlFS_mknod_close(t)
  <2>1. ASSUME NEW e \in Errnos \cup {0}, NEW c \in Errnos \cup {0}, NEW ok \in BOOLEAN,
               NEW r, mknod_tail(r, c, e, ok)
        PROVE  TypeOK'
    <3>1. PICK x \in Results : Return("mknod", x, e, ok)
      BY <2>1, ErrnosPositive DEF mknod_tail, Results
    <3> QED BY <1>6, <3>1, CloseType DEF nosqlFS_mknod_close, MultiCall, Return
  <2>2. ASSUME NEW e \in HostErrors, NEW c \in ErrnoAfterLog(e),
               mknod_tail(log_syscall(-1, c), c, e, c = e)
        PROVE  TypeOK'
    BY <2>1, <2>2, LogSyscall, ErrsAreErrnos
  <2>3. ASSUME mknod_tail(log_syscall(0, 0), 0, 0, TRUE) PROVE TypeOK'
    BY <2>1, <2>3
  <2> QED BY <1>6, <2>2, <2>3 DEF nosqlFS_mknod_close
<1>7. CASE nosqlFS_readdir_loop(t)
  <2>1. PICK l \in BOOLEAN : call' = [call EXCEPT ![t].at = "close", ![t].lost = l]
    BY <1>7 DEF nosqlFS_readdir_loop
  <2>2. /\ call'[t] = [call[t] EXCEPT !.at = "close", !.lost = l]
        /\ \A u \in Threads \ {t} : call'[u] = call[u]
        /\ call' = [u \in Threads |-> call'[u]]
    BY <2>1 DEF TypeOK
  <2>3. \A u \in Threads : call'[u] \in CallRec
    <3>1. call[t] \in CallRec /\ \A u \in Threads \ {t} : call'[u] \in CallRec
      BY <2>2 DEF TypeOK, CallRec
    <3>2. call'[t] \in CallRec
      BY <2>2, <3>1 DEF CallRec
    <3> QED BY <3>1, <3>2
  <2>4. last' = NoResult /\ UNCHANGED <<dir, fdt>>
    BY <1>7 DEF nosqlFS_readdir_loop
  <2>5. call' \in [Threads -> CallRec]
    BY <2>2, <2>3
  <2> QED BY <2>4, <2>5 DEF TypeOK, CallRec, NoResult, Results
<1> QED BY <1>3, <1>4, <1>5, <1>6, <1>7 DEF Progress

\* No step of any thread or process leaves the types.
LEMMA TypeStep == TypeOK /\ [Next]_vars => TypeOK'
<1> SUFFICES ASSUME TypeOK, [Next]_vars PROVE TypeOK'
  OBVIOUS
<1> USE ErrsAreErrnos
<1>1. ASSUME NEW t \in Threads, NEW p \in Paths, PathRequest(t, p) PROVE TypeOK'
  BY <1>1, PathRequestType
<1>2. ASSUME NEW t \in Threads, NEW p \in Paths, NEW q \in Paths, nosqlFS_link(t, p, q)
      PROVE  TypeOK'
  <2>1. AbsentErr(p) \cup ErrIf(Exists(q), EEXIST)
          \cup ErrIf(Exists(p) /\ KindOf(p) = "dir", EPERM) \subseteq Errnos
    BY DEF ErrIf, Errnos
  <2>2. dir' = [dir EXCEPT ![q] = dir[p]] => dir' \in Dirs
    BY EffectTypes
  <2> QED BY <1>2, <2>1, <2>2, OneSyscallType DEF OneCall, nosqlFS_link
<1>3. ASSUME NEW t \in Threads, NEW p \in Paths, NEW q \in Paths,
             NEW flags \in RenameFlags, nosqlFS_rename(t, p, q, flags)
      PROVE  TypeOK'
  <2>1. HostRename(p, q) => dir' \in Dirs
    BY EffectTypes
  <2>2. RenameOp[flags] \in OneCall
    BY DEF RenameOp, RenameFlags, OneCall
  <2> QED BY <1>3, <2>1, <2>2, OneSyscallType DEF nosqlFS_rename
<1>4. ASSUME NEW t \in Threads, Progress(t) PROVE TypeOK'
  BY <1>4, ProgressType
<1>5. ASSUME NEW p \in Paths, Outside(p) PROVE TypeOK'
  <2>1. dir' \in Dirs
    BY <1>5, EffectTypes DEF Outside
  <2> QED BY <1>5, <2>1 DEF Outside, TypeOK, Dirs, NoResult, Results
<1>6. CASE UNCHANGED vars
  BY <1>6 DEF vars, TypeOK
<1> QED BY <1>1, <1>2, <1>3, <1>4, <1>5, <1>6 DEF Next

LEMMA TypeInit == Init => TypeOK
<1>1. -1 \in {-e : e \in Errnos} /\ 0 \in Results
  BY DEF Errnos, EPERM, Results
<1> QED BY <1>1 DEF Init, TypeOK, NoCall, NoResult

\* Type correctness: a handler never returns a positive errno, and its descriptor is
\* the process's own or a negated errno.
THEOREM TypeCorrect == Spec => []TypeOK
BY TypeInit, TypeStep, PTL DEF Spec


---------------------------------------------------------------------------
(* Descriptors and results.  The induction needs what a stopped handler's record  *)
(* says: CallInv links the descriptor, the errno met so far and the result.       *)

IInv == TypeOK /\ FdsOwned /\ CallInv /\ FailureReportedByOthers

\* A step that changes neither the descriptors nor the stopped handlers.
LEMMA Quiet ==
  ASSUME FdsOwned, CallInv, UNCHANGED <<fdt, call>>
  PROVE  FdsOwned' /\ CallInv'
BY DEF FdsOwned, CallInv, Holds, Idle

\* A handler of one system call reports a failure, and only a failure.
LEMMA OneSyscallResult ==
  ASSUME NEW t, NEW op, NEW errs \in SUBSET Errnos, NEW ACTION Effect,
         OneSyscall(t, op, errs, Effect)
  PROVE  (last'.ret < 0 <=> last'.sys # 0) /\ last'.lost = FALSE /\ UNCHANGED <<fdt, call>>
<1>1. ASSUME NEW e \in errs \cup HostErrors, NEW c \in ErrnoAfterLog(e),
             Return(op, log_syscall(-1, c), e, c = e)
      PROVE  (last'.ret < 0 <=> last'.sys # 0) /\ last'.lost = FALSE
  <2>1. e \in Errnos /\ c \in Errnos
    BY LogSyscall, ErrsAreErrnos
  <2> QED BY <1>1, <2>1, LogSyscall, ErrnosPositive DEF Return, Ended
<1>2. ASSUME Return(op, log_syscall(0, 0), 0, TRUE)
      PROVE  (last'.ret < 0 <=> last'.sys # 0) /\ last'.lost = FALSE
  BY <1>2, LogSyscall DEF Return, Ended
<1> QED BY <1>1, <1>2 DEF OneSyscall

\* A handler that goes on with a descriptor nobody holds, which now refers to a file.
LEMMA TakeFd ==
  ASSUME TypeOK, FdsOwned, CallInv, NEW t \in Threads, Idle(t),
         NEW op \in MultiCall, NEW at \in {"io", "loop", "close"}, NEW p \in Paths,
         at = "io" => op \in {"read", "write"}, at = "loop" => op = "readdir",
         NEW f \in FreeFds, NEW i \in Inodes, fdt' = [fdt EXCEPT ![f] = i],
         Continue(t, op, at, p, f, 0, 0, TRUE)
  PROVE  FdsOwned' /\ CallInv'
<1>1. f \in Fds /\ fdt[f] = NoInode /\ fdt'[f] # NoInode
  BY NoneAssumption DEF FreeFds, TypeOK
<1>2. /\ call'[t].at = at /\ call'[t].op = op /\ call'[t].path = p /\ call'[t].fd = f
      /\ call'[t].ret = 0 /\ call'[t].sys = 0
      /\ \A u \in Threads \ {t} : call'[u] = call[u]
  BY DEF Continue, TypeOK
<1>3. Holds(t, f)' /\ \A g \in Fds : Holds(t, g)' => g = f
  BY <1>2 DEF Holds, Idle
<1>4. \A u \in Threads \ {t}, g \in Fds : (Holds(u, g)' <=> Holds(u, g))
  BY <1>2 DEF Holds, Idle
<1>5. \A u \in Threads : ~Holds(u, f)
  BY <1>1 DEF FdsOwned
<1>6. \A g \in Fds \ {f} : fdt'[g] = fdt[g]
  BY DEF TypeOK
<1>7. \A g \in Fds : ~Holds(t, g)
  BY DEF Holds
<1>8. FdsOwned'
  BY <1>1, <1>3, <1>4, <1>5, <1>6, <1>7 DEF FdsOwned
<1>9. CallInv'
  BY <1>1, <1>2 DEF CallInv, Idle, MultiCall
<1> QED BY <1>8, <1>9

\* A handler that goes on with a negated errno for a descriptor.
LEMMA TakeErrno ==
  ASSUME TypeOK, FdsOwned, CallInv, NEW t \in Threads, Idle(t),
         NEW op \in {"open", "read", "write"}, NEW at \in {"io", "close"}, NEW p \in Paths,
         at = "close" <=> op = "open",
         NEW e \in Errnos, NEW c \in Errnos, NEW ok, UNCHANGED fdt,
         Continue(t, op, at, p, -c, 0, e, ok)
  PROVE  FdsOwned' /\ CallInv'
<1>1. -c \notin Fds /\ e # 0
  BY FdsArePositive, ErrnosPositive
<1>2. /\ call'[t].at = at /\ call'[t].op = op /\ call'[t].path = p /\ call'[t].fd = -c
      /\ call'[t].sys = e
      /\ \A u \in Threads \ {t} : call'[u] = call[u]
  BY DEF Continue, TypeOK
<1>3. \A u \in Threads, g \in Fds : (Holds(u, g)' <=> Holds(u, g))
  BY <1>1, <1>2 DEF Holds, Idle
<1>4. FdsOwned'
  BY <1>3 DEF FdsOwned
<1>5. CallInv'
  BY <1>1, <1>2 DEF CallInv, Idle
<1> QED BY <1>4, <1>5

\* A handler that ends closes its own descriptor, if it has one.
LEMMA DropFd ==
  ASSUME TypeOK, FdsOwned, CallInv, NEW t \in Threads, ~Idle(t),
         CloseFd(call[t].fd), call' = [call EXCEPT ![t] = NoCall]
  PROVE  FdsOwned' /\ CallInv'
<1>1. /\ call'[t] = NoCall
      /\ \A u \in Threads \ {t} : call'[u] = call[u]
  BY DEF TypeOK
<1>2. \A g \in Fds : ~Holds(t, g)'
  BY <1>1 DEF Holds, Idle, NoCall
<1>3. \A u \in Threads \ {t}, g \in Fds : (Holds(u, g)' <=> Holds(u, g))
  BY <1>1 DEF Holds, Idle
<1>4. \A g \in Fds : fdt'[g] = IF Holds(t, g) THEN NoInode ELSE fdt[g]
  BY DEF CloseFd, Holds, TypeOK
<1>5. FdsOwned'
  BY <1>2, <1>3, <1>4 DEF FdsOwned
<1>6. CallInv'
  BY <1>1 DEF CallInv, Idle, NoCall
<1> QED BY <1>5, <1>6


Owned == FdsOwned' /\ CallInv' /\ FailureReportedByOthers'

\* A host open(), whether it succeeds on a path that exists or fails.
LEMMA OpenOwned ==
  ASSUME IInv, NEW t \in Threads, Idle(t), NEW p \in Paths,
         NEW op \in MultiCall, NEW at \in {"io", "loop", "close"}
  PROVE  /\ /\ Exists(p) /\ OpenOK(t, op, at, p)
            /\ (at = "io" => op \in {"read", "write"}) /\ (at = "loop" => op = "readdir")
            => Owned
         /\ \A e \in Errnos : \A c \in ErrnoAfterLog(e) :
              /\ OpenFailed(t, op, at, p, e, c)
              /\ op \in {"open", "read", "write"} /\ at # "loop"
              /\ (at = "close" <=> op = "open")
              => Owned
<1>1. ASSUME Exists(p), OpenOK(t, op, at, p), at = "io" => op \in {"read", "write"},
             at = "loop" => op = "readdir"
      PROVE  Owned
  <2>1. PICK f \in FreeFds : /\ fdt' = [fdt EXCEPT ![f] = dir[p]]
                             /\ Continue(t, op, at, p, f, 0, 0, TRUE)
    BY <1>1 DEF OpenOK
  <2>2. dir[p] \in Inodes
    BY <1>1 DEF Exists, IInv, TypeOK
  <2>3. FdsOwned' /\ CallInv'
    BY <1>1, <2>1, <2>2, TakeFd DEF IInv
  <2>4. FailureReportedByOthers'
    BY <2>1 DEF Continue, NoResult, FailureReportedByOthers
  <2> QED BY <2>3, <2>4 DEF Owned
<1>2. ASSUME NEW e \in Errnos, NEW c \in ErrnoAfterLog(e), OpenFailed(t, op, at, p, e, c),
             op \in {"open", "read", "write"}, at # "loop", at = "close" <=> op = "open"
      PROVE  Owned
  <2>1. c \in Errnos /\ log_syscall(-1, c) = -c
    BY LogSyscall
  <2>2. CASE /\ \E d \in ErrnoAfterOpen(op, c) : Return(op, -d, e, d = e)
             /\ UNCHANGED call
    <3>1. FdsOwned' /\ CallInv'
      BY <1>2, <2>2, Quiet DEF OpenFailed, IInv
    <3>2. FailureReportedByOthers'
      <4>1. PICK d \in ErrnoAfterOpen(op, c) : Return(op, -d, e, d = e)
        BY <2>2
      <4>2. d \in Errnos /\ last'.ret = -d /\ last'.sys = e /\ ~last'.lost
        BY <2>1, <4>1, LogSyscall DEF ErrnoAfterOpen, Return, Ended
      <4> QED BY <4>2, NegatedErrno DEF FailureReportedByOthers
    <3> QED BY <3>1, <3>2 DEF Owned
  <2>3. CASE Continue(t, op, at, p, -c, 0, e, c = e)
    <3>1. FdsOwned' /\ CallInv'
      BY <1>2, <2>1, <2>3, TakeErrno DEF OpenFailed, IInv
    <3>2. FailureReportedByOthers'
      BY <2>3 DEF Continue, NoResult, FailureReportedByOthers
    <3> QED BY <3>1, <3>2 DEF Owned
  <2> QED BY <1>2, <2>1, <2>2, <2>3 DEF OpenFailed
<1>3. ASSUME NEW e \in Errnos, NEW c \in ErrnoAfterLog(e), OpenFailed(t, op, at, p, e, c),
             op \in {"open", "read", "write"} /\ at # "loop"
             /\ (at = "close" <=> op = "open")
      PROVE  Owned
  <2>1. op \in {"open", "read", "write"}
    BY <1>3
  <2>2. at # "loop"
    BY <1>3
  <2>3. at = "close" <=> op = "open"
    BY <1>3
  <2> QED BY <1>2, <1>3, <2>1, <2>2, <2>3
<1> QED BY <1>1, <1>3

\* A handler that returns without having stopped.
LEMMA ReturnOwned ==
  ASSUME IInv, UNCHANGED <<fdt, call>>, last'.lost = FALSE,
         last'.op \in Masking \/ (last'.ret < 0 <=> last'.sys # 0)
  PROVE  Owned
BY Quiet DEF IInv, Owned, FailureReportedByOthers

\* The handlers of one path keep the descriptors owned and the results honest.
LEMMA PathRequestOwned ==
  ASSUME IInv, NEW t \in Threads, NEW p \in Paths, PathRequest(t, p)
  PROVE  Owned
<1> USE ErrsAreErrnos
<1>1. ASSUME NEW op, NEW errs \in SUBSET Errnos, NEW ACTION Effect,
             OneSyscall(t, op, errs, Effect)
      PROVE  Owned
  BY <1>1, OneSyscallResult, ReturnOwned
<1>2. CASE nosqlFS_getattr(t, p) \/ nosqlFS_statfs(t, p) \/ nosqlFS_chmod(t, p)
           \/ nosqlFS_chown(t, p)
  BY <1>1, <1>2 DEF nosqlFS_getattr, nosqlFS_statfs, nosqlFS_chmod, nosqlFS_chown
<1>3. CASE nosqlFS_readlink(t, p) \/ nosqlFS_truncate(t, p)
  BY <1>1, <1>3 DEF nosqlFS_readlink, nosqlFS_truncate
<1>4. CASE nosqlFS_mkdir(t, p) \/ nosqlFS_symlink(t, p)
  BY <1>1, <1>4 DEF nosqlFS_mkdir, nosqlFS_symlink
<1>5. CASE nosqlFS_unlink(t, p) \/ nosqlFS_rmdir(t, p)
  BY <1>1, <1>5 DEF nosqlFS_unlink, nosqlFS_rmdir
<1>6. CASE nosqlFS_access(t, p)
  <2>1. /\ \/ \E e \in Errnos : last'.ret = -e /\ last'.sys = e
           \/ last'.ret = 0 /\ last'.sys = 0
        /\ last'.lost = FALSE
    BY <1>6 DEF nosqlFS_access, Return, Ended
  <2>2. last'.ret < 0 <=> last'.sys # 0
    BY <2>1, NegatedErrno
  <2> QED BY <1>6, <2>1, <2>2, ReturnOwned DEF nosqlFS_access
<1>7. CASE nosqlFS_readdir(t, p)
  <2>1. opendirErr(p) = {} => Exists(p)
    BY DEF opendirErr
  <2>2. ASSUME NEW e \in Errnos, NEW c \in ErrnoAfterLog(e), Return("readdir", -c, e, c = e),
               UNCHANGED <<fdt, call>>
        PROVE  Owned
    <3>1. (last'.ret < 0 <=> last'.sys # 0) /\ last'.lost = FALSE
      <4>1. c \in Errnos /\ last'.ret = -c /\ last'.sys = e /\ last'.lost = FALSE
        BY <2>2, LogSyscall DEF Return, Ended
      <4> QED BY <4>1, NegatedErrno
    <3> QED BY <2>2, <3>1, ReturnOwned
  <2> QED BY <1>7, <2>1, <2>2, OpenOwned DEF nosqlFS_readdir, MultiCall
<1>8. \A flags : openErr(p, flags) = {} => Exists(p)
  BY DEF openErr
<1>9. CASE \E flags \in {"rd", "wr"} : nosqlFS_open(t, p, flags)
  BY <1>8, <1>9, OpenOwned DEF nosqlFS_open, MultiCall
<1>10. CASE nosqlFS_read(t, p)
  BY <1>8, <1>10, OpenOwned DEF nosqlFS_read, MultiCall
<1>11. CASE nosqlFS_write(t, p)
  BY <1>8, <1>11, OpenOwned DEF nosqlFS_write, MultiCall
<1>12. CASE nosqlFS_mknod_reg(t, p)
  <2>1. CASE MakeInode(p, "reg") /\ \E f \in FreeFds :
               /\ fdt' = [fdt EXCEPT ![f] = dir'[p]]
               /\ Continue(t, "mknod", "close", p, f, 0, 0, TRUE)
    <3>1. PICK f \in FreeFds : /\ fdt' = [fdt EXCEPT ![f] = dir'[p]]
                               /\ Continue(t, "mknod", "close", p, f, 0, 0, TRUE)
      BY <2>1
    <3>2. dir'[p] \in Inodes
      BY <2>1 DEF MakeInode, FreeInodes, IInv, TypeOK
    <3>3. FdsOwned' /\ CallInv'
      BY <1>12, <3>1, <3>2, TakeFd DEF nosqlFS_mknod_reg, IInv, MultiCall
    <3> QED BY <3>1, <3>3 DEF Owned, Continue, NoResult, FailureReportedByOthers
  <2>2. CASE /\ \E e \in Errnos : \E c \in ErrnoAfterLog(e) :
                  mknod_tail(log_syscall(-1, c), c, e, c = e)
             /\ UNCHANGED <<dir, fdt, call>>
    BY <2>2, ReturnOwned DEF mknod_tail, Return, Ended, Masking
  <2> QED BY <1>12, <2>1, <2>2 DEF nosqlFS_mknod_reg
<1>13. CASE nosqlFS_mknod_special(t, p)
  <2>1. last'.op \in Masking /\ last'.lost = FALSE
    BY <1>13 DEF nosqlFS_mknod_special, mknod_tail, Return, Ended, Masking
  <2> QED BY <1>13, <2>1, ReturnOwned DEF nosqlFS_mknod_special
<1> QED BY <1>2, <1>3, <1>4, <1>5, <1>6, <1>7, <1>9, <1>10, <1>11, <1>12, <1>13
        DEF PathRequest

\* The steps of a handler that had stopped do, too.
LEMMA ProgressOwned ==
  ASSUME IInv, NEW t \in Threads, Progress(t)
  PROVE  Owned
<1> DEFINE fd == call[t].fd
<1>1. ASSUME NEW op \in {"read", "write"}, Transfer(t, op)
      PROVE  Owned
  <2>1. /\ ~Idle(t) /\ call[t].at = "io" /\ call[t].op = op /\ call[t].path \in Paths
        /\ (fd \in Fds <=> call[t].sys = 0)
    BY <1>1 DEF Transfer, IInv, CallInv, Idle
  <2>2. fd \in Fds => IsOpen(fd)
    BY <2>1 DEF IInv, FdsOwned, Holds, IsOpen
  <2>3. \E r, e, ok : /\ Continue(t, op, "close", call[t].path, fd, r, e, ok)
                      /\ r < 0 <=> e # 0
    <3>1. ASSUME NEW e \in ioErrs(fd), NEW c \in ErrnoAfterLog(e)
          PROVE  log_syscall(-1, c) < 0 /\ FirstErr(call[t].sys, e) # 0
      <4>1. e \in Errnos /\ c \in Errnos
        BY ErrsAreErrnos, LogSyscall DEF ioErrs, ioErr, ErrIf, Errnos
      <4> QED BY <4>1, LogSyscall, ErrnosPositive DEF FirstErr
    <3>2. ASSUME ioErr(fd) = {} PROVE call[t].sys = 0
      BY <2>1, <3>2 DEF ioErr, IsOpen
    <3>3. \A n \in 0 .. 1 : ~(log_syscall(n, 0) < 0)
      BY LogSyscall
    <3> QED BY <1>1, <3>1, <3>2, <3>3 DEF Transfer
  <2>4. PICK r, e, ok : /\ Continue(t, op, "close", call[t].path, fd, r, e, ok)
                        /\ r < 0 <=> e # 0
    BY <2>3
  <2>5. /\ call'[t].at = "close" /\ call'[t].op = op /\ call'[t].path \in Paths
        /\ call'[t].fd = fd /\ (call'[t].ret < 0 <=> call'[t].sys # 0)
        /\ \A u \in Threads \ {t} : call'[u] = call[u]
    BY <2>1, <2>4 DEF Continue, IInv, TypeOK
  <2>6. \A u \in Threads, f \in Fds : (Holds(u, f)' <=> Holds(u, f))
    BY <2>1, <2>5 DEF Holds, Idle
  <2>7. FdsOwned'
    BY <1>1, <2>6 DEF Transfer, IInv, FdsOwned
  <2>8. CallInv'
    BY <2>5 DEF IInv, CallInv, Idle
  <2>9. FailureReportedByOthers'
    BY <2>4 DEF Continue, NoResult, FailureReportedByOthers
  <2> QED BY <2>7, <2>8, <2>9 DEF Owned
<1>2. CASE nosqlFS_read_pread(t) \/ nosqlFS_write_pwrite(t)
  BY <1>1, <1>2 DEF nosqlFS_read_pread, nosqlFS_write_pwrite
<1>3. CASE nosqlFS_open_close(t)
  <2>1. FdsOwned' /\ CallInv'
    BY <1>3, DropFd DEF IInv, nosqlFS_open_close, Idle
  <2>2. last'.op = "open"
    BY <1>3 DEF nosqlFS_open_close, Ended
  <2> QED BY <2>1, <2>2 DEF Owned, Masking, FailureReportedByOthers
<1>4. CASE nosqlFS_io_close(t)
  <2>1. FdsOwned' /\ CallInv'
    BY <1>4, DropFd DEF IInv, nosqlFS_io_close, Idle
  <2>2. call[t].ret < 0 <=> call[t].sys # 0
    BY <1>4 DEF IInv, CallInv, nosqlFS_io_close
  <2>3. /\ last'.op = call[t].op /\ last'.ret = call[t].ret /\ last'.sys = call[t].sys
        /\ call[t].op \in {"read", "write", "readdir"}
    BY <1>4 DEF nosqlFS_io_close, Ended
  <2> QED BY <2>1, <2>2, <2>3 DEF Owned, FailureReportedByOthers
<1>5. CASE nosqlFS_mknod_close(t)
  <2>1. FdsOwned' /\ CallInv'
    BY <1>5, DropFd DEF IInv, nosqlFS_mknod_close, Idle
  <2> QED BY <1>5, <2>1
         DEF Owned, nosqlFS_mknod_close, mknod_tail, Return, Ended, Masking, FailureReportedByOthers
<1>6. CASE nosqlFS_readdir_loop(t)
  <2>1. PICK l \in BOOLEAN : call' = [call EXCEPT ![t].at = "close", ![t].lost = l]
    BY <1>6 DEF nosqlFS_readdir_loop
  <2>2. /\ call[t].at = "loop" /\ call'[t] = [call[t] EXCEPT !.at = "close", !.lost = l]
        /\ \A u \in Threads \ {t} : call'[u] = call[u]
    BY <1>6, <2>1 DEF nosqlFS_readdir_loop, IInv, TypeOK
  <2>3. /\ call'[t].at = "close" /\ call'[t].op = call[t].op /\ call'[t].path = call[t].path
        /\ call'[t].fd = fd /\ call'[t].ret = call[t].ret /\ call'[t].sys = call[t].sys
        /\ call[t].op = "readdir" /\ (call[t].ret < 0 <=> call[t].sys # 0)
        /\ call[t].path \in Paths
    <3>1. call[t].op = "readdir" /\ (call[t].ret < 0 <=> call[t].sys # 0)
          /\ call[t].path \in Paths
      BY <2>2 DEF IInv, CallInv, Idle
    <3> QED BY <2>2, <3>1 DEF IInv, TypeOK
  <2>4. \A u \in Threads, f \in Fds : (Holds(u, f)' <=> Holds(u, f))
    BY <2>2, <2>3 DEF Holds, Idle
  <2>5. FdsOwned'
    BY <1>6, <2>4 DEF nosqlFS_readdir_loop, IInv, FdsOwned
  <2>6. CallInv'
    <3> SUFFICES ASSUME NEW u \in Threads
                 PROVE  /\ Idle(u)' <=> call'[u].op = "none"
                        /\ ~Idle(u)' => call'[u].path \in Paths
                        /\ call'[u].at = "io" => /\ call'[u].op \in {"read", "write"}
                                                 /\ call'[u].fd \in Fds <=> call'[u].sys = 0
                        /\ call'[u].at = "loop" => call'[u].op = "readdir"
                        /\ \/ call'[u].at = "loop"
                           \/ /\ call'[u].at = "close"
                              /\ call'[u].op \in {"read", "write", "readdir"}
                           => (call'[u].ret < 0 <=> call'[u].sys # 0)
      BY DEF CallInv
    <3>1. CASE u = t
      BY <2>3, <3>1 DEF Idle
    <3>2. CASE u # t
      BY <2>2, <3>2 DEF IInv, CallInv, Idle
    <3> QED BY <3>1, <3>2
  <2>7. FailureReportedByOthers'
    BY <1>6 DEF nosqlFS_readdir_loop, NoResult, FailureReportedByOthers
  <2> QED BY <2>5, <2>6, <2>7 DEF Owned
<1> QED BY <1>2, <1>3, <1>4, <1>5, <1>6 DEF Progress

\* The inductive invariant.
LEMMA IInvStep == IInv /\ [Next]_vars => IInv'
<1> SUFFICES ASSUME IInv, [Next]_vars PROVE IInv'
  OBVIOUS
<1>1. TypeOK'
  BY TypeStep DEF IInv
<1>2. Owned
  <2>1. ASSUME NEW t \in Threads, NEW p \in Paths, PathRequest(t, p) PROVE Owned
    BY <2>1, PathRequestOwned
  <2>2. ASSUME NEW t \in Threads, NEW p \in Paths, NEW q \in Paths, nosqlFS_link(t, p, q)
        PROVE  Owned
    <3>1. AbsentErr(p) \cup ErrIf(Exists(q), EEXIST)
            \cup ErrIf(Exists(p) /\ KindOf(p) = "dir", EPERM) \subseteq Errnos
      BY ErrsAreErrnos DEF ErrIf, Errnos
    <3> QED BY <2>2, <3>1, OneSyscallResult, ReturnOwned DEF nosqlFS_link
  <2>3. ASSUME NEW t \in Threads, NEW p \in Paths, NEW q \in Paths,
               NEW flags \in RenameFlags, nosqlFS_rename(t, p, q, flags)
        PROVE  Owned
    BY <2>3, ErrsAreErrnos, OneSyscallResult, ReturnOwned DEF nosqlFS_rename
  <2>4. ASSUME NEW t \in Threads, Progress(t) PROVE Owned
    BY <2>4, ProgressOwned
  <2>5. ASSUME NEW p \in Paths, Outside(p) PROVE Owned
    BY <2>5, ReturnOwned DEF Outside, NoResult
  <2>6. CASE UNCHANGED vars
    BY <2>6 DEF vars, IInv, Owned, FdsOwned, CallInv, FailureReportedByOthers, Holds, Idle
  <2> QED BY <2>1, <2>2, <2>3, <2>4, <2>5, <2>6 DEF Next
<1> QED BY <1>1, <1>2 DEF IInv, Owned

LEMMA IInvInit == Init => IInv
<1> SUFFICES ASSUME Init PROVE IInv
  OBVIOUS
<1>1. TypeOK
  BY TypeInit
<1>2. FdsOwned /\ CallInv /\ FailureReportedByOthers
  BY DEF Init, FdsOwned, CallInv, FailureReportedByOthers, Holds, Idle, NoCall, NoResult
<1> QED BY <1>1, <1>2 DEF IInv

LEMMA IInvAlways == Spec => []IInv
BY IInvInit, IInvStep, PTL DEF Spec

\* No handler leaks a descriptor, closes one twice or closes another thread's,
\* although open, read and write go on after a failed open().
THEOREM DescriptorsOwned == Spec => []FdsOwned
<1>1. IInv => FdsOwned
  BY DEF IInv
<1> QED BY <1>1, IInvAlways, PTL

\* Every handler but open and mknod returns a negative value exactly when one of the host
\* calls whose result it keeps has failed; a failure of readdir(3), closedir or the final
\* close, which open, read, write and readdir can meet, is never seen in the result.
THEOREM OthersReportFailures == Spec => []FailureReportedByOthers
<1>1. IInv => FailureReportedByOthers
  BY DEF IInv
<1> QED BY <1>1, IInvAlways, PTL


---------------------------------------------------------------------------
(* Error codes *)

Coded == CodeInv' /\ ErrorCodeKept'

\* A handler that returns without having stopped, with the errno of its call when the
\* log took the message.
LEMMA ReturnCoded ==
  ASSUME CodeInv, UNCHANGED call,
         last'.op \in Masking \/ (last'.logged /\ last'.sys # 0 => last'.ret = -last'.sys)
  PROVE  Coded
<1>1. CodeInv'
  BY DEF CodeInv
<1>2. ErrorCodeKept'
  BY DEF ErrorCodeKept, Masking, OneCall
<1> QED BY <1>1, <1>2 DEF Coded

LEMMA OneSyscallCoded ==
  ASSUME CodeInv, NEW t, NEW op, NEW errs \in SUBSET Errnos, NEW ACTION Effect,
         OneSyscall(t, op, errs, Effect)
  PROVE  Coded
<1>1. ASSUME NEW e \in errs \cup HostErrors, NEW c \in ErrnoAfterLog(e),
             Return(op, log_syscall(-1, c), e, c = e)
      PROVE  last'.logged => last'.ret = -last'.sys
  <2>1. c \in Errnos
    BY LogSyscall, ErrsAreErrnos
  <2> QED BY <1>1, <2>1, LogSyscall DEF Return, Ended
<1>2. ASSUME Return(op, log_syscall(0, 0), 0, TRUE) PROVE last'.sys = 0
  BY <1>2 DEF Return, Ended
<1>3. call' = call
  BY DEF OneSyscall
<1> QED BY <1>1, <1>2, <1>3, ReturnCoded DEF OneSyscall

\* A handler that goes on without a result yet, or with one that says what it met.
LEMMA ContinueCoded ==
  ASSUME TypeOK, CodeInv, NEW t \in Threads, NEW op, NEW at, NEW p, NEW fd, NEW r, NEW e,
         NEW ok, Continue(t, op, at, p, fd, r, e, ok),
         \/ at = "io" \/ (at # "loop" /\ op \notin {"read", "write", "readdir"}) \/ e = 0
         \/ op # "readdir" /\ (ok => r \in {-e, -EBADF})
  PROVE  Coded
<1>1. /\ call'[t] = [op |-> op, at |-> at, path |-> p, fd |-> fd, ret |-> r, sys |-> e,
                     logged |-> ok, lost |-> FALSE]
      /\ \A u \in Threads \ {t} : call'[u] = call[u]
  BY DEF Continue, TypeOK
<1>2. CodeInv'
  <2> SUFFICES ASSUME NEW u \in Threads, call'[u].logged, call'[u].sys # 0,
                      \/ call'[u].at = "loop"
                      \/ /\ call'[u].at = "close"
                         /\ call'[u].op \in {"read", "write", "readdir"}
               PROVE  /\ call'[u].op # "readdir"
                      /\ call'[u].ret \in {-call'[u].sys, -EBADF}
    BY DEF CodeInv
  <2>1. CASE u = t
    BY <1>1, <2>1
  <2>2. CASE u # t
    BY <1>1, <2>2 DEF CodeInv
  <2> QED BY <2>1, <2>2
<1>3. ErrorCodeKept'
  BY DEF Continue, NoResult, ErrorCodeKept
<1> QED BY <1>2, <1>3 DEF Coded

\* A host open(): only a failure with errno 1 ends the handler at once.
LEMMA OpenCoded ==
  ASSUME TypeOK, CodeInv, NEW t \in Threads, NEW p, NEW op, NEW at
  PROVE  /\ OpenOK(t, op, at, p) => Coded
         /\ \A e \in Errnos : \A c \in ErrnoAfterLog(e) :
              OpenFailed(t, op, at, p, e, c) /\ (at = "io" \/ (op = "open" /\ at = "close"))
                => Coded
<1>1. ASSUME OpenOK(t, op, at, p) PROVE Coded
  BY <1>1, ContinueCoded DEF OpenOK
<1>2. ASSUME NEW e \in Errnos, NEW c \in ErrnoAfterLog(e), OpenFailed(t, op, at, p, e, c),
             at = "io" \/ (op = "open" /\ at = "close")
      PROVE  Coded
  <2>1. ASSUME NEW d \in ErrnoAfterOpen(op, c), Return(op, -d, e, d = e), UNCHANGED call
        PROVE  Coded
    BY <2>1, ReturnCoded DEF Return, Ended
  <2>2. ASSUME NEW fd, Continue(t, op, at, p, fd, 0, e, c = e)
        PROVE  Coded
    <3>1. at = "io" \/ (at # "loop" /\ op \notin {"read", "write", "readdir"})
      BY <1>2
    <3> QED BY <2>2, <3>1, ContinueCoded
  <2> QED BY <1>2, <2>1, <2>2 DEF OpenFailed
<1> QED BY <1>1, <1>2

\* The handlers of one path.
LEMMA PathRequestCoded ==
  ASSUME TypeOK, CodeInv, NEW t \in Threads, NEW p \in Paths, PathRequest(t, p)
  PROVE  Coded
<1> USE ErrsAreErrnos
<1>1. CASE nosqlFS_getattr(t, p) \/ nosqlFS_statfs(t, p) \/ nosqlFS_chmod(t, p)
           \/ nosqlFS_chown(t, p)
  BY <1>1, OneSyscallCoded DEF nosqlFS_getattr, nosqlFS_statfs, nosqlFS_chmod, nosqlFS_chown
<1>2. CASE nosqlFS_readlink(t, p) \/ nosqlFS_truncate(t, p)
  BY <1>2, OneSyscallCoded DEF nosqlFS_readlink, nosqlFS_truncate
<1>3. CASE nosqlFS_mkdir(t, p) \/ nosqlFS_symlink(t, p)
  BY <1>3, OneSyscallCoded DEF nosqlFS_mkdir, nosqlFS_symlink
<1>4. CASE nosqlFS_unlink(t, p) \/ nosqlFS_rmdir(t, p)
  BY <1>4, OneSyscallCoded DEF nosqlFS_unlink, nosqlFS_rmdir
<1>5. CASE nosqlFS_access(t, p)
  <2>1. last'.sys # 0 => last'.ret = -last'.sys
    BY <1>5 DEF nosqlFS_access, Return, Ended
  <2> QED BY <1>5, <2>1, ReturnCoded DEF nosqlFS_access
<1>6. CASE nosqlFS_readdir(t, p)
  <2>1. ASSUME NEW e, NEW c, Return("readdir", -c, e, c = e), UNCHANGED call PROVE Coded
    BY <2>1, ReturnCoded DEF Return, Ended
  <2> QED BY <1>6, <2>1, OpenCoded DEF nosqlFS_readdir
<1>7. CASE \E flags \in {"rd", "wr"} : nosqlFS_open(t, p, flags)
  BY <1>7, OpenCoded DEF nosqlFS_open
<1>8. CASE nosqlFS_read(t, p) \/ nosqlFS_write(t, p)
  BY <1>8, OpenCoded DEF nosqlFS_read, nosqlFS_write
<1>9. ASSUME NEW r, NEW c, NEW e, NEW ok, mknod_tail(r, c, e, ok), UNCHANGED call PROVE Coded
  BY <1>9, ReturnCoded DEF mknod_tail, Return, Ended, Masking
<1>10. CASE nosqlFS_mknod_reg(t, p)
  BY <1>9, <1>10, ContinueCoded DEF nosqlFS_mknod_reg
<1>11. CASE nosqlFS_mknod_special(t, p)
  BY <1>9, <1>11 DEF nosqlFS_mknod_special
<1> QED BY <1>1, <1>2, <1>3, <1>4, <1>5, <1>6, <1>7, <1>8, <1>10, <1>11 DEF PathRequest

\* The steps of a handler that had stopped: a transfer on a descriptor that open() did not
\* give fails with EBADF and nothing else.
LEMMA ProgressCoded ==
  ASSUME IInv, CodeInv, NEW t \in Threads, Progress(t)
  PROVE  Coded
<1> DEFINE fd == call[t].fd
<1>1. ASSUME NEW op \in {"read", "write"}, Transfer(t, op)
      PROVE  Coded
  <2>1. fd \in Fds <=> call[t].sys = 0
    BY <1>1 DEF Transfer, IInv, CallInv
  <2>2. ASSUME NEW e \in ioErrs(fd), NEW c \in ErrnoAfterLog(e),
               Continue(t, op, "close", call[t].path, fd, log_syscall(-1, c),
                        FirstErr(call[t].sys, e), call[t].logged /\ c = e)
        PROVE  Coded
    <3>1. e \in Errnos /\ c \in Errnos
      BY ErrsAreErrnos, LogSyscall DEF ioErrs, ioErr, ErrIf, Errnos
    <3>2. call[t].sys # 0 => e = EBADF
      BY <2>1 DEF ioErrs, ioErr, IsOpen
    <3>3. c = e => log_syscall(-1, c) \in {-FirstErr(call[t].sys, e), -EBADF}
      BY <3>1, <3>2, LogSyscall DEF FirstErr
    <3> QED BY <2>2, <3>3, ContinueCoded DEF IInv
  <2>3. ASSUME ioErr(fd) = {}, NEW n \in 0 .. 1,
               Continue(t, op, "close", call[t].path, fd, log_syscall(n, 0),
                        call[t].sys, call[t].logged)
        PROVE  Coded
    <3>1. call[t].sys = 0
      BY <2>1, <2>3 DEF ioErr, IsOpen
    <3> QED BY <2>3, <3>1, ContinueCoded DEF IInv
  <2> QED BY <1>1, <2>2, <2>3 DEF Transfer
<1>2. CASE nosqlFS_read_pread(t) \/ nosqlFS_write_pwrite(t)
  BY <1>1, <1>2 DEF nosqlFS_read_pread, nosqlFS_write_pwrite
<1>3. ASSUME call' = [call EXCEPT ![t] = NoCall] PROVE CodeInv'
  <2>1. /\ call'[t] = NoCall
        /\ \A u \in Threads \ {t} : call'[u] = call[u]
    BY <1>3 DEF IInv, TypeOK
  <2> QED BY <2>1 DEF CodeInv, NoCall
<1>4. CASE nosqlFS_open_close(t)
  BY <1>3, <1>4 DEF nosqlFS_open_close, Return, Ended, Coded, ErrorCodeKept, OneCall
<1>5. CASE nosqlFS_io_close(t)
  <2>1. call[t].logged /\ call[t].sys # 0 =>
          call[t].op # "readdir" /\ call[t].ret \in {-call[t].sys, -EBADF}
    BY <1>5 DEF nosqlFS_io_close, CodeInv
  <2>2. /\ last'.op = call[t].op /\ last'.ret = call[t].ret /\ last'.sys = call[t].sys
        /\ last'.logged = call[t].logged /\ last'.op \notin OneCall
    BY <1>5 DEF nosqlFS_io_close, Ended, OneCall
  <2> QED BY <1>3, <1>5, <2>1, <2>2 DEF nosqlFS_io_close, Coded, ErrorCodeKept
<1>6. CASE nosqlFS_mknod_close(t)
  BY <1>3, <1>6 DEF nosqlFS_mknod_close, mknod_tail, Return, Ended, Coded, ErrorCodeKept, OneCall
<1>7. CASE nosqlFS_readdir_loop(t)
  <2>1. PICK l \in BOOLEAN : call' = [call EXCEPT ![t].at = "close", ![t].lost = l]
    BY <1>7 DEF nosqlFS_readdir_loop
  <2>2. /\ call[t].at = "loop" /\ call'[t] = [call[t] EXCEPT !.at = "close", !.lost = l]
        /\ \A u \in Threads \ {t} : call'[u] = call[u]
    BY <1>7, <2>1 DEF nosqlFS_readdir_loop, IInv, TypeOK
  <2>3. /\ call'[t].op = call[t].op /\ call'[t].ret = call[t].ret
        /\ call'[t].sys = call[t].sys /\ call'[t].logged = call[t].logged
    BY <2>2 DEF IInv, TypeOK
  <2>4. CodeInv'
    <3>1. call[t].logged /\ call[t].sys # 0 =>
            call[t].op # "readdir" /\ call[t].ret \in {-call[t].sys, -EBADF}
      BY <2>2 DEF CodeInv
    <3>2. call'[t].logged /\ call'[t].sys # 0 =>
            call'[t].op # "readdir" /\ call'[t].ret \in {-call'[t].sys, -EBADF}
      BY <2>3, <3>1
    <3> QED BY <2>2, <3>2 DEF CodeInv
  <2>5. ErrorCodeKept'
    BY <1>7 DEF nosqlFS_readdir_loop, NoResult, ErrorCodeKept
  <2> QED BY <2>4, <2>5 DEF Coded
<1> QED BY <1>2, <1>4, <1>5, <1>6, <1>7 DEF Progress

CodesInv == IInv /\ CodeInv /\ ErrorCodeKept

LEMMA CodesStep == CodesInv /\ [Next]_vars => CodesInv'
<1> SUFFICES ASSUME CodesInv, [Next]_vars PROVE Coded
  BY IInvStep DEF CodesInv, Coded
<1>1. TypeOK /\ IInv /\ CodeInv
  BY DEF CodesInv, IInv
<1>2. ASSUME NEW t \in Threads, NEW p \in Paths, PathRequest(t, p) PROVE Coded
  BY <1>1, <1>2, PathRequestCoded
<1>3. ASSUME NEW t \in Threads, NEW p \in Paths, NEW q \in Paths, nosqlFS_link(t, p, q)
      PROVE  Coded
  <2>1. AbsentErr(p) \cup ErrIf(Exists(q), EEXIST)
          \cup ErrIf(Exists(p) /\ KindOf(p) = "dir", EPERM) \subseteq Errnos
    BY ErrsAreErrnos DEF ErrIf, Errnos
  <2> QED BY <1>1, <1>3, <2>1, OneSyscallCoded DEF nosqlFS_link
<1>4. ASSUME NEW t \in Threads, NEW p \in Paths, NEW q \in Paths,
             NEW flags \in RenameFlags, nosqlFS_rename(t, p, q, flags)
      PROVE  Coded
  BY <1>1, <1>4, ErrsAreErrnos, OneSyscallCoded DEF nosqlFS_rename
<1>5. ASSUME NEW t \in Threads, Progress(t) PROVE Coded
  BY <1>1, <1>5, ProgressCoded
<1>6. ASSUME NEW p \in Paths, Outside(p) PROVE Coded
  BY <1>1, <1>6, ReturnCoded DEF Outside, NoResult
<1>7. CASE UNCHANGED vars
  BY <1>7 DEF vars, CodesInv, Coded, CodeInv, ErrorCodeKept
<1> QED BY <1>2, <1>3, <1>4, <1>5, <1>6, <1>7 DEF Next

\* When the log takes the message, a handler returns the negated errno of the first call
\* that failed of those whose result it keeps, whatever closedir and close do afterwards;
\* read and write may return EBADF for an open() whose failure they did not see.
THEOREM ErrorCodesKept == Spec => []ErrorCodeKept
<1>1. Init => CodesInv
  BY IInvInit DEF Init, NoCall, NoResult, CodesInv, CodeInv, ErrorCodeKept
<1>2. Spec => []CodesInv
  BY <1>1, CodesStep, PTL DEF Spec
<1>3. CodesInv => ErrorCodeKept
  BY DEF CodesInv
<1> QED BY <1>2, <1>3, PTL

====
