------------------------------- MODULE BufVec -------------------------------
(***************************************************************************)
(* Copying between buffer vectors (buffer.c).  A buffer is memory or a file *)
(* descriptor; a vector has a position, idx and off, that a copy moves on.  *)
(* Data is a sequence of bytes with a name each; a descriptor may have less *)
(* of it than the buffer's size says (the end of the file).                 *)
(*                                                                          *)
(* k is a copy under way: the two vectors, out, the bytes that have reached *)
(* the destination, and sys, what the next system calls will do: Full, all  *)
(* there is; Less, one byte less; or an error.  Past its end all are Full.  *)
(***************************************************************************)
EXTENDS Integers, SequencesExt

CONSTANTS CHUNK,    \* fuse_buf_fd_to_fd copies through a buffer of this size
          MaxLoop   \* bound on the rounds of a copying loop

ASSUME BufAssumption == CHUNK \in Nat \ {0} /\ MaxLoop \in Nat

EAGAIN == -11
EINVAL == -22
Full == 0
Less == 1

\* A vector of buffers [fd, retry, size, data] at its start.
Vec(bufs) == [bufs |-> bufs, idx |-> 1, off |-> 0]

fuse_buf_size(v) == FoldLeft(LAMBDA n, b : n + b.size, 0, v.bufs)

min_size(a, b) == IF a < b THEN a ELSE b

Outcome_(sys) == IF sys = <<>> THEN Full ELSE Head(sys)
Next_(sys) == IF sys = <<>> THEN sys ELSE Tail(sys)

\* External: a read, write or splice of up to n bytes; what came of it, or the error.
SysCall(sys, n) ==
  IF Outcome_(sys) < 0 THEN Outcome_(sys)
  ELSE IF Outcome_(sys) = Less /\ n > 1 THEN n - 1 ELSE n

\* The loops of fuse_buf_read, fuse_buf_write, fuse_buf_splice and fuse_buf_fd_to_fd.  m: the
\* bytes left to ask for and left to get, res, the bytes copied or the error of the first
\* call, whether the loop goes on, and the system calls to come.
Loop(sys, n, have) == [left |-> n, have |-> have, res |-> 0, go |-> TRUE, sys |-> sys]
Stopped(m, r, sys) == [m EXCEPT !.go = FALSE, !.sys = sys, !.res = IF @ = 0 THEN r ELSE @]
Moved(m, r, go, sys) ==
  [m EXCEPT !.go = go, !.sys = sys, !.res = @ + r, !.left = @ - r, !.have = @ - r]

Did(m, r, retry) ==
  IF r <= 0 THEN Stopped(m, r, Next_(m.sys)) ELSE Moved(m, r, retry, Next_(m.sys))
Round(m, retry) ==
  IF ~m.go \/ m.left = 0 THEN m ELSE Did(m, SysCall(m.sys, min_size(m.left, m.have)), retry)
Move(sys, retry, n, have) ==
  LET m[i \in 0 .. MaxLoop] == IF i = 0 THEN Loop(sys, n, have) ELSE Round(m[i - 1], retry)
  IN  m[MaxLoop]

fuse_buf_write(sys, dst, n) == Move(sys, dst.retry, n, n)
fuse_buf_read(sys, src, off, n) == Move(sys, src.retry, n, Len(src.data) - off)

\* Piece by piece: read, then write what was read; a short write ends it.
Wrote(m, w) ==
  IF w.res <= 0 THEN Stopped(m, w.res, w.sys)
  ELSE Moved(m, w.res, w.res = min_size(CHUNK, m.left), w.sys)
Read(m, dst, r) ==
  IF r.res <= 0 THEN Stopped(m, r.res, r.sys) ELSE Wrote(m, fuse_buf_write(r.sys, dst, r.res))
Piece(m, dst, src, off) ==
  IF ~m.go \/ m.left = 0 THEN m
  ELSE Read(m, dst, fuse_buf_read(m.sys, src, off + m.res, min_size(CHUNK, m.left)))
fuse_buf_fd_to_fd(sys, dst, src, off, n) ==
  LET m[i \in 0 .. MaxLoop] == IF i = 0 THEN Loop(sys, n, n) ELSE Piece(m[i - 1], dst, src, off)
  IN  m[MaxLoop]

\* Splicing may not be possible between the two: then through memory, unless forced.
SplicedBy(m, dst, src, off, n, force) ==
  IF m.res = EINVAL /\ ~force THEN fuse_buf_fd_to_fd(m.sys, dst, src, off, n) ELSE m
fuse_buf_splice(sys, dst, src, off, n, force) ==
  SplicedBy(Move(sys, src.retry \/ dst.retry, n, Len(src.data) - off), dst, src, off, n, force)

\* Each gives res, the bytes or an error, and sys, the calls to come.
fuse_buf_copy_one(sys, dst, src, off, n, flags) ==
  CASE ~src.fd /\ ~dst.fd -> [res |-> n, sys |-> sys]
    [] ~src.fd /\ dst.fd  -> fuse_buf_write(sys, dst, n)
    [] src.fd /\ ~dst.fd  -> fuse_buf_read(sys, src, off, n)
    [] OTHER -> IF "no_splice" \in flags THEN fuse_buf_fd_to_fd(sys, dst, src, off, n)
                ELSE fuse_buf_splice(sys, dst, src, off, n, "force" \in flags)

AtEnd(v) == v.idx > Len(v.bufs)
fuse_bufvec_current(v) == v.bufs[v.idx]

\* Mutant: the offset is kept when the next buffer begins.
fuse_bufvec_advance_Kept(v, n) ==
  IF v.off + n = fuse_bufvec_current(v).size
  THEN [v EXCEPT !.idx = @ + 1, !.off = @ + n] ELSE [v EXCEPT !.off = @ + n]

\* After the last buffer off is left where it is.
fuse_bufvec_advance(v, n) ==
  IF v.off + n # fuse_bufvec_current(v).size THEN [v EXCEPT !.off = @ + n]
  ELSE IF v.idx = Len(v.bufs) THEN [v EXCEPT !.idx = @ + 1, !.off = @ + n]
  ELSE [v EXCEPT !.idx = @ + 1, !.off = 0]

\* The destination is not moved on when the source has come to its end.
Advanced(k, len, r, src, dst) ==
  [k EXCEPT !.src = src, !.dst = IF AtEnd(src) THEN @ ELSE dst, !.sys = r.sys,
            !.out = @ \o SubSeq(fuse_bufvec_current(k.src).data, k.src.off + 1, k.src.off + r.res),
            !.res = @ + r.res, !.go = ~AtEnd(src) /\ ~AtEnd(dst) /\ r.res = len]
CopyOne(k, len, r) ==
  IF r.res < 0 THEN Stopped(k, r.res, r.sys)
  ELSE Advanced(k, len, r, fuse_bufvec_advance(k.src, r.res), fuse_bufvec_advance(k.dst, r.res))
CopyLen(k, src, dst, len, flags) ==
  CopyOne(k, len, fuse_buf_copy_one(k.sys, dst, src, k.src.off, len, flags))
CopyBufs(k, src, dst, flags) ==
  CopyLen(k, src, dst, min_size(src.size - k.src.off, dst.size - k.dst.off), flags)
CopyRound(k, flags) ==
  IF ~k.go \/ AtEnd(k.src) \/ AtEnd(k.dst) THEN k
  ELSE CopyBufs(k, fuse_bufvec_current(k.src), fuse_bufvec_current(k.dst), flags)

\* res: bytes copied, or the error of the first piece; out: those bytes.
fuse_buf_copy(dstv, srcv, flags, sys) ==
  LET k[i \in 0 .. MaxLoop] ==
        IF i = 0 THEN [src |-> srcv, dst |-> dstv, out |-> <<>>, sys |-> sys, res |-> 0, go |-> TRUE]
        ELSE CopyRound(k[i - 1], flags)
  IN  k[MaxLoop]
=============================================================================
