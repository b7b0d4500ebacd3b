----------------------------- MODULE FuseSplice -----------------------------
(***************************************************************************)
(* The pipe each thread keeps for splicing (fuse_lowlevel.c).  Requests are *)
(* received through it and answers with data are sent through it, so that a *)
(* byte left in it would become part of the next request or answer.         *)
(*                                                                          *)
(* io: the pipe (open, its size, whether it may grow, the bytes in it),     *)
(* broken: broken_splice_nonblock; sys: what the coming system calls do;    *)
(* sent: the answer the device got; res: the code's res; ended: the loop    *)
(* leaves the session.  A page and a header are one byte each.  place: where *)
(* the worker's buffer (fbuf) says its request is, which outlives the request. *)
(***************************************************************************)
EXTENDS BufVec

CONSTANTS PipeSize   \* a new pipe's size, 16 pages

PAGE == 1
HEADER == 1

NoPipe == [open |-> FALSE, size |-> 0, grow |-> FALSE, bytes |-> <<>>, broken |-> FALSE,
           sys |-> <<>>, sent |-> <<>>, res |-> 0, ended |-> FALSE, place |-> "mem"]

\* External: a system call that works or fails as a whole.
Works(io) == Outcome_(io.sys) \in {Full, Less}
Called1(io) == [io EXCEPT !.sys = Next_(@)]
Left(io, n) == SubSeq(io.bytes, n + 1, Len(io.bytes))

fuse_ll_get_pipe(io) ==
  IF io.open THEN io
  ELSE IF Works(io) THEN [Called1(io) EXCEPT !.open = TRUE, !.size = PipeSize, !.grow = TRUE]
  ELSE Called1(io)

fuse_ll_clear_pipe(io) ==
  [io EXCEPT !.open = FALSE, !.size = 0, !.grow = FALSE, !.bytes = <<>>]

\* A pipe that is too small grows, once and for all if that fails.
Grown(io, need) ==
  IF io.size >= need \/ ~io.grow THEN io
  ELSE IF Works(io) THEN [Called1(io) EXCEPT !.size = need]
  ELSE [Called1(io) EXCEPT !.grow = FALSE]

\* Without splice, or with data it does not like: through memory.  res > 0 is an error to
\* be answered, res < 0 one of the device.
fuse_send_msg(io, bytes, dev) == [io EXCEPT !.sent = bytes, !.res = dev]

Sent_(io, hdr, r, dev) ==
  IF r.res < 0 THEN [io EXCEPT !.sys = r.sys, !.res = -r.res]
  ELSE fuse_send_msg([io EXCEPT !.sys = r.sys], hdr \o r.out, dev)
fuse_send_data_iov_fallback(io, hdr, v, mem, dev) ==
  IF Len(v.bufs) = 1 /\ v.idx = 1 /\ v.off = 0 /\ ~v.bufs[1].fd
  THEN fuse_send_msg(io, hdr \o v.bufs[1].data, dev)
  ELSE IF ~mem THEN [io EXCEPT !.res = 12]
  ELSE Sent_(io, hdr, fuse_buf_copy(Vec(<<[fd |-> FALSE, retry |-> FALSE,
                                           size |-> fuse_buf_size(v), data |-> <<>>]>>),
                                    v, {}, io.sys), dev)

Fallback(io, a, v) == fuse_send_data_iov_fallback(io, a.hdr, v, a.mem, a.dev)

\* The pipe's first n bytes go to the device; a refusal, or a splice that takes less (dev is
\* -EIO then), leaves them, and the pipe is freed.
Spliced(io, n, dev) ==
  IF dev # 0 THEN fuse_ll_clear_pipe([io EXCEPT !.res = dev])
  ELSE [io EXCEPT !.sent = SubSeq(io.bytes, 1, n), !.bytes = Left(io, n), !.res = 0]

\* A short count: what else there is, is read into memory behind what comes back from
\* the pipe; if there is nothing else, the pipe's content is the answer.
ReadBack(io, a, now, out) ==
  IF Outcome_(io.sys) # Full THEN fuse_ll_clear_pipe([Called1(io) EXCEPT !.res = -5])
  ELSE fuse_send_msg([Called1(io) EXCEPT !.bytes = Left(io, HEADER + now)],
                     a.hdr \o SubSeq(io.bytes, HEADER + 1, HEADER + now) \o out, a.dev)
Rest(io, a, now, r) ==
  IF r.res > 0 THEN ReadBack([io EXCEPT !.sys = r.sys], a, now, r.out)
  ELSE Spliced([io EXCEPT !.sys = r.sys], HEADER + now, a.dev)
Short(io, a, r) ==
  IF ~a.mem THEN fuse_ll_clear_pipe([io EXCEPT !.res = 12])
  ELSE Rest(io, a, r.res,
            fuse_buf_copy([Vec(<<[fd |-> FALSE, retry |-> FALSE, size |-> fuse_buf_size(a.vec),
                                  data |-> <<>>]>>) EXCEPT !.off = r.res], r.src, {}, io.sys))

\* Mutant: a pipe that could not take the data is used again.
Copied_Kept(io, a, r) ==
  IF r.res \in {EAGAIN, EINVAL} THEN Fallback(io, a, r.src)
  ELSE IF r.res < 0 THEN fuse_ll_clear_pipe([io EXCEPT !.res = -r.res])
  ELSE IF r.res # 0 /\ r.res < fuse_buf_size(a.vec) THEN Short(io, a, r)
  ELSE Spliced(io, HEADER + r.res, a.dev)

Copied(io, a, r) ==
  IF r.res = EAGAIN THEN Fallback(fuse_ll_clear_pipe([io EXCEPT !.broken = TRUE]), a, r.src)
  ELSE IF r.res = EINVAL THEN Fallback(fuse_ll_clear_pipe(io), a, r.src)
  ELSE IF r.res < 0 THEN fuse_ll_clear_pipe([io EXCEPT !.res = -r.res])
  ELSE IF r.res # 0 /\ r.res < fuse_buf_size(a.vec) THEN Short(io, a, r)
  ELSE Spliced(io, HEADER + r.res, a.dev)

IntoPipe(io, a, r) == Copied([io EXCEPT !.bytes = @ \o r.out, !.sys = r.sys], a, r)
HeaderIn(io, a) ==
  IF ~Works(io) THEN Fallback(Called1(io), a, a.vec)
  ELSE IF Outcome_(io.sys) = Less THEN fuse_ll_clear_pipe([Called1(io) EXCEPT !.res = -5])
  ELSE IntoPipe([Called1(io) EXCEPT !.bytes = @ \o a.hdr], a,
                fuse_buf_copy(Vec(<<[fd |-> TRUE, retry |-> FALSE, size |-> fuse_buf_size(a.vec),
                                     data |-> <<>>]>>), a.vec, {"force"}, Next_(io.sys)))
ByPipe(io, a, need) ==
  IF io.open /\ io.size >= need THEN HeaderIn(io, a) ELSE Fallback(io, a, a.vec)

\* Only the last descriptor's size counts.
FdSize(v) == FoldLeft(LAMBDA n, b : IF b.fd THEN b.size ELSE n, 0, v.bufs)

\* a: the answer's header, its data, whether there is memory and what the device says.
fuse_send_data_iov(io, a, want) ==
  IF io.broken \/ FdSize(a.vec) < 2 * PAGE \/ ~want THEN Fallback(io, a, a.vec)
  ELSE ByPipe(Grown(fuse_ll_get_pipe(io), PAGE * (2 + Len(a.vec.bufs)) + HEADER
                                          + fuse_buf_size(a.vec)),
              a, PAGE * (2 + Len(a.vec.bufs)) + HEADER + fuse_buf_size(a.vec))

---------------------------------------------------------------------------
(* Receiving.  in: "mem" or "fd", where the request is; "stale": in memory,  *)
(* but the buffer has kept the descriptor of an earlier one; got: its bytes  *)
(* when in memory.  Any error makes the loop leave the session.             *)

PipeVec(io, n) == Vec(<<[fd |-> TRUE, retry |-> FALSE, size |-> n, data |-> io.bytes]>>)
MemVec(n) == Vec(<<[fd |-> FALSE, retry |-> FALSE, size |-> n, data |-> <<>>]>>)

Received(io, where, bytes) == [io |-> io, in |-> where, got |-> bytes]
Located(io, where, bytes) == Received([io EXCEPT !.place = where], where, bytes)
Ends(io) == Received([io EXCEPT !.ended = TRUE], "none", <<>>)

\* A small request is copied out at once.
CopyOut(io, n, r) ==
  IF r.res < n THEN Ends(fuse_ll_clear_pipe([io EXCEPT !.sys = r.sys]))
  ELSE Located([io EXCEPT !.bytes = Left(io, n), !.sys = r.sys], "mem", r.out)
FromPipe(io, n, mem) ==
  IF n >= HEADER + PAGE THEN Located(io, "fd", <<>>)
  ELSE IF ~mem THEN Ends(io)
  ELSE CopyOut(io, n, fuse_buf_copy(MemVec(n), PipeVec(io, n), {}, io.sys))

SpliceIn(io, bytes, mem) ==
  IF Works(io) THEN FromPipe([Called1(io) EXCEPT !.bytes = @ \o bytes], Len(bytes), mem)
  ELSE Ends(Called1(io))

\* read() does not touch the flags and the descriptor in the buffer.
ReadIn(io, bytes, mem) ==
  IF mem THEN Received(io, IF io.place = "fd" THEN "stale" ELSE "mem", bytes) ELSE Ends(io)

ReceiveBy(io, bytes, mem, bufsize) ==
  IF io.open /\ io.size >= bufsize THEN SpliceIn(io, bytes, mem) ELSE ReadIn(io, bytes, mem)
fuse_session_receive_buf_int(io, bytes, mem, want, bufsize) ==
  IF ~want THEN ReadIn(io, bytes, mem)
  ELSE ReceiveBy(Grown(fuse_ll_get_pipe(io), bufsize), bytes, mem, bufsize)

\* Some bytes of the request out of the pipe: all of them or an error.
fuse_ll_copy_from_pipe(io, n, r) ==
  IF r.res < n THEN [io EXCEPT !.sys = r.sys, !.res = IF r.res < 0 THEN r.res ELSE -1]
  ELSE [io EXCEPT !.sys = r.sys, !.res = 0, !.bytes = Left(io, n)]
CopyFromPipe(io, n) ==
  fuse_ll_copy_from_pipe(io, n, fuse_buf_copy(MemVec(n), PipeVec(io, n), {}, io.sys))
=============================================================================
