------------------------------ MODULE FuseDir ------------------------------
(***************************************************************************)
(* Reading a directory (fuse.c): the file system hands entries to fill_dir  *)
(* or fill_dir_plus, with an offset of its own, when they go straight into  *)
(* the reply, or without, when all of them go on a list in the handle and   *)
(* the replies are made from the list by position.                          *)
(*                                                                          *)
(* Sizes are in units of a plain entry.  External: how the file system      *)
(* calls the filler (conf.mode).                                            *)
(***************************************************************************)
EXTENDS FuseHandlers

\* A handle as opendir makes it.  len, needlen and size are of contents, the reply buffer.
NewDh == [filled |-> FALSE, list |-> <<>>, len |-> 0, needlen |-> 0, size |-> 0,
          error |-> 0, contents |-> <<>>]

fuse_add_direntry == 1
fuse_add_direntry_plus == 2
EntLen(plus) == IF plus THEN fuse_add_direntry_plus ELSE fuse_add_direntry

Stops(c) == [c EXCEPT !.stop = TRUE]
DhError(c, e) == [c EXCEPT !.dh.error = e, !.stop = TRUE]

\* The buffer doubles from 1 unit until it holds minsize.
Doubled == [k \in 0 .. 8 |-> 2 ^ k]
extend_contents(c, minsize) ==
  IF minsize <= c.dh.size THEN c
  ELSE IF ~c.env.mem THEN DhError(c, ENOMEM)
  ELSE [c EXCEPT !.dh.size =
          Doubled[CHOOSE k \in DOMAIN Doubled :
                    /\ Doubled[k] >= Max2(minsize, c.dh.size)
                    /\ \A j \in 0 .. k - 1 : Doubled[j] < Max2(minsize, c.dh.size)]]

fuse_add_direntry_to_dh(c, name) ==
  IF c.env.mem THEN [c EXCEPT !.dh.list = Append(@, name)] ELSE DhError(c, ENOMEM)

Append1(c, e, plus) ==
  [c EXCEPT !.dh.contents = Append(@, e), !.dh.len = @ + EntLen(plus)]

\* An entry with an offset: into the reply if it fits, else the filler says stop.
Direct(c, e, plus) ==
  IF c.stop THEN c
  ELSE IF c.dh.len + EntLen(plus) > c.dh.needlen THEN Stops([c EXCEPT !.dh.filled = FALSE])
  ELSE Append1([c EXCEPT !.dh.filled = FALSE], e, plus)

WithOffset(c, e, plus) ==
  IF c.stop THEN c
  ELSE IF c.dh.list # <<>> THEN DhError(c, EIO)
  ELSE Direct(extend_contents(c, c.dh.needlen), e, plus)
NoOffset(c, name) ==
  IF ~c.dh.filled THEN DhError(c, EIO) ELSE fuse_add_direntry_to_dh(c, name)

\* x: the entry's name, its offset or 0, whether its attributes come along, and whether
\* the file system set a flag the library does not know.
fill_dir(c, x) ==
  IF x.bad THEN DhError(c, EIO)
  ELSE IF x.off # 0 THEN WithOffset(c, [name |-> x.name, off |-> x.off, ino |-> FALSE], FALSE)
  ELSE NoOffset(c, x.name)

\* An entry that comes with attributes is looked up before it is known to fit.
PlusLookup(c, x) ==
  IF x.off = 0 \/ ~x.plus \/ x.name = "dot" THEN c
  ELSE IF ~c.env.node THEN DhError(c, ENOMEM)
  ELSE [c EXCEPT !.look = @ + 1]
fill_dir_plus(c, x) ==
  IF x.bad THEN DhError(c, EIO)
  ELSE IF x.off # 0
  THEN WithOffset(PlusLookup(c, x), [name |-> x.name, off |-> x.off,
                                     ino |-> x.plus /\ x.name # "dot"], TRUE)
  ELSE NoOffset(c, x.name)

\* External: the entries a file system passes to the filler.
Entries(c) ==
  LET first == IF c.conf.mode \in {"offset", "offplus"} THEN c.req.off + 1 ELSE 1
      off(i) == CASE c.conf.mode \in {"offset", "offplus"} -> i
                  [] c.conf.mode = "mixed" -> (i % 2) * i
                  [] OTHER -> 0
  IN  [k \in 1 .. Max2(0, Len(c.env.listing) - first + 1) |->
         LET i == first + k - 1
         IN  [name |-> c.env.listing[i], off |-> off(i), plus |-> c.conf.mode = "offplus",
              bad |-> c.conf.mode = "flags"]]

Filler(c, x) ==
  IF c.stop THEN c ELSE IF c.req.plus THEN fill_dir_plus(c, x) ELSE fill_dir(c, x)

\* External: a readdir that fails may have filled something.
FilledWith(c, es) ==
  LET d[i \in 0 .. Len(es)] == IF i = 0 THEN c ELSE Filler(d[i - 1], es[i]) IN d[Len(es)]
fuse_fs_readdir(c) ==
  IF ~Registered(c, "readdir") THEN Fails(c, ENOSYS)
  ELSE FilledWith(Called(c, "readdir"), Entries(c))

ResetDh(c) ==
  [c EXCEPT !.dh = [@ EXCEPT !.list = <<>>, !.len = 0, !.contents = <<>>, !.error = 0,
                             !.needlen = c.req.size, !.filled = TRUE]]
FillErr(c) == IF c.err = 0 THEN Fails(c, c.dh.error) ELSE c
NotFilled(c) == IF c.err # 0 THEN [c EXCEPT !.dh.filled = FALSE] ELSE c
FillCalls(c) == fuse_fs_readdir(ResetDh(c))
Filled(c) == free_path(NotFilled(FillErr(fuse_finish_interrupt(c))))

readdir_fill(c) ==
  LET p == IF Registered(c, "readdir") THEN get_path_nullok(c) ELSE get_path(c)
  IN  IF p.err # 0 THEN p ELSE Filled(FillCalls(fuse_prepare_interrupt(p)))

\* Mutant: the entry at the offset is sent again.
FromList_Again(c, i) ==
  IF c.stop \/ i < c.req.off THEN c
  ELSE IF c.dh.len + EntLen(c.req.plus) > c.dh.needlen THEN Stops(c)
  ELSE Append1(c, [name |-> c.dh.list[i], off |-> i, ino |-> FALSE], c.req.plus)

\* The rest of the list from position off on, as much as fits.
FromList(c, i) ==
  IF c.stop \/ i <= c.req.off THEN c
  ELSE IF c.dh.len + EntLen(c.req.plus) > c.dh.needlen THEN Stops(c)
  ELSE Append1(c, [name |-> c.dh.list[i], off |-> i, ino |-> FALSE], c.req.plus)

ListUpTo(c, n) ==
  LET d[i \in 0 .. n] == IF i = 0 THEN c ELSE FromList(d[i - 1], i) IN d[n]
ListInto(c) ==
  IF c.stop THEN Fails(c, c.dh.error) ELSE ListUpTo(c, Len(c.dh.list))
readdir_fill_from_list(c) ==
  ListInto(extend_contents([c EXCEPT !.dh.len = 0, !.dh.contents = <<>>, !.stop = FALSE],
                           c.dh.needlen))

FromDh(c) ==
  IF c.err = 0 /\ c.dh.filled
  THEN readdir_fill_from_list([c EXCEPT !.dh.needlen = c.req.size]) ELSE c
DirAnswer(c) == IF c.err # 0 THEN reply_err(c) ELSE fuse_reply_buf(c)

Rewind(c) == IF c.req.off = 0 THEN [c EXCEPT !.dh.filled = FALSE] ELSE c

ReadFrom(c) == IF c.dh.filled THEN c ELSE readdir_fill(c)
fuse_readdir_common(c) == DirAnswer(FromDh(ReadFrom(Rewind(c))))

\* FUSE_READDIR_PLUS is c.req.plus.
fuse_lib_readdir(c) == fuse_readdir_common(c)
fuse_lib_readdirplus(c) == fuse_readdir_common(c)

---------------------------------------------------------------------------
(* The handle *)

FreeDh(c) == [c EXCEPT !.dhs = @ - 1]

OpendirAnswer(c) ==
  IF c.err # 0 THEN FreeDh(reply_err(c))
  ELSE IF Refused(c) THEN FreeDh(Quiet(fuse_reply_open(c), fuse_fs_releasedir))
  ELSE fuse_reply_open(c)

fuse_lib_opendir(c) ==
  IF ~c.env.mem THEN fuse_reply_err(c, ENOMEM)
  ELSE free_path(OpendirAnswer(Within(get_path([c EXCEPT !.dhs = @ + 1, !.dh = NewDh]),
                                      fuse_fs_opendir)))

ReleasedirCalls(c) == Quiet(c, fuse_fs_releasedir)
fuse_lib_releasedir(c) ==
  fuse_reply_err(FreeDh(WithPath(Fails(get_path_nullok(c), 0), ReleasedirCalls)), 0)

fuse_lib_fsyncdir(c) == reply_err(WithPath(get_path_nullok(c), fuse_fs_fsyncdir))
=============================================================================
