----------------------------- MODULE MCFuseOps -----------------------------
(***************************************************************************)
(* Small instances of FuseOps: two lock owners, a short directory, and file *)
(* systems that register all functions, those of nosqlFS, few, or none.     *)
(***************************************************************************)
EXTENDS FuseOps

CONSTANTS o1, o2

AllOps == {"getattr", "fgetattr", "access", "readlink", "opendir", "readdir", "releasedir",
           "fsyncdir", "mknod", "mkdir", "symlink", "chmod", "chown", "truncate", "ftruncate",
           "utimens", "create", "open", "read", "read_buf", "write", "write_buf", "statfs",
           "flush", "release", "fsync", "setxattr", "getxattr", "listxattr", "removexattr",
           "lock", "flock", "bmap", "ioctl", "poll", "fallocate"}
\* nosqlFS_oper
NosqlOps == {"getattr", "access", "readlink", "readdir", "mknod", "mkdir", "symlink", "chmod",
             "chown", "truncate", "utimens", "open", "read", "write", "statfs", "release"}
\* By path only.
PathOps == AllOps \ {"fgetattr", "ftruncate", "read_buf", "write_buf", "create"}

Conf(work, reg) ==
  [work |-> work, reg |-> reg, nopath |-> FALSE, negative |-> FALSE, auto |-> FALSE,
   mode |-> "list", ioctldir |-> FALSE, splice |-> FALSE, bufsize |-> 6, allow_root |-> FALSE]
Rooted(c) == [c EXCEPT !.allow_root = TRUE]
NoPath(c) == [c EXCEPT !.nopath = TRUE, !.negative = TRUE, !.ioctldir = TRUE]

MCConfigs ==
  {Rooted(Conf("files", AllOps))} \cup {Conf("files", r) : r \in {NosqlOps, {}}}
    \cup {NoPath(Conf("files", r)) : r \in {AllOps, PathOps}}
    \cup {Rooted(Conf("locks", AllOps)), Conf("locks", NosqlOps)}
    \cup {[Conf("cache", r) EXCEPT !.auto = TRUE] : r \in {AllOps, PathOps}}
    \cup {[Conf("data", AllOps) EXCEPT !.splice = TRUE],
          [Rooted(Conf("data", NosqlOps)) EXCEPT !.splice = TRUE]}
    \cup {Conf("dir", NosqlOps)}
    \cup {[Conf("dir", AllOps) EXCEPT !.mode = m] :
            m \in {"list", "offset", "offplus", "mixed", "flags"}}

Buf(fd, size, have) == [fd |-> fd, retry |-> FALSE, size |-> size, have |-> have]
MCShapes ==
  {Flat(2), <<Buf(TRUE, 2, 2)>>, <<Buf(TRUE, 3, 2)>>, <<Buf(TRUE, 2, 0)>>,
   <<Buf(FALSE, 1, 1), Buf(TRUE, 2, 2)>>, <<Buf(TRUE, 2, 2), Buf(TRUE, 2, 1)>>,
   <<[Buf(TRUE, 3, 3) EXCEPT !.retry = TRUE]>>, <<Buf(TRUE, 4, 4), Buf(FALSE, 1, 1)>>}

MCListings == {<<"dot", "a">>, <<"dot", "a", "b">>}
=============================================================================
