----------------------------- MODULE FuseLocks -----------------------------
(***************************************************************************)
(* The record fuse.c keeps of the POSIX locks on an open file: node->locks, *)
(* a list of ranges with inclusive ends, ordered by start for each owner.   *)
(* A struct flock has a length instead of an end, and length 0 for a range  *)
(* that reaches OFFSET_MAX.                                                 *)
(***************************************************************************)
EXTENDS Integers, SequencesExt

CONSTANTS OFFSET_MAX,  \* the largest offset
          Owners       \* lock owners (fi->lock_owner)

ASSUME OffsetAssumption == OFFSET_MAX \in Nat \ {0}

Offsets == 0 .. OFFSET_MAX
LockTypes == {"R", "W"}
Lock == [owner: Owners, type: LockTypes, start: Offsets, end: Offsets]

\* The kernel's range into a struct flock.
convert_fuse_file_lock(fl) ==
  [type |-> fl.type, start |-> fl.start,
   len |-> IF fl.end = OFFSET_MAX THEN 0 ELSE fl.end - fl.start + 1]

flock_to_lock(flock, owner) ==
  [owner |-> owner, type |-> flock.type, start |-> flock.start,
   end |-> IF flock.len # 0 THEN flock.start + flock.len - 1 ELSE OFFSET_MAX]

lock_to_flock(lock) ==
  [type |-> lock.type, start |-> lock.start,
   len |-> IF lock.end = OFFSET_MAX THEN 0 ELSE lock.end - lock.start + 1]

\* What the kernel is told of a struct flock; a free range has no place.
FlockAnswer(flock) ==
  IF flock.type = "U" THEN [type |-> "U", start |-> 0, end |-> 0]
  ELSE [type |-> flock.type, start |-> flock.start,
        end |-> IF flock.len = 0 THEN OFFSET_MAX ELSE flock.start + flock.len - 1]

\* Mutant: a range that begins with the other's last byte is apart from it.
locks_conflict_Apart(ls, lock) ==
  {i \in DOMAIN ls : /\ ls[i].owner # lock.owner
                     /\ lock.start < ls[i].end /\ ls[i].start <= lock.end
                     /\ "W" \in {ls[i].type, lock.type}}

\* The places of the locks in the list ls that conflict with lock; the first one counts.
locks_conflict(ls, lock) ==
  {i \in DOMAIN ls : /\ ls[i].owner # lock.owner
                     /\ lock.start <= ls[i].end /\ ls[i].start <= lock.end
                     /\ "W" \in {ls[i].type, lock.type}}

---------------------------------------------------------------------------
(* locks_insert walks the list once.  s.lock is the lock being inserted,    *)
(* which grows by what it is merged with; s.out the list walked so far;     *)
(* s.pos its place, 0 while that is open; s.done that nothing is to insert. *)

Keep(s, l) == [s EXCEPT !.out = Append(@, l)]
Stop(s, before) == [s EXCEPT !.pos = Len(s.out) + 1, !.out = @ \o before]

Min2(a, b) == IF a < b THEN a ELSE b
Max2(a, b) == IF a < b THEN b ELSE a

\* Mutant: a lock that is merged grows to the new one's end only.
SameType_Shrink(s, l) ==
  IF l.end < s.lock.start - 1 THEN Keep(s, l)
  ELSE IF s.lock.end < l.start - 1 THEN Stop(s, <<l>>)
  ELSE IF l.start <= s.lock.start /\ s.lock.end <= l.end
  THEN [Keep(s, l) EXCEPT !.done = TRUE]
  ELSE [s EXCEPT !.lock.start = Min2(@, l.start)]

SameType(s, l) ==
  IF l.end < s.lock.start - 1 THEN Keep(s, l)
  ELSE IF s.lock.end < l.start - 1 THEN Stop(s, <<l>>)
  ELSE IF l.start <= s.lock.start /\ s.lock.end <= l.end
  THEN [Keep(s, l) EXCEPT !.done = TRUE]
  ELSE [s EXCEPT !.lock.start = Min2(@, l.start), !.lock.end = Max2(@, l.end)]

\* Mutant: the rest of a lock that is split begins at the end of the hole.
OtherType_Overlap(s, l) ==
  IF l.end < s.lock.start THEN Keep(s, l)
  ELSE IF s.lock.end < l.start THEN Stop(s, <<l>>)
  ELSE IF s.lock.start <= l.start /\ l.end <= s.lock.end THEN s
  ELSE IF l.end <= s.lock.end THEN Keep(s, [l EXCEPT !.end = s.lock.start - 1])
  ELSE IF s.lock.start <= l.start THEN Stop(s, <<[l EXCEPT !.start = s.lock.end + 1]>>)
  ELSE Stop(Keep(s, [l EXCEPT !.end = s.lock.start - 1]), <<[l EXCEPT !.start = s.lock.end]>>)

\* The last case splits l: the loop goes on at the second part, which ends it.
OtherType(s, l) ==
  IF l.end < s.lock.start THEN Keep(s, l)
  ELSE IF s.lock.end < l.start THEN Stop(s, <<l>>)
  ELSE IF s.lock.start <= l.start /\ l.end <= s.lock.end THEN s
  ELSE IF l.end <= s.lock.end THEN Keep(s, [l EXCEPT !.end = s.lock.start - 1])
  ELSE IF s.lock.start <= l.start THEN Stop(s, <<[l EXCEPT !.start = s.lock.end + 1]>>)
  ELSE Stop(Keep(s, [l EXCEPT !.end = s.lock.start - 1]),
            <<[l EXCEPT !.start = s.lock.end + 1]>>)

Walk(s, l) ==
  IF s.done \/ s.pos # 0 \/ l.owner # s.lock.owner THEN Keep(s, l)
  ELSE IF s.lock.type = l.type THEN SameType(s, l)
  ELSE OtherType(s, l)

Insert(s) ==
  IF s.done \/ s.lock.type = "U" THEN s.out
  ELSE InsertAt(s.out, IF s.pos = 0 THEN Len(s.out) + 1 ELSE s.pos, s.lock)

\* Unlocking everything allocates nothing; anything else may fail for want of memory.
NeedsMemory(lock) == lock.type # "U" \/ lock.start # 0 \/ lock.end # OFFSET_MAX

Walked(ls, lock) ==
  LET s[i \in 0 .. Len(ls)] ==
        IF i = 0 THEN [lock |-> lock, out |-> <<>>, pos |-> 0, done |-> FALSE]
        ELSE Walk(s[i - 1], ls[i])
  IN  s[Len(ls)]

locks_insert(ls, lock, mem) ==
  IF NeedsMemory(lock) /\ ~mem THEN ls ELSE Insert(Walked(ls, lock))

---------------------------------------------------------------------------
(* What a list says of each byte *)

Covering(ls, o, b) == {i \in DOMAIN ls : ls[i].owner = o /\ ls[i].start <= b /\ b <= ls[i].end}
HeldBytes(ls) == [o \in Owners |-> [b \in Offsets |->
                    IF Covering(ls, o, b) = {} THEN "U"
                    ELSE ls[CHOOSE i \in Covering(ls, o, b) : TRUE].type]]

\* Each owner's ranges are in order, apart, and apart by a gap if of the same type.
OrderedLocks(ls) ==
  \A i, j \in DOMAIN ls :
    i < j /\ ls[i].owner = ls[j].owner =>
      /\ ls[i].end < ls[j].start
      /\ ls[i].type = ls[j].type => ls[i].end + 1 < ls[j].start
=============================================================================
