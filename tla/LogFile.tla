------------------------------ MODULE LogFile ------------------------------
(***************************************************************************)
(* log.c: several worker threads write to one log file through log_msg,     *)
(* without a lock.  The stream itself is locked by stdio, so each fputs and *)
(* each vfprintf is atomic, but the line is written by two calls, and the   *)
(* text of the time goes through two static buffers: localtime's struct tm  *)
(* and time_buf.  Both are written and read without synchronisation: the    *)
(* text of a time is modelled as two halves that strftime writes one after  *)
(* the other, so that a reader can see halves of different times.           *)
(*                                                                          *)
(* The stream is line buffered: a stamp waits in its buffer for the end of  *)
(* the line, which flushes it.  The write may fail or be cut short, and     *)
(* nobody looks: stdio drops what was not written.  Messages without a      *)
(* newline, which wait for the next one, are not modelled.                  *)
(***************************************************************************)
EXTENDS Naturals, Sequences

CONSTANTS Threads,   \* threads that call log_msg
          MaxClock,  \* bound: the clock stops there
          MaxMsgs    \* bound: messages each thread writes

ASSUME LogBounds == MaxClock \in Nat /\ MaxMsgs \in Nat

VARIABLES clock,     \* seconds, time(0)
          tm,        \* the static struct tm of localtime
          time_buf,  \* the static text buffer, as two halves
          pc,        \* where in log_msg each thread is
          timep,     \* the local timep of each thread
          sent,      \* messages each thread has completed
          buf,       \* the stream's buffer: stamps that no newline has followed
          log,       \* the chunks in the file, in order
          alone,     \* history: no other thread was inside log_msg since this one entered
          near       \* history: the times taken by the log_msg of each thread and by those
                     \* that have run beside it

vars == <<clock, tm, time_buf, pc, timep, sent, buf, log, alone, near>>

Clock == 0 .. MaxClock
Steps == {"idle", "localtime", "date", "hour", "fputs", "vfprintf"}
Stamps == [what : {"stamp"}, by : Threads, date : Clock, hour : Clock, near : SUBSET Clock]
Msgs   == [what : {"msg"}, by : Threads, at : Clock, alone : BOOLEAN]

\* A part of a chunk, the last that a failed write has left.
Torn == [what |-> "torn"]

\* Types: every variable stays in its range.
TypeOK ==
  /\ clock \in Clock /\ tm \in Clock
  /\ time_buf \in [date : Clock, hour : Clock]
  /\ pc \in [Threads -> Steps]
  /\ timep \in [Threads -> Clock]
  /\ sent \in [Threads -> 0 .. MaxMsgs]
  /\ buf \in Seq(Stamps)
  /\ log \in Seq(Stamps \cup Msgs \cup {Torn})
  /\ alone \in [Threads -> BOOLEAN]
  /\ near \in [Threads -> SUBSET Clock]

\* log_open: the stream is new and line buffered, the static buffers are zero.
Init ==
  /\ clock = 0 /\ tm = 0
  /\ time_buf = [date |-> 0, hour |-> 0]
  /\ pc = [t \in Threads |-> "idle"]
  /\ timep = [t \in Threads |-> 0]
  /\ sent = [t \in Threads |-> 0]
  /\ buf = <<>> /\ log = <<>>
  /\ alone = [t \in Threads |-> TRUE]
  /\ near = [t \in Threads |-> {}]

Go(t, from, to) == pc[t] = from /\ pc' = [pc EXCEPT ![t] = to]

Inside == {t \in Threads : pc[t] # "idle"}

\* timep = time(0), on entry.
log_msg_time(t) ==
  /\ sent[t] < MaxMsgs
  /\ Go(t, "idle", "localtime")
  /\ timep' = [timep EXCEPT ![t] = clock]
  /\ alone' = [u \in Threads |-> IF u = t THEN Inside = {} ELSE alone[u] /\ u \notin Inside]
  /\ near' = [u \in Threads |-> CASE u = t -> {clock} \cup {timep[v] : v \in Inside}
                                  [] u \in Inside -> near[u] \cup {clock}
                                  [] OTHER -> near[u]]
  /\ UNCHANGED <<clock, tm, time_buf, sent, buf, log>>

\* Mutant: the time in tm is not brought up to date.
log_msg_localtime_Stale(t) ==
  /\ Go(t, "localtime", "date")
  /\ UNCHANGED <<clock, tm, time_buf, timep, sent, buf, log, alone, near>>

\* localtime(&timep) fills the static struct tm.
log_msg_localtime(t) ==
  /\ Go(t, "localtime", "date")
  /\ tm' = timep[t]
  /\ UNCHANGED <<clock, time_buf, timep, sent, buf, log, alone, near>>

\* Mutant: the date is formatted only when the rest of the text is of another time.
log_msg_strftime_date_Cached(t) ==
  /\ Go(t, "date", "hour")
  /\ time_buf' = IF time_buf.hour = tm THEN time_buf ELSE [time_buf EXCEPT !.date = tm]
  /\ UNCHANGED <<clock, tm, timep, sent, buf, log, alone, near>>

\* strftime writes the first half of time_buf, then the second.
log_msg_strftime_date(t) ==
  /\ Go(t, "date", "hour")
  /\ time_buf' = [time_buf EXCEPT !.date = tm]
  /\ UNCHANGED <<clock, tm, timep, sent, buf, log, alone, near>>

log_msg_strftime_hour(t) ==
  /\ Go(t, "hour", "fputs")
  /\ time_buf' = [time_buf EXCEPT !.hour = tm]
  /\ UNCHANGED <<clock, tm, timep, sent, buf, log, alone, near>>

\* fputs(time_buf, logFile): whatever the buffer holds now goes into the stream's.
log_msg_fputs(t) ==
  /\ Go(t, "fputs", "vfprintf")
  /\ buf' = Append(buf, [what |-> "stamp", by |-> t, date |-> time_buf.date,
                         hour |-> time_buf.hour, near |-> near[t]])
  /\ UNCHANGED <<clock, tm, time_buf, timep, sent, log, alone, near>>

\* What a flush of the chunks of all leaves in the file: all of them, or the first n and
\* perhaps a part of the next when the write fails or is short.
Flushed(all, n, torn) == log \o SubSeq(all, 1, n) \o (IF torn THEN <<Torn>> ELSE <<>>)

\* vfprintf(logFile, format, ap): the message, whose newline flushes the stream.  Its
\* result is dropped, and with it what the flush did not write.
log_msg_vfprintf(t) ==
  /\ Go(t, "vfprintf", "idle")
  /\ sent' = [sent EXCEPT ![t] = @ + 1]
  /\ \E all \in {Append(buf, [what |-> "msg", by |-> t, at |-> timep[t],
                               alone |-> alone[t]])} :
       \E n \in 0 .. Len(all), torn \in BOOLEAN :
         /\ torn => n < Len(all)
         /\ log' = Flushed(all, n, torn)
  /\ buf' = <<>>
  /\ near' = [near EXCEPT ![t] = {}]
  /\ UNCHANGED <<clock, tm, time_buf, timep, alone>>

Tick ==
  /\ clock < MaxClock
  /\ clock' = clock + 1
  /\ UNCHANGED <<tm, time_buf, pc, timep, sent, buf, log, alone, near>>

Next ==
  \/ \E t \in Threads :
       \/ log_msg_time(t) \/ log_msg_localtime(t) \/ log_msg_strftime_date(t)
       \/ log_msg_strftime_hour(t) \/ log_msg_fputs(t) \/ log_msg_vfprintf(t)
  \/ Tick

Spec == Init /\ [][Next]_vars

---------------------------------------------------------------------------
(* Properties *)

OwnStamp(i, j) == log[j].what = "stamp" /\ log[j].by = log[i].by

\* However the threads race for tm and time_buf, both halves of a stamp in the file are
\* times that its log_msg took itself or that another one took that ran beside it: a
\* stamp may be torn between two times or be a neighbour's, and is never one that an
\* earlier log_msg has left in the buffers.
StampsFromOverlap ==
  \A i \in 1 .. Len(log) :
    log[i].what = "stamp" => log[i].date \in log[i].near /\ log[i].hour \in log[i].near

\* The message of a log_msg that no other thread's overlapped comes directly after its own
\* stamp, with the time it took itself; a failed write may lose it or both, never only the
\* stamp.
IsolatedLineExact ==
  \A i \in 1 .. Len(log) :
    log[i].what = "msg" /\ log[i].alone =>
      /\ i > 1 /\ OwnStamp(i, i - 1)
      /\ log[i - 1].date = log[i].at /\ log[i - 1].hour = log[i].at

---------------------------------------------------------------------------
(* Inductive strengthenings *)

\* What a thread that is inside log_msg can find in the static buffers has been put there
\* since it came in.
NearAt(t) ==
  /\ pc[t] # "idle" => \A u \in Inside : timep[u] \in near[t]
  /\ pc[t] \in {"date", "hour", "fputs"} => tm \in near[t]
  /\ pc[t] \in {"hour", "fputs"} => time_buf.date \in near[t]
  /\ pc[t] = "fputs" => time_buf.hour \in near[t]

\* The stamps that wait in the stream's buffer are such, too.
NearInv ==
  /\ \A t \in Threads : NearAt(t)
  /\ \A i \in 1 .. Len(buf) : buf[i].date \in buf[i].near /\ buf[i].hour \in buf[i].near

\* A stamp waits only for a thread that is about to write its message.
BufInv == buf # <<>> => \E t \in Threads : pc[t] = "vfprintf"

\* While no other thread has come into log_msg since t did, the static buffers and the
\* stream's buffer are as t has left them.
AloneAt(t) ==
  pc[t] # "idle" /\ alone[t] =>
    /\ \A u \in Threads \ {t} : pc[u] = "idle"
    /\ pc[t] \in {"date", "hour"} => tm = timep[t]
    /\ pc[t] \in {"hour", "fputs"} => time_buf.date = timep[t]
    /\ pc[t] = "fputs" => time_buf.hour = timep[t]
    /\ pc[t] = "vfprintf" =>
         /\ Len(buf) = 1 /\ buf[1].by = t
         /\ buf[1].date = timep[t] /\ buf[1].hour = timep[t]

AloneInv == \A t \in Threads : AloneAt(t)

====
