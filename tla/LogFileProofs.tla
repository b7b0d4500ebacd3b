---------------------------- MODULE LogFileProofs ----------------------------
(***************************************************************************)
(* Proofs about LogFile, for any threads (infinitely many included), any    *)
(* clock and any number of messages.                                        *)
(***************************************************************************)
EXTENDS LogFile, SequenceTheorems, TLAPS

Chunks == Stamps \cup Msgs \cup {Torn}

LEMMA TypeInit == Init => TypeOK
BY LogBounds DEF Init, TypeOK, Clock, Steps

\* The chunks that the two calls write.
LEMMA StampType ==
  ASSUME TypeOK, NEW t \in Threads
  PROVE  [what |-> "stamp", by |-> t, date |-> time_buf.date, hour |-> time_buf.hour,
          near |-> near[t]] \in Stamps
BY DEF TypeOK, Stamps

LEMMA MsgType ==
  ASSUME TypeOK, NEW t \in Threads
  PROVE  [what |-> "msg", by |-> t, at |-> timep[t], alone |-> alone[t]] \in Msgs
BY DEF TypeOK, Msgs

\* What a flush leaves in the file: the chunks that were there, a first part of the new
\* ones, and at most a torn one.
LEMMA FlushedChunks ==
  ASSUME NEW all \in Seq(Chunks), NEW n \in 0 .. Len(all), NEW torn \in BOOLEAN,
         log \in Seq(Chunks)
  PROVE  /\ Flushed(all, n, torn) \in Seq(Chunks)
         /\ Len(log) + n <= Len(Flushed(all, n, torn))
         /\ \A i \in 1 .. Len(log) : Flushed(all, n, torn)[i] = log[i]
         /\ \A k \in 1 .. n : Flushed(all, n, torn)[Len(log) + k] = all[k]
         /\ \A i \in 1 .. Len(Flushed(all, n, torn)) :
              i > Len(log) + n => Flushed(all, n, torn)[i] = Torn
<1>1. PICK part : part = SubSeq(all, 1, n)
  OBVIOUS
<1>2. part \in Seq(Chunks) /\ Len(part) = n /\ \A k \in 1 .. n : part[k] = all[k]
  BY <1>1
<1>3. PICK rest : rest = IF torn THEN <<Torn>> ELSE <<>>
  OBVIOUS
<1>4. /\ rest \in Seq(Chunks) /\ Len(rest) \in 0 .. 1
      /\ \A k \in 1 .. Len(rest) : rest[k] = Torn
  <2>1. CASE torn
    BY <1>3, <2>1 DEF Chunks
  <2>2. CASE ~torn
    BY <1>3, <2>2
  <2> QED BY <2>1, <2>2
<1>5. PICK first : first = log \o part
  OBVIOUS
<1>6. /\ first \in Seq(Chunks) /\ Len(first) = Len(log) + n
      /\ \A i \in 1 .. Len(log) : first[i] = log[i]
      /\ \A k \in 1 .. n : first[Len(log) + k] = all[k]
  <2>1. /\ first \in Seq(Chunks) /\ Len(first) = Len(log) + Len(part)
        /\ \A i \in 1 .. Len(first) :
             first[i] = IF i <= Len(log) THEN log[i] ELSE part[i - Len(log)]
    <3>1. /\ log \o part \in Seq(Chunks) /\ Len(log \o part) = Len(log) + Len(part)
          /\ \A i \in 1 .. Len(log) + Len(part) :
               (log \o part)[i] = IF i <= Len(log) THEN log[i] ELSE part[i - Len(log)]
      BY <1>2, ConcatProperties, ZenonT(30)
    <3> QED BY <1>5, <3>1
  <2>2. Len(log) \in Nat /\ n \in Nat
    OBVIOUS
  <2>3. ASSUME NEW k \in 1 .. n PROVE first[Len(log) + k] = all[k]
    <3>1. Len(log) + k \in 1 .. Len(first) /\ ~(Len(log) + k <= Len(log))
          /\ (Len(log) + k) - Len(log) = k
      BY <1>2, <2>1, <2>2
    <3>2. first[Len(log) + k] = part[(Len(log) + k) - Len(log)]
      BY <2>1, <3>1
    <3> QED BY <1>2, <3>1, <3>2
  <2>4. \A i \in 1 .. Len(log) : first[i] = log[i]
    BY <1>2, <2>1, <2>2
  <2> QED BY <1>2, <2>1, <2>3, <2>4
<1>7. PICK file : file = first \o rest
  OBVIOUS
<1>8. /\ file \in Seq(Chunks) /\ Len(file) = Len(first) + Len(rest)
      /\ \A i \in 1 .. Len(first) : file[i] = first[i]
      /\ \A i \in 1 .. Len(file) : i > Len(first) => file[i] = Torn
  <2>1. /\ file \in Seq(Chunks) /\ Len(file) = Len(first) + Len(rest)
        /\ \A i \in 1 .. Len(file) :
             file[i] = IF i <= Len(first) THEN first[i] ELSE rest[i - Len(first)]
    <3>1. /\ first \o rest \in Seq(Chunks) /\ Len(first \o rest) = Len(first) + Len(rest)
          /\ \A i \in 1 .. Len(first) + Len(rest) :
               (first \o rest)[i] = IF i <= Len(first) THEN first[i] ELSE rest[i - Len(first)]
      BY <1>4, <1>6, ConcatProperties, ZenonT(30)
    <3> QED BY <1>7, <3>1
  <2>2. Len(first) \in Nat /\ Len(rest) \in Nat
    BY <1>4, <1>6
  <2>3. \A i \in 1 .. Len(first) : file[i] = first[i]
    BY <2>1, <2>2
  <2>4. ASSUME NEW i \in 1 .. Len(file), i > Len(first) PROVE file[i] = Torn
    <3>1. i - Len(first) \in 1 .. Len(rest)
      BY <2>1, <2>2, <2>4
    <3> QED BY <1>4, <2>1, <2>2, <2>4, <3>1
  <2> QED BY <2>1, <2>3, <2>4
<1>9. Flushed(all, n, torn) = file
  BY <1>1, <1>3, <1>5, <1>7 DEF Flushed
<1>10. /\ Len(log) \in Nat /\ n \in Nat
       /\ \A i \in 1 .. Len(log) : file[i] = log[i]
       /\ \A k \in 1 .. n : file[Len(log) + k] = all[k]
  BY <1>6, <1>8
<1> QED BY <1>4, <1>6, <1>8, <1>9, <1>10

\* A thread inside log_msg has a message left to write.
MsgLeft == \A t \in Threads : pc[t] # "idle" => sent[t] < MaxMsgs

TypeInv == TypeOK /\ MsgLeft

\* What a vfprintf writes: the stamps that wait and its message.
LEMMA Vfprintf ==
  ASSUME TypeInv, NEW t \in Threads, log_msg_vfprintf(t)
  PROVE  \E msg \in Msgs, all \in Seq(Chunks), n \in Nat :
           /\ msg.what = "msg" /\ msg.by = t /\ msg.at = timep[t] /\ msg.alone = alone[t]
           /\ Len(all) = Len(buf) + 1 /\ all[Len(buf) + 1] = msg
           /\ \A k \in 1 .. Len(buf) : all[k] = buf[k]
           /\ n <= Len(all)
           /\ log' \in Seq(Chunks) /\ Len(log) + n <= Len(log')
           /\ \A i \in 1 .. Len(log) : log'[i] = log[i]
           /\ \A k \in 1 .. n : log'[Len(log) + k] = all[k]
           /\ \A i \in 1 .. Len(log') : i > Len(log) + n => log'[i] = Torn
<1>1. PICK msg : msg = [what |-> "msg", by |-> t, at |-> timep[t], alone |-> alone[t]]
  OBVIOUS
<1>2. PICK all : all = Append(buf, msg)
  OBVIOUS
<1>3. PICK n \in 0 .. Len(all), torn \in BOOLEAN : log' = Flushed(all, n, torn)
  BY <1>1, <1>2 DEF log_msg_vfprintf
<1>4. msg \in Msgs
  BY <1>1, MsgType DEF TypeInv
<1>5. buf \in Seq(Chunks) /\ log \in Seq(Chunks) /\ msg \in Chunks
  BY <1>4 DEF TypeInv, TypeOK, Chunks
<1>6. /\ all \in Seq(Chunks) /\ Len(all) = Len(buf) + 1 /\ all[Len(buf) + 1] = msg
      /\ \A k \in 1 .. Len(buf) : all[k] = buf[k] /\ n \in Nat /\ n <= Len(all)
  BY <1>2, <1>3, <1>5
<1>7. n \in Nat /\ n <= Len(all)
  BY <1>3, <1>6
<1>8. /\ log' \in Seq(Chunks) /\ Len(log) + n <= Len(log')
      /\ \A i \in 1 .. Len(log) : log'[i] = log[i]
      /\ \A k \in 1 .. n : log'[Len(log) + k] = all[k]
      /\ \A i \in 1 .. Len(log') : i > Len(log) + n => log'[i] = Torn
  BY <1>3, <1>5, <1>6, FlushedChunks
<1>9. \E a \in Seq(Chunks), m \in Nat :
        /\ Len(a) = Len(buf) + 1 /\ a[Len(buf) + 1] = msg
        /\ \A k \in 1 .. Len(buf) : a[k] = buf[k]
        /\ m <= Len(a)
        /\ log' \in Seq(Chunks) /\ Len(log) + m <= Len(log')
        /\ \A i \in 1 .. Len(log) : log'[i] = log[i]
        /\ \A k \in 1 .. m : log'[Len(log) + k] = a[k]
        /\ \A i \in 1 .. Len(log') : i > Len(log) + m => log'[i] = Torn
  BY <1>6, <1>7, <1>8, Zenon
<1>10. msg.what = "msg" /\ msg.by = t /\ msg.at = timep[t] /\ msg.alone = alone[t]
  BY <1>1
<1> QED BY <1>4, <1>9, <1>10, ZenonT(40)

LEMMA TypeStep == TypeInv /\ [Next]_vars => TypeInv'
<1> SUFFICES ASSUME TypeInv, [Next]_vars PROVE TypeInv'
  OBVIOUS
<1> USE LogBounds DEF Go
<1>1. ASSUME NEW t \in Threads, log_msg_time(t) PROVE TypeInv'
  <2>1. near' \in [Threads -> SUBSET Clock]
    <3>1. clock \in Clock /\ \A v \in Inside : timep[v] \in Clock
      BY DEF TypeInv, TypeOK, Inside
    <3>2. ASSUME NEW u \in Threads
          PROVE  (CASE u = t -> {clock} \cup {timep[v] : v \in Inside}
                    [] u \in Inside -> near[u] \cup {clock}
                    [] OTHER -> near[u]) \in SUBSET Clock
      <4>1. near[u] \in SUBSET Clock /\ t \notin Inside
        BY <1>1 DEF log_msg_time, TypeInv, TypeOK, Inside
      <4> QED BY <3>1, <4>1
    <3> QED BY <1>1, <3>2 DEF log_msg_time
  <2>2. alone' \in [Threads -> BOOLEAN]
    BY <1>1 DEF log_msg_time, TypeInv, TypeOK
  <2> QED BY <1>1, <2>1, <2>2 DEF log_msg_time, TypeInv, TypeOK, MsgLeft, Steps
<1>2. ASSUME NEW t \in Threads, log_msg_localtime(t) PROVE TypeInv'
  BY <1>2 DEF log_msg_localtime, TypeInv, TypeOK, MsgLeft, Steps
<1>3. ASSUME NEW t \in Threads, log_msg_strftime_date(t) PROVE TypeInv'
  BY <1>3 DEF log_msg_strftime_date, TypeInv, TypeOK, MsgLeft, Steps
<1>4. ASSUME NEW t \in Threads, log_msg_strftime_hour(t) PROVE TypeInv'
  BY <1>4 DEF log_msg_strftime_hour, TypeInv, TypeOK, MsgLeft, Steps
<1>5. ASSUME NEW t \in Threads, log_msg_fputs(t) PROVE TypeInv'
  <2>1. buf' \in Seq(Stamps)
    BY <1>5, StampType DEF log_msg_fputs, TypeInv, TypeOK
  <2>2. pc' \in [Threads -> Steps]
    BY <1>5 DEF log_msg_fputs, TypeInv, TypeOK, Steps
  <2>3. MsgLeft'
    BY <1>5 DEF log_msg_fputs, TypeInv, TypeOK, MsgLeft
  <2> QED BY <1>5, <2>1, <2>2, <2>3 DEF log_msg_fputs, TypeInv, TypeOK
<1>6. ASSUME NEW t \in Threads, log_msg_vfprintf(t) PROVE TypeInv'
  <2>0. sent[t] < MaxMsgs
    BY <1>6 DEF log_msg_vfprintf, TypeInv, MsgLeft
  <2>1. log' \in Seq(Stamps \cup Msgs \cup {Torn}) /\ buf' \in Seq(Stamps)
    <3>1. log' \in Seq(Chunks)
      BY <1>6, Vfprintf
    <3>2. buf' = <<>>
      BY <1>6 DEF log_msg_vfprintf
    <3> QED BY <3>1, <3>2 DEF Chunks
  <2>2. pc' \in [Threads -> Steps] /\ sent' \in [Threads -> 0 .. MaxMsgs]
    BY <1>6, <2>0 DEF log_msg_vfprintf, TypeInv, TypeOK, Steps
  <2>3. MsgLeft'
    BY <1>6 DEF log_msg_vfprintf, TypeInv, TypeOK, MsgLeft
  <2>4. near' \in [Threads -> SUBSET Clock]
    BY <1>6 DEF log_msg_vfprintf, TypeInv, TypeOK
  <2> QED BY <1>6, <2>1, <2>2, <2>3, <2>4 DEF log_msg_vfprintf, TypeInv, TypeOK
<1>7. CASE Tick
  BY <1>7 DEF Tick, TypeInv, TypeOK, MsgLeft, Clock, Stamps, Msgs
<1>8. CASE UNCHANGED vars
  BY <1>8 DEF vars, TypeInv, TypeOK, MsgLeft
<1> QED BY <1>1, <1>2, <1>3, <1>4, <1>5, <1>6, <1>7, <1>8 DEF Next

LEMMA TypeInvInit == Init => TypeInv
BY TypeInit DEF Init, TypeInv, MsgLeft

---------------------------------------------------------------------------
(* Where the times in the stamps come from *)

OverlapInv == TypeInv /\ NearInv /\ StampsFromOverlap

\* A step of t inside log_msg that leaves the times and histories as they are, and what it
\* puts into a static buffer is a time near every thread inside.
LEMMA NearKept ==
  ASSUME OverlapInv, NEW t \in Threads, pc[t] # "idle", UNCHANGED <<timep, near>>,
         NEW s \in Steps, pc' = [pc EXCEPT ![t] = s],
         tm' = tm \/ tm' = timep[t],
         pc[t] \in {"date", "hour"} \/ time_buf' = time_buf,
         time_buf'.date \in {time_buf.date, tm}, time_buf'.hour \in {time_buf.hour, tm},
         pc'[t] \in {"date", "hour", "fputs"} => tm' \in near[t],
         pc'[t] \in {"hour", "fputs"} => time_buf'.date \in near[t],
         pc'[t] = "fputs" => time_buf'.hour \in near[t]
  PROVE  \A u \in Threads : NearAt(u)'
<1>1. SUFFICES ASSUME NEW u \in Threads PROVE NearAt(u)'
  OBVIOUS
<1>2. \A v \in Threads : NearAt(v)
  BY DEF OverlapInv, NearInv
<1>3. /\ pc'[t] = s /\ \A v \in Threads \ {t} : pc'[v] = pc[v]
      /\ Inside' \subseteq Inside
  BY DEF OverlapInv, TypeInv, TypeOK, Inside
<1>4. CASE u = t
  BY <1>2, <1>3, <1>4 DEF NearAt
<1>5. CASE u # t
  <2>1. pc[u] # "idle" => timep[t] \in near[u]
    BY <1>2 DEF NearAt, Inside
  <2> QED BY <1>2, <1>3, <1>5, <2>1 DEF NearAt, Steps
<1> QED BY <1>4, <1>5

LEMMA OverlapStep == OverlapInv /\ [Next]_vars => OverlapInv'
<1> SUFFICES ASSUME OverlapInv, [Next]_vars PROVE NearInv' /\ StampsFromOverlap'
  BY TypeStep DEF OverlapInv
<1> USE DEF Go
<1>0. /\ pc \in [Threads -> Steps] /\ timep \in [Threads -> Clock]
      /\ time_buf \in [date : Clock, hour : Clock]
      /\ buf \in Seq(Stamps) /\ near \in [Threads -> SUBSET Clock]
  BY DEF OverlapInv, TypeInv, TypeOK
<1>a. \A u \in Threads : NearAt(u)
  BY DEF OverlapInv, NearInv
<1>b. ASSUME \A u \in Threads : NearAt(u)', buf' = buf, log' = log
      PROVE  NearInv' /\ StampsFromOverlap'
  BY <1>b DEF OverlapInv, NearInv, StampsFromOverlap
<1>1. ASSUME NEW t \in Threads, log_msg_time(t) PROVE NearInv' /\ StampsFromOverlap'
  <2>1. /\ pc[t] = "idle" /\ pc'[t] = "localtime" /\ timep'[t] = clock
        /\ \A u \in Threads \ {t} : pc'[u] = pc[u] /\ timep'[u] = timep[u]
        /\ near'[t] = {clock} \cup {timep[v] : v \in Inside}
        /\ \A u \in Inside : near'[u] = near[u] \cup {clock}
        /\ UNCHANGED <<tm, time_buf, buf, log>>
    BY <1>0, <1>1 DEF log_msg_time, Inside
  <2>2. Inside' = Inside \cup {t} /\ t \notin Inside
    BY <2>1 DEF Inside
  <2>3. ASSUME NEW u \in Threads PROVE NearAt(u)'
    <3>1. CASE u = t
      BY <2>1, <2>2, <3>1 DEF NearAt, Inside
    <3>2. CASE u \in Inside
      BY <1>a, <2>1, <2>2, <3>2 DEF NearAt, Inside
    <3>3. CASE u # t /\ u \notin Inside
      BY <2>1, <3>3 DEF NearAt, Inside
    <3> QED BY <3>1, <3>2, <3>3
  <2> QED BY <1>b, <2>1, <2>3
<1>2. ASSUME NEW t \in Threads, log_msg_localtime(t) PROVE NearInv' /\ StampsFromOverlap'
  <2>1. timep[t] \in near[t]
    BY <1>a, <1>2 DEF log_msg_localtime, NearAt, Inside
  <2>2. \A u \in Threads : NearAt(u)'
    BY <1>0, <1>2, <2>1, NearKept DEF log_msg_localtime, Steps
  <2> QED BY <1>2, <1>b, <2>2 DEF log_msg_localtime
<1>3. ASSUME NEW t \in Threads, log_msg_strftime_date(t)
      PROVE  NearInv' /\ StampsFromOverlap'
  <2>1. tm \in near[t]
    BY <1>a, <1>3 DEF log_msg_strftime_date, NearAt
  <2>2. time_buf'.date = tm /\ time_buf'.hour = time_buf.hour
    BY <1>0, <1>3 DEF log_msg_strftime_date
  <2>3. \A u \in Threads : NearAt(u)'
    BY <1>0, <1>3, <2>1, <2>2, NearKept DEF log_msg_strftime_date, Steps
  <2> QED BY <1>3, <1>b, <2>3 DEF log_msg_strftime_date
<1>4. ASSUME NEW t \in Threads, log_msg_strftime_hour(t)
      PROVE  NearInv' /\ StampsFromOverlap'
  <2>1. tm \in near[t] /\ time_buf.date \in near[t]
    BY <1>a, <1>4 DEF log_msg_strftime_hour, NearAt
  <2>2. time_buf'.hour = tm /\ time_buf'.date = time_buf.date
    BY <1>0, <1>4 DEF log_msg_strftime_hour
  <2>3. \A u \in Threads : NearAt(u)'
    BY <1>0, <1>4, <2>1, <2>2, NearKept DEF log_msg_strftime_hour, Steps
  <2> QED BY <1>4, <1>b, <2>3 DEF log_msg_strftime_hour
<1>5. ASSUME NEW t \in Threads, log_msg_fputs(t) PROVE NearInv' /\ StampsFromOverlap'
  <2>1. time_buf.date \in near[t] /\ time_buf.hour \in near[t]
    BY <1>a, <1>5 DEF log_msg_fputs, NearAt
  <2>2. \A u \in Threads : NearAt(u)'
    BY <1>0, <1>5, NearKept DEF log_msg_fputs, Steps
  <2>3. PICK c : c = [what |-> "stamp", by |-> t, date |-> time_buf.date,
                      hour |-> time_buf.hour, near |-> near[t]]
    OBVIOUS
  <2>4. c.date \in c.near /\ c.hour \in c.near
    BY <2>1, <2>3
  <2>5. /\ Len(buf) \in Nat /\ Len(buf') = Len(buf) + 1 /\ buf'[Len(buf) + 1] = c
        /\ \A i \in 1 .. Len(buf) : buf'[i] = buf[i]
    BY <1>0, <1>5, <2>3 DEF log_msg_fputs
  <2>6. \A i \in 1 .. Len(buf') : buf'[i].date \in buf'[i].near /\ buf'[i].hour \in buf'[i].near
    BY <2>4, <2>5 DEF OverlapInv, NearInv
  <2>7. StampsFromOverlap'
    BY <1>5 DEF log_msg_fputs, OverlapInv, StampsFromOverlap
  <2> QED BY <2>2, <2>6, <2>7 DEF NearInv
<1>6. ASSUME NEW t \in Threads, log_msg_vfprintf(t) PROVE NearInv' /\ StampsFromOverlap'
  <2>1. /\ pc[t] = "vfprintf" /\ pc'[t] = "idle" /\ buf' = <<>> /\ timep' = timep
        /\ tm' = tm /\ time_buf' = time_buf
        /\ \A u \in Threads \ {t} : pc'[u] = pc[u] /\ near'[u] = near[u]
    BY <1>0, <1>6 DEF log_msg_vfprintf
  <2>2. ASSUME NEW u \in Threads PROVE NearAt(u)'
    <3>1. Inside' \subseteq Inside
      BY <2>1 DEF Inside
    <3>2. CASE u = t
      BY <2>1, <3>2 DEF NearAt
    <3>3. CASE u # t
      BY <1>a, <2>1, <3>1, <3>3 DEF NearAt
    <3> QED BY <3>2, <3>3
  <2>3. NearInv'
    BY <2>1, <2>2 DEF NearInv
  <2>4. PICK msg \in Msgs, all \in Seq(Chunks), n \in Nat :
          /\ msg.what = "msg"
          /\ Len(all) = Len(buf) + 1 /\ all[Len(buf) + 1] = msg
          /\ \A k \in 1 .. Len(buf) : all[k] = buf[k]
          /\ n <= Len(all)
          /\ log' \in Seq(Chunks) /\ Len(log) + n <= Len(log')
          /\ \A i \in 1 .. Len(log) : log'[i] = log[i]
          /\ \A k \in 1 .. n : log'[Len(log) + k] = all[k]
          /\ \A i \in 1 .. Len(log') : i > Len(log) + n => log'[i] = Torn
    BY <1>6, Vfprintf DEF OverlapInv
  <2>5. ASSUME NEW i \in 1 .. Len(log'), log'[i].what = "stamp"
        PROVE  log'[i].date \in log'[i].near /\ log'[i].hour \in log'[i].near
    <3>0. Len(log) \in Nat /\ Len(buf) \in Nat
      BY <1>0 DEF OverlapInv, TypeInv, TypeOK
    <3>1. CASE i \in 1 .. Len(log)
      BY <2>4, <2>5, <3>1 DEF OverlapInv, StampsFromOverlap
    <3>2. CASE i > Len(log) + n
      BY <2>4, <2>5, <3>2 DEF Torn
    <3>3. CASE ~(i \in 1 .. Len(log)) /\ ~(i > Len(log) + n)
      <4>1. PICK k \in 1 .. n : i = Len(log) + k
        BY <3>0, <3>3
      <4>2. log'[i] = all[k]
        BY <2>4, <4>1
      <4>3. k # Len(buf) + 1
        BY <2>4, <2>5, <4>2
      <4>4. k \in 1 .. Len(buf)
        BY <2>4, <3>0, <4>1, <4>3
      <4>5. log'[i] = buf[k]
        BY <2>4, <4>2, <4>4
      <4> QED BY <4>4, <4>5 DEF OverlapInv, NearInv
    <3> QED BY <3>1, <3>2, <3>3
  <2> QED BY <2>3, <2>5 DEF StampsFromOverlap
<1>7. CASE Tick \/ UNCHANGED vars
  <2>1. UNCHANGED <<tm, time_buf, pc, timep, buf, log, near>>
    BY <1>7 DEF Tick, vars
  <2>2. \A u \in Threads : NearAt(u)'
    BY <1>a, <2>1 DEF NearAt, Inside
  <2> QED BY <1>b, <2>1, <2>2
<1> QED BY <1>1, <1>2, <1>3, <1>4, <1>5, <1>6, <1>7 DEF Next

\* Whatever the race for the two static buffers, a stamp in the file holds times that its
\* own log_msg or one that ran beside it has taken, for any number of threads.
THEOREM StampsAreNear == Spec => []StampsFromOverlap
<1>1. Init => OverlapInv
  <2>1. Init => NearInv /\ StampsFromOverlap
    BY DEF Init, NearInv, NearAt, StampsFromOverlap
  <2> QED BY <2>1, TypeInvInit DEF OverlapInv
<1>2. Spec => []OverlapInv
  BY <1>1, OverlapStep, PTL DEF Spec
<1>3. OverlapInv => StampsFromOverlap
  BY DEF OverlapInv
<1> QED BY <1>2, <1>3, PTL

---------------------------------------------------------------------------
(* Lines that no other thread disturbs *)

LineInv == TypeInv /\ BufInv /\ AloneInv /\ IsolatedLineExact

\* A step of t inside log_msg leaves alone no thread that is inside too.
LEMMA OthersNotAlone ==
  ASSUME LineInv, NEW t \in Threads, pc[t] # "idle", NEW u \in Threads, u # t,
         pc'[u] = pc[u], alone'[u] = alone[u]
  PROVE  AloneAt(u)'
<1>1. ~(pc[u] # "idle" /\ alone[u])
  BY DEF LineInv, AloneInv, AloneAt
<1> QED BY <1>1 DEF AloneAt

\* The file is as it was: what was said of its lines still holds.
LEMMA SameLog ==
  ASSUME LineInv, log' = log PROVE IsolatedLineExact'
BY DEF LineInv, IsolatedLineExact, OwnStamp

LEMMA LineStep == LineInv /\ [Next]_vars => LineInv'
<1> SUFFICES ASSUME LineInv, [Next]_vars PROVE BufInv' /\ AloneInv' /\ IsolatedLineExact'
  BY TypeStep DEF LineInv
<1> USE DEF Go
<1>0. /\ pc \in [Threads -> Steps] /\ timep \in [Threads -> Clock]
      /\ time_buf \in [date : Clock, hour : Clock] /\ buf \in Seq(Stamps)
      /\ alone \in [Threads -> BOOLEAN]
  BY DEF LineInv, TypeInv, TypeOK
<1>a. ASSUME \A t \in Threads : AloneAt(t)' PROVE AloneInv'
  BY <1>a DEF AloneInv
<1>b. \A t \in Threads : AloneAt(t)
  BY DEF LineInv, AloneInv
<1>1. ASSUME NEW t \in Threads, log_msg_time(t)
      PROVE  BufInv' /\ AloneInv' /\ IsolatedLineExact'
  <2>0. /\ pc[t] = "idle" /\ pc'[t] = "localtime" /\ (alone'[t] <=> Inside = {})
        /\ \A u \in Threads \ {t} : /\ pc'[u] = pc[u]
                                    /\ alone'[u] <=> alone[u] /\ u \notin Inside
    BY <1>0, <1>1 DEF log_msg_time
  <2>1. ASSUME NEW u \in Threads PROVE AloneAt(u)'
    <3>1. CASE u = t
      BY <2>0, <3>1 DEF AloneAt, Inside
    <3>2. CASE u # t
      BY <2>0, <3>2 DEF AloneAt, Inside
    <3> QED BY <3>1, <3>2
  <2>2. BufInv'
    <3> SUFFICES ASSUME buf' # <<>> PROVE \E u \in Threads : pc'[u] = "vfprintf"
      BY DEF BufInv
    <3>1. PICK u \in Threads : pc[u] = "vfprintf"
      BY <1>1 DEF log_msg_time, LineInv, BufInv
    <3> QED BY <2>0, <3>1
  <2> QED BY <1>1, <2>1, <2>2, <1>a, SameLog DEF log_msg_time
<1>2. ASSUME NEW t \in Threads,
             \/ log_msg_localtime(t) \/ log_msg_strftime_date(t)
             \/ log_msg_strftime_hour(t)
      PROVE  BufInv' /\ AloneInv' /\ IsolatedLineExact'
  <2>0. pc[t] \in {"localtime", "date", "hour"} /\ alone' = alone /\ log' = log
        /\ timep' = timep /\ buf' = buf
        /\ \A u \in Threads \ {t} : pc'[u] = pc[u]
    BY <1>0, <1>2 DEF log_msg_localtime, log_msg_strftime_date, log_msg_strftime_hour
  <2>1. ASSUME NEW u \in Threads PROVE AloneAt(u)'
    <3>1. CASE u = t
      BY <1>0, <1>2, <1>b, <3>1
         DEF log_msg_localtime, log_msg_strftime_date, log_msg_strftime_hour, AloneAt
    <3>2. CASE u # t
      BY <2>0, <3>2, OthersNotAlone
    <3> QED BY <3>1, <3>2
  <2>2. BufInv'
    <3> SUFFICES ASSUME buf' # <<>> PROVE \E u \in Threads : pc'[u] = "vfprintf"
      BY DEF BufInv
    <3>1. PICK u \in Threads : pc[u] = "vfprintf"
      BY <2>0 DEF LineInv, BufInv
    <3> QED BY <2>0, <3>1
  <2> QED BY <2>0, <2>1, <2>2, <1>a, SameLog
<1>3. ASSUME NEW t \in Threads, log_msg_fputs(t)
      PROVE  BufInv' /\ AloneInv' /\ IsolatedLineExact'
  <2>1. PICK c : c = [what |-> "stamp", by |-> t, date |-> time_buf.date,
                      hour |-> time_buf.hour, near |-> near[t]]
    OBVIOUS
  <2>2. /\ Len(buf) \in Nat /\ Len(buf') = Len(buf) + 1 /\ buf'[Len(buf) + 1] = c
        /\ c.by = t /\ c.date = time_buf.date /\ c.hour = time_buf.hour
    BY <1>0, <1>3, <2>1 DEF log_msg_fputs
  <2>3. /\ pc[t] = "fputs" /\ pc'[t] = "vfprintf" /\ alone' = alone /\ timep' = timep
        /\ log' = log /\ \A u \in Threads \ {t} : pc'[u] = pc[u]
    BY <1>0, <1>3 DEF log_msg_fputs
  <2>4. ASSUME NEW u \in Threads PROVE AloneAt(u)'
    <3>1. CASE u = t
      <4>1. SUFFICES ASSUME alone[t]
                     PROVE  /\ \A v \in Threads \ {t} : pc'[v] = "idle"
                            /\ Len(buf') = 1 /\ buf'[1].by = t
                            /\ buf'[1].date = timep[t] /\ buf'[1].hour = timep[t]
        BY <2>3, <3>1 DEF AloneAt
      <4>2. /\ \A v \in Threads \ {t} : pc[v] = "idle"
            /\ time_buf.date = timep[t] /\ time_buf.hour = timep[t]
        BY <1>b, <2>3, <4>1 DEF AloneAt
      <4>3. buf = <<>>
        BY <2>3, <4>2 DEF LineInv, BufInv
      <4> QED BY <2>2, <2>3, <4>2, <4>3
    <3>2. CASE u # t
      BY <2>3, <3>2, OthersNotAlone
    <3> QED BY <3>1, <3>2
  <2> QED BY <1>a, <2>3, <2>4, SameLog DEF BufInv
<1>4. ASSUME NEW t \in Threads, log_msg_vfprintf(t)
      PROVE  BufInv' /\ AloneInv' /\ IsolatedLineExact'
  <2>1. /\ pc[t] = "vfprintf" /\ pc'[t] = "idle" /\ alone' = alone /\ buf' = <<>>
        /\ \A u \in Threads \ {t} : pc'[u] = pc[u]
    BY <1>0, <1>4 DEF log_msg_vfprintf
  <2>2. ASSUME NEW u \in Threads PROVE AloneAt(u)'
    <3>1. CASE u = t
      BY <2>1, <3>1 DEF AloneAt
    <3>2. CASE u # t
      BY <2>1, <3>2, OthersNotAlone
    <3> QED BY <3>1, <3>2
  <2>3. PICK msg \in Msgs, all \in Seq(Chunks), n \in Nat :
          /\ msg.what = "msg" /\ msg.by = t /\ msg.at = timep[t] /\ msg.alone = alone[t]
          /\ Len(all) = Len(buf) + 1 /\ all[Len(buf) + 1] = msg
          /\ \A k \in 1 .. Len(buf) : all[k] = buf[k]
          /\ n <= Len(all)
          /\ log' \in Seq(Chunks) /\ Len(log) + n <= Len(log')
          /\ \A i \in 1 .. Len(log) : log'[i] = log[i]
          /\ \A k \in 1 .. n : log'[Len(log) + k] = all[k]
          /\ \A i \in 1 .. Len(log') : i > Len(log) + n => log'[i] = Torn
    BY <1>4, Vfprintf DEF LineInv
  <2>4. Len(log) \in Nat /\ Len(buf) \in Nat
    BY DEF LineInv, TypeInv, TypeOK
  <2>5. ASSUME NEW i \in 1 .. Len(log'), log'[i].what = "msg", log'[i].alone
        PROVE  /\ i > 1 /\ OwnStamp(i, i - 1)'
               /\ log'[i - 1].date = log'[i].at /\ log'[i - 1].hour = log'[i].at
    <3>1. CASE i \in 1 .. Len(log)
      <4>1. log'[i] = log[i]
        BY <2>3, <3>1
      <4>2. /\ i > 1 /\ OwnStamp(i, i - 1)
            /\ log[i - 1].date = log[i].at /\ log[i - 1].hour = log[i].at
        BY <2>5, <3>1, <4>1 DEF LineInv, IsolatedLineExact
      <4>3. i - 1 \in 1 .. Len(log)
        BY <2>4, <3>1, <4>2
      <4>4. log'[i - 1] = log[i - 1]
        BY <2>3, <4>3
      <4> QED BY <4>1, <4>2, <4>4 DEF OwnStamp
    <3>2. CASE i > Len(log) + n
      BY <2>3, <2>5, <3>2 DEF Torn
    <3>3. CASE ~(i \in 1 .. Len(log)) /\ ~(i > Len(log) + n)
      <4>1. PICK k \in 1 .. n : i = Len(log) + k
        BY <2>4, <3>3
      <4>2. log'[i] = all[k]
        BY <2>3, <4>1
      <4>3. ~(k \in 1 .. Len(buf))
        <5>1. SUFFICES ASSUME k \in 1 .. Len(buf) PROVE FALSE
          OBVIOUS
        <5>2. log'[i] = buf[k]
          BY <2>3, <4>2, <5>1
        <5>3. buf[k] \in Stamps
          BY <1>0, <5>1
        <5>4. log'[i].what = "stamp"
          BY <5>2, <5>3 DEF Stamps
        <5> QED BY <2>5, <5>4
      <4>4. k = Len(buf) + 1 /\ log'[i] = msg
        BY <2>3, <2>4, <4>1, <4>2, <4>3
      <4>5. /\ Len(buf) = 1 /\ buf[1].by = t
            /\ buf[1].date = timep[t] /\ buf[1].hour = timep[t]
        BY <1>b, <2>1, <2>3, <2>5, <4>4 DEF AloneAt
      <4>6. log'[Len(log) + 1] = buf[1] /\ i = Len(log) + 2
        BY <2>3, <2>4, <4>1, <4>4, <4>5
      <4>7. buf[1].what = "stamp"
        <5>1. 1 \in 1 .. Len(buf)
          BY <4>5
        <5>2. buf[1] \in Stamps
          BY <1>0, <5>1
        <5> QED BY <5>2 DEF Stamps
      <4>8. i - 1 = Len(log) + 1 /\ i > 1
        BY <2>4, <4>6
      <4> QED BY <2>3, <4>4, <4>5, <4>6, <4>7, <4>8 DEF OwnStamp
    <3> QED BY <3>1, <3>2, <3>3
  <2>6. IsolatedLineExact'
    BY <2>5 DEF IsolatedLineExact
  <2> QED BY <1>a, <2>1, <2>2, <2>6 DEF BufInv
<1>5. CASE Tick \/ UNCHANGED vars
  <2>1. \A u \in Threads : AloneAt(u)'
    BY <1>5, <1>b DEF Tick, vars, AloneAt
  <2>2. BufInv'
    BY <1>5 DEF Tick, vars, LineInv, BufInv
  <2> QED BY <1>5, <1>a, <2>1, <2>2, SameLog DEF Tick, vars
<1> QED BY <1>1, <1>2, <1>3, <1>4, <1>5 DEF Next

\* The message of a log_msg that ran alone follows its own stamp, with its own time, in the
\* file, although both static buffers are written without a lock and the write may fail.
THEOREM IsolatedLineKept == Spec => []IsolatedLineExact
<1>1. Init => LineInv
  <2>1. Init => BufInv /\ AloneInv /\ IsolatedLineExact
    BY DEF Init, BufInv, AloneInv, AloneAt, IsolatedLineExact
  <2> QED BY <2>1, TypeInvInit DEF LineInv
<1>2. Spec => []LineInv
  BY <1>1, LineStep, PTL DEF Spec
<1>3. LineInv => IsolatedLineExact
  BY DEF LineInv
<1> QED BY <1>2, <1>3, PTL

====
