---------------------------- MODULE MPPTaskProofs ----------------------------
(***************************************************************************)
(* EofInv and the steps of tasks, of their pools and of the handlers.      *)
(***************************************************************************)
EXTENDS MPPInvariant

\* Zenon is tried first, then SMT; a leaf that needs arithmetic or records names SMT.
USE ZenonT(60), SMTT(60)

\* A task schedules the job of a batch.
LEMMA ScheduleStep ==
    ASSUME EofInv, NEW t \in Tasks, Schedule(t),
           UNCHANGED <<streamVars, inited, loop, live_connections, meet_error, result>>,
           result_buffer' \in [Receivers -> Seq(Tasks \X Packet)],
           got' \in [Receivers -> Seq(Tasks \X Packet)],
           \A q \in Receivers : /\ Range(got[q]) \subseteq Range(got'[q])
                               /\ Range(result_buffer[q]) \subseteq Range(result_buffer'[q]) \cup Range(got'[q])
    PROVE  EofInv'
<1>0. /\ UNCHANGED <<taskMap, phase, at, registered, connected, finished, poolError>>
      /\ UNCHANGED <<up, call, packets, closed, broken, inited, loop, live_connections, meet_error, result>>
      /\ phase[t] = "read"
  BY DEF Schedule, MaySchedule, tunnelVars, streamVars
<1>1. TypeOK /\ \A u \in Tasks : AtInv(u) /\ PoolInv(u)
  BY EofInvParts
<1>2. batches \in [Tasks -> Nat] /\ jobs \in [Tasks -> SUBSET Job]
  BY <1>1 DEF TypeOK, TasksTypeOK
<1> DEFINE j == [batch |-> batches[t] + 1, next |-> 0]
<1>3. j \in Job /\ j.batch = batches[t] + 1 /\ j.next = 0
  BY <1>2, SMTT(60) DEF Job
<1> HIDE DEF j
<1>4. /\ batches' \in [Tasks -> Nat] /\ jobs' \in [Tasks -> SUBSET Job]
      /\ jobs'[t] \subseteq jobs[t] \cup {j} /\ jobs[t] \subseteq jobs'[t] /\ (~poolError[t] => j \in jobs'[t])
      /\ batches'[t] = batches[t] + 1
      /\ \A u \in Tasks \ {t} : jobs'[u] = jobs[u] /\ batches'[u] = batches[u]
  BY <1>2, <1>3, SMTT(60) DEF j, Schedule
<1>5. TypeOK'
  BY <1>0, <1>1, <1>4 DEF TypeOK, StreamsTypeOK, TasksTypeOK, ReceiversTypeOK
<1>6. ASSUME NEW u \in Tasks
      PROVE  AtInv(u)' /\ PoolInv(u)'
  <2>1. AtInv(u) /\ PoolInv(u) /\ Len(Targets[u]) \in Nat \ {0} /\ 0 <= Len(Targets[u])
    BY <1>1, TargetsType, SMTT(60)
  <2>2. CASE u = t
    <3>1. \A x \in jobs'[u] : x.next <= Len(Targets[u])
      <4> SUFFICES ASSUME NEW x \in jobs'[u] PROVE x.next <= Len(Targets[u])
        OBVIOUS
      <4>1. x \in jobs[u] \/ x = j
        BY <1>4, <2>2
      <4> QED  BY <1>3, <2>1, <4>1 DEF AtInv
    <3>2. AtInv(u)'
      BY <1>0, <2>1, <3>1 DEF AtInv
    <3>3. PoolInv(u)'
      BY <1>0, <2>2 DEF PoolInv, OkPhase
    <3> QED  BY <3>2, <3>3
  <2>3. CASE u # t
    <3>1. jobs'[u] = jobs[u]
      BY <1>4, <2>3
    <3> QED  BY <1>0, <2>1, <3>1 DEF AtInv, PoolInv
  <2> QED  BY <2>2, <2>3
<1>7. EofComplete'
  <2>1. \A u \in Tasks : PhaseKept(u) /\ (phase[u] \in OkPhase => batches'[u] = batches[u])
    BY <1>0, <1>4 DEF PhaseKept, OkPhase
  <2> QED  BY <1>0, <2>1, EofFrame, StreamsKept
<1>8. ASSUME NEW r \in Receivers
      PROVE  LiveInv(r)'
  BY <1>0, EofInvParts, LiveFrame
<1>9. ASSUME NEW s \in Tasks, NEW r \in Range(Targets[s]), ~Lost(s, r)'
      PROVE  PairInv(s, r)'
  <2>1. PairInv(s, r) /\ r \in Receivers
    BY <1>9, EofInvParts, StreamsKept, TargetsType
  <2>2. TunnelInv(s, r)' /\ LoopInv(s, r)'
    BY <1>0, <2>1 DEF PairInv, TunnelInv, LoopInv, ErrorInPlay
  <2>3. \A b \in Nat : Located(s, r, b) => Located(s, r, b)'
    <3>1. \A b \in Nat : Pending(s, r, b) => Pending(s, r, b)'
      <4>1. jobs[s] \subseteq jobs'[s]
        BY <1>4
      <4> QED  BY <4>1 DEF Pending
    <3> QED  BY <1>0, <2>1, <3>1 DEF Located
  <2>4. ASSUME s = t, ~poolError[t], NEW b \in Nat, b = batches[t] + 1
        PROVE  Located(s, r, b)'
    <3>0. DOMAIN Targets[s] = 1 .. Len(Targets[s])
      BY TargetsType, SMTT(60)
    <3>1. PICK i \in 1 .. Len(Targets[s]) : Targets[s][i] = r
      BY <1>9, <3>0 DEF Range
    <3>2. i \in Nat /\ 0 <= i
      BY <3>1, TargetsType, SMTT(60)
    <3>3. Pending(s, r, b)'
      BY <1>3, <1>4, <2>4, <3>1, <3>2 DEF Pending
    <3> QED  BY <3>3 DEF Located
  <2>5. BatchInv(s, r)'
    <3> SUFFICES ASSUME phase[s] \notin ErrorPhase, ~poolError[s], NEW b \in 1 .. batches'[s]
                 PROVE  Located(s, r, b)'
      BY <1>0 DEF BatchInv
    <3>1. batches[s] \in Nat /\ b \in Nat /\ (b \in 1 .. batches[s] \/ (s = t /\ b = batches[t] + 1))
      BY <1>2, <1>4, SMTT(60)
    <3> QED  BY <2>1, <2>3, <2>4, <3>1 DEF PairInv, BatchInv
  <2> QED  BY <2>2, <2>5 DEF PairInv
<1> QED  BY <1>5, <1>6, <1>7, <1>8, <1>9 DEF EofInv, PairInv

\* A receiver without a task, TiDB, takes a packet or its result.
LEMMA ReceiveStep ==
    ASSUME EofInv, UNCHANGED taskVars,
           UNCHANGED <<streamVars, inited, loop, live_connections, meet_error, result>>,
           result_buffer' \in [Receivers -> Seq(Tasks \X Packet)],
           got' \in [Receivers -> Seq(Tasks \X Packet)],
           \A q \in Receivers : /\ Range(got[q]) \subseteq Range(got'[q])
                               /\ Range(result_buffer[q]) \subseteq Range(result_buffer'[q]) \cup Range(got'[q])
    PROVE  EofInv'
<1>1. TypeOK /\ \A u \in Tasks : AtInv(u) /\ PoolInv(u)
  BY EofInvParts
<1>2. /\ UNCHANGED <<taskMap, phase, at, registered, connected, finished, batches, jobs, poolError>>
      /\ UNCHANGED <<up, call, packets, closed, broken, inited, loop, live_connections, meet_error, result>>
  BY DEF taskVars, tunnelVars, streamVars
<1>3. TypeOK'
  BY <1>1, <1>2 DEF TypeOK, StreamsTypeOK, TasksTypeOK, ReceiversTypeOK
<1>4. \A u \in Tasks : AtInv(u)' /\ PoolInv(u)' /\ PhaseKept(u)
  BY <1>1, <1>2 DEF AtInv, PoolInv, PhaseKept
<1>5. EofComplete'
  BY <1>2, <1>4, EofFrame, StreamsKept
<1>6. ASSUME NEW r \in Receivers
      PROVE  LiveInv(r)'
  BY <1>2, EofInvParts, LiveFrame
<1>7. ASSUME NEW s \in Tasks, NEW r \in Range(Targets[s]), ~Lost(s, r)'
      PROVE  PairInv(s, r)'
  <2>1. PairInv(s, r) /\ r \in Receivers
    BY <1>7, EofInvParts, StreamsKept, TargetsType
  <2>2. \A b \in 1 .. batches[s] : Located(s, r, b) => Located(s, r, b)'
    BY <1>2, <2>1 DEF Located, Pending
  <2>3. ErrorInPlay(s, r) => ErrorInPlay(s, r)'
    BY <1>2 DEF ErrorInPlay
  <2> QED  BY <1>2, <1>4, <2>1, <2>2, <2>3, PairFrame
<1> QED  BY <1>3, <1>4, <1>5, <1>6, <1>7 DEF EofInv, PairInv

LEMMA ReceiveResult ==
    ASSUME EofInv, UNCHANGED taskVars,
           UNCHANGED <<streamVars, inited, loop, live_connections, meet_error, result_buffer, got>>,
           result' \in [Receivers -> {"none", "eof", "error"}], EofComplete'
    PROVE  EofInv'
<1>1. TypeOK /\ \A u \in Tasks : AtInv(u) /\ PoolInv(u)
  BY EofInvParts
<1>2. /\ UNCHANGED <<taskMap, phase, at, registered, connected, finished, batches, jobs, poolError>>
      /\ UNCHANGED <<up, call, packets, closed, broken, inited, loop, live_connections, meet_error, result_buffer, got>>
  BY DEF taskVars, tunnelVars, streamVars
<1>3. TypeOK'
  BY <1>1, <1>2 DEF TypeOK, StreamsTypeOK, TasksTypeOK, ReceiversTypeOK
<1>4. \A u \in Tasks : AtInv(u)' /\ PoolInv(u)' /\ PhaseKept(u)
  BY <1>1, <1>2 DEF AtInv, PoolInv, PhaseKept
<1> QED  BY <1>2, <1>3, <1>4, PhaseStep

-----------------------------------------------------------------------------
(***************************************************************************)
(* Writes to the tunnels, by the pool and by the thread of the task.       *)
(***************************************************************************)
\* A packet in a stream: it is at its end, and the others are where they were.
LEMMA SendAdds ==
    ASSUME TypeOK, NEW t \in Tasks, NEW r \in Receivers, NEW p \in Packet, Send(t, r, p)
    PROVE  /\ packets' \in [Tasks -> [Receivers -> Seq(Packet)]]
           /\ Range(packets'[t][r]) = Range(packets[t][r]) \cup {p}
           /\ \A s \in Tasks, q \in Receivers : (s # t \/ q # r) => packets'[s][q] = packets[s][q]
<1>1. packets \in [Tasks -> [Receivers -> Seq(Packet)]]
  BY DEF TypeOK, StreamsTypeOK
<1>2. packets[t][r] \in Seq(Packet)
  BY <1>1
<1>3. Append(packets[t][r], p) \in Seq(Packet) /\ Range(Append(packets[t][r], p)) = Range(packets[t][r]) \cup {p}
  BY <1>2, RangeAppend, SMTT(60)
<1> QED  BY <1>1, <1>3 DEF Send

\* write() at a connected tunnel of a task that has not succeeded: the packet is
\* in the stream, or an error was before it, or the stream is broken.
LEMMA WriteAdds ==
    ASSUME EofInv, HasTimeout, NEW t \in Tasks, NEW r \in Range(Targets[t]), NEW p \in Packet,
           connected[t][r], phase[t] \notin OkPhase, Write(t, r, p)
    PROVE  /\ packets' \in [Tasks -> [Receivers -> Seq(Packet)]]
           /\ \A s \in Tasks, q \in Receivers : Range(packets[s][q]) \subseteq Range(packets'[s][q])
           /\ \A s \in Tasks, q \in Receivers : (s # t \/ q # r) => packets'[s][q] = packets[s][q]
           /\ ~Lost(t, r) =>
                 /\ closed[t][r] => packets'[t][r] = packets[t][r]
                 /\ p \in Range(packets'[t][r]) \/ (ErrorInPlay(t, r) /\ phase[t] \in ErrorPhase)
<1>1. TypeOK /\ (~Lost(t, r) => PairInv(t, r)) /\ r \in Receivers
  BY EofInvParts, TargetsType
<1>2. CASE call[t][r] # "returned" /\ ~broken[t][r]
  <2>1. Send(t, r, p)
    BY <1>2 DEF Write
  <2>2. ~Lost(t, r) => ~closed[t][r]
    BY <1>1, <1>2 DEF PairInv, TunnelInv
  <2>3. /\ packets' \in [Tasks -> [Receivers -> Seq(Packet)]]
        /\ Range(packets'[t][r]) = Range(packets[t][r]) \cup {p}
        /\ \A s \in Tasks, q \in Receivers : (s # t \/ q # r) => packets'[s][q] = packets[s][q]
    BY <1>1, <2>1, SendAdds
  <2>4. \A s \in Tasks, q \in Receivers : Range(packets[s][q]) \subseteq Range(packets'[s][q])
    <3> SUFFICES ASSUME NEW s \in Tasks, NEW q \in Receivers
                 PROVE  Range(packets[s][q]) \subseteq Range(packets'[s][q])
      OBVIOUS
    <3>1. CASE s = t /\ q = r
      BY <2>3, <3>1
    <3>2. CASE ~(s = t /\ q = r)
      BY <2>3, <3>2
    <3> QED  BY <3>1, <3>2
  <2> QED  BY <2>2, <2>3, <2>4
<1>3. CASE call[t][r] = "returned" \/ broken[t][r]
  <2>1. packets' = packets
    BY <1>3 DEF Write
  <2>2. ~Lost(t, r) => finished[t][r] /\ ErrorInPlay(t, r) /\ phase[t] \in ErrorPhase
    BY <1>1, <1>3 DEF PairInv, TunnelInv, Lost
  <2> QED  BY <1>1, <2>1, <2>2 DEF TypeOK, StreamsTypeOK
<1> QED  BY <1>2, <1>3

\* A step of the pool of t.
LEMMA JobFrame ==
    ASSUME EofInv, NEW t \in Tasks, NEW j \in jobs[t], TypeOK',
           UNCHANGED <<taskMap, phase, at, registered, connected, finished, batches>>,
           UNCHANGED <<up, call, closed, broken>>, UNCHANGED receiverVars,
           \A u \in Tasks \ {t} : jobs'[u] = jobs[u] /\ poolError'[u] = poolError[u],
           poolError[t] => poolError'[t],
           \A k \in jobs'[t] : k.next <= Len(Targets[t]),
           \A s \in Tasks, q \in Receivers : Range(packets[s][q]) \subseteq Range(packets'[s][q]),
           \A s \in Tasks, q \in Receivers : ~Lost(s, q) /\ closed[s][q] => packets'[s][q] = packets[s][q],
           phase[t] \notin ErrorPhase /\ ~poolError'[t] =>
               \A r \in Range(Targets[t]) : ~Lost(t, r) => \A b \in 1 .. batches[t] :
                   Pending(t, r, b) => Pending(t, r, b)' \/ b \in Range(packets'[t][r])
    PROVE  EofInv'
<1>0. UNCHANGED <<inited, loop, live_connections, meet_error, result_buffer, got, result>>
  BY DEF receiverVars
<1>1. \A u \in Tasks : AtInv(u) /\ PoolInv(u)
  BY EofInvParts
<1>2. phase[t] \notin OkPhase
  BY <1>1 DEF PoolInv
<1>3. \A u \in Tasks : AtInv(u)' /\ PoolInv(u)' /\ PhaseKept(u)
  BY <1>1, <1>2 DEF AtInv, PoolInv, PhaseKept
<1>4. EofComplete'
  BY <1>0, <1>3, EofFrame, LostKept
<1>5. ASSUME NEW r \in Receivers
      PROVE  LiveInv(r)'
  BY <1>0, EofInvParts, LiveFrame
<1>6. ASSUME NEW s \in Tasks, NEW r \in Range(Targets[s]), ~Lost(s, r)'
      PROVE  PairInv(s, r)'
  <2>1. PairInv(s, r) /\ r \in Receivers /\ ~Lost(s, r)
    BY <1>6, EofInvParts, LostKept, TargetsType
  <2>2. ASSUME phase'[s] \notin ErrorPhase, ~poolError'[s], NEW b \in 1 .. batches[s], Located(s, r, b)
        PROVE  Located(s, r, b)'
    <3>1. Range(packets[s][r]) \subseteq Range(packets'[s][r])
      BY <2>1
    <3>2. CASE s = t
      BY <1>0, <2>1, <2>2, <3>1, <3>2 DEF Located
    <3>3. CASE s # t
      BY <1>0, <2>2, <3>1, <3>3 DEF Located, Pending
    <3> QED  BY <3>2, <3>3
  <2>3. ErrorInPlay(s, r) => ErrorInPlay(s, r)'
    BY <1>0, <2>1 DEF ErrorInPlay
  <2>4. poolError[s] => poolError'[s]
    OBVIOUS
  <2> QED  BY <1>0, <1>3, <2>1, <2>2, <2>3, <2>4, PairFrame
<1> QED  BY <1>3, <1>4, <1>5, <1>6 DEF EofInv, PairInv

LEMMA JobStep ==
    ASSUME EofInv, HasTimeout, NEW t \in Tasks, NEW j \in jobs[t],
           TakeJob(t, j) \/ JobWrite(t, j) \/ JobTimeout(t, j), UNCHANGED receiverVars
    PROVE  EofInv'
<1>1. TypeOK /\ AtInv(t) /\ PoolInv(t)
  BY EofInvParts
<1>2. jobs \in [Tasks -> SUBSET Job] /\ poolError \in [Tasks -> BOOLEAN] /\ jobs[t] \subseteq Job
  BY <1>1 DEF TypeOK, TasksTypeOK
<1>3. j \in Job /\ j.batch \in Nat /\ j.next \in Nat /\ j.next <= Len(Targets[t]) /\ phase[t] \notin OkPhase
  BY <1>1, <1>2 DEF Job, AtInv, PoolInv
<1>4. Len(Targets[t]) \in Nat \ {0}
  BY TargetsType
<1>5. CASE TakeJob(t, j)
  <2> DEFINE k == [batch |-> j.batch, next |-> 1]
  <2>1. k \in Job /\ k.batch = j.batch /\ k.next = 1
    BY <1>3 DEF Job
  <2> HIDE DEF k
  <2>2. /\ UNCHANGED <<taskMap, phase, at, registered, connected, finished, batches, poolError>>
        /\ UNCHANGED <<up, call, packets, closed, broken>>
        /\ j.next = 0
    BY <1>5 DEF TakeJob, tunnelVars, streamVars
  <2>3. /\ jobs' \in [Tasks -> SUBSET Job] /\ \A u \in Tasks \ {t} : jobs'[u] = jobs[u]
        /\ jobs'[t] = (jobs[t] \ {j}) \cup (IF poolError[t] THEN {} ELSE {k})
    BY <1>2, <1>5, <2>1 DEF TakeJob, Becomes, k
  <2>4. TypeOK'
    BY <1>1, <2>2, <2>3 DEF TypeOK, StreamsTypeOK, TasksTypeOK, ReceiversTypeOK, receiverVars
  <2>5. ASSUME NEW i \in jobs'[t] PROVE i.next <= Len(Targets[t])
    <3>1. i \in jobs[t] \/ i = k
      BY <2>3
    <3> QED  BY <1>1, <1>4, <2>1, <3>1, SMTT(60) DEF AtInv
  <2>6. ASSUME ~poolError'[t], NEW r, NEW b, Pending(t, r, b)
        PROVE  Pending(t, r, b)'
    <3>1. PICK i \in jobs[t], n \in 1 .. Len(Targets[t]) : i.batch = b /\ Targets[t][n] = r /\ i.next <= n
      BY <2>6 DEF Pending
    <3>2. CASE i = j
      <4>1. k \in jobs'[t] /\ k.batch = b /\ k.next <= n
        BY <2>1, <2>2, <2>3, <2>6, <3>1, <3>2, SMTT(60)
      <4> QED  BY <3>1, <4>1 DEF Pending
    <3>3. CASE i # j
      <4>1. i \in jobs'[t]
        BY <2>3, <3>1, <3>3
      <4> QED  BY <3>1, <4>1 DEF Pending
    <3> QED  BY <3>2, <3>3
  <2> QED  BY <2>2, <2>3, <2>4, <2>5, <2>6, JobFrame
<1>6. CASE JobWrite(t, j)
  <2> DEFINE k == [batch |-> j.batch, next |-> j.next + 1]
             to == Targets[t][j.next]
  <2>1. k \in Job /\ k.batch = j.batch /\ k.next = j.next + 1
    BY <1>3, SMTT(60) DEF Job
  <2> HIDE DEF k
  <2>2. /\ j.next > 0 /\ connected[t][to] /\ Write(t, to, j.batch)
        /\ UNCHANGED <<taskMap, phase, at, registered, connected, finished, batches>>
        /\ UNCHANGED poolError
    BY <1>6 DEF JobWrite, MayWrite, tunnelVars
  <2>10. UNCHANGED <<up, call, closed, broken>>
    BY <2>2 DEF Write
  <2>3. /\ jobs' \in [Tasks -> SUBSET Job] /\ \A u \in Tasks \ {t} : jobs'[u] = jobs[u]
        /\ jobs'[t] = (jobs[t] \ {j}) \cup (IF j.next = Len(Targets[t]) THEN {} ELSE {k})
    BY <1>2, <1>6, <2>1 DEF JobWrite, Becomes, k
  <2>4. to \in Range(Targets[t]) /\ to \in Receivers /\ j.batch \in Packet
    BY <1>3, <2>2, TargetsType, SMTT(60) DEF Packet
  <2> HIDE DEF to
  <2>5. /\ packets' \in [Tasks -> [Receivers -> Seq(Packet)]]
        /\ \A s \in Tasks, q \in Receivers : Range(packets[s][q]) \subseteq Range(packets'[s][q])
        /\ \A s \in Tasks, q \in Receivers : (s # t \/ q # to) => packets'[s][q] = packets[s][q]
        /\ ~Lost(t, to) => /\ closed[t][to] => packets'[t][to] = packets[t][to]
                           /\ j.batch \in Range(packets'[t][to]) \/ phase[t] \in ErrorPhase
    BY <1>3, <2>2, <2>4, WriteAdds
  <2>6. \A s \in Tasks, q \in Receivers : ~Lost(s, q) /\ closed[s][q] => packets'[s][q] = packets[s][q]
    BY <2>5
  <2>7. TypeOK'
    <3>1. StreamsTypeOK'
      BY <1>1, <2>5, <2>10 DEF TypeOK, StreamsTypeOK
    <3>2. TasksTypeOK'
      BY <1>1, <2>2, <2>3 DEF TypeOK, TasksTypeOK
    <3>3. ReceiversTypeOK'
      BY <1>1 DEF TypeOK, ReceiversTypeOK, receiverVars
    <3> QED  BY <3>1, <3>2, <3>3 DEF TypeOK
  <2>8. \A i \in jobs'[t] : i.next <= Len(Targets[t])
    BY <1>1, <1>3, <1>4, <2>1, <2>3, SMTT(60) DEF AtInv
  <2>9. ASSUME phase[t] \notin ErrorPhase, NEW r, ~Lost(t, r), NEW b, Pending(t, r, b)
        PROVE  Pending(t, r, b)' \/ b \in Range(packets'[t][r])
    <3>1. PICK i \in jobs[t], n \in 1 .. Len(Targets[t]) : i.batch = b /\ Targets[t][n] = r /\ i.next <= n
      BY <2>9 DEF Pending
    <3>2. CASE i = j /\ n = j.next
      BY <2>5, <2>9, <3>1, <3>2 DEF to
    <3>3. CASE i = j /\ n # j.next
      <4>1. k.batch = b /\ k.next <= n /\ j.next # Len(Targets[t])
        BY <1>3, <1>4, <2>1, <3>1, <3>3, SMTT(60)
      <4>2. k \in jobs'[t]
        BY <2>3, <4>1
      <4> QED  BY <3>1, <4>1, <4>2 DEF Pending
    <3>4. CASE i # j
      <4>1. i \in jobs'[t]
        BY <2>3, <3>1, <3>4
      <4> QED  BY <3>1, <4>1 DEF Pending
    <3> QED  BY <3>2, <3>3, <3>4
  <2>11. phase[t] \notin ErrorPhase /\ ~poolError'[t] =>
            \A r \in Range(Targets[t]) : ~Lost(t, r) => \A b \in 1 .. batches[t] :
                Pending(t, r, b) => Pending(t, r, b)' \/ b \in Range(packets'[t][r])
    BY <2>9
  <2>12. poolError' = poolError
    BY <2>2
  <2> QED  BY <2>2, <2>3, <2>5, <2>6, <2>7, <2>8, <2>10, <2>11, <2>12, JobFrame
<1>7. CASE JobTimeout(t, j)
  <2>1. /\ UNCHANGED <<taskMap, phase, at, registered, connected, finished, batches>>
        /\ UNCHANGED <<up, call, closed, broken>> /\ packets' = packets
        /\ poolError' = [poolError EXCEPT ![t] = TRUE]
    BY <1>7 DEF JobTimeout, tunnelVars, streamVars
  <2>2. /\ jobs' \in [Tasks -> SUBSET Job] /\ \A u \in Tasks \ {t} : jobs'[u] = jobs[u]
        /\ jobs'[t] \subseteq jobs[t]
    BY <1>2, <1>7 DEF JobTimeout, Becomes
  <2>3. TypeOK'
    <3>1. StreamsTypeOK'
      BY <1>1, <2>1 DEF TypeOK, StreamsTypeOK
    <3>4. poolError' \in [Tasks -> BOOLEAN]
      BY <1>2, <2>1
    <3>2. TasksTypeOK'
      BY <1>1, <2>1, <2>2, <3>4 DEF TypeOK, TasksTypeOK
    <3>3. ReceiversTypeOK'
      BY <1>1 DEF TypeOK, ReceiversTypeOK, receiverVars
    <3> QED  BY <3>1, <3>2, <3>3 DEF TypeOK
  <2>4. \A i \in jobs'[t] : i.next <= Len(Targets[t])
    BY <1>1, <2>2 DEF AtInv
  <2>5. poolError'[t] /\ \A u \in Tasks \ {t} : poolError'[u] = poolError[u]
    BY <1>2, <2>1
  <2> QED  BY <2>1, <2>2, <2>3, <2>4, <2>5, JobFrame
<1> QED  BY <1>5, <1>6, <1>7

\* A tunnel of t is finished, after success or with an error in its stream.
LEMMA TunnelStep ==
    ASSUME EofInv, HasTimeout, NEW t \in Tasks, FinishWrite(t) \/ WriteErrToTunnel(t), UNCHANGED receiverVars
    PROVE  EofInv'
<1>1. TypeOK /\ \A u \in Tasks : AtInv(u) /\ PoolInv(u)
  BY EofInvParts
<1>2. phase \in [Tasks -> Phase] /\ at \in [Tasks -> Nat] /\ finished \in Tunnels
  BY <1>1 DEF TypeOK, TasksTypeOK
<1>3. Len(TunnelMap[t]) \in Nat \ {0} /\ at[t] \in 1 .. Len(TunnelMap[t])
  <2>1. phase[t] \in {"finish", "error"}
    BY DEF FinishWrite, WriteErrToTunnel
  <2> QED  BY <1>1, <1>2, <2>1, TunnelMapType, SMTT(60) DEF AtInv
<1>4. PICK to \in Range(Targets[t]) : to = TunnelMap[t][at[t]] /\ to \in Receivers
  BY <1>3, TargetsType, TunnelMapType
<1>5. /\ UNCHANGED <<taskMap, registered, connected, batches, jobs, poolError>>
      /\ finished' = [finished EXCEPT ![t][to] = TRUE]
  BY <1>4 DEF FinishWrite, WriteErrToTunnel, WriteDone
<1>6. UNCHANGED <<up, call, closed, broken>>
  BY DEF FinishWrite, WriteErrToTunnel, Write, streamVars
<1>7. UNCHANGED <<inited, loop, live_connections, meet_error, result_buffer, got, result>>
  BY DEF receiverVars
<1>8. /\ phase' \in [Tasks -> Phase] /\ at' \in [Tasks -> Nat]
      /\ \A u \in Tasks \ {t} : phase'[u] = phase[u] /\ at'[u] = at[u]
      /\ at'[t] >= 1 /\ (phase'[t] \in {"finish", "error"} => at'[t] <= Len(TunnelMap[t]))
      /\ \/ phase[t] = "finish" /\ phase'[t] \in {"finish", "unregister"}
         \/ phase[t] = "error" /\ phase'[t] \in {"error", "abandon"}
  <2>1. CASE at[t] = Len(TunnelMap[t])
    <3>1. /\ at' = [at EXCEPT ![t] = 1]
          /\ \/ phase[t] = "finish" /\ phase' = [phase EXCEPT ![t] = "unregister"]
             \/ phase[t] = "error" /\ phase' = [phase EXCEPT ![t] = "abandon"]
      BY <2>1 DEF FinishWrite, WriteErrToTunnel, NextTunnel, Enter
    <3>2. at' \in [Tasks -> Nat] /\ at'[t] = 1 /\ \A u \in Tasks \ {t} : at'[u] = at[u]
      BY <1>2, <3>1
    <3> QED  BY <1>2, <3>1, <3>2, SMTT(60) DEF Phase
  <2>2. CASE at[t] # Len(TunnelMap[t])
    <3>1. at' = [at EXCEPT ![t] = @ + 1] /\ phase' = phase /\ phase[t] \in {"finish", "error"}
      BY <2>2 DEF FinishWrite, WriteErrToTunnel, NextTunnel
    <3>2. at' \in [Tasks -> Nat] /\ at'[t] = at[t] + 1 /\ \A u \in Tasks \ {t} : at'[u] = at[u]
      BY <1>2, <3>1, SMTT(60)
    <3>3. at'[t] >= 1 /\ at'[t] <= Len(TunnelMap[t])
      BY <1>3, <2>2, <3>2, SMTT(60)
    <3> QED  BY <1>2, <3>1, <3>2, <3>3
  <2> QED  BY <2>1, <2>2
<1>9. /\ finished' \in Tunnels /\ finished'[t][to]
      /\ \A s \in Tasks, q \in Receivers : (s # t \/ q # to) => finished'[s][q] = finished[s][q]
  <2>1. finished' \in Tunnels
    BY <1>2, <1>4, <1>5 DEF Tunnels
  <2>2. finished'[t] = [finished[t] EXCEPT ![to] = TRUE] /\ finished[t] \in [Receivers -> BOOLEAN]
    BY <1>2, <1>5 DEF Tunnels
  <2>3. \A s \in Tasks : s # t => finished'[s] = finished[s]
    BY <1>2, <1>5 DEF Tunnels
  <2>4. finished'[t][to] /\ \A q \in Receivers : q # to => finished'[t][q] = finished[t][q]
    BY <1>4, <2>2
  <2> QED  BY <2>1, <2>3, <2>4
<1>10. /\ packets' \in [Tasks -> [Receivers -> Seq(Packet)]]
       /\ \A s \in Tasks, q \in Receivers : Range(packets[s][q]) \subseteq Range(packets'[s][q])
       /\ \A s \in Tasks, q \in Receivers : (s # t \/ q # to) => packets'[s][q] = packets[s][q]
       /\ ~Lost(t, to) => /\ closed[t][to] => packets'[t][to] = packets[t][to]
                          /\ phase[t] = "error" => Error \in Range(packets'[t][to]) \/ ErrorInPlay(t, to)
  <2>1. CASE FinishWrite(t)
    <3>1. packets' = packets /\ phase[t] = "finish"
      BY <2>1 DEF FinishWrite, streamVars
    <3> QED  BY <1>1, <3>1 DEF TypeOK, StreamsTypeOK
  <2>2. CASE WriteErrToTunnel(t)
    <3>1. phase[t] = "error" /\ connected[t][to] /\ Write(t, to, Error)
      BY <1>4, <2>2 DEF WriteErrToTunnel, MayWrite
    <3>2. phase[t] \notin OkPhase /\ Error \in Packet
      BY <3>1 DEF OkPhase, Error, Packet
    <3> QED  BY <1>4, <3>1, <3>2, WriteAdds
  <2> QED  BY <2>1, <2>2
<1>11. TypeOK'
  <2>1. StreamsTypeOK'
    BY <1>1, <1>6, <1>10 DEF TypeOK, StreamsTypeOK
  <2>2. TasksTypeOK'
    BY <1>1, <1>5, <1>8, <1>9 DEF TypeOK, TasksTypeOK
  <2>3. ReceiversTypeOK'
    BY <1>1, <1>7 DEF TypeOK, ReceiversTypeOK
  <2> QED  BY <2>1, <2>2, <2>3 DEF TypeOK
<1>12. \A u \in Tasks : AtInv(u)' /\ PoolInv(u)' /\ PhaseKept(u)
  BY <1>1, <1>5, <1>8 DEF AtInv, PoolInv, PhaseKept, OkPhase, ErrorPhase
<1>13. EofComplete'
  BY <1>5, <1>6, <1>7, <1>12, EofFrame, LostKept
<1>14. ASSUME NEW r \in Receivers
       PROVE  LiveInv(r)'
  BY <1>7, EofInvParts, LiveFrame
<1>15. ASSUME NEW s \in Tasks, NEW r \in Range(Targets[s]), ~Lost(s, r)'
       PROVE  PairInv(s, r)'
  <2>1. PairInv(s, r) /\ r \in Receivers /\ PhaseKept(s) /\ ~Lost(s, r)
    BY <1>6, <1>12, <1>15, EofInvParts, LostKept, TargetsType
  <2>2. \A b \in 1 .. batches[s] : Located(s, r, b) => Located(s, r, b)'
    <3>1. Range(packets[s][r]) \subseteq Range(packets'[s][r])
      BY <1>10, <2>1
    <3> QED  BY <1>5, <1>7, <3>1 DEF Located, Pending
  <2>3. ErrorInPlay(s, r) => ErrorInPlay(s, r)'
    <3>1. Range(packets[s][r]) \subseteq Range(packets'[s][r])
      BY <1>10, <2>1
    <3> QED  BY <1>7, <3>1 DEF ErrorInPlay
  <2>4. TunnelInv(s, r)'
    <3>1. CASE s = t /\ r = to
      <4>1. phase[s] = "error" => ErrorInPlay(s, r)'
        BY <1>10, <2>1, <2>3, <3>1 DEF ErrorInPlay
      <4>2. finished'[s][r] /\ call' = call /\ closed' = closed /\ connected' = connected
        BY <1>5, <1>6, <1>9, <3>1
      <4>3. phase'[s] \in OkPhase \/ (phase'[s] \in ErrorPhase /\ ErrorInPlay(s, r)')
        BY <1>8, <3>1, <4>1 DEF OkPhase, ErrorPhase
      <4> QED  BY <2>1, <2>3, <4>2, <4>3 DEF PairInv, TunnelInv, PhaseKept
    <3>2. CASE ~(s = t /\ r = to)
      <4>1. finished'[s][r] = finished[s][r]
        BY <1>9, <2>1, <3>2
      <4>2. call' = call /\ closed' = closed /\ connected' = connected
        BY <1>5, <1>6
      <4> QED  BY <2>1, <2>3, <4>1, <4>2 DEF PairInv, TunnelInv, PhaseKept
    <3> QED  BY <3>1, <3>2
  <2>5. BatchInv(s, r)'
    BY <1>5, <2>1, <2>2 DEF PairInv, BatchInv, PhaseKept
  <2>6. LoopInv(s, r)'
    <3>1. closed[s][r] => packets'[s][r] = packets[s][r]
      BY <1>10, <2>1
    <3> QED  BY <1>6, <1>7, <2>1, <3>1 DEF PairInv, LoopInv
  <2> QED  BY <2>4, <2>5, <2>6 DEF PairInv
<1> QED  BY <1>11, <1>12, <1>13, <1>14, <1>15 DEF EofInv, PairInv

-----------------------------------------------------------------------------
(***************************************************************************)
(* The loss of a process or of a stream, and the handlers.                 *)
(***************************************************************************)
LEMMA FatalStep ==
    ASSUME EofInv, NEW t \in Tasks, Fatal(t), UNCHANGED receiverVars
    PROVE  EofInv'
<1> DEFINE n == NodeOf[t]
<1>1. TypeOK /\ \A u \in Tasks : AtInv(u) /\ PoolInv(u)
  BY EofInvParts
<1>2. UNCHANGED <<taskMap, phase, at, registered, connected, finished, batches, jobs, poolError>>
  BY DEF Fatal, taskVars, tunnelVars
<1>3. UNCHANGED <<inited, loop, live_connections, meet_error, result_buffer, got, result>>
  BY DEF receiverVars
<1>4. PICK arriving \in SUBSET ({u \in Tasks : NodeOf[u] = n} \X Receivers) :
        /\ up' = up \ {n}
        /\ call' = [u \in Tasks |-> [r \in Receivers |->
                      IF NodeOf[u] = n /\ call[u][r] # "none" THEN "returned" ELSE call[u][r]]]
        /\ packets' = [u \in Tasks |-> [r \in Receivers |->
                         IF NodeOf[u] = n /\ ~closed[u][r] /\ <<u, r>> \notin arriving THEN <<>> ELSE packets[u][r]]]
        /\ closed' = [u \in Tasks |-> [r \in Receivers |-> NodeOf[u] = n \/ closed[u][r]]]
        /\ broken' = broken
  BY DEF Fatal, Terminate
<1> HIDE DEF n
<1>5. StreamsTypeOK'
  <2>1. up' \subseteq Node
    BY <1>1, <1>4 DEF TypeOK, StreamsTypeOK
  <2>2. call' \in [Tasks -> [Receivers -> CallState]]
    BY <1>1, <1>4 DEF TypeOK, StreamsTypeOK, CallState
  <2>3. packets' \in [Tasks -> [Receivers -> Seq(Packet)]]
    BY <1>1, <1>4, SMTT(60) DEF TypeOK, StreamsTypeOK
  <2>4. closed' \in [Tasks -> [Receivers -> BOOLEAN]]
    BY <1>1, <1>4 DEF TypeOK, StreamsTypeOK
  <2>5. broken' \in [Tasks -> [Receivers -> BOOLEAN]]
    BY <1>1, <1>4 DEF TypeOK, StreamsTypeOK
  <2> QED  BY <2>1, <2>2, <2>3, <2>4, <2>5 DEF StreamsTypeOK
<1>6. TypeOK'
  BY <1>1, <1>2, <1>3, <1>5 DEF TypeOK, TasksTypeOK, ReceiversTypeOK
<1>7. \A u \in Tasks : AtInv(u)' /\ PoolInv(u)' /\ PhaseKept(u)
  BY <1>1, <1>2 DEF AtInv, PoolInv, PhaseKept
<1>8. EofComplete'
  <2>1. LostGrows
    BY <1>4 DEF LostGrows, Lost, Up
  <2> QED  BY <1>2, <1>3, <1>7, <2>1, EofFrame
<1>9. ASSUME NEW r \in Receivers
      PROVE  LiveInv(r)'
  BY <1>3, EofInvParts, LiveFrame
<1>10. ASSUME NEW s \in Tasks, NEW r \in Range(Targets[s]), ~Lost(s, r)'
       PROVE  PairInv(s, r)'
  <2>1. NodeOf[s] # n /\ ~Lost(s, r) /\ r \in Receivers
    BY <1>4, <1>10, TargetsType DEF Lost, Up
  <2>2. call'[s][r] = call[s][r] /\ packets'[s][r] = packets[s][r] /\ closed'[s][r] = closed[s][r]
    <3>1. closed[s][r] \in BOOLEAN
      BY <1>1, <2>1 DEF TypeOK, StreamsTypeOK
    <3> QED  BY <1>4, <2>1, <3>1
  <2>3. PairInv(s, r)
    BY <2>1, EofInvParts
  <2>4. \A b \in 1 .. batches[s] : Located(s, r, b) => Located(s, r, b)'
    BY <1>2, <1>3, <2>2 DEF Located, Pending
  <2>5. ErrorInPlay(s, r) => ErrorInPlay(s, r)'
    BY <1>3, <2>2 DEF ErrorInPlay
  <2> QED  BY <1>2, <1>3, <1>7, <2>1, <2>2, <2>3, <2>4, <2>5, PairFrame
<1> QED  BY <1>6, <1>7, <1>8, <1>9, <1>10 DEF EofInv, PairInv

\* A stream breaks, or its call is refused: nothing is claimed of it any more,
\* and the others are as they were.
LEMMA BreakStep ==
    ASSUME EofInv, NEW t \in Tasks, NEW to \in Range(Targets[t]), UNCHANGED <<taskVars, receiverVars>>,
           Refuse(t, to) \/ BreakStream(t, to)
    PROVE  EofInv'
<1>1. TypeOK /\ to \in Receivers
  BY EofInvParts, TargetsType
<1>2. /\ UNCHANGED <<up, taskMap, phase, at, registered, connected, finished, batches, jobs, poolError>>
      /\ UNCHANGED <<inited, loop, live_connections, meet_error, result_buffer, got, result>>
  BY DEF Refuse, BreakStream, taskVars, tunnelVars, receiverVars
<1>3. /\ call \in [Tasks -> [Receivers -> CallState]] /\ packets \in [Tasks -> [Receivers -> Seq(Packet)]]
      /\ closed \in [Tasks -> [Receivers -> BOOLEAN]] /\ broken \in [Tasks -> [Receivers -> BOOLEAN]]
  BY <1>1 DEF TypeOK, StreamsTypeOK
<1>4. /\ broken' \in [Tasks -> [Receivers -> BOOLEAN]] /\ broken'[t][to] = TRUE
      /\ \A s \in Tasks, q \in Receivers : (s # t \/ q # to) => broken'[s][q] = broken[s][q]
  <2>1. broken' = [broken EXCEPT ![t][to] = TRUE] /\ TRUE \in BOOLEAN
    BY DEF Refuse, BreakStream, Break
  <2> QED  BY <1>1, <1>3, <2>1, SetPair
<1>5. /\ call' \in [Tasks -> [Receivers -> CallState]]
      /\ \A s \in Tasks, q \in Receivers : (s # t \/ q # to) => call'[s][q] = call[s][q]
  <2>1. CASE Refuse(t, to)
    <3>1. call' = [call EXCEPT ![t][to] = "returned"] /\ "returned" \in CallState
      BY <2>1 DEF Refuse, Proceed, CallState
    <3> QED  BY <1>1, <1>3, <3>1, SetPair
  <2>2. CASE BreakStream(t, to)
    BY <1>3, <2>2 DEF BreakStream
  <2> QED  BY <2>1, <2>2
<1>6. /\ closed' \in [Tasks -> [Receivers -> BOOLEAN]]
      /\ \A s \in Tasks, q \in Receivers : (s # t \/ q # to) => closed'[s][q] = closed[s][q]
  <2>1. CASE Refuse(t, to)
    <3>1. closed' = [closed EXCEPT ![t][to] = TRUE] /\ TRUE \in BOOLEAN
      BY <2>1 DEF Refuse, Close
    <3> QED  BY <1>1, <1>3, <3>1, SetPair
  <2>2. CASE BreakStream(t, to)
    BY <1>3, <2>2 DEF BreakStream
  <2> QED  BY <2>1, <2>2
<1>7. /\ packets' \in [Tasks -> [Receivers -> Seq(Packet)]]
      /\ \A s \in Tasks, q \in Receivers : (s # t \/ q # to) => packets'[s][q] = packets[s][q]
  <2>1. CASE Refuse(t, to)
    BY <1>3, <2>1 DEF Refuse
  <2>2. CASE BreakStream(t, to)
    <3>1. PICK n \in 0 .. Len(packets[t][to]) :
            packets' = [packets EXCEPT ![t][to] = SubSeq(packets[t][to], 1, n)]
      BY <2>2 DEF BreakStream
    <3>2. SubSeq(packets[t][to], 1, n) \in Seq(Packet)
      BY <1>1, <1>3, RangePrefix
    <3> QED  BY <1>1, <1>3, <3>1, <3>2, SetPair
  <2> QED  BY <2>1, <2>2
<1>8. TypeOK'
  <2>1. StreamsTypeOK'
    BY <1>1, <1>2, <1>4, <1>5, <1>6, <1>7 DEF TypeOK, StreamsTypeOK
  <2>2. TasksTypeOK'
    BY <1>1, <1>2 DEF TypeOK, TasksTypeOK
  <2>3. ReceiversTypeOK'
    BY <1>1, <1>2 DEF TypeOK, ReceiversTypeOK
  <2> QED  BY <2>1, <2>2, <2>3 DEF TypeOK
<1>9. \A u \in Tasks : AtInv(u)' /\ PoolInv(u)' /\ PhaseKept(u)
  <2>1. \A u \in Tasks : AtInv(u) /\ PoolInv(u)
    BY EofInvParts
  <2> QED  BY <1>2, <2>1 DEF AtInv, PoolInv, PhaseKept
<1>10. LostGrows
  BY <1>2, <1>4 DEF LostGrows, Lost, Up
<1>11. EofComplete'
  BY <1>2, <1>9, <1>10, EofFrame
<1>12. ASSUME NEW r \in Receivers
       PROVE  LiveInv(r)'
  BY <1>2, EofInvParts, LiveFrame
<1>13. ASSUME NEW s \in Tasks, NEW r \in Range(Targets[s]), ~Lost(s, r)'
       PROVE  PairInv(s, r)'
  <2>1. s # t \/ r # to
    BY <1>4, <1>13 DEF Lost
  <2>2. PairInv(s, r) /\ r \in Receivers
    BY <1>10, <1>13, EofInvParts, TargetsType DEF LostGrows
  <2>3. call'[s][r] = call[s][r] /\ packets'[s][r] = packets[s][r] /\ closed'[s][r] = closed[s][r]
    BY <1>5, <1>6, <1>7, <2>1, <2>2
  <2>4. \A b \in 1 .. batches[s] : Located(s, r, b) => Located(s, r, b)'
    BY <1>2, <2>3 DEF Located, Pending
  <2>5. ErrorInPlay(s, r) => ErrorInPlay(s, r)'
    BY <1>2, <2>3 DEF ErrorInPlay
  <2> QED  BY <1>2, <1>9, <2>2, <2>3, <2>4, <2>5, PairFrame
<1> QED  BY <1>8, <1>9, <1>11, <1>12, <1>13 DEF EofInv, PairInv

LEMMA HandlerStep ==
    ASSUME EofInv, NEW t \in Tasks, NEW to \in Range(Targets[t]), Handler(t, to), UNCHANGED receiverVars
    PROVE  EofInv'
<1>0. SUFFICES ASSUME ~Refuse(t, to) PROVE EofInv'
  <2>1. CASE Refuse(t, to)
    BY <2>1, BreakStep DEF Refuse
  <2> QED  BY <2>1
<1>1. /\ TypeOK /\ (\A u \in Tasks : AtInv(u) /\ PoolInv(u))
      /\ ~Lost(t, to) => PairInv(t, to)
      /\ to \in Receivers
  BY EofInvParts, TargetsType
<1>2. UNCHANGED <<up, broken, taskMap, phase, at, registered, finished, batches, jobs, poolError>>
  BY <1>0 DEF Handler, FindTask, FindTaskTimeout, FindTunnel, FindTunnelTimeout, Connect, WaitForFinish, AnswerError,
         taskVars, tunnelVars
<1>3. UNCHANGED <<inited, loop, live_connections, meet_error, result_buffer, got, result>>
  BY DEF receiverVars
<1>4. call \in [Tasks -> [Receivers -> CallState]] /\ closed \in Tunnels /\ connected \in Tunnels
  BY <1>1 DEF TypeOK, StreamsTypeOK, TasksTypeOK, Tunnels
\* The answer, its end and the tunnel.
<1>5. PICK c \in CallState :
        /\ call' = [call EXCEPT ![t][to] = c]
        /\ \/ /\ call[t][to] \in {"find_task", "find_tunnel"} /\ c \in {"find_tunnel", "connect"}
              /\ UNCHANGED <<packets, closed, connected>>
           \/ /\ call[t][to] \in {"find_task", "find_tunnel"} /\ c = "returned"
              /\ IF broken[t][to] THEN UNCHANGED packets ELSE Send(t, to, Error)
              /\ Close(t, to) /\ UNCHANGED connected
           \/ /\ call[t][to] = "connect" /\ c = "wait"
              /\ connected' = [connected EXCEPT ![t][to] = TRUE] /\ UNCHANGED <<packets, closed>>
           \/ /\ call[t][to] = "wait" /\ c = "returned" /\ finished[t][to]
              /\ Close(t, to) /\ UNCHANGED <<packets, connected>>
  <2> USE DEF CallState, Proceed, taskVars, tunnelVars
  <2>1. CASE FindTask(t, to) \/ FindTunnel(t, to)
    BY <2>1 DEF FindTask, FindTunnel
  <2>2. CASE FindTaskTimeout(t, to) \/ FindTunnelTimeout(t, to)
    BY <2>2 DEF FindTaskTimeout, FindTunnelTimeout, AnswerError
  <2>3. CASE Connect(t, to)
    BY <2>3 DEF Connect
  <2>4. CASE WaitForFinish(t, to)
    BY <2>4 DEF WaitForFinish
  <2> QED  BY <1>0, <2>1, <2>2, <2>3, <2>4 DEF Handler
<1>6. /\ call' \in [Tasks -> [Receivers -> CallState]] /\ call'[t][to] = c
      /\ \A s \in Tasks, q \in Receivers : (s # t \/ q # to) => call'[s][q] = call[s][q]
  BY <1>1, <1>4, <1>5
<1>7. /\ closed' \in Tunnels
      /\ \A s \in Tasks, q \in Receivers : (s # t \/ q # to) => closed'[s][q] = closed[s][q]
  <2>1. CASE closed' = closed
    BY <1>4, <2>1
  <2>2. CASE closed' = [closed EXCEPT ![t][to] = TRUE]
    <3>1. closed \in [Tasks -> [Receivers -> BOOLEAN]] /\ TRUE \in BOOLEAN
      BY <1>4 DEF Tunnels
    <3> QED  BY <1>1, <2>2, <3>1, SetPair DEF Tunnels
  <2> QED  BY <1>5, <2>1, <2>2 DEF Close
<1>8. /\ connected' \in Tunnels
      /\ \A s \in Tasks, q \in Receivers : (s # t \/ q # to) => connected'[s][q] = connected[s][q]
  <2>1. CASE connected' = connected
    BY <1>4, <2>1
  <2>2. CASE connected' = [connected EXCEPT ![t][to] = TRUE]
    <3>1. connected \in [Tasks -> [Receivers -> BOOLEAN]] /\ TRUE \in BOOLEAN
      BY <1>4 DEF Tunnels
    <3> QED  BY <1>1, <2>2, <3>1, SetPair DEF Tunnels
  <2> QED  BY <1>5, <2>1, <2>2
<1>9. /\ packets' \in [Tasks -> [Receivers -> Seq(Packet)]]
      /\ \A s \in Tasks, q \in Receivers : (s # t \/ q # to) => packets'[s][q] = packets[s][q]
      /\ Range(packets[t][to]) \subseteq Range(packets'[t][to])
      /\ c = "returned" /\ ~Lost(t, to) => finished[t][to] \/ Error \in Range(packets'[t][to])
      /\ call[t][to] = "wait" => packets' = packets
  <2>1. CASE packets' = packets /\ (c = "returned" => finished[t][to] \/ broken[t][to])
    BY <1>1, <2>1 DEF TypeOK, StreamsTypeOK, Lost
  <2>2. CASE Send(t, to, Error) /\ call[t][to] # "wait"
    <3>1. Error \in Packet
      BY DEF Error, Packet
    <3> QED  BY <1>1, <2>2, <3>1, SendAdds
  <2> QED  BY <1>5, <2>1, <2>2
<1>10. TypeOK'
  <2>1. StreamsTypeOK'
    BY <1>1, <1>2, <1>6, <1>7, <1>9 DEF TypeOK, StreamsTypeOK, Tunnels
  <2>2. TasksTypeOK'
    BY <1>1, <1>2, <1>8 DEF TypeOK, TasksTypeOK
  <2>3. ReceiversTypeOK'
    BY <1>1, <1>3 DEF TypeOK, ReceiversTypeOK
  <2> QED  BY <2>1, <2>2, <2>3 DEF TypeOK
<1>11. \A u \in Tasks : AtInv(u)' /\ PoolInv(u)' /\ PhaseKept(u)
  BY <1>1, <1>2 DEF AtInv, PoolInv, PhaseKept
<1>12. EofComplete'
  BY <1>2, <1>3, <1>11, EofFrame, LostKept
<1>13. ASSUME NEW r \in Receivers
       PROVE  LiveInv(r)'
  BY <1>3, EofInvParts, LiveFrame
<1>14. ASSUME NEW s \in Tasks, NEW r \in Range(Targets[s]), ~Lost(s, r)', s # t \/ r # to
       PROVE  PairInv(s, r)'
  <2>1. PairInv(s, r) /\ r \in Receivers
    BY <1>2, <1>14, EofInvParts, LostKept, TargetsType
  <2>2. /\ call'[s][r] = call[s][r] /\ packets'[s][r] = packets[s][r]
        /\ closed'[s][r] = closed[s][r] /\ connected'[s][r] = connected[s][r]
    BY <1>6, <1>7, <1>8, <1>9, <1>14, <2>1
  <2>3. \A b \in 1 .. batches[s] : Located(s, r, b) => Located(s, r, b)'
    BY <1>2, <1>3, <2>2 DEF Located, Pending
  <2>4. ErrorInPlay(s, r) => ErrorInPlay(s, r)'
    BY <1>3, <2>2 DEF ErrorInPlay
  <2> QED  BY <1>2, <1>3, <1>11, <2>1, <2>2, <2>3, <2>4, PairFrame
<1>15. ASSUME ~Lost(t, to)'
       PROVE  PairInv(t, to)'
  <2>0. PairInv(t, to) /\ ~Lost(t, to)
    BY <1>1, <1>2, <1>15, LostKept
  <2>1. /\ finished'[t][to] = finished[t][to] /\ phase'[t] = phase[t] /\ meet_error'[to] = meet_error[to]
        /\ loop'[to][t] = loop[to][t] /\ inited'[to] = inited[to]
    BY <1>2, <1>3
  <2>2. ErrorInPlay(t, to) => ErrorInPlay(t, to)'
    BY <1>9, <2>1 DEF ErrorInPlay
  <2>3. c = "returned" => finished[t][to] \/ ErrorInPlay(t, to)'
    BY <1>9, <2>0 DEF ErrorInPlay
  <2>4. /\ call[t][to] \in {"find_task", "find_tunnel", "connect"} \/ (call[t][to] = "wait" /\ finished[t][to])
        /\ c \in {"find_tunnel", "connect", "wait", "returned"}
    BY <1>5
  <2>5. /\ connected'[t][to] => c = "wait" \/ (c = "returned" /\ finished[t][to])
        /\ closed'[t][to] => c = "returned"
    <3>1. connected[t][to] => call[t][to] = "wait"
      BY <2>0, <2>4 DEF PairInv, TunnelInv
    <3>2. ~closed[t][to]
      BY <2>0, <2>4 DEF PairInv, TunnelInv
    <3> QED  BY <1>5, <3>1, <3>2
  <2>6. TunnelInv(t, to)'
    BY <1>1, <1>6, <2>0, <2>1, <2>2, <2>3, <2>5 DEF PairInv, TunnelInv
  <2>7. BatchInv(t, to)'
    <3>1. \A b \in 1 .. batches[t] : Located(t, to, b) => Located(t, to, b)'
      BY <1>2, <1>3, <1>9 DEF Located, Pending
    <3> QED  BY <1>2, <2>0, <3>1 DEF PairInv, BatchInv
  <2>8. LoopInv(t, to)'
    <3>1. ~closed[t][to]
      BY <2>0, <2>4 DEF PairInv, TunnelInv
    <3> QED  BY <1>1, <1>6, <2>0, <2>1, <2>4, <3>1 DEF PairInv, LoopInv
  <2> QED  BY <2>6, <2>7, <2>8 DEF PairInv
<1> QED  BY <1>10, <1>11, <1>12, <1>13, <1>14, <1>15 DEF EofInv, PairInv
=============================================================================
