------------------------------ MODULE MPPProofs ------------------------------
(***************************************************************************)
(* EofComplete for every plan, every number of batches and any pool: the   *)
(* receivers' steps preserve EofInv, and with it the theorem.              *)
(***************************************************************************)
EXTENDS MPPTaskProofs, FiniteSetTheorems

\* Zenon is tried first, then SMT; a leaf that needs arithmetic or records names SMT.
USE ZenonT(60), SMTT(60)

LEMMA SourcesFinite == \A r \in Receivers : IsFiniteSet(Sources(r))
  BY PlanAssumption, FS_Subset DEF Sources

-----------------------------------------------------------------------------
(***************************************************************************)
(* nextResult and what its caller does with the result.                    *)
(***************************************************************************)
\* A packet moves from the buffer to the caller.
LEMMA PacketMoves ==
    ASSUME TypeOK, NEW r \in Receivers, NextPacket(r)
    PROVE  /\ result_buffer' \in [Receivers -> Seq(Tasks \X Packet)]
           /\ got' \in [Receivers -> Seq(Tasks \X Packet)]
           /\ \A q \in Receivers : /\ Range(got[q]) \subseteq Range(got'[q])
                                  /\ Range(result_buffer[q]) \subseteq Range(result_buffer'[q]) \cup Range(got'[q])
<1>1. /\ result_buffer \in [Receivers -> Seq(Tasks \X Packet)]
      /\ got \in [Receivers -> Seq(Tasks \X Packet)]
  BY DEF TypeOK, ReceiversTypeOK
<1> DEFINE S == Tasks \X Packet
           q0 == result_buffer[r]
           g0 == got[r]
<1>2. q0 \in Seq(S) /\ g0 \in Seq(S) /\ q0 # <<>>
  BY <1>1 DEF NextPacket
<1>3. Head(q0) \in S /\ Tail(q0) \in Seq(S) /\ Range(q0) = Range(Tail(q0)) \cup {Head(q0)}
  <2> HIDE DEF S, q0
  <2> QED  BY <1>2, RangeTail
<1>4. Append(g0, Head(q0)) \in Seq(S) /\ Range(Append(g0, Head(q0))) = Range(g0) \cup {Head(q0)}
  <2> HIDE DEF S, q0, g0
  <2> QED  BY <1>2, <1>3, RangeAppend, SMTT(60)
<1>5. /\ result_buffer' = [result_buffer EXCEPT ![r] = Tail(q0)]
      /\ got' = [got EXCEPT ![r] = Append(g0, Head(q0))]
  BY DEF NextPacket
<1> HIDE DEF q0, g0
<1> QED  BY <1>1, <1>3, <1>4, <1>5 DEF q0, g0

\* The end of the buffer and of all connections is the end of the input.
LEMMA EofIsComplete ==
    ASSUME EofInv, NEW r \in Receivers, NextEof(r), NEW s \in Sources(r), ~Lost(s, r)
    PROVE  /\ phase[s] \in OkPhase
           /\ \A b \in 1 .. batches[s] : <<s, b>> \in Range(got[r])
<1>1. inited[r] /\ ~meet_error[r] /\ result_buffer[r] = <<>> /\ live_connections[r] = 0
  BY DEF NextEof, Asked
<1>2. s \in Tasks /\ r \in Range(Targets[s]) /\ PairInv(s, r) /\ PoolInv(s)
  BY EofInvParts DEF Sources
<1>3. Running(r) = {}
  <2>1. Cardinality(Running(r)) = 0
    BY <1>1, EofInvParts DEF LiveInv
  <2>2. IsFiniteSet(Running(r))
    BY SourcesFinite, FS_Subset DEF Running
  <2> QED  BY <2>1, <2>2, FS_EmptySet
<1>4. packets[s][r] = <<>> /\ closed[s][r]
  BY <1>1, <1>2, <1>3 DEF Running, PairInv, LoopInv
<1>5. phase[s] \in OkPhase
  BY <1>1, <1>2, <1>4, RangeEmpty DEF PairInv, TunnelInv, ErrorInPlay
<1>6. \A b \in 1 .. batches[s] : Located(s, r, b)
  BY <1>2, <1>5 DEF PairInv, BatchInv, PoolInv, OkPhase, ErrorPhase
<1>7. jobs[s] = {}
  BY <1>2, <1>5 DEF PoolInv
<1> QED  BY <1>1, <1>4, <1>5, <1>6, <1>7, RangeEmpty DEF Located, Pending

LEMMA RemoteStep ==
    ASSUME EofInv, NEW r \in Receivers, ReadRemote(r) \/ RemoteEnds(r) \/ RemoteFails(r)
    PROVE  EofInv'
<1>1. TypeOK /\ EofComplete
  BY EofInvParts
<1>2. CASE ReadRemote(r)
  <2>1. /\ NextPacket(r)
        /\ UNCHANGED <<streamVars, inited, loop, live_connections, meet_error, result>>
    BY <1>2 DEF ReadRemote, NextPacket
  <2>4. /\ result_buffer' \in [Receivers -> Seq(Tasks \X Packet)]
        /\ got' \in [Receivers -> Seq(Tasks \X Packet)]
        /\ \A q \in Receivers : /\ Range(got[q]) \subseteq Range(got'[q])
                               /\ Range(result_buffer[q]) \subseteq Range(result_buffer'[q]) \cup Range(got'[q])
    BY <1>1, <2>1, PacketMoves
  <2>2. CASE r \in Tasks
    <3>1. Schedule(r)
      BY <1>2, <2>2 DEF ReadRemote
    <3> QED  BY <2>1, <2>2, <2>4, <3>1, ScheduleStep
  <2>3. CASE r \notin Tasks
    <3>1. UNCHANGED taskVars
      BY <1>2, <2>3 DEF ReadRemote
    <3> QED  BY <2>1, <2>4, <3>1, ReceiveStep
  <2> QED  BY <2>2, <2>3
<1>3. CASE RemoteEnds(r) \/ RemoteFails(r)
  <2>1. /\ NextEof(r) \/ NextError(r)
        /\ UNCHANGED <<streamVars, inited, loop, live_connections, meet_error, result_buffer, got>>
    BY <1>3 DEF RemoteEnds, RemoteFails, NextEof, NextError
  <2>2. result \in [Receivers -> {"none", "eof", "error"}]
    BY <1>1 DEF TypeOK, ReceiversTypeOK
  <2>3. /\ result' \in [Receivers -> {"none", "eof", "error"}]
        /\ \A q \in Receivers : result'[q] = "eof" => result[q] = "eof" \/ (q = r /\ NextEof(r))
    BY <2>1, <2>2 DEF NextEof, NextError
  <2>4. \/ r \in Tasks /\ (EndRead(r, "suffix") \/ EndRead(r, "error"))
        \/ UNCHANGED taskVars
    BY <1>3 DEF RemoteEnds, RemoteFails
  <2>5. \A u \in Tasks : PhaseKept(u) /\ batches'[u] = batches[u]
    <3>1. CASE UNCHANGED taskVars
      BY <3>1 DEF taskVars, PhaseKept
    <3> QED  BY <2>4, <3>1, EndStepKept
  <2>6. EofComplete'
    <3> SUFFICES ASSUME NEW q \in Receivers, result'[q] = "eof", NEW s \in Sources(q), ~Lost(s, q)'
                 PROVE  /\ phase'[s] \in OkPhase
                        /\ \A b \in 1 .. batches'[s] : <<s, b>> \in Range(got'[q])
      BY DEF EofComplete, OkPhase
    <3>1. s \in Tasks /\ ~Lost(s, q) /\ PhaseKept(s) /\ batches'[s] = batches[s] /\ got' = got
      BY <2>1, <2>5, StreamsKept, TargetsType
    <3>2. phase[s] \in OkPhase /\ \A b \in 1 .. batches[s] : <<s, b>> \in Range(got[q])
      BY <1>1, <2>3, <3>1, EofIsComplete DEF EofComplete, OkPhase
    <3> QED  BY <3>1, <3>2 DEF PhaseKept
  <2>7. CASE UNCHANGED taskVars
    BY <2>1, <2>3, <2>6, <2>7, ReceiveResult
  <2> QED  BY <2>1, <2>3, <2>4, <2>6, <2>7, EndStep
<1> QED  BY <1>2, <1>3

-----------------------------------------------------------------------------
(***************************************************************************)
(* The read threads.                                                       *)
(***************************************************************************)
\* A step of the readers of r leaves the tasks and the other receivers alone.
LEMMA ReaderFrame ==
    ASSUME EofInv, NEW to \in Receivers, TypeOK', UNCHANGED taskVars, UNCHANGED <<up, closed>>, result' = result, got' = got,
           \A r \in Receivers \ {to} : /\ inited'[r] = inited[r] /\ loop'[r] = loop[r]
                                     /\ live_connections'[r] = live_connections[r] /\ meet_error'[r] = meet_error[r]
                                     /\ result_buffer'[r] = result_buffer[r],
           \A s \in Tasks : \A r \in Receivers \ {to} : call'[s][r] = call[s][r] /\ packets'[s][r] = packets[s][r],
           LiveInv(to)',
           LostGrows,
           \A s \in Sources(to) : ~Lost(s, to)' => PairInv(s, to)'
    PROVE  EofInv'
<1>1. UNCHANGED <<taskMap, phase, at, registered, connected, finished, batches, jobs, poolError>>
  BY DEF taskVars, tunnelVars
<1>2. \A u \in Tasks : AtInv(u)' /\ PoolInv(u)' /\ PhaseKept(u)
  BY <1>1, EofInvParts DEF AtInv, PoolInv, PhaseKept
<1>3. EofComplete'
  BY <1>1, <1>2, EofFrame
<1>4. ASSUME NEW r \in Receivers
      PROVE  LiveInv(r)'
  <2>1. CASE r = to
    BY <2>1
  <2>2. CASE r # to
    BY <2>2, EofInvParts, LiveFrame
  <2> QED  BY <2>1, <2>2
<1>5. ASSUME NEW s \in Tasks, NEW r \in Range(Targets[s]), ~Lost(s, r)'
      PROVE  PairInv(s, r)'
  <2>1. PairInv(s, r) /\ r \in Receivers /\ s \in Sources(r)
    BY <1>5, EofInvParts, TargetsType DEF LostGrows, Sources
  <2>2. CASE r = to
    BY <1>5, <2>1, <2>2
  <2>3. CASE r # to
    <3>1. /\ inited'[r] = inited[r] /\ loop'[r][s] = loop[r][s] /\ meet_error'[r] = meet_error[r]
          /\ result_buffer'[r] = result_buffer[r] /\ call'[s][r] = call[s][r] /\ packets'[s][r] = packets[s][r]
      BY <2>1, <2>3
    <3>2. \A b \in 1 .. batches[s] : Located(s, r, b) => Located(s, r, b)'
      BY <1>1, <3>1 DEF Located, Pending
    <3>3. ErrorInPlay(s, r) => ErrorInPlay(s, r)'
      BY <3>1 DEF ErrorInPlay
    <3> QED  BY <1>1, <1>2, <2>1, <3>1, <3>2, <3>3, PairFrame
  <2> QED  BY <2>2, <2>3
<1> QED  BY <1>2, <1>3, <1>4, <1>5 DEF EofInv, PairInv

LEMMA InitReceiverStep ==
    ASSUME EofInv, NEW to \in Receivers, InitReceiver(to)
    PROVE  EofInv'
<1> DEFINE new == [s \in Tasks |-> IF s \in Sources(to) THEN "call" ELSE "none"]
<1>1. TypeOK /\ LiveInv(to)
  BY EofInvParts
<1>2. /\ UNCHANGED taskVars /\ UNCHANGED <<up, closed, broken, call, packets, meet_error, result_buffer, got, result>>
      /\ ~inited[to] /\ inited' = [inited EXCEPT ![to] = TRUE]
      /\ loop' = [loop EXCEPT ![to] = new]
      /\ live_connections' = [live_connections EXCEPT ![to] = Cardinality(Sources(to))]
  BY DEF InitReceiver, StartReaders, streamVars
<1>3. new \in [Tasks -> LoopState] /\ \A s \in Sources(to) : new[s] = "call"
  BY TargetsType DEF LoopState
<1> HIDE DEF new
<1>4. Cardinality(Sources(to)) \in Nat
  BY SourcesFinite, FS_CardinalityType
<1>5. ReceiversTypeOK'
  BY <1>1, <1>2, <1>3, <1>4 DEF TypeOK, ReceiversTypeOK
<1>6. TypeOK'
  BY <1>1, <1>2, <1>5 DEF TypeOK, StreamsTypeOK, TasksTypeOK, taskVars, tunnelVars
<1>7. /\ inited'[to] /\ loop'[to] = new /\ live_connections'[to] = Cardinality(Sources(to))
      /\ \A r \in Receivers \ {to} : /\ inited'[r] = inited[r] /\ loop'[r] = loop[r]
                                    /\ live_connections'[r] = live_connections[r]
  BY <1>1, <1>2 DEF TypeOK, ReceiversTypeOK
<1>8. LiveInv(to)'
  <2>1. Running(to)' = Sources(to)
    BY <1>3, <1>7 DEF Running
  <2> QED  BY <1>7, <2>1 DEF LiveInv
<1>9. ASSUME NEW s \in Sources(to), ~Lost(s, to)'
      PROVE  PairInv(s, to)'
  <2>1. s \in Tasks /\ PairInv(s, to) /\ loop[to][s] = "none"
    BY <1>1, <1>2, <1>9, EofInvParts, LostKept DEF Sources, LiveInv
  <2>2. call[s][to] = "none"
    BY <2>1 DEF PairInv, LoopInv
  <2>3. TunnelInv(s, to)' /\ BatchInv(s, to)'
    BY <1>2, <2>1 DEF PairInv, TunnelInv, BatchInv, Located, Pending, ErrorInPlay, taskVars, tunnelVars
  <2>4. LoopInv(s, to)'
    BY <1>2, <1>3, <1>7, <2>2 DEF LoopInv
  <2> QED  BY <2>3, <2>4 DEF PairInv
<1>10. UNCHANGED <<up, closed>> /\ result' = result /\ got' = got /\ UNCHANGED taskVars /\ LostGrows
  BY <1>2, LostKept
<1>11. \A r \in Receivers \ {to} : /\ inited'[r] = inited[r] /\ loop'[r] = loop[r]
                                 /\ live_connections'[r] = live_connections[r] /\ meet_error'[r] = meet_error[r]
                                 /\ result_buffer'[r] = result_buffer[r]
  BY <1>2, <1>7
<1>12. \A s \in Tasks : \A r \in Receivers \ {to} : call'[s][r] = call[s][r] /\ packets'[s][r] = packets[s][r]
  BY <1>2
<1> QED  BY <1>6, <1>8, <1>9, <1>10, <1>11, <1>12, ReaderFrame

\* The read thread of source t goes from one place to another, not to its end.
LEMMA GotoLive ==
    ASSUME EofInv, NEW to \in Receivers, NEW t \in Tasks, NEW l \in LoopState, Goto(to, t, l),
           loop[to][t] \notin {"none", "ended"}, l # "ended", UNCHANGED <<inited, live_connections>>
    PROVE  /\ loop' \in [Receivers -> [Tasks -> LoopState]] /\ loop'[to][t] = l /\ inited[to]
           /\ \A r \in Receivers, s \in Tasks : (r # to \/ s # t) => loop'[r][s] = loop[r][s]
           /\ LiveInv(to)'
<1>1. loop \in [Receivers -> [Tasks -> LoopState]] /\ LiveInv(to)
  BY EofInvParts DEF TypeOK, ReceiversTypeOK
<1>2. /\ loop' \in [Receivers -> [Tasks -> LoopState]] /\ loop'[to][t] = l
      /\ \A r \in Receivers, s \in Tasks : (r # to \/ s # t) => loop'[r][s] = loop[r][s]
  <2>1. loop' = [loop EXCEPT ![to][t] = l]
    BY DEF Goto
  <2> QED  BY <1>1, <2>1, SetPair
<1>3. inited[to]
  BY <1>1 DEF LiveInv
<1>4. Running(to)' = Running(to)
  <2>1. Sources(to) \subseteq Tasks
    BY TargetsType
  <2> QED  BY <1>2, <2>1 DEF Running
<1>5. LiveInv(to)'
  BY <1>1, <1>3, <1>4 DEF LiveInv
<1> QED  BY <1>2, <1>3, <1>5

LEMMA CallSourceStep ==
    ASSUME EofInv, NEW t \in Tasks, NEW to \in Range(Targets[t]), CallSource(to, t), UNCHANGED taskVars
    PROVE  EofInv'
<1>1. TypeOK /\ to \in Receivers
  BY EofInvParts, TargetsType
<1>2. /\ UNCHANGED <<up, packets, closed, inited, live_connections, meet_error, result_buffer, got, result>>
      /\ loop[to][t] = "call"
      /\ \/ Goto(to, t, "read") /\ call' = [call EXCEPT ![t][to] = "find_task"] /\ broken' = broken
         \/ /\ Goto(to, t, "end") /\ call' = call
            /\ (~Up(t) /\ broken' = broken) \/ (broken' = [broken EXCEPT ![t][to] = TRUE])
  BY DEF CallSource, Break
<1>13. /\ broken' \in [Tasks -> [Receivers -> BOOLEAN]] /\ LostGrows
       /\ ~Lost(t, to)' => Goto(to, t, "read") /\ call' = [call EXCEPT ![t][to] = "find_task"]
  <2>1. broken \in [Tasks -> [Receivers -> BOOLEAN]] /\ TRUE \in BOOLEAN
    BY <1>1 DEF TypeOK, StreamsTypeOK
  <2>2. CASE broken' = broken /\ (Up(t) => Goto(to, t, "read") /\ call' = [call EXCEPT ![t][to] = "find_task"])
    <3>1. LostGrows /\ (~Lost(t, to)' => ~Lost(t, to))
      BY <1>1, <1>2, <2>2, LostKept
    <3> QED  BY <2>1, <2>2, <3>1 DEF Lost
  <2>3. CASE broken' = [broken EXCEPT ![t][to] = TRUE]
    <3>1. /\ broken' \in [Tasks -> [Receivers -> BOOLEAN]] /\ broken'[t][to] = TRUE
          /\ \A x \in Tasks, y \in Receivers : (x # t \/ y # to) => broken'[x][y] = broken[x][y]
      BY <1>1, <2>1, <2>3, SetPair
    <3> QED  BY <1>1, <1>2, <3>1 DEF LostGrows, Lost, Up
  <2> QED  BY <1>2, <2>2, <2>3
<1>3. PICK l \in {"read", "end"} : Goto(to, t, l) /\ (~Lost(t, to)' => l = "read")
  BY <1>2, <1>13
<1>4. l \in LoopState /\ l # "ended" /\ loop[to][t] \notin {"none", "ended"} /\ UNCHANGED <<inited, live_connections>>
  BY <1>2 DEF LoopState
<1>5. /\ loop' \in [Receivers -> [Tasks -> LoopState]] /\ loop'[to][t] = l /\ inited[to]
      /\ \A r \in Receivers, s \in Tasks : (r # to \/ s # t) => loop'[r][s] = loop[r][s]
      /\ LiveInv(to)'
  BY <1>1, <1>3, <1>4, GotoLive
<1>6. /\ call' \in [Tasks -> [Receivers -> CallState]] /\ (~Lost(t, to)' => call'[t][to] = "find_task")
      /\ \A s \in Tasks, q \in Receivers : (s # t \/ q # to) => call'[s][q] = call[s][q]
  <2>1. call \in [Tasks -> [Receivers -> CallState]] /\ "find_task" \in CallState
    BY <1>1 DEF TypeOK, StreamsTypeOK, CallState
  <2>2. CASE call' = [call EXCEPT ![t][to] = "find_task"]
    BY <1>1, <2>1, <2>2, SetPair
  <2>3. CASE call' = call /\ Lost(t, to)'
    BY <2>1, <2>3
  <2> QED  BY <1>2, <1>13, <2>2, <2>3
<1>7. TypeOK'
  <2>1. StreamsTypeOK'
    BY <1>1, <1>2, <1>6, <1>13 DEF TypeOK, StreamsTypeOK
  <2>2. TasksTypeOK'
    BY <1>1 DEF TypeOK, TasksTypeOK, taskVars, tunnelVars
  <2>3. ReceiversTypeOK'
    BY <1>1, <1>2, <1>5 DEF TypeOK, ReceiversTypeOK
  <2> QED  BY <2>1, <2>2, <2>3 DEF TypeOK
<1>8. ASSUME NEW s \in Sources(to), ~Lost(s, to)'
      PROVE  PairInv(s, to)'
  <2>1. s \in Tasks /\ PairInv(s, to)
    BY <1>1, <1>8, <1>13, EofInvParts DEF Sources, LostGrows
  <2>2. BatchInv(s, to)'
    BY <1>2, <2>1 DEF PairInv, BatchInv, Located, Pending, taskVars
  <2>3. CASE s = t
    <3>1. call[s][to] = "none" /\ ~connected[s][to] /\ ~closed[s][to]
      BY <1>2, <2>1, <2>3 DEF PairInv, LoopInv, TunnelInv
    <3>2. call'[s][to] = "find_task" /\ loop'[to][s] = "read" /\ inited'[to]
      BY <1>2, <1>3, <1>5, <1>6, <1>8, <2>3
    <3>3. TunnelInv(s, to)'
      BY <1>2, <2>1, <3>1, <3>2 DEF PairInv, TunnelInv, ErrorInPlay, taskVars, tunnelVars
    <3>4. LoopInv(s, to)'
      BY <3>2 DEF LoopInv
    <3> QED  BY <2>2, <3>3, <3>4 DEF PairInv
  <2>4. CASE s # t
    <3>1. call'[s][to] = call[s][to] /\ loop'[to][s] = loop[to][s]
      BY <1>1, <1>5, <1>6, <2>1, <2>4
    <3>2. TunnelInv(s, to)'
      BY <1>2, <2>1, <3>1 DEF PairInv, TunnelInv, ErrorInPlay, taskVars, tunnelVars
    <3>3. LoopInv(s, to)'
      BY <1>2, <2>1, <3>1 DEF PairInv, LoopInv
    <3> QED  BY <2>2, <3>2, <3>3 DEF PairInv
  <2> QED  BY <2>3, <2>4
<1>9. \A r \in Receivers \ {to} : loop'[r] = loop[r]
  BY <1>1, <1>3 DEF Goto, TypeOK, ReceiversTypeOK
<1>10. UNCHANGED <<up, closed>> /\ result' = result /\ got' = got
  BY <1>2
<1>11. \A r \in Receivers \ {to} : /\ inited'[r] = inited[r] /\ loop'[r] = loop[r]
                                 /\ live_connections'[r] = live_connections[r] /\ meet_error'[r] = meet_error[r]
                                 /\ result_buffer'[r] = result_buffer[r]
  BY <1>2, <1>9
<1>12. \A s \in Tasks : \A r \in Receivers \ {to} : call'[s][r] = call[s][r] /\ packets'[s][r] = packets[s][r]
  BY <1>2, <1>6
<1> QED  BY <1>1, <1>5, <1>7, <1>8, <1>10, <1>11, <1>12, <1>13, ReaderFrame

LEMMA ReadPacketStep ==
    ASSUME EofInv, NEW t \in Tasks, NEW to \in Range(Targets[t]), ReadPacket(to, t), UNCHANGED taskVars
    PROVE  EofInv'
<1>1. TypeOK /\ to \in Receivers
  BY EofInvParts, TargetsType
<1>2. packets \in [Tasks -> [Receivers -> Seq(Packet)]] /\ packets[t][to] \in Seq(Packet) /\ packets[t][to] # <<>>
  BY <1>1 DEF TypeOK, StreamsTypeOK, ReadPacket
<1>3. PICK p \in Packet : p = Head(packets[t][to]) /\ Range(packets[t][to]) = Range(Tail(packets[t][to])) \cup {p}
  BY <1>2, RangeTail
<1>4. /\ UNCHANGED <<up, call, closed, broken>> /\ UNCHANGED <<inited, live_connections, got, result>>
      /\ loop[to][t] = "read"
      /\ packets' = [packets EXCEPT ![t][to] = Tail(packets[t][to])]
      /\ IF p = Error
         THEN meet_error' = [meet_error EXCEPT ![to] = TRUE] /\ Goto(to, t, "end") /\ result_buffer' = result_buffer
         ELSE /\ result_buffer' = [result_buffer EXCEPT ![to] = Append(result_buffer[to], <<t, p>>)]
              /\ meet_error' = meet_error /\ loop' = loop
  BY <1>3 DEF ReadPacket
<1>5. /\ packets' \in [Tasks -> [Receivers -> Seq(Packet)]] /\ packets'[t][to] = Tail(packets[t][to])
      /\ \A s \in Tasks, q \in Receivers : (s # t \/ q # to) => packets'[s][q] = packets[s][q]
  <2>1. Tail(packets[t][to]) \in Seq(Packet)
    BY <1>2, RangeTail
  <2> QED  BY <1>1, <1>2, <1>4, <2>1, SetPair
<1>6. /\ loop' \in [Receivers -> [Tasks -> LoopState]] /\ inited[to] /\ LiveInv(to)'
      /\ \A r \in Receivers, s \in Tasks : (r # to \/ s # t) => loop'[r][s] = loop[r][s]
      /\ \A r \in Receivers \ {to} : loop'[r] = loop[r]
      /\ IF p = Error THEN loop'[to][t] = "end" ELSE loop'[to][t] = "read"
  <2>1. LiveInv(to) /\ loop \in [Receivers -> [Tasks -> LoopState]]
    BY <1>1, EofInvParts DEF TypeOK, ReceiversTypeOK
  <2>2. CASE p = Error
    <3>1. /\ Goto(to, t, "end") /\ "end" \in LoopState /\ "end" # "ended" /\ loop[to][t] \notin {"none", "ended"}
          /\ UNCHANGED <<inited, live_connections>>
      BY <1>4, <2>2 DEF LoopState
    <3>2. /\ loop' \in [Receivers -> [Tasks -> LoopState]] /\ loop'[to][t] = "end" /\ inited[to]
          /\ \A r \in Receivers, s \in Tasks : (r # to \/ s # t) => loop'[r][s] = loop[r][s]
          /\ LiveInv(to)'
      BY <1>1, <3>1, GotoLive
    <3>3. \A r \in Receivers \ {to} : loop'[r] = loop[r]
      BY <2>1, <3>1 DEF Goto
    <3> QED  BY <2>2, <3>2, <3>3
  <2>3. CASE p # Error
    <3>1. loop' = loop /\ LiveInv(to)'
      BY <1>1, <1>4, <2>1, <2>3, LiveFrame
    <3> QED  BY <1>1, <1>4, <2>1, <2>3, <3>1 DEF LiveInv
  <2> QED  BY <2>2, <2>3
<1>7. /\ result_buffer' \in [Receivers -> Seq(Tasks \X Packet)]
      /\ \A r \in Receivers \ {to} : result_buffer'[r] = result_buffer[r]
      /\ Range(result_buffer[to]) \subseteq Range(result_buffer'[to])
      /\ p # Error => <<t, p>> \in Range(result_buffer'[to])
  <2>1. result_buffer \in [Receivers -> Seq(Tasks \X Packet)]
    BY <1>1 DEF TypeOK, ReceiversTypeOK
  <2>2. CASE p = Error
    BY <1>4, <2>1, <2>2
  <2>3. CASE p # Error
    <3> DEFINE S == Tasks \X Packet
    <3>0. <<t, p>> \in S
      BY <1>3
    <3>1. PICK x \in S : x = <<t, p>>
      BY <3>0
    <3>2. result_buffer \in [Receivers -> Seq(S)] /\ result_buffer[to] \in Seq(S)
      BY <1>1, <2>1
    <3> HIDE DEF S
    <3>3. /\ Append(result_buffer[to], x) \in Seq(S)
          /\ Range(Append(result_buffer[to], x)) = Range(result_buffer[to]) \cup {x}
      BY <3>2, RangeAppend, SMTT(60), ZenonT(60)
    <3>4. result_buffer' = [result_buffer EXCEPT ![to] = Append(result_buffer[to], x)]
      BY <1>4, <2>3, <3>1
    <3>5. /\ result_buffer' \in [Receivers -> Seq(S)] /\ result_buffer'[to] = Append(result_buffer[to], x)
          /\ \A r \in Receivers \ {to} : result_buffer'[r] = result_buffer[r]
      BY <1>1, <3>2, <3>3, <3>4
    <3>6. x \in Range(result_buffer'[to]) /\ Range(result_buffer[to]) \subseteq Range(result_buffer'[to])
      BY <3>3, <3>5
    <3> QED  BY <3>1, <3>5, <3>6 DEF S
  <2> QED  BY <2>2, <2>3
<1>8. /\ meet_error' \in [Receivers -> BOOLEAN] /\ (meet_error[to] => meet_error'[to]) /\ (p = Error => meet_error'[to])
      /\ \A r \in Receivers \ {to} : meet_error'[r] = meet_error[r]
  <2>1. meet_error \in [Receivers -> BOOLEAN]
    BY <1>1 DEF TypeOK, ReceiversTypeOK
  <2>2. CASE p = Error
    <3>1. meet_error' = [meet_error EXCEPT ![to] = TRUE]
      BY <1>4, <2>2
    <3> QED  BY <1>1, <2>1, <3>1
  <2>3. CASE p # Error
    BY <1>1, <1>4, <2>1, <2>3
  <2> QED  BY <2>2, <2>3
<1>9. TypeOK'
  <2>1. StreamsTypeOK'
    BY <1>1, <1>4, <1>5 DEF TypeOK, StreamsTypeOK
  <2>2. TasksTypeOK'
    BY <1>1 DEF TypeOK, TasksTypeOK, taskVars, tunnelVars
  <2>3. ReceiversTypeOK'
    BY <1>1, <1>4, <1>6, <1>7, <1>8 DEF TypeOK, ReceiversTypeOK
  <2> QED  BY <2>1, <2>2, <2>3 DEF TypeOK
<1>10. ASSUME NEW s \in Sources(to), ~Lost(s, to)'
       PROVE  PairInv(s, to)'
  <2>1. s \in Tasks /\ PairInv(s, to)
    BY <1>1, <1>4, <1>10, EofInvParts, LostKept DEF Sources
  <2>2. UNCHANGED <<phase, batches, jobs, poolError, connected, finished>>
    BY DEF taskVars, tunnelVars
  <2>3. ErrorInPlay(s, to) => ErrorInPlay(s, to)'
    <3>1. CASE s = t
      BY <1>3, <1>5, <1>8, <3>1 DEF ErrorInPlay
    <3>2. CASE s # t
      BY <1>1, <1>5, <1>8, <2>1, <3>2 DEF ErrorInPlay
    <3> QED  BY <3>1, <3>2
  <2>4. ASSUME NEW b \in 1 .. batches[s], Located(s, to, b)
        PROVE  Located(s, to, b)'
    <3>1. Pending(s, to, b) => Pending(s, to, b)'
      BY <2>2 DEF Pending
    <3>2. b \in Range(packets[s][to]) => b \in Range(packets'[s][to]) \/ <<s, b>> \in Range(result_buffer'[to])
      <4>0. b # Error
        BY SMTT(60) DEF Error
      <4>1. CASE s = t
        BY <1>3, <1>5, <1>7, <4>0, <4>1
      <4>2. CASE s # t
        BY <1>1, <1>5, <2>1, <4>2
      <4> QED  BY <4>1, <4>2
    <3>3. got' = got
      BY <1>4
    <3> QED  BY <1>7, <2>4, <3>1, <3>2, <3>3 DEF Located
  <2>5. TunnelInv(s, to)'
    BY <1>4, <2>1, <2>2, <2>3 DEF PairInv, TunnelInv
  <2>6. BatchInv(s, to)'
    BY <2>1, <2>2, <2>4 DEF PairInv, BatchInv
  <2>7. LoopInv(s, to)'
    <3>1. CASE s = t
      <4>1. inited' = inited /\ inited[to]
        BY <1>4, <1>6
      <4>2. loop'[to][s] \in {"end", "read"} /\ (loop'[to][s] = "end" => meet_error'[to])
        BY <1>6, <1>8, <3>1
      <4> QED  BY <4>1, <4>2 DEF LoopInv
    <3>2. CASE s # t
      <4>1. loop'[to][s] = loop[to][s] /\ packets'[s][to] = packets[s][to]
        BY <1>1, <1>5, <1>6, <2>1, <3>2
      <4> QED  BY <1>4, <1>8, <2>1, <4>1 DEF PairInv, LoopInv
    <3> QED  BY <3>1, <3>2
  <2> QED  BY <2>5, <2>6, <2>7 DEF PairInv
<1>11. \A r \in Receivers \ {to} : /\ inited'[r] = inited[r] /\ loop'[r] = loop[r]
                                 /\ live_connections'[r] = live_connections[r] /\ meet_error'[r] = meet_error[r]
                                 /\ result_buffer'[r] = result_buffer[r]
  BY <1>4, <1>6, <1>7, <1>8
<1>12. \A s \in Tasks : \A r \in Receivers \ {to} : call'[s][r] = call[s][r] /\ packets'[s][r] = packets[s][r]
  BY <1>4, <1>5
<1>13. UNCHANGED <<up, closed>> /\ result' = result /\ got' = got /\ LostGrows
  BY <1>4, LostKept
<1> QED  BY <1>1, <1>6, <1>9, <1>10, <1>11, <1>12, <1>13, ReaderFrame

LEMMA ReaderEndsStep ==
    ASSUME EofInv, NEW t \in Tasks, NEW to \in Range(Targets[t]), ReadFails(to, t) \/ EndLoop(to, t), UNCHANGED taskVars
    PROVE  EofInv'
<1>1. TypeOK /\ to \in Receivers /\ LiveInv(to) /\ t \in Sources(to)
  BY EofInvParts, TargetsType DEF Sources
<1>2. /\ UNCHANGED <<inited, meet_error, result_buffer, got, result>> /\ UNCHANGED <<up, call, packets, closed, broken>>
      /\ \/ /\ loop[to][t] = "read" /\ packets[t][to] = <<>> /\ (~Lost(t, to) => closed[t][to])
            /\ Goto(to, t, "end") /\ live_connections' = live_connections
         \/ /\ loop[to][t] = "end" /\ Goto(to, t, "ended")
            /\ live_connections' = [live_connections EXCEPT ![to] = @ - 1]
  BY DEF ReadFails, EndLoop, Lost, streamVars
<1>3. loop \in [Receivers -> [Tasks -> LoopState]] /\ live_connections \in [Receivers -> Nat]
  BY <1>1 DEF TypeOK, ReceiversTypeOK
<1>4. PICK l \in {"end", "ended"} :
        /\ loop' = [loop EXCEPT ![to][t] = l]
        /\ \/ l = "end" /\ loop[to][t] = "read" /\ packets[t][to] = <<>> /\ (~Lost(t, to) => closed[t][to])
              /\ live_connections' = live_connections
           \/ l = "ended" /\ loop[to][t] = "end" /\ live_connections' = [live_connections EXCEPT ![to] = @ - 1]
  BY <1>2 DEF Goto
<1>5. /\ loop' \in [Receivers -> [Tasks -> LoopState]] /\ loop'[to][t] = l
      /\ \A r \in Receivers, s \in Tasks : (r # to \/ s # t) => loop'[r][s] = loop[r][s]
  <2>1. l \in LoopState
    BY DEF LoopState
  <2>2. loop' = [loop EXCEPT ![to][t] = l]
    BY <1>4
  <2> QED  BY <1>1, <1>3, <2>1, <2>2, SetPair
<1>6. inited[to] /\ live_connections[to] = Cardinality(Running(to)) /\ IsFiniteSet(Running(to)) /\ t \in Running(to)
  <2>1. loop[to][t] \notin {"none", "ended"}
    BY <1>4
  <2>2. inited[to]
    BY <1>1, <2>1 DEF LiveInv
  <2>3. IsFiniteSet(Running(to))
    BY <1>1, SourcesFinite, FS_Subset DEF Running
  <2> QED  BY <1>1, <2>1, <2>2, <2>3 DEF LiveInv, Running
<1>7. live_connections' \in [Receivers -> Nat] /\ LiveInv(to)'
  <2>1. CASE l = "end"
    <3>1. Running(to)' = Running(to)
      BY <1>1, <1>4, <1>5, <2>1, TargetsType DEF Running
    <3> QED  BY <1>2, <1>3, <1>4, <1>6, <2>1, <3>1 DEF LiveInv
  <2>2. CASE l = "ended"
    <3>1. Running(to)' = Running(to) \ {t}
      BY <1>1, <1>5, <2>2, TargetsType DEF Running
    <3>2. /\ Cardinality(Running(to) \ {t}) = Cardinality(Running(to)) - 1
          /\ Cardinality(Running(to) \ {t}) \in Nat
      BY <1>6, FS_RemoveElement, FS_CardinalityType
    <3>3. live_connections'[to] = live_connections[to] - 1
      BY <1>1, <1>3, <1>4, <2>2
    <3>4. live_connections' \in [Receivers -> Nat]
      BY <1>1, <1>3, <1>4, <1>6, <2>2, <3>2
    <3> QED  BY <1>2, <1>6, <3>1, <3>2, <3>3, <3>4 DEF LiveInv
  <2> QED  BY <2>1, <2>2
<1>8. TypeOK'
  <2>1. StreamsTypeOK' /\ TasksTypeOK'
    BY <1>1, <1>2 DEF TypeOK, StreamsTypeOK, TasksTypeOK, taskVars, tunnelVars
  <2>2. ReceiversTypeOK'
    BY <1>1, <1>2, <1>5, <1>7 DEF TypeOK, ReceiversTypeOK
  <2> QED  BY <2>1, <2>2 DEF TypeOK
<1>9. ASSUME NEW s \in Sources(to), ~Lost(s, to)'
      PROVE  PairInv(s, to)'
  <2>1. s \in Tasks /\ PairInv(s, to) /\ ~Lost(s, to)
    BY <1>1, <1>2, <1>9, EofInvParts, LostKept DEF Sources
  <2>2. TunnelInv(s, to)' /\ BatchInv(s, to)'
    BY <1>2, <2>1 DEF PairInv, TunnelInv, BatchInv, Located, Pending, ErrorInPlay, taskVars, tunnelVars
  <2>3. LoopInv(s, to)'
    <3>1. CASE s = t
      BY <1>2, <1>4, <1>5, <1>6, <2>1, <3>1 DEF PairInv, LoopInv
    <3>2. CASE s # t
      <4>1. loop'[to][s] = loop[to][s]
        BY <1>1, <1>5, <2>1, <3>2
      <4> QED  BY <1>2, <2>1, <4>1 DEF PairInv, LoopInv
    <3> QED  BY <3>1, <3>2
  <2> QED  BY <2>2, <2>3 DEF PairInv
<1>10. \A r \in Receivers \ {to} : loop'[r] = loop[r] /\ live_connections'[r] = live_connections[r]
  BY <1>3, <1>4
<1>11. \A r \in Receivers \ {to} : /\ inited'[r] = inited[r] /\ loop'[r] = loop[r]
                                 /\ live_connections'[r] = live_connections[r] /\ meet_error'[r] = meet_error[r]
                                 /\ result_buffer'[r] = result_buffer[r]
  BY <1>2, <1>10
<1>12. \A s \in Tasks : \A r \in Receivers \ {to} : call'[s][r] = call[s][r] /\ packets'[s][r] = packets[s][r]
  BY <1>2
<1>13. UNCHANGED <<up, closed>> /\ result' = result /\ got' = got /\ LostGrows
  BY <1>2, LostKept
<1> QED  BY <1>1, <1>7, <1>8, <1>9, <1>11, <1>12, <1>13, ReaderFrame

-----------------------------------------------------------------------------
(***************************************************************************)
(* The theorem.                                                            *)
(***************************************************************************)
LEMMA NextEofInv ==
    ASSUME EofInv, HasTimeout, [Next]_vars
    PROVE  EofInv'
<1>1. CASE UNCHANGED vars
  <2>1. UNCHANGED taskVars /\ UNCHANGED streamVars /\ UNCHANGED receiverVars
    BY <1>1 DEF vars
  <2>2. result' \in [Receivers -> {"none", "eof", "error"}] /\ EofComplete'
    <3>1. result \in [Receivers -> {"none", "eof", "error"}] /\ EofComplete
      BY EofInvParts DEF TypeOK, ReceiversTypeOK
    <3> QED  BY <2>1, <3>1 DEF EofComplete, Lost, Up, taskVars, streamVars, receiverVars
  <2>3. UNCHANGED <<streamVars, inited, loop, live_connections, meet_error, result_buffer, got>>
    BY <2>1 DEF receiverVars
  <2> QED  BY <2>1, <2>2, <2>3, ReceiveResult
<1>2. ASSUME NEW t \in Tasks, Dispatch(t) \/ TaskThread(t) \/ PoolThread(t)
      PROVE  EofInv'
  <2>1. CASE Dispatch(t)
    BY <2>1, StartStep DEF Dispatch
  <2>2. CASE TaskThread(t)
    <3>1. CASE (RegisterTunnel(t) \/ Run(t) \/ Reject(t)) /\ UNCHANGED receiverVars
      BY <3>1, StartStep
    <3>2. CASE ReadStorage(t)
      <4>1. TypeOK /\ Schedule(t) /\ UNCHANGED streamVars /\ UNCHANGED receiverVars
        BY <3>2, EofInvParts DEF ReadStorage
      <4>2. /\ UNCHANGED <<streamVars, inited, loop, live_connections, meet_error, result>>
            /\ result_buffer' = result_buffer /\ got' = got
        BY <4>1 DEF receiverVars
      <4>3. /\ result_buffer' \in [Receivers -> Seq(Tasks \X Packet)]
            /\ got' \in [Receivers -> Seq(Tasks \X Packet)]
        BY <4>1, <4>2 DEF TypeOK, ReceiversTypeOK
      <4>4. \A q \in Receivers :
               /\ Range(got[q]) \subseteq Range(got'[q])
               /\ Range(result_buffer[q]) \subseteq Range(result_buffer'[q]) \cup Range(got'[q])
        BY <4>2
      <4> QED  BY <4>1, <4>2, <4>3, <4>4, ScheduleStep
    <3>3. CASE \/ StorageEnds(t) \/ ReadThrows(t)
               \/ (WriteSuffix(t) \/ UnregisterTask(t)) /\ UNCHANGED receiverVars
      BY <3>3, TaskEndStep
    <3>4. CASE (FinishWrite(t) \/ WriteErrToTunnel(t)) /\ UNCHANGED receiverVars
      BY <3>4, TunnelStep
    <3>5. CASE Fatal(t) /\ UNCHANGED receiverVars
      BY <3>5, FatalStep
    <3> QED  BY <2>2, <3>1, <3>2, <3>3, <3>4, <3>5 DEF TaskThread
  <2>3. CASE PoolThread(t)
    BY <2>3, JobStep DEF PoolThread
  <2> QED  BY <1>2, <2>1, <2>2, <2>3
<1>3. ASSUME NEW r \in Receivers, ReceiverThread(r)
      PROVE  EofInv'
  BY <1>3, InitReceiverStep, RemoteStep DEF ReceiverThread
<1>4. ASSUME NEW t \in Tasks, NEW r \in Range(Targets[t]),
             HandlerThread(t, r) \/ ReaderThread(r, t) \/ StreamBreaks(t, r)
      PROVE  EofInv'
  <2>1. CASE HandlerThread(t, r)
    BY <2>1, HandlerStep DEF HandlerThread
  <2>2. CASE ReaderThread(r, t)
    BY <2>2, CallSourceStep, ReadPacketStep, ReaderEndsStep DEF ReaderThread, ReadLoop
  <2>3. CASE StreamBreaks(t, r)
    BY <2>3, BreakStep DEF StreamBreaks
  <2> QED  BY <1>4, <2>1, <2>2, <2>3
<1> QED  BY <1>1, <1>2, <1>3, <1>4 DEF Next

\* nextResult reports the end of the input only when every source has succeeded
\* and all its batches were returned, except a source whose process is gone or
\* whose stream was refused or broke, of which the receiver's loop is not told: for
\* every plan, number of batches, pool size and number of broken streams, whatever
\* throws, times out or terminates.
THEOREM EofCompleteHolds == HasTimeout => (Spec => []EofComplete)
<1> SUFFICES ASSUME HasTimeout PROVE Spec => []EofComplete
  OBVIOUS
<1>1. EofInv /\ [Next]_vars => EofInv'
  BY NextEofInv
<1>2. EofInv => EofComplete
  BY EofInvParts
<1> QED  BY <1>1, <1>2, InitEofInv, PTL DEF Spec
=============================================================================
