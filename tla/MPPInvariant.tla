------------------------------ MODULE MPPInvariant ----------------------------
(***************************************************************************)
(* EofComplete for every plan, every number of batches and any pool: what  *)
(* is written, read and given out is never lost between a task's pool and  *)
(* the receiver without an error that the receiver will see, as long as    *)
(* the process and the stream hold.                                        *)
(*                                                                         *)
(* The dispatch request is taken to have a timeout: without one, write()   *)
(* writes nothing.                                                         *)
(***************************************************************************)
EXTENDS MPP, TLAPS

OkPhase == {"finish", "unregister", "done"}
ErrorPhase == {"error", "abandon", "failed"}

\* The receiver has seen an error, or will before the end of the stream.
ErrorInPlay(s, r) == Error \in Range(packets[s][r]) \/ meet_error[r]

\* A job has batch b still to write to r.
Pending(s, r, b) ==
    \E j \in jobs[s] : j.batch = b /\ \E i \in 1 .. Len(Targets[s]) : Targets[s][i] = r /\ j.next <= i

Located(s, r, b) ==
    \/ Pending(s, r, b)
    \/ b \in Range(packets[s][r])
    \/ <<s, b>> \in Range(result_buffer[r])
    \/ <<s, b>> \in Range(got[r])

\* The loops over the tunnels stay within them, and so do the jobs.
AtInv(t) ==
    /\ at[t] >= 1
    /\ phase[t] \in {"finish", "error"} => at[t] <= Len(TunnelMap[t])
    /\ \A j \in jobs[t] : j.next <= Len(Targets[t])

\* The jobs are done, and none has thrown, when the tunnels are finished.
PoolInv(t) == phase[t] \in OkPhase => jobs[t] = {} /\ ~poolError[t]

\* A tunnel: it is finished after success or with an error on its way; it is
\* connected by the call that then waits for it to be finished.
TunnelInv(s, r) ==
    /\ finished[s][r] => phase[s] \in OkPhase \/ (phase[s] \in ErrorPhase /\ ErrorInPlay(s, r))
    /\ connected[s][r] => call[s][r] = "wait" \/ (call[s][r] = "returned" /\ finished[s][r])
    /\ call[s][r] = "returned" => ErrorInPlay(s, r) \/ phase[s] \in OkPhase
    /\ closed[s][r] => call[s][r] = "returned"

\* Every batch is somewhere, unless the task has failed.
BatchInv(s, r) ==
    phase[s] \notin ErrorPhase /\ ~poolError[s] => \A b \in 1 .. batches[s] : Located(s, r, b)

\* A reader that has not called yet has no call; one that ends has seen the
\* end of the stream, or an error.
LoopInv(s, r) ==
    /\ ~inited[r] => loop[r][s] = "none"
    /\ loop[r][s] \in {"none", "call"} => call[s][r] = "none"
    /\ loop[r][s] \in {"end", "ended"} => meet_error[r] \/ (packets[s][r] = <<>> /\ closed[s][r])

\* live_connections counts the threads that have not ended.
Running(r) == {s \in Sources(r) : loop[r][s] # "ended"}
LiveInv(r) ==
    /\ ~inited[r] => \A s \in Tasks : loop[r][s] = "none"
    /\ inited[r] => live_connections[r] = Cardinality(Running(r))

EofInv ==
    /\ TypeOK
    /\ \A t \in Tasks : AtInv(t) /\ PoolInv(t)
    /\ \A s \in Tasks : \A r \in Range(Targets[s]) :
          ~Lost(s, r) => TunnelInv(s, r) /\ BatchInv(s, r) /\ LoopInv(s, r)
    /\ \A r \in Receivers : LiveInv(r)
    /\ EofComplete

-----------------------------------------------------------------------------
(***************************************************************************)
(* Sequences as sets.                                                      *)
(***************************************************************************)
\* Zenon is tried first, then SMT; a leaf that needs arithmetic or records names SMT.
USE ZenonT(60), SMTT(60)

LEMMA RangeAppend ==
    ASSUME NEW S, NEW q \in Seq(S), NEW x \in S
    PROVE  Append(q, x) \in Seq(S) /\ Range(Append(q, x)) = Range(q) \cup {x}
<1>1. Append(q, x) \in Seq(S) /\ Len(Append(q, x)) = Len(q) + 1
  BY SMTT(60)
<1>2. \A i \in 1 .. Len(q) : Append(q, x)[i] = q[i]
  BY SMTT(60)
<1>3. Append(q, x)[Len(q) + 1] = x
  BY SMTT(60)
<1>4. DOMAIN Append(q, x) = 1 .. Len(q) + 1 /\ DOMAIN q = 1 .. Len(q) /\ Len(q) \in Nat
  BY <1>1, SMTT(60)
<1>5. Range(Append(q, x)) \subseteq Range(q) \cup {x}
  BY <1>2, <1>3, <1>4, SMTT(60) DEF Range
<1>6. Range(q) \cup {x} \subseteq Range(Append(q, x))
  BY <1>2, <1>3, <1>4, SMTT(60) DEF Range
<1> QED  BY <1>1, <1>5, <1>6

LEMMA RangeTail ==
    ASSUME NEW S, NEW q \in Seq(S), q # <<>>
    PROVE  /\ Head(q) \in S /\ Tail(q) \in Seq(S)
           /\ Range(q) = Range(Tail(q)) \cup {Head(q)}
<1>1. Len(q) \in Nat \ {0} /\ Tail(q) \in Seq(S) /\ Len(Tail(q)) = Len(q) - 1 /\ Head(q) = q[1]
  BY SMTT(60)
<1>2. \A i \in 1 .. Len(q) - 1 : Tail(q)[i] = q[i + 1]
  BY <1>1, SMTT(60)
<1>3. DOMAIN q = 1 .. Len(q) /\ DOMAIN Tail(q) = 1 .. Len(q) - 1
  BY <1>1, SMTT(60)
<1>4. Range(q) \subseteq Range(Tail(q)) \cup {Head(q)}
  <2> SUFFICES ASSUME NEW x \in Range(q) PROVE x \in Range(Tail(q)) \cup {Head(q)}
    OBVIOUS
  <2>1. PICK i \in 1 .. Len(q) : x = q[i]
    BY <1>3 DEF Range
  <2>2. CASE i = 1
    BY <1>1, <2>1, <2>2
  <2>3. CASE i # 1
    <3>1. i - 1 \in DOMAIN Tail(q) /\ x = Tail(q)[i - 1]
      BY <1>1, <1>2, <1>3, <2>1, <2>3, SMTT(60)
    <3> QED  BY <3>1 DEF Range
  <2> QED  BY <2>2, <2>3
<1>5. Range(Tail(q)) \cup {Head(q)} \subseteq Range(q)
  BY <1>1, <1>2, <1>3, SMTT(60) DEF Range
<1> QED  BY <1>1, <1>4, <1>5, SMTT(60)

LEMMA RangePrefix ==
    ASSUME NEW S, NEW q \in Seq(S), NEW n \in 0 .. Len(q)
    PROVE  /\ SubSeq(q, 1, n) \in Seq(S) /\ Len(SubSeq(q, 1, n)) = n
           /\ \A i \in 1 .. n : i \in 1 .. Len(q) /\ SubSeq(q, 1, n)[i] = q[i]
           /\ Range(SubSeq(q, 1, n)) \subseteq Range(q)
<1>1. SubSeq(q, 1, n) \in Seq(S) /\ Len(SubSeq(q, 1, n)) = n
  BY SMTT(60)
<1>2. \A i \in 1 .. n : i \in 1 .. Len(q) /\ SubSeq(q, 1, n)[i] = q[i]
  BY SMTT(60)
<1>3. DOMAIN SubSeq(q, 1, n) = 1 .. n /\ DOMAIN q = 1 .. Len(q)
  BY <1>1, SMTT(60)
<1>4. Range(SubSeq(q, 1, n)) \subseteq Range(q)
  BY <1>2, <1>3 DEF Range
<1> QED  BY <1>1, <1>2, <1>4

LEMMA RangeEmpty == Range(<<>>) = {}
  BY SMTT(60) DEF Range

\* One entry of a function of pairs is set.
LEMMA SetPair ==
    ASSUME NEW A, NEW B, NEW S, NEW f \in [A -> [B -> S]], NEW a \in A, NEW b \in B, NEW v \in S,
           NEW g, g = [f EXCEPT ![a][b] = v]
    PROVE  /\ g \in [A -> [B -> S]] /\ g[a][b] = v
           /\ \A x \in A, y \in B : (x # a \/ y # b) => g[x][y] = f[x][y]
<1>1. g[a] = [f[a] EXCEPT ![b] = v] /\ f[a] \in [B -> S]
  OBVIOUS
<1>2. \A x \in A : x # a => g[x] = f[x]
  OBVIOUS
<1>3. g[a][b] = v /\ \A y \in B : y # b => g[a][y] = f[a][y]
  BY <1>1
<1>4. g \in [A -> [B -> S]]
  BY <1>1
<1> QED  BY <1>2, <1>3, <1>4

LEMMA TargetsType ==
    /\ \A t \in Tasks : Targets[t] \in Seq(Tasks \cup {Root}) /\ Len(Targets[t]) \in Nat \ {0}
    /\ \A t \in Tasks : \A i \in 1 .. Len(Targets[t]) : Targets[t][i] \in Range(Targets[t])
    /\ \A t \in Tasks : Range(Targets[t]) \subseteq Receivers
    /\ \A r \in Receivers : Sources(r) \subseteq Tasks
<1>1. \A t \in Tasks : Targets[t] \in Seq(Tasks \cup {Root}) /\ Targets[t] # <<>>
  BY PlanAssumption
<1>2. \A t \in Tasks : DOMAIN Targets[t] = 1 .. Len(Targets[t]) /\ Len(Targets[t]) \in Nat \ {0}
  BY <1>1, SMTT(60)
<1>3. \A t \in Tasks : \A i \in 1 .. Len(Targets[t]) : Targets[t][i] \in Range(Targets[t])
  BY <1>2 DEF Range
<1>4. \A t \in Tasks : Range(Targets[t]) \subseteq Receivers
  BY DEF Receivers
<1>5. \A r \in Receivers : Sources(r) \subseteq Tasks
  BY DEF Sources
<1> QED  BY <1>1, <1>2, <1>3, <1>4, <1>5

\* tunnel_map holds the same tunnels.
LEMMA TunnelMapType ==
    /\ \A t \in Tasks : Len(TunnelMap[t]) = Len(Targets[t]) /\ Len(TunnelMap[t]) \in Nat \ {0}
    /\ \A t \in Tasks : \A i \in 1 .. Len(TunnelMap[t]) : TunnelMap[t][i] \in Range(Targets[t])
<1>1. \A t \in Tasks : Len(TunnelMap[t]) = Len(Targets[t]) /\ Len(TunnelMap[t]) \in Nat \ {0}
  BY TaskAssumption, TargetsType
<1>2. \A t \in Tasks : DOMAIN TunnelMap[t] = 1 .. Len(TunnelMap[t])
  BY TaskAssumption, SMTT(60)
<1>3. \A t \in Tasks : \A i \in 1 .. Len(TunnelMap[t]) : TunnelMap[t][i] \in Range(TunnelMap[t])
  BY <1>2 DEF Range
<1> QED  BY <1>1, <1>3, TaskAssumption

LEMMA InitEofInv == Init => EofInv
<1> SUFFICES ASSUME Init PROVE EofInv
  OBVIOUS
<1> USE DEF Init, InitStreams, InitTasks, InitReceivers
<1>1. TypeOK
  BY SMTT(60) DEF TypeOK, StreamsTypeOK, TasksTypeOK, ReceiversTypeOK, CallState, Packet, Tunnels, Phase, LoopState, Job
<1>2. \A t \in Tasks : AtInv(t) /\ PoolInv(t)
  BY SMTT(60) DEF AtInv, PoolInv, OkPhase
<1>3. ASSUME NEW s \in Tasks, NEW r \in Range(Targets[s])
      PROVE  TunnelInv(s, r) /\ BatchInv(s, r) /\ LoopInv(s, r)
  <2>1. r \in Receivers
    BY TargetsType
  <2> QED  BY <2>1, SMTT(60) DEF TunnelInv, BatchInv, LoopInv
<1>4. \A r \in Receivers : LiveInv(r)
  BY DEF LiveInv
<1>5. EofComplete
  BY DEF EofComplete
<1> QED  BY <1>1, <1>2, <1>3, <1>4, <1>5 DEF EofInv

-----------------------------------------------------------------------------
(***************************************************************************)
(* What a step may leave to a lemma.                                       *)
(***************************************************************************)
\* Success and failure of a task are final.
PhaseKept(t) ==
    /\ phase[t] \in OkPhase => phase'[t] \in OkPhase
    /\ phase[t] \in ErrorPhase => phase'[t] \in ErrorPhase

PairInv(s, r) == TunnelInv(s, r) /\ BatchInv(s, r) /\ LoopInv(s, r)

LEMMA EofInvParts ==
    ASSUME EofInv
    PROVE  /\ TypeOK /\ EofComplete
           /\ \A t \in Tasks : AtInv(t) /\ PoolInv(t)
           /\ \A r \in Receivers : LiveInv(r)
           /\ \A s \in Tasks : \A r \in Range(Targets[s]) : ~Lost(s, r) => PairInv(s, r)
  BY DEF EofInv, PairInv

\* A process or a stream that is gone does not come back.
LostGrows == \A s \in Tasks, r \in Receivers : Lost(s, r) => Lost(s, r)'

LEMMA LostKept ==
    ASSUME UNCHANGED <<up, broken>>
    PROVE  LostGrows /\ \A s \in Tasks, r \in Receivers : ~Lost(s, r)' => ~Lost(s, r)
  BY DEF LostGrows, Lost, Up

LEMMA StreamsKept ==
    ASSUME UNCHANGED streamVars
    PROVE  LostGrows /\ \A s \in Tasks, r \in Receivers : ~Lost(s, r)' => ~Lost(s, r)
  BY LostKept DEF streamVars

\* No receiver gets a result, and no task that has succeeded gets a batch.
LEMMA EofFrame ==
    ASSUME EofInv, result' = result, \A r \in Receivers : Range(got[r]) \subseteq Range(got'[r]),
           \A t \in Tasks : PhaseKept(t),
           LostGrows,
           \A t \in Tasks : phase[t] \in OkPhase => batches'[t] = batches[t]
    PROVE  EofComplete'
<1> SUFFICES ASSUME NEW r \in Receivers, result[r] = "eof", NEW s \in Sources(r), ~Lost(s, r)'
             PROVE  /\ phase'[s] \in OkPhase
                    /\ \A b \in 1 .. batches'[s] : <<s, b>> \in Range(got'[r])
  BY DEF EofComplete, OkPhase
<1>1. s \in Tasks /\ ~Lost(s, r)
  BY TargetsType DEF LostGrows
<1>2. phase[s] \in OkPhase /\ \A b \in 1 .. batches[s] : <<s, b>> \in Range(got[r])
  BY <1>1, EofInvParts DEF EofComplete, OkPhase
<1> QED  BY <1>1, <1>2 DEF PhaseKept

\* What a pair of a source and its receiver relies on has not changed, or only
\* for the better.
LEMMA PairFrame ==
    ASSUME NEW s \in Tasks, NEW r \in Receivers, PairInv(s, r), PhaseKept(s),
           batches'[s] = batches[s], poolError[s] => poolError'[s],
           phase'[s] \notin ErrorPhase /\ ~poolError'[s]
               => \A b \in 1 .. batches[s] : Located(s, r, b) => Located(s, r, b)',
           ErrorInPlay(s, r) => ErrorInPlay(s, r)',
           call'[s][r] = call[s][r], closed'[s][r] = closed[s][r],
           connected'[s][r] = connected[s][r], finished'[s][r] = finished[s][r],
           inited'[r] = inited[r], loop'[r][s] = loop[r][s], meet_error[r] => meet_error'[r],
           packets[s][r] = <<>> /\ closed[s][r] => packets'[s][r] = <<>>
    PROVE  PairInv(s, r)'
<1>1. TunnelInv(s, r)'
  BY DEF PairInv, TunnelInv, PhaseKept
<1>2. BatchInv(s, r)'
  BY DEF PairInv, BatchInv, PhaseKept
<1>3. LoopInv(s, r)'
  BY DEF PairInv, LoopInv
<1> QED  BY <1>1, <1>2, <1>3 DEF PairInv

LEMMA LiveFrame ==
    ASSUME NEW r \in Receivers, LiveInv(r),
           inited'[r] = inited[r], loop'[r] = loop[r], live_connections'[r] = live_connections[r]
    PROVE  LiveInv(r)'
  BY DEF LiveInv, Running

\* Only the thread of a task has moved on.
LEMMA PhaseStep ==
    ASSUME EofInv, TypeOK', EofComplete',
           \A t \in Tasks : AtInv(t)' /\ PoolInv(t)' /\ PhaseKept(t),
           UNCHANGED <<streamVars, connected, finished, batches, jobs, poolError,
                       inited, loop, live_connections, meet_error, result_buffer, got>>
    PROVE  EofInv'
<1>1. ASSUME NEW r \in Receivers
      PROVE  LiveInv(r)'
  BY EofInvParts DEF LiveInv, Running
<1>2. ASSUME NEW s \in Tasks, NEW r \in Range(Targets[s]), ~Lost(s, r)'
      PROVE  PairInv(s, r)'
  <2>1. PairInv(s, r) /\ PhaseKept(s)
    BY <1>2, EofInvParts, StreamsKept, TargetsType
  <2>2. TunnelInv(s, r)'
    BY <2>1 DEF PairInv, TunnelInv, ErrorInPlay, PhaseKept, streamVars
  <2>3. BatchInv(s, r)'
    BY <2>1 DEF PairInv, BatchInv, Located, Pending, PhaseKept, streamVars
  <2>4. LoopInv(s, r)'
    BY <2>1 DEF PairInv, LoopInv, streamVars
  <2> QED  BY <2>2, <2>3, <2>4 DEF PairInv
<1> QED  BY <1>1, <1>2 DEF EofInv, PairInv

-----------------------------------------------------------------------------
(***************************************************************************)
(* The thread of a task.                                                   *)
(***************************************************************************)
LEMMA StartStep ==
    ASSUME EofInv, NEW t \in Tasks, UNCHANGED receiverVars,
           RegisterTask(t) \/ RegisterTunnel(t) \/ Run(t) \/ Reject(t)
    PROVE  EofInv'
<1> USE DEF RegisterTask, RegisterTunnel, Run, Reject, Enter
<1>1. TypeOK
  BY EofInvParts
<1>2. UNCHANGED <<streamVars, connected, finished, batches, jobs, poolError>>
  BY DEF taskVars, tunnelVars
<1>3. /\ phase \in [Tasks -> Phase] /\ at \in [Tasks -> Nat] /\ registered \in Tunnels
      /\ \A u \in Tasks : AtInv(u) /\ PoolInv(u)
  BY <1>1, EofInvParts DEF TypeOK, TasksTypeOK
<1>4. /\ phase' \in [Tasks -> Phase] /\ phase'[t] \in {"prepare", "read", "rejected"}
      /\ \A u \in Tasks \ {t} : phase'[u] = phase[u]
      /\ phase[t] \in {"none", "prepare"}
  BY <1>3 DEF Phase
<1>5. at' \in [Tasks -> Nat] /\ at'[t] >= 1 /\ \A u \in Tasks \ {t} : at'[u] = at[u]
  BY <1>3, SMTT(60) DEF AtInv
<1>6. registered' \in Tunnels /\ taskMap' \subseteq Tasks
  <2>1. CASE RegisterTunnel(t)
    <3>1. Targets[t][at[t]] \in Receivers
      BY <1>3, <2>1, TargetsType, SMTT(60) DEF AtInv
    <3> QED  BY <1>1, <1>3, <2>1, <3>1 DEF Tunnels, TypeOK, TasksTypeOK
  <2>2. CASE ~RegisterTunnel(t)
    BY <1>1, <1>3, <2>2 DEF TypeOK, TasksTypeOK, tunnelVars
  <2> QED  BY <2>1, <2>2
<1>7. TypeOK'
  BY <1>1, <1>2, <1>4, <1>5, <1>6 DEF TypeOK, StreamsTypeOK, TasksTypeOK, ReceiversTypeOK, streamVars, receiverVars
<1>8. \A u \in Tasks : AtInv(u)' /\ PoolInv(u)' /\ PhaseKept(u)
  BY <1>2, <1>3, <1>4, <1>5 DEF AtInv, PoolInv, PhaseKept, OkPhase, ErrorPhase
<1>9. EofComplete'
  BY <1>2, <1>8, EofFrame, StreamsKept DEF receiverVars
<1> QED  BY <1>2, <1>7, <1>8, <1>9, PhaseStep DEF receiverVars

\* The input ends or throws, the jobs are waited for, the task is unregistered.
LEMMA EndStep ==
    ASSUME EofInv, NEW t \in Tasks, EofComplete',
           UNCHANGED <<streamVars, inited, loop, live_connections, meet_error, result_buffer, got>>,
           EndRead(t, "suffix") \/ EndRead(t, "error") \/ WriteSuffix(t) \/ UnregisterTask(t),
           result' \in [Receivers -> {"none", "eof", "error"}]
    PROVE  EofInv'
<1> USE DEF EndRead, WriteSuffix, UnregisterTask, Enter
<1>1. TypeOK /\ \A u \in Tasks : AtInv(u) /\ PoolInv(u)
  BY EofInvParts
<1>2. UNCHANGED <<connected, registered, finished, batches, jobs, poolError>>
  BY DEF tunnelVars
<1>3. phase \in [Tasks -> Phase] /\ at \in [Tasks -> Nat]
  BY <1>1 DEF TypeOK, TasksTypeOK
<1>4. /\ phase' \in [Tasks -> Phase] /\ \A u \in Tasks \ {t} : phase'[u] = phase[u]
      /\ \/ phase[t] = "read" /\ phase'[t] \in {"suffix", "error"}
         \/ phase[t] = "suffix" /\ phase'[t] = "error"
         \/ phase[t] = "suffix" /\ phase'[t] = "finish" /\ jobs[t] = {} /\ ~poolError[t]
         \/ phase[t] = "unregister" /\ phase'[t] = "done"
         \/ phase[t] = "abandon" /\ phase'[t] = "failed"
  BY <1>3 DEF Phase
<1>5. at' \in [Tasks -> Nat] /\ at'[t] = 1 /\ \A u \in Tasks \ {t} : at'[u] = at[u]
  BY <1>3, SMTT(60)
<1>6. taskMap' \subseteq Tasks
  BY <1>1 DEF TypeOK, TasksTypeOK
<1>7. TypeOK'
  BY <1>1, <1>2, <1>4, <1>5, <1>6 DEF TypeOK, StreamsTypeOK, TasksTypeOK, ReceiversTypeOK, streamVars
<1>8. \A u \in Tasks : AtInv(u)' /\ PoolInv(u)' /\ PhaseKept(u)
  <2>1. AtInv(t)'
    BY <1>1, <1>2, <1>4, <1>5, TunnelMapType, SMTT(60) DEF AtInv
  <2>2. PoolInv(t)' /\ PhaseKept(t)
    BY <1>1, <1>2, <1>4 DEF PoolInv, PhaseKept, OkPhase, ErrorPhase
  <2>3. \A u \in Tasks \ {t} : AtInv(u)' /\ PoolInv(u)' /\ PhaseKept(u)
    BY <1>1, <1>2, <1>4, <1>5 DEF AtInv, PoolInv, PhaseKept
  <2> QED  BY <2>1, <2>2, <2>3
<1> QED  BY <1>2, <1>7, <1>8, PhaseStep

LEMMA EndStepKept ==
    ASSUME EofInv, NEW t \in Tasks,
           EndRead(t, "suffix") \/ EndRead(t, "error") \/ WriteSuffix(t) \/ UnregisterTask(t)
    PROVE  \A u \in Tasks : PhaseKept(u) /\ batches'[u] = batches[u]
<1>1. phase \in [Tasks -> Phase]
  BY EofInvParts DEF TypeOK, TasksTypeOK
<1> QED  BY <1>1 DEF EndRead, WriteSuffix, UnregisterTask, Enter, PhaseKept, OkPhase, ErrorPhase

LEMMA TaskEndStep ==
    ASSUME EofInv, NEW t \in Tasks,
           \/ StorageEnds(t) \/ ReadThrows(t)
           \/ (WriteSuffix(t) \/ UnregisterTask(t)) /\ UNCHANGED receiverVars
    PROVE  EofInv'
<1>1. /\ EndRead(t, "suffix") \/ EndRead(t, "error") \/ WriteSuffix(t) \/ UnregisterTask(t)
      /\ UNCHANGED <<streamVars, receiverVars>>
  BY DEF StorageEnds, ReadThrows, WriteSuffix, UnregisterTask
<1>2. EofComplete'
  BY <1>1, EndStepKept, EofFrame, StreamsKept DEF receiverVars
<1>3. result' \in [Receivers -> {"none", "eof", "error"}]
  BY <1>1, EofInvParts DEF TypeOK, ReceiversTypeOK, receiverVars
<1> QED  BY <1>1, <1>2, <1>3, EndStep DEF receiverVars
=============================================================================
