------------------------- MODULE MPPExchangeProofs -------------------------
(***************************************************************************)
(* The tasks, pools, tunnels, handlers and receivers of an MPP query        *)
(* implement the abstract exchange, for every plan, number of batches and  *)
(* pool. EofInv gives the guard of its End, OnceInv that of its Deliver.   *)
(***************************************************************************)
EXTENDS MPPProofs, MPPOnceProofs, MPPExchange

-----------------------------------------------------------------------------
(***************************************************************************)
(* live_connections, and OnceInv with it.                                  *)
(***************************************************************************)
\* Zenon is tried first, then SMT; a leaf that needs arithmetic or records names SMT.
USE ZenonT(60), SMTT(60)

\* A read thread goes from one place to another; at its end the connection is
\* counted down.
LEMMA GotoCounted ==
    ASSUME TypeInv, NEW to \in Receivers, NEW t \in Tasks, t \in Sources(to), NEW l \in LoopState, l # "none",
           Goto(to, t, l), loop[to][t] \notin {"none", "ended"}, inited' = inited,
           \/ l # "ended" /\ live_connections' = live_connections
           \/ l = "ended" /\ live_connections' = [live_connections EXCEPT ![to] = @ - 1]
    PROVE  LiveCounted'
<1>1. /\ loop \in [Receivers -> [Tasks -> LoopState]] /\ live_connections \in [Receivers -> Nat]
      /\ \A r \in Receivers : LiveInv(r)
  BY DEF TypeInv, TypeOK, ReceiversTypeOK
<1>2. loop' = [loop EXCEPT ![to][t] = l]
  BY DEF Goto
<1>3. /\ loop' \in [Receivers -> [Tasks -> LoopState]] /\ loop'[to][t] = l
      /\ \A r \in Receivers, s \in Tasks : (r # to \/ s # t) => loop'[r][s] = loop[r][s]
  <2>1. loop \in [Receivers -> [Tasks -> LoopState]]
    BY <1>1
  <2> QED  BY <1>2, <2>1, SetPair, SMTT(60), ZenonT(60)
<1>4. inited[to] /\ live_connections[to] = Cardinality(Running(to)) /\ IsFiniteSet(Running(to)) /\ t \in Running(to)
  <2>1. inited[to]
    BY <1>1, <1>2 DEF LiveInv
  <2>2. IsFiniteSet(Running(to))
    BY PlanAssumption, FS_Subset DEF Running, Sources
  <2> QED  BY <1>1, <2>1, <2>2 DEF LiveInv, Running
<1>5. live_connections' \in [Receivers -> Nat] /\ live_connections'[to] = Cardinality(Running(to)')
  <2>1. CASE l # "ended"
    <3>1. Running(to)' = Running(to)
      BY <1>3, <2>1, TargetsType DEF Running
    <3> QED  BY <1>1, <1>4, <2>1, <3>1
  <2>2. CASE l = "ended"
    <3>1. Running(to)' = Running(to) \ {t}
      BY <1>3, <2>2, TargetsType DEF Running
    <3>2. /\ Cardinality(Running(to) \ {t}) = Cardinality(Running(to)) - 1
          /\ Cardinality(Running(to) \ {t}) \in Nat
      BY <1>4, FS_RemoveElement, FS_CardinalityType
    <3>3. live_connections'[to] = live_connections[to] - 1 /\ live_connections' = [live_connections EXCEPT ![to] = @ - 1]
      BY <1>1, <2>2
    <3>4. live_connections' \in [Receivers -> Nat]
      BY <1>1, <1>4, <3>2, <3>3
    <3> QED  BY <1>4, <3>1, <3>2, <3>3, <3>4
  <2> QED  BY <2>1, <2>2
<1>6. ASSUME NEW r \in Receivers
      PROVE  LiveInv(r)'
  <2>1. CASE r = to
    BY <1>4, <1>5, <2>1 DEF LiveInv
  <2>2. CASE r # to
    <3>1. loop'[r] = loop[r] /\ live_connections'[r] = live_connections[r]
      BY <1>1, <1>2, <2>2
    <3> QED  BY <1>1, <3>1, LiveFrame
  <2> QED  BY <2>1, <2>2
<1> QED  BY <1>5, <1>6 DEF LiveCounted

LEMMA StartReadersCounted ==
    ASSUME TypeInv, NEW to \in Receivers, StartReaders(to)
    PROVE  LiveCounted'
<1> DEFINE new == [s \in Tasks |-> IF s \in Sources(to) THEN "call" ELSE "none"]
<1>1. TypeOK /\ \A r \in Receivers : LiveInv(r)
  BY DEF TypeInv
<1>2. /\ UNCHANGED <<meet_error, result_buffer, got, result>>
      /\ inited' = [inited EXCEPT ![to] = TRUE] /\ loop' = [loop EXCEPT ![to] = new]
      /\ live_connections' = [live_connections EXCEPT ![to] = Cardinality(Sources(to))]
  BY DEF StartReaders
<1>3. new \in [Tasks -> LoopState] /\ \A s \in Sources(to) : new[s] = "call"
  BY TargetsType DEF LoopState
<1> HIDE DEF new
<1>4. Cardinality(Sources(to)) \in Nat
  BY PlanAssumption, FS_Subset, FS_CardinalityType DEF Sources
<1>5. live_connections' \in [Receivers -> Nat]
  BY <1>1, <1>2, <1>4 DEF TypeOK, ReceiversTypeOK
<1>6. /\ inited'[to] /\ loop'[to] = new /\ live_connections'[to] = Cardinality(Sources(to))
      /\ \A r \in Receivers \ {to} : /\ inited'[r] = inited[r] /\ loop'[r] = loop[r]
                                    /\ live_connections'[r] = live_connections[r]
  BY <1>1, <1>2 DEF TypeOK, ReceiversTypeOK
<1>7. ASSUME NEW r \in Receivers
      PROVE  LiveInv(r)'
  <2>1. CASE r = to
    <3>1. Running(to)' = Sources(to)
      BY <1>3, <1>6 DEF Running
    <3> QED  BY <1>6, <2>1, <3>1 DEF LiveInv
  <2>2. CASE r # to
    BY <1>1, <1>6, <2>2, LiveFrame
  <2> QED  BY <2>1, <2>2
<1> QED  BY <1>5, <1>7 DEF LiveCounted

LEMMA ReaderCounted ==
    ASSUME TypeInv, NEW t \in Tasks, NEW to \in Range(Targets[t]), ReadLoop(to, t)
    PROVE  LiveCounted'
<1>1. to \in Receivers /\ t \in Sources(to)
  BY TargetsType DEF Sources
<1>2. CASE UNCHANGED <<inited, loop, live_connections>>
  <2>1. \A r \in Receivers : LiveInv(r)'
    BY <1>2, LiveFrame DEF TypeInv
  <2> QED  BY <1>2, <2>1 DEF TypeInv, TypeOK, ReceiversTypeOK, LiveCounted
<1>3. CASE ~UNCHANGED <<inited, loop, live_connections>>
  <2>1. PICK l \in LoopState : /\ l # "none" /\ Goto(to, t, l) /\ loop[to][t] \notin {"none", "ended"}
                               /\ \/ l # "ended" /\ live_connections' = live_connections
                                  \/ l = "ended" /\ live_connections' = [live_connections EXCEPT ![to] = @ - 1]
    <3>1. CASE CallSource(to, t)
      BY <3>1 DEF CallSource, LoopState
    <3>2. CASE ReadPacket(to, t)
      BY <1>3, <3>2 DEF ReadPacket, LoopState
    <3>3. CASE ReadFails(to, t)
      BY <3>3 DEF ReadFails, LoopState
    <3>4. CASE EndLoop(to, t)
      BY <3>4 DEF EndLoop, LoopState
    <3> QED  BY <3>1, <3>2, <3>3, <3>4 DEF ReadLoop
  <2>2. inited' = inited
    BY DEF ReadLoop, CallSource, ReadPacket, ReadFails, EndLoop
  <2> QED  BY <1>1, <2>1, <2>2, GotoCounted
<1> QED  BY <1>2, <1>3

LEMMA ReceiverCounted ==
    ASSUME TypeInv, NEW to \in Receivers, ReceiverThread(to)
    PROVE  LiveCounted'
<1>1. CASE InitReceiver(to)
  BY <1>1, StartReadersCounted DEF InitReceiver
<1>2. CASE ~InitReceiver(to)
  <2>1. UNCHANGED <<inited, loop, live_connections>>
    BY <1>2 DEF ReceiverThread, ReadRemote, RemoteEnds, RemoteFails, NextPacket, NextEof, NextError
  <2>2. \A r \in Receivers : LiveInv(r)'
    BY <2>1, LiveFrame DEF TypeInv
  <2> QED  BY <2>1, <2>2 DEF TypeInv, TypeOK, ReceiversTypeOK, LiveCounted
<1> QED  BY <1>1, <1>2

LEMMA NextOnceInv == OnceInv /\ [Next]_vars => OnceInv'
<1> SUFFICES ASSUME OnceInv, [Next]_vars PROVE OnceInv'
  OBVIOUS
<1>1. ASSUME NEW t \in Tasks, Dispatch(t) \/ TaskThread(t)
      PROVE  OnceInv'
  BY <1>1, TaskOnce
<1>2. ASSUME NEW t \in Tasks, PoolThread(t)
      PROVE  OnceInv'
  BY <1>2, PoolOnce
<1>3. ASSUME NEW r \in Receivers, ReceiverThread(r)
      PROVE  OnceInv'
  <2>1. LiveCounted'
    BY <1>3, ReceiverCounted DEF OnceInv
  <2> QED  BY <1>3, <2>1, ReceiverOnce
<1>4. ASSUME NEW t \in Tasks, NEW r \in Range(Targets[t]), HandlerThread(t, r)
      PROVE  OnceInv'
  BY <1>4, HandlerOnce
<1>5. ASSUME NEW t \in Tasks, NEW r \in Range(Targets[t]), ReaderThread(r, t)
      PROVE  OnceInv'
  <2>1. LiveCounted'
    BY <1>5, ReaderCounted DEF OnceInv, ReaderThread
  <2> QED  BY <1>5, <2>1, ReaderOnce
<1>7. ASSUME NEW t \in Tasks, NEW r \in Range(Targets[t]), StreamBreaks(t, r)
      PROVE  OnceInv'
  BY <1>7, BreakOnce
<1>6. CASE UNCHANGED vars
  <2>1. UNCHANGED <<up, call, packets, closed, broken>>
    BY <1>6 DEF vars, streamVars
  <2>2. UNCHANGED <<taskMap, phase, at, registered, connected, finished, batches, jobs, poolError>>
    BY <1>6 DEF vars, taskVars, tunnelVars
  <2>3. UNCHANGED <<inited, loop, live_connections, meet_error, result_buffer, got, result>>
    BY <1>6 DEF vars, receiverVars
  <2>4. TypeOK'
    BY <2>1, <2>2, <2>3 DEF OnceInv, TypeInv, TypeOK, StreamsTypeOK, TasksTypeOK, ReceiversTypeOK
  <2>5. \A r \in Receivers : LiveInv(r)'
    BY <2>3, LiveFrame DEF OnceInv, TypeInv
  <2>6. TypeInv'
    BY <2>4, <2>5 DEF TypeInv
  <2> QED  BY <2>1, <2>2, <2>3, <2>6, QuietOnce
<1> QED  BY <1>1, <1>2, <1>3, <1>4, <1>5, <1>6, <1>7 DEF Next

-----------------------------------------------------------------------------
\* Whatever the interleaving of the threads of tasks, pools, handlers and
\* readers, and with a timeout or without: a batch of a task is in one place of
\* its way to a receiver at most (a job, the stream of EstablishMPPConnection,
\* result_buffer, or what nextResult has returned), and once there.
THEOREM OnceInvHolds == Spec => []OnceInv
  BY InitOnceInv, NextOnceInv, PTL DEF Spec

\* The maps, tunnels, streams, jobs and buffers of an MPP query keep their
\* types; above all live_connections of an exchange receiver, which every read
\* thread counts down when it ends, never goes below zero.
THEOREM TypeOKHolds == Spec => []TypeOK
<1>1. OnceInv => TypeOK
  BY DEF OnceInv, TypeInv
<1> QED  BY <1>1, OnceInvHolds, PTL

-----------------------------------------------------------------------------
(***************************************************************************)
(* The outcome of a task.                                                  *)
(***************************************************************************)
FailedPhase == ErrorPhase \cup {"rejected"}
Outcomes == [t \in Tasks |-> Outcome(t)]

LEMMA OutcomeOf ==
    ASSUME NEW t
    PROVE  /\ phase[t] \in OkPhase => Outcome(t) = "ok"
           /\ phase[t] \in FailedPhase => Outcome(t) = "failed"
           /\ phase[t] \notin OkPhase \cup FailedPhase => Outcome(t) = "active"
  BY DEF Outcome, OkPhase, FailedPhase, ErrorPhase

LEMMA NextOutcomeOf ==
    ASSUME NEW t
    PROVE  /\ phase'[t] \in OkPhase => Outcome(t)' = "ok"
           /\ phase'[t] \in FailedPhase => Outcome(t)' = "failed"
           /\ phase'[t] \notin OkPhase \cup FailedPhase => Outcome(t)' = "active"
  BY DEF Outcome, OkPhase, FailedPhase, ErrorPhase

\* One task goes on to another phase.
LEMMA OutcomeStep ==
    ASSUME TypeOK, NEW t \in Tasks, NEW p, phase' = [phase EXCEPT ![t] = p]
    PROVE  /\ p \in OkPhase => Outcomes' = [Outcomes EXCEPT ![t] = "ok"]
           /\ p \in FailedPhase => Outcomes' = [Outcomes EXCEPT ![t] = "failed"]
           /\ p \notin OkPhase \cup FailedPhase => Outcomes' = [Outcomes EXCEPT ![t] = "active"]
           /\ phase[t] \in OkPhase => Outcomes[t] = "ok"
           /\ phase[t] \in FailedPhase => Outcomes[t] = "failed"
           /\ phase[t] \notin OkPhase \cup FailedPhase => Outcomes[t] = "active"
<1>1. phase'[t] = p /\ \A s \in Tasks : s # t => phase'[s] = phase[s]
  BY DEF TypeOK, TasksTypeOK
<1>3. ASSUME NEW s \in Tasks, s # t
      PROVE  Outcome(s)' = Outcome(s)
  BY <1>1, <1>3, OutcomeOf, NextOutcomeOf
<1>4. /\ p \in OkPhase => Outcome(t)' = "ok"
      /\ p \in FailedPhase => Outcome(t)' = "failed"
      /\ p \notin OkPhase \cup FailedPhase => Outcome(t)' = "active"
  BY <1>1, NextOutcomeOf
<1>5. ASSUME NEW o, Outcome(t)' = o
      PROVE  Outcomes' = [Outcomes EXCEPT ![t] = o]
  BY <1>3, <1>5 DEF Outcomes
<1>6. /\ phase[t] \in OkPhase => Outcomes[t] = "ok"
      /\ phase[t] \in FailedPhase => Outcomes[t] = "failed"
      /\ phase[t] \notin OkPhase \cup FailedPhase => Outcomes[t] = "active"
  BY OutcomeOf DEF Outcomes
<1> QED  BY <1>4, <1>5, <1>6

LEMMA OutcomeSame ==
    ASSUME NEW t \in Tasks, NEW o, Outcomes[t] = o, Outcomes' = [Outcomes EXCEPT ![t] = o]
    PROVE  Outcomes' = Outcomes
<1>1. Outcomes = [s \in Tasks |-> Outcome(s)]
  BY DEF Outcomes
<1> QED  BY <1>1

LEMMA OutcomesKept ==
    ASSUME phase' = phase
    PROVE  Outcomes' = Outcomes
<1>1. \A t \in Tasks : Outcome(t)' = Outcome(t)
  BY DEF Outcome
<1> QED  BY <1>1 DEF Outcomes

\* The pairs that have lost each other.
Losts == {p \in Tasks \X Receivers : Lost(p[1], p[2])}

LEMMA LostsGrow ==
    ASSUME LostGrows
    PROVE  Losts' \in SUBSET (Tasks \X Receivers) /\ Losts \subseteq Losts'
  BY SMTT(60) DEF Losts, LostGrows

LEMMA LostsKept ==
    ASSUME UNCHANGED <<up, broken>>
    PROVE  Losts' = Losts
  BY DEF Losts, Lost, Up

LEMMA BreakGrows ==
    ASSUME TypeOK, NEW t \in Tasks, NEW r \in Receivers, up' = up,
           broken' = broken \/ broken' = [broken EXCEPT ![t][r] = TRUE]
    PROVE  LostGrows
<1>1. broken \in [Tasks -> [Receivers -> BOOLEAN]] /\ TRUE \in BOOLEAN
  BY DEF TypeOK, StreamsTypeOK
<1>2. CASE broken' = broken
  BY <1>2, LostKept
<1>3. CASE broken' = [broken EXCEPT ![t][r] = TRUE]
  <2>1. /\ broken'[t][r] = TRUE
        /\ \A x \in Tasks, y \in Receivers : (x # t \/ y # r) => broken'[x][y] = broken[x][y]
    BY <1>1, <1>3, SetPair
  <2> QED  BY <2>1 DEF LostGrows, Lost, Up
<1> QED  BY <1>2, <1>3

-----------------------------------------------------------------------------
(***************************************************************************)
(* The steps of the abstract exchange.                                     *)
(***************************************************************************)
LEMMA SameRange == \A q : Promise!Range(q) = Range(q)
  BY DEF Promise!Range, Range

LEMMA AbstractStutter ==
    ASSUME UNCHANGED <<batches, got, result>>, Outcomes' = Outcomes, Losts' = Losts
    PROVE  UNCHANGED Promise!vars
  BY DEF Promise!vars, Outcomes, Losts

LEMMA AbstractProduce ==
    ASSUME NEW t \in Tasks, Outcomes[t] = "active", batches' = [batches EXCEPT ![t] = @ + 1],
           Outcomes' = Outcomes, Losts' = Losts, UNCHANGED <<got, result>>
    PROVE  Promise!Next
<1>1. Promise!Produce(t)
  BY DEF Promise!Produce, Outcomes, Losts
<1> QED  BY <1>1 DEF Promise!Next

LEMMA AbstractFinish ==
    ASSUME NEW t \in Tasks, Outcomes[t] = "active", NEW o \in {"ok", "failed"}, Outcomes' = [Outcomes EXCEPT ![t] = o],
           Losts' = Losts, UNCHANGED <<batches, got, result>>
    PROVE  Promise!Next
<1>1. \E x \in {"ok", "failed"} : Outcomes' = [Outcomes EXCEPT ![t] = x]
  BY ZenonT(60)
<1>2. Outcomes' \in {[Outcomes EXCEPT ![t] = x] : x \in {"ok", "failed"}}
  BY <1>1
<1>3. Promise!Finish(t)
  BY <1>2 DEF Promise!Finish, Outcomes, Losts
<1> QED  BY <1>3 DEF Promise!Next

LEMMA AbstractLose ==
    ASSUME Losts' \in SUBSET (Tasks \X Receivers), Losts \subseteq Losts',
           Outcomes' = Outcomes, UNCHANGED <<batches, got, result>>
    PROVE  Promise!Next
<1>1. Promise!Lose
  BY DEF Promise!Lose, Outcomes, Losts
<1> QED  BY <1>1 DEF Promise!Next

LEMMA AbstractDeliver ==
    ASSUME NEW r \in Receivers, NEW s \in Tasks, NEW b \in 1 .. batches[s], result[r] = "none", s \in Sources(r),
           batches[s] \in Nat, <<s, b>> \notin Range(got[r]), got' = [got EXCEPT ![r] = Append(@, <<s, b>>)],
           batches' = IF r \in Tasks THEN [batches EXCEPT ![r] = @ + 1] ELSE batches,
           Outcomes' = Outcomes, Losts' = Losts, result' = result
    PROVE  Promise!Next
<1>1. s \in [q \in Receivers |-> Sources(q)][r] /\ b <= batches[s]
  BY SMTT(60)
<1>2. Promise!Deliver(r, s, b)
  BY <1>1, SameRange DEF Promise!Deliver, Outcomes, Losts
<1> QED  BY <1>2 DEF Promise!Next

LEMMA AbstractEnd ==
    ASSUME NEW r \in Receivers, result[r] = "none", result' = [result EXCEPT ![r] = "eof"],
           \A s \in Sources(r) : \/ Outcomes[s] = "ok" /\ \A b \in 1 .. batches[s] : <<s, b>> \in Range(got[r])
                                 \/ <<s, r>> \in Losts,
           Outcomes' = Outcomes, Losts' = Losts, UNCHANGED <<batches, got>>
    PROVE  Promise!Next
<1>1. [q \in Receivers |-> Sources(q)][r] = Sources(r)
  OBVIOUS
<1>2. \A s \in Sources(r) : Promise!Complete(r, s) \/ <<s, r>> \in Losts
  BY SameRange DEF Promise!Complete, Outcomes
<1>3. Promise!End(r)
  BY <1>1, <1>2 DEF Promise!End, Outcomes, Losts
<1> QED  BY <1>3 DEF Promise!Next

LEMMA AbstractFail ==
    ASSUME NEW r \in Receivers, result[r] = "none", result' = [result EXCEPT ![r] = "error"],
           Outcomes' = IF r \in Tasks THEN [Outcomes EXCEPT ![r] = "failed"] ELSE Outcomes,
           Losts' = Losts, UNCHANGED <<batches, got>>
    PROVE  Promise!Next
<1>1. Promise!Fail(r)
  BY DEF Promise!Fail, Outcomes, Losts
<1> QED  BY <1>1 DEF Promise!Next

-----------------------------------------------------------------------------
(***************************************************************************)
(* The steps of the query.                                                 *)
(***************************************************************************)
\* The thread of a task: reading storage produces a batch, the last phase of
\* the work is the outcome, and an uncaught exception loses the process.
LEMMA TaskImplements ==
    ASSUME TypeOK, NEW t \in Tasks, Dispatch(t) \/ TaskThread(t)
    PROVE  Promise!Next \/ UNCHANGED Promise!vars
<1>1. UNCHANGED <<got, result>>
  BY DEF Dispatch, TaskThread, ReadStorage, StorageEnds, ReadThrows, receiverVars
<1>2. CASE ReadStorage(t)
  <2>1. /\ phase[t] = "read" /\ batches' = [batches EXCEPT ![t] = @ + 1] /\ UNCHANGED <<up, broken, phase>>
    BY <1>2 DEF ReadStorage, Schedule, MaySchedule, streamVars
  <2>2. phase[t] \notin OkPhase \cup FailedPhase
    BY <2>1 DEF OkPhase, FailedPhase, ErrorPhase
  <2>3. Outcomes[t] = "active" /\ Outcomes' = Outcomes
    BY <1>1, <2>1, <2>2, OutcomeOf, OutcomesKept DEF Outcomes
  <2>4. batches' = [batches EXCEPT ![t] = @ + 1] /\ UNCHANGED <<got, result>>
    BY <1>1, <2>1
  <2>5. Outcomes[t] = "active"
    BY <2>3
  <2>6. Outcomes' = Outcomes /\ Losts' = Losts
    BY <2>1, <2>3, LostsKept
  <2> QED  BY <2>4, <2>5, <2>6, AbstractProduce
<1>3. CASE Fatal(t)
  <2>1. Terminate(NodeOf[t]) /\ UNCHANGED <<phase, batches>>
    BY <1>3 DEF Fatal, taskVars
  <2>2. up' = up \ {NodeOf[t]} /\ broken' = broken
    BY <2>1 DEF Terminate
  <2>3. LostGrows
    BY <2>2 DEF LostGrows, Lost, Up
  <2> QED  BY <1>1, <2>1, <2>3, OutcomesKept, LostsGrow, AbstractLose
<1>4. CASE ~ReadStorage(t) /\ ~Fatal(t)
  <2>1. /\ UNCHANGED <<up, broken, batches>>
        /\ \/ UNCHANGED phase
           \/ phase[t] \in {"none", "prepare", "read", "suffix"} /\ \E p \in Phase : phase' = [phase EXCEPT ![t] = p]
           \/ phase[t] = "finish" /\ phase' = [phase EXCEPT ![t] = "unregister"]
           \/ phase[t] = "unregister" /\ phase' = [phase EXCEPT ![t] = "done"]
           \/ phase[t] = "error" /\ phase' = [phase EXCEPT ![t] = "abandon"]
           \/ phase[t] = "abandon" /\ phase' = [phase EXCEPT ![t] = "failed"]
    <3>1. CASE Dispatch(t)
      BY <3>1 DEF Dispatch, RegisterTask, Enter, streamVars, Phase
    <3>2. CASE RegisterTunnel(t) \/ Run(t) \/ Reject(t)
      BY <3>2 DEF RegisterTunnel, Run, Reject, Enter, streamVars, Phase
    <3>3. CASE StorageEnds(t) \/ ReadThrows(t) \/ WriteSuffix(t)
      BY <3>3 DEF StorageEnds, ReadThrows, EndRead, WriteSuffix, Enter, streamVars, Phase
    <3>4. CASE FinishWrite(t)
      BY <3>4 DEF FinishWrite, NextTunnel, Enter, streamVars
    <3>5. CASE WriteErrToTunnel(t)
      BY <3>5 DEF WriteErrToTunnel, Write, NextTunnel, Enter
    <3>6. CASE UnregisterTask(t)
      <4>1. /\ phase[t] \in {"unregister", "abandon"} /\ UNCHANGED <<up, broken, batches>>
            /\ phase' = [phase EXCEPT ![t] = IF phase[t] = "unregister" THEN "done" ELSE "failed"]
        BY <3>6 DEF UnregisterTask, Enter, streamVars
      <4>2. CASE phase[t] = "unregister"
        BY <4>1, <4>2
      <4>3. CASE phase[t] = "abandon"
        <5>1. phase[t] # "unregister"
          BY <4>3
        <5> QED  BY <4>1, <4>3, <5>1
      <4>4. phase[t] = "unregister" \/ phase[t] = "abandon"
        BY <4>1
      <4> QED  BY <4>2, <4>3, <4>4
    <3> QED  BY <1>4, <3>1, <3>2, <3>3, <3>4, <3>5, <3>6 DEF TaskThread
  <2>6. Losts' = Losts
    BY <2>1, LostsKept
  <2>2. CASE UNCHANGED phase
    BY <1>1, <2>1, <2>2, <2>6, OutcomesKept, AbstractStutter
  <2>3. CASE phase[t] \in {"none", "prepare", "read", "suffix"} /\ \E p \in Phase : phase' = [phase EXCEPT ![t] = p]
    <3>1. PICK p \in Phase : phase' = [phase EXCEPT ![t] = p]
      BY <2>3
    <3>2. phase[t] \notin OkPhase \cup FailedPhase
      BY <2>3 DEF OkPhase, FailedPhase, ErrorPhase
    <3>4. /\ Outcomes[t] = "active"
          /\ p \in OkPhase => Outcomes' = [Outcomes EXCEPT ![t] = "ok"]
          /\ p \in FailedPhase => Outcomes' = [Outcomes EXCEPT ![t] = "failed"]
          /\ p \notin OkPhase \cup FailedPhase => Outcomes' = [Outcomes EXCEPT ![t] = "active"]
      BY <3>1, <3>2, OutcomeStep
    <3>5. CASE p \notin OkPhase \cup FailedPhase
      <4>1. Outcomes' = [Outcomes EXCEPT ![t] = "active"] /\ Outcomes[t] = "active"
        BY <3>4, <3>5
      <4>2. Outcomes' = Outcomes
        BY <4>1, OutcomeSame
      <4> QED  BY <1>1, <2>1, <2>6, <4>2, AbstractStutter
    <3>6. CASE p \in OkPhase \cup FailedPhase
      <4>1. PICK o \in {"ok", "failed"} : Outcomes' = [Outcomes EXCEPT ![t] = o]
        BY <3>4, <3>6
      <4>2. UNCHANGED <<batches, got, result>> /\ Outcomes[t] = "active" /\ Losts' = Losts
        BY <1>1, <2>1, <2>6, <3>4
      <4> QED  BY <4>1, <4>2, AbstractFinish
    <3> QED  BY <3>5, <3>6
  <2>4. CASE \/ phase[t] = "finish" /\ phase' = [phase EXCEPT ![t] = "unregister"]
             \/ phase[t] = "unregister" /\ phase' = [phase EXCEPT ![t] = "done"]
    <3>1. PICK p \in OkPhase : phase' = [phase EXCEPT ![t] = p]
      BY <2>4 DEF OkPhase
    <3>2. phase[t] \in OkPhase
      BY <2>4 DEF OkPhase
    <3>4. Outcomes[t] = "ok" /\ Outcomes' = [Outcomes EXCEPT ![t] = "ok"]
      BY <3>1, <3>2, OutcomeStep
    <3>5. Outcomes' = Outcomes
      BY <3>4, OutcomeSame
    <3> QED  BY <1>1, <2>1, <2>6, <3>5, AbstractStutter
  <2>5. CASE \/ phase[t] = "error" /\ phase' = [phase EXCEPT ![t] = "abandon"]
             \/ phase[t] = "abandon" /\ phase' = [phase EXCEPT ![t] = "failed"]
    <3>1. PICK p \in FailedPhase : phase' = [phase EXCEPT ![t] = p]
      BY <2>5 DEF FailedPhase, ErrorPhase
    <3>2. phase[t] \in FailedPhase
      BY <2>5 DEF FailedPhase, ErrorPhase
    <3>4. Outcomes[t] = "failed" /\ Outcomes' = [Outcomes EXCEPT ![t] = "failed"]
      BY <3>1, <3>2, OutcomeStep
    <3>5. Outcomes' = Outcomes
      BY <3>4, OutcomeSame
    <3> QED  BY <1>1, <2>1, <2>6, <3>5, AbstractStutter
  <2> QED  BY <2>1, <2>2, <2>3, <2>4, <2>5
<1> QED  BY <1>2, <1>3, <1>4

\* The thread that reads a receiver: nextResult delivers a batch, tells of the
\* end or reports an error.
LEMMA ReceiverImplements ==
    ASSUME EofInv, OnceInv, NEW r \in Receivers, ReceiverThread(r)
    PROVE  Promise!Next \/ UNCHANGED Promise!vars
<1>1. TypeOK
  BY EofInvParts
<1>6. Losts' = Losts
  <2>1. UNCHANGED <<up, broken>>
    BY DEF ReceiverThread, InitReceiver, StartReaders, ReadRemote, NextPacket, RemoteEnds, NextEof, RemoteFails,
           NextError, streamVars
  <2> QED  BY <2>1, LostsKept
<1>2. CASE InitReceiver(r)
  <2>1. UNCHANGED <<up, phase, batches, got, result>>
    BY <1>2 DEF InitReceiver, StartReaders, taskVars, streamVars
  <2> QED  BY <1>6, <2>1, OutcomesKept, AbstractStutter
<1>3. CASE ReadRemote(r)
  <2> DEFINE q == result_buffer[r]
  <2>1. /\ NextPacket(r) /\ result[r] = "none" /\ result' = result /\ up' = up /\ phase' = phase
        /\ batches' = IF r \in Tasks THEN [batches EXCEPT ![r] = @ + 1] ELSE batches
    BY <1>3 DEF ReadRemote, NextPacket, Asked, Schedule, taskVars, streamVars
  <2>2. /\ q \in Seq(Tasks \X Packet) /\ q # <<>> /\ got' = [got EXCEPT ![r] = Append(@, Head(q))]
        /\ batches \in [Tasks -> Nat]
    BY <1>1, <2>1 DEF NextPacket, TypeOK, TasksTypeOK, ReceiversTypeOK
  <2>3. Head(q) \in Tasks \X Packet /\ Head(q) \in Range(q)
    <3>1. Range(q) = Range(Tail(q)) \cup {Head(q)} /\ Head(q) \in Tasks \X Packet
      BY <2>2, RangeTail
    <3> QED  BY <3>1
  <2>4. PICK s \in Tasks, b \in Packet : Head(q) = <<s, b>>
    BY <2>3, SMTT(60)
  <2>5. s \in Sources(r) /\ b \in 1 .. batches[s] /\ <<s, b>> \notin Range(got[r])
    <3>1. TakenInv(r) /\ <<s, b>> \in Range(q)
      BY <2>3, <2>4 DEF OnceInv
    <3>2. <<s, b>>[1] = s /\ <<s, b>>[2] = b /\ <<s, b>> \in Taken(r)
      BY <3>1 DEF Taken
    <3>3. <<s, b>>[1] \in Sources(r) /\ <<s, b>>[2] \in 1 .. batches[<<s, b>>[1]]
      BY <3>1, <3>2 DEF TakenInv
    <3>4. <<s, b>> \notin Range(got[r])
      BY <3>1 DEF TakenInv
    <3> QED  BY <3>2, <3>3, <3>4
  <2>6. got' = [got EXCEPT ![r] = Append(@, <<s, b>>)]
    <3>1. got' = [got EXCEPT ![r] = Append(@, Head(q))]
      BY <2>2
    <3> QED  BY <2>4, <3>1
  <2>7. Outcomes' = Outcomes
    BY <2>1, OutcomesKept
  <2>8. batches[s] \in Nat
    BY <2>2
  <2>9. batches' = IF r \in Tasks THEN [batches EXCEPT ![r] = @ + 1] ELSE batches
    BY <2>1
  <2>10. result[r] = "none" /\ result' = result
    BY <2>1
  <2> QED  BY <1>6, <2>5, <2>6, <2>7, <2>8, <2>9, <2>10, AbstractDeliver
<1>4. CASE RemoteEnds(r)
  <2>1. /\ NextEof(r) /\ result[r] = "none" /\ result' = [result EXCEPT ![r] = "eof"]
        /\ UNCHANGED <<up, batches, got>>
    BY <1>4 DEF RemoteEnds, NextEof, Asked, EndRead, taskVars, streamVars
  <2>2. Outcomes' = Outcomes
    <3>1. CASE r \in Tasks
      <4>1. phase[r] = "read" /\ phase' = [phase EXCEPT ![r] = "suffix"] /\ up' = up
        BY <1>4, <2>1, <3>1 DEF RemoteEnds, EndRead, Enter
      <4>2. phase[r] \notin OkPhase \cup FailedPhase /\ "suffix" \notin OkPhase \cup FailedPhase
        BY <4>1 DEF OkPhase, FailedPhase, ErrorPhase
      <4>3. Outcomes[r] = "active" /\ Outcomes' = [Outcomes EXCEPT ![r] = "active"]
        <5>1. phase' = [phase EXCEPT ![r] = "suffix"] /\ up' = up
          BY <4>1
        <5> QED  BY <1>1, <3>1, <4>2, <5>1, OutcomeStep
      <4> QED  BY <3>1, <4>3, OutcomeSame
    <3>2. CASE r \notin Tasks
      BY <1>4, <2>1, <3>2, OutcomesKept DEF RemoteEnds, taskVars
    <3> QED  BY <3>1, <3>2
  <2>3. ASSUME NEW s \in Sources(r)
        PROVE  \/ Outcomes[s] = "ok" /\ \A b \in 1 .. batches[s] : <<s, b>> \in Range(got[r])
               \/ <<s, r>> \in Losts
    <3>1. s \in Tasks
      BY DEF Sources
    <3>2. CASE ~Lost(s, r)
      <4>1. phase[s] \in OkPhase /\ \A b \in 1 .. batches[s] : <<s, b>> \in Range(got[r])
        BY <2>1, <3>2, EofIsComplete
      <4>2. Outcomes[s] = "ok"
        BY <3>1, <3>2, <4>1, OutcomeOf DEF Outcomes
      <4> QED  BY <4>1, <4>2
    <3>3. CASE Lost(s, r)
      BY <3>1, <3>3 DEF Losts
    <3> QED  BY <3>2, <3>3
  <2>4. result[r] = "none" /\ result' = [result EXCEPT ![r] = "eof"] /\ UNCHANGED <<batches, got>>
    BY <2>1
  <2> QED  BY <1>6, <2>2, <2>3, <2>4, AbstractEnd
<1>5. CASE RemoteFails(r)
  <2>1. /\ result[r] = "none" /\ result' = [result EXCEPT ![r] = "error"]
        /\ UNCHANGED <<up, batches, got>>
    BY <1>5 DEF RemoteFails, NextError, Asked, EndRead, taskVars, streamVars
  <2>2. Outcomes' = IF r \in Tasks THEN [Outcomes EXCEPT ![r] = "failed"] ELSE Outcomes
    <3>1. CASE r \in Tasks
      <4>1. phase' = [phase EXCEPT ![r] = "error"] /\ up' = up
        BY <1>5, <2>1, <3>1 DEF RemoteFails, EndRead, Enter
      <4>2. "error" \in FailedPhase
        BY DEF FailedPhase, ErrorPhase
      <4>3. Outcomes' = [Outcomes EXCEPT ![r] = "failed"]
        BY <1>1, <3>1, <4>1, <4>2, OutcomeStep
      <4> QED  BY <3>1, <4>3
    <3>2. CASE r \notin Tasks
      <4>1. UNCHANGED <<up, phase>>
        BY <1>5, <2>1, <3>2 DEF RemoteFails, taskVars
      <4> QED  BY <3>2, <4>1, OutcomesKept
    <3> QED  BY <3>1, <3>2
  <2>3. result[r] = "none" /\ result' = [result EXCEPT ![r] = "error"] /\ UNCHANGED <<batches, got>>
    BY <2>1
  <2> QED  BY <1>6, <2>2, <2>3, AbstractFail
<1> QED  BY <1>2, <1>3, <1>4, <1>5 DEF ReceiverThread

\* Everything else is hidden from the exchange, but for a stream that breaks.
LEMMA HiddenImplements ==
    ASSUME TypeOK,
           \/ \E t \in Tasks : PoolThread(t)
           \/ \E t \in Tasks : \E r \in Range(Targets[t]) :
                 HandlerThread(t, r) \/ ReaderThread(r, t) \/ StreamBreaks(t, r)
    PROVE  Promise!Next
<1>1. ASSUME NEW t \in Tasks, PoolThread(t)
      PROVE  UNCHANGED <<phase, batches, got, result>> /\ LostGrows
  <2>1. UNCHANGED <<up, broken, phase, batches, got, result>>
    BY <1>1 DEF PoolThread, TakeJob, JobWrite, JobTimeout, Write, streamVars, receiverVars
  <2> QED  BY <2>1, LostKept
<1>2. ASSUME NEW t \in Tasks, NEW r \in Range(Targets[t]), HandlerThread(t, r)
      PROVE  UNCHANGED <<phase, batches, got, result>> /\ LostGrows
  <2>1. /\ UNCHANGED <<up, phase, batches, got, result>>
        /\ broken' = broken \/ broken' = [broken EXCEPT ![t][r] = TRUE]
    BY <1>2 DEF HandlerThread, Handler, Refuse, Break, FindTask, FindTaskTimeout, FindTunnel, FindTunnelTimeout, Connect,
                WaitForFinish, AnswerError, taskVars, receiverVars
  <2> QED  BY <2>1, BreakGrows, TargetsType
<1>3. ASSUME NEW t \in Tasks, NEW r \in Range(Targets[t]), ReaderThread(r, t)
      PROVE  UNCHANGED <<phase, batches, got, result>> /\ LostGrows
  <2>1. /\ UNCHANGED <<up, phase, batches, got, result>>
        /\ broken' = broken \/ broken' = [broken EXCEPT ![t][r] = TRUE]
    BY <1>3 DEF ReaderThread, ReadLoop, CallSource, Break, ReadPacket, ReadFails, EndLoop, taskVars, streamVars
  <2> QED  BY <2>1, BreakGrows, TargetsType
<1>4. ASSUME NEW t \in Tasks, NEW r \in Range(Targets[t]), StreamBreaks(t, r)
      PROVE  UNCHANGED <<phase, batches, got, result>> /\ LostGrows
  <2>1. /\ UNCHANGED <<up, phase, batches, got, result>>
        /\ broken' = [broken EXCEPT ![t][r] = TRUE]
    BY <1>4 DEF StreamBreaks, BreakStream, Break, taskVars, receiverVars
  <2> QED  BY <2>1, BreakGrows, TargetsType
<1>5. UNCHANGED <<phase, batches, got, result>> /\ LostGrows
  BY <1>1, <1>2, <1>3, <1>4
<1> QED  BY <1>5, OutcomesKept, LostsGrow, AbstractLose

LEMMA StutterImplements ==
    ASSUME UNCHANGED vars
    PROVE  UNCHANGED Promise!vars
<1>1. UNCHANGED <<up, broken, phase, batches, got, result>>
  BY DEF vars, streamVars, taskVars, receiverVars
<1> QED  BY <1>1, OutcomesKept, LostsKept, AbstractStutter

LEMMA InitImplements == Init => Promise!Init
<1> SUFFICES ASSUME Init PROVE Promise!Init
  OBVIOUS
<1>1. \A t \in Tasks : phase[t] = "none"
  BY DEF Init, InitTasks
<1>4. {p \in Tasks \X Receivers : Lost(p[1], p[2])} = {}
  BY PlanAssumption DEF Init, InitStreams, Lost, Up
<1>2. "none" \notin OkPhase \cup FailedPhase
  BY DEF OkPhase, FailedPhase, ErrorPhase
<1>3. \A t \in Tasks : Outcome(t) = "active"
  BY <1>1, <1>2, OutcomeOf
<1> QED  BY <1>3, <1>4 DEF Init, InitTasks, InitReceivers, Promise!Init

-----------------------------------------------------------------------------
\* Of any plan, with any number of batches, pool threads and broken streams, the
\* query gives every receiver what the exchange promises: nextResult returns no
\* batch twice, from any source, and returns the end only after every batch of
\* every source, all of which have succeeded. Exempt from the second part is a
\* source whose process is gone or whose stream was refused or broke: the read
\* loop takes that for the end, and its rows or its error may be missing. The
\* dispatch request has a timeout.
THEOREM ImplementsExchangeHolds == HasTimeout => (Spec => ImplementsExchange)
<1> SUFFICES ASSUME HasTimeout PROVE Spec => ImplementsExchange
  OBVIOUS
<1>1. EofInv /\ [Next]_vars => EofInv'
  BY NextEofInv
<1>2. EofInv /\ OnceInv /\ [Next]_vars => [Promise!Next]_(Promise!vars)
  <2> SUFFICES ASSUME EofInv, OnceInv, [Next]_vars
               PROVE  Promise!Next \/ UNCHANGED Promise!vars
    BY ZenonT(60)
  <2>1. TypeOK
    BY EofInvParts
  <2>2. ASSUME NEW t \in Tasks, Dispatch(t) \/ TaskThread(t)
        PROVE  Promise!Next \/ UNCHANGED Promise!vars
    BY <2>1, <2>2, TaskImplements
  <2>3. ASSUME NEW r \in Receivers, ReceiverThread(r)
        PROVE  Promise!Next \/ UNCHANGED Promise!vars
    BY <2>3, ReceiverImplements
  <2>4. ASSUME \/ \E t \in Tasks : PoolThread(t)
               \/ \E t \in Tasks : \E r \in Range(Targets[t]) :
                     HandlerThread(t, r) \/ ReaderThread(r, t) \/ StreamBreaks(t, r)
        PROVE  Promise!Next
    BY <2>1, <2>4, HiddenImplements
  <2>5. CASE UNCHANGED vars
    BY <2>5, StutterImplements
  <2> QED  BY <2>2, <2>3, <2>4, <2>5 DEF Next
<1> QED  BY <1>1, <1>2, InitEofInv, InitOnceInv, NextOnceInv, InitImplements, PTL
         DEF Spec, ImplementsExchange, Promise!Spec
=============================================================================
