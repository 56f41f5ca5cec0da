------------------------------ MODULE MPPTask ------------------------------
(***************************************************************************)
(* An MPP task: MPPHandler::execute registers the task and its tunnels and *)
(* starts the thread of runImpl, which reads batches and schedules for     *)
(* each a job that writes it to every tunnel. The handlers of              *)
(* EstablishMPPConnection look the task and the tunnel up, give the tunnel *)
(* their stream, and wait until it is finished.                            *)
(***************************************************************************)
EXTENDS MPPStreams

CONSTANTS
    HasTimeout,     \* the timeout of the dispatch request is not 0
    PoolSize,       \* final_concurrency, the threads of the response writer
    MaxBatches,     \* bound on the batches a task that reads storage produces
    TunnelMap,      \* the receivers of a task, in the order of its tunnel_map
    Failures        \* what may fail in a task: "read" (the input throws), "prepare" (executeQuery throws)

ASSUME TaskAssumption ==
    /\ HasTimeout \in BOOLEAN
    /\ PoolSize \in Nat \ {0}
    /\ MaxBatches \in Nat
    /\ Failures \subseteq {"read", "prepare"} \X Tasks
    /\ TunnelMap \in [Tasks -> Seq(Tasks \cup {Root})]
    /\ \A t \in Tasks :
          /\ Len(TunnelMap[t]) = Len(Targets[t])
          /\ IsInjective(TunnelMap[t])
          /\ Range(TunnelMap[t]) = Range(Targets[t])

VARIABLES
    taskMap,    \* MPPTaskManager::task_map
    phase,      \* phase[t]: where the thread of task t is
    at,         \* at[t]: the next tunnel of the loop that thread is in
    registered, \* registered[t][r]: the tunnel from t to r is in t's tunnel_map
    connected,  \* connected[t][r]: the tunnel has a stream
    finished,   \* finished[t][r]: the tunnel is finished
    batches,    \* batches[t]: how many batches t has read
    jobs,       \* jobs[t]: the jobs in the thread pool of t's response writer
    poolError   \* poolError[t]: a job has thrown; the pool is shut down

tunnelVars == <<registered, connected, finished>>
taskVars == <<taskMap, phase, at, tunnelVars, batches, jobs, poolError>>

\* "abandon" and "failed" are "unregister" and "done" after an error.
Phase == {"none", "prepare", "rejected", "read", "suffix", "finish", "unregister", "done",
          "error", "abandon", "failed"}
Tunnels == [Tasks -> [Receivers -> BOOLEAN]]
\* A job waits in the queue (tunnel 0), or writes its batch to its next tunnel.
Job == [batch : Nat, next : Nat]

TasksTypeOK ==
    /\ taskMap \subseteq Tasks
    /\ phase \in [Tasks -> Phase]
    /\ at \in [Tasks -> Nat]
    /\ registered \in Tunnels /\ connected \in Tunnels /\ finished \in Tunnels
    /\ batches \in [Tasks -> Nat]
    /\ jobs \in [Tasks -> SUBSET Job]
    /\ poolError \in [Tasks -> BOOLEAN]

InitTasks ==
    /\ taskMap = {}
    /\ phase = [t \in Tasks |-> "none"]
    /\ at = [t \in Tasks |-> 1]
    /\ registered = [t \in Tasks |-> [r \in Receivers |-> FALSE]]
    /\ connected = registered /\ finished = registered
    /\ batches = [t \in Tasks |-> 0]
    /\ jobs = [t \in Tasks |-> {}]
    /\ poolError = [t \in Tasks |-> FALSE]

-----------------------------------------------------------------------------
(***************************************************************************)
(* MPPTunnel.                                                              *)
(***************************************************************************)
MayWrite(t, r) == connected[t][r]

\* write(): with no timeout it waits for the connection and writes nothing.
\* The stream takes nothing either once its handler has returned or it is broken,
\* and what the stream says of that is ignored.
Write(t, r, p) ==
    /\ IF HasTimeout /\ call[t][r] # "returned" /\ ~broken[t][r] THEN Send(t, r, p) ELSE UNCHANGED packets
    /\ UNCHANGED <<up, call, closed, broken>>

WriteTimesOut(t, r) == HasTimeout /\ ~connected[t][r]

WriteDone(t, r) ==
    /\ finished' = [finished EXCEPT ![t][r] = TRUE]
    /\ UNCHANGED <<registered, connected>>

-----------------------------------------------------------------------------
(***************************************************************************)
(* MPPHandler::execute, MPPTask::prepare.                                  *)
(***************************************************************************)
Enter(t, p) ==
    /\ phase' = [phase EXCEPT ![t] = p]
    /\ at' = [at EXCEPT ![t] = 1]

RegisterTask(t) ==
    /\ phase[t] = "none"
    /\ Up(t)
    /\ Enter(t, "prepare")
    /\ taskMap' = taskMap \cup {t}
    /\ UNCHANGED <<tunnelVars, batches, jobs, poolError, streamVars>>

RegisterTunnel(t) ==
    /\ phase[t] = "prepare"
    /\ at[t] <= Len(Targets[t])
    /\ registered' = [registered EXCEPT ![t][Targets[t][at[t]]] = TRUE]
    /\ at' = [at EXCEPT ![t] = @ + 1]
    /\ UNCHANGED <<taskMap, phase, connected, finished, batches, jobs, poolError, streamVars>>

Run(t) ==
    /\ phase[t] = "prepare"
    /\ at[t] > Len(Targets[t])
    /\ Enter(t, "read")
    /\ UNCHANGED <<taskMap, tunnelVars, batches, jobs, poolError, streamVars>>

\* prepare() throws: execute() answers with the error and leaves the task in the map.
Reject(t) ==
    /\ <<"prepare", t>> \in Failures
    /\ phase[t] = "prepare"
    /\ Enter(t, "rejected")
    /\ UNCHANGED <<taskMap, tunnelVars, batches, jobs, poolError, streamVars>>

-----------------------------------------------------------------------------
(***************************************************************************)
(* MPPTask::runImpl. The input is read by the modules that use these.      *)
(***************************************************************************)
\* The task may read a batch, because it can schedule the job that writes it.
MaySchedule(t) ==
    /\ phase[t] = "read"
    /\ Cardinality(jobs[t]) < PoolSize \/ poolError[t]

\* A pool that is shut down drops the job.
Schedule(t) ==
    /\ MaySchedule(t)
    /\ batches' = [batches EXCEPT ![t] = @ + 1]
    /\ jobs' = IF poolError[t] THEN jobs
               ELSE [jobs EXCEPT ![t] = @ \cup {[batch |-> batches[t] + 1, next |-> 0]}]
    /\ UNCHANGED <<taskMap, phase, at, tunnelVars, poolError>>

\* The input has ended, or has thrown.
EndRead(t, p) ==
    /\ phase[t] = "read"
    /\ Enter(t, p)
    /\ UNCHANGED <<taskMap, tunnelVars, batches, jobs, poolError>>

\* Mutant: the jobs are not waited for.
WriteSuffixAtOnce(t) ==
    /\ phase[t] = "suffix"
    /\ Enter(t, IF poolError[t] THEN "error" ELSE "finish")
    /\ UNCHANGED <<taskMap, tunnelVars, batches, jobs, poolError, streamVars>>

\* writeSuffix() waits for the jobs, and throws what one of them has thrown.
WriteSuffix(t) ==
    /\ phase[t] = "suffix"
    /\ jobs[t] = {}
    /\ Enter(t, IF poolError[t] THEN "error" ELSE "finish")
    /\ UNCHANGED <<taskMap, tunnelVars, batches, jobs, poolError, streamVars>>

\* The loop over tunnel_map goes on, or ends.
NextTunnel(t, end) ==
    IF at[t] = Len(TunnelMap[t])
    THEN Enter(t, end)
    ELSE at' = [at EXCEPT ![t] = @ + 1] /\ UNCHANGED phase

FinishWrite(t) ==
    /\ phase[t] = "finish"
    /\ WriteDone(t, TunnelMap[t][at[t]])
    /\ NextTunnel(t, "unregister")
    /\ UNCHANGED <<taskMap, batches, jobs, poolError, streamVars>>

\* Mutant: the tunnel gets the error but is not finished.
WriteErrWithoutDone(t) ==
    LET r == TunnelMap[t][at[t]]
    IN  /\ phase[t] = "error"
        /\ MayWrite(t, r)
        /\ Write(t, r, Error)
        /\ NextTunnel(t, "abandon")
        /\ UNCHANGED <<taskMap, tunnelVars, batches, jobs, poolError>>

WriteErrToTunnel(t) ==
    LET r == TunnelMap[t][at[t]]
    IN  /\ phase[t] = "error"
        /\ MayWrite(t, r)
        /\ Write(t, r, Error)
        /\ WriteDone(t, r)
        /\ NextTunnel(t, "abandon")
        /\ UNCHANGED <<taskMap, batches, jobs, poolError>>

UnregisterTask(t) ==
    /\ phase[t] \in {"unregister", "abandon"}
    /\ taskMap' = taskMap \ {t}
    /\ Enter(t, IF phase[t] = "unregister" THEN "done" ELSE "failed")
    /\ UNCHANGED <<tunnelVars, batches, jobs, poolError, streamVars>>

\* write() throws in the catch clause of runImpl, so the thread's function throws:
\* std::terminate.
Fatal(t) ==
    /\ phase[t] = "error"
    /\ WriteTimesOut(t, TunnelMap[t][at[t]])
    /\ Terminate(NodeOf[t])
    /\ UNCHANGED taskVars

-----------------------------------------------------------------------------
(***************************************************************************)
(* The thread pool of StreamingDAGResponseWriter.                          *)
(***************************************************************************)
Becomes(t, j, new) == jobs' = [jobs EXCEPT ![t] = (@ \ {j}) \cup new]

TakeJob(t, j) ==
    /\ j.next = 0
    /\ Becomes(t, j, IF poolError[t] THEN {} ELSE {[batch |-> j.batch, next |-> 1]})
    /\ UNCHANGED <<taskMap, phase, at, tunnelVars, batches, poolError, streamVars>>

JobWrite(t, j) ==
    /\ j.next > 0
    /\ MayWrite(t, Targets[t][j.next])
    /\ Write(t, Targets[t][j.next], j.batch)
    /\ Becomes(t, j, IF j.next = Len(Targets[t]) THEN {} ELSE {[batch |-> j.batch, next |-> j.next + 1]})
    /\ UNCHANGED <<taskMap, phase, at, tunnelVars, batches, poolError>>

JobTimeout(t, j) ==
    /\ j.next > 0
    /\ WriteTimesOut(t, Targets[t][j.next])
    /\ Becomes(t, j, {})
    /\ poolError' = [poolError EXCEPT ![t] = TRUE]
    /\ UNCHANGED <<taskMap, phase, at, tunnelVars, batches, streamVars>>

-----------------------------------------------------------------------------
(***************************************************************************)
(* FlashService::EstablishMPPConnection. The handler keeps the task it has *)
(* found, so the task's tunnels outlive unregisterTask.                    *)
(***************************************************************************)
Proceed(t, r, c) == call' = [call EXCEPT ![t][r] = c]

\* The handler answers with an error packet, if the stream still takes it.
AnswerError(t, r) ==
    /\ Proceed(t, r, "returned")
    /\ IF broken[t][r] THEN UNCHANGED packets ELSE Send(t, r, Error)
    /\ Close(t, r)
    /\ UNCHANGED <<up, broken, taskVars>>

\* checkGrpcContext or createDBContext fails: the call ends with a status that is
\* not OK, and no packet.
Refuse(t, r) ==
    /\ call[t][r] = "find_task"
    /\ Proceed(t, r, "returned")
    /\ Close(t, r)
    /\ Break(t, r)
    /\ UNCHANGED <<up, packets, taskVars>>

FindTask(t, r) ==
    /\ call[t][r] = "find_task"
    /\ t \in taskMap
    /\ Proceed(t, r, "find_tunnel")
    /\ UNCHANGED <<up, packets, closed, broken, taskVars>>

FindTaskTimeout(t, r) ==
    /\ call[t][r] = "find_task"
    /\ t \notin taskMap
    /\ AnswerError(t, r)

FindTunnel(t, r) ==
    /\ call[t][r] = "find_tunnel"
    /\ registered[t][r]
    /\ Proceed(t, r, "connect")
    /\ UNCHANGED <<up, packets, closed, broken, taskVars>>

FindTunnelTimeout(t, r) ==
    /\ call[t][r] = "find_tunnel"
    /\ ~registered[t][r]
    /\ AnswerError(t, r)

Connect(t, r) ==
    /\ call[t][r] = "connect"
    /\ Proceed(t, r, "wait")
    /\ connected' = [connected EXCEPT ![t][r] = TRUE]
    /\ UNCHANGED <<up, packets, closed, broken, taskMap, phase, at, registered, finished, batches, jobs, poolError>>

WaitForFinish(t, r) ==
    /\ call[t][r] = "wait"
    /\ finished[t][r]
    /\ Proceed(t, r, "returned")
    /\ Close(t, r)
    /\ UNCHANGED <<up, packets, broken, taskVars>>

Handler(t, r) ==
    \/ Refuse(t, r)
    \/ FindTask(t, r)
    \/ FindTaskTimeout(t, r)
    \/ FindTunnel(t, r)
    \/ FindTunnelTimeout(t, r)
    \/ Connect(t, r)
    \/ WaitForFinish(t, r)
=============================================================================
