-------------------------------- MODULE MPP --------------------------------
(***************************************************************************)
(* An MPP query: tasks that read storage, tasks that read from an exchange *)
(* receiver, and TiDB, which receives from the last of them.               *)
(***************************************************************************)
EXTENDS MPPTask, ExchangeReceiver

vars == <<streamVars, taskVars, receiverVars>>

TypeOK == StreamsTypeOK /\ TasksTypeOK /\ ReceiversTypeOK

Init == InitStreams /\ InitTasks /\ InitReceivers

-----------------------------------------------------------------------------
(***************************************************************************)
(* What a task reads.                                                      *)
(***************************************************************************)
ReadStorage(t) ==
    /\ t \notin Receivers
    /\ batches[t] < MaxBatches
    /\ Schedule(t)
    /\ UNCHANGED <<streamVars, receiverVars>>

StorageEnds(t) ==
    /\ t \notin Receivers
    /\ EndRead(t, "suffix")
    /\ UNCHANGED <<streamVars, receiverVars>>

ReadThrows(t) ==
    /\ <<"read", t>> \in Failures
    /\ EndRead(t, "error")
    /\ UNCHANGED <<streamVars, receiverVars>>

\* The first read of the receiver starts its threads. TiDB (external) starts
\* its own when it likes.
InitReceiver(r) ==
    /\ r \in Tasks => phase[r] = "read"
    /\ StartReaders(r)
    /\ UNCHANGED taskVars

ReadRemote(r) ==
    /\ NextPacket(r)
    /\ IF r \in Tasks THEN Schedule(r) ELSE UNCHANGED taskVars

RemoteEnds(r) ==
    /\ NextEof(r)
    /\ IF r \in Tasks THEN EndRead(r, "suffix") ELSE UNCHANGED taskVars

RemoteFails(r) ==
    /\ NextError(r)
    /\ IF r \in Tasks THEN EndRead(r, "error") ELSE UNCHANGED taskVars

-----------------------------------------------------------------------------
Dispatch(t) == RegisterTask(t) /\ UNCHANGED receiverVars

\* The thread of a task.
TaskThread(t) ==
    /\ Up(t)
    /\ \/ RegisterTunnel(t) /\ UNCHANGED receiverVars
       \/ Run(t) /\ UNCHANGED receiverVars
       \/ Reject(t) /\ UNCHANGED receiverVars
       \/ ReadStorage(t)
       \/ StorageEnds(t)
       \/ ReadThrows(t)
       \/ WriteSuffix(t) /\ UNCHANGED receiverVars
       \/ FinishWrite(t) /\ UNCHANGED receiverVars
       \/ WriteErrToTunnel(t) /\ UNCHANGED receiverVars
       \/ Fatal(t) /\ UNCHANGED receiverVars
       \/ UnregisterTask(t) /\ UNCHANGED receiverVars

\* The thread that reads a receiver: of a task, or of TiDB.
ReceiverThread(r) ==
    /\ Up(r)
    /\ InitReceiver(r) \/ ReadRemote(r) \/ RemoteEnds(r) \/ RemoteFails(r)

PoolThread(t) ==
    /\ Up(t)
    /\ \E j \in jobs[t] : TakeJob(t, j) \/ JobWrite(t, j) \/ JobTimeout(t, j)
    /\ UNCHANGED receiverVars

HandlerThread(t, r) == Up(t) /\ Handler(t, r) /\ UNCHANGED receiverVars

ReaderThread(r, s) == Up(r) /\ ReadLoop(r, s) /\ UNCHANGED taskVars

StreamBreaks(t, r) == BreakStream(t, r) /\ UNCHANGED <<taskVars, receiverVars>>

Next ==
    \/ \E t \in Tasks : Dispatch(t) \/ TaskThread(t) \/ PoolThread(t)
    \/ \E r \in Receivers : ReceiverThread(r)
    \/ \E t \in Tasks : \E r \in Range(Targets[t]) :
          HandlerThread(t, r) \/ ReaderThread(r, t) \/ StreamBreaks(t, r)

Spec == Init /\ [][Next]_vars

\* The threads run, and waits with a timeout end. TiDB need not dispatch a task,
\* and no stream has to break.
Fairness ==
    /\ \A t \in Tasks : WF_vars(TaskThread(t)) /\ WF_vars(PoolThread(t))
    /\ \A r \in Receivers : WF_vars(ReceiverThread(r))
    /\ \A t \in Tasks : \A r \in Range(Targets[t]) :
          WF_vars(HandlerThread(t, r)) /\ WF_vars(ReaderThread(r, t))

FairSpec == Spec /\ Fairness

-----------------------------------------------------------------------------
(***************************************************************************)
(* Properties.                                                             *)
(***************************************************************************)
\* A receiver is told of the end (an empty buffer and no live connection in
\* nextResult) only when every source has succeeded and has given it every batch.
\* A source is exempt when its process is gone, or when the call to it did not
\* reach it, was refused or broke: Read() returns false then as it does at the
\* end, and the receiver takes rows for complete that are not. The property says
\* that this is the only way to miss a row or an error.
EofComplete ==
    \A r \in Receivers : result[r] = "eof" =>
        \A s \in Sources(r) : ~Lost(s, r) =>
            /\ phase[s] \in {"finish", "unregister", "done"}
            /\ \A b \in 1 .. batches[s] : <<s, b>> \in Range(got[r])

Rejected == \E t \in Tasks : phase[t] = "rejected"

\* Once TiDB has asked for the result it is told of the end or of an error,
\* whatever times out, breaks or throws; only a rejected task can keep it waiting.
\* In the run a task has one batch and one pool thread: no encoding job waits
\* behind another there.
QueryEnds == Root \in Receivers => (inited[Root] ~> result[Root] # "none" \/ Rejected)

\* Every registered task is unregistered in the end (or takes its process down),
\* and every handler that waits for its tunnel returns. A task whose prepare()
\* throws stays registered, and whoever waits for its tunnels waits for ever: once
\* one task was rejected nothing is said of any task or handler of the query.
TasksDrain ==
    \A t \in Tasks :
        /\ t \in taskMap ~> t \notin taskMap \/ ~Up(t) \/ Rejected
        /\ \A r \in Range(Targets[t]) : call[t][r] # "none" ~> call[t][r] = "returned" \/ Rejected
=============================================================================
