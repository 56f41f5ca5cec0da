----------------------------- MODULE MPPStreams -----------------------------
(***************************************************************************)
(* What the two ends of an MPP exchange share: the plan, the nodes that    *)
(* are up, and for every sender and receiver the EstablishMPPConnection    *)
(* call with its stream of packets. A stream may break, and a call may be   *)
(* refused; the receiver learns of neither.                                *)
(***************************************************************************)
EXTENDS Naturals, Sequences, FiniteSets, Functions

CONSTANTS
    Tasks,      \* the MPP tasks of a query
    Root,       \* TiDB, which receives from the last task
    Node,       \* TiFlash processes
    NodeOf,     \* the process a task runs in
    Targets,    \* the receivers of a task, in the order of its exchange sender
    MaxBroken   \* bound on the streams that break

Receivers == UNION {Range(Targets[t]) : t \in Tasks}
Sources(r) == {t \in Tasks : r \in Range(Targets[t])}

ASSUME PlanAssumption ==
    /\ IsFiniteSet(Tasks) /\ Root \notin Tasks
    /\ NodeOf \in [Tasks -> Node]
    /\ Targets \in [Tasks -> Seq(Tasks \cup {Root})]
    /\ \A t \in Tasks : IsInjective(Targets[t]) /\ Targets[t] # <<>>
    /\ MaxBroken \in Nat

VARIABLES
    up,         \* the processes that have not terminated
    call,       \* call[t][r]: how far r's EstablishMPPConnection call at t has come
    packets,    \* packets[t][r]: what is on its way in the stream of that call
    closed,     \* closed[t][r]: the server has ended the stream
    broken      \* broken[t][r]: the stream has ended with a status that is not OK

streamVars == <<up, call, packets, closed, broken>>

\* An error packet; the other packets are the numbers of the batches.
Error == 0
Packet == Nat

CallState == {"none", "find_task", "find_tunnel", "connect", "wait", "returned"}

StreamsTypeOK ==
    /\ up \subseteq Node
    /\ call \in [Tasks -> [Receivers -> CallState]]
    /\ packets \in [Tasks -> [Receivers -> Seq(Packet)]]
    /\ closed \in [Tasks -> [Receivers -> BOOLEAN]]
    /\ broken \in [Tasks -> [Receivers -> BOOLEAN]]

InitStreams ==
    /\ up = Node
    /\ call = [t \in Tasks |-> [r \in Receivers |-> "none"]]
    /\ packets = [t \in Tasks |-> [r \in Receivers |-> <<>>]]
    /\ closed = [t \in Tasks |-> [r \in Receivers |-> FALSE]]
    /\ broken = closed

\* A task's process is up; TiDB always is.
Up(x) == x \in Tasks => NodeOf[x] \in up

\* Nothing says what r receives from s: the process of s or the stream is gone.
Lost(s, r) == ~Up(s) \/ broken[s][r]

\* Packet p is written to the stream; the server ends the stream; the stream breaks.
Send(t, r, p) == packets' = [packets EXCEPT ![t][r] = Append(@, p)]
Close(t, r) == closed' = [closed EXCEPT ![t][r] = TRUE]
Break(t, r) ==
    /\ Cardinality({p \in Tasks \X Receivers : broken[p[1]][p[2]]}) < MaxBroken
    /\ broken' = [broken EXCEPT ![t][r] = TRUE]

-----------------------------------------------------------------------------
(***************************************************************************)
(* A process terminates: its handlers are gone and its streams break. What *)
(* it has written to a stream still arrives, or is lost.                   *)
(***************************************************************************)
Terminate(n) ==
    \E arriving \in SUBSET ({t \in Tasks : NodeOf[t] = n} \X Receivers) :
        /\ up' = up \ {n}
        /\ call' = [t \in Tasks |-> [r \in Receivers |->
                      IF NodeOf[t] = n /\ call[t][r] # "none" THEN "returned" ELSE call[t][r]]]
        /\ packets' = [t \in Tasks |-> [r \in Receivers |->
                         IF NodeOf[t] = n /\ ~closed[t][r] /\ <<t, r>> \notin arriving THEN <<>> ELSE packets[t][r]]]
        /\ closed' = [t \in Tasks |-> [r \in Receivers |-> NodeOf[t] = n \/ closed[t][r]]]
        /\ UNCHANGED broken

\* A stream breaks; the packets on their way arrive up to some point.
BreakStream(t, r) ==
    /\ call[t][r] # "none" /\ ~broken[t][r]
    /\ Break(t, r)
    /\ \E n \in 0 .. Len(packets[t][r]) : packets' = [packets EXCEPT ![t][r] = SubSeq(@, 1, n)]
    /\ UNCHANGED <<up, call, closed>>
=============================================================================
