---------------------------- MODULE SnapshotRead ----------------------------
(***************************************************************************)
(* What a learner read promises to TiDB, whatever this node is doing: a    *)
(* query ends with exactly the rows that are committed up to its start_ts, *)
(* now and for ever, or it fails and is tried again.                       *)
(***************************************************************************)
EXTENDS Naturals

CONSTANTS Rows, Queries

VARIABLES
    commit,     \* commit_ts of a row, 0 before it is committed
    phase,      \* of a query: "new", "running", "done" or "failed"
    ts,         \* the start_ts of a query
    range,      \* the rows it asks for
    result      \* the rows it got

queryVars == <<phase, ts, range, result>>
vars == <<commit, queryVars>>

Visible(q) == {r \in range[q] : 0 < commit[r] /\ commit[r] <= ts[q]}

Init ==
    /\ commit = [r \in Rows |-> 0]
    /\ phase = [q \in Queries |-> "new"]
    /\ ts = [q \in Queries |-> 0]
    /\ range = [q \in Queries |-> {}]
    /\ result = [q \in Queries |-> {}]

\* A row is committed, with some timestamp, but not in the past of a query
\* that has been answered.
Commit(r) ==
    /\ commit[r] = 0 /\ commit'[r] \in Nat \ {0}
    /\ \A q \in Queries : phase[q] = "done" /\ r \in range[q] => commit'[r] > ts[q]
    /\ commit' = [commit EXCEPT ![r] = commit'[r]]
    /\ UNCHANGED queryVars

\* A query starts, with some timestamp and some range.
Start(q) ==
    /\ phase[q] = "new" /\ phase' = [phase EXCEPT ![q] = "running"]
    /\ ts'[q] \in Nat \ {0} /\ ts' = [ts EXCEPT ![q] = ts'[q]]
    /\ range'[q] \subseteq Rows /\ range' = [range EXCEPT ![q] = range'[q]]
    /\ UNCHANGED <<commit, result>>

Answer(q) ==
    /\ phase[q] = "running" /\ phase' = [phase EXCEPT ![q] = "done"]
    /\ result' = [result EXCEPT ![q] = Visible(q)]
    /\ UNCHANGED <<commit, ts, range>>

\* Queries fail, several at once where the process goes down.
Fail ==
    /\ \A q \in Queries : phase'[q] = phase[q] \/ (phase[q] = "running" /\ phase'[q] = "failed")
    /\ UNCHANGED <<commit, ts, range, result>>

Next ==
    \/ \E r \in Rows : Commit(r)
    \/ \E q \in Queries : Start(q) \/ Answer(q)
    \/ Fail

Spec == Init /\ [][Next]_vars
=============================================================================
