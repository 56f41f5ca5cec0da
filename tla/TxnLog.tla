------------------------------- MODULE TxnLog -------------------------------
(***************************************************************************)
(* What TiDB and TiKV put into the Raft log of one region: two-phase       *)
(* transactions, files imported by ingest commands, one split and          *)
(* CompactLog.  External: modelled from how Region::handleWriteRaftCmd,    *)
(* Region::handleIngestSST and doLearnerRead use it.                       *)
(*                                                                         *)
(* A transaction writes one row, under a key of its own, so that a row and *)
(* its transaction have one name.  The value of a row of Long is kept in   *)
(* the default column family; other values are short and travel in the    *)
(* lock and in the write record.                                           *)
(***************************************************************************)
EXTENDS Naturals, Sequences, FiniteSets

CONSTANTS
    Txns,       \* transactions
    NoTxn,      \* the transaction of an admin command
    Long,       \* rows whose value does not fit the write record
    High,       \* rows above the split key
    Scenarios   \* what may happen to the region, and how often

ASSUME TxnAssumption ==
    /\ Long \subseteq Txns /\ High \subseteq Txns
    /\ \A s \in Scenarios : s.imported \subseteq s.txns /\ s.txns \subseteq Txns

VARIABLES
    scenario,   \* the scenario of this behaviour
    tso,        \* PD's timestamp oracle
    startTs,    \* start_ts of a transaction, 0 before it starts
    commitTs,   \* commit_ts, 0 before it is allocated
    log         \* committed log of the region

logVars == <<scenario, tso, startTs, commitTs, log>>

Imported == scenario.imported       \* rows that come in files, without a prewrite
WriteFirst == scenario.writeFirst   \* may the file of the write CF come before that of default?
Splits == scenario.splits           \* may the region be split?
Compacts == scenario.compacts       \* bound on CompactLog commands
MaxLog == scenario.log              \* bound on the log

Entry(cmd, t, cfs) == [cmd |-> cmd, txn |-> t, cfs |-> cfs]

Has(n, cmd, t) == \E i \in 1..n : log[i].cmd = cmd /\ log[i].txn = t
Ingested(n, cf, t) == \E i \in 1..n : log[i].cmd = "ingest" /\ log[i].txn = t /\ cf \in log[i].cfs

\* The column families of the leader after the first n entries.
LockAt(n) == {t \in Txns : Has(n, "prewrite", t) /\ ~Has(n, "commit", t) /\ ~Has(n, "rollback", t)}
InWrite(n, t) == Has(n, "commit", t) \/ Ingested(n, "write", t)
InDefault(n, t) ==
    t \in Long /\ ((Has(n, "prewrite", t) /\ ~Has(n, "rollback", t)) \/ Ingested(n, "default", t))
WriteAt(n) == {t \in Txns : InWrite(n, t)}
DefaultAt(n) == {t \in Txns : InDefault(n, t)}

\* A write record and the value in the default CF that it points to.
Whole(write, default) == {t \in write : t \in Long => t \in default}
Committed(n, t) == InWrite(n, t) /\ (t \in Long => InDefault(n, t))
CommittedAt(n) == {t \in Txns : Committed(n, t)}

\* Version of the region's epoch, and the rows in its range.
VersionAt(n) == IF \E i \in 1..n : log[i].cmd = "split" THEN 1 ELSE 0
RangeOf(version) == IF version = 0 THEN Txns ELSE Txns \ High

Last == Len(log)
\* A table under import is not queried before its files are all in.
Importing == \E t \in Imported : startTs[t] # 0 /\ ~Committed(Last, t)

Propose(cmd, t, cfs) ==
    /\ Last < MaxLog
    /\ t = NoTxn \/ t \in RangeOf(VersionAt(Last))
    /\ log' = Append(log, Entry(cmd, t, cfs))

LogInit ==
    /\ scenario \in Scenarios
    /\ tso = 0
    /\ startTs = [t \in Txns |-> 0]
    /\ commitTs = [t \in Txns |-> 0]
    /\ log = <<>>

\* start_ts is allocated and the lock (with the value, if long) is proposed.
Prewrite(t) ==
    /\ t \notin Imported /\ startTs[t] = 0
    /\ Propose("prewrite", t, {})
    /\ tso' = tso + 1
    /\ startTs' = [startTs EXCEPT ![t] = tso + 1]
    /\ UNCHANGED commitTs

\* commit_ts is allocated once the prewrite has succeeded ...
GetCommitTs(t) ==
    /\ commitTs[t] = 0 /\ t \in LockAt(Last)
    /\ tso' = tso + 1
    /\ commitTs' = [commitTs EXCEPT ![t] = tso + 1]
    /\ UNCHANGED <<startTs, log>>

\* ... and the commit comes some time later, unless somebody has rolled back.
Commit(t) ==
    /\ commitTs[t] # 0 /\ t \in LockAt(Last)
    /\ Propose("commit", t, {})
    /\ UNCHANGED <<tso, startTs, commitTs>>

Rollback(t) ==
    /\ t \in LockAt(Last)
    /\ Propose("rollback", t, {})
    /\ UNCHANGED <<tso, startTs, commitTs>>

\* Files of the import tools: both column families in one command, or one
\* after the other.  The timestamp of the rows is taken when the import starts.
IngestSST(t) ==
    /\ t \in Imported
    /\ \E cfs \in {{"default", "write"}, {"default"}, {"write"}} :
        /\ \A cf \in cfs : ~Ingested(Last, cf, t)
        /\ t \notin Long => cfs = {"write"}
        /\ cfs = {"write"} /\ t \in Long => WriteFirst \/ InDefault(Last, t)
        /\ Propose("ingest", t, cfs)
    /\ IF startTs[t] = 0
       THEN /\ tso' = tso + 1
            /\ startTs' = [startTs EXCEPT ![t] = tso + 1]
            /\ commitTs' = [commitTs EXCEPT ![t] = tso + 1]
       ELSE UNCHANGED <<tso, startTs, commitTs>>

Split ==
    /\ Splits /\ VersionAt(Last) = 0
    /\ Propose("split", NoTxn, {})
    /\ UNCHANGED <<tso, startTs, commitTs>>

CompactLog ==
    /\ Cardinality({i \in 1..Last : log[i].cmd = "compact"}) < Compacts
    /\ Propose("compact", NoTxn, {})
    /\ UNCHANGED <<tso, startTs, commitTs>>

LogNext ==
    /\ UNCHANGED scenario
    /\ \/ \E t \in scenario.txns : Prewrite(t) \/ GetCommitTs(t) \/ Commit(t) \/ Rollback(t) \/ IngestSST(t)
       \/ Split
       \/ CompactLog
=============================================================================
