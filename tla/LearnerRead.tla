---------------------------- MODULE LearnerRead ----------------------------
(***************************************************************************)
(* Queries that read the rows of one region from this learner, beside the  *)
(* threads that apply its log: doLearnerRead, the read of the storage      *)
(* engine, validateQueryInfo.  A query is given its start_ts and the       *)
(* region's version by TiDB; it ends with rows, or with an error after     *)
(* which TiDB tries again (a new query).                                   *)
(***************************************************************************)
EXTENDS RegionData

CONSTANT Queries

VARIABLE query  \* [pc, ts, version, inst, flag, index, rows, result]

readVars == <<logVars, dataVars, query>>

NewQuery == [pc |-> "new", ts |-> 0, version |-> 0, inst |-> 0, flag |-> 0, index |-> 0,
             rows |-> {}, result |-> {}]

\* RegionException, LockException or another error: TiDB tries again.
Abort(q) == [NewQuery EXCEPT !.pc = "failed", !.ts = query[q].ts, !.version = query[q].version]
Retry(q) == query' = [query EXCEPT ![q] = Abort(q)]

\* Peer state and version of the Region object that the query holds.
PeerState(q) == IF Same(query[q].inst) THEN region.state ELSE "Tombstone"

ReadInit == LogInit /\ DataInit /\ query = [q \in Queries |-> NewQuery]

\* TiDB gets start_ts and takes the region's version from its cache.
StartQuery(q) ==
    /\ query[q].pc = "new" /\ q \in scenario.queries /\ ~Importing
    /\ tso' = tso + 1
    /\ \E version \in 0..VersionAt(Last) :
        query' = [query EXCEPT ![q].pc = "lookup", ![q].ts = tso + 1, ![q].version = version]
    /\ UNCHANGED <<scenario, startTs, commitTs, log>> /\ UNCHANGED dataVars

\* doLearnerRead: the region's pointer, with its snapshot_event_flag
Lookup(q) ==
    /\ Alive /\ query[q].pc = "lookup"
    /\ IF region = NoRegion THEN Retry(q)
       ELSE query' = [query EXCEPT ![q].pc = "check", ![q].inst = region.inst, ![q].flag = region.flag]
    /\ UNCHANGED <<logVars, dataVars>>

\* isValidRegion, then the request for the read index
CheckRegion(q) ==
    /\ Alive /\ query[q].pc = "check"
    /\ IF PeerState(q) # "Normal" \/ region.version # query[q].version THEN Retry(q)
       ELSE query' = [query EXCEPT ![q].pc = "index"]
    /\ UNCHANGED <<logVars, dataVars>>

\* The leader answers with its commit index, or a region error (external).
ReadIndex(q) ==
    /\ Alive /\ query[q].pc = "index"
    /\ \/ VersionAt(Last) = query[q].version
          /\ query' = [query EXCEPT ![q].pc = "wait", ![q].index = Last]
       \/ VersionAt(Last) # query[q].version /\ Retry(q)
    /\ UNCHANGED <<logVars, dataVars>>

\* Mutant: doCheckIndex looks at the index only.
CheckIndexOnly(q) == Same(query[q].inst) /\ region.applied >= query[q].index

CheckIndex(q) == PeerState(q) # "Tombstone" => region.applied >= query[q].index

\* Region::waitIndex: the query goes on, or sleeps on the condition variable.
WaitIndex(q) ==
    /\ Alive /\ query[q].pc = "wait"
    /\ query' = [query EXCEPT ![q].pc = IF CheckIndex(q) THEN "resolve" ELSE "sleep"]
    /\ UNCHANGED <<logVars, dataVars>>

\* Peer state and applied index of the Region object `inst`, r being the region of the map.
MetaOf(r, inst) == IF r # NoRegion /\ r.inst = inst THEN <<r.state, r.applied>> ELSE <<"Tombstone", 0>>

\* Mutant: setPeerState notifies nobody.
NotifiedOfIndex(q) ==
    /\ region # NoRegion /\ region' # NoRegion
    /\ region.inst = query[q].inst /\ region'.inst = query[q].inst
    /\ region'.applied # region.applied

\* notifyAll follows every change of the applied index and of the peer state.
Notified(q) == MetaOf(region', query[q].inst) # MetaOf(region, query[q].inst)

NotifyAll ==
    query' = [q \in Queries |->
                 IF query[q].pc = "sleep" /\ Notified(q) THEN [query[q] EXCEPT !.pc = "wait"] ELSE query[q]]

\* getLockInfo: a lock that the query may have to see the outcome of
Locked(q) == \E t \in region.lock : startTs[t] <= query[q].ts

\* resolveLocksAndReadRegionData, under the region's mutex
ResolveLocks(q) ==
    /\ Alive /\ query[q].pc = "resolve"
    /\ IF \/ PeerState(q) # "Normal" \/ region.version # query[q].version
          \/ Locked(q) \/ Unreadable(region)
       THEN Retry(q)
       ELSE query' = [query EXCEPT ![q].pc = IF region.write = {} THEN "read" ELSE "write",
                                   ![q].rows = region.write]
    /\ UNCHANGED <<logVars, dataVars>>

\* resolveLocksAndWriteRegion: the rows are written to storage without a lock
\* of the region ...
WriteRegion(q) ==
    /\ Alive /\ query[q].pc = "write"
    /\ \/ /\ WriteStorage(query[q].rows)
          /\ query' = [query EXCEPT ![q].pc = "remove"]
          /\ UNCHANGED faults
       \/ StorageFails("write") /\ Retry(q) /\ UNCHANGED <<view, disk>>
    /\ UNCHANGED <<region, page, table, apply, bg, proxy, instances, failed, skipped>>
    /\ UNCHANGED logVars

\* Mutant: rows that came since are removed as well.
RemoveWholeCache(q) ==
    /\ Alive /\ query[q].pc = "remove"
    /\ region' = IF Same(query[q].inst) THEN RemoveCommitted(region, region.write) ELSE region
    /\ query' = [query EXCEPT ![q].pc = "read", ![q].rows = {}]
    /\ UNCHANGED <<page, view, disk, table, apply, bg, proxy, instances, faults, failed, skipped>>
    /\ UNCHANGED logVars

\* ... and removed from the region.
RemoveCache(q) ==
    /\ Alive /\ query[q].pc = "remove"
    /\ region' = IF Same(query[q].inst) THEN RemoveCommitted(region, query[q].rows) ELSE region
    /\ query' = [query EXCEPT ![q].pc = "read", ![q].rows = {}]
    /\ UNCHANGED <<page, view, disk, table, apply, bg, proxy, instances, faults, failed, skipped>>
    /\ UNCHANGED logVars

\* storage->read: the rows of the range, up to start_ts
ReadStorage(q) ==
    /\ Alive /\ query[q].pc = "read"
    /\ query' = [query EXCEPT ![q].pc = "validate",
                    ![q].result = {t \in view \cap RangeOf(query[q].version) : commitTs[t] <= query[q].ts}]
    /\ UNCHANGED <<logVars, dataVars>>

\* Mutant: a snapshot into the same object goes unnoticed.
ValidNoFlag(q) == Same(query[q].inst) /\ region.version = query[q].version

\* Mutant: a split goes unnoticed.
ValidNoVersion(q) == Same(query[q].inst) /\ region.flag = query[q].flag

\* validateQueryInfo: the same object, no snapshot since, the same version
Valid(q) == Same(query[q].inst) /\ region.flag = query[q].flag /\ region.version = query[q].version

ValidateQueryInfo(q) ==
    /\ Alive /\ query[q].pc = "validate"
    /\ IF Valid(q) THEN query' = [query EXCEPT ![q].pc = "done"] ELSE Retry(q)
    /\ UNCHANGED <<logVars, dataVars>>

\* The queries of a process end with it.
Restart ==
    /\ Crash
    /\ query' = [q \in Queries |->
                    IF query[q].pc \in {"new", "lookup", "done", "failed"} THEN query[q]
                    ELSE Abort(q)]
    /\ UNCHANGED logVars

QueryStep(q) ==
    \/ Lookup(q) \/ CheckRegion(q) \/ ReadIndex(q) \/ WaitIndex(q) \/ ResolveLocks(q)
    \/ WriteRegion(q) \/ RemoveCache(q) \/ ReadStorage(q) \/ ValidateQueryInfo(q)

ReadNext ==
    \/ LogNext /\ UNCHANGED <<dataVars, query>>
    \/ DataNext /\ NotifyAll /\ UNCHANGED logVars
    \/ \E q \in Queries : StartQuery(q) \/ QueryStep(q)
    \/ Restart

Spec == ReadInit /\ [][ReadNext]_readVars

-----------------------------------------------------------------------------
(* Properties.                                                             *)

Subsets == SUBSET Txns

TypeOK ==
    /\ tso \in Nat
    /\ startTs \in [Txns -> 0..tso] /\ commitTs \in [Txns -> 0..tso]
    /\ page = NoRegion \/ page \in
        [state : {"Normal", "Applying"}, version : 0..1, applied : 0..Last,
         default : Subsets, write : Subsets, lock : Subsets]
    /\ region = NoRegion \/ region \in
        [inst : 1..instances, flag : Nat, state : {"Normal", "Applying"}, version : 0..1,
         applied : 0..Last, default : Subsets, write : Subsets, lock : Subsets]
    /\ view \in Subsets /\ disk \in Subsets
    /\ table \in [dirty : BOOLEAN, pause : BOOLEAN]
    /\ proxy \in [handed : 0..Last, acked : 0..Last, snapshot : 0..Last, doomed : BOOLEAN]
    /\ \A q \in Queries : query[q].ts \in 0..tso /\ query[q].result \in Subsets

Phase(q) ==
    CASE query[q].pc \in {"new", "done", "failed"} -> query[q].pc
      [] OTHER -> "running"

Promise == INSTANCE SnapshotRead WITH
    Rows <- Txns,
    commit <- [t \in Txns |-> IF commitTs[t] # 0 /\ Committed(Last, t) THEN commitTs[t] ELSE 0],
    phase <- [q \in Queries |-> Phase(q)],
    ts <- [q \in Queries |-> query[q].ts],
    range <- [q \in Queries |-> IF query[q].ts = 0 THEN {} ELSE RangeOf(query[q].version)],
    result <- [q \in Queries |-> IF query[q].pc = "done" THEN query[q].result ELSE {}]

\* doLearnerRead, storage->read and validateQueryInfo together give a query the
\* rows committed up to its start_ts, none missing and none too many, while the
\* region is written, split, replaced by a snapshot, removed and added again.  In
\* the scenarios with queries no write or flush of a snapshot fails, no crash
\* comes beside an import and no snapshot meets pause_flush: a query would miss
\* the rows that PageRowsDurable exempts.
ImplementsSnapshotRead == Promise!Spec

\* A page never claims rows that a crash would lose: each row committed up to
\* its applied index is on the disk of the storage engine or in the page itself,
\* unless the region is Applying a snapshot that the proxy will bring again.
\* Exempt are exactly the rows in `skipped`, which the code does lose in a
\* crash, or at once: onSnapshot and handleIngestSST ignore an exception of the
\* write or of flushCache and persist the region all the same; a snapshot that
\* meets pause_flush is assigned and persisted without its rows; a query may
\* move ingested rows to the memory of the storage, after which handleIngestSST
\* finds no row to flush and does not call flushCache before it persists.
PageRowsDurable ==
    page # NoRegion =>
        IF page.state = "Applying" THEN proxy.snapshot > page.applied
        ELSE (CommittedAt(page.applied) \cap RangeOf(page.version)) \ skipped
                \subseteq disk \cup Whole(page.write, page.default)

\* The index up to which the thread of the proxy was at work when it threw.
WorkIndex ==
    IF apply.pc = "scan" THEN region.applied
    ELSE IF proxy.snapshot # 0 THEN proxy.snapshot ELSE Index

\* No handler finds a key that exists already (RegionData::insert), and a scan
\* misses the value of a write record (readDataByWriteIt) only where the log up
\* to there has none: the file with the write record came before the file with
\* the value, which handleIngestSST tolerates and the command after it does not.
\* An exception of the storage engine is not a logical error.  Exempt is
\* "original ts >= gc safe point" of compareAndCompleteSnapshot, which
\* TxnMergeTree throws at a snapshot of a region whose storage has rows younger
\* than that.
NoLogicalError ==
    /\ failed # "clash"
    /\ failed = "unreadable" => WriteAt(WorkIndex) # CommittedAt(WorkIndex)

\* Where nobody is at work.
Settled == apply.pc = "idle" /\ bg.pc = "idle" /\ proxy.snapshot = 0

\* The committed rows of the region in the map that are not in storage.
Unflushed == (CommittedAt(region.applied) \cap RangeOf(region.version)) \ view

\* When nobody is at work, a region whose committed rows are not all in storage
\* is in dirty_regions, so that a later flush finds it.  Exempt are the rows in
\* `skipped` (see PageRowsDurable): nobody has them any more, and the flag is gone.
DirtyUntilFlushed ==
    Settled /\ region # NoRegion => table.dirty \/ Unflushed \subseteq skipped

\* The rule of RegionTable::pickRegionToFlush without exemption: "The dirty flag
\* should only be removed after data is flush successfully."  onSnapshot ignores
\* the exception of a write that tryFlushRegion has taken the flag off for.
DirtyRule == Settled /\ region # NoRegion => table.dirty \/ Unflushed = {}

\* Threads keep going and the proxy hands over what it has.
Fairness ==
    /\ WF_readVars(DataNext /\ NotifyAll /\ UNCHANGED logVars)
    /\ \A q \in Queries : WF_readVars(QueryStep(q))

FairSpec == Spec /\ Fairness

\* A query that has arrived ends, with rows or with an error: whatever removes,
\* replaces or advances the region that it sleeps on notifies it.
QueryEnds == \A q \in Queries : query[q].pc = "lookup" ~> query[q].pc \in {"done", "failed"}
=============================================================================
