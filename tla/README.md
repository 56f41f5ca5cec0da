# TLA+ models of TiFlash

TiFlash keeps a columnar replica of TiDB tables. It is a Raft learner: the Raft
proxy (a library in the same process, not in this repository) receives the
committed log of every region and calls the handlers of `KVStore`, which apply
the commands to the regions, keep them on disk and move their rows to the
storage engine. Queries read the rows after they have waited for the log
(learner read), and send them to each other and to TiDB (MPP). The schema of the
tables follows TiDB's. These modules model those parts, from
`dbms/src/Storages/Transaction` (regions, rows, reads and schema) and
`dbms/src/Flash` (MPP), check them with TLC and prove part of what they check with
TLAPS.

## The system

| Part | State | Operations | What makes it hard |
|---|---|---|---|
| `RegionsRangeIndex` | ordered map from boundary keys to sets of regions | add, remove, findByRangeOverlap | ranges of regions overlap after a crash; boundaries are split on add and merged again on remove |
| `KVStore` | map of regions, range index, task lock, one lock per region | write, admin commands, snapshot, destroy, restore, tryPersist | handlers write to disk several times; threads of the proxy and of the background pool interleave; commands come again after a restart |
| `Region`, `RegionMeta` | range, epoch, peer state, applied index, merge state; rows in three column families | exec of every command | checks that throw, and end the process |
| `RegionTable` | `range_in_table` of every region, dirty set, pause flags | update, extend, shrink, remove, flush | must cover the region at all times; rows are deleted by this range |
| `RegionPersister` | one page per region | persist, drop, restore | the background flush serializes before it locks |
| Raft proxy, TiKV | logs, apply state, pending snapshots | hand over, acknowledge, snapshot, destroy | external; repeats what it has not written down |
| Region data, flush, learner read | column families, storage in memory and on disk | ingest, flush, read | rows move while regions split and readers read |
| Schema sync | schema version, storages with tombstones | sync, gc | diffs applied with a later schema; order of safe point and sync |
| MPP | tunnels, tasks, encoding jobs, receivers | dispatch, connect, write, finish | timeouts, errors, waiting on each other |
| PageStorage, DeltaTree | versions, segments | write, snapshot, gc, split, merge, compaction | concurrent background work, recovery |

All but the last row are modelled. `PROJECT.json` lists every part with its
status, and the hazards of the code, each at its line.

## Modules

    RangeIndex            the algorithms of RegionsRangeIndex as operators
    RegionsRangeIndex       ... as a state machine          (MCRegionsRangeIndex)
    KVStore               regions, index, table, pages; one action per handler or step
    RaftCluster           committed logs of the regions     (external)
    TiFlashNode           KVStore driven by the proxy       (MCTiFlashNode)

    TxnLog                transactions and imports in the log of a region (external)
    RegionData            column families, flush, ingest, snapshots, storage
    LearnerRead           queries beside them               (MCLearnerRead)
    SnapshotRead          what a query is promised          (abstract)

    MPPStreams            plan, processes, EstablishMPPConnection calls and streams
    MPPTask               dispatch, task thread, tunnels, encoding jobs, handlers
    ExchangeReceiver      reader threads and nextResult
    MPP                   a query                           (MCMPP)
    Exchange              what an exchange promises         (abstract)
    MPPExchange           the refinement mapping from MPP to Exchange

    SchemaVersions        DDL jobs of TiDB, timestamps, safe point (external)
    SchemaSync            syncer, builder, sync service     (MCSchemaSync)

    RangeIndexProofs          lemmas on the operators
    RegionsRangeIndexProofs   theorems on the index
    KVStoreProofs             inductive invariant and theorems of KVStore
    MPPInvariant, MPPTaskProofs, MPPProofs   no batch is lost: EofComplete
    MPPOnceProofs                            no batch comes twice
    MPPExchangeProofs                        MPP implements Exchange

### Regions

**RangeIndex.** A key is a number: `0` is TiKVRangeKey's MIN, where no range of a
table starts, `MaxKey` its MAX, the unbounded end key. `root`
is a function from the boundaries to sets of region ids. `Split`, `Add`,
`Remove`, `TryMergeEmpty` and `FindByRangeOverlap` follow
`RegionsRangeIndex.cpp`. `RemoveThrows` is the condition of its exceptions.

**KVStore.** The variables are those of the code: `regions` (RegionManager),
`root` (the index), `table` (`range_in_table`), `pages` (the persister's pages),
`stored` (the keys whose rows storage holds). `indexed` is a history variable:
the range with which each region was last added to the index. `task` is the
handler that holds `task_mutex` with what it has left to do, `snap` the thread in
`tryApplySnapshot`, `saver` the thread in `tryPersist`, `reply` the handlers that
have returned. A handler with one write to disk is one action. The others are
cut so that a crash, the background flush and unlocked readers can come between
any two writes:

| Code | Actions |
|---|---|
| `restore` | `Restart`, `RestoreIndex`, `RestoreTable` |
| `handleWriteRaftCmd`, `handleUselessAdminRaftCmd` | `HandleWriteRaftCmd`, `HandleUselessAdminRaftCmd` |
| admin: NotFound, IndexError, Default | `AdminNotFound`, `AdminIndexError`, `PersistAndReply` |
| batch split | `HandleBatchSplit`, `SplitIndex`, `SplitTable`, `SplitPersist`, `SplitFinish` |
| commit merge | `HandleCommitMerge`, `MergePersist`, `RemoveRegionDrop`, `RemoveRegionClear`, `MergeReindex`; repeated: `HandleCommitMergeIndexError` |
| prepare and rollback of a merge | `HandlePrepareMerge`, `HandleRollbackMerge` |
| change peer, destroy | `HandleChangePeer` or `HandleDestroy`, then `RemoveRegionDrop`, `RemoveRegionClear` |
| `tryApplySnapshot`, `onSnapshot` | `SnapshotStart` (lookup without a lock), `SnapshotSetApplying`, `SnapshotCheckOverlap`, `SnapshotDeleteRange`, `SnapshotFlush`, `SnapshotAssign` |
| `tryPersist` | `TryPersistSerialize`, `TryPersistWrite` |

An exception of a handler ends the process (`exit(-1)` in `ProxyFFI.cpp`): it is
`Throw`, which sets `failed`. The merge commands compare the region that they have
made with the one in the leader's response (`MergeCmdDiffers`,
`CheckRegionForMergeCmd` in the code) and throw when they differ. `BgFlush` selects the engine: DeltaTree runs with
the background flush disabled and deletes ranges of rows; TxnMergeTree flushes
and persists regions in the background and deletes none. `KVSpec` is KVStore
under any calls, with any arguments, of a proxy that

- has one handler at a time at work on a region (`Busy`),
- does not change the range in a change of peers,
- does not merge a region with itself.

**RaftCluster** and **TiFlashNode** are the proxy and the cluster. A behaviour
starts by choosing a scenario: the range of the first region, which commands may
be proposed and how many, how many regions there may be and how many crashes.
The modules take for granted, because the handlers do:

- a region's entries are handed over in order, one handler at a time; after a
  crash everything that the proxy had not written down is handed over again, and
  only then does it take a snapshot of the region or destroy it;
- the proxy writes its apply state only when told `Persist`, and then also that
  of the regions born in a split and of the source of a merge;
- a pending snapshot is on the proxy's disk and is applied again after a crash;
  a snapshot that overlaps another peer is refused; the leader makes snapshots
  of Normal regions only;
- PrepareMerge needs a peer that the leader has heard from, and CommitMerge is
  handed over once the source has applied the log up to PrepareMerge;
- a split has one new region (in KVStore, and in the proofs, it has any number).

### Rows and reads

**TxnLog** is the log of one region: two-phase transactions with timestamps,
files ingested by import tools, one split, CompactLog. A transaction writes one
row under a key of its own, so a row and its transaction have one name; the
value of a row of `Long` is in the default column family, other values travel in
the lock and in the write record. It is taken for granted that a table under
import is not queried before all its files are in.

**RegionData** is the region's column families (`region`), its page, the rows
that a reader of the storage engine sees (`view`) and those that survive a crash
(`disk`), the flags of RegionTable (`table`), the proxy's thread (`apply`) and
the background flush (`bg`). `failed` says why the process has stopped: a key that
is there already, a value that is missing, a failing storage. `skipped` is a
history variable: the rows that the code has let go of, see "Deviations". A step
ends where the code releases a lock that another thread may take, or where it has
written to disk:

| Code | Actions |
|---|---|
| `handleWriteRaftCmd` with `writeBlockByRegion` | `HandleWriteRaftCmd` |
| CompactLog and other admin commands | `HandleUselessAdminRaftCmd`, `Sync`, `PersistRegion`, `Reply` |
| split; the other half is moved away and removed | `HandleBatchSplit`, `SplitAgain`, `OtherHalfRemoved` |
| `tryFlushRegion`, `writeBlockByRegion` | `FlushScan`, `FlushWrite`, `FlushRemove`, `FlushThrows` |
| `handleIngestSST` | `IngestStart`, `IngestSync`, `Ingest`, `IngestFlush`, `IngestEnd` |
| `applyPreHandledSnapshot`, `onSnapshot` | `SnapshotStart`, `SnapshotFlag`, `SnapshotSyncOld`, `SnapshotPersistOld`, `SnapshotDeleteRange`, `SnapshotFlush`, `SnapshotWrite`, `SnapshotSyncNew`, `SnapshotAssign` |
| `handleDestroy` | `HandleDestroy`, `DropPage`, `RemoveObsoleteData` |
| background flush of TxnMergeTree | `BgScan`, `BgWrite`, `BgRemove`, `BgPersist`, `BgEnd` |
| the storage flushes its cache by itself | `StorageFlush` |

**LearnerRead** adds queries: `Lookup`, `CheckRegion`, `ReadIndex`, `WaitIndex`,
`ResolveLocks`, `WriteRegion`, `RemoveCache`, `ReadStorage` and
`ValidateQueryInfo` are the steps of `doLearnerRead`, of the read of the storage
and of `validateQueryInfo`, between which everything else may happen. `inst` is
the identity of the Region object a query holds, `flag` its
`snapshot_event_flag`, which tells a snapshot into the same object apart. A query
whose index is not applied sleeps on the condition variable of the region; it is
woken by `NotifyAll`, part of every step that changes the applied index or the peer
state of its Region object, and looks again.
**SnapshotRead** is the promise: a query ends with exactly the rows committed up
to its start_ts, now and for ever, or with an error.

### MPP

**MPPStreams** is what both ends of an exchange share. A packet is the number of
a batch, or `Error`. **MPPTask** has the thread of a task (`RegisterTask`,
`RegisterTunnel`, `Run`, reading, `WriteSuffix`, `FinishWrite`,
`WriteErrToTunnel`, `UnregisterTask`), the encoding jobs in the thread pool
(`TakeJob`, `JobWrite`, `JobTimeout`) and the handler of
`EstablishMPPConnection` (`FindTask`, `FindTunnel`, `Connect`, `WaitForFinish`
and their timeouts, and `Refuse`, where it returns a status other than OK before
it has looked for the task). Jobs write in the order of the plan (`Targets`), the
end and an error go out in the order of the map of tunnels (`TunnelMap`).
`Failures` says which tasks' `prepare` and input may throw. **ExchangeReceiver** has a reader thread for every source
(`CallSource`, `ReadPacket`, `ReadFails`, `EndLoop`) and `nextResult`
(`NextPacket`, `NextEof`, `NextError`). **MPP** composes them: tasks that read
storage or a receiver, and TiDB as the last receiver (external). The parallel
streams of a receiver are one consumer; a batch stands for the blocks and chunks
that a job encodes. A process may be lost at any step (an error packet that
cannot be written throws out of the thread), and up to `MaxBroken` calls may be
refused or break: what was written arrives or is lost. The reader does not tell
such an end of the stream from the regular one, because it never asks for the
status (`ExchangeReceiver.cpp:66-92`). `Lost` names the sources of which a receiver
has lost the process or the stream. A write to the stream of a handler that has
returned is taken to send nothing.

**Exchange** is the promise: a receiver takes a batch of a source at most once,
and is told of the end only with all batches of all sources, all of which have
succeeded; a source that the receiver has lost (`Lose`) promises nothing.

### Schema

**SchemaVersions** is TiDB (DDL jobs of one database, the diff and the schema of
every version) and PD (timestamps, safe point; RECOVER TABLE works until the safe
point passes the drop). **SchemaSync** is a storage per table and partition with
tombstone, table info and columns; `sync` is the call that holds `schema_mutex`
with the list of steps it has left: diffs, each applied with the tables of the
target version, or the full sync (`AllSchema`), which is also what a failing diff
turns to. The task of the service reads the safe point, syncs, and drops the
storages whose tombstone is older: it picks a storage (`GcPick`), waits for
`schema_mutex` (`GcLookup`) and drops it (`GcDrop`), and a sync of a query may run
in between. Two history variables hold what a sync has left behind: `unrecovered`,
the tombstones of tables that TiDB has and a full sync has passed over, and
`stale`, the storages that were recovered with another table info. Calls may fail and the process may restart
between any two steps.

## Runs

| Run | Distinct states | Shows |
|---|---|---|
| `range_index` | 567 | `TypeOK`, `LookupIsExact`, `RegisteredIsRemovable`, `EmptyIsCleared` |
| `node` | 364,670 | `NoLogicalError`, `IndexMatchesRegions`, `IndexRemoveNeverThrows`, `AppliedMatchesLog`, `DataComplete`, `CaughtUpDisjoint`, `TableCoversBoundedRegion`, `NoLogLost`, `TypeOK` |
| `bg_flush` | 247,941 | `NoZombiePage`, `PageNeverGoesBack` |
| `converges` | 39,582 | `Converges` (fair) |
| `core_rule` | violation | `TableCoversKVStore` fails |
| `read` | 671,721 | `ImplementsSnapshotRead`, `PageRowsDurable`, `DirtyUntilFlushed`, `NoLogicalError`, `TypeOK` |
| `read_ends` | 28,195 | `QueryEnds` (fair) |
| `dirty_rule` | violation | `DirtyRule` fails |
| `mpp` | 512,788 | `ImplementsExchange`, `EofComplete`, `TypeOK` |
| `mpp_ends` | 62,930 | `EofComplete`; `QueryEnds`, `TasksDrain` (fair) |
| `schema` | 207,026 | `GcAfterTiDB`, `SyncedStoragesMatch`, `TypeOK`; `GcCatchesUp` (fair) |
| `gc_rule` | violation | `GcRule` fails |

The bounds on proposals, batches and faults stop the system, so a state without
successors is the normal end and deadlock is not checked, except in
`range_index`; that the end is the right one is what the fair runs show.

**Regions.** `range_index`: 3 regions, keys 0..5, any ranges, also overlapping.
`node` has three scenarios: 2 regions at the end of the key space with 5 proposals
of split and merge commands and 2 crashes; 2 regions of a table that ends before
the unbounded key, with 3 proposals of writes, CompactLog, splits and peer changes
and 1 crash; 3 regions with 4 proposals of splits, prepares and commits of merges
and 1 crash. `bg_flush`: TxnMergeTree, 3 proposals, 1 crash. `converges`: 3
proposals, 1 crash. Crashes come between any two steps.
Two regions suffice for every command (a command touches at most two), five
proposals for split, prepare, commit and one more round or a rollback, and two
crashes for a crash during the repetition of what the first one cut. Three
regions let a merge follow a split of either side; the regions other than the
first are interchangeable in `node` (`BornRegionSymmetry`), since they are only
ever born in splits, and the one CHOOSE over regions (`MergeTarget`) has a
single candidate. A table that ends at key 3 allows one split, at key 4 two.

**Rows.** A behaviour starts by choosing a scenario: which transactions, imports
and faults it may have. With queries: a log with a split; a crash with CompactLog;
the removal and return of the peer with a snapshot; an import beside a snapshot,
beside a split with a failing write, and beside a removal; two imports with two
queries. Without queries: a log of four entries with an import whose files come in
any order, a split, a crash and a failing write; a snapshot with a crash and a
removal; a snapshot whose write or flush may fail, with a crash; the background
flush of TxnMergeTree with an import, and with a snapshot that may fail, each with
a crash. One row has a long value, one is above the split key. No scenario has
more than one crash: a page and the storage on disk are all that a crash leaves,
and the properties look at both in every state. `read_ends` has one query, with a
crash, a snapshot and a removal, or with an import and a split.

**MPP.** Two tasks in two processes, one batch each and a pool of one thread.
`mpp`: the first task sends to the second and to TiDB, the second to TiDB; nothing
throws of itself, one stream may break and every wait may time out. `mpp_ends`: a
chain, where the input of the first task and every `prepare` may throw as well;
an error of the first task is what makes the input of the second throw. The
proofs below cover any number of batches, targets and threads for the safety
properties. Liveness is checked for these sizes only: with one batch and one pool
thread no job ever waits behind another job.

**Schema.** Six scenarios over a table, a partitioned table and a new id, each
with two or three kinds of DDL jobs, up to three jobs after the first version and
up to one fault; a sync turns to the full sync after more than two diffs.

**Fairness.** `converges`: each thread of the proxy keeps going, so every hand
over, acknowledgement, snapshot and destroy that stays possible happens, and
every handler that can take a step takes it: the locks are plain mutexes, held
by handlers that end. Nothing is assumed of the cluster, of the background flush
or of crashes. `read_ends`: the thread that applies the log keeps going and so
does every query that is not asleep; that a sleeping one is woken is not assumed. `mpp_ends`: threads run and waits with a timeout end; TiDB need
not dispatch a task, and a task that was rejected is exempt (see below).
`schema`: a sync that has started and the periodic task of the service keep going.

**Findings.** Three runs show comments that the code does not keep.

`core_rule`. A comment in `handle_batch_split`
(`KVStore.cpp:442`) states "the range in RegionTable is always >= range in
KVStore". `RegionTable::extendRegionRange` compares raw keys as byte strings,
and the unbounded end key is the empty string. A region `[a, unbounded)` that
gets a snapshot with the range `[a, b)` therefore has `range_in_table` set to
`[a, b)` while KVStore still has the wide range. `TableCoversBoundedRegion` is
the part of the rule that holds.

`dirty_rule`. A comment in `pickRegionToFlush` (`RegionTable.cpp:394`) states "The
dirty flag should only be removed after data is flush successfully."
`preHandleSnapshot` has taken the rows out of the region of a snapshot. When
writing them throws, `tryFlushRegion` finds an empty region and takes the flag off
before it throws on (`RegionTable.cpp:364-377`); `onSnapshot` ignores the exception
and persists the region (`KVStore.cpp:117-129`). The rows are then nowhere.
`DirtyUntilFlushed` and `PageRowsDurable` are the rule without these rows.

`gc_rule`. A comment in `applyDropPhysicalTable` (`SchemaBuilder.cpp:1006`) states
"In such way our table will be GC-ed later than TiDB, which is safe and correct."
A table is dropped, the sync makes it a tombstone and then turns to the full sync
before it comes to the diff of RECOVER TABLE. The full sync creates storages that
are missing and passes over the tombstone (`SchemaBuilder.cpp:1127`); when the safe
point has moved on, gc drops the table that TiDB has. `GcAfterTiDB` is the rule
without these tombstones.

## Proofs

The theorems hold for every value of the constants: any set of regions and any
number of keys, any plan of tasks, any number of batches, pool threads and
failures.

**Index.** `IndexInvHolds`: the index is `Consistent` with what is registered:
each node holds exactly the regions whose range covers it, both ends of a
registered range are boundaries, and the first and the last boundary are there.
`TypeOKHolds`, `LookupIsExactHolds` and `RegisteredIsRemovableHolds` follow; an
exact lookup is not inductive by itself, since `remove` needs the boundaries.
`EmptyIsClearedHolds` looks at the last removal, after which all nodes are one
empty run that `TryMergeEmpty` clears.

**KVStore.** `KVInvHolds`: `KVInv` is an invariant of `KVSpec`, that is of any
calls with any arguments in any interleaving with crashes. Beside types
(`KVTypeOKHolds`) it says, for every region and every step of every handler, with
which range the region is registered (`IndexedInv`): the target of a merge keeps
its old range until the end, a region that restore or a split has yet to add may
be missing, every other one has the range of the map. `TaskInv` says what the
handler still has to do, `SnapInv` and `SaverInv` what the threads without the
task lock may rely on. From it follow `IndexMatchesRegionsHolds`,
`IndexRemoveNeverThrowsHolds`, `NoZombiePageHolds` and `PageNeverGoesBackHolds`.

**MPP.** Two inductive invariants. `EofInv` follows a batch: as long as its task
has not failed, each of its receivers has it in an encoding job that has still to
write it there, in the stream, in the receiver's buffer, or has taken it
(`Located`); a tunnel is finished after success or with an error on the way
(`TunnelInv`); a reader ends when the stream has ended and is drained, or with an
error (`LoopInv`); `live_connections` counts the readers that have not ended
(`LiveInv`). `EofCompleteHolds` follows. It exempts the sources that a
receiver has lost (`Lost`: process gone, stream broken or call refused), as the
refinement does, whose abstract receiver is told of them by `Lose`. `OnceInv` is the other half: what is in
the stream, in the buffer and taken is distinct and disjoint, and a job has never
written what it has still to write (`OnceInvHolds`, with `TypeOKHolds`; no
timeout is assumed for these). Both together give `ImplementsExchangeHolds`, step
by step: the task's and the receiver's threads take the steps of `Exchange`, pool
threads, handlers and readers stutter. `EofCompleteHolds` and the refinement
assume `HasTimeout`: without a timeout `write()` sends nothing, see below.

**Assumptions** are those on the constants: `MaxKey` is positive, `NoRange` and
`NoRegion` are no ranges and no regions, `BgFlush` is a Boolean; TiDB is no task,
a task has at least one receiver and none twice, the set of tasks is finite, the
pool has a thread. `KVSpec` starts from any pages on disk.

**Only model-checked.**

- Liveness (`Converges`, both `QueryEnds`, `TasksDrain`, `GcCatchesUp`): the
  prover has neither fairness nor ENABLED.
- The properties of `TiFlashNode`, which relate KVStore to the log: `TypeOK`,
  `AppliedMatchesLog`, `TableCoversBoundedRegion` and `NoLogLost` need an
  inductive invariant over the logs of all regions, to be proved next;
  `NoLogicalError`, `DataComplete` and `CaughtUpDisjoint` need beyond that that
  the ranges of the cluster's regions stay disjoint through every split and merge,
  an induction over the log.
- The properties of `LearnerRead` and of `SchemaSync`. The former speak of what a
  prefix of a log makes of the column families, the latter of what lists of steps
  make of the storages: both by induction over a sequence.

## Deviations met on the way

Model checking showed these, beside the findings; the properties are stated so
that they hold beside them, and the comment of each property says which cases it
exempts.

MPP:

- `MPPTunnel::write` without a timeout waits for the connection and returns
  without writing (`MPPHandler.h:66-68`: "it will block if tunnel is not ready").
- `writeErrToAllTunnel` finishes tunnels while encoding jobs still have packets
  to write (`MPPHandler.cpp:146`; `MPPHandler.h:118`: "wait until all the data has
  been transferred"). The stream of the handler that returns is then gone.
- When `prepare` throws, the task stays in the task manager
  (`MPPHandler.cpp:172`): its tunnels wait for ever. `mpp_ends` exempts it.
- A stream that breaks, or a call that is refused, is taken for the end of the
  source (`ExchangeReceiver.cpp:66-92` never calls `Finish`): `EofComplete` and
  `ImplementsExchange` exempt such a source.
- A task without rows may finish and leave the map before its receiver connects,
  which then fails (`MPPHandler.cpp:74`).

Rows:

- A query may move ingested rows to the memory of the storage before
  `func_try_flush` looks for them; the region is then persisted without a flush
  of the storage (`ApplySnapshot.cpp:262`, comment at `:278`).
- A `flushCache` that fails in `handleIngestSST` is swallowed
  (`ApplySnapshot.cpp:270-275`), as is a failing write or flush of the decoded rows
  of a snapshot (`KVStore.cpp:127-129`).
- `pause_flush` of the background flush makes the flush of a snapshot return
  without having written (`RegionTable.cpp:341`). The rows of these three cases are
  in `skipped`, which `PageRowsDurable` and `DirtyUntilFlushed` exempt.
- A snapshot of a region whose rows are in storage makes TxnMergeTree throw when
  they are not older than the GC safe point (`compareAndCompleteSnapshot`,
  `Region.cpp:561`): the process stops, which `NoLogicalError` exempts.
- A file of the write column family that comes before the one of the default
  column family makes the next command on the region throw (`Region.cpp:680`).
- A query writes rows during the removal of the region, without RegionTaskLock
  (`PartitionStreams.cpp:350`, `RegionTable.cpp:301-302`).
- `setTerminated` may notify before a waiter waits (`TMTContext.cpp:94-95`).

Schema:

- RECOVER stores the latest table info and leaves the columns
  (`SchemaBuilder.cpp:916-923`), so an alter that follows finds no change. `stale`
  exempts these columns in `SyncedStoragesMatch`.
- A full sync that fails between partitions and their table leaves partitions
  that no table lists (`Orphan`, exempt in `SyncedStoragesMatch` and `GcAfterTiDB`; the
  comment at `SchemaBuilder.cpp:982` relies on a restart).

## Not modelled

- Regions: terms of log entries, the contents of requests, the format of pages.
- Rows: reads of TxnMergeTree, the rows that `compareAndCompleteSnapshot` deletes
  (its exception is modelled), in-memory locks and async commit, GC of rows, locks
  to bypass, several regions in one query.
- MPP: decoding failures, a second dispatch or connection for the same task.
- Schema: several databases, names and renames, SetTiFlashReplica,
  ExchangeTablePartition, views.
- PageStorage, DeltaTree, the background pool and the table locks.
- The query engine that comes from ClickHouse (parsers, functions, block streams,
  MergeTree) is stateless or not specific to TiFlash.

## Plan

1. `TiFlashNodeProofs`: every step of the node is a step of `KVSpec`, then
   `AppliedMatchesLog` and `TableCoversBoundedRegion` for every cluster.
2. PageStorage: versions, snapshots, references and GC, refined from a map with
   snapshots; recovery.
3. DeltaTree: one segment with delta and stable, then splits and merges of
   segments; write stall.
4. The background pool and the table locks.
