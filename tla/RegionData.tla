----------------------------- MODULE RegionData -----------------------------
(***************************************************************************)
(* The rows of one region between the Raft log and the disk: the column    *)
(* families of the region (RegionData), the storage engine in memory and   *)
(* on disk, the page of the region, and the threads that move rows: the    *)
(* thread of the proxy that applies commands and snapshots, and the        *)
(* background flush of RegionTable.  A step ends where the code releases a *)
(* lock that another thread may take, or where it has written to disk.     *)
(*                                                                         *)
(* BgFlush is FALSE for DeltaTree, which writes committed rows to storage  *)
(* at once, in memory, and has them on disk after flushCache; it is TRUE   *)
(* for TxnMergeTree, whose parts are on disk when they are written and     *)
(* whose rows wait in the region for the background flush.                 *)
(***************************************************************************)
EXTENDS TxnLog

CONSTANT NoRegion   \* no region in the map; no page

BgFlush == scenario.bgFlush
MaxCrashes == scenario.crashes      \* bound on restarts of the process
MaxSnapshots == scenario.snapshots  \* bound on snapshots that the leader sends
MaxDestroys == scenario.destroys    \* bound on removals of the peer
Failing == scenario.failing         \* calls of the storage engine that may throw: "write", "flush"
MaxFailures == scenario.failures    \* bound on their exceptions

VARIABLES
    region,     \* the Region in the map of KVStore
    page,       \* what RegionPersister has on disk
    view,       \* rows that a reader of the storage engine sees
    disk,       \* rows of the storage engine that survive a crash
    table,      \* RegionTable: [dirty, pause] of the region
    apply,      \* thread of the proxy: [pc, ret, rows]
    bg,         \* thread of the background flush: [pc, inst, rows]
    proxy,      \* [handed, acked, snapshot, doomed]: what the proxy remembers
    instances,  \* Region objects made so far
    faults,     \* [crashes, snapshots, destroys, failures] so far
    failed,     \* why a handler has thrown (exit(-1)), or "no"
    skipped     \* history: rows that the code left behind without a write or a flush

dataVars ==
    <<region, page, view, disk, table, apply, bg, proxy, instances, faults, failed, skipped>>

Alive == failed = "no"

Idle == [pc |-> "idle", ret |-> "idle", rows |-> {}]
BgIdle == [pc |-> "idle", inst |-> 0, rows |-> {}]

\* cf_data_size counts the default and the write CF.
DataSize(r) == Cardinality(r.default) + Cardinality(r.write)

\* A write record without its value: readDataByWriteIt throws.
Unreadable(r) == r.write # Whole(r.write, r.default)

\* Mutant: the values of rows that are still locked go too.
RemoveAllValues(r, rows) ==
    [r EXCEPT !.write = @ \ rows, !.default = IF rows = {} THEN @ ELSE {}]

\* RemoveRegionCommitCache, removeDataByWriteIt
RemoveCommitted(r, rows) ==
    [r EXCEPT !.write = @ \ rows, !.default = @ \ (rows \cap r.write)]

PageOf(r) == [state |-> r.state, version |-> r.version, applied |-> r.applied,
              default |-> r.default, write |-> r.write, lock |-> r.lock]
RegionOf(p, inst) ==
    [inst |-> inst, flag |-> 1, state |-> p.state, version |-> p.version, applied |-> p.applied,
     default |-> p.default, write |-> p.write, lock |-> p.lock]

\* What the leader sends as the snapshot at index n.  The committed rows are
\* decoded ahead (preHandleSnapshot) and then no longer part of the new region.
SnapshotRows(n) == CommittedAt(n) \cap RangeOf(VersionAt(n))
SnapshotPage(n) ==
    LET range == RangeOf(VersionAt(n)) IN
    [state |-> "Normal", version |-> VersionAt(n), applied |-> n,
     default |-> (DefaultAt(n) \cap range) \ SnapshotRows(n), write |-> {},
     lock |-> LockAt(n) \cap range]

DataInit ==
    /\ region = [inst |-> 1, flag |-> 1, state |-> "Normal", version |-> 0, applied |-> 0,
                 default |-> {}, write |-> {}, lock |-> {}]
    /\ page = PageOf(region)
    /\ view = {} /\ disk = {}
    /\ table = [dirty |-> FALSE, pause |-> FALSE]
    /\ apply = Idle /\ bg = BgIdle
    /\ proxy = [handed |-> 0, acked |-> 0, snapshot |-> 0, doomed |-> FALSE]
    /\ instances = 1
    /\ faults = [crashes |-> 0, snapshots |-> 0, destroys |-> 0, failures |-> 0]
    /\ failed = "no"
    /\ skipped = {}

-----------------------------------------------------------------------------
(* Pieces of steps.                                                        *)

\* An exception that leaves a handler ends the process.
Throw(why) ==
    /\ failed' = why
    /\ UNCHANGED <<region, page, view, disk, table, apply, bg, proxy, instances, faults, skipped>>

Goto(pc) == apply' = [apply EXCEPT !.pc = pc, !.rows = {}]
TryFlush(ret) == apply' = [pc |-> "scan", ret |-> ret, rows |-> {}]
\* TiFlashApplyRes::None
Done(index) == apply' = Idle /\ proxy' = [proxy EXCEPT !.handed = index]

\* writeRegionDataToStorage
WriteStorage(rows) ==
    /\ view' = view \cup rows
    /\ disk' = IF BgFlush THEN disk \cup rows ELSE disk

\* tryFlushRegionCacheInStorage
FlushStorage == disk' = (IF BgFlush THEN disk ELSE view)

\* An exception of the storage engine, while there may be one.  flushCache is
\* called for DeltaTree only.
StorageFails(call) ==
    /\ call \in Failing /\ (call = "flush" => ~BgFlush)
    /\ faults.failures < MaxFailures
    /\ faults' = [faults EXCEPT !.failures = @ + 1]

\* The command that the proxy hands over next, under the region's task lock.
Handing(cmd) ==
    /\ Alive /\ apply.pc = "idle" /\ proxy.snapshot = 0 /\ ~proxy.doomed
    /\ region # NoRegion /\ proxy.handed < Last
    /\ log[proxy.handed + 1].cmd \in cmd

Index == proxy.handed + 1

\* RegionData::insert and remove of one command; TRUE in Clashes where insert
\* finds an existing key and throws.
Put(r, cf, t) == [r EXCEPT ![cf] = @ \cup {t}]
Exec(r, e) ==
    LET value == IF e.txn \in Long THEN Put(r, "default", e.txn) ELSE r IN
    CASE e.cmd = "prewrite" -> Put(value, "lock", e.txn)
      [] e.cmd = "commit" -> Put([r EXCEPT !.lock = @ \ {e.txn}], "write", e.txn)
      [] e.cmd = "rollback" -> [r EXCEPT !.lock = @ \ {e.txn}, !.default = @ \ {e.txn}]
      [] e.cmd = "ingest" ->
            [r EXCEPT !.default = IF "default" \in e.cfs THEN @ \cup {e.txn} ELSE @,
                      !.write = IF "write" \in e.cfs THEN @ \cup {e.txn} ELSE @]
      [] OTHER -> r
Clashes(r, e) ==
    \/ e.cmd = "prewrite" /\ e.txn \in r.default
    \/ e.cmd = "commit" /\ e.txn \in r.write
    \/ e.cmd = "ingest" /\ \E cf \in e.cfs : e.txn \in r[cf]

-----------------------------------------------------------------------------
(* Commands.                                                               *)

\* The exception of a command: of insert, or of the flush that follows.
Reason(r, e) == IF Clashes(r, e) THEN "clash" ELSE "unreadable"

\* Mutant: the index is counted twice.
ApplyNextIndex(e) ==
    /\ WriteStorage(Exec(region, e).write)
    /\ region' = [RemoveCommitted(Exec(region, e), Exec(region, e).write) EXCEPT !.applied = Index + 1]

\* Region::handleWriteRaftCmd, all under the region's mutex: the command, with
\* DeltaTree the move of every committed row to storage, the applied index.
ApplyCommand(e) ==
    LET done == Exec(region, e) IN
    IF Index <= region.applied THEN UNCHANGED <<region, view, disk>>
    ELSE IF BgFlush
    THEN /\ region' = [done EXCEPT !.applied = Index]
         /\ UNCHANGED <<view, disk>>
    ELSE /\ WriteStorage(done.write)
         /\ region' = [RemoveCommitted(done, done.write) EXCEPT !.applied = Index]

\* Mutant: commands that have been applied are executed again.
CommandThrowsAgain(e) == Clashes(region, e) \/ (~BgFlush /\ Unreadable(Exec(region, e)))

CommandThrows(e) ==
    /\ Index > region.applied
    /\ Clashes(region, e) \/ (~BgFlush /\ Unreadable(Exec(region, e)))

\* KVStore::handleWriteRaftCmd, with updateRegion
HandleWriteRaftCmd ==
    /\ Handing({"prewrite", "commit", "rollback"})
    /\ LET e == log[Index] IN
       \/ CommandThrows(e) /\ Throw(Reason(region, e))
       \/ /\ ~CommandThrows(e)
          /\ ApplyCommand(e)
          /\ table' = [table EXCEPT !.dirty = @ \/ DataSize(region') > 0]
          /\ Done(Index)
          /\ UNCHANGED <<page, bg, instances, faults, failed, skipped>>

\* handleUselessAdminRaftCmd: CompactLog is ignored within the period after
\* the last one; else the storage is flushed and the region persisted.
HandleUselessAdminRaftCmd ==
    /\ Handing({"compact"})
    /\ LET e == log[Index] IN
       \/ CommandThrows(e) /\ Throw(Reason(region, e))
       \/ /\ ~CommandThrows(e)
          /\ ApplyCommand(e)
          /\ \/ Goto("sync") /\ UNCHANGED proxy
             \/ Done(Index)
          /\ UNCHANGED <<page, table, bg, instances, faults, failed, skipped>>

\* A split: exec, then handle_batch_split, which flushes the rows of the new
\* region and persists it before persist_and_sync(curr_region).
HandleBatchSplit ==
    /\ Handing({"split"}) /\ Index > region.applied
    /\ LET high == [region EXCEPT !.default = @ \cap High, !.write = @ \cap High] IN
       \/ ~BgFlush /\ Unreadable(high) /\ Throw("unreadable")
       \/ /\ BgFlush \/ ~Unreadable(high)
          /\ region' = [region EXCEPT !.version = 1, !.applied = Index,
                           !.default = @ \ High, !.write = @ \ High, !.lock = @ \ High]
          /\ table' = [table EXCEPT !.dirty = @ \/ DataSize(region') > 0]
          /\ IF BgFlush THEN UNCHANGED <<view, disk>> ELSE WriteStorage(high.write)
          /\ Goto("sync")
          /\ UNCHANGED <<page, bg, proxy, instances, faults, failed, skipped>>

\* The split has been applied: IndexError, answered with Persist.
SplitAgain ==
    /\ Handing({"split"}) /\ Index <= region.applied
    /\ Goto("reply")
    /\ UNCHANGED <<region, page, view, disk, table, bg, proxy, instances, faults, failed, skipped>>

\* Mutant: the region is persisted without a flush of the storage.
SyncNothing ==
    /\ Alive /\ apply.pc = "sync"
    /\ Goto("persist")
    /\ UNCHANGED <<region, page, view, disk, table, bg, proxy, instances, faults, failed, skipped>>

\* persist_and_sync, first half and second half
Sync ==
    /\ Alive /\ apply.pc = "sync"
    /\ FlushStorage
    /\ Goto("persist")
    /\ UNCHANGED <<region, page, view, table, bg, proxy, instances, faults, failed, skipped>>

PersistRegion ==
    /\ Alive /\ apply.pc = "persist"
    /\ page' = PageOf(region)
    /\ Goto("reply")
    /\ UNCHANGED <<region, view, disk, table, bg, proxy, instances, faults, failed, skipped>>

\* TiFlashApplyRes::Persist, or the end of a snapshot: the proxy writes down
\* its apply state.
Reply ==
    /\ Alive /\ apply.pc = "reply"
    /\ LET n == IF proxy.snapshot # 0 THEN proxy.snapshot ELSE Index IN
       proxy' = [handed |-> n, acked |-> n, snapshot |-> 0, doomed |-> FALSE]
    /\ apply' = Idle
    /\ UNCHANGED <<region, page, view, disk, table, bg, instances, faults, failed, skipped>>

\* The other half leaves this node: handleDestroy of the region born in the
\* split, which the proxy calls once the split has been acknowledged.
OtherHalfRemoved ==
    /\ Splits /\ ~BgFlush /\ Alive
    /\ page # NoRegion /\ page.version = 1 /\ VersionAt(proxy.acked) = 1
    /\ view \cap High # {}
    /\ view' = view \ High
    /\ disk' = disk \ High
    /\ UNCHANGED <<region, page, table, apply, bg, proxy, instances, faults, failed, skipped>>

-----------------------------------------------------------------------------
(* RegionTable::tryFlushRegion by the thread of the proxy.  In the order   *)
(* of its locks: pause_flush and the scan of the region, the write to      *)
(* storage, the removal of what was written, dirty_regions.                *)

\* An exception of the flush: handleIngestSST ignores it and skips the flush
\* of the storage, the other callers do not catch it.
FlushThrows(why) ==
    IF apply.ret \in {"sync1", "sync2"}
    THEN /\ Goto(IF apply.ret = "sync1" THEN "ingest" ELSE "ingest_skip")
         /\ table' = [table EXCEPT !.pause = FALSE, !.dirty = DataSize(region) > 0]
         /\ UNCHANGED failed
    ELSE failed' = why /\ UNCHANGED <<apply, table>>

FlushScan ==
    /\ Alive /\ apply.pc = "scan"
    /\ IF table.pause
       THEN Goto(apply.ret) /\ UNCHANGED <<table, failed>>
       ELSE IF Unreadable(region) THEN FlushThrows("unreadable")
       ELSE /\ table' = [table EXCEPT !.pause = TRUE]
            /\ apply' = [apply EXCEPT !.pc = "write", !.rows = region.write]
            /\ UNCHANGED failed
    /\ UNCHANGED <<region, page, view, disk, bg, proxy, instances, faults, skipped>>

FlushWrite ==
    /\ Alive /\ apply.pc = "write"
    /\ \/ /\ WriteStorage(apply.rows)
          /\ apply' = [apply EXCEPT !.pc = "remove"]
          /\ UNCHANGED <<table, faults, failed>>
       \/ StorageFails("write") /\ FlushThrows("storage") /\ UNCHANGED <<view, disk>>
    /\ UNCHANGED <<region, page, bg, proxy, instances, skipped>>

FlushRemove ==
    /\ Alive /\ apply.pc = "remove"
    /\ region' = RemoveCommitted(region, apply.rows)
    /\ table' = [pause |-> FALSE, dirty |-> DataSize(region') > 0]
    /\ Goto(apply.ret)
    /\ UNCHANGED <<page, view, disk, bg, proxy, instances, faults, failed, skipped>>

-----------------------------------------------------------------------------
(* KVStore::handleIngestSST.                                               *)

\* func_try_flush before the ingest, where there are rows
IngestStart ==
    /\ Handing({"ingest"})
    /\ IF region.write = {} THEN Goto("ingest") ELSE TryFlush("sync1")
    /\ UNCHANGED <<region, page, view, disk, table, bg, proxy, instances, faults, failed, skipped>>

\* Mutant: the rows are written, the storage is not flushed.
IngestWithoutSync ==
    /\ Alive /\ apply.pc \in {"sync1", "sync2"}
    /\ Goto(IF apply.pc = "sync1" THEN "ingest" ELSE "ingest_end")
    /\ UNCHANGED <<region, page, view, disk, table, bg, proxy, instances, faults, failed, skipped>>

\* The second half of func_try_flush: flushCache of the storage, with any
\* exception ignored
IngestSync ==
    /\ Alive /\ apply.pc \in {"sync1", "sync2"}
    /\ \/ /\ FlushStorage
          /\ Goto(IF apply.pc = "sync1" THEN "ingest" ELSE "ingest_end")
          /\ UNCHANGED faults
       \/ /\ StorageFails("flush")
          /\ Goto(IF apply.pc = "sync1" THEN "ingest" ELSE "ingest_skip")
          /\ UNCHANGED disk
    /\ UNCHANGED <<region, page, view, table, bg, proxy, instances, failed, skipped>>

\* Region::handleIngestSST, under the region's mutex
Ingest ==
    /\ Alive /\ apply.pc = "ingest"
    /\ LET e == log[Index] IN
       \/ Index > region.applied /\ Clashes(region, e) /\ Throw("clash")
       \/ /\ Index > region.applied => ~Clashes(region, e)
          /\ region' = IF Index <= region.applied THEN region
                       ELSE [Exec(region, e) EXCEPT !.applied = Index]
          /\ Goto("ingested")
          /\ UNCHANGED <<page, view, disk, table, bg, proxy, instances, faults, failed, skipped>>

\* func_try_flush again; a reader may have moved the rows since
IngestFlush ==
    /\ Alive /\ apply.pc = "ingested"
    /\ IF region.write = {} THEN Goto("ingest_skip") ELSE TryFlush("sync2")
    /\ UNCHANGED <<region, page, view, disk, table, bg, proxy, instances, faults, failed, skipped>>

\* The page is written only when the region has no data left, but also when
\* func_try_flush has not flushed the storage.
IngestEnd ==
    /\ Alive /\ apply.pc \in {"ingest_end", "ingest_skip"}
    /\ IF DataSize(region) > 0 THEN Done(Index) /\ UNCHANGED <<page, skipped>>
       ELSE /\ page' = PageOf(region)
            /\ skipped' = IF apply.pc = "ingest_skip" THEN skipped \cup (view \ disk) ELSE skipped
            /\ Goto("reply")
            /\ UNCHANGED proxy
    /\ UNCHANGED <<region, view, disk, table, bg, instances, faults, failed>>

-----------------------------------------------------------------------------
(* Snapshots: preHandleSnapshot, tryApplySnapshot, onSnapshot.             *)

\* The leader sends a snapshot to a peer that is behind, or new.  The proxy
\* keeps it until it has been applied, also over a crash.
SendSnapshot ==
    /\ Alive /\ faults.snapshots < MaxSnapshots
    /\ apply.pc = "idle" /\ proxy.snapshot = 0 /\ ~proxy.doomed
    /\ Last > 0 /\ (region = NoRegion \/ proxy.handed < Last)
    /\ proxy.handed >= (IF region = NoRegion THEN 0 ELSE region.applied)
    /\ proxy' = [proxy EXCEPT !.snapshot = Last]
    /\ faults' = [faults EXCEPT !.snapshots = @ + 1]
    /\ UNCHANGED <<region, page, view, disk, table, apply, bg, instances, failed, skipped>>

Snapshotting(pc) == Alive /\ apply.pc = pc /\ proxy.snapshot # 0

\* Decoding throws where a write record has no value (GenRegionPreDecodeBlockData).
\* A snapshot that is there already is ignored; else the old region is Applying.
SnapshotStart ==
    /\ Snapshotting("idle")
    /\ LET n == proxy.snapshot IN
       \/ WriteAt(n) # CommittedAt(n) /\ Throw("unreadable")
       \/ /\ WriteAt(n) = CommittedAt(n)
          /\ IF region = NoRegion THEN Goto("snap_delete") /\ UNCHANGED region
             ELSE IF region.applied = n THEN Goto("reply") /\ UNCHANGED region
             ELSE /\ region' = [region EXCEPT !.state = "Applying"]
                  /\ Goto("snap_flag")
          /\ UNCHANGED <<page, view, disk, table, bg, proxy, instances, faults, failed, skipped>>

\* The second statement of setStateApplying; then the old region is flushed.
SnapshotFlag ==
    /\ Snapshotting("snap_flag")
    /\ region' = [region EXCEPT !.flag = @ + 1]
    /\ TryFlush("snap_sync")
    /\ UNCHANGED <<page, view, disk, table, bg, proxy, instances, faults, failed, skipped>>

SnapshotSyncOld ==
    /\ Snapshotting("snap_sync")
    /\ FlushStorage
    /\ Goto("snap_persist")
    /\ UNCHANGED <<region, page, view, table, bg, proxy, instances, faults, failed, skipped>>

SnapshotPersistOld ==
    /\ Snapshotting("snap_persist")
    /\ page' = PageOf(region)
    /\ Goto("snap_delete")
    /\ UNCHANGED <<region, view, disk, table, bg, proxy, instances, faults, failed, skipped>>

\* DeltaTree deletes the range of the new region, in memory.  For TxnMergeTree
\* compareAndCompleteSnapshot looks for the rows of the storage among those of
\* the new region, which are no longer there, and throws at a row that is
\* younger than the GC safe point, as every row of the model is.
SnapshotDeleteRange ==
    /\ Snapshotting("snap_delete")
    /\ LET old == view \cap RangeOf(VersionAt(proxy.snapshot)) IN
       \/ BgFlush /\ old # {} /\ Throw("younger")
       \/ /\ BgFlush => old = {}
          /\ view' = view \ old
          /\ Goto("snap_scan")
          /\ UNCHANGED <<region, page, disk, table, bg, proxy, instances, faults, failed, skipped>>

\* tryFlushRegion of the new region returns at once under pause_flush, and the
\* rows that were decoded ahead go with it.
SnapshotFlush ==
    /\ Snapshotting("snap_scan")
    /\ IF table.pause
       THEN Goto("snap_sync_new") /\ skipped' = skipped \cup SnapshotRows(proxy.snapshot) /\ UNCHANGED table
       ELSE Goto("snap_write") /\ table' = [table EXCEPT !.pause = TRUE] /\ UNCHANGED skipped
    /\ UNCHANGED <<region, page, view, disk, bg, proxy, instances, faults, failed>>

\* onSnapshot ignores every exception of the flush.
SnapshotWrite ==
    /\ Snapshotting("snap_write")
    /\ table' = [pause |-> FALSE, dirty |-> DataSize(SnapshotPage(proxy.snapshot)) > 0]
    /\ \/ /\ WriteStorage(SnapshotRows(proxy.snapshot))
          /\ Goto("snap_sync_new")
          /\ UNCHANGED <<faults, skipped>>
       \/ /\ StorageFails("write")
          /\ skipped' = skipped \cup SnapshotRows(proxy.snapshot)
          /\ Goto("snap_assign")
          /\ UNCHANGED <<view, disk>>
    /\ UNCHANGED <<region, page, bg, proxy, instances, failed>>

\* Mutant: the new region is persisted without a flush of the storage.
SnapshotWithoutSync ==
    /\ Snapshotting("snap_sync_new")
    /\ Goto("snap_assign")
    /\ UNCHANGED <<region, page, view, disk, table, bg, proxy, instances, faults, failed, skipped>>

SnapshotSyncNew ==
    /\ Snapshotting("snap_sync_new")
    /\ Goto("snap_assign")
    /\ \/ FlushStorage /\ UNCHANGED <<faults, skipped>>
       \/ StorageFails("flush") /\ skipped' = skipped \cup (view \ disk) /\ UNCHANGED disk
    /\ UNCHANGED <<region, page, view, table, bg, proxy, instances, failed>>

\* assignRegion into the old object, or a new one in the map; persist;
\* shrinkRegionRange.
SnapshotAssign ==
    /\ Snapshotting("snap_assign")
    /\ LET new == SnapshotPage(proxy.snapshot) IN
       /\ region' = [RegionOf(new, IF region = NoRegion THEN instances + 1 ELSE region.inst)
                        EXCEPT !.flag = IF region = NoRegion THEN 1 ELSE region.flag]
       /\ page' = new
       /\ table' = [table EXCEPT !.dirty = @ \/ DataSize(new) > 0]
    /\ instances' = IF region = NoRegion THEN instances + 1 ELSE instances
    /\ Goto("reply")
    /\ UNCHANGED <<view, disk, bg, proxy, faults, failed, skipped>>

-----------------------------------------------------------------------------
(* Removal of the peer, background flush, crash.                           *)

\* handleDestroy: the region is Tombstone and leaves the map ...
HandleDestroy ==
    /\ Alive /\ apply.pc = "idle" /\ proxy.snapshot = 0 /\ region # NoRegion
    /\ proxy.doomed \/ (faults.destroys < MaxDestroys /\ proxy.handed >= region.applied)
    /\ faults' = IF proxy.doomed THEN faults ELSE [faults EXCEPT !.destroys = @ + 1]
    /\ proxy' = [proxy EXCEPT !.doomed = TRUE]
    /\ region' = NoRegion
    /\ apply' = [pc |-> "drop", ret |-> "idle", rows |-> RangeOf(region.version)]
    /\ UNCHANGED <<page, view, disk, table, bg, instances, failed, skipped>>

\* ... then its page is dropped ...
DropPage ==
    /\ Alive /\ apply.pc = "drop"
    /\ page' = NoRegion
    /\ apply' = [apply EXCEPT !.pc = "clear"]
    /\ UNCHANGED <<region, view, disk, table, bg, proxy, instances, faults, failed, skipped>>

\* ... and the range in RegionTable is deleted from storage, and flushed.
RemoveObsoleteData ==
    /\ Alive /\ apply.pc = "clear"
    /\ view' = IF BgFlush THEN view ELSE view \ apply.rows
    /\ disk' = IF BgFlush THEN disk ELSE view'
    /\ table' = [dirty |-> FALSE, pause |-> FALSE]
    /\ apply' = Idle
    /\ proxy' = [handed |-> 0, acked |-> 0, snapshot |-> 0, doomed |-> FALSE]
    /\ UNCHANGED <<region, page, bg, instances, faults, failed, skipped>>

\* tryFlushRegions: a dirty region whose thresholds are reached.  An exception
\* of the scan is caught by the background pool.
BgScan ==
    /\ Alive /\ BgFlush /\ bg.pc = "idle"
    /\ table.dirty /\ ~table.pause /\ region # NoRegion /\ ~Unreadable(region)
    /\ table' = [table EXCEPT !.pause = TRUE]
    /\ bg' = [pc |-> "write", inst |-> region.inst, rows |-> region.write]
    /\ UNCHANGED <<region, page, view, disk, apply, proxy, instances, faults, failed, skipped>>

\* After an exception tryFlushRegion still brings dirty_regions up to date.
BgWrite ==
    /\ Alive /\ bg.pc = "write"
    /\ \/ WriteStorage(bg.rows) /\ bg' = [bg EXCEPT !.pc = "remove"] /\ UNCHANGED faults
       \/ StorageFails("write") /\ bg' = [bg EXCEPT !.pc = "end"] /\ UNCHANGED <<view, disk>>
    /\ UNCHANGED <<region, page, table, apply, proxy, instances, failed, skipped>>

\* The object that was scanned: the region in the map, or one removed since
Same(inst) == region # NoRegion /\ region.inst = inst

\* Mutant: rows that were committed after the scan are removed as well.
BgRemoveAll ==
    /\ Alive /\ bg.pc = "remove"
    /\ region' = IF Same(bg.inst) THEN RemoveCommitted(region, region.write) ELSE region
    /\ bg' = [bg EXCEPT !.pc = IF Same(bg.inst) /\ DataSize(region') = 0 THEN "persist" ELSE "end"]
    /\ UNCHANGED <<page, view, disk, table, apply, proxy, instances, faults, failed, skipped>>

BgRemove ==
    /\ Alive /\ bg.pc = "remove"
    /\ region' = IF Same(bg.inst) THEN RemoveCommitted(region, bg.rows) ELSE region
    /\ bg' = [bg EXCEPT !.pc = IF Same(bg.inst) /\ DataSize(region') = 0 THEN "persist" ELSE "end"]
    /\ UNCHANGED <<page, view, disk, table, apply, proxy, instances, faults, failed, skipped>>

\* tryPersist of the region that is in the map by now
BgPersist ==
    /\ Alive /\ bg.pc = "persist"
    /\ page' = IF region = NoRegion THEN page ELSE PageOf(region)
    /\ bg' = [bg EXCEPT !.pc = "end"]
    /\ UNCHANGED <<region, view, disk, table, apply, proxy, instances, faults, failed, skipped>>

\* Mutant: the dirty flag is cleared whatever is left.
BgEndClean ==
    /\ Alive /\ bg.pc = "end"
    /\ table' = [pause |-> FALSE, dirty |-> FALSE]
    /\ bg' = BgIdle
    /\ UNCHANGED <<region, page, view, disk, apply, proxy, instances, faults, failed, skipped>>

BgEnd ==
    /\ Alive /\ bg.pc = "end"
    /\ table' = [pause |-> FALSE, dirty |-> Same(bg.inst) /\ DataSize(region) > 0]
    /\ bg' = BgIdle
    /\ UNCHANGED <<region, page, view, disk, apply, proxy, instances, faults, failed, skipped>>

\* DeltaTree flushes its delta in the background too; only a crash shows it.
StorageFlush ==
    /\ Alive /\ ~BgFlush /\ disk # view /\ faults.crashes < MaxCrashes
    /\ disk' = view
    /\ UNCHANGED <<region, page, view, table, apply, bg, proxy, instances, faults, failed, skipped>>

\* The process ends and starts again: restore reads the pages, the proxy hands
\* over again what it has not written down.
Crash ==
    /\ Alive /\ faults.crashes < MaxCrashes
    /\ faults' = [faults EXCEPT !.crashes = @ + 1]
    /\ region' = IF page = NoRegion THEN NoRegion ELSE RegionOf(page, instances + 1)
    /\ instances' = instances + 1
    /\ view' = disk
    /\ table' = [dirty |-> page # NoRegion /\ DataSize(page) > 0, pause |-> FALSE]
    /\ apply' = Idle /\ bg' = BgIdle
    /\ proxy' = [proxy EXCEPT !.handed = proxy.acked, !.doomed = @ /\ page # NoRegion]
    /\ UNCHANGED <<page, disk, failed, skipped>>

DataNext ==
    \/ HandleWriteRaftCmd \/ HandleUselessAdminRaftCmd
    \/ HandleBatchSplit \/ SplitAgain \/ Sync \/ PersistRegion \/ Reply \/ OtherHalfRemoved
    \/ FlushScan \/ FlushWrite \/ FlushRemove
    \/ IngestStart \/ IngestSync \/ Ingest \/ IngestFlush \/ IngestEnd
    \/ SendSnapshot \/ SnapshotStart \/ SnapshotFlag \/ SnapshotSyncOld \/ SnapshotPersistOld
    \/ SnapshotDeleteRange \/ SnapshotFlush \/ SnapshotWrite \/ SnapshotSyncNew \/ SnapshotAssign
    \/ HandleDestroy \/ DropPage \/ RemoveObsoleteData
    \/ BgScan \/ BgWrite \/ BgRemove \/ BgPersist \/ BgEnd
    \/ StorageFlush
=============================================================================
