------------------------------ MODULE KVStore ------------------------------
(***************************************************************************)
(* The region manager of a TiFlash node: KVStore with its region map, its  *)
(* range index and its persister, Region/RegionMeta, and RegionTable. The  *)
(* actions are the handlers that the Raft proxy calls; TiFlashNode says    *)
(* which call may come when.                                               *)
(*                                                                         *)
(* A handler that holds task_mutex for longer than one write to disk is    *)
(* cut into steps, one per write: `task` is the handler that holds the     *)
(* lock and what it has left to do. Readers of the map, the background     *)
(* persister and a crash come between the steps.                           *)
(*                                                                         *)
(* Rows are abstracted to `stored`, the keys whose rows storage holds.     *)
(***************************************************************************)
EXTENDS RangeIndex

CONSTANTS
    NoRegion,   \* stands for a null RegionPtr
    BgFlush     \* FALSE: DeltaTree with disable_bg_flush, TRUE: TxnMergeTree

RAFT_INIT_LOG_INDEX == 5

PeerState == {"Normal", "Applying", "Merging", "Tombstone"}
RegionMeta == [range : RegionRange, ver : Nat, conf : Nat]

\* metapb::Region and RegionState, apply_state.applied_index,
\* merge_state.commit, and the id of the peer on this store.
Region == [meta : RegionMeta, state : PeerState, applied : Nat, commit : Nat, peer : Nat]

ASSUME NoRegionAssumption == NoRegion \notin Region \cup RegionMeta \cup RegionID
ASSUME BgFlushAssumption == BgFlush \in BOOLEAN

VARIABLES
    regions,    \* RegionManager::regions
    root,       \* RegionsRangeIndex::root
    indexed,    \* history: the range each region is registered with in root
    table,      \* RegionTable: range_in_table of each InternalRegion
    task,       \* the handler under task_mutex
    snap,       \* the thread in tryApplySnapshot
    saver,      \* the thread in tryPersist, which holds no lock at first
    reply,      \* handlers that returned, and whose answer the proxy has not used
    pages,      \* on disk: RegionPersister's page of each region
    stored,     \* on disk: keys whose rows storage holds
    failed      \* a handler threw, upon which the process exits

memVars == <<regions, root, indexed, table>>
diskVars == <<pages, stored>>
kvVars == <<memVars, diskVars, task, snap, saver, reply, failed>>

Regions == [RegionID -> Region \cup {NoRegion}]
Ranges == [RegionID -> RegionRange \cup {NoRange}]

TaskKind == {"idle", "restore", "split", "split_persist", "merge", "drop", "clear", "reindex"}
Task == [kind : TaskKind, id : RegionID \cup {NoRegion}, victim : RegionID \cup {NoRegion},
         remove_data : BOOLEAN, ori : RegionRange \cup {NoRange},
         unindexed : SUBSET RegionID, unpersisted : SUBSET RegionID]
SnapStage == {"idle", "apply", "check", "delete", "flush", "assign"}
Snap == [stage : SnapStage, region : Region \cup {NoRegion}, id : RegionID \cup {NoRegion},
         old : BOOLEAN, old_index : Nat, removed : BOOLEAN]
Saver == [id : RegionID \cup {NoRegion}, buffer : Region \cup {NoRegion}, removed : BOOLEAN]

\* A task is none, restore, a split, a merge or removeRegion(victim).
Idle == [kind |-> "idle", id |-> NoRegion, victim |-> NoRegion, remove_data |-> FALSE,
         ori |-> NoRange, unindexed |-> {}, unpersisted |-> {}]
Restoring == [kind |-> "restore", id |-> NoRegion, victim |-> NoRegion, remove_data |-> FALSE, ori |-> NoRange,
              unindexed |-> {id \in RegionID : pages[id] # NoRegion}, unpersisted |-> {}]
Splitting(id, births) == [kind |-> "split", id |-> id, victim |-> NoRegion, remove_data |-> FALSE,
                          ori |-> NoRange, unindexed |-> births, unpersisted |-> births]
Merging(id, source, ori) == [kind |-> "merge", id |-> id, victim |-> source, remove_data |-> FALSE,
                             ori |-> ori, unindexed |-> {}, unpersisted |-> {}]
Removing(id, victim, remove_data) == [kind |-> "drop", id |-> id, victim |-> victim,
                                      remove_data |-> remove_data, ori |-> NoRange,
                                      unindexed |-> {}, unpersisted |-> {}]
Applying(stage, id, new, old_index) == [stage |-> stage, region |-> new, id |-> id, old |-> stage = "apply",
                                        old_index |-> old_index, removed |-> FALSE]
NoSnap == [stage |-> "idle", region |-> NoRegion, id |-> NoRegion, old |-> FALSE, old_index |-> 0,
           removed |-> FALSE]
NoSaver == [id |-> NoRegion, buffer |-> NoRegion, removed |-> FALSE]

-----------------------------------------------------------------------------
(***************************************************************************)
(* Region and RegionMeta: what a command does to one region.               *)
(***************************************************************************)

IsPendingRemove(region) == region.state = "Tombstone"

\* A region made by a split or by a snapshot.
NewRegion(meta, peer, applied) ==
    [meta |-> meta, state |-> "Normal", applied |-> applied, commit |-> 0, peer |-> peer]

\* What a command sets: the meta, the state, merge_state and applied_index.
After(region, meta, state, commit, index) ==
    [meta |-> meta, state |-> state, applied |-> index, commit |-> commit, peer |-> region.peer]

Meta(range, ver, conf) == [range |-> range, ver |-> ver, conf |-> conf]

\* Mutant: the removal of this store's peer goes unnoticed.
ExecChangePeerStays(region, meta, peer, index) == After(region, meta, "Normal", 0, index)

\* `peer` is this store's peer in the new meta, 0 if it has none. A peer that
\* was removed and added again has a new id, so it too counts as removed.
ExecChangePeer(region, meta, peer, index) ==
    After(region, meta, IF peer = region.peer THEN "Normal" ELSE "Tombstone", 0, index)

ExecBatchSplit(region, meta, index) == After(region, meta, "Normal", 0, index)

ExecPrepareMerge(region, index) ==
    After(region, Meta(region.meta.range, region.meta.ver + 1, region.meta.conf + 1),
          "Merging", index, index)

RollbackMergeThrows(region, commit) == region.state # "Merging" \/ region.commit # commit
ExecRollbackMerge(region, index) ==
    After(region, Meta(region.meta.range, region.meta.ver + 1, region.meta.conf), "Normal", 0, index)

\* Mutant: left and right are swapped.
MergedRangeSwapped(range, source) ==
    IF source.e = range.s
    THEN [s |-> range.s, e |-> source.e]
    ELSE [s |-> source.s, e |-> range.e]

MergedRange(range, source) ==
    IF source.e = range.s
    THEN [s |-> source.s, e |-> range.e]
    ELSE [s |-> range.s, e |-> source.e]

\* checkBeforeCommitMerge, and RegionRangeKeys of the merged range.
CommitMergeThrows(region, source, source_meta) ==
    \/ source = NoRegion
    \/ source.state \notin {"Merging", "Normal"}
    \/ source.meta # source_meta
    \/ MergedRange(region.meta.range, source_meta.range) \notin RegionRange

ExecCommitMerge(region, source_meta, index) ==
    LET a == source_meta.ver
        b == region.meta.ver
        range == MergedRange(region.meta.range, source_meta.range)
    IN  After(region, Meta(range, (IF a > b THEN a ELSE b) + 1, region.meta.conf), "Normal", 0, index)

-----------------------------------------------------------------------------
(***************************************************************************)
(* RegionTable and RegionPersister.                                        *)
(***************************************************************************)

\* getOrInsertRegion: an entry that exists keeps its range.
UpdateRegion(tbl, id, range) == [tbl EXCEPT ![id] = IF @ = NoRange THEN range ELSE @]

ShrinkRegionRange(tbl, id, range) == [tbl EXCEPT ![id] = range]

\* The raw keys are compared as byte strings, and the unbounded end key is
\* the empty string, which sorts before every other key.
Raw(key) == IF key = MaxKey THEN 0 ELSE key

\* Mutant: the new range replaces the old one instead of extending it.
ExtendRegionRangeReplaces(tbl, id, range) == [tbl EXCEPT ![id] = range]

ExtendRegionRange(tbl, id, range) ==
    [tbl EXCEPT ![id] =
        IF @ = NoRange THEN range
        ELSE IF Raw(@.s) <= Raw(range.s) /\ Raw(@.e) >= Raw(range.e) THEN @
        ELSE [s |-> IF Raw(range.s) < Raw(@.s) THEN range.s ELSE @.s,
              e |-> IF Raw(range.e) > Raw(@.e) THEN range.e ELSE @.e]]

\* Mutant: the persister forgets to look at the tag of the page.
PersistNoTag(pgs, id, buffer, pendingRemove) ==
    IF pendingRemove THEN pgs ELSE [pgs EXCEPT ![id] = buffer]

\* Mutant: the persister writes a region that is pending remove.
PersistRemoved(pgs, id, buffer, pendingRemove) ==
    IF pgs[id] # NoRegion /\ pgs[id].applied > buffer.applied
    THEN pgs
    ELSE [pgs EXCEPT ![id] = buffer]

\* RegionPersister::doPersist under the region lock: `buffer` was serialized
\* earlier, pendingRemove is the state of the region object now.
Persist(pgs, id, buffer, pendingRemove) ==
    IF pendingRemove \/ (pgs[id] # NoRegion /\ pgs[id].applied > buffer.applied)
    THEN pgs
    ELSE [pgs EXCEPT ![id] = buffer]

\* persist(region, lock): serialized and written under the lock.
PersistRegion(id, region) == Persist(pages, id, region, IsPendingRemove(region))

\* deleteRange of a DeltaTree storage; the other engine has none.
DeleteRange(range) == IF BgFlush THEN stored ELSE stored \ KeysOf(range)

-----------------------------------------------------------------------------
(***************************************************************************)
(* Locks, exceptions, start and restart.                                   *)
(***************************************************************************)

\* The handler under task_mutex also holds the task lock of the region it is
\* called for, and of a region while removeRegion runs. Nobody comes in
\* before restore is over.
RegionLocked(id) ==
    \/ task.kind = "restore"
    \/ task.kind # "idle" /\ id = task.id
    \/ task.kind \in {"drop", "clear"} /\ id = task.victim

TaskMutexFree == task.kind = "idle"

\* TiFlashApplyRes::Persist, or the return of a handler without a result.
Replied(id) == [reply EXCEPT ![id] = "persist"]

Throw ==
    /\ failed' = TRUE
    /\ UNCHANGED <<memVars, diskVars, task, snap, saver, reply>>

\* KVStore::restore on the pages found on disk; the index and RegionTable
\* are filled before the proxy is let in.
Restart ==
    /\ regions' = pages
    /\ root' = ClearedRoot
    /\ indexed' = [id \in RegionID |-> NoRange]
    /\ table' = [id \in RegionID |-> NoRange]
    /\ task' = Restoring
    /\ snap' = NoSnap
    /\ saver' = NoSaver
    /\ reply' = [id \in RegionID |-> "none"]
    /\ UNCHANGED <<diskVars, failed>>

RestoreIndex(id) ==
    /\ task.kind = "restore"
    /\ id \in task.unindexed
    /\ root' = Add(root, regions[id].meta.range, id)
    /\ indexed' = [indexed EXCEPT ![id] = regions[id].meta.range]
    /\ task' = [task EXCEPT !.unindexed = @ \ {id}]
    /\ UNCHANGED <<regions, table, diskVars, snap, saver, reply, failed>>

RestoreTable ==
    /\ task.kind = "restore"
    /\ task.unindexed = {}
    /\ table' = [id \in RegionID |-> IF regions[id] = NoRegion THEN NoRange ELSE regions[id].meta.range]
    /\ task' = Idle
    /\ UNCHANGED <<regions, root, indexed, diskVars, snap, saver, reply, failed>>

-----------------------------------------------------------------------------
(***************************************************************************)
(* Commands that do not take task_mutex.                                   *)
(***************************************************************************)

\* Mutant: a command that was handed over again is not ignored.
AdvancedAgain(id, index) == [regions EXCEPT ![id].applied = index]

Advanced(id, index) == [regions EXCEPT ![id].applied = IF index <= @ THEN @ ELSE index]
WriteThrows(id, index) == regions[id].applied < index /\ IsPendingRemove(regions[id])

HandleWriteRaftCmd(id, index) ==
    /\ ~RegionLocked(id)
    /\ IF regions[id] = NoRegion THEN UNCHANGED kvVars
       ELSE IF WriteThrows(id, index) THEN Throw
       ELSE /\ regions' = Advanced(id, index)
            /\ table' = UpdateRegion(table, id, regions[id].meta.range)
            /\ UNCHANGED <<root, indexed, diskVars, task, snap, saver, reply, failed>>

\* CompactLog, VerifyHash and ComputeHash. sync_log says that the command is
\* CompactLog and that the last one is long enough ago.
HandleUselessAdminRaftCmd(id, index, sync_log) ==
    /\ ~RegionLocked(id)
    /\ IF regions[id] = NoRegion THEN UNCHANGED kvVars
       ELSE IF WriteThrows(id, index) THEN Throw
       ELSE /\ regions' = Advanced(id, index)
            /\ pages' = IF sync_log THEN PersistRegion(id, Advanced(id, index)[id]) ELSE pages
            /\ reply' = IF sync_log THEN Replied(id) ELSE reply
            /\ UNCHANGED <<root, indexed, table, stored, task, snap, saver, failed>>

-----------------------------------------------------------------------------
(***************************************************************************)
(* handleAdminRaftCmd: the commands that take task_mutex.                  *)
(***************************************************************************)

AdminNotFound(id) ==
    /\ TaskMutexFree
    /\ regions[id] = NoRegion
    /\ UNCHANGED kvVars

\* RaftCommandResult::IndexError of every command but CommitMerge.
AdminIndexError(id, index) ==
    /\ TaskMutexFree
    /\ regions[id] # NoRegion
    /\ index <= regions[id].applied
    /\ reply' = Replied(id)
    /\ UNCHANGED <<memVars, diskVars, task, snap, saver, failed>>

AdminReady(id, index) ==
    /\ TaskMutexFree
    /\ regions[id] # NoRegion
    /\ index > regions[id].applied

\* Mutant: the proxy is told to persist, but the region is not persisted.
ReplyWithoutPersist(id, region) ==
    /\ regions' = [regions EXCEPT ![id] = region]
    /\ reply' = Replied(id)
    /\ UNCHANGED <<root, indexed, table, diskVars, task, snap, saver, failed>>

\* RaftCommandResult::Default.
PersistAndReply(id, region) ==
    /\ regions' = [regions EXCEPT ![id] = region]
    /\ pages' = PersistRegion(id, region)
    /\ reply' = Replied(id)
    /\ UNCHANGED <<root, indexed, table, stored, task, snap, saver, failed>>

\* CheckRegionForMergeCmd: the response of the proxy says what a merge command
\* has made of the region, and TiFlash must have arrived at the same.
MergeCmdDiffers(region, left) == region.meta # left

HandlePrepareMerge(id, index, left) ==
    /\ AdminReady(id, index)
    /\ LET region == ExecPrepareMerge(regions[id], index)
       IN  IF MergeCmdDiffers(region, left) THEN Throw ELSE PersistAndReply(id, region)

HandleRollbackMerge(id, index, commit, left) ==
    /\ AdminReady(id, index)
    /\ LET region == ExecRollbackMerge(regions[id], index)
       IN  IF RollbackMergeThrows(regions[id], commit) \/ MergeCmdDiffers(region, left)
           THEN Throw
           ELSE PersistAndReply(id, region)

HandleChangePeer(id, index, meta, peer) ==
    /\ AdminReady(id, index)
    /\ LET region == ExecChangePeer(regions[id], meta, peer, index)
       IN  IF IsPendingRemove(region)
           THEN /\ regions' = [regions EXCEPT ![id] = region]
                /\ task' = Removing(id, id, TRUE)
                /\ UNCHANGED <<root, indexed, table, diskVars, snap, saver, reply, failed>>
           ELSE PersistAndReply(id, region)

\* births: the meta of every new region of the split, NoRegion for the others.
NewRegions(births) == {i \in RegionID : births[i] # NoRegion}

\* Mutant: the old range of the region stays in the index.
BatchSplitKeepsOldRange(id, index, meta, births, peer) ==
    /\ AdminReady(id, index)
    /\ regions' = [i \in RegionID |->
            IF i = id THEN ExecBatchSplit(regions[id], meta, index)
            ELSE IF i \in NewRegions(births) /\ regions[i] = NoRegion
            THEN NewRegion(births[i], peer, RAFT_INIT_LOG_INDEX)
            ELSE regions[i]]
    /\ root' = Add(root, meta.range, id)
    /\ indexed' = [indexed EXCEPT ![id] = meta.range]
    /\ task' = Splitting(id, NewRegions(births))
    /\ UNCHANGED <<table, diskVars, snap, saver, reply, failed>>

\* A region that exists already was persisted before a crash, and is kept.
HandleBatchSplit(id, index, meta, births, peer) ==
    /\ AdminReady(id, index)
    /\ LET ori == regions[id].meta.range
       IN  IF RemoveThrows(root, ori, id)
           THEN Throw
           ELSE /\ regions' = [i \in RegionID |->
                        IF i = id THEN ExecBatchSplit(regions[id], meta, index)
                        ELSE IF i \in NewRegions(births) /\ regions[i] = NoRegion
                        THEN NewRegion(births[i], peer, RAFT_INIT_LOG_INDEX)
                        ELSE regions[i]]
                /\ root' = Add(Remove(root, ori, id), meta.range, id)
                /\ indexed' = [indexed EXCEPT ![id] = meta.range]
                /\ task' = Splitting(id, NewRegions(births))
                /\ UNCHANGED <<table, diskVars, snap, saver, reply, failed>>

\* Mutant: the new regions do not enter the index.
SplitIndexForgotten(child) ==
    /\ task.kind = "split"
    /\ child \in task.unindexed
    /\ task' = [task EXCEPT !.unindexed = @ \ {child}]
    /\ UNCHANGED <<memVars, diskVars, snap, saver, reply, failed>>

SplitIndex(child) ==
    /\ task.kind = "split"
    /\ child \in task.unindexed
    /\ root' = Add(root, regions[child].meta.range, child)
    /\ indexed' = [indexed EXCEPT ![child] = regions[child].meta.range]
    /\ task' = [task EXCEPT !.unindexed = @ \ {child}]
    /\ UNCHANGED <<regions, table, diskVars, snap, saver, reply, failed>>

\* updateRegion of the new regions, then shrinkRegionRange of the old one.
SplitTable ==
    /\ task.kind = "split"
    /\ task.unindexed = {}
    /\ table' = [i \in RegionID |->
                    IF i = task.id \/ (i \in task.unpersisted /\ table[i] = NoRange)
                    THEN regions[i].meta.range
                    ELSE table[i]]
    /\ task' = [task EXCEPT !.kind = "split_persist"]
    /\ UNCHANGED <<regions, root, indexed, diskVars, snap, saver, reply, failed>>

SplitPersist(child) ==
    /\ task.kind = "split_persist"
    /\ child \in task.unpersisted
    /\ pages' = PersistRegion(child, regions[child])
    /\ task' = [task EXCEPT !.unpersisted = @ \ {child}]
    /\ UNCHANGED <<memVars, stored, snap, saver, reply, failed>>

\* persist curr_region at last
SplitFinish ==
    /\ task.kind = "split_persist"
    /\ task.unpersisted = {}
    /\ pages' = PersistRegion(task.id, regions[task.id])
    /\ task' = Idle
    /\ reply' = Replied(task.id)
    /\ UNCHANGED <<memVars, stored, snap, saver, failed>>

HandleCommitMerge(id, index, source, source_meta, left) ==
    /\ AdminReady(id, index)
    /\ IF \/ CommitMergeThrows(regions[id], regions[source], source_meta)
          \/ MergeCmdDiffers(ExecCommitMerge(regions[id], source_meta, index), left)
       THEN Throw
       ELSE LET region == ExecCommitMerge(regions[id], source_meta, index)
            IN  /\ regions' = [regions EXCEPT ![id] = region, ![source].state = "Tombstone"]
                /\ table' = ExtendRegionRange(table, id, region.meta.range)
                /\ task' = Merging(id, source, regions[id].meta.range)
                /\ UNCHANGED <<root, indexed, diskVars, snap, saver, reply, failed>>

\* The merged region reaches the disk before its source is removed.
MergePersist ==
    /\ task.kind = "merge"
    /\ table' = ShrinkRegionRange(table, task.id, regions[task.id].meta.range)
    /\ pages' = PersistRegion(task.id, regions[task.id])
    /\ task' = [task EXCEPT !.kind = "drop"]
    /\ UNCHANGED <<regions, root, indexed, stored, snap, saver, reply, failed>>

\* Mutant: a repeated CommitMerge is ignored like any other repeated command.
CommitMergeIndexErrorIgnored(id, index, source) ==
    /\ TaskMutexFree
    /\ regions[id] # NoRegion
    /\ index <= regions[id].applied
    /\ reply' = Replied(id)
    /\ UNCHANGED <<memVars, diskVars, task, snap, saver, failed>>

\* Mutant: the rows of the source are removed with it.
CommitMergeIndexErrorRemovesData(id, index, source) ==
    /\ TaskMutexFree
    /\ regions[id] # NoRegion
    /\ index <= regions[id].applied
    /\ IF regions[source] = NoRegion
       THEN /\ reply' = Replied(id)
            /\ UNCHANGED <<regions, task>>
       ELSE /\ regions' = [regions EXCEPT ![source].state = "Tombstone"]
            /\ task' = Removing(id, source, TRUE)
            /\ UNCHANGED reply
    /\ UNCHANGED <<root, indexed, table, diskVars, snap, saver, failed>>

\* CommitMerge met again after a crash: what is left is to remove the source.
HandleCommitMergeIndexError(id, index, source) ==
    /\ TaskMutexFree
    /\ regions[id] # NoRegion
    /\ index <= regions[id].applied
    /\ IF regions[source] = NoRegion
       THEN /\ reply' = Replied(id)
            /\ UNCHANGED <<regions, task>>
       ELSE /\ regions' = [regions EXCEPT ![source].state = "Tombstone"]
            /\ task' = Removing(id, source, FALSE)
            /\ UNCHANGED reply
    /\ UNCHANGED <<root, indexed, table, diskVars, snap, saver, failed>>

HandleDestroy(id) ==
    /\ TaskMutexFree
    /\ IF regions[id] = NoRegion
       THEN /\ reply' = Replied(id)
            /\ UNCHANGED <<regions, task>>
       ELSE /\ regions' = [regions EXCEPT ![id].state = "Tombstone"]
            /\ task' = Removing(id, id, TRUE)
            /\ UNCHANGED reply
    /\ UNCHANGED <<root, indexed, table, diskVars, snap, saver, failed>>

\* removeRegion, up to the deletion of the page.
RemoveRegionDrop ==
    /\ task.kind = "drop"
    /\ LET v == task.victim
           range == regions[v].meta.range
       IN  IF RemoveThrows(root, range, v)
           THEN Throw
           ELSE /\ regions' = [regions EXCEPT ![v] = NoRegion]
                /\ root' = Remove(root, range, v)
                /\ indexed' = [indexed EXCEPT ![v] = NoRange]
                /\ pages' = [pages EXCEPT ![v] = NoRegion]
                /\ snap' = [snap EXCEPT !.removed = @ \/ snap.id = v]
                /\ saver' = [saver EXCEPT !.removed = @ \/ saver.id = v]
                /\ task' = [task EXCEPT !.kind = "clear"]
                /\ UNCHANGED <<table, stored, reply, failed>>

\* removeRegion, from RegionTable::removeRegion on.
RemoveRegionClear ==
    /\ task.kind = "clear"
    /\ LET range == table[task.victim]
       IN  stored' = IF task.remove_data /\ range # NoRange THEN DeleteRange(range) ELSE stored
    /\ table' = [table EXCEPT ![task.victim] = NoRange]
    /\ IF task.ori = NoRange
       THEN task' = Idle /\ reply' = Replied(task.id)
       ELSE task' = [task EXCEPT !.kind = "reindex"] /\ UNCHANGED reply
    /\ UNCHANGED <<regions, root, indexed, pages, snap, saver, failed>>

\* Mutant: the new range is removed from the index instead of the old one.
MergeReindexNewRange ==
    /\ task.kind = "reindex"
    /\ LET range == regions[task.id].meta.range
       IN  IF RemoveThrows(root, range, task.id)
           THEN Throw
           ELSE /\ root' = Add(Remove(root, range, task.id), range, task.id)
                /\ indexed' = [indexed EXCEPT ![task.id] = range]
                /\ task' = Idle
                /\ reply' = Replied(task.id)
                /\ UNCHANGED <<regions, table, diskVars, snap, saver, failed>>

\* The target of a merge gets its new range in the index at last.
MergeReindex ==
    /\ task.kind = "reindex"
    /\ LET range == regions[task.id].meta.range
       IN  IF RemoveThrows(root, task.ori, task.id)
           THEN Throw
           ELSE /\ root' = Add(Remove(root, task.ori, task.id), range, task.id)
                /\ indexed' = [indexed EXCEPT ![task.id] = range]
                /\ task' = Idle
                /\ reply' = Replied(task.id)
                /\ UNCHANGED <<regions, table, diskVars, snap, saver, failed>>

-----------------------------------------------------------------------------
(***************************************************************************)
(* tryApplySnapshot and onSnapshot.                                        *)
(***************************************************************************)

\* Mutant: a snapshot of the index that the region has is refused.
SnapshotStartRefusesSame(id, new) ==
    /\ snap.stage = "idle"
    /\ task.kind # "restore"
    /\ IF regions[id] # NoRegion /\ regions[id].applied >= new.applied
       THEN Throw
       ELSE /\ snap' = IF regions[id] = NoRegion
                       THEN Applying("check", id, new, 0)
                       ELSE Applying("apply", id, new, regions[id].applied)
            /\ UNCHANGED <<memVars, diskVars, task, saver, reply, failed>>

\* The old region is looked up and compared without a lock. A snapshot of the
\* same index was applied before a crash.
SnapshotStart(id, new) ==
    /\ snap.stage = "idle"
    /\ task.kind # "restore"
    /\ IF regions[id] # NoRegion /\ regions[id].applied > new.applied THEN Throw
       ELSE IF regions[id] # NoRegion /\ regions[id].applied = new.applied
       THEN /\ reply' = Replied(id)
            /\ UNCHANGED <<memVars, diskVars, task, snap, saver, failed>>
       ELSE /\ snap' = IF regions[id] = NoRegion
                       THEN Applying("check", id, new, 0)
                       ELSE Applying("apply", id, new, regions[id].applied)
            /\ UNCHANGED <<memVars, diskVars, task, saver, reply, failed>>

\* Mutant: Applying does not reach the disk.
SnapshotSetApplyingInMemory ==
    /\ snap.stage = "apply"
    /\ ~RegionLocked(snap.id)
    /\ regions' = [regions EXCEPT ![snap.id] = [@ EXCEPT !.state = "Applying"]]
    /\ snap' = [snap EXCEPT !.stage = "check"]
    /\ UNCHANGED <<root, indexed, table, diskVars, task, saver, reply, failed>>

\* The old region is set to Applying, on disk too, before its rows go. It is
\* still in the map: the proxy makes no other call for it meanwhile.
SnapshotSetApplying ==
    /\ snap.stage = "apply"
    /\ ~RegionLocked(snap.id)
    /\ LET applying == [regions[snap.id] EXCEPT !.state = "Applying"]
       IN  /\ regions' = [regions EXCEPT ![snap.id] = applying]
           /\ pages' = PersistRegion(snap.id, applying)
    /\ snap' = [snap EXCEPT !.stage = "check"]
    /\ UNCHANGED <<root, indexed, table, stored, task, saver, reply, failed>>

SnapshotCheckOverlap ==
    /\ snap.stage = "check"
    /\ TaskMutexFree
    /\ IF FindByRangeOverlap(root, snap.region.meta.range) \ {snap.id} # {}
       THEN Throw
       ELSE /\ snap' = [snap EXCEPT !.stage = "delete"]
            /\ UNCHANGED <<memVars, diskVars, task, saver, reply, failed>>

SnapshotDeleteRange ==
    /\ snap.stage = "delete"
    /\ stored' = DeleteRange(snap.region.meta.range)
    /\ snap' = [snap EXCEPT !.stage = "flush"]
    /\ UNCHANGED <<memVars, pages, task, saver, reply, failed>>

SnapshotFlush ==
    /\ snap.stage = "flush"
    /\ table' = ExtendRegionRange(table, snap.id, snap.region.meta.range)
    /\ stored' = stored \cup KeysOf(snap.region.meta.range)
    /\ snap' = [snap EXCEPT !.stage = "assign"]
    /\ UNCHANGED <<regions, root, indexed, pages, task, saver, reply, failed>>

\* The region is not the one that tryApplySnapshot looked at.
InstanceChanged ==
    \/ (regions[snap.id] # NoRegion) # snap.old
    \/ snap.old /\ (snap.removed \/ regions[snap.id].applied # snap.old_index)

SnapshotAssign ==
    /\ snap.stage = "assign"
    /\ TaskMutexFree
    /\ LET id == snap.id
           range == snap.region.meta.range
           ori == regions[id].meta.range
       IN  IF InstanceChanged \/ (snap.old /\ RemoveThrows(root, ori, id))
           THEN Throw
           ELSE /\ regions' = [regions EXCEPT ![id] = snap.region]
                /\ root' = Add(IF snap.old THEN Remove(root, ori, id) ELSE root, range, id)
                /\ indexed' = [indexed EXCEPT ![id] = range]
                /\ pages' = PersistRegion(id, snap.region)
                /\ table' = ShrinkRegionRange(table, id, range)
                /\ reply' = Replied(id)
                /\ snap' = NoSnap
                /\ UNCHANGED <<stored, task, saver, failed>>

-----------------------------------------------------------------------------
(***************************************************************************)
(* tryPersist of the background flush: the region is serialized first and  *)
(* its lock is taken after, so that the buffer may be out of date.         *)
(***************************************************************************)

TryPersistSerialize(id) ==
    /\ BgFlush
    /\ task.kind # "restore"
    /\ saver = NoSaver
    /\ regions[id] # NoRegion
    /\ saver' = [id |-> id, buffer |-> regions[id], removed |-> FALSE]
    /\ UNCHANGED <<memVars, diskVars, task, snap, reply, failed>>

TryPersistWrite ==
    /\ saver # NoSaver
    /\ ~RegionLocked(saver.id)
    /\ pages' = Persist(pages, saver.id, saver.buffer,
                        saver.removed \/ IsPendingRemove(regions[saver.id]))
    /\ saver' = NoSaver
    /\ UNCHANGED <<memVars, stored, task, snap, reply, failed>>

-----------------------------------------------------------------------------
(***************************************************************************)
(* KVStore by itself: any well-formed call may come at any time, where     *)
(* - the proxy has one handler at a time at work on a region,              *)
(* - a change of peers leaves the range alone,                             *)
(* - a region is not merged with itself.                                   *)
(* The proxy of TiFlashNode makes some of these calls.                     *)
(***************************************************************************)

\* The process starts on what is on disk.
Booted ==
    /\ regions = pages
    /\ root = ClearedRoot
    /\ indexed = [id \in RegionID |-> NoRange]
    /\ table = [id \in RegionID |-> NoRange]
    /\ task = Restoring
    /\ snap = NoSnap
    /\ saver = NoSaver
    /\ reply = [id \in RegionID |-> "none"]
    /\ failed = FALSE

KVInit ==
    /\ pages \in Regions
    /\ stored \in SUBSET RangeKey
    /\ Booted

\* The caller has seen that the handler returned.
Return(id) ==
    /\ reply' = [reply EXCEPT ![id] = "none"]
    /\ UNCHANGED <<memVars, diskVars, task, snap, saver, failed>>

Births == [RegionID -> RegionMeta \cup {NoRegion}]

\* A handler is at work on the region.
Busy(id) == id \in {task.id, task.victim, snap.id}

\* The calls of the proxy.
Call(id) ==
    \/ /\ ~Busy(id)
       /\ \/ \E index \in Nat :
                \/ HandleWriteRaftCmd(id, index)
                \/ \E sync_log \in BOOLEAN : HandleUselessAdminRaftCmd(id, index, sync_log)
                \/ AdminIndexError(id, index)
                \/ \E left \in RegionMeta : HandlePrepareMerge(id, index, left)
                \/ \E commit \in Nat, left \in RegionMeta : HandleRollbackMerge(id, index, commit, left)
                \/ \E meta \in RegionMeta, peer \in Nat :
                      /\ regions[id] # NoRegion => meta.range = regions[id].meta.range
                      /\ HandleChangePeer(id, index, meta, peer)
                \/ \E meta \in RegionMeta, births \in Births, peer \in Nat :
                      HandleBatchSplit(id, index, meta, births, peer)
                \/ \E source \in RegionID \ {id} :
                      /\ ~Busy(source)
                      /\ \/ \E meta, left \in RegionMeta : HandleCommitMerge(id, index, source, meta, left)
                         \/ HandleCommitMergeIndexError(id, index, source)
          \/ \E new \in Region : SnapshotStart(id, new)
          \/ HandleDestroy(id)
          \/ AdminNotFound(id)
    \/ Return(id)

\* The steps inside the handlers.
Step ==
    \/ \E id \in RegionID : RestoreIndex(id) \/ SplitIndex(id) \/ SplitPersist(id)
    \/ RestoreTable
    \/ SplitTable
    \/ SplitFinish
    \/ MergePersist
    \/ RemoveRegionDrop
    \/ RemoveRegionClear
    \/ MergeReindex
    \/ SnapshotSetApplying
    \/ SnapshotCheckOverlap
    \/ SnapshotDeleteRange
    \/ SnapshotFlush
    \/ SnapshotAssign
    \/ TryPersistWrite

KVNext ==
    \/ \E id \in RegionID : Call(id) \/ TryPersistSerialize(id)
    \/ Step
    \/ Restart

KVSpec == KVInit /\ [][KVNext]_kvVars

-----------------------------------------------------------------------------
(***************************************************************************)
(* Properties of KVStore that need nothing of the proxy.                   *)
(***************************************************************************)

\* The types of what KVStore holds, in memory and on disk.
KVTypeOK ==
    /\ regions \in Regions
    /\ pages \in Regions
    /\ root \in RootMap
    /\ indexed \in Ranges
    /\ table \in Ranges
    /\ stored \in SUBSET RangeKey
    /\ task \in Task
    /\ snap \in Snap
    /\ saver \in Saver
    /\ reply \in [RegionID -> {"none", "persist"}]
    /\ failed \in BOOLEAN

\* Whenever task_mutex is free, the index answers a lookup with exactly the
\* regions of the map that overlap the asked range, although split and merge
\* move ranges between regions in several steps, and restart from any of
\* them rebuilds the index.
IndexMatchesRegions ==
    TaskMutexFree =>
        \A range \in RegionRange :
            FindByRangeOverlap(root, range)
                = {r \in RegionID : regions[r] # NoRegion /\ Overlaps(regions[r].meta.range, range)}

\* remove() of the range index never misses a range: neither the range of the
\* region that is removed, nor the old range of a merge target, nor, between
\* handlers, the range of any region that the next command may touch.
IndexRemoveNeverThrows ==
    /\ task.kind = "drop" => ~RemoveThrows(root, regions[task.victim].meta.range, task.victim)
    /\ task.kind = "reindex" => ~RemoveThrows(root, task.ori, task.id)
    /\ TaskMutexFree =>
          \A r \in RegionID : regions[r] # NoRegion => ~RemoveThrows(root, regions[r].meta.range, r)

\* A page that was dropped with its region does not come back through a
\* persist that serialized the region earlier.
NoZombiePage == \A r \in RegionID : pages[r] # NoRegion => regions[r] # NoRegion

\* The page of a region never goes back in the log, whatever the order in
\* which the handlers and the background flush write it.
PageNeverGoesBack ==
    [][\A r \in RegionID :
        pages[r] # NoRegion /\ pages'[r] # NoRegion => pages'[r].applied >= pages[r].applied]_kvVars
=============================================================================
