--------------------------- MODULE KVStoreProofs ----------------------------
(***************************************************************************)
(* KVStore keeps its index and its pages in step with its regions, whatever*)
(* well-formed calls come, in whatever order, and wherever it crashes. The *)
(* inductive invariant says, for every region, with which range it is      *)
(* registered in the index while a handler is under way.                   *)
(***************************************************************************)
EXTENDS KVStore, RangeIndexProofs

RangeOf(r) == IF regions[r] = NoRegion THEN NoRange ELSE regions[r].meta.range

\* What the fields of a task mean in each of its steps.
TaskInv ==
    /\ task.kind = "idle" => task = Idle
    /\ task.kind \notin {"restore", "split"} => task.unindexed = {}
    /\ task.kind \notin {"split", "split_persist"} => task.unpersisted = {}
    /\ \A r \in task.unindexed \cup task.unpersisted : regions[r] # NoRegion
    /\ task.kind \notin {"idle", "restore"} => task.id \in RegionID
    /\ task.kind \in {"split", "split_persist", "merge", "reindex"} => regions[task.id] # NoRegion
    /\ task.kind \in {"merge", "drop", "clear"} => task.victim \in RegionID
    /\ task.kind \in {"merge", "drop"} => regions[task.victim] # NoRegion
    /\ task.kind \in {"idle", "restore", "split", "split_persist"} => task.ori = NoRange
    /\ task.kind \in {"merge", "reindex"} => task.ori # NoRange
    /\ task.ori # NoRange => task.id # task.victim /\ regions[task.id] # NoRegion

\* The target of a merge is registered with its old range until the end; a
\* region that restore or a split has yet to add may be missing; every other
\* region is registered with the range it has.
IndexedInv ==
    \A r \in RegionID :
        IF task.ori # NoRange /\ r = task.id
        THEN indexed[r] = task.ori
        ELSE indexed[r] = RangeOf(r) \/ (r \in task.unindexed /\ indexed[r] = NoRange)

\* The region object that a snapshot is about to set to Applying is in the
\* map, and no handler removes it.
SnapInv ==
    /\ snap.stage # "idle" => snap.id \in RegionID /\ snap.region \in Region
    /\ snap.stage = "apply" => regions[snap.id] # NoRegion /\ task.victim # snap.id

\* The region object that tryPersist holds is in the map until it is removed.
SaverInv ==
    saver = NoSaver
    \/ /\ saver.id \in RegionID
       /\ saver.buffer \in Region
       /\ saver.removed \/ regions[saver.id] # NoRegion

KVInv ==
    /\ KVTypeOK
    /\ Consistent(root, indexed)
    /\ TaskInv
    /\ IndexedInv
    /\ SnapInv
    /\ SaverInv
    /\ NoZombiePage

-----------------------------------------------------------------------------
(***************************************************************************)
(* Lemmas on the operators of KVStore.                                     *)
(***************************************************************************)

\* Zenon is tried first, then SMT; a leaf that needs arithmetic or records names SMT.
USE ZenonT(60), SMTT(60)

\* NoRegion is no region, no meta and no id.
LEMMA NoRegionFacts ==
    /\ NoRegion \notin Region
    /\ NoRegion \notin RegionMeta
    /\ NoRegion \notin RegionID
BY NoRegionAssumption

\* The map and a page hold a region or nothing.
LEMMA RegionsElim ==
    ASSUME NEW map \in Regions, NEW id \in RegionID, map[id] # NoRegion
    PROVE  map[id] \in Region /\ map[id].meta \in RegionMeta /\ map[id].meta.range \in RegionRange
BY DEF Regions, Region, RegionMeta

\* What a command makes of a region is a region.
LEMMA AfterType ==
    ASSUME NEW region \in Region, NEW meta \in RegionMeta, NEW state \in PeerState,
           NEW commit \in Nat, NEW index \in Nat
    PROVE  /\ After(region, meta, state, commit, index) \in Region
           /\ After(region, meta, state, commit, index).meta = meta
BY DEF After, Region

LEMMA MetaType ==
    ASSUME NEW range \in RegionRange, NEW ver \in Nat, NEW conf \in Nat
    PROVE  /\ Meta(range, ver, conf) \in RegionMeta
           /\ Meta(range, ver, conf).range = range
BY DEF Meta, RegionMeta

LEMMA ExecType ==
    ASSUME NEW region \in Region, NEW index \in Nat, NEW meta \in RegionMeta, NEW peer \in Nat
    PROVE  /\ NewRegion(meta, peer, index) \in Region
           /\ NewRegion(meta, peer, index).meta = meta
           /\ ExecBatchSplit(region, meta, index) \in Region
           /\ ExecBatchSplit(region, meta, index).meta = meta
           /\ ExecChangePeer(region, meta, peer, index) \in Region
           /\ ExecChangePeer(region, meta, peer, index).meta = meta
           /\ ExecPrepareMerge(region, index) \in Region
           /\ ExecPrepareMerge(region, index).meta.range = region.meta.range
           /\ ExecRollbackMerge(region, index) \in Region
           /\ ExecRollbackMerge(region, index).meta.range = region.meta.range
<1>1. /\ region.meta.range \in RegionRange
      /\ region.meta.ver + 1 \in Nat
      /\ region.meta.conf \in Nat
      /\ region.meta.conf + 1 \in Nat
  BY SMTT(60) DEF Region, RegionMeta
<1>2. {"Normal", "Merging", "Tombstone"} \subseteq PeerState /\ 0 \in Nat
  BY DEF PeerState
<1>3. NewRegion(meta, peer, index) \in Region /\ NewRegion(meta, peer, index).meta = meta
  BY DEF NewRegion, Region, PeerState
<1>4. ExecBatchSplit(region, meta, index) \in Region /\ ExecBatchSplit(region, meta, index).meta = meta
  BY <1>2, AfterType, SMTT(60) DEF ExecBatchSplit
<1>5. /\ ExecChangePeer(region, meta, peer, index) \in Region
      /\ ExecChangePeer(region, meta, peer, index).meta = meta
  BY <1>2, AfterType, SMTT(60) DEF ExecChangePeer
<1>6. /\ ExecPrepareMerge(region, index) \in Region
      /\ ExecPrepareMerge(region, index).meta.range = region.meta.range
  <2> DEFINE m == Meta(region.meta.range, region.meta.ver + 1, region.meta.conf + 1)
  <2>1. m \in RegionMeta /\ m.range = region.meta.range
    BY <1>1, MetaType
  <2>2. ExecPrepareMerge(region, index) = After(region, m, "Merging", index, index)
    BY DEF ExecPrepareMerge
  <2> HIDE DEF m
  <2> QED
    BY <1>2, <2>1, <2>2, AfterType, SMTT(60)
<1>7. /\ ExecRollbackMerge(region, index) \in Region
      /\ ExecRollbackMerge(region, index).meta.range = region.meta.range
  <2> DEFINE m == Meta(region.meta.range, region.meta.ver + 1, region.meta.conf)
  <2>1. m \in RegionMeta /\ m.range = region.meta.range
    BY <1>1, MetaType
  <2>2. ExecRollbackMerge(region, index) = After(region, m, "Normal", 0, index)
    BY DEF ExecRollbackMerge
  <2> HIDE DEF m
  <2> QED
    BY <1>2, <2>1, <2>2, AfterType, SMTT(60)
<1> QED
  BY <1>3, <1>4, <1>5, <1>6, <1>7

\* The merged region has the merged range.
LEMMA CommitMergeType ==
    ASSUME NEW region \in Region, NEW index \in Nat, NEW meta \in RegionMeta,
           MergedRange(region.meta.range, meta.range) \in RegionRange
    PROVE  /\ ExecCommitMerge(region, meta, index) \in Region
           /\ ExecCommitMerge(region, meta, index).meta.range = MergedRange(region.meta.range, meta.range)
<1>1. /\ (IF meta.ver > region.meta.ver THEN meta.ver ELSE region.meta.ver) + 1 \in Nat
      /\ region.meta.conf \in Nat
  BY SMTT(60) DEF Region, RegionMeta
<1>2. "Normal" \in PeerState /\ 0 \in Nat
  BY DEF PeerState
<1> DEFINE range == MergedRange(region.meta.range, meta.range)
           ver == (IF meta.ver > region.meta.ver THEN meta.ver ELSE region.meta.ver) + 1
           m == Meta(range, ver, region.meta.conf)
<1>3. m \in RegionMeta /\ m.range = range
  BY <1>1, MetaType
<1>4. ExecCommitMerge(region, meta, index) = After(region, m, "Normal", 0, index)
  BY DEF ExecCommitMerge
<1> HIDE DEF m
<1> QED
  BY <1>2, <1>3, <1>4, AfterType, SMTT(60)

\* A persist writes the page of its region, or nothing.
LEMMA PersistType ==
    ASSUME NEW pgs \in Regions, NEW id \in RegionID, NEW buffer \in Region, NEW gone \in BOOLEAN
    PROVE  /\ Persist(pgs, id, buffer, gone) \in Regions
           /\ \A r \in RegionID : r # id => Persist(pgs, id, buffer, gone)[r] = pgs[r]
           /\ Persist(pgs, id, buffer, gone)[id] \in {pgs[id], buffer}
           /\ gone => Persist(pgs, id, buffer, gone) = pgs
           /\ pgs[id] # NoRegion => Persist(pgs, id, buffer, gone)[id].applied >= pgs[id].applied
<1>1. CASE Persist(pgs, id, buffer, gone) = pgs
  BY <1>1, SMTT(60) DEF Regions, Region
<1>2. CASE /\ ~gone
           /\ ~(pgs[id] # NoRegion /\ pgs[id].applied > buffer.applied)
           /\ Persist(pgs, id, buffer, gone) = [pgs EXCEPT ![id] = buffer]
  BY <1>2, SMTT(60) DEF Regions, Region
<1> QED
  BY <1>1, <1>2 DEF Persist

\* The pages after a persist under the lock.
LEMMA PersistRegionType ==
    ASSUME pages \in Regions, NEW id \in RegionID, NEW region \in Region
    PROVE  /\ PersistRegion(id, region) \in Regions
           /\ \A r \in RegionID : PersistRegion(id, region)[r] # NoRegion => r = id \/ pages[r] # NoRegion
           /\ \A r \in RegionID :
                pages[r] # NoRegion => PersistRegion(id, region)[r].applied >= pages[r].applied
<1> DEFINE gone == IsPendingRemove(region)
           new == Persist(pages, id, region, gone)
<1>1. gone \in BOOLEAN
  BY DEF IsPendingRemove
<1>2. PersistRegion(id, region) = new
  BY DEF PersistRegion
<1> HIDE DEF gone
<1>3. /\ new \in Regions
      /\ \A r \in RegionID : r # id => new[r] = pages[r]
      /\ pages[id] # NoRegion => new[id].applied >= pages[id].applied
  BY <1>1, PersistType
<1> HIDE DEF new
<1>4. ASSUME NEW r \in RegionID, pages[r] # NoRegion
      PROVE  new[r].applied >= pages[r].applied
  <2>1. pages[r].applied \in Nat
    BY <1>4, RegionsElim DEF Region
  <2> QED
    BY <1>3, <1>4, <2>1, SMTT(60)
<1> QED
  BY <1>2, <1>3, <1>4

\* RegionTable's operations keep it a map to ranges.
LEMMA TableType ==
    ASSUME NEW tbl \in Ranges, NEW id \in RegionID, NEW range \in RegionRange
    PROVE  /\ UpdateRegion(tbl, id, range) \in Ranges
           /\ ShrinkRegionRange(tbl, id, range) \in Ranges
           /\ ExtendRegionRange(tbl, id, range) \in Ranges
<1>1. UpdateRegion(tbl, id, range) \in Ranges
  BY DEF UpdateRegion, Ranges
<1>2. ShrinkRegionRange(tbl, id, range) \in Ranges
  BY DEF ShrinkRegionRange, Ranges
<1>3. ExtendRegionRange(tbl, id, range) \in Ranges
  <2> DEFINE old == tbl[id]
             s == IF Raw(range.s) < Raw(old.s) THEN range.s ELSE old.s
             e == IF Raw(range.e) > Raw(old.e) THEN range.e ELSE old.e
             kept == Raw(old.s) <= Raw(range.s) /\ Raw(old.e) >= Raw(range.e)
             new == IF old = NoRange THEN range
                    ELSE IF kept THEN old
                    ELSE [s |-> s, e |-> e]
  <2>1. ExtendRegionRange(tbl, id, range) = [tbl EXCEPT ![id] = new]
    BY DEF ExtendRegionRange
  <2>2. ASSUME old # NoRange PROVE [s |-> s, e |-> e] \in RegionRange
    <3>1. old \in RegionRange
      BY <2>2 DEF Ranges
    <3> HIDE DEF old
    <3>2. /\ range.s \in RangeKey /\ range.e \in RangeKey /\ 0 < range.s /\ range.s < range.e
          /\ old.s \in RangeKey /\ old.e \in RangeKey /\ 0 < old.s /\ old.s < old.e
      BY <3>1 DEF RegionRange
    <3>3. Raw(range.s) = range.s /\ Raw(old.s) = old.s
      BY <3>2, MaxKeyAssumption, SMTT(60) DEF Raw, RangeKey
    <3>4. /\ s \in RangeKey /\ 0 < s /\ s <= range.s /\ s <= old.s
          /\ e \in {range.e, old.e}
      BY <3>2, <3>3, SMTT(60) DEF RangeKey
    <3> HIDE DEF s, e
    <3>5. s < e /\ e \in RangeKey
      BY <3>2, <3>4, MaxKeyAssumption, SMTT(60) DEF RangeKey
    <3> QED
      BY <3>4, <3>5 DEF RegionRange
  <2>3. new \in RegionRange
    <3> HIDE DEF s, e, kept
    <3>1. old \in RegionRange \cup {NoRange}
      BY DEF Ranges
    <3> HIDE DEF old
    <3> QED
      BY <2>2, <3>1
  <2> HIDE DEF new
  <2> QED
    BY <2>1, <2>3 DEF Ranges
<1> QED
  BY <1>1, <1>2, <1>3

\* deleteRange leaves a set of keys.
LEMMA DeleteRangeType ==
    ASSUME NEW range, stored \in SUBSET RangeKey
    PROVE  DeleteRange(range) \in SUBSET RangeKey
BY DEF DeleteRange

-----------------------------------------------------------------------------
(***************************************************************************)
(* What most steps have in common.                                         *)
(***************************************************************************)

\* No region comes, goes or moves.
SameRanges ==
    \A r \in RegionID :
        /\ regions'[r] = NoRegion <=> regions[r] = NoRegion
        /\ regions[r] # NoRegion => regions'[r].meta.range = regions[r].meta.range

\* No page goes back.
PageStep ==
    \A r \in RegionID :
        pages[r] # NoRegion /\ pages'[r] # NoRegion => pages'[r].applied >= pages[r].applied

\* No page appears for a region that is not in the map.
PageOfRegion == \A r \in RegionID : pages'[r] # NoRegion => pages[r] # NoRegion \/ regions[r] # NoRegion

LEMMA SamePages ==
    ASSUME KVTypeOK, pages' = pages
    PROVE  PageStep /\ PageOfRegion
<1>1. ASSUME NEW r \in RegionID, pages[r] # NoRegion PROVE pages[r].applied \in Nat
  BY <1>1, RegionsElim DEF KVTypeOK, Region
<1> QED
  BY <1>1, SMTT(60) DEF PageStep, PageOfRegion

LEMMA OnePage ==
    ASSUME KVTypeOK, NEW id \in RegionID, NEW region \in Region, regions[id] # NoRegion,
           pages' = PersistRegion(id, region)
    PROVE  pages' \in Regions /\ PageStep /\ PageOfRegion
BY PersistRegionType DEF KVTypeOK, PageStep, PageOfRegion

LEMMA SameRangesSaver ==
    ASSUME KVInv, SameRanges, saver' \in {saver, NoSaver}
    PROVE  SaverInv'
BY DEF KVInv, SaverInv, SameRanges, NoSaver

LEMMA SameRangesPages ==
    ASSUME KVInv, SameRanges, PageOfRegion
    PROVE  NoZombiePage'
BY DEF KVInv, NoZombiePage, SameRanges, PageOfRegion

LEMMA SameRangesIndexed ==
    ASSUME KVInv, SameRanges, indexed' = indexed, task'.ori = task.ori, task'.id = task.id,
           task'.unindexed = task.unindexed
    PROVE  IndexedInv'
BY DEF KVInv, IndexedInv, RangeOf, SameRanges

\* A step that leaves the index and the task alone.
LEMMA Quiet ==
    ASSUME KVInv, KVTypeOK', SameRanges, UNCHANGED <<root, indexed, task>>, SnapInv',
           saver' \in {saver, NoSaver}, PageOfRegion
    PROVE  KVInv'
<1>1. Consistent(root, indexed)'
  BY DEF KVInv
<1>2. TaskInv'
  BY DEF KVInv, TaskInv, SameRanges, KVTypeOK, Task
<1>3. IndexedInv' /\ SaverInv' /\ NoZombiePage'
  BY SameRangesIndexed, SameRangesSaver, SameRangesPages
<1> QED
  BY <1>1, <1>2, <1>3 DEF KVInv

LEMMA StepThrow ==
    ASSUME KVInv, Throw
    PROVE  KVInv' /\ PageStep
<1> USE DEF Throw, memVars, diskVars
<1>1. KVTypeOK' /\ SameRanges /\ SnapInv'
  BY DEF KVInv, KVTypeOK, SameRanges, SnapInv
<1>2. PageStep /\ PageOfRegion
  BY SamePages DEF KVInv
<1> QED
  BY <1>1, <1>2, Quiet

LEMMA StepUnchanged ==
    ASSUME KVInv, UNCHANGED kvVars
    PROVE  KVInv' /\ PageStep
<1> USE DEF kvVars, memVars, diskVars
<1>1. KVTypeOK' /\ SameRanges /\ SnapInv'
  BY DEF KVInv, KVTypeOK, SameRanges, SnapInv
<1>2. PageStep /\ PageOfRegion
  BY SamePages DEF KVInv
<1> QED
  BY <1>1, <1>2, Quiet

-----------------------------------------------------------------------------
(***************************************************************************)
(* The handlers, one lemma per action.                                     *)
(***************************************************************************)

\* setApplied on one region.
LEMMA AdvancedType ==
    ASSUME KVTypeOK, NEW id \in RegionID, NEW index \in Nat, regions[id] # NoRegion
    PROVE  /\ Advanced(id, index) \in Regions
           /\ Advanced(id, index)[id] \in Region
           /\ regions' = Advanced(id, index) => SameRanges
<1> DEFINE region == [regions[id] EXCEPT !.applied = IF index <= @ THEN @ ELSE index]
<1>1. regions[id] \in Region
  BY RegionsElim DEF KVTypeOK
<1>2. region \in Region /\ region.meta = regions[id].meta
  BY <1>1 DEF Region
<1>3. Advanced(id, index) = [regions EXCEPT ![id] = region]
  BY DEF Advanced
<1> HIDE DEF region
<1>4. Advanced(id, index) \in Regions /\ Advanced(id, index)[id] = region
  BY <1>2, <1>3 DEF KVTypeOK, Regions
<1>5. ASSUME regions' = Advanced(id, index) PROVE SameRanges
  BY <1>2, <1>3, <1>5, NoRegionFacts DEF SameRanges, KVTypeOK, Regions
<1> QED
  BY <1>2, <1>4, <1>5

LEMMA StepHandleWriteRaftCmd ==
    ASSUME KVInv, NEW id \in RegionID, NEW index \in Nat, HandleWriteRaftCmd(id, index)
    PROVE  KVInv' /\ PageStep
<1>1. CASE regions[id] = NoRegion
  BY <1>1, StepUnchanged DEF HandleWriteRaftCmd
<1>2. CASE regions[id] # NoRegion /\ WriteThrows(id, index)
  BY <1>2, StepThrow DEF HandleWriteRaftCmd
<1>3. CASE regions[id] # NoRegion /\ ~WriteThrows(id, index)
  <2>1. /\ regions' = Advanced(id, index)
        /\ table' = UpdateRegion(table, id, regions[id].meta.range)
        /\ UNCHANGED <<root, indexed, pages, stored, task, snap, saver, reply, failed>>
    BY <1>3 DEF HandleWriteRaftCmd, diskVars
  <2>2. KVTypeOK /\ SnapInv
    BY DEF KVInv
  <2>3. regions[id].meta.range \in RegionRange
    BY <1>3, <2>2, RegionsElim DEF KVTypeOK
  <2>4. table' \in Ranges
    BY <2>1, <2>2, <2>3, TableType DEF KVTypeOK
  <2>5. regions' \in Regions /\ SameRanges
    BY <1>3, <2>1, <2>2, AdvancedType
  <2>6. KVTypeOK'
    BY <2>1, <2>2, <2>4, <2>5 DEF KVTypeOK
  <2>7. SnapInv'
    BY <2>1, <2>2, <2>5 DEF SnapInv, SameRanges
  <2>8. PageStep /\ PageOfRegion
    BY <2>1, <2>2, SamePages
  <2> QED
    BY <2>1, <2>5, <2>6, <2>7, <2>8, Quiet
<1> QED
  BY <1>1, <1>2, <1>3

LEMMA RepliedType ==
    ASSUME KVTypeOK, NEW id \in RegionID
    PROVE  Replied(id) \in [RegionID -> {"none", "persist"}]
BY DEF KVTypeOK, Replied

LEMMA StepHandleUselessAdminRaftCmd ==
    ASSUME KVInv, NEW id \in RegionID, NEW index \in Nat, NEW sync_log \in BOOLEAN,
           HandleUselessAdminRaftCmd(id, index, sync_log)
    PROVE  KVInv' /\ PageStep
<1>1. CASE regions[id] = NoRegion
  BY <1>1, StepUnchanged DEF HandleUselessAdminRaftCmd
<1>2. CASE regions[id] # NoRegion /\ WriteThrows(id, index)
  BY <1>2, StepThrow DEF HandleUselessAdminRaftCmd
<1>3. CASE regions[id] # NoRegion /\ ~WriteThrows(id, index)
  <2>1. /\ regions' = Advanced(id, index)
        /\ pages' = IF sync_log THEN PersistRegion(id, Advanced(id, index)[id]) ELSE pages
        /\ reply' = IF sync_log THEN Replied(id) ELSE reply
        /\ UNCHANGED <<root, indexed, table, stored, task, snap, saver, failed>>
    BY <1>3 DEF HandleUselessAdminRaftCmd
  <2>2. KVTypeOK /\ SnapInv
    BY DEF KVInv
  <2>3. regions' \in Regions /\ SameRanges /\ Advanced(id, index)[id] \in Region
    BY <1>3, <2>1, <2>2, AdvancedType
  <2>4. pages' \in Regions /\ PageStep /\ PageOfRegion
    <3>1. CASE sync_log
      BY <1>3, <2>1, <2>2, <2>3, <3>1, OnePage
    <3>2. CASE ~sync_log
      BY <2>1, <2>2, <3>2, SamePages DEF KVTypeOK
    <3> QED
      BY <3>1, <3>2
  <2>5. reply' \in [RegionID -> {"none", "persist"}]
    BY <2>1, <2>2, RepliedType DEF KVTypeOK
  <2>6. KVTypeOK'
    BY <2>1, <2>2, <2>3, <2>4, <2>5 DEF KVTypeOK
  <2>7. SnapInv'
    BY <2>1, <2>2, <2>3 DEF SnapInv, SameRanges
  <2> QED
    BY <2>1, <2>3, <2>4, <2>6, <2>7, Quiet
<1> QED
  BY <1>1, <1>2, <1>3

LEMMA StepAdminIndexError ==
    ASSUME KVInv, NEW id \in RegionID, NEW index \in Nat,
           AdminIndexError(id, index) \/ Return(id) \/ AdminNotFound(id)
    PROVE  KVInv' /\ PageStep
<1>1. CASE UNCHANGED kvVars
  BY <1>1, StepUnchanged
<1>2. CASE AdminIndexError(id, index) \/ Return(id)
  <2>1. /\ UNCHANGED <<regions, root, indexed, table, pages, stored, task, snap, saver, failed>>
        /\ reply' \in [RegionID -> {"none", "persist"}]
    <3>1. KVTypeOK
      BY DEF KVInv
    <3>2. CASE AdminIndexError(id, index)
      BY <3>1, <3>2, RepliedType DEF AdminIndexError, memVars, diskVars
    <3>3. CASE Return(id)
      BY <3>1, <3>3 DEF Return, memVars, diskVars, KVTypeOK
    <3> QED
      BY <1>2, <3>2, <3>3
  <2>2. KVTypeOK' /\ SameRanges /\ SnapInv'
    BY <2>1 DEF KVInv, KVTypeOK, SameRanges, SnapInv
  <2>3. PageStep /\ PageOfRegion
    BY <2>1, SamePages DEF KVInv
  <2> QED
    BY <2>1, <2>2, <2>3, Quiet
<1> QED
  BY <1>1, <1>2 DEF AdminNotFound

\* A command that keeps the range of its region and persists it.
LEMMA StepPersistAndReply ==
    ASSUME KVInv, NEW id \in RegionID, NEW region \in Region, regions[id] # NoRegion,
           region.meta.range = regions[id].meta.range, PersistAndReply(id, region)
    PROVE  KVInv' /\ PageStep
<1>1. /\ regions' = [regions EXCEPT ![id] = region]
      /\ pages' = PersistRegion(id, region)
      /\ reply' = Replied(id)
      /\ UNCHANGED <<root, indexed, table, stored, task, snap, saver, failed>>
  BY DEF PersistAndReply
<1>2. KVTypeOK /\ SnapInv
  BY DEF KVInv
<1>3. regions' \in Regions /\ SameRanges
  BY <1>1, <1>2, NoRegionFacts DEF KVTypeOK, Regions, SameRanges
<1>4. pages' \in Regions /\ PageStep /\ PageOfRegion
  BY <1>1, <1>2, OnePage
<1>5. reply' \in [RegionID -> {"none", "persist"}]
  BY <1>1, <1>2, RepliedType
<1>6. KVTypeOK' /\ SnapInv'
  BY <1>1, <1>2, <1>3, <1>4, <1>5 DEF KVTypeOK, SnapInv, SameRanges
<1> QED
  BY <1>1, <1>3, <1>4, <1>6, Quiet

LEMMA StepHandlePrepareMerge ==
    ASSUME KVInv, NEW id \in RegionID, NEW index \in Nat, NEW left \in RegionMeta,
           HandlePrepareMerge(id, index, left)
    PROVE  KVInv' /\ PageStep
<1>1. regions[id] # NoRegion /\ regions[id] \in Region /\ regions[id].meta \in RegionMeta
  BY RegionsElim DEF HandlePrepareMerge, AdminReady, KVInv, KVTypeOK
<1> DEFINE region == ExecPrepareMerge(regions[id], index)
<1>2. region \in Region /\ region.meta.range = regions[id].meta.range
  BY <1>1, ExecType
<1>3. Throw \/ PersistAndReply(id, region)
  BY DEF HandlePrepareMerge
<1> HIDE DEF region
<1> QED
  BY <1>1, <1>2, <1>3, StepPersistAndReply, StepThrow

LEMMA StepHandleRollbackMerge ==
    ASSUME KVInv, NEW id \in RegionID, NEW index \in Nat, NEW commit \in Nat,
           NEW left \in RegionMeta, HandleRollbackMerge(id, index, commit, left)
    PROVE  KVInv' /\ PageStep
<1>1. regions[id] # NoRegion /\ regions[id] \in Region /\ regions[id].meta \in RegionMeta
  BY RegionsElim DEF HandleRollbackMerge, AdminReady, KVInv, KVTypeOK
<1> DEFINE region == ExecRollbackMerge(regions[id], index)
<1>2. region \in Region /\ region.meta.range = regions[id].meta.range
  BY <1>1, ExecType
<1>3. Throw \/ PersistAndReply(id, region)
  BY DEF HandleRollbackMerge
<1> HIDE DEF region
<1> QED
  BY <1>1, <1>2, <1>3, StepPersistAndReply, StepThrow

\* While task_mutex is free, every region is registered with its range.
LEMMA IdleIndexed ==
    ASSUME KVInv, TaskMutexFree
    PROVE  task = Idle /\ \A r \in RegionID : indexed[r] = RangeOf(r)
<1>1. task = Idle
  BY DEF KVInv, TaskInv, TaskMutexFree
<1>2. task.ori = NoRange /\ task.unindexed = {}
  BY <1>1 DEF Idle
<1> QED
  BY <1>1, <1>2 DEF KVInv, IndexedInv

LEMMA IdleIndexedStep ==
    ASSUME KVInv, TaskMutexFree, SameRanges, indexed' = indexed, task'.ori = NoRange
    PROVE  IndexedInv'
BY IdleIndexed DEF IndexedInv, RangeOf, SameRanges

\* setPendingRemove on one region.
LEMMA TombstoneType ==
    ASSUME KVTypeOK, NEW id \in RegionID, regions[id] # NoRegion
    PROVE  /\ [regions EXCEPT ![id].state = "Tombstone"] \in Regions
           /\ regions' = [regions EXCEPT ![id].state = "Tombstone"] => SameRanges
<1> DEFINE region == [regions[id] EXCEPT !.state = "Tombstone"]
<1>1. regions[id] \in Region
  BY RegionsElim DEF KVTypeOK
<1>2. region \in Region /\ region.meta = regions[id].meta
  BY <1>1 DEF Region, PeerState
<1>3. [regions EXCEPT ![id].state = "Tombstone"] = [regions EXCEPT ![id] = region]
  OBVIOUS
<1> HIDE DEF region
<1> QED
  BY <1>2, <1>3, NoRegionFacts, SMTT(60) DEF KVTypeOK, Regions, SameRanges

\* The start of removeRegion(victim) inside a handler for id.
LEMMA StartDrop ==
    ASSUME KVInv, TaskMutexFree, NEW id \in RegionID, NEW victim \in RegionID, NEW data \in BOOLEAN,
           regions' \in Regions, SameRanges, regions[victim] # NoRegion, victim # snap.id,
           task' = Removing(id, victim, data),
           UNCHANGED <<root, indexed, table, pages, stored, snap, saver, reply, failed>>
    PROVE  KVInv' /\ PageStep
<1>1. /\ task' \in Task
      /\ task'.kind = "drop" /\ task'.id = id /\ task'.victim = victim
      /\ task'.ori = NoRange /\ task'.unindexed = {} /\ task'.unpersisted = {}
  BY DEF Removing, Task, TaskKind
<1>2. KVTypeOK'
  BY <1>1 DEF KVInv, KVTypeOK
<1>3. TaskInv'
  BY <1>1 DEF TaskInv, SameRanges
<1>4. Consistent(root, indexed)' /\ SnapInv'
  BY <1>1 DEF KVInv, SnapInv, SameRanges
<1>5. PageStep /\ PageOfRegion
  BY SamePages DEF KVInv
<1>6. IndexedInv' /\ SaverInv' /\ NoZombiePage'
  BY <1>1, <1>5, IdleIndexedStep, SameRangesSaver, SameRangesPages
<1> QED
  BY <1>2, <1>3, <1>4, <1>5, <1>6 DEF KVInv

LEMMA StepHandleDestroy ==
    ASSUME KVInv, NEW id \in RegionID, id # snap.id, HandleDestroy(id)
    PROVE  KVInv' /\ PageStep
<1>1. KVTypeOK /\ SnapInv
  BY DEF KVInv
<1>2. CASE regions[id] = NoRegion
  <2>1. /\ UNCHANGED <<regions, root, indexed, table, pages, stored, task, snap, saver, failed>>
        /\ reply' = Replied(id)
    BY <1>2 DEF HandleDestroy, diskVars
  <2>2. KVTypeOK' /\ SnapInv' /\ SameRanges
    BY <1>1, <2>1, RepliedType DEF KVTypeOK, SnapInv, SameRanges
  <2>3. PageStep /\ PageOfRegion
    BY <1>1, <2>1, SamePages
  <2> QED
    BY <2>1, <2>2, <2>3, Quiet
<1>3. CASE regions[id] # NoRegion
  <2>1. /\ regions' = [regions EXCEPT ![id].state = "Tombstone"]
        /\ task' = Removing(id, id, TRUE)
        /\ TaskMutexFree
        /\ UNCHANGED <<root, indexed, table, pages, stored, snap, saver, reply, failed>>
    BY <1>3 DEF HandleDestroy, diskVars
  <2>2. regions' \in Regions /\ SameRanges
    BY <1>1, <1>3, <2>1, TombstoneType
  <2> QED
    BY <1>3, <2>1, <2>2, StartDrop
<1> QED
  BY <1>2, <1>3

LEMMA StepHandleCommitMergeIndexError ==
    ASSUME KVInv, NEW id \in RegionID, NEW index \in Nat, NEW source \in RegionID, source # snap.id,
           HandleCommitMergeIndexError(id, index, source)
    PROVE  KVInv' /\ PageStep
<1>1. KVTypeOK /\ SnapInv
  BY DEF KVInv
<1>2. CASE regions[source] = NoRegion
  <2>1. /\ UNCHANGED <<regions, root, indexed, table, pages, stored, task, snap, saver, failed>>
        /\ reply' = Replied(id)
    BY <1>2 DEF HandleCommitMergeIndexError, diskVars
  <2>2. KVTypeOK' /\ SnapInv' /\ SameRanges
    BY <1>1, <2>1, RepliedType DEF KVTypeOK, SnapInv, SameRanges
  <2>3. PageStep /\ PageOfRegion
    BY <1>1, <2>1, SamePages
  <2> QED
    BY <2>1, <2>2, <2>3, Quiet
<1>3. CASE regions[source] # NoRegion
  <2>1. /\ regions' = [regions EXCEPT ![source].state = "Tombstone"]
        /\ task' = Removing(id, source, FALSE)
        /\ TaskMutexFree
        /\ UNCHANGED <<root, indexed, table, pages, stored, snap, saver, reply, failed>>
    BY <1>3 DEF HandleCommitMergeIndexError, diskVars
  <2>2. regions' \in Regions /\ SameRanges
    BY <1>1, <1>3, <2>1, TombstoneType
  <2> QED
    BY <1>3, <2>1, <2>2, StartDrop
<1> QED
  BY <1>2, <1>3

LEMMA StepHandleChangePeer ==
    ASSUME KVInv, NEW id \in RegionID, NEW index \in Nat, NEW meta \in RegionMeta, NEW peer \in Nat,
           id # snap.id, regions[id] # NoRegion => meta.range = regions[id].meta.range,
           HandleChangePeer(id, index, meta, peer)
    PROVE  KVInv' /\ PageStep
<1> DEFINE region == ExecChangePeer(regions[id], meta, peer, index)
<1>1. /\ TaskMutexFree /\ regions[id] # NoRegion /\ regions[id] \in Region
      /\ regions \in Regions
  BY RegionsElim DEF HandleChangePeer, AdminReady, KVInv, KVTypeOK
<1>2. region \in Region /\ region.meta = meta
  BY <1>1, ExecType, SMTT(60), ZenonT(60)
<1>3. CASE IsPendingRemove(region)
  <2>1. /\ regions' = [regions EXCEPT ![id] = region]
        /\ task' = Removing(id, id, TRUE)
        /\ UNCHANGED <<root, indexed, table, pages, stored, snap, saver, reply, failed>>
    BY <1>3 DEF HandleChangePeer, diskVars
  <2> HIDE DEF region
  <2>2. regions' \in Regions /\ SameRanges
    BY <1>1, <1>2, <2>1, NoRegionFacts DEF Regions, SameRanges
  <2> QED
    BY <1>1, <2>1, <2>2, StartDrop
<1>4. CASE ~IsPendingRemove(region)
  <2>1. PersistAndReply(id, region)
    BY <1>4 DEF HandleChangePeer
  <2> HIDE DEF region
  <2> QED
    BY <1>1, <1>2, <2>1, StepPersistAndReply
<1> QED
  BY <1>3, <1>4

-----------------------------------------------------------------------------
(***************************************************************************)
(* Split, merge, removeRegion and restore, step by step.                   *)
(***************************************************************************)

LEMMA StepHandleCommitMerge ==
    ASSUME KVInv, NEW id \in RegionID, NEW index \in Nat, NEW source \in RegionID \ {id}, source # snap.id,
           NEW source_meta \in RegionMeta, NEW left \in RegionMeta,
           HandleCommitMerge(id, index, source, source_meta, left)
    PROVE  KVInv' /\ PageStep
<1>1. CASE \/ CommitMergeThrows(regions[id], regions[source], source_meta)
           \/ MergeCmdDiffers(ExecCommitMerge(regions[id], source_meta, index), left)
  BY <1>1, StepThrow DEF HandleCommitMerge
<1>2. CASE /\ ~CommitMergeThrows(regions[id], regions[source], source_meta)
           /\ ~MergeCmdDiffers(ExecCommitMerge(regions[id], source_meta, index), left)
  <2> DEFINE region == ExecCommitMerge(regions[id], source_meta, index)
             old == regions[id].meta.range
             gone == [regions[source] EXCEPT !.state = "Tombstone"]
  <2>1. KVTypeOK /\ SnapInv /\ TaskMutexFree /\ regions[id] # NoRegion /\ regions[source] # NoRegion
    BY <1>2 DEF KVInv, HandleCommitMerge, AdminReady, CommitMergeThrows
  <2>2. regions[id] \in Region /\ regions[source] \in Region /\ old \in RegionRange
    BY <2>1, RegionsElim DEF KVTypeOK
  <2>3. region \in Region /\ region.meta.range \in RegionRange
    BY <1>2, <2>2, CommitMergeType DEF CommitMergeThrows
  <2>4. gone \in Region /\ gone.meta = regions[source].meta
    BY <2>2 DEF Region, PeerState
  <2>5. /\ regions' = [regions EXCEPT ![id] = region, ![source].state = "Tombstone"]
        /\ table' = ExtendRegionRange(table, id, region.meta.range)
        /\ task' = Merging(id, source, old)
        /\ UNCHANGED <<root, indexed, pages, stored, snap, saver, reply, failed>>
    BY <1>2 DEF HandleCommitMerge, diskVars
  <2> HIDE DEF region
  <2>6. regions' = [[regions EXCEPT ![id] = region] EXCEPT ![source] = gone]
    BY <2>1, <2>5 DEF KVTypeOK, Regions
  <2> HIDE DEF old, gone
  <2>7. /\ regions' \in Regions
        /\ regions'[id] = region /\ regions'[source] = gone
        /\ \A r \in RegionID \ {id, source} : regions'[r] = regions[r]
    BY <2>1, <2>3, <2>4, <2>6 DEF KVTypeOK, Regions
  <2>8. /\ task' \in Task
        /\ task'.kind = "merge" /\ task'.id = id /\ task'.victim = source
        /\ task'.ori = old /\ task'.unindexed = {} /\ task'.unpersisted = {}
    BY <2>2, <2>5 DEF Merging, Task, TaskKind
  <2>9. old # NoRange
    BY <2>2, NoRangeAssumption
  <2>10. KVTypeOK'
    <3>1. table' \in Ranges
      BY <2>1, <2>3, <2>5, TableType DEF KVTypeOK
    <3> QED
      BY <2>1, <2>5, <2>7, <2>8, <3>1 DEF KVTypeOK
  <2>11. \A r \in RegionID : regions[r] # NoRegion => regions'[r] # NoRegion
    BY <2>3, <2>4, <2>7, NoRegionFacts
  <2>12. TaskInv'
    BY <2>1, <2>8, <2>9, <2>11 DEF TaskInv
  <2>13. IndexedInv'
    <3>1. \A r \in RegionID : indexed[r] = RangeOf(r)
      BY <2>1, IdleIndexed
    <3>2. indexed'[id] = old
      BY <2>1, <2>5, <3>1 DEF RangeOf, old
    <3>3. ASSUME NEW r \in RegionID, r # id PROVE indexed'[r] = RangeOf(r)'
      BY <2>1, <2>4, <2>5, <2>7, <2>11, <3>1, <3>3, NoRegionFacts DEF RangeOf
    <3> QED
      BY <2>8, <2>9, <3>2, <3>3 DEF IndexedInv
  <2>14. Consistent(root, indexed)' /\ SnapInv'
    BY <2>1, <2>5, <2>8, <2>11 DEF KVInv, SnapInv
  <2>15. SaverInv'
    BY <2>5, <2>11 DEF KVInv, SaverInv, NoSaver
  <2>16. PageStep /\ NoZombiePage'
    BY <2>1, <2>5, <2>11, SamePages DEF KVInv, NoZombiePage
  <2> QED
    BY <2>10, <2>12, <2>13, <2>14, <2>15, <2>16 DEF KVInv
<1> QED
  BY <1>1, <1>2

LEMMA StepMergePersist ==
    ASSUME KVInv, MergePersist
    PROVE  KVInv' /\ PageStep
<1>1. KVTypeOK /\ TaskInv /\ SnapInv /\ task.kind = "merge"
  BY DEF KVInv, MergePersist
<1>2. task.id \in RegionID /\ regions[task.id] # NoRegion
  BY <1>1 DEF TaskInv
<1>3. regions[task.id] \in Region /\ regions[task.id].meta.range \in RegionRange
  BY <1>1, <1>2, RegionsElim DEF KVTypeOK
<1>4. /\ table' = ShrinkRegionRange(table, task.id, regions[task.id].meta.range)
      /\ pages' = PersistRegion(task.id, regions[task.id])
      /\ task' = [task EXCEPT !.kind = "drop"]
      /\ UNCHANGED <<regions, root, indexed, stored, snap, saver, reply, failed>>
  BY DEF MergePersist
<1>5. /\ task' \in Task /\ task'.kind = "drop" /\ task'.id = task.id /\ task'.victim = task.victim
      /\ task'.ori = task.ori /\ task'.unindexed = task.unindexed /\ task'.unpersisted = task.unpersisted
  BY <1>1, <1>4 DEF KVTypeOK, Task, TaskKind
<1>6. table' \in Ranges
  BY <1>1, <1>2, <1>3, <1>4, TableType DEF KVTypeOK
<1>7. pages' \in Regions /\ PageStep /\ PageOfRegion
  BY <1>1, <1>2, <1>3, <1>4, OnePage
<1>8. KVTypeOK' /\ SnapInv' /\ SameRanges /\ Consistent(root, indexed)'
  BY <1>1, <1>4, <1>5, <1>6, <1>7 DEF KVInv, KVTypeOK, SnapInv, SameRanges
<1>9. TaskInv'
  BY <1>1, <1>4, <1>5 DEF TaskInv
<1>10. IndexedInv' /\ SaverInv' /\ NoZombiePage'
  BY <1>4, <1>5, <1>7, <1>8, SameRangesIndexed, SameRangesSaver, SameRangesPages
<1> QED
  BY <1>7, <1>8, <1>9, <1>10 DEF KVInv

LEMMA StepHandleBatchSplit ==
    ASSUME KVInv, NEW id \in RegionID, NEW index \in Nat, NEW meta \in RegionMeta,
           NEW births \in Births, NEW peer \in Nat, HandleBatchSplit(id, index, meta, births, peer)
    PROVE  KVInv' /\ PageStep
<1> DEFINE ori == regions[id].meta.range
           region == ExecBatchSplit(regions[id], meta, index)
           child(i) == NewRegion(births[i], peer, RAFT_INIT_LOG_INDEX)
           new == NewRegions(births)
<1>1. CASE RemoveThrows(root, ori, id)
  BY <1>1, StepThrow DEF HandleBatchSplit
<1>2. CASE ~RemoveThrows(root, ori, id)
  <2>1. KVTypeOK /\ SnapInv /\ TaskMutexFree /\ regions[id] # NoRegion
    BY DEF KVInv, HandleBatchSplit, AdminReady
  <2>2. regions[id] \in Region /\ ori \in RegionRange /\ meta.range \in RegionRange
    BY <2>1, RegionsElim DEF KVTypeOK, RegionMeta
  <2>3. region \in Region /\ region.meta = meta
    BY <2>2, ExecType
  <2>4. new \in SUBSET RegionID /\ \A i \in new : births[i] \in RegionMeta
    BY DEF Births, NewRegions
  <2>5. \A i \in new : child(i) \in Region
    <3>1. RAFT_INIT_LOG_INDEX \in Nat
      BY DEF RAFT_INIT_LOG_INDEX
    <3> QED
      BY <2>2, <2>4, <3>1, ExecType
  <2>6. /\ regions' = [i \in RegionID |->
                        IF i = id THEN region
                        ELSE IF i \in new /\ regions[i] = NoRegion THEN child(i) ELSE regions[i]]
        /\ root' = Add(Remove(root, ori, id), meta.range, id)
        /\ indexed' = [indexed EXCEPT ![id] = meta.range]
        /\ task' = Splitting(id, new)
        /\ UNCHANGED <<table, pages, stored, snap, saver, reply, failed>>
    BY <1>2 DEF HandleBatchSplit, diskVars
  <2>7. \A r \in RegionID : indexed[r] = RangeOf(r)
    BY <2>1, IdleIndexed
  <2>8. indexed[id] = ori /\ indexed \in Registrations /\ indexed[id] # NoRange
    BY <2>1, <2>2, <2>7, NoRangeAssumption DEF RangeOf, KVTypeOK, Ranges, Registrations
  <2> HIDE DEF ori, region, child, new
  <2>9. root' \in RootMap /\ Consistent(root, indexed)' /\ indexed' \in Ranges
    <3> DEFINE mid == Remove(root, ori, id)
               reg == [indexed EXCEPT ![id] = NoRange]
    <3>1. mid \in RootMap /\ Consistent(mid, reg)
      BY <2>1, <2>8, RemoveConsistent DEF KVInv, KVTypeOK
    <3>2. /\ reg \in Registrations /\ reg[id] = NoRange
          /\ [reg EXCEPT ![id] = meta.range] = [indexed EXCEPT ![id] = meta.range]
      BY <2>8 DEF Registrations
    <3>3. root' = Add(mid, meta.range, id)
      BY <2>6
    <3> HIDE DEF mid, reg
    <3>4. root' \in RootMap /\ Consistent(root', [reg EXCEPT ![id] = meta.range])
      BY <2>2, <3>1, <3>2, <3>3, AddConsistent
    <3>5. indexed' \in Ranges
      BY <2>1, <2>2, <2>6 DEF KVTypeOK, Ranges
    <3> QED
      BY <2>6, <3>2, <3>4, <3>5
  <2>10. regions' \in Regions
    BY <2>1, <2>3, <2>5, <2>6 DEF KVTypeOK, Regions
  <2>11. /\ task' \in Task /\ task'.kind = "split" /\ task'.id = id /\ task'.ori = NoRange
         /\ task'.victim = NoRegion
         /\ task'.unindexed = new /\ task'.unpersisted = new
    BY <2>4, <2>6 DEF Splitting, Task, TaskKind
  <2>12. KVTypeOK'
    BY <2>1, <2>6, <2>9, <2>10, <2>11 DEF KVTypeOK
  <2>13. /\ \A r \in RegionID : regions[r] # NoRegion => regions'[r] # NoRegion
         /\ \A r \in new : regions'[r] # NoRegion
    BY <2>3, <2>4, <2>5, <2>6, NoRegionFacts
  <2>14. TaskInv'
    BY <2>1, <2>11, <2>13 DEF TaskInv
  <2>15. IndexedInv'
    <3>1. indexed'[id] = RangeOf(id)'
      BY <2>1, <2>3, <2>6, <2>8, NoRegionFacts DEF RangeOf, Registrations
    <3>2. ASSUME NEW r \in RegionID, r # id
          PROVE  indexed'[r] = RangeOf(r)' \/ (r \in new /\ indexed'[r] = NoRange)
      <4>1. indexed'[r] = indexed[r]
        BY <2>6, <2>8, <3>2 DEF Registrations
      <4>2. CASE r \in new /\ regions[r] = NoRegion
        BY <2>7, <4>1, <4>2 DEF RangeOf
      <4>3. CASE ~(r \in new /\ regions[r] = NoRegion)
        <5>1. regions'[r] = regions[r]
          BY <2>6, <3>2, <4>3
        <5> QED
          BY <2>7, <4>1, <5>1 DEF RangeOf
      <4> QED
        BY <4>2, <4>3
    <3> QED
      BY <2>11, <3>1, <3>2 DEF IndexedInv
  <2>16. SaverInv' /\ SnapInv'
    <3>1. SnapInv'
      BY <2>1, <2>6, <2>11, <2>13, NoRegionFacts DEF SnapInv
    <3> QED
      BY <2>6, <2>13, <3>1 DEF KVInv, SaverInv, NoSaver
  <2>17. PageStep /\ NoZombiePage'
    BY <2>1, <2>6, <2>13, SamePages DEF KVInv, NoZombiePage
  <2> QED
    BY <2>9, <2>12, <2>14, <2>15, <2>16, <2>17 DEF KVInv
<1> QED
  BY <1>1, <1>2

\* restore and split add one region to the index.
LEMMA StepAddIndex ==
    ASSUME KVInv, NEW id \in RegionID, RestoreIndex(id) \/ SplitIndex(id)
    PROVE  KVInv' /\ PageStep
<1>1. KVTypeOK /\ TaskInv /\ SnapInv /\ task.kind \in {"restore", "split"} /\ id \in task.unindexed
  BY DEF KVInv, RestoreIndex, SplitIndex
<1> DEFINE range == regions[id].meta.range
<1>2. regions[id] # NoRegion /\ range \in RegionRange
  BY <1>1, RegionsElim DEF TaskInv, KVTypeOK
<1>3. /\ root' = Add(root, range, id)
      /\ indexed' = [indexed EXCEPT ![id] = range]
      /\ task' = [task EXCEPT !.unindexed = @ \ {id}]
      /\ UNCHANGED <<regions, table, pages, stored, snap, saver, reply, failed>>
  BY DEF RestoreIndex, SplitIndex, diskVars
<1>4. task.ori = NoRange
  BY <1>1 DEF TaskInv
<1>5. indexed[id] \in {NoRange, range} /\ indexed \in Registrations
  BY <1>1, <1>2, <1>4 DEF KVInv, IndexedInv, RangeOf, KVTypeOK, Ranges, Registrations
<1>6. /\ task' \in Task /\ task'.kind = task.kind /\ task'.id = task.id /\ task'.victim = task.victim
      /\ task'.ori = task.ori /\ task'.unindexed = task.unindexed \ {id}
      /\ task'.unpersisted = task.unpersisted
  BY <1>1, <1>3 DEF KVTypeOK, Task
<1> HIDE DEF range
<1>7. root' \in RootMap /\ Consistent(root, indexed)' /\ indexed' \in Ranges
  <2>1. root' \in RootMap /\ Consistent(root', [indexed EXCEPT ![id] = range])
    BY <1>1, <1>2, <1>3, <1>5, AddConsistent DEF KVInv, KVTypeOK
  <2>2. indexed' \in Ranges
    BY <1>1, <1>2, <1>3 DEF KVTypeOK, Ranges
  <2> QED
    BY <1>3, <2>1, <2>2
<1>8. KVTypeOK' /\ SnapInv' /\ SameRanges
  BY <1>1, <1>3, <1>6, <1>7 DEF KVTypeOK, SnapInv, SameRanges
<1>9. TaskInv'
  BY <1>1, <1>3, <1>6 DEF TaskInv, KVTypeOK, Task
<1>10. IndexedInv'
  <2>1. indexed'[id] = RangeOf(id)'
    BY <1>2, <1>3, <1>5 DEF RangeOf, range, Registrations
  <2>2. ASSUME NEW r \in RegionID, r # id
        PROVE  indexed'[r] = RangeOf(r)' \/ (r \in task'.unindexed /\ indexed'[r] = NoRange)
    <3>1. indexed'[r] = indexed[r] /\ regions'[r] = regions[r]
      BY <1>3, <1>5, <2>2 DEF Registrations
    <3> QED
      BY <1>4, <1>6, <2>2, <3>1 DEF KVInv, IndexedInv, RangeOf
  <2> QED
    BY <1>4, <1>6, <2>1, <2>2 DEF IndexedInv
<1>11. PageStep /\ PageOfRegion
  BY <1>1, <1>3, SamePages
<1>12. SaverInv' /\ NoZombiePage'
  BY <1>3, <1>8, <1>11, SameRangesSaver, SameRangesPages
<1> QED
  BY <1>7, <1>8, <1>9, <1>10, <1>11, <1>12 DEF KVInv

\* The last steps of restore, split and merge, where the task ends or goes on
\* with the same regions still to add.
LEMMA TaskStep ==
    ASSUME KVInv, KVTypeOK', TaskInv', SameRanges, UNCHANGED <<root, indexed, snap, saver>>,
           task'.victim \in {task.victim, NoRegion},
           \/ task'.ori = task.ori /\ task'.id = task.id
           \/ task'.ori = NoRange /\ task.ori = NoRange,
           task'.unindexed = task.unindexed, PageOfRegion
    PROVE  KVInv'
<1>1. IndexedInv'
  BY DEF KVInv, IndexedInv, RangeOf, SameRanges
<1>2. SaverInv' /\ NoZombiePage'
  BY SameRangesSaver, SameRangesPages
<1>3. SnapInv' /\ Consistent(root, indexed)'
  BY NoRegionFacts DEF KVInv, SnapInv, SameRanges
<1> QED
  BY <1>1, <1>2, <1>3 DEF KVInv

LEMMA IdleTask ==
    /\ Idle \in Task
    /\ Idle.kind = "idle" /\ Idle.victim = NoRegion /\ Idle.ori = NoRange /\ Idle.unindexed = {} /\ Idle.unpersisted = {}
BY DEF Idle, Task, TaskKind

LEMMA IdleTaskInv ==
    ASSUME task' = Idle
    PROVE  TaskInv'
BY IdleTask DEF TaskInv

LEMMA StepRestoreTable ==
    ASSUME KVInv, RestoreTable
    PROVE  KVInv' /\ PageStep
<1>1. KVTypeOK /\ TaskInv /\ task.kind = "restore" /\ task.unindexed = {}
  BY DEF KVInv, RestoreTable
<1>2. /\ table' = [id \in RegionID |-> IF regions[id] = NoRegion THEN NoRange ELSE regions[id].meta.range]
      /\ task' = Idle
      /\ UNCHANGED <<regions, root, indexed, pages, stored, snap, saver, reply, failed>>
  BY DEF RestoreTable, diskVars
<1>3. table' \in Ranges
  <2>1. \A id \in RegionID : regions[id] # NoRegion => regions[id].meta.range \in RegionRange
    BY <1>1, RegionsElim DEF KVTypeOK
  <2> QED
    BY <1>2, <2>1 DEF Ranges
<1>4. KVTypeOK' /\ SameRanges /\ TaskInv'
  BY <1>1, <1>2, <1>3, IdleTask, IdleTaskInv DEF KVTypeOK, SameRanges
<1>5. PageStep /\ PageOfRegion
  BY <1>1, <1>2, SamePages
<1>6. /\ task'.ori = NoRange /\ task.ori = NoRange /\ task'.unindexed = task.unindexed
      /\ task'.victim = NoRegion
  BY <1>1, <1>2, IdleTask DEF TaskInv
<1> QED
  BY <1>2, <1>4, <1>5, <1>6, TaskStep

LEMMA StepSplitTable ==
    ASSUME KVInv, SplitTable
    PROVE  KVInv' /\ PageStep
<1>1. KVTypeOK /\ TaskInv /\ task.kind = "split"
  BY DEF KVInv, SplitTable
<1>2. /\ table' = [i \in RegionID |->
                    IF i = task.id \/ (i \in task.unpersisted /\ table[i] = NoRange)
                    THEN regions[i].meta.range
                    ELSE table[i]]
      /\ task' = [task EXCEPT !.kind = "split_persist"]
      /\ task.unindexed = {}
      /\ UNCHANGED <<regions, root, indexed, pages, stored, snap, saver, reply, failed>>
  BY DEF SplitTable, diskVars
<1>3. table' \in Ranges
  <2>1. regions[task.id] # NoRegion /\ \A i \in task.unpersisted : regions[i] # NoRegion
    BY <1>1 DEF TaskInv
  <2>2. \A i \in RegionID : regions[i] # NoRegion => regions[i].meta.range \in RegionRange
    BY <1>1, RegionsElim DEF KVTypeOK
  <2> QED
    BY <1>1, <1>2, <2>1, <2>2 DEF Ranges, KVTypeOK
<1>4. /\ task' \in Task /\ task'.kind = "split_persist" /\ task'.id = task.id
      /\ task'.victim = task.victim /\ task'.ori = task.ori
      /\ task'.unindexed = task.unindexed /\ task'.unpersisted = task.unpersisted
  BY <1>1, <1>2 DEF KVTypeOK, Task, TaskKind
<1>5. KVTypeOK' /\ SameRanges
  BY <1>1, <1>2, <1>3, <1>4 DEF KVTypeOK, SameRanges
<1>6. TaskInv'
  BY <1>1, <1>2, <1>4 DEF TaskInv
<1>7. PageStep /\ PageOfRegion
  BY <1>1, <1>2, SamePages
<1> QED
  BY <1>2, <1>4, <1>5, <1>6, <1>7, TaskStep

LEMMA StepSplitPersist ==
    ASSUME KVInv, NEW child \in RegionID, SplitPersist(child)
    PROVE  KVInv' /\ PageStep
<1>1. KVTypeOK /\ TaskInv /\ task.kind = "split_persist" /\ child \in task.unpersisted
  BY DEF KVInv, SplitPersist
<1>2. /\ pages' = PersistRegion(child, regions[child])
      /\ task' = [task EXCEPT !.unpersisted = @ \ {child}]
      /\ UNCHANGED <<regions, root, indexed, table, stored, snap, saver, reply, failed>>
  BY DEF SplitPersist, memVars
<1>3. regions[child] # NoRegion /\ regions[child] \in Region
  BY <1>1, RegionsElim DEF TaskInv, KVTypeOK
<1>4. /\ task' \in Task /\ task'.kind = task.kind /\ task'.id = task.id
      /\ task'.victim = task.victim /\ task'.ori = task.ori
      /\ task'.unindexed = task.unindexed /\ task'.unpersisted = task.unpersisted \ {child}
  BY <1>1, <1>2 DEF KVTypeOK, Task
<1>5. pages' \in Regions /\ PageStep /\ PageOfRegion
  BY <1>1, <1>2, <1>3, OnePage
<1>6. KVTypeOK' /\ SameRanges
  BY <1>1, <1>2, <1>4, <1>5 DEF KVTypeOK, SameRanges
<1>7. TaskInv'
  BY <1>1, <1>2, <1>4 DEF TaskInv
<1> QED
  BY <1>2, <1>4, <1>5, <1>6, <1>7, TaskStep

LEMMA StepSplitFinish ==
    ASSUME KVInv, SplitFinish
    PROVE  KVInv' /\ PageStep
<1>1. KVTypeOK /\ TaskInv /\ task.kind = "split_persist"
  BY DEF KVInv, SplitFinish
<1>2. task.id \in RegionID /\ regions[task.id] # NoRegion /\ task.ori = NoRange /\ task.unindexed = {}
  BY <1>1 DEF TaskInv
<1>3. /\ pages' = PersistRegion(task.id, regions[task.id])
      /\ task' = Idle
      /\ reply' = Replied(task.id)
      /\ UNCHANGED <<regions, root, indexed, table, stored, snap, saver, failed>>
  BY DEF SplitFinish, memVars
<1>4. regions[task.id] \in Region
  BY <1>1, <1>2, RegionsElim DEF KVTypeOK
<1>5. pages' \in Regions /\ PageStep /\ PageOfRegion
  BY <1>1, <1>2, <1>3, <1>4, OnePage
<1>6. reply' \in [RegionID -> {"none", "persist"}]
  BY <1>1, <1>2, <1>3, RepliedType
<1>7. KVTypeOK' /\ SameRanges /\ TaskInv'
  BY <1>1, <1>3, <1>5, <1>6, IdleTask, IdleTaskInv DEF KVTypeOK, SameRanges
<1>8. task'.ori = NoRange /\ task'.unindexed = task.unindexed /\ task'.victim = NoRegion
  BY <1>2, <1>3, IdleTask
<1> QED
  BY <1>2, <1>3, <1>5, <1>7, <1>8, TaskStep

LEMMA StepRemoveRegionDrop ==
    ASSUME KVInv, RemoveRegionDrop
    PROVE  KVInv' /\ PageStep
<1> DEFINE v == task.victim
           range == regions[v].meta.range
<1>1. KVTypeOK /\ TaskInv /\ SnapInv /\ SaverInv /\ NoZombiePage /\ task.kind = "drop"
  BY DEF KVInv, RemoveRegionDrop
<1>2. v \in RegionID /\ regions[v] # NoRegion /\ task.unindexed = {} /\ task.id \in RegionID
  BY <1>1 DEF TaskInv
<1>3. range \in RegionRange
  BY <1>1, <1>2, RegionsElim DEF KVTypeOK
<1>4. indexed[v] = range /\ indexed \in Registrations /\ indexed[v] # NoRange
  <2>1. ~(task.ori # NoRange /\ v = task.id)
    BY <1>1 DEF TaskInv
  <2> QED
    BY <1>1, <1>2, <1>3, <2>1, NoRangeAssumption
       DEF KVInv, IndexedInv, RangeOf, KVTypeOK, Ranges, Registrations
<1>5. ~RemoveThrows(root, range, v)
  BY <1>1, <1>2, <1>4, RegisteredRemovable DEF KVInv, KVTypeOK
<1>6. /\ regions' = [regions EXCEPT ![v] = NoRegion]
      /\ root' = Remove(root, range, v)
      /\ indexed' = [indexed EXCEPT ![v] = NoRange]
      /\ pages' = [pages EXCEPT ![v] = NoRegion]
      /\ snap' = [snap EXCEPT !.removed = @ \/ snap.id = v]
      /\ saver' = [saver EXCEPT !.removed = @ \/ saver.id = v]
      /\ task' = [task EXCEPT !.kind = "clear"]
      /\ UNCHANGED <<table, stored, reply, failed>>
  BY <1>5 DEF RemoveRegionDrop
<1>7. /\ task' \in Task /\ task'.kind = "clear" /\ task'.id = task.id /\ task'.victim = v
      /\ task'.ori = task.ori /\ task'.unindexed = {} /\ task'.unpersisted = task.unpersisted
  BY <1>1, <1>2, <1>6 DEF KVTypeOK, Task, TaskKind
<1> HIDE DEF v, range
<1>8. root' \in RootMap /\ Consistent(root, indexed)' /\ indexed' \in Ranges
  <2>1. root' \in RootMap /\ Consistent(root', [indexed EXCEPT ![v] = NoRange])
    BY <1>1, <1>2, <1>4, <1>6, RemoveConsistent DEF KVInv, KVTypeOK
  <2>2. indexed' \in Ranges
    BY <1>1, <1>6 DEF KVTypeOK, Ranges
  <2> QED
    BY <1>6, <2>1, <2>2
<1>9. /\ saver' \in Saver /\ saver'.id = saver.id /\ saver'.buffer = saver.buffer
      /\ saver.removed \/ saver.id = v => saver'.removed
      /\ ~(saver.removed \/ saver.id = v) => saver' = saver
  BY <1>1, <1>6 DEF KVTypeOK, Saver
<1>10. regions' \in Regions /\ pages' \in Regions
  BY <1>1, <1>6 DEF KVTypeOK, Regions
<1>11. /\ snap' \in Snap /\ snap'.stage = snap.stage
       /\ snap'.id = snap.id /\ snap'.region = snap.region
  BY <1>1, <1>6 DEF KVTypeOK, Snap
<1>11a. KVTypeOK'
  BY <1>1, <1>6, <1>7, <1>8, <1>9, <1>10, <1>11 DEF KVTypeOK
<1>12. /\ regions'[v] = NoRegion /\ pages'[v] = NoRegion /\ indexed'[v] = NoRange
       /\ \A r \in RegionID \ {v} :
             regions'[r] = regions[r] /\ pages'[r] = pages[r] /\ indexed'[r] = indexed[r]
  BY <1>1, <1>2, <1>4, <1>6 DEF KVTypeOK, Regions, Registrations
<1>13. TaskInv'
  BY <1>1, <1>2, <1>7, <1>12 DEF TaskInv, v
<1>14. IndexedInv'
  <2>1. task.ori # NoRange => task.id # v
    BY <1>1 DEF TaskInv, v
  <2>2. ASSUME NEW r \in RegionID, r # v
        PROVE  IF task.ori # NoRange /\ r = task.id THEN indexed[r] = task.ori ELSE indexed[r] = RangeOf(r)
    BY <1>2, <2>2 DEF KVInv, IndexedInv
  <2> QED
    BY <1>7, <1>12, <2>1, <2>2, SMTT(60), ZenonT(60) DEF IndexedInv, RangeOf
<1>15. SaverInv'
  <2>1. CASE saver = NoSaver
    BY <1>2, <1>9, <2>1, NoRegionFacts DEF SaverInv, NoSaver
  <2>2. CASE saver # NoSaver
    BY <1>1, <1>9, <1>12, <2>2 DEF SaverInv
  <2> QED
    BY <2>1, <2>2
<1>16. NoZombiePage' /\ SnapInv'
  BY <1>1, <1>7, <1>11, <1>12 DEF NoZombiePage, SnapInv, v
<1>17. PageStep
  <2>1. \A r \in RegionID : pages[r] # NoRegion => pages[r].applied \in Nat
    BY <1>1, RegionsElim DEF KVTypeOK, Region
  <2> QED
    BY <1>12, <2>1, SMTT(60) DEF PageStep
<1> QED
  BY <1>8, <1>13, <1>14, <1>15, <1>16, <1>17, <1>11a DEF KVInv

LEMMA StepRemoveRegionClear ==
    ASSUME KVInv, RemoveRegionClear
    PROVE  KVInv' /\ PageStep
<1>1. KVTypeOK /\ TaskInv /\ task.kind = "clear"
  BY DEF KVInv, RemoveRegionClear
<1>2. /\ task.id \in RegionID /\ task.victim \in RegionID /\ task.unindexed = {}
      /\ task.ori # NoRange => task.id # task.victim /\ regions[task.id] # NoRegion
  BY <1>1 DEF TaskInv
<1>3. UNCHANGED <<regions, root, indexed, pages, snap, saver, failed>>
  BY DEF RemoveRegionClear
<1>4. stored' \in SUBSET RangeKey
  BY <1>1, DeleteRangeType DEF RemoveRegionClear, KVTypeOK
<1>5. table' \in Ranges
  BY <1>1 DEF RemoveRegionClear, KVTypeOK, Ranges
<1>6. PageStep /\ PageOfRegion /\ SameRanges
  BY <1>1, <1>3, SamePages DEF SameRanges
<1>7. CASE task.ori = NoRange
  <2>1. task' = Idle /\ reply' = Replied(task.id)
    BY <1>7 DEF RemoveRegionClear
  <2>2. reply' \in [RegionID -> {"none", "persist"}]
    BY <1>1, <1>2, <2>1, RepliedType
  <2>3. KVTypeOK' /\ TaskInv'
    BY <1>1, <1>3, <1>4, <1>5, <2>1, <2>2, IdleTask, IdleTaskInv DEF KVTypeOK
  <2>4. task'.ori = NoRange /\ task'.unindexed = task.unindexed /\ task'.victim = NoRegion
    BY <1>2, <2>1, IdleTask
  <2> QED
    BY <1>3, <1>6, <1>7, <2>3, <2>4, TaskStep
<1>8. CASE task.ori # NoRange
  <2>1. task' = [task EXCEPT !.kind = "reindex"] /\ reply' = reply
    BY <1>8 DEF RemoveRegionClear
  <2>2. /\ task' \in Task /\ task'.kind = "reindex" /\ task'.id = task.id
        /\ task'.victim = task.victim /\ task'.ori = task.ori
        /\ task'.unindexed = task.unindexed /\ task'.unpersisted = task.unpersisted
    BY <1>1, <2>1 DEF KVTypeOK, Task, TaskKind
  <2>3. KVTypeOK'
    BY <1>1, <1>3, <1>4, <1>5, <2>1, <2>2 DEF KVTypeOK
  <2>4. TaskInv'
    BY <1>1, <1>2, <1>3, <1>8, <2>2 DEF TaskInv
  <2> QED
    BY <1>3, <1>6, <2>2, <2>3, <2>4, TaskStep
<1> QED
  BY <1>7, <1>8

\* Changing the registration of a region from one range to another.
LEMMA Reindexed ==
    ASSUME KVInv, NEW id \in RegionID, NEW old, indexed[id] = old, old # NoRange,
           NEW range \in RegionRange
    PROVE  /\ ~RemoveThrows(root, old, id)
           /\ Add(Remove(root, old, id), range, id) \in RootMap
           /\ Consistent(Add(Remove(root, old, id), range, id), [indexed EXCEPT ![id] = range])
<1> DEFINE mid == Remove(root, old, id)
           reg == [indexed EXCEPT ![id] = NoRange]
<1>1. root \in RootMap /\ indexed \in Registrations /\ Consistent(root, indexed)
  BY DEF KVInv, KVTypeOK, Ranges, Registrations
<1>2. mid \in RootMap /\ Consistent(mid, reg)
  BY <1>1, RemoveConsistent
<1>3. /\ reg \in Registrations /\ reg[id] = NoRange
      /\ [reg EXCEPT ![id] = range] = [indexed EXCEPT ![id] = range]
  BY <1>1 DEF Registrations
<1>4. ~RemoveThrows(root, old, id)
  BY <1>1, RegisteredRemovable
<1> HIDE DEF mid, reg
<1>5. Add(mid, range, id) \in RootMap /\ Consistent(Add(mid, range, id), [reg EXCEPT ![id] = range])
  BY <1>2, <1>3, AddConsistent
<1> QED
  BY <1>3, <1>4, <1>5 DEF mid

LEMMA StepMergeReindex ==
    ASSUME KVInv, MergeReindex
    PROVE  KVInv' /\ PageStep
<1>1. KVTypeOK /\ TaskInv /\ SnapInv /\ task.kind = "reindex"
  BY DEF KVInv, MergeReindex
<1>0. PICK id \in RegionID : id = task.id
  BY <1>1 DEF TaskInv
<1> DEFINE range == regions[id].meta.range
<1>2. /\ regions[id] # NoRegion /\ task.ori # NoRange /\ task.unindexed = {}
  BY <1>0, <1>1 DEF TaskInv
<1>3. range \in RegionRange
  BY <1>1, <1>2, RegionsElim DEF KVTypeOK
<1>4. indexed[id] = task.ori
  BY <1>0, <1>2 DEF KVInv, IndexedInv
<1>5. /\ ~RemoveThrows(root, task.ori, id)
      /\ Add(Remove(root, task.ori, id), range, id) \in RootMap
      /\ Consistent(Add(Remove(root, task.ori, id), range, id), [indexed EXCEPT ![id] = range])
  BY <1>2, <1>3, <1>4, Reindexed
<1>6. /\ root' = Add(Remove(root, task.ori, id), range, id)
      /\ indexed' = [indexed EXCEPT ![id] = range]
      /\ task' = Idle
      /\ reply' = Replied(id)
      /\ UNCHANGED <<regions, table, pages, stored, snap, saver, failed>>
  BY <1>0, <1>5 DEF MergeReindex, diskVars
<1>7. root' \in RootMap /\ Consistent(root, indexed)'
  BY <1>5, <1>6
<1> HIDE DEF range
<1>8. indexed' \in Ranges /\ reply' \in [RegionID -> {"none", "persist"}]
  BY <1>1, <1>2, <1>3, <1>6, RepliedType DEF KVTypeOK, Ranges
<1>9. KVTypeOK' /\ SnapInv' /\ SameRanges /\ TaskInv'
  BY <1>1, <1>6, <1>7, <1>8, IdleTask, IdleTaskInv, NoRegionFacts DEF KVTypeOK, SnapInv, SameRanges
<1>10. IndexedInv'
  <2>1. indexed'[id] = RangeOf(id)'
    BY <1>1, <1>2, <1>6 DEF RangeOf, range, KVTypeOK, Ranges
  <2>2. ASSUME NEW r \in RegionID, r # id PROVE indexed'[r] = RangeOf(r)'
    <3>1. indexed'[r] = indexed[r]
      BY <1>1, <1>6, <2>2 DEF KVTypeOK, Ranges
    <3> QED
      BY <1>0, <1>2, <1>6, <2>2, <3>1 DEF KVInv, IndexedInv, RangeOf
  <2> QED
    BY <1>6, <2>1, <2>2, IdleTask DEF IndexedInv
<1>11. PageStep /\ PageOfRegion
  BY <1>1, <1>6, SamePages
<1>12. SaverInv' /\ NoZombiePage'
  BY <1>6, <1>9, <1>11, SameRangesSaver, SameRangesPages
<1> QED
  BY <1>7, <1>9, <1>10, <1>11, <1>12 DEF KVInv

-----------------------------------------------------------------------------
(***************************************************************************)
(* Snapshots, the background flush, restart, and the theorems.             *)
(***************************************************************************)

\* The lookup of the old region, without a lock.
LEMMA StepSnapshotStart ==
    ASSUME KVInv, NEW id \in RegionID, NEW new \in Region, id # task.victim, SnapshotStart(id, new)
    PROVE  KVInv' /\ PageStep
<1>1. KVTypeOK /\ SnapInv
  BY DEF KVInv
<1>2. CASE Throw
  BY <1>2, StepThrow
<1>3. CASE /\ reply' = Replied(id)
           /\ UNCHANGED <<regions, root, indexed, table, pages, stored, task, snap, saver, failed>>
  <2>1. KVTypeOK' /\ SnapInv' /\ SameRanges
    BY <1>1, <1>3, RepliedType DEF KVTypeOK, SnapInv, SameRanges
  <2>2. PageStep /\ PageOfRegion
    BY <1>1, <1>3, SamePages
  <2> QED
    BY <1>3, <2>1, <2>2, Quiet
<1>4. CASE /\ snap' = IF regions[id] = NoRegion
                      THEN Applying("check", id, new, 0)
                      ELSE Applying("apply", id, new, regions[id].applied)
           /\ UNCHANGED <<regions, root, indexed, table, pages, stored, task, saver, reply, failed>>
  <2>1. snap' \in Snap /\ SnapInv'
    <3>1. CASE regions[id] = NoRegion
      <4>1. snap' = Applying("check", id, new, 0)
        BY <1>4, <3>1
      <4> QED
        BY <4>1 DEF Applying, Snap, SnapStage, SnapInv
    <3>2. CASE regions[id] # NoRegion
      <4>1. snap' = Applying("apply", id, new, regions[id].applied)
        BY <1>4, <3>2
      <4>2. regions[id].applied \in Nat
        BY <1>1, <3>2, RegionsElim DEF KVTypeOK, Region
      <4>3. /\ snap' \in Snap /\ snap'.stage = "apply"
            /\ snap'.id = id /\ snap'.region = new
        BY <4>1, <4>2 DEF Applying, Snap, SnapStage
      <4> QED
        BY <1>4, <3>2, <4>3 DEF SnapInv
    <3> QED
      BY <3>1, <3>2
  <2>2. KVTypeOK' /\ SameRanges
    BY <1>1, <1>4, <2>1 DEF KVTypeOK, SameRanges
  <2>3. PageStep /\ PageOfRegion
    BY <1>1, <1>4, SamePages
  <2> QED
    BY <1>4, <2>1, <2>2, <2>3, Quiet
<1> QED
  BY <1>2, <1>3, <1>4 DEF SnapshotStart, memVars, diskVars

\* The next stage of a snapshot.
LEMMA NextStage ==
    ASSUME KVTypeOK, SnapInv, snap.stage # "idle", NEW stage \in SnapStage \ {"apply"},
           snap' = [snap EXCEPT !.stage = stage]
    PROVE  snap' \in Snap /\ SnapInv'
<1>1. snap' \in Snap /\ snap'.stage = stage /\ snap'.id = snap.id /\ snap'.region = snap.region
  BY DEF KVTypeOK, Snap
<1> QED
  BY <1>1 DEF SnapInv

LEMMA StepSnapshotSetApplying ==
    ASSUME KVInv, SnapshotSetApplying
    PROVE  KVInv' /\ PageStep
<1>1. KVTypeOK /\ SnapInv /\ snap.stage = "apply"
  BY DEF KVInv, SnapshotSetApplying
<1>2. PICK id \in RegionID : id = snap.id
  BY <1>1 DEF SnapInv
<1> DEFINE applying == [regions[id] EXCEPT !.state = "Applying"]
<1>3. regions[id] # NoRegion /\ regions[id] \in Region
  BY <1>1, <1>2, RegionsElim DEF SnapInv, KVTypeOK
<1>4. /\ regions' = [regions EXCEPT ![id] = applying]
      /\ pages' = PersistRegion(id, applying)
      /\ snap' = [snap EXCEPT !.stage = "check"]
      /\ UNCHANGED <<root, indexed, table, stored, task, saver, reply, failed>>
  BY <1>2 DEF SnapshotSetApplying
<1>5. applying \in Region /\ applying.meta = regions[id].meta
  BY <1>3 DEF Region, PeerState
<1> HIDE DEF applying
<1>6. regions' \in Regions /\ SameRanges
  BY <1>1, <1>3, <1>4, <1>5, NoRegionFacts DEF KVTypeOK, Regions, SameRanges
<1>7. snap' \in Snap /\ SnapInv'
  BY <1>1, <1>4, NextStage DEF SnapStage
<1>8. pages' \in Regions /\ PageStep /\ PageOfRegion
  BY <1>1, <1>3, <1>4, <1>5, OnePage
<1>9. KVTypeOK'
  BY <1>1, <1>4, <1>6, <1>7, <1>8 DEF KVTypeOK
<1> QED
  BY <1>4, <1>6, <1>7, <1>8, <1>9, Quiet

LEMMA StepSnapshotMiddle ==
    ASSUME KVInv, SnapshotCheckOverlap \/ SnapshotDeleteRange \/ SnapshotFlush
    PROVE  KVInv' /\ PageStep
<1>1. KVTypeOK /\ SnapInv
  BY DEF KVInv
<1>2. CASE Throw
  BY <1>2, StepThrow
<1>3. CASE ~Throw
  <2>1. /\ UNCHANGED <<regions, root, indexed, pages, task, saver, reply, failed>>
        /\ snap.stage # "idle"
        /\ \E stage \in SnapStage \ {"apply"} : snap' = [snap EXCEPT !.stage = stage]
    BY <1>3 DEF SnapshotCheckOverlap, SnapshotDeleteRange, SnapshotFlush, memVars, diskVars, SnapStage
  <2>2. snap' \in Snap /\ SnapInv'
    BY <1>1, <2>1, NextStage
  <2>3. snap.id \in RegionID /\ snap.region.meta.range \in RegionRange
    BY <1>1, <2>1 DEF SnapInv, Region, RegionMeta
  <2>4. table' \in Ranges /\ stored' \in SUBSET RangeKey
    <3>1. CASE SnapshotCheckOverlap
      BY <1>1, <1>3, <3>1 DEF SnapshotCheckOverlap, memVars, diskVars, KVTypeOK
    <3>2. CASE SnapshotDeleteRange
      BY <1>1, <3>2, DeleteRangeType DEF SnapshotDeleteRange, memVars, KVTypeOK
    <3>3. CASE SnapshotFlush
      BY <1>1, <2>3, <3>3, TableType DEF SnapshotFlush, KVTypeOK, KeysOf
    <3> QED
      BY <3>1, <3>2, <3>3
  <2>5. KVTypeOK' /\ SameRanges
    BY <1>1, <2>1, <2>2, <2>4 DEF KVTypeOK, SameRanges
  <2>6. PageStep /\ PageOfRegion
    BY <1>1, <2>1, SamePages
  <2> QED
    BY <2>1, <2>2, <2>5, <2>6, Quiet
<1> QED
  BY <1>2, <1>3

LEMMA StepSnapshotAssign ==
    ASSUME KVInv, SnapshotAssign
    PROVE  KVInv' /\ PageStep
<1>1. CASE Throw
  BY <1>1, StepThrow
<1>2. CASE ~Throw
  <2>1. KVTypeOK /\ SnapInv /\ TaskMutexFree /\ task = Idle /\ snap.stage # "idle"
    BY IdleIndexed DEF KVInv, SnapshotAssign
  <2>2. PICK id \in RegionID, region \in Region : id = snap.id /\ region = snap.region
    BY <2>1 DEF SnapInv
  <2> DEFINE range == region.meta.range
             ori == regions[id].meta.range
  <2>3. range \in RegionRange
    BY DEF Region, RegionMeta
  <2>4. /\ regions' = [regions EXCEPT ![id] = region]
        /\ root' = Add(IF snap.old THEN Remove(root, ori, id) ELSE root, range, id)
        /\ indexed' = [indexed EXCEPT ![id] = range]
        /\ pages' = PersistRegion(id, region)
        /\ table' = ShrinkRegionRange(table, id, range)
        /\ reply' = Replied(id)
        /\ snap' = NoSnap
        /\ UNCHANGED <<stored, task, saver, failed>>
        /\ snap.old <=> regions[id] # NoRegion
    BY <1>2, <2>2 DEF SnapshotAssign, InstanceChanged, KVTypeOK, Snap
  <2>5. \A r \in RegionID : indexed[r] = RangeOf(r)
    BY <2>1, IdleIndexed
  <2>6. root' \in RootMap /\ Consistent(root', [indexed EXCEPT ![id] = range])
    <3>1. CASE regions[id] # NoRegion
      <4>1. ori \in RegionRange /\ indexed[id] = ori /\ ori # NoRange
        BY <2>1, <2>5, <3>1, RegionsElim, NoRangeAssumption DEF RangeOf, KVTypeOK
      <4>2. root' = Add(Remove(root, ori, id), range, id)
        BY <2>4, <3>1
      <4> HIDE DEF ori, range
      <4> QED
        BY <2>3, <4>1, <4>2, Reindexed
    <3>2. CASE regions[id] = NoRegion
      <4>1. indexed[id] = NoRange
        BY <2>5, <3>2 DEF RangeOf
      <4>2. root' = Add(root, range, id)
        BY <2>4, <3>2
      <4>3. root \in RootMap /\ indexed \in Registrations /\ Consistent(root, indexed)
        BY DEF KVInv, KVTypeOK, Ranges, Registrations
      <4> HIDE DEF range
      <4> QED
        BY <2>3, <4>1, <4>2, <4>3, AddConsistent
    <3> QED
      BY <3>1, <3>2
  <2>7. pages' \in Regions /\ PageStep
        /\ \A r \in RegionID : pages'[r] # NoRegion => r = id \/ pages[r] # NoRegion
    BY <2>1, <2>4, PersistRegionType DEF KVTypeOK, PageStep
  <2> HIDE DEF range, ori
  <2>8. regions' \in Regions /\ indexed' \in Ranges
    BY <2>1, <2>3, <2>4 DEF KVTypeOK, Regions, Ranges
  <2>9. table' \in Ranges /\ reply' \in [RegionID -> {"none", "persist"}]
    BY <2>1, <2>3, <2>4, TableType, RepliedType DEF KVTypeOK
  <2>10. snap' \in Snap /\ SnapInv'
    BY <2>4 DEF NoSnap, Snap, SnapStage, SnapInv
  <2>11. KVTypeOK'
    BY <2>1, <2>4, <2>6, <2>7, <2>8, <2>9, <2>10 DEF KVTypeOK
  <2>12. TaskInv'
    BY <2>1, <2>4, IdleTaskInv
  <2>13. /\ regions'[id] = region /\ indexed'[id] = range /\ region # NoRegion
         /\ \A r \in RegionID \ {id} : regions'[r] = regions[r] /\ indexed'[r] = indexed[r]
    BY <2>1, <2>4, NoRegionFacts DEF KVTypeOK, Regions, Ranges
  <2>14. IndexedInv'
    <3>1. \A r \in RegionID : indexed'[r] = RangeOf(r)'
      BY <2>5, <2>13 DEF RangeOf, range
    <3> QED
      BY <2>1, <2>4, <3>1, IdleTask DEF IndexedInv
  <2>15. SaverInv'
    BY <2>4, <2>13 DEF KVInv, SaverInv, NoSaver
  <2>16. NoZombiePage'
    BY <2>7, <2>13 DEF KVInv, NoZombiePage
  <2>17. Consistent(root, indexed)'
    BY <2>4, <2>6
  <2> QED
    BY <2>7, <2>10, <2>11, <2>12, <2>14, <2>15, <2>16, <2>17 DEF KVInv
<1> QED
  BY <1>1, <1>2

LEMMA StepTryPersistSerialize ==
    ASSUME KVInv, NEW id \in RegionID, TryPersistSerialize(id)
    PROVE  KVInv' /\ PageStep
<1>1. KVTypeOK /\ SnapInv /\ TaskInv /\ IndexedInv /\ NoZombiePage
  BY DEF KVInv
<1>2. /\ saver' = [id |-> id, buffer |-> regions[id], removed |-> FALSE]
      /\ regions[id] # NoRegion
      /\ UNCHANGED <<regions, root, indexed, table, pages, stored, task, snap, reply, failed>>
  BY DEF TryPersistSerialize, memVars, diskVars
<1>3. regions[id] \in Region
  BY <1>1, <1>2, RegionsElim DEF KVTypeOK
<1>4. saver' \in Saver /\ SaverInv'
  BY <1>2, <1>3 DEF Saver, SaverInv
<1>5. KVTypeOK' /\ SnapInv' /\ NoZombiePage' /\ Consistent(root, indexed)'
  BY <1>1, <1>2, <1>4 DEF KVInv, KVTypeOK, SnapInv, NoZombiePage
<1>6. TaskInv' /\ IndexedInv'
  BY <1>1, <1>2 DEF TaskInv, IndexedInv, RangeOf
<1>7. PageStep
  BY <1>1, <1>2, SamePages
<1> QED
  BY <1>4, <1>5, <1>6, <1>7 DEF KVInv

LEMMA StepTryPersistWrite ==
    ASSUME KVInv, TryPersistWrite
    PROVE  KVInv' /\ PageStep
<1>1. KVTypeOK /\ SnapInv /\ SaverInv /\ saver # NoSaver
  BY DEF KVInv, TryPersistWrite
<1>2. PICK id \in RegionID, buffer \in Region : id = saver.id /\ buffer = saver.buffer
  BY <1>1 DEF SaverInv
<1> DEFINE gone == saver.removed \/ IsPendingRemove(regions[id])
<1>3. gone \in BOOLEAN
  BY <1>1 DEF KVTypeOK, Saver, IsPendingRemove
<1>4. gone \/ regions[id] # NoRegion
  BY <1>1, <1>2 DEF SaverInv
<1>5. /\ pages' = Persist(pages, id, buffer, gone)
      /\ saver' = NoSaver
      /\ UNCHANGED <<regions, root, indexed, table, stored, task, snap, reply, failed>>
  BY <1>2 DEF TryPersistWrite, memVars
<1> HIDE DEF gone
<1>6. /\ pages' \in Regions
      /\ \A r \in RegionID : r # id => pages'[r] = pages[r]
      /\ gone => pages' = pages
      /\ pages[id] # NoRegion => pages'[id].applied >= pages[id].applied
  BY <1>1, <1>3, <1>5, PersistType, SMTT(60) DEF KVTypeOK
<1>7. PageOfRegion
  BY <1>4, <1>6 DEF PageOfRegion
<1>8. PageStep
  <2>1. \A r \in RegionID : pages[r] # NoRegion => pages[r].applied \in Nat
    BY <1>1, RegionsElim DEF KVTypeOK, Region
  <2> QED
    BY <1>6, <2>1, SMTT(60) DEF PageStep
<1>9. saver' \in Saver
  BY <1>5 DEF NoSaver, Saver
<1>10. KVTypeOK' /\ SameRanges /\ SnapInv'
  BY <1>1, <1>5, <1>6, <1>9 DEF KVTypeOK, SameRanges, SnapInv
<1> QED
  BY <1>5, <1>7, <1>8, <1>10, Quiet

\* The empty index registers nothing.
LEMMA ClearedConsistent ==
    ASSUME NEW none, none = [id \in RegionID |-> NoRange]
    PROVE  ClearedRoot \in RootMap /\ Consistent(ClearedRoot, none)
<1>1. {0, MaxKey} \in SUBSET RangeKey
  BY MaxKeyAssumption, SMTT(60) DEF RangeKey
<1>2. ClearedRoot \in [{0, MaxKey} -> SUBSET RegionID]
  BY DEF ClearedRoot
<1>3. ClearedRoot \in RootMap
  BY <1>1, <1>2, RootMapIntro
<1>4. DOMAIN ClearedRoot = {0, MaxKey} /\ \A k \in {0, MaxKey} : ClearedRoot[k] = {}
  BY DEF ClearedRoot
<1> QED
  BY <1>3, <1>4 DEF Consistent

\* A process that has just started satisfies the invariant.
LEMMA BootedInv ==
    ASSUME pages \in Regions, stored \in SUBSET RangeKey, Booted
    PROVE  KVInv
<1> USE DEF Booted
<1>1. root \in RootMap /\ Consistent(root, indexed)
  BY ClearedConsistent
<1>2. indexed \in Ranges /\ table \in Ranges /\ reply \in [RegionID -> {"none", "persist"}]
  BY DEF Ranges
<1>3. /\ task \in Task /\ task.kind = "restore" /\ task.ori = NoRange /\ task.unpersisted = {}
      /\ task.unindexed = {id \in RegionID : pages[id] # NoRegion}
  BY DEF Restoring, Task, TaskKind
<1>4. snap \in Snap /\ SnapInv
  BY DEF NoSnap, Snap, SnapStage, SnapInv
<1>5. saver \in Saver /\ SaverInv
  BY DEF NoSaver, Saver, SaverInv
<1>6. KVTypeOK
  BY <1>1, <1>2, <1>3, <1>4, <1>5 DEF KVTypeOK
<1>7. TaskInv
  BY <1>3 DEF TaskInv
<1>8. IndexedInv
  BY <1>3 DEF IndexedInv, RangeOf
<1>9. NoZombiePage
  BY DEF NoZombiePage
<1> QED
  BY <1>1, <1>4, <1>5, <1>6, <1>7, <1>8, <1>9 DEF KVInv

LEMMA StepRestart ==
    ASSUME KVInv, Restart
    PROVE  KVInv' /\ PageStep
<1>1. KVTypeOK
  BY DEF KVInv
<1>2. /\ regions' = pages
      /\ root' = ClearedRoot
      /\ indexed' = [id \in RegionID |-> NoRange]
      /\ table' = [id \in RegionID |-> NoRange]
      /\ task' = Restoring
      /\ snap' = NoSnap
      /\ saver' = NoSaver
      /\ reply' = [id \in RegionID |-> "none"]
      /\ UNCHANGED <<pages, stored, failed>>
  BY DEF Restart, diskVars
<1>3. root' \in RootMap /\ Consistent(root, indexed)'
  BY <1>2, ClearedConsistent
<1>4. indexed' \in Ranges /\ table' \in Ranges /\ reply' \in [RegionID -> {"none", "persist"}]
  BY <1>2 DEF Ranges
<1>5. /\ task' \in Task /\ task'.kind = "restore" /\ task'.ori = NoRange /\ task'.unpersisted = {}
      /\ task'.unindexed = {id \in RegionID : pages[id] # NoRegion}
  BY <1>2 DEF Restoring, Task, TaskKind
<1>6. snap' \in Snap /\ SnapInv' /\ saver' \in Saver /\ SaverInv'
  BY <1>2 DEF NoSnap, Snap, SnapStage, SnapInv, NoSaver, Saver, SaverInv
<1>7. KVTypeOK'
  BY <1>1, <1>2, <1>3, <1>4, <1>5, <1>6 DEF KVTypeOK
<1>8. TaskInv'
  BY <1>2, <1>5 DEF TaskInv
<1>9. IndexedInv'
  BY <1>2, <1>5 DEF IndexedInv, RangeOf
<1>10. NoZombiePage' /\ PageStep
  BY <1>1, <1>2, SamePages DEF NoZombiePage
<1> QED
  BY <1>3, <1>6, <1>7, <1>8, <1>9, <1>10 DEF KVInv

-----------------------------------------------------------------------------
(***************************************************************************)
(* The theorems.                                                           *)
(***************************************************************************)

LEMMA StepCall ==
    ASSUME KVInv, NEW id \in RegionID, Call(id)
    PROVE  KVInv' /\ PageStep
<1>1. ASSUME NEW new \in Region, ~Busy(id), SnapshotStart(id, new) PROVE KVInv' /\ PageStep
  BY <1>1, StepSnapshotStart DEF Busy
<1>2. CASE ~Busy(id) /\ HandleDestroy(id)
  BY <1>2, StepHandleDestroy DEF Busy
<1>3. CASE AdminNotFound(id) \/ Return(id)
  <2>1. 0 \in Nat
    OBVIOUS
  <2> QED
    BY <1>3, <2>1, StepAdminIndexError
<1>4. ASSUME NEW index \in Nat,
             \/ HandleWriteRaftCmd(id, index)
             \/ \E sync_log \in BOOLEAN : HandleUselessAdminRaftCmd(id, index, sync_log)
             \/ AdminIndexError(id, index)
             \/ \E left \in RegionMeta : HandlePrepareMerge(id, index, left)
             \/ \E commit \in Nat, left \in RegionMeta : HandleRollbackMerge(id, index, commit, left)
      PROVE  KVInv' /\ PageStep
  BY <1>4, StepHandleWriteRaftCmd, StepHandleUselessAdminRaftCmd, StepAdminIndexError,
     StepHandlePrepareMerge, StepHandleRollbackMerge
<1>5. ASSUME NEW index \in Nat, NEW meta \in RegionMeta, NEW peer \in Nat,
             ~Busy(id), regions[id] # NoRegion => meta.range = regions[id].meta.range,
             HandleChangePeer(id, index, meta, peer)
      PROVE  KVInv' /\ PageStep
  BY <1>5, StepHandleChangePeer DEF Busy
<1>6. ASSUME NEW index \in Nat, NEW meta \in RegionMeta, NEW births \in Births, NEW peer \in Nat,
             HandleBatchSplit(id, index, meta, births, peer)
      PROVE  KVInv' /\ PageStep
  BY <1>6, StepHandleBatchSplit
<1>7. ASSUME NEW index \in Nat, NEW source \in RegionID \ {id}, NEW meta \in RegionMeta, NEW left \in RegionMeta,
             ~Busy(source), HandleCommitMerge(id, index, source, meta, left)
      PROVE  KVInv' /\ PageStep
  BY <1>7, StepHandleCommitMerge DEF Busy
<1>8. ASSUME NEW index \in Nat, NEW source \in RegionID \ {id},
             ~Busy(source), HandleCommitMergeIndexError(id, index, source)
      PROVE  KVInv' /\ PageStep
  BY <1>8, StepHandleCommitMergeIndexError DEF Busy
<1> QED
  BY <1>1, <1>2, <1>3, <1>4, <1>5, <1>6, <1>7, <1>8 DEF Call

LEMMA StepKVNext ==
    ASSUME KVInv, [KVNext]_kvVars
    PROVE  KVInv' /\ PageStep
<1>1. CASE \E id \in RegionID : Call(id) \/ TryPersistSerialize(id)
  BY <1>1, StepCall, StepTryPersistSerialize
<1>2. CASE \E id \in RegionID : RestoreIndex(id) \/ SplitIndex(id) \/ SplitPersist(id)
  BY <1>2, StepAddIndex, StepSplitPersist
<1>3. CASE RestoreTable \/ SplitTable \/ SplitFinish \/ MergePersist
  BY <1>3, StepRestoreTable, StepSplitTable, StepSplitFinish, StepMergePersist
<1>4. CASE RemoveRegionDrop \/ RemoveRegionClear \/ MergeReindex
  BY <1>4, StepRemoveRegionDrop, StepRemoveRegionClear, StepMergeReindex
<1>5. CASE SnapshotSetApplying \/ SnapshotCheckOverlap \/ SnapshotDeleteRange \/ SnapshotFlush \/ SnapshotAssign
  BY <1>5, StepSnapshotSetApplying, StepSnapshotMiddle, StepSnapshotAssign
<1>6. CASE TryPersistWrite \/ Restart
  BY <1>6, StepTryPersistWrite, StepRestart
<1>7. CASE UNCHANGED kvVars
  BY <1>7, StepUnchanged
<1> QED
  BY <1>1, <1>2, <1>3, <1>4, <1>5, <1>6, <1>7 DEF KVNext, Step

\* The inductive invariant holds for KVStore under every sequence of
\* well-formed calls, crashes and background persists.
THEOREM KVInvHolds == KVSpec => []KVInv
<1>1. KVInit => KVInv
  BY BootedInv DEF KVInit
<1>2. KVInv /\ [KVNext]_kvVars => KVInv'
  BY StepKVNext
<1> QED
  BY <1>1, <1>2, PTL DEF KVSpec

\* Region map, index, RegionTable, pages and the state of every handler keep
\* their types.
THEOREM KVTypeOKHolds == KVSpec => []KVTypeOK
<1>1. KVInv => KVTypeOK
  BY DEF KVInv
<1> QED
  BY <1>1, KVInvHolds, PTL

\* Whenever task_mutex is free, findByRangeOverlap returns the regions of the
\* map that overlap, no more and no fewer.
THEOREM IndexMatchesRegionsHolds == KVSpec => []IndexMatchesRegions
<1>1. KVInv => IndexMatchesRegions
  <2> SUFFICES ASSUME KVInv, TaskMutexFree, NEW range \in RegionRange
               PROVE  FindByRangeOverlap(root, range)
                        = {r \in RegionID : regions[r] # NoRegion /\ Overlaps(regions[r].meta.range, range)}
    BY DEF IndexMatchesRegions
  <2>1. \A r \in RegionID : indexed[r] = RangeOf(r)
    BY IdleIndexed
  <2>2. root \in RootMap /\ indexed \in Registrations /\ Consistent(root, indexed)
    BY DEF KVInv, KVTypeOK, Ranges, Registrations
  <2>3. FindByRangeOverlap(root, range)
          = {r \in RegionID : indexed[r] # NoRange /\ Overlaps(indexed[r], range)}
    BY <2>2, LookupExact
  <2>4. ASSUME NEW r \in RegionID
        PROVE  /\ indexed[r] # NoRange <=> regions[r] # NoRegion
               /\ regions[r] # NoRegion => indexed[r] = regions[r].meta.range
    <3>1. regions[r] # NoRegion => regions[r].meta.range \in RegionRange
      BY RegionsElim DEF KVInv, KVTypeOK
    <3> QED
      BY <2>1, <3>1, NoRangeAssumption DEF RangeOf
  <2> QED
    BY <2>3, <2>4
<1> QED
  BY <1>1, KVInvHolds, PTL

\* The LOGICAL_ERRORs of RegionsRangeIndex::remove are unreachable from
\* removeRegion, from commit merge, and from whatever handler comes next.
THEOREM IndexRemoveNeverThrowsHolds == KVSpec => []IndexRemoveNeverThrows
<1>1. KVInv => IndexRemoveNeverThrows
  <2> SUFFICES ASSUME KVInv PROVE IndexRemoveNeverThrows
    OBVIOUS
  <2>1. KVTypeOK /\ TaskInv /\ indexed \in Registrations /\ Consistent(root, indexed)
    BY DEF KVInv, KVTypeOK, Ranges, Registrations
  <2>2. \A r \in RegionID : regions[r] # NoRegion => regions[r].meta.range \in RegionRange
    BY <2>1, RegionsElim DEF KVTypeOK
  <2>3. ASSUME NEW r \in RegionID, regions[r] # NoRegion, indexed[r] = RangeOf(r)
        PROVE  ~RemoveThrows(root, regions[r].meta.range, r)
    BY <2>1, <2>2, <2>3, RegisteredRemovable, NoRangeAssumption DEF RangeOf, KVTypeOK
  <2>4. ASSUME task.kind = "drop"
        PROVE  ~RemoveThrows(root, regions[task.victim].meta.range, task.victim)
    <3>1. /\ task.victim \in RegionID /\ regions[task.victim] # NoRegion /\ task.unindexed = {}
          /\ ~(task.ori # NoRange /\ task.victim = task.id)
      BY <2>1, <2>4 DEF TaskInv
    <3>2. indexed[task.victim] = RangeOf(task.victim)
      BY <3>1 DEF KVInv, IndexedInv
    <3> QED
      BY <2>3, <3>1, <3>2
  <2>5. ASSUME task.kind = "reindex" PROVE ~RemoveThrows(root, task.ori, task.id)
    <3>1. task.id \in RegionID /\ task.ori # NoRange
      BY <2>1, <2>5 DEF TaskInv
    <3>2. indexed[task.id] = task.ori
      BY <3>1 DEF KVInv, IndexedInv
    <3> QED
      BY <2>1, <3>1, <3>2, RegisteredRemovable DEF KVTypeOK
  <2>6. ASSUME TaskMutexFree, NEW r \in RegionID, regions[r] # NoRegion
        PROVE  ~RemoveThrows(root, regions[r].meta.range, r)
    BY <2>3, <2>6, IdleIndexed
  <2> QED
    BY <2>4, <2>5, <2>6 DEF IndexRemoveNeverThrows
<1> QED
  BY <1>1, KVInvHolds, PTL

\* No persist resurrects the page of a region that removeRegion dropped.
THEOREM NoZombiePageHolds == KVSpec => []NoZombiePage
<1>1. KVInv => NoZombiePage
  BY DEF KVInv
<1> QED
  BY <1>1, KVInvHolds, PTL

\* No persist replaces a page by an older state of its region.
THEOREM PageNeverGoesBackHolds == KVSpec => PageNeverGoesBack
<1>1. KVInv /\ [KVNext]_kvVars => [PageStep]_kvVars
  BY StepKVNext
<1>2. KVSpec => [][PageStep]_kvVars
  BY <1>1, KVInvHolds, PTL DEF KVSpec
<1> QED
  BY <1>2 DEF PageNeverGoesBack, PageStep
=============================================================================
