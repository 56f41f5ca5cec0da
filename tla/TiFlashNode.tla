---------------------------- MODULE TiFlashNode ----------------------------
(***************************************************************************)
(* KVStore driven by the Raft proxy. The proxy (external) hands every peer *)
(* its log entry by entry, or a snapshot; it keeps its own apply state,    *)
(* and writes it to disk only when TiFlash answers Persist, so that a      *)
(* crash makes it hand over again what TiFlash may have applied already.   *)
(***************************************************************************)
EXTENDS RaftCluster

VARIABLES
    peers,      \* the proxy's peers, in memory
    peerDisk,   \* the proxy's peers, on disk
    handed,     \* the last index of each region that was ever handed to TiFlash
    restarts

proxyVars == <<peers, peerDisk, handed>>
vars == <<kvVars, clusterVars, proxyVars, restarts>>

Peer == [id : Nat, applied : Nat, snap : Region \cup {NoRegion}, destroying : BOOLEAN]

\* The table is one region at first, and TiFlash has a peer of it.
Init ==
    /\ InitCluster
    /\ pages = [r \in RegionID |-> IF r = FirstRegion THEN Leader(r) ELSE NoRegion]
    /\ stored = KeysOf(Leader(FirstRegion).meta.range)
    /\ Booted
    /\ peers = [r \in RegionID |->
                 IF r # FirstRegion THEN NoRegion
                 ELSE [id |-> 1, applied |-> RAFT_INIT_LOG_INDEX, snap |-> NoRegion, destroying |-> FALSE]]
    /\ peerDisk = peers
    /\ handed = [r \in RegionID |-> IF r = FirstRegion THEN RAFT_INIT_LOG_INDEX ELSE 0]
    /\ restarts = 0

-----------------------------------------------------------------------------
(***************************************************************************)
(* The cluster.                                                            *)
(***************************************************************************)

\* A leader prepares a merge only when it has heard from all its peers.
PeerMatched(r) == Leader(r).peer # 0 => peers[r] # NoRegion /\ peers[r].id = Leader(r).peer

Cluster ==
    /\ \E r \in RegionID :
          \/ ProposeWrite(r)
          \/ ProposeCompactLog(r)
          \/ \E here \in BOOLEAN : ProposeChangePeer(r, here)
          \/ \E child \in RegionID, key \in RangeKey, right \in BOOLEAN : ProposeSplit(r, child, key, right)
          \/ \E target \in RegionID : ProposePrepareMerge(r, target) /\ PeerMatched(r)
          \/ ProposeCommitMerge(r)
          \/ ProposeRollbackMerge(r)
    /\ UNCHANGED <<scenario, kvVars, proxyVars, restarts>>

-----------------------------------------------------------------------------
(***************************************************************************)
(* Log entries. The proxy calls one handler of a region at a time.         *)
(***************************************************************************)

Free(r) ==
    /\ peers[r] # NoRegion
    /\ peers[r].snap = NoRegion
    /\ ~peers[r].destroying
    /\ reply[r] = "none"
    /\ task.id # r

Dispatch(r, index) ==
    LET cmd == EntryAt(r, index).cmd
        after == EntryAt(r, index).after
    IN  \/ cmd.type = "Write" /\ HandleWriteRaftCmd(r, index)
        \/ cmd.type = "CompactLog" /\ \E sync_log \in BOOLEAN : HandleUselessAdminRaftCmd(r, index, sync_log)
        \/ cmd.type \notin {"Write", "CompactLog"} /\ AdminNotFound(r)
        \/ cmd.type \notin {"Write", "CompactLog", "CommitMerge"} /\ AdminIndexError(r, index)
        \/ cmd.type = "ChangePeer" /\ HandleChangePeer(r, index, after.meta, after.peer)
        \/ cmd.type = "BatchSplit" /\ HandleBatchSplit(r, index, after.meta, cmd.births, after.meta.conf)
        \/ cmd.type = "PrepareMerge" /\ HandlePrepareMerge(r, index, after.meta)
        \/ cmd.type = "RollbackMerge" /\ HandleRollbackMerge(r, index, cmd.commit, after.meta)
        \/ cmd.type = "CommitMerge" /\ HandleCommitMerge(r, index, cmd.source, cmd.source_meta, after.meta)
        \/ cmd.type = "CommitMerge" /\ HandleCommitMergeIndexError(r, index, cmd.source)

\* The proxy lets the source of a merge catch up before it hands over CommitMerge.
SourceCaughtUp(cmd) ==
    cmd.type = "CommitMerge" => Free(cmd.source) /\ peers[cmd.source].applied >= cmd.commit

HandOver(r) ==
    LET index == peers[r].applied + 1
    IN  /\ Free(r)
        /\ index <= LastIndex(r)
        /\ SourceCaughtUp(EntryAt(r, index).cmd)
        /\ Dispatch(r, index)
        /\ handed' = [handed EXCEPT ![r] = IF index > @ THEN index ELSE @]
        /\ peers' = IF task'.id = r \/ reply'[r] # "none" THEN peers ELSE [peers EXCEPT ![r].applied = index]
        /\ UNCHANGED <<peerDisk, clusterVars, restarts>>

\* The proxy writes the outcome to disk: of the region itself, of the regions
\* born in a split, and of the source of a merge.
AppliedPeers(r) ==
    LET index == peers[r].applied + 1
        cmd == EntryAt(r, index).cmd
        after == EntryAt(r, index).after
    IN  [x \in RegionID |->
            IF x = r
            THEN IF after.peer = peers[r].id THEN [peers[r] EXCEPT !.applied = index] ELSE NoRegion
            ELSE IF cmd.type = "BatchSplit" /\ x \in NewRegions(cmd.births) /\ peers[x] = NoRegion
            THEN [id |-> after.meta.conf, applied |-> RAFT_INIT_LOG_INDEX,
                  snap |-> NoRegion, destroying |-> FALSE]
            ELSE IF cmd.type = "CommitMerge" /\ x = cmd.source
            THEN NoRegion
            ELSE peers[x]]

Written(new) ==
    /\ peers' = new
    /\ peerDisk' = [x \in RegionID |-> IF new[x] # peers[x] THEN new[x] ELSE peerDisk[x]]

Ack(r) ==
    /\ reply[r] = "persist"
    /\ Return(r)
    /\ Written(
          IF peers[r].destroying
          THEN [peers EXCEPT ![r] = NoRegion]
          ELSE IF peers[r].snap # NoRegion
          THEN [peers EXCEPT ![r].applied = peers[r].snap.applied, ![r].snap = NoRegion]
          ELSE AppliedPeers(r))
    /\ UNCHANGED <<handed, clusterVars, restarts>>

-----------------------------------------------------------------------------
(***************************************************************************)
(* Snapshots and the removal of a peer.                                    *)
(***************************************************************************)

\* What a peer covers, and what it will cover after its snapshot.
ProxyRanges(r) ==
    (IF peers[r].snap = NoRegion THEN {} ELSE {peers[r].snap.meta.range})
    \cup (IF peers[r].applied = 0 THEN {} ELSE {EntryAt(r, peers[r].applied).after.meta.range})

\* The leader makes snapshots of a Normal region only. The proxy refuses one
\* that overlaps another of its peers, and it first hands over again what it
\* had handed over before a crash.
SendSnapshot(r) ==
    /\ Open(r)
    /\ Leader(r).peer # 0
    /\ Leader(r).state = "Normal"
    /\ peers[r] # NoRegion =>
          Free(r) /\ peers[r].id = Leader(r).peer /\ handed[r] = peers[r].applied /\ peers[r].applied < LastIndex(r)
    /\ \A x \in RegionID \ {r} : peers[x] # NoRegion =>
          \A range \in ProxyRanges(x) : ~Overlaps(range, Leader(r).meta.range)
    /\ LET peer == [id |-> Leader(r).peer, applied |-> IF peers[r] = NoRegion THEN 0 ELSE peers[r].applied,
                    snap |-> NewRegion(Leader(r).meta, Leader(r).peer, LastIndex(r)), destroying |-> FALSE]
       IN  /\ peers' = [peers EXCEPT ![r] = peer]
           /\ peerDisk' = [peerDisk EXCEPT ![r] = peer]
    /\ handed' = [handed EXCEPT ![r] = LastIndex(r)]
    /\ UNCHANGED <<kvVars, clusterVars, restarts>>

ApplySnapshot(r) ==
    /\ peers[r] # NoRegion
    /\ peers[r].snap # NoRegion
    /\ reply[r] = "none"
    /\ SnapshotStart(r, peers[r].snap)
    /\ UNCHANGED <<proxyVars, clusterVars, restarts>>

\* The target of a merge that took r away.
MergeTarget(r) ==
    CHOOSE t \in RegionID : \E i \in 1..Len(log[t]) :
        log[t][i].cmd.type = "CommitMerge" /\ log[t][i].cmd.source = r

\* The region was merged into one of which this store has no peer, and none of
\* the peers has a split to apply that would give it one.
Orphan(r) ==
    /\ MergedAway(r)
    /\ peers[MergeTarget(r)] = NoRegion
    /\ \A x \in RegionID \ {r} : peers[x] # NoRegion => peers[x].applied = LastIndex(x)

\* A peer is destroyed when its region has left this store.
Destroy(r) ==
    /\ Free(r)
    /\ handed[r] = peers[r].applied
    /\ Leader(r).peer # peers[r].id \/ Orphan(r)
    /\ HandleDestroy(r)
    /\ peers' = [peers EXCEPT ![r].destroying = TRUE]
    /\ UNCHANGED <<peerDisk, handed, clusterVars, restarts>>

-----------------------------------------------------------------------------

Handler == Step /\ UNCHANGED <<clusterVars, proxyVars, restarts>>

Background ==
    /\ \E id \in RegionID : TryPersistSerialize(id)
    /\ UNCHANGED <<clusterVars, proxyVars, restarts>>

Crash ==
    /\ restarts < scenario.restarts
    /\ Restart
    /\ peers' = peerDisk
    /\ restarts' = restarts + 1
    /\ UNCHANGED <<peerDisk, handed, clusterVars>>

Serve(r) == HandOver(r) \/ Ack(r) \/ SendSnapshot(r) \/ ApplySnapshot(r) \/ Destroy(r)
Proxy == \E r \in RegionID : Serve(r)

Next == ~failed /\ (Cluster \/ Proxy \/ Handler \/ Background \/ Crash)

Spec == Init /\ [][Next]_vars

\* The proxy and its threads keep going; the cluster, the background flush
\* and crashes owe nothing.
Fairness ==
    /\ WF_vars(~failed /\ Handler)
    /\ \A r \in RegionID : WF_vars(~failed /\ Serve(r))

FairSpec == Spec /\ Fairness

-----------------------------------------------------------------------------
(***************************************************************************)
(* Properties.                                                             *)
(***************************************************************************)

\* The types of KVStore, of the logs and of the proxy.
TypeOK ==
    /\ KVTypeOK
    /\ log \in [RegionID -> Seq(Entry)]
    /\ scenario \in Scenarios
    /\ proposals \in 0..MaxProposals
    /\ peers \in [RegionID -> Peer \cup {NoRegion}]
    /\ peerDisk \in [RegionID -> Peer \cup {NoRegion}]
    /\ handed \in [RegionID -> Nat]
    /\ restarts \in 0..scenario.restarts

\* No handler meets one of the states it calls "should not happen": a newer
\* index than the snapshot, an overlapped range, a changed instance, a merge
\* source that is missing or does not match, a range that the index lacks.
\* Each of them ends the process. The changed instance of onSnapshot takes two
\* handlers of one region at a time, which the proxy never starts (Free): that the
\* proxy keeps to it is assumed here, not shown.
NoLogicalError == ~failed

\* "the range in RegionTable is always >= range in KVStore" (KVStore.cpp:442),
\* on which the order of updates in split, merge and snapshot rests.
TableCoversKVStore ==
    \A r \in RegionID :
        regions[r] # NoRegion /\ table[r] # NoRange => Covers(table[r], regions[r].meta.range)

\* The same for the regions whose end key is not the unbounded one; for the others
\* it does not hold (TableCoversKVStore).
TableCoversBoundedRegion ==
    \A r \in RegionID :
        /\ regions[r] # NoRegion
        /\ table[r] # NoRange
        /\ regions[r].meta.range.e # MaxKey
        => Covers(table[r], regions[r].meta.range)

\* A region that has applied the log up to some index has the range, epoch,
\* state and merge index that the leader had at that index, in memory and on
\* disk, whichever entries were handed over twice and wherever a crash cut a
\* split or a merge. Applying and Tombstone are states of this store only.
AppliedMatchesLog ==
    \A r \in RegionID : \A region \in {regions[r], pages[r]} :
        region # NoRegion =>
            /\ region.applied \in RAFT_INIT_LOG_INDEX..LastIndex(r)
            /\ LET after == EntryAt(r, region.applied).after
               IN  /\ region.meta = after.meta
                   /\ region.state \in {"Normal", "Merging"} =>
                        region.state = after.state /\ region.commit = after.commit

\* Storage holds the rows of every region that may be read, in memory or
\* after a crash: rows are deleted only once the page of the region is gone
\* or says Applying, and a merge keeps the rows of its source.
DataComplete ==
    \A r \in RegionID : \A region \in {regions[r], pages[r]} :
        region # NoRegion /\ region.state \in {"Normal", "Merging"} => KeysOf(region.meta.range) \subseteq stored

\* The proxy drops log entries up to the index it has on disk. For a peer
\* that stays on this store TiFlash has a page that is at least that new.
NoLogLost ==
    \A r \in RegionID :
        /\ peerDisk[r] # NoRegion
        /\ peerDisk[r].snap = NoRegion
        /\ peerDisk[r].id = Leader(r).peer
        /\ ~MergedAway(r)
        => pages[r] # NoRegion /\ pages[r].applied >= peerDisk[r].applied

\* Two regions overlap only between the crash that cut a split or a merge
\* and its repetition: not once their peers have been handed everything
\* again, nor when a region has been left behind without a peer.
CaughtUpDisjoint ==
    \A r, x \in RegionID :
        /\ r # x
        /\ \A y \in {r, x} :
              /\ regions[y] # NoRegion
              /\ peers[y] # NoRegion => Free(y) /\ peers[y].applied = handed[y]
        /\ TaskMutexFree
        => ~Overlaps(regions[r].meta.range, regions[x].meta.range)

\* Once the cluster is quiet, TiFlash has exactly the regions that have a
\* peer on this store, and each is where its leader is.
Converges ==
    <>[](\A r \in RegionID :
            regions[r] = IF Open(r) /\ Leader(r).peer # 0 THEN Leader(r) ELSE NoRegion)
=============================================================================
