---------------------------- MODULE RaftCluster ----------------------------
(***************************************************************************)
(* What a TiFlash node sees of the TiKV cluster: the committed Raft log of *)
(* every region. The cluster is external to the repository; it is modelled *)
(* from what the handlers of KVStore take for granted about it.            *)
(*                                                                         *)
(* log[r] starts with a Birth entry, which stands for the state in which   *)
(* the region is born; it has the index RAFT_INIT_LOG_INDEX. Every entry   *)
(* carries the command and, as `after`, the region that the leader has     *)
(* once it is applied; `after.peer` is the peer on the TiFlash store, 0 if *)
(* the region has none.                                                    *)
(***************************************************************************)
EXTENDS KVStore, Sequences, FiniteSets

CONSTANTS
    FirstRegion,    \* the region that covers the whole table at first
    Scenarios       \* what may happen to the table, and how often

Scenario ==
    [first : RegionRange,   \* the table; it ends at MaxKey when no other one follows
     regions : Nat,         \* bound on the number of regions that are ever born
     proposable : SUBSET {"Write", "CompactLog", "ChangePeer", "BatchSplit",
                          "PrepareMerge", "RollbackMerge", "CommitMerge"},
     proposals : Nat,       \* bound on the number of entries of all logs together
     restarts : Nat]        \* bound on the number of crashes

ASSUME FirstRegionAssumption == FirstRegion \in RegionID
ASSUME ScenariosAssumption == Scenarios \subseteq Scenario

VARIABLES scenario, log, proposals

clusterVars == <<scenario, log, proposals>>

Proposable == scenario.proposable   \* the types of command that the leaders propose
MaxProposals == scenario.proposals

Cmd ==
    [type : {"Birth", "Write", "CompactLog", "ChangePeer"}]
    \cup [type : {"BatchSplit"}, births : Births]
    \cup [type : {"PrepareMerge"}, target : RegionID, target_meta : RegionMeta]
    \cup [type : {"RollbackMerge"}, commit : Nat]
    \cup [type : {"CommitMerge"}, source : RegionID, source_meta : RegionMeta, commit : Nat]
Entry == [cmd : Cmd, after : Region]

LastIndex(r) == RAFT_INIT_LOG_INDEX - 1 + Len(log[r])
EntryAt(r, index) == log[r][index - RAFT_INIT_LOG_INDEX + 1]
Leader(r) == EntryAt(r, LastIndex(r)).after

Born(r) == log[r] # <<>>
MergedAway(r) ==
    \E t \in RegionID : \E i \in 1..Len(log[t]) :
        log[t][i].cmd.type = "CommitMerge" /\ log[t][i].cmd.source = r

InitCluster ==
    /\ scenario \in Scenarios
    /\ proposals = 0
    /\ log = [r \in RegionID |->
                IF r # FirstRegion THEN <<>>
                ELSE <<[cmd |-> [type |-> "Birth"],
                        after |-> NewRegion([range |-> scenario.first, ver |-> 1, conf |-> 1],
                                            1, RAFT_INIT_LOG_INDEX)]>>]

-----------------------------------------------------------------------------
(***************************************************************************)
(* Proposals. A leader that has prepared a merge takes no command but the  *)
(* end of that merge.                                                      *)
(***************************************************************************)

Open(r) == Born(r) /\ ~MergedAway(r)
Ready(r) == proposals < MaxProposals /\ Open(r) /\ Leader(r).state = "Normal"

Propose(r, cmd, after) ==
    /\ cmd.type \in Proposable
    /\ log' = [log EXCEPT ![r] = Append(@, [cmd |-> cmd, after |-> [after EXCEPT !.applied = LastIndex(r) + 1]])]
    /\ proposals' = proposals + 1

ProposeWrite(r) == Ready(r) /\ Propose(r, [type |-> "Write"], Leader(r))

ProposeCompactLog(r) == Ready(r) /\ Propose(r, [type |-> "CompactLog"], Leader(r))

\* The peer on this store is removed, or added with a new id; or the change
\* concerns another store.
ProposeChangePeer(r, here) ==
    /\ Ready(r)
    /\ LET conf == Leader(r).meta.conf + 1
       IN  Propose(r, [type |-> "ChangePeer"],
                   [Leader(r) EXCEPT !.meta.conf = conf,
                                     !.peer = IF ~here THEN @ ELSE IF @ = 0 THEN conf ELSE 0])

\* The range is cut at `key`; the region keeps the right part, as it does
\* when TiKV derives on the right, or the left one.
ProposeSplit(r, child, key, right) ==
    /\ "BatchSplit" \in Proposable
    /\ Ready(r)
    /\ ~Born(child)
    /\ Cardinality({c \in RegionID : Born(c)}) < scenario.regions
    /\ LET meta == Leader(r).meta
           l == [s |-> meta.range.s, e |-> key]
           h == [s |-> key, e |-> meta.range.e]
           epoch == [meta EXCEPT !.ver = @ + 1]
           mine == [epoch EXCEPT !.range = IF right THEN h ELSE l]
           born == [epoch EXCEPT !.range = IF right THEN l ELSE h]
       IN  /\ meta.range.s < key /\ key < meta.range.e
           /\ log' = [log EXCEPT
                ![r] = Append(@, [cmd |-> [type |-> "BatchSplit", births |-> [c \in RegionID |-> IF c = child THEN born ELSE NoRegion]],
                                  after |-> [Leader(r) EXCEPT !.meta = mine, !.applied = LastIndex(r) + 1]]),
                ![child] = <<[cmd |-> [type |-> "Birth"],
                              after |-> NewRegion(born, IF Leader(r).peer = 0 THEN 0 ELSE meta.conf,
                                                  RAFT_INIT_LOG_INDEX)]>>]
           /\ proposals' = proposals + 1

Adjacent(a, b) == a.e = b.s \/ b.e = a.s

\* Both regions are on the same stores.
ProposePrepareMerge(r, target) ==
    /\ Ready(r)
    /\ Ready(target)
    /\ r # target
    /\ Adjacent(Leader(r).meta.range, Leader(target).meta.range)
    /\ (Leader(r).peer = 0) = (Leader(target).peer = 0)
    /\ Propose(r, [type |-> "PrepareMerge", target |-> target, target_meta |-> Leader(target).meta],
               ExecPrepareMerge(Leader(r), LastIndex(r) + 1))

MergeCmd(r) == EntryAt(r, LastIndex(r)).cmd
Prepared(r) == Open(r) /\ Leader(r).state = "Merging"

\* The target refuses the merge once its epoch has moved on.
ProposeCommitMerge(r) ==
    /\ Prepared(r)
    /\ Ready(MergeCmd(r).target)
    /\ LET t == MergeCmd(r).target
       IN  /\ Leader(t).meta = MergeCmd(r).target_meta
           /\ Propose(t, [type |-> "CommitMerge", source |-> r, source_meta |-> Leader(r).meta,
                          commit |-> LastIndex(r)],
                      ExecCommitMerge(Leader(t), Leader(r).meta, LastIndex(t) + 1))

ProposeRollbackMerge(r) ==
    /\ Prepared(r)
    /\ proposals < MaxProposals
    /\ Propose(r, [type |-> "RollbackMerge", commit |-> LastIndex(r)],
               ExecRollbackMerge(Leader(r), LastIndex(r) + 1))
=============================================================================
