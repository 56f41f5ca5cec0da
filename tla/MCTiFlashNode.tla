--------------------------- MODULE MCTiFlashNode ---------------------------
(***************************************************************************)
(* TiFlashNode for TLC. The regions but the first are born in splits and   *)
(* are interchangeable.                                                    *)
(***************************************************************************)
EXTENDS TiFlashNode, TLC

Story(first, born, proposable, bound, crashes) ==
    [first |-> first, regions |-> born, proposable |-> proposable, proposals |-> bound, restarts |-> crashes]
Keys(s, e) == [s |-> s, e |-> e]

\* Regions of the last table of the store, its end unbounded, that split and
\* merge; peers that come and go; and splits and merges of three regions.
NodeScenarios ==
    {Story(Keys(MaxKey - 2, MaxKey), 2, {"BatchSplit", "PrepareMerge", "CommitMerge", "RollbackMerge"}, 5, 2),
     Story(Keys(1, MaxKey - 1), 2, {"Write", "CompactLog", "BatchSplit", "ChangePeer"}, 3, 1),
     Story(Keys(1, MaxKey), 3, {"BatchSplit", "PrepareMerge", "CommitMerge"}, 4, 1)}

BgScenarios == {Story(Keys(1, MaxKey), 2, {"Write", "BatchSplit", "ChangePeer", "PrepareMerge", "CommitMerge"}, 3, 1)}
QuietScenarios == {Story(Keys(1, MaxKey), 2, {"BatchSplit", "PrepareMerge", "CommitMerge", "ChangePeer"}, 3, 1)}
SplitScenarios == {Story(Keys(1, MaxKey), 2, {"BatchSplit"}, 1, 0)}

BornRegionSymmetry == Permutations(RegionID \ {FirstRegion})
=============================================================================
