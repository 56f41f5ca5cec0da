------------------------- MODULE MCRegionsRangeIndex -------------------------
(* Small instance of RegionsRangeIndex: the region ids are interchangeable. *)
EXTENDS RegionsRangeIndex, TLC

IDSymmetry == Permutations(RegionID)
=============================================================================
