----------------------------- MODULE RangeIndex -----------------------------
(***************************************************************************)
(* The ordered map behind RegionsRangeIndex: every boundary key maps to    *)
(* the regions that cover the half-open interval up to the next boundary.  *)
(* The operators work on a value `root` of that map, so that both the      *)
(* stand-alone state machine (RegionsRangeIndex) and KVStore can use them. *)
(*                                                                         *)
(* A TiKVRangeKey is a number: 0 is the MIN state, MaxKey the MAX state,   *)
(* and the numbers between are the NORMAL keys in their byte order.        *)
(***************************************************************************)
EXTENDS Naturals

CONSTANTS
    RegionID,   \* the ids a region may have
    MaxKey,     \* the key of TiKVRangeKey::MAX
    NoRange     \* stands for the range of a region that is not registered

ASSUME MaxKeyAssumption == MaxKey \in Nat \ {0}

RangeKey == 0..MaxKey

\* RegionRangeKeys refuses an empty or inverted range, and one that does not
\* start with the record prefix of a table, hence the MIN key.
RegionRange == {range \in [s : RangeKey, e : RangeKey] : 0 < range.s /\ range.s < range.e}

ASSUME NoRangeAssumption == NoRange \notin RegionRange

Overlaps(a, b) == a.s < b.e /\ b.s < a.e
Covers(a, b) == a.s <= b.s /\ b.e <= a.e
KeysOf(range) == {k \in RangeKey : range.s <= k /\ k < range.e}

RootMap == UNION {[K -> SUBSET RegionID] : K \in SUBSET RangeKey}

\* Mutant: the sentinel lies beyond the greatest key.
ClearedRootOffByOne == [k \in {0, MaxKey + 1} |-> {}]

\* RegionsRangeIndex::clear: min_it and max_it only.
ClearedRoot == [k \in {0, MaxKey} |-> {}]

\* The key `root.lower_bound(key)` points at, and the key before `it`.
LowerBound(root, key) ==
    CHOOSE k \in DOMAIN root :
        /\ k >= key
        /\ \A j \in DOMAIN root : j >= key => j >= k
Before(root, it) ==
    CHOOSE k \in DOMAIN root :
        /\ k < it
        /\ \A j \in DOMAIN root : j < it => j <= k

\* A new boundary inherits the regions of the node that it divides.
Split(root, key) ==
    IF key \in DOMAIN root
    THEN root
    ELSE [k \in DOMAIN root \cup {key} |->
            IF k = key THEN root[Before(root, LowerBound(root, key))] ELSE root[k]]

Add(root, range, id) ==
    LET r == Split(Split(root, range.s), range.e)
    IN  [k \in DOMAIN r |-> IF range.s <= k /\ k < range.e THEN r[k] \cup {id} ELSE r[k]]

\* The nodes of the maximal run of empty nodes around the empty node `it`.
EmptyRun(root, it) ==
    {k \in DOMAIN root :
        \A j \in DOMAIN root : (k <= j /\ j <= it) \/ (it <= j /\ j <= k) => root[j] = {}}

\* Mutant: left_it is not advanced, so the first node of the run is erased.
TryMergeEmptyFirstToo(root, it) ==
    IF root[it] # {}
    THEN root
    ELSE [k \in DOMAIN root \ (EmptyRun(root, it) \ {0, MaxKey}) |-> root[k]]

\* Mutant: no scan to the left of the removed node.
TryMergeEmptyRightOnly(root, it) ==
    IF root[it] # {}
    THEN root
    ELSE [k \in DOMAIN root \ {j \in EmptyRun(root, it) \ {MaxKey} : j > it} |-> root[k]]

\* The first node of the run stays, and so does max_it.
TryMergeEmpty(root, it) ==
    IF root[it] # {}
    THEN root
    ELSE LET run == EmptyRun(root, it)
             erased == {k \in run \ {MaxKey} : \E j \in run : j < k}
         IN  [k \in DOMAIN root \ erased |-> root[k]]

\* The LOGICAL_ERRORs of RegionsRangeIndex::remove.
RemoveThrows(root, range, id) ==
    \/ range.s \notin DOMAIN root
    \/ range.e \notin DOMAIN root
    \/ range.s = range.e
    \/ \E k \in DOMAIN root : range.s <= k /\ k < range.e /\ id \notin root[k]

Remove(root, range, id) ==
    TryMergeEmpty(
        [k \in DOMAIN root |-> IF range.s <= k /\ k < range.e THEN root[k] \ {id} ELSE root[k]],
        range.s)

\* Mutant: the node that starts before the asked range is not looked at.
FindByRangeOverlapNoStepBack(root, range) ==
    UNION {root[k] : k \in {j \in DOMAIN root :
        LowerBound(root, range.s) <= j /\ j < LowerBound(root, range.e)}}

FindByRangeOverlap(root, range) ==
    LET lb == LowerBound(root, range.s)
        begin == IF lb = range.s THEN lb ELSE Before(root, lb)
        end == LowerBound(root, range.e)
    IN  UNION {root[k] : k \in {j \in DOMAIN root : begin <= j /\ j < end}}

\* What the map holds when exactly the regions with added[id] # NoRange are
\* registered: their boundaries are nodes, and a node lists precisely the
\* regions whose range contains its key.
Consistent(root, added) ==
    /\ {0, MaxKey} \subseteq DOMAIN root
    /\ \A id \in RegionID : added[id] # NoRange => {added[id].s, added[id].e} \subseteq DOMAIN root
    /\ \A k \in DOMAIN root, id \in RegionID :
          id \in root[k] <=> added[id] # NoRange /\ added[id].s <= k /\ k < added[id].e
=============================================================================
