-------------------------- MODULE RegionsRangeIndex --------------------------
(***************************************************************************)
(* RegionsRangeIndex as KVStore uses it, always under task_mutex: `root`   *)
(* is the map, `added` remembers with which range a region is registered.  *)
(* Ranges of different regions may overlap: after a crash in the middle of *)
(* a split or a merge, restore() registers parent and child, or source and *)
(* target, together.                                                       *)
(***************************************************************************)
EXTENDS RangeIndex

VARIABLES root, added

vars == <<root, added>>

Registered(id) == added[id] # NoRange

TypeOK ==
    /\ root \in RootMap
    /\ added \in [RegionID -> RegionRange \cup {NoRange}]

Init ==
    /\ root = ClearedRoot
    /\ added = [id \in RegionID |-> NoRange]

\* A split that is replayed after a crash registers a child that restore()
\* has already registered, with the range it has (KVStore.cpp:437-438).
AddRegion(id, range) ==
    /\ added[id] \in {NoRange, range}
    /\ root' = Add(root, range, id)
    /\ added' = [added EXCEPT ![id] = range]

RemoveRegion(id) ==
    /\ Registered(id)
    /\ ~RemoveThrows(root, added[id], id)
    /\ root' = Remove(root, added[id], id)
    /\ added' = [added EXCEPT ![id] = NoRange]

Next ==
    \E id \in RegionID :
        \/ \E range \in RegionRange : AddRegion(id, range)
        \/ RemoveRegion(id)

Spec == Init /\ [][Next]_vars

-----------------------------------------------------------------------------
(***************************************************************************)
(* Properties.                                                             *)
(***************************************************************************)

\* findByRangeOverlap answers exactly the registered regions whose range
\* meets the asked one, whatever boundaries earlier adds and removes have
\* left behind. tryApplySnapshot relies on it to refuse a snapshot that
\* overlaps another region.
LookupIsExact ==
    \A range \in RegionRange :
        FindByRangeOverlap(root, range) = {id \in RegionID : Registered(id) /\ Overlaps(added[id], range)}

\* tryMergeEmpty never erases a boundary of a region that is still
\* registered: remove() of a registered region finds both its keys and finds
\* the region in every node between them, so it never throws.
RegisteredIsRemovable ==
    \A id \in RegionID : Registered(id) => ~RemoveThrows(root, added[id], id)

\* Boundaries do not pile up: once every region is removed the map is the
\* one clear() builds.
EmptyIsCleared == (\A id \in RegionID : ~Registered(id)) => root = ClearedRoot
=============================================================================
