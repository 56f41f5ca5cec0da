----------------------- MODULE RegionsRangeIndexProofs -----------------------
(***************************************************************************)
(* For any set of region ids and any number of keys, the range index       *)
(* answers lookups exactly and never throws on the removal of a registered *)
(* region. Both follow from the inductive invariant that the map is        *)
(* Consistent with the registered ranges.                                  *)
(***************************************************************************)
EXTENDS RegionsRangeIndex, RangeIndexProofs

IndexInv == TypeOK /\ Consistent(root, added)

\* Zenon is tried first, then SMT; a leaf that needs arithmetic or records names SMT.
USE ZenonT(60), SMTT(60)

\* The cleared map is consistent with no region being registered.
LEMMA InitIndexInv == Init => IndexInv
<1> SUFFICES ASSUME Init PROVE IndexInv
  OBVIOUS
<1>1. {0, MaxKey} \in SUBSET RangeKey
  BY MaxKeyAssumption, SMTT(60) DEF RangeKey
<1>2. root \in [{0, MaxKey} -> SUBSET RegionID]
  BY DEF Init, ClearedRoot
<1>3. root \in RootMap
  BY <1>1, <1>2, RootMapIntro
<1>4. Consistent(root, added)
  BY DEF Init, ClearedRoot, Consistent
<1> QED
  BY <1>3, <1>4 DEF Init, IndexInv, TypeOK

\* Every add and every remove leads from a consistent map to a consistent map.
LEMMA NextIndexInv == IndexInv /\ [Next]_vars => IndexInv'
<1> SUFFICES ASSUME IndexInv, [Next]_vars PROVE IndexInv'
  OBVIOUS
<1>1. root \in RootMap /\ added \in Registrations /\ Consistent(root, added)
  BY DEF IndexInv, TypeOK, Registrations
<1>2. ASSUME NEW id \in RegionID, NEW range \in RegionRange, AddRegion(id, range)
      PROVE  IndexInv'
  <2>1. root' \in RootMap /\ Consistent(root', added')
    BY <1>1, <1>2, AddConsistent DEF AddRegion
  <2>2. added' \in [RegionID -> RegionRange \cup {NoRange}]
    BY <1>1, <1>2 DEF AddRegion, Registrations
  <2> QED
    BY <2>1, <2>2 DEF IndexInv, TypeOK, Consistent
<1>3. ASSUME NEW id \in RegionID, RemoveRegion(id)
      PROVE  IndexInv'
  <2>1. root' \in RootMap /\ Consistent(root', added')
    BY <1>1, <1>3, RemoveConsistent DEF RemoveRegion, Registered
  <2>2. added' \in [RegionID -> RegionRange \cup {NoRange}]
    BY <1>1, <1>3 DEF RemoveRegion, Registrations
  <2> QED
    BY <2>1, <2>2 DEF IndexInv, TypeOK, Consistent
<1>4. CASE UNCHANGED vars
  BY <1>4 DEF vars, IndexInv, TypeOK, Consistent
<1> QED
  BY <1>2, <1>3, <1>4 DEF Next

\* The map stays consistent with the registered ranges.
THEOREM IndexInvHolds == Spec => []IndexInv
BY InitIndexInv, NextIndexInv, PTL DEF Spec

\* The map keeps its two sentinel keys and a set of region ids for every key,
\* whatever add(), remove() and tryMergeEmpty do to it.
THEOREM TypeOKHolds == Spec => []TypeOK
<1>1. IndexInv => TypeOK
  BY DEF IndexInv
<1> QED
  BY <1>1, IndexInvHolds, PTL

\* findByRangeOverlap answers exactly the registered regions that meet the
\* asked range, in every reachable state of the index.
THEOREM LookupIsExactHolds == Spec => []LookupIsExact
<1>1. IndexInv => LookupIsExact
  BY LookupExact DEF IndexInv, TypeOK, Registrations, LookupIsExact, Registered
<1> QED
  BY <1>1, IndexInvHolds, PTL

\* remove() of a registered region never throws, in every reachable state.
THEOREM RegisteredIsRemovableHolds == Spec => []RegisteredIsRemovable
<1>1. IndexInv => RegisteredIsRemovable
  BY RegisteredRemovable DEF IndexInv, TypeOK, Registrations, RegisteredIsRemovable, Registered
<1> QED
  BY <1>1, IndexInvHolds, PTL

\* Whatever the order of the removals, the last one leaves the cleared map.
THEOREM EmptyIsClearedHolds == Spec => []EmptyIsCleared
<1>1. Init => EmptyIsCleared
  BY DEF Init, EmptyIsCleared
<1>2. IndexInv /\ EmptyIsCleared /\ IndexInv' /\ [Next]_vars => EmptyIsCleared'
  <2> SUFFICES ASSUME IndexInv, EmptyIsCleared, IndexInv', [Next]_vars,
                      \A i \in RegionID : ~Registered(i)'
               PROVE  root' = ClearedRoot
    BY DEF EmptyIsCleared
  <2>1. ASSUME NEW id \in RegionID, NEW range \in RegionRange, AddRegion(id, range)
        PROVE  FALSE
    <3>1. added'[id] = range /\ range # NoRange
      BY <2>1, NoRangeAssumption DEF AddRegion, IndexInv, TypeOK
    <3> QED
      BY <3>1 DEF Registered
  <2>2. ASSUME NEW id \in RegionID, RemoveRegion(id)
        PROVE  root' = ClearedRoot
    <3> DEFINE range == added[id]
               mid == [k \in DOMAIN root |->
                         IF range.s <= k /\ k < range.e THEN root[k] \ {id} ELSE root[k]]
    <3>1. /\ root \in [DOMAIN root -> SUBSET RegionID] /\ DOMAIN root \in SUBSET RangeKey
          /\ {0, MaxKey} \subseteq DOMAIN root
          /\ range.s \in DOMAIN root
      BY <2>2, RootMapElim DEF IndexInv, TypeOK, Consistent, RemoveRegion, Registered
    <3>2. \A i \in RegionID \ {id} : added[i] = NoRange
      BY <2>2 DEF RemoveRegion, Registered, IndexInv, TypeOK
    <3>3. \A k \in DOMAIN root : mid[k] = {}
      <4> SUFFICES ASSUME NEW k \in DOMAIN root, NEW i \in RegionID, i \in mid[k] PROVE FALSE
        BY <3>1
      <4>1. i \in root[k]
        OBVIOUS
      <4>2. i = id /\ range.s <= k /\ k < range.e
        BY <4>1, <3>2 DEF IndexInv, Consistent
      <4> QED
        BY <4>2
    <3>4. root' = TryMergeEmpty(mid, range.s)
      BY <2>2 DEF RemoveRegion, Remove
    <3>5. DOMAIN mid = DOMAIN root
      OBVIOUS
    <3> HIDE DEF mid
    <3>6. EmptyRun(mid, range.s) = DOMAIN root
      BY <3>1, <3>3, <3>5 DEF EmptyRun
    <3> DEFINE erased == {k \in DOMAIN root \ {MaxKey} : \E j \in DOMAIN root : j < k}
    <3>7. root' = [k \in DOMAIN root \ erased |-> mid[k]]
      BY <3>1, <3>3, <3>4, <3>5, <3>6 DEF TryMergeEmpty
    <3>8. DOMAIN root \ erased = {0, MaxKey}
      BY <3>1, MaxKeyAssumption, SMTT(60) DEF RangeKey
    <3> QED
      BY <3>1, <3>3, <3>7, <3>8 DEF ClearedRoot
  <2>3. CASE UNCHANGED vars
    BY <2>3 DEF vars, EmptyIsCleared, Registered
  <2> QED
    BY <2>1, <2>2, <2>3 DEF Next
<1> QED
  BY <1>1, <1>2, IndexInvHolds, PTL DEF Spec
=============================================================================
