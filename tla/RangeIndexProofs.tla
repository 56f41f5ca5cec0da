-------------------------- MODULE RangeIndexProofs --------------------------
(***************************************************************************)
(* What the operations of the range index compute, for any set of region   *)
(* ids and any number of keys: each of them takes a map that is Consistent *)
(* with the registered ranges to one that is Consistent with the ranges    *)
(* registered afterwards, and a Consistent map answers lookups exactly.    *)
(***************************************************************************)
EXTENDS RangeIndex, WellFoundedInduction, TLAPS

Registrations == [RegionID -> RegionRange \cup {NoRange}]

\* Zenon is tried first, then SMT; a leaf that needs arithmetic or records names SMT.
USE ZenonT(60), SMTT(60)

\* A set of naturals that is not empty has a least element.
LEMMA MinExists ==
    ASSUME NEW T \in SUBSET Nat, T # {}
    PROVE  \E m \in T : \A j \in T : m <= j
<1>1. PICK m \in T : \A y \in T : ~(<<y, m>> \in OpToRel(<, Nat))
  BY NatLessThanWellFounded, WFMin
<1>2. \A j \in T : ~(j < m)
  BY <1>1 DEF OpToRel
<1> QED
  BY <1>2, SMTT(60)

\* A set of keys that is not empty has a greatest element.
LEMMA MaxExists ==
    ASSUME NEW T \in SUBSET RangeKey, T # {}
    PROVE  \E m \in T : \A j \in T : j <= m
<1> DEFINE U == {MaxKey - t : t \in T}
<1>0. \A t \in T : MaxKey - t \in Nat
  BY MaxKeyAssumption, SMTT(60) DEF RangeKey
<1>1. U \in SUBSET Nat /\ U # {}
  BY <1>0
<1>2. PICK u \in U : \A j \in U : u <= j
  BY <1>1, MinExists
<1>3. PICK m \in T : u = MaxKey - m
  OBVIOUS
<1>4. \A j \in T : j <= m
  BY <1>2, <1>3, MaxKeyAssumption, SMTT(60) DEF RangeKey
<1> QED
  BY <1>4

\* The maps are the functions from some set of keys to sets of region ids.
LEMMA RootMapElim ==
    ASSUME NEW root \in RootMap
    PROVE  /\ DOMAIN root \in SUBSET RangeKey
           /\ root \in [DOMAIN root -> SUBSET RegionID]
<1>1. PICK K \in SUBSET RangeKey : root \in [K -> SUBSET RegionID]
  BY DEF RootMap
<1> QED
  BY <1>1

LEMMA RootMapIntro ==
    ASSUME NEW K \in SUBSET RangeKey, NEW root \in [K -> SUBSET RegionID]
    PROVE  root \in RootMap
BY DEF RootMap

\* lower_bound of a key finds the first node at or after it.
LEMMA LowerBoundSpec ==
    ASSUME NEW root \in RootMap, MaxKey \in DOMAIN root, NEW key \in RangeKey
    PROVE  /\ LowerBound(root, key) \in DOMAIN root
           /\ LowerBound(root, key) >= key
           /\ \A j \in DOMAIN root : j >= key => j >= LowerBound(root, key)
<1> DEFINE T == {j \in DOMAIN root : j >= key}
<1>1. DOMAIN root \in SUBSET Nat
  BY RootMapElim, SMTT(60) DEF RangeKey
<1>2. T \in SUBSET Nat /\ T # {}
  BY <1>1, MaxKeyAssumption, SMTT(60) DEF RangeKey
<1>3. PICK m \in T : \A j \in T : m <= j
  BY <1>2, MinExists
<1>4. m \in DOMAIN root /\ m >= key /\ \A j \in DOMAIN root : j >= key => j >= m
  BY <1>1, <1>3 DEF RangeKey
<1> QED
  BY <1>4 DEF LowerBound

\* Decrementing an iterator that is not at the first node finds the last
\* node before it.
LEMMA BeforeSpec ==
    ASSUME NEW root \in RootMap, 0 \in DOMAIN root, NEW it \in RangeKey, it # 0
    PROVE  /\ Before(root, it) \in DOMAIN root
           /\ Before(root, it) < it
           /\ \A j \in DOMAIN root : j < it => j <= Before(root, it)
<1> DEFINE T == {j \in DOMAIN root : j < it}
<1>1. DOMAIN root \in SUBSET RangeKey
  BY RootMapElim
<1>2. T \in SUBSET RangeKey /\ T # {}
  BY <1>1, SMTT(60) DEF RangeKey
<1>3. PICK m \in T : \A j \in T : j <= m
  BY <1>2, MaxExists
<1>4. m \in DOMAIN root /\ m < it /\ \A j \in DOMAIN root : j < it => j <= m
  BY <1>3
<1> QED
  BY <1>4 DEF Before

\* Dividing a node changes nothing that the map says.
LEMMA SplitConsistent ==
    ASSUME NEW root \in RootMap, NEW added \in Registrations, Consistent(root, added),
           NEW key \in RangeKey
    PROVE  /\ Split(root, key) \in RootMap
           /\ key \in DOMAIN Split(root, key)
           /\ DOMAIN root \subseteq DOMAIN Split(root, key)
           /\ Consistent(Split(root, key), added)
<1>1. CASE key \in DOMAIN root
  BY <1>1 DEF Split
<1>2. CASE key \notin DOMAIN root
  <2> DEFINE new == Split(root, key)
             lb == LowerBound(root, key)
             p == Before(root, lb)
  <2>1. /\ DOMAIN root \in SUBSET RangeKey
        /\ root \in [DOMAIN root -> SUBSET RegionID]
        /\ 0 \in DOMAIN root /\ MaxKey \in DOMAIN root
    BY RootMapElim DEF Consistent
  <2>2. /\ lb \in DOMAIN root /\ lb > key
        /\ \A j \in DOMAIN root : j >= key => j >= lb
    BY <1>2, <2>1, LowerBoundSpec, SMTT(60) DEF RangeKey
  <2>3. /\ p \in DOMAIN root /\ p < lb
        /\ \A j \in DOMAIN root : j < lb => j <= p
    BY <2>1, <2>2, BeforeSpec, SMTT(60) DEF RangeKey
  <2>4. p < key /\ \A j \in DOMAIN root : j <= p \/ j > key
    BY <1>2, <2>1, <2>2, <2>3, SMTT(60) DEF RangeKey
  <2>5. new = [k \in DOMAIN root \cup {key} |-> IF k = key THEN root[p] ELSE root[k]]
    BY <1>2 DEF Split
  <2>6. DOMAIN new = DOMAIN root \cup {key}
    BY <2>5
  <2>7. new \in [DOMAIN root \cup {key} -> SUBSET RegionID]
    BY <2>1, <2>3, <2>5
  <2>8. new \in RootMap
    BY <2>1, <2>7, RootMapIntro
  <2>9. ASSUME NEW k \in DOMAIN new, NEW id \in RegionID
        PROVE  id \in new[k] <=> added[id] # NoRange /\ added[id].s <= k /\ k < added[id].e
    <3>1. CASE k # key
      BY <3>1, <2>5, <2>6 DEF Consistent
    <3>2. CASE k = key
      <4>1. id \in new[k] <=> added[id] # NoRange /\ added[id].s <= p /\ p < added[id].e
        BY <3>2, <2>3, <2>5 DEF Consistent
      <4>2. added[id] # NoRange => /\ added[id].s \in DOMAIN root
                                   /\ added[id].e \in DOMAIN root
        BY DEF Consistent
      <4>3. added[id] # NoRange => /\ added[id].s <= p <=> added[id].s <= key
                                   /\ p < added[id].e <=> key < added[id].e
        BY <4>2, <2>1, <2>3, <2>4, SMTT(60) DEF RangeKey
      <4> QED
        BY <4>1, <4>3, <3>2
    <3> QED
      BY <3>1, <3>2
  <2>10. Consistent(new, added)
    BY <2>6, <2>9 DEF Consistent
  <2> QED
    BY <2>6, <2>8, <2>10
<1> QED
  BY <1>1, <1>2

\* add() registers the region with its range; a region that is registered
\* with that range already is left as it is.
LEMMA AddConsistent ==
    ASSUME NEW root \in RootMap, NEW added \in Registrations, Consistent(root, added),
           NEW id \in RegionID, NEW range \in RegionRange, added[id] \in {NoRange, range}
    PROVE  /\ Add(root, range, id) \in RootMap
           /\ Consistent(Add(root, range, id), [added EXCEPT ![id] = range])
<1> DEFINE r1 == Split(root, range.s)
           r2 == Split(r1, range.e)
           new == Add(root, range, id)
           reg == [added EXCEPT ![id] = range]
<1>1. range.s \in RangeKey /\ range.e \in RangeKey /\ range.s < range.e
  BY DEF RegionRange
<1>2. r1 \in RootMap /\ range.s \in DOMAIN r1 /\ Consistent(r1, added)
  BY <1>1, SplitConsistent
<1>3. /\ r2 \in RootMap /\ {range.s, range.e} \subseteq DOMAIN r2
      /\ Consistent(r2, added)
  BY <1>1, <1>2, SplitConsistent
<1> HIDE DEF r1, r2
<1>4. new = [k \in DOMAIN r2 |-> IF range.s <= k /\ k < range.e THEN r2[k] \cup {id} ELSE r2[k]]
  BY DEF Add, r1, r2
<1>5. DOMAIN r2 \in SUBSET RangeKey /\ r2 \in [DOMAIN r2 -> SUBSET RegionID]
  BY <1>3, RootMapElim
<1>6. new \in [DOMAIN r2 -> SUBSET RegionID]
  BY <1>4, <1>5
<1>7. new \in RootMap
  BY <1>5, <1>6, RootMapIntro
<1>8. DOMAIN new = DOMAIN r2
  BY <1>4
<1>9. reg[id] = range /\ range # NoRange /\ \A i \in RegionID \ {id} : reg[i] = added[i]
  BY NoRangeAssumption DEF Registrations
<1> HIDE DEF new, reg
<1>10. ASSUME NEW k \in DOMAIN new, NEW i \in RegionID
       PROVE  i \in new[k] <=> reg[i] # NoRange /\ reg[i].s <= k /\ k < reg[i].e
  <2>1. i \in r2[k] <=> added[i] # NoRange /\ added[i].s <= k /\ k < added[i].e
    BY <1>3, <1>8 DEF Consistent
  <2>2. CASE i = id
    BY <2>1, <2>2, <1>4, <1>8, <1>9
  <2>3. CASE i # id
    BY <2>1, <2>3, <1>4, <1>8, <1>9
  <2> QED
    BY <2>2, <2>3
<1>11. \A i \in RegionID : reg[i] # NoRange => {reg[i].s, reg[i].e} \subseteq DOMAIN new
  BY <1>3, <1>8, <1>9 DEF Consistent
<1>12. Consistent(new, reg)
  BY <1>3, <1>8, <1>10, <1>11 DEF Consistent
<1> QED
  BY <1>7, <1>12 DEF new, reg

\* remove() of a registered region never throws.
LEMMA RegisteredRemovable ==
    ASSUME NEW root \in RootMap, NEW added \in Registrations, Consistent(root, added),
           NEW id \in RegionID, added[id] # NoRange
    PROVE  ~RemoveThrows(root, added[id], id)
<1>1. added[id] \in RegionRange
  BY DEF Registrations
<1>2. added[id].s < added[id].e /\ added[id].s \in RangeKey /\ added[id].e \in RangeKey
  BY <1>1 DEF RegionRange
<1>3. added[id].s \in DOMAIN root /\ added[id].e \in DOMAIN root
  BY DEF Consistent
<1>4. \A k \in DOMAIN root : added[id].s <= k /\ k < added[id].e => id \in root[k]
  BY DEF Consistent
<1> QED
  BY <1>2, <1>3, <1>4, SMTT(60) DEF RemoveThrows, RangeKey

\* Merging empty nodes erases no boundary of a registered region.
LEMMA TryMergeEmptyConsistent ==
    ASSUME NEW root \in RootMap, NEW added \in Registrations, Consistent(root, added),
           NEW it \in DOMAIN root
    PROVE  /\ TryMergeEmpty(root, it) \in RootMap
           /\ Consistent(TryMergeEmpty(root, it), added)
<1>1. CASE root[it] # {}
  BY <1>1 DEF TryMergeEmpty
<1>2. CASE root[it] = {}
  <2> DEFINE run == EmptyRun(root, it)
             erased == {k \in run \ {MaxKey} : \E j \in run : j < k}
             new == TryMergeEmpty(root, it)
  <2>1. new = [k \in DOMAIN root \ erased |-> root[k]]
    BY <1>2 DEF TryMergeEmpty
  <2>2. DOMAIN root \in SUBSET RangeKey /\ root \in [DOMAIN root -> SUBSET RegionID]
    BY RootMapElim
  <2>3. DOMAIN root \ erased \in SUBSET RangeKey
    BY <2>2
  <2>4. new \in [DOMAIN root \ erased -> SUBSET RegionID]
    BY <2>1, <2>2
  <2>5. new \in RootMap
    BY <2>3, <2>4, RootMapIntro
  <2>6. DOMAIN new = DOMAIN root \ erased
    BY <2>1
  <2>7. run \subseteq DOMAIN root
    BY DEF EmptyRun
  <2>8. 0 \notin erased /\ MaxKey \notin erased
    BY <2>2, <2>7, SMTT(60) DEF RangeKey
  <2>9. ASSUME NEW x \in erased
        PROVE  \E j \in DOMAIN root : /\ j < x
                                      /\ \A k \in DOMAIN root : j <= k /\ k <= x => root[k] = {}
    <3>1. PICK j \in run : j < x
      OBVIOUS
    <3>2. \A k \in DOMAIN root : j <= k /\ k <= x => root[k] = {}
      <4> SUFFICES ASSUME NEW k \in DOMAIN root, j <= k, k <= x PROVE root[k] = {}
        OBVIOUS
      <4>1. k <= it \/ it <= k
        BY <2>2, SMTT(60) DEF RangeKey
      <4> QED
        BY <4>1, <2>7, <3>1, <2>2 DEF EmptyRun, RangeKey
    <3> QED
      BY <3>1, <3>2, <2>7
  <2> HIDE DEF new, erased, run
  <2>10. ASSUME NEW i \in RegionID, added[i] # NoRange
         PROVE  added[i].s \notin erased /\ added[i].e \notin erased
    <3>1. /\ added[i].s < added[i].e
          /\ added[i].s \in DOMAIN root /\ added[i].e \in DOMAIN root
          /\ added[i].s \in RangeKey /\ added[i].e \in RangeKey
      <4>1. added[i] \in RegionRange
        BY <2>10 DEF Registrations
      <4> QED
        BY <4>1, <2>10 DEF Consistent, RegionRange
    <3>2. \A k \in DOMAIN root : added[i].s <= k /\ k < added[i].e => i \in root[k]
      BY <2>10 DEF Consistent
    <3>3. added[i].s \notin erased
      BY <3>1, <3>2, <2>9, <2>2, SMTT(60) DEF RangeKey
    <3>4. added[i].e \notin erased
      <4> SUFFICES ASSUME added[i].e \in erased PROVE FALSE
        OBVIOUS
      <4>1. PICK j \in DOMAIN root : /\ j < added[i].e
                                     /\ \A k \in DOMAIN root : j <= k /\ k <= added[i].e => root[k] = {}
        BY <2>9
      <4>2. CASE added[i].s <= j
        BY <4>1, <4>2, <3>1, <3>2, <2>2, SMTT(60) DEF RangeKey
      <4>3. CASE j < added[i].s
        BY <4>1, <4>3, <3>1, <3>2, <2>2, SMTT(60) DEF RangeKey
      <4> QED
        BY <4>2, <4>3, <3>1, <2>2, SMTT(60) DEF RangeKey
    <3> QED
      BY <3>3, <3>4
  <2>11. Consistent(new, added)
    BY <2>1, <2>6, <2>8, <2>10 DEF Consistent
  <2> QED
    BY <2>5, <2>11 DEF new
<1> QED
  BY <1>1, <1>2

\* remove() takes the region, and only it, out of the map.
LEMMA RemoveConsistent ==
    ASSUME NEW root \in RootMap, NEW added \in Registrations, Consistent(root, added),
           NEW id \in RegionID, added[id] # NoRange
    PROVE  /\ Remove(root, added[id], id) \in RootMap
           /\ Consistent(Remove(root, added[id], id), [added EXCEPT ![id] = NoRange])
<1> DEFINE range == added[id]
           mid == [k \in DOMAIN root |->
                     IF range.s <= k /\ k < range.e THEN root[k] \ {id} ELSE root[k]]
           reg == [added EXCEPT ![id] = NoRange]
<1>1. DOMAIN root \in SUBSET RangeKey /\ root \in [DOMAIN root -> SUBSET RegionID]
  BY RootMapElim
<1>2. mid \in [DOMAIN root -> SUBSET RegionID] /\ DOMAIN mid = DOMAIN root
  BY <1>1
<1>3. mid \in RootMap
  BY <1>1, <1>2, RootMapIntro
<1>4. reg \in Registrations /\ reg[id] = NoRange /\ \A i \in RegionID \ {id} : reg[i] = added[i]
  BY DEF Registrations
<1> HIDE DEF reg
<1>5. ASSUME NEW k \in DOMAIN mid, NEW i \in RegionID
      PROVE  i \in mid[k] <=> reg[i] # NoRange /\ reg[i].s <= k /\ k < reg[i].e
  <2>1. i \in root[k] <=> added[i] # NoRange /\ added[i].s <= k /\ k < added[i].e
    BY <1>2 DEF Consistent
  <2>2. CASE i = id
    BY <2>1, <2>2, <1>2, <1>4
  <2>3. CASE i # id
    BY <2>1, <2>3, <1>2, <1>4
  <2> QED
    BY <2>2, <2>3
<1>6. \A i \in RegionID : reg[i] # NoRange => {reg[i].s, reg[i].e} \subseteq DOMAIN mid
  BY <1>2, <1>4 DEF Consistent
<1>7. Consistent(mid, reg)
  BY <1>2, <1>5, <1>6 DEF Consistent
<1>8. range.s \in DOMAIN mid
  BY <1>2 DEF Consistent
<1>9. Remove(root, range, id) = TryMergeEmpty(mid, range.s)
  BY DEF Remove
<1> HIDE DEF mid
<1>10. /\ TryMergeEmpty(mid, range.s) \in RootMap
       /\ Consistent(TryMergeEmpty(mid, range.s), reg)
  BY <1>3, <1>4, <1>7, <1>8, TryMergeEmptyConsistent
<1> QED
  BY <1>9, <1>10 DEF reg

\* A lookup finds the registered regions that meet the range, all of them
\* and no other.
LEMMA LookupExact ==
    ASSUME NEW root \in RootMap, NEW added \in Registrations, Consistent(root, added),
           NEW range \in RegionRange
    PROVE  FindByRangeOverlap(root, range)
             = {id \in RegionID : added[id] # NoRange /\ Overlaps(added[id], range)}
<1> DEFINE lb == LowerBound(root, range.s)
           begin == IF lb = range.s THEN lb ELSE Before(root, lb)
           end == LowerBound(root, range.e)
           found == FindByRangeOverlap(root, range)
<1>1. /\ DOMAIN root \in SUBSET RangeKey /\ root \in [DOMAIN root -> SUBSET RegionID]
      /\ 0 \in DOMAIN root /\ MaxKey \in DOMAIN root
  BY RootMapElim DEF Consistent
<1>2. range.s \in RangeKey /\ range.e \in RangeKey /\ range.s < range.e
  BY DEF RegionRange
<1>3. lb \in DOMAIN root /\ lb >= range.s /\ \A j \in DOMAIN root : j >= range.s => j >= lb
  BY <1>1, <1>2, LowerBoundSpec
<1>4. end \in DOMAIN root /\ end >= range.e /\ \A j \in DOMAIN root : j >= range.e => j >= end
  BY <1>1, <1>2, LowerBoundSpec
<1>5. begin \in DOMAIN root /\ begin <= range.s /\ \A j \in DOMAIN root : j <= range.s => j <= begin
  <2>1. CASE lb = range.s
    BY <2>1, <1>1, <1>2, <1>3 DEF RangeKey
  <2>2. CASE lb # range.s
    <3>1. /\ Before(root, lb) \in DOMAIN root /\ Before(root, lb) < lb
          /\ \A j \in DOMAIN root : j < lb => j <= Before(root, lb)
      BY <2>2, <1>1, <1>2, <1>3, BeforeSpec, SMTT(60) DEF RangeKey
    <3> QED
      BY <3>1, <2>2, <1>1, <1>2, <1>3, SMTT(60) DEF RangeKey
  <2> QED
    BY <2>1, <2>2
<1>6. found = UNION {root[k] : k \in {j \in DOMAIN root : begin <= j /\ j < end}}
  BY DEF FindByRangeOverlap
<1> HIDE DEF lb, begin, end, found
<1>7. \A id : id \in found <=> \E k \in DOMAIN root : begin <= k /\ k < end /\ id \in root[k]
  BY <1>6
<1>8. found \subseteq RegionID
  BY <1>7, <1>1
<1>9. ASSUME NEW id \in RegionID
      PROVE  id \in found <=> added[id] # NoRange /\ Overlaps(added[id], range)
  <2>1. \A k \in DOMAIN root :
          id \in root[k] <=> added[id] # NoRange /\ added[id].s <= k /\ k < added[id].e
    BY DEF Consistent
  <2>2. added[id] # NoRange =>
          /\ added[id].s \in DOMAIN root /\ added[id].e \in DOMAIN root
          /\ added[id].s < added[id].e
    BY DEF Consistent, Registrations, RegionRange
  <2>3. ASSUME id \in found
        PROVE  added[id] # NoRange /\ Overlaps(added[id], range)
    <3>1. PICK k \in DOMAIN root : begin <= k /\ k < end /\ id \in root[k]
      BY <2>3, <1>7
    <3>2. added[id] # NoRange /\ added[id].s <= k /\ k < added[id].e
      BY <3>1, <2>1
    <3>3. added[id].s < range.e
      BY <3>1, <3>2, <2>2, <1>1, <1>2, <1>4, SMTT(60) DEF RangeKey
    <3>4. range.s < added[id].e
      BY <3>1, <3>2, <2>2, <1>1, <1>2, <1>5, SMTT(60) DEF RangeKey
    <3> QED
      BY <3>2, <3>3, <3>4 DEF Overlaps
  <2>4. ASSUME added[id] # NoRange, Overlaps(added[id], range)
        PROVE  id \in found
    <3>1. CASE added[id].s <= range.s
      <4>1. id \in root[begin]
        BY <3>1, <2>1, <2>2, <2>4, <1>1, <1>2, <1>5, SMTT(60) DEF RangeKey, Overlaps
      <4>2. begin <= begin /\ begin < end
        BY <1>1, <1>2, <1>4, <1>5, SMTT(60) DEF RangeKey
      <4> QED
        BY <4>1, <4>2, <1>5, <1>7
    <3>2. CASE added[id].s > range.s
      <4>1. id \in root[added[id].s]
        BY <2>1, <2>2, <2>4, <1>1, SMTT(60) DEF RangeKey
      <4>2. begin <= added[id].s /\ added[id].s < end
        BY <3>2, <2>2, <2>4, <1>1, <1>2, <1>4, <1>5, SMTT(60) DEF RangeKey, Overlaps
      <4> QED
        BY <4>1, <4>2, <2>2, <2>4, <1>7
    <3> QED
      BY <3>1, <3>2, <2>2, <2>4, <1>1, <1>2, SMTT(60) DEF RangeKey
  <2> QED
    BY <2>3, <2>4
<1> QED
  BY <1>8, <1>9 DEF found
=============================================================================
