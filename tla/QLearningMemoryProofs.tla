----------------------- MODULE QLearningMemoryProofs ------------------------
(***************************************************************************)
(* The memory of an agent, for every number of regions, every bound, every *)
(* table of rewards and every sequence of updates and rewards: it holds no *)
(* more than it should, what it holds is bounded, and what leaves it was   *)
(* worth least.                                                            *)
(***************************************************************************)
EXTENDS QLearningMemory, TLAPS, FiniteSetTheorems, WellFoundedInduction

\* The keys alone are inductive: what they map to decides only which key
\* leaves, never how many.
KeysBounded ==
    /\ DOMAIN qTable \subseteq Keys
    /\ MemoryIsBounded

LEMMA KeysFinite == ASSUME NEW K \in SUBSET Keys
                    PROVE  IsFiniteSet(K) /\ Cardinality(K) \in Nat
<1>1. IsFiniteSet(Keys)
  BY RegionIdsAssumption, FS_AddElement DEF Keys
<1>2. IsFiniteSet(K)
  BY <1>1, FS_Subset
<1> QED  BY <1>2, FS_CardinalityType

LEMMA UpdateMemoryKeepsBound ==
    ASSUME KeysBounded, NEW ids \in SUBSET RegionIds, UpdateMemory(ids)
    PROVE  KeysBounded'
<1>1. CASE DOMAIN qTable = {}
  <2>1. PICK K \in Samples(ids) : qTable' = WithKeys(EmptyTable, K)
    BY <1>1 DEF UpdateMemory
  <2>2. DOMAIN qTable' = K
    BY <2>1 DEF WithKeys
  <2> QED  BY <2>1, <2>2 DEF Samples, KeysBounded, MemoryIsBounded, Keys
<1>2. CASE DOMAIN qTable # {}
  <2> DEFINE table == WithKeys(qTable, ids)
  <2>1. PICK K \in Highest(table) : qTable' = Restrict(table, K)
    BY <1>2 DEF UpdateMemory
  <2>2. DOMAIN table = ids
    BY DEF WithKeys
  <2>3. DOMAIN qTable' = K /\ K \in SUBSET ids /\ Cardinality(K) <= MaxMemory
    <3> HIDE DEF table
    <3> QED  BY <2>1, <2>2 DEF Highest, Restrict
  <2> QED  BY <2>3 DEF KeysBounded, MemoryIsBounded, Keys
<1> QED  BY <1>1, <1>2

LEMMA RewardKeepsBound ==
    ASSUME KeysBounded, NEW key \in Keys, NEW reward, UpdateQTable(key, reward)
    PROVE  KeysBounded'
<1>1. CASE key \in DOMAIN qTable
  <2>1. DOMAIN qTable' = DOMAIN qTable
    BY <1>1 DEF UpdateQTable
  <2> QED  BY <2>1 DEF KeysBounded, MemoryIsBounded
<1>2. CASE key \notin DOMAIN qTable
  <2> DEFINE full == Cardinality(DOMAIN qTable) >= MaxMemory
  <2>1. PICK evicted \in IF full THEN {{k} : k \in Lowest} ELSE {{}} :
            qTable' = [k \in (DOMAIN qTable \ evicted) \cup {key} |->
                          IF k = key THEN reward ELSE qTable[k]]
    BY <1>2 DEF UpdateQTable
  <2> DEFINE kept == DOMAIN qTable \ evicted
  <2>2. DOMAIN qTable' = kept \cup {key}
    BY <2>1
  <2>3. kept \in SUBSET Keys /\ key \notin kept
    BY <1>2 DEF KeysBounded
  <2>4. IsFiniteSet(DOMAIN qTable) /\ Cardinality(DOMAIN qTable) \in Nat
    BY KeysFinite DEF KeysBounded
  <2>5. IsFiniteSet(kept) /\ Cardinality(kept) \in Nat
    BY <2>3, KeysFinite
  <2>6. Cardinality(kept) + 1 <= MaxMemory
    <3>1. CASE full
      <4>1. PICK k \in DOMAIN qTable : evicted = {k}
        BY <2>1, <3>1 DEF Lowest
      <4>2. Cardinality(kept) = Cardinality(DOMAIN qTable) - 1
        BY <2>4, <4>1, FS_RemoveElement
      <4> QED  BY <2>4, <2>5, <4>2, MaxMemoryAssumption DEF KeysBounded, MemoryIsBounded
    <3>2. CASE ~full
      <4>1. kept = DOMAIN qTable
        BY <2>1, <3>2
      <4> QED  BY <2>4, <3>2, <4>1, MaxMemoryAssumption
    <3> QED  BY <3>1, <3>2
  <2>7. Cardinality(kept \cup {key}) = Cardinality(kept) + 1
    BY <2>3, <2>5, FS_AddElement
  <2> QED  BY <2>2, <2>3, <2>6, <2>7 DEF KeysBounded, MemoryIsBounded
<1> QED  BY <1>1, <1>2

LEMMA InitKeys == Init => KeysBounded
BY FS_EmptySet, MaxMemoryAssumption
   DEF Init, EmptyTable, KeysBounded, MemoryIsBounded

LEMMA StepKeys == ASSUME KeysBounded, [Next]_vars PROVE KeysBounded'
<1>1. CASE \E ids \in SUBSET RegionIds : UpdateMemory(ids)
  BY <1>1, UpdateMemoryKeepsBound
<1>2. CASE \E key \in Keys, value \in Values : ProcessMetaHeuristic(key, value)
  BY <1>2, RewardKeepsBound DEF ProcessMetaHeuristic
<1>3. CASE Reset
  BY <1>3, FS_EmptySet, MaxMemoryAssumption
     DEF Reset, EmptyTable, KeysBounded, MemoryIsBounded
<1>4. CASE UNCHANGED vars
  BY <1>4 DEF vars, KeysBounded, MemoryIsBounded
<1> QED  BY <1>1, <1>2, <1>3, <1>4 DEF Next

\* An agent remembers at most maxRegions regions, whatever it is told and
\* whatever it learns (QLearningMemory.updateRegionIds, updateQTable).
THEOREM MemoryNeverOverflows == Spec => []MemoryIsBounded
<1>1. KeysBounded /\ [Next]_vars => KeysBounded'
  BY StepKeys
<1>2. KeysBounded => MemoryIsBounded
  BY DEF KeysBounded
<1> QED  BY InitKeys, <1>1, <1>2, PTL DEF Spec

-----------------------------------------------------------------------------
(* What is in the memory *)

\* A set of naturals has a least element: well-founded induction, without the
\* operator parameter that the induction theorems take.
LEMMA LeastElement ==
    ASSUME NEW T \in SUBSET Nat, T # {}
    PROVE  \E x \in T : \A y \in T : x <= y
<1> DEFINE R == {ss \in Nat \X Nat : ss[1] < ss[2]}
<1>1. IsWellFoundedOn(R, Nat)
  BY NatLessThanWellFounded DEF OpToRel
<1>2. \E x \in T : \A y \in T : ~ (<<y, x>> \in R)
  <2> HIDE DEF R
  <2> QED  BY <1>1, WFMin
<1>3. \A x, y \in Nat : <<y, x>> \in R <=> y < x
  OBVIOUS
<1> HIDE DEF R
<1>4. PICK x \in T : \A y \in T : ~ (<<y, x>> \in R)
  BY <1>2
<1>5. \A y \in T : x <= y
  <2> TAKE y \in T
  <2>1. ~ (y < x)
    BY <1>3, <1>4
  <2> QED  BY <2>1
<1> QED  BY <1>5

\* Types and bounds together: a reward is learned from the greatest entry,
\* which exists because the entries are bounded.
QInv == TypeOK /\ QIsBounded

USE OneAssumption

LEMMA MaxQIsBounded == ASSUME QInv PROVE MaxQ \in -5 * One .. 5 * One
<1>1. CASE DOMAIN qTable = {}
  BY <1>1 DEF MaxQ
<1>2. CASE DOMAIN qTable # {}
  <2> DEFINE gaps == {5 * One - q : q \in Range(qTable)}
  <2>1. Range(qTable) # {} /\ \A q \in Range(qTable) : q \in -5 * One .. 5 * One
    BY <1>2 DEF QInv, QIsBounded, Range
  <2>2. gaps \in SUBSET Nat /\ gaps # {}
    BY <2>1
  <2>3. PICK gap \in gaps : \A g \in gaps : gap <= g
    <3> HIDE DEF gaps
    <3> QED  BY <2>2, LeastElement
  <2>4. PICK q \in Range(qTable) : gap = 5 * One - q
    OBVIOUS
  <2>5. \A p \in Range(qTable) : p <= q
    <3> TAKE p \in Range(qTable)
    <3>1. gap <= 5 * One - p
      BY <2>3
    <3> QED  BY <2>1, <2>4, <3>1
  <2>6. MaxQ \in Range(qTable)
    BY <1>2, <2>5 DEF MaxQ
  <2> QED  BY <2>1, <2>6
<1> QED  BY <1>1, <1>2

LEMMA RewardIsBounded ==
    ASSUME QInv, NEW value \in Values
    PROVE  Reward(value) \in -One .. One
<1>1. CASE bestFoundSolution = NoSolution
  BY <1>1 DEF Reward
<1>2. CASE bestFoundSolution # NoSolution
  <2>1. bestFoundSolution - value \in Differences
    BY <1>2 DEF QInv, TypeOK, Differences
  <2> QED  BY <1>2, <2>1, SigmoidAssumption DEF Reward
<1> QED  BY <1>1, <1>2

LEMMA LearnedIsBounded ==
    ASSUME QInv, NEW q \in -5 * One .. 5 * One, NEW reward \in -One .. One
    PROVE  Learned(q, reward) \in -5 * One .. 5 * One
<1>1. MaxQ \in Int /\ -5 * One <= MaxQ /\ MaxQ <= 5 * One
  BY MaxQIsBounded
<1> DEFINE sum == 10 * q + 5 * (reward - q) + 4 * MaxQ
<1>2. sum \in Int /\ -50 * One <= sum /\ sum <= 50 * One
  BY <1>1
<1>3. sum \div 10 \in Int /\ -5 * One <= sum \div 10 /\ sum \div 10 <= 5 * One
  <2> HIDE DEF sum
  <2> QED  BY <1>2
<1> QED  BY <1>3 DEF Learned

LEMMA UpdateMemoryKeepsQ ==
    ASSUME QInv, NEW ids \in SUBSET RegionIds, UpdateMemory(ids)
    PROVE  QInv'
<1>1. /\ DOMAIN qTable' \subseteq ids
      /\ \A k \in DOMAIN qTable' : qTable'[k] = 0 \/ (k \in DOMAIN qTable /\ qTable'[k] = qTable[k])
      /\ qTable' \in [DOMAIN qTable' -> Int]
  <2>1. CASE DOMAIN qTable = {}
    <3>1. PICK K \in Samples(ids) : qTable' = WithKeys(EmptyTable, K)
      BY <2>1 DEF UpdateMemory
    <3>2. K \subseteq ids
      BY DEF Samples
    <3>3. DOMAIN EmptyTable = {}
      BY DEF EmptyTable
    <3>4. qTable' = [k \in K |-> 0]
      BY <3>1, <3>3 DEF WithKeys
    <3>5. DOMAIN qTable' = K /\ \A k \in K : qTable'[k] = 0
      BY <3>4
    <3>6. qTable' \in [K -> Int]
      BY <3>4
    <3> QED  BY <3>2, <3>5, <3>6
  <2>2. CASE DOMAIN qTable # {}
    <3> DEFINE table == WithKeys(qTable, ids)
    <3>1. PICK K \in Highest(table) : qTable' = Restrict(table, K)
      BY <2>2 DEF UpdateMemory
    <3>2. /\ DOMAIN table = ids
          /\ \A k \in ids : table[k] = 0 \/ (k \in DOMAIN qTable /\ table[k] = qTable[k])
      <4>1. table = [k \in ids |-> IF k \in DOMAIN qTable THEN qTable[k] ELSE 0]
        BY DEF WithKeys
      <4> HIDE DEF table
      <4> QED  BY <4>1
    <3> HIDE DEF table
    <3>3. K \subseteq ids
      BY <3>2 DEF Highest
    <3>4. qTable' = [k \in K |-> table[k]]
      BY <3>1 DEF Restrict
    <3>5. DOMAIN qTable' = K /\ \A k \in K : qTable'[k] = table[k]
      BY <3>4
    <3>6. qTable' \in [K -> Int]
      BY <3>2, <3>3, <3>4 DEF QInv, TypeOK
    <3> QED  BY <3>2, <3>3, <3>5, <3>6
  <2> QED  BY <2>1, <2>2
<1>2. \A k \in DOMAIN qTable' : qTable'[k] \in -5 * One .. 5 * One
  BY <1>1 DEF QInv, QIsBounded
<1>3. QIsBounded'
  BY <1>2 DEF QIsBounded
<1>4. qTable' \in [DOMAIN qTable' -> Int] /\ DOMAIN qTable' \subseteq Keys
  BY <1>1 DEF Keys
<1>5. /\ told' = ids /\ answered' = {}
      /\ UNCHANGED <<bestFoundSolution, updates, seen>>
  BY DEF UpdateMemory
<1>6. TypeOK'
  BY <1>4, <1>5 DEF QInv, TypeOK
<1> QED  BY <1>3, <1>6 DEF QInv

LEMMA RewardKeepsQ ==
    ASSUME QInv, NEW key \in Keys, NEW value \in Values, ProcessMetaHeuristic(key, value)
    PROVE  QInv'
<1> DEFINE reward == Reward(value)
<1>1. reward \in -One .. One
  BY RewardIsBounded
<1>2. UpdateQTable(key, reward)
  BY DEF ProcessMetaHeuristic
<1> HIDE DEF reward
<1>3. /\ DOMAIN qTable' \subseteq DOMAIN qTable \cup {key}
      /\ \A k \in DOMAIN qTable' : qTable'[k] \in -5 * One .. 5 * One
      /\ qTable' = [k \in DOMAIN qTable' |-> qTable'[k]]
  <2>1. CASE key \in DOMAIN qTable
    <3>1. qTable' = [qTable EXCEPT ![key] = Learned(qTable[key], reward)]
      BY <1>2, <2>1 DEF UpdateQTable
    <3>2. Learned(qTable[key], reward) \in -5 * One .. 5 * One
      BY <1>1, <2>1, LearnedIsBounded DEF QInv, QIsBounded
    <3>3. qTable = [k \in DOMAIN qTable |-> qTable[k]]
      BY DEF QInv, TypeOK
    <3> QED  BY <2>1, <3>1, <3>2, <3>3 DEF QInv, QIsBounded
  <2>2. CASE key \notin DOMAIN qTable
    <3>1. PICK gone : qTable' = [k \in (DOMAIN qTable \ gone) \cup {key} |->
                                    IF k = key THEN reward ELSE qTable[k]]
      BY <1>2, <2>2 DEF UpdateQTable
    <3>2. reward \in -5 * One .. 5 * One
      BY <1>1
    <3> QED  BY <3>1, <3>2 DEF QInv, QIsBounded
  <2> QED  BY <2>1, <2>2
<1>4. QIsBounded'
  BY <1>3 DEF QIsBounded
<1>5. qTable' \in [DOMAIN qTable' -> Int] /\ DOMAIN qTable' \subseteq Keys
  BY <1>3 DEF QInv, TypeOK
<1>6. TypeOK'
  BY <1>5 DEF QInv, TypeOK, ProcessMetaHeuristic
<1> QED  BY <1>4, <1>6 DEF QInv

LEMMA InitQ == Init => QInv
BY DEF Init, EmptyTable, QInv, TypeOK, QIsBounded

LEMMA StepQ == ASSUME QInv, [Next]_vars PROVE QInv'
<1>1. CASE \E ids \in SUBSET RegionIds : UpdateMemory(ids)
  BY <1>1, UpdateMemoryKeepsQ
<1>2. CASE \E key \in Keys, value \in Values : ProcessMetaHeuristic(key, value)
  BY <1>2, RewardKeepsQ
<1>3. CASE Reset
  BY <1>3 DEF Reset, EmptyTable, QInv, TypeOK, QIsBounded
<1>4. CASE UNCHANGED vars
  BY <1>4 DEF vars, QInv, TypeOK, QIsBounded
<1> QED  BY <1>1, <1>2, <1>3, <1>4 DEF Next

LEMMA QAlways == Spec => []QInv
BY InitQ, StepQ, PTL DEF Spec

\* However many rewards an agent learns from, in whatever order, its entries
\* stay within five rewards (QLearningMemory.updateQTable: alpha, gamma).
THEOREM QStaysBounded == Spec => []QIsBounded
<1>1. QInv => QIsBounded
  BY DEF QInv
<1> QED  BY <1>1, QAlways, PTL

\* The table keeps its type: only regions, and the nobody that constructed
\* solutions come from, are keys, every entry is a number, and the best solution
\* is null or the value of one (updateMemory, updateQTable, reset).
THEOREM MemoryTypeIsKept == Spec => []TypeOK
<1>1. QInv => TypeOK
  BY DEF QInv
<1> QED  BY <1>1, QAlways, PTL

-----------------------------------------------------------------------------
(* What stays and what leaves *)

\* Only a reward can bring a region back that the leader no longer names
\* (QLearningMemory.updateRegionIds, updateQTable).
THEOREM OnlyLateAnswersStay == Spec => []OnlyLateAnswersAreStale
<1>1. Init => OnlyLateAnswersAreStale
  BY DEF Init, EmptyTable, OnlyLateAnswersAreStale
<1>2. OnlyLateAnswersAreStale /\ [Next]_vars => OnlyLateAnswersAreStale'
  <2> SUFFICES ASSUME OnlyLateAnswersAreStale, [Next]_vars PROVE OnlyLateAnswersAreStale'
    OBVIOUS
  <2>1. ASSUME NEW ids \in SUBSET RegionIds, UpdateMemory(ids) PROVE OnlyLateAnswersAreStale'
    <3>1. DOMAIN qTable' \subseteq ids
      <4>1. CASE DOMAIN qTable = {}
        BY <2>1, <4>1 DEF UpdateMemory, Samples, WithKeys
      <4>2. CASE DOMAIN qTable # {}
        BY <2>1, <4>2 DEF UpdateMemory, Highest, WithKeys, Restrict
      <4> QED  BY <4>1, <4>2
    <3> QED  BY <2>1, <3>1 DEF UpdateMemory, OnlyLateAnswersAreStale
  <2>2. ASSUME NEW key \in Keys, NEW value \in Values, ProcessMetaHeuristic(key, value)
        PROVE  OnlyLateAnswersAreStale'
    <3>1. DOMAIN qTable' \subseteq DOMAIN qTable \cup {key}
      BY <2>2 DEF ProcessMetaHeuristic, UpdateQTable
    <3> QED  BY <2>2, <3>1 DEF ProcessMetaHeuristic, OnlyLateAnswersAreStale
  <2>3. CASE Reset
    BY <2>3 DEF Reset, EmptyTable, OnlyLateAnswersAreStale
  <2>4. CASE UNCHANGED vars
    BY <2>4 DEF vars, OnlyLateAnswersAreStale
  <2> QED  BY <2>1, <2>2, <2>3, <2>4 DEF Next
<1> QED  BY <1>1, <1>2, PTL DEF Spec

\* However often results come in, the best solution an agent remembers is one
\* of those since the last reset, and no other is better by the tolerance
\* (QLearningMemory.updateBestFoundSolution, Agent.reset).
THEOREM BestStaysNearLeastSeen == Spec => []BestIsNearLeastSeen
<1>1. Init => BestIsNearLeastSeen
  BY DEF Init, BestIsNearLeastSeen
<1>2. QInv /\ BestIsNearLeastSeen /\ [Next]_vars => BestIsNearLeastSeen'
  <2> SUFFICES ASSUME QInv, BestIsNearLeastSeen, [Next]_vars PROVE BestIsNearLeastSeen'
    OBVIOUS
  <2>1. CASE \E ids \in SUBSET RegionIds : UpdateMemory(ids)
    BY <2>1 DEF UpdateMemory, BestIsNearLeastSeen
  <2>2. ASSUME NEW key \in Keys, NEW value \in Values, ProcessMetaHeuristic(key, value)
        PROVE  BestIsNearLeastSeen'
    <3>1. /\ seen' = seen \cup {value} /\ value \in Int /\ value # NoSolution
          /\ bestFoundSolution' = IF Better(value) THEN value ELSE bestFoundSolution
          /\ \A v \in seen : v \in Int
      BY <2>2, ValuesAssumption DEF ProcessMetaHeuristic, QInv, TypeOK
    <3>2. CASE bestFoundSolution = NoSolution
      BY <3>1, <3>2, ToleranceAssumption DEF Better, BestIsNearLeastSeen
    <3>3. CASE bestFoundSolution # NoSolution
      <4>1. /\ bestFoundSolution \in seen /\ bestFoundSolution \in Int
            /\ \A v \in seen : bestFoundSolution - v < Tolerance
        BY <3>1, <3>3 DEF BestIsNearLeastSeen
      <4>2. CASE bestFoundSolution - value >= Tolerance
        <5>1. bestFoundSolution' = value
          BY <3>1, <4>2 DEF Better
        <5>2. \A v \in seen \cup {value} : value - v < Tolerance
          BY <3>1, <4>1, <4>2, ToleranceAssumption
        <5> QED  BY <3>1, <5>1, <5>2 DEF BestIsNearLeastSeen
      <4>3. CASE ~ (bestFoundSolution - value >= Tolerance)
        <5>1. bestFoundSolution' = bestFoundSolution
          BY <3>1, <3>3, <4>3 DEF Better
        <5>2. \A v \in seen \cup {value} : bestFoundSolution - v < Tolerance
          BY <3>1, <4>1, <4>3, ToleranceAssumption
        <5> QED  BY <3>1, <3>3, <4>1, <5>1, <5>2 DEF BestIsNearLeastSeen
      <4> QED  BY <4>2, <4>3
    <3> QED  BY <3>2, <3>3
  <2>3. CASE Reset
    BY <2>3 DEF Reset, BestIsNearLeastSeen
  <2>4. CASE UNCHANGED vars
    BY <2>4 DEF vars, BestIsNearLeastSeen
  <2> QED  BY <2>1, <2>2, <2>3, <2>4 DEF Next
<1> QED  BY <1>1, <1>2, QAlways, PTL DEF Spec

\* A region in use leaves the memory for want of room only, and the one worth
\* least (QLearningMemory.updateRegionIds, updateQTable).
THEOREM LeastIsDropped == Spec => DropsTheWorst
<1> DEFINE Kept == DOMAIN qTable \cap DOMAIN qTable'
           Dropped == \A gone \in DOMAIN qTable \ DOMAIN qTable' :
             (gone \in told' /\ DOMAIN qTable' # {}) =>
               /\ Cardinality(DOMAIN qTable') = MaxMemory
               /\ \A kept \in Kept : qTable[gone] <= qTable[kept]
<1>1. KeysBounded /\ QInv /\ [Next]_vars => [Dropped]_vars
  <2> SUFFICES ASSUME KeysBounded, QInv, Next, NEW gone \in DOMAIN qTable \ DOMAIN qTable',
                      gone \in told', DOMAIN qTable' # {}
               PROVE  /\ Cardinality(DOMAIN qTable') = MaxMemory
                      /\ \A kept \in Kept : qTable[gone] <= qTable[kept]
    OBVIOUS
  <2>1. ASSUME NEW ids \in SUBSET RegionIds, UpdateMemory(ids)
        PROVE  /\ Cardinality(DOMAIN qTable') = MaxMemory
               /\ \A kept \in Kept : qTable[gone] <= qTable[kept]
    <3> DEFINE table == WithKeys(qTable, ids)
    <3>1. PICK K \in Highest(table) : qTable' = Restrict(table, K)
      BY <2>1 DEF UpdateMemory
    <3>2. DOMAIN qTable' = K
      BY <3>1 DEF Restrict, Highest
    <3>3. DOMAIN table = ids /\ gone \in ids
      BY <2>1 DEF UpdateMemory, WithKeys
    <3>4. \A k \in ids \cap DOMAIN qTable : table[k] = qTable[k]
      BY DEF WithKeys
    <3> HIDE DEF table
    <3>5. K \subseteq ids /\ Cardinality(K) = MaxMemory
      BY <3>2, <3>3 DEF Highest
    <3>6. \A k \in K : table[gone] <= table[k]
      BY <3>2, <3>3 DEF Highest
    <3> QED  BY <3>2, <3>3, <3>4, <3>5, <3>6
  <2>2. ASSUME NEW key \in Keys, NEW value \in Values, ProcessMetaHeuristic(key, value)
        PROVE  /\ Cardinality(DOMAIN qTable') = MaxMemory
               /\ \A kept \in Kept : qTable[gone] <= qTable[kept]
    <3> DEFINE full == Cardinality(DOMAIN qTable) >= MaxMemory
    <3>1. key \notin DOMAIN qTable /\ full
      <4>1. CASE key \in DOMAIN qTable
        BY <2>2, <4>1 DEF ProcessMetaHeuristic, UpdateQTable
      <4>2. CASE key \notin DOMAIN qTable /\ ~full
        BY <2>2, <4>2 DEF ProcessMetaHeuristic, UpdateQTable
      <4> QED  BY <4>1, <4>2
    <3>2. PICK k \in Lowest :
            DOMAIN qTable' = (DOMAIN qTable \ {k}) \cup {key}
      BY <2>2, <3>1 DEF ProcessMetaHeuristic, UpdateQTable
    <3>3. k = gone
      BY <3>2
    <3>4. \A kept \in Kept : qTable[gone] <= qTable[kept]
      BY <3>2, <3>3 DEF Lowest
    <3>5. /\ IsFiniteSet(DOMAIN qTable) /\ Cardinality(DOMAIN qTable) = MaxMemory
      BY <3>1, KeysFinite, MaxMemoryAssumption DEF KeysBounded, MemoryIsBounded
    <3>6. IsFiniteSet(DOMAIN qTable \ {k}) /\ Cardinality(DOMAIN qTable \ {k}) = MaxMemory - 1
      BY <3>3, <3>5, FS_RemoveElement
    <3>7. Cardinality((DOMAIN qTable \ {k}) \cup {key}) = MaxMemory
      BY <3>1, <3>6, FS_AddElement, MaxMemoryAssumption
    <3> QED  BY <3>2, <3>4, <3>7
  <2>3. CASE Reset
    BY <2>3 DEF Reset, EmptyTable
  <2> QED  BY <2>1, <2>2, <2>3 DEF Next
<1>2. Spec => [](KeysBounded /\ QInv)
  <2>1. Init => KeysBounded /\ QInv
    BY InitQ, InitKeys
  <2>2. KeysBounded /\ QInv /\ [Next]_vars => (KeysBounded /\ QInv)'
    BY StepQ, StepKeys
  <2> QED  BY <2>1, <2>2, PTL DEF Spec
<1> QED  BY <1>1, <1>2, PTL DEF Spec, DropsTheWorst
=============================================================================
