-------------------------- MODULE QLearningMemory ---------------------------
(***************************************************************************)
(* core/agents/QLearningMemory.java as its Agent drives it: what an agent  *)
(* remembers of the regions it has worked with.  The leader's updates name *)
(* the regions in use, every result the agent computes rewards the region  *)
(* its solutions came from.  The agent draws its next region from the      *)
(* table, any entry of it (chooseRegion changes nothing); the table holds  *)
(* at most maxRegions regions.                                             *)
(*                                                                         *)
(* Q values are integers in units of 1 / One, exact while no value is      *)
(* updated more often than One has factors of ten.  Where entries tie, the *)
(* order of the hash map decides: a choice.                                *)
(***************************************************************************)
EXTENDS Integers, Sequences, FiniteSets, SequencesExt, Functions

CONSTANTS
    RegionIds,
    Nobody,             \* the region of solutions an agent constructed
    MaxMemory,          \* maxRegions
    One,                \* the unit of Q values
    Values,             \* objective values of solutions
    Tolerance,          \* the analyser's tolerance, in the unit of values
    Sigmoid,            \* sigmoid(-1, 1) of a difference of two values
    NoSolution,         \* null
    MaxUpdates          \* bound: results between two resets

Keys == RegionIds \cup {Nobody}
Differences == {v - w : v, w \in Values}

ASSUME RegionIdsAssumption == IsFiniteSet(RegionIds) /\ Nobody \notin RegionIds
ASSUME MaxMemoryAssumption == MaxMemory \in Nat \ {0}
ASSUME OneAssumption == One \in Nat \ {0}
ASSUME ValuesAssumption == Values \subseteq Int /\ NoSolution \notin Values
ASSUME ToleranceAssumption == Tolerance \in Nat \ {0}
ASSUME SigmoidAssumption ==
    /\ Sigmoid \in [Differences -> -One .. One]
    /\ 0 \in Differences => Sigmoid[0] = 0

VARIABLES
    qTable,             \* a function from some of the keys to their Q values
    bestFoundSolution,  \* its value
    told,               \* the ids of the last update of the leader
    answered,           \* the keys rewarded since
    updates,
    seen                \* history: the values of results since the last reset

vars == <<qTable, bestFoundSolution, told, answered, updates, seen>>

TypeOK ==
    /\ DOMAIN qTable \subseteq Keys
    /\ qTable \in [DOMAIN qTable -> Int]
    /\ bestFoundSolution \in Values \cup {NoSolution}
    /\ told \subseteq RegionIds
    /\ answered \subseteq Keys
    /\ updates \in Nat
    /\ seen \subseteq Values

\* Mutant: a hash map takes null for a key.
TableOfNull == [k \in {NoSolution} |-> 0]

EmptyTable == [k \in {} |-> 0]

Init ==
    /\ qTable = EmptyTable
    /\ bestFoundSolution = NoSolution
    /\ told = {}
    /\ answered = {}
    /\ updates = 0
    /\ seen = {}

-----------------------------------------------------------------------------
\* Mutant: only adds.
WithKeysAdded(table, K) ==
    [k \in DOMAIN table \cup K |-> IF k \in DOMAIN table THEN table[k] ELSE 0]

\* The table with the entries of K only, those it did not have at sigmoid(0).
WithKeys(table, K) == [k \in K |-> IF k \in DOMAIN table THEN table[k] ELSE 0]

\* The sets of at most MaxMemory keys whose entries are the highest.
Highest(table) ==
    {K \in SUBSET DOMAIN table :
        /\ Cardinality(K) <= MaxMemory
        /\ K # DOMAIN table => Cardinality(K) = MaxMemory
        /\ \A k \in K : \A d \in DOMAIN table \ K : table[d] <= table[k]}

\* initialize: any MaxMemory of the ids.
Samples(ids) ==
    {K \in SUBSET ids : /\ Cardinality(K) <= MaxMemory
                        /\ K # ids => Cardinality(K) = MaxMemory}

UpdateMemory(ids) ==
    /\ IF DOMAIN qTable = {}
       THEN \E K \in Samples(ids) : qTable' = WithKeys(EmptyTable, K)
       ELSE LET table == WithKeys(qTable, ids)
            IN  \E K \in Highest(table) : qTable' = Restrict(table, K)
    /\ told' = ids
    /\ answered' = {}
    /\ UNCHANGED <<bestFoundSolution, updates, seen>>

Reward(value) ==
    IF bestFoundSolution = NoSolution THEN One
    ELSE Sigmoid[bestFoundSolution - value]

MaxQ == IF DOMAIN qTable = {} THEN 0
        ELSE CHOOSE q \in Range(qTable) : \A p \in Range(qTable) : p <= q

\* Mutant: the best entry leaves.
MostValued == {k \in DOMAIN qTable : \A j \in DOMAIN qTable : qTable[j] <= qTable[k]}

Lowest == {k \in DOMAIN qTable : \A j \in DOMAIN qTable : qTable[k] <= qTable[j]}

\* Mutant: q + alpha * reward + gamma * maxQ.
LearnedForEver(q, reward) == (10 * q + 5 * reward + 8 * MaxQ) \div 10

\* alpha = 0.5, gamma = 0.8
Learned(q, reward) == (10 * q + 5 * (reward - q) + 4 * MaxQ) \div 10

\* Mutant: room is made one entry too late.
UpdateQTableLate(key, reward) ==
    IF key \in DOMAIN qTable
    THEN qTable' = [qTable EXCEPT ![key] = Learned(@, reward)]
    ELSE \E evicted \in IF Cardinality(DOMAIN qTable) > MaxMemory
                        THEN {{k} : k \in Lowest} ELSE {{}} :
            qTable' = [k \in (DOMAIN qTable \ evicted) \cup {key} |->
                          IF k = key THEN reward ELSE qTable[k]]

UpdateQTable(key, reward) ==
    IF key \in DOMAIN qTable
    THEN qTable' = [qTable EXCEPT ![key] = Learned(@, reward)]
    ELSE \E evicted \in IF Cardinality(DOMAIN qTable) >= MaxMemory
                        THEN {{k} : k \in Lowest} ELSE {{}} :
            qTable' = [k \in (DOMAIN qTable \ evicted) \cup {key} |->
                          IF k = key THEN reward ELSE qTable[k]]

\* Mutant: analyser.compare(bestFoundSolution, solution) > 0
NotWorse(value) == bestFoundSolution = NoSolution \/ value - bestFoundSolution < Tolerance

\* analyser.compare(solution, bestFoundSolution) < 0: the analyser prefers the
\* first of two solutions only if it is better by the tolerance or more.
Better(value) == bestFoundSolution = NoSolution \/ bestFoundSolution - value >= Tolerance

\* processMetaHeuristic with a result whose first solution has this value.
ProcessMetaHeuristic(key, value) ==
    /\ updates < MaxUpdates
    /\ updates' = updates + 1
    /\ UpdateQTable(key, Reward(value))
    /\ bestFoundSolution' = IF Better(value) THEN value ELSE bestFoundSolution
    /\ answered' = answered \cup {key}
    /\ seen' = seen \cup {value}
    /\ UNCHANGED told

Reset ==
    /\ qTable' = EmptyTable
    /\ bestFoundSolution' = NoSolution
    /\ answered' = {}
    /\ updates' = 0
    /\ seen' = {}
    /\ UNCHANGED told

Next ==
    \/ \E ids \in SUBSET RegionIds : UpdateMemory(ids)
    \/ \E key \in Keys, value \in Values : ProcessMetaHeuristic(key, value)
    \/ Reset

Spec == Init /\ [][Next]_vars

-----------------------------------------------------------------------------
(* The memory never grows past maxRegions, whether a table is filled from  *)
(* an update, trimmed by one or extended by a reward.                      *)
MemoryIsBounded == Cardinality(DOMAIN qTable) <= MaxMemory

(* A region the leader did not name in its last update is in the memory    *)
(* only if an answer of that region was rewarded after the update: what    *)
(* an agent may still choose of the regions that are gone.                 *)
OnlyLateAnswersAreStale == DOMAIN qTable \subseteq told \cup answered

(* Whatever the order of updates, rewards and evictions, a Q value stays   *)
(* within 1 / (1 - gamma) rewards.                                         *)
QIsBounded == \A k \in DOMAIN qTable : qTable[k] \in -5 * One .. 5 * One

(* The best solution an agent remembers is one it has computed since the   *)
(* last reset, and none of these is better by the tolerance or more.  Near *)
(* ties do not add up here as they do in the pool of a region, because the *)
(* older of two solutions stays unless the newer is better by the          *)
(* tolerance: every reward is measured against a value that is near the    *)
(* least one seen (updateBestFoundSolution, reward).                       *)
BestIsNearLeastSeen ==
    /\ bestFoundSolution = NoSolution <=> seen = {}
    /\ seen # {} => /\ bestFoundSolution \in seen
                    /\ \A v \in seen : bestFoundSolution - v < Tolerance

(* A region that is still in use is dropped from the memory only for the   *)
(* want of room, and only if no entry that is kept was worth less.         *)
DropsTheWorst ==
    [][\A gone \in DOMAIN qTable \ DOMAIN qTable' :
         (gone \in told' /\ DOMAIN qTable' # {}) =>
            /\ Cardinality(DOMAIN qTable') = MaxMemory
            /\ \A kept \in DOMAIN qTable \cap DOMAIN qTable' :
                  qTable[gone] <= qTable[kept]]_vars
=============================================================================
