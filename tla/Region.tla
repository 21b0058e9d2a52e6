------------------------------- MODULE Region -------------------------------
(***************************************************************************)
(* core/regions/Region.java: the pool of solutions of one region, with the *)
(* two statistics it maintains beside the list (stats decides the split,   *)
(* summary is what the leader is told) and the best solution it remembers. *)
(* The pool grows by collections, loses its outliers when it splits and    *)
(* everything when the simulation stops.                                   *)
(***************************************************************************)
EXTENDS RegionStatistics

CONSTANTS
    MinSolutionsToSplit,    \* regionSettings.minSolutionsToSplit
    Tolerance,              \* the analyser's tolerance, in the unit of values
    MaxCollection,          \* bound: the longest collection added at once
    NoSolution              \* null: no best solution yet

ASSUME MinSolutionsToSplitAssumption == MinSolutionsToSplit \in Nat \ {0}
ASSUME ToleranceAssumption == Tolerance \in Nat \ {0}
ASSUME NoSolutionAssumption == NoSolution \notin Solutions

VARIABLES
    solutionList,       \* the pool
    stats,              \* DescriptiveStatistics: the values the split uses
    summary,            \* SummaryStatistics: the values the leader is told
    bestSolution,
    splitResult         \* what split() returned, if it was the last call

vars == <<solutionList, stats, summary, bestSolution, splitResult>>

NotSplit == [lower |-> <<>>, higher |-> <<>>, split |-> FALSE]

\* The pool is a list without repetitions: a solution is added to it once.
TypeOK ==
    /\ solutionList \in Seq(Solutions) /\ IsInjective(solutionList)
    /\ stats \in Summaries
    /\ summary \in Summaries
    /\ bestSolution \in Solutions \cup {NoSolution}
    /\ splitResult \in [lower : Seq(Solutions), higher : Seq(Solutions),
                        split : BOOLEAN]

Init ==
    /\ solutionList = <<>>
    /\ stats = EmptySummary
    /\ summary = EmptySummary
    /\ bestSolution = NoSolution
    /\ splitResult = NotSplit

\* The left one only if it is better by the tolerance or more.
GetBestSolution(left, right) ==
    IF FunctionValue[right] - FunctionValue[left] >= Tolerance
    THEN left ELSE right

BestOf(list) == FoldLeft(GetBestSolution, Head(list), Tail(list))

\* Mutant: the best so far against the new ones, not the whole list again.
AddSolutionsToBest(kept, st, sm, list) ==
    /\ solutionList' = kept \o list
    /\ stats' = AddAll(st, list)
    /\ summary' = AddAll(sm, list)
    /\ bestSolution' = IF bestSolution = NoSolution /\ list # <<>> THEN BestOf(list)
                       ELSE FoldLeft(GetBestSolution, bestSolution, list)

\* The pool `kept`, whose statistics are `st` and `sm`, receives `list`.
AddSolutionsTo(kept, st, sm, list) ==
    /\ solutionList' = kept \o list
    /\ stats' = AddAll(st, list)
    /\ summary' = AddAll(sm, list)
    /\ bestSolution' = IF kept \o list = <<>> THEN bestSolution
                                              ELSE BestOf(kept \o list)

AddSolutionsCollection(list) ==
    /\ AddSolutionsTo(solutionList, stats, summary, list)
    /\ splitResult' = NotSplit

\* Mutants: the list, the summary survives.
KeptList == solutionList
KeptSummary == summary

\* What clear() leaves of list and statistics; bestSolution is left as it is.
ClearedList == <<>>
ClearedStats == EmptySummary
ClearedSummary == EmptySummary

Split ==
    /\ splitResult' =
         IF Len(solutionList) >= MinSolutionsToSplit
         THEN [lower  |-> LowerSolutions(solutionList, stats),
               higher |-> HigherSolutions(solutionList, stats),
               split  |-> TRUE]
         ELSE NotSplit
    /\ IF Len(solutionList) >= MinSolutionsToSplit
       THEN AddSolutionsTo(ClearedList, ClearedStats, ClearedSummary,
                           MiddleSolutions(solutionList, stats))
       ELSE UNCHANGED <<solutionList, stats, summary, bestSolution>>

Clear ==
    /\ solutionList' = ClearedList
    /\ stats' = ClearedStats
    /\ summary' = ClearedSummary
    /\ splitResult' = NotSplit
    /\ UNCHANGED bestSolution

\* Collections of solutions the pool does not hold, at most MaxCollection long.
Collections ==
    LET fresh == Solutions \ ToSet(solutionList)
    IN  {list \in BoundedSeq(fresh, MaxCollection) : IsInjective(list)}

Next ==
    \/ \E list \in Collections : AddSolutionsCollection(list)
    \/ Split
    \/ Clear

Spec == Init /\ [][Next]_vars

-----------------------------------------------------------------------------
(* Both statistics are those of exactly the solutions in the list, after   *)
(* any sequence of additions, splits and clears: they are maintained apart *)
(* from it, value by value, and a split rebuilds all three.                *)
StatisticsAgree ==
    /\ stats = SummaryOf(solutionList)
    /\ summary = SummaryOf(solutionList)

\* Later in the list than p nothing comes within the tolerance, and from every
\* better value a step up of less than the tolerance leads to a later one.
LinkedTo(list, p) ==
    LET ValueAt(i) == FunctionValue[list[i]]
    IN  /\ \A i \in DOMAIN list : i > p => ValueAt(i) - ValueAt(p) >= Tolerance
        /\ \A i \in DOMAIN list : ValueAt(i) < ValueAt(p) =>
              \E j \in DOMAIN list : /\ i < j
                                     /\ ValueAt(i) < ValueAt(j)
                                     /\ ValueAt(j) - ValueAt(i) < Tolerance

(* The remembered best solution is in the pool.  Two values closer than    *)
(* the tolerance count as equal and the later solution wins, so it need    *)
(* not be a minimum, but only a chain of such near ties, each later in the *)
(* pool than the one before, leads from a better solution to it; what came *)
(* after it is worse by the tolerance or more.  (addSolutionsCollection    *)
(* folds getBestSolution over the whole list; clear empties the list and   *)
(* leaves the best solution.)                                              *)
BestIsLinked ==
    solutionList # <<>> =>
        \E p \in DOMAIN solutionList :
            bestSolution = solutionList[p] /\ LinkedTo(solutionList, p)

(* A split loses and invents no solution: the two returned lists and the   *)
(* pool that stays are the old pool, each solution once.                   *)
SplitPartitions ==
    [][splitResult'.split =>
         LET parts == splitResult'.lower \o solutionList' \o splitResult'.higher
         IN  ToSet(parts) = ToSet(solutionList) /\ Len(parts) = Len(solutionList)]_vars

(* A split orders its parts by value and always leaves something: every    *)
(* lower solution is better than every one that stays, every higher one is *)
(* worse, and the region that splits never becomes empty.                  *)
SplitSeparates ==
    [][splitResult'.split =>
         /\ solutionList' # <<>>
         /\ \A m \in ToSet(solutionList') :
              /\ \A l \in ToSet(splitResult'.lower) : FunctionValue[l] < FunctionValue[m]
              /\ \A h \in ToSet(splitResult'.higher) : FunctionValue[h] > FunctionValue[m]]_vars

(* A split that moves anything away strictly lowers the sample variance of *)
(* what stays, so a region cannot split the same solutions for ever.       *)
SampleVarianceLess(s, t) ==
    LET scale(x) == IF x.n > 1 THEN x.n * (x.n - 1) ELSE 1
    IN  Deviation(s) * scale(t) < Deviation(t) * scale(s)

SplitNarrows ==
    [][(splitResult'.split /\ Len(solutionList') < Len(solutionList)) =>
         SampleVarianceLess(summary', summary)]_vars
=============================================================================
