-------------------------- MODULE RegionStatistics --------------------------
(***************************************************************************)
(* The arithmetic d-optimas takes its decisions with.  A region keeps the  *)
(* commons-math summary of the function values of its solutions, the       *)
(* leader aggregates the summaries of all regions, and both are compared   *)
(* by their variation rate |std / mean|.                                   *)
(*                                                                         *)
(* A summary is the record of the three sums that determine it: how many   *)
(* values, their sum and the sum of their squares.  Mean, variance and the *)
(* variation rate are never rounded here: every comparison of the code is  *)
(* squared and cross-multiplied into one between integers.                 *)
(***************************************************************************)
EXTENDS Integers, SequencesExt

CONSTANTS
    Solutions,          \* the solutions agents may produce
    FunctionValue       \* FunctionValue[s] is the objective value of s

ASSUME FunctionValueAssumption == FunctionValue \in [Solutions -> Int]

Summaries == [n : Nat, sum : Int, squares : Int]

EmptySummary == [n |-> 0, sum |-> 0, squares |-> 0]

AddValue(summary, v) ==
    [n       |-> summary.n + 1,
     sum     |-> summary.sum + v,
     squares |-> summary.squares + v * v]

Merge(s, t) ==
    [n |-> s.n + t.n, sum |-> s.sum + t.sum, squares |-> s.squares + t.squares]

AddAll(statistics, list) ==
    FoldLeft(LAMBDA st, s : AddValue(st, FunctionValue[s]), statistics, list)

\* The summary of a list of solutions added to an empty one.
SummaryOf(list) == AddAll(EmptySummary, list)

-----------------------------------------------------------------------------
\* n^2 (n-1) / n times the sample variance: an integer with its sign.
Deviation(s) == s.n * s.squares - s.sum * s.sum

\* variationRate(s)^2 is RateOver(s) / RateUnder(s); one value deviates by 0.
RateOver(s)  == s.n * Deviation(s)
RateUnder(s) == (IF s.n > 1 THEN s.n - 1 ELSE 1) * s.sum * s.sum

\* 0/0, or the statistics of no value at all: every comparison is false.
RateIsNaN(s) == s.n = 0 \/ (RateUnder(s) = 0 /\ RateOver(s) = 0)

\* 1/rate is infinite: no deviation around a mean other than 0.
RateIsZero(s) == ~RateIsNaN(s) /\ RateOver(s) = 0

\* 1/rate is 0: deviation around the mean 0.
RateIsInfinite(s) == ~RateIsNaN(s) /\ RateUnder(s) = 0

RateLess(s, t) ==
    /\ ~RateIsNaN(s)
    /\ ~RateIsNaN(t)
    /\ RateOver(s) * RateUnder(t) < RateOver(t) * RateUnder(s)

-----------------------------------------------------------------------------
\* Mutants: the nearer values; a distance without its sign.
NearMean(s, v) ==
    (s.sum - s.n * v) * (s.sum - s.n * v) * (s.n - 1) <= s.n * Deviation(s)

FarOnEitherSide(s, v) ==
    (s.sum - s.n * v) * (s.sum - s.n * v) * (s.n - 1) > s.n * Deviation(s)

\* v is more than one standard deviation of s below (above) the mean of s.
FarFromMean(s, v) ==
    (s.sum - s.n * v) * (s.sum - s.n * v) * (s.n - 1) > s.n * Deviation(s)
FarBelow(s, v) == s.sum - s.n * v > 0 /\ FarFromMean(s, v)
FarAbove(s, v) == s.n * v - s.sum > 0 /\ FarFromMean(s, v)

\* The solutions of a list that are chosen, in their order.
Those(list, chosen) ==
    FoldLeft(LAMBDA kept, x : IF x \in chosen THEN Append(kept, x) ELSE kept, <<>>, list)

LowerSolutions(list, s) == Those(list, {x \in Solutions : FarBelow(s, FunctionValue[x])})
HigherSolutions(list, s) == Those(list, {x \in Solutions : FarAbove(s, FunctionValue[x])})

\* Mutant: the higher solutions stay as well.
NotLowerSolutions(list, s) == Those(list, {x \in Solutions : ~FarBelow(s, FunctionValue[x])})

MiddleSolutions(list, s) ==
    Those(list, {x \in Solutions : ~FarBelow(s, FunctionValue[x])
                                   /\ ~FarAbove(s, FunctionValue[x])})
=============================================================================
