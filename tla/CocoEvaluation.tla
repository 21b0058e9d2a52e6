--------------------------- MODULE CocoEvaluation ---------------------------
(***************************************************************************)
(* A problem of CoCO from the request to its release, as the Java side     *)
(* drives it through src/native/CocoJNI.c: a suite is asked for a          *)
(* function, a dimension and an instance, points are evaluated, the        *)
(* counters are read, the problem is freed.                                *)
(***************************************************************************)
EXTENDS CocoProblems

CONSTANTS Requests,         \* records [suite, function, n, instance]
          MaxCalls          \* bound on the evaluations of one problem

VARIABLES asked,            \* the request of the open problem, or << >>
          problem,          \* the problem as it was handed out and evaluated since
          handed,           \* the problem as it was handed out
          answers           \* what the calls returned, oldest first

vars == <<asked, problem, handed, answers>>
None == << >>

Functions == 1 .. 24
ConstrainedSuites ==
  {"bbob-constrained", "bbob-constrained-active-only", "bbob-constrained-no-disguise"}

suite_bbob_get_problem(r)        == coco_get_bbob_problem(r.function, r.n, r.instance)
suite_largescale_get_problem(r)  == coco_get_largescale_problem(r.function, r.n, r.instance)
suite_cons_bbob_get_problem(r)   == coco_get_cons_bbob_problem(r.suite, r.function, r.n, r.instance)
suite_bbob_mixint_get_problem(r) ==
  coco_get_bbob_mixint_problem(r.function, r.n, r.instance, r.n >= DimLargeScale)
suite_biobj_get_problem(r) ==
  coco_get_biobj_problem(r.function, r.n, r.instance, FALSE, Functions, {r.n})
suite_biobj_mixint_get_problem(r) ==
  coco_get_biobj_mixint_problem(r.function, r.n, r.instance, r.n >= DimLargeScale, Functions, {r.n})

coco_suite_get_problem_from_indices(r) ==
  CASE r.suite = "toy"               -> suite_toy_get_problem(r.function, r.n)
    [] r.suite = "bbob"              -> suite_bbob_get_problem(r)
    [] r.suite \in {"bbob-biobj", "bbob-biobj-ext"} -> suite_biobj_get_problem(r)
    [] r.suite \in ConstrainedSuites -> suite_cons_bbob_get_problem(r)
    [] r.suite = "bbob-largescale"   -> suite_largescale_get_problem(r)
    [] r.suite = "bbob-mixint"       -> suite_bbob_mixint_get_problem(r)
    [] r.suite = "bbob-biobj-mixint" -> suite_biobj_mixint_get_problem(r)

\* What the Java side reads of a problem, most of it when it gets hold of one.
Java_coco_CocoJNI_cocoProblemGetDimension(p)               == p.n
Java_coco_CocoJNI_cocoProblemGetNumberOfObjectives(p)      == p.noo
Java_coco_CocoJNI_cocoProblemGetNumberOfConstraints(p)     == p.nocons
Java_coco_CocoJNI_cocoProblemGetSmallestValuesOfInterest(p) == p.lower
Java_coco_CocoJNI_cocoProblemGetLargestValuesOfInterest(p) == p.upper
Java_coco_CocoJNI_cocoProblemGetNumberOfIntegerVariables(p) == p.integers
Java_coco_CocoJNI_cocoProblemGetLargestFValuesOfInterest(p) == IF p.noo = 1 THEN None ELSE p.nadir
Java_coco_CocoJNI_cocoProblemGetEvaluations(p)             == p.evaluations
Java_coco_CocoJNI_cocoProblemGetEvaluationsConstraints(p)  == p.evaluations_constraints
Java_coco_CocoJNI_cocoProblemIsFinalTargetHit(p) == IF coco_problem_final_target_hit(p) THEN 1 ELSE 0

BenchmarkProblem(p) ==
  [dimension                   |-> Java_coco_CocoJNI_cocoProblemGetDimension(p),
   number_of_objectives        |-> Java_coco_CocoJNI_cocoProblemGetNumberOfObjectives(p),
   number_of_constraints       |-> Java_coco_CocoJNI_cocoProblemGetNumberOfConstraints(p),
   lower_bounds                |-> Java_coco_CocoJNI_cocoProblemGetSmallestValuesOfInterest(p),
   upper_bounds                |-> Java_coco_CocoJNI_cocoProblemGetLargestValuesOfInterest(p),
   number_of_integer_variables |-> Java_coco_CocoJNI_cocoProblemGetNumberOfIntegerVariables(p)]

\* The declared optimum, or those of the two parts.
Optima(p) == IF p.noo = 1 THEN {p.bestx} ELSE {p.inner[1].bestx, p.inner[2].bestx}

\* The points an optimiser may ask for: optima, their neighbours one unit
\* away, a corner, the origin, the initial solution, and what is no point.
Moved(x, d) == Entries([x EXCEPT ![1] = @ + d])
\* A corner of the region of interest with the integers at their upper bounds:
\* the bi-objective suites allow [-100, 100], whose values TLC's integers do
\* not hold.
Corner(b) ==
  Entries([i \in 1 .. b.dimension |->
    IF i <= b.number_of_integer_variables THEN b.upper_bounds[i]
    ELSE Clamp(b.lower_bounds[i], -Bound, Bound)])
Infinite(n) == Entries([i \in 1 .. n |-> IF i = n THEN INF ELSE 0])
Points(p) ==
  LET b == BenchmarkProblem(p)
  IN Optima(p) \union {Moved(x, d) : x \in Optima(p), d \in {-One, One}}
       \union {Corner(b), Constant(b.dimension, 0), coco_problem_get_initial_solution(p),
               Infinite(b.dimension), NaN}

Init == asked = None /\ problem = None /\ handed = None /\ answers = << >>

Java_coco_CocoJNI_cocoSuiteGetProblem ==
  /\ asked = None
  /\ \E r \in Requests :
       /\ asked' = r
       /\ problem' = coco_suite_get_problem_from_indices(r)
  /\ handed' = problem'
  /\ UNCHANGED answers

Java_coco_CocoJNI_cocoEvaluateFunction ==
  /\ asked # None /\ Len(answers) < MaxCalls
  /\ \E x \in Points(handed) :
       LET a == coco_evaluate_function(problem, x, NoVersatile)
       IN /\ problem' = a.p
          /\ answers' = Append(answers, [call |-> "function", x |-> x, y |-> a.y, ok |-> a.ok])
  /\ UNCHANGED <<asked, handed>>

Java_coco_CocoJNI_cocoEvaluateConstraint ==
  /\ asked # None /\ Len(answers) < MaxCalls
  /\ BenchmarkProblem(handed).number_of_constraints > 0
  /\ \E x \in Points(handed) :
       LET a == coco_evaluate_constraint(problem, x)
       IN /\ problem' = a.p
          /\ answers' = Append(answers, [call |-> "constraint", x |-> x, y |-> a.y, ok |-> a.ok])
  /\ UNCHANGED <<asked, handed>>

coco_problem_free ==
  /\ asked # None
  /\ asked' = None /\ problem' = None /\ handed' = None /\ answers' = << >>

Next == \/ Java_coco_CocoJNI_cocoSuiteGetProblem
        \/ Java_coco_CocoJNI_cocoEvaluateFunction
        \/ Java_coco_CocoJNI_cocoEvaluateConstraint
        \/ coco_problem_free

Spec == Init /\ [][Next]_vars

----------------------------------------------------------------------------
Finite(x) == coco_vector_isfinite(x)
FeasiblePoint(x) == coco_is_feasible(handed, x).ok
\* The evaluations that count.
Counted == {k \in DOMAIN answers : answers[k].call = "function" /\ Finite(answers[k].x)}
CountedConstraints == {k \in DOMAIN answers : answers[k].call = "constraint" /\ Finite(answers[k].x)}

(* The optimum a problem declares is its optimum: it is feasible and has   *)
(* the declared best value, no feasible point has a lower one, and no      *)
(* assertion of a transformation on the way fails.  The best value is      *)
(* assembled layer by layer while the problem is built (transform_obj_*,   *)
(* transform_vars_*, coco.c:4047-12033), independently of the evaluation.  *)
DeclaredBestIsBest ==
  \A k \in Counted :
    LET a == answers[k]
    IN /\ a.ok
       /\ FeasiblePoint(a.x) => \A j \in DOMAIN a.y : a.y[j] >= handed.besty[j]
       /\ handed.noo = 1 /\ a.x = handed.bestx => a.y = handed.besty /\ FeasiblePoint(a.x)

(* The ideal and the nadir point of a bi-objective problem come from the   *)
(* optima of its parts: at the optimum of one part that objective is ideal *)
(* and the other one nadir, whatever was evaluated to find that out and    *)
(* whichever transformations the parts carry                               *)
(* (coco_problem_stacked_allocate, coco_get_biobj_problem).                *)
NadirIsReached ==
  asked # None /\ handed.noo = 2 =>
    LET largest == Java_coco_CocoJNI_cocoProblemGetLargestFValuesOfInterest(problem)
    IN /\ \A j \in {1, 2} : largest[j] >= handed.besty[j]
       /\ \A k \in Counted :
            /\ answers[k].x = handed.inner[1].bestx => answers[k].y = <<handed.besty[1], largest[2]>>
            /\ answers[k].x = handed.inner[2].bestx => answers[k].y = <<largest[1], handed.besty[2]>>

(* A problem is handed out as if nobody had looked at it, although its     *)
(* construction evaluated it to learn best, nadir and feasible values, and *)
(* the solution it proposes to start from is feasible                      *)
(* (coco_problem_transformed_allocate, coco_problem_get_initial_solution). *)
HandedOutFresh ==
  asked # None =>
    /\ Java_coco_CocoJNI_cocoProblemGetEvaluations(handed) = 0
    /\ Java_coco_CocoJNI_cocoProblemGetEvaluationsConstraints(handed) = 0
    /\ handed.best_observed = DBL_MAX
    /\ FeasiblePoint(coco_problem_get_initial_solution(handed))

(* What the problem reports of its past is what happened: the calls it     *)
(* counts are those with a finite point, whatever the inner problems and   *)
(* the tests of feasibility evaluated; the best value it remembers is that *)
(* of the first best feasible call, under that call's number; and the      *)
(* target is hit when it is the optimum (coco_evaluate_function,           *)
(* coco_problem_final_target_hit).                                         *)
Rank(k) == Cardinality({j \in Counted : j <= k})
CountersAgree ==
  asked # None =>
    LET seen == {k \in Counted : FeasiblePoint(answers[k].x)}
        Value(k) == answers[k].y[1]
        best == {k \in seen : \A j \in seen : Value(k) < Value(j) \/ (Value(k) = Value(j) /\ k <= j)}
    IN /\ Java_coco_CocoJNI_cocoProblemGetEvaluations(problem) = Cardinality(Counted)
       /\ Java_coco_CocoJNI_cocoProblemGetEvaluationsConstraints(problem) = Cardinality(CountedConstraints)
       /\ \A k \in best : /\ problem.best_observed = Value(k)
                          /\ problem.best_observed_evaluation = Rank(k)
       /\ Java_coco_CocoJNI_cocoProblemIsFinalTargetHit(problem) = 1 <=>
            problem.noo = 1 /\ \E k \in seen : answers[k].y = handed.besty

(* The bi-objective suites pair functions as their description says        *)
(* (coco.c:12187-12203): 55 unordered pairs of ten selected functions,     *)
(* then pairs within one of the five groups of bbob, without the           *)
(* Weierstrass function, and no pair twice.                                *)
Group(f) == CASE f <= 5 -> 1 [] f <= 9 -> 2 [] f <= 14 -> 3 [] f <= 19 -> 4 [] OTHER -> 5
PairsAreDistinct ==
  asked # None /\ handed.noo = 2 =>
    LET f == asked.function
        pair == BiobjPair(f)
        selected == ToSet(sel_bbob_functions)
    IN /\ \A g \in 1 .. f - 1 : BiobjPair(g) # pair
       /\ IF f <= 55 THEN pair[1] <= pair[2] /\ pair[1] \in selected /\ pair[2] \in selected
          ELSE pair[1] < pair[2] /\ Group(pair[1]) = Group(pair[2]) /\ 16 \notin ToSet(pair)

=============================================================================
