--------------------------- MODULE BenchmarkSuite ---------------------------
(***************************************************************************)
(* What a benchmark run promises, whatever the actors do: the problems of  *)
(* the suite are taken one after the other, each is evaluated exactly as   *)
(* often as the budget allows before the next one is taken, and never      *)
(* again afterwards.                                                       *)
(***************************************************************************)
EXTENDS Integers

CONSTANTS
    NumberOfProblems,
    EvaluationsBudget

Problems == 1 .. NumberOfProblems

VARIABLES
    problem,        \* 0 before the first, NumberOfProblems + 1 after the last
    spent           \* how often each problem has been evaluated

Init ==
    /\ problem = 0
    /\ spent = [p \in Problems |-> 0]

NextProblem ==
    /\ problem <= NumberOfProblems
    /\ problem \in Problems => spent[problem] = EvaluationsBudget
    /\ problem' = problem + 1
    /\ UNCHANGED spent

Evaluate ==
    /\ problem \in Problems
    /\ spent[problem] < EvaluationsBudget
    /\ spent' = [spent EXCEPT ![problem] = @ + 1]
    /\ UNCHANGED problem

Next == NextProblem \/ Evaluate

Spec == Init /\ [][Next]_<<problem, spent>>
=============================================================================
