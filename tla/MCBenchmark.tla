---------------------------- MODULE MCBenchmark -----------------------------
(***************************************************************************)
(* Two problems of two or three evaluations, one constructor and one agent *)
(* that works on the solutions of regions.                                 *)
(***************************************************************************)
EXTENDS Benchmark

MCConstructors == {1}
=============================================================================
