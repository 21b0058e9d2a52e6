---------------------------- MODULE MCSimulation ----------------------------
(***************************************************************************)
(* Instances of Simulation.  One solution is much better than the others,  *)
(* one much worse, the rest are alike: four of them with both extremes     *)
(* split on both sides, three with the better one on the lower side.       *)
(* Solutions of one value are interchangeable in every safety property.    *)
(***************************************************************************)
EXTENDS Simulation

CONSTANTS better, worse

MCFunctionValue ==
    [s \in Solutions |-> IF s = better THEN 1 ELSE IF s = worse THEN 19 ELSE 10]

Alike == Permutations(Solutions \ {better, worse})
=============================================================================
