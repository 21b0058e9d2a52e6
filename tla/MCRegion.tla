------------------------------ MODULE MCRegion ------------------------------
(***************************************************************************)
(* Instances of Region.  MCFunctionValue spreads six solutions so that     *)
(* splits of both sides, of one side and of no side occur, with a tie; 1,  *)
(* 3 and 5 are near ties of their neighbours and not of each other, so the *)
(* best solution can be one chain of two steps away from the minimum.      *)
(***************************************************************************)
EXTENDS Region

MCFunctionValue == [s \in Solutions |-> <<-9, 1, 3, 3, 5, 14>>[s]]
=============================================================================
