------------------------- MODULE MCQLearningMemory --------------------------
(***************************************************************************)
(* Three regions, room for two, three objective values of which each is a  *)
(* near tie of the next; rewards in tenths.                                *)
(***************************************************************************)
EXTENDS QLearningMemory

MCSigmoid ==
    [d \in Differences |->
        CASE d >= 2 -> 8 * (One \div 10)
          [] d = 1 -> 5 * (One \div 10)
          [] d = 0 -> 0
          [] d = -1 -> -5 * (One \div 10)
          [] d <= -2 -> -8 * (One \div 10)]

Alike == Permutations(RegionIds)
=============================================================================
