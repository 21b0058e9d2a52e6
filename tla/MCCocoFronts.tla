---------------------------- MODULE MCCocoFronts ----------------------------
EXTENDS CocoFronts

MCFirstTriggers == <<1, 50>>
MCIdeal == <<0, 0>>
MCNadir == <<6, 12>>
\* The best volume known of problem 1 is below what can be reached.
MCBest == (1 :> 9)

Mode(mode) == <<Word("log_nondominated", mode, {})>>
NoIndicators == <<Ranges("compute_indicators", <<Single(0)>>)>>
MCStarts == { <<1, << >>>>, <<2, Mode("final") \o NoIndicators>>, <<2, Mode("none")>>,
              <<2, Mode("none") \o NoIndicators>> }

\* Inside, on the border of and outside the region of interest, on both
\* sides of the extremes, and two that are the same once rounded: any three.
Mixed == { <<4, 2>>, <<3, 6>>, <<3, 7>>, <<1, 9>>, <<-1, 4>>, <<4, -1>>, <<8, 2>>, <<7, 14>>, <<6, 12>> }

\* Five that are nondominated, in any order, and then one that dominates two.
Chain == { <<5, 2>>, <<4, 4>>, <<3, 6>>, <<2, 8>>, <<1, 10>> }
Dominators == { <<3, 4>> }
MCYs == Mixed \union Chain \union Dominators

MCMayFollow(points, y) ==
  LET before == ToSet(points)
  IN \/ Len(points) < 3 /\ before \union {y} \subseteq Mixed
     \/ Len(points) < 5 /\ before \union {y} \subseteq Chain /\ y \notin before
     \/ Len(points) = 5 /\ y \in Dominators \ before

=============================================================================
