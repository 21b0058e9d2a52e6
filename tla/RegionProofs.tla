---------------------------- MODULE RegionProofs ----------------------------
(***************************************************************************)
(* What the pool of a region keeps, and what a split does to it, for any   *)
(* set of solutions, any values and any threshold.                         *)
(***************************************************************************)
EXTENDS Region, RegionStatisticsProofs

-----------------------------------------------------------------------------
(* The best solution of a list *)

BestStep == [z \in Solutions \X Solutions |-> GetBestSolution(z[1], z[2])]

LEMMA BestFolds ==
    ASSUME NEW first \in Solutions, NEW list \in Seq(Solutions)
    PROVE  /\ Foldable(Solutions, Solutions, first, BestStep)
           /\ FoldLeft(GetBestSolution, first, list) = Folded(Solutions, first, BestStep, list)
<1> DEFINE P == 1 .. Len(list)
           Eq(f) == f = [s \in SUBSET P |->
                      IF s = {} THEN first
                      ELSE LET x == Max(s) IN GetBestSolution(f[s \ {x}], list[x])]
           iter == CHOOSE f : Eq(f)
<1>1. Len(list) \in Nat /\ DOMAIN list = P /\ \A i \in P : list[i] \in Solutions
  BY LenProperties, ElementOfSeq
<1>2. Foldable(Solutions, Solutions, first, BestStep)
  BY DEF Foldable, BestStep, GetBestSolution
<1>3. \A s, t \in Solutions : BestStep[<<s, t>>] = GetBestSolution(s, t)
  BY DEF BestStep
<1>4. \A s \in SUBSET P : s # {} => Max(s) \in P /\ s \ {Max(s)} \in SUBSET P
  BY <1>1, GreatestPicked
<1>5. PICK g \in [SUBSET P -> Solutions] : Recursion(g, Solutions, first, BestStep, list)
  BY <1>2, ListFold
<1>6. Eq(g)
  <2>1. ASSUME NEW s \in SUBSET P, s # {}
        PROVE  g[s] = GetBestSolution(g[s \ {Max(s)}], list[Max(s)])
    <3>1. g[s \ {Max(s)}] \in Solutions /\ list[Max(s)] \in Solutions
      BY <1>1, <1>4, <2>1
    <3>2. g[s] = BestStep[<<g[s \ {Max(s)}], list[Max(s)]>>]
      BY <1>5, <2>1, <3>1 DEF Recursion
    <3> QED  BY <1>3, <3>1, <3>2
  <2>2. g[{}] = first
    BY <1>5 DEF Recursion
  <2> QED  BY <2>1, <2>2
<1>7. Eq(iter)
  BY <1>6
<1>8. FoldLeft(GetBestSolution, first, list) = iter[P]
  BY <1>1 DEF FoldLeft, MapThenFoldSet
<1> HIDE DEF iter
<1>9. iter[{}] = first /\ \A s \in SUBSET P : s # {} =>
        iter[s] = GetBestSolution(iter[s \ {Max(s)}], list[Max(s)])
  BY <1>7
<1>10. Recursion(iter, Solutions, first, BestStep, list)
  <2> SUFFICES ASSUME NEW s \in SUBSET P, s # {}, iter[s \ {Max(s)}] \in Solutions
               PROVE  iter[s] = BestStep[<<iter[s \ {Max(s)}], list[Max(s)]>>]
    BY <1>9 DEF Recursion
  <2> QED  BY <1>1, <1>3, <1>4, <1>9
<1> QED  BY <1>2, <1>8, <1>10, FoldedIs

\* The best of a list, built by appending.
LEMMA BestOfLemma ==
    ASSUME NEW list \in Seq(Solutions), NEW x \in Solutions
    PROVE  /\ BestOf(<<x>>) = x
           /\ list # <<>> => /\ BestOf(list) \in Solutions
                             /\ BestOf(Append(list, x)) = GetBestSolution(BestOf(list), x)
<1>1. ASSUME NEW first \in Solutions, NEW l \in Seq(Solutions)
      PROVE  /\ FoldLeft(GetBestSolution, first, <<>>) = first
             /\ FoldLeft(GetBestSolution, first, l) \in Solutions
             /\ FoldLeft(GetBestSolution, first, Append(l, x))
                  = GetBestSolution(FoldLeft(GetBestSolution, first, l), x)
  <2> DEFINE F(k) == Folded(Solutions, first, BestStep, k)
  <2>1. <<>> \in Seq(Solutions) /\ Append(l, x) \in Seq(Solutions)
    BY AppendProperties
  <2>2. /\ Foldable(Solutions, Solutions, first, BestStep)
        /\ FoldLeft(GetBestSolution, first, <<>>) = F(<<>>)
        /\ FoldLeft(GetBestSolution, first, l) = F(l)
        /\ FoldLeft(GetBestSolution, first, Append(l, x)) = F(Append(l, x))
    BY <2>1, BestFolds
  <2>3. F(<<>>) = first /\ F(l) \in Solutions /\ F(Append(l, x)) = BestStep[<<F(l), x>>]
    BY <2>2, FoldedLemma
  <2> HIDE DEF F
  <2>4. BestStep[<<F(l), x>>] = GetBestSolution(F(l), x)
    BY <2>3 DEF BestStep
  <2> QED  BY <2>2, <2>3, <2>4
<1>2. BestOf(<<x>>) = x
  <2>1. Head(<<x>>) = x /\ Tail(<<x>>) = <<>> /\ <<>> \in Seq(Solutions)
    OBVIOUS
  <2> QED  BY <1>1, <2>1 DEF BestOf
<1>3. ASSUME list # <<>>
      PROVE  /\ BestOf(list) \in Solutions
             /\ BestOf(Append(list, x)) = GetBestSolution(BestOf(list), x)
  <2>1. /\ Head(list) \in Solutions /\ Tail(list) \in Seq(Solutions)
        /\ Head(Append(list, x)) = Head(list)
        /\ Tail(Append(list, x)) = Append(Tail(list), x)
    BY <1>3, HeadTailProperties, AppendProperties
  <2> QED  BY <1>1, <2>1 DEF BestOf
<1> QED  BY <1>2, <1>3

\* One more solution at the end of a linked list.
LEMMA LinkedAppend ==
    ASSUME NEW list \in Seq(Solutions), NEW x \in Solutions,
           NEW p \in DOMAIN list, LinkedTo(list, p)
    PROVE  \E q \in DOMAIN Append(list, x) :
              /\ GetBestSolution(list[p], x) = Append(list, x)[q]
              /\ LinkedTo(Append(list, x), q)
<1> DEFINE n == Len(list)
           long == Append(list, x)
           old(i) == FunctionValue[list[i]]
           new(i) == FunctionValue[long[i]]
           v == FunctionValue[x]
<1>1. /\ n \in Nat /\ DOMAIN list = 1 .. n /\ DOMAIN long = 1 .. n + 1
      /\ \A i \in 1 .. n : list[i] \in Solutions /\ long[i] = list[i]
      /\ long[n + 1] = x
  BY AppendProperties, LenProperties, ElementOfSeq
<1>2. /\ v \in Int /\ \A i \in 1 .. n : old(i) \in Int /\ new(i) = old(i)
      /\ new(n + 1) = v
  BY <1>1, FunctionValueAssumption
<1>3. /\ \A i \in 1 .. n : i > p => old(i) - old(p) >= Tolerance
      /\ \A i \in 1 .. n : old(i) < old(p) =>
            \E j \in 1 .. n : i < j /\ old(i) < old(j) /\ old(j) - old(i) < Tolerance
  BY <1>1 DEF LinkedTo
<1>4. \A i \in 1 .. n + 1 : i \in 1 .. n \/ i = n + 1
  BY <1>1
<1>5. p \in 1 .. n /\ n + 1 \in 1 .. n + 1 /\ \A i \in 1 .. n : i \in 1 .. n + 1 /\ i < n + 1
  BY <1>1
<1>6. CASE v - old(p) >= Tolerance
  <2>1. GetBestSolution(list[p], x) = long[p]
    BY <1>1, <1>5, <1>6 DEF GetBestSolution
  <2>2. LinkedTo(long, p)
    <3>1. ASSUME NEW i \in 1 .. n + 1, i > p PROVE new(i) - new(p) >= Tolerance
      <4> HIDE DEF old, new, v
      <4> QED  BY <1>2, <1>3, <1>4, <1>5, <1>6, <3>1
    <3>2. ASSUME NEW i \in 1 .. n + 1, new(i) < new(p)
          PROVE  \E j \in 1 .. n + 1 : i < j /\ new(i) < new(j) /\ new(j) - new(i) < Tolerance
      <4> HIDE DEF old, new, v
      <4>1. i \in 1 .. n /\ old(i) < old(p)
        BY <1>2, <1>4, <1>5, <1>6, <3>2, ToleranceAssumption
      <4>2. PICK j \in 1 .. n : i < j /\ old(i) < old(j) /\ old(j) - old(i) < Tolerance
        BY <1>3, <4>1
      <4> QED  BY <1>2, <1>5, <4>1, <4>2
    <3> QED  BY <1>1, <3>1, <3>2 DEF LinkedTo
  <2> QED  BY <1>1, <1>5, <2>1, <2>2
<1>7. CASE ~ (v - old(p) >= Tolerance)
  <2>1. GetBestSolution(list[p], x) = long[n + 1]
    BY <1>1, <1>7 DEF GetBestSolution
  <2>2. LinkedTo(long, n + 1)
    <3>1. \A i \in 1 .. n + 1 : ~ (i > n + 1)
      BY <1>1
    <3>2. ASSUME NEW i \in 1 .. n + 1, new(i) < new(n + 1)
          PROVE  \E j \in 1 .. n + 1 : i < j /\ new(i) < new(j) /\ new(j) - new(i) < Tolerance
      <4> HIDE DEF old, new, v
      <4>1. i \in 1 .. n /\ old(i) < v
        BY <1>2, <1>4, <3>2
      <4>2. CASE old(i) < old(p)
        <5>1. PICK j \in 1 .. n : i < j /\ old(i) < old(j) /\ old(j) - old(i) < Tolerance
          BY <1>3, <4>1, <4>2
        <5> QED  BY <1>2, <1>5, <4>1, <5>1
      <4>3. CASE ~ (old(i) < old(p))
        <5>1. v - old(i) < Tolerance
          BY <1>2, <1>5, <1>7, <4>1, <4>3, ToleranceAssumption
        <5> QED  BY <1>2, <1>5, <4>1, <5>1
      <4> QED  BY <4>2, <4>3
    <3> QED  BY <1>1, <3>1, <3>2 DEF LinkedTo
  <2> QED  BY <1>1, <1>5, <2>1, <2>2
<1> QED  BY <1>6, <1>7

\* The best of a list stands at a place the list is linked to.
BestPlaced(list) == \E p \in DOMAIN list : BestOf(list) = list[p] /\ LinkedTo(list, p)

LEMMA BestIsPlaced == \A list \in Seq(Solutions) : list # <<>> => BestPlaced(list)
<1> DEFINE T == {l \in Seq(Solutions) : l # <<>> => BestPlaced(l)}
<1>1. <<>> \in T
  OBVIOUS
<1>2. ASSUME NEW l \in Seq(Solutions), NEW x \in Solutions, l \in T
      PROVE  Append(l, x) \in T
  <2>1. Append(l, x) \in Seq(Solutions)
    BY AppendProperties
  <2>2. CASE l = <<>>
    <3>1. Append(l, x) = <<x>>
      BY <2>2
    <3>2. DOMAIN <<x>> = {1} /\ <<x>>[1] = x
      OBVIOUS
    <3>3. LinkedTo(<<x>>, 1)
      <4>1. FunctionValue[x] \in Int
        BY FunctionValueAssumption
      <4> QED  BY <3>2, <4>1 DEF LinkedTo
    <3>4. BestOf(<<x>>) = x
      BY BestOfLemma
    <3>5. BestPlaced(<<x>>)
      BY <3>2, <3>3, <3>4 DEF BestPlaced
    <3> QED  BY <2>1, <3>1, <3>5
  <2>3. CASE l # <<>>
    <3>1. PICK p \in DOMAIN l : BestOf(l) = l[p] /\ LinkedTo(l, p)
      BY <1>2, <2>3 DEF BestPlaced
    <3>2. BestOf(Append(l, x)) = GetBestSolution(l[p], x)
      BY <2>3, <3>1, BestOfLemma
    <3>3. BestPlaced(Append(l, x))
      BY <3>1, <3>2, LinkedAppend DEF BestPlaced
    <3> QED  BY <2>1, <3>3
  <2> QED  BY <2>2, <2>3
<1>3. \A l \in Seq(Solutions) : l \in T
  <2> HIDE DEF T
  <2> QED  BY <1>1, <1>2, ListInduction
<1> QED  BY <1>3

LEMMA BestIsASolution ==
    ASSUME NEW list \in Seq(Solutions), list # <<>>
    PROVE  BestOf(list) \in Solutions
<1>1. PICK p \in DOMAIN list : BestOf(list) = list[p]
  BY BestIsPlaced DEF BestPlaced
<1> QED  BY <1>1, LenProperties, ElementOfSeq

-----------------------------------------------------------------------------
(* Invariants of the pool *)

LEMMA CollectionsAreLists ==
    ASSUME NEW list \in Collections
    PROVE  /\ list \in Seq(Solutions)
           /\ IsInjective(list)
           /\ ToSet(solutionList) \cap ToSet(list) = {}
<1>1. PICK m \in 0 .. MaxCollection : list \in [1 .. m -> Solutions \ ToSet(solutionList)]
  BY DEF Collections, BoundedSeq, SeqOf
<1>2. m \in Nat /\ list \in [1 .. m -> Solutions]
  BY <1>1
<1>3. ToSet(solutionList) \cap ToSet(list) = {}
  BY <1>1 DEF ToSet
<1>4. IsInjective(list)
  BY DEF Collections
<1> QED  BY <1>2, <1>3, <1>4

LEMMA AddedTo ==
    ASSUME NEW kept \in Seq(Solutions), NEW list \in Seq(Solutions),
           NEW st, st = SummaryOf(kept), NEW sm, sm = SummaryOf(kept),
           bestSolution \in Solutions \cup {NoSolution},
           AddSolutionsTo(kept, st, sm, list)
    PROVE  /\ solutionList' \in Seq(Solutions)
           /\ stats' = SummaryOf(solutionList')
           /\ summary' = SummaryOf(solutionList')
           /\ bestSolution' \in Solutions \cup {NoSolution}
           /\ solutionList' # <<>> => bestSolution' = BestOf(solutionList')
<1>1. kept \o list \in Seq(Solutions) /\ solutionList' = kept \o list
  BY ConcatProperties DEF AddSolutionsTo
<1>2. EmptySummary \in Summaries
  BY DEF EmptySummary, Summaries
<1>3. AddAll(SummaryOf(kept), list) = SummaryOf(kept \o list)
  BY <1>2, AddAllConcat DEF SummaryOf
<1>4. stats' = SummaryOf(solutionList') /\ summary' = SummaryOf(solutionList')
  BY <1>1, <1>3 DEF AddSolutionsTo
<1>5. solutionList' # <<>> => bestSolution' = BestOf(solutionList')
  BY <1>1 DEF AddSolutionsTo
<1>6. solutionList' = <<>> => bestSolution' = bestSolution
  BY <1>1 DEF AddSolutionsTo
<1> QED  BY <1>1, <1>4, <1>5, <1>6, BestIsASolution

\* Lists without repetitions: the empty one, two that share nothing one after
\* the other, and what is chosen of one.
LEMMA EmptyIsInjective == IsInjective(<<>>)
BY DEF IsInjective

LEMMA ConcatIsInjective ==
    ASSUME NEW l \in Seq(Solutions), NEW m \in Seq(Solutions),
           IsInjective(l), IsInjective(m), ToSet(l) \cap ToSet(m) = {}
    PROVE  IsInjective(l \o m)
<1>1. /\ Len(l) \in Nat /\ Len(m) \in Nat
      /\ DOMAIN l = 1 .. Len(l) /\ DOMAIN m = 1 .. Len(m)
      /\ DOMAIN (l \o m) = 1 .. Len(l) + Len(m)
      /\ \A i \in 1 .. Len(l) + Len(m) :
            (l \o m)[i] = IF i <= Len(l) THEN l[i] ELSE m[i - Len(l)]
  BY LenProperties, ConcatProperties
<1>2. \A i \in 1 .. Len(l) + Len(m) : \/ i \in 1 .. Len(l) /\ i <= Len(l)
                                      \/ i - Len(l) \in 1 .. Len(m) /\ ~ (i <= Len(l))
  BY <1>1
<1>3. /\ \A i \in 1 .. Len(l) : l[i] \in ToSet(l)
      /\ \A i \in 1 .. Len(m) : m[i] \in ToSet(m)
  BY <1>1 DEF ToSet
<1>4. ASSUME NEW i \in 1 .. Len(l) + Len(m), NEW j \in 1 .. Len(l) + Len(m),
             (l \o m)[i] = (l \o m)[j]
      PROVE  i = j
  <2>1. CASE i \in 1 .. Len(l) /\ j \in 1 .. Len(l)
    BY <1>1, <1>2, <1>4, <2>1 DEF IsInjective
  <2>2. CASE i \notin 1 .. Len(l) /\ j \notin 1 .. Len(l)
    <3>1. /\ i - Len(l) \in 1 .. Len(m) /\ j - Len(l) \in 1 .. Len(m)
          /\ m[i - Len(l)] = m[j - Len(l)]
      BY <1>1, <1>2, <1>4, <2>2
    <3>2. i - Len(l) = j - Len(l)
      BY <1>1, <3>1 DEF IsInjective
    <3> QED  BY <1>1, <3>2
  <2>3. CASE ~ (i \in 1 .. Len(l) <=> j \in 1 .. Len(l))
    BY <1>1, <1>2, <1>3, <1>4, <2>3
  <2> QED  BY <2>1, <2>2, <2>3
<1> QED  BY <1>1, <1>4 DEF IsInjective

LEMMA AppendIsInjective ==
    ASSUME NEW l \in Seq(Solutions), NEW x \in Solutions
    PROVE  IsInjective(Append(l, x)) <=> IsInjective(l) /\ x \notin ToSet(l)
<1>1. /\ Len(l) \in Nat /\ DOMAIN l = 1 .. Len(l)
      /\ DOMAIN Append(l, x) = 1 .. Len(l) + 1
      /\ \A i \in 1 .. Len(l) : Append(l, x)[i] = l[i]
      /\ Append(l, x)[Len(l) + 1] = x
  BY LenProperties, AppendProperties
<1>2. /\ \A i \in 1 .. Len(l) : i \in 1 .. Len(l) + 1 /\ i # Len(l) + 1
      /\ \A i \in 1 .. Len(l) + 1 : i \in 1 .. Len(l) \/ i = Len(l) + 1
      /\ Len(l) + 1 \in 1 .. Len(l) + 1
  BY <1>1
<1>3. ASSUME IsInjective(Append(l, x)) PROVE IsInjective(l) /\ x \notin ToSet(l)
  <2>1. \A i, j \in 1 .. Len(l) : l[i] = l[j] => i = j
    BY <1>1, <1>2, <1>3 DEF IsInjective
  <2>2. \A i \in 1 .. Len(l) : l[i] # x
    BY <1>1, <1>2, <1>3 DEF IsInjective
  <2> QED  BY <1>1, <2>1, <2>2 DEF IsInjective, ToSet
<1>4. ASSUME IsInjective(l), x \notin ToSet(l) PROVE IsInjective(Append(l, x))
  <2>1. /\ \A i, j \in 1 .. Len(l) : l[i] = l[j] => i = j
        /\ \A i \in 1 .. Len(l) : l[i] # x
    BY <1>1, <1>4 DEF IsInjective, ToSet
  <2>2. \A i, j \in 1 .. Len(l) + 1 : Append(l, x)[i] = Append(l, x)[j] => i = j
    BY <1>1, <1>2, <2>1
  <2> QED  BY <1>1, <2>2 DEF IsInjective
<1> QED  BY <1>3, <1>4

LEMMA ThoseIsInjective ==
    ASSUME NEW chosen
    PROVE  \A list \in Seq(Solutions) : IsInjective(list) => IsInjective(Those(list, chosen))
<1> DEFINE T == {l \in Seq(Solutions) : IsInjective(l) => IsInjective(Those(l, chosen))}
<1>1. <<>> \in T
  <2>1. <<>> \in Seq(Solutions)
    OBVIOUS
  <2>2. Those(<<>>, chosen) = <<>>
    BY <2>1, ThoseLemma
  <2> QED  BY <2>1, <2>2, EmptyIsInjective
<1>2. ASSUME NEW l \in Seq(Solutions), NEW x \in Solutions, l \in T
      PROVE  Append(l, x) \in T
  <2>1. Append(l, x) \in Seq(Solutions) /\ Those(l, chosen) \in Seq(Solutions)
    BY AppendProperties, ThoseLemma
  <2>2. ASSUME IsInjective(Append(l, x)) PROVE IsInjective(Those(Append(l, x), chosen))
    <3>1. IsInjective(Those(l, chosen)) /\ x \notin ToSet(l)
      BY <1>2, <2>2, AppendIsInjective
    <3>2. x \notin ToSet(Those(l, chosen))
      BY <3>1, ThoseElements
    <3>3. IsInjective(Append(Those(l, chosen), x))
      BY <2>1, <3>1, <3>2, AppendIsInjective
    <3>4. Those(Append(l, x), chosen)
             = IF x \in chosen THEN Append(Those(l, chosen), x) ELSE Those(l, chosen)
      BY ThoseLemma
    <3> QED  BY <3>1, <3>3, <3>4
  <2> QED  BY <2>1, <2>2
<1>3. \A l \in Seq(Solutions) : l \in T
  <2> HIDE DEF T
  <2> QED  BY <1>1, <1>2, ListInduction
<1> QED  BY <1>3

\* The pool is a list, the statistics are its own, and so is the best.
PoolInv ==
    /\ solutionList \in Seq(Solutions)
    /\ IsInjective(solutionList)
    /\ StatisticsAgree
    /\ bestSolution \in Solutions \cup {NoSolution}
    /\ solutionList # <<>> => bestSolution = BestOf(solutionList)
    /\ splitResult \in [lower : Seq(Solutions), higher : Seq(Solutions), split : BOOLEAN]

LEMMA PoolInvImpliesTypeOK == PoolInv => TypeOK
BY SummaryOfLemma DEF PoolInv, StatisticsAgree, TypeOK

LEMMA NotSplitType ==
    /\ NotSplit \in [lower : Seq(Solutions), higher : Seq(Solutions), split : BOOLEAN]
    /\ NotSplit.split = FALSE
BY DEF NotSplit

LEMMA EmptySummaryLemma == <<>> \in Seq(Solutions) /\ SummaryOf(<<>>) = EmptySummary
<1>1. <<>> \in Seq(Solutions)
  OBVIOUS
<1> QED  BY <1>1, SummaryOfLemma

LEMMA PoolInvInit == Init => PoolInv
<1>1. <<>> \in Seq(Solutions) /\ SummaryOf(<<>>) = EmptySummary
  BY EmptySummaryLemma
<1> QED  BY <1>1, EmptyIsInjective, NotSplitType DEF Init, PoolInv, StatisticsAgree

LEMMA PoolInvAdd ==
    ASSUME PoolInv, NEW list \in Collections, AddSolutionsCollection(list)
    PROVE  PoolInv'
<1>1. list \in Seq(Solutions)
  BY CollectionsAreLists
<1>2. /\ solutionList \in Seq(Solutions) /\ bestSolution \in Solutions \cup {NoSolution}
      /\ stats = SummaryOf(solutionList) /\ summary = SummaryOf(solutionList)
  BY DEF PoolInv, StatisticsAgree
<1>3. AddSolutionsTo(solutionList, stats, summary, list) /\ splitResult' = NotSplit
  BY DEF AddSolutionsCollection
<1>4. /\ solutionList' \in Seq(Solutions)
      /\ stats' = SummaryOf(solutionList') /\ summary' = SummaryOf(solutionList')
      /\ bestSolution' \in Solutions \cup {NoSolution}
      /\ solutionList' # <<>> => bestSolution' = BestOf(solutionList')
  BY <1>1, <1>2, <1>3, AddedTo
<1>5. IsInjective(solutionList')
  <2>1. solutionList' = solutionList \o list
    BY <1>3 DEF AddSolutionsTo
  <2> QED  BY <1>1, <1>2, <2>1, CollectionsAreLists, ConcatIsInjective DEF PoolInv
<1> QED  BY <1>3, <1>4, <1>5, NotSplitType DEF PoolInv, StatisticsAgree

\* What a split leaves: the middle of the old list, with its own statistics.
LEMMA SplitStep ==
    ASSUME PoolInv, Split, Len(solutionList) >= MinSolutionsToSplit
    PROVE  LET middle == MiddleSolutions(solutionList, SummaryOf(solutionList))
           IN  /\ middle \in Seq(Solutions)
               /\ solutionList' = middle
               /\ stats' = SummaryOf(middle) /\ summary' = SummaryOf(middle)
               /\ bestSolution' \in Solutions \cup {NoSolution}
               /\ middle # <<>> => bestSolution' = BestOf(middle)
               /\ splitResult' = [lower |-> LowerSolutions(solutionList, SummaryOf(solutionList)),
                                  higher |-> HigherSolutions(solutionList, SummaryOf(solutionList)),
                                  split |-> TRUE]
<1> DEFINE middle == MiddleSolutions(solutionList, SummaryOf(solutionList))
<1>1. /\ solutionList \in Seq(Solutions) /\ bestSolution \in Solutions \cup {NoSolution}
      /\ stats = SummaryOf(solutionList)
  BY DEF PoolInv, StatisticsAgree
<1>2. middle \in Seq(Solutions)
  BY <1>1, ThoseLemma DEF MiddleSolutions
<1>3. <<>> \in Seq(Solutions) /\ SummaryOf(<<>>) = EmptySummary /\ <<>> \o middle = middle
  BY <1>2, SummaryOfLemma, ConcatEmptySeq
<1>4. AddSolutionsTo(<<>>, ClearedStats, ClearedSummary, middle)
  BY <1>1 DEF Split, ClearedList
<1>5. solutionList' = middle
  BY <1>3, <1>4 DEF AddSolutionsTo
<1> HIDE DEF middle
<1>6. ClearedStats = SummaryOf(<<>>) /\ ClearedSummary = SummaryOf(<<>>)
  BY <1>3 DEF ClearedStats, ClearedSummary
<1>7. /\ stats' = SummaryOf(solutionList') /\ summary' = SummaryOf(solutionList')
      /\ bestSolution' \in Solutions \cup {NoSolution}
      /\ solutionList' # <<>> => bestSolution' = BestOf(solutionList')
  BY <1>1, <1>2, <1>3, <1>4, <1>6, AddedTo
<1>8. splitResult' = [lower |-> LowerSolutions(solutionList, SummaryOf(solutionList)),
                      higher |-> HigherSolutions(solutionList, SummaryOf(solutionList)),
                      split |-> TRUE]
  BY <1>1 DEF Split
<1> QED  BY <1>2, <1>5, <1>7, <1>8 DEF middle

LEMMA PoolInvNext == PoolInv /\ [Next]_vars => PoolInv'
<1> SUFFICES ASSUME PoolInv, [Next]_vars PROVE PoolInv'
  OBVIOUS
<1>1. ASSUME NEW list \in Collections, AddSolutionsCollection(list) PROVE PoolInv'
  BY <1>1, PoolInvAdd
<1>2. CASE Split
  <2>1. CASE Len(solutionList) >= MinSolutionsToSplit
    <3> DEFINE old == SummaryOf(solutionList)
    <3>1. /\ LowerSolutions(solutionList, old) \in Seq(Solutions)
          /\ HigherSolutions(solutionList, old) \in Seq(Solutions)
      BY ThoseLemma DEF PoolInv, LowerSolutions, HigherSolutions
    <3>2. /\ solutionList' \in Seq(Solutions)
          /\ stats' = SummaryOf(solutionList') /\ summary' = SummaryOf(solutionList')
          /\ bestSolution' \in Solutions \cup {NoSolution}
          /\ solutionList' # <<>> => bestSolution' = BestOf(solutionList')
      BY <1>2, <2>1, SplitStep
    <3>3. splitResult' = [lower |-> LowerSolutions(solutionList, old),
                          higher |-> HigherSolutions(solutionList, old), split |-> TRUE]
      BY <1>2, <2>1, SplitStep
    <3>4. IsInjective(solutionList')
      <4>1. solutionList' = MiddleSolutions(solutionList, old)
        BY <1>2, <2>1, SplitStep
      <4> HIDE DEF old
      <4> QED  BY <4>1, ThoseIsInjective DEF PoolInv, MiddleSolutions
    <3> HIDE DEF old
    <3> QED  BY <3>1, <3>2, <3>3, <3>4 DEF PoolInv, StatisticsAgree
  <2>2. CASE ~ (Len(solutionList) >= MinSolutionsToSplit)
    <3>1. UNCHANGED <<solutionList, stats, summary, bestSolution>> /\ splitResult' = NotSplit
      BY <1>2, <2>2 DEF Split
    <3> QED  BY <3>1, NotSplitType DEF PoolInv, StatisticsAgree
  <2> QED  BY <2>1, <2>2
<1>3. CASE Clear
  <2>1. <<>> \in Seq(Solutions) /\ SummaryOf(<<>>) = EmptySummary
    BY EmptySummaryLemma
  <2> QED  BY <1>3, <2>1, EmptyIsInjective, NotSplitType DEF Clear, ClearedList, ClearedStats, ClearedSummary, PoolInv, StatisticsAgree
<1>4. CASE UNCHANGED vars
  BY <1>4 DEF vars, PoolInv, StatisticsAgree
<1> QED  BY <1>1, <1>2, <1>3, <1>4 DEF Next

LEMMA PoolInvariant == Spec => []PoolInv
<1> QED  BY PoolInvInit, PoolInvNext, PTL DEF Spec

(* Every variable of the pool keeps its type: the pool never holds a       *)
(* solution twice, the statistics stay records of a count and two sums,    *)
(* the lists stay lists of solutions (addSolution, split, clear).          *)
THEOREM PoolTypeIsKept == Spec => []TypeOK
BY PoolInvariant, PoolInvImpliesTypeOK, PTL

(* Region.addSolution, split and clear keep stats and summary equal to the *)
(* statistics of the list, however the pool was built.                     *)
THEOREM StatisticsAlwaysAgree == Spec => []StatisticsAgree
<1>1. PoolInv => StatisticsAgree
  BY DEF PoolInv
<1> QED  BY <1>1, PoolInvariant, PTL

(* Whatever the values and the tolerance, and however the pool was built,  *)
(* only near ties stand between a solution of the pool and the best it     *)
(* remembers (addSolutionsCollection, getBestSolution).                    *)
THEOREM BestIsAlwaysLinked == Spec => []BestIsLinked
<1>1. PoolInv => BestIsLinked
  <2> SUFFICES ASSUME PoolInv, solutionList # <<>>
               PROVE  \E p \in DOMAIN solutionList :
                         bestSolution = solutionList[p] /\ LinkedTo(solutionList, p)
    BY DEF BestIsLinked
  <2>1. solutionList \in Seq(Solutions) /\ bestSolution = BestOf(solutionList)
    BY DEF PoolInv
  <2>2. BestPlaced(solutionList)
    BY <2>1, BestIsPlaced
  <2> QED  BY <2>1, <2>2 DEF BestPlaced
<1> QED  BY <1>1, PoolInvariant, PTL

-----------------------------------------------------------------------------
(* What a split does *)

\* A step that reports a split is one, of a pool that is large enough.
LEMMA ReportedSplit ==
    ASSUME PoolInv, Next, splitResult'.split
    PROVE  Split /\ Len(solutionList) >= MinSolutionsToSplit
<1>1. ~ (\E list \in Collections : AddSolutionsCollection(list))
  BY NotSplitType DEF AddSolutionsCollection
<1>2. ~ Clear
  BY NotSplitType DEF Clear
<1>3. Split
  BY <1>1, <1>2 DEF Next
<1>4. Len(solutionList) >= MinSolutionsToSplit
  BY <1>3, NotSplitType DEF Split
<1> QED  BY <1>3, <1>4

(* A split loses and invents no solution: every value is below, above or   *)
(* within one deviation of the mean, and only one of these.                *)
THEOREM SplitAlwaysPartitions == Spec => SplitPartitions
<1>1. ASSUME PoolInv, Next, splitResult'.split
      PROVE  LET parts == splitResult'.lower \o solutionList' \o splitResult'.higher
             IN  ToSet(parts) = ToSet(solutionList) /\ Len(parts) = Len(solutionList)
  <2> DEFINE s == SummaryOf(solutionList)
             A == {x \in Solutions : FarBelow(s, FunctionValue[x])}
             B == {x \in Solutions : ~FarBelow(s, FunctionValue[x])
                                     /\ ~FarAbove(s, FunctionValue[x])}
             C == {x \in Solutions : FarAbove(s, FunctionValue[x])}
             a == Those(solutionList, A)
             b == Those(solutionList, B)
             c == Those(solutionList, C)
  <2>1. /\ splitResult' = [lower |-> LowerSolutions(solutionList, s),
                           higher |-> HigherSolutions(solutionList, s), split |-> TRUE]
        /\ solutionList' = MiddleSolutions(solutionList, s)
    BY <1>1, ReportedSplit, SplitStep
  <2>2. splitResult'.lower = a /\ solutionList' = b /\ splitResult'.higher = c
    BY <2>1 DEF LowerSolutions, HigherSolutions, MiddleSolutions
  <2>3. solutionList \in Seq(Solutions) /\ s \in Summaries
    BY <1>1, SummaryOfLemma DEF PoolInv
  <2>4. \A x \in Solutions : \/ x \in A /\ x \notin B /\ x \notin C
                             \/ x \notin A /\ x \in B /\ x \notin C
                             \/ x \notin A /\ x \notin B /\ x \in C
    <3> HIDE DEF s
    <3> QED  BY <2>3, OneSide
  <2> HIDE DEF A, B, C
  <2>5. /\ a \in Seq(Solutions) /\ ToSet(a) = ToSet(solutionList) \cap A
        /\ b \in Seq(Solutions) /\ ToSet(b) = ToSet(solutionList) \cap B
        /\ c \in Seq(Solutions) /\ ToSet(c) = ToSet(solutionList) \cap C
    BY <2>3, ThoseLemma, ThoseElements
  <2>6. Len(a) + Len(b) + Len(c) = Len(solutionList)
    BY <2>3, <2>4, ThoseLengths
  <2> HIDE DEF a, b, c
  <2>7. a \o b \in Seq(Solutions) /\ Len(a \o b \o c) = Len(a) + Len(b) + Len(c)
    BY <2>5, ConcatProperties, LenProperties
  <2>8. ToSet(a \o b \o c) = ToSet(a) \cup ToSet(b) \cup ToSet(c)
    <3>1. ToSet(a \o b) = ToSet(a) \cup ToSet(b)
      BY <2>5, ToSetConcat
    <3> DEFINE ab == a \o b
    <3>2. ab \in Seq(Solutions)
      BY <2>7
    <3> HIDE DEF ab
    <3>3. ToSet(ab \o c) = ToSet(ab) \cup ToSet(c)
      BY <2>5, <3>2, ToSetConcat
    <3> QED  BY <3>1, <3>3 DEF ab
  <2>9. \A x \in ToSet(solutionList) : x \in Solutions
    BY <2>3, LenProperties, ElementOfSeq DEF ToSet
  <2>10. ToSet(a) \cup ToSet(b) \cup ToSet(c) = ToSet(solutionList)
    BY <2>4, <2>5, <2>9
  <2> QED  BY <2>2, <2>6, <2>7, <2>8, <2>10
<1>2. PoolInv /\ [Next]_vars =>
        [splitResult'.split =>
           LET parts == splitResult'.lower \o solutionList' \o splitResult'.higher
           IN  ToSet(parts) = ToSet(solutionList) /\ Len(parts) = Len(solutionList)]_vars
  BY <1>1
<1> QED  BY <1>2, PoolInvariant, PTL DEF Spec, SplitPartitions

\* n^2 times the sum of the squared distances to the mean a / n.
Spread(a, n, s) == a * a * s.n - 2 * a * n * s.sum + n * n * s.squares

LEMMA SpreadLemma ==
    ASSUME NEW a \in Int, NEW n \in Int, NEW s \in Summaries, NEW v \in Int
    PROVE  /\ Spread(a, n, s) \in Int
           /\ Spread(a, n, EmptySummary) = 0
           /\ (a - n * v) * (a - n * v) \in Nat
           /\ Spread(a, n, AddValue(s, v)) = Spread(a, n, s) + (a - n * v) * (a - n * v)
<1>1. s.n \in Int /\ s.sum \in Int /\ s.squares \in Int
  BY DEF Summaries
<1>2. /\ AddValue(s, v).n = s.n + 1 /\ AddValue(s, v).sum = s.sum + v
      /\ AddValue(s, v).squares = s.squares + v * v
  BY DEF AddValue
<1>3. \A k, m, q \in Int : a * a * (k + 1) - 2 * a * n * (m + v) + n * n * (q + v * v)
         = (a * a * k - 2 * a * n * m + n * n * q) + (a - n * v) * (a - n * v)
  OBVIOUS
<1>4. Spread(a, n, AddValue(s, v)) = Spread(a, n, s) + (a - n * v) * (a - n * v)
  BY <1>1, <1>2, <1>3 DEF Spread
<1>5. Spread(a, n, EmptySummary) = 0
  BY DEF Spread, EmptySummary
<1>6. \A k, m, q \in Int : a * a * k - 2 * a * n * m + n * n * q \in Int
  OBVIOUS
<1>7. \A d \in Int : d * d \in Nat
  OBVIOUS
<1>8. a - n * v \in Int
  OBVIOUS
<1> QED  BY <1>1, <1>4, <1>5, <1>6, <1>7, <1>8 DEF Spread

\* Those that are not chosen are far away: each adds more than e to the spread.
LEMMA RemovedSpread ==
    ASSUME NEW list \in Seq(Solutions), NEW chosen, NEW a \in Int, NEW n \in Int, NEW e \in Int,
           \A x \in Solutions : x \notin chosen =>
              (a - n * FunctionValue[x]) * (a - n * FunctionValue[x]) * (n - 1) > e
    PROVE  (n - 1) * (Spread(a, n, SummaryOf(list)) - Spread(a, n, SummaryOf(Those(list, chosen))))
             >= (Len(list) - Len(Those(list, chosen))) * (e + 1)
<1> DEFINE T == {l \in Seq(Solutions) :
                   (n - 1) * (Spread(a, n, SummaryOf(l)) - Spread(a, n, SummaryOf(Those(l, chosen))))
                     >= (Len(l) - Len(Those(l, chosen))) * (e + 1)}
<1>1. <<>> \in T
  <2>1. <<>> \in Seq(Solutions) /\ SummaryOf(<<>>) = EmptySummary /\ Len(<<>>) = 0
    BY EmptySummaryLemma
  <2>2. Those(<<>>, chosen) = <<>>
    BY <2>1, ThoseLemma
  <2>3. Spread(a, n, EmptySummary) = 0
    BY DEF Spread, EmptySummary
  <2>4. (n - 1) * (0 - 0) >= (0 - 0) * (e + 1)
    OBVIOUS
  <2> QED  BY <2>1, <2>2, <2>3, <2>4
<1>2. ASSUME NEW l \in Seq(Solutions), NEW x \in Solutions, l \in T
      PROVE  Append(l, x) \in T
  <2> DEFINE k == Those(l, chosen)
             v == FunctionValue[x]
             S(m) == Spread(a, n, SummaryOf(m))
             d == (a - n * v) * (a - n * v)
  <2>1. /\ k \in Seq(Solutions)
        /\ x \in chosen => Those(Append(l, x), chosen) = Append(k, x)
        /\ x \notin chosen => Those(Append(l, x), chosen) = k
    BY ThoseLemma
  <2>2. (n - 1) * (S(l) - S(k)) >= (Len(l) - Len(k)) * (e + 1)
    BY <1>2
  <2> HIDE DEF k
  <2>3. v \in Int
    BY FunctionValueAssumption
  <2>4. SummaryOf(l) \in Summaries /\ SummaryOf(k) \in Summaries
    BY <2>1, SummaryOfLemma
  <2>5. /\ SummaryOf(Append(l, x)) = AddValue(SummaryOf(l), v)
        /\ SummaryOf(Append(k, x)) = AddValue(SummaryOf(k), v)
    BY <2>1, SummaryOfLemma
  <2>6. /\ Append(l, x) \in Seq(Solutions) /\ Len(Append(l, x)) = Len(l) + 1
        /\ Len(Append(k, x)) = Len(k) + 1 /\ Len(l) \in Int /\ Len(k) \in Int
    BY <2>1, AppendProperties, LenProperties
  <2>7. x \notin chosen => d * (n - 1) > e
    OBVIOUS
  <2> HIDE DEF v
  <2>8. /\ S(l) \in Int /\ S(k) \in Int /\ d \in Int
        /\ S(Append(l, x)) = S(l) + d /\ S(Append(k, x)) = S(k) + d
    <3>1. S(l) \in Int /\ d \in Nat /\ S(Append(l, x)) = S(l) + d
      BY <2>3, <2>4, <2>5, SpreadLemma
    <3>2. S(k) \in Int /\ S(Append(k, x)) = S(k) + d
      BY <2>3, <2>4, <2>5, SpreadLemma
    <3> HIDE DEF S, d
    <3> QED  BY <3>1, <3>2
  <2> HIDE DEF S, d
  <2>9. CASE x \in chosen
    <3>1. (S(l) + d) - (S(k) + d) = S(l) - S(k) /\ (Len(l) + 1) - (Len(k) + 1) = Len(l) - Len(k)
      BY <2>6, <2>8
    <3>2. (n - 1) * (S(Append(l, x)) - S(Append(k, x)))
            >= (Len(Append(l, x)) - Len(Append(k, x))) * (e + 1)
      BY <2>2, <2>6, <2>8, <3>1
    <3> QED  BY <2>1, <2>6, <2>9, <3>2 DEF S
  <2>10. CASE x \notin chosen
    <3>1. d * (n - 1) >= e + 1
      BY <2>7, <2>8, <2>10
    <3>2. \A p, q, i, j \in Int : (n - 1) * (p - q) >= (i - j) * (e + 1)
             => (n - 1) * ((p + d) - q) >= ((i + 1) - j) * (e + 1)
      <4> TAKE p, q, i, j \in Int
      <4>1. (n - 1) * ((p + d) - q) = (n - 1) * (p - q) + d * (n - 1)
        BY <2>8
      <4>2. ((i + 1) - j) * (e + 1) = (i - j) * (e + 1) + (e + 1)
        OBVIOUS
      <4>3. (n - 1) * (p - q) \in Int /\ d * (n - 1) \in Int /\ (i - j) * (e + 1) \in Int
        BY <2>8
      <4> QED  BY <3>1, <4>1, <4>2, <4>3
    <3>3. (n - 1) * (S(Append(l, x)) - S(k)) >= (Len(Append(l, x)) - Len(k)) * (e + 1)
      BY <2>2, <2>6, <2>8, <3>2
    <3> QED  BY <2>1, <2>6, <2>10, <3>3 DEF S
  <2> QED  BY <2>9, <2>10
<1>3. \A l \in Seq(Solutions) : l \in T
  <2> HIDE DEF T
  <2> QED  BY <1>1, <1>2, ListInduction
<1> QED  BY <1>3

\* A spread is a sum of squares.
LEMMA SpreadPositive ==
    ASSUME NEW list \in Seq(Solutions), NEW a \in Int, NEW n \in Int
    PROVE  Spread(a, n, SummaryOf(list)) \in Nat
<1> DEFINE T == {l \in Seq(Solutions) : Spread(a, n, SummaryOf(l)) \in Nat}
<1>1. <<>> \in T
  BY EmptySummaryLemma DEF Spread, EmptySummary
<1>2. ASSUME NEW l \in Seq(Solutions), NEW x \in Solutions, l \in T
      PROVE  Append(l, x) \in T
  <2> DEFINE v == FunctionValue[x]
  <2>1. v \in Int
    BY FunctionValueAssumption
  <2>2. SummaryOf(l) \in Summaries /\ SummaryOf(Append(l, x)) = AddValue(SummaryOf(l), v)
    BY SummaryOfLemma
  <2>3. Append(l, x) \in Seq(Solutions)
    BY AppendProperties
  <2> HIDE DEF v
  <2>4. /\ Spread(a, n, SummaryOf(Append(l, x)))
             = Spread(a, n, SummaryOf(l)) + (a - n * v) * (a - n * v)
        /\ (a - n * v) * (a - n * v) \in Nat
    BY <2>1, <2>2, SpreadLemma
  <2> QED  BY <1>2, <2>3, <2>4
<1>3. \A l \in Seq(Solutions) : l \in T
  <2> HIDE DEF T
  <2> QED  BY <1>1, <1>2, ListInduction
<1> QED  BY <1>3

\* The whole list has the spread of its deviation, and it is not negative.
LEMMA WholeSpread ==
    ASSUME NEW list \in Seq(Solutions), list # <<>>
    PROVE  LET s == SummaryOf(list)
           IN  /\ s.n \in Nat \ {0} /\ s.sum \in Int /\ Deviation(s) \in Int
               /\ Spread(s.sum, s.n, s) = s.n * Deviation(s)
               /\ s.n * Deviation(s) \in Nat
<1> DEFINE s == SummaryOf(list)
<1>1. s \in Summaries /\ s.n = Len(list) /\ Len(list) \in Nat \ {0}
  BY SummaryOfLemma, EmptySeq
<1>2. s.n \in Nat \ {0} /\ s.sum \in Int /\ s.squares \in Int
  BY <1>1 DEF Summaries
<1>3. Spread(s.sum, s.n, s) \in Nat
  <2> DEFINE a == s.sum
             n == s.n
  <2>1. a \in Int /\ n \in Int
    BY <1>2
  <2> HIDE DEF a, n
  <2>2. Spread(a, n, SummaryOf(list)) \in Nat
    BY <2>1, SpreadPositive
  <2> QED  BY <2>2 DEF a, n
<1> HIDE DEF s
<1>4. \A n, a, q \in Int : a * a * n - 2 * a * n * a + n * n * q = n * (n * q - a * a)
  OBVIOUS
<1>5. Deviation(s) \in Int
  BY <1>2 DEF Deviation
<1>6. Spread(s.sum, s.n, s) = s.n * Deviation(s)
  <2> DEFINE a == s.sum
             n == s.n
             q == s.squares
  <2>1. /\ Spread(s.sum, s.n, s) = a * a * n - 2 * a * n * a + n * n * q
        /\ s.n * Deviation(s) = n * (n * q - a * a)
    BY DEF Spread, Deviation
  <2>2. a \in Int /\ n \in Int /\ q \in Int
    BY <1>2
  <2> HIDE DEF a, n, q
  <2> QED  BY <1>4, <2>1, <2>2
<1> QED  BY <1>2, <1>3, <1>5, <1>6 DEF s

\* The middle of a list and the spread that leaves it with the rest.
LEMMA MiddleSpread ==
    ASSUME NEW list \in Seq(Solutions), list # <<>>
    PROVE  LET s == SummaryOf(list)
               middle == MiddleSolutions(list, s)
               e == s.n * Deviation(s)
           IN  (s.n - 1) * (e - Spread(s.sum, s.n, SummaryOf(middle)))
                 >= (s.n - Len(middle)) * (e + 1)
<1> DEFINE s == SummaryOf(list)
           e == s.n * Deviation(s)
           chosen == {x \in Solutions : ~FarBelow(s, FunctionValue[x])
                                        /\ ~FarAbove(s, FunctionValue[x])}
<1>1. /\ s.n \in Nat \ {0} /\ s.sum \in Int /\ e \in Nat /\ Spread(s.sum, s.n, s) = e
  BY WholeSpread
<1>2. Len(list) = s.n
  BY SummaryOfLemma
<1>3. ASSUME NEW x \in Solutions, x \notin chosen
      PROVE  (s.sum - s.n * FunctionValue[x]) * (s.sum - s.n * FunctionValue[x]) * (s.n - 1) > e
  BY <1>3 DEF FarBelow, FarAbove, FarFromMean
<1> DEFINE a == s.sum
           n == s.n
<1>4. (n - 1) * (Spread(a, n, SummaryOf(list)) - Spread(a, n, SummaryOf(Those(list, chosen))))
             >= (Len(list) - Len(Those(list, chosen))) * (e + 1)
  <2>1. a \in Int /\ n \in Int /\ e \in Int
    BY <1>1
  <2>2. \A x \in Solutions : x \notin chosen =>
              (a - n * FunctionValue[x]) * (a - n * FunctionValue[x]) * (n - 1) > e
    BY <1>3
  <2> HIDE DEF a, n, e, chosen
  <2> QED  BY <2>1, <2>2, RemovedSpread
<1>5. Those(list, chosen) = MiddleSolutions(list, s)
  BY DEF MiddleSolutions
<1> QED  BY <1>1, <1>2, <1>4, <1>5

\* Not every solution can be more than a deviation away from the mean.
LEMMA MiddleIsNotEmpty ==
    ASSUME NEW list \in Seq(Solutions), list # <<>>
    PROVE  MiddleSolutions(list, SummaryOf(list)) # <<>>
<1> DEFINE s == SummaryOf(list)
           n == s.n
           e == s.n * Deviation(s)
<1>1. n \in Nat \ {0} /\ e \in Nat
  BY WholeSpread
<1>2. SUFFICES ASSUME MiddleSolutions(list, s) = <<>> PROVE FALSE
  OBVIOUS
<1>3. Spread(s.sum, s.n, SummaryOf(<<>>)) = 0
  <2>1. s.sum \in Int /\ s.n \in Int
    BY WholeSpread
  <2> HIDE DEF s
  <2> QED  BY <2>1, EmptySummaryLemma DEF Spread, EmptySummary
<1>4. (n - 1) * (e - 0) >= (n - 0) * (e + 1)
  <2>1. (s.n - 1) * (e - Spread(s.sum, s.n, SummaryOf(MiddleSolutions(list, s))))
                 >= (s.n - Len(MiddleSolutions(list, s))) * (e + 1)
    BY MiddleSpread
  <2>2. Len(<<>>) = 0
    OBVIOUS
  <2> HIDE DEF s, e
  <2> QED  BY <1>2, <1>3, <2>1, <2>2
<1> HIDE DEF n, e
<1>5. (n - 1) * (e - 0) = n * e - e /\ (n - 0) * (e + 1) = n * e + n /\ n * e \in Int
  BY <1>1
<1> QED  BY <1>1, <1>4, <1>5

\* The square of a larger distance is larger.
LEMMA SquareOrder ==
    ASSUME NEW p \in Nat, NEW q \in Nat, NEW k \in Nat, p <= q
    PROVE  p * p * k <= q * q * k
<1>1. \A x, y, z \in Nat : x <= y => x * z <= y * z
  OBVIOUS
<1>2. p * p \in Nat /\ q * p \in Nat /\ q * q \in Nat
  OBVIOUS
<1>3. p * p <= q * p /\ p * q <= q * q /\ q * p = p * q
  BY <1>1
<1>4. p * p <= q * q
  BY <1>2, <1>3
<1> QED  BY <1>1, <1>2, <1>4

LEMMA LowerIsLess ==
    ASSUME NEW s, s.n \in Nat \ {0}, s.sum \in Int, Deviation(s) \in Int,
           NEW v \in Int, NEW w \in Int,
           FarBelow(s, v), ~FarBelow(s, w)
    PROVE  v < w
<1> DEFINE n == s.n
           a == s.sum
           e == s.n * Deviation(s)
           dist(x) == a - n * x
<1>1. dist(v) > 0 /\ dist(v) * dist(v) * (n - 1) > e
  BY DEF FarBelow, FarFromMean
<1>2. ~ (dist(w) > 0 /\ dist(w) * dist(w) * (n - 1) > e)
  BY DEF FarBelow, FarFromMean
<1>3. n \in Nat \ {0} /\ a \in Int /\ n - 1 \in Nat /\ e \in Int
  OBVIOUS
<1> HIDE DEF n, a, e
<1>4. SUFFICES ASSUME w <= v PROVE FALSE
  OBVIOUS
<1>5. n * w <= n * v /\ n * w \in Int /\ n * v \in Int
  BY <1>3, <1>4
<1>6. dist(v) \in Nat /\ dist(w) \in Nat /\ dist(v) <= dist(w) /\ dist(w) > 0
  BY <1>1, <1>3, <1>5
<1> HIDE DEF dist
<1>7. dist(v) * dist(v) * (n - 1) <= dist(w) * dist(w) * (n - 1)
  BY <1>3, <1>6, SquareOrder
<1>8. dist(v) * dist(v) * (n - 1) \in Int /\ dist(w) * dist(w) * (n - 1) \in Int
  BY <1>3, <1>6
<1> QED  BY <1>1, <1>2, <1>3, <1>6, <1>7, <1>8

LEMMA HigherIsMore ==
    ASSUME NEW s, s.n \in Nat \ {0}, s.sum \in Int, Deviation(s) \in Int,
           NEW v \in Int, NEW w \in Int,
           FarAbove(s, v), ~FarAbove(s, w)
    PROVE  v > w
<1> DEFINE n == s.n
           a == s.sum
           e == s.n * Deviation(s)
           dist(x) == n * x - a
<1>1. dist(v) > 0 /\ dist(v) * dist(v) * (n - 1) > e
  <2>1. n * v \in Int /\ a \in Int
    OBVIOUS
  <2>2. (a - n * v) * (a - n * v) = dist(v) * dist(v)
    BY <2>1
  <2> QED  BY <2>2 DEF FarAbove, FarFromMean
<1>2. ~ (dist(w) > 0 /\ dist(w) * dist(w) * (n - 1) > e)
  <2>1. n * w \in Int /\ a \in Int
    OBVIOUS
  <2>2. (a - n * w) * (a - n * w) = dist(w) * dist(w)
    BY <2>1
  <2> QED  BY <2>2 DEF FarAbove, FarFromMean
<1>3. n \in Nat \ {0} /\ a \in Int /\ n - 1 \in Nat /\ e \in Int
  OBVIOUS
<1> HIDE DEF n, a, e
<1>4. SUFFICES ASSUME v <= w PROVE FALSE
  OBVIOUS
<1>5. n * v <= n * w /\ n * w \in Int /\ n * v \in Int
  BY <1>3, <1>4
<1>6. dist(v) \in Nat /\ dist(w) \in Nat /\ dist(v) <= dist(w) /\ dist(w) > 0
  BY <1>1, <1>3, <1>5
<1> HIDE DEF dist
<1>7. dist(v) * dist(v) * (n - 1) <= dist(w) * dist(w) * (n - 1)
  BY <1>3, <1>6, SquareOrder
<1>8. dist(v) * dist(v) * (n - 1) \in Int /\ dist(w) * dist(w) * (n - 1) \in Int
  BY <1>3, <1>6
<1> QED  BY <1>1, <1>2, <1>3, <1>6, <1>7, <1>8

(* A split orders its parts by value, and the mean of the whole is always  *)
(* near enough to some solution that one stays.                            *)
THEOREM SplitAlwaysSeparates == Spec => SplitSeparates
<1>1. ASSUME PoolInv, Next, splitResult'.split
      PROVE  /\ solutionList' # <<>>
             /\ \A m \in ToSet(solutionList') :
                  /\ \A l \in ToSet(splitResult'.lower) : FunctionValue[l] < FunctionValue[m]
                  /\ \A h \in ToSet(splitResult'.higher) : FunctionValue[h] > FunctionValue[m]
  <2> DEFINE s == SummaryOf(solutionList)
             A == {x \in Solutions : FarBelow(s, FunctionValue[x])}
             B == {x \in Solutions : ~FarBelow(s, FunctionValue[x])
                                     /\ ~FarAbove(s, FunctionValue[x])}
             C == {x \in Solutions : FarAbove(s, FunctionValue[x])}
  <2>1. /\ splitResult' = [lower |-> LowerSolutions(solutionList, s),
                           higher |-> HigherSolutions(solutionList, s), split |-> TRUE]
        /\ solutionList' = MiddleSolutions(solutionList, s)
    BY <1>1, ReportedSplit, SplitStep
  <2>2. solutionList \in Seq(Solutions) /\ solutionList # <<>>
    <3>1. Len(solutionList) >= MinSolutionsToSplit /\ MinSolutionsToSplit > 0
      BY <1>1, ReportedSplit, MinSolutionsToSplitAssumption
    <3>2. Len(<<>>) = 0
      OBVIOUS
    <3> QED  BY <1>1, <3>1, <3>2, MinSolutionsToSplitAssumption DEF PoolInv
  <2>3. solutionList' # <<>>
    BY <2>1, <2>2, MiddleIsNotEmpty
  <2>4. s.n \in Nat \ {0} /\ s.sum \in Int /\ Deviation(s) \in Int
    BY <2>2, WholeSpread
  <2>5. /\ ToSet(splitResult'.lower) \subseteq A
        /\ ToSet(solutionList') \subseteq B
        /\ ToSet(splitResult'.higher) \subseteq C
    <3>1. /\ splitResult'.lower = Those(solutionList, A) /\ solutionList' = Those(solutionList, B)
          /\ splitResult'.higher = Those(solutionList, C)
      BY <2>1 DEF LowerSolutions, HigherSolutions, MiddleSolutions
    <3> HIDE DEF A, B, C
    <3> QED  BY <2>2, <3>1, ThoseElements
  <2> HIDE DEF s
  <2>6. ASSUME NEW l \in A, NEW m \in B PROVE FunctionValue[l] < FunctionValue[m]
    <3>1. FunctionValue[l] \in Int /\ FunctionValue[m] \in Int
      BY FunctionValueAssumption
    <3>2. FarBelow(s, FunctionValue[l]) /\ ~FarBelow(s, FunctionValue[m])
      OBVIOUS
    <3> QED  BY <2>4, <3>1, <3>2, LowerIsLess
  <2>7. ASSUME NEW h \in C, NEW m \in B PROVE FunctionValue[h] > FunctionValue[m]
    <3>1. FunctionValue[h] \in Int /\ FunctionValue[m] \in Int
      BY FunctionValueAssumption
    <3>2. FarAbove(s, FunctionValue[h]) /\ ~FarAbove(s, FunctionValue[m])
      OBVIOUS
    <3> QED  BY <2>4, <3>1, <3>2, HigherIsMore
  <2> HIDE DEF A, B, C
  <2> QED  BY <2>3, <2>5, <2>6, <2>7
<1>2. PoolInv /\ [Next]_vars =>
        [splitResult'.split =>
           /\ solutionList' # <<>>
           /\ \A m \in ToSet(solutionList') :
                /\ \A l \in ToSet(splitResult'.lower) : FunctionValue[l] < FunctionValue[m]
                /\ \A h \in ToSet(splitResult'.higher) : FunctionValue[h] > FunctionValue[m]]_vars
  BY <1>1
<1> QED  BY <1>2, PoolInvariant, PTL DEF Spec, SplitSeparates

\* The deviation of part of the values around the mean of the whole is at least
\* the deviation around their own: m times the spread of q values with sum p.
LEMMA OwnMeanIsNearest ==
    ASSUME NEW a \in Int, NEW n \in Int, NEW m \in Int, NEW p \in Int, NEW q \in Int
    PROVE  n * n * (m * q - p * p) <= m * (a * a * m - 2 * a * n * p + n * n * q)
<1>1. m * (a * a * m - 2 * a * n * p + n * n * q) - n * n * (m * q - p * p)
        = (n * p - m * a) * (n * p - m * a)
  OBVIOUS
<1>2. \A d \in Int : d * d >= 0
  OBVIOUS
<1>3. /\ n * p - m * a \in Int
      /\ m * (a * a * m - 2 * a * n * p + n * n * q) \in Int
      /\ n * n * (m * q - p * p) \in Int
  OBVIOUS
<1>4. (n * p - m * a) * (n * p - m * a) >= 0
  BY <1>2, <1>3
<1> QED  BY <1>1, <1>3, <1>4

\* What is left of n values, m of them, after a split that removed some: the
\* arithmetic of SplitNarrows.  D and E are the deviations before and after.
LEMMA NarrowArithmetic ==
    ASSUME NEW n \in Nat, NEW m \in Nat \ {0}, m < n,
           NEW D \in Int, n * D \in Nat, NEW E \in Int, NEW r \in Nat,
           (n - 1) * (n * D - r) >= (n - m) * (n * D + 1),
           n * n * E <= m * r
    PROVE  /\ m > 1
           /\ E * (n * (n - 1)) < D * (m * (m - 1))
<1> DEFINE e == n * D
<1>1. e \in Nat /\ n - 1 \in Nat /\ n - m \in Nat \ {0}
  OBVIOUS
<1>2. (n - 1) * (e - r) >= (n - m) * (e + 1)
  OBVIOUS
<1> HIDE DEF e
<1>3. /\ (n - 1) * (e - r) = (n - 1) * e - (n - 1) * r
      /\ (n - m) * (e + 1) = (n - 1) * e - (m - 1) * e + (n - m)
      /\ (n - 1) * e \in Int /\ (n - 1) * r \in Nat /\ (m - 1) * e \in Nat
  BY <1>1
<1>4. (n - 1) * r < (m - 1) * e
  BY <1>1, <1>2, <1>3
<1>5. m > 1
  <2>1. m = 1 => (m - 1) * e = 0
    BY <1>1
  <2> QED  BY <1>3, <1>4, <2>1
<1>6. \A x, y \in Int, k \in Nat \ {0} : x < y => k * x < k * y
  OBVIOUS
<1>7. \A x, y \in Int, k \in Nat : x <= y => k * x <= k * y
  OBVIOUS
<1>8. (n - 1) * (n * n * E) <= (n - 1) * (m * r)
  BY <1>1, <1>7
<1>9. m * ((n - 1) * r) < m * ((m - 1) * e)
  BY <1>3, <1>4, <1>6
<1>10. /\ (n - 1) * (n * n * E) = n * (E * (n * (n - 1)))
       /\ (n - 1) * (m * r) = m * ((n - 1) * r)
       /\ E * (n * (n - 1)) \in Int /\ D * (m * (m - 1)) \in Int
  BY <1>1
<1>11. m * ((m - 1) * e) = n * (D * (m * (m - 1)))
  BY <1>1 DEF e
<1>12. n * (E * (n * (n - 1))) < n * (D * (m * (m - 1)))
  <2>1. n * (E * (n * (n - 1))) \in Int /\ m * ((n - 1) * r) \in Int /\ m * ((m - 1) * e) \in Int
    BY <1>3, <1>10
  <2> QED  BY <1>8, <1>9, <1>10, <1>11, <2>1
<1>13. \A x, y \in Int : n * x < n * y => x < y
  OBVIOUS
<1> QED  BY <1>5, <1>10, <1>12, <1>13

(* A split that moves anything away strictly lowers the sample variance of *)
(* what stays.                                                             *)
THEOREM SplitAlwaysNarrows == Spec => SplitNarrows
<1>1. ASSUME PoolInv, Next, splitResult'.split, Len(solutionList') < Len(solutionList)
      PROVE  SampleVarianceLess(summary', summary)
  <2> DEFINE s == SummaryOf(solutionList)
             middle == MiddleSolutions(solutionList, s)
             t == SummaryOf(middle)
             r == Spread(s.sum, s.n, t)
  <2>1. /\ solutionList' = middle /\ summary' = t /\ summary = s
        /\ solutionList \in Seq(Solutions) /\ middle \in Seq(Solutions)
    BY <1>1, ReportedSplit, SplitStep DEF PoolInv, StatisticsAgree
  <2>2. Len(middle) < Len(solutionList) /\ Len(middle) \in Nat /\ Len(solutionList) \in Nat
    BY <1>1, <2>1, LenProperties
  <2>3. solutionList # <<>>
    <3>1. Len(<<>>) = 0
      OBVIOUS
    <3> QED  BY <2>2, <3>1
  <2>4. middle # <<>>
    BY <2>1, <2>3, MiddleIsNotEmpty
  <2>5. /\ s.n \in Nat \ {0} /\ s.sum \in Int /\ Deviation(s) \in Int
        /\ s.n * Deviation(s) \in Nat /\ s.n = Len(solutionList)
    BY <2>1, <2>3, WholeSpread, SummaryOfLemma
  <2> HIDE DEF s
  <2>6. (s.n - 1) * (s.n * Deviation(s) - r) >= (s.n - Len(middle)) * (s.n * Deviation(s) + 1)
    BY <2>1, <2>3, MiddleSpread DEF s
  <2> HIDE DEF middle
  <2>7. /\ t.n \in Nat \ {0} /\ t.n = Len(middle) /\ t \in Summaries
        /\ Deviation(t) \in Int
    BY <2>1, <2>4, WholeSpread, SummaryOfLemma
  <2>8. r \in Nat
    <3> DEFINE a == s.sum
               n == s.n
    <3>1. a \in Int /\ n \in Int
      BY <2>5
    <3> HIDE DEF a, n
    <3>2. Spread(a, n, SummaryOf(middle)) \in Nat
      BY <2>1, <3>1, SpreadPositive
    <3> QED  BY <3>2 DEF a, n
  <2> HIDE DEF t
  <2>9. s.n * s.n * Deviation(t) <= t.n * r
    <3>1. t.sum \in Int /\ t.squares \in Int /\ t.n \in Int
      BY <2>7 DEF Summaries
    <3> DEFINE a == s.sum
               n == s.n
               m == t.n
               p == t.sum
               q == t.squares
    <3>2. a \in Int /\ n \in Int /\ m \in Int /\ p \in Int /\ q \in Int
      BY <2>5, <3>1
    <3>3. r = a * a * m - 2 * a * n * p + n * n * q /\ Deviation(t) = m * q - p * p
      BY DEF Spread, Deviation
    <3> HIDE DEF a, n, m, p, q, r
    <3>4. n * n * Deviation(t) <= m * r
      BY <3>2, <3>3, OwnMeanIsNearest
    <3> QED  BY <3>4 DEF a, n, m
  <2> HIDE DEF r
  <2>10. t.n > 1 /\ Deviation(t) * (s.n * (s.n - 1)) < Deviation(s) * (t.n * (t.n - 1))
    <3>1. t.n < s.n
      BY <2>2, <2>5, <2>7
    <3>2. (s.n - 1) * (s.n * Deviation(s) - r) >= (s.n - t.n) * (s.n * Deviation(s) + 1)
      BY <2>6, <2>7
    <3> QED  BY <2>5, <2>7, <2>8, <2>9, <3>1, <3>2, NarrowArithmetic
  <2>11. s.n > 1
    BY <2>2, <2>5, <2>7, <2>10
  <2> QED  BY <2>1, <2>10, <2>11 DEF SampleVarianceLess
<1>2. PoolInv /\ [Next]_vars =>
        [(splitResult'.split /\ Len(solutionList') < Len(solutionList)) =>
           SampleVarianceLess(summary', summary)]_vars
  BY <1>1
<1> QED  BY <1>2, PoolInvariant, PTL DEF Spec, SplitNarrows
=============================================================================
