----------------------- MODULE RegionStatisticsProofs -----------------------
(***************************************************************************)
(* Lemmas about the folds of RegionStatistics.  A fold picks the elements  *)
(* of a finite set one after the other; on a list it leaves a trace of     *)
(* intermediate results, from which everything else follows by induction   *)
(* over the list.  Induction over the naturals is stated for a set, so     *)
(* that it has no operator as a parameter.                                 *)
(***************************************************************************)
EXTENDS RegionStatistics, TLAPS, SequenceTheorems, FiniteSetTheorems, WellFoundedInduction

LEMMA SetInduction ==
    ASSUME NEW T \in SUBSET Nat, 0 \in T, \A n \in T : n + 1 \in T
    PROVE  \A n \in Nat : n \in T
<1> DEFINE R == {ss \in Nat \X Nat : ss[1] < ss[2]}
           Missing == Nat \ T
<1>1. IsWellFoundedOn(R, Nat)
  BY NatLessThanWellFounded DEF OpToRel
<1>2. SUFFICES ASSUME Missing # {} PROVE FALSE
  OBVIOUS
<1>3. \E x \in Missing : \A y \in Missing : ~ (<<y, x>> \in R)
  <2> HIDE DEF R
  <2>1. Missing \subseteq Nat
    OBVIOUS
  <2> HIDE DEF Missing
  <2> QED  BY <1>1, <1>2, <2>1, WFMin
<1>4. \A x, y \in Nat : <<y, x>> \in R <=> y < x
  OBVIOUS
<1> HIDE DEF R
<1>5. PICK x \in Missing : \A y \in Missing : ~ (<<y, x>> \in R)
  BY <1>3
<1>6. x \in Nat /\ x # 0 /\ x \notin T
  BY <1>5
<1>7. x - 1 \in Nat /\ x - 1 < x
  BY <1>6
<1>8. x - 1 \in T
  BY <1>4, <1>5, <1>6, <1>7
<1> QED  BY <1>6, <1>8

\* The recursion of a fold over the set S, as the function of all its subsets.
SetFold(g, S, A, base, pick, step) ==
    /\ g \in [SUBSET S -> A]
    /\ \A s \in SUBSET S :
         g[s] = IF s = {} THEN base ELSE step[<<pick[s], g[s \ {pick[s]}]>>]

\* Folding over a finite set: the recursion has a solution, whichever element
\* is picked first.
LEMMA FoldExists ==
    ASSUME NEW S, IsFiniteSet(S), NEW A, NEW base \in A,
           NEW pick, \A s \in SUBSET S : s # {} => pick[s] \in s,
           NEW step \in [S \X A -> A]
    PROVE  \E g : SetFold(g, S, A, base, pick, step)
<1> DEFINE Small(k) == {s \in SUBSET S : Cardinality(s) <= k}
           Solves(g, k) == \A s \in Small(k) :
               g[s] = IF s = {} THEN base ELSE step[<<pick[s], g[s \ {pick[s]}]>>]
           Good == {k \in Nat : \E g \in [Small(k) -> A] : Solves(g, k)}
<1>1. \A s \in SUBSET S : Cardinality(s) \in Nat /\ (Cardinality(s) = 0 <=> s = {})
  BY FS_Subset, FS_CardinalityType, FS_EmptySet
<1>2. \A s \in SUBSET S : s # {} => Cardinality(s \ {pick[s]}) = Cardinality(s) - 1
  BY FS_Subset, FS_RemoveElement
<1>3. 0 \in Good
  <2>1. \A s \in Small(0) : s = {}
    BY <1>1
  <2> DEFINE g == [s \in Small(0) |-> base]
  <2>2. g \in [Small(0) -> A] /\ Solves(g, 0)
    BY <2>1
  <2> QED  BY <2>2
<1>4. ASSUME NEW k \in Good PROVE k + 1 \in Good
  <2>1. PICK g \in [Small(k) -> A] : Solves(g, k)
    OBVIOUS
  <2> DEFINE h == [s \in Small(k + 1) |->
                     IF s = {} THEN base ELSE step[<<pick[s], g[s \ {pick[s]}]>>]]
  <2>2. ASSUME NEW s \in Small(k + 1), s # {} PROVE s \ {pick[s]} \in Small(k) /\ pick[s] \in S
    BY <1>1, <1>2, <2>2
  <2>3. \A s \in Small(k + 1) : h[s] \in A
    BY <2>2
  <2>4. \A s \in Small(k) : s \in Small(k + 1) /\ h[s] = g[s]
    <3> SUFFICES ASSUME NEW s \in Small(k) PROVE s \in Small(k + 1) /\ h[s] = g[s]
      OBVIOUS
    <3>1. s \in Small(k + 1)
      BY <1>1
    <3>2. h[s] = IF s = {} THEN base ELSE step[<<pick[s], g[s \ {pick[s]}]>>]
      BY <3>1
    <3> HIDE DEF h, Small
    <3> QED  BY <2>1, <3>1, <3>2
  <2>5. \A s \in Small(k + 1) :
           h[s] = IF s = {} THEN base ELSE step[<<pick[s], h[s \ {pick[s]}]>>]
    BY <2>2, <2>4
  <2>6. h \in [Small(k + 1) -> A] /\ Solves(h, k + 1)
    BY <2>3, <2>5
  <2> HIDE DEF h, Small
  <2>7. k + 1 \in Nat
    OBVIOUS
  <2> QED  BY <2>6, <2>7
<1>5. \A k \in Nat : k \in Good
  <2>1. Good \in SUBSET Nat
    OBVIOUS
  <2> HIDE DEF Good
  <2> QED  BY <1>3, <1>4, <2>1, SetInduction
<1>6. Cardinality(S) \in Good
  BY <1>1, <1>5
<1>7. PICK g \in [Small(Cardinality(S)) -> A] : Solves(g, Cardinality(S))
  BY <1>6
<1>8. Small(Cardinality(S)) = SUBSET S
  BY FS_Subset
<1> HIDE DEF Small
<1> QED  BY <1>7, <1>8 DEF SetFold

-----------------------------------------------------------------------------
(* Traces of folds over lists *)

\* A fold over a list picks the greatest position.
LEMMA GreatestPicked ==
    ASSUME NEW n \in Nat
    PROVE  /\ \A s \in SUBSET (1 .. n) : s # {} => Max(s) \in s
           /\ \A i \in 1 .. n : Max(1 .. i) = i /\ (1 .. i) \ {i} = 1 .. i - 1
           /\ IsFiniteSet(1 .. n)
<1> DEFINE Good == {k \in Nat : \A s \in SUBSET (1 .. k) : s # {} =>
                                   \E x \in s : \A y \in s : x >= y}
<1>1. 0 \in Good
  <2>1. 1 .. 0 = {}
    OBVIOUS
  <2> QED  BY <2>1
<1>2. ASSUME NEW k \in Good PROVE k + 1 \in Good
  <2> SUFFICES ASSUME NEW s \in SUBSET (1 .. k + 1), s # {}
               PROVE  \E x \in s : \A y \in s : x >= y
    OBVIOUS
  <2>1. CASE k + 1 \in s
    BY <2>1
  <2>2. CASE k + 1 \notin s
    <3>1. s \in SUBSET (1 .. k)
      BY <2>2
    <3> QED  BY <3>1
  <2> QED  BY <2>1, <2>2
<1>3. n \in Good
  <2>1. Good \in SUBSET Nat
    OBVIOUS
  <2> HIDE DEF Good
  <2> QED  BY <1>1, <1>2, <2>1, SetInduction
<1>4. \A s \in SUBSET (1 .. n) : s # {} => Max(s) \in s
  BY <1>3 DEF Max
<1>5. ASSUME NEW i \in 1 .. n PROVE Max(1 .. i) = i /\ (1 .. i) \ {i} = 1 .. i - 1
  <2>1. i \in 1 .. i /\ \A y \in 1 .. i : i >= y
    OBVIOUS
  <2>2. Max(1 .. i) \in 1 .. i /\ \A y \in 1 .. i : Max(1 .. i) >= y
    BY <2>1 DEF Max
  <2>3. Max(1 .. i) >= i
    BY <2>1, <2>2
  <2> QED  BY <2>2, <2>3
<1> QED  BY <1>4, <1>5, FS_Interval

\* A fold of elements of S into results in A.
Foldable(A, S, base, step) == base \in A /\ step \in [A \X S -> A]

\* The recursion of FoldLeft: the greatest position is folded last.
Recursion(f, A, base, step, list) ==
    /\ f[{}] = base
    /\ \A s \in SUBSET (1 .. Len(list)) : (s # {} /\ f[s \ {Max(s)}] \in A)
           => f[s] = step[<<f[s \ {Max(s)}], list[Max(s)]>>]

\* The intermediate results of folding step over a list.
Trace(t, A, base, step, list) ==
    /\ t \in [0 .. Len(list) -> A]
    /\ t[0] = base
    /\ \A i \in 1 .. Len(list) : t[i] = step[<<t[i - 1], list[i]>>]

LEMMA ListFold ==
    ASSUME NEW A, NEW S, NEW base, NEW step, Foldable(A, S, base, step), NEW list \in Seq(S)
    PROVE  \E g \in [SUBSET (1 .. Len(list)) -> A] : Recursion(g, A, base, step, list)
<1> DEFINE P == 1 .. Len(list)
           pick == [s \in SUBSET P |-> Max(s)]
           next == [z \in P \X A |-> step[<<z[2], list[z[1]]>>]]
<1>1. Len(list) \in Nat /\ \A i \in P : list[i] \in S
  BY LenProperties, ElementOfSeq
<1>2. base \in A /\ next \in [P \X A -> A]
  BY <1>1 DEF Foldable
<1>3. \A s \in SUBSET P : s # {} => pick[s] = Max(s) /\ pick[s] \in s
  BY <1>1, GreatestPicked
<1>4. IsFiniteSet(P)
  BY <1>1, GreatestPicked
<1>5. \A x \in P, a \in A : next[<<x, a>>] = step[<<a, list[x]>>]
  OBVIOUS
<1> HIDE DEF pick, next
<1>6. PICK g : SetFold(g, P, A, base, pick, next)
  <2> HIDE DEF P
  <2>1. \A s \in SUBSET P : s # {} => pick[s] \in s
    BY <1>3
  <2> QED  BY <1>2, <1>4, <2>1, FoldExists
<1>7. ASSUME NEW s \in SUBSET P, s # {}
      PROVE  g[s] = step[<<g[s \ {Max(s)}], list[Max(s)]>>]
  <2>1. Max(s) \in P /\ s \ {Max(s)} \in SUBSET P /\ pick[s] = Max(s)
    BY <1>3, <1>7
  <2>2. g[s \ {Max(s)}] \in A
    BY <1>6, <2>1 DEF SetFold
  <2>3. g[s] = next[<<Max(s), g[s \ {Max(s)}]>>]
    BY <1>6, <1>7, <2>1 DEF SetFold
  <2> QED  BY <1>5, <2>1, <2>2, <2>3
<1>8. g \in [SUBSET P -> A] /\ g[{}] = base
  BY <1>6 DEF SetFold
<1> QED  BY <1>7, <1>8 DEF Recursion

LEMMA ListFoldTrace ==
    ASSUME NEW A, NEW S, NEW base, NEW step, Foldable(A, S, base, step), NEW list \in Seq(S),
           NEW f, Recursion(f, A, base, step, list)
    PROVE  \E t : Trace(t, A, base, step, list) /\ f[1 .. Len(list)] = t[Len(list)]
<1> DEFINE n == Len(list)
<1>1. n \in Nat /\ \A i \in 1 .. n : list[i] \in S
  BY LenProperties, ElementOfSeq
<1>2. ASSUME NEW i \in 1 .. n, f[1 .. i - 1] \in A
      PROVE  f[1 .. i] = step[<<f[1 .. i - 1], list[i]>>] /\ f[1 .. i] \in A
  <2>1. 1 .. i \in SUBSET (1 .. n) /\ i \in 1 .. i
    BY <1>1
  <2>2. Max(1 .. i) = i /\ (1 .. i) \ {i} = 1 .. i - 1
    BY <1>1, GreatestPicked
  <2>3. f[1 .. i] = step[<<f[1 .. i - 1], list[i]>>]
    BY <1>2, <2>1, <2>2 DEF Recursion
  <2> QED  BY <1>1, <1>2, <2>3 DEF Foldable
<1>3. f[1 .. 0] = base /\ base \in A
  <2>1. 1 .. 0 = {}
    OBVIOUS
  <2> QED  BY <2>1 DEF Recursion, Foldable
<1> DEFINE Good == {i \in Nat : i <= n => f[1 .. i] \in A}
<1>4. \A i \in Nat : i \in Good
  <2>1. 0 \in Good
    BY <1>3
  <2>2. ASSUME NEW i \in Good PROVE i + 1 \in Good
    <3> SUFFICES ASSUME i + 1 <= n PROVE f[1 .. (i + 1)] \in A
      OBVIOUS
    <3>1. i + 1 \in 1 .. n /\ (i + 1) - 1 = i /\ f[1 .. i] \in A
      BY <1>1
    <3>2. f[1 .. ((i + 1) - 1)] \in A
      BY <3>1
    <3> QED  BY <1>2, <3>1, <3>2
  <2>3. Good \in SUBSET Nat
    OBVIOUS
  <2> HIDE DEF Good
  <2> QED  BY <2>1, <2>2, <2>3, SetInduction
<1>5. \A i \in 0 .. n : f[1 .. i] \in A
  BY <1>1, <1>4
<1> DEFINE t == [i \in 0 .. n |-> f[1 .. i]]
<1>6. t \in [0 .. n -> A]
  BY <1>5
<1>7. t[0] = base /\ t[n] = f[1 .. n]
  BY <1>1, <1>3
<1>8. ASSUME NEW i \in 1 .. n PROVE t[i] = step[<<t[i - 1], list[i]>>]
  <2>1. i \in 0 .. n /\ i - 1 \in 0 .. n
    BY <1>1
  <2>2. f[1 .. i - 1] \in A
    BY <1>5, <2>1
  <2> QED  BY <1>2, <2>1, <2>2
<1> HIDE DEF t
<1> QED  BY <1>6, <1>7, <1>8 DEF Trace

\* Two traces of one fold are equal.
LEMMA TraceUnique ==
    ASSUME NEW A, NEW S, NEW base, NEW step, Foldable(A, S, base, step), NEW list \in Seq(S),
           NEW t, Trace(t, A, base, step, list), NEW u, Trace(u, A, base, step, list)
    PROVE  t[Len(list)] = u[Len(list)]
<1> DEFINE n == Len(list)
           Good == {i \in Nat : i <= n => t[i] = u[i]}
<1>1. n \in Nat
  BY LenProperties
<1>2. 0 \in Good
  BY DEF Trace
<1>3. ASSUME NEW i \in Good PROVE i + 1 \in Good
  <2> SUFFICES ASSUME i + 1 <= n PROVE t[i + 1] = u[i + 1]
    OBVIOUS
  <2>1. i + 1 \in 1 .. n /\ (i + 1) - 1 = i /\ t[i] = u[i]
    BY <1>1
  <2> QED  BY <2>1 DEF Trace
<1>4. Good \in SUBSET Nat
  OBVIOUS
<1>5. n \in Good
  <2> HIDE DEF Good, n
  <2> QED  BY <1>1, <1>2, <1>3, <1>4, SetInduction
<1> QED  BY <1>1, <1>5

\* What folding step over a list from base gives: the end of its trace.
Folded(A, base, step, list) ==
    CHOOSE r : \E t : Trace(t, A, base, step, list) /\ r = t[Len(list)]

LEMMA FoldedTrace ==
    ASSUME NEW A, NEW S, NEW base, NEW step, Foldable(A, S, base, step), NEW list \in Seq(S),
           NEW t, Trace(t, A, base, step, list)
    PROVE  Folded(A, base, step, list) = t[Len(list)]
<1>1. \E u : Trace(u, A, base, step, list) /\ Folded(A, base, step, list) = u[Len(list)]
  BY DEF Folded
<1> QED  BY <1>1, TraceUnique

LEMMA FoldedLemma ==
    ASSUME NEW A, NEW S, NEW base, NEW step, Foldable(A, S, base, step), NEW list \in Seq(S)
    PROVE  /\ Folded(A, base, step, <<>>) = base
           /\ Folded(A, base, step, list) \in A
           /\ \A x \in S : Folded(A, base, step, Append(list, x))
                             = step[<<Folded(A, base, step, list), x>>]
<1>1. \A l \in Seq(S) : \E t : Trace(t, A, base, step, l)
  <2> TAKE l \in Seq(S)
  <2>1. \E g : Recursion(g, A, base, step, l)
    BY ListFold
  <2> QED  BY <2>1, ListFoldTrace
<1>2. Folded(A, base, step, <<>>) = base
  <2>1. <<>> \in Seq(S) /\ Len(<<>>) = 0
    OBVIOUS
  <2>2. PICK t : Trace(t, A, base, step, <<>>)
    BY <1>1, <2>1
  <2> DEFINE none == <<>>
  <2> HIDE DEF none
  <2>3. none \in Seq(S) /\ Trace(t, A, base, step, none)
    BY <2>1, <2>2 DEF none
  <2>4. Folded(A, base, step, none) = t[Len(none)]
    BY <2>3, FoldedTrace
  <2>5. t[0] = base
    BY <2>2 DEF Trace
  <2> QED  BY <2>1, <2>4, <2>5 DEF none
<1>3. PICK t : Trace(t, A, base, step, list)
  BY <1>1
<1>4. Len(list) \in Nat /\ Folded(A, base, step, list) = t[Len(list)]
  BY <1>3, FoldedTrace, LenProperties
<1>5. Folded(A, base, step, list) \in A
  BY <1>3, <1>4 DEF Trace
<1>6. ASSUME NEW x \in S
      PROVE  Folded(A, base, step, Append(list, x)) = step[<<Folded(A, base, step, list), x>>]
  <2> DEFINE longer == Append(list, x)
             n == Len(list)
             u == [i \in 0 .. n + 1 |-> IF i <= n THEN t[i] ELSE step[<<t[n], x>>]]
  <2>1. /\ longer \in Seq(S) /\ Len(longer) = n + 1 /\ longer[n + 1] = x
        /\ \A i \in 1 .. n : longer[i] = list[i]
    BY <1>4, AppendProperties
  <2>2. u \in [0 .. n + 1 -> A] /\ u[0] = base
    <3>1. t \in [0 .. n -> A] /\ t[0] = base /\ step[<<t[n], x>>] \in A
      BY <1>3, <1>4 DEF Trace, Foldable
    <3>2. \A i \in 0 .. n + 1 : u[i] \in A
      BY <1>4, <3>1
    <3> QED  BY <1>4, <3>1, <3>2
  <2>3. ASSUME NEW i \in 1 .. n + 1 PROVE u[i] = step[<<u[i - 1], longer[i]>>]
    <3>1. CASE i = n + 1
      <4>1. u[i] = step[<<t[n], x>>] /\ u[i - 1] = t[n]
        BY <1>4, <3>1
      <4> QED  BY <2>1, <3>1, <4>1
    <3>2. CASE i # n + 1
      <4>1. i \in 1 .. n /\ u[i] = t[i] /\ u[i - 1] = t[i - 1]
        BY <1>4, <3>2
      <4>2. t[i] = step[<<t[i - 1], list[i]>>]
        BY <1>3, <4>1 DEF Trace
      <4> QED  BY <2>1, <4>1, <4>2
    <3> QED  BY <3>1, <3>2
  <2>4. u[n + 1] = step[<<t[n], x>>]
    BY <1>4
  <2> HIDE DEF u, longer
  <2>5. Trace(u, A, base, step, longer)
    BY <2>1, <2>2, <2>3 DEF Trace
  <2>6. Folded(A, base, step, longer) = u[n + 1]
    BY <2>1, <2>5, FoldedTrace
  <2> QED  BY <1>4, <2>4, <2>6 DEF longer
<1> QED  BY <1>2, <1>5, <1>6

\* A function that satisfies the recursion of FoldLeft computes Folded.
LEMMA FoldedIs ==
    ASSUME NEW A, NEW S, NEW base, NEW step, Foldable(A, S, base, step), NEW list \in Seq(S),
           NEW f, Recursion(f, A, base, step, list)
    PROVE  f[1 .. Len(list)] = Folded(A, base, step, list)
<1>1. \E t : Trace(t, A, base, step, list) /\ f[1 .. Len(list)] = t[Len(list)]
  BY ListFoldTrace
<1> QED  BY <1>1, FoldedTrace

\* Induction over lists, built by appending.
LEMMA ListInduction ==
    ASSUME NEW S, NEW T, <<>> \in T, \A l \in Seq(S), x \in S : l \in T => Append(l, x) \in T
    PROVE  \A l \in Seq(S) : l \in T
<1> DEFINE Good == {n \in Nat : \A l \in Seq(S) : Len(l) = n => l \in T}
<1>1. 0 \in Good
  <2>1. \A l \in Seq(S) : Len(l) = 0 => l = <<>>
    BY EmptySeq
  <2> QED  BY <2>1
<1>2. ASSUME NEW n \in Good PROVE n + 1 \in Good
  <2> SUFFICES ASSUME NEW l \in Seq(S), Len(l) = n + 1 PROVE l \in T
    OBVIOUS
  <2> DEFINE front == [i \in 1 .. n |-> l[i]]
  <2>1. \A i \in 1 .. n + 1 : l[i] \in S
    BY ElementOfSeq
  <2>2. front \in Seq(S) /\ Len(front) = n /\ \A i \in 1 .. n : front[i] = l[i]
    BY <2>1
  <2>3. l[n + 1] \in S
    BY <2>1
  <2> HIDE DEF front
  <2>4. /\ Append(front, l[n + 1]) \in Seq(S) /\ Len(Append(front, l[n + 1])) = n + 1
        /\ \A i \in 1 .. n : Append(front, l[n + 1])[i] = front[i]
        /\ Append(front, l[n + 1])[n + 1] = l[n + 1]
    BY <2>2, <2>3, AppendProperties
  <2>5. \A i \in 1 .. n + 1 : Append(front, l[n + 1])[i] = l[i]
    <3> TAKE i \in 1 .. n + 1
    <3>1. i \in 1 .. n \/ i = n + 1
      OBVIOUS
    <3> QED  BY <2>2, <2>4, <3>1
  <2>6. l = Append(front, l[n + 1])
    BY <2>4, <2>5, SeqEqual
  <2>7. front \in T
    BY <2>2
  <2> QED  BY <2>2, <2>3, <2>6, <2>7
<1>3. \A n \in Nat : n \in Good
  <2>1. Good \in SUBSET Nat
    OBVIOUS
  <2> HIDE DEF Good
  <2> QED  BY <1>1, <1>2, <2>1, SetInduction
<1> QED  BY <1>3, LenProperties
-----------------------------------------------------------------------------
(* Summaries of lists *)

AddStep == [z \in Summaries \X Solutions |-> AddValue(z[1], FunctionValue[z[2]])]

LEMMA AddValueType ==
    ASSUME NEW st \in Summaries, NEW v \in Int
    PROVE  AddValue(st, v) \in Summaries
<1>1. v * v \in Int
  OBVIOUS
<1> QED  BY <1>1 DEF AddValue, Summaries

LEMMA AddAllIsFolded ==
    ASSUME NEW start \in Summaries, NEW list \in Seq(Solutions)
    PROVE  /\ Foldable(Summaries, Solutions, start, AddStep)
           /\ AddAll(start, list) = Folded(Summaries, start, AddStep, list)
<1> DEFINE P == 1 .. Len(list)
           Eq(f) == f = [s \in SUBSET P |->
                      IF s = {} THEN start
                      ELSE LET x == Max(s) IN AddValue(f[s \ {x}], FunctionValue[list[x]])]
           iter == CHOOSE f : Eq(f)
<1>1. Len(list) \in Nat /\ DOMAIN list = P /\ \A i \in P : list[i] \in Solutions
  BY LenProperties, ElementOfSeq
<1>2. Foldable(Summaries, Solutions, start, AddStep)
  <2>1. ASSUME NEW st \in Summaries, NEW x \in Solutions
        PROVE  AddValue(st, FunctionValue[x]) \in Summaries
    BY FunctionValueAssumption, AddValueType
  <2> QED  BY <2>1 DEF Foldable, AddStep
<1>3. \A st \in Summaries, x \in Solutions : AddStep[<<st, x>>] = AddValue(st, FunctionValue[x])
  BY DEF AddStep
<1>4. \A s \in SUBSET P : s # {} => Max(s) \in P /\ s \ {Max(s)} \in SUBSET P
  BY <1>1, GreatestPicked
<1>5. PICK g \in [SUBSET P -> Summaries] : Recursion(g, Summaries, start, AddStep, list)
  BY <1>2, ListFold
<1>6. Eq(g)
  <2>1. ASSUME NEW s \in SUBSET P, s # {}
        PROVE  g[s] = AddValue(g[s \ {Max(s)}], FunctionValue[list[Max(s)]])
    <3>1. g[s \ {Max(s)}] \in Summaries /\ list[Max(s)] \in Solutions
      BY <1>1, <1>4, <2>1
    <3>2. g[s] = AddStep[<<g[s \ {Max(s)}], list[Max(s)]>>]
      BY <1>5, <2>1, <3>1 DEF Recursion
    <3> QED  BY <1>3, <3>1, <3>2
  <2>2. g[{}] = start
    BY <1>5 DEF Recursion
  <2> QED  BY <2>1, <2>2
<1>7. Eq(iter)
  BY <1>6
<1>8. AddAll(start, list) = iter[P]
  BY <1>1 DEF AddAll, FoldLeft, MapThenFoldSet
<1> HIDE DEF iter
<1>9. iter[{}] = start /\ \A s \in SUBSET P : s # {} =>
        iter[s] = AddValue(iter[s \ {Max(s)}], FunctionValue[list[Max(s)]])
  BY <1>7
<1>10. Recursion(iter, Summaries, start, AddStep, list)
  <2> SUFFICES ASSUME NEW s \in SUBSET P, s # {}, iter[s \ {Max(s)}] \in Summaries
               PROVE  iter[s] = AddStep[<<iter[s \ {Max(s)}], list[Max(s)]>>]
    BY <1>9 DEF Recursion
  <2> QED  BY <1>1, <1>3, <1>4, <1>9
<1> QED  BY <1>2, <1>8, <1>10, FoldedIs

\* Adding a list is adding its solutions one after the other.
LEMMA AddAllLemma ==
    ASSUME NEW start \in Summaries, NEW list \in Seq(Solutions)
    PROVE  /\ AddAll(start, <<>>) = start
           /\ AddAll(start, list) \in Summaries
           /\ \A x \in Solutions : AddAll(start, Append(list, x))
                                     = AddValue(AddAll(start, list), FunctionValue[x])
<1>1. <<>> \in Seq(Solutions) /\ \A x \in Solutions : Append(list, x) \in Seq(Solutions)
  BY AppendProperties
<1>2. Foldable(Summaries, Solutions, start, AddStep)
  BY AddAllIsFolded
<1>3. \A l \in Seq(Solutions) : AddAll(start, l) = Folded(Summaries, start, AddStep, l)
  BY AddAllIsFolded
<1>4. \A st \in Summaries, x \in Solutions : AddStep[<<st, x>>] = AddValue(st, FunctionValue[x])
  BY DEF AddStep
<1>5. /\ Folded(Summaries, start, AddStep, <<>>) = start
      /\ Folded(Summaries, start, AddStep, list) \in Summaries
      /\ \A x \in Solutions : Folded(Summaries, start, AddStep, Append(list, x))
                                = AddStep[<<Folded(Summaries, start, AddStep, list), x>>]
  BY <1>2, FoldedLemma
<1>6. AddAll(start, <<>>) = start
  BY <1>1, <1>3, <1>5
<1>7. AddAll(start, list) = Folded(Summaries, start, AddStep, list)
  BY <1>3
<1>8. ASSUME NEW x \in Solutions
      PROVE  AddAll(start, Append(list, x)) = AddValue(AddAll(start, list), FunctionValue[x])
  <2>1. AddAll(start, Append(list, x)) = Folded(Summaries, start, AddStep, Append(list, x))
    BY <1>1, <1>3
  <2>2. AddAll(start, Append(list, x)) = AddStep[<<AddAll(start, list), x>>]
    BY <1>5, <1>7, <2>1
  <2> QED  BY <1>4, <1>5, <1>7, <2>2
<1> QED  BY <1>5, <1>6, <1>7, <1>8

LEMMA AddAllConcat ==
    ASSUME NEW start \in Summaries, NEW l \in Seq(Solutions), NEW m \in Seq(Solutions)
    PROVE  AddAll(start, l \o m) = AddAll(AddAll(start, l), m)
<1> DEFINE T == {k \in Seq(Solutions) : AddAll(start, l \o k) = AddAll(AddAll(start, l), k)}
<1>1. <<>> \in T
  <2>1. l \o <<>> = l /\ <<>> \in Seq(Solutions)
    BY ConcatEmptySeq
  <2> QED  BY <2>1, AddAllLemma
<1>2. ASSUME NEW k \in Seq(Solutions), NEW x \in Solutions, k \in T
      PROVE  Append(k, x) \in T
  <2>1. Append(k, x) \in Seq(Solutions) /\ l \o k \in Seq(Solutions)
    BY AppendProperties, ConcatProperties
  <2>2. l \o Append(k, x) = Append(l \o k, x)
    <3>1. Len(l \o Append(k, x)) = Len(Append(l \o k, x))
      BY <2>1, AppendProperties, ConcatProperties
    <3> QED  OBVIOUS
  <2>3. AddAll(start, Append(l \o k, x)) = AddValue(AddAll(start, l \o k), FunctionValue[x])
    BY <2>1, AddAllLemma
  <2>4. AddAll(start, l) \in Summaries
    BY AddAllLemma
  <2>5. AddAll(AddAll(start, l), Append(k, x))
          = AddValue(AddAll(AddAll(start, l), k), FunctionValue[x])
    BY <2>4, AddAllLemma
  <2> QED  BY <1>2, <2>1, <2>2, <2>3, <2>5
<1>3. \A k \in Seq(Solutions) : k \in T
  <2> HIDE DEF T
  <2> QED  BY <1>1, <1>2, ListInduction
<1> QED  BY <1>3

LEMMA SummaryOfLemma ==
    ASSUME NEW list \in Seq(Solutions)
    PROVE  /\ EmptySummary \in Summaries
           /\ SummaryOf(<<>>) = EmptySummary
           /\ SummaryOf(list) \in Summaries
           /\ SummaryOf(list).n = Len(list)
           /\ \A x \in Solutions : SummaryOf(Append(list, x))
                                     = AddValue(SummaryOf(list), FunctionValue[x])
<1>1. EmptySummary \in Summaries
  BY DEF EmptySummary, Summaries
<1>2. /\ SummaryOf(<<>>) = EmptySummary
      /\ \A l \in Seq(Solutions) : SummaryOf(l) \in Summaries
      /\ \A l \in Seq(Solutions), x \in Solutions :
           SummaryOf(Append(l, x)) = AddValue(SummaryOf(l), FunctionValue[x])
  BY <1>1, AddAllLemma DEF SummaryOf
<1> DEFINE T == {l \in Seq(Solutions) : SummaryOf(l).n = Len(l)}
<1>3. <<>> \in T
  BY <1>2 DEF EmptySummary
<1>4. ASSUME NEW l \in Seq(Solutions), NEW x \in Solutions, l \in T
      PROVE  Append(l, x) \in T
  <2>1. Append(l, x) \in Seq(Solutions) /\ Len(Append(l, x)) = Len(l) + 1
    BY AppendProperties
  <2>2. SummaryOf(Append(l, x)).n = SummaryOf(l).n + 1
    BY <1>2 DEF AddValue
  <2> QED  BY <1>4, <2>1, <2>2
<1>5. \A l \in Seq(Solutions) : l \in T
  <2> HIDE DEF T
  <2> QED  BY <1>3, <1>4, ListInduction
<1> QED  BY <1>1, <1>2, <1>5

-----------------------------------------------------------------------------
(* The chosen solutions of a list *)

KeepStep(chosen) ==
    [z \in Seq(Solutions) \X Solutions |->
       IF z[2] \in chosen THEN Append(z[1], z[2]) ELSE z[1]]

LEMMA ThoseIsFolded ==
    ASSUME NEW list \in Seq(Solutions), NEW chosen
    PROVE  /\ Foldable(Seq(Solutions), Solutions, <<>>, KeepStep(chosen))
           /\ Those(list, chosen) = Folded(Seq(Solutions), <<>>, KeepStep(chosen), list)
<1> DEFINE P == 1 .. Len(list)
           Keep(kept, x) == IF x \in chosen THEN Append(kept, x) ELSE kept
           Eq(f) == f = [s \in SUBSET P |->
                      IF s = {} THEN <<>>
                      ELSE LET x == Max(s) IN Keep(f[s \ {x}], list[x])]
           iter == CHOOSE f : Eq(f)
           step == KeepStep(chosen)
<1>1. Len(list) \in Nat /\ DOMAIN list = P /\ \A i \in P : list[i] \in Solutions
  BY LenProperties, ElementOfSeq
<1>2. Foldable(Seq(Solutions), Solutions, <<>>, step)
  <2>1. ASSUME NEW kept \in Seq(Solutions), NEW x \in Solutions
        PROVE  Keep(kept, x) \in Seq(Solutions)
    BY AppendProperties
  <2>2. <<>> \in Seq(Solutions)
    OBVIOUS
  <2> QED  BY <2>1, <2>2 DEF Foldable, KeepStep
<1>3. \A kept \in Seq(Solutions), x \in Solutions : step[<<kept, x>>] = Keep(kept, x)
  BY DEF KeepStep
<1>4. \A s \in SUBSET P : s # {} => Max(s) \in P /\ s \ {Max(s)} \in SUBSET P
  BY <1>1, GreatestPicked
<1> HIDE DEF step
<1>5. PICK g \in [SUBSET P -> Seq(Solutions)] : Recursion(g, Seq(Solutions), <<>>, step, list)
  BY <1>2, ListFold
<1>6. Eq(g)
  <2> HIDE DEF Keep
  <2>1. ASSUME NEW s \in SUBSET P, s # {}
        PROVE  g[s] = Keep(g[s \ {Max(s)}], list[Max(s)])
    <3>1. g[s \ {Max(s)}] \in Seq(Solutions) /\ list[Max(s)] \in Solutions
      BY <1>1, <1>4, <2>1
    <3>2. g[s] = step[<<g[s \ {Max(s)}], list[Max(s)]>>]
      BY <1>5, <2>1, <3>1 DEF Recursion
    <3> QED  BY <1>3, <3>1, <3>2
  <2>2. g[{}] = <<>>
    BY <1>5 DEF Recursion
  <2> QED  BY <2>1, <2>2
<1>7. Eq(iter)
  BY <1>6
<1>8. Those(list, chosen) = iter[P]
  BY <1>1 DEF Those, FoldLeft, MapThenFoldSet
<1> HIDE DEF iter, Keep
<1>9. iter[{}] = <<>> /\ \A s \in SUBSET P : s # {} =>
        iter[s] = Keep(iter[s \ {Max(s)}], list[Max(s)])
  BY <1>7
<1>10. Recursion(iter, Seq(Solutions), <<>>, step, list)
  <2> SUFFICES ASSUME NEW s \in SUBSET P, s # {}, iter[s \ {Max(s)}] \in Seq(Solutions)
               PROVE  iter[s] = step[<<iter[s \ {Max(s)}], list[Max(s)]>>]
    BY <1>9 DEF Recursion
  <2> QED  BY <1>1, <1>3, <1>4, <1>9
<1>11. Those(list, chosen) = Folded(Seq(Solutions), <<>>, step, list)
  BY <1>2, <1>8, <1>10, FoldedIs
<1> QED  BY <1>2, <1>11 DEF step

LEMMA ThoseLemma ==
    ASSUME NEW list \in Seq(Solutions), NEW chosen
    PROVE  /\ Those(<<>>, chosen) = <<>>
           /\ Those(list, chosen) \in Seq(Solutions)
           /\ \A x \in Solutions : Those(Append(list, x), chosen)
                = IF x \in chosen THEN Append(Those(list, chosen), x) ELSE Those(list, chosen)
<1> DEFINE step == KeepStep(chosen)
<1>1. <<>> \in Seq(Solutions) /\ \A x \in Solutions : Append(list, x) \in Seq(Solutions)
  BY AppendProperties
<1>2. Foldable(Seq(Solutions), Solutions, <<>>, step)
  BY ThoseIsFolded
<1>3. \A l \in Seq(Solutions) : Those(l, chosen) = Folded(Seq(Solutions), <<>>, step, l)
  BY ThoseIsFolded
<1>4. \A kept \in Seq(Solutions), x \in Solutions :
         step[<<kept, x>>] = IF x \in chosen THEN Append(kept, x) ELSE kept
  BY DEF KeepStep
<1> HIDE DEF step
<1>5. /\ Folded(Seq(Solutions), <<>>, step, <<>>) = <<>>
      /\ Folded(Seq(Solutions), <<>>, step, list) \in Seq(Solutions)
      /\ \A x \in Solutions : Folded(Seq(Solutions), <<>>, step, Append(list, x))
                                = step[<<Folded(Seq(Solutions), <<>>, step, list), x>>]
  BY <1>2, FoldedLemma
<1> QED  BY <1>1, <1>3, <1>4, <1>5

LEMMA ToSetAppend ==
    ASSUME NEW S, NEW list \in Seq(S), NEW x \in S
    PROVE  ToSet(Append(list, x)) = ToSet(list) \cup {x}
<1>1. /\ Append(list, x) \in Seq(S) /\ Len(list) \in Nat /\ Len(Append(list, x)) = Len(list) + 1
      /\ \A i \in 1 .. Len(list) : Append(list, x)[i] = list[i]
      /\ Append(list, x)[Len(list) + 1] = x
  BY AppendProperties, LenProperties
<1>2. DOMAIN list = 1 .. Len(list) /\ DOMAIN Append(list, x) = 1 .. Len(list) + 1
  BY <1>1, LenProperties
<1>3. 1 .. Len(list) + 1 = (1 .. Len(list)) \cup {Len(list) + 1}
  BY <1>1
<1> QED  BY <1>1, <1>2, <1>3 DEF ToSet

LEMMA ToSetConcat ==
    ASSUME NEW S, NEW l \in Seq(S), NEW m \in Seq(S)
    PROVE  ToSet(l \o m) = ToSet(l) \cup ToSet(m)
<1>1. /\ Len(l) \in Nat /\ Len(m) \in Nat
      /\ l \o m \in Seq(S) /\ Len(l \o m) = Len(l) + Len(m)
      /\ DOMAIN l = 1 .. Len(l) /\ DOMAIN m = 1 .. Len(m)
      /\ DOMAIN (l \o m) = 1 .. Len(l) + Len(m)
  BY LenProperties, ConcatProperties
<1>2. \A i \in 1 .. Len(l) : i \in 1 .. Len(l) + Len(m) /\ (l \o m)[i] = l[i]
  BY <1>1, ConcatProperties
<1>3. ASSUME NEW i \in 1 .. Len(m)
      PROVE  Len(l) + i \in 1 .. Len(l) + Len(m) /\ (l \o m)[Len(l) + i] = m[i]
  <2>1. Len(l) + i \in 1 .. Len(l) + Len(m) /\ ~ (Len(l) + i <= Len(l)) /\ (Len(l) + i) - Len(l) = i
    BY <1>1
  <2> QED  BY <2>1, ConcatProperties
<1>4. ASSUME NEW i \in 1 .. Len(l) + Len(m), i \notin 1 .. Len(l)
      PROVE  i - Len(l) \in 1 .. Len(m) /\ (l \o m)[i] = m[i - Len(l)]
  <2>1. i - Len(l) \in 1 .. Len(m) /\ ~ (i <= Len(l))
    BY <1>1, <1>4
  <2> QED  BY <2>1, ConcatProperties
<1>5. ToSet(l \o m) \subseteq ToSet(l) \cup ToSet(m)
  BY <1>1, <1>2, <1>4 DEF ToSet
<1>6. ToSet(l) \subseteq ToSet(l \o m)
  BY <1>1, <1>2 DEF ToSet
<1>7. ToSet(m) \subseteq ToSet(l \o m)
  BY <1>1, <1>3 DEF ToSet
<1> QED  BY <1>5, <1>6, <1>7

\* The chosen are the elements of the list that are in the set, and there are
\* no more of them than the list is long.
LEMMA ThoseElements ==
    ASSUME NEW list \in Seq(Solutions), NEW chosen
    PROVE  /\ ToSet(Those(list, chosen)) = ToSet(list) \cap chosen
           /\ Len(Those(list, chosen)) <= Len(list)
<1> DEFINE T == {l \in Seq(Solutions) : /\ ToSet(Those(l, chosen)) = ToSet(l) \cap chosen
                                        /\ Len(Those(l, chosen)) <= Len(l)}
<1>1. <<>> \in T
  <2>1. ToSet(<<>>) = {} /\ <<>> \in Seq(Solutions)
    BY DEF ToSet
  <2> QED  BY <2>1, ThoseLemma
<1>2. ASSUME NEW l \in Seq(Solutions), NEW x \in Solutions, l \in T
      PROVE  Append(l, x) \in T
  <2> DEFINE k == Those(l, chosen)
  <2>1. /\ k \in Seq(Solutions)
        /\ x \in chosen => Those(Append(l, x), chosen) = Append(k, x)
        /\ x \notin chosen => Those(Append(l, x), chosen) = k
    BY ThoseLemma
  <2>2. ToSet(k) = ToSet(l) \cap chosen /\ Len(k) <= Len(l)
    BY <1>2
  <2> HIDE DEF k
  <2>3. /\ Append(l, x) \in Seq(Solutions) /\ Len(Append(l, x)) = Len(l) + 1
        /\ Len(Append(k, x)) = Len(k) + 1 /\ Len(l) \in Nat /\ Len(k) \in Nat
    BY <2>1, AppendProperties, LenProperties
  <2>4. ToSet(Append(l, x)) = ToSet(l) \cup {x} /\ ToSet(Append(k, x)) = ToSet(k) \cup {x}
    BY <2>1, ToSetAppend
  <2>5. CASE x \in chosen
    <3>1. ToSet(Append(k, x)) = ToSet(Append(l, x)) \cap chosen
      BY <2>2, <2>4, <2>5
    <3>2. Len(Append(k, x)) <= Len(Append(l, x))
      BY <2>2, <2>3
    <3> QED  BY <2>1, <2>3, <2>5, <3>1, <3>2
  <2>6. CASE x \notin chosen
    BY <2>1, <2>2, <2>3, <2>4, <2>6
  <2> QED  BY <2>5, <2>6
<1>3. \A l \in Seq(Solutions) : l \in T
  <2> HIDE DEF T
  <2> QED  BY <1>1, <1>2, ListInduction
<1> QED  BY <1>3

\* Three sets of which each solution is in exactly one cut a list in three.
LEMMA ThoseLengths ==
    ASSUME NEW list \in Seq(Solutions), NEW A, NEW B, NEW C,
           \A x \in Solutions : \/ x \in A /\ x \notin B /\ x \notin C
                                \/ x \notin A /\ x \in B /\ x \notin C
                                \/ x \notin A /\ x \notin B /\ x \in C
    PROVE  Len(Those(list, A)) + Len(Those(list, B)) + Len(Those(list, C)) = Len(list)
<1> DEFINE T == {l \in Seq(Solutions) :
                   Len(Those(l, A)) + Len(Those(l, B)) + Len(Those(l, C)) = Len(l)}
<1>1. <<>> \in T
  <2>1. <<>> \in Seq(Solutions) /\ Len(<<>>) = 0
    OBVIOUS
  <2> QED  BY <2>1, ThoseLemma
<1>2. ASSUME NEW l \in Seq(Solutions), NEW x \in Solutions, l \in T
      PROVE  Append(l, x) \in T
  <2>1. ASSUME NEW D
        PROVE  /\ Len(Those(l, D)) \in Nat
               /\ x \in D => Len(Those(Append(l, x), D)) = Len(Those(l, D)) + 1
               /\ x \notin D => Len(Those(Append(l, x), D)) = Len(Those(l, D))
    BY ThoseLemma, LenProperties, AppendProperties
  <2>2. Append(l, x) \in Seq(Solutions) /\ Len(Append(l, x)) = Len(l) + 1 /\ Len(l) \in Nat
    BY AppendProperties, LenProperties
  <2>3. Len(Those(l, A)) + Len(Those(l, B)) + Len(Those(l, C)) = Len(l)
    BY <1>2
  <2>4. Len(Those(Append(l, x), A)) + Len(Those(Append(l, x), B)) + Len(Those(Append(l, x), C))
          = Len(Append(l, x))
    <3>1. CASE x \in A /\ x \notin B /\ x \notin C
      BY <2>1, <2>2, <2>3, <3>1
    <3>2. CASE x \notin A /\ x \in B /\ x \notin C
      BY <2>1, <2>2, <2>3, <3>2
    <3>3. CASE x \notin A /\ x \notin B /\ x \in C
      BY <2>1, <2>2, <2>3, <3>3
    <3> QED  BY <3>1, <3>2, <3>3
  <2> QED  BY <2>2, <2>4
<1>3. \A l \in Seq(Solutions) : l \in T
  <2> HIDE DEF T
  <2> QED  BY <1>1, <1>2, ListInduction
<1> QED  BY <1>3

\* Each solution is below, above or in the middle, and in one of them only.
LEMMA OneSide ==
    ASSUME NEW s \in Summaries, NEW x \in Solutions
    PROVE  ~ (FarBelow(s, FunctionValue[x]) /\ FarAbove(s, FunctionValue[x]))
<1>1. FunctionValue[x] \in Int /\ s.n \in Int /\ s.sum \in Int
  BY FunctionValueAssumption DEF Summaries
<1>2. s.n * FunctionValue[x] \in Int
  BY <1>1
<1> QED  BY <1>1, <1>2 DEF FarBelow, FarAbove
=============================================================================
