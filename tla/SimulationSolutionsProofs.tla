---------------------- MODULE SimulationSolutionsProofs ---------------------
(***************************************************************************)
(* No solution is lost or doubled on its way from an agent through the     *)
(* leader to a region, and when a region is split.  The copies of a        *)
(* solution are a sum over the lists of the regions and the queues of      *)
(* messages, so the first part is about such sums: what one more message,  *)
(* or one less, does to them.  Then every step is shown to move copies     *)
(* from one place to another, and only a result to add one.  What the      *)
(* leader may send, and to whom, is known from SimulationProofs and        *)
(* SimulationMessagesProofs.                                               *)
(***************************************************************************)
EXTENDS SimulationMessagesProofs

-----------------------------------------------------------------------------
(* Sums *)

\* The recursion behind SumFunction: an element of the set at a time.
SumsUp(f, S, sum) ==
    /\ sum \in [SUBSET S -> Nat]
    /\ sum[{}] = 0
    /\ \A s \in SUBSET S : s # {} =>
         \E x \in s : sum[s] = f[x] + sum[s \ {x}]

LEMMA SumExists ==
    ASSUME NEW S, IsFiniteSet(S), NEW f \in [S -> Nat]
    PROVE  \E sum : SumsUp(f, S, sum) /\ SumFunction(f) = sum[S]
<1> DEFINE pick == [s \in SUBSET S |-> CHOOSE x \in s : TRUE]
           step == [z \in S \X Nat |-> f[z[1]] + z[2]]
           Eq(g) == g = [s \in SUBSET S |->
                      IF s = {} THEN 0
                      ELSE LET x == CHOOSE y \in s : TRUE IN f[x] + g[s \ {x}]]
           iter == CHOOSE g : Eq(g)
<1>1. \A s \in SUBSET S : s # {} => pick[s] = (CHOOSE x \in s : TRUE) /\ pick[s] \in s
  OBVIOUS
<1>2. step \in [S \X Nat -> Nat]
  OBVIOUS
<1>3. \A x \in S, n \in Nat : step[<<x, n>>] = f[x] + n
  OBVIOUS
<1>4. PICK g : SetFold(g, S, Nat, 0, pick, step)
  <2>1. \A s \in SUBSET S : s # {} => pick[s] \in s
    BY <1>1
  <2>2. 0 \in Nat
    OBVIOUS
  <2> HIDE DEF pick, step
  <2> QED  BY <1>2, <2>1, <2>2, FoldExists
<1> HIDE DEF step, pick
<1>5. g \in [SUBSET S -> Nat]
  BY <1>4 DEF SetFold
<1>6. ASSUME NEW s \in SUBSET S, s # {}
      PROVE  g[s] = f[CHOOSE x \in s : TRUE] + g[s \ {CHOOSE x \in s : TRUE}]
  <2> DEFINE x == CHOOSE y \in s : TRUE
  <2>1. x \in S /\ pick[s] = x
    BY <1>1, <1>6
  <2> HIDE DEF x
  <2>2. g[s] = step[<<x, g[s \ {x}]>>] /\ g[s \ {x}] \in Nat
    BY <1>4, <1>5, <1>6, <2>1 DEF SetFold
  <2>3. g[s] = f[x] + g[s \ {x}]
    BY <1>3, <2>1, <2>2
  <2> QED  BY <2>3 DEF x
<1>7. g[{}] = 0
  BY <1>4 DEF SetFold
<1>8. Eq(g)
  BY <1>5, <1>6, <1>7
<1>9. Eq(iter)
  BY <1>8
<1>10. SumFunction(f) = iter[S]
  BY DEF SumFunction, SumFunctionOnSet, FoldFunctionOnSet, MapThenFoldSet
<1> HIDE DEF iter
<1>11. \A s \in SUBSET S : s # {} => (CHOOSE y \in s : TRUE) \in s
  OBVIOUS
<1>12. iter[{}] = 0 /\ \A s \in SUBSET S : s # {} => \E x \in s : iter[s] = f[x] + iter[s \ {x}]
  BY <1>9, <1>11
<1> DEFINE Good == {k \in Nat : \A s \in SUBSET S : Cardinality(s) = k => iter[s] \in Nat}
<1>13. \A s \in SUBSET S : IsFiniteSet(s) /\ Cardinality(s) \in Nat
  BY FS_Subset, FS_CardinalityType
<1>14. 0 \in Good
  BY <1>12, <1>13, FS_EmptySet
<1>15. ASSUME NEW k \in Good PROVE k + 1 \in Good
  <2> SUFFICES ASSUME NEW s \in SUBSET S, Cardinality(s) = k + 1 PROVE iter[s] \in Nat
    OBVIOUS
  <2>1. s # {}
    BY <1>13, FS_EmptySet
  <2>2. PICK x \in s : iter[s] = f[x] + iter[s \ {x}]
    BY <1>12, <2>1
  <2>3. Cardinality(s \ {x}) = k
    <3>1. Cardinality(s \ {x}) = Cardinality(s) - 1
      BY <1>13, FS_RemoveElement
    <3> QED  BY <3>1
  <2>4. s \ {x} \in SUBSET S
    OBVIOUS
  <2>5. iter[s \ {x}] \in Nat
    BY <2>3, <2>4
  <2> QED  BY <2>2, <2>5
<1>16. \A k \in Nat : k \in Good
  <2>1. Good \in SUBSET Nat
    OBVIOUS
  <2> HIDE DEF Good
  <2> QED  BY <1>14, <1>15, <2>1, SetInduction
<1>17. \A s \in SUBSET S : iter[s] \in Nat
  BY <1>13, <1>16
<1>18. iter = [s \in SUBSET S |-> iter[s]]
  BY <1>9
<1>19. iter \in [SUBSET S -> Nat]
  BY <1>17, <1>18
<1> QED  BY <1>10, <1>12, <1>19 DEF SumsUp

\* The order in which the elements are added does not matter: any of them can
\* be taken out of the sum.
LEMMA AnyOrder ==
    ASSUME NEW S, IsFiniteSet(S), NEW f \in [S -> Nat], NEW sum, SumsUp(f, S, sum)
    PROVE  \A s \in SUBSET S : \A x \in s : sum[s] = f[x] + sum[s \ {x}]
<1> DEFINE Good == {k \in Nat : \A s \in SUBSET S : Cardinality(s) = k =>
                                  \A x \in s : sum[s] = f[x] + sum[s \ {x}]}
<1>1. \A s \in SUBSET S : IsFiniteSet(s) /\ Cardinality(s) \in Nat /\ sum[s] \in Nat
  BY FS_Subset, FS_CardinalityType DEF SumsUp
<1>2. 0 \in Good
  <2>1. \A s \in SUBSET S : Cardinality(s) = 0 => s = {}
    BY <1>1, FS_EmptySet
  <2> QED  BY <2>1
<1>3. ASSUME NEW k \in Good PROVE k + 1 \in Good
  <2> SUFFICES ASSUME NEW s \in SUBSET S, Cardinality(s) = k + 1, NEW x \in s
               PROVE  sum[s] = f[x] + sum[s \ {x}]
    OBVIOUS
  <2>1. PICK y \in s : sum[s] = f[y] + sum[s \ {y}]
    BY DEF SumsUp
  <2> SUFFICES ASSUME x # y PROVE sum[s] = f[x] + sum[s \ {x}]
    BY <2>1
  <2>2. Cardinality(s \ {x}) = k /\ Cardinality(s \ {y}) = k
    <3>1. \A z \in s : Cardinality(s \ {z}) = Cardinality(s) - 1
      BY <1>1, FS_RemoveElement
    <3> QED  BY <3>1
  <2>3. /\ s \ {x} \in SUBSET S /\ s \ {y} \in SUBSET S /\ (s \ {x}) \ {y} \in SUBSET S
        /\ x \in s \ {y} /\ y \in s \ {x} /\ (s \ {x}) \ {y} = (s \ {y}) \ {x}
    OBVIOUS
  <2>4. sum[s \ {y}] = f[x] + sum[(s \ {y}) \ {x}]
    BY <2>2, <2>3
  <2>5. sum[s \ {x}] = f[y] + sum[(s \ {x}) \ {y}]
    BY <2>2, <2>3
  <2>6. /\ f[x] \in Nat /\ f[y] \in Nat
        /\ sum[(s \ {x}) \ {y}] \in Nat /\ sum[(s \ {x}) \ {y}] = sum[(s \ {y}) \ {x}]
    BY <1>1, <2>3
  <2> QED  BY <2>1, <2>4, <2>5, <2>6
<1>4. \A k \in Nat : k \in Good
  <2>1. Good \in SUBSET Nat
    OBVIOUS
  <2> HIDE DEF Good
  <2> QED  BY <1>2, <1>3, <2>1, SetInduction
<1> QED  BY <1>1, <1>4

\* Two functions that agree on s sum up to the same there.
LEMMA SameSums ==
    ASSUME NEW S, IsFiniteSet(S), NEW f \in [S -> Nat], NEW sum, SumsUp(f, S, sum),
           NEW T, IsFiniteSet(T), NEW g \in [T -> Nat], NEW other, SumsUp(g, T, other)
    PROVE  \A s \in SUBSET S : (s \in SUBSET T /\ \A x \in s : f[x] = g[x]) => sum[s] = other[s]
<1> DEFINE Good == {k \in Nat : \A s \in SUBSET S : 
              (Cardinality(s) = k /\ s \in SUBSET T /\ \A x \in s : f[x] = g[x]) => sum[s] = other[s]}
<1>1. \A s \in SUBSET S : IsFiniteSet(s) /\ Cardinality(s) \in Nat
  BY FS_Subset, FS_CardinalityType
<1>2. 0 \in Good
  <2>1. \A s \in SUBSET S : Cardinality(s) = 0 => s = {}
    BY <1>1, FS_EmptySet
  <2> QED  BY <2>1 DEF SumsUp
<1>3. ASSUME NEW k \in Good PROVE k + 1 \in Good
  <2> SUFFICES ASSUME NEW s \in SUBSET S, Cardinality(s) = k + 1,
                      s \in SUBSET T, \A x \in s : f[x] = g[x]
               PROVE  sum[s] = other[s]
    OBVIOUS
  <2>1. s # {}
    BY <1>1, FS_EmptySet
  <2>2. PICK x \in s : sum[s] = f[x] + sum[s \ {x}]
    BY <2>1 DEF SumsUp
  <2>3. other[s] = g[x] + other[s \ {x}]
    BY AnyOrder
  <2>4. Cardinality(s \ {x}) = k
    <3>1. Cardinality(s \ {x}) = Cardinality(s) - 1
      BY <1>1, FS_RemoveElement
    <3> QED  BY <3>1
  <2>5. sum[s \ {x}] = other[s \ {x}]
    BY <2>4
  <2> QED  BY <2>2, <2>3, <2>5
<1>4. \A k \in Nat : k \in Good
  <2>1. Good \in SUBSET Nat
    OBVIOUS
  <2> HIDE DEF Good
  <2> QED  BY <1>2, <1>3, <2>1, SetInduction
<1> QED  BY <1>1, <1>4

LEMMA SumIsNat ==
    ASSUME NEW S, IsFiniteSet(S), NEW f \in [S -> Nat]
    PROVE  SumFunction(f) \in Nat
<1>1. PICK sum : SumsUp(f, S, sum) /\ SumFunction(f) = sum[S]
  BY SumExists
<1> QED  BY <1>1 DEF SumsUp

\* The function f on S is g on T and has one element x more.
OneMore(f, S, x, g, T) ==
    /\ x \in S /\ T = S \ {x}
    /\ f \in [S -> Nat] /\ g \in [T -> Nat]
    /\ \A y \in T : g[y] = f[y]

LEMMA SumOfOneMore ==
    ASSUME NEW S, IsFiniteSet(S), NEW T, NEW f, NEW g, NEW x, OneMore(f, S, x, g, T)
    PROVE  SumFunction(f) = SumFunction(g) + f[x] /\ SumFunction(g) \in Nat /\ f[x] \in Nat
<1>1. /\ x \in S /\ T = S \ {x} /\ f \in [S -> Nat] /\ g \in [T -> Nat]
      /\ \A y \in T : f[y] = g[y]
  BY DEF OneMore
<1>2. IsFiniteSet(T) /\ T \in SUBSET S /\ T \in SUBSET T
  BY <1>1, FS_Subset
<1>3. PICK sum : SumsUp(f, S, sum) /\ SumFunction(f) = sum[S]
  BY <1>1, SumExists
<1>4. PICK other : SumsUp(g, T, other) /\ SumFunction(g) = other[T]
  BY <1>1, <1>2, SumExists
<1>5. sum[S] = f[x] + sum[T]
  BY <1>1, <1>3, AnyOrder
<1>6. sum[T] = other[T]
  <2>1. g \in [T -> Nat] /\ f \in [S -> Nat]
    BY <1>1
  <2>2. \A s \in SUBSET S : (s \in SUBSET T /\ \A y \in s : f[y] = g[y]) => sum[s] = other[s]
    BY <1>2, <1>3, <1>4, <2>1, SameSums
  <2> QED  BY <1>1, <1>2, <2>2
<1>7. SumFunction(g) \in Nat /\ f[x] \in Nat
  BY <1>1, <1>2, SumIsNat
<1> QED  BY <1>3, <1>4, <1>5, <1>6, <1>7

LEMMA SumOfLonger ==
    ASSUME NEW n \in Nat \ {0}, NEW f \in [1 .. n -> Nat], NEW g \in [1 .. n - 1 -> Nat],
           \A i \in 1 .. n - 1 : g[i] = f[i]
    PROVE  SumFunction(f) = SumFunction(g) + f[n] /\ SumFunction(g) \in Nat
<1> DEFINE S == 1 .. n
           T == 1 .. n - 1
<1>1. n \in S /\ T = S \ {n}
  OBVIOUS
<1>2. IsFiniteSet(S)
  BY FS_Interval
<1>3. OneMore(f, S, n, g, T)
  BY <1>1 DEF OneMore
<1> HIDE DEF S, T
<1> QED  BY <1>2, <1>3, SumOfOneMore

LEMMA SumChange ==
    ASSUME NEW S, IsFiniteSet(S), NEW f \in [S -> Nat], NEW g \in [S -> Nat], NEW x \in S,
           \A y \in S \ {x} : g[y] = f[y]
    PROVE  SumFunction(g) + f[x] = SumFunction(f) + g[x]
<1> DEFINE T == S \ {x}
           rest == [y \in T |-> f[y]]
<1>1. OneMore(f, S, x, rest, T) /\ OneMore(g, S, x, rest, T)
  BY DEF OneMore
<1> HIDE DEF rest, T
<1>2. /\ SumFunction(f) = SumFunction(rest) + f[x] /\ SumFunction(g) = SumFunction(rest) + g[x]
      /\ SumFunction(rest) \in Nat /\ f[x] \in Nat /\ g[x] \in Nat
  BY <1>1, SumOfOneMore
<1> QED  BY <1>2

LEMMA SumOfNothing ==
    ASSUME NEW S, IsFiniteSet(S), NEW f \in [S -> Nat], \A x \in S : f[x] = 0
    PROVE  SumFunction(f) = 0
<1>1. PICK sum : SumsUp(f, S, sum) /\ SumFunction(f) = sum[S]
  BY SumExists
<1> DEFINE Good == {k \in Nat : \A s \in SUBSET S : Cardinality(s) = k => sum[s] = 0}
<1>2. \A s \in SUBSET S : IsFiniteSet(s) /\ Cardinality(s) \in Nat
  BY FS_Subset, FS_CardinalityType
<1>3. 0 \in Good
  <2>1. \A s \in SUBSET S : Cardinality(s) = 0 => s = {}
    BY <1>2, FS_EmptySet
  <2> QED  BY <1>1, <2>1 DEF SumsUp
<1>4. ASSUME NEW k \in Good PROVE k + 1 \in Good
  <2> SUFFICES ASSUME NEW s \in SUBSET S, Cardinality(s) = k + 1 PROVE sum[s] = 0
    OBVIOUS
  <2>1. s # {}
    BY <1>2, FS_EmptySet
  <2>2. PICK x \in s : sum[s] = f[x] + sum[s \ {x}]
    BY <1>1, <2>1 DEF SumsUp
  <2>3. Cardinality(s \ {x}) = k
    <3>1. Cardinality(s \ {x}) = Cardinality(s) - 1
      BY <1>2, FS_RemoveElement
    <3> QED  BY <3>1
  <2>4. sum[s \ {x}] = 0
    BY <2>3
  <2> QED  BY <2>2, <2>4
<1>5. \A k \in Nat : k \in Good
  <2>1. Good \in SUBSET Nat
    OBVIOUS
  <2> HIDE DEF Good
  <2> QED  BY <1>3, <1>4, <2>1, SetInduction
<1> QED  BY <1>1, <1>2, <1>5

-----------------------------------------------------------------------------
(* What a queue weighs if each message has a weight, and many queues *)

Weight(q, w) == SumFunction([i \in DOMAIN q |-> w[q[i]]])

Total(table, w) == SumFunction([k \in DOMAIN table |-> Weight(table[k], w)])

LEMMA WeightLemma ==
    ASSUME NEW M, NEW w \in [M -> Nat], NEW q \in Seq(M)
    PROVE  /\ Weight(<<>>, w) = 0
           /\ Weight(q, w) \in Nat
           /\ \A m \in M : Weight(Append(q, m), w) = Weight(q, w) + w[m]
<1> DEFINE f == [i \in DOMAIN q |-> w[q[i]]]
<1>1. DOMAIN q = 1 .. Len(q) /\ Len(q) \in Nat /\ \A i \in DOMAIN q : q[i] \in M
  BY LenProperties, ElementOfSeq
<1>2. f \in [DOMAIN q -> Nat] /\ IsFiniteSet(DOMAIN q)
  BY <1>1, FS_Interval
<1>3. Weight(q, w) \in Nat
  <2> HIDE DEF f
  <2>1. SumFunction(f) \in Nat
    BY <1>2, SumIsNat
  <2> QED  BY <2>1 DEF f, Weight
<1>4. Weight(<<>>, w) = 0
  <2> DEFINE none == [i \in DOMAIN <<>> |-> w[<<>>[i]]]
  <2>1. none \in [{} -> Nat] /\ \A x \in {} : none[x] = 0
    OBVIOUS
  <2> HIDE DEF none
  <2>2. SumFunction(none) = 0
    BY <2>1, FS_EmptySet, SumOfNothing
  <2> QED  BY <2>2 DEF none, Weight
<1>5. ASSUME NEW m \in M PROVE Weight(Append(q, m), w) = Weight(q, w) + w[m]
  <2> DEFINE longer == Append(q, m)
             n == Len(q) + 1
             g == [i \in DOMAIN longer |-> w[longer[i]]]
  <2>1. /\ n \in Nat \ {0} /\ n - 1 = Len(q)
        /\ DOMAIN longer = 1 .. n /\ longer[n] = m
        /\ \A i \in 1 .. n - 1 : longer[i] = q[i]
    BY <1>1, AppendProperties
  <2>2. DOMAIN q = 1 .. n - 1 /\ f \in [1 .. n - 1 -> Nat]
    BY <1>1, <1>2, <2>1
  <2>3. \A i \in 1 .. n : longer[i] \in M /\ i \in DOMAIN longer
    BY <1>1, <2>1
  <2> HIDE DEF n, longer
  <2>4. g \in [1 .. n -> Nat] /\ g[n] = w[m] /\ \A i \in 1 .. n - 1 : f[i] = g[i]
    BY <2>1, <2>2, <2>3
  <2>5. Weight(longer, w) = SumFunction(g) /\ Weight(q, w) = SumFunction(f)
    BY DEF Weight
  <2> HIDE DEF f, g
  <2>6. SumFunction(g) = SumFunction(f) + g[n]
    BY <2>1, <2>2, <2>4, SumOfLonger
  <2>7. Weight(longer, w) = Weight(q, w) + w[m]
    BY <2>4, <2>5, <2>6
  <2> QED  BY <2>7 DEF longer
<1> QED  BY <1>3, <1>4, <1>5

LEMMA WeightConcat ==
    ASSUME NEW M, NEW w \in [M -> Nat], NEW p \in Seq(M), NEW q \in Seq(M)
    PROVE  Weight(p \o q, w) = Weight(p, w) + Weight(q, w)
<1> DEFINE T == {l \in Seq(M) : Weight(p \o l, w) = Weight(p, w) + Weight(l, w)}
<1>1. <<>> \in T
  <2>1. p \o <<>> = p /\ <<>> \in Seq(M)
    BY ConcatEmptySeq
  <2> QED  BY <2>1, WeightLemma
<1>2. ASSUME NEW l \in Seq(M), NEW x \in M, l \in T PROVE Append(l, x) \in T
  <2>1. Append(l, x) \in Seq(M) /\ p \o l \in Seq(M)
    BY AppendProperties, ConcatProperties
  <2>2. p \o Append(l, x) = Append(p \o l, x)
    <3>1. Len(p \o Append(l, x)) = Len(Append(p \o l, x))
      BY <2>1, AppendProperties, ConcatProperties
    <3> QED  OBVIOUS
  <2>3. Weight(p \o l, w) = Weight(p, w) + Weight(l, w)
    BY <1>2
  <2> DEFINE pl == p \o l
  <2> HIDE DEF pl
  <2>4. pl \in Seq(M)
    BY <2>1 DEF pl
  <2>5. Weight(Append(pl, x), w) = Weight(pl, w) + w[x]
    BY <2>4, WeightLemma
  <2>6. /\ Weight(Append(l, x), w) = Weight(l, w) + w[x]
        /\ Weight(p, w) \in Nat /\ Weight(l, w) \in Nat /\ w[x] \in Nat
    BY WeightLemma
  <2>7. Weight(p \o Append(l, x), w) = Weight(p, w) + Weight(Append(l, x), w)
    BY <2>2, <2>3, <2>5, <2>6 DEF pl
  <2> QED  BY <2>1, <2>7
<1>3. \A l \in Seq(M) : l \in T
  <2> HIDE DEF T
  <2> QED  BY <1>1, <1>2, ListInduction
<1> QED  BY <1>3

LEMMA WeightTake ==
    ASSUME NEW M, NEW w \in [M -> Nat], NEW q \in Seq(M), q # <<>>
    PROVE  Weight(q, w) = w[Head(q)] + Weight(Tail(q), w)
<1> DEFINE first == <<Head(q)>>
<1>1. Head(q) \in M /\ Tail(q) \in Seq(M)
  BY HeadTailProperties
<1>2. first \in Seq(M) /\ first = Append(<<>>, Head(q)) /\ <<>> \in Seq(M)
  BY <1>1
<1>3. q = first \o Tail(q)
  BY <1>1, <1>2, HeadTailProperties, ConcatProperties, SeqEqual
<1> HIDE DEF first
<1>4. Weight(first \o Tail(q), w) = Weight(first, w) + Weight(Tail(q), w)
  BY <1>1, <1>2, WeightConcat
<1>5. Weight(first, w) = w[Head(q)]
  <2> DEFINE none == <<>>
  <2> HIDE DEF none
  <2>1. none \in Seq(M) /\ Weight(none, w) = 0
    BY <1>2, WeightLemma DEF none
  <2>2. Weight(Append(none, Head(q)), w) = Weight(none, w) + w[Head(q)]
    BY <1>1, <2>1, WeightLemma
  <2>3. first = Append(none, Head(q)) /\ w[Head(q)] \in Nat
    BY <1>1, <1>2 DEF none
  <2> QED  BY <2>1, <2>2, <2>3
<1> QED  BY <1>3, <1>4, <1>5

LEMMA WeightOfNothing ==
    ASSUME NEW M, NEW w \in [M -> Nat], NEW q \in Seq(M), \A i \in DOMAIN q : w[q[i]] = 0
    PROVE  Weight(q, w) = 0
<1> DEFINE f == [i \in DOMAIN q |-> w[q[i]]]
<1>1. DOMAIN q = 1 .. Len(q) /\ Len(q) \in Nat
  BY LenProperties
<1>2. f \in [DOMAIN q -> Nat] /\ IsFiniteSet(DOMAIN q) /\ \A i \in DOMAIN q : f[i] = 0
  BY <1>1, FS_Interval
<1> HIDE DEF f
<1>3. SumFunction(f) = 0
  BY <1>2, SumOfNothing
<1> QED  BY <1>3 DEF f, Weight

LEMMA TotalLemma ==
    ASSUME NEW K, IsFiniteSet(K), NEW M, NEW w \in [M -> Nat], NEW t \in [K -> Seq(M)]
    PROVE  /\ Total(t, w) \in Nat
           /\ (\A k \in K : t[k] = <<>>) => Total(t, w) = 0
<1> DEFINE f(t_) == [k \in K |-> Weight(t_[k], w)]
<1>1. \A u \in [K -> Seq(M)] : f(u) \in [K -> Nat] /\ Total(u, w) = SumFunction(f(u))
  BY WeightLemma DEF Total
<1>2. Total(t, w) \in Nat
  <2> DEFINE g == f(t)
  <2>1. g \in [K -> Nat] /\ Total(t, w) = SumFunction(g)
    BY <1>1
  <2> HIDE DEF g
  <2> QED  BY <2>1, SumIsNat
<1>3. ASSUME \A k \in K : t[k] = <<>> PROVE Total(t, w) = 0
  <2> DEFINE g == f(t)
  <2>1. g \in [K -> Nat] /\ Total(t, w) = SumFunction(g)
    BY <1>1
  <2>2. \A k \in K : g[k] = 0
    <3>1. <<>> \in Seq(M)
      OBVIOUS
    <3>2. Weight(<<>>, w) = 0
      BY <3>1, WeightLemma
    <3> QED  BY <1>3, <3>2
  <2> HIDE DEF g
  <2> QED  BY <2>1, <2>2, SumOfNothing
<1> QED  BY <1>2, <1>3

\* Two tables of queues of weighed messages that differ at k.
Tables(K, M, w, old, new, k) ==
    /\ w \in [M -> Nat]
    /\ old \in [K -> Seq(M)]
    /\ new \in [K -> Seq(M)]
    /\ k \in K
    /\ \A j \in K \ {k} : new[j] = old[j]

LEMMA TotalChanged ==
    ASSUME NEW K, IsFiniteSet(K), NEW M, NEW w, NEW old, NEW new, NEW k, Tables(K, M, w, old, new, k)
    PROVE  /\ Total(new, w) + Weight(old[k], w) = Total(old, w) + Weight(new[k], w)
           /\ Total(new, w) \in Nat /\ Total(old, w) \in Nat
<1> DEFINE f(t) == [j \in K |-> Weight(t[j], w)]
           g == f(old)
           h == f(new)
<1>1. /\ w \in [M -> Nat] /\ old \in [K -> Seq(M)] /\ new \in [K -> Seq(M)] /\ k \in K
      /\ \A j \in K \ {k} : new[j] = old[j]
  BY DEF Tables
<1>2. /\ g \in [K -> Nat] /\ Total(old, w) = SumFunction(g)
      /\ h \in [K -> Nat] /\ Total(new, w) = SumFunction(h)
  BY <1>1, WeightLemma DEF Total
<1>3. /\ \A j \in K \ {k} : h[j] = g[j]
      /\ g[k] = Weight(old[k], w) /\ h[k] = Weight(new[k], w)
  BY <1>1
<1> HIDE DEF g, h
<1>4. SumFunction(h) + g[k] = SumFunction(g) + h[k]
  <2>1. g \in [K -> Nat] /\ h \in [K -> Nat] /\ k \in K /\ \A j \in K \ {k} : h[j] = g[j]
    BY <1>1, <1>2, <1>3
  <2> QED  BY <2>1, SumChange
<1>5. SumFunction(h) \in Nat /\ SumFunction(g) \in Nat
  BY <1>2, SumIsNat
<1> QED  BY <1>2, <1>3, <1>4, <1>5

-----------------------------------------------------------------------------
(* Counting a solution is weighing with weights of one and zero *)

Ones(s) == [x \in Solutions |-> IF x = s THEN 1 ELSE 0]

LEMMA CountLemma ==
    ASSUME NEW list \in Seq(Solutions), NEW s
    PROVE  CountIn(list, s) = Weight(list, Ones(s)) /\ CountIn(list, s) \in Nat
<1> DEFINE T == {l \in Seq(Solutions) : CountIn(l, s) = Weight(l, Ones(s))}
           w == Ones(s)
           At(l) == {i \in DOMAIN l : l[i] = s}
<1>1. w \in [Solutions -> Nat] /\ \A x \in Solutions : w[x] = IF x = s THEN 1 ELSE 0
  BY DEF Ones
<1>2. <<>> \in T
  <2>1. <<>> \in Seq(Solutions) /\ At(<<>>) = {}
    OBVIOUS
  <2>2. CountIn(<<>>, s) = 0
    BY <2>1, FS_EmptySet DEF CountIn
  <2> HIDE DEF w
  <2>3. Weight(<<>>, w) = 0
    BY <1>1, <2>1, WeightLemma
  <2> QED  BY <2>1, <2>2, <2>3 DEF w
<1>3. ASSUME NEW l \in Seq(Solutions), NEW x \in Solutions, l \in T PROVE Append(l, x) \in T
  <2> DEFINE longer == Append(l, x)
             n == Len(l) + 1
  <2>1. /\ longer \in Seq(Solutions) /\ DOMAIN longer = DOMAIN l \cup {n} /\ n \notin DOMAIN l
        /\ longer[n] = x /\ \A i \in DOMAIN l : longer[i] = l[i]
    <3>1. /\ longer \in Seq(Solutions) /\ Len(l) \in Nat /\ Len(longer) = n
          /\ DOMAIN l = 1 .. Len(l) /\ longer[n] = x
          /\ \A i \in 1 .. Len(l) : longer[i] = l[i]
      BY AppendProperties, LenProperties
    <3>2. DOMAIN longer = 1 .. n
      BY <3>1, LenProperties
    <3> QED  BY <3>1, <3>2
  <2>2. IsFiniteSet(At(l))
    <3>1. DOMAIN l = 1 .. Len(l) /\ Len(l) \in Nat
      BY LenProperties
    <3>2. IsFiniteSet(DOMAIN l) /\ At(l) \in SUBSET (DOMAIN l)
      BY <3>1, FS_Interval
    <3> QED  BY <3>2, FS_Subset
  <2>3. At(longer) = IF x = s THEN At(l) \cup {n} ELSE At(l)
    <3> HIDE DEF longer, n
    <3> QED  BY <2>1
  <2>4. n \notin At(l)
    BY <2>1
  <2>5. /\ CountIn(longer, s) = Cardinality(At(longer))
        /\ CountIn(l, s) = Cardinality(At(l))
    BY DEF CountIn
  <2> HIDE DEF longer, n, At
  <2>6. CountIn(longer, s) = CountIn(l, s) + w[x]
    <3>1. Cardinality(At(l)) \in Nat
      BY <2>2, FS_CardinalityType
    <3>2. x = s => Cardinality(At(longer)) = Cardinality(At(l)) + 1
      BY <2>2, <2>3, <2>4, FS_AddElement
    <3>3. x # s => Cardinality(At(longer)) = Cardinality(At(l))
      BY <2>3
    <3> QED  BY <1>1, <2>5, <3>1, <3>2, <3>3
  <2>7. Weight(longer, w) = Weight(l, w) + w[x]
    <3>1. w \in [Solutions -> Nat]
      BY <1>1
    <3> HIDE DEF w
    <3>2. \A y \in Solutions : Weight(Append(l, y), w) = Weight(l, w) + w[y]
      BY <3>1, WeightLemma
    <3> QED  BY <3>2 DEF longer
  <2> QED  BY <1>3, <2>1, <2>6, <2>7 DEF longer
<1>4. \A l \in Seq(Solutions) : l \in T
  <2> HIDE DEF T
  <2> QED  BY <1>2, <1>3, ListInduction
<1>5. Weight(list, w) \in Nat
  <2> HIDE DEF w
  <2> QED  BY <1>1, WeightLemma
<1> QED  BY <1>4, <1>5

LEMMA CountConcat ==
    ASSUME NEW s
    PROVE  /\ CountIn(<<>>, s) = 0
           /\ \A l, m \in Seq(Solutions) : CountIn(l \o m, s) = CountIn(l, s) + CountIn(m, s)
           /\ \A l \in Seq(Solutions), x \in Solutions :
                CountIn(Append(l, x), s) = CountIn(l, s) + (IF x = s THEN 1 ELSE 0)
<1> DEFINE w == Ones(s)
<1>1. w \in [Solutions -> Nat] /\ \A x \in Solutions : w[x] = IF x = s THEN 1 ELSE 0
  BY DEF Ones
<1>2. \A l \in Seq(Solutions) : CountIn(l, s) = Weight(l, w)
  BY CountLemma
<1> HIDE DEF w
<1>3. CountIn(<<>>, s) = 0
  <2>1. <<>> \in Seq(Solutions)
    OBVIOUS
  <2> QED  BY <1>1, <1>2, <2>1, WeightLemma
<1>4. ASSUME NEW l \in Seq(Solutions), NEW m \in Seq(Solutions)
      PROVE  CountIn(l \o m, s) = CountIn(l, s) + CountIn(m, s)
  <2>1. l \o m \in Seq(Solutions)
    BY ConcatProperties
  <2>2. Weight(l \o m, w) = Weight(l, w) + Weight(m, w)
    BY <1>1, WeightConcat
  <2> QED  BY <1>2, <2>1, <2>2
<1>5. ASSUME NEW l \in Seq(Solutions), NEW x \in Solutions
      PROVE  CountIn(Append(l, x), s) = CountIn(l, s) + (IF x = s THEN 1 ELSE 0)
  <2>1. Append(l, x) \in Seq(Solutions)
    BY AppendProperties
  <2>2. Weight(Append(l, x), w) = Weight(l, w) + w[x]
    BY <1>1, WeightLemma
  <2> QED  BY <1>1, <1>2, <2>1, <2>2
<1> QED  BY <1>3, <1>4, <1>5

\* A list without repetitions holds a solution once or not at all.
LEMMA CountOnce ==
    ASSUME NEW list \in Seq(Solutions), IsInjective(list), NEW s
    PROVE  CountIn(list, s) = IF s \in ToSet(list) THEN 1 ELSE 0
<1> DEFINE At == {i \in DOMAIN list : list[i] = s}
<1>1. ASSUME s \in ToSet(list) PROVE CountIn(list, s) = 1
  <2>1. PICK i \in DOMAIN list : list[i] = s
    BY <1>1 DEF ToSet
  <2>2. At = {i}
    BY <2>1 DEF IsInjective
  <2>3. CountIn(list, s) = Cardinality(At)
    BY DEF CountIn
  <2> HIDE DEF At
  <2> QED  BY <2>2, <2>3, FS_Singleton
<1>2. ASSUME s \notin ToSet(list) PROVE CountIn(list, s) = 0
  <2>1. At = {}
    BY <1>2 DEF ToSet
  <2>2. CountIn(list, s) = Cardinality(At)
    BY DEF CountIn
  <2> HIDE DEF At
  <2> QED  BY <2>1, <2>2, FS_EmptySet
<1> QED  BY <1>1, <1>2

\* Cutting a list in three neither loses nor doubles a solution.
LEMMA CountThose ==
    ASSUME NEW list \in Seq(Solutions), NEW A, NEW B, NEW C, NEW s,
           \A x \in Solutions : \/ x \in A /\ x \notin B /\ x \notin C
                                \/ x \notin A /\ x \in B /\ x \notin C
                                \/ x \notin A /\ x \notin B /\ x \in C
    PROVE  CountIn(Those(list, A), s) + CountIn(Those(list, B), s) + CountIn(Those(list, C), s)
             = CountIn(list, s)
<1> DEFINE Parts(l) == CountIn(Those(l, A), s) + CountIn(Those(l, B), s) + CountIn(Those(l, C), s)
           T == {l \in Seq(Solutions) : Parts(l) = CountIn(l, s)}
<1>1. <<>> \in T
  <2>1. <<>> \in Seq(Solutions)
    OBVIOUS
  <2>2. \A D : CountIn(Those(<<>>, D), s) = 0
    BY <2>1, ThoseLemma, CountConcat
  <2> QED  BY <2>1, <2>2, CountConcat
<1>2. ASSUME NEW l \in Seq(Solutions), NEW x \in Solutions, l \in T
      PROVE  Append(l, x) \in T
  <2> DEFINE one == IF x = s THEN 1 ELSE 0
  <2>1. one \in Nat
    OBVIOUS
  <2>2. ASSUME NEW D
        PROVE  /\ CountIn(Those(l, D), s) \in Nat
               /\ x \in D => CountIn(Those(Append(l, x), D), s) = CountIn(Those(l, D), s) + one
               /\ x \notin D => CountIn(Those(Append(l, x), D), s) = CountIn(Those(l, D), s)
    <3> DEFINE k == Those(l, D)
    <3>1. /\ k \in Seq(Solutions)
          /\ x \in D => Those(Append(l, x), D) = Append(k, x)
          /\ x \notin D => Those(Append(l, x), D) = k
      BY ThoseLemma
    <3> HIDE DEF k
    <3>2. CountIn(Append(k, x), s) = CountIn(k, s) + one
      BY <3>1, CountConcat
    <3>3. CountIn(k, s) \in Nat
      BY <3>1, CountLemma
    <3> QED  BY <3>1, <3>2, <3>3 DEF k
  <2>3. /\ Append(l, x) \in Seq(Solutions) /\ CountIn(l, s) \in Nat
        /\ CountIn(Append(l, x), s) = CountIn(l, s) + one
    BY CountLemma, CountConcat, AppendProperties
  <2>4. Parts(l) = CountIn(l, s)
    BY <1>2
  <2> HIDE DEF one
  <2>5. Parts(Append(l, x)) = CountIn(Append(l, x), s)
    <3>1. CASE x \in A /\ x \notin B /\ x \notin C
      BY <2>1, <2>2, <2>3, <2>4, <3>1
    <3>2. CASE x \notin A /\ x \in B /\ x \notin C
      BY <2>1, <2>2, <2>3, <2>4, <3>2
    <3>3. CASE x \notin A /\ x \notin B /\ x \in C
      BY <2>1, <2>2, <2>3, <2>4, <3>3
    <3> QED  BY <3>1, <3>2, <3>3
  <2> QED  BY <2>3, <2>5
<1>3. \A l \in Seq(Solutions) : l \in T
  <2> HIDE DEF T
  <2> QED  BY <1>1, <1>2, ListInduction
<1> QED  BY <1>3

-----------------------------------------------------------------------------
(* Sending and taking a message changes a total by its weight *)

Grows(K, M, w, old, new, k, m) ==
    /\ Tables(K, M, w, old, new, k)
    /\ m \in M
    /\ new[k] = Append(old[k], m)

LEMMA TotalSent ==
    ASSUME NEW K, IsFiniteSet(K), NEW M, NEW w, NEW old, NEW new, NEW k, NEW m,
           Grows(K, M, w, old, new, k, m)
    PROVE  Total(new, w) = Total(old, w) + w[m]
<1> DEFINE p == old[k]
           n == new[k]
           x == w[m]
<1>1. /\ Tables(K, M, w, old, new, k) /\ p \in Seq(M) /\ n = Append(p, m)
      /\ w \in [M -> Nat] /\ m \in M /\ x \in Nat
  BY DEF Grows, Tables
<1>2. /\ Total(new, w) + Weight(p, w) = Total(old, w) + Weight(n, w)
      /\ Total(new, w) \in Nat /\ Total(old, w) \in Nat
  BY <1>1, TotalChanged
<1> HIDE DEF p, n
<1>3. Weight(Append(p, m), w) = Weight(p, w) + x /\ Weight(p, w) \in Nat
  BY <1>1, WeightLemma
<1> HIDE DEF x
<1>4. Weight(n, w) = Weight(p, w) + x
  BY <1>1, <1>3
<1>5. Total(new, w) = Total(old, w) + x
  <2> DEFINE after == Total(new, w)
             before == Total(old, w)
             one == Weight(p, w)
             two == Weight(n, w)
  <2>1. /\ after + one = before + two /\ two = one + x
        /\ after \in Nat /\ before \in Nat /\ one \in Nat /\ x \in Nat
    BY <1>1, <1>2, <1>3, <1>4
  <2> HIDE DEF after, before, one, two
  <2> QED  BY <2>1 DEF after, before
<1> QED  BY <1>5 DEF x

LEMMA TotalTaken ==
    ASSUME NEW K, IsFiniteSet(K), NEW M, NEW w, NEW old, NEW new, NEW k,
           Tables(K, M, w, old, new, k), old[k] # <<>>, new[k] = Tail(old[k])
    PROVE  Total(old, w) = Total(new, w) + w[Head(old[k])] /\ Head(old[k]) \in M
<1> DEFINE p == old[k]
<1>1. p \in Seq(M) /\ p # <<>> /\ w \in [M -> Nat]
  BY DEF Tables
<1>2. /\ Total(new, w) + Weight(p, w) = Total(old, w) + Weight(Tail(p), w)
      /\ Total(new, w) \in Nat /\ Total(old, w) \in Nat
  BY TotalChanged
<1> HIDE DEF p
<1>3. Tail(p) \in Seq(M) /\ Head(p) \in M
  BY <1>1, HeadTailProperties
<1>4. Weight(p, w) = w[Head(p)] + Weight(Tail(p), w)
  BY <1>1, WeightTake
<1>5. Weight(Tail(p), w) \in Nat /\ w[Head(p)] \in Nat
  BY <1>1, <1>3, WeightLemma
<1>6. Total(old, w) = Total(new, w) + w[Head(p)]
  <2> DEFINE a == Weight(p, w)
             b == Weight(Tail(p), w)
             c == w[Head(p)]
  <2>1. Total(new, w) + a = Total(old, w) + b /\ a = c + b /\ b \in Nat /\ c \in Nat
    BY <1>2, <1>4, <1>5
  <2> HIDE DEF a, b, c
  <2>2. Total(old, w) = Total(new, w) + c
    BY <1>2, <2>1
  <2> QED  BY <2>2 DEF c
<1> QED  BY <1>3, <1>6 DEF p

\* Only the weight of each queue matters.
LEMMA TotalSame ==
    ASSUME NEW K, NEW old, NEW new, DOMAIN old = K, DOMAIN new = K, NEW w,
           \A k \in K : Weight(new[k], w) = Weight(old[k], w)
    PROVE  Total(new, w) = Total(old, w)
<1>1. [k \in DOMAIN new |-> Weight(new[k], w)] = [k \in DOMAIN old |-> Weight(old[k], w)]
  OBVIOUS
<1> QED  BY <1>1 DEF Total

-----------------------------------------------------------------------------
(* What mailboxes, results and regions carry *)

Carriers(M) == \A m \in M : CarriedBy(m) \in SolutionLists

Carries(M, s) == [m \in M |-> CountIn(CarriedBy(m), s)]

Holds(s) == [list \in SolutionLists |-> CountIn(list, s)]

LEMMA SomeIds == IsFiniteSet(RegionIds) /\ IsFiniteSet(Agents)
BY MaxRegionsAssumption, NumberOfAgentsAssumption, FS_Interval DEF RegionIds, Agents

LEMMA MessagesCarry ==
    /\ Carriers(LeaderMessages) /\ Carriers(RegionMessages)
    /\ \A list \in SolutionLists : /\ CarriedBy(CreateRegion(list)) = list
                                   /\ CarriedBy(SolutionResponse(list)) = list
    /\ \A l, m \in SolutionLists : CarriedBy(RegionSplit(l, m)) = l \o m
<1>1. <<>> \in SolutionLists /\ \A l, m \in SolutionLists : l \o m \in SolutionLists
  BY ConcatProperties DEF SolutionLists
<1>2. Carriers(LeaderMessages)
  <2> SUFFICES ASSUME NEW m \in LeaderMessages PROVE CarriedBy(m) \in SolutionLists
    BY DEF Carriers
  <2>1. m.type # "RegionSplit"
    BY DEF LeaderMessages, StopSimulation
  <2>2. m.type \in {"CreateRegion", "SolutionResponse"} => m.solutions \in SolutionLists
    BY ContentsOfLeaderMessage
  <2> QED  BY <1>1, <2>1, <2>2 DEF CarriedBy
<1>3. Carriers(RegionMessages)
  <2> SUFFICES ASSUME NEW m \in RegionMessages PROVE CarriedBy(m) \in SolutionLists
    BY DEF Carriers
  <2>1. m.type \notin {"CreateRegion", "SolutionResponse"}
    BY DEF RegionMessages
  <2>2. m.type = "RegionSplit" => m.lower \in SolutionLists /\ m.higher \in SolutionLists
    BY ContentsOfRegionMessage
  <2> QED  BY <1>1, <2>1, <2>2 DEF CarriedBy
<1> QED  BY <1>2, <1>3 DEF CarriedBy, CreateRegion, SolutionResponse, RegionSplit

LEMMA MailIsTotal ==
    ASSUME NEW M, Carriers(M), NEW mails \in [RegionIds -> Seq(M)], NEW s
    PROVE  /\ Carries(M, s) \in [M -> Nat]
           /\ CountInMails(mails, s) = Total(mails, Carries(M, s))
<1> DEFINE w == Carries(M, s)
<1>1. \A m \in M : CountIn(CarriedBy(m), s) \in Nat
  BY CountLemma DEF Carriers, SolutionLists
<1>2. w \in [M -> Nat] /\ \A m \in M : w[m] = CountIn(CarriedBy(m), s)
  BY <1>1 DEF Carries
<1> HIDE DEF w
<1>3. ASSUME NEW q \in Seq(M) PROVE CountInMail(q, s) = Weight(q, w)
  <2>1. \A i \in DOMAIN q : q[i] \in M
    BY LenProperties, ElementOfSeq
  <2>2. [i \in DOMAIN q |-> CountIn(CarriedBy(q[i]), s)] = [i \in DOMAIN q |-> w[q[i]]]
    BY <1>2, <2>1
  <2> QED  BY <2>2 DEF CountInMail, Weight
<1>4. [r \in DOMAIN mails |-> CountInMail(mails[r], s)] = [r \in DOMAIN mails |-> Weight(mails[r], w)]
  BY <1>3
<1>5. CountInMails(mails, s) = Total(mails, w)
  BY <1>4 DEF CountInMails, Total
<1> QED  BY <1>2, <1>5 DEF w

LEMMA ResultsAreTotal ==
    ASSUME NEW results \in [Agents -> Seq(SolutionLists)], NEW s
    PROVE  /\ Holds(s) \in [SolutionLists -> Nat]
           /\ CountInResults(results, s) = Total(results, Holds(s))
<1> DEFINE w == Holds(s)
<1>1. w \in [SolutionLists -> Nat] /\ \A list \in SolutionLists : w[list] = CountIn(list, s)
  BY CountLemma DEF Holds, SolutionLists
<1> HIDE DEF w
<1>2. ASSUME NEW q \in Seq(SolutionLists) PROVE CountInLists(q, s) = Weight(q, w)
  <2>1. \A i \in DOMAIN q : q[i] \in SolutionLists
    BY LenProperties, ElementOfSeq
  <2>2. [i \in DOMAIN q |-> CountIn(q[i], s)] = [i \in DOMAIN q |-> w[q[i]]]
    BY <1>1, <2>1
  <2> QED  BY <2>2 DEF CountInLists, Weight
<1>3. [a \in DOMAIN results |-> CountInLists(results[a], s)]
        = [a \in DOMAIN results |-> Weight(results[a], w)]
  BY <1>2
<1>4. CountInResults(results, s) = Total(results, w)
  BY <1>3 DEF CountInResults, Total
<1> QED  BY <1>1, <1>4 DEF w

LEMMA ListsAreTotal ==
    ASSUME NEW lists \in [RegionIds -> SolutionLists], NEW s
    PROVE  /\ Ones(s) \in [Solutions -> Nat]
           /\ CountInLists(lists, s) = Total(lists, Ones(s))
<1>1. \A list \in SolutionLists : CountIn(list, s) = Weight(list, Ones(s))
  BY CountLemma DEF SolutionLists
<1>2. [r \in DOMAIN lists |-> CountIn(lists[r], s)]
        = [r \in DOMAIN lists |-> Weight(lists[r], Ones(s))]
  BY <1>1
<1> QED  BY <1>2 DEF CountInLists, Total, Ones

\* A queue of a table gets a message, or loses its first.
Sent(K, M, old, new, k, m) ==
    /\ old \in [K -> Seq(M)] /\ new \in [K -> Seq(M)] /\ k \in K /\ m \in M
    /\ new[k] = Append(old[k], m)
    /\ \A j \in K \ {k} : new[j] = old[j]

Taken(K, M, old, new, k) ==
    /\ old \in [K -> Seq(M)] /\ new \in [K -> Seq(M)] /\ k \in K
    /\ old[k] # <<>> /\ new[k] = Tail(old[k])
    /\ \A j \in K \ {k} : new[j] = old[j]

LEMMA MailsSent ==
    ASSUME NEW M, Carriers(M), NEW old, NEW new, NEW r, NEW m, Sent(RegionIds, M, old, new, r, m), NEW s
    PROVE  CountInMails(new, s) = CountInMails(old, s) + CountIn(CarriedBy(m), s)
<1> DEFINE w == Carries(M, s)
<1>1. /\ old \in [RegionIds -> Seq(M)] /\ new \in [RegionIds -> Seq(M)] /\ m \in M
      /\ new[r] = Append(old[r], m)
  BY DEF Sent
<1>2. w[m] = CountIn(CarriedBy(m), s)
  BY <1>1 DEF Carries
<1>3. w \in [M -> Nat] /\ CountInMails(new, s) = Total(new, w) /\ CountInMails(old, s) = Total(old, w)
  BY <1>1, MailIsTotal
<1> HIDE DEF w
<1>4. Grows(RegionIds, M, w, old, new, r, m)
  BY <1>3 DEF Sent, Grows, Tables
<1>5. Total(new, w) = Total(old, w) + w[m]
  BY <1>4, SomeIds, TotalSent
<1> QED  BY <1>2, <1>3, <1>5

LEMMA MailsTaken ==
    ASSUME NEW M, Carriers(M), NEW old, NEW new, NEW r, Taken(RegionIds, M, old, new, r), NEW s
    PROVE  CountInMails(old, s) = CountInMails(new, s) + CountIn(CarriedBy(Head(old[r])), s)
<1> DEFINE w == Carries(M, s)
           m == Head(old[r])
<1>1. /\ old \in [RegionIds -> Seq(M)] /\ new \in [RegionIds -> Seq(M)]
      /\ old[r] # <<>> /\ new[r] = Tail(old[r])
  BY DEF Taken
<1>2. w \in [M -> Nat] /\ CountInMails(new, s) = Total(new, w) /\ CountInMails(old, s) = Total(old, w)
  BY <1>1, MailIsTotal
<1>3. m \in M => w[m] = CountIn(CarriedBy(m), s)
  BY DEF Carries
<1> HIDE DEF w
<1>4. Tables(RegionIds, M, w, old, new, r)
  BY <1>2 DEF Taken, Tables
<1>5. Total(old, w) = Total(new, w) + w[m] /\ m \in M
  BY <1>1, <1>4, SomeIds, TotalTaken
<1> QED  BY <1>2, <1>3, <1>5

LEMMA ResultsSent ==
    ASSUME NEW old, NEW new, NEW a, NEW list, Sent(Agents, SolutionLists, old, new, a, list), NEW s
    PROVE  CountInResults(new, s) = CountInResults(old, s) + CountIn(list, s)
<1> DEFINE w == Holds(s)
<1>1. /\ old \in [Agents -> Seq(SolutionLists)] /\ new \in [Agents -> Seq(SolutionLists)]
      /\ list \in SolutionLists /\ new[a] = Append(old[a], list)
  BY DEF Sent
<1>2. w[list] = CountIn(list, s)
  BY <1>1 DEF Holds
<1>3. /\ w \in [SolutionLists -> Nat]
      /\ CountInResults(new, s) = Total(new, w) /\ CountInResults(old, s) = Total(old, w)
  BY <1>1, ResultsAreTotal
<1> HIDE DEF w
<1>4. Grows(Agents, SolutionLists, w, old, new, a, list)
  BY <1>3 DEF Sent, Grows, Tables
<1>5. Total(new, w) = Total(old, w) + w[list]
  BY <1>4, SomeIds, TotalSent
<1> QED  BY <1>2, <1>3, <1>5

LEMMA ResultsTaken ==
    ASSUME NEW old, NEW new, NEW a, Taken(Agents, SolutionLists, old, new, a), NEW s
    PROVE  CountInResults(old, s) = CountInResults(new, s) + CountIn(Head(old[a]), s)
<1> DEFINE w == Holds(s)
           list == Head(old[a])
<1>1. /\ old \in [Agents -> Seq(SolutionLists)] /\ new \in [Agents -> Seq(SolutionLists)]
      /\ old[a] # <<>> /\ new[a] = Tail(old[a])
  BY DEF Taken
<1>2. /\ w \in [SolutionLists -> Nat]
      /\ CountInResults(new, s) = Total(new, w) /\ CountInResults(old, s) = Total(old, w)
  BY <1>1, ResultsAreTotal
<1>3. list \in SolutionLists => w[list] = CountIn(list, s)
  BY DEF Holds
<1> HIDE DEF w
<1>4. Tables(Agents, SolutionLists, w, old, new, a)
  BY <1>2 DEF Taken, Tables
<1>5. Total(old, w) = Total(new, w) + w[list] /\ list \in SolutionLists
  BY <1>1, <1>4, SomeIds, TotalTaken
<1> QED  BY <1>2, <1>3, <1>5

LEMMA ListChanged ==
    ASSUME NEW old \in [RegionIds -> SolutionLists], NEW new \in [RegionIds -> SolutionLists],
           NEW r \in RegionIds, \A q \in RegionIds \ {r} : new[q] = old[q], NEW s
    PROVE  CountInLists(new, s) + CountIn(old[r], s) = CountInLists(old, s) + CountIn(new[r], s)
<1> DEFINE w == Ones(s)
<1>1. w \in [Solutions -> Nat]
  BY DEF Ones
<1>2. CountIn(old[r], s) = Weight(old[r], w) /\ CountIn(new[r], s) = Weight(new[r], w)
  BY CountLemma DEF SolutionLists
<1>3. CountInLists(new, s) = Total(new, w) /\ CountInLists(old, s) = Total(old, w)
  BY ListsAreTotal
<1> HIDE DEF w
<1>4. Tables(RegionIds, Solutions, w, old, new, r)
  BY <1>1 DEF SolutionLists, Tables
<1>5. Total(new, w) + Weight(old[r], w) = Total(old, w) + Weight(new[r], w)
  BY <1>4, SomeIds, TotalChanged
<1> QED  BY <1>2, <1>3, <1>5

\* All counts are numbers.
LEMMA CountsAreNumbers ==
    ASSUME NEW s
    PROVE  /\ \A list \in SolutionLists : CountIn(list, s) \in Nat
           /\ \A lists \in [RegionIds -> SolutionLists] : CountInLists(lists, s) \in Nat
           /\ \A box \in [RegionIds -> Seq(LeaderMessages)] : CountInMails(box, s) \in Nat
           /\ \A mail \in [RegionIds -> Seq(RegionMessages)] : CountInMails(mail, s) \in Nat
           /\ \A results \in [Agents -> Seq(SolutionLists)] : CountInResults(results, s) \in Nat
<1>1. \A list \in SolutionLists : CountIn(list, s) \in Nat
  BY CountLemma DEF SolutionLists
<1>2. ASSUME NEW lists \in [RegionIds -> SolutionLists] PROVE CountInLists(lists, s) \in Nat
  <2>1. lists \in [RegionIds -> Seq(Solutions)]
    BY DEF SolutionLists
  <2>2. Total(lists, Ones(s)) \in Nat
    BY <2>1, SomeIds, ListsAreTotal, TotalLemma
  <2> QED  BY <2>2, ListsAreTotal
<1>3. ASSUME NEW M, Carriers(M), NEW mails \in [RegionIds -> Seq(M)] PROVE CountInMails(mails, s) \in Nat
  <2>1. Total(mails, Carries(M, s)) \in Nat
    BY <1>3, SomeIds, MailIsTotal, TotalLemma
  <2> QED  BY <1>3, <2>1, MailIsTotal
<1>4. ASSUME NEW results \in [Agents -> Seq(SolutionLists)] PROVE CountInResults(results, s) \in Nat
  <2>1. Total(results, Holds(s)) \in Nat
    BY SomeIds, ResultsAreTotal, TotalLemma
  <2> QED  BY <2>1, ResultsAreTotal
<1> QED  BY <1>1, <1>2, <1>3, <1>4, MessagesCarry

\* Telling regions of global parameters moves no solutions.
LEMMA BroadcastCarriesNothing ==
    ASSUME NEW box \in [RegionIds -> Seq(LeaderMessages)], NEW ids, NEW copies \in Nat,
           NEW m \in LeaderMessages, m.type = "UpdateGlobalSummary", NEW s
    PROVE  CountInMails(Broadcast(box, ids, m, copies), s) = CountInMails(box, s)
<1> DEFINE new == Broadcast(box, ids, m, copies)
           p == CopiesOf(m, copies)
           w == Carries(LeaderMessages, s)
<1>1. Carriers(LeaderMessages)
  BY MessagesCarry
<1>2. new \in [RegionIds -> Seq(LeaderMessages)]
  BY BroadcastTyped
<1>3. \A r \in RegionIds : new[r] = IF r \in ids THEN box[r] \o p ELSE box[r]
  BY DEF Broadcast, CopiesOf
<1>4. p \in Seq(LeaderMessages) /\ \A i \in DOMAIN p : p[i] = m
  BY DEF CopiesOf
<1>5. w \in [LeaderMessages -> Nat]
  BY <1>1, MailIsTotal
<1>6. w[m] = 0
  <2>1. CarriedBy(m) = <<>>
    BY DEF CarriedBy
  <2>2. w[m] = CountIn(<<>>, s)
    BY <2>1 DEF Carries
  <2> QED  BY <2>2, CountConcat
<1> HIDE DEF new, p, w
<1>7. Weight(p, w) = 0
  BY <1>4, <1>5, <1>6, WeightOfNothing
<1>8. ASSUME NEW r \in RegionIds PROVE Weight(new[r], w) = Weight(box[r], w)
  <2>1. Weight(box[r] \o p, w) = Weight(box[r], w) + Weight(p, w)
    BY <1>4, <1>5, WeightConcat
  <2>2. Weight(box[r], w) \in Nat
    BY <1>5, WeightLemma
  <2> QED  BY <1>3, <1>7, <2>1, <2>2
<1>9. Total(new, w) = Total(box, w)
  <2>1. DOMAIN new = RegionIds /\ DOMAIN box = RegionIds
    BY <1>2
  <2> QED  BY <1>8, <2>1, TotalSame
<1>10. CountInMails(new, s) = Total(new, w) /\ CountInMails(box, s) = Total(box, w)
  BY <1>1, <1>2, MailIsTotal DEF w
<1> QED  BY <1>9, <1>10 DEF new

-----------------------------------------------------------------------------
(* How many ids are in use *)

LEMMA InjectiveLength ==
    ASSUME NEW S, NEW list \in Seq(S), IsInjective(list)
    PROVE  IsFiniteSet(ToSet(list)) /\ Cardinality(ToSet(list)) = Len(list)
<1> DEFINE T == {l \in Seq(S) : IsInjective(l) =>
                   IsFiniteSet(ToSet(l)) /\ Cardinality(ToSet(l)) = Len(l)}
<1>1. <<>> \in T
  <2>1. ToSet(<<>>) = {} /\ <<>> \in Seq(S) /\ Len(<<>>) = 0
    BY DEF ToSet
  <2> QED  BY <2>1, FS_EmptySet
<1>2. ASSUME NEW l \in Seq(S), NEW x \in S, l \in T PROVE Append(l, x) \in T
  <2> DEFINE longer == Append(l, x)
             n == Len(l) + 1
  <2>1. /\ longer \in Seq(S) /\ Len(longer) = n /\ Len(l) \in Nat
        /\ DOMAIN l = 1 .. Len(l) /\ DOMAIN longer = 1 .. n
        /\ \A i \in 1 .. Len(l) : longer[i] = l[i]
        /\ longer[n] = x
    BY AppendProperties, LenProperties
  <2>2. ToSet(longer) = ToSet(l) \cup {x}
    BY ToSetAppend
  <2> HIDE DEF longer
  <2> SUFFICES ASSUME IsInjective(longer)
               PROVE  IsFiniteSet(ToSet(longer)) /\ Cardinality(ToSet(longer)) = n
    BY <2>1 DEF longer
  <2>3. IsInjective(l)
    BY <2>1 DEF IsInjective
  <2>4. x \notin ToSet(l)
    <3>1. \A i \in DOMAIN l : i \in DOMAIN longer /\ n \in DOMAIN longer /\ i # n
      BY <2>1
    <3> QED  BY <2>1, <3>1 DEF IsInjective, ToSet
  <2>5. IsFiniteSet(ToSet(l)) /\ Cardinality(ToSet(l)) = Len(l)
    BY <1>2, <2>3
  <2> QED  BY <2>2, <2>4, <2>5, FS_AddElement
<1>3. \A l \in Seq(S) : l \in T
  <2> HIDE DEF T
  <2> QED  BY <1>1, <1>2, ListInduction
<1> QED  BY <1>3

LEMMA PoolLengths ==
    ASSUME NEW free \in Seq(RegionIds), NEW used \in Seq(RegionIds), Partition(free, used)
    PROVE  Len(free) + Len(used) = MaxRegions /\ Len(free) \in Nat /\ Len(used) \in Nat
<1> DEFINE F == ToSet(free)
           U == ToSet(used)
<1>1. /\ IsFiniteSet(F) /\ Cardinality(F) = Len(free)
      /\ IsFiniteSet(U) /\ Cardinality(U) = Len(used)
  BY InjectiveLength DEF Partition
<1>2. F \cup U = RegionIds /\ F \cap U = {}
  BY DEF Partition
<1>3. Cardinality(RegionIds) = MaxRegions
  <2>1. 0 \in Int /\ MaxRegions - 1 \in Int
    BY MaxRegionsAssumption
  <2>2. Cardinality(0 .. MaxRegions - 1) = IF 0 > MaxRegions - 1 THEN 0 ELSE MaxRegions - 1 - 0 + 1
    BY <2>1, FS_Interval
  <2> QED  BY <2>2, MaxRegionsAssumption DEF RegionIds
<1> HIDE DEF F, U
<1>4. Cardinality(F \cup U) = Cardinality(F) + Cardinality(U) - Cardinality(F \cap U)
  BY <1>1, FS_Union
<1>5. Len(free) \in Nat /\ Len(used) \in Nat
  BY LenProperties
<1>6. Cardinality(F \cap U) = 0
  BY <1>2, FS_EmptySet
<1> DEFINE f == Len(free)
           u == Len(used)
<1>7. MaxRegions = f + u - 0 /\ f \in Nat /\ u \in Nat
  BY <1>1, <1>2, <1>3, <1>4, <1>5, <1>6
<1> HIDE DEF f, u
<1>8. f + u = MaxRegions
  BY <1>7
<1> QED  BY <1>5, <1>8 DEF f, u

-----------------------------------------------------------------------------
(* Placing a list in a region conserves it while ids are left *)

\* The leader's messages of `new` carry `list` on top of those of `old`.
CarriesMore(new, old, list) ==
    \A s \in Solutions : CountInMails(new, s) = CountInMails(old, s) + CountIn(list, s)

CarriesSame(new, old) == \A s \in Solutions : CountInMails(new, s) = CountInMails(old, s)

LEMMA SendingCounts ==
    ASSUME NEW box \in [RegionIds -> Seq(LeaderMessages)], NEW id \in RegionIds,
           NEW m \in LeaderMessages
    PROVE  CarriesMore([box EXCEPT ![id] = Append(@, m)], box, CarriedBy(m))
<1> DEFINE new == [box EXCEPT ![id] = Append(@, m)]
<1>1. new \in [RegionIds -> Seq(LeaderMessages)]
  BY TableSend
<1>2. new[id] = Append(box[id], m) /\ \A j \in RegionIds \ {id} : new[j] = box[j]
  OBVIOUS
<1> HIDE DEF new
<1>3. Sent(RegionIds, LeaderMessages, box, new, id, m)
  BY <1>1, <1>2 DEF Sent
<1>4. Carriers(LeaderMessages)
  BY MessagesCarry
<1>5. CarriesMore(new, box, CarriedBy(m))
  BY <1>3, <1>4, MailsSent DEF CarriesMore
<1> QED  BY <1>5 DEF new

LEMMA CreateCounts ==
    ASSUME NEW st, IsPlace(st), SoundPool(st), st.free # <<>>, NEW list \in SolutionLists
    PROVE  LET new == CreateIn(st, list)
           IN  /\ CarriesMore(new.box, st.box, list)
               /\ new.mode = st.mode
               /\ Len(new.used) = Len(st.used) + 1
<1> DEFINE id == Head(st.free)
           m == CreateRegion(list)
           new == CreateIn(st, list)
<1>1. m \in LeaderMessages /\ CarriedBy(m) = list
  BY MessageOfLists, MessagesCarry
<1>2. id \in RegionIds
  BY TakeId DEF SoundPool
<1>3. st.box \in [RegionIds -> Seq(LeaderMessages)]
  BY DEF IsPlace, TypedPlace
<1>4. /\ new.box = [st.box EXCEPT ![id] = Append(@, m)]
      /\ new.mode = st.mode
      /\ new.used = Append(st.used, id)
  BY DEF CreateIn
<1> HIDE DEF id, m, new
<1>5. CarriesMore([st.box EXCEPT ![id] = Append(@, m)], st.box, CarriedBy(m))
  BY <1>1, <1>2, <1>3, SendingCounts
<1>6. CarriesMore(new.box, st.box, list)
  BY <1>1, <1>4, <1>5
<1>7. Len(new.used) = Len(st.used) + 1
  BY <1>2, <1>4, AppendProperties DEF SoundPool
<1> QED  BY <1>4, <1>6, <1>7 DEF new

LEMMA SendCounts ==
    ASSUME registered \subseteq RegionIds, NEW st, IsPlace(st), NEW pick, NEW list \in SolutionLists
    PROVE  LET sent == SendTo(st, pick, list)
           IN  /\ sent.used = st.used /\ sent.free = st.free
               /\ sent.mode = "up" => CarriesMore(sent.box, st.box, list)
<1> DEFINE m == SolutionResponse(list)
           sent == SendTo(st, pick, list)
<1>1. /\ st.box \in [RegionIds -> Seq(LeaderMessages)]
      /\ st = [free |-> st.free, used |-> st.used, box |-> st.box, mode |-> st.mode]
  BY DEF IsPlace, TypedPlace
<1>2. CASE pick = Spins
  <2>1. sent = [free |-> st.free, used |-> st.used, box |-> st.box, mode |-> "spinning"]
    BY <1>1, <1>2 DEF SendTo
  <2> HIDE DEF sent
  <2>2. sent.used = st.used /\ sent.free = st.free /\ sent.mode # "up"
    BY <2>1
  <2> QED  BY <2>2 DEF sent
<1>3. CASE pick # Spins /\ pick \notin registered
  <2>1. sent = [free |-> st.free, used |-> st.used, box |-> st.box, mode |-> "failed"]
    BY <1>1, <1>3 DEF SendTo
  <2> HIDE DEF sent
  <2>2. sent.used = st.used /\ sent.free = st.free /\ sent.mode # "up"
    BY <2>1
  <2> QED  BY <2>2 DEF sent
<1>4. CASE pick # Spins /\ pick \in registered
  <2>1. sent = [free |-> st.free, used |-> st.used,
                box |-> [st.box EXCEPT ![pick] = Append(@, m)], mode |-> st.mode]
    BY <1>1, <1>4 DEF SendTo
  <2>2. m \in LeaderMessages /\ CarriedBy(m) = list /\ pick \in RegionIds
    BY <1>4, MessageOfLists, MessagesCarry
  <2> HIDE DEF sent, m
  <2>3. CarriesMore([st.box EXCEPT ![pick] = Append(@, m)], st.box, CarriedBy(m))
    BY <1>1, <2>2, SendingCounts
  <2>4. sent.used = st.used /\ sent.free = st.free /\ CarriesMore(sent.box, st.box, list)
    BY <2>1, <2>2, <2>3
  <2> QED  BY <2>4 DEF sent
<1> QED  BY <1>2, <1>3, <1>4

\* Half of a split, with an id left or nothing to place.
LEMMA HalfCounts ==
    ASSUME registered \subseteq RegionIds, NEW st, IsPlace(st), SoundPool(st), st.mode = "up",
           NEW list \in SolutionLists, NEW fallback \in SolutionLists,
           NEW half \in PlaceHalf(st, list, fallback)
    PROVE  /\ Len(half.used) <= Len(st.used) + 1 /\ Len(half.used) >= Len(st.used)
           /\ st.free # <<>> => half.mode = "up" /\ CarriesMore(half.box, st.box, list)
<1>1. Len(st.used) \in Nat
  BY LenProperties DEF SoundPool
<1>2. CASE list = <<>>
  <2>1. half = st
    BY <1>2 DEF PlaceHalf
  <2>2. \A s \in Solutions : CountInMails(st.box, s) \in Nat
    BY CountsAreNumbers DEF IsPlace, TypedPlace
  <2>3. \A s \in Solutions : CountIn(list, s) = 0
    BY <1>2, CountConcat
  <2>4. CarriesMore(st.box, st.box, list)
    BY <2>2, <2>3 DEF CarriesMore
  <2> QED  BY <1>1, <2>1, <2>4
<1>3. CASE list # <<>> /\ st.free # <<>>
  <2>1. half = CreateIn(st, list)
    BY <1>3 DEF PlaceHalf
  <2> QED  BY <1>1, <1>3, <2>1, CreateCounts
<1>4. CASE list # <<>> /\ st.free = <<>>
  <2>1. PICK pick : half = SendTo(st, pick, fallback)
    BY <1>4 DEF PlaceHalf, RouletteIn
  <2>2. half.used = st.used
    BY <2>1, SendCounts
  <2> QED  BY <1>1, <1>4, <2>2
<1> QED  BY <1>2, <1>3, <1>4

Counted(st) ==
    /\ Len(st.free) \in Nat /\ Len(st.used) \in Nat
    /\ Len(st.free) + Len(st.used) = MaxRegions
    /\ st.free = <<>> <=> Len(st.free) = 0

LEMMA SoundIsCounted == \A st : SoundPool(st) => Counted(st)
BY PoolLengths, EmptySeq DEF SoundPool, Counted

LEMMA SplitCounts ==
    ASSUME IdleLeader, NEW st, IsPlace(st), SoundPool(st), st.mode = "up",
           NEW lower \in SolutionLists, NEW higher \in SolutionLists,
           NEW next \in PlaceSplit(st, lower, higher)
    PROVE  /\ Len(next.used) <= Len(st.used) + 2
           /\ next.free # <<>> => st.free # <<>>
           /\ (next.free # <<>> \/ Len(st.used) + 2 <= MaxRegions)
                => /\ next.mode = "up"
                   /\ \A s \in Solutions : CountInMails(next.box, s)
                        = CountInMails(st.box, s) + CountIn(lower, s) + CountIn(higher, s)
<1>1. PICK half \in PlaceHalf(st, lower, higher) : next \in PlaceHalf(half, higher, higher)
  BY DEF PlaceSplit
<1>2. IsPlace(half) /\ SoundPool(half) /\ registered \subseteq RegionIds
  BY <1>1, HalfTyped, HalfKeepsPool DEF IdleLeader
<1>3. SoundPool(next)
  BY <1>1, <1>2, HalfKeepsPool
<1>4. /\ Len(half.used) <= Len(st.used) + 1 /\ Len(half.used) >= Len(st.used)
      /\ st.free # <<>> => half.mode = "up" /\ CarriesMore(half.box, st.box, lower)
  BY <1>1, <1>2, HalfCounts
<1>5. half.mode = "up" =>
        /\ Len(next.used) <= Len(half.used) + 1 /\ Len(next.used) >= Len(half.used)
        /\ half.free # <<>> => next.mode = "up" /\ CarriesMore(next.box, half.box, higher)
  BY <1>1, <1>2, HalfCounts
<1>6. half.mode # "up" => next = half
  BY <1>1 DEF PlaceHalf
<1>7. Counted(st) /\ Counted(half) /\ Counted(next)
  BY <1>2, <1>3, SoundIsCounted
<1>8. Len(next.used) <= Len(st.used) + 2
  BY <1>4, <1>5, <1>6, <1>7 DEF Counted
<1>9. ASSUME next.free # <<>> \/ Len(st.used) + 2 <= MaxRegions
      PROVE  /\ next.mode = "up" /\ st.free # <<>>
             /\ CarriesMore(half.box, st.box, lower) /\ CarriesMore(next.box, half.box, higher)
  <2> DEFINE a == Len(st.free)
             b == Len(half.free)
             c == Len(next.free)
             x == Len(st.used)
             y == Len(half.used)
             z == Len(next.used)
  <2>1. /\ c # 0 \/ x + 2 <= MaxRegions
        /\ a \in Nat /\ b \in Nat /\ c \in Nat /\ x \in Nat /\ y \in Nat /\ z \in Nat
        /\ a + x = MaxRegions /\ b + y = MaxRegions /\ c + z = MaxRegions
    <3>1. a \in Nat /\ x \in Nat /\ a + x = MaxRegions
      BY <1>7 DEF Counted
    <3>2. b \in Nat /\ y \in Nat /\ b + y = MaxRegions
      BY <1>7 DEF Counted
    <3>3. c \in Nat /\ z \in Nat /\ c + z = MaxRegions 
      BY <1>7 DEF Counted
    <3>4. next.free # <<>> => c # 0
      BY <1>7 DEF Counted
    <3> HIDE DEF a, b, c, y, z
    <3> QED  BY <1>9, <3>1, <3>2, <3>3, <3>4
  <2>2. x <= y /\ y <= x + 1 /\ y <= z
    <3>1. x <= y /\ y <= x + 1
      BY <1>4, <2>1
    <3>2. y <= z
      BY <1>5, <1>6, <2>1
    <3> QED  BY <3>1, <3>2
  <2> HIDE DEF a, b, c, x, y, z
  <2>3. a # 0 /\ b # 0
    BY <2>1, <2>2, MaxRegionsAssumption
  <2>4. st.free # <<>> /\ half.free # <<>>
    BY <1>7, <2>3 DEF a, b, Counted
  <2> QED  BY <1>4, <1>5, <2>4
<1>10. \A s \in Solutions : /\ CountInMails(st.box, s) \in Nat
                            /\ CountIn(lower, s) \in Nat /\ CountIn(higher, s) \in Nat
  BY CountsAreNumbers DEF IsPlace, TypedPlace
<1> QED  BY <1>8, <1>9, <1>10 DEF CarriesMore

LEMMA ResultCounts ==
    ASSUME IdleLeader, NEW st, IsPlace(st), SoundPool(st), st.mode = "up",
           NEW list \in SolutionLists, NEW next \in PlaceResult(st, list)
    PROVE  /\ Len(next.used) = Len(st.used) \/ Len(next.used) <= MinRegions
           /\ next.free # <<>> => st.free # <<>>
           /\ next.mode = "up" => CarriesMore(next.box, st.box, list)
<1>1. /\ Len(st.free) + Len(st.used) = MaxRegions
      /\ Len(st.free) \in Nat /\ Len(st.used) \in Nat
      /\ st.free = <<>> => Len(st.free) = 0
  BY PoolLengths, EmptySeq DEF SoundPool
<1>2. CASE list = <<>>
  <2>1. next = st
    BY <1>2 DEF PlaceResult
  <2>2. \A s \in Solutions : CountInMails(st.box, s) \in Nat
    BY CountsAreNumbers DEF IsPlace, TypedPlace
  <2>3. \A s \in Solutions : CountIn(list, s) = 0
    BY <1>2, CountConcat
  <2>4. CarriesMore(st.box, st.box, list)
    BY <2>2, <2>3 DEF CarriesMore
  <2> QED  BY <2>1, <2>4
<1>3. CASE list # <<>> /\ Len(st.used) >= MinRegions
  <2>1. PICK pick : next = SendTo(st, pick, list)
    BY <1>3 DEF PlaceResult, RouletteIn
  <2> QED  BY <2>1, SendCounts DEF IdleLeader
<1>4. CASE list # <<>> /\ ~(Len(st.used) >= MinRegions)
  <2> DEFINE f == Len(st.free)
             u == Len(st.used)
  <2>0. f + u = MaxRegions /\ f \in Nat /\ u \in Nat /\ ~(u >= MinRegions)
    BY <1>1, <1>4
  <2>1. st.free # <<>> /\ u + 1 <= MinRegions
    <3> HIDE DEF f, u
    <3>1. f # 0 /\ u + 1 <= MinRegions
      BY <2>0, MaxRegionsAssumption, MinRegionsAssumption
    <3> QED  BY <1>1, <3>1 DEF f
  <2>2. next = CreateIn(st, list)
    BY <1>4, <2>1 DEF PlaceResult
  <2> QED  BY <2>1, <2>2, CreateCounts
<1> QED  BY <1>2, <1>3, <1>4

-----------------------------------------------------------------------------
(* The inductive invariant *)

SplitWeight == [m \in RegionMessages |-> IF m.type = "RegionSplit" THEN 1 ELSE 0]

\* The splits the leader has not handled yet.
Pending(mail) == Total(mail, SplitWeight)

\* A region is split off in a tick, and takes two ids at most.
IdsLeft ==
    /\ Pending(regionMail) <= ticks
    /\ Len(regionUsedIds) <= MinRegions + 2 * (ticks - Pending(regionMail))

EnoughIds == regionsIds # <<>> \/ MinRegions + 2 * ticks <= MaxRegions

Conserved == \A s \in Solutions : Copies(s) = IF s \in produced THEN 1 ELSE 0

ConservedInv == (mode = "up" /\ Undisturbed) => IdsLeft /\ (EnoughIds => Conserved)

\* What a step that moves solutions does.
Moves == IdsLeft' /\ (EnoughIds' => EnoughIds /\ \A s \in Solutions : Copies(s)' = Copies(s))

-----------------------------------------------------------------------------
(* Counting in the state *)

TypedParts(lists, box, mail, results) ==
    /\ lists \in [RegionIds -> SolutionLists]
    /\ box \in [RegionIds -> Seq(LeaderMessages)]
    /\ mail \in [RegionIds -> Seq(RegionMessages)]
    /\ results \in [Agents -> Seq(SolutionLists)]

LEMMA PartsAreTyped ==
    ASSUME CarriedTypes, CarriedTypes'
    PROVE  /\ TypedParts(solutionList, regionBox, regionMail, agentMail)
           /\ TypedParts(solutionList', regionBox', regionMail', agentMail')
BY DEF CarriedTypes, MessageTypes, WorkerTypes, TypedParts

LEMMA PartsAreNumbers ==
    ASSUME NEW lists, NEW box, NEW mail, NEW results, TypedParts(lists, box, mail, results), NEW s
    PROVE  /\ CountInLists(lists, s) \in Nat /\ CountInMails(box, s) \in Nat
           /\ CountInMails(mail, s) \in Nat /\ CountInResults(results, s) \in Nat
BY CountsAreNumbers DEF TypedParts

LEMMA PendingIsNumber ==
    ASSUME NEW mail \in [RegionIds -> Seq(RegionMessages)] PROVE Pending(mail) \in Nat
<1>1. SplitWeight \in [RegionMessages -> Nat]
  BY DEF SplitWeight
<1> QED  BY <1>1, SomeIds, TotalLemma DEF Pending

LEMMA PendingSent ==
    ASSUME NEW old, NEW new, NEW r, NEW m, Sent(RegionIds, RegionMessages, old, new, r, m)
    PROVE  /\ m.type = "RegionSplit" => Pending(new) = Pending(old) + 1
           /\ m.type # "RegionSplit" => Pending(new) = Pending(old)
<1>1. /\ SplitWeight \in [RegionMessages -> Nat] /\ m \in RegionMessages
      /\ m.type = "RegionSplit" => SplitWeight[m] = 1
      /\ m.type # "RegionSplit" => SplitWeight[m] = 0
  BY DEF SplitWeight, Sent
<1>2. Grows(RegionIds, RegionMessages, SplitWeight, old, new, r, m)
  BY <1>1 DEF Sent, Grows, Tables
<1>3. Total(new, SplitWeight) = Total(old, SplitWeight) + SplitWeight[m]
  BY <1>2, SomeIds, TotalSent
<1>4. Pending(old) \in Nat
  BY PendingIsNumber DEF Sent
<1> QED  BY <1>1, <1>3, <1>4 DEF Pending

LEMMA PendingTaken ==
    ASSUME NEW old, NEW new, NEW r, Taken(RegionIds, RegionMessages, old, new, r)
    PROVE  /\ Head(old[r]).type = "RegionSplit" => Pending(old) = Pending(new) + 1
           /\ Head(old[r]).type # "RegionSplit" => Pending(old) = Pending(new)
<1> DEFINE m == Head(old[r])
<1>1. /\ SplitWeight \in [RegionMessages -> Nat] /\ old[r] # <<>> /\ new[r] = Tail(old[r])
      /\ m \in RegionMessages => (m.type = "RegionSplit" => SplitWeight[m] = 1)
      /\ m \in RegionMessages => (m.type # "RegionSplit" => SplitWeight[m] = 0)
  BY DEF SplitWeight, Taken
<1>2. Tables(RegionIds, RegionMessages, SplitWeight, old, new, r)
  BY <1>1 DEF Taken, Tables
<1>3. Total(old, SplitWeight) = Total(new, SplitWeight) + SplitWeight[m] /\ m \in RegionMessages
  BY <1>1, <1>2, SomeIds, TotalTaken
<1>4. Pending(new) \in Nat
  BY PendingIsNumber DEF Taken
<1> HIDE DEF m
<1>5. /\ m.type = "RegionSplit" => Pending(old) = Pending(new) + 1
      /\ m.type # "RegionSplit" => Pending(old) = Pending(new)
  BY <1>1, <1>3, <1>4 DEF Pending
<1> QED  BY <1>5 DEF m

-----------------------------------------------------------------------------
(* The leader places solutions *)

LEMMA LeaderPlaces ==
    ASSUME PoolInv, CarriedTypes, LeaderIdle
    PROVE  /\ IdleLeader /\ IsPlace(LeaderState) /\ SoundPool(LeaderState) /\ LeaderState.mode = "up"
           /\ LeaderState.used = regionUsedIds /\ LeaderState.box = regionBox
           /\ LeaderState.free = regionsIds
<1>1. IsPlace(LeaderState)
  BY DEF LeaderState, IsPlace, TypedPlace, CarriedTypes, MessageTypes, LeaderIdle
<1> QED  BY <1>1, LeaderStateIsSound, IdleMeansIdle DEF LeaderIdle, LeaderState

LEMMA OnSolutionResultMoves ==
    ASSUME PoolInv, CarriedTypes, CarriedTypes', IdsLeft, NEW a \in Agents, OnSolutionResult(a),
           mode' = "up"
    PROVE  Moves /\ produced' = produced
<1> DEFINE list == Head(agentMail[a])
<1>1. /\ LeaderIdle /\ agentMail[a] # <<>> /\ agentMail' = [agentMail EXCEPT ![a] = Tail(@)]
      /\ UNCHANGED <<regionMail, solutionList, produced, ticks>>
  BY DEF OnSolutionResult, regionVars, agentVars, boundVars
<1>2. regionUsedIds \in Seq(RegionIds) /\ regionUsedIds' \in Seq(RegionIds)
  BY OnSolutionResultKeepsPool DEF PoolInv, Shape
<1>3. /\ TypedParts(solutionList, regionBox, regionMail, agentMail)
      /\ TypedParts(solutionList', regionBox', regionMail', agentMail')
  BY PartsAreTyped
<1>4. Taken(Agents, SolutionLists, agentMail, agentMail', a)
  BY <1>1, <1>3 DEF Taken, TypedParts
<1>5. list \in SolutionLists
  BY <1>1, <1>3, TableTake DEF TypedParts
<1>6. PICK st \in PlaceResult(LeaderState, list) : Becomes(st)
  BY DEF OnSolutionResult
<1>7. /\ IdleLeader /\ IsPlace(LeaderState) /\ SoundPool(LeaderState) /\ LeaderState.mode = "up"
      /\ LeaderState.used = regionUsedIds /\ LeaderState.box = regionBox
      /\ LeaderState.free = regionsIds
  BY <1>1, LeaderPlaces
<1>8. st.mode = "up" /\ st.used = regionUsedIds' /\ st.box = regionBox' /\ st.free = regionsIds'
  BY <1>6 DEF Becomes
<1> HIDE DEF list
<1>9. /\ Len(regionUsedIds') = Len(regionUsedIds) \/ Len(regionUsedIds') <= MinRegions
      /\ regionsIds' # <<>> => regionsIds # <<>>
      /\ CarriesMore(regionBox', regionBox, list)
  BY <1>5, <1>6, <1>7, <1>8, ResultCounts
<1>10. IdsLeft'
  <2>1. Pending(regionMail) \in Nat /\ ticks \in Nat
    BY <1>3, PendingIsNumber DEF TypedParts, CarriedTypes, BoundTypes
  <2> DEFINE p == Pending(regionMail)
             u == Len(regionUsedIds)
             v == Len(regionUsedIds')
  <2>2. p <= ticks /\ u <= MinRegions + 2 * (ticks - p) /\ (v = u \/ v <= MinRegions)
    BY <1>9 DEF IdsLeft
  <2>3. Pending(regionMail') = p /\ ticks' = ticks /\ p \in Nat
    BY <1>1, <2>1
  <2>4. u \in Nat /\ v \in Nat
    BY <1>2, LenProperties
  <2> HIDE DEF p, u, v
  <2>5. p <= ticks /\ v <= MinRegions + 2 * (ticks - p)
    BY <2>4, <2>1, <2>2, <2>3, MinRegionsAssumption, MaxRegionsAssumption
  <2> QED  BY <2>3, <2>5 DEF IdsLeft, v
<1>11. EnoughIds' => EnoughIds
  BY <1>1, <1>9 DEF EnoughIds
<1>12. ASSUME NEW s \in Solutions PROVE Copies(s)' = Copies(s)
  <2>1. CountInResults(agentMail, s) = CountInResults(agentMail', s) + CountIn(list, s)
    BY <1>4, ResultsTaken DEF list
  <2>2. CountInMails(regionBox', s) = CountInMails(regionBox, s) + CountIn(list, s)
    BY <1>9 DEF CarriesMore
  <2> QED  BY <1>1, <1>3, <1>5, <2>1, <2>2, PartsAreNumbers, CountsAreNumbers DEF Copies
<1> QED  BY <1>1, <1>10, <1>11, <1>12 DEF Moves

LEMMA OnRegionSplitMoves ==
    ASSUME PoolInv, CarriedTypes, CarriedTypes', IdsLeft, NEW r \in RegionIds, OnRegionSplit(r)
    PROVE  Moves /\ produced' = produced
<1> DEFINE m == Head(regionMail[r])
           lower == m.lower
           higher == m.higher
<1>1. /\ LeaderIdle /\ regionMail[r] # <<>> /\ regionMail' = [regionMail EXCEPT ![r] = Tail(@)]
      /\ m.type = "RegionSplit"
      /\ UNCHANGED <<agentMail, solutionList, produced, ticks>>
  BY DEF OnRegionSplit, Takes, regionVars, agentVars, boundVars
<1>2. regionUsedIds \in Seq(RegionIds) /\ regionUsedIds' \in Seq(RegionIds)
  BY OnRegionSplitKeepsPool DEF PoolInv, Shape
<1>3. /\ TypedParts(solutionList, regionBox, regionMail, agentMail)
      /\ TypedParts(solutionList', regionBox', regionMail', agentMail')
  BY PartsAreTyped
<1>4. Taken(RegionIds, RegionMessages, regionMail, regionMail', r)
  BY <1>1, <1>3 DEF Taken, TypedParts
<1>5. lower \in SolutionLists /\ higher \in SolutionLists /\ m \in RegionMessages
  BY <1>1, <1>3, TableTake, ContentsOfRegionMessage DEF TypedParts
<1>6. PICK st \in PlaceSplit(LeaderState, lower, higher) : Becomes(st)
  BY DEF OnRegionSplit
<1>7. /\ IdleLeader /\ IsPlace(LeaderState) /\ SoundPool(LeaderState) /\ LeaderState.mode = "up"
      /\ LeaderState.used = regionUsedIds /\ LeaderState.box = regionBox
      /\ LeaderState.free = regionsIds
  BY <1>1, LeaderPlaces
<1>8. st.mode = mode' /\ st.used = regionUsedIds' /\ st.box = regionBox' /\ st.free = regionsIds'
  BY <1>6 DEF Becomes
<1>9. Pending(regionMail) = Pending(regionMail') + 1
  BY <1>1, <1>4, PendingTaken
<1>10. \A s : CountIn(CarriedBy(m), s) = CountIn(lower, s) + CountIn(higher, s)
  BY <1>1, <1>5, CountConcat DEF CarriedBy, SolutionLists
<1> HIDE DEF m, lower, higher
<1>11. /\ Len(regionUsedIds') <= Len(regionUsedIds) + 2
       /\ regionsIds' # <<>> => regionsIds # <<>>
       /\ (regionsIds' # <<>> \/ Len(regionUsedIds) + 2 <= MaxRegions)
            => \A s \in Solutions : CountInMails(regionBox', s)
                 = CountInMails(regionBox, s) + CountIn(lower, s) + CountIn(higher, s)
  BY <1>5, <1>6, <1>7, <1>8, SplitCounts
<1> DEFINE p == Pending(regionMail')
           u == Len(regionUsedIds)
           v == Len(regionUsedIds')
<1>12. p \in Nat /\ ticks \in Nat /\ u \in Nat /\ v \in Nat
  BY <1>2, <1>3, PendingIsNumber, LenProperties DEF TypedParts, CarriedTypes, BoundTypes
<1>13. p + 1 <= ticks /\ u <= MinRegions + 2 * (ticks - (p + 1)) /\ v <= u + 2
  BY <1>9, <1>11 DEF IdsLeft
<1>14. MinRegions \in Nat /\ MaxRegions \in Nat
  BY MinRegionsAssumption, MaxRegionsAssumption
<1>15. IdsLeft'
  <2> HIDE DEF p, u, v
  <2>1. p <= ticks /\ v <= MinRegions + 2 * (ticks - p)
    BY <1>12, <1>13, <1>14
  <2> QED  BY <1>1, <2>1 DEF IdsLeft, p, v
<1>16. EnoughIds' => regionsIds' # <<>> \/ u + 2 <= MaxRegions
  <2>1. EnoughIds' => regionsIds' # <<>> \/ MinRegions + 2 * ticks <= MaxRegions
    BY <1>1 DEF EnoughIds
  <2> HIDE DEF p, u, v
  <2>2. u + 2 <= MinRegions + 2 * ticks
    BY <1>12, <1>13, <1>14
  <2> QED  BY <1>12, <1>14, <2>1, <2>2
<1>17. EnoughIds' => EnoughIds
  BY <1>1, <1>11 DEF EnoughIds
<1>18. ASSUME EnoughIds', NEW s \in Solutions PROVE Copies(s)' = Copies(s)
  <2>1. CountInMails(regionMail, s) = CountInMails(regionMail', s) + CountIn(lower, s) + CountIn(higher, s)
    <3>1. Carriers(RegionMessages)
      BY MessagesCarry
    <3>2. CountInMails(regionMail, s) = CountInMails(regionMail', s) + CountIn(CarriedBy(m), s)
      BY <1>4, <3>1, MailsTaken DEF m
    <3> QED  BY <1>3, <1>5, <1>10, <3>2, PartsAreNumbers, CountsAreNumbers
  <2>2. CountInMails(regionBox', s) = CountInMails(regionBox, s) + CountIn(lower, s) + CountIn(higher, s)
    BY <1>11, <1>16, <1>18
  <2> QED  BY <1>1, <1>3, <1>5, <2>1, <2>2, PartsAreNumbers, CountsAreNumbers DEF Copies
<1> QED  BY <1>1, <1>15, <1>17, <1>18 DEF Moves

-----------------------------------------------------------------------------
(* The other messages *)

LEMMA SameIdsLeft ==
    ASSUME IdsLeft, Pending(regionMail') = Pending(regionMail), UNCHANGED <<ticks, regionsIds, regionUsedIds>>
    PROVE  IdsLeft' /\ (EnoughIds' => EnoughIds)
BY DEF IdsLeft, EnoughIds

LEMMA OnSummaryMoves ==
    ASSUME CarriedTypes, CarriedTypes', IdsLeft, NEW r \in RegionIds,
           OnUpdateRegionSummary(r) \/ OnRegionRegister(r), frames' = <<>>
    PROVE  Moves /\ produced' = produced
<1> DEFINE m == Head(regionMail[r])
<1>1. /\ LeaderIdle /\ regionMail[r] # <<>> /\ regionMail' = [regionMail EXCEPT ![r] = Tail(@)]
      /\ m.type \notin {"RegionSplit", "CreateRegion", "SolutionResponse"}
      /\ UNCHANGED <<regionsIds, regionUsedIds, agentMail, solutionList, produced, ticks>>
  BY DEF OnUpdateRegionSummary, OnRegionRegister, Takes, regionVars, agentVars, boundVars
<1>2. /\ TypedParts(solutionList, regionBox, regionMail, agentMail)
      /\ TypedParts(solutionList', regionBox', regionMail', agentMail')
  BY PartsAreTyped
<1>3. Taken(RegionIds, RegionMessages, regionMail, regionMail', r)
  BY <1>1, <1>2 DEF Taken, TypedParts
<1>4. Pending(regionMail') = Pending(regionMail)
  BY <1>1, <1>3, PendingTaken
<1>5. PICK regions, summaries : \E copies \in Nat :
        CalculateGlobalParameters(regions, summaries, frames, copies)
  <2> DEFINE news == [regionsSummary EXCEPT ![r] = Head(regionMail[r]).summary]
  <2>1. \/ CalculateGlobalParameters(registered, news, frames, 1)
        \/ CalculateGlobalParameters(registered \cup {r}, news, frames, 2)
    BY DEF OnUpdateRegionSummary, OnRegionRegister
  <2> HIDE DEF news
  <2> QED  BY <2>1
<1>6. PICK copies \in Nat : CalculateGlobalParameters(regions, summaries, frames, copies)
  BY <1>5
<1>7. ~TimeRunsOut
  <2> SUFFICES ASSUME TimeRunsOut PROVE FALSE
    OBVIOUS
  <2> DEFINE top == [kind |-> "finish", agent |-> 0]
  <2>1. frames' = Append(<<>>, top)
    BY <1>1, <1>6 DEF CalculateGlobalParameters, LeaderIdle
  <2> HIDE DEF top
  <2> QED  BY <2>1
<1>8. CarriesSame(regionBox', regionBox)
  <2> DEFINE n == UpdateGlobalSummary(globalStatistics')
             ids == regions \cap UsedIds(regionUsedIds')
  <2>1. regionBox' = Broadcast(regionBox, ids, n, copies)
    BY <1>6, <1>7 DEF CalculateGlobalParameters
  <2>2. globalStatistics' \in Summaries \cup {NoSummary}
    BY DEF CarriedTypes, StatisticsTypes
  <2>3. n \in LeaderMessages /\ n.type = "UpdateGlobalSummary"
    BY <2>2, MessageOfGlobal DEF UpdateGlobalSummary
  <2>4. regionBox \in [RegionIds -> Seq(LeaderMessages)]
    BY <1>2 DEF TypedParts
  <2> HIDE DEF n, ids
  <2> QED  BY <2>1, <2>3, <2>4, BroadcastCarriesNothing DEF CarriesSame
<1>9. \A s \in Solutions : CountIn(CarriedBy(m), s) = 0
  BY <1>1, CountConcat DEF CarriedBy
<1>10. ASSUME NEW s \in Solutions PROVE Copies(s)' = Copies(s)
  <2>1. CountInMails(regionMail, s) = CountInMails(regionMail', s)
    <3>1. Carriers(RegionMessages)
      BY MessagesCarry
    <3>2. CountInMails(regionMail, s) = CountInMails(regionMail', s) + CountIn(CarriedBy(m), s)
      BY <1>3, <3>1, MailsTaken
    <3> QED  BY <1>2, <1>9, <3>2, PartsAreNumbers
  <2> QED  BY <1>1, <1>8, <2>1 DEF Copies, CarriesSame
<1> QED  BY <1>1, <1>4, <1>10, SameIdsLeft DEF Moves

-----------------------------------------------------------------------------
(* The regions *)

\* A region takes a message of the leader.
LEMMA BoxTaken ==
    ASSUME CarriedTypes, CarriedTypes', NEW r \in RegionIds, NEW type, Gets(r, type)
    PROVE  /\ Head(regionBox[r]) \in LeaderMessages /\ Head(regionBox[r]).type = type
           /\ \A s : CountInMails(regionBox, s)
                       = CountInMails(regionBox', s) + CountIn(CarriedBy(Head(regionBox[r])), s)
<1>1. /\ TypedParts(solutionList, regionBox, regionMail, agentMail)
      /\ TypedParts(solutionList', regionBox', regionMail', agentMail')
  BY PartsAreTyped
<1>2. /\ regionBox[r] # <<>> /\ Head(regionBox[r]).type = type
      /\ regionBox' = [regionBox EXCEPT ![r] = Tail(@)]
  BY DEF Gets
<1>3. Taken(RegionIds, LeaderMessages, regionBox, regionBox', r)
  BY <1>1, <1>2 DEF Taken, TypedParts
<1>4. Carriers(LeaderMessages)
  BY MessagesCarry
<1>5. Head(regionBox[r]) \in LeaderMessages
  BY <1>1, <1>2, TableTake DEF TypedParts
<1>6. \A s : CountInMails(regionBox, s)
               = CountInMails(regionBox', s) + CountIn(CarriedBy(Head(regionBox[r])), s)
  BY <1>3, <1>4, MailsTaken
<1> QED  BY <1>2, <1>5, <1>6

\* A region sends a message to the leader.
Mailed(mail, r, m) == [mail EXCEPT ![r] = Append(@, m)]

LEMMA ReportCounts ==
    ASSUME NEW mail \in [RegionIds -> Seq(RegionMessages)], NEW r \in RegionIds, NEW m \in RegionMessages
    PROVE  /\ Mailed(mail, r, m) \in [RegionIds -> Seq(RegionMessages)]
           /\ \A s : CountInMails(Mailed(mail, r, m), s) = CountInMails(mail, s) + CountIn(CarriedBy(m), s)
           /\ m.type = "RegionSplit" => Pending(Mailed(mail, r, m)) = Pending(mail) + 1
           /\ m.type # "RegionSplit" => Pending(Mailed(mail, r, m)) = Pending(mail)
<1> DEFINE new == Mailed(mail, r, m)
<1>1. new \in [RegionIds -> Seq(RegionMessages)]
  BY TableSend DEF Mailed
<1>2. new[r] = Append(mail[r], m) /\ \A j \in RegionIds \ {r} : new[j] = mail[j]
  BY DEF Mailed
<1> HIDE DEF new
<1>3. Sent(RegionIds, RegionMessages, mail, new, r, m)
  BY <1>1, <1>2 DEF Sent
<1>4. Carriers(RegionMessages)
  BY MessagesCarry
<1>5. \A s : CountInMails(new, s) = CountInMails(mail, s) + CountIn(CarriedBy(m), s)
  BY <1>3, <1>4, MailsSent
<1>6. /\ m.type = "RegionSplit" => Pending(new) = Pending(mail) + 1
      /\ m.type # "RegionSplit" => Pending(new) = Pending(mail)
  BY <1>3, PendingSent
<1> QED  BY <1>1, <1>5, <1>6 DEF new

\* A summary carries no solutions.
LEMMA SummaryCounts ==
    ASSUME NEW mail \in [RegionIds -> Seq(RegionMessages)], NEW r \in RegionIds,
           NEW m \in RegionMessages, m.type \in {"UpdateRegionSummary", "RegionRegister"}
    PROVE  /\ Mailed(mail, r, m) \in [RegionIds -> Seq(RegionMessages)]
           /\ \A s : CountInMails(Mailed(mail, r, m), s) = CountInMails(mail, s)
           /\ Pending(Mailed(mail, r, m)) = Pending(mail)
<1> DEFINE new == Mailed(mail, r, m)
<1>1. CarriedBy(m) = <<>> /\ m.type # "RegionSplit"
  BY DEF CarriedBy
<1>2. /\ new \in [RegionIds -> Seq(RegionMessages)]
      /\ \A s : CountInMails(new, s) = CountInMails(mail, s) + CountIn(CarriedBy(m), s)
      /\ Pending(new) = Pending(mail)
  BY <1>1, ReportCounts
<1> HIDE DEF new
<1>3. \A s : CountInMails(new, s) = CountInMails(mail, s)
  <2>1. \A s : CountIn(CarriedBy(m), s) = 0
    BY <1>1, CountConcat
  <2>2. \A s : CountInMails(mail, s) \in Nat
    BY CountsAreNumbers
  <2> QED  BY <1>2, <2>1, <2>2
<1> QED  BY <1>2, <1>3 DEF new

LEMMA OnCreateMoves ==
    ASSUME PoolInv, CarriedTypes, CarriedTypes', IdsLeft, NEW r \in RegionIds, OnCreate(r)
    PROVE  Moves /\ produced' = produced
<1> DEFINE c == Head(regionBox[r])
           list == c.solutions
           m == UpdateRegionSummary(SummaryOf(list))
           n == RegionRegister(SummaryOf(list))
           mid == Mailed(regionMail, r, m)
<1>1. /\ Gets(r, "CreateRegion")
      /\ solutionList' = [solutionList EXCEPT ![r] = list]
      /\ regionMail' = [regionMail EXCEPT ![r] = Append(Append(@, m), n)]
      /\ UNCHANGED <<regionsIds, regionUsedIds, agentMail, produced, ticks>>
  BY DEF OnCreate, leaderVars, idVars, agentVars, boundVars
<1>2. /\ TypedParts(solutionList, regionBox, regionMail, agentMail)
      /\ TypedParts(solutionList', regionBox', regionMail', agentMail')
  BY PartsAreTyped
<1>3. /\ c \in LeaderMessages /\ c.type = "CreateRegion"
      /\ \A s : CountInMails(regionBox, s) = CountInMails(regionBox', s) + CountIn(CarriedBy(c), s)
  BY <1>1, BoxTaken
<1>4. list \in SolutionLists /\ CarriedBy(c) = list
  BY <1>3, ContentsOfLeaderMessage DEF CarriedBy
<1>5. solutionList[r] = <<>>
  <2>1. ~NoneIn(regionBox[r], "CreateRegion")
    BY <1>1, Queues, TakeMessage DEF Gets
  <2> QED  BY <2>1, Zenon DEF PoolInv, IdsOwned, Owns
<1>6. m \in RegionMessages /\ n \in RegionMessages
      /\ m.type = "UpdateRegionSummary" /\ n.type = "RegionRegister"
  <2>1. SummaryOf(list) \in Summaries
    BY <1>4, SummaryOfLemma DEF SolutionLists
  <2> QED  BY <2>1, MessageOfSummaries DEF UpdateRegionSummary, RegionRegister
<1>7. regionMail \in [RegionIds -> Seq(RegionMessages)]
  BY <1>2 DEF TypedParts
<1>8. regionMail' = Mailed(mid, r, n)
  BY <1>1, <1>7 DEF Mailed
<1>9. solutionList \in [RegionIds -> SolutionLists] /\ solutionList' \in [RegionIds -> SolutionLists]
      /\ solutionList'[r] = list /\ \A q \in RegionIds \ {r} : solutionList'[q] = solutionList[q]
  BY <1>1, <1>2 DEF TypedParts
<1> HIDE DEF m, n, c, list
<1>10. /\ mid \in [RegionIds -> Seq(RegionMessages)]
       /\ \A s : CountInMails(mid, s) = CountInMails(regionMail, s)
       /\ Pending(mid) = Pending(regionMail)
  BY <1>6, <1>7, SummaryCounts
<1> HIDE DEF mid
<1>11. /\ \A s : CountInMails(regionMail', s) = CountInMails(mid, s)
       /\ Pending(regionMail') = Pending(mid)
  BY <1>6, <1>8, <1>10, SummaryCounts
<1>12. ASSUME NEW s \in Solutions PROVE Copies(s)' = Copies(s)
  <2>1. CountInLists(solutionList', s) + CountIn(solutionList[r], s)
          = CountInLists(solutionList, s) + CountIn(solutionList'[r], s)
    BY <1>9, ListChanged
  <2>2. CountIn(solutionList[r], s) = 0
    BY <1>5, CountConcat
  <2>3. CountInLists(solutionList', s) = CountInLists(solutionList, s) + CountIn(list, s)
    BY <1>2, <1>9, <2>1, <2>2, PartsAreNumbers
  <2>4. CountInMails(regionBox, s) = CountInMails(regionBox', s) + CountIn(list, s)
    BY <1>3, <1>4
  <2>5. CountInMails(regionMail', s) = CountInMails(regionMail, s)
    BY <1>10, <1>11
  <2> QED  BY <1>1, <1>2, <1>4, <2>3, <2>4, <2>5, PartsAreNumbers, CountsAreNumbers DEF Copies
<1> QED  BY <1>1, <1>10, <1>11, <1>12, SameIdsLeft DEF Moves

LEMMA OnSolutionResponseMoves ==
    ASSUME CarriedTypes, CarriedTypes', IdsLeft, NEW r \in RegionIds, OnSolutionResponse(r)
    PROVE  Moves /\ produced' = produced
<1> DEFINE c == Head(regionBox[r])
           had == solutionList[r]
           more == c.solutions
           list == had \o more
           m == UpdateRegionSummary(SummaryOf(list))
<1>1. /\ Gets(r, "SolutionResponse")
      /\ solutionList' = [solutionList EXCEPT ![r] = list]
      /\ regionMail' = Mailed(regionMail, r, m)
      /\ UNCHANGED <<regionsIds, regionUsedIds, agentMail, produced, ticks>>
  BY DEF Mailed, OnSolutionResponse, leaderVars, idVars, agentVars, boundVars
<1>2. /\ TypedParts(solutionList, regionBox, regionMail, agentMail)
      /\ TypedParts(solutionList', regionBox', regionMail', agentMail')
  BY PartsAreTyped
<1>3. /\ c \in LeaderMessages /\ c.type = "SolutionResponse"
      /\ \A s : CountInMails(regionBox, s) = CountInMails(regionBox', s) + CountIn(CarriedBy(c), s)
  BY <1>1, BoxTaken
<1>4. more \in SolutionLists /\ CarriedBy(c) = more /\ had \in SolutionLists
  BY <1>2, <1>3, ContentsOfLeaderMessage DEF CarriedBy, TypedParts
<1>5. regionMail \in [RegionIds -> Seq(RegionMessages)]
  BY <1>2 DEF TypedParts
<1>6. solutionList \in [RegionIds -> SolutionLists] /\ solutionList' \in [RegionIds -> SolutionLists]
      /\ solutionList'[r] = list /\ \A q \in RegionIds \ {r} : solutionList'[q] = solutionList[q]
  BY <1>1, <1>2 DEF TypedParts
<1> HIDE DEF c, more
<1>7. m \in RegionMessages /\ m.type = "UpdateRegionSummary"
  <2>1. list \in Seq(Solutions)
    BY <1>4, ConcatProperties DEF SolutionLists
  <2> HIDE DEF list
  <2>2. SummaryOf(list) \in Summaries
    BY <2>1, SummaryOfLemma
  <2> QED  BY <2>2, MessageOfSummaries DEF UpdateRegionSummary
<1> HIDE DEF m
<1>8. /\ \A s : CountInMails(regionMail', s) = CountInMails(regionMail, s)
      /\ Pending(regionMail') = Pending(regionMail)
  BY <1>1, <1>5, <1>7, SummaryCounts
<1>9. ASSUME NEW s \in Solutions PROVE Copies(s)' = Copies(s)
  <2>1. CountInLists(solutionList', s) + CountIn(had, s) = CountInLists(solutionList, s) + CountIn(list, s)
    <3>1. CountInLists(solutionList', s) + CountIn(solutionList[r], s)
            = CountInLists(solutionList, s) + CountIn(solutionList'[r], s)
      <4> HIDE DEF list, had
      <4> QED  BY <1>6, ListChanged
    <3> HIDE DEF list
    <3> QED  BY <1>6, <3>1
  <2>2. CountIn(list, s) = CountIn(had, s) + CountIn(more, s)
    <3> HIDE DEF had
    <3> QED  BY <1>4, CountConcat DEF SolutionLists
  <2>3. CountIn(had, s) \in Nat /\ CountIn(more, s) \in Nat
    BY <1>4, CountsAreNumbers
  <2> HIDE DEF list, had
  <2>4. CountInLists(solutionList', s) = CountInLists(solutionList, s) + CountIn(more, s)
    BY <1>2, <2>1, <2>2, <2>3, PartsAreNumbers
  <2>5. CountInMails(regionBox, s) = CountInMails(regionBox', s) + CountIn(more, s)
    BY <1>3, <1>4
  <2>6. CountInMails(regionMail', s) = CountInMails(regionMail, s)
    BY <1>8
  <2> QED  BY <1>1, <1>2, <2>3, <2>4, <2>5, <2>6, PartsAreNumbers DEF Copies
<1> QED  BY <1>1, <1>8, <1>9, SameIdsLeft DEF Moves

LEMMA OnUpdateGlobalSummaryMoves ==
    ASSUME CarriedTypes, CarriedTypes', IdsLeft, NEW r \in RegionIds, OnUpdateGlobalSummary(r)
    PROVE  Moves /\ produced' = produced
<1> DEFINE c == Head(regionBox[r])
<1>1. /\ Gets(r, "UpdateGlobalSummary")
      /\ UNCHANGED <<regionsIds, regionUsedIds, regionMail, agentMail, solutionList, produced, ticks>>
  BY DEF OnUpdateGlobalSummary, leaderVars, idVars, agentVars, boundVars
<1>2. /\ TypedParts(solutionList, regionBox, regionMail, agentMail)
      /\ TypedParts(solutionList', regionBox', regionMail', agentMail')
  BY PartsAreTyped
<1>3. /\ c.type = "UpdateGlobalSummary"
      /\ \A s : CountInMails(regionBox, s) = CountInMails(regionBox', s) + CountIn(CarriedBy(c), s)
  BY <1>1, BoxTaken
<1>4. \A s : CountIn(CarriedBy(c), s) = 0
  BY <1>3, CountConcat DEF CarriedBy
<1> HIDE DEF c
<1>5. \A s \in Solutions : CountInMails(regionBox, s) = CountInMails(regionBox', s)
  BY <1>2, <1>3, <1>4, PartsAreNumbers
<1>6. \A s \in Solutions : Copies(s)' = Copies(s)
  BY <1>1, <1>5 DEF Copies
<1> QED  BY <1>1, <1>6, SameIdsLeft DEF Moves

\* Splitting a region cuts its list in three.
LEMMA SplitConserves ==
    ASSUME NEW list \in Seq(Solutions), NEW stats \in Summaries, NEW s
    PROVE  /\ LowerSolutions(list, stats) \in SolutionLists
           /\ HigherSolutions(list, stats) \in SolutionLists
           /\ MiddleSolutions(list, stats) \in SolutionLists
           /\ CountIn(LowerSolutions(list, stats), s) + CountIn(MiddleSolutions(list, stats), s)
                + CountIn(HigherSolutions(list, stats), s) = CountIn(list, s)
<1> DEFINE A == {x \in Solutions : FarBelow(stats, FunctionValue[x])}
           B == {x \in Solutions : ~FarBelow(stats, FunctionValue[x])
                                   /\ ~FarAbove(stats, FunctionValue[x])}
           C == {x \in Solutions : FarAbove(stats, FunctionValue[x])}
<1>1. /\ LowerSolutions(list, stats) = Those(list, A)
      /\ MiddleSolutions(list, stats) = Those(list, B)
      /\ HigherSolutions(list, stats) = Those(list, C)
  BY DEF LowerSolutions, MiddleSolutions, HigherSolutions
<1>2. \A x \in Solutions : \/ x \in A /\ x \notin B /\ x \notin C
                           \/ x \notin A /\ x \in B /\ x \notin C
                           \/ x \notin A /\ x \notin B /\ x \in C
  BY OneSide
<1> HIDE DEF A, B, C
<1>3. \A D : Those(list, D) \in SolutionLists
  BY ThoseLemma DEF SolutionLists
<1>4. CountIn(Those(list, A), s) + CountIn(Those(list, B), s) + CountIn(Those(list, C), s)
        = CountIn(list, s)
  BY <1>2, CountThose
<1> QED  BY <1>1, <1>3, <1>4

LEMMA OnInternalStimulusMoves ==
    ASSUME CarriedTypes, CarriedTypes', PoolInv, IdsLeft, NEW r \in RegionIds, OnInternalStimulus(r)
    PROVE  Moves /\ produced' = produced
<1> DEFINE list == solutionList[r]
           stats == SummaryOf(list)
           split == Len(list) >= MinSolutionsToSplit
           lower == IF split THEN LowerSolutions(list, stats) ELSE <<>>
           higher == IF split THEN HigherSolutions(list, stats) ELSE <<>>
           middle == IF split THEN MiddleSolutions(list, stats) ELSE list
           m == RegionSplit(lower, higher)
<1>1. /\ TypedParts(solutionList, regionBox, regionMail, agentMail)
      /\ TypedParts(solutionList', regionBox', regionMail', agentMail')
  BY PartsAreTyped
<1>2. solutionList \in [RegionIds -> SolutionLists] /\ list \in Seq(Solutions)
  BY <1>1 DEF TypedParts, SolutionLists
<1>3. /\ solutionList'[r] = middle
      /\ \A q \in RegionIds \ {r} : solutionList'[q] = solutionList[q]
      /\ regionMail' = Mailed(regionMail, r, m)
      /\ ticks' = ticks + 1
      /\ UNCHANGED <<regionsIds, regionUsedIds, regionBox, agentMail, produced>>
  <2>1. /\ solutionList' = IF split THEN [solutionList EXCEPT ![r] = middle] ELSE solutionList
        /\ regionMail' = Mailed(regionMail, r, m)
        /\ ticks' = ticks + 1
    BY DEF OnInternalStimulus, Mailed
  <2>2. UNCHANGED <<regionsIds, regionUsedIds, regionBox, agentMail, produced>>
    BY DEF OnInternalStimulus, leaderVars, idVars, agentVars
  <2>3. ~split => middle = solutionList[r]
    OBVIOUS
  <2> HIDE DEF split, middle, m
  <2> QED  BY <1>2, <2>1, <2>2, <2>3
<1>4. lower \in SolutionLists /\ higher \in SolutionLists
  <2>1. stats \in Summaries /\ <<>> \in SolutionLists
    BY <1>2, SummaryOfLemma DEF SolutionLists
  <2> HIDE DEF list, stats
  <2> QED  BY <1>2, <2>1, SplitConserves
<1>5. ASSUME NEW s
      PROVE  CountIn(lower, s) + CountIn(middle, s) + CountIn(higher, s) = CountIn(list, s)
  <2>1. stats \in Summaries
    BY <1>2, SummaryOfLemma
  <2> HIDE DEF list, stats
  <2>2. CASE split
    BY <1>2, <2>1, <2>2, SplitConserves
  <2>3. CASE ~split
    <3>1. CountIn(<<>>, s) = 0 /\ CountIn(list, s) \in Nat
      BY <1>2, CountConcat, CountLemma
    <3> QED  BY <2>3, <3>1
  <2> QED  BY <2>2, <2>3
<1> HIDE DEF lower, higher, middle
<1>6. /\ m \in RegionMessages /\ m.type = "RegionSplit"
      /\ \A s : CountIn(CarriedBy(m), s) = CountIn(lower, s) + CountIn(higher, s)
  <2>1. CarriedBy(m) = lower \o higher
    BY <1>4, MessagesCarry
  <2>2. lower \in Seq(Solutions) /\ higher \in Seq(Solutions)
    BY <1>4 DEF SolutionLists
  <2>3. \A s : CountIn(lower \o higher, s) = CountIn(lower, s) + CountIn(higher, s)
    BY <2>2, CountConcat
  <2>4. m \in RegionMessages /\ m.type = "RegionSplit"
    BY <1>4 DEF RegionSplit, RegionMessages
  <2>5. \A s : CountIn(CarriedBy(m), s) = CountIn(lower, s) + CountIn(higher, s)
    <3> HIDE DEF m
    <3> QED  BY <2>1, <2>3
  <2> QED  BY <2>4, <2>5
<1> HIDE DEF m
<1>7. /\ Pending(regionMail') = Pending(regionMail) + 1
      /\ \A s : CountInMails(regionMail', s) = CountInMails(regionMail, s) + CountIn(CarriedBy(m), s)
  <2>1. regionMail \in [RegionIds -> Seq(RegionMessages)]
    BY <1>1 DEF TypedParts
  <2> QED  BY <1>3, <1>6, <2>1, ReportCounts
<1>8. ASSUME NEW s \in Solutions PROVE Copies(s)' = Copies(s)
  <2>1. CountInLists(solutionList', s) + CountIn(list, s) = CountInLists(solutionList, s) + CountIn(middle, s)
    <3>1. solutionList' \in [RegionIds -> SolutionLists]
      BY <1>1 DEF TypedParts
    <3>2. CountInLists(solutionList', s) + CountIn(solutionList[r], s)
            = CountInLists(solutionList, s) + CountIn(solutionList'[r], s)
      BY <1>2, <1>3, <3>1, ListChanged
    <3> QED  BY <1>3, <3>2
  <2>2. CountIn(CarriedBy(m), s) = CountIn(lower, s) + CountIn(higher, s)
    BY <1>6
  <2>3. CountInMails(regionMail', s) = CountInMails(regionMail, s) + CountIn(CarriedBy(m), s)
    BY <1>7
  <2>4. CountIn(lower, s) + CountIn(middle, s) + CountIn(higher, s) = CountIn(list, s)
    BY <1>5
  <2>5. /\ CountIn(lower, s) \in Nat /\ CountIn(higher, s) \in Nat
        /\ middle \in SolutionLists => CountIn(middle, s) \in Nat
        /\ list \in SolutionLists => CountIn(list, s) \in Nat
    BY <1>4, CountsAreNumbers
  <2>6. middle \in SolutionLists /\ list \in SolutionLists
    BY <1>1, <1>3 DEF TypedParts
  <2> HIDE DEF list
  <2>7. /\ CountInLists(solutionList, s) \in Nat /\ CountInMails(regionMail, s) \in Nat
        /\ CountInLists(solutionList', s) \in Nat
        /\ CountInMails(regionBox, s) \in Nat /\ CountInResults(agentMail, s) \in Nat
    BY <1>1, PartsAreNumbers
  <2>8. CountInLists(solutionList', s) + CountInMails(regionMail', s)
          = CountInLists(solutionList, s) + CountInMails(regionMail, s)
    BY <2>1, <2>2, <2>3, <2>4, <2>5, <2>6, <2>7
  <2>9. CountInMails(regionMail', s) \in Nat
    BY <1>1, PartsAreNumbers
  <2> QED  BY <1>3, <2>7, <2>8, <2>9 DEF Copies
<1>9. IdsLeft'
  <2> DEFINE p == Pending(regionMail)
             u == Len(regionUsedIds)
  <2>1. p \in Nat /\ ticks \in Nat
    BY <1>1, PendingIsNumber DEF TypedParts, CarriedTypes, BoundTypes
  <2>2. p <= ticks /\ u <= MinRegions + 2 * (ticks - p) /\ u \in Nat
    BY LenProperties DEF IdsLeft, PoolInv, Shape
  <2>3. Pending(regionMail') = p + 1 /\ Len(regionUsedIds') = u
    BY <1>3, <1>7
  <2> HIDE DEF p, u
  <2>4. p + 1 <= ticks + 1 /\ u <= MinRegions + 2 * ((ticks + 1) - (p + 1))
    BY <2>1, <2>2, MinRegionsAssumption, MaxRegionsAssumption
  <2> QED  BY <1>3, <2>3, <2>4 DEF IdsLeft
<1>10. EnoughIds' => EnoughIds
  <2>1. EnoughIds' => regionsIds # <<>> \/ MinRegions + 2 * (ticks + 1) <= MaxRegions
    BY <1>3 DEF EnoughIds
  <2>2. ticks \in Nat
    BY DEF CarriedTypes, BoundTypes
  <2>3. MinRegions + 2 * (ticks + 1) <= MaxRegions => MinRegions + 2 * ticks <= MaxRegions
    BY <2>2, MinRegionsAssumption, MaxRegionsAssumption
  <2> QED  BY <2>1, <2>3 DEF EnoughIds
<1> QED  BY <1>3, <1>8, <1>9, <1>10 DEF Moves

\* Nothing moves.
LEMMA UntouchedConserves ==
    ASSUME IdsLeft, UNCHANGED <<regionsIds, regionUsedIds, regionBox, regionMail, agentMail,
                                solutionList, produced, ticks>>
    PROVE  Moves /\ produced' = produced
BY SameIdsLeft DEF Moves, Copies

LEMMA MovesConserve ==
    ASSUME EnoughIds => Conserved, Moves, produced' = produced
    PROVE  IdsLeft' /\ (EnoughIds' => Conserved')
BY DEF Moves, Conserved

\* An agent finds solutions that nobody has found before, each one once.
LEMMA ProcessSolutionListConserves ==
    ASSUME CarriedTypes, CarriedTypes', IdsLeft, EnoughIds => Conserved, NEW a \in Agents,
           ProcessSolutionList(a)
    PROVE  IdsLeft' /\ (EnoughIds' => Conserved')
<1>1. PICK list \in NewLists : /\ agentMail' = [agentMail EXCEPT ![a] = Append(@, list)]
                               /\ produced' = produced \cup ToSet(list)
  BY DEF ProcessSolutionList
<1>2. UNCHANGED <<regionsIds, regionUsedIds, regionBox, regionMail, solutionList, ticks>>
  BY DEF ProcessSolutionList, leaderVars, idVars, regionVars, boundVars
<1>3. PICK n \in ResultSizes : list \in [1 .. n -> Solutions \ produced]
  BY <1>1 DEF NewLists, TupleOf
<1>4. list \in SolutionLists /\ IsInjective(list) /\ ToSet(list) \cap produced = {}
  BY <1>1, <1>3, ResultSizesAssumption DEF NewLists, SolutionLists, ToSet
<1>5. /\ TypedParts(solutionList, regionBox, regionMail, agentMail)
      /\ TypedParts(solutionList', regionBox', regionMail', agentMail')
  BY PartsAreTyped
<1>6. Sent(Agents, SolutionLists, agentMail, agentMail', a, list)
  BY <1>1, <1>4, <1>5 DEF Sent, TypedParts
<1>7. IdsLeft' /\ (EnoughIds' => EnoughIds)
  BY <1>2, SameIdsLeft
<1>8. ASSUME EnoughIds, NEW s \in Solutions
      PROVE  Copies(s)' = IF s \in produced' THEN 1 ELSE 0
  <2>1. CountInResults(agentMail', s) = CountInResults(agentMail, s) + CountIn(list, s)
    BY <1>6, ResultsSent
  <2>2. CountIn(list, s) = IF s \in ToSet(list) THEN 1 ELSE 0
    BY <1>4, CountOnce DEF SolutionLists
  <2>3. Copies(s)' = Copies(s) + CountIn(list, s)
    BY <1>2, <1>4, <1>5, <2>1, PartsAreNumbers, CountsAreNumbers DEF Copies
  <2>4. Copies(s) = IF s \in produced THEN 1 ELSE 0
    BY <1>8 DEF Conserved
  <2> QED  BY <1>1, <1>4, <2>2, <2>3, <2>4
<1> QED  BY <1>7, <1>8 DEF Conserved

LEMMA StepConserves ==
    ASSUME PoolInv, CarriedTypes, CarriedTypes', InformedInv, ConservedInv, [Next]_vars
    PROVE  ConservedInv'
<1>1. Undisturbed' => Undisturbed
  BY FinishingStep DEF InformedInv
<1> SUFFICES ASSUME mode' = "up", Undisturbed' PROVE IdsLeft' /\ (EnoughIds' => Conserved')
  BY DEF ConservedInv
<1>2. Undisturbed /\ frames = <<>> /\ frames' = <<>> /\ stoppedNotices = 0
  BY <1>1 DEF Undisturbed
<1>3. mode = "up" => IdsLeft /\ (EnoughIds => Conserved)
  BY <1>2 DEF ConservedInv
<1>4. ASSUME mode = "up", IdsLeft => Moves /\ produced' = produced
      PROVE  IdsLeft' /\ (EnoughIds' => Conserved')
  BY <1>3, <1>4, MovesConserve
<1>5. CASE LeaderHandles
  <2>1. mode = "up"
    BY <1>5 DEF LeaderHandles, OnStartSimulation, OnStopSimulation, OnSolutionResult, OnRegionSplit,
                OnUpdateRegionSummary, OnRegionRegister, Takes, LeaderIdle
  <2>2. CASE OnStartSimulation
    BY <1>4, <2>1, <2>2, UntouchedConserves DEF OnStartSimulation, idVars, regionVars, agentVars
  <2>3. CASE OnStopSimulation
    BY <1>2, <2>3 DEF OnStopSimulation
  <2>4. ASSUME NEW a \in Agents, OnSolutionResult(a)
        PROVE  IdsLeft' /\ (EnoughIds' => Conserved')
    BY <1>4, <2>1, <2>4, OnSolutionResultMoves
  <2>5. ASSUME NEW r \in RegionIds, OnRegionSplit(r)
        PROVE  IdsLeft' /\ (EnoughIds' => Conserved')
    BY <1>4, <2>1, <2>5, OnRegionSplitMoves
  <2>6. ASSUME NEW r \in RegionIds, OnUpdateRegionSummary(r) \/ OnRegionRegister(r)
        PROVE  IdsLeft' /\ (EnoughIds' => Conserved')
    BY <1>2, <1>4, <2>1, <2>6, OnSummaryMoves
  <2> QED  BY <1>5, <2>2, <2>3, <2>4, <2>5, <2>6 DEF LeaderHandles
<1>6. CASE LeaderStops
  BY <1>2, <1>6 DEF LeaderStops, StopAgent, AskRegion, AskTimesOut, OnRegionRelease, StopCompletes,
                    Terminate, Stopping, PoolInv, IdsOwned, Waiting
<1>7. ASSUME NEW r \in RegionIds, RegionHandles(r) \/ OnInternalStimulus(r)
      PROVE  IdsLeft' /\ (EnoughIds' => Conserved')
  <2>1. ~OnStopRegion(r)
    BY <1>2, NobodyStops
  <2>2. OnCreate(r) \/ OnSolutionResponse(r) \/ OnUpdateGlobalSummary(r) \/ OnInternalStimulus(r)
    BY <1>7, <2>1 DEF RegionHandles
  <2>3. mode' = mode
    BY <2>2 DEF OnCreate, OnSolutionResponse, OnUpdateGlobalSummary, OnInternalStimulus, leaderVars,
                statusVars
  <2>4. IdsLeft => Moves /\ produced' = produced
    BY <2>2, OnCreateMoves, OnSolutionResponseMoves, OnUpdateGlobalSummaryMoves,
       OnInternalStimulusMoves
  <2> QED  BY <1>4, <2>3, <2>4
<1>8. ASSUME NEW a \in Agents, AgentActs(a) PROVE IdsLeft' /\ (EnoughIds' => Conserved')
  <2>1. mode' = mode
    BY <1>8 DEF AgentActs, OnAgentStart, ProcessSolutionList, leaderVars, statusVars
  <2>2. CASE OnAgentStart(a)
    BY <1>4, <2>1, <2>2, UntouchedConserves DEF OnAgentStart, leaderVars, idVars, regionVars, boundVars
  <2>3. CASE ProcessSolutionList(a)
    BY <1>3, <2>1, <2>3, ProcessSolutionListConserves
  <2> QED  BY <1>8, <2>2, <2>3 DEF AgentActs
<1>9. CASE UNCHANGED vars
  BY <1>4, <1>9, UntouchedConserves
     DEF vars, leaderVars, idVars, statusVars, mailVars, regionVars, agentVars, boundVars
<1> QED  BY <1>5, <1>6, <1>7, <1>8, <1>9 DEF Next

\* Where there is nothing, there is no copy.
LEMMA EmptyCounts ==
    ASSUME NEW lists \in [RegionIds -> SolutionLists], \A r \in RegionIds : lists[r] = <<>>,
           NEW box \in [RegionIds -> Seq(LeaderMessages)], \A r \in RegionIds : box[r] = <<>>,
           NEW mail \in [RegionIds -> Seq(RegionMessages)], \A r \in RegionIds : mail[r] = <<>>,
           NEW results \in [Agents -> Seq(SolutionLists)], \A a \in Agents : results[a] = <<>>,
           NEW s
    PROVE  /\ CountInLists(lists, s) = 0 /\ CountInMails(box, s) = 0
           /\ CountInMails(mail, s) = 0 /\ CountInResults(results, s) = 0
<1>1. CountInLists(lists, s) = 0
  <2>1. lists \in [RegionIds -> Seq(Solutions)]
    BY DEF SolutionLists
  <2>2. Ones(s) \in [Solutions -> Nat]
    BY DEF Ones
  <2>3. Total(lists, Ones(s)) = 0
    BY <2>1, <2>2, SomeIds, TotalLemma
  <2> QED  BY <2>3, ListsAreTotal
<1>2. ASSUME NEW M, Carriers(M), NEW mails \in [RegionIds -> Seq(M)],
             \A r \in RegionIds : mails[r] = <<>>
      PROVE  CountInMails(mails, s) = 0
  <2>1. Total(mails, Carries(M, s)) = 0
    BY <1>2, SomeIds, MailIsTotal, TotalLemma
  <2> QED  BY <1>2, <2>1, MailIsTotal
<1>3. CountInResults(results, s) = 0
  <2>1. Total(results, Holds(s)) = 0
    BY SomeIds, ResultsAreTotal, TotalLemma
  <2> QED  BY <2>1, ResultsAreTotal
<1> QED  BY <1>1, <1>2, <1>3, MessagesCarry

LEMMA InitConserves == Init => ConservedInv
<1> SUFFICES ASSUME Init PROVE IdsLeft /\ Conserved
  BY DEF ConservedInv
<1>1. CarriedTypes
  BY InitTypes
<1>2. /\ solutionList \in [RegionIds -> SolutionLists] /\ regionBox \in [RegionIds -> Seq(LeaderMessages)]
      /\ regionMail \in [RegionIds -> Seq(RegionMessages)]
      /\ agentMail \in [Agents -> Seq(SolutionLists)]
  BY <1>1 DEF CarriedTypes, MessageTypes, WorkerTypes
<1>3. /\ \A r \in RegionIds : /\ solutionList[r] = <<>> /\ regionBox[r] = <<>>
                              /\ regionMail[r] = <<>>
      /\ \A a \in Agents : agentMail[a] = <<>>
      /\ produced = {} /\ ticks = 0 /\ regionUsedIds = <<>>
  BY DEF Init
<1>4. IdsLeft
  <2>1. SplitWeight \in [RegionMessages -> Nat]
    BY DEF SplitWeight
  <2>2. Pending(regionMail) = 0
    BY <1>2, <1>3, <2>1, SomeIds, TotalLemma DEF Pending
  <2>3. Len(<<>>) = 0
    OBVIOUS
  <2> QED  BY <1>3, <2>2, <2>3, MinRegionsAssumption, MaxRegionsAssumption DEF IdsLeft
<1>5. ASSUME NEW s \in Solutions PROVE Copies(s) = 0
  BY <1>2, <1>3, EmptyCounts DEF Copies
<1> QED  BY <1>3, <1>4, <1>5 DEF Conserved

LEMMA ConservedHolds == ConservedInv /\ CarriedTypes => (EnoughIds => SolutionsConserved)
<1> SUFFICES ASSUME ConservedInv, CarriedTypes, EnoughIds, mode = "up", Undisturbed,
                    NEW s \in produced
             PROVE  Copies(s) = 1
  BY DEF SolutionsConserved, Undisturbed
<1>1. s \in Solutions
  BY DEF CarriedTypes, WorkerTypes
<1> QED  BY <1>1 DEF ConservedInv, Conserved

LEMMA ConservedAlways == Spec => []ConservedInv
BY InitConserves, StepConserves, PoolAlways, TypesAlways, InformedAlways, PTL DEF Spec

(* Until somebody stops the simulation, no interleaving of results, splits *)
(* and late messages loses a solution or doubles it: each one found is     *)
(* held once, by a region or by a message (SimulationActor.onSolutionResult*)
(* and onRegionSplit, RegionActor.onInternalStimulus and its handlers).    *)
(* The hypothesis is the one the code needs: a split that finds no free id *)
(* falls back to a roulette that drops one half and doubles the other.     *)
THEOREM NoSolutionIsLost == Spec => [](EnoughIds => SolutionsConserved)
BY ConservedAlways, ConservedHolds, TypesAlways, PTL
=============================================================================
