------------------------ MODULE CocoExperimentProofs ------------------------
(***************************************************************************)
(* Theorems about the benchmarks of CoCO (CocoExperiment).                 *)
(***************************************************************************)
EXTENDS CocoExperiment, FiniteSetTheorems, TLAPS

----------------------------------------------------------------------------
(* Arithmetic of mixed radices.                                            *)

LEMMA ProductMonotone ==
  ASSUME NEW a \in Nat, NEW b \in Nat, NEW m \in Nat, a <= b
  PROVE  a * m <= b * m
  OBVIOUS

LEMMA QuotientUnique ==
  ASSUME NEW m \in Nat \ {0}, NEW q \in Nat, NEW p \in Nat,
         NEW r \in 0 .. m - 1, NEW s \in 0 .. m - 1, q * m + r = p * m + s
  PROVE  q = p /\ r = s
<1>1. ASSUME NEW u \in Nat, NEW v \in Nat, NEW x \in 0 .. m - 1, NEW y \in 0 .. m - 1,
             u * m + x = v * m + y, u < v
      PROVE  FALSE
  <2>1. (u + 1) * m <= v * m
    BY <1>1, ProductMonotone
  <2>2. (u + 1) * m = u * m + m
    OBVIOUS
  <2>. DEFINE a == u * m
              b == v * m
              c == (u + 1) * m
  <2>3. a \in Int /\ b \in Int /\ c \in Int
    OBVIOUS
  <2>4. c <= b /\ c = a + m /\ a + x = b + y
    BY <2>1, <2>2, <1>1
  <2>. HIDE DEF a, b, c
  <2>. QED
    BY <2>3, <2>4
<1>2. ~ (q < p) /\ ~ (p < q)
  BY <1>1
<1>3. q = p
  BY <1>2
<1>. QED
  BY <1>3

LEMMA DivMod ==
  ASSUME NEW m \in Nat \ {0}, NEW q \in Nat, NEW r \in 0 .. m - 1
  PROVE  (q * m + r) \div m = q /\ (q * m + r) % m = r
<1>. DEFINE a == q * m + r
<1>1. a \in Nat
  OBVIOUS
<1>2. a \div m \in Nat /\ a % m \in 0 .. m - 1 /\ a = (a \div m) * m + (a % m)
  <2>. HIDE DEF a
  <2>. QED
    BY <1>1
<1>. QED
  BY <1>2, QuotientUnique

\* Numbers written with three digits of different radices.
InRadix(nf, ni, d, f, i) == (d * nf + f) * ni + i

LEMMA MixedRadix ==
  ASSUME NEW nd \in Nat \ {0}, NEW nf \in Nat \ {0}, NEW ni \in Nat \ {0},
         NEW d \in 0 .. nd - 1, NEW f \in 0 .. nf - 1, NEW i \in 0 .. ni - 1
  PROVE  /\ InRadix(nf, ni, d, f, i) \in 0 .. nd * nf * ni - 1
         /\ nd * nf * ni \in Nat \ {0}
         /\ InRadix(nf, ni, d, f, i) \div (nf * ni) = d
         /\ (InRadix(nf, ni, d, f, i) \div ni) % nf = f
         /\ InRadix(nf, ni, d, f, i) % ni = i
<1>. DEFINE k == InRadix(nf, ni, d, f, i)
            m == nf * ni
            high == d * nf + f
            low == f * ni + i
            all == nd * nf
<1>1. high \in Nat /\ low \in Nat /\ m \in Nat \ {0} /\ all \in Nat \ {0} /\ d * nf \in Nat /\ f * ni \in Nat
  <2>1. \A a, b \in Nat : a * b \in Nat
    OBVIOUS
  <2>2. \A a, b \in Nat \ {0} : a * b # 0
    OBVIOUS
  <2>3. d * nf \in Nat /\ f * ni \in Nat /\ nf * ni \in Nat /\ nd * nf \in Nat
    BY <2>1
  <2>4. nf * ni # 0 /\ nd * nf # 0
    BY <2>2
  <2>. QED
    BY <2>3, <2>4
<1>2. k = d * m + low
  BY DEF InRadix
<1>3. low <= m - 1
  <2>1. f * ni <= (nf - 1) * ni
    BY ProductMonotone
  <2>2. (nf - 1) * ni = m - ni
    OBVIOUS
  <2>. HIDE DEF m
  <2>. QED
    BY <1>1, <2>1, <2>2
<1>4. high <= all - 1
  <2>1. d * nf <= (nd - 1) * nf
    BY ProductMonotone
  <2>2. (nd - 1) * nf = all - nf
    OBVIOUS
  <2>. HIDE DEF all
  <2>. QED
    BY <1>1, <2>1, <2>2
<1>5. k \div m = d
  <2>. HIDE DEF m, low, k
  <2>. QED
    BY <1>1, <1>2, <1>3, DivMod
<1>6. k = high * ni + i
  BY DEF InRadix
<1>7. k \div ni = high /\ k % ni = i
  <2>. HIDE DEF high, k
  <2>. QED
    BY <1>1, <1>6, DivMod
<1>8. high % nf = f
  BY DivMod
<1>9. all * ni \in Nat \ {0} /\ k \in 0 .. all * ni - 1
  <2>1. high * ni <= (all - 1) * ni
    <3>. HIDE DEF high, all
    <3>. QED
      BY <1>1, <1>4, ProductMonotone
  <2>2. (all - 1) * ni = all * ni - ni /\ all * ni \in Int /\ high * ni \in Nat
    <3>. HIDE DEF high, all
    <3>. QED
      BY <1>1
  <2>. DEFINE a == all * ni
              b == high * ni
              c == (all - 1) * ni
  <2>3. b <= c /\ c = a - ni /\ a \in Int /\ b \in Nat /\ k = b + i
    BY <2>1, <2>2, <1>6
  <2>. HIDE DEF a, b, c, k
  <2>4. a \in Nat \ {0} /\ k \in 0 .. a - 1
    BY <2>3
  <2>. QED
    BY <2>4 DEF a
<1>. QED
  BY <1>5, <1>7, <1>8, <1>9

LEMMA LastInRadix ==
  ASSUME NEW nd \in Nat \ {0}, NEW nf \in Nat \ {0}, NEW ni \in Nat \ {0}
  PROVE  InRadix(nf, ni, nd - 1, nf - 1, ni - 1) = nd * nf * ni - 1
  BY DEF InRadix

\* The three ways to the next number.
LEMMA NextInRadix ==
  ASSUME NEW nf \in Nat \ {0}, NEW ni \in Nat \ {0}, NEW d \in Nat, NEW f \in Nat, NEW i \in Nat
  PROVE  /\ InRadix(nf, ni, d, f, i + 1) = InRadix(nf, ni, d, f, i) + 1
         /\ InRadix(nf, ni, d, f + 1, 0) = InRadix(nf, ni, d, f, ni - 1) + 1
         /\ InRadix(nf, ni, d + 1, 0, 0) = InRadix(nf, ni, d, nf - 1, ni - 1) + 1
         /\ InRadix(nf, ni, 0, 0, 0) = 0
         /\ InRadix(nf, ni, d, f, i) \in Nat
  BY DEF InRadix

----------------------------------------------------------------------------
(* Least elements, and the items of a list that options left.              *)

LEMMA LeastNatural ==
  ASSUME NEW S \in SUBSET Nat, S # {}
  PROVE  /\ MinOf(S) \in S
         /\ \A j \in S : MinOf(S) <= j
<1>. DEFINE R == {ss \in Nat \X Nat : ss[1] < ss[2]}
<1>1. IsWellFoundedOn(R, Nat)
  BY NatLessThanWellFounded DEF OpToRel
<1>2. \A i, j \in S : <<j, i>> \in R <=> j < i
  OBVIOUS
<1>. HIDE DEF R
<1>3. PICK m \in S : \A j \in S : ~ (<<j, m>> \in R)
  BY <1>1, WFMin
<1>4. \A j \in S : m <= j
  <2>1. \A j \in S : ~ (j < m)
    BY <1>2, <1>3
  <2>. QED
    BY <2>1
<1>. QED
  BY <1>4 DEF MinOf

LEMMA ValidLemma ==
  ASSUME NEW items \in Seq(Nat)
  PROVE  /\ ValidIndices(items) \in SUBSET Nat
         /\ IsFiniteSet(ValidIndices(items))
         /\ Cardinality(ValidIndices(items)) \in Nat
         /\ \A k \in ValidIndices(items) :
              /\ k \in 0 .. Len(items) - 1
              /\ Item(items, k) \in Nat \ {0}
         /\ Len(items) \in Nat
         /\ HasValid(items) => Len(items) \in Nat \ {0}
<1>1. Len(items) \in Nat /\ DOMAIN items = 1 .. Len(items)
  OBVIOUS
<1>2. ValidIndices(items) \in SUBSET (0 .. Len(items) - 1)
  BY DEF ValidIndices
<1>3. IsFiniteSet(0 .. Len(items) - 1)
  BY <1>1, FS_Interval
<1>4. \A k \in ValidIndices(items) : k + 1 \in DOMAIN items /\ Item(items, k) # 0
  BY <1>1 DEF ValidIndices
<1>5. \A k \in ValidIndices(items) : Item(items, k) \in Nat
  BY <1>4 DEF Item
<1>6. IsFiniteSet(ValidIndices(items)) /\ Cardinality(ValidIndices(items)) \in Nat
  BY <1>2, <1>3, FS_Subset, FS_CardinalityType
<1>7. HasValid(items) => Len(items) \in Nat \ {0}
  BY <1>1, <1>2 DEF HasValid
<1>. QED
  BY <1>1, <1>2, <1>4, <1>5, <1>6, <1>7

\* A valid item is preceded by fewer valid items than there are.
LEMMA NumberLemma ==
  ASSUME NEW items \in Seq(Nat), NEW k \in ValidIndices(items)
  PROVE  /\ NumberBefore(items, k) \in 0 .. Cardinality(ValidIndices(items)) - 1
         /\ (\A j \in ValidIndices(items) : k <= j) => NumberBefore(items, k) = 0
         /\ (\A j \in ValidIndices(items) : j <= k)
              => NumberBefore(items, k) = Cardinality(ValidIndices(items)) - 1
<1>. DEFINE V == ValidIndices(items)
            B == {j \in V : j < k}
<1>1. IsFiniteSet(V) /\ V \in SUBSET Nat
  BY ValidLemma
<1>2. B \in SUBSET (V \ {k}) /\ k \in V
  BY <1>1
<1>3. IsFiniteSet(V \ {k}) /\ Cardinality(V \ {k}) = Cardinality(V) - 1
  BY <1>1, FS_RemoveElement
<1>4. Cardinality(B) \in Nat /\ Cardinality(B) <= Cardinality(V) - 1 /\ IsFiniteSet(B)
  BY <1>2, <1>3, FS_Subset, FS_CardinalityType
<1>5. Cardinality(V) \in Nat
  BY <1>1, FS_CardinalityType
<1>6. (\A j \in V : k <= j) => B = {}
  BY <1>1
<1>7. (\A j \in V : j <= k) => B = V \ {k}
  BY <1>1
<1>8. NumberBefore(items, k) = Cardinality(B)
  BY DEF NumberBefore
<1>9. Cardinality(B) \in 0 .. Cardinality(V) - 1
  BY <1>4, <1>5
<1>. HIDE DEF B
<1>. QED
  BY <1>3, <1>6, <1>7, <1>8, <1>9, FS_EmptySet

\* The next valid item has one more before it.
LEMMA NumberOfNext ==
  ASSUME NEW items \in Seq(Nat), NEW k \in ValidIndices(items), NEW n \in ValidIndices(items),
         k < n, \A j \in ValidIndices(items) : k < j => n <= j
  PROVE  NumberBefore(items, n) = NumberBefore(items, k) + 1
<1>. DEFINE V == ValidIndices(items)
            B == {j \in V : j < k}
<1>1. IsFiniteSet(V) /\ V \in SUBSET Nat
  BY ValidLemma
<1>2. {j \in V : j < n} = B \cup {k}
  BY <1>1
<1>3. k \notin B /\ B \in SUBSET V
  BY <1>1
<1>4. IsFiniteSet(B)
  BY <1>1, <1>3, FS_Subset
<1>5. Cardinality(B \cup {k}) = Cardinality(B) + 1
  BY <1>3, <1>4, FS_AddElement
<1>. QED
  BY <1>2, <1>5 DEF NumberBefore

LEMMA NextItemLemma ==
  ASSUME NEW items \in Seq(Nat), HasValid(items), NEW current \in ValidIndices(items) \union {-1}
  PROVE  LET next == coco_suite_is_next_item_found(items, current)
             last == Cardinality(ValidIndices(items)) - 1
         IN /\ next.at \in ValidIndices(items)
            /\ next.found \in BOOLEAN
            /\ ~ next.found =>
                 /\ current # -1
                 /\ NumberBefore(items, current) = last /\ NumberBefore(items, next.at) = 0
            /\ next.found /\ current # -1 =>
                 NumberBefore(items, next.at) = NumberBefore(items, current) + 1
            /\ current = -1 => NumberBefore(items, next.at) = 0
<1>. DEFINE V == ValidIndices(items)
            later == {k \in V : k > current}
            next == coco_suite_is_next_item_found(items, current)
<1>1. V \in SUBSET Nat /\ V # {} /\ later \in SUBSET Nat
  BY ValidLemma DEF HasValid
<1>2. MinOf(V) \in V /\ \A j \in V : MinOf(V) <= j
  BY <1>1, LeastNatural
<1>3. later # {} => MinOf(later) \in later /\ \A j \in later : MinOf(later) <= j
  BY <1>1, LeastNatural
<1>4. CASE later = {}
  <2>1. next = [found |-> FALSE, at |-> MinOf(V)]
    BY <1>4 DEF coco_suite_is_next_item_found
  <2>2. current \in V /\ current # -1 /\ \A j \in V : j <= current
    BY <1>1, <1>4
  <2>3. NumberBefore(items, current) = Cardinality(V) - 1
    BY <2>2, NumberLemma
  <2>4. NumberBefore(items, MinOf(V)) = 0
    BY <1>2, NumberLemma
  <2>. QED
    BY <1>2, <2>1, <2>2, <2>3, <2>4
<1>5. CASE later # {}
  <2>. DEFINE n == MinOf(later)
  <2>1. next = [found |-> TRUE, at |-> n]
    BY <1>5 DEF coco_suite_is_next_item_found
  <2>2. n \in V /\ current < n /\ \A j \in V : current < j => n <= j
    BY <1>3, <1>5
  <2>3. current # -1 => NumberBefore(items, n) = NumberBefore(items, current) + 1
    BY <2>2, NumberOfNext
  <2>4. current = -1 => NumberBefore(items, n) = 0
    <3>. SUFFICES ASSUME current = -1 PROVE NumberBefore(items, n) = 0
      OBVIOUS
    <3>1. \A j \in V : n <= j
      BY <1>1, <2>2
    <3>. HIDE DEF n
    <3>. QED
      BY <2>2, <3>1, NumberLemma
  <2>. QED
    BY <2>1, <2>2, <2>3, <2>4
<1>. QED
  BY <1>4, <1>5

----------------------------------------------------------------------------
(* Suites: what is made of options, and what the cursors change.           *)

SuiteNames ==
  {"toy", "bbob", "bbob-biobj", "bbob-biobj-ext", "bbob-largescale", "bbob-mixint",
   "bbob-biobj-mixint"} \union ConstrainedNames

\* The suite s with other cursors and another problem.
At(s, d, f, i, p) ==
  [suite_name |-> s.suite_name, functions |-> s.functions, dimensions |-> s.dimensions,
   instances |-> s.instances, default_instances |-> s.default_instances,
   current_dimension_idx |-> d, current_function_idx |-> f, current_instance_idx |-> i,
   current_problem |-> p]

IsSuite(s) ==
  /\ s = At(s, s.current_dimension_idx, s.current_function_idx, s.current_instance_idx,
            s.current_problem)
  /\ s.suite_name \in SuiteNames
Blank(s) == IsSuite(s) /\ s = At(s, -1, -1, -1, NoProblem)

LEMMA AtLemma ==
  ASSUME NEW s, NEW d, NEW f, NEW i, NEW p
  PROVE  /\ At(s, d, f, i, p).suite_name = s.suite_name
         /\ At(s, d, f, i, p).functions = s.functions
         /\ At(s, d, f, i, p).dimensions = s.dimensions
         /\ At(s, d, f, i, p).instances = s.instances
         /\ At(s, d, f, i, p).current_dimension_idx = d
         /\ At(s, d, f, i, p).current_function_idx = f
         /\ At(s, d, f, i, p).current_instance_idx = i
         /\ At(s, d, f, i, p).current_problem = p
         /\ s.suite_name \in SuiteNames => IsSuite(At(s, d, f, i, p))
         /\ \A e, g, j, q : At(At(s, d, f, i, p), e, g, j, q) = At(s, e, g, j, q)
  BY DEF At, IsSuite

LEMMA OpenSuites ==
  ASSUME NEW s, IsSuite(s)
  PROVE  s \notin {NoSuite, Null, Exit}
<1>1. s.suite_name \in SuiteNames
  BY DEF IsSuite
<1>2. s.suite_name \notin {"none", "NULL", "exit"}
  BY <1>1 DEF SuiteNames, ConstrainedNames
<1>. QED
  BY <1>2 DEF NoSuite, Null, Exit

LEMMA AllocatedBlank ==
  ASSUME NEW name \in SuiteNames, NEW n, NEW d, NEW i
  PROVE  Blank(coco_suite_allocate(name, n, d, i))
  BY DEF coco_suite_allocate, Blank, IsSuite, At

LEMMA InitializedBlank ==
  ASSUME NEW name
  PROVE  coco_suite_intialize(name) = Exit \/ Blank(coco_suite_intialize(name))
<1>1. CASE name = "toy"
  <2>1. coco_suite_intialize(name) = suite_toy_initialize
    BY <1>1 DEF coco_suite_intialize, ConstrainedNames
  <2>. QED
    BY <2>1, AllocatedBlank DEF suite_toy_initialize, SuiteNames
<1>2. CASE name = "bbob"
  <2>1. coco_suite_intialize(name) = suite_bbob_initialize
    BY <1>2 DEF coco_suite_intialize, ConstrainedNames
  <2>. QED
    BY <2>1, AllocatedBlank DEF suite_bbob_initialize, SuiteNames
<1>3. CASE name \in {"bbob-biobj", "bbob-biobj-ext"}
  <2>1. coco_suite_intialize(name) = suite_biobj_initialize(name)
    BY <1>3 DEF coco_suite_intialize, ConstrainedNames
  <2>2. name \in SuiteNames
    BY <1>3 DEF SuiteNames
  <2>. QED
    BY <2>1, <2>2, AllocatedBlank DEF suite_biobj_initialize
<1>4. CASE name = "bbob-largescale"
  <2>1. coco_suite_intialize(name) = suite_largescale_initialize
    BY <1>4 DEF coco_suite_intialize, ConstrainedNames
  <2>. QED
    BY <2>1, AllocatedBlank DEF suite_largescale_initialize, SuiteNames
<1>5. CASE name \in ConstrainedNames
  <2>1. coco_suite_intialize(name) = suite_cons_bbob_initialize(name)
    BY <1>5 DEF coco_suite_intialize, ConstrainedNames
  <2>2. name \in SuiteNames
    BY <1>5 DEF SuiteNames
  <2>. QED
    BY <2>1, <2>2, AllocatedBlank DEF suite_cons_bbob_initialize
<1>6. CASE name = "bbob-mixint"
  <2>1. coco_suite_intialize(name) = suite_bbob_mixint_initialize(name)
    BY <1>6 DEF coco_suite_intialize, ConstrainedNames
  <2>2. name \in SuiteNames
    BY <1>6 DEF SuiteNames
  <2>. QED
    BY <2>1, <2>2, AllocatedBlank DEF suite_bbob_mixint_initialize
<1>7. CASE name = "bbob-biobj-mixint"
  <2>1. coco_suite_intialize(name) = suite_biobj_mixint_initialize
    BY <1>7 DEF coco_suite_intialize, ConstrainedNames
  <2>. QED
    BY <2>1, AllocatedBlank DEF suite_biobj_mixint_initialize, SuiteNames
<1>8. CASE name \notin SuiteNames
  BY <1>8 DEF coco_suite_intialize, SuiteNames
<1>. QED
  BY <1>1, <1>2, <1>3, <1>4, <1>5, <1>6, <1>7, <1>8 DEF SuiteNames

LEMMA InstancesBlank ==
  ASSUME NEW s, Blank(s), NEW instance
  PROVE  WithInstances(s, instance) = Exit \/ Blank(WithInstances(s, instance))
<1>1. ASSUME NEW x PROVE Blank([s EXCEPT !.instances = x])
  BY DEF Blank, IsSuite, At
<1>2. ASSUME NEW numbers
      PROVE  coco_suite_set_instance(s, numbers) = Exit \/ Blank(coco_suite_set_instance(s, numbers))
  BY <1>1 DEF coco_suite_set_instance
<1>. QED
  BY <1>2 DEF WithInstances

LEMMA LeftBlank ==
  ASSUME NEW s, Blank(s), NEW options
  PROVE  Blank(SuiteLeft(s, options))
<1>. DEFINE Made(x, y, z) == [s EXCEPT !.functions = x, !.instances = y, !.dimensions = z]
<1>1. ASSUME NEW x, NEW y, NEW z PROVE Blank(Made(x, y, z))
  <2>. DEFINE w == [suite_name |-> s.suite_name, functions |-> x, dimensions |-> z,
                    instances |-> y, default_instances |-> s.default_instances,
                    current_dimension_idx |-> -1, current_function_idx |-> -1,
                    current_instance_idx |-> -1, current_problem |-> NoProblem]
  <2>1. s = At(s, -1, -1, -1, NoProblem) /\ s.suite_name \in SuiteNames
    BY DEF Blank, IsSuite
  <2>. DEFINE r(a, b, c) ==
                [suite_name |-> s.suite_name, functions |-> a, dimensions |-> c,
                 instances |-> b, default_instances |-> s.default_instances,
                 current_dimension_idx |-> -1, current_function_idx |-> -1,
                 current_instance_idx |-> -1, current_problem |-> NoProblem]
  <2>2. Made(x, y, z) = w
    <3>. DEFINE F(t) == [t EXCEPT !.functions = x]
                I(t) == [t EXCEPT !.instances = y]
                D(t) == [t EXCEPT !.dimensions = z]
    <3>1. s = r(s.functions, s.instances, s.dimensions)
      BY <2>1 DEF At
    <3>2. Made(x, y, z) = D(I(F(s)))
      OBVIOUS
    <3>3. \A a, b, c : F(r(a, b, c)) = r(x, b, c)
      OBVIOUS
    <3>4. \A a, b, c : I(r(a, b, c)) = r(a, y, c)
      OBVIOUS
    <3>5. \A a, b, c : D(r(a, b, c)) = r(a, b, z)
      OBVIOUS
    <3>6. w = r(x, y, z)
      OBVIOUS
    <3>. HIDE DEF r, w, Made, F, I, D
    <3>. QED
      BY <3>1, <3>2, <3>3, <3>4, <3>5, <3>6
  <2>3. Blank(w)
    BY <2>1 DEF Blank, IsSuite, At
  <2>. QED
    BY <2>2, <2>3
<1>2. \E x, y, z : SuiteLeft(s, options) = Made(x, y, z)
  BY DEF SuiteLeft
<1>. HIDE DEF Made
<1>. QED
  BY <1>1, <1>2

LEMMA NextInstanceLemma ==
  ASSUME NEW s, NEW d, NEW f, NEW i, NEW p
  PROVE  LET next == coco_suite_is_next_item_found(s.instances, i)
             moved == coco_suite_is_next_instance_found(At(s, d, f, i, p))
         IN moved.found = next.found /\ moved.suite = At(s, d, f, next.at, p)
  BY DEF coco_suite_is_next_instance_found, At

LEMMA NextFunctionLemma ==
  ASSUME NEW s, NEW d, NEW f, NEW i, NEW p
  PROVE  LET next == coco_suite_is_next_item_found(s.functions, f)
             back == coco_suite_is_next_item_found(s.instances, -1)
             moved == coco_suite_is_next_function_found(At(s, d, f, i, p))
         IN /\ moved.found = next.found
            /\ next.found => moved.suite = At(s, d, next.at, i, p)
            /\ ~ next.found => moved.suite = At(s, d, next.at, back.at, p)
<1>. DEFINE next == coco_suite_is_next_item_found(s.functions, f)
            back == coco_suite_is_next_item_found(s.instances, -1)
            t == At(s, d, f, i, p)
            moved == coco_suite_is_next_function_found(t)
<1>1. next = coco_suite_is_next_item_found(t.functions, t.current_function_idx)
  BY AtLemma
<1>2. [t EXCEPT !.current_function_idx = next.at] = At(s, d, next.at, i, p)
  BY DEF At
<1>3. [At(s, d, next.at, i, p) EXCEPT !.current_instance_idx = -1] = At(s, d, next.at, -1, p)
  BY DEF At
<1>4. coco_suite_is_next_instance_found(At(s, d, next.at, -1, p)).suite = At(s, d, next.at, back.at, p)
  BY NextInstanceLemma
<1>. HIDE DEF t, next, back
<1>5. moved = [found |-> next.found,
               suite |-> IF next.found THEN At(s, d, next.at, i, p)
                         ELSE At(s, d, next.at, back.at, p)]
  BY <1>1, <1>2, <1>3, <1>4 DEF coco_suite_is_next_function_found
<1>6. moved.found = next.found
  BY <1>5
<1>7. next.found => moved.suite = At(s, d, next.at, i, p)
  BY <1>5
<1>8. ~ next.found => moved.suite = At(s, d, next.at, back.at, p)
  BY <1>5
<1>. QED
  BY <1>6, <1>7, <1>8 DEF t, next, back

LEMMA NextDimensionLemma ==
  ASSUME NEW s, NEW d, NEW f, NEW i, NEW p
  PROVE  LET next == coco_suite_is_next_item_found(s.dimensions, d)
             moved == coco_suite_is_next_dimension_found(At(s, d, f, i, p))
         IN moved.found = next.found /\ moved.suite = At(s, next.at, f, i, p)
  BY DEF coco_suite_is_next_dimension_found, At

\* What a suite is when it is made: at its first function and dimension,
\* before the first instance, with no problem.
Fresh(s) ==
  /\ IsSuite(s)
  /\ s = At(s, coco_suite_is_next_item_found(s.dimensions, -1).at,
            coco_suite_is_next_item_found(s.functions, -1).at, -1, NoProblem)

LEMMA FirstProblemLemma ==
  ASSUME NEW t, Blank(t),
         t.functions \in Seq(Nat), HasValid(t.functions),
         t.dimensions \in Seq(Nat), HasValid(t.dimensions)
  PROVE  /\ Fresh(AtFirstProblem(t))
         /\ AtFirstProblem(t).functions = t.functions
         /\ AtFirstProblem(t).dimensions = t.dimensions
<1>. DEFINE f == coco_suite_is_next_item_found(t.functions, -1)
            d == coco_suite_is_next_item_found(t.dimensions, -1)
            u == At(t, -1, f.at, -1, NoProblem)
            v == At(t, d.at, f.at, -1, NoProblem)
<1>1. t = At(t, -1, -1, -1, NoProblem) /\ t.suite_name \in SuiteNames
  BY DEF Blank, IsSuite
<1>2. f.found
  BY NextItemLemma
<1>3. coco_suite_is_next_function_found(At(t, -1, -1, -1, NoProblem)).suite = u
  <2>1. f.found => coco_suite_is_next_function_found(At(t, -1, -1, -1, NoProblem)).suite = u
    BY NextFunctionLemma
  <2>. QED
    BY <1>2, <2>1
<1>4. coco_suite_is_next_dimension_found(u).suite = v
  BY NextDimensionLemma
<1>5. AtFirstProblem(t) = v
  BY <1>1, <1>3, <1>4 DEF AtFirstProblem
<1>6. v.functions = t.functions /\ v.dimensions = t.dimensions /\ IsSuite(v)
  BY <1>1, AtLemma
<1>7. v = At(v, d.at, f.at, -1, NoProblem)
  BY AtLemma
<1>. QED
  BY <1>5, <1>6, <1>7 DEF Fresh

\* A plan that is read as wanted and makes a suite makes a fresh one.
LEMMA FreshSuite ==
  ASSUME NEW p, ReadAsWanted(SuiteOfPlan(p), p)
  PROVE  SuiteOfPlan(p) \in {Null, Exit} \/ Fresh(SuiteOfPlan(p))
<1>. DEFINE s == SuiteOfPlan(p)
            t == coco_suite_intialize(p.name)
            u == WithInstances(t, p.instance)
            v == SuiteLeft(u, p.options)
<1>. SUFFICES ASSUME s \notin {Null, Exit} PROVE Fresh(s)
  OBVIOUS
<1>1. t # Exit /\ s = SuiteOf(u, p.options)
  BY DEF SuiteOfPlan, coco_suite
<1>2. Blank(t)
  BY <1>1, InitializedBlank
<1>3. u # Exit /\ s = AtFirstProblem(v)
  BY <1>1 DEF SuiteOf
<1>4. Blank(u)
  BY <1>2, <1>3, InstancesBlank
<1>5. Blank(v)
  BY <1>4, LeftBlank
<1>6. HasValid(v.functions) /\ HasValid(v.dimensions)
  BY <1>3 DEF AtFirstProblem
<1>7. s.functions = v.functions /\ s.dimensions = v.dimensions
  <2>. HIDE DEF v, s
  <2>. DEFINE f == coco_suite_is_next_item_found(v.functions, -1)
              back == coco_suite_is_next_item_found(v.instances, -1)
              d == coco_suite_is_next_item_found(v.dimensions, -1)
  <2>1. v = At(v, -1, -1, -1, NoProblem)
    BY <1>5 DEF Blank
  <2>2. \E i : coco_suite_is_next_function_found(v).suite = At(v, -1, f.at, i, NoProblem)
    BY <2>1, NextFunctionLemma
  <2>3. \E i : s = At(v, d.at, f.at, i, NoProblem)
    BY <1>3, <1>6, <2>2, NextDimensionLemma DEF AtFirstProblem
  <2>. QED
    BY <2>3, AtLemma
<1>8. Leaves(s.functions, p.wants.functions) /\ Leaves(s.dimensions, p.wants.dimensions)
  BY DEF ReadAsWanted
<1>9. v.functions \in Seq(Nat) /\ v.dimensions \in Seq(Nat)
  BY <1>7, <1>8 DEF Leaves
<1>. HIDE DEF v, s
<1>. QED
  BY <1>3, <1>5, <1>6, <1>9, FirstProblemLemma

----------------------------------------------------------------------------
(* The cursors go through the problems of a suite in their order.          *)

IsList(items) == items \in Seq(Nat) /\ HasValid(items)
HasLists(s) == IsList(s.functions) /\ IsList(s.dimensions) /\ IsList(s.instances)
Count(items) == Cardinality(ValidIndices(items))
NumberOfProblems(s) == Count(s.dimensions) * Count(s.functions) * Count(s.instances)

\* The number of a combination of valid items among all of them.
Place(s, d, f, i) ==
  InRadix(Count(s.functions), Count(s.instances), NumberBefore(s.dimensions, d),
          NumberBefore(s.functions, f), NumberBefore(s.instances, i))

\* The cursors d, f and i of s are at the place reached after h problems;
\* before the first one the last cursor is at no instance.
Placed(s, d, f, i, h) ==
  /\ d \in ValidIndices(s.dimensions) /\ f \in ValidIndices(s.functions)
  /\ \/ /\ i = -1 /\ h = 0
        /\ NumberBefore(s.dimensions, d) = 0 /\ NumberBefore(s.functions, f) = 0
     \/ /\ i \in ValidIndices(s.instances)
        /\ h = Place(s, d, f, i) + 1

LEMMA CountLemma ==
  ASSUME NEW items, IsList(items)
  PROVE  Count(items) \in Nat \ {0}
<1>1. IsFiniteSet(ValidIndices(items)) /\ ValidIndices(items) # {}
  BY ValidLemma DEF IsList, HasValid
<1>. QED
  BY <1>1, FS_CardinalityType, FS_EmptySet DEF Count

LEMMA NumberRange ==
  ASSUME NEW items, IsList(items), NEW k \in ValidIndices(items)
  PROVE  NumberBefore(items, k) \in 0 .. Count(items) - 1
  BY NumberLemma DEF IsList, Count

LEMMA PlaceLemma ==
  ASSUME NEW s, HasLists(s), NEW d \in ValidIndices(s.dimensions),
         NEW f \in ValidIndices(s.functions), NEW i \in ValidIndices(s.instances)
  PROVE  /\ Place(s, d, f, i) \in 0 .. NumberOfProblems(s) - 1
         /\ NumberOfProblems(s) \in Nat \ {0}
<1>. DEFINE D == NumberBefore(s.dimensions, d)
            F == NumberBefore(s.functions, f)
            I == NumberBefore(s.instances, i)
            cf == Count(s.functions)
            ci == Count(s.instances)
            cd == Count(s.dimensions)
<1>1. cd \in Nat \ {0} /\ cf \in Nat \ {0} /\ ci \in Nat \ {0}
  BY CountLemma DEF HasLists
<1>2. D \in 0 .. cd - 1 /\ F \in 0 .. cf - 1 /\ I \in 0 .. ci - 1
  BY NumberRange DEF HasLists
<1>3. Place(s, d, f, i) = InRadix(cf, ci, D, F, I) /\ NumberOfProblems(s) = cd * cf * ci
  BY DEF Place, NumberOfProblems
<1>. HIDE DEF D, F, I, cd, cf, ci
<1>4. InRadix(cf, ci, D, F, I) \in 0 .. cd * cf * ci - 1 /\ cd * cf * ci \in Nat \ {0}
  BY <1>1, <1>2, MixedRadix
<1>. QED
  BY <1>3, <1>4

\* What a move of the cursors comes to.
Moves(s, d, f, i, e, g, j, found) ==
  /\ e \in ValidIndices(s.dimensions) /\ g \in ValidIndices(s.functions)
  /\ j \in ValidIndices(s.instances)
  /\ \A h : Placed(s, d, f, i, h) =>
       IF found THEN Placed(s, e, g, j, h + 1) ELSE h = NumberOfProblems(s)

LEMMA AdvancedLemma ==
  ASSUME NEW s, HasLists(s), NEW p,
         NEW d \in ValidIndices(s.dimensions), NEW f \in ValidIndices(s.functions),
         NEW i \in ValidIndices(s.instances) \union {-1}
  PROVE  LET next == Advanced(At(s, d, f, i, p))
         IN \E e, g, j : next.suite = At(s, e, g, j, p) /\ Moves(s, d, f, i, e, g, j, next.found)
<1>. DEFINE ni == coco_suite_is_next_item_found(s.instances, i)
            first == coco_suite_is_next_item_found(s.instances, -1)
            nf == coco_suite_is_next_item_found(s.functions, f)
            nd == coco_suite_is_next_item_found(s.dimensions, d)
            ti == coco_suite_is_next_instance_found(At(s, d, f, i, p))
            tf == coco_suite_is_next_function_found(ti.suite)
            td == coco_suite_is_next_dimension_found(tf.suite)
            next == Advanced(At(s, d, f, i, p))
            D == NumberBefore(s.dimensions, d)
            F == NumberBefore(s.functions, f)
            I == NumberBefore(s.instances, i)
            cf == Count(s.functions)
            ci == Count(s.instances)
            cd == Count(s.dimensions)
<1>. SUFFICES \E e, g, j : /\ next.suite = At(s, e, g, j, p)
                           /\ Moves(s, d, f, i, e, g, j, next.found)
  OBVIOUS
<1>1. ti.found = ni.found /\ ti.suite = At(s, d, f, ni.at, p)
  BY NextInstanceLemma
<1>2. /\ tf.found = nf.found
      /\ nf.found => tf.suite = At(s, d, nf.at, ni.at, p)
      /\ ~ nf.found => tf.suite = At(s, d, nf.at, first.at, p)
  <2>. HIDE DEF ni, nf, first, ti
  <2>. QED
    BY <1>1, NextFunctionLemma DEF nf, first
<1>3. ~ nf.found => td.found = nd.found /\ td.suite = At(s, nd.at, nf.at, first.at, p)
  <2>. HIDE DEF ni, nf, first, tf
  <2>. QED
    BY <1>2, NextDimensionLemma
<1>4. next = IF ni.found THEN ti ELSE IF nf.found THEN tf ELSE td
  <2>1. next = IF ti.found THEN ti ELSE IF tf.found THEN tf ELSE td
    BY DEF Advanced
  <2>. QED
    BY <1>1, <1>2, <2>1
<1>5. /\ IsList(s.dimensions) /\ IsList(s.functions) /\ IsList(s.instances)
      /\ s.dimensions \in Seq(Nat) /\ s.functions \in Seq(Nat) /\ s.instances \in Seq(Nat)
      /\ HasValid(s.dimensions) /\ HasValid(s.functions) /\ HasValid(s.instances)
  BY DEF HasLists, IsList
<1>6. /\ cd \in Nat \ {0} /\ cf \in Nat \ {0} /\ ci \in Nat \ {0}
      /\ D \in 0 .. cd - 1 /\ F \in 0 .. cf - 1
      /\ i # -1 => I \in 0 .. ci - 1
  BY <1>5, CountLemma, NumberRange
<1>7. /\ ni.at \in ValidIndices(s.instances)
      /\ ~ ni.found => i # -1 /\ I = ci - 1 /\ NumberBefore(s.instances, ni.at) = 0
      /\ ni.found /\ i # -1 => NumberBefore(s.instances, ni.at) = I + 1
      /\ i = -1 => NumberBefore(s.instances, ni.at) = 0
  BY <1>5, NextItemLemma DEF Count
<1>8. first.at \in ValidIndices(s.instances) /\ NumberBefore(s.instances, first.at) = 0
  BY <1>5, NextItemLemma
<1>9. f # -1 /\ d # -1
  <2>1. ValidIndices(s.functions) \in SUBSET Nat /\ ValidIndices(s.dimensions) \in SUBSET Nat
    BY <1>5, ValidLemma
  <2>2. f \in Nat /\ d \in Nat
    BY <2>1
  <2>. QED
    BY <2>2
<1>10. /\ nf.at \in ValidIndices(s.functions)
       /\ ~ nf.found => F = cf - 1 /\ NumberBefore(s.functions, nf.at) = 0
       /\ nf.found => NumberBefore(s.functions, nf.at) = F + 1
  BY <1>5, <1>9, NextItemLemma DEF Count
<1>11. /\ nd.at \in ValidIndices(s.dimensions)
       /\ ~ nd.found => D = cd - 1 /\ NumberBefore(s.dimensions, nd.at) = 0
       /\ nd.found => NumberBefore(s.dimensions, nd.at) = D + 1
  BY <1>5, <1>9, NextItemLemma DEF Count
<1>. HIDE DEF ni, first, nf, nd, ti, tf, td, next
<1>12. ASSUME NEW h, Placed(s, d, f, i, h), i # -1
       PROVE  h = InRadix(cf, ci, D, F, I) + 1 /\ h \in Nat
  <2>1. h = InRadix(cf, ci, D, F, I) + 1
    BY <1>12 DEF Placed, Place
  <2>. HIDE DEF D, F, I, cf, ci
  <2>. QED
    BY <2>1, <1>6, <1>12, NextInRadix
<1>13. CASE ni.found
  <2>1. next.suite = At(s, d, f, ni.at, p) /\ next.found = ni.found
    BY <1>1, <1>4, <1>13
  <2>2. ASSUME NEW h, Placed(s, d, f, i, h) PROVE Placed(s, d, f, ni.at, h + 1)
    <3>1. CASE i = -1
      <4>1. h = 0 /\ D = 0 /\ F = 0 /\ NumberBefore(s.instances, ni.at) = 0
        BY <2>2, <3>1, <1>5, <1>7, ValidLemma DEF Placed
      <4>2. Place(s, d, f, ni.at) = InRadix(cf, ci, 0, 0, 0)
        BY <4>1 DEF Place
      <4>3. Place(s, d, f, ni.at) = 0
        <5>. HIDE DEF cf, ci
        <5>. QED
          BY <4>2, <1>6, NextInRadix
      <4>. QED
        BY <4>1, <4>3, <1>7 DEF Placed
    <3>2. CASE i # -1
      <4>1. Place(s, d, f, ni.at) = InRadix(cf, ci, D, F, I + 1)
        BY <1>7, <1>13, <3>2 DEF Place
      <4>2. Place(s, d, f, ni.at) = h
        <5>. HIDE DEF D, F, I, cf, ci
        <5>. QED
          BY <4>1, <3>2, <2>2, <1>6, <1>12, NextInRadix
      <4>. QED
        BY <4>2, <1>7 DEF Placed
    <3>. QED
      BY <3>1, <3>2
  <2>3. Moves(s, d, f, i, d, f, ni.at, next.found)
    BY <2>1, <2>2, <1>7, <1>13 DEF Moves
  <2>. QED
    BY <2>1, <2>3
<1>14. CASE ~ ni.found /\ nf.found
  <2>1. next.suite = At(s, d, nf.at, ni.at, p) /\ next.found = nf.found
    BY <1>1, <1>2, <1>4, <1>14
  <2>2. ASSUME NEW h, Placed(s, d, f, i, h) PROVE Placed(s, d, nf.at, ni.at, h + 1)
    <3>1. i # -1 /\ I = ci - 1
      BY <1>7, <1>14
    <3>2. Place(s, d, nf.at, ni.at) = InRadix(cf, ci, D, F + 1, 0)
      BY <1>7, <1>10, <1>14 DEF Place
    <3>3. Place(s, d, nf.at, ni.at) = h
      <4>. HIDE DEF D, F, I, cf, ci
      <4>. QED
        BY <2>2, <3>1, <3>2, <1>6, <1>12, NextInRadix
    <3>. QED
      BY <3>3, <1>7, <1>10 DEF Placed
  <2>3. Moves(s, d, f, i, d, nf.at, ni.at, next.found)
    BY <2>1, <2>2, <1>7, <1>10, <1>14 DEF Moves
  <2>. QED
    BY <2>1, <2>3
<1>15. CASE ~ ni.found /\ ~ nf.found
  <2>1. next.suite = At(s, nd.at, nf.at, first.at, p) /\ next.found = nd.found
    BY <1>3, <1>4, <1>15
  <2>2. i # -1 /\ I = ci - 1 /\ F = cf - 1
    BY <1>7, <1>10, <1>15
  <2>3. ASSUME NEW h, Placed(s, d, f, i, h), nd.found PROVE Placed(s, nd.at, nf.at, first.at, h + 1)
    <3>2. Place(s, nd.at, nf.at, first.at) = InRadix(cf, ci, D + 1, 0, 0)
      BY <1>8, <1>10, <1>11, <1>15, <2>3 DEF Place
    <3>3. Place(s, nd.at, nf.at, first.at) = h
      <4>. HIDE DEF D, F, I, cf, ci
      <4>. QED
        BY <2>2, <2>3, <3>2, <1>6, <1>12, NextInRadix
    <3>. QED
      BY <3>3, <1>8, <1>10, <1>11 DEF Placed
  <2>4. ASSUME NEW h, Placed(s, d, f, i, h), ~ nd.found PROVE h = NumberOfProblems(s)
    <3>1. D = cd - 1
      BY <1>11, <2>4
    <3>2. h = InRadix(cf, ci, D, F, I) + 1
      BY <2>2, <2>4, <1>12
    <3>3. I \in 0 .. ci - 1
      BY <1>6, <2>2
    <3>4. InRadix(cf, ci, D, F, I) = cd * cf * ci - 1 /\ cd * cf * ci \in Nat \ {0}
      <4>1. cd \in Nat \ {0} /\ cf \in Nat \ {0} /\ ci \in Nat \ {0}
        BY <1>6
      <4>2. D \in 0 .. cd - 1 /\ F \in 0 .. cf - 1
        BY <1>6
      <4>. HIDE DEF D, F, I, cf, ci, cd
      <4>3. InRadix(cf, ci, cd - 1, cf - 1, ci - 1) = cd * cf * ci - 1
        BY <4>1, LastInRadix
      <4>4. cd * cf * ci \in Nat \ {0}
        BY <3>3, <4>1, <4>2, MixedRadix
      <4>. QED
        BY <2>2, <3>1, <4>3, <4>4
    <3>. DEFINE n == cd * cf * ci
    <3>5. n = NumberOfProblems(s)
      BY DEF NumberOfProblems
    <3>6. n \in Nat \ {0} /\ h = (n - 1) + 1
      BY <3>2, <3>4
    <3>. HIDE DEF n
    <3>. QED
      BY <3>5, <3>6
  <2>5. Moves(s, d, f, i, nd.at, nf.at, first.at, next.found)
    BY <2>1, <2>3, <2>4, <1>8, <1>10, <1>11 DEF Moves
  <2>. QED
    BY <2>1, <2>5
<1>. QED
  BY <1>13, <1>14, <1>15

\* Suites of plans that are read as wanted have what is wanted.
LeavesAll(s, w) ==
  /\ Leaves(s.functions, w.functions)
  /\ Leaves(s.dimensions, w.dimensions)
  /\ Leaves(s.instances, w.instances)

LEMMA AgendaLemma ==
  ASSUME NEW s, NEW p, LeavesAll(s, p.wants)
  PROVE  /\ HasLists(s)
         /\ Len(PlanAgenda(p)) = NumberOfProblems(s)
         /\ PlanAgenda(p) # << >>
         /\ \A d \in ValidIndices(s.dimensions), f \in ValidIndices(s.functions),
               i \in ValidIndices(s.instances) :
              PlanAgenda(p)[Place(s, d, f, i) + 1]
                = <<Item(s.dimensions, d), Item(s.functions, f), Item(s.instances, i)>>
<1>. DEFINE w == p.wants
            nd == Len(w.dimensions)
            nf == Len(w.functions)
            ni == Len(w.instances)
            Entry(k) == <<w.dimensions[((k - 1) \div (nf * ni)) + 1],
                          w.functions[(((k - 1) \div ni) % nf) + 1],
                          w.instances[((k - 1) % ni) + 1]>>
            n == NumberOfProblems(s)
<1>1. HasLists(s)
  BY DEF LeavesAll, Leaves, HasLists, IsList
<1>2. nd = Count(s.dimensions) /\ nf = Count(s.functions) /\ ni = Count(s.instances)
  BY DEF LeavesAll, Leaves, Count
<1>3. nd \in Nat \ {0} /\ nf \in Nat \ {0} /\ ni \in Nat \ {0}
  BY <1>1, <1>2, CountLemma DEF HasLists
<1>4. nd * nf * ni = n
  BY <1>2 DEF NumberOfProblems
<1>5. n \in Nat \ {0}
  <2>1. \E d, f, i : /\ d \in ValidIndices(s.dimensions) /\ f \in ValidIndices(s.functions)
                     /\ i \in ValidIndices(s.instances)
    BY <1>1 DEF HasLists, IsList, HasValid
  <2>. QED
    BY <1>1, <2>1, PlaceLemma
<1>6. PlanAgenda(p) = [k \in 1 .. n |-> Entry(k)]
  BY <1>4 DEF PlanAgenda
<1>7. Len(PlanAgenda(p)) = n /\ PlanAgenda(p) # << >>
  <2>1. PlanAgenda(p) \in Seq({Entry(k) : k \in 1 .. n})
    <3>. HIDE DEF Entry
    <3>. QED
      BY <1>5, <1>6
  <2>2. DOMAIN PlanAgenda(p) = 1 .. n
    BY <1>6
  <2>. HIDE DEF Entry, n
  <2>3. Len(PlanAgenda(p)) = n
    BY <1>5, <2>1, <2>2
  <2>. QED
    BY <1>5, <2>3
<1>8. ASSUME NEW d \in ValidIndices(s.dimensions), NEW f \in ValidIndices(s.functions),
             NEW i \in ValidIndices(s.instances)
      PROVE  PlanAgenda(p)[Place(s, d, f, i) + 1]
               = <<Item(s.dimensions, d), Item(s.functions, f), Item(s.instances, i)>>
  <2>. DEFINE D == NumberBefore(s.dimensions, d)
              F == NumberBefore(s.functions, f)
              I == NumberBefore(s.instances, i)
              k == Place(s, d, f, i)
  <2>1. k \in 0 .. n - 1
    BY <1>1, PlaceLemma
  <2>2. D \in 0 .. nd - 1 /\ F \in 0 .. nf - 1 /\ I \in 0 .. ni - 1
    BY <1>1, <1>2, NumberRange DEF HasLists
  <2>3. k = InRadix(nf, ni, D, F, I)
    <3>1. k = InRadix(Count(s.functions), Count(s.instances), D, F, I)
      BY DEF Place
    <3>2. Count(s.functions) = nf /\ Count(s.instances) = ni
      BY <1>2
    <3>. HIDE DEF nf, ni, D, F, I, k
    <3>. QED
      BY <3>1, <3>2
  <2>4. k \div (nf * ni) = D /\ (k \div ni) % nf = F /\ k % ni = I
    <3>. HIDE DEF nd, nf, ni, D, F, I, k
    <3>. DEFINE r == InRadix(nf, ni, D, F, I)
    <3>1. r \div (nf * ni) = D /\ (r \div ni) % nf = F /\ r % ni = I
      BY <2>2, <1>3, MixedRadix
    <3>2. k = r
      BY <2>3
    <3>. HIDE DEF r
    <3>. QED
      BY <3>1, <3>2
  <2>5. /\ w.dimensions[D + 1] = Item(s.dimensions, d)
        /\ w.functions[F + 1] = Item(s.functions, f)
        /\ w.instances[I + 1] = Item(s.instances, i)
    BY DEF LeavesAll, Leaves
  <2>6. k + 1 \in 1 .. n /\ (k + 1) - 1 = k
    <3>. HIDE DEF n, k
    <3>. QED
      BY <1>5, <2>1
  <2>7. PlanAgenda(p)[k + 1] = Entry(k + 1)
    <3>. HIDE DEF n, k, Entry
    <3>. QED
      BY <1>6, <2>6
  <2>8. Entry(k + 1) = <<w.dimensions[D + 1], w.functions[F + 1], w.instances[I + 1]>>
    <3>. HIDE DEF k, D, F, I, nd, nf, ni
    <3>. QED
      BY <2>4, <2>6
  <2>. QED
    BY <2>5, <2>7, <2>8
<1>. QED
  BY <1>1, <1>7, <1>8

\* A problem of a suite is made of valid items.
LEMMA ProblemLemma ==
  ASSUME NEW s, HasLists(s), NEW d \in ValidIndices(s.dimensions),
         NEW f \in ValidIndices(s.functions), NEW i \in ValidIndices(s.instances)
  PROVE  /\ coco_suite_get_problem_from_indices(s, f, d, i) = suite_get_problem(s, f, d, i)
         /\ suite_get_problem(s, f, d, i) # NoProblem
         /\ Triple(suite_get_problem(s, f, d, i))
              = <<Item(s.dimensions, d), Item(s.functions, f), Item(s.instances, i)>>
<1>1. Item(s.dimensions, d) # 0 /\ Item(s.functions, f) # 0 /\ Item(s.instances, i) # 0
  BY ValidLemma DEF HasLists, IsList
<1>2. suite_get_problem(s, f, d, i).function # 0
  BY <1>1 DEF suite_get_problem
<1>3. suite_get_problem(s, f, d, i) # NoProblem
  BY <1>2 DEF NoProblem
<1>4. Triple(suite_get_problem(s, f, d, i))
        = <<Item(s.dimensions, d), Item(s.functions, f), Item(s.instances, i)>>
  BY <1>3 DEF Triple, suite_get_problem
<1>. QED
  BY <1>1, <1>3, <1>4 DEF coco_suite_get_problem_from_indices

\* Problems do not depend on cursors.
LEMMA SameProblem ==
  ASSUME NEW s, NEW d, NEW f, NEW i, NEW p, NEW e, NEW g, NEW j
  PROVE  suite_get_problem(At(s, d, f, i, p), g, e, j) = suite_get_problem(s, g, e, j)
<1>1. /\ At(s, d, f, i, p).suite_name = s.suite_name
      /\ At(s, d, f, i, p).functions = s.functions
      /\ At(s, d, f, i, p).dimensions = s.dimensions
      /\ At(s, d, f, i, p).instances = s.instances
  BY AtLemma
<1>. QED
  BY <1>1 DEF suite_get_problem, coco_suite_encode_problem_index

----------------------------------------------------------------------------
(* The suite of a benchmark.                                               *)

ProblemsOf(s) ==
  {NoProblem} \union {suite_get_problem(s, f, d, i) :
    f \in ValidIndices(s.functions), d \in ValidIndices(s.dimensions), i \in ValidIndices(s.instances)}

\* t is the suite s after h problems, unless it has said that none is left.
Underway(s, t, h, ended) ==
  /\ t = At(s, t.current_dimension_idx, t.current_function_idx, t.current_instance_idx,
            t.current_problem)
  /\ t.current_problem \in ProblemsOf(s)
  /\ t.current_dimension_idx \in ValidIndices(s.dimensions)
  /\ t.current_function_idx \in ValidIndices(s.functions)
  /\ t.current_instance_idx \in ValidIndices(s.instances) \union {-1}
  /\ ~ ended => Placed(s, t.current_dimension_idx, t.current_function_idx,
                       t.current_instance_idx, h)

SuiteInv ==
  /\ programme \in Programmes
  /\ experiments \in 0 .. Len(programme)
  /\ suite = NoSuite => handed = 0
  /\ suite # NoSuite => experiments # 0
  /\ suite \in {Null, Exit} => suite = SuiteOfPlan(plan) /\ ~ over /\ handed = 0
  /\ IsOpen => /\ Fresh(SuiteOfPlan(plan))
               /\ Underway(SuiteOfPlan(plan), suite, handed, over)

LEMMA FreshUnderway ==
  ASSUME NEW s, Fresh(s), HasLists(s)
  PROVE  Underway(s, s, 0, FALSE) /\ s.current_problem = NoProblem
<1>. DEFINE d == coco_suite_is_next_item_found(s.dimensions, -1)
            f == coco_suite_is_next_item_found(s.functions, -1)
<1>1. s = At(s, d.at, f.at, -1, NoProblem)
  BY DEF Fresh
<1>2. /\ d.at \in ValidIndices(s.dimensions) /\ NumberBefore(s.dimensions, d.at) = 0
      /\ f.at \in ValidIndices(s.functions) /\ NumberBefore(s.functions, f.at) = 0
  BY NextItemLemma DEF HasLists, IsList
<1>. HIDE DEF d, f
<1>3. /\ s.current_dimension_idx = d.at /\ s.current_function_idx = f.at
      /\ s.current_instance_idx = -1 /\ s.current_problem = NoProblem
  BY <1>1, AtLemma
<1>4. Placed(s, d.at, f.at, -1, 0)
  BY <1>2 DEF Placed
<1>. QED
  BY <1>1, <1>2, <1>3, <1>4 DEF Underway, ProblemsOf

LEMMA PlanLemma ==
  ASSUME PlansAreRead, programme \in Programmes, NEW e \in 1 .. Len(programme)
  PROVE  /\ programme[e] \in ToSet(programme)
         /\ ReadAsWanted(SuiteOfPlan(programme[e]), programme[e])
         /\ SuiteOfPlan(programme[e]) \notin {Null, Exit} =>
              /\ LeavesAll(SuiteOfPlan(programme[e]), programme[e].wants)
              /\ HasLists(SuiteOfPlan(programme[e]))
              /\ Fresh(SuiteOfPlan(programme[e]))
<1>1. programme \in Seq(ToSet(programme)) /\ \A p \in ToSet(programme) : ReadAsWanted(SuiteOfPlan(p), p)
  BY ProgrammesAssumption DEF PlansAreRead
<1>2. programme[e] \in ToSet(programme)
  BY <1>1
<1>3. ReadAsWanted(SuiteOfPlan(programme[e]), programme[e])
  BY <1>1, <1>2
<1>4. SuiteOfPlan(programme[e]) \notin {Null, Exit}
        => LeavesAll(SuiteOfPlan(programme[e]), programme[e].wants)
  BY <1>3 DEF ReadAsWanted, LeavesAll
<1>5. LeavesAll(SuiteOfPlan(programme[e]), programme[e].wants) => HasLists(SuiteOfPlan(programme[e]))
  BY AgendaLemma
<1>. QED
  BY <1>2, <1>3, <1>4, <1>5, FreshSuite

\* The problem q is the one after h problems of s.
IsNumber(s, q, h) ==
  \E d \in ValidIndices(s.dimensions), f \in ValidIndices(s.functions), i \in ValidIndices(s.instances) :
    q = suite_get_problem(s, f, d, i) /\ h = Place(s, d, f, i)

WithProblem(t, q) == [t EXCEPT !.current_problem = q]

LEMMA NextProblem ==
  ASSUME NEW s, HasLists(s), s.suite_name \in SuiteNames, NEW t, NEW h, Underway(s, t, h, FALSE)
  PROVE  LET next == Advanced(t)
             q == CursorProblem(next.suite)
             u == WithProblem(next.suite, q)
         IN /\ next.found => /\ Underway(s, u, h + 1, FALSE) /\ IsSuite(u)
                             /\ u.current_problem = q /\ IsNumber(s, q, h)
            /\ ~ next.found => /\ Underway(s, next.suite, h, TRUE) /\ IsSuite(next.suite)
                               /\ next.suite.current_problem = t.current_problem
                               /\ h = NumberOfProblems(s)
<1>. DEFINE next == Advanced(t)
            q == CursorProblem(next.suite)
            u == WithProblem(next.suite, q)
            p == t.current_problem
            d == t.current_dimension_idx
            f == t.current_function_idx
            i == t.current_instance_idx
<1>. SUFFICES /\ next.found => /\ Underway(s, u, h + 1, FALSE) /\ IsSuite(u)
                               /\ u.current_problem = q /\ IsNumber(s, q, h)
              /\ ~ next.found => /\ Underway(s, next.suite, h, TRUE) /\ IsSuite(next.suite)
                                 /\ next.suite.current_problem = p
                                 /\ h = NumberOfProblems(s)
  OBVIOUS
<1>1. t = At(s, d, f, i, p) /\ Placed(s, d, f, i, h) /\ p \in ProblemsOf(s)
  BY DEF Underway
<1>2. /\ d \in ValidIndices(s.dimensions) /\ f \in ValidIndices(s.functions)
      /\ i \in ValidIndices(s.instances) \union {-1}
  BY DEF Underway
<1>3. \E e, g, j : Advanced(At(s, d, f, i, p)).suite = At(s, e, g, j, p)
                   /\ Moves(s, d, f, i, e, g, j, Advanced(At(s, d, f, i, p)).found)
  <2>. HIDE DEF d, f, i, p
  <2>. QED
    BY <1>2, AdvancedLemma
<1>4. PICK e, g, j : next.suite = At(s, e, g, j, p) /\ Moves(s, d, f, i, e, g, j, next.found)
  <2>. HIDE DEF d, f, i, p
  <2>1. next = Advanced(At(s, d, f, i, p))
    BY <1>1
  <2>. HIDE DEF next
  <2>. QED
    BY <1>3, <2>1
<1>. DEFINE v == next.suite
<1>. HIDE DEF d, f, i, p, next
<1>5. /\ e \in ValidIndices(s.dimensions) /\ g \in ValidIndices(s.functions)
      /\ j \in ValidIndices(s.instances)
      /\ IF next.found THEN Placed(s, e, g, j, h + 1) ELSE h = NumberOfProblems(s)
  BY <1>1, <1>4 DEF Moves
<1>6. CASE next.found
  <2>1. v.current_dimension_idx = e /\ v.current_function_idx = g /\ v.current_instance_idx = j
    BY <1>4, AtLemma
  <2>2. /\ v.functions = s.functions /\ v.dimensions = s.dimensions /\ v.instances = s.instances
        /\ v.suite_name = s.suite_name
    BY <1>4, AtLemma
  <2>3. q = suite_get_problem(s, g, e, j)
    <3>1. HasLists(v)
      BY <2>2 DEF HasLists
    <3>2. q = suite_get_problem(v, g, e, j)
      BY <1>5, <2>1, <2>2, <3>1, ProblemLemma DEF CursorProblem
    <3>. QED
      BY <1>4, <3>2, SameProblem
  <2>4. u = At(s, e, g, j, q)
    <3>1. WithProblem(At(s, e, g, j, p), q) = At(s, e, g, j, q)
      BY DEF At, WithProblem
    <3>. QED
      BY <1>4, <3>1
  <2>. HIDE DEF q, u, v
  <2>5. /\ u.current_dimension_idx = e /\ u.current_function_idx = g /\ u.current_instance_idx = j
        /\ u.current_problem = q /\ IsSuite(u)
    BY <2>4, AtLemma
  <2>6. q \in ProblemsOf(s)
    BY <1>5, <2>3 DEF ProblemsOf
  <2>7. Placed(s, e, g, j, h + 1)
    BY <1>5, <1>6
  <2>8. Underway(s, u, h + 1, FALSE)
    BY <1>5, <2>4, <2>5, <2>6, <2>7 DEF Underway
  <2>9. h = Place(s, e, g, j)
    <3>1. j # -1
      <4>1. j \in Nat
        BY <1>5, ValidLemma DEF HasLists, IsList
      <4>. QED
        BY <4>1
    <3>2. h + 1 = Place(s, e, g, j) + 1
      BY <2>7, <3>1 DEF Placed
    <3>3. Place(s, e, g, j) \in Int
      BY <1>5, PlaceLemma
    <3>4. h \in Int
      <4>1. CASE i = -1
        <5>1. h = 0
          <6>1. i \notin ValidIndices(s.instances)
            BY <4>1, ValidLemma DEF HasLists, IsList
          <6>. QED
            BY <1>1, <6>1 DEF Placed
        <5>. QED
          BY <5>1
      <4>2. CASE i # -1
        <5>1. h = Place(s, d, f, i) + 1 /\ i \in ValidIndices(s.instances)
          BY <1>1, <4>2 DEF Placed
        <5>2. Place(s, d, f, i) \in Int
          BY <1>2, <5>1, PlaceLemma
        <5>. QED
          BY <5>1, <5>2
      <4>. QED
        BY <4>1, <4>2
    <3>. QED
      BY <3>2, <3>3, <3>4
  <2>10. IsNumber(s, q, h)
    BY <1>5, <2>3, <2>9 DEF IsNumber
  <2>. QED
    BY <1>6, <2>5, <2>8, <2>10
<1>7. CASE ~ next.found
  <2>1. /\ v.current_dimension_idx = e /\ v.current_function_idx = g /\ v.current_instance_idx = j
        /\ v.current_problem = p /\ IsSuite(v)
    BY <1>4, AtLemma
  <2>2. v = At(s, e, g, j, p)
    BY <1>4
  <2>. HIDE DEF v
  <2>3. Underway(s, v, h, TRUE)
    BY <1>1, <1>5, <2>1, <2>2 DEF Underway
  <2>4. h = NumberOfProblems(s)
    BY <1>5, <1>7
  <2>. QED
    BY <1>7, <2>1, <2>3, <2>4 DEF v
<1>. QED
  BY <1>6, <1>7

LEMMA SuiteInit ==
  ASSUME Init PROVE SuiteInv
<1>1. programme \in Programmes /\ suite = NoSuite /\ experiments = 0 /\ handed = 0
  BY DEF Init
<1>2. programme \in Seq(ToSet(programme))
  BY <1>1, ProgrammesAssumption
<1>3. 0 \in 0 .. Len(programme)
  BY <1>2
<1>. QED
  BY <1>1, <1>3 DEF SuiteInv, IsOpen, NoSuite, Null, Exit

LEMMA OpenPlan ==
  ASSUME PlansAreRead, SuiteInv, IsOpen
  PROVE  /\ experiments \in 1 .. Len(programme) /\ plan = programme[experiments]
         /\ SuiteOfPlan(plan) \notin {Null, Exit}
         /\ LeavesAll(SuiteOfPlan(plan), plan.wants)
         /\ HasLists(SuiteOfPlan(plan))
         /\ IsSuite(SuiteOfPlan(plan))
         /\ SuiteOfPlan(plan).suite_name \in SuiteNames
         /\ Underway(SuiteOfPlan(plan), suite, handed, over)
<1>1. experiments \in 1 .. Len(programme) /\ plan = programme[experiments]
  BY DEF SuiteInv, IsOpen, plan
<1>2. Fresh(SuiteOfPlan(plan)) /\ Underway(SuiteOfPlan(plan), suite, handed, over)
  BY DEF SuiteInv
<1>3. IsSuite(SuiteOfPlan(plan)) /\ SuiteOfPlan(plan).suite_name \in SuiteNames
  BY <1>2 DEF Fresh, IsSuite
<1>4. SuiteOfPlan(plan) \notin {Null, Exit}
  BY <1>3, OpenSuites
<1>. QED
  BY <1>1, <1>2, <1>3, <1>4, PlanLemma DEF SuiteInv

LEMMA SuiteBegin ==
  ASSUME PlansAreRead, SuiteInv, Begin
  PROVE  SuiteInv'
<1>1. /\ suite = NoSuite /\ experiments < Len(programme) /\ experiments' = experiments + 1
      /\ over' = FALSE /\ handed' = 0 /\ programme' = programme
      /\ suite' = SuiteOfPlan(programme[experiments'])
  BY DEF Begin, SuiteOfPlan
<1>2. programme \in Programmes /\ experiments \in 0 .. Len(programme)
  BY DEF SuiteInv
<1>3. programme \in Seq(ToSet(programme))
  BY <1>2, ProgrammesAssumption
<1>4. experiments' \in 1 .. Len(programme) /\ experiments' # 0
  BY <1>1, <1>2, <1>3
<1>. DEFINE p == programme[experiments']
            s == SuiteOfPlan(p)
<1>5. s \notin {Null, Exit} => HasLists(s) /\ Fresh(s)
  BY <1>2, <1>4, PlanLemma
<1>6. plan' = p
  BY <1>1 DEF plan
<1>7. SuiteOfPlan(plan)' = s
  BY <1>6 DEF SuiteOfPlan
<1>8. IsOpen' => Fresh(SuiteOfPlan(plan)') /\ Underway(SuiteOfPlan(plan)', suite', handed', over')
  <2>. SUFFICES ASSUME IsOpen' PROVE Fresh(s) /\ Underway(s, s, 0, FALSE)
    BY <1>1, <1>7
  <2>1. s \notin {Null, Exit}
    BY <1>1 DEF IsOpen
  <2>. QED
    BY <1>5, <2>1, FreshUnderway
<1>9. (suite \in {Null, Exit})'
        => suite' = SuiteOfPlan(plan)' /\ ~ over' /\ handed' = 0
  BY <1>1, <1>7
<1>10. programme' \in Programmes /\ experiments' \in 0 .. Len(programme')
  BY <1>1, <1>2, <1>4
<1>. QED
  BY <1>1, <1>4, <1>8, <1>9, <1>10 DEF SuiteInv

LEMMA SuiteNextProblem ==
  ASSUME PlansAreRead, SuiteInv, coco_suite_get_next_problem
  PROVE  /\ SuiteInv' /\ IsOpen' /\ plan' = plan /\ ~ over
         /\ \/ /\ IsNumber(SuiteOfPlan(plan), suite'.current_problem, handed)
               /\ handed' = handed + 1 /\ over' = over
            \/ /\ handed = NumberOfProblems(SuiteOfPlan(plan))
               /\ handed' = handed /\ over' = TRUE
               /\ suite'.current_problem = suite.current_problem
<1>. DEFINE s == SuiteOfPlan(plan)
            next == Advanced(suite)
            q == CursorProblem(next.suite)
            u == WithProblem(next.suite, q)
<1>1. IsOpen /\ ~ over /\ programme' = programme /\ experiments' = experiments
  BY DEF coco_suite_get_next_problem
<1>2. /\ next.found => suite' = u /\ handed' = handed + 1 /\ over' = over
      /\ ~ next.found => suite' = next.suite /\ handed' = handed /\ over' = TRUE
  BY DEF coco_suite_get_next_problem, WithProblem
<1>3. HasLists(s) /\ s.suite_name \in SuiteNames /\ Underway(s, suite, handed, over) /\ IsSuite(s)
  BY <1>1, OpenPlan
<1>4. Underway(s, suite, handed, FALSE)
  BY <1>1, <1>3 DEF Underway
<1>5. /\ next.found => /\ Underway(s, u, handed + 1, FALSE) /\ IsSuite(u)
                       /\ u.current_problem = q /\ IsNumber(s, q, handed)
      /\ ~ next.found => /\ Underway(s, next.suite, handed, TRUE) /\ IsSuite(next.suite)
                         /\ next.suite.current_problem = suite.current_problem
                         /\ handed = NumberOfProblems(s)
  <2>. HIDE DEF s
  <2>. QED
    BY <1>3, <1>4, NextProblem
<1>6. plan' = plan
  BY <1>1 DEF plan
<1>7. SuiteOfPlan(plan)' = s
  BY <1>6 DEF SuiteOfPlan
<1>. HIDE DEF q, u, next, s
<1>8. IsSuite(suite') /\ Underway(s, suite', handed', over')
  <2>1. CASE next.found
    BY <1>1, <1>2, <1>5, <2>1 DEF Underway
  <2>2. CASE ~ next.found
    BY <1>1, <1>2, <1>5, <2>2
  <2>. QED
    BY <2>1, <2>2
<1>9. suite' \notin {NoSuite, Null, Exit}
  BY <1>8, OpenSuites
<1>10. IsOpen'
  BY <1>9 DEF IsOpen
<1>11. Fresh(s)
  BY <1>1 DEF SuiteInv, s
<1>12. SuiteInv'
  <2>1. programme' \in Programmes /\ experiments' \in 0 .. Len(programme') /\ experiments' # 0
    BY <1>1 DEF SuiteInv, IsOpen
  <2>2. Fresh(SuiteOfPlan(plan)') /\ Underway(SuiteOfPlan(plan)', suite', handed', over')
    BY <1>7, <1>8, <1>11
  <2>. QED
    BY <1>9, <2>1, <2>2 DEF SuiteInv
<1>13. CASE next.found
  BY <1>1, <1>2, <1>5, <1>6, <1>10, <1>12, <1>13 DEF s
<1>14. CASE ~ next.found
  BY <1>1, <1>2, <1>5, <1>6, <1>10, <1>12, <1>14 DEF s
<1>. QED
  BY <1>13, <1>14

LEMMA SuiteSame ==
  ASSUME SuiteInv, UNCHANGED suiteVars
  PROVE  SuiteInv' /\ plan' = plan /\ IsOpen' = IsOpen
<1>1. /\ programme' = programme /\ experiments' = experiments /\ suite' = suite
      /\ over' = over /\ handed' = handed
  BY DEF suiteVars
<1>2. plan' = plan
  BY <1>1 DEF plan
<1>3. SuiteOfPlan(plan)' = SuiteOfPlan(plan) /\ IsOpen' = IsOpen
  BY <1>1, <1>2 DEF SuiteOfPlan, IsOpen
<1>. QED
  BY <1>1, <1>2, <1>3 DEF SuiteInv

LEMMA SuiteClose ==
  ASSUME SuiteInv, finalizeBenchmark
  PROVE  SuiteInv' /\ suite' = NoSuite
<1>1. /\ IsOpen /\ suite' = NoSuite /\ handed' = 0
      /\ programme' = programme /\ experiments' = experiments
  BY DEF finalizeBenchmark
<1>2. NoSuite \notin {Null, Exit}
  BY DEF NoSuite, Null, Exit
<1>. QED
  BY <1>1, <1>2 DEF SuiteInv, IsOpen

LEMMA SuiteNext ==
  ASSUME PlansAreRead, SuiteInv, [Next]_vars
  PROVE  SuiteInv'
<1>1. CASE Begin
  BY <1>1, SuiteBegin
<1>2. CASE coco_suite_get_next_problem
  BY <1>2, SuiteNextProblem
<1>3. CASE coco_evaluate_function
  BY <1>3, SuiteSame DEF coco_evaluate_function
<1>4. CASE coco_evaluate_constraint
  BY <1>4, SuiteSame DEF coco_evaluate_constraint
<1>5. CASE finalizeBenchmark
  BY <1>5, SuiteClose
<1>6. CASE UNCHANGED vars
  BY <1>6, SuiteSame DEF vars, suiteVars
<1>. QED
  BY <1>1, <1>2, <1>3, <1>4, <1>5, <1>6 DEF Next

\* The cursors of the open suite are at the place that the number of
\* problems handed out gives, and the last of them is one of the suite
\* (coco_suite_get_next_problem, coco.c:32231).
THEOREM SuiteInvariant == PlansAreRead => (Spec => []SuiteInv)
<1>. SUFFICES ASSUME PlansAreRead PROVE Spec => []SuiteInv
  OBVIOUS
<1>1. Init => SuiteInv
  BY SuiteInit
<1>2. SuiteInv /\ [Next]_vars => SuiteInv'
  BY SuiteNext
<1>. QED
  BY <1>1, <1>2, PTL DEF Spec

----------------------------------------------------------------------------
(* The suite implements the enumeration of its agenda.                     *)

Agendas == {PlanAgenda(p) : p \in UNION {ToSet(q) : q \in Programmes}}
Agenda == IF suite = NoSuite THEN << >> ELSE PlanAgenda(plan)
Problem == IF IsOpen THEN Triple(suite.current_problem) ELSE 0
Over == IF suite = NoSuite THEN TRUE ELSE over
Mapped == <<Agenda, handed, Problem, Over>>

LEMMA EnumerationBegin ==
  ASSUME PlansAreRead, SuiteInv, Begin
  PROVE  /\ Agenda = << >> /\ Agenda' \in Agendas
         /\ handed' = 0 /\ Problem' = 0 /\ Over' = FALSE
<1>1. /\ suite = NoSuite /\ experiments < Len(programme) /\ experiments' = experiments + 1
      /\ over' = FALSE /\ handed' = 0 /\ programme' = programme
      /\ suite' = SuiteOfPlan(programme[experiments'])
  BY DEF Begin, SuiteOfPlan
<1>2. programme \in Programmes /\ experiments \in 0 .. Len(programme)
  BY DEF SuiteInv
<1>3. programme \in Seq(ToSet(programme))
  BY <1>2, ProgrammesAssumption
<1>4. experiments' \in 1 .. Len(programme)
  BY <1>1, <1>2, <1>3
<1>. DEFINE p == programme[experiments']
            s == SuiteOfPlan(p)
<1>5. s \notin {Null, Exit} => HasLists(s) /\ Fresh(s)
  BY <1>2, <1>4, PlanLemma
<1>6. p \in ToSet(programme) /\ plan' = p
  BY <1>1, <1>2, <1>4, PlanLemma DEF plan
<1>7. s # NoSuite
  <2>1. CASE s \in {Null, Exit}
    BY <2>1 DEF Null, Exit, NoSuite
  <2>2. CASE s \notin {Null, Exit}
    BY <2>2, <1>5, OpenSuites DEF Fresh
  <2>. QED
    BY <2>1, <2>2
<1>8. PlanAgenda(plan)' = PlanAgenda(p)
  BY <1>6 DEF PlanAgenda
<1>9. Agenda' = PlanAgenda(p)
  BY <1>1, <1>7, <1>8 DEF Agenda
<1>10. Agenda' \in Agendas
  BY <1>2, <1>6, <1>9 DEF Agendas
<1>11. Problem' = 0
  <2>1. CASE s \in {Null, Exit}
    BY <2>1, <1>1 DEF Problem, IsOpen
  <2>2. CASE s \notin {Null, Exit}
    <3>1. suite'.current_problem = NoProblem
      BY <2>2, <1>1, <1>5, FreshUnderway
    <3>2. Triple(suite.current_problem)' = 0
      BY <3>1 DEF Triple
    <3>. QED
      BY <3>2 DEF Problem
  <2>. QED
    BY <2>1, <2>2
<1>12. Over' = FALSE
  BY <1>1, <1>7 DEF Over
<1>. QED
  BY <1>1, <1>10, <1>11, <1>12 DEF Agenda

LEMMA EnumerationNext ==
  ASSUME PlansAreRead, SuiteInv, coco_suite_get_next_problem
  PROVE  \/ /\ ~ Over /\ handed < Len(Agenda)
            /\ handed' = handed + 1 /\ Problem' = Agenda[handed + 1]
            /\ Agenda' = Agenda /\ Over' = Over
         \/ /\ ~ Over /\ handed = Len(Agenda)
            /\ Over' = TRUE
            /\ Agenda' = Agenda /\ handed' = handed /\ Problem' = Problem
<1>. DEFINE s == SuiteOfPlan(plan)
<1>1. IsOpen
  BY DEF coco_suite_get_next_problem
<1>2. HasLists(s) /\ LeavesAll(s, plan.wants)
  BY <1>1, OpenPlan
<1>3. /\ IsOpen' /\ plan' = plan /\ ~ over
      /\ \/ /\ IsNumber(s, suite'.current_problem, handed)
            /\ handed' = handed + 1 /\ over' = over
         \/ /\ handed = NumberOfProblems(s)
            /\ handed' = handed /\ over' = TRUE
            /\ suite'.current_problem = suite.current_problem
  BY SuiteNextProblem
<1>4. suite # NoSuite /\ suite' # NoSuite
  BY <1>1, <1>3 DEF IsOpen
<1>5. PlanAgenda(plan)' = PlanAgenda(plan)
  BY <1>3 DEF PlanAgenda
<1>6. Agenda = PlanAgenda(plan) /\ Agenda' = Agenda /\ Over = over /\ Over' = over'
  BY <1>4, <1>5 DEF Agenda, Over
<1>7. Problem = Triple(suite.current_problem) /\ Problem' = Triple(suite'.current_problem)
  BY <1>1, <1>3 DEF Problem, Triple
<1>8. Len(Agenda) = NumberOfProblems(s)
  <2>. HIDE DEF s
  <2>. QED
    BY <1>2, <1>6, AgendaLemma
<1>9. CASE /\ IsNumber(s, suite'.current_problem, handed)
           /\ handed' = handed + 1 /\ over' = over
  <2>. HIDE DEF s
  <2>1. PICK d \in ValidIndices(s.dimensions), f \in ValidIndices(s.functions),
             i \in ValidIndices(s.instances) :
          suite'.current_problem = suite_get_problem(s, f, d, i) /\ handed = Place(s, d, f, i)
    BY <1>9 DEF IsNumber
  <2>2. Problem' = <<Item(s.dimensions, d), Item(s.functions, f), Item(s.instances, i)>>
    BY <1>2, <1>7, <2>1, ProblemLemma
  <2>3. Agenda[handed + 1] = <<Item(s.dimensions, d), Item(s.functions, f), Item(s.instances, i)>>
    <3>1. PlanAgenda(plan)[Place(s, d, f, i) + 1]
            = <<Item(s.dimensions, d), Item(s.functions, f), Item(s.instances, i)>>
      BY <1>2, AgendaLemma
    <3>. QED
      BY <1>6, <2>1, <3>1
  <2>4. handed \in 0 .. NumberOfProblems(s) - 1 /\ NumberOfProblems(s) \in Nat
    BY <1>2, <2>1, PlaceLemma
  <2>5. handed < Len(Agenda)
    BY <1>8, <2>4
  <2>. QED
    BY <1>3, <1>6, <1>9, <2>2, <2>3, <2>5
<1>10. CASE /\ handed = NumberOfProblems(s)
            /\ handed' = handed /\ over' = TRUE
            /\ suite'.current_problem = suite.current_problem
  BY <1>3, <1>6, <1>7, <1>8, <1>10
<1>. QED
  BY <1>3, <1>9, <1>10

LEMMA EnumerationSame ==
  ASSUME SuiteInv, UNCHANGED suiteVars
  PROVE  Agenda' = Agenda /\ handed' = handed /\ Problem' = Problem /\ Over' = Over
<1>1. suite' = suite /\ over' = over /\ handed' = handed
  BY DEF suiteVars
<1>2. plan' = plan /\ IsOpen' = IsOpen
  BY SuiteSame
<1>3. PlanAgenda(plan)' = PlanAgenda(plan)
  BY <1>2 DEF PlanAgenda
<1>4. Triple(suite.current_problem)' = Triple(suite.current_problem)
  BY <1>1 DEF Triple
<1>. QED
  BY <1>1, <1>2, <1>3, <1>4 DEF Agenda, Problem, Over

LEMMA EnumerationClose ==
  ASSUME SuiteInv, finalizeBenchmark
  PROVE  Agenda' = << >> /\ handed' = 0 /\ Problem' = 0 /\ Over' = TRUE
<1>1. suite' = NoSuite /\ handed' = 0
  BY DEF finalizeBenchmark
<1>. QED
  BY <1>1 DEF Agenda, Problem, Over, IsOpen

\* Every step of a benchmark is a step of the enumeration or none.
LEMMA EnumerationStep ==
  ASSUME PlansAreRead, SuiteInv, [Next]_vars
  PROVE  [Enumeration!Next]_(Enumeration!vars)
<1>. USE DEF Enumeration!Next, Enumeration!vars, Agenda, Problem, Over, Agendas
<1>1. CASE Begin
  BY <1>1, EnumerationBegin DEF Enumeration!Begin
<1>2. CASE coco_suite_get_next_problem
  BY <1>2, EnumerationNext DEF Enumeration!HandOut, Enumeration!NoneLeft
<1>3. CASE UNCHANGED suiteVars
  BY <1>3, EnumerationSame
<1>4. CASE finalizeBenchmark
  BY <1>4, EnumerationClose DEF Enumeration!Close
<1>5. coco_evaluate_function => UNCHANGED suiteVars
  BY DEF coco_evaluate_function
<1>6. coco_evaluate_constraint => UNCHANGED suiteVars
  BY DEF coco_evaluate_constraint
<1>7. UNCHANGED vars => UNCHANGED suiteVars
  BY DEF vars, suiteVars
<1>. QED
  BY <1>1, <1>2, <1>3, <1>4, <1>5, <1>6, <1>7 DEF Next

\* A suite of CoCO hands out what its options ask for, each problem once, in
\* the order of dimensions, functions and instances, and then says that none
\* is left (coco_suite_get_next_problem, coco.c:32231).
THEOREM EnumerationImplemented == PlansAreRead => (Spec => ImplementsEnumeration)
<1>. SUFFICES ASSUME PlansAreRead PROVE Spec => ImplementsEnumeration
  OBVIOUS
<1>1. Spec => []SuiteInv
  BY SuiteInvariant
<1>2. Init => Enumeration!Init
  BY DEF Init, Enumeration!Init, IsOpen
<1>3. SuiteInv /\ [Next]_vars => [Enumeration!Next]_(Enumeration!vars)
  BY EnumerationStep
<1>. QED
  BY <1>1, <1>2, <1>3, PTL DEF Spec, ImplementsEnumeration, Enumeration!Spec

----------------------------------------------------------------------------
(* The numbers of problems.                                                *)

\* A number leads back to the items it was made of.
LEMMA DecodeLemma ==
  ASSUME NEW s, HasLists(s), NEW d \in ValidIndices(s.dimensions),
         NEW f \in ValidIndices(s.functions), NEW i \in ValidIndices(s.instances)
  PROVE  LET index == coco_suite_encode_problem_index(s, f, d, i)
         IN /\ index < coco_suite_get_number_of_problems(s)
            /\ coco_suite_decode_problem_index(s, index)
                 = [function_idx |-> f, dimension_idx |-> d, instance_idx |-> i]
<1>. DEFINE nf == Len(s.functions)
            nd == Len(s.dimensions)
            ni == Len(s.instances)
            index == coco_suite_encode_problem_index(s, f, d, i)
            k == InRadix(nf, ni, d, f, i)
            all == coco_suite_get_number_of_problems(s)
<1>1. nf \in Nat \ {0} /\ nd \in Nat \ {0} /\ ni \in Nat \ {0}
  BY ValidLemma DEF HasLists, IsList
<1>2. d \in 0 .. nd - 1 /\ f \in 0 .. nf - 1 /\ i \in 0 .. ni - 1
  BY ValidLemma DEF HasLists, IsList
<1>3. index = i + f * ni + d * ni * nf /\ all = ni * nf * nd
  BY DEF coco_suite_encode_problem_index, coco_suite_get_number_of_problems
<1>4. index = k /\ all = nd * nf * ni /\ ni * nf = nf * ni
  <2>. HIDE DEF nf, nd, ni, index, all
  <2>. QED
    BY <1>1, <1>2, <1>3 DEF InRadix
<1>5. /\ k \in 0 .. nd * nf * ni - 1 /\ nd * nf * ni \in Nat \ {0}
      /\ k \div (nf * ni) = d /\ (k \div ni) % nf = f /\ k % ni = i
  <2>. HIDE DEF nf, nd, ni, k
  <2>. QED
    BY <1>1, <1>2, MixedRadix DEF k
<1>6. all \in Nat \ {0} /\ index \in 0 .. all - 1
  BY <1>4, <1>5
<1>7. index < all /\ ~ (index > all - 1)
  <2>. HIDE DEF index, all
  <2>. QED
    BY <1>6
<1>8. coco_suite_decode_problem_index(s, index)
        = [function_idx |-> (index \div ni) % nf, dimension_idx |-> index \div (ni * nf),
           instance_idx |-> index % ni]
  <2>. HIDE DEF index
  <2>. QED
    BY <1>7 DEF coco_suite_decode_problem_index
<1>9. (index \div ni) % nf = f /\ index \div (ni * nf) = d /\ index % ni = i
  <2>. HIDE DEF nf, nd, ni, index, all, k
  <2>. QED
    BY <1>4, <1>5
<1>. HIDE DEF nf, nd, ni, index, all, k
<1>10. coco_suite_decode_problem_index(s, index)
         = [function_idx |-> f, dimension_idx |-> d, instance_idx |-> i]
  BY <1>8, <1>9
<1>. QED
  BY <1>7, <1>10 DEF index, all

\* The first item with the value of a valid one is a valid one with this value.
LEMMA FirstIndexLemma ==
  ASSUME NEW items, IsList(items), NEW k \in ValidIndices(items)
  PROVE  LET n == FirstIndex(items, Item(items, k))
         IN n \in ValidIndices(items) /\ n # -1 /\ Item(items, n) = Item(items, k)
<1>. DEFINE v == Item(items, k)
            at == {j \in 0 .. Len(items) - 1 : Item(items, j) = v}
            n == MinOf(at)
<1>1. k \in 0 .. Len(items) - 1 /\ v # 0 /\ Len(items) \in Nat
  BY ValidLemma DEF IsList
<1>2. at \in SUBSET Nat /\ at # {}
  BY <1>1
<1>3. n \in at
  <2>. HIDE DEF at
  <2>. QED
    BY <1>2, LeastNatural
<1>4. FirstIndex(items, v) = n
  BY <1>2 DEF FirstIndex
<1>5. n \in ValidIndices(items) /\ Item(items, n) = v /\ n # -1
  <2>. HIDE DEF n
  <2>1. n \in 0 .. Len(items) - 1 /\ Item(items, n) = v
    BY <1>3
  <2>. QED
    BY <1>1, <2>1 DEF ValidIndices
<1>. QED
  BY <1>4, <1>5

LEMMA FindsLemma ==
  ASSUME NEW s, HasLists(s), NEW d \in ValidIndices(s.dimensions),
         NEW f \in ValidIndices(s.functions), NEW i \in ValidIndices(s.instances)
  PROVE  Triple(coco_suite_get_problem_by_function_dimension_instance(
                  s, Item(s.functions, f), Item(s.dimensions, d), Item(s.instances, i)))
           = <<Item(s.dimensions, d), Item(s.functions, f), Item(s.instances, i)>>
<1>. DEFINE g == FirstIndex(s.functions, Item(s.functions, f))
            e == FirstIndex(s.dimensions, Item(s.dimensions, d))
            j == FirstIndex(s.instances, Item(s.instances, i))
<1>1. g \in ValidIndices(s.functions) /\ g # -1 /\ Item(s.functions, g) = Item(s.functions, f)
  BY FirstIndexLemma DEF HasLists
<1>2. e \in ValidIndices(s.dimensions) /\ e # -1 /\ Item(s.dimensions, e) = Item(s.dimensions, d)
  BY FirstIndexLemma DEF HasLists
<1>3. j \in ValidIndices(s.instances) /\ j # -1 /\ Item(s.instances, j) = Item(s.instances, i)
  BY FirstIndexLemma DEF HasLists
<1>4. coco_suite_get_problem_by_function_dimension_instance(
        s, Item(s.functions, f), Item(s.dimensions, d), Item(s.instances, i))
        = coco_suite_get_problem_from_indices(s, g, e, j)
  BY <1>1, <1>2, <1>3 DEF coco_suite_get_problem_by_function_dimension_instance
<1>. HIDE DEF g, e, j
<1>. QED
  BY <1>1, <1>2, <1>3, <1>4, ProblemLemma

LEMMA NumbersLemma ==
  ASSUME NEW s, HasLists(s), NEW d \in ValidIndices(s.dimensions),
         NEW f \in ValidIndices(s.functions), NEW i \in ValidIndices(s.instances),
         NEW p, p = suite_get_problem(s, f, d, i)
  PROVE  LET index == Java_coco_CocoJNI_cocoProblemGetIndex(p)
             at == coco_suite_decode_problem_index(s, index)
         IN /\ index < coco_suite_get_number_of_problems(s)
            /\ coco_suite_get_problem(s, index) = p
            /\ coco_suite_get_function_from_function_index(s, at.function_idx) = p.function
            /\ coco_suite_get_dimension_from_dimension_index(s, at.dimension_idx) = p.dimension
            /\ Triple(coco_suite_get_problem_by_function_dimension_instance(
                        s, p.function, p.dimension, p.instance)) = Triple(p)
<1>. DEFINE index == Java_coco_CocoJNI_cocoProblemGetIndex(p)
            at == coco_suite_decode_problem_index(s, index)
<1>1. /\ p.function = Item(s.functions, f) /\ p.dimension = Item(s.dimensions, d)
      /\ p.instance = Item(s.instances, i)
      /\ index = coco_suite_encode_problem_index(s, f, d, i)
  BY DEF suite_get_problem, Java_coco_CocoJNI_cocoProblemGetIndex
<1>2. /\ index < coco_suite_get_number_of_problems(s)
      /\ at = [function_idx |-> f, dimension_idx |-> d, instance_idx |-> i]
  BY <1>1, DecodeLemma
<1>. HIDE DEF at, index
<1>3. at.function_idx = f /\ at.dimension_idx = d /\ at.instance_idx = i
  BY <1>2
<1>4. coco_suite_get_problem(s, index) = p
  BY <1>3, ProblemLemma DEF coco_suite_get_problem, at
<1>5. /\ coco_suite_get_function_from_function_index(s, at.function_idx) = p.function
      /\ coco_suite_get_dimension_from_dimension_index(s, at.dimension_idx) = p.dimension
  BY <1>1, <1>3 DEF coco_suite_get_function_from_function_index,
                    coco_suite_get_dimension_from_dimension_index
<1>6. Triple(p) = <<Item(s.dimensions, d), Item(s.functions, f), Item(s.instances, i)>>
  BY ProblemLemma
<1>7. Triple(coco_suite_get_problem_by_function_dimension_instance(
               s, p.function, p.dimension, p.instance)) = Triple(p)
  BY <1>1, <1>6, FindsLemma
<1>. QED
  BY <1>2, <1>4, <1>5, <1>7 DEF at, index

LEMMA NumbersFollow ==
  ASSUME PlansAreRead, SuiteInv
  PROVE  NumbersFindProblems
<1>1. ASSUME suite \in {Null, Exit} PROVE PlanAgenda(plan) = << >>
  <2>1. suite = SuiteOfPlan(plan) /\ experiments \in 1 .. Len(programme) /\ programme \in Programmes
    BY <1>1 DEF SuiteInv, NoSuite, Null, Exit
  <2>2. ReadAsWanted(SuiteOfPlan(plan), plan)
    BY <2>1, PlanLemma DEF plan
  <2>. QED
    BY <1>1, <2>1, <2>2 DEF ReadAsWanted
<1>2. ASSUME IsOpen PROVE PlanAgenda(plan) # << >>
  <2>1. LeavesAll(SuiteOfPlan(plan), plan.wants)
    BY <1>2, OpenPlan
  <2>. QED
    BY <2>1, AgendaLemma
<1>3. ASSUME IsOpen, suite.current_problem # NoProblem
      PROVE  \E f \in ValidIndices(suite.functions), d \in ValidIndices(suite.dimensions),
                i \in ValidIndices(suite.instances) :
               suite.current_problem = suite_get_problem(suite, f, d, i) /\ HasLists(suite)
  <2>. DEFINE s == SuiteOfPlan(plan)
  <2>1. HasLists(s) /\ Underway(s, suite, handed, over)
    BY <1>3, OpenPlan
  <2>. HIDE DEF s
  <2>2. /\ suite.functions = s.functions /\ suite.dimensions = s.dimensions
        /\ suite.instances = s.instances
    BY <2>1, AtLemma DEF Underway
  <2>3. suite.current_problem \in ProblemsOf(s)
    BY <2>1 DEF Underway
  <2>4. PICK f \in ValidIndices(s.functions), d \in ValidIndices(s.dimensions),
             i \in ValidIndices(s.instances) : suite.current_problem = suite_get_problem(s, f, d, i)
    BY <1>3, <2>3 DEF ProblemsOf
  <2>5. suite_get_problem(suite, f, d, i) = suite_get_problem(s, f, d, i)
    BY <2>1, SameProblem DEF Underway
  <2>. QED
    BY <2>1, <2>2, <2>4, <2>5 DEF HasLists
<1>. QED
  BY <1>1, <1>2, <1>3, NumbersLemma DEF NumbersFindProblems

\* The number a problem carries is below the number of problems, leads back to
\* it, and what it is made of leads to a problem of the same; options that
\* leave nothing make no suite (coco_suite_encode_problem_index,
\* coco_suite_decode_problem_index, coco.c:31851-31857, 32309-32347).
THEOREM NumbersAreFound == PlansAreRead => (Spec => []NumbersFindProblems)
<1>. SUFFICES ASSUME PlansAreRead PROVE Spec => []NumbersFindProblems
  OBVIOUS
<1>1. Spec => []SuiteInv
  BY SuiteInvariant
<1>2. SuiteInv => NumbersFindProblems
  BY NumbersFollow
<1>. QED
  BY <1>1, <1>2, PTL

----------------------------------------------------------------------------
(* Levels of values and the exponents of their targets.                    *)

Finite == {v \in Int : - DBL_MAX < v /\ v < DBL_MAX}

\* The exponent coco_observer_targets_trigger finds for a value.
Exponent(v) ==
  IF v = 0 THEN ZeroExponent
  ELSE IF v > 0 THEN CeilLog(Best(v, Precision))
  ELSE 2 * ZeroExponent - FloorLog(Best(- v, Precision)) - 1

LEMMA CeilLogLemma ==
  ASSUME NEW v \in Int, v < DBL_MAX
  PROVE  /\ CeilLog(v) \in 0 .. 20
         /\ \A w \in Int : w <= v => CeilLog(w) \in 0 .. 20 /\ CeilLog(w) <= CeilLog(v)
<1>. DEFINE Above(w) == {k \in 0 .. 20 : 2 ^ k >= w}
<1>1. 2 ^ 20 = 1048576 /\ 20 \in 0 .. 20
  OBVIOUS
<1>2. \A k \in 0 .. 20 : 2 ^ k \in Int
  OBVIOUS
<1>3. ASSUME NEW w \in Int, w < DBL_MAX
      PROVE  CeilLog(w) \in Above(w) /\ \A k \in Above(w) : CeilLog(w) <= k
  <2>1. 20 \in Above(w)
    BY <1>1, <1>3 DEF DBL_MAX
  <2>2. Above(w) \in SUBSET Nat
    OBVIOUS
  <2>3. CeilLog(w) = MinOf(Above(w))
    BY DEF CeilLog
  <2>. HIDE DEF Above
  <2>. QED
    BY <2>1, <2>2, <2>3, LeastNatural
<1>4. \A w \in Int : Above(w) \subseteq 0 .. 20
  OBVIOUS
<1>5. ASSUME NEW w \in Int, w <= v PROVE w < DBL_MAX /\ Above(v) \subseteq Above(w)
  BY <1>2, <1>5 DEF DBL_MAX
<1>. HIDE DEF Above
<1>6. CeilLog(v) \in Above(v)
  BY <1>3
<1>. QED
  BY <1>3, <1>4, <1>5, <1>6

LEMMA FloorLogLemma ==
  ASSUME NEW v \in Int, v < DBL_MAX
  PROVE  FloorLog(v) \in 0 .. 20
<1>. DEFINE Below == {k \in 0 .. 20 : 2 ^ (k + 1) > v}
<1>1. 2 ^ (20 + 1) = 2097152
  OBVIOUS
<1>2. 20 \in Below
  BY <1>1 DEF DBL_MAX
<1>3. Below \in SUBSET Nat
  OBVIOUS
<1>4. FloorLog(v) = MinOf(Below)
  BY DEF FloorLog
<1>5. Below \subseteq 0 .. 20
  OBVIOUS
<1>. HIDE DEF Below
<1>. QED
  BY <1>2, <1>3, <1>4, <1>5, LeastNatural

LEMMA BestLemma ==
  ASSUME NEW a \in Int, NEW b \in Int
  PROVE  /\ Best(a, b) \in {a, b} /\ Best(a, b) \in Int
         /\ a <= Best(a, b) /\ b <= Best(a, b)
         /\ \A c \in Int : a <= c => Best(a, b) <= Best(c, b)
  BY DEF Best

LEMMA LevelShape ==
  ASSUME NEW v \in Finite
  PROVE  /\ v > 0 => Level(v) \in 0 .. 20 /\ Exponent(v) = Level(v)
         /\ v = 0 => Level(v) = -1 /\ Exponent(v) = -3
         /\ v < 0 => Level(v) \in -120 .. -100 /\ Exponent(v) = Level(v) + 93
<1>1. v \in Int /\ - DBL_MAX < v /\ v < DBL_MAX
  BY DEF Finite
<1>2. ASSUME v > 0 PROVE Level(v) \in 0 .. 20 /\ Exponent(v) = Level(v)
  <2>1. Best(v, 1) = v
    BY <1>1, <1>2 DEF Best
  <2>2. CeilLog(v) \in 0 .. 20
    BY <1>1, CeilLogLemma
  <2>. QED
    BY <1>1, <1>2, <2>1, <2>2 DEF Level, Exponent, Precision
<1>3. v = 0 => Level(v) = -1 /\ Exponent(v) = -3
  BY DEF Level, Exponent, ZeroExponent
<1>4. ASSUME v < 0 PROVE Level(v) \in -120 .. -100 /\ Exponent(v) = Level(v) + 93
  <2>1. Best(- v, 1) = - v
    BY <1>1, <1>4 DEF Best
  <2>2. FloorLog(- v) \in 0 .. 20
    <3>1. - v \in Int /\ - v < DBL_MAX
      BY <1>1 DEF DBL_MAX
    <3>. QED
      BY <3>1, FloorLogLemma
  <2>3. Level(v) = -100 - FloorLog(- v)
    BY <1>4, <2>1 DEF Level
  <2>4. Exponent(v) = -6 - FloorLog(- v) - 1
    BY <1>1, <1>4, <2>1 DEF Exponent, Precision, ZeroExponent
  <2>. QED
    BY <2>2, <2>3, <2>4
<1>. QED
  BY <1>2, <1>3, <1>4

\* Exponents order values as levels do.
LEMMA ExponentOrder ==
  ASSUME NEW v \in Finite, NEW w \in Finite
  PROVE  /\ Exponent(v) \in Int /\ Exponent(v) < INT_MAX /\ Level(v) \in Int
         /\ Exponent(v) < Exponent(w) <=> Level(v) < Level(w)
<1>1. v \in Int /\ w \in Int
  BY DEF Finite
<1>. QED
  BY <1>1, LevelShape DEF INT_MAX

LEMMA LevelMonotone ==
  ASSUME NEW v \in Finite, NEW w \in Finite, 0 <= v, v <= w
  PROVE  Level(v) <= Level(w)
<1>1. v \in Int /\ w \in Int /\ w < DBL_MAX
  BY DEF Finite
<1>2. CASE v = 0
  BY <1>1, <1>2, LevelShape
<1>3. CASE v > 0
  <2>1. Best(v, 1) = v /\ Best(w, 1) = w
    BY <1>1, <1>3 DEF Best
  <2>2. Level(v) = CeilLog(v) /\ Level(w) = CeilLog(w)
    BY <1>1, <1>3, <2>1 DEF Level
  <2>. QED
    BY <1>1, <2>2, CeilLogLemma
<1>. QED
  BY <1>1, <1>2, <1>3

LEMMA TriggerLemma ==
  ASSUME NEW v \in Int, NEW t
  PROVE  LET target == coco_observer_targets_trigger(t, v)
         IN /\ target.hit = (Exponent(v) < t.exponent)
            /\ target.targets.exponent = IF Exponent(v) < t.exponent THEN Exponent(v) ELSE t.exponent
<1>. DEFINE current == IF v = 0 THEN ZeroExponent
                       ELSE IF v > 0 THEN CeilLog(Best(v, Precision))
                       ELSE FloorLog(Best(- v, Precision))
            exponent == IF v >= 0 THEN current ELSE 2 * ZeroExponent - current - 1
            hit == exponent < t.exponent
            value == IF v = 0 THEN 0 ELSE IF v > 0 THEN 2 ^ current ELSE - (2 ^ current)
            target == coco_observer_targets_trigger(t, v)
<1>1. exponent = Exponent(v)
  BY DEF Exponent
<1>2. target = [hit |-> hit, targets |-> IF hit THEN [exponent |-> exponent, value |-> value] ELSE t]
  BY DEF coco_observer_targets_trigger
<1>3. target.hit = hit
  BY <1>2
<1>4. target.targets = IF hit THEN [exponent |-> exponent, value |-> value] ELSE t
  BY <1>2
<1>. HIDE DEF current, value, target, exponent
<1>5. target.targets.exponent = IF hit THEN exponent ELSE t.exponent
  BY <1>4
<1>. QED
  BY <1>1, <1>3, <1>5 DEF target

----------------------------------------------------------------------------
(* Lines that are appended to files.                                       *)

IsSequence(l) == \E S : l \in Seq(S)

LEMMA AppendLemma ==
  ASSUME NEW l, IsSequence(l), NEW x
  PROVE  /\ IsSequence(Append(l, x))
         /\ Len(l) \in Nat /\ Len(Append(l, x)) = Len(l) + 1
         /\ DOMAIN l = 1 .. Len(l) /\ DOMAIN Append(l, x) = 1 .. Len(l) + 1
         /\ \A i \in 1 .. Len(l) : Append(l, x)[i] = l[i]
         /\ Append(l, x)[Len(l) + 1] = x
<1>1. PICK S : l \in Seq(S)
  BY DEF IsSequence
<1>. DEFINE T == S \union {x}
<1>2. l \in Seq(T) /\ x \in T
  BY <1>1
<1>. HIDE DEF T
<1>3. Append(l, x) \in Seq(T)
  BY <1>2
<1>. QED
  BY <1>2, <1>3 DEF IsSequence

\* The lines of evaluations up to the n-th, in their order.
Upward(lines, n) ==
  IsSequence(lines) /\ Rising(lines) /\ \A i \in DOMAIN lines : lines[i][1] \in 1 .. n

LEMMA UpwardLemma ==
  ASSUME NEW lines, NEW n \in Nat, Upward(lines, n), NEW m \in Nat, n < m, NEW x, x[1] = m
  PROVE  /\ Upward(Append(lines, x), m)
         /\ Upward(lines, m)
         /\ Numbers(Append(lines, x)) = Numbers(lines) \union {m}
<1>. DEFINE l == Append(lines, x)
            k == Len(lines)
<1>1. /\ IsSequence(l) /\ IsSequence(lines) /\ k \in Nat /\ Len(l) = k + 1
      /\ DOMAIN lines = 1 .. k /\ DOMAIN l = 1 .. k + 1
      /\ \A i \in 1 .. k : l[i] = lines[i]
      /\ l[k + 1] = x
  BY AppendLemma DEF Upward
<1>2. \A i \in 1 .. k : lines[i][1] \in 1 .. n
  BY <1>1 DEF Upward
<1>3. \A i \in 1 .. k - 1 : lines[i][1] < lines[i + 1][1]
  BY DEF Upward, Rising
<1>. HIDE DEF l, k
<1>4. \A i \in 1 .. k + 1 : l[i][1] \in 1 .. m
  BY <1>1, <1>2
<1>5. ASSUME NEW i \in 1 .. k PROVE l[i][1] < l[i + 1][1]
  <2>1. CASE i = k
    BY <1>1, <1>2, <2>1
  <2>2. CASE i # k
    <3>1. i \in 1 .. k - 1 /\ i + 1 \in 1 .. k
      BY <1>1, <2>2
    <3>. QED
      BY <1>1, <1>3, <3>1
  <2>. QED
    BY <2>1, <2>2
<1>6. Rising(l)
  <2>1. Len(l) - 1 = k
    BY <1>1
  <2>. QED
    BY <1>5, <2>1 DEF Rising
<1>7. \A i \in DOMAIN lines : lines[i][1] \in 1 .. m
  BY <1>1, <1>2
<1>8. Numbers(l) = Numbers(lines) \union {m}
  <2>1. 1 .. k + 1 = (1 .. k) \union {k + 1}
    BY <1>1
  <2>2. Numbers(l) = {l[i][1] : i \in (1 .. k) \union {k + 1}}
    BY <1>1, <2>1 DEF Numbers
  <2>3. Numbers(lines) = {lines[i][1] : i \in 1 .. k}
    BY <1>1 DEF Numbers
  <2>. QED
    BY <1>1, <2>2, <2>3
<1>. QED
  BY <1>1, <1>4, <1>6, <1>7, <1>8 DEF Upward, l

LEMMA EmptyLemma ==
  /\ IsSequence(<< >>) /\ \A n : Upward(<< >>, n)
  /\ Numbers(<< >>) = {} /\ Len(<< >>) = 0
<1>1. << >> \in Seq({}) /\ Len(<< >>) = 0 /\ DOMAIN << >> = {}
  OBVIOUS
<1>2. Rising(<< >>)
  BY <1>1 DEF Rising
<1>. QED
  BY <1>1, <1>2 DEF IsSequence, Upward, Numbers

----------------------------------------------------------------------------
(* What loggers have written after evaluations that were worth w.          *)

Finites == Seq(Finite)
ImprovesIn(w, k) == \A j \in 1 .. k - 1 : w[k] < w[j]
ReachesIn(w, k) == \A j \in 1 .. k - 1 : Level(w[k]) < Level(w[j])

LEMMA WorthsLemma ==
  ASSUME NEW w \in Finites, NEW v \in Finite
  PROVE  /\ Append(w, v) \in Finites /\ Len(w) \in Nat /\ Len(Append(w, v)) = Len(w) + 1
         /\ \A k \in 1 .. Len(w) : w[k] \in Finite /\ Append(w, v)[k] = w[k]
         /\ Append(w, v)[Len(w) + 1] = v
         /\ \A k \in 1 .. Len(w) : ImprovesIn(Append(w, v), k) <=> ImprovesIn(w, k)
         /\ \A k \in 1 .. Len(w) : ReachesIn(Append(w, v), k) <=> ReachesIn(w, k)
         /\ ImprovesIn(Append(w, v), Len(w) + 1) <=> \A j \in 1 .. Len(w) : v < w[j]
         /\ ReachesIn(Append(w, v), Len(w) + 1) <=> \A j \in 1 .. Len(w) : Level(v) < Level(w[j])
<1>. DEFINE x == Append(w, v)
            n == Len(w)
<1>1. /\ x \in Finites /\ n \in Nat /\ Len(x) = n + 1
      /\ \A k \in 1 .. n : w[k] \in Finite /\ x[k] = w[k]
      /\ x[n + 1] = v
  BY DEF Finites
<1>. HIDE DEF x, n
<1>2. ASSUME NEW k \in 1 .. n
      PROVE  /\ ImprovesIn(x, k) <=> ImprovesIn(w, k)
             /\ ReachesIn(x, k) <=> ReachesIn(w, k)
  <2>1. x[k] = w[k] /\ \A j \in 1 .. k - 1 : x[j] = w[j]
    BY <1>1
  <2>. QED
    BY <2>1 DEF ImprovesIn, ReachesIn
<1>3. (n + 1) - 1 = n
  BY <1>1
<1>4. ImprovesIn(x, n + 1) <=> \A j \in 1 .. n : v < w[j]
  BY <1>1, <1>3 DEF ImprovesIn
<1>5. ReachesIn(x, n + 1) <=> \A j \in 1 .. n : Level(v) < Level(w[j])
  BY <1>1, <1>3 DEF ReachesIn
<1>. QED
  BY <1>1, <1>2, <1>4, <1>5 DEF x, n

ToyFields == {"kind", "number_of_evaluations", "targets", "lines"}
ToyTells(l, w) ==
  /\ ToyFields \subseteq DOMAIN l /\ l.kind = "toy"
  /\ l.number_of_evaluations = Len(w)
  /\ IF Len(w) = 0 THEN l.targets.exponent = INT_MAX
     ELSE \E k \in 1 .. Len(w) : l.targets.exponent = Exponent(w[k])
  /\ \A k \in 1 .. Len(w) : l.targets.exponent <= Exponent(w[k])
  /\ Upward(l.lines, Len(w))
  /\ Numbers(l.lines) = {k \in 1 .. Len(w) : ReachesIn(w, k)}

LEMMA ToyStart ==
  ASSUME NEW observer_, NEW problem
  PROVE  ToyTells(logger_toy(observer_, problem), << >>)
<1>. DEFINE l == logger_toy(observer_, problem)
<1>1. /\ ToyFields \subseteq DOMAIN l /\ l.kind = "toy" /\ l.number_of_evaluations = 0
      /\ l.targets = coco_observer_targets /\ l.lines = << >>
  BY DEF logger_toy, ToyFields
<1>2. l.targets.exponent = INT_MAX
  BY <1>1 DEF coco_observer_targets
<1>3. 1 .. 0 = {}
  OBVIOUS
<1>. HIDE DEF l
<1>. QED
  BY <1>1, <1>2, <1>3, EmptyLemma DEF ToyTells, l

\* A target is hit for the first time where its level is below all before.
LEMMA FirstHitLemma ==
  ASSUME NEW w \in Finites, NEW v \in Finite, NEW e,
         IF Len(w) = 0 THEN e = INT_MAX ELSE \E k \in 1 .. Len(w) : e = Exponent(w[k]),
         \A k \in 1 .. Len(w) : e <= Exponent(w[k])
  PROVE  /\ Exponent(v) < e <=> \A k \in 1 .. Len(w) : Level(v) < Level(w[k])
         /\ e \in Int
<1>1. Len(w) \in Nat /\ \A k \in 1 .. Len(w) : w[k] \in Finite
  BY WorthsLemma
<1>2. Exponent(v) \in Int /\ Exponent(v) < INT_MAX
  BY ExponentOrder
<1>3. \A k \in 1 .. Len(w) :
        /\ Exponent(w[k]) \in Int
        /\ Exponent(v) < Exponent(w[k]) <=> Level(v) < Level(w[k])
  BY <1>1, ExponentOrder
<1>4. CASE Len(w) = 0
  BY <1>2, <1>4 DEF INT_MAX
<1>5. CASE Len(w) # 0
  <2>1. PICK k \in 1 .. Len(w) : e = Exponent(w[k])
    BY <1>5
  <2>2. \A j \in 1 .. Len(w) : e <= Exponent(w[j])
    OBVIOUS
  <2>. QED
    BY <1>2, <1>3, <2>1, <2>2
<1>. QED
  BY <1>4, <1>5

LEMMA ToyStep ==
  ASSUME NEW w \in Finites, NEW v \in Finite, NEW l, ToyTells(l, w)
  PROVE  ToyTells(logger_toy_evaluate(l, v), Append(w, v))
<1>. DEFINE n == Len(w)
            x == Append(w, v)
            target == coco_observer_targets_trigger(l.targets, v)
            line == <<n + 1, v, target.targets.value>>
            r == logger_toy_evaluate(l, v)
            e == l.targets.exponent
<1>1. /\ ToyFields \subseteq DOMAIN r /\ r.kind = "toy" /\ r.number_of_evaluations = n + 1
      /\ r.targets = target.targets
      /\ r.lines = IF target.hit THEN Append(l.lines, line) ELSE l.lines
  <2>. DEFINE l1 == [l EXCEPT !.number_of_evaluations = @ + 1]
              lines == IF target.hit THEN Append(l1.lines, <<l1.number_of_evaluations, v, target.targets.value>>)
                       ELSE l1.lines
  <2>1. /\ DOMAIN l1 = DOMAIN l /\ l1.kind = "toy" /\ l1.number_of_evaluations = n + 1
        /\ l1.targets = l.targets /\ l1.lines = l.lines
    BY DEF ToyTells, ToyFields
  <2>. HIDE DEF l1
  <2>2. r = [l1 EXCEPT !.targets = target.targets, !.lines = lines]
    BY <2>1 DEF logger_toy_evaluate, l1
  <2>. HIDE DEF target, r
  <2>3. lines = IF target.hit THEN Append(l.lines, line) ELSE l.lines
    BY <2>1
  <2>. HIDE DEF lines
  <2>4. /\ DOMAIN r = DOMAIN l1 /\ r.targets = target.targets /\ r.lines = lines
        /\ r.kind = l1.kind /\ r.number_of_evaluations = l1.number_of_evaluations
    BY <2>1, <2>2 DEF ToyTells, ToyFields
  <2>. QED
    BY <2>1, <2>3, <2>4 DEF ToyTells
<1>2. v \in Int
  BY DEF Finite
<1>3. /\ target.hit <=> Exponent(v) < e
      /\ target.targets.exponent = IF Exponent(v) < e THEN Exponent(v) ELSE e
  BY <1>2, TriggerLemma
<1>4. /\ x \in Finites /\ n \in Nat /\ Len(x) = n + 1
      /\ \A k \in 1 .. n : w[k] \in Finite /\ x[k] = w[k]
      /\ x[n + 1] = v
      /\ \A k \in 1 .. n : ReachesIn(x, k) <=> ReachesIn(w, k)
      /\ ReachesIn(x, n + 1) <=> \A j \in 1 .. n : Level(v) < Level(w[j])
  BY WorthsLemma
<1>5. (Exponent(v) < e <=> \A k \in 1 .. n : Level(v) < Level(w[k])) /\ e \in Int
  BY FirstHitLemma DEF ToyTells
<1>6. Exponent(v) \in Int /\ \A k \in 1 .. n : Exponent(w[k]) \in Int /\ e <= Exponent(w[k])
  BY <1>4, ExponentOrder DEF ToyTells
<1>7. n # 0 => \E k \in 1 .. n : e = Exponent(w[k])
  BY DEF ToyTells
<1>8. Upward(l.lines, n) /\ Numbers(l.lines) = {k \in 1 .. n : ReachesIn(w, k)}
  BY DEF ToyTells
<1>9. line[1] = n + 1
  OBVIOUS
<1>10. n = 0 => Exponent(v) < e
  BY <1>4, <1>5
<1>. HIDE DEF n, x, target, line, r, e
<1>11. \A k \in 1 .. n + 1 : k \in 1 .. n \/ k = n + 1
  BY <1>4
<1>12. \A k \in 1 .. n + 1 : r.targets.exponent <= Exponent(x[k])
  <2>. DEFINE f == r.targets.exponent
  <2>1. f \in Int /\ f <= e /\ f <= Exponent(v)
    BY <1>1, <1>3, <1>5, <1>6
  <2>. HIDE DEF f
  <2>2. \A k \in 1 .. n : f <= Exponent(x[k])
    BY <1>4, <1>5, <1>6, <2>1
  <2>3. f <= Exponent(x[n + 1])
    BY <1>4, <2>1
  <2>. QED
    BY <1>11, <2>2, <2>3 DEF f
<1>13. \E k \in 1 .. n + 1 : r.targets.exponent = Exponent(x[k])
  <2>1. n + 1 \in 1 .. n + 1 /\ 1 .. n \subseteq 1 .. n + 1
    BY <1>4
  <2>2. CASE Exponent(v) < e
    BY <1>1, <1>3, <1>4, <2>1, <2>2
  <2>3. CASE ~ (Exponent(v) < e)
    <3>1. PICK k \in 1 .. n : e = Exponent(w[k])
      BY <1>7, <1>10, <2>3
    <3>. QED
      BY <1>1, <1>3, <1>4, <2>1, <2>3, <3>1
  <2>. QED
    BY <2>2, <2>3
<1>14. Upward(r.lines, n + 1)
  BY <1>1, <1>4, <1>8, <1>9, UpwardLemma
<1>15. Numbers(r.lines) = {k \in 1 .. n + 1 : ReachesIn(x, k)}
  <2>1. CASE target.hit
    <3>1. Numbers(r.lines) = Numbers(l.lines) \union {n + 1}
      <4>1. n + 1 \in Nat /\ n < n + 1
        BY <1>4
      <4>. QED
        BY <1>1, <1>4, <1>8, <1>9, <2>1, <4>1, UpwardLemma
    <3>2. ReachesIn(x, n + 1)
      BY <1>3, <1>4, <1>5, <2>1
    <3>. QED
      BY <1>4, <1>8, <1>11, <3>1, <3>2
  <2>2. CASE ~ target.hit
    <3>1. ~ ReachesIn(x, n + 1)
      BY <1>3, <1>4, <1>5, <2>2
    <3>. QED
      BY <1>1, <1>4, <1>8, <1>11, <2>2, <3>1
  <2>. QED
    BY <2>1, <2>2
<1>16. n + 1 # 0
  BY <1>4
<1>. QED
  BY <1>1, <1>4, <1>12, <1>13, <1>14, <1>15, <1>16 DEF ToyTells, r, x

RwFields == {"kind", "number_of_evaluations", "best_value", "log_only_better", "objectives", "lines"}
RwTells(l, w) ==
  /\ RwFields \subseteq DOMAIN l /\ l.kind = "rw"
  /\ l.number_of_evaluations = Len(w)
  /\ l.log_only_better => l.objectives = 1
  /\ l.objectives = 1 =>
       /\ IF Len(w) = 0 THEN l.best_value = DBL_MAX
          ELSE \E k \in 1 .. Len(w) : l.best_value = w[k]
       /\ \A k \in 1 .. Len(w) : l.best_value <= w[k]
  /\ Upward(l.lines, Len(w))
  /\ Numbers(l.lines) = IF l.log_only_better THEN {k \in 1 .. Len(w) : ImprovesIn(w, k)} ELSE 1 .. Len(w)

LEMMA RwStart ==
  ASSUME NEW observer_, NEW problem
  PROVE  RwTells(logger_rw(observer_, problem), << >>)
<1>. DEFINE l == logger_rw(observer_, problem)
            only == observer_.log_only_better /\ Objectives(problem) = 1
<1>1. /\ RwFields \subseteq DOMAIN l /\ l.kind = "rw" /\ l.number_of_evaluations = 0
      /\ l.best_value = DBL_MAX /\ l.lines = << >>
      /\ l.log_only_better = only /\ l.objectives = Objectives(problem)
  BY DEF logger_rw, RwFields
<1>2. l.log_only_better => l.objectives = 1
  BY <1>1
<1>3. 1 .. 0 = {}
  OBVIOUS
<1>. HIDE DEF l
<1>. QED
  BY <1>1, <1>2, <1>3, EmptyLemma DEF RwTells, l

LEMMA RwStep ==
  ASSUME NEW w \in Finites, NEW v \in Finite, NEW l, RwTells(l, w)
  PROVE  RwTells(logger_rw_evaluate(l, v), Append(w, v))
<1>. DEFINE n == Len(w)
            x == Append(w, v)
            b == l.best_value
            better == l.objectives = 1 /\ v < b
            line == <<n + 1, v>>
            r == logger_rw_evaluate(l, v)
<1>1. /\ RwFields \subseteq DOMAIN r /\ r.kind = "rw" /\ r.number_of_evaluations = n + 1
      /\ r.objectives = l.objectives /\ r.log_only_better = l.log_only_better
      /\ r.best_value = IF better THEN v ELSE b
      /\ r.lines = IF better \/ ~ l.log_only_better THEN Append(l.lines, line) ELSE l.lines
  <2>. DEFINE l1 == [l EXCEPT !.number_of_evaluations = @ + 1]
              better1 == l1.objectives = 1 /\ v < l1.best_value
              best == IF better1 THEN v ELSE l1.best_value
              lines == IF better1 \/ ~ l1.log_only_better
                       THEN Append(l1.lines, <<l1.number_of_evaluations, v>>) ELSE l1.lines
  <2>1. /\ DOMAIN l1 = DOMAIN l /\ l1.kind = "rw" /\ l1.number_of_evaluations = n + 1
        /\ l1.objectives = l.objectives /\ l1.log_only_better = l.log_only_better
        /\ l1.best_value = b /\ l1.lines = l.lines
    BY DEF RwTells, RwFields
  <2>. HIDE DEF l1
  <2>2. r = [l1 EXCEPT !.best_value = best, !.lines = lines]
    BY <2>1 DEF logger_rw_evaluate, l1, RwTells, RwFields
  <2>. HIDE DEF r
  <2>3. lines = IF better \/ ~ l.log_only_better THEN Append(l.lines, line) ELSE l.lines
    BY <2>1
  <2>4. best = IF better THEN v ELSE b
    BY <2>1
  <2>. HIDE DEF lines, best
  <2>5. /\ DOMAIN r = DOMAIN l1 /\ r.best_value = best /\ r.lines = lines
        /\ r.kind = l1.kind /\ r.number_of_evaluations = l1.number_of_evaluations
        /\ r.objectives = l1.objectives /\ r.log_only_better = l1.log_only_better
    BY <2>1, <2>2 DEF RwTells, RwFields
  <2>. QED
    BY <2>1, <2>3, <2>4, <2>5 DEF RwTells
<1>2. v \in Int /\ v < DBL_MAX
  BY DEF Finite
<1>4. /\ x \in Finites /\ n \in Nat /\ Len(x) = n + 1
      /\ \A k \in 1 .. n : w[k] \in Finite /\ x[k] = w[k]
      /\ x[n + 1] = v
      /\ \A k \in 1 .. n : ImprovesIn(x, k) <=> ImprovesIn(w, k)
      /\ ImprovesIn(x, n + 1) <=> \A j \in 1 .. n : v < w[j]
  BY WorthsLemma
<1>5. \A k \in 1 .. n : w[k] \in Int
  BY <1>4 DEF Finite
<1>6. l.objectives = 1 =>
        /\ n = 0 => b = DBL_MAX
        /\ n # 0 => \E k \in 1 .. n : b = w[k]
        /\ \A k \in 1 .. n : b <= w[k]
  BY DEF RwTells
<1>7. l.log_only_better => l.objectives = 1
  BY DEF RwTells
<1>8. /\ Upward(l.lines, n)
      /\ l.log_only_better => Numbers(l.lines) = {k \in 1 .. n : ImprovesIn(w, k)}
      /\ ~ l.log_only_better => Numbers(l.lines) = 1 .. n
  BY DEF RwTells
<1>9. line[1] = n + 1
  OBVIOUS
<1>. HIDE DEF n, x, line, r, b
<1>10. \A k \in 1 .. n + 1 : k \in 1 .. n \/ k = n + 1
  BY <1>4
<1>11. n + 1 \in 1 .. n + 1 /\ 1 .. n \subseteq 1 .. n + 1 /\ n + 1 # 0 /\ n + 1 \in Nat /\ n < n + 1
  BY <1>4
<1>12. ASSUME l.objectives = 1
       PROVE  /\ b \in Int
              /\ better <=> ImprovesIn(x, n + 1)
              /\ \E k \in 1 .. n + 1 : r.best_value = x[k]
              /\ \A k \in 1 .. n + 1 : r.best_value <= x[k]
  <2>1. n # 0 => \E k \in 1 .. n : b = w[k]
    BY <1>6, <1>12
  <2>2. b \in Int
    <3>1. CASE n = 0
      BY <3>1, <1>6, <1>12 DEF DBL_MAX
    <3>2. CASE n # 0
      BY <3>2, <2>1, <1>5
    <3>. QED
      BY <3>1, <3>2
  <2>3. better <=> v < b
    BY <1>12
  <2>4. better <=> ImprovesIn(x, n + 1)
    <3>1. CASE n = 0
      BY <3>1, <1>2, <1>4, <1>6, <1>12, <2>3
    <3>2. CASE n # 0
      <4>1. PICK k \in 1 .. n : b = w[k]
        BY <2>1, <3>2
      <4>2. \A j \in 1 .. n : b <= w[j]
        BY <1>6, <1>12
      <4>. QED
        BY <1>2, <1>4, <1>5, <2>2, <2>3, <4>1, <4>2
    <3>. QED
      BY <3>1, <3>2
  <2>. HIDE DEF better
  <2>5. \E k \in 1 .. n + 1 : r.best_value = x[k]
    <3>1. CASE better
      BY <1>1, <1>4, <1>11, <3>1
    <3>2. CASE ~ better
      <4>1. n # 0
        BY <1>2, <1>6, <1>12, <2>3, <3>2
      <4>2. PICK k \in 1 .. n : b = w[k]
        BY <2>1, <4>1
      <4>. QED
        BY <1>1, <1>4, <1>11, <3>2, <4>2
    <3>. QED
      BY <3>1, <3>2
  <2>6. \A k \in 1 .. n + 1 : r.best_value <= x[k]
    <3>. DEFINE f == r.best_value
    <3>1. f \in Int /\ f <= b /\ f <= v
      <4>1. CASE better
        BY <4>1, <1>1, <1>2, <2>2, <2>3
      <4>2. CASE ~ better
        BY <4>2, <1>1, <1>2, <2>2, <2>3
      <4>. QED
        BY <4>1, <4>2
    <3>2. \A k \in 1 .. n : b <= w[k]
      BY <1>6, <1>12
    <3>. HIDE DEF f
    <3>3. \A k \in 1 .. n : f <= x[k]
      BY <1>4, <1>5, <2>2, <3>1, <3>2
    <3>4. f <= x[n + 1]
      BY <1>4, <3>1
    <3>. QED
      BY <1>10, <3>3, <3>4 DEF f
  <2>. QED
    BY <2>2, <2>4, <2>5, <2>6
<1>. HIDE DEF better
<1>13. Upward(r.lines, n + 1)
  BY <1>1, <1>8, <1>9, <1>11, <1>4, UpwardLemma
<1>14. better \/ ~ l.log_only_better => Numbers(r.lines) = Numbers(l.lines) \union {n + 1}
  BY <1>1, <1>8, <1>9, <1>11, <1>4, UpwardLemma
<1>15. l.log_only_better => Numbers(r.lines) = {k \in 1 .. n + 1 : ImprovesIn(x, k)}
  <2>. SUFFICES ASSUME l.log_only_better PROVE Numbers(r.lines) = {k \in 1 .. n + 1 : ImprovesIn(x, k)}
    OBVIOUS
  <2>1. better <=> ImprovesIn(x, n + 1)
    BY <1>7, <1>12
  <2>2. CASE better
    <3>1. Numbers(r.lines) = {k \in 1 .. n : ImprovesIn(w, k)} \union {n + 1}
      BY <1>8, <1>14, <2>2
    <3>. QED
      BY <1>4, <1>10, <1>11, <2>1, <2>2, <3>1
  <2>3. CASE ~ better
    <3>1. Numbers(r.lines) = {k \in 1 .. n : ImprovesIn(w, k)}
      BY <1>1, <1>8, <2>3
    <3>. QED
      BY <1>4, <1>10, <1>11, <2>1, <2>3, <3>1
  <2>. QED
    BY <2>2, <2>3
<1>16. ~ l.log_only_better => Numbers(r.lines) = 1 .. n + 1
  BY <1>8, <1>10, <1>11, <1>14
<1>. QED
  BY <1>1, <1>4, <1>7, <1>11, <1>12, <1>13, <1>15, <1>16 DEF RwTells, r, x

BbobFields ==
  {"kind", "number_of_evaluations", "number_of_evaluations_constraints", "best_fvalue",
   "written_last_eval", "is_initialized", "index_file", "targets", "evaluations", "fdata", "tdata"}
BbobTells(l, w) ==
  /\ BbobFields \subseteq DOMAIN l /\ l.kind = "bbob"
  /\ l.number_of_evaluations = Len(w)
  /\ Len(w) # 0 => \E k \in 1 .. Len(w) : l.best_fvalue = w[k]
  /\ \A k \in 1 .. Len(w) : l.best_fvalue <= w[k]
  /\ \/ l.targets.exponent = INT_MAX
     \/ \E k \in 1 .. Len(w) : l.targets.exponent = Exponent(w[k])
  /\ Upward(l.fdata, Len(w))
  /\ \A i \in DOMAIN l.fdata : l.fdata[i][2] = w[l.fdata[i][1]]
  /\ \A k \in 1 .. Len(w) : ReachesIn(w, k) => k \in Numbers(l.fdata)
  /\ \A k \in Numbers(l.fdata) : ImprovesIn(w, k)
  /\ IF l.written_last_eval
     THEN /\ Upward(l.tdata, Len(w)) /\ Len(l.tdata) # 0
          /\ l.tdata[Len(l.tdata)] = <<Len(w), l.best_fvalue>>
     ELSE Upward(l.tdata, Len(w) - 1)

LEMMA BbobStart ==
  ASSUME NEW observer_, NEW problem
  PROVE  BbobTells(logger_bbob(observer_, problem), << >>)
<1>. DEFINE l == logger_bbob(observer_, problem)
<1>1. /\ BbobFields \subseteq DOMAIN l /\ l.kind = "bbob" /\ l.number_of_evaluations = 0
      /\ l.targets = coco_observer_targets /\ l.fdata = << >> /\ l.tdata = << >>
      /\ l.written_last_eval = FALSE
  BY DEF logger_bbob, BbobFields
<1>2. l.targets.exponent = INT_MAX
  BY <1>1 DEF coco_observer_targets
<1>3. 1 .. 0 = {} /\ DOMAIN << >> = {}
  OBVIOUS
<1>. HIDE DEF l
<1>. QED
  BY <1>1, <1>2, <1>3, EmptyLemma DEF BbobTells, l

\* Opening the files changes nothing that is told.
LEMMA BbobReady ==
  ASSUME NEW w, NEW l, BbobTells(l, w), NEW b, NEW i
  PROVE  /\ BbobTells(logger_bbob_initialize(l, b, i).logger, w)
         /\ logger_bbob_initialize(l, b, i).logger.is_initialized
<1>. DEFINE r == logger_bbob_initialize(l, b, i).logger
            file == FileOf(l, logger_bbob_openIndexFile(l, b, i).bbob)
<1>1. r = [l EXCEPT !.is_initialized = TRUE, !.index_file = file]
  BY DEF logger_bbob_initialize
<1>. HIDE DEF r, file
<1>2. BbobFields \subseteq DOMAIN l
  BY DEF BbobTells
<1>3. /\ DOMAIN r = DOMAIN l /\ r.kind = l.kind /\ r.is_initialized
      /\ r.number_of_evaluations = l.number_of_evaluations /\ r.best_fvalue = l.best_fvalue
      /\ r.targets = l.targets /\ r.fdata = l.fdata /\ r.tdata = l.tdata
      /\ r.written_last_eval = l.written_last_eval
  BY <1>1, <1>2 DEF BbobFields
<1>4. BbobTells(r, w)
  BY <1>2, <1>3 DEF BbobTells
<1>. QED
  BY <1>3, <1>4 DEF r

\* What an evaluation makes of the fields of a logger.
BbobChanged(l, r, v, hit, exponent, timed) ==
  LET first == l.number_of_evaluations + 1 = 1
      better == first \/ v < l.best_fvalue
      asked == better /\ ~ first
      line == <<r.number_of_evaluations, r.best_fvalue>>
  IN /\ BbobFields \subseteq DOMAIN r /\ r.kind = l.kind
     /\ r.is_initialized = l.is_initialized
     /\ r.number_of_evaluations = l.number_of_evaluations + 1
     /\ r.best_fvalue = IF better THEN v ELSE l.best_fvalue
     /\ r.targets.exponent = IF asked THEN exponent ELSE l.targets.exponent
     /\ r.fdata = IF first \/ (asked /\ hit) THEN Append(l.fdata, line) ELSE l.fdata
     /\ r.tdata = IF timed THEN Append(l.tdata, line) ELSE l.tdata
     /\ r.written_last_eval = timed

LEMMA BbobChange ==
  ASSUME NEW l, BbobFields \subseteq DOMAIN l, NEW y, NEW g, NEW n
  PROVE  LET v == Best(y, 0) + g
             target == coco_observer_targets_trigger(l.targets, v)
         IN \E timed : BbobChanged(l, logger_bbob_evaluate(l, y, g, n), v, target.hit,
                                   target.targets.exponent, timed)
<1>. DEFINE v == Best(y, 0) + g
            l1 == [l EXCEPT !.number_of_evaluations = @ + 1,
                            !.number_of_evaluations_constraints = n]
            first == l1.number_of_evaluations = 1
            better == first \/ v < l1.best_fvalue
            l2 == IF better THEN [l1 EXCEPT !.best_fvalue = v] ELSE l1
            target == coco_observer_targets_trigger(l2.targets, v)
            asked == better /\ ~ first
            l3 == IF asked THEN [l2 EXCEPT !.targets = target.targets] ELSE l2
            time == coco_observer_evaluations_trigger(l3.evaluations,
                      l3.number_of_evaluations + l3.number_of_evaluations_constraints)
            line == <<l3.number_of_evaluations, l3.best_fvalue>>
            fdata == IF first \/ (asked /\ target.hit) THEN Append(l3.fdata, line) ELSE l3.fdata
            tdata == IF time.hit THEN Append(l3.tdata, line) ELSE l3.tdata
            r == logger_bbob_evaluate(l, y, g, n)
<1>1. /\ DOMAIN l1 = DOMAIN l /\ l1.kind = l.kind /\ l1.is_initialized = l.is_initialized
      /\ l1.number_of_evaluations = l.number_of_evaluations + 1
      /\ l1.best_fvalue = l.best_fvalue /\ l1.targets = l.targets
      /\ l1.fdata = l.fdata /\ l1.tdata = l.tdata
  BY DEF BbobFields
<1>2. /\ DOMAIN l2 = DOMAIN l /\ l2.kind = l.kind /\ l2.is_initialized = l.is_initialized
      /\ l2.number_of_evaluations = l.number_of_evaluations + 1
      /\ l2.best_fvalue = IF better THEN v ELSE l.best_fvalue
      /\ l2.targets = l.targets /\ l2.fdata = l.fdata /\ l2.tdata = l.tdata
  <2>. HIDE DEF l1, v
  <2>1. CASE better
    <3>. HIDE DEF better
    <3>. QED
      BY <1>1, <2>1 DEF BbobFields
  <2>2. CASE ~ better
    <3>. HIDE DEF better
    <3>. QED
      BY <1>1, <2>2
  <2>. QED
    BY <2>1, <2>2
<1>3. /\ DOMAIN l3 = DOMAIN l /\ l3.kind = l.kind /\ l3.is_initialized = l.is_initialized
      /\ l3.number_of_evaluations = l.number_of_evaluations + 1
      /\ l3.best_fvalue = l2.best_fvalue
      /\ l3.targets = IF asked THEN target.targets ELSE l.targets
      /\ l3.fdata = l.fdata /\ l3.tdata = l.tdata
  <2>. HIDE DEF l2, target, asked
  <2>1. CASE asked
    BY <1>2, <2>1 DEF BbobFields
  <2>2. CASE ~ asked
    BY <1>2, <2>2
  <2>. QED
    BY <2>1, <2>2
<1>4. r = [l3 EXCEPT !.fdata = fdata, !.evaluations = time.evaluations,
                     !.tdata = tdata, !.written_last_eval = time.hit]
  BY DEF logger_bbob_evaluate, logger_bbob_write_data
<1>. HIDE DEF l3, fdata, tdata, time, r
<1>5. /\ DOMAIN r = DOMAIN l3 /\ r.kind = l3.kind /\ r.is_initialized = l3.is_initialized
      /\ r.number_of_evaluations = l3.number_of_evaluations /\ r.best_fvalue = l3.best_fvalue
      /\ r.targets = l3.targets
      /\ r.fdata = fdata /\ r.tdata = tdata /\ r.written_last_eval = time.hit
  BY <1>3, <1>4 DEF BbobFields
<1>6. target = coco_observer_targets_trigger(l.targets, v)
  BY <1>2
<1>7. first <=> l.number_of_evaluations + 1 = 1
  BY <1>1
<1>8. better <=> l.number_of_evaluations + 1 = 1 \/ v < l.best_fvalue
  BY <1>1
<1>9. line = <<r.number_of_evaluations, r.best_fvalue>>
  BY <1>5
<1>10. fdata = IF first \/ (asked /\ target.hit) THEN Append(l.fdata, line) ELSE l.fdata
  <2>. HIDE DEF first, asked, target, line
  <2>. QED
    BY <1>3 DEF fdata
<1>11. tdata = IF time.hit THEN Append(l.tdata, line) ELSE l.tdata
  <2>. HIDE DEF line
  <2>. QED
    BY <1>3 DEF tdata
<1>12. r.targets.exponent = IF asked THEN target.targets.exponent ELSE l.targets.exponent
  <2>. HIDE DEF asked, target
  <2>. QED
    BY <1>3, <1>5
<1>13. r.best_fvalue = IF better THEN v ELSE l.best_fvalue
  <2>. HIDE DEF better, v
  <2>. QED
    BY <1>2, <1>3, <1>5
<1>. HIDE DEF line, target, better, first, v
<1>14. BbobChanged(l, r, v, target.hit, target.targets.exponent, time.hit)
  BY <1>3, <1>5, <1>7, <1>8, <1>9, <1>10, <1>11, <1>12, <1>13 DEF BbobChanged
<1>. QED
  BY <1>6, <1>14 DEF r, v
LEMMA BbobStep ==
  ASSUME NEW w \in Finites, NEW v \in Finite, 0 <= v, \A k \in 1 .. Len(w) : 0 <= w[k],
         NEW l, BbobTells(l, w),
         NEW hit, hit <=> Exponent(v) < l.targets.exponent,
         NEW e, e = IF Exponent(v) < l.targets.exponent THEN Exponent(v) ELSE l.targets.exponent,
         NEW timed, NEW r, BbobChanged(l, r, v, hit, e, timed)
  PROVE  BbobTells(r, Append(w, v))
<1>. DEFINE n == Len(w)
            x == Append(w, v)
            first == l.number_of_evaluations + 1 = 1
            better == first \/ v < l.best_fvalue
            asked == better /\ ~ first
            b == r.best_fvalue
            old == l.targets.exponent
            line == <<r.number_of_evaluations, r.best_fvalue>>
<1>1. /\ BbobFields \subseteq DOMAIN r /\ r.kind = "bbob"
      /\ r.number_of_evaluations = l.number_of_evaluations + 1
      /\ b = IF better THEN v ELSE l.best_fvalue
      /\ r.targets.exponent = IF asked THEN e ELSE old
      /\ r.fdata = IF first \/ (asked /\ hit) THEN Append(l.fdata, line) ELSE l.fdata
      /\ r.tdata = IF timed THEN Append(l.tdata, line) ELSE l.tdata
      /\ r.written_last_eval = timed
  BY DEF BbobChanged, BbobTells
<1>2. /\ l.number_of_evaluations = n
      /\ n # 0 => \E k \in 1 .. n : l.best_fvalue = w[k]
      /\ \A k \in 1 .. n : l.best_fvalue <= w[k]
      /\ old = INT_MAX \/ \E k \in 1 .. n : old = Exponent(w[k])
      /\ Upward(l.fdata, n)
      /\ \A i \in DOMAIN l.fdata : l.fdata[i][2] = w[l.fdata[i][1]]
      /\ \A k \in 1 .. n : ReachesIn(w, k) => k \in Numbers(l.fdata)
      /\ \A k \in Numbers(l.fdata) : ImprovesIn(w, k)
  BY DEF BbobTells
<1>3. Upward(l.tdata, n) \/ Upward(l.tdata, n - 1)
  BY DEF BbobTells
<1>4. /\ x \in Finites /\ n \in Nat /\ Len(x) = n + 1
      /\ \A k \in 1 .. n : w[k] \in Finite /\ x[k] = w[k]
      /\ x[n + 1] = v
      /\ \A k \in 1 .. n : ImprovesIn(x, k) <=> ImprovesIn(w, k)
      /\ \A k \in 1 .. n : ReachesIn(x, k) <=> ReachesIn(w, k)
      /\ ImprovesIn(x, n + 1) <=> \A j \in 1 .. n : v < w[j]
      /\ ReachesIn(x, n + 1) <=> \A j \in 1 .. n : Level(v) < Level(w[j])
  BY WorthsLemma
<1>5. /\ v \in Int /\ \A k \in 1 .. n : w[k] \in Int /\ Level(w[k]) \in Int /\ Exponent(w[k]) \in Int
      /\ Level(v) \in Int /\ Exponent(v) \in Int /\ Exponent(v) < INT_MAX
      /\ \A k \in 1 .. n : Exponent(v) < Exponent(w[k]) <=> Level(v) < Level(w[k])
  BY <1>4, ExponentOrder DEF Finite
<1>6. \A k \in 1 .. n : w[k] <= v => Level(w[k]) <= Level(v)
  BY <1>4, LevelMonotone
<1>7. line[1] = n + 1 /\ line[2] = b
  BY <1>1, <1>2
<1>8. Len(x) = n + 1 /\ r.number_of_evaluations = n + 1
  BY <1>1, <1>2, <1>4
<1>9. first <=> n = 0
  BY <1>2, <1>4
<1>10. line = <<n + 1, b>>
  BY <1>8
<1>. HIDE DEF x, n, line, b, old, first
<1>11. /\ \A k \in 1 .. n + 1 : k \in 1 .. n \/ k = n + 1
       /\ n + 1 \in 1 .. n + 1 /\ 1 .. n \subseteq 1 .. n + 1 /\ n + 1 # 0 /\ n + 1 \in Nat /\ n < n + 1
       /\ 1 .. n - 1 \subseteq 1 .. n /\ (n + 1) - 1 = n /\ (n = 0 => 1 .. n = {})
  BY <1>4
<1>12. n # 0 => l.best_fvalue \in Int
  BY <1>2, <1>5
<1>13. better <=> \A k \in 1 .. n : v < w[k]
  <2>1. CASE n = 0
    BY <1>9, <1>11, <2>1
  <2>2. CASE n # 0
    <3>1. PICK k \in 1 .. n : l.best_fvalue = w[k]
      BY <1>2, <2>2
    <3>2. \A j \in 1 .. n : l.best_fvalue <= w[j]
      BY <1>2
    <3>. QED
      BY <1>5, <1>9, <2>2, <3>1, <3>2
  <2>. QED
    BY <2>1, <2>2
<1>14. better => b = v
  BY <1>1
<1>15. ~ better => b = l.best_fvalue
  BY <1>1
<1>16. ~ better => n # 0 /\ l.best_fvalue <= v
  BY <1>5, <1>9, <1>12
<1>17. asked <=> better /\ n # 0
  BY <1>9
<1>. HIDE DEF better, asked
<1>18. \E k \in 1 .. n + 1 : b = x[k]
  <2>1. CASE better
    BY <1>4, <1>11, <1>14, <2>1
  <2>2. CASE ~ better
    <3>1. PICK k \in 1 .. n : l.best_fvalue = w[k]
      BY <1>2, <1>16, <2>2
    <3>. QED
      BY <1>4, <1>11, <1>15, <2>2, <3>1
  <2>. QED
    BY <2>1, <2>2
<1>19. \A k \in 1 .. n + 1 : b <= x[k]
  <2>1. CASE better
    <3>1. \A k \in 1 .. n : b <= x[k]
      <4>1. b = v /\ \A k \in 1 .. n : v < w[k]
        BY <1>13, <1>14, <2>1
      <4>2. ASSUME NEW k \in 1 .. n PROVE v <= w[k]
        BY <1>5, <4>1
      <4>3. \A k \in 1 .. n : x[k] = w[k]
        BY <1>4
      <4>. QED
        BY <4>1, <4>2, <4>3
    <3>2. b <= x[n + 1]
      BY <1>4, <1>5, <1>14, <2>1
    <3>. QED
      BY <1>11, <3>1, <3>2
  <2>2. CASE ~ better
    <3>1. \A k \in 1 .. n : b <= x[k]
      BY <1>2, <1>4, <1>15, <2>2
    <3>2. b <= x[n + 1]
      BY <1>4, <1>15, <1>16, <2>2
    <3>. QED
      BY <1>11, <3>1, <3>2
  <2>. QED
    BY <2>1, <2>2
<1>20. r.targets.exponent = INT_MAX \/ \E k \in 1 .. n + 1 : r.targets.exponent = Exponent(x[k])
  <2>1. r.targets.exponent = old \/ r.targets.exponent = Exponent(v)
    BY <1>1 DEF old
  <2>2. CASE r.targets.exponent = old
    BY <1>2, <1>4, <1>11, <2>2
  <2>3. CASE r.targets.exponent = Exponent(v)
    BY <1>4, <1>11, <2>3
  <2>. QED
    BY <2>1, <2>2, <2>3
<1>. DEFINE written == first \/ (asked /\ hit)
<1>21. written => better
  BY <1>9, <1>13, <1>11, <1>17
<1>22. ReachesIn(x, n + 1) => written
  <2>. SUFFICES ASSUME ReachesIn(x, n + 1), n # 0 PROVE asked /\ hit
    BY <1>9
  <2>1. \A k \in 1 .. n : Level(v) < Level(w[k])
    BY <1>4
  <2>2. \A k \in 1 .. n : v < w[k]
    BY <1>5, <1>6, <2>1
  <2>3. asked
    BY <1>13, <1>17, <2>2
  <2>4. Exponent(v) < old
    BY <1>2, <1>5, <2>1
  <2>. QED
    BY <2>3, <2>4 DEF old
<1>23. r.fdata = IF written THEN Append(l.fdata, line) ELSE l.fdata
  BY <1>1
<1>. HIDE DEF written
<1>24. /\ Upward(Append(l.fdata, line), n + 1) /\ Upward(l.fdata, n + 1)
       /\ Numbers(Append(l.fdata, line)) = Numbers(l.fdata) \union {n + 1}
  BY <1>2, <1>4, <1>7, <1>11, UpwardLemma
<1>25. Upward(r.fdata, n + 1)
  BY <1>23, <1>24
<1>26. Numbers(r.fdata) = IF written THEN Numbers(l.fdata) \union {n + 1} ELSE Numbers(l.fdata)
  BY <1>23, <1>24
<1>27. Numbers(l.fdata) \subseteq 1 .. n
  BY <1>2 DEF Upward, Numbers
<1>28. \A k \in 1 .. n + 1 : ReachesIn(x, k) => k \in Numbers(r.fdata)
  BY <1>2, <1>4, <1>11, <1>22, <1>26
<1>29. \A k \in Numbers(r.fdata) : ImprovesIn(x, k)
  <2>1. written => ImprovesIn(x, n + 1)
    BY <1>4, <1>13, <1>21
  <2>2. \A k \in Numbers(l.fdata) : ImprovesIn(x, k)
    BY <1>2, <1>4, <1>27
  <2>. QED
    BY <1>26, <2>1, <2>2
<1>30. \A i \in DOMAIN r.fdata : r.fdata[i][2] = x[r.fdata[i][1]]
  <2>1. /\ DOMAIN l.fdata = 1 .. Len(l.fdata) /\ Len(l.fdata) \in Nat
        /\ DOMAIN Append(l.fdata, line) = 1 .. Len(l.fdata) + 1
        /\ \A i \in 1 .. Len(l.fdata) : Append(l.fdata, line)[i] = l.fdata[i]
        /\ Append(l.fdata, line)[Len(l.fdata) + 1] = line
    BY <1>2, AppendLemma DEF Upward
  <2>2. \A i \in DOMAIN l.fdata : l.fdata[i][1] \in 1 .. n /\ l.fdata[i][2] = x[l.fdata[i][1]]
    BY <1>2, <1>4 DEF Upward
  <2>3. CASE written
    <3>1. line[2] = x[line[1]]
      BY <1>4, <1>7, <1>14, <1>21, <2>3
    <3>2. \A i \in 1 .. Len(l.fdata) + 1 : i \in 1 .. Len(l.fdata) \/ i = Len(l.fdata) + 1
      BY <2>1
    <3>3. r.fdata = Append(l.fdata, line)
      BY <1>23, <2>3
    <3>. QED
      BY <2>1, <2>2, <3>1, <3>2, <3>3
  <2>4. CASE ~ written
    BY <1>23, <2>2, <2>4
  <2>. QED
    BY <2>3, <2>4
<1>31. Upward(l.tdata, n)
  <2>1. CASE Upward(l.tdata, n - 1)
    <3>1. 1 .. n - 1 \subseteq 1 .. n
      BY <1>4
    <3>. QED
      BY <2>1, <3>1 DEF Upward
  <2>. QED
    BY <1>3, <2>1
<1>32. timed => /\ Upward(r.tdata, n + 1) /\ Len(r.tdata) # 0
                /\ r.tdata[Len(r.tdata)] = <<n + 1, b>>
  <2>. SUFFICES ASSUME timed PROVE /\ Upward(r.tdata, n + 1) /\ Len(r.tdata) # 0
                                   /\ r.tdata[Len(r.tdata)] = <<n + 1, b>>
    OBVIOUS
  <2>1. r.tdata = Append(l.tdata, line)
    BY <1>1
  <2>2. /\ Len(l.tdata) \in Nat /\ Len(Append(l.tdata, line)) = Len(l.tdata) + 1
        /\ Append(l.tdata, line)[Len(l.tdata) + 1] = line
    BY <1>31, AppendLemma DEF Upward
  <2>3. Upward(Append(l.tdata, line), n + 1)
    BY <1>4, <1>7, <1>11, <1>31, UpwardLemma
  <2>. QED
    BY <1>10, <2>1, <2>2, <2>3
<1>33. ~ timed => Upward(r.tdata, n)
  BY <1>1, <1>31
<1>34. IF r.written_last_eval
       THEN Upward(r.tdata, n + 1) /\ Len(r.tdata) # 0 /\ r.tdata[Len(r.tdata)] = <<n + 1, b>>
       ELSE Upward(r.tdata, (n + 1) - 1)
  <2>1. (n + 1) - 1 = n
    BY <1>11
  <2>2. CASE timed
    <3>1. r.written_last_eval
      BY <1>1, <2>2
    <3>. QED
      BY <1>32, <2>2, <3>1
  <2>3. CASE ~ timed
    <3>1. ~ r.written_last_eval
      BY <1>1, <2>3
    <3>. QED
      BY <1>33, <2>1, <2>3, <3>1
  <2>. QED
    BY <2>2, <2>3
<1>. QED
  BY <1>1, <1>8, <1>11, <1>18, <1>19, <1>20, <1>25, <1>28, <1>29, <1>30, <1>34 DEF BbobTells, b, x
----------------------------------------------------------------------------
(* The logger of the current problem and its run.                          *)

Kinds == {"none", "bbob", "toy", "rw"}
Evaluations ==
  {e \in [y : Int, g : Nat] : - DBL_MAX < e.y /\ Best(e.y, 0) + e.g < DBL_MAX}
WorthOf(kind, e) == IF kind = "bbob" THEN Best(e.y, 0) + e.g ELSE e.y
WorthsOf(kind, h) == [k \in 1 .. Len(h) |-> WorthOf(kind, h[k])]

Tells(l, h) ==
  LET w == WorthsOf(l.kind, h)
  IN /\ l.kind \in Kinds
     /\ l.kind = "bbob" => BbobTells(l, w) /\ (h # << >> => l.is_initialized)
     /\ l.kind = "toy" => ToyTells(l, w)
     /\ l.kind = "rw" => RwTells(l, w)

LogInv ==
  /\ programme \in Programmes
  /\ experiments \in 0 .. Len(programme)
  /\ suite # NoSuite => experiments # 0
  /\ observer.kind \in Kinds
  /\ history \in Seq(Evaluations)
  /\ Tells(logger, history)

LEMMA WorthsOfLemma ==
  ASSUME NEW h \in Seq(Evaluations), NEW e \in Evaluations, NEW kind
  PROVE  /\ WorthOf(kind, e) \in Finite
         /\ kind = "bbob" => 0 <= WorthOf(kind, e)
         /\ WorthsOf(kind, h) \in Finites /\ Len(WorthsOf(kind, h)) = Len(h)
         /\ kind = "bbob" => \A k \in 1 .. Len(h) : 0 <= WorthsOf(kind, h)[k]
         /\ WorthsOf(kind, Append(h, e)) = Append(WorthsOf(kind, h), WorthOf(kind, e))
<1>1. ASSUME NEW f \in Evaluations
      PROVE  WorthOf(kind, f) \in Finite /\ (kind = "bbob" => 0 <= WorthOf(kind, f))
  <2>1. f.y \in Int /\ f.g \in Nat /\ - DBL_MAX < f.y /\ Best(f.y, 0) + f.g < DBL_MAX
    BY DEF Evaluations
  <2>2. Best(f.y, 0) \in Int /\ f.y <= Best(f.y, 0) /\ 0 <= Best(f.y, 0)
    BY <2>1 DEF Best
  <2>3. f.y < DBL_MAX
    BY <2>1, <2>2 DEF DBL_MAX
  <2>. QED
    BY <2>1, <2>2, <2>3 DEF WorthOf, Finite, DBL_MAX
<1>2. /\ Len(h) \in Nat /\ \A k \in 1 .. Len(h) : h[k] \in Evaluations
      /\ Len(Append(h, e)) = Len(h) + 1 /\ Append(h, e)[Len(h) + 1] = e
      /\ \A k \in 1 .. Len(h) : Append(h, e)[k] = h[k]
  OBVIOUS
<1>3. WorthsOf(kind, h) \in Finites /\ Len(WorthsOf(kind, h)) = Len(h)
  <2>1. \A k \in 1 .. Len(h) : WorthOf(kind, h[k]) \in Finite
    BY <1>1, <1>2
  <2>2. WorthsOf(kind, h) \in [1 .. Len(h) -> Finite]
    BY <2>1 DEF WorthsOf
  <2>. QED
    BY <1>2, <2>2 DEF Finites
<1>4. \A k \in 1 .. Len(h) : WorthsOf(kind, h)[k] = WorthOf(kind, h[k])
  BY DEF WorthsOf
<1>5. WorthsOf(kind, Append(h, e)) = Append(WorthsOf(kind, h), WorthOf(kind, e))
  <2>. DEFINE a == WorthsOf(kind, Append(h, e))
              b == Append(WorthsOf(kind, h), WorthOf(kind, e))
              n == Len(h)
  <2>1. a = [k \in 1 .. n + 1 |-> WorthOf(kind, Append(h, e)[k])]
    BY <1>2 DEF WorthsOf
  <2>2. /\ b \in Finites /\ Len(b) = n + 1
        /\ \A k \in 1 .. n : b[k] = WorthsOf(kind, h)[k]
        /\ b[n + 1] = WorthOf(kind, e)
    BY <1>1, <1>3, WorthsLemma
  <2>3. b = [k \in 1 .. n + 1 |-> b[k]]
    <3>. HIDE DEF b, n
    <3>1. b \in Seq(Finite) /\ Len(b) = n + 1
      BY <2>2 DEF Finites
    <3>2. b \in [1 .. n + 1 -> Finite]
      BY <3>1
    <3>. QED
      BY <3>2
  <2>. HIDE DEF b, n
  <2>4. \A k \in 1 .. n + 1 : k \in 1 .. n \/ k = n + 1
    BY <1>2 DEF n
  <2>5. \A k \in 1 .. n + 1 : WorthOf(kind, Append(h, e)[k]) = b[k]
    BY <1>2, <1>4, <2>2, <2>4 DEF n
  <2>. HIDE DEF a
  <2>. QED
    BY <2>1, <2>3, <2>5 DEF a, b
<1>. QED
  BY <1>1, <1>2, <1>3, <1>4, <1>5

LEMMA NothingTold ==
  ASSUME NEW problem, NEW o, o.kind \in Kinds
  PROVE  Tells(coco_problem_add_observer(problem, o), << >>)
<1>. DEFINE l == coco_problem_add_observer(problem, o)
<1>1. \A kind : WorthsOf(kind, << >>) = << >>
  BY DEF WorthsOf
<1>2. CASE problem = NoProblem \/ o.kind = "none"
  <2>1. l = NoLogger
    BY <1>2 DEF coco_problem_add_observer
  <2>2. NoLogger.kind = "none"
    BY DEF NoLogger
  <2>. HIDE DEF l
  <2>. QED
    BY <2>1, <2>2 DEF Tells, Kinds, l
<1>3. CASE problem # NoProblem /\ o.kind = "bbob"
  <2>1. l = logger_bbob(o, problem)
    BY <1>3 DEF coco_problem_add_observer
  <2>2. BbobTells(l, << >>)
    BY <2>1, BbobStart
  <2>3. l.kind = "bbob"
    BY <2>2 DEF BbobTells
  <2>. HIDE DEF l
  <2>. QED
    BY <1>1, <2>2, <2>3 DEF Tells, Kinds, l
<1>4. CASE problem # NoProblem /\ o.kind = "toy"
  <2>1. l = logger_toy(o, problem)
    BY <1>4 DEF coco_problem_add_observer
  <2>2. ToyTells(l, << >>)
    BY <2>1, ToyStart
  <2>3. l.kind = "toy"
    BY <2>2 DEF ToyTells
  <2>. HIDE DEF l
  <2>. QED
    BY <1>1, <2>2, <2>3 DEF Tells, Kinds, l
<1>5. CASE problem # NoProblem /\ o.kind = "rw"
  <2>1. l = logger_rw(o, problem)
    BY <1>5 DEF coco_problem_add_observer
  <2>2. RwTells(l, << >>)
    BY <2>1, RwStart
  <2>3. l.kind = "rw"
    BY <2>2 DEF RwTells
  <2>. HIDE DEF l
  <2>. QED
    BY <1>1, <2>2, <2>3 DEF Tells, Kinds, l
<1>. QED
  BY <1>2, <1>3, <1>4, <1>5 DEF Kinds

LEMMA EvaluationTold ==
  ASSUME NEW l, NEW h \in Seq(Evaluations), Tells(l, h), NEW e \in Evaluations,
         l.kind = "bbob" => l.is_initialized
  PROVE  Tells(Evaluated(l, e.y, e.g), Append(h, e))
<1>. DEFINE r == Evaluated(l, e.y, e.g)
            w == WorthsOf(l.kind, h)
            v == WorthOf(l.kind, e)
            x == WorthsOf(l.kind, Append(h, e))
<1>1. /\ v \in Finite /\ w \in Finites /\ x = Append(w, v) /\ Len(w) = Len(h)
      /\ l.kind = "bbob" => 0 <= v /\ \A k \in 1 .. Len(h) : 0 <= w[k]
  BY WorthsOfLemma
<1>2. CASE l.kind = "none"
  <2>1. r = l
    BY <1>2 DEF Evaluated
  <2>. HIDE DEF r
  <2>. QED
    BY <1>2, <2>1 DEF Tells, Kinds, r
<1>3. CASE l.kind = "toy"
  <2>1. r = logger_toy_evaluate(l, e.y) /\ v = e.y
    BY <1>3 DEF Evaluated, WorthOf
  <2>2. ToyTells(l, w)
    BY <1>3 DEF Tells
  <2>. HIDE DEF r, w, v, x
  <2>3. ToyTells(r, x)
    BY <1>1, <2>1, <2>2, ToyStep
  <2>4. r.kind = "toy"
    BY <2>3 DEF ToyTells
  <2>. QED
    BY <1>3, <2>3, <2>4 DEF Tells, Kinds, r, x
<1>4. CASE l.kind = "rw"
  <2>1. r = logger_rw_evaluate(l, e.y) /\ v = e.y
    BY <1>4 DEF Evaluated, WorthOf
  <2>2. RwTells(l, w)
    BY <1>4 DEF Tells
  <2>. HIDE DEF r, w, v, x
  <2>3. RwTells(r, x)
    BY <1>1, <2>1, <2>2, RwStep
  <2>4. r.kind = "rw"
    BY <2>3 DEF RwTells
  <2>. QED
    BY <1>4, <2>3, <2>4 DEF Tells, Kinds, r, x
<1>5. CASE l.kind = "bbob"
  <2>1. r = logger_bbob_evaluate(l, e.y, e.g, g_evaluations) /\ v = Best(e.y, 0) + e.g
    BY <1>5 DEF Evaluated, WorthOf
  <2>2. BbobTells(l, w) /\ l.is_initialized
    BY <1>5 DEF Tells
  <2>. DEFINE target == coco_observer_targets_trigger(l.targets, v)
              hit == target.hit
              exponent == target.targets.exponent
  <2>3. \E timed : BbobChanged(l, r, v, hit, exponent, timed)
    <3>1. BbobFields \subseteq DOMAIN l
      BY <2>2 DEF BbobTells
    <3>. QED
      BY <2>1, <3>1, BbobChange
  <2>4. PICK timed : BbobChanged(l, r, v, hit, exponent, timed)
    BY <2>3
  <2>5. v \in Int
    BY <1>1 DEF Finite
  <2>. HIDE DEF v
  <2>6. /\ hit = (Exponent(v) < l.targets.exponent)
        /\ exponent = IF Exponent(v) < l.targets.exponent THEN Exponent(v) ELSE l.targets.exponent
    BY <2>5, TriggerLemma
  <2>. HIDE DEF r, w, x, hit, exponent
  <2>7. BbobTells(r, x)
    BY <1>1, <1>5, <2>2, <2>4, <2>6, BbobStep
  <2>8. r.kind = "bbob" /\ r.is_initialized
    BY <1>5, <2>2, <2>4, <2>7 DEF BbobTells, BbobChanged
  <2>. QED
    BY <1>5, <2>7, <2>8 DEF Tells, Kinds, r, x
<1>. QED
  BY <1>2, <1>3, <1>4, <1>5 DEF Tells, Kinds
LEMMA PlanOf ==
  ASSUME programme \in Programmes, NEW e \in 1 .. Len(programme)
  PROVE  /\ programme[e].observer \notin BiobjObservers
         /\ \A y \in programme[e].values, g \in programme[e].sums : [y |-> y, g |-> g] \in Evaluations
<1>1. programme \in Seq(ToSet(programme))
  BY ProgrammesAssumption
<1>2. programme[e] \in ToSet(programme)
  BY <1>1
<1>. DEFINE p == programme[e]
<1>3. /\ p.observer \notin BiobjObservers /\ p.values \subseteq Int /\ p.sums \subseteq Nat
      /\ \A y \in p.values, g \in p.sums : - DBL_MAX < y /\ Best(y, 0) + g < DBL_MAX
  BY <1>2, ProgrammesAssumption
<1>. HIDE DEF p
<1>4. ASSUME NEW y \in p.values, NEW g \in p.sums PROVE [y |-> y, g |-> g] \in Evaluations
  BY <1>3 DEF Evaluations
<1>. QED
  BY <1>3, <1>4 DEF p

LEMMA KindOfObserver ==
  ASSUME NEW name, name \notin BiobjObservers, NEW options, NEW folder
  PROVE  coco_observer(name, options, folder).kind \in Kinds
<1>. DEFINE Of(kind) == coco_observer_allocate(kind, folder, options)
            o == coco_observer(name, options, folder)
<1>1. \A kind : Of(kind).kind = kind
  BY DEF coco_observer_allocate
<1>2. observer_rw(Of("rw"), options).kind = "rw" /\ NoObserver.kind = "none"
  BY DEF observer_rw, NoObserver
<1>3. /\ "no_observer" \notin BbobObservers /\ "" \notin BbobObservers
      /\ "toy" \notin BbobObservers /\ "rw" \notin BbobObservers
  BY DEF BbobObservers, ConstrainedNames
<1>. DEFINE bbobs == Of("bbob")
            toys == Of("toy")
            rws == observer_rw(Of("rw"), options)
<1>4. /\ name \in {"no_observer", ""} => o = NoObserver
      /\ name \in BbobObservers => o = bbobs
      /\ name = "toy" => o = toys
      /\ name = "rw" => o = rws
      /\ name \notin {"no_observer", "", "toy", "rw"} \union BbobObservers => o = NoObserver
  BY <1>3 DEF coco_observer, observer_bbob, observer_toy
<1>. HIDE DEF bbobs, toys, rws, o
<1>5. bbobs.kind = "bbob" /\ toys.kind = "toy" /\ rws.kind = "rw"
  BY <1>1, <1>2 DEF bbobs, toys, rws
<1>. QED
  BY <1>2, <1>4, <1>5 DEF Kinds, o

LEMMA LogInit ==
  ASSUME Init PROVE LogInv
<1>1. /\ programme \in Programmes /\ suite = NoSuite /\ experiments = 0
      /\ observer = NoObserver /\ logger = NoLogger /\ history = << >>
  BY DEF Init
<1>2. programme \in Seq(ToSet(programme))
  BY <1>1, ProgrammesAssumption
<1>3. observer.kind \in Kinds /\ logger.kind = "none"
  BY <1>1 DEF NoObserver, NoLogger, Kinds
<1>. QED
  BY <1>1, <1>2, <1>3 DEF LogInv, Tells, Kinds

LEMMA LogBegin ==
  ASSUME LogInv, Begin PROVE LogInv'
<1>1. /\ experiments < Len(programme) /\ experiments' = experiments + 1
      /\ programme' = programme /\ logger' = logger /\ history' = history
  BY DEF Begin
<1>2. programme \in Programmes /\ experiments \in 0 .. Len(programme)
  BY DEF LogInv
<1>3. programme \in Seq(ToSet(programme))
  BY <1>2, ProgrammesAssumption
<1>4. experiments' \in 1 .. Len(programme) /\ experiments' # 0
  BY <1>1, <1>2, <1>3
<1>. DEFINE p == programme[experiments']
<1>5. observer' = coco_observer(p.observer, p.observer_options, folders + 1)
  BY DEF Begin
<1>6. observer'.kind \in Kinds
  BY <1>2, <1>4, <1>5, PlanOf, KindOfObserver
<1>. QED
  BY <1>1, <1>2, <1>4, <1>6 DEF LogInv

LEMMA LogNextProblem ==
  ASSUME LogInv, coco_suite_get_next_problem PROVE LogInv'
<1>. DEFINE next == Advanced(suite)
            problem == CursorProblem(next.suite)
<1>1. /\ IsOpen /\ programme' = programme /\ experiments' = experiments /\ observer' = observer
      /\ ~ next.found => logger' = logger /\ history' = history
      /\ next.found => logger' = coco_problem_add_observer(problem, observer) /\ history' = << >>
  BY DEF coco_suite_get_next_problem
<1>. HIDE DEF next, problem
<1>2. experiments # 0
  BY <1>1 DEF LogInv, IsOpen
<1>3. Tells(logger', history') /\ history' \in Seq(Evaluations)
  <2>1. CASE next.found
    BY <1>1, <2>1, NothingTold DEF LogInv
  <2>2. CASE ~ next.found
    BY <1>1, <2>2 DEF LogInv
  <2>. QED
    BY <2>1, <2>2
<1>. QED
  BY <1>1, <1>2, <1>3 DEF LogInv

LEMMA LogEvaluation ==
  ASSUME LogInv, coco_evaluate_function PROVE LogInv'
<1>1. PICK y \in plan.values, g \in plan.sums :
        /\ history' = Append(history, [y |-> y, g |-> g])
        /\ IF logger.kind = "bbob" /\ ~ logger.is_initialized
           THEN logger' = Evaluated(logger_bbob_initialize(logger, bbob, info).logger, y, g)
           ELSE logger' = Evaluated(logger, y, g)
  BY DEF coco_evaluate_function
<1>2. /\ suite # NoSuite /\ programme' = programme /\ experiments' = experiments
      /\ suite' = suite /\ observer' = observer
  BY DEF coco_evaluate_function, IsOpen, suiteVars
<1>. DEFINE e == [y |-> y, g |-> g]
            ready == logger_bbob_initialize(logger, bbob, info).logger
<1>3. e \in Evaluations /\ e.y = y /\ e.g = g
  <2>1. experiments \in 1 .. Len(programme) /\ programme \in Programmes
    BY <1>2 DEF LogInv
  <2>. QED
    BY <2>1, PlanOf DEF plan
<1>4. history \in Seq(Evaluations) /\ Tells(logger, history)
  BY DEF LogInv
<1>. HIDE DEF e
<1>5. Tells(logger', Append(history, e))
  <2>1. CASE logger.kind = "bbob" /\ ~ logger.is_initialized
    <3>1. BbobTells(logger, WorthsOf("bbob", history))
      BY <1>4, <2>1 DEF Tells
    <3>2. BbobTells(ready, WorthsOf("bbob", history)) /\ ready.is_initialized
      BY <3>1, BbobReady
    <3>. HIDE DEF ready
    <3>3. ready.kind = "bbob"
      BY <3>2 DEF BbobTells
    <3>4. Tells(ready, history)
      BY <3>2, <3>3 DEF Tells, Kinds
    <3>5. logger' = Evaluated(ready, e.y, e.g)
      BY <1>1, <1>3, <2>1 DEF ready
    <3>. QED
      BY <1>3, <1>4, <3>2, <3>4, <3>5, EvaluationTold
  <2>2. CASE ~ (logger.kind = "bbob" /\ ~ logger.is_initialized)
    <3>1. logger' = Evaluated(logger, e.y, e.g)
      BY <1>1, <1>3, <2>2
    <3>. QED
      BY <1>3, <1>4, <2>2, <3>1, EvaluationTold
  <2>. QED
    BY <2>1, <2>2
<1>6. history' = Append(history, e)
  BY <1>1 DEF e
<1>7. history' \in Seq(Evaluations)
  BY <1>3, <1>4, <1>6
<1>. QED
  BY <1>2, <1>5, <1>6, <1>7 DEF LogInv

LEMMA LogSame ==
  ASSUME LogInv, UNCHANGED suiteVars, UNCHANGED logVars, UNCHANGED history PROVE LogInv'
  BY DEF LogInv, suiteVars, logVars

LEMMA LogClose ==
  ASSUME LogInv, finalizeBenchmark PROVE LogInv'
<1>1. /\ suite' = NoSuite /\ programme' = programme /\ experiments' = experiments
      /\ observer' = NoObserver /\ logger' = NoLogger /\ history' = << >>
  BY DEF finalizeBenchmark
<1>2. observer'.kind \in Kinds /\ logger'.kind = "none"
  BY <1>1 DEF NoObserver, NoLogger, Kinds
<1>3. Tells(logger', history') /\ history' \in Seq(Evaluations)
  BY <1>1, <1>2 DEF Tells, Kinds
<1>. QED
  BY <1>1, <1>2, <1>3 DEF LogInv

LEMMA LogNext ==
  ASSUME LogInv, [Next]_vars PROVE LogInv'
<1>1. CASE Begin
  BY <1>1, LogBegin
<1>2. CASE coco_suite_get_next_problem
  BY <1>2, LogNextProblem
<1>3. CASE coco_evaluate_function
  BY <1>3, LogEvaluation
<1>4. CASE coco_evaluate_constraint
  BY <1>4, LogSame DEF coco_evaluate_constraint
<1>5. CASE finalizeBenchmark
  BY <1>5, LogClose
<1>6. CASE UNCHANGED vars
  BY <1>6, LogSame DEF vars, suiteVars, logVars
<1>. QED
  BY <1>1, <1>2, <1>3, <1>4, <1>5, <1>6 DEF Next

LEMMA TellsTheRun ==
  ASSUME LogInv PROVE LoggersTellTheRun
<1>. DEFINE n == Len(history)
            w == WorthsOf(logger.kind, history)
<1>1. history \in Seq(Evaluations) /\ Tells(logger, history)
  BY DEF LogInv
<1>2. n \in Nat /\ DOMAIN history = 1 .. n
  BY <1>1
<1>3. \A k \in 1 .. n : w[k] = Worth(k)
  BY DEF WorthsOf, WorthOf, Worth
<1>4. Len(w) = n
  <2>1. w = [k \in 1 .. n |-> WorthOf(logger.kind, history[k])]
    BY DEF WorthsOf
  <2>. QED
    BY <1>2, <2>1
<1>. HIDE DEF w, n
<1>5. ASSUME NEW k \in 1 .. n
      PROVE  (Improves(k) <=> ImprovesIn(w, k)) /\ (Reaches(k) <=> ReachesIn(w, k))
  <2>1. \A j \in 1 .. k - 1 : w[j] = Worth(j)
    BY <1>2, <1>3
  <2>2. w[k] = Worth(k)
    BY <1>3
  <2>. QED
    BY <2>1, <2>2 DEF Improves, Reaches, ImprovesIn, ReachesIn
<1>6. ASSUME logger.kind = "toy"
      PROVE  Numbers(logger.lines) = {k \in DOMAIN history : Reaches(k)} /\ Rising(logger.lines)
  <2>1. ToyTells(logger, w)
    BY <1>1, <1>6 DEF Tells, w
  <2>2. Numbers(logger.lines) = {k \in 1 .. n : ReachesIn(w, k)} /\ Rising(logger.lines)
    BY <1>4, <2>1 DEF ToyTells, Upward
  <2>. QED
    BY <1>2, <1>5, <2>2
<1>7. ASSUME logger.kind = "rw"
      PROVE  /\ Numbers(logger.lines) =
                  IF logger.log_only_better THEN {k \in DOMAIN history : Improves(k)} ELSE DOMAIN history
             /\ Rising(logger.lines)
  <2>1. RwTells(logger, w)
    BY <1>1, <1>7 DEF Tells, w
  <2>2. /\ Numbers(logger.lines) = IF logger.log_only_better THEN {k \in 1 .. n : ImprovesIn(w, k)}
                                   ELSE 1 .. n
        /\ Rising(logger.lines)
    BY <1>4, <2>1 DEF RwTells, Upward
  <2>3. {k \in 1 .. n : ImprovesIn(w, k)} = {k \in DOMAIN history : Improves(k)}
    BY <1>2, <1>5
  <2>. QED
    BY <1>2, <2>2, <2>3
<1>8. ASSUME logger.kind = "bbob", history # << >>
      PROVE  LET tdata == logger_bbob_free_data(logger).tdata
             IN /\ \A k \in 1 .. n : logger.best_fvalue <= Worth(k)
                /\ \E k \in 1 .. n : logger.best_fvalue = Worth(k)
                /\ \A k \in 1 .. n : Reaches(k) => k \in Numbers(logger.fdata)
                /\ \A k \in Numbers(logger.fdata) : Improves(k)
                /\ \A i \in DOMAIN logger.fdata : logger.fdata[i][2] = Worth(logger.fdata[i][1])
                /\ Rising(logger.fdata) /\ Rising(tdata)
                /\ tdata[Len(tdata)] = <<n, logger.best_fvalue>>
  <2>. DEFINE tdata == logger_bbob_free_data(logger).tdata
              line == <<n, logger.best_fvalue>>
  <2>1. BbobTells(logger, w) /\ logger.is_initialized
    BY <1>1, <1>8 DEF Tells, w
  <2>2. n # 0
    BY <1>1, <1>8 DEF n
  <2>3. /\ logger.number_of_evaluations = n
        /\ \E k \in 1 .. n : logger.best_fvalue = w[k]
        /\ \A k \in 1 .. n : logger.best_fvalue <= w[k]
        /\ Upward(logger.fdata, n)
        /\ \A i \in DOMAIN logger.fdata : logger.fdata[i][2] = w[logger.fdata[i][1]]
        /\ \A k \in 1 .. n : ReachesIn(w, k) => k \in Numbers(logger.fdata)
        /\ \A k \in Numbers(logger.fdata) : ImprovesIn(w, k)
    BY <1>4, <2>1, <2>2 DEF BbobTells
  <2>4. Numbers(logger.fdata) \subseteq 1 .. n
    BY <2>3 DEF Upward, Numbers
  <2>5. \A i \in DOMAIN logger.fdata : logger.fdata[i][2] = Worth(logger.fdata[i][1])
    BY <1>3, <2>3 DEF Upward
  <2>6. Rising(tdata) /\ tdata[Len(tdata)] = line
    <3>1. CASE logger.written_last_eval
      <4>1. tdata = logger.tdata
        BY <3>1 DEF logger_bbob_free_data
      <4>2. Upward(logger.tdata, n) /\ logger.tdata[Len(logger.tdata)] = line
        BY <1>4, <2>1, <3>1 DEF BbobTells
      <4>. QED
        BY <4>1, <4>2 DEF Upward
    <3>2. CASE ~ logger.written_last_eval
      <4>1. tdata = Append(logger.tdata, line)
        <5>1. logger_bbob_free_data(logger)
                = [logger EXCEPT !.tdata = Append(@, logger_bbob_write_data(logger))]
          BY <2>1, <3>2 DEF logger_bbob_free_data
        <5>2. "tdata" \in DOMAIN logger /\ logger_bbob_write_data(logger) = line
          BY <2>1, <2>3 DEF BbobTells, BbobFields, logger_bbob_write_data
        <5>. QED
          BY <5>1, <5>2
      <4>2. Upward(logger.tdata, n - 1)
        BY <1>4, <2>1, <3>2 DEF BbobTells
      <4>3. n - 1 \in Nat /\ n - 1 < n
        BY <1>2, <2>2
      <4>. HIDE DEF tdata
      <4>4. Upward(tdata, n)
        <5>1. line[1] = n
          OBVIOUS
        <5>. HIDE DEF line
        <5>. QED
          BY <1>2, <4>1, <4>2, <4>3, <5>1, UpwardLemma
      <4>5. Len(tdata) = Len(logger.tdata) + 1 /\ tdata[Len(logger.tdata) + 1] = line
        BY <4>1, <4>2, AppendLemma DEF Upward
      <4>. QED
        BY <4>4, <4>5 DEF Upward
    <3>. QED
      BY <3>1, <3>2
  <2>. HIDE DEF tdata, line
  <2>7. /\ \A k \in 1 .. n : logger.best_fvalue <= Worth(k)
        /\ \E k \in 1 .. n : logger.best_fvalue = Worth(k)
        /\ \A k \in 1 .. n : Reaches(k) => k \in Numbers(logger.fdata)
        /\ \A k \in Numbers(logger.fdata) : Improves(k)
        /\ Rising(logger.fdata)
    BY <1>3, <1>5, <2>3, <2>4 DEF Upward
  <2>. QED
    BY <2>5, <2>6, <2>7 DEF tdata, line
<1>. QED
  BY <1>6, <1>7, <1>8 DEF LoggersTellTheRun, n

\* What a logger has written tells the evaluations of its problem, whatever
\* the programme, its values and the triggers are: the best value, the first
\* hits of targets, the improvements and the last line (logger_bbob_evaluate,
\* logger_bbob_free, logger_toy_evaluate, logger_rw_evaluate).
THEOREM LoggersTell == Spec => []LoggersTellTheRun
<1>1. Init => LogInv
  BY LogInit
<1>2. LogInv /\ [Next]_vars => LogInv'
  BY LogNext
<1>3. LogInv => LoggersTellTheRun
  BY TellsTheRun
<1>. QED
  BY <1>1, <1>2, <1>3, PTL DEF Spec

----------------------------------------------------------------------------
(* The info files.                                                         *)

Tags == {"header", "newline", "run", "done"}
LastLine(l) == l[Len(l)]
LastHeader(l) == HeaderOf(l, Len(l))

\* l may be the lines of a file.
IsFile(file, l) ==
  /\ IsSequence(l) /\ Len(l) # 0 /\ l[1].tag = "header"
  /\ \A k \in 1 .. Len(l) :
       /\ l[k].tag \in Tags
       /\ l[k].tag = "header" => l[k].funId = file[2] /\ l[k].data = file[3]
       /\ l[k].tag = "done" => k # 1 /\ l[k - 1].tag = "run"
       /\ l[k].tag = "run" /\ k # Len(l) => l[k + 1].tag = "done"
Lined(l) == \A k \in 1 .. Len(l) : l[k].tag = "header" => k = 1 \/ l[k - 1].tag = "newline"

\* Files of the first n folders; in the first benchmark headers start lines.
Files(i, n, e) ==
  \A file \in DOMAIN i :
    /\ IsFile(file, i[file]) /\ file[1] \in 1 .. n
    /\ e > 1 \/ Lined(i[file])
\* Runs without an end are in these files only.
OpenOnlyIn(i, S) == \A file \in DOMAIN i : LastLine(i[file]).tag = "run" => file \in S
\* The last header of the file that the shared variables mean.
Section(i, b, n) ==
  LET file == <<n, b.current_funId, b.firstInstance>>
  IN /\ file \in DOMAIN i => LastHeader(i[file]).dim = b.current_dim
     /\ b.firstInstance = 0 => DOMAIN i = {}

\* The last header up to the k-th line is the m-th one.
Heads(l, k, m) ==
  /\ m \in 1 .. k /\ l[m].tag = "header"
  /\ \A j \in 1 .. k : l[j].tag = "header" => j <= m

LEMMA HeaderLemma ==
  ASSUME NEW l, NEW k, NEW m, k \in Nat, Heads(l, k, m)
  PROVE  HeaderOf(l, k) = l[m]
<1>. DEFINE above == {j \in 1 .. k : l[j].tag = "header"}
            top == CHOOSE j \in above : \A i \in above : i <= j
<1>1. m \in above /\ \A i \in above : i <= m
  BY DEF Heads
<1>2. top \in above /\ \A i \in above : i <= top
  BY <1>1
<1>3. top = m
  BY <1>1, <1>2
<1>. QED
  BY <1>3 DEF HeaderOf

LEMMA HeadersExist ==
  ASSUME NEW l, NEW k \in Nat \ {0}, l[1].tag = "header"
  PROVE  \E m : Heads(l, k, m)
<1>. DEFINE above == {j \in 1 .. k : l[j].tag = "header"}
            S == {k - j : j \in above}
<1>1. S \in SUBSET Nat /\ k - 1 \in S
  OBVIOUS
<1>2. MinOf(S) \in S /\ \A j \in S : MinOf(S) <= j
  <2>. HIDE DEF S
  <2>. QED
    BY <1>1, LeastNatural
<1>3. PICK m \in above : MinOf(S) = k - m
  BY <1>2
<1>4. ASSUME NEW j \in above PROVE j <= m
  <2>1. k - j \in S /\ k - m <= k - j
    BY <1>2, <1>3
  <2>. QED
    BY <2>1
<1>5. Heads(l, k, m)
  BY <1>3, <1>4 DEF Heads
<1>. QED
  BY <1>5

LEMMA SameHeads ==
  ASSUME NEW l, NEW r, NEW k \in Nat, \A j \in 1 .. k : r[j] = l[j],
         k # 0, l[1].tag = "header"
  PROVE  HeaderOf(r, k) = HeaderOf(l, k)
<1>1. PICK m : Heads(l, k, m)
  BY HeadersExist
<1>2. Heads(r, k, m) /\ r[m] = l[m]
  BY <1>1 DEF Heads
<1>. QED
  BY <1>1, <1>2, HeaderLemma

\* x may follow the lines l of a file.
MayFollow(file, l, x) ==
  /\ x.tag \in Tags
  /\ x.tag = "header" => x.funId = file[2] /\ x.data = file[3]
  /\ l = << >> => x.tag = "header"
  /\ l # << >> => (x.tag = "done" <=> LastLine(l).tag = "run")

\* r is l with the line x.
Longer(file, l, x, r) ==
  /\ IsFile(file, r) /\ LastLine(r) = x
  /\ Len(l) \in Nat /\ Len(r) = Len(l) + 1
  /\ r[Len(l) + 1] = x
  /\ \A k \in 1 .. Len(l) : r[k] = l[k]
  /\ \A k \in 1 .. Len(l) : HeaderOf(r, k) = HeaderOf(l, k)
  /\ LastHeader(r) = IF x.tag = "header" THEN x ELSE LastHeader(l)
  /\ Lined(l) /\ (x.tag = "header" => l = << >> \/ LastLine(l).tag = "newline") => Lined(r)

LEMMA FileLemma ==
  ASSUME NEW file, NEW l, l = << >> \/ IsFile(file, l), NEW x, MayFollow(file, l, x)
  PROVE  Longer(file, l, x, Append(l, x))
<1>. DEFINE r == Append(l, x)
            n == Len(l)
<1>1. IsSequence(l)
  <2>1. << >> \in Seq({})
    OBVIOUS
  <2>. QED
    BY <2>1 DEF IsFile, IsSequence
<1>2. /\ IsSequence(r) /\ n \in Nat /\ Len(r) = n + 1
      /\ \A k \in 1 .. n : r[k] = l[k]
      /\ r[n + 1] = x
  BY <1>1, AppendLemma
<1>3. LastLine(r) = x
  BY <1>2 DEF LastLine
<1>4. n = 0 <=> l = << >>
  <2>1. Len(<< >>) = 0
    OBVIOUS
  <2>. QED
    BY <2>1 DEF IsFile
<1>. HIDE DEF r
<1>5. \A k \in 1 .. n + 1 : k \in 1 .. n \/ k = n + 1
  BY <1>2
<1>6. r[1].tag = "header" /\ (n # 0 => l[1].tag = "header")
  <2>1. CASE n = 0
    BY <1>2, <1>4, <2>1 DEF MayFollow
  <2>2. CASE n # 0
    BY <1>2, <1>4, <2>2 DEF IsFile
  <2>. QED
    BY <2>1, <2>2
<1>7. ASSUME NEW k \in 1 .. n
      PROVE  /\ r[k].tag \in Tags
             /\ r[k].tag = "header" => r[k].funId = file[2] /\ r[k].data = file[3]
             /\ r[k].tag = "done" => k # 1 /\ r[k - 1].tag = "run"
             /\ r[k].tag = "run" => r[k + 1].tag = "done"
  <2>1. /\ l[k].tag \in Tags
        /\ l[k].tag = "header" => l[k].funId = file[2] /\ l[k].data = file[3]
        /\ l[k].tag = "done" => k # 1 /\ l[k - 1].tag = "run"
        /\ l[k].tag = "run" /\ k # n => l[k + 1].tag = "done"
    BY <1>2, <1>4 DEF IsFile
  <2>2. r[k] = l[k]
    BY <1>2
  <2>3. r[k].tag = "done" => k # 1 /\ r[k - 1].tag = "run"
    <3>. SUFFICES ASSUME l[k].tag = "done" PROVE k # 1 /\ r[k - 1].tag = "run"
      BY <2>2
    <3>1. k # 1 /\ k - 1 \in 1 .. n
      BY <1>2, <2>1
    <3>. QED
      BY <1>2, <2>1, <3>1
  <2>4. r[k].tag = "run" => r[k + 1].tag = "done"
    <3>. SUFFICES ASSUME l[k].tag = "run" PROVE r[k + 1].tag = "done"
      BY <2>2
    <3>1. CASE k = n
      <4>1. LastLine(l).tag = "run" /\ l # << >>
        BY <1>2, <1>4, <3>1 DEF LastLine
      <4>. QED
        BY <1>2, <3>1, <4>1 DEF MayFollow
    <3>2. CASE k # n
      <4>1. k + 1 \in 1 .. n
        BY <1>2, <3>2
      <4>. QED
        BY <1>2, <2>1, <3>2, <4>1
    <3>. QED
      BY <3>1, <3>2
  <2>. QED
    BY <2>1, <2>2, <2>3, <2>4
<1>8. /\ x.tag \in Tags
      /\ x.tag = "header" => x.funId = file[2] /\ x.data = file[3]
      /\ x.tag = "done" => n # 0 /\ r[n].tag = "run"
  <2>1. x.tag = "done" => l # << >> /\ LastLine(l).tag = "run"
    BY DEF MayFollow
  <2>2. n # 0 => r[n] = LastLine(l)
    BY <1>2 DEF LastLine
  <2>. QED
    BY <1>4, <2>1, <2>2 DEF MayFollow
<1>9. IsFile(file, r)
  <2>1. ASSUME NEW k \in 1 .. n + 1
        PROVE  /\ r[k].tag \in Tags
               /\ r[k].tag = "header" => r[k].funId = file[2] /\ r[k].data = file[3]
               /\ r[k].tag = "done" => k # 1 /\ r[k - 1].tag = "run"
               /\ r[k].tag = "run" /\ k # n + 1 => r[k + 1].tag = "done"
    <3>1. CASE k \in 1 .. n
      BY <1>7, <3>1
    <3>2. CASE k = n + 1
      <4>1. r[k] = x /\ k - 1 = n
        BY <1>2, <3>2
      <4>. QED
        BY <1>2, <1>8, <3>2, <4>1
    <3>. QED
      BY <1>5, <3>1, <3>2
  <2>. QED
    BY <1>2, <1>6, <2>1 DEF IsFile
<1>10. ASSUME NEW k \in 1 .. n PROVE HeaderOf(r, k) = HeaderOf(l, k)
  <2>1. k \in Nat /\ k # 0 /\ n # 0 /\ \A j \in 1 .. k : r[j] = l[j]
    BY <1>2
  <2>. QED
    BY <1>6, <2>1, SameHeads
<1>11. LastHeader(r) = IF x.tag = "header" THEN x ELSE LastHeader(l)
  <2>1. CASE x.tag = "header"
    <3>1. Heads(r, n + 1, n + 1)
      BY <1>2, <2>1 DEF Heads
    <3>2. HeaderOf(r, n + 1) = x
      BY <1>2, <3>1, HeaderLemma
    <3>. QED
      BY <1>2, <2>1, <3>2 DEF LastHeader
  <2>2. CASE x.tag # "header"
    <3>1. n # 0
      BY <1>4, <2>2 DEF MayFollow
    <3>2. PICK m : Heads(l, n, m)
      BY <1>2, <1>6, <3>1, HeadersExist
    <3>3. r[m] = l[m] /\ Heads(r, n + 1, m)
      BY <1>2, <1>5, <2>2, <3>2 DEF Heads
    <3>4. HeaderOf(r, n + 1) = l[m] /\ HeaderOf(l, n) = l[m]
      BY <1>2, <3>2, <3>3, HeaderLemma
    <3>. QED
      BY <1>2, <2>2, <3>4 DEF LastHeader
  <2>. QED
    BY <2>1, <2>2
<1>12. ASSUME Lined(l), x.tag = "header" => l = << >> \/ LastLine(l).tag = "newline"
       PROVE  Lined(r)
  <2>. SUFFICES ASSUME NEW k \in 1 .. n + 1, r[k].tag = "header", k # 1
                PROVE  r[k - 1].tag = "newline"
    BY <1>2 DEF Lined
  <2>1. CASE k \in 1 .. n
    <3>1. r[k] = l[k] /\ k - 1 \in 1 .. n
      BY <1>2, <2>1
    <3>2. r[k - 1] = l[k - 1]
      BY <1>2, <3>1
    <3>. QED
      BY <1>12, <2>1, <3>1, <3>2 DEF Lined
  <2>2. CASE k = n + 1
    <3>1. n # 0 /\ x.tag = "header"
      BY <1>2, <2>2
    <3>2. LastLine(l).tag = "newline"
      BY <1>4, <1>12, <3>1
    <3>3. r[n] = l[n] /\ k - 1 = n
      BY <1>2, <2>2, <3>1
    <3>. QED
      BY <3>2, <3>3 DEF LastLine
  <2>. QED
    BY <1>5, <2>1, <2>2
<1>. QED
  BY <1>2, <1>3, <1>9, <1>10, <1>11, <1>12 DEF r, Longer

AllFiles(i) == \A file \in DOMAIN i : IsFile(file, i[file])

\* One more line.
Line(i, f, x) ==
  [file \in DOMAIN i \union {f} |-> IF file = f THEN Append(Content(i, f), x) ELSE i[file]]

LEMMA ContentLemma ==
  ASSUME NEW i, AllFiles(i), NEW f
  PROVE  /\ Content(i, f) = << >> \/ IsFile(f, Content(i, f))
         /\ IsSequence(Content(i, f))
         /\ f \notin DOMAIN i <=> Content(i, f) = << >>
<1>1. << >> \in Seq({}) /\ Len(<< >>) = 0
  OBVIOUS
<1>2. CASE f \in DOMAIN i
  <2>1. Content(i, f) = i[f] /\ IsFile(f, i[f])
    BY <1>2 DEF Content, AllFiles
  <2>2. IsSequence(i[f]) /\ Len(i[f]) # 0
    BY <2>1 DEF IsFile
  <2>. QED
    BY <1>1, <1>2, <2>1, <2>2
<1>3. CASE f \notin DOMAIN i
  BY <1>1, <1>3 DEF Content, IsSequence
<1>. QED
  BY <1>2, <1>3

\* k has one line more than i.
LongerBy(i, f, x, k) ==
  /\ DOMAIN k = DOMAIN i \union {f}
  /\ k[f] = Append(Content(i, f), x) /\ Content(k, f) = k[f]
  /\ Longer(f, Content(i, f), x, k[f])
  /\ \A file \in DOMAIN i : file # f => k[file] = i[file]
  /\ AllFiles(k)

LEMMA LineLemma ==
  ASSUME NEW i, AllFiles(i), NEW f, NEW x, MayFollow(f, Content(i, f), x)
  PROVE  LongerBy(i, f, x, Line(i, f, x))
<1>. DEFINE k == Line(i, f, x)
            l == Content(i, f)
<1>1. /\ DOMAIN k = DOMAIN i \union {f} /\ k[f] = Append(l, x)
      /\ \A file \in DOMAIN i : file # f => k[file] = i[file]
  BY DEF Line
<1>2. Content(k, f) = k[f]
  BY <1>1 DEF Content
<1>3. l = << >> \/ IsFile(f, l)
  BY ContentLemma
<1>4. Longer(f, l, x, k[f])
  <2>. HIDE DEF k, l
  <2>1. Longer(f, l, x, Append(l, x))
    BY <1>3, FileLemma DEF l
  <2>. QED
    BY <1>1, <2>1
<1>5. AllFiles(k)
  <2>. HIDE DEF k, l
  <2>1. IsFile(f, k[f])
    BY <1>4 DEF Longer
  <2>. QED
    BY <1>1, <2>1 DEF AllFiles
<1>. QED
  BY <1>1, <1>2, <1>4, <1>5 DEF LongerBy

LEMMA WrittenLemma ==
  ASSUME NEW i, NEW f, IsSequence(Content(i, f)), NEW x, NEW y
  PROVE  /\ Written(i, f, <<x>>) = Line(i, f, x)
         /\ Written(i, f, << >> \o <<x>>) = Line(i, f, x)
         /\ Written(i, f, <<x>> \o <<y>>) = Line(Line(i, f, x), f, y)
<1>. DEFINE l == Content(i, f)
            k == Line(i, f, x)
<1>1. PICK S : l \in Seq(S)
  BY DEF IsSequence
<1>. DEFINE T == S \union {x, y}
<1>2. l \in Seq(T) /\ x \in T /\ y \in T
  BY <1>1
<1>. HIDE DEF T, l
<1>3. /\ l \o <<x>> = Append(l, x) /\ << >> \o <<x>> = <<x>>
      /\ l \o (<<x>> \o <<y>>) = Append(Append(l, x), y)
  BY <1>2
<1>4. Written(i, f, <<x>>) = k /\ Written(i, f, << >> \o <<x>>) = k
  BY <1>3 DEF Written, Line, l
<1>5. DOMAIN k = DOMAIN i \union {f} /\ Content(k, f) = Append(l, x)
  BY DEF Line, Content, l
<1>6. \A file \in DOMAIN i \union {f} : file # f => k[file] = i[file]
  BY DEF Line
<1>7. Line(k, f, y) = [file \in DOMAIN i \union {f} |->
                        IF file = f THEN Append(Append(l, x), y) ELSE k[file]]
  <2>. HIDE DEF k
  <2>. QED
    BY <1>5 DEF Line
<1>8. Written(i, f, <<x>> \o <<y>>)
        = [file \in DOMAIN i \union {f} |-> IF file = f THEN Append(Append(l, x), y) ELSE i[file]]
  <2>. DEFINE m == <<x>> \o <<y>>
  <2>1. l \o m = Append(Append(l, x), y)
    BY <1>3
  <2>. HIDE DEF m
  <2>2. Written(i, f, m)
          = [file \in DOMAIN i \union {f} |-> IF file = f THEN Content(i, file) \o m ELSE i[file]]
    BY DEF Written
  <2>3. \A file : file = f => Content(i, file) \o m = Append(Append(l, x), y)
    BY <2>1 DEF l
  <2>4. \A file : (IF file = f THEN Content(i, file) \o m ELSE i[file])
                    = (IF file = f THEN Append(Append(l, x), y) ELSE i[file])
    BY <2>3
  <2>. QED
    BY <2>2, <2>4 DEF m
<1>. HIDE DEF k
<1>9. Line(k, f, y) = Written(i, f, <<x>> \o <<y>>)
  BY <1>6, <1>7, <1>8
<1>. QED
  BY <1>4, <1>9 DEF k

\* What the files i tell of runs that are over.
Tellings(i) ==
  {t \in UNION {{file} \X DOMAIN i[file] : file \in DOMAIN i} : i[t[1]][t[2]].tag = "done"}
Telling(i, file, k) ==
  [folder |-> file[1], function |-> HeaderOf(i[file], k).funId,
   dimension |-> HeaderOf(i[file], k).dim, instance |-> i[file][k - 1].instance,
   evaluations |-> i[file][k].evaluations]
RunsLike(rs, r) == {k \in DOMAIN rs : rs[k] = r}
TellingsOf(i, r) == {t \in Tellings(i) : Telling(i, t[1], t[2]) = r}
Tally(i, rs) ==
  \A r : /\ IsFiniteSet(RunsLike(rs, r)) /\ IsFiniteSet(TellingsOf(i, r))
         /\ Cardinality(RunsLike(rs, r)) = Cardinality(TellingsOf(i, r))

LEMMA TellingsLemma ==
  ASSUME NEW i, AllFiles(i), NEW t
  PROVE  t \in Tellings(i) <=>
           \E file \in DOMAIN i : \E k \in 1 .. Len(i[file]) :
             t = <<file, k>> /\ i[file][k].tag = "done"
<1>1. \A file \in DOMAIN i : DOMAIN i[file] = 1 .. Len(i[file])
  BY AppendLemma DEF AllFiles, IsFile
<1>2. t \in UNION {{file} \X DOMAIN i[file] : file \in DOMAIN i}
        <=> \E file \in DOMAIN i : \E k \in DOMAIN i[file] : t = <<file, k>>
  OBVIOUS
<1>3. ASSUME NEW file \in DOMAIN i, NEW k \in DOMAIN i[file], t = <<file, k>>
      PROVE  t \in Tellings(i) <=> i[file][k].tag = "done"
  BY <1>2, <1>3 DEF Tellings
<1>4. t \in Tellings(i) => t \in UNION {{file} \X DOMAIN i[file] : file \in DOMAIN i}
  BY DEF Tellings
<1>. QED
  BY <1>1, <1>2, <1>3, <1>4

MoreTold(i, f, x, k) ==
  LET t == <<f, Len(Content(i, f)) + 1>>
  IN /\ Tellings(k) = IF x.tag = "done" THEN Tellings(i) \union {t} ELSE Tellings(i)
     /\ t \notin Tellings(i)
     /\ \A u \in Tellings(i) : Telling(k, u[1], u[2]) = Telling(i, u[1], u[2])

\* A line that ends no run leaves what was told; one that does tells one run more.
LEMMA LineTells ==
  ASSUME NEW i, AllFiles(i), NEW f, NEW x, MayFollow(f, Content(i, f), x)
  PROVE  MoreTold(i, f, x, Line(i, f, x))
<1>. DEFINE k == Line(i, f, x)
            l == Content(i, f)
            n == Len(l)
<1>1. LongerBy(i, f, x, k)
  BY LineLemma
<1>2. f \in DOMAIN i => l = i[f]
  BY DEF Content
<1>3. f \notin DOMAIN i => n = 0
  <2>1. Len(<< >>) = 0
    OBVIOUS
  <2>. QED
    BY <2>1 DEF Content
<1>. HIDE DEF k, l
<1>4. /\ AllFiles(k) /\ DOMAIN k = DOMAIN i \union {f}
      /\ \A file \in DOMAIN i : file # f => k[file] = i[file]
      /\ Longer(f, l, x, k[f])
  BY <1>1 DEF LongerBy, l
<1>5. /\ n \in Nat /\ Len(k[f]) = n + 1 /\ k[f][n + 1] = x
      /\ \A j \in 1 .. n : k[f][j] = l[j]
      /\ \A j \in 1 .. n : HeaderOf(k[f], j) = HeaderOf(l, j)
  BY <1>4 DEF Longer
<1>. HIDE DEF n
<1>6. ASSUME NEW t
      PROVE  t \in Tellings(k) <=> (t \in Tellings(i) \/ (x.tag = "done" /\ t = <<f, n + 1>>))
  <2>1. ASSUME t \in Tellings(i) PROVE t \in Tellings(k)
    <3>1. PICK file, j :
           file \in DOMAIN i /\ j \in 1 .. Len(i[file]) /\ t = <<file, j>> /\ i[file][j].tag = "done"
      BY <2>1, TellingsLemma
    <3>2. CASE file = f
      <4>1. j \in 1 .. n
        BY <1>2, <3>1, <3>2 DEF n
      <4>2. j \in 1 .. Len(k[f]) /\ k[f][j] = i[f][j] /\ f \in DOMAIN k
        BY <1>2, <1>4, <1>5, <3>1, <3>2, <4>1
      <4>. QED
        BY <1>4, <3>1, <3>2, <4>2, TellingsLemma
    <3>3. CASE file # f
      <4>1. k[file] = i[file] /\ file \in DOMAIN k
        BY <1>4, <3>1, <3>3
      <4>. QED
        BY <1>4, <3>1, <4>1, TellingsLemma
    <3>. QED
      BY <3>2, <3>3
  <2>2. ASSUME x.tag = "done", t = <<f, n + 1>> PROVE t \in Tellings(k)
    <3>1. f \in DOMAIN k /\ n + 1 \in 1 .. Len(k[f]) /\ k[f][n + 1].tag = "done"
      BY <1>4, <1>5, <2>2
    <3>. QED
      BY <1>4, <2>2, <3>1, TellingsLemma
  <2>3. ASSUME t \in Tellings(k) PROVE t \in Tellings(i) \/ (x.tag = "done" /\ t = <<f, n + 1>>)
    <3>1. PICK file, j :
           file \in DOMAIN k /\ j \in 1 .. Len(k[file]) /\ t = <<file, j>> /\ k[file][j].tag = "done"
      BY <1>4, <2>3, TellingsLemma
    <3>2. CASE file = f
      <4>1. CASE j = n + 1
        BY <1>5, <3>1, <3>2, <4>1
      <4>2. CASE j # n + 1
        <5>1. j \in 1 .. n
          BY <1>5, <3>1, <3>2, <4>2
        <5>2. f \in DOMAIN i /\ l = i[f]
          BY <1>2, <1>3, <5>1
        <5>3. j \in 1 .. Len(i[f]) /\ i[f][j].tag = "done"
          BY <1>5, <3>1, <3>2, <5>1, <5>2 DEF n
        <5>. QED
          BY <3>1, <3>2, <5>2, <5>3, TellingsLemma
      <4>. QED
        BY <4>1, <4>2
    <3>3. CASE file # f
      <4>1. k[file] = i[file] /\ file \in DOMAIN i
        BY <1>4, <3>1, <3>3
      <4>. QED
        BY <3>1, <4>1, TellingsLemma
    <3>. QED
      BY <3>2, <3>3
  <2>. QED
    BY <2>1, <2>2, <2>3
<1>7. <<f, n + 1>> \notin Tellings(i)
  <2>. SUFFICES ASSUME <<f, n + 1>> \in Tellings(i) PROVE FALSE
    OBVIOUS
  <2>1. PICK file, j :
           file \in DOMAIN i /\ j \in 1 .. Len(i[file]) /\ <<f, n + 1>> = <<file, j>>
    BY TellingsLemma
  <2>2. file = f /\ j = n + 1 /\ l = i[f]
    BY <1>2, <2>1
  <2>. QED
    BY <1>5, <2>1, <2>2 DEF n
<1>8. ASSUME NEW t \in Tellings(i) PROVE Telling(k, t[1], t[2]) = Telling(i, t[1], t[2])
  <2>1. PICK file, j :
           file \in DOMAIN i /\ j \in 1 .. Len(i[file]) /\ t = <<file, j>> /\ i[file][j].tag = "done"
    BY TellingsLemma
  <2>2. t[1] = file /\ t[2] = j
    BY <2>1
  <2>3. CASE file = f
    <3>1. l = i[f] /\ j \in 1 .. n
      BY <1>2, <2>1, <2>3 DEF n
    <3>2. j # 1 /\ j - 1 \in 1 .. n
      <4>1. IsFile(file, i[file])
        BY <2>1 DEF AllFiles
      <4>2. j # 1
        BY <2>1, <4>1 DEF IsFile
      <4>. QED
        BY <1>5, <3>1, <4>2
    <3>3. /\ HeaderOf(k[f], j) = HeaderOf(i[f], j) /\ k[f][j] = i[f][j]
          /\ k[f][j - 1] = i[f][j - 1]
      BY <1>5, <3>1, <3>2
    <3>. QED
      BY <2>2, <2>3, <3>3 DEF Telling
  <2>4. CASE file # f
    BY <1>4, <2>1, <2>2, <2>4 DEF Telling
  <2>. QED
    BY <2>3, <2>4
<1>9. Tellings(k) = IF x.tag = "done" THEN Tellings(i) \union {<<f, n + 1>>} ELSE Tellings(i)
  BY <1>6
<1>. QED
  BY <1>7, <1>8, <1>9 DEF k, l, n, MoreTold

LEMMA TallyLemma ==
  ASSUME NEW i, AllFiles(i), NEW f, NEW x, MayFollow(f, Content(i, f), x),
         NEW rs, IsSequence(rs), Tally(i, rs)
  PROVE  LET k == Line(i, f, x)
         IN /\ x.tag # "done" => Tally(k, rs)
            /\ x.tag = "done" => Tally(k, Append(rs, Telling(k, f, Len(Content(i, f)) + 1)))
<1>. DEFINE k == Line(i, f, x)
            n == Len(Content(i, f))
            t == <<f, n + 1>>
            run == Telling(k, f, n + 1)
            rr == Append(rs, run)
<1>1. /\ Tellings(k) = IF x.tag = "done" THEN Tellings(i) \union {t} ELSE Tellings(i)
      /\ t \notin Tellings(i)
      /\ \A u \in Tellings(i) : Telling(k, u[1], u[2]) = Telling(i, u[1], u[2])
  BY LineTells DEF MoreTold
<1>. HIDE DEF k
<1>2. ASSUME x.tag # "done" PROVE Tally(k, rs)
  <2>1. \A r : TellingsOf(k, r) = TellingsOf(i, r)
    BY <1>1, <1>2 DEF TellingsOf
  <2>. QED
    BY <2>1 DEF Tally
<1>3. ASSUME x.tag = "done" PROVE Tally(k, rr)
  <2>1. t[1] = f /\ t[2] = n + 1
    OBVIOUS
  <2>2. /\ Len(rs) \in Nat /\ DOMAIN rs = 1 .. Len(rs) /\ DOMAIN rr = 1 .. Len(rs) + 1
        /\ \A j \in 1 .. Len(rs) : rr[j] = rs[j]
        /\ rr[Len(rs) + 1] = run
    BY AppendLemma
  <2>3. Telling(k, t[1], t[2]) = run
    BY <2>1
  <2>. HIDE DEF t, run, rr
  <2>4. ASSUME NEW r
        PROVE  /\ IsFiniteSet(RunsLike(rr, r)) /\ IsFiniteSet(TellingsOf(k, r))
               /\ Cardinality(RunsLike(rr, r)) = Cardinality(TellingsOf(k, r))
    <3>1. /\ IsFiniteSet(RunsLike(rs, r)) /\ IsFiniteSet(TellingsOf(i, r))
          /\ Cardinality(RunsLike(rs, r)) = Cardinality(TellingsOf(i, r))
      BY DEF Tally
    <3>2. CASE r = run
      <4>1. TellingsOf(k, r) = TellingsOf(i, r) \union {t} /\ t \notin TellingsOf(i, r)
        BY <1>1, <1>3, <2>3, <3>2 DEF TellingsOf
      <4>2. RunsLike(rr, r) = RunsLike(rs, r) \union {Len(rs) + 1} /\ Len(rs) + 1 \notin RunsLike(rs, r)
        BY <2>2, <3>2 DEF RunsLike
      <4>3. /\ IsFiniteSet(TellingsOf(i, r) \union {t})
            /\ Cardinality(TellingsOf(i, r) \union {t}) = Cardinality(TellingsOf(i, r)) + 1
        BY <3>1, <4>1, FS_AddElement
      <4>4. /\ IsFiniteSet(RunsLike(rs, r) \union {Len(rs) + 1})
            /\ Cardinality(RunsLike(rs, r) \union {Len(rs) + 1}) = Cardinality(RunsLike(rs, r)) + 1
        BY <3>1, <4>2, FS_AddElement
      <4>. QED
        BY <3>1, <4>1, <4>2, <4>3, <4>4
    <3>3. CASE r # run
      <4>1. TellingsOf(k, r) = TellingsOf(i, r)
        BY <1>1, <1>3, <2>3, <3>3 DEF TellingsOf
      <4>2. RunsLike(rr, r) = RunsLike(rs, r)
        BY <2>2, <3>3 DEF RunsLike
      <4>. QED
        BY <3>1, <4>1, <4>2
    <3>. QED
      BY <3>2, <3>3
  <2>. QED
    BY <2>4 DEF Tally
<1>. QED
  BY <1>2, <1>3 DEF k

LEMMA FilesLemma ==
  ASSUME NEW i, NEW n, NEW e, Files(i, n, e), NEW S, OpenOnlyIn(i, S),
         NEW f, f[1] \in 1 .. n, NEW x, MayFollow(f, Content(i, f), x),
         x.tag = "header" => e > 1 \/ f \notin DOMAIN i \/ LastLine(i[f]).tag = "newline"
  PROVE  /\ AllFiles(i) /\ LongerBy(i, f, x, Line(i, f, x))
         /\ Files(Line(i, f, x), n, e)
         /\ OpenOnlyIn(Line(i, f, x), IF x.tag = "run" THEN S \union {f} ELSE S \ {f})
<1>. DEFINE k == Line(i, f, x)
            l == Content(i, f)
<1>1. AllFiles(i)
  BY DEF Files, AllFiles
<1>2. LongerBy(i, f, x, k)
  BY <1>1, LineLemma
<1>3. f \in DOMAIN i => l = i[f]
  BY DEF Content
<1>4. f \notin DOMAIN i <=> l = << >>
  BY <1>1, ContentLemma
<1>. HIDE DEF k, l
<1>5. /\ DOMAIN k = DOMAIN i \union {f} /\ AllFiles(k) /\ Longer(f, l, x, k[f])
      /\ \A file \in DOMAIN i : file # f => k[file] = i[file]
  BY <1>2 DEF LongerBy, l
<1>6. e > 1 \/ Lined(k[f])
  <2>. SUFFICES ASSUME ~ (e > 1) PROVE Lined(k[f])
    OBVIOUS
  <2>1. x.tag = "header" => l = << >> \/ LastLine(l).tag = "newline"
    BY <1>3, <1>4
  <2>2. Lined(l)
    <3>1. CASE f \in DOMAIN i
      BY <1>3, <3>1 DEF Files
    <3>2. CASE f \notin DOMAIN i
      <4>1. l = << >> /\ Len(<< >>) = 0
        BY <1>4, <3>2
      <4>. QED
        BY <4>1 DEF Lined
    <3>. QED
      BY <3>1, <3>2
  <2>. QED
    BY <1>5, <2>1, <2>2 DEF Longer
<1>7. Files(k, n, e)
  <2>1. ASSUME NEW file \in DOMAIN k
        PROVE  IsFile(file, k[file]) /\ file[1] \in 1 .. n /\ (e > 1 \/ Lined(k[file]))
    <3>1. IsFile(file, k[file])
      BY <1>5 DEF AllFiles
    <3>2. CASE file = f
      BY <1>6, <3>1, <3>2
    <3>3. CASE file # f
      <4>1. file \in DOMAIN i /\ k[file] = i[file]
        BY <1>5, <3>3
      <4>. QED
        BY <3>1, <4>1 DEF Files
    <3>. QED
      BY <3>2, <3>3
  <2>. QED
    BY <2>1 DEF Files
<1>8. OpenOnlyIn(k, IF x.tag = "run" THEN S \union {f} ELSE S \ {f})
  <2>1. ASSUME NEW file \in DOMAIN k, LastLine(k[file]).tag = "run"
        PROVE  file \in IF x.tag = "run" THEN S \union {f} ELSE S \ {f}
    <3>1. CASE file = f
      <4>1. LastLine(k[f]) = x
        BY <1>5 DEF Longer
      <4>. QED
        BY <2>1, <3>1, <4>1
    <3>2. CASE file # f
      <4>1. file \in DOMAIN i /\ k[file] = i[file]
        BY <1>5, <3>2
      <4>2. file \in S
        BY <2>1, <4>1 DEF OpenOnlyIn
      <4>. QED
        BY <3>2, <4>2
    <3>. QED
      BY <3>1, <3>2
  <2>. QED
    BY <2>1 DEF OpenOnlyIn
<1>. QED
  BY <1>1, <1>2, <1>7, <1>8 DEF k

----------------------------------------------------------------------------
(* Opening an info file.                                                   *)

Listed(b) == {b.dimensions[k] : k \in 1 .. bbob_number_of_dimensions} \ {0}
IsBbob(b) ==
  /\ b = [current_dim |-> b.current_dim, current_funId |-> b.current_funId,
          firstInstance |-> b.firstInstance, dimensions |-> b.dimensions,
          logger_is_open |-> b.logger_is_open]
  /\ b.dimensions \in [1 .. bbob_number_of_dimensions -> Nat]

LEMMA SlotLemma ==
  ASSUME NEW b, IsBbob(b), NEW d \in Nat \ {0}
  PROVE  /\ Slot(b, d) \in 1 .. bbob_number_of_dimensions
              => b.dimensions[Slot(b, d)] \in {0, d}
         /\ Slot(b, d) \in 1 .. bbob_number_of_dimensions \/ Slot(b, d) > bbob_number_of_dimensions
         /\ bbob_number_of_dimensions \in Nat \ {0}
<1>. DEFINE at == {k \in 1 .. bbob_number_of_dimensions : b.dimensions[k] \in {0, d}}
<1>1. bbob_number_of_dimensions \in Nat \ {0} /\ at \in SUBSET Nat
  BY LoggingAssumption
<1>2. at # {} => MinOf(at) \in at
  <2>. HIDE DEF at
  <2>. QED
    BY <1>1, LeastNatural
<1>3. Slot(b, d) = IF at = {} THEN bbob_number_of_dimensions + 1 ELSE MinOf(at)
  BY DEF Slot
<1>. QED
  BY <1>1, <1>2, <1>3

\* c is b with another list of dimensions.
Relisted(l, b, c, present) ==
  /\ IsBbob(c) /\ Listed(c) \subseteq Listed(b) \union {l.dimension}
  /\ present => /\ l.dimension \in Listed(b) /\ b.current_dim # l.dimension
                /\ c.firstInstance = l.instance_id
  /\ ~ present => c.firstInstance = b.firstInstance

LEMMA RelistLemma ==
  ASSUME NEW b, IsBbob(b), NEW l, l.dimension \in Nat \ {0}
  PROVE  LET i == Slot(b, l.dimension)
             full == i > bbob_number_of_dimensions
             another == b.current_dim # l.dimension
             present == another /\ ~ full /\ b.dimensions[i] = l.dimension
             listed == IF ~ another THEN b
                       ELSE IF present
                       THEN [b EXCEPT !.firstInstance = l.instance_id,
                                      !.dimensions = [NoDimensions EXCEPT ![i] = l.dimension]]
                       ELSE IF full THEN [b EXCEPT !.dimensions = NoDimensions]
                       ELSE [b EXCEPT !.dimensions[i] = l.dimension]
         IN Relisted(l, b, listed, present)
<1>. DEFINE n == bbob_number_of_dimensions
            d == l.dimension
            i == Slot(b, d)
            full == i > n
            another == b.current_dim # d
            present == another /\ ~ full /\ b.dimensions[i] = d
            c1 == [b EXCEPT !.firstInstance = l.instance_id,
                            !.dimensions = [NoDimensions EXCEPT ![i] = d]]
            c2 == [b EXCEPT !.dimensions = NoDimensions]
            c3 == [b EXCEPT !.dimensions[i] = d]
            listed == IF ~ another THEN b ELSE IF present THEN c1 ELSE IF full THEN c2 ELSE c3
<1>1. /\ i \in 1 .. n \/ full
      /\ n \in Nat \ {0}
  BY SlotLemma
<1>2. NoDimensions = [k \in 1 .. n |-> 0]
  BY DEF NoDimensions, InitialBbob
<1>3. \A x : IsBbob([b EXCEPT !.dimensions = x]) <=> x \in [1 .. n -> Nat]
  BY DEF IsBbob
<1>4. ASSUME NEW x, NEW y \in [1 .. n -> Nat]
      PROVE  IsBbob([b EXCEPT !.firstInstance = x, !.dimensions = y])
  <2>. DEFINE a == [b EXCEPT !.firstInstance = x]
              c == [a EXCEPT !.dimensions = y]
  <2>1. [b EXCEPT !.firstInstance = x, !.dimensions = y] = c
    OBVIOUS
  <2>2. a = [current_dim |-> a.current_dim, current_funId |-> a.current_funId,
             firstInstance |-> a.firstInstance, dimensions |-> a.dimensions,
             logger_is_open |-> a.logger_is_open]
    BY DEF IsBbob
  <2>. HIDE DEF a
  <2>3. IsBbob(c)
    BY <2>2 DEF IsBbob
  <2>. QED
    BY <2>1, <2>3
<1>5. CASE ~ another
  <2>1. Relisted(l, b, b, FALSE)
    BY DEF Relisted
  <2>2. listed = b /\ present = FALSE
    BY <1>5
  <2>. QED
    BY <2>1, <2>2
<1>6. CASE present
  <2>1. i \in 1 .. n /\ b.dimensions[i] = d
    BY <1>1, <1>6
  <2>. HIDE DEF i
  <2>2. [NoDimensions EXCEPT ![i] = d] \in [1 .. n -> Nat]
    BY <1>2
  <2>3. c1.dimensions = [NoDimensions EXCEPT ![i] = d] /\ c1.firstInstance = l.instance_id
    BY DEF IsBbob
  <2>4. IsBbob(c1)
    BY <1>4, <2>2
  <2>5. \A k \in 1 .. n : c1.dimensions[k] \in {0, d}
    BY <1>2, <2>3
  <2>. HIDE DEF c1
  <2>6. Listed(c1) \subseteq {d}
    BY <2>5 DEF Listed
  <2>7. d \in Listed(b)
    BY <2>1 DEF Listed
  <2>8. Relisted(l, b, c1, TRUE)
    BY <1>6, <2>3, <2>4, <2>6, <2>7 DEF Relisted
  <2>9. listed = c1 /\ present = TRUE
    BY <1>6 DEF i
  <2>. QED
    BY <2>8, <2>9 DEF i, c1
<1>7. CASE another /\ ~ present /\ full
  <2>1. c2.dimensions = NoDimensions /\ c2.firstInstance = b.firstInstance
    BY DEF IsBbob
  <2>2. NoDimensions \in [1 .. n -> Nat] /\ \A k \in 1 .. n : NoDimensions[k] = 0
    BY <1>2
  <2>3. IsBbob(c2)
    BY <1>3, <2>2
  <2>. HIDE DEF c2
  <2>4. Listed(c2) = {}
    BY <2>1, <2>2 DEF Listed
  <2>5. Relisted(l, b, c2, FALSE)
    BY <2>1, <2>3, <2>4 DEF Relisted
  <2>6. listed = c2 /\ present = FALSE
    BY <1>7
  <2>. QED
    BY <2>5, <2>6 DEF c2
<1>8. CASE another /\ ~ present /\ ~ full
  <2>. DEFINE y == [b.dimensions EXCEPT ![i] = d]
  <2>1. c3 = [b EXCEPT !.dimensions = y]
    OBVIOUS
  <2>2. y \in [1 .. n -> Nat] /\ \A k \in 1 .. n : y[k] \in {b.dimensions[k], d}
    BY DEF IsBbob
  <2>. HIDE DEF y
  <2>3. c3.dimensions = y /\ c3.firstInstance = b.firstInstance
    BY <2>1 DEF IsBbob
  <2>4. IsBbob(c3)
    BY <1>3, <2>1, <2>2
  <2>. HIDE DEF c3
  <2>5. Listed(c3) \subseteq Listed(b) \union {d}
    BY <2>2, <2>3 DEF Listed
  <2>6. Relisted(l, b, c3, FALSE)
    BY <2>3, <2>4, <2>5 DEF Relisted
  <2>7. listed = c3 /\ present = FALSE
    BY <1>8
  <2>. QED
    BY <2>6, <2>7 DEF c3
<1>. QED
  BY <1>5, <1>6, <1>7, <1>8

\* k is i with a line that ends no run.
Noted(i, n, e, f, x, k) ==
  /\ Files(k, n, e) /\ OpenOnlyIn(k, IF x.tag = "run" THEN {f} ELSE {})
  /\ DOMAIN k = DOMAIN i \union {f}
  /\ \A file \in DOMAIN i : file # f => k[file] = i[file]
  /\ LastLine(k[f]) = x
  /\ LastHeader(k[f]) = IF x.tag = "header" THEN x ELSE LastHeader(i[f])
  /\ \A rs : IsSequence(rs) /\ Tally(i, rs) => Tally(k, rs)

LEMMA NoteLemma ==
  ASSUME NEW i, NEW n, NEW e, Files(i, n, e), OpenOnlyIn(i, {}), NEW f, f[1] \in 1 .. n, NEW x,
         x.tag \in {"header", "newline", "run"},
         x.tag = "header" => x.funId = f[2] /\ x.data = f[3],
         f \notin DOMAIN i => x.tag = "header",
         x.tag = "header" => e > 1 \/ f \notin DOMAIN i \/ LastLine(i[f]).tag = "newline"
  PROVE  Noted(i, n, e, f, x, Line(i, f, x)) /\ IsSequence(Content(i, f))
<1>. DEFINE k == Line(i, f, x)
            l == Content(i, f)
<1>1. AllFiles(i)
  BY DEF Files, AllFiles
<1>2. /\ IsSequence(l)
      /\ f \notin DOMAIN i <=> l = << >>
      /\ f \in DOMAIN i => l = i[f]
  BY <1>1, ContentLemma DEF Content
<1>. HIDE DEF l
<1>3. f \in DOMAIN i => LastLine(l).tag # "run"
  BY <1>2 DEF OpenOnlyIn
<1>4. MayFollow(f, l, x)
  BY <1>2, <1>3 DEF MayFollow, Tags
<1>5. /\ LongerBy(i, f, x, k) /\ Files(k, n, e)
      /\ OpenOnlyIn(k, IF x.tag = "run" THEN {} \union {f} ELSE {} \ {f})
  BY <1>4, FilesLemma DEF l
<1>6. OpenOnlyIn(k, IF x.tag = "run" THEN {f} ELSE {})
  BY <1>5
<1>7. \A rs : IsSequence(rs) /\ Tally(i, rs) => Tally(k, rs)
  BY <1>1, <1>4, TallyLemma DEF l
<1>. HIDE DEF k
<1>8. /\ DOMAIN k = DOMAIN i \union {f} /\ Longer(f, l, x, k[f])
      /\ \A file \in DOMAIN i : file # f => k[file] = i[file]
  BY <1>5 DEF LongerBy, l
<1>9. LastLine(k[f]) = x /\ LastHeader(k[f]) = IF x.tag = "header" THEN x ELSE LastHeader(l)
  BY <1>8 DEF Longer
<1>10. LastHeader(k[f]) = IF x.tag = "header" THEN x ELSE LastHeader(i[f])
  BY <1>2, <1>9
<1>. QED
  BY <1>2, <1>5, <1>6, <1>7, <1>8, <1>9, <1>10 DEF Noted, k, l

\* What opening its file comes to for the logger l.
Opened(i, b, l, n, e, o) ==
  /\ Files(o.info, n, e) /\ OpenOnlyIn(o.info, {}) /\ Section(o.info, o.bbob, n)
  /\ IsBbob(o.bbob) /\ Listed(o.bbob) \subseteq Listed(b) \union {l.dimension}
  /\ o.bbob.current_dim = l.dimension /\ o.bbob.firstInstance # 0
  /\ FileOf(l, o.bbob) \in DOMAIN o.info
  /\ LastHeader(o.info[FileOf(l, o.bbob)]).dim = l.dimension
  /\ \A rs : IsSequence(rs) /\ Tally(i, rs) => Tally(o.info, rs)

LEMMA OpenLemma ==
  ASSUME NEW i, NEW n \in Nat \ {0}, NEW e, Files(i, n, e), OpenOnlyIn(i, {}),
         NEW b, IsBbob(b), Section(i, b, n),
         NEW l, l.folder = n, l.dimension \in Nat \ {0}, l.instance_id # 0,
         e > 1 \/ l.dimension \notin Listed(b) \/ b.current_dim = l.dimension
  PROVE  Opened(i, b, l, n, e, logger_bbob_openIndexFile(l, b, i))
<1>. DEFINE c == IF b.firstInstance = 0 THEN [b EXCEPT !.firstInstance = l.instance_id] ELSE b
            file == FileOf(l, c)
            exists == file \in DOMAIN i
            slot == Slot(c, l.dimension)
            full == slot > bbob_number_of_dimensions
            another == c.current_dim # l.dimension
            present == another /\ ~ full /\ c.dimensions[slot] = l.dimension
            listed == IF ~ another THEN c
                      ELSE IF present
                      THEN [c EXCEPT !.firstInstance = l.instance_id,
                                     !.dimensions = [NoDimensions EXCEPT ![slot] = l.dimension]]
                      ELSE IF full THEN [c EXCEPT !.dimensions = NoDimensions]
                      ELSE [c EXCEPT !.dimensions[slot] = l.dimension]
            lines == (IF exists /\ ~ present THEN <<NewLine>> ELSE << >>) \o <<Header(l, listed)>>
            o1 == [bbob |-> c, info |-> i]
            m == [listed EXCEPT !.current_dim = l.dimension, !.current_funId = l.function_id]
            o2 == [bbob |-> m, info |-> Written(i, FileOf(l, listed), lines)]
            o == logger_bbob_openIndexFile(l, b, i)
<1>. SUFFICES Opened(i, b, l, n, e, o)
  OBVIOUS
<1>1. o = IF exists /\ SameHeader(c, l) THEN o1 ELSE o2
  BY DEF logger_bbob_openIndexFile
<1>. HIDE DEF o
<1>2. /\ IsBbob(c) /\ c.firstInstance # 0 /\ Listed(c) = Listed(b)
      /\ c.current_dim = b.current_dim /\ c.current_funId = b.current_funId
      /\ b.firstInstance # 0 => c = b
  <2>1. CASE b.firstInstance = 0
    <3>1. c = [b EXCEPT !.firstInstance = l.instance_id]
      BY <2>1
    <3>2. /\ c.firstInstance = l.instance_id /\ c.current_dim = b.current_dim
          /\ c.current_funId = b.current_funId /\ c.dimensions = b.dimensions
      BY <3>1 DEF IsBbob
    <3>3. IsBbob(c)
      BY <3>1 DEF IsBbob
    <3>. HIDE DEF c
    <3>4. Listed(c) = Listed(b)
      BY <3>2 DEF Listed
    <3>. QED
      BY <2>1, <3>2, <3>3, <3>4
  <2>2. CASE b.firstInstance # 0
    <3>1. c = b
      BY <2>2
    <3>. HIDE DEF c
    <3>. QED
      BY <2>2, <3>1
  <2>. QED
    BY <2>1, <2>2
<1>3. b.firstInstance = 0 => DOMAIN i = {}
  BY DEF Section
<1>. HIDE DEF c
<1>4. Relisted(l, c, listed, present)
  BY <1>2, RelistLemma
<1>5. CASE exists /\ SameHeader(c, l)
  <2>1. o.bbob = b /\ o.info = i /\ c = b
    <3>1. o = o1 /\ b.firstInstance # 0
      BY <1>1, <1>3, <1>5
    <3>. QED
      BY <1>2, <3>1
  <2>2. b.current_dim = l.dimension /\ b.current_funId = l.function_id
    BY <1>5, <2>1 DEF SameHeader
  <2>3. file = <<n, b.current_funId, b.firstInstance>> /\ file = FileOf(l, o.bbob)
    BY <2>1, <2>2 DEF FileOf
  <2>4. LastHeader(i[file]).dim = l.dimension
    BY <1>5, <2>2, <2>3 DEF Section
  <2>5. file \in DOMAIN i
    BY <1>5
  <2>. HIDE DEF file
  <2>6. Files(o.info, n, e) /\ OpenOnlyIn(o.info, {}) /\ Section(o.info, o.bbob, n)
    BY <2>1
  <2>7. IsBbob(o.bbob) /\ Listed(o.bbob) \subseteq Listed(b) \union {l.dimension}
    BY <2>1
  <2>8. o.bbob.current_dim = l.dimension /\ o.bbob.firstInstance # 0
    BY <1>2, <2>1, <2>2
  <2>9. FileOf(l, o.bbob) \in DOMAIN o.info /\ LastHeader(o.info[FileOf(l, o.bbob)]).dim = l.dimension
    BY <2>1, <2>3, <2>4, <2>5
  <2>10. \A rs : IsSequence(rs) /\ Tally(i, rs) => Tally(o.info, rs)
    BY <2>1
  <2>. QED
    BY <2>6, <2>7, <2>8, <2>9, <2>10 DEF Opened
<1>6. CASE ~ (exists /\ SameHeader(c, l))
  <2>. HIDE DEF present, listed
  <2>1. /\ IsBbob(listed) /\ Listed(listed) \subseteq Listed(b) \union {l.dimension}
        /\ present => l.dimension \in Listed(b) /\ b.current_dim # l.dimension
        /\ listed.firstInstance # 0
        /\ ~ present => listed.firstInstance = c.firstInstance
    BY <1>2, <1>4 DEF Relisted
  <2>. DEFINE f == FileOf(l, listed)
              x == Header(l, listed)
              k == Written(i, f, lines)
  <2>2. o.bbob = m /\ o.info = k
    BY <1>1, <1>6
  <2>3. /\ m.current_dim = l.dimension /\ m.current_funId = l.function_id
        /\ m.firstInstance = listed.firstInstance /\ m.dimensions = listed.dimensions
        /\ IsBbob(m)
    <3>. DEFINE u == [listed EXCEPT !.current_dim = l.dimension]
                v == [u EXCEPT !.current_funId = l.function_id]
    <3>1. m = v
      OBVIOUS
    <3>2. /\ IsBbob(u) /\ u.current_dim = l.dimension
          /\ u.firstInstance = listed.firstInstance /\ u.dimensions = listed.dimensions
      BY <2>1 DEF IsBbob
    <3>. HIDE DEF u
    <3>3. /\ IsBbob(v) /\ v.current_dim = u.current_dim /\ v.current_funId = l.function_id
          /\ v.firstInstance = u.firstInstance /\ v.dimensions = u.dimensions
      BY <3>2 DEF IsBbob
    <3>. HIDE DEF v, m
    <3>. QED
      BY <3>1, <3>2, <3>3
  <2>4. f = <<n, l.function_id, listed.firstInstance>> /\ f[1] \in 1 .. n
        /\ f[2] = l.function_id /\ f[3] = listed.firstInstance
    BY DEF FileOf
  <2>5. x.tag = "header" /\ x.funId = f[2] /\ x.data = f[3] /\ x.dim = l.dimension
    BY <2>4 DEF Header
  <2>6. ~ present => f = file
    BY <2>1 DEF FileOf
  <2>7. NewLine.tag = "newline"
    BY DEF NewLine
  <2>. HIDE DEF f, x, m, file
  <2>8. /\ Files(k, n, e) /\ OpenOnlyIn(k, {}) /\ f \in DOMAIN k /\ LastHeader(k[f]) = x
        /\ \A rs : IsSequence(rs) /\ Tally(i, rs) => Tally(k, rs)
    <3>1. CASE exists /\ ~ present
      <4>. DEFINE j == Line(i, f, NewLine)
                  h == Line(j, f, x)
      <4>1. f \in DOMAIN i
        BY <2>6, <3>1
      <4>2. Noted(i, n, e, f, NewLine, j) /\ IsSequence(Content(i, f))
        BY <2>4, <2>7, <4>1, NoteLemma
      <4>3. k = h
        <5>1. lines = <<NewLine>> \o <<x>>
          BY <3>1 DEF x
        <5>. HIDE DEF lines
        <5>. QED
          BY <4>2, <5>1, WrittenLemma
      <4>. HIDE DEF j, k
      <4>4. /\ Files(j, n, e) /\ OpenOnlyIn(j, {}) /\ f \in DOMAIN j /\ LastLine(j[f]) = NewLine
            /\ \A rs : IsSequence(rs) /\ Tally(i, rs) => Tally(j, rs)
        BY <2>7, <4>2 DEF Noted
      <4>5. Noted(j, n, e, f, x, h)
        BY <2>4, <2>5, <2>7, <4>4, NoteLemma
      <4>. HIDE DEF h
      <4>. QED
        BY <2>5, <4>3, <4>4, <4>5 DEF Noted
    <3>2. CASE ~ (exists /\ ~ present)
      <4>. DEFINE h == Line(i, f, x)
      <4>1. e > 1 \/ f \notin DOMAIN i
        BY <2>1, <2>6, <3>2
      <4>2. Noted(i, n, e, f, x, h) /\ IsSequence(Content(i, f))
        BY <2>4, <2>5, <4>1, NoteLemma
      <4>3. k = h
        <5>1. lines = << >> \o <<x>>
          BY <3>2 DEF x
        <5>. HIDE DEF lines
        <5>. QED
          BY <4>2, <5>1, WrittenLemma
      <4>. HIDE DEF h, k
      <4>. QED
        BY <2>5, <4>2, <4>3 DEF Noted
    <3>. QED
      BY <3>1, <3>2
  <2>. HIDE DEF k
  <2>9. f = FileOf(l, m)
    BY <2>3 DEF FileOf, f
  <2>10. Section(k, m, n)
    BY <2>1, <2>3, <2>4, <2>5, <2>8 DEF Section
  <2>11. Listed(m) = Listed(listed)
    BY <2>3 DEF Listed
  <2>12. IsBbob(m) /\ Listed(m) \subseteq Listed(b) \union {l.dimension}
    BY <2>1, <2>3, <2>11
  <2>13. m.current_dim = l.dimension /\ m.firstInstance # 0
    BY <2>1, <2>3
  <2>14. FileOf(l, m) \in DOMAIN k /\ LastHeader(k[FileOf(l, m)]).dim = l.dimension
    BY <2>5, <2>8, <2>9
  <2>. HIDE DEF f
  <2>. QED
    BY <2>2, <2>8, <2>10, <2>12, <2>13, <2>14 DEF Opened
<1>. QED
  BY <1>5, <1>6

----------------------------------------------------------------------------
(* The run of a logger in its file.                                        *)

RunFields ==
  {"kind", "folder", "function_id", "instance_id", "dimension", "is_initialized", "index_file"}
OfProblem(l, q) ==
  l.function_id = q.function /\ l.dimension = q.dimension /\ l.instance_id = q.instance
\* The run of the logger l has begun in its file.
Begun(i, l) ==
  /\ l.index_file \in DOMAIN i
  /\ l.index_file[1] = l.folder /\ l.index_file[2] = l.function_id
  /\ LastLine(i[l.index_file]) = Run(l)
  /\ LastHeader(i[l.index_file]).dim = l.dimension

Keeps(l, r) == RunFields \subseteq DOMAIN r /\ \A field \in RunFields : r[field] = l[field]

LEMMA KeepsLemma ==
  ASSUME NEW l, RunFields \subseteq DOMAIN l
  PROVE  /\ Keeps(l, l)
         /\ \A name, v : name \notin RunFields => Keeps(l, [l EXCEPT ![name] = v])
         /\ \A r, s : Keeps(l, r) /\ Keeps(r, s) => Keeps(l, s)
  BY DEF Keeps

LEMMA KeptFields ==
  ASSUME NEW l, NEW r, Keeps(l, r)
  PROVE  /\ r.kind = l.kind /\ r.folder = l.folder /\ r.function_id = l.function_id
         /\ r.instance_id = l.instance_id /\ r.dimension = l.dimension
         /\ r.is_initialized = l.is_initialized /\ r.index_file = l.index_file
         /\ RunFields \subseteq DOMAIN r
         /\ Run(r) = Run(l)
         /\ \A i : Begun(i, l) => Begun(i, r)
         /\ \A q : OfProblem(l, q) => OfProblem(r, q)
<1>1. /\ r.kind = l.kind /\ r.folder = l.folder /\ r.function_id = l.function_id
      /\ r.instance_id = l.instance_id /\ r.dimension = l.dimension
      /\ r.is_initialized = l.is_initialized /\ r.index_file = l.index_file
  BY DEF Keeps, RunFields
<1>2. Run(r) = Run(l)
  BY <1>1 DEF Run
<1>. QED
  BY <1>1, <1>2 DEF Begun, OfProblem, Keeps

LEMMA EvaluationKeeps ==
  ASSUME NEW l, RunFields \subseteq DOMAIN l, NEW y, NEW g, NEW n
  PROVE  Keeps(l, logger_bbob_evaluate(l, y, g, n))
<1>. DEFINE l0 == [l EXCEPT !["number_of_evaluations"] = l.number_of_evaluations + 1]
            l1 == [l EXCEPT !.number_of_evaluations = @ + 1,
                            !.number_of_evaluations_constraints = n]
            first == l1.number_of_evaluations = 1
            value == Best(y, 0) + g
            better == first \/ value < l1.best_fvalue
            l2 == IF better THEN [l1 EXCEPT !.best_fvalue = value] ELSE l1
            target == coco_observer_targets_trigger(l2.targets, value)
            asked == better /\ ~ first
            l3 == IF asked THEN [l2 EXCEPT !.targets = target.targets] ELSE l2
            time == coco_observer_evaluations_trigger(l3.evaluations,
                      l3.number_of_evaluations + l3.number_of_evaluations_constraints)
            line == logger_bbob_write_data(l3)
            fdata == IF first \/ (asked /\ target.hit) THEN Append(l3.fdata, line) ELSE l3.fdata
            tdata == IF time.hit THEN Append(l3.tdata, line) ELSE l3.tdata
            l4 == [l3 EXCEPT !["fdata"] = fdata]
            l5 == [l4 EXCEPT !["evaluations"] = time.evaluations]
            l6 == [l5 EXCEPT !["tdata"] = tdata]
            l7 == [l6 EXCEPT !["written_last_eval"] = time.hit]
            r == logger_bbob_evaluate(l, y, g, n)
<1>1. r = [l3 EXCEPT !.fdata = fdata, !.evaluations = time.evaluations, !.tdata = tdata,
                     !.written_last_eval = time.hit]
  BY DEF logger_bbob_evaluate
<1>2. {"number_of_evaluations", "number_of_evaluations_constraints", "best_fvalue", "targets",
       "fdata", "evaluations", "tdata", "written_last_eval"} \cap RunFields = {}
  BY DEF RunFields
<1>3. \A s, name, v : RunFields \subseteq DOMAIN s /\ name \notin RunFields
                        => Keeps(s, [s EXCEPT ![name] = v])
  BY KeepsLemma
<1>4. \A s, t : Keeps(l, s) /\ Keeps(s, t) => Keeps(l, t)
  BY KeepsLemma
<1>5. \A s : Keeps(l, s) => RunFields \subseteq DOMAIN s
  BY DEF Keeps
<1>6. Keeps(l, l1)
  <2>1. Keeps(l, l0)
    BY <1>2, <1>3
  <2>2. l1 = [l0 EXCEPT !["number_of_evaluations_constraints"] = n]
    OBVIOUS
  <2>. HIDE DEF l0, l1
  <2>3. RunFields \subseteq DOMAIN l0
    BY <1>5, <2>1
  <2>4. Keeps(l0, l1)
    BY <1>2, <1>3, <2>2, <2>3
  <2>. QED
    BY <1>4, <2>1, <2>4
<1>7. Keeps(l, l2)
  <2>. DEFINE s == [l1 EXCEPT !["best_fvalue"] = value]
  <2>1. l2 = l1 \/ l2 = s
    OBVIOUS
  <2>. HIDE DEF l1, l2
  <2>2. Keeps(l1, s)
    BY <1>2, <1>3, <1>5, <1>6
  <2>. HIDE DEF s
  <2>. QED
    BY <1>4, <1>6, <2>1, <2>2
<1>8. Keeps(l, l3)
  <2>. DEFINE s == [l2 EXCEPT !["targets"] = target.targets]
  <2>1. l3 = l2 \/ l3 = s
    OBVIOUS
  <2>. HIDE DEF l2, l3
  <2>2. Keeps(l2, s)
    BY <1>2, <1>3, <1>5, <1>7
  <2>. HIDE DEF s
  <2>. QED
    BY <1>4, <1>7, <2>1, <2>2
<1>. HIDE DEF l3, fdata, tdata, time
<1>9. r = l7
  BY <1>1
<1>10. Keeps(l, l4)
  BY <1>2, <1>3, <1>4, <1>5, <1>8
<1>. HIDE DEF l4
<1>11. Keeps(l, l5)
  BY <1>2, <1>3, <1>4, <1>5, <1>10
<1>. HIDE DEF l5
<1>12. Keeps(l, l6)
  BY <1>2, <1>3, <1>4, <1>5, <1>11
<1>. HIDE DEF l6, r
<1>13. Keeps(l, l7)
  BY <1>2, <1>3, <1>4, <1>5, <1>12
<1>. QED
  BY <1>9, <1>13 DEF r

\* Lines that are no headers leave the sections.
LEMMA SectionLemma ==
  ASSUME NEW i, NEW k, NEW f \in DOMAIN i, DOMAIN k = DOMAIN i,
         LastHeader(k[f]) = LastHeader(i[f]),
         \A file \in DOMAIN i : file # f => k[file] = i[file],
         NEW b, NEW n, Section(i, b, n)
  PROVE  Section(k, b, n)
<1>1. \A file \in DOMAIN i : LastHeader(k[file]) = LastHeader(i[file])
  OBVIOUS
<1>. QED
  BY <1>1 DEF Section

\* What the first evaluation comes to for the logger l.
Initialized(i, b, l, n, e, r) ==
  /\ Files(r.info, n, e) /\ OpenOnlyIn(r.info, {r.logger.index_file})
  /\ Section(r.info, r.bbob, n)
  /\ IsBbob(r.bbob) /\ Listed(r.bbob) \subseteq Listed(b) \union {l.dimension}
  /\ r.bbob.current_dim = l.dimension
  /\ RunFields \subseteq DOMAIN r.logger
  /\ r.logger.kind = l.kind /\ r.logger.folder = l.folder /\ r.logger.is_initialized
  /\ \A q : OfProblem(l, q) => OfProblem(r.logger, q)
  /\ Begun(r.info, r.logger)
  /\ \A rs : IsSequence(rs) /\ Tally(i, rs) => Tally(r.info, rs)

LEMMA InitializeLemma ==
  ASSUME NEW i, NEW n \in Nat \ {0}, NEW e, Files(i, n, e), OpenOnlyIn(i, {}),
         NEW b, IsBbob(b), Section(i, b, n),
         NEW l, RunFields \subseteq DOMAIN l,
         l.folder = n, l.dimension \in Nat \ {0}, l.instance_id # 0,
         e > 1 \/ l.dimension \notin Listed(b) \/ b.current_dim = l.dimension
  PROVE  Initialized(i, b, l, n, e, logger_bbob_initialize(l, b, i))
<1>. DEFINE o == logger_bbob_openIndexFile(l, b, i)
            f == FileOf(l, o.bbob)
            x == Run(l)
            k == Line(o.info, f, x)
            r == logger_bbob_initialize(l, b, i)
            s == [l EXCEPT !.is_initialized = TRUE, !.index_file = f]
<1>. SUFFICES Initialized(i, b, l, n, e, r)
  OBVIOUS
<1>1. r.logger = s /\ r.bbob = o.bbob /\ r.info = Written(o.info, f, <<x>>)
  BY DEF logger_bbob_initialize
<1>2. Opened(i, b, l, n, e, o)
  BY OpenLemma
<1>. HIDE DEF o, r
<1>3. /\ Files(o.info, n, e) /\ OpenOnlyIn(o.info, {}) /\ Section(o.info, o.bbob, n)
      /\ IsBbob(o.bbob) /\ Listed(o.bbob) \subseteq Listed(b) \union {l.dimension}
      /\ o.bbob.current_dim = l.dimension
      /\ f \in DOMAIN o.info /\ LastHeader(o.info[f]).dim = l.dimension
      /\ \A rs : IsSequence(rs) /\ Tally(i, rs) => Tally(o.info, rs)
  BY <1>2 DEF Opened
<1>4. f[1] = n /\ f[1] \in 1 .. n /\ f[2] = l.function_id
  BY DEF FileOf
<1>5. x.tag = "run"
  BY DEF Run
<1>. HIDE DEF f, x
<1>6. Noted(o.info, n, e, f, x, k) /\ IsSequence(Content(o.info, f))
  BY <1>3, <1>4, <1>5, NoteLemma
<1>7. r.info = k
  BY <1>1, <1>6, WrittenLemma
<1>. HIDE DEF k
<1>8. /\ Files(k, n, e) /\ OpenOnlyIn(k, {f}) /\ DOMAIN k = DOMAIN o.info
      /\ LastLine(k[f]) = x /\ LastHeader(k[f]) = LastHeader(o.info[f])
      /\ \A file \in DOMAIN o.info : file # f => k[file] = o.info[file]
      /\ \A rs : IsSequence(rs) /\ Tally(o.info, rs) => Tally(k, rs)
  BY <1>3, <1>5, <1>6 DEF Noted
<1>9. Section(k, o.bbob, n)
  BY <1>3, <1>8, SectionLemma
<1>10. /\ DOMAIN s = DOMAIN l /\ s.is_initialized /\ s.index_file = f /\ s.kind = l.kind
       /\ s.folder = l.folder /\ s.function_id = l.function_id
       /\ s.instance_id = l.instance_id /\ s.dimension = l.dimension
  BY DEF RunFields
<1>. HIDE DEF s
<1>11. Run(s) = x
  BY <1>10 DEF Run, x
<1>12. Begun(k, s)
  BY <1>3, <1>4, <1>8, <1>10, <1>11 DEF Begun
<1>13. \A q : OfProblem(l, q) => OfProblem(s, q)
  BY <1>10 DEF OfProblem
<1>14. \A rs : IsSequence(rs) /\ Tally(i, rs) => Tally(r.info, rs)
  BY <1>3, <1>7, <1>8
<1>15. /\ Files(r.info, n, e) /\ OpenOnlyIn(r.info, {r.logger.index_file})
       /\ Section(r.info, r.bbob, n) /\ Begun(r.info, r.logger)
  BY <1>1, <1>7, <1>8, <1>9, <1>10, <1>12
<1>16. /\ IsBbob(r.bbob) /\ Listed(r.bbob) \subseteq Listed(b) \union {l.dimension}
       /\ r.bbob.current_dim = l.dimension
  BY <1>1, <1>3
<1>17. /\ RunFields \subseteq DOMAIN r.logger /\ r.logger.kind = l.kind
       /\ r.logger.folder = l.folder /\ r.logger.is_initialized
       /\ \A q : OfProblem(l, q) => OfProblem(r.logger, q)
  BY <1>1, <1>10, <1>13
<1>. QED
  BY <1>14, <1>15, <1>16, <1>17 DEF Initialized

----------------------------------------------------------------------------
(* The dimensions of a suite come in their order.                          *)

\* Items of which some may be taken out.
Rising0(items) ==
  \A a, b \in DOMAIN items : a <= b /\ items[a] # 0 /\ items[b] # 0 => items[a] <= items[b]
Thinned(items, r) == DOMAIN r = DOMAIN items /\ \A k \in DOMAIN r : r[k] \in {items[k], 0}

LEMMA ThinnedRising ==
  ASSUME NEW items, Rising0(items), NEW r, Thinned(items, r)
  PROVE  Rising0(r)
  BY DEF Rising0, Thinned

LEMMA FilteredThinned ==
  ASSUME NEW items, NEW options, NEW name
  PROVE  Thinned(items, Filtered(items, options, name))
<1>1. \A indices : Thinned(items, coco_suite_filter_indices(items, indices))
  BY DEF Thinned, coco_suite_filter_indices
<1>2. Thinned(items, items)
  BY DEF Thinned
<1>3. \E indices : Filtered(items, options, name) \in {items, coco_suite_filter_indices(items, indices)}
  BY DEF Filtered
<1>. QED
  BY <1>1, <1>2, <1>3

LEMMA DimensionsThinned ==
  ASSUME NEW items, NEW options
  PROVE  Thinned(items, DimensionsLeft(items, options))
<1>1. \A numbers : Thinned(items, coco_suite_filter_dimensions(items, numbers))
  BY DEF Thinned, coco_suite_filter_dimensions
<1>2. Thinned(items, items)
  BY DEF Thinned
<1>3. \E numbers : DimensionsLeft(items, options) \in {items, coco_suite_filter_dimensions(items, numbers)}
  BY DEF DimensionsLeft, FilteredDimensions
<1>. QED
  BY <1>1, <1>2, <1>3

LEMMA AllocatedRising ==
  ASSUME NEW name
  PROVE  coco_suite_intialize(name) = Exit \/ Rising0(coco_suite_intialize(name).dimensions)
<1>. DEFINE Has(d) == coco_suite_intialize(name).dimensions = d
            large == <<20, 40, 80, 160, 320, 640>>
            mixed == <<5, 10, 20, 40, 80, 160>>
            small == <<2, 3, 5, 10, 20>>
<1>1. \A n, d, f, i : coco_suite_allocate(n, f, d, i).dimensions = d
  BY DEF coco_suite_allocate
<1>2. Rising0(Low) /\ Rising0(large) /\ Rising0(mixed) /\ Rising0(small)
  BY DEF Rising0, Low
<1>3. CASE name = "toy"
  <2>1. coco_suite_intialize(name) = suite_toy_initialize
    BY <1>3 DEF coco_suite_intialize, ConstrainedNames
  <2>2. Has(small)
    BY <1>1, <2>1 DEF suite_toy_initialize
  <2>. QED
    BY <1>2, <2>2
<1>4. CASE name = "bbob"
  <2>1. coco_suite_intialize(name) = suite_bbob_initialize
    BY <1>4 DEF coco_suite_intialize, ConstrainedNames
  <2>2. Has(Low)
    BY <1>1, <2>1 DEF suite_bbob_initialize
  <2>. QED
    BY <1>2, <2>2
<1>5. CASE name \in {"bbob-biobj", "bbob-biobj-ext"}
  <2>1. coco_suite_intialize(name) = suite_biobj_initialize(name)
    BY <1>5 DEF coco_suite_intialize, ConstrainedNames
  <2>2. Has(Low)
    BY <1>1, <2>1 DEF suite_biobj_initialize
  <2>. QED
    BY <1>2, <2>2
<1>6. CASE name = "bbob-largescale"
  <2>1. coco_suite_intialize(name) = suite_largescale_initialize
    BY <1>6 DEF coco_suite_intialize, ConstrainedNames
  <2>2. Has(large)
    BY <1>1, <2>1 DEF suite_largescale_initialize
  <2>. QED
    BY <1>2, <2>2
<1>7. CASE name \in ConstrainedNames
  <2>1. coco_suite_intialize(name) = suite_cons_bbob_initialize(name)
    BY <1>7 DEF coco_suite_intialize, ConstrainedNames
  <2>2. Has(Low)
    BY <1>1, <2>1 DEF suite_cons_bbob_initialize
  <2>. QED
    BY <1>2, <2>2
<1>8. CASE name = "bbob-mixint"
  <2>1. coco_suite_intialize(name) = suite_bbob_mixint_initialize(name)
    BY <1>8 DEF coco_suite_intialize, ConstrainedNames
  <2>2. Has(mixed)
    BY <1>1, <2>1 DEF suite_bbob_mixint_initialize
  <2>. QED
    BY <1>2, <2>2
<1>9. CASE name = "bbob-biobj-mixint"
  <2>1. coco_suite_intialize(name) = suite_biobj_mixint_initialize
    BY <1>9 DEF coco_suite_intialize, ConstrainedNames
  <2>2. Has(mixed)
    BY <1>1, <2>1 DEF suite_biobj_mixint_initialize
  <2>. QED
    BY <1>2, <2>2
<1>10. CASE name \notin SuiteNames
  BY <1>10 DEF coco_suite_intialize, SuiteNames
<1>. QED
  BY <1>3, <1>4, <1>5, <1>6, <1>7, <1>8, <1>9, <1>10 DEF SuiteNames

Rises(items) ==
  \A a, b \in ValidIndices(items) : a <= b => Item(items, a) <= Item(items, b)

LEMMA SuiteRises ==
  ASSUME NEW p, SuiteOfPlan(p) \notin {Null, Exit}, SuiteOfPlan(p).dimensions \in Seq(Nat)
  PROVE  Rises(SuiteOfPlan(p).dimensions)
<1>. DEFINE s == SuiteOfPlan(p)
            t == coco_suite_intialize(p.name)
            u == WithInstances(t, p.instance)
            v == SuiteLeft(u, p.options)
<1>1. t # Exit /\ s = SuiteOf(u, p.options)
  BY DEF SuiteOfPlan, coco_suite
<1>2. Blank(t) /\ Rising0(t.dimensions)
  BY <1>1, InitializedBlank, AllocatedRising
<1>3. u # Exit /\ s = AtFirstProblem(v)
  BY <1>1 DEF SuiteOf
<1>4. Blank(u)
  BY <1>2, <1>3, InstancesBlank
<1>5. u.dimensions = t.dimensions
  <2>1. \A x : [t EXCEPT !.instances = x].dimensions = t.dimensions
    OBVIOUS
  <2>2. \A numbers : coco_suite_set_instance(t, numbers) = Exit
                     \/ coco_suite_set_instance(t, numbers).dimensions = t.dimensions
    BY <2>1 DEF coco_suite_set_instance
  <2>. QED
    BY <1>3, <2>2 DEF WithInstances
<1>6. Rising0(v.dimensions)
  <2>. DEFINE few == IF ParseDimensionIndices(p.options)
                     THEN Filtered(u.dimensions, p.options, "dimension_indices") ELSE u.dimensions
              left == DimensionsLeft(few, p.options)
  <2>1. Rising0(few)
    <3>1. Rising0(u.dimensions)
      BY <1>2, <1>5
    <3>2. Rising0(Filtered(u.dimensions, p.options, "dimension_indices"))
      BY <3>1, FilteredThinned, ThinnedRising
    <3>. QED
      BY <3>1, <3>2
  <2>2. Rising0(left)
    <3>. HIDE DEF few
    <3>. QED
      BY <2>1, DimensionsThinned, ThinnedRising
  <2>3. v.dimensions = left
    <3>1. "dimensions" \in DOMAIN u
      BY <1>4 DEF Blank, At
    <3>. DEFINE fs == Filtered(u.functions, p.options, "function_indices")
                is == Filtered(u.instances, p.options, "instance_indices")
    <3>2. v = [u EXCEPT !.functions = fs, !.instances = is, !.dimensions = left]
      BY DEF SuiteLeft
    <3>. HIDE DEF fs, is, left, u, v
    <3>3. [u EXCEPT !.functions = fs, !.instances = is, !.dimensions = left].dimensions = left
      BY <3>1
    <3>. QED
      BY <3>2, <3>3
  <2>. HIDE DEF v, left
  <2>. QED
    BY <2>2, <2>3
<1>7. Blank(v)
  BY <1>4, LeftBlank
<1>8. s.dimensions = v.dimensions
  <2>. HIDE DEF v, s
  <2>. DEFINE f == coco_suite_is_next_item_found(v.functions, -1)
              d == coco_suite_is_next_item_found(v.dimensions, -1)
  <2>1. v = At(v, -1, -1, -1, NoProblem)
    BY <1>7 DEF Blank
  <2>2. \E i : coco_suite_is_next_function_found(v).suite = At(v, -1, f.at, i, NoProblem)
    BY <2>1, NextFunctionLemma
  <2>3. s # Exit
    BY DEF s
  <2>4. \E i : s = At(v, d.at, f.at, i, NoProblem)
    BY <1>3, <2>2, <2>3, NextDimensionLemma DEF AtFirstProblem
  <2>. QED
    BY <2>4, AtLemma
<1>. DEFINE l == s.dimensions
<1>9. l \in Seq(Nat) /\ Rising0(l)
  BY <1>6, <1>8
<1>. HIDE DEF l
<1>10. \A a \in ValidIndices(l) : a + 1 \in DOMAIN l /\ Item(l, a) = l[a + 1] /\ l[a + 1] # 0 /\ a \in Int
  BY <1>9 DEF ValidIndices, Item
<1>11. \A a, b \in ValidIndices(l) : a <= b => a + 1 <= b + 1
  BY <1>10
<1>12. Rises(l)
  BY <1>9, <1>10, <1>11 DEF Rises, Rising0
<1>. QED
  BY <1>12 DEF l

LEMMA FewerBefore ==
  ASSUME NEW items \in Seq(Nat), NEW e \in ValidIndices(items), NEW d \in ValidIndices(items), e < d
  PROVE  NumberBefore(items, e) < NumberBefore(items, d)
<1>. DEFINE V == ValidIndices(items)
            B == {j \in V : j < e}
            C == {j \in V : j < d}
<1>1. IsFiniteSet(V) /\ V \in SUBSET Nat
  BY ValidLemma
<1>2. IsFiniteSet(C) /\ e \in C
  BY <1>1, FS_Subset
<1>3. B \subseteq C \ {e}
  BY <1>1
<1>4. IsFiniteSet(C \ {e}) /\ Cardinality(C \ {e}) = Cardinality(C) - 1
  BY <1>2, FS_RemoveElement
<1>5. Cardinality(B) <= Cardinality(C \ {e}) /\ Cardinality(B) \in Nat /\ Cardinality(C) \in Nat
  <2>. HIDE DEF B, C
  <2>. QED
    BY <1>2, <1>3, <1>4, FS_Subset, FS_CardinalityType
<1>6. NumberBefore(items, e) = Cardinality(B) /\ NumberBefore(items, d) = Cardinality(C)
  BY DEF NumberBefore
<1>. HIDE DEF B, C
<1>. QED
  BY <1>4, <1>5, <1>6

LEMMA NumberedProblem ==
  ASSUME NEW s, HasLists(s), NEW q, NEW h, IsNumber(s, q, h)
  PROVE  /\ q # NoProblem /\ h \in Nat
         /\ q.dimension \in Nat \ {0} /\ q.instance # 0
<1>1. PICK d \in ValidIndices(s.dimensions), f \in ValidIndices(s.functions),
           i \in ValidIndices(s.instances) :
        q = suite_get_problem(s, f, d, i) /\ h = Place(s, d, f, i)
  BY DEF IsNumber
<1>2. Item(s.dimensions, d) \in Nat \ {0} /\ Item(s.instances, i) # 0
  BY ValidLemma DEF HasLists, IsList
<1>3. q.dimension = Item(s.dimensions, d) /\ q.instance = Item(s.instances, i)
  BY <1>1 DEF suite_get_problem
<1>4. q # NoProblem
  BY <1>1, ProblemLemma
<1>5. h \in Nat
  <2>1. Place(s, d, f, i) \in 0 .. NumberOfProblems(s) - 1 /\ NumberOfProblems(s) \in Nat \ {0}
    BY PlaceLemma
  <2>. QED
    BY <1>1, <2>1
<1>. QED
  BY <1>2, <1>3, <1>4, <1>5

\* Later problems have no smaller dimension.
LEMMA DimensionsInOrder ==
  ASSUME NEW s, HasLists(s), Rises(s.dimensions),
         NEW q, NEW h, IsNumber(s, q, h), NEW r, IsNumber(s, r, h + 1)
  PROVE  q.dimension <= r.dimension
<1>1. PICK d \in ValidIndices(s.dimensions), f \in ValidIndices(s.functions),
           i \in ValidIndices(s.instances) :
        q = suite_get_problem(s, f, d, i) /\ h = Place(s, d, f, i)
  BY DEF IsNumber
<1>2. PICK e \in ValidIndices(s.dimensions), g \in ValidIndices(s.functions),
           j \in ValidIndices(s.instances) :
        r = suite_get_problem(s, g, e, j) /\ h + 1 = Place(s, e, g, j)
  BY DEF IsNumber
<1>3. q.dimension = Item(s.dimensions, d) /\ r.dimension = Item(s.dimensions, e)
  BY <1>1, <1>2 DEF suite_get_problem
<1>4. d \in Nat /\ e \in Nat
  BY ValidLemma DEF HasLists, IsList
<1>. DEFINE nf == Count(s.functions)
            ni == Count(s.instances)
            D == NumberBefore(s.dimensions, d)
            E == NumberBefore(s.dimensions, e)
            F == NumberBefore(s.functions, f)
            G == NumberBefore(s.functions, g)
            I == NumberBefore(s.instances, i)
            J == NumberBefore(s.instances, j)
<1>5. /\ Count(s.dimensions) \in Nat \ {0} /\ nf \in Nat \ {0} /\ ni \in Nat \ {0}
      /\ D \in 0 .. Count(s.dimensions) - 1 /\ E \in 0 .. Count(s.dimensions) - 1
      /\ F \in 0 .. nf - 1 /\ G \in 0 .. nf - 1 /\ I \in 0 .. ni - 1 /\ J \in 0 .. ni - 1
  BY CountLemma, NumberRange DEF HasLists
<1>6. h = (D * nf + F) * ni + I /\ h + 1 = (E * nf + G) * ni + J
  BY <1>1, <1>2 DEF Place, InRadix
<1>7. d <= e
  <2>. SUFFICES ASSUME e < d PROVE FALSE
    BY <1>4
  <2>1. E < D
    BY FewerBefore DEF HasLists, IsList
  <2>. HIDE DEF D, E, F, G, I, J, nf, ni
  <2>2. D \in Nat /\ E \in Nat /\ E + 1 <= D
    BY <1>5, <2>1
  <2>. DEFINE x == D * nf + F
              y == E * nf + G
  <2>3. y + 1 <= x
    <3>1. (E + 1) * nf <= D * nf
      BY <1>5, <2>2, ProductMonotone
    <3>2. (E + 1) * nf = E * nf + nf
      BY <1>5, <2>2
    <3>. DEFINE a == E * nf
                b == D * nf
    <3>3. a \in Int /\ b \in Int
      BY <1>5, <2>2
    <3>4. a + nf <= b
      BY <3>1, <3>2
    <3>. HIDE DEF a, b
    <3>5. a + G + 1 <= b + F
      BY <1>5, <3>3, <3>4
    <3>. QED
      BY <3>5 DEF a, b
  <2>4. x \in Nat /\ y \in Nat
    BY <1>5, <2>2
  <2>. HIDE DEF x, y
  <2>5. (y + 1) * ni <= x * ni
    BY <1>5, <2>3, <2>4, ProductMonotone
  <2>6. (y + 1) * ni = y * ni + ni
    BY <1>5, <2>4
  <2>7. h = x * ni + I /\ h + 1 = y * ni + J
    BY <1>6 DEF x, y
  <2>. DEFINE a == x * ni
              b == y * ni
  <2>8. a \in Int /\ b \in Int
    BY <1>5, <2>4
  <2>9. b + ni <= a /\ h = a + I /\ h + 1 = b + J
    BY <2>5, <2>6, <2>7
  <2>. HIDE DEF a, b
  <2>. QED
    BY <1>5, <2>8, <2>9
<1>. QED
  BY <1>3, <1>7 DEF Rises

----------------------------------------------------------------------------
(* The info files and the runs.                                            *)

\* The file that is being written.
Running == IF logger.kind = "bbob" /\ logger.is_initialized THEN {logger.index_file} ELSE {}

\* The logger writes the run of the current problem for the newest folder.
WriterInv ==
  /\ folders \in Nat
  /\ observer.kind = "bbob" => observer.folder = folders /\ folders # 0
  /\ logger.kind = "bbob" =>
       /\ RunFields \subseteq DOMAIN logger
       /\ IsOpen /\ observer.kind = "bbob" /\ logger.folder = folders
       /\ OfProblem(logger, suite.current_problem)
       /\ IF history = << >> THEN ~ logger.is_initialized
          ELSE logger.is_initialized /\ Begun(info, logger)

\* In the first benchmark a dimension that comes is not in the list, or was
\* the last one that came.
ListInv ==
  /\ IsBbob(bbob)
  /\ experiments = 0 => Listed(bbob) = {}
  /\ experiments = 1 /\ IsOpen =>
       IF handed = 0 THEN Listed(bbob) = {}
       ELSE \A x \in Listed(bbob) :
              /\ x <= suite.current_problem.dimension
              /\ x = suite.current_problem.dimension => bbob.current_dim = x
NumberInv ==
  IsOpen => IF handed = 0 THEN suite.current_problem = NoProblem
            ELSE IsNumber(SuiteOfPlan(plan), suite.current_problem, handed - 1)

FileInv ==
  /\ Files(info, folders, experiments) /\ OpenOnlyIn(info, Running) /\ Section(info, bbob, folders)
  /\ IsSequence(runs) /\ Tally(info, runs)
InfoInv == FileInv /\ WriterInv /\ ListInv /\ NumberInv

LEMMA LastHeaderLemma ==
  ASSUME NEW file, NEW l, IsFile(file, l)
  PROVE  LastHeader(l).funId = file[2]
<1>1. Len(l) \in Nat \ {0} /\ l[1].tag = "header"
  <2>1. Len(l) \in Nat
    BY AppendLemma DEF IsFile
  <2>. QED
    BY <2>1 DEF IsFile
<1>2. PICK m : Heads(l, Len(l), m)
  BY <1>1, HeadersExist
<1>3. m \in 1 .. Len(l) /\ l[m].tag = "header"
  BY <1>2 DEF Heads
<1>4. HeaderOf(l, Len(l)) = l[m]
  BY <1>1, <1>2, HeaderLemma
<1>. QED
  BY <1>3, <1>4 DEF IsFile, LastHeader

\* c is b but for whether a logger is open.
SameFiles(b, c) ==
  /\ IsBbob(c) /\ c.dimensions = b.dimensions /\ c.current_dim = b.current_dim
  /\ c.current_funId = b.current_funId /\ c.firstInstance = b.firstInstance

LEMMA SameFilesLemma ==
  ASSUME NEW b, IsBbob(b), NEW v
  PROVE  SameFiles(b, [b EXCEPT !.logger_is_open = v])
<1>. DEFINE c == [b EXCEPT !.logger_is_open = v]
<1>1. c = [current_dim |-> b.current_dim, current_funId |-> b.current_funId,
           firstInstance |-> b.firstInstance, dimensions |-> b.dimensions, logger_is_open |-> v]
  BY DEF IsBbob
<1>. HIDE DEF c
<1>2. /\ c.dimensions = b.dimensions /\ c.current_dim = b.current_dim
      /\ c.current_funId = b.current_funId /\ c.firstInstance = b.firstInstance
      /\ c.logger_is_open = v
  BY <1>1
<1>3. b.dimensions \in [1 .. bbob_number_of_dimensions -> Nat]
  BY DEF IsBbob
<1>4. IsBbob(c)
  BY <1>1, <1>2, <1>3 DEF IsBbob
<1>. QED
  BY <1>2, <1>4 DEF SameFiles, c

\* Nothing is being written, and all runs are told.
Settled(i, b, rs) ==
  /\ Files(i, folders, experiments) /\ OpenOnlyIn(i, {}) /\ Section(i, b, folders)
  /\ IsBbob(b) /\ Listed(b) = Listed(bbob) /\ b.current_dim = bbob.current_dim
  /\ IsSequence(rs) /\ Tally(i, rs)

LEMMA FreeLemma ==
  ASSUME FileInv, WriterInv, IsBbob(bbob), LogInv
  PROVE  Settled(coco_problem_free.info, coco_problem_free.bbob, coco_problem_free.runs)
<1>. DEFINE freed == coco_problem_free
            c == [bbob EXCEPT !.logger_is_open = FALSE]
<1>1. /\ IsBbob(c) /\ c.dimensions = bbob.dimensions /\ c.current_dim = bbob.current_dim
      /\ c.current_funId = bbob.current_funId /\ c.firstInstance = bbob.firstInstance
  BY SameFilesLemma DEF SameFiles
<1>. HIDE DEF c
<1>2. Listed(c) = Listed(bbob)
  BY <1>1 DEF Listed
<1>3. \A i : Section(i, bbob, folders) => Section(i, c, folders)
  BY <1>1 DEF Section
<1>4. CASE logger.kind # "bbob"
  <2>1. freed.info = info /\ freed.bbob = bbob /\ freed.runs = runs
    BY <1>4 DEF coco_problem_free
  <2>2. Running = {}
    BY <1>4 DEF Running
  <2>3. Settled(info, bbob, runs)
    BY <2>2 DEF FileInv, Settled
  <2>. QED
    BY <2>1, <2>3
<1>5. CASE logger.kind = "bbob" /\ history = << >>
  <2>1. ~ logger.is_initialized
    BY <1>5 DEF WriterInv
  <2>2. runs \o << >> = runs
    <3>1. PICK S : runs \in Seq(S)
      BY DEF FileInv, IsSequence
    <3>. QED
      BY <3>1
  <2>3. freed.info = info /\ freed.bbob = c /\ freed.runs = runs
    BY <1>5, <2>1, <2>2 DEF coco_problem_free, logger_bbob_free_info, FinishedRun, c
  <2>4. Running = {}
    BY <2>1 DEF Running
  <2>5. Settled(info, c, runs)
    BY <1>1, <1>2, <1>3, <2>4 DEF FileInv, Settled
  <2>. QED
    BY <2>3, <2>5
<1>6. CASE logger.kind = "bbob" /\ history # << >>
  <2>. DEFINE f == logger.index_file
              x == Done(logger)
              k == Line(info, f, x)
              q == suite.current_problem
              run == [folder |-> observer.folder, function |-> q.function,
                      dimension |-> q.dimension, instance |-> q.instance,
                      evaluations |-> Len(history)]
              n == Len(info[f])
  <2>1. /\ logger.is_initialized /\ Begun(info, logger) /\ OfProblem(logger, q)
        /\ observer.folder = folders /\ logger.folder = folders
    BY <1>6 DEF WriterInv
  <2>2. /\ f \in DOMAIN info /\ f[1] = logger.folder /\ f[2] = logger.function_id
        /\ LastLine(info[f]) = Run(logger) /\ LastHeader(info[f]).dim = logger.dimension
    BY <2>1 DEF Begun
  <2>3. IsFile(f, info[f]) /\ f[1] \in 1 .. folders
    BY <2>2 DEF FileInv, Files
  <2>4. Content(info, f) = info[f]
    BY <2>2 DEF Content
  <2>5. x.tag = "done" /\ Run(logger).tag = "run"
    BY DEF Done, Run
  <2>6. freed.info = Written(info, f, <<x>>) /\ freed.bbob = c /\ freed.runs = runs \o <<run>>
    BY <1>6, <2>1 DEF coco_problem_free, logger_bbob_free_info, FinishedRun, c
  <2>7. runs \o <<run>> = Append(runs, run)
    <3>1. PICK S : runs \in Seq(S)
      BY DEF FileInv, IsSequence
    <3>. DEFINE T == S \union {run}
    <3>2. runs \in Seq(T) /\ run \in T
      BY <3>1
    <3>. HIDE DEF T, run
    <3>. QED
      BY <3>2
  <2>8. x.evaluations = Len(history)
    <3>1. logger.number_of_evaluations = Len(WorthsOf("bbob", history)) /\ history \in Seq(Evaluations)
      BY <1>6 DEF LogInv, Tells, BbobTells
    <3>2. history[1] \in Evaluations
      BY <1>6, <3>1
    <3>3. Len(WorthsOf("bbob", history)) = Len(history)
      BY <3>1, <3>2, WorthsOfLemma
    <3>. QED
      BY <3>1, <3>3 DEF Done
  <2>. HIDE DEF f, x
  <2>9. info[f] # << >>
    <3>1. Len(<< >>) = 0
      OBVIOUS
    <3>. QED
      BY <2>3, <3>1 DEF IsFile
  <2>10. MayFollow(f, Content(info, f), x)
    BY <2>2, <2>4, <2>5, <2>9 DEF MayFollow, Tags
  <2>11. Running = {f}
    BY <1>6, <2>1 DEF Running, f
  <2>12. /\ AllFiles(info) /\ LongerBy(info, f, x, k) /\ Files(k, folders, experiments)
         /\ OpenOnlyIn(k, {})
    <3>1. Files(info, folders, experiments) /\ OpenOnlyIn(info, {f})
      BY <2>11 DEF FileInv
    <3>2. /\ AllFiles(info) /\ LongerBy(info, f, x, k) /\ Files(k, folders, experiments)
          /\ OpenOnlyIn(k, IF x.tag = "run" THEN {f} \union {f} ELSE {f} \ {f})
      BY <2>3, <2>5, <2>10, <3>1, FilesLemma
    <3>3. {f} \ {f} = {} /\ x.tag # "run"
      BY <2>5
    <3>. HIDE DEF k
    <3>. QED
      BY <3>2, <3>3
  <2>13. freed.info = k
    <3>1. IsSequence(Content(info, f))
      BY <2>3, <2>4 DEF IsFile
    <3>. QED
      BY <2>6, <3>1, WrittenLemma
  <2>14. Tally(k, Append(runs, Telling(k, f, n + 1)))
    BY <2>4, <2>5, <2>10, <2>12, TallyLemma DEF FileInv
  <2>. HIDE DEF k
  <2>15. /\ DOMAIN k = DOMAIN info /\ Longer(f, info[f], x, k[f])
         /\ \A file \in DOMAIN info : file # f => k[file] = info[file]
    BY <2>2, <2>4, <2>12 DEF LongerBy
  <2>16. /\ n \in Nat /\ Len(k[f]) = n + 1 /\ k[f][n + 1] = x
         /\ \A j \in 1 .. n : k[f][j] = info[f][j]
         /\ LastHeader(k[f]) = LastHeader(info[f])
    BY <2>5, <2>15 DEF Longer
  <2>17. Telling(k, f, n + 1) = run
    <3>1. HeaderOf(k[f], n + 1) = LastHeader(info[f])
      BY <2>16 DEF LastHeader
    <3>2. LastHeader(info[f]).funId = q.function /\ LastHeader(info[f]).dim = q.dimension
      BY <2>1, <2>2, <2>3, LastHeaderLemma DEF OfProblem
    <3>3. k[f][n] = Run(logger)
      <4>1. n # 0
        BY <2>3 DEF IsFile
      <4>. QED
        BY <2>2, <2>16, <4>1 DEF LastLine
    <3>4. k[f][n].instance = q.instance
      BY <2>1, <3>3 DEF Run, OfProblem
    <3>5. (n + 1) - 1 = n
      BY <2>16
    <3>6. f[1] = observer.folder
      BY <2>1, <2>2
    <3>. HIDE DEF n, q
    <3>. QED
      BY <2>8, <2>16, <3>1, <3>2, <3>4, <3>5, <3>6 DEF Telling
  <2>. HIDE DEF run, n
  <2>18. Tally(k, Append(runs, run)) /\ IsSequence(Append(runs, run))
    BY <2>14, <2>17, AppendLemma DEF FileInv
  <2>19. Section(k, c, folders)
    <3>1. Section(info, bbob, folders)
      BY DEF FileInv
    <3>2. Section(k, bbob, folders)
      BY <2>2, <2>15, <2>16, <3>1, SectionLemma
    <3>. QED
      BY <1>3, <3>2
  <2>20. Settled(k, c, Append(runs, run))
    BY <1>1, <1>2, <2>12, <2>18, <2>19 DEF Settled
  <2>. QED
    BY <2>6, <2>7, <2>13, <2>20
<1>. QED
  BY <1>4, <1>5, <1>6

LEMMA InfoInit ==
  ASSUME Init PROVE InfoInv
<1>1. /\ suite = NoSuite /\ observer = NoObserver /\ logger = NoLogger /\ bbob = InitialBbob
      /\ info = << >> /\ folders = 0 /\ experiments = 0 /\ history = << >> /\ runs = << >>
  BY DEF Init
<1>2. observer.kind = "none" /\ logger.kind = "none" /\ ~ IsOpen
  BY <1>1 DEF NoObserver, NoLogger, IsOpen
<1>3. bbob_number_of_dimensions \in Nat
  BY LoggingAssumption
<1>4. NoDimensions = [k \in 1 .. bbob_number_of_dimensions |-> 0] /\ bbob.dimensions = NoDimensions
  BY <1>1 DEF NoDimensions, InitialBbob
<1>5. IsBbob(bbob)
  BY <1>1, <1>3 DEF IsBbob, InitialBbob
<1>6. Listed(bbob) = {}
  BY <1>4 DEF Listed
<1>7. DOMAIN info = {} /\ DOMAIN runs = {}
  BY <1>1
<1>8. IsSequence(runs)
  <2>1. runs \in Seq({})
    BY <1>1
  <2>. QED
    BY <2>1 DEF IsSequence
<1>9. Tally(info, runs)
  <2>1. \A r : RunsLike(runs, r) = {} /\ TellingsOf(info, r) = {}
    BY <1>7 DEF RunsLike, TellingsOf, Tellings
  <2>. QED
    BY <2>1, FS_EmptySet DEF Tally
<1>10. Files(info, folders, experiments) /\ OpenOnlyIn(info, Running) /\ Section(info, bbob, folders)
  BY <1>7 DEF Files, OpenOnlyIn, Section
<1>. QED
  BY <1>1, <1>2, <1>5, <1>6, <1>8, <1>9, <1>10 DEF InfoInv, FileInv, WriterInv, ListInv, NumberInv

LEMMA ObserverFolder ==
  ASSUME NEW name, name \notin BiobjObservers, NEW options, NEW folder,
         coco_observer(name, options, folder).kind = "bbob"
  PROVE  coco_observer(name, options, folder).folder = folder /\ UsesFolder(name)
<1>. DEFINE Of(kind) == coco_observer_allocate(kind, folder, options)
            o == coco_observer(name, options, folder)
<1>1. \A kind : Of(kind).kind = kind /\ Of(kind).folder = folder
  BY DEF coco_observer_allocate
<1>2. observer_rw(Of("rw"), options).kind = "rw" /\ NoObserver.kind = "none"
  BY DEF observer_rw, NoObserver
<1>3. /\ "no_observer" \notin BbobObservers /\ "" \notin BbobObservers
      /\ "toy" \notin BbobObservers /\ "rw" \notin BbobObservers
  BY DEF BbobObservers, ConstrainedNames
<1>. DEFINE bbobs == Of("bbob")
            toys == Of("toy")
            rws == observer_rw(Of("rw"), options)
<1>4. /\ name \in {"no_observer", ""} => o = NoObserver
      /\ name \in BbobObservers => o = bbobs
      /\ name = "toy" => o = toys
      /\ name = "rw" => o = rws
      /\ name \notin {"no_observer", "", "toy", "rw"} \union BbobObservers => o = NoObserver
  BY <1>3 DEF coco_observer, observer_bbob, observer_toy
<1>. HIDE DEF bbobs, toys, rws, o
<1>5. bbobs.kind = "bbob" /\ toys.kind = "toy" /\ rws.kind = "rw" /\ bbobs.folder = folder
  BY <1>1, <1>2 DEF bbobs, toys, rws
<1>6. name \in BbobObservers
  BY <1>2, <1>4, <1>5 DEF o
<1>. QED
  BY <1>3, <1>4, <1>5, <1>6 DEF o, UsesFolder

LEMMA SettledLemma ==
  ASSUME NEW i, NEW b, NEW rs, Settled(i, b, rs), NEW c, SameFiles(b, c)
  PROVE  Settled(i, c, rs)
<1>1. /\ IsBbob(c) /\ c.dimensions = b.dimensions /\ c.current_dim = b.current_dim
      /\ c.current_funId = b.current_funId /\ c.firstInstance = b.firstInstance
  BY DEF SameFiles
<1>2. Listed(c) = Listed(b)
  BY <1>1 DEF Listed
<1>3. Section(i, c, folders)
  BY <1>1 DEF Settled, Section
<1>. QED
  BY <1>1, <1>2, <1>3 DEF Settled

LEMMA InfoBegin ==
  ASSUME PlansAreRead, SuiteInv, InfoInv, Begin
  PROVE  InfoInv'
<1>. DEFINE p == programme[experiments']
            s == SuiteOfPlan(p)
<1>1. /\ suite = NoSuite /\ experiments < Len(programme) /\ experiments' = experiments + 1
      /\ handed' = 0 /\ programme' = programme /\ suite' = s
      /\ observer' = coco_observer(p.observer, p.observer_options, folders + 1)
      /\ folders' = IF UsesFolder(p.observer) THEN folders + 1 ELSE folders
      /\ logger' = logger /\ bbob' = bbob /\ info' = info /\ history' = history /\ runs' = runs
  BY DEF Begin, SuiteOfPlan
<1>2. /\ programme \in Programmes /\ experiments \in 0 .. Len(programme)
      /\ programme \in Seq(ToSet(programme))
  BY ProgrammesAssumption DEF SuiteInv
<1>3. experiments' \in 1 .. Len(programme) /\ experiments \in Nat
  BY <1>1, <1>2
<1>4. logger.kind # "bbob" /\ folders \in Nat
  BY <1>1 DEF InfoInv, WriterInv, IsOpen
<1>5. Running = {} /\ Running' = {}
  BY <1>1, <1>4 DEF Running
<1>6. folders' \in Nat /\ folders' \in {folders, folders + 1}
  BY <1>1, <1>4
<1>7. /\ Files(info, folders, experiments) /\ OpenOnlyIn(info, {}) /\ Section(info, bbob, folders)
      /\ IsSequence(runs) /\ Tally(info, runs)
  BY <1>5 DEF InfoInv, FileInv
<1>8. Files(info, folders', experiments')
  <2>1. 1 .. folders \subseteq 1 .. folders' /\ (experiments > 1 => experiments' > 1)
    BY <1>1, <1>3, <1>4, <1>6
  <2>. QED
    BY <1>7, <2>1 DEF Files
<1>9. Section(info, bbob, folders')
  <2>1. CASE folders' = folders
    BY <1>7, <2>1
  <2>2. CASE folders' = folders + 1
    <3>. DEFINE f == <<folders', bbob.current_funId, bbob.firstInstance>>
    <3>1. f[1] \notin 1 .. folders
      BY <1>4, <2>2
    <3>. HIDE DEF f
    <3>2. f \notin DOMAIN info
      BY <1>7, <3>1 DEF Files
    <3>. QED
      BY <1>7, <3>2 DEF Section, f
  <2>. QED
    BY <1>6, <2>1, <2>2
<1>10. FileInv'
  BY <1>1, <1>5, <1>7, <1>8, <1>9 DEF FileInv
<1>11. observer'.kind = "bbob" => observer'.folder = folders' /\ folders' # 0
  <2>. SUFFICES ASSUME observer'.kind = "bbob" PROVE observer'.folder = folders' /\ folders' # 0
    OBVIOUS
  <2>1. p.observer \notin BiobjObservers
    BY <1>2, <1>3, PlanOf
  <2>2. observer'.folder = folders + 1 /\ UsesFolder(p.observer)
    BY <1>1, <2>1, ObserverFolder
  <2>. QED
    BY <1>1, <1>4, <2>2
<1>12. WriterInv'
  BY <1>1, <1>4, <1>6, <1>11 DEF WriterInv
<1>13. ListInv'
  <2>1. IsBbob(bbob) /\ (experiments = 0 => Listed(bbob) = {})
    BY DEF InfoInv, ListInv
  <2>2. experiments' # 0 /\ (experiments' = 1 => experiments = 0)
    BY <1>1, <1>3
  <2>. QED
    BY <1>1, <2>1, <2>2 DEF ListInv
<1>14. NumberInv'
  <2>. SUFFICES ASSUME IsOpen' PROVE s.current_problem = NoProblem
    BY <1>1 DEF NumberInv
  <2>1. s \notin {Null, Exit}
    BY <1>1 DEF IsOpen
  <2>2. HasLists(s) /\ Fresh(s)
    BY <1>2, <1>3, <2>1, PlanLemma
  <2>. QED
    BY <2>2, FreshUnderway
<1>. QED
  BY <1>10, <1>12, <1>13, <1>14 DEF InfoInv

\* What is handed out.
Hands(next, q) ==
  /\ next.found => /\ suite'.current_problem = q /\ handed' = handed + 1
                   /\ IsNumber(SuiteOfPlan(plan), q, handed)
  /\ ~ next.found => suite'.current_problem = suite.current_problem /\ handed' = handed

LEMMA HandsLemma ==
  ASSUME PlansAreRead, SuiteInv, coco_suite_get_next_problem
  PROVE  Hands(Advanced(suite), CursorProblem(Advanced(suite).suite))
<1>. DEFINE s == SuiteOfPlan(plan)
            next == Advanced(suite)
            q == CursorProblem(next.suite)
            u == WithProblem(next.suite, q)
<1>1. IsOpen /\ ~ over
  BY DEF coco_suite_get_next_problem
<1>2. /\ next.found => suite' = u /\ handed' = handed + 1
      /\ ~ next.found => suite' = next.suite /\ handed' = handed
  BY DEF coco_suite_get_next_problem, WithProblem
<1>3. HasLists(s) /\ s.suite_name \in SuiteNames /\ Underway(s, suite, handed, over)
  BY <1>1, OpenPlan
<1>4. Underway(s, suite, handed, FALSE)
  BY <1>1, <1>3 DEF Underway
<1>5. /\ next.found => u.current_problem = q /\ IsNumber(s, q, handed)
      /\ ~ next.found => next.suite.current_problem = suite.current_problem
  <2>. HIDE DEF s
  <2>. QED
    BY <1>3, <1>4, NextProblem
<1>. HIDE DEF q, u, next, s
<1>6. Hands(next, q)
  BY <1>2, <1>5 DEF Hands, s
<1>. QED
  BY <1>6 DEF next, q

\* A bbob logger of a new problem.
LEMMA AddedLogger ==
  ASSUME NEW q, NEW o, o.kind \in Kinds, coco_problem_add_observer(q, o).kind = "bbob"
  PROVE  LET l == coco_problem_add_observer(q, o)
         IN /\ o.kind = "bbob" /\ RunFields \subseteq DOMAIN l
            /\ l.folder = o.folder /\ OfProblem(l, q) /\ ~ l.is_initialized
<1>. DEFINE l == coco_problem_add_observer(q, o)
            m == logger_bbob(o, q)
<1>1. NoLogger.kind = "none" /\ logger_toy(o, q).kind = "toy" /\ logger_rw(o, q).kind = "rw"
  BY DEF NoLogger, logger_toy, logger_rw
<1>2. q # NoProblem /\ o.kind = "bbob"
  BY <1>1 DEF coco_problem_add_observer, Kinds
<1>3. l = m
  BY <1>2 DEF coco_problem_add_observer
<1>4. /\ RunFields \subseteq DOMAIN m /\ m.folder = o.folder /\ m.function_id = q.function
      /\ m.instance_id = q.instance /\ m.dimension = q.dimension /\ m.is_initialized = FALSE
  BY DEF logger_bbob, RunFields
<1>. HIDE DEF l, m
<1>. QED
  BY <1>2, <1>3, <1>4 DEF OfProblem, l

LEMMA InfoNextProblem ==
  ASSUME PlansAreRead, SuiteInv, LogInv, InfoInv, coco_suite_get_next_problem
  PROVE  InfoInv'
<1>. DEFINE s == SuiteOfPlan(plan)
            next == Advanced(suite)
            q == CursorProblem(next.suite)
            p == suite.current_problem
            freed == coco_problem_free
<1>1. /\ IsOpen /\ programme' = programme /\ experiments' = experiments
      /\ observer' = observer /\ folders' = folders
      /\ ~ next.found => /\ logger' = logger /\ bbob' = bbob /\ info' = info
                         /\ history' = history /\ runs' = runs
      /\ next.found => /\ logger' = coco_problem_add_observer(q, observer)
                       /\ bbob' = [freed.bbob EXCEPT !.logger_is_open = logger'.kind = "bbob"]
                       /\ info' = freed.info /\ runs' = freed.runs /\ history' = << >>
  BY DEF coco_suite_get_next_problem
<1>2. /\ next.found => suite'.current_problem = q /\ handed' = handed + 1 /\ IsNumber(s, q, handed)
      /\ ~ next.found => suite'.current_problem = p /\ handed' = handed
  BY HandsLemma DEF Hands
<1>3. IsOpen' /\ plan' = plan
  BY SuiteNextProblem
<1>4. SuiteOfPlan(plan)' = s
  BY <1>3 DEF SuiteOfPlan
<1>5. HasLists(s) /\ s \notin {Null, Exit}
  BY <1>1, OpenPlan
<1>6. Settled(freed.info, freed.bbob, freed.runs)
  BY FreeLemma DEF InfoInv, ListInv
<1>7. FileInv /\ WriterInv /\ ListInv /\ NumberInv
  BY DEF InfoInv
<1>8. Rises(s.dimensions)
  BY <1>5, SuiteRises DEF HasLists, IsList
<1>. HIDE DEF s, next, q, p, freed
<1>9. CASE ~ next.found
  <2>1. Running' = Running
    BY <1>1, <1>9 DEF Running
  <2>2. FileInv'
    BY <1>1, <1>7, <1>9, <2>1 DEF FileInv
  <2>3. WriterInv'
    BY <1>1, <1>2, <1>3, <1>7, <1>9 DEF WriterInv, p
  <2>4. ListInv'
    BY <1>1, <1>2, <1>3, <1>7, <1>9 DEF ListInv, p
  <2>5. NumberInv'
    BY <1>1, <1>2, <1>3, <1>4, <1>7, <1>9 DEF NumberInv, p, s
  <2>. QED
    BY <2>2, <2>3, <2>4, <2>5 DEF InfoInv
<1>10. CASE next.found
  <2>1. /\ logger' = coco_problem_add_observer(q, observer)
        /\ bbob' = [freed.bbob EXCEPT !.logger_is_open = logger'.kind = "bbob"]
        /\ info' = freed.info /\ runs' = freed.runs /\ history' = << >>
        /\ suite'.current_problem = q /\ handed' = handed + 1 /\ IsNumber(s, q, handed)
    BY <1>1, <1>2, <1>10
  <2>2. logger'.kind = "bbob" => /\ observer.kind = "bbob" /\ RunFields \subseteq DOMAIN logger'
                                 /\ logger'.folder = observer.folder /\ OfProblem(logger', q)
                                 /\ ~ logger'.is_initialized
    BY <2>1, AddedLogger DEF LogInv
  <2>3. Settled(info', bbob', runs')
    <3>1. IsBbob(freed.bbob)
      BY <1>6 DEF Settled
    <3>2. SameFiles(freed.bbob, bbob')
      BY <2>1, <3>1, SameFilesLemma
    <3>. QED
      BY <1>6, <2>1, <3>2, SettledLemma
  <2>4. /\ Files(info', folders, experiments) /\ OpenOnlyIn(info', {}) /\ Section(info', bbob', folders)
        /\ IsBbob(bbob') /\ Listed(bbob') = Listed(bbob) /\ bbob'.current_dim = bbob.current_dim
        /\ IsSequence(runs') /\ Tally(info', runs')
    BY <2>3 DEF Settled
  <2>5. Running' = {}
    BY <2>2 DEF Running
  <2>6. FileInv'
    BY <1>1, <2>4, <2>5 DEF FileInv
  <2>7. WriterInv'
    BY <1>1, <1>3, <1>7, <2>1, <2>2 DEF WriterInv
  <2>8. handed \in Nat /\ q.dimension \in Nat \ {0}
    BY <1>5, <2>1, NumberedProblem
  <2>9. handed' # 0 /\ handed' - 1 = handed
    BY <2>1, <2>8
  <2>10. NumberInv'
    BY <1>4, <2>1, <2>9 DEF NumberInv
  <2>11. ASSUME experiments = 1, NEW x \in Listed(bbob)
         PROVE  x <= q.dimension /\ (x = q.dimension => bbob.current_dim = x)
    <3>1. handed # 0 /\ x <= p.dimension /\ (x = p.dimension => bbob.current_dim = x)
      BY <1>1, <1>7, <2>11 DEF ListInv, p
    <3>2. IsNumber(s, p, handed - 1) /\ handed = (handed - 1) + 1
      BY <1>1, <1>7, <2>8, <3>1 DEF NumberInv, p, s
    <3>3. IsNumber(s, q, (handed - 1) + 1)
      BY <2>1, <3>2
    <3>4. p.dimension <= q.dimension /\ p.dimension \in Nat \ {0}
      BY <1>5, <1>8, <3>2, <3>3, DimensionsInOrder, NumberedProblem
    <3>5. x \in Nat
      BY <1>7 DEF ListInv, IsBbob, Listed
    <3>. QED
      BY <2>8, <3>1, <3>4, <3>5
  <2>12. ListInv'
    <3>1. experiments = 0 => Listed(bbob) = {}
      BY <1>7 DEF ListInv
    <3>. QED
      BY <1>1, <2>1, <2>4, <2>9, <2>11, <3>1 DEF ListInv
  <2>. QED
    BY <2>6, <2>7, <2>10, <2>12 DEF InfoInv
<1>. QED
  BY <1>9, <1>10

\* Other loggers stay what they are.
LEMMA OtherKinds ==
  ASSUME NEW l, NEW h, Tells(l, h), l.kind # "bbob", NEW y, NEW g
  PROVE  Evaluated(l, y, g).kind = l.kind
<1>1. CASE l.kind = "none"
  BY <1>1 DEF Evaluated
<1>2. CASE l.kind = "toy"
  <2>. DEFINE k == [l EXCEPT !.number_of_evaluations = @ + 1]
              r == logger_toy_evaluate(l, y)
  <2>1. {"kind", "number_of_evaluations", "targets", "lines"} \subseteq DOMAIN l
    BY <1>2 DEF Tells, ToyTells, ToyFields
  <2>2. DOMAIN k = DOMAIN l /\ k.kind = l.kind
    BY <2>1
  <2>. HIDE DEF k
  <2>3. \A a, b : [k EXCEPT !.targets = a, !.lines = b].kind = k.kind
    BY <2>1, <2>2
  <2>4. r.kind = k.kind
    BY <2>3 DEF logger_toy_evaluate, k
  <2>5. Evaluated(l, y, g) = r
    BY <1>2 DEF Evaluated
  <2>. QED
    BY <2>2, <2>4, <2>5
<1>3. CASE l.kind = "rw"
  <2>. DEFINE k == [l EXCEPT !.number_of_evaluations = @ + 1]
              r == logger_rw_evaluate(l, y)
  <2>1. {"kind", "number_of_evaluations", "best_value", "lines"} \subseteq DOMAIN l
    BY <1>3 DEF Tells, RwTells, RwFields
  <2>2. DOMAIN k = DOMAIN l /\ k.kind = l.kind
    BY <2>1
  <2>. HIDE DEF k
  <2>3. \A a, b : [k EXCEPT !.best_value = a, !.lines = b].kind = k.kind
    BY <2>1, <2>2
  <2>4. r.kind = k.kind
    BY <2>3 DEF logger_rw_evaluate, k
  <2>5. Evaluated(l, y, g) = r
    BY <1>3 DEF Evaluated
  <2>. QED
    BY <2>2, <2>4, <2>5
<1>. QED
  BY <1>1, <1>2, <1>3 DEF Tells, Kinds

LEMMA InfoEvaluation ==
  ASSUME PlansAreRead, SuiteInv, LogInv, InfoInv, coco_evaluate_function
  PROVE  InfoInv'
<1>. DEFINE p == suite.current_problem
            ready == logger_bbob_initialize(logger, bbob, info)
            opens == logger.kind = "bbob" /\ ~ logger.is_initialized
<1>1. /\ IsOpen /\ p # NoProblem /\ UNCHANGED suiteVars
      /\ observer' = observer /\ folders' = folders /\ runs' = runs
  BY DEF coco_evaluate_function
<1>2. PICK y \in plan.values, g \in plan.sums :
        /\ history' = Append(history, [y |-> y, g |-> g])
        /\ opens => /\ logger' = Evaluated(ready.logger, y, g)
                    /\ bbob' = ready.bbob /\ info' = ready.info
        /\ ~ opens => logger' = Evaluated(logger, y, g) /\ bbob' = bbob /\ info' = info
  BY DEF coco_evaluate_function
<1>3. /\ suite' = suite /\ handed' = handed /\ experiments' = experiments
      /\ plan' = plan /\ IsOpen'
  BY <1>1, SuiteSame DEF suiteVars
<1>4. SuiteOfPlan(plan)' = SuiteOfPlan(plan)
  BY <1>3 DEF SuiteOfPlan
<1>5. history' # << >>
  <2>1. history \in Seq(Evaluations)
    BY DEF LogInv
  <2>2. IsSequence(history)
    BY <2>1 DEF IsSequence
  <2>3. Len(history) \in Nat /\ Len(history') = Len(history) + 1 /\ Len(<< >>) = 0
    BY <1>2, <2>2, AppendLemma
  <2>. QED
    BY <2>3
<1>6. FileInv /\ WriterInv /\ ListInv /\ NumberInv
  BY DEF InfoInv
<1>7. NumberInv'
  BY <1>1, <1>3, <1>4, <1>6 DEF NumberInv
<1>8. CASE opens
  <2>1. /\ RunFields \subseteq DOMAIN logger /\ observer.kind = "bbob" /\ logger.folder = folders
        /\ OfProblem(logger, p) /\ folders \in Nat \ {0}
    BY <1>6, <1>8 DEF WriterInv
  <2>2. Running = {}
    BY <1>8 DEF Running
  <2>3. /\ Files(info, folders, experiments) /\ OpenOnlyIn(info, {}) /\ Section(info, bbob, folders)
        /\ IsSequence(runs) /\ Tally(info, runs)
    BY <1>6, <2>2 DEF FileInv
  <2>4. handed # 0 /\ p.dimension \in Nat \ {0} /\ p.instance # 0
    <3>1. HasLists(SuiteOfPlan(plan))
      BY <1>1, OpenPlan
    <3>2. handed # 0 /\ IsNumber(SuiteOfPlan(plan), p, handed - 1)
      BY <1>1, <1>6 DEF NumberInv
    <3>. QED
      BY <3>1, <3>2, NumberedProblem
  <2>5. experiments \in Nat \ {0}
    BY <1>1 DEF SuiteInv, IsOpen
  <2>6. experiments = 1 => \A x \in Listed(bbob) :
          x <= p.dimension /\ (x = p.dimension => bbob.current_dim = x)
    BY <1>1, <1>6, <2>4 DEF ListInv
  <2>7. logger.dimension = p.dimension /\ logger.instance_id = p.instance
    BY <2>1 DEF OfProblem
  <2>8. IsBbob(bbob)
    BY <1>6 DEF ListInv
  <2>9. experiments > 1 \/ logger.dimension \notin Listed(bbob) \/ bbob.current_dim = logger.dimension
    BY <2>5, <2>6, <2>7
  <2>10. Initialized(info, bbob, logger, folders, experiments, ready)
    <3>. HIDE DEF ready
    <3>. QED
      BY <2>1, <2>3, <2>4, <2>7, <2>8, <2>9, InitializeLemma DEF ready
  <2>. DEFINE l == ready.logger
  <2>. HIDE DEF ready
  <2>11. /\ Files(ready.info, folders, experiments) /\ OpenOnlyIn(ready.info, {l.index_file})
         /\ Section(ready.info, ready.bbob, folders)
         /\ IsBbob(ready.bbob) /\ Listed(ready.bbob) \subseteq Listed(bbob) \union {logger.dimension}
         /\ ready.bbob.current_dim = logger.dimension
         /\ RunFields \subseteq DOMAIN l
         /\ l.kind = logger.kind /\ l.folder = logger.folder /\ l.is_initialized
         /\ OfProblem(l, p) /\ Begun(ready.info, l)
         /\ Tally(ready.info, runs)
    BY <2>1, <2>3, <2>10 DEF Initialized
  <2>12. logger' = logger_bbob_evaluate(l, y, g, g_evaluations)
    BY <1>2, <1>8, <2>11 DEF Evaluated
  <2>13. Keeps(l, logger')
    BY <2>11, <2>12, EvaluationKeeps
  <2>. HIDE DEF l
  <2>14. /\ logger'.kind = l.kind /\ logger'.folder = l.folder
         /\ logger'.is_initialized = l.is_initialized /\ logger'.index_file = l.index_file
         /\ RunFields \subseteq DOMAIN logger'
         /\ Begun(ready.info, logger') /\ OfProblem(logger', p)
    BY <2>11, <2>13, KeptFields
  <2>15. bbob' = ready.bbob /\ info' = ready.info
    BY <1>2, <1>8
  <2>16. Running' = {l.index_file}
    BY <1>8, <2>11, <2>14 DEF Running
  <2>17. FileInv'
    BY <1>1, <1>3, <2>3, <2>11, <2>15, <2>16 DEF FileInv
  <2>18. WriterInv'
    <3>1. logger'.folder = folders /\ logger'.is_initialized
      BY <2>1, <2>11, <2>14
    <3>. QED
      BY <1>1, <1>3, <1>5, <1>6, <2>1, <2>14, <2>15, <3>1 DEF WriterInv, p
  <2>19. ListInv'
    <3>1. ASSUME experiments = 1, NEW x \in Listed(bbob')
          PROVE  x <= p.dimension /\ (x = p.dimension => bbob'.current_dim = x)
      <4>1. x \in Listed(bbob) \/ x = p.dimension
        BY <2>7, <2>11, <2>15
      <4>. QED
        BY <2>4, <2>6, <2>7, <2>11, <2>15, <3>1, <4>1
    <3>. QED
      BY <1>3, <2>4, <2>5, <2>11, <2>15, <3>1 DEF ListInv, p
  <2>. QED
    BY <1>7, <2>17, <2>18, <2>19 DEF InfoInv
<1>9. CASE ~ opens
  <2>1. logger' = Evaluated(logger, y, g) /\ bbob' = bbob /\ info' = info
    BY <1>2, <1>9
  <2>2. ListInv'
    BY <1>1, <1>3, <1>6, <2>1 DEF ListInv
  <2>3. CASE logger.kind = "bbob"
    <3>1. /\ RunFields \subseteq DOMAIN logger /\ logger.is_initialized
          /\ observer.kind = "bbob" /\ logger.folder = folders
          /\ OfProblem(logger, p) /\ Begun(info, logger)
      BY <1>6, <1>9, <2>3 DEF WriterInv
    <3>2. logger' = logger_bbob_evaluate(logger, y, g, g_evaluations)
      BY <2>1, <2>3 DEF Evaluated
    <3>3. Keeps(logger, logger')
      BY <3>1, <3>2, EvaluationKeeps
    <3>4. /\ logger'.kind = logger.kind /\ logger'.folder = logger.folder
          /\ logger'.is_initialized = logger.is_initialized
          /\ logger'.index_file = logger.index_file
          /\ RunFields \subseteq DOMAIN logger'
          /\ Begun(info, logger') /\ OfProblem(logger', p)
      BY <3>1, <3>3, KeptFields
    <3>5. Running' = Running
      BY <3>4 DEF Running
    <3>6. FileInv'
      BY <1>1, <1>3, <1>6, <2>1, <3>5 DEF FileInv
    <3>7. WriterInv'
      BY <1>1, <1>3, <1>5, <1>6, <2>1, <3>1, <3>4 DEF WriterInv, p
    <3>. QED
      BY <1>7, <2>2, <3>6, <3>7 DEF InfoInv
  <2>4. CASE logger.kind # "bbob"
    <3>1. logger'.kind = logger.kind
      BY <2>1, <2>4, OtherKinds DEF LogInv
    <3>2. Running' = {} /\ Running = {}
      BY <2>4, <3>1 DEF Running
    <3>3. FileInv'
      BY <1>1, <1>3, <1>6, <2>1, <3>2 DEF FileInv
    <3>4. WriterInv'
      BY <1>1, <1>6, <2>4, <3>1 DEF WriterInv
    <3>. QED
      BY <1>7, <2>2, <3>3, <3>4 DEF InfoInv
  <2>. QED
    BY <2>3, <2>4
<1>. QED
  BY <1>8, <1>9

LEMMA InfoSame ==
  ASSUME SuiteInv, InfoInv, UNCHANGED suiteVars, UNCHANGED logVars, UNCHANGED history,
         UNCHANGED runs
  PROVE  InfoInv'
<1>1. /\ suite' = suite /\ handed' = handed /\ experiments' = experiments
      /\ observer' = observer /\ logger' = logger /\ bbob' = bbob /\ info' = info
      /\ folders' = folders /\ history' = history /\ runs' = runs
  BY DEF suiteVars, logVars
<1>2. plan' = plan /\ IsOpen' = IsOpen
  BY SuiteSame
<1>3. SuiteOfPlan(plan)' = SuiteOfPlan(plan) /\ Running' = Running
  BY <1>1, <1>2 DEF SuiteOfPlan, Running
<1>4. FileInv'
  BY <1>1, <1>3 DEF InfoInv, FileInv
<1>5. WriterInv'
  BY <1>1, <1>2 DEF InfoInv, WriterInv
<1>6. ListInv' /\ NumberInv'
  BY <1>1, <1>2, <1>3 DEF InfoInv, ListInv, NumberInv
<1>. QED
  BY <1>4, <1>5, <1>6 DEF InfoInv

LEMMA InfoClose ==
  ASSUME LogInv, InfoInv, finalizeBenchmark
  PROVE  InfoInv'
<1>. DEFINE freed == coco_problem_free
<1>1. /\ bbob' = freed.bbob /\ info' = freed.info /\ runs' = freed.runs
      /\ suite' = NoSuite /\ observer' = NoObserver /\ logger' = NoLogger
      /\ experiments' = experiments /\ folders' = folders
  BY DEF finalizeBenchmark
<1>2. observer'.kind = "none" /\ logger'.kind = "none" /\ ~ IsOpen'
  BY <1>1 DEF NoObserver, NoLogger, IsOpen
<1>3. Settled(freed.info, freed.bbob, freed.runs)
  BY FreeLemma DEF InfoInv, ListInv
<1>. HIDE DEF freed
<1>4. /\ Files(info', folders, experiments) /\ OpenOnlyIn(info', {}) /\ Section(info', bbob', folders)
      /\ IsBbob(bbob') /\ Listed(bbob') = Listed(bbob)
      /\ IsSequence(runs') /\ Tally(info', runs')
  BY <1>1, <1>3 DEF Settled
<1>5. Running' = {}
  BY <1>2 DEF Running
<1>6. FileInv'
  BY <1>1, <1>4, <1>5 DEF FileInv
<1>7. folders \in Nat /\ (experiments = 0 => Listed(bbob) = {})
  BY DEF InfoInv, WriterInv, ListInv
<1>8. WriterInv' /\ ListInv' /\ NumberInv'
  BY <1>1, <1>2, <1>4, <1>7 DEF WriterInv, ListInv, NumberInv
<1>. QED
  BY <1>6, <1>8 DEF InfoInv

LEMMA InfoNext ==
  ASSUME PlansAreRead, SuiteInv, LogInv, InfoInv, [Next]_vars
  PROVE  InfoInv'
<1>1. CASE Begin
  BY <1>1, InfoBegin
<1>2. CASE coco_suite_get_next_problem
  BY <1>2, InfoNextProblem
<1>3. CASE coco_evaluate_function
  BY <1>3, InfoEvaluation
<1>4. CASE coco_evaluate_constraint
  BY <1>4, InfoSame DEF coco_evaluate_constraint
<1>5. CASE finalizeBenchmark
  BY <1>5, InfoClose
<1>6. CASE UNCHANGED vars
  BY <1>6, InfoSame DEF vars, suiteVars, logVars
<1>. QED
  BY <1>1, <1>2, <1>3, <1>4, <1>5, <1>6 DEF Next

LEMMA InfoTold ==
  ASSUME FileInv
  PROVE  InfoTellsTheRuns
<1>1. /\ Files(info, folders, experiments) /\ OpenOnlyIn(info, Running)
      /\ IsSequence(runs) /\ Tally(info, runs)
  BY DEF FileInv
<1>. DEFINE Fits(file, k) ==
       LET lines == info[file]
       IN CASE lines[k].tag = "header" ->
                 /\ experiments > 1 \/ k = 1 \/ lines[k - 1].tag = "newline"
                 /\ lines[k].funId = file[2] /\ lines[k].data = file[3]
            [] lines[k].tag = "run" ->
                 IF k = Len(lines) THEN Writing(file) ELSE lines[k + 1].tag = "done"
            [] OTHER -> k > 1
<1>2. ASSUME NEW file \in DOMAIN info, NEW k \in DOMAIN info[file]
      PROVE  Fits(file, k)
  <2>. DEFINE lines == info[file]
  <2>1. IsFile(file, lines) /\ (experiments > 1 \/ Lined(lines))
    BY <1>1 DEF Files
  <2>2. DOMAIN lines = 1 .. Len(lines) /\ Len(lines) \in Nat
    BY <2>1, AppendLemma DEF IsFile
  <2>3. k \in 1 .. Len(lines)
    BY <2>2
  <2>. HIDE DEF lines
  <2>4. /\ lines[1].tag = "header" /\ lines[k].tag \in Tags
        /\ lines[k].tag = "header" => lines[k].funId = file[2] /\ lines[k].data = file[3]
        /\ lines[k].tag = "run" /\ k # Len(lines) => lines[k + 1].tag = "done"
    BY <2>1, <2>3 DEF IsFile
  <2>5. CASE lines[k].tag = "header"
    <3>1. experiments > 1 \/ k = 1 \/ lines[k - 1].tag = "newline"
      BY <2>1, <2>3, <2>5 DEF Lined
    <3>. QED
      BY <2>4, <2>5, <3>1 DEF lines
  <2>6. CASE lines[k].tag = "run"
    <3>1. k = Len(lines) => Writing(file)
      <4>. SUFFICES ASSUME k = Len(lines) PROVE Writing(file)
        OBVIOUS
      <4>1. LastLine(lines).tag = "run"
        BY <2>6 DEF LastLine
      <4>2. file \in Running
        BY <1>1, <4>1 DEF OpenOnlyIn, lines
      <4>. QED
        BY <4>2 DEF Running, Writing
    <3>. QED
      BY <2>4, <2>6, <3>1 DEF lines
  <2>7. CASE lines[k].tag \notin {"header", "run"}
    <3>1. k > 1
      BY <2>2, <2>3, <2>4, <2>7
    <3>. QED
      BY <2>7, <3>1 DEF lines
  <2>. QED
    BY <2>5, <2>6, <2>7
<1>3. Told = Tellings(info) /\ \A file, k : ToldAt(file, k) = Telling(info, file, k)
  BY DEF Told, Tellings, ToldAt, Telling
<1>4. ASSUME NEW r
      PROVE  Cardinality({k \in DOMAIN runs : runs[k] = r})
               = Cardinality({t \in Told : ToldAt(t[1], t[2]) = r})
  <2>1. {k \in DOMAIN runs : runs[k] = r} = RunsLike(runs, r)
    BY DEF RunsLike
  <2>2. {t \in Told : ToldAt(t[1], t[2]) = r} = TellingsOf(info, r)
    BY <1>3 DEF TellingsOf
  <2>. QED
    BY <1>1, <2>1, <2>2 DEF Tally
<1>. QED
  BY <1>2, <1>4 DEF InfoTellsTheRuns

\* The info files of all benchmarks of a process tell of each run that is
\* over once, under its function and dimension, and of no other; only the
\* run that goes on has no end (logger_bbob_openIndexFile,
\* logger_bbob_free).  Headers of the first benchmark start a line, for the
\* dimensions of a suite rise: a new one is never in the list already.
THEOREM InfoTells == PlansAreRead => (Spec => []InfoTellsTheRuns)
<1>. SUFFICES ASSUME PlansAreRead PROVE Spec => []InfoTellsTheRuns
  OBVIOUS
<1>. DEFINE Inv == SuiteInv /\ LogInv /\ InfoInv
<1>1. Init => Inv
  BY SuiteInit, LogInit, InfoInit
<1>2. Inv /\ [Next]_vars => Inv'
  BY SuiteNext, LogNext, InfoNext
<1>3. Inv => InfoTellsTheRuns
  BY InfoTold DEF InfoInv
<1>. HIDE DEF Inv
<1>. QED
  BY <1>1, <1>2, <1>3, PTL DEF Spec

=============================================================================
