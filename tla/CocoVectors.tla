---------------------------- MODULE CocoVectors ----------------------------
(***************************************************************************)
(* The numeric helpers of CoCO (src/native/coco.c): vectors, matrices, the *)
(* generator every instance is drawn from, rotations, permutations and     *)
(* block-diagonal matrices.                                                *)
(*                                                                         *)
(* Numbers are integers in quarter units: One stands for 1.0, and the      *)
(* region of interest [-5, 5] is [-20, 20].  A quarter is the coarsest     *)
(* grid on which the constants that place an optimum (0.5, 1, 1.25, 2.5,   *)
(* 5) are exact.  A random rotation is a signed permutation matrix: these  *)
(* are the orthogonal matrices with integer entries.  A vector of NaNs is  *)
(* the empty sequence, which no arithmetic accepts by accident.            *)
(***************************************************************************)
EXTENDS Integers, Sequences, FiniteSets, SequencesExt

CONSTANT MaxBlockSize   \* MAX_BLOCK_SIZE_ABSOLUTE, 40 in the code

ASSUME MaxBlockSizeAssumption == MaxBlockSize \in Nat \ {0}

One == 4
NaN == << >>
NotANumber == 2000000000          \* fails every "<" the code makes, as a NaN does
DBL_MAX    == 1900000000
INF        == 1800000000
Bound      == 5 * One

\* v itself.  TLC computes the entries of the concatenation once, and those of
\* a function again at every use.
Entries(v) == v \o << >>

Abs(k) == IF k < 0 THEN -k ELSE k
coco_is_nan(x) == x = NaN
coco_vector_isfinite(x) == x # NaN /\ \A i \in DOMAIN x : Abs(x[i]) < INF
coco_vector_is_zero(x) == \A i \in DOMAIN x : x[i] = 0
coco_problem_best_parameter_not_zero(p) ==
  coco_is_nan(p.bestx) \/ ~ coco_vector_is_zero(p.bestx)

Total(v) ==
  LET sum[i \in 0 .. Len(v)] == IF i = 0 THEN 0 ELSE sum[i - 1] + v[i] IN sum[Len(v)]
Constant(n, c) == Entries([i \in 1 .. n |-> c])
Plus(x, y)  == Entries([i \in DOMAIN x |-> x[i] + y[i]])
Minus(x, y) == Entries([i \in DOMAIN x |-> x[i] - y[i]])
Times(c, x) == Entries([i \in DOMAIN x |-> c * x[i]])
Sign(k) == IF k > 0 THEN 1 ELSE IF k < 0 THEN -1 ELSE 0
coco_vector_scalar_product(x, y) == Total([i \in DOMAIN x |-> x[i] * y[i]])

\* To the nearest multiple of One, halves upwards.
coco_double_round(k) == One * ((k + One \div 2) \div One)
\* A ratio that the code truncates towards 0.
Quotient(a, b) == Sign(a) * (Abs(a) \div b)
CosTwoPi(k) == <<1, 0, -1, 0>>[(k % 4) + 1]

----------------------------------------------------------------------------
(* Matrices: sequences of rows. *)

Apply(M, x) == Entries([i \in DOMAIN M |-> coco_vector_scalar_product(M[i], x)])
Transpose(M) == Entries([j \in DOMAIN M |-> Entries([i \in DOMAIN M |-> M[i][j]])])
Rows(A, T) == Entries([i \in DOMAIN A |-> Apply(T, A[i])])
Product(A, B) == Rows(A, Transpose(B))
Diagonal(d) == Entries([i \in DOMAIN d |-> Entries([j \in DOMAIN d |-> IF i = j THEN d[i] ELSE 0])])
coco_is_orthogonal(M) ==
  Product(M, Transpose(M)) = Diagonal(Constant(Len(M), 1))

\* alpha^(i / (n - 1)), a positive weight per coordinate: growing for
\* alpha > 1 and falling for alpha < 1.
Condition(alpha, i, n) == IF alpha >= 1 THEN i ELSE n + 1 - i
Conditions(alpha, n) == Entries([i \in 1 .. n |-> Condition(alpha, i, n)])

----------------------------------------------------------------------------
(* bbob2009_legacy_code.c *)

NextSeed(s) == (16807 * (s % 127773) - 2836 * (s \div 127773)) % 2147483647

\* One round of the generator: 40 rounds warm it up, the last 32 of them fill
\* the table, and every later one hands out an entry and replaces it.
Drawn(s, a, t) ==
  IF s.warmup > 0
  THEN [s EXCEPT !.warmup = @ - 1, !.seed = a, !.rand = a,
                 !.rgrand = IF s.warmup > 32 THEN @ ELSE <<a>> \o @]
  ELSE [s EXCEPT !.seed = a, !.rand = s.rgrand[t], !.rgrand[t] = a,
                 !.out = Append(@, s.rgrand[t])]
NextDraw(s) == Drawn(s, NextSeed(s.seed), s.rand \div 67108865 + 1)

\* k rounds, halved: TLC recurses to the depth of log k only.  The seed is
\* never 0; asking for it makes TLC evaluate s first.
RECURSIVE Draws(_, _)
Draws(s, k) ==
  IF s.seed = 0 THEN s
  ELSE IF k = 1 THEN NextDraw(s) ELSE Draws(Draws(s, k \div 2), k - k \div 2)

\* The raw numbers, in 0 .. 2^31 - 2, that the code divides by 2^31 - 1.
bbob2009_unif(N, inseed) ==
  Draws([seed |-> IF inseed = 0 THEN 1 ELSE Abs(inseed), warmup |-> 40,
         rand |-> 0, rgrand |-> << >>, out |-> << >>], 40 + N).out

\* [-4, 4) in 32 steps, 0 replaced by a little less.
NotZero(k) == IF k = 0 THEN -1 ELSE k
bbob2009_compute_xopt(seed, n) ==
  LET r == bbob2009_unif(n, seed)
  IN Entries([i \in 1 .. n |-> NotZero((r[i] \div 67108864) - 4 * One)])

\* Functions 4 and 18 share the optima of 3 and 17.
bbob2009_compute_fopt(function, instance) ==
  LET rseed == CASE function = 4 -> 3 [] function = 18 -> 17 [] OTHER -> function
  IN (bbob2009_unif(2, rseed + 10000 * instance)[2] \div 134217728) - 8

SignedPermutation(r, n) ==
  LET To(i) == ((i + r[n + 1]) % n) + 1
  IN Entries([i \in 1 .. n |-> Entries([j \in 1 .. n |->
        IF j # To(i) THEN 0 ELSE IF r[i] % 2 = 0 THEN 1 ELSE -1])])
bbob2009_compute_rotation(seed, n) == SignedPermutation(bbob2009_unif(n + 1, seed), n)

----------------------------------------------------------------------------
(* transform_vars_permutation_helpers.c, transform_vars_blockrotation.c *)

coco_random_unif_integer(lower, upper, seed) ==
  lower + (bbob2009_unif(1, seed)[1] % (upper - lower + 1))

\* The order that sorting by drawn numbers gives to 1 .. n.
Order(r, n) ==
  LET Before(i) == {j \in 1 .. n : r[j] < r[i] \/ (r[j] = r[i] /\ j < i)}
  IN Entries([k \in 1 .. n |-> CHOOSE i \in 1 .. n : Cardinality(Before(i)) = k - 1])
coco_compute_random_permutation(seed, n) == Order(bbob2009_unif(n, seed), n)

\* Another one of the positions at most swap_range away from the first.
SwapPartner(first, n, swap_range, seed) ==
  LET lower == IF first - 1 < swap_range THEN 1 ELSE first - swap_range
      upper == IF first + swap_range > n THEN n ELSE first + swap_range
      NotFirst(s) == IF s >= first THEN s + 1 ELSE s
  IN NotFirst(coco_random_unif_integer(lower, upper - 1, seed))
Swap(P, a, b) == [P EXCEPT ![a] = P[b], ![b] = P[a]]
Identity(n) == Entries([i \in 1 .. n |-> i])

Swapped(order, seed, n, nb_swaps, swap_range) ==
  LET after[k \in 0 .. nb_swaps] ==
        IF k = 0 THEN Identity(n)
        ELSE Swap(after[k - 1], order[k], SwapPartner(order[k], n, swap_range, seed + k * 1000))
  IN IF swap_range = 0 THEN order ELSE after[nb_swaps]

coco_compute_truncated_uniform_swap_permutation(seed, n, nb_swaps, swap_range) ==
  IF n <= MaxBlockSize THEN Identity(n)
  ELSE Swapped(coco_compute_random_permutation(seed, n), seed, n, nb_swaps, swap_range)

coco_get_swap_range(n) == n \div 3
coco_get_nb_swaps(n) == n

\* The permutation of a large-scale problem.
Swaps(seed, n) ==
  coco_compute_truncated_uniform_swap_permutation(seed, n, coco_get_nb_swaps(n), coco_get_swap_range(n))

coco_rotation_matrix_block_size(n) == IF n < MaxBlockSize THEN n ELSE MaxBlockSize

\* All blocks are full but the last, which takes the rest.
coco_get_block_sizes(n) ==
  LET size == coco_rotation_matrix_block_size(n)
      blocks == n \div size + (IF n % size > 0 THEN 1 ELSE 0)
  IN Entries([b \in 1 .. blocks |-> IF b < blocks THEN size ELSE n - (blocks - 1) * size])

\* The rotation of every block, drawn with a seed of its own.
coco_compute_blockrotation(seed, n) ==
  LET sizes == coco_get_block_sizes(n)
  IN Entries([b \in DOMAIN sizes |-> bbob2009_compute_rotation(seed + 1000000 * (b - 1), sizes[b])])

\* The block a row belongs to, and the rows before that block.
BlockOf(blocks, i) == ((i - 1) \div Len(blocks[1])) + 1
FirstNonZero(blocks, i) == (BlockOf(blocks, i) - 1) * Len(blocks[1])

transform_vars_blockrotation_get_row(blocks, n, i) ==
  LET first == FirstNonZero(blocks, i)
      row == blocks[BlockOf(blocks, i)][i - first]
  IN Entries([j \in 1 .. n |-> IF j <= first \/ j > first + Len(row) THEN 0 ELSE row[j - first]])

transform_vars_blockrotation_apply(blocks, x) ==
  Entries([i \in DOMAIN x |->
     coco_vector_scalar_product(transform_vars_blockrotation_get_row(blocks, Len(x), i), x)])

\* The self-test the constructor runs: row i is mapped to the i-th unit vector.
transform_vars_blockrotation_test(blocks, n) ==
  \A i \in 1 .. n :
    transform_vars_blockrotation_apply(blocks, transform_vars_blockrotation_get_row(blocks, n, i))
      = Entries([j \in 1 .. n |-> IF j = i THEN 1 ELSE 0])

=============================================================================
