---------------------------- MODULE CocoProblems ----------------------------
(***************************************************************************)
(* The problem suites of CoCO (src/native/coco.c): which problem a suite   *)
(* hands out for a function, a dimension and an instance.                  *)
(***************************************************************************)
EXTENDS CocoConstrained

\* From this many dimensions on, the mixed-integer suites are built from the
\* large-scale functions: 50 in the code.
CONSTANT DimLargeScale

ASSUME DimLargeScaleAssumption == DimLargeScale \in Nat

coco_get_bbob_problem(function, n, instance) ==
  LET rseed == function + 10000 * instance
      rseed_3 == 3 + 10000 * instance
      rseed_17 == 17 + 10000 * instance
  IN CASE function = 1  -> f_sphere_bbob_problem_allocate(function, n, instance, rseed, FALSE)
       [] function = 2  -> f_ellipsoid_bbob_problem_allocate(function, n, instance, rseed, FALSE)
       [] function = 3  -> f_rastrigin_bbob_problem_allocate(function, n, instance, rseed, FALSE)
       [] function = 4  -> f_bueche_rastrigin_bbob_problem_allocate(function, n, instance, rseed_3, FALSE)
       [] function = 5  -> f_linear_slope_bbob_problem_allocate(function, n, instance, rseed, FALSE)
       [] function = 6  -> f_attractive_sector_bbob_problem_allocate(function, n, instance, rseed)
       [] function = 7  -> f_step_ellipsoid_bbob_problem_allocate(function, n, instance, rseed)
       [] function = 8  -> f_rosenbrock_bbob_problem_allocate(function, n, instance, rseed, FALSE)
       [] function = 9  -> f_rosenbrock_rotated_bbob_problem_allocate(function, n, instance, rseed)
       [] function = 10 -> f_ellipsoid_rotated_bbob_problem_allocate(function, n, instance, rseed)
       [] function = 11 -> f_discus_bbob_problem_allocate(function, n, instance, rseed)
       [] function = 12 -> f_bent_cigar_bbob_problem_allocate(function, n, instance, rseed)
       [] function = 13 -> f_sharp_ridge_bbob_problem_allocate(function, n, instance, rseed)
       [] function = 14 -> f_different_powers_bbob_problem_allocate(function, n, instance, rseed)
       [] function = 15 -> f_rastrigin_rotated_bbob_problem_allocate(function, n, instance, rseed)
       [] function = 16 -> f_weierstrass_bbob_problem_allocate(function, n, instance, rseed)
       [] function = 17 -> f_schaffers_bbob_problem_allocate(function, n, instance, rseed, 10)
       [] function = 18 -> f_schaffers_bbob_problem_allocate(function, n, instance, rseed_17, 1000)
       [] function = 19 -> f_griewank_rosenbrock_bbob_problem_allocate(function, n, instance, rseed)
       [] function = 20 -> f_schwefel_bbob_problem_allocate(function, n, instance, rseed)
       [] function = 21 -> f_gallagher_bbob_problem_allocate(function, n, instance, rseed, 101)
       [] function = 22 -> f_gallagher_bbob_problem_allocate(function, n, instance, rseed, 21)
       [] function = 23 -> f_katsuura_bbob_problem_allocate(function, n, instance, rseed)
       [] function = 24 -> f_lunacek_bi_rastrigin_bbob_problem_allocate(function, n, instance, rseed)

coco_get_largescale_problem(function, n, instance) ==
  LET rseed == function + 10000 * instance
      rseed_3 == 3 + 10000 * instance
      rseed_17 == 17 + 10000 * instance
  IN CASE function = 1  -> f_sphere_bbob_problem_allocate(function, n, instance, rseed, TRUE)
       [] function = 2  -> f_ellipsoid_bbob_problem_allocate(function, n, instance, rseed, TRUE)
       [] function = 3  -> f_rastrigin_bbob_problem_allocate(function, n, instance, rseed, TRUE)
       [] function = 4  -> f_bueche_rastrigin_bbob_problem_allocate(function, n, instance, rseed_3, TRUE)
       [] function = 5  -> f_linear_slope_bbob_problem_allocate(function, n, instance, rseed, TRUE)
       [] function = 6  -> f_attractive_sector_permblockdiag_bbob_problem_allocate(function, n, instance, rseed)
       [] function = 7  -> f_step_ellipsoid_permblockdiag_bbob_problem_allocate(function, n, instance, rseed)
       [] function = 8  -> f_rosenbrock_bbob_problem_allocate(function, n, instance, rseed, TRUE)
       [] function = 9  -> f_rosenbrock_permblockdiag_bbob_problem_allocate(function, n, instance, rseed)
       [] function = 10 -> f_ellipsoid_permblockdiag_bbob_problem_allocate(function, n, instance, rseed)
       [] function = 11 -> f_discus_generalized_permblockdiag_bbob_problem_allocate(function, n, instance, rseed)
       [] function = 12 -> f_bent_cigar_generalized_permblockdiag_bbob_problem_allocate(function, n, instance, rseed)
       [] function = 13 -> f_sharp_ridge_generalized_permblockdiag_bbob_problem_allocate(function, n, instance, rseed)
       [] function = 14 -> f_different_powers_permblockdiag_bbob_problem_allocate(function, n, instance, rseed)
       [] function = 15 -> f_rastrigin_permblockdiag_bbob_problem_allocate(function, n, instance, rseed)
       [] function = 16 -> f_weierstrass_permblockdiag_bbob_problem_allocate(function, n, instance, rseed)
       [] function = 17 -> f_schaffers_permblockdiag_bbob_problem_allocate(function, n, instance, rseed, 10)
       [] function = 18 -> f_schaffers_permblockdiag_bbob_problem_allocate(function, n, instance, rseed_17, 1000)
       [] function = 19 -> f_griewank_rosenbrock_permblockdiag_bbob_bbob_problem_allocate(function, n, instance, rseed)
       [] function = 20 -> f_schwefel_generalized_bbob_problem_allocate(function, n, instance, rseed)
       [] function = 21 -> f_gallagher_permblockdiag_bbob_problem_allocate(function, n, instance, rseed, 101)
       [] function = 22 -> f_gallagher_permblockdiag_bbob_problem_allocate(function, n, instance, rseed, 21)
       [] function = 23 -> f_katsuura_permblockdiag_bbob_problem_allocate(function, n, instance, rseed)
       [] function = 24 -> f_lunacek_bi_rastrigin_permblockdiag_bbob_problem_allocate(function, n, instance, rseed)

\* The function that a suite passes to those who build upon its problems.
coco_get_problem_function(large, function, n, instance) ==
  IF large THEN coco_get_largescale_problem(function, n, instance)
  ELSE coco_get_bbob_problem(function, n, instance)

----------------------------------------------------------------------------
(* Mixed-integer problems: five groups of variables, the last continuous. *)

variable_cardinality == <<2, 4, 8, 16, 0>>
Cardinality5(i, n) == variable_cardinality[((i - 1) \div (n \div 5)) + 1]
NumInteger(n) == 4 * (n \div 5)
InnerBound == 4 * One

\* The bounds of the mixed-integer problem around a problem, whose own become
\* those of the grid.
MixintLower(n, b) == Entries([i \in 1 .. n |-> IF i <= NumInteger(n) THEN 0 ELSE -b])
MixintUpper(n, b) ==
  Entries([i \in 1 .. n |-> IF i <= NumInteger(n) THEN One * (Cardinality5(i, n) - 1) ELSE b])
GridBounds(problem) ==
  [problem EXCEPT
     !.lower = Entries([i \in DOMAIN @ |-> IF i <= NumInteger(problem.n) THEN -InnerBound ELSE @[i]]),
     !.upper = Entries([i \in DOMAIN @ |-> IF i <= NumInteger(problem.n) THEN InnerBound ELSE @[i]])]
Discretized(problem, b) ==
  transform_vars_discretize(GridBounds(problem), MixintLower(problem.n, b),
                            MixintUpper(problem.n, b), NumInteger(problem.n))

\* Factors between 1e-4 and 10; 2 stands for those below 1.
suite_bbob_mixint_scaling_factors(function) ==
  IF function \in {1, 5, 7, 14, 16, 18, 21, 22} THEN 1
  ELSE IF function \in {17, 19, 23} THEN 10 ELSE 2

coco_get_bbob_mixint_problem(function, n, instance, large) ==
  transform_obj_scale(Discretized(coco_get_problem_function(large, function, n, instance), Bound),
                      suite_bbob_mixint_scaling_factors(function))

----------------------------------------------------------------------------
(* Bi-objective problems. *)

sel_bbob_functions == <<1, 2, 6, 8, 13, 14, 15, 17, 20, 21>>
num_sel_bbob_functions == 10

\* Mutated: a row starts one column too early.
SelectedPairEarly(function) ==
  LET k == 55 - function
      rows == CHOOSE t \in 0 .. 10 : (t * (t + 1)) \div 2 <= k /\ k < ((t + 1) * (t + 2)) \div 2
      function1_idx == 9 - rows
      function2_idx == function - 1 - function1_idx * num_sel_bbob_functions
                       + (function1_idx * (function1_idx - 1)) \div 2
  IN <<sel_bbob_functions[function1_idx + 1], sel_bbob_functions[function2_idx + 1]>>

\* The first 55 functions: all pairs of the ten selected ones, row by row.
SelectedPair(function) ==
  LET function_idx == function - 1
      k == 55 - function_idx - 1
      rows == CHOOSE t \in 0 .. 10 : (t * (t + 1)) \div 2 <= k /\ k < ((t + 1) * (t + 2)) \div 2
      function1_idx == num_sel_bbob_functions - rows - 1
      function2_idx == function_idx - function1_idx * num_sel_bbob_functions
                       + (function1_idx * (function1_idx + 1)) \div 2
  IN <<sel_bbob_functions[function1_idx + 1], sel_bbob_functions[function2_idx + 1]>>

\* The other 37: indices from 0 into all 24 functions.
ExtPairs ==
  << <<0, 2>>, <<0, 3>>, <<0, 4>>, <<1, 2>>, <<1, 3>>, <<1, 4>>, <<2, 3>>, <<2, 4>>, <<3, 4>>,
     <<5, 6>>, <<5, 8>>, <<6, 7>>, <<6, 8>>, <<7, 8>>,
     <<9, 10>>, <<9, 11>>, <<9, 12>>, <<9, 13>>, <<10, 11>>, <<10, 12>>, <<10, 13>>, <<11, 12>>, <<11, 13>>,
     <<14, 17>>, <<14, 18>>, <<16, 17>>, <<16, 18>>, <<17, 18>>,
     <<19, 21>>, <<19, 22>>, <<19, 23>>, <<20, 21>>, <<20, 22>>, <<20, 23>>, <<21, 22>>, <<21, 23>>, <<22, 23>> >>

BiobjPair(function) ==
  IF function <= 55 THEN SelectedPair(function)
  ELSE <<ExtPairs[function - 55][1] + 1, ExtPairs[function - 55][2] + 1>>

BiobjBound == 100 * One
suite_biobj_instances ==
  << <<2, 4>>, <<3, 5>>, <<7, 8>>, <<9, 10>>, <<11, 12>>, <<13, 14>>, <<15, 16>>, <<17, 18>>,
     <<19, 21>>, <<21, 22>>, <<23, 24>>, <<25, 26>>, <<27, 28>>, <<29, 30>>, <<31, 34>> >>

mo_get_norm(x, y) == Total(Squares(Minus(x, y)))       \* squared

StackedParts(parts, lower, upper) == coco_problem_stacked_allocate(parts[1], parts[2], lower, upper)
StackedPair(pair, n, instances, large) ==
  StackedParts(Entries([k \in 1 .. 2 |-> coco_get_problem_function(large, pair[k], n, instances[k])]),
               Constant(n, -BiobjBound), Constant(n, BiobjBound))

\* TRUE when the ideal and the nadir point, or the two optima, coincide.
Coincide(p) ==
  \/ mo_get_norm(p.besty, p.nadir) = 0
  \/ mo_get_norm(p.inner[1].bestx, p.inner[2].bestx) = 0
suite_biobj_check_inst_consistency(n, f1, instance1, f2, instance2) ==
  Coincide(StackedPair(<<f1, f2>>, n, <<instance1, instance2>>, FALSE))

\* The next second instance, from instance2 on, for which no pair of functions
\* breaks the search.
RECURSIVE suite_biobj_get_new_instance(_, _, _, _)
suite_biobj_get_new_instance(instance1, instance2, functions, dimensions) ==
  IF \E f1, f2 \in functions, n \in dimensions :
       /\ f1 < f2 \/ (f1 = f2 /\ \E j \in DOMAIN sel_bbob_functions : sel_bbob_functions[j] = f1)
       /\ suite_biobj_check_inst_consistency(n, f1, instance1, f2, instance2)
  THEN suite_biobj_get_new_instance(instance1, instance2 + 1, functions, dimensions)
  ELSE instance2

\* Instances beyond the table are searched for; the copy that remembers them
\* is a local of the caller, so the next problem searches again.
suite_biobj_get_instances(instance, functions, dimensions) ==
  IF instance <= Len(suite_biobj_instances) THEN suite_biobj_instances[instance]
  ELSE <<2 * instance + 1,
         suite_biobj_get_new_instance(2 * instance + 1, 2 * instance + 2, functions, dimensions)>>
coco_get_biobj_problem(function, n, instance, large, functions, dimensions) ==
  StackedPair(BiobjPair(function), n, suite_biobj_get_instances(instance, functions, dimensions), large)

\* Both parts of the continuous problem are taken over and made discrete.
MixintParts(problem_cont, pair) ==
  Entries([k \in 1 .. 2 |->
    transform_obj_scale(Discretized(coco_problem_duplicate(problem_cont.inner[k]), BiobjBound),
                        suite_bbob_mixint_scaling_factors(pair[k]))])
coco_get_biobj_mixint_problem(function, n, instance, large, functions, dimensions) ==
  StackedParts(
    MixintParts(coco_get_biobj_problem(function, n, instance, large, functions, dimensions),
                BiobjPair(function)),
    MixintLower(n, BiobjBound), MixintUpper(n, BiobjBound))

----------------------------------------------------------------------------
(* Constrained and toy problems. *)

coco_get_cons_bbob_problem(suite_name, function, n, instance) ==
  LET xopt == bbob2009_compute_xopt(function + 10000 * instance, n)
      rseed == function + 20000 * instance
      type == obj_function_type(function)
  IN transform_obj_scale(
       CASE type = 1 -> f_sphere_c_linear_cons_bbob_problem_allocate(suite_name, function, n, instance, rseed, xopt)
         [] type = 2 -> f_ellipsoid_c_linear_cons_bbob_problem_allocate(suite_name, function, n, instance, rseed, xopt)
         [] type = 3 -> f_linear_slope_c_linear_cons_bbob_problem_allocate(suite_name, function, n, instance, rseed, xopt)
         [] type = 4 -> f_ellipsoid_rotated_c_linear_cons_bbob_problem_allocate(suite_name, function, n, instance, rseed, xopt)
         [] type = 5 -> f_discus_c_linear_cons_bbob_problem_allocate(suite_name, function, n, instance, rseed, xopt)
         [] type = 6 -> f_bent_cigar_c_linear_cons_bbob_problem_allocate(suite_name, function, n, instance, rseed, xopt)
         [] type = 7 -> f_different_powers_c_linear_cons_bbob_problem_allocate(suite_name, function, n, instance, rseed, xopt)
         [] type = 8 -> f_rastrigin_c_linear_cons_bbob_problem_allocate(suite_name, function, n, instance, rseed, xopt)
         [] type = 9 -> f_rastrigin_rotated_c_linear_cons_bbob_problem_allocate(suite_name, function, n, instance, rseed, xopt),
       <<10, 1, 10, 1, 1, 1, 100, 10, 10>>[type])

\* The raw functions.  xopt holds a 5 and then zeros: not below 0.
suite_toy_get_problem(function, n) ==
  CASE function = 1 -> f_sphere_allocate(n)
    [] function = 2 -> f_ellipsoid_allocate(n)
    [] function = 3 -> f_rastrigin_allocate(n)
    [] function = 4 -> f_bueche_rastrigin_allocate(n)
    [] function = 5 -> f_linear_slope_allocate(n, Constant(n, 0))
    [] function = 6 -> f_rosenbrock_allocate(n)

=============================================================================
