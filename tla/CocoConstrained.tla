-------------------------- MODULE CocoConstrained --------------------------
(***************************************************************************)
(* The constrained problems of CoCO (src/native/coco.c): an objective with *)
(* linear constraints stacked upon it, so that the origin is the optimum   *)
(* and a known point is feasible, before the whole is distorted and moved. *)
(* A feasible direction keeps its direction exactly and loses its length;  *)
(* the factors that scale a gradient are left out; real weights in [0, 1)  *)
(* and normal coordinates are small integers drawn with the same seeds.    *)
(***************************************************************************)
EXTENDS CocoFunctions

c_sum_variables_allocate(n) ==
  [coco_problem_allocate("sum_variables", << >>, n, 0, 1) EXCEPT
     !.lower = Constant(n, -Bound), !.upper = Constant(n, Bound)]

c_linear_transform(inner, gradient, shift_factor) ==
  coco_problem_transformed_allocate(inner, "linear", [gradient |-> gradient, x_shift |-> shift_factor])

\* A constraint that the feasible direction violates is turned round.
TurnedRound(r, feasible_direction) ==
  [r.p EXCEPT !.arg.gradient = IF r.y[1] > 0 THEN Times(-1, @) ELSE @,
              !.initial = feasible_direction]
c_guarantee_feasible_point(problem, feasible_direction) ==
  TurnedRound(coco_evaluate_constraint(problem, feasible_direction), feasible_direction)

ConsSeed(function, instance, constraint_number) ==
  function + 10000 * instance + 50000 * constraint_number

RandomGradient(seed, n) ==
  LET r == bbob2009_unif(n, seed)
  IN Entries([k \in 1 .. n |-> IF r[k] \div 268435456 = 4 THEN 4 ELSE (r[k] \div 268435456) - 4])

\* gradient NaN: draw one.
c_linear_single_cons_bbob_problem_allocate(function, n, instance, number, gradient, shift, direction) ==
  LET g == IF gradient # NaN THEN gradient
           ELSE RandomGradient(ConsSeed(function, instance, number), n)
  IN c_guarantee_feasible_point(
       c_linear_transform(c_sum_variables_allocate(n), g, shift), direction)

con_update_linear_combination(linear_combination, problem, weight) ==
  Plus(linear_combination, Times(weight, problem.arg.gradient))

\* How the constraints are dealt out: i counts the active ones so far, left
\* the inactive ones still to come, shift is 1 for an inactive one.
Dealt(function, instance, active, inactive) ==
  LET number == active + inactive
      r == bbob2009_unif(number, function + 10000 * instance)
      deal[j \in 1 .. number] ==
        IF j = 1 THEN [i |-> 1, left |-> inactive, shift |-> 0]
        ELSE LET d == deal[j - 1]
             IN IF d.i < active /\ r[j] % number >= d.left
                THEN [i |-> d.i + 1, left |-> d.left, shift |-> 0]
                ELSE [i |-> d.i, left |-> d.left - 1, shift |-> 1]
  IN deal

\* The gradient of the first constraint, less a share of the others': the
\* share is smaller than the one that would make it point away from itself.
Disguised(gradient, linear_combination) ==
  LET fac == coco_vector_scalar_product(linear_combination, gradient)
      norm2 == coco_vector_scalar_product(gradient, gradient)
      weight == IF fac <= 0 THEN 1 ELSE Ceiling(2 * fac, norm2)
  IN Minus(Times(weight, gradient), linear_combination)

\* Stacks the constraints of a list, each new one behind the others.
StackedUpon(p, c) == coco_problem_stacked_allocate(p, c, c.lower, c.upper)
Stacked(constraints) == FoldLeft(StackedUpon, Head(constraints), Tail(constraints))

\* Exactly one active constraint is perpendicular to the objective: which one
\* depends on the instance.
OfObjective(deal, active, instance) == [j \in DOMAIN deal |-> (deal[j].i - 1 + instance) % active = 0]

\* The other active constraints hide the gradient of that one, the first.
DisguisedAmong(constraints, deal, first, weights) ==
  LET linear_combination ==
        FoldLeftDomain(LAMBDA comb, j :
            IF deal[j].shift = 0 /\ j # first
            THEN con_update_linear_combination(comb, constraints[j], weights[j] % 3) ELSE comb,
          Constant(constraints[1].n, 0), constraints)
  IN [constraints EXCEPT ![first].arg.gradient = Disguised(@, linear_combination)]

c_linear_cons_bbob_problem_allocate(suite_name, function, n, instance, active, feasible_direction) ==
  LET inactive == IF suite_name = "bbob-constrained-active-only" THEN 0 ELSE active \div 2
      disguise_gradient == active > 1 /\ suite_name # "bbob-constrained-no-disguise"
      deal == Dealt(function, instance, active, inactive)
      of == OfObjective(deal, active, instance)
      first == CHOOSE j \in DOMAIN deal : deal[j].shift = 0 /\ of[j]
      weights == bbob2009_unif(active + inactive, function + 10000 * instance)
      Disguise(constraints) ==
        IF disguise_gradient THEN DisguisedAmong(constraints, deal, first, weights) ELSE constraints
  IN Stacked(Disguise(Entries([j \in DOMAIN deal |->
       c_linear_single_cons_bbob_problem_allocate(function, n, instance, deal[j].i,
         IF of[j] THEN Times(-1, feasible_direction) ELSE NaN, deal[j].shift, feasible_direction)])))

obj_function_type(function) == Ceiling(function, 6)

nb_of_linear_constraints(function, n) ==
  <<1, 2, 6, 6 + n \div 2, 6 + n, 6 + 3 * n>>[((function - 1) % 6) + 1]

\* Scaled into the region of interest by the code, to lowest terms here.
feasible_direction_set_length(feasible_direction) ==
  LET Divides(d) == \A k \in DOMAIN feasible_direction : Abs(feasible_direction[k]) % d = 0
      most == Total([k \in DOMAIN feasible_direction |-> Abs(feasible_direction[k])])
      gcd == CHOOSE d \in 1 .. most : Divides(d) /\ \A e \in d + 1 .. most : ~ Divides(e)
  IN Entries([k \in DOMAIN feasible_direction |-> Quotient(feasible_direction[k], gcd)])

----------------------------------------------------------------------------
(* The objectives of the constrained suite that differ from bbob's. *)

f_bent_cigar_cons_bbob_problem_allocate(function, n, instance, rseed) ==
  Shifted(Linear(transform_obj_shift(f_bent_cigar_allocate(n), bbob2009_compute_fopt(function, instance)),
                 Rotation(rseed, 1, n)),
          bbob2009_compute_xopt(rseed + 1000000, n))

\* The optimum is 0.01 away from the origin: one unit in every coordinate.
f_different_powers_bbob_constrained_problem_allocate(function, n, instance, rseed) ==
  LET x == bbob2009_compute_xopt(rseed, n)
  IN Shifted(Linear(transform_obj_shift(f_different_powers_allocate(n), bbob2009_compute_fopt(function, instance)),
                    Rotation(rseed, 1, n)),
             [k \in 1 .. n |-> Sign(x[k])])

f_discus_cons_bbob_problem_allocate(function, n, instance, rseed) ==
  transform_obj_shift(
    Shifted(Linear(f_discus_allocate(n), Rotation(rseed, 1, n)), bbob2009_compute_xopt(rseed, n)),
    bbob2009_compute_fopt(function, instance))

f_ellipsoid_cons_bbob_problem_allocate(function, n, instance, rseed) ==
  transform_obj_shift(Shifted(f_ellipsoid_allocate(n), bbob2009_compute_xopt(rseed, n)),
                      bbob2009_compute_fopt(function, instance))

f_ellipsoid_rotated_cons_bbob_problem_allocate(function, n, instance, rseed) ==
  transform_obj_shift(
    Shifted(Linear(f_ellipsoid_allocate(n), Rotation(rseed, 1, n)), bbob2009_compute_xopt(rseed, n)),
    bbob2009_compute_fopt(function, instance))

\* Whole numbers, so that the ripples of the function vanish at the origin.
f_rastrigin_cons_compute_xopt(rseed, n) ==
  LET r == bbob2009_unif(n, rseed)
      xopt == Entries([k \in 1 .. n |-> One * Quotient((r[k] \div 53687092) - Bound, One)])
  IN IF coco_vector_is_zero(xopt) THEN Entries([k \in 1 .. n |-> One * (((k - 1) % 9) - 4)]) ELSE xopt

f_rastrigin_cons_bbob_problem_allocate(function, n, instance, rseed) ==
  transform_obj_shift(Shifted(f_rastrigin_allocate(n), f_rastrigin_cons_compute_xopt(rseed, n)),
                      bbob2009_compute_fopt(function, instance))

f_rastrigin_rotated_cons_bbob_problem_allocate(function, n, instance, rseed) ==
  transform_obj_shift(
    Linear(Shifted(f_rastrigin_allocate(n), f_rastrigin_cons_compute_xopt(rseed, n)), Rotation(rseed, 1, n)),
    bbob2009_compute_fopt(function, instance))

----------------------------------------------------------------------------
(* An objective with its constraints. *)

\* The constraints for the gradient of the objective at the origin.
WithConstraints(problem, suite_name, function, instance) ==
  LET zeros == Constant(problem.n, 0)
      direction == feasible_direction_set_length(bbob_evaluate_gradient(problem, zeros))
  IN SetBest(
       StackedUpon(problem,
         c_linear_cons_bbob_problem_allocate(suite_name, function, problem.n, instance,
           nb_of_linear_constraints(function, problem.n), direction)), zeros)

\* Mutated: calls the function that counts, and keeps the count.
BestValueCounted(problem) == BestOf(coco_evaluate_function(problem, problem.bestx, NoVersatile))

\* The best value is that of the best parameter; the evaluation is not counted.
BestValueKnown(problem) ==
  [BestValueRecomputed(problem) EXCEPT !.evaluations = 0, !.evaluations_constraints = 0]

f_sphere_c_linear_cons_bbob_problem_allocate(suite_name, function, n, instance, rseed, xopt) ==
  Shifted(BestValueKnown(
    WithConstraints(f_sphere_bbob_problem_allocate(function, n, instance, rseed, FALSE),
                    suite_name, function, instance)), xopt)

f_ellipsoid_c_linear_cons_bbob_problem_allocate(suite_name, function, n, instance, rseed, xopt) ==
  Shifted(transform_vars_oscillate(BestValueKnown(
    WithConstraints(f_ellipsoid_cons_bbob_problem_allocate(function, n, instance, rseed),
                    suite_name, function, instance))), xopt)

f_ellipsoid_rotated_c_linear_cons_bbob_problem_allocate(suite_name, function, n, instance, rseed, xopt) ==
  Shifted(transform_vars_oscillate(BestValueKnown(
    WithConstraints(f_ellipsoid_rotated_cons_bbob_problem_allocate(function, n, instance, rseed),
                    suite_name, function, instance))), xopt)

\* Only the constraints are shifted, and the value is that of the new optimum.
f_linear_slope_c_linear_cons_bbob_problem_allocate(suite_name, function, n, instance, rseed, xopt) ==
  BestValueKnown(transform_vars_shift(
    WithConstraints(f_linear_slope_bbob_problem_allocate(function, n, instance, rseed, FALSE),
                    suite_name, function, instance), xopt, TRUE))

f_discus_c_linear_cons_bbob_problem_allocate(suite_name, function, n, instance, rseed, xopt) ==
  Shifted(transform_vars_oscillate(BestValueKnown(
    WithConstraints(f_discus_cons_bbob_problem_allocate(function, n, instance, rseed),
                    suite_name, function, instance))), xopt)

f_bent_cigar_c_linear_cons_bbob_problem_allocate(suite_name, function, n, instance, rseed, xopt) ==
  Shifted(transform_vars_asymmetric(BestValueKnown(
    WithConstraints(f_bent_cigar_cons_bbob_problem_allocate(function, n, instance, rseed),
                    suite_name, function, instance)), 5), xopt)

f_different_powers_c_linear_cons_bbob_problem_allocate(suite_name, function, n, instance, rseed, xopt) ==
  Shifted(BestValueKnown(
    WithConstraints(f_different_powers_bbob_constrained_problem_allocate(function, n, instance, rseed),
                    suite_name, function, instance)), xopt)

f_rastrigin_c_linear_cons_bbob_problem_allocate(suite_name, function, n, instance, rseed, xopt) ==
  Shifted(transform_vars_oscillate(transform_vars_asymmetric(BestValueKnown(
    WithConstraints(f_rastrigin_cons_bbob_problem_allocate(function, n, instance, rseed),
                    suite_name, function, instance)), 5)), xopt)

f_rastrigin_rotated_c_linear_cons_bbob_problem_allocate(suite_name, function, n, instance, rseed, xopt) ==
  Shifted(transform_vars_oscillate(transform_vars_asymmetric(BestValueKnown(
    WithConstraints(f_rastrigin_rotated_cons_bbob_problem_allocate(function, n, instance, rseed),
                    suite_name, function, instance)), 5)), xopt)

=============================================================================
