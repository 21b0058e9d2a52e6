---------------------------- MODULE CocoProblem ----------------------------
(***************************************************************************)
(* coco_problem_t and the transformations that wrap one problem in another *)
(* (src/native/coco.c).  A problem is a tree of records: a raw function, a *)
(* transformed problem around an inner one, or two problems stacked into   *)
(* one.  Every record keeps what the code keeps for it: the optimum it     *)
(* declares (bestx, besty), its bounds, its initial solution, and its own  *)
(* counters, of which only the outermost ones are visible.                 *)
(*                                                                         *)
(* Evaluating returns the problem with its counters advanced (p), the      *)
(* objective values (y) and whether every assertion of the code on the way *)
(* held (ok): each layer asserts that it never returns less than the best  *)
(* value it declares, for feasible points when there are constraints.      *)
(* Names and identifiers are left out, except that the Schwefel function   *)
(* is recognised by its.                                                   *)
(***************************************************************************)
EXTENDS CocoRaw

coco_problem_allocate(kind, arg, n, noo, nocons) ==
  [kind |-> kind, arg |-> arg, inner |-> << >>, n |-> n, noo |-> noo, nocons |-> nocons,
   lower |-> Constant(n, 0), upper |-> Constant(n, 0), integers |-> 0,
   bestx |-> NaN, besty |-> Constant(IF noo > 1 THEN noo ELSE 1, 0), nadir |-> << >>,
   initial |-> NaN,
   evaluations |-> 0, evaluations_constraints |-> 0,
   best_observed |-> DBL_MAX, best_observed_evaluation |-> 0]

coco_problem_allocate_from_scalars(kind, arg, n, best_parameter) ==
  [coco_problem_allocate(kind, arg, n, 1, 0) EXCEPT
     !.lower = Constant(n, -Bound), !.upper = Constant(n, Bound),
     !.bestx = Constant(n, best_parameter)]

\* A duplicate copies the counters too; its data stay behind.
coco_problem_duplicate(other) == other

coco_problem_transformed_allocate(inner, kind, arg) ==
  [coco_problem_duplicate(inner) EXCEPT !.kind = kind, !.arg = arg, !.inner = <<inner>>]

coco_problem_get_initial_solution(p) ==
  IF p.initial # NaN THEN p.initial
  ELSE Entries([i \in 1 .. p.n |->
         LET centre == p.lower[i] + (p.upper[i] - p.lower[i]) \div 2
         IN IF i <= p.integers THEN coco_double_round(centre) ELSE centre])

FinalTargetDelta == 0               \* 1e-8, less than any difference of two values
coco_problem_final_target_hit(p) ==
  /\ p.noo = 1
  /\ p.evaluations >= 1
  /\ p.best_observed <= p.besty[1] + FinalTargetDelta

----------------------------------------------------------------------------
(* What the evaluate function of each transformation hands to the inner    *)
(* problem, and what it makes of the value that comes back.                *)

transform_obj_power_evaluate(k, exponent) ==     \* exponent 2, or 0.9: a smaller step up
  IF exponent = 2 THEN k * k ELSE k - k \div 10
transform_obj_norm_by_dim_evaluate(k, n) == IF n <= MaxBlockSize THEN k ELSE Quotient(k, 2)

transform_obj_penalize_evaluate(p, x, k) ==
  k + p.arg * Total([i \in 1 .. p.n |->
        LET c1 == x[i] - p.upper[i]
            c2 == p.lower[i] - x[i]
        IN IF c1 > 0 THEN c1 * c1 ELSE IF c2 > 0 THEN c2 * c2 ELSE 0])

transform_vars_affine_evaluate_function(p, x) == Plus(Apply(p.arg.M, x), p.arg.b)
transform_vars_shift_evaluate_function(p, x) == Minus(x, p.arg.offset)
transform_vars_scale_evaluate(p, x) == Times(p.arg, x)
transform_vars_permutation_evaluate(p, x) == Entries([i \in 1 .. p.n |-> x[p.arg[i]]])
transform_vars_inverse_permutation_evaluate(p, x) ==
  Entries([i \in 1 .. p.n |-> x[CHOOSE j \in 1 .. p.n : p.arg[j] = i]])
transform_vars_blockrotation_evaluate(p, x) == transform_vars_blockrotation_apply(p.arg, x)
transform_vars_conditioning_evaluate(p, x) ==
  Entries([i \in 1 .. p.n |-> Condition(p.arg, i, p.n) * x[i]])

\* The first coordinate keeps its value, the others are raised when positive.
transform_vars_asymmetric_evaluate_function(p, x) ==
  Entries([i \in 1 .. p.n |-> IF i > 1 /\ x[i] > 0 THEN x[i] + x[i] \div p.arg ELSE x[i]])
transform_vars_oscillate_evaluate_function(p, x) == Entries([i \in 1 .. p.n |-> Oscillate(x[i])])

transform_vars_brs_evaluate(p, x) ==
  Entries([i \in 1 .. p.n |-> Condition(10, i, p.n) * (IF x[i] > 0 /\ i % 2 = 1 THEN 10 ELSE 1) * x[i]])

transform_vars_z_hat_evaluate(p, x) ==
  Entries([i \in 1 .. p.n |->
    IF i = 1 THEN x[1] ELSE x[i] + Quotient(x[i - 1] - 2 * Abs(p.arg[i - 1]), 4)])

XHatSigns(seed, n) ==
  LET r == bbob2009_unif(n, seed) IN Entries([i \in 1 .. n |-> IF r[i] < 1073741824 THEN -1 ELSE 1])
transform_vars_x_hat_evaluate(p, x) == Entries([i \in 1 .. p.n |-> XHatSigns(p.arg, p.n)[i] * x[i]])
transform_vars_x_hat_generic_evaluate(p, x) == Entries([i \in 1 .. p.n |-> 2 * p.arg[i] * x[i]])

RoundStep(k) == IF 2 * Abs(k) > One THEN coco_double_round(k) ELSE k
transform_vars_round_step_evaluate(p, x) == Entries([i \in 1 .. p.n |-> RoundStep(x[i])])

\* The inner grid of an integer coordinate: its n values divide the inner
\* interval into n + 1 equal parts.
GridStep(p, i) ==
  LET values == (p.upper[i] - p.lower[i]) \div One + 1
  IN (p.inner[1].upper[i] - p.inner[1].lower[i]) \div (values + 1)
GridPoint(p, i, k) == p.inner[1].lower[i] + GridStep(p, i) * (1 + (k - p.lower[i]) \div One)
Clamp(k, l, u) == IF k < l THEN l ELSE IF k > u THEN u ELSE k

transform_vars_discretize_evaluate_function(p, x) ==
  Entries([i \in 1 .. p.n |->
    IF i > p.integers THEN x[i]
    ELSE GridPoint(p, i, Clamp(coco_double_round(x[i]), p.lower[i], p.upper[i])) - p.arg[i]])

c_linear_single_evaluate(p, x) ==
  Entries([i \in 1 .. p.n |-> p.arg.gradient[i] * (x[i] - p.arg.x_shift * Sign(p.arg.gradient[i]))])

Inward(p, x) ==
  CASE p.kind = "affine"       -> transform_vars_affine_evaluate_function(p, x)
    [] p.kind = "shift"        -> IF p.arg.shift_constraint_only THEN x
                                  ELSE transform_vars_shift_evaluate_function(p, x)
    [] p.kind = "scale"        -> transform_vars_scale_evaluate(p, x)
    [] p.kind = "permutation"  -> transform_vars_permutation_evaluate(p, x)
    [] p.kind = "inverse_permutation" -> transform_vars_inverse_permutation_evaluate(p, x)
    [] p.kind = "blockrotation" -> transform_vars_blockrotation_evaluate(p, x)
    [] p.kind = "conditioning" -> transform_vars_conditioning_evaluate(p, x)
    [] p.kind = "asymmetric"   -> transform_vars_asymmetric_evaluate_function(p, x)
    [] p.kind = "oscillate"    -> transform_vars_oscillate_evaluate_function(p, x)
    [] p.kind = "brs"          -> transform_vars_brs_evaluate(p, x)
    [] p.kind = "z_hat"        -> transform_vars_z_hat_evaluate(p, x)
    [] p.kind = "x_hat"        -> transform_vars_x_hat_evaluate(p, x)
    [] p.kind = "x_hat_generic" -> transform_vars_x_hat_generic_evaluate(p, x)
    [] p.kind = "round_step"   -> transform_vars_round_step_evaluate(p, x)
    [] p.kind = "discretize"   -> transform_vars_discretize_evaluate_function(p, x)
    [] OTHER -> x

\* How constraints see the point: a shift of the constraints alone shows, and
\* a linear constraint has its gradient.
transform_vars_affine_evaluate_constraint(p, x) == transform_vars_affine_evaluate_function(p, x)
transform_vars_shift_evaluate_constraint(p, x) == Minus(x, p.arg.offset)
transform_vars_asymmetric_evaluate_constraint(p, x) == transform_vars_asymmetric_evaluate_function(p, x)
transform_vars_oscillate_evaluate_constraint(p, x) == transform_vars_oscillate_evaluate_function(p, x)
InwardConstraint(p, x) ==
  CASE p.kind = "shift"      -> transform_vars_shift_evaluate_constraint(p, x)
    [] p.kind = "asymmetric" -> transform_vars_asymmetric_evaluate_constraint(p, x)
    [] p.kind = "oscillate"  -> transform_vars_oscillate_evaluate_constraint(p, x)
    [] p.kind = "affine"     -> transform_vars_affine_evaluate_constraint(p, x)
    [] p.kind = "linear"     -> c_linear_single_evaluate(p, x)
    [] OTHER                 -> x

Outward(p, x, k) ==
  CASE p.kind = "obj_oscillate"   -> Oscillate(k)
    [] p.kind = "obj_power"       -> transform_obj_power_evaluate(k, p.arg)
    [] p.kind = "obj_shift"       -> k + p.arg
    [] p.kind = "obj_scale"       -> k * p.arg
    [] p.kind = "obj_norm_by_dim" -> transform_obj_norm_by_dim_evaluate(k, p.n)
    [] p.kind = "obj_penalize"    -> transform_obj_penalize_evaluate(p, x, k)
    [] OTHER -> k

\* The hidden state (versatile_data) that a layer writes for the raw function.
Versatile(p, x, v) ==
  CASE p.kind = "round_step"    -> [v EXCEPT !.zhat_1 = Abs(x[1]) * p.n]
    [] p.kind = "x_hat_generic" -> [v EXCEPT !.x_hat = transform_vars_x_hat_generic_evaluate(p, x)]
    [] OTHER -> v
NoVersatile == [zhat_1 |-> 0, x_hat |-> NaN]

----------------------------------------------------------------------------
(* Evaluation.  The functions call each other down the tree. *)

RawFunction(p, x) ==
  CASE p.kind \in {"sphere", "sub_sphere"} -> f_sphere_raw(x)
    [] p.kind = "ellipsoid"            -> f_ellipsoid_raw(x)
    [] p.kind = "rastrigin"            -> f_rastrigin_raw(x)
    [] p.kind = "bueche_rastrigin"     -> f_bueche_rastrigin_raw(x)
    [] p.kind = "linear_slope"         -> f_linear_slope_raw(x, p.bestx)
    [] p.kind = "attractive_sector"    -> f_attractive_sector_raw(x, p.arg)
    [] p.kind = "step_ellipsoid"       -> f_step_ellipsoid_raw(x, p.arg)
    [] p.kind = "rosenbrock"           -> f_rosenbrock_raw(x)
    [] p.kind = "discus"               -> f_discus_raw(x)
    [] p.kind = "bent_cigar"           -> f_bent_cigar_raw(x)
    [] p.kind = "sharp_ridge"          -> f_sharp_ridge_raw(x)
    [] p.kind = "different_powers"     -> f_different_powers_raw(x)
    [] p.kind = "weierstrass"          -> f_weierstrass_raw(x)
    [] p.kind = "schaffers"            -> f_schaffers_raw(x)
    [] p.kind = "griewank_rosenbrock"  -> f_griewank_rosenbrock_raw(x)
    [] p.kind = "schwefel"             -> f_schwefel_raw(x)
    [] p.kind = "gallagher"            -> f_gallagher_raw(x, p.arg)
    [] p.kind = "katsuura"             -> f_katsuura_raw(x)
    [] p.kind = "lunacek_bi_rastrigin" -> f_lunacek_bi_rastrigin_raw(x, p.arg)
    [] p.kind = "bent_cigar_generalized"  -> f_bent_cigar_generalized_raw(x)
    [] p.kind = "discus_generalized"      -> f_discus_generalized_raw(x)
    [] p.kind = "sharp_ridge_generalized" -> f_sharp_ridge_generalized_raw(x)
    [] p.kind = "schwefel_generalized"    -> f_schwefel_generalized_raw(x)

Constraints(p) == p.nocons > 0
Result(p, y, ok) == [p |-> p, y |-> y, ok |-> ok]
Feasible(c) == \A i \in DOMAIN c : c[i] <= 0

RECURSIVE coco_evaluate_function(_, _, _), evaluate_function(_, _, _),
          coco_evaluate_constraint(_, _), evaluate_constraint(_, _)

\* Whether x satisfies the constraints; asks the problem's own function, so
\* that only the counters below it advance.
Judged(c) == Result(c.p, c.y, Feasible(c.y))
coco_is_feasible(p, x) ==
  IF ~ coco_vector_isfinite(x) THEN Result(p, << >>, FALSE)
  ELSE IF ~ Constraints(p) THEN Result(p, << >>, TRUE)
  ELSE Judged(evaluate_constraint(p, x))

\* The assertion at the end of an evaluate function: f says whether the point
\* is feasible.
Asserted(f, y, ok) == Result(f.p, y, ok /\ (f.ok => y[1] >= f.p.besty[1]))

RawValue(p, x, v) ==
  CASE p.kind = "gallagher_core" ->
         f_gallagher_core([k \in DOMAIN p.arg |-> evaluate_function(p.arg[k], x, v).y[1]])
    [] p.kind = "lunacek_core" ->
         f_lunacek_bi_rastrigin_core(x, [k \in DOMAIN p.arg |-> evaluate_function(p.arg[k], v.x_hat, v).y[1]])
    [] p.kind = "step_ellipsoid_core" -> f_step_ellipsoid_core(x, v.zhat_1)
    [] OTHER -> RawFunction(p, x)
RawResult(p, y) == Result(p, <<y>>, p.kind = "sub_sphere" \/ y >= p.besty[1])

\* i is the result of the inner problem.
TransformedResult(p, x, i) ==
  LET y == Entries([k \in DOMAIN i.y |-> Outward(p, x, i.y[k])])
      q == [p EXCEPT !.inner = <<i.p>>]
  IN IF p.kind = "discretize" THEN Result(q, y, i.ok) ELSE Asserted(coco_is_feasible(q, x), y, i.ok)

coco_problem_transformed_evaluate_function(p, x, v) ==
  TransformedResult(p, x, coco_evaluate_function(p.inner[1], Inward(p, x), Versatile(p, x, v)))

\* The results of both parts, one after the other.
Together(p, r) ==
  Result([p EXCEPT !.inner = <<r[1].p, r[2].p>>], r[1].y \o r[2].y, r[1].ok /\ r[2].ok)
StackedResult(p, x, r) == IF Constraints(p) THEN Asserted(coco_is_feasible(r.p, x), r.y, r.ok) ELSE r

coco_problem_stacked_evaluate_function(p, x, v) ==
  StackedResult(p, x, Together(p, Entries([k \in 1 .. 2 |->
    IF p.inner[k].noo > 0 THEN coco_evaluate_function(p.inner[k], x, v)
    ELSE Result(p.inner[k], << >>, TRUE)])))

evaluate_function(p, x, v) ==
  IF p.kind = "stacked" THEN coco_problem_stacked_evaluate_function(p, x, v)
  ELSE IF p.inner = << >> THEN RawResult(p, RawValue(p, x, v))
  ELSE coco_problem_transformed_evaluate_function(p, x, v)

\* r is the result of the evaluation, f the same problem asked whether the
\* point is feasible.
Improves(r) == r.y[1] < r.p.best_observed
OneMore(r) == [r EXCEPT !.p.evaluations = @ + 1]
Remembered(r, p) ==
  [r EXCEPT !.p = [p EXCEPT !.best_observed = r.y[1], !.best_observed_evaluation = p.evaluations]]
RememberedIf(f, r) == IF f.ok THEN Remembered(r, f.p) ELSE [r EXCEPT !.p = f.p]
BestRemembered(r, x) == IF Improves(r) THEN RememberedIf(coco_is_feasible(r.p, x), r) ELSE r

\* Mutated: remembers the best value of infeasible points too.
EvaluatedWhereverItIs(p, x, v) ==
  LET Best(r) == IF Improves(r) THEN Remembered(r, r.p) ELSE r
  IN IF ~ coco_vector_isfinite(x) THEN Result(p, Constant(p.noo, INF), TRUE)
     ELSE Best(OneMore(evaluate_function(p, x, v)))

\* An infinite or undefined point is answered without evaluating, and is
\* not counted.
coco_evaluate_function(p, x, v) ==
  IF x = NaN THEN Result(p, Constant(p.noo, NotANumber), TRUE)
  ELSE IF \E i \in DOMAIN x : Abs(x[i]) >= INF THEN Result(p, Constant(p.noo, INF), TRUE)
  ELSE BestRemembered(OneMore(evaluate_function(p, x, v)), x)

coco_problem_stacked_evaluate_constraint(p, x) ==
  Together(p, Entries([k \in 1 .. 2 |->
    IF Constraints(p.inner[k]) THEN coco_evaluate_constraint(p.inner[k], x)
    ELSE Result(p.inner[k], << >>, TRUE)]))

c_sum_variables_evaluate(x) == <<Total(x)>>
WithInner(p, i) == Result([p EXCEPT !.inner = <<i.p>>], i.y, TRUE)

evaluate_constraint(p, x) ==
  IF p.kind = "stacked" THEN coco_problem_stacked_evaluate_constraint(p, x)
  ELSE IF p.kind = "sum_variables" THEN Result(p, c_sum_variables_evaluate(x), TRUE)
  ELSE WithInner(p, coco_evaluate_constraint(p.inner[1], InwardConstraint(p, x)))

coco_evaluate_constraint(p, x) ==
  IF x = NaN THEN Result(p, Constant(p.nocons, NotANumber), TRUE)
  ELSE IF \E i \in DOMAIN x : Abs(x[i]) >= INF THEN Result(p, Constant(p.nocons, INF), TRUE)
  ELSE [evaluate_constraint(p, x) EXCEPT !.p.evaluations_constraints = @ + 1]

RECURSIVE bbob_evaluate_gradient(_, _)

transform_vars_affine_evaluate_gradient(p, x) ==
  Apply(Transpose(p.arg.M),
        bbob_evaluate_gradient(p.inner[1], transform_vars_affine_evaluate_function(p, x)))
transform_vars_shift_evaluate_gradient(p, x) ==
  bbob_evaluate_gradient(p.inner[1], transform_vars_shift_evaluate_function(p, x))
transform_vars_conditioning_evaluate_gradient(p, x) ==
  transform_vars_conditioning_evaluate(p,
    bbob_evaluate_gradient(p.inner[1], transform_vars_conditioning_evaluate(p, x)))
transform_obj_scale_evaluate_gradient(p, x) == Times(p.arg, bbob_evaluate_gradient(p.inner[1], x))
bbob_problem_transformed_evaluate_gradient(p, x) == bbob_evaluate_gradient(p.inner[1], x)

bbob_evaluate_gradient(p, x) ==
  CASE p.kind = "sphere"           -> f_sphere_evaluate_gradient(x)
    [] p.kind = "ellipsoid"        -> f_ellipsoid_evaluate_gradient(x)
    [] p.kind = "rastrigin"        -> f_rastrigin_evaluate_gradient(x)
    [] p.kind = "linear_slope"     -> f_linear_slope_evaluate_gradient(p.bestx)
    [] p.kind = "discus"           -> f_discus_evaluate_gradient(x)
    [] p.kind = "bent_cigar"       -> f_bent_cigar_evaluate_gradient(x)
    [] p.kind = "different_powers" -> f_different_powers_evaluate_gradient(x)
    [] p.kind = "affine"           -> transform_vars_affine_evaluate_gradient(p, x)
    [] p.kind = "shift"            -> transform_vars_shift_evaluate_gradient(p, x)
    [] p.kind = "conditioning"     -> transform_vars_conditioning_evaluate_gradient(p, x)
    [] p.kind = "obj_scale"        -> transform_obj_scale_evaluate_gradient(p, x)
    [] OTHER                       -> bbob_problem_transformed_evaluate_gradient(p, x)

----------------------------------------------------------------------------
(* The constructors.  Each wraps a problem and says where its optimum is   *)
(* now; some forget the optimum of the inner problem (NaN) and keep the    *)
(* outdated one themselves, for a later layer to replace.                  *)

NoBest(p) == [p EXCEPT !.bestx = NaN]
ForgetsInner(p) ==
  IF coco_problem_best_parameter_not_zero(p.inner[1]) THEN [p EXCEPT !.inner[1].bestx = NaN] ELSE p

\* The best value is recomputed through the new layer.
BestOf(r) == [r.p EXCEPT !.besty = r.y]
BestValueRecomputed(p) == BestOf(evaluate_function(p, p.bestx, NoVersatile))

transform_obj_oscillate(inner) ==
  BestValueRecomputed(coco_problem_transformed_allocate(inner, "obj_oscillate", 0))
transform_obj_power(inner, exponent) ==
  BestValueRecomputed(coco_problem_transformed_allocate(inner, "obj_power", exponent))
\* Mutated: moves the values and not the best one.
ShiftedWithOldBest(inner, offset) == coco_problem_transformed_allocate(inner, "obj_shift", offset)
transform_obj_shift(inner, offset) ==
  [coco_problem_transformed_allocate(inner, "obj_shift", offset) EXCEPT
     !.besty = Entries([k \in DOMAIN @ |-> @[k] + offset])]
transform_obj_scale(inner, factor) ==
  [coco_problem_transformed_allocate(inner, "obj_scale", factor) EXCEPT
     !.besty = Entries([k \in DOMAIN @ |-> @[k] * factor])]
transform_obj_norm_by_dim(inner) == coco_problem_transformed_allocate(inner, "obj_norm_by_dim", 0)
transform_obj_penalize(inner, factor) == coco_problem_transformed_allocate(inner, "obj_penalize", factor)

transform_vars_affine(inner, M, b) ==
  LET p == coco_problem_transformed_allocate(inner, "affine", [M |-> M, b |-> b])
      moved == coco_problem_best_parameter_not_zero(inner) \/ ~ coco_vector_is_zero(b)
  IN IF moved /\ coco_is_orthogonal(M)
     THEN [p EXCEPT !.bestx = Apply(Transpose(M), Minus(inner.bestx, b))]
     ELSE p

transform_vars_shift(inner, offset, shift_constraint_only) ==
  [coco_problem_transformed_allocate(inner, "shift",
      [offset |-> offset, shift_constraint_only |-> shift_constraint_only]) EXCEPT
     !.bestx   = IF coco_is_nan(@) THEN NaN ELSE Plus(@, offset),
     !.initial = IF @ = NaN THEN NaN ELSE Plus(@, offset)]

transform_vars_scale(inner, factor) ==
  [coco_problem_transformed_allocate(inner, "scale", factor) EXCEPT
     !.bestx = Entries([i \in DOMAIN @ |-> Quotient(@[i], factor)])]

\* The optimum is left where it was: 0 for every function they are used on.
transform_vars_permutation(inner, P) == coco_problem_transformed_allocate(inner, "permutation", P)
transform_vars_inverse_permutation(inner, P) ==
  coco_problem_transformed_allocate(inner, "inverse_permutation", P)

\* Forgets the optimum before duplicating, so outside as well.
transform_vars_blockrotation(inner, B) ==
  coco_problem_transformed_allocate(
    IF coco_problem_best_parameter_not_zero(inner) THEN NoBest(inner) ELSE inner, "blockrotation", B)

transform_vars_conditioning(inner, alpha) ==
  ForgetsInner(coco_problem_transformed_allocate(inner, "conditioning", alpha))
transform_vars_brs(inner) == ForgetsInner(coco_problem_transformed_allocate(inner, "brs", 0))

\* An initial solution is shrunk, one coordinate after the other by a factor
\* of 0.9, until it is feasible again.
RECURSIVE ShrunkUntilFeasible(_, _)
ShrunkUntilFeasible(f, i) ==
  IF f.ok THEN f.p
  ELSE LET p == [f.p EXCEPT !.initial[i] = Quotient(9 * @, 10)]
       IN ShrunkUntilFeasible(coco_is_feasible(p, p.initial), (i % p.n) + 1)
InitialKeptFeasible(p) ==
  IF p.initial = NaN THEN p ELSE ShrunkUntilFeasible(coco_is_feasible(p, p.initial), 1)

transform_vars_asymmetric(inner, inverse_beta) ==
  LET Forgets(p) == IF p.noo > 0 THEN ForgetsInner(p) ELSE p
  IN Forgets(InitialKeptFeasible(coco_problem_transformed_allocate(inner, "asymmetric", inverse_beta)))
transform_vars_oscillate(inner) ==
  InitialKeptFeasible(coco_problem_transformed_allocate(inner, "oscillate", 0))

transform_vars_z_hat(inner, xopt, is_schwefel) ==
  LET p == coco_problem_transformed_allocate(inner, "z_hat", xopt)
  IN IF is_schwefel THEN p ELSE NoBest(p)
transform_vars_x_hat(inner, seed) ==
  LET p == coco_problem_transformed_allocate(inner, "x_hat", seed)
  IN IF coco_problem_best_parameter_not_zero(p)
     THEN [p EXCEPT !.bestx = Entries([i \in DOMAIN @ |-> XHatSigns(seed, p.n)[i] * @[i]])] ELSE p
transform_vars_x_hat_generic(inner, sign_vector) ==
  coco_problem_transformed_allocate(inner, "x_hat_generic", sign_vector)
transform_vars_round_step(inner) ==
  [coco_problem_transformed_allocate(inner, "round_step", 0) EXCEPT
     !.bestx = Entries([i \in DOMAIN @ |-> RoundStep(@[i])])]

\* The grid is moved so that the optimum of the inner problem is one of its
\* points: the outer optimum is the integer nearest to it.
transform_vars_discretize(inner, lower, upper, number_of_integer_variables) ==
  LET p == [coco_problem_transformed_allocate(inner, "discretize", << >>) EXCEPT
              !.lower = lower, !.upper = upper, !.integers = number_of_integer_variables]
      Nearest(i) ==
        LET steps == (inner.bestx[i] - GridPoint(p, i, lower[i])) * One
        IN Clamp(coco_double_round(lower[i] + Quotient(steps, GridStep(p, i))), lower[i], upper[i])
      bestx == Entries([i \in 1 .. p.n |->
                 IF i <= number_of_integer_variables THEN Nearest(i) ELSE inner.bestx[i]])
  IN [p EXCEPT !.bestx = bestx,
       !.arg = Entries([i \in 1 .. p.n |->
                 IF i <= number_of_integer_variables
                 THEN GridPoint(p, i, bestx[i]) - inner.bestx[i] ELSE 0])]

\* Two problems over the same variables: the objectives and the constraints
\* of the first, then those of the second.
StackedProblem(problem1, problem2, lower, upper) ==
  [coco_problem_allocate("stacked", << >>, problem1.n, problem1.noo + problem2.noo,
                         problem1.nocons + problem2.nocons) EXCEPT
     !.lower = lower, !.upper = upper, !.integers = problem1.integers,
     !.inner = <<problem1, problem2>>, !.besty = <<problem1.besty[1], problem2.besty[1]>>]
ConstrainedStack(p) ==
  [p EXCEPT !.besty = <<-DBL_MAX>>,
            !.initial = IF Constraints(p.inner[2]) THEN p.inner[2].initial ELSE NaN]
\* nadir holds the results of evaluating the parts.
WithNadir(p, nadir) ==
  [p EXCEPT !.inner = <<nadir[1].p, nadir[2].p>>, !.nadir = <<nadir[1].y[1], nadir[2].y[1]>>]

\* Mutated: each part is evaluated at its own optimum.
StackedAtOwnOptima(problem1, problem2, lower, upper) ==
  LET p == StackedProblem(problem1, problem2, lower, upper)
  IN IF Constraints(p) THEN ConstrainedStack(p)
     ELSE WithNadir(p, Entries([k \in 1 .. 2 |->
            coco_evaluate_function(p.inner[k], p.inner[k].bestx, NoVersatile)]))

coco_problem_stacked_allocate(problem1, problem2, lower, upper) ==
  LET p == StackedProblem(problem1, problem2, lower, upper)
  IN IF Constraints(p) THEN ConstrainedStack(p)
     ELSE WithNadir(p, Entries([k \in 1 .. 2 |->
            coco_evaluate_function(p.inner[k], p.inner[3 - k].bestx, NoVersatile)]))

=============================================================================
