------------------------------ MODULE CocoRaw ------------------------------
(***************************************************************************)
(* The raw functions of CoCO, before any transformation moves their        *)
(* optimum.  What is kept of each is where its minimum is, how the         *)
(* coordinates are weighted against each other and which hidden state or   *)
(* penalty it reads.  Cosines of multiples of 2 pi x are exact, a root or  *)
(* an exponential around a sum is dropped or replaced by another           *)
(* increasing function with the same zero, a condition number by Heavy or  *)
(* by the rank of the coordinate, and a positive factor in front of the    *)
(* whole by nothing.                                                       *)
(***************************************************************************)
EXTENDS CocoVectors

Heavy == 8                          \* a condition number such as 1e6
Squares(x) == Entries([i \in DOMAIN x |-> x[i] * x[i]])
Ripple(k) == k % 3                  \* 1 - cos(k): 0 at 0 and never negative
Ceiling(n, d) == n \div d + (IF n % d > 0 THEN 1 ELSE 0)

\* Squared distance by which coordinates leave the region of interest.
Outside(x) ==
  Total([i \in DOMAIN x |-> IF Abs(x[i]) > Bound THEN (Abs(x[i]) - Bound) * (Abs(x[i]) - Bound) ELSE 0])

Larger(a, b) == IF a > b THEN a ELSE b
Smaller(a, b) == IF a < b THEN a ELSE b

\* Keeps the sign and the zero, and distorts the rest.
Oscillate(k) == IF k > 0 THEN k + (k % 2) ELSE IF k < 0 THEN k - 1 ELSE 0

----------------------------------------------------------------------------
f_sphere_raw(x) == Total(Squares(x))
f_sphere_evaluate_gradient(x) == Times(2, x)

f_ellipsoid_raw(x) == coco_vector_scalar_product(Conditions(1000000, Len(x)), Squares(x))
f_ellipsoid_evaluate_gradient(x) ==
  Entries([i \in DOMAIN x |-> 2 * Condition(1000000, i, Len(x)) * x[i]])

f_rastrigin_raw(x) ==
  10 * One * One * Total([i \in DOMAIN x |-> 1 - CosTwoPi(x[i])]) + f_sphere_raw(x)
f_rastrigin_evaluate_gradient(x) ==
  Entries([i \in DOMAIN x |-> 2 * (31 * One * <<0, 1, 0, -1>>[(x[i] % 4) + 1] + x[i])])

f_bueche_rastrigin_raw(x) ==
  10 * One * One * (Len(x) - Total([i \in DOMAIN x |-> CosTwoPi(x[i])])) + f_sphere_raw(x)

\* Linear towards a corner of the region of interest, constant beyond it.
f_linear_slope_raw(x, best) ==
  LET s(i) == Condition(100, i, Len(x)) * Sign(best[i])
  IN Total([i \in DOMAIN x |->
       Bound * Abs(s(i)) - s(i) * (IF x[i] * best[i] < Bound * Bound THEN x[i] ELSE best[i])])
f_linear_slope_evaluate_gradient(best) ==
  Entries([i \in DOMAIN best |-> - Condition(100, i, Len(best)) * Sign(best[i])])

f_attractive_sector_raw(x, xopt) ==
  Total([i \in DOMAIN x |-> (IF xopt[i] * x[i] > 0 THEN Heavy ELSE 1) * x[i] * x[i]])

f_step_ellipsoid_round(k) == IF 2 * Abs(k) > One THEN coco_double_round(k) ELSE k

\* With its transformations in layers of their own the first coordinate
\* before rounding arrives through the hidden state zhat_1.
f_step_ellipsoid_core(x, zhat_1) ==
  Larger(zhat_1, One * coco_vector_scalar_product(Conditions(100, Len(x)), Squares(x)))

\* d holds xopt, fopt, rot1 and rot2: this function does its own
\* transformations and penalises the outside of the region itself.
f_step_ellipsoid_raw(x, d) ==
  LET Level(z) == f_step_ellipsoid_core(
        Apply(d.rot1, Entries([i \in DOMAIN z |-> f_step_ellipsoid_round(z[i])])), Abs(z[1]))
  IN Level(Apply(Product(Diagonal(Conditions(10, Len(x))), d.rot2), Minus(x, d.xopt)))
       + Outside(x) + d.fopt

RosenbrockTerm(x, i) ==
  LET valley == x[i] * x[i] - One * x[i + 1]
  IN 10 * valley * valley + (x[i] - One) * (x[i] - One)
f_rosenbrock_raw(x) == Total([i \in 1 .. Len(x) - 1 |-> RosenbrockTerm(x, i)])

f_griewank_rosenbrock_raw(x) ==
  Total([i \in 1 .. Len(x) - 1 |-> RosenbrockTerm(x, i) + Ripple(RosenbrockTerm(x, i))])

f_discus_raw(x) == Total(Squares(x)) + (Heavy - 1) * x[1] * x[1]
f_discus_evaluate_gradient(x) == Entries([i \in DOMAIN x |-> 2 * (IF i = 1 THEN Heavy ELSE 1) * x[i]])

f_bent_cigar_raw(x) == Heavy * Total(Squares(x)) - (Heavy - 1) * x[1] * x[1]
f_bent_cigar_evaluate_gradient(x) == Entries([i \in DOMAIN x |-> 2 * (IF i = 1 THEN 1 ELSE Heavy) * x[i]])

\* The root of the sum of squares is replaced by the sum of magnitudes.
f_sharp_ridge_raw(x) ==
  x[1] * x[1] + 100 * Total([i \in DOMAIN x |-> IF i = 1 THEN 0 ELSE Abs(x[i])])

\* Coordinate i has the exponent 2 + 4 i / (n - 1).
f_different_powers_raw(x) ==
  Total([i \in DOMAIN x |-> IF i = 1 THEN x[i] * x[i] ELSE Abs(x[i]) * x[i] * x[i]])
sign(k) == Sign(k)
f_different_powers_evaluate_gradient(x) ==
  Entries([i \in DOMAIN x |-> (IF i = 1 THEN 2 * Abs(x[i]) ELSE 3 * x[i] * x[i]) * sign(x[i])])

\* Three of the twelve summands.
f_weierstrass_raw(x) ==
  LET Summand(k, j) == <<4, 2, 1>>[j] * CosTwoPi(<<1, 3, 9>>[j] * (k + One \div 2))
      f0 == Summand(0, 1) + Summand(0, 2) + Summand(0, 3)
      level == Total([i \in DOMAIN x |-> Summand(x[i], 1) + Summand(x[i], 2) + Summand(x[i], 3) - f0])
  IN level * level * level

f_schaffers_raw(x) ==
  Total([i \in 1 .. Len(x) - 1 |->
    LET s == x[i] * x[i] + x[i + 1] * x[i + 1] IN s + Ripple(s)])

\* x sin(sqrt |x|) over [-500, 500] is largest at 420.97: here an odd hump
\* over [-38, 38] with its top at SchwefelPeak.
SchwefelPeak == 8 * One
SchwefelHump(k) == Sign(k) * (SchwefelPeak - Abs(Abs(k) - SchwefelPeak))
f_schwefel_raw(x) ==
  Total([i \in DOMAIN x |->
    LET far == IF Abs(x[i]) > 38 THEN Abs(x[i]) - 38 ELSE 0
    IN far * far + SchwefelPeak - SchwefelHump(x[i])])

\* A bell of height w around a peak at squared distance d.
Bell(w, d) == w \div (1 + d)
PeakHeight(k, peaks) == IF k = 1 THEN 40 ELSE 4 + (28 * k) \div peaks

\* ys are the values of the sub-problems, one sphere per peak, in whose
\* highest bell the point lies.
f_gallagher_core(ys) ==
  LET Height(k) == Bell(PeakHeight(k, Len(ys)), ys[k])
      best == CHOOSE k \in DOMAIN ys : \A j \in DOMAIN ys : Height(k) >= Height(j)
  IN PeakHeight(1, Len(ys)) - Height(best)

\* d holds the rotation, the peaks (rotated) and their scales.
f_gallagher_raw(x, d) ==
  LET Distances(tmx) == [k \in DOMAIN d.x_local |->
        coco_vector_scalar_product(d.arr_scales[k], Squares(Minus(tmx, d.x_local[k])))]
      Square(k) == k * k
  IN Square(Oscillate(f_gallagher_core(Entries(Distances(Apply(d.rotation, x)))))) + Outside(x)

\* In quarter units 2^j x is half-integral for j = 1 at most.
f_katsuura_raw(x) ==
  LET product[i \in 0 .. Len(x)] ==
        IF i = 0 THEN 1 ELSE product[i - 1] * (1 + i * (x[i] % 2))
  IN product[Len(x)] - 1

mu0 == 10                           \* 2.5
mu1 == -10                          \* -sqrt((mu0^2 - d) / s)

LunacekBowls(n, x_hat) ==
  Smaller(f_sphere_raw(Minus(x_hat, Constant(n, mu0))),
          n * One * One + f_sphere_raw(Minus(x_hat, Constant(n, mu1))))
LunacekRipples(z) == 10 * One * One * Total([i \in DOMAIN z |-> 1 - CosTwoPi(z[i])])

\* d holds xopt, rot1 and rot2.
f_lunacek_bi_rastrigin_raw(x, d) ==
  LET n == Len(x)
      Valley(x_hat) == LunacekBowls(n, x_hat) + LunacekRipples(
        Apply(d.rot1, Apply(Product(Diagonal(Conditions(100, n)), d.rot2), Minus(x_hat, Constant(n, mu0)))))
  IN Valley(Entries([i \in 1 .. n |-> 2 * x[i] * (IF d.xopt[i] < 0 THEN -1 ELSE 1)])) + 100 * Outside(x)

\* ys are the values of the two sub-problems at the hidden x_hat.
f_lunacek_bi_rastrigin_core(x, ys) == LunacekRipples(x) + Smaller(ys[1], ys[2])

----------------------------------------------------------------------------
(* The large-scale variants: one special coordinate in MaxBlockSize (40). *)

Special(n) == Ceiling(n, MaxBlockSize)

f_bent_cigar_generalized_raw(x) ==
  Total([i \in DOMAIN x |-> (IF i <= Special(Len(x)) THEN 1 ELSE Heavy) * x[i] * x[i]])
f_discus_generalized_raw(x) ==
  Total([i \in DOMAIN x |-> (IF i <= Special(Len(x)) THEN Heavy ELSE 1) * x[i] * x[i]])
f_sharp_ridge_generalized_raw(x) ==
  Total([i \in DOMAIN x |-> IF i <= Special(Len(x)) THEN x[i] * x[i] ELSE 100 * Abs(x[i])])
f_schwefel_generalized_raw(x) == f_schwefel_raw(x)

=============================================================================
