--------------------------- MODULE CocoFunctions ---------------------------
(***************************************************************************)
(* The test functions of CoCO (src/native/coco.c): for each the raw        *)
(* problem and the chains of transformations that make the problem of a    *)
(* suite out of it.  Nested calls are read from the inside out: the        *)
(* innermost transformation is the nearest to the raw function.  The       *)
(* permblockdiag variants replace every rotation matrix by a block         *)
(* diagonal one between two permutations.                                  *)
(***************************************************************************)
EXTENDS CocoProblem

\* The best value of a raw problem is the value of its best parameter.
RawProblem(kind, arg, best, value) ==
  [coco_problem_allocate_from_scalars(kind, arg, Len(best), 0) EXCEPT !.bestx = best, !.besty = <<value>>]
\* The best parameter has the same value in every coordinate.
RawUniform(kind, n, best, value) == RawProblem(kind, 0, Constant(n, best), value)

f_sphere_allocate(n)            == RawUniform("sphere", n, 0, f_sphere_raw(Constant(n, 0)))
f_ellipsoid_allocate(n)         == RawUniform("ellipsoid", n, 0, f_ellipsoid_raw(Constant(n, 0)))
f_rastrigin_allocate(n)         == RawUniform("rastrigin", n, 0, f_rastrigin_raw(Constant(n, 0)))
f_bueche_rastrigin_allocate(n)  == RawUniform("bueche_rastrigin", n, 0, f_bueche_rastrigin_raw(Constant(n, 0)))
f_attractive_sector_allocate(n, xopt) == 
  RawProblem("attractive_sector", xopt, Constant(n, 0), f_attractive_sector_raw(Constant(n, 0), xopt))
f_rosenbrock_allocate(n)        == RawUniform("rosenbrock", n, One, f_rosenbrock_raw(Constant(n, One)))
f_discus_allocate(n)            == RawUniform("discus", n, 0, f_discus_raw(Constant(n, 0)))
f_bent_cigar_allocate(n)        == RawUniform("bent_cigar", n, 0, f_bent_cigar_raw(Constant(n, 0)))
f_sharp_ridge_allocate(n)       == RawUniform("sharp_ridge", n, 0, f_sharp_ridge_raw(Constant(n, 0)))
f_different_powers_allocate(n)  == RawUniform("different_powers", n, 0, f_different_powers_raw(Constant(n, 0)))
f_weierstrass_allocate(n)       == RawUniform("weierstrass", n, 0, f_weierstrass_raw(Constant(n, 0)))
f_schaffers_allocate(n)         == RawUniform("schaffers", n, 0, f_schaffers_raw(Constant(n, 0)))
f_griewank_rosenbrock_allocate(n) == RawUniform("griewank_rosenbrock", n, One, f_griewank_rosenbrock_raw(Constant(n, One)))
f_schwefel_allocate(n)          == RawUniform("schwefel", n, SchwefelPeak, f_schwefel_raw(Constant(n, SchwefelPeak)))
f_katsuura_allocate(n)          == RawUniform("katsuura", n, 0, f_katsuura_raw(Constant(n, 0)))
f_step_ellipsoid_allocate(n) ==
  coco_problem_allocate_from_scalars("step_ellipsoid_core", 0, n, 0)
f_bent_cigar_generalized_allocate(n)  == RawUniform("bent_cigar_generalized", n, 0, f_bent_cigar_generalized_raw(Constant(n, 0)))
f_discus_generalized_allocate(n)      == RawUniform("discus_generalized", n, 0, f_discus_generalized_raw(Constant(n, 0)))
f_sharp_ridge_generalized_allocate(n) == RawUniform("sharp_ridge_generalized", n, 0, f_sharp_ridge_generalized_raw(Constant(n, 0)))
f_schwefel_generalized_allocate(n) ==
  RawUniform("schwefel_generalized", n, SchwefelPeak, f_schwefel_generalized_raw(Constant(n, SchwefelPeak)))

\* The corner of the region of interest on the side of xopt.
f_linear_slope_allocate(n, xopt) ==
  LET best == Entries([i \in 1 .. n |-> IF xopt[i] < 0 THEN -Bound ELSE Bound])
  IN RawProblem("linear_slope", 0, best, f_linear_slope_raw(best, best))

----------------------------------------------------------------------------
(* What the chains share.  k numbers the seeds: rseed + k * 1000000. *)

Rotation(rseed, k, n) == bbob2009_compute_rotation(rseed + k * 1000000, n)
Blocks(rseed, k, n) == coco_compute_blockrotation(rseed + k * 1000000, n)
\* rot1 * diag(conditions) * rot2: not orthogonal.
Conditioned(alpha, rseed, n) ==
  Product(Rotation(rseed, 1, n), Product(Diagonal(Conditions(alpha, n)), Rotation(rseed, 0, n)))
Linear(p, M) == transform_vars_affine(p, M, Constant(p.n, 0))

\* P2, then the blocks, then P1.
Permuted(p, k2, B, k1, rseed) ==
  transform_vars_permutation(
    transform_vars_blockrotation(
      transform_vars_permutation(p, Swaps(rseed + k2 * 1000000, p.n)), B),
    Swaps(rseed + k1 * 1000000, p.n))

Shifted(p, xopt) == transform_vars_shift(p, xopt, FALSE)
\* Functions of both suites are normalised in the large-scale one alone.
Normed(p, large) == IF large THEN transform_obj_norm_by_dim(p) ELSE p
SetBest(p, x) == [p EXCEPT !.bestx = x]

----------------------------------------------------------------------------
(* bbob *)

f_sphere_bbob_problem_allocate(function, n, instance, rseed, large) ==
  transform_obj_shift(
    Normed(Shifted(f_sphere_allocate(n), bbob2009_compute_xopt(rseed, n)), large),
    bbob2009_compute_fopt(function, instance))

f_ellipsoid_bbob_problem_allocate(function, n, instance, rseed, large) ==
  transform_obj_shift(
    Normed(Shifted(transform_vars_oscillate(f_ellipsoid_allocate(n)),
                   bbob2009_compute_xopt(rseed, n)), large),
    bbob2009_compute_fopt(function, instance))

f_rastrigin_bbob_problem_allocate(function, n, instance, rseed, large) ==
  transform_obj_shift(
    Normed(Shifted(
      transform_vars_oscillate(transform_vars_asymmetric(
        transform_vars_conditioning(f_rastrigin_allocate(n), 10), 5)),
      bbob2009_compute_xopt(rseed, n)), large),
    bbob2009_compute_fopt(function, instance))

\* Every second coordinate of the optimum is positive.
f_bueche_rastrigin_bbob_problem_allocate(function, n, instance, rseed, large) ==
  LET x == bbob2009_compute_xopt(rseed, n)
      xopt == Entries([i \in 1 .. n |-> IF i % 2 = 1 THEN Abs(x[i]) ELSE x[i]])
  IN transform_obj_penalize(
       transform_obj_shift(
         Normed(Shifted(transform_vars_oscillate(transform_vars_brs(f_bueche_rastrigin_allocate(n))), xopt), large),
         bbob2009_compute_fopt(function, instance)), 100)

f_linear_slope_bbob_problem_allocate(function, n, instance, rseed, large) ==
  transform_obj_shift(
    Normed(f_linear_slope_allocate(n, bbob2009_compute_xopt(rseed, n)), large),
    bbob2009_compute_fopt(function, instance))

f_attractive_sector_bbob_problem_allocate(function, n, instance, rseed) ==
  LET xopt == bbob2009_compute_xopt(rseed, n)
  IN Shifted(Linear(
       transform_obj_shift(
         transform_obj_power(transform_obj_oscillate(f_attractive_sector_allocate(n, xopt)), 9),
         bbob2009_compute_fopt(function, instance)), Conditioned(10, rseed, n)), xopt)

\* The best value is set, not evaluated.
f_step_ellipsoid_bbob_problem_allocate(function, n, instance, rseed) ==
  LET xopt == bbob2009_compute_xopt(rseed, n)
      fopt == bbob2009_compute_fopt(function, instance)
      data == [xopt |-> xopt, fopt |-> fopt,
               rot1 |-> Rotation(rseed, 1, n), rot2 |-> Rotation(rseed, 0, n)]
  IN [coco_problem_allocate_from_scalars("step_ellipsoid", data, n, 0) EXCEPT
        !.bestx = xopt, !.besty = <<fopt>>]

\* max(1, sqrt(n) / 8), 1 up to 64 dimensions.
RosenbrockFactor(n) == IF n <= 64 THEN 1 ELSE 2
ThreeQuarters(x) == Entries([i \in DOMAIN x |-> Quotient(3 * x[i], 4)])

f_rosenbrock_bbob_problem_allocate(function, n, instance, rseed, large) ==
  LET size == IF large THEN coco_rotation_matrix_block_size(n) ELSE n
  IN transform_obj_shift(
       Normed(Shifted(
         transform_vars_scale(Shifted(f_rosenbrock_allocate(n), Constant(n, -One)), RosenbrockFactor(size)),
         ThreeQuarters(bbob2009_compute_xopt(rseed, n))), large),
       bbob2009_compute_fopt(function, instance))

\* The optimum rot' * (1/2, ..., 1/2) is set by hand.
f_rosenbrock_rotated_bbob_problem_allocate(function, n, instance, rseed) ==
  LET rot == Rotation(rseed, 0, n)
      half == Constant(n, One \div 2)
      M == Entries([i \in 1 .. n |-> Times(RosenbrockFactor(n), rot[i])])
  IN SetBest(
       transform_obj_shift(
         transform_vars_affine(SetBest(f_rosenbrock_allocate(n), Constant(n, 0)), M, half),
         bbob2009_compute_fopt(function, instance)),
       Apply(Transpose(rot), half))

f_ellipsoid_rotated_bbob_problem_allocate(function, n, instance, rseed) ==
  transform_obj_shift(
    Shifted(Linear(transform_vars_oscillate(f_ellipsoid_allocate(n)), Rotation(rseed, 1, n)),
            bbob2009_compute_xopt(rseed, n)),
    bbob2009_compute_fopt(function, instance))

f_discus_bbob_problem_allocate(function, n, instance, rseed) ==
  transform_obj_shift(
    Shifted(Linear(transform_vars_oscillate(f_discus_allocate(n)), Rotation(rseed, 1, n)),
            bbob2009_compute_xopt(rseed, n)),
    bbob2009_compute_fopt(function, instance))

\* The optimum is drawn with the seed of the rotation.
f_bent_cigar_bbob_problem_allocate(function, n, instance, rseed) ==
  LET rot == Rotation(rseed, 1, n)
  IN Shifted(
       Linear(transform_vars_asymmetric(
         Linear(transform_obj_shift(f_bent_cigar_allocate(n), bbob2009_compute_fopt(function, instance)), rot), 2), rot),
       bbob2009_compute_xopt(rseed + 1000000, n))

f_sharp_ridge_bbob_problem_allocate(function, n, instance, rseed) ==
  Shifted(
    Linear(transform_obj_shift(f_sharp_ridge_allocate(n), bbob2009_compute_fopt(function, instance)),
           Conditioned(10, rseed, n)),
    bbob2009_compute_xopt(rseed, n))

f_different_powers_bbob_problem_allocate(function, n, instance, rseed) ==
  Shifted(
    Linear(transform_obj_shift(f_different_powers_allocate(n), bbob2009_compute_fopt(function, instance)),
           Rotation(rseed, 1, n)),
    bbob2009_compute_xopt(rseed, n))

f_rastrigin_rotated_bbob_problem_allocate(function, n, instance, rseed) ==
  Shifted(
    Linear(transform_vars_oscillate(transform_vars_asymmetric(
      Linear(transform_obj_shift(f_rastrigin_allocate(n), bbob2009_compute_fopt(function, instance)),
             Conditioned(10, rseed, n)), 5)), Rotation(rseed, 1, n)),
    bbob2009_compute_xopt(rseed, n))

\* Coordinates are flattened: the condition number is below 1.
f_weierstrass_bbob_problem_allocate(function, n, instance, rseed) ==
  transform_obj_penalize(
    Shifted(
      Linear(transform_vars_oscillate(
        Linear(transform_obj_shift(f_weierstrass_allocate(n), bbob2009_compute_fopt(function, instance)),
               Conditioned(0, rseed, n))), Rotation(rseed, 1, n)),
      bbob2009_compute_xopt(rseed, n)), Ceiling(10, n))

f_schaffers_bbob_problem_allocate(function, n, instance, rseed, conditioning) ==
  transform_obj_penalize(
    Shifted(
      Linear(transform_vars_asymmetric(
        Linear(transform_obj_shift(f_schaffers_allocate(n), bbob2009_compute_fopt(function, instance)),
               Product(Diagonal(Conditions(conditioning, n)), Rotation(rseed, 0, n))), 2),
        Rotation(rseed, 1, n)),
      bbob2009_compute_xopt(rseed, n)), 10)

f_griewank_rosenbrock_bbob_problem_allocate(function, n, instance, rseed) ==
  LET rot == Rotation(rseed, 0, n)
      half == Constant(n, One \div 2)
      M == Entries([i \in 1 .. n |-> Times(RosenbrockFactor(n), rot[i])])
      p == transform_obj_shift(f_griewank_rosenbrock_allocate(n), bbob2009_compute_fopt(function, instance))
  IN SetBest(Linear(SetBest(Shifted(p, Times(-1, half)), Constant(n, 0)), M), Apply(Transpose(rot), half))

\* The transformations from the raw Schwefel function (its 4.2096 is 4, its
\* scale of 100 is 2) to the optimum +-2.1 in every coordinate.
SchwefelChain(raw, n, rseed, fopt) ==
  LET xopt == Times(SchwefelPeak \div 4, XHatSigns(rseed, n))
      twice == Constant(n, 2 * (SchwefelPeak \div 4))
  IN transform_obj_shift(
       transform_vars_x_hat(
         transform_vars_scale(
           transform_vars_z_hat(
             Shifted(transform_vars_conditioning(
               Shifted(transform_vars_scale(raw, 2), Times(-1, twice)), 10), twice),
             xopt, TRUE), 2), rseed), fopt)

f_schwefel_bbob_problem_allocate(function, n, instance, rseed) ==
  SchwefelChain(f_schwefel_allocate(n), n, rseed, bbob2009_compute_fopt(function, instance))

\* The peaks: where they are, the first one nearer to the centre, and how
\* their coordinates are weighted.
PeakScale == 10                     \* 101 and 21 peaks become 10 and 2
PeakAt(k, n, rseed, peaks) ==
  LET r == bbob2009_unif(n * peaks, rseed)
      y(i) == (r[(k - 1) * n + i] \div 53687092) - Bound
  IN Entries([i \in 1 .. n |-> IF k = 1 THEN Quotient(4 * y(i), 5) ELSE y(i)])
PeakOrder(k, n, rseed) == coco_compute_random_permutation(rseed + 1000 * (k - 1), n)

f_gallagher_bbob_problem_allocate(function, n, instance, rseed, number_of_peaks) ==
  LET peaks == number_of_peaks \div PeakScale
      rotation == Rotation(rseed, 0, n)
      data == [rotation |-> rotation,
               x_local |-> Entries([k \in 1 .. peaks |-> Apply(rotation, PeakAt(k, n, rseed, peaks))]),
               arr_scales |-> Entries([k \in 1 .. peaks |-> PeakOrder(k, n, rseed)])]
      best == PeakAt(1, n, rseed, peaks)
  IN transform_obj_shift(RawProblem("gallagher", data, best, f_gallagher_raw(best, data)),
                         bbob2009_compute_fopt(function, instance))

f_katsuura_bbob_problem_allocate(function, n, instance, rseed) ==
  transform_obj_penalize(
    Shifted(
      Linear(transform_obj_shift(f_katsuura_allocate(n), bbob2009_compute_fopt(function, instance)),
             Conditioned(100, rseed, n)),
      bbob2009_compute_xopt(rseed, n)), 1)

\* The signs that a Gaussian draw gives: negative where the cosine of its
\* second uniform number is.
GaussSigns(rseed, n) ==
  LET uniftmp == bbob2009_unif(2 * n, rseed)
  IN Entries([i \in 1 .. n |-> IF uniftmp[n + i] \in 536870912 .. 1610612735 THEN -1 ELSE 1])

f_lunacek_bi_rastrigin_bbob_problem_allocate(function, n, instance, rseed) ==
  LET xopt == Times(mu0 \div 2, GaussSigns(rseed, n))
      data == [xopt |-> xopt, rot1 |-> Rotation(rseed, 1, n), rot2 |-> Rotation(rseed, 0, n)]
  IN transform_obj_shift(RawProblem("lunacek_bi_rastrigin", data, xopt, f_lunacek_bi_rastrigin_raw(xopt, data)),
                         bbob2009_compute_fopt(function, instance))

----------------------------------------------------------------------------
(* bbob-largescale *)

f_attractive_sector_permblockdiag_bbob_problem_allocate(function, n, instance, rseed) ==
  LET xopt == bbob2009_compute_xopt(rseed, n)
  IN Shifted(
       Permuted(
         transform_vars_conditioning(
           Permuted(
             transform_obj_shift(
               transform_obj_power(transform_obj_oscillate(
                 transform_obj_norm_by_dim(f_attractive_sector_allocate(n, xopt))), 9),
               bbob2009_compute_fopt(function, instance)),
             5, Blocks(rseed, 1, n), 4, rseed), 10),
         3, Blocks(rseed, 0, n), 2, rseed), xopt)

f_step_ellipsoid_permblockdiag_bbob_problem_allocate(function, n, instance, rseed) ==
  LET rounded == transform_vars_round_step(
                   Permuted(f_step_ellipsoid_allocate(n), 5, Blocks(rseed, 1, n), 4, rseed))
      p == Shifted(Permuted(transform_vars_conditioning(rounded, 10), 3, Blocks(rseed, 0, n), 2, rseed),
                   bbob2009_compute_xopt(rseed, n))
  IN transform_obj_shift(transform_obj_penalize(transform_obj_norm_by_dim(p), 1),
                         bbob2009_compute_fopt(function, instance))

f_rosenbrock_permblockdiag_bbob_problem_allocate(function, n, instance, rseed) ==
  LET factor == RosenbrockFactor(coco_rotation_matrix_block_size(n))
      p == transform_vars_scale(Shifted(f_rosenbrock_allocate(n), Constant(n, -One)), factor)
  IN transform_obj_shift(
       transform_obj_norm_by_dim(
         Shifted(Permuted(p, 3, Blocks(rseed, 0, n), 2, rseed),
                 ThreeQuarters(bbob2009_compute_xopt(rseed, n)))),
       bbob2009_compute_fopt(function, instance))

\* P B P, xopt, norm and fopt around p.
PermutedShiftedNormed(p, function, instance, rseed, xseed) ==
  transform_obj_shift(
    transform_obj_norm_by_dim(
      Shifted(Permuted(p, 3, Blocks(rseed, 1, p.n), 2, rseed), bbob2009_compute_xopt(xseed, p.n))),
    bbob2009_compute_fopt(function, instance))

f_ellipsoid_permblockdiag_bbob_problem_allocate(function, n, instance, rseed) ==
  PermutedShiftedNormed(transform_vars_oscillate(f_ellipsoid_allocate(n)), function, instance, rseed, rseed)

f_discus_generalized_permblockdiag_bbob_problem_allocate(function, n, instance, rseed) ==
  PermutedShiftedNormed(transform_vars_oscillate(f_discus_generalized_allocate(n)), function, instance, rseed, rseed)

f_bent_cigar_generalized_permblockdiag_bbob_problem_allocate(function, n, instance, rseed) ==
  PermutedShiftedNormed(
    transform_vars_asymmetric(
      Permuted(f_bent_cigar_generalized_allocate(n), 3, Blocks(rseed, 1, n), 2, rseed), 2),
    function, instance, rseed, rseed + 1000000)

f_different_powers_permblockdiag_bbob_problem_allocate(function, n, instance, rseed) ==
  PermutedShiftedNormed(f_different_powers_allocate(n), function, instance, rseed, rseed)

f_sharp_ridge_generalized_permblockdiag_bbob_problem_allocate(function, n, instance, rseed) ==
  LET p == transform_vars_conditioning(
             Permuted(f_sharp_ridge_generalized_allocate(n), 4, Blocks(rseed, 1, n), 3, rseed), 10)
  IN transform_obj_shift(
       transform_obj_norm_by_dim(
         Shifted(Permuted(p, 6, Blocks(rseed, 0, n), 5, rseed), bbob2009_compute_xopt(rseed, n))),
       bbob2009_compute_fopt(function, instance))

f_rastrigin_permblockdiag_bbob_problem_allocate(function, n, instance, rseed) ==
  LET B1 == Blocks(rseed, 1, n)
      p == transform_vars_conditioning(Permuted(f_rastrigin_allocate(n), 4, B1, 3, rseed), 10)
      q == transform_vars_oscillate(transform_vars_asymmetric(
             Permuted(p, 6, Blocks(rseed, 0, n), 5, rseed), 5))
  IN transform_obj_shift(
       transform_obj_norm_by_dim(
         Shifted(Permuted(q, 4, B1, 3, rseed), bbob2009_compute_xopt(rseed, n))),
       bbob2009_compute_fopt(function, instance))

f_weierstrass_permblockdiag_bbob_problem_allocate(function, n, instance, rseed) ==
  LET B1 == Blocks(rseed, 1, n)
      p == transform_vars_conditioning(Permuted(f_weierstrass_allocate(n), 6, B1, 5, rseed), 0)
      q == transform_vars_oscillate(Permuted(p, 4, Blocks(rseed, 0, n), 3, rseed))
  IN transform_obj_shift(
       transform_obj_penalize(
         Shifted(Permuted(q, 6, B1, 5, rseed), bbob2009_compute_xopt(rseed, n)), Ceiling(10, n)),
       bbob2009_compute_fopt(function, instance))

f_schaffers_permblockdiag_bbob_problem_allocate(function, n, instance, rseed, conditioning) ==
  LET p == Permuted(transform_vars_conditioning(f_schaffers_allocate(n), conditioning),
                    4, Blocks(rseed, 0, n), 3, rseed)
      q == Permuted(transform_vars_asymmetric(p, 2), 6, Blocks(rseed, 1, n), 5, rseed)
  IN transform_obj_shift(
       transform_obj_penalize(Shifted(q, bbob2009_compute_xopt(rseed, n)), 10),
       bbob2009_compute_fopt(function, instance))

\* The optimum, P1' B' (1/2, ..., 1/2), is set by hand block by block.
f_griewank_rosenbrock_permblockdiag_bbob_bbob_problem_allocate(function, n, instance, rseed) ==
  LET B == Blocks(rseed, 0, n)
      P1 == Swaps(rseed + 2000000, n)
      half == Constant(n, One \div 2)
      p == transform_vars_scale(Shifted(f_griewank_rosenbrock_allocate(n), Times(-1, half)),
                                RosenbrockFactor(coco_rotation_matrix_block_size(n)))
      Column(j) == LET first == FirstNonZero(B, j)
                       block == B[BlockOf(B, j)]
                   IN Total([i \in DOMAIN block |-> block[i][j - first] * (One \div 2)])
  IN SetBest(
       transform_obj_shift(Permuted(p, 3, B, 2, rseed), bbob2009_compute_fopt(function, instance)),
       [i \in 1 .. n |-> Column(CHOOSE j \in 1 .. n : P1[j] = i)])

f_schwefel_generalized_bbob_problem_allocate(function, n, instance, rseed) ==
  SchwefelChain(f_schwefel_generalized_allocate(n), n, rseed, bbob2009_compute_fopt(function, instance))

\* One sphere per peak, with the peak's own scales, order and place.
f_gallagher_sub_problem_allocate(n) ==
  coco_problem_allocate_from_scalars("sub_sphere", 0, n, 0)
f_gallagher_problem_allocate(n, subs) ==
  coco_problem_allocate_from_scalars("gallagher_core", subs, n, 0)

GallagherCore(n, rseed, peaks, B) ==
  LET Rotated(k) == transform_vars_blockrotation_apply(B, PeakAt(k, n, rseed, peaks))
      Sub(k) == Shifted(
                  transform_vars_inverse_permutation(
                    transform_vars_conditioning(
                      transform_vars_scale(f_gallagher_sub_problem_allocate(n), 1), 1000),
                    PeakOrder(k, n, rseed)), Rotated(k))
      core == f_gallagher_problem_allocate(n, Entries([k \in 1 .. peaks |-> Sub(k)]))
  IN [core EXCEPT !.besty = evaluate_function(core, Rotated(1), NoVersatile).y]

f_gallagher_permblockdiag_bbob_problem_allocate(function, n, instance, rseed, number_of_peaks) ==
  LET peaks == number_of_peaks \div PeakScale
      B == Blocks(rseed, 0, n)
  IN transform_obj_shift(
       transform_obj_penalize(
         transform_obj_power(transform_obj_oscillate(
           SetBest(transform_vars_blockrotation(GallagherCore(n, rseed, peaks, B), B),
                   PeakAt(1, n, rseed, peaks))), 2), 1),
       bbob2009_compute_fopt(function, instance))

f_katsuura_permblockdiag_bbob_problem_allocate(function, n, instance, rseed) ==
  LET p == transform_vars_conditioning(
             Permuted(f_katsuura_allocate(n), 6, Blocks(rseed, 1, n), 5, rseed), 100)
  IN transform_obj_shift(
       transform_obj_penalize(
         Shifted(Permuted(p, 4, Blocks(rseed, 0, n), 3, rseed), bbob2009_compute_xopt(rseed, n)), 1),
       bbob2009_compute_fopt(function, instance))

\* The two bowls are sub-problems of their own, read at a hidden x_hat that
\* the outermost transformation of the variables leaves behind.
f_lunacek_bi_rastrigin_sub_problem_allocate(n) ==
  coco_problem_allocate_from_scalars("sub_sphere", 0, n, 0)
f_lunacek_bi_rastrigin_problem_allocate(n, subs) ==
  coco_problem_allocate_from_scalars("lunacek_core", subs, n, 0)

f_lunacek_bi_rastrigin_permblockdiag_bbob_problem_allocate(function, n, instance, rseed) ==
  LET signs == GaussSigns(rseed, n)
      bowl0 == Shifted(f_lunacek_bi_rastrigin_sub_problem_allocate(n), Constant(n, mu0))
      bowl1 == transform_obj_shift(
                 transform_obj_scale(
                   Shifted(f_lunacek_bi_rastrigin_sub_problem_allocate(n), Constant(n, mu1)), 1),
                 n * One * One)
      core == f_lunacek_bi_rastrigin_problem_allocate(n, <<bowl0, bowl1>>)
      p == transform_vars_conditioning(Permuted(core, 6, Blocks(rseed, 1, n), 5, rseed), 100)
      q == Shifted(Permuted(p, 4, Blocks(rseed, 0, n), 3, rseed), Constant(n, mu0))
  IN SetBest(
       transform_obj_shift(
         transform_obj_penalize(
           transform_obj_norm_by_dim(transform_vars_x_hat_generic(q, signs)), 10000),
         bbob2009_compute_fopt(function, instance)),
       Times(mu0 \div 2, signs))

=============================================================================
