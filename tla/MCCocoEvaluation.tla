-------------------------- MODULE MCCocoEvaluation --------------------------
EXTENDS CocoEvaluation

Ask(suite, functions, dimensions, instances) ==
  [suite : {suite}, function : functions, n : dimensions, instance : instances]

MCRequests ==
  UNION {Ask("bbob", 1 .. 24, {2, 4}, {1, 2}),
         Ask("bbob-largescale", 1 .. 24, {3, 4}, {1}),
         Ask("bbob-mixint", 1 .. 24, {5, 10}, {1}),
         Ask("bbob-constrained", 1 .. 54, {2}, {1}),
         Ask("bbob-constrained-active-only", 2 .. 6, {2}, {2}),
         Ask("bbob-constrained-no-disguise", 2 .. 6, {2}, {2}),
         Ask("bbob-biobj", 1 .. 55, {2}, {1}),
         Ask("bbob-biobj-ext", 56 .. 92, {2}, {2}),
         Ask("bbob-biobj-mixint", {1, 20, 60}, {5}, {1}),
         Ask("toy", 1 .. 6, {2}, {1})}

=============================================================================
