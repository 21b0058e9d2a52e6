SPECIFICATION Spec
CONSTANTS
  COCO_MAX_INSTANCES = 17
  FirstTriggers <- MCFirstTriggers
  bbob_number_of_dimensions = 6
  Steps = 6
  Ideal <- MCIdeal
  Nadir <- MCNadir
  dimension = 2
  suite_biobj_best_values_hyp <- MCBest
  Starts <- MCStarts
  Ys <- MCYs
  MayFollow <- MCMayFollow
INVARIANTS
  TreesAreSound
  TreesAreFronts
  IndicatorsMeasureFronts
  ReadersReconstruct
CHECK_DEADLOCK FALSE
