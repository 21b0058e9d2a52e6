SPECIFICATION Spec
CONSTANTS
  COCO_MAX_INSTANCES = 17
  FirstTriggers <- MCFirstTriggers
  bbob_number_of_dimensions = 2
  Programmes <- MCProgrammes
INVARIANTS
  NumbersFindProblems
  InfoTellsTheRuns
  LoggersTellTheRun
PROPERTY
  ImplementsEnumeration
CHECK_DEADLOCK FALSE
