\* Two starts, two stops and a split over few ids; an agent may answer with nothing.
CONSTANTS
    Solutions = {better, m1, m2, m3}
    FunctionValue <- MCFunctionValue
    NumberOfAgents = 1
    MaxRegions = 2
    MinRegions = 2
    MinSolutionsToSplit = 2
    IsBenchmark = TRUE
    ExecutionTime = 0
    AskMayTimeOut = TRUE
    ResultSizes = {0, 1, 3}
    MaxStarts = 2
    MaxStops = 1
    MaxTicks = 1
    MaxMail = 1
    better = better
    m1 = m1
    m2 = m2
    m3 = m3
    worse = worse
    NoSummary = NoSummary
SPECIFICATION Spec
CHECK_DEADLOCK FALSE
SYMMETRY Alike
INVARIANTS
    TypeOK
    IdPartition
    CreateFindsNobody
    IdsOwned
PROPERTIES
    StopEmptiesRegions
