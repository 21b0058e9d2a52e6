\* No stop, one split, and an id for each of its halves; what the leader knows settles.
CONSTANTS
    Solutions = {better, worse, m1, m2, m3, m4}
    FunctionValue <- MCFunctionValue
    NumberOfAgents = 1
    MaxRegions = 4
    MinRegions = 2
    MinSolutionsToSplit = 2
    IsBenchmark = TRUE
    ExecutionTime = 0
    AskMayTimeOut = FALSE
    ResultSizes = {2, 4}
    MaxStarts = 1
    MaxStops = 0
    MaxTicks = 1
    MaxMail = 1
    better = better
    m1 = m1
    m2 = m2
    m3 = m3
    m4 = m4
    worse = worse
    NoSummary = NoSummary
SPECIFICATION Spec
CHECK_DEADLOCK FALSE
SYMMETRY Alike
INVARIANTS
    SolutionsConserved
    QuietMeansInformed
