\* Fewer ids than a split needs: the fallback of its lower half.
CONSTANTS
    Solutions = {better, m1, m2, m3}
    FunctionValue <- MCFunctionValue
    NumberOfAgents = 1
    MaxRegions = 2
    MinRegions = 2
    MinSolutionsToSplit = 2
    IsBenchmark = TRUE
    ExecutionTime = 0
    AskMayTimeOut = FALSE
    ResultSizes = {1, 3}
    MaxStarts = 1
    MaxStops = 0
    MaxTicks = 1
    MaxMail = 2
    better = better
    m1 = m1
    m2 = m2
    m3 = m3
    worse = worse
    NoSummary = NoSummary
SPECIFICATION Spec
CHECK_DEADLOCK FALSE
SYMMETRY Alike
INVARIANTS
    SolutionsConserved
