\* A result arrives while every used id still waits for its registration.
CONSTANTS
    Solutions = {m1, m2, m3}
    FunctionValue <- MCFunctionValue
    NumberOfAgents = 1
    MaxRegions = 2
    MinRegions = 2
    MinSolutionsToSplit = 2
    IsBenchmark = TRUE
    ExecutionTime = 0
    AskMayTimeOut = FALSE
    ResultSizes = {1}
    MaxStarts = 1
    MaxStops = 0
    MaxTicks = 0
    MaxMail = 2
    better = better
    m1 = m1
    m2 = m2
    m3 = m3
    worse = worse
    NoSummary = NoSummary
SPECIFICATION FairSpec
CHECK_DEADLOCK FALSE
PROPERTIES
    LeaderTracksRegions
