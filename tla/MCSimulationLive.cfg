\* Fair actors: stops end, also those the clock starts; created regions register.
CONSTANTS
    Solutions = {better, m1, m2}
    FunctionValue <- MCFunctionValue
    NumberOfAgents = 1
    MaxRegions = 2
    MinRegions = 2
    MinSolutionsToSplit = 2
    IsBenchmark = FALSE
    ExecutionTime = 5
    AskMayTimeOut = FALSE
    ResultSizes = {1}
    MaxStarts = 2
    MaxStops = 1
    MaxTicks = 0
    MaxMail = 2
    better = better
    m1 = m1
    m2 = m2
    worse = worse
    NoSummary = NoSummary
SPECIFICATION FairSpec
CHECK_DEADLOCK FALSE
INVARIANTS
    ClockExpires
PROPERTIES
    StopEnds
    CreatedIsRegistered
