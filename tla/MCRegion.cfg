\* Some values within the tolerance of their neighbours, others far from all.
CONSTANTS
    Solutions = {1, 2, 3, 4, 5, 6}
    FunctionValue <- MCFunctionValue
    MinSolutionsToSplit = 3
    Tolerance = 3
    MaxCollection = 2
    NoSolution = NoSolution
SPECIFICATION Spec
INVARIANTS
    TypeOK
    StatisticsAgree
    BestIsLinked
PROPERTIES
    SplitPartitions
    SplitSeparates
    SplitNarrows
