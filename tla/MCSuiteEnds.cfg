\* After the last problem.
CONSTANTS
    NumberOfProblems = 2
    EvaluationsBudget = 2
    NumberOfAgents = 2
    Constructors <- MCConstructors
    AgentMayTimeOut = FALSE
    MaxPending = 2
SPECIFICATION FairSpec
PROPERTIES
    SuiteEnds
