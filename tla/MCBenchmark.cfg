\* Late Evaluates, late answers of regions, agents that keep the leader waiting.
CONSTANTS
    NumberOfProblems = 2
    EvaluationsBudget = 3
    NumberOfAgents = 2
    Constructors <- MCConstructors
    AgentMayTimeOut = TRUE
    MaxPending = 3
SPECIFICATION FairSpec
CHECK_DEADLOCK FALSE
INVARIANTS
    TypeOK
    OneTurn
    StartedAgentsAgree
PROPERTIES
    ImplementsSuite
    SuiteProceeds
