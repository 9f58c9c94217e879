SPECIFICATION Spec
CONSTANTS
    PrepareAttempts = 2
    Outcomes <- MCKeptOrNot
    MaxWorkflows = 2
    MaxDisturbances = 1
INVARIANTS
    StatusStandsOnTheCycle
    ExecutionsAreReported
    OneExecutionAtATime
    QuestionsReachTheOperator
PROPERTIES
    EveryWorkflowEnds
CHECK_DEADLOCK FALSE
