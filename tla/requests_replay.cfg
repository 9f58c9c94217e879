SPECIFICATION Spec
CONSTANTS
    PrepareAttempts = 3
    Outcomes <- MCOutcomes
    MaxWorkflows = 2
    MaxDisturbances = 1
PROPERTY
    ReplayIsSafe
CHECK_DEADLOCK FALSE
