SPECIFICATION Spec
CONSTANTS
    Stages <- MCStages
    StepAttempts = 3
    MaxHolds = 1
    MaxCrashes = 1
    MaxFaults = 0
INVARIANT
    NoCycleLost
CHECK_DEADLOCK FALSE
