SPECIFICATION Spec
CONSTANTS
    Stages <- MCStages
    StepAttempts = 3
    MaxHolds = 2
    MaxCrashes = 2
    MaxFaults = 4
INVARIANTS
    NothingLeftBehind
    UsersReachWhatExists
    ResultIsTrue
    PromotedOnTrafficShown
PROPERTIES
    ImplementsDelivery
    EveryRunEnds
CHECK_DEADLOCK FALSE
