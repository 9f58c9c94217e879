SPECIFICATION Spec
CONSTANTS
    Stages <- MCStages
    MaxHolds = 2
    MaxCrashes = 3
    MaxFaults = 2
INVARIANTS
    EveryRequestIsServed
    NothingLeftBehind
    VerdictsDecide
PROPERTIES
    ContinuesDelivery
    EverySoakEnds
CHECK_DEADLOCK FALSE
