SPECIFICATION Spec
CONSTANTS
    MaxItems = 2
    Runs = {n1, n2}
    PrepareAttempts = 1
    Verdicts <- MCVerdicts
    MaxMishaps = 1
INVARIANTS
    TriggersTellTheTruth
    OnlyTheServingIsImproved
    OnlyThePromotedIsReleased
PROPERTIES
    FeedbackIsTaken
CHECK_DEADLOCK FALSE
