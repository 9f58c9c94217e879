SPECIFICATION Spec
CONSTANTS
    Attempts <- MCAttempts
    Tries <- MCTries
    MaxWrites <- MCMaxWrites
    MaxEdits <- MCMaxEdits
    MaxCrashes <- MCMaxCrashes
INVARIANTS
    OneCandidateCommit
    ScopeIsEnforced
    ImageIsTheCandidate
    MainTellsTheOutcome
PROPERTIES
    PeopleKeepTheirWork
    EveryRunEnds
CHECK_DEADLOCK FALSE
