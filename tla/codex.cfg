SPECIFICATION Spec
CONSTANTS
    c1 = c1
    c2 = c2
    Callers <- MCCallers
    MaxCalls <- MCMaxCalls
    MaxItems <- MCMaxItems
    MaxRequests <- MCMaxRequests
    MaxCrashes <- MCMaxCrashes
SYMMETRY MCSymmetry
INVARIANTS
    TurnsAreOnTheJournaledThread
    AnswerIsTheTurns
CHECK_DEADLOCK FALSE
