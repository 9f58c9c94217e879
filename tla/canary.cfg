SPECIFICATION Spec
CONSTANTS
    Weights <- MCWeights
    MinRequests = 2
    MaxErrorPercent = 50
    MaxDeltaPercent = 20
    MaxLatency = 40
    MaxRatioPercent = 200
    MaxSamples = 2
    Responses <- MCResponses
    Slots <- MCSlots
    Connections = {c1, c2}
    MaxRequests = 4
    MaxRounds = 2
    MaxCrashes = 1
SYMMETRY MCSymmetry
INVARIANTS
    ExposuresAreIdentified
PROPERTIES
    ImplementsDirector
    PassedOnItsOwnRoute
    PassedOnItsOwnTraffic
CHECK_DEADLOCK FALSE
