SPECIFICATION Spec
CONSTANTS
    Cycles = {c1, c2}
    Targets = {t1}
    Callers = {p1, p2}
    Operations = {o1, o2, o3, o4}
    TargetOf <- MCTargetOf
    RefOffers <- MCRefOffers
    DecisionOffers <- MCDecisionOffers
    RequestStates <- MCRequestStates
    MaxVersion = 3
SYMMETRY Symmetry
INVARIANTS
    ReceiptsAreTheHistory
    DoneMeansApplied
PROPERTIES
    ImplementsStore
