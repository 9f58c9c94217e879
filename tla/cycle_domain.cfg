SPECIFICATION StoreSpec
CONSTANTS
    Cycles = {c1}
    Targets = {t1}
    TargetOf <- MCTargetOf
    RefOffers <- MCRefOffers
    DecisionOffers <- MCDecisionOffers
    MaxVersion = 18
INVARIANTS
    StandsOnEvidence
    NoStageSkipped
PROPERTIES
    PromotionEndsInCompletionOrRollback
CHECK_DEADLOCK FALSE
