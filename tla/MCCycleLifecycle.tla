-------------------------- MODULE MCCycleLifecycle --------------------------
(* Two callers, two cycles of one target, operation ids they share.          *)
EXTENDS CycleLifecycle, TLC

MCTargetOf == [c \in Cycles |-> CHOOSE t \in Targets : TRUE]
MCRefOffers == {{}}
MCDecisionOffers == {NoDecision}

\* Three steps forward and one way to end: enough for a stale command to matter.
MCRequestStates == {"BASELINE_VERIFIED", "CHANGE_PROPOSED", "DEVELOPING", "BLOCKED"}

Symmetry == Permutations(Callers) \cup Permutations(Operations) \cup Permutations(Cycles)
=============================================================================
