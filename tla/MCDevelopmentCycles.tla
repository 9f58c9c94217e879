------------------------ MODULE MCDevelopmentCycles ------------------------
(* One cycle, from creation to its end, with every order of evidence.       *)
EXTENDS DevelopmentCycles

MCTargetOf == [c \in Cycles |-> CHOOSE t \in Targets : TRUE]

\* A caller hands over nothing, one reference, or all of them at once.
MCRefOffers == {{}, Evidence} \cup {{e} : e \in Evidence}

MCDecisionOffers == {NoDecision, "PROMOTE", "ROLLBACK"}
=============================================================================
