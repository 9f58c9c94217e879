------------------------ MODULE MCPostPromotionSoak ------------------------
(* The stages the promoted cycle passed, as in MCIterationWorkflow.          *)
EXTENDS PostPromotionSoak

MCStages == <<10, 50, 100>>
=============================================================================
