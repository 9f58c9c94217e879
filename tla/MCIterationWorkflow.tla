------------------------- MODULE MCIterationWorkflow -------------------------
(* Three stages, as 10/50/100 in the target contract.                        *)
EXTENDS IterationWorkflow

MCStages == <<10, 50, 100>>
=============================================================================
