------------------------- MODULE MCOperatorRequests -------------------------
(* How an execution ends: all the ways, and, for the larger run, one that    *)
(* keeps the candidate and one that does not.                                *)
EXTENDS OperatorRequests

MCOutcomes == {"COMPLETED", "ROLLED_BACK", "FAILED"}
MCKeptOrNot == {"COMPLETED", "FAILED"}
=============================================================================
