----------------------------- MODULE MCCodexTurn -----------------------------
(***************************************************************************)
(* CodexTurn on a small instance: two callers that share a resume key and  *)
(* make two calls together, two messages, one request, and a restart.      *)
(***************************************************************************)
EXTENDS CodexTurn, TLC

CONSTANTS c1, c2

MCCallers == {c1, c2}
MCSymmetry == Permutations(MCCallers)
MCMaxCalls == 2
MCMaxItems == 2
MCMaxRequests == 1
MCMaxCrashes == 1

============================================================================
