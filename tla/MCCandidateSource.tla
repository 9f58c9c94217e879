------------------------- MODULE MCCandidateSource -------------------------
(***************************************************************************)
(* CandidateSource on a small instance: two attempts, so that one can      *)
(* begin in the worktree of another; a compensation tried twice; one piece *)
(* of somebody's work; and one restart.                                    *)
(***************************************************************************)
EXTENDS CandidateSource

MCAttempts == 2
MCTries == 2
MCMaxWrites == 3
MCMaxEdits == 1
MCMaxCrashes == 1

============================================================================
