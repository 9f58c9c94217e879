------------------------- MODULE MCFeedbackAutonomy -------------------------
(* Every verdict a diagnosis may come to.                                    *)
EXTENDS FeedbackAutonomy

MCVerdicts == {"low", "enough", "outside"}
=============================================================================
