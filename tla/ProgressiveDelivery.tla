------------------------- MODULE ProgressiveDelivery -------------------------
(***************************************************************************)
(* What users of a target are promised about one candidate, whatever       *)
(* workflow, retry or restart is behind it: the candidate gets the share   *)
(* of a canary stage only after every earlier stage was passed, becomes    *)
(* the served release only after all of them, and a cycle is closed only   *)
(* with the candidate away from the users, for good.                       *)
(***************************************************************************)
EXTENDS Naturals, Sequences

\* The weights of the canary stages, in percent: rising, the last of them 100.
CONSTANT Stages

VARIABLES
    share,      \* percentage of the requests that goes to the candidate
    reached,    \* the highest stage whose share the candidate has had
    earned,     \* the number of stages passed
    served,     \* the candidate is the target's serving release
    closed      \* the cycle is over without the candidate

delivery == <<share, reached, earned, served, closed>>

Init ==
    /\ share = 0 /\ reached = 0 /\ earned = 0
    /\ ~served /\ ~closed

\* The candidate gets the share of the first stage it has not passed.
Expose ==
    /\ ~closed
    /\ earned < Len(Stages)
    /\ share' = Stages[earned + 1]
    /\ reached' = earned + 1
    /\ UNCHANGED <<earned, served, closed>>

Withdraw ==
    /\ share' = 0
    /\ UNCHANGED <<reached, earned, served, closed>>

\* A stage is passed only by a candidate that has had its share.
Earn ==
    /\ ~closed
    /\ earned < reached
    /\ earned' = earned + 1
    /\ UNCHANGED <<share, reached, served, closed>>

Serve ==
    /\ ~closed
    /\ earned = Len(Stages)
    /\ served' = TRUE
    /\ UNCHANGED <<share, reached, earned, closed>>

\* The old release is served again, to users who are back on it already.
Retire ==
    /\ share = 0
    /\ served' = FALSE
    /\ UNCHANGED <<share, reached, earned, closed>>

Close ==
    /\ share = 0
    /\ ~served
    /\ closed' = TRUE
    /\ UNCHANGED <<share, reached, earned, served>>

Next == Expose \/ Withdraw \/ Earn \/ Serve \/ Retire \/ Close

Spec == Init /\ [][Next]_delivery
=============================================================================
