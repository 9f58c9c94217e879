---------------------------- MODULE CycleStates ----------------------------
(***************************************************************************)
(* The lifecycle of one development cycle: its states, the edges between   *)
(* them, the evidence a state demands, and what transition_cycle makes of  *)
(* a row.  Pure operators, shared by every module that moves a cycle.      *)
(*                                                                         *)
(* Evidence is abstracted to which references a row holds: the code never  *)
(* compares their values here, it asks only whether one is None.  The      *)
(* references no state demands (evidence window, diagnosis, change         *)
(* proposal) are left out.                                                 *)
(***************************************************************************)
EXTENDS Naturals

TerminalStates ==
    {"COMPLETED", "REJECTED", "ROLLED_BACK", "BLOCKED", "CANCELLED", "FAILED_TERMINAL"}

ActiveStates ==
    {"NEW", "BASELINE_VERIFIED", "EVIDENCE_READY", "DIAGNOSED", "CHANGE_PROPOSED",
     "DEVELOPING", "FAILED_RECOVERABLE", "CANDIDATE_READY", "VERIFYING", "VERIFIED",
     "BUILT", "STAGED", "CANARYING", "PROMOTION_READY", "PROMOTED", "SOAKING"}

States == ActiveStates \cup TerminalStates

\* States from which a cycle may still be abandoned, by the verdict that abandons it.
BeforeCandidate == {"NEW", "BASELINE_VERIFIED", "EVIDENCE_READY", "DIAGNOSED",
                    "CHANGE_PROPOSED", "DEVELOPING", "FAILED_RECOVERABLE"}

\* Faulty variant: a promoted cycle may be abandoned like one still under test.
PromotedUnderTest == {"CANDIDATE_READY", "VERIFYING", "VERIFIED", "BUILT", "STAGED",
                      "CANARYING", "PROMOTION_READY", "PROMOTED"}

UnderTest == {"CANDIDATE_READY", "VERIFYING", "VERIFIED", "BUILT", "STAGED",
              "CANARYING", "PROMOTION_READY"}

\* The forward edges of _ALLOWED; the abandoning edges follow from the two sets above.
Forward(s) ==
    CASE s = "NEW"                -> {"BASELINE_VERIFIED"}
      [] s = "BASELINE_VERIFIED"  -> {"EVIDENCE_READY", "CHANGE_PROPOSED"}
      [] s = "EVIDENCE_READY"     -> {"DIAGNOSED"}
      [] s = "DIAGNOSED"          -> {"CHANGE_PROPOSED"}
      [] s = "CHANGE_PROPOSED"    -> {"DEVELOPING"}
      [] s = "DEVELOPING"         -> {"CANDIDATE_READY", "FAILED_RECOVERABLE"}
      [] s = "FAILED_RECOVERABLE" -> {"DEVELOPING"}
      [] s = "CANDIDATE_READY"    -> {"VERIFYING"}
      [] s = "VERIFYING"          -> {"VERIFIED", "FAILED_RECOVERABLE"}
      [] s = "VERIFIED"           -> {"BUILT"}
      [] s = "BUILT"              -> {"STAGED"}
      [] s = "STAGED"             -> {"CANARYING"}
      [] s = "CANARYING"          -> {"PROMOTION_READY", "ROLLED_BACK"}
      [] s = "PROMOTION_READY"    -> {"PROMOTED", "ROLLED_BACK"}
      [] s = "PROMOTED"           -> {"SOAKING", "ROLLED_BACK"}
      [] s = "SOAKING"            -> {"COMPLETED", "ROLLED_BACK"}
      [] OTHER                    -> {}

\* Faulty variant: a staged candidate may go straight to promotion.
CanarySkipped(s) ==
    Forward(s) \cup (IF s = "STAGED" THEN {"PROMOTION_READY"} ELSE {})

Allowed(s) ==
    Forward(s)
      \cup (IF s \in BeforeCandidate THEN {"BLOCKED", "CANCELLED"} ELSE {})
      \cup (IF s \in UnderTest THEN {"REJECTED", "CANCELLED"} ELSE {})
      \cup (IF s \in UnderTest \cup {"DEVELOPING", "FAILED_RECOVERABLE"}
              THEN {"FAILED_TERMINAL"} ELSE {})

----------------------------------------------------------------------------
\* Evidence: the references a state demands, each from a first state on.

Evidence == {"candidate", "verification", "artifact", "deployment", "experiment"}

Decisions == {"PROMOTE", "REJECT", "ROLLBACK", "HOLD_INSUFFICIENT_EVIDENCE", "BLOCKED"}
NoDecision == "none"

\* States that stand on an explicit promote decision.
PromotedStates == {"PROMOTED", "SOAKING", "COMPLETED"}

NeedsExperiment   == {"CANARYING", "PROMOTION_READY"} \cup PromotedStates
NeedsDeployment   == {"STAGED"} \cup NeedsExperiment
NeedsArtifact     == {"BUILT"} \cup NeedsDeployment
NeedsVerification == {"VERIFIED"} \cup NeedsArtifact
NeedsCandidate    == {"CANDIDATE_READY", "VERIFYING"} \cup NeedsVerification

RequiredEvidence(s) ==
    {e \in Evidence : \/ e = "candidate"    /\ s \in NeedsCandidate
                      \/ e = "verification" /\ s \in NeedsVerification
                      \/ e = "artifact"     /\ s \in NeedsArtifact
                      \/ e = "deployment"   /\ s \in NeedsDeployment
                      \/ e = "experiment"   /\ s \in NeedsExperiment}

----------------------------------------------------------------------------
\* A row of development_cycles.  An id nobody has created is an ABSENT row.

Row == [state : States \cup {"ABSENT"}, version : Nat,
        refs : SUBSET Evidence, decision : Decisions \cup {NoDecision}]

AbsentRow == [state |-> "ABSENT", version |-> 0, refs |-> {}, decision |-> NoDecision]
NewRow    == [state |-> "NEW",    version |-> 0, refs |-> {}, decision |-> NoDecision]

\* `release_decision or cycle.release_decision`: a new decision replaces the old one.
Decided(row, decision) == IF decision = NoDecision THEN row.decision ELSE decision


MayTransition(row, to, refs, decision) ==
    /\ row.state \notin TerminalStates
    /\ to \in Allowed(row.state)
    /\ RequiredEvidence(to) \subseteq row.refs \cup refs
    /\ to \in PromotedStates => Decided(row, decision) = "PROMOTE"

\* Faulty variant: the references of this transition replace those held (`new`, not `new or old`).
ForgetsOldReferences(row, to, refs, decision) ==
    [state |-> to, version |-> row.version + 1,
     refs |-> refs, decision |-> Decided(row, decision)]

Transitioned(row, to, refs, decision) ==
    [state |-> to, version |-> row.version + 1,
     refs |-> row.refs \cup refs, decision |-> Decided(row, decision)]
=============================================================================
