----------------------- MODULE IterationWorkflow_proofs -----------------------
(***************************************************************************)
(* The iteration for any stages, bounds and number of rounds: what users   *)
(* reach, what an abandoned run leaves, what a run reports, on which       *)
(* traffic a candidate is promoted, and that all of it is progressive      *)
(* delivery.  The invariant says what the world is whenever the run is at  *)
(* a step for a reason (Fits), of the step under way and of the one that   *)
(* follows it as soon as that is decided.                                  *)
(***************************************************************************)
EXTENDS IterationWorkflow, FiniteSetTheorems, TLAPS

\* The round under way has its verdict, and which one.
HasVerdict == Len(decisions) = flow.round + 1
Verdict == decisions[flow.round + 1].kind

\* The steps before the canary.
Undeployed == {"start_development", "implement", "candidate_ready", "start_verification",
               "pre_verification", "verified", "build", "built"}
Deployed0 == {"staged", "performance", "ensure_experiment", "canarying"}
Building == Undeployed \cup {"deploy"} \cup Deployed0

Closed == {"REJECTED", "ROLLED_BACK", "FAILED_TERMINAL"}
Underway == ActiveStates \ {"PROMOTED", "SOAKING"}
Unpromoted == row.state \in Underway

\* The candidate is neither the served release nor on the default branch.
Unserved == release.serving = "baseline" /\ host.head = "baseline"

\* Nothing of the candidate is anywhere.
Nowhere ==
    /\ route.weight = 0
    /\ release.serving = "baseline"
    /\ host = [head |-> "baseline", worktree |-> "absent", container |-> "none"]

NotYet(op) == route.op # op /\ \A s \in shifts : s.op # op
BroughtBack(op) == NotYet(op) \/ route.weight = 0

\* The history a candidate may be promoted on.
Earned == HasVerdict /\ Verdict = "PROMOTION_READY" /\ HistoryComplete

----------------------------------------------------------------------------
\* What the world is when the run is at the step pc for the reason why.

FitsBuilding ==
    /\ Unpromoted /\ Unserved
    /\ decisions = <<>> /\ shifts = {} /\ release.ops = {} /\ flow.round = 0
    /\ route = [op |-> RunOp("initial"), weight |-> 0]

FitsCanary == Unpromoted /\ Unserved /\ release.ops = {} /\ host.container = "running"

FitsClosing == row.state \in Underway \cup Closed /\ Nowhere

FitsPromotion(pc) ==
    /\ host.container = "running" /\ Earned
    /\ pc = "promote" =>
         (Unpromoted \/ row.state = "PROMOTED") /\ Unserved /\ release.ops = {}
    /\ pc # "promote" => row.state = "PROMOTED"
    /\ pc = "promote_source" => release.serving = "baseline" /\ release.ops = {}
    /\ pc = "finalize" =>
        /\ host.head = "candidate" /\ release.ops \subseteq {RunOp("release")}
        /\ RunOp("release") \in release.ops => release.serving = "candidate"
    /\ pc = "promoted" =>
         release.serving = "candidate" /\ host.head = "candidate" /\ release.registered

FitsRollback(why) ==
    /\ why \in Compensations /\ Earned
    /\ row.state \in {"PROMOTED", "ROLLED_BACK"}
    /\ PartOp(why, "serving") \in release.ops => release.serving = "baseline"
    /\ BroughtBack(PartOp(why, "traffic"))

FitsCleanup(why) ==
    /\ why \in Failures \cup Rejections \cup {"regression"}
    /\ Unpromoted /\ Unserved /\ route.weight = 0
    /\ ~Deployed(why) => host.container = "none"

Fits(pc, why) ==
    /\ pc \in Building => why = "none" /\ FitsBuilding
    /\ pc \in Undeployed => host.container = "none"
    /\ pc \in Deployed0 => host.container = "running"
    /\ pc = "canary" => why = "none" /\ FitsCanary
    /\ pc = "restore_canary" =>
         why = "canary" /\ FitsCanary /\ BroughtBack(RoundOp("failure-restore", flow.round))
    /\ pc = "apply_canary" =>
         \/ why = "none" /\ FitsCanary /\ HasVerdict /\ Verdict # "ROLLBACK"
         \/ why = "regression" /\ FitsClosing /\ HasVerdict /\ Verdict = "ROLLBACK"
    /\ pc = "cleanup" => FitsCleanup(why)
    /\ pc = "cleanup" /\ why = "regression" => HasVerdict /\ Verdict = "ROLLBACK"
    /\ pc = "fail_terminal" => why \in Failures /\ FitsClosing
    /\ pc = "reject" => why \in Rejections /\ FitsClosing
    /\ pc \in {"promote", "promote_source", "finalize", "promoted"} =>
         why = "none" /\ FitsPromotion(pc)
    /\ pc = "rollback_promotion" => FitsRollback(why)
    /\ pc = "closed" => row.state \in Closed

----------------------------------------------------------------------------
\* Round by round.

RoundsAreRecorded ==
    /\ Len(decisions) \in {flow.round, flow.round + 1}
    /\ \A i \in DOMAIN decisions : decisions[i].round = i - 1
    /\ \A i \in 1 .. flow.round : decisions[i].kind \in {"ADVANCE", "HOLD"}

StagesAreCounted ==
    /\ CurrentStage \in 1 .. Len(Stages)
    /\ HasVerdict /\ Verdict = "PROMOTION_READY" =>
         CurrentStage = Len(Stages) /\ Passed = CurrentStage
    /\ ~(HasVerdict /\ Verdict = "PROMOTION_READY") => Passed = CurrentStage - 1

\* The stages whose share the candidate has had.
Shown == {s.stage : s \in {t \in shifts : t.weight > 0}}

TrafficIsShown ==
    /\ \A k \in DOMAIN decisions : decisions[k].kind \in {"ADVANCE", "PROMOTION_READY"} =>
         decisions[k].share = Stages[decisions[k].stage]
    /\ \A s \in shifts : s.op = TrafficOp(flow.round) /\ ~HasVerdict =>
         s.stage = CurrentStage /\ s.weight = Stages[CurrentStage]
    /\ route.op = TrafficOp(flow.round) =>
         \E s \in shifts : s.op = route.op /\ s.weight = route.weight
    /\ Shown \in {1 .. Passed, 1 .. Passed + 1}

\* Operations of rounds and compensations to come have no receipt that could answer them.
OpsAreFresh ==
    /\ \A r \in Nat : r > flow.round =>
        /\ NotYet(TrafficOp(r)) /\ NotYet(RoundOp("ROLLBACK", r))
        /\ NotYet(RoundOp("failure-restore", r))
    /\ flow.pc \in {"canary", "apply_canary"} /\ flow.why = "none" =>
         NotYet(RoundOp("failure-restore", flow.round))
    /\ flow.pc = "canary" => BroughtBack(RoundOp("ROLLBACK", flow.round))
    /\ flow.pc = "canary" /\ ~HasVerdict => NotYet(RoundOp("ROLLBACK", flow.round))
    /\ flow.pc \notin {"rollback_promotion"} \cup Ends =>
         \A why \in Compensations : NotYet(PartOp(why, "traffic"))

\* Which effects a place in a step stands on.
PlacesReached ==
    /\ step.at = "returned" <=> step.outcome # Pending
    /\ flow.pc \in Ends => step.outcome = Pending
    /\ flow.pc = "canary" /\ step.at \in {"routed", "unobserved"} => ~HasVerdict
    /\ flow.pc = "canary" /\ step.at = "decided" => HasVerdict
    /\ flow.pc = "cleanup" /\ step.at = "stopped" => host.container = "none"
    /\ flow.pc = "finalize" /\ step.at = "registered" => release.registered
    /\ flow.pc = "rollback_promotion" =>
        /\ step.at \notin {"start", "returned"} => row.state = "PROMOTED" /\ route.weight = 0
        /\ step.at \in {"serving_back", "source_back", "stopped", "clean"} =>
             release.serving = "baseline"
        /\ step.at \in {"source_back", "stopped", "clean"} => host.head = "baseline"
        /\ step.at \in {"stopped", "clean"} => host.container = "none"
        /\ step.at = "clean" => host.worktree = "absent"

\* The step that follows is one the world is ready for.
OutcomeFits ==
    step.outcome # Pending =>
        /\ Fits(step.outcome.pc, step.outcome.why)
        /\ step.outcome.pc = "canary" => flow.pc \in {"canarying", "apply_canary"}
        /\ step.outcome.pc = "canary" /\ flow.pc = "apply_canary" =>
             Verdict \in {"ADVANCE", "HOLD"}
        /\ step.outcome.pc = "apply_canary" /\ step.outcome.why = "none" => flow.pc = "canary"
        /\ flow.pc = "rollback_promotion" => step.outcome.pc \in Ends

\* Where a cycle may be promoted or closed.
CycleFollows ==
    /\ row.state \in Underway \cup {"PROMOTED"} \cup Closed
    /\ row.state = "PROMOTED" =>
         /\ flow.pc \in {"promote", "promote_source", "finalize", "rollback_promotion"} \cup Ends
         /\ Earned

IInv ==
    /\ TypeOK
    /\ RoundsAreRecorded
    /\ StagesAreCounted
    /\ TrafficIsShown
    /\ OpsAreFresh
    /\ PlacesReached
    /\ Fits(flow.pc, flow.why)
    /\ OutcomeFits
    /\ CycleFollows
    /\ NothingLeftBehind
    /\ UsersReachWhatExists

----------------------------------------------------------------------------
\* The names of steps and reasons, and the shapes of the records that hold them.
LEMMA StepNames ==
    Steps = {"candidate_ready", "start_verification", "verified", "built", "staged", "canarying",
             "restore_canary", "cleanup", "rollback_promotion", "implement", "pre_verification",
             "build", "deploy", "performance", "canary", "promote_source", "finalize",
             "start_development", "ensure_experiment", "apply_canary", "promote",
             "fail_terminal", "reject"}
    BY DEF Steps, Moves, Retried, Guarded

LEMMA ReasonNames ==
    Reasons = {"none", "regression", "implementation", "pre-verification", "build", "deployment",
               "performance", "canary", "pre-verification-reject", "performance-reject",
               "source-promotion-failed", "release-finalization-failed"}
    BY DEF Reasons, Failures, Rejections, Compensations

LEMMA PendingIsNoOutcome == Pending \notin Outcome
    BY DEF Pending, Outcome

LEMMA CaughtIsAnOutcome == \A pc : Caught(pc) \in Outcome
<1> TAKE pc
<1>1. CaughtWithoutRestore(pc) \in Outcome
    BY StepNames, ReasonNames DEF CaughtWithoutRestore, Outcome, Ends
<1> QED
    BY <1>1, StepNames, ReasonNames DEF Caught, Outcome, Ends

LEMMA FlowTyped ==
    ASSUME TypeOK
    PROVE  /\ flow.pc \in Steps \cup Ends /\ flow.why \in Reasons /\ flow.round \in Nat
           /\ step.at \in Places /\ step.tries \in 0 .. StepAttempts - 1
           /\ step.outcome \in Outcome \cup {Pending}
           /\ step = [at |-> step.at, tries |-> step.tries, outcome |-> step.outcome]
    BY DEF TypeOK

LEMMA DecisionsTyped ==
    ASSUME TypeOK
    PROVE  /\ Len(decisions) \in Nat
           /\ DOMAIN decisions = 1 .. Len(decisions)
           /\ \A i \in DOMAIN decisions :
                /\ decisions[i] \in Decision
                /\ decisions[i].kind \in {"ADVANCE", "HOLD", "ROLLBACK", "PROMOTION_READY"}
<1>1. decisions \in Seq(Decision)
    BY DEF TypeOK
<1>2. \A d \in Decision : d.kind \in {"ADVANCE", "HOLD", "ROLLBACK", "PROMOTION_READY"}
    BY DEF Decision
<1> QED
    BY <1>1, <1>2

LEMMA StagesTyped ==
    /\ Len(Stages) \in Nat \ {0}
    /\ DOMAIN Stages = 1 .. Len(Stages)
    /\ \A i \in 1 .. Len(Stages) : Stages[i] \in Weights /\ Stages[i] > 0
    /\ 0 \in Weights
    /\ \A w \in Weights : w \in Nat
<1>1. Stages \in Seq(1 .. 100) /\ Stages # <<>>
    BY IterationWorkflowAssumption
<1>2. Len(Stages) \in Nat /\ DOMAIN Stages = 1 .. Len(Stages)
    BY <1>1
<1>3. Len(Stages) # 0
    BY <1>1, <1>2
<1>4. \A i \in 1 .. Len(Stages) : Stages[i] \in 1 .. 100 /\ Stages[i] \in Weights
    BY <1>1, <1>2 DEF Weights
<1>5. \A w \in Weights : w = 0 \/ \E i \in 1 .. Len(Stages) : w = Stages[i]
    BY <1>2 DEF Weights
<1>6. 0 \in Weights
    BY DEF Weights
<1>7. ASSUME NEW w \in Weights
      PROVE  w \in Nat
    <2>1. CASE w = 0
        BY <2>1
    <2>2. CASE \E i \in 1 .. Len(Stages) : w = Stages[i]
        <3>1. PICK i \in 1 .. Len(Stages) : w = Stages[i]
            BY <2>2
        <3>2. Stages[i] \in 1 .. 100
            BY <1>4
        <3>3. \A n \in 1 .. 100 : n \in Nat
            OBVIOUS
        <3> QED
            BY <3>1, <3>2, <3>3
    <2> QED
        BY <1>5, <2>1, <2>2
<1>8. ASSUME NEW i \in 1 .. Len(Stages)
      PROVE  Stages[i] > 0
    <2>1. Stages[i] \in 1 .. 100
        BY <1>4
    <2>2. \A n \in 1 .. 100 : n > 0
        OBVIOUS
    <2> QED
        BY <2>1, <2>2
<1> QED
    BY <1>2, <1>3, <1>4, <1>6, <1>7, <1>8

LEMMA RowTyped ==
    ASSUME TypeOK, NEW to \in States, NEW refs \in SUBSET Evidence,
           NEW decision \in Decisions \cup {NoDecision}
    PROVE  /\ Transitioned(row, to, refs, decision) \in Row
           /\ Transitioned(row, to, refs, decision).state = to
    BY DEF TypeOK, Transitioned, Decided, Row

\* A step returns or throws; either way it stays a step.
LEMMA ReturnTyped ==
    ASSUME TypeOK, NEW next \in Steps \cup Ends, NEW why \in Reasons, ReturnBecause(next, why)
    PROVE  /\ step' \in [at : Places, tries : 0 .. StepAttempts - 1, outcome : Outcome \cup {Pending}]
           /\ step'.at = "returned" /\ step'.outcome = [pc |-> next, why |-> why]
           /\ step'.outcome # Pending
<1>1. [pc |-> next, why |-> why] \in Outcome /\ [pc |-> next, why |-> why] # Pending
    BY PendingIsNoOutcome DEF Outcome
<1> QED
    BY <1>1, FlowTyped DEF TypeOK, ReturnBecause, Places

LEMMA ThrowTyped ==
    ASSUME TypeOK, Throw
    PROVE  /\ step' \in [at : Places, tries : 0 .. StepAttempts - 1, outcome : Outcome \cup {Pending}]
           /\ \/ flow.pc \in Retried /\ step'.at = "start" /\ step'.outcome = Pending
              \/ step'.at = "returned" /\ step'.outcome = Caught(flow.pc) /\ step'.outcome # Pending
<1>1. CASE flow.pc \in Retried /\ step.tries + 1 < StepAttempts
    BY <1>1, FlowTyped, IterationWorkflowAssumption DEF Throw, Fresh, Places
<1>2. CASE ~(flow.pc \in Retried /\ step.tries + 1 < StepAttempts)
    <2>1. step' = [step EXCEPT !.at = "returned", !.outcome = Caught(flow.pc)]
        BY <1>2 DEF Throw
    <2>2. Caught(flow.pc) \in Outcome /\ Caught(flow.pc) # Pending
        BY CaughtIsAnOutcome, PendingIsNoOutcome
    <2> QED
        BY <2>1, <2>2, FlowTyped DEF Places
<1> QED
    BY <1>1, <1>2

LEMMA GotoTyped ==
    ASSUME TypeOK, NEW place \in Places, Goto(place)
    PROVE  /\ step' \in [at : Places, tries : 0 .. StepAttempts - 1, outcome : Outcome \cup {Pending}]
           /\ step'.at = place /\ step'.outcome = step.outcome
    BY FlowTyped DEF Goto

LEMMA MovesOrThrows ==
    ASSUME TypeOK, NEW op, NEW to \in States, NEW refs \in SUBSET Evidence,
           NEW decision \in Decisions \cup {NoDecision},
           NEW next \in Steps \cup Ends, MoveCycle(op, to, refs, decision, next)
    PROVE  /\ row' \in Row
           /\ \/ row'.state = to /\ Return(next)
              \/ row' = row /\ Throw
<1> DEFINE moved == Transitioned(row, to, refs, decision)
<1>1. moved \in Row /\ moved.state = to
    BY RowTyped
<1>2. row \in Row
    BY DEF TypeOK
<1>3. \/ row' = moved /\ Return(next)
      \/ row' = row /\ Throw
    BY DEF MoveCycle
<1> QED
    BY <1>1, <1>2, <1>3

----------------------------------------------------------------------------
\* What stays as it is while decisions, route and round do.
LEMMA SameTraffic ==
    ASSUME IInv, UNCHANGED <<decisions, route, shifts, flow>>
    PROVE  /\ RoundsAreRecorded' /\ StagesAreCounted' /\ TrafficIsShown' /\ OpsAreFresh'
           /\ HasVerdict' = HasVerdict /\ Verdict' = Verdict /\ Earned' = Earned
           /\ \A op : BroughtBack(op)' = BroughtBack(op)
<1>1. /\ HasVerdict' = HasVerdict /\ Verdict' = Verdict
      /\ CurrentStage' = CurrentStage /\ Passed' = Passed /\ Shown' = Shown
      /\ HistoryComplete' = HistoryComplete
    BY DEF HasVerdict, Verdict, CurrentStage, Passed, Count, Shown, HistoryComplete, Passing
<1>2. RoundsAreRecorded'
    BY DEF IInv, RoundsAreRecorded
<1>3. StagesAreCounted'
    BY <1>1 DEF IInv, StagesAreCounted
<1>4. TrafficIsShown'
    BY <1>1 DEF IInv, TrafficIsShown, TrafficOp, RoundOp
<1>5. OpsAreFresh'
    BY <1>1
    DEF IInv, OpsAreFresh, NotYet, BroughtBack, TrafficOp, RoundOp, PartOp, Compensations, Ends
<1> QED
    BY <1>1, <1>2, <1>3, <1>4, <1>5 DEF Earned, BroughtBack, NotYet

\* A cycle that stays where it is, or among the states before promotion.
SameClass ==
    /\ row' \in Row
    /\ \/ row' = row
       \/ Unpromoted /\ Unpromoted'

\* What stays as it is while only the step goes on, and the cycle with it before promotion.
LEMMA SameWorld ==
    ASSUME IInv, SameClass, UNCHANGED <<decisions, route, shifts, release, host, flow>>
    PROVE  /\ RoundsAreRecorded' /\ StagesAreCounted' /\ TrafficIsShown' /\ OpsAreFresh'
           /\ CycleFollows' /\ NothingLeftBehind' /\ UsersReachWhatExists'
           /\ HasVerdict' = HasVerdict /\ Verdict' = Verdict
           /\ \A pc, why : Fits(pc, why)' = Fits(pc, why)
<1>1. UNCHANGED <<HasVerdict, Verdict, Earned>> /\ \A op : BroughtBack(op)' = BroughtBack(op)
    BY SameTraffic
<1>2. \/ row' = row
      \/ /\ row.state \in Underway /\ row.state \notin Closed \cup {"PROMOTED"}
         /\ row'.state \in Underway /\ row'.state \notin Closed \cup {"PROMOTED"}
    BY DEF SameClass, Unpromoted, Underway, ActiveStates, Closed
<1>3. \A pc, why : Fits(pc, why)' = Fits(pc, why)
    BY <1>1, <1>2
    DEF Fits, FitsBuilding, FitsCanary, FitsClosing, FitsPromotion, FitsRollback, FitsCleanup,
        Unpromoted, Unserved, Nowhere, RunOp, PartOp, RoundOp, Closed
<1>4. CycleFollows' /\ NothingLeftBehind' /\ UsersReachWhatExists'
    BY <1>1, <1>2 DEF IInv, CycleFollows, NothingLeftBehind, UsersReachWhatExists, Closed
<1> QED
    BY <1>1, <1>3, <1>4, SameTraffic

LEMMA InitIInv == Init => IInv
<1> SUFFICES ASSUME Init
             PROVE  IInv
    OBVIOUS
<1>1. TypeOK
    BY IterationWorkflowAssumption, StagesTyped, StepNames, ReasonNames
    DEF Init, TypeOK, Row, States, ActiveStates, Decisions, Fresh, Places
<1>2. ~HasVerdict /\ Len(decisions) = 0
    BY DEF Init, HasVerdict
<1>3. RoundsAreRecorded
    BY DEF Init, RoundsAreRecorded
<1>4. CurrentStage = 1 /\ Passed = 0 /\ Shown = {}
    BY FS_EmptySet DEF Init, CurrentStage, Passed, Count, Shown
<1>5. StagesAreCounted
    BY <1>2, <1>4, StagesTyped DEF StagesAreCounted
<1>6. TrafficIsShown
    BY <1>4 DEF Init, TrafficIsShown, TrafficOp, RoundOp, RunOp
<1>7. OpsAreFresh
    BY DEF Init, OpsAreFresh, NotYet, TrafficOp, RoundOp, RunOp, PartOp
<1>8. PlacesReached
    BY DEF Init, PlacesReached, Fresh, Ends
<1>9. Fits(flow.pc, flow.why)
    BY DEF Init, Fits, Building, Undeployed, Deployed0, FitsBuilding, Unpromoted, Underway,
           ActiveStates, Unserved
<1>10. OutcomeFits /\ CycleFollows /\ NothingLeftBehind /\ UsersReachWhatExists
    BY DEF Init, OutcomeFits, Fresh, CycleFollows, Underway, ActiveStates, NothingLeftBehind,
           UsersReachWhatExists
<1> QED
    BY <1>1, <1>3, <1>5, <1>6, <1>7, <1>8, <1>9, <1>10 DEF IInv

\* A step that returns with the world as it is keeps the invariant if the next step fits.
LEMMA ReturnsWell ==
    ASSUME IInv, NEW next \in Steps \cup Ends, NEW why \in Reasons, ReturnBecause(next, why),
           flow.pc \notin Ends, Fits(next, why),
           next = "canary" => /\ flow.pc \in {"canarying", "apply_canary"}
                              /\ flow.pc = "apply_canary" => Verdict \in {"ADVANCE", "HOLD"},
           next = "apply_canary" /\ why = "none" => flow.pc = "canary",
           flow.pc = "rollback_promotion" => next \in Ends,
           SameClass, UNCHANGED <<decisions, route, shifts, release, host, flow, budget>>
    PROVE  IInv'
<1>1. /\ step' \in [at : Places, tries : 0 .. StepAttempts - 1, outcome : Outcome \cup {Pending}]
      /\ step'.at = "returned" /\ step'.outcome = [pc |-> next, why |-> why]
      /\ step'.outcome # Pending
    BY ReturnTyped DEF IInv
<1>2. TypeOK'
    BY <1>1 DEF IInv, TypeOK, SameClass
<1>3. PlacesReached'
    BY <1>1 DEF PlacesReached
<1>4. OutcomeFits'
    BY <1>1, SameWorld DEF OutcomeFits
<1>5. Fits(flow.pc, flow.why)'
    BY SameWorld DEF IInv
<1> QED
    BY <1>2, <1>3, <1>4, <1>5, SameWorld DEF IInv

\* The world of a step is one its except clause can start from.
LEMMA CaughtFits ==
    ASSUME IInv
    PROVE  /\ Fits(Caught(flow.pc).pc, Caught(flow.pc).why)
           /\ Caught(flow.pc).pc \notin {"canary", "apply_canary"}
           /\ flow.pc = "rollback_promotion" => Caught(flow.pc).pc \in Ends
<1>1. CASE flow.pc \in {"implement", "pre_verification", "build"}
    BY <1>1
    DEF IInv, Caught, Fits, FitsCleanup, FitsBuilding, Failures, Building, Undeployed, Deployed0,
        Deployed
<1>2. CASE flow.pc \in {"deploy", "performance"}
    BY <1>2
    DEF IInv, Caught, Fits, FitsCleanup, FitsBuilding, Failures, Building, Undeployed, Deployed0,
        Deployed
<1>3. CASE flow.pc = "canary"
    BY <1>3 DEF IInv, Caught, Fits, OpsAreFresh, BroughtBack, Building, Undeployed, Deployed0
<1>4. CASE flow.pc \in {"promote_source", "finalize"}
    BY <1>4
    DEF IInv, Caught, Fits, FitsPromotion, FitsRollback, Compensations, OpsAreFresh, BroughtBack,
        Building, Undeployed, Deployed0, RunOp, PartOp, Ends
<1>5. CASE Caught(flow.pc) = [pc |-> "error", why |-> "none"]
    BY <1>5 DEF Fits, Building, Undeployed, Deployed0, Ends
<1> QED
    BY <1>1, <1>2, <1>3, <1>4, <1>5, FlowTyped, StepNames DEF Caught, CaughtWithoutRestore, IInv, Ends

\* A step that throws with the world as it is keeps the invariant.
LEMMA ThrowsWell ==
    ASSUME IInv, Throw, flow.pc \notin Ends,
           budget' \in [crashes : 0 .. MaxCrashes, faults : 0 .. MaxFaults],
           SameClass, UNCHANGED <<decisions, route, shifts, release, host, flow>>
    PROVE  IInv'
<1>1. /\ step' \in [at : Places, tries : 0 .. StepAttempts - 1, outcome : Outcome \cup {Pending}]
      /\ \/ flow.pc \in Retried /\ step'.at = "start" /\ step'.outcome = Pending
         \/ step'.at = "returned" /\ step'.outcome = Caught(flow.pc) /\ step'.outcome # Pending
    BY ThrowTyped DEF IInv
<1>2. TypeOK'
    BY <1>1 DEF IInv, TypeOK, SameClass
<1>3. PlacesReached'
    BY <1>1 DEF PlacesReached
<1>4. OutcomeFits'
    BY <1>1, CaughtFits, SameWorld DEF OutcomeFits
<1>5. Fits(flow.pc, flow.why)'
    BY SameWorld DEF IInv
<1> QED
    BY <1>2, <1>3, <1>4, <1>5, SameWorld DEF IInv

LEMMA FaultIInv == IInv /\ Fault => IInv'
<1> SUFFICES ASSUME IInv, Fault
             PROVE  IInv'
    OBVIOUS
<1>1. /\ Throw /\ flow.pc \notin Ends
      /\ SameClass /\ UNCHANGED <<row, decisions, route, shifts, release, host, flow>>
    BY DEF SameClass, IInv, TypeOK, Fault, database, outside, Retried, Guarded, Ends
<1>2. budget' \in [crashes : 0 .. MaxCrashes, faults : 0 .. MaxFaults]
    BY IterationWorkflowAssumption DEF Fault, IInv, TypeOK
<1> QED
    BY <1>1, <1>2, ThrowsWell

LEMMA RestartIInv == IInv /\ Restart => IInv'
<1> SUFFICES ASSUME IInv, Restart
             PROVE  IInv'
    OBVIOUS
<1>1. /\ step' = Fresh
      /\ SameClass /\ UNCHANGED <<row, decisions, route, shifts, release, host, flow>>
    BY DEF SameClass, IInv, TypeOK, Restart, database, outside
<1>2. budget' \in [crashes : 0 .. MaxCrashes, faults : 0 .. MaxFaults]
    BY IterationWorkflowAssumption DEF Restart, IInv, TypeOK
<1>3. TypeOK'
    BY <1>1, <1>2, IterationWorkflowAssumption DEF IInv, TypeOK, Fresh, Places
<1>4. PlacesReached' /\ OutcomeFits'
    BY <1>1 DEF PlacesReached, OutcomeFits, Fresh
<1>5. Fits(flow.pc, flow.why)'
    BY <1>1, SameWorld DEF IInv
<1> QED
    BY <1>1, <1>3, <1>4, <1>5, SameWorld DEF IInv

----------------------------------------------------------------------------
\* The run goes where the outcome says; only a verdict that goes on opens a new round.
LEMMA RecordIInv == IInv /\ Record => IInv'
<1> SUFFICES ASSUME IInv, Record
             PROVE  IInv'
    OBVIOUS
<1> DEFINE next == step.outcome.pc
           why == step.outcome.why
           round == IF flow.pc = "apply_canary" /\ next = "canary" THEN flow.round + 1 ELSE flow.round
<1>1. /\ UNCHANGED <<row, decisions, route, shifts, release, host, budget>>
      /\ step' = Fresh /\ flow' = [pc |-> next, why |-> why, round |-> round]
      /\ step.outcome # Pending /\ flow.pc \in Steps
      /\ next \in Steps \cup Ends /\ why \in Reasons
    BY FlowTyped DEF Record, database, outside, IInv, PlacesReached, Outcome
<1>2. /\ Fits(next, why)
      /\ next = "canary" => flow.pc \in {"canarying", "apply_canary"}
      /\ next = "canary" /\ flow.pc = "apply_canary" => Verdict \in {"ADVANCE", "HOLD"}
      /\ next = "apply_canary" /\ why = "none" => flow.pc = "canary"
      /\ flow.pc = "rollback_promotion" => next \in Ends
    BY <1>1 DEF IInv, OutcomeFits
<1>3. flow' \in [pc : Steps \cup Ends, why : Reasons, round : Nat] /\ round \in Nat
    BY <1>1, FlowTyped DEF IInv
<1>4. TypeOK'
    BY <1>1, <1>3, IterationWorkflowAssumption DEF IInv, TypeOK, Fresh, Places
<1>5. PlacesReached' /\ OutcomeFits'
    BY <1>1 DEF PlacesReached, OutcomeFits, Fresh
<1>6. HistoryComplete' = HistoryComplete /\ flow'.round = round /\ flow'.pc = next /\ flow'.why = why
    BY <1>1 DEF HistoryComplete, Passing
<1>7. CycleFollows' /\ NothingLeftBehind' /\ UsersReachWhatExists'
    <2>1. row.state = "PROMOTED" =>
            /\ next \in {"promote", "promote_source", "finalize", "rollback_promotion"} \cup Ends
            /\ round = flow.round /\ Earned
        BY <1>1, <1>2, StepNames
        DEF IInv, Fits, Building, Undeployed, Deployed0, FitsBuilding, FitsCanary, FitsClosing,
            FitsCleanup, Unpromoted, Underway, Closed, CycleFollows
    <2>2. round = flow.round => HasVerdict' = HasVerdict /\ Verdict' = Verdict
        BY <1>1, <1>6 DEF HasVerdict, Verdict
    <2> QED
        BY <1>1, <1>6, <2>1, <2>2
        DEF IInv, CycleFollows, NothingLeftBehind, UsersReachWhatExists, Earned
<1>8. CASE flow.pc = "apply_canary" /\ next = "canary"
    <2>1. /\ HasVerdict /\ Verdict \in {"ADVANCE", "HOLD"} /\ why = "none" /\ FitsCanary
          /\ round = flow.round + 1
        BY <1>2, <1>8 DEF IInv, Fits, Building, Undeployed, Deployed0
    <2>2. Len(decisions) = round /\ Len(decisions) \in Nat /\ ~HasVerdict'
        BY <1>1, <2>1, DecisionsTyped DEF HasVerdict, IInv
    <2>3. RoundsAreRecorded'
        <3>1. \A i \in 1 .. round : decisions[i].kind \in {"ADVANCE", "HOLD"}
            BY <2>1, <1>3, FlowTyped DEF IInv, RoundsAreRecorded, Verdict
        <3> QED
            BY <1>1, <2>2, <3>1 DEF IInv, RoundsAreRecorded
    <2>4. CurrentStage' = CurrentStage /\ Passed' = Passed /\ Shown' = Shown
        BY <1>1 DEF CurrentStage, Passed, Count, Shown
    <2>5. StagesAreCounted'
        BY <2>1, <2>2, <2>4 DEF IInv, StagesAreCounted
    <2>6. NotYet(TrafficOp(round))
        BY <2>1, <1>3, FlowTyped DEF IInv, OpsAreFresh
    <2>7. TrafficIsShown'
        BY <1>1, <2>4, <2>6 DEF IInv, TrafficIsShown, NotYet, TrafficOp, RoundOp
    <2>8. OpsAreFresh'
        <3>1. \A r \in Nat : r >= round =>
                /\ NotYet(TrafficOp(r)) /\ NotYet(RoundOp("ROLLBACK", r))
                /\ NotYet(RoundOp("failure-restore", r))
            BY <2>1, FlowTyped DEF IInv, OpsAreFresh
        <3>2. \A w \in Compensations : NotYet(PartOp(w, "traffic"))
            BY <1>8 DEF IInv, OpsAreFresh, Ends
        <3> QED
            <4>1. \A r \in Nat : r > flow'.round =>
                    /\ NotYet(TrafficOp(r)) /\ NotYet(RoundOp("ROLLBACK", r))
                    /\ NotYet(RoundOp("failure-restore", r))
                BY <1>3, <1>6, <3>1
            <4>2. NotYet(RoundOp("ROLLBACK", round)) /\ NotYet(RoundOp("failure-restore", round))
                BY <1>3, <3>1
            <4> QED
                BY <1>1, <1>6, <3>2, <4>1, <4>2
                DEF OpsAreFresh, NotYet, BroughtBack, TrafficOp, RoundOp, PartOp, Compensations
    <2>9. Fits(flow.pc, flow.why)'
        BY <1>1, <1>8, <2>1
        DEF Fits, FitsCanary, Unpromoted, Unserved, Building, Undeployed, Deployed0
    <2> QED
        BY <1>4, <1>5, <1>7, <2>3, <2>5, <2>7, <2>8, <2>9 DEF IInv
<1>9. CASE ~(flow.pc = "apply_canary" /\ next = "canary")
    <2>1. flow'.round = flow.round
        BY <1>1, <1>9
    <2>2. /\ HasVerdict' = HasVerdict /\ Verdict' = Verdict /\ Earned' = Earned
          /\ CurrentStage' = CurrentStage /\ Passed' = Passed /\ Shown' = Shown
        <3>1. HasVerdict' = HasVerdict /\ Verdict' = Verdict
            BY <1>1, <2>1 DEF HasVerdict, Verdict
        <3>2. CurrentStage' = CurrentStage /\ Passed' = Passed /\ Shown' = Shown
            BY <1>1 DEF CurrentStage, Passed, Count, Shown
        <3> QED
            BY <1>6, <3>1, <3>2 DEF Earned
    <2>3. RoundsAreRecorded' /\ StagesAreCounted'
        BY <1>1, <2>1, <2>2 DEF IInv, RoundsAreRecorded, StagesAreCounted
    <2>4. TrafficIsShown'
        BY <1>1, <2>1, <2>2 DEF IInv, TrafficIsShown, TrafficOp, RoundOp
    <2>5. \A op : NotYet(op)' = NotYet(op) /\ BroughtBack(op)' = BroughtBack(op)
        BY <1>1 DEF NotYet, BroughtBack
    <2>6. OpsAreFresh'
        <3>1. next = "canary" =>
                /\ NotYet(RoundOp("failure-restore", flow.round))
                /\ NotYet(RoundOp("ROLLBACK", flow.round))
            BY <1>2, <1>9
            DEF IInv, Fits, FitsBuilding, Building, Deployed0, NotYet, RoundOp, RunOp
        <3>2. next = "apply_canary" /\ why = "none" =>
                NotYet(RoundOp("failure-restore", flow.round))
            BY <1>2 DEF IInv, Fits, OpsAreFresh, Building, Undeployed, Deployed0
        <3>3. next \notin {"rollback_promotion"} \cup Ends =>
                flow.pc \notin {"rollback_promotion"} \cup Ends
            BY <1>1, <1>2, StepNames DEF Ends
        <3> QED
            BY <1>1, <2>1, <2>2, <2>5, <3>1, <3>2, <3>3
            DEF IInv, OpsAreFresh, BroughtBack, TrafficOp, RoundOp, PartOp, Compensations, Ends
    <2>7. Fits(flow.pc, flow.why)'
        BY <1>1, <1>2, <2>1, <2>2, <2>5
        DEF Fits, FitsBuilding, FitsCanary, FitsClosing, FitsPromotion, FitsRollback, FitsCleanup,
            Unpromoted, Unserved, Nowhere, RunOp, PartOp, RoundOp
    <2> QED
        BY <1>4, <1>5, <1>7, <2>3, <2>4, <2>6, <2>7 DEF IInv
<1> QED
    BY <1>8, <1>9

----------------------------------------------------------------------------
\* Development: the cycle moves on below promotion, and only the worktree and, at last, the
\* container of the candidate come into being.

LEMMA UnderwayStates ==
    /\ Underway \subseteq States /\ Underway \cap Closed = {}
    /\ "PROMOTED" \notin Underway \cup Closed
    /\ {"CHANGE_PROPOSED", "DEVELOPING", "CANDIDATE_READY", "VERIFYING", "VERIFIED", "BUILT",
        "STAGED", "CANARYING", "PROMOTION_READY"} \subseteq Underway
    BY DEF Underway, States, ActiveStates, Closed

\* A cycle that is moved below promotion, by a step whose successor the world is ready for.
LEMMA MovesWell ==
    ASSUME IInv, flow.pc \notin Ends, Unpromoted, NEW op, NEW to \in Underway,
           NEW refs \in SUBSET Evidence, NEW next \in Steps,
           MoveCycle(op, to, refs, NoDecision, next), Fits(next, flow.why),
           next = "canary" => flow.pc = "canarying",
           next # "apply_canary", flow.pc # "rollback_promotion",
           UNCHANGED <<decisions, route, shifts, release, host, flow, budget>>
    PROVE  IInv'
<1>1. /\ row' \in Row
      /\ \/ row'.state = to /\ Return(next)
         \/ row' = row /\ Throw
    BY MovesOrThrows, UnderwayStates DEF IInv
<1>2. SameClass
    BY <1>1 DEF SameClass, Unpromoted
<1>3. CASE Return(next)
    BY <1>2, <1>3, ReturnsWell, FlowTyped DEF Return, IInv
<1>4. CASE Throw
    BY <1>2, <1>4, ThrowsWell DEF IInv, TypeOK
<1> QED
    BY <1>1, <1>3, <1>4

LEMMA StartDevelopmentIInv == IInv /\ StartDevelopment => IInv'
<1> SUFFICES ASSUME IInv, StartDevelopment
             PROVE  IInv'
    OBVIOUS
<1>1. /\ flow.pc = "start_development"
      /\ UNCHANGED <<decisions, route, shifts, release, host, flow, budget>>
    BY DEF StartDevelopment, At, outside, recorded
<1>2. flow.why = "none" /\ Unpromoted /\ Fits("implement", flow.why)
    BY <1>1
    DEF IInv, Fits, Building, Undeployed, Deployed0, FitsBuilding
<1>3. "implement" \in Steps /\ {} \in SUBSET Evidence
    BY StepNames
<1>4. CASE UNCHANGED row /\ Return("implement")
    BY <1>1, <1>2, <1>3, <1>4, ReturnsWell, FlowTyped DEF Return, IInv, TypeOK, SameClass, Ends
<1>5. CASE UNCHANGED row /\ Throw
    BY <1>1, <1>5, ThrowsWell DEF IInv, TypeOK, SameClass, Ends
<1>6. CASE MoveCycle(RunOp("developing"), "DEVELOPING", {}, NoDecision, "implement")
    BY <1>1, <1>2, <1>3, <1>6, MovesWell, UnderwayStates DEF Ends
<1> QED
    BY <1>4, <1>5, <1>6 DEF StartDevelopment

LEMMA MoveIInv == IInv /\ Move => IInv'
<1> SUFFICES ASSUME IInv, Move
             PROVE  IInv'
    OBVIOUS
<1> DEFINE move == Moves[flow.pc]
<1>1. /\ flow.pc \in DOMAIN Moves
      /\ MoveCycle(RunOp(flow.pc), move.to, move.refs, NoDecision, move.next)
      /\ UNCHANGED <<decisions, route, shifts, release, host, flow, budget>>
    BY DEF Move, outside, recorded
<1>2. /\ flow.pc \in Building /\ flow.pc \notin Ends /\ flow.pc # "rollback_promotion"
      /\ move.refs \in SUBSET Evidence /\ move.to \in Underway
      /\ move.next \in {"start_verification", "pre_verification", "build", "deploy",
                       "performance", "canary"}
      /\ move.next = "canary" => flow.pc = "canarying"
      /\ move.next = "performance" => flow.pc = "staged"
      /\ move.next \in Undeployed => flow.pc \in Undeployed
    BY <1>1, UnderwayStates DEF Moves, Building, Undeployed, Deployed0, Ends, Evidence
<1>3. flow.why = "none" /\ FitsBuilding
      /\ (flow.pc \in Undeployed => host.container = "none")
      /\ (flow.pc \in Deployed0 => host.container = "running")
    BY <1>2 DEF IInv, Fits
<1>4. Fits(move.next, flow.why) /\ Unpromoted
    BY <1>2, <1>3
    DEF Fits, FitsBuilding, FitsCanary, Building, Undeployed, Deployed0
<1>5. move.next \in Steps /\ move.next # "apply_canary"
    BY <1>2, StepNames
<1> HIDE DEF move
<1> QED
    BY <1>1, <1>2, <1>4, <1>5, MovesWell

\* A gate's verdict, a build and an experiment leave the world as it is.
LEMMA GatesIInv == IInv /\ (Verify \/ Measure \/ Prepare) => IInv'
<1> SUFFICES ASSUME IInv, Verify \/ Measure \/ Prepare
             PROVE  IInv'
    OBVIOUS
<1>1. /\ flow.pc \in {"pre_verification", "performance", "build", "ensure_experiment"}
      /\ UNCHANGED <<row, decisions, route, shifts, release, host, flow, budget>>
    BY DEF Verify, Measure, Prepare, At, database, outside, recorded
<1>2. flow.why = "none" /\ SameClass
    BY <1>1 DEF IInv, TypeOK, SameClass, Fits, Building, Undeployed, Deployed0
<1>3. PICK next \in Steps, why \in Reasons :
        /\ ReturnBecause(next, why)
        /\ \/ flow.pc = "pre_verification" /\ next = "verified" /\ why = "none"
           \/ flow.pc = "pre_verification" /\ next = "cleanup" /\ why = "pre-verification-reject"
           \/ flow.pc = "performance" /\ next = "ensure_experiment" /\ why = "none"
           \/ flow.pc = "performance" /\ next = "cleanup" /\ why = "performance-reject"
           \/ flow.pc = "build" /\ next = "built" /\ why = "none"
           \/ flow.pc = "ensure_experiment" /\ next = "canarying" /\ why = "none"
    BY <1>2, StepNames, ReasonNames DEF Verify, Measure, Prepare, At, Return
<1>4. Fits(next, why)
    BY <1>2, <1>3
    DEF IInv, Fits, FitsBuilding, FitsCleanup, Building, Undeployed, Deployed0, Rejections, Deployed
<1> QED
    BY <1>1, <1>2, <1>3, <1>4, ReturnsWell DEF Ends

\* What the steps before the canary do to the host concerns nobody else.
LEMMA DevelopmentStays ==
    ASSUME IInv, flow.pc \in {"implement", "deploy"}, step.outcome = Pending,
           UNCHANGED <<row, decisions, route, shifts, release, flow, budget>>,
           host'.head = host.head,
           flow.pc = "implement" => host'.container = "none",
           NEW next \in Steps,
           \/ Goto("worktree")
           \/ Return(next) /\ Fits(next, "none")'
              /\ next \notin {"canary", "apply_canary"},
           host' \in [head : {"baseline", "candidate"}, worktree : {"absent", "created", "committed"},
                     container : {"none", "running"}]
    PROVE  IInv'
<1>1. flow.why = "none" /\ FitsBuilding /\ route.weight = 0 /\ release.serving = "baseline"
    BY DEF IInv, Fits, FitsBuilding, Building, Undeployed, Unserved
<1>2. FitsBuilding'
    BY <1>1 DEF FitsBuilding, Unpromoted, Unserved, RunOp
<1>3. Fits(flow.pc, flow.why)'
    BY <1>1, <1>2 DEF Fits, Building, Undeployed, Deployed0
<1>4. CycleFollows' /\ NothingLeftBehind' /\ UsersReachWhatExists'
    BY <1>1, UnderwayStates
    DEF IInv, CycleFollows, NothingLeftBehind, UsersReachWhatExists, FitsBuilding, Unpromoted, Closed
<1>5. CASE Goto("worktree")
    <2>1. /\ step' \in [at : Places, tries : 0 .. StepAttempts - 1, outcome : Outcome \cup {Pending}]
          /\ step'.at = "worktree" /\ step'.outcome = Pending
        BY <1>5, GotoTyped DEF IInv, Places
    <2>2. TypeOK'
        BY <2>1 DEF IInv, TypeOK
    <2>3. PlacesReached' /\ OutcomeFits'
        BY <2>1 DEF PlacesReached, OutcomeFits
    <2> QED
        BY <1>3, <1>4, <2>2, <2>3, SameTraffic DEF IInv
<1>6. CASE Return(next) /\ Fits(next, "none")' /\ next \notin {"canary", "apply_canary"}
    <2>1. /\ step' \in [at : Places, tries : 0 .. StepAttempts - 1, outcome : Outcome \cup {Pending}]
          /\ step'.at = "returned" /\ step'.outcome = [pc |-> next, why |-> "none"]
          /\ step'.outcome # Pending
        BY <1>1, <1>6, ReturnTyped, ReasonNames DEF IInv, Return
    <2>2. TypeOK'
        BY <2>1 DEF IInv, TypeOK
    <2>3. PlacesReached' /\ OutcomeFits'
        BY <1>6, <2>1 DEF PlacesReached, OutcomeFits, Ends
    <2> QED
        BY <1>3, <1>4, <2>2, <2>3, SameTraffic DEF IInv
<1> QED
    BY <1>5, <1>6

LEMMA ImplementIInv == IInv /\ (CreateWorktree \/ CommitCandidate) => IInv'
<1> SUFFICES ASSUME IInv, CreateWorktree \/ CommitCandidate
             PROVE  IInv'
    OBVIOUS
<1>1. /\ flow.pc = "implement" /\ step.outcome = Pending
      /\ UNCHANGED <<row, decisions, route, shifts, release, flow, budget>>
    BY DEF CreateWorktree, CommitCandidate, At, database, recorded
<1>2. /\ host' \in [head : {"baseline", "candidate"}, worktree : {"absent", "created", "committed"},
                    container : {"none", "running"}]
      /\ host'.head = host.head /\ host'.container = host.container /\ host.container = "none"
    BY <1>1 DEF CreateWorktree, CommitCandidate, IInv, TypeOK, Fits, Undeployed
<1>3. FitsBuilding
    BY <1>1 DEF IInv, Fits, Building, Undeployed
<1>4. Fits("candidate_ready", "none")'
    BY <1>1, <1>2, <1>3
    DEF Fits, FitsBuilding, Building, Undeployed, Deployed0, Unpromoted, Unserved, RunOp
<1>5. Goto("worktree") \/ Return("candidate_ready")
    BY DEF CreateWorktree, CommitCandidate
<1> QED
    BY <1>1, <1>2, <1>4, <1>5, DevelopmentStays, StepNames

LEMMA DeployIInv == IInv /\ Deploy => IInv'
<1> SUFFICES ASSUME IInv, Deploy
             PROVE  IInv'
    OBVIOUS
<1>1. /\ flow.pc = "deploy" /\ step.outcome = Pending /\ Return("staged")
      /\ UNCHANGED <<row, decisions, route, shifts, release, flow, budget>>
    BY DEF Deploy, At, database, recorded
<1>2. /\ host' \in [head : {"baseline", "candidate"}, worktree : {"absent", "created", "committed"},
                    container : {"none", "running"}]
      /\ host'.head = host.head /\ host'.container = "running"
    BY <1>1 DEF Deploy, IInv, TypeOK
<1>3. FitsBuilding
    BY <1>1 DEF IInv, Fits, Building
<1>4. Fits("staged", "none")'
    BY <1>1, <1>2, <1>3
    DEF Fits, FitsBuilding, Building, Undeployed, Deployed0, Unpromoted, Unserved, RunOp
<1> QED
    BY <1>1, <1>2, <1>4, DevelopmentStays, StepNames

----------------------------------------------------------------------------
\* The canary.  The step looks its round's decision up, and finds the one that was recorded.
LEMMA LooksUpItsRound ==
    ASSUME IInv
    PROVE  /\ AnswersOf(flow.round) # {} <=> HasVerdict
           /\ HasVerdict => KindOf(flow.round) = Verdict
           /\ HasVerdict => Verdict \in {"ADVANCE", "HOLD", "ROLLBACK", "PROMOTION_READY"}
<1>1. ASSUME NEW d \in AnswersOf(flow.round)
      PROVE  HasVerdict /\ d = decisions[flow.round + 1]
    <2>1. PICK i \in DOMAIN decisions : d = decisions[i] /\ d.round = flow.round
        BY DEF AnswersOf
    <2>2. i - 1 = flow.round
        BY <2>1 DEF IInv, RoundsAreRecorded
    <2> QED
        BY <2>1, <2>2, DecisionsTyped, FlowTyped DEF IInv, RoundsAreRecorded, HasVerdict
<1>2. ASSUME HasVerdict
      PROVE  /\ decisions[flow.round + 1] \in AnswersOf(flow.round)
             /\ Verdict \in {"ADVANCE", "HOLD", "ROLLBACK", "PROMOTION_READY"}
    <2>1. flow.round + 1 \in DOMAIN decisions /\ (flow.round + 1) - 1 = flow.round
        BY <1>2, DecisionsTyped, FlowTyped DEF IInv, HasVerdict
    <2> QED
        BY <2>1, DecisionsTyped DEF IInv, RoundsAreRecorded, AnswersOf, Verdict
<1> QED
    BY <1>1, <1>2 DEF KindOf, Verdict

\* Traffic is withdrawn under an operation of its own: whatever the receipts, it is as shown
\* as before, and what was brought back stays so.
LEMMA WithdrawsTraffic ==
    ASSUME IInv, UNCHANGED <<decisions, flow>>, NEW op, op # TrafficOp(flow.round),
           Route(op, 0) \/ UNCHANGED <<route, shifts>>
    PROVE  /\ RoundsAreRecorded' /\ StagesAreCounted' /\ TrafficIsShown'
           /\ HasVerdict' = HasVerdict /\ Verdict' = Verdict /\ Earned' = Earned
           /\ route'.weight \in Weights
           /\ route' = route \/ route'.weight = 0
           /\ \A o : o # op /\ NotYet(o) => NotYet(o)'
           /\ \A o : BroughtBack(o) => BroughtBack(o)'
<1>1. CASE UNCHANGED <<route, shifts>>
    BY <1>1, SameTraffic DEF IInv, TypeOK, NotYet
<1>2. CASE route' = [op |-> op, weight |-> 0]
           /\ shifts' = shifts \cup {[op |-> op, stage |-> CurrentStage, weight |-> 0]}
    <2>1. /\ HasVerdict' = HasVerdict /\ Verdict' = Verdict
          /\ CurrentStage' = CurrentStage /\ Passed' = Passed /\ HistoryComplete' = HistoryComplete
        BY DEF HasVerdict, Verdict, CurrentStage, Passed, Count, HistoryComplete, Passing
    <2>2. Shown' = Shown
        BY <1>2 DEF Shown
    <2>3. RoundsAreRecorded' /\ StagesAreCounted'
        BY <2>1 DEF IInv, RoundsAreRecorded, StagesAreCounted
    <2>4. TrafficIsShown'
        <3>1. TrafficOp(flow.round)' = TrafficOp(flow.round) /\ route'.op # TrafficOp(flow.round)
            BY <1>2 DEF TrafficOp, RoundOp
        <3>2. \A s \in shifts' : s.op = TrafficOp(flow.round) => s \in shifts
            BY <1>2
        <3> QED
            BY <2>1, <2>2, <3>1, <3>2 DEF IInv, TrafficIsShown
    <2>5. route'.weight \in Weights /\ route'.weight = 0
        BY <1>2, StagesTyped
    <2> QED
        BY <1>2, <2>1, <2>3, <2>4, <2>5 DEF NotYet, BroughtBack, Earned
<1> QED
    BY <1>1, <1>2 DEF Route

\* Operations of the round that answer for nobody else.
LEMMA OpsDiffer ==
    /\ \A a, b, r, q : RoundOp(a, r) = RoundOp(b, q) <=> a = b /\ r = q
    /\ \A r : TrafficOp(r) = RoundOp("traffic", r)
    /\ \A a, r, w : RoundOp(a, r) # PartOp(w, "traffic")
    /\ \A w, v : PartOp(w, "traffic") = PartOp(v, "traffic") => w = v
    BY DEF TrafficOp, RoundOp, PartOp

LEMMA ShiftTrafficIInv == IInv /\ ShiftTraffic => IInv'
<1> SUFFICES ASSUME IInv, ShiftTraffic
             PROVE  IInv'
    OBVIOUS
<1>1. /\ flow.pc = "canary" /\ step.outcome = Pending
      /\ UNCHANGED <<row, decisions, release, host, flow, budget>>
    BY DEF ShiftTraffic, At, database, recorded
<1>2. flow.why = "none" /\ FitsCanary
    BY <1>1 DEF IInv, Fits, Building, Undeployed, Deployed0
<1>3. /\ step' \in [at : Places, tries : 0 .. StepAttempts - 1, outcome : Outcome \cup {Pending}]
      /\ step'.outcome = Pending
      /\ \/ HasVerdict /\ step'.at = "decided" /\ UNCHANGED <<route, shifts>>
         \/ ~HasVerdict /\ step'.at = "routed" /\ Route(TrafficOp(flow.round), Stages[CurrentStage])
    BY <1>1, LooksUpItsRound, GotoTyped DEF ShiftTraffic, IInv, Places
<1>4. /\ HasVerdict' = HasVerdict /\ Verdict' = Verdict
      /\ CurrentStage' = CurrentStage /\ Passed' = Passed
    BY <1>1 DEF HasVerdict, Verdict, CurrentStage, Passed, Count
<1>5. PlacesReached' /\ OutcomeFits'
    BY <1>1, <1>3, <1>4 DEF PlacesReached, OutcomeFits
<1>6. Fits(flow.pc, flow.why)'
    BY <1>1, <1>2
    DEF Fits, FitsCanary, Unpromoted, Unserved, Building, Undeployed, Deployed0
<1>7. CycleFollows' /\ NothingLeftBehind' /\ UsersReachWhatExists'
    BY <1>1, <1>2, UnderwayStates
    DEF IInv, CycleFollows, NothingLeftBehind, UsersReachWhatExists, FitsCanary, Unpromoted,
        Unserved, Closed
<1>8. CASE UNCHANGED <<route, shifts>>
    <2>1. TypeOK'
        BY <1>1, <1>3, <1>8 DEF IInv, TypeOK
    <2> QED
        BY <1>1, <1>5, <1>6, <1>7, <1>8, <2>1, SameTraffic DEF IInv
<1>9. CASE /\ ~HasVerdict
           /\ route' = [op |-> TrafficOp(flow.round), weight |-> Stages[CurrentStage]]
           /\ shifts' = shifts \cup {[op |-> TrafficOp(flow.round), stage |-> CurrentStage,
                                      weight |-> Stages[CurrentStage]]}
    <2>1. /\ CurrentStage \in 1 .. Len(Stages) /\ Passed = CurrentStage - 1
          /\ Stages[CurrentStage] \in Weights /\ Stages[CurrentStage] > 0
        BY <1>9, StagesTyped DEF IInv, StagesAreCounted
    <2>2. TypeOK'
        BY <1>1, <1>3, <1>9, <2>1 DEF IInv, TypeOK
    <2>3. RoundsAreRecorded' /\ StagesAreCounted'
        BY <1>1, <1>4 DEF IInv, RoundsAreRecorded, StagesAreCounted
    <2>4. Shown' = Shown \cup {CurrentStage}
        <3>1. \A n : n \in Shown <=> \E s \in shifts : s.weight > 0 /\ s.stage = n
            BY DEF Shown
        <3>2. \A n : n \in Shown' <=> \E s \in shifts' : s.weight > 0 /\ s.stage = n
            BY DEF Shown
        <3> DEFINE shift == [op |-> TrafficOp(flow.round), stage |-> CurrentStage,
                             weight |-> Stages[CurrentStage]]
        <3>3. shift.weight > 0 /\ shift.stage = CurrentStage /\ shifts' = shifts \cup {shift}
            BY <1>9, <2>1
        <3> HIDE DEF shift
        <3>4. \A n : n \in Shown' <=> n \in Shown \/ n = CurrentStage
            BY <3>1, <3>2, <3>3
        <3> QED
            BY <3>4
    <2>5. Shown' = 1 .. Passed + 1
        BY <2>1, <2>4 DEF IInv, TrafficIsShown
    <2>6. TrafficIsShown'
        <3>1. TrafficOp(flow.round)' = TrafficOp(flow.round)
            BY <1>1 DEF TrafficOp, RoundOp
        <3>2. \A s \in shifts' : s.op = TrafficOp(flow.round) =>
                s.stage = CurrentStage /\ s.weight = Stages[CurrentStage]
            BY <1>9 DEF IInv, TrafficIsShown
        <3> DEFINE shift == [op |-> TrafficOp(flow.round), stage |-> CurrentStage,
                             weight |-> Stages[CurrentStage]]
        <3>3. /\ shift \in shifts'
              /\ shift.op = route'.op /\ shift.weight = route'.weight
            BY <1>9
        <3> QED
            BY <1>1, <1>4, <2>5, <3>1, <3>2, <3>3 DEF IInv, TrafficIsShown
    <2>7. \A op : op # TrafficOp(flow.round) /\ NotYet(op) => NotYet(op)'
        BY <1>9 DEF NotYet
    <2>8. OpsAreFresh'
        BY <1>1, <1>4, <1>9, <2>7, OpsDiffer, FlowTyped
        DEF IInv, OpsAreFresh, BroughtBack, NotYet, TrafficOp, RoundOp, PartOp
    <2> QED
        BY <1>5, <1>6, <1>7, <2>2, <2>3, <2>6, <2>8 DEF IInv
<1> QED
    BY <1>3, <1>8, <1>9 DEF Route

\* A decision more is one more of its kind.
LEMMA CountsUp ==
    ASSUME TypeOK, NEW d \in Decision, decisions' = Append(decisions, d), NEW kinds
    PROVE  /\ Count(kinds) \in Nat
           /\ d.kind \in kinds => Count(kinds)' = Count(kinds) + 1
           /\ d.kind \notin kinds => Count(kinds)' = Count(kinds)
<1> DEFINE n == Len(decisions)
           old == {i \in DOMAIN decisions : decisions[i].kind \in kinds}
           new == {i \in DOMAIN decisions' : decisions'[i].kind \in kinds}
<1>1. n \in Nat /\ DOMAIN decisions = 1 .. n
    BY DecisionsTyped
<1>2. decisions \in Seq(Decision)
    BY DEF TypeOK
<1>3. /\ DOMAIN decisions' = 1 .. n + 1 /\ decisions'[n + 1] = d
      /\ \A i \in 1 .. n : decisions'[i] = decisions[i]
    BY <1>1, <1>2
<1>4. IsFiniteSet(old) /\ Cardinality(old) \in Nat /\ n + 1 \notin old
    <2>1. IsFiniteSet(1 .. n)
        BY <1>1, FS_Interval
    <2>2. old \subseteq 1 .. n
        BY <1>1
    <2>3. IsFiniteSet(old)
        BY <2>1, <2>2, FS_Subset
    <2> QED
        BY <1>1, <2>2, <2>3, FS_CardinalityType
<1>5. CASE d.kind \in kinds
    <2>1. new = old \cup {n + 1}
        BY <1>1, <1>3, <1>5
    <2>2. Cardinality(new) = Cardinality(old) + 1
        BY <1>4, <2>1, FS_AddElement
    <2> QED
        BY <1>4, <1>5, <2>2 DEF Count
<1>6. CASE d.kind \notin kinds
    <2>1. new = old
        BY <1>1, <1>3, <1>6
    <2> QED
        BY <1>4, <1>6, <2>1 DEF Count
<1> QED
    BY <1>5, <1>6

\* A stage is passed only on traffic the round's own shift made, and that had its weight.
LEMMA VerdictsOnOwnTraffic ==
    ASSUME IInv, ~HasVerdict, NEW kind \in Verdicts
    PROVE  /\ kind \in {"ADVANCE", "HOLD", "ROLLBACK", "PROMOTION_READY"}
           /\ kind = "ADVANCE" => CurrentStage # Len(Stages)
           /\ kind = "PROMOTION_READY" => CurrentStage = Len(Stages)
           /\ kind \in {"ADVANCE", "PROMOTION_READY"} =>
                route.weight = Stages[CurrentStage] /\ Shown = 1 .. Passed + 1
<1>1. CASE kind \in {"HOLD", "ROLLBACK"}
    BY <1>1
<1>2. CASE kind \notin {"HOLD", "ROLLBACK"}
    <2>1. route.op = TrafficOp(flow.round) /\ kind = Passing(CurrentStage)
        BY <1>2 DEF Verdicts
    <2>2. PICK s \in shifts : s.op = route.op /\ s.weight = route.weight
        BY <2>1 DEF IInv, TrafficIsShown
    <2>3. s.stage = CurrentStage /\ s.weight = Stages[CurrentStage]
        BY <2>1, <2>2 DEF IInv, TrafficIsShown
    <2>4. CurrentStage \in 1 .. Len(Stages) /\ Passed = CurrentStage - 1
        BY DEF IInv, StagesAreCounted
    <2>5. s.weight > 0
        BY <2>3, <2>4, StagesTyped
    <2>6. CurrentStage \in Shown
        BY <2>3, <2>5 DEF Shown
    <2>7. Shown = 1 .. Passed + 1
        BY <2>4, <2>6, StagesTyped DEF IInv, TrafficIsShown
    <2> QED
        BY <2>1, <2>2, <2>3, <2>7 DEF Passing
<1> QED
    BY <1>1, <1>2

LEMMA RecordVerdictIInv == IInv /\ RecordVerdict => IInv'
<1> SUFFICES ASSUME IInv, RecordVerdict
             PROVE  IInv'
    OBVIOUS
<1>1. /\ flow.pc = "canary" /\ step.outcome = Pending /\ Goto("decided") /\ ~HasVerdict
      /\ UNCHANGED <<row, release, route, shifts, host, flow, budget>>
    BY DEF RecordVerdict, At, outside, recorded, IInv, PlacesReached
<1>2. flow.why = "none" /\ FitsCanary
    BY <1>1 DEF IInv, Fits, Building, Undeployed, Deployed0
<1> DEFINE verdict(kind) == [round |-> flow.round, stage |-> CurrentStage, kind |-> kind,
                             share |-> route.weight]
<1>3. PICK kind \in Verdicts : decisions' = Append(decisions, verdict(kind))
    BY DEF RecordVerdict
<1> DEFINE d == verdict(kind)
<1>4. /\ d.round = flow.round /\ d.stage = CurrentStage /\ d.kind = kind
      /\ d.share = route.weight /\ d \in Decision
    BY <1>1, VerdictsOnOwnTraffic, FlowTyped DEF Decision, IInv, TypeOK, StagesAreCounted
<1>5. Len(decisions) = flow.round /\ flow.round \in Nat /\ decisions \in Seq(Decision)
    BY <1>1, DecisionsTyped, FlowTyped DEF IInv, TypeOK, RoundsAreRecorded, HasVerdict
<1>6. decisions' = Append(decisions, d)
    BY <1>3
<1> HIDE DEF d
<1>7. /\ decisions' \in Seq(Decision) /\ Len(decisions') = flow.round + 1
      /\ DOMAIN decisions' = 1 .. flow.round + 1 /\ DOMAIN decisions = 1 .. flow.round
      /\ decisions'[flow.round + 1] = d
      /\ \A i \in 1 .. flow.round : decisions'[i] = decisions[i]
    BY <1>4, <1>5, <1>6
<1>8. HasVerdict' /\ Verdict' = kind
    BY <1>1, <1>4, <1>7 DEF HasVerdict, Verdict
<1>9. /\ kind \in {"ADVANCE", "HOLD", "ROLLBACK", "PROMOTION_READY"}
      /\ kind = "ADVANCE" => CurrentStage # Len(Stages)
      /\ kind = "PROMOTION_READY" => CurrentStage = Len(Stages)
      /\ kind \in {"ADVANCE", "PROMOTION_READY"} =>
           route.weight = Stages[CurrentStage] /\ Shown = 1 .. Passed + 1
    BY <1>1, VerdictsOnOwnTraffic
<1>10. /\ CurrentStage' = IF kind = "ADVANCE" THEN CurrentStage + 1 ELSE CurrentStage
       /\ Passed' = IF kind \in {"ADVANCE", "PROMOTION_READY"} THEN Passed + 1 ELSE Passed
       /\ CurrentStage \in 1 .. Len(Stages) /\ Passed = CurrentStage - 1
    <2>1. TypeOK
        BY DEF IInv
    <2>2. /\ Count({"ADVANCE"})' =
               IF kind = "ADVANCE" THEN Count({"ADVANCE"}) + 1 ELSE Count({"ADVANCE"})
          /\ Count({"ADVANCE"}) \in Nat
        BY <1>4, <1>6, <2>1, CountsUp
    <2>3. Passed' = IF kind \in {"ADVANCE", "PROMOTION_READY"} THEN Passed + 1 ELSE Passed
        BY <1>4, <1>6, <2>1, CountsUp DEF Passed
    <2> QED
        BY <1>1, <2>2, <2>3 DEF CurrentStage, IInv, StagesAreCounted
<1>11. TypeOK'
    <2>1. step' \in [at : Places, tries : 0 .. StepAttempts - 1, outcome : Outcome \cup {Pending}]
        BY <1>1, GotoTyped DEF IInv, Places
    <2> QED
        BY <1>1, <1>7, <2>1 DEF IInv, TypeOK
<1>12. RoundsAreRecorded'
    <2>1. \A i \in 1 .. flow.round + 1 : decisions'[i].round = i - 1
        BY <1>4, <1>5, <1>7 DEF IInv, RoundsAreRecorded
    <2>2. \A i \in 1 .. flow.round : decisions'[i].kind \in {"ADVANCE", "HOLD"}
        BY <1>7 DEF IInv, RoundsAreRecorded
    <2> QED
        BY <1>1, <1>7, <2>1, <2>2 DEF RoundsAreRecorded
<1>13. StagesAreCounted'
    <2>1. Len(Stages) \in Nat
        BY StagesTyped
    <2>2. CASE kind = "ADVANCE"
        <3>1. CurrentStage' = CurrentStage + 1 /\ Passed' = Passed + 1
            BY <1>10, <2>2
        <3> QED
            BY <1>8, <1>9, <1>10, <2>1, <2>2, <3>1 DEF StagesAreCounted
    <2>3. CASE kind = "PROMOTION_READY"
        <3>1. CurrentStage' = CurrentStage /\ Passed' = Passed + 1
            BY <1>10, <2>3
        <3> QED
            BY <1>8, <1>9, <1>10, <2>1, <2>3, <3>1 DEF StagesAreCounted
    <2>4. CASE kind \in {"HOLD", "ROLLBACK"}
        <3>1. CurrentStage' = CurrentStage /\ Passed' = Passed
            BY <1>10, <2>4
        <3> QED
            BY <1>8, <1>9, <1>10, <2>1, <2>4, <3>1 DEF StagesAreCounted
    <2> QED
        BY <1>9, <2>2, <2>3, <2>4
<1>14. TrafficIsShown'
    <2>1. \A k \in DOMAIN decisions' : decisions'[k].kind \in {"ADVANCE", "PROMOTION_READY"} =>
            decisions'[k].share = Stages[decisions'[k].stage]
        BY <1>4, <1>5, <1>7, <1>9 DEF IInv, TrafficIsShown
    <2>2. Shown' = Shown /\ TrafficOp(flow.round)' = TrafficOp(flow.round)
        BY <1>1 DEF Shown, TrafficOp, RoundOp
    <2>3. Shown' \in {1 .. Passed', 1 .. Passed' + 1}
        BY <1>9, <1>10, <2>2 DEF IInv, TrafficIsShown
    <2> QED
        BY <1>1, <1>8, <2>1, <2>2, <2>3 DEF IInv, TrafficIsShown
<1>15. OpsAreFresh'
    BY <1>1, <1>8
    DEF IInv, OpsAreFresh, NotYet, BroughtBack, TrafficOp, RoundOp, PartOp, Compensations, Ends
<1>16. PlacesReached' /\ OutcomeFits'
    BY <1>1, <1>8, GotoTyped DEF IInv, PlacesReached, OutcomeFits, Places
<1>17. Fits(flow.pc, flow.why)'
    BY <1>1, <1>2
    DEF Fits, FitsCanary, Unpromoted, Unserved, Building, Undeployed, Deployed0
<1>18. CycleFollows' /\ NothingLeftBehind' /\ UsersReachWhatExists'
    BY <1>1, <1>2, UnderwayStates
    DEF IInv, CycleFollows, NothingLeftBehind, UsersReachWhatExists, FitsCanary, Unpromoted,
        Unserved, Closed
<1> QED
    BY <1>11, <1>12, <1>13, <1>14, <1>15, <1>16, <1>17, <1>18 DEF IInv

LEMMA ObserverFailsIInv == IInv /\ ObserverFails => IInv'
<1> SUFFICES ASSUME IInv, ObserverFails
             PROVE  IInv'
    OBVIOUS
<1>1. /\ flow.pc = "canary" /\ step.at = "routed" /\ step.outcome = Pending /\ Goto("unobserved")
      /\ UNCHANGED <<row, decisions, release, route, shifts, host, flow>>
    BY DEF ObserverFails, At, database, outside
<1>2. budget' \in [crashes : 0 .. MaxCrashes, faults : 0 .. MaxFaults]
    <2>1. budget.faults < MaxFaults /\ budget' = [budget EXCEPT !.faults = @ + 1]
        BY DEF ObserverFails
    <2>2. budget \in [crashes : 0 .. MaxCrashes, faults : 0 .. MaxFaults]
        BY DEF IInv, TypeOK
    <2> QED
        BY <2>1, <2>2, IterationWorkflowAssumption
<1>3. /\ step' \in [at : Places, tries : 0 .. StepAttempts - 1, outcome : Outcome \cup {Pending}]
      /\ step'.at = "unobserved" /\ step'.outcome = Pending
    BY <1>1, GotoTyped DEF IInv, Places
<1>4. SameClass
    BY <1>1 DEF SameClass, IInv, TypeOK
<1>5. TypeOK'
    BY <1>1, <1>2, <1>3 DEF IInv, TypeOK
<1>6. PlacesReached' /\ OutcomeFits'
    BY <1>1, <1>3, <1>4, SameWorld DEF IInv, PlacesReached, OutcomeFits
<1> QED
    BY <1>1, <1>4, <1>5, <1>6, SameWorld DEF IInv

\* A step that withdraws traffic, or finds it withdrawn, and then goes on as it should.
LEMMA WithdrawsWell ==
    ASSUME IInv, flow.pc \in {"canary", "restore_canary", "rollback_promotion"},
           UNCHANGED <<row, decisions, release, host, flow, budget>>,
           NEW op,
           \/ flow.pc = "canary" /\ op \in {RoundOp("observer-failed", flow.round),
                                          RoundOp("HOLD", flow.round)}
           \/ flow.pc = "canary" /\ op = RoundOp("ROLLBACK", flow.round) /\ HasVerdict
           \/ flow.pc = "restore_canary" /\ op = RoundOp("failure-restore", flow.round)
           \/ flow.pc = "rollback_promotion" /\ op = PartOp(flow.why, "traffic"),
           Route(op, 0) \/ UNCHANGED <<route, shifts>>,
           step' \in [at : Places, tries : 0 .. StepAttempts - 1, outcome : Outcome \cup {Pending}]
    PROVE  /\ op # TrafficOp(flow.round)
           /\ Fits(flow.pc, flow.why)'
           /\ \A pc, why : pc \notin Building /\ Fits(pc, why) => Fits(pc, why)'
           /\ PlacesReached' /\ OutcomeFits' => IInv'
<1>1. op # TrafficOp(flow.round)
    BY OpsDiffer
<1>2. /\ RoundsAreRecorded' /\ StagesAreCounted' /\ TrafficIsShown'
      /\ HasVerdict' = HasVerdict /\ Verdict' = Verdict /\ Earned' = Earned
      /\ route'.weight \in Weights
      /\ route' = route \/ route'.weight = 0
      /\ \A o : o # op /\ NotYet(o) => NotYet(o)'
      /\ \A o : BroughtBack(o) => BroughtBack(o)'
    BY <1>1, WithdrawsTraffic
<1>3. TypeOK'
    BY <1>2 DEF IInv, TypeOK
<1>4. \A pc, why : pc \notin Building /\ Fits(pc, why) => Fits(pc, why)'
    BY <1>2
    DEF Fits, FitsCanary, FitsClosing, FitsPromotion, FitsRollback, FitsCleanup,
        Unpromoted, Unserved, Nowhere, RunOp, PartOp, RoundOp, Building
<1>5. Fits(flow.pc, flow.why)'
    <2>1. flow.pc \notin Building
        BY DEF Building, Undeployed, Deployed0
    <2>2. Fits(flow.pc, flow.why)
        BY DEF IInv
    <2>3. flow'.pc = flow.pc /\ flow'.why = flow.why
        OBVIOUS
    <2> HIDE DEF Fits
    <2> QED
        BY <1>4, <2>1, <2>2, <2>3
<1>6. OpsAreFresh'
    <2>1. \A r \in Nat : r > flow.round =>
            op \notin {TrafficOp(r), RoundOp("ROLLBACK", r), RoundOp("failure-restore", r)}
        BY OpsDiffer, FlowTyped DEF IInv
    <2>2. flow.pc = "canary" => op # RoundOp("failure-restore", flow.round)
        BY OpsDiffer
    <2>3. flow.pc = "canary" /\ ~HasVerdict => op # RoundOp("ROLLBACK", flow.round)
        BY OpsDiffer
    <2>4. flow.pc # "rollback_promotion" => \A w : op # PartOp(w, "traffic")
        BY OpsDiffer
    <2>5. \A r \in Nat : r > flow'.round =>
            /\ NotYet(TrafficOp(r))' /\ NotYet(RoundOp("ROLLBACK", r))'
            /\ NotYet(RoundOp("failure-restore", r))'
        BY <1>2, <2>1 DEF IInv, OpsAreFresh
    <2>6. flow.pc = "canary" /\ flow.why = "none" => NotYet(RoundOp("failure-restore", flow.round))'
        BY <1>2, <2>2 DEF IInv, OpsAreFresh, RoundOp
    <2>7. flow.pc = "canary" =>
            /\ BroughtBack(RoundOp("ROLLBACK", flow.round))'
            /\ ~HasVerdict => NotYet(RoundOp("ROLLBACK", flow.round))'
        BY <1>2, <2>3 DEF IInv, OpsAreFresh, RoundOp
    <2>8. flow.pc # "rollback_promotion" => \A w \in Compensations : NotYet(PartOp(w, "traffic"))'
        BY <1>2, <2>4 DEF IInv, OpsAreFresh, Ends
    <2> QED
        BY <1>2, <2>5, <2>6, <2>7, <2>8
        DEF OpsAreFresh, BroughtBack, NotYet, TrafficOp, RoundOp, PartOp, Compensations
<1>7. CycleFollows' /\ NothingLeftBehind' /\ UsersReachWhatExists'
    BY <1>2, StagesTyped DEF IInv, TypeOK, CycleFollows, NothingLeftBehind, UsersReachWhatExists
<1> QED
    BY <1>1, <1>2, <1>3, <1>4, <1>5, <1>6, <1>7 DEF IInv

LEMMA RestoreUnobservedIInv == IInv /\ RestoreUnobserved => IInv'
<1> SUFFICES ASSUME IInv, RestoreUnobserved
             PROVE  IInv'
    OBVIOUS
<1> DEFINE op == RoundOp("observer-failed", flow.round)
<1>1. /\ flow.pc = "canary" /\ Throw /\ Route(op, 0)
      /\ UNCHANGED <<row, decisions, release, host, flow, budget>>
    BY DEF RestoreUnobserved, At, database, recorded
<1>2. /\ step' \in [at : Places, tries : 0 .. StepAttempts - 1, outcome : Outcome \cup {Pending}]
      /\ step'.at = "returned" /\ step'.outcome = Caught(flow.pc) /\ step'.outcome # Pending
    BY <1>1, ThrowTyped DEF IInv, Retried
<1>3. /\ \A pc, why : pc \notin Building /\ Fits(pc, why) => Fits(pc, why)'
      /\ PlacesReached' /\ OutcomeFits' => IInv'
    BY <1>1, <1>2, WithdrawsWell
<1>4. PlacesReached'
    BY <1>1, <1>2 DEF PlacesReached, Ends
<1>5. OutcomeFits'
    <2>1. Caught(flow.pc) = [pc |-> "restore_canary", why |-> "canary"]
        BY <1>1 DEF Caught
    <2>2. Fits("restore_canary", "canary")
        BY <2>1, CaughtFits
    <2>3. Fits("restore_canary", "canary")'
        BY <1>3, <2>2 DEF Building, Undeployed, Deployed0
    <2> QED
        BY <1>1, <1>2, <2>1, <2>3 DEF OutcomeFits
<1> QED
    BY <1>3, <1>4, <1>5

LEMMA FinishStageIInv == IInv /\ FinishStage => IInv'
<1> SUFFICES ASSUME IInv, FinishStage
             PROVE  IInv'
    OBVIOUS
<1> DEFINE op == RoundOp(Verdict, flow.round)
<1>1. /\ flow.pc = "canary" /\ step.outcome = Pending /\ HasVerdict
      /\ UNCHANGED <<row, decisions, release, host, flow, budget>>
    BY DEF FinishStage, At, database, recorded, IInv, PlacesReached
<1>2. flow.why = "none" /\ FitsCanary
    BY <1>1 DEF IInv, Fits, Building, Undeployed, Deployed0
<1>3. KindOf(flow.round) = Verdict /\ HasVerdict' = HasVerdict /\ Verdict' = Verdict
    BY <1>1, LooksUpItsRound DEF HasVerdict, Verdict
<1>4. PICK next \in Steps, why \in Reasons :
        /\ ReturnBecause(next, why)
        /\ \/ /\ Verdict = "ROLLBACK" /\ next = "cleanup" /\ why = "regression" /\ Route(op, 0)
           \/ /\ Verdict # "ROLLBACK" /\ next = "apply_canary" /\ why = "none"
              /\ Route(RoundOp("HOLD", flow.round), 0) \/ UNCHANGED <<route, shifts>>
    BY <1>2, <1>3, StepNames, ReasonNames DEF FinishStage, Return
<1>5. /\ step' \in [at : Places, tries : 0 .. StepAttempts - 1, outcome : Outcome \cup {Pending}]
      /\ step'.at = "returned" /\ step'.outcome = [pc |-> next, why |-> why]
      /\ step'.outcome # Pending
    BY <1>4, ReturnTyped DEF IInv
<1>6. PlacesReached'
    BY <1>1, <1>5 DEF PlacesReached, Ends
<1>7. CASE Verdict = "ROLLBACK"
    <2>1. /\ Fits(flow.pc, flow.why)'
          /\ PlacesReached' /\ OutcomeFits' => IInv'
        BY <1>1, <1>4, <1>5, <1>7, WithdrawsWell
    <2>2. route'.weight = 0
        BY <1>1, <1>4, <1>7 DEF Route, IInv, OpsAreFresh, BroughtBack, NotYet
    <2>3. FitsCanary'
        BY <1>1, <1>2 DEF FitsCanary, Unpromoted, Unserved
    <2>4. Fits("cleanup", "regression")'
        BY <1>1, <1>3, <1>7, <2>2, <2>3
        DEF Fits, FitsCleanup, FitsCanary, Deployed, Building, Undeployed, Deployed0
    <2>5. OutcomeFits'
        BY <1>1, <1>4, <1>5, <1>7, <2>4 DEF OutcomeFits
    <2> QED
        BY <1>6, <2>1, <2>5
<1>8. CASE Verdict # "ROLLBACK"
    <2>1. PlacesReached' /\ OutcomeFits' => IInv'
        BY <1>1, <1>4, <1>5, <1>8, WithdrawsWell
    <2>2. FitsCanary'
        BY <1>1, <1>2 DEF FitsCanary, Unpromoted, Unserved
    <2>3. Fits("apply_canary", "none")'
        BY <1>1, <1>3, <1>8, <2>2 DEF Fits, Building, Undeployed, Deployed0
    <2>4. OutcomeFits'
        BY <1>1, <1>4, <1>5, <1>8, <2>3 DEF OutcomeFits
    <2> QED
        BY <1>6, <2>1, <2>4
<1> QED
    BY <1>7, <1>8

LEMMA RestoreCanaryIInv == IInv /\ RestoreCanary => IInv'
<1> SUFFICES ASSUME IInv, RestoreCanary
             PROVE  IInv'
    OBVIOUS
<1> DEFINE op == RoundOp("failure-restore", flow.round)
<1>1. /\ flow.pc = "restore_canary" /\ Return("cleanup") /\ RestoreCandidateControl(op)
      /\ UNCHANGED <<row, decisions, release, host, flow, budget>>
    BY DEF RestoreCanary, At, database, recorded
<1>2. flow.why = "canary" /\ FitsCanary /\ BroughtBack(op)
    BY <1>1 DEF IInv, Fits, Building, Undeployed, Deployed0
<1>3. /\ step' \in [at : Places, tries : 0 .. StepAttempts - 1, outcome : Outcome \cup {Pending}]
      /\ step'.at = "returned" /\ step'.outcome = [pc |-> "cleanup", why |-> "canary"]
      /\ step'.outcome # Pending
    BY <1>1, <1>2, ReturnTyped, StepNames, ReasonNames DEF IInv, Return
<1>4. Route(op, 0) \/ UNCHANGED <<route, shifts>>
    BY <1>1 DEF RestoreCandidateControl
<1>5. PlacesReached' /\ OutcomeFits' => IInv'
    BY <1>1, <1>3, <1>4, WithdrawsWell
<1>6. PlacesReached'
    BY <1>1, <1>3 DEF PlacesReached, Ends
<1>7. route'.weight = 0
    <2>1. route.weight \in Nat
        BY StagesTyped DEF IInv, TypeOK
    <2> QED
        BY <1>1, <1>2, <2>1 DEF RestoreCandidateControl, Route, BroughtBack, NotYet
<1>8. Fits("cleanup", "canary")'
    BY <1>1, <1>2, <1>7
    DEF Fits, FitsCleanup, FitsCanary, Unpromoted, Unserved, Failures, Deployed, Building,
        Undeployed, Deployed0
<1>9. OutcomeFits'
    BY <1>1, <1>3, <1>8 DEF OutcomeFits
<1> QED
    BY <1>5, <1>6, <1>9

\* A cycle that is closed with nothing of its candidate anywhere.
LEMMA ClosesWell ==
    ASSUME IInv, Nowhere,
           flow.pc \in {"apply_canary", "fail_terminal", "reject", "rollback_promotion"},
           flow.pc = "apply_canary" => flow.why = "regression",
           NEW op, NEW to \in Closed, flow.pc = "rollback_promotion" => to = "ROLLED_BACK",
           NEW decision \in Decisions \cup {NoDecision},
           MoveCycle(op, to, {}, decision, "closed"),
           UNCHANGED <<decisions, route, shifts, release, host, flow, budget>>
    PROVE  IInv'
<1>1. /\ row' \in Row
      /\ \/ row'.state = to /\ Return("closed")
         \/ row' = row /\ Throw
    <2>1. to \in States /\ {} \in SUBSET Evidence /\ "closed" \in Steps \cup Ends
        BY DEF Closed, States, TerminalStates, Ends
    <2> QED
        BY <2>1, MovesOrThrows DEF IInv
<1>2. CASE row' = row /\ Throw
    BY <1>1, <1>2, ThrowsWell DEF SameClass, IInv, TypeOK, Ends
<1>3. CASE row'.state = to /\ Return("closed")
    <2>1. /\ step' \in [at : Places, tries : 0 .. StepAttempts - 1, outcome : Outcome \cup {Pending}]
          /\ step'.at = "returned" /\ step'.outcome = [pc |-> "closed", why |-> flow.why]
          /\ step'.outcome # Pending
        BY <1>3, ReturnTyped, FlowTyped DEF IInv, Return, Ends
    <2>2. TypeOK'
        BY <1>1, <2>1 DEF IInv, TypeOK
    <2>3. PlacesReached'
        BY <2>1 DEF PlacesReached, Ends
    <2>4. Fits("closed", flow.why)'
        BY <1>3 DEF Fits, Building, Undeployed, Deployed0
    <2>5. OutcomeFits'
        BY <2>1, <2>4 DEF OutcomeFits, Ends
    <2>6. /\ HasVerdict' = HasVerdict /\ Verdict' = Verdict /\ Earned' = Earned
          /\ \A o : BroughtBack(o)' = BroughtBack(o)
        BY SameTraffic
    <2>7. Fits(flow.pc, flow.why)'
        BY <1>3, <2>6, ReasonNames
        DEF IInv, Fits, FitsClosing, Nowhere, FitsRollback, Building, Undeployed, Deployed0, Closed,
            PartOp
    <2>8. CycleFollows' /\ NothingLeftBehind' /\ UsersReachWhatExists'
        BY <1>3, UnderwayStates, StagesTyped
        DEF Nowhere, CycleFollows, NothingLeftBehind, UsersReachWhatExists
    <2> QED
        BY <2>2, <2>3, <2>5, <2>7, <2>8, SameTraffic DEF IInv
<1> QED
    BY <1>1, <1>2, <1>3

LEMMA ApplyVerdictIInv == IInv /\ ApplyVerdict => IInv'
<1> SUFFICES ASSUME IInv, ApplyVerdict
             PROVE  IInv'
    OBVIOUS
<1> DEFINE op == RoundOp("apply", flow.round)
<1>1. /\ flow.pc = "apply_canary" /\ flow.pc \notin Ends
      /\ UNCHANGED <<decisions, route, shifts, release, host, flow, budget>>
    BY DEF ApplyVerdict, At, outside, recorded, Ends
<1>2. /\ HasVerdict
      /\ \/ flow.why = "none" /\ FitsCanary /\ Verdict # "ROLLBACK"
         \/ flow.why = "regression" /\ FitsClosing /\ Verdict = "ROLLBACK"
    BY <1>1 DEF IInv, Fits
<1>3. /\ KindOf(flow.round) = Verdict
      /\ Verdict \in {"ADVANCE", "HOLD", "ROLLBACK", "PROMOTION_READY"}
    BY <1>2, LooksUpItsRound
<1>4. CASE Verdict \in {"ADVANCE", "HOLD"}
    <2>1. Return("canary") /\ UNCHANGED row
        BY <1>3, <1>4 DEF ApplyVerdict
    <2>2. flow.why = "none" /\ Fits("canary", flow.why)
        BY <1>2, <1>4 DEF Fits, Building, Undeployed, Deployed0
    <2>3. SameClass
        BY <2>1 DEF SameClass, IInv, TypeOK
    <2> QED
        BY <1>1, <1>4, <2>1, <2>2, <2>3, ReturnsWell, StepNames, ReasonNames DEF Return
<1>5. CASE Verdict = "ROLLBACK"
    <2>1. MoveCycle(op, "ROLLED_BACK", {}, "ROLLBACK", "closed")
        BY <1>3, <1>5 DEF ApplyVerdict
    <2> QED
        BY <1>1, <1>2, <1>5, <2>1, ClosesWell DEF FitsClosing, Closed, Decisions
<1>6. CASE Verdict = "PROMOTION_READY" /\ HistoryComplete
    <2>1. MoveCycle(op, "PROMOTION_READY", {}, NoDecision, "promote")
        BY <1>3, <1>6 DEF ApplyVerdict
    <2>2. flow.why = "none" /\ FitsCanary
        BY <1>2, <1>6
    <2>3. Fits("promote", flow.why)
        BY <1>2, <1>6, <2>2
        DEF Fits, FitsPromotion, FitsCanary, Earned, Building, Undeployed, Deployed0
    <2>4. Unpromoted
        BY <2>2 DEF FitsCanary
    <2>5. "PROMOTION_READY" \in Underway /\ "promote" \in Steps
        BY UnderwayStates, StepNames
    <2> QED
        BY <1>1, <2>1, <2>3, <2>4, <2>5, MovesWell
<1>7. CASE Verdict = "PROMOTION_READY" /\ ~HistoryComplete
    <2>1. Throw /\ UNCHANGED row
        BY <1>3, <1>7 DEF ApplyVerdict
    <2> QED
        BY <1>1, <2>1, ThrowsWell DEF SameClass, IInv, TypeOK
<1> QED
    BY <1>3, <1>4, <1>5, <1>6, <1>7

----------------------------------------------------------------------------
\* Promotion.

LEMMA PromoteIInv == IInv /\ Promote => IInv'
<1> SUFFICES ASSUME IInv, Promote
             PROVE  IInv'
    OBVIOUS
<1>1. /\ flow.pc = "promote" /\ flow.pc \notin Ends
      /\ UNCHANGED <<decisions, route, shifts, release, host, flow, budget>>
    BY DEF Promote, At, outside, recorded, Ends
<1>2. flow.why = "none" /\ FitsPromotion("promote")
    BY <1>1 DEF IInv, Fits
<1>3. CASE Throw /\ UNCHANGED row
    BY <1>1, <1>3, ThrowsWell DEF SameClass, IInv, TypeOK
<1>4. CASE MoveCycle(RunOp("promotion"), "PROMOTED", {}, "PROMOTE", "promote_source")
    <2>1. /\ row' \in Row
          /\ \/ row'.state = "PROMOTED" /\ Return("promote_source")
             \/ row' = row /\ Throw
        <3>1. /\ "PROMOTED" \in States /\ {} \in SUBSET Evidence /\ "PROMOTE" \in Decisions
              /\ "promote_source" \in Steps
            BY StepNames DEF States, ActiveStates, Decisions
        <3> QED
            BY <1>4, <3>1, MovesOrThrows DEF IInv
    <2>2. CASE row' = row /\ Throw
        BY <1>3, <2>2
    <2>3. CASE row'.state = "PROMOTED" /\ Return("promote_source")
        <3>1. /\ step' \in [at : Places, tries : 0 .. StepAttempts - 1,
                             outcome : Outcome \cup {Pending}]
              /\ step'.at = "returned"
              /\ step'.outcome = [pc |-> "promote_source", why |-> "none"]
              /\ step'.outcome # Pending
            BY <1>2, <2>3, ReturnTyped, StepNames, ReasonNames DEF IInv, Return
        <3>2. TypeOK'
            BY <1>1, <2>1, <3>1 DEF IInv, TypeOK
        <3>3. PlacesReached'
            BY <1>1, <3>1 DEF PlacesReached
        <3>4. Earned' = Earned
            BY <1>1, SameTraffic
        <3>5. Fits("promote_source", "none")'
            BY <1>1, <1>2, <2>3, <3>4
            DEF Fits, FitsPromotion, Unserved, Building, Undeployed, Deployed0
        <3>6. OutcomeFits'
            BY <1>1, <3>1, <3>5 DEF OutcomeFits
        <3>7. Fits(flow.pc, flow.why)'
            BY <1>1, <1>2, <2>3, <3>4
            DEF Fits, FitsPromotion, Unserved, Building, Undeployed, Deployed0
        <3>8. CycleFollows' /\ NothingLeftBehind' /\ UsersReachWhatExists'
            BY <1>1, <1>2, <2>3, <3>4
            DEF CycleFollows, NothingLeftBehind, UsersReachWhatExists, FitsPromotion, Unserved
        <3> QED
            BY <1>1, <3>2, <3>3, <3>6, <3>7, <3>8, SameTraffic DEF IInv
    <2> QED
        BY <2>1, <2>2, <2>3
<1> QED
    BY <1>3, <1>4 DEF Promote

\* A step that works on the host or the catalog, and leaves both as the next one needs them.
LEMMA WorksWell ==
    ASSUME IInv, UNCHANGED <<row, decisions, route, shifts, flow, budget>>,
           step' \in [at : Places, tries : 0 .. StepAttempts - 1, outcome : Outcome \cup {Pending}],
           release' \in [registered : BOOLEAN, serving : {"baseline", "candidate"},
                         ops : SUBSET ({RunOp("release")}
                                         \cup {PartOp(why, "serving") : why \in Reasons})],
           host' \in [head : {"baseline", "candidate"}, worktree : {"absent", "created", "committed"},
                      container : {"none", "running"}],
           Fits(flow.pc, flow.why)', PlacesReached', OutcomeFits',
           NothingLeftBehind', UsersReachWhatExists'
    PROVE  IInv'
<1>1. TypeOK'
    BY DEF IInv, TypeOK, RunOp, PartOp
<1>2. CycleFollows'
    BY SameTraffic DEF IInv, CycleFollows
<1> QED
    BY <1>1, <1>2, SameTraffic DEF IInv

LEMMA PromoteSourceIInv == IInv /\ PromoteSource => IInv'
<1> SUFFICES ASSUME IInv, PromoteSource
             PROVE  IInv'
    OBVIOUS
<1>1. /\ flow.pc = "promote_source" /\ Return("finalize")
      /\ UNCHANGED <<row, decisions, release, route, shifts, flow, budget>>
    BY DEF PromoteSource, At, database, recorded
<1>2. flow.why = "none" /\ FitsPromotion("promote_source")
    BY <1>1 DEF IInv, Fits
<1>3. /\ release \in [registered : BOOLEAN, serving : {"baseline", "candidate"},
                      ops : SUBSET ({RunOp("release")}
                                      \cup {PartOp(why, "serving") : why \in Reasons})]
      /\ host' \in [head : {"baseline", "candidate"}, worktree : {"absent", "created", "committed"},
                    container : {"none", "running"}]
      /\ host'.head = "candidate" /\ host'.container = host.container
    BY DEF PromoteSource, IInv, TypeOK
<1>4. /\ step' \in [at : Places, tries : 0 .. StepAttempts - 1, outcome : Outcome \cup {Pending}]
      /\ step'.at = "returned" /\ step'.outcome = [pc |-> "finalize", why |-> "none"]
      /\ step'.outcome # Pending
    BY <1>1, <1>2, ReturnTyped, StepNames, ReasonNames DEF IInv, Return
<1>5. Earned' = Earned
    BY <1>1, SameTraffic
<1>6. Fits(flow.pc, flow.why)' /\ Fits("finalize", "none")'
    BY <1>1, <1>2, <1>3, <1>5
    DEF Fits, FitsPromotion, Building, Undeployed, Deployed0, RunOp
<1>7. PlacesReached' /\ OutcomeFits'
    BY <1>1, <1>4, <1>6 DEF PlacesReached, OutcomeFits, Ends
<1>8. NothingLeftBehind' /\ UsersReachWhatExists'
    BY <1>1, <1>2, <1>3 DEF NothingLeftBehind, UsersReachWhatExists, FitsPromotion
<1> QED
    BY <1>1, <1>3, <1>4, <1>6, <1>7, <1>8, WorksWell

LEMMA RegisterReleaseIInv == IInv /\ RegisterRelease => IInv'
<1> SUFFICES ASSUME IInv, RegisterRelease
             PROVE  IInv'
    OBVIOUS
<1>1. /\ flow.pc = "finalize" /\ step.outcome = Pending /\ row.state = "PROMOTED"
      /\ UNCHANGED <<row, decisions, route, shifts, host, flow, budget>>
    BY DEF RegisterRelease, At, outside, recorded, IInv, Fits, FitsPromotion
<1>2. flow.why = "none" /\ FitsPromotion("finalize")
    BY <1>1 DEF IInv, Fits
<1>3. Goto("registered") /\ release' = [release EXCEPT !.registered = TRUE]
    BY <1>1 DEF RegisterRelease
<1>4. /\ release' \in [registered : BOOLEAN, serving : {"baseline", "candidate"},
                       ops : SUBSET ({RunOp("release")}
                                       \cup {PartOp(why, "serving") : why \in Reasons})]
      /\ release'.registered = TRUE /\ release'.serving = release.serving
      /\ release'.ops = release.ops
    BY <1>3 DEF IInv, TypeOK
<1>5. /\ step' \in [at : Places, tries : 0 .. StepAttempts - 1, outcome : Outcome \cup {Pending}]
      /\ step'.at = "registered" /\ step'.outcome = Pending
    BY <1>1, <1>3, GotoTyped DEF IInv, Places
<1>6. host' \in [head : {"baseline", "candidate"}, worktree : {"absent", "created", "committed"},
                 container : {"none", "running"}]
    BY <1>1 DEF IInv, TypeOK
<1>7. Earned' = Earned
    BY <1>1, SameTraffic
<1>8. Fits(flow.pc, flow.why)'
    BY <1>1, <1>2, <1>4, <1>7
    DEF Fits, FitsPromotion, Building, Undeployed, Deployed0, RunOp
<1>9. PlacesReached' /\ OutcomeFits'
    BY <1>1, <1>4, <1>5 DEF PlacesReached, OutcomeFits, Ends
<1>10. NothingLeftBehind' /\ UsersReachWhatExists'
    BY <1>1, <1>4 DEF IInv, NothingLeftBehind, UsersReachWhatExists
<1> QED
    BY <1>1, <1>4, <1>5, <1>6, <1>8, <1>9, <1>10, WorksWell

LEMMA ServeReleaseIInv == IInv /\ ServeRelease => IInv'
<1> SUFFICES ASSUME IInv, ServeRelease
             PROVE  IInv'
    OBVIOUS
<1>1. /\ flow.pc = "finalize" /\ Return("promoted") /\ SetServing(RunOp("release"), "candidate")
      /\ release.registered
      /\ UNCHANGED <<row, decisions, route, shifts, host, flow, budget>>
    BY DEF ServeRelease, At, outside, recorded, IInv, PlacesReached
<1>2. flow.why = "none" /\ FitsPromotion("finalize")
    BY <1>1 DEF IInv, Fits
<1>3. release \in [registered : BOOLEAN, serving : {"baseline", "candidate"},
                   ops : SUBSET ({RunOp("release")}
                                   \cup {PartOp(why, "serving") : why \in Reasons})]
    BY DEF IInv, TypeOK
<1>4. /\ release' \in [registered : BOOLEAN, serving : {"baseline", "candidate"},
                       ops : SUBSET ({RunOp("release")}
                                       \cup {PartOp(why, "serving") : why \in Reasons})]
      /\ release'.registered /\ release'.serving = "candidate"
      /\ release'.ops \subseteq {RunOp("release")}
    <2>1. CASE RunOp("release") \in release.ops
        BY <1>1, <1>2, <1>3, <2>1 DEF SetServing, FitsPromotion
    <2>2. CASE RunOp("release") \notin release.ops
        <3>1. release' = [release EXCEPT !.serving = "candidate", !.ops = @ \cup {RunOp("release")}]
            BY <1>1, <2>2 DEF SetServing
        <3> QED
            BY <1>1, <1>2, <1>3, <3>1 DEF FitsPromotion
    <2> QED
        BY <2>1, <2>2
<1>5. /\ step' \in [at : Places, tries : 0 .. StepAttempts - 1, outcome : Outcome \cup {Pending}]
      /\ step'.at = "returned" /\ step'.outcome = [pc |-> "promoted", why |-> "none"]
      /\ step'.outcome # Pending
    BY <1>1, <1>2, ReturnTyped, ReasonNames DEF IInv, Return, Ends
<1>6. host' \in [head : {"baseline", "candidate"}, worktree : {"absent", "created", "committed"},
                 container : {"none", "running"}]
    BY <1>1 DEF IInv, TypeOK
<1>7. Earned' = Earned
    BY <1>1, SameTraffic
<1>8. Fits(flow.pc, flow.why)' /\ Fits("promoted", "none")'
    BY <1>1, <1>2, <1>4, <1>7
    DEF Fits, FitsPromotion, Building, Undeployed, Deployed0, RunOp
<1>9. PlacesReached' /\ OutcomeFits'
    BY <1>1, <1>4, <1>5, <1>8 DEF PlacesReached, OutcomeFits, Ends
<1>10. NothingLeftBehind' /\ UsersReachWhatExists'
    BY <1>1, <1>2, <1>4 DEF IInv, NothingLeftBehind, UsersReachWhatExists, FitsPromotion
<1> QED
    BY <1>1, <1>4, <1>5, <1>6, <1>8, <1>9, <1>10, WorksWell

----------------------------------------------------------------------------
\* Undoing a promotion: traffic, then the served release, then the host, then the cycle.

LEMMA RollbackTrafficIInv == IInv /\ RollbackTraffic => IInv'
<1> SUFFICES ASSUME IInv, RollbackTraffic
             PROVE  IInv'
    OBVIOUS
<1> DEFINE op == PartOp(flow.why, "traffic")
<1>1. /\ flow.pc = "rollback_promotion" /\ step.outcome = Pending
      /\ UNCHANGED <<row, decisions, release, host, flow, budget>>
    BY DEF RollbackTraffic, At, database, recorded
<1>2. FitsRollback(flow.why)
    BY <1>1 DEF IInv, Fits
<1>3. CASE row.state = "ROLLED_BACK"
    <2>1. Return("closed") /\ UNCHANGED <<route, shifts>>
        BY <1>3 DEF RollbackTraffic
    <2>2. Fits("closed", flow.why)
        BY <1>3 DEF Fits, Building, Undeployed, Deployed0, Closed
    <2>3. SameClass /\ "closed" \in Steps \cup Ends /\ flow.why \in Reasons
        BY <1>1, FlowTyped DEF SameClass, IInv, TypeOK, Ends
    <2> QED
        BY <1>1, <2>1, <2>2, <2>3, ReturnsWell DEF Return, Ends
<1>4. CASE row.state = "PROMOTED"
    <2>1. Goto("traffic_back") /\ RestoreCandidateControl(op)
        BY <1>4 DEF RollbackTraffic
    <2>2. /\ step' \in [at : Places, tries : 0 .. StepAttempts - 1,
                         outcome : Outcome \cup {Pending}]
          /\ step'.at = "traffic_back" /\ step'.outcome = Pending
        BY <1>1, <2>1, GotoTyped DEF IInv, Places
    <2>3. Route(op, 0) \/ UNCHANGED <<route, shifts>>
        BY <2>1 DEF RestoreCandidateControl
    <2>4. PlacesReached' /\ OutcomeFits' => IInv'
        BY <1>1, <2>2, <2>3, WithdrawsWell
    <2>5. route'.weight = 0
        <3>1. route.weight \in Nat
            BY StagesTyped DEF IInv, TypeOK
        <3> QED
            BY <1>2, <2>1, <3>1 DEF RestoreCandidateControl, Route, FitsRollback, BroughtBack, NotYet
    <2>6. PlacesReached' /\ OutcomeFits'
        BY <1>1, <1>4, <2>2, <2>5 DEF PlacesReached, OutcomeFits, Ends
    <2> QED
        BY <2>4, <2>6
<1> QED
    BY <1>2, <1>3, <1>4 DEF FitsRollback

\* The parts of the rollback that follow have their users away from the candidate already.
LEMMA UndoesWell ==
    ASSUME IInv, flow.pc = "rollback_promotion", step.outcome = Pending, NEW place \in Places,
           step.at \in {"traffic_back", "serving_back", "source_back", "stopped"},
           place \notin {"start", "returned"}, Goto(place),
           UNCHANGED <<row, decisions, route, shifts, flow, budget>>,
           release' \in [registered : BOOLEAN, serving : {"baseline", "candidate"},
                         ops : SUBSET ({RunOp("release")}
                                         \cup {PartOp(why, "serving") : why \in Reasons})],
           host' \in [head : {"baseline", "candidate"}, worktree : {"absent", "created", "committed"},
                      container : {"none", "running"}],
           release'.serving = "baseline",
           place \in {"source_back", "stopped", "clean"} => host'.head = "baseline",
           place \in {"stopped", "clean"} => host'.container = "none",
           place = "clean" => host'.worktree = "absent"
    PROVE  IInv'
<1>1. /\ step' \in [at : Places, tries : 0 .. StepAttempts - 1, outcome : Outcome \cup {Pending}]
      /\ step'.at = place /\ step'.outcome = Pending
    BY GotoTyped DEF IInv
<1>2. row.state = "PROMOTED" /\ route.weight = 0
    BY DEF IInv, PlacesReached
<1>3. Earned' = Earned /\ \A op : BroughtBack(op)' = BroughtBack(op)
    BY SameTraffic
<1>4. FitsRollback(flow.why)
    BY DEF IInv, Fits
<1>5. Fits(flow.pc, flow.why)'
    BY <1>3, <1>4 DEF Fits, FitsRollback, Building, Undeployed, Deployed0, PartOp
<1>6. PlacesReached' /\ OutcomeFits'
    BY <1>1, <1>2 DEF PlacesReached, OutcomeFits, Ends
<1>7. NothingLeftBehind' /\ UsersReachWhatExists'
    BY <1>2 DEF NothingLeftBehind, UsersReachWhatExists
<1> QED
    BY <1>1, <1>5, <1>6, <1>7, WorksWell

LEMMA RollbackPartsIInv ==
    IInv /\ (RollbackServing \/ RollbackSource \/ RollbackDeployment \/ RollbackWorktree) => IInv'
<1> SUFFICES ASSUME IInv,
                    RollbackServing \/ RollbackSource \/ RollbackDeployment \/ RollbackWorktree
             PROVE  IInv'
    OBVIOUS
<1>1. /\ flow.pc = "rollback_promotion" /\ step.outcome = Pending
      /\ UNCHANGED <<row, decisions, route, shifts, flow, budget>>
    BY DEF RollbackServing, RollbackSource, RollbackDeployment, RollbackWorktree, At, database,
           outside, recorded
<1>2. FitsRollback(flow.why) /\ flow.why \in Reasons
    BY <1>1, FlowTyped DEF IInv, Fits
<1>3. /\ release \in [registered : BOOLEAN, serving : {"baseline", "candidate"},
                      ops : SUBSET ({RunOp("release")}
                                      \cup {PartOp(why, "serving") : why \in Reasons})]
      /\ host \in [head : {"baseline", "candidate"}, worktree : {"absent", "created", "committed"},
                   container : {"none", "running"}]
    BY DEF IInv, TypeOK
<1>4. {"serving_back", "source_back", "stopped", "clean"} \subseteq Places
    BY DEF Places
<1>5. CASE RollbackServing
    <2> DEFINE op == PartOp(flow.why, "serving")
    <2>1. step.at = "traffic_back" /\ Goto("serving_back") /\ host' = host /\ SetServing(op, "baseline")
        BY <1>5 DEF RollbackServing, At, outside
    <2>2. /\ release' \in [registered : BOOLEAN, serving : {"baseline", "candidate"},
                           ops : SUBSET ({RunOp("release")}
                                           \cup {PartOp(why, "serving") : why \in Reasons})]
          /\ release'.serving = "baseline"
        <3>1. CASE op \in release.ops
            BY <1>2, <1>3, <2>1, <3>1 DEF SetServing, FitsRollback
        <3>2. CASE op \notin release.ops
            <4>1. release' = [release EXCEPT !.serving = "baseline", !.ops = @ \cup {op}]
                BY <2>1, <3>2 DEF SetServing
            <4>2. op \in {PartOp(why, "serving") : why \in Reasons}
                BY <1>2
            <4> HIDE DEF op
            <4> QED
                BY <1>3, <4>1, <4>2
        <3> QED
            BY <3>1, <3>2
    <2> QED
        BY <1>1, <1>3, <1>4, <2>1, <2>2, UndoesWell
<1>6. CASE RollbackSource
    <2>1. /\ step.at = "serving_back" /\ Goto("source_back") /\ release' = release
          /\ host' = [host EXCEPT !.head = "baseline"]
        BY <1>6 DEF RollbackSource, At, database
    <2>2. release.serving = "baseline"
        BY <1>1, <2>1 DEF IInv, PlacesReached
    <2>3. /\ host' \in [head : {"baseline", "candidate"},
                        worktree : {"absent", "created", "committed"},
                        container : {"none", "running"}]
          /\ host'.head = "baseline"
        BY <1>3, <2>1
    <2> QED
        BY <1>1, <1>3, <1>4, <2>1, <2>2, <2>3, UndoesWell
<1>7. CASE RollbackDeployment
    <2>1. /\ step.at = "source_back" /\ Goto("stopped") /\ release' = release
          /\ host' = [host EXCEPT !.container = "none"]
        BY <1>7 DEF RollbackDeployment, At, database
    <2>2. release.serving = "baseline" /\ host.head = "baseline"
        BY <1>1, <2>1 DEF IInv, PlacesReached
    <2>3. /\ host' \in [head : {"baseline", "candidate"},
                        worktree : {"absent", "created", "committed"},
                        container : {"none", "running"}]
          /\ host'.head = "baseline" /\ host'.container = "none"
        BY <1>3, <2>1, <2>2
    <2> QED
        BY <1>1, <1>3, <1>4, <2>1, <2>2, <2>3, UndoesWell
<1>8. CASE RollbackWorktree
    <2>1. /\ step.at = "stopped" /\ Goto("clean") /\ release' = release
          /\ host' = [host EXCEPT !.worktree = "absent"]
        BY <1>8 DEF RollbackWorktree, At, database
    <2>2. release.serving = "baseline" /\ host.head = "baseline" /\ host.container = "none"
        BY <1>1, <2>1 DEF IInv, PlacesReached
    <2>3. /\ host' \in [head : {"baseline", "candidate"},
                        worktree : {"absent", "created", "committed"},
                        container : {"none", "running"}]
          /\ host'.head = "baseline" /\ host'.container = "none" /\ host'.worktree = "absent"
        BY <1>3, <2>1, <2>2
    <2> QED
        BY <1>1, <1>3, <1>4, <2>1, <2>2, <2>3, UndoesWell
<1> QED
    BY <1>5, <1>6, <1>7, <1>8

LEMMA RollbackCycleIInv == IInv /\ RollbackCycle => IInv'
<1> SUFFICES ASSUME IInv, RollbackCycle
             PROVE  IInv'
    OBVIOUS
<1>1. /\ flow.pc = "rollback_promotion" /\ step.at = "clean"
      /\ MoveCycle(PartOp(flow.why, "cycle"), "ROLLED_BACK", {}, "ROLLBACK", "closed")
      /\ UNCHANGED <<decisions, release, route, shifts, host, flow, budget>>
    BY DEF RollbackCycle, At, outside, recorded
<1>2. Nowhere
    BY <1>1 DEF IInv, TypeOK, PlacesReached, Nowhere
<1>3. "ROLLED_BACK" \in Closed /\ "ROLLBACK" \in Decisions
    BY DEF Closed, Decisions
<1> QED
    BY <1>1, <1>2, <1>3, ClosesWell

----------------------------------------------------------------------------
\* The other ways out.

LEMMA StopCandidateIInv == IInv /\ StopCandidate => IInv'
<1> SUFFICES ASSUME IInv, StopCandidate
             PROVE  IInv'
    OBVIOUS
<1>1. /\ flow.pc = "cleanup" /\ step.outcome = Pending /\ Goto("stopped")
      /\ UNCHANGED <<row, decisions, release, route, shifts, flow, budget>>
    BY DEF StopCandidate, At, database, recorded
<1>2. FitsCleanup(flow.why)
    BY <1>1 DEF IInv, Fits
<1>3. /\ release' \in [registered : BOOLEAN, serving : {"baseline", "candidate"},
                       ops : SUBSET ({RunOp("release")}
                                       \cup {PartOp(why, "serving") : why \in Reasons})]
      /\ host' \in [head : {"baseline", "candidate"}, worktree : {"absent", "created", "committed"},
                    container : {"none", "running"}]
      /\ host'.head = host.head /\ host'.container = "none"
    BY <1>1, <1>2 DEF StopCandidate, IInv, TypeOK, FitsCleanup
<1>4. /\ step' \in [at : Places, tries : 0 .. StepAttempts - 1, outcome : Outcome \cup {Pending}]
      /\ step'.at = "stopped" /\ step'.outcome = Pending
    BY <1>1, GotoTyped DEF IInv, Places
<1>5. HasVerdict' = HasVerdict /\ Verdict' = Verdict
    BY <1>1, SameTraffic
<1>6. Fits(flow.pc, flow.why)'
    BY <1>1, <1>2, <1>3, <1>5
    DEF IInv, Fits, FitsCleanup, Unpromoted, Unserved, Building, Undeployed, Deployed0
<1>7. PlacesReached' /\ OutcomeFits'
    BY <1>1, <1>3, <1>4 DEF PlacesReached, OutcomeFits, Ends
<1>8. NothingLeftBehind' /\ UsersReachWhatExists'
    BY <1>1, <1>2, UnderwayStates
    DEF NothingLeftBehind, UsersReachWhatExists, FitsCleanup, Unpromoted, Unserved, Closed
<1> QED
    BY <1>1, <1>3, <1>4, <1>6, <1>7, <1>8, WorksWell

LEMMA RemoveWorktreeIInv == IInv /\ RemoveWorktree => IInv'
<1> SUFFICES ASSUME IInv, RemoveWorktree
             PROVE  IInv'
    OBVIOUS
<1>1. /\ flow.pc = "cleanup" /\ step.at = "stopped" /\ step.outcome = Pending
      /\ UNCHANGED <<row, decisions, release, route, shifts, flow, budget>>
    BY DEF RemoveWorktree, At, database, recorded
<1>2. FitsCleanup(flow.why) /\ host.container = "none"
    BY <1>1 DEF IInv, Fits, PlacesReached
<1>3. /\ release' \in [registered : BOOLEAN, serving : {"baseline", "candidate"},
                       ops : SUBSET ({RunOp("release")}
                                       \cup {PartOp(why, "serving") : why \in Reasons})]
      /\ host' \in [head : {"baseline", "candidate"}, worktree : {"absent", "created", "committed"},
                    container : {"none", "running"}]
      /\ host' = [head |-> "baseline", worktree |-> "absent", container |-> "none"]
    BY <1>1, <1>2 DEF RemoveWorktree, IInv, TypeOK, FitsCleanup, Unserved
<1>4. PICK next \in {"apply_canary", "reject", "fail_terminal"} :
        /\ Return(next)
        /\ next = "apply_canary" => flow.why = "regression"
        /\ next = "reject" => flow.why \in Rejections
        /\ next = "fail_terminal" => flow.why \in Failures
    BY <1>2, Zenon DEF RemoveWorktree, FitsCleanup
<1>5. /\ step' \in [at : Places, tries : 0 .. StepAttempts - 1, outcome : Outcome \cup {Pending}]
      /\ step'.at = "returned" /\ step'.outcome = [pc |-> next, why |-> flow.why]
      /\ step'.outcome # Pending
    BY <1>4, ReturnTyped, FlowTyped, StepNames DEF IInv, Return
<1>6. HasVerdict' = HasVerdict /\ Verdict' = Verdict
    BY <1>1, SameTraffic
<1>7. FitsClosing'
    BY <1>1, <1>2, <1>3 DEF FitsClosing, FitsCleanup, Unpromoted, Unserved, Nowhere
<1>8. FitsCleanup(flow.why)'
    BY <1>1, <1>2, <1>3 DEF FitsCleanup, Unpromoted, Unserved
<1>9. flow.why = "regression" => HasVerdict /\ Verdict = "ROLLBACK"
    BY <1>1 DEF IInv, Fits
<1>10. Fits(flow.pc, flow.why)'
    BY <1>1, <1>6, <1>8, <1>9 DEF Fits, Building, Undeployed, Deployed0
<1>11. Fits(next, flow.why)'
    BY <1>1, <1>4, <1>6, <1>7, <1>9 DEF Fits, Building, Undeployed, Deployed0
<1>12. PlacesReached'
    BY <1>1, <1>5 DEF PlacesReached, Ends
<1>13. OutcomeFits'
    BY <1>1, <1>4, <1>5, <1>11 DEF OutcomeFits
<1>14. NothingLeftBehind' /\ UsersReachWhatExists'
    BY <1>1, <1>7, StagesTyped
    DEF FitsClosing, Nowhere, NothingLeftBehind, UsersReachWhatExists
<1> QED
    BY <1>1, <1>3, <1>5, <1>10, <1>12, <1>13, <1>14, WorksWell

LEMMA CloseIInv == IInv /\ (FailTerminal \/ Reject) => IInv'
<1> SUFFICES ASSUME IInv, FailTerminal \/ Reject
             PROVE  IInv'
    OBVIOUS
<1>1. /\ flow.pc \in {"fail_terminal", "reject"}
      /\ UNCHANGED <<decisions, release, route, shifts, host, flow, budget>>
    BY DEF FailTerminal, Reject, At, outside, recorded
<1>2. FitsClosing
    BY <1>1 DEF IInv, Fits
<1>3. CASE row.state \in Closed /\ Return("closed") /\ UNCHANGED row
    <2>1. Fits("closed", flow.why) /\ SameClass
        BY <1>3 DEF Fits, Building, Undeployed, Deployed0, SameClass, IInv, TypeOK
    <2>2. "closed" \in Steps \cup Ends /\ flow.why \in Reasons
        BY FlowTyped DEF Ends, IInv
    <2> QED
        BY <1>1, <1>3, <2>1, <2>2, ReturnsWell DEF Return, Ends
<1>4. ASSUME NEW op, NEW to \in Closed, NEW decision \in Decisions \cup {NoDecision},
             MoveCycle(op, to, {}, decision, "closed")
      PROVE  IInv'
    BY <1>1, <1>2, <1>4, ClosesWell DEF FitsClosing
<1>5. CASE FailTerminal
    <2>1. row.state \in TerminalStates => row.state \in Closed
        BY <1>2 DEF FitsClosing, Underway, ActiveStates, TerminalStates, Closed
    <2>2. "FAILED_TERMINAL" \in Closed
        BY DEF Closed
    <2> QED
        BY <1>3, <1>4, <1>5, <2>1, <2>2 DEF FailTerminal
<1>6. CASE Reject
    <2>1. "REJECTED" \in Closed /\ "REJECT" \in Decisions
        BY DEF Closed, Decisions
    <2> QED
        BY <1>3, <1>4, <1>6, <2>1 DEF Reject
<1> QED
    BY <1>5, <1>6

----------------------------------------------------------------------------
LEMMA NextIInv == IInv /\ [Next]_vars => IInv'
<1> SUFFICES ASSUME IInv, [Next]_vars
             PROVE  IInv'
    OBVIOUS
<1>1. CASE Development
    BY <1>1, StartDevelopmentIInv, ImplementIInv, MoveIInv, GatesIInv, DeployIInv DEF Development
<1>2. CASE Canary
    BY <1>2, ShiftTrafficIInv, RecordVerdictIInv, ObserverFailsIInv, RestoreUnobservedIInv,
       FinishStageIInv, RestoreCanaryIInv, ApplyVerdictIInv
    DEF Canary
<1>3. CASE Promotion
    BY <1>3, PromoteIInv, PromoteSourceIInv, RegisterReleaseIInv, ServeReleaseIInv DEF Promotion
<1>4. CASE Compensation
    BY <1>4, RollbackTrafficIInv, RollbackPartsIInv, RollbackCycleIInv DEF Compensation
<1>5. CASE Closing
    BY <1>5, StopCandidateIInv, RemoveWorktreeIInv, CloseIInv DEF Closing
<1>6. CASE UNCHANGED vars
    <2>1. /\ SameClass
          /\ UNCHANGED <<row, decisions, route, shifts, release, host, flow, step, budget>>
        BY <1>6 DEF vars, SameClass, IInv, TypeOK
    <2>2. TypeOK' /\ PlacesReached'
        <3>1. TypeOK /\ PlacesReached
            BY DEF IInv
        <3>2. TypeOK'
            BY <2>1, <3>1 DEF TypeOK, RunOp, PartOp
        <3>3. PlacesReached'
            BY <2>1, <3>1 DEF PlacesReached, HasVerdict
        <3> QED
            BY <3>2, <3>3
    <2>3. Fits(flow.pc, flow.why)' /\ OutcomeFits'
        BY <2>1, SameWorld DEF IInv, OutcomeFits
    <2> QED
        BY <2>1, <2>2, <2>3, SameWorld DEF IInv
<1> QED
    BY <1>1, <1>2, <1>3, <1>4, <1>5, <1>6, RecordIInv, FaultIInv, RestartIInv DEF Next, Work

LEMMA Invariance == Spec => []IInv
    BY InitIInv, NextIInv, PTL DEF Spec

\* Everything keeps its shape, for any stages and bounds.
THEOREM Typing == Spec => []TypeOK
<1>1. IInv => TypeOK
    BY DEF IInv
<1> QED
    BY <1>1, Invariance, PTL

\* A cycle closed without its candidate has nothing of it left in the world.
THEOREM NothingLeft == Spec => []NothingLeftBehind
<1>1. IInv => NothingLeftBehind
    BY DEF IInv
<1> QED
    BY <1>1, Invariance, PTL

\* Traffic goes to a candidate that runs, and what is served is promoted and on the branch.
THEOREM UsersAreSafe == Spec => []UsersReachWhatExists
<1>1. IInv => UsersReachWhatExists
    BY DEF IInv
<1> QED
    BY <1>1, Invariance, PTL

\* What the run reports is so.
THEOREM ReportsTheTruth == Spec => []ResultIsTrue
<1>1. IInv => ResultIsTrue
    BY DEF IInv, Fits, FitsPromotion, ResultIsTrue, Closed, TerminalStates
<1> QED
    BY <1>1, Invariance, PTL

\* A promoted candidate passed each stage on traffic of that stage's weight, and failed none.
THEOREM PromotionIsEarned == Spec => []PromotedOnTrafficShown
<1>1. ASSUME IInv, row.state \in PromotedStates
      PROVE  /\ \A i \in DOMAIN Stages : \E k \in DOMAIN decisions :
                  decisions[k].stage = i /\ decisions[k].kind = Passing(i)
                    /\ decisions[k].share = Stages[i]
             /\ \A k \in DOMAIN decisions : decisions[k].kind # "ROLLBACK"
    <2>1. row.state = "PROMOTED"
        BY <1>1 DEF IInv, CycleFollows, Underway, ActiveStates, Closed, PromotedStates
    <2>2. HasVerdict /\ Verdict = "PROMOTION_READY" /\ HistoryComplete
        BY <1>1, <2>1 DEF IInv, CycleFollows, Earned
    <2>3. ASSUME NEW i \in DOMAIN Stages
          PROVE  \E k \in DOMAIN decisions :
                   decisions[k].stage = i /\ decisions[k].kind = Passing(i)
                     /\ decisions[k].share = Stages[i]
        <3>1. PICK k \in DOMAIN decisions : decisions[k].stage = i /\ decisions[k].kind = Passing(i)
            BY <2>2 DEF HistoryComplete
        <3>2. decisions[k].kind \in {"ADVANCE", "PROMOTION_READY"}
            BY <3>1 DEF Passing
        <3>3. decisions[k].share = Stages[i]
            BY <1>1, <3>1, <3>2 DEF IInv, TrafficIsShown
        <3> QED
            BY <3>1, <3>3
    <2>4. ASSUME NEW k \in DOMAIN decisions
          PROVE  decisions[k].kind # "ROLLBACK"
        <3>1. k \in 1 .. flow.round \/ k = flow.round + 1
            BY <1>1, <2>2, DecisionsTyped, FlowTyped DEF IInv, HasVerdict
        <3> QED
            BY <1>1, <2>2, <3>1 DEF IInv, RoundsAreRecorded, Verdict
    <2> QED
        BY <2>3, <2>4
<1>2. IInv => PromotedOnTrafficShown
    BY <1>1 DEF PromotedOnTrafficShown
<1> QED
    BY <1>2, Invariance, PTL

----------------------------------------------------------------------------
\* The run is a progressive delivery.  Of the stages, exactly those up to the last one shown
\* have had their share.
LEMMA ReachedIsTheLastShown ==
    ASSUME IInv
    PROVE  /\ Passed \in Nat /\ CurrentStage \in Nat
           /\ \A n \in Nat : Shown = 1 .. n => Cardinality(Shown) = n
<1>1. Passed \in Nat /\ CurrentStage \in Nat
    <2>1. CurrentStage \in 1 .. Len(Stages)
        BY DEF IInv, StagesAreCounted
    <2>2. Passed = CurrentStage \/ Passed = CurrentStage - 1
        BY DEF IInv, StagesAreCounted
    <2> QED
        BY <2>1, <2>2, StagesTyped
<1>2. ASSUME NEW n \in Nat
      PROVE  Cardinality(1 .. n) = n
    BY FS_Interval
<1> QED
    BY <1>1, <1>2

LEMMA InitDelivers == Init => Delivery!Init
<1> SUFFICES ASSUME Init
             PROVE  Delivery!Init
    OBVIOUS
<1>1. Passed = 0 /\ Shown = {}
    BY FS_EmptySet DEF Init, Passed, Count, Shown
<1>2. Cardinality(Shown) = 0
    BY <1>1, FS_EmptySet
<1> QED
    BY <1>1, <1>2 DEF Init, Delivery!Init, Shown

\* A step that leaves the traffic and the served release alone closes the cycle or stutters.
LEMMA ClosingDelivers ==
    ASSUME IInv, IInv', UNCHANGED <<decisions, route, shifts>>,
           release'.serving = release.serving,
           row' = row \/ row.state \notin TerminalStates
    PROVE  [Delivery!Next]_(Delivery!delivery)
<1>1. Passed' = Passed /\ Shown' = Shown
    BY DEF Passed, Count, Shown
<1>2. CASE (row'.state \in Closed) = (row.state \in Closed)
    BY <1>1, <1>2 DEF Delivery!delivery, Closed, Shown
<1>3. CASE row'.state \in Closed /\ row.state \notin Closed
    <2>1. route'.weight = 0 /\ release'.serving = "baseline"
        BY <1>3 DEF IInv, NothingLeftBehind, Closed
    <2> QED
        BY <1>1, <1>3, <2>1 DEF Delivery!Close, Delivery!Next, Closed, Shown
<1>4. CASE row'.state \notin Closed /\ row.state \in Closed
    BY <1>4 DEF Closed, TerminalStates
<1> QED
    BY <1>2, <1>3, <1>4

\* A step that withdraws traffic, and leaves everything else alone, withdraws or stutters.
LEMMA WithdrawingDelivers ==
    ASSUME UNCHANGED <<decisions, row, release>>, NEW op,
           Route(op, 0) \/ UNCHANGED <<route, shifts>>
    PROVE  [Delivery!Next]_(Delivery!delivery)
<1>1. Passed' = Passed
    BY DEF Passed, Count
<1>2. CASE UNCHANGED <<route, shifts>>
    BY <1>1, <1>2 DEF Delivery!delivery
<1>3. CASE route' = [op |-> op, weight |-> 0]
           /\ shifts' = shifts \cup {[op |-> op, stage |-> CurrentStage, weight |-> 0]}
    <2>1. Shown' = Shown
        BY <1>3 DEF Shown
    <2> QED
        BY <1>1, <1>3, <2>1 DEF Delivery!Withdraw, Delivery!Next, Shown
<1> QED
    BY <1>2, <1>3 DEF Route

LEMMA ShiftTrafficDelivers ==
    IInv /\ IInv' /\ ShiftTraffic => [Delivery!Next]_(Delivery!delivery)
<1> SUFFICES ASSUME IInv, IInv', ShiftTraffic
             PROVE  [Delivery!Next]_(Delivery!delivery)
    OBVIOUS
<1>1. /\ flow.pc = "canary" /\ UNCHANGED <<row, decisions, release>>
      /\ \/ UNCHANGED <<route, shifts>>
         \/ ~HasVerdict /\ Route(TrafficOp(flow.round), Stages[CurrentStage])
    BY LooksUpItsRound DEF ShiftTraffic, At, database
<1>2. row.state \notin Closed
    BY <1>1, UnderwayStates DEF IInv, Fits, FitsCanary, FitsBuilding, Building, Unpromoted
<1>3. Passed' = Passed
    BY <1>1 DEF Passed, Count
<1>4. CASE UNCHANGED <<route, shifts>>
    BY <1>1, <1>3, <1>4 DEF Delivery!delivery
<1>5. CASE /\ ~HasVerdict
           /\ route' = [op |-> TrafficOp(flow.round), weight |-> Stages[CurrentStage]]
           /\ shifts' = shifts \cup {[op |-> TrafficOp(flow.round), stage |-> CurrentStage,
                                      weight |-> Stages[CurrentStage]]}
    <2>1. CurrentStage \in 1 .. Len(Stages) /\ Passed = CurrentStage - 1
        BY <1>5 DEF IInv, StagesAreCounted
    <2>2. route'.weight = Stages[CurrentStage] /\ Stages[CurrentStage] > 0
        BY <1>5, <2>1, StagesTyped
    <2>3. CurrentStage \in Shown'
        <3>1. \A n : (\E s \in shifts' : s.weight > 0 /\ s.stage = n) => n \in Shown'
            BY DEF Shown
        <3> DEFINE shift == [op |-> TrafficOp(flow.round), stage |-> CurrentStage,
                             weight |-> Stages[CurrentStage]]
        <3>2. shift \in shifts' /\ shift.weight > 0 /\ shift.stage = CurrentStage
            BY <1>5, <2>2
        <3> HIDE DEF shift
        <3> QED
            BY <3>1, <3>2
    <2>4. Shown' = 1 .. Passed + 1
        BY <1>3, <2>1, <2>3, StagesTyped DEF IInv, TrafficIsShown
    <2>5. Cardinality(Shown') = Passed + 1
        BY <1>3, <2>4, ReachedIsTheLastShown, FS_Interval
    <2>6. Passed < Len(Stages) /\ CurrentStage = Passed + 1
        BY <2>1, StagesTyped
    <2> QED
        BY <1>1, <1>2, <1>3, <2>2, <2>5, <2>6 DEF Delivery!Expose, Delivery!Next, Closed, Shown
<1> QED
    BY <1>1, <1>4, <1>5 DEF Route

LEMMA RecordVerdictDelivers ==
    IInv /\ IInv' /\ RecordVerdict => [Delivery!Next]_(Delivery!delivery)
<1> SUFFICES ASSUME IInv, IInv', RecordVerdict
             PROVE  [Delivery!Next]_(Delivery!delivery)
    OBVIOUS
<1>1. /\ flow.pc = "canary" /\ ~HasVerdict
      /\ UNCHANGED <<row, release, route, shifts, flow>>
    BY DEF RecordVerdict, At, outside, recorded, IInv, PlacesReached
<1>2. row.state \notin Closed
    BY <1>1, UnderwayStates DEF IInv, Fits, FitsCanary, FitsBuilding, Building, Unpromoted
<1> DEFINE verdict(kind) == [round |-> flow.round, stage |-> CurrentStage, kind |-> kind,
                             share |-> route.weight]
<1>3. PICK kind \in Verdicts : decisions' = Append(decisions, verdict(kind))
    BY DEF RecordVerdict
<1>4. /\ kind \in {"ADVANCE", "HOLD", "ROLLBACK", "PROMOTION_READY"}
      /\ kind \in {"ADVANCE", "PROMOTION_READY"} => Shown = 1 .. Passed + 1
    BY <1>1, VerdictsOnOwnTraffic
<1>5. verdict(kind) \in Decision /\ verdict(kind).kind = kind
    BY <1>4, FlowTyped DEF Decision, IInv, TypeOK, StagesAreCounted
<1>6. Passed' = IF kind \in {"ADVANCE", "PROMOTION_READY"} THEN Passed + 1 ELSE Passed
    <2>1. TypeOK
        BY DEF IInv
    <2> HIDE DEF verdict
    <2> QED
        BY <1>3, <1>5, <2>1, CountsUp DEF Passed
<1>7. Shown' = Shown
    BY <1>1 DEF Shown
<1>8. CASE kind \in {"ADVANCE", "PROMOTION_READY"}
    <2>1. Cardinality(Shown) = Passed + 1 /\ Passed \in Nat
        BY <1>4, <1>8, ReachedIsTheLastShown
    <2>2. Passed' = Passed + 1 /\ Passed < Cardinality(Shown)
        BY <1>6, <1>8, <2>1
    <2> QED
        BY <1>1, <1>2, <1>7, <2>2 DEF Delivery!Earn, Delivery!Next, Closed, Shown
<1>9. CASE kind \notin {"ADVANCE", "PROMOTION_READY"}
    <2>1. Passed' = Passed
        BY <1>6, <1>9
    <2> QED
        BY <1>1, <1>7, <2>1 DEF Delivery!delivery, Shown
<1> QED
    BY <1>8, <1>9

LEMMA ServeReleaseDelivers ==
    IInv /\ IInv' /\ ServeRelease => [Delivery!Next]_(Delivery!delivery)
<1> SUFFICES ASSUME IInv, IInv', ServeRelease
             PROVE  [Delivery!Next]_(Delivery!delivery)
    OBVIOUS
<1>1. /\ flow.pc = "finalize" /\ UNCHANGED <<row, decisions, route, shifts>>
      /\ SetServing(RunOp("release"), "candidate")
    BY DEF ServeRelease, At, outside
<1>2. row.state = "PROMOTED" /\ Earned
    BY <1>1 DEF IInv, Fits, FitsPromotion
<1>3. Passed = Len(Stages)
    BY <1>2 DEF IInv, StagesAreCounted, Earned
<1>4. Passed' = Passed /\ Shown' = Shown
    BY <1>1 DEF Passed, Count, Shown
<1>5. release' = release \/ release'.serving = "candidate"
    BY <1>1 DEF SetServing, IInv, TypeOK
<1>6. CASE release' = release
    BY <1>1, <1>4, <1>6 DEF Delivery!delivery, Shown
<1>7. CASE release'.serving = "candidate"
    BY <1>1, <1>2, <1>3, <1>4, <1>7 DEF Delivery!Serve, Delivery!Next, Shown
<1> QED
    BY <1>5, <1>6, <1>7

LEMMA RollbackServingDelivers ==
    IInv /\ RollbackServing => [Delivery!Next]_(Delivery!delivery)
<1> SUFFICES ASSUME IInv, RollbackServing
             PROVE  [Delivery!Next]_(Delivery!delivery)
    OBVIOUS
<1>1. /\ flow.pc = "rollback_promotion" /\ step.at = "traffic_back"
      /\ UNCHANGED <<row, decisions, route, shifts>>
      /\ SetServing(PartOp(flow.why, "serving"), "baseline")
    BY DEF RollbackServing, At, outside
<1>2. route.weight = 0
    BY <1>1 DEF IInv, PlacesReached
<1>3. Passed' = Passed /\ Shown' = Shown
    BY <1>1 DEF Passed, Count, Shown
<1>4. release' = release \/ release'.serving = "baseline"
    BY <1>1 DEF SetServing, IInv, TypeOK
<1>5. CASE release' = release
    BY <1>1, <1>3, <1>5 DEF Delivery!delivery, Shown
<1>6. CASE release'.serving = "baseline"
    BY <1>1, <1>2, <1>3, <1>6 DEF Delivery!Retire, Delivery!Next, Shown
<1> QED
    BY <1>4, <1>5, <1>6

\* Every other step moves the cycle from a state that is not terminal, or nothing that counts.
LEMMA OthersDeliver ==
    ASSUME IInv,
           \/ Development \/ ObserverFails \/ ApplyVerdict \/ Promote \/ PromoteSource
           \/ RegisterRelease \/ RollbackSource \/ RollbackDeployment \/ RollbackWorktree
           \/ RollbackCycle \/ Closing \/ Record \/ Fault \/ Restart \/ UNCHANGED vars
    PROVE  /\ UNCHANGED <<decisions, route, shifts>> /\ release'.serving = release.serving
           /\ row' = row \/ row.state \notin TerminalStates
<1>1. ASSUME NEW op, NEW to, NEW refs, NEW decision, NEW next,
             MoveCycle(op, to, refs, decision, next)
      PROVE  row' = row \/ row.state \notin TerminalStates
    BY <1>1 DEF MoveCycle, MayTransition
<1>2. CASE StartDevelopment \/ Move \/ ApplyVerdict \/ Promote \/ RollbackCycle
             \/ FailTerminal \/ Reject
    BY <1>1, <1>2
    DEF StartDevelopment, Move, ApplyVerdict, Promote, RollbackCycle, FailTerminal, Reject, outside
<1>3. CASE RegisterRelease
    BY <1>3 DEF RegisterRelease, outside, IInv, TypeOK
<1>4. CASE \/ CreateWorktree \/ CommitCandidate \/ Verify \/ Measure \/ Prepare \/ Deploy
           \/ ObserverFails \/ PromoteSource \/ RollbackSource \/ RollbackDeployment
           \/ RollbackWorktree \/ StopCandidate \/ RemoveWorktree
           \/ Record \/ Fault \/ Restart \/ UNCHANGED vars
    BY <1>4
    DEF CreateWorktree, CommitCandidate, Verify, Measure, Prepare, Deploy, ObserverFails,
        PromoteSource, RollbackSource, RollbackDeployment, RollbackWorktree, StopCandidate,
        RemoveWorktree, Record, Fault, Restart, vars, database, outside
<1> QED
    BY <1>2, <1>3, <1>4 DEF Development, Closing

\* For any stages, retries, restarts and failures the run delivers progressively: each share
\* only after the stages before it were passed, the release only after all, and no cycle is
\* closed while users still reach its candidate.
THEOREM DeliversProgressively == Spec => ImplementsDelivery
<1>1. ASSUME IInv, IInv', [Next]_vars
      PROVE  [Delivery!Next]_(Delivery!delivery)
    <2>1. CASE \/ Development \/ ObserverFails \/ ApplyVerdict \/ Promote \/ PromoteSource
               \/ RegisterRelease \/ RollbackSource \/ RollbackDeployment \/ RollbackWorktree
               \/ RollbackCycle \/ Closing \/ Record \/ Fault \/ Restart \/ UNCHANGED vars
        BY <1>1, <2>1, OthersDeliver, ClosingDelivers
    <2>2. CASE RestoreUnobserved \/ FinishStage \/ RestoreCanary \/ RollbackTraffic
        <3>1. \E op : Route(op, 0) \/ UNCHANGED <<route, shifts>>
            BY <2>2
            DEF RestoreUnobserved, FinishStage, RestoreCanary, RollbackTraffic,
                RestoreCandidateControl
        <3>2. UNCHANGED <<decisions, row, release>>
            BY <2>2 DEF RestoreUnobserved, FinishStage, RestoreCanary, RollbackTraffic, database
        <3> QED
            BY <3>1, <3>2, WithdrawingDelivers
    <2> QED
        BY <1>1, <2>1, <2>2, ShiftTrafficDelivers, RecordVerdictDelivers, ServeReleaseDelivers,
           RollbackServingDelivers
        DEF Next, Work, Canary, Promotion, Compensation
<1> QED
    BY <1>1, InitDelivers, Invariance, PTL DEF Spec, ImplementsDelivery, Delivery!Spec
=============================================================================
