-------------------------- MODULE IterationWorkflow --------------------------
(***************************************************************************)
(* AutonomousIterationWorkflow.run: one prepared change taken through      *)
(* implementation, verification, build, deployment and canary to promotion *)
(* or to a compensated end, as a DBOS durable workflow.                    *)
(*                                                                         *)
(* DBOS records what a step returned or raised and never runs that step    *)
(* again.  A process that dies inside a step, or after it and before the   *)
(* record, runs the whole step again when it restarts.  So every effect of *)
(* a step is an action here, a restart may come between any two of them,   *)
(* and recording the step is an action of its own.                         *)
(*                                                                         *)
(* The workflow is the only one that moves its cycle while it runs, so a   *)
(* call of CycleService (CycleLifecycle) is one action.  So is a call of   *)
(* the traffic director, which reconciles its two files under a lock.      *)
(* The route belongs to an earlier experiment until the first shift, and   *)
(* `weight` counts this cycle's candidate only.                            *)
(***************************************************************************)
EXTENDS CycleStates, Sequences, FiniteSets

CONSTANTS
    Stages,         \* canary stage weights of the target contract
    StepAttempts,   \* max_attempts of the retried steps (3 in the code)
    MaxHolds,       \* bound: HOLD decisions on fresh evidence
    MaxCrashes,     \* bound: restarts of the process (DBOS gives up after 20)
    MaxFaults       \* bound: calls to the outside that fail

ASSUME IterationWorkflowAssumption ==
    /\ Stages \in Seq(1 .. 100) /\ Stages # <<>>
    /\ \A i, j \in DOMAIN Stages : i <= j => Stages[i] <= Stages[j]
    /\ Stages[Len(Stages)] = 100
    /\ StepAttempts \in Nat \ {0}
    /\ MaxHolds \in Nat /\ MaxCrashes \in Nat /\ MaxFaults \in Nat

VARIABLES
    row,        \* the cycle's row: a Row
    receipts,   \* the operation ids of its transition receipts
    decisions,  \* the experiment's receipts in order: [round, stage, kind, share], where
                \* share (not in the code) is the weight the route had when it was decided
    route,      \* the active traffic route: [op, weight]
    shifts,     \* the traffic director's receipts: a set of [op, stage, weight]
    release,    \* the release catalog: [registered, serving, ops]
    host,       \* [head, worktree, container]: default branch, worktree, candidate container
    flow,       \* what DBOS has recorded: [pc, why, round]
    step,       \* the step under way, lost in a crash: [at, tries, outcome]
    budget      \* [crashes, faults] so far

vars == <<row, receipts, decisions, route, shifts, release, host, flow, step, budget>>

----------------------------------------------------------------------------
\* Steps, and what happens to what they return or raise.

\* The steps that do nothing but one transition of the cycle.
Moves == [
    candidate_ready    |-> [to |-> "CANDIDATE_READY", refs |-> {"candidate"},
                            next |-> "start_verification"],
    start_verification |-> [to |-> "VERIFYING", refs |-> {}, next |-> "pre_verification"],
    verified           |-> [to |-> "VERIFIED", refs |-> {"verification"}, next |-> "build"],
    built              |-> [to |-> "BUILT", refs |-> {"artifact"}, next |-> "deploy"],
    staged             |-> [to |-> "STAGED", refs |-> {"deployment"}, next |-> "performance"],
    canarying          |-> [to |-> "CANARYING", refs |-> {"experiment", "verification"},
                            next |-> "canary"]]

\* Steps declared with retries_allowed, and the phases whose exceptions run() catches.
Retried == {"restore_canary", "cleanup", "rollback_promotion"}
Guarded == {"implement", "pre_verification", "build", "deploy", "performance", "canary",
            "promote_source", "finalize"}

Steps == DOMAIN Moves \cup Retried \cup Guarded
           \cup {"start_development", "ensure_experiment", "apply_canary", "promote",
                 "fail_terminal", "reject"}

\* How a run ends: status "promoted", a terminal result, or an exception that run()
\* lets out, which DBOS records as the workflow's error and never runs again.
Ends == {"promoted", "closed", "error"}

\* Why the run left the way to promotion.
Failures == {"implementation", "pre-verification", "build", "deployment", "performance",
             "canary"}
Rejections == {"pre-verification-reject", "performance-reject"}
Compensations == {"source-promotion-failed", "release-finalization-failed"}
Reasons == {"none", "regression"} \cup Failures \cup Rejections \cup Compensations

\* What a step leaves to be recorded: where the run goes, and for which reason.
Outcome == [pc : Steps \cup Ends, why : Reasons]
Pending == [pc |-> "pending"]

Fresh == [at |-> "start", tries |-> 0, outcome |-> Pending]

Places == {"start", "returned", "worktree", "routed", "unobserved", "decided", "stopped",
           "registered", "traffic_back", "serving_back", "source_back", "clean"}

\* Faulty variant: a canary that fails is cleaned up without giving its traffic back.
CaughtWithoutRestore(pc) ==
    CASE pc = "implement"        -> [pc |-> "cleanup", why |-> "implementation"]
      [] pc = "pre_verification" -> [pc |-> "cleanup", why |-> "pre-verification"]
      [] pc = "build"            -> [pc |-> "cleanup", why |-> "build"]
      [] pc = "deploy"           -> [pc |-> "cleanup", why |-> "deployment"]
      [] pc = "performance"      -> [pc |-> "cleanup", why |-> "performance"]
      [] pc = "canary"           -> [pc |-> "cleanup", why |-> "canary"]
      [] pc = "promote_source"   -> [pc |-> "rollback_promotion",
                                     why |-> "source-promotion-failed"]
      [] pc = "finalize"         -> [pc |-> "rollback_promotion",
                                     why |-> "release-finalization-failed"]
      [] OTHER                   -> [pc |-> "error", why |-> "none"]

\* Faulty variant: the release record is best effort, and a build is not guarded.
CaughtTooLittle(pc) ==
    CASE pc = "finalize"       -> [pc |-> "promoted", why |-> "none"]
      [] pc = "build"          -> [pc |-> "error", why |-> "none"]
      [] pc = "promote_source" -> [pc |-> "rollback_promotion",
                                   why |-> "source-promotion-failed"]
      [] pc = "canary"         -> [pc |-> "restore_canary", why |-> "canary"]
      [] OTHER                 -> CaughtWithoutRestore(pc)

\* The except clauses of run().
Caught(pc) ==
    CASE pc = "implement"        -> [pc |-> "cleanup", why |-> "implementation"]
      [] pc = "pre_verification" -> [pc |-> "cleanup", why |-> "pre-verification"]
      [] pc = "build"            -> [pc |-> "cleanup", why |-> "build"]
      [] pc = "deploy"           -> [pc |-> "cleanup", why |-> "deployment"]
      [] pc = "performance"      -> [pc |-> "cleanup", why |-> "performance"]
      [] pc = "canary"           -> [pc |-> "restore_canary", why |-> "canary"]
      [] pc = "promote_source"   -> [pc |-> "rollback_promotion",
                                     why |-> "source-promotion-failed"]
      [] pc = "finalize"         -> [pc |-> "rollback_promotion",
                                     why |-> "release-finalization-failed"]
      [] OTHER                   -> [pc |-> "error", why |-> "none"]

At(pc, place) == flow.pc = pc /\ step.at = place /\ step.outcome = Pending

Goto(place) == step' = [step EXCEPT !.at = place]

ReturnBecause(next, why) ==
    step' = [step EXCEPT !.at = "returned", !.outcome = [pc |-> next, why |-> why]]

Return(next) == ReturnBecause(next, flow.why)

\* An exception leaves the step: a retried step starts over while it has attempts left.
Throw ==
    step' = IF flow.pc \in Retried /\ step.tries + 1 < StepAttempts
              THEN [Fresh EXCEPT !.tries = step.tries + 1]
              ELSE [step EXCEPT !.at = "returned", !.outcome = Caught(flow.pc)]

----------------------------------------------------------------------------
\* Calls to the services below the workflow.

\* Operation ids: of the run as a whole, of one canary round, of one part of a compensation.
RunOp(name) == <<name, "run", 0>>
RoundOp(name, r) == <<name, "canary", r>>
PartOp(name, part) == <<name, part, 0>>

\* CycleService.transition with the version the step has just read: a receipt of an
\* earlier run of the step names an older version, and the call ends in a conflict.
MoveCycle(op, to, refs, decision, next) ==
    IF op \notin receipts /\ MayTransition(row, to, refs, decision)
      THEN /\ row' = Transitioned(row, to, refs, decision)
           /\ receipts' = receipts \cup {op}
           /\ Return(next)
      ELSE /\ Throw
           /\ UNCHANGED <<row, receipts>>

\* How many of the decisions are of some kinds.
Count(kinds) == Cardinality({i \in DOMAIN decisions : decisions[i].kind \in kinds})

\* Faulty variant: an experiment leaves its stage on every decision but a rollback.
StageAfterHold == 1 + Count({"ADVANCE", "HOLD"})

\* experiment.current_stage_index, one-based: commit_stage_decision moves it with the receipt.
CurrentStage == 1 + Count({"ADVANCE"})

\* TrafficDirector.apply: an operation that has its receipt is answered from the receipt.
Route(op, weight) ==
    IF \E s \in shifts : s.op = op
      THEN UNCHANGED <<route, shifts>>
      ELSE /\ route' = [op |-> op, weight |-> weight]
           /\ shifts' = shifts \cup {[op |-> op, stage |-> CurrentStage, weight |-> weight]}

\* CanaryService.restore_candidate_control: nothing to do unless this candidate has traffic.
RestoreCandidateControl(op) ==
    IF route.weight > 0 THEN Route(op, 0) ELSE UNCHANGED <<route, shifts>>

\* ReleaseCatalogService.set_serving.
SetServing(op, which) ==
    release' = IF op \in release.ops THEN release
               ELSE [release EXCEPT !.serving = which, !.ops = @ \cup {op}]

\* The verdict that passes a stage.
Passing(stage) == IF stage = Len(Stages) THEN "PROMOTION_READY" ELSE "ADVANCE"

AnswersOf(r) == {d \in {decisions[i] : i \in DOMAIN decisions} : d.round = r}
KindOf(r) == (CHOOSE d \in AnswersOf(r) : TRUE).kind

\* ExperimentService.promotion_history: past the holds, each stage passed in its turn.
HistoryComplete ==
    LET answers == {k \in DOMAIN decisions : decisions[k].kind # "HOLD"}
    IN \A i \in DOMAIN Stages : \E k \in answers :
         /\ Cardinality({j \in answers : j <= k}) = i
         /\ decisions[k].stage = i /\ decisions[k].kind = Passing(i)

TrafficOp(r) == RoundOp("traffic", r)

\* Faulty variant: the metrics of all generations are counted together.
VerdictsOnAnyTraffic == {"ROLLBACK", "HOLD", Passing(CurrentStage)}

\* What evaluate_canary_stage can find in the metrics of the generation the shift of this
\* round made.  With another route active since, the process has restarted, the registry
\* is empty and no request adds to that generation: the evidence is insufficient.
Verdicts ==
    IF route.op = TrafficOp(flow.round)
      THEN {"ROLLBACK", "HOLD", Passing(CurrentStage)}
      ELSE {"HOLD"}

----------------------------------------------------------------------------
\* The steps.  Each action is one effect, and leaves the rest of the world as it is.

database == <<row, receipts, decisions, release>>
outside == <<route, shifts, host>>
recorded == <<flow, budget>>

\* _start_development_step.
StartDevelopment ==
    /\ At("start_development", "start")
    /\ IF row.state = "DEVELOPING"
         THEN Return("implement") /\ UNCHANGED <<row, receipts>>
         ELSE IF row.state = "CHANGE_PROPOSED"
           THEN MoveCycle(RunOp("developing"), "DEVELOPING", {}, NoDecision, "implement")
           ELSE Throw /\ UNCHANGED <<row, receipts>>
    /\ UNCHANGED <<decisions, release, outside, recorded>>

\* _implement_step: a worktree of its own, then one commit in it.  Both are found again
\* when the step is run again.
CreateWorktree ==
    /\ At("implement", "start")
    /\ host' = [host EXCEPT !.worktree = IF @ = "absent" THEN "created" ELSE @]
    /\ Goto("worktree")
    /\ UNCHANGED <<database, route, shifts, recorded>>

CommitCandidate ==
    /\ At("implement", "worktree")
    /\ host' = [host EXCEPT !.worktree = "committed"]
    /\ Return("candidate_ready")
    /\ UNCHANGED <<database, route, shifts, recorded>>

\* The steps of Moves.
Move ==
    /\ flow.pc \in DOMAIN Moves
    /\ At(flow.pc, "start")
    /\ LET move == Moves[flow.pc]
       IN MoveCycle(RunOp(flow.pc), move.to, move.refs, NoDecision, move.next)
    /\ UNCHANGED <<decisions, release, outside, recorded>>

\* _pre_verification_step and _performance_step: the gates pass the candidate or do not.
Verify ==
    /\ At("pre_verification", "start")
    /\ \/ Return("verified")
       \/ ReturnBecause("cleanup", "pre-verification-reject")
    /\ UNCHANGED <<database, outside, recorded>>

Measure ==
    /\ At("performance", "start")
    /\ \/ Return("ensure_experiment")
       \/ ReturnBecause("cleanup", "performance-reject")
    /\ UNCHANGED <<database, outside, recorded>>

\* _build_step, and _ensure_experiment_step (its row, still in its first stage, is found
\* again): neither leaves anything the rest of the run could trip over.
Prepare ==
    /\ \/ At("build", "start") /\ Return("built")
       \/ At("ensure_experiment", "start") /\ Return("canarying")
    /\ UNCHANGED <<database, outside, recorded>>

\* _deploy_step: ensure finds the container of an earlier run by its name.
Deploy ==
    /\ At("deploy", "start")
    /\ host' = [host EXCEPT !.container = "running"]
    /\ Return("staged")
    /\ UNCHANGED <<database, route, shifts, recorded>>

----------------------------------------------------------------------------
\* _canary_step: CanaryService.run_stage.

ShiftTraffic ==
    /\ At("canary", "start")
    /\ IF AnswersOf(flow.round) # {}
         THEN Goto("decided") /\ UNCHANGED <<route, shifts>>
         ELSE Goto("routed") /\ Route(TrafficOp(flow.round), Stages[CurrentStage])
    /\ UNCHANGED <<database, host, recorded>>

\* Observe, evaluate, and record the decision with the stage it leads to.
RecordVerdict ==
    /\ At("canary", "routed")
    /\ \E kind \in Verdicts :
         /\ kind = "HOLD" /\ "ROLLBACK" \in Verdicts =>
                Count({"HOLD"}) < MaxHolds
         /\ decisions' = Append(decisions, [round |-> flow.round, stage |-> CurrentStage,
                                            kind |-> kind, share |-> route.weight])
    /\ Goto("decided")
    /\ UNCHANGED <<row, receipts, release, outside, recorded>>

\* The observer raises; traffic is restored before the exception goes on.
ObserverFails ==
    /\ At("canary", "routed")
    /\ budget.faults < MaxFaults
    /\ budget' = [budget EXCEPT !.faults = @ + 1]
    /\ Goto("unobserved")
    /\ UNCHANGED <<database, outside, flow>>

RestoreUnobserved ==
    /\ At("canary", "unobserved")
    /\ Route(RoundOp("observer-failed", flow.round), 0)
    /\ Throw
    /\ UNCHANGED <<database, host, recorded>>

\* _ensure_post_decision_routing, and the branch run() takes on the decision.
FinishStage ==
    LET kind == KindOf(flow.round)
    IN /\ At("canary", "decided")
       /\ IF kind \in {"HOLD", "ROLLBACK"}
            THEN Route(RoundOp(kind, flow.round), 0)
            ELSE UNCHANGED <<route, shifts>>
       /\ IF kind = "ROLLBACK" THEN ReturnBecause("cleanup", "regression")
                               ELSE Return("apply_canary")
       /\ UNCHANGED <<database, host, recorded>>

\* _restore_canary_control_step.
RestoreCanary ==
    /\ At("restore_canary", "start")
    /\ RestoreCandidateControl(RoundOp("failure-restore", flow.round))
    /\ Return("cleanup")
    /\ UNCHANGED <<database, host, recorded>>

\* _apply_canary_step: ReleaseService.apply_canary_decision.
ApplyVerdict ==
    LET kind == KindOf(flow.round)
        op == RoundOp("apply", flow.round)
    IN /\ At("apply_canary", "start")
       /\ IF kind \in {"ADVANCE", "HOLD"}
            THEN Return("canary") /\ UNCHANGED <<row, receipts>>
          ELSE IF kind = "ROLLBACK"
            THEN MoveCycle(op, "ROLLED_BACK", {}, "ROLLBACK", "closed")
          ELSE IF HistoryComplete
            THEN MoveCycle(op, "PROMOTION_READY", {}, NoDecision, "promote")
          ELSE Throw /\ UNCHANGED <<row, receipts>>
       /\ UNCHANGED <<decisions, release, outside, recorded>>

----------------------------------------------------------------------------
\* Promotion.

\* _promote_step: ReleaseService.decide_and_apply_promotion.  decide_promotion refuses a
\* cycle that is not promotion-ready.  Every gate has passed by now and promotion_history
\* raises on anything but a complete history, so the decision it computes and records in
\* the ledger, again and equal when the step is run again, is always to promote.
Promote ==
    /\ At("promote", "start")
    /\ IF row.state = "PROMOTION_READY" /\ HistoryComplete
         THEN MoveCycle(RunOp("promotion"), "PROMOTED", {}, "PROMOTE", "promote_source")
         ELSE Throw /\ UNCHANGED <<row, receipts>>
    /\ UNCHANGED <<decisions, release, outside, recorded>>

\* _promote_source_step: fast-forward the default branch, unless it is there already.
PromoteSource ==
    /\ At("promote_source", "start")
    /\ host' = [host EXCEPT !.head = "candidate"]
    /\ Return("finalize")
    /\ UNCHANGED <<database, route, shifts, recorded>>

\* _finalize_release_step: ReleaseFinalizationService.finalize, register then set_serving.
RegisterRelease ==
    /\ At("finalize", "start")
    /\ IF row.state = "PROMOTED"
         THEN /\ release' = [release EXCEPT !.registered = TRUE]
              /\ Goto("registered")
         ELSE Throw /\ UNCHANGED release
    /\ UNCHANGED <<row, receipts, decisions, outside, recorded>>

ServeRelease ==
    /\ At("finalize", "registered")
    /\ SetServing(RunOp("release"), "candidate")
    /\ Return("promoted")
    /\ UNCHANGED <<row, receipts, decisions, outside, recorded>>

----------------------------------------------------------------------------
\* _rollback_failed_promotion_step: undo the promotion, users first.

RollbackTraffic ==
    /\ At("rollback_promotion", "start")
    /\ IF row.state = "ROLLED_BACK"
         THEN Return("closed") /\ UNCHANGED <<route, shifts>>
       ELSE IF row.state = "PROMOTED"
         THEN Goto("traffic_back") /\ RestoreCandidateControl(PartOp(flow.why, "traffic"))
       ELSE Throw /\ UNCHANGED <<route, shifts>>
    /\ UNCHANGED <<database, host, recorded>>

RollbackServing ==
    /\ At("rollback_promotion", "traffic_back")
    /\ SetServing(PartOp(flow.why, "serving"), "baseline")
    /\ Goto("serving_back")
    /\ UNCHANGED <<row, receipts, decisions, outside, recorded>>

RollbackSource ==
    /\ At("rollback_promotion", "serving_back")
    /\ host' = [host EXCEPT !.head = "baseline"]
    /\ Goto("source_back")
    /\ UNCHANGED <<database, route, shifts, recorded>>

RollbackDeployment ==
    /\ At("rollback_promotion", "source_back")
    /\ host' = [host EXCEPT !.container = "none"]
    /\ Goto("stopped")
    /\ UNCHANGED <<database, route, shifts, recorded>>

RollbackWorktree ==
    /\ At("rollback_promotion", "stopped")
    /\ host' = [host EXCEPT !.worktree = "absent"]
    /\ Goto("clean")
    /\ UNCHANGED <<database, route, shifts, recorded>>

RollbackCycle ==
    /\ At("rollback_promotion", "clean")
    /\ MoveCycle(PartOp(flow.why, "cycle"), "ROLLED_BACK", {}, "ROLLBACK", "closed")
    /\ UNCHANGED <<decisions, release, outside, recorded>>

----------------------------------------------------------------------------
\* The other ways out: _cleanup_step, then _fail_terminal_step or _reject_step.

\* Faulty variant: a failed canary leaves its container behind.
StoppedBefore(why) == why \in {"deployment", "performance", "performance-reject", "regression"}

\* The reasons for which the candidate's deployment id is handed to the cleanup.
Deployed(why) ==
    why \in {"deployment", "performance", "canary", "performance-reject", "regression"}

StopCandidate ==
    /\ At("cleanup", "start")
    /\ host' = IF Deployed(flow.why) THEN [host EXCEPT !.container = "none"] ELSE host
    /\ Goto("stopped")
    /\ UNCHANGED <<database, route, shifts, recorded>>

RemoveWorktree ==
    /\ At("cleanup", "stopped")
    /\ host' = [host EXCEPT !.worktree = "absent"]
    /\ Return(CASE flow.why = "regression"   -> "apply_canary"
                [] flow.why \in Rejections   -> "reject"
                [] OTHER                     -> "fail_terminal")
    /\ UNCHANGED <<database, route, shifts, recorded>>

FailTerminal ==
    /\ At("fail_terminal", "start")
    /\ IF row.state \in TerminalStates
         THEN Return("closed") /\ UNCHANGED <<row, receipts>>
         ELSE MoveCycle(PartOp("failed", flow.why), "FAILED_TERMINAL", {}, NoDecision, "closed")
    /\ UNCHANGED <<decisions, release, outside, recorded>>

Reject ==
    /\ At("reject", "start")
    /\ IF row.state = "REJECTED"
         THEN Return("closed") /\ UNCHANGED <<row, receipts>>
         ELSE MoveCycle(RunOp(flow.why), "REJECTED", {}, "REJECT", "closed")
    /\ UNCHANGED <<decisions, release, outside, recorded>>

----------------------------------------------------------------------------
\* DBOS and the world around the steps.

Ended == flow.pc \in Ends

\* A call to git, Codex, Docker, a gate, the router or the catalog fails, or its answer is
\* lost after it took effect.  (A database that fails under a step that only moves the
\* cycle is not modelled: DBOS could not record the step either.)
Fault ==
    /\ flow.pc \in Retried \cup Guarded
    /\ budget.faults < MaxFaults
    /\ Throw
    /\ budget' = [budget EXCEPT !.faults = @ + 1]
    /\ UNCHANGED <<database, outside, flow>>

\* Faulty variant: canary_round is not moved on.
RecordSameRound ==
    /\ step.outcome # Pending
    /\ flow' = [flow EXCEPT !.pc = step.outcome.pc, !.why = step.outcome.why]
    /\ step' = Fresh
    /\ UNCHANGED <<database, outside, budget>>

\* DBOS records the step; run() goes on with it, and counts the rounds of the canary.
Record ==
    /\ step.outcome # Pending
    /\ flow' = [pc |-> step.outcome.pc, why |-> step.outcome.why,
                round |-> IF flow.pc = "apply_canary" /\ step.outcome.pc = "canary"
                            THEN flow.round + 1 ELSE flow.round]
    /\ step' = Fresh
    /\ UNCHANGED <<database, outside, budget>>

\* The process dies and is started again: DBOS runs the unrecorded step from its beginning.
Restart ==
    /\ ~Ended
    /\ step # Fresh
    /\ budget.crashes < MaxCrashes
    /\ budget' = [budget EXCEPT !.crashes = @ + 1]
    /\ step' = Fresh
    /\ UNCHANGED <<database, outside, flow>>

\* A prepared cycle: NEW, BASELINE_VERIFIED, CHANGE_PROPOSED, with nothing of it anywhere.
Init ==
    /\ row = [state |-> "CHANGE_PROPOSED", version |-> 2, refs |-> {},
              decision |-> NoDecision]
    /\ receipts = {} /\ decisions = <<>> /\ shifts = {}
    /\ route = [op |-> RunOp("initial"), weight |-> 0]
    /\ release = [registered |-> FALSE, serving |-> "baseline", ops |-> {}]
    /\ host = [head |-> "baseline", worktree |-> "absent", container |-> "none"]
    /\ flow = [pc |-> "start_development", why |-> "none", round |-> 0]
    /\ step = Fresh
    /\ budget = [crashes |-> 0, faults |-> 0]

Development == StartDevelopment \/ CreateWorktree \/ CommitCandidate \/ Move \/ Verify
                 \/ Measure \/ Prepare \/ Deploy
Canary == ShiftTraffic \/ RecordVerdict \/ ObserverFails \/ RestoreUnobserved
            \/ FinishStage \/ RestoreCanary \/ ApplyVerdict
Promotion == Promote \/ PromoteSource \/ RegisterRelease \/ ServeRelease
Compensation == RollbackTraffic \/ RollbackServing \/ RollbackSource \/ RollbackDeployment
                  \/ RollbackWorktree \/ RollbackCycle
Closing == StopCandidate \/ RemoveWorktree \/ FailTerminal \/ Reject

Work == Development \/ Canary \/ Promotion \/ Compensation \/ Closing \/ Record

Next == Work \/ Fault \/ Restart

\* DBOS runs a pending workflow until it returns: a step that can go on does.
Spec == Init /\ [][Next]_vars /\ WF_vars(Work)

----------------------------------------------------------------------------
Weights == {0} \cup {Stages[i] : i \in DOMAIN Stages}

Decision == [round : Nat, stage : 1 .. Len(Stages), share : Weights,
             kind : {"ADVANCE", "HOLD", "ROLLBACK", "PROMOTION_READY"}]

\* Everything keeps its shape, and the counters their bounds.
TypeOK ==
    /\ row \in Row
    /\ decisions \in Seq(Decision)
    /\ route.weight \in Weights
    /\ release \in [registered : BOOLEAN, serving : {"baseline", "candidate"},
                    ops : SUBSET ({RunOp("release")}
                                    \cup {PartOp(why, "serving") : why \in Reasons})]
    /\ host \in [head : {"baseline", "candidate"}, worktree : {"absent", "created", "committed"},
                 container : {"none", "running"}]
    /\ flow \in [pc : Steps \cup Ends, why : Reasons, round : Nat]
    /\ step \in [at : Places, tries : 0 .. StepAttempts - 1, outcome : Outcome \cup {Pending}]
    /\ budget \in [crashes : 0 .. MaxCrashes, faults : 0 .. MaxFaults]

\* A cycle that ends without its candidate leaves nothing of it: no share of the traffic,
\* not the serving release, not the default branch, no container and no worktree, whatever
\* failed and wherever the process died on the way (run(): every way out undoes the world
\* first and moves the cycle last).
NothingLeftBehind ==
    row.state \in {"REJECTED", "ROLLED_BACK", "FAILED_TERMINAL"} =>
        /\ route.weight = 0
        /\ release.serving = "baseline"
        /\ host = [head |-> "baseline", worktree |-> "absent", container |-> "none"]

\* No request is routed to a candidate that is not there, and no release is served whose
\* source is not on the default branch or whose cycle is not promoted: what the order of
\* the steps, and of the effects of the rollback, is for.
UsersReachWhatExists ==
    /\ route.weight > 0 => host.container = "running"
    /\ release.serving = "candidate" =>
         host.head = "candidate" /\ host.container = "running" /\ row.state = "PROMOTED"

\* A run that reports a promotion has all of it; one that reports a terminal result has one.
ResultIsTrue ==
    /\ flow.pc = "promoted" =>
         /\ row.state = "PROMOTED" /\ release.registered
         /\ release.serving = "candidate" /\ host.head = "candidate"
    /\ flow.pc = "closed" => row.state \in TerminalStates

\* A candidate is promoted only after each stage was passed on traffic that really had that
\* stage's weight when the verdict fell, and after no rollback verdict: also when a restart
\* replayed the shift of a route that had been restored since.
PromotedOnTrafficShown ==
    row.state \in PromotedStates =>
        /\ \A i \in DOMAIN Stages : \E k \in DOMAIN decisions :
             decisions[k].stage = i /\ decisions[k].kind = Passing(i)
               /\ decisions[k].share = Stages[i]
        /\ \A k \in DOMAIN decisions : decisions[k].kind # "ROLLBACK"

\* The candidate's way to the users is the promised one.
Passed == Count({"ADVANCE", "PROMOTION_READY"})

Delivery == INSTANCE ProgressiveDelivery WITH
    share <- route.weight,
    reached <- Cardinality({s.stage : s \in {t \in shifts : t.weight > 0}}),
    earned <- Passed,
    served <- release.serving = "candidate",
    closed <- row.state \in {"REJECTED", "ROLLED_BACK", "FAILED_TERMINAL"}

ImplementsDelivery == Delivery!Spec

\* Every run ends: HOLD decisions, retries and restarts never send it round for ever.
EveryRunEnds == <>Ended

\* docs/v1-design.md, "Restarting the control plane cannot lose or duplicate a development
\* cycle": a run that DBOS gives up on has brought its cycle to an end.
NoCycleLost == flow.pc = "error" => row.state \in TerminalStates
==============================================================================
