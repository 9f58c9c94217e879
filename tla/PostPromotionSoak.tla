-------------------------- MODULE PostPromotionSoak --------------------------
(***************************************************************************)
(* PostPromotionSoakWorkflow over PostPromotionSoakService: what happens   *)
(* to a promoted cycle.  The candidate serves every request while its      *)
(* metrics are watched round by round, until it is kept for good or the    *)
(* baseline is brought back.                                               *)
(*                                                                         *)
(* The conventions are those of IterationWorkflow: one action per effect,  *)
(* a restart between any two of them, and recording a step an action of    *)
(* its own.  No step of this workflow is retried, and run() catches the    *)
(* exceptions of the observation only.                                     *)
(***************************************************************************)
EXTENDS CycleStates, Sequences, FiniteSets

CONSTANTS
    Stages,         \* the canary stages the cycle has passed, for ProgressiveDelivery
    MaxHolds,       \* bound: HOLD decisions
    MaxCrashes,     \* bound: restarts of the process
    MaxFaults       \* bound: calls to the outside that fail

ASSUME PostPromotionSoakAssumption ==
    MaxHolds \in Nat /\ MaxCrashes \in Nat /\ MaxFaults \in Nat

VARIABLES
    row,        \* the cycle's row: a Row
    receipts,   \* operation ids of the cycle's transitions in this workflow
    decisions,  \* the table soak_decision_operations: [op, kind], in order
    route,      \* the active route: [experiment, weight]
    shifts,     \* operation ids of the traffic director's receipts
    serving,    \* the target's serving release: "candidate" or "baseline"
    host,       \* [head, worktree, candidate, baseline]: branch, worktree, two containers
    flow,       \* what DBOS has recorded: [pc, round]
    step,       \* the step under way: [at, outcome]
    budget      \* [crashes, faults] so far

vars == <<row, receipts, decisions, route, shifts, serving, host, flow, step, budget>>

----------------------------------------------------------------------------
Steps == {"start", "observe", "apply", "rollback_unobserved"}
Ends == {"done", "error"}
Places == {"begun", "routed", "resolved", "traffic_back", "serving_back", "source_back",
           "stopped", "clean", "returned"}

Pending == "pending"
Fresh == [at |-> "begun", outcome |-> Pending]

At(pc, place) == flow.pc = pc /\ step.at = place /\ step.outcome = Pending
Goto(place) == step' = [step EXCEPT !.at = place]
Return(pc) == step' = [at |-> "returned", outcome |-> pc]

\* The one except clause of run().
Throw == Return(IF flow.pc = "observe" THEN "rollback_unobserved" ELSE "error")

DecisionOp(round) == <<"decision", round>>
RouteOp == <<"route", 0>>

\* A row of the decision table.
Verdicts == [op : {DecisionOp(round) : round \in 0 .. MaxHolds},
             kind : {"HOLD", "ROLLBACK", "COMPLETE"}]

\* The operation ids of a rollback's effects.
EffectOp(part) == <<flow.pc, part, flow.round>>

Recorded(op) == {d \in {decisions[i] : i \in DOMAIN decisions} : d.op = op}
KindOf(op) == (CHOOSE d \in Recorded(op) : TRUE).kind

\* CycleService.transition with the version read at the beginning of the step.
MoveCycle(op, to, decision, next) ==
    IF op \notin receipts /\ MayTransition(row, to, {}, decision)
      THEN /\ row' = Transitioned(row, to, {}, decision)
           /\ receipts' = receipts \cup {op}
           /\ Return(next)
      ELSE Throw /\ UNCHANGED <<row, receipts>>

\* TrafficDirector.apply: answered from its receipt when it has one.
Route(op, weight) ==
    IF op \in shifts THEN UNCHANGED <<route, shifts>>
    ELSE /\ route' = [experiment |-> "soak", weight |-> weight]
         /\ shifts' = shifts \cup {op}

----------------------------------------------------------------------------
database == <<row, receipts, decisions, serving>>
outside == <<route, shifts, host>>
recorded == <<flow, budget>>

\* start: a cycle that is soaking already has been started by this step before.
Start ==
    /\ At("start", "begun")
    /\ IF row.state = "SOAKING"
         THEN Return("observe") /\ UNCHANGED <<row, receipts>>
         ELSE IF row.state = "PROMOTED" /\ serving = "candidate"
           THEN MoveCycle(<<"start", 0>>, "SOAKING", NoDecision, "observe")
           ELSE Throw /\ UNCHANGED <<row, receipts>>
    /\ UNCHANGED <<decisions, serving, outside, recorded>>

\* Faulty variant: a round is observed anew whenever its step is run.
ExposeAgain ==
    /\ At("observe", "begun")
    /\ Route(RouteOp, 100)
    /\ Goto("routed")
    /\ UNCHANGED <<database, host, recorded>>

\* observe: a round that has its decision is answered with it; otherwise both containers
\* are brought up and all traffic is routed to the candidate, as the soak's own experiment
\* and under one operation id for all rounds.
Expose ==
    /\ At("observe", "begun")
    /\ IF Recorded(DecisionOp(flow.round)) # {}
         THEN Return("apply") /\ UNCHANGED <<route, shifts, host>>
         ELSE IF row.state # "SOAKING" \/ serving # "candidate"
           THEN Throw /\ UNCHANGED <<route, shifts, host>>
           ELSE /\ host' = [host EXCEPT !.baseline = "running", !.candidate = "running"]
                /\ Route(RouteOp, 100)
                /\ Goto("routed")
    /\ UNCHANGED <<database, recorded>>

\* SoakDecisionRepository.record; a round that has its decision does not come here again.
RecordDecision(kind) ==
    decisions' = Append(decisions, [op |-> DecisionOp(flow.round), kind |-> kind])

\* Then the observer's evidence is judged and the decision recorded.  After a restart the
\* metrics of the route's generation start from nothing, which only makes HOLD likelier.
Judge ==
    /\ At("observe", "routed")
    /\ \E kind \in {"HOLD", "ROLLBACK", "COMPLETE"} :
         /\ kind = "HOLD" => flow.round < MaxHolds
         /\ RecordDecision(kind)
    /\ Return("apply")
    /\ UNCHANGED <<row, receipts, serving, outside, recorded>>

\* apply, as far as the decision alone settles it.
ApplyHold ==
    /\ At("apply", "begun")
    /\ KindOf(DecisionOp(flow.round)) = "HOLD"
    /\ IF row.state = "SOAKING" THEN Return("observe") ELSE Throw
    /\ UNCHANGED <<database, outside, recorded>>

\* apply of COMPLETE: the baseline is given up, then the worktree, then the cycle completes.
StopBaseline ==
    /\ At("apply", "begun")
    /\ KindOf(DecisionOp(flow.round)) = "COMPLETE"
    /\ IF row.state = "SOAKING"
         THEN Goto("stopped") /\ host' = [host EXCEPT !.baseline = "none"]
         ELSE /\ IF row.state = "COMPLETED" THEN Return("done") ELSE Throw
              /\ UNCHANGED host
    /\ UNCHANGED <<database, route, shifts, recorded>>

Completing == flow.pc = "apply" /\ KindOf(DecisionOp(flow.round)) = "COMPLETE"

RemoveWorktree ==
    /\ flow.pc \in {"apply", "rollback_unobserved"}
    /\ At(flow.pc, "stopped")
    /\ host' = [host EXCEPT !.worktree = "absent"]
    /\ Goto("clean")
    /\ UNCHANGED <<database, route, shifts, recorded>>

EndCycle ==
    /\ flow.pc \in {"apply", "rollback_unobserved"}
    /\ At(flow.pc, "clean")
    /\ IF Completing THEN MoveCycle(EffectOp("complete"), "COMPLETED", NoDecision, "done")
                     ELSE MoveCycle(EffectOp("cycle"), "ROLLED_BACK", "ROLLBACK", "done")
    /\ UNCHANGED <<decisions, serving, outside, recorded>>

----------------------------------------------------------------------------
\* _rollback_to_baseline, for a ROLLBACK decision and for a soak nobody could observe.

RollingBack ==
    \/ flow.pc = "rollback_unobserved"
    \/ flow.pc = "apply" /\ KindOf(DecisionOp(flow.round)) = "ROLLBACK"

\* The baseline is brought up before anything is sent to it; only the soak's own route may
\* be rolled back.
ResolveBaseline ==
    /\ RollingBack
    /\ At(flow.pc, "begun")
    /\ IF row.state # "SOAKING"
         THEN /\ IF row.state = "ROLLED_BACK" THEN Return("done") ELSE Throw
              /\ UNCHANGED host
         ELSE /\ host' = [host EXCEPT !.baseline = "running"]
              /\ IF route.experiment = "soak" THEN Goto("resolved") ELSE Throw
    /\ UNCHANGED <<database, route, shifts, recorded>>

\* Faulty variant: the rollback reuses the operation id of the soak's route.
RestoreTrafficAsRoute ==
    /\ RollingBack
    /\ At(flow.pc, "resolved")
    /\ Route(RouteOp, 0)
    /\ Goto("traffic_back")
    /\ UNCHANGED <<database, host, recorded>>

RestoreTraffic ==
    /\ RollingBack
    /\ At(flow.pc, "resolved")
    /\ Route(EffectOp("traffic"), 0)
    /\ Goto("traffic_back")
    /\ UNCHANGED <<database, host, recorded>>

RestoreServing ==
    /\ RollingBack
    /\ At(flow.pc, "traffic_back")
    /\ serving' = "baseline"
    /\ Goto("serving_back")
    /\ UNCHANGED <<row, receipts, decisions, outside, recorded>>

\* Faulty variant: the branch is left where the promotion moved it.
RestoreSourceLater ==
    /\ RollingBack
    /\ At(flow.pc, "serving_back")
    /\ Goto("source_back")
    /\ UNCHANGED <<database, outside, recorded>>

RestoreSource ==
    /\ RollingBack
    /\ At(flow.pc, "serving_back")
    /\ host' = [host EXCEPT !.head = "baseline"]
    /\ Goto("source_back")
    /\ UNCHANGED <<database, route, shifts, recorded>>

StopCandidate ==
    /\ RollingBack
    /\ At(flow.pc, "source_back")
    /\ host' = [host EXCEPT !.candidate = "none"]
    /\ Goto("stopped")
    /\ UNCHANGED <<database, route, shifts, recorded>>

----------------------------------------------------------------------------
\* A call to the outside or to the database fails, or its answer is lost after it took effect.
Fault ==
    /\ flow.pc \in Steps
    /\ budget.faults < MaxFaults
    /\ Throw
    /\ budget' = [budget EXCEPT !.faults = @ + 1]
    /\ UNCHANGED <<database, outside, flow>>

\* Faulty variant: round_index is not moved on.
RecordSameRound ==
    /\ step.outcome # Pending
    /\ flow' = [flow EXCEPT !.pc = step.outcome]
    /\ step' = Fresh
    /\ UNCHANGED <<database, outside, budget>>

\* DBOS records the step; a HOLD sends the workflow to its next round.
Record ==
    /\ step.outcome # Pending
    /\ flow' = [pc |-> step.outcome,
                round |-> IF flow.pc = "apply" /\ step.outcome = "observe"
                            THEN flow.round + 1 ELSE flow.round]
    /\ step' = Fresh
    /\ UNCHANGED <<database, outside, budget>>

Restart ==
    /\ flow.pc \in Steps
    /\ step # Fresh
    /\ budget.crashes < MaxCrashes
    /\ budget' = [budget EXCEPT !.crashes = @ + 1]
    /\ step' = Fresh
    /\ UNCHANGED <<database, outside, flow>>

\* What IterationWorkflow leaves when it reports a promotion.
Init ==
    /\ row = [state |-> "PROMOTED", version |-> 11, refs |-> Evidence, decision |-> "PROMOTE"]
    /\ receipts = {} /\ decisions = <<>> /\ shifts = {}
    /\ route = [experiment |-> "canary", weight |-> 100]
    /\ serving = "candidate"
    /\ host = [head |-> "candidate", worktree |-> "committed",
               candidate |-> "running", baseline |-> "running"]
    /\ flow = [pc |-> "start", round |-> 0]
    /\ step = Fresh
    /\ budget = [crashes |-> 0, faults |-> 0]

Watching == Start \/ Expose \/ Judge \/ ApplyHold
Keeping == StopBaseline \/ RemoveWorktree \/ EndCycle
Reverting == ResolveBaseline \/ RestoreTraffic \/ RestoreServing \/ RestoreSource
               \/ StopCandidate

Work == Watching \/ Keeping \/ Reverting \/ Record

Next == Work \/ Fault \/ Restart

\* As in IterationWorkflow: DBOS runs a pending workflow until it returns.
Spec == Init /\ [][Next]_vars /\ WF_vars(Work)

----------------------------------------------------------------------------
\* Everything keeps its shape, and the counters their bounds.
TypeOK ==
    /\ row \in Row
    /\ decisions \in Seq(Verdicts)
    /\ route \in [experiment : {"canary", "soak"}, weight : {0, 100}]
    /\ serving \in {"candidate", "baseline"}
    /\ host \in [head : {"candidate", "baseline"}, worktree : {"committed", "absent"},
                 candidate : {"running", "none"}, baseline : {"running", "none"}]
    /\ flow \in [pc : Steps \cup Ends, round : 0 .. MaxHolds]
    /\ step \in [at : Places, outcome : Steps \cup Ends \cup {Pending}]
    /\ budget \in [crashes : 0 .. MaxCrashes, faults : 0 .. MaxFaults]

\* There is a running container behind every request and behind the serving release, in the
\* middle of a rollback or a completion too, wherever it was interrupted or failed for good
\* (_rollback_to_baseline: baseline up, traffic, catalog, source, and the candidate last).
EveryRequestIsServed ==
    /\ route.weight > 0 => host.candidate = "running"
    /\ route.weight < 100 => host.baseline = "running"
    /\ serving = "candidate" => host.candidate = "running" /\ host.head = "candidate"

\* An ended soak has left one release and nothing of the other: kept, the candidate without
\* the baseline's container; rolled back, the baseline without anything of the candidate.
NothingLeftBehind ==
    /\ row.state = "COMPLETED" =>
         /\ route.weight = 100 /\ serving = "candidate"
         /\ host = [head |-> "candidate", worktree |-> "absent",
                    candidate |-> "running", baseline |-> "none"]
    /\ row.state = "ROLLED_BACK" =>
         /\ route.weight = 0 /\ serving = "baseline"
         /\ host = [head |-> "baseline", worktree |-> "absent",
                    candidate |-> "none", baseline |-> "running"]

\* Each round has one verdict, however often its step was run; only HOLDs precede the last;
\* and the cycle ends as that last one says, unless a failed observation ended it
\* (observe's look at its decision before it observes, apply's reading of the record).
VerdictsDecide ==
    LET n == Len(decisions)
    IN /\ \A i, j \in DOMAIN decisions : decisions[i].op = decisions[j].op => i = j
       /\ \A i \in 1 .. n - 1 : decisions[i].kind = "HOLD"
       /\ row.state = "COMPLETED" => decisions[n].kind = "COMPLETE"
       /\ row.state = "ROLLED_BACK" =>
            \/ n > 0 /\ decisions[n].kind = "ROLLBACK"
            \/ budget.faults > 0

\* For the users, a soak goes on where the canary ended: full share and served, and from
\* there only the way back, traffic before catalog and both before the cycle is closed.
Delivery == INSTANCE ProgressiveDelivery WITH
    share <- route.weight,
    reached <- Len(Stages),
    earned <- Len(Stages),
    served <- serving = "candidate",
    closed <- row.state = "ROLLED_BACK"

ContinuesDelivery == [][Delivery!Next]_(Delivery!delivery)

\* Every soak that is given enough evidence at last comes to an end.
EverySoakEnds == <>(flow.pc \in Ends)

=============================================================================
