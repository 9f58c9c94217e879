---------------------------- MODULE CanaryTraffic ----------------------------
(***************************************************************************)
(* How a canary stage gets its verdict: CanaryService.run_stage over the   *)
(* traffic director's files, the proxy that serves requests by them, the   *)
(* counters the proxy keeps of each generation of the route, and the       *)
(* observer that reads these.                                              *)
(*                                                                         *)
(* IterationWorkflow takes a shift of traffic, and a verdict, for one      *)
(* action each; here they are what they consist of.  The director writes   *)
(* evidence, current.json and the receipt one after the other, holding a   *)
(* lock that readers of the route wait for.  Workflow, proxy and counters  *)
(* live in one process: when it dies, requests in flight and counters are  *)
(* gone, files and decisions are not, and DBOS runs the step again.        *)
(*                                                                         *)
(* The duration of an observation is left out: it may last as long as it   *)
(* takes, or be given up at any moment.                                    *)
(***************************************************************************)
EXTENDS Integers, Sequences, FiniteSets, Functions

CONSTANTS
    Weights,            \* stage weights of the target contract
    MinRequests,        \* min_requests of every stage
    MaxErrorPercent,    \* guardrails: the candidate's errors, how many more than the
    MaxDeltaPercent,    \* control's, its p95 latency, and that latency relative to the
    MaxLatency,         \* control's
    MaxRatioPercent,
    MaxSamples,         \* capacity of the latency buffer of an arm (100 000 in the code)
    Responses,          \* what upstreams answer: a set of [error, latency]
    Slots,              \* the slots, of 100, that the sessions of the users hash to
    Connections,        \* bound: requests in flight
    MaxRequests,        \* bound: requests
    MaxRounds,          \* bound: canary rounds
    MaxCrashes          \* bound: restarts of the process

ASSUME CanaryTrafficAssumption ==
    /\ Weights \in Seq(1 .. 100) /\ Weights # <<>>
    /\ \A i, j \in DOMAIN Weights : i <= j => Weights[i] <= Weights[j]
    /\ MinRequests \in Nat \ {0} /\ MaxSamples \in Nat \ {0}
    /\ MaxErrorPercent \in 0 .. 100 /\ MaxDeltaPercent \in 0 .. 100
    /\ MaxLatency \in Nat \ {0} /\ MaxRatioPercent \in Nat /\ MaxRatioPercent >= 100
    /\ Responses \subseteq [error : BOOLEAN, latency : Nat]
    /\ Slots \subseteq 0 .. 99
    /\ MaxRequests \in Nat /\ MaxRounds \in Nat \ {0} /\ MaxCrashes \in Nat

VARIABLES
    current,    \* current.json: a Route
    receipts,   \* the receipts of the director's operations: a set of Routes
    routes,     \* every route there has been: a set of Routes (not in the code)
    effects,    \* the evidence store's traffic effects: a set of Routes
    decisions,  \* the experiment's stage decisions: a set of [round, stage, kind]
    flow,       \* what DBOS has recorded: [pc, round]
    step,       \* run_stage under way, lost in a crash
    flights,    \* [Connections -> Flight]: requests in flight
    metrics,    \* the registry's generations: generation -> arm -> counters
    answered,   \* what users were answered in this life of the process (not in the code):
                \* generation they were routed by -> arm -> Response -> how many
    budget      \* [requests, crashes] so far

vars == <<current, receipts, routes, effects, decisions, flow, step, flights, metrics, answered, budget>>
files == <<current, receipts, routes, effects>>
proxy == <<flights, metrics, answered>>

----------------------------------------------------------------------------
\* domain/canary.py.

Arms == {"control", "candidate"}
Ceiling(n, d) == (n + d - 1) \div d
AtLeastOne(n) == IF n > 1 THEN n ELSE 1

\* Of all requests of a stage, those its candidate and its control have to answer at least.
Share(weight) == AtLeastOne(Ceiling(MinRequests * weight, 100))
Required(stage, arm) ==
    IF arm = "candidate" THEN Share(Weights[stage])
    ELSE IF Weights[stage] < 100 THEN Share(100 - Weights[stage]) ELSE 0

\* The latency of the sample at a rank, counted from the fastest; 0 stands for None.
AtRank(samples, rank) ==
    LET UpTo(l) == SumFunction([k \in {k \in DOMAIN samples : k <= l} |-> samples[k]])
        slow == {l \in DOMAIN samples : UpTo(l) >= rank}
    IN IF SumFunction(samples) = 0 THEN 0 ELSE CHOOSE l \in slow : \A k \in slow : l <= k

\* Faulty variant: the rank is rounded down.
P95RoundedDown(samples) == AtRank(samples, AtLeastOne((19 * SumFunction(samples)) \div 20))

P95(samples) == AtRank(samples, AtLeastOne(Ceiling(19 * SumFunction(samples), 20)))

\* error_rate(candidate) - error_rate(control) > MaxDeltaPercent, without division.
MoreErrors(seen) ==
    LET c == seen["candidate"]  k == seen["control"]
    IN 100 * (c.errors * k.requests - k.errors * AtLeastOne(c.requests))
         > MaxDeltaPercent * AtLeastOne(c.requests) * k.requests

Violated(seen) ==
    LET c == seen["candidate"]
        k == seen["control"]
    IN \/ 100 * c.errors > MaxErrorPercent * AtLeastOne(c.requests)
       \/ P95(c.samples) > MaxLatency
       \/ /\ k.requests > 0 /\ P95(k.samples) > 0
          /\ \/ MoreErrors(seen)
             \/ 100 * P95(c.samples) > MaxRatioPercent * P95(k.samples)

\* Faulty variant: dropped samples do not make the telemetry incomplete.
CompleteAsCounted(seen, inTime) == inTime

Complete(seen, inTime) == inTime /\ \A arm \in Arms : seen[arm].dropped = 0

\* _snapshot_sufficient, and the reasons of stage_insufficient_reasons below it.
Sufficient(stage, seen) ==
    /\ \A arm \in Arms : seen[arm].requests >= Required(stage, arm)
    /\ seen["candidate"].requests + seen["control"].requests >= MinRequests

Passing(stage) == IF stage = Len(Weights) THEN "PROMOTION_READY" ELSE "ADVANCE"

\* evaluate_canary_stage.
Evaluate(stage, seen, inTime) ==
    IF Violated(seen) THEN "ROLLBACK"
    ELSE IF /\ Complete(seen, inTime) /\ Sufficient(stage, seen)
            /\ Weights[stage] < 100 => P95(seen["control"].samples) > 0
           THEN Passing(stage) ELSE "HOLD"

----------------------------------------------------------------------------
\* Routes, and the counters of a generation.

Kinds == {"ADVANCE", "PROMOTION_READY", "HOLD", "ROLLBACK"}
Restoring == {"HOLD", "ROLLBACK"}
Passes == Kinds \ Restoring

\* Operation ids <<round, name>>; a round takes one shift and at most one restore, but
\* for an observer that failed and, after a restart, did not.
OpNames == {"traffic", "observer-failed"} \cup Restoring
Ops == (1 .. MaxRounds) \X OpNames \cup {<<0, "initial">>}
Generations == 1 .. 1 + 3 * MaxRounds
Route == [op : Ops, gen : Generations, weight : 0 .. 100]

\* The route is that of an earlier experiment until the first shift.
Earlier == [op |-> <<0, "initial">>, gen |-> 1, weight |-> 0]

Latencies == {r.latency : r \in Responses}
NoMetrics == [arm \in Arms |-> [requests |-> 0, errors |-> 0, dropped |-> 0,
                               samples |-> [l \in Latencies |-> 0]]]
NoneCounted == [g \in Generations |-> NoMetrics]
NoneAnswered == [g \in Generations |-> [arm \in Arms |-> [r \in Responses |-> 0]]]

Idle == [gen |-> 0, arm |-> "none"]
Flight == [gen : Generations, arm : Arms] \cup {Idle}
NoFlights == [c \in Connections |-> Idle]

NoShift == [op |-> <<0, "initial">>, weight |-> 0]
Fresh == [at |-> "begun", shift |-> NoShift, then |-> "returned", gen |-> 1,
          verdict |-> "none"]
Afterwards == {"observing", "returned", "failed"}
Places == Afterwards \cup {"begun", "shifting", "effected", "routed", "judged", "decided"}

CurrentStage == 1 + Cardinality({d \in decisions : d.kind = "ADVANCE"})

At(place) == flow.pc = "canary" /\ step.at = place
Goto(place) == step' = [step EXCEPT !.at = place]

\* A call of the director, and where run_stage goes on when it returns.
Shift(name, weight, then) ==
    step' = [step EXCEPT !.at = "shifting", !.then = then,
                         !.shift = [op |-> <<flow.round, name>>, weight |-> weight]]

Returned(gen) == step' = [step EXCEPT !.at = step.then, !.gen = gen]

Init ==
    /\ current = Earlier /\ receipts = {Earlier} /\ routes = {Earlier} /\ effects = {}
    /\ decisions = {}
    /\ flow = [pc |-> "canary", round |-> 1]
    /\ step = Fresh
    /\ flights = NoFlights /\ metrics = NoneCounted /\ answered = NoneAnswered
    /\ budget = [requests |-> 0, crashes |-> 0]

----------------------------------------------------------------------------
\* AtomicFileTrafficDirector.apply, under its lock from LookUp to WriteReceipt.

Locked == step.at \in {"effected", "routed"}

\* The route an operation writes, of the generation after the current one.
Intended == [op |-> step.shift.op, gen |-> current.gen + 1, weight |-> step.shift.weight]

\* Faulty variant: only a receipt tells that an operation has been done.
LookUpReceiptOnly ==
    /\ At("shifting")
    /\ \/ \E r \in receipts : r.op = step.shift.op /\ Returned(r.gen) /\ UNCHANGED effects
       \/ /\ \A r \in receipts : r.op # step.shift.op
          /\ effects' = effects \cup {Intended}
          /\ Goto("effected")
    /\ UNCHANGED <<current, receipts, routes, decisions, flow, proxy, budget>>

\* Its receipt answers an operation that is done; current.json one that has only its
\* receipt to write; any other is announced to the evidence store first.
LookUp ==
    /\ At("shifting")
    /\ \/ \E r \in receipts : r.op = step.shift.op /\ Returned(r.gen) /\ UNCHANGED effects
       \/ /\ \A r \in receipts : r.op # step.shift.op
          /\ current.op = step.shift.op
          /\ Goto("routed")
          /\ UNCHANGED effects
       \/ /\ \A r \in receipts \cup {current} : r.op # step.shift.op
          /\ effects' = effects \cup {Intended}
          /\ Goto("effected")
    /\ UNCHANGED <<current, receipts, routes, decisions, flow, proxy, budget>>

WriteRoute ==
    /\ At("effected")
    /\ current' = Intended /\ routes' = routes \cup {Intended}
    /\ Goto("routed")
    /\ UNCHANGED <<receipts, effects, decisions, flow, proxy, budget>>

WriteReceipt ==
    /\ At("routed")
    /\ receipts' = receipts \cup {current}
    /\ Returned(current.gen)
    /\ UNCHANGED <<current, routes, effects, decisions, flow, proxy, budget>>

----------------------------------------------------------------------------
\* CanaryService.run_stage, and DBOS around it.

\* _ensure_post_decision_routing.
Follow(kind) ==
    IF kind \in Restoring THEN Shift(kind, 0, "returned") ELSE Goto("returned")

\* Faulty variant: every round asks for the weight of the first stage.
BeginFirstStage ==
    /\ At("begun")
    /\ \/ \E d \in decisions : d.round = flow.round /\ Follow(d.kind)
       \/ /\ \A d \in decisions : d.round # flow.round
          /\ Shift("traffic", Weights[1], "observing")
    /\ UNCHANGED <<files, decisions, flow, proxy, budget>>

\* A round that has its decision only sees to the route again.
BeginStage ==
    /\ At("begun")
    /\ \/ \E d \in decisions : d.round = flow.round /\ Follow(d.kind)
       \/ /\ \A d \in decisions : d.round # flow.round
          /\ Shift("traffic", Weights[CurrentStage], "observing")
    /\ UNCHANGED <<files, decisions, flow, proxy, budget>>

Conclude(seen, inTime) ==
    step' = [step EXCEPT !.at = "judged", !.verdict = Evaluate(CurrentStage, seen, inTime)]

\* A poll of the observer finds enough.
Judge ==
    /\ At("observing")
    /\ Sufficient(CurrentStage, metrics[step.gen])
    /\ Conclude(metrics[step.gen], TRUE)
    /\ UNCHANGED <<files, decisions, flow, proxy, budget>>

\* The deadline passes with what the last poll saw, or with nothing if none came through.
GiveUp ==
    /\ At("observing")
    /\ \E seen \in {metrics[step.gen], NoMetrics} :
         ~Sufficient(CurrentStage, seen) /\ Conclude(seen, FALSE)
    /\ UNCHANGED <<files, decisions, flow, proxy, budget>>

\* observe() raises: the metrics endpoint answers something unexpected.
ObserverFails ==
    /\ At("observing")
    /\ Shift("observer-failed", 0, "failed")
    /\ UNCHANGED <<files, decisions, flow, proxy, budget>>

\* ExperimentService.record_decision: the receipt and the stage, in one transaction.
RecordDecision ==
    /\ At("judged")
    /\ decisions' = decisions \cup
         {[round |-> flow.round, stage |-> CurrentStage, kind |-> step.verdict]}
    /\ Goto("decided")
    /\ UNCHANGED <<files, flow, proxy, budget>>

FinishStage ==
    /\ At("decided")
    /\ Follow(step.verdict)
    /\ UNCHANGED <<files, decisions, flow, proxy, budget>>

\* DBOS records what the step returned, or the exception that ends the canary.
Record ==
    /\ \/ /\ At("returned")
          /\ \E d \in decisions :
               /\ d.round = flow.round
               /\ \/ /\ d.kind \in {"ADVANCE", "HOLD"} /\ flow.round < MaxRounds
                     /\ flow' = [flow EXCEPT !.round = @ + 1]
                  \/ /\ d.kind \in {"PROMOTION_READY", "ROLLBACK"}
                     /\ flow' = [flow EXCEPT !.pc = "ended"]
       \/ /\ At("failed")
          /\ flow' = [flow EXCEPT !.pc = "ended"]
    /\ step' = Fresh
    /\ UNCHANGED <<files, decisions, proxy, budget>>

----------------------------------------------------------------------------
\* The proxy: a request reads the route once, and is counted when it is answered.

\* _WeightedSelector.choose.
Chosen(weight, slot) == IF slot < weight THEN "candidate" ELSE "control"

\* A request whose attribution cannot be stored is refused, and counted nowhere.
Arrive(c) ==
    /\ flights[c] = Idle /\ ~Locked /\ budget.requests < MaxRequests
    /\ \/ \E slot \in Slots :
            flights' = [flights EXCEPT ![c] = [gen |-> current.gen,
                                               arm |-> Chosen(current.weight, slot)]]
       \/ UNCHANGED flights
    /\ budget' = [budget EXCEPT !.requests = @ + 1]
    /\ UNCHANGED <<files, decisions, flow, step, metrics, answered>>

\* CanaryMetricsRegistry.record.
Counted(m, r) ==
    LET room == SumFunction(m.samples) < MaxSamples
    IN [m EXCEPT !.requests = @ + 1,
                 !.errors   = IF r.error THEN @ + 1 ELSE @,
                 !.dropped  = IF room THEN @ ELSE @ + 1,
                 !.samples  = IF room THEN [@ EXCEPT ![r.latency] = @ + 1] ELSE @]

\* Faulty variant: a request counts for the route that is active when it is answered.
AnswerByActiveRoute(c) ==
    /\ flights[c] # Idle
    /\ \E r \in Responses :
         /\ metrics' = [metrics EXCEPT ![current.gen][flights[c].arm] = Counted(@, r)]
         /\ answered' = [answered EXCEPT ![flights[c].gen][flights[c].arm][r] = @ + 1]
    /\ flights' = [flights EXCEPT ![c] = Idle]
    /\ UNCHANGED <<files, decisions, flow, step, budget>>

\* An upstream that cannot be reached is a 502, an error like those it answers itself.
Answer(c) ==
    /\ flights[c] # Idle
    /\ \E r \in Responses :
         /\ metrics' = [metrics EXCEPT ![flights[c].gen][flights[c].arm] = Counted(@, r)]
         /\ answered' = [answered EXCEPT ![flights[c].gen][flights[c].arm][r] = @ + 1]
    /\ flights' = [flights EXCEPT ![c] = Idle]
    /\ UNCHANGED <<files, decisions, flow, step, budget>>

\* The process dies, and comes back with what is on disk.
Crash ==
    /\ flow.pc = "canary" /\ budget.crashes < MaxCrashes
    /\ step' = Fresh
    /\ flights' = NoFlights /\ metrics' = NoneCounted /\ answered' = NoneAnswered
    /\ budget' = [budget EXCEPT !.crashes = @ + 1]
    /\ UNCHANGED <<files, decisions, flow>>

Director == LookUp \/ WriteRoute \/ WriteReceipt
Workflow == BeginStage \/ Judge \/ GiveUp \/ ObserverFails \/ RecordDecision
              \/ FinishStage \/ Record

Next == Director \/ Workflow \/ Crash \/ \E c \in Connections : Arrive(c) \/ Answer(c)

Spec == Init /\ [][Next]_vars

----------------------------------------------------------------------------
\* The places at which run_stage waits for the director.
Waiting == {"shifting", "effected", "routed"}
Asked == IF step.at \in Waiting THEN {step.shift} ELSE {}

Port == INSTANCE TrafficDirector WITH
    Operations <- Ops,
    route      <- current,
    made       <- routes,
    asked      <- Asked,
    answer     <- step.gen

----------------------------------------------------------------------------
\* The route, what the workflow knows of it, and the requests in flight.
StageTypeOK ==
    /\ current \in Route /\ receipts \subseteq Route
    /\ routes \subseteq Route /\ effects \subseteq Route
    /\ decisions \subseteq [round : 1 .. MaxRounds, stage : DOMAIN Weights, kind : Kinds]
    /\ flow \in [pc : {"canary", "ended"}, round : 1 .. MaxRounds]
    /\ step \in [at : Places, then : Afterwards, gen : Generations,
                 shift : [op : Ops, weight : 0 .. 100], verdict : Kinds \cup {"none"}]
    /\ flights \in [Connections -> Flight]
    /\ budget \in [requests : 0 .. MaxRequests, crashes : 0 .. MaxCrashes]

\* Types.  An arm keeps at most MaxSamples latencies, whatever it serves: the proxy runs
\* for as long as the host does.
TypeOK ==
    /\ StageTypeOK
    /\ metrics \in [Generations -> [Arms -> [requests : Nat, errors : Nat, dropped : Nat,
                                             samples : [Latencies -> 0 .. MaxSamples]]]]
    /\ answered \in [Generations -> [Arms -> [Responses -> Nat]]]

\* A generation names one exposure of users to the candidate, and an operation makes one,
\* whatever the process dies between: the announcements in the evidence store that give
\* the candidate traffic differ in operation and in generation, and every receipt, and
\* the route itself, was announced.  Counters are kept by generation alone, so
\* everything the evidence of a stage says hangs on it.
ExposuresAreIdentified ==
    LET exposures == {e \in effects : e.weight > 0}
    IN /\ \A e, f \in exposures : e.op = f.op \/ e.gen = f.gen => e = f
       /\ receipts \cup {current} \subseteq effects \cup {Earlier}
       /\ \A r, s \in receipts : r.gen = s.gen => r = s

\* The director over its files is the director the workflows count on: evidence, route and
\* receipt are written one after the other, but to its caller and to the requests a shift
\* happens in one step, once, and every answer is the generation of that shift, at the weight
\* that is asked for, so that the operation id never conflicts.  Restarts, shifts that are
\* asked for again, and routes that were replaced since are where it might fail.
ImplementsDirector == Port!Spec

\* How many requests routed by a generation got one of these answers from an arm, and
\* whether at least 19 of 20 of them took no longer than l.
Count(gen, arm, these) == SumFunction([r \in these |-> answered[gen][arm][r]])
MostWithin(gen, arm, l) ==
    20 * Count(gen, arm, {r \in Responses : r.latency > l}) <= Count(gen, arm, Responses)

\* What the stage asks for, of the answers its users got.
Earned(stage, gen) ==
    LET asked(arm)  == Count(gen, arm, Responses)
        failed(arm) == Count(gen, arm, {r \in Responses : r.error})
        c == "candidate"
        k == "control"
    IN /\ asked(c) + asked(k) >= MinRequests
       /\ 100 * asked(c) >= MinRequests * Weights[stage]
       /\ 100 * asked(k) >= MinRequests * (100 - Weights[stage])
       /\ 100 * failed(c) <= MaxErrorPercent * asked(c)
       /\ MostWithin(gen, c, MaxLatency)
       /\ Weights[stage] < 100 =>
            /\ 100 * (failed(c) * asked(k) - failed(k) * asked(c))
                 <= MaxDeltaPercent * asked(c) * asked(k)
            /\ \A l \in Latencies :
                 MostWithin(gen, k, l) => MostWithin(gen, c, (MaxRatioPercent * l) \div 100)

\* A stage is shown at its weight when it passes: a verdict that lets the candidate on falls
\* while the route is the one this round asked for, in the generation that was observed and
\* at the weight of the stage, although a shift that is replayed from its receipt does not
\* bring back a route that was given back meanwhile.
PassedOnItsOwnRoute ==
    [][step'.at = "judged" /\ step.at = "observing" /\ step'.verdict \in Passes =>
         current = [op |-> <<flow.round, "traffic">>, gen |-> step.gen,
                    weight |-> Weights[CurrentStage]]]_vars

\* A stage passes on traffic of its own only: when a verdict lets the candidate on, the
\* answers given to the requests its generation routed, none of them left out, are as many
\* as the stage asks for and keep within the guardrails.  Requests of an earlier route that
\* are answered late, and samples the buffer had no room for, must not change that.
PassedOnItsOwnTraffic ==
    [][step'.at = "judged" /\ step.at = "observing" /\ step'.verdict \in Passes =>
         Earned(CurrentStage, step.gen)]_vars
=============================================================================
