# Verification of the autonomous development control plane

The control plane takes user feedback and human requirements through
*development cycles*: a Codex turn writes a candidate, gates verify it, it is built,
deployed beside the serving release, given a rising share of the traffic, promoted,
watched, and kept or rolled back. Everything runs in one process: a FastAPI application and
DBOS durable workflows over one SQL database, with git worktrees, Docker containers, a
traffic route in two files, and a proxy that reads it. This directory holds TLA+ models of
its core, TLC runs over them, and TLAPS proofs. Source paths below are relative to
`src/src/autonomous_development/` unless they begin with `docs/`.

## 1. Inventory

| Component | State | Operations | Talks to | What makes it correct |
|---|---|---|---|---|
| Cycle domain (`domain/transitions.py`, `enums.py`) | none (pure) | `transition_cycle` | every service below | no stage skipped, no state without its evidence, no abandoned live candidate |
| Cycle service and store (`application/cycles.py`, `adapters/postgres/cycles.py`) | tables `development_cycles`, `cycle_transition_operations` | `create`, `transition` | all workflows, API, scheduler | receipts and rows are one history; one active cycle per target; repeated calls answered truthfully |
| Iteration workflow (`workflows/autonomous_iteration.py`) | DBOS record of finished steps | 25 steps, except clauses, three retried compensations | cycles, git, Docker, gates, traffic, catalog | promotion earned on real traffic; every other end leaves nothing behind; it ends |
| Canary and experiments (`application/canary.py`, `experiments.py`, `domain/canary.py`) | experiments, stage receipts, promotion history | `run_stage`, `restore_candidate_control` | traffic director, observer | one verdict per round, none on a stale weight |
| Releases (`application/releases.py`, `release_finalization.py`, `release_catalog.py`, `source_promotion.py`, `release_runtime.py`) | catalog, default branch | promote, finalize, restore | cycles, git | catalog, branch and cycle agree |
| Post-promotion soak (`workflows/post_promotion_soak.py`, `application/soak.py`) | `soak_decision_operations`, route | start, observe, apply, rollback | traffic, catalog, git, Docker | a live container behind every request at each moment; the verdict decides |
| Traffic director (`adapters/traffic/file.py`) | `current.json`, receipt files, a lock | `apply`, `restore_control`, `read_current` | canary, soak, feedback, proxy | a shift happens once per operation id |
| Proxy, metrics, observer (`adapters/canary_proxy/*`) | counters per route generation | route a request, observe | traffic files | evidence belongs to one generation; a full sample buffer never passes a stage |
| Operator requests (`application/operator.py`, `adapters/postgres/operator.py`, `workflows/requirements.py`, `api/operator.py`) | requests, interventions, analyses, outbox | submit, start, cancel, respond; prepare, execute, finish | cycles, iteration workflow, operator | status stands on the cycle; questions reach the operator; answers are final |
| Feedback (`application/feedback.py`) | `user_feedback`, request attributions | `ingest` | catalog, traffic | attributed to the release the user had |
| Feedback scheduler (`application/iteration_scheduler.py`, `iteration.py`, `evidence_windows.py`, `diagnosis.py`, `proposals.py`, `workflows/feedback_autonomy.py`) | evidence windows, diagnoses, proposals, triggers | tick, `prepare_next`, `prepare_from_evidence` | cycles, catalog, Codex, iteration and soak workflows | feedback is consumed only by what became of it; what is improved is what is served; every piece is taken |
| Engineering and source control (`application/engineering.py`, `source_promotion.py`, `adapters/git_cli/repository.py`) | worktree, branch, checkout of the default branch | `implement`; promote, restore, clean up | Codex, git, iteration and soak workflows | one candidate commit, within its scope; the default branch tells the outcome; people keep their work |
| Codex clients (`adapters/codex_app_server/client.py`, `adapters/codex_exec/client.py`) | thread journal per resume key, a process per turn | `run_turn` | Codex | a turn is on the journaled thread; a call returns the outcome of its own turn |
| Build, deployment, verification (`application/build.py`, `adapters/docker_cli/*`, `adapters/quality/*`) | images, containers | build, ensure, stop, evaluate | the workflows | the image is the candidate it is labelled with |
| Outbox (`adapters/postgres/operator.py`, events) | `operator_events` | append, list, acknowledge | request handlers and workflows, the operator's bridge | no event is passed over |
| Evidence store, registry, contract, API, runtime, CLI, acceptance target | files, settings | calls that answer or fail | the workflows | see `PROJECT.json`, `components` |

How they interact: API handlers run one after another on the event loop; workflows run in
threads of their own and interleave with handlers and each other at every database access.
DBOS records what a step returned; a process that dies before that record runs the **whole
step again**. The compensations of the iteration workflow and the prepare steps are declared
with retries (`max_attempts=3`), other steps are not.
So the hard behaviours are: copies read in one round trip and used in a later one, effects
that happened but were not recorded, compensations that fail in the middle, ticks that
overlap, answers that arrive twice, processes left behind that go on writing, people who work
in the same checkout, and transactions that commit in another order than they drew their
numbers in. `PROJECT.json` lists them as `hazards`, each at its
line.

## 2. Modules

| Module | Models | State and actions in terms of the code |
|---|---|---|
| `CycleStates` | `domain/transitions.py` | `Allowed` is `_ALLOWED`, `RequiredEvidence` the evidence table, `MayTransition` and `Transitioned` are `transition_cycle`. References are present or absent; the code asks no more here. |
| `DevelopmentCycles` | the promise of the cycle store | abstract: indivisible `Create` and `Transition` |
| `CycleLifecycle` | `CycleService` over `SqlCycleRepository` | one action per database round trip of `create` (`CheckNoActive`, `Insert`) and `transition` (`BeginTransition`, `ReadAndValidate`, `Commit`); callers `Die` between any two and repeat operation ids |
| `ProgressiveDelivery` | what users are promised about a candidate | abstract: exposed by stages earned, served at last, or withdrawn and closed |
| `IterationWorkflow` | `AutonomousIterationWorkflow.run` and what its steps call | `flow` is what DBOS has recorded, `step` what a crash loses; one action per effect of a step; `Fault` is a call that fails, before or after its effect; `Record` and `Restart` |
| `PostPromotionSoak` | `PostPromotionSoakWorkflow.run`, `PostPromotionSoakService` | same conventions |
| `OperatorRequests` | `OperatorService`, its SQL repository, the operator API, `RequirementAutonomyWorkflow` | one request; `call` is the handler under way, `flows` its workflows; every read and write of the row is an action, every write writes the whole row from the copy that was read |
| `FeedbackAutonomy` | `scheduled_feedback_tick`, `FeedbackAutonomyWorkflow`, `prepare_next`, `prepare_from_evidence` and the repositories below; what execution and soak do to cycle, branch and catalog | `flows` are overlapping ticks; every database access of the prepare step is an action. Two ticks may execute one cycle: `Develop` to `EndCycle` are the steps of an execution and of the way back, `Promote` the promotion by an execution or the receipt that tells a second one of it. `released` is what the catalog has registered; `echoed`, a history the code does not keep, is the cycles of which a second execution was told |
| `TrafficDirector` | what the workflows take a director of traffic for (`ports/traffic.py`) | abstract: a caller asks, the route takes the shift in one step, once, and the caller is told its generation; `Forget` is a caller that dies or is through |
| `CanaryTraffic` | `CanaryService.run_stage`, the traffic director's `apply`, proxy, counters, observer, `evaluate_canary_stage` | `current`, `receipts`, `effects` are the director's files, `flights` requests in flight, `metrics` the registry; evidence, route and receipt are written by one action each, and `Crash` may come between them; `routes`, a history, is every route there has been |
| `CandidateSource` | `EngineeringService.implement` over `GitCliRepository` and the Codex command line; gates and image build in the worktree; `promote_candidate`, `restore_baseline`, `cleanup_cycle` | `main`, `branch`, `tree` are git's three places, `child` and `strays` the turns that can write; one action per git command; `flow` is what DBOS has recorded, `step` what a crash loses; `Write`, `PersonEdits`, `PersonCommits` are what others do between two commands |
| `CodexTurn` | `CodexAppServer.run_turn` and its thread journal | `pipe` is the queue of lines, `call` a caller's place in the protocol; one action per line read and per access to the journal; the server (external) answers, reports and asks in any order |
| `OperatorOutbox` | `append_event`, `list_events`, `acknowledge_event` | `Insert` draws a sequence number, `Commit` makes the row visible; the bridge (external) polls, sends, records, acknowledges and advances its cursor in the order of `docs/feishu-integration-runbook.md:54` |
| `MC*` | | values of the constants for TLC |
| `CycleLifecycle_proofs`, `IterationWorkflow_proofs`, `PostPromotionSoak_proofs`, `OperatorRequests_proofs`, `FeedbackAutonomy_proofs`, `CanaryTraffic_proofs`, `CandidateSource_proofs`, `CodexTurn_proofs` | | theorems about the module of that name; the first also about `DevelopmentCycles`, `OperatorRequests_proofs` about `OperatorOutbox` |

`CycleStates` is extended by all modules that move a cycle row. `CycleLifecycle` extends
`DevelopmentCycles`, whose specification `StoreSpec` is the promise it implements: the rows are
the same, and each of its steps is to be an indivisible one of the store. `IterationWorkflow` and
`PostPromotionSoak` instantiate `ProgressiveDelivery` as `Delivery`, `CanaryTraffic` instantiates
`TrafficDirector` as `Port`. In the two workflow modules a call of `CycleService` is one
action: `CycleLifecycle` shows the call to behave as one, and a workflow that runs is the only
one that moves its cycle, but for two executions of one cycle that overlap
(`application/iteration_scheduler.py:125`). What those do to each other is the matter of
`FeedbackAutonomy`; the two workflow modules have one run. They take a shift of traffic, and a verdict, for one action
each; `CanaryTraffic` is what these consist of, and `ImplementsDirector` says that a shift is
one action to them. `OperatorRequests` and `FeedbackAutonomy` in turn take an
execution and a soak for what they do to cycle, branch and catalog, the latter also of two that share their operation ids.

`CandidateSource` opens up what `IterationWorkflow` and `PostPromotionSoak` take for single
actions (implementation, build, source promotion, the source part of a rollback, cleanup of the
worktree), with the other stages of the run as choices; `CodexTurn` opens up a call of Codex,
which the other modules take for an answer or a failure; `OperatorOutbox` the outbox, which is
a set in `OperatorRequests`.

Operators whose comment begins with "Faulty variant" are not part of any specification: each
is a plausible mistake in one definition, and `PROJECT.json` names the property that notices it.

## 3. Runs

Runs that pass:

| Run | Question | Bounds, and why they are enough |
|---|---|---|
| `cycle_domain` | Does any path of the lifecycle skip a stage, its evidence or the promote decision, or abandon a live candidate? | One cycle, 18 transitions: five more than the longest straight way to COMPLETED (13), so that it can fail recoverably and be developed again on the way. Callers hand over no reference, one, or all. |
| `cycle_concurrency` | Do racing, dying and repeating callers keep rows and receipts one history, and is the store the abstract one? | Two callers, two cycles of one target, four operation ids shared by all, three versions: enough for a stale copy, a repeated id and an id bound to something else to meet. Symmetric in callers, operations and cycles (the properties under symmetry are safety). |
| `iteration` | Do the order of steps, except clauses, retries and replays keep the users, the repository and the cycle consistent? | Three stages (10/50/100), two holds, two restarts, four failing calls: one more than a compensation may be tried (three), so that it can also fail for good. |
| `soak` | The same for the soak. | Two holds, three restarts, two failures. |
| `requests` | Do handlers and workflows that overwrite each other's row keep request, cycle, intervention and outbox in agreement? | One request, two starts, and one disturbance (a restart, a failing step or handler, an answer repeated, a cancellation) at any moment. Two attempts of `prepare` (three in the code): one failing and one retrying. |
| `feedback` | Do overlapping ticks, and overlapping executions of one cycle, consume feedback truthfully, improve only what is served, release only what was promoted, and take every piece in turn? | Two slots for ticks, used again for ever; two pieces of feedback, numbered in order of receipt; one disturbance (a restart, a failing step or an operator's cycle). Races between the two ticks make them fail without any disturbance; a second execution may merge what the first has rolled back, or take back what it has released. One attempt of the prepare step (three in the code): a step that is tried again looks at everything anew, as a tick does that begins after it failed; the proofs are for any number of attempts. |
| `canary` | Is a shift one step to its caller, and does a stage pass only on answers that its own traffic got, whatever is late, left out or repeated? | Two stages (50/100) of two requests each, two rounds, one restart, four requests by two connections, a sample buffer of two. A response is fast, slow, or an error at once (latency 0). Four requests make a late answer from the earlier route, one too many for the buffer, and a control whose percentile is 0 possible; slow responses break the ratio to the control, not the absolute limit. |
| `source` | Is there one candidate commit, within its scope, in the image of its name and on the default branch exactly when the release was kept, whatever writes or works meanwhile and wherever the process stops? | Two attempts, two tries of a compensation, three files written, one change by a person, one restart: a turn that was given up can write into the next attempt, across a restart, and once more after the commit. |
| `codex` | Do calls of one resume key stay on one thread, and return the outcome of their own turn? | Two callers, two calls (overlapping, or one after a failure or a restart), two messages, one request of a server, one restart. Symmetric in callers; the properties are safety. |
| `outbox` | Is every event that is committed in its turn sent, recorded and acknowledged before the cursor passes it, and in the end? | Two writers, three events emitted four times, pages of two, two failures of transactions or of the bridge: commits in either order, two inserts of one event, a page that is full, a restart between any two steps of the bridge. |

What the properties say is written above each of them in its module. The type invariant is
proved for every module (of `CanaryTraffic`, its part `StageTypeOK`); it is not part of a run,
whose properties are those that relate pieces of state. A few deserve a remark:

- `ImplementsStore` (refinement): every round trip of `CycleLifecycle` is a step of the
  abstract store or a stutter.
- `ImplementsDelivery` and `ContinuesDelivery` (refinement): whatever a restart repeats, the
  candidate's share, its stages and the catalog move as `ProgressiveDelivery` allows. A shift
  answered from its receipt, a restored route and a repeated round are where it might fail.
- `ImplementsDirector` (refinement): `apply` writes evidence, route and receipt one after the
  other, and looks for an operation in the receipts and in the current route only. A route that
  is replaced before it has its receipt is forgotten, and the operation would be done twice if it
  were asked for again. This happens to the way back from an observer that failed, when the
  process dies in it and the observer does not fail the next time; the round is decided before
  another route comes, and then nobody asks.
- `PromotedOnTrafficShown` compares verdicts with the weight the route had when each fell
  (`share`, a history the code does not keep).
- `PassedOnItsOwnTraffic` compares `evaluate_canary_stage`, which works with rates and
  percentiles of the counters, with a definition that counts the answers given (`answered`, a
  history the code does not keep): no percentile, no division, nothing dropped.
- `PassedOnItsOwnRoute` holds although a shift that is replayed from its receipt does not bring
  back a route that was given back: the generation of the receipt gets no requests any more, and
  its counters died with the process, so the stage is held.
  `docs/v1-design.md:1134` says that a crash during a shift "reconciles actual weight before
  retry"; the code does not look at the actual weight then, and this is why that does no harm.
  A restart also forgets the errors users met before it, which the history forgets likewise.
- `OneExecutionAtATime` and `QuestionsReachTheOperator` name the disturbance without which they
  hold. The disturbances do break them.
- `ScopeIsEnforced`, `ImageIsTheCandidate` and `PeopleKeepTheirWork` each name one gap between
  a check and the command that relies on it (`unchecked`, `late`, `raced`, histories the code
  does not keep): `git add --all` after the paths were checked, the build after the commit was
  read back, `git reset --hard` after the checkout was found clean. In these gaps the code does
  not look again; everywhere else the properties hold.
- `TurnsAreOnTheJournaledThread` holds unless two calls record a thread at the same time
  (`together`): look-up and replacement of the journal are not one step, and calls of one
  process share the temporary file. `AnswerIsTheTurns` lets a message of another turn of the
  same thread be the last: the client compares the turn of a completion, not that of a message.
- `NothingIsPassedOver` and `EventsAreDelivered` hold unless an event is committed after a
  page held one with a higher number (`overtaken`). Such an event is never read: numbers are
  drawn before the commit, the cursor compares numbers, and nothing reads what is not
  acknowledged. `docs/operator-contract.md:107` says "Event sequence is monotonic": the numbers
  are, their order of appearance is not.
- `FeedbackIsTaken` names in `Stopped` what stops the loop of a target for good: a diagnosis
  whose paths the policy refuses (every later tick raises again), a cycle created on a release
  that was replaced before its baseline was verified, or that the branch does not hold because
  a second execution merged another, and a cycle whose run was lost, or ended in an error, after
  its trigger was recorded.
- `OnlyTheServingIsImproved` holds as long as no second execution was told of a promotion
  (`echoed`), for the reason given below; `OnlyThePromotedIsReleased` holds in spite of it.

Runs that end in a counterexample, each a disagreement between code and documentation
(`findings` in `PROJECT.json` quotes both sides):

| Run | Property | What happens |
|---|---|---|
| `iteration_restart` | `NoCycleLost` | A restart between a transition's commit and the record of its step: the step reads the new version, its operation id conflicts, the workflow ends in an error with its cycle active. |
| `requests_replay` | `ReplayIsSafe` | An answer delivered once more makes an ended request READY. |

The models have further behaviours that a reader of the documentation would not expect. They are
listed as hazards, with the properties that hold in spite of them:

- a soak that fails before its own route is applied cannot be rolled back
  (`application/soak.py:194`; `docs/v1-local-deployment.md:320` promises it can);
- a request asked for a second time points to an intervention that is answered already
  (`application/operator.py:466`);
- a tick that begins while another prepares resumes the same cycle, and both execute it
  (`application/iteration_scheduler.py:125`). Both use the operation ids of the cycle, so one
  that read the cycle before the other moved it is answered by a receipt and goes on, at the last
  with a promotion that the other has made (`application/releases.py:97`). It merges on its own
  (`workflows/autonomous_iteration.py:734` looks at no cycle), and fails to register the release
  a second time. If the first has rolled back by then, the compensation finds the cycle
  ROLLED_BACK and returns (`:338`): the branch keeps a candidate that is not served, and every
  later baseline check raises. If the first has not yet begun its soak, the compensation takes
  back a promotion that had succeeded;
- a `git worktree add` that is killed leaves a locked worktree that no cleanup removes
  (`adapters/git_cli/repository.py:80`).

Deadlock is not checked except in `cycle_concurrency`: in the other modules a finished
workflow, a request nobody starts or a cycle at its end really stops.

## 4. Fairness

- `IterationWorkflow`, `PostPromotionSoak`: weak fairness of the workflow's own steps. DBOS
  runs a pending workflow until it returns and recovers it after a restart; `Fault`, `Restart`
  and HOLD decisions are bounded, not fair. The bound on holds stands for the assumption that
  evidence suffices at last; nothing in the code limits them.
- `OperatorRequests`: weak fairness of the steps of each workflow. Nobody is bound to call the API.
- `FeedbackAutonomy`: weak fairness of the tick (a cron schedule that never ends) and of each
  run's steps, and that an operator's cycle ends (`EveryRunEnds`, `EverySoakEnds`).
- `CandidateSource`: weak fairness of implementation, release and compensation, for the same
  reason; a Codex turn has a timeout and so ends. Nobody else is bound to act.
- `OperatorOutbox`: weak fairness of a transaction that was begun, and of the bridge, which the
  runbook lets run for ever; failures and restarts are bounded.
- The cycle modules, `CanaryTraffic` and `CodexTurn` are safety only.

## 5. Proofs

`CycleLifecycle_proofs` proves, for any sets of cycles, targets,
callers and operations and any offers of references and decisions (the assumptions
`DevelopmentCyclesAssumption` and `CycleLifecycleAssumption`, which only type the constants):

- For the abstract store: `StoreTyping`, `EvidenceChain` (`StandsOnEvidence`), `EveryStagePassed`
  (`NoStageSkipped`, from the lemma that every edge climbs at most one stage),
  `NothingLiveIsAbandoned`, `StoreExcludes` (`OneActivePerTarget`) and `StoreIsFinal`
  (`TerminalIsFinal`), which no run repeats. `StandsOnEvidence` and
  `NoStageSkipped` are inductive together with `StoreTypeOK`.
- For the service: `Typing`, `History`, `Acknowledgement`, `NeverAhead`, `Implementation`, and,
  from the last, `MutualExclusion` and `PromisesAreKept`: what the store promises holds of the
  service, because it implements the store.

The inductive invariant of the service is `IInv`: `TypeOK`, `ReceiptsAreTheHistory`,
`DoneMeansApplied`, `NoReceiptAhead`, and two strengthenings that are needed because a caller
acts on what it read earlier. `RequestsOffered`: a request under way stays within what callers
may ask. `SnapshotsHold`: the cycle of a caller's copy exists, at or beyond the copy's version,
and while it still has that version the row to be written is a legal transition of the row as
it is **now**; versions never repeat, so equal versions mean an equal row. The
argument of the refinement: only `Insert` and `Commit` change a row; `Insert` does so under the
unique indexes, which are the guard of `Create`; `Commit` does so only where the version is the
expected one, so `SnapshotsHold` makes it a `Transition`.

`IterationWorkflow_proofs` proves, for any non-decreasing stages that end at 100, any number of
tries, holds, restarts and failing calls (`IterationWorkflowAssumption`): `Typing`,
`NothingLeft` (`NothingLeftBehind`), `UsersAreSafe` (`UsersReachWhatExists`), `ReportsTheTruth`
(`ResultIsTrue`), `PromotionIsEarned` (`PromotedOnTrafficShown`) and the refinement
`DeliversProgressively` (`ImplementsDelivery`). None of these is inductive: what the next step
may rely on depends on why it runs. So the core of the invariant is `Fits(pc, why)`: what the
world is when the run is at a step for a reason, of the step under way and, as soon as its
outcome is decided, of the one that follows it (`OutcomeFits`); a restart loses the place
in a step and neither of these. The rest says what a repeated step finds. `RoundsAreRecorded`
and `StagesAreCounted`: each round has one verdict, and the stage is one more than the stages
passed. `OpsAreFresh`: no operation id of a round or a compensation that is still to come has a
receipt, so a shift that is answered from its receipt is one this round has made.
`TrafficIsShown`: the traffic receipts, and so the shares recorded with the verdicts, are those
of the stages. `CycleFollows` relates the row to the steps. For the refinement, the share that
`ProgressiveDelivery` sees rises only by the shift of a stage whose predecessors were passed,
and every way back takes the traffic away before it closes the cycle.

`PostPromotionSoak_proofs` proves the same for the soak, for any numbers of holds, restarts and
failures: `Typing`, `RequestsServed` (`EveryRequestIsServed`), `OneReleaseRemains`
(`NothingLeftBehind`), `CycleEndsOnItsVerdict` (`VerdictsDecide`) and `DeliveryContinues`
(`ContinuesDelivery`). Its invariant says for each place on the way back which effects are
done by then (`RevertedWorld`: traffic, serving release, source, container, worktree, in this
order), which is why a rollback that is interrupted anywhere never has users on a container
that is gone; `KeptWorld` says it for a completion, `WatchedWorld` that nothing is gone before.

`OperatorRequests_proofs` proves, for any number of starts, tries of the prepare step and
disturbances, `Typing`, `StatusStands` (`StatusStandsOnTheCycle`), `Reported`
(`ExecutionsAreReported`), `OneExecution` (`OneExecutionAtATime`), `QuestionsReach`
(`QuestionsReachTheOperator`) and `AnswersStay` (`AnswersAreFinal`, which no run repeats). Rows are written whole from
copies that others have overtaken, so the invariant may only say of a copy what stays true:
that a copy that names a cycle names one that was proposed (`CallFits`, `RowFits`,
`WorkflowFits`), which no later step takes back. That is all the status needs, with any
disturbances. Mutual exclusion needs more, and holds only while nothing fails
(`OneIsLive`): a workflow that may come to an execution is alone, the request names it or has
ended, its copy of the row has its name and no question pending (`CopyFits`), and no handler on
its way could start another. `start_record` is the step that might: it claims a request that
names no workflow, and then by `OneIsLive` none is live, unless the request has ended.

Of `OperatorOutbox`, `OperatorRequests_proofs` proves, for any sets of writers and events, any
limit of a page and any number of failures (`OperatorOutboxAssumption`), `OutboxTyping` and
`Delivery` (`NothingIsPassedOver`). What the cursor has passed says nothing of the page the bridge is
working on while transactions commit, so the invariant needs three strengthenings.
`NumbersAreUnique`: rows and open transactions have different numbers. `PageIsNext`: the
numbers of a page are those of rows beyond the cursor, and a row beyond the cursor that the page
leaves out comes after all of it, or was overtaken; that a page is a beginning of what is left is
the lemma `PagesAreInOrder`, about the limit. `PlaceIsReached`: what has been done with the
event the bridge is at. `CommitKeeps` is the step the argument turns on: a row that appears
behind page or cursor is overtaken, any other comes after both.

`FeedbackAutonomy_proofs` proves, for any pieces of feedback, overlapping ticks, attempts,
mishaps and verdicts (`FeedbackAutonomyAssumption`), `Typing`, `TriggersAreTrue`
(`TriggersTellTheTruth`), `ServingIsImproved` (`OnlyTheServingIsImproved`) and `PromotedIsReleased`
(`OnlyThePromotedIsReleased`). A tick acts on
copies that other ticks have overtaken, and of these the invariant says only what no other run
takes back (`ItemFits`, `StageFits`): what a piece of feedback is about, that a cycle has its
proposal, that it is blocked, and then for want of confidence (`BlockedForConfidence`). So a
trigger that is recorded from such a copy is true. A run that merges or registers is one whose
cycle was promoted, whoever promoted it, and promotion is not taken back but by an end that
follows it (`MayServe`): this is all that `PromotedIsReleased` needs, with any number of
executions of any cycle. That what is improved is what is served needs more, and is proved
of behaviours in which no second execution was told of a promotion (`Alone`, which is
`echoed = {}`): the target has one active cycle (`OneActiveCycle`), so one run
promotes (`OneRunPromotes`), and only it changes branch and catalog, which agree as long as no
cycle is promoted (`BranchIsServed`) and differ at known places of a promotion and of its way back
(`PromotionFits`). A baseline that is verified while no promotion is under way is therefore that of
the serving release, and its cycle being active keeps any other from replacing it. Without `Alone`
the model reaches a state that breaks it, as the code does.

`CanaryTraffic_proofs` proves, for any stages, rounds, restarts, requests and responses
(`CanaryTrafficAssumption`), `StageTyping` (the part of the type invariant that does not count
samples), `Identified` (`ExposuresAreIdentified`), `OwnRoute` (`PassedOnItsOwnRoute`) and the
refinement `DirectorKept` (`ImplementsDirector`). The
director is safe because of how a round calls it. Of what it announced, all that gives traffic has
become a route, but for the shift of a round that the process died in, and that is the first thing
the round asks for again, at the same weight, as its decisions have not changed (`Pending`,
`EffectsAreWritten`). A route without its receipt is the shift the round asks for again, or gives
no traffic (`CurrentIsKept`). So generations grow, an operation writes one
(`GenerationsGrow`, `OpsAreWrittenOnce`), and three generations for each round are enough
(`GenerationsSuffice`). `OwnRoute` has an invariant on top of it, `RouteFits`: a
round that comes to observe a shift whose route was given back finds nobody answered by
that generation since the counters were lost, and nobody will be (`GivenBackIsUntouched`), so
the one verdict that lets a candidate on, which asks for requests, falls on the route of the
round, and that has the weight of the stage (`ShownAtItsWeight`).
`DirectorKept` needs to know of routes that are neither current nor in a receipt: they are those
of observers that failed in rounds that are decided (`LostAreSpent`), because a route is only
replaced when it has its receipt or is one of these (`CurrentIsAskedFor`). So `WriteRoute` is the
one step of a shift and does none twice (`NothingTwice`), and an answer, from the route or from an
old receipt, is at the weight that was asked for (`WeightFits`).

`CandidateSource_proofs` proves, for any numbers of attempts, tries of a compensation, writes,
edits and restarts: `Typing`, `OneCandidate` (`OneCandidateCommit`), `ScopeHolds`
(`ScopeIsEnforced`), `ImageHolds` (`ImageIsTheCandidate`), `OutcomeOnMain` (`MainTellsTheOutcome`)
and `PeopleKeep` (`PeopleKeepTheirWork`). The invariant follows the files: what is in the
worktree (`CommitIsInTree`), of that what was checked before it was staged and committed
(`CommitIsChecked`), and from the branch to the default branch (`MainFollows`). That the rollback
takes nobody's work rests on `ResetIsLookedAt`: when `git reset --hard` comes, the default branch
has one commit beyond the baseline and a clean checkout, or somebody came after the check
(`raced`). That no run begins more threads than one per attempt and life of the process is
`ThreadsAreCounted`.

`CodexTurn_proofs` proves, for any calls that share a resume key and any bounds, `Typing`,
`Binding` (`TurnsAreOnTheJournaledThread`) and `Answers` (`AnswerIsTheTurns`). The server is external and the proof asks almost
nothing of it: it may repeat, reorder and invent lines, and the one fact about them that is used
is that a response names a thread that is one (`Messages`). The invariant of
`Binding` follows a thread through the call: what is to be recorded is a thread (`ThreadsAreNamed`); while a call writes the
journal, there is none yet, no other call writes it, and the temporary file is that of the call
(`JournalIsWrittenOnce`, which is what `together` excludes); and from there on a turn is asked
for only on the journaled thread (`TurnsAreAskedForThere`). That the journal, once there, is
never changed follows: `ReplaceJournal` needs it to be missing. Steps that come to no thread are
handled together (`Apart`, `ApartKeeps`).

`Answers` has an invariant of its own, `AInv`, about one call, its server
and the pipe between them, line by line. At most one response is on its way, the one the call
waits for (`ResponsesFit`), so the turn a call is told is the turn its server runs. The last
message of that turn in the pipe is the last it has said (`SaidFits`), nothing of the turn
follows its end (`MessagesFit`), and once none of it is left in the pipe, the last one read is
the last one said, if any was read while the call awaited the turn (`LastFits`).

Only model-checked, and why:

- `PassedOnItsOwnTraffic`, and the part of `CanaryTraffic`'s `TypeOK` about counters and
  samples: both rest on what sums over a function are after one of its values has changed, and
  the sums are folds, about which only induction over data could tell.
- All liveness (`EveryRunEnds`, `EverySoakEnds`, `EveryWorkflowEnds`, `FeedbackIsTaken`,
  `EventsAreDelivered`), which needs ENABLED.
- `NoCycleLost` and `ReplayIsSafe`, which the code does not keep.

Every other property of a run is a theorem.

## 6. Not modelled

- Text, paths, prompts: a diagnosis is low, enough or outside the policy; outside
  `CanaryTraffic`, an observation is its verdict; a gate passes, rejects or fails.
- A database that fails under a step that only moves the cycle, in `IterationWorkflow`: DBOS
  could not record that step either. DBOS's own limit of 20 recoveries.
- Commits on the default branch by people outside `CandidateSource`, and edits of the traffic
  files by hand.
- In `CandidateSource`: contents of files and the matching of path prefixes (a file is its
  writer, and whether its path is allowed); their number: a refusal for
  `max_changed_files` (`domain/policies.py:15`) may come at any check of the paths, and no
  property is about it; deletions and rewrites, which are a change like any
  other to the code; two cycles at once (one is active per target), and two executions of one.
- In `CodexTurn`: which approvals are accepted. The client accepts a change of files below the
  working directory in a read-only turn as well, and leaves it to the sandbox policy of the turn
  to forbid it. A response of a server that is malformed is a response that refuses. Nor are
  pipes that are full: the process is started with `stderr=PIPE` that nobody reads
  (`adapters/codex_app_server/client.py:62`), and a request is written by a blocking write
  without a deadline (`:362`). A server that has filled its error output is to the model one that
  writes no more, a call that writes to a server that does not read one that takes no further
  step; so nothing is claimed of the end of a call, or of call and server not waiting for each
  other.
- What an operator's cycle does to the serving release, in `FeedbackAutonomy`: it only keeps
  the target busy. Two executions of one cycle produce one commit there, as the second recovers
  what the first committed (`application/engineering.py:66`), and gates and canary of the second
  are those of an execution that runs alone; which receipts a compensation by a third execution
  would meet is a choice to fail (`LoseRelease`).
- In `CanaryTraffic`: how long an observation lasts (it may end at any moment, with enough or
  without), the identities a route carries (target, release, deployment), floats (rates are
  compared as exact ratios), and the time before there is any route.
- In `OperatorOutbox`: the contents of events; two bridges at once.
- Command lines of Docker, k6, syft and grype, HTTP routing, settings, CLI, the evidence
  store, backup, the acceptance target: input and output without control of their own.
- `application/feedback_controller.py` and `workflows/development_cycle.py`: earlier
  implementations that the runtime does not compose.

## 7. Plan

Built in this order: `CycleStates`, `DevelopmentCycles`, `CycleLifecycle` with their proofs;
`IterationWorkflow` and `ProgressiveDelivery`; `PostPromotionSoak`; `OperatorRequests`;
`FeedbackAutonomy`; `CanaryTraffic`; `CandidateSource`; `CodexTurn` and
`OperatorOutbox` with their proofs; then the proofs about `PostPromotionSoak`,
`IterationWorkflow`, `CandidateSource`, `OperatorRequests` and the answers of `CodexTurn`, and
those about `FeedbackAutonomy` and `CanaryTraffic`. To come:

1. The route with its identities, and `restore_control`, which reads them outside the lock.
2. The thresholds of `evaluate_post_promotion_soak`, as those of the canary now are.
3. The rest of the registry, release catalog and feedback attribution, where state is read in
   two steps.
