-------------------------- MODULE OperatorRequests --------------------------
(***************************************************************************)
(* A human requirement, from its submission to its end: OperatorService    *)
(* behind the operator API, and the RequirementAutonomyWorkflow each start *)
(* of the request sets going.                                              *)
(*                                                                         *)
(* The handlers of the API call the service from the event loop, one after *)
(* another.  The workflows run in threads of their own, so the steps of a  *)
(* handler, each a read or a write of the database, interleave with those  *)
(* of a workflow.  Every write of the request writes its whole row, from   *)
(* the copy the writer has read.                                           *)
(*                                                                         *)
(* AutonomousIterationWorkflow and PostPromotionSoakWorkflow are modelled  *)
(* in modules of their own; here they are one execution and its outcome.   *)
(***************************************************************************)
EXTENDS Naturals, FiniteSets

CONSTANTS
    PrepareAttempts,    \* max_attempts of the prepare step (3 in the code)
    Outcomes,           \* how executions end: final statuses of the request
    MaxWorkflows,       \* bound: starts of the request
    MaxDisturbances     \* bound: mishaps and cancellations together

VARIABLES
    request,        \* the row of development_requests
    intervention,   \* the row of human_interventions: [status, answer]
    analysis,       \* the row of requirement_analyses: is it actionable?
    outbox,         \* the table operator_events: a set of events
    cycle,          \* the state of the cycle made for the request
    call,           \* the handler under way: [op, at, seen]
    flows,          \* the workflows of the request, by attempt
    budget          \* [mishaps, cancels] so far; a mishap is a restart, a failing step or
                    \* handler, or an answer delivered once more

vars == <<request, intervention, analysis, outbox, cycle, call, flows, budget>>

----------------------------------------------------------------------------
Attempts == 1 .. MaxWorkflows
Terminal == {"COMPLETED", "ROLLED_BACK", "FAILED", "CANCELLED"}
Statuses == Terminal \cup {"ABSENT", "RECEIVED", "ANALYZING", "READY", "RUNNING", "NEEDS_HUMAN"}
CycleStages == {"absent", "NEW", "BASELINE_VERIFIED", "CHANGE_PROPOSED", "DEVELOPING", "ended"}
ASSUME RequestsAssumption ==
    /\ PrepareAttempts \in Nat \ {0}
    /\ Outcomes \subseteq Terminal
    /\ MaxWorkflows \in Nat \ {0}
    /\ MaxDisturbances \in Nat

Answers == {"none", "first"}

Request == [status : Statuses, cycle : BOOLEAN, pending : BOOLEAN,
            attempt : 0 .. MaxWorkflows, workflow : 0 .. MaxWorkflows]
NewRequest == [status |-> "RECEIVED", cycle |-> FALSE, pending |-> FALSE,
               attempt |-> 0, workflow |-> 0]

Responses == {"respond", "replay"}
Idle == [op |-> "none", at |-> "idle", seen |-> NewRequest]

\* pc is the step DBOS runs next, at the place within it, next where a finished step leads.
NoFlow == [pc |-> "none", at |-> "begun", next |-> "none", seen |-> NewRequest,
           cycle |-> "absent", tries |-> 1, outcome |-> "FAILED"]

CycleActive == cycle \notin {"absent", "ended"}

At(n, pc, place) == flows[n].pc = pc /\ flows[n].at = place
Goto(n, place) == flows' = [flows EXCEPT ![n].at = place]
Return(n, next) ==
    flows' = [flows EXCEPT ![n] = [NoFlow EXCEPT !.pc = flows[n].pc, !.at = "returned",
                                                 !.next = next, !.outcome = flows[n].outcome]]

\* A step that raises: prepare is tried again, finish is not.
Raise(n) ==
    IF flows[n].pc = "prepare" /\ flows[n].tries < PrepareAttempts
      THEN flows' = [flows EXCEPT ![n] = [NoFlow EXCEPT !.pc = "prepare",
                                                        !.tries = flows[n].tries + 1]]
      ELSE Return(n, "failed")

\* An event's id names its type and the request (and the cycle, once there is one); only the
\* payloads of final events say more, namely what the workflow that sends them has done.
Event(type) == [type |-> type, by |-> 0]
Emit(type) == outbox' = outbox \cup {Event(type)}

Spare == budget.mishaps + budget.cancels < MaxDisturbances
Mishap == [budget EXCEPT !.mishaps = @ + 1]

rows == <<request, intervention, analysis>>
others == <<call, budget>>

----------------------------------------------------------------------------
\* The handlers.

\* submit_request: the same submission may come again, and is told about again.
Submit ==
    /\ call = Idle
    /\ request.status = "ABSENT" \/ Event("requirement_received") \notin outbox
    /\ request' = IF request.status = "ABSENT" THEN NewRequest ELSE request
    /\ call' = [Idle EXCEPT !.op = "submit", !.at = "written"]
    /\ UNCHANGED <<intervention, analysis, outbox, cycle, flows, budget>>

\* Faulty variant: start_record does not look for a workflow that is already there.
BeginStartAgain ==
    /\ call = Idle
    /\ request.status \notin Terminal \cup {"ABSENT", "NEEDS_HUMAN"}
    /\ request.attempt < MaxWorkflows
    /\ call' = [op |-> "start", at |-> "read", seen |-> request]
    /\ UNCHANGED <<rows, outbox, cycle, flows, budget>>

\* start_record, up to its early returns.
BeginStart ==
    /\ call = Idle
    /\ request.status \notin Terminal \cup {"ABSENT", "NEEDS_HUMAN"}
    /\ request.workflow = 0
    /\ request.attempt < MaxWorkflows
    /\ call' = [op |-> "start", at |-> "read", seen |-> request]
    /\ UNCHANGED <<rows, outbox, cycle, flows, budget>>

Claim ==
    /\ call.op = "start" /\ call.at = "read"
    /\ LET attempt == call.seen.attempt + 1
       IN /\ request' = [call.seen EXCEPT !.status = "READY", !.attempt = attempt,
                                          !.workflow = attempt]
          /\ call' = [call EXCEPT !.at = "claimed", !.seen = request']
    /\ UNCHANGED <<intervention, analysis, outbox, cycle, flows, budget>>

\* start_requirement_workflow: DBOS knows a workflow by its id, and starts it once.
Launch ==
    /\ call.op = "start" /\ call.at = "claimed"
    /\ LET n == call.seen.workflow
       IN flows' = [flows EXCEPT ![n] = IF @ = NoFlow THEN [NoFlow EXCEPT !.pc = "prepare"] ELSE @]
    /\ call' = Idle
    /\ UNCHANGED <<rows, outbox, cycle, budget>>

\* cancel_request: not once the request is running.
BeginCancel ==
    /\ call = Idle
    /\ request.status \notin Terminal \cup {"ABSENT", "RUNNING"}
    /\ Spare
    /\ budget' = [budget EXCEPT !.cancels = @ + 1]
    /\ call' = [op |-> "cancel", at |-> "read", seen |-> request]
    /\ UNCHANGED <<rows, outbox, cycle, flows>>

Cancel ==
    /\ call.op = "cancel" /\ call.at = "read"
    /\ request' = [call.seen EXCEPT !.status = "CANCELLED", !.workflow = 0]
    /\ call' = [call EXCEPT !.at = "written", !.seen = NewRequest]
    /\ UNCHANGED <<intervention, analysis, outbox, cycle, flows, budget>>

\* respond_intervention of the repository: the answer of an open intervention is taken, and
\* the same answer taken again; another one is refused.  An operator knows an intervention
\* from the request that points to it.
Answer ==
    /\ call = Idle
    /\ \/ /\ intervention.status = "OPEN" /\ request.pending
          /\ intervention' = [status |-> "RESPONDED", answer |-> "first"]
          /\ call' = [Idle EXCEPT !.op = "respond", !.at = "answered"]
          /\ UNCHANGED budget
       \/ /\ intervention.status = "RESPONDED"
          /\ Spare
          /\ budget' = Mishap
          /\ call' = [Idle EXCEPT !.op = "replay", !.at = "answered"]
          /\ UNCHANGED intervention
    /\ UNCHANGED <<request, analysis, outbox, cycle, flows>>

ReadAnswered ==
    /\ call.at = "answered"
    /\ call' = [call EXCEPT !.at = "read", !.seen = request]
    /\ UNCHANGED <<rows, outbox, cycle, flows, budget>>

MakeReady ==
    /\ call.op \in Responses /\ call.at = "read"
    /\ request' = [call.seen EXCEPT !.status = "READY", !.pending = FALSE, !.workflow = 0]
    /\ call' = [call EXCEPT !.at = "written", !.seen = NewRequest]
    /\ UNCHANGED <<intervention, analysis, outbox, cycle, flows, budget>>

TypeOfEvent(op) == CASE op = "submit" -> "requirement_received"
                     [] op = "cancel" -> "cancelled"
                     [] op \in Responses -> "requirement_ready"

\* Each of these handlers tells the outbox last.
Tell ==
    /\ call.at = "written"
    /\ Emit(TypeOfEvent(call.op))
    /\ call' = Idle
    /\ UNCHANGED <<rows, cycle, flows, budget>>

----------------------------------------------------------------------------
\* The prepare step of workflow n.

ReadRequest(n) ==
    /\ At(n, "prepare", "begun")
    /\ IF \/ request.status \in Terminal
          \/ request.status = "NEEDS_HUMAN" /\ request.pending /\ intervention.status = "OPEN"
         THEN Return(n, "parked")
         ELSE flows' = [flows EXCEPT ![n].at = "read", ![n].seen = request]
    /\ UNCHANGED <<rows, outbox, cycle, others>>

WriteAnalyzing(n) ==
    /\ At(n, "prepare", "read")
    /\ request' = [flows[n].seen EXCEPT !.status = "ANALYZING"]
    /\ flows' = [flows EXCEPT ![n].at = "analyzing", ![n].seen = request']
    /\ UNCHANGED <<intervention, analysis, outbox, cycle, others>>

\* Does the target have an active cycle other than the request's, of the feedback scheduler
\* or of another request?  There may always be one, unless the request's own is active.
RivalActive == IF CycleActive THEN {FALSE} ELSE BOOLEAN

\* RequirementAnalysisService.analyze: made once for a request, and read from then on.  It is
\* ambiguous when the turn says so, or names no path or one outside the objective's policy.
Analysed == analysis' \in IF analysis = "none" THEN {"actionable", "ambiguous"} ELSE {analysis}

\* The target's baseline and contract are in order and the requirement can be analysed (the
\* turn ends, and its answer can be read), or a human has to look.  An active cycle the
\* request does not name is taken for another's, its own included.
Analyse(n) ==
    /\ At(n, "prepare", "analyzing")
    /\ \/ Goto(n, "asking") /\ UNCHANGED analysis
       \/ /\ Analysed
          /\ \E rival \in RivalActive :
               Goto(n, IF \/ analysis' = "ambiguous" \/ rival
                          \/ CycleActive /\ ~ flows[n].seen.cycle
                         THEN "asking" ELSE "creating")
    /\ UNCHANGED <<request, intervention, outbox, cycle, others>>

\* CycleService.create, or the cycle the request names.
CreateCycle(n) ==
    /\ At(n, "prepare", "creating")
    /\ IF flows[n].seen.cycle
         THEN /\ flows' = [flows EXCEPT ![n].at = "created", ![n].cycle = cycle]
              /\ UNCHANGED cycle
         ELSE \E rival \in RivalActive :
                IF rival \/ cycle # "absent" THEN Raise(n) /\ UNCHANGED cycle
                ELSE /\ cycle' = "NEW"
                     /\ flows' = [flows EXCEPT ![n].at = "created", ![n].cycle = "NEW"]
    /\ UNCHANGED <<rows, outbox, others>>

\* Faulty variant: the cycle is announced as running before its proposal is attached.
MoveCycleOnce(n) ==
    /\ At(n, "prepare", "created")
    /\ cycle' = IF cycle = "NEW" THEN "BASELINE_VERIFIED" ELSE cycle
    /\ Goto(n, "proposed")
    /\ UNCHANGED <<rows, outbox, others>>

\* CycleService.transition, as far as CHANGE_PROPOSED, at the version that was read.
MoveCycle(n) ==
    /\ At(n, "prepare", "created")
    /\ IF flows[n].cycle \notin {"NEW", "BASELINE_VERIFIED"}
         THEN /\ flows' = [flows EXCEPT ![n].at = "proposed", ![n].cycle = "absent"]
              /\ UNCHANGED cycle
         ELSE IF flows[n].cycle # cycle THEN Raise(n) /\ UNCHANGED cycle
         ELSE /\ cycle' = IF cycle = "NEW" THEN "BASELINE_VERIFIED" ELSE "CHANGE_PROPOSED"
              /\ flows' = [flows EXCEPT ![n].cycle = cycle']
    /\ UNCHANGED <<rows, outbox, others>>

WriteRunning(n) ==
    /\ At(n, "prepare", "proposed")
    /\ request' = [flows[n].seen EXCEPT !.status = "RUNNING", !.cycle = TRUE, !.pending = FALSE]
    /\ flows' = [flows EXCEPT ![n].at = "running", ![n].seen = NewRequest]
    /\ UNCHANGED <<intervention, analysis, outbox, cycle, others>>

TellStarted(n) ==
    /\ At(n, "prepare", "running")
    /\ Emit("development_started")
    /\ Return(n, "execute")
    /\ UNCHANGED <<rows, cycle, others>>

\* _needs_human: a request has one intervention, whatever it is asked for.
Ask(n) ==
    /\ At(n, "prepare", "asking")
    /\ intervention' = IF intervention.status = "none"
                         THEN [intervention EXCEPT !.status = "OPEN"] ELSE intervention
    /\ Goto(n, "asked")
    /\ UNCHANGED <<request, analysis, outbox, cycle, others>>

\* Faulty variant: the outbox is not told about the question.
WriteNeedsHumanOnly(n) ==
    /\ At(n, "prepare", "asked")
    /\ request' = [flows[n].seen EXCEPT !.status = "NEEDS_HUMAN", !.pending = TRUE,
                                        !.workflow = 0]
    /\ Return(n, "parked")
    /\ UNCHANGED <<intervention, analysis, outbox, cycle, others>>

WriteNeedsHuman(n) ==
    /\ At(n, "prepare", "asked")
    /\ request' = [flows[n].seen EXCEPT !.status = "NEEDS_HUMAN", !.pending = TRUE,
                                        !.workflow = 0]
    /\ flows' = [flows EXCEPT ![n].at = "written", ![n].seen = NewRequest]
    /\ UNCHANGED <<intervention, analysis, outbox, cycle, others>>

TellNeedsHuman(n) ==
    /\ At(n, "prepare", "written")
    /\ Emit("needs_human")
    /\ Return(n, "parked")
    /\ UNCHANGED <<rows, cycle, others>>

Prepare(n) ==
    \/ ReadRequest(n) \/ WriteAnalyzing(n) \/ Analyse(n) \/ CreateCycle(n)
    \/ MoveCycle(n) \/ WriteRunning(n) \/ TellStarted(n)
    \/ Ask(n) \/ WriteNeedsHuman(n) \/ TellNeedsHuman(n)

----------------------------------------------------------------------------
\* The execution, whose own steps DBOS records: it begins with a proposed cycle, or with one
\* in development.
Develop(n) ==
    /\ At(n, "execute", "begun")
    /\ IF cycle \in {"CHANGE_PROPOSED", "DEVELOPING"}
         THEN cycle' = "DEVELOPING" /\ Goto(n, "developing")
         ELSE Return(n, "failed") /\ UNCHANGED cycle
    /\ UNCHANGED <<rows, outbox, others>>

\* It ends the cycle with an outcome, or raises and leaves the cycle where it is.
EndDevelopment(n) ==
    /\ At(n, "execute", "developing")
    /\ \/ Return(n, "failed") /\ UNCHANGED cycle
       \/ /\ cycle = "DEVELOPING"
          /\ cycle' = "ended"
          /\ \E outcome \in Outcomes :
               flows' = [flows EXCEPT ![n] = [@ EXCEPT !.pc = "finish", !.at = "begun",
                                                       !.outcome = outcome]]
    /\ UNCHANGED <<rows, outbox, others>>

\* Faulty variant: finish takes a terminal request for one it has finished and told about.
ReadFinishedOnce(n) ==
    /\ At(n, "finish", "begun")
    /\ IF request.status \in Terminal THEN Return(n, "finished")
       ELSE flows' = [flows EXCEPT ![n].at = "read", ![n].seen = request]
    /\ UNCHANGED <<rows, outbox, cycle, others>>

ReadFinished(n) ==
    /\ At(n, "finish", "begun")
    /\ flows' = [flows EXCEPT ![n].at = "read", ![n].seen = request]
    /\ UNCHANGED <<rows, outbox, cycle, others>>

WriteFinished(n) ==
    /\ At(n, "finish", "read")
    /\ request' = [flows[n].seen EXCEPT !.status = flows[n].outcome, !.workflow = 0]
    /\ flows' = [flows EXCEPT ![n].at = "written", ![n].seen = NewRequest]
    /\ UNCHANGED <<intervention, analysis, outbox, cycle, others>>

\* append_event refuses another payload for an id it has.
TellFinished(n) ==
    /\ At(n, "finish", "written")
    /\ LET event == [Event(flows[n].outcome) EXCEPT !.by = n]
       IN IF \E e \in outbox : [e EXCEPT !.by = n] = event /\ e # event
            THEN Raise(n) /\ UNCHANGED outbox
            ELSE outbox' = outbox \cup {event} /\ Return(n, "finished")
    /\ UNCHANGED <<rows, cycle, others>>

\* Faulty variant: the step's result is not kept.
RecordNothing(n) ==
    /\ flows[n].at = "returned"
    /\ flows' = [flows EXCEPT ![n] = [@ EXCEPT !.at = "begun", !.tries = 1]]
    /\ UNCHANGED <<rows, outbox, cycle, others>>

\* DBOS records the result of the step.
Record(n) ==
    /\ flows[n].at = "returned"
    /\ flows' = [flows EXCEPT ![n] = [NoFlow EXCEPT !.pc = flows[n].next,
                                                    !.outcome = flows[n].outcome]]
    /\ UNCHANGED <<rows, outbox, cycle, others>>

Execute(n) == Develop(n) \/ EndDevelopment(n)
Finish(n) == ReadFinished(n) \/ WriteFinished(n) \/ TellFinished(n)
Flow(n) == Prepare(n) \/ Execute(n) \/ Finish(n) \/ Record(n)

----------------------------------------------------------------------------
\* A step of a workflow fails, wherever it is.
Fail(n) ==
    /\ flows[n].pc \in {"prepare", "finish"} /\ flows[n].at # "returned"
    /\ Spare
    /\ budget' = Mishap
    /\ Raise(n)
    /\ UNCHANGED <<rows, outbox, cycle, call>>

\* A handler fails between two of its accesses to the database.
Abandon ==
    /\ call # Idle
    /\ Spare
    /\ budget' = Mishap
    /\ call' = Idle
    /\ UNCHANGED <<rows, outbox, cycle, flows>>

\* The process is restarted: the handler is gone, and DBOS runs the steps it has no result
\* of from their beginning.
Restart ==
    /\ Spare
    /\ budget' = Mishap
    /\ call' = Idle
    /\ flows' = [n \in Attempts |->
                   IF flows[n].pc \in {"prepare", "finish"}
                     THEN [NoFlow EXCEPT !.pc = flows[n].pc, !.outcome = flows[n].outcome]
                     ELSE flows[n]]
    /\ UNCHANGED <<rows, outbox, cycle>>

Init ==
    /\ request = [NewRequest EXCEPT !.status = "ABSENT"]
    /\ intervention = [status |-> "none", answer |-> "none"]
    /\ analysis = "none"
    /\ outbox = {}
    /\ cycle = "absent"
    /\ call = Idle
    /\ flows = [n \in Attempts |-> NoFlow]
    /\ budget = [mishaps |-> 0, cancels |-> 0]

Handler ==
    \/ Submit \/ BeginStart \/ Claim \/ Launch \/ BeginCancel \/ Cancel
    \/ Answer \/ ReadAnswered \/ MakeReady \/ Tell

Next ==
    \/ Handler
    \/ \E n \in Attempts : Flow(n) \/ Fail(n)
    \/ Abandon \/ Restart

\* DBOS runs a pending workflow until it returns; nobody is bound to call the API.
Spec == Init /\ [][Next]_vars /\ \A n \in Attempts : WF_vars(Flow(n))

----------------------------------------------------------------------------
\* The handler under way, a workflow, and what the outbox holds.
Calls == [op : Responses \cup {"none", "submit", "start", "cancel"},
          at : {"idle", "read", "claimed", "written", "answered"}, seen : Request]

Places == {"begun", "read", "analyzing", "asking", "asked", "creating", "created", "proposed",
           "running", "written", "developing", "returned"}

Workflows == [pc : {"none", "prepare", "execute", "finish", "finished", "parked", "failed"},
              at : Places, next : {"none", "execute", "parked", "failed", "finished"},
              seen : Request, cycle : CycleStages, tries : 1 .. PrepareAttempts,
              outcome : Outcomes \cup {"FAILED"}]

Events == [type : Terminal \cup {"requirement_received", "requirement_ready", "cancelled",
                                 "development_started", "needs_human"},
           by : 0 .. MaxWorkflows]

\* Every row, the handler and every workflow keep their shape, and no request is started more
\* often than the bound allows.
TypeOK ==
    /\ request \in Request
    /\ intervention \in [status : {"none", "OPEN", "RESPONDED"}, answer : Answers]
    /\ analysis \in {"none", "actionable", "ambiguous"}
    /\ outbox \subseteq Events
    /\ cycle \in CycleStages
    /\ call \in Calls
    /\ flows \in [Attempts -> Workflows]
    /\ budget \in [mishaps : 0 .. MaxDisturbances, cancels : 0 .. MaxDisturbances]
    /\ budget.mishaps + budget.cancels <= MaxDisturbances

\* A running request names a cycle that is ready to be developed, and one that was finished
\* a cycle that has ended, whichever stale copy of the row was written last
\* (prepare: the cycle before the request; finish: after the execution).
StatusStandsOnTheCycle ==
    /\ request.status = "RUNNING" =>
         request.cycle /\ cycle \notin {"absent", "NEW", "BASELINE_VERIFIED"}
    /\ request.status \in {"COMPLETED", "ROLLED_BACK"} => cycle = "ended"

\* The operator can tell from the outbox what is going on: an execution has been announced
\* before it begins, and its end is told, also when the workflow was restarted in between.
ExecutionsAreReported ==
    \A n \in Attempts :
        /\ flows[n].pc \in {"execute", "finish", "finished"} =>
             Event("development_started") \in outbox
        /\ flows[n].pc = "finished" => \E e \in outbox : e.type = flows[n].outcome

\* Two workflows of one request never develop it at the same time, as long as no answer
\* comes twice and nothing fails (the claim of start_record, and _needs_human giving it up).
OneExecutionAtATime ==
    budget.mishaps = 0 =>
        Cardinality({n \in Attempts : flows[n].pc \in {"execute", "finish"}}) <= 1

\* A request that waits for a human, with no workflow left that could tell so, has told, as
\* long as nothing fails (_needs_human writes the row before it tells).
QuestionsReachTheOperator ==
    (/\ request.status = "NEEDS_HUMAN" /\ budget.mishaps = 0
     /\ \A n \in Attempts : flows[n].pc \in {"none", "finished", "parked", "failed"}) =>
        /\ request.pending /\ intervention.status # "none"
        /\ \E e \in outbox : e.type = "needs_human"

\* An answer that was given stays as it was given.
AnswersAreFinal ==
    [][intervention.status = "RESPONDED" => intervention' = intervention]_vars

\* Every workflow that was started comes to an end: development, or a question, or an error.
EveryWorkflowEnds ==
    \A n \in Attempts :
        flows[n].pc = "prepare" ~> flows[n].pc \in {"finished", "parked", "failed"}

\* docs/operator-contract.md, "replaying the same answer is safe": it does not bring back a
\* request that has ended.
ReplayIsSafe ==
    [][call.op = "replay" /\ call'.at = "written" /\ request.status \in Terminal
         => request' = request]_vars

=============================================================================
