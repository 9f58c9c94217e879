----------------------- MODULE OperatorRequests_proofs -----------------------
(***************************************************************************)
(* The operator's side of the system: a requirement for any number of      *)
(* starts, tries of a step and disturbances, and below it the delivery of  *)
(* what the outbox holds, for any writers, events, limit of a page and     *)
(* number of failures.  The two specifications share no variable.          *)
(*                                                                         *)
(* The rows of a request are written whole, from copies that may be        *)
(* stale; the invariant says what a stale copy can still say: that a cycle *)
(* was proposed stays true, and, as long as nothing has failed, a workflow *)
(* that may come to an execution is alone and is the one the request       *)
(* names, unless the request has ended.                                    *)
(***************************************************************************)
EXTENDS OperatorRequests, OperatorOutbox, FiniteSetTheorems, TLAPS

\* The cycle can be developed, or was.
Proposed == cycle \notin {"absent", "NEW", "BASELINE_VERIFIED"}

\* Workflow n executes, or comes to it if nothing stops it.
Live(n) ==
    \/ flows[n].pc \in {"execute", "finish"}
    \/ /\ flows[n].pc = "prepare" /\ flows[n].at # "written"
       /\ flows[n].at = "returned" => flows[n].next = "execute"

Nobody == \A n \in Attempts : ~Live(n)

\* The places at which prepare has a copy of the row.
Copying == {"read", "analyzing", "asking", "asked", "creating", "created", "proposed"}

\* The handler under way: what start_record has read and claimed, and where the others are.
CallFits ==
    /\ call.seen.cycle => Proposed
    /\ call.op = "start" => call.at \in {"read", "claimed"}
    /\ call.op = "start" /\ call.at = "read" => call.seen.attempt < MaxWorkflows
    /\ call.op = "start" /\ call.at = "claimed" => call.seen.workflow # 0
    /\ call.at = "written" => call.op \in {"submit", "cancel"} \cup Responses
    /\ call.at = "answered" => call.op \in Responses

\* What the request says of its cycle and of its question is so.
RowFits ==
    /\ request.cycle => Proposed
    /\ StatusStandsOnTheCycle
    /\ request.status = "NEEDS_HUMAN" => request.pending /\ intervention.status # "none"
    /\ request.status = "ABSENT" => request = [NewRequest EXCEPT !.status = "ABSENT"]

\* A workflow returns to where it goes on, has told what it should, and a copy of the row or of
\* the cycle that it holds, stale or not, says nothing that is not so any more.
WorkflowFits(n) ==
    /\ flows[n].at = "returned" =>
         \/ flows[n].pc = "prepare" /\ flows[n].next \in {"execute", "parked", "failed"}
         \/ flows[n].pc = "execute" /\ flows[n].next = "failed"
         \/ flows[n].pc = "finish" /\ flows[n].next \in {"failed", "finished"}
    /\ \/ flows[n].at = "returned" /\ flows[n].next = "execute"
       \/ flows[n].pc \in {"execute", "finish", "finished"}
       => Event("development_started") \in outbox
    /\ \/ flows[n].at = "returned" /\ flows[n].next = "finished"
       \/ flows[n].pc = "finished"
       => \E e \in outbox : e.type = flows[n].outcome
    /\ flows[n].seen.cycle => Proposed
    /\ At(n, "prepare", "created") =>
         /\ flows[n].cycle # "absent"
         /\ flows[n].cycle \notin {"NEW", "BASELINE_VERIFIED"} => Proposed
    /\ At(n, "prepare", "proposed") => Proposed
    /\ At(n, "prepare", "asked") => intervention.status # "none"
    /\ flows[n].pc = "finish" => cycle = "ended"

\* A question is told once the request says so, as long as nothing fails.
QuestionsAreTold ==
    request.status = "NEEDS_HUMAN" /\ budget.mishaps = 0 =>
        \/ \E e \in outbox : e.type = "needs_human"
        \/ \E n \in Attempts : At(n, "prepare", "written")

\* The copy of the workflow that is live has its name.
CopyFits(n) ==
    /\ flows[n].pc = "prepare" /\ flows[n].at \in Copying =>
         flows[n].seen.workflow = n /\ ~flows[n].seen.pending
    /\ flows[n].pc = "finish" /\ flows[n].at = "read" => ~flows[n].seen.pending

\* While nothing fails, the claim of start_record holds until the workflow gives it up: a live
\* workflow is alone, and no question or start is on its way that could make another one.
OneIsLive ==
    budget.mishaps = 0 =>
        /\ \A m \in Attempts, n \in Attempts : Live(m) /\ Live(n) => m = n
        /\ \A n \in Attempts : Live(n) =>
            /\ request.workflow = n \/ request.status \in Terminal
            /\ ~request.pending
            /\ CopyFits(n)
            /\ call.op = "cancel" /\ call.at = "read" => ~call.seen.pending
        /\ call.op \in {"start"} \cup Responses => Nobody
        /\ call.op = "start" /\ call.at = "claimed" => request = call.seen
        /\ call.op = "start" => ~call.seen.pending
        /\ request.pending => request.status \in Terminal \cup {"NEEDS_HUMAN"}

IInv ==
    /\ TypeOK
    /\ CallFits
    /\ RowFits
    /\ \A n \in Attempts : WorkflowFits(n)
    /\ QuestionsAreTold
    /\ OneIsLive

----------------------------------------------------------------------------
\* The shapes of the rows, and of a workflow that moves.

LEMMA ConstantsTyped ==
    /\ PrepareAttempts \in Nat \ {0} /\ Outcomes \subseteq Terminal
    /\ MaxWorkflows \in Nat \ {0} /\ MaxDisturbances \in Nat
    BY RequestsAssumption

LEMMA RowsTyped ==
    /\ Request = [status : Statuses, cycle : BOOLEAN, pending : BOOLEAN,
                  attempt : 0 .. MaxWorkflows, workflow : 0 .. MaxWorkflows]
    /\ NewRequest \in Request /\ NewRequest.status = "RECEIVED" /\ ~NewRequest.cycle
    /\ ~NewRequest.pending /\ NewRequest.workflow = 0
    /\ Idle \in Calls /\ Idle.op = "none" /\ Idle.at = "idle" /\ Idle.seen = NewRequest
    BY ConstantsTyped DEF Request, NewRequest, Statuses, Terminal, Idle, Calls

LEMMA NoFlowTyped ==
    /\ NoFlow \in Workflows
    /\ NoFlow.pc = "none" /\ NoFlow.at = "begun" /\ NoFlow.seen = NewRequest
    BY ConstantsTyped, RowsTyped DEF NoFlow, Workflows, Places, CycleStages

LEMMA FlowTyped ==
    ASSUME TypeOK, NEW n \in Attempts
    PROVE  /\ flows \in [Attempts -> Workflows] /\ flows[n] \in Workflows
           /\ flows[n].seen \in Request /\ flows[n].tries \in 1 .. PrepareAttempts
           /\ flows[n].outcome \in Terminal
    BY ConstantsTyped DEF TypeOK, Workflows, Terminal

\* Only workflow n moves.
Moves(n) ==
    /\ flows' \in [Attempts -> Workflows]
    /\ \A m \in Attempts \ {n} : flows'[m] = flows[m]

LEMMA GotoMoves ==
    ASSUME TypeOK, NEW n \in Attempts, NEW place \in Places, Goto(n, place)
    PROVE  /\ Moves(n)
           /\ flows'[n].at = place /\ flows'[n].pc = flows[n].pc
           /\ flows'[n].seen = flows[n].seen /\ flows'[n].outcome = flows[n].outcome
    BY FlowTyped DEF Goto, Moves, Workflows

LEMMA ReturnMoves ==
    ASSUME TypeOK, NEW n \in Attempts,
           NEW next \in {"execute", "parked", "failed", "finished"}, Return(n, next)
    PROVE  /\ Moves(n)
           /\ flows'[n].at = "returned" /\ flows'[n].pc = flows[n].pc
           /\ flows'[n].next = next /\ flows'[n].outcome = flows[n].outcome
           /\ flows'[n].seen = NewRequest
<1> DEFINE w == [NoFlow EXCEPT !.pc = flows[n].pc, !.at = "returned",
                               !.next = next, !.outcome = flows[n].outcome]
<1>1. /\ w \in Workflows
      /\ w.at = "returned" /\ w.pc = flows[n].pc
      /\ w.next = next /\ w.outcome = flows[n].outcome /\ w.seen = NewRequest
    BY NoFlowTyped, FlowTyped DEF Workflows, Places
<1>2. flows' = [flows EXCEPT ![n] = w]
    BY DEF Return
<1> HIDE DEF w
<1> QED
    BY <1>1, <1>2, FlowTyped DEF Moves

\* A step that raises is at its beginning again, or has failed.
LEMMA RaiseMoves ==
    ASSUME TypeOK, NEW n \in Attempts, Raise(n)
    PROVE  /\ Moves(n)
           /\ flows'[n].pc = flows[n].pc /\ flows'[n].seen = NewRequest
           /\ \/ flows'[n].at = "begun" /\ flows[n].pc = "prepare"
              \/ flows'[n].at = "returned" /\ flows'[n].next = "failed"
<1>1. CASE Return(n, "failed")
    BY <1>1, ReturnMoves
<1>2. CASE /\ flows[n].pc = "prepare" /\ flows[n].tries < PrepareAttempts
           /\ flows' = [flows EXCEPT ![n] = [NoFlow EXCEPT !.pc = "prepare",
                                                           !.tries = flows[n].tries + 1]]
    <2> DEFINE w == [NoFlow EXCEPT !.pc = "prepare", !.tries = flows[n].tries + 1]
    <2>1. flows[n].tries + 1 \in 1 .. PrepareAttempts
        BY <1>2, FlowTyped, ConstantsTyped
    <2>2. w \in Workflows /\ w.at = "begun" /\ w.pc = "prepare" /\ w.seen = NewRequest
        BY <2>1, NoFlowTyped DEF Workflows
    <2>3. flows' = [flows EXCEPT ![n] = w]
        BY <1>2
    <2> HIDE DEF w
    <2> QED
        BY <1>2, <2>2, <2>3, FlowTyped DEF Moves
<1> QED
    BY <1>1, <1>2 DEF Raise

EventTypes == Terminal \cup {"requirement_received", "requirement_ready", "cancelled",
                             "development_started", "needs_human"}

LEMMA EventsTyped ==
    ASSUME NEW type \in EventTypes
    PROVE  /\ Event(type) \in Events /\ Event(type).type = type
           /\ \A n \in 0 .. MaxWorkflows :
                /\ [Event(type) EXCEPT !.by = n] \in Events
                /\ [Event(type) EXCEPT !.by = n].type = type
    BY ConstantsTyped DEF Event, Events, EventTypes

LEMMA InitIInv == Init => IInv
<1> SUFFICES ASSUME Init
             PROVE  IInv
    OBVIOUS
<1>1. \A n \in Attempts : flows[n] = NoFlow
    BY DEF Init
<1>2. TypeOK
    BY ConstantsTyped, RowsTyped, NoFlowTyped
    DEF Init, TypeOK, Request, Statuses, Answers, CycleStages
<1>3. CallFits /\ RowFits
    BY RowsTyped DEF Init, CallFits, RowFits, StatusStandsOnTheCycle, Responses
<1>4. \A n \in Attempts : WorkflowFits(n)
    BY <1>1, NoFlowTyped, RowsTyped DEF WorkflowFits, At
<1>5. QuestionsAreTold
    BY RowsTyped DEF Init, QuestionsAreTold
<1>6. OneIsLive
    BY <1>1, NoFlowTyped, RowsTyped DEF Init, OneIsLive, Live, Nobody, Responses
<1> QED
    BY <1>2, <1>3, <1>4, <1>5, <1>6 DEF IInv

----------------------------------------------------------------------------
\* What only grows: the cycle is further on, the question asked, events told, failures counted.

Grows ==
    /\ Proposed => Proposed'
    /\ cycle = "ended" => cycle' = "ended"
    /\ outbox \subseteq outbox'
    /\ intervention.status # "none" => intervention'.status # "none"
    /\ budget'.mishaps = 0 => budget.mishaps = 0

\* A workflow that does not move stays fit.
LEMMA StaysFit ==
    ASSUME Grows, NEW n \in Attempts, WorkflowFits(n), flows'[n] = flows[n]
    PROVE  WorkflowFits(n)'
<1>1. \A pc, place : At(n, pc, place)' <=> At(n, pc, place)
    BY DEF At
<1>2. Event("development_started")' = Event("development_started")
    BY DEF Event
<1> QED
    BY <1>1, <1>2 DEF WorkflowFits, Grows

\* A step after which nobody is live who was not, and nobody else has written the row.
LEMMA StaysOneLive ==
    ASSUME IInv, TypeOK', NEW n \in Attempts, Moves(n), Grows, UNCHANGED call,
           budget'.mishaps = 0 /\ Live(n)' => Live(n),
           budget'.mishaps = 0 =>
             \/ UNCHANGED request /\ (Live(n)' => CopyFits(n)')
             \/ /\ Live(n) /\ (Live(n)' \/ request'.status = "NEEDS_HUMAN")
                /\ Live(n)' =>
                     /\ request'.workflow = n \/ request'.status \in Terminal
                     /\ ~request'.pending
                     /\ CopyFits(n)'
    PROVE  OneIsLive'
<1> SUFFICES ASSUME budget'.mishaps = 0
             PROVE  /\ \A m \in Attempts, k \in Attempts : Live(m)' /\ Live(k)' => m = k
                    /\ \A m \in Attempts : Live(m)' =>
                        /\ request'.workflow = m \/ request'.status \in Terminal
                        /\ ~request'.pending
                        /\ CopyFits(m)'
                        /\ call'.op = "cancel" /\ call'.at = "read" => ~call'.seen.pending
                    /\ call'.op \in {"start"} \cup Responses => Nobody'
                    /\ call'.op = "start" /\ call'.at = "claimed" => request' = call'.seen
                    /\ call'.op = "start" => ~call'.seen.pending
                    /\ request'.pending => request'.status \in Terminal \cup {"NEEDS_HUMAN"}
    BY DEF OneIsLive
<1>1. budget.mishaps = 0
    BY DEF Grows
<1>2. \A m \in Attempts : Live(m)' => Live(m)
    BY DEF Moves, Live
<1>3. \A m \in Attempts \ {n} : CopyFits(m)' <=> CopyFits(m)
    BY DEF Moves, CopyFits
<1>4. /\ \A m \in Attempts, k \in Attempts : Live(m) /\ Live(k) => m = k
      /\ \A m \in Attempts : Live(m) =>
           /\ request.workflow = m \/ request.status \in Terminal
           /\ ~request.pending
           /\ CopyFits(m)
           /\ call.op = "cancel" /\ call.at = "read" => ~call.seen.pending
      /\ call.op \in {"start"} \cup Responses => Nobody
      /\ call.op = "start" /\ call.at = "claimed" => request = call.seen
      /\ call.op = "start" => ~call.seen.pending
      /\ request.pending => request.status \in Terminal \cup {"NEEDS_HUMAN"}
    BY <1>1 DEF IInv, OneIsLive
<1>5. CASE UNCHANGED request /\ (Live(n)' => CopyFits(n)')
    BY <1>2, <1>3, <1>4, <1>5 DEF Nobody
<1>6. CASE /\ Live(n) /\ (Live(n)' \/ request'.status = "NEEDS_HUMAN")
           /\ Live(n)' =>
                /\ request'.workflow = n \/ request'.status \in Terminal
                /\ ~request'.pending
                /\ CopyFits(n)'
    <2>1. \A m \in Attempts : Live(m)' => m = n
        BY <1>2, <1>4, <1>6
    <2>2. call.op \notin {"start"} \cup Responses
        BY <1>4, <1>6 DEF Nobody
    <2> QED
        BY <1>4, <1>6, <2>1, <2>2
<1> QED
    BY <1>5, <1>6

\* A step of a workflow that does not write the row.
LEMMA KeepsTheRow ==
    ASSUME IInv, TypeOK', NEW n \in Attempts, Moves(n), Grows, UNCHANGED <<call, request>>,
           WorkflowFits(n)',
           budget'.mishaps = 0 /\ Live(n)' => Live(n) /\ CopyFits(n)',
           budget'.mishaps = 0 /\ At(n, "prepare", "written") =>
             \E e \in outbox' : e.type = "needs_human"
    PROVE  IInv'
<1>1. CallFits'
    BY DEF IInv, CallFits, Grows
<1>2. RowFits'
    BY DEF IInv, RowFits, StatusStandsOnTheCycle, Grows, Proposed, NewRequest
<1>3. ASSUME NEW m \in Attempts
      PROVE  WorkflowFits(m)'
    BY StaysFit DEF IInv, Moves
<1>4. QuestionsAreTold'
    <2> SUFFICES ASSUME request'.status = "NEEDS_HUMAN", budget'.mishaps = 0
                 PROVE  \/ \E e \in outbox' : e.type = "needs_human"
                        \/ \E m \in Attempts : At(m, "prepare", "written")'
        BY DEF QuestionsAreTold
    <2>1. \/ \E e \in outbox : e.type = "needs_human"
          \/ \E m \in Attempts : At(m, "prepare", "written")
        BY DEF IInv, QuestionsAreTold, Grows
    <2>2. ASSUME NEW m \in Attempts \ {n}, At(m, "prepare", "written")
          PROVE  At(m, "prepare", "written")'
        BY <2>2 DEF At, Moves
    <2> QED
        BY <2>1, <2>2 DEF Grows
<1>5. OneIsLive'
    BY StaysOneLive
<1> QED
    BY <1>1, <1>2, <1>3, <1>4, <1>5 DEF IInv

\* A step of a workflow that writes the row, as somebody who is live.
LEMMA WritesTheRow ==
    ASSUME IInv, TypeOK', NEW n \in Attempts, Moves(n), Grows, UNCHANGED call,
           WorkflowFits(n)', RowFits', Live(n), Live(n)' \/ request'.status = "NEEDS_HUMAN",
           request'.status = "NEEDS_HUMAN" => At(n, "prepare", "written")',
           budget'.mishaps = 0 /\ Live(n)' =>
             /\ request'.workflow = n \/ request'.status \in Terminal
             /\ ~request'.pending
             /\ CopyFits(n)'
    PROVE  IInv'
<1>1. CallFits'
    BY DEF IInv, CallFits, Grows
<1>2. ASSUME NEW m \in Attempts
      PROVE  WorkflowFits(m)'
    BY StaysFit DEF IInv, Moves
<1>3. QuestionsAreTold'
    BY DEF QuestionsAreTold
<1>4. OneIsLive'
    BY StaysOneLive
<1> QED
    BY <1>1, <1>2, <1>3, <1>4 DEF IInv

----------------------------------------------------------------------------
\* The prepare step.

LEMMA ReadRequestIInv ==
    ASSUME IInv, NEW n \in Attempts, ReadRequest(n)
    PROVE  IInv'
<1>1. /\ TypeOK /\ At(n, "prepare", "begun")
      /\ UNCHANGED <<request, intervention, analysis, outbox, cycle, call, budget>>
    BY DEF IInv, ReadRequest, rows, others
<1>2. Grows
    BY <1>1 DEF Grows, Proposed
<1>3. CASE Return(n, "parked")
    <2>1. /\ Moves(n) /\ flows'[n].pc = "prepare" /\ flows'[n].at = "returned"
          /\ flows'[n].next = "parked" /\ flows'[n].seen = NewRequest
        BY <1>1, <1>3, ReturnMoves DEF At
    <2>2. TypeOK'
        BY <1>1, <2>1 DEF TypeOK, Moves
    <2>3. WorkflowFits(n)' /\ ~Live(n)'
        BY <2>1, RowsTyped DEF WorkflowFits, At, Live
    <2>4. ~At(n, "prepare", "written")
        BY <1>1 DEF At
    <2> QED
        BY <1>1, <1>2, <2>1, <2>2, <2>3, <2>4, KeepsTheRow
<1>4. CASE /\ request.status \notin Terminal
           /\ flows' = [flows EXCEPT ![n].at = "read", ![n].seen = request]
    <2>1. /\ Moves(n) /\ flows'[n].pc = "prepare" /\ flows'[n].at = "read"
          /\ flows'[n].seen = request
        <3>1. request \in Request
            BY <1>1 DEF TypeOK
        <3> QED
            BY <1>1, <1>4, <3>1, FlowTyped DEF Moves, Workflows, At, Places
    <2>2. TypeOK'
        BY <1>1, <2>1 DEF TypeOK, Moves
    <2>3. WorkflowFits(n)'
        BY <1>1, <1>2, <2>1 DEF IInv, RowFits, WorkflowFits, At, Grows
    <2>4. Live(n) /\ ~At(n, "prepare", "written")
        BY <1>1 DEF At, Live
    <2>5. budget'.mishaps = 0 => CopyFits(n)'
        BY <1>1, <1>4, <2>1, <2>4 DEF IInv, OneIsLive, CopyFits
    <2> QED
        BY <1>1, <1>2, <2>1, <2>2, <2>3, <2>4, <2>5, KeepsTheRow
<1> QED
    BY <1>3, <1>4 DEF ReadRequest

LEMMA WriteAnalyzingIInv ==
    ASSUME IInv, NEW n \in Attempts, WriteAnalyzing(n)
    PROVE  IInv'
<1>1. /\ TypeOK /\ At(n, "prepare", "read")
      /\ UNCHANGED <<intervention, analysis, outbox, cycle, call, budget>>
      /\ request' = [flows[n].seen EXCEPT !.status = "ANALYZING"]
      /\ flows' = [flows EXCEPT ![n].at = "analyzing", ![n].seen = request']
    BY DEF IInv, WriteAnalyzing, others
<1>2. Grows
    BY <1>1 DEF Grows, Proposed
<1>3. /\ request' \in Request /\ request'.status = "ANALYZING"
      /\ request'.cycle = flows[n].seen.cycle /\ request'.workflow = flows[n].seen.workflow
      /\ request'.pending = flows[n].seen.pending
    BY <1>1, FlowTyped DEF Request, Statuses
<1>4. /\ Moves(n) /\ flows'[n].pc = "prepare" /\ flows'[n].at = "analyzing"
      /\ flows'[n].seen = request'
    BY <1>1, <1>3, FlowTyped DEF Moves, Workflows, At, Places
<1>5. TypeOK'
    BY <1>1, <1>3, <1>4 DEF TypeOK, Moves
<1>6. flows[n].seen.cycle => Proposed'
    BY <1>2 DEF IInv, WorkflowFits, Grows
<1>7. RowFits'
    BY <1>3, <1>6 DEF RowFits, StatusStandsOnTheCycle
<1>8. WorkflowFits(n)'
    BY <1>3, <1>4, <1>6 DEF WorkflowFits, At
<1>9. Live(n) /\ Live(n)'
    BY <1>1, <1>4 DEF At, Live
<1>10. budget'.mishaps = 0 => /\ request'.workflow = n /\ ~request'.pending
                             /\ CopyFits(n)'
    BY <1>1, <1>3, <1>4, <1>9 DEF IInv, OneIsLive, CopyFits, Copying, At
<1> QED
    BY <1>2, <1>3, <1>4, <1>5, <1>7, <1>8, <1>9, <1>10, <1>1, WritesTheRow

\* A step of prepare that holds on to its copy of the row.
LEMMA KeepsItsCopy ==
    ASSUME IInv, NEW n \in Attempts, flows[n].pc = "prepare", flows[n].at \in Copying,
           flows'[n].pc = "prepare", flows'[n].seen = flows[n].seen, flows'[n].at \in Copying,
           budget'.mishaps = 0 => budget.mishaps = 0
    PROVE  /\ Live(n)
           /\ budget'.mishaps = 0 => CopyFits(n)'
           /\ ~At(n, "prepare", "written")
<1>1. Live(n) /\ ~At(n, "prepare", "written")
    BY DEF Live, Copying, At
<1> QED
    BY <1>1 DEF IInv, OneIsLive, CopyFits

LEMMA AnalyseIInv ==
    ASSUME IInv, NEW n \in Attempts, Analyse(n)
    PROVE  IInv'
<1>1. /\ TypeOK /\ At(n, "prepare", "analyzing")
      /\ UNCHANGED <<request, intervention, outbox, cycle, call, budget>>
      /\ Goto(n, "asking") \/ Goto(n, "creating")
      /\ analysis' \in {"none", "actionable", "ambiguous"}
    BY DEF IInv, Analyse, Analysed, others, TypeOK
<1>2. Grows
    BY <1>1 DEF Grows, Proposed
<1>3. /\ Moves(n) /\ flows'[n].pc = "prepare" /\ flows'[n].at \in {"asking", "creating"}
      /\ flows'[n].seen = flows[n].seen
    BY <1>1, GotoMoves DEF At, Places
<1>4. TypeOK'
    BY <1>1, <1>3 DEF TypeOK, Moves
<1>5. WorkflowFits(n)'
    BY <1>2, <1>3 DEF IInv, WorkflowFits, At, Grows
<1>6. /\ Live(n)
      /\ budget'.mishaps = 0 => CopyFits(n)'
      /\ ~At(n, "prepare", "written")
    BY <1>1, <1>3, KeepsItsCopy DEF At, Copying
<1> QED
    BY <1>1, <1>2, <1>3, <1>4, <1>5, <1>6, KeepsTheRow

LEMMA CreateCycleIInv ==
    ASSUME IInv, NEW n \in Attempts, CreateCycle(n)
    PROVE  IInv'
<1>1. /\ TypeOK /\ At(n, "prepare", "creating") /\ cycle \in CycleStages
      /\ UNCHANGED <<request, intervention, analysis, outbox, call, budget>>
      /\ flows[n].seen.cycle => Proposed
    BY DEF IInv, CreateCycle, rows, others, TypeOK, WorkflowFits
<1>2. Live(n) /\ ~At(n, "prepare", "written")
    BY <1>1 DEF At, Live
<1>3. CASE Raise(n) /\ UNCHANGED cycle
    <2>1. /\ Moves(n) /\ flows'[n].pc = "prepare" /\ flows'[n].seen = NewRequest
          /\ \/ flows'[n].at = "begun"
             \/ flows'[n].at = "returned" /\ flows'[n].next = "failed"
        BY <1>1, <1>3, RaiseMoves DEF At
    <2>2. Grows
        BY <1>1, <1>3 DEF Grows, Proposed
    <2>3. TypeOK'
        BY <1>1, <1>3, <2>1 DEF TypeOK, Moves
    <2>4. WorkflowFits(n)' /\ CopyFits(n)'
        BY <2>1, RowsTyped DEF WorkflowFits, At, CopyFits, Copying
    <2> QED
        BY <1>1, <1>2, <2>1, <2>2, <2>3, <2>4, KeepsTheRow
<1>4. ASSUME NEW stage \in CycleStages, cycle' = stage, stage # "absent",
             flows' = [flows EXCEPT ![n].at = "created", ![n].cycle = stage],
             \/ stage = "NEW" /\ cycle = "absent"
             \/ UNCHANGED cycle /\ Proposed
      PROVE  IInv'
    <2>1. /\ Moves(n) /\ flows'[n].pc = "prepare" /\ flows'[n].at = "created"
          /\ flows'[n].cycle = stage /\ flows'[n].seen = flows[n].seen
        BY <1>1, <1>4, FlowTyped DEF Moves, Workflows, At, Places
    <2>2. Grows
        BY <1>1, <1>4 DEF Grows, Proposed
    <2>3. TypeOK'
        BY <1>1, <1>4, <2>1 DEF TypeOK, Moves
    <2>4. WorkflowFits(n)'
        BY <1>1, <1>4, <2>1, <2>2 DEF WorkflowFits, At, Grows, Proposed
    <2>5. budget'.mishaps = 0 => CopyFits(n)'
        BY <1>1, <2>1, KeepsItsCopy DEF At, Copying
    <2> QED
        BY <1>1, <1>2, <2>1, <2>2, <2>3, <2>4, <2>5, KeepsTheRow
<1>5. CASE /\ flows[n].seen.cycle /\ UNCHANGED cycle
           /\ flows' = [flows EXCEPT ![n].at = "created", ![n].cycle = cycle]
    <2>1. Proposed /\ cycle' = cycle /\ cycle # "absent"
        BY <1>1, <1>5 DEF Proposed
    <2> QED
        BY <1>1, <1>4, <1>5, <2>1
<1>6. CASE /\ cycle = "absent" /\ cycle' = "NEW"
           /\ flows' = [flows EXCEPT ![n].at = "created", ![n].cycle = "NEW"]
    BY <1>4, <1>6 DEF CycleStages
<1> QED
    BY <1>3, <1>5, <1>6 DEF CreateCycle

LEMMA MoveCycleIInv ==
    ASSUME IInv, NEW n \in Attempts, MoveCycle(n)
    PROVE  IInv'
<1>1. /\ TypeOK /\ At(n, "prepare", "created") /\ cycle \in CycleStages
      /\ UNCHANGED <<request, intervention, analysis, outbox, call, budget>>
      /\ flows[n].seen.cycle => Proposed
      /\ flows[n].cycle # "absent"
      /\ flows[n].cycle \notin {"NEW", "BASELINE_VERIFIED"} => Proposed
    BY DEF IInv, MoveCycle, rows, others, TypeOK, WorkflowFits
<1>2. Live(n) /\ ~At(n, "prepare", "written")
    BY <1>1 DEF At, Live
<1>3. CASE Raise(n) /\ UNCHANGED cycle
    <2>1. /\ Moves(n) /\ flows'[n].pc = "prepare" /\ flows'[n].seen = NewRequest
          /\ \/ flows'[n].at = "begun"
             \/ flows'[n].at = "returned" /\ flows'[n].next = "failed"
        BY <1>1, <1>3, RaiseMoves DEF At
    <2>2. Grows
        BY <1>1, <1>3 DEF Grows, Proposed
    <2>3. TypeOK'
        BY <1>1, <1>3, <2>1 DEF TypeOK, Moves
    <2>4. WorkflowFits(n)' /\ CopyFits(n)'
        BY <2>1, RowsTyped DEF WorkflowFits, At, CopyFits, Copying
    <2> QED
        BY <1>1, <1>2, <2>1, <2>2, <2>3, <2>4, KeepsTheRow
<1>4. CASE /\ flows[n].cycle \notin {"NEW", "BASELINE_VERIFIED"} /\ UNCHANGED cycle
           /\ flows' = [flows EXCEPT ![n].at = "proposed", ![n].cycle = "absent"]
    <2>1. /\ Moves(n) /\ flows'[n].pc = "prepare" /\ flows'[n].at = "proposed"
          /\ flows'[n].seen = flows[n].seen
        BY <1>1, <1>4, FlowTyped DEF Moves, Workflows, At, Places, CycleStages
    <2>2. Grows
        BY <1>1, <1>4 DEF Grows, Proposed
    <2>3. TypeOK'
        BY <1>1, <1>4, <2>1 DEF TypeOK, Moves
    <2>4. WorkflowFits(n)'
        BY <1>1, <1>4, <2>1, <2>2 DEF WorkflowFits, At, Grows
    <2>5. budget'.mishaps = 0 => CopyFits(n)'
        BY <1>1, <2>1, KeepsItsCopy DEF At, Copying
    <2> QED
        BY <1>1, <1>2, <2>1, <2>2, <2>3, <2>4, <2>5, KeepsTheRow
<1>5. CASE /\ flows[n].cycle \in {"NEW", "BASELINE_VERIFIED"} /\ flows[n].cycle = cycle
           /\ cycle' = IF cycle = "NEW" THEN "BASELINE_VERIFIED" ELSE "CHANGE_PROPOSED"
           /\ flows' = [flows EXCEPT ![n].cycle = cycle']
    <2>1. cycle' \in {"BASELINE_VERIFIED", "CHANGE_PROPOSED"} /\ cycle' \in CycleStages
        BY <1>5 DEF CycleStages
    <2>2. /\ Moves(n) /\ flows'[n].pc = "prepare" /\ flows'[n].at = "created"
          /\ flows'[n].cycle = cycle' /\ flows'[n].seen = flows[n].seen
        BY <1>1, <1>5, <2>1, FlowTyped DEF Moves, Workflows, At
    <2>3. Grows
        BY <1>1, <1>5, <2>1 DEF Grows, Proposed
    <2>4. TypeOK'
        BY <1>1, <2>1, <2>2 DEF TypeOK, Moves
    <2>5. WorkflowFits(n)'
        BY <1>1, <2>1, <2>2, <2>3 DEF WorkflowFits, At, Grows, Proposed
    <2>6. budget'.mishaps = 0 => CopyFits(n)'
        BY <1>1, <2>2, KeepsItsCopy DEF At, Copying
    <2> QED
        BY <1>1, <1>2, <2>2, <2>3, <2>4, <2>5, <2>6, KeepsTheRow
<1> QED
    BY <1>3, <1>4, <1>5 DEF MoveCycle

LEMMA WriteRunningIInv ==
    ASSUME IInv, NEW n \in Attempts, WriteRunning(n)
    PROVE  IInv'
<1>1. /\ TypeOK /\ At(n, "prepare", "proposed")
      /\ UNCHANGED <<intervention, analysis, outbox, cycle, call, budget>>
      /\ request' = [flows[n].seen EXCEPT !.status = "RUNNING", !.cycle = TRUE, !.pending = FALSE]
      /\ flows' = [flows EXCEPT ![n].at = "running", ![n].seen = NewRequest]
    BY DEF IInv, WriteRunning, others
<1>2. Grows /\ Proposed'
    BY <1>1 DEF Grows, IInv, WorkflowFits, Proposed
<1>3. /\ request' \in Request /\ request'.status = "RUNNING" /\ request'.cycle
      /\ request'.workflow = flows[n].seen.workflow /\ ~request'.pending
    BY <1>1, FlowTyped DEF Request, Statuses
<1>4. /\ Moves(n) /\ flows'[n].pc = "prepare" /\ flows'[n].at = "running"
      /\ flows'[n].seen = NewRequest
    BY <1>1, RowsTyped, FlowTyped DEF Moves, Workflows, At, Places
<1>5. TypeOK'
    BY <1>1, <1>3, <1>4 DEF TypeOK, Moves
<1>6. RowFits'
    BY <1>2, <1>3 DEF RowFits, StatusStandsOnTheCycle, Proposed
<1>7. WorkflowFits(n)' /\ CopyFits(n)'
    BY <1>4, RowsTyped DEF WorkflowFits, At, CopyFits, Copying
<1>8. Live(n) /\ Live(n)'
    BY <1>1, <1>4 DEF At, Live
<1>9. budget'.mishaps = 0 => request'.workflow = n
    BY <1>1, <1>3, <1>8 DEF IInv, OneIsLive, CopyFits, Copying, At
<1> QED
    BY <1>1, <1>2, <1>3, <1>4, <1>5, <1>6, <1>7, <1>8, <1>9, WritesTheRow

LEMMA TellStartedIInv ==
    ASSUME IInv, NEW n \in Attempts, TellStarted(n)
    PROVE  IInv'
<1>1. /\ TypeOK /\ At(n, "prepare", "running")
      /\ UNCHANGED <<request, intervention, analysis, cycle, call, budget>>
      /\ outbox' = outbox \cup {Event("development_started")}
      /\ Return(n, "execute")
    BY DEF IInv, TellStarted, rows, others, Emit
<1>2. Grows
    BY <1>1 DEF Grows, Proposed
<1>3. /\ Moves(n) /\ flows'[n].pc = "prepare" /\ flows'[n].at = "returned"
      /\ flows'[n].next = "execute" /\ flows'[n].seen = NewRequest
    BY <1>1, ReturnMoves DEF At
<1>4. TypeOK'
    <2>1. Event("development_started") \in Events
        BY EventsTyped DEF EventTypes
    <2> QED
        BY <1>1, <1>3, <2>1 DEF TypeOK, Moves
<1>5. WorkflowFits(n)' /\ CopyFits(n)'
    BY <1>1, <1>3, RowsTyped DEF WorkflowFits, At, CopyFits, Copying, Event
<1>6. Live(n) /\ ~At(n, "prepare", "written")
    BY <1>1 DEF At, Live
<1> QED
    BY <1>1, <1>2, <1>3, <1>4, <1>5, <1>6, KeepsTheRow

LEMMA AskIInv ==
    ASSUME IInv, NEW n \in Attempts, Ask(n)
    PROVE  IInv'
<1>1. /\ TypeOK /\ At(n, "prepare", "asking") /\ Goto(n, "asked")
      /\ UNCHANGED <<request, analysis, outbox, cycle, call, budget>>
    BY DEF IInv, Ask, others
<1>2. /\ intervention' \in [status : {"none", "OPEN", "RESPONDED"}, answer : Answers]
      /\ intervention'.status # "none"
    BY <1>1 DEF Ask, TypeOK
<1>3. Grows
    BY <1>1, <1>2 DEF Grows, Proposed
<1>4. /\ Moves(n) /\ flows'[n].pc = "prepare" /\ flows'[n].at = "asked"
      /\ flows'[n].seen = flows[n].seen
    BY <1>1, GotoMoves DEF At, Places
<1>5. TypeOK'
    BY <1>1, <1>2, <1>4 DEF TypeOK, Moves
<1>6. WorkflowFits(n)'
    BY <1>2, <1>3, <1>4 DEF IInv, WorkflowFits, At, Grows
<1>7. /\ Live(n)
      /\ budget'.mishaps = 0 => CopyFits(n)'
      /\ ~At(n, "prepare", "written")
    BY <1>1, <1>4, KeepsItsCopy DEF At, Copying
<1> QED
    BY <1>1, <1>3, <1>4, <1>5, <1>6, <1>7, KeepsTheRow

LEMMA WriteNeedsHumanIInv ==
    ASSUME IInv, NEW n \in Attempts, WriteNeedsHuman(n)
    PROVE  IInv'
<1>1. /\ TypeOK /\ At(n, "prepare", "asked")
      /\ UNCHANGED <<intervention, analysis, outbox, cycle, call, budget>>
      /\ request' = [flows[n].seen EXCEPT !.status = "NEEDS_HUMAN", !.pending = TRUE,
                                          !.workflow = 0]
      /\ flows' = [flows EXCEPT ![n].at = "written", ![n].seen = NewRequest]
    BY DEF IInv, WriteNeedsHuman, others
<1>2. Grows
    BY <1>1 DEF Grows, Proposed
<1>3. /\ request' \in Request /\ request'.status = "NEEDS_HUMAN"
      /\ request'.cycle = flows[n].seen.cycle /\ request'.pending
    <2>1. flows[n].seen \in Request /\ 0 \in 0 .. MaxWorkflows
        BY <1>1, ConstantsTyped, FlowTyped
    <2> QED
        BY <1>1, <2>1 DEF Request, Statuses
<1>4. /\ Moves(n) /\ flows'[n].pc = "prepare" /\ flows'[n].at = "written"
      /\ flows'[n].seen = NewRequest
    BY <1>1, RowsTyped, FlowTyped DEF Moves, Workflows, At, Places
<1>5. TypeOK'
    BY <1>1, <1>3, <1>4 DEF TypeOK, Moves
<1>6. (flows[n].seen.cycle => Proposed') /\ intervention'.status # "none"
    BY <1>1, <1>2 DEF IInv, WorkflowFits, Grows
<1>7. RowFits'
    BY <1>3, <1>6 DEF RowFits, StatusStandsOnTheCycle
<1>8. WorkflowFits(n)' /\ ~Live(n)' /\ At(n, "prepare", "written")'
    BY <1>4, RowsTyped DEF WorkflowFits, At, Live
<1>9. Live(n)
    BY <1>1 DEF At, Live
<1> QED
    BY <1>1, <1>2, <1>3, <1>4, <1>5, <1>7, <1>8, <1>9, WritesTheRow

LEMMA TellNeedsHumanIInv ==
    ASSUME IInv, NEW n \in Attempts, TellNeedsHuman(n)
    PROVE  IInv'
<1>1. /\ TypeOK /\ At(n, "prepare", "written")
      /\ UNCHANGED <<request, intervention, analysis, cycle, call, budget>>
      /\ outbox' = outbox \cup {Event("needs_human")}
      /\ Return(n, "parked")
    BY DEF IInv, TellNeedsHuman, rows, others, Emit
<1>2. Grows
    BY <1>1 DEF Grows, Proposed
<1>3. /\ Moves(n) /\ flows'[n].pc = "prepare" /\ flows'[n].at = "returned"
      /\ flows'[n].next = "parked" /\ flows'[n].seen = NewRequest
    BY <1>1, ReturnMoves DEF At
<1>4. Event("needs_human") \in Events /\ Event("needs_human").type = "needs_human"
    BY EventsTyped DEF EventTypes
<1>5. TypeOK'
    BY <1>1, <1>3, <1>4 DEF TypeOK, Moves
<1>6. WorkflowFits(n)' /\ ~Live(n)'
    BY <1>3, RowsTyped DEF WorkflowFits, At, Live
<1> QED
    BY <1>1, <1>2, <1>3, <1>4, <1>5, <1>6, KeepsTheRow

LEMMA PrepareIInv ==
    ASSUME IInv, NEW n \in Attempts, Prepare(n)
    PROVE  IInv'
    BY ReadRequestIInv, WriteAnalyzingIInv, AnalyseIInv, CreateCycleIInv, MoveCycleIInv,
       WriteRunningIInv, TellStartedIInv, AskIInv, WriteNeedsHumanIInv, TellNeedsHumanIInv
    DEF Prepare

----------------------------------------------------------------------------
\* The execution, and the step that finishes the request.

\* A step of an execution that has been announced, or of one that is finished.
LEMMA Announced ==
    ASSUME IInv, NEW n \in Attempts, flows[n].pc \in {"execute", "finish"}
    PROVE  /\ Event("development_started") \in outbox
           /\ Live(n) /\ ~At(n, "prepare", "written")
           /\ flows[n].pc = "finish" => cycle = "ended"
    BY DEF IInv, WorkflowFits, Live, At

LEMMA DevelopIInv ==
    ASSUME IInv, NEW n \in Attempts, Develop(n)
    PROVE  IInv'
<1>1. /\ TypeOK /\ flows[n].pc = "execute"
      /\ UNCHANGED <<request, intervention, analysis, outbox, call, budget>>
      /\ flows[n].seen.cycle => Proposed
    BY DEF IInv, Develop, At, rows, others, WorkflowFits
<1>2. /\ Event("development_started") \in outbox
      /\ Live(n) /\ ~At(n, "prepare", "written")
    BY <1>1, Announced
<1>3. Grows /\ cycle' \in CycleStages
    BY <1>1 DEF Develop, Grows, Proposed, CycleStages, TypeOK
<1>4. /\ Moves(n) /\ flows'[n].pc = "execute"
      /\ \/ flows'[n].at = "developing" /\ flows'[n].seen = flows[n].seen
         \/ flows'[n].at = "returned" /\ flows'[n].next = "failed" /\ flows'[n].seen = NewRequest
    <2>1. CASE Goto(n, "developing")
        BY <1>1, <2>1, GotoMoves DEF Places
    <2>2. CASE Return(n, "failed")
        BY <1>1, <2>2, ReturnMoves
    <2> QED
        BY <2>1, <2>2 DEF Develop
<1>5. TypeOK'
    BY <1>1, <1>3, <1>4 DEF TypeOK, Moves
<1>6. WorkflowFits(n)' /\ CopyFits(n)'
    BY <1>1, <1>2, <1>3, <1>4, RowsTyped DEF WorkflowFits, At, Grows, CopyFits, Event
<1> QED
    BY <1>1, <1>2, <1>3, <1>4, <1>5, <1>6, KeepsTheRow

LEMMA EndDevelopmentIInv ==
    ASSUME IInv, NEW n \in Attempts, EndDevelopment(n)
    PROVE  IInv'
<1>1. /\ TypeOK /\ flows[n].pc = "execute"
      /\ UNCHANGED <<request, intervention, analysis, outbox, call, budget>>
      /\ flows[n].seen.cycle => Proposed
    BY DEF IInv, EndDevelopment, At, rows, others, WorkflowFits
<1>2. /\ Event("development_started") \in outbox
      /\ Live(n) /\ ~At(n, "prepare", "written")
    BY <1>1, Announced
<1>3. Grows /\ cycle' \in CycleStages
    BY <1>1 DEF EndDevelopment, Grows, Proposed, CycleStages, TypeOK
<1>4. /\ Moves(n)
      /\ \/ /\ flows'[n].pc = "execute" /\ flows'[n].at = "returned"
            /\ flows'[n].next = "failed" /\ flows'[n].seen = NewRequest
         \/ /\ flows'[n].pc = "finish" /\ flows'[n].at = "begun"
            /\ flows'[n].seen = flows[n].seen /\ cycle' = "ended"
    <2>1. CASE Return(n, "failed")
        BY <1>1, <2>1, ReturnMoves
    <2>2. CASE /\ cycle' = "ended"
               /\ \E outcome \in Outcomes :
                    flows' = [flows EXCEPT ![n] = [@ EXCEPT !.pc = "finish", !.at = "begun",
                                                            !.outcome = outcome]]
        <3>1. PICK outcome \in Outcomes :
                flows' = [flows EXCEPT ![n] = [flows[n] EXCEPT !.pc = "finish", !.at = "begun",
                                                               !.outcome = outcome]]
            BY <2>2
        <3>2. [flows[n] EXCEPT !.pc = "finish", !.at = "begun", !.outcome = outcome] \in Workflows
            BY <1>1, FlowTyped DEF Workflows, Places
        <3> QED
            BY <1>1, <2>2, <3>1, <3>2, FlowTyped DEF Moves, Workflows
    <2> QED
        BY <2>1, <2>2 DEF EndDevelopment
<1>5. TypeOK'
    BY <1>1, <1>3, <1>4 DEF TypeOK, Moves
<1>6. WorkflowFits(n)' /\ CopyFits(n)' /\ (Live(n)' => Live(n))
    BY <1>1, <1>2, <1>3, <1>4, RowsTyped DEF WorkflowFits, At, Grows, CopyFits, Event
<1> QED
    BY <1>1, <1>2, <1>3, <1>4, <1>5, <1>6, KeepsTheRow

LEMMA ReadFinishedIInv ==
    ASSUME IInv, NEW n \in Attempts, ReadFinished(n)
    PROVE  IInv'
<1>1. /\ TypeOK /\ flows[n].pc = "finish" /\ request \in Request
      /\ UNCHANGED <<request, intervention, analysis, outbox, cycle, call, budget>>
      /\ request.cycle => Proposed
      /\ flows' = [flows EXCEPT ![n].at = "read", ![n].seen = request]
    BY DEF IInv, ReadFinished, At, rows, others, RowFits, TypeOK
<1>2. /\ Event("development_started") \in outbox
      /\ Live(n) /\ ~At(n, "prepare", "written")
      /\ cycle = "ended"
    BY <1>1, Announced
<1>3. Grows
    BY <1>1 DEF Grows, Proposed
<1>4. /\ Moves(n) /\ flows'[n].pc = "finish" /\ flows'[n].at = "read"
      /\ flows'[n].seen = request
    BY <1>1, FlowTyped DEF Moves, Workflows, Places
<1>5. TypeOK'
    BY <1>1, <1>4 DEF TypeOK, Moves
<1>6. WorkflowFits(n)'
    BY <1>1, <1>2, <1>3, <1>4 DEF WorkflowFits, At, Grows, Event
<1>7. budget'.mishaps = 0 => CopyFits(n)'
    BY <1>1, <1>2, <1>4 DEF IInv, OneIsLive, CopyFits
<1> QED
    BY <1>1, <1>2, <1>3, <1>4, <1>5, <1>6, <1>7, KeepsTheRow

LEMMA WriteFinishedIInv ==
    ASSUME IInv, NEW n \in Attempts, WriteFinished(n)
    PROVE  IInv'
<1>1. /\ TypeOK /\ flows[n].pc = "finish" /\ flows[n].at = "read"
      /\ UNCHANGED <<intervention, analysis, outbox, cycle, call, budget>>
      /\ request' = [flows[n].seen EXCEPT !.status = flows[n].outcome, !.workflow = 0]
      /\ flows' = [flows EXCEPT ![n].at = "written", ![n].seen = NewRequest]
    BY DEF IInv, WriteFinished, At, others
<1>2. /\ Event("development_started") \in outbox
      /\ Live(n) /\ cycle = "ended"
    BY <1>1, Announced
<1>3. Grows
    BY <1>1 DEF Grows, Proposed
<1>4. /\ request' \in Request /\ request'.status \in Terminal
      /\ request'.cycle = flows[n].seen.cycle /\ request'.pending = flows[n].seen.pending
    <2>1. flows[n].seen \in Request /\ 0 \in 0 .. MaxWorkflows /\ flows[n].outcome \in Terminal
        BY <1>1, ConstantsTyped, FlowTyped
    <2> QED
        BY <1>1, <2>1 DEF Request, Statuses
<1>5. /\ Moves(n) /\ flows'[n].pc = "finish" /\ flows'[n].at = "written"
      /\ flows'[n].seen = NewRequest
    BY <1>1, RowsTyped, FlowTyped DEF Moves, Workflows, Places
<1>6. TypeOK'
    BY <1>1, <1>4, <1>5 DEF TypeOK, Moves
<1>7. RowFits'
    BY <1>1, <1>2, <1>4 DEF RowFits, StatusStandsOnTheCycle, Terminal, Proposed
<1>8. WorkflowFits(n)' /\ CopyFits(n)'
    BY <1>1, <1>2, <1>5, RowsTyped DEF WorkflowFits, At, CopyFits, Event
<1>9. budget'.mishaps = 0 => ~request'.pending
    BY <1>1, <1>2, <1>4 DEF IInv, OneIsLive, CopyFits
<1>10. request'.status # "NEEDS_HUMAN" /\ Live(n)'
    BY <1>4, <1>5 DEF Terminal, Live
<1> QED
    BY <1>1, <1>2, <1>3, <1>4, <1>5, <1>6, <1>7, <1>8, <1>9, <1>10, WritesTheRow

LEMMA TellFinishedIInv ==
    ASSUME IInv, NEW n \in Attempts, TellFinished(n)
    PROVE  IInv'
<1>1. /\ TypeOK /\ flows[n].pc = "finish"
      /\ UNCHANGED <<request, intervention, analysis, cycle, call, budget>>
    BY DEF IInv, TellFinished, At, rows, others
<1>2. /\ Event("development_started") \in outbox
      /\ Live(n) /\ ~At(n, "prepare", "written") /\ cycle = "ended"
    BY <1>1, Announced
<1> DEFINE event == [Event(flows[n].outcome) EXCEPT !.by = n]
<1>3. event \in Events /\ event.type = flows[n].outcome
    BY <1>1, FlowTyped, EventsTyped, ConstantsTyped DEF EventTypes, Attempts
<1>4. \/ Raise(n) /\ UNCHANGED outbox
      \/ outbox' = outbox \cup {event} /\ Return(n, "finished")
    BY DEF TellFinished
<1> HIDE DEF event
<1>5. Grows
    BY <1>1, <1>4 DEF Grows, Proposed
<1>6. /\ Moves(n) /\ flows'[n].pc = "finish" /\ flows'[n].at = "returned"
      /\ flows'[n].seen = NewRequest
      /\ \/ flows'[n].next = "failed"
         \/ /\ flows'[n].next = "finished" /\ flows'[n].outcome = flows[n].outcome
            /\ event \in outbox'
    <2>1. CASE Raise(n)
        BY <1>1, <2>1, RaiseMoves
    <2>2. CASE outbox' = outbox \cup {event} /\ Return(n, "finished")
        BY <1>1, <2>2, ReturnMoves
    <2> QED
        BY <1>4, <2>1, <2>2
<1>7. TypeOK'
    BY <1>1, <1>3, <1>4, <1>6 DEF TypeOK, Moves
<1>8. WorkflowFits(n)' /\ CopyFits(n)'
    BY <1>1, <1>2, <1>3, <1>5, <1>6, RowsTyped DEF WorkflowFits, At, CopyFits, Event, Grows
<1> QED
    BY <1>1, <1>2, <1>5, <1>6, <1>7, <1>8, KeepsTheRow

LEMMA RecordIInv ==
    ASSUME IInv, NEW n \in Attempts, Record(n)
    PROVE  IInv'
<1>1. /\ TypeOK /\ flows[n].at = "returned"
      /\ UNCHANGED <<request, intervention, analysis, outbox, cycle, call, budget>>
    BY DEF IInv, Record, rows, others
<1>2. Grows
    BY <1>1 DEF Grows, Proposed
<1> DEFINE w == [NoFlow EXCEPT !.pc = flows[n].next, !.outcome = flows[n].outcome]
<1>3. /\ w \in Workflows /\ w.pc = flows[n].next /\ w.outcome = flows[n].outcome
      /\ w.at = "begun" /\ w.seen = NewRequest
    BY <1>1, NoFlowTyped, FlowTyped DEF Workflows
<1>4. flows' = [flows EXCEPT ![n] = w]
    BY DEF Record
<1> HIDE DEF w
<1>5. /\ Moves(n) /\ flows'[n].pc = flows[n].next /\ flows'[n].outcome = flows[n].outcome
      /\ flows'[n].at = "begun" /\ flows'[n].seen = NewRequest
    BY <1>1, <1>3, <1>4, FlowTyped DEF Moves
<1>6. TypeOK'
    BY <1>1, <1>5 DEF TypeOK, Moves
<1>7. WorkflowFits(n) /\ flows[n].next \in {"execute", "parked", "failed", "finished"}
    BY <1>1 DEF IInv, WorkflowFits
<1>8. (flows[n].next = "finished" => flows[n].pc = "finish")
      /\ (flows[n].next = "execute" => flows[n].pc = "prepare")
    BY <1>1, <1>7 DEF WorkflowFits
<1>9. WorkflowFits(n)' /\ CopyFits(n)'
    BY <1>1, <1>5, <1>7, <1>8, RowsTyped DEF WorkflowFits, At, CopyFits, Event
<1>10. (Live(n)' => Live(n)) /\ ~At(n, "prepare", "written")
    BY <1>1, <1>5, <1>7, <1>8 DEF Live, At
<1> QED
    BY <1>1, <1>2, <1>5, <1>6, <1>9, <1>10, KeepsTheRow

LEMMA FlowIInv ==
    ASSUME IInv, NEW n \in Attempts, Flow(n)
    PROVE  IInv'
    BY PrepareIInv, DevelopIInv, EndDevelopmentIInv, ReadFinishedIInv, WriteFinishedIInv,
       TellFinishedIInv, RecordIInv
    DEF Flow, Execute, Finish

----------------------------------------------------------------------------
\* Mishaps.

LEMMA MishapTyped ==
    ASSUME TypeOK, Spare, budget' = Mishap
    PROVE  /\ budget' \in [mishaps : 0 .. MaxDisturbances, cancels : 0 .. MaxDisturbances]
           /\ budget'.mishaps + budget'.cancels <= MaxDisturbances
           /\ budget'.mishaps # 0
<1>1. /\ budget \in [mishaps : 0 .. MaxDisturbances, cancels : 0 .. MaxDisturbances]
      /\ budget' = [budget EXCEPT !.mishaps = budget.mishaps + 1]
      /\ budget.mishaps + budget.cancels < MaxDisturbances
    BY DEF TypeOK, Mishap, Spare
<1>2. budget.mishaps \in Nat /\ budget.cancels \in Nat
    BY <1>1
<1>3. budget'.mishaps = budget.mishaps + 1 /\ budget'.cancels = budget.cancels
    BY <1>1
<1>4. budget.mishaps + 1 \in 0 .. MaxDisturbances
    BY <1>1, <1>2, ConstantsTyped
<1> QED
    BY <1>1, <1>2, <1>3, <1>4, ConstantsTyped

LEMMA FailIInv ==
    ASSUME IInv, NEW n \in Attempts, Fail(n)
    PROVE  IInv'
<1>1. /\ TypeOK /\ flows[n].pc \in {"prepare", "finish"} /\ Spare /\ budget' = Mishap
      /\ UNCHANGED <<request, intervention, analysis, outbox, cycle, call>> /\ Raise(n)
    BY DEF IInv, Fail, rows
<1>2. /\ Moves(n) /\ flows'[n].pc = flows[n].pc /\ flows'[n].seen = NewRequest
      /\ \/ flows'[n].at = "begun"
         \/ flows'[n].at = "returned" /\ flows'[n].next = "failed"
    BY <1>1, RaiseMoves
<1>3. budget'.mishaps # 0 /\ TypeOK'
    BY <1>1, <1>2, MishapTyped DEF TypeOK, Moves
<1>4. Grows
    BY <1>1, <1>3 DEF Grows, Proposed
<1>5. WorkflowFits(n)'
    BY <1>1, <1>2, Announced, RowsTyped DEF WorkflowFits, At, Event
<1> QED
    BY <1>1, <1>2, <1>3, <1>4, <1>5, KeepsTheRow

LEMMA RestartIInv == IInv /\ Restart => IInv'
<1> SUFFICES ASSUME IInv, Restart
             PROVE  IInv'
    OBVIOUS
<1>1. /\ TypeOK /\ Spare /\ budget' = Mishap /\ call' = Idle
      /\ UNCHANGED <<request, intervention, analysis, outbox, cycle>>
    BY DEF IInv, Restart, rows
<1>2. ASSUME NEW n \in Attempts
      PROVE  /\ flows'[n] \in Workflows
             /\ \/ flows'[n] = flows[n]
                \/ /\ flows'[n].pc = flows[n].pc /\ flows'[n].pc \in {"prepare", "finish"}
                   /\ flows'[n].at = "begun" /\ flows'[n].seen = NewRequest
    <2> DEFINE w == [NoFlow EXCEPT !.pc = flows[n].pc, !.outcome = flows[n].outcome]
    <2>1. w \in Workflows /\ w.pc = flows[n].pc /\ w.at = "begun" /\ w.seen = NewRequest
        BY <1>1, NoFlowTyped, FlowTyped DEF Workflows
    <2>2. flows'[n] = IF flows[n].pc \in {"prepare", "finish"} THEN w ELSE flows[n]
        BY DEF Restart
    <2> HIDE DEF w
    <2> QED
        BY <1>1, <2>1, <2>2, FlowTyped
<1>3. flows' \in [Attempts -> Workflows]
    BY <1>2 DEF Restart
<1>4. budget'.mishaps # 0 /\ TypeOK'
    BY <1>1, <1>3, MishapTyped, RowsTyped DEF TypeOK
<1>5. Grows
    BY <1>1, <1>4 DEF Grows, Proposed
<1>6. ASSUME NEW n \in Attempts
      PROVE  WorkflowFits(n)'
    <2>1. CASE flows'[n] = flows[n]
        BY <1>5, <2>1, StaysFit DEF IInv
    <2>2. CASE /\ flows'[n].pc = flows[n].pc /\ flows'[n].pc \in {"prepare", "finish"}
               /\ flows'[n].at = "begun" /\ flows'[n].seen = NewRequest
        BY <1>1, <2>2, Announced, RowsTyped DEF WorkflowFits, At, Event
    <2> QED
        BY <1>2, <2>1, <2>2
<1>7. CallFits' /\ RowFits'
    BY <1>1, <1>5, RowsTyped
    DEF CallFits, Responses, IInv, RowFits, StatusStandsOnTheCycle, Grows, Proposed, NewRequest
<1>8. QuestionsAreTold' /\ OneIsLive'
    BY <1>4 DEF QuestionsAreTold, OneIsLive
<1> QED
    BY <1>4, <1>6, <1>7, <1>8 DEF IInv

----------------------------------------------------------------------------
\* The handlers.

\* A step of a handler, which lets the workflows be.
LEMMA HandlesWell ==
    ASSUME IInv, TypeOK', Grows, UNCHANGED flows, CallFits',
           \/ UNCHANGED request
           \/ /\ request'.cycle => Proposed'
              /\ request'.status \in {"RECEIVED", "READY", "CANCELLED"},
           budget'.mishaps = 0 =>
             /\ \A n \in Attempts : Live(n) =>
                  /\ request'.workflow = n \/ request'.status \in Terminal
                  /\ ~request'.pending
                  /\ call'.op = "cancel" /\ call'.at = "read" => ~call'.seen.pending
             /\ call'.op \in {"start"} \cup Responses => Nobody
             /\ call'.op = "start" /\ call'.at = "claimed" => request' = call'.seen
             /\ call'.op = "start" => ~call'.seen.pending
             /\ request'.pending => request'.status \in Terminal \cup {"NEEDS_HUMAN"}
    PROVE  IInv'
<1>1. RowFits'
    BY DEF IInv, RowFits, StatusStandsOnTheCycle, Grows, Proposed, NewRequest
<1>2. ASSUME NEW n \in Attempts
      PROVE  WorkflowFits(n)'
    BY StaysFit DEF IInv
<1>3. QuestionsAreTold'
    BY DEF IInv, QuestionsAreTold, Grows, At
<1>4. \A n \in Attempts : (Live(n)' <=> Live(n)) /\ (CopyFits(n)' <=> CopyFits(n))
    BY DEF Live, CopyFits
<1>5. OneIsLive'
    BY <1>4 DEF IInv, OneIsLive, Nobody, Grows
<1> QED
    BY <1>1, <1>2, <1>3, <1>5 DEF IInv

LEMMA AbandonIInv == IInv /\ Abandon => IInv'
<1> SUFFICES ASSUME IInv, Abandon
             PROVE  IInv'
    OBVIOUS
<1>1. /\ TypeOK /\ Spare /\ budget' = Mishap /\ call' = Idle
      /\ UNCHANGED <<request, intervention, analysis, outbox, cycle, flows>>
    BY DEF IInv, Abandon, rows
<1>2. budget'.mishaps # 0 /\ TypeOK'
    BY <1>1, MishapTyped, RowsTyped DEF TypeOK
<1>3. Grows
    BY <1>1, <1>2 DEF Grows, Proposed
<1>4. CallFits'
    BY <1>1, RowsTyped DEF CallFits, Responses
<1> QED
    BY <1>1, <1>2, <1>3, <1>4, HandlesWell

\* As long as nothing fails, who is live has the request, and no start or answer is on its way.
LEMMA WhoIsLive ==
    ASSUME IInv, budget.mishaps = 0, NEW n \in Attempts, Live(n)
    PROVE  /\ request.workflow = n \/ request.status \in Terminal
           /\ request.workflow # 0 \/ request.status \in Terminal
           /\ ~request.pending /\ request.status # "ABSENT"
           /\ call.op \notin {"start"} \cup Responses
           /\ call.op = "cancel" /\ call.at = "read" => ~call.seen.pending
<1>1. request.workflow = n \/ request.status \in Terminal
    BY DEF IInv, OneIsLive
<1>2. request.status = "ABSENT" => request.workflow = 0
    BY RowsTyped DEF IInv, RowFits, NewRequest
<1>3. n # 0 /\ "ABSENT" \notin Terminal
    BY ConstantsTyped DEF Attempts, Terminal
<1>4. ~request.pending /\ call.op \notin {"start"} \cup Responses
      /\ (call.op = "cancel" /\ call.at = "read" => ~call.seen.pending)
    BY DEF IInv, OneIsLive, Nobody
<1> QED
    BY <1>1, <1>2, <1>3, <1>4

LEMMA WhoIsAsked ==
    ASSUME IInv, budget.mishaps = 0
    PROVE  /\ request.pending => request.status \in Terminal \cup {"NEEDS_HUMAN"}
           /\ call.op = "start" => ~call.seen.pending /\ Nobody
    BY DEF IInv, OneIsLive

LEMMA CallsTyped ==
    ASSUME TypeOK
    PROVE  /\ call \in Calls /\ call.seen \in Request /\ request \in Request
           /\ 0 \in 0 .. MaxWorkflows
    BY ConstantsTyped DEF TypeOK, Calls

\* Submission, and the outbox.
LEMMA SubmitIInv == IInv /\ Submit => IInv'
<1> SUFFICES ASSUME IInv, Submit
             PROVE  IInv'
    OBVIOUS
<1>1. /\ TypeOK /\ UNCHANGED <<intervention, analysis, outbox, cycle, flows, budget>>
      /\ request' = IF request.status = "ABSENT" THEN NewRequest ELSE request
      /\ call' = [Idle EXCEPT !.op = "submit", !.at = "written"]
    BY DEF IInv, Submit
<1>2. /\ call' \in Calls /\ call'.op = "submit" /\ call'.at = "written" /\ call'.seen = NewRequest
    BY <1>1, RowsTyped DEF Calls
<1>3. TypeOK'
    BY <1>1, <1>2, RowsTyped DEF TypeOK
<1>4. Grows
    BY <1>1 DEF Grows, Proposed
<1>5. CallFits'
    BY <1>2, RowsTyped DEF CallFits, Responses
<1>6. UNCHANGED request \/ (~request'.cycle /\ request'.status = "RECEIVED")
    BY <1>1, RowsTyped
<1>7. \A n \in Attempts : budget.mishaps = 0 /\ Live(n) => request' = request
    BY <1>1, WhoIsLive
<1> QED
    BY <1>1, <1>2, <1>3, <1>4, <1>5, <1>6, <1>7, RowsTyped, WhoIsLive, WhoIsAsked, HandlesWell
    DEF Responses

LEMMA TellIInv == IInv /\ Tell => IInv'
<1> SUFFICES ASSUME IInv, Tell
             PROVE  IInv'
    OBVIOUS
<1>1. /\ TypeOK /\ UNCHANGED <<request, intervention, analysis, cycle, flows, budget>>
      /\ call' = Idle /\ call.at = "written" /\ outbox' = outbox \cup {Event(TypeOfEvent(call.op))}
    BY DEF IInv, Tell, rows, Emit
<1>2. Event(TypeOfEvent(call.op)) \in Events
    <2>1. call.op \in {"submit", "cancel"} \cup Responses
        BY <1>1 DEF IInv, CallFits
    <2>2. TypeOfEvent(call.op) \in EventTypes
        BY <2>1 DEF TypeOfEvent, Responses, EventTypes
    <2> QED
        BY <2>2, EventsTyped
<1>3. TypeOK'
    BY <1>1, <1>2, RowsTyped DEF TypeOK
<1>4. Grows
    BY <1>1 DEF Grows, Proposed
<1>5. CallFits'
    BY <1>1, RowsTyped DEF CallFits, Responses
<1> QED
    BY <1>1, <1>3, <1>4, <1>5, RowsTyped, WhoIsLive, WhoIsAsked, HandlesWell DEF Responses

\* Starting: nobody is live when a request can be started, and so until the new workflow is.
LEMMA BeginStartIInv == IInv /\ BeginStart => IInv'
<1> SUFFICES ASSUME IInv, BeginStart
             PROVE  IInv'
    OBVIOUS
<1>1. /\ TypeOK /\ UNCHANGED <<request, intervention, analysis, outbox, cycle, flows, budget>>
      /\ request.status \notin Terminal \cup {"NEEDS_HUMAN"} /\ request.workflow = 0
      /\ request.attempt < MaxWorkflows
      /\ call' = [op |-> "start", at |-> "read", seen |-> request]
    BY DEF IInv, BeginStart, rows
<1>2. TypeOK'
    BY <1>1 DEF TypeOK, Calls
<1>3. Grows
    BY <1>1 DEF Grows, Proposed
<1>4. CallFits'
    BY <1>1, <1>3 DEF IInv, RowFits, CallFits, Grows, Responses
<1>5. budget.mishaps = 0 => Nobody
    BY <1>1, WhoIsLive DEF Nobody
<1> QED
    BY <1>1, <1>2, <1>3, <1>4, <1>5, WhoIsLive, WhoIsAsked, HandlesWell

LEMMA ClaimIInv == IInv /\ Claim => IInv'
<1> SUFFICES ASSUME IInv, Claim
             PROVE  IInv'
    OBVIOUS
<1>1. /\ TypeOK /\ UNCHANGED <<intervention, analysis, outbox, cycle, flows, budget>>
      /\ call.op = "start" /\ call.seen.attempt < MaxWorkflows
      /\ request' = [call.seen EXCEPT !.status = "READY", !.attempt = call.seen.attempt + 1,
                                      !.workflow = call.seen.attempt + 1]
      /\ call' = [call EXCEPT !.at = "claimed", !.seen = request']
    BY DEF IInv, Claim, CallFits
<1>2. call.seen.attempt + 1 \in 0 .. MaxWorkflows /\ call.seen.attempt + 1 # 0
    <2>1. call.seen.attempt \in 0 .. MaxWorkflows
        BY <1>1, CallsTyped DEF Request
    <2> QED
        BY <1>1, <2>1, ConstantsTyped
<1>3. /\ request' \in Request /\ request'.status = "READY" /\ request'.cycle = call.seen.cycle
      /\ request'.workflow # 0 /\ request'.pending = call.seen.pending
    BY <1>1, <1>2, CallsTyped DEF Request, Statuses
<1>4. call' \in Calls /\ call'.op = "start" /\ call'.at = "claimed" /\ call'.seen = request'
    BY <1>1, <1>3, CallsTyped DEF Calls
<1>5. TypeOK'
    BY <1>1, <1>3, <1>4 DEF TypeOK
<1>6. Grows
    BY <1>1 DEF Grows, Proposed
<1>7. call.seen.cycle => Proposed'
    BY <1>6 DEF IInv, CallFits, Grows
<1>8. CallFits'
    BY <1>3, <1>4, <1>7 DEF CallFits
<1>9. budget.mishaps = 0 => Nobody /\ ~request'.pending
    BY <1>1, <1>3, WhoIsAsked
<1> QED
    BY <1>1, <1>3, <1>4, <1>5, <1>6, <1>7, <1>8, <1>9, HandlesWell DEF Nobody

LEMMA LaunchIInv == IInv /\ Launch => IInv'
<1> SUFFICES ASSUME IInv, Launch
             PROVE  IInv'
    OBVIOUS
<1>0. PICK n \in Attempts : n = call.seen.workflow
    <2>1. call.op = "start" /\ call.at = "claimed" /\ call.seen.workflow \in 0 .. MaxWorkflows
        BY CallsTyped DEF Launch, IInv, Request
    <2> QED
        BY <2>1, ConstantsTyped DEF IInv, CallFits, Attempts
<1> DEFINE w == [NoFlow EXCEPT !.pc = "prepare"]
<1>1. /\ TypeOK /\ UNCHANGED <<request, intervention, analysis, outbox, cycle, budget>>
      /\ call.op = "start" /\ call.at = "claimed" /\ call' = Idle
      /\ flows' = [flows EXCEPT ![n] = IF flows[n] = NoFlow THEN w ELSE flows[n]]
    BY <1>0 DEF IInv, Launch, rows
<1>3. w \in Workflows /\ w.pc = "prepare" /\ w.at = "begun" /\ w.seen = NewRequest
    BY NoFlowTyped DEF Workflows
<1> HIDE DEF w
<1>4. /\ flows' \in [Attempts -> Workflows]
      /\ \A m \in Attempts \ {n} : flows'[m] = flows[m]
      /\ flows'[n] = w \/ flows'[n] = flows[n]
    BY <1>1, <1>3, FlowTyped
<1>5. TypeOK'
    BY <1>1, <1>4, RowsTyped DEF TypeOK
<1>6. Grows
    BY <1>1 DEF Grows, Proposed
<1>7. CallFits' /\ RowFits'
    BY <1>1, <1>6, RowsTyped
    DEF CallFits, Responses, IInv, RowFits, StatusStandsOnTheCycle, Grows, Proposed, NewRequest
<1>8. ASSUME NEW m \in Attempts
      PROVE  WorkflowFits(m)'
    <2>1. CASE flows'[m] = flows[m]
        BY <1>6, <2>1, StaysFit DEF IInv
    <2>2. CASE flows'[m] = w
        BY <1>3, <2>2, RowsTyped DEF WorkflowFits, At
    <2> QED
        BY <1>4, <2>1, <2>2
<1>9. QuestionsAreTold'
    <2>1. \A m \in Attempts : At(m, "prepare", "written") => At(m, "prepare", "written")'
        <3> SUFFICES ASSUME NEW m \in Attempts, At(m, "prepare", "written")
                     PROVE  flows'[m] = flows[m]
            BY DEF At
        <3>1. flows[m] # NoFlow
            BY NoFlowTyped DEF At
        <3> QED
            BY <1>1, <1>4, <3>1, FlowTyped
    <2> QED
        BY <1>1, <2>1 DEF IInv, QuestionsAreTold
<1>10. OneIsLive'
    <2> SUFFICES ASSUME budget'.mishaps = 0
                 PROVE  OneIsLive'
        BY DEF OneIsLive
    <2>1. Nobody /\ request = call.seen
        BY <1>1 DEF IInv, OneIsLive
    <2>2. \A m \in Attempts : Live(m)' => m = n /\ flows'[n] = w
        BY <1>4, <2>1 DEF Nobody, Live
    <2>3. request'.workflow = n
        BY <1>0, <1>1, <2>1
    <2>4. flows'[n] = w => CopyFits(n)'
        BY <1>3 DEF CopyFits, Copying
    <2>5. ~request'.pending
        BY <1>1, <2>1 DEF IInv, OneIsLive
    <2> QED
        BY <1>1, <2>2, <2>3, <2>4, <2>5, RowsTyped DEF OneIsLive, Responses
<1> QED
    BY <1>5, <1>7, <1>8, <1>9, <1>10 DEF IInv

\* Cancelling: what is written back was read while the same workflow was live, or nobody.
LEMMA BeginCancelIInv == IInv /\ BeginCancel => IInv'
<1> SUFFICES ASSUME IInv, BeginCancel
             PROVE  IInv'
    OBVIOUS
<1>1. /\ TypeOK /\ UNCHANGED <<request, intervention, analysis, outbox, cycle, flows>>
      /\ Spare /\ budget' = [budget EXCEPT !.cancels = budget.cancels + 1]
      /\ call' = [op |-> "cancel", at |-> "read", seen |-> request]
    BY DEF IInv, BeginCancel, rows
<1>2. /\ budget' \in [mishaps : 0 .. MaxDisturbances, cancels : 0 .. MaxDisturbances]
      /\ budget'.mishaps + budget'.cancels <= MaxDisturbances
      /\ budget'.mishaps = budget.mishaps
    <2>1. /\ budget \in [mishaps : 0 .. MaxDisturbances, cancels : 0 .. MaxDisturbances]
          /\ budget.mishaps + budget.cancels < MaxDisturbances
        BY <1>1 DEF TypeOK, Spare
    <2>2. budget.mishaps \in Nat /\ budget.cancels \in Nat
        BY <2>1
    <2>3. budget'.mishaps = budget.mishaps /\ budget'.cancels = budget.cancels + 1
        BY <1>1, <2>1
    <2>4. budget.cancels + 1 \in 0 .. MaxDisturbances
        BY <2>1, <2>2, ConstantsTyped
    <2> QED
        BY <1>1, <2>1, <2>2, <2>3, <2>4, ConstantsTyped
<1>3. call' \in Calls /\ call'.op = "cancel" /\ call'.at = "read" /\ call'.seen = request
    BY <1>1, CallsTyped DEF Calls
<1>4. TypeOK'
    BY <1>1, <1>2, <1>3 DEF TypeOK
<1>5. Grows
    BY <1>1, <1>2 DEF Grows, Proposed
<1>6. CallFits'
    BY <1>1, <1>3, <1>5 DEF IInv, RowFits, CallFits, Grows
<1> QED
    BY <1>1, <1>2, <1>3, <1>4, <1>5, <1>6, WhoIsLive, WhoIsAsked, HandlesWell DEF Responses

LEMMA CancelIInv == IInv /\ Cancel => IInv'
<1> SUFFICES ASSUME IInv, Cancel
             PROVE  IInv'
    OBVIOUS
<1>1. /\ TypeOK /\ UNCHANGED <<intervention, analysis, outbox, cycle, flows, budget>>
      /\ call.op = "cancel" /\ call.at = "read"
      /\ request' = [call.seen EXCEPT !.status = "CANCELLED", !.workflow = 0]
      /\ call' = [call EXCEPT !.at = "written", !.seen = NewRequest]
    BY DEF IInv, Cancel
<1>2. /\ request' \in Request /\ request'.status = "CANCELLED"
      /\ request'.cycle = call.seen.cycle /\ request'.pending = call.seen.pending
    BY <1>1, CallsTyped DEF Request, Statuses, Terminal
<1>3. /\ call' \in Calls /\ call'.op = "cancel" /\ call'.at = "written"
      /\ call'.seen = NewRequest
    BY <1>1, CallsTyped, RowsTyped DEF Calls
<1>4. TypeOK'
    BY <1>1, <1>2, <1>3 DEF TypeOK
<1>5. Grows
    BY <1>1 DEF Grows, Proposed
<1>6. CallFits' /\ (request'.cycle => Proposed')
    BY <1>2, <1>3, <1>5, RowsTyped DEF IInv, CallFits, Grows
<1>7. "CANCELLED" \in Terminal
    BY DEF Terminal
<1> QED
    BY <1>1, <1>2, <1>3, <1>4, <1>5, <1>6, <1>7, WhoIsLive, HandlesWell DEF Responses

\* Answering: nobody is live when there is a question that the request points to.
LEMMA AnswerIInv == IInv /\ Answer => IInv'
<1> SUFFICES ASSUME IInv, Answer
             PROVE  IInv'
    OBVIOUS
<1>1. TypeOK /\ UNCHANGED <<request, analysis, outbox, cycle, flows>>
    BY DEF IInv, Answer
<1>2. ASSUME NEW op \in Responses, call' = [Idle EXCEPT !.op = op, !.at = "answered"]
      PROVE  /\ call' \in Calls /\ call'.op = op /\ call'.at = "answered"
             /\ call'.seen = NewRequest
             /\ CallFits'
    BY <1>2, RowsTyped DEF Calls, CallFits, Responses
<1>3. CASE /\ intervention.status = "OPEN" /\ request.pending
           /\ intervention' = [status |-> "RESPONDED", answer |-> "first"]
           /\ call' = [Idle EXCEPT !.op = "respond", !.at = "answered"]
           /\ UNCHANGED budget
    <2>1. call' \in Calls /\ call'.op = "respond" /\ call'.at = "answered" /\ CallFits'
        BY <1>2, <1>3 DEF Responses
    <2>2. TypeOK'
        BY <1>1, <1>3, <2>1 DEF TypeOK, Answers
    <2>3. Grows
        BY <1>1, <1>3 DEF Grows, Proposed
    <2>4. budget.mishaps = 0 => Nobody
        BY <1>3, WhoIsLive DEF Nobody
    <2> QED
        BY <1>1, <1>3, <2>1, <2>2, <2>3, <2>4, WhoIsLive, WhoIsAsked, HandlesWell DEF Responses
<1>4. CASE /\ Spare /\ budget' = Mishap
           /\ call' = [Idle EXCEPT !.op = "replay", !.at = "answered"]
           /\ UNCHANGED intervention
    <2>1. call' \in Calls /\ CallFits'
        BY <1>2, <1>4 DEF Responses
    <2>2. TypeOK' /\ budget'.mishaps # 0
        BY <1>1, <1>4, <2>1, MishapTyped DEF TypeOK
    <2>3. Grows
        BY <1>1, <1>4, <2>2 DEF Grows, Proposed
    <2> QED
        BY <1>1, <2>1, <2>2, <2>3, HandlesWell
<1> QED
    BY <1>3, <1>4 DEF Answer

LEMMA ReadAnsweredIInv == IInv /\ ReadAnswered => IInv'
<1> SUFFICES ASSUME IInv, ReadAnswered
             PROVE  IInv'
    OBVIOUS
<1>1. /\ TypeOK /\ UNCHANGED <<request, intervention, analysis, outbox, cycle, flows, budget>>
      /\ call.at = "answered" /\ call.op \in Responses
      /\ call' = [call EXCEPT !.at = "read", !.seen = request]
    BY DEF IInv, ReadAnswered, rows, CallFits
<1>2. /\ call' \in Calls /\ call'.op = call.op /\ call'.at = "read" /\ call'.seen = request
    BY <1>1, CallsTyped DEF Calls
<1>3. TypeOK'
    BY <1>1, <1>2 DEF TypeOK
<1>4. Grows
    BY <1>1 DEF Grows, Proposed
<1>5. CallFits'
    BY <1>1, <1>2, <1>4 DEF IInv, RowFits, CallFits, Grows, Responses
<1>6. budget.mishaps = 0 => Nobody
    BY <1>1, WhoIsLive DEF Nobody
<1> QED
    BY <1>1, <1>2, <1>3, <1>4, <1>5, <1>6, WhoIsLive, WhoIsAsked, HandlesWell DEF Responses

LEMMA MakeReadyIInv == IInv /\ MakeReady => IInv'
<1> SUFFICES ASSUME IInv, MakeReady
             PROVE  IInv'
    OBVIOUS
<1>1. /\ TypeOK /\ UNCHANGED <<intervention, analysis, outbox, cycle, flows, budget>>
      /\ call.op \in Responses
      /\ request' = [call.seen EXCEPT !.status = "READY", !.pending = FALSE, !.workflow = 0]
      /\ call' = [call EXCEPT !.at = "written", !.seen = NewRequest]
    BY DEF IInv, MakeReady
<1>2. /\ request' \in Request /\ request'.status = "READY"
      /\ request'.cycle = call.seen.cycle /\ ~request'.pending
    BY <1>1, CallsTyped DEF Request, Statuses
<1>3. /\ call' \in Calls /\ call'.op = call.op /\ call'.at = "written"
      /\ call'.seen = NewRequest
    BY <1>1, CallsTyped, RowsTyped DEF Calls
<1>4. TypeOK'
    BY <1>1, <1>2, <1>3 DEF TypeOK
<1>5. Grows
    BY <1>1 DEF Grows, Proposed
<1>6. CallFits' /\ (request'.cycle => Proposed')
    BY <1>1, <1>2, <1>3, <1>5, RowsTyped DEF IInv, CallFits, Grows, Responses
<1>7. budget.mishaps = 0 => Nobody
    BY <1>1, WhoIsLive DEF Nobody
<1> QED
    BY <1>1, <1>2, <1>3, <1>4, <1>5, <1>6, <1>7, HandlesWell DEF Responses, Nobody

----------------------------------------------------------------------------
LEMMA NextIInv == IInv /\ [Next]_vars => IInv'
<1> SUFFICES ASSUME IInv, [Next]_vars
             PROVE  IInv'
    OBVIOUS
<1>1. CASE Handler
    BY <1>1, SubmitIInv, BeginStartIInv, ClaimIInv, LaunchIInv, BeginCancelIInv, CancelIInv,
       AnswerIInv, ReadAnsweredIInv, MakeReadyIInv, TellIInv
    DEF Handler
<1>2. ASSUME NEW n \in Attempts, Flow(n) \/ Fail(n)
      PROVE  IInv'
    BY <1>2, FlowIInv, FailIInv
<1>3. CASE Abandon \/ Restart
    BY <1>3, AbandonIInv, RestartIInv
<1>4. CASE UNCHANGED vars
    <2>1. UNCHANGED <<request, intervention, analysis, outbox, cycle, call, flows, budget>>
        BY <1>4 DEF vars
    <2>2. TypeOK' /\ Grows
        BY <2>1 DEF IInv, TypeOK, Grows, Proposed
    <2>3. CallFits'
        BY <2>1, <2>2 DEF IInv, CallFits, Grows
    <2>4. budget.mishaps = 0 => OneIsLive'
        BY <2>1 DEF IInv, OneIsLive, Nobody, Live, CopyFits
    <2> QED
        BY <2>1, <2>2, <2>3, WhoIsLive, HandlesWell DEF IInv, OneIsLive
<1> QED
    BY <1>1, <1>2, <1>3, <1>4 DEF Next

LEMMA Invariance == Spec => []IInv
    BY InitIInv, NextIInv, PTL DEF Spec

----------------------------------------------------------------------------
\* The rows, the handler and the workflows keep their types, whatever copies are written.
THEOREM Typing == Spec => []TypeOK
<1>1. IInv => TypeOK
    BY DEF IInv
<1> QED
    BY <1>1, Invariance, PTL

\* A running request has a cycle that can be developed, and a finished one a cycle that has
\* ended (OperatorService.prepare and finish), however stale the copies are that are written.
THEOREM StatusStands == Spec => []StatusStandsOnTheCycle
<1>1. IInv => StatusStandsOnTheCycle
    BY DEF IInv, RowFits
<1> QED
    BY <1>1, Invariance, PTL

\* An execution is announced before it begins and told about when it has ended, whatever fails
\* or is restarted (the outbox of prepare and finish).
THEOREM Reported == Spec => []ExecutionsAreReported
<1>1. IInv => ExecutionsAreReported
    BY DEF IInv, WorkflowFits, ExecutionsAreReported
<1> QED
    BY <1>1, Invariance, PTL

\* For any number of starts, one workflow at most executes the request while nothing fails:
\* start_record refuses as long as the request names a workflow, and _needs_human and an answer
\* take the name away only from one that does not go on.
THEOREM OneExecution == Spec => []OneExecutionAtATime
<1>1. ASSUME IInv
      PROVE  OneExecutionAtATime
    <2> DEFINE executing == {n \in Attempts : flows[n].pc \in {"execute", "finish"}}
    <2>1. SUFFICES ASSUME budget.mishaps = 0
                   PROVE  Cardinality(executing) <= 1
        BY DEF OneExecutionAtATime
    <2>2. \A m \in executing, n \in executing : m = n
        BY <1>1, <2>1 DEF IInv, OneIsLive, Live
    <2>3. CASE executing = {}
        BY <2>3, FS_EmptySet
    <2>4. CASE executing # {}
        <3>1. PICK n \in executing : executing = {n}
            BY <2>2, <2>4
        <3>2. Cardinality({n}) = 1
            BY FS_Singleton
        <3> QED
            BY <3>1, <3>2
    <2> QED
        BY <2>3, <2>4
<1> QED
    BY <1>1, Invariance, PTL

\* A request that waits for a human and has no workflow to tell so has told, as long as nothing
\* fails (_needs_human).
THEOREM QuestionsReach == Spec => []QuestionsReachTheOperator
<1>1. IInv => QuestionsReachTheOperator
    BY DEF IInv, RowFits, QuestionsAreTold, QuestionsReachTheOperator, At
<1> QED
    BY <1>1, Invariance, PTL

\* respond_intervention and create_intervention: an answer that was taken is never changed, by
\* another answer, by the same one again, or by a workflow that asks again.
THEOREM AnswersStay == Spec => AnswersAreFinal
<1>1. ASSUME IInv, [Next]_vars, intervention.status = "RESPONDED"
      PROVE  intervention' = intervention
    <2>1. CASE Handler
        BY <1>1, <2>1
        DEF Handler, Submit, BeginStart, Claim, Launch, BeginCancel, Cancel, Answer,
            ReadAnswered, MakeReady, Tell, rows
    <2>2. ASSUME NEW n \in Attempts, Flow(n) \/ Fail(n)
          PROVE  intervention' = intervention
        BY <1>1, <2>2
        DEF Flow, Fail, Prepare, ReadRequest, WriteAnalyzing, Analyse, CreateCycle, MoveCycle,
            WriteRunning, TellStarted, Ask, WriteNeedsHuman, TellNeedsHuman, Execute, Develop,
            EndDevelopment, Finish, ReadFinished, WriteFinished, TellFinished, Record, rows
    <2> QED
        BY <1>1, <2>1, <2>2 DEF Next, Abandon, Restart, rows, vars
<1>2. IInv /\ [Next]_vars =>
        [intervention.status = "RESPONDED" => intervention' = intervention]_vars
    BY <1>1
<1> QED
    BY <1>2, Invariance, PTL DEF Spec, AnswersAreFinal

----------------------------------------------------------------------------
(***************************************************************************)
(* NothingIsPassedOver.  The invariant has to say what a page is worth     *)
(* while transactions commit behind it: its numbers name rows beyond the   *)
(* cursor, and a row it leaves out comes after all of them or is one that  *)
(* was overtaken.                                                          *)
(***************************************************************************)

\* A sequence number is handed out once.
NumbersAreUnique ==
    /\ \A r, q \in events : r.sequence = q.sequence => r = q
    /\ \A w \in Writers : writer[w].at = "commit" =>
        \A r \in events : r.sequence # writer[w].sequence
    /\ \A w, v \in Writers :
        /\ writer[w].at = "commit" /\ writer[v].at = "commit"
        /\ writer[w].sequence = writer[v].sequence
        => w = v

\* Page and cursor name rows, and the page holds the next rows after the cursor.
PageIsNext ==
    /\ \A n \in bridge.page : n > bridge.cursor /\ \E r \in events : r.sequence = n
    /\ bridge.cursor = 0 \/ \E r \in events : r.sequence = bridge.cursor
    /\ \A r \in events :
        /\ r.sequence > bridge.cursor
        /\ r.sequence \notin bridge.page
        /\ r.id \notin overtaken
        => \A n \in bridge.page : n < r.sequence

\* What the bridge has done with the event it is at, and that it records what it has sent.
PlaceIsReached ==
    /\ ledger \subseteq sent
    /\ \A r \in events : Current(r) =>
        /\ bridge.at \in {"record", "acknowledge", "advance"} => r.id \in sent
        /\ bridge.at \in {"acknowledge", "advance"} => r.id \in ledger
        /\ bridge.at = "advance" => r.acknowledged

OutboxIInv ==
    OutboxTypeOK /\ NumbersAreUnique /\ PageIsNext /\ PlaceIsReached /\ NothingIsPassedOver

----------------------------------------------------------------------------
LEMMA InitOutboxTypeOK == OutboxInit => OutboxTypeOK
    BY OperatorOutboxAssumption DEF OutboxInit, OutboxTypeOK, Transactions, NoTransaction

\* What a transaction is follows from how far it is.
LEMMA TransactionsTyped ==
    ASSUME OutboxTypeOK, NEW w \in Writers
    PROVE  /\ sequence \in Nat
           /\ writer[w].at # "idle" => writer[w].event \in EventIds
           /\ writer[w].at = "commit" => writer[w].sequence \in 1 .. sequence
<1>1. writer[w] \in Transactions
    BY DEF OutboxTypeOK
<1> QED
    BY <1>1 DEF Transactions, NoTransaction, OutboxTypeOK

\* Numbers of rows are numbers that have been handed out.
LEMMA EventRowsTyped ==
    ASSUME OutboxTypeOK, NEW r \in events
    PROVE  /\ r.sequence \in 1 .. sequence
           /\ r.id \in EventIds
           /\ sequence \in Nat
    BY DEF OutboxTypeOK

LEMMA AfterTyped ==
    ASSUME OutboxTypeOK, NEW c
    PROVE  After(c) \subseteq 1 .. sequence
    BY EventRowsTyped DEF After

\* A step of a transaction leaves the shape of the state as it is.
LEMMA WritersTyped ==
    ASSUME OutboxTypeOK, NEW w \in Writers, AppendEvent(w) \/ Writes(w) \/ Abort(w)
    PROVE  OutboxTypeOK'
<1> USE TransactionsTyped, OperatorOutboxAssumption
<1>1. CASE AppendEvent(w)
    BY <1>1 DEF AppendEvent, Spend, OutboxTypeOK, Transactions, NoTransaction
<1>2. CASE Insert(w)
    <2>1. sequence \in Nat /\ 1 .. sequence \subseteq 1 .. sequence'
          /\ 0 .. sequence \subseteq 0 .. sequence' /\ sequence' \in 1 .. sequence'
        BY <1>2 DEF Insert
    <2>2. Transactions \subseteq Transactions'
        BY <2>1 DEF Transactions
    <2>3. writer' \in [Writers -> Transactions']
        BY <1>2, <2>1, <2>2 DEF Insert, OutboxTypeOK, Transactions
    <2>4. bridge' \in [at     : {"poll", "send", "record", "acknowledge", "advance"},
                       page   : SUBSET (1 .. sequence'),
                       cursor : 0 .. sequence']
        BY <1>2, <2>1 DEF Insert, OutboxTypeOK
    <2>5. events' \subseteq [sequence : 1 .. sequence', id : EventIds, acknowledged : BOOLEAN]
        BY <1>2, <2>1 DEF Insert, OutboxTypeOK
    <2> QED
        BY <1>2, <2>1, <2>3, <2>4, <2>5 DEF Insert, OutboxTypeOK
<1>3. CASE Commit(w)
    <2>1. [sequence |-> writer[w].sequence, id |-> writer[w].event, acknowledged |-> FALSE]
            \in [sequence : 1 .. sequence, id : EventIds, acknowledged : BOOLEAN]
        BY <1>3 DEF Commit
    <2>2. events' \subseteq [sequence : 1 .. sequence', id : EventIds, acknowledged : BOOLEAN]
        BY <1>3, <2>1 DEF Commit, OutboxTypeOK
    <2>3. writer' \in [Writers -> Transactions']
        BY <1>3 DEF Commit, OutboxTypeOK, Transactions
    <2>4. overtaken' \subseteq EventIds
        BY <1>3 DEF Commit, OutboxTypeOK
    <2> QED
        BY <1>3, <2>2, <2>3, <2>4 DEF Commit, OutboxTypeOK
<1>4. CASE Collide(w)
    BY <1>4 DEF Collide, OutboxTypeOK, Transactions, NoTransaction
<1>5. CASE Abort(w)
    BY <1>5 DEF Abort, Spend, OutboxTypeOK, Transactions, NoTransaction
<1> QED
    BY <1>1, <1>2, <1>3, <1>4, <1>5 DEF Writes

LEMMA BridgeTyped ==
    ASSUME OutboxTypeOK, Delivers \/ BridgeRestart
    PROVE  OutboxTypeOK'
<1>1. CASE Poll
    <2>1. ListEvents(bridge.cursor) \subseteq 1 .. sequence
        BY AfterTyped DEF ListEvents
    <2> QED
        BY <1>1, <2>1 DEF Poll, OutboxTypeOK, Transactions
<1>2. CASE Send
    BY <1>2, EventRowsTyped DEF Send, OutboxTypeOK, Transactions
<1>3. CASE RecordDelivery
    BY <1>3, EventRowsTyped DEF RecordDelivery, OutboxTypeOK, Transactions
<1>4. CASE Acknowledge
    BY <1>4 DEF Acknowledge, OutboxTypeOK, Transactions
<1>5. CASE Advance
    BY <1>5, EventRowsTyped DEF Advance, OutboxTypeOK, Transactions
<1>6. CASE BridgeRestart
    <2>1. spent' \in [emits : 0 .. MaxEmits, failures : 0 .. MaxFailures]
        BY <1>6, OperatorOutboxAssumption DEF BridgeRestart, Spend, OutboxTypeOK
    <2> QED
        BY <1>6, <2>1 DEF BridgeRestart, OutboxTypeOK, Transactions
<1> QED
    BY <1>1, <1>2, <1>3, <1>4, <1>5, <1>6 DEF Delivers

LEMMA NextOutboxTypeOK == OutboxTypeOK /\ [OutboxNext]_outboxVars => OutboxTypeOK'
<1>1. OutboxTypeOK /\ UNCHANGED outboxVars => OutboxTypeOK'
    BY DEF OutboxTypeOK, Transactions, outboxVars
<1> QED
    BY <1>1, WritersTyped, BridgeTyped DEF OutboxNext

\* The outbox keeps its type.
THEOREM OutboxTyping == OutboxSpec => []OutboxTypeOK
    BY InitOutboxTypeOK, NextOutboxTypeOK, PTL DEF OutboxSpec
----------------------------------------------------------------------------
\* What a page leaves out comes after it.
LEMMA PagesAreInOrder ==
    ASSUME OutboxTypeOK, NEW c \in Nat, NEW n \in ListEvents(c), NEW m \in After(c), m < n
    PROVE  m \in ListEvents(c)
<1>1. n \in 1 .. sequence /\ m \in 1 .. sequence /\ sequence \in Nat
    BY AfterTyped DEF ListEvents, OutboxTypeOK
<1>2. Before(m) \cap After(c) \subseteq Before(n) \cap After(c)
    BY <1>1, AfterTyped DEF Before
<1>3. IsFiniteSet(Before(n) \cap After(c))
    <2>1. IsFiniteSet(1 .. sequence)
        BY <1>1, FS_Interval
    <2>2. Before(n) \cap After(c) \subseteq 1 .. sequence
        BY AfterTyped
    <2> QED
        BY <2>1, <2>2, FS_Subset
<1>4. /\ IsFiniteSet(Before(m) \cap After(c))
      /\ Cardinality(Before(m) \cap After(c)) <= Cardinality(Before(n) \cap After(c))
    BY <1>2, <1>3, FS_Subset
<1>5. /\ Cardinality(Before(m) \cap After(c)) \in Nat
      /\ Cardinality(Before(n) \cap After(c)) \in Nat
    BY <1>3, <1>4, FS_CardinalityType
<1> QED
    BY <1>4, <1>5, OperatorOutboxAssumption DEF ListEvents

\* The bridge is at one row.
LEMMA OneIsCurrent ==
    ASSUME OutboxTypeOK, NumbersAreUnique,
           NEW r \in events, NEW q \in events, Current(r), Current(q)
    PROVE  r = q
    BY EventRowsTyped DEF Current, NumbersAreUnique

\* A step of a transaction that commits nothing leaves the bridge's part as it is.
QuietStep == UNCHANGED <<events, bridge, ledger, sent, overtaken>>

LEMMA QuietStepKeeps ==
    ASSUME PageIsNext, PlaceIsReached, NothingIsPassedOver, QuietStep
    PROVE  PageIsNext' /\ PlaceIsReached' /\ NothingIsPassedOver'
    BY DEF QuietStep, PageIsNext, PlaceIsReached, NothingIsPassedOver, Current

\* Only Insert hands out a number, which is a new one.
LEMMA NumbersOfTransactions ==
    ASSUME OutboxTypeOK, NumbersAreUnique,
           NEW w \in Writers, AppendEvent(w) \/ Writes(w) \/ Abort(w)
    PROVE  NumbersAreUnique'
<1> USE TransactionsTyped, EventRowsTyped DEF NumbersAreUnique
<1>1. CASE AppendEvent(w)
    <2>1. \A v \in Writers : writer'[v].at = "commit" => writer'[v] = writer[v]
        BY <1>1 DEF AppendEvent, OutboxTypeOK
    <2> QED
        BY <1>1, <2>1 DEF AppendEvent
<1>2. CASE Insert(w)
    BY <1>2 DEF Insert, OutboxTypeOK
<1>3. CASE Commit(w)
    <2>1. \A v \in Writers : writer'[v].at = "commit" => v # w /\ writer'[v] = writer[v]
        BY <1>3 DEF Commit, OutboxTypeOK, NoTransaction
    <2>2. \A r \in events' : r \notin events => r.sequence = writer[w].sequence
        BY <1>3 DEF Commit
    <2>3. \A r, q \in events' : r \notin events /\ q \notin events => r = q
        BY <1>3 DEF Commit
    <2>4. writer[w].at = "commit"
        BY <1>3 DEF Commit
    <2>5. \A r, q \in events' : r.sequence = q.sequence => r = q
        BY <2>2, <2>3, <2>4
    <2> QED
        BY <2>1, <2>2, <2>4, <2>5
<1>4. CASE Collide(w) \/ Abort(w)
    BY <1>4 DEF Collide, Abort, OutboxTypeOK, NoTransaction
<1> QED
    BY <1>1, <1>2, <1>3, <1>4 DEF Writes

\* The bridge changes no number.
LEMMA NumbersOfBridge ==
    ASSUME OutboxTypeOK, NumbersAreUnique, Delivers \/ BridgeRestart
    PROVE  NumbersAreUnique'
<1>1. CASE Acknowledge
    BY <1>1, EventRowsTyped DEF Acknowledge, NumbersAreUnique, OutboxTypeOK
<1>2. CASE UNCHANGED <<events, writer>>
    BY <1>2 DEF NumbersAreUnique
<1> QED
    BY <1>1, <1>2 DEF Delivers, Poll, Send, RecordDelivery, Advance, BridgeRestart

----------------------------------------------------------------------------
\* A commit behind the bridge is overtaken, one before it comes after the page.
LEMMA CommitKeeps ==
    ASSUME OutboxIInv, NEW w \in Writers, Commit(w)
    PROVE  PageIsNext' /\ PlaceIsReached' /\ NothingIsPassedOver'
<1> DEFINE n == writer[w].sequence
           new == [sequence |-> n, id |-> writer[w].event, acknowledged |-> FALSE]
<1>1. /\ events' = events \cup {new} /\ UNCHANGED <<bridge, ledger, sent>>
      /\ overtaken \subseteq overtaken'
      /\ ReadBeyond(n) => new.id \in overtaken'
    BY DEF Commit
<1>2. n \in Nat /\ n \in 1 .. sequence
    BY TransactionsTyped DEF Commit, OutboxIInv
<1>3. n \notin bridge.page /\ n # bridge.cursor
    BY <1>2 DEF OutboxIInv, PageIsNext, NumbersAreUnique, Commit
<1>4. bridge.page \subseteq Nat /\ bridge.cursor \in Nat
    BY DEF OutboxIInv, OutboxTypeOK
<1>5. new.id \notin overtaken' => bridge.cursor < n /\ \A m \in bridge.page : m < n
    BY <1>1, <1>2, <1>3, <1>4 DEF ReadBeyond
<1>6. PageIsNext'
    BY <1>1, <1>2, <1>4, <1>5 DEF OutboxIInv, PageIsNext
<1>7. PlaceIsReached'
    BY <1>1, <1>3 DEF OutboxIInv, PlaceIsReached, Current
<1>8. NothingIsPassedOver'
    BY <1>1, <1>2, <1>4, <1>5 DEF OutboxIInv, NothingIsPassedOver
<1> QED
    BY <1>6, <1>7, <1>8

\* A page holds the next rows after the cursor.
LEMMA PollKeeps ==
    ASSUME OutboxIInv, Poll
    PROVE  PageIsNext' /\ PlaceIsReached' /\ NothingIsPassedOver'
<1> DEFINE c == bridge.cursor
           P == ListEvents(c)
<1>1. /\ bridge'.page = P /\ bridge'.cursor = c /\ bridge'.at = "send"
      /\ UNCHANGED <<events, ledger, sent, overtaken>>
    BY DEF Poll, OutboxIInv, OutboxTypeOK
<1>2. c \in Nat
    BY DEF OutboxIInv, OutboxTypeOK
<1>3. \A m \in P : m > c /\ \E r \in events : r.sequence = m
    BY DEF ListEvents, After
<1>4. ASSUME NEW r \in events, r.sequence > c, r.sequence \notin P, NEW m \in P
      PROVE  m < r.sequence
    <2>1. r.sequence \in After(c)
        BY <1>4 DEF After
    <2>2. m \in Nat /\ r.sequence \in Nat
        BY AfterTyped, EventRowsTyped DEF ListEvents, OutboxIInv
    <2>3. ~(r.sequence < m)
        BY <1>2, <1>4, <2>1, PagesAreInOrder DEF OutboxIInv
    <2> QED
        BY <1>4, <2>2, <2>3
<1>5. PageIsNext'
    BY <1>1, <1>3, <1>4 DEF PageIsNext, OutboxIInv
<1>6. PlaceIsReached'
    BY <1>1 DEF PlaceIsReached, OutboxIInv
<1>7. NothingIsPassedOver'
    BY <1>1 DEF NothingIsPassedOver, OutboxIInv
<1> QED
    BY <1>5, <1>6, <1>7

\* Sending and recording go with the row the bridge is at.
LEMMA SendAndRecordKeep ==
    ASSUME OutboxIInv, Send \/ RecordDelivery
    PROVE  PageIsNext' /\ PlaceIsReached' /\ NothingIsPassedOver'
<1>1. /\ bridge'.page = bridge.page /\ bridge'.cursor = bridge.cursor
      /\ UNCHANGED <<events, overtaken>>
      /\ ledger \subseteq ledger' /\ sent \subseteq sent'
    BY DEF Send, RecordDelivery, OutboxIInv, OutboxTypeOK
<1>2. PageIsNext' /\ NothingIsPassedOver'
    BY <1>1 DEF OutboxIInv, PageIsNext, NothingIsPassedOver
<1>3. PICK r \in events :
        /\ Current(r)
        /\ \/ Send /\ bridge'.at = "record" /\ r.id \in sent' \cup ledger
           \/ RecordDelivery /\ bridge'.at = "acknowledge" /\ r.id \in ledger'
    BY DEF Send, RecordDelivery, OutboxIInv, OutboxTypeOK
<1>4. \A q \in events : Current(q)' => q = r
    BY <1>1, <1>3, OneIsCurrent DEF OutboxIInv, Current
<1>5. CASE Send /\ bridge'.at = "record" /\ r.id \in sent' \cup ledger
    <2>1. UNCHANGED ledger /\ r.id \in sent'
        BY <1>1, <1>5 DEF OutboxIInv, PlaceIsReached, Send
    <2>2. PlaceIsReached'
        BY <1>1, <1>4, <1>5, <2>1 DEF OutboxIInv, PlaceIsReached
    <2> QED
        BY <1>2, <2>2
<1>6. CASE RecordDelivery /\ bridge'.at = "acknowledge" /\ r.id \in ledger'
    <2>1. r.id \in sent /\ ledger' = ledger \cup {r.id}
        <3>1. PICK q \in events : Current(q) /\ ledger' = ledger \cup {q.id}
            BY <1>6 DEF RecordDelivery
        <3>2. q = r
            BY <1>3, <3>1, OneIsCurrent DEF OutboxIInv
        <3> QED
            BY <1>3, <1>6, <3>1, <3>2 DEF OutboxIInv, PlaceIsReached, RecordDelivery
    <2>2. PlaceIsReached'
        BY <1>1, <1>4, <1>6, <2>1 DEF OutboxIInv, PlaceIsReached
    <2> QED
        BY <1>2, <2>2
<1> QED
    BY <1>2, <1>3, <1>5, <1>6

\* An acknowledgement changes nothing but the row the bridge is at.
LEMMA AcknowledgeKeeps ==
    ASSUME OutboxIInv, Acknowledge
    PROVE  PageIsNext' /\ PlaceIsReached' /\ NothingIsPassedOver'
<1>1. PICK r \in events :
        /\ Current(r)
        /\ events' = (events \ {r}) \cup {[r EXCEPT !.acknowledged = TRUE]}
    BY DEF Acknowledge
<1> DEFINE ack == [r EXCEPT !.acknowledged = TRUE]
<1>2. /\ bridge.at = "acknowledge" /\ bridge'.at = "advance"
      /\ bridge'.page = bridge.page /\ bridge'.cursor = bridge.cursor
      /\ UNCHANGED <<ledger, sent, overtaken>>
    BY DEF Acknowledge, OutboxIInv, OutboxTypeOK
<1>3. ack.sequence = r.sequence /\ ack.id = r.id /\ ack.acknowledged
    BY DEF OutboxIInv, OutboxTypeOK
<1>4. r.id \in sent /\ r.id \in ledger
    BY <1>1, <1>2 DEF OutboxIInv, PlaceIsReached
<1>5. PageIsNext'
    BY <1>1, <1>2, <1>3 DEF OutboxIInv, PageIsNext
<1>6. \A q \in events' : Current(q)' => q = ack
    BY <1>1, <1>2, <1>3, OneIsCurrent DEF OutboxIInv, Current
<1>7. PlaceIsReached'
    BY <1>2, <1>3, <1>4, <1>6 DEF OutboxIInv, PlaceIsReached
<1>8. NothingIsPassedOver'
    BY <1>1, <1>2, <1>3, <1>4 DEF OutboxIInv, NothingIsPassedOver
<1> QED
    BY <1>5, <1>7, <1>8

\* The cursor passes the row the bridge is at, and no other.
LEMMA AdvanceKeeps ==
    ASSUME OutboxIInv, Advance
    PROVE  PageIsNext' /\ PlaceIsReached' /\ NothingIsPassedOver'
<1>1. PICK r \in events :
        /\ Current(r)
        /\ bridge' = [at     |-> IF bridge.page = {r.sequence} THEN "poll" ELSE "send",
                      page   |-> bridge.page \ {r.sequence},
                      cursor |-> r.sequence]
    BY DEF Advance
<1>2. bridge.at = "advance" /\ UNCHANGED <<events, ledger, sent, overtaken>>
    BY DEF Advance
<1>3. /\ bridge.page \subseteq Nat /\ bridge.cursor \in Nat
      /\ \A q \in events : q.sequence \in Nat
      /\ \A n \in bridge.page : r.sequence <= n
    BY <1>1, EventRowsTyped DEF OutboxIInv, OutboxTypeOK, Current
<1>4. r.acknowledged /\ r.id \in ledger /\ r.id \in sent
    BY <1>1, <1>2 DEF OutboxIInv, PlaceIsReached
<1>5. PageIsNext'
    BY <1>1, <1>2, <1>3 DEF OutboxIInv, PageIsNext, Current
<1>6. PlaceIsReached'
    BY <1>1, <1>2 DEF OutboxIInv, PlaceIsReached
<1>7. ASSUME NEW q \in events, q.sequence <= r.sequence, q.id \notin overtaken
      PROVE  q.acknowledged /\ q.id \in ledger \cap sent
    <2>1. CASE q.sequence <= bridge.cursor
        BY <1>7, <2>1 DEF OutboxIInv, NothingIsPassedOver
    <2>2. CASE q.sequence > bridge.cursor
        <3>1. q.sequence = r.sequence
            BY <1>1, <1>3, <1>7, <2>2 DEF OutboxIInv, PageIsNext, Current
        <3>2. q = r
            BY <3>1 DEF OutboxIInv, NumbersAreUnique
        <3> QED
            BY <1>4, <3>2
    <2> QED
        BY <1>3, <2>1, <2>2
<1>8. NothingIsPassedOver'
    BY <1>1, <1>2, <1>7 DEF NothingIsPassedOver
<1> QED
    BY <1>5, <1>6, <1>8

\* A bridge that begins again from its cursor has a page to read.
LEMMA RestartKeeps ==
    ASSUME OutboxIInv, BridgeRestart
    PROVE  PageIsNext' /\ PlaceIsReached' /\ NothingIsPassedOver'
<1>1. /\ bridge'.page = {} /\ bridge'.cursor = bridge.cursor
      /\ UNCHANGED <<events, ledger, sent, overtaken>>
    BY DEF BridgeRestart, OutboxIInv, OutboxTypeOK
<1> QED
    BY <1>1 DEF OutboxIInv, PageIsNext, PlaceIsReached, NothingIsPassedOver, Current

----------------------------------------------------------------------------
LEMMA InitOutboxIInv == OutboxInit => OutboxIInv
<1> SUFFICES ASSUME OutboxInit PROVE OutboxIInv
    OBVIOUS
<1>1. NumbersAreUnique /\ PageIsNext /\ PlaceIsReached /\ NothingIsPassedOver
    BY DEF OutboxInit, NoTransaction, NumbersAreUnique, PageIsNext, PlaceIsReached,
           NothingIsPassedOver
<1> QED
    BY <1>1, InitOutboxTypeOK DEF OutboxIInv

LEMMA NextOutboxIInv == OutboxIInv /\ [OutboxNext]_outboxVars => OutboxIInv'
<1> SUFFICES ASSUME OutboxIInv, [OutboxNext]_outboxVars PROVE OutboxIInv'
    OBVIOUS
<1>1. OutboxTypeOK'
    BY NextOutboxTypeOK DEF OutboxIInv
<1>2. CASE UNCHANGED outboxVars
    BY <1>1, <1>2, QuietStepKeeps DEF outboxVars, OutboxIInv, QuietStep, NumbersAreUnique
<1>3. ASSUME NEW w \in Writers, AppendEvent(w) \/ Writes(w) \/ Abort(w) PROVE OutboxIInv'
    <2>1. NumbersAreUnique'
        BY <1>3, NumbersOfTransactions DEF OutboxIInv
    <2>2. CASE Commit(w)
        BY <1>1, <2>1, <2>2, CommitKeeps DEF OutboxIInv
    <2>3. CASE AppendEvent(w) \/ Insert(w) \/ Collide(w) \/ Abort(w)
        <3>1. QuietStep
            BY <2>3 DEF QuietStep, AppendEvent, Insert, Collide, Abort
        <3> QED
            BY <1>1, <2>1, <3>1, QuietStepKeeps DEF OutboxIInv
    <2> QED
        BY <1>3, <2>2, <2>3 DEF Writes
<1>4. ASSUME Delivers \/ BridgeRestart PROVE OutboxIInv'
    <2>1. NumbersAreUnique'
        BY <1>4, NumbersOfBridge DEF OutboxIInv
    <2> QED
        BY <1>1, <1>4, <2>1, PollKeeps, SendAndRecordKeep, AcknowledgeKeeps, AdvanceKeeps,
           RestartKeeps DEF OutboxIInv, Delivers
<1> QED
    BY <1>2, <1>3, <1>4 DEF OutboxNext

\* The operator is told of every event that was committed in its turn before the cursor goes
\* past it, for any number of writers, any events and any limit of a page.
THEOREM Delivery == OutboxSpec => []NothingIsPassedOver
<1>1. OutboxIInv => NothingIsPassedOver
    BY DEF OutboxIInv
<1> QED
    BY <1>1, InitOutboxIInv, NextOutboxIInv, PTL DEF OutboxSpec

==============================================================================
