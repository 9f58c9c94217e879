---------------------- MODULE PostPromotionSoak_proofs ----------------------
(***************************************************************************)
(* The soak for any number of rounds, restarts and failing calls: what     *)
(* users reach, what an ended soak leaves, whose verdict it was, and that  *)
(* the way back keeps the order ProgressiveDelivery promises.  The         *)
(* invariant says, for the step under way and each place in it, which of   *)
(* its effects are done; a restart forgets the place, never the effects.   *)
(***************************************************************************)
EXTENDS PostPromotionSoak, TLAPS

\* The round under way has its verdict, and which one.
HasVerdict == Len(decisions) = flow.round + 1
Verdict == decisions[flow.round + 1].kind

\* What the workflow is about in the step it is in.
Applies(kind) == flow.pc = "apply" /\ Verdict = kind
Watches == flow.pc \in {"start", "observe"} \/ Applies("HOLD")
Keeps == Applies("COMPLETE")
GoesBack == flow.pc = "rollback_unobserved" \/ Applies("ROLLBACK")

\* One decision for each round, in order; every round but the last was a HOLD.
RoundsAreRecorded ==
    /\ Len(decisions) \in {flow.round, flow.round + 1}
    /\ \A i \in DOMAIN decisions : decisions[i].op = DecisionOp(i - 1)
    /\ \A i \in 1 .. flow.round : decisions[i].kind = "HOLD"
    /\ HasVerdict /\ Verdict = "HOLD" => flow.round < MaxHolds

\* Where a step is, what it may return, and what its outcome stands on.
StepsReturn ==
    /\ step.at = "returned" <=> step.outcome # Pending
    /\ flow.pc \in Ends => step.outcome = Pending
    /\ flow.pc = "start" =>
        /\ step.at \in {"begun", "returned"}
        /\ step.outcome \in {Pending, "observe", "error"}
        /\ ~HasVerdict
    /\ flow.pc = "observe" =>
        /\ step.at \in {"begun", "routed", "returned"}
        /\ step.outcome \in {Pending, "apply", "rollback_unobserved"}
        /\ step.at = "routed" => ~HasVerdict
        /\ step.outcome = "apply" => HasVerdict
        /\ step.outcome = "rollback_unobserved" => budget.faults > 0
    /\ flow.pc = "apply" =>
        /\ HasVerdict
        /\ step.outcome \in {Pending, "observe", "done", "error"}
        /\ step.outcome = "observe" => Verdict = "HOLD"
        /\ Verdict = "HOLD" => step.at \in {"begun", "returned"}
        /\ Verdict = "COMPLETE" => step.at \in {"begun", "stopped", "clean", "returned"}
    /\ flow.pc = "rollback_unobserved" =>
        /\ budget.faults > 0
        /\ step.outcome \in {Pending, "done", "error"}

\* How far the cycle is, and that it ends on its verdict.
CycleFollows ==
    /\ flow.pc = "start" => row.state \in {"PROMOTED", "SOAKING"}
    /\ flow.pc = "start" /\ step.outcome = "observe" => row.state = "SOAKING"
    /\ Watches /\ flow.pc # "start" => row.state = "SOAKING"
    /\ Keeps => row.state \in {"SOAKING", "COMPLETED"}
    /\ GoesBack => row.state \in {"SOAKING", "ROLLED_BACK"}
    /\ step.at \notin {"begun", "returned"} => row.state = "SOAKING"
    /\ row.state = "COMPLETED" => HasVerdict /\ Verdict = "COMPLETE"
    /\ row.state = "ROLLED_BACK" =>
         \/ HasVerdict /\ Verdict = "ROLLBACK"
         \/ budget.faults > 0

\* While the candidate is watched, both releases stand and it has all the traffic.
WatchedWorld ==
    Watches =>
        /\ route.weight = 100 /\ shifts \subseteq {RouteOp} /\ serving = "candidate"
        /\ host.head = "candidate" /\ host.candidate = "running" /\ host.baseline = "running"

\* Keeping the candidate touches the baseline and the worktree only, in this order.
KeptWorld ==
    Keeps =>
        /\ route.weight = 100 /\ serving = "candidate"
        /\ host.head = "candidate" /\ host.candidate = "running"
        /\ step.at \in {"stopped", "clean"} => host.baseline = "none"
        /\ step.at = "clean" => host.worktree = "absent"

\* On the way back each place stands on the effects of all the places before it.
RevertedWorld ==
    GoesBack =>
        /\ host.baseline = "running"
        /\ EffectOp("traffic") \in shifts => route.weight = 0
        /\ step.at \in {"traffic_back", "serving_back", "source_back", "stopped", "clean"} =>
             route.weight = 0
        /\ step.at \in {"serving_back", "source_back", "stopped", "clean"} =>
             serving = "baseline"
        /\ step.at \in {"source_back", "stopped", "clean"} => host.head = "baseline"
        /\ step.at \in {"stopped", "clean"} => host.candidate = "none"
        /\ step.at = "clean" => host.worktree = "absent"

World == WatchedWorld /\ KeptWorld /\ RevertedWorld /\ EveryRequestIsServed

IInv ==
    /\ TypeOK
    /\ RoundsAreRecorded
    /\ StepsReturn
    /\ CycleFollows
    /\ World
    /\ NothingLeftBehind

----------------------------------------------------------------------------
\* What the records hold, field by field.
LEMMA RowTyped ==
    ASSUME NEW to \in States, NEW decision \in Decisions \cup {NoDecision}, TypeOK
    PROVE  /\ Transitioned(row, to, {}, decision) \in Row
           /\ Transitioned(row, to, {}, decision).state = to
    BY DEF TypeOK, Transitioned, Decided, Row

LEMMA DecisionsTyped ==
    ASSUME TypeOK
    PROVE  /\ flow.round \in 0 .. MaxHolds
           /\ flow.round \in Nat
           /\ Len(decisions) \in Nat
           /\ DOMAIN decisions = 1 .. Len(decisions)
           /\ \A i \in DOMAIN decisions : decisions[i].kind \in {"HOLD", "ROLLBACK", "COMPLETE"}
<1>1. flow.round \in 0 .. MaxHolds /\ flow.round \in Nat
    BY PostPromotionSoakAssumption DEF TypeOK
<1>2. decisions \in Seq(Verdicts)
    BY DEF TypeOK
<1>3. \A v \in Verdicts : v.kind \in {"HOLD", "ROLLBACK", "COMPLETE"}
    BY DEF Verdicts
<1> QED
    BY <1>1, <1>2, <1>3

\* The step looks its decision up in the table, and finds the one of its round.
LEMMA LooksUpItsRound ==
    ASSUME TypeOK, RoundsAreRecorded
    PROVE  /\ Recorded(DecisionOp(flow.round)) # {} <=> HasVerdict
           /\ HasVerdict => KindOf(DecisionOp(flow.round)) = Verdict
<1>1. ASSUME NEW d \in Recorded(DecisionOp(flow.round))
      PROVE  HasVerdict /\ d = decisions[flow.round + 1]
    <2>1. PICK i \in DOMAIN decisions : d = decisions[i] /\ d.op = DecisionOp(flow.round)
        BY DEF Recorded
    <2>2. i - 1 = flow.round
        BY <2>1, DecisionsTyped DEF RoundsAreRecorded, DecisionOp
    <2> QED
        BY <2>1, <2>2, DecisionsTyped DEF RoundsAreRecorded, HasVerdict
<1>2. ASSUME HasVerdict
      PROVE  decisions[flow.round + 1] \in Recorded(DecisionOp(flow.round))
    <2>1. flow.round + 1 \in DOMAIN decisions /\ (flow.round + 1) - 1 = flow.round
        BY <1>2, DecisionsTyped DEF HasVerdict
    <2> QED
        BY <2>1 DEF RoundsAreRecorded, Recorded
<1> QED
    BY <1>1, <1>2 DEF KindOf, Verdict

\* A cycle is moved, and the step returns; or it throws and nothing has changed.
LEMMA MovesOrThrows ==
    ASSUME TypeOK, NEW op, NEW to \in States, NEW decision \in Decisions \cup {NoDecision},
           NEW next \in Steps \cup Ends, MoveCycle(op, to, decision, next)
    PROVE  /\ row' \in Row
           /\ \/ row'.state = to /\ Return(next)
              \/ row' = row /\ Throw
<1> DEFINE moved == Transitioned(row, to, {}, decision)
<1>1. moved \in Row /\ moved.state = to
    BY RowTyped
<1>2. row \in Row
    BY DEF TypeOK
<1>3. \/ row' = moved /\ Return(next)
      \/ row' = row /\ Throw
    BY DEF MoveCycle
<1> QED
    BY <1>1, <1>2, <1>3

LEMMA RouteTyped ==
    ASSUME TypeOK, NEW op, NEW weight \in {0, 100}, Route(op, weight)
    PROVE  /\ route' \in [experiment : {"canary", "soak"}, weight : {0, 100}]
           /\ \/ op \in shifts /\ route' = route /\ shifts' = shifts
              \/ route'.weight = weight /\ shifts' = shifts \cup {op}
    BY DEF Route, TypeOK

----------------------------------------------------------------------------
LEMMA InitIInv == Init => IInv
<1> SUFFICES ASSUME Init
             PROVE  IInv
    OBVIOUS
<1>1. TypeOK
    BY PostPromotionSoakAssumption
    DEF Init, TypeOK, Row, States, ActiveStates, Evidence, Decisions, Fresh, Pending, Steps, Places
<1>2. RoundsAreRecorded
    BY DEF Init, RoundsAreRecorded, HasVerdict
<1>3. StepsReturn
    BY DEF Init, StepsReturn, Fresh, Pending, Ends, HasVerdict
<1>4. CycleFollows
    BY DEF Init, CycleFollows, Fresh, Pending, Watches, Keeps, GoesBack, Applies
<1>5. World /\ NothingLeftBehind
    BY DEF Init, World, WatchedWorld, KeptWorld, RevertedWorld, EveryRequestIsServed,
           NothingLeftBehind, Keeps, GoesBack, Applies, Fresh
<1> QED
    BY <1>1, <1>2, <1>3, <1>4, <1>5 DEF IInv

\* A step that neither judges nor is recorded leaves the rounds as they are.
LEMMA SameRound ==
    ASSUME RoundsAreRecorded, UNCHANGED <<decisions, flow>>
    PROVE  /\ RoundsAreRecorded'
           /\ HasVerdict' = HasVerdict /\ Verdict' = Verdict
           /\ Watches' = Watches /\ Keeps' = Keeps /\ GoesBack' = GoesBack
    BY DEF RoundsAreRecorded, HasVerdict, Verdict, Watches, Keeps, GoesBack, Applies, DecisionOp

LEMMA StartIInv == IInv /\ Start => IInv'
<1> SUFFICES ASSUME IInv, Start
             PROVE  IInv'
    OBVIOUS
<1>1. flow.pc = "start" /\ UNCHANGED <<decisions, flow, serving, route, shifts, host, budget>>
    BY DEF Start, At, outside, recorded
<1>2. /\ row' \in Row
      /\ \/ row'.state = "SOAKING" /\ Return("observe")
         \/ row' = row /\ Return("error")
    <2>1. "SOAKING" \in States /\ NoDecision \in Decisions \cup {NoDecision} /\ "observe" \in Steps
        BY DEF States, ActiveStates, Steps
    <2> QED
        BY <1>1, <2>1, MovesOrThrows DEF Start, Throw, IInv, TypeOK
<1>3. TypeOK'
    BY <1>1, <1>2 DEF IInv, TypeOK, Return, Steps, Ends, Places
<1>4. RoundsAreRecorded'
    BY <1>1, SameRound DEF IInv
<1>5. StepsReturn'
    BY <1>1, <1>2 DEF IInv, StepsReturn, Return, Pending, Ends, HasVerdict
<1>6. CycleFollows'
    BY <1>1, <1>2 DEF IInv, CycleFollows, StepsReturn, Return, Pending, Watches, Keeps, GoesBack, Applies, HasVerdict
<1>7. World' /\ NothingLeftBehind'
    BY <1>1, <1>2 DEF IInv, World, WatchedWorld, KeptWorld, RevertedWorld,
           EveryRequestIsServed, NothingLeftBehind, CycleFollows, Return, Watches, Keeps, GoesBack, Applies
<1> QED
    BY <1>3, <1>4, <1>5, <1>6, <1>7 DEF IInv

LEMMA ExposeIInv == IInv /\ Expose => IInv'
<1> SUFFICES ASSUME IInv, Expose
             PROVE  IInv'
    OBVIOUS
<1>1. /\ flow.pc = "observe" /\ step.at = "begun" /\ step.outcome = Pending
      /\ UNCHANGED <<row, decisions, serving, flow, budget>>
    BY DEF Expose, At, database, recorded
<1>2. row.state = "SOAKING" /\ serving = "candidate" /\ Watches
    BY <1>1 DEF IInv, CycleFollows, World, WatchedWorld, Watches
<1>3. \/ HasVerdict /\ Return("apply") /\ UNCHANGED <<route, shifts, host>>
      \/ /\ ~HasVerdict /\ Goto("routed") /\ Route(RouteOp, 100)
         /\ host' = [host EXCEPT !.baseline = "running", !.candidate = "running"]
    BY <1>2, LooksUpItsRound DEF Expose, IInv
<1>4. /\ route' \in [experiment : {"canary", "soak"}, weight : {0, 100}]
      /\ route'.weight = 100 /\ shifts' \subseteq {RouteOp}
    BY <1>2, <1>3, RouteTyped DEF IInv, TypeOK, World, WatchedWorld
<1>5. TypeOK'
    <2>1. step' \in [at : Places, outcome : Steps \cup Ends \cup {Pending}]
        BY <1>3 DEF IInv, TypeOK, Return, Goto, Steps, Places
    <2>2. host' \in [head : {"candidate", "baseline"}, worktree : {"committed", "absent"},
                     candidate : {"running", "none"}, baseline : {"running", "none"}]
        BY <1>3 DEF IInv, TypeOK
    <2> QED
        BY <1>1, <1>4, <2>1, <2>2 DEF IInv, TypeOK
<1>6. RoundsAreRecorded'
    BY <1>1, SameRound DEF IInv
<1>7. StepsReturn'
    BY <1>1, <1>3 DEF IInv, TypeOK, StepsReturn, Return, Goto, Pending, Ends, HasVerdict
<1>8. CycleFollows' /\ NothingLeftBehind'
    BY <1>1, <1>2, SameRound
    DEF IInv, CycleFollows, NothingLeftBehind, Watches, Keeps, GoesBack, Applies
<1>9. World'
    BY <1>1, <1>2, <1>3, <1>4, SameRound
    DEF IInv, TypeOK, World, WatchedWorld, KeptWorld, RevertedWorld, EveryRequestIsServed,
        Keeps, GoesBack, Applies
<1> QED
    BY <1>5, <1>6, <1>7, <1>8, <1>9 DEF IInv

\* The verdict of a round is recorded in a round that has none.
LEMMA JudgeIInv == IInv /\ Judge => IInv'
<1> SUFFICES ASSUME IInv, Judge
             PROVE  IInv'
    OBVIOUS
<1>1. /\ flow.pc = "observe" /\ step.at = "routed" /\ Return("apply")
      /\ UNCHANGED <<row, serving, route, shifts, host, flow, budget>>
    BY DEF Judge, At, outside, recorded
<1>2. PICK kind \in {"HOLD", "ROLLBACK", "COMPLETE"} :
        /\ kind = "HOLD" => flow.round < MaxHolds
        /\ RecordDecision(kind)
    BY DEF Judge
<1>3. Len(decisions) = flow.round
    BY <1>1, DecisionsTyped DEF IInv, StepsReturn, RoundsAreRecorded, HasVerdict
<1> DEFINE verdict == [op |-> DecisionOp(flow.round), kind |-> kind]
<1>4. verdict \in Verdicts /\ decisions \in Seq(Verdicts)
    BY DecisionsTyped DEF IInv, TypeOK, Verdicts
<1>5. /\ decisions' \in Seq(Verdicts)
      /\ Len(decisions') = flow.round + 1
      /\ \A i \in 1 .. flow.round : decisions'[i] = decisions[i]
      /\ decisions'[flow.round + 1] = verdict
    BY <1>2, <1>3, <1>4, DecisionsTyped DEF RecordDecision, IInv
<1>6. TypeOK'
    BY <1>1, <1>5 DEF IInv, TypeOK, Return, Steps, Places, Verdicts, DecisionOp
<1>7. RoundsAreRecorded' /\ HasVerdict' /\ Verdict' = kind
    <2>1. HasVerdict' /\ Verdict' = kind
        BY <1>1, <1>5 DEF HasVerdict, Verdict
    <2>2. \A i \in DOMAIN decisions' : decisions'[i].op = DecisionOp(i - 1)
        <3>1. TAKE i \in DOMAIN decisions'
        <3>2. i \in 1 .. flow.round + 1 /\ flow.round \in Nat
            BY <1>5, DecisionsTyped DEF IInv
        <3>3. CASE i = flow.round + 1
            BY <1>5, <3>2, <3>3
        <3>4. CASE i \in 1 .. flow.round
            BY <1>3, <1>5, <3>4, DecisionsTyped DEF IInv, RoundsAreRecorded
        <3> QED
            BY <3>2, <3>3, <3>4
    <2>3. \A i \in 1 .. flow'.round : decisions'[i].kind = "HOLD"
        BY <1>1, <1>5 DEF IInv, RoundsAreRecorded
    <2> QED
        BY <1>1, <1>2, <1>5, <2>1, <2>2, <2>3 DEF RoundsAreRecorded, DecisionOp
<1>8. StepsReturn'
    BY <1>1, <1>7 DEF StepsReturn, Return, Pending, Ends
<1>9. CycleFollows' /\ NothingLeftBehind'
    BY <1>1, <1>7 DEF IInv, CycleFollows, NothingLeftBehind, Return, Watches, Keeps, GoesBack, Applies
<1>10. World'
    BY <1>1, <1>7
    DEF IInv, World, WatchedWorld, KeptWorld, RevertedWorld, EveryRequestIsServed,
        Watches, Keeps, GoesBack, Applies, RouteOp
<1> QED
    BY <1>6, <1>7, <1>8, <1>9, <1>10 DEF IInv

\* The step of apply takes the branch of its round's verdict, whenever it looks.
LEMMA AppliesItsVerdict ==
    ASSUME IInv
    PROVE  /\ flow.pc = "apply" => KindOf(DecisionOp(flow.round)) = Verdict
           /\ Completing <=> Keeps
           /\ RollingBack <=> GoesBack
           /\ flow.pc = "apply" => Watches \/ Keeps \/ GoesBack
<1>1. flow.pc = "apply" => HasVerdict /\ KindOf(DecisionOp(flow.round)) = Verdict
    BY LooksUpItsRound DEF IInv, StepsReturn
<1>2. HasVerdict => Verdict \in {"HOLD", "ROLLBACK", "COMPLETE"}
    BY DecisionsTyped DEF IInv, HasVerdict, Verdict
<1> QED
    BY <1>1, <1>2 DEF Completing, RollingBack, Watches, Keeps, GoesBack, Applies

LEMMA ApplyHoldIInv == IInv /\ ApplyHold => IInv'
<1> SUFFICES ASSUME IInv, ApplyHold
             PROVE  IInv'
    OBVIOUS
<1>1. /\ flow.pc = "apply" /\ Applies("HOLD") /\ Watches
      /\ UNCHANGED <<row, decisions, serving, route, shifts, host, flow, budget>>
    BY AppliesItsVerdict DEF ApplyHold, At, database, outside, recorded, Applies, Watches
<1>2. Return("observe")
    BY <1>1 DEF ApplyHold, IInv, CycleFollows
<1>3. TypeOK'
    BY <1>1, <1>2 DEF IInv, TypeOK, Return, Steps, Places
<1>4. RoundsAreRecorded'
    BY <1>1, SameRound DEF IInv
<1>5. StepsReturn'
    BY <1>1, <1>2, SameRound DEF IInv, StepsReturn, Return, Pending, Ends, Applies
<1>6. CycleFollows' /\ World' /\ NothingLeftBehind'
    BY <1>1, <1>2, SameRound
    DEF IInv, CycleFollows, World, WatchedWorld, KeptWorld, RevertedWorld, EveryRequestIsServed,
        NothingLeftBehind, Return, Applies, Keeps, GoesBack
<1> QED
    BY <1>3, <1>4, <1>5, <1>6 DEF IInv

LEMMA StopBaselineIInv == IInv /\ StopBaseline => IInv'
<1> SUFFICES ASSUME IInv, StopBaseline
             PROVE  IInv'
    OBVIOUS
<1>1. /\ flow.pc = "apply" /\ Keeps /\ ~Watches /\ ~GoesBack
      /\ step.at = "begun" /\ step.outcome = Pending
      /\ UNCHANGED <<row, decisions, serving, route, shifts, flow, budget>>
    BY AppliesItsVerdict
    DEF StopBaseline, At, database, recorded, Completing, Keeps, GoesBack, Watches, Applies
<1>2. \/ /\ row.state = "SOAKING" /\ Goto("stopped")
         /\ host' = [host EXCEPT !.baseline = "none"]
      \/ row.state = "COMPLETED" /\ Return("done") /\ UNCHANGED host
    BY <1>1 DEF StopBaseline, IInv, CycleFollows
<1>3. TypeOK'
    <2>1. step' \in [at : Places, outcome : Steps \cup Ends \cup {Pending}]
        BY <1>2 DEF IInv, TypeOK, Return, Goto, Ends, Places
    <2>2. host' \in [head : {"candidate", "baseline"}, worktree : {"committed", "absent"},
                     candidate : {"running", "none"}, baseline : {"running", "none"}]
        BY <1>2 DEF IInv, TypeOK
    <2> QED
        BY <1>1, <2>1, <2>2 DEF IInv, TypeOK
<1>4. RoundsAreRecorded'
    BY <1>1, SameRound DEF IInv
<1>5. StepsReturn'
    BY <1>1, <1>2, SameRound DEF IInv, TypeOK, StepsReturn, Return, Goto, Pending, Ends, Keeps, Applies
<1>6. CycleFollows'
    BY <1>1, <1>2, SameRound DEF IInv, TypeOK, CycleFollows, Return, Goto
<1>7. World' /\ NothingLeftBehind'
    BY <1>1, <1>2, SameRound
    DEF IInv, TypeOK, World, WatchedWorld, KeptWorld, RevertedWorld, EveryRequestIsServed,
        NothingLeftBehind, Return, Goto
<1> QED
    BY <1>3, <1>4, <1>5, <1>6, <1>7 DEF IInv

LEMMA RemoveWorktreeIInv == IInv /\ RemoveWorktree => IInv'
<1> SUFFICES ASSUME IInv, RemoveWorktree
             PROVE  IInv'
    OBVIOUS
<1>1. /\ flow.pc \in {"apply", "rollback_unobserved"} /\ ~Watches
      /\ step.at = "stopped" /\ step.outcome = Pending /\ Goto("clean")
      /\ host' = [host EXCEPT !.worktree = "absent"]
      /\ UNCHANGED <<row, decisions, serving, route, shifts, flow, budget>>
    BY DEF RemoveWorktree, At, database, recorded, Watches, Applies, IInv, StepsReturn
<1>2. row.state = "SOAKING"
    BY <1>1 DEF IInv, CycleFollows
<1>3. TypeOK'
    <2>1. host' \in [head : {"candidate", "baseline"}, worktree : {"committed", "absent"},
                     candidate : {"running", "none"}, baseline : {"running", "none"}]
        BY <1>1 DEF IInv, TypeOK
    <2> QED
        BY <1>1, <2>1 DEF IInv, TypeOK, Goto, Places
<1>4. RoundsAreRecorded'
    BY <1>1, SameRound DEF IInv
<1>5. StepsReturn' /\ CycleFollows'
    BY <1>1, <1>2, SameRound
    DEF IInv, TypeOK, StepsReturn, CycleFollows, Goto, Pending, Ends, Watches, Applies
<1>6. World' /\ NothingLeftBehind'
    BY <1>1, <1>2, SameRound
    DEF IInv, TypeOK, World, WatchedWorld, KeptWorld, RevertedWorld, EveryRequestIsServed,
        NothingLeftBehind, Goto
<1> QED
    BY <1>3, <1>4, <1>5, <1>6 DEF IInv

\* The cycle ends with every effect of its end done.
LEMMA EndCycleIInv == IInv /\ EndCycle => IInv'
<1> SUFFICES ASSUME IInv, EndCycle
             PROVE  IInv'
    OBVIOUS
<1>1. /\ flow.pc \in {"apply", "rollback_unobserved"} /\ ~Watches
      /\ step.at = "clean" /\ step.outcome = Pending
      /\ UNCHANGED <<decisions, serving, route, shifts, host, flow, budget>>
    BY DEF EndCycle, At, outside, recorded, Watches, Applies, IInv, StepsReturn
<1>2. Keeps \/ GoesBack
    BY <1>1, AppliesItsVerdict DEF Keeps, GoesBack, Watches, Applies
<1>3. /\ row' \in Row
      /\ \/ Keeps /\ row'.state = "COMPLETED" /\ Return("done")
         \/ GoesBack /\ row'.state = "ROLLED_BACK" /\ Return("done")
         \/ row' = row /\ Return("error")
    <2>1. /\ {"COMPLETED", "ROLLED_BACK"} \subseteq States /\ "done" \in Ends
          /\ {NoDecision, "ROLLBACK"} \subseteq Decisions \cup {NoDecision}
        BY DEF States, TerminalStates, Ends, Decisions
    <2>2. Throw => Return("error")
        BY <1>1 DEF Throw
    <2>3. CASE Completing
        <3>1. MoveCycle(EffectOp("complete"), "COMPLETED", NoDecision, "done")
            BY <2>3 DEF EndCycle
        <3> QED
            BY <2>1, <2>2, <2>3, <3>1, MovesOrThrows, AppliesItsVerdict DEF IInv
    <2>4. CASE ~Completing
        <3>1. MoveCycle(EffectOp("cycle"), "ROLLED_BACK", "ROLLBACK", "done")
            BY <2>4 DEF EndCycle
        <3> QED
            BY <1>2, <2>1, <2>2, <2>4, <3>1, MovesOrThrows, AppliesItsVerdict DEF IInv
    <2> QED
        BY <2>3, <2>4
<1>4. TypeOK'
    BY <1>1, <1>3 DEF IInv, TypeOK, Return, Ends, Places
<1>5. RoundsAreRecorded'
    BY <1>1, SameRound DEF IInv
<1>6. StepsReturn'
    BY <1>1, <1>3, SameRound DEF IInv, StepsReturn, Return, Pending, Ends, Applies, Watches
<1>7. ~Watches' /\ Keeps' = Keeps /\ GoesBack' = GoesBack /\ ~(Keeps /\ GoesBack)
    BY <1>1, SameRound DEF IInv, Keeps, GoesBack, Applies
<1>8. CycleFollows'
    BY <1>1, <1>3, <1>7, SameRound
    DEF IInv, CycleFollows, StepsReturn, Return, Keeps, GoesBack, Applies
<1>9. World'
    BY <1>1, <1>3, <1>7
    DEF IInv, World, WatchedWorld, KeptWorld, RevertedWorld, EveryRequestIsServed, EffectOp, Return
<1>10. NothingLeftBehind'
    BY <1>1, <1>3 DEF IInv, TypeOK, World, KeptWorld, RevertedWorld, NothingLeftBehind
<1> QED
    BY <1>4, <1>5, <1>6, <1>8, <1>9, <1>10 DEF IInv

----------------------------------------------------------------------------
\* Where the way back leads from a place: a cycle still soaking, and nobody else under way.
LEMMA OnTheWayBack ==
    ASSUME IInv, RollingBack, NEW place \in Places \ {"returned"}, At(flow.pc, place)
    PROVE  /\ flow.pc \in {"apply", "rollback_unobserved"}
           /\ GoesBack /\ ~Keeps /\ ~Watches
           /\ place # "begun" => row.state = "SOAKING"
           /\ step = [at |-> place, outcome |-> Pending]
    BY AppliesItsVerdict
    DEF IInv, TypeOK, CycleFollows, At, Places, RollingBack, GoesBack, Keeps, Watches, Applies

LEMMA ResolveBaselineIInv == IInv /\ ResolveBaseline => IInv'
<1> SUFFICES ASSUME IInv, ResolveBaseline
             PROVE  IInv'
    OBVIOUS
<1>1. /\ flow.pc \in {"apply", "rollback_unobserved"}
      /\ GoesBack /\ ~Keeps /\ ~Watches
      /\ step = [at |-> "begun", outcome |-> Pending]
      /\ UNCHANGED <<row, decisions, serving, route, shifts, flow, budget>>
    BY OnTheWayBack DEF ResolveBaseline, database, recorded, Places
<1>2. /\ \/ row.state = "SOAKING" /\ Goto("resolved")
         \/ Return("done")
         \/ Return("error")
      /\ host' = host
    BY <1>1 DEF ResolveBaseline, Throw, IInv, TypeOK, World, RevertedWorld
<1>3. TypeOK'
    BY <1>1, <1>2 DEF IInv, TypeOK, Return, Goto, Ends, Places
<1>4. RoundsAreRecorded'
    BY <1>1, SameRound DEF IInv
<1>5. StepsReturn'
    BY <1>1, <1>2, SameRound DEF IInv, StepsReturn, Return, Goto, Pending, Ends, Applies, GoesBack
<1>6. CycleFollows'
    BY <1>1, <1>2, SameRound DEF IInv, CycleFollows, Return, Goto
<1>7. World' /\ NothingLeftBehind'
    BY <1>1, <1>2, SameRound
    DEF IInv, World, WatchedWorld, KeptWorld, RevertedWorld, EveryRequestIsServed,
        NothingLeftBehind, EffectOp, Return, Goto
<1> QED
    BY <1>3, <1>4, <1>5, <1>6, <1>7 DEF IInv

\* Past its beginning, a rollback moves the place and the world only.
LEMMA GoingOnBack ==
    ASSUME IInv, RollingBack, NEW place \in Places \ {"begun", "returned"}, At(flow.pc, place),
           NEW next \in Places \ {"begun", "returned"}, Goto(next),
           UNCHANGED <<row, decisions, flow, budget>>
    PROVE  /\ step' = [at |-> next, outcome |-> Pending]
           /\ step' \in [at : Places, outcome : Steps \cup Ends \cup {Pending}]
           /\ RoundsAreRecorded' /\ StepsReturn' /\ CycleFollows' /\ NothingLeftBehind'
           /\ GoesBack /\ GoesBack' /\ ~Keeps' /\ ~Watches'
<1>1. /\ flow.pc \in {"apply", "rollback_unobserved"}
      /\ GoesBack /\ ~Keeps /\ ~Watches /\ row.state = "SOAKING"
      /\ step = [at |-> place, outcome |-> Pending]
    BY OnTheWayBack
<1>2. step' = [at |-> next, outcome |-> Pending]
    BY <1>1 DEF Goto
<1>3. RoundsAreRecorded' /\ GoesBack' /\ ~Keeps' /\ ~Watches' /\ HasVerdict' = HasVerdict
      /\ Verdict' = Verdict
    BY <1>1, SameRound DEF IInv
<1>4. StepsReturn'
    BY <1>1, <1>2, <1>3
    DEF IInv, StepsReturn, Pending, Ends, GoesBack, Applies
<1>5. CycleFollows' /\ NothingLeftBehind'
    BY <1>1, <1>3 DEF IInv, CycleFollows, NothingLeftBehind
<1> QED
    BY <1>1, <1>2, <1>3, <1>4, <1>5

LEMMA RestoreTrafficIInv == IInv /\ RestoreTraffic => IInv'
<1> SUFFICES ASSUME IInv, RestoreTraffic
             PROVE  IInv'
    OBVIOUS
<1>1. /\ RollingBack /\ At(flow.pc, "resolved") /\ Goto("traffic_back")
      /\ Route(EffectOp("traffic"), 0)
      /\ UNCHANGED <<row, decisions, serving, host, flow, budget>>
    BY DEF RestoreTraffic, database, recorded
<1>2. {"resolved", "traffic_back"} \subseteq Places \ {"begun", "returned"}
    BY DEF Places
<1>3. /\ route' \in [experiment : {"canary", "soak"}, weight : {0, 100}]
      /\ route'.weight = 0
    BY <1>1, <1>2, RouteTyped, OnTheWayBack DEF IInv, World, RevertedWorld
<1>4. TypeOK'
    BY <1>1, <1>2, <1>3, GoingOnBack DEF IInv, TypeOK
<1>5. World'
    BY <1>1, <1>2, <1>3, GoingOnBack
    DEF IInv, World, WatchedWorld, KeptWorld, RevertedWorld, EveryRequestIsServed
<1> QED
    BY <1>1, <1>2, <1>4, <1>5, GoingOnBack DEF IInv

LEMMA RestoreServingIInv == IInv /\ RestoreServing => IInv'
<1> SUFFICES ASSUME IInv, RestoreServing
             PROVE  IInv'
    OBVIOUS
<1>1. /\ RollingBack /\ At(flow.pc, "traffic_back") /\ Goto("serving_back")
      /\ serving' = "baseline"
      /\ UNCHANGED <<row, decisions, route, shifts, host, flow, budget>>
    BY DEF RestoreServing, outside, recorded
<1>2. {"traffic_back", "serving_back"} \subseteq Places \ {"begun", "returned"}
    BY DEF Places
<1>3. TypeOK'
    BY <1>1, <1>2, GoingOnBack DEF IInv, TypeOK
<1>4. World'
    BY <1>1, <1>2, GoingOnBack
    DEF IInv, World, WatchedWorld, KeptWorld, RevertedWorld, EveryRequestIsServed, At, EffectOp
<1> QED
    BY <1>1, <1>2, <1>3, <1>4, GoingOnBack DEF IInv

LEMMA RestoreSourceIInv == IInv /\ RestoreSource => IInv'
<1> SUFFICES ASSUME IInv, RestoreSource
             PROVE  IInv'
    OBVIOUS
<1>1. /\ RollingBack /\ At(flow.pc, "serving_back") /\ Goto("source_back")
      /\ host' = [host EXCEPT !.head = "baseline"]
      /\ UNCHANGED <<row, decisions, serving, route, shifts, flow, budget>>
    BY DEF RestoreSource, database, recorded
<1>2. {"serving_back", "source_back"} \subseteq Places \ {"begun", "returned"}
    BY DEF Places
<1>3. TypeOK'
    BY <1>1, <1>2, GoingOnBack DEF IInv, TypeOK
<1>4. World'
    <2>1. route.weight = 0 /\ serving = "baseline" /\ host.baseline = "running"
        BY <1>1, <1>2, GoingOnBack DEF IInv, World, RevertedWorld, At
    <2>2. /\ route'.weight = 0 /\ serving' = "baseline"
          /\ host'.head = "baseline" /\ host'.baseline = "running"
        BY <1>1, <2>1 DEF IInv, TypeOK
    <2> QED
        BY <1>1, <1>2, <2>2, GoingOnBack
        DEF World, WatchedWorld, KeptWorld, RevertedWorld, EveryRequestIsServed
<1> QED
    BY <1>1, <1>2, <1>3, <1>4, GoingOnBack DEF IInv

LEMMA StopCandidateIInv == IInv /\ StopCandidate => IInv'
<1> SUFFICES ASSUME IInv, StopCandidate
             PROVE  IInv'
    OBVIOUS
<1>1. /\ RollingBack /\ At(flow.pc, "source_back") /\ Goto("stopped")
      /\ host' = [host EXCEPT !.candidate = "none"]
      /\ UNCHANGED <<row, decisions, serving, route, shifts, flow, budget>>
    BY DEF StopCandidate, database, recorded
<1>2. {"source_back", "stopped"} \subseteq Places \ {"begun", "returned"}
    BY DEF Places
<1>3. TypeOK'
    BY <1>1, <1>2, GoingOnBack DEF IInv, TypeOK
<1>4. World'
    <2>1. /\ route.weight = 0 /\ serving = "baseline" /\ host.head = "baseline"
          /\ host.baseline = "running"
        BY <1>1, <1>2, GoingOnBack DEF IInv, World, RevertedWorld, At
    <2>2. /\ route'.weight = 0 /\ serving' = "baseline" /\ host'.head = "baseline"
          /\ host'.baseline = "running" /\ host'.candidate = "none"
        BY <1>1, <2>1 DEF IInv, TypeOK
    <2> QED
        BY <1>1, <1>2, <2>2, GoingOnBack
        DEF World, WatchedWorld, KeptWorld, RevertedWorld, EveryRequestIsServed
<1> QED
    BY <1>1, <1>2, <1>3, <1>4, GoingOnBack DEF IInv

----------------------------------------------------------------------------
LEMMA EffectsAreNotTheRoute ==
    ASSUME NEW pc, NEW round \in Nat
    PROVE  <<pc, "traffic", round>> # RouteOp
    BY DEF RouteOp

\* The workflow goes to the step its outcome names; only a HOLD opens a new round.
LEMMA RecordIInv == IInv /\ Record => IInv'
<1> SUFFICES ASSUME IInv, Record
             PROVE  IInv'
    OBVIOUS
<1>1. /\ UNCHANGED <<row, decisions, serving, route, shifts, host, budget>>
      /\ step.outcome # Pending /\ step' = Fresh
      /\ flow'.pc = step.outcome
      /\ flow' = [pc |-> step.outcome,
                  round |-> IF flow.pc = "apply" /\ step.outcome = "observe"
                              THEN flow.round + 1 ELSE flow.round]
    BY DEF Record, database, outside
<1>2. flow.pc \in Steps /\ step.outcome \in Steps \cup Ends
    BY <1>1 DEF IInv, TypeOK, StepsReturn
<1>3. CASE flow.pc = "apply" /\ step.outcome = "observe"
    <2>1. /\ HasVerdict /\ Verdict = "HOLD" /\ Watches /\ flow.round < MaxHolds
          /\ row.state = "SOAKING"
        BY <1>3 DEF IInv, StepsReturn, CycleFollows, RoundsAreRecorded, Watches, Applies
    <2>2. /\ flow'.pc = "observe" /\ flow'.round = flow.round + 1
          /\ flow'.round \in 0 .. MaxHolds /\ Len(decisions) = flow'.round
        BY <1>1, <1>3, <2>1, DecisionsTyped, PostPromotionSoakAssumption DEF HasVerdict, IInv
    <2>3. TypeOK'
        BY <1>1, <2>2 DEF IInv, TypeOK, Fresh, Steps, Places, Pending
    <2>4. ~HasVerdict'
        BY <1>1, <2>2, DecisionsTyped DEF HasVerdict, IInv
    <2>5. RoundsAreRecorded'
        <3>1. \A i \in 1 .. flow'.round : decisions'[i].kind = "HOLD"
            BY <1>1, <2>1, <2>2, DecisionsTyped DEF IInv, RoundsAreRecorded, Verdict
        <3> QED
            BY <1>1, <2>2, <2>4, <3>1 DEF IInv, RoundsAreRecorded, DecisionOp
    <2>6. StepsReturn' /\ CycleFollows' /\ NothingLeftBehind'
        BY <1>1, <2>1, <2>2, <2>4
        DEF IInv, StepsReturn, CycleFollows, NothingLeftBehind, Fresh, Pending, Ends, Watches, Keeps,
            GoesBack, Applies
    <2>7. World'
        BY <1>1, <2>1, <2>2
        DEF IInv, World, WatchedWorld, KeptWorld, RevertedWorld, EveryRequestIsServed, Keeps,
            GoesBack, Applies
    <2> QED
        BY <2>3, <2>5, <2>6, <2>7 DEF IInv
<1>4. CASE ~(flow.pc = "apply" /\ step.outcome = "observe")
    <2>1. flow'.round = flow.round /\ flow' = [pc |-> step.outcome, round |-> flow.round]
        BY <1>1, <1>4
    <2>2. TypeOK'
        BY <1>1, <1>2, <2>1 DEF IInv, TypeOK, Fresh, Steps, Places, Pending
    <2>3. RoundsAreRecorded' /\ HasVerdict' = HasVerdict /\ Verdict' = Verdict
        BY <1>1, <2>1 DEF IInv, RoundsAreRecorded, HasVerdict, Verdict, DecisionOp
    <2>4. StepsReturn'
        BY <1>1, <1>2, <1>4, <2>1, <2>3 DEF IInv, StepsReturn, Fresh, Pending, Steps, Ends
    <2>5. HasVerdict => Verdict \in {"HOLD", "ROLLBACK", "COMPLETE"}
        BY DecisionsTyped DEF IInv, HasVerdict, Verdict
    <2>6. CycleFollows'
        BY <1>1, <1>2, <1>4, <2>1, <2>3, <2>5
        DEF IInv, CycleFollows, StepsReturn, Fresh, Pending, Steps, Ends, Watches, Keeps, GoesBack,
            Applies
    <2>7. World' /\ NothingLeftBehind'
        <3>1. EveryRequestIsServed' /\ NothingLeftBehind'
            BY <1>1 DEF IInv, World, EveryRequestIsServed, NothingLeftBehind
        <3>2. CASE flow.pc \in {"start", "observe"}
            <4>1. EffectOp("traffic")' # RouteOp
                BY <1>1, <2>1, EffectsAreNotTheRoute, DecisionsTyped DEF EffectOp, IInv
            <4> QED
                BY <1>1, <1>2, <3>1, <3>2, <4>1
                DEF IInv, World, WatchedWorld, KeptWorld, RevertedWorld, Fresh, Watches
        <3>3. CASE flow.pc \in {"apply", "rollback_unobserved"}
            <4>1. flow'.pc \in Ends
                BY <1>1, <1>4, <3>3 DEF IInv, StepsReturn, Ends
            <4> QED
                BY <3>1, <4>1
                DEF World, WatchedWorld, KeptWorld, RevertedWorld, Watches, Keeps, GoesBack, Applies,
                    Ends
        <3> QED
            BY <1>2, <3>2, <3>3 DEF Steps
    <2> QED
        BY <2>2, <2>3, <2>4, <2>6, <2>7 DEF IInv
<1> QED
    BY <1>3, <1>4

\* What fails is forgotten: the step throws, the effects stay.
LEMMA FaultIInv == IInv /\ Fault => IInv'
<1> SUFFICES ASSUME IInv, Fault
             PROVE  IInv'
    OBVIOUS
<1>1. /\ UNCHANGED <<row, decisions, serving, route, shifts, host, flow>>
      /\ flow.pc \in Steps
      /\ \/ flow.pc = "observe" /\ Return("rollback_unobserved")
         \/ flow.pc # "observe" /\ Return("error")
    BY DEF Fault, Throw, database, outside
<1>2. budget'.faults > 0 /\ budget' \in [crashes : 0 .. MaxCrashes, faults : 0 .. MaxFaults]
    BY PostPromotionSoakAssumption DEF Fault, IInv, TypeOK
<1>3. TypeOK'
    BY <1>1, <1>2 DEF IInv, TypeOK, Return, Steps, Ends, Places
<1>4. /\ RoundsAreRecorded' /\ HasVerdict' = HasVerdict /\ Verdict' = Verdict
      /\ Watches' = Watches /\ Keeps' = Keeps /\ GoesBack' = GoesBack
    BY <1>1, SameRound DEF IInv
<1>5. StepsReturn'
    BY <1>1, <1>2, <1>4 DEF IInv, StepsReturn, Return, Pending, Steps, Ends
<1>6. CycleFollows'
    BY <1>1, <1>2, <1>4 DEF IInv, CycleFollows, Return
<1>7. World' /\ NothingLeftBehind'
    BY <1>1, <1>4
    DEF IInv, World, WatchedWorld, KeptWorld, RevertedWorld, EveryRequestIsServed,
        NothingLeftBehind, EffectOp, Return
<1> QED
    BY <1>3, <1>4, <1>5, <1>6, <1>7 DEF IInv

\* A restart loses the place and begins the step again.
LEMMA RestartIInv == IInv /\ Restart => IInv'
<1> SUFFICES ASSUME IInv, Restart
             PROVE  IInv'
    OBVIOUS
<1>1. /\ UNCHANGED <<row, decisions, serving, route, shifts, host, flow>>
      /\ flow.pc \in Steps /\ step' = Fresh
      /\ budget' \in [crashes : 0 .. MaxCrashes, faults : 0 .. MaxFaults]
      /\ budget'.faults = budget.faults
    BY PostPromotionSoakAssumption DEF Restart, database, outside, IInv, TypeOK
<1>2. TypeOK'
    BY <1>1 DEF IInv, TypeOK, Fresh, Places, Pending
<1>3. /\ RoundsAreRecorded' /\ HasVerdict' = HasVerdict /\ Verdict' = Verdict
      /\ Watches' = Watches /\ Keeps' = Keeps /\ GoesBack' = GoesBack
    BY <1>1, SameRound DEF IInv
<1>4. StepsReturn' /\ CycleFollows'
    BY <1>1, <1>3 DEF IInv, StepsReturn, CycleFollows, Fresh, Pending, Steps, Ends
<1>5. World' /\ NothingLeftBehind'
    BY <1>1, <1>3
    DEF IInv, World, WatchedWorld, KeptWorld, RevertedWorld, EveryRequestIsServed,
        NothingLeftBehind, EffectOp, Fresh
<1> QED
    BY <1>2, <1>3, <1>4, <1>5 DEF IInv

LEMMA NextIInv == IInv /\ [Next]_vars => IInv'
<1> SUFFICES ASSUME IInv, [Next]_vars
             PROVE  IInv'
    OBVIOUS
<1>1. CASE UNCHANGED vars
    BY <1>1
    DEF vars, IInv, TypeOK, RoundsAreRecorded, StepsReturn, CycleFollows, World, WatchedWorld,
        KeptWorld, RevertedWorld, EveryRequestIsServed, NothingLeftBehind, HasVerdict, Verdict,
        Watches, Keeps, GoesBack, Applies, EffectOp
<1>2. CASE Watching
    BY <1>2, StartIInv, ExposeIInv, JudgeIInv, ApplyHoldIInv DEF Watching
<1>3. CASE Keeping
    BY <1>3, StopBaselineIInv, RemoveWorktreeIInv, EndCycleIInv DEF Keeping
<1>4. CASE Reverting
    BY <1>4, ResolveBaselineIInv, RestoreTrafficIInv, RestoreServingIInv, RestoreSourceIInv,
       StopCandidateIInv DEF Reverting
<1>5. CASE Record \/ Fault \/ Restart
    BY <1>5, RecordIInv, FaultIInv, RestartIInv
<1> QED
    BY <1>1, <1>2, <1>3, <1>4, <1>5 DEF Next, Work

LEMMA Invariance == Spec => []IInv
    BY InitIInv, NextIInv, PTL DEF Spec

----------------------------------------------------------------------------
\* The soak keeps its type.
THEOREM Typing == Spec => []TypeOK
<1>1. IInv => TypeOK
    BY DEF IInv
<1> QED
    BY <1>1, Invariance, PTL

\* There is a running container behind every request and behind the serving release, however
\* a rollback or a completion is interrupted, repeated or failed.
THEOREM RequestsServed == Spec => []EveryRequestIsServed
<1>1. IInv => EveryRequestIsServed
    BY DEF IInv, World
<1> QED
    BY <1>1, Invariance, PTL

\* A completed soak has left the candidate alone, a rolled back one the baseline alone.
THEOREM OneReleaseRemains == Spec => []NothingLeftBehind
<1>1. IInv => NothingLeftBehind
    BY DEF IInv
<1> QED
    BY <1>1, Invariance, PTL

\* One verdict for each round, HOLDs before the last, and the end of the cycle is the last
\* verdict's, unless a failed observation ended it.
THEOREM CycleEndsOnItsVerdict == Spec => []VerdictsDecide
<1>1. ASSUME IInv
      PROVE  VerdictsDecide
    <2>1. \A i, j \in DOMAIN decisions : decisions[i].op = decisions[j].op => i = j
        <3>1. SUFFICES ASSUME NEW i \in DOMAIN decisions, NEW j \in DOMAIN decisions,
                              decisions[i].op = decisions[j].op
                       PROVE  i = j
            OBVIOUS
        <3>2. i \in Nat /\ j \in Nat
            BY <1>1, DecisionsTyped DEF IInv
        <3>3. DecisionOp(i - 1) = DecisionOp(j - 1)
            BY <1>1, <3>1 DEF IInv, RoundsAreRecorded
        <3> QED
            BY <3>2, <3>3 DEF DecisionOp
    <2>2. \A i \in 1 .. Len(decisions) - 1 : decisions[i].kind = "HOLD"
        BY <1>1, DecisionsTyped DEF IInv, RoundsAreRecorded
    <2>3. HasVerdict => Len(decisions) > 0 /\ decisions[Len(decisions)].kind = Verdict
        BY <1>1, DecisionsTyped DEF IInv, HasVerdict, Verdict
    <2> QED
        BY <1>1, <2>1, <2>2, <2>3 DEF IInv, CycleFollows, VerdictsDecide
<1> QED
    BY <1>1, Invariance, PTL

----------------------------------------------------------------------------
\* The steps that users notice: everything else stutters for them.
LEMMA OthersStutter ==
    ASSUME IInv, [Next]_vars, ~RestoreTraffic, ~RestoreServing, ~EndCycle
    PROVE  UNCHANGED <<route.weight, serving, row.state = "ROLLED_BACK">>
<1>1. CASE Start
    <2>1. \/ row'.state = "SOAKING"
          \/ row' = row
        BY <1>1 DEF Start, MoveCycle, Transitioned
    <2>2. row.state # "ROLLED_BACK"
        BY <1>1 DEF Start, At, IInv, CycleFollows
    <2> QED
        BY <1>1, <2>1, <2>2 DEF Start, outside
<1>2. CASE Expose
    <2>1. route.weight = 100
        BY <1>2 DEF Expose, At, IInv, World, WatchedWorld, Watches
    <2>2. route'.weight = 100 \/ route' = route
        BY <1>2 DEF Expose, Route
    <2> QED
        BY <1>2, <2>1, <2>2 DEF Expose, database
<1>3. CASE Judge \/ ApplyHold \/ StopBaseline \/ RemoveWorktree
    BY <1>3 DEF Judge, ApplyHold, StopBaseline, RemoveWorktree, outside, database
<1>4. CASE ResolveBaseline \/ RestoreSource \/ StopCandidate
    BY <1>4 DEF ResolveBaseline, RestoreSource, StopCandidate, database
<1>5. CASE Record \/ Fault \/ Restart \/ UNCHANGED vars
    BY <1>5 DEF Record, Fault, Restart, vars, outside, database
<1> QED
    BY <1>1, <1>2, <1>3, <1>4, <1>5 DEF Next, Work, Watching, Keeping, Reverting

LEMMA RestoringTrafficWithdraws ==
    ASSUME IInv, RestoreTraffic
    PROVE  [Delivery!Next]_(Delivery!delivery)
<1>1. UNCHANGED <<serving, row>> /\ (route' = route \/ route'.weight = 0)
    BY DEF RestoreTraffic, Route, database
<1>2. CASE route' = route
    BY <1>1, <1>2 DEF Delivery!delivery
<1>3. CASE route'.weight = 0
    BY <1>1, <1>3 DEF Delivery!Withdraw, Delivery!Next
<1> QED
    BY <1>1, <1>2, <1>3

\* For the users every step is one of progressive delivery after the canary, or nothing.
THEOREM DeliveryContinues == Spec => ContinuesDelivery
<1>1. ASSUME IInv, [Next]_vars
      PROVE  [Delivery!Next]_(Delivery!delivery)
    <2>1. CASE RestoreTraffic
        BY <1>1, <2>1, RestoringTrafficWithdraws
    <2>2. CASE RestoreServing
        <3>1. route.weight = 0
            BY <1>1, <2>2, OnTheWayBack
            DEF RestoreServing, At, Places, IInv, World, RevertedWorld
        <3> QED
            BY <2>2, <3>1
            DEF RestoreServing, outside, Delivery!Retire, Delivery!Next
    <2>3. CASE EndCycle
        <3>1. UNCHANGED <<serving, route>>
            BY <2>3 DEF EndCycle, outside
        <3>2. \/ (row.state = "ROLLED_BACK")' = (row.state = "ROLLED_BACK")
              \/ /\ row'.state = "ROLLED_BACK"
                 /\ route.weight = 0 /\ serving = "baseline"
            <4>1. row.state = "SOAKING"
                BY <1>1, <2>3 DEF EndCycle, At, IInv, CycleFollows
            <4>2. CASE row'.state = "ROLLED_BACK"
                BY <1>1, <2>3, <3>1, <4>2, EndCycleIInv DEF IInv, NothingLeftBehind
            <4> QED
                BY <4>1, <4>2
        <3> QED
            BY <3>1, <3>2 DEF Delivery!Close, Delivery!Next, Delivery!delivery
    <2>4. CASE ~RestoreTraffic /\ ~RestoreServing /\ ~EndCycle
        BY <1>1, <2>4, OthersStutter DEF Delivery!delivery
    <2> QED
        BY <2>1, <2>2, <2>3, <2>4
<1> QED
    BY <1>1, Invariance, PTL DEF Spec, ContinuesDelivery
=============================================================================
