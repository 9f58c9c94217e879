------------------------ MODULE CanaryTraffic_proofs ------------------------
(***************************************************************************)
(* ExposuresAreIdentified, PassedOnItsOwnRoute and the refinement          *)
(* ImplementsDirector, for any stages, rounds, restarts and requests.      *)
(*                                                                         *)
(* The director is safe because of how a round calls it.  Of what it has   *)
(* announced, all that gives the candidate traffic has become a route, but *)
(* for the shift of a round that the process died in, and that shift is    *)
(* the first thing the round asks for again, at the same weight, for its   *)
(* decisions are as they were (Pending).  A route whose receipt is missing *)
(* is the shift the round asks for again, or gives no traffic              *)
(* (CurrentIsKept), so no operation is written twice.                      *)
(*                                                                         *)
(* A round may find its shift done and its route given back; then nobody   *)
(* has been answered by that generation since the process came up          *)
(* (GivenBackIsUntouched), so that a stage which passes is still shown.    *)
(*                                                                         *)
(* A route that is replaced before it has its receipt belongs to a round   *)
(* that is decided (LostAreSpent), so that it is not asked for again.      *)
(***************************************************************************)
EXTENDS CanaryTraffic, FiniteSetTheorems, SequenceTheorems, TLAPS

\* The shift this round asks for, and how far it is.
Mine == <<flow.round, "traffic">>
Written == receipts \cup {current}
MineIsWritten == \E r \in Written : r.op = Mine
Shown == \E r \in receipts : r.op = Mine
Undecided == \A d \in decisions : d.round # flow.round

\* A generation is one more than the last, and an operation writes one.
GenerationsGrow ==
    /\ \A r \in receipts : r.gen <= current.gen /\ (r.gen = current.gen => r = current)
    /\ \A r, s \in receipts : r.gen = s.gen => r = s
OpsAreWrittenOnce == \A r, s \in Written : r.op = s.op => r = s
AnnouncedFirst == Written \subseteq effects \cup {Earlier}

Pending(e) ==
    /\ e = [op |-> Mine, gen |-> current.gen + 1, weight |-> Weights[CurrentStage]]
    /\ Undecided /\ ~MineIsWritten
EffectsAreWritten == \A e \in effects : e.weight > 0 => e \in Written \/ Pending(e)

CurrentIsKept ==
    current \in receipts \/ current.weight = 0 \/ (current.op = Mine /\ Undecided)

\* A round has one decision, after its shift.
DecisionsStand ==
    /\ \A d \in decisions : d.round <= flow.round
    /\ \A d, e \in decisions : d.round = e.round => d = e
    /\ Undecided \/ Shown

StagesFit == IsFiniteSet(decisions) /\ CurrentStage <= Len(Weights)

\* A round adds up to three generations: its shift, the restore of an observer that failed
\* and, after a restart, that of its decision.
ObserverFailed == current.op = <<flow.round, "observer-failed">>
Restored(d) == /\ d.round = flow.round /\ d.kind \in Restoring
               /\ current.op = <<flow.round, d.kind>>
GenerationsSuffice ==
    /\ Undecided /\ ~MineIsWritten => current.gen <= 3 * flow.round - 2
    /\ Undecided => current.gen <= 3 * flow.round - 1
                      \/ (current.gen <= 3 * flow.round /\ ObserverFailed)
    /\ current.gen <= 3 * flow.round
         \/ (current.gen <= 3 * flow.round + 1 /\ \E d \in decisions : Restored(d))

WorldFits ==
    /\ GenerationsGrow /\ OpsAreWrittenOnce /\ AnnouncedFirst /\ EffectsAreWritten
    /\ CurrentIsKept /\ DecisionsStand /\ StagesFit /\ GenerationsSuffice

\* What the director is called for: the shift, the way back from an observer that failed,
\* or the way back a decision asks for.
ForStage ==
    /\ step.then = "observing" /\ Undecided
    /\ step.shift = [op |-> Mine, weight |-> Weights[CurrentStage]]
ForFailure ==
    /\ step.then = "failed" /\ Undecided /\ Shown
    /\ step.shift = [op |-> <<flow.round, "observer-failed">>, weight |-> 0]
ForDecision(d) ==
    /\ step.then = "returned" /\ Shown
    /\ d.round = flow.round /\ d.kind \in Restoring
    /\ step.shift = [op |-> <<flow.round, d.kind>>, weight |-> 0]

ShiftFits ==
    step.at \in {"shifting", "effected", "routed"} =>
        ForStage \/ ForFailure \/ \E d \in decisions : ForDecision(d)
DirectorFits ==
    /\ step.at = "effected" =>
         Intended \in effects /\ \A r \in Written : r.op # step.shift.op
    /\ step.at = "routed" => current.op = step.shift.op
RoundFits ==
    /\ step.at \in {"observing", "judged"} => Shown /\ Undecided
    /\ step.at \in {"decided", "returned", "failed"} => Shown
    /\ step.at = "decided" => \E d \in decisions : d.round = flow.round /\ d.kind = step.verdict
    /\ step.at = "judged" =>
         /\ step.verdict \in Kinds
         /\ step.verdict = "ADVANCE" => CurrentStage < Len(Weights)
StepFits == ShiftFits /\ DirectorFits /\ RoundFits

IInv == StageTypeOK /\ WorldFits /\ StepFits

----------------------------------------------------------------------------
LEMMA RoundTyped ==
    ASSUME StageTypeOK
    PROVE  /\ flow.round \in Nat /\ flow.round \in 1 .. MaxRounds /\ MaxRounds \in Nat
           /\ Mine \in Ops
           /\ <<flow.round, "observer-failed">> \in Ops
           /\ \A kind \in Restoring : <<flow.round, kind>> \in Ops
    BY CanaryTrafficAssumption DEF StageTypeOK, Mine, Ops, OpNames, Restoring

LEMMA RoutesTyped ==
    ASSUME StageTypeOK
    PROVE  /\ current \in Route /\ current.gen \in Nat /\ current.gen >= 1
           /\ \A r \in Written \cup effects : r \in Route /\ r.gen \in Nat
<1>1. \A g \in Generations : g \in Nat /\ g >= 1
    BY CanaryTrafficAssumption DEF Generations
<1> QED
    BY <1>1 DEF StageTypeOK, Written, Route

LEMMA StageIsOne ==
    ASSUME StageTypeOK, StagesFit
    PROVE  /\ CurrentStage \in DOMAIN Weights /\ CurrentStage \in Nat /\ Len(Weights) \in Nat
           /\ Weights[CurrentStage] \in 0 .. 100
<1>1. Weights \in Seq(1 .. 100) /\ Len(Weights) \in Nat /\ DOMAIN Weights = 1 .. Len(Weights)
    BY CanaryTrafficAssumption
<1>2. IsFiniteSet({d \in decisions : d.kind = "ADVANCE"})
    BY FS_Subset DEF StagesFit
<1>3. Cardinality({d \in decisions : d.kind = "ADVANCE"}) \in Nat
    BY <1>2, FS_CardinalityType
<1>4. CurrentStage \in DOMAIN Weights /\ CurrentStage \in Nat
    BY <1>1, <1>3 DEF StagesFit, CurrentStage
<1>5. \A i \in DOMAIN Weights : Weights[i] \in 1 .. 100
    BY <1>1, ElementOfSeq
<1> QED
    BY <1>1, <1>4, <1>5

\* A verdict lets a candidate advance only where there is a stage to advance to.
LEMMA VerdictTyped ==
    ASSUME NEW stage, NEW seen, NEW inTime
    PROVE  /\ Evaluate(stage, seen, inTime) \in Kinds
           /\ Evaluate(stage, seen, inTime) = "ADVANCE" => stage # Len(Weights)
    BY DEF Evaluate, Passing, Kinds

\* What the files and the decisions say holds while they stay.
LEMMA WorldStays ==
    ASSUME WorldFits, UNCHANGED <<files, decisions, flow>>
    PROVE  WorldFits'
<1>1. UNCHANGED <<current, receipts, effects, decisions, flow>>
    BY DEF files
<1>2. Written' = Written /\ Mine' = Mine /\ Undecided' = Undecided /\ Shown' = Shown
      /\ MineIsWritten' = MineIsWritten /\ CurrentStage' = CurrentStage
    BY <1>1 DEF Written, Mine, Undecided, Shown, MineIsWritten, CurrentStage
<1>3. GenerationsGrow' /\ OpsAreWrittenOnce' /\ AnnouncedFirst' /\ CurrentIsKept'
    BY <1>1, <1>2 DEF WorldFits, GenerationsGrow, OpsAreWrittenOnce, AnnouncedFirst,
                      CurrentIsKept
<1>4. EffectsAreWritten'
    BY <1>1, <1>2 DEF WorldFits, EffectsAreWritten, Pending
<1>5. DecisionsStand' /\ StagesFit'
    BY <1>1, <1>2 DEF WorldFits, DecisionsStand, StagesFit
<1>6. GenerationsSuffice'
    BY <1>1, <1>2 DEF WorldFits, GenerationsSuffice, ObserverFailed, Restored
<1> QED
    BY <1>3, <1>4, <1>5, <1>6 DEF WorldFits

\* What a step of the workflow can be about, from its fields.
Shape == [at : Places, then : Afterwards, gen : Generations,
          shift : [op : Ops, weight : 0 .. 100], verdict : Kinds \cup {"none"}]

LEMMA FreshTyped ==
    Fresh \in Shape /\ Fresh.at = "begun"
    BY CanaryTrafficAssumption
       DEF Fresh, Shape, NoShift, Places, Afterwards, Generations, Ops

\* A step that has begun has nothing to fit.
LEMMA FreshFits ==
    ASSUME step' = Fresh
    PROVE  StepFits'
    BY FreshTyped DEF StepFits, ShiftFits, DirectorFits, RoundFits

\* Another step leaves what this one stands on as it is.
LEMMA StepStays ==
    ASSUME StepFits, UNCHANGED <<files, decisions, flow, step>>
    PROVE  StepFits'
<1>1. UNCHANGED <<current, receipts, effects, decisions, flow, step>>
    BY DEF files
<1>2. Written' = Written /\ Mine' = Mine /\ Undecided' = Undecided /\ Shown' = Shown
      /\ CurrentStage' = CurrentStage /\ Intended' = Intended
    BY <1>1 DEF Written, Mine, Undecided, Shown, CurrentStage, Intended
<1>3. ShiftFits'
    BY <1>1, <1>2 DEF StepFits, ShiftFits, ForStage, ForFailure, ForDecision
<1> QED
    BY <1>1, <1>2, <1>3 DEF StepFits, DirectorFits, RoundFits

LEMMA ShapeKept ==
    ASSUME StageTypeOK, UNCHANGED <<files, decisions, flow, flights, budget>>, step' \in Shape
    PROVE  StageTypeOK'
    BY DEF StageTypeOK, files, Shape
----------------------------------------------------------------------------
LEMMA InitIInv == Init => IInv
<1> SUFFICES ASSUME Init PROVE IInv
    OBVIOUS
<1>1. current = Earlier /\ receipts = {Earlier} /\ routes = {Earlier} /\ effects = {}
      /\ decisions = {}
      /\ flow = [pc |-> "canary", round |-> 1] /\ step = Fresh
    BY DEF Init
<1>2. StageTypeOK
    <2>1. Earlier \in Route
        BY CanaryTrafficAssumption DEF Earlier, Route, Ops, Generations
    <2>2. flow \in [pc : {"canary", "ended"}, round : 1 .. MaxRounds]
        BY <1>1, CanaryTrafficAssumption
    <2>3. flights \in [Connections -> Flight]
        BY DEF Init, NoFlights, Flight
    <2>4. budget \in [requests : 0 .. MaxRequests, crashes : 0 .. MaxCrashes]
        BY CanaryTrafficAssumption DEF Init
    <2> QED
        BY <1>1, <2>1, <2>2, <2>3, <2>4, FreshTyped DEF StageTypeOK, Shape
<1>3. GenerationsGrow /\ OpsAreWrittenOnce /\ AnnouncedFirst /\ EffectsAreWritten /\ CurrentIsKept
    BY <1>1 DEF GenerationsGrow, OpsAreWrittenOnce, AnnouncedFirst, EffectsAreWritten,
                CurrentIsKept, Written, Earlier
<1>4. DecisionsStand /\ GenerationsSuffice
    BY <1>1 DEF DecisionsStand, GenerationsSuffice, Undecided, Earlier
<1>5. StagesFit
    <2>1. {d \in decisions : d.kind = "ADVANCE"} = {}
        BY <1>1
    <2>2. IsFiniteSet(decisions) /\ CurrentStage = 1
        BY <1>1, <2>1, FS_EmptySet DEF CurrentStage
    <2>3. Len(Weights) \in Nat /\ Len(Weights) # 0
        BY CanaryTrafficAssumption
    <2> QED
        BY <2>2, <2>3 DEF StagesFit
<1>6. StepFits
    BY <1>1, FreshTyped DEF StepFits, ShiftFits, DirectorFits, RoundFits
<1> QED
    BY <1>2, <1>3, <1>4, <1>5, <1>6 DEF IInv, WorldFits

----------------------------------------------------------------------------
\* The proxy and a crash touch nothing of the route.
LEMMA ArriveKeeps ==
    ASSUME IInv, NEW c \in Connections, Arrive(c)
    PROVE  IInv'
<1>1. UNCHANGED <<files, decisions, flow, step>>
    BY DEF Arrive
<1>2. flights' \in [Connections -> Flight]
    BY RoutesTyped DEF Arrive, IInv, StageTypeOK, Flight, Route, Chosen, Arms
<1>3. budget' \in [requests : 0 .. MaxRequests, crashes : 0 .. MaxCrashes]
    BY CanaryTrafficAssumption DEF Arrive, IInv, StageTypeOK
<1>4. StageTypeOK'
    BY <1>1, <1>2, <1>3 DEF IInv, StageTypeOK, files
<1> QED
    BY <1>1, <1>4, WorldStays, StepStays DEF IInv

LEMMA AnswerKeeps ==
    ASSUME IInv, NEW c \in Connections, Answer(c)
    PROVE  IInv'
<1>1. UNCHANGED <<files, decisions, flow, step, budget>>
    BY DEF Answer
<1>2. flights' \in [Connections -> Flight]
    BY DEF Answer, IInv, StageTypeOK, Flight
<1>4. StageTypeOK'
    BY <1>1, <1>2 DEF IInv, StageTypeOK, files
<1> QED
    BY <1>1, <1>4, WorldStays, StepStays DEF IInv

LEMMA CrashKeeps ==
    ASSUME IInv, Crash
    PROVE  IInv'
<1>1. UNCHANGED <<files, decisions, flow>> /\ step' = Fresh
    BY DEF Crash
<1>2. flights' \in [Connections -> Flight]
    BY DEF Crash, NoFlights, Flight
<1>3. budget' \in [requests : 0 .. MaxRequests, crashes : 0 .. MaxCrashes]
    BY CanaryTrafficAssumption DEF Crash, IInv, StageTypeOK
<1>4. StageTypeOK'
    BY <1>1, <1>2, <1>3, FreshTyped DEF IInv, StageTypeOK, files, Shape
<1> QED
    BY <1>1, <1>4, WorldStays, FreshFits DEF IInv

----------------------------------------------------------------------------
\* A call of the director, as run_stage makes it.
LEMMA ShiftCalled ==
    ASSUME IInv, NEW name, NEW weight, NEW then, Shift(name, weight, then),
           <<flow.round, name>> \in Ops, weight \in 0 .. 100, then \in Afterwards
    PROVE  /\ step' \in Shape
           /\ step'.at = "shifting" /\ step'.then = then
           /\ step'.shift = [op |-> <<flow.round, name>>, weight |-> weight]
    BY DEF Shift, IInv, StageTypeOK, Shape, Places

LEMMA PlaceMoved ==
    ASSUME IInv, NEW place \in Places, Goto(place)
    PROVE  /\ step' \in Shape
           /\ step'.at = place /\ step'.then = step.then /\ step'.shift = step.shift
           /\ step'.verdict = step.verdict
    BY DEF Goto, IInv, StageTypeOK, Shape

\* The way a decision leads: back to the control, or on.
LEMMA FollowFits ==
    ASSUME IInv, NEW d \in decisions, d.round = flow.round, Follow(d.kind), Shown,
           UNCHANGED <<files, decisions, flow>>
    PROVE  step' \in Shape /\ StepFits'
<1>1. UNCHANGED <<current, receipts, effects, decisions, flow>> /\ Shown'
    BY DEF files, Shown, Mine
<1>2. CASE d.kind \in Restoring
    <2>1. Shift(d.kind, 0, "returned")
        BY <1>2 DEF Follow
    <2>2. /\ step' \in Shape /\ step'.at = "shifting" /\ step'.then = "returned"
          /\ step'.shift = [op |-> <<flow.round, d.kind>>, weight |-> 0]
        BY <1>2, <2>1, ShiftCalled, RoundTyped DEF IInv, Afterwards
    <2>3. ForDecision(d)'
        BY <1>1, <1>2, <2>2 DEF ForDecision
    <2> QED
        BY <1>1, <2>2, <2>3 DEF StepFits, ShiftFits, DirectorFits, RoundFits
<1>3. CASE d.kind \notin Restoring
    <2>1. step' \in Shape /\ step'.at = "returned"
        BY <1>3, PlaceMoved DEF Follow, Places, Afterwards
    <2> QED
        BY <1>1, <2>1 DEF StepFits, ShiftFits, DirectorFits, RoundFits
<1> QED
    BY <1>2, <1>3

LEMMA BeginKeeps ==
    ASSUME IInv, BeginStage
    PROVE  IInv'
<1>1. UNCHANGED <<files, decisions, flow, flights, budget>>
    BY DEF BeginStage, proxy
<1>2. UNCHANGED <<current, receipts, effects, decisions, flow>>
    BY <1>1 DEF files
<1>3. step' \in Shape /\ StepFits'
    <2>1. CASE \E d \in decisions : d.round = flow.round /\ Follow(d.kind)
        <3>1. PICK d \in decisions : d.round = flow.round /\ Follow(d.kind)
            BY <2>1
        <3>2. Shown
            BY <3>1 DEF IInv, WorldFits, DecisionsStand, Undecided
        <3> QED
            BY <1>1, <3>1, <3>2, FollowFits
    <2>2. CASE Undecided /\ Shift("traffic", Weights[CurrentStage], "observing")
        <3>1. Weights[CurrentStage] \in 0 .. 100
            BY StageIsOne DEF IInv, WorldFits
        <3>2. /\ step' \in Shape /\ step'.at = "shifting" /\ step'.then = "observing"
              /\ step'.shift = [op |-> Mine, weight |-> Weights[CurrentStage]]
            BY <2>2, <3>1, ShiftCalled, RoundTyped DEF IInv, Afterwards, Mine
        <3>3. Undecided' /\ Mine' = Mine /\ CurrentStage' = CurrentStage
            BY <1>2, <2>2 DEF Undecided, Mine, CurrentStage
        <3>4. ForStage'
            BY <3>2, <3>3 DEF ForStage
        <3> QED
            BY <3>2, <3>4 DEF StepFits, ShiftFits, DirectorFits, RoundFits
    <2> QED
        BY <2>1, <2>2 DEF BeginStage, Undecided
<1> QED
    BY <1>1, <1>3, WorldStays, ShapeKept DEF IInv

LEMMA FinishKeeps ==
    ASSUME IInv, FinishStage
    PROVE  IInv'
<1>1. UNCHANGED <<files, decisions, flow, flights, budget>>
    BY DEF FinishStage, proxy
<1>2. PICK d \in decisions : d.round = flow.round /\ d.kind = step.verdict
    BY DEF FinishStage, At, IInv, StepFits, RoundFits
<1>3. Shown /\ Follow(d.kind)
    BY <1>2 DEF FinishStage, At, IInv, StepFits, RoundFits
<1>4. step' \in Shape /\ StepFits'
    BY <1>1, <1>2, <1>3, FollowFits
<1> QED
    BY <1>1, <1>4, WorldStays, ShapeKept DEF IInv

LEMMA JudgeKeeps ==
    ASSUME IInv, Judge \/ GiveUp
    PROVE  IInv'
<1>1. UNCHANGED <<files, decisions, flow, flights, budget>> /\ step.at = "observing"
    BY DEF Judge, GiveUp, proxy, At
<1>2. PICK seen, inTime : Conclude(seen, inTime)
    BY DEF Judge, GiveUp
<1>3. /\ step' \in Shape /\ step'.at = "judged"
      /\ step'.verdict = Evaluate(CurrentStage, seen, inTime)
    BY <1>2, VerdictTyped DEF Conclude, IInv, StageTypeOK, Shape, Places
<1>4. CurrentStage \in Nat /\ Len(Weights) \in Nat /\ CurrentStage <= Len(Weights)
    BY StageIsOne DEF IInv, WorldFits, StagesFit
<1>5. /\ step'.verdict \in Kinds
      /\ step'.verdict = "ADVANCE" => CurrentStage < Len(Weights)
    BY <1>3, <1>4, VerdictTyped
<1>6. Shown' /\ Undecided' /\ CurrentStage' = CurrentStage
    BY <1>1 DEF IInv, StepFits, RoundFits, Shown, Undecided, Mine, CurrentStage, files
<1>7. StepFits'
    BY <1>3, <1>5, <1>6 DEF StepFits, ShiftFits, DirectorFits, RoundFits
<1> QED
    BY <1>1, <1>3, <1>7, WorldStays, ShapeKept DEF IInv

LEMMA FailureKeeps ==
    ASSUME IInv, ObserverFails
    PROVE  IInv'
<1>1. UNCHANGED <<files, decisions, flow, flights, budget>> /\ step.at = "observing"
    BY DEF ObserverFails, proxy, At
<1>2. Shift("observer-failed", 0, "failed")
    BY DEF ObserverFails
<1>3. /\ step' \in Shape /\ step'.at = "shifting" /\ step'.then = "failed"
      /\ step'.shift = [op |-> <<flow.round, "observer-failed">>, weight |-> 0]
    BY <1>2, ShiftCalled, RoundTyped DEF IInv, Afterwards
<1>4. Shown' /\ Undecided' /\ flow' = flow
    BY <1>1 DEF IInv, StepFits, RoundFits, Shown, Undecided, Mine, files
<1>5. ForFailure'
    BY <1>3, <1>4 DEF ForFailure
<1>6. StepFits'
    BY <1>3, <1>5 DEF StepFits, ShiftFits, DirectorFits, RoundFits
<1> QED
    BY <1>1, <1>3, <1>6, WorldStays, ShapeKept DEF IInv
----------------------------------------------------------------------------
\* A receipt answers for its operation, the route for one whose receipt is missing, and any
\* other operation is announced as the route it is about to write.
LEMMA AnnouncedTyped ==
    ASSUME IInv, step.at \in {"shifting", "effected"},
           \A r \in Written : r.op # step.shift.op
    PROVE  Intended \in Route
<1>1. ForStage \/ ForFailure \/ \E d \in decisions : ForDecision(d)
    BY DEF IInv, StepFits, ShiftFits
<1>2. current.gen \in Nat /\ current.gen >= 1 /\ flow.round \in Nat /\ flow.round <= MaxRounds
      /\ MaxRounds \in Nat /\ current \in Written
    BY RoutesTyped, RoundTyped DEF IInv, Written
<1>3. current.gen <= 3 * flow.round
    <2>1. CASE ForStage
        <3>1. Undecided /\ ~MineIsWritten
            BY <2>1 DEF ForStage, MineIsWritten
        <3> QED
            BY <1>2, <3>1 DEF IInv, WorldFits, GenerationsSuffice
    <2>2. CASE ForFailure
        BY <1>2, <2>2 DEF ForFailure, IInv, WorldFits, GenerationsSuffice
    <2>3. ASSUME NEW d \in decisions, ForDecision(d)
          PROVE  current.gen <= 3 * flow.round
        <3>1. \A e \in decisions : Restored(e) => e = d
            BY <2>3 DEF Restored, ForDecision, IInv, WorldFits, DecisionsStand
        <3>2. ~Restored(d)
            BY <1>2, <2>3 DEF Restored, ForDecision
        <3> QED
            BY <3>1, <3>2 DEF IInv, WorldFits, GenerationsSuffice
    <2> QED
        BY <1>1, <2>1, <2>2, <2>3
<1>4. current.gen + 1 \in Generations
    BY <1>2, <1>3 DEF Generations
<1> QED
    BY <1>4 DEF Intended, Route, IInv, StageTypeOK

LEMMA LookUpKeeps ==
    ASSUME IInv, LookUp
    PROVE  IInv'
<1>1. UNCHANGED <<current, receipts, routes, decisions, flow, flights, budget>> /\ step.at = "shifting"
    BY DEF LookUp, proxy, At
<1>2. /\ Written' = Written /\ Mine' = Mine /\ Undecided' = Undecided /\ Shown' = Shown
      /\ MineIsWritten' = MineIsWritten /\ CurrentStage' = CurrentStage
    BY <1>1 DEF Written, Mine, Undecided, Shown, MineIsWritten, CurrentStage
<1>3. ForStage \/ ForFailure \/ \E d \in decisions : ForDecision(d)
    BY <1>1 DEF IInv, StepFits, ShiftFits
<1>4. CASE \E r \in receipts : r.op = step.shift.op /\ Returned(r.gen) /\ UNCHANGED effects
    <2>1. PICK r \in receipts : r.op = step.shift.op /\ Returned(r.gen) /\ UNCHANGED effects
        BY <1>4
    <2>2. r.gen \in Generations
        BY DEF IInv, StageTypeOK, Route
    <2>3. step' \in Shape /\ step'.at = step.then
        BY <2>1, <2>2 DEF Returned, IInv, StageTypeOK, Shape, Places
    <2>4. step.then = "observing" => Undecided /\ Shown
        BY <1>3, <2>1 DEF ForStage, ForFailure, ForDecision, Shown
    <2>5. step.then \in {"observing", "returned", "failed"} /\ Shown
        BY <1>3, <2>4 DEF ForStage, ForFailure, ForDecision
    <2>6. StepFits'
        BY <1>2, <2>3, <2>4, <2>5 DEF StepFits, ShiftFits, DirectorFits, RoundFits
    <2> QED
        BY <1>1, <2>1, <2>3, <2>6, WorldStays, ShapeKept DEF IInv, files
<1>5. CASE current.op = step.shift.op /\ Goto("routed") /\ UNCHANGED effects
    <2>1. /\ step' \in Shape
          /\ step'.at = "routed" /\ step'.then = step.then /\ step'.shift = step.shift
        BY <1>5, PlaceMoved DEF Places
    <2>2. ShiftFits'
        BY <1>1, <1>2, <1>3, <2>1 DEF ShiftFits, ForStage, ForFailure, ForDecision
    <2>3. StepFits'
        BY <1>1, <1>5, <2>1, <2>2 DEF StepFits, DirectorFits, RoundFits
    <2> QED
        BY <1>1, <1>5, <2>1, <2>3, WorldStays, ShapeKept DEF IInv, files
<1>6. CASE /\ \A r \in Written : r.op # step.shift.op
           /\ effects' = effects \cup {Intended}
           /\ Goto("effected")
    <2>1. /\ step' \in Shape
          /\ step'.at = "effected" /\ step'.then = step.then /\ step'.shift = step.shift
        BY <1>6, PlaceMoved DEF Places
    <2>2. Intended' = Intended
        BY <1>1, <2>1 DEF Intended
    <2>3. ShiftFits'
        BY <1>1, <1>2, <1>3, <2>1 DEF ShiftFits, ForStage, ForFailure, ForDecision
    <2>4. StepFits'
        BY <1>2, <1>6, <2>1, <2>2, <2>3 DEF StepFits, DirectorFits, RoundFits
    <2>5. StageTypeOK'
        BY <1>1, <1>6, <2>1, AnnouncedTyped DEF IInv, StageTypeOK, Shape
    <2>6. Intended.weight > 0 => Pending(Intended)
        <3>1. CASE ForStage
            BY <1>6, <3>1 DEF ForStage, Pending, Intended, MineIsWritten
        <3>2. CASE step.shift.weight = 0
            BY <3>2 DEF Intended
        <3>3. CASE ForFailure
            BY <3>2, <3>3 DEF ForFailure
        <3>4. ASSUME NEW d \in decisions, ForDecision(d) PROVE step.shift.weight = 0
            BY <3>4 DEF ForDecision
        <3> QED
            BY <1>3, <3>1, <3>2, <3>3, <3>4
    <2>7. \A e : Pending(e) => Pending(e)'
        BY <1>1, <1>2 DEF Pending
    <2>8. EffectsAreWritten'
        BY <1>2, <1>6, <2>6, <2>7 DEF IInv, WorldFits, EffectsAreWritten
    <2>9. GenerationsGrow' /\ OpsAreWrittenOnce' /\ AnnouncedFirst' /\ CurrentIsKept'
        BY <1>1, <1>2, <1>6 DEF IInv, WorldFits, GenerationsGrow, OpsAreWrittenOnce,
                                AnnouncedFirst, CurrentIsKept
    <2>10. DecisionsStand' /\ StagesFit' /\ GenerationsSuffice'
        BY <1>1, <1>2 DEF IInv, WorldFits, DecisionsStand, StagesFit, GenerationsSuffice,
                          ObserverFailed, Restored
    <2> QED
        BY <2>4, <2>5, <2>8, <2>9, <2>10 DEF IInv, WorldFits
<1> QED
    BY <1>4, <1>5, <1>6 DEF LookUp, Written
----------------------------------------------------------------------------
\* The announced route is written: what it replaces has its receipt, or gave no traffic.
LEMMA WriteRouteKeeps ==
    ASSUME IInv, WriteRoute
    PROVE  IInv'
<1>1. /\ UNCHANGED <<receipts, effects, decisions, flow, flights, budget>>
      /\ step.at = "effected" /\ current' = Intended /\ routes' = routes \cup {Intended}
    BY DEF WriteRoute, proxy, At
<1>2. /\ step' \in Shape
      /\ step'.at = "routed" /\ step'.then = step.then /\ step'.shift = step.shift
    BY PlaceMoved DEF WriteRoute, Places
<1>3. ForStage \/ ForFailure \/ \E d \in decisions : ForDecision(d)
    BY <1>1 DEF IInv, StepFits, ShiftFits
<1>4. Intended \in effects /\ \A r \in Written : r.op # step.shift.op
    BY <1>1 DEF IInv, StepFits, DirectorFits
<1>5. Mine' = Mine /\ Undecided' = Undecided /\ Shown' = Shown /\ CurrentStage' = CurrentStage
    BY <1>1 DEF Mine, Undecided, Shown, CurrentStage
<1>6. /\ current'.op = step.shift.op /\ current'.gen = current.gen + 1
      /\ current'.weight = step.shift.weight
    BY <1>1 DEF Intended
<1>7. StageTypeOK'
    BY <1>1, <1>2, <1>4, AnnouncedTyped DEF IInv, StageTypeOK, Shape
<1>8. \A r \in receipts : r.gen \in Nat /\ r.gen <= current.gen /\ current.gen \in Nat
    BY RoutesTyped DEF IInv, WorldFits, GenerationsGrow, Written
<1>9. GenerationsGrow'
    <2>1. \A r \in receipts : r.gen < current'.gen
        BY <1>6, <1>8
    <2>2. \A r \in receipts : r.gen <= current'.gen /\ r.gen # current'.gen
        BY <1>6, <1>8
    <2> QED
        BY <1>1, <2>2 DEF IInv, WorldFits, GenerationsGrow
<1>10. Written' \subseteq receipts \cup {current'} /\ current' \in Written'
    BY <1>1 DEF Written
<1>11. OpsAreWrittenOnce'
    <2>1. \A r \in receipts : r.op # current'.op
        BY <1>4, <1>6 DEF Written
    <2> QED
        BY <1>10, <2>1 DEF IInv, WorldFits, OpsAreWrittenOnce, Written
<1>12. AnnouncedFirst'
    BY <1>1, <1>4, <1>10 DEF IInv, WorldFits, AnnouncedFirst, Written
<1>13. current \in receipts \/ current.weight = 0
    <2>1. CASE ForStage
        BY <1>4, <2>1 DEF IInv, WorldFits, CurrentIsKept, ForStage, Written
    <2>2. CASE Shown
        BY <2>2 DEF IInv, WorldFits, CurrentIsKept, Shown, OpsAreWrittenOnce, Written
    <2> QED
        BY <1>3, <2>1, <2>2 DEF ForFailure, ForDecision
<1>14. EffectsAreWritten'
    <2> SUFFICES ASSUME NEW e \in effects, e.weight > 0 PROVE e \in Written'
        BY <1>1 DEF EffectsAreWritten
    <2>1. CASE e \in Written
        <3>1. e # current \/ current \in receipts
            BY <1>13
        <3> QED
            BY <1>1, <2>1, <3>1 DEF Written
    <2>2. CASE Pending(e)
        <3>1. ~MineIsWritten /\ ~Shown
            BY <2>2 DEF Pending, MineIsWritten, Shown, Written
        <3>2. ForStage
            BY <1>3, <3>1 DEF ForFailure, ForDecision
        <3>3. e = current'
            BY <1>1, <2>2, <3>2 DEF Pending, ForStage, Intended
        <3> QED
            BY <1>10, <3>3
    <2> QED
        BY <2>1, <2>2 DEF IInv, WorldFits, EffectsAreWritten
<1>15. CurrentIsKept'
    <2>1. CASE ForStage
        BY <1>5, <1>6, <2>1 DEF ForStage, CurrentIsKept
    <2>2. CASE ForFailure
        BY <1>6, <2>2 DEF ForFailure, CurrentIsKept
    <2>3. ASSUME NEW d \in decisions, ForDecision(d) PROVE CurrentIsKept'
        BY <1>6, <2>3 DEF ForDecision, CurrentIsKept
    <2> QED
        BY <1>3, <2>1, <2>2, <2>3
<1>16. DecisionsStand' /\ StagesFit'
    BY <1>1, <1>5 DEF IInv, WorldFits, DecisionsStand, StagesFit
<1>17. GenerationsSuffice'
    <2>0. /\ current.gen \in Nat /\ flow.round \in Nat
          /\ current'.gen = current.gen + 1 /\ flow' = flow /\ decisions' = decisions
          /\ Undecided' = Undecided
        BY <1>1, <1>5, <1>6, RoutesTyped, RoundTyped DEF IInv
    <2>1. CASE ForStage
        <3>1. MineIsWritten'
            BY <1>5, <1>6, <1>10, <2>1 DEF ForStage, MineIsWritten
        <3>2. Undecided /\ ~MineIsWritten
            BY <1>4, <2>1 DEF ForStage, MineIsWritten
        <3>3. current.gen <= 3 * flow.round - 2
            BY <3>2 DEF IInv, WorldFits, GenerationsSuffice
        <3> QED
            BY <2>0, <3>1, <3>3 DEF GenerationsSuffice
    <2>2. CASE Shown
        <3>1. MineIsWritten'
            BY <1>1, <1>5, <2>2 DEF Shown, MineIsWritten, Written
        <3>2. CASE ForFailure
            <4>1. ~ObserverFailed /\ Undecided
                BY <1>4, <3>2 DEF ForFailure, ObserverFailed, Written
            <4>2. current.gen <= 3 * flow.round - 1
                BY <4>1 DEF IInv, WorldFits, GenerationsSuffice
            <4>3. ObserverFailed'
                BY <1>6, <2>0, <3>2 DEF ForFailure, ObserverFailed
            <4> QED
                BY <2>0, <3>1, <4>2, <4>3 DEF GenerationsSuffice
        <3>3. ASSUME NEW d \in decisions, ForDecision(d)
              PROVE  GenerationsSuffice'
            <4>1. \A e \in decisions : Restored(e) => e = d
                BY <3>3 DEF Restored, ForDecision, IInv, WorldFits, DecisionsStand
            <4>2. ~Restored(d) /\ ~Undecided
                BY <1>4, <3>3 DEF Restored, ForDecision, Written, Undecided
            <4>3. current.gen <= 3 * flow.round
                BY <4>1, <4>2 DEF IInv, WorldFits, GenerationsSuffice
            <4>4. Restored(d)'
                BY <1>6, <2>0, <3>3 DEF ForDecision, Restored
            <4> QED
                BY <2>0, <4>2, <4>3, <4>4 DEF GenerationsSuffice
        <3>4. CASE ForStage
            BY <1>4, <2>2, <3>4 DEF ForStage, Shown, Written
        <3> QED
            BY <1>3, <3>2, <3>3, <3>4
    <2> QED
        BY <1>3, <2>1, <2>2 DEF ForFailure, ForDecision
<1>18. StepFits'
    <2>1. ShiftFits'
        BY <1>1, <1>2, <1>3, <1>5 DEF ShiftFits, ForStage, ForFailure, ForDecision
    <2> QED
        BY <1>2, <1>6, <2>1 DEF StepFits, DirectorFits, RoundFits
<1> QED
    BY <1>7, <1>9, <1>11, <1>12, <1>14, <1>15, <1>16, <1>17, <1>18 DEF IInv, WorldFits

\* The route gets its receipt, and run_stage goes on.
LEMMA WriteReceiptKeeps ==
    ASSUME IInv, WriteReceipt
    PROVE  IInv'
<1>1. /\ UNCHANGED <<current, routes, effects, decisions, flow, flights, budget>>
      /\ step.at = "routed" /\ receipts' = receipts \cup {current} /\ Returned(current.gen)
    BY DEF WriteReceipt, proxy, At
<1>2. step' \in Shape /\ step'.at = step.then
    BY <1>1, RoutesTyped DEF Returned, IInv, StageTypeOK, Shape, Places, Route
<1>3. ForStage \/ ForFailure \/ \E d \in decisions : ForDecision(d)
    BY <1>1 DEF IInv, StepFits, ShiftFits
<1>4. /\ Mine' = Mine /\ Undecided' = Undecided /\ CurrentStage' = CurrentStage
      /\ Written' = Written /\ MineIsWritten' = MineIsWritten
    BY <1>1 DEF Mine, Undecided, CurrentStage, Written, MineIsWritten
<1>5. current.op = step.shift.op
    BY <1>1 DEF IInv, StepFits, DirectorFits
<1>6. Shown => Shown'
    BY <1>1 DEF Shown, Mine
<1>7. Shown'
    <2>1. CASE ForStage
        BY <1>1, <1>4, <1>5, <2>1 DEF ForStage, Shown
    <2> QED
        BY <1>3, <1>6, <2>1 DEF ForFailure, ForDecision
<1>8. step.then = "observing" => Undecided
    BY <1>3 DEF ForStage, ForFailure, ForDecision
<1>9. step.then \in {"observing", "returned", "failed"}
    BY <1>3 DEF ForStage, ForFailure, ForDecision
<1>10. StepFits'
    BY <1>2, <1>4, <1>7, <1>8, <1>9 DEF StepFits, ShiftFits, DirectorFits, RoundFits
<1>11. StageTypeOK'
    BY <1>1, <1>2 DEF IInv, StageTypeOK, Shape
<1>12. GenerationsGrow'
    <2>1. current.gen <= current.gen
        BY RoutesTyped DEF IInv
    <2> QED
        BY <1>1, <2>1 DEF IInv, WorldFits, GenerationsGrow
<1>13. OpsAreWrittenOnce' /\ AnnouncedFirst' /\ EffectsAreWritten' /\ CurrentIsKept'
    BY <1>1, <1>4 DEF IInv, WorldFits, OpsAreWrittenOnce, AnnouncedFirst, EffectsAreWritten,
                      Pending, CurrentIsKept
<1>14. DecisionsStand' /\ StagesFit'
    BY <1>1, <1>4, <1>7 DEF IInv, WorldFits, DecisionsStand, StagesFit
<1>15. GenerationsSuffice'
    BY <1>1, <1>4 DEF IInv, WorldFits, GenerationsSuffice, ObserverFailed, Restored
<1> QED
    BY <1>10, <1>11, <1>12, <1>13, <1>14, <1>15 DEF IInv, WorldFits
----------------------------------------------------------------------------
\* A stage counts as passed once its ADVANCE is recorded; the last one never is.
LEMMA StageCounted ==
    ASSUME StageTypeOK, StagesFit, NEW d, decisions' = decisions \cup {d},
           d.kind = "ADVANCE" => CurrentStage < Len(Weights)
    PROVE  StagesFit'
<1> DEFINE passed == {e \in decisions : e.kind = "ADVANCE"}
<1>1. IsFiniteSet(passed) /\ IsFiniteSet(decisions')
    BY FS_Subset, FS_AddElement DEF StagesFit
<1>2. CurrentStage = 1 + Cardinality(passed) /\ Cardinality(passed) \in Nat /\ Len(Weights) \in Nat
    BY <1>1, FS_CardinalityType, StageIsOne DEF CurrentStage
<1>3. CASE d.kind = "ADVANCE"
    <2>1. {e \in decisions' : e.kind = "ADVANCE"} = passed \cup {d}
        BY <1>3
    <2>2. Cardinality(passed \cup {d}) <= Cardinality(passed) + 1
          /\ Cardinality(passed \cup {d}) \in Nat
        <3>1. Cardinality(passed \cup {d}) =
                IF d \in passed THEN Cardinality(passed) ELSE Cardinality(passed) + 1
            BY <1>1, FS_AddElement
        <3> HIDE DEF passed
        <3> QED
            BY <1>2, <3>1
    <2>3. CurrentStage' = 1 + Cardinality(passed \cup {d})
        BY <2>1 DEF CurrentStage
    <2> QED
        BY <1>1, <1>2, <1>3, <2>2, <2>3 DEF StagesFit
<1>4. CASE d.kind # "ADVANCE"
    <2>1. {e \in decisions' : e.kind = "ADVANCE"} = passed
        BY <1>4
    <2> QED
        BY <1>1, <2>1 DEF StagesFit, CurrentStage
<1> QED
    BY <1>3, <1>4

LEMMA DecideKeeps ==
    ASSUME IInv, RecordDecision
    PROVE  IInv'
<1> DEFINE d == [round |-> flow.round, stage |-> CurrentStage, kind |-> step.verdict]
<1>1. /\ UNCHANGED <<current, receipts, routes, effects, flow, flights, budget>>
      /\ step.at = "judged" /\ decisions' = decisions \cup {d}
    BY DEF RecordDecision, files, proxy, At
<1>2. step' \in Shape /\ step'.at = "decided" /\ step'.verdict = step.verdict
    BY PlaceMoved DEF RecordDecision, Places
<1>3. /\ Shown /\ Undecided /\ step.verdict \in Kinds
      /\ step.verdict = "ADVANCE" => CurrentStage < Len(Weights)
    BY <1>1 DEF IInv, StepFits, RoundFits
<1>4. Shown' /\ Mine' = Mine /\ Written' = Written /\ MineIsWritten
    BY <1>1, <1>3 DEF Shown, Mine, Written, MineIsWritten
<1>5. StageTypeOK'
    <2>1. d \in [round : 1 .. MaxRounds, stage : DOMAIN Weights, kind : Kinds]
        BY <1>3, RoundTyped, StageIsOne DEF IInv, WorldFits
    <2> QED
        BY <1>1, <1>2, <2>1 DEF IInv, StageTypeOK, Shape
<1>6. StepFits'
    <2>1. d \in decisions' /\ d.round = flow'.round /\ d.kind = step'.verdict
        BY <1>1, <1>2
    <2> QED
        BY <1>2, <1>4, <2>1 DEF StepFits, ShiftFits, DirectorFits, RoundFits
<1>7. GenerationsGrow' /\ OpsAreWrittenOnce' /\ AnnouncedFirst'
    BY <1>1, <1>4 DEF IInv, WorldFits, GenerationsGrow, OpsAreWrittenOnce, AnnouncedFirst
<1>8. EffectsAreWritten'
    BY <1>1, <1>4 DEF IInv, WorldFits, EffectsAreWritten, Pending
<1>9. CurrentIsKept'
    <2>1. current.op = Mine => current \in receipts
        BY <1>3 DEF IInv, WorldFits, Shown, OpsAreWrittenOnce, Written
    <2> QED
        BY <1>1, <2>1 DEF IInv, WorldFits, CurrentIsKept
<1>10. DecisionsStand'
    <2>1. flow.round <= flow.round
        BY RoundTyped DEF IInv
    <2>2. \A e \in decisions : e.round # d.round
        BY <1>3 DEF Undecided
    <2> QED
        BY <1>1, <1>4, <2>1, <2>2 DEF IInv, WorldFits, DecisionsStand
<1>11. StagesFit'
    BY <1>1, <1>3, StageCounted DEF IInv, WorldFits
<1>12. GenerationsSuffice'
    <2>1. ~Undecided'
        <3>1. d \in decisions' /\ d.round = flow'.round
            BY <1>1
        <3> QED
            BY <3>1 DEF Undecided
    <2>2. current'.gen <= 3 * flow'.round
        BY <1>1, <1>3, RoundTyped, RoutesTyped DEF IInv, WorldFits, GenerationsSuffice
    <2> QED
        BY <2>1, <2>2 DEF GenerationsSuffice
<1> QED
    BY <1>5, <1>6, <1>7, <1>8, <1>9, <1>10, <1>11, <1>12 DEF IInv, WorldFits

\* The next round begins with a fresh operation, and no shift of this one is left behind.
LEMMA RecordKeeps ==
    ASSUME IInv, Record
    PROVE  IInv'
<1>1. /\ UNCHANGED <<current, receipts, routes, effects, decisions, flights, budget>>
      /\ step' = Fresh /\ step.at \in {"returned", "failed"}
    BY DEF Record, files, proxy, At
<1>2. Shown /\ MineIsWritten
    BY <1>1 DEF IInv, StepFits, RoundFits, Shown, MineIsWritten, Written
<1>3. \/ flow' = [flow EXCEPT !.pc = "ended"]
      \/ flow.round < MaxRounds /\ flow' = [flow EXCEPT !.round = @ + 1]
    BY DEF Record
<1>4. flow' \in [pc : {"canary", "ended"}, round : 1 .. MaxRounds]
    BY <1>3, RoundTyped DEF IInv, StageTypeOK
<1>5. StageTypeOK'
    BY <1>1, <1>4, FreshTyped DEF IInv, StageTypeOK, Shape
<1>6. Written' = Written
    BY <1>1 DEF Written
<1>7. GenerationsGrow' /\ OpsAreWrittenOnce' /\ AnnouncedFirst'
    BY <1>1, <1>6 DEF IInv, WorldFits, GenerationsGrow, OpsAreWrittenOnce, AnnouncedFirst
<1>8. EffectsAreWritten'
    <2>1. \A e \in effects : e.weight > 0 => e \in Written
        BY <1>2 DEF IInv, WorldFits, EffectsAreWritten, Pending
    <2> QED
        BY <1>1, <1>6, <2>1 DEF EffectsAreWritten
<1>9. CurrentIsKept'
    <2>1. current.op = Mine => current \in receipts
        BY <1>2 DEF IInv, WorldFits, Shown, OpsAreWrittenOnce, Written
    <2> QED
        BY <1>1, <2>1 DEF IInv, WorldFits, CurrentIsKept
<1>10. StagesFit'
    BY <1>1 DEF IInv, WorldFits, StagesFit, CurrentStage
<1>11. /\ flow.round \in Nat /\ current.gen \in Nat
       /\ \A e \in decisions : e.round \in Nat /\ e.round <= flow.round
    BY RoundTyped, RoutesTyped DEF IInv, StageTypeOK, WorldFits, DecisionsStand
<1>12. CASE flow'.round = flow.round
    <2>1. Mine' = Mine /\ Undecided' = Undecided /\ Shown' = Shown
          /\ MineIsWritten' = MineIsWritten
        BY <1>1, <1>6, <1>12 DEF Mine, Undecided, Shown, MineIsWritten
    <2>2. DecisionsStand' /\ GenerationsSuffice'
        BY <1>1, <1>12, <2>1 DEF IInv, WorldFits, DecisionsStand, GenerationsSuffice,
                                 ObserverFailed, Restored
    <2> QED
        BY <1>1, <1>5, <1>7, <1>8, <1>9, <1>10, <2>2, FreshFits DEF IInv, WorldFits
<1>13. CASE flow'.round = flow.round + 1
    <2>1. Undecided'
        <3>1. \A e \in decisions : e.round # flow.round + 1
            BY <1>11
        <3> QED
            BY <1>1, <1>13, <3>1 DEF Undecided
    <2>2. DecisionsStand'
        <3>1. \A e \in decisions : e.round <= flow.round + 1
            BY <1>11
        <3> QED
            BY <1>1, <1>13, <2>1, <3>1 DEF IInv, WorldFits, DecisionsStand
    <2>3. current.gen <= 3 * flow.round + 1
        BY <1>11 DEF IInv, WorldFits, GenerationsSuffice
    <2>4. GenerationsSuffice'
        BY <1>1, <1>11, <1>13, <2>3 DEF GenerationsSuffice
    <2> QED
        BY <1>1, <1>5, <1>7, <1>8, <1>9, <1>10, <2>2, <2>4, FreshFits DEF IInv, WorldFits
<1>14. flow'.round = flow.round \/ flow'.round = flow.round + 1
    BY <1>3 DEF IInv, StageTypeOK
<1> QED
    BY <1>12, <1>13, <1>14

----------------------------------------------------------------------------
LEMMA StutterKeeps ==
    ASSUME IInv, UNCHANGED vars
    PROVE  IInv'
<1>1. UNCHANGED <<files, decisions, flow, step, flights, budget>>
    BY DEF vars, files
<1>2. StageTypeOK'
    BY <1>1 DEF IInv, StageTypeOK, files
<1> QED
    BY <1>1, <1>2, WorldStays, StepStays DEF IInv

LEMMA NextIInv == IInv /\ [Next]_vars => IInv'
<1> SUFFICES ASSUME IInv, [Next]_vars PROVE IInv'
    OBVIOUS
<1>1. CASE Director
    BY <1>1, LookUpKeeps, WriteRouteKeeps, WriteReceiptKeeps DEF Director
<1>2. CASE Workflow
    BY <1>2, BeginKeeps, JudgeKeeps, FailureKeeps, DecideKeeps, FinishKeeps, RecordKeeps
       DEF Workflow
<1>3. CASE Crash
    BY <1>3, CrashKeeps
<1>4. ASSUME NEW c \in Connections, Arrive(c) \/ Answer(c) PROVE IInv'
    BY <1>4, ArriveKeeps, AnswerKeeps
<1> QED
    BY <1>1, <1>2, <1>3, <1>4, StutterKeeps DEF Next

LEMMA Inductive == Spec => []IInv
    BY InitIInv, NextIInv, PTL DEF Spec

\* The route, the workflow and the requests in flight keep their types: generations and
\* stages stay within what rounds and the contract allow.
THEOREM StageTyping == Spec => []StageTypeOK
    BY Inductive, PTL DEF IInv

\* Of two effects that give traffic, those written are told apart by their routes, and there
\* is one that is not written at most.
LEMMA IInvIdentifies == IInv => ExposuresAreIdentified
<1> SUFFICES ASSUME IInv PROVE ExposuresAreIdentified
    OBVIOUS
<1>1. \A r, s \in Written : r.gen = s.gen => r = s
    BY DEF IInv, WorldFits, GenerationsGrow, Written
<1>2. \A r \in Written : r.gen \in Nat /\ r.gen <= current.gen /\ current.gen \in Nat
    BY RoutesTyped DEF IInv, WorldFits, GenerationsGrow, Written
<1>3. ASSUME NEW e \in effects, NEW f \in effects, e.weight > 0, f.weight > 0,
             e.op = f.op \/ e.gen = f.gen
      PROVE  e = f
    <2>1. (e \in Written \/ Pending(e)) /\ (f \in Written \/ Pending(f))
        BY <1>3 DEF IInv, WorldFits, EffectsAreWritten
    <2>2. CASE e \in Written /\ f \in Written
        BY <1>1, <1>3, <2>2 DEF IInv, WorldFits, OpsAreWrittenOnce
    <2>3. CASE Pending(e) /\ Pending(f)
        BY <2>3 DEF Pending
    <2>4. ASSUME NEW r \in Written, NEW p, Pending(p)
          PROVE  r.op # p.op /\ r.gen # p.gen
        <3>1. p.op = Mine /\ p.gen = current.gen + 1
            BY <2>4 DEF Pending
        <3>2. r.gen # current.gen + 1
            BY <1>2
        <3> QED
            BY <2>4, <3>1, <3>2 DEF Pending, MineIsWritten
    <2> QED
        BY <1>3, <2>1, <2>2, <2>3, <2>4
<1>4. receipts \cup {current} \subseteq effects \cup {Earlier}
    BY DEF IInv, WorldFits, AnnouncedFirst, Written
<1>5. \A r, s \in receipts : r.gen = s.gen => r = s
    BY DEF IInv, WorldFits, GenerationsGrow
<1> QED
    BY <1>3, <1>4, <1>5 DEF ExposuresAreIdentified

\* Whatever the process dies between and however often a round is repeated, a generation of
\* the route is one exposure of users to the candidate, made by one operation, announced
\* before it is made.
THEOREM Identified == Spec => []ExposuresAreIdentified
    BY Inductive, IInvIdentifies, PTL
----------------------------------------------------------------------------
\* PassedOnItsOwnRoute.  A round that does not find its shift as it left it, because its
\* observer failed or the process died, gave the route back and answered nobody by that
\* generation since the counters were lost: it has no count to pass on.

\* Nobody was answered by this generation in this life of the process, or will be.
Untouched(gen) ==
    /\ \A c \in Connections : flights[c].gen # gen
    /\ \A arm \in Arms : metrics[gen][arm].requests = 0

RoundsToCome == \A r \in Written, k \in 1 .. MaxRounds : k > flow.round => r.op # <<k, "traffic">>
ShownAtItsWeight ==
    \A r \in Written : r.op = Mine /\ Undecided => r.weight = Weights[CurrentStage]

MayObserve ==
    /\ flow.pc = "canary"
    /\ \/ step.at \in {"begun", "observing"}
       \/ step.at \in {"shifting", "effected", "routed"} /\ step.then = "observing"
GivenBackIsUntouched ==
    Undecided /\ MayObserve =>
        \A r \in receipts : r.op = Mine /\ r # current => Untouched(r.gen)
ObservesItsShift == step.at = "observing" => \E r \in receipts : r.op = Mine /\ r.gen = step.gen

RouteFits ==
    /\ RoundsToCome /\ ShownAtItsWeight /\ GivenBackIsUntouched /\ ObservesItsShift
    /\ DOMAIN metrics = Generations

LEMMA InitRouteFits == Init => RouteFits
<1> SUFFICES ASSUME Init PROVE RouteFits
    OBVIOUS
<1>1. current = Earlier /\ receipts = {Earlier} /\ step = Fresh /\ metrics = NoneCounted
    BY DEF Init
<1>2. \A k : Earlier.op # <<k, "traffic">>
    BY DEF Earlier
<1>3. RoundsToCome /\ ShownAtItsWeight /\ GivenBackIsUntouched
    BY <1>1, <1>2 DEF RoundsToCome, ShownAtItsWeight, GivenBackIsUntouched, Written, Mine
<1>4. ObservesItsShift /\ DOMAIN metrics = Generations
    BY <1>1, FreshTyped DEF ObservesItsShift, NoneCounted
<1> QED
    BY <1>3, <1>4 DEF RouteFits

\* The part about the routes holds while files, decisions and rounds stay.
LEMMA ShownStays ==
    ASSUME RouteFits, UNCHANGED <<current, receipts, decisions, flow>>
    PROVE  RoundsToCome' /\ ShownAtItsWeight'
<1>1. Written' = Written /\ Mine' = Mine /\ Undecided' = Undecided
      /\ CurrentStage' = CurrentStage
    BY DEF Written, Mine, Undecided, CurrentStage
<1> QED
    BY <1>1 DEF RouteFits, RoundsToCome, ShownAtItsWeight

\* A step of the workflow that moves no route and serves no request.
LEMMA RouteStays ==
    ASSUME RouteFits, UNCHANGED <<current, receipts, decisions, flow, flights, metrics>>,
           MayObserve' => MayObserve, ObservesItsShift'
    PROVE  RouteFits'
<1>1. RoundsToCome' /\ ShownAtItsWeight'
    BY ShownStays
<1>2. Mine' = Mine /\ Undecided' = Undecided
    BY DEF Mine, Undecided
<1>3. \A gen : Untouched(gen)' = Untouched(gen)
    BY DEF Untouched
<1>4. GivenBackIsUntouched'
    BY <1>2, <1>3 DEF RouteFits, GivenBackIsUntouched
<1> QED
    BY <1>1, <1>4 DEF RouteFits

\* A request is routed by the current generation, not by one that was given back.
LEMMA ArriveKeepsRoute ==
    ASSUME IInv, RouteFits, NEW c \in Connections, Arrive(c)
    PROVE  RouteFits'
<1>1. UNCHANGED <<current, receipts, decisions, flow, step, metrics>>
    BY DEF Arrive, files
<1>2. \A e \in Connections : flights'[e] = flights[e] \/ flights'[e].gen = current.gen
    BY DEF Arrive, IInv, StageTypeOK
<1>3. \A r \in receipts : r # current /\ Untouched(r.gen) => Untouched(r.gen)'
    BY <1>1, <1>2 DEF Untouched, IInv, WorldFits, GenerationsGrow
<1>4. Mine' = Mine /\ Undecided' = Undecided /\ MayObserve' = MayObserve
    BY <1>1 DEF Mine, Undecided, MayObserve
<1>5. GivenBackIsUntouched'
    BY <1>1, <1>3, <1>4 DEF RouteFits, GivenBackIsUntouched
<1>6. ObservesItsShift'
    BY <1>1, <1>4 DEF RouteFits, ObservesItsShift
<1> QED
    BY <1>1, <1>5, <1>6, ShownStays DEF RouteFits

\* An answer counts for the generation its request was routed by.
LEMMA AnswerKeepsRoute ==
    ASSUME IInv, RouteFits, NEW c \in Connections, Answer(c)
    PROVE  RouteFits'
<1>1. /\ UNCHANGED <<current, receipts, decisions, flow, step>>
      /\ flights' = [flights EXCEPT ![c] = Idle]
    BY DEF Answer, files
<1>2. PICK r \in Responses :
        metrics' = [metrics EXCEPT ![flights[c].gen][flights[c].arm] = Counted(@, r)]
    BY DEF Answer
<1>3. DOMAIN metrics' = Generations /\ \A gen \in Generations :
        gen # flights[c].gen => metrics'[gen] = metrics[gen]
    BY <1>2 DEF RouteFits
<1>4. \A e \in Connections : flights'[e] = flights[e] \/ flights'[e].gen = 0
    BY <1>1 DEF IInv, StageTypeOK, Idle
<1>5. \A gen \in Generations : gen # 0
    BY CanaryTrafficAssumption DEF Generations
<1>6. \A gen \in Generations : Untouched(gen) => Untouched(gen)'
    BY <1>3, <1>4, <1>5 DEF Untouched
<1>7. \A s \in receipts : s.gen \in Generations
    BY DEF IInv, StageTypeOK, Route
<1>8. Mine' = Mine /\ Undecided' = Undecided /\ MayObserve' = MayObserve
    BY <1>1 DEF Mine, Undecided, MayObserve
<1>9. GivenBackIsUntouched'
    BY <1>1, <1>6, <1>7, <1>8 DEF RouteFits, GivenBackIsUntouched
<1>10. ObservesItsShift'
    BY <1>1, <1>8 DEF RouteFits, ObservesItsShift
<1> QED
    BY <1>1, <1>3, <1>9, <1>10, ShownStays DEF RouteFits

\* Counters and requests are gone with the process.
LEMMA CrashKeepsRoute ==
    ASSUME IInv, RouteFits, Crash
    PROVE  RouteFits'
<1>1. /\ UNCHANGED <<current, receipts, decisions, flow>>
      /\ step' = Fresh /\ flights' = NoFlights /\ metrics' = NoneCounted
    BY DEF Crash, files
<1>2. \A r \in receipts : r.gen \in Generations /\ r.gen # 0
    BY CanaryTrafficAssumption DEF IInv, StageTypeOK, Route, Generations
<1>3. \A r \in receipts : Untouched(r.gen)'
    BY <1>1, <1>2 DEF Untouched, NoFlights, Idle, NoneCounted, NoMetrics
<1>4. GivenBackIsUntouched' /\ ObservesItsShift'
    BY <1>1, <1>3, FreshTyped DEF GivenBackIsUntouched, ObservesItsShift
<1>5. DOMAIN metrics' = Generations
    BY <1>1 DEF NoneCounted
<1> QED
    BY <1>1, <1>4, <1>5, ShownStays DEF RouteFits

\* The workflow asks for nothing else on the way from its start to the observation.
LEMMA WorkflowKeepsRoute ==
    ASSUME IInv, RouteFits, BeginStage \/ Judge \/ GiveUp \/ ObserverFails \/ FinishStage
    PROVE  RouteFits'
<1>1. UNCHANGED <<current, receipts, decisions, flow, flights, metrics>> /\ flow.pc = "canary"
    BY DEF BeginStage, Judge, GiveUp, ObserverFails, FinishStage, At, files, proxy
<1>2. step'.at # "observing"
    <2>1. \A name, weight, then : Shift(name, weight, then) => step'.at = "shifting"
        BY DEF Shift, IInv, StageTypeOK
    <2>2. \A place : Goto(place) => step'.at = place
        BY DEF Goto, IInv, StageTypeOK
    <2>3. \A seen, inTime : Conclude(seen, inTime) => step'.at = "judged"
        BY DEF Conclude, IInv, StageTypeOK
    <2> QED
        BY <2>1, <2>2, <2>3 DEF BeginStage, Judge, GiveUp, ObserverFails, FinishStage, Follow
<1>3. MayObserve' => MayObserve
    <2>1. CASE BeginStage
        BY <1>1, <2>1 DEF BeginStage, At, MayObserve
    <2>2. CASE Judge \/ GiveUp
        BY <1>1, <2>2 DEF Judge, GiveUp, At, MayObserve
    <2>3. CASE ObserverFails
        BY <1>1, <2>3 DEF ObserverFails, At, MayObserve
    <2>4. CASE FinishStage
        <3>1. PICK kind : Follow(kind)
            BY <2>4 DEF FinishStage
        <3>2. step'.at = "returned" \/ (step'.at = "shifting" /\ step'.then = "returned")
            BY <3>1 DEF Follow, Shift, Goto, IInv, StageTypeOK
        <3> QED
            BY <3>2 DEF MayObserve
    <2> QED
        BY <2>1, <2>2, <2>3, <2>4
<1>4. ObservesItsShift'
    BY <1>2 DEF ObservesItsShift
<1> QED
    BY <1>1, <1>3, <1>4, RouteStays

LEMMA LookUpKeepsRoute ==
    ASSUME IInv, RouteFits, LookUp
    PROVE  RouteFits'
<1>1. /\ UNCHANGED <<current, receipts, decisions, flow, flights, metrics>>
      /\ step.at = "shifting" /\ flow.pc = "canary"
    BY DEF LookUp, proxy, At
<1>2. ForStage \/ ForFailure \/ \E d \in decisions : ForDecision(d)
    BY <1>1 DEF IInv, StepFits, ShiftFits
<1>3. CASE \E r \in receipts : r.op = step.shift.op /\ Returned(r.gen)
    <2>1. PICK r \in receipts : r.op = step.shift.op /\ Returned(r.gen)
        BY <1>3
    <2>2. step'.at = step.then /\ step'.then = step.then /\ step'.gen = r.gen
        BY <2>1 DEF Returned, IInv, StageTypeOK
    <2>3. step.then \in Afterwards
        BY DEF IInv, StageTypeOK
    <2>4. MayObserve' => MayObserve
        BY <1>1, <2>2, <2>3 DEF MayObserve, Afterwards
    <2>5. step.then = "observing" => r.op = Mine
        BY <1>2, <2>1 DEF ForStage, ForFailure, ForDecision
    <2>6. ObservesItsShift'
        BY <1>1, <2>1, <2>2, <2>5 DEF ObservesItsShift, Mine
    <2> QED
        BY <1>1, <2>4, <2>6, RouteStays
<1>4. CASE Goto("routed") \/ Goto("effected")
    <2>1. step'.at \in {"routed", "effected"} /\ step'.then = step.then
        BY <1>4 DEF Goto, IInv, StageTypeOK
    <2>2. (MayObserve' => MayObserve) /\ ObservesItsShift'
        BY <1>1, <2>1 DEF MayObserve, ObservesItsShift
    <2> QED
        BY <1>1, <2>2, RouteStays
<1> QED
    BY <1>3, <1>4 DEF LookUp

\* A shift is written at the weight of its stage, and none of this round was written before.
LEMMA WriteRouteKeepsRoute ==
    ASSUME IInv, RouteFits, WriteRoute
    PROVE  RouteFits'
<1>1. /\ UNCHANGED <<receipts, decisions, flow, flights, metrics>>
      /\ step.at = "effected" /\ current' = Intended /\ Goto("routed")
    BY DEF WriteRoute, proxy, At
<1>2. ForStage \/ ForFailure \/ \E d \in decisions : ForDecision(d)
    BY <1>1 DEF IInv, StepFits, ShiftFits
<1>3. Mine' = Mine /\ Undecided' = Undecided /\ CurrentStage' = CurrentStage
    BY <1>1 DEF Mine, Undecided, CurrentStage
<1>4. current'.op = step.shift.op /\ current'.weight = step.shift.weight
    BY <1>1 DEF Intended
<1>5. step'.at = "routed" /\ step'.then = step.then
    BY <1>1 DEF Goto, IInv, StageTypeOK
<1>6. Written' = receipts \cup {current'} /\ receipts \subseteq Written
    BY <1>1 DEF Written
<1>7. \E name : current'.op = <<flow.round, name>>
    <2>1. CASE ForStage
        BY <1>4, <2>1 DEF ForStage, Mine
    <2>2. CASE ForFailure
        BY <1>4, <2>2 DEF ForFailure
    <2>3. ASSUME NEW d \in decisions, ForDecision(d)
          PROVE  \E name : current'.op = <<flow.round, name>>
        BY <1>4, <2>3 DEF ForDecision
    <2> QED
        BY <1>2, <2>1, <2>2, <2>3
<1>8. RoundsToCome'
    <2>1. \A k \in 1 .. MaxRounds : k > flow.round => current'.op # <<k, "traffic">>
        BY <1>7, RoundTyped DEF IInv
    <2> QED
        BY <1>1, <1>6, <2>1 DEF RouteFits, RoundsToCome
<1>9. ShownAtItsWeight'
    <2>1. current'.op = Mine /\ Undecided => ForStage
        <3>1. ForFailure => current'.op # Mine
            BY <1>4 DEF ForFailure, Mine
        <3>2. \A d \in decisions : ForDecision(d) => ~Undecided
            BY DEF ForDecision, Undecided
        <3> QED
            BY <1>2, <3>1, <3>2
    <2>2. current'.op = Mine /\ Undecided => current'.weight = Weights[CurrentStage]
        BY <1>4, <2>1 DEF ForStage
    <2> QED
        BY <1>1, <1>3, <1>6, <2>2 DEF RouteFits, ShownAtItsWeight
<1>10. GivenBackIsUntouched'
    <2>1. MayObserve' => ForStage
        BY <1>2, <1>5 DEF MayObserve, ForFailure, ForDecision
    <2>2. ForStage => \A r \in receipts : r.op # Mine
        BY <1>1 DEF ForStage, IInv, StepFits, DirectorFits, Written
    <2> QED
        BY <1>1, <1>3, <2>1, <2>2 DEF GivenBackIsUntouched
<1>11. ObservesItsShift'
    BY <1>5 DEF ObservesItsShift
<1> QED
    BY <1>1, <1>8, <1>9, <1>10, <1>11 DEF RouteFits

LEMMA WriteReceiptKeepsRoute ==
    ASSUME IInv, RouteFits, WriteReceipt
    PROVE  RouteFits'
<1>1. /\ UNCHANGED <<current, decisions, flow, flights, metrics>> /\ flow.pc = "canary"
      /\ step.at = "routed" /\ receipts' = receipts \cup {current} /\ Returned(current.gen)
    BY DEF WriteReceipt, proxy, At
<1>2. ForStage \/ ForFailure \/ \E d \in decisions : ForDecision(d)
    BY <1>1 DEF IInv, StepFits, ShiftFits
<1>3. /\ Mine' = Mine /\ Undecided' = Undecided /\ CurrentStage' = CurrentStage
      /\ Written' = Written
    BY <1>1 DEF Mine, Undecided, CurrentStage, Written
<1>4. step'.at = step.then /\ step'.then = step.then /\ step'.gen = current.gen
    BY <1>1 DEF Returned, IInv, StageTypeOK
<1>5. step.then \in Afterwards
    BY DEF IInv, StageTypeOK
<1>6. RoundsToCome' /\ ShownAtItsWeight'
    BY <1>1, <1>3 DEF RouteFits, RoundsToCome, ShownAtItsWeight
<1>7. MayObserve' => MayObserve
    BY <1>1, <1>4, <1>5 DEF MayObserve, Afterwards
<1>8. \A gen : Untouched(gen)' = Untouched(gen)
    BY <1>1 DEF Untouched
<1>9. GivenBackIsUntouched'
    BY <1>1, <1>3, <1>7, <1>8 DEF RouteFits, GivenBackIsUntouched
<1>10. ObservesItsShift'
    <2>1. current.op = step.shift.op
        BY <1>1 DEF IInv, StepFits, DirectorFits
    <2>2. step.then = "observing" => current.op = Mine
        BY <1>2, <2>1 DEF ForStage, ForFailure, ForDecision
    <2> QED
        BY <1>1, <1>3, <1>4, <2>2 DEF ObservesItsShift
<1> QED
    BY <1>1, <1>6, <1>9, <1>10 DEF RouteFits

\* A round that is decided observes nothing more, and the next one has not been shown.
LEMMA DecideKeepsRoute ==
    ASSUME IInv, RouteFits, RecordDecision
    PROVE  RouteFits'
<1> DEFINE d == [round |-> flow.round, stage |-> CurrentStage, kind |-> step.verdict]
<1>1. /\ UNCHANGED <<current, receipts, flow, flights, metrics>>
      /\ decisions' = decisions \cup {d} /\ Goto("decided")
    BY DEF RecordDecision, files, proxy
<1>2. ~Undecided'
    <2>1. d \in decisions' /\ d.round = flow'.round
        BY <1>1
    <2> QED
        BY <2>1 DEF Undecided
<1>3. Written' = Written /\ step'.at = "decided"
    BY <1>1 DEF Written, Goto, IInv, StageTypeOK
<1> QED
    BY <1>1, <1>2, <1>3
       DEF RouteFits, RoundsToCome, ShownAtItsWeight, GivenBackIsUntouched, ObservesItsShift

LEMMA RecordKeepsRoute ==
    ASSUME IInv, RouteFits, Record
    PROVE  RouteFits'
<1>1. UNCHANGED <<current, receipts, decisions, flights, metrics>> /\ step' = Fresh
    BY DEF Record, files, proxy
<1>2. Written' = Written /\ CurrentStage' = CurrentStage /\ receipts \subseteq Written
    BY <1>1 DEF Written, CurrentStage
<1>3. ObservesItsShift'
    BY <1>1, FreshTyped DEF ObservesItsShift
<1>4. CASE flow'.pc = "ended" /\ flow'.round = flow.round
    <2>1. Mine' = Mine /\ Undecided' = Undecided
        BY <1>1, <1>4 DEF Mine, Undecided
    <2>2. RoundsToCome' /\ ShownAtItsWeight'
        BY <1>2, <1>4, <2>1 DEF RouteFits, RoundsToCome, ShownAtItsWeight
    <2>3. GivenBackIsUntouched'
        BY <1>4 DEF GivenBackIsUntouched, MayObserve
    <2> QED
        BY <1>1, <1>3, <2>2, <2>3 DEF RouteFits
<1>5. CASE flow.round < MaxRounds /\ flow'.round = flow.round + 1
    <2>1. flow.round + 1 \in 1 .. MaxRounds /\ flow.round + 1 > flow.round
        BY <1>5, RoundTyped DEF IInv
    <2>2. \A r \in Written : r.op # Mine'
        BY <1>5, <2>1 DEF RouteFits, RoundsToCome, Mine
    <2>3. RoundsToCome'
        BY <1>2, <1>5, RoundTyped DEF RouteFits, RoundsToCome, IInv
    <2>4. ShownAtItsWeight' /\ GivenBackIsUntouched'
        BY <1>1, <1>2, <2>2 DEF ShownAtItsWeight, GivenBackIsUntouched
    <2> QED
        BY <1>1, <1>3, <2>3, <2>4 DEF RouteFits
<1> QED
    BY <1>4, <1>5 DEF Record, IInv, StageTypeOK

LEMMA NextRouteFits == IInv /\ RouteFits /\ [Next]_vars => RouteFits'
<1> SUFFICES ASSUME IInv, RouteFits, [Next]_vars PROVE RouteFits'
    OBVIOUS
<1>1. CASE Director
    BY <1>1, LookUpKeepsRoute, WriteRouteKeepsRoute, WriteReceiptKeepsRoute DEF Director
<1>2. CASE Workflow
    BY <1>2, WorkflowKeepsRoute, DecideKeepsRoute, RecordKeepsRoute DEF Workflow
<1>3. CASE Crash
    BY <1>3, CrashKeepsRoute
<1>4. ASSUME NEW c \in Connections, Arrive(c) \/ Answer(c) PROVE RouteFits'
    BY <1>4, ArriveKeepsRoute, AnswerKeepsRoute
<1>5. CASE UNCHANGED vars
    <2>1. UNCHANGED <<current, receipts, decisions, flow, flights, metrics, step>>
        BY <1>5 DEF vars
    <2>2. (MayObserve' => MayObserve) /\ ObservesItsShift'
        BY <2>1 DEF MayObserve, ObservesItsShift, RouteFits, Mine
    <2> QED
        BY <2>1, <2>2, RouteStays
<1> QED
    BY <1>1, <1>2, <1>3, <1>4, <1>5 DEF Next

LEMMA RouteFitsAlways == Spec => []RouteFits
    BY InitRouteFits, Inductive, NextRouteFits, PTL DEF Spec

\* Only a poll that found enough lets a candidate on: without one a stage is held at best.
LEMMA PassIsEvidenced ==
    ASSUME IInv, RouteFits, [Next]_vars, step.at = "observing", step'.at = "judged",
           step'.verdict \in Passes
    PROVE  Sufficient(CurrentStage, metrics[step.gen]) /\ flow.pc = "canary"
<1>1. CASE Judge
    BY <1>1 DEF Judge, At
<1>2. CASE GiveUp
    <2>1. PICK seen : Conclude(seen, FALSE)
        BY <1>2 DEF GiveUp
    <2>2. step'.verdict = Evaluate(CurrentStage, seen, FALSE)
        BY <2>1 DEF Conclude, IInv, StageTypeOK
    <2> QED
        BY <2>2 DEF Evaluate, Complete, Passes, Restoring
<1>3. CASE BeginStage \/ RecordDecision \/ FinishStage \/ LookUp \/ WriteRoute \/ WriteReceipt
    BY <1>3 DEF BeginStage, RecordDecision, FinishStage, LookUp, WriteRoute, WriteReceipt, At
<1>4. CASE ObserverFails
    BY <1>4 DEF ObserverFails, Shift, IInv, StageTypeOK
<1>5. CASE Record \/ Crash
    BY <1>5, FreshTyped DEF Record, Crash
<1>6. ASSUME NEW c \in Connections, Arrive(c) \/ Answer(c) PROVE FALSE
    BY <1>6 DEF Arrive, Answer
<1>7. CASE UNCHANGED vars
    BY <1>7 DEF vars
<1> QED
    BY <1>1, <1>2, <1>3, <1>4, <1>5, <1>6, <1>7 DEF Next, Director, Workflow

\* A stage is only passed while the route is its own: at its weight, in the generation that
\* was observed, although a shift that is replayed from its receipt does not bring back a
\* route that was given back meanwhile.
THEOREM OwnRoute == Spec => PassedOnItsOwnRoute
<1>1. IInv /\ RouteFits /\ [Next]_vars =>
        [step'.at = "judged" /\ step.at = "observing" /\ step'.verdict \in Passes =>
           current = [op |-> <<flow.round, "traffic">>, gen |-> step.gen,
                      weight |-> Weights[CurrentStage]]]_vars
    <2> SUFFICES ASSUME IInv, RouteFits, [Next]_vars,
                        step'.at = "judged", step.at = "observing", step'.verdict \in Passes
                 PROVE  current = [op |-> Mine, gen |-> step.gen,
                                   weight |-> Weights[CurrentStage]]
        BY DEF Mine
    <2>1. Sufficient(CurrentStage, metrics[step.gen])
        BY PassIsEvidenced
    <2>2. MayObserve /\ Undecided
        <3>1. flow.pc = "canary"
            BY PassIsEvidenced
        <3> QED
            BY <3>1 DEF MayObserve, IInv, StepFits, RoundFits
    <2>3. PICK r \in receipts : r.op = Mine /\ r.gen = step.gen
        BY DEF RouteFits, ObservesItsShift
    <2>4. ~Untouched(r.gen)
        <3>1. metrics[r.gen]["candidate"].requests + metrics[r.gen]["control"].requests
                >= MinRequests
            BY <2>1, <2>3 DEF Sufficient
        <3>2. MinRequests \in Nat \ {0}
            BY CanaryTrafficAssumption
        <3>3. Untouched(r.gen) => metrics[r.gen]["candidate"].requests = 0
                                  /\ metrics[r.gen]["control"].requests = 0
            BY DEF Untouched, Arms
        <3> QED
            BY <3>1, <3>2, <3>3
    <2>5. r = current
        BY <2>2, <2>3, <2>4 DEF RouteFits, GivenBackIsUntouched
    <2>6. current.weight = Weights[CurrentStage]
        BY <2>2, <2>3, <2>5 DEF RouteFits, ShownAtItsWeight, Written
    <2> QED
        BY <2>3, <2>5, <2>6 DEF IInv, StageTypeOK, Route
<1> QED
    BY <1>1, Inductive, RouteFitsAlways, PTL DEF PassedOnItsOwnRoute, Spec
----------------------------------------------------------------------------
\* ImplementsDirector.  The one route that may lose its receipt for good is that of an
\* observer that failed, when the process dies in it and the observer does not fail again;
\* it is not asked for again, for the round is decided by then.

Spent(op) == \E d \in decisions : op = <<d.round, "observer-failed">>
LostAreSpent == \A r \in routes : r \in Written \/ Spent(r.op)
ShiftsGiveTraffic ==
    \A r \in Written : r.weight = 0 \/ \E k \in 1 .. MaxRounds : r.op = <<k, "traffic">>

\* A route whose receipt is missing is what this round asks for next, or spent.
CurrentIsAskedFor ==
    \/ current \in receipts \/ Spent(current.op)
    \/ current.op = Mine /\ Undecided
    \/ ObserverFailed /\ Shown
    \/ \E d \in decisions : Restored(d)
RestoredBeforeReturn ==
    step.at = "returned" =>
        \A d \in decisions : d.round = flow.round /\ d.kind \in Restoring =>
            \E r \in receipts : r.op = <<flow.round, d.kind>>

PortFits ==
    /\ Written \subseteq routes /\ LostAreSpent /\ ShiftsGiveTraffic
    /\ CurrentIsAskedFor /\ RestoredBeforeReturn

LEMMA InitPortFits == Init => PortFits
<1> SUFFICES ASSUME Init PROVE PortFits
    OBVIOUS
<1>1. current = Earlier /\ receipts = {Earlier} /\ routes = {Earlier} /\ step = Fresh
    BY DEF Init
<1>2. Written = {Earlier} /\ Earlier.weight = 0 /\ step.at # "returned"
    BY <1>1, FreshTyped DEF Written, Earlier
<1> QED
    BY <1>1, <1>2 DEF PortFits, LostAreSpent, ShiftsGiveTraffic, CurrentIsAskedFor,
                      RestoredBeforeReturn

\* A step of the workflow that moves no route.
LEMMA PortStays ==
    ASSUME PortFits, UNCHANGED <<current, receipts, routes, decisions, flow>>,
           RestoredBeforeReturn'
    PROVE  PortFits'
<1>1. Written' = Written /\ Mine' = Mine /\ Undecided' = Undecided /\ Shown' = Shown
    BY DEF Written, Mine, Undecided, Shown
<1>2. \A op : Spent(op)' = Spent(op)
    BY DEF Spent
<1>3. LostAreSpent' /\ ShiftsGiveTraffic'
    BY <1>1, <1>2 DEF PortFits, LostAreSpent, ShiftsGiveTraffic
<1>4. CurrentIsAskedFor'
    BY <1>1, <1>2 DEF PortFits, CurrentIsAskedFor, ObserverFailed, Restored
<1> QED
    BY <1>1, <1>3, <1>4 DEF PortFits

\* The decision of a round, where there is one, is the one its return follows.
LEMMA FollowRestores ==
    ASSUME IInv, NEW d \in decisions, d.round = flow.round, Follow(d.kind),
           UNCHANGED <<receipts, decisions, flow>>
    PROVE  RestoredBeforeReturn'
<1>1. CASE d.kind \in Restoring
    BY <1>1 DEF Follow, Shift, IInv, StageTypeOK, RestoredBeforeReturn
<1>2. CASE d.kind \notin Restoring
    BY <1>2 DEF IInv, WorldFits, DecisionsStand, RestoredBeforeReturn
<1> QED
    BY <1>1, <1>2

LEMMA WorkflowKeepsPort ==
    ASSUME IInv, PortFits, BeginStage \/ Judge \/ GiveUp \/ ObserverFails \/ FinishStage
    PROVE  PortFits'
<1>1. UNCHANGED <<current, receipts, routes, decisions, flow>>
    BY DEF BeginStage, Judge, GiveUp, ObserverFails, FinishStage, files
<1>2. CASE \E d \in decisions : d.round = flow.round /\ Follow(d.kind)
    BY <1>1, <1>2, FollowRestores, PortStays
<1>3. CASE step'.at # "returned"
    BY <1>1, <1>3, PortStays DEF RestoredBeforeReturn
<1>4. CASE BeginStage
    <2>1. \A weight : Shift("traffic", weight, "observing") => step'.at = "shifting"
        BY DEF Shift, IInv, StageTypeOK
    <2> QED
        BY <1>2, <1>3, <1>4, <2>1 DEF BeginStage
<1>5. CASE FinishStage
    BY <1>2, <1>5 DEF FinishStage, At, IInv, StepFits, RoundFits
<1>6. CASE Judge \/ GiveUp \/ ObserverFails
    <2>1. \A seen, inTime : Conclude(seen, inTime) => step'.at = "judged"
        BY DEF Conclude, IInv, StageTypeOK
    <2>2. ObserverFails => step'.at = "shifting"
        BY DEF ObserverFails, Shift, IInv, StageTypeOK
    <2> QED
        BY <1>3, <1>6, <2>1, <2>2 DEF Judge, GiveUp
<1> QED
    BY <1>4, <1>5, <1>6

LEMMA LookUpKeepsPort ==
    ASSUME IInv, PortFits, LookUp
    PROVE  PortFits'
<1>1. UNCHANGED <<current, receipts, routes, decisions, flow>> /\ step.at = "shifting"
    BY DEF LookUp, At
<1>2. CASE \E r \in receipts : r.op = step.shift.op /\ Returned(r.gen)
    <2>1. PICK r \in receipts : r.op = step.shift.op /\ Returned(r.gen)
        BY <1>2
    <2>2. step'.at = step.then
        BY <2>1 DEF Returned, IInv, StageTypeOK
    <2>3. step.then = "returned" => \E d \in decisions : ForDecision(d)
        BY <1>1 DEF IInv, StepFits, ShiftFits, ForStage, ForFailure
    <2>4. RestoredBeforeReturn'
        <3>1. CASE step.then # "returned"
            BY <2>2, <3>1 DEF RestoredBeforeReturn
        <3>2. ASSUME NEW d \in decisions, ForDecision(d) PROVE RestoredBeforeReturn'
            <4>1. r.op = <<flow.round, d.kind>> /\ d.round = flow.round
                BY <2>1, <3>2 DEF ForDecision
            <4>2. \A e \in decisions : e.round = flow.round => e = d
                BY <4>1 DEF IInv, WorldFits, DecisionsStand
            <4> QED
                BY <1>1, <4>1, <4>2 DEF RestoredBeforeReturn
        <3> QED
            BY <2>3, <3>1, <3>2
    <2> QED
        BY <1>1, <2>4, PortStays
<1>3. CASE Goto("routed") \/ Goto("effected")
    <2>1. step'.at # "returned"
        BY <1>3 DEF Goto, IInv, StageTypeOK
    <2> QED
        BY <1>1, <2>1, PortStays DEF RestoredBeforeReturn
<1> QED
    BY <1>2, <1>3 DEF LookUp

\* What a new route replaces has its receipt, or is spent.
LEMMA WriteRouteKeepsPort ==
    ASSUME IInv, PortFits, WriteRoute
    PROVE  PortFits'
<1>1. /\ UNCHANGED <<receipts, decisions, flow>> /\ step.at = "effected"
      /\ current' = Intended /\ routes' = routes \cup {Intended} /\ Goto("routed")
    BY DEF WriteRoute, At
<1>2. ForStage \/ ForFailure \/ \E d \in decisions : ForDecision(d)
    BY <1>1 DEF IInv, StepFits, ShiftFits
<1>3. \A r \in Written : r.op # step.shift.op
    BY <1>1 DEF IInv, StepFits, DirectorFits
<1>4. /\ Written' = receipts \cup {Intended} /\ Mine' = Mine /\ Shown' = Shown
      /\ Undecided' = Undecided /\ \A op : Spent(op)' = Spent(op)
    BY <1>1 DEF Written, Mine, Shown, Undecided, Spent
<1>5. Intended.op = step.shift.op /\ Intended.weight = step.shift.weight
    BY DEF Intended
<1>6. current \in receipts \/ Spent(current.op)
    <2>1. current \in Written /\ current.op # step.shift.op
        BY <1>3 DEF Written
    <2>2. Shown /\ current.op = Mine => current \in receipts
        BY <2>1 DEF Shown, IInv, WorldFits, OpsAreWrittenOnce, Written
    <2>3. CASE ForStage
        <3>1. ~Shown /\ Undecided
            BY <1>3, <2>3 DEF ForStage, Shown, Written
        <3> QED
            BY <2>1, <2>3, <3>1 DEF PortFits, CurrentIsAskedFor, ForStage, Restored, Undecided
    <2>4. CASE ForFailure
        BY <2>1, <2>2, <2>4
           DEF PortFits, CurrentIsAskedFor, ForFailure, ObserverFailed, Restored, Undecided
    <2>5. ASSUME NEW d \in decisions, ForDecision(d)
          PROVE  current \in receipts \/ Spent(current.op)
        <3>1. \A e \in decisions : Restored(e) => e = d
            BY <2>5 DEF Restored, ForDecision, IInv, WorldFits, DecisionsStand
        <3>2. ~Restored(d) /\ ~Undecided
            BY <2>1, <2>5 DEF Restored, ForDecision, Undecided
        <3>3. ObserverFailed => Spent(current.op)
            BY <2>5 DEF ObserverFailed, Spent, ForDecision
        <3> QED
            BY <3>1, <3>2, <3>3 DEF PortFits, CurrentIsAskedFor
    <2> QED
        BY <1>2, <2>3, <2>4, <2>5
<1>7. LostAreSpent' /\ Written' \subseteq routes'
    <2>1. receipts \subseteq Written /\ Written = receipts \cup {current}
        BY DEF Written
    <2> QED
        BY <1>1, <1>4, <1>6, <2>1 DEF PortFits, LostAreSpent
<1>8. ShiftsGiveTraffic'
    <2>1. Intended.weight = 0 \/ Intended.op = Mine
        <3>1. \A d \in decisions : ForDecision(d) => Intended.weight = 0
            BY <1>5 DEF ForDecision
        <3>2. ForStage => Intended.op = Mine
            BY <1>5 DEF ForStage
        <3>3. ForFailure => Intended.weight = 0
            BY <1>5 DEF ForFailure
        <3> QED
            BY <1>2, <3>1, <3>2, <3>3
    <2> QED
        BY <1>4, <2>1, RoundTyped DEF PortFits, ShiftsGiveTraffic, Written, Mine, IInv
<1>9. CurrentIsAskedFor'
    <2>1. CASE ForStage
        BY <1>1, <1>4, <1>5, <2>1 DEF ForStage, CurrentIsAskedFor
    <2>2. CASE ForFailure
        BY <1>1, <1>4, <1>5, <2>2 DEF ForFailure, CurrentIsAskedFor, ObserverFailed
    <2>3. ASSUME NEW d \in decisions, ForDecision(d) PROVE CurrentIsAskedFor'
        BY <1>1, <1>5, <2>3 DEF ForDecision, CurrentIsAskedFor, Restored
    <2> QED
        BY <1>2, <2>1, <2>2, <2>3
<1>10. RestoredBeforeReturn'
    BY <1>1 DEF RestoredBeforeReturn, Goto, IInv, StageTypeOK
<1> QED
    BY <1>7, <1>8, <1>9, <1>10 DEF PortFits

LEMMA WriteReceiptKeepsPort ==
    ASSUME IInv, PortFits, WriteReceipt
    PROVE  PortFits'
<1>1. /\ UNCHANGED <<current, routes, decisions, flow>> /\ step.at = "routed"
      /\ receipts' = receipts \cup {current} /\ Returned(current.gen)
    BY DEF WriteReceipt, At
<1>2. Written' = Written /\ \A op : Spent(op)' = Spent(op)
    BY <1>1 DEF Written, Spent
<1>3. Written' \subseteq routes' /\ LostAreSpent' /\ ShiftsGiveTraffic'
    BY <1>1, <1>2 DEF PortFits, LostAreSpent, ShiftsGiveTraffic
<1>4. CurrentIsAskedFor'
    BY <1>1 DEF CurrentIsAskedFor
<1>5. step'.at = step.then /\ current.op = step.shift.op
    BY <1>1 DEF Returned, IInv, StageTypeOK, StepFits, DirectorFits
<1>6. step.then = "returned" => \E d \in decisions : ForDecision(d)
    BY <1>1 DEF IInv, StepFits, ShiftFits, ForStage, ForFailure
<1>7. RestoredBeforeReturn'
    <2>1. CASE step.then # "returned"
        BY <1>5, <2>1 DEF RestoredBeforeReturn
    <2>2. ASSUME NEW d \in decisions, ForDecision(d) PROVE RestoredBeforeReturn'
        <3>1. current.op = <<flow.round, d.kind>> /\ d.round = flow.round
            BY <1>5, <2>2 DEF ForDecision
        <3>2. \A e \in decisions : e.round = flow.round => e = d
            BY <3>1 DEF IInv, WorldFits, DecisionsStand
        <3>3. current \in receipts'
            BY <1>1
        <3> QED
            BY <1>1, <3>1, <3>2, <3>3 DEF RestoredBeforeReturn
    <2> QED
        BY <1>6, <2>1, <2>2
<1> QED
    BY <1>3, <1>4, <1>7 DEF PortFits

\* A shift that is decided on has its receipt.
LEMMA DecideKeepsPort ==
    ASSUME IInv, PortFits, RecordDecision
    PROVE  PortFits'
<1>1. /\ UNCHANGED <<current, receipts, routes, flow>> /\ step.at = "judged"
      /\ decisions \subseteq decisions' /\ Goto("decided")
    BY DEF RecordDecision, files, At
<1>2. /\ Written' = Written /\ Mine' = Mine /\ Shown' = Shown
      /\ \A op : Spent(op) => Spent(op)'
    BY <1>1 DEF Written, Mine, Shown, Spent
<1>3. Written' \subseteq routes' /\ LostAreSpent' /\ ShiftsGiveTraffic'
    BY <1>1, <1>2 DEF PortFits, LostAreSpent, ShiftsGiveTraffic
<1>4. CurrentIsAskedFor'
    <2>1. current.op = Mine => current \in receipts
        BY <1>1 DEF IInv, StepFits, RoundFits, Shown, WorldFits, OpsAreWrittenOnce, Written
    <2>2. \A d \in decisions : Restored(d) => d \in decisions' /\ Restored(d)'
        BY <1>1 DEF Restored
    <2> QED
        BY <1>1, <1>2, <2>1, <2>2 DEF PortFits, CurrentIsAskedFor, ObserverFailed
<1>5. RestoredBeforeReturn'
    BY <1>1 DEF RestoredBeforeReturn, Goto, IInv, StageTypeOK
<1> QED
    BY <1>3, <1>4, <1>5 DEF PortFits

\* The next round finds no route without a receipt, but one that is spent.
LEMMA RecordKeepsPort ==
    ASSUME IInv, PortFits, Record
    PROVE  PortFits'
<1>1. /\ UNCHANGED <<current, receipts, routes, decisions>> /\ step' = Fresh
      /\ step.at \in {"returned", "failed"}
    BY DEF Record, files, At
<1>2. Written' = Written /\ \A op : Spent(op)' = Spent(op)
    BY <1>1 DEF Written, Spent
<1>3. Written' \subseteq routes' /\ LostAreSpent' /\ ShiftsGiveTraffic'
    BY <1>1, <1>2 DEF PortFits, LostAreSpent, ShiftsGiveTraffic
<1>4. RestoredBeforeReturn'
    BY <1>1, FreshTyped DEF RestoredBeforeReturn
<1>5. CASE flow'.round = flow.round
    <2>1. Mine' = Mine /\ Shown' = Shown /\ Undecided' = Undecided
        BY <1>1, <1>5 DEF Mine, Shown, Undecided
    <2>2. CurrentIsAskedFor'
        BY <1>1, <1>2, <1>5, <2>1 DEF PortFits, CurrentIsAskedFor, ObserverFailed, Restored
    <2> QED
        BY <1>3, <1>4, <2>2 DEF PortFits
<1>6. CASE step.at = "returned" /\ \E d \in decisions : d.round = flow.round
    <2>1. PICK d \in decisions : d.round = flow.round
        BY <1>6
    <2>2. current.op = Mine => current \in receipts
        BY <1>6 DEF IInv, StepFits, RoundFits, Shown, WorldFits, OpsAreWrittenOnce, Written
    <2>3. ObserverFailed => Spent(current.op)
        BY <2>1 DEF ObserverFailed, Spent
    <2>4. \A e \in decisions : Restored(e) => current \in receipts
        <3> SUFFICES ASSUME NEW e \in decisions, Restored(e) PROVE current \in receipts
            OBVIOUS
        <3>1. PICK r \in receipts : r.op = current.op
            BY <1>6 DEF PortFits, RestoredBeforeReturn, Restored
        <3> QED
            BY <3>1 DEF IInv, WorldFits, OpsAreWrittenOnce, Written
    <2>5. current \in receipts \/ Spent(current.op)
        BY <2>2, <2>3, <2>4 DEF PortFits, CurrentIsAskedFor
    <2>6. CurrentIsAskedFor'
        BY <1>1, <1>2, <2>5 DEF CurrentIsAskedFor
    <2> QED
        BY <1>3, <1>4, <2>6 DEF PortFits
<1>7. flow'.round = flow.round \/ (step.at = "returned" /\ \E d \in decisions : d.round = flow.round)
    BY DEF Record, At, IInv, StageTypeOK
<1> QED
    BY <1>5, <1>6, <1>7

LEMMA NextPortFits == IInv /\ PortFits /\ [Next]_vars => PortFits'
<1> SUFFICES ASSUME IInv, PortFits, [Next]_vars PROVE PortFits'
    OBVIOUS
<1>1. CASE Director
    BY <1>1, LookUpKeepsPort, WriteRouteKeepsPort, WriteReceiptKeepsPort DEF Director
<1>2. CASE Workflow
    BY <1>2, WorkflowKeepsPort, DecideKeepsPort, RecordKeepsPort DEF Workflow
<1>3. CASE Crash
    <2>1. UNCHANGED <<current, receipts, routes, decisions, flow>> /\ step'.at = "begun"
        BY <1>3, FreshTyped DEF Crash, files
    <2> QED
        BY <2>1, PortStays DEF RestoredBeforeReturn
<1>4. CASE UNCHANGED <<files, decisions, flow, step>>
    <2>1. UNCHANGED <<current, receipts, routes, decisions, flow, step>>
        BY <1>4 DEF files
    <2> QED
        BY <2>1, PortStays DEF PortFits, RestoredBeforeReturn
<1>5. ASSUME NEW c \in Connections, Arrive(c) \/ Answer(c)
      PROVE  UNCHANGED <<files, decisions, flow, step>>
    BY <1>5 DEF Arrive, Answer
<1>6. UNCHANGED vars => UNCHANGED <<files, decisions, flow, step>>
    BY DEF vars, files
<1> QED
    BY <1>1, <1>2, <1>3, <1>4, <1>5, <1>6 DEF Next

LEMMA PortFitsAlways == Spec => []PortFits
    BY InitPortFits, Inductive, NextPortFits, PTL DEF Spec

\* A route has the weight it was asked for at: a receipt answers for that, too.
LEMMA WeightFits ==
    ASSUME IInv, RouteFits, PortFits, step.at \in Waiting,
           NEW r \in Written, r.op = step.shift.op
    PROVE  r.weight = step.shift.weight
<1>1. ForStage \/ ForFailure \/ \E d \in decisions : ForDecision(d)
    BY DEF Waiting, IInv, StepFits, ShiftFits
<1>2. CASE ForStage
    BY <1>2 DEF ForStage, RouteFits, ShownAtItsWeight
<1>3. ASSUME NEW name, name # "traffic", r.op = <<flow.round, name>> PROVE r.weight = 0
    BY <1>3 DEF PortFits, ShiftsGiveTraffic
<1>4. CASE ForFailure
    BY <1>3, <1>4 DEF ForFailure
<1>5. ASSUME NEW d \in decisions, ForDecision(d) PROVE r.weight = step.shift.weight
    BY <1>3, <1>5 DEF ForDecision, Restoring
<1> QED
    BY <1>1, <1>2, <1>4, <1>5

\* Nothing is asked for twice: neither a route that is known nor one that lost its receipt.
LEMMA NothingTwice ==
    ASSUME IInv, PortFits, step.at = "effected", NEW r \in routes
    PROVE  r.op # step.shift.op
<1>1. ForStage \/ ForFailure \/ \E d \in decisions : ForDecision(d)
    BY DEF IInv, StepFits, ShiftFits
<1>2. CASE r \in Written
    BY <1>2 DEF IInv, StepFits, DirectorFits
<1>3. CASE Spent(r.op)
    <2>1. PICK e \in decisions : r.op = <<e.round, "observer-failed">>
        BY <1>3 DEF Spent
    <2>2. ForStage => r.op # step.shift.op
        BY <2>1 DEF ForStage, Mine
    <2>3. ForFailure => r.op # step.shift.op
        BY <2>1 DEF ForFailure, Undecided
    <2>4. \A d \in decisions : ForDecision(d) => r.op # step.shift.op
        BY <2>1 DEF ForDecision, Restoring
    <2> QED
        BY <1>1, <2>2, <2>3, <2>4
<1> QED
    BY <1>2, <1>3 DEF PortFits, LostAreSpent

LEMMA InitRefines == Init => Port!Init
    BY FreshTyped DEF Init, Port!Init, Asked, Waiting, Fresh, Earlier

\* A call asks for a shift.
LEMMA AskRefines ==
    ASSUME IInv, NEW name, NEW weight, NEW then, Shift(name, weight, then),
           <<flow.round, name>> \in Ops, weight \in 0 .. 100, then \in Afterwards,
           step.at \notin Waiting, UNCHANGED files
    PROVE  Port!Next
<1> DEFINE shift == [op |-> <<flow.round, name>>, weight |-> weight]
<1>1. step'.at = "shifting" /\ step'.shift = shift /\ step'.gen = step.gen
    BY DEF Shift, IInv, StageTypeOK
<1>2. Asked = {} /\ Asked' = {shift}
    BY <1>1 DEF Asked, Waiting
<1>3. shift \in [op : Ops, weight : 0 .. 100]
    OBVIOUS
<1> HIDE DEF shift
<1>4. Port!Ask
    BY <1>1, <1>2, <1>3 DEF Port!Ask, files
<1> QED
    BY <1>4 DEF Port!Next

LEMMA FollowRefines ==
    ASSUME IInv, NEW kind, Follow(kind), step.at \notin Waiting, UNCHANGED files
    PROVE  Port!Next \/ UNCHANGED Port!promise
<1>1. CASE kind \in Restoring
    <2>1. Shift(kind, 0, "returned")
        BY <1>1 DEF Follow
    <2>2. <<flow.round, kind>> \in Ops
        BY <1>1, RoundTyped DEF IInv
    <2> QED
        BY <2>1, <2>2, AskRefines DEF Afterwards
<1>2. CASE kind \notin Restoring
    BY <1>2 DEF Follow, Goto, IInv, StageTypeOK, Port!promise, Asked, Waiting, files
<1> QED
    BY <1>1, <1>2

LEMMA WorkflowRefines ==
    ASSUME IInv, Workflow
    PROVE  Port!Next \/ UNCHANGED Port!promise
<1>1. UNCHANGED files
    BY DEF Workflow, BeginStage, Judge, GiveUp, ObserverFails, RecordDecision, FinishStage, Record
<1>2. CASE BeginStage
    <2>1. step.at \notin Waiting
        BY <1>2 DEF BeginStage, At, Waiting
    <2>2. Weights[CurrentStage] \in 0 .. 100
        BY StageIsOne DEF IInv, WorldFits
    <2>3. <<flow.round, "traffic">> \in Ops
        BY RoundTyped DEF IInv, Mine
    <2> QED
        BY <1>1, <1>2, <2>1, <2>2, <2>3, FollowRefines, AskRefines DEF BeginStage, Afterwards
<1>3. CASE FinishStage
    BY <1>1, <1>3, FollowRefines DEF FinishStage, At, Waiting
<1>4. CASE ObserverFails
    BY <1>1, <1>4, AskRefines, RoundTyped DEF ObserverFails, At, Waiting, IInv, Afterwards
<1>5. CASE Judge \/ GiveUp \/ RecordDecision
    <2>1. step.at \in {"observing", "judged"} /\ step'.at \in {"judged", "decided"}
          /\ step'.gen = step.gen
        BY <1>5 DEF Judge, GiveUp, RecordDecision, At, Conclude, Goto, IInv, StageTypeOK
    <2> QED
        BY <1>1, <2>1 DEF Port!promise, Asked, Waiting, files
<1>6. CASE Record
    BY <1>1, <1>6, FreshTyped
       DEF Record, Fresh, Earlier, Port!Next, Port!Forget, Asked, Waiting, files
<1> QED
    BY <1>2, <1>3, <1>4, <1>5, <1>6 DEF Workflow

LEMMA AnswerRefines ==
    ASSUME IInv, RouteFits, PortFits, step.at \in Waiting, UNCHANGED <<current, routes>>,
           NEW r \in Written, r.op = step.shift.op, Returned(r.gen)
    PROVE  Port!Next
<1>1. r.weight = step.shift.weight /\ r \in routes
    BY WeightFits DEF PortFits
<1>2. step'.gen = r.gen /\ step'.at \notin Waiting
    BY DEF Returned, IInv, StageTypeOK, Afterwards, Waiting
<1>3. Asked = {step.shift} /\ Asked' = {}
    BY <1>2 DEF Asked
<1>4. Port!Answer
    BY <1>1, <1>2, <1>3 DEF Port!Answer
<1> QED
    BY <1>4 DEF Port!Next

LEMMA DirectorRefines ==
    ASSUME IInv, RouteFits, PortFits, Director
    PROVE  Port!Next \/ UNCHANGED Port!promise
<1>1. CASE LookUp
    <2>1. UNCHANGED <<current, routes>> /\ step.at \in Waiting
        BY <1>1 DEF LookUp, At, Waiting
    <2>2. CASE \E r \in receipts : r.op = step.shift.op /\ Returned(r.gen)
        BY <2>1, <2>2, AnswerRefines DEF Written
    <2>3. CASE Goto("routed") \/ Goto("effected")
        <3>1. step'.at \in Waiting /\ step'.shift = step.shift /\ step'.gen = step.gen
            BY <2>3 DEF Goto, IInv, StageTypeOK, Waiting
        <3> QED
            BY <2>1, <3>1 DEF Port!promise, Asked
    <2> QED
        BY <1>1, <2>2, <2>3 DEF LookUp
<1>2. CASE WriteRoute
    <2>1. /\ step.at = "effected" /\ current' = Intended /\ routes' = routes \cup {Intended}
          /\ Goto("routed")
        BY <1>2 DEF WriteRoute, At
    <2>2. Asked = {step.shift} /\ Asked' = Asked /\ step'.gen = step.gen
        BY <2>1 DEF Goto, IInv, StageTypeOK, Asked, Waiting
    <2>3. \A r \in routes : r.op # step.shift.op
        BY <2>1, NothingTwice
    <2>4. Port!Apply
        BY <2>1, <2>2, <2>3 DEF Port!Apply, Intended
    <2> QED
        BY <2>4 DEF Port!Next
<1>3. CASE WriteReceipt
    <2>1. /\ UNCHANGED <<current, routes>> /\ step.at = "routed" /\ Returned(current.gen)
        BY <1>3 DEF WriteReceipt, At
    <2>2. current.op = step.shift.op /\ current \in Written
        BY <2>1 DEF IInv, StepFits, DirectorFits, Written
    <2> QED
        BY <2>1, <2>2, AnswerRefines DEF Waiting
<1> QED
    BY <1>1, <1>2, <1>3 DEF Director

LEMMA NextRefines ==
    IInv /\ RouteFits /\ PortFits /\ [Next]_vars => [Port!Next]_(Port!promise)
<1> SUFFICES ASSUME IInv, RouteFits, PortFits, [Next]_vars
             PROVE  Port!Next \/ UNCHANGED Port!promise
    OBVIOUS
<1>1. CASE Crash
    BY <1>1, FreshTyped DEF Crash, Fresh, Earlier, Port!Next, Port!Forget, Asked, Waiting, files
<1>2. CASE UNCHANGED <<files, step>>
    BY <1>2 DEF files, Port!promise, Asked
<1>3. ASSUME NEW c \in Connections, Arrive(c) \/ Answer(c) PROVE UNCHANGED <<files, step>>
    BY <1>3 DEF Arrive, Answer
<1>4. UNCHANGED vars => UNCHANGED <<files, step>>
    BY DEF vars, files
<1> QED
    BY <1>1, <1>2, <1>3, <1>4, DirectorRefines, WorkflowRefines DEF Next

\* Files that are written one after the other, and lost in between by restarts, are to the
\* workflow a director that shifts a route in one step, once, and answers with it.
THEOREM DirectorKept == Spec => ImplementsDirector
    BY InitRefines, NextRefines, Inductive, RouteFitsAlways, PortFitsAlways, PTL
       DEF Spec, ImplementsDirector, Port!Spec
=============================================================================
