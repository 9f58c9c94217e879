---------------------- MODULE FeedbackAutonomy_proofs ----------------------
(***************************************************************************)
(* TriggersTellTheTruth, OnlyTheServingIsImproved and                      *)
(* OnlyThePromotedIsReleased for any number of items, overlapping ticks,   *)
(* attempts, mishaps, and any verdicts.                                    *)
(*                                                                         *)
(* What a tick has read may be stale when it acts, so the invariant says   *)
(* of its copies only what no other run takes back: a cycle that has its   *)
(* proposal, or is blocked, or was promoted, stays so, and feedback is     *)
(* about one release for good.  What is served is protected by the cycle   *)
(* itself, the one active cycle of the target: as long as no second        *)
(* execution was told of a promotion, only the run that promoted the cycle *)
(* changes branch and catalog, and leaves the cycle with the two in        *)
(* agreement.  Once one was, two runs change them; what is left is that    *)
(* both are of a cycle that was promoted.                                  *)
(***************************************************************************)
EXTENDS FeedbackAutonomy, FiniteSetTheorems, TLAPS

\* No second execution of a cycle has been told of its promotion.
Alone == echoed = {}

\* The target has one active cycle at most, of an item or of an operator.
OneActiveCycle ==
    /\ \A f, g \in Items : cycle[f] \in Active /\ cycle[g] \in Active => f = g
    /\ rival = "active" => ActiveItems = {}

\* The stages between a promotion and the end of its cycle.
Promoted == {"PROMOTED", "SOAKING"}

\* Branch and catalog differ only while a promotion, or its way back, is between the two.
BranchIsServed == Alone /\ (\A f \in Items : cycle[f] \notin Promoted) => head = serving

\* A cycle is blocked for want of confidence only.
BlockedForConfidence == \A f \in Items : cycle[f] = "BLOCKED" => diagnosis[f] = "low"

\* The release may be in the catalog, or on the branch: it is the bootstrapped one, or its
\* cycle was promoted.
MayServe(r) == \A f \in Items : r = f => cycle[f] \in Released

\* The places of the prepare step that have an item.
Taken == {"selected", "closing", "closed", "creating", "moving", "diagnosing", "diagnosed",
          "prepared", "insufficient"}

\* The run has an item to execute.
Executing(n) ==
    \/ flows[n].pc \in {"execute", "soak"}
    \/ flows[n].pc = "prepare" /\ flows[n].at = "returned" /\ flows[n].next = "execute"

\* The run was told that its cycle is promoted, and has not come to its end yet.
Promoting(n) ==
    \/ /\ flows[n].pc = "execute"
       /\ flows[n].at \in {"promoted", "sourced", "registered", "undoing", "restoring",
                           "unserved", "restored"}
    \/ flows[n].pc = "soak"

\* An item is taken for the release that was read, which it is about.
ItemFits(n) ==
    /\ flows[n].pc = "prepare" /\ flows[n].at \in {"served"} \cup Taken =>
         MayServe(flows[n].release)
    /\ flows[n].pc = "prepare" /\ flows[n].at \in Taken =>
         flows[n].item \in Items /\ about[flows[n].item] = flows[n].release
    /\ Executing(n) =>
         /\ flows[n].item \in Items
         /\ about[flows[n].item] # Nowhere /\ MayServe(about[flows[n].item])
    /\ Promoting(n) => cycle[flows[n].item] \in Released

\* A copy of the cycle that is beyond the preparation, or blocked, is so for good.
StageFits(n) ==
    flows[n].pc = "prepare" =>
        /\ flows[n].at \in {"diagnosing", "diagnosed"} => flows[n].stage = "EVIDENCE_READY"
        /\ flows[n].at = "moving" =>
             /\ flows[n].stage \in Proposed => cycle[flows[n].item] \in Proposed
             /\ flows[n].stage = "BLOCKED" => cycle[flows[n].item] = "BLOCKED"
        /\ flows[n].at = "prepared" => cycle[flows[n].item] \in Proposed
        /\ flows[n].at = "insufficient" => cycle[flows[n].item] = "BLOCKED"

\* How far cycle, branch and catalog are at each place of a promotion and of its way back.
PromotionFits(n) ==
    Alone /\ Promoting(n) =>
        /\ cycle[flows[n].item] =
             IF flows[n].pc = "soak" /\ flows[n].at # "begun" THEN "SOAKING" ELSE "PROMOTED"
        /\ flows[n].at = "promoted" => head = serving
        /\ flows[n].at \in {"sourced", "registered"} => head = flows[n].item
        /\ flows[n].at \in {"promoted", "unserved"} => serving = about[flows[n].item]
        /\ flows[n].at \in {"begun", "restored"} => head = serving
        /\ flows[n].pc = "soak" /\ flows[n].at = "restoring" => head = serving

OneRunPromotes == Alone => \A n, m \in Runs : Promoting(n) /\ Promoting(m) => n = m

RunsFit == \A n \in Runs : ItemFits(n) /\ StageFits(n) /\ PromotionFits(n)

IInv ==
    /\ TypeOK
    /\ OneActiveCycle
    /\ BranchIsServed
    /\ BlockedForConfidence
    /\ TriggersTellTheTruth
    /\ OnlyTheServingIsImproved
    /\ OnlyThePromotedIsReleased
    /\ OneRunPromotes
    /\ RunsFit

----------------------------------------------------------------------------
\* Types.

LEMMA FlowsTyped ==
    ASSUME TypeOK, NEW n \in Runs
    PROVE  flows[n] \in Flow
    BY DEF TypeOK

\* What is put into a run's flow is all that changes there.
Becomes(n, w) == flows' = [flows EXCEPT ![n] = w]

LEMMA OneFlowMoves ==
    ASSUME TypeOK, NEW n \in Runs, NEW w, Becomes(n, w)
    PROVE  /\ flows'[n] = w
           /\ \A m \in Runs : m # n => flows'[m] = flows[m]
           /\ w \in Flow => flows' \in [Runs -> Flow]
    BY DEF TypeOK, Becomes

LEMMA NoFlowTyped ==
    /\ NoFlow \in Flow
    /\ NoFlow.pc = "idle" /\ NoFlow.at = "begun" /\ NoFlow.next = "idle"
    /\ NoFlow.item = NoItem /\ NoFlow.stage = "absent"
<1>1. /\ 1 \in 1 .. PrepareAttempts /\ 0 \in 0 .. MaxItems /\ NoItem \in Items \cup {NoItem, Rival}
      /\ 0 \in Releases /\ "absent" \in Stages
    BY FeedbackAutonomyAssumption DEF Releases, Stages
<1> QED
    BY <1>1 DEF NoFlow, Flow, Places

\* How the flow of a run is after each of the ways an action has to change it.
LEMMA GotoTyped ==
    ASSUME TypeOK, NEW n \in Runs, NEW place \in Places, Goto(n, place)
    PROVE  /\ flows' \in [Runs -> Flow]
           /\ \A m \in Runs : m # n => flows'[m] = flows[m]
           /\ flows'[n].pc = flows[n].pc /\ flows'[n].at = place
           /\ flows'[n].next = flows[n].next /\ flows'[n].item = flows[n].item
           /\ flows'[n].release = flows[n].release /\ flows'[n].stage = flows[n].stage
<1> DEFINE w == [flows[n] EXCEPT !.at = place]
<1>1. flows[n] \in Flow
    BY FlowsTyped
<1>2. /\ w \in Flow /\ w.at = place /\ w.pc = flows[n].pc /\ w.next = flows[n].next
      /\ w.item = flows[n].item /\ w.release = flows[n].release /\ w.stage = flows[n].stage
    BY <1>1 DEF Flow
<1>3. Becomes(n, w)
    BY DEF Becomes, Goto
<1> HIDE DEF w
<1> QED
    BY <1>2, <1>3, OneFlowMoves

LEMMA GotoWithTyped ==
    ASSUME TypeOK, NEW n \in Runs, NEW place \in Places, NEW stage \in Stages,
           GotoWith(n, place, stage)
    PROVE  /\ flows' \in [Runs -> Flow]
           /\ \A m \in Runs : m # n => flows'[m] = flows[m]
           /\ flows'[n].pc = flows[n].pc /\ flows'[n].at = place
           /\ flows'[n].next = flows[n].next /\ flows'[n].item = flows[n].item
           /\ flows'[n].release = flows[n].release /\ flows'[n].stage = stage
<1> DEFINE w == [flows[n] EXCEPT !.at = place, !.stage = stage]
<1>1. flows[n] \in Flow
    BY FlowsTyped
<1>2. /\ w \in Flow /\ w.at = place /\ w.pc = flows[n].pc /\ w.next = flows[n].next
      /\ w.item = flows[n].item /\ w.release = flows[n].release /\ w.stage = stage
    BY <1>1 DEF Flow
<1>3. Becomes(n, w)
    BY DEF Becomes, GotoWith
<1> HIDE DEF w
<1> QED
    BY <1>2, <1>3, OneFlowMoves

LEMMA BegunTyped ==
    ASSUME TypeOK, NEW n \in Runs, NEW tries \in 1 .. PrepareAttempts
    PROVE  /\ Begun(n, tries) \in Flow
           /\ Begun(n, tries).pc = "prepare" /\ Begun(n, tries).at = "begun"
<1>1. flows[n] \in Flow
    BY FlowsTyped
<1> QED
    BY <1>1, NoFlowTyped DEF Flow, Begun, NoFlow

\* A run that has left the place it was at, in the prepare step, with nothing to go by.
Left(n) ==
    /\ flows[n].pc = "prepare"
    /\ flows[n].at \in {"begun", "returned"}
    /\ flows[n].at = "returned" => flows[n].next = "idle"

LEMMA RaiseTyped ==
    ASSUME TypeOK, NEW n \in Runs, Raise(n)
    PROVE  /\ flows' \in [Runs -> Flow]
           /\ \A m \in Runs : m # n => flows'[m] = flows[m]
           /\ Left(n)'
<1>1. flows[n] \in Flow
    BY FlowsTyped
<1>2. CASE flows[n].tries < PrepareAttempts
    <2> DEFINE w == Begun(n, flows[n].tries + 1)
    <2>1. flows[n].tries + 1 \in 1 .. PrepareAttempts
        BY <1>1, <1>2, FeedbackAutonomyAssumption DEF Flow
    <2>2. w \in Flow /\ w.pc = "prepare" /\ w.at = "begun"
        BY <2>1, BegunTyped
    <2>3. Becomes(n, w)
        BY <1>2 DEF Raise, Becomes
    <2> HIDE DEF w
    <2> QED
        BY <2>2, <2>3, OneFlowMoves DEF Left
<1>3. CASE ~(flows[n].tries < PrepareAttempts)
    <2> DEFINE w == [NoFlow EXCEPT !.pc = "prepare", !.at = "returned"]
    <2>1. w \in Flow /\ w.pc = "prepare" /\ w.at = "returned" /\ w.next = "idle"
        BY NoFlowTyped DEF Flow, Places
    <2>2. Becomes(n, w)
        BY <1>3 DEF Raise, Becomes
    <2> HIDE DEF w
    <2> QED
        BY <2>1, <2>2, OneFlowMoves DEF Left
<1> QED
    BY <1>2, <1>3

LEMMA ReturnTyped ==
    ASSUME TypeOK, NEW n \in Runs, NEW next \in {"idle", "execute"}, Return(n, next)
    PROVE  /\ flows' \in [Runs -> Flow]
           /\ \A m \in Runs : m # n => flows'[m] = flows[m]
           /\ flows'[n].pc = "prepare" /\ flows'[n].at = "returned" /\ flows'[n].next = next
           /\ next = "execute" => flows'[n].item = flows[n].item
<1> DEFINE w == [NoFlow EXCEPT !.pc = "prepare", !.at = "returned", !.next = next,
                               !.upto = flows[n].upto,
                               !.item = IF next = "idle" THEN NoItem ELSE flows[n].item]
<1>1. flows[n] \in Flow
    BY FlowsTyped
<1>2. /\ (IF next = "idle" THEN NoItem ELSE flows[n].item) \in Items \cup {NoItem}
      /\ flows[n].upto \in 0 .. MaxItems /\ "returned" \in Places
    BY <1>1 DEF Flow, Places
<1>3. w \in Flow
    BY <1>2, NoFlowTyped DEF Flow
<1>4. /\ w.pc = "prepare" /\ w.at = "returned" /\ w.next = next
      /\ next = "execute" => w.item = flows[n].item
    BY NoFlowTyped DEF Flow
<1>5. Becomes(n, w)
    BY DEF Return, Becomes
<1> HIDE DEF w
<1> QED
    BY <1>3, <1>4, <1>5, OneFlowMoves

LEMMA EndTyped ==
    ASSUME TypeOK, NEW n \in Runs, End(n)
    PROVE  /\ flows' \in [Runs -> Flow]
           /\ \A m \in Runs : m # n => flows'[m] = flows[m]
           /\ flows'[n].pc = "idle"
<1>1. Becomes(n, NoFlow)
    BY DEF End, Becomes
<1> QED
    BY <1>1, OneFlowMoves, NoFlowTyped

----------------------------------------------------------------------------
\* A step of one run keeps the invariant if the run fits afterwards and the rest of it holds.

\* Feedback is not attributed anew, and what an execution was told of is not forgotten.
AboutStays ==
    /\ \A f \in Items : about[f] # Nowhere => about'[f] = about[f]
    /\ Alone' => Alone

\* What is beyond the preparation, or promoted, or blocked, stays so.
CyclesGoOn ==
    \A f \in Items :
        /\ cycle[f] \in Proposed => cycle'[f] \in Proposed
        /\ cycle[f] \in Released => cycle'[f] \in Released
        /\ cycle[f] = "BLOCKED" => cycle'[f] = "BLOCKED"

\* A promotion under way sees nothing of the step, if there is but one.
Undisturbed(m) ==
    Alone' /\ Promoting(m) => /\ cycle'[flows[m].item] = cycle[flows[m].item]
                              /\ serving' = serving /\ head' = head

LEMMA ServedIsSomewhere ==
    ASSUME TypeOK
    PROVE  /\ serving # Nowhere
           /\ \A n \in Runs : flows[n].release # Nowhere
<1>1. \A r \in Releases : r # Nowhere
    BY FeedbackAutonomyAssumption DEF Releases, Nowhere
<1>2. \A n \in Runs : flows[n].release \in Releases
    BY FlowsTyped DEF Flow
<1> QED
    BY <1>1, <1>2 DEF TypeOK

LEMMA OthersFit ==
    ASSUME IInv, NEW m \in Runs, flows'[m] = flows[m], AboutStays, CyclesGoOn, Undisturbed(m)
    PROVE  ItemFits(m)' /\ StageFits(m)' /\ PromotionFits(m)'
<1>1. ItemFits(m) /\ StageFits(m) /\ PromotionFits(m)
    BY DEF IInv, RunsFit
<1>2. (Promoting(m)' <=> Promoting(m)) /\ (Executing(m)' <=> Executing(m))
    BY DEF Promoting, Executing
<1>3. \A r \in Releases \cup {Nowhere} :
        (\A f \in Items : r = f => cycle[f] \in Released)
          => (\A f \in Items : r = f => cycle'[f] \in Released)
    BY DEF CyclesGoOn
<1>4. Promoting(m) => Executing(m)
    BY DEF Promoting, Executing
<1>5. ItemFits(m)'
    <2>1. flows[m].release \in Releases
        BY FlowsTyped DEF IInv, Flow
    <2>2. /\ flows'[m].pc = "prepare" /\ flows'[m].at \in {"served"} \cup Taken
               => MayServe(flows[m].release)'
          /\ flows'[m].pc = "prepare" /\ flows'[m].at \in Taken
               => flows'[m].item \in Items /\ about'[flows'[m].item] = flows'[m].release
        BY <1>1, <1>3, <2>1, ServedIsSomewhere DEF ItemFits, MayServe, AboutStays, IInv
    <2>3. ASSUME Executing(m)
          PROVE  /\ flows[m].item \in Items
                 /\ about'[flows[m].item] # Nowhere /\ MayServe(about[flows[m].item])'
        <3>1. /\ flows[m].item \in Items /\ about[flows[m].item] \in Releases \cup {Nowhere}
              /\ about[flows[m].item] # Nowhere /\ MayServe(about[flows[m].item])
            BY <1>1, <2>3 DEF ItemFits, IInv, TypeOK
        <3>2. about'[flows[m].item] = about[flows[m].item]
            BY <3>1 DEF AboutStays
        <3> QED
            BY <1>3, <3>1, <3>2 DEF MayServe
    <2>4. Promoting(m) => cycle'[flows[m].item] \in Released
        BY <1>1, <1>4, <2>3 DEF ItemFits, CyclesGoOn
    <2> QED
        BY <1>2, <2>2, <2>3, <2>4 DEF ItemFits
<1>6. StageFits(m)'
    <2>1. flows[m].pc = "prepare" /\ flows[m].at \in Taken => flows[m].item \in Items
        BY <1>1 DEF ItemFits
    <2>2. "moving" \in Taken /\ "prepared" \in Taken /\ "insufficient" \in Taken
        BY DEF Taken
    <2> QED
        BY <1>1, <2>1, <2>2 DEF StageFits, CyclesGoOn
<1>7. PromotionFits(m)'
    <2>1. SUFFICES ASSUME Alone', Promoting(m) PROVE PromotionFits(m)'
        BY <1>2 DEF PromotionFits
    <2>2. /\ Alone /\ serving' = serving /\ head' = head
          /\ cycle'[flows[m].item] = cycle[flows[m].item]
        BY <2>1 DEF Undisturbed, AboutStays
    <2>3. about'[flows[m].item] = about[flows[m].item]
        BY <1>1, <1>4, <2>1 DEF ItemFits, AboutStays
    <2> QED
        BY <1>1, <2>1, <2>2, <2>3 DEF PromotionFits
<1> QED
    BY <1>5, <1>6, <1>7

\* The parts of the invariant that are not about runs.
World ==
    /\ OneActiveCycle /\ BranchIsServed /\ BlockedForConfidence
    /\ TriggersTellTheTruth /\ OnlyTheServingIsImproved /\ OnlyThePromotedIsReleased

LEMMA StepOfRun ==
    ASSUME IInv, TypeOK', World', NEW n \in Runs,
           \A m \in Runs : m # n => flows'[m] = flows[m] /\ Undisturbed(m),
           AboutStays, CyclesGoOn,
           Alone' /\ Promoting(n)' => Promoting(n) \/ \A m \in Runs : ~Promoting(m),
           ItemFits(n)', StageFits(n)', PromotionFits(n)'
    PROVE  IInv'
<1>1. RunsFit'
    BY OthersFit DEF RunsFit
<1>2. \A m \in Runs : m # n => (Promoting(m)' <=> Promoting(m))
    BY DEF Promoting
<1>3. OneRunPromotes'
    BY <1>2 DEF OneRunPromotes, IInv, AboutStays
<1> QED
    BY <1>1, <1>3 DEF IInv, World

\* The tables and the outside as the properties know them; what is added to diagnoses is new.
Still ==
    /\ UNCHANGED <<about, cycle, trigger, rival, serving, head, echoed>>
    /\ \A f \in Items : diagnosis[f] # "none" => diagnosis'[f] = diagnosis[f]

LEMMA StillKeepsWorld ==
    ASSUME IInv, Still
    PROVE  World' /\ AboutStays /\ CyclesGoOn /\ \A m \in Runs : Undisturbed(m)
<1>1. OneActiveCycle' /\ BranchIsServed' /\ OnlyTheServingIsImproved'
      /\ OnlyThePromotedIsReleased'
    BY DEF Still, IInv, OneActiveCycle, ActiveItems, BranchIsServed, OnlyTheServingIsImproved,
           OnlyThePromotedIsReleased, Alone
<1>2. BlockedForConfidence' /\ TriggersTellTheTruth'
    BY DEF Still, IInv, BlockedForConfidence, TriggersTellTheTruth
<1>3. AboutStays /\ CyclesGoOn /\ \A m \in Runs : Undisturbed(m)
    BY DEF Still, AboutStays, CyclesGoOn, Undisturbed, Alone
<1> QED
    BY <1>1, <1>2, <1>3 DEF World

\* A step of run n that leaves all that still.
Quiet(n) ==
    /\ Still
    /\ windows' \subseteq Items /\ released' \subseteq Items
    /\ diagnosis' \in [Items -> Verdicts \cup {"none"}]
    /\ mishaps' \in 0 .. MaxMishaps
    /\ flows' \in [Runs -> Flow]
    /\ \A m \in Runs : m # n => flows'[m] = flows[m]

LEMMA QuietStep ==
    ASSUME IInv, NEW n \in Runs, Quiet(n), Promoting(n)' => Promoting(n),
           ItemFits(n)', StageFits(n)', PromotionFits(n)'
    PROVE  IInv'
<1>1. TypeOK'
    BY DEF Quiet, Still, IInv, TypeOK
<1> QED
    BY <1>1, StillKeepsWorld, StepOfRun DEF Quiet

\* Most steps of the prepare step only go on.
LEMMA QuietlyLeft ==
    ASSUME IInv, NEW n \in Runs, Quiet(n), Left(n)'
    PROVE  IInv'
<1>1. ~Promoting(n)'
    BY DEF Left, Promoting
<1>2. ItemFits(n)' /\ StageFits(n)' /\ PromotionFits(n)'
    BY <1>1 DEF Left, ItemFits, StageFits, PromotionFits, Taken, Executing
<1> QED
    BY <1>1, <1>2, QuietStep

LEMMA QuietlyIdle ==
    ASSUME IInv, NEW n \in Runs, Quiet(n), flows'[n].pc = "idle"
    PROVE  IInv'
<1>1. ~Promoting(n)'
    BY DEF Promoting
<1>2. ItemFits(n)' /\ StageFits(n)' /\ PromotionFits(n)'
    BY <1>1 DEF ItemFits, StageFits, PromotionFits, Executing
<1> QED
    BY <1>1, <1>2, QuietStep

----------------------------------------------------------------------------
\* The steps of a run that leave cycles, triggers and the outside as they are.

\* A run that stays in the prepare step promotes nothing.
LEMMA PrepareGoesOn ==
    ASSUME IInv, NEW n \in Runs, Quiet(n), flows'[n].pc = "prepare",
           ItemFits(n)', StageFits(n)'
    PROVE  IInv'
<1>1. ~Promoting(n)' /\ PromotionFits(n)'
    BY DEF Promoting, PromotionFits
<1> QED
    BY <1>1, QuietStep

\* UNCHANGED of everything but flows, windows and diagnoses is what Quiet asks for.
LEMMA Quietly ==
    ASSUME IInv, NEW n \in Runs, UNCHANGED <<about, cycle, trigger, world>>,
           windows' \subseteq Items, mishaps' \in 0 .. MaxMishaps,
           diagnosis' \in [Items -> Verdicts \cup {"none"}],
           \A f \in Items : diagnosis[f] # "none" => diagnosis'[f] = diagnosis[f],
           flows' \in [Runs -> Flow], \A m \in Runs : m # n => flows'[m] = flows[m]
    PROVE  Quiet(n)
<1>1. released \subseteq Items
    BY DEF IInv, TypeOK
<1> QED
    BY <1>1 DEF Quiet, Still, world

LEMMA QuietlyFlows ==
    ASSUME IInv, NEW n \in Runs, UNCHANGED <<tables, world, mishaps>>,
           flows' \in [Runs -> Flow], \A m \in Runs : m # n => flows'[m] = flows[m]
    PROVE  Quiet(n)
<1>1. windows \subseteq Items /\ released \subseteq Items /\ mishaps \in 0 .. MaxMishaps
      /\ diagnosis \in [Items -> Verdicts \cup {"none"}]
    BY DEF IInv, TypeOK
<1> QED
    BY <1>1 DEF Quiet, Still, tables, world

LEMMA TickKeeps ==
    ASSUME IInv, NEW n \in Runs, Tick(n)
    PROVE  IInv'
<1> DEFINE submitted == {f \in Items : about[f] # Nowhere}
           w == [NoFlow EXCEPT !.pc = "prepare", !.upto = Cardinality(submitted)]
<1>1. Cardinality(submitted) \in 0 .. MaxItems
    <2>1. IsFiniteSet(Items) /\ Cardinality(Items) = MaxItems
        BY FeedbackAutonomyAssumption, FS_Interval DEF Items
    <2>2. submitted \subseteq Items
        OBVIOUS
    <2>3. IsFiniteSet(submitted) /\ Cardinality(submitted) <= Cardinality(Items)
        BY <2>1, <2>2, FS_Subset
    <2>4. Cardinality(submitted) \in Nat
        BY <2>3, FS_CardinalityType
    <2> QED
        BY <2>1, <2>3, <2>4, FeedbackAutonomyAssumption
<1> HIDE DEF submitted
<1>2. w \in Flow /\ w.pc = "prepare" /\ w.at = "begun"
    BY <1>1, NoFlowTyped DEF Flow
<1>3. Becomes(n, w)
    BY DEF Tick, Becomes, submitted
<1> HIDE DEF w
<1>4. Quiet(n)
    BY <1>2, <1>3, OneFlowMoves, QuietlyFlows DEF Tick, IInv
<1>5. Left(n)'
    BY <1>2, <1>3, OneFlowMoves DEF Left, IInv
<1> QED
    BY <1>4, <1>5, QuietlyLeft

LEMMA ReadActiveKeeps ==
    ASSUME IInv, NEW n \in Runs, ReadActive(n)
    PROVE  IInv'
<1>1. PICK busy \in Items \cup {NoItem, Rival} :
        flows' = [flows EXCEPT ![n].at = "looked", ![n].busy = busy]
    BY DEF ReadActive, ActiveItems
<1> DEFINE w == [flows[n] EXCEPT !.at = "looked", !.busy = busy]
<1>2. w \in Flow /\ w.pc = "prepare" /\ w.at = "looked"
    BY FlowsTyped DEF IInv, ReadActive, At, Flow, Places
<1>3. Becomes(n, w)
    BY <1>1 DEF Becomes
<1> HIDE DEF w
<1>4. Quiet(n)
    BY <1>2, <1>3, OneFlowMoves, QuietlyFlows DEF ReadActive, IInv
<1>5. ItemFits(n)' /\ StageFits(n)' /\ flows'[n].pc = "prepare"
    BY <1>2, <1>3, OneFlowMoves DEF IInv, ItemFits, StageFits, Taken, Executing, Promoting
<1> QED
    BY <1>4, <1>5, PrepareGoesOn

LEMMA ReadServingKeeps ==
    ASSUME IInv, NEW n \in Runs, ReadServing(n)
    PROVE  IInv'
<1> DEFINE w == [flows[n] EXCEPT !.at = "served", !.release = serving]
<1>1. serving \in Releases
    BY DEF IInv, TypeOK
<1>2. w \in Flow /\ w.pc = "prepare" /\ w.at = "served" /\ w.release = serving
    BY <1>1, FlowsTyped DEF IInv, ReadServing, At, Flow, Places
<1>3. Becomes(n, w)
    BY DEF Becomes, ReadServing
<1> HIDE DEF w
<1>4. Quiet(n)
    BY <1>2, <1>3, OneFlowMoves, QuietlyFlows DEF ReadServing, IInv
<1>5. MayServe(serving)' /\ flows'[n].release = serving
    BY <1>2, <1>3, OneFlowMoves
       DEF IInv, OnlyThePromotedIsReleased, MayServe, ReadServing, tables, world
<1>6. MayServe(flows[n].release)'
    BY <1>5 DEF MayServe, ReadServing, world
<1>7. ItemFits(n)' /\ StageFits(n)' /\ flows'[n].pc = "prepare"
    BY <1>2, <1>3, <1>6, OneFlowMoves
       DEF IInv, ItemFits, StageFits, Taken, Executing, Promoting
<1> QED
    BY <1>4, <1>7, PrepareGoesOn

\* What is selected is an item, about the release that was read.
LEMMA SelectedFits ==
    ASSUME TypeOK, NEW n \in Runs, NEW f \in Selected(n)
    PROVE  f \in Items /\ about[f] = flows[n].release
<1>1. flows[n].upto \in 0 .. MaxItems
    BY FlowsTyped DEF Flow
<1>2. \A g \in 1 .. flows[n].upto : g \in Items
    BY <1>1, FeedbackAutonomyAssumption DEF Items
<1> QED
    BY <1>2 DEF Selected, Earliest, Candidates

LEMMA SelectKeeps ==
    ASSUME IInv, NEW n \in Runs, Select(n)
    PROVE  IInv'
<1>1. CASE Return(n, "idle")
    <2>1. Quiet(n) /\ Left(n)'
        BY <1>1, ReturnTyped, QuietlyFlows DEF Select, IInv, Left
    <2> QED
        BY <2>1, QuietlyLeft
<1>2. ASSUME NEW f \in Selected(n),
             flows' = [flows EXCEPT ![n].at = "selected", ![n].busy = NoItem, ![n].item = f]
      PROVE  IInv'
    <2> DEFINE w == [flows[n] EXCEPT !.at = "selected", !.busy = NoItem, !.item = f]
    <2>1. f \in Items /\ about[f] = flows[n].release
        BY SelectedFits DEF IInv
    <2>2. /\ w \in Flow /\ w.pc = "prepare" /\ w.at = "selected"
          /\ w.item = f /\ w.release = flows[n].release
        BY <2>1, FlowsTyped DEF IInv, Select, At, Flow, Places
    <2>3. Becomes(n, w)
        BY <1>2 DEF Becomes
    <2> HIDE DEF w
    <2>4. Quiet(n)
        BY <2>2, <2>3, OneFlowMoves, QuietlyFlows DEF Select, IInv
    <2>5. ItemFits(n)' /\ StageFits(n)' /\ flows'[n].pc = "prepare"
        <3>1. flows[n].pc = "prepare" /\ flows[n].at = "served" /\ UNCHANGED <<about, cycle>>
            BY DEF Select, At, tables
        <3>2. MayServe(flows[n].release)
            BY <3>1 DEF IInv, RunsFit, ItemFits
        <3>3. flows'[n] = w
            BY <2>3, OneFlowMoves DEF IInv
        <3>4. MayServe(flows[n].release)'
            BY <2>2, <3>1, <3>2, <3>3 DEF MayServe
        <3> QED
            BY <2>1, <2>2, <3>1, <3>3, <3>4
               DEF ItemFits, StageFits, Taken, Executing, Promoting
    <2> QED
        BY <2>4, <2>5, PrepareGoesOn
<1> QED
    BY <1>1, <1>2 DEF Select

\* A run that has its item goes on to another place with it.
LEMMA GoesOnWithItem ==
    ASSUME IInv, NEW n \in Runs, flows[n].pc = "prepare", flows[n].at \in Taken,
           flows'[n].pc = "prepare", flows'[n].at \in Taken,
           flows'[n].item = flows[n].item, flows'[n].release = flows[n].release,
           UNCHANGED about, CyclesGoOn
    PROVE  ItemFits(n)'
<1>1. /\ flows[n].item \in Items /\ about[flows[n].item] = flows[n].release
      /\ MayServe(flows[n].release)
    BY DEF IInv, RunsFit, ItemFits
<1>2. MayServe(flows[n].release)'
    BY <1>1 DEF MayServe, CyclesGoOn
<1>3. ~Executing(n)' /\ ~Promoting(n)'
    BY DEF Executing, Promoting, Taken
<1> QED
    BY <1>1, <1>2, <1>3 DEF ItemFits

LEMMA GoesToPlace ==
    ASSUME IInv, NEW n \in Runs, NEW place \in Places, flows[n].pc = "prepare",
           flows[n].at \in Taken, Goto(n, place), place \in Taken, UNCHANGED <<about, cycle>>
    PROVE  ItemFits(n)' /\ flows'[n].pc = "prepare"
<1>1. CyclesGoOn
    BY DEF CyclesGoOn
<1> QED
    BY <1>1, GotoTyped, GoesOnWithItem DEF IInv

LEMMA LookUpWindowKeeps ==
    ASSUME IInv, NEW n \in Runs, LookUpWindow(n)
    PROVE  IInv'
<1>1. flows[n].pc = "prepare" /\ flows[n].at \in Taken
    BY DEF LookUpWindow, At, Taken
<1>2. CASE Raise(n)
    BY <1>2, RaiseTyped, QuietlyFlows, QuietlyLeft DEF LookUpWindow, IInv
<1>3. ASSUME NEW place \in {"closed", "closing"}, Goto(n, place)
      PROVE  IInv'
    <2>1. place \in Places /\ place \in Taken
        BY DEF Places, Taken
    <2>2. ItemFits(n)' /\ flows'[n].pc = "prepare"
        BY <1>1, <1>3, <2>1, GoesToPlace DEF LookUpWindow, tables
    <2>3. StageFits(n)'
        BY <1>3, <2>1, GotoTyped DEF StageFits, IInv
    <2> QED
        BY <1>3, <2>1, <2>2, <2>3, GotoTyped, QuietlyFlows, PrepareGoesOn DEF LookUpWindow, IInv
<1> QED
    BY <1>2, <1>3 DEF LookUpWindow

LEMMA AddWindowKeeps ==
    ASSUME IInv, NEW n \in Runs, AddWindow(n)
    PROVE  IInv'
<1>1. flows[n].pc = "prepare" /\ flows[n].at \in Taken
    BY DEF AddWindow, At, Taken
<1>2. /\ diagnosis \in [Items -> Verdicts \cup {"none"}] /\ windows \subseteq Items
      /\ mishaps \in 0 .. MaxMishaps
    BY DEF IInv, TypeOK
<1>3. CASE Raise(n) /\ UNCHANGED windows
    BY <1>2, <1>3, RaiseTyped, Quietly, QuietlyLeft DEF AddWindow, IInv
<1>4. CASE windows' = windows \cup {flows[n].item} /\ Goto(n, "closed")
    <2>1. "closed" \in Places /\ "closed" \in Taken
        BY DEF Places, Taken
    <2>2. ItemFits(n)' /\ flows'[n].pc = "prepare"
        BY <1>1, <1>4, <2>1, GoesToPlace DEF AddWindow
    <2>3. StageFits(n)'
        BY <1>4, <2>1, GotoTyped DEF StageFits, IInv
    <2>4. windows' \subseteq Items
        BY <1>1, <1>2, <1>4 DEF IInv, RunsFit, ItemFits
    <2>5. Quiet(n)
        BY <1>2, <1>4, <2>1, <2>4, GotoTyped, Quietly DEF AddWindow, IInv
    <2> QED
        BY <2>2, <2>3, <2>5, PrepareGoesOn
<1> QED
    BY <1>3, <1>4 DEF AddWindow

LEMMA LookUpDiagnosisKeeps ==
    ASSUME IInv, NEW n \in Runs, LookUpDiagnosis(n)
    PROVE  IInv'
<1>1. /\ flows[n].pc = "prepare" /\ flows[n].at \in Taken
      /\ flows[n].stage = "EVIDENCE_READY"
    BY DEF LookUpDiagnosis, At, Taken
<1>2. PICK place \in {"diagnosing", "diagnosed"} : Goto(n, place)
    BY DEF LookUpDiagnosis
<1>3. place \in Places /\ place \in Taken /\ place \notin {"moving", "prepared", "insufficient"}
    BY DEF Places, Taken
<1>4. ItemFits(n)' /\ flows'[n].pc = "prepare"
    BY <1>1, <1>2, <1>3, GoesToPlace DEF LookUpDiagnosis, tables
<1>5. StageFits(n)'
    BY <1>1, <1>2, <1>3, GotoTyped DEF StageFits, IInv
<1> QED
    BY <1>2, <1>3, <1>4, <1>5, GotoTyped, QuietlyFlows, PrepareGoesOn DEF LookUpDiagnosis, IInv

LEMMA AddDiagnosisKeeps ==
    ASSUME IInv, NEW n \in Runs, AddDiagnosis(n)
    PROVE  IInv'
<1> DEFINE f == flows[n].item
<1>1. flows[n].pc = "prepare" /\ flows[n].at = "diagnosing" /\ flows[n].at \in Taken
    BY DEF AddDiagnosis, At, Taken
<1>2. /\ diagnosis \in [Items -> Verdicts \cup {"none"}] /\ windows \subseteq Items
      /\ mishaps \in 0 .. MaxMishaps /\ f \in Items /\ flows[n].stage = "EVIDENCE_READY"
    BY <1>1 DEF IInv, TypeOK, RunsFit, ItemFits, StageFits
<1>3. /\ diagnosis' \in [Items -> Verdicts \cup {"none"}]
      /\ \A g \in Items : diagnosis[g] # "none" => diagnosis'[g] = diagnosis[g]
    <2>1. CASE UNCHANGED diagnosis
        BY <1>2, <2>1
    <2>2. CASE diagnosis[f] = "none" /\ Diagnosed(f)
        BY <1>2, <2>2 DEF Diagnosed
    <2> QED
        BY <2>1, <2>2 DEF AddDiagnosis
<1>4. CASE Raise(n)
    BY <1>2, <1>3, <1>4, RaiseTyped, Quietly, QuietlyLeft DEF AddDiagnosis, IInv
<1>5. CASE Goto(n, "diagnosed")
    <2>1. "diagnosed" \in Places /\ "diagnosed" \in Taken
        BY DEF Places, Taken
    <2>2. ItemFits(n)' /\ flows'[n].pc = "prepare"
        BY <1>1, <1>5, <2>1, GoesToPlace DEF AddDiagnosis
    <2>3. StageFits(n)'
        BY <1>2, <1>5, <2>1, GotoTyped DEF StageFits, IInv
    <2>4. Quiet(n)
        BY <1>2, <1>3, <1>5, <2>1, GotoTyped, Quietly DEF AddDiagnosis, IInv
    <2> QED
        BY <2>2, <2>3, <2>4, PrepareGoesOn
<1> QED
    BY <1>4, <1>5 DEF AddDiagnosis

LEMMA StagesAreDistinct ==
    /\ \A s \in Preparing : s \notin Proposed /\ s # "BLOCKED" /\ s # "absent" /\ s \in Active
                            /\ s \notin Promoted /\ s \notin Released /\ s \in Stages
    /\ \A s \in Proposed : s \notin Preparing /\ s # "BLOCKED" /\ s # "absent" /\ s \in Stages
    /\ \A s \in Released : s \in Proposed
    /\ \A s \in Promoted : s \in Released /\ s \in Active
    /\ \A s \in Stages : s \in Preparing \/ s \in Proposed \/ s = "BLOCKED" \/ s = "absent"
    /\ "BLOCKED" \in Stages /\ "absent" \in Stages /\ "CHANGE_PROPOSED" \in Proposed
    /\ \A s \in {"BLOCKED", "absent", "CHANGE_PROPOSED"} : s \notin Promoted /\ s \notin Released
    /\ "BLOCKED" \notin Active /\ "absent" \notin Active /\ "ended" \notin Active
    BY DEF Preparing, Proposed, Released, Promoted, Stages, Active

LEMMA ReadCycleKeeps ==
    ASSUME IInv, NEW n \in Runs, ReadCycle(n)
    PROVE  IInv'
<1> DEFINE stage == cycle[flows[n].item]
<1>1. flows[n].pc = "prepare" /\ flows[n].at \in Taken
    BY DEF ReadCycle, At, Taken
<1>2. ItemFits(n) /\ flows[n].item \in Items /\ stage \in Stages
    BY <1>1 DEF IInv, RunsFit, ItemFits, TypeOK
<1>3. \/ stage = "absent" /\ Goto(n, "creating")
      \/ stage \in Proposed /\ Goto(n, "prepared")
      \/ stage = "BLOCKED" /\ Goto(n, "insufficient")
      \/ stage \in Preparing /\ GotoWith(n, "moving", stage)
    BY <1>2, StagesAreDistinct DEF ReadCycle
<1>4. UNCHANGED about /\ UNCHANGED cycle
    BY DEF ReadCycle, tables
<1>5. ASSUME NEW place \in {"creating", "prepared", "insufficient"}, Goto(n, place),
             place = "prepared" => stage \in Proposed, place = "insufficient" => stage = "BLOCKED"
      PROVE  IInv'
    <2>1. place \in Places /\ place \in Taken
        BY DEF Places, Taken
    <2>2. ItemFits(n)' /\ flows'[n].pc = "prepare"
        BY <1>1, <1>4, <1>5, <2>1, GoesToPlace
    <2>3. StageFits(n)'
        BY <1>4, <1>5, <2>1, GotoTyped DEF StageFits, IInv
    <2> QED
        BY <1>5, <2>1, <2>2, <2>3, GotoTyped, QuietlyFlows, PrepareGoesOn DEF ReadCycle, IInv
<1>6. CASE stage \in Preparing /\ GotoWith(n, "moving", stage)
    <2>1. "moving" \in Places /\ "moving" \in Taken
        BY DEF Places, Taken
    <2>2. /\ flows' \in [Runs -> Flow]
          /\ \A m \in Runs : m # n => flows'[m] = flows[m]
          /\ flows'[n].pc = "prepare" /\ flows'[n].at = "moving" /\ flows'[n].stage = stage
          /\ flows'[n].item = flows[n].item /\ flows'[n].release = flows[n].release
        BY <1>1, <1>2, <1>6, <2>1, GotoWithTyped DEF IInv
    <2>3. ItemFits(n)'
        BY <1>1, <1>4, <2>1, <2>2, GoesOnWithItem DEF CyclesGoOn
    <2>4. StageFits(n)'
        BY <1>6, <2>2, StagesAreDistinct DEF StageFits
    <2> QED
        BY <2>2, <2>3, <2>4, QuietlyFlows, PrepareGoesOn DEF ReadCycle
<1> QED
    BY <1>3, <1>5, <1>6

LEMMA ConcludeKeeps ==
    ASSUME IInv, NEW n \in Runs, Conclude(n)
    PROVE  IInv'
<1>1. flows[n].pc = "prepare" /\ flows[n].at = "moving" /\ flows[n].at \in Taken
    BY DEF Conclude, At, Taken
<1>2. ItemFits(n) /\ StageFits(n) /\ flows[n].item \in Items
    BY <1>1 DEF IInv, RunsFit, ItemFits
<1>3. \/ flows[n].stage = "BLOCKED" /\ GotoWith(n, "insufficient", "absent")
      \/ flows[n].stage = "CHANGE_PROPOSED" /\ GotoWith(n, "prepared", "absent")
      \/ Raise(n)
    BY DEF Conclude
<1>4. UNCHANGED about /\ UNCHANGED cycle
    BY DEF Conclude, tables
<1>5. CASE Raise(n)
    BY <1>5, RaiseTyped, QuietlyFlows, QuietlyLeft DEF Conclude, IInv
<1>6. ASSUME NEW place \in {"prepared", "insufficient"}, GotoWith(n, place, "absent"),
             place = "prepared" => flows[n].stage = "CHANGE_PROPOSED",
             place = "insufficient" => flows[n].stage = "BLOCKED"
      PROVE  IInv'
    <2>1. place \in Places /\ place \in Taken /\ "CHANGE_PROPOSED" \in Proposed
        BY DEF Places, Taken, Proposed
    <2>2. /\ flows' \in [Runs -> Flow]
          /\ \A m \in Runs : m # n => flows'[m] = flows[m]
          /\ flows'[n].pc = "prepare" /\ flows'[n].at = place
          /\ flows'[n].item = flows[n].item /\ flows'[n].release = flows[n].release
        BY <1>1, <1>6, <2>1, StagesAreDistinct, GotoWithTyped DEF IInv
    <2>3. ItemFits(n)'
        BY <1>1, <1>4, <2>1, <2>2, GoesOnWithItem DEF CyclesGoOn
    <2>4. StageFits(n)'
        BY <1>1, <1>2, <1>4, <1>6, <2>1, <2>2 DEF StageFits
    <2> QED
        BY <2>2, <2>3, <2>4, QuietlyFlows, PrepareGoesOn DEF Conclude
<1> QED
    BY <1>3, <1>5, <1>6

LEMMA RecordKeeps ==
    ASSUME IInv, NEW n \in Runs, Record(n)
    PROVE  IInv'
<1>1. flows[n].pc = "prepare" /\ flows[n].at = "returned" /\ flows[n] \in Flow
    BY FlowsTyped DEF Record, At, IInv
<1>2. CASE flows[n].next = "execute"
    <2> DEFINE w == [NoFlow EXCEPT !.pc = "execute", !.item = flows[n].item]
    <2>1. /\ flows[n].item \in Items /\ UNCHANGED <<about, cycle>>
          /\ about[flows[n].item] # Nowhere /\ MayServe(about[flows[n].item])
        BY <1>1, <1>2 DEF IInv, RunsFit, ItemFits, Executing, Record, tables
    <2>2. w \in Flow /\ w.pc = "execute" /\ w.at = "begun" /\ w.item = flows[n].item
        BY <2>1, NoFlowTyped DEF Flow
    <2>3. Becomes(n, w)
        BY <1>2 DEF Record, Becomes
    <2> HIDE DEF w
    <2>4. Quiet(n) /\ flows'[n] = w
        BY <2>2, <2>3, OneFlowMoves, QuietlyFlows DEF Record, IInv
    <2>5. ItemFits(n)' /\ StageFits(n)' /\ ~Promoting(n)' /\ PromotionFits(n)'
        BY <2>1, <2>2, <2>4
           DEF ItemFits, StageFits, Promoting, PromotionFits, Executing, MayServe
    <2> QED
        BY <2>4, <2>5, QuietStep
<1>3. CASE flows[n].next # "execute"
    <2>1. Becomes(n, NoFlow)
        BY <1>3 DEF Record, Becomes
    <2>2. Quiet(n) /\ flows'[n].pc = "idle"
        BY <2>1, NoFlowTyped, OneFlowMoves, QuietlyFlows DEF Record, IInv
    <2> QED
        BY <2>2, QuietlyIdle
<1> QED
    BY <1>2, <1>3

LEMMA FailKeeps ==
    ASSUME IInv, NEW n \in Runs, Fail(n)
    PROVE  IInv'
<1>1. /\ mishaps' \in 0 .. MaxMishaps /\ windows \subseteq Items
      /\ diagnosis \in [Items -> Verdicts \cup {"none"}]
      /\ UNCHANGED <<about, windows, diagnosis, cycle, trigger>>
    BY FeedbackAutonomyAssumption DEF Fail, MayDisturb, IInv, TypeOK, tables
<1>2. CASE Raise(n)
    BY <1>1, <1>2, RaiseTyped, Quietly, QuietlyLeft DEF Fail, IInv
<1>3. CASE End(n)
    BY <1>1, <1>3, EndTyped, Quietly, QuietlyIdle DEF Fail, IInv
<1> QED
    BY <1>2, <1>3 DEF Fail

----------------------------------------------------------------------------
\* The steps of a run that move a cycle.

LEMMA CycleMoves ==
    ASSUME IInv, NEW f \in Items, NEW s \in Stages, cycle' = [cycle EXCEPT ![f] = s],
           UNCHANGED <<about, diagnosis, trigger, rival, serving, head, echoed>>,
           s \in Active => cycle[f] \in Active \/ TargetFree,
           Alone /\ cycle[f] \in Promoted /\ s \notin Promoted => head = serving,
           s = "BLOCKED" => diagnosis[f] = "low",
           Alone /\ s \in Active \ ({"NEW"} \cup Released) => about[f] = serving /\ head = serving,
           cycle[f] \in Proposed => s \in Proposed,
           cycle[f] \in Released => s \in Released,
           cycle[f] = "BLOCKED" => s = "BLOCKED"
    PROVE  World' /\ AboutStays /\ CyclesGoOn
<1>1. cycle'[f] = s /\ \A g \in Items : g # f => cycle'[g] = cycle[g]
    BY DEF IInv, TypeOK
<1>2. OneActiveCycle'
    BY <1>1 DEF IInv, OneActiveCycle, ActiveItems, TargetFree
<1>3. BranchIsServed'
    BY <1>1 DEF IInv, BranchIsServed, Alone
<1>4. BlockedForConfidence' /\ OnlyTheServingIsImproved'
    BY <1>1 DEF IInv, BlockedForConfidence, OnlyTheServingIsImproved, Alone
<1>5. TriggersTellTheTruth' /\ OnlyThePromotedIsReleased'
    BY <1>1 DEF IInv, TriggersTellTheTruth, OnlyThePromotedIsReleased
<1>6. AboutStays /\ CyclesGoOn
    BY <1>1 DEF AboutStays, CyclesGoOn, Alone
<1> QED
    BY <1>2, <1>3, <1>4, <1>5, <1>6 DEF World

\* A promotion is of the target's one active cycle, so no step of another cycle disturbs it.
LEMMA PromotionsAreOfPromoted ==
    ASSUME IInv, Alone, NEW m \in Runs, Promoting(m)
    PROVE  /\ flows[m].item \in Items
           /\ cycle[flows[m].item] \in Promoted
           /\ \A f \in Items : cycle[f] \in Active => f = flows[m].item
<1>1. flows[m].item \in Items
    BY DEF IInv, RunsFit, ItemFits, Executing, Promoting
<1>2. cycle[flows[m].item] \in {"PROMOTED", "SOAKING"}
    BY DEF IInv, RunsFit, PromotionFits
<1> QED
    BY <1>1, <1>2, StagesAreDistinct DEF IInv, OneActiveCycle, Promoted

LEMMA OthersUndisturbed ==
    ASSUME IInv, NEW f \in Items, NEW s, cycle' = [cycle EXCEPT ![f] = s],
           cycle[f] \notin Promoted, UNCHANGED <<serving, head, echoed>>
    PROVE  \A m \in Runs : Undisturbed(m)
    BY PromotionsAreOfPromoted DEF Undisturbed, IInv, TypeOK, Alone

\* What a transition of the prepare step may do where its copy of the cycle is not stale.
LEMMA MoveKeeps ==
    ASSUME IInv, NEW n \in Runs, NEW to \in Stages, Move(n, to),
           flows[n].pc = "prepare", flows[n].at \in {"moving", "diagnosed"},
           flows[n].stage \in Preparing,
           UNCHANGED <<about, windows, diagnosis, trigger, world, mishaps>>,
           cycle[flows[n].item] = flows[n].stage =>
             /\ to \in Preparing \/ to \in {"CHANGE_PROPOSED", "BLOCKED"}
             /\ to = "BLOCKED" => diagnosis[flows[n].item] = "low"
             /\ Alone /\ to # "BLOCKED" => about[flows[n].item] = serving /\ head = serving
    PROVE  IInv'
<1> DEFINE f == flows[n].item
           s == IF cycle[f] = flows[n].stage THEN to ELSE cycle[f]
<1>1. /\ f \in Items /\ ItemFits(n) /\ cycle \in [Items -> Stages] /\ cycle[f] \in Stages
      /\ flows[n].at \in Taken
    BY DEF IInv, RunsFit, ItemFits, TypeOK, Taken
<1>2. s \in Stages /\ cycle' = [cycle EXCEPT ![f] = s] /\ GotoWith(n, "moving", s)
    BY <1>1 DEF Move
<1>3. "moving" \in Places /\ "moving" \in Taken
    BY DEF Places, Taken
<1>4. /\ flows' \in [Runs -> Flow]
      /\ \A m \in Runs : m # n => flows'[m] = flows[m]
      /\ flows'[n].pc = "prepare" /\ flows'[n].at = "moving" /\ flows'[n].stage = s
      /\ flows'[n].item = f /\ flows'[n].release = flows[n].release
    BY <1>2, <1>3, GotoWithTyped DEF IInv
<1>5. cycle' \in [Items -> Stages] /\ cycle'[f] = s
    BY <1>1, <1>2
<1>6. TypeOK'
    BY <1>4, <1>5 DEF IInv, TypeOK, world
<1>7. CyclesGoOn
    BY <1>1, <1>2, StagesAreDistinct DEF CyclesGoOn
<1>8. ItemFits(n)'
    BY <1>1, <1>3, <1>4, <1>7, GoesOnWithItem
<1>9. StageFits(n)'
    BY <1>4, <1>5 DEF StageFits
<1>10. ~Promoting(n)' /\ PromotionFits(n)'
    BY <1>4 DEF Promoting, PromotionFits
<1>11. CASE cycle[f] = flows[n].stage
    <2>1. /\ cycle[f] \in Active /\ cycle[f] \notin Proposed
          /\ cycle[f] # "BLOCKED" /\ cycle[f] \notin Promoted /\ s = to
        BY <1>11, StagesAreDistinct
    <2>2. World' /\ AboutStays /\ CyclesGoOn
        BY <1>1, <1>2, <1>11, <2>1, CycleMoves, StagesAreDistinct DEF world
    <2>3. \A m \in Runs : Undisturbed(m)
        BY <1>1, <1>2, <2>1, OthersUndisturbed DEF world
    <2> HIDE DEF f, s
    <2> QED
        BY <1>4, <1>6, <1>8, <1>9, <1>10, <2>2, <2>3, StepOfRun
<1>12. CASE cycle[f] # flows[n].stage
    <2>1. cycle' = cycle
        BY <1>1, <1>2, <1>12
    <2>2. Quiet(n)
        BY <1>4, <2>1, Quietly DEF IInv, TypeOK
    <2> QED
        BY <1>4, <1>8, <1>9, <2>2, PrepareGoesOn
<1> QED
    BY <1>11, <1>12

LEMMA RaiseKeeps ==
    ASSUME IInv, NEW n \in Runs, Raise(n), UNCHANGED <<tables, world, mishaps>>
    PROVE  IInv'
    BY RaiseTyped, QuietlyFlows, QuietlyLeft DEF IInv

LEMMA CreateCycleKeeps ==
    ASSUME IInv, NEW n \in Runs, CreateCycle(n)
    PROVE  IInv'
<1> DEFINE f == flows[n].item
<1>1. flows[n].pc = "prepare" /\ flows[n].at \in Taken
    BY DEF CreateCycle, At, Taken
<1>2. f \in Items /\ ItemFits(n) /\ cycle \in [Items -> Stages]
    BY <1>1 DEF IInv, RunsFit, ItemFits, TypeOK
<1>3. CASE Raise(n) /\ UNCHANGED cycle
    BY <1>3, RaiseKeeps DEF CreateCycle, tables
<1>4. CASE /\ TargetFree /\ cycle[f] = "absent"
           /\ cycle' = [cycle EXCEPT ![f] = "NEW"] /\ GotoWith(n, "moving", "NEW")
    <2>1. "moving" \in Places /\ "NEW" \in Preparing /\ "NEW" \in Stages
        BY DEF Places, Preparing, Stages
    <2>2. /\ flows' \in [Runs -> Flow]
          /\ \A m \in Runs : m # n => flows'[m] = flows[m]
          /\ flows'[n].pc = "prepare" /\ flows'[n].at = "moving" /\ flows'[n].stage = "NEW"
          /\ flows'[n].item = f /\ flows'[n].release = flows[n].release
        BY <1>1, <1>4, <2>1, GotoWithTyped DEF IInv
    <2>3. World' /\ AboutStays /\ CyclesGoOn
        BY <1>2, <1>4, <2>1, CycleMoves, StagesAreDistinct DEF CreateCycle, world
    <2>4. \A m \in Runs : Undisturbed(m)
        BY <1>2, <1>4, OthersUndisturbed, StagesAreDistinct DEF CreateCycle, world
    <2>5. TypeOK'
        BY <1>2, <1>4, <2>1, <2>2 DEF IInv, TypeOK, CreateCycle, world
    <2>6. ItemFits(n)'
        BY <1>1, <2>2, <2>3, GoesOnWithItem DEF CreateCycle, Taken
    <2>7. StageFits(n)'
        BY <2>1, <2>2, StagesAreDistinct DEF StageFits
    <2>8. ~Promoting(n)' /\ PromotionFits(n)'
        BY <2>2 DEF Promoting, PromotionFits
    <2> QED
        BY <2>2, <2>3, <2>4, <2>5, <2>6, <2>8, <2>7, StepOfRun
<1> QED
    BY <1>3, <1>4 DEF CreateCycle

\* While its own cycle is NEW nothing else changes what is served.
LEMMA VerifyBaselineKeeps ==
    ASSUME IInv, NEW n \in Runs, VerifyBaseline(n)
    PROVE  IInv'
<1> DEFINE f == flows[n].item
<1>1. CASE Raise(n) /\ UNCHANGED cycle
    BY <1>1, RaiseKeeps DEF VerifyBaseline, tables
<1>2. CASE head = flows[n].release /\ Move(n, "BASELINE_VERIFIED")
    <2>1. /\ flows[n].pc = "prepare" /\ flows[n].at = "moving" /\ flows[n].at \in Taken
          /\ flows[n].stage = "NEW" /\ "NEW" \in Preparing /\ "BASELINE_VERIFIED" \in Preparing
        BY DEF VerifyBaseline, At, Taken, Preparing
    <2>2. f \in Items /\ about[f] = flows[n].release
        BY <2>1 DEF IInv, RunsFit, ItemFits
    <2>3. cycle[f] = "NEW" => \A g \in Items : cycle[g] \notin Promoted
        BY <2>1, <2>2, StagesAreDistinct DEF IInv, OneActiveCycle
    <2>4. Alone /\ cycle[f] = "NEW" => about[f] = serving /\ head = serving
        BY <1>2, <2>2, <2>3 DEF IInv, BranchIsServed
    <2> QED
        BY <1>2, <2>1, <2>4, MoveKeeps, StagesAreDistinct DEF VerifyBaseline
<1> QED
    BY <1>1, <1>2 DEF VerifyBaseline

\* From the verified baseline on, what the cycle stands on is served.
LEMMA StandsOnServing ==
    ASSUME IInv, Alone, NEW f \in Items, cycle[f] \in Preparing, cycle[f] # "NEW"
    PROVE  about[f] = serving /\ head = serving
    BY StagesAreDistinct DEF IInv, OnlyTheServingIsImproved, Alone

LEMMA BindEvidenceKeeps ==
    ASSUME IInv, NEW n \in Runs, BindEvidence(n)
    PROVE  IInv'
<1>1. /\ flows[n].pc = "prepare" /\ flows[n].at = "moving" /\ flows[n].at \in Taken
      /\ flows[n].stage = "BASELINE_VERIFIED" /\ "BASELINE_VERIFIED" \in Preparing
      /\ "EVIDENCE_READY" \in Preparing
    BY DEF BindEvidence, At, Taken, Preparing
<1>2. flows[n].item \in Items
    BY <1>1 DEF IInv, RunsFit, ItemFits
<1> QED
    BY <1>1, <1>2, MoveKeeps, StandsOnServing, StagesAreDistinct DEF BindEvidence

LEMMA BindDiagnosisKeeps ==
    ASSUME IInv, NEW n \in Runs, BindDiagnosis(n)
    PROVE  IInv'
<1>1. /\ flows[n].pc = "prepare" /\ flows[n].at = "diagnosed" /\ flows[n].at \in Taken
      /\ "DIAGNOSED" \in Preparing /\ "EVIDENCE_READY" \in Preparing
    BY DEF BindDiagnosis, At, Taken, Preparing
<1>2. flows[n].item \in Items /\ flows[n].stage = "EVIDENCE_READY"
    BY <1>1 DEF IInv, RunsFit, ItemFits, StageFits
<1> QED
    BY <1>1, <1>2, MoveKeeps, StandsOnServing, StagesAreDistinct DEF BindDiagnosis

LEMMA JudgeKeeps ==
    ASSUME IInv, NEW n \in Runs, Judge(n)
    PROVE  IInv'
<1> DEFINE f == flows[n].item
<1>1. /\ flows[n].pc = "prepare" /\ flows[n].at = "moving" /\ flows[n].at \in Taken
      /\ flows[n].stage = "DIAGNOSED" /\ "DIAGNOSED" \in Preparing
    BY DEF Judge, At, Taken, Preparing
<1>2. f \in Items
    BY <1>1 DEF IInv, RunsFit, ItemFits
<1>3. CASE Raise(n) /\ UNCHANGED cycle
    BY <1>3, RaiseKeeps DEF Judge, tables
<1>4. CASE diagnosis[f] = "low" /\ Move(n, "BLOCKED")
    BY <1>1, <1>4, MoveKeeps, StagesAreDistinct DEF Judge
<1>5. CASE Move(n, "CHANGE_PROPOSED")
    <2>1. "CHANGE_PROPOSED" \in Stages /\ "CHANGE_PROPOSED" # "BLOCKED"
        BY DEF Stages, Proposed
    <2> QED
        BY <1>1, <1>2, <1>5, <2>1, MoveKeeps, StandsOnServing DEF Judge
<1> QED
    BY <1>3, <1>4, <1>5 DEF Judge

----------------------------------------------------------------------------
\* The trigger.

LEMMA ConsumeKeeps ==
    ASSUME IInv, NEW n \in Runs, NEW outcome \in Outcomes, NEW next \in {"idle", "execute"},
           Consume(n, outcome, next), flows[n].pc = "prepare", flows[n].at \in Taken,
           UNCHANGED <<about, windows, diagnosis, cycle, world, mishaps>>,
           outcome = "prepared" => cycle[flows[n].item] \in Proposed,
           outcome = "blocked-low-confidence" => cycle[flows[n].item] = "BLOCKED"
    PROVE  IInv'
<1> DEFINE f == flows[n].item
<1>1. f \in Items /\ trigger \in [Items -> Outcomes \cup {"none"}]
    BY DEF IInv, RunsFit, ItemFits, TypeOK
<1>2. about[f] # Nowhere /\ MayServe(about[f])
    BY ServedIsSomewhere DEF IInv, RunsFit, ItemFits
<1>3. CASE Raise(n) /\ UNCHANGED trigger
    BY <1>3, RaiseKeeps DEF tables
<1>4. CASE trigger' = [trigger EXCEPT ![f] = outcome] /\ Return(n, next)
    <2>1. /\ flows' \in [Runs -> Flow]
          /\ \A m \in Runs : m # n => flows'[m] = flows[m]
          /\ flows'[n].pc = "prepare" /\ flows'[n].at = "returned" /\ flows'[n].next = next
          /\ next = "execute" => flows'[n].item = f
        BY <1>4, ReturnTyped DEF IInv
    <2>2. TypeOK'
        BY <1>1, <1>4, <2>1 DEF IInv, TypeOK, world
    <2>3. TriggersTellTheTruth'
        BY <1>1, <1>4 DEF IInv, TriggersTellTheTruth, BlockedForConfidence, Outcomes
    <2>4. /\ OneActiveCycle' /\ BranchIsServed' /\ OnlyTheServingIsImproved'
          /\ BlockedForConfidence' /\ OnlyThePromotedIsReleased'
        BY DEF IInv, OneActiveCycle, ActiveItems, BranchIsServed, OnlyTheServingIsImproved,
               BlockedForConfidence, OnlyThePromotedIsReleased, Alone, world
    <2>5. AboutStays /\ CyclesGoOn /\ \A m \in Runs : Undisturbed(m)
        BY DEF AboutStays, CyclesGoOn, Undisturbed, Alone, world
    <2>6. ItemFits(n)' /\ StageFits(n)' /\ ~Promoting(n)' /\ PromotionFits(n)'
        BY <1>1, <1>2, <2>1
           DEF ItemFits, StageFits, Promoting, PromotionFits, Taken, Executing, MayServe
    <2> QED
        BY <2>1, <2>2, <2>3, <2>4, <2>5, <2>6, StepOfRun DEF World
<1> QED
    BY <1>3, <1>4 DEF Consume

LEMMA RecordPreparedKeeps ==
    ASSUME IInv, NEW n \in Runs, RecordPrepared(n)
    PROVE  IInv'
<1>1. /\ flows[n].pc = "prepare" /\ flows[n].at = "prepared" /\ flows[n].at \in Taken
      /\ "prepared" \in Outcomes
    BY DEF RecordPrepared, At, Taken, Outcomes
<1>2. cycle[flows[n].item] \in Proposed
    BY <1>1 DEF IInv, RunsFit, StageFits
<1> QED
    BY <1>1, <1>2, ConsumeKeeps DEF RecordPrepared

LEMMA RecordBlockedKeeps ==
    ASSUME IInv, NEW n \in Runs, RecordBlocked(n)
    PROVE  IInv'
<1>1. /\ flows[n].pc = "prepare" /\ flows[n].at = "insufficient" /\ flows[n].at \in Taken
      /\ "blocked-low-confidence" \in Outcomes
    BY DEF RecordBlocked, At, Taken, Outcomes
<1>2. cycle[flows[n].item] = "BLOCKED"
    BY <1>1 DEF IInv, RunsFit, StageFits
<1> QED
    BY <1>1, <1>2, ConsumeKeeps DEF RecordBlocked

----------------------------------------------------------------------------
\* The execution and the soak.

LEMMA ExecutorFits ==
    ASSUME IInv, NEW n \in Runs, flows[n].pc \in {"execute", "soak"}
    PROVE  /\ Executing(n) /\ flows[n] \in Flow
           /\ flows[n].item \in Items /\ flows[n].item \in Releases
           /\ about[flows[n].item] \in Releases /\ MayServe(about[flows[n].item])
           /\ Promoting(n) => cycle[flows[n].item] \in Released
           /\ PromotionFits(n)
<1>1. Executing(n)
    BY DEF Executing
<1>2. ItemFits(n) /\ PromotionFits(n) /\ about \in [Items -> Releases \cup {Nowhere}]
    BY DEF IInv, RunsFit, TypeOK
<1>3. \A f \in Items : f \in Releases
    BY FeedbackAutonomyAssumption DEF Items, Releases
<1> QED
    BY <1>1, <1>2, <1>3, FlowsTyped DEF ItemFits, IInv

\* A run that goes on with its item, which it may have come to promote.
LEMMA ExecutorGoesOn ==
    ASSUME IInv, NEW n \in Runs, flows[n].pc \in {"execute", "soak"},
           flows'[n].pc \in {"execute", "soak"}, flows'[n].item = flows[n].item,
           UNCHANGED about, CyclesGoOn, Promoting(n)' => cycle'[flows[n].item] \in Released
    PROVE  ItemFits(n)' /\ StageFits(n)'
<1>1. /\ flows[n].item \in Items /\ about[flows[n].item] \in Releases
      /\ MayServe(about[flows[n].item])
    BY ExecutorFits
<1>2. about[flows[n].item] # Nowhere
    BY <1>1, FeedbackAutonomyAssumption DEF Releases, Nowhere
<1>3. MayServe(about[flows[n].item])'
    BY <1>1 DEF MayServe, CyclesGoOn
<1> QED
    BY <1>1, <1>2, <1>3 DEF ItemFits, StageFits

\* A step that takes the run from place to place, and nothing else that the properties know.
LEMMA ExecutionGoesOn ==
    ASSUME IInv, NEW n \in Runs, flows[n].pc \in {"execute", "soak"}, Quiet(n),
           flows'[n].pc \in {"execute", "soak"}, flows'[n].item = flows[n].item,
           Promoting(n)' => Promoting(n), PromotionFits(n)'
    PROVE  IInv'
<1>1. UNCHANGED <<about, cycle>> /\ CyclesGoOn
    BY DEF Quiet, Still, CyclesGoOn
<1>2. ItemFits(n)' /\ StageFits(n)'
    BY <1>1, ExecutorFits, ExecutorGoesOn
<1> QED
    BY <1>2, QuietStep

LEMMA DevelopKeeps ==
    ASSUME IInv, NEW n \in Runs, Develop(n)
    PROVE  IInv'
<1> DEFINE f == flows[n].item
<1>1. /\ flows[n].pc = "execute" /\ flows[n].at = "begun" /\ f \in Items
      /\ cycle[f] \in {"CHANGE_PROPOSED", "DEVELOPING"}
      /\ cycle' = [cycle EXCEPT ![f] = "DEVELOPING"] /\ Goto(n, "developing")
    BY ExecutorFits DEF Develop, At
<1>2. /\ "developing" \in Places /\ "DEVELOPING" \in Stages /\ "DEVELOPING" \in Proposed
      /\ cycle[f] \in Active /\ cycle[f] \notin {"NEW", "BLOCKED"} \cup Promoted \cup Released
      /\ "DEVELOPING" # "BLOCKED" /\ "DEVELOPING" \notin Released
    BY <1>1 DEF Places, Stages, Proposed, Active, Promoted, Released
<1>3. Alone => about[f] = serving /\ head = serving
    BY <1>1, <1>2 DEF IInv, OnlyTheServingIsImproved, Alone
<1>4. /\ flows' \in [Runs -> Flow]
      /\ \A m \in Runs : m # n => flows'[m] = flows[m]
      /\ flows'[n].pc = "execute" /\ flows'[n].at = "developing" /\ flows'[n].item = f
    BY <1>1, <1>2, GotoTyped DEF IInv
<1>5. World' /\ AboutStays /\ CyclesGoOn
    BY <1>1, <1>2, <1>3, CycleMoves DEF Develop, world
<1>6. \A m \in Runs : Undisturbed(m)
    BY <1>1, <1>2, OthersUndisturbed DEF Develop, world
<1>7. TypeOK'
    BY <1>1, <1>2, <1>4 DEF IInv, TypeOK, Develop, world
<1>8. ~Promoting(n)' /\ PromotionFits(n)'
    BY <1>4 DEF Promoting, PromotionFits
<1>9. ItemFits(n)' /\ StageFits(n)'
    BY <1>1, <1>4, <1>5, <1>8, ExecutorGoesOn DEF Develop
<1> QED
    BY <1>4, <1>5, <1>6, <1>7, <1>8, <1>9, StepOfRun

LEMMA ImplementKeeps ==
    ASSUME IInv, NEW n \in Runs, Implement(n)
    PROVE  IInv'
<1>1. flows[n].pc = "execute" /\ "developed" \in Places /\ Goto(n, "developed")
    BY DEF Implement, At, Places
<1>2. /\ Quiet(n) /\ flows'[n].pc = "execute" /\ flows'[n].at = "developed"
      /\ flows'[n].item = flows[n].item
    BY <1>1, GotoTyped, QuietlyFlows DEF Implement, IInv
<1>3. ~Promoting(n)' /\ PromotionFits(n)'
    BY <1>2 DEF Promoting, PromotionFits
<1> QED
    BY <1>1, <1>2, <1>3, ExecutionGoesOn

\* A run that only ends leaves everything to the others.
LEMMA EndKeeps ==
    ASSUME IInv, NEW n \in Runs, End(n), UNCHANGED <<tables, world, mishaps>>
    PROVE  IInv'
    BY EndTyped, QuietlyFlows, QuietlyIdle DEF IInv

LEMMA OutOfStepKeeps ==
    ASSUME IInv, NEW n \in Runs, OutOfStep(n)
    PROVE  IInv'
    BY EndKeeps DEF OutOfStep

LEMMA AbandonKeeps ==
    ASSUME IInv, NEW n \in Runs, Abandon(n)
    PROVE  IInv'
<1> DEFINE f == flows[n].item
<1>1. /\ flows[n].pc = "execute" /\ f \in Items /\ cycle[f] = "DEVELOPING"
      /\ cycle' = [cycle EXCEPT ![f] = "REJECTED"]
    BY ExecutorFits DEF Abandon, At
<1>2. /\ flows' \in [Runs -> Flow]
      /\ \A m \in Runs : m # n => flows'[m] = flows[m]
      /\ flows'[n].pc = "idle"
    BY EndTyped DEF Abandon, IInv
<1>3. /\ "REJECTED" \in Stages /\ "REJECTED" \in Proposed /\ "REJECTED" \notin Active
      /\ "DEVELOPING" \notin Promoted /\ "DEVELOPING" \notin Released /\ "DEVELOPING" # "BLOCKED"
    BY DEF Stages, Proposed, Active, Promoted, Released
<1>4. World' /\ AboutStays /\ CyclesGoOn
    BY <1>1, <1>3, CycleMoves DEF Abandon, world
<1>5. \A m \in Runs : Undisturbed(m)
    BY <1>1, <1>3, OthersUndisturbed DEF Abandon, world
<1>6. TypeOK'
    BY <1>1, <1>2, <1>3 DEF IInv, TypeOK, Abandon, world
<1>7. ItemFits(n)' /\ StageFits(n)' /\ ~Promoting(n)' /\ PromotionFits(n)'
    BY <1>2 DEF ItemFits, StageFits, Promoting, PromotionFits, Executing
<1> QED
    BY <1>2, <1>4, <1>5, <1>6, <1>7, StepOfRun

\* Whoever promotes takes the cycle from being developed: no other run promotes then, or this
\* one is told what another did, and nothing is said of the two of them.
LEMMA PromoteKeeps ==
    ASSUME IInv, NEW n \in Runs, Promote(n)
    PROVE  IInv'
<1> DEFINE f == flows[n].item
<1>1. /\ flows[n].pc = "execute" /\ f \in Items /\ Goto(n, "promoted") /\ "promoted" \in Places
      /\ about[f] \in Releases
    BY ExecutorFits DEF Promote, At, Places
<1>2. /\ flows' \in [Runs -> Flow]
      /\ \A m \in Runs : m # n => flows'[m] = flows[m]
      /\ flows'[n].pc = "execute" /\ flows'[n].at = "promoted" /\ flows'[n].item = f
    BY <1>1, GotoTyped DEF IInv
<1>3. Promoting(n)'
    BY <1>2 DEF Promoting
<1>4. CASE /\ cycle[f] = "DEVELOPING" /\ cycle' = [cycle EXCEPT ![f] = "PROMOTED"]
           /\ UNCHANGED echoed
    <2>1. /\ "PROMOTED" \in Stages /\ "PROMOTED" \in Proposed /\ "PROMOTED" \in Released
          /\ "DEVELOPING" \in Active /\ "DEVELOPING" \notin Promoted
          /\ "DEVELOPING" \notin Released /\ "PROMOTED" \in Promoted
        BY DEF Stages, Proposed, Active, Promoted, Released
    <2>2. Alone => about[f] = serving /\ head = serving
        BY <1>1, <1>4, <2>1 DEF IInv, OnlyTheServingIsImproved, Alone
    <2>3. Alone => \A m \in Runs : ~Promoting(m)
        BY <1>1, <1>4, <2>1, PromotionsAreOfPromoted
    <2>4. World' /\ AboutStays /\ CyclesGoOn
        BY <1>1, <1>4, <2>1, CycleMoves DEF Promote
    <2>5. (Alone' => Alone) /\ \A m \in Runs : Undisturbed(m)
        BY <1>4, <2>3 DEF Undisturbed, Alone
    <2>6. TypeOK'
        BY <1>1, <1>2, <1>4, <2>1 DEF IInv, TypeOK, Promote
    <2>7. cycle'[f] = "PROMOTED"
        BY <1>1, <1>4 DEF IInv, TypeOK
    <2>8. ItemFits(n)' /\ StageFits(n)'
        BY <1>1, <1>2, <2>1, <2>4, <2>7, ExecutorGoesOn DEF Promote
    <2>9. PromotionFits(n)'
        BY <1>1, <1>2, <2>2, <2>5, <2>7 DEF PromotionFits, Promote
    <2> QED
        BY <1>2, <2>3, <2>4, <2>5, <2>6, <2>8, <2>9, StepOfRun
<1>5. CASE cycle[f] \in Released /\ echoed' = echoed \cup {f} /\ UNCHANGED cycle
    <2>1. ~Alone'
        BY <1>5 DEF Alone
    <2>2. OneActiveCycle' /\ BlockedForConfidence' /\ TriggersTellTheTruth'
          /\ OnlyThePromotedIsReleased'
        BY <1>5 DEF IInv, OneActiveCycle, ActiveItems, BlockedForConfidence,
                    TriggersTellTheTruth, OnlyThePromotedIsReleased, Promote
    <2>3. BranchIsServed' /\ OnlyTheServingIsImproved'
        BY <2>1 DEF BranchIsServed, OnlyTheServingIsImproved, Alone
    <2>4. AboutStays /\ CyclesGoOn /\ \A m \in Runs : Undisturbed(m)
        BY <1>5, <2>1 DEF AboutStays, CyclesGoOn, Undisturbed, Promote
    <2>5. TypeOK'
        BY <1>1, <1>2, <1>5 DEF IInv, TypeOK, Promote
    <2>6. ItemFits(n)' /\ StageFits(n)'
        BY <1>1, <1>2, <1>5, <2>4, ExecutorGoesOn DEF Promote
    <2>7. PromotionFits(n)'
        BY <2>1 DEF PromotionFits
    <2> QED
        BY <1>2, <2>1, <2>2, <2>3, <2>4, <2>5, <2>6, <2>7, StepOfRun DEF World
<1> QED
    BY <1>4, <1>5 DEF Promote

\* A step of a run that promotes, which moves branch or catalog: if it is the only one, all
\* other cycles have ended or are not begun.
LEMMA ServingMoves ==
    ASSUME IInv, NEW n \in Runs, Promoting(n),
           UNCHANGED <<tables, rival, released, echoed, mishaps>>,
           serving' \in Releases, head' \in Releases, MayServe(serving)', MayServe(head)',
           flows' \in [Runs -> Flow], \A m \in Runs : m # n => flows'[m] = flows[m],
           flows'[n].pc \in {"execute", "soak"}, flows'[n].item = flows[n].item,
           PromotionFits(n)'
    PROVE  IInv'
<1>1. flows[n].pc \in {"execute", "soak"}
    BY DEF Promoting
<1>2. flows[n].item \in Items /\ cycle[flows[n].item] \in Released
    BY <1>1, ExecutorFits
<1>3. Alone => /\ cycle[flows[n].item] \in Promoted
               /\ \A f \in Items : cycle[f] \in Active => f = flows[n].item
    BY PromotionsAreOfPromoted
<1>4. TypeOK'
    BY DEF IInv, TypeOK, tables
<1>5. OneActiveCycle' /\ BlockedForConfidence' /\ TriggersTellTheTruth'
    BY DEF IInv, OneActiveCycle, ActiveItems, BlockedForConfidence, TriggersTellTheTruth, tables
<1>6. BranchIsServed' /\ OnlyTheServingIsImproved'
    BY <1>2, <1>3 DEF BranchIsServed, OnlyTheServingIsImproved, Alone, tables
<1>7. OnlyThePromotedIsReleased'
    BY DEF OnlyThePromotedIsReleased, MayServe
<1>8. \A m \in Runs : m # n => Undisturbed(m)
    BY DEF IInv, OneRunPromotes, Undisturbed, Alone
<1>9. AboutStays /\ CyclesGoOn
    BY DEF AboutStays, CyclesGoOn, Alone, tables
<1>10. ItemFits(n)' /\ StageFits(n)'
    BY <1>1, <1>2, <1>9, ExecutorGoesOn DEF tables
<1> QED
    BY <1>4, <1>5, <1>6, <1>7, <1>8, <1>9, <1>10, StepOfRun DEF World

\* What serves, or is on the branch, stays so as long as cycles go on.
LEMMA ServedMayServe ==
    ASSUME IInv, UNCHANGED cycle
    PROVE  /\ UNCHANGED serving => MayServe(serving)'
           /\ UNCHANGED head => MayServe(head)'
           /\ serving \in Releases /\ head \in Releases
    BY DEF IInv, OnlyThePromotedIsReleased, MayServe, TypeOK

LEMMA PromoteSourceKeeps ==
    ASSUME IInv, NEW n \in Runs, PromoteSource(n)
    PROVE  IInv'
<1> DEFINE f == flows[n].item
<1>1. /\ flows[n].pc = "execute" /\ flows[n].at = "promoted" /\ Promoting(n)
      /\ "sourced" \in Places /\ "undoing" \in Places /\ UNCHANGED <<about, cycle, serving, echoed>>
    BY DEF PromoteSource, At, Places, Promoting, tables
<1>2. /\ PromotionFits(n) /\ f \in Items /\ f \in Releases /\ cycle[f] \in Released
      /\ MayServe(serving)' /\ serving \in Releases /\ head \in Releases
    BY <1>1, ExecutorFits, ServedMayServe
<1>3. CASE head' = f /\ Goto(n, "sourced")
    <2>1. /\ flows' \in [Runs -> Flow]
          /\ \A m \in Runs : m # n => flows'[m] = flows[m]
          /\ flows'[n].pc = "execute" /\ flows'[n].at = "sourced" /\ flows'[n].item = f
        BY <1>1, <1>3, GotoTyped DEF IInv
    <2>2. MayServe(head)'
        BY <1>1, <1>2, <1>3 DEF MayServe
    <2>3. PromotionFits(n)'
        BY <1>1, <1>2, <1>3, <2>1 DEF PromotionFits, Alone
    <2> QED
        BY <1>1, <1>2, <1>3, <2>1, <2>2, <2>3, ServingMoves DEF PromoteSource
<1>4. CASE UNCHANGED head /\ Goto(n, "undoing")
    <2>1. /\ flows' \in [Runs -> Flow]
          /\ \A m \in Runs : m # n => flows'[m] = flows[m]
          /\ flows'[n].pc = "execute" /\ flows'[n].at = "undoing" /\ flows'[n].item = f
        BY <1>1, <1>4, GotoTyped DEF IInv
    <2>2. MayServe(head)'
        BY <1>1, <1>4, ServedMayServe
    <2>3. PromotionFits(n)'
        BY <1>1, <1>2, <1>4, <2>1 DEF PromotionFits, Alone
    <2> QED
        BY <1>1, <1>2, <1>4, <2>1, <2>2, <2>3, ServingMoves DEF PromoteSource
<1> QED
    BY <1>3, <1>4 DEF PromoteSource

LEMMA RegisterKeeps ==
    ASSUME IInv, NEW n \in Runs, Register(n)
    PROVE  IInv'
<1> DEFINE f == flows[n].item
<1>1. /\ flows[n].pc = "execute" /\ flows[n].at = "sourced" /\ Promoting(n)
      /\ UNCHANGED <<tables, rival, serving, head, echoed, mishaps>>
    BY DEF Register, At, Promoting
<1>2. PromotionFits(n) /\ f \in Items
    BY <1>1, ExecutorFits
<1>3. PICK place \in {"registered", "undoing"} : Goto(n, place)
    BY DEF Register
<1>4. place \in Places
    BY DEF Places
<1>5. /\ flows' \in [Runs -> Flow]
      /\ \A m \in Runs : m # n => flows'[m] = flows[m]
      /\ flows'[n].pc = "execute" /\ flows'[n].at = place /\ flows'[n].item = f
    BY <1>1, <1>3, <1>4, GotoTyped DEF IInv
<1>6. released' \subseteq Items
    BY <1>2 DEF Register, IInv, TypeOK
<1>7. Quiet(n)
    BY <1>1, <1>5, <1>6 DEF Quiet, Still, tables, IInv, TypeOK
<1>8. PromotionFits(n)'
    BY <1>1, <1>2, <1>5 DEF PromotionFits, Alone, tables
<1> QED
    BY <1>1, <1>5, <1>7, <1>8, ExecutionGoesOn

LEMMA ServeReleaseKeeps ==
    ASSUME IInv, NEW n \in Runs, ServeRelease(n)
    PROVE  IInv'
<1> DEFINE f == flows[n].item
<1>1. /\ flows[n].pc = "execute" /\ flows[n].at = "registered" /\ Promoting(n)
      /\ "undoing" \in Places /\ "begun" \in Places /\ serving' = f
      /\ UNCHANGED <<tables, rival, head, released, echoed, mishaps>>
    BY DEF ServeRelease, At, Places, Promoting
<1>2. /\ PromotionFits(n) /\ f \in Items /\ f \in Releases /\ cycle[f] \in Released
      /\ MayServe(head)' /\ head \in Releases /\ flows[n] \in Flow
    BY <1>1, ExecutorFits, ServedMayServe DEF tables
<1>3. MayServe(serving)'
    BY <1>1, <1>2 DEF MayServe, tables
<1>4. CASE flows' = [flows EXCEPT ![n].pc = "soak", ![n].at = "begun"]
    <2> DEFINE w == [flows[n] EXCEPT !.pc = "soak", !.at = "begun"]
    <2>1. w \in Flow /\ w.pc = "soak" /\ w.at = "begun" /\ w.item = f
        BY <1>1, <1>2 DEF Flow
    <2>2. Becomes(n, w)
        BY <1>4 DEF Becomes
    <2> HIDE DEF w
    <2>3. /\ flows' \in [Runs -> Flow] /\ flows'[n] = w
          /\ \A m \in Runs : m # n => flows'[m] = flows[m]
        BY <2>1, <2>2, OneFlowMoves DEF IInv
    <2>4. PromotionFits(n)'
        BY <1>1, <1>2, <2>1, <2>3 DEF PromotionFits, Alone, tables
    <2> QED
        BY <1>1, <1>2, <1>3, <2>1, <2>3, <2>4, ServingMoves
<1>5. CASE Goto(n, "undoing")
    <2>1. /\ flows' \in [Runs -> Flow]
          /\ \A m \in Runs : m # n => flows'[m] = flows[m]
          /\ flows'[n].pc = "execute" /\ flows'[n].at = "undoing" /\ flows'[n].item = f
        BY <1>1, <1>5, GotoTyped DEF IInv
    <2>2. PromotionFits(n)'
        BY <1>1, <1>2, <2>1 DEF PromotionFits, Alone, tables
    <2> QED
        BY <1>1, <1>2, <1>3, <2>1, <2>2, ServingMoves
<1> QED
    BY <1>4, <1>5 DEF ServeRelease

\* To the way back, from wherever the promotion has come to.
LEMMA WayBackKeeps ==
    ASSUME IInv, NEW n \in Runs, NEW place \in {"undoing", "restoring"}, Goto(n, place),
           flows[n].pc = "execute", Promoting(n), UNCHANGED <<tables, world, mishaps>>
    PROVE  IInv'
<1>1. place \in Places
    BY DEF Places
<1>2. /\ Quiet(n) /\ flows'[n].pc = "execute" /\ flows'[n].at = place
      /\ flows'[n].item = flows[n].item
    BY <1>1, GotoTyped, QuietlyFlows DEF IInv
<1>3. PromotionFits(n)
    BY ExecutorFits
<1>4. PromotionFits(n)'
    BY <1>2, <1>3 DEF PromotionFits, Alone, tables, world
<1> QED
    BY <1>2, <1>4, ExecutionGoesOn

LEMMA FailPromotionKeeps ==
    ASSUME IInv, NEW n \in Runs, FailPromotion(n)
    PROVE  IInv'
    BY WayBackKeeps DEF FailPromotion, At, Promoting

LEMMA UndoPromotionKeeps ==
    ASSUME IInv, NEW n \in Runs, UndoPromotion(n)
    PROVE  IInv'
<1>1. flows[n].pc = "execute" /\ Promoting(n)
    BY DEF UndoPromotion, At, Promoting
<1> QED
    BY <1>1, WayBackKeeps, EndKeeps DEF UndoPromotion

\* The soak starts with what is promoted, served and on the branch.
LEMMA StartSoakKeeps ==
    ASSUME IInv, NEW n \in Runs, StartSoak(n)
    PROVE  IInv'
<1> DEFINE f == flows[n].item
<1>1. /\ flows[n].pc = "soak" /\ flows[n].at = "begun" /\ Promoting(n)
      /\ "restoring" \in Places /\ UNCHANGED <<about, windows, diagnosis, trigger, world, mishaps>>
    BY DEF StartSoak, At, Promoting, Places
<1>2. f \in Items /\ PromotionFits(n)
    BY <1>1, ExecutorFits
<1>3. CASE End(n) /\ UNCHANGED cycle
    BY <1>1, <1>3, EndKeeps DEF tables
<1>4. CASE /\ cycle[f] = "PROMOTED" /\ cycle' = [cycle EXCEPT ![f] = "SOAKING"]
           /\ Goto(n, "restoring")
    <2>1. /\ "SOAKING" \in Stages /\ "SOAKING" \in Proposed /\ "SOAKING" \in Released
          /\ "SOAKING" \in Promoted /\ "PROMOTED" \in Active /\ "SOAKING" # "BLOCKED"
        BY DEF Stages, Proposed, Active, Promoted, Released
    <2>2. /\ flows' \in [Runs -> Flow]
          /\ \A m \in Runs : m # n => flows'[m] = flows[m]
          /\ flows'[n].pc = "soak" /\ flows'[n].at = "restoring" /\ flows'[n].item = f
        BY <1>1, <1>4, GotoTyped DEF IInv
    <2>3. World' /\ AboutStays /\ CyclesGoOn
        BY <1>1, <1>2, <1>4, <2>1, CycleMoves DEF world
    <2>4. \A m \in Runs : m # n => Undisturbed(m)
        BY <1>1 DEF IInv, OneRunPromotes, Undisturbed, Alone, world
    <2>5. TypeOK'
        BY <1>1, <1>2, <1>4, <2>1, <2>2 DEF IInv, TypeOK, world
    <2>6. cycle'[f] = "SOAKING"
        BY <1>2, <1>4 DEF IInv, TypeOK
    <2>7. ItemFits(n)' /\ StageFits(n)'
        BY <1>1, <2>1, <2>2, <2>3, <2>6, ExecutorGoesOn
    <2>8. PromotionFits(n)'
        BY <1>1, <1>2, <2>2, <2>6 DEF PromotionFits, Alone, world
    <2> QED
        BY <1>1, <2>2, <2>3, <2>4, <2>5, <2>7, <2>8, StepOfRun
<1> QED
    BY <1>3, <1>4 DEF StartSoak

LEMMA LoseReleaseKeeps ==
    ASSUME IInv, NEW n \in Runs, LoseRelease(n)
    PROVE  IInv'
    BY EndKeeps DEF LoseRelease

LEMMA RestoreServingKeeps ==
    ASSUME IInv, NEW n \in Runs, RestoreServing(n)
    PROVE  IInv'
<1> DEFINE f == flows[n].item
<1>1. /\ flows[n].pc \in {"execute", "soak"} /\ flows[n].at = "restoring" /\ Promoting(n)
      /\ "unserved" \in Places /\ UNCHANGED <<tables, rival, head, released, echoed, mishaps>>
      /\ serving' = about[f]
    BY DEF RestoreServing, Back, Places, Promoting
<1>2. /\ PromotionFits(n) /\ f \in Items /\ about[f] \in Releases /\ MayServe(about[f])
      /\ MayServe(head)' /\ head \in Releases
    BY <1>1, ExecutorFits, ServedMayServe DEF tables
<1>3. /\ flows' \in [Runs -> Flow]
      /\ \A m \in Runs : m # n => flows'[m] = flows[m]
      /\ flows'[n].pc = flows[n].pc /\ flows'[n].at = "unserved" /\ flows'[n].item = f
    BY <1>1, GotoTyped DEF RestoreServing, IInv
<1>4. MayServe(serving)'
    BY <1>1, <1>2 DEF MayServe, tables
<1>5. PromotionFits(n)'
    BY <1>1, <1>2, <1>3 DEF PromotionFits, Alone, tables
<1> QED
    BY <1>1, <1>2, <1>3, <1>4, <1>5, ServingMoves

LEMMA RestoreSourceKeeps ==
    ASSUME IInv, NEW n \in Runs, RestoreSource(n)
    PROVE  IInv'
<1> DEFINE f == flows[n].item
<1>1. /\ flows[n].pc \in {"execute", "soak"} /\ flows[n].at = "unserved" /\ Promoting(n)
      /\ "restored" \in Places /\ UNCHANGED <<tables, rival, serving, released, echoed, mishaps>>
    BY DEF RestoreSource, Back, Places, Promoting
<1>2. /\ PromotionFits(n) /\ f \in Items /\ about[f] \in Releases /\ MayServe(about[f])
      /\ MayServe(serving)' /\ serving \in Releases
    BY <1>1, ExecutorFits, ServedMayServe DEF tables
<1>3. CASE UNCHANGED head /\ End(n)
    BY <1>1, <1>3, EndKeeps DEF world
<1>4. CASE head' = about[f] /\ Goto(n, "restored")
    <2>1. /\ flows' \in [Runs -> Flow]
          /\ \A m \in Runs : m # n => flows'[m] = flows[m]
          /\ flows'[n].pc = flows[n].pc /\ flows'[n].at = "restored" /\ flows'[n].item = f
        BY <1>1, <1>4, GotoTyped DEF IInv
    <2>2. MayServe(head)'
        BY <1>1, <1>2, <1>4 DEF MayServe, tables
    <2>3. PromotionFits(n)'
        BY <1>1, <1>2, <1>4, <2>1 DEF PromotionFits, Alone, tables
    <2> QED
        BY <1>1, <1>2, <1>4, <2>1, <2>2, <2>3, ServingMoves
<1> QED
    BY <1>3, <1>4 DEF RestoreSource

\* A run that is alone ends its cycle with branch and catalog in agreement.
LEMMA EndCycleKeeps ==
    ASSUME IInv, NEW n \in Runs, EndCycle(n)
    PROVE  IInv'
<1> DEFINE f == flows[n].item
<1>1. /\ flows[n].pc \in {"execute", "soak"} /\ Promoting(n) /\ End(n)
      /\ UNCHANGED <<about, windows, diagnosis, trigger, world, mishaps>>
      /\ flows[n].at = "restored" \/ (flows[n].pc = "soak" /\ flows[n].at = "restoring")
    BY DEF EndCycle, Back, At, Promoting
<1>2. f \in Items /\ PromotionFits(n)
    BY <1>1, ExecutorFits
<1>3. CASE UNCHANGED cycle
    BY <1>1, <1>3, EndKeeps DEF tables
<1>4. CASE cycle[f] \in {"PROMOTED", "SOAKING"} /\ cycle' = [cycle EXCEPT ![f] = "ended"]
    <2>1. Alone => head = serving
        BY <1>1, <1>2 DEF PromotionFits
    <2>2. /\ flows' \in [Runs -> Flow]
          /\ \A m \in Runs : m # n => flows'[m] = flows[m]
          /\ flows'[n].pc = "idle"
        BY <1>1, EndTyped DEF IInv
    <2>3. /\ "ended" \in Stages /\ "ended" \in Proposed /\ "ended" \in Released
          /\ "ended" \notin Active /\ "ended" # "BLOCKED"
        BY DEF Stages, Proposed, Active, Released
    <2>4. World' /\ AboutStays /\ CyclesGoOn
        BY <1>1, <1>2, <1>4, <2>1, <2>3, CycleMoves DEF world
    <2>5. \A m \in Runs : m # n => Undisturbed(m)
        BY <1>1 DEF IInv, OneRunPromotes, Undisturbed, Alone, world
    <2>6. TypeOK'
        BY <1>1, <1>2, <1>4, <2>2, <2>3 DEF IInv, TypeOK, world
    <2>7. ItemFits(n)' /\ StageFits(n)' /\ ~Promoting(n)' /\ PromotionFits(n)'
        BY <2>2 DEF ItemFits, StageFits, Promoting, PromotionFits, Executing
    <2> QED
        BY <2>2, <2>4, <2>5, <2>6, <2>7, StepOfRun
<1> QED
    BY <1>3, <1>4 DEF EndCycle

----------------------------------------------------------------------------
\* Feedback, operators, and the restart of all runs.

LEMMA SubmitKeeps ==
    ASSUME IInv, NEW f \in Items, Submit(f)
    PROVE  IInv'
<1> DEFINE served == {0} \cup {g \in Items : cycle[g] \in Proposed \ {"CHANGE_PROPOSED"}}
<1>0. served \subseteq Releases
    <2>1. 0 \in Releases /\ \A g \in Items : g \in Releases
        BY FeedbackAutonomyAssumption DEF Items, Releases
    <2> QED
        BY <2>1
<1>a. \E r \in served : about' = [about EXCEPT ![f] = r]
    BY DEF Submit
<1> HIDE DEF served
<1>1. PICK r \in Releases : about' = [about EXCEPT ![f] = r]
    BY <1>0, <1>a
<1>2. about[f] = Nowhere /\ about \in [Items -> Releases \cup {Nowhere}]
    BY DEF Submit, IInv, TypeOK
<1>3. AboutStays
    BY <1>1, <1>2 DEF AboutStays, Alone, Submit, world
<1>4. TypeOK'
    BY <1>1, <1>2 DEF IInv, TypeOK, Submit, world
<1>5. CyclesGoOn /\ \A m \in Runs : Undisturbed(m) /\ flows'[m] = flows[m]
    BY DEF Submit, world, CyclesGoOn, Undisturbed
<1>6. /\ OneActiveCycle' /\ BranchIsServed' /\ BlockedForConfidence' /\ TriggersTellTheTruth'
      /\ OnlyThePromotedIsReleased'
    BY DEF IInv, OneActiveCycle, ActiveItems, BranchIsServed, BlockedForConfidence,
           TriggersTellTheTruth, OnlyThePromotedIsReleased, Alone, Submit, world
<1>7. OnlyTheServingIsImproved'
    BY <1>3, ServedIsSomewhere DEF IInv, OnlyTheServingIsImproved, AboutStays, Submit, world
<1>8. RunsFit' /\ OneRunPromotes'
    BY <1>3, <1>5, OthersFit DEF RunsFit, OneRunPromotes, Promoting, AboutStays, IInv
<1> QED
    BY <1>4, <1>6, <1>7, <1>8 DEF IInv

LEMMA RivalKeeps ==
    ASSUME IInv, RivalBegins \/ RivalEnds
    PROVE  IInv'
<1>1. UNCHANGED <<tables, serving, head, released, echoed, flows, mishaps>>
    BY DEF RivalBegins, RivalEnds
<1>2. TypeOK'
    BY <1>1 DEF IInv, TypeOK, tables, RivalBegins, RivalEnds
<1>3. OneActiveCycle'
    BY <1>1 DEF IInv, OneActiveCycle, ActiveItems, TargetFree, tables, RivalBegins, RivalEnds
<1>4. /\ BranchIsServed' /\ BlockedForConfidence' /\ TriggersTellTheTruth'
      /\ OnlyTheServingIsImproved' /\ OnlyThePromotedIsReleased'
    BY <1>1 DEF IInv, BranchIsServed, BlockedForConfidence, TriggersTellTheTruth,
                OnlyTheServingIsImproved, OnlyThePromotedIsReleased, Alone, tables
<1>5. AboutStays /\ CyclesGoOn /\ \A m \in Runs : Undisturbed(m) /\ flows'[m] = flows[m]
    BY <1>1 DEF tables, AboutStays, CyclesGoOn, Undisturbed, Alone
<1>6. RunsFit' /\ OneRunPromotes'
    BY <1>1, <1>5, OthersFit DEF RunsFit, OneRunPromotes, Promoting, AboutStays, IInv
<1> QED
    BY <1>2, <1>3, <1>4, <1>6 DEF IInv

\* Prepare steps begin once more; executions and soaks go on where they are.
LEMMA RestartKeeps ==
    ASSUME IInv, Restart
    PROVE  IInv'
<1>1. /\ UNCHANGED <<tables, world>> /\ mishaps' \in 0 .. MaxMishaps
      /\ flows' = [n \in Runs |-> IF flows[n].pc = "prepare" THEN Begun(n, 1) ELSE flows[n]]
    BY FeedbackAutonomyAssumption DEF Restart, MayDisturb, IInv, TypeOK
<1>2. ASSUME NEW n \in Runs
      PROVE  /\ flows[n].pc = "prepare" => flows'[n] \in Flow /\ Left(n)'
             /\ flows[n].pc # "prepare" => flows'[n] \in Flow /\ flows'[n] = flows[n]
    <2>1. 1 \in 1 .. PrepareAttempts
        BY FeedbackAutonomyAssumption
    <2> QED
        BY <1>1, <2>1, BegunTyped, FlowsTyped DEF Left, IInv
<1>3. TypeOK'
    <2>1. flows' \in [Runs -> Flow]
        BY <1>1, <1>2
    <2> QED
        BY <1>1, <2>1 DEF IInv, TypeOK, tables, world
<1>4. Still
    BY <1>1 DEF Still, tables, world
<1>5. World' /\ AboutStays /\ CyclesGoOn /\ \A m \in Runs : Undisturbed(m)
    BY <1>4, StillKeepsWorld
<1>6. ASSUME NEW n \in Runs
      PROVE  ItemFits(n)' /\ StageFits(n)' /\ PromotionFits(n)' /\ (Promoting(n)' => Promoting(n))
    <2>1. CASE flows[n].pc = "prepare"
        <3>1. Left(n)'
            BY <1>2, <2>1
        <3> QED
            BY <3>1 DEF Left, ItemFits, StageFits, PromotionFits, Promoting, Taken, Executing
    <2>2. CASE flows[n].pc # "prepare"
        <3>1. flows'[n] = flows[n]
            BY <1>2, <2>2
        <3> QED
            BY <1>5, <3>1, OthersFit DEF Promoting
    <2> QED
        BY <2>1, <2>2
<1>7. RunsFit' /\ OneRunPromotes'
    BY <1>5, <1>6 DEF RunsFit, OneRunPromotes, AboutStays, IInv
<1> QED
    BY <1>3, <1>5, <1>7 DEF IInv, World

----------------------------------------------------------------------------
LEMMA InitIInv == Init => IInv
<1> SUFFICES ASSUME Init PROVE IInv
    OBVIOUS
<1>1. TypeOK
    <2>1. 0 \in Releases /\ 0 \in 0 .. MaxMishaps /\ "absent" \in Stages
        BY FeedbackAutonomyAssumption DEF Releases, Stages
    <2> QED
        BY <2>1, NoFlowTyped DEF Init, TypeOK
<1>2. OneActiveCycle /\ BranchIsServed /\ BlockedForConfidence
    BY StagesAreDistinct DEF Init, OneActiveCycle, ActiveItems, BranchIsServed, BlockedForConfidence
<1>3. TriggersTellTheTruth /\ OnlyTheServingIsImproved
    BY StagesAreDistinct DEF Init, TriggersTellTheTruth, OnlyTheServingIsImproved
<1>4. OnlyThePromotedIsReleased
    BY FeedbackAutonomyAssumption DEF Init, OnlyThePromotedIsReleased, Items
<1>5. \A n \in Runs : flows[n].pc = "idle"
    BY NoFlowTyped DEF Init
<1>6. RunsFit /\ OneRunPromotes
    BY <1>5 DEF RunsFit, OneRunPromotes, Promoting, ItemFits, StageFits, PromotionFits, Executing
<1> QED
    BY <1>1, <1>2, <1>3, <1>6, <1>4 DEF IInv

LEMMA PrepareKeeps ==
    ASSUME IInv, NEW n \in Runs, Prepare(n)
    PROVE  IInv'
    BY ReadActiveKeeps, ReadServingKeeps, SelectKeeps, LookUpWindowKeeps, AddWindowKeeps,
       ReadCycleKeeps, CreateCycleKeeps, VerifyBaselineKeeps, BindEvidenceKeeps,
       LookUpDiagnosisKeeps, AddDiagnosisKeeps, BindDiagnosisKeeps, JudgeKeeps, ConcludeKeeps,
       RecordPreparedKeeps, RecordBlockedKeeps, RecordKeeps DEF Prepare

LEMMA ExecuteKeeps ==
    ASSUME IInv, NEW n \in Runs, Execute(n)
    PROVE  IInv'
    BY DevelopKeeps, ImplementKeeps, OutOfStepKeeps, AbandonKeeps, PromoteKeeps,
       PromoteSourceKeeps, RegisterKeeps, ServeReleaseKeeps, FailPromotionKeeps,
       UndoPromotionKeeps, StartSoakKeeps, LoseReleaseKeeps, RestoreServingKeeps,
       RestoreSourceKeeps, EndCycleKeeps DEF Execute

LEMMA StutterKeeps ==
    ASSUME IInv, UNCHANGED vars
    PROVE  IInv'
<1>1. TypeOK'
    BY DEF vars, IInv, TypeOK
<1>2. Still /\ \A m \in Runs : flows'[m] = flows[m]
    BY DEF vars, Still
<1>3. World' /\ AboutStays /\ CyclesGoOn /\ \A m \in Runs : Undisturbed(m)
    BY <1>2, StillKeepsWorld
<1>4. RunsFit' /\ OneRunPromotes'
    BY <1>2, <1>3, OthersFit DEF RunsFit, OneRunPromotes, Promoting, AboutStays, IInv
<1> QED
    BY <1>1, <1>3, <1>4 DEF IInv, World

LEMMA NextIInv == IInv /\ [Next]_vars => IInv'
<1> SUFFICES ASSUME IInv, [Next]_vars PROVE IInv'
    OBVIOUS
<1>1. CASE UNCHANGED vars
    BY <1>1, StutterKeeps
<1>2. CASE \E f \in Items : Submit(f)
    BY <1>2, SubmitKeeps
<1>3. CASE RivalBegins \/ RivalEnds
    BY <1>3, RivalKeeps
<1>4. CASE \E n \in Runs : Tick(n) \/ Prepare(n) \/ Execute(n) \/ Fail(n)
    BY <1>4, TickKeeps, PrepareKeeps, ExecuteKeeps, FailKeeps
<1>5. CASE Restart
    BY <1>5, RestartKeeps
<1> QED
    BY <1>1, <1>2, <1>3, <1>4, <1>5 DEF Next

\* The invariant holds of every reachable state: what the other theorems rest on.
THEOREM Inductive == Spec => []IInv
    BY InitIInv, NextIInv, PTL DEF Spec

\* Every table and every run keeps its shape, however ticks overlap, fail and are repeated.
THEOREM Typing == Spec => []TypeOK
    BY Inductive, PTL DEF IInv

\* Feedback is consumed only by a cycle with a proposal, or by one that is blocked for want
\* of confidence, also when ticks prepare the same cycle from stale copies of it.
THEOREM TriggersAreTrue == Spec => []TriggersTellTheTruth
    BY Inductive, PTL DEF IInv

\* From its verified baseline to its promotion a cycle stands on feedback about the release
\* that serves and that the default branch holds, as long as no second execution of a cycle
\* has been told of its promotion.
THEOREM ServingIsImproved == Spec => []OnlyTheServingIsImproved
    BY Inductive, PTL DEF IInv

\* Branch and catalog hold what was bootstrapped or promoted, also when several executions of
\* a cycle promote it, roll it back and merge it again on their own.
THEOREM PromotedIsReleased == Spec => []OnlyThePromotedIsReleased
    BY Inductive, PTL DEF IInv
=============================================================================
