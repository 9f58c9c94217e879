--------------------------- MODULE FeedbackAutonomy ---------------------------
(***************************************************************************)
(* The feedback loop of one target: scheduled_feedback_tick starts a       *)
(* FeedbackAutonomyWorkflow every few minutes, which picks one piece of    *)
(* feedback about the serving release, prepares a cycle for it (evidence   *)
(* window, diagnosis, proposal), and runs the cycle's execution and soak.  *)
(* A tick does not wait for the ticks before it: they overlap.             *)
(*                                                                         *)
(* In the prepare step, which DBOS retries and repeats after a restart,    *)
(* every access to the database is an action.  The execution and the soak  *)
(* have their own modules (IterationWorkflow, PostPromotionSoak); here     *)
(* they are what they do to the cycle, the branch and the catalog, step by *)
(* step, for two ticks that prepared one cycle both execute it.  The two   *)
(* share every operation id: one that read the cycle before the other      *)
(* moved it is answered by the receipt of that move, and goes on with it.  *)
(*                                                                         *)
(* An item stands for feedback that meets the trigger policy, old enough   *)
(* to be eligible, numbered in the order it was received.  The identities  *)
(* of window, cycle, diagnosis and proposal are a digest of target,        *)
(* release and item, and an item is about one release: they are named by   *)
(* the item.  The release a cycle makes is named by its item too.          *)
(***************************************************************************)
EXTENDS Integers, FiniteSets

CONSTANTS
    MaxItems,           \* bound: pieces of feedback
    Runs,               \* bound: the ticks that may overlap, as slots used again and again
    PrepareAttempts,    \* max_attempts of the prepare step (3 in the code)
    Verdicts,           \* what diagnoses may say: subset of {"low", "enough", "outside"}
    MaxMishaps          \* bound: restarts, failing steps and operators' cycles, together

ASSUME FeedbackAutonomyAssumption ==
    /\ MaxItems \in Nat \ {0}
    /\ PrepareAttempts \in Nat \ {0}
    /\ Verdicts \subseteq {"low", "enough", "outside"}
    /\ MaxMishaps \in Nat

VARIABLES
    about,      \* [Items -> Releases \cup {Nowhere}]: the table user_feedback
    windows,    \* the items with an evidence window
    diagnosis,  \* [Items -> Verdicts \cup {"none"}]: the table diagnoses
    cycle,      \* [Items -> Stages]: the cycles made for feedback
    trigger,    \* [Items -> Outcomes \cup {"none"}]: the table feedback_iteration_triggers
    rival,      \* an operator's cycle on the target: "none", "active", "ended"
    serving,    \* the release catalog's serving release
    head,       \* the release whose source the default branch holds
    released,   \* the releases that cycles have registered in the catalog
    echoed,     \* history: the cycles whose promotion a second execution was told of as well
    flows,      \* [Runs -> Flow]: the workflow of a tick
    mishaps     \* restarts and failing steps so far

vars == <<about, windows, diagnosis, cycle, trigger, rival, serving, head, released,
          echoed, flows, mishaps>>

----------------------------------------------------------------------------
Items == 1 .. MaxItems
Releases == 0 .. MaxItems           \* 0: the one bootstrapped
Nowhere == -1
NoItem == 0

Preparing == {"NEW", "BASELINE_VERIFIED", "EVIDENCE_READY", "DIAGNOSED"}

\* DEVELOPING stands for all from there to PROMOTION_READY; a cycle that ends before it is
\* promoted is REJECTED, one that ends after it, completed or rolled back, is ended.
Released == {"PROMOTED", "SOAKING", "ended"}
Proposed == {"CHANGE_PROPOSED", "DEVELOPING", "REJECTED"} \cup Released
Stages == {"absent", "BLOCKED"} \cup Preparing \cup Proposed
Active == Stages \ {"absent", "BLOCKED", "REJECTED", "ended"}
Outcomes == {"prepared", "blocked-low-confidence"}

ActiveItems == {f \in Items : cycle[f] \in Active}
TargetFree == ActiveItems = {} /\ rival # "active"

\* A run: pc is the step DBOS runs next, at the place in it, next where a finished prepare
\* leads; the rest are local variables.  busy is the active cycle the tick saw, up to the
\* selection: an item, NoItem for none, Rival for the operator's.
Rival == -1
NoFlow == [pc |-> "idle", at |-> "begun", next |-> "idle", tries |-> 1, upto |-> 0,
           busy |-> NoItem, release |-> 0, item |-> NoItem, stage |-> "absent"]

At(n, pc, place) == flows[n].pc = pc /\ flows[n].at = place
Goto(n, place) == flows' = [flows EXCEPT ![n].at = place]

\* With the cycle as it was read, or as a transition has returned it; "absent" when the copy
\* is not looked at any more.
GotoWith(n, place, stage) == flows' = [flows EXCEPT ![n].at = place, ![n].stage = stage]

\* The prepare step begins once more, with the scheduled time it has.
Begun(n, tries) == [NoFlow EXCEPT !.pc = "prepare", !.tries = tries, !.upto = flows[n].upto]

\* An exception in the prepare step: DBOS tries it again, or the run ends in the error.
Raise(n) ==
    flows' = [flows EXCEPT ![n] =
                IF flows[n].tries < PrepareAttempts THEN Begun(n, flows[n].tries + 1)
                ELSE [NoFlow EXCEPT !.pc = "prepare", !.at = "returned"]]

Return(n, next) ==
    flows' = [flows EXCEPT ![n] =
                [NoFlow EXCEPT !.pc = "prepare", !.at = "returned", !.next = next,
                               !.upto = flows[n].upto,
                               !.item = IF next = "idle" THEN NoItem ELSE flows[n].item]]

\* Something may still disturb the ticks: a restart, a failing step, or an operator, once.
MayDisturb == mishaps + (IF rival = "none" THEN 0 ELSE 1) < MaxMishaps

tables == <<about, windows, diagnosis, cycle, trigger>>
world == <<rival, serving, head, released, echoed>>

----------------------------------------------------------------------------
\* Feedback, operators and the clock.

\* FeedbackService.ingest attributes feedback to a release that has had traffic, be it as
\* a candidate.
Submit(f) ==
    /\ about[f] = Nowhere
    /\ \A g \in Items : g < f => about[g] # Nowhere
    /\ \E r \in {0} \cup {g \in Items : cycle[g] \in Proposed \ {"CHANGE_PROPOSED"}} :
         about' = [about EXCEPT ![f] = r]
    /\ UNCHANGED <<windows, diagnosis, cycle, trigger, world, flows, mishaps>>

RivalBegins ==
    /\ rival = "none" /\ TargetFree /\ MayDisturb
    /\ rival' = "active"
    /\ UNCHANGED <<tables, serving, head, released, echoed, flows, mishaps>>

RivalEnds ==
    /\ rival = "active"
    /\ rival' = "ended"
    /\ UNCHANGED <<tables, serving, head, released, echoed, flows, mishaps>>

\* scheduled_feedback_tick: the items eligible at its scheduled time are settled.
Tick(n) ==
    /\ flows[n].pc = "idle"
    /\ flows' = [flows EXCEPT ![n] =
                   [NoFlow EXCEPT !.pc = "prepare",
                                  !.upto = Cardinality({f \in Items : about[f] # Nowhere})]]
    /\ UNCHANGED <<tables, world, mishaps>>

----------------------------------------------------------------------------
\* prepare_next, up to the evidence window.

ReadActive(n) ==
    /\ At(n, "prepare", "begun")
    /\ \E busy \in IF TargetFree THEN {NoItem}
                   ELSE IF rival = "active" THEN {Rival} ELSE ActiveItems :
         flows' = [flows EXCEPT ![n].at = "looked", ![n].busy = busy]
    /\ UNCHANGED <<tables, world, mishaps>>

ReadServing(n) ==
    /\ At(n, "prepare", "looked")
    /\ flows' = [flows EXCEPT ![n].at = "served", ![n].release = serving]
    /\ UNCHANGED <<tables, world, mishaps>>

\* list_attributable, within what the tick may see.
Candidates(n) == {f \in 1 .. flows[n].upto : about[f] = flows[n].release}
Earliest(fs) == {f \in fs : \A g \in fs : f <= g}

\* Faulty variant: only the first candidate is looked at.
SelectedFirst(n) == {f \in Earliest(Candidates(n)) : trigger[f] = "none"}

\* _select_feedback: the earliest candidate without a trigger.
Selected(n) == Earliest({f \in Candidates(n) : trigger[f] = "none"})

\* Nothing to do, or the target is busy with another cycle, or a piece of feedback is taken.
Select(n) ==
    /\ At(n, "prepare", "served")
    /\ IF \E f \in Selected(n) : flows[n].busy \in {NoItem, f}
         THEN \E f \in Selected(n) :
                flows' = [flows EXCEPT ![n].at = "selected", ![n].busy = NoItem, ![n].item = f]
         ELSE Return(n, "idle")
    /\ UNCHANGED <<tables, world, mishaps>>

\* EvidenceWindowService.close: a window of this identity is taken as it is; otherwise the
\* serving release is read again, and the feedback has to be about it.
LookUpWindow(n) ==
    /\ At(n, "prepare", "selected")
    /\ IF flows[n].item \in windows THEN Goto(n, "closed")
       ELSE IF about[flows[n].item] = serving THEN Goto(n, "closing")
       ELSE Raise(n)
    /\ UNCHANGED <<tables, world, mishaps>>

\* Faulty variant: the feedback is consumed with its window, before there is a proposal.
AddWindowAndTrigger(n) ==
    /\ At(n, "prepare", "closing")
    /\ windows' = windows \cup {flows[n].item}
    /\ trigger' = [trigger EXCEPT ![flows[n].item] = "prepared"]
    /\ Goto(n, "closed")
    /\ UNCHANGED <<about, diagnosis, cycle, world, mishaps>>

\* The insert: telemetry collected at another moment makes a window of other content, which
\* the repository refuses for an identity it has.
AddWindow(n) ==
    /\ At(n, "prepare", "closing")
    /\ \/ windows' = windows \cup {flows[n].item} /\ Goto(n, "closed")
       \/ flows[n].item \in windows /\ Raise(n) /\ UNCHANGED windows
    /\ UNCHANGED <<about, diagnosis, cycle, trigger, world, mishaps>>

----------------------------------------------------------------------------
\* IterationService.prepare_from_evidence.

\* The cycle may be there from an earlier, interrupted preparation.
ReadCycle(n) ==
    LET stage == cycle[flows[n].item]
    IN /\ At(n, "prepare", "closed")
       /\ CASE stage = "absent"    -> Goto(n, "creating")
            [] stage \in Proposed  -> Goto(n, "prepared")
            [] stage = "BLOCKED"   -> Goto(n, "insufficient")
            [] stage \in Preparing -> GotoWith(n, "moving", stage)
       /\ UNCHANGED <<tables, world, mishaps>>

\* CycleService.create.
CreateCycle(n) ==
    /\ At(n, "prepare", "creating")
    /\ IF TargetFree /\ cycle[flows[n].item] = "absent"
         THEN /\ cycle' = [cycle EXCEPT ![flows[n].item] = "NEW"]
              /\ GotoWith(n, "moving", "NEW")
         ELSE Raise(n) /\ UNCHANGED cycle
    /\ UNCHANGED <<about, windows, diagnosis, trigger, world, mishaps>>

\* CycleService.transition at the version of the stage that was read.  The operation id is
\* that of the preparation: when the cycle has moved on, another run of the same preparation
\* moved it, its receipt answers, and the cycle is returned as it is by now.
Move(n, to) ==
    LET f == flows[n].item
        stage == IF cycle[f] = flows[n].stage THEN to ELSE cycle[f]
    IN /\ cycle' = [cycle EXCEPT ![f] = stage]
       /\ GotoWith(n, "moving", stage)

\* Faulty variant: the branch is not compared with the baseline.
TrustBaseline(n) ==
    /\ At(n, "prepare", "moving")
    /\ flows[n].stage = "NEW"
    /\ Move(n, "BASELINE_VERIFIED")
    /\ UNCHANGED <<about, windows, diagnosis, trigger, world, mishaps>>

\* A cycle starts from the branch only where it holds the source of the serving release.
VerifyBaseline(n) ==
    /\ At(n, "prepare", "moving")
    /\ flows[n].stage = "NEW"
    /\ IF head = flows[n].release THEN Move(n, "BASELINE_VERIFIED")
                                  ELSE Raise(n) /\ UNCHANGED cycle
    /\ UNCHANGED <<about, windows, diagnosis, trigger, world, mishaps>>

BindEvidence(n) ==
    /\ At(n, "prepare", "moving")
    /\ flows[n].stage = "BASELINE_VERIFIED"
    /\ Move(n, "EVIDENCE_READY")
    /\ UNCHANGED <<about, windows, diagnosis, trigger, world, mishaps>>

\* DiagnosisService.diagnose: a diagnosis that is there is taken, or a Codex turn begins.
LookUpDiagnosis(n) ==
    /\ At(n, "prepare", "moving")
    /\ flows[n].stage = "EVIDENCE_READY"
    /\ Goto(n, IF diagnosis[flows[n].item] = "none" THEN "diagnosing" ELSE "diagnosed")
    /\ UNCHANGED <<tables, world, mishaps>>

\* DiagnosisService.diagnose from its Codex turn on: an answer that can be read.
Diagnosed(f) == \E verdict \in Verdicts : diagnosis' = [diagnosis EXCEPT ![f] = verdict]

\* The turn ends; where there is a diagnosis by now, one of other content is refused.
AddDiagnosis(n) ==
    LET f == flows[n].item
    IN /\ At(n, "prepare", "diagnosing")
       /\ \/ /\ diagnosis[f] = "none"
             /\ Diagnosed(f)
             /\ Goto(n, "diagnosed")
          \/ /\ diagnosis[f] # "none"
             /\ Raise(n) \/ Goto(n, "diagnosed")
             /\ UNCHANGED diagnosis
       /\ UNCHANGED <<about, windows, cycle, trigger, world, mishaps>>

BindDiagnosis(n) ==
    /\ At(n, "prepare", "diagnosed")
    /\ Move(n, "DIAGNOSED")
    /\ UNCHANGED <<about, windows, diagnosis, trigger, world, mishaps>>

\* A diagnosis below the required confidence blocks the cycle; one that asks for paths
\* outside the objective's policy makes ProposalService raise, each time; any other becomes
\* the proposal.
Judge(n) ==
    LET verdict == diagnosis[flows[n].item]
    IN /\ At(n, "prepare", "moving")
       /\ flows[n].stage = "DIAGNOSED"
       /\ IF verdict = "outside" THEN Raise(n) /\ UNCHANGED cycle
          ELSE Move(n, IF verdict = "low" THEN "BLOCKED" ELSE "CHANGE_PROPOSED")
       /\ UNCHANGED <<about, windows, diagnosis, trigger, world, mishaps>>

\* Where the transitions have led: the preparation is made or refused, or another run has
\* taken the cycle further than a preparation goes.
Conclude(n) ==
    /\ At(n, "prepare", "moving")
    /\ flows[n].stage \notin Preparing
    /\ CASE flows[n].stage = "BLOCKED"         -> GotoWith(n, "insufficient", "absent")
         [] flows[n].stage = "CHANGE_PROPOSED" -> GotoWith(n, "prepared", "absent")
         [] OTHER                              -> Raise(n)
    /\ UNCHANGED <<tables, world, mishaps>>

----------------------------------------------------------------------------
\* The trigger, recorded at last; a receipt that says something else is a conflict.
Consume(n, outcome, next) ==
    LET f == flows[n].item
    IN IF trigger[f] \in {"none", outcome}
         THEN trigger' = [trigger EXCEPT ![f] = outcome] /\ Return(n, next)
         ELSE Raise(n) /\ UNCHANGED trigger

RecordPrepared(n) ==
    /\ At(n, "prepare", "prepared")
    /\ Consume(n, "prepared", "execute")
    /\ UNCHANGED <<about, windows, diagnosis, cycle, world, mishaps>>

RecordBlocked(n) ==
    /\ At(n, "prepare", "insufficient")
    /\ Consume(n, "blocked-low-confidence", "idle")
    /\ UNCHANGED <<about, windows, diagnosis, cycle, world, mishaps>>

\* DBOS records what the prepare step returned, and the run goes on with it or ends.
Record(n) ==
    /\ At(n, "prepare", "returned")
    /\ flows' = [flows EXCEPT ![n] =
                   IF flows[n].next = "execute"
                     THEN [NoFlow EXCEPT !.pc = "execute", !.item = flows[n].item]
                     ELSE NoFlow]
    /\ UNCHANGED <<tables, world, mishaps>>

----------------------------------------------------------------------------
\* The execution (IterationWorkflow) and the soak (PostPromotionSoak) of the cycle.

End(n) == flows' = [flows EXCEPT ![n] = NoFlow]

\* It starts with a proposed cycle, and with one that another execution has begun.
Develop(n) ==
    LET f == flows[n].item
    IN /\ At(n, "execute", "begun")
       /\ cycle[f] \in {"CHANGE_PROPOSED", "DEVELOPING"}
       /\ cycle' = [cycle EXCEPT ![f] = "DEVELOPING"]
       /\ Goto(n, "developing")
       /\ UNCHANGED <<about, windows, diagnosis, trigger, world, mishaps>>

\* engineering.implement makes a candidate on the branch as the proposal knows it only.
Implement(n) ==
    LET f == flows[n].item
    IN /\ At(n, "execute", "developing")
       /\ cycle[f] = "DEVELOPING" /\ head = about[f]
       /\ Goto(n, "developed")
       /\ UNCHANGED <<tables, world, mishaps>>

\* Another execution is, or was, ahead on the way to the promotion.
Overtaken(n) ==
    \/ cycle[flows[n].item] \notin {"CHANGE_PROPOSED", "DEVELOPING"}
    \/ /\ cycle[flows[n].item] = "DEVELOPING"
       /\ \/ mishaps > 0
          \/ \E m \in Runs \ {n} : /\ flows[m].pc = "execute" /\ flows[m].at # "begun"
                                   /\ flows[m].item = flows[n].item

\* Then a step that finds the cycle at another version than the receipt of its operation raises.
OutOfStep(n) ==
    /\ \E place \in {"begun", "developing", "developed"} : At(n, "execute", place)
    /\ Overtaken(n)
    /\ End(n)
    /\ UNCHANGED <<tables, world, mishaps>>

\* The candidate is rejected, fails, or is rolled back ...
Abandon(n) ==
    LET f == flows[n].item
    IN /\ At(n, "execute", "developing") \/ At(n, "execute", "developed")
       /\ cycle[f] = "DEVELOPING"
       /\ cycle' = [cycle EXCEPT ![f] = "REJECTED"]
       /\ End(n)
       /\ UNCHANGED <<about, windows, diagnosis, trigger, world, mishaps>>

\* Faulty variant: what the cycle became meanwhile is not looked at.
PromoteRegardless(n) ==
    LET f == flows[n].item
    IN /\ At(n, "execute", "developed")
       /\ cycle' = IF cycle[f] = "DEVELOPING" THEN [cycle EXCEPT ![f] = "PROMOTED"] ELSE cycle
       /\ echoed' = IF cycle[f] = "DEVELOPING" THEN echoed ELSE echoed \cup {f}
       /\ Goto(n, "promoted")
       /\ UNCHANGED <<about, windows, diagnosis, trigger, rival, serving, head, released, mishaps>>

\* ... or promoted: cycle, then branch, then catalog.  An execution that read the cycle before
\* another promoted it is answered by the receipts of decision and transition, and may be told
\* PROMOTED although the cycle has gone on since.
Promote(n) ==
    LET f == flows[n].item
    IN /\ At(n, "execute", "developed")
       /\ \/ /\ cycle[f] = "DEVELOPING"
             /\ cycle' = [cycle EXCEPT ![f] = "PROMOTED"]
             /\ UNCHANGED echoed
          \/ /\ cycle[f] \in Released
             /\ echoed' = echoed \cup {f}
             /\ UNCHANGED cycle
       /\ Goto(n, "promoted")
       /\ UNCHANGED <<about, windows, diagnosis, trigger, rival, serving, head, released, mishaps>>

\* Whatever has become of the cycle: a branch at the baseline, or at the candidate, will do.
PromoteSource(n) ==
    LET f == flows[n].item
    IN /\ At(n, "execute", "promoted")
       /\ IF head \in {about[f], f} THEN head' = f /\ Goto(n, "sourced")
                                    ELSE UNCHANGED head /\ Goto(n, "undoing")
       /\ UNCHANGED <<tables, rival, serving, released, echoed, mishaps>>

\* finalize reads the cycle once more, and registers the release: of two executions one does,
\* for the other's has another time of promotion.
Register(n) ==
    LET f == flows[n].item
    IN /\ At(n, "execute", "sourced")
       /\ IF cycle[f] = "PROMOTED" /\ f \notin released
            THEN released' = released \cup {f} /\ Goto(n, "registered")
            ELSE UNCHANGED released /\ Goto(n, "undoing")
       /\ UNCHANGED <<tables, rival, serving, head, echoed, mishaps>>

\* The step may fail with the release in the catalog.
ServeRelease(n) ==
    /\ At(n, "execute", "registered")
    /\ serving' = flows[n].item
    /\ \/ flows' = [flows EXCEPT ![n].pc = "soak", ![n].at = "begun"]
       \/ Goto(n, "undoing")
    /\ UNCHANGED <<tables, rival, head, released, echoed, mishaps>>

\* Source promotion or finalization fails.
FailPromotion(n) ==
    /\ \E place \in {"promoted", "sourced", "registered"} : At(n, "execute", place)
    /\ Goto(n, "undoing")
    /\ UNCHANGED <<tables, world, mishaps>>

\* _rollback_failed_promotion_step: a cycle that is rolled back already is left at that; one
\* that is not PROMOTED makes the step raise until DBOS gives it up.
UndoPromotion(n) ==
    /\ At(n, "execute", "undoing")
    /\ IF cycle[flows[n].item] = "PROMOTED" THEN Goto(n, "restoring") ELSE End(n)
    /\ UNCHANGED <<tables, world, mishaps>>

StartSoak(n) ==
    LET f == flows[n].item
    IN /\ At(n, "soak", "begun")
       /\ IF cycle[f] = "PROMOTED" /\ serving = f
            THEN cycle' = [cycle EXCEPT ![f] = "SOAKING"] /\ Goto(n, "restoring")
            ELSE UNCHANGED cycle /\ End(n)
       /\ UNCHANGED <<about, windows, diagnosis, trigger, world, mishaps>>

\* On the way back, be it of a failed promotion or of a soak.
Back(n, place) == flows[n].pc \in {"execute", "soak"} /\ flows[n].at = place

\* A soak whose release another execution took from the catalog cannot observe it, nor take
\* back a route it never made.  A compensation whose operation another one has done already
\* changes nothing, and raises where that is not what the catalog says.
LoseRelease(n) ==
    LET f == flows[n].item
    IN /\ Back(n, "restoring")
       /\ IF flows[n].pc = "soak" THEN serving # f ELSE f \in echoed /\ serving # about[f]
       /\ End(n)
       /\ UNCHANGED <<tables, world, mishaps>>

\* The way back, of a failed promotion and of a soak: catalog, branch, cycle.
RestoreServing(n) ==
    /\ Back(n, "restoring")
    /\ serving' = about[flows[n].item]
    /\ Goto(n, "unserved")
    /\ UNCHANGED <<tables, rival, head, released, echoed, mishaps>>

\* restore_baseline takes back one autonomous commit, and refuses anything else.
RestoreSource(n) ==
    LET base == about[flows[n].item]
    IN /\ Back(n, "unserved")
       /\ IF head = base \/ (head \in Items /\ about[head] = base)
            THEN head' = base /\ Goto(n, "restored")
            ELSE UNCHANGED head /\ End(n)
       /\ UNCHANGED <<tables, rival, serving, released, echoed, mishaps>>

\* A soak may keep the release as well.  The transition is made from the version of the cycle
\* that was read: where another execution has moved it, the run ends without it.
EndCycle(n) ==
    LET f == flows[n].item
    IN /\ Back(n, "restored") \/ At(n, "soak", "restoring")
       /\ cycle' = IF cycle[f] = (IF flows[n].pc = "soak" THEN "SOAKING" ELSE "PROMOTED")
                     THEN [cycle EXCEPT ![f] = "ended"] ELSE cycle
       /\ End(n)
       /\ UNCHANGED <<about, windows, diagnosis, trigger, world, mishaps>>

----------------------------------------------------------------------------
Prepare(n) ==
    \/ ReadActive(n) \/ ReadServing(n) \/ Select(n) \/ LookUpWindow(n) \/ AddWindow(n)
    \/ ReadCycle(n) \/ CreateCycle(n) \/ VerifyBaseline(n) \/ BindEvidence(n)
    \/ LookUpDiagnosis(n) \/ AddDiagnosis(n) \/ BindDiagnosis(n) \/ Judge(n) \/ Conclude(n)
    \/ RecordPrepared(n) \/ RecordBlocked(n) \/ Record(n)

Execute(n) ==
    \/ Develop(n) \/ Implement(n) \/ OutOfStep(n) \/ Abandon(n) \/ Promote(n)
    \/ PromoteSource(n) \/ Register(n) \/ ServeRelease(n) \/ FailPromotion(n)
    \/ UndoPromotion(n) \/ StartSoak(n) \/ LoseRelease(n)
    \/ RestoreServing(n) \/ RestoreSource(n) \/ EndCycle(n)

\* A call fails in the prepare step, or execution or soak end in an error of their own.
Fail(n) ==
    /\ flows[n].pc # "idle"
    /\ flows[n].at # "returned"
    /\ MayDisturb
    /\ mishaps' = mishaps + 1
    /\ IF flows[n].pc = "prepare" THEN Raise(n) ELSE End(n)
    /\ UNCHANGED <<tables, world>>

\* The process is restarted: DBOS runs the prepare steps it has no result of again.
Restart ==
    /\ MayDisturb
    /\ mishaps' = mishaps + 1
    /\ flows' = [n \in Runs |-> IF flows[n].pc = "prepare" THEN Begun(n, 1) ELSE flows[n]]
    /\ UNCHANGED <<tables, world>>

Init ==
    /\ about = [f \in Items |-> Nowhere]
    /\ windows = {}
    /\ diagnosis = [f \in Items |-> "none"]
    /\ cycle = [f \in Items |-> "absent"]
    /\ trigger = [f \in Items |-> "none"]
    /\ rival = "none" /\ serving = 0 /\ head = 0 /\ released = {} /\ echoed = {}
    /\ flows = [n \in Runs |-> NoFlow]
    /\ mishaps = 0

Next ==
    \/ \E f \in Items : Submit(f)
    \/ RivalBegins \/ RivalEnds
    \/ \E n \in Runs : Tick(n) \/ Prepare(n) \/ Execute(n) \/ Fail(n)
    \/ Restart

\* The scheduler ticks for ever, DBOS runs what is pending, and operators' cycles end.
Spec ==
    /\ Init /\ [][Next]_vars
    /\ \A n \in Runs : WF_vars(Tick(n) \/ Prepare(n) \/ Execute(n))
    /\ WF_vars(RivalEnds)

----------------------------------------------------------------------------
Places == {"begun", "looked", "served", "selected", "closing", "closed", "creating", "moving",
           "diagnosing", "diagnosed", "prepared", "insufficient", "returned",
           "developing", "developed", "promoted", "sourced", "registered", "undoing",
           "restoring", "unserved", "restored"}

Flow == [pc : {"idle", "prepare", "execute", "soak"}, at : Places,
         next : {"idle", "execute"}, tries : 1 .. PrepareAttempts, upto : 0 .. MaxItems,
         busy : Items \cup {NoItem, Rival}, release : Releases,
         item : Items \cup {NoItem}, stage : Stages]

\* Every table and every run keeps its shape.
TypeOK ==
    /\ about \in [Items -> Releases \cup {Nowhere}]
    /\ windows \subseteq Items
    /\ diagnosis \in [Items -> Verdicts \cup {"none"}]
    /\ cycle \in [Items -> Stages]
    /\ trigger \in [Items -> Outcomes \cup {"none"}]
    /\ rival \in {"none", "active", "ended"} /\ serving \in Releases /\ head \in Releases
    /\ released \subseteq Items /\ echoed \subseteq Items
    /\ flows \in [Runs -> Flow]
    /\ mishaps \in 0 .. MaxMishaps

\* Feedback is consumed only by what its trigger says became of it: a cycle with a proposal,
\* or one blocked for want of confidence.  Consumed for anything less, it would be lost, for
\* no tick selects it again (prepare_next records the trigger after the preparation).
TriggersTellTheTruth ==
    \A f \in Items :
        /\ trigger[f] = "prepared" => cycle[f] \in Proposed
        /\ trigger[f] = "blocked-low-confidence" => cycle[f] = "BLOCKED" /\ diagnosis[f] = "low"

\* What is improved is what is served: from its verified baseline to its promotion a cycle
\* stands on feedback about the release that serves, whose source the branch holds, also when
\* the tick that prepares it saw its target before another cycle changed both - as long as no
\* second execution of a cycle has been told of its promotion, and merged it on its own.
OnlyTheServingIsImproved ==
    echoed = {} =>
        \A f \in Items : cycle[f] \in Active \ ({"NEW"} \cup Released) =>
            about[f] = serving /\ head = serving

\* Neither branch nor catalog ever hold a candidate that was not promoted, however many
\* executions of its cycle overlap, one rejecting what another goes on with.
OnlyThePromotedIsReleased ==
    \A f \in Items : cycle[f] \notin Released => head # f /\ serving # f

\* What stops the loop of a target for good: a diagnosis that no proposal can be made of; a
\* cycle created on a release that was replaced meanwhile, or that the branch is off, where a
\* second execution merged what the first had rolled back; and a cycle whose run ended before
\* it, in an error.
Stopped ==
    \E g \in Items :
        \/ diagnosis[g] = "outside"
        \/ cycle[g] = "NEW" /\ (about[g] # serving \/ (echoed # {} /\ head # serving))
        \/ /\ trigger[g] = "prepared" /\ cycle[g] \in Active
           /\ \A n \in Runs : flows[n].item # g

\* Feedback about the serving release is taken by some tick, in its turn, unless that release
\* is replaced first or the loop is stopped.
FeedbackIsTaken ==
    \A f \in Items :
        about[f] = serving ~> trigger[f] # "none" \/ about[f] # serving \/ Stopped

=============================================================================
