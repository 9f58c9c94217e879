------------------------- MODULE DevelopmentCycles -------------------------
(***************************************************************************)
(* What the cycle store promises its callers, with no trace of how it is   *)
(* reached: cycles are created one active cycle per target, and move by    *)
(* indivisible, evidenced transitions.  CycleLifecycle is the service and  *)
(* the SQL repository that implement this with several round trips, on the *)
(* same table; what is defined here of the table holds of theirs.          *)
(***************************************************************************)
EXTENDS CycleStates

CONSTANTS
    Cycles,         \* cycle ids
    Targets,        \* managed targets
    TargetOf,       \* [Cycles -> Targets]: the target a cycle id was minted for
    RefOffers,      \* sets of references a caller may hand to one transition
    DecisionOffers, \* release decisions a caller may hand to one transition
    MaxVersion      \* bound: no transition beyond this version

ASSUME DevelopmentCyclesAssumption ==
    /\ TargetOf \in [Cycles -> Targets]
    /\ RefOffers \subseteq SUBSET Evidence
    /\ DecisionOffers \subseteq Decisions \cup {NoDecision}
    /\ MaxVersion \in Nat

VARIABLE cycles     \* [Cycles -> Row]: the table development_cycles

Exists(c) == cycles[c].state # "ABSENT"
IsActive(c) == cycles[c].state \in ActiveStates

StoreInit == cycles = [c \in Cycles |-> AbsentRow]

Create(c) ==
    /\ ~Exists(c)
    /\ \A d \in Cycles : IsActive(d) => TargetOf[d] # TargetOf[c]
    /\ cycles' = [cycles EXCEPT ![c] = NewRow]

Transition(c, to, refs, decision) ==
    /\ Exists(c)
    /\ cycles[c].version < MaxVersion
    /\ MayTransition(cycles[c], to, refs, decision)
    /\ cycles' = [cycles EXCEPT ![c] = Transitioned(cycles[c], to, refs, decision)]

StoreNext ==
    \E c \in Cycles :
        \/ Create(c)
        \/ \E to \in States, refs \in RefOffers, decision \in DecisionOffers :
               Transition(c, to, refs, decision)

StoreSpec == StoreInit /\ [][StoreNext]_cycles

----------------------------------------------------------------------------
\* The rows the store can hold.
StoreTypeOK == cycles \in [Cycles -> Row]

\* Two cycles never work on one target at once (the partial unique index on target_id of
\* adapters/postgres/schema.py): each would change the same repository and the same route.
OneActivePerTarget ==
    \A c, d \in Cycles :
        IsActive(c) /\ IsActive(d) /\ TargetOf[c] = TargetOf[d] => c = d

\* A cycle stands in a state only on the whole chain of evidence below that state, and on a
\* promote decision from PROMOTED on, whatever mixture of references earlier callers
\* supplied and whichever decision replaced another (transition_cycle keeps `new or old`).
StandsOnEvidence ==
    \A c \in Cycles : Exists(c) =>
        /\ RequiredEvidence(cycles[c].state) \subseteq cycles[c].refs
        /\ cycles[c].state \in PromotedStates => cycles[c].decision = "PROMOTE"

\* How many transitions it takes, at least, to be in a state that lies on the way to
\* completion: the stages a cycle cannot have skipped.
Depth(s) ==
    CASE s = "BASELINE_VERIFIED" -> 1
      [] s \in {"EVIDENCE_READY", "CHANGE_PROPOSED"} -> 2
      [] s \in {"DIAGNOSED", "DEVELOPING"} -> 3
      [] s \in {"CANDIDATE_READY", "FAILED_RECOVERABLE"} -> 4
      [] s = "VERIFYING" -> 5
      [] s = "VERIFIED" -> 6
      [] s = "BUILT" -> 7
      [] s = "STAGED" -> 8
      [] s = "CANARYING" -> 9
      [] s = "PROMOTION_READY" -> 10
      [] s = "PROMOTED" -> 11
      [] s = "SOAKING" -> 12
      [] s = "COMPLETED" -> 13
      [] OTHER -> 0

\* No path through _ALLOWED reaches a stage early: a completed cycle was developed,
\* verified, built, staged, canaried, promoted and soaked, also when it failed and was
\* developed again on the way.
NoStageSkipped == \A c \in Cycles : cycles[c].version >= Depth(cycles[c].state)

\* Once its candidate is promoted a cycle can only soak, complete or be rolled back: it is
\* never cancelled, rejected or failed with the candidate live (_ALLOWED, PROMOTED, SOAKING).
PromotionEndsInCompletionOrRollback ==
    [][\A c \in Cycles : cycles[c].state \in {"PROMOTED", "SOAKING"} =>
           cycles'[c].state \in PromotedStates \cup {"ROLLED_BACK"}]_cycles

\* A finished cycle is never changed again (TERMINAL_STATES): a late command cannot revive it.
TerminalIsFinal ==
    [][\A c \in Cycles : cycles[c].state \in TerminalStates =>
           cycles'[c] = cycles[c]]_cycles
=============================================================================
