----------------------- MODULE CycleLifecycle_proofs -----------------------
(***************************************************************************)
(* Proofs about the abstract cycle store, and about the cycle service and  *)
(* its repository, which implement it, for any number of callers, cycles   *)
(* and operations.                                                         *)
(*                                                                         *)
(* Each invariant of the store is inductive together with StoreTypeOK.     *)
(* The inductive invariant of the service adds to the checked invariants   *)
(* what the update under `WHERE version = expected` relies on: the row a   *)
(* caller is about to write is the transition of the row it will replace,  *)
(* unless the version has moved on, and versions never repeat              *)
(* (SnapshotsHold).  From it the service implements the store, and with    *)
(* that it keeps everything the store promises.                            *)
(***************************************************************************)
EXTENDS CycleLifecycle, TLAPS

----------------------------------------------------------------------------
\* The abstract store: two lemmas say what Create and Transition do to the table, and the
\* rest of its proofs reason about single rows.

\* A row a transition is allowed to produce is a row, in a named state, one version on.
LEMMA TransitionedIsRow ==
    ASSUME NEW row \in Row, NEW to \in States, NEW refs \in SUBSET Evidence,
           NEW decision \in Decisions \cup {NoDecision}
    PROVE  /\ Transitioned(row, to, refs, decision) \in Row
           /\ Transitioned(row, to, refs, decision).version = row.version + 1
           /\ Transitioned(row, to, refs, decision).state = to
    BY DEF Transitioned, Decided, Row

\* The callers' offers have the types of the columns they fill.
LEMMA OffersTyped ==
    ASSUME NEW refs \in RefOffers, NEW decision \in DecisionOffers
    PROVE  refs \in SUBSET Evidence /\ decision \in Decisions \cup {NoDecision}
    BY DevelopmentCyclesAssumption

LEMMA StoreInitTyped == StoreInit => StoreTypeOK
    BY DEF StoreInit, StoreTypeOK, AbsentRow, Row

LEMMA StoreNextTyped == StoreTypeOK /\ [StoreNext]_cycles => StoreTypeOK'
<1> SUFFICES ASSUME StoreTypeOK, [StoreNext]_cycles PROVE StoreTypeOK'
    OBVIOUS
<1>1. CASE UNCHANGED cycles
    BY <1>1 DEF StoreTypeOK
<1>2. ASSUME NEW c \in Cycles, Create(c) PROVE StoreTypeOK'
    <2>1. NewRow \in Row
        BY DEF NewRow, Row, States, ActiveStates
    <2> QED
        BY <1>2, <2>1 DEF Create, StoreTypeOK
<1>3. ASSUME NEW c \in Cycles, NEW to \in States, NEW refs \in RefOffers,
             NEW decision \in DecisionOffers, Transition(c, to, refs, decision)
      PROVE  StoreTypeOK'
    <2>1. cycles[c] \in Row
        BY DEF StoreTypeOK
    <2>2. Transitioned(cycles[c], to, refs, decision) \in Row
        BY <2>1, OffersTyped, TransitionedIsRow
    <2> QED
        BY <1>3, <2>2 DEF Transition, StoreTypeOK
<1> QED
    BY <1>1, <1>2, <1>3 DEF StoreNext

\* The table keeps its type.
THEOREM StoreTyping == StoreSpec => []StoreTypeOK
    BY StoreInitTyped, StoreNextTyped, PTL DEF StoreSpec
----------------------------------------------------------------------------
LEMMA NewRowStandsOnNothing ==
    /\ RequiredEvidence("NEW") = {}
    /\ "NEW" \notin PromotedStates
    BY DEF RequiredEvidence, PromotedStates, NeedsCandidate, NeedsVerification,
           NeedsArtifact, NeedsDeployment, NeedsExperiment

LEMMA StoreInitStands == StoreInit => StandsOnEvidence
    BY DEF StoreInit, StandsOnEvidence, Exists, AbsentRow

LEMMA StoreNextStands == StoreTypeOK /\ StandsOnEvidence /\ [StoreNext]_cycles => StandsOnEvidence'
<1> SUFFICES ASSUME StoreTypeOK, StandsOnEvidence, [StoreNext]_cycles,
                    NEW d \in Cycles, Exists(d)'
             PROVE  /\ RequiredEvidence(cycles'[d].state) \subseteq cycles'[d].refs
                    /\ cycles'[d].state \in PromotedStates => cycles'[d].decision = "PROMOTE"
    BY DEF StandsOnEvidence
<1>1. CASE cycles'[d] = cycles[d]
    BY <1>1 DEF StandsOnEvidence, Exists
<1>2. ASSUME NEW c \in Cycles, Create(c), cycles'[d] # cycles[d]
      PROVE  /\ RequiredEvidence(cycles'[d].state) \subseteq cycles'[d].refs
             /\ cycles'[d].state \in PromotedStates => cycles'[d].decision = "PROMOTE"
    <2>1. cycles'[d] = NewRow
        BY <1>2 DEF Create, StoreTypeOK
    <2> QED
        BY <2>1, NewRowStandsOnNothing DEF NewRow
<1>3. ASSUME NEW c \in Cycles, NEW to \in States, NEW refs \in RefOffers,
             NEW decision \in DecisionOffers, Transition(c, to, refs, decision),
             cycles'[d] # cycles[d]
      PROVE  /\ RequiredEvidence(cycles'[d].state) \subseteq cycles'[d].refs
             /\ cycles'[d].state \in PromotedStates => cycles'[d].decision = "PROMOTE"
    <2>1. c = d /\ cycles'[d] = Transitioned(cycles[d], to, refs, decision)
        BY <1>3 DEF Transition, StoreTypeOK
    <2> QED
        BY <1>3, <2>1 DEF Transition, MayTransition, Transitioned
<1> QED
    BY <1>1, <1>2, <1>3 DEF StoreNext

\* Whatever the callers supply and in whatever order, a cycle never stands in a state
\* whose evidence it does not hold, and is promoted only on a promote decision.
THEOREM EvidenceChain == StoreSpec => []StandsOnEvidence
<1>1. StoreTypeOK /\ StandsOnEvidence /\ [StoreNext]_cycles => (StoreTypeOK /\ StandsOnEvidence)'
    BY StoreNextTyped, StoreNextStands
<1> QED
    BY <1>1, StoreInitTyped, StoreInitStands, PTL DEF StoreSpec

----------------------------------------------------------------------------
\* No edge of the lifecycle goes up by more than one stage.
LEMMA EdgesClimbOneStage ==
    ASSUME NEW s \in States, NEW to \in Allowed(s)
    PROVE  /\ Depth(s) \in Nat
           /\ Depth(to) \in Nat
           /\ Depth(to) <= Depth(s) + 1
    BY DEF Depth, Allowed, Forward, States, ActiveStates, TerminalStates,
           BeforeCandidate, UnderTest

LEMMA StoreNextClimbs == StoreTypeOK /\ NoStageSkipped /\ [StoreNext]_cycles => NoStageSkipped'
<1> SUFFICES ASSUME StoreTypeOK, NoStageSkipped, [StoreNext]_cycles, NEW d \in Cycles
             PROVE  cycles'[d].version >= Depth(cycles'[d].state)
    BY DEF NoStageSkipped
<1>1. CASE cycles'[d] = cycles[d]
    BY <1>1 DEF NoStageSkipped
<1>2. ASSUME NEW c \in Cycles, Create(c), cycles'[d] # cycles[d]
      PROVE  cycles'[d].version >= Depth(cycles'[d].state)
    <2>1. cycles'[d] = NewRow
        BY <1>2 DEF Create, StoreTypeOK
    <2> QED
        BY <2>1 DEF NewRow, Depth
<1>3. ASSUME NEW c \in Cycles, NEW to \in States, NEW refs \in RefOffers,
             NEW decision \in DecisionOffers, Transition(c, to, refs, decision),
             cycles'[d] # cycles[d]
      PROVE  cycles'[d].version >= Depth(cycles'[d].state)
    <2>1. c = d /\ cycles'[d] = Transitioned(cycles[d], to, refs, decision)
        BY <1>3 DEF Transition, StoreTypeOK
    <2>2. cycles[d] \in Row /\ Exists(d)
        BY <1>3, <2>1 DEF StoreTypeOK, Transition
    <2>3. cycles[d].state \in States /\ cycles[d].version \in Nat
        BY <2>2 DEF Row, Exists
    <2>4. to \in Allowed(cycles[d].state)
        BY <1>3, <2>1 DEF Transition, MayTransition
    <2>5. cycles[d].version >= Depth(cycles[d].state)
        BY DEF NoStageSkipped
    <2>6. cycles'[d].version = cycles[d].version + 1 /\ cycles'[d].state = to
        BY <2>1 DEF Transitioned
    <2>7. /\ Depth(cycles[d].state) \in Nat
          /\ Depth(to) \in Nat
          /\ Depth(to) <= Depth(cycles[d].state) + 1
        BY <2>3, <2>4, EdgesClimbOneStage
    <2> QED
        BY <2>3, <2>5, <2>6, <2>7
<1> QED
    BY <1>1, <1>2, <1>3 DEF StoreNext

\* A completed cycle has passed every stage, however often it failed on the way.
THEOREM EveryStagePassed == StoreSpec => []NoStageSkipped
<1>1. StoreInit => NoStageSkipped
    BY DEF StoreInit, NoStageSkipped, AbsentRow, Depth
<1>2. StoreTypeOK /\ NoStageSkipped /\ [StoreNext]_cycles => (StoreTypeOK /\ NoStageSkipped)'
    BY StoreNextTyped, StoreNextClimbs
<1> QED
    BY <1>1, <1>2, StoreInitTyped, PTL DEF StoreSpec
----------------------------------------------------------------------------
\* A transition is only made by an active cycle: it cannot add one to a target.
LEMMA OnlyActiveMoves ==
    ASSUME StoreTypeOK, NEW c \in Cycles, NEW to, NEW refs, NEW decision,
           Transition(c, to, refs, decision)
    PROVE  IsActive(c)
    BY DEF Transition, MayTransition, Exists, IsActive, StoreTypeOK, Row, States

LEMMA StoreNextOneActive ==
    StoreTypeOK /\ OneActivePerTarget /\ [StoreNext]_cycles => OneActivePerTarget'
<1> SUFFICES ASSUME StoreTypeOK, OneActivePerTarget, [StoreNext]_cycles,
                    NEW c \in Cycles, NEW d \in Cycles,
                    IsActive(c)', IsActive(d)', TargetOf[c] = TargetOf[d]
             PROVE  c = d
    BY DEF OneActivePerTarget
<1>1. CASE UNCHANGED cycles
    BY <1>1 DEF OneActivePerTarget, IsActive
<1>2. ASSUME NEW e \in Cycles, Create(e) PROVE c = d
    <2>1. \A x \in Cycles : x # e => cycles'[x] = cycles[x]
        BY <1>2 DEF Create, StoreTypeOK
    <2> QED
        BY <1>2, <2>1 DEF Create, OneActivePerTarget, IsActive
<1>3. ASSUME NEW e \in Cycles, NEW to \in States, NEW refs \in RefOffers,
             NEW decision \in DecisionOffers, Transition(e, to, refs, decision)
      PROVE  c = d
    <2>1. \A x \in Cycles : x # e => cycles'[x] = cycles[x]
        BY <1>3 DEF Transition, StoreTypeOK
    <2>2. IsActive(e)
        BY <1>3, OnlyActiveMoves
    <2> QED
        BY <2>1, <2>2 DEF OneActivePerTarget, IsActive
<1> QED
    BY <1>1, <1>2, <1>3 DEF StoreNext

\* Two cycles are never active for one target.
THEOREM StoreExcludes == StoreSpec => []OneActivePerTarget
<1>1. StoreInit => OneActivePerTarget
    BY DEF StoreInit, OneActivePerTarget, IsActive, AbsentRow, ActiveStates
<1>2. StoreTypeOK /\ OneActivePerTarget /\ [StoreNext]_cycles
        => (StoreTypeOK /\ OneActivePerTarget)'
    BY StoreNextTyped, StoreNextOneActive
<1> QED
    BY <1>1, <1>2, StoreInitTyped, PTL DEF StoreSpec

----------------------------------------------------------------------------
\* What one step of the store may not do to one row.
LEMMA StoreStepOfOneRow ==
    ASSUME StoreTypeOK, [StoreNext]_cycles, NEW d \in Cycles
    PROVE  /\ cycles[d].state \in TerminalStates => cycles'[d] = cycles[d]
           /\ cycles[d].state \in {"PROMOTED", "SOAKING"} =>
                  cycles'[d].state \in PromotedStates \cup {"ROLLED_BACK"}
<1>1. CASE cycles'[d] = cycles[d]
    BY <1>1 DEF PromotedStates
<1>2. ASSUME NEW c \in Cycles, Create(c), cycles'[d] # cycles[d]
      PROVE  cycles[d].state = "ABSENT"
    BY <1>2 DEF Create, StoreTypeOK, Exists
<1>3. ASSUME NEW c \in Cycles, NEW to \in States, NEW refs \in RefOffers,
             NEW decision \in DecisionOffers, Transition(c, to, refs, decision),
             cycles'[d] # cycles[d]
      PROVE  cycles[d].state \notin TerminalStates /\ cycles'[d].state \in Allowed(cycles[d].state)
    BY <1>3 DEF Transition, StoreTypeOK, MayTransition, Transitioned
<1>4. \A s \in {"PROMOTED", "SOAKING"} :
          Allowed(s) \subseteq PromotedStates \cup {"ROLLED_BACK"}
    BY DEF Allowed, Forward, BeforeCandidate, UnderTest, PromotedStates
<1>5. "ABSENT" \notin TerminalStates
    BY DEF TerminalStates
<1> QED
    BY <1>1, <1>2, <1>3, <1>4, <1>5 DEF StoreNext

\* A promoted or soaking candidate is never abandoned: its cycle soaks, completes or is
\* rolled back.
THEOREM NothingLiveIsAbandoned == StoreSpec => PromotionEndsInCompletionOrRollback
<1>1. StoreTypeOK /\ [StoreNext]_cycles =>
        [\A c \in Cycles : cycles[c].state \in {"PROMOTED", "SOAKING"} =>
            cycles'[c].state \in PromotedStates \cup {"ROLLED_BACK"}]_cycles
    BY StoreStepOfOneRow
<1> QED
    BY <1>1, StoreTyping, PTL DEF StoreSpec, PromotionEndsInCompletionOrRollback

\* A completed, failed, cancelled or rolled back cycle is never changed.
THEOREM StoreIsFinal == StoreSpec => TerminalIsFinal
<1>1. StoreTypeOK /\ [StoreNext]_cycles =>
        [\A c \in Cycles : cycles[c].state \in TerminalStates =>
            cycles'[c] = cycles[c]]_cycles
    BY StoreStepOfOneRow
<1> QED
    BY <1>1, StoreTyping, PTL DEF StoreSpec, TerminalIsFinal

----------------------------------------------------------------------------
\* The service.

\* The requests callers hold stay within what callers may ask.
RequestsOffered ==
    \A p \in Callers : call[p].phase \in {"looking", "ready"} =>
        /\ call[p].request.expected < MaxVersion
        /\ call[p].request.refs \in RefOffers
        /\ call[p].request.decision \in DecisionOffers

\* A computed row still is the transition of the stored row while the version is the same.
SnapshotHolds(p) ==
    LET q == call[p].request
        row == cycles[q.cycle]
    IN /\ Exists(q.cycle)
       /\ q.expected <= row.version
       /\ call[p].updated.version = q.expected + 1
       /\ call[p].updated.state = q.to
       /\ row.version = q.expected =>
            /\ MayTransition(row, q.to, q.refs, q.decision)
            /\ call[p].updated = Transitioned(row, q.to, q.refs, q.decision)

SnapshotsHold == \A p \in Callers : call[p].phase = "ready" => SnapshotHolds(p)

IInv ==
    /\ TypeOK
    /\ ReceiptsAreTheHistory
    /\ DoneMeansApplied
    /\ NoReceiptAhead
    /\ RequestsOffered
    /\ SnapshotsHold

----------------------------------------------------------------------------
LEMMA CallShape ==
    ASSUME TypeOK, NEW p \in Callers
    PROVE  /\ call[p].phase = "creating" => call[p].cycle \in Cycles
           /\ call[p].phase \in {"looking", "ready", "done", "corrupt"} =>
                  call[p].request \in Request
           /\ call[p].phase = "ready" => call[p].updated \in Row
    BY DEF TypeOK, Call

LEMMA RowsTyped ==
    ASSUME TypeOK, NEW c \in Cycles
    PROVE  cycles[c] \in Row /\ cycles[c].version \in Nat
    BY DEF TypeOK, StoreTypeOK, Row

LEMMA NewRowTyped == NewRow \in Row
    BY DEF NewRow, Row, States, ActiveStates

\* The request Begin hands to BeginTransition.
LEMMA BegunRequest ==
    ASSUME TypeOK, NEW p \in Callers, Begin(p)
    PROVE  \E q \in Request :
              /\ BeginTransition(p, q)
              /\ q.expected < MaxVersion
              /\ q.refs \in RefOffers
              /\ q.decision \in DecisionOffers
<1>1. PICK op \in Operations, c \in Cycles, to \in RequestStates,
           refs \in RefOffers, decision \in DecisionOffers :
           \E v \in KnownVersions(c) :
               BeginTransition(p, [op |-> op, cycle |-> c, to |-> to, expected |-> v,
                                   refs |-> refs, decision |-> decision])
    BY DEF Begin
<1>2. PICK v \in KnownVersions(c) :
           BeginTransition(p, [op |-> op, cycle |-> c, to |-> to, expected |-> v,
                               refs |-> refs, decision |-> decision])
    BY <1>1
<1> DEFINE q == [op |-> op, cycle |-> c, to |-> to, expected |-> v,
                 refs |-> refs, decision |-> decision]
<1>3. v \in Nat /\ v < MaxVersion
    BY RowsTyped DEF KnownVersions
<1>4. q \in Request
    BY <1>3, DevelopmentCyclesAssumption, CycleLifecycleAssumption DEF Request
<1> QED
    BY <1>2, <1>3, <1>4

----------------------------------------------------------------------------
\* Only two steps write the tables: an insert of a new row, and a commit of a snapshot.

Inserts(c) ==
    /\ InsertAllowed(c)
    /\ cycles' = [cycles EXCEPT ![c] = NewRow]
    /\ UNCHANGED receipts

Writes(p) ==
    LET q == call[p].request
    IN /\ call[p].phase = "ready"
       /\ ReceiptsOf(q.op) = {}
       /\ cycles[q.cycle].version = q.expected
       /\ cycles' = [cycles EXCEPT ![q.cycle] = call[p].updated]
       /\ receipts' = receipts \cup {ReceiptFor(q, call[p].updated)}

LEMMA TableSteps ==
    ASSUME TypeOK, [Next]_vars
    PROVE  \/ UNCHANGED <<cycles, receipts>>
           \/ \E c \in Cycles : Inserts(c)
           \/ \E p \in Callers : Writes(p)
<1>1. ASSUME NEW p \in Callers, Insert(p)
      PROVE  \/ UNCHANGED <<cycles, receipts>>
             \/ \E c \in Cycles : Inserts(c)
    BY <1>1, CallShape DEF Insert, Inserts
<1>2. ASSUME NEW p \in Callers, Commit(p)
      PROVE  UNCHANGED <<cycles, receipts>> \/ Writes(p)
    BY <1>2 DEF Commit, Writes
<1>3. ASSUME NEW p \in Callers,
             Die(p) \/ Begin(p) \/ ReadAndValidate(p) \/ \E c \in Cycles : CheckNoActive(p, c)
      PROVE  UNCHANGED <<cycles, receipts>>
    BY <1>3 DEF Die, Begin, BeginTransition, ReadAndValidate, CheckNoActive
<1> QED
    BY <1>1, <1>2, <1>3 DEF Next, vars
----------------------------------------------------------------------------
LEMMA InitTypeOK == Init => TypeOK
    BY DEF Init, StoreInit, TypeOK, StoreTypeOK, AbsentRow, Row, Idle, Call

LEMMA CallTyped ==
    /\ Idle \in Call
    /\ \A c \in Cycles : [phase |-> "creating", cycle |-> c] \in Call
    /\ \A q \in Request : [phase |-> "looking", request |-> q] \in Call
    /\ \A q \in Request : [phase |-> "done", request |-> q] \in Call
    /\ \A q \in Request : [phase |-> "corrupt", request |-> q] \in Call
    /\ \A q \in Request, u \in Row :
           [phase |-> "ready", request |-> q, updated |-> u] \in Call
    BY DEF Call, Idle

LEMMA TablesTyped ==
    ASSUME TypeOK, [Next]_vars
    PROVE  cycles' \in [Cycles -> Row] /\ receipts' \subseteq Receipt
<1>1. CASE UNCHANGED <<cycles, receipts>>
    BY <1>1 DEF TypeOK, StoreTypeOK
<1>2. ASSUME NEW c \in Cycles, Inserts(c)
      PROVE  cycles' \in [Cycles -> Row] /\ receipts' \subseteq Receipt
    BY <1>2, NewRowTyped DEF Inserts, TypeOK, StoreTypeOK
<1>3. ASSUME NEW p \in Callers, Writes(p)
      PROVE  cycles' \in [Cycles -> Row] /\ receipts' \subseteq Receipt
    <2>1. call[p].request \in Request /\ call[p].updated \in Row
        BY <1>3, CallShape DEF Writes
    <2>2. ReceiptFor(call[p].request, call[p].updated) \in Receipt
        BY <2>1 DEF ReceiptFor, Receipt, Request, Row
    <2> QED
        BY <1>3, <2>1, <2>2 DEF Writes, TypeOK, StoreTypeOK
<1> QED
    BY <1>1, <1>2, <1>3, TableSteps

LEMMA NextTypeOK == TypeOK /\ [Next]_vars => TypeOK'
<1> SUFFICES ASSUME TypeOK, [Next]_vars PROVE call' \in [Callers -> Call]
    BY TablesTyped DEF TypeOK, StoreTypeOK
<1>1. CASE UNCHANGED vars
    BY <1>1 DEF vars, TypeOK
<1>2. ASSUME NEW p \in Callers,
             Insert(p) \/ Die(p) \/ \E c \in Cycles : CheckNoActive(p, c)
      PROVE  call' \in [Callers -> Call]
    BY <1>2, CallTyped DEF Insert, Die, CheckNoActive, TypeOK
<1>3. ASSUME NEW p \in Callers, Begin(p) PROVE call' \in [Callers -> Call]
    <2>1. PICK q \in Request : BeginTransition(p, q)
        BY <1>3, BegunRequest
    <2>2. Replayed(q) \in Call
        BY CallTyped DEF Replayed
    <2> QED
        BY <2>1, <2>2, CallTyped DEF BeginTransition, TypeOK
<1>4. ASSUME NEW p \in Callers, ReadAndValidate(p) PROVE call' \in [Callers -> Call]
    <2> DEFINE q == call[p].request
               row == cycles[q.cycle]
               u == Transitioned(row, q.to, q.refs, q.decision)
    <2>1. q \in Request
        BY <1>4, CallShape DEF ReadAndValidate
    <2>2. row \in Row
        BY <2>1, RowsTyped DEF Request
    <2>3. u \in Row
        BY <2>1, <2>2, TransitionedIsRow DEF Request
    <2> QED
        BY <1>4, <2>1, <2>3, CallTyped DEF ReadAndValidate, TypeOK
<1>5. ASSUME NEW p \in Callers, Commit(p) PROVE call' \in [Callers -> Call]
    <2>1. call[p].request \in Request
        BY <1>5, CallShape DEF Commit
    <2> QED
        BY <1>5, <2>1, CallTyped DEF Commit, TypeOK
<1> QED
    BY <1>1, <1>2, <1>3, <1>4, <1>5 DEF Next

\* The tables and the callers keep their types.
THEOREM Typing == Spec => []TypeOK
    BY InitTypeOK, NextTypeOK, PTL DEF Spec
----------------------------------------------------------------------------
\* What a write finds and leaves: the row it replaces is the one its snapshot was made of.
LEMMA WriteEffect ==
    ASSUME TypeOK, SnapshotsHold, NEW p \in Callers, Writes(p),
           NEW q, q = call[p].request
    PROVE  /\ q \in Request
           /\ q.cycle \in Cycles
           /\ Exists(q.cycle)
           /\ cycles[q.cycle].version = q.expected
           /\ MayTransition(cycles[q.cycle], q.to, q.refs, q.decision)
           /\ cycles'[q.cycle] = Transitioned(cycles[q.cycle], q.to, q.refs, q.decision)
           /\ cycles'[q.cycle].version = q.expected + 1
           /\ cycles'[q.cycle].state = q.to
           /\ \A d \in Cycles : d # q.cycle => cycles'[d] = cycles[d]
           /\ receipts' = receipts \cup {[op |-> q.op, cycle |-> q.cycle, from |-> q.expected,
                                        result |-> q.expected + 1, to |-> q.to]}
           /\ \A r \in receipts : r.op # q.op
<1>1. q \in Request /\ q.cycle \in Cycles
    BY CallShape DEF Writes, Request
<1>2. SnapshotHolds(p)
    BY DEF Writes, SnapshotsHold
<1>3. cycles'[q.cycle] = call[p].updated
    BY <1>1 DEF Writes, TypeOK, StoreTypeOK
<1> QED
    BY <1>1, <1>2, <1>3 DEF Writes, SnapshotHolds, TypeOK, ReceiptFor, ReceiptsOf

LEMMA InsertEffect ==
    ASSUME TypeOK, NEW c \in Cycles, Inserts(c)
    PROVE  /\ ~Exists(c)
           /\ cycles'[c] = NewRow
           /\ \A d \in Cycles : d # c => cycles'[d] = cycles[d]
           /\ receipts' = receipts
    BY DEF Inserts, InsertAllowed, TypeOK, StoreTypeOK

LEMMA ExistsAfter ==
    ASSUME TypeOK, SnapshotsHold, [Next]_vars, NEW c \in Cycles, Exists(c)
    PROVE  /\ Exists(c)'
           /\ cycles'[c].version \in Nat
           /\ cycles[c].version <= cycles'[c].version
           /\ cycles'[c].version = cycles[c].version => cycles'[c] = cycles[c]
<1>1. CASE UNCHANGED <<cycles, receipts>>
    BY <1>1, RowsTyped DEF Exists
<1>2. ASSUME NEW d \in Cycles, Inserts(d)
      PROVE  cycles'[c] = cycles[c]
    BY <1>2, InsertEffect
<1>3. ASSUME NEW p \in Callers, Writes(p), cycles'[c] # cycles[c]
      PROVE  Exists(c)' /\ cycles'[c].version = cycles[c].version + 1
    <2> DEFINE q == call[p].request
    <2>1. q \in Request
        BY <1>3, CallShape DEF Writes
    <2>2. c = q.cycle
        BY <1>3, WriteEffect
    <2>3. cycles'[c].state = q.to /\ cycles'[c].version = q.expected + 1
          /\ cycles[c].version = q.expected
        BY <1>3, <2>2, WriteEffect
    <2>4. "ABSENT" \notin States
        BY DEF States, ActiveStates, TerminalStates
    <2> QED
        BY <2>1, <2>3, <2>4 DEF Exists, Request
<1> QED
    BY <1>1, <1>2, <1>3, TableSteps, RowsTyped DEF Exists

LEMMA NextHistory ==
    TypeOK /\ SnapshotsHold /\ ReceiptsAreTheHistory /\ [Next]_vars => ReceiptsAreTheHistory'
<1> SUFFICES ASSUME TypeOK, SnapshotsHold, ReceiptsAreTheHistory, [Next]_vars
             PROVE  ReceiptsAreTheHistory'
    OBVIOUS
<1> USE DEF ReceiptsAreTheHistory
<1>0. \A r \in receipts : r \in Receipt
    BY DEF TypeOK
<1>1. CASE UNCHANGED <<cycles, receipts>>
    BY <1>1 DEF OperationsAreUnique, ReceiptsAreInThePast, OneReceiptPerVersion,
                EveryVersionHasAReceipt, LastReceiptNamesTheState, Exists
<1>2. ASSUME NEW c \in Cycles, Inserts(c) PROVE ReceiptsAreTheHistory'
    <2>1. \A r \in receipts : r.cycle \in Cycles /\ r.cycle # c
        BY <1>0, <1>2, InsertEffect DEF ReceiptsAreInThePast, Receipt
    <2>2. OperationsAreUnique' /\ OneReceiptPerVersion'
        BY <1>2, InsertEffect DEF OperationsAreUnique, OneReceiptPerVersion
    <2>3. ReceiptsAreInThePast' /\ LastReceiptNamesTheState'
        BY <1>2, <2>1, InsertEffect DEF ReceiptsAreInThePast, LastReceiptNamesTheState, Exists
    <2>4. EveryVersionHasAReceipt'
        BY <1>2, InsertEffect DEF EveryVersionHasAReceipt, NewRow
    <2> QED
        BY <2>2, <2>3, <2>4
<1>3. ASSUME NEW p \in Callers, Writes(p) PROVE ReceiptsAreTheHistory'
    <2>0. PICK q : q = call[p].request
        OBVIOUS
    <2> DEFINE new == [op |-> q.op, cycle |-> q.cycle, from |-> q.expected,
                       result |-> q.expected + 1, to |-> q.to]
    <2>1. /\ q \in Request
          /\ q.cycle \in Cycles
          /\ Exists(q.cycle)
          /\ cycles[q.cycle].version = q.expected
          /\ cycles'[q.cycle].version = q.expected + 1
          /\ cycles'[q.cycle].state = q.to
          /\ \A d \in Cycles : d # q.cycle => cycles'[d] = cycles[d]
          /\ receipts' = receipts \cup {new}
          /\ \A r \in receipts : r.op # q.op
        BY <1>3, <2>0, WriteEffect
    <2>2. q.expected \in Nat /\ q.to \in States
        BY <2>1 DEF Request
    <2>3. Exists(q.cycle)'
        BY <2>1, ExistsAfter
    <2>4. \A r \in receipts : /\ r.cycle \in Cycles
                             /\ r.from \in Nat
                             /\ r.result = r.from + 1
                             /\ Exists(r.cycle)
                             /\ r.result <= cycles[r.cycle].version
        BY <1>0 DEF ReceiptsAreInThePast, Receipt
    <2>5. OperationsAreUnique'
        BY <2>1 DEF OperationsAreUnique
    <2>6. ReceiptsAreInThePast'
        BY <2>1, <2>2, <2>3, <2>4, ExistsAfter, RowsTyped DEF ReceiptsAreInThePast
    <2>7. OneReceiptPerVersion'
        BY <2>1, <2>2, <2>4 DEF OneReceiptPerVersion
    <2>8. EveryVersionHasAReceipt'
        <3> SUFFICES ASSUME NEW c \in Cycles, NEW v \in 0 .. cycles'[c].version - 1
                     PROVE  \E r \in receipts' : r.cycle = c /\ r.from = v
            BY DEF EveryVersionHasAReceipt
        <3>1. CASE c = q.cycle /\ v = q.expected
            <4>1. new \in receipts' /\ new.cycle = c /\ new.from = v
                BY <2>1, <3>1
            <4> QED
                BY <4>1
        <3>2. CASE ~(c = q.cycle /\ v = q.expected)
            <4>1. v \in 0 .. cycles[c].version - 1
                BY <2>1, <2>2, <3>2
            <4> QED
                BY <2>1, <4>1 DEF EveryVersionHasAReceipt
        <3> QED
            BY <3>1, <3>2
    <2>9. LastReceiptNamesTheState'
        BY <2>1, <2>2, <2>4 DEF LastReceiptNamesTheState
    <2> QED
        BY <2>5, <2>6, <2>7, <2>8, <2>9
<1> QED
    BY <1>1, <1>2, <1>3, TableSteps
----------------------------------------------------------------------------
\* A call that is not the stepping caller's keeps its state.
LEMMA OthersKeepTheirCalls ==
    ASSUME TypeOK, NEW p \in Callers,
           \/ \E c \in Cycles : CheckNoActive(p, c)
           \/ Insert(p) \/ Begin(p) \/ ReadAndValidate(p) \/ Commit(p) \/ Die(p)
    PROVE  \A o \in Callers : o # p => call'[o] = call[o]
<1>1. \A x : call' = [call EXCEPT ![p] = x] => \A o \in Callers : o # p => call'[o] = call[o]
    BY DEF TypeOK
<1>2. CASE \E c \in Cycles : CheckNoActive(p, c)
    BY <1>1, <1>2 DEF CheckNoActive
<1>3. CASE Insert(p) \/ Die(p)
    BY <1>1, <1>3 DEF Insert, Die
<1>4. CASE Begin(p)
    BY <1>1, <1>4, BegunRequest DEF BeginTransition
<1>5. CASE ReadAndValidate(p)
    BY <1>1, <1>5 DEF ReadAndValidate
<1>6. CASE Commit(p)
    BY <1>1, <1>6 DEF Commit
<1> QED
    BY <1>2, <1>3, <1>4, <1>5, <1>6

\* The caller that holds a request after a step held it before, or just began it.
LEMMA NextRequests == TypeOK /\ RequestsOffered /\ [Next]_vars => RequestsOffered'
<1> SUFFICES ASSUME TypeOK, RequestsOffered, [Next]_vars,
                    NEW o \in Callers, call'[o].phase \in {"looking", "ready"}
             PROVE  /\ call'[o].request.expected < MaxVersion
                    /\ call'[o].request.refs \in RefOffers
                    /\ call'[o].request.decision \in DecisionOffers
    BY DEF RequestsOffered
<1>1. CASE call'[o] = call[o]
    BY <1>1 DEF RequestsOffered
<1>2. ASSUME Begin(o)
      PROVE  /\ call'[o].request.expected < MaxVersion
             /\ call'[o].request.refs \in RefOffers
             /\ call'[o].request.decision \in DecisionOffers
    <2>1. PICK q \in Request : /\ BeginTransition(o, q)
                               /\ q.expected < MaxVersion
                               /\ q.refs \in RefOffers
                               /\ q.decision \in DecisionOffers
        BY <1>2, BegunRequest
    <2>2. call'[o] = [phase |-> "looking", request |-> q] \/ call'[o] = Replayed(q)
        BY <2>1 DEF BeginTransition, TypeOK
    <2>3. Replayed(q).phase \notin {"looking", "ready"}
        BY DEF Replayed, Idle
    <2> QED
        BY <2>1, <2>2, <2>3
<1>3. ASSUME ReadAndValidate(o)
      PROVE  call'[o].request = call[o].request /\ call[o].phase = "looking"
    <2>1. call'[o] = Idle \/ call'[o].request = call[o].request
        BY <1>3 DEF ReadAndValidate, TypeOK
    <2>2. Idle.phase \notin {"looking", "ready"}
        BY DEF Idle
    <2> QED
        BY <1>3, <2>1, <2>2 DEF ReadAndValidate
<1>4. ASSUME \/ \E c \in Cycles : CheckNoActive(o, c)
             \/ Insert(o) \/ Commit(o) \/ Die(o)
      PROVE  FALSE
    BY <1>4 DEF CheckNoActive, Insert, Commit, Die, Idle, TypeOK
<1> QED
    BY <1>1, <1>2, <1>3, <1>4, OthersKeepTheirCalls DEF Next, vars, RequestsOffered

LEMMA NextSnapshots == TypeOK /\ SnapshotsHold /\ [Next]_vars => SnapshotsHold'
<1> SUFFICES ASSUME TypeOK, SnapshotsHold, [Next]_vars,
                    NEW o \in Callers, call'[o].phase = "ready"
             PROVE  SnapshotHolds(o)'
    BY DEF SnapshotsHold
<1>1. CASE call'[o] = call[o]
    <2>0. PICK q : q = call[o].request
        OBVIOUS
    <2>1. SnapshotHolds(o) /\ q \in Request /\ q.cycle \in Cycles
        BY <1>1, <2>0, CallShape DEF SnapshotsHold, Request
    <2>2. /\ Exists(q.cycle)
          /\ cycles'[q.cycle].state # "ABSENT"
          /\ cycles'[q.cycle].version \in Nat
          /\ cycles[q.cycle].version <= cycles'[q.cycle].version
          /\ cycles'[q.cycle].version = cycles[q.cycle].version =>
                 cycles'[q.cycle] = cycles[q.cycle]
        BY <2>0, <2>1, ExistsAfter DEF SnapshotHolds, Exists
    <2>3. q.expected \in Nat /\ cycles[q.cycle].version \in Nat
        BY <2>1, RowsTyped DEF Request
    <2>4. call'[o].request = q /\ call'[o].updated = call[o].updated
        BY <1>1, <2>0
    <2> QED
        BY <2>0, <2>1, <2>2, <2>3, <2>4 DEF SnapshotHolds, Exists
<1>2. ASSUME ReadAndValidate(o) PROVE SnapshotHolds(o)'
    <2>0. PICK q : q = call[o].request
        OBVIOUS
    <2>1. q \in Request /\ q.cycle \in Cycles
        BY <1>2, <2>0, CallShape DEF ReadAndValidate, Request
    <2>2. Idle.phase # "ready"
        BY DEF Idle
    <2>3. /\ Exists(q.cycle)
          /\ cycles[q.cycle].version = q.expected
          /\ MayTransition(cycles[q.cycle], q.to, q.refs, q.decision)
          /\ call'[o] = [phase |-> "ready", request |-> q,
                         updated |-> Transitioned(cycles[q.cycle], q.to, q.refs, q.decision)]
          /\ cycles' = cycles
        BY <1>2, <2>0, <2>2 DEF ReadAndValidate, TypeOK
    <2>4. /\ Transitioned(cycles[q.cycle], q.to, q.refs, q.decision).version = q.expected + 1
          /\ Transitioned(cycles[q.cycle], q.to, q.refs, q.decision).state = q.to
        BY <2>3 DEF Transitioned
    <2>5. q.expected \in Nat
        BY <2>1 DEF Request
    <2> QED
        BY <2>3, <2>4, <2>5 DEF SnapshotHolds, Exists
<1>3. ASSUME Begin(o) PROVE FALSE
    <2>1. PICK q \in Request : BeginTransition(o, q)
        BY <1>3, BegunRequest
    <2>2. Replayed(q).phase # "ready"
        BY DEF Replayed, Idle
    <2> QED
        BY <2>1, <2>2 DEF BeginTransition, TypeOK
<1>4. ASSUME \/ \E c \in Cycles : CheckNoActive(o, c)
             \/ Insert(o) \/ Commit(o) \/ Die(o)
      PROVE  FALSE
    BY <1>4 DEF CheckNoActive, Insert, Commit, Die, Idle, TypeOK
<1> QED
    BY <1>1, <1>2, <1>3, <1>4, OthersKeepTheirCalls DEF Next, vars
----------------------------------------------------------------------------
LEMMA ReceiptsStay ==
    ASSUME TypeOK, [Next]_vars
    PROVE  receipts \subseteq receipts'
    BY TableSteps DEF Inserts, Writes

\* A first look that finds the request's own receipt finds its row at least that far.
LEMMA ReplayAnswers ==
    ASSUME TypeOK, ReceiptsAreTheHistory, NEW q \in Request, ReceiptsOf(q.op) # {}
    PROVE  \/ Replayed(q) = Idle
           \/ /\ Replayed(q) = [phase |-> "done", request |-> q]
              /\ \E r \in receipts : r.op = q.op /\ Matches(r, q)
<1>1. SUFFICES ASSUME Replayed(q) # Idle
               PROVE  /\ Replayed(q) = [phase |-> "done", request |-> q]
                      /\ \E r \in receipts : r.op = q.op /\ Matches(r, q)
    OBVIOUS
<1>2. \A r \in ReceiptsOf(q.op) : Matches(r, q)
    BY <1>1 DEF Replayed
<1>3. \A r \in ReceiptsOf(q.op) : r.result <= cycles[q.cycle].version /\ r.result \in Nat
    BY <1>2 DEF ReceiptsAreTheHistory, ReceiptsAreInThePast, ReceiptsOf, Matches, TypeOK, Receipt
<1>4. cycles[q.cycle].version \in Nat
    BY RowsTyped DEF Request
<1>5. ~ \E r \in ReceiptsOf(q.op) : cycles[q.cycle].version < r.result
    BY <1>3, <1>4
<1>6. Replayed(q) = [phase |-> "done", request |-> q]
    BY <1>2, <1>5 DEF Replayed
<1> QED
    BY <1>2, <1>6 DEF ReceiptsOf

\* A caller is told "done" by its own receipt: the one it wrote, or the one it found.
LEMMA NextDone ==
    /\ TypeOK /\ SnapshotsHold /\ ReceiptsAreTheHistory
    /\ DoneMeansApplied /\ NoReceiptAhead /\ [Next]_vars
    => (DoneMeansApplied /\ NoReceiptAhead)'
<1> SUFFICES ASSUME TypeOK, SnapshotsHold, ReceiptsAreTheHistory, DoneMeansApplied,
                    NoReceiptAhead, [Next]_vars, NEW o \in Callers
             PROVE  /\ call'[o].phase # "corrupt"
                    /\ call'[o].phase = "done" =>
                          \E r \in receipts' :
                              r.op = call'[o].request.op /\ Matches(r, call'[o].request)
    BY DEF DoneMeansApplied, NoReceiptAhead, Matches
<1> DEFINE Fine == /\ call'[o].phase # "corrupt"
                   /\ call'[o].phase = "done" =>
                         \E r \in receipts' :
                             r.op = call'[o].request.op /\ Matches(r, call'[o].request)
<1>0. Idle.phase = "idle"
    BY DEF Idle
<1>1. CASE call'[o] = call[o]
    BY <1>1, ReceiptsStay DEF DoneMeansApplied, NoReceiptAhead
<1>2. ASSUME Begin(o) PROVE Fine
    <2>1. PICK q \in Request : BeginTransition(o, q)
        BY <1>2, BegunRequest
    <2>2. \/ call'[o] = [phase |-> "looking", request |-> q]
          \/ ReceiptsOf(q.op) # {} /\ call'[o] = Replayed(q)
        BY <2>1 DEF BeginTransition, TypeOK
    <2>3. receipts' = receipts
        BY <2>1 DEF BeginTransition
    <2> QED
        BY <1>0, <2>2, <2>3, ReplayAnswers
<1>3. ASSUME Commit(o) PROVE Fine
    <2>0. PICK q : q = call[o].request
        OBVIOUS
    <2>1. q \in Request /\ call[o].phase = "ready"
        BY <1>3, <2>0, CallShape DEF Commit
    <2>2. CASE Writes(o)
        <3>1. call'[o] = Idle \/ call'[o] = [phase |-> "done", request |-> q]
            BY <1>3, <2>0 DEF Commit, TypeOK
        <3>2. [op |-> q.op, cycle |-> q.cycle, from |-> q.expected,
               result |-> q.expected + 1, to |-> q.to] \in receipts'
            BY <2>0, <2>2, WriteEffect
        <3> QED
            BY <1>0, <3>1, <3>2 DEF Matches
    <2>3. CASE ~Writes(o)
        <3>1. \/ call'[o] = Idle
              \/ /\ call'[o] = [phase |-> "done", request |-> q]
                 /\ ReceiptsOf(q.op) # {}
                 /\ \A r \in ReceiptsOf(q.op) : Matches(r, q)
            BY <1>3, <2>0, <2>3 DEF Commit, Writes, TypeOK
        <3> QED
            BY <1>0, <3>1, ReceiptsStay DEF ReceiptsOf
    <2> QED
        BY <2>2, <2>3
<1>4. ASSUME ReadAndValidate(o) PROVE Fine
    <2>1. call'[o] = Idle \/ call'[o].phase = "ready"
        BY <1>4 DEF ReadAndValidate, TypeOK
    <2> QED
        BY <1>0, <2>1
<1>5. ASSUME \/ \E c \in Cycles : CheckNoActive(o, c)
             \/ Insert(o) \/ Die(o)
      PROVE  Fine
    BY <1>0, <1>5 DEF CheckNoActive, Insert, Die, TypeOK
<1> QED
    BY <1>1, <1>2, <1>3, <1>4, <1>5, OthersKeepTheirCalls DEF Next, vars

----------------------------------------------------------------------------
LEMMA InitInductive == Init => IInv
    BY InitTypeOK DEF Init, StoreInit, IInv, ReceiptsAreTheHistory, OperationsAreUnique,
       ReceiptsAreInThePast, OneReceiptPerVersion, EveryVersionHasAReceipt,
       LastReceiptNamesTheState, DoneMeansApplied, NoReceiptAhead, RequestsOffered,
       SnapshotsHold, Idle, AbsentRow

LEMMA NextInductive == IInv /\ [Next]_vars => IInv'
    BY NextTypeOK, NextHistory, NextDone, NextRequests, NextSnapshots DEF IInv

LEMMA Inductive == Spec => []IInv
    BY InitInductive, NextInductive, PTL DEF Spec

\* Receipts are the exact history of the rows, whatever interleaves, dies or retries.
THEOREM History == Spec => []ReceiptsAreTheHistory
<1>1. IInv => ReceiptsAreTheHistory
    BY DEF IInv
<1> QED
    BY <1>1, Inductive, PTL

\* An acknowledged operation took effect, as it was asked for.
THEOREM Acknowledgement == Spec => []DoneMeansApplied
<1>1. IInv => DoneMeansApplied
    BY DEF IInv
<1> QED
    BY <1>1, Inductive, PTL

\* The service never meets a receipt ahead of its row.
THEOREM NeverAhead == Spec => []NoReceiptAhead
<1>1. IInv => NoReceiptAhead
    BY DEF IInv
<1> QED
    BY <1>1, Inductive, PTL

----------------------------------------------------------------------------
\* The tables move as the store does.
LEMMA InitRefines == Init => StoreInit
    BY DEF Init

LEMMA NextRefines == IInv /\ [Next]_vars => [StoreNext]_cycles
<1> SUFFICES ASSUME IInv, [Next]_vars, cycles' # cycles PROVE StoreNext
    OBVIOUS
<1> USE DEF IInv
<1>1. ASSUME NEW c \in Cycles, Inserts(c) PROVE StoreNext
    <2>1. Create(c)
        BY <1>1 DEF Inserts, InsertAllowed, ActiveFor, Create
    <2> QED
        BY <2>1 DEF StoreNext
<1>2. ASSUME NEW p \in Callers, Writes(p) PROVE StoreNext
    <2>0. PICK q : q = call[p].request
        OBVIOUS
    <2>1. q \in Request /\ q.cycle \in Cycles /\ q.to \in States
        BY <1>2, <2>0, WriteEffect DEF Request
    <2>2. q.expected < MaxVersion /\ q.refs \in RefOffers /\ q.decision \in DecisionOffers
        BY <1>2, <2>0 DEF RequestsOffered, Writes
    <2>3. /\ Exists(q.cycle)
          /\ cycles[q.cycle].version = q.expected
          /\ MayTransition(cycles[q.cycle], q.to, q.refs, q.decision)
          /\ cycles'[q.cycle] = Transitioned(cycles[q.cycle], q.to, q.refs, q.decision)
          /\ \A d \in Cycles : d # q.cycle => cycles'[d] = cycles[d]
        BY <1>2, <2>0, WriteEffect
    <2>4. cycles' = [cycles EXCEPT ![q.cycle] =
                       Transitioned(cycles[q.cycle], q.to, q.refs, q.decision)]
        BY <2>1, <2>3, NextTypeOK DEF TypeOK, StoreTypeOK
    <2>5. Transition(q.cycle, q.to, q.refs, q.decision)
        BY <2>2, <2>3, <2>4 DEF Transition
    <2> QED
        BY <2>1, <2>2, <2>5 DEF StoreNext
<1> QED
    BY <1>1, <1>2, TableSteps

\* The service and its repository implement the abstract store: every call, however its
\* round trips interleave with others, acts on the cycles in one indivisible step or not
\* at all.
THEOREM Implementation == Spec => ImplementsStore
    BY InitRefines, NextRefines, Inductive, PTL DEF Spec, ImplementsStore, StoreSpec

\* Two calls that race to open a cycle for one target never both succeed.
THEOREM MutualExclusion == Spec => []OneActivePerTarget
    BY Implementation, StoreExcludes DEF ImplementsStore

\* A row written from a stale copy never revives a finished cycle, and none skips a stage,
\* its evidence or the promote decision, or gives up a candidate that is live.
THEOREM PromisesAreKept ==
    Spec => /\ TerminalIsFinal
            /\ []StandsOnEvidence
            /\ []NoStageSkipped
            /\ PromotionEndsInCompletionOrRollback
    BY Implementation, StoreIsFinal, EvidenceChain, EveryStagePassed, NothingLiveIsAbandoned
       DEF ImplementsStore
=============================================================================
