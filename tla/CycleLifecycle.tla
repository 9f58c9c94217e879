--------------------------- MODULE CycleLifecycle ---------------------------
(***************************************************************************)
(* CycleService over SqlCycleRepository: every workflow, API handler and   *)
(* scheduler that moves a cycle calls it, each call is several database    *)
(* round trips, and calls of different callers interleave between them.    *)
(*                                                                         *)
(*   create:      find_active_for_target; then add                         *)
(*   transition:  get_transition(op); then get(cycle) and transition_cycle *)
(*                on that copy; then commit_transition, one transaction    *)
(*                that inserts the receipt and updates the row where its   *)
(*                version is still the expected one.                       *)
(*                                                                         *)
(* commit_transition looks the receipt up once more before its             *)
(* transaction; receipts are never changed, so finding one there or by the *)
(* transaction's key conflict gives the same answer and one action models  *)
(* both.  A caller may die between two round trips and may repeat a call   *)
(* with the same operation id.                                             *)
(***************************************************************************)
EXTENDS DevelopmentCycles

CONSTANTS
    Callers,        \* concurrent callers of the service
    Operations,     \* operation ids, the primary key of the receipts
    RequestStates   \* the states callers ask for

ASSUME CycleLifecycleAssumption == RequestStates \subseteq States

VARIABLES
    receipts,   \* the table cycle_transition_operations: a set of Receipt
    call        \* [Callers -> Call]: what each caller is in the middle of

vars == <<cycles, receipts, call>>

Receipt == [op : Operations, cycle : Cycles, from : Nat, result : Nat, to : States]

Request == [op : Operations, cycle : Cycles, to : States, expected : Nat,
            refs : SUBSET Evidence, decision : Decisions \cup {NoDecision}]

\* A caller at rest; creating a cycle; or in a transition: it found no receipt ("looking"),
\* it holds an updated copy of the row ("ready"), it was told that its operation took
\* effect ("done"), or it met a receipt ahead of its row ("corrupt").
Call == [phase : {"idle"}]
   \cup [phase : {"creating"}, cycle : Cycles]
   \cup [phase : {"looking", "done", "corrupt"}, request : Request]
   \cup [phase : {"ready"}, request : Request, updated : Row]

Idle == [phase |-> "idle"]

\* A caller that may start a call: the outcome of the last one is remembered until then.
AtRest(p) == call[p].phase \in {"idle", "done"}

ActiveFor(t) == {c \in Cycles : IsActive(c) /\ TargetOf[c] = t}

Init ==
    /\ StoreInit
    /\ receipts = {}
    /\ call = [p \in Callers |-> Idle]

----------------------------------------------------------------------------
\* create

\* CycleService.create: refused while the target has an active cycle.
CheckNoActive(p, c) ==
    /\ AtRest(p)
    /\ ActiveFor(TargetOf[c]) = {}
    /\ call' = [call EXCEPT ![p] = [phase |-> "creating", cycle |-> c]]
    /\ UNCHANGED <<cycles, receipts>>

\* The primary key and the partial unique index on the target's active cycle.
InsertAllowed(c) == ~Exists(c) /\ ActiveFor(TargetOf[c]) = {}

\* Faulty variant: the index is missing, the check before the insert is all there is.
InsertWithoutIndex(p) ==
    /\ call[p].phase = "creating"
    /\ cycles' = IF ~Exists(call[p].cycle)
                   THEN [cycles EXCEPT ![call[p].cycle] = NewRow] ELSE cycles
    /\ call' = [call EXCEPT ![p] = Idle]
    /\ UNCHANGED receipts

\* SqlCycleRepository.add: an IntegrityError of either kind ends the call.
Insert(p) ==
    /\ call[p].phase = "creating"
    /\ cycles' = IF InsertAllowed(call[p].cycle)
                   THEN [cycles EXCEPT ![call[p].cycle] = NewRow] ELSE cycles
    /\ call' = [call EXCEPT ![p] = Idle]
    /\ UNCHANGED receipts

----------------------------------------------------------------------------
\* transition

\* The request a receipt was written for: same operation, same cycle, same transition.
\* Whoever holds a receipt to it may be told the operation took effect.
Matches(receipt, request) ==
    /\ receipt.cycle = request.cycle
    /\ receipt.from = request.expected
    /\ receipt.to = request.to

ReceiptsOf(op) == {r \in receipts : r.op = op}

\* What a call that meets its operation's receipt at its first look becomes.
Replayed(request) ==
    IF \E r \in ReceiptsOf(request.op) : ~Matches(r, request)
      THEN Idle                                             \* OperationConflictError
    ELSE IF \E r \in ReceiptsOf(request.op) : cycles[request.cycle].version < r.result
      THEN [phase |-> "corrupt", request |-> request]       \* RuntimeError
    ELSE [phase |-> "done", request |-> request]

\* CycleService.transition, its first round trip.
BeginTransition(p, request) ==
    /\ AtRest(p)
    /\ call' = [call EXCEPT ![p] =
                  IF ReceiptsOf(request.op) # {} THEN Replayed(request)
                  ELSE [phase |-> "looking", request |-> request]]
    /\ UNCHANGED <<cycles, receipts>>

\* The second: read the row, refuse a stale version or an illegal transition, and compute
\* the row that is to replace it.
ReadAndValidate(p) ==
    LET request == call[p].request
        row == cycles[request.cycle]
    IN /\ call[p].phase = "looking"
       /\ call' = [call EXCEPT ![p] =
            IF /\ Exists(request.cycle)
               /\ row.version = request.expected
               /\ MayTransition(row, request.to, request.refs, request.decision)
              THEN [phase |-> "ready", request |-> request,
                    updated |-> Transitioned(row, request.to, request.refs, request.decision)]
              ELSE Idle]
       /\ UNCHANGED <<cycles, receipts>>

\* The receipt the transaction writes.
ReceiptFor(request, updated) ==
    [op |-> request.op, cycle |-> request.cycle, from |-> request.expected,
     result |-> updated.version, to |-> request.to]

\* Faulty variant: the row is written whatever its version is by now.
CommitBlindly(p) ==
    LET request == call[p].request
        updated == call[p].updated
    IN /\ call[p].phase = "ready"
       /\ IF ReceiptsOf(request.op) # {}
            THEN UNCHANGED <<cycles, receipts>>
            ELSE /\ cycles' = [cycles EXCEPT ![request.cycle] = updated]
                 /\ receipts' = receipts \cup {ReceiptFor(request, updated)}
       /\ call' = [call EXCEPT ![p] = [phase |-> "done", request |-> request]]

\* Faulty variant: a receipt met at the commit is taken for this request's own.
CommitTrustsAnyReceipt(p) ==
    LET request == call[p].request
        updated == call[p].updated
        fresh == ReceiptsOf(request.op) = {}
        matching == cycles[request.cycle].version = request.expected
    IN /\ call[p].phase = "ready"
       /\ receipts' = IF fresh /\ matching
                        THEN receipts \cup {ReceiptFor(request, updated)} ELSE receipts
       /\ cycles' = IF fresh /\ matching
                      THEN [cycles EXCEPT ![request.cycle] = updated] ELSE cycles
       /\ call' = [call EXCEPT ![p] =
            IF ~fresh \/ matching THEN [phase |-> "done", request |-> request] ELSE Idle]

\* The third, commit_transition: a receipt already bound to the operation decides the call;
\* otherwise receipt and row are written together, or neither when the version has moved.
Commit(p) ==
    LET request == call[p].request
        updated == call[p].updated
        fresh == ReceiptsOf(request.op) = {}
        matching == cycles[request.cycle].version = request.expected
        own == \A r \in ReceiptsOf(request.op) :
                   Matches(r, request) /\ r.result = updated.version
    IN /\ call[p].phase = "ready"
       /\ IF fresh /\ matching
            THEN /\ receipts' = receipts \cup {ReceiptFor(request, updated)}
                 /\ cycles' = [cycles EXCEPT ![request.cycle] = updated]
            ELSE UNCHANGED <<cycles, receipts>>
       /\ call' = [call EXCEPT ![p] =
            IF (fresh /\ matching) \/ (~fresh /\ own)
              THEN [phase |-> "done", request |-> request]
              ELSE Idle]          \* ConcurrentUpdateError or OperationConflictError

\* The caller's process dies between two round trips: nothing of the call survives but
\* what it has committed.
Die(p) ==
    /\ call[p].phase \in {"creating", "looking", "ready"}
    /\ call' = [call EXCEPT ![p] = Idle]
    /\ UNCHANGED <<cycles, receipts>>

\* Versions a caller of c can have read, within the bound.
KnownVersions(c) == {v \in 0 .. cycles[c].version : v < MaxVersion}

Begin(p) ==
    \E op \in Operations, c \in Cycles, to \in RequestStates,
       refs \in RefOffers, decision \in DecisionOffers :
        \E v \in KnownVersions(c) :
            BeginTransition(p, [op |-> op, cycle |-> c, to |-> to, expected |-> v,
                                refs |-> refs, decision |-> decision])

Next ==
    \E p \in Callers :
        \/ \E c \in Cycles : CheckNoActive(p, c)
        \/ Insert(p)
        \/ Begin(p)
        \/ ReadAndValidate(p)
        \/ Commit(p)
        \/ Die(p)

Spec == Init /\ [][Next]_vars

----------------------------------------------------------------------------
\* Tables and callers keep their shapes.
TypeOK ==
    /\ StoreTypeOK
    /\ receipts \subseteq Receipt
    /\ call \in [Callers -> Call]

\* The receipts are the history of the rows: an operation is bound once, every version of
\* a cycle was made by exactly one receipt, and no receipt is there for a change that did
\* not happen.  This is what lets commit_transition's callers retry after any failure.
OperationsAreUnique == \A r, s \in receipts : r.op = s.op => r = s
ReceiptsAreInThePast ==
    \A r \in receipts : /\ r.result = r.from + 1
                        /\ Exists(r.cycle)
                        /\ r.result <= cycles[r.cycle].version
OneReceiptPerVersion ==
    \A r, s \in receipts : r.cycle = s.cycle /\ r.from = s.from => r = s
EveryVersionHasAReceipt ==
    \A c \in Cycles : \A v \in 0 .. cycles[c].version - 1 :
        \E r \in receipts : r.cycle = c /\ r.from = v
LastReceiptNamesTheState ==
    \A r \in receipts : r.result = cycles[r.cycle].version => r.to = cycles[r.cycle].state
ReceiptsAreTheHistory ==
    /\ OperationsAreUnique
    /\ ReceiptsAreInThePast
    /\ OneReceiptPerVersion
    /\ EveryVersionHasAReceipt
    /\ LastReceiptNamesTheState

\* A caller told that its operation took effect was told the truth, whoever committed it:
\* a receipt binds its operation to just the transition it asked for.
DoneMeansApplied ==
    \A p \in Callers : call[p].phase = "done" =>
        \E r \in receipts : r.op = call[p].request.op /\ Matches(r, call[p].request)

\* The RuntimeError "transition receipt is ahead of persisted cycle state" of
\* CycleService.transition is never raised.
NoReceiptAhead == \A p \in Callers : call[p].phase # "corrupt"

\* The store under all these interleavings still is the abstract one: each round trip moves
\* the cycles by one indivisible, evidenced step of it, or not at all.
ImplementsStore == StoreSpec
=============================================================================
