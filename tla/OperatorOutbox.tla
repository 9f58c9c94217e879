--------------------------- MODULE OperatorOutbox ---------------------------
(***************************************************************************)
(* The operator outbox: what happens to an event between the handler or    *)
(* workflow step that emits it and the operator who is told of it.         *)
(*                                                                         *)
(* append_event looks the event up, inserts it and commits; PostgreSQL     *)
(* hands out the sequence number at the insert, and a number handed out    *)
(* is gone if the transaction is.  The bridge is external: a process that  *)
(* reads the events after its cursor, sends, records, acknowledges and     *)
(* advances the cursor, event by event, in the order of                    *)
(* docs/feishu-integration-runbook.md.                                     *)
(*                                                                         *)
(* OperatorRequests models who emits what, and when; here any writer emits *)
(* any event, and may do so again.                                         *)
(***************************************************************************)
EXTENDS Naturals, FiniteSets

CONSTANTS
    Writers,      \* threads: request handlers and workflow steps
    EventIds,     \* event ids, which type, request and cycle determine
    Limit,        \* limit of a page
    MaxEmits,     \* bound: events that are emitted, repetitions included
    MaxFailures   \* bound: transactions and sends that fail, and restarts of the bridge

ASSUME OperatorOutboxAssumption ==
    /\ IsFiniteSet(Writers) /\ IsFiniteSet(EventIds)
    /\ Limit \in Nat \ {0} /\ MaxEmits \in Nat /\ MaxFailures \in Nat

VARIABLES
    events,      \* operator_events, what is committed: [sequence, id, acknowledged]
    sequence,    \* last sequence number handed out
    writer,      \* writer -> [at, event, sequence], what it has of them
    bridge,      \* [at, page, cursor]: the sequence numbers left of the page
    ledger,      \* events the bridge has recorded as delivered
    sent,        \* events the operator has been sent; a repetition is recognized
    overtaken,   \* events committed after a page had a later one (not in the code)
    spent        \* [emits, failures] so far

outboxVars == <<events, sequence, writer, bridge, ledger, sent, overtaken, spent>>

----------------------------------------------------------------------------
NoTransaction == [at |-> "idle"]

Stored(e) == \E r \in events : r.id = e

\* The bridge is at event r, the first of what is left of its page.
Current(r) == r.sequence \in bridge.page /\ \A n \in bridge.page : r.sequence <= n

Spend(what) == spent' = [spent EXCEPT ![what] = @ + 1]

OutboxInit ==
    /\ events = {} /\ sequence = 0
    /\ writer = [w \in Writers |-> NoTransaction]
    /\ bridge = [at |-> "poll", page |-> {}, cursor |-> 0]
    /\ ledger = {} /\ sent = {} /\ overtaken = {}
    /\ spent = [emits |-> 0, failures |-> 0]

----------------------------------------------------------------------------
\* append_event.

\* What is stored already is returned.
AppendEvent(w) ==
    /\ writer[w].at = "idle" /\ spent.emits < MaxEmits
    /\ \E e \in EventIds :
        writer' = IF Stored(e) THEN writer
                  ELSE [writer EXCEPT ![w] = [at |-> "insert", event |-> e]]
    /\ Spend("emits")
    /\ UNCHANGED <<events, sequence, bridge, ledger, sent, overtaken>>

\* The insert draws a sequence number, which is spent in any case.
Insert(w) ==
    /\ writer[w].at = "insert"
    /\ sequence' = sequence + 1
    /\ writer' = [writer EXCEPT ![w] = [at       |-> "commit",
                                       event    |-> writer[w].event,
                                       sequence |-> sequence + 1]]
    /\ UNCHANGED <<events, bridge, ledger, sent, overtaken, spent>>

\* The bridge has read an event beyond number n.
ReadBeyond(n) == \E m \in bridge.page \cup {bridge.cursor} : n < m

Commit(w) ==
    /\ writer[w].at = "commit" /\ ~Stored(writer[w].event)
    /\ events' = events \cup {[sequence     |-> writer[w].sequence,
                               id           |-> writer[w].event,
                               acknowledged |-> FALSE]}
    /\ overtaken' = IF ReadBeyond(writer[w].sequence) THEN overtaken \cup {writer[w].event}
                    ELSE overtaken
    /\ writer' = [writer EXCEPT ![w] = NoTransaction]
    /\ UNCHANGED <<sequence, bridge, ledger, sent, spent>>

\* Of two inserts of one id the later waits for the other, and raises once that has committed.
Collide(w) ==
    /\ writer[w].at = "commit" /\ Stored(writer[w].event)
    /\ writer' = [writer EXCEPT ![w] = NoTransaction]
    /\ UNCHANGED <<events, sequence, bridge, ledger, sent, overtaken, spent>>

\* The transaction fails, or the process stops.
Abort(w) ==
    /\ writer[w].at # "idle" /\ spent.failures < MaxFailures
    /\ writer' = [writer EXCEPT ![w] = NoTransaction]
    /\ Spend("failures")
    /\ UNCHANGED <<events, sequence, bridge, ledger, sent, overtaken>>

----------------------------------------------------------------------------
\* list_events and acknowledge_event, as the bridge calls them.

After(n) == {r.sequence : r \in {q \in events : q.sequence > n}}
Before(n) == {m \in After(0) : m < n}

\* Faulty variant: the newest events, up to the limit.
Newest(cursor) == {n \in After(cursor) : Cardinality(After(n)) < Limit}

\* Faulty variant: the limit counts what the cursor has passed already.
LimitedFirst(cursor) == {n \in After(cursor) : Cardinality(Before(n)) < Limit}

\* list_events: the next events in order, up to the limit.
ListEvents(cursor) == {n \in After(cursor) : Cardinality(Before(n) \cap After(cursor)) < Limit}

Poll ==
    /\ bridge.at = "poll" /\ ListEvents(bridge.cursor) # {}
    /\ bridge' = [bridge EXCEPT !.at = "send", !.page = ListEvents(bridge.cursor)]
    /\ UNCHANGED <<events, sequence, writer, ledger, sent, overtaken, spent>>

\* What the ledger has is not sent again.
Send ==
    /\ bridge.at = "send"
    /\ \E r \in events :
        /\ Current(r)
        /\ sent' = IF r.id \in ledger THEN sent ELSE sent \cup {r.id}
    /\ bridge' = [bridge EXCEPT !.at = "record"]
    /\ UNCHANGED <<events, sequence, writer, ledger, overtaken, spent>>

RecordDelivery ==
    /\ bridge.at = "record"
    /\ \E r \in events : Current(r) /\ ledger' = ledger \cup {r.id}
    /\ bridge' = [bridge EXCEPT !.at = "acknowledge"]
    /\ UNCHANGED <<events, sequence, writer, sent, overtaken, spent>>

\* acknowledge_event: an event that has been acknowledged stays so.
Acknowledge ==
    /\ bridge.at = "acknowledge"
    /\ \E r \in events :
        /\ Current(r)
        /\ events' = (events \ {r}) \cup {[r EXCEPT !.acknowledged = TRUE]}
    /\ bridge' = [bridge EXCEPT !.at = "advance"]
    /\ UNCHANGED <<sequence, writer, ledger, sent, overtaken, spent>>

Advance ==
    /\ bridge.at = "advance"
    /\ \E r \in events :
        /\ Current(r)
        /\ bridge' = [at     |-> IF bridge.page = {r.sequence} THEN "poll" ELSE "send",
                      page   |-> bridge.page \ {r.sequence},
                      cursor |-> r.sequence]
    /\ UNCHANGED <<events, sequence, writer, ledger, sent, overtaken, spent>>

\* A send or a call fails, or the bridge stops: it reads again from its cursor.
BridgeRestart ==
    /\ bridge.at # "poll" /\ spent.failures < MaxFailures
    /\ bridge' = [bridge EXCEPT !.at = "poll", !.page = {}]
    /\ Spend("failures")
    /\ UNCHANGED <<events, sequence, writer, ledger, sent, overtaken>>

----------------------------------------------------------------------------
Writes(w) == Insert(w) \/ Commit(w) \/ Collide(w)
Delivers == Poll \/ Send \/ RecordDelivery \/ Acknowledge \/ Advance

OutboxNext ==
    \/ \E w \in Writers : AppendEvent(w) \/ Writes(w) \/ Abort(w)
    \/ Delivers
    \/ BridgeRestart

\* A transaction that was begun ends, and the bridge goes on reading.
OutboxSpec ==
    /\ OutboxInit /\ [][OutboxNext]_outboxVars
    /\ WF_outboxVars(Delivers)
    /\ \A w \in Writers : WF_outboxVars(Writes(w))

----------------------------------------------------------------------------
Transactions ==
    {NoTransaction} \cup [at : {"insert"}, event : EventIds]
                    \cup [at : {"commit"}, event : EventIds, sequence : 1 .. sequence]

\* The shape of the state: rows, transactions and the place of the bridge.
OutboxTypeOK ==
    /\ sequence \in Nat
    /\ events \subseteq [sequence : 1 .. sequence, id : EventIds, acknowledged : BOOLEAN]
    /\ writer \in [Writers -> Transactions]
    /\ bridge \in [at     : {"poll", "send", "record", "acknowledge", "advance"},
                   page   : SUBSET (1 .. sequence),
                   cursor : 0 .. sequence]
    /\ ledger \subseteq EventIds /\ sent \subseteq EventIds /\ overtaken \subseteq EventIds
    /\ spent \in [emits : 0 .. MaxEmits, failures : 0 .. MaxFailures]

\* The cursor never passes an event the operator has not been sent: what lies behind it has
\* been sent, recorded and acknowledged, whatever was retried or restarted, unless the event
\* was committed only after a page already held a later one.
NothingIsPassedOver ==
    \A r \in events :
        r.sequence <= bridge.cursor /\ r.id \notin overtaken =>
            r.acknowledged /\ r.id \in ledger \cap sent

\* Every event that is committed in its turn reaches the operator and is acknowledged in the
\* end, although sends fail, the bridge restarts and pages are limited.
EventsAreDelivered ==
    \A e \in EventIds :
        Stored(e) ~> (e \in overtaken \/ \E r \in events : r.id = e /\ r.acknowledged)

=============================================================================
