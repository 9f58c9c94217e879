--------------------------- MODULE CodexTurn_proofs ---------------------------
(***************************************************************************)
(* A turn of Codex for any callers and bounds.  One invariant follows a    *)
(* thread from the response that names it through the journal to the turn  *)
(* that is asked for; it holds whatever the server writes, in whatever     *)
(* order.  A second one follows what the server of one call writes, to the *)
(* answer the call returns.                                                *)
(***************************************************************************)
EXTENDS CodexTurn, SequenceTheorems, TLAPS

\* What a response names to be recorded is a thread.
ThreadsAreNamed ==
    \A c \in Callers : call[c].at \in {"record", "write", "replace"} => call[c].thread # 0

\* One call at a time writes the journal, if none is written, and from a file of its own.
JournalIsWrittenOnce ==
    \A c \in Callers : call[c].at \in {"write", "replace"} =>
        /\ journal = 0
        /\ \A d \in Callers \ {c} : call[d].at \notin {"write", "replace"}
        /\ call[c].at = "replace" => temporary = call[c].thread

\* A turn is asked for on the journaled thread.
TurnsAreAskedForThere ==
    \A c \in Callers :
        /\ call[c].at \in {"unlink", "ask"} => call[c].thread = journal /\ journal # 0
        /\ server[c].owes = 3 => server[c].thread = journal /\ journal # 0

TurnsAreThere == \A i \in 1 .. Len(turns) : turns[i].thread = journal /\ journal # 0

Bound == JournalIsWrittenOnce /\ TurnsAreAskedForThere /\ TurnsAreThere

IInv == TypeOK /\ ThreadsAreNamed /\ (~together => Bound)

----------------------------------------------------------------------------
\* The sets of the fields by name: a step on a record need not look into them.
Flags == BOOLEAN
Owed == 0 .. 3

LEMMA FieldsTyped ==
    /\ TRUE \in Flags /\ FALSE \in Flags
    /\ 0 \in Owed /\ 1 \in Owed /\ 2 \in Owed /\ 3 \in Owed
    /\ Servers = [up : Flags, owes : Owed, thread : Nat, turn : Nat, said : Nat,
                  status : Statuses, asking : Flags]
    BY DEF Flags, Owed, Servers

LEMMA ConstantsTyped ==
    /\ Uncalled \in Calls
    /\ NoServer \in Servers
    /\ [Uncalled EXCEPT !.at = "raised"] \in Calls
    /\ <<>> \in Seq(Messages) /\ <<>> \in Seq(Turns)
    BY DEF Uncalled, NoServer, NoItem, Calls, Servers, Phases, Statuses, Items

LEMMA CallsStay ==
    ASSUME NEW r \in Calls, NEW at \in Phases, NEW n \in Nat
    PROVE  /\ [r EXCEPT !.at = at] \in Calls
           /\ [r EXCEPT !.at = at, !.thread = n] \in Calls
           /\ [r EXCEPT !.at = at, !.turn = n] \in Calls
           /\ \A item \in Items : [r EXCEPT !.last = item] \in Calls
           /\ \A status \in Statuses : [r EXCEPT !.at = at, !.status = status] \in Calls
    BY DEF Calls

LEMMA ServersStay ==
    ASSUME NEW r \in Servers, NEW owes \in Owed, NEW n \in Nat, NEW flag \in Flags,
           NEW status \in Statuses
    PROVE  /\ [r EXCEPT !.owes = owes] \in Servers
           /\ [r EXCEPT !.owes = owes, !.thread = n] \in Servers
           /\ [r EXCEPT !.up = flag, !.owes = owes] \in Servers
           /\ [r EXCEPT !.up = flag, !.asking = flag] \in Servers
           /\ [r EXCEPT !.asking = flag] \in Servers
           /\ [r EXCEPT !.turn = n, !.status = status] \in Servers
           /\ [r EXCEPT !.status = status] \in Servers
           /\ [r EXCEPT !.said = n] \in Servers
<1> USE FieldsTyped
<1>1. [r EXCEPT !.owes = owes] \in Servers
    OBVIOUS
<1>2. [r EXCEPT !.owes = owes, !.thread = n] \in Servers
    OBVIOUS
<1>3. [r EXCEPT !.up = flag, !.owes = owes] \in Servers
    OBVIOUS
<1>4. [r EXCEPT !.up = flag, !.asking = flag] \in Servers
    OBVIOUS
<1>5. [r EXCEPT !.asking = flag] \in Servers
    OBVIOUS
<1>6. [r EXCEPT !.turn = n, !.status = status] \in Servers
    OBVIOUS
<1>7. [r EXCEPT !.status = status] \in Servers
    OBVIOUS
<1>8. [r EXCEPT !.said = n] \in Servers
    OBVIOUS
<1> QED
    BY <1>1, <1>2, <1>3, <1>4, <1>5, <1>6, <1>7, <1>8

LEMMA BudgetsStay ==
    ASSUME budget \in Budgets
    PROVE  /\ [budget EXCEPT !.calls = @ + 1] \in Budgets
           /\ [budget EXCEPT !.items = @ + 1] \in Budgets
           /\ [budget EXCEPT !.requests = @ + 1] \in Budgets
           /\ [budget EXCEPT !.crashes = @ + 1] \in Budgets
    BY DEF Budgets

\* A turn that ends stays on its thread.
LEMMA TurnsStay ==
    ASSUME TypeOK, NEW i, turns' = [turns EXCEPT ![i].ended = TRUE]
    PROVE  /\ turns' \in Seq(Turns)
           /\ Len(turns') = Len(turns)
           /\ \A j \in 1 .. Len(turns) : turns'[j].thread = turns[j].thread
<1>1. Len(turns) \in Nat /\ turns \in [1 .. Len(turns) -> Turns]
    BY DEF TypeOK
<1>2. turns' \in [1 .. Len(turns) -> Turns]
    BY <1>1 DEF Turns
<1>3. turns' \in Seq(Turns) /\ Len(turns') = Len(turns)
    BY <1>1, <1>2
<1> QED
    BY <1>1, <1>3 DEF Turns

LEMMA InitTypeOK == Init => TypeOK
<1> SUFFICES ASSUME Init PROVE TypeOK
    OBVIOUS
<1>1. /\ call \in [Callers -> Calls] /\ server \in [Callers -> Servers]
      /\ pipe \in [Callers -> Seq(Messages)] /\ turns \in Seq(Turns)
    BY ConstantsTyped DEF Init
<1>2. budget \in Budgets
    BY DEF Init, Budgets
<1> QED
    BY <1>1, <1>2 DEF Init, TypeOK

\* What goes through a pipe is a message.
LEMMA SendTyped ==
    ASSUME TypeOK, NEW c \in Callers, NEW m \in Messages, Send(c, m)
    PROVE  pipe' \in [Callers -> Seq(Messages)]
<1>1. Append(pipe[c], m) \in Seq(Messages)
    BY AppendProperties DEF TypeOK
<1> QED
    BY <1>1 DEF Send, TypeOK

LEMMA LineTyped ==
    ASSUME TypeOK, NEW c \in Callers, NEW kind, Reads(c, kind)
    PROVE  /\ Line(c) \in Messages
           /\ Line(c).kind = kind
           /\ pipe[c] # <<>>
<1>1. pipe[c] \in Seq(Messages)
    BY DEF TypeOK
<1> QED
    BY <1>1, HeadTailProperties DEF Reads, Line

\* Taking a line, passing it over and giving up.
LEMMA TakeTyped ==
    ASSUME TypeOK, NEW c \in Callers, pipe[c] # <<>>, Take(c)
    PROVE  pipe' \in [Callers -> Seq(Messages)]
<1>1. Tail(pipe[c]) \in Seq(Messages)
    BY HeadTailProperties DEF TypeOK
<1> QED
    BY <1>1 DEF Take, TypeOK

\* The part of the state that a step of one call changes.
Exchange ==
    /\ call \in [Callers -> Calls]
    /\ server \in [Callers -> Servers]
    /\ pipe \in [Callers -> Seq(Messages)]

LEMMA PassOverTyped ==
    ASSUME TypeOK, NEW c \in Callers, pipe[c] # <<>>, PassOver(c)
    PROVE  Exchange'
    BY TakeTyped DEF PassOver, Exchange, TypeOK

LEMMA RaiseTyped ==
    ASSUME TypeOK, NEW c \in Callers, Raise(c)
    PROVE  Exchange'
    BY ConstantsTyped DEF Raise, Exchange, TypeOK

LEMMA GotoTyped ==
    ASSUME TypeOK, NEW c \in Callers, NEW at \in Phases, Goto(c, at)
    PROVE  call' \in [Callers -> Calls]
    BY CallsStay DEF Goto, TypeOK

----------------------------------------------------------------------------
\* A line that is read leaves the shape of the state as it is.
LEMMA ReadResponseTyped ==
    ASSUME TypeOK, NEW c \in Callers, ReadResponse(c)
    PROVE  Exchange'
<1>1. Line(c) \in Messages /\ Line(c).kind = "response" /\ pipe[c] # <<>>
    BY LineTyped DEF ReadResponse
<1>2. Line(c).value \in Nat
    BY <1>1 DEF Messages
<1>3. /\ call \in [Callers -> Calls] /\ server \in [Callers -> Servers] /\ journal \in Nat
      /\ call[c] \in Calls /\ server[c] \in Servers
    BY DEF TypeOK
<1>4. "thread" \in Phases /\ "record" \in Phases /\ "await" \in Phases
    BY DEF Phases
<1>5. ASSUME /\ call' = [call EXCEPT ![c].at = "thread", ![c].thread = journal]
             /\ server' = [server EXCEPT ![c].owes = 2, ![c].thread = journal]
             /\ Take(c)
      PROVE  Exchange'
    <2>1. call' = [call EXCEPT ![c] = [call[c] EXCEPT !.at = "thread", !.thread = journal]]
        BY <1>3, <1>5
    <2>2. server' = [server EXCEPT ![c] = [server[c] EXCEPT !.owes = 2, !.thread = journal]]
        BY <1>3, <1>5
    <2>3. call' \in [Callers -> Calls]
        BY <1>3, <1>4, <2>1, CallsStay
    <2>4. server' \in [Callers -> Servers]
        <3>1. [server[c] EXCEPT !.owes = 2, !.thread = journal] \in Servers
            BY <1>3, FieldsTyped, ServersStay
        <3> QED
            BY <1>3, <2>2, <3>1
    <2> QED
        BY <1>1, <1>5, <2>3, <2>4, TakeTyped DEF Exchange
<1>6. ASSUME call' = [call EXCEPT ![c].at = "record", ![c].thread = Line(c).value],
             Take(c), UNCHANGED server
      PROVE  Exchange'
    <2>1. call' = [call EXCEPT ![c] = [call[c] EXCEPT !.at = "record", !.thread = Line(c).value]]
        BY <1>3, <1>6
    <2>2. call' \in [Callers -> Calls]
        BY <1>2, <1>3, <1>4, <2>1, CallsStay
    <2> QED
        BY <1>1, <1>3, <1>6, <2>2, TakeTyped DEF Exchange
<1>7. ASSUME call' = [call EXCEPT ![c].at = "await", ![c].turn = Line(c).value],
             Take(c), UNCHANGED server
      PROVE  Exchange'
    <2>1. call' = [call EXCEPT ![c] = [call[c] EXCEPT !.at = "await", !.turn = Line(c).value]]
        BY <1>3, <1>7
    <2>2. call' \in [Callers -> Calls]
        BY <1>2, <1>3, <1>4, <2>1, CallsStay
    <2> QED
        BY <1>1, <1>3, <1>7, <2>2, TakeTyped DEF Exchange
<1> QED
    BY <1>5, <1>6, <1>7, RaiseTyped DEF ReadResponse

LEMMA ReadsTyped ==
    ASSUME TypeOK, NEW c \in Callers,
           \/ ReadRequest(c) \/ ReadItem(c) \/ ReadCompletion(c) \/ ReadError(c) \/ Timeout(c)
    PROVE  Exchange'
<1>1. /\ call \in [Callers -> Calls] /\ server \in [Callers -> Servers]
      /\ call[c] \in Calls /\ server[c] \in Servers
    BY DEF TypeOK
<1>2. CASE ReadRequest(c)
    <2>1. CASE Unanswerable(c)
        BY <1>2, <2>1, RaiseTyped DEF ReadRequest
    <2>2. CASE ~Unanswerable(c)
        <3>1. server' = [server EXCEPT ![c] = [server[c] EXCEPT !.asking = FALSE]]
              /\ Take(c) /\ UNCHANGED call /\ pipe[c] # <<>>
            BY <1>2, <2>2, LineTyped DEF ReadRequest
        <3>2. [server[c] EXCEPT !.asking = FALSE] \in Servers
            BY <1>1, FieldsTyped, ServersStay
        <3> QED
            BY <1>1, <3>1, <3>2, TakeTyped DEF Exchange
    <2> QED
        BY <2>1, <2>2
<1>3. CASE ReadItem(c)
    <2>1. Line(c) \in Messages /\ Line(c).kind = "item" /\ pipe[c] # <<>>
        BY <1>3, LineTyped DEF ReadItem
    <2>2. Line(c).item \in Items
        BY <2>1 DEF Messages
    <2>3. CASE call[c].at # "await"
        BY <1>3, <2>1, <2>3, PassOverTyped DEF ReadItem
    <2>4. CASE call[c].at = "await"
        <3>1. call' = [call EXCEPT ![c] = [call[c] EXCEPT !.last = Line(c).item]]
              /\ Take(c) /\ UNCHANGED server
            BY <1>3, <2>4 DEF ReadItem
        <3>2. [call[c] EXCEPT !.last = Line(c).item] \in Calls
            BY <1>1, <2>2 DEF Calls
        <3> QED
            BY <1>1, <2>1, <3>1, <3>2, TakeTyped DEF Exchange
    <2> QED
        BY <2>3, <2>4
<1>4. CASE ReadCompletion(c)
    <2>1. Line(c) \in Messages /\ Line(c).kind = "completed" /\ pipe[c] # <<>>
        BY <1>4, LineTyped DEF ReadCompletion
    <2>2. Line(c).status \in Statuses
        BY <2>1 DEF Messages
    <2>3. ASSUME Return(c, Line(c).status)
          PROVE  Exchange'
        <3>1. call' = [call EXCEPT ![c] = [call[c] EXCEPT !.at = "returned",
                                                         !.status = Line(c).status]]
            BY <1>1, <2>3 DEF Return
        <3>2. server' = [server EXCEPT ![c] = [server[c] EXCEPT !.up = FALSE,
                                                               !.asking = FALSE]]
            BY <1>1, <2>3 DEF Return
        <3>3. [call[c] EXCEPT !.at = "returned", !.status = Line(c).status] \in Calls
            BY <1>1, <2>2 DEF Calls, Phases
        <3>4. [server[c] EXCEPT !.up = FALSE, !.asking = FALSE] \in Servers
            BY <1>1, FieldsTyped, ServersStay
        <3>5. pipe' \in [Callers -> Seq(Messages)]
            BY <2>3, ConstantsTyped DEF Return, TypeOK
        <3> QED
            BY <1>1, <3>1, <3>2, <3>3, <3>4, <3>5 DEF Exchange
    <2> QED
        BY <1>4, <2>1, <2>3, PassOverTyped DEF ReadCompletion
<1>5. CASE ReadError(c)
    BY <1>5, LineTyped, PassOverTyped, RaiseTyped DEF ReadError
<1>6. CASE Timeout(c)
    BY <1>6, RaiseTyped DEF Timeout
<1> QED
    BY <1>2, <1>3, <1>4, <1>5, <1>6

LEMMA ReadsTypeOK ==
    ASSUME TypeOK, NEW c \in Callers,
           \/ ReadResponse(c) \/ ReadRequest(c) \/ ReadItem(c) \/ ReadCompletion(c)
           \/ ReadError(c) \/ Timeout(c)
    PROVE  TypeOK'
<1>1. Exchange'
    BY ReadResponseTyped, ReadsTyped
<1>2. UNCHANGED <<journal, temporary, threads, turns, together, budget>>
    BY DEF ReadResponse, ReadRequest, ReadItem, ReadCompletion, ReadError, Timeout
<1> QED
    BY <1>1, <1>2 DEF TypeOK, Exchange

\* So does a step towards the turn.
LEMMA AsksTypeOK ==
    ASSUME TypeOK, NEW c \in Callers,
           \/ Start(c) \/ Record(c) \/ WriteTemporary(c) \/ ReplaceJournal(c)
           \/ Unlink(c) \/ AskForTurn(c)
    PROVE  TypeOK'
<1>1. /\ call \in [Callers -> Calls] /\ server \in [Callers -> Servers]
      /\ call[c] \in Calls /\ server[c] \in Servers
      /\ call[c].thread \in Nat
    BY DEF TypeOK, Calls
<1>2. CASE Start(c)
    <2>1. call' = [call EXCEPT ![c] = [call[c] EXCEPT !.at = "initialize"]]
        BY <1>1, <1>2 DEF Start
    <2>2. server' = [server EXCEPT ![c] = [server[c] EXCEPT !.up = TRUE, !.owes = 1]]
        BY <1>1, <1>2 DEF Start
    <2>3. [call[c] EXCEPT !.at = "initialize"] \in Calls
        BY <1>1 DEF Calls, Phases
    <2>4. [server[c] EXCEPT !.up = TRUE, !.owes = 1] \in Servers
        BY <1>1, FieldsTyped, ServersStay
    <2>5. budget' \in Budgets
        BY <1>2, BudgetsStay DEF Start, TypeOK
    <2> QED
        BY <1>1, <1>2, <2>1, <2>2, <2>3, <2>4, <2>5 DEF Start, TypeOK
<1>3. CASE Record(c)
    <2>1. together' \in BOOLEAN
        BY <1>3 DEF Record, TypeOK, Recording
    <2>2. "write" \in Phases /\ "ask" \in Phases
        BY DEF Phases
    <2>3. Exchange'
        BY <1>1, <1>3, <2>2, GotoTyped, RaiseTyped DEF Record, Exchange, TypeOK
    <2> QED
        BY <1>3, <2>1, <2>3 DEF Record, TypeOK, Exchange
<1>4. CASE WriteTemporary(c)
    BY <1>1, <1>4, GotoTyped DEF WriteTemporary, TypeOK, Phases
<1>5. CASE ReplaceJournal(c)
    <2>1. "unlink" \in Phases
        BY DEF Phases
    <2>2. Exchange'
        BY <1>1, <1>5, <2>1, GotoTyped, RaiseTyped DEF ReplaceJournal, Exchange, TypeOK
    <2> QED
        BY <1>5, <2>2 DEF ReplaceJournal, TypeOK, Exchange
<1>6. CASE Unlink(c)
    BY <1>1, <1>6, GotoTyped DEF Unlink, TypeOK, Phases
<1>7. CASE AskForTurn(c)
    <2>1. server' = [server EXCEPT ![c] = [server[c] EXCEPT !.owes = 3,
                                                           !.thread = call[c].thread]]
        BY <1>1, <1>7 DEF AskForTurn
    <2>2. [server[c] EXCEPT !.owes = 3, !.thread = call[c].thread] \in Servers
        BY <1>1, FieldsTyped, ServersStay
    <2> QED
        BY <1>1, <1>7, <2>1, <2>2, GotoTyped DEF AskForTurn, TypeOK, Phases
<1> QED
    BY <1>2, <1>3, <1>4, <1>5, <1>6, <1>7

\* And what the server does.
LEMMA ServerSendsTypeOK ==
    ASSUME TypeOK, NEW c \in Callers,
           \/ ServerRefuses(c) \/ ServerAnswers(c) \/ ServerNamesTurn(c)
           \/ TurnSays(c) \/ ServerAsks(c)
    PROVE  TypeOK'
<1>1. /\ server \in [Callers -> Servers] /\ server[c] \in Servers
      /\ server[c].owes \in 0 .. 3 /\ server[c].turn \in Nat /\ server[c].said \in Nat
      /\ threads \in Nat
    BY DEF TypeOK, Servers
<1>2. ASSUME server' = [server EXCEPT ![c].owes = 0]
      PROVE  server' \in [Callers -> Servers]
    <2>1. [server[c] EXCEPT !.owes = 0] \in Servers
        BY <1>1, FieldsTyped, ServersStay
    <2>2. server' = [server EXCEPT ![c] = [server[c] EXCEPT !.owes = 0]]
        BY <1>1, <1>2
    <2> QED
        BY <1>1, <2>1, <2>2
<1>3. CASE ServerRefuses(c)
    <2>1. Response(server[c].owes, FALSE, 0) \in Messages
        BY <1>1, <1>3 DEF ServerRefuses, Response, Messages
    <2> QED
        BY <1>2, <1>3, <2>1, SendTyped DEF ServerRefuses, TypeOK
<1>4. CASE ServerAnswers(c)
    <2> DEFINE Done == Response(1, TRUE, 0)
    <2> DEFINE Names(t) == Response(2, TRUE, t)
    <2>1. Done \in Messages
        BY DEF Response, Messages
    <2>2. \A t \in Nat : t # 0 => Names(t) \in Messages
        BY DEF Response, Messages
    <2>3. \/ Send(c, Done) /\ UNCHANGED threads
          \/ (\E t \in 1 .. threads : Send(c, Names(t))) /\ UNCHANGED threads
          \/ Send(c, Names(threads + 1)) /\ threads' = threads + 1
        BY <1>4 DEF ServerAnswers
    <2> HIDE DEF Done, Names
    <2>4. pipe' \in [Callers -> Seq(Messages)]
        BY <1>1, <2>1, <2>2, <2>3, SendTyped
    <2>5. threads' \in Nat
        BY <1>1, <2>3
    <2> QED
        BY <1>2, <1>4, <2>4, <2>5 DEF ServerAnswers, TypeOK
<1>5. CASE ServerNamesTurn(c)
    <2>1. Response(3, TRUE, server[c].turn) \in Messages
        BY <1>1 DEF Response, Messages
    <2> QED
        BY <1>2, <1>5, <2>1, SendTyped DEF ServerNamesTurn, TypeOK
<1>6. CASE TurnSays(c)
    <2>1. Item([turn |-> server[c].turn, n |-> server[c].said + 1]) \in Messages
        BY <1>1 DEF Item, Messages, Items
    <2>2. [server[c] EXCEPT !.said = server[c].said + 1] \in Servers
        BY <1>1 DEF Servers
    <2>3. server' = [server EXCEPT ![c] = [server[c] EXCEPT !.said = server[c].said + 1]]
        BY <1>1, <1>6 DEF TurnSays
    <2>4. budget' \in Budgets
        BY <1>6, BudgetsStay DEF TurnSays, TypeOK
    <2> QED
        BY <1>1, <1>6, <2>1, <2>2, <2>3, <2>4, SendTyped DEF TurnSays, TypeOK
<1>7. CASE ServerAsks(c)
    <2>1. \A id \in {3, 4} : Request(id, id = 3) \in Messages
        BY DEF Request, Messages
    <2>2. pipe' \in [Callers -> Seq(Messages)]
        BY <1>7, <2>1, SendTyped DEF ServerAsks
    <2>3. [server[c] EXCEPT !.asking = TRUE] \in Servers
        BY <1>1, FieldsTyped, ServersStay
    <2>4. budget' \in Budgets
        BY <1>7, BudgetsStay DEF ServerAsks, TypeOK
    <2> QED
        BY <1>1, <1>7, <2>2, <2>3, <2>4 DEF ServerAsks, TypeOK
<1> QED
    BY <1>3, <1>4, <1>5, <1>6, <1>7

LEMMA TurnsTypeOK ==
    ASSUME TypeOK, NEW c \in Callers,
           TurnBegins(c) \/ TurnEnds(c) \/ OtherTurnSays(c) \/ OtherTurnEnds(c)
    PROVE  TypeOK'
<1>1. /\ server \in [Callers -> Servers] /\ server[c] \in Servers
      /\ server[c].thread \in Nat /\ server[c].turn \in Nat
      /\ Len(turns) \in Nat
    BY DEF TypeOK, Servers
<1>2. CASE TurnBegins(c)
    <2>1. [thread |-> server[c].thread, ended |-> FALSE] \in Turns
        BY <1>1 DEF Turns
    <2>2. turns' \in Seq(Turns)
        BY <1>2, <2>1, AppendProperties DEF TurnBegins, TypeOK
    <2>3. server' = [server EXCEPT ![c] = [server[c] EXCEPT !.turn = Len(turns) + 1,
                                                           !.status = "running"]]
        BY <1>1, <1>2 DEF TurnBegins
    <2>4. [server[c] EXCEPT !.turn = Len(turns) + 1, !.status = "running"] \in Servers
        <3>1. Len(turns) + 1 \in Nat /\ "running" \in Statuses
            BY <1>1 DEF Statuses
        <3> QED
            BY <1>1, <3>1, FieldsTyped, ServersStay
    <2> QED
        BY <1>1, <1>2, <2>2, <2>3, <2>4 DEF TurnBegins, TypeOK
<1>3. CASE TurnEnds(c)
    <2>1. Failed \in Messages
          /\ \A status \in Statuses : Completed(server[c].turn, status) \in Messages
        BY <1>1 DEF Failed, Completed, Messages
    <2>2. \A status \in {"completed", "interrupted", "failed"} :
            status \in Statuses /\ [server[c] EXCEPT !.status = status] \in Servers
        BY <1>1 DEF Servers, Statuses
    <2>3. PICK status \in {"completed", "interrupted", "failed"} :
            server' = [server EXCEPT ![c] = [server[c] EXCEPT !.status = status]]
        BY <1>1, <1>3 DEF TurnEnds
    <2>4. pipe' \in [Callers -> Seq(Messages)]
        BY <1>3, <2>1, <2>2, SendTyped DEF TurnEnds
    <2>5. turns' \in Seq(Turns)
        BY <1>3, TurnsStay DEF TurnEnds
    <2> QED
        BY <1>1, <1>3, <2>2, <2>3, <2>4, <2>5 DEF TurnEnds, TypeOK
<1>4. CASE OtherTurnSays(c)
    <2>1. \A i \in 1 .. Len(turns) : Item([turn |-> i, n |-> 0]) \in Messages
        BY <1>1 DEF Item, Messages, Items
    <2>2. pipe' \in [Callers -> Seq(Messages)]
        BY <1>4, <2>1, SendTyped DEF OtherTurnSays
    <2>3. budget' \in Budgets
        BY <1>4, BudgetsStay DEF OtherTurnSays, TypeOK
    <2> QED
        BY <1>4, <2>2, <2>3 DEF OtherTurnSays, TypeOK
<1>5. CASE OtherTurnEnds(c)
    <2>1. \A i \in 1 .. Len(turns) : Completed(i, "completed") \in Messages
        BY <1>1 DEF Completed, Messages, Statuses
    <2>2. pipe' \in [Callers -> Seq(Messages)]
        BY <1>5, <2>1, SendTyped DEF OtherTurnEnds
    <2>3. turns' \in Seq(Turns)
        BY <1>5, TurnsStay DEF OtherTurnEnds
    <2> QED
        BY <1>5, <2>2, <2>3 DEF OtherTurnEnds, TypeOK
<1> QED
    BY <1>2, <1>3, <1>4, <1>5

LEMMA CrashTypeOK ==
    ASSUME TypeOK, Crash
    PROVE  TypeOK'
<1>1. call' \in [Callers -> Calls] /\ server' \in [Callers -> Servers]
    BY ConstantsTyped DEF Crash, TypeOK
<1>2. pipe' \in [Callers -> Seq(Messages)]
    BY ConstantsTyped DEF Crash
<1>3. budget' \in Budgets
    BY BudgetsStay DEF Crash, TypeOK
<1> QED
    BY <1>1, <1>2, <1>3 DEF Crash, TypeOK

LEMMA NextTypeOK == TypeOK /\ [Next]_vars => TypeOK'
<1>1. TypeOK /\ UNCHANGED vars => TypeOK'
    BY DEF TypeOK, vars
<1> QED
    BY <1>1, ReadsTypeOK, AsksTypeOK, ServerSendsTypeOK, TurnsTypeOK, CrashTypeOK
    DEF Next, Proceeds, Serves

\* Calls, pipes, servers, threads and turns keep their type.
THEOREM Typing == Spec => []TypeOK
    BY InitTypeOK, NextTypeOK, PTL DEF Spec

----------------------------------------------------------------------------
LEMMA InitIInv == Init => IInv
<1> SUFFICES ASSUME Init PROVE IInv
    OBVIOUS
<1>1. /\ \A c \in Callers : call[c].at = "idle" /\ server[c].owes = 0
      /\ Len(turns) = 0
    BY DEF Init, Uncalled, NoServer
<1> QED
    BY <1>1, InitTypeOK
    DEF IInv, Bound, ThreadsAreNamed, JournalIsWrittenOnce, TurnsAreAskedForThere, TurnsAreThere

\* A step of a call that neither touches the journal nor goes towards the turn: every call is
\* where it was, or at a place the invariant says nothing of, and so is every server.
Apart ==
    /\ \A c \in Callers :
        /\ call'[c].at \in {"record", "write", "replace", "unlink", "ask"} =>
            /\ call'[c].at = call[c].at /\ call'[c].thread = call[c].thread
        /\ server'[c].owes = 3 =>
            /\ server[c].owes = 3 /\ server'[c].thread = server[c].thread
    /\ UNCHANGED <<journal, temporary, together>>

LEMMA ApartKeeps ==
    ASSUME TypeOK, IInv, TypeOK', Apart,
           ~together' /\ TurnsAreThere /\ TurnsAreAskedForThere => TurnsAreThere'
    PROVE  IInv'
<1>1. ThreadsAreNamed'
    BY DEF IInv, ThreadsAreNamed, Apart
<1>2. ASSUME ~together'
      PROVE  JournalIsWrittenOnce' /\ TurnsAreAskedForThere'
    <2>1. JournalIsWrittenOnce /\ TurnsAreAskedForThere
        BY <1>2 DEF IInv, Bound, Apart
    <2>2. JournalIsWrittenOnce'
        BY <2>1 DEF JournalIsWrittenOnce, Apart
    <2>3. TurnsAreAskedForThere'
        BY <2>1 DEF TurnsAreAskedForThere, Apart
    <2> QED
        BY <2>2, <2>3
<1>3. ~together' => TurnsAreThere'
    BY DEF IInv, Bound, Apart
<1> QED
    BY <1>1, <1>2, <1>3 DEF IInv, Bound

LEMMA RaiseApart ==
    ASSUME TypeOK, NEW c \in Callers, Raise(c), UNCHANGED <<journal, temporary, together>>
    PROVE  Apart
<1>1. [Uncalled EXCEPT !.at = "raised"].at = "raised" /\ NoServer.owes = 0
    BY DEF Uncalled, NoServer
<1>2. /\ call'[c].at = "raised" /\ server'[c].owes = 0
      /\ \A d \in Callers \ {c} : call'[d] = call[d] /\ server'[d] = server[d]
    BY <1>1 DEF Raise, TypeOK
<1> QED
    BY <1>2 DEF Apart

LEMMA GotoMoves ==
    ASSUME TypeOK, NEW c \in Callers, NEW at \in Phases, Goto(c, at)
    PROVE  /\ call'[c].at = at /\ call'[c].thread = call[c].thread
           /\ \A d \in Callers \ {c} : call'[d] = call[d]
<1>1. call \in [Callers -> Calls] /\ call[c] \in Calls
    BY DEF TypeOK
<1>2. call' = [call EXCEPT ![c] = [call[c] EXCEPT !.at = at]]
    BY <1>1 DEF Goto
<1>3. call'[c] = [call[c] EXCEPT !.at = at]
    BY <1>1, <1>2
<1> QED
    BY <1>1, <1>2, <1>3 DEF Calls

\* What is read without coming to a thread.
LEMMA ReadsApart ==
    ASSUME TypeOK, NEW c \in Callers,
           \/ ReadResponse(c) /\ call'[c].at # "record"
           \/ ReadRequest(c) \/ ReadItem(c) \/ ReadCompletion(c) \/ ReadError(c) \/ Timeout(c)
    PROVE  Apart
<1>1. /\ call \in [Callers -> Calls] /\ server \in [Callers -> Servers]
      /\ call[c] \in Calls /\ server[c] \in Servers
    BY DEF TypeOK
<1>2. UNCHANGED <<journal, temporary, together>>
    BY DEF ReadResponse, ReadRequest, ReadItem, ReadCompletion, ReadError, Timeout
<1>3. Raise(c) => Apart
    BY <1>2, RaiseApart
<1>4. PassOver(c) => Apart
    BY <1>2 DEF PassOver, Apart
<1>5. CASE ReadResponse(c) /\ call'[c].at # "record" /\ ~Raise(c)
    <2>1. CASE Line(c).id = 1
        BY <1>1, <1>2, <1>5, <2>1 DEF ReadResponse, Apart, Calls, Servers
    <2>2. CASE Line(c).id = 2
        BY <1>1, <1>5, <2>2 DEF ReadResponse, Calls
    <2>3. CASE Line(c).id = 3
        BY <1>1, <1>2, <1>5, <2>3 DEF ReadResponse, Apart, Calls
    <2> QED
        BY <1>5, <2>1, <2>2, <2>3 DEF ReadResponse
<1>6. CASE ReadRequest(c) /\ ~Raise(c)
    BY <1>1, <1>2, <1>6 DEF ReadRequest, Apart, Servers
<1>7. CASE ReadItem(c) /\ ~PassOver(c)
    BY <1>1, <1>2, <1>7 DEF ReadItem, Apart, Calls
<1>8. CASE ReadCompletion(c) /\ ~PassOver(c)
    <2>1. Return(c, Line(c).status)
        BY <1>8 DEF ReadCompletion
    <2>2. /\ call'[c].at = "returned"
          /\ server'[c].owes = server[c].owes /\ server'[c].thread = server[c].thread
          /\ \A d \in Callers \ {c} : call'[d] = call[d] /\ server'[d] = server[d]
        BY <1>1, <2>1 DEF Return, Calls, Servers
    <2> QED
        BY <1>2, <2>2 DEF Apart
<1> QED
    BY <1>3, <1>4, <1>5, <1>6, <1>7, <1>8 DEF ReadError, Timeout

\* What the server does: it asks for no turn.
LEMMA ServesApart ==
    ASSUME TypeOK, NEW c \in Callers, Serves(c)
    PROVE  Apart
<1>1. server \in [Callers -> Servers] /\ server[c] \in Servers
    BY DEF TypeOK
<1>2. UNCHANGED <<journal, temporary, together, call>>
    BY DEF Serves, ServerRefuses, ServerAnswers, TurnBegins, ServerNamesTurn, TurnSays,
           ServerAsks, TurnEnds, OtherTurnSays, OtherTurnEnds
<1>3. /\ server'[c].owes = 3 => server[c].owes = 3
      /\ server'[c].thread = server[c].thread
      /\ \A d \in Callers \ {c} : server'[d] = server[d]
    <2>1. CASE ServerRefuses(c) \/ ServerAnswers(c) \/ ServerNamesTurn(c)
        <3>1. server' = [server EXCEPT ![c].owes = 0]
            BY <2>1 DEF ServerRefuses, ServerAnswers, ServerNamesTurn
        <3> QED
            BY <1>1, <3>1 DEF Servers
    <2>2. CASE TurnBegins(c)
        <3>1. server' = [server EXCEPT ![c].turn = Len(turns) + 1, ![c].status = "running"]
            BY <2>2 DEF TurnBegins
        <3> QED
            BY <1>1, <3>1 DEF Servers
    <2>3. CASE TurnSays(c)
        <3>1. server' = [server EXCEPT ![c].said = @ + 1]
            BY <2>3 DEF TurnSays
        <3> QED
            BY <1>1, <3>1 DEF Servers
    <2>4. CASE ServerAsks(c)
        <3>1. server' = [server EXCEPT ![c].asking = TRUE]
            BY <2>4 DEF ServerAsks
        <3> QED
            BY <1>1, <3>1 DEF Servers
    <2>5. CASE TurnEnds(c)
        <3>1. PICK status : server' = [server EXCEPT ![c].status = status]
            BY <2>5 DEF TurnEnds
        <3> QED
            BY <1>1, <3>1 DEF Servers
    <2>6. CASE OtherTurnSays(c) \/ OtherTurnEnds(c)
        BY <2>6 DEF OtherTurnSays, OtherTurnEnds
    <2> QED
        BY <2>1, <2>2, <2>3, <2>4, <2>5, <2>6 DEF Serves
<1> QED
    BY <1>2, <1>3 DEF Apart

LEMMA CrashApart ==
    ASSUME TypeOK, Crash
    PROVE  Apart
<1>1. Uncalled.at = "idle" /\ NoServer.owes = 0
    BY DEF Uncalled, NoServer
<1> QED
    BY <1>1 DEF Crash, Apart

\* Turns stay on their threads, and a new one is on the thread it was asked for on.
LEMMA TurnsStayThere ==
    ASSUME TypeOK, NEW c \in Callers, Serves(c), TurnsAreThere, TurnsAreAskedForThere
    PROVE  TurnsAreThere'
<1>1. UNCHANGED journal /\ Len(turns) \in Nat
    BY ServesApart DEF Apart, TypeOK
<1>2. CASE TurnBegins(c)
    <2>1. [thread |-> server[c].thread, ended |-> FALSE] \in Turns
        BY DEF TypeOK, Servers, Turns
    <2>2. /\ Len(turns') = Len(turns) + 1
          /\ \A i \in 1 .. Len(turns) : turns'[i] = turns[i]
          /\ turns'[Len(turns) + 1].thread = server[c].thread
        BY <1>2, <2>1, AppendProperties DEF TurnBegins, TypeOK
    <2>3. server[c].thread = journal /\ journal # 0
        BY <1>2 DEF TurnBegins, TurnsAreAskedForThere
    <2> QED
        BY <1>1, <2>2, <2>3 DEF TurnsAreThere
<1>3. CASE TurnEnds(c) \/ OtherTurnEnds(c)
    <2>1. PICK i : turns' = [turns EXCEPT ![i].ended = TRUE]
        BY <1>3 DEF TurnEnds, OtherTurnEnds
    <2> QED
        BY <1>1, <2>1, TurnsStay DEF TurnsAreThere
<1>4. CASE UNCHANGED turns
    BY <1>1, <1>4 DEF TurnsAreThere
<1> QED
    BY <1>2, <1>3, <1>4
    DEF Serves, ServerRefuses, ServerAnswers, ServerNamesTurn, TurnSays, ServerAsks, OtherTurnSays

----------------------------------------------------------------------------
\* A thread is named: the call has it to record.
LEMMA ReadThreadIInv ==
    ASSUME IInv, TypeOK', NEW c \in Callers, ReadResponse(c), call'[c].at = "record"
    PROVE  IInv'
<1>1. /\ call \in [Callers -> Calls] /\ server \in [Callers -> Servers]
      /\ call[c] \in Calls /\ server[c] \in Servers /\ TypeOK
    BY DEF IInv, TypeOK
<1>2. Line(c) \in Messages /\ Line(c).kind = "response"
    BY <1>1, LineTyped DEF ReadResponse
<1>3. /\ Line(c).ok /\ Line(c).id = 2
      /\ call' = [call EXCEPT ![c].at = "record", ![c].thread = Line(c).value]
      /\ UNCHANGED <<server, journal, temporary, turns, together>>
    <2>1. ~Raise(c)
        BY <1>1 DEF Raise, Uncalled
    <2> QED
        BY <1>1, <2>1 DEF ReadResponse, Calls
<1>4. Line(c).value # 0
    BY <1>2, <1>3 DEF Messages
<1>5. /\ call'[c].thread = Line(c).value
      /\ \A d \in Callers \ {c} : call'[d] = call[d]
    BY <1>1, <1>3 DEF Calls
<1>6. ThreadsAreNamed'
    BY <1>4, <1>5 DEF IInv, ThreadsAreNamed
<1>7. ASSUME ~together'
      PROVE  Bound'
    <2>1. JournalIsWrittenOnce /\ TurnsAreAskedForThere /\ TurnsAreThere
        BY <1>3, <1>7 DEF IInv, Bound
    <2>2. JournalIsWrittenOnce'
        BY <1>3, <1>5, <2>1 DEF JournalIsWrittenOnce
    <2>3. TurnsAreAskedForThere'
        BY <1>3, <1>5, <2>1 DEF TurnsAreAskedForThere
    <2>4. TurnsAreThere'
        BY <1>3, <2>1 DEF TurnsAreThere
    <2> QED
        BY <2>2, <2>3, <2>4 DEF Bound
<1> QED
    BY <1>6, <1>7 DEF IInv

\* The journal is looked into, written, and the turn asked for.
LEMMA RecordIInv ==
    ASSUME IInv, TypeOK', NEW c \in Callers, Record(c)
    PROVE  IInv'
<1>1. TypeOK /\ "write" \in Phases /\ "ask" \in Phases
    BY DEF IInv, Phases
<1>2. CASE Raise(c) /\ UNCHANGED together
    <2>1. Apart
        BY <1>1, <1>2, RaiseApart DEF Record
    <2>2. TurnsAreThere => TurnsAreThere'
        BY DEF Record, TurnsAreThere
    <2> QED
        BY <1>1, <2>1, <2>2, ApartKeeps
<1>3. CASE journal = 0 /\ Goto(c, "write") /\ together' = (together \/ Recording(c))
    <2>1. /\ call'[c].at = "write" /\ call'[c].thread = call[c].thread
          /\ \A d \in Callers \ {c} : call'[d] = call[d]
          /\ UNCHANGED <<journal, temporary, server, turns>>
        BY <1>1, <1>3, GotoMoves DEF Record
    <2>2. ThreadsAreNamed'
        BY <2>1 DEF IInv, ThreadsAreNamed, Record
    <2>3. ASSUME ~together'
          PROVE  Bound'
        <3>1. ~together /\ ~Recording(c)
            BY <1>1, <1>3, <2>3 DEF TypeOK
        <3>2. JournalIsWrittenOnce /\ TurnsAreAskedForThere /\ TurnsAreThere
            BY <3>1 DEF IInv, Bound
        <3>3. JournalIsWrittenOnce'
            BY <1>3, <2>1, <3>1, <3>2 DEF JournalIsWrittenOnce, Recording
        <3>4. TurnsAreAskedForThere'
            BY <2>1, <3>2 DEF TurnsAreAskedForThere
        <3>5. TurnsAreThere'
            BY <2>1, <3>2 DEF TurnsAreThere
        <3> QED
            BY <3>3, <3>4, <3>5 DEF Bound
    <2> QED
        BY <2>2, <2>3 DEF IInv
<1>4. CASE journal = call[c].thread /\ Goto(c, "ask") /\ UNCHANGED <<together, pipe, server>>
    <2>1. /\ call'[c].at = "ask" /\ call'[c].thread = call[c].thread
          /\ \A d \in Callers \ {c} : call'[d] = call[d]
          /\ UNCHANGED <<journal, temporary, server, turns, together>>
        BY <1>1, <1>4, GotoMoves DEF Record
    <2>2. call[c].thread # 0
        BY DEF IInv, ThreadsAreNamed, Record
    <2>3. ThreadsAreNamed'
        BY <2>1 DEF IInv, ThreadsAreNamed
    <2>4. ASSUME ~together'
          PROVE  Bound'
        <3>1. JournalIsWrittenOnce /\ TurnsAreAskedForThere /\ TurnsAreThere
            BY <2>1, <2>4 DEF IInv, Bound
        <3>2. JournalIsWrittenOnce'
            BY <2>1, <3>1 DEF JournalIsWrittenOnce
        <3>3. TurnsAreAskedForThere'
            BY <1>4, <2>1, <2>2, <3>1 DEF TurnsAreAskedForThere
        <3>4. TurnsAreThere'
            BY <2>1, <3>1 DEF TurnsAreThere
        <3> QED
            BY <3>2, <3>3, <3>4 DEF Bound
    <2> QED
        BY <2>3, <2>4 DEF IInv
<1> QED
    BY <1>2, <1>3, <1>4 DEF Record

LEMMA WriteTemporaryIInv ==
    ASSUME IInv, TypeOK', NEW c \in Callers, WriteTemporary(c)
    PROVE  IInv'
<1>1. TypeOK /\ "replace" \in Phases
    BY DEF IInv, Phases
<1>2. /\ call'[c].at = "replace" /\ call'[c].thread = call[c].thread
      /\ \A d \in Callers \ {c} : call'[d] = call[d]
      /\ temporary' = call[c].thread /\ call[c].at = "write"
      /\ UNCHANGED <<journal, server, turns, together>>
    BY <1>1, GotoMoves DEF WriteTemporary
<1>3. ThreadsAreNamed'
    BY <1>2 DEF IInv, ThreadsAreNamed
<1>4. ASSUME ~together'
      PROVE  Bound'
    <2>1. JournalIsWrittenOnce /\ TurnsAreAskedForThere /\ TurnsAreThere
        BY <1>2, <1>4 DEF IInv, Bound
    <2>2. JournalIsWrittenOnce'
        BY <1>2, <2>1 DEF JournalIsWrittenOnce
    <2>3. TurnsAreAskedForThere'
        BY <1>2, <2>1 DEF TurnsAreAskedForThere
    <2>4. TurnsAreThere'
        BY <1>2, <2>1 DEF TurnsAreThere
    <2> QED
        BY <2>2, <2>3, <2>4 DEF Bound
<1> QED
    BY <1>3, <1>4 DEF IInv

LEMMA ReplaceJournalIInv ==
    ASSUME IInv, TypeOK', NEW c \in Callers, ReplaceJournal(c)
    PROVE  IInv'
<1>1. TypeOK /\ "unlink" \in Phases
    BY DEF IInv, Phases
<1>2. CASE temporary = 0
    <2>1. Raise(c) /\ UNCHANGED <<journal, temporary, turns, together>>
        BY <1>2 DEF ReplaceJournal
    <2>2. Apart
        BY <1>1, <2>1, RaiseApart
    <2>3. TurnsAreThere => TurnsAreThere'
        BY <2>1 DEF TurnsAreThere
    <2> QED
        BY <1>1, <2>2, <2>3, ApartKeeps
<1>3. CASE temporary # 0
    <2>1. /\ call'[c].at = "unlink" /\ call'[c].thread = call[c].thread
          /\ \A d \in Callers \ {c} : call'[d] = call[d]
          /\ journal' = temporary /\ call[c].at = "replace"
          /\ UNCHANGED <<server, turns, together>>
        BY <1>1, <1>3, GotoMoves DEF ReplaceJournal
    <2>2. ThreadsAreNamed'
        BY <2>1 DEF IInv, ThreadsAreNamed
    <2>3. ASSUME ~together'
          PROVE  Bound'
        <3>1. JournalIsWrittenOnce /\ TurnsAreAskedForThere /\ TurnsAreThere
            BY <2>1, <2>3 DEF IInv, Bound
        <3>2. /\ journal = 0 /\ temporary = call[c].thread
              /\ \A d \in Callers \ {c} : call[d].at \notin {"write", "replace"}
            BY <2>1, <3>1 DEF JournalIsWrittenOnce
        <3>3. JournalIsWrittenOnce'
            BY <2>1, <3>2 DEF JournalIsWrittenOnce
        <3>4. TurnsAreAskedForThere'
            BY <1>3, <2>1, <3>1, <3>2 DEF TurnsAreAskedForThere
        <3>5. TurnsAreThere'
            BY <2>1, <3>1, <3>2 DEF TurnsAreThere
        <3> QED
            BY <3>3, <3>4, <3>5 DEF Bound
    <2> QED
        BY <2>2, <2>3 DEF IInv
<1> QED
    BY <1>2, <1>3

LEMMA UnlinkIInv ==
    ASSUME IInv, TypeOK', NEW c \in Callers, Unlink(c)
    PROVE  IInv'
<1>1. TypeOK /\ "ask" \in Phases
    BY DEF IInv, Phases
<1>2. /\ call'[c].at = "ask" /\ call'[c].thread = call[c].thread
      /\ \A d \in Callers \ {c} : call'[d] = call[d]
      /\ call[c].at = "unlink"
      /\ UNCHANGED <<journal, server, turns, together>>
    BY <1>1, GotoMoves DEF Unlink
<1>3. ThreadsAreNamed'
    BY <1>2 DEF IInv, ThreadsAreNamed
<1>4. ASSUME ~together'
      PROVE  Bound'
    <2>1. JournalIsWrittenOnce /\ TurnsAreAskedForThere /\ TurnsAreThere
        BY <1>2, <1>4 DEF IInv, Bound
    <2>2. \A d \in Callers : call[d].at \notin {"write", "replace"}
        BY <1>2, <2>1 DEF JournalIsWrittenOnce, TurnsAreAskedForThere
    <2>3. JournalIsWrittenOnce'
        BY <1>2, <2>2 DEF JournalIsWrittenOnce
    <2>4. TurnsAreAskedForThere'
        BY <1>2, <2>1 DEF TurnsAreAskedForThere
    <2>5. TurnsAreThere'
        BY <1>2, <2>1 DEF TurnsAreThere
    <2> QED
        BY <2>3, <2>4, <2>5 DEF Bound
<1> QED
    BY <1>3, <1>4 DEF IInv

LEMMA AskForTurnIInv ==
    ASSUME IInv, TypeOK', NEW c \in Callers, AskForTurn(c)
    PROVE  IInv'
<1>1. /\ TypeOK /\ "turn" \in Phases
      /\ server \in [Callers -> Servers] /\ server[c] \in Servers
    BY DEF IInv, Phases, TypeOK
<1>2. /\ call'[c].at = "turn"
      /\ \A d \in Callers \ {c} : call'[d] = call[d] /\ server'[d] = server[d]
      /\ server'[c].thread = call[c].thread
      /\ call[c].at = "ask"
      /\ UNCHANGED <<journal, temporary, turns, together>>
    BY <1>1, GotoMoves DEF AskForTurn, Servers
<1>3. ThreadsAreNamed'
    BY <1>2 DEF IInv, ThreadsAreNamed
<1>4. ASSUME ~together'
      PROVE  Bound'
    <2>1. JournalIsWrittenOnce /\ TurnsAreAskedForThere /\ TurnsAreThere
        BY <1>2, <1>4 DEF IInv, Bound
    <2>2. JournalIsWrittenOnce'
        BY <1>2, <2>1 DEF JournalIsWrittenOnce
    <2>3. TurnsAreAskedForThere'
        BY <1>2, <2>1 DEF TurnsAreAskedForThere
    <2>4. TurnsAreThere'
        BY <1>2, <2>1 DEF TurnsAreThere
    <2> QED
        BY <2>2, <2>3, <2>4 DEF Bound
<1> QED
    BY <1>3, <1>4 DEF IInv

LEMMA StartApart ==
    ASSUME TypeOK, NEW c \in Callers, Start(c)
    PROVE  Apart
<1>1. /\ call \in [Callers -> Calls] /\ server \in [Callers -> Servers]
      /\ call[c] \in Calls /\ server[c] \in Servers
    BY DEF TypeOK
<1> QED
    BY <1>1 DEF Start, Apart, Calls, Servers

LEMMA NextIInv == IInv /\ [Next]_vars => IInv'
<1> SUFFICES ASSUME IInv, [Next]_vars PROVE IInv'
    OBVIOUS
<1>1. TypeOK /\ TypeOK'
    BY NextTypeOK DEF IInv
<1>2. CASE UNCHANGED vars
    BY <1>2 DEF vars, IInv, TypeOK, ThreadsAreNamed, Bound, JournalIsWrittenOnce,
                TurnsAreAskedForThere, TurnsAreThere
<1>3. ASSUME Apart, UNCHANGED turns
      PROVE  IInv'
    <2>1. TurnsAreThere => TurnsAreThere'
        BY <1>3 DEF TurnsAreThere, Apart
    <2> QED
        BY <1>1, <1>3, <2>1, ApartKeeps
<1>4. CASE Crash
    BY <1>1, <1>3, <1>4, CrashApart DEF Crash
<1>5. ASSUME NEW c \in Callers, Start(c) \/ Proceeds(c) \/ Serves(c)
      PROVE  IInv'
    <2>1. CASE Start(c)
        BY <1>1, <1>3, <2>1, StartApart DEF Start
    <2>2. CASE \/ ReadResponse(c) /\ call'[c].at # "record"
               \/ ReadRequest(c) \/ ReadItem(c) \/ ReadCompletion(c)
               \/ ReadError(c) \/ Timeout(c)
        <3>1. UNCHANGED turns
            BY <2>2 DEF ReadResponse, ReadRequest, ReadItem, ReadCompletion, ReadError, Timeout
        <3> QED
            BY <1>1, <1>3, <2>2, <3>1, ReadsApart
    <2>3. CASE ReadResponse(c) /\ call'[c].at = "record"
        BY <1>1, <2>3, ReadThreadIInv
    <2>4. CASE Record(c)
        BY <1>1, <2>4, RecordIInv
    <2>5. CASE WriteTemporary(c)
        BY <1>1, <2>5, WriteTemporaryIInv
    <2>6. CASE ReplaceJournal(c)
        BY <1>1, <2>6, ReplaceJournalIInv
    <2>7. CASE Unlink(c)
        BY <1>1, <2>7, UnlinkIInv
    <2>8. CASE AskForTurn(c)
        BY <1>1, <2>8, AskForTurnIInv
    <2>9. CASE Serves(c)
        BY <1>1, <2>9, ServesApart, TurnsStayThere, ApartKeeps
    <2> QED
        BY <1>5, <2>1, <2>2, <2>3, <2>4, <2>5, <2>6, <2>7, <2>8, <2>9 DEF Proceeds
<1> QED
    BY <1>2, <1>4, <1>5 DEF Next

\* Every turn ever begun for a resume key, in whatever calls, timeouts and restarts, is on the
\* thread the journal binds the key to, unless two calls wrote the journal at the same time.
THEOREM Binding == Spec => []TurnsAreOnTheJournaledThread
<1>1. IInv => TurnsAreOnTheJournaledThread
    BY DEF IInv, Bound, TurnsAreThere, TurnsAreOnTheJournaledThread
<1> QED
    BY <1>1, InitIInv, NextIInv, PTL DEF Spec

----------------------------------------------------------------------------
\* The answer of a call, for any callers and bounds.  The invariant follows what a server writes
\* for one call: which response is on its way, which messages are of the turn, and that the last
\* of them comes before the end of the turn.

\* Line i of the pipe is a message of the turn that the server of the call runs.
Own(c, i) == pipe[c][i].kind = "item" /\ pipe[c][i].item.turn = server[c].turn

\* A call is where its server is: none before it starts, on the thread of the call once a turn
\* is asked for, with the turn of the call once that is named.
PlaceFits(c) ==
    /\ call[c].at \in {"idle", "raised"} =>
         server[c] = NoServer /\ call[c] = [Uncalled EXCEPT !.at = call[c].at]
    /\ Over(c) => pipe[c] = <<>> /\ ~server[c].up /\ ~server[c].asking
    /\ call[c].at \notin {"await", "returned"} => call[c].last = NoItem
    /\ call[c].at \in {"turn", "await"} => server[c].thread = call[c].thread
    /\ call[c].at \in {"await", "returned"} => call[c].turn = server[c].turn /\ server[c].turn # 0
    /\ call[c].at = "returned" => call[c].status = server[c].status

\* Turn and last message are on the thread of the call.
TurnFits(c) ==
    /\ server[c].turn # 0 =>
        /\ call[c].at \in {"turn", "await", "returned"}
        /\ server[c].turn \in 1 .. Len(turns) /\ turns[server[c].turn].thread = server[c].thread
    /\ server[c].status = "running" => server[c].turn # 0
    /\ call[c].last # NoItem =>
        /\ call[c].last.turn \in 1 .. Len(turns)
        /\ turns[call[c].last.turn].thread = call[c].thread

\* One response at most is on its way, owed or written: the one the call waits for.
ResponsesFit(c) ==
    /\ server[c].owes \in {0, Expects(c)}
    /\ \A i \in DOMAIN pipe[c] : pipe[c][i].kind = "response" =>
        /\ server[c].owes = 0 /\ pipe[c][i].id = Expects(c)
        /\ pipe[c][i].ok /\ pipe[c][i].id = 3 =>
             pipe[c][i].value = server[c].turn /\ server[c].turn # 0
        /\ \A j \in DOMAIN pipe[c] : pipe[c][j].kind = "response" => j = i

\* Messages and ends are of turns on the thread, and nothing of the call's turn follows its end.
MessagesFit(c) ==
    \A i \in DOMAIN pipe[c] :
        /\ pipe[c][i].kind = "item" =>
            /\ server[c].turn # 0
            /\ pipe[c][i].item.turn \in 1 .. Len(turns)
            /\ turns[pipe[c][i].item.turn].thread = server[c].thread
        /\ pipe[c][i].kind = "completed" => server[c].turn # 0
        /\ pipe[c][i].kind = "completed" /\ pipe[c][i].turn = server[c].turn =>
            /\ pipe[c][i].status = server[c].status /\ server[c].status # "running"
            /\ \A j \in DOMAIN pipe[c] : j > i => ~Own(c, j)

\* What the turn said last is the last message of it in the pipe ...
SaidFits(c) ==
    \A i \in DOMAIN pipe[c] :
        Own(c, i) /\ (\A j \in DOMAIN pipe[c] : j > i => ~Own(c, j)) =>
            pipe[c][i].item.n = server[c].said

\* ... or, if there is none, the last that was read, if that is of the turn.
LastFits(c) ==
    (/\ server[c].turn # 0 /\ call[c].last.turn = server[c].turn
     /\ \A i \in DOMAIN pipe[c] : ~Own(c, i)) => call[c].last.n = server[c].said

LinesFit(c) == MessagesFit(c) /\ SaidFits(c) /\ LastFits(c)
AnswerFits(c) == PlaceFits(c) /\ TurnFits(c) /\ ResponsesFit(c) /\ LinesFit(c)

AInv == TypeOK /\ \A c \in Callers : AnswerFits(c)

----------------------------------------------------------------------------
\* Turns are added, and stay on their threads.
TurnsGrow ==
    /\ Len(turns) \in Nat /\ Len(turns') \in Nat /\ Len(turns') >= Len(turns)
    /\ \A i \in 1 .. Len(turns) : turns'[i].thread = turns[i].thread

LEMMA SameTurns ==
    ASSUME TypeOK, UNCHANGED turns
    PROVE  TurnsGrow
    BY DEF TypeOK, TurnsGrow

\* A call that is not concerned.
LEMMA OthersFit ==
    ASSUME NEW c \in Callers, AnswerFits(c), TurnsGrow,
           call'[c] = call[c], server'[c] = server[c], pipe'[c] = pipe[c]
    PROVE  AnswerFits(c)'
<1>1. PlaceFits(c)'
    BY DEF AnswerFits, PlaceFits, Over
<1>2. TurnFits(c)'
    BY DEF AnswerFits, TurnFits, TurnsGrow
<1>3. ResponsesFit(c)'
    BY DEF AnswerFits, ResponsesFit, Expects
<1>4. MessagesFit(c)'
    BY DEF AnswerFits, LinesFit, MessagesFit, Own, TurnsGrow
<1>5. SaidFits(c)' /\ LastFits(c)'
    BY DEF AnswerFits, LinesFit, SaidFits, LastFits, Own
<1> QED
    BY <1>1, <1>2, <1>3, <1>4, <1>5 DEF AnswerFits, LinesFit

\* A call that is given up, or lost in a crash.
LEMMA GoneFits ==
    ASSUME NEW c \in Callers, call'[c] \in {Uncalled, [Uncalled EXCEPT !.at = "raised"]},
           server'[c] = NoServer, pipe'[c] = <<>>
    PROVE  AnswerFits(c)'
<1>1. /\ call'[c].at \in {"idle", "raised"} /\ call'[c].last = NoItem
      /\ call'[c] = [Uncalled EXCEPT !.at = call'[c].at]
    BY DEF Uncalled
<1>2. /\ server'[c].owes = 0 /\ server'[c].turn = 0 /\ server'[c].status = "none"
      /\ ~server'[c].up /\ ~server'[c].asking
    BY DEF NoServer
<1>3. DOMAIN pipe'[c] = {}
    OBVIOUS
<1>4. PlaceFits(c)'
    BY <1>1, <1>2 DEF PlaceFits
<1>5. TurnFits(c)'
    BY <1>1, <1>2 DEF TurnFits
<1>6. ResponsesFit(c)'
    BY <1>2, <1>3 DEF ResponsesFit
<1>7. LinesFit(c)'
    BY <1>2, <1>3 DEF LinesFit, MessagesFit, SaidFits, LastFits
<1> QED
    BY <1>4, <1>5, <1>6, <1>7 DEF AnswerFits

LEMMA RaiseFits ==
    ASSUME AInv, NEW c \in Callers, Raise(c), UNCHANGED turns, NEW d \in Callers
    PROVE  AnswerFits(d)'
<1>1. /\ call'[c] = [Uncalled EXCEPT !.at = "raised"] /\ server'[c] = NoServer /\ pipe'[c] = <<>>
      /\ d # c => call'[d] = call[d] /\ server'[d] = server[d] /\ pipe'[d] = pipe[d]
    BY DEF Raise, AInv, TypeOK
<1>2. TurnsGrow
    BY SameTurns DEF AInv
<1> QED
    BY <1>1, <1>2, OthersFit, GoneFits DEF AInv

LEMMA AInvInit == Init => AInv
<1> SUFFICES ASSUME Init, NEW c \in Callers PROVE AnswerFits(c)
    BY InitTypeOK DEF AInv
<1>1. call[c] = Uncalled /\ server[c] = NoServer /\ pipe[c] = <<>>
    BY DEF Init
<1>2. /\ call[c].at = "idle" /\ call[c].last = NoItem
      /\ call[c] = [Uncalled EXCEPT !.at = call[c].at]
    BY <1>1 DEF Uncalled
<1>3. /\ server[c].owes = 0 /\ server[c].turn = 0 /\ server[c].status = "none"
      /\ ~server[c].up /\ ~server[c].asking
    BY <1>1 DEF NoServer
<1>4. DOMAIN pipe[c] = {}
    BY <1>1
<1>5. PlaceFits(c)
    BY <1>1, <1>2, <1>3 DEF PlaceFits
<1>6. TurnFits(c)
    BY <1>2, <1>3 DEF TurnFits
<1>7. ResponsesFit(c)
    BY <1>3, <1>4 DEF ResponsesFit
<1>8. LinesFit(c)
    BY <1>3, <1>4 DEF LinesFit, MessagesFit, SaidFits, LastFits
<1> QED
    BY <1>5, <1>6, <1>7, <1>8 DEF AnswerFits

LEMMA CrashFits ==
    ASSUME AInv, Crash, NEW d \in Callers
    PROVE  AnswerFits(d)'
<1>1. CASE Over(d)
    <2>1. pipe[d] = <<>>
        BY <1>1 DEF AInv, AnswerFits, PlaceFits
    <2>2. call'[d] = call[d] /\ server'[d] = server[d] /\ pipe'[d] = pipe[d] /\ UNCHANGED turns
        BY <1>1, <2>1 DEF Crash
    <2> QED
        BY <2>2, OthersFit, SameTurns DEF AInv
<1>2. CASE ~Over(d)
    <2>1. call'[d] = Uncalled /\ server'[d] = NoServer /\ pipe'[d] = <<>>
        BY <1>2 DEF Crash
    <2> QED
        BY <2>1, GoneFits
<1> QED
    BY <1>1, <1>2

----------------------------------------------------------------------------
\* A line is taken from the front of a pipe: the others move up.
Moved(c) ==
    /\ DOMAIN pipe'[c] \subseteq Nat \ {0}
    /\ \A i \in DOMAIN pipe'[c] : i + 1 \in DOMAIN pipe[c] /\ pipe'[c][i] = pipe[c][i + 1]
    /\ \A i \in DOMAIN pipe[c] : i \in Nat /\ (i = 1 \/ i - 1 \in DOMAIN pipe'[c])
    /\ 1 \in DOMAIN pipe[c] /\ pipe[c][1] = Line(c)
    /\ \A d \in Callers \ {c} : pipe'[d] = pipe[d]

LEMMA TakeMoves ==
    ASSUME TypeOK, NEW c \in Callers, pipe[c] # <<>>, Take(c)
    PROVE  Moved(c)
<1>1. pipe[c] \in Seq(Messages) /\ pipe'[c] = Tail(pipe[c])
    BY DEF Take, TypeOK
<1>2. /\ Len(pipe[c]) \in Nat \ {0} /\ DOMAIN pipe[c] = 1 .. Len(pipe[c])
      /\ Head(pipe[c]) = pipe[c][1]
      /\ Len(pipe'[c]) = Len(pipe[c]) - 1 /\ DOMAIN pipe'[c] = 1 .. Len(pipe'[c])
      /\ \A i \in 1 .. Len(pipe'[c]) : pipe'[c][i] = pipe[c][i + 1]
    BY <1>1, HeadTailProperties, EmptySeq
<1>3. \A d \in Callers \ {c} : pipe'[d] = pipe[d]
    BY DEF Take, TypeOK
<1> QED
    BY <1>2, <1>3 DEF Moved, Line

\* A line is added at the end.
Added(c, m) ==
    \E n \in Nat :
        /\ DOMAIN pipe[c] = 1 .. n /\ DOMAIN pipe'[c] = 1 .. n + 1
        /\ pipe'[c][n + 1] = m /\ \A i \in 1 .. n : pipe'[c][i] = pipe[c][i]
        /\ \A d \in Callers \ {c} : pipe'[d] = pipe[d]

LEMMA SendAdds ==
    ASSUME TypeOK, NEW c \in Callers, NEW m \in Messages, Send(c, m)
    PROVE  Added(c, m)
<1>1. pipe[c] \in Seq(Messages) /\ pipe'[c] = Append(pipe[c], m)
    BY DEF Send, TypeOK
<1>2. /\ Len(pipe[c]) \in Nat /\ DOMAIN pipe[c] = 1 .. Len(pipe[c])
      /\ DOMAIN pipe'[c] = 1 .. Len(pipe[c]) + 1
      /\ pipe'[c][Len(pipe[c]) + 1] = m
      /\ \A i \in 1 .. Len(pipe[c]) : pipe'[c][i] = pipe[c][i]
    BY <1>1, AppendProperties
<1>3. \A d \in Callers \ {c} : pipe'[d] = pipe[d]
    BY DEF Send, TypeOK
<1> QED
    BY <1>2, <1>3 DEF Added

\* What the lines say of the turn does not depend on whether one was taken, as long as the
\* server has said no more.
SameTurn(c) ==
    /\ server'[c].turn = server[c].turn /\ server'[c].said = server[c].said
    /\ server'[c].status = server[c].status
    /\ server'[c].thread = server[c].thread \/ server[c].turn = 0
    /\ UNCHANGED turns

LEMMA MovedFit ==
    ASSUME NEW c \in Callers, AnswerFits(c), Moved(c), SameTurn(c)
    PROVE  MessagesFit(c)' /\ SaidFits(c)'
<1>1. \A i \in DOMAIN pipe'[c] : Own(c, i)' <=> Own(c, i + 1)
    BY DEF Moved, SameTurn, Own
<1>2. MessagesFit(c)'
    <2>1. ASSUME NEW i \in DOMAIN pipe'[c]
          PROVE  /\ pipe'[c][i].kind = "item" =>
                    /\ server'[c].turn # 0
                    /\ pipe'[c][i].item.turn \in 1 .. Len(turns')
                    /\ turns'[pipe'[c][i].item.turn].thread = server'[c].thread
                 /\ pipe'[c][i].kind = "completed" => server'[c].turn # 0
                 /\ pipe'[c][i].kind = "completed" /\ pipe'[c][i].turn = server'[c].turn =>
                    pipe'[c][i].status = server'[c].status /\ server'[c].status # "running"
        BY DEF AnswerFits, LinesFit, MessagesFit, Moved, SameTurn
    <2>2. ASSUME NEW i \in DOMAIN pipe'[c], NEW j \in DOMAIN pipe'[c], j > i,
                 pipe'[c][i].kind = "completed", pipe'[c][i].turn = server'[c].turn
          PROVE  ~Own(c, j)'
        <3>1. /\ i + 1 \in DOMAIN pipe[c] /\ j + 1 \in DOMAIN pipe[c] /\ j + 1 > i + 1
              /\ pipe[c][i + 1].kind = "completed" /\ pipe[c][i + 1].turn = server[c].turn
            BY <2>2 DEF Moved, SameTurn
        <3> QED
            BY <1>1, <3>1 DEF AnswerFits, LinesFit, MessagesFit
    <2> QED
        BY <2>1, <2>2 DEF MessagesFit
<1>3. ASSUME NEW i \in DOMAIN pipe'[c], Own(c, i)',
             \A j \in DOMAIN pipe'[c] : j > i => ~Own(c, j)'
      PROVE  pipe'[c][i].item.n = server'[c].said
    <2>1. i + 1 \in DOMAIN pipe[c] /\ pipe'[c][i] = pipe[c][i + 1] /\ Own(c, i + 1) /\ i \in Nat
        BY <1>1, <1>3 DEF Moved
    <2>2. ASSUME NEW j \in DOMAIN pipe[c], j > i + 1
          PROVE  ~Own(c, j)
        <3>1. j - 1 \in DOMAIN pipe'[c] /\ j - 1 > i /\ (j - 1) + 1 = j
            BY <2>1, <2>2 DEF Moved
        <3> QED
            BY <1>1, <1>3, <3>1
    <2> QED
        BY <2>1, <2>2 DEF AnswerFits, LinesFit, SaidFits, SameTurn
<1> QED
    BY <1>2, <1>3 DEF SaidFits

\* A line that is passed over, or only answered: neither a response nor a message that counts.
LEMMA LineGoneFits ==
    ASSUME NEW c \in Callers, AnswerFits(c), Moved(c), SameTurn(c),
           call'[c] = call[c], server'[c].owes = server[c].owes, server'[c].up = server[c].up,
           server'[c].thread = server[c].thread,
           Reading(c), Line(c).kind # "response",
           Line(c).kind = "item" => call[c].at # "await"
    PROVE  AnswerFits(c)'
<1>1. ~Over(c) /\ call[c].at \notin {"idle", "raised", "returned"}
    BY DEF Reading, Over, Expects
<1>2. PlaceFits(c)'
    BY <1>1 DEF AnswerFits, PlaceFits, SameTurn, Over
<1>3. TurnFits(c)'
    BY DEF AnswerFits, TurnFits, SameTurn
<1>4. ResponsesFit(c)'
    <2>1. Expects(c)' = Expects(c)
        BY DEF Expects
    <2> QED
        BY <2>1 DEF AnswerFits, ResponsesFit, Moved, SameTurn
<1>5. LastFits(c)'
    <2>1. CASE call[c].at = "await"
        <3>1. ~Own(c, 1)
            BY <2>1 DEF Own, Moved
        <3>2. \A i \in DOMAIN pipe'[c] : Own(c, i)' <=> Own(c, i + 1)
            BY DEF Moved, SameTurn, Own
        <3>3. (\A i \in DOMAIN pipe'[c] : ~Own(c, i)') => \A i \in DOMAIN pipe[c] : ~Own(c, i)
            <4>1. ASSUME NEW i \in DOMAIN pipe[c], i # 1, \A j \in DOMAIN pipe'[c] : ~Own(c, j)'
                  PROVE  ~Own(c, i)
                <5>1. i - 1 \in DOMAIN pipe'[c] /\ (i - 1) + 1 = i
                    BY <4>1 DEF Moved
                <5> QED
                    BY <3>2, <4>1, <5>1
            <4> QED
                BY <3>1, <4>1
        <3> QED
            BY <3>3 DEF AnswerFits, LinesFit, LastFits, SameTurn
    <2>2. CASE call[c].at # "await"
        <3>1. call[c].last.turn = 0
            BY <1>1, <2>2 DEF AnswerFits, PlaceFits, NoItem
        <3> QED
            BY <3>1 DEF LastFits
    <2> QED
        BY <2>1, <2>2
<1> QED
    BY <1>2, <1>3, <1>4, <1>5, MovedFit DEF AnswerFits, LinesFit

----------------------------------------------------------------------------
\* The response that was awaited, and no other one behind it.
LEMMA ResponseGone ==
    ASSUME NEW c \in Callers, AnswerFits(c), Moved(c), Line(c).kind = "response"
    PROVE  /\ server[c].owes = 0 /\ Line(c).id = Expects(c)
           /\ Line(c).ok /\ Line(c).id = 3 =>
                Line(c).value = server[c].turn /\ server[c].turn # 0
           /\ \A i \in DOMAIN pipe'[c] : pipe'[c][i].kind # "response"
<1>1. 1 \in DOMAIN pipe[c] /\ pipe[c][1].kind = "response" /\ pipe[c][1] = Line(c)
    BY DEF Moved
<1>2. \A j \in DOMAIN pipe[c] : pipe[c][j].kind = "response" => j = 1
    BY <1>1 DEF AnswerFits, ResponsesFit
<1>3. ASSUME NEW i \in DOMAIN pipe'[c]
      PROVE  pipe'[c][i].kind # "response"
    <2>1. i \in Nat \ {0} /\ i + 1 \in DOMAIN pipe[c] /\ pipe'[c][i] = pipe[c][i + 1]
        BY DEF Moved
    <2>2. i + 1 # 1
        BY <2>1
    <2> QED
        BY <1>2, <2>1, <2>2
<1> QED
    BY <1>1, <1>3 DEF AnswerFits, ResponsesFit

LEMMA ReadResponseFits ==
    ASSUME AInv, NEW c \in Callers, ReadResponse(c)
    PROVE  AnswerFits(c)'
<1>1. /\ AnswerFits(c) /\ TypeOK /\ call \in [Callers -> Calls] /\ server \in [Callers -> Servers]
      /\ call[c] \in Calls /\ server[c] \in Servers
    BY DEF AInv, TypeOK
<1>2. Line(c).kind = "response" /\ pipe[c] # <<>> /\ UNCHANGED turns
    BY <1>1, LineTyped DEF ReadResponse
<1>3. CASE Raise(c)
    BY <1>2, <1>3, RaiseFits
<1>4. ASSUME Take(c), NEW at \in {"thread", "record", "await"},
             call'[c].at = at, call'[c].last = call[c].last,
             SameTurn(c), server'[c].asking = server[c].asking,
             server'[c].owes = IF at = "thread" THEN 2 ELSE server[c].owes,
             at = "await" => /\ Line(c).ok /\ Line(c).id = 3 /\ call'[c].turn = Line(c).value
                             /\ server'[c].thread = server[c].thread
                             /\ call'[c].thread = call[c].thread,
             at # "await" => Line(c).id # 3
      PROVE  AnswerFits(c)'
    <2>1. Moved(c)
        BY <1>1, <1>2, <1>4, TakeMoves
    <2>2. /\ server[c].owes = 0 /\ Line(c).id = Expects(c)
          /\ Line(c).ok /\ Line(c).id = 3 => Line(c).value = server[c].turn /\ server[c].turn # 0
          /\ \A i \in DOMAIN pipe'[c] : pipe'[c][i].kind # "response"
        BY <1>1, <1>2, <2>1, ResponseGone
    <2>3. /\ call[c].at \in {"initialize", "thread", "turn"}
          /\ at = "await" <=> call[c].at = "turn"
        <3>1. Line(c) \in Messages
            BY <1>1, LineTyped DEF ReadResponse
        <3>2. Expects(c) # 0
            BY <1>2, <2>2, <3>1 DEF Messages
        <3>3. \/ call[c].at = "initialize" /\ Expects(c) = 1
              \/ call[c].at = "thread" /\ Expects(c) = 2
              \/ call[c].at = "turn" /\ Expects(c) = 3
            BY <3>2 DEF Expects
        <3> QED
            BY <1>4, <2>2, <3>3
    <2>4. call[c].last = NoItem /\ NoItem.turn = 0 /\ ~Over(c)'
        BY <1>1, <1>4, <2>3 DEF AnswerFits, PlaceFits, NoItem, Over
    <2>5. PlaceFits(c)'
        BY <1>1, <1>4, <2>2, <2>3, <2>4 DEF AnswerFits, PlaceFits, SameTurn
    <2>6. TurnFits(c)'
        BY <1>1, <1>4, <2>3, <2>4 DEF AnswerFits, TurnFits, SameTurn
    <2>7. ResponsesFit(c)'
        BY <1>4, <2>2 DEF ResponsesFit, Expects
    <2>8. LastFits(c)'
        BY <1>4, <2>4 DEF LastFits
    <2> QED
        BY <1>1, <1>4, <2>1, <2>5, <2>6, <2>7, <2>8, MovedFit DEF AnswerFits, LinesFit
<1>5. CASE /\ Line(c).ok /\ Line(c).id = 1
           /\ call' = [call EXCEPT ![c].at = "thread", ![c].thread = journal]
           /\ server' = [server EXCEPT ![c].owes = 2, ![c].thread = journal]
           /\ Take(c)
    <2>1. call'[c].at = "thread" /\ call'[c].last = call[c].last
        BY <1>1, <1>5 DEF Calls
    <2>2. /\ server'[c].turn = server[c].turn /\ server'[c].said = server[c].said
          /\ server'[c].status = server[c].status /\ server'[c].asking = server[c].asking
          /\ server'[c].owes = 2
        BY <1>1, <1>5 DEF Servers
    <2>3. server[c].turn = 0
        <3>1. Line(c).id = Expects(c)
            BY <1>1, <1>2, <1>5, ResponseGone, TakeMoves
        <3> QED
            BY <1>1, <1>5, <3>1 DEF Expects, AnswerFits, TurnFits
    <2> QED
        BY <1>2, <1>4, <1>5, <2>1, <2>2, <2>3 DEF SameTurn
<1>6. CASE /\ Line(c).ok /\ Line(c).id = 2
           /\ call' = [call EXCEPT ![c].at = "record", ![c].thread = Line(c).value]
           /\ Take(c) /\ UNCHANGED server
    <2>1. call'[c].at = "record" /\ call'[c].last = call[c].last
        BY <1>1, <1>6 DEF Calls
    <2> QED
        BY <1>2, <1>4, <1>6, <2>1 DEF SameTurn
<1>7. CASE /\ Line(c).ok /\ Line(c).id = 3
           /\ call' = [call EXCEPT ![c].at = "await", ![c].turn = Line(c).value]
           /\ Take(c) /\ UNCHANGED server
    <2>1. /\ call'[c].at = "await" /\ call'[c].last = call[c].last
          /\ call'[c].turn = Line(c).value /\ call'[c].thread = call[c].thread
        BY <1>1, <1>7 DEF Calls
    <2> QED
        BY <1>2, <1>4, <1>7, <2>1 DEF SameTurn
<1> QED
    BY <1>3, <1>5, <1>6, <1>7 DEF ReadResponse

\* A line that is passed over.
LEMMA PassOverFits ==
    ASSUME AInv, NEW c \in Callers, PassOver(c), pipe[c] # <<>>, UNCHANGED turns, Reading(c),
           Line(c).kind \notin {"response", "request"},
           Line(c).kind = "item" => call[c].at # "await"
    PROVE  AnswerFits(c)'
<1>1. Moved(c) /\ AnswerFits(c)
    BY TakeMoves DEF PassOver, AInv
<1>2. SameTurn(c) /\ call'[c] = call[c] /\ server'[c] = server[c]
    BY DEF PassOver, SameTurn
<1> QED
    BY <1>1, <1>2, LineGoneFits

LEMMA ReadRequestFits ==
    ASSUME AInv, NEW c \in Callers, ReadRequest(c)
    PROVE  AnswerFits(c)'
<1>1. /\ AnswerFits(c) /\ TypeOK /\ server \in [Callers -> Servers] /\ server[c] \in Servers
    BY DEF AInv, TypeOK
<1>2. Line(c).kind = "request" /\ pipe[c] # <<>> /\ Reading(c) /\ UNCHANGED turns
    BY <1>1, LineTyped DEF ReadRequest, Reads
<1>3. CASE Raise(c)
    BY <1>2, <1>3, RaiseFits
<1>4. CASE server' = [server EXCEPT ![c].asking = FALSE] /\ Take(c) /\ UNCHANGED call
    <2>1. /\ server'[c].turn = server[c].turn /\ server'[c].said = server[c].said
          /\ server'[c].status = server[c].status /\ server'[c].thread = server[c].thread
          /\ server'[c].owes = server[c].owes /\ server'[c].up = server[c].up
          /\ ~server'[c].asking
        BY <1>1, <1>4 DEF Servers
    <2>2. Moved(c)
        BY <1>1, <1>2, <1>4, TakeMoves
    <2>3. SameTurn(c)
        BY <1>2, <2>1 DEF SameTurn
    <2> QED
        BY <1>1, <1>2, <1>4, <2>1, <2>2, <2>3, LineGoneFits
<1> QED
    BY <1>3, <1>4 DEF ReadRequest

\* A message that counts is the last one read, until another is.
LEMMA ReadItemFits ==
    ASSUME AInv, NEW c \in Callers, ReadItem(c)
    PROVE  AnswerFits(c)'
<1>1. /\ AnswerFits(c) /\ TypeOK /\ call \in [Callers -> Calls] /\ call[c] \in Calls
    BY DEF AInv, TypeOK
<1>2. Line(c).kind = "item" /\ pipe[c] # <<>> /\ Reading(c) /\ UNCHANGED turns
    BY <1>1, LineTyped DEF ReadItem, Reads
<1>3. CASE PassOver(c) /\ call[c].at # "await"
    BY <1>2, <1>3, PassOverFits
<1>4. CASE /\ call[c].at = "await" /\ call' = [call EXCEPT ![c].last = Line(c).item]
           /\ Take(c) /\ UNCHANGED server
    <2>1. /\ call'[c].at = "await" /\ call'[c].last = Line(c).item
          /\ call'[c].thread = call[c].thread /\ call'[c].turn = call[c].turn
        BY <1>1, <1>4 DEF Calls
    <2>2. Moved(c) /\ SameTurn(c)
        BY <1>1, <1>2, <1>4, TakeMoves DEF SameTurn
    <2>3. PlaceFits(c)'
        BY <1>1, <1>4, <2>1 DEF AnswerFits, PlaceFits, Over
    <2>4. TurnFits(c)'
        <3>1. /\ Line(c).item.turn \in 1 .. Len(turns)
              /\ turns[Line(c).item.turn].thread = server[c].thread
            BY <1>1, <1>2, <2>2 DEF AnswerFits, LinesFit, MessagesFit, Moved
        <3>2. server[c].thread = call[c].thread
            BY <1>1, <1>4 DEF AnswerFits, PlaceFits
        <3> QED
            BY <1>1, <1>2, <1>4, <2>1, <3>1, <3>2 DEF AnswerFits, TurnFits
    <2>5. ResponsesFit(c)'
        <3>1. Expects(c)' = Expects(c)
            BY <1>4, <2>1 DEF Expects
        <3> QED
            BY <1>1, <1>4, <2>2, <3>1 DEF AnswerFits, ResponsesFit, Moved
    <2>6. LastFits(c)'
        <3>1. SUFFICES ASSUME server[c].turn = Line(c).item.turn,
                              \A i \in DOMAIN pipe'[c] : ~Own(c, i)'
                       PROVE  Line(c).item.n = server[c].said
            BY <1>4, <2>1 DEF LastFits
        <3>2. Own(c, 1) /\ 1 \in DOMAIN pipe[c] /\ pipe[c][1] = Line(c)
            BY <1>2, <2>2, <3>1 DEF Own, Moved
        <3>3. ASSUME NEW j \in DOMAIN pipe[c], j > 1
              PROVE  ~Own(c, j)
            <4>1. j \in Nat /\ j - 1 \in DOMAIN pipe'[c] /\ (j - 1) + 1 = j
                BY <2>2, <3>3 DEF Moved
            <4>2. ~Own(c, j - 1)' /\ pipe'[c][j - 1] = pipe[c][j]
                BY <2>2, <3>1, <4>1 DEF Moved
            <4> QED
                BY <1>4, <4>2 DEF Own
        <3> QED
            BY <1>1, <3>2, <3>3 DEF AnswerFits, LinesFit, SaidFits
    <2> QED
        BY <1>1, <2>2, <2>3, <2>4, <2>5, <2>6, MovedFit DEF AnswerFits, LinesFit
<1> QED
    BY <1>3, <1>4 DEF ReadItem

\* The end of the turn comes after all it has said.
LEMMA ReadCompletionFits ==
    ASSUME AInv, NEW c \in Callers, ReadCompletion(c)
    PROVE  AnswerFits(c)'
<1>1. /\ AnswerFits(c) /\ TypeOK /\ call \in [Callers -> Calls] /\ call[c] \in Calls
      /\ server \in [Callers -> Servers] /\ server[c] \in Servers /\ pipe[c] \in Seq(Messages)
    BY DEF AInv, TypeOK
<1>2. Line(c).kind = "completed" /\ pipe[c] # <<>> /\ Reading(c) /\ UNCHANGED turns
    BY <1>1, LineTyped DEF ReadCompletion, Reads
<1>3. CASE PassOver(c)
    BY <1>2, <1>3, PassOverFits
<1>4. CASE call[c].at = "await" /\ Line(c).turn = call[c].turn /\ Return(c, Line(c).status)
    <2>1. /\ call'[c].at = "returned" /\ call'[c].status = Line(c).status
          /\ call'[c].last = call[c].last
          /\ call'[c].thread = call[c].thread /\ call'[c].turn = call[c].turn
        BY <1>1, <1>4 DEF Return, Calls
    <2>2. /\ server'[c].turn = server[c].turn /\ server'[c].said = server[c].said
          /\ server'[c].status = server[c].status /\ server'[c].thread = server[c].thread
          /\ server'[c].owes = server[c].owes /\ ~server'[c].up /\ ~server'[c].asking
        BY <1>1, <1>4 DEF Return, Servers
    <2>3. pipe'[c] = <<>> /\ DOMAIN pipe'[c] = {}
        BY <1>4 DEF Return, TypeOK, AInv
    <2>4. call[c].turn = server[c].turn /\ server[c].turn # 0
        BY <1>1, <1>4 DEF AnswerFits, PlaceFits
    <2>5. /\ 1 \in DOMAIN pipe[c] /\ pipe[c][1] = Line(c)
          /\ \A j \in DOMAIN pipe[c] : j \in Nat /\ (j = 1 \/ j > 1)
        BY <1>1, <1>2, HeadTailProperties, EmptySeq DEF Line
    <2>6. Line(c).status = server[c].status /\ \A j \in DOMAIN pipe[c] : ~Own(c, j)
        <3>1. /\ Line(c).status = server[c].status
              /\ \A j \in DOMAIN pipe[c] : j > 1 => ~Own(c, j)
            BY <1>1, <1>2, <1>4, <2>4, <2>5 DEF AnswerFits, LinesFit, MessagesFit
        <3>2. ~Own(c, 1)
            BY <1>2, <2>5 DEF Own
        <3> QED
            BY <2>5, <3>1, <3>2
    <2>7. PlaceFits(c)'
        BY <2>1, <2>2, <2>3, <2>4, <2>6 DEF PlaceFits
    <2>8. TurnFits(c)'
        BY <1>1, <1>2, <2>1, <2>2 DEF AnswerFits, TurnFits
    <2>9. ResponsesFit(c)'
        <3>1. server[c].owes = 0
            BY <1>1, <1>4 DEF AnswerFits, ResponsesFit, Expects
        <3> QED
            BY <2>2, <2>3, <3>1 DEF ResponsesFit
    <2>10. LastFits(c)'
        BY <1>1, <2>1, <2>2, <2>6 DEF AnswerFits, LinesFit, LastFits
    <2>11. MessagesFit(c)' /\ SaidFits(c)'
        BY <2>2, <2>3 DEF MessagesFit, SaidFits
    <2> QED
        BY <2>7, <2>8, <2>9, <2>10, <2>11 DEF AnswerFits, LinesFit
<1> QED
    BY <1>3, <1>4 DEF ReadCompletion

LEMMA ReadErrorFits ==
    ASSUME AInv, NEW c \in Callers, ReadError(c)
    PROVE  AnswerFits(c)'
<1>1. Line(c).kind = "error" /\ pipe[c] # <<>> /\ Reading(c) /\ UNCHANGED turns
    BY LineTyped DEF ReadError, Reads, AInv
<1>2. CASE Raise(c)
    BY <1>1, <1>2, RaiseFits
<1>3. CASE PassOver(c)
    BY <1>1, <1>3, PassOverFits
<1> QED
    BY <1>2, <1>3 DEF ReadError

----------------------------------------------------------------------------
\* From the start to the turn: nothing is read, and no turn has begun.
LEMMA AsksFits ==
    ASSUME AInv, NEW c \in Callers,
           \/ Start(c) \/ Record(c) \/ WriteTemporary(c) \/ ReplaceJournal(c)
           \/ Unlink(c) \/ AskForTurn(c)
    PROVE  AnswerFits(c)'
<1>1. /\ AnswerFits(c) /\ TypeOK /\ call \in [Callers -> Calls] /\ call[c] \in Calls
      /\ server \in [Callers -> Servers] /\ server[c] \in Servers
      /\ pipe[c] \in Seq(Messages)
    BY DEF AInv, TypeOK
<1>2. CASE Start(c)
    <2>1. server[c] = NoServer /\ pipe[c] = <<>> /\ call[c].last = NoItem
        BY <1>1, <1>2 DEF Start, AnswerFits, PlaceFits, Over
    <2>2. call'[c].at = "initialize" /\ call'[c].last = NoItem
        BY <1>1, <1>2, <2>1 DEF Start, Calls
    <2>3. /\ server'[c].owes = 1 /\ server'[c].turn = 0 /\ server'[c].status = "none"
          /\ ~server'[c].asking
        BY <1>1, <1>2, <2>1 DEF Start, NoServer
    <2>4. pipe'[c] = <<>> /\ DOMAIN pipe'[c] = {}
        BY <1>2, <2>1 DEF Start
    <2>5. PlaceFits(c)' /\ TurnFits(c)'
        BY <2>2, <2>3 DEF PlaceFits, TurnFits, Over
    <2>6. ResponsesFit(c)'
        BY <2>2, <2>3, <2>4 DEF ResponsesFit, Expects
    <2>7. LinesFit(c)'
        BY <2>3, <2>4 DEF LinesFit, MessagesFit, SaidFits, LastFits
    <2> QED
        BY <2>5, <2>6, <2>7 DEF AnswerFits
<1>3. ASSUME call[c].at \in {"record", "write", "replace", "unlink"},
             NEW at \in {"write", "replace", "unlink", "ask"}, Goto(c, at),
             UNCHANGED <<server, pipe, turns>>
      PROVE  AnswerFits(c)'
    <2>1. at \in Phases
        BY DEF Phases
    <2>2. call'[c] = [call[c] EXCEPT !.at = at]
        BY <1>1, <1>3, <2>1 DEF Goto
    <2>3. call'[c].at = at /\ call'[c].last = call[c].last
        BY <1>1, <2>2 DEF Calls
    <2>4. call[c].last = NoItem /\ server[c].turn = 0
        BY <1>1, <1>3 DEF AnswerFits, PlaceFits, TurnFits
    <2>5. PlaceFits(c)' /\ TurnFits(c)'
        BY <1>1, <1>3, <2>3, <2>4 DEF AnswerFits, PlaceFits, TurnFits, Over
    <2>6. Expects(c) = 0 /\ Expects(c)' = 0
        BY <1>3, <2>3 DEF Expects
    <2>7. ResponsesFit(c)'
        BY <1>1, <1>3, <2>6 DEF AnswerFits, ResponsesFit
    <2>8. LinesFit(c)'
        BY <1>1, <1>3, <2>3, <2>4
        DEF AnswerFits, LinesFit, MessagesFit, SaidFits, LastFits, Own
    <2> QED
        BY <2>5, <2>7, <2>8 DEF AnswerFits
<1>4. CASE Record(c)
    BY <1>3, <1>4, RaiseFits DEF Record
<1>5. CASE WriteTemporary(c)
    BY <1>3, <1>5 DEF WriteTemporary
<1>6. CASE ReplaceJournal(c)
    BY <1>3, <1>6, RaiseFits DEF ReplaceJournal
<1>7. CASE Unlink(c)
    BY <1>3, <1>7 DEF Unlink
<1>8. CASE AskForTurn(c)
    <2>1. /\ call'[c].at = "turn" /\ call'[c].last = call[c].last
          /\ call'[c].thread = call[c].thread
        BY <1>1, <1>8 DEF AskForTurn, Goto, Calls
    <2>2. /\ server'[c].owes = 3 /\ server'[c].thread = call[c].thread
          /\ server'[c].turn = server[c].turn /\ server'[c].status = server[c].status
          /\ server'[c].said = server[c].said /\ server'[c].asking = server[c].asking
        BY <1>1, <1>8 DEF AskForTurn, Servers
    <2>3. call[c].last = NoItem /\ server[c].turn = 0 /\ NoItem.turn = 0
        BY <1>1, <1>8 DEF AskForTurn, AnswerFits, PlaceFits, TurnFits, NoItem
    <2>4. PlaceFits(c)' /\ TurnFits(c)'
        BY <1>1, <2>1, <2>2, <2>3 DEF AnswerFits, PlaceFits, TurnFits, Over
    <2>5. Expects(c) = 0 /\ Expects(c)' = 3 /\ UNCHANGED <<pipe, turns>>
        BY <1>8, <2>1 DEF AskForTurn, Expects
    <2>6. \A i \in DOMAIN pipe[c] : pipe[c][i].kind # "response"
        <3>1. \A i \in DOMAIN pipe[c] : pipe[c][i] \in Messages
            BY <1>1
        <3>2. \A m \in Messages : m.kind = "response" => m.id # 0
            BY DEF Messages
        <3> QED
            BY <1>1, <2>5, <3>1, <3>2 DEF AnswerFits, ResponsesFit
    <2>7. ResponsesFit(c)'
        BY <2>2, <2>5, <2>6 DEF ResponsesFit
    <2>8. MessagesFit(c)' /\ SaidFits(c)'
        BY <1>1, <2>2, <2>3, <2>5 DEF AnswerFits, LinesFit, MessagesFit, SaidFits, Own
    <2>9. LastFits(c)'
        BY <1>1, <2>2, <2>3, <2>5 DEF AnswerFits, LinesFit, LastFits
    <2> QED
        BY <2>4, <2>7, <2>8, <2>9 DEF AnswerFits, LinesFit
<1> QED
    BY <1>2, <1>4, <1>5, <1>6, <1>7, <1>8

----------------------------------------------------------------------------
\* What the server writes that is neither said by the turn nor its end.
Aside(c, m) ==
    /\ m \in Messages
    /\ m.kind = "item" =>
         /\ server[c].turn # 0
         /\ m.item.turn \in 1 .. Len(turns) /\ turns[m.item.turn].thread = server[c].thread
         /\ m.item.turn # server[c].turn
    /\ m.kind = "completed" => server[c].turn # 0 /\ m.turn # server[c].turn

LEMMA AddedFits ==
    ASSUME NEW c \in Callers, NEW m, AnswerFits(c), Added(c, m), Aside(c, m), TurnsGrow,
           call'[c] = call[c], ~Over(c),
           server'[c].turn = server[c].turn, server'[c].said = server[c].said,
           server'[c].status = server[c].status, server'[c].thread = server[c].thread,
           ResponsesFit(c)'
    PROVE  AnswerFits(c)'
<1>1. PICK n \in Nat :
        /\ DOMAIN pipe[c] = 1 .. n /\ DOMAIN pipe'[c] = 1 .. n + 1
        /\ pipe'[c][n + 1] = m /\ \A i \in 1 .. n : pipe'[c][i] = pipe[c][i]
    BY DEF Added
<1>2. /\ \A i \in 1 .. n : Own(c, i)' <=> Own(c, i)
      /\ ~Own(c, n + 1)'
    BY <1>1 DEF Own, Aside
<1>3. PlaceFits(c)'
    BY DEF AnswerFits, PlaceFits, Over
<1>4. TurnFits(c)'
    BY DEF AnswerFits, TurnFits, TurnsGrow
<1>5. MessagesFit(c)'
    <2>1. ASSUME NEW i \in 1 .. n
          PROVE  /\ pipe'[c][i].kind = "item" =>
                    /\ server'[c].turn # 0
                    /\ pipe'[c][i].item.turn \in 1 .. Len(turns')
                    /\ turns'[pipe'[c][i].item.turn].thread = server'[c].thread
                 /\ pipe'[c][i].kind = "completed" => server'[c].turn # 0
                 /\ pipe'[c][i].kind = "completed" /\ pipe'[c][i].turn = server'[c].turn =>
                    /\ pipe'[c][i].status = server'[c].status /\ server'[c].status # "running"
                    /\ \A j \in 1 .. n : j > i => ~Own(c, j)'
        <3>1. pipe'[c][i] = pipe[c][i] /\ i \in DOMAIN pipe[c]
            BY <1>1
        <3>2. /\ pipe[c][i].kind = "item" =>
                 /\ server[c].turn # 0
                 /\ pipe[c][i].item.turn \in 1 .. Len(turns)
                 /\ turns[pipe[c][i].item.turn].thread = server[c].thread
              /\ pipe[c][i].kind = "completed" => server[c].turn # 0
              /\ pipe[c][i].kind = "completed" /\ pipe[c][i].turn = server[c].turn =>
                 /\ pipe[c][i].status = server[c].status /\ server[c].status # "running"
                 /\ \A j \in DOMAIN pipe[c] : j > i => ~Own(c, j)
            BY <3>1 DEF AnswerFits, LinesFit, MessagesFit
        <3>3. pipe[c][i].kind = "item" =>
                /\ pipe[c][i].item.turn \in 1 .. Len(turns')
                /\ turns'[pipe[c][i].item.turn].thread = server[c].thread
            BY <3>2 DEF TurnsGrow
        <3>4. (\A j \in DOMAIN pipe[c] : j > i => ~Own(c, j)) =>
                \A j \in 1 .. n : j > i => ~Own(c, j)'
            BY <1>1, <1>2
        <3> QED
            BY <3>1, <3>2, <3>3, <3>4
    <2>2. /\ m.kind = "item" =>
             /\ server'[c].turn # 0
             /\ m.item.turn \in 1 .. Len(turns')
             /\ turns'[m.item.turn].thread = server'[c].thread
          /\ m.kind = "completed" => server'[c].turn # 0 /\ m.turn # server'[c].turn
        BY DEF Aside, TurnsGrow
    <2>3. \A i \in 1 .. n + 1 : i \in 1 .. n \/ i = n + 1
        OBVIOUS
    <2> QED
        BY <1>1, <1>2, <2>1, <2>2, <2>3 DEF MessagesFit
<1>6. SaidFits(c)'
    <2>1. ASSUME NEW i \in 1 .. n + 1, Own(c, i)', \A j \in 1 .. n + 1 : j > i => ~Own(c, j)'
          PROVE  pipe'[c][i].item.n = server'[c].said
        <3>1. i \in 1 .. n /\ Own(c, i) /\ \A j \in 1 .. n : j > i => ~Own(c, j)
            BY <1>2, <2>1
        <3> QED
            BY <1>1, <3>1 DEF AnswerFits, LinesFit, SaidFits
    <2> QED
        BY <1>1, <2>1 DEF SaidFits
<1>7. LastFits(c)'
    <2>1. (\A i \in 1 .. n + 1 : ~Own(c, i)') => \A i \in 1 .. n : ~Own(c, i)
        BY <1>2
    <2> QED
        BY <1>1, <2>1 DEF AnswerFits, LinesFit, LastFits
<1> QED
    BY <1>3, <1>4, <1>5, <1>6, <1>7 DEF AnswerFits, LinesFit

\* What is not a response leaves the responses as they are.
LEMMA NoResponseFits ==
    ASSUME NEW c \in Callers, NEW m, AnswerFits(c), Added(c, m), m.kind # "response",
           call'[c] = call[c], server'[c].owes = server[c].owes,
           server'[c].turn = server[c].turn
    PROVE  ResponsesFit(c)'
<1>1. PICK n \in Nat :
        /\ DOMAIN pipe[c] = 1 .. n /\ DOMAIN pipe'[c] = 1 .. n + 1
        /\ pipe'[c][n + 1] = m /\ \A i \in 1 .. n : pipe'[c][i] = pipe[c][i]
    BY DEF Added
<1>2. \A i \in 1 .. n + 1 : pipe'[c][i].kind = "response" =>
        i \in 1 .. n /\ pipe'[c][i] = pipe[c][i]
    BY <1>1
<1>3. Expects(c)' = Expects(c)
    BY DEF Expects
<1> QED
    BY <1>1, <1>2, <1>3 DEF AnswerFits, ResponsesFit

\* A response is written only when one is owed, so there is no other in the pipe.
LEMMA ResponseFits ==
    ASSUME NEW c \in Callers, NEW m, AnswerFits(c), Added(c, m),
           server[c].owes # 0, m.id = server[c].owes, server'[c].owes = 0,
           m.ok /\ m.id = 3 => m.value = server[c].turn /\ server[c].turn # 0,
           call'[c] = call[c], server'[c].turn = server[c].turn
    PROVE  ResponsesFit(c)'
<1>1. PICK n \in Nat :
        /\ DOMAIN pipe[c] = 1 .. n /\ DOMAIN pipe'[c] = 1 .. n + 1
        /\ pipe'[c][n + 1] = m /\ \A i \in 1 .. n : pipe'[c][i] = pipe[c][i]
    BY DEF Added
<1>2. \A i \in 1 .. n : pipe[c][i].kind # "response"
    BY <1>1 DEF AnswerFits, ResponsesFit
<1>3. ASSUME NEW i \in 1 .. n + 1, pipe'[c][i].kind = "response", i # n + 1
      PROVE  FALSE
    <2>1. i \in 1 .. n /\ pipe'[c][i] = pipe[c][i]
        BY <1>1, <1>3
    <2> QED
        BY <1>2, <1>3, <2>1
<1>4. Expects(c)' = Expects(c) /\ m.id = Expects(c)
    BY DEF Expects, AnswerFits, ResponsesFit
<1> QED
    BY <1>1, <1>3, <1>4 DEF ResponsesFit

\* The server answers what it owes.
LEMMA AnswersFit ==
    ASSUME AInv, NEW c \in Callers,
           ServerRefuses(c) \/ ServerAnswers(c) \/ ServerNamesTurn(c)
    PROVE  AnswerFits(c)'
<1>1. /\ AnswerFits(c) /\ TypeOK /\ server \in [Callers -> Servers] /\ server[c] \in Servers
      /\ server[c].owes \in 0 .. 3 /\ server[c].turn \in Nat /\ threads \in Nat
    BY DEF AInv, TypeOK, Servers
<1>2. server[c].up /\ server[c].owes # 0 /\ server' = [server EXCEPT ![c].owes = 0]
      /\ UNCHANGED <<call, turns>>
    <2>1. CASE ServerRefuses(c)
        BY <2>1 DEF ServerRefuses
    <2>2. CASE ServerAnswers(c)
        <3>1. server[c].owes \in {1, 2} => server[c].owes # 0
            OBVIOUS
        <3> QED
            BY <2>2, <3>1, Zenon DEF ServerAnswers
    <2>3. CASE ServerNamesTurn(c)
        <3>1. server[c].owes = 3 => server[c].owes # 0
            OBVIOUS
        <3> QED
            BY <2>3, <3>1, Zenon DEF ServerNamesTurn
    <2> QED
        BY <2>1, <2>2, <2>3
<1>3. ~Over(c) /\ TurnsGrow
    BY <1>1, <1>2, SameTurns DEF AnswerFits, PlaceFits
<1>4. /\ server'[c].turn = server[c].turn /\ server'[c].said = server[c].said
      /\ server'[c].status = server[c].status /\ server'[c].thread = server[c].thread
      /\ server'[c].asking = server[c].asking /\ server'[c].owes = 0
    BY <1>1, <1>2 DEF Servers
<1>5. ASSUME NEW ok \in BOOLEAN, NEW value \in Nat,
             Send(c, Response(server[c].owes, ok, value)),
             ok /\ server[c].owes = 2 => value # 0,
             ok /\ server[c].owes = 3 => value = server[c].turn /\ value # 0
      PROVE  AnswerFits(c)'
    <2> DEFINE m == Response(server[c].owes, ok, value)
    <2>1. m \in Messages /\ m.kind = "response" /\ m.id = server[c].owes
          /\ m.ok = ok /\ m.value = value
        BY <1>1, <1>2, <1>5 DEF Response, Messages
    <2>2. Send(c, m)
        BY <1>5
    <2> HIDE DEF m
    <2>3. Added(c, m) /\ Aside(c, m)
        BY <1>1, <2>1, <2>2, SendAdds DEF Aside
    <2>4. m.ok /\ m.id = 3 => m.value = server[c].turn /\ server[c].turn # 0
        BY <1>5, <2>1
    <2>5. ResponsesFit(c)'
        BY <1>1, <1>2, <1>4, <2>1, <2>3, <2>4, ResponseFits
    <2> QED
        BY <1>1, <1>2, <1>3, <1>4, <2>3, <2>5, AddedFits
<1>6. CASE ServerRefuses(c)
    BY <1>5, <1>6 DEF ServerRefuses
<1>7. CASE ServerAnswers(c)
    <2>1. \/ server[c].owes = 1 /\ Send(c, Response(1, TRUE, 0))
          \/ server[c].owes = 2 /\ \E t \in 1 .. threads : Send(c, Response(2, TRUE, t))
          \/ server[c].owes = 2 /\ Send(c, Response(2, TRUE, threads + 1))
        BY <1>7 DEF ServerAnswers
    <2>2. threads + 1 \in Nat \ {0} /\ \A t \in 1 .. threads : t \in Nat \ {0}
        BY <1>1
    <2>3. CASE server[c].owes = 1 /\ Send(c, Response(server[c].owes, TRUE, 0))
        <3>1. TRUE \in BOOLEAN /\ 0 \in Nat /\ server[c].owes # 2 /\ server[c].owes # 3
            BY <2>3
        <3> QED
            BY <1>5, <2>3, <3>1, Zenon
    <2>4. ASSUME server[c].owes = 2, NEW t \in Nat \ {0},
                 Send(c, Response(server[c].owes, TRUE, t))
          PROVE  AnswerFits(c)'
        <3>1. TRUE \in BOOLEAN /\ t \in Nat /\ t # 0 /\ server[c].owes # 3
            BY <2>4
        <3> QED
            BY <1>5, <2>4, <3>1, Zenon
    <2> QED
        BY <2>1, <2>2, <2>3, <2>4
<1>8. CASE ServerNamesTurn(c)
    BY <1>1, <1>5, <1>8 DEF ServerNamesTurn
<1> QED
    BY <1>6, <1>7, <1>8

\* The turn begins before anything was written about it.
LEMMA TurnBeginsFits ==
    ASSUME AInv, NEW c \in Callers, TurnBegins(c)
    PROVE  AnswerFits(c)'
<1>1. /\ AnswerFits(c) /\ TypeOK /\ server \in [Callers -> Servers] /\ server[c] \in Servers
      /\ Len(turns) \in Nat /\ server[c].thread \in Nat
    BY DEF AInv, TypeOK, Servers
<1>2. /\ call[c].at = "turn" /\ server[c].turn = 0 /\ server[c].owes = 3
      /\ UNCHANGED <<call, pipe>>
    BY <1>1 DEF TurnBegins, AnswerFits, ResponsesFit, Expects
<1>3. /\ server'[c].turn = Len(turns) + 1 /\ server'[c].status = "running"
      /\ server'[c].thread = server[c].thread /\ server'[c].owes = server[c].owes
      /\ server'[c].asking = server[c].asking
    BY <1>1 DEF TurnBegins, Servers
<1>4. Len(turns') = Len(turns) + 1 /\ turns'[Len(turns) + 1].thread = server[c].thread
    <2>1. [thread |-> server[c].thread, ended |-> FALSE] \in Turns
        BY <1>1 DEF Turns
    <2> QED
        BY <2>1, AppendProperties DEF TurnBegins, TypeOK, AInv
<1>5. call[c].last = NoItem /\ NoItem.turn = 0
    BY <1>1, <1>2 DEF AnswerFits, PlaceFits, NoItem
<1>6. PlaceFits(c)'
    BY <1>1, <1>2, <1>3 DEF AnswerFits, PlaceFits, Over
<1>7. TurnFits(c)'
    BY <1>1, <1>2, <1>3, <1>4, <1>5 DEF TurnFits
<1>8. ResponsesFit(c)'
    <2>1. Expects(c)' = Expects(c)
        BY <1>2 DEF Expects
    <2> QED
        BY <1>1, <1>2, <1>3, <2>1 DEF AnswerFits, ResponsesFit
<1>9. \A i \in DOMAIN pipe[c] : pipe[c][i].kind \notin {"item", "completed"}
    BY <1>1, <1>2 DEF AnswerFits, LinesFit, MessagesFit
<1>10. MessagesFit(c)' /\ SaidFits(c)'
    BY <1>1, <1>2, <1>3, <1>9
    DEF AnswerFits, LinesFit, MessagesFit, SaidFits, Own
<1>11. LastFits(c)'
    BY <1>2, <1>3, <1>5 DEF LastFits
<1> QED
    BY <1>6, <1>7, <1>8, <1>10, <1>11 DEF AnswerFits, LinesFit

\* A server that runs a turn, or another one of the thread.
LEMMA TurnSaysFits ==
    ASSUME AInv, NEW c \in Callers, TurnSays(c)
    PROVE  AnswerFits(c)'
<1>1. /\ AnswerFits(c) /\ TypeOK /\ server \in [Callers -> Servers] /\ server[c] \in Servers
      /\ server[c].said \in Nat /\ server[c].turn \in Nat
    BY DEF AInv, TypeOK, Servers
<1> DEFINE m == Item([turn |-> server[c].turn, n |-> server[c].said + 1])
<1>2. /\ server[c].up /\ server[c].status = "running" /\ Send(c, m)
      /\ server' = [server EXCEPT ![c].said = server[c].said + 1] /\ UNCHANGED <<call, turns>>
    BY DEF TurnSays, Running
<1>3. /\ m \in Messages /\ m.kind = "item" /\ m.item.turn = server[c].turn
      /\ m.item.n = server[c].said + 1
    BY <1>1 DEF Item, Messages, Items
<1> HIDE DEF m
<1>4. Added(c, m)
    BY <1>1, <1>2, <1>3, SendAdds
<1>5. /\ server'[c].turn = server[c].turn /\ server'[c].said = server[c].said + 1
      /\ server'[c].status = server[c].status /\ server'[c].thread = server[c].thread
      /\ server'[c].asking = server[c].asking /\ server'[c].owes = server[c].owes
    BY <1>1, <1>2 DEF Servers
<1>6. PICK n \in Nat :
        /\ DOMAIN pipe[c] = 1 .. n /\ DOMAIN pipe'[c] = 1 .. n + 1
        /\ pipe'[c][n + 1] = m /\ \A i \in 1 .. n : pipe'[c][i] = pipe[c][i]
    BY <1>4 DEF Added
<1>7. /\ ~Over(c) /\ server[c].turn # 0 /\ server[c].turn \in 1 .. Len(turns)
      /\ turns[server[c].turn].thread = server[c].thread
    BY <1>1, <1>2 DEF AnswerFits, PlaceFits, TurnFits
<1>8. PlaceFits(c)'
    BY <1>1, <1>2, <1>5, <1>7 DEF AnswerFits, PlaceFits, Over
<1>9. TurnFits(c)'
    BY <1>1, <1>2, <1>5 DEF AnswerFits, TurnFits
<1>10. ResponsesFit(c)'
    BY <1>1, <1>2, <1>3, <1>4, <1>5, NoResponseFits
<1>11. \A i \in 1 .. n : ~(pipe[c][i].kind = "completed" /\ pipe[c][i].turn = server[c].turn)
    BY <1>1, <1>2, <1>6 DEF AnswerFits, LinesFit, MessagesFit
<1>12. Own(c, n + 1)' /\ n + 1 \in 1 .. n + 1
    BY <1>3, <1>5, <1>6 DEF Own
<1>13. MessagesFit(c)'
    <2>1. ASSUME NEW i \in 1 .. n + 1
          PROVE  /\ pipe'[c][i].kind = "item" =>
                    /\ server'[c].turn # 0
                    /\ pipe'[c][i].item.turn \in 1 .. Len(turns')
                    /\ turns'[pipe'[c][i].item.turn].thread = server'[c].thread
                 /\ pipe'[c][i].kind = "completed" =>
                    server'[c].turn # 0 /\ pipe'[c][i].turn # server'[c].turn
        <3>1. CASE i = n + 1
            BY <1>2, <1>3, <1>5, <1>6, <1>7, <3>1
        <3>2. CASE i \in 1 .. n
            BY <1>1, <1>2, <1>5, <1>6, <1>11, <3>2 DEF AnswerFits, LinesFit, MessagesFit
        <3> QED
            BY <3>1, <3>2
    <2> QED
        BY <1>6, <2>1 DEF MessagesFit
<1>14. SaidFits(c)'
    <2>1. ASSUME NEW i \in 1 .. n + 1, \A j \in 1 .. n + 1 : j > i => ~Own(c, j)'
          PROVE  i = n + 1
        BY <1>12, <2>1
    <2> QED
        BY <1>3, <1>5, <1>6, <2>1 DEF SaidFits
<1>15. LastFits(c)'
    BY <1>6, <1>12 DEF LastFits
<1> QED
    BY <1>8, <1>9, <1>10, <1>13, <1>14, <1>15 DEF AnswerFits, LinesFit

LEMMA ServerAsksFits ==
    ASSUME AInv, NEW c \in Callers, ServerAsks(c)
    PROVE  AnswerFits(c)'
<1>1. /\ AnswerFits(c) /\ TypeOK /\ server \in [Callers -> Servers] /\ server[c] \in Servers
    BY DEF AInv, TypeOK
<1>2. PICK id \in {3, 4} : Send(c, Request(id, id = 3))
    BY DEF ServerAsks
<1>3. server[c].up /\ server' = [server EXCEPT ![c].asking = TRUE] /\ UNCHANGED <<call, turns>>
    BY DEF ServerAsks
<1>4. /\ server'[c].turn = server[c].turn /\ server'[c].said = server[c].said
      /\ server'[c].status = server[c].status /\ server'[c].thread = server[c].thread
      /\ server'[c].owes = server[c].owes
    BY <1>1, <1>3 DEF Servers
<1> DEFINE m == Request(id, id = 3)
<1>5. m \in Messages /\ m.kind = "request"
    BY DEF Request, Messages
<1>6. Send(c, m)
    BY <1>2
<1> HIDE DEF m
<1>7. Added(c, m) /\ Aside(c, m)
    BY <1>1, <1>5, <1>6, SendAdds DEF Aside
<1>8. ResponsesFit(c)'
    BY <1>1, <1>3, <1>4, <1>5, <1>7, NoResponseFits
<1>9. ~Over(c) /\ TurnsGrow
    BY <1>1, <1>3, SameTurns DEF AnswerFits, PlaceFits
<1> QED
    BY <1>1, <1>3, <1>4, <1>5, <1>7, <1>8, <1>9, AddedFits

\* A turn that goes on in the thread writes of itself, and ends.
LEMMA OtherTurnFits ==
    ASSUME AInv, NEW c \in Callers, OtherTurnSays(c) \/ OtherTurnEnds(c)
    PROVE  AnswerFits(c)'
<1>1. /\ AnswerFits(c) /\ TypeOK /\ Len(turns) \in Nat
    BY DEF AInv, TypeOK
<1>2. PICK i \in 1 .. Len(turns) :
        /\ GoesOn(c, i)
        /\ \/ Send(c, Item([turn |-> i, n |-> 0])) /\ UNCHANGED turns
           \/ Send(c, Completed(i, "completed")) /\ turns' = [turns EXCEPT ![i].ended = TRUE]
    BY DEF OtherTurnSays, OtherTurnEnds
<1>3. UNCHANGED <<call, server>>
    BY DEF OtherTurnSays, OtherTurnEnds
<1>4. /\ server[c].up /\ server[c].turn # 0 /\ server[c].turn # i
      /\ turns[i].thread = server[c].thread
    BY <1>2 DEF GoesOn
<1>5. ~Over(c) /\ TurnsGrow
    BY <1>1, <1>2, <1>4, SameTurns, TurnsStay DEF AnswerFits, PlaceFits, TurnsGrow
<1>6. ASSUME NEW m \in Messages, Send(c, m), m.kind # "response", Aside(c, m)
      PROVE  AnswerFits(c)'
    <2>1. Added(c, m)
        BY <1>1, <1>6, SendAdds
    <2>2. ResponsesFit(c)'
        BY <1>1, <1>3, <1>6, <2>1, NoResponseFits
    <2> QED
        BY <1>1, <1>3, <1>5, <1>6, <2>1, <2>2, AddedFits
<1>7. CASE Send(c, Item([turn |-> i, n |-> 0]))
    <2> DEFINE m == Item([turn |-> i, n |-> 0])
    <2>1. m \in Messages /\ m.kind = "item" /\ m.item.turn = i
        BY DEF Item, Messages, Items
    <2>2. Send(c, m)
        BY <1>7
    <2> HIDE DEF m
    <2>3. Aside(c, m)
        BY <1>4, <2>1 DEF Aside
    <2> QED
        BY <1>6, <2>1, <2>2, <2>3
<1>8. CASE Send(c, Completed(i, "completed"))
    <2> DEFINE m == Completed(i, "completed")
    <2>1. m \in Messages /\ m.kind = "completed" /\ m.turn = i
        BY DEF Completed, Messages, Statuses
    <2>2. Send(c, m)
        BY <1>8
    <2> HIDE DEF m
    <2>3. Aside(c, m)
        BY <1>4, <2>1 DEF Aside
    <2> QED
        BY <1>6, <2>1, <2>2, <2>3
<1> QED
    BY <1>2, <1>7, <1>8

\* The turn ends once, after what it has said.
LEMMA TurnEndsFits ==
    ASSUME AInv, NEW c \in Callers, TurnEnds(c)
    PROVE  AnswerFits(c)'
<1>1. /\ AnswerFits(c) /\ TypeOK /\ server \in [Callers -> Servers] /\ server[c] \in Servers
      /\ server[c].turn \in Nat
    BY DEF AInv, TypeOK, Servers
<1>2. /\ server[c].up /\ server[c].status = "running" /\ UNCHANGED call
      /\ turns' = [turns EXCEPT ![server[c].turn].ended = TRUE]
    BY DEF TurnEnds, Running
<1>3. TurnsGrow
    BY <1>1, <1>2, TurnsStay DEF TurnsGrow, TypeOK
<1>4. PICK status \in {"completed", "interrupted", "failed"}, m \in Messages :
        /\ Send(c, m) /\ server' = [server EXCEPT ![c].status = status]
        /\ m.kind \in {"completed", "error"}
        /\ m.kind = "completed" => m.turn = server[c].turn /\ m.status = status
    <2>1. \A status \in {"completed", "interrupted"} :
            /\ Completed(server[c].turn, status) \in Messages
            /\ Completed(server[c].turn, status).kind = "completed"
            /\ Completed(server[c].turn, status).turn = server[c].turn
            /\ Completed(server[c].turn, status).status = status
        BY <1>1 DEF Completed, Messages, Statuses
    <2>2. Failed \in Messages /\ Failed.kind = "error"
        BY DEF Failed, Messages
    <2> QED
        BY <2>1, <2>2 DEF TurnEnds
<1>5. /\ server'[c].turn = server[c].turn /\ server'[c].said = server[c].said
      /\ server'[c].status = status /\ server'[c].thread = server[c].thread
      /\ server'[c].asking = server[c].asking /\ server'[c].owes = server[c].owes
    BY <1>1, <1>4 DEF Servers
<1>6. Added(c, m)
    BY <1>1, <1>4, SendAdds
<1>7. PICK n \in Nat :
        /\ DOMAIN pipe[c] = 1 .. n /\ DOMAIN pipe'[c] = 1 .. n + 1
        /\ pipe'[c][n + 1] = m /\ \A i \in 1 .. n : pipe'[c][i] = pipe[c][i]
    BY <1>6 DEF Added
<1>8. /\ ~Over(c) /\ server[c].turn # 0
    BY <1>1, <1>2 DEF AnswerFits, PlaceFits, TurnFits
<1>9. PlaceFits(c)'
    BY <1>1, <1>2, <1>5, <1>8 DEF AnswerFits, PlaceFits, Over
<1>10. TurnFits(c)'
    BY <1>1, <1>2, <1>3, <1>5, <1>8 DEF AnswerFits, TurnFits, TurnsGrow
<1>11. ResponsesFit(c)'
    BY <1>1, <1>2, <1>4, <1>5, <1>6, NoResponseFits
<1>12. \A i \in 1 .. n : ~(pipe[c][i].kind = "completed" /\ pipe[c][i].turn = server[c].turn)
    BY <1>1, <1>2, <1>7 DEF AnswerFits, LinesFit, MessagesFit
<1>13. /\ \A i \in 1 .. n : Own(c, i)' <=> Own(c, i)
       /\ ~Own(c, n + 1)'
    BY <1>4, <1>5, <1>7 DEF Own
<1>14. MessagesFit(c)'
    <2>1. ASSUME NEW i \in 1 .. n + 1
          PROVE  /\ pipe'[c][i].kind = "item" =>
                    /\ server'[c].turn # 0
                    /\ pipe'[c][i].item.turn \in 1 .. Len(turns')
                    /\ turns'[pipe'[c][i].item.turn].thread = server'[c].thread
                 /\ pipe'[c][i].kind = "completed" => server'[c].turn # 0
                 /\ pipe'[c][i].kind = "completed" /\ pipe'[c][i].turn = server'[c].turn =>
                    i = n + 1 /\ pipe'[c][i].status = server'[c].status
        <3>1. CASE i = n + 1
            BY <1>4, <1>5, <1>7, <1>8, <3>1
        <3>2. CASE i \in 1 .. n
            <4>1. /\ pipe'[c][i] = pipe[c][i] /\ i \in DOMAIN pipe[c]
                  /\ ~(pipe[c][i].kind = "completed" /\ pipe[c][i].turn = server[c].turn)
                BY <1>7, <1>12, <3>2
            <4>2. pipe[c][i].kind = "item" =>
                    /\ pipe[c][i].item.turn \in 1 .. Len(turns)
                    /\ turns[pipe[c][i].item.turn].thread = server[c].thread
                BY <1>1, <4>1 DEF AnswerFits, LinesFit, MessagesFit
            <4>3. pipe[c][i].kind = "item" =>
                    /\ pipe[c][i].item.turn \in 1 .. Len(turns')
                    /\ turns'[pipe[c][i].item.turn].thread = server[c].thread
                BY <1>3, <4>2 DEF TurnsGrow
            <4> QED
                BY <1>5, <1>8, <4>1, <4>3
        <3> QED
            BY <3>1, <3>2
    <2>2. server'[c].status # "running"
        BY <1>5
    <2>3. \A j \in 1 .. n + 1 : ~(j > n + 1)
        OBVIOUS
    <2> QED
        BY <1>7, <2>1, <2>2, <2>3 DEF MessagesFit
<1>15. SaidFits(c)'
    <2>1. ASSUME NEW i \in 1 .. n + 1, Own(c, i)', \A j \in 1 .. n + 1 : j > i => ~Own(c, j)'
          PROVE  pipe'[c][i].item.n = server'[c].said
        <3>1. i \in 1 .. n /\ Own(c, i) /\ \A j \in 1 .. n : j > i => ~Own(c, j)
            BY <1>13, <2>1
        <3> QED
            BY <1>1, <1>5, <1>7, <3>1 DEF AnswerFits, LinesFit, SaidFits
    <2> QED
        BY <1>7, <2>1 DEF SaidFits
<1>16. LastFits(c)'
    <2>1. (\A i \in 1 .. n + 1 : ~Own(c, i)') => \A i \in 1 .. n : ~Own(c, i)
        BY <1>13
    <2> QED
        BY <1>1, <1>2, <1>5, <1>7, <2>1 DEF AnswerFits, LinesFit, LastFits
<1> QED
    BY <1>9, <1>10, <1>11, <1>14, <1>15, <1>16 DEF AnswerFits, LinesFit

----------------------------------------------------------------------------
\* What one call and its server do concerns no other, but for the turns.
LEMMA OthersStay ==
    ASSUME TypeOK, NEW c \in Callers, Start(c) \/ Proceeds(c) \/ Serves(c), NEW d \in Callers \ {c}
    PROVE  /\ TurnsGrow
           /\ call'[d] = call[d] /\ server'[d] = server[d] /\ pipe'[d] = pipe[d]
<1>1. /\ call \in [Callers -> Calls] /\ server \in [Callers -> Servers]
      /\ pipe \in [Callers -> Seq(Messages)]
    BY DEF TypeOK
<1>2. CASE Start(c) \/ Proceeds(c)
    <2>1. UNCHANGED turns
        BY <1>2
        DEF Start, Proceeds, ReadResponse, ReadRequest, ReadItem, ReadCompletion, ReadError,
            Timeout, Record, WriteTemporary, ReplaceJournal, Unlink, AskForTurn
    <2>2. call'[d] = call[d] /\ server'[d] = server[d] /\ pipe'[d] = pipe[d]
        BY <1>1, <1>2
        DEF Start, Proceeds, ReadResponse, ReadRequest, ReadItem, ReadCompletion, ReadError,
            Timeout, Record, WriteTemporary, ReplaceJournal, Unlink, AskForTurn,
            Raise, Return, Goto, PassOver, Take
    <2> QED
        BY <2>1, <2>2, SameTurns
<1>3. CASE Serves(c)
    <2>1. call'[d] = call[d] /\ server'[d] = server[d] /\ pipe'[d] = pipe[d]
        BY <1>1, <1>3
        DEF Serves, ServerRefuses, ServerAnswers, TurnBegins, ServerNamesTurn, TurnSays,
            ServerAsks, TurnEnds, OtherTurnSays, OtherTurnEnds, Send
    <2>2. TurnsGrow
        <3>1. CASE TurnBegins(c)
            <4>1. [thread |-> server[c].thread, ended |-> FALSE] \in Turns
                BY <1>1 DEF Servers, Turns
            <4> QED
                BY <3>1, <4>1, AppendProperties DEF TurnBegins, TypeOK, TurnsGrow
        <3>2. CASE TurnEnds(c) \/ OtherTurnEnds(c)
            <4>1. PICK i : turns' = [turns EXCEPT ![i].ended = TRUE]
                BY <3>2 DEF TurnEnds, OtherTurnEnds
            <4> QED
                BY <4>1, TurnsStay DEF TypeOK, TurnsGrow
        <3>3. CASE UNCHANGED turns
            BY <3>3, SameTurns
        <3> QED
            BY <1>3, <3>1, <3>2, <3>3
            DEF Serves, ServerRefuses, ServerAnswers, ServerNamesTurn, TurnSays, ServerAsks,
                OtherTurnSays
    <2> QED
        BY <2>1, <2>2
<1> QED
    BY <1>2, <1>3

LEMMA NextAInv == AInv /\ [Next]_vars => AInv'
<1> SUFFICES ASSUME AInv, [Next]_vars, NEW d \in Callers
             PROVE  AnswerFits(d)'
    BY NextTypeOK DEF AInv
<1>1. TypeOK /\ AnswerFits(d)
    BY DEF AInv
<1>2. ASSUME NEW c \in Callers, Start(c) \/ Proceeds(c) \/ Serves(c)
      PROVE  AnswerFits(d)'
    <2>1. CASE d # c
        BY <1>1, <1>2, <2>1, OthersStay, OthersFit
    <2>2. CASE d = c
        <3>1. CASE \/ ReadResponse(c) \/ ReadRequest(c) \/ ReadItem(c) \/ ReadCompletion(c)
                   \/ ReadError(c)
            BY <2>2, <3>1, ReadResponseFits, ReadRequestFits, ReadItemFits, ReadCompletionFits,
               ReadErrorFits
        <3>2. CASE Timeout(c)
            BY <3>2, RaiseFits DEF Timeout
        <3>3. CASE \/ Start(c) \/ Record(c) \/ WriteTemporary(c) \/ ReplaceJournal(c)
                   \/ Unlink(c) \/ AskForTurn(c)
            BY <2>2, <3>3, AsksFits
        <3>4. CASE Serves(c)
            BY <2>2, <3>4, AnswersFit, TurnBeginsFits, TurnSaysFits, ServerAsksFits,
               OtherTurnFits, TurnEndsFits DEF Serves
        <3> QED
            BY <1>2, <3>1, <3>2, <3>3, <3>4 DEF Proceeds
    <2> QED
        BY <2>1, <2>2
<1>3. CASE UNCHANGED vars
    BY <1>1, <1>3, OthersFit, SameTurns DEF vars
<1> QED
    BY <1>2, <1>3, CrashFits DEF Next

LEMMA AInvariance == Spec => []AInv
    BY AInvInit, NextAInv, PTL DEF Spec

\* For any callers and bounds, what run_turn returns is the outcome of the turn it began, and its
\* last message is the last of that turn or one of another turn of the thread: never an earlier
\* one, whatever the server writes before it names the turn, and whatever was given up before.
THEOREM Answers == Spec => []AnswerIsTheTurns
<1>1. AInv => AnswerIsTheTurns
    <2> SUFFICES ASSUME AInv, NEW c \in Callers, call[c].at = "returned"
                 PROVE  /\ server[c].turn = call[c].turn
                        /\ server[c].status = call[c].status
                        /\ call[c].last.turn = call[c].turn => call[c].last.n = server[c].said
                        /\ call[c].last # NoItem =>
                             turns[call[c].last.turn].thread = call[c].thread
        BY DEF AnswerIsTheTurns
    <2>1. AnswerFits(c) /\ pipe[c] = <<>>
        BY DEF AInv, AnswerFits, PlaceFits, Over
    <2>2. /\ server[c].turn = call[c].turn /\ server[c].turn # 0
          /\ server[c].status = call[c].status
        BY <2>1 DEF AnswerFits, PlaceFits
    <2>3. call[c].last.turn = call[c].turn => call[c].last.n = server[c].said
        BY <2>1, <2>2 DEF AnswerFits, LinesFit, LastFits
    <2>4. call[c].last # NoItem => turns[call[c].last.turn].thread = call[c].thread
        BY <2>1 DEF AnswerFits, TurnFits
    <2> QED
        BY <2>2, <2>3, <2>4
<1> QED
    BY <1>1, AInvariance, PTL

===============================================================================
