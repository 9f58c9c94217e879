------------------------------ MODULE CodexTurn ------------------------------
(***************************************************************************)
(* A turn of Codex over the app server: CodexAppServer.run_turn, message   *)
(* by message, for calls that share a resume key - a diagnosis or the      *)
(* analysis of a requirement, which is asked for again when it failed,     *)
(* when the process restarted, or by a workflow that overlaps another.     *)
(*                                                                         *)
(* Every call starts a server process of its own and reads its output      *)
(* through a queue, in order.  Threads outlive the processes; the journal, *)
(* a file per resume key, says which thread the key is bound to.  Calls of *)
(* one process share the name of the temporary file it is written through. *)
(*                                                                         *)
(* The server is external: it answers, reports and asks in any order the   *)
(* client does not forbid, or not at all.  One that cannot write, because  *)
(* nobody reads its error output, is one that writes no more; a call that  *)
(* cannot write to its server is one that takes no further step.           *)
(***************************************************************************)
EXTENDS Naturals, Sequences, FiniteSets

CONSTANTS
    Callers,      \* calls that share the resume key
    MaxCalls,     \* bound: calls that are made, together
    MaxItems,     \* bound: agent messages, together
    MaxRequests,  \* bound: requests the servers make, together
    MaxCrashes    \* bound: restarts of the control plane

ASSUME CodexTurnAssumption ==
    /\ IsFiniteSet(Callers) /\ Callers # {}
    /\ MaxCalls \in Nat \ {0} /\ MaxItems \in Nat /\ MaxRequests \in Nat /\ MaxCrashes \in Nat

VARIABLES
    journal,   \* thread the resume key is bound to, or 0
    temporary, \* content of the temporary file, or 0 if there is none
    call,      \* caller -> [at, thread, turn, last, status]
    pipe,      \* caller -> what its server has written and the call has not read
    server,    \* caller -> [up, owes, thread, turn, said, status, asking]
    threads,   \* threads there are
    turns,     \* turns there are: [thread, ended]
    together,  \* two calls recorded a thread at the same time (not in the code)
    budget     \* [calls, items, requests, crashes] so far

vars == <<journal, temporary, call, pipe, server, threads, turns, together, budget>>

----------------------------------------------------------------------------
\* A call makes one thread at most.
Threads == 1 .. MaxCalls

\* An agent message: the how-manieth of which turn.
NoItem == [turn |-> 0, n |-> 0]

\* What the server writes: a response to the request of that id; a request of its own, with an
\* id of its own; a finished message; a finished turn; an error of the turn.
Response(id, ok, value) == [kind |-> "response", id |-> id, ok |-> ok, value |-> value]
Request(id, known) == [kind |-> "request", id |-> id, known |-> known]
Item(item) == [kind |-> "item", item |-> item]
Completed(turn, status) == [kind |-> "completed", turn |-> turn, status |-> status]
Failed == [kind |-> "error"]

Uncalled == [at |-> "idle", thread |-> 0, turn |-> 0, last |-> NoItem, status |-> "none"]
NoServer == [up |-> FALSE, owes |-> 0, thread |-> 0, turn |-> 0, said |-> 0,
             status |-> "none", asking |-> FALSE]

\* The call waits for a response, or for the end of the turn.
Expects(c) == CASE call[c].at = "initialize" -> 1
                [] call[c].at = "thread"     -> 2
                [] call[c].at = "turn"       -> 3
                [] OTHER                     -> 0
Reading(c) == Expects(c) # 0 \/ call[c].at = "await"
Over(c) == call[c].at \in {"idle", "returned", "raised"}

Goto(c, at) == call' = [call EXCEPT ![c].at = at]
Send(c, message) == pipe' = [pipe EXCEPT ![c] = Append(@, message)]

\* Every way out of run_turn ends the server; what it wrote and nobody read is gone.
Raise(c) ==
    /\ call' = [call EXCEPT ![c] = [Uncalled EXCEPT !.at = "raised"]]
    /\ server' = [server EXCEPT ![c] = NoServer]
    /\ pipe' = [pipe EXCEPT ![c] = <<>>]

Return(c, status) ==
    /\ call' = [call EXCEPT ![c].at = "returned", ![c].status = status]
    /\ server' = [server EXCEPT ![c].up = FALSE, ![c].asking = FALSE]
    /\ pipe' = [pipe EXCEPT ![c] = <<>>]

\* The next line of the queue is read, and the call goes on reading.
Reads(c, kind) == Reading(c) /\ pipe[c] # <<>> /\ Head(pipe[c]).kind = kind
Line(c) == Head(pipe[c])
Take(c) == pipe' = [pipe EXCEPT ![c] = Tail(@)]
PassOver(c) == Take(c) /\ UNCHANGED <<call, server>>

Init ==
    /\ journal = 0 /\ temporary = 0
    /\ call = [c \in Callers |-> Uncalled]
    /\ pipe = [c \in Callers |-> <<>>]
    /\ server = [c \in Callers |-> NoServer]
    /\ threads = 0 /\ turns = <<>>
    /\ together = FALSE
    /\ budget = [calls |-> 0, items |-> 0, requests |-> 0, crashes |-> 0]

----------------------------------------------------------------------------
\* The call.

\* run_turn: a process, and initialize.
Start(c) ==
    /\ call[c].at \in {"idle", "raised"} /\ budget.calls < MaxCalls
    /\ call' = [call EXCEPT ![c].at = "initialize"]
    /\ server' = [server EXCEPT ![c].up = TRUE, ![c].owes = 1]
    /\ budget' = [budget EXCEPT !.calls = @ + 1]
    /\ UNCHANGED <<journal, temporary, pipe, threads, turns, together>>

\* The response the call waits for; after initialize the journal says which thread to ask for.
ReadResponse(c) ==
    /\ Reads(c, "response")
    /\ \/ /\ Line(c).ok /\ Line(c).id = 1
          /\ call' = [call EXCEPT ![c].at = "thread", ![c].thread = journal]
          /\ server' = [server EXCEPT ![c].owes = 2, ![c].thread = journal]
          /\ Take(c)
       \/ /\ Line(c).ok /\ Line(c).id = 2 /\ call[c].thread \in {0, Line(c).value}
          /\ call' = [call EXCEPT ![c].at = "record", ![c].thread = Line(c).value]
          /\ Take(c) /\ UNCHANGED server
       \/ /\ Line(c).ok /\ Line(c).id = 3
          /\ call' = [call EXCEPT ![c].at = "await", ![c].turn = Line(c).value]
          /\ Take(c) /\ UNCHANGED server
       \/ /\ ~Line(c).ok \/ (Line(c).id = 2 /\ call[c].thread \notin {0, Line(c).value})
          /\ Raise(c)
    /\ UNCHANGED <<journal, temporary, threads, turns, together, budget>>

\* Somebody else is between looking into the journal and replacing it.
Recording(c) == \E d \in Callers \ {c} : call[d].at \in {"write", "replace"}

\* Faulty variant: the key is bound anew.
RecordOver(c) ==
    /\ call[c].at = "record"
    /\ Goto(c, "write") /\ together' = (together \/ Recording(c))
    /\ UNCHANGED <<journal, temporary, pipe, server, threads, turns, budget>>

\* _record_thread: the key stays bound to the thread it is bound to.
Record(c) ==
    /\ call[c].at = "record"
    /\ \/ /\ journal = 0
          /\ Goto(c, "write") /\ together' = (together \/ Recording(c))
          /\ UNCHANGED <<pipe, server>>
       \/ /\ journal = call[c].thread
          /\ Goto(c, "ask") /\ UNCHANGED <<together, pipe, server>>
       \/ /\ journal \notin {0, call[c].thread}
          /\ Raise(c) /\ UNCHANGED together
    /\ UNCHANGED <<journal, temporary, threads, turns, budget>>

WriteTemporary(c) ==
    /\ call[c].at = "write"
    /\ temporary' = call[c].thread
    /\ Goto(c, "replace")
    /\ UNCHANGED <<journal, pipe, server, threads, turns, together, budget>>

\* The file of that name may be gone, or somebody else's.
ReplaceJournal(c) ==
    /\ call[c].at = "replace"
    /\ IF temporary = 0 THEN Raise(c) /\ UNCHANGED journal
       ELSE journal' = temporary /\ Goto(c, "unlink") /\ UNCHANGED <<pipe, server>>
    /\ temporary' = 0
    /\ UNCHANGED <<threads, turns, together, budget>>

Unlink(c) ==
    /\ call[c].at = "unlink"
    /\ temporary' = 0
    /\ Goto(c, "ask")
    /\ UNCHANGED <<journal, pipe, server, threads, turns, together, budget>>

\* turn/start on the thread that is journaled by now.
AskForTurn(c) ==
    /\ call[c].at = "ask"
    /\ Goto(c, "turn")
    /\ server' = [server EXCEPT ![c].owes = 3, ![c].thread = call[c].thread]
    /\ UNCHANGED <<journal, temporary, pipe, threads, turns, together, budget>>

\* Before the turn there is no context to answer a request; one whose id is that of the awaited
\* response is taken for the response, and is none.
Unanswerable(c) == call[c].at \in {"initialize", "thread"} \/ Line(c).id = Expects(c)

\* _handle_server_request answers each, if only that it does not know the method.
ReadRequest(c) ==
    /\ Reads(c, "request")
    /\ IF Unanswerable(c) THEN Raise(c)
       ELSE /\ server' = [server EXCEPT ![c].asking = FALSE]
            /\ Take(c) /\ UNCHANGED call
    /\ UNCHANGED <<journal, temporary, threads, turns, together, budget>>

\* A message counts once the turn is awaited.
ReadItem(c) ==
    /\ Reads(c, "item")
    /\ IF call[c].at # "await" THEN PassOver(c)
       ELSE /\ call' = [call EXCEPT ![c].last = Line(c).item]
            /\ Take(c) /\ UNCHANGED server
    /\ UNCHANGED <<journal, temporary, threads, turns, together, budget>>

\* Faulty variant: the end of any turn will do.
ReadAnyCompletion(c) ==
    /\ Reads(c, "completed")
    /\ IF call[c].at = "await" THEN Return(c, Line(c).status) ELSE PassOver(c)
    /\ UNCHANGED <<journal, temporary, threads, turns, together, budget>>

\* The end of the turn that was begun; before its id is known, an end is one event of many.
ReadCompletion(c) ==
    /\ Reads(c, "completed")
    /\ IF call[c].at = "await" /\ Line(c).turn = call[c].turn
       THEN Return(c, Line(c).status) ELSE PassOver(c)
    /\ UNCHANGED <<journal, temporary, threads, turns, together, budget>>

ReadError(c) ==
    /\ Reads(c, "error")
    /\ IF call[c].at = "await" THEN Raise(c) ELSE PassOver(c)
    /\ UNCHANGED <<journal, temporary, threads, turns, together, budget>>

\* The deadline of the call, whatever the queue holds.  Output that ends, or is not a JSON
\* object, makes the call raise as well, before the deadline, which may come as early.
Timeout(c) ==
    /\ Reading(c)
    /\ Raise(c)
    /\ UNCHANGED <<journal, temporary, threads, turns, together, budget>>

----------------------------------------------------------------------------
\* The server.

ServerRefuses(c) ==
    /\ server[c].up /\ server[c].owes # 0
    /\ Send(c, Response(server[c].owes, FALSE, 0))
    /\ server' = [server EXCEPT ![c].owes = 0]
    /\ UNCHANGED <<journal, temporary, call, threads, turns, together, budget>>

\* thread/start makes a thread; thread/resume answers with the thread, or with another one.
ServerAnswers(c) ==
    /\ server[c].up /\ server[c].owes \in {1, 2}
    /\ \/ /\ server[c].owes = 1
          /\ Send(c, Response(1, TRUE, 0)) /\ UNCHANGED threads
       \/ /\ server[c].owes = 2 /\ server[c].thread # 0
          /\ \E t \in 1 .. threads : Send(c, Response(2, TRUE, t))
          /\ UNCHANGED threads
       \/ /\ server[c].owes = 2 /\ server[c].thread = 0
          /\ Send(c, Response(2, TRUE, threads + 1))
          /\ threads' = threads + 1
    /\ server' = [server EXCEPT ![c].owes = 0]
    /\ UNCHANGED <<journal, temporary, call, turns, together, budget>>

\* The turn begins, and may have come far before turn/start is answered.
TurnBegins(c) ==
    /\ server[c].up /\ server[c].owes = 3 /\ server[c].turn = 0
    /\ turns' = Append(turns, [thread |-> server[c].thread, ended |-> FALSE])
    /\ server' = [server EXCEPT ![c].turn = Len(turns) + 1, ![c].status = "running"]
    /\ UNCHANGED <<journal, temporary, call, pipe, threads, together, budget>>

ServerNamesTurn(c) ==
    /\ server[c].up /\ server[c].owes = 3 /\ server[c].turn # 0
    /\ Send(c, Response(3, TRUE, server[c].turn))
    /\ server' = [server EXCEPT ![c].owes = 0]
    /\ UNCHANGED <<journal, temporary, call, threads, turns, together, budget>>

Running(c) == server[c].up /\ server[c].status = "running" /\ ~server[c].asking

TurnSays(c) ==
    /\ Running(c) /\ budget.items < MaxItems
    /\ Send(c, Item([turn |-> server[c].turn, n |-> server[c].said + 1]))
    /\ server' = [server EXCEPT ![c].said = @ + 1]
    /\ budget' = [budget EXCEPT !.items = @ + 1]
    /\ UNCHANGED <<journal, temporary, call, threads, turns, together>>

\* A server asks, and waits for the answer.  It numbers its requests as it likes: here one has
\* the id of the last response, and the other is of a method the client does not know.
ServerAsks(c) ==
    /\ server[c].up /\ ~server[c].asking /\ budget.requests < MaxRequests
    /\ server[c].status \in {"none", "running"}
    /\ \E id \in {3, 4} : Send(c, Request(id, id = 3))
    /\ server' = [server EXCEPT ![c].asking = TRUE]
    /\ budget' = [budget EXCEPT !.requests = @ + 1]
    /\ UNCHANGED <<journal, temporary, call, threads, turns, together>>

TurnEnds(c) ==
    /\ Running(c)
    /\ \/ \E status \in {"completed", "interrupted"} :
            /\ Send(c, Completed(server[c].turn, status))
            /\ server' = [server EXCEPT ![c].status = status]
       \/ Send(c, Failed) /\ server' = [server EXCEPT ![c].status = "failed"]
    /\ turns' = [turns EXCEPT ![server[c].turn].ended = TRUE]
    /\ UNCHANGED <<journal, temporary, call, threads, together, budget>>

\* The thread was resumed, and a turn that somebody gave up goes on there.
GoesOn(c, i) ==
    /\ server[c].up /\ server[c].turn \notin {0, i}
    /\ ~turns[i].ended /\ turns[i].thread = server[c].thread

OtherTurnSays(c) ==
    /\ budget.items < MaxItems
    /\ \E i \in 1 .. Len(turns) : GoesOn(c, i) /\ Send(c, Item([turn |-> i, n |-> 0]))
    /\ budget' = [budget EXCEPT !.items = @ + 1]
    /\ UNCHANGED <<journal, temporary, call, server, threads, turns, together>>

OtherTurnEnds(c) ==
    /\ \E i \in 1 .. Len(turns) :
        /\ GoesOn(c, i)
        /\ Send(c, Completed(i, "completed"))
        /\ turns' = [turns EXCEPT ![i].ended = TRUE]
    /\ UNCHANGED <<journal, temporary, call, server, threads, together, budget>>

\* The control plane stops, and with it every call and every pipe.
Crash ==
    /\ budget.crashes < MaxCrashes
    /\ \E c \in Callers : ~Over(c)
    /\ budget' = [budget EXCEPT !.crashes = @ + 1]
    /\ call' = [c \in Callers |-> IF Over(c) THEN call[c] ELSE Uncalled]
    /\ server' = [c \in Callers |-> IF Over(c) THEN server[c] ELSE NoServer]
    /\ pipe' = [c \in Callers |-> <<>>]
    /\ UNCHANGED <<journal, temporary, threads, turns, together>>

----------------------------------------------------------------------------
Proceeds(c) ==
    \/ ReadResponse(c) \/ ReadRequest(c) \/ ReadItem(c) \/ ReadCompletion(c) \/ ReadError(c)
    \/ Timeout(c)
    \/ Record(c) \/ WriteTemporary(c) \/ ReplaceJournal(c) \/ Unlink(c) \/ AskForTurn(c)

Serves(c) ==
    \/ ServerRefuses(c) \/ ServerAnswers(c) \/ TurnBegins(c) \/ ServerNamesTurn(c)
    \/ TurnSays(c) \/ ServerAsks(c) \/ TurnEnds(c)
    \/ OtherTurnSays(c) \/ OtherTurnEnds(c)

Next == Crash \/ \E c \in Callers : Start(c) \/ Proceeds(c) \/ Serves(c)

Spec == Init /\ [][Next]_vars

----------------------------------------------------------------------------
\* The shape of the state: calls and servers in their phases, and in a pipe only what a server
\* writes; a thread that a server names exists.
Phases == {"idle", "initialize", "thread", "record", "write", "replace", "unlink", "ask",
           "turn", "await", "returned", "raised"}
Statuses == {"none", "running", "completed", "interrupted", "failed"}
Items == [turn : Nat, n : Nat]
Messages ==
    {r \in [kind : {"response"}, id : 1 .. 3, ok : BOOLEAN, value : Nat] :
        r.ok /\ r.id = 2 => r.value # 0}
    \cup [kind : {"request"}, id : {3, 4}, known : BOOLEAN]
    \cup [kind : {"item"}, item : Items]
    \cup [kind : {"completed"}, turn : Nat, status : Statuses]
    \cup [kind : {"error"}]

Calls == [at : Phases, thread : Nat, turn : Nat, last : Items, status : Statuses]
Servers == [up : BOOLEAN, owes : 0 .. 3, thread : Nat, turn : Nat, said : Nat,
            status : Statuses, asking : BOOLEAN]
Turns == [thread : Nat, ended : BOOLEAN]
Budgets == [calls : Nat, items : Nat, requests : Nat, crashes : Nat]

TypeOK ==
    /\ journal \in Nat /\ temporary \in Nat /\ threads \in Nat
    /\ call \in [Callers -> Calls]
    /\ pipe \in [Callers -> Seq(Messages)]
    /\ server \in [Callers -> Servers]
    /\ turns \in Seq(Turns)
    /\ together \in BOOLEAN
    /\ budget \in Budgets

\* Every turn that was ever begun for the key is on the thread the journal binds it to, also
\* when a call was given up or the process died anywhere in between, unless two calls wrote
\* the journal at the same time.
TurnsAreOnTheJournaledThread ==
    ~together => \A i \in 1 .. Len(turns) : turns[i].thread = journal

\* What a call returns is the outcome of the turn it began.  The last message it returns, the
\* one every caller parses, is the last of that turn or of one that goes on in the thread: it
\* may be missing, but an earlier message of the turn is never in its place.
AnswerIsTheTurns ==
    \A c \in Callers : call[c].at = "returned" =>
        /\ server[c].turn = call[c].turn
        /\ server[c].status = call[c].status
        /\ call[c].last.turn = call[c].turn => call[c].last.n = server[c].said
        /\ call[c].last # NoItem => turns[call[c].last.turn].thread = call[c].thread

=============================================================================
