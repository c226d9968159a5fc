------------------------------- MODULE Server -------------------------------
(***************************************************************************)
(* The JSON-RPC server (internal/transport/jsonrpc) of one daemon, from    *)
(* serving to the end of Shutdown, with the Go client (pkg/lacclient) at   *)
(* the other end of each connection.                                       *)
(*                                                                         *)
(* A connection has a goroutine that reads requests and one for each call  *)
(* it runs.  Each client makes the calls of its program in order and does  *)
(* not wait for the answers.  A call that "parks" (Acquire, waiting for a  *)
(* slot) may take for ever unless its context ends; "quick" stands for     *)
(* every other handler, the ones that fail or panic included; "invalid" is *)
(* refused before it runs; "garbage" is not JSON, or too long.             *)
(***************************************************************************)
EXTENDS Naturals, Sequences, FiniteSets, SequencesExt

CONSTANTS
  Clients,
  Program,        \* the kinds of the calls each client makes
  Limit,          \* maxConcurrentCallsPerSession
  MaxSignals      \* how often the daemon is told to stop

ASSUME ServerAssumption ==
  /\ Limit \in Nat \ {0} /\ MaxSignals \in Nat
  /\ \A c \in Clients : Range(Program[c]) \subseteq {"parks", "quick", "invalid", "garbage"}

Calls(c) == 1 .. Len(Program[c])

VARIABLES
  \* the server
  signals,        \* how many times the daemon was told to stop
  listening,      \* the listener is open
  shutdown,       \* where Run is: serving, or at a step of Shutdown
  stopped,        \* no call may begin any more
  overdue,        \* the grace period ran out
  unseen,         \* the connections accepted but not yet listed when the sessions were closed
  phase,          \* where each connection's goroutine is
  sessions,       \* the connections that Shutdown knows of
  next,           \* the request a connection holds while it waits for its turn to run
  running,        \* the calls that run
  \* the connection
  requests,       \* sent and not read
  replies,        \* sent and not read; they find their call by its id, in whatever order
  hungUp,         \* the server has closed its end
  \* the client
  sent,           \* how many calls it has made
  closed,         \* it has closed its end
  waiting         \* the calls that have not returned

server == <<signals, listening, shutdown, stopped, overdue, unseen>>
connection == <<phase, sessions, next, running>>
wires == <<requests, replies, hungUp>>
client == <<sent, closed, waiting>>
vars == <<signals, listening, shutdown, stopped, overdue, unseen, phase, sessions, next, running,
          requests, replies, hungUp, sent, closed, waiting>>

Init ==
  /\ signals = 0 /\ listening = TRUE /\ shutdown = "serving" /\ stopped = FALSE /\ overdue = FALSE
  /\ unseen = {}
  /\ phase = [c \in Clients |-> "off"]
  /\ sessions = {}
  /\ next = [c \in Clients |-> 0]
  /\ running = [c \in Clients |-> {}]
  /\ requests = [c \in Clients |-> <<>>]
  /\ replies = [c \in Clients |-> {}]
  /\ hungUp = [c \in Clients |-> FALSE]
  /\ sent = [c \in Clients |-> 0]
  /\ closed = [c \in Clients |-> FALSE]
  /\ waiting = [c \in Clients |-> {}]

\* The session's context descends from the one Serve was given, which the signal cancels.
Cancelled(c) == signals > 0 \/ hungUp[c]

\* session.write: nothing is written once the context is done, and nothing arrives at a closed end.
Written(c, r) == IF Cancelled(c) \/ closed[c] THEN replies ELSE [replies EXCEPT ![c] = @ \cup {r}]

(***************************************************************************)
(* The client.                                                             *)
(***************************************************************************)

Dial(c) ==
  /\ phase[c] = "off" /\ listening
  /\ phase' = [phase EXCEPT ![c] = "backlog"]
  /\ UNCHANGED <<server, sessions, next, running, wires, client>>

\* Call registers itself and writes its request; it fails if the server hung up.
Call(c) ==
  LET r == sent[c] + 1 IN
  /\ phase[c] # "off" /\ ~closed[c] /\ r \in Calls(c)
  /\ sent' = [sent EXCEPT ![c] = r]
  /\ IF hungUp[c]
       THEN UNCHANGED <<waiting, requests>>
       ELSE /\ waiting' = [waiting EXCEPT ![c] = @ \cup {r}]
            /\ requests' = [requests EXCEPT ![c] = Append(@, r)]
  /\ UNCHANGED <<server, connection, replies, hungUp, closed>>

\* deliver: a reply ends its call.  (A caller may have given up before: nothing comes of it but that
\* the reply is dropped, for the daemon is not told.)
Deliver(c, r) ==
  /\ r \in replies[c] /\ ~closed[c]
  /\ waiting' = [waiting EXCEPT ![c] = @ \ {r}]
  /\ replies' = [replies EXCEPT ![c] = @ \ {r}]
  /\ UNCHANGED <<server, connection, requests, hungUp, sent, closed>>

\* Mistake: the calls that wait are not released.
ClosesKeepingCalls(c) ==
  /\ closed' = [closed EXCEPT ![c] = TRUE]
  /\ UNCHANGED <<server, connection, wires, sent, waiting>>

\* shutdown: the client's end is closed and every call that waits is released.
Closes(c) ==
  /\ closed' = [closed EXCEPT ![c] = TRUE]
  /\ waiting' = [waiting EXCEPT ![c] = {}]
  /\ UNCHANGED <<server, connection, wires, sent>>

\* The client hangs up.
Close(c) == phase[c] # "off" /\ ~closed[c] /\ Closes(c)

\* The client's read loop finds the connection ended.  A reply that arrives together with the end
\* may lose to it: Call selects either.
Disconnected(c) == hungUp[c] /\ ~closed[c] /\ Closes(c)

(***************************************************************************)
(* A connection at the server.                                             *)
(***************************************************************************)

\* Accept, and the goroutine that will serve the connection.
Accept(c) ==
  /\ phase[c] = "backlog" /\ listening /\ shutdown = "serving"
  /\ phase' = [phase EXCEPT ![c] = "accepted"]
  /\ UNCHANGED <<server, sessions, next, running, wires, client>>

\* serveConnection: only now does Shutdown know of the session.
Open(c) ==
  /\ phase[c] = "accepted"
  /\ phase' = [phase EXCEPT ![c] = "reading"]
  /\ sessions' = sessions \cup {c}
  /\ UNCHANGED <<server, next, running, wires, client>>

\* Mistake: the session is left open when its reading ends.
EndsUnclosed(c, written) ==
  /\ phase' = [phase EXCEPT ![c] = "ending"]
  /\ next' = [next EXCEPT ![c] = 0]
  /\ replies' = written
  /\ UNCHANGED <<server, sessions, running, hungUp, client>>

\* The end of readLoop: the session is closed, then its calls are waited for.
EndsWith(c, written) ==
  /\ phase' = [phase EXCEPT ![c] = "ending"]
  /\ hungUp' = [hungUp EXCEPT ![c] = TRUE]
  /\ next' = [next EXCEPT ![c] = 0]
  /\ replies' = written
  /\ UNCHANGED <<server, sessions, running, client>>

\* A line is read: one that is not a request at all ends the connection.
Read(c) ==
  /\ phase[c] = "reading" /\ requests[c] # <<>>
  /\ requests' = [requests EXCEPT ![c] = Tail(@)]
  /\ LET r == Head(requests[c])
         kind == Program[c][r]
     IN \/ kind = "garbage" /\ EndsWith(c, replies)
        \/ /\ kind = "invalid"
           /\ replies' = Written(c, r)
           /\ UNCHANGED <<server, connection, hungUp, client>>
        \/ /\ kind \notin {"garbage", "invalid"}
           /\ phase' = [phase EXCEPT ![c] = "holding"]
           /\ next' = [next EXCEPT ![c] = r]
           /\ UNCHANGED <<server, sessions, running, replies, hungUp, client>>

\* There is nothing to read any more: either end is closed.
ReadEnds(c) ==
  /\ phase[c] = "reading" /\ (hungUp[c] \/ (closed[c] /\ requests[c] = <<>>))
  /\ EndsWith(c, replies)
  /\ UNCHANGED requests

\* Mistake: a call begins although the server is stopping.
BeginAnyway(c) ==
  /\ phase[c] = "holding" /\ Cardinality(running[c]) < Limit
  /\ phase' = [phase EXCEPT ![c] = "reading"]
  /\ next' = [next EXCEPT ![c] = 0]
  /\ running' = [running EXCEPT ![c] = @ \cup {next[c]}]
  /\ UNCHANGED <<server, sessions, wires, client>>

\* The call has a slot.  beginCall: it runs, unless the server has stopped.
Begin(c) ==
  /\ phase[c] = "holding" /\ Cardinality(running[c]) < Limit
  /\ phase' = [phase EXCEPT ![c] = "reading"]
  /\ next' = [next EXCEPT ![c] = 0]
  /\ IF stopped
       THEN replies' = Written(c, next[c]) /\ UNCHANGED running
       ELSE running' = [running EXCEPT ![c] = @ \cup {next[c]}] /\ UNCHANGED replies
  /\ UNCHANGED <<server, sessions, requests, hungUp, client>>

\* While it waits for a slot the connection is not read; it only hears that its context ended.
GiveUp(c) ==
  /\ phase[c] = "holding" /\ Cancelled(c)
  /\ EndsWith(c, replies)
  /\ UNCHANGED requests

\* The handler returns, of itself or because its context ended, and its reply is written.
Finish(c, r) ==
  /\ r \in running[c]
  /\ running' = [running EXCEPT ![c] = @ \ {r}]
  /\ replies' = Written(c, r)
  /\ UNCHANGED <<server, phase, sessions, next, requests, hungUp, client>>

\* Mistake: the session is taken off the list while its calls run.
GoneAtOnce(c) ==
  /\ phase[c] = "ending"
  /\ phase' = [phase EXCEPT ![c] = "gone"]
  /\ sessions' = sessions \ {c}
  /\ UNCHANGED <<server, next, running, wires, client>>

\* Every call of the connection has returned.
Gone(c) ==
  /\ phase[c] = "ending" /\ running[c] = {}
  /\ phase' = [phase EXCEPT ![c] = "gone"]
  /\ sessions' = sessions \ {c}
  /\ UNCHANGED <<server, next, running, wires, client>>

(***************************************************************************)
(* Stopping.                                                               *)
(***************************************************************************)

NoneRuns == \A c \in Clients : running[c] = {}

\* A signal: the first cancels the context, and the daemon goes on catching them.
Signal ==
  /\ signals < MaxSignals /\ shutdown # "done"
  /\ signals' = signals + 1
  /\ UNCHANGED <<listening, shutdown, stopped, overdue, unseen, connection, wires, client>>

\* The listener is closed, and with it the connections nobody accepted.
StopListening ==
  /\ signals > 0 /\ listening
  /\ listening' = FALSE
  /\ phase' = [c \in Clients |-> IF phase[c] = "backlog" THEN "gone" ELSE phase[c]]
  /\ hungUp' = [c \in Clients |-> hungUp[c] \/ phase[c] = "backlog"]
  /\ UNCHANGED <<signals, shutdown, stopped, overdue, unseen, sessions, next, running, requests, replies, client>>

\* Serve has returned: no call begins from here.
Shutdown ==
  /\ shutdown = "serving" /\ ~listening
  /\ shutdown' = "draining" /\ stopped' = TRUE
  /\ UNCHANGED <<signals, listening, overdue, unseen, connection, wires, client>>

\* The calls in flight have finished, or had their time.
Drained ==
  /\ shutdown = "draining"
  /\ shutdown' = "closing"
  /\ overdue' \in {o \in BOOLEAN : o \/ NoneRuns}
  /\ UNCHANGED <<signals, listening, stopped, unseen, connection, wires, client>>

Unlisted == {c \in Clients : phase[c] = "accepted"}

\* Mistake: the sessions are not closed.
KeepSessions ==
  /\ shutdown = "closing"
  /\ shutdown' = "waiting" /\ unseen' = Unlisted
  /\ UNCHANGED <<signals, listening, stopped, overdue, connection, wires, client>>

\* Every session that is listed is closed.
CloseSessions ==
  /\ shutdown = "closing"
  /\ shutdown' = "waiting" /\ unseen' = Unlisted
  /\ hungUp' = [c \in Clients |-> hungUp[c] \/ c \in sessions]
  /\ UNCHANGED <<signals, listening, stopped, overdue, connection, requests, replies, client>>

\* Shutdown returns, and the process ends.
Stopped ==
  /\ shutdown = "waiting" /\ NoneRuns
  /\ \A c \in Clients : phase[c] \in {"off", "backlog", "gone"}
  /\ shutdown' = "done"
  /\ UNCHANGED <<signals, listening, stopped, overdue, unseen, connection, wires, client>>

Serving(c) ==
  Accept(c) \/ Open(c) \/ Read(c) \/ ReadEnds(c) \/ Begin(c) \/ GiveUp(c) \/ Gone(c)

Stopping == StopListening \/ Shutdown \/ Drained \/ CloseSessions \/ Stopped

Next ==
  \/ \E c \in Clients : Dial(c) \/ Call(c) \/ Close(c) \/ Disconnected(c) \/ Serving(c)
  \/ \E c \in Clients : \E r \in Calls(c) : Deliver(c, r) \/ Finish(c, r)
  \/ Signal \/ Stopping

Spec == Init /\ [][Next]_vars

\* Goroutines run, sockets deliver, and a client that is answered or cut off goes on.  A handler
\* returns, unless it parks, when it does once its context ends.  Nobody has to call, hang up or
\* stop the daemon.
FairSpec ==
  /\ Spec
  /\ WF_vars(Stopping)
  /\ \A c \in Clients :
       /\ WF_vars(Serving(c)) /\ WF_vars(Disconnected(c))
       /\ \A r \in Calls(c) : /\ WF_vars(Deliver(c, r))
                              /\ WF_vars((Program[c][r] # "parks" \/ Cancelled(c)) /\ Finish(c, r))

(***************************************************************************)
(* Properties.                                                             *)
(***************************************************************************)

\* Types, and what belongs together: a session is listed while its goroutine reads, and only a
\* connection that reads holds a request.
TypeOK ==
  /\ signals \in 0 .. MaxSignals /\ listening \in BOOLEAN /\ stopped \in BOOLEAN /\ overdue \in BOOLEAN
  /\ shutdown \in {"serving", "draining", "closing", "waiting", "done"}
  /\ phase \in [Clients -> {"off", "backlog", "accepted", "reading", "holding", "ending", "gone"}]
  /\ sessions = {c \in Clients : phase[c] \in {"reading", "holding", "ending"}}
  /\ \A c \in Clients : /\ running[c] \subseteq 1 .. sent[c] /\ Cardinality(running[c]) <= Limit
                        /\ (next[c] # 0) = (phase[c] = "holding")
                        /\ running[c] # {} => c \in sessions

\* The comment on lifecycle: no call is registered after Shutdown decided that nothing was left to
\* wait for.
NoLateCall == shutdown \in {"closing", "waiting", "done"} /\ ~overdue => NoneRuns

\* A connection that closeSessions did not see, because its goroutine had not begun, is never
\* closed by the server.
Stranded(c) == c \in unseen /\ ~hungUp[c]

\* Shutdown returns, whatever calls are parked and however full a connection is, unless a
\* connection is stranded.
ShutdownReturns == signals > 0 ~> (shutdown = "done" \/ \E c \in Clients : Stranded(c))

\* A connection at its limit is not read.
Full(c) == phase[c] = "holding" /\ Cardinality(running[c]) = Limit

\* A client that is gone is noticed: its calls end, the parked ones too, unless its connection is at
\* the limit, when nobody reads it.
GoneIsNoticed ==
  \A c \in Clients : closed[c] ~> (running[c] = {} \/ Full(c))

\* Every call that needs nobody else comes to an end at the client, whatever else is parked on the
\* same connection below the limit: an answer, or the news that the connection is gone (which a
\* stranded connection never gives).
CallsEnd ==
  \A c \in Clients : \A r \in Calls(c) :
    Program[c][r] # "parks" => (r \in waiting[c] ~> (r \notin waiting[c] \/ Full(c) \/ Stranded(c)))

\* "A call that is running when the signal arrives gets to finish and its caller gets the answer":
\* a call that returns within the grace period is answered.
AnsweredInGrace ==
  [][\A c \in Clients : \A r \in running[c] :
       shutdown \in {"serving", "draining"} /\ ~closed[c] /\ phase[c] \in {"reading", "holding"} /\ r \notin running'[c]
         => r \in replies'[c]]_vars

\* "The second one arriving restores the default behaviour, so an operator who is out of patience
\* can always kill the process."
SecondSignalKills == signals = 2 ~> shutdown = "done"
=============================================================================
