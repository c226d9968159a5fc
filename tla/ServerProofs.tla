---------------------------- MODULE ServerProofs ----------------------------
(***************************************************************************)
(* Proofs about Server, for any clients, programs of calls and limit of    *)
(* concurrent calls.                                                       *)
(***************************************************************************)
EXTENDS Server, FiniteSetTheorems, SequenceTheorems, TLAPS

\* The phases in which Shutdown knows of a connection.
Listed == {"reading", "holding", "ending"}

\* The phases a connection can be in.
Phases == {"off", "backlog", "accepted", "gone"} \cup Listed

\* What is under way on one connection: requests that were sent, and only while
\* the connection is listed.
Connection(c) ==
  /\ running[c] \subseteq 1 .. sent[c] /\ Cardinality(running[c]) <= Limit
  /\ (next[c] # 0) = (phase[c] = "holding")
  /\ running[c] # {} => phase[c] \in Listed
  /\ next[c] <= sent[c]
  /\ requests[c] \in Seq(1 .. sent[c])

\* The inductive invariant: TypeOK, and that what is read and held was sent.
ServerInv ==
  /\ signals \in 0 .. MaxSignals /\ listening \in BOOLEAN /\ stopped \in BOOLEAN /\ overdue \in BOOLEAN
  /\ shutdown \in {"serving", "draining", "closing", "waiting", "done"}
  /\ phase \in [Clients -> Phases]
  /\ sessions = {c \in Clients : phase[c] \in Listed}
  /\ sent \in [Clients -> Nat]
  /\ next \in [Clients -> Nat]
  /\ running = [c \in Clients |-> running[c]]
  /\ requests = [c \in Clients |-> requests[c]]
  /\ \A c \in Clients : Connection(c)

\* It says at least what TypeOK says.
LEMMA ServerInvTypes == ServerInv => TypeOK
BY DEF ServerInv, Connection, TypeOK, Listed, Phases

\* A connection nothing happened to is as it was.
LEMMA ConnectionSame ==
  ASSUME NEW c \in Clients, Connection(c),
         running'[c] = running[c], sent'[c] = sent[c], next'[c] = next[c],
         phase'[c] = phase[c], requests'[c] = requests[c]
  PROVE  Connection(c)'
BY DEF Connection

\* The calls of a connection are finitely many.
LEMMA RunningFinite ==
  ASSUME ServerInv, NEW c \in Clients
  PROVE  IsFiniteSet(running[c])
<1>1. sent[c] \in Nat /\ running[c] \in SUBSET (1 .. sent[c])
  BY DEF ServerInv, Connection
<1>2. IsFiniteSet(1 .. sent[c])
  <2>1. 1 \in Int /\ sent[c] \in Int
    BY <1>1
  <2> QED  BY <2>1, FS_Interval
<1> QED  BY <1>1, <1>2, FS_Subset

\* The end of reading keeps the invariant.
LEMMA EndsKeeps ==
  ASSUME ServerInv, NEW c \in Clients, NEW written, EndsWith(c, written),
         phase[c] \in {"reading", "holding"},
         (requests' = [requests EXCEPT ![c] = Tail(@)] /\ requests[c] # <<>>) \/ requests' = requests
  PROVE  ServerInv'
<1>1. phase' = [phase EXCEPT ![c] = "ending"] /\ next' = [next EXCEPT ![c] = 0]
      /\ UNCHANGED <<signals, listening, shutdown, stopped, overdue, sessions, running, sent>>
  BY DEF EndsWith, server, client
<1>2. phase' \in [Clients -> Phases] /\ next' \in [Clients -> Nat]
  BY <1>1 DEF ServerInv, Phases, Listed
<1>3. sessions' = {d \in Clients : phase'[d] \in Listed}
  BY <1>1 DEF ServerInv, Listed, Phases
<1>4. ASSUME NEW d \in Clients, d # c PROVE Connection(d)'
  BY <1>1, <1>4, ConnectionSame DEF ServerInv
<1>5. requests'[c] \in Seq(1 .. sent[c])
  <2>1. requests[c] \in Seq(1 .. sent[c])
    BY DEF ServerInv, Connection
  <2>2. requests[c] # <<>> => Tail(requests[c]) \in Seq(1 .. sent[c])
    BY <2>1, HeadTailProperties
  <2> QED  BY <2>1, <2>2 DEF ServerInv
<1>6. Connection(c)'
  <2>1. next'[c] = 0 /\ phase'[c] = "ending" /\ running'[c] = running[c] /\ sent'[c] = sent[c]
    BY <1>1 DEF ServerInv
  <2>2. sent[c] \in Nat
    BY DEF ServerInv
  <2> QED  BY <1>5, <2>1, <2>2 DEF ServerInv, Connection, Listed
<1>7. requests' = [d \in Clients |-> requests'[d]] /\ running' = [d \in Clients |-> running'[d]]
  BY <1>1 DEF ServerInv
<1> QED  BY <1>1, <1>2, <1>3, <1>4, <1>6, <1>7 DEF ServerInv

\* A call that is made is sent, unless the server hung up.
LEMMA CallKeeps == ASSUME ServerInv, NEW c \in Clients, Call(c) PROVE ServerInv'
<1> DEFINE r == sent[c] + 1
<1>1. /\ sent' = [sent EXCEPT ![c] = r]
      /\ requests' = requests \/ requests' = [requests EXCEPT ![c] = Append(@, r)]
      /\ UNCHANGED <<signals, listening, shutdown, stopped, overdue, phase, sessions, next, running>>
  BY DEF Call, server, connection
<1>2. sent[c] \in Nat /\ r \in Nat
  BY DEF ServerInv
<1>3. sent' \in [Clients -> Nat] /\ sent'[c] = r
  BY <1>1, <1>2 DEF ServerInv
<1>4. ASSUME NEW d \in Clients, d # c PROVE Connection(d)'
  BY <1>1, <1>4, ConnectionSame DEF ServerInv
<1>5. requests'[c] \in Seq(1 .. r)
  <2>1. requests[c] \in Seq(1 .. sent[c])
    BY DEF ServerInv, Connection
  <2>2. 1 .. sent[c] \subseteq 1 .. r /\ r \in 1 .. r
    BY <1>2
  <2>3. requests[c] \in Seq(1 .. r)
    BY <2>1, <2>2, SeqMonotonic
  <2>4. Append(requests[c], r) \in Seq(1 .. r)
    BY <2>2, <2>3, AppendProperties
  <2> QED  BY <1>1, <2>3, <2>4 DEF ServerInv
<1>6. Connection(c)'
  <2>1. running[c] \subseteq 1 .. r /\ next[c] <= r /\ next[c] \in Nat
    BY <1>2 DEF ServerInv, Connection
  <2> QED  BY <1>1, <1>3, <1>5, <2>1 DEF ServerInv, Connection
<1>7. requests' = [d \in Clients |-> requests'[d]]
  BY <1>1 DEF ServerInv
<1> QED  BY <1>1, <1>3, <1>4, <1>6, <1>7 DEF ServerInv

\* A connection that only changes its phase, with nothing in hand, keeps the
\* invariant as long as the list of sessions follows.
LEMMA PhaseKeeps ==
  ASSUME ServerInv, NEW c \in Clients, NEW p \in Phases \ {"holding"},
         phase[c] # "holding", phase' = [phase EXCEPT ![c] = p],
         running[c] # {} => p \in Listed,
         sessions' = {d \in Clients : phase'[d] \in Listed},
         UNCHANGED <<signals, listening, shutdown, stopped, overdue, next, running, requests, sent>>
  PROVE  ServerInv'
<1>1. phase' \in [Clients -> Phases] /\ phase'[c] = p
  BY DEF ServerInv
<1>2. ASSUME NEW d \in Clients, d # c PROVE Connection(d)'
  BY <1>2, ConnectionSame DEF ServerInv
<1>3. Connection(c)'
  BY <1>1 DEF ServerInv, Connection
<1> QED  BY <1>1, <1>2, <1>3 DEF ServerInv

\* Dialling, accepting, opening and ending a connection.
LEMMA PhasesKeep ==
  ASSUME ServerInv, NEW c \in Clients, Dial(c) \/ Accept(c) \/ Open(c) \/ Gone(c)
  PROVE  ServerInv'
<1> USE DEF server, wires, client
<1>1. sessions = {d \in Clients : phase[d] \in Listed} /\ phase \in [Clients -> Phases]
      /\ (running[c] # {} => phase[c] \in Listed)
  BY DEF ServerInv, Connection
<1>2. CASE Dial(c)
  <2>1. sessions' = {d \in Clients : phase'[d] \in Listed}
    BY <1>1, <1>2 DEF Dial, Listed
  <2> QED  BY <1>1, <1>2, <2>1, PhaseKeeps DEF Dial, Phases, Listed
<1>3. CASE Accept(c)
  <2>1. sessions' = {d \in Clients : phase'[d] \in Listed}
    BY <1>1, <1>3 DEF Accept, Listed
  <2> QED  BY <1>1, <1>3, <2>1, PhaseKeeps DEF Accept, Phases, Listed
<1>4. CASE Open(c)
  <2>1. sessions' = {d \in Clients : phase'[d] \in Listed}
    BY <1>1, <1>4 DEF Open, Listed
  <2> QED  BY <1>1, <1>4, <2>1, PhaseKeeps DEF Open, Phases, Listed
<1>5. CASE Gone(c)
  <2>1. sessions' = {d \in Clients : phase'[d] \in Listed}
    BY <1>1, <1>5 DEF Gone, Listed
  <2> QED  BY <1>1, <1>5, <2>1, PhaseKeeps DEF Gone, Phases, Listed
<1> QED  BY <1>2, <1>3, <1>4, <1>5

\* Reading a line: a request that is held was sent, and is no longer on the wire.
LEMMA ReadKeeps == ASSUME ServerInv, NEW c \in Clients, Read(c) PROVE ServerInv'
<1> DEFINE r == Head(requests[c])
<1>0. /\ phase[c] = "reading" /\ requests[c] # <<>>
      /\ requests' = [requests EXCEPT ![c] = Tail(@)]
  BY DEF Read
<1>1. sent[c] \in Nat /\ requests[c] \in Seq(1 .. sent[c])
  BY DEF ServerInv, Connection
<1>2. r \in 1 .. sent[c] /\ Tail(requests[c]) \in Seq(1 .. sent[c])
  BY <1>0, <1>1, HeadTailProperties
<1>3. requests'[c] \in Seq(1 .. sent[c]) /\ requests' = [d \in Clients |-> requests'[d]]
  BY <1>0, <1>2 DEF ServerInv
<1>4. CASE EndsWith(c, replies)
  BY <1>0, <1>4, EndsKeeps
<1>5. CASE UNCHANGED <<server, connection, hungUp, client>>
  <2>1. UNCHANGED <<signals, listening, shutdown, stopped, overdue, phase, sessions, next, running, sent>>
    BY <1>5 DEF server, connection, client
  <2>2. ASSUME NEW d \in Clients, d # c PROVE Connection(d)'
    BY <1>0, <2>1, <2>2, ConnectionSame DEF ServerInv
  <2>3. Connection(c)'
    BY <1>3, <2>1 DEF ServerInv, Connection
  <2> QED  BY <1>3, <2>1, <2>2, <2>3 DEF ServerInv
<1>6. CASE /\ phase' = [phase EXCEPT ![c] = "holding"]
           /\ next' = [next EXCEPT ![c] = r]
           /\ UNCHANGED <<server, sessions, running, replies, hungUp, client>>
  <2>1. UNCHANGED <<signals, listening, shutdown, stopped, overdue, sessions, running, sent>>
    BY <1>6 DEF server, client
  <2>2. phase' \in [Clients -> Phases] /\ next' \in [Clients -> Nat]
    BY <1>1, <1>2, <1>6 DEF ServerInv, Phases, Listed
  <2>3. sessions' = {d \in Clients : phase'[d] \in Listed}
    BY <1>0, <1>6, <2>1 DEF ServerInv, Listed
  <2>4. ASSUME NEW d \in Clients, d # c PROVE Connection(d)'
    BY <1>0, <1>6, <2>1, <2>4, ConnectionSame DEF ServerInv
  <2>5. Connection(c)'
    <3>1. phase'[c] = "holding" /\ next'[c] = r
      BY <1>6 DEF ServerInv
    <3>2. r # 0 /\ r <= sent[c]
      BY <1>1, <1>2
    <3> QED  BY <1>3, <2>1, <3>1, <3>2 DEF ServerInv, Connection, Listed
  <2> QED  BY <1>3, <2>1, <2>2, <2>3, <2>4, <2>5 DEF ServerInv
<1> QED  BY <1>4, <1>5, <1>6 DEF Read

\* A call begins below the limit, so that the limit is kept.
LEMMA BeginKeeps == ASSUME ServerInv, NEW c \in Clients, Begin(c) PROVE ServerInv'
<1>0. /\ phase[c] = "holding" /\ Cardinality(running[c]) < Limit
      /\ phase' = [phase EXCEPT ![c] = "reading"] /\ next' = [next EXCEPT ![c] = 0]
      /\ running' = running \/ running' = [running EXCEPT ![c] = @ \cup {next[c]}]
      /\ UNCHANGED <<signals, listening, shutdown, stopped, overdue, sessions, requests, sent>>
  BY DEF Begin, server, client
<1>1. next[c] \in 1 .. sent[c] /\ sent[c] \in Nat
  BY <1>0 DEF ServerInv, Connection
<1>2. /\ IsFiniteSet(running[c]) /\ Cardinality(running[c]) \in Nat
      /\ Cardinality(running[c] \cup {next[c]}) <= Cardinality(running[c]) + 1
  <2>1. IsFiniteSet(running[c])
    BY RunningFinite
  <2>2. Cardinality(running[c]) \in Nat
    BY <2>1, FS_CardinalityType
  <2>3. \/ Cardinality(running[c] \cup {next[c]}) = Cardinality(running[c])
        \/ Cardinality(running[c] \cup {next[c]}) = Cardinality(running[c]) + 1
    BY <2>1, FS_AddElement
  <2> QED  BY <2>1, <2>2, <2>3
<1>3. Limit \in Nat
  BY ServerAssumption
<1>4. Cardinality(running[c] \cup {next[c]}) <= Limit
  <2>1. Cardinality(running[c] \cup {next[c]}) \in Nat
    BY <1>2, FS_AddElement
  <2> QED  BY <1>0, <1>2, <1>3, <2>1
<1>5. phase' \in [Clients -> Phases] /\ next' \in [Clients -> Nat]
  BY <1>0 DEF ServerInv, Phases, Listed
<1>6. sessions' = {d \in Clients : phase'[d] \in Listed}
  BY <1>0 DEF ServerInv, Listed
<1>7. running' = [d \in Clients |-> running'[d]]
  BY <1>0 DEF ServerInv
<1>8. ASSUME NEW d \in Clients, d # c PROVE Connection(d)'
  BY <1>0, <1>8, ConnectionSame DEF ServerInv
<1>9. Connection(c)'
  <2>1. phase'[c] = "reading" /\ next'[c] = 0
    BY <1>0 DEF ServerInv
  <2>2. running'[c] = running[c] \/ running'[c] = running[c] \cup {next[c]}
    BY <1>0 DEF ServerInv
  <2>3. running'[c] \subseteq 1 .. sent[c] /\ Cardinality(running'[c]) <= Limit
    BY <1>1, <1>4, <2>2 DEF ServerInv, Connection
  <2> QED  BY <1>0, <1>1, <2>1, <2>3 DEF ServerInv, Connection, Listed
<1> QED  BY <1>0, <1>5, <1>6, <1>7, <1>8, <1>9 DEF ServerInv

\* A call that returns leaves the others.
LEMMA FinishKeeps ==
  ASSUME ServerInv, NEW c \in Clients, NEW r, Finish(c, r)
  PROVE  ServerInv'
<1>0. /\ running' = [running EXCEPT ![c] = @ \ {r}]
      /\ UNCHANGED <<signals, listening, shutdown, stopped, overdue, phase, sessions, next, requests, sent>>
  BY DEF Finish, server, client
<1>1. Cardinality(running[c] \ {r}) <= Cardinality(running[c])
  BY RunningFinite, FS_Subset
<1>2. Cardinality(running[c] \ {r}) <= Limit
  <2>1. Cardinality(running[c]) \in Nat /\ Cardinality(running[c] \ {r}) \in Nat /\ Limit \in Nat
    BY RunningFinite, FS_CardinalityType, FS_RemoveElement, ServerAssumption
  <2> QED  BY <1>1, <2>1 DEF ServerInv, Connection
<1>3. ASSUME NEW d \in Clients, d # c PROVE Connection(d)'
  BY <1>0, <1>3, ConnectionSame DEF ServerInv
<1>4. Connection(c)'
  BY <1>0, <1>2 DEF ServerInv, Connection
<1>5. running' = [d \in Clients |-> running'[d]]
  BY <1>0 DEF ServerInv
<1> QED  BY <1>0, <1>3, <1>4, <1>5 DEF ServerInv

\* Closing the listener drops the connections nobody accepted; they had no calls.
LEMMA StopListeningKeeps == ASSUME ServerInv, StopListening PROVE ServerInv'
<1>1. /\ listening' = FALSE
      /\ phase' = [c \in Clients |-> IF phase[c] = "backlog" THEN "gone" ELSE phase[c]]
      /\ UNCHANGED <<signals, shutdown, stopped, overdue, sessions, next, running, requests, sent>>
  BY DEF StopListening, client
<1>2. phase' \in [Clients -> Phases]
  BY <1>1 DEF ServerInv, Phases
<1>3. \A c \in Clients : phase'[c] \in Listed <=> phase[c] \in Listed
  BY <1>1 DEF Listed
<1>4. sessions' = {c \in Clients : phase'[c] \in Listed}
  BY <1>1, <1>3 DEF ServerInv
<1>5. ASSUME NEW c \in Clients PROVE Connection(c)'
  BY <1>1, <1>3 DEF ServerInv, Connection
<1> QED  BY <1>1, <1>2, <1>4, <1>5 DEF ServerInv

\* The other steps of the shutdown touch no connection.
LEMMA StoppingKeeps ==
  ASSUME ServerInv, Signal \/ Shutdown \/ Drained \/ CloseSessions \/ Stopped
  PROVE  ServerInv'
<1>1. /\ UNCHANGED <<phase, sessions, next, running, requests, sent>>
      /\ listening' = listening /\ stopped' \in BOOLEAN /\ overdue' \in BOOLEAN
      /\ shutdown' \in {"serving", "draining", "closing", "waiting", "done"}
  BY DEF Signal, Shutdown, Drained, CloseSessions, Stopped, connection, wires, client, ServerInv
<1>2. signals' \in 0 .. MaxSignals
  BY ServerAssumption DEF Signal, Shutdown, Drained, CloseSessions, Stopped, ServerInv
<1>3. ASSUME NEW c \in Clients PROVE Connection(c)'
  BY <1>1, ConnectionSame DEF ServerInv
<1> QED  BY <1>1, <1>2, <1>3 DEF ServerInv

\* Every step keeps the invariant.
LEMMA ServerStep == ASSUME ServerInv, [Next]_vars PROVE ServerInv'
<1>1. ASSUME UNCHANGED <<signals, listening, shutdown, stopped, overdue, phase, sessions, next,
                         running, requests, sent>>
      PROVE  ServerInv'
  BY <1>1, ConnectionSame DEF ServerInv
<1>2. ASSUME NEW c \in Clients, Close(c) \/ Disconnected(c) PROVE ServerInv'
  BY <1>1, <1>2 DEF Close, Disconnected, Closes, server, connection, wires
<1>3. ASSUME NEW c \in Clients, NEW r, Deliver(c, r) PROVE ServerInv'
  BY <1>1, <1>3 DEF Deliver, server, connection
<1>4. ASSUME NEW c \in Clients, ReadEnds(c) \/ GiveUp(c) PROVE ServerInv'
  BY <1>4, EndsKeeps DEF ReadEnds, GiveUp
<1>5. CASE UNCHANGED vars
  BY <1>1, <1>5 DEF vars
<1> QED
  BY <1>2, <1>3, <1>4, <1>5, CallKeeps, PhasesKeep, ReadKeeps, BeginKeeps, FinishKeeps,
     StopListeningKeeps, StoppingKeeps
  DEF Next, Serving, Stopping

\* It holds at the start.
LEMMA ServerInit == Init => ServerInv
<1> SUFFICES ASSUME Init PROVE ServerInv
  OBVIOUS
<1>1. ASSUME NEW c \in Clients PROVE Connection(c)
  <2>1. Cardinality({}) = 0 /\ Limit \in Nat
    BY FS_EmptySet, ServerAssumption
  <2>2. <<>> \in Seq(1 .. 0)
    BY EmptySeq
  <2> QED  BY <2>1, <2>2 DEF Init, Connection
<1>2. /\ phase \in [Clients -> Phases]
      /\ sessions = {c \in Clients : phase[c] \in Listed}
  BY DEF Init, Phases, Listed
<1>3. 0 \in 0 .. MaxSignals
  BY ServerAssumption
<1>4. /\ sent \in [Clients -> Nat] /\ next \in [Clients -> Nat]
      /\ running = [c \in Clients |-> running[c]]
      /\ requests = [c \in Clients |-> requests[c]]
  BY DEF Init
<1> QED  BY <1>1, <1>2, <1>3, <1>4 DEF Init, ServerInv

\* It holds in every state.
LEMMA ServerInvariant == Spec => []ServerInv
BY ServerInit, ServerStep, PTL DEF Spec

\* Sessions are listed exactly while their goroutine reads, calls run only on
\* listed sessions and never more than the limit, and only a connection that waits
\* for its turn holds a request, for any clients and whatever they send.
THEOREM ServerTypeCorrect == Spec => []TypeOK
BY ServerInvariant, ServerInvTypes, PTL

----------------------------------------------------------------------------
\* No call begins late.

\* The server has stopped from the first step of Shutdown on.
StoppedInv == (shutdown # "serving" => stopped) /\ NoLateCall

\* No step lets a call begin once the drain is over: only Begin adds a call, and
\* it asks whether the server has stopped.
LEMMA NoLateCallStep ==
  ASSUME ServerInv, StoppedInv, [Next]_vars
  PROVE  StoppedInv'
<1> USE DEF StoppedInv, NoLateCall, NoneRuns
<1>1. ASSUME UNCHANGED <<shutdown, stopped, overdue>>,
             NoneRuns => NoneRuns'
      PROVE  StoppedInv'
  BY <1>1
<1>2. ASSUME NEW c \in Clients,
             \/ Dial(c) \/ Call(c) \/ Close(c) \/ Disconnected(c) \/ Accept(c) \/ Open(c)
             \/ Read(c) \/ ReadEnds(c) \/ GiveUp(c) \/ Gone(c)
      PROVE  StoppedInv'
  BY <1>1, <1>2 DEF Dial, Call, Close, Disconnected, Closes, Accept, Open, Read, ReadEnds,
                    EndsWith, GiveUp, Gone, server, connection
<1>3. ASSUME NEW c \in Clients, Begin(c) PROVE StoppedInv'
  <2>1. CASE stopped
    BY <1>1, <1>3, <2>1 DEF Begin, server
  <2>2. CASE ~stopped
    BY <1>3, <2>2 DEF Begin, server
  <2> QED  BY <2>1, <2>2
<1>4. ASSUME NEW c \in Clients, NEW r, Deliver(c, r) PROVE StoppedInv'
  BY <1>1, <1>4 DEF Deliver, server, connection
<1>5. ASSUME NEW c \in Clients, NEW r, Finish(c, r) PROVE StoppedInv'
  <2>1. UNCHANGED <<shutdown, stopped, overdue>>
    BY <1>5 DEF Finish, server
  <2>2. NoneRuns => NoneRuns'
    BY <1>5 DEF Finish, ServerInv
  <2> QED  BY <1>1, <2>1, <2>2
<1>6. CASE Signal \/ StopListening
  BY <1>1, <1>6 DEF Signal, StopListening, connection
<1>7. CASE Shutdown
  BY <1>7 DEF Shutdown
<1>8. CASE Drained
  BY <1>8 DEF Drained, connection
<1>9. CASE CloseSessions \/ Stopped
  BY <1>9 DEF CloseSessions, Stopped, connection
<1>10. CASE UNCHANGED vars
  BY <1>1, <1>10 DEF vars
<1> QED  BY <1>2, <1>3, <1>4, <1>5, <1>6, <1>7, <1>8, <1>9, <1>10 DEF Next, Serving, Stopping

\* No call is registered after Shutdown decided that nothing was left to wait for,
\* with any number of connections reading, holding and finishing calls beside it.
THEOREM NoCallBeginsLate == Spec => []NoLateCall
<1>1. Init => StoppedInv
  BY DEF Init, StoppedInv, NoLateCall
<1>2. ServerInv /\ StoppedInv /\ [Next]_vars => StoppedInv'
  BY NoLateCallStep
<1>3. StoppedInv => NoLateCall
  BY DEF StoppedInv
<1> QED  BY <1>1, <1>2, <1>3, ServerInvariant, PTL DEF Spec

=============================================================================
