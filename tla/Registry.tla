------------------------------ MODULE Registry ------------------------------
(***************************************************************************)
(* The roster of agents: internal/service/registry over                    *)
(* internal/store/sqlite/{agents,credentials}.go, with the tokens of       *)
(* internal/auth, the checks and the two-step handlers of internal/api,    *)
(* and the part of the housekeeping loop that retires the silent.          *)
(*                                                                         *)
(* A statement or a transaction is one step.  Registering commits the row  *)
(* and then issues the token; retiring gives slots back, marks the row and *)
(* then revokes the token; the sweep selects, marks one by one and then    *)
(* releases; a call is checked first and takes effect later.               *)
(*                                                                         *)
(* No clock: a heartbeat that is older than the time to live is "late", a  *)
(* lease that is about to run out is "due".                                *)
(***************************************************************************)
EXTENDS Integers, FiniteSets

CONSTANTS
  Procs,    \* client processes, each with a process id of its own
  NameOf,   \* the name each process registers under
  Asks,     \* the calls that processes make
  MaxIds    \* bound: rows that can be created

ASSUME AsksKnown == Asks \subseteq {"heartbeat", "acquire", "renew"}
ASSUME IdsExist  == MaxIds \in Nat \ {0}

Ids  == 1..MaxIds
NoId == 0

VARIABLES
  agent,       \* agents table: state, owning process, lateness of the heartbeat
  credential,  \* credentials table: the token of each agent
  lease,       \* the slot each agent holds, if any
  proc,        \* each process: alive, the identity of its connection, its token
               \* and the call it is in
  retire,      \* where a Deregister or Evict of each agent has got to
  found,       \* the sweep: agents selected and not yet marked
  marked       \* the sweep: agents marked and not yet released

vars == <<agent, credential, lease, proc, retire, found, marked>>

----------------------------------------------------------------------------

AgentStates == {"none", "active", "stale", "deregistered"}

Nobody == "nobody"

AgentRows == [state : AgentStates, owner : Procs \cup {Nobody}, late : BOOLEAN]

\* "issue" and "bind" are inside Register and Authenticate, "acquire" has been
\* checked, "queued" waits for a slot.
Calls == {"none", "issue", "bind", "heartbeat", "acquire", "queued", "renew"}

ProcRows == [alive : BOOLEAN, session : Ids \cup {NoId}, token : Ids \cup {NoId},
             call : Calls, for : Ids \cup {NoId}]

RetireSteps == {"none", "release", "state", "revoke"}

Exists(i) == agent[i].state # "none"

\* ByName: WHERE name = ? AND state = active.
ByName(n) == {i \in Ids : agent[i].state = "active" /\ NameOf[agent[i].owner] = n}

\* id.New: never used before.
Fresh(i) == ~Exists(i) /\ \A j \in Ids : j < i => Exists(j)

\* SetState(id, state, at) also counts as hearing from the agent.
SetState(i, state) ==
  agent' = [agent EXCEPT ![i] = [@ EXCEPT !.state = state, !.late = FALSE]]

\* ReleaseEverythingHeldBy: the lease goes and a queued request is withdrawn.
ReleaseEverythingHeldBy(i) ==
  /\ lease' = [lease EXCEPT ![i] = "none"]
  /\ proc' = [p \in Procs |->
       IF proc[p].call = "queued" /\ proc[p].for = i
         THEN [proc[p] EXCEPT !.call = "none", !.for = NoId] ELSE proc[p]]

Init ==
  /\ agent = [i \in Ids |-> [state |-> "none", owner |-> Nobody, late |-> FALSE]]
  /\ credential = [i \in Ids |-> "none"]
  /\ lease = [i \in Ids |-> "none"]
  /\ proc = [p \in Procs |-> [alive |-> TRUE, session |-> NoId, token |-> NoId,
                              call |-> "none", for |-> NoId]]
  /\ retire = [i \in Ids |-> "none"]
  /\ found = {}
  /\ marked = {}

Idle(p) == proc[p].alive /\ proc[p].call = "none"

Enter(p, call, i) == proc' = [proc EXCEPT ![p] = [@ EXCEPT !.call = call, !.for = i]]

Done(p) == Enter(p, "none", NoId)

----------------------------------------------------------------------------
\* Registering and authenticating.

\* Nobody active has the name: a new row.
RegisterNew(p) ==
  /\ Idle(p)
  /\ ByName(NameOf[p]) = {}
  /\ \E i \in Ids :
       /\ Fresh(i)
       /\ agent' = [agent EXCEPT ![i] = [state |-> "active", owner |-> p, late |-> FALSE]]
       /\ Enter(p, "issue", i)
  /\ UNCHANGED <<credential, lease, retire, found, marked>>

\* Mistake: the process id is not compared.
RegisterAnybody(p) ==
  /\ Idle(p)
  /\ \E i \in ByName(NameOf[p]) :
       /\ agent' = [agent EXCEPT ![i].late = FALSE]
       /\ Enter(p, "issue", i)
  /\ UNCHANGED <<credential, lease, retire, found, marked>>

\* The same process, back again: the row is kept.  Another process is refused.
RegisterReclaim(p) ==
  /\ Idle(p)
  /\ \E i \in ByName(NameOf[p]) :
       /\ agent[i].owner = p
       /\ agent' = [agent EXCEPT ![i].late = FALSE]
       /\ Enter(p, "issue", i)
  /\ UNCHANGED <<credential, lease, retire, found, marked>>

\* Issue, in a statement of its own, and then the connection is that agent's.
Issue(p) ==
  /\ proc[p].call = "issue"
  /\ credential' = [credential EXCEPT ![proc[p].for] = "live"]
  /\ proc' = [proc EXCEPT ![p] = [@ EXCEPT !.call = "none", !.for = NoId,
                                           !.session = proc[p].for, !.token = proc[p].for]]
  /\ UNCHANGED <<agent, lease, retire, found, marked>>

\* The token could not be stored: a row without one is left.
IssueFails(p) ==
  /\ proc[p].call = "issue"
  /\ Done(p)
  /\ UNCHANGED <<agent, credential, lease, retire, found, marked>>

\* Authenticate looks up the credential, and then, in a statement of its own,
\* the agent.
AuthenticateToken(p) ==
  /\ Idle(p)
  /\ proc[p].token # NoId
  /\ credential[proc[p].token] = "live"
  /\ Enter(p, "bind", proc[p].token)
  /\ UNCHANGED <<agent, credential, lease, retire, found, marked>>

\* The agent the connection is bound to afterwards: a retired one is refused.
Bound(p) == IF agent[proc[p].for].state # "deregistered"
              THEN proc[p].for ELSE proc[p].session

AuthenticateAgent(p) ==
  /\ proc[p].call = "bind"
  /\ proc' = [proc EXCEPT ![p] = [@ EXCEPT !.call = "none", !.for = NoId,
                                           !.session = Bound(p)]]
  /\ UNCHANGED <<agent, credential, lease, retire, found, marked>>

----------------------------------------------------------------------------
\* Calls.

\* Mistake: the caller's state is not looked at.
AuthenticatedAlways(p) == Idle(p) /\ proc[p].session # NoId

\* authenticated(): the connection has an agent and it is not deregistered.
Authenticated(p) ==
  /\ Idle(p)
  /\ proc[p].session # NoId
  /\ agent[proc[p].session].state # "deregistered"

Begin(p) ==
  /\ Authenticated(p)
  /\ \E call \in Asks : Enter(p, call, proc[p].session)
  /\ UNCHANGED <<agent, credential, lease, retire, found, marked>>

\* Mistake: the update forgets AND state <> deregistered.
BeatableAlways(i) == ByName(NameOf[agent[i].owner]) \subseteq {i}

\* Mistake: nothing keeps two rows with one name from being active.
BeatableTwice(i) == agent[i].state # "deregistered"

\* WHERE state <> deregistered; and agents_active_name lets one active row have a
\* name, so an agent whose name was taken while it was stale stays stale.
Beatable(i) ==
  /\ agent[i].state # "deregistered"
  /\ ByName(NameOf[agent[i].owner]) \subseteq {i}

\* A heartbeat revives a stale agent.
Heartbeat(p) ==
  /\ proc[p].call = "heartbeat"
  /\ IF Beatable(proc[p].for) THEN SetState(proc[p].for, "active") ELSE UNCHANGED agent
  /\ Done(p)
  /\ UNCHANGED <<credential, lease, retire, found, marked>>

\* The request joins the queue.
Enqueue(p) ==
  /\ proc[p].call = "acquire"
  /\ Enter(p, "queued", proc[p].for)
  /\ UNCHANGED <<agent, credential, lease, retire, found, marked>>

\* And is granted; nobody looks at the agent again.
Grant(p) ==
  /\ proc[p].call = "queued"
  /\ lease' = [lease EXCEPT ![proc[p].for] = "fresh"]
  /\ Done(p)
  /\ UNCHANGED <<agent, credential, retire, found, marked>>

Renew(p) ==
  /\ proc[p].call = "renew"
  /\ lease' = [lease EXCEPT ![proc[p].for] = IF @ = "none" THEN "none" ELSE "fresh"]
  /\ Done(p)
  /\ UNCHANGED <<agent, credential, retire, found, marked>>

\* The daemon sees the connection closed and cancels the call on it.
Disconnect(p) ==
  /\ proc[p].session # NoId \/ proc[p].call # "none"
  /\ proc' = [proc EXCEPT ![p] = [@ EXCEPT !.session = NoId, !.call = "none",
                                           !.for = NoId]]
  /\ UNCHANGED <<agent, credential, lease, retire, found, marked>>

\* What the process asked last goes on until the daemon sees it.
Killed(p) ==
  /\ proc[p].alive
  /\ proc' = [proc EXCEPT ![p] = [@ EXCEPT !.alive = FALSE]]
  /\ UNCHANGED <<agent, credential, lease, retire, found, marked>>

----------------------------------------------------------------------------
\* Retiring.

\* handleDeregister, by the agent itself.
Deregister(p) ==
  /\ Authenticated(p)
  /\ retire[proc[p].session] = "none"
  /\ retire' = [retire EXCEPT ![proc[p].session] = "release"]
  /\ UNCHANGED <<agent, credential, lease, proc, found, marked>>

\* handleEvict, by an operator.
Evict(i) ==
  /\ Exists(i)
  /\ retire[i] = "none"
  /\ retire' = [retire EXCEPT ![i] = "release"]
  /\ UNCHANGED <<agent, credential, lease, proc, found, marked>>

\* Slots first.
RetireRelease(i) ==
  /\ retire[i] = "release"
  /\ ReleaseEverythingHeldBy(i)
  /\ retire' = [retire EXCEPT ![i] = "state"]
  /\ UNCHANGED <<agent, credential, found, marked>>

RetireState(i) ==
  /\ retire[i] = "state"
  /\ SetState(i, "deregistered")
  /\ retire' = [retire EXCEPT ![i] = "revoke"]
  /\ UNCHANGED <<credential, lease, proc, found, marked>>

\* Mistake: the state of the agent is written where the credential's belongs.
RetireRevokeAsState(i) ==
  /\ retire[i] = "revoke"
  /\ credential' = [credential EXCEPT ![i] = agent[i].state]
  /\ retire' = [retire EXCEPT ![i] = "none"]
  /\ UNCHANGED <<agent, lease, proc, found, marked>>

\* WHERE revoked_at IS NULL.
RetireRevoke(i) ==
  /\ retire[i] = "revoke"
  /\ credential' = [credential EXCEPT ![i] = IF @ = "live" THEN "revoked" ELSE @]
  /\ retire' = [retire EXCEPT ![i] = "none"]
  /\ UNCHANGED <<agent, lease, proc, found, marked>>

\* A statement fails, or whoever asked closes the connection.
RetireFails(i) ==
  /\ retire[i] # "none"
  /\ retire' = [retire EXCEPT ![i] = "none"]
  /\ UNCHANGED <<agent, credential, lease, proc, found, marked>>

----------------------------------------------------------------------------
\* Time and the housekeeping loop.

BeatAges(i) ==
  /\ agent[i].state = "active"
  /\ ~agent[i].late
  /\ agent' = [agent EXCEPT ![i].late = TRUE]
  /\ UNCHANGED <<credential, lease, proc, retire, found, marked>>

LeaseAges(i) ==
  /\ lease[i] = "fresh"
  /\ lease' = [lease EXCEPT ![i] = "due"]
  /\ UNCHANGED <<agent, credential, proc, retire, found, marked>>

\* It runs out.
LeaseExpires(i) ==
  /\ lease[i] = "due"
  /\ lease' = [lease EXCEPT ![i] = "none"]
  /\ UNCHANGED <<agent, credential, proc, retire, found, marked>>

\* Mistake: the select asks for the agents already found stale.
StaleAlready == {i \in Ids : agent[i].state = "stale" /\ agent[i].late}

\* StaleBefore: WHERE state = active AND last_heartbeat_at < cutoff.
StaleBefore == {i \in Ids : agent[i].state = "active" /\ agent[i].late}

ReapSelect ==
  /\ found = {} /\ marked = {}
  /\ StaleBefore # {}
  /\ found' = StaleBefore
  /\ UNCHANGED <<agent, credential, lease, proc, retire, marked>>

\* One statement each, whatever has become of the agent since.
MarkStale(i) ==
  /\ i \in found
  /\ SetState(i, "stale")
  /\ found' = found \ {i}
  /\ marked' = marked \cup {i}
  /\ UNCHANGED <<credential, lease, proc, retire>>

\* ReapStale fails part way: it returns nobody, not even those it has marked.
ReapFails ==
  /\ found # {}
  /\ found' = {}
  /\ marked' = {}
  /\ UNCHANGED <<agent, credential, lease, proc, retire>>

ReleaseStale(i) ==
  /\ found = {}
  /\ i \in marked
  /\ ReleaseEverythingHeldBy(i)
  /\ marked' = marked \ {i}
  /\ UNCHANGED <<agent, credential, retire, found>>

\* It fails, and the loop goes on to the next agent.
ReleaseStaleFails(i) ==
  /\ found = {}
  /\ i \in marked
  /\ marked' = marked \ {i}
  /\ UNCHANGED <<agent, credential, lease, proc, retire, found>>

\* The daemon dies and starts again: connections, calls and whatever was half
\* done are gone, the tables are not.
Crash ==
  /\ proc' = [p \in Procs |-> [proc[p] EXCEPT !.session = NoId, !.call = "none",
                                                  !.for = NoId]]
  /\ retire' = [i \in Ids |-> "none"]
  /\ found' = {}
  /\ marked' = {}
  /\ UNCHANGED <<agent, credential, lease>>

----------------------------------------------------------------------------

SweepStep ==
  \/ ReapSelect
  \/ \E i \in Ids : MarkStale(i) \/ ReleaseStale(i)

Next ==
  \/ \E p \in Procs :
       \/ RegisterNew(p) \/ RegisterReclaim(p) \/ Issue(p) \/ IssueFails(p)
       \/ AuthenticateToken(p) \/ AuthenticateAgent(p)
       \/ Begin(p) \/ Heartbeat(p) \/ Enqueue(p) \/ Grant(p) \/ Renew(p)
       \/ Disconnect(p) \/ Killed(p) \/ Deregister(p)
  \/ \E i \in Ids :
       \/ Evict(i) \/ RetireRelease(i) \/ RetireState(i) \/ RetireRevoke(i)
       \/ RetireFails(i)
       \/ BeatAges(i) \/ LeaseAges(i) \/ LeaseExpires(i)
       \/ ReleaseStaleFails(i)
  \/ SweepStep
  \/ ReapFails
  \/ Crash

Spec == Init /\ [][Next]_vars

\* Time passes, and the housekeeping loop ticks; the store does not refuse the
\* same statement for ever.
Fairness ==
  /\ \A i \in Ids : /\ WF_vars(BeatAges(i))
                    /\ WF_vars(LeaseAges(i))
                    /\ WF_vars(LeaseExpires(i))
                    /\ SF_vars(MarkStale(i))
  /\ WF_vars(SweepStep)

FairSpec == Spec /\ Fairness

----------------------------------------------------------------------------
\* Properties.

\* Every variable keeps its type.
TypeOK ==
  /\ agent \in [Ids -> AgentRows]
  /\ credential \in [Ids -> {"none", "live", "revoked"}]
  /\ lease \in [Ids -> {"none", "fresh", "due"}]
  /\ proc \in [Procs -> ProcRows]
  /\ retire \in [Ids -> RetireSteps]
  /\ found \subseteq Ids
  /\ marked \subseteq Ids

\* A name has one active agent at a time, however late the heartbeats of those
\* who lost it arrive ("two agents answering to one name makes every message
\* ambiguous", Register).
OneActivePerName ==
  \A i, j \in Ids :
    agent[i].state = "active" /\ agent[j].state = "active" /\
    NameOf[agent[i].owner] = NameOf[agent[j].owner] => i = j

\* A connection, a token and a call in progress belong to an agent the process
\* itself registered: no order of registering, going stale, losing the name and
\* coming back lets one process act as another's agent (SetAgentID, "stops one
\* agent acting as another").
OwnIdentity ==
  \A p \in Procs : \A i \in Ids :
    i \in {proc[p].session, proc[p].token, proc[p].for} =>
      Exists(i) /\ agent[i].owner = p

\* A retired agent stays retired, whatever calls of it are still in progress,
\* unless the sweep had already selected it (Heartbeat's WHERE).
RetiredStaysOut ==
  [][\A i \in Ids : agent[i].state = "deregistered" /\ i \notin found =>
       agent'[i].state = "deregistered"]_vars

\* A retired agent stays retired ("its token stops working at once, so its next
\* call fails, and it drops off the roster", Evict).  ReapStale marks whoever it
\* selected stale without looking again.
RetiredStays ==
  [][\A i \in Ids : agent[i].state = "deregistered" =>
       agent'[i].state = "deregistered"]_vars

\* The name of a process that died does not stay taken, whatever fails part way
\* in the sweep or dies with the daemon.
NameIsFreed ==
  \A i \in Ids : []<>~(agent[i].state = "active" /\ ~proc[agent[i].owner].alive)

\* An agent that was retired, or whose process died, does not keep a slot for
\* ever, although a call checked before may still be granted or renewed after
\* (handleEvict and handleDeregister, "so nothing is stranded").
DepartedHoldNothing ==
  \A i \in Ids :
    []<>~(/\ lease[i] # "none"
          /\ agent[i].state = "deregistered" \/ ~proc[agent[i].owner].alive)

=============================================================================
