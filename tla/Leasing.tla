------------------------------ MODULE Leasing ------------------------------
(***************************************************************************)
(* The lease service: internal/service/leasing (leasing.go, waiters.go)    *)
(* over internal/store/sqlite/{leases,resources}.go.                       *)
(*                                                                         *)
(* A resource has a capacity and a queue.  An Acquire call inserts a queue *)
(* entry, then loops: watch the resource's channel, try to take a slot in  *)
(* one transaction, and sleep until the channel closes, a timer fires or   *)
(* the caller gives up.  SQLite runs one writer at a time, so a            *)
(* transaction (and a lone statement) is one step; everything between two  *)
(* of them, the broadcast that follows a commit included, is a step of its *)
(* own and interleaves with every other goroutine.                         *)
(*                                                                         *)
(* A grant creates exactly one lease for its queue entry, so a request is  *)
(* the identity of the call, of its queue entry and of its lease.          *)
(***************************************************************************)
EXTENDS Integers, FiniteSets

CONSTANTS
  Agents,      \* who asks for slots
  Resources,   \* names of the defined resources
  Requests,    \* identities of Acquire calls; their order is the id order
  Call,        \* the arguments each call is made with
  Capacities,  \* capacities a resource may be (re)defined with
  TTLs,        \* lease times to live a resource may be (re)defined with
  MaxTime,     \* bound: the clock stops here
  MaxPending,  \* bound: signals owed when another operation may start
  Faults       \* whether the daemon may crash and a clean-up may fail

ASSUME RequestsAreIds   == Requests \subseteq Nat /\ IsFiniteSet(Requests)
ASSUME CallsAreTyped    ==
  Call \in [Requests -> [agent : Agents, resource : Resources, priority : Int,
                         noWait : BOOLEAN]]
ASSUME CapacitiesAreOK  == Capacities \subseteq Nat \ {0}   \* core.Resource.Validate
ASSUME TTLsArePositive  == TTLs \subseteq Nat \ {0}         \* core.Resource.Validate
ASSUME BoundsAreNat     == MaxTime \in Nat /\ MaxPending \in Nat
ASSUME FaultsIsBoolean  == Faults \in BOOLEAN

VARIABLES
  now,       \* the wall clock
  resource,  \* resources table: capacity and ttl of each resource
  requestedAt, \* queue_entries.requested_at: when each call read the clock
  entry,     \* queue_entries.state of each request
  lease,     \* leases row of each request
  pc,        \* where each Acquire call is
  woken,     \* whether the channel a call took from watch has been closed
  pending    \* signals owed: committed changes not yet broadcast

vars == <<now, resource, requestedAt, entry, lease, pc, woken, pending>>

----------------------------------------------------------------------------
\* What is stored.

ResourceDefs == [capacity : Capacities, ttl : TTLs]

EntryStates == {"none", "waiting", "granted", "cancelled", "expired"}

LeaseRows == [state : {"none", "held", "released"}, expiresAt : Nat]

NoLease == [state |-> "none", expiresAt |-> 0]

\* No query reads the other columns of a released row.
ReleasedLease == [state |-> "released", expiresAt |-> 0]

\* "idle" has not been made; "lost" died with the daemon; "granted" has its
\* lease committed, "failed" its error; "full" is about to give up for want of room
\* and "abandon" for any other error.
PCs == {"idle", "enqueue", "watch", "try", "select", "full", "abandon",
        "granted", "failed", "lost"}

Live == {"enqueue", "watch", "try", "select", "full", "abandon"}

\* A broadcast is for one resource, or for all of them (signalAll).
All == "all resources"
Channels == Resources \cup {All}

----------------------------------------------------------------------------
\* The queries.

\* CountActiveLeases and ActiveLeases at an instant.
ActiveAt(r, at) ==
  {q \in Requests : /\ Call[q].resource = r
                    /\ lease[q].state = "held"
                    /\ lease[q].expiresAt > at}

Active(r) == ActiveAt(r, now)

\* Leases that ran out and that nobody has released or reaped yet.
ExpiredAt(at) ==
  {q \in Requests : lease[q].state = "held" /\ lease[q].expiresAt <= at}

Waiting(r) ==
  {q \in Requests : Call[q].resource = r /\ entry[q] = "waiting"}

\* Mistake: the queue is ordered by priority and id alone.
BeforeById(p, q) ==
  \/ Call[p].priority > Call[q].priority
  \/ Call[p].priority = Call[q].priority /\ p < q

\* ORDER BY priority DESC, requested_at ASC, id ASC.
Before(p, q) ==
  \/ Call[p].priority > Call[q].priority
  \/ /\ Call[p].priority = Call[q].priority
     /\ requestedAt[p] < requestedAt[q]
  \/ /\ Call[p].priority = Call[q].priority
     /\ requestedAt[p] = requestedAt[q]
     /\ p < q

IsHead(q) ==
  /\ entry[q] = "waiting"
  /\ \A p \in Waiting(Call[q].resource) : p = q \/ Before(q, p)

HasRoom(r) == Cardinality(Active(r)) < resource[r].capacity

----------------------------------------------------------------------------
\* The statements.

\* Release(lease, at) of every lease in a set, in one transaction.
ReleaseLeases(S) ==
  lease' = [q \in Requests |->
              IF q \in S THEN ReleasedLease ELSE lease[q]]

\* Mistake: the update forgets AND state = 'waiting'.
ResolveEntriesAlways(S, state) ==
  entry' = [q \in Requests |-> IF q \in S THEN state ELSE entry[q]]

\* ResolveQueueEntry of every waiting entry in a set.
ResolveEntries(S, state) ==
  entry' = [q \in Requests |->
              IF q \in S /\ entry[q] = "waiting" THEN state ELSE entry[q]]

\* The transaction committed; the broadcast is still to come.
Owe(channel) == pending' = [pending EXCEPT ![channel] = @ + 1]

\* Bound: an operation that can be repeated without end starts only while
\* few broadcasts are owed.
Unhurried == \A c \in Channels : pending[c] < MaxPending

\* A call keeps the channel it took from watch only from its look into its
\* sleep.
Goto(q, place) ==
  /\ pc' = [pc EXCEPT ![q] = place]
  /\ woken' = [woken EXCEPT ![q] = @ /\ place = "select"]

----------------------------------------------------------------------------
\* The Acquire call.

Init ==
  /\ now = 0
  /\ resource \in [Resources -> ResourceDefs]
  /\ requestedAt = [q \in Requests |-> 0]
  /\ entry = [q \in Requests |-> "none"]
  /\ lease = [q \in Requests |-> NoLease]
  /\ pc = [q \in Requests |-> "idle"]
  /\ woken = [q \in Requests |-> FALSE]
  /\ pending = [c \in Channels |-> 0]

\* Read the resource, make an entry and stamp it with the clock.
Acquire(q) ==
  /\ pc[q] = "idle"
  /\ requestedAt' = [requestedAt EXCEPT ![q] = now]
  /\ Goto(q, "enqueue")
  /\ UNCHANGED <<now, resource, entry, lease, pending>>

\* Insert the entry.
Enqueue(q) ==
  /\ pc[q] = "enqueue"
  /\ entry' = [entry EXCEPT ![q] = "waiting"]
  /\ Goto(q, "watch")
  /\ UNCHANGED <<now, resource, requestedAt, lease, pending>>

\* The insert failed, or the caller's context ended first: nothing to undo.
EnqueueFails(q) ==
  /\ pc[q] = "enqueue"
  /\ Goto(q, "failed")
  /\ UNCHANGED <<now, resource, requestedAt, entry, lease, pending>>

\* Take the resource's current channel before looking.
Watch(q) ==
  /\ pc[q] = "watch"
  /\ Goto(q, "try")
  /\ UNCHANGED <<now, resource, requestedAt, entry, lease, pending>>

\* tryGrant, for an entry that somebody else has already resolved.
TryGrantGone(q) ==
  /\ pc[q] = "try"
  /\ entry[q] # "waiting"
  /\ Goto(q, "abandon")
  /\ UNCHANGED <<now, resource, requestedAt, entry, lease, pending>>

\* What the granting transaction demands of the state it reads.
MayGrant(q) == HasRoom(Call[q].resource) /\ IsHead(q)

\* Mistake: the time to live is subtracted.
TryGrantBackdated(q) ==
  LET r == Call[q].resource IN
  /\ pc[q] = "try"
  /\ entry[q] = "waiting"
  /\ MayGrant(q)
  /\ lease' = [lease EXCEPT ![q] = [state |-> "held",
                                    expiresAt |-> now - resource[r].ttl]]
  /\ entry' = [entry EXCEPT ![q] = "granted"]
  /\ Owe(r)
  /\ Goto(q, "granted")
  /\ UNCHANGED <<now, resource, requestedAt>>

\* tryGrant, with room and at the head: lease and entry change together.
TryGrantTaken(q) ==
  LET r == Call[q].resource IN
  /\ pc[q] = "try"
  /\ entry[q] = "waiting"
  /\ MayGrant(q)
  /\ lease' = [lease EXCEPT ![q] = [state |-> "held",
                                    expiresAt |-> now + resource[r].ttl]]
  /\ entry' = [entry EXCEPT ![q] = "granted"]
  /\ Owe(r)
  /\ Goto(q, "granted")
  /\ UNCHANGED <<now, resource, requestedAt>>

\* tryGrant, without room or behind somebody: sleep, or fail at once.
TryGrantRefused(q) ==
  /\ pc[q] = "try"
  /\ entry[q] = "waiting"
  /\ ~MayGrant(q)
  /\ Goto(q, IF Call[q].noWait THEN "full" ELSE "select")
  /\ UNCHANGED <<now, resource, requestedAt, entry, lease, pending>>

\* The channel closed: look again.
Wake(q) ==
  /\ pc[q] = "select"
  /\ woken[q]
  /\ Goto(q, "watch")
  /\ UNCHANGED <<now, resource, requestedAt, entry, lease, pending>>

\* time.After(reapInterval): look again although nobody said so.
Timer(q) ==
  /\ pc[q] = "select"
  /\ Goto(q, "watch")
  /\ UNCHANGED <<now, resource, requestedAt, entry, lease, pending>>

\* The caller's context ended, or the transaction could not run.
GiveUp(q) ==
  /\ pc[q] \in {"try", "select"}
  /\ Goto(q, "abandon")
  /\ UNCHANGED <<now, resource, requestedAt, entry, lease, pending>>

\* Mistake: the caller that gives up tells nobody.
AbandonSilently(q) ==
  /\ pc[q] \in {"abandon", "full"}
  /\ ResolveEntries({q}, IF pc[q] = "full" THEN "expired" ELSE "cancelled")
  /\ Goto(q, "failed")
  /\ UNCHANGED <<now, resource, requestedAt, lease, pending>>

\* abandon: leave the queue, and tell whoever is behind.
Abandon(q) ==
  /\ pc[q] \in {"abandon", "full"}
  /\ ResolveEntries({q}, IF pc[q] = "full" THEN "expired" ELSE "cancelled")
  /\ IF entry[q] = "waiting" THEN Owe(Call[q].resource) ELSE UNCHANGED pending
  /\ Goto(q, "failed")
  /\ UNCHANGED <<now, resource, requestedAt, lease>>

\* abandon, when the store refuses: the failure is logged and no more.
AbandonFails(q) ==
  /\ Faults
  /\ pc[q] \in {"abandon", "full"}
  /\ Goto(q, "failed")
  /\ UNCHANGED <<now, resource, requestedAt, entry, lease, pending>>

----------------------------------------------------------------------------
\* The other operations.  An instant "at" read before the transaction began
\* may be any earlier reading of the clock.

Past == 0..now

\* Mistake: the update forgets AND expires_at > now.
RenewableUntilReleased(q) == lease[q].state = "held"

\* Renew: only an unreleased lease that has not run out is extended.
Renewable(q) == lease[q].state = "held" /\ lease[q].expiresAt > now

Renew(q) ==
  /\ Renewable(q)
  /\ lease' = [lease EXCEPT ![q].expiresAt = now + resource[Call[q].resource].ttl]
  /\ UNCHANGED <<now, resource, requestedAt, entry, pc, woken, pending>>

\* Mistake: a release without a broadcast.
ReleaseSilently(q) ==
  /\ lease[q].state # "none"
  /\ ReleaseLeases({q})
  /\ UNCHANGED <<now, resource, requestedAt, entry, pc, woken, pending>>

\* Release by the holder, or ForceRelease by an operator.  A lease that is
\* already released is left alone and the broadcast happens all the same.
Release(q) ==
  /\ lease[q].state # "none"
  /\ lease[q].state = "released" => Unhurried
  /\ ReleaseLeases({q})
  /\ Owe(Call[q].resource)
  /\ UNCHANGED <<now, resource, requestedAt, entry, pc, woken>>

\* Mistake: a cancellation without a broadcast.
CancelSilently(q) ==
  /\ entry[q] = "waiting"
  /\ ResolveEntries({q}, "cancelled")
  /\ UNCHANGED <<now, resource, requestedAt, lease, pc, woken, pending>>

\* Cancel by the agent, or ForceCancel by an operator.
Cancel(q) ==
  /\ entry[q] = "waiting"
  /\ ResolveEntries({q}, "cancelled")
  /\ Owe(Call[q].resource)
  /\ UNCHANGED <<now, resource, requestedAt, lease, pc, woken>>

ReleaseEverythingHeldBy(a, at) ==
  LET mine == {q \in Requests : Call[q].agent = a} IN
  /\ Unhurried
  /\ ReleaseLeases({q \in mine : lease[q].state = "held" /\ lease[q].expiresAt > at})
  /\ ResolveEntries(mine, "cancelled")
  /\ Owe(All)
  /\ UNCHANGED <<now, resource, requestedAt, pc, woken>>

FreeResource(r, at) ==
  /\ Unhurried
  /\ ReleaseLeases(ActiveAt(r, at))
  /\ Owe(r)
  /\ UNCHANGED <<now, resource, requestedAt, entry, pc, woken>>

ClearQueue(r) ==
  /\ Unhurried
  /\ ResolveEntries(Waiting(r), "cancelled")
  /\ Owe(r)
  /\ UNCHANGED <<now, resource, requestedAt, lease, pc, woken>>

\* The reaper broadcasts only if it reclaimed something.
ReapExpired(at) ==
  /\ ExpiredAt(at) # {}
  /\ ReleaseLeases(ExpiredAt(at))
  /\ Owe(All)
  /\ UNCHANGED <<now, resource, requestedAt, entry, pc, woken>>

Define(r, def) ==
  /\ Unhurried
  /\ resource' = [resource EXCEPT ![r] = def]
  /\ Owe(r)
  /\ UNCHANGED <<now, requestedAt, entry, lease, pc, woken>>

\* waiters.signal and signalAll: close the channels that calls are watching.
Signal(c) ==
  /\ pending[c] > 0
  /\ pending' = [pending EXCEPT ![c] = @ - 1]
  /\ woken' = [q \in Requests |->
                 \/ woken[q]
                 \/ pc[q] \in {"try", "select"} /\ c \in {Call[q].resource, All}]
  /\ UNCHANGED <<now, resource, requestedAt, entry, lease, pc>>

Tick ==
  /\ now < MaxTime
  /\ now' = now + 1
  /\ UNCHANGED <<resource, requestedAt, entry, lease, pc, woken, pending>>

\* The daemon dies and starts again: calls and owed broadcasts are gone, the
\* tables are not, and start-up redefines the configured resources.
Crash ==
  /\ Faults
  /\ resource' \in [Resources -> ResourceDefs]
  /\ pc' = [q \in Requests |-> IF pc[q] \in Live THEN "lost" ELSE pc[q]]
  /\ woken' = [q \in Requests |-> FALSE]
  /\ pending' = [c \in Channels |-> 0]
  /\ UNCHANGED <<now, requestedAt, entry, lease>>

----------------------------------------------------------------------------

CallStep(q) ==
  \/ Enqueue(q) \/ Watch(q) \/ TryGrantGone(q) \/ TryGrantTaken(q)
  \/ TryGrantRefused(q) \/ Wake(q) \/ Abandon(q)

Next ==
  \/ \E q \in Requests :
       \/ Acquire(q)
       \/ CallStep(q)
       \/ EnqueueFails(q)
       \/ Timer(q)
       \/ GiveUp(q)
       \/ AbandonFails(q)
       \/ Renew(q)
       \/ Release(q)
       \/ Cancel(q)
  \/ \E a \in Agents, at \in Past : ReleaseEverythingHeldBy(a, at)
  \/ \E r \in Resources, at \in Past : FreeResource(r, at)
  \/ \E r \in Resources : ClearQueue(r)
  \/ \E at \in Past : ReapExpired(at)
  \/ \E r \in Resources, def \in ResourceDefs : Define(r, def)
  \/ \E c \in Channels : Signal(c)
  \/ Tick
  \/ Crash

Spec == Init /\ [][Next]_vars

\* A goroutine that can run is scheduled; so is one that owes a broadcast; the
\* housekeeping loop reaps every ten seconds.  Nothing is assumed of Timer.
Fairness ==
  /\ \A q \in Requests : WF_vars(CallStep(q))
  /\ \A c \in Channels : WF_vars(Signal(c))
  /\ WF_vars(ReapExpired(now))

FairSpec == Spec /\ Fairness

----------------------------------------------------------------------------
\* Properties.

\* Every variable keeps its type.
TypeOK ==
  /\ now \in Nat
  /\ resource \in [Resources -> ResourceDefs]
  /\ requestedAt \in [Requests -> Nat]
  /\ entry \in [Requests -> EntryStates]
  /\ lease \in [Requests -> LeaseRows]
  /\ pc \in [Requests -> PCs]
  /\ woken \in [Requests -> BOOLEAN]
  /\ pending \in [Channels -> Nat]

\* A broadcast that q's channel will hear is still to come.
Owed(q) == pending[Call[q].resource] > 0 \/ pending[All] > 0

\* A lease on q's resource ran out and the reaper has not seen it yet.
Lapsed(q) ==
  \E p \in ExpiredAt(now) : Call[p].resource = Call[q].resource

\* No wake-up is lost between a call's look at the queue and its sleep: if a
\* sleeping call could now take a slot, its channel has closed, or is about to
\* be closed by whoever made room, or the room comes from a lease that ran out
\* and that the reaper is yet to find (waitForSlot's "watch before looking",
\* and a signal after every commit that frees a slot or moves the head).
NoLostWakeup ==
  \A q \in Requests :
    pc[q] = "select" /\ ~woken[q] /\ MayGrant(q) => Owed(q) \/ Lapsed(q)

\* A sleeping call whose entry was taken out of the queue (cancel, evict, clear)
\* is told: its channel has closed or is about to be (ClearQueue's "each learns
\* its request is gone").
WithdrawnIsTold ==
  \A q \in Requests :
    pc[q] = "select" /\ ~woken[q] /\ entry[q] # "waiting" => Owed(q)

\* The answer a caller gets is the truth about the tables: a call returns a
\* lease exactly when one was created, so an Acquire that fails, is cancelled
\* while it is being granted, or dies before its grant commits leaves no slot
\* behind; a call that was never queued leaves no entry; and without faults an entry
\* waits only while its call is there to serve it.
AnswersAreTrue ==
  \A q \in Requests :
    /\ pc[q] \in {"idle", "enqueue"} => entry[q] = "none"
    /\ (pc[q] = "granted") <=> (entry[q] = "granted")
    /\ (entry[q] = "granted") <=> (lease[q].state # "none")
    /\ entry[q] = "waiting" /\ pc[q] \notin Live => Faults

\* A step that adds to the leases occupying a resource leaves it within the
\* capacity it then has ("Capacity is never exceeded"): a renewal, a late reap
\* or a clean-up that read the clock earlier never brings a lost slot back.
GrantsWithinCapacity ==
  [][\A r \in Resources :
       Active(r)' \subseteq Active(r) \/
       Cardinality(Active(r)') <= resource'[r].capacity]_vars

\* The lease service is a pool of slots: see SlotPool.  A lease that ran out is
\* out of the pool at that instant, whether or not the reaper has seen it.
PhaseOf(q) ==
  CASE entry[q] = "none" -> "new"
    [] entry[q] = "waiting" -> "waiting"
    [] entry[q] = "granted" /\ q \in Active(Call[q].resource) -> "holding"
    [] OTHER -> "gone"

SlotPools == INSTANCE SlotPool WITH
  Pools    <- Resources,
  Users    <- Requests,
  Pool     <- [q \in Requests |-> Call[q].resource],
  Rank     <- [q \in Requests |-> Call[q].priority],
  phase    <- [q \in Requests |-> PhaseOf(q)],
  arrival  <- requestedAt,
  capacity <- [r \in Resources |-> resource[r].capacity]

\* Every step of the service is a step of the pool: requests are served by
\* priority and then arrival, no more of them than the capacity, each at most
\* once, and one that has left never holds a slot again.
ImplementsSlotPool == SlotPools!PoolSpec

\* No call waits for ever beside a free slot: whoever is ahead of it takes the
\* slot or leaves and passes the turn on, with no help from the safety-net timer
\* (waitForSlot's "a safety net, not the mechanism").  A call that is never
\* answered is one whose resource is always being filled again.
SlotNotLeftIdle ==
  \A q \in Requests : []<>~(pc[q] \in Live /\ HasRoom(Call[q].resource))

\* Nobody is left waiting for a free slot behind a request whose caller is no
\* longer there (abandon's comment, and housekeeping's "a daemon that
\* restarted").  It does not survive a crash: the entry outlives its call, and
\* nothing at start-up or in the housekeeping loop takes it out of the queue.
NotLeftBehindTheGone ==
  \A q \in Requests :
    []<>~(/\ pc[q] \in Live
          /\ HasRoom(Call[q].resource)
          /\ \E p \in Waiting(Call[q].resource) : Before(p, q) /\ pc[p] \notin Live)

============================================================================
