--------------------------- MODULE LeasingProofs ---------------------------
(***************************************************************************)
(* Theorems about Leasing, for every set of agents, resources and requests *)
(* and every bound.                                                        *)
(***************************************************************************)
EXTENDS Leasing, FiniteSetTheorems, TLAPS

\* The state changes every action is built from keep the types.
LEMMA ReleaseTyped ==
  ASSUME TypeOK, NEW S, ReleaseLeases(S)
  PROVE  lease' \in [Requests -> LeaseRows]
BY DEF TypeOK, ReleaseLeases, ReleasedLease, LeaseRows

\* Resolving entries keeps the type of the queue.
LEMMA ResolveTyped ==
  ASSUME TypeOK, NEW S, NEW state \in EntryStates, ResolveEntries(S, state)
  PROVE  entry' \in [Requests -> EntryStates]
BY DEF TypeOK, ResolveEntries, EntryStates

\* Owing a broadcast keeps the type of the signals owed.
LEMMA OweTyped ==
  ASSUME TypeOK, NEW c \in Channels, Owe(c)
  PROVE  pending' \in [Channels -> Nat]
BY DEF TypeOK, Owe

\* Moving a call keeps the types of the calls.
LEMMA GotoTyped ==
  ASSUME TypeOK, NEW q \in Requests, NEW place \in PCs, Goto(q, place)
  PROVE  pc' \in [Requests -> PCs] /\ woken' \in [Requests -> BOOLEAN]
BY DEF TypeOK, Goto

\* What a call was made with has its type.
LEMMA CallTyped ==
  ASSUME NEW q \in Requests
  PROVE  Call[q].resource \in Resources /\ Call[q].resource \in Channels /\ All \in Channels
BY CallsAreTyped DEF Channels

\* A lease granted or renewed now expires at an instant.
LEMMA ExpiryTyped ==
  ASSUME TypeOK, NEW q \in Requests
  PROVE  /\ resource[Call[q].resource].ttl \in Nat \ {0}
         /\ now + resource[Call[q].resource].ttl \in Nat
         /\ now + resource[Call[q].resource].ttl > now
<1>1. resource[Call[q].resource] \in ResourceDefs
  BY CallTyped DEF TypeOK
<1>2. resource[Call[q].resource].ttl \in TTLs
  BY <1>1 DEF ResourceDefs
<1>3. resource[Call[q].resource].ttl \in Nat \ {0}
  BY <1>2, TTLsArePositive
<1>4. now \in Nat
  BY DEF TypeOK
<1> QED
  BY <1>3, <1>4

\* Every variable keeps its type through every operation of the service.
THEOREM TypeCorrect == Spec => []TypeOK
<1>1. Init => TypeOK
  BY DEF Init, TypeOK, EntryStates, LeaseRows, NoLease, PCs
<1>2. TypeOK /\ [Next]_vars => TypeOK'
  <2> SUFFICES ASSUME TypeOK, [Next]_vars PROVE TypeOK'
    OBVIOUS
  <2> USE DEF PCs, EntryStates
  <2>1. ASSUME NEW q \in Requests, Acquire(q) PROVE TypeOK'
    BY <2>1, GotoTyped DEF Acquire, TypeOK
  <2>2. ASSUME NEW q \in Requests, Enqueue(q) PROVE TypeOK'
    BY <2>2, GotoTyped DEF Enqueue, TypeOK
  <2>3. ASSUME NEW q \in Requests,
               \/ EnqueueFails(q) \/ Watch(q) \/ TryGrantGone(q) \/ Wake(q)
               \/ Timer(q) \/ GiveUp(q) \/ AbandonFails(q)
        PROVE  TypeOK'
    BY <2>3, GotoTyped
    DEF EnqueueFails, Watch, TryGrantGone, Wake, Timer, GiveUp, AbandonFails, TypeOK
  <2>4. ASSUME NEW q \in Requests, TryGrantTaken(q) PROVE TypeOK'
    <3>1. now + resource[Call[q].resource].ttl \in Nat
      BY ExpiryTyped
    <3>2. lease' \in [Requests -> LeaseRows]
      BY <2>4, <3>1 DEF TryGrantTaken, TypeOK, LeaseRows
    <3> QED
      BY <2>4, <3>2, GotoTyped, OweTyped, CallTyped DEF TryGrantTaken, TypeOK
  <2>5. ASSUME NEW q \in Requests, TryGrantRefused(q) PROVE TypeOK'
    BY <2>5, GotoTyped DEF TryGrantRefused, TypeOK
  <2>6. ASSUME NEW q \in Requests, Abandon(q) PROVE TypeOK'
    <3>1. entry' \in [Requests -> EntryStates]
      BY <2>6, ResolveTyped DEF Abandon
    <3>2. pending' \in [Channels -> Nat]
      BY <2>6, OweTyped, CallTyped DEF Abandon, TypeOK
    <3> QED
      BY <2>6, <3>1, <3>2, GotoTyped DEF Abandon, TypeOK
  <2>7. ASSUME NEW q \in Requests, Renew(q) PROVE TypeOK'
    <3>1. now + resource[Call[q].resource].ttl \in Nat
      BY ExpiryTyped
    <3>2. lease' \in [Requests -> LeaseRows]
      BY <2>7, <3>1 DEF Renew, TypeOK, LeaseRows
    <3> QED
      BY <2>7, <3>2 DEF Renew, TypeOK
  <2>8. ASSUME NEW q \in Requests, Release(q) PROVE TypeOK'
    BY <2>8, ReleaseTyped, OweTyped, CallTyped DEF Release, TypeOK
  <2>9. ASSUME NEW q \in Requests, Cancel(q) PROVE TypeOK'
    BY <2>9, ResolveTyped, OweTyped, CallTyped DEF Cancel, TypeOK
  <2>10. ASSUME NEW a \in Agents, NEW at \in Past, ReleaseEverythingHeldBy(a, at)
         PROVE  TypeOK'
    <3>1. lease' \in [Requests -> LeaseRows]
      BY <2>10, ReleaseTyped DEF ReleaseEverythingHeldBy
    <3>2. entry' \in [Requests -> EntryStates]
      BY <2>10, ResolveTyped DEF ReleaseEverythingHeldBy
    <3>3. pending' \in [Channels -> Nat]
      BY <2>10, OweTyped DEF ReleaseEverythingHeldBy, Channels
    <3> QED
      BY <2>10, <3>1, <3>2, <3>3 DEF ReleaseEverythingHeldBy, TypeOK
  <2>11. ASSUME NEW r \in Resources, NEW at \in Past, FreeResource(r, at)
         PROVE  TypeOK'
    BY <2>11, ReleaseTyped, OweTyped DEF FreeResource, TypeOK, Channels
  <2>12. ASSUME NEW r \in Resources, ClearQueue(r) PROVE TypeOK'
    BY <2>12, ResolveTyped, OweTyped DEF ClearQueue, TypeOK, Channels
  <2>13. ASSUME NEW at \in Past, ReapExpired(at) PROVE TypeOK'
    BY <2>13, ReleaseTyped, OweTyped DEF ReapExpired, TypeOK, Channels
  <2>14. ASSUME NEW r \in Resources, NEW def \in ResourceDefs, Define(r, def)
         PROVE  TypeOK'
    BY <2>14, OweTyped DEF Define, TypeOK, Channels
  <2>15. ASSUME NEW c \in Channels, Signal(c) PROVE TypeOK'
    BY <2>15 DEF Signal, TypeOK
  <2>16. CASE Tick
    BY <2>16 DEF Tick, TypeOK
  <2>17. CASE Crash
    BY <2>17 DEF Crash, TypeOK
  <2>18. CASE UNCHANGED vars
    BY <2>18 DEF vars, TypeOK
  <2> QED
    BY <2>1, <2>2, <2>3, <2>4, <2>5, <2>6, <2>7, <2>8, <2>9, <2>10, <2>11, <2>12,
       <2>13, <2>14, <2>15, <2>16, <2>17, <2>18 DEF Next, CallStep
<1> QED
  BY <1>1, <1>2, PTL DEF Spec

\* The answer a caller gets is the truth about the tables.  The invariant is
\* inductive as it stands: only the call itself grants its entry, and whoever
\* resolves an entry finds it waiting.
THEOREM AnswersTrue == Spec => []AnswersAreTrue
<1>1. Init => AnswersAreTrue
  BY DEF Init, AnswersAreTrue, NoLease
<1>2. TypeOK /\ AnswersAreTrue /\ [Next]_vars => AnswersAreTrue'
  <2> SUFFICES ASSUME TypeOK, AnswersAreTrue, [Next]_vars,
                      NEW u \in Requests
               PROVE  /\ pc'[u] \in {"idle", "enqueue"} => entry'[u] = "none"
                      /\ (pc'[u] = "granted") <=> (entry'[u] = "granted")
                      /\ (entry'[u] = "granted") <=> (lease'[u].state # "none")
                      /\ entry'[u] = "waiting" /\ pc'[u] \notin Live => Faults
    BY DEF AnswersAreTrue
  <2> DEFINE Goal == /\ pc'[u] \in {"idle", "enqueue"} => entry'[u] = "none"
                     /\ (pc'[u] = "granted") <=> (entry'[u] = "granted")
                     /\ (entry'[u] = "granted") <=> (lease'[u].state # "none")
                     /\ entry'[u] = "waiting" /\ pc'[u] \notin Live => Faults
  <2>0. /\ pc[u] \in {"idle", "enqueue"} => entry[u] = "none"
        /\ (pc[u] = "granted") <=> (entry[u] = "granted")
        /\ (entry[u] = "granted") <=> (lease[u].state # "none")
        /\ entry[u] = "waiting" /\ pc[u] \notin Live => Faults
    BY DEF AnswersAreTrue
  <2> USE DEF TypeOK, Live
  <2>1. ASSUME NEW q \in Requests, Acquire(q) PROVE Goal
    BY <2>0, <2>1 DEF Acquire, Goto
  <2>2. ASSUME NEW q \in Requests, Enqueue(q) PROVE Goal
    BY <2>0, <2>2 DEF Enqueue, Goto
  <2>3. ASSUME NEW q \in Requests,
               \/ EnqueueFails(q) \/ Watch(q) \/ TryGrantGone(q) \/ Wake(q)
               \/ Timer(q) \/ GiveUp(q) \/ AbandonFails(q) \/ TryGrantRefused(q)
        PROVE  Goal
    BY <2>0, <2>3
    DEF EnqueueFails, Watch, TryGrantGone, Wake, Timer, GiveUp, AbandonFails,
        TryGrantRefused, Goto
  <2>4. ASSUME NEW q \in Requests, TryGrantTaken(q) PROVE Goal
    BY <2>0, <2>4 DEF TryGrantTaken, Goto
  <2>5. ASSUME NEW q \in Requests, Abandon(q) PROVE Goal
    BY <2>0, <2>5 DEF Abandon, ResolveEntries, Goto
  <2>6. ASSUME NEW q \in Requests, Renew(q) PROVE Goal
    BY <2>0, <2>6 DEF Renew, LeaseRows
  <2>7. ASSUME NEW q \in Requests, Release(q) PROVE Goal
    BY <2>0, <2>7 DEF Release, ReleaseLeases, ReleasedLease
  <2>8. ASSUME NEW q \in Requests, Cancel(q) PROVE Goal
    BY <2>0, <2>8 DEF Cancel, ResolveEntries
  <2>9. ASSUME NEW a \in Agents, NEW at \in Past, ReleaseEverythingHeldBy(a, at)
        PROVE  Goal
    <3>1. \/ entry'[u] = entry[u]
          \/ entry[u] = "waiting" /\ entry'[u] = "cancelled"
      BY <2>9 DEF ReleaseEverythingHeldBy, ResolveEntries
    <3>2. \/ lease'[u] = lease[u]
          \/ lease[u].state = "held" /\ lease'[u] = ReleasedLease
      BY <2>9 DEF ReleaseEverythingHeldBy, ReleaseLeases
    <3> QED
      BY <2>0, <2>9, <3>1, <3>2 DEF ReleaseEverythingHeldBy, ReleasedLease
  <2>10. ASSUME NEW r \in Resources, NEW at \in Past, FreeResource(r, at)
         PROVE  Goal
    BY <2>0, <2>10 DEF FreeResource, ReleaseLeases, ReleasedLease, ActiveAt
  <2>11. ASSUME NEW r \in Resources, ClearQueue(r) PROVE Goal
    BY <2>0, <2>11 DEF ClearQueue, ResolveEntries
  <2>12. ASSUME NEW at \in Past, ReapExpired(at) PROVE Goal
    BY <2>0, <2>12 DEF ReapExpired, ReleaseLeases, ReleasedLease, ExpiredAt
  <2>13. ASSUME NEW r \in Resources, NEW def \in ResourceDefs, Define(r, def)
         PROVE  Goal
    BY <2>0, <2>13 DEF Define
  <2>14. ASSUME NEW c \in Channels, Signal(c) PROVE Goal
    BY <2>0, <2>14 DEF Signal
  <2>15. CASE Tick
    BY <2>0, <2>15 DEF Tick
  <2>16. CASE Crash
    BY <2>0, <2>16 DEF Crash
  <2>17. CASE UNCHANGED vars
    BY <2>0, <2>17 DEF vars
  <2> QED
    BY <2>1, <2>2, <2>3, <2>4, <2>5, <2>6, <2>7, <2>8, <2>9, <2>10, <2>11, <2>12,
       <2>13, <2>14, <2>15, <2>16, <2>17 DEF Next, CallStep
<1> QED
  BY <1>1, <1>2, TypeCorrect, PTL DEF Spec

----------------------------------------------------------------------------
\* Wake-ups.

\* A step that leaves everything about one resource as it was.
SameQueue(r) ==
  /\ now' = now
  /\ resource'[r] = resource[r]
  /\ \A p \in Requests :
       Call[p].resource = r => /\ entry'[p] = entry[p]
                               /\ lease'[p] = lease[p]
                               /\ requestedAt'[p] = requestedAt[p]

\* Whether a request could be granted depends on its own resource only.
LEMMA Frame ==
  ASSUME NEW q \in Requests, SameQueue(Call[q].resource)
  PROVE  (MayGrant(q)' <=> MayGrant(q)) /\ (Lapsed(q)' <=> Lapsed(q))
<1> DEFINE r == Call[q].resource
<1>1. Active(r)' = Active(r)
  BY DEF Active, ActiveAt, SameQueue
<1>2. Waiting(r)' = Waiting(r)
  BY DEF Waiting, SameQueue
<1>3. ASSUME NEW p \in Waiting(r) PROVE Before(q, p)' <=> Before(q, p)
  BY DEF Before, SameQueue, Waiting
<1>4. IsHead(q)' <=> IsHead(q)
  BY <1>2, <1>3 DEF IsHead, SameQueue
<1>5. HasRoom(r)' <=> HasRoom(r)
  BY <1>1 DEF HasRoom, SameQueue
<1>6. Lapsed(q)' <=> Lapsed(q)
  BY DEF Lapsed, ExpiredAt, SameQueue
<1> QED
  BY <1>4, <1>5, <1>6 DEF MayGrant

\* A step that owes a broadcast on a request's channel leaves it owed.
LEMMA OweIsOwed ==
  ASSUME TypeOK, NEW q \in Requests, NEW c \in {Call[q].resource, All}, Owe(c)
  PROVE  Owed(q)'
BY CallTyped DEF TypeOK, Owe, Owed

\* Owing one more broadcast cancels none.
LEMMA OweKeepsOwed ==
  ASSUME TypeOK, NEW q \in Requests, NEW c \in Channels, Owe(c), Owed(q)
  PROVE  Owed(q)'
BY CallTyped DEF TypeOK, Owe, Owed

\* What a sleeping call is promised.
Told(q) ==
  pc[q] = "select" /\ ~woken[q] =>
    /\ MayGrant(q) => Owed(q) \/ Lapsed(q)
    /\ entry[q] # "waiting" => Owed(q)

\* A step that owes a broadcast on one resource, and changes no other, keeps
\* the promise to every call it does not itself move.
LEMMA OneResource ==
  ASSUME TypeOK, NEW q \in Requests, Told(q), NEW r \in Resources, Owe(r),
         pc'[q] = pc[q], woken'[q] = woken[q],
         \A s \in Resources \ {r} : SameQueue(s)
  PROVE  Told(q)'
<1>1. CASE Call[q].resource = r
  BY <1>1, OweIsOwed DEF Told
<1>2. CASE Call[q].resource # r
  <2>1. SameQueue(Call[q].resource)
    BY <1>2, CallTyped
  <2>2. entry'[q] = entry[q]
    BY <2>1 DEF SameQueue
  <2>3. Owed(q) => Owed(q)'
    BY OweKeepsOwed DEF Channels
  <2> QED
    BY <2>1, <2>2, <2>3, Frame DEF Told
<1> QED
  BY <1>1, <1>2

\* A step of another call that leaves the tables alone keeps the promise.
LEMMA TablesUntouched ==
  ASSUME TypeOK, NEW q \in Requests, Told(q),
         UNCHANGED <<now, resource, requestedAt, entry, lease, pending>>,
         pc'[q] = pc[q], woken'[q] = woken[q]
  PROVE  Told(q)'
<1>1. SameQueue(Call[q].resource)
  BY DEF SameQueue
<1>2. Owed(q)' <=> Owed(q)
  BY DEF Owed
<1> QED
  BY <1>1, <1>2, Frame DEF Told

\* Every operation keeps the promise made to every sleeping call.
LEMMA ToldStep ==
  ASSUME TypeOK, AnswersAreTrue, NEW u \in Requests, Told(u), [Next]_vars
  PROVE  Told(u)'
<1> USE DEF TypeOK
<1>1. ASSUME NEW q \in Requests, Acquire(q) PROVE Told(u)'
  <2>1. CASE u = q
    BY <1>1, <2>1 DEF Acquire, Goto, Told
  <2>2. CASE u # q
    <3> DEFINE r == Call[u].resource
    <3>1. entry[q] = "none"
      BY <1>1 DEF Acquire, AnswersAreTrue
    <3>2. /\ pc'[u] = pc[u] /\ woken'[u] = woken[u]
          /\ now' = now /\ resource' = resource /\ entry' = entry
          /\ lease' = lease /\ pending' = pending
          /\ \A p \in Requests \ {q} : requestedAt'[p] = requestedAt[p]
      BY <1>1, <2>2 DEF Acquire, Goto
    <3>3. Waiting(r)' = Waiting(r) /\ q \notin Waiting(r)
      BY <3>1, <3>2 DEF Waiting
    <3>4. ASSUME NEW p \in Waiting(r) PROVE Before(u, p)' <=> Before(u, p)
      BY <2>2, <3>2, <3>3 DEF Before, Waiting
    <3>5. IsHead(u)' <=> IsHead(u)
      BY <3>2, <3>3, <3>4 DEF IsHead
    <3>6. Active(r)' = Active(r) /\ (Lapsed(u)' <=> Lapsed(u)) /\ (Owed(u)' <=> Owed(u))
      BY <3>2 DEF Active, ActiveAt, Lapsed, ExpiredAt, Owed
    <3>7. MayGrant(u)' <=> MayGrant(u)
      BY <3>2, <3>5, <3>6 DEF MayGrant, HasRoom
    <3> QED
      BY <3>2, <3>6, <3>7 DEF Told
  <2> QED
    BY <2>1, <2>2
<1>2. ASSUME NEW q \in Requests, Enqueue(q) PROVE Told(u)'
  <2>1. CASE u = q
    BY <1>2, <2>1 DEF Enqueue, Goto, Told
  <2>2. CASE u # q
    <3> DEFINE r == Call[u].resource
    <3>2. /\ pc'[u] = pc[u] /\ woken'[u] = woken[u]
          /\ now' = now /\ resource' = resource /\ entry'[u] = entry[u]
          /\ lease' = lease /\ pending' = pending /\ requestedAt' = requestedAt
      BY <1>2, <2>2 DEF Enqueue, Goto
    <3>3. Waiting(r) \subseteq Waiting(r)'
      BY <1>2 DEF Waiting, Enqueue
    <3>4. IsHead(u)' => IsHead(u)
      BY <3>2, <3>3 DEF IsHead, Before
    <3>6. Active(r)' = Active(r) /\ (Lapsed(u)' <=> Lapsed(u)) /\ (Owed(u)' <=> Owed(u))
      BY <3>2 DEF Active, ActiveAt, Lapsed, ExpiredAt, Owed
    <3>7. MayGrant(u)' => MayGrant(u)
      BY <3>2, <3>4, <3>6 DEF MayGrant, HasRoom
    <3> QED
      BY <3>2, <3>6, <3>7 DEF Told
  <2> QED
    BY <2>1, <2>2
<1>3. ASSUME NEW q \in Requests,
             \/ EnqueueFails(q) \/ Watch(q) \/ TryGrantGone(q) \/ Wake(q)
             \/ Timer(q) \/ GiveUp(q) \/ AbandonFails(q)
      PROVE  Told(u)'
  <2>1. CASE u = q
    BY <1>3, <2>1
    DEF EnqueueFails, Watch, TryGrantGone, Wake, Timer, GiveUp, AbandonFails, Goto, Told
  <2>2. CASE u # q
    <3>1. /\ UNCHANGED <<now, resource, requestedAt, entry, lease, pending>>
          /\ pc'[u] = pc[u] /\ woken'[u] = woken[u]
      BY <1>3, <2>2
      DEF EnqueueFails, Watch, TryGrantGone, Wake, Timer, GiveUp, AbandonFails, Goto
    <3> QED
      BY <3>1, TablesUntouched
  <2> QED
    BY <2>1, <2>2
<1>4. ASSUME NEW q \in Requests, TryGrantRefused(q) PROVE Told(u)'
  <2>1. CASE u = q
    \* It looked, and could not be granted: it sleeps with nothing to be told.
    <3>1. UNCHANGED <<now, resource, requestedAt, entry, lease, pending>>
      BY <1>4 DEF TryGrantRefused
    <3>2. SameQueue(Call[u].resource)
      BY <3>1 DEF SameQueue
    <3>3. ~MayGrant(u)' /\ entry'[u] = "waiting"
      BY <1>4, <2>1, <3>1, <3>2, Frame DEF TryGrantRefused
    <3> QED
      BY <3>3 DEF Told
  <2>2. CASE u # q
    <3>1. /\ UNCHANGED <<now, resource, requestedAt, entry, lease, pending>>
          /\ pc'[u] = pc[u] /\ woken'[u] = woken[u]
      BY <1>4, <2>2 DEF TryGrantRefused, Goto
    <3> QED
      BY <3>1, TablesUntouched
  <2> QED
    BY <2>1, <2>2
<1>5. ASSUME NEW q \in Requests, TryGrantTaken(q) PROVE Told(u)'
  <2>1. CASE u = q
    BY <1>5, <2>1 DEF TryGrantTaken, Goto, Told
  <2>2. CASE u # q
    <3>1. Owe(Call[q].resource) /\ pc'[u] = pc[u] /\ woken'[u] = woken[u]
      BY <1>5, <2>2 DEF TryGrantTaken, Goto
    <3>2. \A s \in Resources \ {Call[q].resource} : SameQueue(s)
      BY <1>5 DEF TryGrantTaken, SameQueue
    <3> QED
      BY <3>1, <3>2, CallTyped, OneResource
  <2> QED
    BY <2>1, <2>2
<1>6. ASSUME NEW q \in Requests, Abandon(q) PROVE Told(u)'
  <2>1. CASE u = q
    BY <1>6, <2>1 DEF Abandon, Goto, Told
  <2>2. CASE u # q /\ entry[q] = "waiting"
    <3>1. Owe(Call[q].resource) /\ pc'[u] = pc[u] /\ woken'[u] = woken[u]
      BY <1>6, <2>2 DEF Abandon, Goto
    <3>2. \A s \in Resources \ {Call[q].resource} : SameQueue(s)
      BY <1>6 DEF Abandon, ResolveEntries, SameQueue
    <3> QED
      BY <3>1, <3>2, CallTyped, OneResource
  <2>3. CASE u # q /\ entry[q] # "waiting"
    <3>1. /\ UNCHANGED <<now, resource, requestedAt, lease, pending>>
          /\ pc'[u] = pc[u] /\ woken'[u] = woken[u]
      BY <1>6, <2>3 DEF Abandon, Goto
    <3>2. \A p \in Requests : entry'[p] = entry[p]
      BY <1>6, <2>3 DEF Abandon, ResolveEntries
    <3>3. entry' = entry
      BY <1>6, <3>2 DEF Abandon, ResolveEntries
    <3> QED
      BY <3>1, <3>3, TablesUntouched
  <2> QED
    BY <2>1, <2>2, <2>3
<1>7. ASSUME NEW q \in Requests, Renew(q) PROVE Told(u)'
  <2> DEFINE r == Call[u].resource
  <2>1. /\ UNCHANGED <<now, resource, requestedAt, entry, pc, woken, pending>>
        /\ lease[q].state = "held" /\ lease[q].expiresAt > now
        /\ lease'[q].state = "held" /\ lease'[q].expiresAt > now
        /\ \A p \in Requests \ {q} : lease'[p] = lease[p]
    BY <1>7, ExpiryTyped DEF Renew, Renewable, LeaseRows
  <2>2. Active(r)' = Active(r)
    BY <2>1 DEF Active, ActiveAt
  <2>3. ExpiredAt(now)' = ExpiredAt(now)
    <3>1. now \in Nat /\ lease[q].expiresAt \in Nat /\ lease'[q].expiresAt \in Nat
      BY <1>7, ExpiryTyped DEF Renew, LeaseRows
    <3>2. ~(lease[q].expiresAt <= now) /\ ~(lease'[q].expiresAt <= now)
      BY <2>1, <3>1
    <3>3. ASSUME NEW p \in Requests
          PROVE  p \in ExpiredAt(now)' <=> p \in ExpiredAt(now)
      BY <2>1, <3>2 DEF ExpiredAt
    <3> QED
      BY <3>3 DEF ExpiredAt
  <2>4. (IsHead(u)' <=> IsHead(u)) /\ (Lapsed(u)' <=> Lapsed(u)) /\ (Owed(u)' <=> Owed(u))
    BY <2>1, <2>3 DEF IsHead, Waiting, Before, Lapsed, Owed
  <2>5. MayGrant(u)' <=> MayGrant(u)
    BY <2>1, <2>2, <2>4 DEF MayGrant, HasRoom
  <2> QED
    BY <2>1, <2>4, <2>5 DEF Told
<1>8. ASSUME NEW q \in Requests, Release(q) \/ Cancel(q) PROVE Told(u)'
  <2>1. Owe(Call[q].resource) /\ pc'[u] = pc[u] /\ woken'[u] = woken[u]
    BY <1>8 DEF Release, Cancel
  <2>2. \A s \in Resources \ {Call[q].resource} : SameQueue(s)
    BY <1>8 DEF Release, Cancel, ReleaseLeases, ResolveEntries, SameQueue
  <2> QED
    BY <2>1, <2>2, CallTyped, OneResource
<1>9. ASSUME NEW a \in Agents, NEW at \in Past, ReleaseEverythingHeldBy(a, at)
      PROVE  Told(u)'
  BY <1>9, OweIsOwed DEF ReleaseEverythingHeldBy, Told
<1>10. ASSUME NEW r \in Resources, NEW at \in Past, FreeResource(r, at)
       PROVE  Told(u)'
  <2>1. Owe(r) /\ pc'[u] = pc[u] /\ woken'[u] = woken[u]
    BY <1>10 DEF FreeResource
  <2>2. \A s \in Resources \ {r} : SameQueue(s)
    BY <1>10 DEF FreeResource, ReleaseLeases, ActiveAt, SameQueue
  <2> QED
    BY <2>1, <2>2, OneResource
<1>11. ASSUME NEW r \in Resources, ClearQueue(r) PROVE Told(u)'
  <2>1. Owe(r) /\ pc'[u] = pc[u] /\ woken'[u] = woken[u]
    BY <1>11 DEF ClearQueue
  <2>2. \A s \in Resources \ {r} : SameQueue(s)
    BY <1>11 DEF ClearQueue, ResolveEntries, Waiting, SameQueue
  <2> QED
    BY <2>1, <2>2, OneResource
<1>12. ASSUME NEW at \in Past, ReapExpired(at) PROVE Told(u)'
  BY <1>12, OweIsOwed DEF ReapExpired, Told
<1>13. ASSUME NEW r \in Resources, NEW def \in ResourceDefs, Define(r, def)
       PROVE  Told(u)'
  <2>1. Owe(r) /\ pc'[u] = pc[u] /\ woken'[u] = woken[u]
    BY <1>13 DEF Define
  <2>2. \A s \in Resources \ {r} : SameQueue(s)
    BY <1>13 DEF Define, SameQueue
  <2> QED
    BY <2>1, <2>2, OneResource
<1>14. ASSUME NEW c \in Channels, Signal(c) PROVE Told(u)'
  <2>1. SameQueue(Call[u].resource) /\ entry'[u] = entry[u] /\ pc'[u] = pc[u]
    BY <1>14 DEF Signal, SameQueue
  <2>2. CASE pc[u] = "select" /\ c \in {Call[u].resource, All}
    BY <1>14, <2>2 DEF Signal, Told
  <2>3. CASE pc[u] = "select" /\ c \notin {Call[u].resource, All}
    <3>1. (woken'[u] <=> woken[u]) /\ (Owed(u)' <=> Owed(u))
      BY <1>14, <2>3, CallTyped DEF Signal, Owed
    <3> QED
      BY <2>1, <3>1, Frame DEF Told
  <2>4. CASE pc[u] # "select"
    BY <2>1, <2>4 DEF Told
  <2> QED
    BY <2>2, <2>3, <2>4
<1>15. CASE Tick
  <2> DEFINE r == Call[u].resource
  <2>1. /\ UNCHANGED <<resource, requestedAt, entry, lease, pc, woken, pending>>
        /\ now' = now + 1
    BY <1>15 DEF Tick
  <2>2. (IsHead(u)' <=> IsHead(u)) /\ (Owed(u)' <=> Owed(u))
    BY <2>1 DEF IsHead, Waiting, Before, Owed
  <2>3. Lapsed(u) => Lapsed(u)'
    BY <2>1 DEF Lapsed, ExpiredAt, LeaseRows
  <2>4. CASE \E p \in Active(r) : p \notin Active(r)'
    <3>1. Lapsed(u)'
      BY <2>1, <2>4 DEF Lapsed, ExpiredAt, Active, ActiveAt, LeaseRows
    <3> QED
      BY <2>1, <2>2, <3>1 DEF Told
  <2>5. CASE \A p \in Active(r) : p \in Active(r)'
    <3>1. Active(r)' = Active(r)
      BY <2>1, <2>5 DEF Active, ActiveAt, LeaseRows
    <3>2. MayGrant(u)' <=> MayGrant(u)
      BY <2>1, <2>2, <3>1 DEF MayGrant, HasRoom
    <3> QED
      BY <2>1, <2>2, <2>3, <3>2 DEF Told
  <2> QED
    BY <2>4, <2>5
<1>16. CASE Crash
  BY <1>16 DEF Crash, Told, Live
<1>17. CASE UNCHANGED vars
  BY <1>17, TablesUntouched DEF vars
<1> QED
  BY <1>1, <1>2, <1>3, <1>4, <1>5, <1>6, <1>7, <1>8, <1>9, <1>10, <1>11, <1>12,
     <1>13, <1>14, <1>15, <1>16, <1>17 DEF Next, CallStep

\* No wake-up is lost: a sleeping call that could take a slot has been woken, or
\* somebody still owes it a broadcast, or the reaper has an expired lease to
\* find.
THEOREM WakeupsNotLost == Spec => []NoLostWakeup
<1>1. Init => \A q \in Requests : Told(q)
  BY DEF Init, Told
<1>2. TypeOK /\ AnswersAreTrue /\ (\A q \in Requests : Told(q)) /\ [Next]_vars
        => (\A q \in Requests : Told(q))'
  BY ToldStep
<1>3. (\A q \in Requests : Told(q)) => NoLostWakeup
  BY DEF Told, NoLostWakeup
<1> QED
  BY <1>1, <1>2, <1>3, TypeCorrect, AnswersTrue, PTL DEF Spec

\* A sleeping call whose entry somebody took out of the queue is told.
THEOREM WithdrawnCallsTold == Spec => []WithdrawnIsTold
<1>1. Init => \A q \in Requests : Told(q)
  BY DEF Init, Told
<1>2. TypeOK /\ AnswersAreTrue /\ (\A q \in Requests : Told(q)) /\ [Next]_vars
        => (\A q \in Requests : Told(q))'
  BY ToldStep
<1>3. (\A q \in Requests : Told(q)) => WithdrawnIsTold
  BY DEF Told, WithdrawnIsTold
<1> QED
  BY <1>1, <1>2, <1>3, TypeCorrect, AnswersTrue, PTL DEF Spec

----------------------------------------------------------------------------
\* Capacity, and the pool of slots.

\* The active leases can be counted.
LEMMA ActiveFinite ==
  ASSUME NEW r
  PROVE  IsFiniteSet(Active(r)) /\ Cardinality(Active(r)) \in Nat
<1>1. Active(r) \subseteq Requests
  BY DEF Active, ActiveAt
<1> QED
  BY <1>1, RequestsAreIds, FS_Subset, FS_CardinalityType

\* Every step but a grant only takes leases away: time passes, rows are
\* released, and a renewal finds its lease still active.
LEMMA OnlyGrantsAdd ==
  ASSUME TypeOK, [Next]_vars, \A q \in Requests : ~TryGrantTaken(q),
         NEW p \in Requests, lease'[p].state = "held", lease'[p].expiresAt > now'
  PROVE  lease[p].state = "held" /\ lease[p].expiresAt > now
<1> USE DEF TypeOK
<1> DEFINE Goal == lease[p].state = "held" /\ lease[p].expiresAt > now
<1>1. ASSUME now' = now, lease' = lease PROVE Goal
  BY <1>1
<1>2. ASSUME NEW S, now' = now, ReleaseLeases(S) PROVE Goal
  BY <1>2 DEF ReleaseLeases, ReleasedLease
<1>3. ASSUME NEW q \in Requests, Renew(q) PROVE Goal
  BY <1>3 DEF Renew, Renewable
<1>4. CASE Tick
  BY <1>4 DEF Tick, LeaseRows
<1>5. ASSUME NEW q \in Requests, CallStep(q) PROVE Goal
  BY <1>1, <1>5 DEF CallStep, Enqueue, Watch, TryGrantGone, TryGrantRefused, Wake, Abandon
<1>6. ASSUME NEW q \in Requests,
             Acquire(q) \/ EnqueueFails(q) \/ Timer(q) \/ GiveUp(q) \/ AbandonFails(q) \/ Cancel(q)
      PROVE  Goal
  BY <1>1, <1>6 DEF Acquire, EnqueueFails, Timer, GiveUp, AbandonFails, Cancel
<1>7. ASSUME NEW q \in Requests, Release(q) PROVE Goal
  BY <1>2, <1>7 DEF Release
<1>8. ASSUME NEW a \in Agents, NEW at \in Past, ReleaseEverythingHeldBy(a, at) PROVE Goal
  BY <1>2, <1>8 DEF ReleaseEverythingHeldBy
<1>9. ASSUME NEW r \in Resources, NEW at \in Past, FreeResource(r, at) PROVE Goal
  BY <1>2, <1>9 DEF FreeResource
<1>10. ASSUME NEW at \in Past, ReapExpired(at) PROVE Goal
  BY <1>2, <1>10 DEF ReapExpired
<1>11. ASSUME NEW r \in Resources, ClearQueue(r) PROVE Goal
  BY <1>1, <1>11 DEF ClearQueue
<1>12. ASSUME NEW r \in Resources, NEW def \in ResourceDefs, Define(r, def) PROVE Goal
  BY <1>1, <1>12 DEF Define
<1>13. ASSUME NEW c \in Channels, Signal(c) PROVE Goal
  BY <1>1, <1>13 DEF Signal
<1>14. CASE Crash
  BY <1>1, <1>14 DEF Crash
<1>15. CASE UNCHANGED vars
  BY <1>1, <1>15 DEF vars
<1> QED
  BY <1>3, <1>4, <1>5, <1>6, <1>7, <1>8, <1>9, <1>10, <1>11, <1>12, <1>13, <1>14,
     <1>15 DEF Next

\* Capacity is never exceeded by a step that adds to what is held: the grant is
\* the only such step, and it saw room in the transaction that made it.
THEOREM CapacityRespected == Spec => GrantsWithinCapacity
<1>1. TypeOK /\ [Next]_vars
        => [\A r \in Resources :
              Active(r)' \subseteq Active(r) \/
              Cardinality(Active(r)') <= resource'[r].capacity]_vars
  <2> SUFFICES ASSUME TypeOK, [Next]_vars, NEW r \in Resources
               PROVE  Active(r)' \subseteq Active(r) \/
                      Cardinality(Active(r)') <= resource'[r].capacity
    OBVIOUS
  <2>1. CASE \A q \in Requests : ~TryGrantTaken(q)
    BY <2>1, OnlyGrantsAdd DEF Active, ActiveAt
  <2>2. ASSUME NEW q \in Requests, TryGrantTaken(q)
        PROVE  Active(r)' \subseteq Active(r) \/
               Cardinality(Active(r)') <= resource'[r].capacity
    <3>1. CASE r # Call[q].resource
      BY <2>2, <3>1 DEF TryGrantTaken, TypeOK, Active, ActiveAt
    <3>2. CASE r = Call[q].resource
      <4>1. Active(r)' \subseteq Active(r) \cup {q}
        BY <2>2 DEF TryGrantTaken, TypeOK, Active, ActiveAt
      <4>2. /\ IsFiniteSet(Active(r) \cup {q})
            /\ Cardinality(Active(r) \cup {q}) <= Cardinality(Active(r)) + 1
        <5> DEFINE A == Active(r)
        <5>1. IsFiniteSet(A) /\ Cardinality(A) \in Nat
          BY ActiveFinite
        <5> HIDE DEF A
        <5>2. /\ IsFiniteSet(A \cup {q})
              /\ Cardinality(A \cup {q}) = IF q \in A THEN Cardinality(A) ELSE Cardinality(A) + 1
          BY <5>1, FS_AddElement
        <5>3. Cardinality(A \cup {q}) <= Cardinality(A) + 1
          BY <5>1, <5>2
        <5> QED
          BY <5>2, <5>3 DEF A
      <4>3. Cardinality(Active(r)') <= Cardinality(Active(r) \cup {q})
        BY <4>1, <4>2, FS_Subset
      <4>4. Cardinality(Active(r)) < resource[r].capacity /\ resource' = resource
        BY <2>2, <3>2 DEF TryGrantTaken, MayGrant, HasRoom
      <4>5. resource[r].capacity \in Nat
        <5>1. resource[r] \in ResourceDefs
          BY DEF TypeOK
        <5> QED
          BY <5>1, CapacitiesAreOK DEF ResourceDefs
      <4>6. IsFiniteSet(Active(r)')
        BY <4>1, <4>2, FS_Subset
      <4>7. /\ Cardinality(Active(r)') \in Nat
            /\ Cardinality(Active(r)) \in Nat
            /\ Cardinality(Active(r) \cup {q}) \in Nat
        BY <4>2, <4>6, ActiveFinite, FS_CardinalityType
      <4> QED
        BY <4>2, <4>3, <4>4, <4>5, <4>7
    <3> QED
      BY <3>1, <3>2
  <2> QED
    BY <2>1, <2>2
<1> QED
  BY <1>1, TypeCorrect, PTL DEF Spec, GrantsWithinCapacity

\* What phase a request is in, by its row.
LEMMA PhaseByRow ==
  ASSUME TypeOK, AnswersAreTrue, NEW q \in Requests
  PROVE  /\ PhaseOf(q) = "new" <=> entry[q] = "none"
         /\ PhaseOf(q) = "waiting" <=> entry[q] = "waiting"
         /\ PhaseOf(q) = "holding" <=> q \in Active(Call[q].resource)
         /\ PhaseOf(q) \in {"new", "waiting", "holding", "gone"}
<1>1. q \in Active(Call[q].resource) => entry[q] = "granted"
  BY DEF Active, ActiveAt, AnswersAreTrue
<1> QED
  BY <1>1 DEF PhaseOf, TypeOK, EntryStates

\* The leases active on a resource are the holders of its pool.
LEMMA HoldersAreActive ==
  ASSUME TypeOK, AnswersAreTrue, NEW r
  PROVE  SlotPools!HoldersOf(r) = Active(r)
<1>1. ASSUME NEW q \in Requests
      PROVE  q \in SlotPools!HoldersOf(r) <=> q \in Active(r)
  BY PhaseByRow DEF SlotPools!HoldersOf, Active, ActiveAt
<1> QED
  BY <1>1 DEF SlotPools!HoldersOf, Active, ActiveAt

\* The instance counts as this module does.
LEMMA SameCardinality ==
  ASSUME NEW S
  PROVE  SlotPools!Cardinality(S) = Cardinality(S)
BY Zenon DEF SlotPools!Cardinality, Cardinality

\* The capacities the pool sees are natural numbers.
LEMMA CapacityTyped ==
  ASSUME resource \in [Resources -> ResourceDefs]
  PROVE  [r \in Resources |-> resource[r].capacity] \in [Resources -> Nat]
<1> SUFFICES ASSUME NEW r \in Resources PROVE resource[r].capacity \in Nat
  OBVIOUS
<1>1. resource[r] \in ResourceDefs
  OBVIOUS
<1> QED
  BY <1>1, CapacitiesAreOK DEF ResourceDefs

\* A step that only moves requests out of the pool, or none, is a pool step.
LEMMA LeavingIsAPoolStep ==
  ASSUME requestedAt' = requestedAt, resource' = resource,
         \A q \in Requests : \/ PhaseOf(q)' = PhaseOf(q)
                             \/ /\ PhaseOf(q) \in {"waiting", "holding"}
                                /\ PhaseOf(q)' = "gone"
  PROVE  SlotPools!PoolNext
<1> DEFINE S == {q \in Requests : PhaseOf(q)' # PhaseOf(q)}
<1>1. SlotPools!Leave(S)
  BY DEF SlotPools!Leave
<1>2. S \in SUBSET Requests
  OBVIOUS
<1> QED
  BY <1>1, <1>2 DEF SlotPools!PoolNext

\* A step that grants nothing leaves a request in its phase or out of the pool.
LEMMA EntryLeaves ==
  ASSUME TypeOK, [Next]_vars, \A q \in Requests : ~TryGrantTaken(q),
         NEW p \in Requests,
         \/ entry'[p] = entry[p]
         \/ entry[p] = "waiting" /\ entry'[p] \in {"cancelled", "expired"}
  PROVE  \/ PhaseOf(p)' = PhaseOf(p)
         \/ PhaseOf(p) \in {"waiting", "holding"} /\ PhaseOf(p)' = "gone"
<1>1. p \in Active(Call[p].resource)' => p \in Active(Call[p].resource)
  BY OnlyGrantsAdd DEF Active, ActiveAt
<1>2. entry[p] \in EntryStates
  BY DEF TypeOK
<1> QED
  BY <1>1, <1>2 DEF PhaseOf, EntryStates

\* Every step of the service is a step of the pool, or leaves the pool alone.
LEMMA PoolStep ==
  ASSUME TypeOK, TypeOK', AnswersAreTrue, [Next]_vars
  PROVE  [SlotPools!PoolNext]_(SlotPools!poolVars)
<1> DEFINE Goal == SlotPools!PoolNext \/ UNCHANGED SlotPools!poolVars
<1> SUFFICES Goal
  OBVIOUS
<1>1. ASSUME NEW q \in Requests, Acquire(q) PROVE Goal
  <2>1. entry[q] = "none"
    BY <1>1 DEF Acquire, AnswersAreTrue
  <2>2. ASSUME NEW p \in Requests PROVE PhaseOf(p)' = PhaseOf(p)
    BY <1>1 DEF Acquire, PhaseOf, Active, ActiveAt
  <2>3. SlotPools!Ask(q)
    BY <1>1, <2>1, <2>2 DEF Acquire, SlotPools!Ask, PhaseOf, TypeOK
  <2> QED
    BY <2>3 DEF SlotPools!PoolNext
<1>2. ASSUME NEW q \in Requests, Enqueue(q) PROVE Goal
  <2>1. entry[q] = "none"
    BY <1>2 DEF Enqueue, AnswersAreTrue
  <2>2. ASSUME NEW p \in Requests \ {q} PROVE PhaseOf(p)' = PhaseOf(p)
    BY <1>2 DEF Enqueue, PhaseOf, Active, ActiveAt, TypeOK
  <2>3. PhaseOf(q) = "new" /\ PhaseOf(q)' = "waiting"
    BY <1>2, <2>1 DEF Enqueue, PhaseOf, TypeOK
  <2>4. SlotPools!Join(q)
    BY <1>2, <2>2, <2>3 DEF Enqueue, SlotPools!Join
  <2> QED
    BY <2>4 DEF SlotPools!PoolNext
<1>3. ASSUME NEW q \in Requests, TryGrantTaken(q) PROVE Goal
  <2> DEFINE r == Call[q].resource
  <2>1. ASSUME NEW p \in Requests \ {q} PROVE PhaseOf(p)' = PhaseOf(p)
    BY <1>3 DEF TryGrantTaken, PhaseOf, Active, ActiveAt, TypeOK
  <2>2. PhaseOf(q) = "waiting"
    BY <1>3 DEF TryGrantTaken, PhaseOf
  <2>3. PhaseOf(q)' = "holding"
    BY <1>3, ExpiryTyped DEF TryGrantTaken, PhaseOf, Active, ActiveAt, TypeOK
  <2>4. Cardinality(SlotPools!HoldersOf(r)) < resource[r].capacity
    BY <1>3, HoldersAreActive DEF TryGrantTaken, MayGrant, HasRoom
  <2>5. ASSUME NEW t \in Requests, Call[t].resource = r, PhaseOf(t) = "waiting"
        PROVE  ~SlotPools!Better(t, q)
    <3>1. t \in Waiting(r)
      BY <2>5, PhaseByRow DEF Waiting
    <3>2. t = q \/ Before(q, t)
      BY <1>3, <3>1 DEF TryGrantTaken, MayGrant, IsHead
    <3>3. /\ Call[t].priority \in Int /\ Call[q].priority \in Int
          /\ requestedAt[t] \in Nat /\ requestedAt[q] \in Nat
      BY CallsAreTyped DEF TypeOK
    <3> QED
      BY <3>2, <3>3 DEF SlotPools!Better, Before
  <2>6. SlotPools!Grant(q)
    <3> DEFINE P == [p \in Requests |-> Call[p].resource]
               H == [p \in Requests |-> PhaseOf(p)]
               C == [s \in Resources |-> resource[s].capacity]
    <3>1. P[q] = r /\ H[q] = "waiting" /\ C[P[q]] = resource[r].capacity
      BY <2>2, CallTyped
    <3>2. SlotPools!Cardinality(SlotPools!HoldersOf(P[q])) < C[P[q]]
      BY <2>4, <3>1, SameCardinality
    <3>3. \A t \in Requests : P[t] = P[q] /\ H[t] = "waiting" => ~SlotPools!Better(t, q)
      BY <2>5
    <3>4. H' = [H EXCEPT ![q] = "holding"]
      BY <2>1, <2>3
    <3>5. requestedAt' = requestedAt /\ C' = C
      BY <1>3 DEF TryGrantTaken
    <3> QED
      BY <3>1, <3>2, <3>3, <3>4, <3>5 DEF SlotPools!Grant
  <2> QED
    BY <2>6 DEF SlotPools!PoolNext
<1>4. ASSUME requestedAt' = requestedAt, now' = now, entry' = entry, lease' = lease
      PROVE  Goal
  <2>1. ASSUME NEW p \in Requests PROVE PhaseOf(p)' = PhaseOf(p)
    BY <1>4 DEF PhaseOf, Active, ActiveAt
  <2>2. [s \in Resources |-> resource'[s].capacity] \in [Resources -> Nat]
    <3> SUFFICES ASSUME NEW s \in Resources PROVE resource'[s].capacity \in Nat
      OBVIOUS
    <3>1. resource'[s] \in ResourceDefs
      BY DEF TypeOK
    <3> QED
      BY <3>1, CapacitiesAreOK DEF ResourceDefs
  <2>3. SlotPools!Resize
    BY <1>4, <2>1, <2>2 DEF SlotPools!Resize
  <2> QED
    BY <2>3 DEF SlotPools!PoolNext
<1>5. ASSUME requestedAt' = requestedAt, resource' = resource,
             \A q \in Requests : ~TryGrantTaken(q),
             \A p \in Requests :
               \/ entry'[p] = entry[p]
               \/ entry[p] = "waiting" /\ entry'[p] \in {"cancelled", "expired"}
      PROVE  Goal
  BY <1>5, EntryLeaves, LeavingIsAPoolStep
<1>6. ASSUME NEW q \in Requests,
             \/ EnqueueFails(q) \/ Watch(q) \/ TryGrantGone(q) \/ Wake(q)
             \/ Timer(q) \/ GiveUp(q) \/ AbandonFails(q) \/ TryGrantRefused(q)
      PROVE  Goal
  BY <1>4, <1>6
  DEF EnqueueFails, Watch, TryGrantGone, Wake, Timer, GiveUp, AbandonFails, TryGrantRefused
<1>7. ASSUME NEW r \in Resources, NEW def \in ResourceDefs, Define(r, def) PROVE Goal
  BY <1>4, <1>7 DEF Define
<1>8. CASE Crash
  BY <1>4, <1>8 DEF Crash
<1>9. ASSUME NEW c \in Channels, Signal(c) PROVE Goal
  BY <1>4, <1>9 DEF Signal
<1>10. CASE UNCHANGED vars
  BY <1>4, <1>10 DEF vars
<1>11. CASE \E q \in Requests : TryGrantTaken(q)
  BY <1>3, <1>11
<1>12. CASE \A q \in Requests : ~TryGrantTaken(q)
  <2> USE <1>12
  <2>1. ASSUME NEW q \in Requests, Abandon(q) PROVE Goal
    BY <1>5, <2>1 DEF Abandon, ResolveEntries
  <2>2. ASSUME NEW q \in Requests, Renew(q) \/ Release(q) PROVE Goal
    BY <1>5, <2>2 DEF Renew, Release
  <2>3. ASSUME NEW q \in Requests, Cancel(q) PROVE Goal
    BY <1>5, <2>3 DEF Cancel, ResolveEntries
  <2>4. ASSUME NEW a \in Agents, NEW at \in Past, ReleaseEverythingHeldBy(a, at)
        PROVE  Goal
    BY <1>5, <2>4 DEF ReleaseEverythingHeldBy, ResolveEntries
  <2>5. ASSUME NEW r \in Resources, NEW at \in Past, FreeResource(r, at) PROVE Goal
    BY <1>5, <2>5 DEF FreeResource
  <2>6. ASSUME NEW r \in Resources, ClearQueue(r) PROVE Goal
    BY <1>5, <2>6 DEF ClearQueue, ResolveEntries
  <2>7. ASSUME NEW at \in Past, ReapExpired(at) PROVE Goal
    BY <1>5, <2>7 DEF ReapExpired
  <2>8. CASE Tick
    BY <1>5, <2>8 DEF Tick
  <2> QED
    BY <1>1, <1>2, <1>6, <1>7, <1>8, <1>9, <1>10, <2>1, <2>2, <2>3, <2>4, <2>5,
       <2>6, <2>7, <2>8 DEF Next, CallStep
<1> QED
  BY <1>11, <1>12

\* The service implements a pool of slots: by priority and then arrival, within
\* capacity, each request once, and never again after it has left.
THEOREM LeasingImplementsSlotPool == Spec => ImplementsSlotPool
<1>1. Init => SlotPools!PoolInit
  <2> SUFFICES ASSUME Init PROVE SlotPools!PoolInit
    OBVIOUS
  <2>1. ASSUME NEW q \in Requests PROVE PhaseOf(q) = "new"
    BY DEF Init, PhaseOf
  <2>2. [r \in Resources |-> resource[r].capacity] \in [Resources -> Nat]
    BY CapacityTyped DEF Init
  <2> QED
    BY <2>1, <2>2 DEF Init, SlotPools!PoolInit
<1>2. TypeOK /\ TypeOK' /\ AnswersAreTrue /\ [Next]_vars
        => [SlotPools!PoolNext]_(SlotPools!poolVars)
  BY PoolStep
<1> QED
  BY <1>1, <1>2, TypeCorrect, AnswersTrue, PTL
  DEF Spec, ImplementsSlotPool, SlotPools!PoolSpec

============================================================================
