------------------------------ MODULE SlotPool ------------------------------
(***************************************************************************)
(* What the lease service promises (internal/service/leasing/leasing.go,   *)
(* package comment): a pool of slots per resource, a request that waits,   *)
(* holds at most one slot and is then gone for good, a capacity no grant   *)
(* exceeds, and no grant while a better request waits.  No tables, no      *)
(* clock, no goroutines.                                                   *)
(***************************************************************************)
EXTENDS Integers, FiniteSets

CONSTANTS
  Pools,     \* the resources
  Users,     \* the requests
  Pool,      \* the resource each request is for
  Rank       \* the priority of each request

VARIABLES
  phase,     \* where each request has got to
  arrival,   \* when each request asked
  capacity   \* slots of each pool

poolVars == <<phase, arrival, capacity>>

Phases == {"new", "waiting", "holding", "gone"}

HoldersOf(r) == {u \in Users : Pool[u] = r /\ phase[u] = "holding"}

\* t is to be served before u.
Better(t, u) ==
  \/ Rank[t] > Rank[u]
  \/ Rank[t] = Rank[u] /\ arrival[t] < arrival[u]

PoolInit ==
  /\ phase = [u \in Users |-> "new"]
  /\ arrival \in [Users -> Nat]
  /\ capacity \in [Pools -> Nat]

\* A request asks.  Once it has joined the queue its place is fixed.
Ask(u) ==
  /\ phase[u] = "new"
  /\ arrival' \in [Users -> Nat]
  /\ \A t \in Users \ {u} : arrival'[t] = arrival[t]
  /\ UNCHANGED <<phase, capacity>>

Join(u) ==
  /\ phase[u] = "new"
  /\ phase' = [phase EXCEPT ![u] = "waiting"]
  /\ UNCHANGED <<arrival, capacity>>

Grant(u) ==
  /\ phase[u] = "waiting"
  /\ Cardinality(HoldersOf(Pool[u])) < capacity[Pool[u]]
  /\ \A t \in Users : Pool[t] = Pool[u] /\ phase[t] = "waiting" => ~Better(t, u)
  /\ phase' = [phase EXCEPT ![u] = "holding"]
  /\ UNCHANGED <<arrival, capacity>>

\* Requests that wait or hold leave, several at a time if need be.
Leave(S) ==
  /\ \A u \in S : phase[u] \in {"waiting", "holding"}
  /\ phase' = [u \in Users |-> IF u \in S THEN "gone" ELSE phase[u]]
  /\ UNCHANGED <<arrival, capacity>>

Resize ==
  /\ capacity' \in [Pools -> Nat]
  /\ UNCHANGED <<phase, arrival>>

PoolNext ==
  \/ \E u \in Users : Ask(u) \/ Join(u) \/ Grant(u)
  \/ \E S \in SUBSET Users : Leave(S)
  \/ Resize

PoolSpec == PoolInit /\ [][PoolNext]_poolVars

============================================================================
