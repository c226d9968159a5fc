# lac: a verification development

`lac` coordinates agents that share one machine. A daemon, `lacd`, keeps its state in SQLite and
answers JSON-RPC over a Unix socket; agents reach it through the `lac` command, an MCP server or
the client library. Its central promise is small and hard to test: scarce things (a test machine, a
review slot) have a capacity, requests for them queue, and nobody is forgotten when a caller, a
worker or the daemon itself goes away. This directory models that promise in TLA+, checks it with
TLC on small instances and proves its invariants and action properties with TLAPS for all instances.

`PROJECT.json` maps every definition to the lines it models, and lists runs, mutants, findings,
hazards and theorems.

## The system

### Components

| component | state | operations | interacts with |
|---|---|---|---|
| leasing (`internal/service/leasing`) | `resources`, `queue_entries`, `leases`; one broadcast channel per resource in memory | Acquire, Renew, Release, Cancel, ReleaseEverythingHeldBy, FreeResource, ClearQueue, ReapExpired, Define | API handlers, housekeeping, configuration reload |
| dispatch (`internal/service/dispatch`, `cmd/lac/worker.go`) | `tasks`; the command catalogue; channels `arrivals` and `outcomes` | Submit, WaitForWork, Claim, AppendOutput, Complete, Cancel, Await, ReleaseAbandoned | leasing (a claim names a lease), registry, housekeeping |
| registry (`internal/service/registry`) | `agents` | Register, Heartbeat, Deregister, Evict, ReapStale | authentication, housekeeping |
| authentication (`internal/auth`) | `credentials` | Issue, Authenticate, Revoke | registry, API |
| messaging (`internal/service/messaging`) | `messages`, `deliveries`, `subscriptions` | Send, Inbox, Acknowledge, Subscribe, Unsubscribe, PruneExpired | registry (who is there), sessions (push), Telegram bridge |
| reporting (`internal/service/reporting`) | `report_requests`, `reports` | Request, Submit, Collect | messaging |
| pull request watcher (`internal/service/prwatch`, `internal/github`) | `watches`, `watch_subscribers`, `watch_events`; last observation, failures in a row; cached tokens | Watch, Unwatch, Refresh, Sweep, Await | `gh`, messaging |
| configuration reload (`internal/daemon/reload.go`) | fingerprint loaded, candidate, quiet reads | the file watcher; what a reload applies | leasing (Define), dispatch (catalogue) |
| JSON-RPC server (`internal/transport/jsonrpc`) and client (`pkg/lacclient`) | sessions, calls in flight; calls that wait for an answer | accept, read loop, dispatch, hang up, shutdown | all services |
| Telegram bridge (`internal/transport/telegram`) | update offset | forward, poll, commands | messaging |
| daemon lifecycle (`internal/daemon`, `internal/singleton`) | the lock file, the order of start-up and shutdown | New, Run, Close, housekeeping | everything |

The API handlers, the MCP server, the command line, the socket transport and the store itself carry
no protocol state of their own; `PROJECT.json` says of each what is modelled of it, or why nothing
is.

### What is hard

- **Look, then sleep.** Acquire, WaitForWork, Claim and Await loop: take a channel, look at the
  database, sleep until the channel closes. A change committed between the look and the sleep must
  still wake the sleeper, and every commit that matters must be followed by a broadcast on the right
  channel. The timers in those loops are documented as safety nets, "not the mechanism".
- **Check, then act, in two statements.** SQLite runs one writer at a time and a transaction is
  atomic, but Cancel, AppendOutput, Complete, ReleaseAbandoned, ReapStale and Inbox read in one
  statement and write in another.
- **Somebody goes away.** A caller gives up while it is being granted; a worker is killed,
  interrupted or taken for dead while alive; the daemon dies between two statements.
- **Time.** A lease runs out without any code running; the reaper, a renewal and a new grant race.
- **Two ends of a wire.** A connection is closed by either end, or by a shutdown, while calls are
  being read, run and answered; each end must notice, and neither may wait for the other for ever.
- **Somebody else's truth.** GitHub, Telegram and the configuration file change while they are read.
  What was read is stored, compared with what was known and announced in separate steps.

### What makes each part correct

- Leasing: capacity is never exceeded by a grant; the queue is served by priority and arrival; a
  call is answered with a lease exactly when one was created; no wake-up is lost; a free slot does
  not stay unused.
- Dispatch: a finished task never changes; a running task names a worker that has it in hand or is
  going; no wake-up is lost; what an active worker has in hand is finished or comes back.
- Registry: one active agent per name; a retired agent can do nothing; what a vanished agent held
  is released.
- Messaging: a message stays, unacknowledged, until each recipient acted on it, whatever restarts and
  prunings come between; the log's counts are true. Bridge: what is addressed to it is tried on the
  phone; an update that Telegram forgot was handled. Reporting: the last answer wakes the collector,
  and silence holds it no longer than the deadline.
- Watcher: a subscriber that read its messages knows what the watch saw; an outage is announced once
  and so is its end; whatever failed, a readable pull request is observed again; waiters are woken.
- Reload: only a valid configuration runs; a settled edit is applied; the store follows what is
  declared. Server: no call starts once shutdown has decided that none is left; shutdown returns;
  every call ends at its client.

## The plan

1. `Leasing` with its abstract specification `SlotPool`, and `LeasingProofs`. *Done.*
2. `Dispatch`: tasks, the worker loop and the sweep that takes work back. *Done.*
3. `Registry`: names, process ids, tokens, the races of ReapStale, eviction and late calls, with the
   slots an agent holds, and `RegistryProofs`. *Done.*
4. `Messaging` with the Telegram bridge as one of its readers, and `Reporting`, the bridge's poll
   loop and the collection of reports, on top of it. *Done.*
5. `PullRequests`, the pure part of the pull request watcher, and `PrWatch` over it. *Done.*
6. `Server`: connections, calls in flight, hang-ups and shutdown, with the client at the other end.
   *Done.*
7. `Reload`: the file watcher and what a reload applies. *Done.*
8. Proofs of every invariant and action property the runs check: `DispatchProofs`,
   `MessagingProofs`, `ReportingProofs`, `ServerProofs`, `ReloadProofs`, `PrWatchProofs`. *Done.*

## The modules

### `Leasing` (component `leasing`)

State: `resource` is the `resources` table; `requestedAt`, `entry` and `lease` are the columns of
`queue_entries` and `leases` that queries read; `pc` is where each Acquire goroutine is; `woken` says
whether the channel a call took from `waiters.watch` has been closed; `pending` counts, per channel,
the broadcasts that committed operations still owe. A grant creates exactly one lease for its entry,
so one request identifies the call, the entry and the lease.

An Acquire call is `Acquire` (read the clock), `Enqueue` (insert), then `Watch`, one of
`TryGrantGone`, `TryGrantTaken`, `TryGrantRefused` (the transaction in `tryGrant`), and a sleep left
by `Wake`, `Timer` or `GiveUp`; `Abandon` is the deferred leave-taking. The other operations are one
action each. Their transaction is one step and their broadcast another (`Signal`), because other
goroutines run in between. Operations that read the clock before their transaction take any earlier
reading, `at \in Past`. `Crash` ends every call and every owed broadcast and redefines resources, as
start-up does. Audit entries, logging, validation errors without effect and read-only queries are
left out.

`SlotPool` is what the package promises, without tables, clock or goroutines: requests that wait,
hold one slot and are gone; a capacity; no grant past a better request. `Leasing` implements it with
`phase` computed from `entry`, `lease` and the clock: a lease that ran out has left the pool at that
instant, whether or not the reaper has seen it.

### `Dispatch` (components `dispatch`, part of `registry` and `housekeeping`)

One resource. `task` is the `tasks` table with the output reduced to the set of workers that wrote
it; `worker` is the `lac worker` loop and the daemon's side of the call it is in; `agent` and `held`
are the worker's row in the registry and whether it holds a live lease, which is all dispatch sees
of leasing. `await` and `cancel` are calls of requesters. `sweep` is the housekeeping pass over stale
workers. `arrival` and `outcomes` are owed broadcasts; a Boolean and a set are enough, because
broadcasting twice is broadcasting once.

`Beating` are the workers that send heartbeats. `lac worker` is not one of them: nothing in
`cmd/lac/worker.go` beats, and no call counts as a beat, so the sweep marks it stale in the middle of
its work, gives its slot back and puts its task back in the queue, while it goes on working and
calling. A program that beats and claims work through the API is in `Beating`, and stale only when it
is gone or late (`"silence"`).

Methods that read and then update are two actions (`CancelRead`/`CancelFinish`,
`OutputRead`/`OutputWrite`, `CompleteRead`/`CompleteFinish`, `RunningTasksOf`/`Requeue`). The
update's guard is the statement's WHERE; that neither UPDATE of a worker's report names the worker is
therefore in the model. A call that the daemon still handles when its worker is killed counts as
handled before the death: what may happen in between (staleness, a lapsed slot, a successor) happens
to live workers too. `Mishaps` selects what may go wrong, so that a question can
be asked with the faults it is about. Giving slots back and retiring the agent, two calls in
`Evict` and in the worker's leave-taking, are one step here: the calls that can fall between them
concern leases and are in `Registry`.

### `Registry` (components `registry`, `authentication`, part of `housekeeping` and of the handlers)

`agent` is the `agents` table with the process that owns each row (its process id) and whether its
last heartbeat is older than the time to live; `credential` is the `credentials` table, where Store
replaces a token and Revoke ends it; `lease` is the slot an agent holds, with as much of its life as
a renewal can see. `proc` is a client process: whether it lives, the agent its connection was bound
to (`SetAgentID`), the token it was given and the call the daemon is running for it. `retire` is how
far Deregister or Evict has got, `found` and `marked` are the agents ReapStale has selected and has
marked.

The steps are statements. Registering is the transaction (`RegisterNew`, `RegisterReclaim`) and then
the token (`Issue`, `IssueFails`); authenticating reads the credential and then the agent; a call is
checked (`Begin`) and takes effect later; retiring gives slots back, marks the row and revokes the
token, and may fail after each; the sweep selects, marks one by one and releases one by one, and may
fail before each. A killed process leaves its last call with the daemon until the connection is seen
closed (`Disconnect`). The unique index on active names is the second conjunct of `Beatable`. An
agent has one slot at most and a process one call at a time, beside the retirement; process ids are
taken as honest and are not reused.

### `Messaging` (components `messaging`, `telegram bridge`)

`roster` is the `agents` table as far as addressing reads it; `kept`, `to`, `delivered` and `acked`
are `messages` and `deliveries`; `subscribers` is one topic's `subscriptions`. A send is a
transaction (`Send`, with `Recipients` and `AppendMessage`), and then, still on the sender's
goroutine, the notification: for the bridge that is a reading of its own inbox, a mark, an attempt
on every chat and an acknowledgement, message by message (`RelayRead`, `RelayMark`, `Forward`,
`RelayAcknowledge`), all under one deadline of thirty seconds: a chat that hangs uses it up, and the
rest of the batch is neither tried nor acknowledged (`RelayTimesOut`). The pauses between sends are
100 ms and do not. `owed` and `relay` say where each send is, so several run side by side. An agent
reads (`InboxRead`), the call marks (`InboxMark`), and the agent acts (`Act`) and acknowledges what it
acted on (`Acknowledge`); `shown` and `dealt` are the agent's own memory. `Prune` is housekeeping.
`Restarts` is an agent's process that comes back without its memory, `Crash` the daemon's.

The message body, its kind and reply id are data. Pushes to connected agents repeat what the inbox
holds and are left out. The daemon sets no time to live on messages, so none expires.

### `Reporting` (components `reporting`, `telegram bridge`), over `Messaging`

`forgotten`, `offset`, `batch` and `handled` are Telegram's side and the loop's side of the update
offset. The loop handles one update at a time; a `/report` lists the agents present (`List`), stores
the request, asks each of them (`Ask`, which is a `Send`), and collects: `Watch`, `Snapshot`, then
`Return` or `Sleep`. `Submit` stores an answer and `Signal` closes the channel in another step.
`CrashAll` loses the loop with the daemon; Telegram delivers again what was not confirmed.

### `PullRequests` and `PrWatch` (components `pull request watcher`, `github client`)

`PullRequests` is pure: what the query brings and decoding keeps of a pull request (`Observation`:
state, draft, head, the state of the checks, the comments, reviews and conversations), and
`ChangesBetween` two observations. The query asks for the latest 30 comments, 20 reviews, 50
conversations and 100 checks and the first 20 replies of a conversation; these windows are constants,
and `Newest` is what a window shows. The reference definition is the reader's: `Heard` is what a
message tells its reader, and `SameStory` what a reader should know of an observation. GitHub itself
is `RawPulls` and `MovesOn`: an edit may change anything, but no review goes, and of a review only
the verdict can change, by being dismissed (`Became`).

`PrWatch` has the world (`hub`, `sees`, `up`, `signedIn`), the client's token cache (`token`), the
tables (`rows`, `subs`), one call per agent and the poll that holds the service's lock. A poll is
`Sweep` or `Refresh`, `Ask` (all that `read` does with the accounts is one reading of the world),
`Observed`, `NotObserved` or `Vanished`, then `Tell` change by change to whoever is subscribed at that
moment, and `Signal`. A message is sent to the name of the subscriber: one whose name another agent
carries meanwhile (`away`) is not reached, nor is one for whom the send fails (`SendFails`), and a
change that cannot be appended is told to nobody (`AppendFails`); the code logs each and goes on. Watching is create, subscribe, refresh, and `Delete` when the first reading
fails. `knows`, `outages` and `missed` are what was announced. The length of a back-off is left out:
a watch may be due at any time.

### `Server` (components `json-rpc server`, `client library`, part of `daemon lifecycle`)

Per connection: where its goroutine is (`phase`: in the listener's backlog, accepted, reading, holding
a request until there is room, ending, gone), the calls it runs, and the wires in both directions;
per client: what it sent, what still waits, whether it closed. `Read`, `Begin` and `GiveUp` are the
read loop around the limit of calls in flight; `Finish` is a handler that returns and its reply.
`Signal` cancels the context that every session descends from; `StopListening`, `Shutdown`, `Drained`,
`CloseSessions` and `Stopped` are the steps of `Run` and `Shutdown`, with the grace period that may
run out. A call that `parks` is an Acquire that waits; `garbage` ends its connection.

### `Reload` (component `configuration reload`)

`file` and `private` are the configuration file as it is, `running` the daemon's configuration,
`defined` the resources in the store, `watch` the local variables of `watchConfiguration`, `job` the
reload that the watcher, the hang-up handler or an API call is in: load, swap under the lock, define.
`Loads` is `config.Load` for a file named explicitly: there, private, parsed and valid, with the
default time to live and the check on duplicates that `Validate` makes. A fingerprint is the content
itself; the zero fingerprint equals no reading.

## The runs

| run | result | what it shows |
|---|---|---|
| `leasing_pool` | pass | NoLostWakeup, WithdrawnIsTold, AnswersAreTrue, GrantsWithinCapacity, types and the refinement to `SlotPool`, over four instants and two times to live: late renewals, late reaps and clean-ups with an old clock reading, operators, crashes and failed clean-ups |
| `leasing_liveness` | pass | SlotNotLeftIdle: three calls, one impatient and of higher priority; nobody waits for ever beside a free slot, without the timer |
| `dispatch_safety` | pass | RunsAreOwned, FinishedStays, RequestersAreWoken and types, under false deaths, failing housekeeping, removed commands and crashes |
| `dispatch_liveness` | pass | WorkersAreWoken, AbandonedIsRequeued, EveryTaskFinishes: a worker that never beats and one that does, kills, interruptions, evictions and a cancellation |
| `registry_roster` | pass | OneActivePerName, OwnIdentity, RetiredStaysOut and types: two processes after one name, two rows, failures part way and crashes |
| `registry_departed` | pass | NameIsFreed, DepartedHoldNothing: a process that dies or is retired with calls in progress leaves neither its name taken nor a slot held for ever |
| `messaging` | pass | NotLost, LogCountsAgree, BridgeHears and types: two agents and the bridge, letters to a name, to all and to a topic, a departure, a silence, a relay that fails or runs out of time, or a crash |
| `reporting` | pass | ForgottenIsHandled, CollectorIsWoken, BatchIsWorkedThrough: a `/report`, a `/broadcast` and a stranger's message; agents that answer, do not, or leave |
| `prwatch` | pass | SubscribersKnow, OutageIsToldOnce, SeenIsObserved, WaitersAreWoken and types: two agents, two accounts, an edit of every kind that runs over every window, and one upset of each kind |
| `server` | pass | NoLateCall, ShutdownReturns, GoneIsNoticed, CallsEnd and types: parked calls up to the limit and beyond, refused and unreadable requests, hang-ups and a signal at any moment |
| `reload` | pass | ResourcesFollow, SettledIsApplied, and that only a valid configuration runs: three edits, a missing, a half-written and a refused file, a reload on request, an upset |
| `server_patience` | violation | SecondSignalKills: a connection accepted while shutdown closes the sessions holds the daemon, and a second signal does nothing |

The violation is a disagreement between comments and code, quoted under `findings`. Eight more
configurations are kept for the reader; each fails, and shows a place where a comment or a test
promises more than the code does:

| configuration (module) | property | what fails |
|---|---|---|
| `Leasing_orphan.cfg` (`MCLeasing`) | NotLeftBehindTheGone | abandon takes a request away "so the agents behind it are not left waiting for somebody who is no longer there" (`leasing.go:678`). The entry of a call that died with the daemon stays 'waiting', neither start-up nor housekeeping resolves it while its agent beats, and it blocks the queue |
| `Dispatch_cancelled.cfg` (`MCDispatch`) | RunningIsLeftToFinish | "A task already running is left to finish" (`dispatch.go:396`). A task claimed between Cancel's read and its update is cancelled while it runs, and its worker ends with a conflict |
| `Dispatch_overtaken.cfg` (`MCDispatch`) | OnlyItsWorkerFinishes | Complete refuses a worker when the task "is being run by another worker" (`dispatch.go:377`). The UPDATE that follows names only the state (`tasks.go:130`), so a worker marked stale between the two finishes the run of its successor |
| `Dispatch_unheard.cfg` (`MCDispatch`) | NothingIsStranded | "A worker that went away mid-task leaves work that still needs doing" (`services.go:176`). StaleBefore selects active agents only (`agents.go:218`); `lac worker` sends no heartbeat, is marked stale, goes on calling, and when it dies with a task nobody looks at it again |
| `Messaging_leftover.cfg` (`MCMessaging`) | EverythingIsTried | forwarding a message "is how an agent reaches the operator's phone" (`bridge.go:246`). What a relay leaves behind, because reading the inbox failed or its deadline passed in a chat that hangs, is tried only when another message arrives |
| `Registry_revived.cfg` (`MCRegistry`) | RetiredStays | "its token stops working at once, so its next call fails" (`registry.go:258`). ReapStale marks what it selected without looking again, so an agent evicted in between becomes stale, and may call |
| `Server_grace.cfg` (`MCServer`) | AnsweredInGrace | a running call "gets to finish and its caller gets the answer" (`daemon/reload_test.go:326`). The signal ends every session's context, and `session.write` drops what is written after that (`session.go:99`) |
| `Reload_undone.cfg` (`MCReload`) | SettledIsRunning | a change is reloaded "three restart delays after the last edit" (`config.go:64`). An edit between config.Load and the watcher's first reading, or one undone after a reload on request, equals what the watcher believes is loaded and is never applied |

Other places where the code does less than one may expect; the properties say so where they leave
them out:

- *Dispatch.* A task that fails because its command was removed (`TryClaimRemoved`) does not wake its
  requester, and the patient worker that failed it goes to sleep although another task may be queued;
  the recheck timer is what helps both. Neither Deregister nor Evict puts a worker's task back. Claim
  verifies the lease before it waits for work. AppendOutput and Complete check the worker in one
  statement and write in another that does not, so a worker taken for dead can write into its
  successor's output, and end its successor's run.
- *Registry.* `core.Agent` says a name is unique among agents that are not deregistered; it is unique
  among active ones.
- *Messaging and bridge.* Retention counts from `created_at`, not from the acknowledgement. The bridge
  acknowledges what it failed to forward, does not read its inbox when it starts, and two sends at
  once may forward one message twice. As long as a chat hangs, each arrival tries the oldest message
  only. Subscriptions of agents that left go on collecting messages.
- *Reporting.* After a crash an update may be handled twice. The question is addressed by name, so a
  successor may receive it.
- *Watcher.* A verdict that is dismissed after it was seen is not announced: `reviewChanges` skips
  reviews whose id it knows (`changes.go:147`), so "had a review dismissed on" (`changes.go:171`) is
  said only of a review that was dismissed before it was first seen. `SameStory` therefore asks that
  the reader knows the verdict, not that it was dismissed. Likewise nobody is told of a conversation
  or a comment that is deleted, and a conversation that is resolved when it is first seen is announced
  as any other ("unsaid"). What falls out of a window of the query between two polls is never
  announced; what a later deletion brings back into it is announced as new. A message to a subscriber
  goes to its name, and failures to append or to send are logged and forgotten. Await may return an observation whose reading began before the wait. A watch read
  through an account that is signed out since does not fall through to the others, although `read`
  means it to (`prwatch.go:374`). A caller that hangs up, or a crash, while changes are told loses
  the rest. A waiter on a watch that is deleted is woken by nobody. The Delete after a failed first
  reading takes the subscriptions of other agents with it.
- *Server.* A connection at its limit of parked calls is not read, so its end is not noticed
  (against `session.go:26`).
- *Reload.* Reloads are not serialised, and the one that swaps last may be the one that loaded first;
  a resource the store refused is not tried again. Settings read once at start (`reload.go:36`) are
  replaced in the configuration without effect. A resource defined through the API while a reload
  runs is overwritten, or overwrites, silently; that call is not in the model.

### Bounds

- `MaxTime` stops the clock. With a time to live of 1, instants 0 and 1 already contain a grant, its
  expiry, a successor's grant and a late renewal; `leasing_pool` uses four instants and times to live
  1 and 2, so that a lease can be renewed, lapse and be reaped with an old reading.
- `MaxPending = 1`: an operation that can be repeated without end (define, clear, evict, release of a
  released lease) starts only when no broadcast is owed on any channel; operations that use up their
  request are not bounded, so several broadcasts can be owed at once. Broadcasts are idempotent for
  a sleeper, hence more of them add no new outcome.
- Three calls are the fewest with a head, a follower and one that overtakes; two workers are the
  fewest with a successor for the one that dies. A run produces one chunk of output. Two tasks with
  a removed command are left out: a worker can then sleep beside work, as said above. In
  both runs `w1` never beats and `w2` does; in `dispatch_safety` `w2` may be late. Faults and crashes
  are left out of `dispatch_liveness`: after a sweep that was cut short, an agent that is stale
  already is not swept again. Leaving, being evicted and being killed are left to it, as is a
  cancellation; the theorems below have all of them together.
- `MaxIds = 2` rows are the fewest with which a name changes hands: one agent goes stale or is
  retired and another, or the same process again, takes the name. `registry_departed` follows one
  process through two identities; its heartbeats are left to `registry_roster`.
- `Alike` permutes the processes of `registry_roster`, which are of one kind.
- `MaxMessages = 2` with three agents gives overlapping sends to one reader and a message to several;
  `MaxMishaps = 1` any one departure, silence, failure or crash, at any moment. `InboxLimit = 2` lets
  one reading take everything: what a limit leaves behind is a limit of the code and excluded.
- `MaxRequests = 2` lets a crash be followed by the same `/report` again.
- `prwatch`: one pull request, one edit of every part at once (or of the state and the draft mark),
  windows of two and three with three comments, conversations and checks and four reviews, so that
  the first of each list falls out; two rows so that a watch can be deleted and created again under a running poll, one upset of each
  kind at any moment. `FailureCap` joins all counts of failures beyond the first.
- `server`: `Limit = 2` with three calls fills a connection and holds a request; a second connection
  ends by itself. One signal in the passing run; the second one is the question of the violation.
- `reload`: `StableChecks = 3` as in the code; three edits are the fewest in which a file changes,
  is undone and changes again while it is being counted.

Deadlock is not checked: when every call has been answered, or every task is finished and no worker
is left, the system rightly stops.

### Fairness

A goroutine that can run is eventually run (`CallStep`, `WorkerStep`, `AwaitStep`); a goroutine that
committed also broadcasts (`Signal`, `SignalArrivals`, `SignalOutcome`); the housekeeping ticker
fires every ten seconds (`ReapExpired`, `SweepStep`). The lease of a worker that is gone runs out
(`Lapse`), since nobody renews it. All weak, with two exceptions: in `Registry`
the sweep may fail part way again and again, and `MarkStale` is strongly fair, which says that the
store does not refuse the same update for ever. `Registry` also lets time pass (`BeatAges`,
`LeaseAges`, `LeaseExpires`). A send runs to its end, the bridge's part included (`Relay`); the poll
loop runs and deadlines pass (`Handle`, `DeadlinePasses`). A watch comes due and the ticker sweeps it:
`Sweep` and `Refresh` are the other strongly fair actions, because they queue for a Go mutex, which serves a waiter
before long; an outage of GitHub ends (`Back`). Server goroutines run and sockets deliver; a handler
returns, and one that parks only once its context ends. The configuration watcher ticks and a reload
that began goes on. Nothing is assumed of clients, of operators, of mishaps, nor of the
timers in the wait loops: the code calls those a safety net, and the runs check that it is not
needed.

### Mutants

Each property of a passing run has a plausible mistake in the code that breaks it: a dropped WHERE
clause, a missing broadcast, a wrong sort order, a check that is left out. They are
the definitions marked "Mistake:" in the modules, next to the definition they would replace.

## The proofs

`LeasingProofs` proves, for any agents, resources, finitely many requests, capacities, times to live
and bounds:

| theorem | statement |
|---|---|
| `TypeCorrect` | `Spec => []TypeOK` |
| `AnswersTrue` | `Spec => []AnswersAreTrue` |
| `WakeupsNotLost` | `Spec => []NoLostWakeup` |
| `WithdrawnCallsTold` | `Spec => []WithdrawnIsTold` |
| `CapacityRespected` | `Spec => GrantsWithinCapacity` |
| `LeasingImplementsSlotPool` | `Spec => ImplementsSlotPool` |

Assumptions are those named in `Leasing`: requests are a finite set of naturals, calls are typed,
capacities and times to live are positive (as `core.Resource.Validate` demands).

`AnswersAreTrue` is inductive together with `TypeOK`. `WithdrawnIsTold` needs `AnswersAreTrue`, which
says where a call can be when its entry is not waiting. `NoLostWakeup` is the interesting one: a step
that makes `MayGrant(q)` true for a sleeper must either owe a broadcast or be the clock passing the
end of a lease. The step lemma goes action by action; the heart of it is that if room appears or the
head moves without a broadcast then some active lease on that resource ceased to be active without
being released, which only `Tick` can do, and then `Lapsed` holds. Arguments about room use
cardinality: a smaller set of active leases is the only way to room at an unchanged capacity.
`CapacityRespected` shows that the active leases grow only in `TryGrantTaken`, by one, under
`HasRoom`. The refinement maps each action to a step of `SlotPool` or a stutter; expiry, reaping and
every clean-up are `Leave` of the set whose phase changes.

`RegistryProofs` proves, for any processes, any names and any number of rows:

| theorem | statement |
|---|---|
| `RegistryTypeCorrect` | `Spec => []TypeOK` |
| `NamesAreUnique` | `Spec => []OneActivePerName` |
| `IdentitiesAreOwn` | `Spec => []OwnIdentity` |
| `RetirementIsFinal` | `Spec => RetiredStaysOut` |

It assumes that the calls are the three modelled and that there is a row (`AsksKnown`, `IdsExist`).
The inductive invariant is `RosterInv`: the two properties with `TypeOK` and `CallsNamed`, that a
call in progress has an agent. `CallsNamed` is what makes a heartbeat touch a row at all; the type of
the table depends on it, and so does the argument that the only steps that make a row active,
registering and beating, have looked whether the name is free. `OwnIdentity` rests on rows never
changing owner (`SetStateIs`) and on processes never coming to act for anyone new except through
their own registration (`OwnRow`).

`DispatchProofs` proves, for any workers, tasks, commands, capacity and mishaps:

| theorem | statement |
|---|---|
| `DispatchTypeCorrect` | `Spec => []TypeOK` |
| `FinishedIsFinal` | `Spec => FinishedStays` |
| `RunsHaveOwners` | `Spec => []RunsAreOwned` |
| `RequestersAreNotForgotten` | `Spec => []RequestersAreWoken` |
| `WorkersAreNotForgotten` | `Spec => []WorkersAreWoken` if neither `"fault"` nor `"reload"` is in `Mishaps` |

Each action is first summed up by what it does to one task row (`TaskLife`) and one Await call
(`AwaitLife`); the invariants are then shown from the summaries. `RunsAreOwned` is inductive with the
types. `RequestInv` adds that a task nobody claimed names no worker, which is what tells the failure
that owes no signal (a removed command) from the ones that owe one, and that only awaited tasks are
awaited. `WakeInv` adds `SweepPromises`: the sweep that holds tasks to put back has promised to
signal. Its two hypotheses are not for convenience. With a command removed, `tryClaim` fails the
task and reports no work although the next may be waiting; when a step of the sweep fails part way,
what it put back is not announced. In both cases the property is false, and the recheck timer is what
helps. Crashes, kills, evictions, cancellations and false deaths are all included.

`RunsAreOwned` does not say that only the worker a row names finishes the run, which is false
(`OnlyItsWorkerFinishes`, above).

`MessagingProofs` proves, for any agents, letters, numbers of messages and mishaps:

| theorem | statement |
|---|---|
| `MessagingTypeCorrect` | `Spec => []TypeOK` |
| `NoMessageIsLost` | `Spec => []NotLost` |
| `LogTellsTheTruth` | `Spec => []LogCountsAgree` |

`NotLost` needs to know what a relay is about to acknowledge. `DeliveryInv` says that a relay has a
bridge (`RelaysOnline`), that what it is about to acknowledge it has forwarded (`ForwardedFirst`,
the heart of it: the bridge may be behind by several messages and acknowledges the oldest), that
unused numbers have no deliveries, and that acknowledged is marked and marked is addressed
(`DeliveriesOrdered`), from which the counts of the log follow by cardinality.

`ReportingProofs` proves, for any sequence of updates, any agents and any number of requests:

| theorem | statement |
|---|---|
| `NothingForgotten` | `ReportingSpec => []ForgottenIsHandled` |
| `CollectorNotForgotten` | `ReportingSpec => []CollectorIsWoken` |
| `ReportsLoseNothing` | `ReportingSpec => []NotLost` |

`PhoneInv` says that a batch is a stretch of updates (`BatchIsStretch`) and that everything up to the
loop's offset, and before an update in hand, was handled or is in hand (`TakenUp`). `CollectInv` follows the
collector from taking the channel to being awake again: an answer its snapshot lacks has closed the
channel or is about to. The third theorem is the composition: a step of `Reporting` is a step of
`Messaging`, a stutter or a sent question (`ReportingSends`), so the step lemmas of
`MessagingProofs` serve again.

`ServerProofs` proves, for any clients and any programs of calls:

| theorem | statement |
|---|---|
| `ServerTypeCorrect` | `Spec => []TypeOK` |
| `NoCallBeginsLate` | `Spec => []NoLateCall` |

`TypeOK` of `Server` is itself a safety property: sessions are listed exactly while they are read,
and no connection runs more calls than the limit. `ServerInv` adds that what is read, held and
running was sent. `StoppedInv` adds that the server refuses calls from the first step of Shutdown on.

`ReloadProofs` proves, for any contents, reloaders and number of edits:

| theorem | statement |
|---|---|
| `OnlyUsableRuns` | `Spec => []TypeOK`, which says that what runs passes `config.Load` |
| `DefinitionsFollow` | `Spec => []ResourcesFollow` |

`ReloadInv` adds that what a reload is about to swap in is usable and `WatcherCounts`: the count
reaches `StableChecks` only in the step that reloads. `FollowInv` says of a daemon in which no two
reloads overlapped and the store refused nothing that one reload at a time defines, that what it
swapped in is what runs, and that the store holds what the configuration it replaced declared; so
comparing with the previous configuration is enough. The assumption on `Contents` is only that a
resource has a name, a capacity and a time to live.

`PrWatchProofs` proves, for any agents, pull requests, accounts, windows, edits and upsets:

| theorem | statement |
|---|---|
| `PrWatchTypeCorrect` | `Spec => []TypeOK` |
| `OutagesAreToldOnce` | `Spec => []OutageIsToldOnce` |
| `NothingIsLeftUntold` | `Spec => []SubscribersKnow` |

`OutageInv` rests on `RowIsCurrent`: while a poll is under way its row does not change, because polls
hold the lock, and a row that was deleted and created again has another number. `Pending` is what is
stored and not told yet; what was announced together with what is pending is whether the watch
fails. `NothingIsLeftUntold` is the largest proof. `WillKnow(known, changes, seen)` says that a reader
who knows `known` and is yet to hear `changes`, in whatever order, will know `seen`. `ChangesTellAll`
shows it for what `ChangesBetween` finds between any two observations of which the second is later
(part by part: `WillKnowThreads` is where a conversation that is already resolved comes in),
`HeardOneMore` that hearing one change keeps it, `KnowsAll` that it is `SameStory` when nothing is
left to hear. That observations come in order is `SnapshotsWereSeen` and `ViewWasSeen`, and this is
where `MovesOn` is needed, for the verdicts of reviews alone. A reader whom a message did not reach
knows nothing until it looks again, and a watch of which a change was not appended, or whose telling
was cut short, is left out: that is all the theorem excepts. The assumptions on constants are types: what GitHub has is a `RawPulls`,
the logins are a sequence of accounts.

`FirstOf` (a bounded set of numbers has a least element) is what makes some change the next to be
told. It is the one piece of induction: strict inclusion of finite subsets is well founded.

Only model-checked: liveness (`SlotNotLeftIdle`, `AbandonedIsRequeued`, `EveryTaskFinishes`,
`NameIsFreed`, `DepartedHoldNothing`, `BridgeHears`, `BatchIsWorkedThrough`, `SeenIsObserved`,
`WaitersAreWoken`, `ShutdownReturns`, `GoneIsNoticed`, `CallsEnd`, `SettledIsApplied`), which rests on
fairness and is outside the prover's reach. Every other property of a passing run is a theorem.

## Not modelled

- Pushes to connected sessions (`Broadcast`, `Notify`): they carry no state, and a client that misses
  one reads the same from its inbox or at its next look.
- The single-instance lock, an operating-system lock held for the life of the process, and the
  socket file, whose path `Listener.Close` removes whoever owns it by then
  (`unixsock/listener.go:132`): file-system calls without a protocol of their own.
- The MCP server: a client that translates tool calls one to one. Its process registers, beats and
  leaves like any other in `Registry`.
- A wall clock that steps back: expiry is defined by the wall clock, so a lease that had run out is
  active again and a capacity is exceeded without any statement being wrong.
- Hashing and comparison of tokens, socket permissions and peer credentials, the SQL schema and its
  migrations, running `gh` and the wording of its errors, argument parsing, output formatting, shell
  completion and process execution.

SQLite is taken for what the store configures: one connection and immediate transactions, so a
statement or a transaction is one step.
