------------------------------ MODULE Dispatch ------------------------------
(***************************************************************************)
(* Work handed to shared workers: internal/service/dispatch/dispatch.go    *)
(* over internal/store/sqlite/tasks.go, the `lac worker` loop that drives  *)
(* it (cmd/lac/worker.go), and the part of the housekeeping loop that      *)
(* takes work back from a worker that went away (internal/daemon).         *)
(*                                                                         *)
(* One resource.  A statement, or a transaction, is one step.  A method    *)
(* that reads a row and then updates it (Cancel, AppendOutput, Complete,   *)
(* ReleaseAbandoned) is two steps, with everything else in between.  The   *)
(* lease service is reduced to the set of workers holding a live lease.    *)
(***************************************************************************)
EXTENDS Integers, FiniteSets

CONSTANTS
  Workers,    \* worker processes, each with an agent identity of its own
  Patient,    \* the workers that claim without no_wait
  Beating,    \* the workers that send heartbeats: `lac worker` does not
  Tasks,      \* pieces of work; their order is (submitted_at, id)
  Awaited,    \* the tasks somebody waits for
  Commands,   \* command keys
  CommandOf,  \* the key each task names
  Capacity,   \* slots of the resource
  Mishaps     \* what may go wrong, of AllMishaps

\* cancel: a requester withdraws a task.   reload: the configuration changes.
\* leave: a worker is interrupted.         kill: a worker dies.
\* silence: a worker that beats is late.   lapse: a live worker loses its slot.
\* evict: an operator retires a worker.    fault: a housekeeping step fails.
\* crash: the daemon dies and starts again.
AllMishaps == {"cancel", "reload", "leave", "kill", "silence", "lapse",
               "evict", "fault", "crash"}

ASSUME TasksAreIds    == Tasks \subseteq Nat
ASSUME CommandsNamed  == CommandOf \in [Tasks -> Commands]
ASSUME SlotsExist     == Capacity \in Nat \ {0}
ASSUME PatientWork    == Patient \subseteq Workers
ASSUME BeatingWork    == Beating \subseteq Workers
ASSUME AwaitedExist   == Awaited \subseteq Tasks
ASSUME MishapsKnown   == Mishaps \subseteq AllMishaps

VARIABLES
  catalogue,  \* the commands configured now
  task,       \* tasks table: state, worker_id and whose output is attached
  agent,      \* agents.state of each worker
  held,       \* workers that hold a live lease on the resource
  worker,     \* where each worker is, what it runs, whether it was woken
  await,      \* an Await call on each task
  cancel,     \* whether a Cancel call has read its task and found it queued
  sweep,      \* the housekeeping loop: stale workers and tasks in hand
  arrival,    \* whether a signal on arrivals is owed
  outcomes    \* tasks on whose outcomes channel a signal is owed

vars == <<catalogue, task, agent, held, worker, await, cancel, sweep, arrival,
          outcomes>>

----------------------------------------------------------------------------
\* What is stored, and where a call can be.

Nobody == "nobody"
NoTask == -1

Finished == {"succeeded", "failed", "cancelled"}

TaskStates == {"none", "queued", "running"} \cup Finished

TaskRows == [state : TaskStates, worker : Workers \cup {Nobody},
             output : SUBSET Workers]

AgentStates == {"none", "active", "stale", "deregistered"}

\* idle..slot is WaitForWork and Acquire, verify..claimdoze is Claim,
\* running..ended the command, finish is inside Complete.  A call watches just
\* before it looks, so being at the look is having taken the channel.
WorkerPlaces == {"off", "idle", "look", "doze", "slot", "verify", "claim",
                 "claimdoze", "running", "output", "ended", "finish",
                 "giveback", "leaving", "parting", "partfinish", "gone"}

\* On its way out; in the last two with a report still being handled.
Leaving == {"leaving", "parting", "partfinish"}

Present == WorkerPlaces \ ({"off", "gone"} \cup Leaving)

\* Where a worker has a channel from arrivals.watch, and an Await call one from
\* outcomes.watch.
WatchesArrivals == {"look", "doze", "claim", "claimdoze"}
WatchesOutcome  == {"look", "select"}

AwaitPlaces == {"idle", "look", "select", "answered"}

\* The sweep: workers marked stale and not dealt with, the one in hand, and its
\* tasks still to be put back.  told is whether arrivals must be signalled.
Sweeps == [stale : SUBSET Workers, current : Workers \cup {Nobody},
           selected : BOOLEAN, todo : SUBSET Tasks, told : BOOLEAN]

NoSweep == [stale |-> {}, current |-> Nobody, selected |-> FALSE,
            todo |-> {}, told |-> FALSE]

----------------------------------------------------------------------------
\* The queries and the statements.

Queued == {t \in Tasks : task[t].state = "queued"}

\* ORDER BY submitted_at, id LIMIT 1.
NextQueued(t) == t \in Queued /\ \A u \in Queued : t <= u

\* Finish: WHERE state IN (running, queued).
Finishable(t) == task[t].state \in {"running", "queued"}

Finish(t, state) == task' = [task EXCEPT ![t].state = state]

\* Mistake: the arguments of the update are swapped.
ClaimSwapped(t, w) ==
  task' = [task EXCEPT ![t].state = w, ![t].worker = "running"]

\* Claim: WHERE state = queued.
Claim(t, w) ==
  task' = [task EXCEPT ![t].state = "running", ![t].worker = w]

\* A signal on a channel nobody ever takes does nothing.
Tell(t) == outcomes' = outcomes \cup ({t} \cap Awaited)

\* A move of a worker keeps its channel only from its look into its sleep.
Goto(w, place) ==
  worker' = [worker EXCEPT
    ![w].pc = place,
    ![w].woken = @ /\ place \in {"doze", "claimdoze"}]

----------------------------------------------------------------------------
\* Requesters.

Init ==
  /\ catalogue = Commands
  /\ task = [t \in Tasks |-> [state |-> "none", worker |-> Nobody, output |-> {}]]
  /\ agent = [w \in Workers |-> "none"]
  /\ held = {}
  /\ worker = [w \in Workers |-> [pc |-> "off", job |-> NoTask, woken |-> FALSE]]
  /\ await = [t \in Tasks |-> [pc |-> "idle", woken |-> FALSE]]
  /\ cancel = [t \in Tasks |-> FALSE]
  /\ sweep = NoSweep
  /\ arrival = FALSE
  /\ outcomes = {}

\* Mistake: a submission wakes nobody.
SubmitSilently(t) ==
  /\ task[t].state = "none"
  /\ CommandOf[t] \in catalogue
  /\ task' = [task EXCEPT ![t].state = "queued"]
  /\ UNCHANGED <<catalogue, agent, held, worker, await, cancel, sweep, arrival,
                 outcomes>>

Submit(t) ==
  /\ task[t].state = "none"
  /\ CommandOf[t] \in catalogue
  /\ task' = [task EXCEPT ![t].state = "queued"]
  /\ arrival' = TRUE
  /\ UNCHANGED <<catalogue, agent, held, worker, await, cancel, sweep, outcomes>>

AwaitGoto(t, place) ==
  /\ await' = [await EXCEPT ![t].pc = place,
                            ![t].woken = @ /\ place = "select"]
  /\ UNCHANGED <<catalogue, task, agent, held, worker, cancel, sweep, arrival,
                 outcomes>>

Await(t) ==
  /\ t \in Awaited
  /\ task[t].state # "none"
  /\ await[t].pc = "idle"
  /\ AwaitGoto(t, "look")

AwaitLook(t) ==
  /\ await[t].pc = "look"
  /\ AwaitGoto(t, IF task[t].state \in Finished THEN "answered" ELSE "select")

AwaitWake(t) ==
  /\ await[t].pc = "select"
  /\ await[t].woken
  /\ AwaitGoto(t, "look")

\* recheckInterval passed, or the caller's context ended.
AwaitTimer(t) == await[t].pc = "select" /\ AwaitGoto(t, "look")

AwaitGivesUp(t) == await[t].pc = "select" /\ AwaitGoto(t, "idle")

\* Cancel reads the task and goes on only if it is queued.
CancelRead(t) ==
  /\ "cancel" \in Mishaps
  /\ ~cancel[t]
  /\ task[t].state = "queued"
  /\ cancel' = [cancel EXCEPT ![t] = TRUE]
  /\ UNCHANGED <<catalogue, task, agent, held, worker, await, sweep, arrival,
                 outcomes>>

\* Then, in a statement of its own, it finishes it.
CancelFinish(t) ==
  /\ cancel[t]
  /\ cancel' = [cancel EXCEPT ![t] = FALSE]
  /\ IF Finishable(t)
       THEN Finish(t, "cancelled") /\ Tell(t)
       ELSE UNCHANGED <<task, outcomes>>
  /\ UNCHANGED <<catalogue, agent, held, worker, await, sweep, arrival>>

----------------------------------------------------------------------------
\* Workers.

\* The worker registers and starts its loop.
Start(w) ==
  /\ worker[w].pc = "off"
  /\ agent' = [agent EXCEPT ![w] = "active"]
  /\ Goto(w, "idle")
  /\ UNCHANGED <<catalogue, task, held, await, cancel, sweep, arrival, outcomes>>

\* authenticated() lets every agent call that has not been deregistered.
Accepted(w) == agent[w] # "deregistered"

\* A step that moves the worker and nothing else.
Move(w, place) ==
  /\ Goto(w, place)
  /\ UNCHANGED <<catalogue, task, agent, held, await, cancel, sweep, arrival,
                 outcomes>>

\* A worker whose call is refused stops.
CallRefused(w) ==
  /\ worker[w].pc \in {"idle", "slot", "verify", "running", "ended", "parting"}
  /\ ~Accepted(w)
  /\ Move(w, "leaving")

WaitForWork(w) == worker[w].pc = "idle" /\ Accepted(w) /\ Move(w, "look")

WaitLook(w) ==
  /\ worker[w].pc = "look"
  /\ Move(w, IF Queued = {} THEN "doze" ELSE "slot")

WaitWake(w) ==
  /\ worker[w].pc = "doze"
  /\ worker[w].woken
  /\ Move(w, "look")

\* Leasing grants a slot.
TakeSlot(w) ==
  /\ worker[w].pc = "slot"
  /\ Accepted(w)
  /\ Cardinality(held) < Capacity
  /\ held' = held \cup {w}
  /\ Goto(w, "verify")
  /\ UNCHANGED <<catalogue, task, agent, await, cancel, sweep, arrival, outcomes>>

\* verifyLease, once, before the first look.
VerifyLease(w) ==
  /\ worker[w].pc = "verify"
  /\ Accepted(w)
  /\ Move(w, IF w \in held THEN "claim" ELSE "leaving")

\* What follows a look that found nothing.
NotFound(w) == Goto(w, IF w \in Patient THEN "claimdoze" ELSE "giveback")

TryClaimNone(w) ==
  /\ worker[w].pc = "claim"
  /\ Queued = {}
  /\ NotFound(w)
  /\ UNCHANGED <<catalogue, task, agent, held, await, cancel, sweep, arrival,
                 outcomes>>

\* The oldest task names a command that is gone: it fails, nobody is told, and
\* the worker is told there was nothing.
TryClaimRemoved(w) ==
  /\ worker[w].pc = "claim"
  /\ \E t \in Tasks :
       /\ NextQueued(t)
       /\ CommandOf[t] \notin catalogue
       /\ Finish(t, "failed")
  /\ NotFound(w)
  /\ UNCHANGED <<catalogue, agent, held, await, cancel, sweep, arrival, outcomes>>

\* Mistake: the claim is committed and the worker told there was nothing.
TryClaimUnheard(w) ==
  /\ worker[w].pc = "claim"
  /\ \E t \in Tasks : NextQueued(t) /\ CommandOf[t] \in catalogue /\ Claim(t, w)
  /\ NotFound(w)
  /\ UNCHANGED <<catalogue, agent, held, await, cancel, sweep, arrival, outcomes>>

TryClaimTaken(w) ==
  /\ worker[w].pc = "claim"
  /\ \E t \in Tasks :
       /\ NextQueued(t)
       /\ CommandOf[t] \in catalogue
       /\ Claim(t, w)
       /\ worker' = [worker EXCEPT ![w] = [pc |-> "running", job |-> t, woken |-> FALSE]]
  /\ UNCHANGED <<catalogue, agent, held, await, cancel, sweep, arrival, outcomes>>

ClaimWake(w) ==
  /\ worker[w].pc = "claimdoze"
  /\ worker[w].woken
  /\ Move(w, "claim")

\* recheckInterval passed.
WorkerTimer(w) ==
  \/ worker[w].pc = "doze" /\ Move(w, "look")
  \/ worker[w].pc = "claimdoze" /\ Move(w, "claim")

\* AppendOutput reads the task and checks whose it is.  Bound: one chunk a run.
OutputRead(w) ==
  /\ worker[w].pc = "running"
  /\ Accepted(w)
  /\ task[worker[w].job].worker = w
  /\ Move(w, "output")

\* Then, in a statement of its own, it appends: WHERE state = running.
OutputWrite(w) ==
  LET t == worker[w].job IN
  /\ worker[w].pc = "output"
  /\ IF task[t].state = "running"
       THEN /\ task' = [task EXCEPT ![t].output = @ \cup {w}]
            /\ Tell(t)
       ELSE UNCHANGED <<task, outcomes>>
  /\ Goto(w, "ended")
  /\ UNCHANGED <<catalogue, agent, held, await, cancel, sweep, arrival>>

\* The command has ended.  Complete reads the task and checks whose it is.
CompleteRead(w) ==
  /\ Accepted(w)
  /\ LET mine == task[worker[w].job].worker = w IN
     \/ /\ worker[w].pc \in {"running", "ended"}
        /\ Move(w, IF mine THEN "finish" ELSE "leaving")
     \/ /\ worker[w].pc = "parting"
        /\ Move(w, IF mine THEN "partfinish" ELSE "leaving")

\* Mistake: a completion wakes nobody.
CompleteFinishSilently(w) ==
  LET t == worker[w].job IN
  /\ worker[w].pc \in {"finish", "partfinish"}
  /\ IF Finishable(t)
       THEN \E state \in {"succeeded", "failed"} : Finish(t, state)
       ELSE UNCHANGED task
  /\ Goto(w, IF Finishable(t) /\ worker[w].pc = "finish" THEN "giveback" ELSE "leaving")
  /\ UNCHANGED <<catalogue, agent, held, await, cancel, sweep, arrival, outcomes>>

\* Then, in a statement of its own, it finishes it.  An error ends the worker.
CompleteFinish(w) ==
  LET t == worker[w].job IN
  /\ worker[w].pc \in {"finish", "partfinish"}
  /\ IF Finishable(t)
       THEN /\ \E state \in {"succeeded", "failed"} : Finish(t, state)
            /\ Tell(t)
       ELSE UNCHANGED <<task, outcomes>>
  /\ Goto(w, IF Finishable(t) /\ worker[w].pc = "finish" THEN "giveback" ELSE "leaving")
  /\ UNCHANGED <<catalogue, agent, held, await, cancel, sweep, arrival>>

\* The deferred Release.
GiveBack(w) ==
  /\ worker[w].pc = "giveback"
  /\ held' = held \ {w}
  /\ worker' = [worker EXCEPT ![w] = [pc |-> "idle", job |-> NoTask, woken |-> FALSE]]
  /\ UNCHANGED <<catalogue, task, agent, await, cancel, sweep, arrival, outcomes>>

\* The process was interrupted.  Its calls fail although the daemon may still be
\* handling them: a claim may have been committed and never heard of, and the
\* report of the command it stopped is sent without waiting for the answer.
Interrupted(w) ==
  /\ "leave" \in Mishaps
  /\ \/ /\ worker[w].pc \in Present \ {"output", "ended", "finish"}
        /\ Move(w, "leaving")
     \/ /\ worker[w].pc \in {"running", "ended"}
        /\ Move(w, "parting")
     \/ /\ worker[w].pc = "finish"
        /\ Move(w, "partfinish")

\* On the way out the slot goes back and, unless the identity was saved, the
\* agent is deregistered; then the connection closes on what is still being
\* handled.
Leave(w) ==
  /\ worker[w].pc \in Leaving
  /\ held' = held \ {w}
  /\ agent' \in {agent, [agent EXCEPT ![w] = "deregistered"]}
  /\ Goto(w, "gone")
  /\ UNCHANGED <<catalogue, task, await, cancel, sweep, arrival, outcomes>>

\* A call that the daemon finishes after the death is one finished before it: a
\* live worker may be marked stale, lose its slot and be overtaken just as well.
Killed(w) ==
  /\ "kill" \in Mishaps
  /\ worker[w].pc \in Present
  /\ Move(w, "gone")

----------------------------------------------------------------------------
\* The rest of the daemon.

\* The lease expires, or an operator releases it.
Lapse(w) ==
  /\ w \in held
  /\ "lapse" \in Mishaps \/ worker[w].pc = "gone"
  /\ held' = held \ {w}
  /\ UNCHANGED <<catalogue, task, agent, worker, await, cancel, sweep, arrival,
                 outcomes>>

\* The agent is retired after its slots were given back.
Evict(w) ==
  /\ "evict" \in Mishaps
  /\ agent[w] \in {"active", "stale"}
  /\ agent' = [agent EXCEPT ![w] = "deregistered"]
  /\ held' = held \ {w}
  /\ UNCHANGED <<catalogue, task, worker, await, cancel, sweep, arrival, outcomes>>

\* A heartbeat revives a stale agent.
Heartbeat(w) ==
  /\ w \in Beating
  /\ worker[w].pc \in Present
  /\ agent[w] = "stale"
  /\ agent' = [agent EXCEPT ![w] = "active"]
  /\ UNCHANGED <<catalogue, task, held, worker, await, cancel, sweep, arrival,
                 outcomes>>

Reload ==
  /\ "reload" \in Mishaps
  /\ catalogue' \in SUBSET Commands
  /\ UNCHANGED <<task, agent, held, worker, await, cancel, sweep, arrival, outcomes>>

\* signals.signal on arrivals and on outcomes.
SignalArrivals ==
  /\ arrival
  /\ arrival' = FALSE
  /\ worker' = [w \in Workers |->
       [worker[w] EXCEPT !.woken = @ \/ worker[w].pc \in WatchesArrivals]]
  /\ UNCHANGED <<catalogue, task, agent, held, await, cancel, sweep, outcomes>>

SignalOutcome(t) ==
  /\ t \in outcomes
  /\ outcomes' = outcomes \ {t}
  /\ await' = [await EXCEPT ![t].woken = @ \/ await[t].pc \in WatchesOutcome]
  /\ UNCHANGED <<catalogue, task, agent, held, worker, cancel, sweep, arrival>>

\* Agents whose last heartbeat is older than the time to live, of the active.
\* One that never beats gets there in the middle of its work.
Silent == {w \in Workers :
  /\ agent[w] = "active"
  /\ worker[w].pc = "gone" \/ w \notin Beating \/ "silence" \in Mishaps}

MarkStale(S) ==
  agent' = [w \in Workers |-> IF w \in S THEN "stale" ELSE agent[w]]

\* ReapStale; every worker it returns is then dealt with in turn.
ReapStale(S) ==
  /\ sweep = NoSweep
  /\ S # {} /\ S \subseteq Silent
  /\ MarkStale(S)
  /\ sweep' = [sweep EXCEPT !.stale = S]
  /\ UNCHANGED <<catalogue, task, held, worker, await, cancel, arrival, outcomes>>

\* ReapStale fails part way: it returns nobody, not even those it has marked.
ReapStaleFails(S) ==
  /\ "fault" \in Mishaps
  /\ sweep = NoSweep
  /\ S # {} /\ S \subseteq Silent
  /\ MarkStale(S)
  /\ UNCHANGED <<catalogue, task, held, worker, await, cancel, sweep, arrival,
                 outcomes>>

\* ReleaseEverythingHeldBy a stale worker.
ReleaseSlots(w) ==
  /\ sweep.current = Nobody
  /\ w \in sweep.stale
  /\ held' = held \ {w}
  /\ sweep' = [sweep EXCEPT !.stale = @ \ {w}, !.current = w]
  /\ UNCHANGED <<catalogue, task, agent, worker, await, cancel, arrival, outcomes>>

\* It fails, and the loop goes on to the next worker.
ReleaseSlotsFails(w) ==
  /\ "fault" \in Mishaps
  /\ sweep.current = Nobody
  /\ w \in sweep.stale
  /\ sweep' = [sweep EXCEPT !.stale = @ \ {w}]
  /\ UNCHANGED <<catalogue, task, agent, held, worker, await, cancel, arrival,
                 outcomes>>

\* Mistake: the select asks for the wrong state.
QueuedTasksOf ==
  /\ sweep.current # Nobody
  /\ ~sweep.selected
  /\ LET found == {t \in Tasks : task[t].state = "queued" /\
                                 task[t].worker = sweep.current} IN
     sweep' = [sweep EXCEPT !.selected = TRUE, !.todo = found, !.told = found # {}]
  /\ UNCHANGED <<catalogue, task, agent, held, worker, await, cancel, arrival,
                 outcomes>>

\* ReleaseAbandoned reads what the worker has in hand.
RunningTasksOf ==
  /\ sweep.current # Nobody
  /\ ~sweep.selected
  /\ LET found == {t \in Tasks : task[t].state = "running" /\
                                 task[t].worker = sweep.current} IN
     sweep' = [sweep EXCEPT !.selected = TRUE, !.todo = found, !.told = found # {}]
  /\ UNCHANGED <<catalogue, task, agent, held, worker, await, cancel, arrival,
                 outcomes>>

\* Mistake: the update forgets AND state = running.
RequeueAlways(t) ==
  /\ t \in sweep.todo
  /\ task' = [task EXCEPT ![t] = [state |-> "queued", worker |-> Nobody, output |-> {}]]
  /\ sweep' = [sweep EXCEPT !.todo = @ \ {t}]
  /\ UNCHANGED <<catalogue, agent, held, worker, await, cancel, arrival, outcomes>>

\* Then puts each task back in a statement of its own: WHERE state = running.
Requeue(t) ==
  /\ t \in sweep.todo
  /\ task' = IF task[t].state = "running"
               THEN [task EXCEPT ![t] = [state |-> "queued", worker |-> Nobody,
                                         output |-> {}]]
               ELSE task
  /\ sweep' = [sweep EXCEPT !.todo = @ \ {t}]
  /\ UNCHANGED <<catalogue, agent, held, worker, await, cancel, arrival, outcomes>>

EndOfWorker ==
  sweep' = [sweep EXCEPT !.current = Nobody, !.selected = FALSE, !.todo = {},
                         !.told = FALSE]

\* A statement fails: the tasks already put back are not announced.
RequeueFails ==
  /\ "fault" \in Mishaps
  /\ sweep.todo # {}
  /\ EndOfWorker
  /\ UNCHANGED <<catalogue, task, agent, held, worker, await, cancel, arrival,
                 outcomes>>

\* Mistake: what was put back is announced to nobody.
RequeuedSilently ==
  /\ sweep.selected
  /\ sweep.todo = {}
  /\ EndOfWorker
  /\ UNCHANGED <<catalogue, task, agent, held, worker, await, cancel, arrival,
                 outcomes>>

\* All are back: signal arrivals, once for each.
Requeued ==
  /\ sweep.selected
  /\ sweep.todo = {}
  /\ arrival' = (arrival \/ sweep.told)
  /\ EndOfWorker
  /\ UNCHANGED <<catalogue, task, agent, held, worker, await, cancel, outcomes>>

\* Calls and signals die with the daemon, and workers stop when they find
\* themselves disconnected; the tables stay.
Crash ==
  /\ "crash" \in Mishaps
  /\ worker' = [w \in Workers |->
       IF worker[w].pc = "off" THEN worker[w]
       ELSE [worker[w] EXCEPT !.pc = "gone", !.woken = FALSE]]
  /\ await' = [t \in Tasks |-> [pc |-> "idle", woken |-> FALSE]]
  /\ cancel' = [t \in Tasks |-> FALSE]
  /\ sweep' = NoSweep
  /\ arrival' = FALSE
  /\ outcomes' = {}
  /\ catalogue' \in IF "reload" \in Mishaps THEN SUBSET Commands ELSE {catalogue}
  /\ UNCHANGED <<task, agent, held>>

----------------------------------------------------------------------------

\* What a worker does by itself once it has started.
WorkerStep(w) ==
  \/ CallRefused(w) \/ WaitForWork(w) \/ WaitLook(w) \/ WaitWake(w)
  \/ TakeSlot(w) \/ VerifyLease(w) \/ TryClaimNone(w)
  \/ TryClaimRemoved(w) \/ TryClaimTaken(w) \/ ClaimWake(w)
  \/ OutputRead(w) \/ OutputWrite(w)
  \/ CompleteRead(w) \/ CompleteFinish(w) \/ GiveBack(w) \/ Leave(w)

AwaitStep(t) == AwaitLook(t) \/ AwaitWake(t)

SweepStep ==
  \/ \E S \in SUBSET Workers : ReapStale(S)
  \/ \E w \in Workers : ReleaseSlots(w)
  \/ RunningTasksOf
  \/ \E t \in Tasks : Requeue(t)
  \/ Requeued

Next ==
  \/ \E t \in Tasks : \/ Submit(t) \/ Await(t) \/ AwaitStep(t)
                      \/ AwaitTimer(t) \/ AwaitGivesUp(t)
                      \/ CancelRead(t) \/ CancelFinish(t)
                      \/ SignalOutcome(t)
  \/ \E w \in Workers : \/ Start(w) \/ WorkerStep(w) \/ WorkerTimer(w)
                        \/ Interrupted(w) \/ Killed(w) \/ Lapse(w)
                        \/ Evict(w) \/ Heartbeat(w)
                        \/ ReleaseSlotsFails(w)
  \/ Reload
  \/ SignalArrivals
  \/ SweepStep
  \/ \E S \in SUBSET Workers : ReapStaleFails(S)
  \/ RequeueFails
  \/ Crash

Spec == Init /\ [][Next]_vars

\* Goroutines and worker processes that can run are scheduled, the housekeeping
\* loop ticks, and the lease of a process that is gone expires.  Nothing is
\* assumed of the recheck timers, nor of anything that may go wrong.
Fairness ==
  /\ \A w \in Workers : /\ WF_vars(Start(w)) /\ WF_vars(WorkerStep(w))
                         /\ WF_vars(worker[w].pc = "gone" /\ Lapse(w))
  /\ \A t \in Tasks : WF_vars(AwaitStep(t)) /\ WF_vars(SignalOutcome(t))
  /\ WF_vars(SignalArrivals)
  /\ WF_vars(SweepStep)

FairSpec == Spec /\ Fairness

----------------------------------------------------------------------------
\* Properties.

\* Every variable keeps its type.
TypeOK ==
  /\ catalogue \subseteq Commands
  /\ task \in [Tasks -> TaskRows]
  /\ agent \in [Workers -> AgentStates]
  /\ held \subseteq Workers
  /\ worker \in [Workers -> [pc : WorkerPlaces, job : Tasks \cup {NoTask},
                             woken : BOOLEAN]]
  /\ await \in [Tasks -> [pc : AwaitPlaces, woken : BOOLEAN]]
  /\ cancel \in [Tasks -> BOOLEAN]
  /\ sweep \in Sweeps
  /\ arrival \in BOOLEAN
  /\ outcomes \subseteq Tasks

\* A finished task does not change again: not its outcome, nor its worker, nor
\* its output, whatever cancels, claims, reports or requeues late (TaskState's
\* Finished, "the task will not change again").
FinishedStays ==
  [][\A t \in Tasks : task[t].state \in Finished => task'[t] = task[t]]_vars

\* A task that is marked running names a worker that is still on this task, or
\* on its way out, or gone: no worker carries on with something else while a row
\* says that it runs this.  (That only this worker finishes the run is more than
\* that, and is not so: OnlyItsWorkerFinishes below.)
RunsAreOwned ==
  \A t \in Tasks : task[t].state = "running" =>
    LET w == task[t].worker IN
    /\ w \in Workers
    /\ worker[w].job = t
    /\ worker[w].pc \in {"running", "output", "ended", "finish", "gone"} \cup Leaving

\* A worker asleep in WaitForWork or Claim while there is work has been woken or
\* is about to be, without the recheck timer (Submit and ReleaseAbandoned signal
\* after they commit, WaitForWork and Claim watch before they look).
WorkersAreWoken ==
  \A w \in Workers :
    worker[w].pc \in {"doze", "claimdoze"} /\ ~worker[w].woken /\ Queued # {} =>
      arrival \/ sweep.told

\* A requester asleep in Await on a finished task has been woken or is about to
\* be, without the recheck timer (recheckInterval, "a finished one wakes its
\* requester"), whoever finished it.  Left out is the task whose command was
\* removed: tryClaim fails it while nobody has it in hand, and does not signal.
RequestersAreWoken ==
  \A t \in Tasks :
    /\ await[t].pc = "select" /\ ~await[t].woken
    /\ task[t].state \in Finished
    /\ ~(task[t].state = "failed" /\ task[t].worker = Nobody)
    => t \in outcomes

RunBy(t, w) == task[t].state = "running" /\ task[t].worker = w

\* What a worker has in hand while its agent is active does not stay with it,
\* whether it beats or not and however it ends: it is finished or taken back
\* (services.go, "A worker that went away mid-task leaves work that still needs
\* doing").  Only retiring the agent, which nothing follows up, can prevent it.
AbandonedIsRequeued ==
  \A t \in Tasks, w \in Workers :
    RunBy(t, w) /\ agent[w] = "active" ~>
      ~RunBy(t, w) \/ agent[w] = "deregistered"

\* A run that nobody takes back: the worker is gone, and the sweep over active
\* agents does not come to it, because it was stale already or is retired.
Stranded(t) ==
  \E w \in Workers : /\ RunBy(t, w)
                     /\ worker[w].pc = "gone"
                     /\ agent[w] \in {"stale", "deregistered"}

\* Whatever is submitted is finished as long as a worker stays, without the
\* recheck timers, although workers are marked stale at work, are killed, leave
\* or are evicted; or it is stranded.
EveryTaskFinishes ==
  \A t \in Tasks :
    task[t].state = "queued" ~>
      \/ task[t].state \in Finished
      \/ Stranded(t)
      \/ \A w \in Workers : worker[w].pc = "gone"

\* No run stays with a worker that is gone (services.go, as above).
NothingIsStranded ==
  \A t \in Tasks : []<>~(\E w \in Workers : RunBy(t, w) /\ worker[w].pc = "gone")

\* A run is finished in a step of the worker its row names (Complete's check,
\* "task %s is being run by another worker", which the UPDATE does not repeat).
OnlyItsWorkerFinishes ==
  [][\A t \in Tasks, w \in Workers :
       RunBy(t, w) /\ task'[t].state \in {"succeeded", "failed"} =>
         worker'[w] # worker[w]]_vars

\* A task that is already running is left to finish (Cancel's comment).
RunningIsLeftToFinish ==
  [][\A t \in Tasks : task[t].state = "running" => task'[t].state # "cancelled"]_vars

=============================================================================
