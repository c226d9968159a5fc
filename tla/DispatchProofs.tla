--------------------------- MODULE DispatchProofs ---------------------------
(***************************************************************************)
(* Proofs about Dispatch, for any workers, beating or not, any tasks,      *)
(* commands and capacity, and any choice of mishaps.                       *)
(***************************************************************************)
EXTENDS Dispatch, TLAPS

WorkerRows == [pc : WorkerPlaces, job : Tasks \cup {NoTask}, woken : BOOLEAN]

AwaitRows == [pc : AwaitPlaces, woken : BOOLEAN]

----------------------------------------------------------------------------
\* What the helpers of the model do.

\* Goto moves one worker; its task stays in its hands, and only a worker that
\* goes to sleep keeps having been woken.
LEMMA GotoIs ==
  ASSUME TypeOK, NEW w \in Workers, NEW place \in WorkerPlaces, Goto(w, place)
  PROVE  /\ worker' \in [Workers -> WorkerRows]
         /\ \A v \in Workers : v # w => worker'[v] = worker[v]
         /\ worker'[w].pc = place
         /\ worker'[w].job = worker[w].job
         /\ worker'[w].woken = (worker[w].woken /\ place \in {"doze", "claimdoze"})
<1>1. worker \in [Workers -> WorkerRows]
  BY DEF TypeOK, WorkerRows
<1>2. worker[w] \in WorkerRows
  BY <1>1
<1>3. worker'[w] = [worker[w] EXCEPT !.pc = place,
                      !.woken = @ /\ place \in {"doze", "claimdoze"}]
  BY <1>1 DEF Goto
<1>4. worker'[w] \in WorkerRows
  BY <1>2, <1>3 DEF WorkerRows
<1> QED  BY <1>1, <1>2, <1>3, <1>4 DEF Goto, WorkerRows

\* Finish changes the state of one task and nothing else of any.
LEMMA FinishIs ==
  ASSUME TypeOK, NEW t \in Tasks, NEW s \in TaskStates, Finish(t, s)
  PROVE  /\ task' \in [Tasks -> TaskRows]
         /\ \A u \in Tasks : u # t => task'[u] = task[u]
         /\ task'[t].state = s
         /\ task'[t].worker = task[t].worker
<1>1. task[t] \in TaskRows
  BY DEF TypeOK
<1>2. task'[t] = [task[t] EXCEPT !.state = s]
  BY DEF TypeOK, Finish
<1>3. task'[t] \in TaskRows
  BY <1>1, <1>2 DEF TaskRows
<1> QED  BY <1>1, <1>2, <1>3 DEF TypeOK, Finish, TaskRows

\* Claim makes one task running and its own.
LEMMA ClaimIs ==
  ASSUME TypeOK, NEW t \in Tasks, NEW w \in Workers, Claim(t, w)
  PROVE  /\ task' \in [Tasks -> TaskRows]
         /\ \A u \in Tasks : u # t => task'[u] = task[u]
         /\ task'[t].state = "running"
         /\ task'[t].worker = w
<1>1. task[t] \in TaskRows
  BY DEF TypeOK
<1>2. task'[t] = [task[t] EXCEPT !.state = "running", !.worker = w]
  BY DEF TypeOK, Claim
<1>3. task'[t] \in TaskRows
  BY <1>1, <1>2 DEF TaskRows, TaskStates
<1> QED  BY <1>1, <1>2, <1>3 DEF TypeOK, Claim, TaskRows

\* A signal is owed only on a channel somebody may take.
LEMMA TellTyped ==
  ASSUME TypeOK, NEW t, Tell(t)
  PROVE  outcomes' \subseteq Tasks
BY AwaitedExist DEF TypeOK, Tell

\* AwaitGoto moves one Await call.
LEMMA AwaitGotoIs ==
  ASSUME TypeOK, NEW t \in Tasks, NEW place \in AwaitPlaces, AwaitGoto(t, place)
  PROVE  /\ await' \in [Tasks -> AwaitRows]
         /\ \A u \in Tasks : u # t => await'[u] = await[u]
         /\ await'[t].pc = place
         /\ await'[t].woken = (await[t].woken /\ place = "select")
<1>1. await \in [Tasks -> AwaitRows]
  BY DEF TypeOK, AwaitRows
<1>2. await[t] \in AwaitRows
  BY <1>1
<1>3. await'[t] = [await[t] EXCEPT !.pc = place, !.woken = @ /\ place = "select"]
  BY <1>1 DEF AwaitGoto
<1>4. await'[t] \in AwaitRows
  BY <1>2, <1>3 DEF AwaitRows
<1> QED  BY <1>1, <1>2, <1>3, <1>4 DEF AwaitGoto, AwaitRows

\* A step that only moves a worker keeps the types.
LEMMA MoveTyped ==
  ASSUME TypeOK, NEW w \in Workers, NEW place \in WorkerPlaces, Move(w, place)
  PROVE  TypeOK'
<1>1. worker' \in [Workers -> WorkerRows]
  BY GotoIs DEF Move
<1> QED  BY <1>1 DEF Move, TypeOK, WorkerRows

\* So does one that only moves an Await call.
LEMMA AwaitTyped ==
  ASSUME TypeOK, NEW t \in Tasks, NEW place \in AwaitPlaces, AwaitGoto(t, place)
  PROVE  TypeOK'
<1>1. await' \in [Tasks -> AwaitRows]
  BY AwaitGotoIs
<1> QED  BY <1>1 DEF AwaitGoto, TypeOK, AwaitRows

----------------------------------------------------------------------------
\* Types.

\* A requester's call, and the signals it waits for, keep the types.
LEMMA RequesterTyped ==
  ASSUME TypeOK, NEW t \in Tasks,
         \/ Submit(t) \/ Await(t) \/ AwaitStep(t) \/ AwaitTimer(t) \/ AwaitGivesUp(t)
         \/ CancelRead(t) \/ CancelFinish(t) \/ SignalOutcome(t)
  PROVE  TypeOK'
<1> USE DEF AwaitPlaces
<1>1. CASE Submit(t)
  <2>1. task[t] \in TaskRows
    BY DEF TypeOK
  <2>2. [task[t] EXCEPT !.state = "queued"] \in TaskRows
    BY <2>1 DEF TaskRows, TaskStates
  <2>3. task' \in [Tasks -> TaskRows]
    BY <1>1, <2>2 DEF Submit, TypeOK
  <2> QED  BY <1>1, <2>3 DEF Submit, TypeOK
<1>2. CASE Await(t)
  BY <1>2, AwaitTyped DEF Await
<1>3. CASE AwaitStep(t)
  BY <1>3, AwaitTyped DEF AwaitStep, AwaitLook, AwaitWake
<1>4. CASE AwaitTimer(t) \/ AwaitGivesUp(t)
  BY <1>4, AwaitTyped DEF AwaitTimer, AwaitGivesUp
<1>5. CASE CancelRead(t)
  BY <1>5 DEF CancelRead, TypeOK
<1>6. CASE CancelFinish(t)
  <2>1. task' \in [Tasks -> TaskRows]
    BY <1>6, FinishIs DEF CancelFinish, TaskStates, Finished, TypeOK
  <2>2. outcomes' \subseteq Tasks
    BY <1>6, TellTyped DEF CancelFinish, TypeOK
  <2> QED  BY <1>6, <2>1, <2>2 DEF CancelFinish, TypeOK
<1>7. CASE SignalOutcome(t)
  <2>1. await \in [Tasks -> AwaitRows]
    BY DEF TypeOK, AwaitRows
  <2>2. \A b \in BOOLEAN : [await[t] EXCEPT !.woken = b] \in AwaitRows
    BY <2>1 DEF AwaitRows
  <2>3. await[t].woken \in BOOLEAN
    BY <2>1 DEF AwaitRows
  <2>4. [await[t] EXCEPT !.woken = @ \/ await[t].pc \in WatchesOutcome] \in AwaitRows
    BY <2>2, <2>3
  <2>5. await' \in [Tasks -> AwaitRows]
    BY <1>7, <2>1, <2>4 DEF SignalOutcome
  <2> QED  BY <1>7, <2>5 DEF SignalOutcome, TypeOK, AwaitRows
<1> QED  BY <1>1, <1>2, <1>3, <1>4, <1>5, <1>6, <1>7

\* What a worker does keeps the types.
LEMMA WorkerTyped ==
  ASSUME TypeOK, NEW w \in Workers,
         Start(w) \/ WorkerStep(w) \/ WorkerTimer(w) \/ Interrupted(w) \/ Killed(w)
  PROVE  TypeOK'
<1> USE DEF WorkerPlaces
<1>1. CASE Start(w)
  <2>1. worker' \in [Workers -> WorkerRows]
    BY <1>1, GotoIs DEF Start
  <2> QED  BY <1>1, <2>1 DEF Start, TypeOK, AgentStates, WorkerRows
<1>2. CASE CallRefused(w) \/ WaitForWork(w) \/ WaitLook(w) \/ WaitWake(w)
  BY <1>2, MoveTyped DEF CallRefused, WaitForWork, WaitLook, WaitWake
<1>3. CASE TakeSlot(w)
  <2>1. worker' \in [Workers -> WorkerRows]
    BY <1>3, GotoIs DEF TakeSlot
  <2> QED  BY <1>3, <2>1 DEF TakeSlot, TypeOK, WorkerRows
<1>4. CASE VerifyLease(w)
  BY <1>4, MoveTyped DEF VerifyLease
<1>5. CASE TryClaimNone(w)
  <2>1. worker' \in [Workers -> WorkerRows]
    BY <1>5, GotoIs DEF TryClaimNone, NotFound
  <2> QED  BY <1>5, <2>1 DEF TryClaimNone, TypeOK, WorkerRows
<1>6. CASE TryClaimRemoved(w)
  <2>1. worker' \in [Workers -> WorkerRows]
    BY <1>6, GotoIs DEF TryClaimRemoved, NotFound
  <2>2. PICK t \in Tasks : Finish(t, "failed")
    BY <1>6 DEF TryClaimRemoved
  <2>3. task' \in [Tasks -> TaskRows]
    BY <2>2, FinishIs DEF TaskStates, Finished
  <2> QED  BY <1>6, <2>1, <2>3 DEF TryClaimRemoved, TypeOK, WorkerRows
<1>7. CASE TryClaimTaken(w)
  <2>1. PICK t \in Tasks :
          /\ Claim(t, w)
          /\ worker' = [worker EXCEPT ![w] = [pc |-> "running", job |-> t, woken |-> FALSE]]
    BY <1>7 DEF TryClaimTaken
  <2>2. task' \in [Tasks -> TaskRows]
    BY <2>1, ClaimIs
  <2>3. [pc |-> "running", job |-> t, woken |-> FALSE] \in WorkerRows
    BY DEF WorkerRows
  <2>4. worker' \in [Workers -> WorkerRows]
    BY <2>1, <2>3 DEF TypeOK, WorkerRows
  <2> QED  BY <1>7, <2>2, <2>4 DEF TryClaimTaken, TypeOK, WorkerRows
<1>8. CASE ClaimWake(w) \/ WorkerTimer(w) \/ OutputRead(w) \/ CompleteRead(w)
  BY <1>8, MoveTyped DEF ClaimWake, WorkerTimer, OutputRead, CompleteRead
<1>9. CASE OutputWrite(w)
  <2> DEFINE t == worker[w].job
  <2>1. worker' \in [Workers -> WorkerRows]
    BY <1>9, GotoIs DEF OutputWrite
  <2>2. outcomes' \subseteq Tasks
    BY <1>9, TellTyped DEF OutputWrite, TypeOK
  <2>3. task' \in [Tasks -> TaskRows]
    <3>1. CASE t \in Tasks
      <4>1. task[t] \in TaskRows
        BY <3>1 DEF TypeOK
      <4>2. [task[t] EXCEPT !.output = @ \cup {w}] \in TaskRows
        BY <4>1 DEF TaskRows
      <4> QED  BY <1>9, <4>2 DEF OutputWrite, TypeOK
    <3>2. CASE t \notin Tasks
      BY <1>9, <3>2 DEF OutputWrite, TypeOK
    <3> QED  BY <3>1, <3>2
  <2> QED  BY <1>9, <2>1, <2>2, <2>3 DEF OutputWrite, TypeOK, WorkerRows
<1>10. CASE CompleteFinish(w)
  <2> DEFINE t == worker[w].job
  <2>1. worker' \in [Workers -> WorkerRows]
    BY <1>10, GotoIs DEF CompleteFinish
  <2>2. outcomes' \subseteq Tasks
    BY <1>10, TellTyped DEF CompleteFinish, TypeOK
  <2>3. task' \in [Tasks -> TaskRows]
    <3>1. CASE t \in Tasks
      BY <1>10, <3>1, FinishIs DEF CompleteFinish, TypeOK, TaskStates, Finished
    <3>2. CASE t \notin Tasks
      BY <1>10, <3>2 DEF CompleteFinish, Finish, TypeOK
    <3> QED  BY <3>1, <3>2
  <2> QED  BY <1>10, <2>1, <2>2, <2>3 DEF CompleteFinish, TypeOK, WorkerRows
<1>11. CASE GiveBack(w)
  <2>1. [pc |-> "idle", job |-> NoTask, woken |-> FALSE] \in WorkerRows
    BY DEF WorkerRows
  <2>2. worker' \in [Workers -> WorkerRows]
    BY <1>11, <2>1 DEF GiveBack, TypeOK, WorkerRows
  <2> QED  BY <1>11, <2>2 DEF GiveBack, TypeOK, WorkerRows
<1>12. CASE Leave(w)
  <2>1. worker' \in [Workers -> WorkerRows]
    BY <1>12, GotoIs DEF Leave
  <2>2. agent' \in [Workers -> AgentStates]
    BY <1>12 DEF Leave, TypeOK, AgentStates
  <2> QED  BY <1>12, <2>1, <2>2 DEF Leave, TypeOK, WorkerRows
<1>13. CASE Interrupted(w) \/ Killed(w)
  BY <1>13, MoveTyped DEF Interrupted, Killed
<1> QED
  BY <1>1, <1>2, <1>3, <1>4, <1>5, <1>6, <1>7, <1>8, <1>9, <1>10, <1>11, <1>12, <1>13
  DEF WorkerStep

\* What the rest of the daemon does to a worker keeps the types.
LEMMA DaemonTyped ==
  ASSUME TypeOK, NEW w \in Workers,
         Lapse(w) \/ Evict(w) \/ Heartbeat(w) \/ ReleaseSlots(w) \/ ReleaseSlotsFails(w)
  PROVE  TypeOK'
<1>1. CASE Lapse(w) \/ Evict(w) \/ Heartbeat(w)
  BY <1>1 DEF Lapse, Evict, Heartbeat, TypeOK, AgentStates
<1>2. CASE ReleaseSlots(w) \/ ReleaseSlotsFails(w)
  <2>1. sweep \in Sweeps
    BY DEF TypeOK
  <2>2. PICK stale \in SUBSET Workers : stale = sweep.stale \ {w}
    BY <2>1 DEF Sweeps
  <2>3. \/ sweep' = [sweep EXCEPT !.stale = stale, !.current = w]
        \/ sweep' = [sweep EXCEPT !.stale = stale]
    BY <1>2, <2>2 DEF ReleaseSlots, ReleaseSlotsFails
  <2>4. sweep' \in Sweeps
    BY <2>1, <2>3 DEF Sweeps
  <2> QED  BY <1>2, <2>4 DEF ReleaseSlots, ReleaseSlotsFails, TypeOK
<1> QED  BY <1>1, <1>2

\* The housekeeping loop keeps the types.
LEMMA SweepTyped ==
  ASSUME TypeOK,
         \/ \E S \in SUBSET Workers : ReapStale(S) \/ ReapStaleFails(S)
         \/ RunningTasksOf \/ (\E t \in Tasks : Requeue(t)) \/ Requeued \/ RequeueFails
  PROVE  TypeOK'
<1>1. ASSUME NEW S \in SUBSET Workers, ReapStale(S) PROVE TypeOK'
  <2>1. sweep' \in Sweeps
    BY <1>1 DEF ReapStale, TypeOK, Sweeps
  <2>2. agent' \in [Workers -> AgentStates]
    BY <1>1 DEF ReapStale, MarkStale, TypeOK, AgentStates
  <2> QED  BY <1>1, <2>1, <2>2 DEF ReapStale, TypeOK
<1>2. ASSUME NEW S \in SUBSET Workers, ReapStaleFails(S) PROVE TypeOK'
  BY <1>2 DEF ReapStaleFails, MarkStale, TypeOK, AgentStates
<1>3. CASE RunningTasksOf
  <2>1. sweep' \in Sweeps
    BY <1>3 DEF RunningTasksOf, TypeOK, Sweeps
  <2> QED  BY <1>3, <2>1 DEF RunningTasksOf, TypeOK
<1>4. ASSUME NEW t \in Tasks, Requeue(t) PROVE TypeOK'
  <2>1. sweep' \in Sweeps
    BY <1>4 DEF Requeue, TypeOK, Sweeps
  <2>2. [state |-> "queued", worker |-> Nobody, output |-> {}] \in TaskRows
    BY DEF TaskRows, TaskStates
  <2>3. task' \in [Tasks -> TaskRows]
    BY <1>4, <2>2 DEF Requeue, TypeOK
  <2> QED  BY <1>4, <2>1, <2>3 DEF Requeue, TypeOK
<1>5. CASE Requeued \/ RequeueFails
  <2>1. sweep' \in Sweeps
    BY <1>5 DEF Requeued, RequeueFails, EndOfWorker, TypeOK, Sweeps
  <2>2. arrival' \in BOOLEAN
    BY <1>5 DEF Requeued, RequeueFails, TypeOK, Sweeps
  <2> QED  BY <1>5, <2>1, <2>2 DEF Requeued, RequeueFails, TypeOK
<1> QED  BY <1>1, <1>2, <1>3, <1>4, <1>5

\* A signal to the workers sets what it sets and keeps the rest.
LEMMA SignalArrivalsIs ==
  ASSUME TypeOK, SignalArrivals
  PROVE  /\ worker' \in [Workers -> WorkerRows]
         /\ \A w \in Workers : /\ worker'[w].pc = worker[w].pc
                               /\ worker'[w].job = worker[w].job
                               /\ worker'[w].woken = (worker[w].woken \/ worker[w].pc \in WatchesArrivals)
<1> SUFFICES ASSUME NEW w \in Workers
             PROVE  /\ worker'[w] \in WorkerRows
                    /\ worker'[w].pc = worker[w].pc
                    /\ worker'[w].job = worker[w].job
                    /\ worker'[w].woken = (worker[w].woken \/ worker[w].pc \in WatchesArrivals)
  BY DEF SignalArrivals
<1>1. worker[w] \in WorkerRows
  BY DEF TypeOK, WorkerRows
<1>2. worker'[w] = [worker[w] EXCEPT !.woken = @ \/ worker[w].pc \in WatchesArrivals]
  BY DEF SignalArrivals
<1>3. (worker[w].woken \/ worker[w].pc \in WatchesArrivals) \in BOOLEAN
  OBVIOUS
<1> QED  BY <1>1, <1>2, <1>3 DEF WorkerRows

\* A crash leaves every worker that had started gone, with its task in hand.
LEMMA CrashIs ==
  ASSUME TypeOK, Crash
  PROVE  /\ worker' \in [Workers -> WorkerRows]
         /\ \A w \in Workers : /\ worker'[w].job = worker[w].job
                               /\ worker'[w].pc = IF worker[w].pc = "off" THEN "off" ELSE "gone"
<1> SUFFICES ASSUME NEW w \in Workers
             PROVE  /\ worker'[w] \in WorkerRows
                    /\ worker'[w].job = worker[w].job
                    /\ worker'[w].pc = IF worker[w].pc = "off" THEN "off" ELSE "gone"
  BY DEF Crash
<1>1. worker[w] \in WorkerRows
  BY DEF TypeOK, WorkerRows
<1>2. worker'[w] = IF worker[w].pc = "off" THEN worker[w]
                   ELSE [worker[w] EXCEPT !.pc = "gone", !.woken = FALSE]
  BY DEF Crash
<1> QED  BY <1>1, <1>2 DEF WorkerRows, WorkerPlaces

\* Every step keeps every variable in its type.
LEMMA TypeStep == ASSUME TypeOK, [Next]_vars PROVE TypeOK'
<1>1. CASE SignalArrivals
  BY <1>1, SignalArrivalsIs DEF SignalArrivals, TypeOK, WorkerRows
<1>2. CASE Crash
  <2>1. worker' \in [Workers -> WorkerRows]
    BY <1>2, CrashIs
  <2>2. sweep' \in Sweeps
    BY <1>2 DEF Crash, NoSweep, Sweeps
  <2>3. await' \in [Tasks -> AwaitRows]
    BY <1>2 DEF Crash, AwaitRows, AwaitPlaces
  <2>4. cancel' \in [Tasks -> BOOLEAN] /\ catalogue' \subseteq Commands
    BY <1>2 DEF Crash, TypeOK
  <2> QED  BY <1>2, <2>1, <2>2, <2>3, <2>4 DEF Crash, TypeOK, WorkerRows, AwaitRows
<1>3. CASE Reload
  BY <1>3 DEF Reload, TypeOK
<1>4. CASE UNCHANGED vars
  BY <1>4 DEF vars, TypeOK
<1> QED
  BY <1>1, <1>2, <1>3, <1>4, RequesterTyped, WorkerTyped, DaemonTyped, SweepTyped
  DEF Next, SweepStep

\* Every variable of dispatch keeps its type, whatever goes wrong.
THEOREM DispatchTypeCorrect == Spec => []TypeOK
<1>1. Init => TypeOK
  <2> SUFFICES ASSUME Init PROVE TypeOK
    OBVIOUS
  <2>1. task \in [Tasks -> TaskRows]
    BY DEF Init, TaskRows, TaskStates
  <2>2. worker \in [Workers -> WorkerRows]
    BY DEF Init, WorkerRows, WorkerPlaces
  <2>3. await \in [Tasks -> AwaitRows]
    BY DEF Init, AwaitRows, AwaitPlaces
  <2>4. sweep \in Sweeps
    BY DEF Init, NoSweep, Sweeps
  <2> QED  BY <2>1, <2>2, <2>3, <2>4 DEF Init, TypeOK, AgentStates, WorkerRows, AwaitRows
<1>2. TypeOK /\ [Next]_vars => TypeOK'
  BY TypeStep
<1> QED  BY <1>1, <1>2, PTL DEF Spec

----------------------------------------------------------------------------
\* The life of a task.

\* What one step may do to a task.  A submission owes the workers a signal, and
\* the sweep, which puts tasks back, will; whoever finishes a task owes its
\* requester one, except the claim that finds the command gone.
Submitted(t) ==
  /\ task[t].state = "none" /\ task'[t].state = "queued"
  /\ task'[t].worker = task[t].worker
  /\ arrival'

Claimed(t) == task[t].state = "queued" /\ \E w \in Workers : TryClaimTaken(w) /\ Claim(t, w)

WrittenTo(t) ==
  /\ task[t].state = "running" /\ task'[t].state = "running"
  /\ task'[t].worker = task[t].worker

Ended(t) ==
  /\ Finishable(t) /\ task'[t].state \in Finished
  /\ task'[t].worker = task[t].worker
  /\ \/ task[t].state = "queued" /\ task'[t].state = "failed"
     \/ Tell(t)

PutBack(t) ==
  /\ task[t].state = "running" /\ task'[t].state = "queued"
  /\ task'[t].worker = Nobody
  /\ t \in sweep.todo /\ sweep'.told = sweep.told

\* Nothing else ever happens to a task.
LEMMA TaskLife ==
  ASSUME TypeOK, [Next]_vars, NEW t \in Tasks
  PROVE  \/ task'[t] = task[t]
         \/ Submitted(t) \/ Claimed(t) \/ WrittenTo(t) \/ Ended(t) \/ PutBack(t)
<1> DEFINE Goal == \/ task'[t] = task[t]
                   \/ Submitted(t) \/ Claimed(t) \/ WrittenTo(t) \/ Ended(t) \/ PutBack(t)
<1>0. task[t] \in TaskRows
  BY DEF TypeOK
<1>1. CASE task' = task
  BY <1>1
<1>2. ASSUME NEW u \in Tasks, Submit(u) PROVE Goal
  <2>1. CASE u = t
    BY <1>0, <1>2, <2>1 DEF Submit, Submitted, TypeOK, TaskRows
  <2>2. CASE u # t
    BY <1>2, <2>2 DEF Submit, TypeOK
  <2> QED  BY <2>1, <2>2
<1>3. ASSUME NEW u \in Tasks, CancelFinish(u) PROVE Goal
  <2>1. CASE Finishable(u) /\ u = t
    <3>1. Finish(t, "cancelled") /\ Tell(t) /\ "cancelled" \in Finished
      BY <1>3, <2>1 DEF CancelFinish, Finished
    <3> QED  BY <2>1, <3>1, FinishIs DEF Ended, TaskStates
  <2>2. CASE Finishable(u) /\ u # t
    BY <1>3, <2>2 DEF CancelFinish, Finish, TypeOK
  <2>3. CASE ~Finishable(u)
    BY <1>3, <2>3 DEF CancelFinish
  <2> QED  BY <2>1, <2>2, <2>3
<1>4. ASSUME NEW w \in Workers, TryClaimRemoved(w) PROVE Goal
  <2>1. PICK u \in Tasks : NextQueued(u) /\ Finish(u, "failed")
    BY <1>4 DEF TryClaimRemoved
  <2>2. CASE u = t
    BY <2>1, <2>2, FinishIs DEF Ended, NextQueued, Queued, Finishable, TaskStates, Finished
  <2>3. CASE u # t
    BY <2>1, <2>3 DEF Finish, TypeOK
  <2> QED  BY <2>2, <2>3
<1>5. ASSUME NEW w \in Workers, TryClaimTaken(w) PROVE Goal
  <2>1. PICK u \in Tasks : NextQueued(u) /\ Claim(u, w)
    BY <1>5 DEF TryClaimTaken
  <2>2. CASE u = t
    BY <1>5, <2>1, <2>2 DEF Claimed, NextQueued, Queued
  <2>3. CASE u # t
    BY <2>1, <2>3 DEF Claim, TypeOK
  <2> QED  BY <2>2, <2>3
<1>6. ASSUME NEW w \in Workers, OutputWrite(w) PROVE Goal
  <2>1. CASE task[worker[w].job].state = "running" /\ worker[w].job = t
    <3>1. task'[t] = [task[t] EXCEPT !.output = @ \cup {w}]
      BY <1>6, <2>1 DEF OutputWrite, TypeOK
    <3> QED  BY <1>0, <2>1, <3>1 DEF WrittenTo, TaskRows
  <2>2. CASE task[worker[w].job].state = "running" /\ worker[w].job # t
    BY <1>6, <2>2 DEF OutputWrite, TypeOK
  <2>3. CASE task[worker[w].job].state # "running"
    BY <1>6, <2>3 DEF OutputWrite
  <2> QED  BY <2>1, <2>2, <2>3
<1>7. ASSUME NEW w \in Workers, CompleteFinish(w) PROVE Goal
  <2>1. CASE Finishable(worker[w].job) /\ worker[w].job = t
    <3>1. PICK s \in {"succeeded", "failed"} : Finish(t, s)
      BY <1>7, <2>1 DEF CompleteFinish
    <3>2. Tell(t)
      BY <1>7, <2>1 DEF CompleteFinish
    <3>3. s \in Finished /\ s \in TaskStates
      BY DEF Finished, TaskStates
    <3> QED  BY <2>1, <3>1, <3>2, <3>3, FinishIs DEF Ended
  <2>2. CASE Finishable(worker[w].job) /\ worker[w].job # t
    BY <1>7, <2>2 DEF CompleteFinish, Finish, TypeOK
  <2>3. CASE ~Finishable(worker[w].job)
    BY <1>7, <2>3 DEF CompleteFinish
  <2> QED  BY <2>1, <2>2, <2>3
<1>8. ASSUME NEW u \in Tasks, Requeue(u) PROVE Goal
  <2>1. sweep'.told = sweep.told
    BY <1>8 DEF Requeue, TypeOK, Sweeps
  <2>2. CASE u = t /\ task[u].state = "running"
    BY <1>8, <2>1, <2>2 DEF Requeue, PutBack, TypeOK
  <2>3. CASE ~(u = t /\ task[u].state = "running")
    BY <1>8, <2>3 DEF Requeue, TypeOK
  <2> QED  BY <2>2, <2>3
<1> QED
  <2>1. CASE \E u \in Tasks : \/ Await(u) \/ AwaitStep(u) \/ AwaitTimer(u) \/ AwaitGivesUp(u)
                            \/ CancelRead(u) \/ SignalOutcome(u)
    BY <1>1, <2>1 DEF Await, AwaitStep, AwaitLook, AwaitWake, AwaitTimer, AwaitGivesUp,
                      AwaitGoto, CancelRead, SignalOutcome
  <2>2. CASE \E w \in Workers : \/ Start(w) \/ WorkerTimer(w) \/ Interrupted(w) \/ Killed(w)
                              \/ Lapse(w) \/ Evict(w) \/ Heartbeat(w) \/ ReleaseSlotsFails(w)
                              \/ ReleaseSlots(w)
    BY <1>1, <2>2 DEF Start, WorkerTimer, Interrupted, Killed, Lapse, Evict, Heartbeat,
                      ReleaseSlotsFails, ReleaseSlots, Move
  <2>3. CASE \E w \in Workers : \/ CallRefused(w) \/ WaitForWork(w) \/ WaitLook(w) \/ WaitWake(w)
                              \/ TakeSlot(w) \/ VerifyLease(w) \/ TryClaimNone(w)
                              \/ ClaimWake(w) \/ OutputRead(w) \/ CompleteRead(w)
                              \/ GiveBack(w) \/ Leave(w)
    BY <1>1, <2>3 DEF CallRefused, WaitForWork, WaitLook, WaitWake, TakeSlot, VerifyLease,
                      TryClaimNone, ClaimWake, OutputRead, CompleteRead, GiveBack, Leave, Move
  <2>4. CASE \/ \E S \in SUBSET Workers : ReapStale(S) \/ ReapStaleFails(S)
             \/ RunningTasksOf \/ Requeued \/ RequeueFails \/ Reload \/ SignalArrivals
             \/ Crash \/ UNCHANGED vars
    BY <1>1, <2>4 DEF ReapStale, ReapStaleFails, RunningTasksOf, Requeued, RequeueFails,
                      Reload, SignalArrivals, Crash, vars
  <2> QED  BY <1>2, <1>3, <1>4, <1>5, <1>6, <1>7, <1>8, <2>1, <2>2, <2>3, <2>4
           DEF Next, SweepStep, WorkerStep

\* A finished task does not change again, whatever is cancelled, claimed,
\* reported or put back late: no statement touches a row in a finished state.
THEOREM FinishedIsFinal == Spec => FinishedStays
<1>1. ASSUME TypeOK, [Next]_vars
      PROVE  \A t \in Tasks : task[t].state \in Finished => task'[t] = task[t]
  BY <1>1, TaskLife
  DEF Submitted, Claimed, WrittenTo, Ended, PutBack, Finishable, Finished
<1> QED  BY <1>1, DispatchTypeCorrect, PTL DEF Spec, FinishedStays
----------------------------------------------------------------------------
\* Whoever runs a task has it in hand.

InHand == {"running", "output", "ended", "finish", "gone"} \cup Leaving

\* A worker that moves within the places where it has a task in hand keeps it.
Keeps(w) ==
  worker[w].pc \in InHand => worker'[w].pc \in InHand /\ worker'[w].job = worker[w].job

\* A step that claims nothing and in which workers keep what they have keeps the
\* owners.
LEMMA OwnersStay ==
  ASSUME TypeOK, RunsAreOwned,
         \A t \in Tasks : task'[t].state = "running" =>
            /\ task[t].state = "running" /\ task'[t].worker = task[t].worker
            /\ Keeps(task[t].worker)
  PROVE  RunsAreOwned'
BY DEF RunsAreOwned, Keeps, InHand

\* Where a worker is when it leaves a place without a task, or goes on within
\* the places with one.
LEMMA MoveKeeps ==
  ASSUME TypeOK, NEW w \in Workers, NEW place \in WorkerPlaces, Goto(w, place),
         worker[w].pc \in InHand => place \in InHand
  PROVE  \A v \in Workers : Keeps(v)
BY GotoIs DEF Keeps

\* Every step but a claim and a completion lets every worker keep its task.
LEMMA WorkersKeep ==
  ASSUME TypeOK, [Next]_vars,
         ~ \E w \in Workers : TryClaimTaken(w) \/ CompleteFinish(w)
  PROVE  \A v \in Workers : Keeps(v)
<1>1. CASE worker' = worker
  BY <1>1 DEF Keeps
<1>2. ASSUME NEW w \in Workers, Start(w) \/ WorkerTimer(w) \/ Interrupted(w) \/ Killed(w)
      PROVE  \A v \in Workers : Keeps(v)
  BY <1>2, MoveKeeps
  DEF Start, WorkerTimer, Interrupted, Killed, Move, InHand, Leaving, Present, WorkerPlaces
<1>3. ASSUME NEW w \in Workers,
             CallRefused(w) \/ WaitForWork(w) \/ WaitLook(w) \/ WaitWake(w) \/ TakeSlot(w)
      PROVE  \A v \in Workers : Keeps(v)
  BY <1>3, MoveKeeps
  DEF CallRefused, WaitForWork, WaitLook, WaitWake, TakeSlot, Move, InHand, Leaving, WorkerPlaces
<1>4. ASSUME NEW w \in Workers,
             VerifyLease(w) \/ TryClaimNone(w) \/ TryClaimRemoved(w) \/ ClaimWake(w)
      PROVE  \A v \in Workers : Keeps(v)
  BY <1>4, MoveKeeps
  DEF VerifyLease, TryClaimNone, TryClaimRemoved, ClaimWake, NotFound, Move, InHand, Leaving,
      WorkerPlaces
<1>5. ASSUME NEW w \in Workers, OutputRead(w) \/ OutputWrite(w) \/ CompleteRead(w) \/ Leave(w)
      PROVE  \A v \in Workers : Keeps(v)
  BY <1>5, MoveKeeps
  DEF OutputRead, OutputWrite, CompleteRead, Leave, Move, InHand, Leaving, WorkerPlaces
<1>6. ASSUME NEW w \in Workers, GiveBack(w) PROVE \A v \in Workers : Keeps(v)
  BY <1>6 DEF GiveBack, Keeps, InHand, Leaving, TypeOK
<1>7. CASE SignalArrivals
  BY <1>7, SignalArrivalsIs DEF Keeps
<1>8. CASE Crash
  BY <1>8, CrashIs DEF Keeps, InHand, Leaving
<1> QED
  <2>1. CASE \E t \in Tasks : \/ Submit(t) \/ Await(t) \/ AwaitStep(t) \/ AwaitTimer(t)
                            \/ AwaitGivesUp(t) \/ CancelRead(t) \/ CancelFinish(t)
                            \/ SignalOutcome(t) \/ Requeue(t)
    BY <1>1, <2>1 DEF Submit, Await, AwaitStep, AwaitLook, AwaitWake, AwaitTimer, AwaitGivesUp,
                      AwaitGoto, CancelRead, CancelFinish, SignalOutcome, Requeue
  <2>2. CASE \E w \in Workers : \/ Lapse(w) \/ Evict(w) \/ Heartbeat(w) \/ ReleaseSlotsFails(w)
                              \/ ReleaseSlots(w)
    BY <1>1, <2>2 DEF Lapse, Evict, Heartbeat, ReleaseSlotsFails, ReleaseSlots
  <2>3. CASE \/ \E S \in SUBSET Workers : ReapStale(S) \/ ReapStaleFails(S)
             \/ RunningTasksOf \/ Requeued \/ RequeueFails \/ Reload \/ UNCHANGED vars
    BY <1>1, <2>3 DEF ReapStale, ReapStaleFails, RunningTasksOf, Requeued, RequeueFails,
                      Reload, vars
  <2> QED  BY <1>2, <1>3, <1>4, <1>5, <1>6, <1>7, <1>8, <2>1, <2>2, <2>3
           DEF Next, SweepStep, WorkerStep

\* Every step keeps the owners: a claim gives a task to a worker that has none,
\* and a worker whose completion ends its task has no other.
LEMMA OwnersStep == ASSUME TypeOK, RunsAreOwned, [Next]_vars PROVE RunsAreOwned'
<1>1. ASSUME NEW w \in Workers, TryClaimTaken(w) PROVE RunsAreOwned'
  <2>1. PICK t \in Tasks :
          /\ Claim(t, w)
          /\ worker' = [worker EXCEPT ![w] = [pc |-> "running", job |-> t, woken |-> FALSE]]
    BY <1>1 DEF TryClaimTaken
  <2>2. worker[w].pc = "claim"
    BY <1>1 DEF TryClaimTaken
  <2>3. /\ \A u \in Tasks : u # t => task'[u] = task[u]
        /\ task'[t].worker = w
    BY <2>1, ClaimIs
  <2>4. /\ worker'[w].pc = "running" /\ worker'[w].job = t
        /\ \A v \in Workers : v # w => worker'[v] = worker[v]
    BY <2>1 DEF TypeOK
  <2>5. \A u \in Tasks : task[u].state = "running" => task[u].worker # w
    BY <2>2 DEF RunsAreOwned, Leaving
  <2> QED  BY <2>3, <2>4, <2>5 DEF RunsAreOwned
<1>2. ASSUME NEW w \in Workers, CompleteFinish(w) PROVE RunsAreOwned'
  <2> DEFINE t == worker[w].job
             place == IF Finishable(t) /\ worker[w].pc = "finish" THEN "giveback" ELSE "leaving"
  <2>1. Goto(w, place)
    BY <1>2 DEF CompleteFinish
  <2>2. /\ \A v \in Workers : v # w => worker'[v] = worker[v]
        /\ worker'[w].pc = place /\ worker'[w].job = t
    BY <2>1, GotoIs DEF WorkerPlaces
  <2>3. ASSUME NEW u \in Tasks, task'[u].state = "running"
        PROVE  /\ task[u].state = "running" /\ task'[u].worker = task[u].worker
               /\ Keeps(task[u].worker)
    <3>1. task[u].state = "running" /\ task'[u].worker = task[u].worker
      <4>1. CASE Finishable(t) /\ t \in Tasks
        <5>1. PICK s \in {"succeeded", "failed"} : Finish(t, s)
          BY <1>2, <4>1 DEF CompleteFinish
        <5>2. s \in TaskStates /\ s # "running"
          BY DEF TaskStates, Finished
        <5> QED  BY <2>3, <4>1, <5>1, <5>2, FinishIs
      <4>2. CASE ~(Finishable(t) /\ t \in Tasks)
        BY <1>2, <2>3, <4>2 DEF CompleteFinish, Finish, TypeOK
      <4> QED  BY <4>1, <4>2
    <3>2. CASE task[u].worker # w
      BY <2>2, <3>1, <3>2 DEF Keeps, RunsAreOwned
    <3>3. CASE task[u].worker = w
      <4>1. t = u /\ task[u].state = "running"
        BY <3>1, <3>3 DEF RunsAreOwned
      <4>2. Finishable(t)
        BY <4>1 DEF Finishable
      <4>3. PICK s \in {"succeeded", "failed"} : Finish(t, s)
        BY <1>2, <4>2 DEF CompleteFinish
      <4>4. task'[t].state = s
        BY <4>1, <4>3, FinishIs DEF TaskStates, Finished
      <4> QED  BY <2>3, <4>1, <4>4
    <3> QED  BY <3>1, <3>2, <3>3
  <2> QED  BY <2>3, OwnersStay
<1>3. CASE ~ \E w \in Workers : TryClaimTaken(w) \/ CompleteFinish(w)
  <2>1. ASSUME NEW u \in Tasks, task'[u].state = "running"
        PROVE  task[u].state = "running" /\ task'[u].worker = task[u].worker
    BY <1>3, <2>1, TaskLife DEF Submitted, Claimed, WrittenTo, Ended, PutBack, Finished
  <2>2. \A u \in Tasks : task[u].state = "running" => task[u].worker \in Workers
    BY DEF RunsAreOwned
  <2> QED  BY <1>3, <2>1, <2>2, WorkersKeep, OwnersStay
<1> QED  BY <1>1, <1>2, <1>3

\* A task that is marked running names a worker that has it in hand, is leaving
\* or is gone: no worker carries on with something else while a row says that it
\* runs this, with any number of workers and tasks and whatever goes wrong.  Who
\* finishes the run is not part of it.
THEOREM RunsHaveOwners == Spec => []RunsAreOwned
<1>1. Init => RunsAreOwned
  BY DEF Init, RunsAreOwned
<1>2. TypeOK /\ RunsAreOwned /\ [Next]_vars => RunsAreOwned'
  BY OwnersStep
<1> QED  BY <1>1, <1>2, DispatchTypeCorrect, PTL DEF Spec
----------------------------------------------------------------------------
\* Nobody sleeps through the end of the task it awaits.

\* A task nobody has claimed, or that was put back, names no worker; so the only
\* failure that owes no signal, the claim that finds the command gone, is the one
\* that leaves a failed task without a worker.
UnclaimedIsNobodys ==
  \A t \in Tasks : task[t].state \in {"none", "queued"} => task[t].worker = Nobody

\* Somebody waits only for what is awaited, so the signal finds a channel.
OnlyAwaited == \A t \in Tasks : await[t].pc # "idle" => t \in Awaited

RequestInv == UnclaimedIsNobodys /\ OnlyAwaited /\ RequestersAreWoken

\* What a step does to an Await call: nothing, and no signal that is owed is
\* forgotten; or it moves, and sleeps only on a task that has not finished.
LEMMA AwaitLife ==
  ASSUME TypeOK, [Next]_vars, NEW t \in Tasks
  PROVE  \/ await'[t] = await[t] /\ (t \in outcomes => t \in outcomes')
         \/ /\ await'[t].pc # "idle" => await[t].pc # "idle" \/ t \in Awaited
            /\ await'[t].pc = "select" /\ ~await'[t].woken =>
                 task'[t] = task[t] /\ task[t].state \notin Finished
<1> DEFINE Still == await'[t] = await[t] /\ (t \in outcomes => t \in outcomes')
           Moves == /\ await'[t].pc # "idle" => await[t].pc # "idle" \/ t \in Awaited
                    /\ await'[t].pc = "select" /\ ~await'[t].woken =>
                         task'[t] = task[t] /\ task[t].state \notin Finished
<1>1. CASE await' = await /\ outcomes' = outcomes
  BY <1>1
<1>2. ASSUME await' = await, NEW u, Tell(u) PROVE Still
  BY <1>2 DEF Tell
<1>3. ASSUME NEW u \in Tasks,
             Await(u) \/ AwaitStep(u) \/ AwaitTimer(u) \/ AwaitGivesUp(u)
      PROVE  Still \/ Moves
  <2>1. PICK place \in AwaitPlaces :
          /\ AwaitGoto(u, place)
          /\ place # "idle" => await[u].pc # "idle" \/ u \in Awaited
          /\ place = "select" => task[u].state \notin Finished
    BY <1>3 DEF Await, AwaitStep, AwaitLook, AwaitWake, AwaitTimer, AwaitGivesUp, AwaitPlaces
  <2>2. task' = task /\ outcomes' = outcomes
    BY <2>1 DEF AwaitGoto
  <2> QED  BY <2>1, <2>2, AwaitGotoIs
<1>4. ASSUME NEW u \in Tasks, SignalOutcome(u) PROVE Still \/ Moves
  <2>1. await \in [Tasks -> AwaitRows]
    BY DEF TypeOK, AwaitRows
  <2>2. CASE u = t
    <3>1. await'[t] = [await[t] EXCEPT !.woken = @ \/ await[t].pc \in WatchesOutcome]
      BY <1>4, <2>1, <2>2 DEF SignalOutcome
    <3>2. /\ await'[t].pc = await[t].pc
          /\ await'[t].woken = (await[t].woken \/ await[t].pc \in WatchesOutcome)
      BY <2>1, <3>1 DEF AwaitRows
    <3> QED  BY <3>2 DEF WatchesOutcome
  <2>3. CASE u # t
    BY <1>4, <2>1, <2>3 DEF SignalOutcome
  <2> QED  BY <2>2, <2>3
<1>5. CASE Crash
  BY <1>5 DEF Crash
<1>6. CASE \E u \in Tasks : Submit(u) \/ CancelRead(u) \/ CancelFinish(u) \/ Requeue(u)
  BY <1>1, <1>2, <1>6 DEF Submit, CancelRead, CancelFinish, Requeue
<1>7. CASE \E w \in Workers : OutputWrite(w) \/ CompleteFinish(w)
  BY <1>1, <1>2, <1>7 DEF OutputWrite, CompleteFinish
<1>8. CASE \E w \in Workers : \/ Start(w) \/ WorkerTimer(w) \/ Interrupted(w) \/ Killed(w)
                            \/ Lapse(w) \/ Evict(w) \/ Heartbeat(w) \/ ReleaseSlotsFails(w)
                            \/ ReleaseSlots(w)
  BY <1>1, <1>8 DEF Start, WorkerTimer, Interrupted, Killed, Lapse, Evict, Heartbeat,
                    ReleaseSlotsFails, ReleaseSlots, Move
<1>9. CASE \E w \in Workers : \/ CallRefused(w) \/ WaitForWork(w) \/ WaitLook(w) \/ WaitWake(w)
                            \/ TakeSlot(w) \/ VerifyLease(w) \/ TryClaimNone(w)
                            \/ TryClaimRemoved(w) \/ TryClaimTaken(w) \/ ClaimWake(w)
                            \/ OutputRead(w) \/ CompleteRead(w) \/ GiveBack(w) \/ Leave(w)
  BY <1>1, <1>9 DEF CallRefused, WaitForWork, WaitLook, WaitWake, TakeSlot, VerifyLease,
                    TryClaimNone, TryClaimRemoved, TryClaimTaken, ClaimWake, OutputRead,
                    CompleteRead, GiveBack, Leave, Move
<1>10. CASE \/ \E S \in SUBSET Workers : ReapStale(S) \/ ReapStaleFails(S)
            \/ RunningTasksOf \/ Requeued \/ RequeueFails \/ Reload \/ SignalArrivals
            \/ UNCHANGED vars
  BY <1>1, <1>10 DEF ReapStale, ReapStaleFails, RunningTasksOf, Requeued, RequeueFails,
                     Reload, SignalArrivals, vars
<1> QED  BY <1>3, <1>4, <1>5, <1>6, <1>7, <1>8, <1>9, <1>10
         DEF Next, SweepStep, WorkerStep

\* Every step keeps the invariant.
LEMMA RequestStep == ASSUME TypeOK, RequestInv, [Next]_vars PROVE RequestInv'
<1> USE DEF RequestInv
<1>1. UnclaimedIsNobodys'
  <2> SUFFICES ASSUME NEW t \in Tasks, task'[t].state \in {"none", "queued"}
               PROVE  task'[t].worker = Nobody
    BY DEF UnclaimedIsNobodys
  <2>1. ~Claimed(t)
    <3>1. \A w \in Workers : Claim(t, w) => task'[t].state = "running"
      BY ClaimIs
    <3> QED  BY <3>1 DEF Claimed
  <2> QED  BY <2>1, TaskLife DEF UnclaimedIsNobodys, Submitted, WrittenTo, Ended, PutBack, Finished
<1>2. OnlyAwaited'
  BY AwaitLife DEF OnlyAwaited
<1>3. RequestersAreWoken'
  <2> SUFFICES ASSUME NEW t \in Tasks,
                      await'[t].pc = "select", ~await'[t].woken,
                      task'[t].state \in Finished,
                      ~(task'[t].state = "failed" /\ task'[t].worker = Nobody)
               PROVE  t \in outcomes'
    BY DEF RequestersAreWoken
  <2>1. await'[t] = await[t] /\ (t \in outcomes => t \in outcomes')
    BY AwaitLife
  <2>2. CASE task'[t] = task[t]
    BY <2>1, <2>2 DEF RequestersAreWoken
  <2>3. CASE Ended(t)
    <3>1. ~(task[t].state = "queued" /\ task'[t].state = "failed")
      BY <2>3 DEF Ended, UnclaimedIsNobodys
    <3>2. Tell(t)
      BY <2>3, <3>1 DEF Ended
    <3>3. t \in Awaited
      BY <2>1 DEF OnlyAwaited
    <3> QED  BY <3>2, <3>3 DEF Tell
  <2>4. ~Claimed(t)
    <3>1. \A w \in Workers : Claim(t, w) => task'[t].state = "running"
      BY ClaimIs
    <3> QED  BY <3>1 DEF Claimed, Finished
  <2> QED  BY <2>2, <2>3, <2>4, TaskLife DEF Submitted, WrittenTo, PutBack, Finished
<1> QED  BY <1>1, <1>2, <1>3

\* A requester asleep in Await on a task that has finished has been woken or is
\* about to be, whoever finished the task and whatever happened in between.
THEOREM RequestersAreNotForgotten == Spec => []RequestersAreWoken
<1>1. Init => RequestInv
  BY DEF Init, RequestInv, UnclaimedIsNobodys, OnlyAwaited, RequestersAreWoken
<1>2. TypeOK /\ RequestInv /\ [Next]_vars => RequestInv'
  BY RequestStep
<1>3. RequestInv => RequestersAreWoken
  BY DEF RequestInv
<1> QED  BY <1>1, <1>2, <1>3, DispatchTypeCorrect, PTL DEF Spec
----------------------------------------------------------------------------
\* Nobody sleeps while there is work.

Asleep(w) == worker[w].pc \in {"doze", "claimdoze"} /\ ~worker[w].woken

\* The sweep that has tasks to put back has promised to signal them, and keeps
\* the promise until it is through with the worker.
SweepPromises ==
  /\ sweep.told => sweep.selected
  /\ sweep.todo # {} => sweep.told

WakeInv == catalogue = Commands /\ SweepPromises /\ WorkersAreWoken

\* Whoever is asleep after a step was asleep before it, and then the signal was
\* not given in it; or it has just looked and found nothing.
LEMMA FallsAsleep ==
  ASSUME TypeOK, catalogue = Commands, [Next]_vars, NEW w \in Workers, Asleep(w)'
  PROVE  \/ Asleep(w) /\ (arrival => arrival')
         \/ Queued' = {}
<1> DEFINE Goal == (Asleep(w) /\ (arrival => arrival')) \/ Queued' = {}
<1>1. CASE worker' = worker /\ (arrival => arrival')
  BY <1>1 DEF Asleep
<1>2. ASSUME NEW v \in Workers, NEW place \in WorkerPlaces, Goto(v, place), arrival' = arrival,
             place \notin {"doze", "claimdoze"} \/ Queued' = {}
      PROVE  Goal
  BY <1>2, GotoIs DEF Asleep
<1>3. ASSUME NEW v \in Workers, Start(v) \/ WorkerTimer(v) \/ Interrupted(v) \/ Killed(v)
      PROVE  Goal
  BY <1>2, <1>3 DEF Start, WorkerTimer, Interrupted, Killed, Move, WorkerPlaces
<1>4. ASSUME NEW v \in Workers,
             CallRefused(v) \/ WaitForWork(v) \/ WaitWake(v) \/ TakeSlot(v) \/ VerifyLease(v)
      PROVE  Goal
  BY <1>2, <1>4 DEF CallRefused, WaitForWork, WaitWake, TakeSlot, VerifyLease, Move, WorkerPlaces
<1>5. ASSUME NEW v \in Workers, WaitLook(v) \/ TryClaimNone(v) PROVE Goal
  <2>1. task' = task => Queued' = Queued
    BY DEF Queued
  <2> QED  BY <1>2, <1>5, <2>1 DEF WaitLook, TryClaimNone, NotFound, Move, WorkerPlaces
<1>6. ASSUME NEW v \in Workers, ClaimWake(v) \/ OutputRead(v) \/ OutputWrite(v) \/ Leave(v)
      PROVE  Goal
  BY <1>2, <1>6 DEF ClaimWake, OutputRead, OutputWrite, Leave, Move, WorkerPlaces
<1>7. ASSUME NEW v \in Workers, CompleteRead(v) \/ CompleteFinish(v) PROVE Goal
  BY <1>2, <1>7 DEF CompleteRead, CompleteFinish, Move, WorkerPlaces
<1>8. ASSUME NEW v \in Workers, TryClaimRemoved(v) PROVE Goal
  BY <1>8, CommandsNamed DEF TryClaimRemoved
<1>9. ASSUME NEW v \in Workers, TryClaimTaken(v) \/ GiveBack(v) PROVE Goal
  <2>1. PICK row \in {[pc |-> "idle", job |-> NoTask, woken |-> FALSE]} \cup
                     {[pc |-> "running", job |-> t, woken |-> FALSE] : t \in Tasks} :
          worker' = [worker EXCEPT ![v] = row] /\ arrival' = arrival
    BY <1>9 DEF TryClaimTaken, GiveBack
  <2>2. row.pc \notin {"doze", "claimdoze"}
    BY <2>1
  <2>3. worker' = [worker EXCEPT ![v] = row]
    BY <2>1
  <2> QED  BY <2>1, <2>2, <2>3 DEF Asleep, TypeOK
<1>10. CASE SignalArrivals
  BY <1>10, SignalArrivalsIs DEF Asleep, WatchesArrivals
<1>11. CASE Crash
  BY <1>11, CrashIs DEF Asleep
<1> QED
  <2>1. CASE \E t \in Tasks : \/ Submit(t) \/ Await(t) \/ AwaitStep(t) \/ AwaitTimer(t)
                            \/ AwaitGivesUp(t) \/ CancelRead(t) \/ CancelFinish(t)
                            \/ SignalOutcome(t) \/ Requeue(t)
    BY <1>1, <2>1 DEF Submit, Await, AwaitStep, AwaitLook, AwaitWake, AwaitTimer, AwaitGivesUp,
                      AwaitGoto, CancelRead, CancelFinish, SignalOutcome, Requeue
  <2>2. CASE \E v \in Workers : \/ Lapse(v) \/ Evict(v) \/ Heartbeat(v) \/ ReleaseSlotsFails(v)
                              \/ ReleaseSlots(v)
    BY <1>1, <2>2 DEF Lapse, Evict, Heartbeat, ReleaseSlotsFails, ReleaseSlots
  <2>3. CASE \/ \E S \in SUBSET Workers : ReapStale(S) \/ ReapStaleFails(S)
             \/ RunningTasksOf \/ Requeued \/ RequeueFails \/ Reload \/ UNCHANGED vars
    BY <1>1, <2>3 DEF ReapStale, ReapStaleFails, RunningTasksOf, Requeued, RequeueFails,
                      Reload, vars
  <2> QED  BY <1>3, <1>4, <1>5, <1>6, <1>7, <1>8, <1>9, <1>10, <1>11, <2>1, <2>2, <2>3
           DEF Next, SweepStep, WorkerStep

\* As long as no housekeeping step fails and the daemon does not crash, the sweep
\* keeps its promises, and gives the signal it promised when it is done.
LEMMA SweepKeepsPromises ==
  ASSUME TypeOK, SweepPromises, "fault" \notin Mishaps, [Next]_vars
  PROVE  /\ SweepPromises'
         /\ sweep.told => sweep'.told \/ arrival' \/ Crash
<1> DEFINE Goal == SweepPromises' /\ (sweep.told => sweep'.told \/ arrival' \/ Crash)
<1>0. sweep \in Sweeps
  BY DEF TypeOK
<1>1. CASE sweep' = sweep
  BY <1>1 DEF SweepPromises
<1>2. ASSUME NEW S \in SUBSET Workers, ReapStale(S) PROVE Goal
  BY <1>0, <1>2 DEF ReapStale, SweepPromises, Sweeps
<1>3. ASSUME NEW v \in Workers, ReleaseSlots(v) \/ ReleaseSlotsFails(v) PROVE Goal
  BY <1>0, <1>3 DEF ReleaseSlots, ReleaseSlotsFails, SweepPromises, Sweeps
<1>4. CASE RunningTasksOf
  BY <1>0, <1>4 DEF RunningTasksOf, SweepPromises, Sweeps
<1>5. ASSUME NEW t \in Tasks, Requeue(t) PROVE Goal
  BY <1>0, <1>5 DEF Requeue, SweepPromises, Sweeps
<1>6. CASE Requeued
  BY <1>0, <1>6 DEF Requeued, EndOfWorker, SweepPromises, Sweeps
<1>7. CASE Crash
  BY <1>7 DEF Crash, NoSweep, SweepPromises
<1>8. ~RequeueFails
  BY DEF RequeueFails
<1> QED
  <2>1. CASE \E t \in Tasks : \/ Submit(t) \/ Await(t) \/ AwaitStep(t) \/ AwaitTimer(t)
                            \/ AwaitGivesUp(t) \/ CancelRead(t) \/ CancelFinish(t)
                            \/ SignalOutcome(t)
    BY <1>1, <2>1 DEF Submit, Await, AwaitStep, AwaitLook, AwaitWake, AwaitTimer, AwaitGivesUp,
                      AwaitGoto, CancelRead, CancelFinish, SignalOutcome
  <2>2. CASE \E v \in Workers : \/ Start(v) \/ WorkerTimer(v) \/ Interrupted(v) \/ Killed(v)
                              \/ Lapse(v) \/ Evict(v) \/ Heartbeat(v)
    BY <1>1, <2>2 DEF Start, WorkerTimer, Interrupted, Killed, Lapse, Evict, Heartbeat, Move
  <2>3. CASE \E v \in Workers : WorkerStep(v)
    BY <1>1, <2>3 DEF WorkerStep, CallRefused, WaitForWork, WaitLook, WaitWake, TakeSlot,
                      VerifyLease, TryClaimNone, TryClaimRemoved, TryClaimTaken, ClaimWake,
                      OutputRead, OutputWrite, CompleteRead, CompleteFinish, GiveBack, Leave, Move
  <2>4. CASE \/ \E S \in SUBSET Workers : ReapStaleFails(S)
             \/ Reload \/ SignalArrivals \/ UNCHANGED vars
    BY <1>1, <2>4 DEF ReapStaleFails, Reload, SignalArrivals, vars
  <2> QED  BY <1>2, <1>3, <1>4, <1>5, <1>6, <1>7, <1>8, <2>1, <2>2, <2>3, <2>4
           DEF Next, SweepStep

\* Every step keeps the invariant.
LEMMA WakeStep ==
  ASSUME TypeOK, WakeInv, "fault" \notin Mishaps, "reload" \notin Mishaps, [Next]_vars
  PROVE  WakeInv'
<1> USE DEF WakeInv
<1>1. catalogue' = Commands
  <2>1. CASE Crash \/ Reload \/ UNCHANGED vars
    BY <2>1 DEF Crash, Reload, vars
  <2>2. CASE \E t \in Tasks : \/ Submit(t) \/ Await(t) \/ AwaitStep(t) \/ AwaitTimer(t)
                            \/ AwaitGivesUp(t) \/ CancelRead(t) \/ CancelFinish(t)
                            \/ SignalOutcome(t) \/ Requeue(t)
    BY <2>2 DEF Submit, Await, AwaitStep, AwaitLook, AwaitWake, AwaitTimer, AwaitGivesUp,
                AwaitGoto, CancelRead, CancelFinish, SignalOutcome, Requeue
  <2>3. CASE \E v \in Workers : \/ Start(v) \/ WorkerTimer(v) \/ Interrupted(v) \/ Killed(v)
                              \/ Lapse(v) \/ Evict(v) \/ Heartbeat(v) \/ ReleaseSlots(v)
                              \/ ReleaseSlotsFails(v)
    BY <2>3 DEF Start, WorkerTimer, Interrupted, Killed, Lapse, Evict, Heartbeat, Move,
                ReleaseSlots, ReleaseSlotsFails
  <2>4. CASE \E v \in Workers : WorkerStep(v)
    BY <2>4 DEF WorkerStep, CallRefused, WaitForWork, WaitLook, WaitWake, TakeSlot,
                VerifyLease, TryClaimNone, TryClaimRemoved, TryClaimTaken, ClaimWake,
                OutputRead, OutputWrite, CompleteRead, CompleteFinish, GiveBack, Leave, Move
  <2>5. CASE \/ \E S \in SUBSET Workers : ReapStale(S) \/ ReapStaleFails(S)
             \/ RunningTasksOf \/ Requeued \/ RequeueFails \/ SignalArrivals
    BY <2>5 DEF ReapStale, ReapStaleFails, RunningTasksOf, Requeued, RequeueFails, SignalArrivals
  <2> QED  BY <2>1, <2>2, <2>3, <2>4, <2>5 DEF Next, SweepStep
<1>2. SweepPromises'
  BY SweepKeepsPromises
<1>3. WorkersAreWoken'
  <2> SUFFICES ASSUME NEW w \in Workers, Asleep(w)', Queued' # {}
               PROVE  arrival' \/ sweep'.told
    BY DEF WorkersAreWoken, Asleep
  <2>1. Asleep(w) /\ (arrival => arrival')
    BY FallsAsleep
  <2>2. ~Crash
    BY <2>1, CrashIs DEF Asleep
  <2>3. CASE Queued # {}
    BY <2>1, <2>2, <2>3, SweepKeepsPromises DEF WorkersAreWoken, Asleep
  <2>4. CASE Queued = {}
    <3>1. PICK t \in Tasks : task'[t].state = "queued"
      BY DEF Queued
    <3>2. task[t].state # "queued"
      BY <2>4 DEF Queued
    <3>3. Submitted(t) \/ PutBack(t)
      BY <3>1, <3>2, TaskLife DEF Claimed, WrittenTo, Ended, Finished
    <3> QED  BY <3>3 DEF Submitted, PutBack, SweepPromises
  <2> QED  BY <2>3, <2>4
<1> QED  BY <1>1, <1>2, <1>3

\* A worker asleep while there is work has been woken or is about to be, without
\* the recheck timer, with any number of workers and tasks, as long as the
\* commands stay configured and no step of the housekeeping loop fails.  (With a
\* command removed, tryClaim fails the task and reports no work although the next
\* may be waiting; when the sweep fails part way, what it put back is not announced.)
THEOREM WorkersAreNotForgotten ==
  ASSUME "fault" \notin Mishaps, "reload" \notin Mishaps
  PROVE  Spec => []WorkersAreWoken
<1>1. Init => WakeInv
  BY DEF Init, WakeInv, SweepPromises, NoSweep, WorkersAreWoken
<1>2. TypeOK /\ WakeInv /\ [Next]_vars => WakeInv'
  BY WakeStep
<1>3. WakeInv => WorkersAreWoken
  BY DEF WakeInv
<1> QED  BY <1>1, <1>2, <1>3, DispatchTypeCorrect, PTL DEF Spec

=============================================================================
