-------------------------- MODULE ReportingProofs --------------------------
(***************************************************************************)
(* Proofs about Reporting, for any updates, agents and number of requests. *)
(* The message service's own invariant carries over to the composition.    *)
(***************************************************************************)
EXTENDS Reporting, MessagingProofs, SequenceTheorems

----------------------------------------------------------------------------
\* The phone: no update is forgotten before it was handled.

\* The updates still to be handled are a stretch of the queue.
BatchIsStretch == \E first, last \in Nat : first > 0 /\ batch = first .. last

\* Everything up to the offset, and everything before an update in hand, was
\* handled or is still in hand.
TakenUp ==
  /\ \A u \in 1 .. offset : u \in handled \cup batch
  /\ \A u \in batch : \A v \in 1 .. u : v \in handled \cup batch

\* A report that is being made is that of an update in hand.
ReportInHand == collect # "idle" => batch # {}

PhoneInv ==
  /\ forgotten \in Nat /\ offset \in Nat
  /\ ReportInHand /\ BatchIsStretch /\ TakenUp /\ ForgottenIsHandled

\* The update in hand is the first of the batch, and the rest is a stretch again.
LEMMA CurrentIs ==
  ASSUME BatchIsStretch, batch # {}
  PROVE  /\ Current \in Nat \ {0} /\ Current \in batch
         /\ \A v \in batch : v \in Nat /\ Current <= v
         /\ \E first, last \in Nat : first > 0 /\ batch \ {Current} = first .. last
<1>1. PICK first, last \in Nat : first > 0 /\ batch = first .. last
  BY DEF BatchIsStretch
<1>2. first \in batch /\ \A v \in batch : first <= v
  BY <1>1
<1>3. Current \in batch /\ \A v \in batch : Current <= v
  BY <1>2 DEF Current
<1>4. Current = first
  BY <1>1, <1>2, <1>3
<1>5. batch \ {Current} = (first + 1) .. last
  BY <1>1, <1>4
<1> QED  BY <1>1, <1>3, <1>4, <1>5

\* Taking an update up keeps the invariant: all before it were handled.
LEMMA TakeUpKeeps ==
  ASSUME PhoneInv, batch # {}, TakeUp
  PROVE  /\ offset' \in Nat
         /\ \A u \in 1 .. offset' : u \in handled \cup batch
<1>1. Current \in Nat /\ Current \in batch
  BY CurrentIs DEF PhoneInv
<1>2. offset' = offset \/ offset' = Current
  BY DEF TakeUp
<1> QED  BY <1>1, <1>2 DEF PhoneInv, TakenUp

\* Finishing it keeps it: what leaves the batch is handled.
LEMMA FinishKeeps ==
  ASSUME PhoneInv, batch # {}, Finish, forgotten' = forgotten, offset' \in Nat,
         \A u \in 1 .. offset' : u \in handled \cup batch,
         collect' = "idle"
  PROVE  PhoneInv'
<1>1. batch' \cup handled' = batch \cup handled
  BY CurrentIs DEF Finish, PhoneInv
<1>2. BatchIsStretch'
  BY CurrentIs DEF Finish, PhoneInv, BatchIsStretch
<1>3. batch' \subseteq batch /\ handled \subseteq handled'
  BY DEF Finish
<1>4. TakenUp'
  BY <1>1, <1>3 DEF TakenUp, PhoneInv
<1>5. ForgottenIsHandled'
  BY <1>3 DEF ForgottenIsHandled, PhoneInv
<1> QED  BY <1>2, <1>4, <1>5 DEF PhoneInv, ReportInHand

\* Every step keeps the invariant.
LEMMA PhoneStep == ASSUME PhoneInv, [ReportingNext]_allVars PROVE PhoneInv'
<1>1. CASE UNCHANGED phone /\ (collect' # "idle" => collect # "idle")
  BY <1>1 DEF PhoneInv, ReportInHand, BatchIsStretch, TakenUp, ForgottenIsHandled, phone
<1>2. CASE Poll
  <2>1. PICK f \in Nat : f = forgotten' /\ 1 .. f \subseteq handled
    BY <1>2 DEF Poll, PhoneInv, TakenUp, ForgottenIsHandled
  <2>2. Len(Updates) \in Nat
    BY ReportingAssumption, LenProperties
  <2>3. PICK last \in Nat : last >= f + 1 /\ batch' = (f + 1) .. last
    BY <1>2, <2>1, <2>2 DEF Poll
  <2>4. BatchIsStretch' /\ batch' # {}
    <3>1. f + 1 \in Nat /\ f + 1 > 0 /\ last \in (f + 1) .. last
      BY <2>3
    <3> QED  BY <2>3, <3>1 DEF BatchIsStretch
  <2>5. TakenUp'
    <3>1. \A u \in (f + 1) .. last : \A v \in 1 .. u : v \in 1 .. f \/ v \in (f + 1) .. last
      BY <2>3
    <3>2. \A u \in 1 .. offset : u \in handled
      BY <1>2 DEF Poll, PhoneInv, TakenUp
    <3> QED  BY <1>2, <2>1, <2>3, <3>1, <3>2 DEF Poll, TakenUp
  <2>6. ForgottenIsHandled'
    BY <1>2, <2>1 DEF Poll, ForgottenIsHandled
  <2> QED  BY <1>2, <2>1, <2>4, <2>5, <2>6 DEF Poll, PhoneInv, ReportInHand
<1>3. CASE Ignore \/ Say
  <2>1. /\ forgotten' = forgotten /\ batch # {} /\ TakeUp /\ Finish
        /\ collect' = "idle"
    BY <1>3 DEF Ignore, Say, collector
  <2> QED  BY <2>1, TakeUpKeeps, FinishKeeps
<1>4. CASE List
  <2>1. UNCHANGED <<forgotten, batch, handled>> /\ batch # {} /\ TakeUp
    BY <1>4 DEF List
  <2>2. offset' \in Nat /\ \A u \in 1 .. offset' : u \in handled \cup batch
    BY <2>1, TakeUpKeeps
  <2> QED  BY <2>1, <2>2 DEF PhoneInv, ReportInHand, BatchIsStretch, TakenUp, ForgottenIsHandled
<1>5. CASE CreateRequest
  <2>1. batch # {}
    BY <1>5 DEF CreateRequest, PhoneInv, ReportInHand
  <2>2. CASE collected = {}
    BY <1>5, <2>1, <2>2, FinishKeeps DEF CreateRequest, PhoneInv, TakenUp
  <2>3. CASE collected # {}
    BY <1>1, <1>5, <2>3 DEF CreateRequest, phone
  <2> QED  BY <2>2, <2>3
<1>6. CASE Return
  <2>1. batch # {}
    BY <1>6 DEF Return, PhoneInv, ReportInHand
  <2> QED  BY <1>6, <2>1, FinishKeeps DEF Return, PhoneInv, TakenUp
<1>7. CASE CrashAll
  <2>1. batch' = 1 .. 0
    BY <1>7 DEF CrashAll
  <2>2. BatchIsStretch'
    <3>1. 1 \in Nat /\ 0 \in Nat /\ 1 > 0
      OBVIOUS
    <3> QED  BY <2>1, <3>1 DEF BatchIsStretch
  <2> QED  BY <1>7, <2>1, <2>2 DEF CrashAll, PhoneInv, ReportInHand, TakenUp, ForgottenIsHandled
<1>8. CASE (\E a \in Agents : Ask(a)) \/ Asked \/ Watch \/ Snapshot \/ Sleep \/ Wake \/ Recheck
  BY <1>1, <1>8 DEF Ask, Asked, Watch, Snapshot, Sleep, Wake, Recheck, collector
<1>9. CASE \/ Exchange /\ UNCHANGED <<phone, reports, collector>>
           \/ \E a \in Agents : Submit(a) \/ Signal(a)
           \/ DeadlinePasses
           \/ UNCHANGED allVars
  BY <1>1, <1>9 DEF Submit, Signal, DeadlinePasses, collector, allVars
<1> QED  BY <1>2, <1>3, <1>4, <1>5, <1>6, <1>7, <1>8, <1>9 DEF ReportingNext, Handle

\* What Telegram no longer keeps was handled to the end, whenever the daemon dies
\* and however many updates a poll brings: the offset is named only by the poll
\* after a batch, and a batch is worked through in order.
THEOREM NothingForgotten == ReportingSpec => []ForgottenIsHandled
<1>1. ReportingInit => PhoneInv
  <2> SUFFICES ASSUME ReportingInit PROVE PhoneInv
    OBVIOUS
  <2>1. batch = 1 .. 0 /\ 1 \in Nat /\ 0 \in Nat /\ 1 > 0
    BY DEF ReportingInit
  <2>2. BatchIsStretch
    BY <2>1 DEF BatchIsStretch
  <2> QED  BY <2>2 DEF ReportingInit, PhoneInv, ReportInHand, TakenUp, ForgottenIsHandled
<1>2. PhoneInv /\ [ReportingNext]_allVars => PhoneInv'
  BY PhoneStep
<1>3. PhoneInv => ForgottenIsHandled
  BY DEF PhoneInv
<1> QED  BY <1>1, <1>2, <1>3, PTL DEF ReportingSpec

----------------------------------------------------------------------------
\* The collector: nobody sleeps on a report that is complete.

\* From the moment the channel is taken until the collector is awake again, an
\* answer that the snapshot lacks has closed the channel or is about to.
CollectInv ==
  /\ collect \in {"read", "decide", "asleep"} => channel \in {"open", "closed"}
  /\ collect \in {"decide", "asleep"} =>
       answers \subseteq collected \/ channel = "closed" \/ unsignalled # {}
  /\ collect = "asleep" => ~(asked \subseteq collected)

\* Every step keeps the invariant.
LEMMA CollectStep == ASSUME CollectInv, [ReportingNext]_allVars PROVE CollectInv'
<1> USE DEF CollectInv
<1>1. CASE UNCHANGED <<collect, channel, collected, asked, answers, unsignalled>>
  BY <1>1
<1>2. CASE Poll \/ Ignore \/ Say \/ DeadlinePasses \/ UNCHANGED allVars
           \/ (Exchange /\ UNCHANGED <<phone, reports, collector>>)
  BY <1>1, <1>2 DEF Poll, Ignore, Say, DeadlinePasses, allVars, reports, collector
<1>3. CASE List \/ CreateRequest \/ Asked \/ CrashAll \/ Return
  BY <1>3 DEF List, CreateRequest, Asked, CrashAll, Return
<1>4. ASSUME NEW a \in Agents, Ask(a) PROVE CollectInv'
  BY <1>1, <1>4 DEF Ask, collector
<1>5. CASE Watch
  BY <1>5 DEF Watch
<1>6. CASE Snapshot
  BY <1>6 DEF Snapshot, reports
<1>7. CASE Sleep
  BY <1>7 DEF Sleep, Complete, reports
<1>8. CASE Wake \/ Recheck
  BY <1>8 DEF Wake, Recheck
<1>9. ASSUME NEW a \in Agents, Submit(a) PROVE CollectInv'
  BY <1>9 DEF Submit, AddReport, collector
<1>10. ASSUME NEW a \in Agents, Signal(a) PROVE CollectInv'
  BY <1>10 DEF Signal
<1> QED  BY <1>2, <1>3, <1>4, <1>5, <1>6, <1>7, <1>8, <1>9, <1>10 DEF ReportingNext, Handle

\* A collector that sleeps although everybody answered is about to be woken,
\* whatever answers are stored and signalled between its look and its sleep.
THEOREM CollectorNotForgotten == ReportingSpec => []CollectorIsWoken
<1>1. ReportingInit => CollectInv
  BY DEF ReportingInit, CollectInv
<1>2. CollectInv /\ [ReportingNext]_allVars => CollectInv'
  BY CollectStep
<1>3. CollectInv => CollectorIsWoken
  BY DEF CollectInv, CollectorIsWoken
<1> QED  BY <1>1, <1>2, <1>3, PTL DEF ReportingSpec

----------------------------------------------------------------------------
\* The composition: the phone's letters and questions lose no message either.

\* A step of the composition is a step of the message service, a letter of the
\* operator's, or leaves the message service alone.
LEMMA ReportingSends ==
  ASSUME [ReportingNext]_allVars
  PROVE  \/ [Next]_vars
         \/ \E m \in Messages : \E letter : letter.by \in {"name", "all"} /\ Send(m, letter)
<1>1. CASE UNCHANGED vars
  BY <1>1
<1>2. CASE Say
  <2>1. CASE \E m \in Messages : Send(m, Updates[Current])
    BY <1>2, <2>1 DEF Say
  <2> QED  BY <1>1, <1>2, <2>1 DEF Say
<1>3. ASSUME NEW a \in Agents, Ask(a)
      PROVE  \/ [Next]_vars
             \/ \E m \in Messages : \E letter : letter.by \in {"name", "all"} /\ Send(m, letter)
  <2> DEFINE question == [from |-> Operator, by |-> "name", name |-> NameOf[a]]
  <2>1. question.by = "name"
    OBVIOUS
  <2>2. CASE \E m \in Messages : Send(m, question)
    <3> HIDE DEF question
    <3> QED  BY <2>1, <2>2
  <2>3. UNCHANGED vars \/ \E m \in Messages : Send(m, question)
    BY <1>3 DEF Ask
  <2> QED  BY <1>1, <2>2, <2>3
<1>4. CASE Exchange
  BY <1>4 DEF Exchange, Next, MessagingStep, Read
<1>5. CASE CrashAll
  BY <1>5 DEF CrashAll, Next
<1>6. CASE Poll \/ Ignore \/ List \/ CreateRequest \/ Asked \/ DeadlinePasses \/ UNCHANGED allVars
  BY <1>1, <1>6 DEF Poll, Ignore, List, CreateRequest, Asked, DeadlinePasses, allVars
<1>7. CASE Watch \/ Snapshot \/ Return \/ Sleep \/ Wake \/ Recheck
  BY <1>1, <1>7 DEF Watch, Snapshot, Return, Sleep, Wake, Recheck
<1>8. CASE \E a \in Agents : Submit(a) \/ Signal(a)
  BY <1>1, <1>8 DEF Submit, Signal
<1> QED  BY <1>2, <1>3, <1>4, <1>5, <1>6, <1>7, <1>8 DEF ReportingNext, Handle

\* The message service keeps its promise under the phone as well: no /say,
\* /broadcast or question of a report makes a message be lost.
THEOREM ReportsLoseNothing == ReportingSpec => []NotLost
<1>1. ReportingInit => TypeOK /\ DeliveryInv
  BY MailInit DEF ReportingInit
<1>2. TypeOK /\ DeliveryInv /\ [ReportingNext]_allVars => (TypeOK /\ DeliveryInv)'
  <2> SUFFICES ASSUME TypeOK, DeliveryInv, [ReportingNext]_allVars
               PROVE  (TypeOK /\ DeliveryInv)'
    OBVIOUS
  <2>1. CASE [Next]_vars
    BY <2>1, TypeStep, DeliveryStep DEF DeliveryInv
  <2>2. ASSUME NEW m \in Messages, NEW letter, letter.by \in {"name", "all"}, Send(m, letter)
        PROVE  (TypeOK /\ DeliveryInv)'
    BY <2>2, SendTyped, SendKeeps
  <2> QED  BY <2>1, <2>2, ReportingSends
<1>3. DeliveryInv => NotLost
  BY DEF DeliveryInv
<1> QED  BY <1>1, <1>2, <1>3, PTL DEF ReportingSpec

=============================================================================
