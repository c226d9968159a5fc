-------------------------- MODULE MessagingProofs --------------------------
(***************************************************************************)
(* Proofs about Messaging, for any roster, letters, number of messages and *)
(* inbox limit.                                                            *)
(***************************************************************************)
EXTENDS Messaging, FiniteSetTheorems, TLAPS

\* A relay is under way only while there is a bridge.
RelaysOnline == \A m \in Messages : relay[m] # NoRelay => bridge \in Agents

\* The message a relay is about to acknowledge is one the bridge has forwarded.
ForwardedFirst ==
  \A m \in Messages :
    relay[m].stage = "acknowledge" => \A k \in Oldest(relay[m].items) : bridge \in dealt[k]

\* Numbers that were not used yet have no deliveries.
UnsentIsBlank == \A m \in Messages : m > sent => to[m] = {}

\* A delivery is marked only where there is one, and acknowledged only when marked.
DeliveriesOrdered ==
  \A m \in Messages : acked[m] \subseteq delivered[m] /\ delivered[m] \subseteq to[m]

\* The inductive invariant.
DeliveryInv ==
  RelaysOnline /\ ForwardedFirst /\ UnsentIsBlank /\ DeliveriesOrdered /\ NotLost

----------------------------------------------------------------------------
\* What the helpers of the model do.

\* Zero is no agent, and messages are numbered from one.
LEMMA Numbers == NoBridge \notin Agents /\ Messages \subseteq Nat /\ MaxMessages \in Nat
BY MessagingAssumption DEF NoBridge, Agents, Messages

\* Only one message of a batch is the oldest.
LEMMA OneOldest ==
  ASSUME NEW items \in SUBSET Messages, NEW j \in Oldest(items), NEW k \in Oldest(items)
  PROVE  j = k
BY Numbers DEF Oldest

\* Whoever is addressed exists.
LEMMA RecipientsExist ==
  ASSUME TypeOK, NEW letter, letter.by \in {"name", "all", "topic"}
  PROVE  Recipients(letter) \subseteq Agents
<1>1. FindForDelivery(letter.name) \subseteq Agents
  BY DEF FindForDelivery, Bearers, ActiveAgents
<1>2. WithoutSender(ActiveAgents, letter) \subseteq Agents
  BY DEF WithoutSender, ActiveAgents
<1>3. WithoutSender(subscribers, letter) \subseteq Agents
  BY DEF WithoutSender, TypeOK
<1>4. CASE letter.by = "name"
  BY <1>1, <1>4 DEF Recipients
<1>5. CASE letter.by = "all"
  BY <1>2, <1>5 DEF Recipients
<1>6. CASE letter.by = "topic"
  BY <1>3, <1>6 DEF Recipients
<1> QED  BY <1>4, <1>5, <1>6

\* Marking and acknowledging keep the types.
LEMMA MarkTyped ==
  ASSUME TypeOK, NEW a, NEW items, MarkDelivered(a, items)
  PROVE  delivered' \in [Messages -> SUBSET Agents]
BY DEF TypeOK, MarkDelivered

\* The same for an acknowledgement.
LEMMA AckedTyped ==
  ASSUME TypeOK, NEW a, NEW items, Acked(a, items)
  PROVE  delivered' \in [Messages -> SUBSET Agents] /\ acked' \in [Messages -> SUBSET Agents]
BY DEF TypeOK, Acked

\* The end of an item keeps the types; what is left of the batch is forwarded next.
LEMMA NextItemIs ==
  ASSUME TypeOK, NEW m \in Messages, NEW k, NextItem(m, k)
  PROVE  /\ relay' \in [Messages -> Relays]
         /\ owed' \subseteq Messages
         /\ \A n \in Messages : n # m => relay'[n] = relay[n]
         /\ relay'[m] = NoRelay \/ relay'[m].stage = "forward"
<1>1. relay[m] \in Relays /\ NoRelay \in Relays
  BY DEF TypeOK, Relays, NoRelay
<1>2. [stage |-> "forward", items |-> relay[m].items \ {k}] \in Relays
  BY <1>1 DEF Relays
<1>3. CASE relay[m].items \ {k} = {}
  BY <1>1, <1>3 DEF TypeOK, NextItem
<1>4. CASE relay[m].items \ {k} # {}
  <2>1. /\ relay' = [relay EXCEPT ![m] = [stage |-> "forward", items |-> relay[m].items \ {k}]]
        /\ owed' = owed
    BY <1>4 DEF NextItem
  <2>2. relay'[m] = [stage |-> "forward", items |-> relay[m].items \ {k}]
    BY <2>1 DEF TypeOK
  <2> QED  BY <1>2, <2>1, <2>2 DEF TypeOK
<1> QED  BY <1>3, <1>4

----------------------------------------------------------------------------
\* Types.

\* Sending keeps the types, whatever letter it is.
LEMMA SendTyped ==
  ASSUME TypeOK, NEW m \in Messages, NEW letter, letter.by \in {"name", "all", "topic"},
         Send(m, letter)
  PROVE  TypeOK'
<1>1. to' \in [Messages -> SUBSET Agents]
  BY RecipientsExist DEF Send, AppendMessage, TypeOK
<1>2. sent' \in 0 .. MaxMessages
  BY Numbers DEF Send, AppendMessage, Messages
<1>3. owed' \subseteq Messages
  BY DEF Send, TypeOK
<1> QED  BY <1>1, <1>2, <1>3 DEF Send, AppendMessage, TypeOK

\* What the roster does keeps the types.
LEMMA RosterTyped ==
  ASSUME TypeOK, NEW a \in Agents,
         \/ Join(a) \/ BridgeRegisters(a) \/ Heartbeat(a) \/ Subscribe(a) \/ Unsubscribe(a)
  PROVE  TypeOK'
<1> USE DEF calls, TypeOK, RosterStates
<1>1. CASE Join(a)
  BY <1>1 DEF Join, Create
<1>2. CASE BridgeRegisters(a)
  BY <1>2 DEF BridgeRegisters, Create
<1>3. CASE Heartbeat(a)
  BY <1>3 DEF Heartbeat
<1>4. CASE Subscribe(a) \/ Unsubscribe(a)
  BY <1>4 DEF Subscribe, Unsubscribe
<1> QED  BY <1>1, <1>2, <1>3, <1>4

\* The bridge's part in a send keeps the types: only a bridge that is there forwards.
LEMMA RelayTyped ==
  ASSUME TypeOK, RelaysOnline, NEW m \in Messages, Relay(m)
  PROVE  TypeOK'
<1>0. relay[m] \in Relays
  BY DEF TypeOK
<1>1. CASE RelayRead(m)
  <2>1. [stage |-> "mark", items |-> Pending(bridge)] \in Relays
    BY DEF Pending, Unacknowledged, Relays, TypeOK
  <2>2. relay' \in [Messages -> Relays]
    BY <1>1, <2>1 DEF RelayRead, TypeOK
  <2>3. owed' \subseteq Messages
    BY <1>1 DEF RelayRead, TypeOK
  <2> QED  BY <1>1, <2>2, <2>3 DEF RelayRead, tables, TypeOK
<1>2. CASE RelayMark(m)
  <2>1. [relay[m] EXCEPT !.stage = "forward"] \in Relays
    BY <1>0 DEF Relays
  <2>2. relay' \in [Messages -> Relays]
    BY <1>2, <2>1 DEF RelayMark, TypeOK
  <2> QED  BY <1>2, <2>2, MarkTyped DEF RelayMark, TypeOK
<1>3. CASE Forward(m)
  <2>1. [relay[m] EXCEPT !.stage = "acknowledge"] \in Relays
    BY <1>0 DEF Relays
  <2>2. relay' \in [Messages -> Relays]
    BY <1>3, <2>1 DEF Forward, TypeOK
  <2>3. bridge \in Agents
    <3>1. NoRelay.stage = "none" /\ relay[m].stage = "forward"
      BY <1>3 DEF Forward, NoRelay
    <3> QED  BY <3>1 DEF RelaysOnline
  <2>4. dealt' \in [Messages -> SUBSET Agents]
    <3>1. PICK k \in Messages : dealt' = [dealt EXCEPT ![k] = @ \cup {bridge}]
      BY <1>0, <1>3 DEF Forward, Oldest, Relays
    <3>2. dealt[k] \cup {bridge} \subseteq Agents
      BY <2>3 DEF TypeOK
    <3> QED  BY <3>1, <3>2 DEF TypeOK
  <2> QED  BY <1>3, <2>2, <2>4 DEF Forward, tables, TypeOK
<1>4. CASE RelayAcknowledge(m)
  <2>1. PICK k : Acked(bridge, {k}) /\ NextItem(m, k)
    BY <1>4 DEF RelayAcknowledge
  <2>2. relay' \in [Messages -> Relays] /\ owed' \subseteq Messages
    BY <2>1, NextItemIs
  <2>3. delivered' \in [Messages -> SUBSET Agents] /\ acked' \in [Messages -> SUBSET Agents]
    BY <2>1, AckedTyped
  <2> QED  BY <1>4, <2>2, <2>3 DEF RelayAcknowledge, TypeOK
<1> QED  BY <1>1, <1>2, <1>3, <1>4 DEF Relay

\* Reading the inbox, acting and acknowledging keep the types.
LEMMA ReadTyped ==
  ASSUME TypeOK, NEW a \in Agents, Read(a)
  PROVE  TypeOK'
<1>1. CASE InboxRead(a)
  <2>1. Pending(a) \subseteq Messages
    BY DEF Pending, Unacknowledged, TypeOK
  <2> QED  BY <1>1, <2>1 DEF InboxRead, tables, TypeOK
<1>2. CASE InboxMark(a)
  BY <1>2, MarkTyped DEF InboxMark, TypeOK
<1>3. ASSUME NEW m \in Messages, Act(a, m) PROVE TypeOK'
  BY <1>3 DEF Act, tables, calls, TypeOK
<1>4. CASE Acknowledge(a)
  <2>1. PICK items : Acked(a, items) /\ shown' = [shown EXCEPT ![a] = @ \ items]
    BY <1>4 DEF Acknowledge
  <2>2. shown' \in [Agents -> SUBSET Messages]
    BY <2>1 DEF TypeOK
  <2>3. delivered' \in [Messages -> SUBSET Agents] /\ acked' \in [Messages -> SUBSET Agents]
    BY <2>1, AckedTyped
  <2> QED  BY <1>4, <2>2, <2>3 DEF Acknowledge, calls, TypeOK
<1> QED  BY <1>1, <1>2, <1>3, <1>4 DEF Read

\* What goes wrong keeps the types.
LEMMA MishapTyped ==
  ASSUME TypeOK, Mishap \/ Crash
  PROVE  TypeOK'
<1>0. mishaps' \in 0 .. MaxMishaps
  BY MessagingAssumption DEF Mishap, Crash, OneMore, TypeOK
<1>1. NoRelay \in Relays
  BY DEF NoRelay, Relays
<1>2. ASSUME NEW m \in Messages, RelayFails(m) PROVE TypeOK'
  <2>1. relay' \in [Messages -> Relays] /\ owed' \subseteq Messages
    BY <1>1, <1>2, NextItemIs DEF RelayFails, TypeOK
  <2> QED  BY <1>0, <1>2, <2>1 DEF RelayFails, tables, TypeOK
<1>3. ASSUME NEW a \in Agents, Restarts(a) PROVE TypeOK'
  BY <1>0, <1>3 DEF Restarts, tables, TypeOK
<1>4. ASSUME NEW a \in Agents, GoesStale(a) \/ Deregister(a) PROVE TypeOK'
  BY <1>0, <1>4 DEF GoesStale, Deregister, calls, TypeOK, RosterStates
<1>5. CASE Crash
  BY <1>0, <1>1, <1>5 DEF Crash, tables, TypeOK
<1>6. ASSUME NEW m \in Messages, RelayTimesOut(m) PROVE TypeOK'
  BY <1>0, <1>1, <1>6 DEF RelayTimesOut, tables, TypeOK
<1> QED  BY <1>2, <1>3, <1>4, <1>5, <1>6 DEF Mishap

\* Every step keeps every variable in its type.
LEMMA TypeStep == ASSUME TypeOK, RelaysOnline, [Next]_vars PROVE TypeOK'
<1>1. ASSUME NEW m \in Messages, NEW letter \in Letters, Send(m, letter) PROVE TypeOK'
  BY <1>1, SendTyped, MessagingAssumption
<1>2. ASSUME NEW m \in Messages, Prune(m) PROVE TypeOK'
  BY <1>2 DEF Prune, calls, TypeOK
<1>3. CASE UNCHANGED vars
  BY <1>3 DEF vars, TypeOK
<1> QED  BY <1>1, <1>2, <1>3, RosterTyped, RelayTyped, ReadTyped, MishapTyped
         DEF Next, MessagingStep
----------------------------------------------------------------------------
\* Nothing is lost.

\* The variables the invariant speaks of.
mail == <<sent, kept, to, delivered, acked, relay, dealt, bridge>>

\* A step that leaves them alone keeps the invariant.
LEMMA MailUntouched == ASSUME DeliveryInv, UNCHANGED mail PROVE DeliveryInv'
BY DEF DeliveryInv, mail, RelaysOnline, ForwardedFirst, UnsentIsBlank, DeliveriesOrdered,
       NotLost, Unacknowledged

\* Sending keeps the invariant, whatever letter it is: the number is fresh, so
\* nobody has acknowledged or been given the message.
LEMMA SendKeeps ==
  ASSUME TypeOK, DeliveryInv, NEW m \in Messages, NEW letter, Send(m, letter)
  PROVE  DeliveryInv'
<1> USE DEF DeliveryInv, Send, AppendMessage
<1>0. sent \in Nat /\ m \in Nat /\ m > sent /\ sent' = m
  BY Numbers DEF TypeOK
<1>1. to[m] = {} /\ acked[m] = {} /\ delivered[m] = {}
  BY <1>0 DEF UnsentIsBlank, DeliveriesOrdered
<1>2. \A n \in Messages : n # m => to'[n] = to[n]
  BY DEF TypeOK
<1>3. UnsentIsBlank'
  BY <1>0, <1>2, Numbers DEF UnsentIsBlank
<1>4. DeliveriesOrdered'
  BY <1>1, <1>2 DEF DeliveriesOrdered
<1>5. NotLost'
  <2> SUFFICES ASSUME NEW n \in Messages, NEW a \in to'[n]
               PROVE  a \in dealt[n] \/ (n \in kept' /\ a \notin acked[n])
    BY DEF NotLost, Unacknowledged
  <2>1. CASE n = m
    BY <1>1, <2>1
  <2>2. CASE n # m
    BY <1>2, <2>2 DEF NotLost, Unacknowledged
  <2> QED  BY <2>1, <2>2
<1> QED  BY <1>3, <1>4, <1>5 DEF RelaysOnline, ForwardedFirst

\* So does marking what was delivered.
LEMMA MarkKeeps ==
  ASSUME TypeOK, DeliveriesOrdered, NEW a, NEW items, MarkDelivered(a, items),
         UNCHANGED <<to, acked>>
  PROVE  DeliveriesOrdered'
BY DEF DeliveriesOrdered, MarkDelivered

\* An agent that acknowledges only what it has dealt with, as far as it is its
\* own, loses nothing.
LEMMA AckedKeeps ==
  ASSUME TypeOK, DeliveriesOrdered, NotLost, NEW a, NEW items, Acked(a, items),
         \A k \in items \cap Messages : a \in to[k] => a \in dealt[k],
         UNCHANGED <<kept, to, dealt>>
  PROVE  DeliveriesOrdered' /\ NotLost'
<1>1. DeliveriesOrdered'
  BY DEF DeliveriesOrdered, Acked
<1>2. ASSUME NEW n \in Messages, NEW b \in to[n]
      PROVE  b \in dealt[n] \/ (n \in kept /\ b \notin acked'[n])
  BY DEF NotLost, Unacknowledged, Acked
<1> QED  BY <1>1, <1>2 DEF NotLost, Unacknowledged

\* The end of an item leaves no relay about to acknowledge anew.
LEMMA NextItemKeeps ==
  ASSUME TypeOK, RelaysOnline, ForwardedFirst, NEW m \in Messages, NEW k, NextItem(m, k),
         relay[m] # NoRelay, UNCHANGED <<dealt, bridge>>
  PROVE  RelaysOnline' /\ ForwardedFirst'
<1>1. NoRelay.stage = "none"
  BY DEF NoRelay
<1>2. /\ \A n \in Messages : n # m => relay'[n] = relay[n]
      /\ relay'[m] = NoRelay \/ relay'[m].stage = "forward"
  BY NextItemIs
<1> QED  BY <1>1, <1>2 DEF RelaysOnline, ForwardedFirst

\* The bridge's part in a send keeps the invariant.
LEMMA RelayKeeps ==
  ASSUME TypeOK, DeliveryInv, NEW m \in Messages, Relay(m)
  PROVE  DeliveryInv'
<1> USE DEF DeliveryInv
<1>0. relay[m] \in Relays /\ NoRelay.stage = "none"
  BY DEF TypeOK, NoRelay
<1>1. CASE RelayRead(m)
  <2>1. CASE Pending(bridge) = {}
    BY <1>1, <2>1, MailUntouched DEF RelayRead, tables, mail
  <2>2. CASE Pending(bridge) # {}
    <3>1. /\ \A n \in Messages : n # m => relay'[n] = relay[n]
          /\ relay'[m].stage = "mark"
      BY <1>1, <2>2 DEF RelayRead, TypeOK
    <3>2. bridge \in Agents
      <4>1. PICK k \in Messages : bridge \in to[k]
        BY <2>2 DEF Pending, Unacknowledged, TypeOK
      <4> QED  BY <4>1 DEF TypeOK
    <3>3. RelaysOnline' /\ ForwardedFirst'
      BY <1>1, <3>1, <3>2 DEF RelayRead, RelaysOnline, ForwardedFirst
    <3> QED  BY <1>1, <3>3 DEF RelayRead, tables, UnsentIsBlank, DeliveriesOrdered, NotLost,
                               Unacknowledged
  <2> QED  BY <2>1, <2>2
<1>2. CASE RelayMark(m)
  <2>1. /\ \A n \in Messages : n # m => relay'[n] = relay[n]
        /\ relay'[m] = [relay[m] EXCEPT !.stage = "forward"]
    BY <1>2 DEF RelayMark, TypeOK
  <2>2. relay'[m].stage = "forward"
    BY <1>0, <2>1 DEF Relays
  <2>3. relay[m] # NoRelay
    BY <1>0, <1>2 DEF RelayMark
  <2>4. RelaysOnline' /\ ForwardedFirst'
    BY <1>2, <2>1, <2>2, <2>3 DEF RelayMark, RelaysOnline, ForwardedFirst
  <2>5. DeliveriesOrdered'
    BY <1>2, MarkKeeps DEF RelayMark
  <2> QED  BY <1>2, <2>4, <2>5 DEF RelayMark, UnsentIsBlank, NotLost, Unacknowledged
<1>3. CASE Forward(m)
  <2>1. PICK k \in Oldest(relay[m].items) : dealt' = [dealt EXCEPT ![k] = @ \cup {bridge}]
    BY <1>3 DEF Forward
  <2>2. relay[m].items \subseteq Messages /\ k \in Messages
    BY <1>0, <2>1 DEF Relays, Oldest
  <2>3. \A n \in Messages : dealt[n] \subseteq dealt'[n]
    BY <2>1 DEF TypeOK
  <2>4. bridge \in dealt'[k]
    BY <2>1, <2>2 DEF TypeOK
  <2>5. /\ \A n \in Messages : n # m => relay'[n] = relay[n]
        /\ relay'[m] = [relay[m] EXCEPT !.stage = "acknowledge"]
    BY <1>3 DEF Forward, TypeOK
  <2>6. relay'[m].items = relay[m].items
    BY <1>0, <2>5 DEF Relays
  <2>7. relay[m] # NoRelay
    BY <1>0, <1>3 DEF Forward
  <2>8. RelaysOnline'
    BY <1>3, <2>5, <2>7 DEF RelaysOnline, Forward
  <2>9. ForwardedFirst'
    <3> SUFFICES ASSUME NEW n \in Messages, relay'[n].stage = "acknowledge",
                        NEW j \in Oldest(relay'[n].items)
                 PROVE  bridge \in dealt'[j]
      BY <1>3 DEF ForwardedFirst, Forward
    <3>1. CASE n = m
      BY <2>2, <2>4, <2>6, <3>1, OneOldest
    <3>2. CASE n # m
      <4>1. relay[n] \in Relays
        BY DEF TypeOK
      <4>2. j \in Oldest(relay[n].items) /\ j \in Messages
        BY <2>5, <3>2, <4>1 DEF Oldest, Relays
      <4> QED  BY <2>3, <2>5, <3>2, <4>2 DEF ForwardedFirst
    <3> QED  BY <3>1, <3>2
  <2>10. NotLost'
    BY <1>3, <2>3 DEF Forward, tables, NotLost, Unacknowledged
  <2> QED  BY <1>3, <2>8, <2>9, <2>10 DEF Forward, tables, UnsentIsBlank, DeliveriesOrdered
<1>4. CASE RelayAcknowledge(m)
  <2>1. PICK k \in Oldest(relay[m].items) : Acked(bridge, {k}) /\ NextItem(m, k)
    BY <1>4 DEF RelayAcknowledge
  <2>2. bridge \in dealt[k]
    BY <1>4, <2>1 DEF RelayAcknowledge, ForwardedFirst
  <2>3. DeliveriesOrdered' /\ NotLost'
    BY <1>4, <2>1, <2>2, AckedKeeps DEF RelayAcknowledge
  <2>4. relay[m] # NoRelay
    BY <1>0, <1>4 DEF RelayAcknowledge
  <2>5. RelaysOnline' /\ ForwardedFirst'
    BY <1>4, <2>1, <2>4, NextItemKeeps DEF RelayAcknowledge
  <2> QED  BY <1>4, <2>3, <2>5 DEF RelayAcknowledge, UnsentIsBlank
<1> QED  BY <1>1, <1>2, <1>3, <1>4 DEF Relay

\* What an agent does with its inbox keeps the invariant.
LEMMA ReadKeeps ==
  ASSUME TypeOK, DeliveryInv, NEW a \in Agents, Read(a)
  PROVE  DeliveryInv'
<1> USE DEF DeliveryInv
<1>1. CASE InboxRead(a)
  BY <1>1, MailUntouched DEF InboxRead, tables, mail
<1>2. CASE InboxMark(a)
  <2>1. DeliveriesOrdered'
    BY <1>2, MarkKeeps DEF InboxMark
  <2> QED  BY <1>2, <2>1 DEF InboxMark, RelaysOnline, ForwardedFirst, UnsentIsBlank, NotLost,
                             Unacknowledged
<1>3. ASSUME NEW m \in Messages, Act(a, m) PROVE DeliveryInv'
  <2>1. \A n \in Messages : dealt[n] \subseteq dealt'[n]
    BY <1>3 DEF Act, TypeOK
  <2>2. ForwardedFirst'
    <3>1. \A n \in Messages : relay[n].items \subseteq Messages
      BY DEF TypeOK, Relays
    <3> QED  BY <1>3, <2>1, <3>1 DEF ForwardedFirst, Act, calls, Oldest
  <2>3. NotLost'
    BY <1>3, <2>1 DEF NotLost, Act, tables, Unacknowledged
  <2> QED  BY <1>3, <2>2, <2>3 DEF Act, tables, calls, RelaysOnline, UnsentIsBlank,
                                   DeliveriesOrdered
<1>4. CASE Acknowledge(a)
  <2>1. PICK items \in SUBSET ({m \in shown[a] : a \in dealt[m]} \cup {m \in Messages : a \notin to[m]}) :
          Acked(a, items)
    BY <1>4 DEF Acknowledge
  <2>2. DeliveriesOrdered' /\ NotLost'
    BY <1>4, <2>1, AckedKeeps DEF Acknowledge
  <2> QED  BY <1>4, <2>2 DEF Acknowledge, calls, RelaysOnline, ForwardedFirst, UnsentIsBlank
<1> QED  BY <1>1, <1>2, <1>3, <1>4 DEF Read

\* What goes wrong keeps the invariant.
LEMMA MishapKeeps ==
  ASSUME TypeOK, DeliveryInv, Mishap \/ Crash
  PROVE  DeliveryInv'
<1> USE DEF DeliveryInv
<1>0. NoRelay.stage = "none"
  BY DEF NoRelay
<1>1. ASSUME NEW m \in Messages, RelayFails(m) PROVE DeliveryInv'
  <2>1. CASE relay' = [relay EXCEPT ![m] = NoRelay]
    <3>1. RelaysOnline' /\ ForwardedFirst'
      BY <1>0, <1>1, <2>1 DEF RelayFails, RelaysOnline, ForwardedFirst, TypeOK
    <3> QED  BY <1>1, <3>1 DEF RelayFails, tables, UnsentIsBlank, DeliveriesOrdered, NotLost,
                               Unacknowledged
  <2>2. CASE relay[m].stage = "acknowledge" /\ \E k \in Oldest(relay[m].items) : NextItem(m, k)
    <3>1. relay[m] # NoRelay
      BY <1>0, <2>2
    <3>2. RelaysOnline' /\ ForwardedFirst'
      BY <1>1, <2>2, <3>1, NextItemKeeps DEF RelayFails
    <3> QED  BY <1>1, <3>2 DEF RelayFails, tables, UnsentIsBlank, DeliveriesOrdered, NotLost,
                               Unacknowledged
  <2> QED  BY <1>1, <2>1, <2>2 DEF RelayFails
<1>2. ASSUME NEW a \in Agents, Restarts(a) \/ GoesStale(a) \/ Deregister(a) PROVE DeliveryInv'
  BY <1>2, MailUntouched DEF Restarts, GoesStale, Deregister, tables, calls, mail
<1>3. CASE Crash
  <2>1. RelaysOnline' /\ ForwardedFirst'
    BY <1>0, <1>3 DEF Crash, RelaysOnline, ForwardedFirst
  <2> QED  BY <1>3, <2>1 DEF Crash, tables, UnsentIsBlank, DeliveriesOrdered, NotLost,
                             Unacknowledged
<1>4. ASSUME NEW m \in Messages, RelayTimesOut(m) PROVE DeliveryInv'
  <2>1. RelaysOnline' /\ ForwardedFirst'
    BY <1>0, <1>4 DEF RelayTimesOut, RelaysOnline, ForwardedFirst, TypeOK
  <2> QED  BY <1>4, <2>1 DEF RelayTimesOut, tables, UnsentIsBlank, DeliveriesOrdered, NotLost,
                             Unacknowledged
<1> QED  BY <1>1, <1>2, <1>3, <1>4 DEF Mishap

\* What the roster does keeps it: a bridge registers only when no relay runs.
LEMMA RosterKeeps ==
  ASSUME TypeOK, DeliveryInv, NEW a \in Agents,
         Join(a) \/ BridgeRegisters(a) \/ Heartbeat(a) \/ Subscribe(a) \/ Unsubscribe(a)
  PROVE  DeliveryInv'
<1> USE DEF DeliveryInv
<1>1. CASE Join(a) \/ Heartbeat(a) \/ Subscribe(a) \/ Unsubscribe(a)
  BY <1>1, MailUntouched DEF Join, Heartbeat, Subscribe, Unsubscribe, calls, mail
<1>2. CASE BridgeRegisters(a)
  <2>1. \A m \in Messages : relay[m] = NoRelay
    BY <1>2, Numbers DEF BridgeRegisters, RelaysOnline
  <2>2. NoRelay.stage = "none"
    BY DEF NoRelay
  <2>3. RelaysOnline' /\ ForwardedFirst'
    BY <1>2, <2>1, <2>2 DEF BridgeRegisters, RelaysOnline, ForwardedFirst
  <2> QED  BY <1>2, <2>3 DEF BridgeRegisters, UnsentIsBlank, DeliveriesOrdered, NotLost,
                             Unacknowledged
<1> QED  BY <1>1, <1>2

\* Every step keeps the invariant; pruning deletes only what everybody dealt with.
LEMMA DeliveryStep == ASSUME TypeOK, DeliveryInv, [Next]_vars PROVE DeliveryInv'
<1>1. ASSUME NEW m \in Messages, Prune(m) PROVE DeliveryInv'
  <2>1. NotLost'
    BY <1>1 DEF DeliveryInv, NotLost, Unacknowledged, Prune
  <2> QED  BY <1>1, <2>1 DEF DeliveryInv, Prune, calls, RelaysOnline, ForwardedFirst,
                             UnsentIsBlank, DeliveriesOrdered
<1>2. CASE UNCHANGED vars
  BY <1>2, MailUntouched DEF vars, mail
<1> QED  BY <1>1, <1>2, SendKeeps, RelayKeeps, ReadKeeps, MishapKeeps, RosterKeeps
         DEF Next, MessagingStep

\* The initial state satisfies both.
LEMMA MailInit == Init => TypeOK /\ DeliveryInv
<1> SUFFICES ASSUME Init PROVE TypeOK /\ DeliveryInv
  OBVIOUS
<1>1. NoRelay \in Relays /\ NoRelay.stage = "none"
  BY DEF NoRelay, Relays
<1>2. TypeOK
  BY <1>1, MessagingAssumption DEF Init, TypeOK, RosterStates
<1>3. DeliveryInv
  BY <1>1 DEF Init, DeliveryInv, RelaysOnline, ForwardedFirst, UnsentIsBlank, DeliveriesOrdered,
              NotLost
<1> QED  BY <1>2, <1>3

\* Both hold in every state.
LEMMA MailInvariant == Spec => [](TypeOK /\ DeliveryInv)
<1>1. TypeOK /\ DeliveryInv /\ [Next]_vars => (TypeOK /\ DeliveryInv)'
  BY TypeStep, DeliveryStep DEF DeliveryInv
<1> QED  BY <1>1, MailInit, PTL DEF Spec

\* Every variable of the message service keeps its type: a message is delivered to
\* agents that exist, by calls of theirs, and nothing is forwarded by no bridge.
THEOREM MessagingTypeCorrect == Spec => []TypeOK
BY MailInvariant, PTL

\* A message stays in the table, unacknowledged, until each of its recipients has
\* acted on it, whatever reads, relays, prunings, restarts and crashes interleave.
THEOREM NoMessageIsLost == Spec => []NotLost
<1>1. DeliveryInv => NotLost
  BY DEF DeliveryInv
<1> QED  BY <1>1, MailInvariant, PTL

\* What the log shows follows from the order of the marks: a message is
\* acknowledged by all its recipients exactly when pruning may delete it.
LEMMA CountsAgree == TypeOK /\ DeliveryInv => LogCountsAgree
<1> SUFFICES ASSUME TypeOK, DeliveryInv, NEW m \in kept
             PROVE  /\ Cardinality(acked[m]) <= Cardinality(delivered[m])
                    /\ Cardinality(delivered[m]) <= Cardinality(to[m])
                    /\ (Cardinality(acked[m]) = Cardinality(to[m])) = (to[m] \subseteq acked[m])
  BY DEF LogCountsAgree, LogRecord
<1>1. m \in Messages
  BY DEF TypeOK
<1>2. IsFiniteSet(Agents)
  <2>1. Len(NameOf) \in Nat
    BY MessagingAssumption
  <2> QED  BY <2>1, FS_Interval DEF Agents
<1>3. to[m] \in SUBSET Agents
  BY <1>1 DEF TypeOK
<1>4. IsFiniteSet(to[m])
  BY <1>2, <1>3, FS_Subset
<1>5. delivered[m] \in SUBSET to[m] /\ acked[m] \in SUBSET delivered[m] /\ acked[m] \in SUBSET to[m]
  BY <1>1 DEF DeliveryInv, DeliveriesOrdered
<1>6. IsFiniteSet(delivered[m]) /\ Cardinality(delivered[m]) <= Cardinality(to[m])
  BY <1>4, <1>5, FS_Subset
<1>7. Cardinality(acked[m]) <= Cardinality(delivered[m])
  BY <1>5, <1>6, FS_Subset
<1>8. Cardinality(acked[m]) = Cardinality(to[m]) => to[m] = acked[m]
  BY <1>4, <1>5, FS_Subset
<1>9. to[m] \subseteq acked[m] => to[m] = acked[m]
  BY <1>5
<1>10. (Cardinality(acked[m]) = Cardinality(to[m])) <=> (to[m] \subseteq acked[m])
  BY <1>8, <1>9
<1> QED  BY <1>6, <1>7, <1>10

\* The operator's log tells the truth, with any number of recipients: the three
\* counts are in order, and all have acknowledged exactly when it may be pruned.
THEOREM LogTellsTheTruth == Spec => []LogCountsAgree
BY CountsAgree, MailInvariant, PTL

=============================================================================
