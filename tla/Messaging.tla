----------------------------- MODULE Messaging -----------------------------
(***************************************************************************)
(* Messages between agents: internal/service/messaging over the tables     *)
(* messages, deliveries and subscriptions, the roster as far as addressing *)
(* reads it, agents that read their inbox, act and acknowledge, and the    *)
(* Telegram bridge, which is told of an arrival inside the sender's call,  *)
(* reads its own inbox, forwards and acknowledges.                         *)
(*                                                                         *)
(* Agents are numbered in the order they register; several may bear one    *)
(* name, one of them active.  Letters says who may send what, and to      *)
(* whom.  The daemon sets no time to live on messages, so none expires.    *)
(***************************************************************************)
EXTENDS Naturals, Sequences, FiniteSets

CONSTANTS
  NameOf,         \* the name of each agent id
  BridgeName,     \* the name the Telegram bridge registers
  MaxMessages,    \* bound on the messages sent
  Letters,        \* what is sent: [from |-> agent or Operator, by |-> "name", "all" or "topic", name |-> name]
  Operator,       \* the sender of what the operator types on the phone
  InboxLimit,     \* defaultInboxLimit
  MaxMishaps      \* bound on departures, silences, crashes, failed statements and deadlines that pass

Agents == 1 .. Len(NameOf)
Messages == 1 .. MaxMessages
NoBridge == 0

ASSUME MessagingAssumption ==
  /\ InboxLimit \in Nat \ {0}
  /\ MaxMessages \in Nat
  /\ MaxMishaps \in Nat
  /\ NameOf \in Seq(STRING)
  /\ Operator \notin 1 .. Len(NameOf)
  /\ Letters \subseteq [from : Agents \cup {Operator}, by : {"name", "all", "topic"}, name : STRING]

VARIABLES
  roster,         \* the state of each agent's row
  subscribers,    \* the agents subscribed to the topic
  sent,           \* how many messages were sent: they are numbered by created_at
  kept,           \* the rows of messages
  to,             \* the agents each message has a delivery for
  delivered,      \* the deliveries with a delivered_at
  acked,          \* the deliveries with an acked_at
  owed,           \* the messages whose send has still to tell the bridge
  relay,          \* the bridge's Broadcast inside that call
  fetch,          \* what an agent's Inbox call has read and not yet marked
  shown,          \* the messages an agent's process has been shown
  dealt,          \* who acted on each message
  bridge,         \* the agent id of the running bridge
  mishaps         \* how many things went wrong

tables == <<roster, subscribers, sent, kept, to, delivered, acked>>
calls == <<owed, relay, fetch, bridge>>
vars == <<roster, subscribers, sent, kept, to, delivered, acked,
          owed, relay, fetch, shown, dealt, bridge, mishaps>>

RosterStates == {"absent", "active", "stale", "deregistered"}
NoRelay == [stage |-> "none", items |-> {}]
Relays == [stage : {"none", "mark", "forward", "acknowledge"}, items : SUBSET Messages]

Topics == {letter.name : letter \in {l \in Letters : l.by = "topic"}}

Bearers(name) == {a \in Agents : NameOf[a] = name}
ActiveAgents == {a \in Agents : roster[a] = "active"}

\* Mistake: a name nobody bears is not noticed, and the zero agent is addressed.
FindOrZero(name) ==
  LET pool == {a \in Bearers(name) : roster[a] \in {"active", "stale"}}
  IN IF pool = {} THEN {0} ELSE {a \in pool : \A b \in pool : b <= a}

\* The row an agent is addressed by: the active one, or the latest that went quiet.
FindForDelivery(name) ==
  LET quiet == {a \in Bearers(name) : roster[a] = "stale"}
      here  == Bearers(name) \cap ActiveAgents
      pool  == IF here # {} THEN here ELSE quiet
  IN {a \in pool : \A b \in pool : b <= a}

\* Who sends, once the connection or the bridge is bound to an agent.
Sender(letter) == IF letter.from = Operator THEN bridge ELSE letter.from

MayCall(a) == a \in Agents /\ roster[a] \in {"active", "stale"}

\* Nobody is sent what it says to everybody, or to a topic of its own.
WithoutSender(agents, letter) == agents \ {Sender(letter)}

Recipients(letter) ==
  CASE letter.by = "name"  -> FindForDelivery(letter.name)
    [] letter.by = "all"   -> WithoutSender(ActiveAgents, letter)
    [] letter.by = "topic" -> WithoutSender(subscribers, letter)

\* The deliveries an agent has not acknowledged, and the oldest of them.
Unacknowledged(a) == {m \in kept : a \in to[m] \ acked[m]}
Pending(a) ==
  {m \in Unacknowledged(a) :
     Cardinality({k \in Unacknowledged(a) : k < m}) < InboxLimit}

\* List: what the log shows of a message, counted over its deliveries.
LogRecord(m) ==
  [recipients |-> Cardinality(to[m]),
   delivered |-> Cardinality(delivered[m]), acknowledged |-> Cardinality(acked[m])]

Init ==
  /\ roster = [a \in Agents |-> "absent"]
  /\ subscribers = {}
  /\ sent = 0
  /\ kept = {}
  /\ to = [m \in Messages |-> {}]
  /\ delivered = [m \in Messages |-> {}]
  /\ acked = [m \in Messages |-> {}]
  /\ owed = {}
  /\ relay = [m \in Messages |-> NoRelay]
  /\ fetch = [a \in Agents |-> {}]
  /\ shown = [a \in Agents |-> {}]
  /\ dealt = [m \in Messages |-> {}]
  /\ bridge = NoBridge
  /\ mishaps = 0

(***************************************************************************)
(* The roster, as addressing sees it.                                      *)
(***************************************************************************)

\* A row is created when nobody active bears its name.
Create(a) ==
  /\ roster[a] = "absent"
  /\ \A b \in Bearers(NameOf[a]) : roster[b] # "active" /\ (b < a => roster[b] # "absent")
  /\ roster' = [roster EXCEPT ![a] = "active"]

\* A process joins under a name of its own.
Join(a) ==
  /\ NameOf[a] # BridgeName
  /\ Create(a)
  /\ UNCHANGED <<subscribers, sent, kept, to, delivered, acked, calls, shown, dealt, mishaps>>

\* The bridge registers with process id 0: the active row is its own, a stale one is not found.
BridgeRegisters(a) ==
  /\ bridge = NoBridge
  /\ NameOf[a] = BridgeName
  /\ Create(a) \/ (roster[a] = "active" /\ UNCHANGED roster)
  /\ bridge' = a
  /\ UNCHANGED <<subscribers, sent, kept, to, delivered, acked,
                 owed, relay, fetch, shown, dealt, mishaps>>

\* Nothing was heard of an agent for the time to live, and housekeeping marked it.
GoesStale(a) ==
  /\ roster[a] = "active"
  /\ roster' = [roster EXCEPT ![a] = "stale"]
  /\ UNCHANGED <<subscribers, sent, kept, to, delivered, acked, calls, shown, dealt>>

\* A heartbeat brings a stale agent back, unless its name went to another.
Heartbeat(a) ==
  /\ roster[a] = "stale"
  /\ NameOf[a] # BridgeName
  /\ Bearers(NameOf[a]) \cap ActiveAgents = {}
  /\ roster' = [roster EXCEPT ![a] = "active"]
  /\ UNCHANGED <<subscribers, sent, kept, to, delivered, acked, calls, shown, dealt, mishaps>>

Deregister(a) ==
  /\ MayCall(a)
  /\ NameOf[a] # BridgeName
  /\ roster' = [roster EXCEPT ![a] = "deregistered"]
  /\ UNCHANGED <<subscribers, sent, kept, to, delivered, acked, calls, shown, dealt>>

(***************************************************************************)
(* Sending.                                                                *)
(***************************************************************************)

\* The repository's Append: the message and its deliveries, never one without the other.
AppendMessage(m, recipients) ==
  /\ recipients # {}
  /\ sent' = m
  /\ kept' = kept \cup {m}
  /\ to' = [to EXCEPT ![m] = recipients]

\* Send's transaction: addressing and storing.  The call then notifies.
Send(m, letter) ==
  LET recipients == Recipients(letter) IN
  /\ m = sent + 1
  /\ MayCall(Sender(letter))
  /\ AppendMessage(m, recipients)
  /\ owed' = IF bridge \in recipients THEN owed \cup {m} ELSE owed
  /\ UNCHANGED <<roster, subscribers, delivered, acked, relay, fetch, shown, dealt, bridge,
                 mishaps>>

\* The bridge is told inside the sender's call and reads its inbox.
RelayRead(m) ==
  /\ m \in owed
  /\ relay[m] = NoRelay
  /\ IF Pending(bridge) = {}
       THEN /\ owed' = owed \ {m}
            /\ UNCHANGED relay
       ELSE /\ relay' = [relay EXCEPT ![m] = [stage |-> "mark", items |-> Pending(bridge)]]
            /\ UNCHANGED owed
  /\ UNCHANGED <<tables, fetch, shown, dealt, bridge, mishaps>>

\* MarkDelivered, for the deliveries that still exist.
MarkDelivered(a, items) ==
  delivered' = [m \in Messages |->
                  IF m \in items \cap kept /\ a \in to[m] THEN delivered[m] \cup {a}
                  ELSE delivered[m]]

RelayMark(m) ==
  /\ relay[m].stage = "mark"
  /\ MarkDelivered(bridge, relay[m].items)
  /\ relay' = [relay EXCEPT ![m].stage = "forward"]
  /\ UNCHANGED <<roster, subscribers, sent, kept, to, acked, owed, fetch, shown, dealt, bridge, mishaps>>

\* The oldest of a batch: it is forwarded first.
Oldest(items) == {k \in items : \A j \in items : k <= j}

\* The message goes to every allowed chat; a chat that answers with an error is skipped.  One that
\* does not answer is RelayTimesOut.
Forward(m) ==
  /\ relay[m].stage = "forward"
  /\ \E k \in Oldest(relay[m].items) : dealt' = [dealt EXCEPT ![k] = @ \cup {bridge}]
  /\ relay' = [relay EXCEPT ![m].stage = "acknowledge"]
  /\ UNCHANGED <<tables, owed, fetch, shown, bridge, mishaps>>

\* Mistake: the update is not limited to the agent's own delivery.
AckedForAll(a, items) ==
  /\ acked' = [m \in Messages |-> IF m \in items \cap kept /\ a \in to[m] THEN to[m] ELSE acked[m]]
  /\ delivered' = [m \in Messages |-> IF m \in items \cap kept /\ a \in to[m] THEN to[m] ELSE delivered[m]]

\* Mistake: a delivery that does not exist is made up.
AckedAnybody(a, items) ==
  /\ acked' = [m \in Messages |-> IF m \in items \cap kept THEN acked[m] \cup {a} ELSE acked[m]]
  /\ delivered' = [m \in Messages |-> IF m \in items \cap kept THEN delivered[m] \cup {a} ELSE delivered[m]]

\* The acknowledgement of one agent, for its own deliveries only.
Acked(a, items) ==
  /\ acked' = [m \in Messages |->
                 IF m \in items \cap kept /\ a \in to[m] THEN acked[m] \cup {a} ELSE acked[m]]
  /\ delivered' = [m \in Messages |->
                     IF m \in items \cap kept /\ a \in to[m] THEN delivered[m] \cup {a}
                     ELSE delivered[m]]

\* Mistake: the bridge leaves after the first of its messages.
NextItemNever(m, k) ==
  /\ relay' = [relay EXCEPT ![m] = NoRelay]
  /\ owed' = owed \ {m}

\* The rest of the batch, or the end of the bridge's part in the call.
NextItem(m, k) ==
  LET rest == relay[m].items \ {k}
  IN IF rest = {}
       THEN /\ relay' = [relay EXCEPT ![m] = NoRelay]
            /\ owed' = owed \ {m}
       ELSE /\ relay' = [relay EXCEPT ![m] = [stage |-> "forward", items |-> rest]]
            /\ UNCHANGED owed

RelayAcknowledge(m) ==
  /\ relay[m].stage = "acknowledge"
  /\ \E k \in Oldest(relay[m].items) : Acked(bridge, {k}) /\ NextItem(m, k)
  /\ UNCHANGED <<roster, subscribers, sent, kept, to, fetch, shown, dealt, bridge, mishaps>>

(***************************************************************************)
(* Reading.                                                                *)
(***************************************************************************)

\* Inbox reads what is pending, and marks it in a statement of its own before it answers.
InboxRead(a) ==
  /\ MayCall(a)
  /\ NameOf[a] # BridgeName
  /\ fetch[a] = {}
  /\ Pending(a) # {}
  /\ fetch' = [fetch EXCEPT ![a] = Pending(a)]
  /\ UNCHANGED <<tables, owed, relay, shown, dealt, bridge, mishaps>>

InboxMark(a) ==
  /\ fetch[a] # {}
  /\ MarkDelivered(a, fetch[a])
  /\ shown' = [shown EXCEPT ![a] = @ \cup fetch[a]]
  /\ fetch' = [fetch EXCEPT ![a] = {}]
  /\ UNCHANGED <<roster, subscribers, sent, kept, to, acked, owed, relay, dealt, bridge, mishaps>>

\* The agent does what the message asks.
Act(a, m) ==
  /\ m \in shown[a]
  /\ a \notin dealt[m]
  /\ dealt' = [dealt EXCEPT ![m] = @ \cup {a}]
  /\ UNCHANGED <<tables, calls, shown, mishaps>>

\* It acknowledges what it acted on; an id that is not its own to clear changes nothing.
Acknowledge(a) ==
  /\ MayCall(a)
  /\ \E items \in SUBSET ({m \in shown[a] : a \in dealt[m]} \cup {m \in Messages : a \notin to[m]}) :
       /\ items \cap shown[a] # {}
       /\ Acked(a, items)
       /\ shown' = [shown EXCEPT ![a] = @ \ items]
  /\ UNCHANGED <<roster, subscribers, sent, kept, to, calls, dealt, mishaps>>

Subscribe(a) ==
  /\ MayCall(a)
  /\ NameOf[a] # BridgeName
  /\ Topics # {} /\ a \notin subscribers
  /\ subscribers' = subscribers \cup {a}
  /\ UNCHANGED <<roster, sent, kept, to, delivered, acked, calls, shown, dealt, mishaps>>

Unsubscribe(a) ==
  /\ MayCall(a)
  /\ a \in subscribers
  /\ subscribers' = subscribers \ {a}
  /\ UNCHANGED <<roster, sent, kept, to, delivered, acked, calls, shown, dealt, mishaps>>

\* Housekeeping deletes what was sent longer ago than the retention period, here up to the
\* message old, and is acknowledged by everybody it went to.
Prune(old) ==
  LET gone == {m \in kept : m <= old /\ to[m] \subseteq acked[m]} IN
  /\ gone # {}
  /\ kept' = kept \ gone
  /\ UNCHANGED <<roster, subscribers, sent, to, delivered, acked, calls, shown, dealt, mishaps>>

(***************************************************************************)
(* What goes wrong.                                                        *)
(***************************************************************************)

\* A statement of the bridge's fails: an inbox it cannot read or mark is left, an acknowledgement
\* it cannot write is passed over.
RelayFails(m) ==
  /\ \/ /\ m \in owed /\ relay[m].stage \in {"none", "mark"}
        /\ relay' = [relay EXCEPT ![m] = NoRelay]
        /\ owed' = owed \ {m}
     \/ /\ relay[m].stage = "acknowledge"
        /\ \E k \in Oldest(relay[m].items) : NextItem(m, k)
  /\ UNCHANGED <<tables, fetch, shown, dealt, bridge>>

\* The deadline of Broadcast passes, in a chat that hangs or in the acknowledgement: what is left of
\* the batch fails on the expired context, the acknowledgements too.  Nobody reads the inbox again
\* before the next arrival.
RelayTimesOut(m) ==
  /\ relay[m].stage \in {"forward", "acknowledge"}
  /\ relay' = [relay EXCEPT ![m] = NoRelay]
  /\ owed' = owed \ {m}
  /\ UNCHANGED <<tables, fetch, shown, dealt, bridge>>

\* The process behind an agent dies and another takes its token: what it was shown is forgotten.
Restarts(a) ==
  /\ shown[a] \cup fetch[a] # {}
  /\ shown' = [shown EXCEPT ![a] = {}]
  /\ fetch' = [fetch EXCEPT ![a] = {}]
  /\ UNCHANGED <<tables, owed, relay, dealt, bridge>>

OneMore == mishaps < MaxMishaps /\ mishaps' = mishaps + 1

Mishap ==
  /\ OneMore
  /\ \/ \E m \in Messages : RelayFails(m) \/ RelayTimesOut(m)
     \/ \E a \in Agents : Restarts(a) \/ GoesStale(a) \/ Deregister(a)

\* The daemon dies: every call ends where it is, and the bridge is gone until it registers again.
Crash ==
  /\ OneMore
  /\ owed' = {}
  /\ relay' = [m \in Messages |-> NoRelay]
  /\ fetch' = [a \in Agents |-> {}]
  /\ bridge' = NoBridge
  /\ UNCHANGED <<tables, shown, dealt>>

Relay(m) == RelayRead(m) \/ RelayMark(m) \/ Forward(m) \/ RelayAcknowledge(m)
Read(a) == InboxRead(a) \/ InboxMark(a) \/ (\E m \in Messages : Act(a, m)) \/ Acknowledge(a)

MessagingStep ==
  \/ \E a \in Agents : Join(a) \/ BridgeRegisters(a) \/ Heartbeat(a) \/ Read(a) \/ Subscribe(a) \/ Unsubscribe(a)
  \/ \E m \in Messages, letter \in Letters : Send(m, letter)
  \/ \E m \in Messages : Relay(m) \/ Prune(m)
  \/ Mishap

Next == MessagingStep \/ Crash

Spec == Init /\ [][Next]_vars

\* A send runs to its end: the bridge is told inside it, on the sender's own goroutine.
FairSpec == Spec /\ \A m \in Messages : WF_vars(Relay(m))

(***************************************************************************)
(* What is checked.                                                        *)
(***************************************************************************)

\* Every variable keeps its type: a message is delivered to agents that exist, by calls of theirs.
TypeOK ==
  /\ roster \in [Agents -> RosterStates]
  /\ subscribers \subseteq Agents
  /\ sent \in 0 .. MaxMessages
  /\ kept \subseteq Messages
  /\ to \in [Messages -> SUBSET Agents]
  /\ delivered \in [Messages -> SUBSET Agents]
  /\ acked \in [Messages -> SUBSET Agents]
  /\ owed \subseteq Messages
  /\ relay \in [Messages -> Relays]
  /\ fetch \in [Agents -> SUBSET Messages]
  /\ shown \in [Agents -> SUBSET Messages]
  /\ dealt \in [Messages -> SUBSET Agents]
  /\ bridge \in Agents \cup {NoBridge}
  /\ mishaps \in 0 .. MaxMishaps

\* A message is in the table, and unacknowledged, until each of its recipients has acted on it:
\* the bridge has tried every chat, an agent has done what it says.
NotLost ==
  \A m \in Messages : \A a \in to[m] : a \in dealt[m] \/ m \in Unacknowledged(a)

\* The operator's log tells the truth: nobody acknowledged a message it was not given, and a message
\* that shows as acknowledged by all its recipients is one that pruning may delete, and no other is.
LogCountsAgree ==
  \A m \in kept :
    LET shows == LogRecord(m) IN
    /\ shows.acknowledged <= shows.delivered /\ shows.delivered <= shows.recipients
    /\ (shows.acknowledged = shows.recipients) = (to[m] \subseteq acked[m])

\* Once nothing more goes wrong, an arrival has everything that waits for the bridge tried on the
\* phone, itself and what an earlier relay left behind when it failed or its deadline passed,
\* whatever other sends, relays and prunings run beside it, unless more is waiting than one reading
\* of the inbox brings.  Without an arrival what was left behind stays where it is.
BridgeHears ==
  \A m \in Messages :
    ( /\ m \in Unacknowledged(bridge)
      /\ \E arrival \in owed : relay[arrival] = NoRelay
      /\ mishaps = MaxMishaps
      /\ Cardinality(Unacknowledged(bridge)) <= InboxLimit )
    ~> bridge \in dealt[m]

\* What waits for the bridge is tried on the phone without another arrival (Broadcast, "how an agent
\* reaches the operator's phone").
EverythingIsTried ==
  \A m \in Messages :
    m \in Unacknowledged(bridge) /\ mishaps = MaxMishaps ~> bridge \in dealt[m]
============================================================================
