----------------------------- MODULE Reporting -----------------------------
(***************************************************************************)
(* The operator's phone: the Telegram bridge's poll loop, the commands     *)
(* that change something (/say, /broadcast, /report), and the reporting    *)
(* service behind /report, over the message service of Messaging.          *)
(*                                                                         *)
(* One goroutine polls, and handles one update at a time: a /report lists  *)
(* the agents present, stores the request, sends each of them the          *)
(* question, and collects until everybody answered or the deadline has     *)
(* passed.  An answer is stored in one step and signalled in another.      *)
(* Telegram keeps an update until a poll names a later offset.             *)
(***************************************************************************)
EXTENDS Messaging

CONSTANTS
  Updates,        \* what arrives at the bot, in order: a letter of the operator's, or one by "report" or "stranger"
  MaxRequests     \* bound on the report requests stored

ASSUME ReportingAssumption ==
  /\ Updates \in Seq([from : {Operator}, by : {"name", "all", "report", "stranger"}, name : STRING])
  /\ MaxRequests \in Nat \ {0}

VARIABLES
  forgotten,      \* the updates Telegram has forgotten: those below the last offset it was given
  offset,         \* the poll loop's offset, less one: the last update it has taken up
  batch,          \* the updates of the last poll still to be handled
  handled,        \* the updates that were handled to the end, once or more often
  requests,       \* how many report requests were stored
  asked,          \* the agents the latest request asks
  unasked,        \* those it has still to send the question
  about,          \* the request each message asks about; 0 for any other message
  answers,        \* the agents with a report under the latest request
  unsignalled,    \* the agents whose report is stored and not yet signalled
  deadline,       \* whether the latest request's deadline has passed
  collect,        \* where the request has got to
  channel,        \* the collector's channel: open while it is in the map of arrivals
  collected       \* the answers of the collector's last snapshot

phone == <<forgotten, offset, batch, handled>>
reports == <<requests, asked, unasked, about, answers, unsignalled, deadline>>
collector == <<collect, channel, collected>>
allVars == <<vars, phone, reports, collector>>

UpdateIds == 1 .. Len(Updates)
\* The daemon's own components have nobody behind them to answer.
Internal(a) == NameOf[a] = BridgeName

ReportingInit ==
  /\ Init
  /\ forgotten = 0 /\ offset = 0 /\ batch = {} /\ handled = {}
  /\ requests = 0 /\ asked = {} /\ unasked = {} /\ answers = {} /\ unsignalled = {}
  /\ about = [m \in Messages |-> 0]
  /\ deadline = FALSE
  /\ collect = "idle" /\ channel = "none" /\ collected = {}

(***************************************************************************)
(* The phone.                                                              *)
(***************************************************************************)

\* Mistake: a batch is handed over to be handled, and the loop polls on.
PollWithoutWaiting ==
  /\ bridge # NoBridge
  /\ forgotten' = IF batch = {} THEN offset ELSE CHOOSE u \in batch : \A v \in batch : v <= u
  /\ \E last \in (forgotten' + 1) .. Len(Updates) : batch' = batch \cup (forgotten' + 1) .. last
  /\ UNCHANGED <<vars, offset, handled, reports, collector>>

\* A poll names the offset, and Telegram forgets what is below it; with no offset, nothing.
Poll ==
  /\ bridge # NoBridge /\ batch = {}
  /\ forgotten' = IF offset > 0 THEN offset ELSE forgotten
  /\ \E last \in (forgotten' + 1) .. Len(Updates) : batch' = (forgotten' + 1) .. last
  /\ UNCHANGED <<vars, offset, handled, reports, collector>>

Current == CHOOSE u \in batch : \A v \in batch : u <= v
TakeUp == offset' = IF Current > offset THEN Current ELSE offset

\* The update has been dealt with, and the loop goes on to the next.
Finish == batch' = batch \ {Current} /\ handled' = handled \cup {Current}

\* A chat that is not on the allowlist is recorded and ignored.
Ignore ==
  /\ batch # {} /\ collect = "idle" /\ Updates[Current].by = "stranger"
  /\ TakeUp /\ Finish
  /\ UNCHANGED <<vars, forgotten, reports, collector>>

\* /say and /broadcast: the letter is sent, or nobody is there to send it to.
Say ==
  /\ batch # {} /\ collect = "idle" /\ Updates[Current].by \in {"name", "all"}
  /\ TakeUp /\ Finish
  /\ \/ \E m \in Messages : Send(m, Updates[Current])
     \/ (Recipients(Updates[Current]) = {} \/ sent = MaxMessages) /\ UNCHANGED vars
  /\ UNCHANGED <<forgotten, reports, collector>>

(***************************************************************************)
(* Asking.                                                                 *)
(***************************************************************************)

\* Request reads who is present; the requester and the daemon's own are not asked.
List ==
  /\ batch # {} /\ collect = "idle" /\ Updates[Current].by = "report"
  /\ TakeUp
  /\ collect' = "listed"
  /\ collected' = {a \in ActiveAgents : ~Internal(a)}
  /\ UNCHANGED <<vars, forgotten, batch, handled, reports, channel>>

\* It stores the request; with nobody to ask it is over.
CreateRequest ==
  /\ collect = "listed" /\ requests < MaxRequests
  /\ requests' = requests + 1
  /\ asked' = collected /\ unasked' = collected
  /\ answers' = {} /\ unsignalled' = {} /\ deadline' = FALSE
  /\ collected' = {}
  /\ IF collected = {} THEN collect' = "idle" /\ Finish
                       ELSE collect' = "sending" /\ UNCHANGED <<batch, handled>>
  /\ UNCHANGED <<vars, forgotten, offset, about, channel>>

\* The question goes to the name each agent bears; one that cannot be reached is passed over.
Ask(a) ==
  LET question == [from |-> Operator, by |-> "name", name |-> NameOf[a]] IN
  /\ collect = "sending" /\ a \in unasked
  /\ unasked' = unasked \ {a}
  /\ \/ \E m \in Messages : Send(m, question) /\ about' = [about EXCEPT ![m] = requests]
     \/ (Recipients(question) = {} \/ sent = MaxMessages) /\ UNCHANGED <<vars, about>>
  /\ UNCHANGED <<phone, requests, asked, answers, unsignalled, deadline, collector>>

Asked ==
  /\ collect = "sending" /\ unasked = {}
  /\ collect' = "watch"
  /\ UNCHANGED <<vars, phone, reports, channel, collected>>

(***************************************************************************)
(* Answering.                                                              *)
(***************************************************************************)

\* ON CONFLICT DO UPDATE: a corrected answer replaces the one before.
AddReport(a) == answers' = answers \cup {a}

\* Submit stores the answer of an agent that read the question; a repeated one replaces it.
Submit(a) ==
  /\ MayCall(a)
  /\ \E m \in shown[a] : about[m] = requests
  /\ requests > 0 /\ a \notin unsignalled
  /\ AddReport(a)
  /\ unsignalled' = unsignalled \cup {a}
  /\ UNCHANGED <<vars, phone, requests, asked, unasked, about, deadline, collector>>

\* Then it closes the channel of whoever is collecting, and takes it out of the map.
Signal(a) ==
  /\ a \in unsignalled
  /\ unsignalled' = unsignalled \ {a}
  /\ channel' = IF channel = "open" THEN "closed" ELSE channel
  /\ UNCHANGED <<vars, phone, requests, asked, unasked, about, answers, deadline, collect, collected>>

(***************************************************************************)
(* Collecting.                                                             *)
(***************************************************************************)

\* The channel is taken before the answers are read.
Watch ==
  /\ collect = "watch"
  /\ channel' = "open"
  /\ collect' = "read"
  /\ UNCHANGED <<vars, phone, reports, collected>>

Snapshot ==
  /\ collect = "read"
  /\ collected' = answers
  /\ collect' = "decide"
  /\ UNCHANGED <<vars, phone, reports, channel>>

\* Everybody answered, or the deadline has passed: the operator gets what the snapshot holds.
Complete == asked \subseteq collected
Return ==
  /\ collect = "decide" /\ (Complete \/ deadline)
  /\ collect' = "idle" /\ Finish
  /\ UNCHANGED <<vars, forgotten, offset, reports, channel, collected>>

\* Mistake: the channel to sleep on is taken after the answers were read.
SleepOnNewChannel ==
  /\ collect = "decide" /\ ~Complete /\ ~deadline
  /\ collect' = "asleep" /\ channel' = "open"
  /\ UNCHANGED <<vars, phone, reports, collected>>

Sleep ==
  /\ collect = "decide" /\ ~Complete /\ ~deadline
  /\ collect' = "asleep"
  /\ UNCHANGED <<vars, phone, reports, channel, collected>>

\* Mistake: no timer for the deadline.
WakeOnAnswer ==
  /\ collect = "asleep" /\ channel = "closed"
  /\ collect' = "watch"
  /\ UNCHANGED <<vars, phone, reports, channel, collected>>

\* An answer was signalled, or the timer ran out: at the deadline at the latest.
Wake ==
  /\ collect = "asleep" /\ (channel = "closed" \/ deadline)
  /\ collect' = "watch"
  /\ UNCHANGED <<vars, phone, reports, channel, collected>>

\* The recheck interval runs out earlier, some of the time.
Recheck ==
  /\ collect = "asleep" /\ channel = "open" /\ ~deadline
  /\ collect' = "watch"
  /\ UNCHANGED <<vars, phone, reports, channel, collected>>

DeadlinePasses ==
  /\ requests > 0 /\ ~deadline
  /\ deadline' = TRUE
  /\ UNCHANGED <<vars, phone, requests, asked, unasked, about, answers, unsignalled, collector>>

(***************************************************************************)
(* What goes wrong.                                                        *)
(***************************************************************************)

\* The daemon dies: the poll loop starts again without an offset, and nobody collects.
CrashAll ==
  /\ Crash
  /\ offset' = 0 /\ batch' = {}
  /\ unasked' = {} /\ unsignalled' = {}
  /\ collect' = "idle" /\ channel' = "none" /\ collected' = {}
  /\ UNCHANGED <<forgotten, handled, requests, asked, about, answers, deadline>>

Handle ==
  \/ Poll \/ Ignore \/ Say \/ List \/ CreateRequest \/ (\E a \in Agents : Ask(a)) \/ Asked
  \/ Watch \/ Snapshot \/ Return \/ Sleep \/ Wake

\* The steps of the message service that a report rests on: agents come and go and read their
\* inbox.  Acknowledging and pruning come after an answer, and are left to Messaging.
Exchange ==
  \/ \E a \in Agents : Join(a) \/ BridgeRegisters(a) \/ Heartbeat(a) \/ InboxRead(a) \/ InboxMark(a)
  \/ Mishap

ReportingNext ==
  \/ Exchange /\ UNCHANGED <<phone, reports, collector>>
  \/ Handle
  \/ Recheck
  \/ \E a \in Agents : Submit(a) \/ Signal(a)
  \/ DeadlinePasses
  \/ CrashAll

ReportingSpec == ReportingInit /\ [][ReportingNext]_allVars

\* The poll loop runs and time passes.  Nobody has to answer, and the safety-net recheck is not relied on.
FairReporting ==
  /\ ReportingSpec
  /\ WF_allVars(Handle)
  /\ WF_allVars(DeadlinePasses)

(***************************************************************************)
(* What is checked.                                                        *)
(***************************************************************************)

\* What Telegram no longer keeps was handled: a daemon that dies in the middle of a batch, or of a
\* report that takes as long as its deadline, is given it again.
ForgottenIsHandled == 1 .. forgotten \subseteq handled

\* A collector that sleeps although everybody answered is about to be woken: the answer that
\* completed the report closed its channel, or its call is still to do so.
CollectorIsWoken ==
  collect = "asleep" /\ asked \subseteq answers => channel = "closed" \/ unsignalled # {}

\* The loop works through whatever a poll brought and polls again, however long the agents stay
\* silent and whoever leaves: a report holds it up for no longer than its deadline.
BatchIsWorkedThrough == batch # {} ~> batch = {}
=============================================================================
