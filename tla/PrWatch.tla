------------------------------ MODULE PrWatch ------------------------------
(***************************************************************************)
(* The pull request watcher: internal/service/prwatch over the tables      *)
(* watches, watch_subscribers and watch_events, with the GitHub client it  *)
(* reads through and the API calls that drive it.                          *)
(*                                                                         *)
(* A watch is polled by the sweep or by a call that refreshes it, one poll *)
(* at a time: read GitHub, store what was seen, tell each change, wake who *)
(* waits.  Watching, subscribing and deleting do not wait for the poll.    *)
(***************************************************************************)
EXTENDS PullRequests, Sequences, SequencesExt

CONSTANTS
  Agents, Pulls,
  Askers,          \* the agents that ask for the status of a watch
  Logins,          \* the accounts of the machine, in the order gh lists them
  HubFirst,        \* the pull requests at first
  SeesFirst,       \* the pull requests each account may read at first
  EditsOf(_),      \* what may become of a pull request in one edit
  MaxEdits, MaxUpsets, MaxWatches,   \* bounds: edits, upsets of either side, rows created
  Upsets           \* which upsets happen

Accounts == Range(Logins)
NoAccount == "active"
NoRow == [id |-> 0]
Nothing == [state |-> "unknown"]
FailureCap == 2

ASSUME PrWatchAssumption ==
  /\ MaxEdits \in Nat /\ MaxUpsets \in Nat /\ MaxWatches \in Nat
  /\ Upsets \subseteq {"outage", "access", "revoke", "signout", "crash", "hangup", "replaced", "fault"}
  /\ Askers \subseteq Agents
  /\ HubFirst \in [Pulls -> RawPulls]
  /\ SeesFirst \in [Accounts -> SUBSET Pulls]
  /\ Logins \in Seq(Accounts) /\ NoAccount \notin Accounts

VARIABLES
  hub,             \* the pull requests as GitHub has them
  sees,            \* the pull requests each account may read
  up,              \* whether GitHub answers
  signedIn,        \* the accounts gh is signed in to
  away,            \* the agents whose name does not lead to them: gone, or the name is another's now
  token,           \* the client's cache: no token, one GitHub takes, one it has revoked
  rows,            \* the watch on each pull request
  created,         \* how many watches were ever created
  subs,            \* the subscribers of each watch
  call,            \* each agent's call
  poll,            \* the poll that holds the lock
  knows,           \* what each agent was told of each pull request it watches
  outages,         \* outages announced less recoveries announced, for each watch
  missed,          \* the watches of which a change was dropped before it was told
  edits, upsets

world == <<hub, sees, up, signedIn, away>>
tables == <<rows, created, subs>>
ghosts == <<knows, outages, missed>>
bounds == <<edits, upsets>>
vars == <<hub, sees, up, signedIn, away, token, rows, created, subs, call, poll, knows, outages,
          missed, edits, upsets>>

NoCall == [stage |-> "idle", pull |-> 0, id |-> 0, wants |-> "none"]
NoPoll == [stage |-> "idle", by |-> "nobody", pull |-> 0, row |-> NoRow, seen |-> "none", account |-> NoAccount,
           view |-> Nothing, changes |-> {}]

Present(p, id) == rows[p] # NoRow /\ rows[p].id = id

Init ==
  /\ hub = HubFirst
  /\ sees = SeesFirst
  /\ up = TRUE
  /\ signedIn = Accounts
  /\ away = {}
  /\ token = [a \in Accounts |-> "none"]
  /\ rows = [p \in Pulls |-> NoRow]
  /\ created = 0
  /\ subs = [p \in Pulls |-> {}]
  /\ call = [a \in Agents |-> NoCall]
  /\ poll = NoPoll
  /\ knows = [a \in Agents |-> [p \in Pulls |-> Nothing]]
  /\ outages = [p \in Pulls |-> 0]
  /\ missed = {}
  /\ edits = 0 /\ upsets = 0

(***************************************************************************)
(* The GitHub client.                                                      *)
(***************************************************************************)

\* parseAccounts: the accounts, the active one first.
SignedIn == SelectSeq(Logins, LAMBDA a : a \in signedIn)

\* A token comes from the cache, or from gh for an account that is signed in.
TokenFor(a) == IF token[a] = "none" /\ a \in signedIn THEN "good" ELSE token[a]

\* One query: an account without a token, or with a revoked one, is no answer about the pull request.
Answer(a, p) ==
  CASE TokenFor(a) = "none" \/ ~up      -> "failed"
    [] TokenFor(a) = "revoked" /\ up    -> "failed"
    [] TokenFor(a) = "good" /\ up       -> IF p \in sees[a] THEN "ok" ELSE "not found"

AnswerActive(p) ==
  IF ~up \/ signedIn = {} THEN "failed"
  ELSE IF p \in sees[Head(SignedIn)] THEN "ok" ELSE "not found"

\* Mistake: a token that GitHub rejected stays in the cache.
TokenKept(a) == TokenFor(a)

\* What the cache holds after a query: a rejected token is forgotten.
TokenAfter(a) == IF TokenFor(a) = "revoked" /\ up THEN "none" ELSE TokenFor(a)

\* read: the account that worked, then the active one, then each of the others; only "not found"
\* is worth trying the next one for.
Read(p, account) ==
  LET others == {i \in 1 .. Len(Logins) : Logins[i] \in signedIn \ {account}}
      first == IF account = NoAccount THEN "not found" ELSE Answer(account, p)
      telling == {i \in others : Answer(Logins[i], p) # "not found"}
      found == CHOOSE i \in telling : \A j \in telling : i <= j
      named == IF account = NoAccount THEN {} ELSE {account}
      result(answer, as, tried) == [answer |-> answer, account |-> as, tried |-> tried]
  IN CASE first # "not found" -> result(first, account, named)
       [] first = "not found" /\ AnswerActive(p) # "not found" -> result(AnswerActive(p), NoAccount, named)
       [] first = "not found" /\ AnswerActive(p) = "not found" ->
            IF Len(SignedIn) <= 1 \/ telling = {}
              THEN result("not found", account,
                          named \cup (IF Len(SignedIn) <= 1 THEN {} ELSE {Logins[i] : i \in others}))
              ELSE result(Answer(Logins[found], p), Logins[found],
                          named \cup {Logins[i] : i \in {j \in others : j <= found}})

(***************************************************************************)
(* Watching.                                                               *)
(***************************************************************************)

\* Watch looks for the watch on the pull request.
Watch(a, p) ==
  /\ call[a] = NoCall
  /\ call' = [call EXCEPT ![a] = [stage |-> IF rows[p] = NoRow THEN "create" ELSE "subscribe",
                                  pull |-> p, id |-> rows[p].id, wants |-> "watch"]]
  /\ UNCHANGED <<world, token, tables, poll, ghosts, bounds>>

\* It creates one, unless somebody else did in the meantime: then the call fails.
Create(a) ==
  LET p == call[a].pull IN
  /\ call[a].stage = "create"
  /\ \/ /\ rows[p] = NoRow /\ created < MaxWatches
        /\ created' = created + 1
        /\ rows' = [rows EXCEPT ![p] = [id |-> created + 1, account |-> NoAccount, failures |-> 0,
                                        snapshot |-> Nothing]]
        /\ call' = [call EXCEPT ![a].stage = "subscribe", ![a].id = created + 1]
        /\ outages' = [outages EXCEPT ![p] = 0]
        /\ missed' = missed \ {p}
     \/ /\ rows[p] # NoRow \/ created = MaxWatches
        /\ call' = [call EXCEPT ![a] = NoCall]
        /\ UNCHANGED <<created, rows, outages, missed>>
  /\ UNCHANGED <<world, token, subs, poll, knows, bounds>>

Subscribe(a) ==
  LET p == call[a].pull IN
  /\ call[a].stage = "subscribe"
  /\ IF Present(p, call[a].id)
       THEN /\ subs' = [subs EXCEPT ![p] = @ \cup {a}]
            /\ call' = [call EXCEPT ![a].stage = "refresh"]
       ELSE /\ call' = [call EXCEPT ![a] = NoCall]
            /\ UNCHANGED subs
  /\ UNCHANGED <<world, token, rows, created, poll, ghosts, bounds>>

\* Mistake: the subscriptions outlive their watch.
DeleteTheRowOnly(a) ==
  LET p == call[a].pull IN
  /\ call[a].stage = "delete"
  /\ call' = [call EXCEPT ![a] = NoCall]
  /\ rows' = IF Present(p, call[a].id) THEN [rows EXCEPT ![p] = NoRow] ELSE rows
  /\ UNCHANGED <<world, token, created, subs, poll, ghosts, bounds>>

\* A pull request that nobody can see: the watch goes, whoever else subscribed.
Delete(a) ==
  LET p == call[a].pull IN
  /\ call[a].stage = "delete"
  /\ call' = [call EXCEPT ![a] = NoCall]
  /\ IF Present(p, call[a].id)
       THEN /\ rows' = [rows EXCEPT ![p] = NoRow]
            /\ subs' = [subs EXCEPT ![p] = {}]
            /\ knows' = [b \in Agents |-> [knows[b] EXCEPT ![p] = Nothing]]
       ELSE UNCHANGED <<rows, subs, knows>>
  /\ UNCHANGED <<world, token, created, poll, outages, missed, bounds>>

Unwatch(a, p) ==
  /\ call[a] = NoCall /\ a \in subs[p]
  /\ subs' = [subs EXCEPT ![p] = @ \ {a}]
  /\ knows' = [knows EXCEPT ![a][p] = Nothing]
  /\ UNCHANGED <<world, token, rows, created, call, poll, outages, missed, bounds>>

\* Status with refresh: the watch is read now.
Status(a, p) ==
  /\ call[a] = NoCall /\ rows[p] # NoRow
  /\ call' = [call EXCEPT ![a] = [stage |-> "refresh", pull |-> p, id |-> rows[p].id, wants |-> "status"]]
  /\ UNCHANGED <<world, token, tables, poll, ghosts, bounds>>

\* Status with wait: the call sleeps until the watch is next polled.
Await(a, p) ==
  /\ call[a] = NoCall /\ rows[p] # NoRow
  /\ call' = [call EXCEPT ![a] = [stage |-> "asleep", pull |-> p, id |-> rows[p].id, wants |-> "status"]]
  /\ UNCHANGED <<world, token, tables, poll, ghosts, bounds>>

Asleep(p, id) == {a \in Agents : call[a].stage = "asleep" /\ call[a].pull = p /\ call[a].id = id}

(***************************************************************************)
(* Polling.                                                                *)
(***************************************************************************)

\* The sweep takes the lock and a row that is due; it keeps the lock for the next one, but nothing
\* that a poll depends on changes in between except that a row may go.  When a row is due is a matter
\* of time (intervalFor, backoffFor): it may be at any moment.
Sweep(p) ==
  /\ poll = NoPoll /\ rows[p] # NoRow
  /\ poll' = [NoPoll EXCEPT !.stage = "read", !.by = "sweep", !.pull = p, !.row = rows[p]]
  /\ UNCHANGED <<world, token, tables, call, ghosts, bounds>>

\* A call takes the lock and its row; one that is gone ends the call.
Refresh(a) ==
  LET p == call[a].pull IN
  /\ call[a].stage = "refresh" /\ poll = NoPoll
  /\ IF Present(p, call[a].id)
       THEN /\ poll' = [NoPoll EXCEPT !.stage = "read", !.by = a, !.pull = p, !.row = rows[p]]
            /\ call' = [call EXCEPT ![a].stage = "polling"]
       ELSE /\ call' = [call EXCEPT ![a] = NoCall]
            /\ UNCHANGED poll
  /\ UNCHANGED <<world, token, tables, ghosts, bounds>>

\* GitHub is asked, outside any transaction.
Ask ==
  LET p == poll.pull
      r == Read(p, poll.row.account)
  IN /\ poll.stage = "read"
     /\ poll' = [poll EXCEPT !.stage = "store", !.seen = r.answer, !.account = r.account,
                             !.view = IF r.answer = "ok" THEN Observation(hub[p]) ELSE Nothing]
     /\ token' = [a \in Accounts |-> IF a \in r.tried THEN TokenAfter(a) ELSE token[a]]
     /\ UNCHANGED <<world, tables, call, ghosts, bounds>>

\* The changes of a successful poll, by the row as it was read.
Changes ==
  (IF poll.row.failures > 0 THEN {[kind |-> "recovered"]} ELSE {})
    \cup ChangesBetween(poll.row.snapshot, poll.view, poll.row.snapshot = Nothing)

Stored(newRow, changes) ==
  /\ poll.stage = "store" /\ Present(poll.pull, poll.row.id)
  /\ rows' = [rows EXCEPT ![poll.pull] = newRow]
  /\ poll' = [poll EXCEPT !.stage = "tell", !.changes = changes]
  /\ UNCHANGED <<world, token, created, subs, call, ghosts, bounds>>

\* RecordObservation: what was seen, and no failure any more.
Observed ==
  /\ poll.seen = "ok"
  /\ Stored([rows[poll.pull] EXCEPT !.account = poll.account, !.failures = 0, !.snapshot = poll.view], Changes)

OneMoreFailure(row) == [row EXCEPT !.failures = IF @ < FailureCap THEN @ + 1 ELSE @]

\* Mistake: every failure is told.
NotObservedAgain ==
  /\ poll.seen # "ok"
  /\ Stored(OneMoreFailure(rows[poll.pull]), {[kind |-> "unreachable"]})

\* RecordFailure: the first failure is told.
NotObserved ==
  /\ poll.seen # "ok"
  /\ Stored(OneMoreFailure(rows[poll.pull]), IF poll.row.failures = 0 THEN {[kind |-> "unreachable"]} ELSE {})

\* The watch was deleted while GitHub was asked: nothing is stored and nobody is woken.
Vanished ==
  /\ poll.stage = "store" /\ ~Present(poll.pull, poll.row.id)
  /\ poll' = NoPoll
  /\ call' = IF poll.by \in Agents THEN [call EXCEPT ![poll.by] = NoCall] ELSE call
  /\ UNCHANGED <<world, token, tables, ghosts, bounds>>

\* The order in which the changes of a poll are recorded.
Kinds == <<"unreachable", "recovered", "state", "draft", "checks", "commits", "comment", "review",
           "thread", "reply">>
Rank(change) == CHOOSE i \in 1 .. Len(Kinds) : Kinds[i] = change.kind

\* record comes to its next change.
NextChange(change) ==
  /\ poll.stage = "tell" /\ change \in poll.changes
  /\ \A other \in poll.changes : Rank(change) <= Rank(other)
  /\ poll' = [poll EXCEPT !.changes = @ \ {change}]

\* The change is appended to the events and sent to whoever is subscribed now.  A subscriber that
\* the message does not reach, which nobody notices, has lost the story until it looks again.
Telling(change, reached) ==
  LET p == poll.pull IN
  /\ NextChange(change)
  /\ IF Present(p, poll.row.id)
       THEN /\ outages' = [outages EXCEPT ![p] = CASE change.kind = "unreachable" -> @ + 1
                                                    [] change.kind = "recovered" -> @ - 1
                                                    [] OTHER -> @]
            /\ knows' = [a \in Agents |->
                           IF a \in subs[p] /\ knows[a][p] # Nothing /\ change.kind \notin {"unreachable", "recovered"}
                             THEN [knows[a] EXCEPT ![p] = IF a \in reached THEN Heard(@, change) ELSE Nothing]
                             ELSE knows[a]]
       ELSE UNCHANGED <<outages, knows>>
  /\ UNCHANGED <<world, token, tables, call, missed>>

\* notify addresses each subscriber by its name.
Tell(change) == Telling(change, Agents \ away) /\ UNCHANGED bounds

\* What becomes of the calls: who waits is given the row, and so is the caller, unless it asked for
\* a watch on something nobody can see.
Undo(a) == call[a].wants = "watch" /\ poll.seen = "not found" /\ Present(poll.pull, poll.row.id)

\* Mistake: a poll that fails wakes nobody.
SignalOnSuccess ==
  /\ poll.stage = "tell" /\ poll.changes = {}
  /\ poll' = NoPoll
  /\ call' = [a \in Agents |-> IF a = poll.by /\ Undo(a) THEN [call[a] EXCEPT !.stage = "delete"]
                               ELSE IF a = poll.by \/ (poll.seen = "ok" /\ a \in Asleep(poll.pull, poll.row.id))
                                 THEN NoCall ELSE call[a]]
  /\ UNCHANGED <<world, token, tables, ghosts, bounds>>

\* Everything is told: who waits for the watch is woken, and the poll goes on.
Signal ==
  LET p == poll.pull IN
  /\ poll.stage = "tell" /\ poll.changes = {}
  /\ poll' = NoPoll
  /\ call' = [a \in Agents |-> IF a = poll.by /\ Undo(a) THEN [call[a] EXCEPT !.stage = "delete"]
                               ELSE IF a = poll.by \/ a \in Asleep(p, poll.row.id) THEN NoCall
                               ELSE call[a]]
  /\ knows' = IF poll.by \in subs[p] /\ ~Undo(poll.by)
                THEN [knows EXCEPT ![poll.by][p] = rows[p].snapshot] ELSE knows
  /\ UNCHANGED <<world, token, tables, outages, missed, bounds>>

(***************************************************************************)
(* The world: GitHub moves on, and fails; the daemon and its callers stop. *)
(***************************************************************************)

Edit(p) ==
  /\ edits < MaxEdits
  /\ edits' = edits + 1
  /\ \E raw \in EditsOf(hub[p]) : raw \in RawPulls /\ MovesOn(hub[p], raw) /\ hub' = [hub EXCEPT ![p] = raw]
  /\ UNCHANGED <<sees, up, signedIn, away, token, tables, call, poll, ghosts, upsets>>

Upset(kind) == kind \in Upsets /\ upsets < MaxUpsets /\ upsets' = upsets + 1 /\ UNCHANGED edits

Outage ==
  Upset("outage") /\ up' = FALSE /\ UNCHANGED <<hub, sees, signedIn, away, token, tables, call, poll, ghosts>>

Back ==
  ~up /\ up' = TRUE /\ UNCHANGED <<hub, sees, signedIn, away, token, tables, call, poll, ghosts, bounds>>

Access(a, p) ==
  /\ Upset("access")
  /\ sees' = [sees EXCEPT ![a] = IF p \in @ THEN @ \ {p} ELSE @ \cup {p}]
  /\ UNCHANGED <<hub, up, signedIn, away, token, tables, call, poll, ghosts>>

\* A token the client holds stops being taken; gh has a new one.
Revoke(a) ==
  /\ Upset("revoke") /\ token[a] = "good"
  /\ token' = [token EXCEPT ![a] = "revoked"]
  /\ UNCHANGED <<world, tables, call, poll, ghosts>>

\* An account is signed out of gh, which revokes its token.
SignOut(a) ==
  /\ Upset("signout") /\ a \in signedIn
  /\ signedIn' = signedIn \ {a}
  /\ token' = [token EXCEPT ![a] = IF @ = "good" THEN "revoked" ELSE @]
  /\ UNCHANGED <<hub, sees, up, away, tables, call, poll, ghosts>>

\* An agent goes, or falls silent and loses its name; it may come back to it.
Replaced(a) ==
  /\ Upset("replaced") /\ a \notin away
  /\ away' = away \cup {a}
  /\ UNCHANGED <<hub, sees, up, signedIn, token, tables, call, poll, ghosts>>

Returns(a) ==
  /\ a \in away
  /\ away' = away \ {a}
  /\ UNCHANGED <<hub, sees, up, signedIn, token, tables, call, poll, ghosts, bounds>>

\* The database refuses: the messages to some subscribers, or all of them, are not written, which
\* notify passes over; or the change is not appended, and record does without it.
SendFails(change) ==
  /\ Upset("fault")
  /\ \E lost \in (SUBSET subs[poll.pull]) \ {{}} : Telling(change, Agents \ (away \cup lost))

AppendFails(change) ==
  /\ Upset("fault")
  /\ NextChange(change)
  /\ missed' = missed \cup {poll.pull}
  /\ UNCHANGED <<world, token, tables, call, knows, outages>>

\* Changes that were stored and are not told any more.
Dropped == IF poll.stage = "tell" /\ poll.changes # {} THEN {poll.pull} ELSE {}

\* The daemon dies: polls and calls go, the tables stay.
Crash ==
  /\ Upset("crash")
  /\ token' = [a \in Accounts |-> "none"]
  /\ call' = [a \in Agents |-> NoCall]
  /\ poll' = NoPoll
  /\ missed' = missed \cup Dropped
  /\ UNCHANGED <<world, tables, knows, outages>>

\* A caller disconnects, which cancels its call: GitHub's answer is not stored, or what is left to
\* tell is not told.
Hangup(a) ==
  /\ Upset("hangup") /\ call[a] # NoCall
  /\ call' = [call EXCEPT ![a] = NoCall]
  /\ IF poll.by = a
       THEN /\ poll' = IF poll.stage = "tell" THEN [poll EXCEPT !.by = "nobody", !.changes = {}] ELSE NoPoll
            /\ missed' = missed \cup Dropped
       ELSE UNCHANGED <<poll, missed>>
  /\ UNCHANGED <<world, token, tables, knows, outages>>

Calls(a) == Create(a) \/ Subscribe(a) \/ Refresh(a) \/ Delete(a)

Polling == Ask \/ Observed \/ NotObserved \/ Vanished \/ Signal \/ \E change \in poll.changes : Tell(change)

Next ==
  \/ \E a \in Agents, p \in Pulls : Watch(a, p) \/ Unwatch(a, p)
  \/ \E a \in Askers, p \in Pulls : Status(a, p) \/ Await(a, p)
  \/ \E a \in Agents : Calls(a) \/ Hangup(a) \/ Replaced(a) \/ Returns(a)
  \/ Polling
  \/ \E change \in poll.changes : SendFails(change) \/ AppendFails(change)
  \/ \E p \in Pulls : Sweep(p) \/ Edit(p)
  \/ Outage \/ Back \/ Crash
  \/ \E a \in Accounts : Revoke(a) \/ SignOut(a) \/ \E p \in Pulls : Access(a, p)

Spec == Init /\ [][Next]_vars

\* The daemon's own steps are taken: a watch comes due and the ticker sweeps it, and a call that
\* began goes on.  The lock is Go's, which a waiter gets before long.  Nothing is assumed of the world
\* but that an outage ends.
FairSpec ==
  /\ Spec
  /\ WF_vars(Polling) /\ WF_vars(Back)
  /\ \A p \in Pulls : SF_vars(Sweep(p))
  /\ \A a \in Agents : WF_vars(Create(a)) /\ WF_vars(Subscribe(a)) /\ SF_vars(Refresh(a)) /\ WF_vars(Delete(a))

(***************************************************************************)
(* Properties.                                                             *)
(***************************************************************************)

\* Types, and what ties the tables together: only a watch that exists has subscribers.
TypeOK ==
  /\ \A p \in Pulls : hub[p] \in RawPulls
  /\ token \in [Accounts -> {"none", "good", "revoked"}]
  /\ \A p \in Pulls : rows[p] = NoRow \/ /\ rows[p].id \in 1 .. created
                                          /\ rows[p].account \in Accounts \cup {NoAccount}
                                          /\ rows[p].failures \in 0 .. FailureCap
  /\ \A p \in Pulls : subs[p] # {} => rows[p] # NoRow
  /\ \A a \in Agents : call[a].stage \in {"idle", "create", "subscribe", "refresh", "polling", "asleep", "delete"}
  /\ poll.stage \in {"idle", "read", "store", "tell"}

BeingTold(p) == poll.stage = "tell" /\ poll.pull = p

\* A subscriber that looked at the pull request, and that every message since has reached, knows it
\* as the watch last saw it, within the windows of the query, however polls, subscriptions and edits
\* fall between each other: changesBetween misses nothing, and nothing is told against the wrong
\* observation.  Whom a message did not reach knows nothing until it looks again; a watch of which a
\* change was not recorded, or the telling was cut short by a crash or a caller's disconnection,
\* is left out, since the code does not make up for it.
SubscribersKnow ==
  \A a \in Agents, p \in Pulls :
    a \in subs[p] /\ knows[a][p] # Nothing /\ ~BeingTold(p) /\ p \notin missed
      => SameStory(knows[a][p], rows[p].snapshot)

\* recordFailure says an outage once, and poll says its end once: what was announced of a watch is
\* whether it is failing now.
OutageIsToldOnce ==
  \A p \in Pulls : rows[p] # NoRow /\ ~BeingTold(p) /\ p \notin missed
    => outages[p] = IF rows[p].failures > 0 THEN 1 ELSE 0

\* A pull request the machine can read is what its watch says: whatever failed, once GitHub
\* answers and some account that is signed in sees it, the poller gets there (or the watch was
\* removed by whoever asked for it while nobody could see it).  A watch that was read through an
\* account that is signed out since is left out: read never tries the others then.
Readable(p) ==
  /\ up /\ \E a \in signedIn : p \in sees[a]
  /\ rows[p] # NoRow => rows[p].account \in signedIn \cup {NoAccount}
Fresh(p) == rows[p] # NoRow => rows[p].snapshot = Observation(hub[p]) /\ rows[p].failures = 0
SeenIsObserved == \A p \in Pulls : <>[]Readable(p) => <>[]Fresh(p)

\* Await returns: whoever waits for a watch is woken by its next poll, the failed ones included, as
\* long as the watch is there.
WaitersAreWoken ==
  \A a \in Agents, p \in Pulls : a \in Asleep(p, rows[p].id) ~> a \notin Asleep(p, rows[p].id)
=============================================================================
