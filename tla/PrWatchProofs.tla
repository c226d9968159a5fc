---------------------------- MODULE PrWatchProofs ----------------------------
(***************************************************************************)
(* Proofs about PrWatch, for any agents, pull requests, accounts, edits    *)
(* and upsets.                                                             *)
(***************************************************************************)
EXTENDS PrWatch, FiniteSetTheorems, WellFoundedInduction, TLAPS

(***************************************************************************)
(* The types.                                                              *)
(***************************************************************************)

States == {"open", "closed", "merged"}
Checks == {"unknown", "pending", "success", "failure"}
Reviews == [id : Nat, state : ReviewStates]
Marks == {"open", "resolved", "unsaid"}
Conversations == [id : Threads, mark : Marks, replies : Nat]

\* What an observation is, and what a reader knows.
Observations ==
  [state : States, draft : BOOLEAN, head : Nat, checks : Checks, comments : SUBSET Nat,
   reviews : SUBSET Reviews, threads : SUBSET Conversations]

Unreachable == [kind |-> "unreachable"]
Recovered == [kind |-> "recovered"]

\* The changes of a pull request.
ContentChanges ==
  [kind : {"state"}, state : States, draft : BOOLEAN] \cup [kind : {"draft"}, draft : BOOLEAN]
    \cup [kind : {"checks"}, checks : Checks] \cup [kind : {"commits"}, head : Nat]
    \cup [kind : {"comment"}, id : Nat]
    \cup [kind : {"review"}, id : Nat, state : ReviewStates]
    \cup [kind : {"thread"}, id : Threads, mark : Marks] \cup [kind : {"reply"}, id : Threads]

ReadAs == Accounts \cup {NoAccount}
Rows == [id : Nat \ {0}, account : ReadAs, failures : 0 .. FailureCap,
         snapshot : Observations \cup {Nothing}]
MayBeRows == Rows \cup {NoRow}

CallsOK == [stage : {"idle", "create", "subscribe", "refresh", "polling", "asleep", "delete"},
            pull : Pulls \cup {0}, id : Nat, wants : {"none", "watch", "status"}]

Polls == [stage : {"idle", "read", "store", "tell"}, by : Agents \cup {"sweep", "nobody"},
          pull : Pulls \cup {0}, row : MayBeRows, seen : {"none", "ok", "not found", "failed"},
          account : ReadAs, view : Observations \cup {Nothing},
          changes : SUBSET (ContentChanges \cup {Unreachable, Recovered})]

\* A poll that is under way has a row that was created, and an answer if it got one.
PollOK ==
  /\ poll \in Polls
  /\ poll.stage # "idle" => poll.pull \in Pulls /\ poll.row \in Rows /\ poll.row.id \in 1 .. created
  /\ poll.stage = "store" /\ poll.seen = "ok" => poll.view \in Observations

RowsOK ==
  /\ created \in Nat
  /\ rows \in [Pulls -> MayBeRows]
  /\ \A p \in Pulls : rows[p] # NoRow => rows[p].id \in 1 .. created

SubsOK ==
  /\ subs \in [Pulls -> SUBSET Agents]
  /\ \A p \in Pulls : subs[p] # {} => rows[p] # NoRow

CallOK ==
  /\ call \in [Agents -> CallsOK]
  /\ \A a \in Agents : call[a].stage # "idle" => call[a].pull \in Pulls
  /\ \A a \in Agents : call[a].stage = "idle" => call[a].wants = "none"

HubOK == hub \in [Pulls -> RawPulls]
TokenOK == token \in [Accounts -> {"none", "good", "revoked"}]

TypeInv == HubOK /\ TokenOK /\ RowsOK /\ SubsOK /\ CallOK /\ PollOK

\* It says what TypeOK says.
LEMMA TypeInvTypes == TypeInv => TypeOK
<1> SUFFICES ASSUME TypeInv PROVE TypeOK
  OBVIOUS
<1>1. ASSUME NEW p \in Pulls, rows[p] # NoRow
      PROVE  /\ rows[p].id \in 1 .. created /\ rows[p].account \in Accounts \cup {NoAccount}
             /\ rows[p].failures \in 0 .. FailureCap
  <2>1. rows[p] \in Rows /\ rows[p].id \in 1 .. created
    BY <1>1 DEF TypeInv, RowsOK, MayBeRows
  <2> QED  BY <2>1 DEF Rows, ReadAs
<1>2. \A p \in Pulls : (subs[p] # {} => rows[p] # NoRow) /\ hub[p] \in RawPulls
  BY DEF TypeInv, SubsOK, HubOK
<1>3. \A a \in Agents :
        call[a].stage \in {"idle", "create", "subscribe", "refresh", "polling", "asleep", "delete"}
  BY DEF TypeInv, CallOK, CallsOK
<1>4. poll.stage \in {"idle", "read", "store", "tell"}
  BY DEF TypeInv, PollOK, Polls
<1>5. token \in [Accounts -> {"none", "good", "revoked"}]
  BY DEF TypeInv, TokenOK
<1> QED  BY <1>1, <1>2, <1>3, <1>4, <1>5 DEF TypeOK

(***************************************************************************)
(* Which action writes what.                                               *)
(***************************************************************************)

\* A change is told, to whomever the messages reach.
Told(change) == \E reached : Telling(change, reached)

\* Each variable and the actions that write it.
LEMMA Writers ==
  ASSUME Next
  PROVE  /\ hub' = hub \/ \E p \in Pulls : Edit(p)
         /\ token' = token \/ Ask \/ Crash \/ \E a \in Accounts : Revoke(a) \/ SignOut(a)
         /\ \/ rows' = rows /\ created' = created
            \/ Observed \/ NotObserved \/ \E a \in Agents : Create(a) \/ Delete(a)
         /\ subs' = subs \/ \E a \in Agents : Subscribe(a) \/ Delete(a) \/ \E p \in Pulls : Unwatch(a, p)
         /\ \/ poll' = poll
            \/ Ask \/ Observed \/ NotObserved \/ Vanished \/ Signal \/ Crash
            \/ \E change \in poll.changes : Told(change) \/ AppendFails(change)
            \/ \E a \in Agents : Refresh(a) \/ Hangup(a)
            \/ \E p \in Pulls : Sweep(p)
         /\ \/ outages' = outages /\ missed' = missed
            \/ Crash \/ \E change \in poll.changes : Told(change) \/ AppendFails(change)
            \/ \E a \in Agents : Create(a) \/ Hangup(a)
         /\ \/ knows' = knows
            \/ Signal \/ \E change \in poll.changes : Told(change)
            \/ \E a \in Agents : Delete(a) \/ \E p \in Pulls : Unwatch(a, p)
<1> USE DEF world, tables, ghosts, bounds
<1>1. ASSUME NEW a \in Agents, NEW p \in Pulls, Watch(a, p) \/ Status(a, p) \/ Await(a, p)
      PROVE  UNCHANGED <<hub, token, rows, created, subs, poll, outages, missed, knows>>
  BY <1>1 DEF Watch, Status, Await
<1>2. ASSUME NEW a \in Agents, NEW p \in Pulls, Unwatch(a, p)
      PROVE  UNCHANGED <<hub, token, rows, created, poll, outages, missed>>
  BY <1>2 DEF Unwatch
<1>3. ASSUME NEW a \in Agents, Create(a) PROVE UNCHANGED <<hub, token, subs, poll, knows>>
  BY <1>3 DEF Create
<1>4. ASSUME NEW a \in Agents, Subscribe(a)
      PROVE  UNCHANGED <<hub, token, rows, created, poll, outages, missed, knows>>
  BY <1>4 DEF Subscribe
<1>5. ASSUME NEW a \in Agents, Refresh(a)
      PROVE  UNCHANGED <<hub, token, rows, created, subs, outages, missed, knows>>
  BY <1>5 DEF Refresh
<1>6. ASSUME NEW a \in Agents, Delete(a) PROVE UNCHANGED <<hub, token, created, poll, outages, missed>>
  BY <1>6 DEF Delete
<1>7. ASSUME NEW a \in Agents, Hangup(a) PROVE UNCHANGED <<hub, token, rows, created, subs, knows>>
  BY <1>7 DEF Hangup
<1>8. Ask => UNCHANGED <<hub, rows, created, subs, outages, missed, knows>>
  BY DEF Ask
<1>9. Observed \/ NotObserved => UNCHANGED <<hub, token, created, subs, outages, missed, knows>>
  BY DEF Observed, NotObserved, Stored
<1>10. Vanished => UNCHANGED <<hub, token, rows, created, subs, outages, missed, knows>>
  BY DEF Vanished
<1>11. Signal => UNCHANGED <<hub, token, rows, created, subs, outages, missed>>
  BY DEF Signal
<1>12. ASSUME NEW change \in poll.changes, Tell(change) \/ SendFails(change)
       PROVE  Told(change) /\ UNCHANGED <<hub, token, rows, created, subs, missed>>
  BY <1>12 DEF Tell, SendFails, Told, Telling
<1>21. ASSUME NEW change \in poll.changes, AppendFails(change)
       PROVE  UNCHANGED <<hub, token, rows, created, subs, outages, knows>>
  BY <1>21 DEF AppendFails
<1>22. ASSUME NEW a \in Agents, Replaced(a) \/ Returns(a)
       PROVE  UNCHANGED <<hub, token, rows, created, subs, poll, outages, missed, knows>>
  BY <1>22 DEF Replaced, Returns
<1>13. ASSUME NEW p \in Pulls, Sweep(p)
       PROVE  UNCHANGED <<hub, token, rows, created, subs, outages, missed, knows>>
  BY <1>13 DEF Sweep
<1>14. ASSUME NEW p \in Pulls, Edit(p)
       PROVE  UNCHANGED <<token, rows, created, subs, poll, outages, missed, knows>>
  BY <1>14 DEF Edit
<1>15. Outage \/ Back => UNCHANGED <<hub, token, rows, created, subs, poll, outages, missed, knows>>
  BY DEF Outage, Back
<1>16. Crash => UNCHANGED <<hub, rows, created, subs, knows>>
  BY DEF Crash
<1>17. ASSUME NEW a \in Accounts, Revoke(a) \/ SignOut(a)
       PROVE  UNCHANGED <<hub, rows, created, subs, poll, outages, missed, knows>>
  BY <1>17 DEF Revoke, SignOut
<1>18. ASSUME NEW a \in Accounts, NEW p \in Pulls, Access(a, p)
       PROVE  UNCHANGED <<hub, token, rows, created, subs, poll, outages, missed, knows>>
  BY <1>18 DEF Access
<1>19. Askers \subseteq Agents
  BY PrWatchAssumption
<1>20. \/ \E a \in Agents, p \in Pulls : Watch(a, p) \/ Status(a, p) \/ Await(a, p)
       \/ \E a \in Agents, p \in Pulls : Unwatch(a, p)
       \/ \E a \in Agents : Create(a) \/ Subscribe(a) \/ Refresh(a) \/ Delete(a) \/ Hangup(a)
       \/ \E a \in Agents : Replaced(a) \/ Returns(a)
       \/ Ask \/ Observed \/ NotObserved \/ Vanished \/ Signal
       \/ \E change \in poll.changes : Tell(change) \/ SendFails(change) \/ AppendFails(change)
       \/ \E p \in Pulls : Sweep(p) \/ Edit(p)
       \/ Outage \/ Back \/ Crash
       \/ \E a \in Accounts : Revoke(a) \/ SignOut(a) \/ \E p \in Pulls : Access(a, p)
  BY <1>19 DEF Next, Calls, Polling
<1> QED  BY <1>1, <1>2, <1>3, <1>4, <1>5, <1>6, <1>7, <1>8, <1>9, <1>10, <1>11, <1>12, <1>13, <1>14,
            <1>15, <1>16, <1>17, <1>18, <1>20, <1>21, <1>22

(***************************************************************************)
(* The types are kept.                                                     *)
(***************************************************************************)

\* A row is told from none by its number.
LEMMA NoRowIsNone == NoRow.id = 0 /\ NoRow \notin Rows /\ \A row \in Rows : row # NoRow
<1>1. NoRow.id = 0
  BY DEF NoRow
<1>2. \A row \in Rows : row.id # 0
  BY DEF Rows
<1> QED  BY <1>1, <1>2

\* An observation is told from none by its state.
LEMMA NothingIsNone == Nothing \notin Observations
<1>1. Nothing.state = "unknown" /\ \A view \in Observations : view.state \in States
  BY DEF Nothing, Observations
<1> QED  BY <1>1 DEF States

\* What is stored of a pull request is an observation.
LEMMA ObservationIs == ASSUME NEW raw \in RawPulls PROVE Observation(raw) \in Observations
<1>1. StateOf(raw) \in States
  BY DEF StateOf, States
<1>2. raw.draft \in BOOLEAN /\ raw.head \in Nat /\ raw.reviews \in SUBSET Reviews
      /\ raw.threads \in [Threads -> [there : BOOLEAN, resolved : BOOLEAN, replies : Nat]]
  BY DEF RawPulls, Reviews
<1>3. ChecksState(LatestChecks(raw)) \in Checks
  BY DEF ChecksState, Checks
<1>4. LatestComments(raw) \in SUBSET Nat
  BY DEF LatestComments, Newest
<1>5. LatestReviews(raw) \in SUBSET Reviews /\ LatestThreads(raw) \in SUBSET Threads
  BY <1>2 DEF LatestReviews, LatestThreads, Newest
<1>6. ASSUME NEW t \in LatestThreads(raw)
      PROVE  [id |-> t, mark |-> IF raw.threads[t].resolved THEN "resolved" ELSE "open",
              replies |-> FirstReplies(raw.threads[t].replies)] \in Conversations
  <2>1. FirstReplies(raw.threads[t].replies) \in Nat
    BY <1>2, <1>5, WindowAssumption DEF FirstReplies
  <2> QED  BY <1>5, <2>1 DEF Conversations, Marks
<1> QED  BY <1>1, <1>2, <1>3, <1>4, <1>5, <1>6 DEF Observation, Observations

\* What changed between two observations is a set of changes.
LEMMA ChangesAre ==
  ASSUME NEW before \in Observations, NEW after \in Observations
  PROVE  /\ StateChange(before, after) \subseteq ContentChanges
         /\ ChecksChange(before, after) \subseteq ContentChanges
         /\ CommitsChange(before, after) \subseteq ContentChanges
         /\ CommentChanges(before, after) \subseteq ContentChanges
         /\ ReviewChanges(before, after) \subseteq ContentChanges
         /\ ThreadChanges(before, after) \subseteq ContentChanges
<1>1. /\ after.state \in States /\ after.draft \in BOOLEAN /\ after.checks \in Checks /\ after.head \in Nat
      /\ after.comments \subseteq Nat /\ after.reviews \subseteq Reviews
      /\ after.threads \subseteq Conversations
  BY DEF Observations
<1>2. StateChange(before, after) \subseteq ContentChanges
  BY <1>1 DEF StateChange, ContentChanges
<1>3. ChecksChange(before, after) \subseteq ContentChanges
  BY <1>1 DEF ChecksChange, ContentChanges
<1>4. CommitsChange(before, after) \subseteq ContentChanges
  BY <1>1 DEF CommitsChange, ContentChanges
<1>5. CommentChanges(before, after) \subseteq ContentChanges
  BY <1>1 DEF CommentChanges, ContentChanges
<1>6. ReviewChanges(before, after) \subseteq ContentChanges
  BY <1>1 DEF ReviewChanges, ContentChanges, Reviews
<1>7. ASSUME NEW c \in ThreadChanges(before, after) PROVE c \in ContentChanges
  <2>1. \E t \in after.threads : \/ c = [kind |-> "thread", id |-> t.id, mark |-> t.mark]
                                 \/ c = [kind |-> "thread", id |-> t.id, mark |-> "unsaid"]
                                 \/ c = [kind |-> "reply", id |-> t.id]
    BY <1>7 DEF ThreadChanges
  <2> QED  BY <1>1, <2>1 DEF Conversations, Marks, ContentChanges
<1> QED  BY <1>2, <1>3, <1>4, <1>5, <1>6, <1>7

\* The changes a successful poll has to tell.
LEMMA PollChanges ==
  ASSUME TypeInv, poll.stage = "store", poll.seen = "ok"
  PROVE  Changes \subseteq ContentChanges \cup {Recovered}
<1>1. poll.view \in Observations /\ poll.row.snapshot \in Observations \cup {Nothing}
  BY DEF TypeInv, PollOK, Rows
<1>2. CASE poll.row.snapshot = Nothing
  BY <1>2 DEF Changes, ChangesBetween, Recovered
<1>3. CASE poll.row.snapshot # Nothing
  BY <1>1, <1>3, ChangesAre DEF Changes, ChangesBetween, Recovered
<1> QED  BY <1>2, <1>3

\* A bounded set of numbers that is not empty has a first: of the sets of numbers up to one of
\* them, ordered by inclusion, there is a smallest.
LEMMA FirstOf ==
  ASSUME NEW n \in Nat, NEW S \in SUBSET (1 .. n), S # {}
  PROVE  \E m \in S : \A i \in S : m <= i
<1> DEFINE UpTo(i) == {j \in S : j <= i}
           T == {UpTo(i) : i \in S}
<1>1. IsFiniteSet(S)
  BY FS_BoundedSetOfNaturals
<1>2. T \subseteq FiniteSubsetsOf(S) /\ T # {}
  <2>1. \A i \in S : IsFiniteSet(UpTo(i)) /\ UpTo(i) \subseteq S
    BY <1>1, FS_Subset
  <2> QED  BY <2>1 DEF FiniteSubsetsOf
<1>3. PICK least \in T : \A x \in T : ~(<<x, least>> \in StrictSubsetOrdering(S))
  <2> HIDE DEF T
  <2> QED  BY <1>2, FS_StrictSubsetOrderingWellFounded, WFMin
<1>4. PICK m \in S : least = UpTo(m)
  OBVIOUS
<1>5. ASSUME NEW i \in S, i < m PROVE FALSE
  <2> \A j \in S : j \in Nat
    OBVIOUS
  <2>1. \A j \in S : j <= i => j <= m
    BY <1>5
  <2>2. m <= m /\ ~(m <= i)
    BY <1>5
  <2>3. UpTo(i) \subseteq UpTo(m) /\ m \in UpTo(m) /\ m \notin UpTo(i)
    BY <2>1, <2>2
  <2>4. <<UpTo(i), UpTo(m)>> \in StrictSubsetOrdering(S)
    BY <2>3 DEF StrictSubsetOrdering
  <2> QED  BY <1>3, <1>4, <2>4
<1> QED  BY <1>5

\* A query is answered in one of three ways.
LEMMA AnswerIs ==
  ASSUME TypeInv, NEW a \in Accounts, NEW p
  PROVE  Answer(a, p) \in {"ok", "not found", "failed"}
<1>1. TokenFor(a) \in {"none", "good", "revoked"}
  BY DEF TypeInv, TokenOK, TokenFor
<1> QED  BY <1>1 DEF Answer

\* Reading is answered in one of three ways, by an account of the machine.
LEMMA ReadIs ==
  ASSUME TypeInv, NEW p, NEW account \in ReadAs
  PROVE  /\ Read(p, account).answer \in {"ok", "not found", "failed"}
         /\ Read(p, account).account \in ReadAs
<1> DEFINE others == {i \in 1 .. Len(Logins) : Logins[i] \in signedIn \ {account}}
           first == IF account = NoAccount THEN "not found" ELSE Answer(account, p)
           telling == {i \in others : Answer(Logins[i], p) # "not found"}
           found == CHOOSE i \in telling : \A j \in telling : i <= j
<1>1. first \in {"ok", "not found", "failed"}
  BY AnswerIs DEF ReadAs
<1>2. AnswerActive(p) \in {"ok", "not found", "failed"}
  BY DEF AnswerActive
<1>3. CASE telling # {}
  <2>1. Logins \in Seq(Accounts) /\ Len(Logins) \in Nat
    BY PrWatchAssumption
  <2>2. telling \in SUBSET (1 .. Len(Logins))
    OBVIOUS
  <2>3. found \in telling
    <3> HIDE DEF telling
    <3>1. \E m \in telling : \A i \in telling : m <= i
      BY <1>3, <2>1, <2>2, FirstOf
    <3> QED  BY <3>1
  <2>4. Logins[found] \in Accounts
    <3> HIDE DEF telling, found
    <3>1. found \in 1 .. Len(Logins)
      BY <2>2, <2>3
    <3> QED  BY <2>1, <3>1
  <2>5. Answer(Logins[found], p) \in {"ok", "not found", "failed"}
    BY <2>4, AnswerIs
  <2> QED  BY <1>1, <1>2, <1>3, <2>4, <2>5 DEF Read, ReadAs
<1>4. CASE telling = {}
  BY <1>1, <1>2, <1>4 DEF Read, ReadAs
<1> QED  BY <1>3, <1>4

\* GitHub's record.
LEMMA HubStep == ASSUME TypeInv, Next PROVE HubOK'
<1>1. ASSUME NEW p \in Pulls, Edit(p) PROVE HubOK'
  BY <1>1 DEF Edit, TypeInv, HubOK
<1> QED  BY <1>1, Writers DEF TypeInv, HubOK

\* The client's cache.
LEMMA TokenStep == ASSUME TypeInv, Next PROVE TokenOK'
<1>1. CASE Ask
  <2>1. \A a \in Accounts : TokenAfter(a) \in {"none", "good", "revoked"}
    BY DEF TypeInv, TokenOK, TokenAfter, TokenFor
  <2> QED  BY <1>1, <2>1 DEF Ask, TypeInv, TokenOK
<1>2. CASE Crash
  BY <1>2 DEF Crash, TokenOK
<1>3. ASSUME NEW a \in Accounts, Revoke(a) \/ SignOut(a) PROVE TokenOK'
  BY <1>3 DEF Revoke, SignOut, TypeInv, TokenOK
<1> QED  BY <1>1, <1>2, <1>3, Writers DEF TypeInv, TokenOK

\* What is known of the poll at its stages.
LEMMA PollFacts ==
  ASSUME TypeInv, poll.stage # "idle"
  PROVE  /\ poll \in Polls /\ poll.pull \in Pulls /\ poll.row \in Rows /\ poll.row.id \in 1 .. created
         /\ poll.row.account \in ReadAs /\ poll.account \in ReadAs
         /\ rows[poll.pull] \in MayBeRows
<1>1. poll \in Polls /\ poll.pull \in Pulls /\ poll.row \in Rows /\ poll.row.id \in 1 .. created
  BY DEF TypeInv, PollOK
<1>2. poll.row.account \in ReadAs /\ poll.account \in ReadAs
  BY <1>1 DEF Rows, Polls
<1> QED  BY <1>1, <1>2 DEF TypeInv, RowsOK

\* The row that a poll writes, and the changes it has to tell then.
LEMMA StoredIs ==
  ASSUME TypeInv, Observed \/ NotObserved
  PROVE  /\ poll.stage = "store" /\ Present(poll.pull, poll.row.id)
         /\ rows[poll.pull] \in Rows /\ rows'[poll.pull] \in Rows
         /\ rows' = [rows EXCEPT ![poll.pull] = rows'[poll.pull]]
         /\ rows'[poll.pull].id = poll.row.id
         /\ poll' \in Polls /\ poll'.stage = "tell" /\ poll'.pull = poll.pull /\ poll'.row = poll.row
         /\ Observed => /\ rows'[poll.pull].failures = 0 /\ rows'[poll.pull].snapshot = poll.view
                        /\ poll.view \in Observations /\ poll'.changes = Changes
         /\ NotObserved => /\ rows'[poll.pull].failures > 0
                           /\ rows'[poll.pull].snapshot = rows[poll.pull].snapshot
                           /\ poll'.changes = IF poll.row.failures = 0 THEN {Unreachable} ELSE {}
<1> DEFINE p == poll.pull
<1>1. poll.stage = "store" /\ Present(p, poll.row.id)
  BY DEF Observed, NotObserved, Stored
<1>2. p \in Pulls /\ rows \in [Pulls -> MayBeRows] /\ rows[p] \in Rows /\ rows[p].id = poll.row.id
  BY <1>1, PollFacts DEF TypeInv, RowsOK, Present, MayBeRows
<1>3. poll \in Polls /\ poll.account \in ReadAs
  BY <1>1, PollFacts
<1>4. CASE Observed
  <2>1. /\ rows' = [rows EXCEPT ![p] = [rows[p] EXCEPT !.account = poll.account, !.failures = 0,
                                                       !.snapshot = poll.view]]
        /\ poll' = [poll EXCEPT !.stage = "tell", !.changes = Changes] /\ poll.seen = "ok"
    BY <1>4 DEF Observed, Stored
  <2>2. poll.view \in Observations
    BY <1>1, <2>1 DEF TypeInv, PollOK
  <2>3. rows'[p] = [rows[p] EXCEPT !.account = poll.account, !.failures = 0, !.snapshot = poll.view]
    BY <1>2, <2>1
  <2>4. rows'[p] \in Rows /\ rows'[p].id = rows[p].id /\ rows'[p].failures = 0
        /\ rows'[p].snapshot = poll.view
    <3>1. 0 \in 0 .. FailureCap /\ poll.view \in Observations \cup {Nothing}
      BY <2>2 DEF FailureCap
    <3> QED  BY <1>2, <1>3, <2>3, <3>1 DEF Rows
  <2>5. Changes \subseteq ContentChanges \cup {Unreachable, Recovered}
    BY <1>1, <2>1, PollChanges
  <2>6. /\ poll' \in Polls /\ poll'.stage = "tell" /\ poll'.pull = p /\ poll'.row = poll.row
        /\ poll'.changes = Changes
    BY <1>3, <2>1, <2>5 DEF Polls
  <2>7. ~NotObserved
    BY <2>1 DEF NotObserved
  <2> QED  BY <1>1, <1>2, <2>1, <2>2, <2>3, <2>4, <2>6, <2>7
<1>5. CASE NotObserved
  <2> DEFINE told == IF poll.row.failures = 0 THEN {Unreachable} ELSE {}
  <2>1. /\ rows' = [rows EXCEPT ![p] = OneMoreFailure(rows[p])]
        /\ poll' = [poll EXCEPT !.stage = "tell", !.changes = told] /\ poll.seen # "ok"
    BY <1>5 DEF NotObserved, Stored, Unreachable
  <2>2. PICK n \in 1 .. FailureCap :
          n = IF rows[p].failures < FailureCap THEN rows[p].failures + 1 ELSE rows[p].failures
    BY <1>2 DEF Rows, FailureCap
  <2>3. rows'[p] = [rows[p] EXCEPT !.failures = n]
    BY <1>2, <2>1, <2>2 DEF OneMoreFailure
  <2>4. rows'[p] \in Rows /\ rows'[p].id = rows[p].id /\ rows'[p].failures = n
        /\ rows'[p].snapshot = rows[p].snapshot
    BY <1>2, <2>3 DEF Rows, FailureCap
  <2>5. n > 0
    OBVIOUS
  <2>6. /\ poll' \in Polls /\ poll'.stage = "tell" /\ poll'.pull = p /\ poll'.row = poll.row
        /\ poll'.changes = told
    BY <1>3, <2>1 DEF Polls
  <2>7. ~Observed
    BY <2>1 DEF Observed
  <2> QED  BY <1>1, <1>2, <2>1, <2>3, <2>4, <2>5, <2>6, <2>7
<1> QED  BY <1>4, <1>5

\* A new row.
LEMMA CreateIs ==
  ASSUME TypeInv, NEW a \in Agents, Create(a), NEW p, p = call[a].pull
  PROVE  \/ /\ p \in Pulls /\ rows[p] = NoRow /\ created' = created + 1
            /\ rows' = [rows EXCEPT ![p] = rows'[p]]
            /\ rows'[p] \in Rows /\ rows'[p].id = created + 1 /\ rows'[p].failures = 0
            /\ rows'[p].snapshot = Nothing
            /\ outages' = [outages EXCEPT ![p] = 0] /\ missed' = missed \ {p}
         \/ UNCHANGED <<rows, created, outages, missed>>
<1>1. p \in Pulls
  BY DEF TypeInv, CallOK, Create
<1>2. CASE UNCHANGED <<rows, created, outages, missed>>
  BY <1>2
<1>3. CASE ~UNCHANGED <<rows, created, outages, missed>>
  <2>1. /\ rows[p] = NoRow /\ created' = created + 1
        /\ rows' = [rows EXCEPT ![p] = [id |-> created + 1, account |-> NoAccount, failures |-> 0,
                                        snapshot |-> Nothing]]
        /\ outages' = [outages EXCEPT ![p] = 0] /\ missed' = missed \ {p}
    BY <1>3 DEF Create
  <2>2. rows'[p] = [id |-> created + 1, account |-> NoAccount, failures |-> 0, snapshot |-> Nothing]
    BY <1>1, <2>1 DEF TypeInv, RowsOK
  <2>3. created + 1 \in Nat \ {0} /\ 0 \in 0 .. FailureCap
    BY DEF TypeInv, RowsOK, FailureCap
  <2>4. rows'[p] \in Rows
    BY <2>2, <2>3 DEF Rows, ReadAs
  <2>5. rows'[p].id = created + 1 /\ rows'[p].failures = 0 /\ rows'[p].snapshot = Nothing
    BY <2>2
  <2>6. rows' = [rows EXCEPT ![p] = rows'[p]]
    BY <2>1, <2>2
  <2> QED  BY <1>1, <2>1, <2>4, <2>5, <2>6
<1> QED  BY <1>2, <1>3

\* The watches.
LEMMA RowsStep == ASSUME TypeInv, Next PROVE RowsOK' /\ (created' = created \/ created' = created + 1)
<1>1. created \in Nat /\ rows \in [Pulls -> MayBeRows]
      /\ \A p \in Pulls : rows[p] # NoRow => rows[p].id \in 1 .. created
  BY DEF TypeInv, RowsOK
<1>2. CASE Observed \/ NotObserved
  <2>1. created' = created
    BY <1>2 DEF Observed, NotObserved, Stored
  <2>2. rows' \in [Pulls -> MayBeRows] /\ \A p \in Pulls : p # poll.pull => rows'[p] = rows[p]
    BY <1>1, <1>2, StoredIs DEF MayBeRows
  <2>3. rows'[poll.pull].id \in 1 .. created
    BY <1>2, StoredIs, PollFacts
  <2> QED  BY <1>1, <2>1, <2>2, <2>3 DEF RowsOK
<1>3. ASSUME NEW a \in Agents, Create(a) PROVE RowsOK' /\ (created' = created \/ created' = created + 1)
  <2> DEFINE p == call[a].pull
  <2>1. CASE UNCHANGED <<rows, created>>
    BY <2>1 DEF TypeInv, RowsOK
  <2>2. CASE /\ p \in Pulls /\ created' = created + 1 /\ rows' = [rows EXCEPT ![p] = rows'[p]]
             /\ rows'[p] \in Rows /\ rows'[p].id = created + 1
    <3>1. rows' \in [Pulls -> MayBeRows] /\ \A q \in Pulls : q # p => rows'[q] = rows[q]
      BY <1>1, <2>2 DEF MayBeRows
    <3> QED  BY <1>1, <2>2, <3>1 DEF RowsOK
  <2> QED  BY <1>3, <2>1, <2>2, CreateIs
<1>4. ASSUME NEW a \in Agents, Delete(a) PROVE RowsOK' /\ created' = created
  <2>1. created' = created /\ (rows' = rows \/ rows' = [rows EXCEPT ![call[a].pull] = NoRow])
    BY <1>4 DEF Delete
  <2>2. rows' \in [Pulls -> MayBeRows] /\ \A p \in Pulls : rows'[p] = rows[p] \/ rows'[p] = NoRow
    BY <1>1, <2>1 DEF MayBeRows
  <2> QED  BY <1>1, <2>1, <2>2 DEF RowsOK
<1>5. CASE rows' = rows /\ created' = created
  BY <1>1, <1>5 DEF RowsOK
<1>6. Observed \/ NotObserved => created' = created
  BY DEF Observed, NotObserved, Stored
<1> QED  BY <1>2, <1>3, <1>4, <1>5, <1>6, Writers

\* The subscribers.
LEMMA SubsStep == ASSUME TypeInv, Next PROVE SubsOK'
<1>1. /\ subs \in [Pulls -> SUBSET Agents] /\ \A p \in Pulls : subs[p] # {} => rows[p] # NoRow
      /\ rows \in [Pulls -> MayBeRows]
  BY DEF TypeInv, SubsOK, RowsOK
<1>2. ASSUME NEW a \in Agents, Subscribe(a) PROVE SubsOK'
  <2>1. call[a].pull \in Pulls /\ rows' = rows
    BY <1>2 DEF Subscribe, TypeInv, CallOK
  <2> QED  BY <1>1, <1>2, <2>1 DEF Subscribe, SubsOK, Present
<1>3. ASSUME NEW a \in Agents, Delete(a) PROVE SubsOK'
  <2>1. call[a].pull \in Pulls
    BY <1>3 DEF Delete, TypeInv, CallOK
  <2> QED  BY <1>1, <1>3, <2>1 DEF Delete, SubsOK
<1>4. ASSUME NEW a \in Agents, NEW p \in Pulls, Unwatch(a, p) PROVE SubsOK'
  BY <1>1, <1>4 DEF Unwatch, SubsOK
<1>5. CASE subs' = subs /\ rows' = rows
  BY <1>1, <1>5 DEF SubsOK
<1>6. CASE Observed \/ NotObserved
  <2>1. subs' = subs
    BY <1>6 DEF Observed, NotObserved, Stored
  <2>2. \A p \in Pulls : rows[p] # NoRow => rows'[p] # NoRow
    BY <1>1, <1>6, StoredIs, NoRowIsNone
  <2> QED  BY <1>1, <2>1, <2>2 DEF SubsOK
<1>7. ASSUME NEW a \in Agents, Create(a) PROVE SubsOK'
  <2>1. subs' = subs
    BY <1>7 DEF Create
  <2>2. \A p \in Pulls : rows[p] # NoRow => rows'[p] # NoRow
    BY <1>1, <1>7, CreateIs, NoRowIsNone
  <2> QED  BY <1>1, <2>1, <2>2 DEF SubsOK
<1> QED  BY <1>2, <1>3, <1>4, <1>5, <1>6, <1>7, Writers

\* A call of none is idle.
LEMMA NoCallIsIdle == NoCall \in CallsOK /\ NoCall.stage = "idle" /\ NoCall.wants = "none"
BY DEF NoCall, CallsOK

\* One call changes.
LEMMA OneCall ==
  ASSUME TypeInv, NEW a \in Agents, NEW new \in CallsOK, new.stage # "idle" => new.pull \in Pulls,
         new.stage = "idle" => new.wants = "none",
         call' = [call EXCEPT ![a] = new]
  PROVE  CallOK'
BY DEF TypeInv, CallOK

\* One call ends.
LEMMA CallEnds == ASSUME TypeInv, NEW a \in Agents, call' = [call EXCEPT ![a] = NoCall] PROVE CallOK'
BY OneCall, NoCallIsIdle

\* One call goes on to another stage.
LEMMA CallGoesOn ==
  ASSUME TypeInv, NEW a \in Agents, call[a].stage # "idle",
         NEW stage \in {"subscribe", "refresh", "polling", "delete"}, NEW id \in Nat,
         call' = [call EXCEPT ![a] = [call[a] EXCEPT !.stage = stage, !.id = id]]
  PROVE  CallOK'
<1>1. call[a] \in CallsOK /\ call[a].pull \in Pulls
  BY DEF TypeInv, CallOK
<1>2. /\ [call[a] EXCEPT !.stage = stage, !.id = id] \in CallsOK
      /\ [call[a] EXCEPT !.stage = stage, !.id = id].pull = call[a].pull
      /\ [call[a] EXCEPT !.stage = stage, !.id = id].stage # "idle"
  BY <1>1 DEF CallsOK
<1> QED  BY <1>1, <1>2, OneCall

\* The same, when the call keeps the number of its watch.
LEMMA CallKeepsId ==
  ASSUME TypeInv, NEW a \in Agents, call[a].stage # "idle",
         NEW stage \in {"subscribe", "refresh", "polling", "delete"},
         call' = [call EXCEPT ![a].stage = stage]
  PROVE  CallOK'
<1>1. call[a] \in CallsOK /\ call[a].id \in Nat
  BY DEF TypeInv, CallOK, CallsOK
<1>2. [call[a] EXCEPT !.stage = stage] = [call[a] EXCEPT !.stage = stage, !.id = call[a].id]
  BY <1>1 DEF CallsOK
<1> QED  BY <1>1, <1>2, CallGoesOn

\* The calls.
LEMMA CallStep == ASSUME TypeInv, Next PROVE CallOK'
<1> USE DEF world, tables, ghosts, bounds
<1>1. ASSUME NEW a \in Agents, NEW p \in Pulls, NEW stage \in {"create", "subscribe", "refresh", "asleep"},
             NEW wants \in {"watch", "status"},
             call' = [call EXCEPT ![a] = [stage |-> stage, pull |-> p, id |-> rows[p].id, wants |-> wants]]
      PROVE  CallOK'
  <2>1. rows[p].id \in Nat
    BY NoRowIsNone DEF TypeInv, RowsOK, MayBeRows, Rows
  <2>2. [stage |-> stage, pull |-> p, id |-> rows[p].id, wants |-> wants] \in CallsOK
    BY <2>1 DEF CallsOK
  <2> QED  BY <1>1, <2>2, OneCall
<1>2. ASSUME NEW a \in Agents, NEW p \in Pulls, Watch(a, p) PROVE CallOK'
  <2>1. CASE rows[p] = NoRow
    BY <1>1, <1>2, <2>1 DEF Watch
  <2>2. CASE rows[p] # NoRow
    BY <1>1, <1>2, <2>2 DEF Watch
  <2> QED  BY <2>1, <2>2
<1>3. ASSUME NEW a \in Agents, NEW p \in Pulls, Status(a, p) \/ Await(a, p) PROVE CallOK'
  BY <1>1, <1>3 DEF Status, Await
<1>4. ASSUME NEW a \in Agents, Create(a) PROVE CallOK'
  <2>1. call[a].stage # "idle" /\ created + 1 \in Nat
    BY <1>4 DEF Create, TypeInv, RowsOK
  <2>2. \/ call' = [call EXCEPT ![a] = NoCall]
        \/ call' = [call EXCEPT ![a] = [call[a] EXCEPT !.stage = "subscribe", !.id = created + 1]]
    BY <1>4 DEF Create
  <2> QED  BY <2>1, <2>2, CallEnds, CallGoesOn
<1>5. ASSUME NEW a \in Agents, Subscribe(a) PROVE CallOK'
  BY <1>5, CallEnds, CallKeepsId DEF Subscribe
<1>6. ASSUME NEW a \in Agents, Refresh(a) PROVE CallOK'
  BY <1>6, CallEnds, CallKeepsId DEF Refresh
<1>7. ASSUME NEW a \in Agents, Delete(a) \/ Hangup(a) PROVE CallOK'
  BY <1>7, CallEnds DEF Delete, Hangup
<1>8. CASE Vanished
  <2>1. CASE poll.by \in Agents
    BY <1>8, <2>1, CallEnds DEF Vanished
  <2>2. CASE poll.by \notin Agents
    BY <1>8, <2>2 DEF Vanished, TypeInv, CallOK
  <2> QED  BY <2>1, <2>2
<1>9. CASE Crash
  BY <1>9, NoCallIsIdle DEF Crash, CallOK
<1>10. CASE Signal
  <2>1. call' = [a \in Agents |-> IF a = poll.by /\ Undo(a) THEN [call[a] EXCEPT !.stage = "delete"]
                                  ELSE IF a = poll.by \/ a \in Asleep(poll.pull, poll.row.id) THEN NoCall
                                  ELSE call[a]]
    BY <1>10 DEF Signal
  <2>2. ASSUME NEW a \in Agents, Undo(a)
        PROVE  /\ [call[a] EXCEPT !.stage = "delete"] \in CallsOK
               /\ [call[a] EXCEPT !.stage = "delete"].pull \in Pulls
               /\ [call[a] EXCEPT !.stage = "delete"].stage = "delete"
    <3>1. /\ call[a] \in CallsOK /\ (call[a].stage # "idle" => call[a].pull \in Pulls)
          /\ call[a].stage = "idle" => call[a].wants = "none"
      BY DEF TypeInv, CallOK
    <3>2. call[a].wants = "watch"
      BY <2>2 DEF Undo
    <3>3. call[a].pull \in Pulls
      BY <3>1, <3>2 DEF CallsOK
    <3> QED  BY <3>1, <3>3 DEF CallsOK
  <2>3. ASSUME NEW a \in Agents 
        PROVE  /\ call'[a] \in CallsOK /\ (call'[a].stage # "idle" => call'[a].pull \in Pulls)
               /\ call'[a].stage = "idle" => call'[a].wants = "none"
    BY <2>1, <2>2, NoCallIsIdle DEF TypeInv, CallOK
  <2>4. call' \in [Agents -> CallsOK]
    BY <2>1, <2>3
  <2> QED  BY <2>3, <2>4 DEF CallOK
<1>11. CASE call' = call
  BY <1>11 DEF TypeInv, CallOK
<1>12. Ask \/ Observed \/ NotObserved \/ Outage \/ Back => call' = call
  BY DEF Ask, Observed, NotObserved, Stored, Outage, Back
<1>13. ASSUME NEW change \in poll.changes, Tell(change) \/ SendFails(change) \/ AppendFails(change)
       PROVE  call' = call
  BY <1>13 DEF Tell, SendFails, AppendFails, Telling
<1>14. ASSUME NEW p \in Pulls, Sweep(p) \/ Edit(p) PROVE call' = call
  BY <1>14 DEF Sweep, Edit
<1>15. ASSUME NEW a \in Accounts, NEW p \in Pulls, Access(a, p) PROVE call' = call
  BY <1>15 DEF Access
<1>16. ASSUME NEW a \in Accounts, Revoke(a) \/ SignOut(a) PROVE call' = call
  BY <1>16 DEF Revoke, SignOut
<1>17. ASSUME NEW a \in Agents, NEW p \in Pulls, Unwatch(a, p) PROVE call' = call
  BY <1>17 DEF Unwatch
<1>18. ASSUME NEW a \in Agents, Replaced(a) \/ Returns(a) PROVE call' = call
  BY <1>18 DEF Replaced, Returns
<1> QED  BY <1>2, <1>3, <1>4, <1>5, <1>6, <1>7, <1>8, <1>9, <1>10, <1>11, <1>12, <1>13, <1>14, <1>15,
            <1>16, <1>17, <1>18, PrWatchAssumption DEF Next, Calls, Polling

\* No poll is none, and one that begins has its row.
LEMMA NoPollIs ==
  /\ NoPoll \in Polls /\ NoPoll.stage = "idle" /\ NoPoll.changes = {}
<1>1. NoRow \in MayBeRows /\ NoAccount \in ReadAs
  BY DEF MayBeRows, ReadAs
<1> QED  BY <1>1 DEF NoPoll, Polls

\* A poll that begins.
LEMMA PollBegins ==
  ASSUME TypeInv, NEW by \in Agents \cup {"sweep", "nobody"}, NEW p \in Pulls, rows[p] # NoRow,
         poll' = [NoPoll EXCEPT !.stage = "read", !.by = by, !.pull = p, !.row = rows[p]]
  PROVE  /\ poll' \in Polls /\ poll'.stage = "read" /\ poll'.pull = p /\ poll'.row = rows[p]
         /\ rows[p] \in Rows /\ rows[p].id \in 1 .. created
<1>1. rows[p] \in Rows /\ rows[p].id \in 1 .. created
  BY DEF TypeInv, RowsOK, MayBeRows
<1>2. rows[p] \in MayBeRows
  BY <1>1 DEF MayBeRows
<1>3. /\ poll' \in Polls /\ poll'.stage = "read" /\ poll'.pull = p /\ poll'.row = rows[p]
  BY <1>2, NoPollIs DEF Polls
<1> QED  BY <1>1, <1>3

\* A call that refreshes begins a poll, unless its watch is gone.
LEMMA RefreshIs ==
  ASSUME TypeInv, NEW a \in Agents, Refresh(a)
  PROVE  /\ poll = NoPoll
         /\ \/ poll' = NoPoll
            \/ \E p \in Pulls : /\ poll' \in Polls /\ poll'.stage = "read" /\ poll'.pull = p /\ poll'.row = rows[p]
                                /\ rows[p] \in Rows /\ rows[p].id \in 1 .. created
<1> DEFINE p == call[a].pull
<1>1. p \in Pulls /\ poll = NoPoll
  BY DEF Refresh, TypeInv, CallOK
<1>2. CASE Present(p, call[a].id)
  <2>1. rows[p] # NoRow /\ poll' = [NoPoll EXCEPT !.stage = "read", !.by = a, !.pull = p, !.row = rows[p]]
    BY <1>2 DEF Refresh, Present
  <2>2. a \in Agents \cup {"sweep", "nobody"}
    OBVIOUS
  <2>3. /\ poll' \in Polls /\ poll'.stage = "read" /\ poll'.pull = p /\ poll'.row = rows[p]
        /\ rows[p] \in Rows /\ rows[p].id \in 1 .. created
    BY <1>1, <2>1, <2>2, PollBegins
  <2> QED  BY <1>1, <2>3
<1>3. CASE ~Present(p, call[a].id)
  BY <1>3 DEF Refresh
<1> QED  BY <1>1, <1>2, <1>3

\* A poll that has its answer.
LEMMA AskIs ==
  ASSUME TypeInv, Ask
  PROVE  /\ poll.stage = "read" /\ poll' \in Polls /\ poll'.stage = "store"
         /\ poll'.pull = poll.pull /\ poll'.row = poll.row /\ poll'.changes = poll.changes
         /\ poll'.seen = "ok" => poll'.view = Observation(hub[poll.pull]) /\ poll'.view \in Observations
<1> DEFINE r == Read(poll.pull, poll.row.account)
           view == IF r.answer = "ok" THEN Observation(hub[poll.pull]) ELSE Nothing
<1>1. /\ poll.stage = "read"
      /\ poll' = [poll EXCEPT !.stage = "store", !.seen = r.answer, !.account = r.account, !.view = view]
  BY DEF Ask
<1>2. poll \in Polls /\ poll.pull \in Pulls /\ poll.row.account \in ReadAs
  BY <1>1, PollFacts
<1>3. r.answer \in {"ok", "not found", "failed"} /\ r.account \in ReadAs
  BY <1>2, ReadIs
<1>4. Observation(hub[poll.pull]) \in Observations
  BY <1>2, ObservationIs DEF TypeInv, HubOK
<1>5. view \in Observations \cup {Nothing}
  BY <1>4
<1> HIDE DEF r, view
<1>6. /\ poll' \in Polls /\ poll'.stage = "store" /\ poll'.pull = poll.pull /\ poll'.row = poll.row
      /\ poll'.changes = poll.changes /\ poll'.seen = r.answer /\ poll'.view = view
  BY <1>1, <1>2, <1>3, <1>5 DEF Polls
<1> QED  BY <1>1, <1>4, <1>6 DEF view

\* The rest of a poll: a change less, a caller less.
LEMMA TellIs ==
  ASSUME TypeInv, NEW change \in poll.changes, Told(change) \/ AppendFails(change)
  PROVE  /\ poll.stage = "tell" /\ poll' \in Polls /\ poll'.stage = "tell"
         /\ poll'.pull = poll.pull /\ poll'.row = poll.row /\ poll'.changes = poll.changes \ {change}
<1>1. poll.stage = "tell" /\ poll' = [poll EXCEPT !.changes = @ \ {change}] /\ poll \in Polls
  BY PollFacts DEF Told, Telling, AppendFails, NextChange
<1> QED  BY <1>1 DEF Polls

\* A caller that hangs up ends its poll, or what its poll has left to tell.
LEMMA HangupIs ==
  ASSUME TypeInv, NEW a \in Agents, Hangup(a)
  PROVE  \/ poll' = poll /\ missed' = missed
         \/ poll' = NoPoll /\ poll.stage # "tell" /\ missed' = missed \cup Dropped
         \/ /\ poll.stage = "tell" /\ poll' \in Polls /\ poll'.stage = "tell"
            /\ poll'.pull = poll.pull /\ poll'.row = poll.row /\ poll'.changes = {}
            /\ missed' = missed \cup Dropped
<1>1. CASE poll.by = a /\ poll.stage = "tell"
  <2>1. poll' = [poll EXCEPT !.by = "nobody", !.changes = {}] /\ poll \in Polls
        /\ missed' = missed \cup Dropped
    BY <1>1, PollFacts DEF Hangup
  <2>2. /\ poll' \in Polls /\ poll'.stage = poll.stage /\ poll'.pull = poll.pull /\ poll'.row = poll.row
        /\ poll'.changes = {}
    BY <2>1 DEF Polls
  <2> QED  BY <1>1, <2>1, <2>2
<1> QED  BY <1>1 DEF Hangup

\* The poll.
LEMMA PollStep == ASSUME TypeInv, Next PROVE PollOK'
<1>1. created \in Nat /\ (created' = created \/ created' = created + 1)
  BY RowsStep DEF TypeInv, RowsOK
<1>2. \A n \in 1 .. created : n \in 1 .. created'
  BY <1>1
<1>3. CASE poll' = NoPoll
  BY <1>3, NoPollIs DEF PollOK
<1>4. ASSUME poll' \in Polls, poll'.stage \in {"read", "tell"}, poll'.pull \in Pulls, poll'.row \in Rows,
             poll'.row.id \in 1 .. created
      PROVE  PollOK'
  BY <1>2, <1>4 DEF PollOK
<1>5. CASE Ask
  BY <1>2, <1>5, AskIs, PollFacts DEF PollOK
<1>6. CASE Observed \/ NotObserved
  BY <1>4, <1>6, StoredIs, PollFacts
<1>7. CASE Vanished \/ Signal \/ Crash
  BY <1>3, <1>7 DEF Vanished, Signal, Crash
<1>8. ASSUME NEW change \in poll.changes, Told(change) \/ AppendFails(change) PROVE PollOK'
  BY <1>4, <1>8, TellIs, PollFacts
<1>9. ASSUME NEW a \in Agents, Refresh(a) PROVE PollOK'
  BY <1>3, <1>4, <1>9, RefreshIs
<1>10. ASSUME NEW p \in Pulls, Sweep(p) PROVE PollOK'
  BY <1>4, <1>10, PollBegins DEF Sweep
<1>11. CASE poll' = poll
  BY <1>2, <1>11 DEF TypeInv, PollOK
<1>12. ASSUME NEW a \in Agents, Hangup(a) PROVE PollOK'
  BY <1>3, <1>4, <1>11, <1>12, HangupIs, PollFacts
<1> QED  BY <1>5, <1>6, <1>7, <1>8, <1>9, <1>10, <1>11, <1>12, Writers

\* Every step keeps the types.
LEMMA TypeStep == ASSUME TypeInv, [Next]_vars PROVE TypeInv'
<1>1. CASE Next
  BY <1>1, HubStep, TokenStep, RowsStep, SubsStep, CallStep, PollStep DEF TypeInv
<1>2. CASE UNCHANGED vars
  BY <1>2 DEF vars, TypeInv, HubOK, TokenOK, RowsOK, SubsOK, CallOK, PollOK
<1> QED  BY <1>1, <1>2

\* They hold at first.
LEMMA TypeInit == Init => TypeInv
<1> SUFFICES ASSUME Init PROVE TypeInv
  OBVIOUS
<1>1. HubOK
  BY PrWatchAssumption DEF Init, HubOK
<1>2. TokenOK
  BY DEF Init, TokenOK
<1>3. RowsOK
  BY DEF Init, RowsOK, MayBeRows
<1>4. SubsOK
  BY DEF Init, SubsOK
<1>5. CallOK
  BY NoCallIsIdle DEF Init, CallOK
<1>6. PollOK
  BY NoPollIs DEF Init, PollOK
<1> QED  BY <1>1, <1>2, <1>3, <1>4, <1>5, <1>6 DEF TypeInv

\* They hold in every state.
LEMMA TypeInvariant == Spec => []TypeInv
BY TypeInit, TypeStep, PTL DEF Spec

\* Every variable of the watcher keeps its type, and only a watch that exists has subscribers,
\* whatever calls, polls and deletions fall between each other.
THEOREM PrWatchTypeCorrect == Spec => []TypeOK
BY TypeInvariant, TypeInvTypes, PTL

(***************************************************************************)
(* What a poll knows of the row it holds, of GitHub and of its readers.    *)
(***************************************************************************)

\* A row that is still there is the row the poll has read.
RowIsCurrent ==
  poll.stage \in {"read", "store"} /\ Present(poll.pull, poll.row.id) => rows[poll.pull] = poll.row

\* An observation that was made of a pull request, which may have moved on since.
Keeps(view, raw) ==
  /\ \A t, u \in view.threads : t.id = u.id => t = u
  /\ \A k \in view.reviews : \E r \in raw.reviews : r.id = k.id
  /\ \A r \in raw.reviews, k \in view.reviews : k.id = r.id => \E j \in view.reviews : Became(j, r)

\* The second of two observations.
Later(before, after) ==
  /\ \A t, u \in before.threads : t.id = u.id => t = u
  /\ \A t, u \in after.threads : t.id = u.id => t = u
  /\ \A r \in after.reviews, k \in before.reviews : k.id = r.id => \E j \in before.reviews : Became(j, r)

SnapshotsWereSeen ==
  \A p \in Pulls : rows[p] # NoRow /\ rows[p].snapshot # Nothing => Keeps(rows[p].snapshot, hub[p])

ViewWasSeen ==
  poll.stage = "store" /\ poll.seen = "ok" =>
    /\ Keeps(poll.view, hub[poll.pull])
    /\ Present(poll.pull, poll.row.id) /\ poll.row.snapshot # Nothing => Later(poll.row.snapshot, poll.view)

\* What is stored about a watch and not told yet.
Pending(p) ==
  IF poll.stage = "tell" /\ poll.pull = p /\ Present(p, poll.row.id) THEN poll.changes ELSE {}

OutagesOK == outages \in [Pulls -> Int]

\* What was announced of a watch, with what is about to be, is whether it fails.
OutagesAgree ==
  \A p \in Pulls : rows[p] # NoRow /\ p \notin missed =>
    /\ ~(Unreachable \in Pending(p) /\ Recovered \in Pending(p))
    /\ Unreachable \in Pending(p) => outages[p] = 0 /\ rows[p].failures > 0
    /\ Recovered \in Pending(p) => outages[p] = 1 /\ rows[p].failures = 0
    /\ Unreachable \notin Pending(p) /\ Recovered \notin Pending(p)
         => outages[p] = IF rows[p].failures > 0 THEN 1 ELSE 0

OutageInv == OutagesOK /\ RowIsCurrent /\ OutagesAgree

\* Nothing is pending of a watch that no poll tells of.
LEMMA NonePending ==
  /\ \A p : poll.stage # "tell" \/ poll.pull # p => Pending(p) = {}
  /\ \A p : poll.changes = {} => Pending(p) = {}
BY DEF Pending

\* What a step other than a store or a telling does to a watch that is there afterwards, and of
\* which nothing was missed: nothing, or it is new.
Untouched(p) ==
  rows'[p] = rows[p] /\ p \notin missed /\ Pending(p)' = Pending(p) /\ outages'[p] = outages[p]
New(p) ==
  /\ rows[p] = NoRow /\ rows'[p].failures = 0 /\ rows'[p].snapshot = Nothing
  /\ Pending(p)' = {} /\ outages'[p] = 0

\* The steps that change neither a watch nor what was announced.
LEMMA PollMovesOn ==
  ASSUME NEW p \in Pulls, UNCHANGED <<rows, outages>>, missed \subseteq missed', p \notin missed',
         poll.stage # "tell" \/ poll.pull # p \/ poll.changes = {},
         poll'.stage # "tell" \/ poll'.pull # p \/ poll'.changes = {}
  PROVE  Untouched(p)
BY DEF Untouched, Pending

\* Steps that neither store nor tell.
LEMMA OtherSteps ==
  ASSUME TypeInv, OutagesOK, Next, ~(Observed \/ NotObserved), \A change \in poll.changes : ~Told(change),
         NEW p \in Pulls, rows'[p] # NoRow, p \notin missed'
  PROVE  Untouched(p) \/ New(p)
<1> USE DEF world, tables, ghosts, bounds
<1>1. CASE UNCHANGED <<rows, outages, missed, poll>>
  BY <1>1 DEF Untouched, Pending, Present
<1>2. ASSUME NEW a \in Agents, Create(a) PROVE Untouched(p) \/ New(p)
  <2>1. poll' = poll
    BY <1>2 DEF Create
  <2>2. CASE UNCHANGED <<rows, outages, missed>>
    BY <1>1, <2>1, <2>2
  <2> DEFINE q == call[a].pull
  <2>3. CASE /\ q \in Pulls /\ rows[q] = NoRow /\ rows' = [rows EXCEPT ![q] = rows'[q]]
             /\ rows'[q].id = created + 1 /\ rows'[q].failures = 0 /\ rows'[q].snapshot = Nothing
             /\ outages' = [outages EXCEPT ![q] = 0] /\ missed' = missed \ {q}
    <3>1. CASE p = q
      <4>1. Pending(p)' = {}
        <5>1. CASE poll.stage = "tell"
          <6>1. poll.row.id # created + 1
            BY <5>1, PollFacts DEF TypeInv, RowsOK
          <6> QED  BY <2>1, <2>3, <3>1, <6>1 DEF Pending, Present
        <5>2. CASE poll.stage # "tell"
          BY <2>1, <5>2 DEF Pending
        <5> QED  BY <5>1, <5>2
      <4>2. outages'[p] = 0
        BY <2>3, <3>1 DEF OutagesOK
      <4> QED  BY <2>3, <3>1, <4>1, <4>2 DEF New
    <3>2. CASE p # q
      <4>1. rows'[p] = rows[p] /\ outages'[p] = outages[p] /\ p \notin missed
        BY <2>3, <3>2 DEF OutagesOK, TypeInv, RowsOK
      <4> QED  BY <2>1, <4>1 DEF Untouched, Pending, Present
    <3> QED  BY <3>1, <3>2
  <2> QED  BY <1>2, <2>2, <2>3, CreateIs
<1>3. ASSUME NEW a \in Agents, Delete(a) PROVE Untouched(p) \/ New(p)
  <2>1. UNCHANGED <<poll, outages, missed>> /\ (rows' = rows \/ rows' = [rows EXCEPT ![call[a].pull] = NoRow])
    BY <1>3 DEF Delete
  <2>2. rows'[p] = rows[p]
    BY <2>1 DEF TypeInv, RowsOK
  <2> QED  BY <2>1, <2>2 DEF Untouched, Pending, Present
<1>4. CASE Ask
  <2>1. UNCHANGED <<rows, outages, missed>> /\ poll.stage = "read" /\ poll'.stage = "store"
    BY <1>4, AskIs DEF Ask
  <2> QED  BY <2>1, PollMovesOn
<1>5. CASE Vanished \/ Signal
  <2>1. /\ UNCHANGED <<rows, outages, missed>> /\ poll' = NoPoll
        /\ poll.stage = "store" \/ poll.changes = {}
    BY <1>5 DEF Vanished, Signal
  <2> QED  BY <2>1, PollMovesOn, NoPollIs
<1>6. CASE Crash
  <2>1. UNCHANGED <<rows, outages>> /\ missed' = missed \cup Dropped /\ poll' = NoPoll
    BY <1>6 DEF Crash
  <2> QED  BY <2>1, PollMovesOn, NoPollIs DEF Dropped
<1>7. ASSUME NEW a \in Agents, Hangup(a) PROVE Untouched(p)
  <2>1. UNCHANGED <<rows, outages>>
    BY <1>7 DEF Hangup
  <2>2. CASE poll' = poll /\ missed' = missed
    BY <2>1, <2>2 DEF Untouched, Pending, Present
  <2>3. CASE poll' = NoPoll /\ poll.stage # "tell" /\ missed' = missed \cup Dropped
    BY <2>1, <2>3, PollMovesOn, NoPollIs
  <2>4. CASE poll.stage = "tell" /\ poll'.changes = {} /\ missed' = missed \cup Dropped
    BY <2>1, <2>4, PollMovesOn DEF Dropped
  <2> QED  BY <1>7, <2>2, <2>3, <2>4, HangupIs
<1>8. ASSUME NEW a \in Agents, Refresh(a) PROVE Untouched(p)
  <2>1. UNCHANGED <<rows, outages, missed>>
    BY <1>8 DEF Refresh
  <2>2. poll.stage = "idle" /\ poll'.stage # "tell"
    BY <1>8, RefreshIs, NoPollIs
  <2> QED  BY <2>1, <2>2, PollMovesOn
<1>9. ASSUME NEW q \in Pulls, Sweep(q) PROVE Untouched(p)
  <2>1. UNCHANGED <<rows, outages, missed>> /\ poll = NoPoll
    BY <1>9 DEF Sweep
  <2>2. poll.stage = "idle" /\ poll'.stage = "read"
    BY <1>9, <2>1, PollBegins, NoPollIs DEF Sweep
  <2> QED  BY <2>1, <2>2, PollMovesOn
<1>10. ASSUME NEW change \in poll.changes, AppendFails(change) PROVE Untouched(p)
  <2>1. UNCHANGED <<rows, outages>> /\ missed' = missed \cup {poll.pull}
    BY <1>10 DEF AppendFails
  <2>2. poll'.pull = poll.pull
    BY <1>10, TellIs
  <2> QED  BY <2>1, <2>2, PollMovesOn
<1> QED  BY <1>1, <1>2, <1>3, <1>4, <1>5, <1>6, <1>7, <1>8, <1>9, <1>10, Writers

\* A store touches the watch that is polled, of which nothing was pending.
LEMMA StoreElsewhere ==
  ASSUME TypeInv, OutageInv, Observed \/ NotObserved
  PROVE  /\ \A p \in Pulls : p # poll.pull /\ p \notin missed => Untouched(p)
         /\ \A p \in Pulls : p = poll.pull => Pending(p) = {} /\ Pending(p)' = poll'.changes
         /\ rows[poll.pull] = poll.row /\ UNCHANGED <<outages, missed>>
<1>1. UNCHANGED <<outages, missed>>
  BY DEF Observed, NotObserved, Stored, ghosts
<1>2. poll.pull \in Pulls /\ rows[poll.pull] = poll.row /\ rows'[poll.pull] # NoRow
  BY StoredIs, PollFacts, NoRowIsNone DEF OutageInv, RowIsCurrent
<1>3. \A p \in Pulls : p # poll.pull => rows'[p] = rows[p]
  BY StoredIs DEF TypeInv, RowsOK
<1>4. \A p \in Pulls : p # poll.pull => Pending(p) = {} /\ Pending(p)' = {}
  BY StoredIs DEF Pending
<1>5. \A p \in Pulls : p = poll.pull => Pending(p) = {} /\ Pending(p)' = poll'.changes
  BY <1>2, StoredIs DEF Pending, Present
<1> QED  BY <1>1, <1>2, <1>3, <1>4, <1>5 DEF Untouched

\* An outage and its end are no changes of the pull request.
LEMMA OutageKinds ==
  /\ Unreachable.kind = "unreachable" /\ Recovered.kind = "recovered" /\ Unreachable # Recovered
  /\ \A c \in ContentChanges : c.kind \notin {"unreachable", "recovered"} /\ c \notin {Unreachable, Recovered}
<1>1. Unreachable.kind = "unreachable" /\ Recovered.kind = "recovered"
  BY DEF Unreachable, Recovered
<1>2. \A c \in ContentChanges : c.kind \notin {"unreachable", "recovered"}
  BY DEF ContentChanges
<1> QED  BY <1>1, <1>2

\* A telling touches the watch that is polled, if it is still there.
LEMMA TellElsewhere ==
  ASSUME TypeInv, OutageInv, NEW change \in poll.changes, Told(change)
  PROVE  /\ UNCHANGED <<rows, missed>> /\ poll.pull \in Pulls
         /\ \A p \in Pulls : p \notin missed => Untouched(p) \/ (p = poll.pull /\ Present(p, poll.row.id))
         /\ \A p \in Pulls : p = poll.pull /\ Present(p, poll.row.id) =>
              Pending(p) = poll.changes /\ Pending(p)' = poll.changes \ {change}
         /\ Present(poll.pull, poll.row.id) =>
              outages'[poll.pull] = CASE change.kind = "unreachable" -> outages[poll.pull] + 1
                                         [] change.kind = "recovered" -> outages[poll.pull] - 1
                                         [] OTHER -> outages[poll.pull]
<1> DEFINE q == poll.pull
           told == CASE change.kind = "unreachable" -> outages[q] + 1
                     [] change.kind = "recovered" -> outages[q] - 1
                     [] OTHER -> outages[q]
<1>1. UNCHANGED <<rows, missed>> /\ q \in Pulls
  BY TellIs, PollFacts DEF Told, Telling, tables
<1>2. IF Present(q, poll.row.id) THEN outages' = [outages EXCEPT ![q] = told] ELSE outages' = outages
  BY DEF Told, Telling
<1>3. outages \in [Pulls -> Int]
  BY DEF OutageInv, OutagesOK
<1> HIDE DEF told
<1>4. \A p \in Pulls : p # q \/ ~Present(q, poll.row.id) => outages'[p] = outages[p]
  BY <1>2, <1>3
<1>5. Present(q, poll.row.id) => outages'[q] = told
  BY <1>1, <1>2, <1>3
<1>6. \A p \in Pulls : p # q \/ ~Present(q, poll.row.id) => Pending(p) = {} /\ Pending(p)' = {}
  BY <1>1, TellIs DEF Pending, Present
<1>7. \A p \in Pulls : p = poll.pull /\ Present(p, poll.row.id) =>
        Pending(p) = poll.changes /\ Pending(p)' = poll.changes \ {change}
  BY <1>1, TellIs DEF Pending, Present
<1> QED  BY <1>1, <1>4, <1>5, <1>6, <1>7 DEF Untouched, told

\* A row that is there is the one the poll has read, until the poll stores.
LEMMA RowIsCurrentStep == ASSUME TypeInv, OutageInv, Next PROVE RowIsCurrent'
<1> USE DEF world, tables, ghosts, bounds
<1>1. RowIsCurrent
  BY DEF OutageInv
<1>2. CASE UNCHANGED <<rows, poll>>
  BY <1>1, <1>2 DEF RowIsCurrent, Present
<1>3. ASSUME NEW a \in Agents, Create(a) PROVE RowIsCurrent'
  <2>1. poll' = poll
    BY <1>3 DEF Create
  <2> DEFINE q == call[a].pull
  <2>2. CASE rows' = rows
    BY <1>2, <2>1, <2>2
  <2>3. CASE q \in Pulls /\ rows' = [rows EXCEPT ![q] = rows'[q]] /\ rows'[q].id = created + 1
    <3> SUFFICES ASSUME poll.stage \in {"read", "store"} PROVE RowIsCurrent'
      BY <2>1 DEF RowIsCurrent
    <3>1. poll.pull \in Pulls /\ poll.row.id # created + 1
      BY PollFacts DEF TypeInv, RowsOK
    <3>2. poll.pull # q => rows'[poll.pull] = rows[poll.pull]
      BY <2>3, <3>1 DEF TypeInv, RowsOK
    <3> QED  BY <1>1, <2>1, <2>3, <3>1, <3>2 DEF RowIsCurrent, Present
  <2> QED  BY <1>3, <2>2, <2>3, CreateIs
<1>4. ASSUME NEW a \in Agents, Delete(a) PROVE RowIsCurrent'
  <2>1. poll' = poll /\ (rows' = rows \/ rows' = [rows EXCEPT ![call[a].pull] = NoRow])
    BY <1>4 DEF Delete
  <2> SUFFICES ASSUME poll.stage \in {"read", "store"} PROVE RowIsCurrent'
    BY <2>1 DEF RowIsCurrent
  <2>2. poll.pull \in Pulls
    BY PollFacts
  <2>3. rows'[poll.pull] = rows[poll.pull] \/ rows'[poll.pull] = NoRow
    BY <2>1, <2>2 DEF TypeInv, RowsOK
  <2> QED  BY <1>1, <2>1, <2>3 DEF RowIsCurrent, Present
<1>5. CASE Ask
  <2>1. rows' = rows
    BY <1>5 DEF Ask
  <2> QED  BY <1>1, <1>5, <2>1, AskIs DEF RowIsCurrent, Present
<1>6. CASE Observed \/ NotObserved
  BY <1>6, StoredIs DEF RowIsCurrent
<1>7. CASE poll' = NoPoll
  BY <1>7, NoPollIs DEF RowIsCurrent
<1>8. CASE Vanished \/ Signal \/ Crash
  BY <1>7, <1>8 DEF Vanished, Signal, Crash
<1>9. ASSUME NEW change \in poll.changes, Told(change) \/ AppendFails(change) PROVE RowIsCurrent'
  BY <1>9, TellIs DEF RowIsCurrent
<1>10. ASSUME NEW a \in Agents, Hangup(a) PROVE RowIsCurrent'
  <2>1. rows' = rows
    BY <1>10 DEF Hangup
  <2>2. CASE poll'.stage = "tell"
    BY <2>2 DEF RowIsCurrent
  <2> QED  BY <1>2, <1>7, <1>10, <2>1, <2>2, HangupIs
<1>11. ASSUME NEW a \in Agents, Refresh(a) PROVE RowIsCurrent'
  <2>1. rows' = rows
    BY <1>11 DEF Refresh
  <2>2. ASSUME NEW p \in Pulls, poll'.pull = p, poll'.row = rows[p] PROVE RowIsCurrent'
    BY <2>1, <2>2 DEF RowIsCurrent
  <2> QED  BY <1>7, <1>11, <2>2, RefreshIs
<1>12. ASSUME NEW p \in Pulls, Sweep(p) PROVE RowIsCurrent'
  <2>1. rows' = rows /\ poll'.pull = p /\ poll'.row = rows[p]
    BY <1>12, PollBegins DEF Sweep
  <2> QED  BY <2>1 DEF RowIsCurrent
<1> QED  BY <1>2, <1>3, <1>4, <1>5, <1>6, <1>8, <1>9, <1>10, <1>11, <1>12, Writers

\* The count of announcements is a number.
LEMMA OutagesOKStep == ASSUME OutagesOK, Next PROVE OutagesOK'
<1>1. ASSUME NEW change \in poll.changes, Told(change) PROVE OutagesOK'
  BY <1>1 DEF Told, Telling, OutagesOK
<1>2. ASSUME NEW a \in Agents, Create(a) PROVE OutagesOK'
  BY <1>2 DEF Create, OutagesOK
<1>3. Crash \/ (\E a \in Agents : Hangup(a)) \/ (\E change \in poll.changes : AppendFails(change))
        => outages' = outages
  BY DEF Crash, Hangup, AppendFails
<1> QED  BY <1>1, <1>2, <1>3, Writers DEF OutagesOK

\* What was announced of one watch, given what is pending of it.
Agrees(p) ==
  /\ ~(Unreachable \in Pending(p) /\ Recovered \in Pending(p))
  /\ Unreachable \in Pending(p) => outages[p] = 0 /\ rows[p].failures > 0
  /\ Recovered \in Pending(p) => outages[p] = 1 /\ rows[p].failures = 0
  /\ Unreachable \notin Pending(p) /\ Recovered \notin Pending(p)
       => outages[p] = IF rows[p].failures > 0 THEN 1 ELSE 0

\* The announcements keep up with every step.
LEMMA OutagesAgreeStep == ASSUME TypeInv, OutageInv, Next PROVE OutagesAgree'
<1>1. \A p \in Pulls : rows[p] # NoRow /\ p \notin missed => Agrees(p)
  BY DEF OutageInv, OutagesAgree, Agrees
<1> SUFFICES ASSUME NEW p \in Pulls, rows'[p] # NoRow, p \notin missed' PROVE Agrees(p)'
  BY DEF OutagesAgree, Agrees
<1>2. CASE Untouched(p)
  BY <1>1, <1>2 DEF Untouched, Agrees
<1>3. CASE New(p)
  BY <1>3 DEF New, Agrees
<1>4. CASE Observed \/ NotObserved
  <2>1. CASE p # poll.pull
    BY <1>2, <1>4, <2>1, StoreElsewhere
  <2>2. CASE p = poll.pull
    <3>1. /\ Pending(p) = {} /\ Pending(p)' = poll'.changes /\ rows[p] = poll.row
          /\ UNCHANGED <<outages, missed>>
      BY <1>4, <2>2, StoreElsewhere
    <3>2. poll.row.failures \in Nat /\ rows[p] # NoRow
      <4>1. poll.row \in Rows
        BY <1>4, StoredIs, PollFacts
      <4> QED  BY <3>1, <4>1, NoRowIsNone DEF Rows
    <3>3. outages[p] = IF poll.row.failures > 0 THEN 1 ELSE 0
      BY <1>1, <3>1, <3>2 DEF Agrees
    <3>4. CASE Observed
      <4>1. rows'[p].failures = 0 /\ poll'.changes = Changes /\ poll.stage = "store" /\ poll.seen = "ok"
        BY <2>2, <3>4, StoredIs DEF Observed
      <4>2. Unreachable \notin Changes /\ (Recovered \in Changes <=> poll.row.failures > 0)
        <5>1. Changes \subseteq ContentChanges \cup {Recovered}
          BY <4>1, PollChanges
        <5>2. ChangesBetween(poll.row.snapshot, poll.view, poll.row.snapshot = Nothing) \subseteq ContentChanges
          <6>1. poll.view \in Observations /\ poll.row.snapshot \in Observations \cup {Nothing}
            BY <4>1 DEF TypeInv, PollOK, Rows
          <6> QED  BY <6>1, ChangesAre DEF ChangesBetween
        <5> QED  BY <5>1, <5>2, OutageKinds DEF Changes, Recovered
      <4> QED  BY <3>1, <3>2, <3>3, <4>1, <4>2 DEF Agrees
    <3>5. CASE NotObserved
      <4>1. /\ rows'[p].failures > 0
            /\ poll'.changes = IF poll.row.failures = 0 THEN {Unreachable} ELSE {}
        BY <2>2, <3>5, StoredIs
      <4> QED  BY <3>1, <3>2, <3>3, <4>1, OutageKinds DEF Agrees
    <3> QED  BY <1>4, <3>4, <3>5
  <2> QED  BY <2>1, <2>2
<1>5. ASSUME NEW change \in poll.changes, Told(change) PROVE Agrees(p)'
  <2>1. CASE Untouched(p)
    BY <1>2, <2>1
  <2>2. CASE p = poll.pull /\ Present(p, poll.row.id)
    <3>1. /\ UNCHANGED <<rows, missed>>
          /\ Pending(p) = poll.changes /\ Pending(p)' = poll.changes \ {change}
          /\ outages'[p] = CASE change.kind = "unreachable" -> outages[p] + 1
                             [] change.kind = "recovered" -> outages[p] - 1
                             [] OTHER -> outages[p]
      BY <1>5, <2>2, TellElsewhere
    <3>2. Agrees(p)
      BY <1>1, <2>2, <3>1 DEF Present
    <3>3. change \in ContentChanges \cup {Unreachable, Recovered}
      BY DEF TypeInv, PollOK, Polls
    <3>4. CASE change = Unreachable
      BY <3>1, <3>2, <3>4, OutageKinds DEF Agrees
    <3>5. CASE change = Recovered
      BY <3>1, <3>2, <3>5, OutageKinds DEF Agrees
    <3>6. CASE change \in ContentChanges
      <4>1. outages'[p] = outages[p] /\ change \notin {Unreachable, Recovered}
        BY <3>1, <3>6, OutageKinds
      <4> QED  BY <3>1, <3>2, <4>1 DEF Agrees
    <3> QED  BY <3>3, <3>4, <3>5, <3>6
  <2> QED  BY <1>5, <2>1, <2>2, TellElsewhere
<1> QED  BY <1>2, <1>3, <1>4, <1>5, OtherSteps DEF OutageInv

\* Every step keeps it.
LEMMA OutageStep == ASSUME TypeInv, OutageInv, [Next]_vars PROVE OutageInv'
<1>1. CASE Next
  BY <1>1, OutagesOKStep, RowIsCurrentStep, OutagesAgreeStep DEF OutageInv
<1>2. CASE UNCHANGED vars
  <2>1. UNCHANGED <<outages, rows, poll, missed>>
    BY <1>2 DEF vars
  <2>2. RowIsCurrent'
    BY <2>1 DEF OutageInv, RowIsCurrent, Present
  <2>3. \A p : Pending(p)' = Pending(p)
    BY <2>1 DEF Pending, Present
  <2>4. OutagesAgree'
    BY <2>1, <2>3 DEF OutageInv, OutagesAgree
  <2> QED  BY <2>1, <2>2, <2>4 DEF OutageInv, OutagesOK
<1> QED  BY <1>1, <1>2

\* It holds at first.
LEMMA OutageInit == Init => OutageInv
BY NoPollIs DEF Init, OutageInv, OutagesOK, RowIsCurrent, OutagesAgree

\* It says what the property says of a watch that no poll tells of.
LEMMA OutageInvIsEnough == OutageInv => OutageIsToldOnce
BY NonePending DEF OutageInv, OutagesAgree, OutageIsToldOnce, BeingTold

\* It holds in every state.
LEMMA OutageInvariant == Spec => []OutageInv
<1>1. TypeInv /\ OutageInv /\ [Next]_vars => OutageInv'
  BY OutageStep
<1> QED  BY <1>1, TypeInvariant, OutageInit, PTL DEF Spec

\* An outage is announced once and its end once, for any number of polls, failures and deletions of
\* the watch, as long as no telling was cut short.
THEOREM OutagesAreToldOnce == Spec => []OutageIsToldOnce
BY OutageInvariant, OutageInvIsEnough, PTL

\* What a reader will know, once it is told the rest of the changes.
WillKnowState(known, changes, seen) ==
  /\ \A c \in changes : c.kind = "state" => c.state = seen.state /\ c.draft = seen.draft
  /\ \A c \in changes : c.kind = "draft" => c.draft = seen.draft
  /\ (\A c \in changes : c.kind # "state") => known.state = seen.state
  /\ (\A c \in changes : c.kind \notin {"state", "draft"}) /\ seen.state = "open"
       => known.draft = seen.draft
WillKnowChecks(known, changes, seen) ==
  /\ \A c \in changes : c.kind = "checks" => c.checks = seen.checks
  /\ (\A c \in changes : c.kind # "checks") => known.checks = seen.checks
WillKnowHead(known, changes, seen) ==
  /\ \A c \in changes : c.kind = "commits" => c.head = seen.head
  /\ (\A c \in changes : c.kind # "commits") => known.head = seen.head
WillKnowComments(known, changes, seen) ==
  \A n \in seen.comments : n \in known.comments \/ \E c \in changes : c.kind = "comment" /\ c.id = n
WillKnowReviews(known, changes, seen) ==
  \A r \in seen.reviews : r.state # "COMMENTED" =>
    \/ \E k \in known.reviews : Became(k, r)
    \/ \E c \in changes : c.kind = "review" /\ c.id = r.id /\ c.state = r.state
WillKnowThreads(known, changes, seen) ==
  /\ \A t, u \in seen.threads : t.id = u.id => t = u
  /\ \A c \in changes : c.kind = "thread" => \E t \in seen.threads : t.id = c.id /\ SaysOf(c.mark, t.mark)
  /\ \A t \in seen.threads : \/ \E k \in known.threads : k.id = t.id /\ SaysOf(k.mark, t.mark)
                             \/ \E c \in changes : c.kind = "thread" /\ c.id = t.id
WillKnow(known, changes, seen) ==
  /\ WillKnowState(known, changes, seen) /\ WillKnowChecks(known, changes, seen)
  /\ WillKnowHead(known, changes, seen) /\ WillKnowComments(known, changes, seen)
  /\ WillKnowReviews(known, changes, seen) /\ WillKnowThreads(known, changes, seen)

KnowsOK == knows \in [Agents -> [Pulls -> Observations \cup {Nothing}]]

\* Who knows something is subscribed to a watch that has seen something.
KnowersSubscribe ==
  \A a \in Agents, p \in Pulls : knows[a][p] # Nothing => a \in subs[p] /\ rows[p].snapshot # Nothing

ReadersWillKnow ==
  \A a \in Agents, p \in Pulls :
    knows[a][p] # Nothing /\ p \notin missed => WillKnow(knows[a][p], Pending(p), rows[p].snapshot)

ReaderInv == KnowsOK /\ SnapshotsWereSeen /\ ViewWasSeen /\ KnowersSubscribe /\ ReadersWillKnow

(***************************************************************************)
(* What the changes say, whatever the two observations.                    *)
(***************************************************************************)

\* Whoever will know the rest of nothing knows.
LEMMA KnowsAll ==
  ASSUME NEW known \in Observations, NEW seen \in Observations, WillKnow(known, {}, seen)
  PROVE  SameStory(known, seen)
<1>1. known.state = seen.state /\ (seen.state = "open" => known.draft = seen.draft)
  BY DEF WillKnow, WillKnowState
<1>2. known.head = seen.head /\ known.checks = seen.checks
  BY DEF WillKnow, WillKnowHead, WillKnowChecks
<1>3. seen.comments \subseteq known.comments
  BY DEF WillKnow, WillKnowComments
<1>4. \A r \in seen.reviews : r.state # "COMMENTED" => \E k \in known.reviews : Became(k, r)
  BY DEF WillKnow, WillKnowReviews
<1>5. \A t \in seen.threads : \E k \in known.threads : k.id = t.id /\ SaysOf(k.mark, t.mark)
  BY DEF WillKnow, WillKnowThreads
<1> QED  BY <1>1, <1>2, <1>3, <1>4, <1>5 DEF SameStory

\* Whoever is given an observation knows it.
LEMMA KnowsWhatItSaw ==
  ASSUME NEW seen \in Observations, \A t, u \in seen.threads : t.id = u.id => t = u
  PROVE  WillKnow(seen, {}, seen)
<1>1. \A r \in seen.reviews : Became(r, r)
  BY DEF Became
<1>2. \A t \in seen.threads : SaysOf(t.mark, t.mark)
  BY DEF SaysOf
<1> QED  BY <1>1, <1>2 DEF WillKnow, WillKnowState, WillKnowChecks, WillKnowHead, WillKnowComments, WillKnowReviews,
                     WillKnowThreads

\* Outages have nothing to say of the pull request.
LEMMA OutagesSayNothing ==
  ASSUME NEW known, NEW seen, NEW changes, NEW others, WillKnow(known, changes, seen),
         \A c : c.kind \notin {"unreachable", "recovered"} => (c \in changes <=> c \in others)
  PROVE  WillKnow(known, others, seen)
<1>1. WillKnowState(known, others, seen)
  BY DEF WillKnow, WillKnowState
<1>2. WillKnowChecks(known, others, seen) /\ WillKnowHead(known, others, seen)
  BY DEF WillKnow, WillKnowChecks, WillKnowHead
<1>3. WillKnowComments(known, others, seen)
  BY DEF WillKnow, WillKnowComments
<1>4. WillKnowReviews(known, others, seen)
  BY DEF WillKnow, WillKnowReviews
<1>5. WillKnowThreads(known, others, seen)
  BY DEF WillKnow, WillKnowThreads
<1> QED  BY <1>1, <1>2, <1>3, <1>4, <1>5 DEF WillKnow

\* What one change does to what a reader knows.
LEMMA HeardIs ==
  ASSUME NEW known \in Observations, NEW c \in ContentChanges
  PROVE  /\ Heard(known, c) \in Observations
         /\ c.kind = "state" => /\ c.state \in States /\ Heard(known, c).state = c.state
                                /\ Heard(known, c).draft = IF c.state = "open" THEN c.draft ELSE known.draft
         /\ c.kind = "draft" => Heard(known, c).draft = c.draft
         /\ c.kind # "state" => Heard(known, c).state = known.state
         /\ c.kind \notin {"state", "draft"} => Heard(known, c).draft = known.draft
         /\ Heard(known, c).checks = IF c.kind = "checks" THEN c.checks ELSE known.checks
         /\ Heard(known, c).head = IF c.kind = "commits" THEN c.head ELSE known.head
         /\ Heard(known, c).comments = IF c.kind = "comment" THEN known.comments \cup {c.id} ELSE known.comments
         /\ Heard(known, c).reviews = IF c.kind = "review"
                                        THEN known.reviews \cup {[id |-> c.id, state |-> c.state]}
                                        ELSE known.reviews
         /\ Heard(known, c).threads =
              IF c.kind = "thread"
                THEN (known.threads \ ThreadIn(known.threads, c.id))
                       \cup {[id |-> c.id, mark |-> c.mark, replies |-> 0]}
                ELSE known.threads
<1>1. CASE c \in [kind : {"state"}, state : States, draft : BOOLEAN]
  <2>1. PICK draft \in BOOLEAN : draft = IF c.state = "open" THEN c.draft ELSE known.draft
    BY <1>1 DEF Observations
  <2>2. Heard(known, c) = [known EXCEPT !.state = c.state, !.draft = draft] /\ c.state \in States
    BY <1>1, <2>1 DEF Heard
  <2> QED  BY <1>1, <2>1, <2>2 DEF Observations
<1>2. CASE c \in [kind : {"draft"}, draft : BOOLEAN]
  <2>1. Heard(known, c) = [known EXCEPT !.draft = c.draft] /\ c.draft \in BOOLEAN
    BY <1>2 DEF Heard
  <2> QED  BY <1>2, <2>1 DEF Observations
<1>3. CASE c \in [kind : {"checks"}, checks : Checks]
  <2>1. Heard(known, c) = [known EXCEPT !.checks = c.checks] /\ c.checks \in Checks
    BY <1>3 DEF Heard
  <2> QED  BY <1>3, <2>1 DEF Observations
<1>4. CASE c \in [kind : {"commits"}, head : Nat]
  <2>1. Heard(known, c) = [known EXCEPT !.head = c.head] /\ c.head \in Nat
    BY <1>4 DEF Heard
  <2> QED  BY <1>4, <2>1 DEF Observations
<1>5. CASE c \in [kind : {"comment"}, id : Nat]
  <2>1. PICK comments \in SUBSET Nat : comments = known.comments \cup {c.id}
    BY <1>5 DEF Observations
  <2>2. Heard(known, c) = [known EXCEPT !.comments = comments]
    BY <1>5, <2>1 DEF Heard
  <2> QED  BY <1>5, <2>1, <2>2 DEF Observations
<1>6. CASE c \in [kind : {"review"}, id : Nat, state : ReviewStates]
  <2>0. [id |-> c.id, state |-> c.state] \in Reviews
    BY <1>6 DEF Reviews
  <2>1. PICK reviews \in SUBSET Reviews : reviews = known.reviews \cup {[id |-> c.id, state |-> c.state]}
    BY <2>0 DEF Observations
  <2>2. Heard(known, c) = [known EXCEPT !.reviews = reviews]
    BY <1>6, <2>1 DEF Heard
  <2> QED  BY <1>6, <2>1, <2>2 DEF Observations
<1>7. CASE c \in [kind : {"thread"}, id : Threads, mark : Marks]
  <2>1. [id |-> c.id, mark |-> c.mark, replies |-> 0] \in Conversations
    BY <1>7 DEF Conversations
  <2>2. PICK threads \in SUBSET Conversations :
          threads = (known.threads \ ThreadIn(known.threads, c.id))
                      \cup {[id |-> c.id, mark |-> c.mark, replies |-> 0]}
    BY <2>1 DEF Observations
  <2>3. Heard(known, c) = [known EXCEPT !.threads = threads]
    BY <1>7, <2>2 DEF Heard
  <2> QED  BY <1>7, <2>2, <2>3 DEF Observations
<1>8. CASE c \in [kind : {"reply"}, id : Threads]
  <2>1. Heard(known, c) = known
    BY <1>8 DEF Heard
  <2> QED  BY <1>8, <2>1
<1> QED  BY <1>1, <1>2, <1>3, <1>4, <1>5, <1>6, <1>7, <1>8 DEF ContentChanges

\* A reader that is told one of the changes will know after the rest of them.
LEMMA HeardOneMore ==
  ASSUME NEW known \in Observations, NEW seen \in Observations, NEW changes,
         NEW c \in changes, c \in ContentChanges, WillKnow(known, changes, seen)
  PROVE  WillKnow(Heard(known, c), changes \ {c}, seen)
<1> DEFINE now == Heard(known, c)
           rest == changes \ {c}
<1> HIDE DEF now
<1>1. WillKnowState(now, rest, seen)
  <2>1. /\ c.kind = "state" => now.state = c.state /\ now.draft = IF c.state = "open" THEN c.draft ELSE known.draft
        /\ c.kind = "draft" => now.draft = c.draft
        /\ c.kind # "state" => now.state = known.state
        /\ c.kind \notin {"state", "draft"} => now.draft = known.draft
    BY HeardIs DEF now
  <2>2. WillKnowState(known, changes, seen)
    BY DEF WillKnow
  <2>3. (\A d \in rest : d.kind # "state") => now.state = seen.state
    BY <2>1, <2>2 DEF WillKnowState
  <2>4. (\A d \in rest : d.kind \notin {"state", "draft"}) /\ seen.state = "open" => now.draft = seen.draft
    BY <2>1, <2>2 DEF WillKnowState
  <2> QED  BY <2>2, <2>3, <2>4 DEF WillKnowState
<1>2. WillKnowChecks(now, rest, seen)
  <2>1. now.checks = IF c.kind = "checks" THEN c.checks ELSE known.checks
    BY HeardIs DEF now
  <2> QED  BY <2>1 DEF WillKnow, WillKnowChecks
<1>3. WillKnowHead(now, rest, seen)
  <2>1. now.head = IF c.kind = "commits" THEN c.head ELSE known.head
    BY HeardIs DEF now
  <2> QED  BY <2>1 DEF WillKnow, WillKnowHead
<1>4. WillKnowComments(now, rest, seen)
  <2>1. now.comments = IF c.kind = "comment" THEN known.comments \cup {c.id} ELSE known.comments
    BY HeardIs DEF now
  <2> QED  BY <2>1 DEF WillKnow, WillKnowComments
<1>5. WillKnowReviews(now, rest, seen)
  <2>1. now.reviews = IF c.kind = "review" THEN known.reviews \cup {[id |-> c.id, state |-> c.state]}
                                           ELSE known.reviews
    BY HeardIs DEF now
  <2>2. ASSUME NEW r \in seen.reviews, r.state # "COMMENTED"
        PROVE  \/ \E k \in now.reviews : Became(k, r)
               \/ \E d \in rest : d.kind = "review" /\ d.id = r.id /\ d.state = r.state
    <3>1. \/ \E k \in known.reviews : Became(k, r)
          \/ \E d \in changes : d.kind = "review" /\ d.id = r.id /\ d.state = r.state
      BY <2>2 DEF WillKnow, WillKnowReviews
    <3>2. CASE c.kind = "review" /\ c.id = r.id /\ c.state = r.state
      <4> DEFINE told == [id |-> c.id, state |-> c.state]
      <4>1. told \in now.reviews
        BY <2>1, <3>2
      <4>2. Became(told, r)
        BY <3>2 DEF Became
      <4> QED  BY <4>1, <4>2
    <3> QED  BY <2>1, <3>1, <3>2
  <2> QED  BY <2>2 DEF WillKnowReviews
<1>6. WillKnowThreads(now, rest, seen)
  <2>1. /\ \A t, u \in seen.threads : t.id = u.id => t = u
        /\ \A d \in changes : d.kind = "thread" =>
             \E t \in seen.threads : t.id = d.id /\ SaysOf(d.mark, t.mark)
        /\ \A t \in seen.threads : \/ \E k \in known.threads : k.id = t.id /\ SaysOf(k.mark, t.mark)
                                   \/ \E d \in changes : d.kind = "thread" /\ d.id = t.id
    BY DEF WillKnow, WillKnowThreads
  <2>2. CASE c.kind # "thread"
    <3>1. now.threads = known.threads
      BY <2>2, HeardIs DEF now
    <3> QED  BY <2>1, <2>2, <3>1 DEF WillKnowThreads
  <2>3. CASE c.kind = "thread"
    <3> DEFINE new == [id |-> c.id, mark |-> c.mark, replies |-> 0]
    <3>1. now.threads = (known.threads \ ThreadIn(known.threads, c.id)) \cup {new}
      BY <2>3, HeardIs DEF now
    <3>2. /\ new \in now.threads /\ new.id = c.id /\ new.mark = c.mark
          /\ \A k \in known.threads : k.id # c.id => k \in now.threads
      BY <3>1 DEF ThreadIn
    <3> HIDE DEF new
    <3>3. PICK s \in seen.threads : s.id = c.id /\ SaysOf(c.mark, s.mark)
      BY <2>1, <2>3
    <3>4. ASSUME NEW t \in seen.threads
          PROVE  \/ \E k \in now.threads : k.id = t.id /\ SaysOf(k.mark, t.mark)
                 \/ \E d \in rest : d.kind = "thread" /\ d.id = t.id
      <4>1. CASE t.id = c.id
        BY <2>1, <3>2, <3>3, <4>1
      <4>2. CASE t.id # c.id
        BY <2>1, <3>2, <4>2
      <4> QED  BY <4>1, <4>2
    <3> QED  BY <2>1, <3>4 DEF WillKnowThreads
  <2> QED  BY <2>2, <2>3
<1> QED  BY <1>1, <1>2, <1>3, <1>4, <1>5, <1>6 DEF WillKnow, now

\* What each kind of change says of the two observations it was found between.
LEMMA ChangesByKind ==
  ASSUME NEW before \in Observations, NEW after \in Observations
  PROVE  /\ \A c \in StateChange(before, after) :
              c.kind \in {"state", "draft"} /\ c.draft = after.draft /\ (c.kind = "state" => c.state = after.state)
         /\ (\A c \in StateChange(before, after) : c.kind # "state") => before.state = after.state
         /\ StateChange(before, after) = {} => before.state = after.state /\ before.draft = after.draft
         /\ \A c \in ChecksChange(before, after) : c.kind = "checks" /\ c.checks = after.checks
         /\ ChecksChange(before, after) = {} => before.checks = after.checks
         /\ \A c \in CommitsChange(before, after) : c.kind = "commits" /\ c.head = after.head
         /\ CommitsChange(before, after) = {} => before.head = after.head
         /\ \A c \in CommentChanges(before, after) : c.kind = "comment"
         /\ \A n \in after.comments :
              n \in before.comments \/ \E c \in CommentChanges(before, after) : c.kind = "comment" /\ c.id = n
         /\ \A c \in ReviewChanges(before, after) : c.kind = "review"
         /\ \A r \in after.reviews : r.state # "COMMENTED" =>
              \/ \E k \in before.reviews : k.id = r.id
              \/ \E c \in ReviewChanges(before, after) : c.kind = "review" /\ c.id = r.id /\ c.state = r.state
<1>1. \A c \in StateChange(before, after) :
        c.kind \in {"state", "draft"} /\ c.draft = after.draft /\ (c.kind = "state" => c.state = after.state)
  BY DEF StateChange
<1>2. /\ (\A c \in StateChange(before, after) : c.kind # "state") => before.state = after.state
      /\ StateChange(before, after) = {} => before.state = after.state /\ before.draft = after.draft
  BY DEF StateChange
<1>3. /\ \A c \in ChecksChange(before, after) : c.kind = "checks" /\ c.checks = after.checks
      /\ ChecksChange(before, after) = {} => before.checks = after.checks
  <2>1. CASE before.checks = after.checks
    <3>1. ChecksChange(before, after) = {}
      BY <2>1 DEF ChecksChange
    <3> QED  BY <2>1, <3>1
  <2>2. CASE before.checks # after.checks
    <3> DEFINE told == [kind |-> "checks", checks |-> after.checks]
    <3>1. told \in ChecksChange(before, after) /\ \A c \in ChecksChange(before, after) : c = told
      BY <2>2 DEF ChecksChange
    <3>2. told.kind = "checks" /\ told.checks = after.checks
      OBVIOUS
    <3> QED  BY <3>1, <3>2
  <2> QED  BY <2>1, <2>2
<1>4. /\ \A c \in CommitsChange(before, after) : c.kind = "commits" /\ c.head = after.head
      /\ CommitsChange(before, after) = {} => before.head = after.head
  <2>1. CASE before.head = after.head
    <3>1. CommitsChange(before, after) = {}
      BY <2>1 DEF CommitsChange
    <3> QED  BY <2>1, <3>1
  <2>2. CASE before.head # after.head
    <3> DEFINE told == [kind |-> "commits", head |-> after.head]
    <3>1. told \in CommitsChange(before, after) /\ \A c \in CommitsChange(before, after) : c = told
      BY <2>2 DEF CommitsChange
    <3>2. told.kind = "commits" /\ told.head = after.head
      OBVIOUS
    <3> QED  BY <3>1, <3>2
  <2> QED  BY <2>1, <2>2
<1>5. \A c \in CommentChanges(before, after) : c.kind = "comment"
  BY DEF CommentChanges
<1>6. ASSUME NEW n \in after.comments, n \notin before.comments
      PROVE  \E c \in CommentChanges(before, after) : c.kind = "comment" /\ c.id = n
  <2>1. [kind |-> "comment", id |-> n] \in CommentChanges(before, after)
    BY <1>6 DEF CommentChanges
  <2> QED  BY <2>1
<1>7. \A c \in ReviewChanges(before, after) : c.kind = "review"
  BY DEF ReviewChanges
<1>8. ASSUME NEW r \in after.reviews, r.state # "COMMENTED", \A k \in before.reviews : k.id # r.id
      PROVE  \E c \in ReviewChanges(before, after) : c.kind = "review" /\ c.id = r.id /\ c.state = r.state
  <2>1. [kind |-> "review", id |-> r.id, state |-> r.state] \in ReviewChanges(before, after)
    BY <1>8 DEF ReviewChanges
  <2> QED  BY <2>1
<1> QED  BY <1>1, <1>2, <1>3, <1>4, <1>5, <1>6, <1>7, <1>8

\* What is said of conversations.
LEMMA ThreadsByKind ==
  ASSUME NEW before \in Observations, NEW after \in Observations,
         \A t, u \in before.threads : t.id = u.id => t = u
  PROVE  /\ \A c \in ThreadChanges(before, after) :
              /\ c.kind \in {"thread", "reply"}
              /\ c.kind = "thread" => \E t \in after.threads : t.id = c.id /\ SaysOf(c.mark, t.mark)
         /\ \A t \in after.threads : \/ \E k \in before.threads : k.id = t.id /\ k.mark = t.mark
                                     \/ \E c \in ThreadChanges(before, after) : c.kind = "thread" /\ c.id = t.id
<1> DEFINE Existed(t) == \E k \in before.threads : k.id = t.id
           Known(t) == CHOOSE k \in before.threads : k.id = t.id
           Line(t) == [kind |-> "thread", id |-> t.id,
                       mark |-> IF ~Existed(t) /\ t.mark = "resolved" THEN "unsaid" ELSE t.mark]
<1>1. ASSUME NEW c \in ThreadChanges(before, after)
      PROVE  /\ c.kind \in {"thread", "reply"}
             /\ c.kind = "thread" => \E t \in after.threads : t.id = c.id /\ SaysOf(c.mark, t.mark)
  <2>1. PICK t \in after.threads : c = Line(t) \/ c = [kind |-> "reply", id |-> t.id]
    BY <1>1 DEF ThreadChanges
  <2>2. CASE c = Line(t)
    BY <2>2 DEF SaysOf
  <2>3. CASE c = [kind |-> "reply", id |-> t.id]
    BY <2>3
  <2> QED  BY <2>1, <2>2, <2>3
<1>2. ASSUME NEW t \in after.threads, ~Existed(t) \/ Known(t).mark # t.mark
      PROVE  \E c \in ThreadChanges(before, after) : c.kind = "thread" /\ c.id = t.id
  <2>1. Line(t) \in ThreadChanges(before, after)
    BY <1>2 DEF ThreadChanges
  <2>2. Line(t).kind = "thread" /\ Line(t).id = t.id
    OBVIOUS
  <2> QED  BY <2>1, <2>2
<1>3. ASSUME NEW t \in after.threads, NEW k \in before.threads, k.id = t.id
      PROVE  Known(t) = k
  BY <1>3
<1> HIDE DEF Known, Line
<1>4. ASSUME NEW t \in after.threads
      PROVE  \/ \E k \in before.threads : k.id = t.id /\ k.mark = t.mark
             \/ \E c \in ThreadChanges(before, after) : c.kind = "thread" /\ c.id = t.id
  BY <1>2, <1>3
<1> QED  BY <1>1, <1>4

\* What a review became it may become further.
LEMMA BecameSince ==
  ASSUME NEW j, NEW k, NEW r, Became(j, k), Became(k, r) PROVE Became(j, r)
BY DEF Became

\* A reader that knows one observation will know the next, after the changes between the two.
LEMMA ChangesTellAll ==
  ASSUME NEW known \in Observations, NEW before \in Observations, NEW after \in Observations,
         WillKnow(known, {}, before), Later(before, after)
  PROVE  WillKnow(known, ChangesBetween(before, after, FALSE), after)
<1> DEFINE all == ChangesBetween(before, after, FALSE)
<1>1. all = StateChange(before, after) \cup ChecksChange(before, after) \cup CommitsChange(before, after)
              \cup CommentChanges(before, after) \cup ReviewChanges(before, after) \cup ThreadChanges(before, after)
  BY DEF ChangesBetween
<1>2. \A t, u \in before.threads : t.id = u.id => t = u
  BY DEF Later
<1>3. \A c \in all :
        /\ c.kind \in {"state", "draft"} => c \in StateChange(before, after)
        /\ c.kind = "checks" => c \in ChecksChange(before, after)
        /\ c.kind = "commits" => c \in CommitsChange(before, after)
        /\ c.kind = "thread" => c \in ThreadChanges(before, after)
  <2>1. \A c \in StateChange(before, after) : c.kind \in {"state", "draft"}
    BY ChangesByKind
  <2>2. \A c \in ChecksChange(before, after) : c.kind = "checks"
    BY ChangesByKind
  <2>3. \A c \in CommitsChange(before, after) : c.kind = "commits"
    BY ChangesByKind
  <2>4. /\ \A c \in CommentChanges(before, after) : c.kind = "comment"
        /\ \A c \in ReviewChanges(before, after) : c.kind = "review"
    BY ChangesByKind
  <2>5. \A c \in ThreadChanges(before, after) : c.kind \in {"thread", "reply"}
    BY <1>2, ThreadsByKind
  <2> HIDE DEF all
  <2> QED  BY <1>1, <2>1, <2>2, <2>3, <2>4, <2>5
<1>4. /\ StateChange(before, after) \subseteq all /\ ChecksChange(before, after) \subseteq all
      /\ CommitsChange(before, after) \subseteq all /\ CommentChanges(before, after) \subseteq all
      /\ ReviewChanges(before, after) \subseteq all /\ ThreadChanges(before, after) \subseteq all
  BY <1>1
<1> HIDE DEF all
<1>5. WillKnowState(known, all, after)
  <2>1. known.state = before.state /\ (before.state = "open" => known.draft = before.draft)
    BY DEF WillKnow, WillKnowState
  <2>2. (\A c \in all : c.kind # "state") => known.state = after.state
    BY <1>4, <2>1, ChangesByKind
  <2>3. (\A c \in all : c.kind \notin {"state", "draft"}) => StateChange(before, after) = {}
    BY <1>4, ChangesByKind
  <2>4. (\A c \in all : c.kind \notin {"state", "draft"}) /\ after.state = "open" => known.draft = after.draft
    BY <2>1, <2>3, ChangesByKind
  <2>5. \A c \in all : /\ c.kind = "state" => c.state = after.state /\ c.draft = after.draft
                       /\ c.kind = "draft" => c.draft = after.draft
    BY <1>3, ChangesByKind
  <2> QED  BY <2>2, <2>4, <2>5 DEF WillKnowState
<1>6. WillKnowChecks(known, all, after)
  <2>1. known.checks = before.checks
    BY DEF WillKnow, WillKnowChecks
  <2>2. (\A c \in all : c.kind # "checks") => ChecksChange(before, after) = {}
    BY <1>4, ChangesByKind
  <2> QED  BY <1>3, <2>1, <2>2, ChangesByKind DEF WillKnowChecks
<1>7. WillKnowHead(known, all, after)
  <2>1. known.head = before.head
    BY DEF WillKnow, WillKnowHead
  <2>2. (\A c \in all : c.kind # "commits") => CommitsChange(before, after) = {}
    BY <1>4, ChangesByKind
  <2> QED  BY <1>3, <2>1, <2>2, ChangesByKind DEF WillKnowHead
<1>8. WillKnowComments(known, all, after)
  <2>1. \A n \in before.comments : n \in known.comments
    BY DEF WillKnow, WillKnowComments
  <2> QED  BY <1>4, <2>1, ChangesByKind DEF WillKnowComments
<1>9. WillKnowReviews(known, all, after)
  <2>1. \A k \in before.reviews : k.state # "COMMENTED" => \E j \in known.reviews : Became(j, k)
    BY DEF WillKnow, WillKnowReviews
  <2>2. ASSUME NEW r \in after.reviews, r.state # "COMMENTED", NEW k \in before.reviews, k.id = r.id
        PROVE  \E j \in known.reviews : Became(j, r)
    <3>1. PICK i \in before.reviews : Became(i, r)
      BY <2>2 DEF Later
    <3>2. PICK j \in known.reviews : Became(j, i)
      BY <2>1, <2>2, <3>1 DEF Became
    <3> QED  BY <3>1, <3>2, BecameSince
  <2>3. \A r \in after.reviews : r.state # "COMMENTED" =>
          \/ \E k \in before.reviews : k.id = r.id
          \/ \E c \in all : c.kind = "review" /\ c.id = r.id /\ c.state = r.state
    BY <1>4, ChangesByKind
  <2> QED  BY <2>2, <2>3 DEF WillKnowReviews
<1>10. WillKnowThreads(known, all, after)
  <2>1. \A t \in before.threads : \E k \in known.threads : k.id = t.id /\ SaysOf(k.mark, t.mark)
    BY DEF WillKnow, WillKnowThreads
  <2>2. \A t, u \in after.threads : t.id = u.id => t = u
    BY DEF Later
  <2>3. \A c \in all : c.kind = "thread" => \E t \in after.threads : t.id = c.id /\ SaysOf(c.mark, t.mark)
    BY <1>2, <1>3, ThreadsByKind
  <2>4. ASSUME NEW t \in after.threads
        PROVE  \/ \E k \in known.threads : k.id = t.id /\ SaysOf(k.mark, t.mark)
               \/ \E c \in all : c.kind = "thread" /\ c.id = t.id
    <3>1. \/ \E k \in before.threads : k.id = t.id /\ k.mark = t.mark
          \/ \E c \in ThreadChanges(before, after) : c.kind = "thread" /\ c.id = t.id
      BY <1>2, ThreadsByKind
    <3> QED  BY <1>4, <2>1, <3>1
  <2> QED  BY <2>2, <2>3, <2>4 DEF WillKnowThreads
<1> QED  BY <1>5, <1>6, <1>7, <1>8, <1>9, <1>10 DEF WillKnow, all

(***************************************************************************)
(* What was seen is what GitHub has, or had.                               *)
(***************************************************************************)

\* An observation keeps what the pull request had; the pull request may move on.
LEMMA ObservationKeeps == ASSUME NEW raw \in RawPulls PROVE Keeps(Observation(raw), raw)
<1> DEFINE Seen(u) == [id |-> u, mark |-> IF raw.threads[u].resolved THEN "resolved" ELSE "open",
                       replies |-> FirstReplies(raw.threads[u].replies)]
<1>1. /\ Observation(raw).reviews = LatestReviews(raw)
      /\ Observation(raw).threads = {Seen(t) : t \in LatestThreads(raw)}
  BY DEF Observation
<1>2. \A t \in Observation(raw).threads : \E u \in LatestThreads(raw) : t = Seen(u) /\ t.id = u
  BY <1>1
<1> HIDE DEF Seen
<1>3. /\ LatestReviews(raw) \subseteq raw.reviews
      /\ \A r \in raw.reviews, k \in LatestReviews(raw) : k.id = r.id => r \in LatestReviews(raw)
  BY DEF LatestReviews
<1>4. \A r \in raw.reviews : Became(r, r)
  BY DEF Became
<1>5. \A t, u \in Observation(raw).threads : t.id = u.id => t = u
  BY <1>2
<1> QED  BY <1>1, <1>3, <1>4, <1>5 DEF Keeps

\* What was seen stays true of a pull request that moves on.
LEMMA KeepsMovesOn ==
  ASSUME NEW view \in Observations, NEW raw \in RawPulls, NEW next \in RawPulls,
         Keeps(view, raw), MovesOn(raw, next)
  PROVE  Keeps(view, next)
<1>1. \A k \in view.reviews : \E r \in next.reviews : r.id = k.id
  BY DEF Keeps, MovesOn
<1>2. ASSUME NEW r \in next.reviews, NEW k \in view.reviews, k.id = r.id
      PROVE  \E j \in view.reviews : Became(j, r)
  <2>1. PICK m \in raw.reviews : m.id = r.id
    BY <1>2 DEF Keeps
  <2>2. PICK i \in raw.reviews : Became(i, r)
    BY <2>1 DEF MovesOn
  <2>3. i.id = k.id
    BY <1>2, <2>2 DEF Became
  <2>4. PICK j \in view.reviews : Became(j, i)
    BY <2>3 DEF Keeps
  <2> QED  BY <2>2, <2>4, BecameSince
<1> QED  BY <1>1, <1>2 DEF Keeps, MovesOn

\* An observation is later than the ones that were made before.
LEMMA KeepsIsEarlier ==
  ASSUME NEW view \in Observations, NEW raw \in RawPulls, Keeps(view, raw)
  PROVE  Later(view, Observation(raw))
<1>1. Observation(raw).reviews \subseteq raw.reviews
  BY DEF Observation, LatestReviews
<1>2. \A t, u \in Observation(raw).threads : t.id = u.id => t = u
  BY ObservationKeeps DEF Keeps
<1> QED  BY <1>1, <1>2 DEF Keeps, Later

\* A row that is there with the number a poll has was there before: no number is used again.
LEMMA NoNumberTwice ==
  ASSUME TypeInv, Next, poll.stage # "idle", rows'[poll.pull] # NoRow, rows'[poll.pull].id = poll.row.id
  PROVE  Present(poll.pull, poll.row.id)
<1>1. poll.pull \in Pulls /\ poll.row.id \in 1 .. created /\ created \in Nat
  BY PollFacts DEF TypeInv, RowsOK
<1>2. CASE rows' = rows
  BY <1>2 DEF Present
<1>3. CASE Observed \/ NotObserved
  BY <1>3, StoredIs
<1>4. ASSUME NEW a \in Agents, Create(a) PROVE Present(poll.pull, poll.row.id)
  <2> DEFINE q == call[a].pull
  <2>1. CASE q \in Pulls /\ rows' = [rows EXCEPT ![q] = rows'[q]] /\ rows'[q].id = created + 1
    <3>1. poll.pull # q
      BY <1>1, <2>1
    <3>2. rows'[poll.pull] = rows[poll.pull]
      BY <1>1, <2>1, <3>1 DEF TypeInv, RowsOK
    <3> QED  BY <3>2 DEF Present
  <2> QED  BY <1>2, <1>4, <2>1, CreateIs
<1>5. ASSUME NEW a \in Agents, Delete(a) PROVE Present(poll.pull, poll.row.id)
  <2>1. rows' = rows \/ rows' = [rows EXCEPT ![call[a].pull] = NoRow]
    BY <1>5 DEF Delete
  <2>2. rows'[poll.pull] = rows[poll.pull]
    BY <1>1, <2>1 DEF TypeInv, RowsOK
  <2> QED  BY <2>2 DEF Present
<1> QED  BY <1>2, <1>3, <1>4, <1>5, Writers

\* What a pull request was stays true of what it is.
LEMMA HubMovesOn ==
  ASSUME TypeInv, Next, NEW p \in Pulls, NEW view \in Observations, Keeps(view, hub[p])
  PROVE  Keeps(view, hub'[p])
<1>1. hub \in [Pulls -> RawPulls]
  BY DEF TypeInv, HubOK
<1>2. ASSUME NEW q \in Pulls, Edit(q) PROVE Keeps(view, hub'[p])
  <2>1. PICK raw \in RawPulls : MovesOn(hub[q], raw) /\ hub' = [hub EXCEPT ![q] = raw]
    BY <1>2 DEF Edit
  <2>2. CASE p = q
    BY <1>1, <2>1, <2>2, KeepsMovesOn
  <2>3. CASE p # q
    BY <1>1, <2>1, <2>3
  <2> QED  BY <2>2, <2>3
<1> QED  BY <1>2, Writers

\* What the watches hold was seen.
LEMMA SnapshotsStep == ASSUME TypeInv, OutageInv, ReaderInv, Next PROVE SnapshotsWereSeen'
<1> SUFFICES ASSUME NEW p \in Pulls, rows'[p] # NoRow, rows'[p].snapshot # Nothing
             PROVE  Keeps(rows'[p].snapshot, hub'[p])
  BY DEF SnapshotsWereSeen
<1>1. ASSUME rows'[p].snapshot = rows[p].snapshot, rows[p] # NoRow PROVE Keeps(rows'[p].snapshot, hub'[p])
  <2>1. rows[p] \in Rows
    BY <1>1 DEF TypeInv, RowsOK, MayBeRows
  <2>2. rows[p].snapshot \in Observations
    BY <1>1, <2>1 DEF Rows
  <2>3. Keeps(rows[p].snapshot, hub[p])
    BY <1>1 DEF ReaderInv, SnapshotsWereSeen
  <2> QED  BY <1>1, <2>2, <2>3, HubMovesOn
<1>2. CASE rows' = rows
  BY <1>1, <1>2
<1>3. CASE Observed \/ NotObserved
  <2>1. CASE p # poll.pull
    <3>1. rows'[p] = rows[p]
      BY <1>3, <2>1, StoredIs DEF TypeInv, RowsOK
    <3> QED  BY <1>1, <3>1
  <2>2. CASE p = poll.pull /\ NotObserved
    <3>1. rows'[p].snapshot = rows[p].snapshot /\ rows[p] # NoRow
      BY <2>2, StoredIs, NoRowIsNone
    <3> QED  BY <1>1, <3>1
  <2>3. CASE p = poll.pull /\ Observed
    <3>1. /\ rows'[p].snapshot = poll.view /\ poll.view \in Observations
          /\ poll.stage = "store" /\ poll.seen = "ok"
      BY <2>3, StoredIs DEF Observed
    <3>2. Keeps(poll.view, hub[p])
      BY <2>3, <3>1 DEF ReaderInv, ViewWasSeen
    <3> QED  BY <3>1, <3>2, HubMovesOn
  <2> QED  BY <1>3, <2>1, <2>2, <2>3
<1>4. ASSUME NEW a \in Agents, Create(a) PROVE Keeps(rows'[p].snapshot, hub'[p])
  <2> DEFINE q == call[a].pull
  <2>1. CASE q \in Pulls /\ rows' = [rows EXCEPT ![q] = rows'[q]] /\ rows'[q].snapshot = Nothing
    <3>1. p # q
      BY <2>1
    <3>2. rows'[p] = rows[p]
      BY <2>1, <3>1 DEF TypeInv, RowsOK
    <3> QED  BY <1>1, <3>2
  <2> QED  BY <1>2, <1>4, <2>1, CreateIs
<1>5. ASSUME NEW a \in Agents, Delete(a) PROVE Keeps(rows'[p].snapshot, hub'[p])
  <2>1. rows' = rows \/ rows' = [rows EXCEPT ![call[a].pull] = NoRow]
    BY <1>5 DEF Delete
  <2>2. rows'[p] = rows[p]
    BY <2>1 DEF TypeInv, RowsOK
  <2> QED  BY <1>1, <2>2
<1> QED  BY <1>2, <1>3, <1>4, <1>5, Writers

\* What a poll has seen was there.
LEMMA ViewStep == ASSUME TypeInv, OutageInv, ReaderInv, Next PROVE ViewWasSeen'
<1>1. CASE Ask
  <2> DEFINE p == poll.pull
  <2>1. /\ poll'.stage = "store" /\ poll'.pull = p /\ poll'.row = poll.row /\ poll.stage = "read"
        /\ poll'.seen = "ok" => poll'.view = Observation(hub[p])
        /\ UNCHANGED <<hub, rows>>
    BY <1>1, AskIs DEF Ask, world, tables
  <2>2. p \in Pulls /\ poll.row \in Rows /\ hub[p] \in RawPulls
    BY <2>1, PollFacts DEF TypeInv, HubOK
  <2>3. Keeps(Observation(hub[p]), hub[p])
    BY <2>2, ObservationKeeps
  <2>4. Present(p, poll.row.id) /\ poll.row.snapshot # Nothing => Later(poll.row.snapshot, Observation(hub[p]))
    <3> SUFFICES ASSUME Present(p, poll.row.id), poll.row.snapshot # Nothing
                 PROVE  Later(poll.row.snapshot, Observation(hub[p]))
      OBVIOUS
    <3>1. rows[p] = poll.row /\ rows[p] # NoRow
      BY <2>1 DEF OutageInv, RowIsCurrent, Present
    <3>2. Keeps(poll.row.snapshot, hub[p])
      BY <2>2, <3>1 DEF ReaderInv, SnapshotsWereSeen
    <3>3. poll.row.snapshot \in Observations
      BY <2>2 DEF Rows
    <3> QED  BY <2>2, <3>2, <3>3, KeepsIsEarlier
  <2> QED  BY <2>1, <2>3, <2>4 DEF ViewWasSeen, Present
<1>2. CASE poll' = poll
  <2> SUFFICES ASSUME poll.stage = "store", poll.seen = "ok" PROVE ViewWasSeen'
    BY <1>2 DEF ViewWasSeen
  <2>1. /\ Keeps(poll.view, hub[poll.pull]) /\ poll.view \in Observations /\ poll.pull \in Pulls
        /\ Present(poll.pull, poll.row.id) /\ poll.row.snapshot # Nothing => Later(poll.row.snapshot, poll.view)
    BY PollFacts DEF ReaderInv, ViewWasSeen, TypeInv, PollOK
  <2>2. Keeps(poll.view, hub'[poll.pull])
    BY <2>1, HubMovesOn
  <2>3. Present(poll.pull, poll.row.id)' => Present(poll.pull, poll.row.id)
    BY <1>2, NoNumberTwice DEF Present
  <2> QED  BY <1>2, <2>1, <2>2, <2>3 DEF ViewWasSeen
<1>3. CASE poll'.stage # "store"
  BY <1>3 DEF ViewWasSeen
<1>4. Observed \/ NotObserved => poll'.stage # "store"
  BY StoredIs
<1>5. Vanished \/ Signal \/ Crash => poll'.stage # "store"
  BY NoPollIs DEF Vanished, Signal, Crash
<1>6. ASSUME NEW change \in poll.changes, Told(change) \/ AppendFails(change) PROVE poll'.stage # "store"
  BY <1>6, TellIs
<1>7. ASSUME NEW a \in Agents, Refresh(a) PROVE poll'.stage # "store"
  BY <1>7, RefreshIs, NoPollIs
<1>8. ASSUME NEW a \in Agents, Hangup(a) PROVE poll'.stage # "store" \/ poll' = poll
  BY <1>8, HangupIs, NoPollIs
<1>9. ASSUME NEW p \in Pulls, Sweep(p) PROVE poll'.stage # "store"
  BY <1>9, PollBegins DEF Sweep
<1> QED  BY <1>1, <1>2, <1>3, <1>4, <1>5, <1>6, <1>7, <1>8, <1>9, Writers

(***************************************************************************)
(* What the readers know.                                                  *)
(***************************************************************************)

\* Who is given the watch at the end of its own poll.
Given(a, p) == Signal /\ p = poll.pull /\ a \in subs[p] /\ knows'[a][p] = rows[p].snapshot

\* Who is told a change.
IsTold(a, p, change) ==
  /\ Told(change) /\ p = poll.pull /\ Present(p, poll.row.id) /\ a \in subs[p] /\ knows[a][p] # Nothing
  /\ change \in ContentChanges /\ knows'[a][p] = Heard(knows[a][p], change)

\* How a reader comes to know something.
LEMMA KnowsIs ==
  ASSUME TypeInv, KnowsOK, Next, NEW a \in Agents, NEW p \in Pulls
  PROVE  /\ knows' \in [Agents -> [Pulls -> Observations \cup {Nothing}]]
         /\ \/ knows'[a][p] = knows[a][p]
            \/ knows'[a][p] = Nothing
            \/ Given(a, p)
            \/ \E change \in poll.changes : IsTold(a, p, change)
<1>1. knows \in [Agents -> [Pulls -> Observations \cup {Nothing}]]
  BY DEF KnowsOK
<1>2. CASE knows' = knows
  BY <1>1, <1>2
<1>3. ASSUME NEW b \in Agents, Delete(b)
      PROVE  /\ knows' \in [Agents -> [Pulls -> Observations \cup {Nothing}]]
             /\ knows'[a][p] = knows[a][p] \/ knows'[a][p] = Nothing
  <2>1. knows' = knows \/ knows' = [c \in Agents |-> [knows[c] EXCEPT ![call[b].pull] = Nothing]]
    BY <1>3 DEF Delete
  <2>2. CASE knows' = knows
    BY <1>1, <2>2
  <2>3. CASE knows' = [c \in Agents |-> [knows[c] EXCEPT ![call[b].pull] = Nothing]]
    <3>1. ASSUME NEW c \in Agents
          PROVE  [knows[c] EXCEPT ![call[b].pull] = Nothing] \in [Pulls -> Observations \cup {Nothing}]
      BY <1>1
    <3>2. knows' \in [Agents -> [Pulls -> Observations \cup {Nothing}]]
      BY <2>3, <3>1
    <3>3. knows'[a] = [knows[a] EXCEPT ![call[b].pull] = Nothing]
      BY <2>3
    <3>4. knows'[a][p] = knows[a][p] \/ knows'[a][p] = Nothing
      BY <1>1, <3>3
    <3> QED  BY <3>2, <3>4
  <2> QED  BY <2>1, <2>2, <2>3
<1>4. ASSUME NEW b \in Agents, NEW q \in Pulls, Unwatch(b, q)
      PROVE  /\ knows' \in [Agents -> [Pulls -> Observations \cup {Nothing}]]
             /\ knows'[a][p] = knows[a][p] \/ knows'[a][p] = Nothing
  <2>1. knows' = [knows EXCEPT ![b] = [knows[b] EXCEPT ![q] = Nothing]]
    BY <1>4 DEF Unwatch
  <2>2. [knows[b] EXCEPT ![q] = Nothing] \in [Pulls -> Observations \cup {Nothing}]
    BY <1>1
  <2> QED  BY <1>1, <2>1, <2>2
<1>5. CASE Signal
  <2> DEFINE q == poll.pull
             b == poll.by
  <2>1. CASE knows' = knows
    BY <1>1, <2>1
  <2>2. CASE b \in subs[q] /\ knows' = [knows EXCEPT ![b] = [knows[b] EXCEPT ![q] = rows[q].snapshot]]
    <3>1. poll.stage = "tell"
      BY <1>5 DEF Signal
    <3>2. q \in Pulls
      BY <3>1, PollFacts
    <3>3. b \in Agents /\ rows[q] # NoRow
      BY <2>2, <3>2 DEF TypeInv, SubsOK
    <3>4. rows[q].snapshot \in Observations \cup {Nothing}
      BY <3>2, <3>3 DEF TypeInv, RowsOK, MayBeRows, Rows
    <3>5. [knows[b] EXCEPT ![q] = rows[q].snapshot] \in [Pulls -> Observations \cup {Nothing}]
      BY <1>1, <3>3, <3>4
    <3>6. knows' \in [Agents -> [Pulls -> Observations \cup {Nothing}]]
      BY <1>1, <2>2, <3>5
    <3>7. CASE a = b /\ p = q
      BY <1>1, <1>5, <2>2, <3>3, <3>6, <3>7 DEF Given
    <3>8. CASE ~(a = b /\ p = q)
      BY <1>1, <2>2, <3>3, <3>6, <3>8
    <3> QED  BY <3>7, <3>8
  <2> QED  BY <1>5, <2>1, <2>2 DEF Signal
<1>6. ASSUME NEW change \in poll.changes, NEW reached, Telling(change, reached)
      PROVE  /\ knows' \in [Agents -> [Pulls -> Observations \cup {Nothing}]]
             /\ knows'[a][p] = knows[a][p] \/ knows'[a][p] = Nothing \/ IsTold(a, p, change)
  <2> DEFINE q == poll.pull
             Tells(b) == /\ b \in subs[q] /\ knows[b][q] # Nothing
                         /\ change.kind \notin {"unreachable", "recovered"}
             now(b) == IF b \in reached THEN Heard(knows[b][q], change) ELSE Nothing
  <2>0. Told(change)
    BY <1>6 DEF Told
  <2>1. CASE knows' = knows
    BY <1>1, <2>1
  <2>2. CASE /\ Present(q, poll.row.id)
             /\ knows' = [b \in Agents |-> IF Tells(b) THEN [knows[b] EXCEPT ![q] = now(b)] ELSE knows[b]]
    <3>1. q \in Pulls /\ change \in ContentChanges \cup {Unreachable, Recovered}
      BY <2>0, TellIs, PollFacts DEF Polls
    <3>2. \A b \in Agents : Tells(b) => change \in ContentChanges /\ knows[b][q] \in Observations
      BY <1>1, <3>1, OutageKinds
    <3>3. ASSUME NEW b \in Agents, Tells(b)
          PROVE  [knows[b] EXCEPT ![q] = now(b)] \in [Pulls -> Observations \cup {Nothing}]
      <4>1. now(b) \in Observations \cup {Nothing}
        BY <3>2, <3>3, HeardIs
      <4> HIDE DEF now
      <4> QED  BY <1>1, <4>1
    <3> HIDE DEF Tells, now
    <3>4. knows' \in [Agents -> [Pulls -> Observations \cup {Nothing}]]
      BY <1>1, <2>2, <3>3
    <3>5. CASE p = q /\ Tells(a)
      <4>1. knows'[a] = [knows[a] EXCEPT ![q] = now(a)]
        BY <2>2, <3>5
      <4>2. knows'[a][p] = now(a)
        BY <1>1, <3>5, <4>1
      <4>4. knows'[a][p] = Heard(knows[a][p], change) \/ knows'[a][p] = Nothing
        BY <3>5, <4>2 DEF now
      <4>3. change \in ContentChanges /\ a \in subs[p] /\ knows[a][p] # Nothing
        BY <3>2, <3>5 DEF Tells
      <4> QED  BY <2>0, <2>2, <3>4, <3>5, <4>3, <4>4 DEF IsTold
    <3>6. CASE ~(p = q /\ Tells(a))
      BY <1>1, <2>2, <3>4, <3>6
    <3> QED  BY <3>5, <3>6
  <2> QED  BY <1>6, <2>1, <2>2 DEF Telling
<1> QED  BY <1>2, <1>3, <1>4, <1>5, <1>6, Writers DEF Told

\* Who knows something is subscribed to a watch that has seen something.
LEMMA KnowersStep == ASSUME TypeInv, OutageInv, ReaderInv, Next PROVE KnowersSubscribe'
<1> SUFFICES ASSUME NEW a \in Agents, NEW p \in Pulls, knows'[a][p] # Nothing
             PROVE  a \in subs'[p] /\ rows'[p].snapshot # Nothing
  BY DEF KnowersSubscribe
<1>1. knows[a][p] # Nothing => a \in subs[p] /\ rows[p].snapshot # Nothing /\ rows[p] # NoRow
  BY DEF ReaderInv, KnowersSubscribe, TypeInv, SubsOK
<1>2. CASE Given(a, p)
  <2>1. UNCHANGED <<subs, rows>> /\ a \in subs[p] /\ rows[p].snapshot # Nothing
    BY <1>2 DEF Given, Signal, tables
  <2> QED  BY <2>1
<1>3. ASSUME NEW change \in poll.changes, IsTold(a, p, change) PROVE a \in subs'[p] /\ rows'[p].snapshot # Nothing
  <2>1. UNCHANGED <<subs, rows>> /\ knows[a][p] # Nothing
    BY <1>3 DEF IsTold, Told, Telling, tables
  <2> QED  BY <1>1, <2>1
<1>4. CASE knows'[a][p] = knows[a][p]
  <2>1. a \in subs[p] /\ rows[p].snapshot # Nothing /\ rows[p] # NoRow /\ knows[a][p] # Nothing
    BY <1>1, <1>4
  <2>2. knows \in [Agents -> [Pulls -> Observations \cup {Nothing}]] /\ subs \in [Pulls -> SUBSET Agents]
        /\ rows \in [Pulls -> MayBeRows]
    BY DEF ReaderInv, KnowsOK, TypeInv, SubsOK, RowsOK
  <2>3. ASSUME NEW b \in Agents, Delete(b), rows' # rows PROVE p # call[b].pull
    <3>1. knows' = [c \in Agents |-> [knows[c] EXCEPT ![call[b].pull] = Nothing]]
      BY <2>3 DEF Delete
    <3> QED  BY <1>4, <2>1, <2>2, <3>1
  <2>4. a \in subs'[p]
    <3>1. ASSUME NEW b \in Agents, Delete(b) PROVE a \in subs'[p]
      <4>1. CASE rows' = rows
        <5>1. CASE Present(call[b].pull, call[b].id)
          <6>1. rows' = [rows EXCEPT ![call[b].pull] = NoRow] /\ rows[call[b].pull] # NoRow
                /\ call[b].pull \in Pulls
            BY <3>1, <5>1 DEF Delete, Present, TypeInv, CallOK
          <6> QED  BY <2>2, <4>1, <6>1
        <5>2. CASE ~Present(call[b].pull, call[b].id)
          BY <2>1, <3>1, <5>2 DEF Delete
        <5> QED  BY <5>1, <5>2
      <4>2. CASE rows' # rows
        <5>1. p # call[b].pull /\ subs' = [subs EXCEPT ![call[b].pull] = {}]
          BY <2>3, <3>1, <4>2 DEF Delete
        <5> QED  BY <2>1, <2>2, <5>1
      <4> QED  BY <4>1, <4>2
    <3>2. ASSUME NEW b \in Agents, Subscribe(b) PROVE a \in subs'[p]
      BY <2>1, <2>2, <3>2 DEF Subscribe
    <3>3. ASSUME NEW b \in Agents, NEW q \in Pulls, Unwatch(b, q) PROVE a \in subs'[p]
      <4>1. subs' = [subs EXCEPT ![q] = @ \ {b}] /\ knows' = [knows EXCEPT ![b] = [knows[b] EXCEPT ![q] = Nothing]]
        BY <3>3 DEF Unwatch
      <4>2. ~(a = b /\ p = q)
        BY <1>4, <2>1, <2>2, <4>1
      <4> QED  BY <2>1, <2>2, <4>1, <4>2
    <3> QED  BY <2>1, <3>1, <3>2, <3>3, Writers
  <2>5. rows'[p].snapshot # Nothing
    <3>1. ASSUME NEW b \in Agents, Create(b) PROVE rows'[p].snapshot # Nothing
      <4> DEFINE q == call[b].pull
      <4>1. CASE q \in Pulls /\ rows[q] = NoRow /\ rows' = [rows EXCEPT ![q] = rows'[q]]
        <5>1. rows'[p] = rows[p]
          BY <2>1, <2>2, <4>1
        <5> QED  BY <2>1, <5>1
      <4> QED  BY <2>1, <3>1, <4>1, CreateIs
    <3>2. ASSUME NEW b \in Agents, Delete(b) PROVE rows'[p].snapshot # Nothing
      <4>1. rows' = rows \/ rows' = [rows EXCEPT ![call[b].pull] = NoRow]
        BY <3>2 DEF Delete
      <4> QED  BY <2>1, <2>2, <2>3, <3>2, <4>1
    <3>3. CASE Observed \/ NotObserved
      <4>1. CASE p # poll.pull
        <5>1. rows'[p] = rows[p]
          BY <2>2, <3>3, <4>1, StoredIs
        <5> QED  BY <2>1, <5>1
      <4>2. CASE p = poll.pull
        BY <2>1, <3>3, <4>2, StoredIs, NothingIsNone
      <4> QED  BY <4>1, <4>2
    <3> QED  BY <2>1, <3>1, <3>2, <3>3, Writers
  <2> QED  BY <2>4, <2>5
<1> QED  BY <1>2, <1>3, <1>4, KnowsIs DEF ReaderInv

\* What a poll has found is told to whoever knew what was there before.
LEMMA StoredWillBeKnown ==
  ASSUME TypeInv, OutageInv, ReaderInv, Observed \/ NotObserved, NEW a \in Agents, NEW p \in Pulls,
         p = poll.pull, knows[a][p] # Nothing, p \notin missed
  PROVE  WillKnow(knows[a][p], Pending(p)', rows'[p].snapshot)
<1> DEFINE known == knows[a][p]
           before == rows[p].snapshot
<1>1. /\ Pending(p) = {} /\ Pending(p)' = poll'.changes /\ rows[p] = poll.row
  BY StoreElsewhere
<1>2. known \in Observations /\ before # Nothing /\ WillKnow(known, {}, before)
  <2>1. known \in Observations /\ before # Nothing
    BY DEF ReaderInv, KnowsOK, KnowersSubscribe
  <2>2. WillKnow(known, Pending(p), before)
    BY DEF ReaderInv, ReadersWillKnow
  <2> QED  BY <1>1, <2>1, <2>2
<1>3. before \in Observations
  <2>1. rows[p] \in Rows
    BY StoredIs
  <2> QED  BY <1>2, <2>1 DEF Rows
<1>4. CASE Observed
  <2>1. /\ rows'[p].snapshot = poll.view /\ poll.view \in Observations /\ poll'.changes = Changes
        /\ poll.stage = "store" /\ poll.seen = "ok" /\ Present(p, poll.row.id)
    BY <1>4, StoredIs DEF Observed
  <2>2. Later(before, poll.view)
    BY <1>1, <1>2, <2>1 DEF ReaderInv, ViewWasSeen
  <2>3. WillKnow(known, ChangesBetween(before, poll.view, FALSE), poll.view)
    BY <1>2, <1>3, <2>1, <2>2, ChangesTellAll
  <2>4. Changes = (IF poll.row.failures > 0 THEN {Recovered} ELSE {}) \cup ChangesBetween(before, poll.view, FALSE)
    <3>1. (poll.row.snapshot = Nothing) = FALSE
      BY <1>1, <1>2
    <3> QED  BY <1>1, <3>1 DEF Changes, Recovered
  <2>5. \A c : c.kind \notin {"unreachable", "recovered"} =>
               (c \in ChangesBetween(before, poll.view, FALSE) <=> c \in Changes)
    BY <2>4, OutageKinds
  <2>6. WillKnow(known, Changes, poll.view)
    BY <2>3, <2>5, OutagesSayNothing
  <2> QED  BY <1>1, <2>1, <2>6
<1>5. CASE NotObserved
  <2>1. /\ rows'[p].snapshot = before
        /\ poll'.changes = IF poll.row.failures = 0 THEN {Unreachable} ELSE {}
    BY <1>5, StoredIs
  <2>2. \A c : c.kind \notin {"unreachable", "recovered"} => (c \in {} <=> c \in poll'.changes)
    BY <2>1, OutageKinds
  <2>3. WillKnow(known, poll'.changes, before)
    BY <1>2, <2>2, OutagesSayNothing
  <2> QED  BY <1>1, <2>1, <2>3
<1> QED  BY <1>4, <1>5

\* Every step leaves the readers knowing, or about to know, what the watch has seen.
LEMMA ReadersStep == ASSUME TypeInv, OutageInv, ReaderInv, Next PROVE ReadersWillKnow'
<1> SUFFICES ASSUME NEW a \in Agents, NEW p \in Pulls, knows'[a][p] # Nothing, p \notin missed'
             PROVE  WillKnow(knows'[a][p], Pending(p)', rows'[p].snapshot)
  BY DEF ReadersWillKnow
<1>1. ASSUME knows[a][p] # Nothing
      PROVE  /\ knows[a][p] \in Observations /\ rows[p] # NoRow /\ rows[p].snapshot \in Observations
             /\ p \notin missed => WillKnow(knows[a][p], Pending(p), rows[p].snapshot)
  <2>1. a \in subs[p] /\ rows[p].snapshot # Nothing /\ knows[a][p] \in Observations
    BY <1>1 DEF ReaderInv, KnowersSubscribe, KnowsOK
  <2>2. rows[p] # NoRow /\ rows[p] \in Rows
    BY <2>1 DEF TypeInv, SubsOK, RowsOK, MayBeRows
  <2> QED  BY <1>1, <2>1, <2>2 DEF Rows, ReaderInv, ReadersWillKnow
<1>2. CASE Given(a, p)
  <2>1. /\ poll' = NoPoll /\ rows' = rows /\ knows'[a][p] = rows[p].snapshot /\ a \in subs[p]
    BY <1>2 DEF Given, Signal, tables
  <2>2. rows[p] # NoRow /\ rows[p] \in Rows
    BY <2>1 DEF TypeInv, SubsOK, RowsOK, MayBeRows
  <2>3. rows[p].snapshot \in Observations
    BY <2>1, <2>2 DEF Rows
  <2>4. \A t, u \in rows[p].snapshot.threads : t.id = u.id => t = u
    BY <2>1, <2>2 DEF ReaderInv, SnapshotsWereSeen, Keeps
  <2>5. Pending(p)' = {}
    BY <2>1, NoPollIs DEF Pending
  <2> QED  BY <2>1, <2>3, <2>4, <2>5, KnowsWhatItSaw
<1>3. ASSUME NEW change \in poll.changes, IsTold(a, p, change)
      PROVE  WillKnow(knows'[a][p], Pending(p)', rows'[p].snapshot)
  <2>1. /\ Told(change) /\ p = poll.pull /\ Present(p, poll.row.id) /\ knows[a][p] # Nothing
        /\ change \in ContentChanges /\ knows'[a][p] = Heard(knows[a][p], change)
    BY <1>3 DEF IsTold
  <2>2. /\ UNCHANGED <<rows, missed>>
        /\ Pending(p) = poll.changes /\ Pending(p)' = poll.changes \ {change}
    BY <2>1, TellElsewhere
  <2>3. /\ knows[a][p] \in Observations /\ rows[p].snapshot \in Observations
        /\ WillKnow(knows[a][p], poll.changes, rows[p].snapshot)
    BY <1>1, <2>1, <2>2
  <2>4. WillKnow(Heard(knows[a][p], change), poll.changes \ {change}, rows[p].snapshot)
    BY <2>1, <2>3, HeardOneMore
  <2> QED  BY <2>1, <2>2, <2>4
<1>4. CASE knows'[a][p] = knows[a][p]
  <2>1. /\ knows[a][p] \in Observations /\ rows[p] # NoRow
        /\ p \notin missed => WillKnow(knows[a][p], Pending(p), rows[p].snapshot)
    BY <1>1, <1>4
  <2>2. CASE Untouched(p)
    BY <1>4, <2>1, <2>2 DEF Untouched
  <2>3. CASE Observed \/ NotObserved
    <3>1. p \notin missed
      BY <2>3, StoreElsewhere
    <3>2. CASE p # poll.pull
      BY <2>2, <2>3, <3>1, <3>2, StoreElsewhere
    <3>3. CASE p = poll.pull
      BY <1>4, <2>3, <3>1, <3>3, StoredWillBeKnown
    <3> QED  BY <3>2, <3>3
  <2>4. ASSUME NEW change \in poll.changes, Told(change)
        PROVE  WillKnow(knows'[a][p], Pending(p)', rows'[p].snapshot)
    <3>1. /\ UNCHANGED <<rows, missed>>
          /\ Untouched(p) \/ (p = poll.pull /\ Present(p, poll.row.id))
      BY <2>4, TellElsewhere
    <3>2. CASE p = poll.pull /\ Present(p, poll.row.id)
      <4>1. Pending(p) = poll.changes /\ Pending(p)' = poll.changes \ {change}
        BY <2>4, <3>2, TellElsewhere
      <4>2. WillKnow(knows[a][p], poll.changes, rows[p].snapshot)
        BY <2>1, <3>1, <4>1
      <4>3. change \in ContentChanges \cup {Unreachable, Recovered}
        BY DEF TypeInv, PollOK, Polls
      <4>4. CASE change.kind \in {"unreachable", "recovered"}
        <5>1. \A c : c.kind \notin {"unreachable", "recovered"} =>
                     (c \in poll.changes <=> c \in poll.changes \ {change})
          BY <4>4
        <5> QED  BY <1>4, <3>1, <4>1, <4>2, <5>1, OutagesSayNothing
      <4>5. CASE change.kind \notin {"unreachable", "recovered"}
        <5>1. change \in ContentChanges
          BY <4>3, <4>5, OutageKinds
        <5>2. a \in subs[p]
          BY <1>4 DEF ReaderInv, KnowersSubscribe
        <5>3. \/ knows'[a] = [knows[a] EXCEPT ![p] = Heard(knows[a][p], change)]
              \/ knows'[a] = [knows[a] EXCEPT ![p] = Nothing]
          BY <1>4, <2>4, <3>2, <4>5, <5>2 DEF Told, Telling
        <5>4. knows'[a][p] = Heard(knows[a][p], change)
          BY <5>3 DEF ReaderInv, KnowsOK
        <5>5. IsTold(a, p, change)
          BY <1>4, <2>4, <3>2, <5>1, <5>2, <5>4 DEF IsTold
        <5> QED  BY <1>3, <5>5
      <4> QED  BY <4>4, <4>5
    <3> QED  BY <2>2, <3>1, <3>2
  <2>5. CASE ~(Observed \/ NotObserved) /\ \A change \in poll.changes : ~Told(change)
    <3>1. rows'[p] # NoRow
      <4>1. a \in subs'[p] /\ SubsOK'
        BY KnowersStep, SubsStep DEF KnowersSubscribe
      <4> QED  BY <4>1 DEF SubsOK
    <3>2. ~New(p)
      BY <2>1 DEF New
    <3> QED  BY <2>2, <2>5, <3>1, <3>2, OtherSteps DEF OutageInv
  <2> QED  BY <2>3, <2>4, <2>5
<1> QED  BY <1>2, <1>3, <1>4, KnowsIs DEF ReaderInv

\* Every step keeps it.
LEMMA ReaderStep == ASSUME TypeInv, OutageInv, ReaderInv, [Next]_vars PROVE ReaderInv'
<1>1. CASE Next
  \* Without an agent or a pull request nobody comes to know anything.
  <2>1. KnowsOK'
    <3>1. CASE knows' = knows
      BY <3>1 DEF ReaderInv, KnowsOK
    <3>2. CASE Pulls # {} /\ Agents # {}
      BY <1>1, <3>2, KnowsIs DEF ReaderInv, KnowsOK
    <3>3. CASE Agents = {} /\ Pulls # {}
      <4>1. CASE Signal
        BY <3>1, <3>3, <4>1, PollFacts DEF Signal, TypeInv, SubsOK
      <4>2. ASSUME NEW change \in poll.changes, Told(change) PROVE KnowsOK'
        BY <3>1, <3>3, <4>2 DEF Told, Telling, ReaderInv, KnowsOK
      <4> QED  BY <1>1, <3>1, <3>3, <4>1, <4>2, Writers
    <3>4. CASE Pulls = {}
      <4>1. poll.stage = "idle"
        BY <3>4, PollFacts
      <4>2. ~Signal /\ \A change \in poll.changes : ~Told(change)
        BY <4>1 DEF Signal, Told, Telling, NextChange
      <4>3. \A a \in Agents : ~Delete(a)
        BY <3>4 DEF Delete, TypeInv, CallOK
      <4> QED  BY <1>1, <3>1, <3>4, <4>2, <4>3, Writers
    <3> QED  BY <3>2, <3>3, <3>4
  <2> QED  BY <1>1, <2>1, SnapshotsStep, ViewStep, KnowersStep, ReadersStep DEF ReaderInv
<1>2. CASE UNCHANGED vars
  <2>1. UNCHANGED <<hub, rows, subs, poll, knows, missed>>
    BY <1>2 DEF vars
  <2>2. SnapshotsWereSeen' /\ ViewWasSeen'
    BY <2>1 DEF ReaderInv, SnapshotsWereSeen, ViewWasSeen, Present
  <2>3. \A p : Pending(p)' = Pending(p)
    BY <2>1 DEF Pending, Present
  <2>4. KnowsOK' /\ KnowersSubscribe' /\ ReadersWillKnow'
    BY <2>1, <2>3 DEF ReaderInv, KnowsOK, KnowersSubscribe, ReadersWillKnow
  <2> QED  BY <2>2, <2>4 DEF ReaderInv
<1> QED  BY <1>1, <1>2

\* It holds at first.
LEMMA ReaderInit == Init => ReaderInv
<1> SUFFICES ASSUME Init PROVE ReaderInv
  OBVIOUS
<1>1. KnowsOK /\ \A a \in Agents, p \in Pulls : knows[a][p] = Nothing
  BY DEF Init, KnowsOK
<1>2. SnapshotsWereSeen /\ ViewWasSeen
  BY NoPollIs DEF Init, SnapshotsWereSeen, ViewWasSeen
<1> QED  BY <1>1, <1>2 DEF ReaderInv, KnowersSubscribe, ReadersWillKnow

\* It says what the property says of a watch that no poll tells of.
LEMMA ReaderInvIsEnough == TypeInv /\ ReaderInv => SubscribersKnow
<1> SUFFICES ASSUME TypeInv, ReaderInv, NEW a \in Agents, NEW p \in Pulls,
                    a \in subs[p], knows[a][p] # Nothing, ~BeingTold(p), p \notin missed
             PROVE  SameStory(knows[a][p], rows[p].snapshot)
  BY DEF SubscribersKnow
<1>1. Pending(p) = {} /\ WillKnow(knows[a][p], Pending(p), rows[p].snapshot)
  BY NonePending DEF BeingTold, ReaderInv, ReadersWillKnow
<1>2. knows[a][p] \in Observations /\ rows[p].snapshot # Nothing /\ rows[p] # NoRow /\ rows[p] \in MayBeRows
  BY DEF ReaderInv, KnowsOK, KnowersSubscribe, TypeInv, SubsOK, RowsOK
<1>3. rows[p].snapshot \in Observations
  BY <1>2 DEF MayBeRows, Rows
<1> QED  BY <1>1, <1>2, <1>3, KnowsAll

\* A subscriber that looked, and that every message since has reached, knows the pull request as the
\* watch last saw it, for any pull requests, windows of the query, edits that keep reviews, polls,
\* subscriptions and messages lost on the way, as long as no change went unrecorded and no telling
\* was cut short.
THEOREM NothingIsLeftUntold == Spec => []SubscribersKnow
<1>1. TypeInv /\ OutageInv /\ ReaderInv /\ [Next]_vars => ReaderInv'
  BY ReaderStep
<1> QED  BY <1>1, TypeInvariant, OutageInvariant, ReaderInit, ReaderInvIsEnough, PTL DEF Spec

=============================================================================
