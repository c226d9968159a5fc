---------------------------- MODULE PullRequests ----------------------------
(***************************************************************************)
(* Pull requests as GitHub tells of them, as internal/github decodes them, *)
(* and the changes internal/service/prwatch finds between two of them.     *)
(* No state: the operators PrWatch is built from.                          *)
(*                                                                         *)
(* A change carries what its line of text says, so that a reader of the    *)
(* changes can be asked what it knows; the wording is left out, and so is  *)
(* the order of the changes found by one poll.                             *)
(***************************************************************************)
EXTENDS Naturals, FiniteSets, Sequences

CONSTANTS
  Threads,          \* the review conversations, in the order they began
  \* how many of the latest comments, reviews, conversations and checks the query asks for, and how
  \* many of the first replies of a conversation
  CommentWindow, ReviewWindow, ThreadWindow, CheckWindow, ReplyWindow

ASSUME WindowAssumption ==
  /\ Threads \subseteq Nat
  /\ {CommentWindow, ReviewWindow, ThreadWindow, CheckWindow, ReplyWindow} \subseteq Nat

RunConclusions == {"SUCCESS", "NEUTRAL", "SKIPPED", "FAILURE", "CANCELLED", "TIMED_OUT",
                   "ACTION_REQUIRED", "STARTUP_FAILURE", "STALE"}

\* A finished or unfinished check run, or the status an older integration sets.
CheckNodes ==
  [type : {"CheckRun"}, status : {"IN_PROGRESS", "COMPLETED"}, says : RunConclusions \cup {""}]
    \cup [type : {"StatusContext"}, status : {""}, says : {"SUCCESS", "FAILURE", "ERROR", "PENDING", "EXPECTED"}]

ReviewStates == {"APPROVED", "CHANGES_REQUESTED", "COMMENTED", "DISMISSED"}

\* GitHub's record of a pull request: its comments and reviews are numbered in the order they were
\* made.
RawPulls ==
  [state : {"OPEN", "CLOSED"}, merged : BOOLEAN, draft : BOOLEAN, head : Nat, checks : Seq(CheckNodes),
   comments : Nat, reviews : SUBSET [id : Nat, state : ReviewStates],
   threads : [Threads -> [there : BOOLEAN, resolved : BOOLEAN, replies : Nat]]]

\* A review keeps its identity and its state, until a verdict is dismissed.
Became(review, now) ==
  /\ review.id = now.id
  /\ now.state = review.state \/ (now.state = "DISMISSED" /\ review.state # "COMMENTED")

\* What GitHub keeps when a pull request moves on: no review goes, whatever becomes of the rest.
MovesOn(raw, next) ==
  /\ \A k \in raw.reviews : \E r \in next.reviews : r.id = k.id
  /\ \A r \in next.reviews, k \in raw.reviews : k.id = r.id => \E j \in raw.reviews : Became(j, r)

StateOf(raw) == IF raw.merged THEN "merged" ELSE IF raw.state = "OPEN" THEN "open" ELSE "closed"

\* The state of one check: an unfinished run has no conclusion.
CheckState(node) ==
  IF node.says # "" THEN node.says ELSE IF node.status = "COMPLETED" THEN "UNKNOWN" ELSE "PENDING"

Failed(state) ==
  state \in {"FAILURE", "CANCELLED", "TIMED_OUT", "ACTION_REQUIRED", "STARTUP_FAILURE", "STALE"}
Passed(state) == state \in {"SUCCESS", "NEUTRAL", "SKIPPED"}

\* The checks decide, whatever GitHub's own summary says: one failure, or one that is unsettled.
ChecksState(nodes) ==
  LET states == {CheckState(n) : n \in nodes}
  IN CASE states = {}                               -> "unknown"
       [] \E s \in states : Failed(s)               -> "failure"
       [] states # {} /\ \A s \in states : Passed(s) -> "success"
       [] OTHER                                     -> "pending"

\* What "last: window" brings of a list: all but those that enough others follow.
Newest(numbers, window) == {n \in numbers : Cardinality({m \in numbers : m > n}) < window}

\* What the query brings of each list.
LatestComments(raw) == Newest(1 .. raw.comments, CommentWindow)
LatestReviews(raw) == {r \in raw.reviews : r.id \in Newest({k.id : k \in raw.reviews}, ReviewWindow)}
LatestThreads(raw) == Newest({t \in Threads : raw.threads[t].there}, ThreadWindow)
LatestChecks(raw) == {raw.checks[i] : i \in Newest(DOMAIN raw.checks, CheckWindow)}
FirstReplies(count) == IF count < ReplyWindow THEN count ELSE ReplyWindow

\* convert: what the watcher stores.
Observation(raw) ==
  [state |-> StateOf(raw), draft |-> raw.draft, head |-> raw.head,
   checks |-> ChecksState(LatestChecks(raw)), comments |-> LatestComments(raw), reviews |-> LatestReviews(raw),
   threads |-> {[id |-> t, mark |-> IF raw.threads[t].resolved THEN "resolved" ELSE "open",
                 replies |-> FirstReplies(raw.threads[t].replies)] : t \in LatestThreads(raw)}]

(***************************************************************************)
(* changesBetween.                                                         *)
(***************************************************************************)

\* A change of state says whether the pull request is a draft only when it is open again.
StateChange(before, after) ==
  IF before.state # after.state THEN {[kind |-> "state", state |-> after.state, draft |-> after.draft]}
  ELSE IF before.draft # after.draft THEN {[kind |-> "draft", draft |-> after.draft]}
  ELSE {}

ChecksChange(before, after) ==
  IF before.checks # after.checks THEN {[kind |-> "checks", checks |-> after.checks]} ELSE {}

\* Mistake: a push is not told together with its checks.
CommitsChangeAlone(before, after) ==
  IF before.checks = after.checks /\ before.head # after.head
    THEN {[kind |-> "commits", head |-> after.head]} ELSE {}

CommitsChange(before, after) ==
  IF before.head # after.head THEN {[kind |-> "commits", head |-> after.head]} ELSE {}

CommentChanges(before, after) ==
  {[kind |-> "comment", id |-> c] : c \in after.comments \ before.comments}

\* A review that only wraps comments on the diff is not announced, and one that was seen before is
\* not announced again, whatever became of its verdict.
ReviewChanges(before, after) ==
  {[kind |-> "review", id |-> r.id, state |-> r.state] :
     r \in {s \in after.reviews : s.state # "COMMENTED" /\ \A k \in before.reviews : k.id # s.id}}

\* A conversation appears, is resolved, is opened again, or else gains a reply.  Of one that appears
\* the line does not say that it is resolved already.
ThreadChanges(before, after) ==
  LET Known(t) == CHOOSE k \in before.threads : k.id = t.id
      Existed(t) == \E k \in before.threads : k.id = t.id
      Turned(t) == Existed(t) /\ Known(t).mark # t.mark
      Grown(t) == Existed(t) /\ ~Turned(t) /\ t.replies > Known(t).replies
      Said(t) == IF ~Existed(t) /\ t.mark = "resolved" THEN "unsaid" ELSE t.mark
  IN {[kind |-> "thread", id |-> t.id, mark |-> Said(t)] :
        t \in {u \in after.threads : ~Existed(u) \/ Turned(u)}}
     \cup {[kind |-> "reply", id |-> t.id] : t \in {u \in after.threads : Grown(u)}}

\* The first observation is not a change.
ChangesBetween(before, after, first) ==
  IF first THEN {}
  ELSE StateChange(before, after) \cup ChecksChange(before, after) \cup CommitsChange(before, after)
         \cup CommentChanges(before, after) \cup ReviewChanges(before, after)
         \cup ThreadChanges(before, after)

(***************************************************************************)
(* What somebody who reads every change knows.                             *)
(***************************************************************************)

ThreadIn(threads, id) == {t \in threads : t.id = id}

Heard(known, change) ==
  CASE change.kind = "state"   -> [known EXCEPT !.state = change.state,
                                     !.draft = IF change.state = "open" THEN change.draft ELSE @]
    [] change.kind = "draft"   -> [known EXCEPT !.draft = change.draft]
    [] change.kind = "checks"  -> [known EXCEPT !.checks = change.checks]
    [] change.kind = "commits" -> [known EXCEPT !.head = change.head]
    [] change.kind = "comment" -> [known EXCEPT !.comments = @ \cup {change.id}]
    [] change.kind = "review"  -> [known EXCEPT !.reviews = @ \cup {[id |-> change.id, state |-> change.state]}]
    [] change.kind = "thread"  ->
         [known EXCEPT !.threads = (@ \ ThreadIn(@, change.id))
                                     \cup {[id |-> change.id, mark |-> change.mark, replies |-> 0]}]
    [] OTHER -> known

\* What was said of a conversation is so, or it was resolved before it was first seen.
SaysOf(said, mark) == said = mark \/ (said = "unsaid" /\ mark = "resolved")

\* The reader knows, of what the query brings, the state, the draft mark of an open pull request,
\* the branch, the checks, the comments, the verdicts of reviews (not that one was dismissed since),
\* and which conversations are resolved.  What has left the windows, or was deleted, it still knows.
SameStory(known, observed) ==
  /\ known.state = observed.state
  /\ observed.state = "open" => known.draft = observed.draft
  /\ known.head = observed.head
  /\ known.checks = observed.checks
  /\ observed.comments \subseteq known.comments
  /\ \A r \in observed.reviews : r.state # "COMMENTED" => \E k \in known.reviews : Became(k, r)
  /\ \A t \in observed.threads : \E k \in known.threads : k.id = t.id /\ SaysOf(k.mark, t.mark)
=============================================================================
