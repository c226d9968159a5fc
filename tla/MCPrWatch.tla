----------------------------- MODULE MCPrWatch -----------------------------
(***************************************************************************)
(* Instance for TLC: one pull request and an edit of each kind the watcher *)
(* tells apart.                                                            *)
(***************************************************************************)
EXTENDS PrWatch

TwoLogins == <<"work", "personal">>
OnlyPersonal == [a \in Accounts |-> IF a = "personal" THEN Pulls ELSE {}]

Failing == [type |-> "CheckRun", status |-> "COMPLETED", says |-> "FAILURE"]
Running == [type |-> "CheckRun", status |-> "IN_PROGRESS", says |-> ""]

Thread(there, resolved, replies) == [there |-> there, resolved |-> resolved, replies |-> replies]

Review(id, state) == [id |-> id, state |-> state]

\* A draft that was closed, with two approvals, and two of three conversations: one open, one resolved.
ClosedDraft ==
  [p \in Pulls |-> [state |-> "CLOSED", merged |-> FALSE, draft |-> TRUE, head |-> 0, checks |-> <<>>,
                    comments |-> 2, reviews |-> {Review(1, "APPROVED"), Review(2, "APPROVED")},
                    threads |-> [t \in Threads |-> Thread(t < 3, t = 2, 0)]]]

\* A draft that is closed or opened again; or a commit whose checks fail and that dismisses an
\* approval, a new verdict, a comment, and conversations that turn or appear, one resolved already.
\* The first of each list falls out of the window.
Edited(raw) ==
  {[raw EXCEPT !.state = IF @ = "OPEN" THEN "CLOSED" ELSE "OPEN", !.draft = ~@],
   [raw EXCEPT !.head = @ + 1, !.checks = <<Running, Failing, Running>>, !.comments = @ + 1,
               !.reviews = {Review(1, "APPROVED"), Review(2, "DISMISSED"), Review(3, "COMMENTED"),
                            Review(4, "CHANGES_REQUESTED")},
               !.threads = [t \in Threads |-> Thread(TRUE, ~@[t].resolved, @[t].replies + 1)]]}
=============================================================================
