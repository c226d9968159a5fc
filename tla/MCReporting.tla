---------------------------- MODULE MCReporting ----------------------------
(***************************************************************************)
(* Instance for TLC: two agents and the bridge; the operator's phone sends *)
(* a /report and a /broadcast, and a chat that is not allowed writes too.  *)
(***************************************************************************)
EXTENDS Reporting

Names == <<"a", "b", "telegram">>
Update(by) == [from |-> Operator, by |-> by, name |-> ""]
Bot == <<Update("report"), Update("all"), Update("stranger")>>
=============================================================================
