---------------------------- MODULE MCMessaging ----------------------------
(***************************************************************************)
(* Instance for TLC: two agents and the bridge, any two of three letters:  *)
(* one to the operator's phone, one to everybody, one to a topic.          *)
(***************************************************************************)
EXTENDS Messaging

Names == <<"a", "b", "telegram">>
Letter(from, by, name) == [from |-> from, by |-> by, name |-> name]
Post == {Letter(1, "name", "telegram"), Letter(2, "all", ""), Letter(1, "topic", "builds")}
=============================================================================
