------------------------------ MODULE MCServer ------------------------------
(***************************************************************************)
(* Instance for TLC: a client that fills its connection with calls that    *)
(* park, and one that is answered and then sends something unreadable.     *)
(***************************************************************************)
EXTENDS Server

Programs == <<<<"parks", "parks", "quick">>, <<"invalid", "garbage">>>>
=============================================================================
