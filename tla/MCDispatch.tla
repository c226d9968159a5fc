----------------------------- MODULE MCDispatch -----------------------------
(***************************************************************************)
(* Small instances of Dispatch for TLC.                                    *)
(***************************************************************************)
EXTENDS Dispatch

CONSTANTS w1, w2, test

OneTask == <<test>>
============================================================================
