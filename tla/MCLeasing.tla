----------------------------- MODULE MCLeasing -----------------------------
(***************************************************************************)
(* Small instances of Leasing for TLC: what each call asks for.            *)
(***************************************************************************)
EXTENDS Leasing

CONSTANTS a, b, test

Ask(agent, r, priority, noWait) ==
  [agent |-> agent, resource |-> r, priority |-> priority, noWait |-> noWait]

\* Two calls of equal priority, a later one that goes first and does not wait.
ThreeCalls == <<Ask(a, test, 0, FALSE), Ask(b, test, 0, FALSE), Ask(a, test, 1, TRUE)>>

\* Two calls that only their arrival orders.
TwoCalls == <<Ask(a, test, 0, FALSE), Ask(b, test, 0, FALSE)>>
============================================================================
