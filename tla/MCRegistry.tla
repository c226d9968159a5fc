----------------------------- MODULE MCRegistry -----------------------------
(***************************************************************************)
(* Small instances of Registry for TLC.                                    *)
(***************************************************************************)
EXTENDS Registry, TLC

CONSTANTS p1, p2, builder

\* Two processes that want the same name.
SameName == [p \in Procs |-> builder]

\* They are interchangeable.
Alike == Permutations(Procs)
=============================================================================
