------------------------------ MODULE MCReload ------------------------------
(***************************************************************************)
(* Instance for TLC: a file with one resource, a smaller default time to   *)
(* live, a second resource, half a file, and one that Validate refuses.    *)
(***************************************************************************)
EXTENDS Reload

Content(parses, default, resources) ==
  [there |-> TRUE, parses |-> parses, sound |-> TRUE, default |-> default, resources |-> resources]
Slot(name, capacity) == [name |-> name, capacity |-> capacity, ttl |-> 0]

Start == Content(TRUE, 2, <<Slot("cpu", 1)>>)
Files ==
  {Start, Missing, Content(TRUE, 1, <<Slot("cpu", 1)>>), Content(TRUE, 2, <<Slot("gpu", 1)>>),
   Content(FALSE, 2, <<>>), Content(TRUE, 2, <<Slot("cpu", 1), Slot("cpu", 2)>>)}
=============================================================================
