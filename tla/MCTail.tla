-------------------------------- MODULE MCTail --------------------------------
(* Tail on small instances. *)
EXTENDS Tail
=============================================================================
