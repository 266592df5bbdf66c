---------------------------- MODULE MCRemoteWrite ----------------------------
(* RemoteWrite on small instances. *)
EXTENDS RemoteWrite, TLC

Symmetry == Permutations(Series) \cup Permutations(Destinations)
=============================================================================
