------------------------------ MODULE MCExporter ------------------------------
(***************************************************************************)
(* Exporter with one backend.  The assumptions are those of Collector on   *)
(* its constants.                                                          *)
(***************************************************************************)
EXTENDS Exporter, FiniteSets

ASSUME Cardinality(ArmIds) > 2 * Cardinality(Backends)
=============================================================================
