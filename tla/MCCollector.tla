----------------------------- MODULE MCCollector -----------------------------
(***************************************************************************)
(* Collector on small instances.  A backend holds two arms at most between *)
(* two steps, one of them retired, and sync makes one more before it drops *)
(* another: 2 * Cardinality(Backends) + 1 addresses are never used up.     *)
(***************************************************************************)
EXTENDS Collector

ASSUME Cardinality(ArmIds) > 2 * Cardinality(Backends)

(* The exporter while it serves: Close, which forgets every arm, is left   *)
(* out, and with it a scrape that comes after it.                          *)
ServingNext == BeginScrape \/ Scraper \/ \E i \in ArmIds : WorkerReturns(i)

ServingSpec == Init /\ [][ServingNext]_vars
=============================================================================
