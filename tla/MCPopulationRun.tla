----------------------------- MODULE MCPopulationRun -----------------------------
(* Small instances of the population runs for TLC. *)
EXTENDS PopulationRun
=============================================================================
