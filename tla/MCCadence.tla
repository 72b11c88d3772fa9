----------------------------- MODULE MCCadence -----------------------------
(* Cadence.tla on the years around a leap year. *)
EXTENDS Cadence
=============================================================================
