---------------------------- MODULE MCRecurring ----------------------------
(* Recurring.tla on small instances. *)
EXTENDS Recurring, TLC

CONSTANTS server1, server2, patch1, patch2   \* model values

Symmetry == Permutations(Servers) \cup Permutations(Editors)
=============================================================================
