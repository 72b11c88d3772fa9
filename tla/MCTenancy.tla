----------------------------- MODULE MCTenancy -----------------------------
(* Tenancy.tla on a small instance. *)
EXTENDS Tenancy, TLC

CONSTANTS ada, bob, cyd, r1, r2, r3, b1   \* model values

Homes == ada :> 1 @@ bob :> 2 @@ cyd :> 3
=============================================================================
