----------------------------- MODULE MCSavings -----------------------------
(* Savings.tla on a small instance. *)
EXTENDS Savings, TLC

CONSTANTS checking, loan, pay, rent, savings, debt   \* model values

Cents == (pay :> 1) @@ (rent :> -1)

Pairing == (savings :> {checking}) @@ (debt :> {loan})

Statements == { <<pay, rent, pay>>, <<Bad, pay>> }
=============================================================================
