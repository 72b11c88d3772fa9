------------------------------ MODULE MCLedger ------------------------------
(* Ledger.tla on small instances. *)
EXTENDS Ledger, TLC

CONSTANTS cash, bank, sweep1, sweep2   \* model values

\* The ledger is empty at first, or holds somebody's salary.
Nothing == {NoRow}
Salary == [type |-> "income", amount |-> 1, account |-> cash,
           transferAccount |-> NoAccount]
OrSalary == {NoRow, Salary}

Symmetry == Permutations(Accounts) \cup Permutations(Reconcilers)
=============================================================================
