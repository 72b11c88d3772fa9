-------------------------------- MODULE Books -------------------------------
(***************************************************************************)
(* What the ledger promises: a write changes one row and the balances of   *)
(* its accounts in one indivisible step, and nothing else ever changes a   *)
(* balance.  Ledger.tla implements this when each row has one editor at a  *)
(* time and no write fails half way.                                       *)
(***************************************************************************)
EXTENDS LedgerRows

VARIABLES balance, opening, rows

vars == <<balance, opening, rows>>

Init ==
  /\ opening \in [Accounts -> Openings]
  /\ rows \in [Rows -> Stock]
  /\ balance = [a \in Accounts |-> opening[a] + LedgerTotal(rows, a)]

\* Row t becomes `row`; each account moves by the difference the row makes to it.
Replace(t, row) ==
  /\ rows' = [rows EXCEPT ![t] = row]
  /\ balance' = [a \in Accounts |->
       balance[a] + LedgerDelta(row, a) - LedgerDelta(rows[t], a)]
  /\ UNCHANGED opening

Record(t) == rows[t].type = "none" /\ \E row \in ValidRow : Replace(t, row)
Amend(t) == rows[t].type \in Kinds /\ \E row \in ValidRow : Replace(t, row)
Erase(t) == rows[t].type \in Kinds /\ Replace(t, DeletedRow)

Next == \E t \in Rows : Record(t) \/ Amend(t) \/ Erase(t)

Spec == Init /\ [][Next]_vars

\* A balance is always the opening balance plus the ledger.
Exact == \A a \in Accounts : balance[a] = opening[a] + LedgerTotal(rows, a)
=============================================================================
