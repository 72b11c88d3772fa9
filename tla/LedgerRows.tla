----------------------------- MODULE LedgerRows -----------------------------
(***************************************************************************)
(* The transaction documents of the ledger: what a stored row holds, which *)
(* rows validation lets through, and what the reconciliation aggregation   *)
(* counts for an account (transactions.service.ts, transaction.schema.ts). *)
(* Categories, labels, dates and payees carry no balance and are left out. *)
(***************************************************************************)
EXTENDS Integers

CONSTANTS
  Accounts,      \* the accounts of one household
  NoAccount,     \* the absent transferAccountId
  Amounts,       \* amountCents values (positive integers)
  Openings,      \* opening balances accounts are created with
  NumRows,       \* ledger rows are numbered 1..NumRows in insertion order
  Stock          \* the rows that may be stored at first, or NoRow

ASSUME RowsAssumption ==
  /\ NoAccount \notin Accounts
  /\ Amounts \subseteq Nat \ {0}
  /\ Openings \subseteq Int
  /\ NumRows \in Nat

Rows == 1 .. NumRows
Kinds == {"income", "expense", "transfer"}

\* Absence of a row: an id not used yet, and an id whose document is deleted.
\* ObjectIds are never reused, so "deleted" is final.
NoRow == [type |-> "none", amount |-> 0,
          account |-> NoAccount, transferAccount |-> NoAccount]
DeletedRow == [type |-> "deleted", amount |-> 0,
               account |-> NoAccount, transferAccount |-> NoAccount]

StoredRow ==
  [type : Kinds \cup {"none", "deleted"}, amount : Amounts \cup {0},
   account : Accounts \cup {NoAccount},
   transferAccount : Accounts \cup {NoAccount}]

\* What normalize() and validateReferences() let through: a transfer names two
\* different accounts, income and expense name one.
ValidRow ==
  { row \in [type : Kinds, amount : Amounts, account : Accounts,
             transferAccount : Accounts \cup {NoAccount}] :
      IF row.type = "transfer"
      THEN row.transferAccount \notin {NoAccount, row.account}
      ELSE row.transferAccount = NoAccount }

\* signedDeltaStages(): what the aggregation counts for account a in a row.
\* Written from the pipeline, independently of the write path's legs.
LedgerDelta(row, a) ==
  LET sign == IF row.type = "income" THEN 1
              ELSE IF row.type = "expense" THEN -1
              ELSE IF row.type = "transfer" THEN -1 ELSE 0
  IN  (IF row.account = a THEN row.amount * sign ELSE 0)
      + (IF row.type = "transfer" /\ row.transferAccount = a
         THEN row.amount ELSE 0)

\* The sums of e[1..i], for every i in 0..n: a recursive function, which both TLC
\* and TLAPS can work with.
PrefixSums(n, e) ==
  LET s[i \in 0 .. n] == IF i = 0 THEN 0 ELSE s[i - 1] + e[i]
  IN  s

\* e[1] + ... + e[n].
SumTo(n, e) == PrefixSums(n, e)[n]

\* sumLedgerDeltasByAccount(), for one account of the ledger `stored`.
LedgerTotal(stored, a) ==
  SumTo(NumRows, [t \in Rows |-> LedgerDelta(stored[t], a)])

ASSUME StockAssumption == Stock \subseteq ValidRow \cup {NoRow}
=============================================================================
