------------------------------ MODULE Accounts ------------------------------
(***************************************************************************)
(* What statements and goals share: the household's accounts, with their   *)
(* cached balance and its anchor, and the ledger rows behind it            *)
(* (accounts.service.ts, transactions.service.ts).  A transaction entered  *)
(* by hand or deleted is one step here; Ledger.tla takes it apart.         *)
(***************************************************************************)
EXTENDS Handlers, FiniteSetsExt

CONSTANTS
  Accounts,
  Keys,      \* what an import compares rows by: date, amount, type, payee
  Amount,    \* Amount[k]: the signed amount of a row with key k
  Unset      \* model value: an account from before anchors

NoAccount == 0   \* no account has this id

ASSUME AccountsAssumption ==
  Amount \in [Keys -> Int] /\ Unset \notin Int /\ NoAccount \notin Accounts

VARIABLES
  balance,    \* balance[a]: balanceCents
  opening,    \* opening[a]: openingBalanceCents
  archived,   \* archived[a]: isArchived
  rows,       \* the transactions: account, key, who stored it as which row of
              \* a file (0 by hand), and as history whether another upload to
              \* the account was under way
  base,       \* history: what the account held when all this began
  drifted     \* history: accounts whose $inc was lost

books == <<balance, opening, archived, rows, base, drifted>>

RowsOf(a) == {r \in rows : r.account = a}

Sum(rs) == MapThenSumSet(LAMBDA r : Amount[r.key], rs)

-----------------------------------------------------------------------------
\* TransactionsService.create().  validateReferences(): no archived account.
Enter(p, a, k) ==
  /\ ~archived[a]
  /\ Begin(p, [Done EXCEPT !.id = a])
  /\ rows' = rows \cup {[account |-> a, key |-> k, by |-> p, row |-> 0, torn |-> FALSE]}
  /\ balance' = [balance EXCEPT ![a] = @ + Amount[k]]
  /\ UNCHANGED <<opening, archived, base, drifted, failures>>

\* TransactionsService.remove(): archived accounts too.
Erase(p, r) ==
  /\ r \in rows
  /\ Begin(p, [Done EXCEPT !.id = r.account])
  /\ rows' = rows \ {r}
  /\ balance' = [balance EXCEPT ![r.account] = @ - Amount[r.key]]
  /\ UNCHANGED <<opening, archived, base, drifted, failures>>

\* archive(), and update() with isArchived.
Archive(p, a) ==
  /\ Begin(p, Done)
  /\ archived' = [archived EXCEPT ![a] = ~@]
  /\ UNCHANGED <<balance, opening, rows, base, drifted, failures>>

-----------------------------------------------------------------------------
(* backfillOpeningBalances(): the balances of accounts without an anchor,  *)
(* then the sum of the ledger, then the stamp unless there is one by now.  *)

BeginAnchor(p, a) ==
  /\ opening[a] = Unset
  /\ Begin(p, [Idle EXCEPT !.op = "anchor", !.at = "sum", !.id = a,
                           !.wanted = balance[a]])
  /\ UNCHANGED <<books, failures>>

AnchorSum(p) ==
  LET q == request[p] IN
  /\ At(p, "anchor", "sum")
  /\ Becomes(p, [q EXCEPT !.at = "stamp", !.wanted = @ - Sum(RowsOf(q.id))])
  /\ UNCHANGED <<books, failures>>

\* (Mutant: the anchor is written over the one another boot has stamped.)
AnchorStampAlways(p) ==
  LET q == request[p] IN
  /\ At(p, "anchor", "stamp")
  /\ opening' = [opening EXCEPT ![q.id] = q.wanted]
  /\ Finish(p)
  /\ UNCHANGED <<balance, archived, rows, base, drifted, failures>>

\* setOpeningBalanceIfUnset().
AnchorStamp(p) ==
  LET q == request[p] IN
  /\ At(p, "anchor", "stamp")
  /\ opening' = [opening EXCEPT ![q.id] = IF @ = Unset THEN q.wanted ELSE @]
  /\ Finish(p)
  /\ UNCHANGED <<balance, archived, rows, base, drifted, failures>>
=============================================================================
