------------------------------- MODULE Reports ------------------------------
(***************************************************************************)
(* The figures reports.service.ts and budgets.service.ts derive from the   *)
(* ledger.  A ledger is a sequence of transactions; months are numbered as *)
(* monthIndex() numbers them, relative to the first one modelled.          *)
(*                                                                         *)
(* A transaction is a record [type, amount, month, account, to, category]: *)
(* type "income", "expense" or "transfer", `to` the destination of a       *)
(* transfer, category NoCategory for a transfer and where none was given.  *)
(***************************************************************************)
EXTENDS Integers, FiniteSetsExt

CONSTANTS
  Assets, Liabilities,   \* the accounts, by the class of their type
  Opening,               \* Opening[a]: openingBalanceCents
  CreatedIn,             \* CreatedIn[a]: the month of the account's createdAt
  Earning, Spending,     \* the household's categories: isIncome or not
  NoCategory

Holdings == Assets \cup Liabilities

ASSUME ReportsAssumption ==
  /\ IsFiniteSet(Assets) /\ IsFiniteSet(Liabilities)
  /\ Assets \cap Liabilities = {}
  /\ Opening \in [Holdings -> Int]
  /\ CreatedIn \in [Holdings -> Int]
  /\ IsFiniteSet(Spending)
  /\ NoCategory \notin Earning \cup Spending

\* The month's transactions of a type, by their places in the ledger.
OfType(ledger, m, type) ==
  {i \in DOMAIN ledger : ledger[i].month = m /\ ledger[i].type = type}

\* $sum of the amounts of those.
Total(ledger, chosen) == MapThenSumSet(LAMBDA i : ledger[i].amount, chosen)

-----------------------------------------------------------------------------
(* Cash flow: income and expense, transfers excluded.                      *)

Earned(ledger, m) == Total(ledger, OfType(ledger, m, "income"))

Spent(ledger, m) == Total(ledger, OfType(ledger, m, "expense"))

\* getCashFlow(): a month without activity comes back as zeros.
CashFlow(ledger, from, to) ==
  [m \in from .. to |->
     [income |-> Earned(ledger, m), expense |-> Spent(ledger, m),
      net |-> Earned(ledger, m) - Spent(ledger, m)]]

-----------------------------------------------------------------------------
(* Net worth: balances derived forward from the opening balance.           *)

\* (Mutant: the leg of a transfer at its destination is forgotten.)
EffectAtSource(t, a) ==
  IF t.account # a THEN 0 ELSE IF t.type = "income" THEN t.amount ELSE -t.amount

\* signedDeltaStages(): both legs of a transfer.
Effect(t, a) ==
  (IF t.account # a THEN 0 ELSE IF t.type = "income" THEN t.amount
                                ELSE -t.amount)
  + IF t.type = "transfer" /\ t.to = a THEN t.amount ELSE 0

\* sumLedgerDeltasByAccountAndMonth(): an account's delta in some months.
Delta(ledger, a, months) ==
  MapThenSumSet(LAMBDA i : Effect(ledger[i], a),
                {i \in DOMAIN ledger : ledger[i].month \in months})

Touches(t, a) == t.account = a \/ (t.type = "transfer" /\ t.to = a)

\* (Mutant: the months before the range are left out.)
CarriedNothing(ledger, a, from) == Opening[a]

\* The balance the first month of the range starts from.
Carried(ledger, a, from) ==
  Opening[a]
  + Delta(ledger, a, {m \in {ledger[i].month : i \in DOMAIN ledger} : m < from})

EndBalance(ledger, a, from, m) ==
  Carried(ledger, a, from) + Delta(ledger, a, from .. m)

\* The account shows from its creation or its first delta up to the end of the
\* range, whichever is earlier.
FirstMonth(ledger, a, to) ==
  Min({CreatedIn[a]} \cup
      {ledger[i].month : i \in {j \in DOMAIN ledger :
                                  /\ Touches(ledger[j], a)
                                  /\ ledger[j].month <= to}})

Appearing(ledger, m, to) == {a \in Holdings : FirstMonth(ledger, a, to) <= m}

\* getNetWorth(): the totals and the accounts of every month of the range.
NetWorth(ledger, from, to) ==
  [m \in from .. to |->
     LET rows == Appearing(ledger, m, to)
         Worth(kind) ==
           MapThenSumSet(LAMBDA a : EndBalance(ledger, a, from, m), rows \cap kind)
     IN  [assets |-> Worth(Assets),
          liabilities |-> Worth(Liabilities),
          worth |-> Worth(Assets) + Worth(Liabilities),
          accounts |-> rows]]

-----------------------------------------------------------------------------
(* Spending, and the budget view's actuals.                                *)

\* (Mutant: spend without a category is dropped.)
UnplacedIfCategory(t) == t.category \in Earning

\* Expense spend that has no expense category of the household to go to: none
\* was given, it was deleted, or it is an income category.
Unplaced(t) == t.category \notin Spending

\* getSpending(): one month's expenses per category, the rest in one figure.
SpendingReport(ledger, m) ==
  LET spent == OfType(ledger, m, "expense")
      On(c) == {i \in spent : ledger[i].category = c}
  IN  [actual |-> [c \in Spending |-> Total(ledger, On(c))],
       uncategorized |-> Total(ledger, {i \in spent : Unplaced(ledger[i])}),
       total |-> Total(ledger, spent)]

\* getBudgetVsActual(): actuals by category, income over every category given.
BudgetView(ledger, m) ==
  [actual |-> Total(ledger, {i \in OfType(ledger, m, "expense") :
                               ledger[i].category \in Spending}),
   income |-> Total(ledger, {i \in OfType(ledger, m, "income") :
                               ledger[i].category # NoCategory})]
=============================================================================
