----------------------------- MODULE BudgetPage -----------------------------
(***************************************************************************)
(* The budget page (frontend/src/app/budget/page.tsx) and the limits it    *)
(* edits (budgets.service.ts): one category's limit per month.             *)
(*                                                                         *)
(* Two effects fetch: the catalog once, the budget for every month shown   *)
(* and after every write that did not return it.  An effect that runs      *)
(* again cancels its previous fetch, and a successful save outdates every  *)
(* fetch under way (saveEpoch).  Either way the answer is ignored, so the  *)
(* call is taken off the wire.                                             *)
(***************************************************************************)
EXTENDS Wire

CONSTANTS
  NumMonths,   \* the months the member steps through
  Cents,       \* limits the member types in
  NoLimit,     \* no limit is stored for the month
  MaxBudgetActs   \* bound on what the member does while the page is open

Months == 1 .. NumMonths

ASSUME BudgetAssumption ==
  /\ NumMonths \in Nat \ {0}
  /\ Cents \subseteq Nat
  /\ NoLimit \notin Nat

VARIABLES
  limit,         \* limit[m]: the stored limit, NoLimit when there is none
  month,         \* the month selected
  view,          \* the last budget applied: its month and planned amount
  saving,        \* a save or a clear is under way: the buttons are disabled
  budgetError,   \* the banner of the budget
  catalog,       \* "loading", "loaded" or "error"
  doubted        \* history: the view may be older than the member's last write

budgetVars == <<limit, month, view, saving, budgetError, catalog, doubted>>

\* The view cannot tell "no limit" from a limit of zero.
Planned(m) == IF limit[m] = NoLimit THEN 0 ELSE limit[m]

\* getBudgetVsActual(), as far as the limits go.
Budget(m) == [month |-> m, planned |-> Planned(m)]

NoView == [month |-> 0, planned |-> 0]

GetBudget(m) ==
  [kind |-> "budget", stage |-> "sent", answer |-> None, month |-> m]

\* currentView: only data for the selected month may render.
Current == view.month = month

Ready == Current /\ catalog = "loaded"

BudgetInit ==
  /\ limit \in [Months -> {NoLimit} \cup Cents]
  /\ month = 1
  /\ view = NoView
  /\ saving = FALSE
  /\ budgetError = FALSE
  /\ catalog = "loading"
  /\ doubted = FALSE

-----------------------------------------------------------------------------
(* The server.                                                             *)

ServeBudget(i) ==
  /\ Stage(i, "budget", "sent")
  /\ Answered(i, Budget(calls[i].month))
  /\ UNCHANGED <<budgetVars, acts, errors>>

ServeCatalog(i) ==
  /\ Stage(i, "catalog", "sent")
  /\ Answered(i, "catalog")
  /\ UNCHANGED <<budgetVars, acts, errors>>

\* bulkSetBudgetCategories() upserts the limit and returns the month's view.
ServeSave(i) ==
  /\ Stage(i, "save", "sent")
  /\ limit' = [limit EXCEPT ![calls[i].month] = calls[i].cents]
  /\ Answered(i, [month |-> calls[i].month, planned |-> calls[i].cents])
  /\ UNCHANGED <<month, view, saving, budgetError, catalog, doubted, acts,
                 errors>>

\* deleteBudgetCategory() deletes the limit, if there is one; no view.
ServeClear(i) ==
  /\ Stage(i, "clear", "sent")
  /\ limit' = [limit EXCEPT ![calls[i].month] = NoLimit]
  /\ Answered(i, "cleared")
  /\ UNCHANGED <<month, view, saving, budgetError, catalog, doubted, acts,
                 errors>>

-----------------------------------------------------------------------------
(* What the member does.                                                   *)

\* The month effect runs again: its previous fetch is cancelled.
Refetch(cs, m) ==
  Append(Without(cs, "budget"), GetBudget(m))

\* switchMonth(): the old month's failure is not the new month's.
SwitchMonth(m) ==
  /\ m \in {month - 1, month + 1}
  /\ Act(MaxBudgetActs)
  /\ month' = m
  /\ budgetError' = FALSE
  /\ calls' = Refetch(calls, m)
  /\ UNCHANGED <<limit, view, saving, catalog, doubted, errors>>

\* The form of the row, its button disabled while a save is under way.
MaySave == Ready /\ ~saving

\* handleSave() with an amount.
Save(cents) ==
  /\ MaySave
  /\ Act(MaxBudgetActs)
  /\ saving' = TRUE
  /\ calls' = Append(calls,
                [kind |-> "save", stage |-> "sent", answer |-> None,
                 month |-> month, cents |-> cents])
  /\ UNCHANGED <<limit, month, view, budgetError, catalog, doubted, errors>>

\* (Mutant: an empty field always deletes the entry.)
ClearsAlways == TRUE

\* An empty save on a $0 row is a no-op: the zero may be deliberate.
Clears == view.planned # 0

\* handleSave() with an empty field, the Clear button: clearLimit().  `warned`
\* (history): the screen showed a budget from before the member's last write.
ClearLimit ==
  /\ MaySave
  /\ Clears
  /\ Act(MaxBudgetActs)
  /\ saving' = TRUE
  /\ calls' = Append(calls,
                [kind |-> "clear", stage |-> "sent", answer |-> None,
                 month |-> month, warned |-> doubted])
  /\ UNCHANGED <<limit, month, view, budgetError, catalog, doubted, errors>>

\* Retry fetches only what failed: a catalog that is loaded is kept.
Retry ==
  /\ ~Ready
  /\ budgetError \/ catalog = "error"
  /\ Act(MaxBudgetActs)
  /\ LET kept == IF catalog = "loaded" THEN calls
                 ELSE Append(Without(calls, "catalog"), Sending("catalog"))
     IN  calls' = Refetch(kept, month)
  /\ UNCHANGED <<budgetVars, errors>>

-----------------------------------------------------------------------------
(* The handlers that run when a call is over.                              *)

BudgetDone(i) ==
  /\ Stage(i, "budget", "done")
  /\ Handled(i, <<>>)
  /\ view' = calls[i].answer
  /\ budgetError' = FALSE
  /\ doubted' = FALSE
  /\ UNCHANGED <<limit, month, saving, catalog, acts, errors>>

BudgetFailed(i) ==
  /\ Stage(i, "budget", "failed")
  /\ Handled(i, <<>>)
  /\ budgetError' = TRUE
  /\ UNCHANGED <<limit, month, view, saving, catalog, doubted, acts, errors>>

CatalogDone(i) ==
  /\ Stage(i, "catalog", "done")
  /\ Handled(i, <<>>)
  /\ catalog' = "loaded"
  /\ UNCHANGED <<limit, month, view, saving, budgetError, doubted, acts,
                 errors>>

\* A loaded catalog keeps serving: only the first one raises the banner.
CatalogFailed(i) ==
  /\ Stage(i, "catalog", "failed")
  /\ Handled(i, <<>>)
  /\ catalog' = IF catalog = "loaded" THEN "loaded" ELSE "error"
  /\ UNCHANGED <<limit, month, view, saving, budgetError, doubted, acts,
                 errors>>

\* (Mutant: a save does not outdate the fetches under way.)
SavedKeepsFetches(cs) == cs

\* saveEpoch.current += 1: fetches under way carry data from before the save.
Saved(cs) == Without(cs, "budget")

\* The save returned the view of the month on the screen.
SaveDone(i) ==
  /\ Stage(i, "save", "done")
  /\ calls[i].month = month
  /\ calls' = Saved(RemoveAt(calls, i))
  /\ view' = calls[i].answer
  /\ budgetError' = FALSE
  /\ saving' = FALSE
  /\ doubted' = FALSE
  /\ UNCHANGED <<limit, month, catalog, acts, errors>>

\* (Mutant: after a switch of months the outdated fetch is not replaced.)
ElsewhereNothing(cs) == Saved(cs)

\* The budget that is fetched when a save has no view for this month.
Elsewhere(cs) == Refetch(Saved(cs), month)

\* The member has switched months meanwhile: the view is of the wrong one.  The
\* view kept may be of the month saved, from before the save, and it renders
\* again when the member goes back before another budget has arrived.
SaveElsewhere(i) ==
  /\ Stage(i, "save", "done")
  /\ calls[i].month # month
  /\ calls' = Elsewhere(RemoveAt(calls, i))
  /\ saving' = FALSE
  /\ doubted' = (doubted \/ view.month = calls[i].month)
  /\ UNCHANGED <<limit, month, view, budgetError, catalog, acts, errors>>

ClearDone(i) ==
  /\ Stage(i, "clear", "done")
  /\ calls' = Refetch(Saved(RemoveAt(calls, i)), month)
  /\ saving' = FALSE
  /\ UNCHANGED <<limit, month, view, budgetError, catalog, doubted, acts,
                 errors>>

\* A failed write may still have applied: the budget is fetched again.
Resynced(cs) == Refetch(cs, month)

WriteFailed(i) ==
  /\ calls[i].kind \in {"save", "clear"}
  /\ calls[i].stage = "failed"
  /\ calls' = Resynced(RemoveAt(calls, i))
  /\ saving' = FALSE
  /\ doubted' = TRUE
  /\ UNCHANGED <<limit, month, view, budgetError, catalog, acts, errors>>

BudgetNext ==
  \/ \E i \in DOMAIN calls :
       \/ ServeBudget(i) \/ ServeCatalog(i) \/ ServeSave(i) \/ ServeClear(i)
       \/ BudgetDone(i) \/ BudgetFailed(i) \/ CatalogDone(i) \/ CatalogFailed(i)
       \/ SaveDone(i) \/ SaveElsewhere(i) \/ ClearDone(i) \/ WriteFailed(i)
       \/ Lost(i) /\ UNCHANGED budgetVars
  \/ \E m \in Months : SwitchMonth(m)
  \/ \E cents \in Cents : Save(cents)
  \/ ClearLimit
  \/ Retry
=============================================================================
