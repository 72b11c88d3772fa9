-------------------------------- MODULE Pages -------------------------------
(***************************************************************************)
(* The web app's pages: a tab shows one of them at a time.  Leaving a page *)
(* unmounts it, after which no answer reaches the screen, so a behaviour   *)
(* is the life of one page from its mount, `page` saying which.            *)
(***************************************************************************)
EXTENDS CategoriesPage, BudgetPage, ReportsPage, Bell, TransactionsPage

CONSTANT Openable   \* the pages a tab may open

ASSUME PagesAssumption ==
  Openable \subseteq {"categories", "budget", "reports", "bell", "transactions"}

VARIABLE page

wireVars == <<calls, acts, errors>>

vars == <<page, wireVars, listVars, budgetVars, reportVars, bellVars, tableVars>>

\* The fetches every page starts when it is mounted.
Mount ==
  CASE page = "categories" -> <<Refresh("load")>>
    [] page = "budget" -> <<Sending("catalog"), GetBudget(month)>>
    [] page = "reports" -> <<GetReport(range)>>
    [] page = "bell" -> Calling(<<>>, "count", None)
    [] page = "transactions" -> <<GetTable("all", 1)>>

\* The state of the pages that are not open never changes: one value of each.
Untouched ==
  /\ page # "categories" =>
       [order |-> order, archived |-> archived] = CHOOSE list \in Lists : TRUE
  /\ page # "budget" => limit = [m \in Months |-> NoLimit]
  /\ page # "bell" => inbox = [n \in Notices |-> "none"]
  /\ page # "transactions" => stored = Picked

Init ==
  /\ page \in Openable
  /\ acts = 0 /\ errors = 0
  /\ ListInit /\ BudgetInit /\ ReportsInit /\ BellInit /\ TableInit
  /\ Untouched
  /\ calls = Mount

Next ==
  /\ UNCHANGED page
  /\ \/ page = "categories" /\ ListNext
        /\ UNCHANGED <<budgetVars, reportVars, bellVars, tableVars>>
     \/ page = "budget" /\ BudgetNext
        /\ UNCHANGED <<listVars, reportVars, bellVars, tableVars>>
     \/ page = "reports" /\ ReportsNext
        /\ UNCHANGED <<listVars, budgetVars, bellVars, tableVars>>
     \/ page = "bell" /\ BellNext
        /\ UNCHANGED <<listVars, budgetVars, reportVars, tableVars>>
     \/ page = "transactions" /\ TableNext
        /\ UNCHANGED <<listVars, budgetVars, reportVars, bellVars>>

Spec == Init /\ [][Next]_vars

-----------------------------------------------------------------------------
(* Properties.                                                             *)

Kinds == {"refresh", "archive", "reorder", "budget", "catalog", "save",
          "clear", "report", "count", "notices", "read", "readAll", "dismiss",
          "table", "accounts", "delete", "file", "import"}

\* Type invariant.
TypeOK ==
  /\ order \in [Categories -> 0 .. NumCategories]
  /\ archived \subseteq Categories
  /\ shown.archived \subseteq Categories
  /\ shown.at <= version /\ owed <= version
  /\ limit \in [Months -> {NoLimit} \cup Cents]
  /\ month \in Months
  /\ range \in Ranges
  /\ inbox \in [Notices -> {"none", "unread", "read", "gone"}]
  /\ marked \subseteq listed /\ listed \subseteq Notices
  /\ stored \subseteq 1 .. NumRows /\ table.rows \subseteq 1 .. NumRows
  /\ wizard.step \in {"closed", "upload", "map", "preview", "result"}
  /\ wizard.step \in {"map", "preview"} =>
       wizard.file # None /\ Files[wizard.file] # {}
  /\ \A i \in DOMAIN calls : /\ calls[i].kind \in Kinds
                             /\ calls[i].stage \in {"sent", "done", "failed"}

\* No call is on the wire: nothing more will happen by itself.
AtRest == calls = <<>>

\* "A reorder response snapshotted before a newer refresh is stale and must not
\* overwrite it": once the categories page is at rest it shows a list at least
\* as new as everything it reported as done, and as whatever a failed move left
\* behind.  The exception is a refresh overtaken by a newer list, which nothing
\* in the page recognises.
ListSettles ==
  AtRest /\ page = "categories" => tangled \/ shown.at >= owed

\* The pairs of categories whose relative order in the stored list changes.
Swapped ==
  {pair \in SUBSET Categories : \E c, d \in pair :
     c # d /\ pair = {c, d} /\ Before(order, c, d) /\ Before(order', d, c)}

\* "Concurrent moves would both compute their swap from the same stale order":
\* a move that started from the stored order makes the one exchange the member
\* asked for among the categories it lists, whatever else is on the wire.
MovesOnePair ==
  [][\A i \in DOMAIN calls :
       ServeReorder(i) /\ calls[i].honest
         => {p \in Swapped : p \subseteq ToSet(calls[i].ids)}
              = {calls[i].pair}]_vars

\* Once the budget page is at rest and shows no error, the limit on the screen
\* is the stored one, whichever saves failed, were overtaken by a switch of
\* months or crossed a fetch.
BudgetSettles ==
  AtRest /\ page = "budget" /\ Ready /\ ~budgetError
    => view.planned = Planned(month)

\* "An empty save on a $0 row is a no-op, never a destructive delete of a
\* deliberate zero limit": true unless the screen showed a budget from before
\* the member's last write, one that failed or whose answer came when another
\* month was selected.
ZeroIsKept ==
  [][\A i \in DOMAIN calls :
       ServeClear(i) /\ ~calls[i].warned => limit[calls[i].month] # 0]_vars

\* A page never waits for an answer that cannot come: at rest its buttons are
\* enabled again and it shows data, or an error that offers a way on.
NeverStuck ==
  AtRest =>
    CASE page = "categories" -> ~reordering /\ ~loading
      [] page = "budget" -> ~saving /\ (Ready \/ budgetError \/ catalog = "error")
      [] page = "reports" -> ~Loading
      [] page = "bell" -> ~fetching
      [] page = "transactions" -> ~tableLoading /\ ~wizard.submitting

\* Once the bell is at rest the badge counts the household's unread reminders,
\* and the list holds reminders that exist, read and unread as they are: as far as
\* they come from calls that met no other one, which the bell has no means to
\* notice, none of which failed after a click, and nobody else has changed the
\* reminders since.
BellSettles ==
  AtRest /\ page = "bell" =>
    /\ countSound => badge = Cardinality(Unread)
    /\ listSound => listed \subseteq Present /\ marked = listed \ Unread

\* Once the transactions page is at rest and shows no error, the rows on the
\* screen answer the filters and the page that are selected, whichever fetches
\* were slow.
ListMatchesControls ==
  AtRest /\ page = "transactions" /\ ~tableError =>
    table.filter = filter /\ table.number = pageNo

\* "Balances changed on every account the mutation touched": a page at rest shows
\* rows and balances from after every deletion and import it reported as done,
\* unless it shows an error or an older answer replaced newer balances.
MutationShows ==
  AtRest /\ page = "transactions" =>
    /\ tableError \/ table.at >= due
    /\ accountsError \/ overtaken \/ balances >= due

\* "No transactions found.": an empty list that is up to date means that there are
\* none, unless since the filters were chosen a deletion left the page selected
\* beyond the end, or the page was chosen by what an older answer, or one for other
\* controls, said.
EmptyMeansNone ==
  AtRest /\ page = "transactions" /\ ~tableError /\ table.at = writes =>
    table.rows # {} \/ Matching(filter) = {} \/ strayed

\* An import that is sent carries the file whose name the wizard displays, unless
\* two files were being read at the same time.
ImportsWhatItNames ==
  \A i \in DOMAIN calls :
    calls[i].kind = "import" => crossed \/ calls[i].named = calls[i].file

-----------------------------------------------------------------------------
(* Properties of the figures, over every ledger that can be recorded (each  *)
(* also occurs at rest, where they are evaluated).                         *)

Flow == CashFlow(ledger, 1, Span)

\* From one month to the next net worth grows by the net cash flow: transfers
\* between the household's accounts cancel out.  An account that first appears
\* brings its opening balance with it.
FlowExplainsWorth ==
  AtRest /\ page = "reports" =>
    LET worth == NetWorth(ledger, 1, Span) IN
    \A m \in 2 .. Span :
      worth[m].worth - worth[m - 1].worth
        = Flow[m].net + MapThenSumSet(LAMBDA a : Opening[a],
                          worth[m].accounts \ worth[m - 1].accounts)

\* The last month of a report does not depend on where the range begins, and is
\* what the balances of its accounts come to at that month's end.
RangeIndependent ==
  AtRest /\ page = "reports" =>
    \A r \in Ranges : NetWorth(ledger, r[1], r[2])[r[2]]
                        = NetWorth(ledger, 1, r[2])[r[2]]

\* "The rows plus uncategorizedCents always add up to totalCents", the total is
\* the cash flow's expense, and the budget view's actual is the rows' share.
SpendingAddsUp ==
  AtRest /\ page = "reports" =>
    \A m \in 1 .. Span :
      LET spent == SpendingReport(ledger, m)
          rows == MapThenSumSet(LAMBDA c : spent.actual[c], Spending)
      IN  /\ rows + spent.uncategorized = spent.total
          /\ spent.total = Flow[m].expense
          /\ BudgetView(ledger, m).actual = rows

\* At rest every page shows what is stored and what its controls select.
ScreenSettles ==
  /\ ListSettles /\ BudgetSettles /\ BellSettles
  /\ ListMatchesControls /\ MutationShows /\ EmptyMeansNone

\* What is on the wire is what the member asked for.
CallsSound == TypeOK /\ ImportsWhatItNames

\* The reports of one household agree with each other and with themselves.
ReportsAgree == FlowExplainsWorth /\ RangeIndependent /\ SpendingAddsUp

\* A write changes what the member meant it to change: one exchange of two
\* neighbours, never a limit of zero by an empty field.
WritesAsMeant == MovesOnePair /\ ZeroIsKept

=============================================================================
