-------------------------- MODULE TransactionsPage --------------------------
(***************************************************************************)
(* The transactions page (frontend/src/app/transactions/page.tsx): a page  *)
(* of the ledger under a filter, deletions, the CSV import wizard          *)
(* (components/CsvImportWizard.tsx) and the balances that are read again   *)
(* after every change (lib/accounts-context.tsx).                          *)
(*                                                                         *)
(* The form that creates and edits a transaction ends in afterMutation()   *)
(* as a deletion does and is left out, as are the columns of a file.       *)
(***************************************************************************)
EXTENDS Wire, FiniteSetsExt

CONSTANTS
  NumRows,        \* transactions there may be, numbered by date
  PageSize,       \* PAGE_SIZE
  Picked,         \* those a filter lets through
  Stock,          \* the ledgers there may be at first
  Files,          \* Files[f]: what the file f brings; nothing when it is refused
  MaxTableActs,   \* bound on what members do
  MaxWizards      \* bound on how often the wizard is opened

ASSUME TableAssumption ==
  /\ NumRows \in Nat
  /\ PageSize \in Nat \ {0}
  /\ Stock \subseteq SUBSET (1 .. NumRows)
  /\ \A f \in DOMAIN Files : Files[f] \subseteq 1 .. NumRows
  /\ None \notin DOMAIN Files

VARIABLES
  stored,        \* the household's transactions
  writes,        \* how many writes the server has carried out
  filter,        \* "all" or "picked"
  pageNo,        \* the page selected
  table,         \* the last answer applied
  tableError,    \* "Couldn't load transactions"
  tableLoading,  \* the first fetch is not over
  deleting,      \* the transaction the dialog asks about
  balances,      \* the write the accounts' balances are from
  accountsError, \* the accounts could not be read
  wizard,        \* the import wizard: which one, its step, file named, file read
  due,           \* history: the write the page owes the member
  overtaken,     \* history: an older answer replaced newer balances
  strayed,       \* history: a deletion left the page selected beyond the end, or
                 \* it was chosen by an answer that was not up to date
  crossed        \* history: two files were read at the same time

tableVars == <<stored, writes, filter, pageNo, table, tableError, tableLoading,
               deleting, balances, accountsError, wizard, due, overtaken,
               strayed, crossed>>

controls == <<filter, pageNo, strayed>>

Matching(f) == IF f = "all" THEN stored ELSE stored \cap Picked

Closed == [life |-> 0, step |-> "closed", named |-> None, file |-> None,
           submitting |-> FALSE]

GetTable(f, p) ==
  [kind |-> "table", stage |-> "sent", answer |-> None, filter |-> f, number |-> p]

TableInit ==
  /\ stored \in Stock
  /\ writes = 0
  /\ filter = "all" /\ pageNo = 1
  /\ table = [rows |-> {}, pages |-> 0, filter |-> None, number |-> 0, at |-> 0]
  /\ tableError = FALSE /\ tableLoading = TRUE
  /\ deleting = None
  /\ balances = 0 /\ accountsError = FALSE
  /\ wizard = Closed
  /\ due = 0
  /\ overtaken = FALSE /\ strayed = FALSE /\ crossed = FALSE

-----------------------------------------------------------------------------
(* The server.                                                             *)

\* findAll(): the page's slice, newest first, and how many pages there are.
Slice(f, p) ==
  LET rows == Matching(f)
      Newer(r) == Cardinality({s \in rows : s > r})
  IN  [rows |-> {r \in rows : Newer(r) \in (p - 1) * PageSize .. p * PageSize - 1},
       pages |-> (Cardinality(rows) + PageSize - 1) \div PageSize,
       filter |-> f, number |-> p, at |-> writes]

ServeTable(i) ==
  /\ Stage(i, "table", "sent")
  /\ Answered(i, Slice(calls[i].filter, calls[i].number))
  /\ UNCHANGED <<tableVars, acts, errors>>

\* listAccounts().
ServeAccounts(i) ==
  /\ Stage(i, "accounts", "sent")
  /\ Answered(i, writes)
  /\ UNCHANGED <<tableVars, acts, errors>>

\* The page selected does not exist.
Beyond ==
  pageNo # 1 /\ Cardinality(Matching(filter)) <= (pageNo - 1) * PageSize

StoredBecomes(rows) ==
  /\ stored' = rows
  /\ writes' = IF rows = stored THEN writes ELSE writes + 1
  /\ UNCHANGED <<filter, pageNo, table, tableError, tableLoading, deleting,
                 balances, accountsError, wizard, due, overtaken, crossed>>
  /\ strayed' = (strayed \/ Beyond')

\* remove(): 404 when it is gone.
ServeDelete(i) ==
  /\ Stage(i, "delete", "sent")
  /\ IF calls[i].row \in stored
     THEN StoredBecomes(stored \ {calls[i].row}) /\ Answered(i, writes')
     ELSE calls' = [calls EXCEPT ![i].stage = "failed"] /\ UNCHANGED tableVars
  /\ UNCHANGED <<acts, errors>>

\* importTransactions(): what is already stored is skipped.
ServeImport(i) ==
  /\ Stage(i, "import", "sent")
  /\ StoredBecomes(stored \cup Files[calls[i].file])
  /\ Answered(i, writes')
  /\ UNCHANGED <<acts, errors>>

\* Another member records or deletes a transaction.
RowElsewhere(r) ==
  /\ Act(MaxTableActs)
  /\ StoredBecomes(IF r \in stored THEN stored \ {r} ELSE stored \cup {r})
  /\ UNCHANGED <<calls, errors>>

-----------------------------------------------------------------------------
(* The table.                                                              *)

\* (Mutant: the previous fetch is not cancelled.)
CancelledNever(cs) == cs

\* The effect's cleanup.
Uncancelled(cs) == Without(cs, "table")

\* The effect runs again.
Fetch(cs, f, p) == Append(Uncancelled(cs), GetTable(f, p))

\* The dialog is modal.
Free == deleting = None

\* (Mutant: the page selected is kept.)
PageKept == pageNo

\* setPage(1)
FirstPage == 1

\* One of the filters is changed.
Select(f) ==
  /\ Free
  /\ f # filter
  /\ Act(MaxTableActs)
  /\ filter' = f /\ pageNo' = FirstPage
  /\ strayed' = FALSE
  /\ calls' = Fetch(calls, f, pageNo')
  /\ UNCHANGED <<stored, writes, table, tableError, tableLoading, deleting,
                 balances, accountsError, wizard, due, overtaken, crossed, errors>>

\* Previous and Next, offered by the answer on the screen, which need not be the
\* answer for what is selected now.
Turn(p) ==
  /\ Free
  /\ table.pages > 1
  /\ \/ p = pageNo - 1 /\ pageNo > 1
     \/ p = pageNo + 1 /\ table.number < table.pages
  /\ Act(MaxTableActs)
  /\ pageNo' = p
  /\ strayed' = (strayed \/ table.filter # filter \/ table.number # pageNo
                       \/ table.at # writes)
  /\ calls' = Fetch(calls, filter, p)
  /\ UNCHANGED <<stored, writes, filter, table, tableError, tableLoading, deleting,
                 balances, accountsError, wizard, due, overtaken, crossed, errors>>

AskDelete(r) ==
  /\ Free
  /\ ~tableLoading /\ ~tableError
  /\ r \in table.rows
  /\ deleting' = r
  /\ UNCHANGED <<stored, writes, controls, table, tableError, tableLoading,
                 balances, accountsError, wizard, due, overtaken, crossed,
                 calls, acts, errors>>

CancelDelete ==
  /\ ~Free
  /\ deleting' = None
  /\ UNCHANGED <<stored, writes, controls, table, tableError, tableLoading,
                 balances, accountsError, wizard, due, overtaken, crossed,
                 calls, acts, errors>>

\* handleDelete(): the dialog stays, and with it its button, until the answer.
ConfirmDelete ==
  /\ ~Free
  /\ Act(MaxTableActs)
  /\ calls' = Append(calls, [kind |-> "delete", stage |-> "sent", answer |-> None, row |-> deleting])
  /\ UNCHANGED <<tableVars, errors>>

-----------------------------------------------------------------------------
(* The wizard.                                                             *)

Step(step) == wizard' = [wizard EXCEPT !.step = step]

Elsewise == UNCHANGED <<stored, writes, controls, table, tableError, tableLoading,
                        deleting, balances, accountsError, due, overtaken>>

OpenWizard ==
  /\ Free
  /\ wizard.step = "closed"
  /\ wizard.life < MaxWizards
  /\ wizard' = [Closed EXCEPT !.life = wizard.life + 1, !.step = "upload"]
  /\ UNCHANGED crossed
  /\ Elsewise /\ UNCHANGED <<calls, acts, errors>>

\* handleFile(): named at once, read by a FileReader that takes its time.
ChooseFile(f) ==
  /\ Free
  /\ wizard.step = "upload"
  /\ Act(MaxTableActs)
  /\ wizard' = [wizard EXCEPT !.named = f]
  /\ calls' = Append(calls, [kind |-> "file", stage |-> "sent", answer |-> None,
                             file |-> f, life |-> wizard.life])
  /\ crossed' = (crossed \/ \E i \in DOMAIN calls : calls[i].kind = "file")
  /\ Elsewise /\ UNCHANGED errors

\* Preview, Back and Back; Cancel and Done.
Walk ==
  /\ Free
  /\ \/ wizard.step = "map" /\ Step("preview")
     \/ wizard.step = "preview" /\ Step("map")
     \/ wizard.step = "map" /\ Step("upload")
     \/ wizard.step \in {"upload", "result"}
        /\ wizard' = [Closed EXCEPT !.life = wizard.life]
  /\ UNCHANGED crossed
  /\ Elsewise /\ UNCHANGED <<calls, acts, errors>>

\* handleCommit().
Commit ==
  /\ Free
  /\ wizard.step = "preview"
  /\ ~wizard.submitting
  /\ Act(MaxTableActs)
  /\ wizard' = [wizard EXCEPT !.submitting = TRUE]
  /\ calls' = Append(calls, [kind |-> "import", stage |-> "sent", answer |-> None,
                             file |-> wizard.file, named |-> wizard.named,
                             life |-> wizard.life])
  /\ UNCHANGED crossed
  /\ Elsewise /\ UNCHANGED errors

-----------------------------------------------------------------------------
(* The handlers that run when a call is over.                              *)

TableDone(i) ==
  /\ Stage(i, "table", "done")
  /\ Handled(i, <<>>)
  /\ table' = calls[i].answer
  /\ tableError' = FALSE /\ tableLoading' = FALSE
  /\ UNCHANGED <<stored, writes, controls, deleting, balances, accountsError,
                 wizard, due, overtaken, crossed, acts, errors>>

TableFailed(i) ==
  /\ Stage(i, "table", "failed")
  /\ Handled(i, <<>>)
  /\ tableError' = TRUE /\ tableLoading' = FALSE
  /\ UNCHANGED <<stored, writes, controls, table, deleting, balances,
                 accountsError, wizard, due, overtaken, crossed, acts, errors>>

\* refresh(): whatever arrives is applied, in the order of arrival.
AccountsDone(i) ==
  LET c == calls[i] IN
  /\ Stage(i, "accounts", "done")
  /\ Handled(i, <<>>)
  /\ balances' = c.answer
  /\ overtaken' = (c.answer < balances \/ (overtaken /\ c.answer < due))
  /\ UNCHANGED <<stored, writes, controls, table, tableError, tableLoading,
                 deleting, accountsError, wizard, due, crossed, acts, errors>>

\* The last known balances are kept, with a banner.
AccountsFailed(i) ==
  /\ Stage(i, "accounts", "failed")
  /\ Handled(i, <<>>)
  /\ accountsError' = TRUE
  /\ UNCHANGED <<stored, writes, controls, table, tableError, tableLoading,
                 deleting, balances, wizard, due, overtaken, crossed, acts, errors>>

\* (Mutant: the balances are left as they are.)
ListOnly(cs) == Fetch(cs, filter, pageNo)

\* afterMutation(): the list and the balances are read again.
AfterMutation(cs) == Append(Fetch(cs, filter, pageNo), Sending("accounts"))

\* A deletion or an import has succeeded.
Mutated(i) ==
  /\ calls' = AfterMutation(RemoveAt(calls, i))
  /\ due' = IF due < calls[i].answer THEN calls[i].answer ELSE due
  /\ accountsError' = FALSE
  /\ UNCHANGED <<stored, writes, controls, table, tableError, tableLoading,
                 balances, overtaken, crossed, acts, errors>>

DeleteDone(i) ==
  /\ Stage(i, "delete", "done")
  /\ Mutated(i)
  /\ deleting' = None
  /\ UNCHANGED wizard

\* A toast; nothing is read again.
DeleteFailed(i) ==
  /\ Stage(i, "delete", "failed")
  /\ Handled(i, <<>>)
  /\ UNCHANGED <<tableVars, acts, errors>>

\* What a wizard does when it may have been closed: nothing reaches the screen.
InWizard(life, w) == wizard' = IF wizard.life = life /\ wizard.step # "closed" THEN w ELSE wizard

\* (Mutant: a file that is refused goes on to the next step.)
AcceptedAlways(f) == TRUE

\* A file without columns or rows, or with too many, is refused.
Accepted(f) == Files[f] # {}

FileRead(i) ==
  LET c == calls[i] IN
  /\ c.kind = "file"
  /\ Handled(i, <<>>)
  /\ InWizard(c.life,
       IF c.stage = "failed" \/ ~Accepted(c.file) THEN wizard
       ELSE [wizard EXCEPT !.step = "map",
                           !.file = IF Files[c.file] # {} THEN c.file ELSE @])
  /\ UNCHANGED crossed
  /\ Elsewise /\ UNCHANGED <<acts, errors>>

ImportDone(i) ==
  /\ Stage(i, "import", "done")
  /\ Mutated(i)
  /\ InWizard(calls[i].life, [wizard EXCEPT !.step = "result", !.submitting = FALSE])
  /\ UNCHANGED deleting

ImportFailed(i) ==
  /\ Stage(i, "import", "failed")
  /\ Handled(i, <<>>)
  /\ InWizard(calls[i].life, [wizard EXCEPT !.submitting = FALSE])
  /\ UNCHANGED crossed
  /\ Elsewise /\ UNCHANGED <<acts, errors>>

TableNext ==
  \/ \E i \in DOMAIN calls :
       \/ ServeTable(i) \/ ServeAccounts(i) \/ ServeDelete(i) \/ ServeImport(i)
       \/ TableDone(i) \/ TableFailed(i) \/ AccountsDone(i) \/ AccountsFailed(i)
       \/ DeleteDone(i) \/ DeleteFailed(i)
       \/ FileRead(i) \/ ImportDone(i) \/ ImportFailed(i)
       \/ Lost(i) /\ UNCHANGED tableVars
  \/ \E r \in 1 .. NumRows : RowElsewhere(r) \/ AskDelete(r)
  \/ \E f \in {"all", "picked"} : Select(f)
  \/ \E p \in 1 .. NumRows : Turn(p)
  \/ \E f \in DOMAIN Files : ChooseFile(f)
  \/ CancelDelete \/ ConfirmDelete
  \/ OpenWizard \/ Walk \/ Commit
=============================================================================
