------------------------------ MODULE Savings ------------------------------
(***************************************************************************)
(* Bank files and goals over the same accounts: an upload moves a balance  *)
(* in one late step, a goal reads the balance it is linked at some steps   *)
(* before it writes.                                                       *)
(***************************************************************************)
EXTENDS Imports, Goals

vars == <<books, progress, request, amid, failures>>

Init ==
  /\ request = [p \in Requests |-> Idle]
  /\ amid = [p \in Requests |-> {}]
  /\ failures = 0
  /\ base = [a \in Accounts |-> 0]
  /\ balance = base
  /\ opening \in [Accounts -> {0, Unset}]
  /\ archived = [a \in Accounts |-> FALSE]
  /\ rows = {}
  /\ drifted = {}
  /\ goals \in [1 .. NumGoals -> NewGoals \cup {NoGoal}]
  /\ owed = [g \in 1 .. NumGoals |-> 0]
  /\ stale = {}
  /\ mixed = {}

BookRequest(p) ==
  \/ \E a \in Accounts, k \in Keys : Enter(p, a, k)
  \/ \E r \in rows : Erase(p, r)
  \/ \E a \in Accounts : Archive(p, a) \/ BeginAnchor(p, a)
  \/ \E a \in Accounts, file \in Files : BeginImport(p, a, file)

BookStep(p) ==
  \/ AnchorSum(p) \/ AnchorStamp(p)
  \/ Dedupe(p) \/ InsertRow(p) \/ LoseRow(p) \/ ApplyImport(p) \/ ImportDies(p)

GoalRequest(p) ==
  \/ \E type \in Types, a \in Accounts \cup {NoAccount} : BeginCreateGoal(p, type, a)
  \/ \E g \in 1 .. NumGoals, type \in Types \cup {None}, a \in Accounts \cup {NoAccount} :
       BeginUpdateGoal(p, g, type, a)
  \/ \E g \in 1 .. NumGoals, x \in Gifts : Contribute(p, g, x)
  \/ \E g \in 1 .. NumGoals : RemoveGoal(p, g)

GoalStep(p) ==
  \/ CreateGoal(p)
  \/ ReadNew(p) \/ ReadOld(p) \/ Relink(p) \/ SaveGoal(p)
  \/ ContributeLook(p) \/ ContributeAgain(p)

Next ==
  \E p \in Requests :
    \/ Fresh(p) /\ BookRequest(p) /\ Follow /\ UNCHANGED <<goals, stale, mixed>>
    \/ Active(p) /\ BookStep(p) /\ Follow /\ UNCHANGED <<goals, stale, mixed>>
    \/ Fresh(p) /\ GoalRequest(p)
    \/ Active(p) /\ GoalStep(p)

Spec == Init /\ [][Next]_vars

-----------------------------------------------------------------------------
\* Types of the stored documents.
TypeOK ==
  /\ balance \in [Accounts -> Int]
  /\ opening \in [Accounts -> Int \cup {Unset}]
  /\ \A r \in rows : r.account \in Accounts /\ r.key \in Keys /\ r.by \in Requests
  /\ \A g \in 1 .. NumGoals :
       /\ goals[g].account \in Accounts \cup {NoAccount}
       /\ goals[g].type \in Types \cup {None}
       /\ ~Linked(goals[g]) => goals[g].baseline = 0

\* What of the rows stored on an account its balance has still to count.
Pending(a) ==
  LET importing == {p \in Requests : request[p].op = "import" /\ request[p].id = a}
  IN  MapThenSumSet(LAMBDA p : request[p].cursor, importing)

\* The balance counts exactly the rows that landed, however many of a batch did
\* not: never the rows that were meant to.  But for a $inc that was lost.
BalanceIsLedger ==
  \A a \in Accounts \ drifted :
    balance[a] + Pending(a) = base[a] + Sum(RowsOf(a))

\* The anchor a boot gives an account is what it held before its ledger, when no
\* write to its ledger overlapped with the boot; and no later boot spoils it.
AnchorSound ==
  [][\A p \in Requests :
      At(p, "anchor", "stamp") /\ request'[p].op = "done" =>
        LET a == request[p].id
            clean == amid[p] \cap [op : {"done", "import"}, id : {a}] = {}
        IN  \/ opening[a] = base[a]
            \/ opening[a] = Unset /\ clean /\ a \notin drifted
            => opening'[a] = base[a]]_vars

\* No key is imported twice to an account by uploads one after the other, nor
\* twice from one file.
ImportedOnce ==
  \A r, s \in {r \in rows : r.row # 0} :
    r.account = s.account /\ r.key = s.key /\ ~r.torn /\ ~s.torn => r = s

\* An upload leaves out nothing: at its end every row of the file that could be
\* read is stored, or the member was told, or it was deleted meanwhile.
LeavesNothingOut ==
  [][\A p \in Requests :
      At(p, "import", "insert") /\ request'[p].op = "done" /\ failures' = failures
                                /\ ~request[p].found /\ amid[p] = {} =>
        \A n \in DOMAIN request[p].wanted :
          \/ request[p].wanted[n] = Bad
          \/ \E r \in RowsOf(request[p].id) : r.key = request[p].wanted[n]]_vars

\* The progress of a goal is what was contributed to it and what its account has
\* moved by since it was linked, whatever links, relinks and contributions
\* overlapped, as long as what a link read of the account and of the baseline was
\* still so when it wrote.
ProgressKept ==
  \A g \in 1 .. NumGoals :
    Live(goals, g) /\ g \notin stale => Progress(goals[g]) = owed[g]

\* A savings goal tracks an asset account and a debt goal a debt, unless type and
\* account were changed at the same time.
AccountFits ==
  \A g \in 1 .. NumGoals :
    Live(goals, g) /\ Linked(goals[g]) /\ g \notin mixed
      => goals[g].account \in Fits[goals[g].type]

\* Imported rows and balances: each row once, each row counted once.
ImportsHold == TypeOK /\ BalanceIsLedger /\ ImportedOnce

\* Goals and the accounts they track.
GoalsHold == ProgressKept /\ AccountFits

=============================================================================
