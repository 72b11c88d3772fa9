---------------------------- MODULE ReportsPage -----------------------------
(***************************************************************************)
(* A section of the reports page (frontend/src/app/reports/page.tsx) and   *)
(* its useReport(): a fetch per range, while the household's ledger goes   *)
(* on changing.                                                            *)
(***************************************************************************)
EXTENDS Wire, Reports

CONSTANTS
  Span,          \* the months that can be chosen are 1..Span
  Entries,       \* the transactions a ledger may hold, amounts aside
  Amounts,       \* the amount of the first, of the second, ...
  NumEntries,    \* bound on the length of the ledger
  MaxEdits       \* bound on edits of the range

ASSUME LedgerAssumption ==
  /\ Span \in Nat \ {0}
  /\ NumEntries \in Nat
  /\ Amounts \in [1 .. NumEntries -> Nat]
  /\ \A t \in Entries :
       /\ t.type \in {"income", "expense", "transfer"}
       /\ t.month \in 1 .. Span
       /\ t.account \in Holdings
       /\ t.type = "transfer" => t.to \in Holdings

VARIABLES
  ledger,    \* the household's transactions
  range,     \* the last valid range: <<from, to>>
  report     \* useReport's state: key, data, error

reportVars == <<ledger, range, report>>

\* validateRange(): from is not after to.
Ranges == {r \in (1 .. Span) \X (1 .. Span) : r[1] <= r[2]}

GetReport(r) ==
  [kind |-> "report", stage |-> "sent", answer |-> None, range |-> r]

ReportsInit ==
  /\ ledger = <<>>
  /\ range = <<1, Span>>
  /\ report = [key |-> None, data |-> None, error |-> FALSE]

-----------------------------------------------------------------------------
\* A member of the household records a transaction.
Record(t) ==
  /\ Len(ledger) < NumEntries
  /\ ledger' = Append(ledger,
       [type |-> t.type, month |-> t.month, account |-> t.account, to |-> t.to,
        category |-> t.category, amount |-> Amounts[Len(ledger) + 1]])
  /\ UNCHANGED <<range, report, calls, acts, errors>>

\* getCashFlow(), getNetWorth(): read-only, the answer is the figures of the
\* range for the ledger as it is (its length stands for it).
ServeReport(i) ==
  /\ Stage(i, "report", "sent")
  /\ Answered(i, Len(ledger))
  /\ UNCHANGED <<reportVars, acts, errors>>

\* The effect's cleanup: the answer of the previous fetch will be ignored.
Cancelled == Without(calls, "report")

\* updateRange(): a valid edit of one of the two months; an invalid one leaves
\* the range alone.  The key changes and useReport's effect runs again.
ChooseRange(r) ==
  /\ r \in Ranges
  /\ r # range
  /\ r[1] = range[1] \/ r[2] = range[2]
  /\ Act(MaxEdits)
  /\ range' = r
  /\ calls' = Append(Cancelled, GetReport(r))
  /\ UNCHANGED <<ledger, report, errors>>

ReportDone(i) ==
  /\ Stage(i, "report", "done")
  /\ Handled(i, <<>>)
  /\ report' = [key |-> calls[i].range, data |-> calls[i].answer,
                error |-> FALSE]
  /\ UNCHANGED <<ledger, range, acts, errors>>

ReportFailed(i) ==
  /\ Stage(i, "report", "failed")
  /\ Handled(i, <<>>)
  /\ report' = [key |-> calls[i].range, data |-> None, error |-> TRUE]
  /\ UNCHANGED <<ledger, range, acts, errors>>

\* What useReport() returns: the state of another key reads as loading.
Loading == report.key # range

ReportsNext ==
  \/ \E i \in DOMAIN calls :
       \/ ServeReport(i) \/ ReportDone(i) \/ ReportFailed(i)
       \/ Lost(i) /\ UNCHANGED reportVars
  \/ \E t \in Entries : Record(t)
  \/ \E r \in Ranges : ChooseRange(r)
=============================================================================
