------------------------------- MODULE Ledger -------------------------------
(***************************************************************************)
(* The transaction ledger and the cached account balances it feeds         *)
(* (transactions.service.ts, accounts.service.ts), together with the       *)
(* reconciliation that re-derives a balance from the ledger                *)
(* (reconciliation.service.ts).                                            *)
(*                                                                         *)
(* MongoDB gives single-document atomicity only and the services use no    *)
(* multi-document transaction.  A write request is therefore a sequence of *)
(* database operations other requests interleave with: read the row, save  *)
(* or delete it, then one $inc per affected account ("leg").               *)
(*                                                                         *)
(* Validation that rejects a request before its first write leaves no      *)
(* trace and is abstracted to Abort or to the choice of a valid row.       *)
(***************************************************************************)
EXTENDS LedgerRows, FiniteSets

CONSTANTS
  NumRequests,   \* write requests are numbered 1..NumRequests, each runs once
  Reconcilers,   \* concurrent reconciliation runs: weekly sweep, ops run
  MaxFailures,   \* bound on failures: a $inc that throws, a crash, an abort
  SerialEdits    \* TRUE: no request starts on a row another one is editing

ASSUME LedgerAssumption ==
  /\ NumRequests \in Nat
  /\ MaxFailures \in Nat
  /\ SerialEdits \in BOOLEAN

Requests == 1 .. NumRequests

VARIABLES
  balance,    \* balance[a]: the cached balanceCents
  opening,    \* opening[a]: the immutable openingBalanceCents
  rows,       \* rows[t]: the stored transaction document
  request,    \* request[r]: the progress of one HTTP write request
  sweep,      \* sweep[k]: the progress of one reconciliation run
  failures,   \* number of failures so far
  race,       \* history: race[k][a], the writes sweep k has raced with on a
  tainted     \* history: accounts whose books an anomaly may have disturbed

vars == <<balance, opening, rows, request, sweep, failures, race, tainted>>

-----------------------------------------------------------------------------
(* What a row does to balances: the write path and the aggregation.        *)

\* balanceDeltas(): the leg at the row's own account.
SourceDelta(row) ==
  IF row.type = "income" THEN row.amount
  ELSE IF row.type \in {"expense", "transfer"} THEN -row.amount
  ELSE 0

\* syncBalances(reverse, apply): undo the old row's legs, source first, then
\* apply the new row's.  Legs are numbered in the order they are issued.
LegsOf(row, first) ==
  IF row.type = "none" THEN {}
  ELSE IF row.type = "transfer" THEN {first, first + 1} ELSE {first}


\* (Mutant: the old row's legs are not undone.)
LegsWithoutReversal(before, after) == LegsOf(after, 3)

Legs(before, after) == LegsOf(before, 1) \cup LegsOf(after, 3)

LegRow(q, leg) == IF leg \in {1, 2} THEN q.before ELSE q.after

LegAccount(q, leg) ==
  IF leg \in {1, 3} THEN LegRow(q, leg).account
  ELSE LegRow(q, leg).transferAccount

\* (Mutant: the old row's legs are applied again instead of undone.)
LegDeltaSameSign(q, leg) ==
  IF leg \in {1, 3} THEN SourceDelta(LegRow(q, leg)) ELSE LegRow(q, leg).amount

LegDelta(q, leg) ==
  LET effect == IF leg \in {1, 3} THEN SourceDelta(LegRow(q, leg))
                ELSE LegRow(q, leg).amount
  IN  IF leg \in {1, 2} THEN -effect ELSE effect

LedgerSum(a) == LedgerTotal(rows, a)

\* The balance effect request r has persisted in the ledger and not yet issued.
PendingLeg(q, leg, a) ==
  IF leg \in q.legs /\ LegAccount(q, leg) = a THEN LegDelta(q, leg) ELSE 0

Pending(q, a) == PendingLeg(q, 1, a) + PendingLeg(q, 2, a)
                 + PendingLeg(q, 3, a) + PendingLeg(q, 4, a)

InFlight(a) == SumTo(NumRequests, [r \in Requests |-> Pending(request[r], a)])

\* The accounts whose balance request q has still to adjust.
Touched(q) == {LegAccount(q, leg) : leg \in q.legs}

Busy(a) == \E r \in Requests : a \in Touched(request[r])

-----------------------------------------------------------------------------
(* The initial state, and the anomalies the history variables record.      *)

\* Everything a request or a sweep holds in memory.
Unread == [pc |-> "new", row |-> 0, before |-> NoRow, after |-> NoRow,
           legs |-> {}]

Zero == [a \in Accounts |-> 0]

IdleSweep == [phase |-> "idle", todo |-> {}, seen |-> Zero, sums |-> Zero]

NoRace == [a \in Accounts |-> "none"]

Init ==
  /\ opening \in [Accounts -> Openings]
  /\ rows \in [Rows -> Stock]
  /\ balance = [a \in Accounts |-> opening[a] + LedgerSum(a)]
  /\ request = [r \in Requests |-> Unread]
  /\ sweep = [k \in Reconcilers |-> IdleSweep]
  /\ failures = 0
  /\ race = [k \in Reconcilers |-> NoRace]
  /\ tainted = {}

\* How much of an account's write traffic a sweep has raced with since its scan:
\* "none", "one" or "several" writes persisted after the scan, or "blurred" when
\* a write was half done (row stored, $inc outstanding) at the scan or at the
\* aggregation, or an anomaly struck the account meanwhile.
More(level) ==
  IF level = "none" THEN "one"
  ELSE IF level = "blurred" THEN "blurred" ELSE "several"

Underway(k) == sweep[k].phase # "idle"

Noted(written) ==
  [k \in Reconcilers |-> [a \in Accounts |->
     IF a \in written /\ Underway(k) THEN More(race[k][a]) ELSE race[k][a]]]

Blurred(spoiled) ==
  [k \in Reconcilers |-> [a \in Accounts |->
     IF a \in spoiled /\ Underway(k) THEN "blurred" ELSE race[k][a]]]

AccountsOf(row) == {row.account, row.transferAccount} \ {NoAccount}

-----------------------------------------------------------------------------
(* Write requests.                                                         *)

\* Request q moved on: only its progress changes.
Moved(q, pc, legs) ==
  [pc |-> pc, row |-> q.row, before |-> q.before, after |-> q.after,
   legs |-> legs]

\* Row t is free for a new edit under the SerialEdits assumption.
Editable(t) ==
  SerialEdits => \A r \in Requests :
                   request[r].row = t => request[r].pc \notin {"read", "sync"}

\* create(): the row is inserted in one write; its $incs follow.
Create(r, t, row) ==
  /\ request[r].pc = "new"
  /\ rows[t].type = "none"
  /\ \A u \in Rows : u < t => rows[u].type # "none"
  /\ rows' = [rows EXCEPT ![t] = row]
  /\ request' = [request EXCEPT ![r] =
       [pc |-> "sync", row |-> t, before |-> NoRow, after |-> row,
        legs |-> Legs(NoRow, row)]]
  /\ race' = Noted(AccountsOf(row))
  /\ UNCHANGED <<balance, opening, sweep, failures, tainted>>

\* update() and remove() read the row first (findOne, fromDocument): `before`.
\* `after` is the merged, normalized row of an update, NoRow for a remove.
Read(r, t, after) ==
  /\ request[r].pc = "new"
  /\ rows[t].type \in Kinds
  /\ Editable(t)
  /\ request' = [request EXCEPT ![r] =
       [pc |-> "read", row |-> t, before |-> rows[t], after |-> after,
        legs |-> {}]]
  /\ UNCHANGED <<balance, opening, rows, sweep, failures, race, tainted>>

\* A request is rejected, or its process dies, before it writes anything.
Abort(r) ==
  /\ request[r].pc = "read"
  /\ request' = [request EXCEPT ![r] = Moved(@, "failed", {})]
  /\ UNCHANGED <<balance, opening, rows, sweep, failures, race, tainted>>

\* (Mutant: what an edit stores is the effect on the balance, not the amount.)
PatchedSigned(current, before, after) ==
  [after EXCEPT !.amount = SourceDelta(after)]

\* Mongoose's save() writes only the paths changed since the document was read.
Patched(current, before, after) ==
  [type |-> IF after.type # before.type THEN after.type ELSE current.type,
   amount |-> IF after.amount # before.amount
              THEN after.amount ELSE current.amount,
   account |-> IF after.account # before.account
               THEN after.account ELSE current.account,
   transferAccount |-> IF after.transferAccount # before.transferAccount
                       THEN after.transferAccount ELSE current.transferAccount]

\* Row q.row becomes `stored`.  Nothing checks that the row is still the one the
\* request read; when it is not, the books of every account involved are suspect.
Persist(r, stored) ==
  LET q == request[r]
      current == rows[q.row]
      involved == UNION {AccountsOf(row) : row \in
                           {q.before, q.after, current, stored}}
  IN  /\ rows' = [rows EXCEPT ![q.row] = stored]
      /\ request' = [request EXCEPT
                       ![r] = Moved(q, "sync", Legs(q.before, q.after))]
      /\ IF current = q.before
         THEN race' = Noted(involved) /\ UNCHANGED tainted
         ELSE race' = Blurred(involved) /\ tainted' = tainted \cup involved
      /\ UNCHANGED <<balance, opening, sweep, failures>>

\* update(): existing.save(); the pending reversal is the one of `before`.
SaveUpdate(r) ==
  LET q == request[r] IN
  /\ q.pc = "read"
  /\ q.after.type # "none"
  /\ rows[q.row].type # "deleted"
  /\ Persist(r, Patched(rows[q.row], q.before, q.after))

\* update() of a row deleted meanwhile: save() finds no document and throws.
SaveMissing(r) ==
  /\ request[r].pc = "read"
  /\ request[r].after.type # "none"
  /\ rows[request[r].row].type = "deleted"
  /\ request' = [request EXCEPT ![r] = Moved(@, "failed", {})]
  /\ UNCHANGED <<balance, opening, rows, sweep, failures, race, tainted>>

\* remove(): deleteOne by _id.  Its deletedCount is not looked at, so a row
\* another request deleted first is "deleted" again and reversed again.
DeleteRow(r) ==
  /\ request[r].pc = "read"
  /\ request[r].after.type = "none"
  /\ Persist(r, DeletedRow)

\* applyDeltas(): the next $inc, on an account that exists.
ApplyLeg(r, leg) ==
  LET q == request[r]
      a == LegAccount(q, leg)
      rest == q.legs \ {leg}
  IN  /\ q.pc = "sync"
      /\ leg \in q.legs
      /\ \A other \in q.legs : leg <= other
      /\ a \in Accounts
      /\ balance' = [balance EXCEPT ![a] = @ + LegDelta(q, leg)]
      /\ request' = [request EXCEPT
           ![r] = Moved(q, IF rest = {} THEN "done" ELSE "sync", rest)]
      /\ UNCHANGED <<opening, rows, sweep, failures, race, tainted>>

\* A $inc throws (lost connection, no matching account) or the process dies:
\* syncBalances logs and rethrows, and the remaining legs are never issued.
DropLegs(r) ==
  LET q == request[r] IN
  /\ q.pc = "sync"
  /\ failures < MaxFailures
  /\ failures' = failures + 1
  /\ request' = [request EXCEPT ![r] = Moved(q, "failed", {})]
  /\ race' = Blurred(Touched(q))
  /\ tainted' = tainted \cup (Touched(q) \ {NoAccount})
  /\ UNCHANGED <<balance, opening, rows, sweep>>

-----------------------------------------------------------------------------
(* Reconciliation.                                                         *)

\* findForReconcile(): the balances every later compare-and-set expects.
Scan(k) ==
  /\ sweep[k].phase = "idle"
  /\ sweep' = [sweep EXCEPT ![k] =
       [phase |-> "scanned", todo |-> Accounts, seen |-> balance,
        sums |-> Zero]]
  /\ race' = [race EXCEPT ![k] =
       [a \in Accounts |-> IF Busy(a) THEN "blurred" ELSE "none"]]
  /\ UNCHANGED <<balance, opening, rows, request, failures, tainted>>

\* sumLedgerDeltasByAccount(): one aggregation over the ledger.
Sum(k) ==
  /\ sweep[k].phase = "scanned"
  /\ sweep' = [sweep EXCEPT ![k] =
       [phase |-> "summed", todo |-> sweep[k].todo, seen |-> sweep[k].seen,
        sums |-> [a \in Accounts |-> LedgerSum(a)]]]
  /\ race' = [race EXCEPT ![k] =
       [a \in Accounts |-> IF Busy(a) THEN "blurred" ELSE race[k][a]]]
  /\ UNCHANGED <<balance, opening, rows, request, failures, tainted>>

Computed(k, a) == opening[a] + sweep[k].sums[a]

\* (Mutant: only a balance that is too low counts as drifted.)
DriftTooLow(k, a) ==
  IF Computed(k, a) > sweep[k].seen[a]
  THEN Computed(k, a) - sweep[k].seen[a] ELSE 0

Drift(k, a) == Computed(k, a) - sweep[k].seen[a]

\* (Mutant: the correction does not compare before it sets.)
LandsBlindly(k, a) ==
  /\ sweep[k].phase = "summed"
  /\ a \in sweep[k].todo
  /\ Drift(k, a) # 0

\* compareAndSetBalance() matches: the balance is still the one scanned.
Lands(k, a) ==
  /\ sweep[k].phase = "summed"
  /\ a \in sweep[k].todo
  /\ Drift(k, a) # 0
  /\ balance[a] = sweep[k].seen[a]

\* The sweep had account a to itself, or raced with one write that is now done.
Calm(k, a) == race[k][a] \in {"none", "one"} /\ ~Busy(a)

\* The sweep is through with account a; after the last one it ends.
Finished(k, a) ==
  IF sweep[k].todo = {a} THEN IdleSweep
  ELSE [phase |-> "summed", todo |-> sweep[k].todo \ {a},
        seen |-> sweep[k].seen, sums |-> sweep[k].sums]

\* A finished sweep's races are forgotten.
Forget(k, a, races) ==
  IF sweep[k].todo = {a} THEN [races EXCEPT ![k] = NoRace] ELSE races

\* A correction: other sweeps under way now hold a stale scan of a.
Correct(k, a) ==
  /\ Lands(k, a)
  /\ balance' = [balance EXCEPT ![a] = Computed(k, a)]
  /\ sweep' = [sweep EXCEPT ![k] = Finished(k, a)]
  /\ race' = Forget(k, a, Blurred({a}))
  /\ tainted' = IF Calm(k, a) THEN tainted \ {a} ELSE tainted \cup {a}
  /\ UNCHANGED <<opening, rows, request, failures>>

\* No drift ("clean"), or the compare-and-set misses ("skipped-concurrent").
LeaveAlone(k, a) ==
  /\ sweep[k].phase = "summed"
  /\ a \in sweep[k].todo
  /\ ~Lands(k, a)
  /\ sweep' = [sweep EXCEPT ![k] = Finished(k, a)]
  /\ race' = Forget(k, a, race)
  /\ UNCHANGED <<balance, opening, rows, request, failures, tainted>>

\* A query of the sweep throws, or its process dies: nothing is resumed.
AbandonSweep(k) ==
  /\ Underway(k)
  /\ failures < MaxFailures
  /\ failures' = failures + 1
  /\ sweep' = [sweep EXCEPT ![k] = IdleSweep]
  /\ race' = [race EXCEPT ![k] = NoRace]
  /\ UNCHANGED <<balance, opening, rows, request, tainted>>

-----------------------------------------------------------------------------
Start(r) ==
  \E t \in Rows :
    \/ \E row \in ValidRow : Create(r, t, row) \/ Read(r, t, row)
    \/ Read(r, t, NoRow)

\* What the server does by itself once a request has begun.
Proceed(r) ==
  \/ SaveUpdate(r)
  \/ SaveMissing(r)
  \/ DeleteRow(r)
  \/ \E leg \in 1 .. 4 : ApplyLeg(r, leg)

Reconcile(k) ==
  \/ Scan(k)
  \/ Sum(k)
  \/ \E a \in Accounts : Correct(k, a) \/ LeaveAlone(k, a)

Next ==
  \/ \E r \in Requests : Start(r) \/ Proceed(r) \/ Abort(r) \/ DropLegs(r)
  \/ \E k \in Reconcilers : Reconcile(k) \/ AbandonSweep(k)

Spec == Init /\ [][Next]_vars

\* A request that began runs on or fails; the weekly cron keeps firing.
Fairness ==
  /\ \A r \in Requests : WF_vars(Proceed(r) \/ Abort(r))
  /\ \A k \in Reconcilers : WF_vars(Reconcile(k))

FairSpec == Spec /\ Fairness

-----------------------------------------------------------------------------
(* Properties.                                                             *)

RequestRecord ==
  [pc : {"new", "read", "sync", "done", "failed"}, row : Rows \cup {0},
   before : StoredRow, after : ValidRow \cup {NoRow}, legs : SUBSET (1 .. 4)]

SweepRecord ==
  [phase : {"idle", "scanned", "summed"}, todo : SUBSET Accounts,
   seen : [Accounts -> Int], sums : [Accounts -> Int]]

RaceLevel == {"none", "one", "several", "blurred"}

\* Type invariant.
TypeOK ==
  /\ balance \in [Accounts -> Int]
  /\ opening \in [Accounts -> Int]
  /\ rows \in [Rows -> StoredRow]
  /\ request \in [Requests -> RequestRecord]
  /\ sweep \in [Reconcilers -> SweepRecord]
  /\ race \in [Reconcilers -> [Accounts -> RaceLevel]]
  /\ failures \in 0 .. MaxFailures
  /\ tainted \in SUBSET Accounts

\* The reconciliation invariant of account.schema.ts, stated so that it holds at
\* every instant: an account no anomaly has disturbed (an interrupted balance
\* sync, a write based on a stale read, a correction that raced with writes)
\* differs from its opening balance plus the ledger by exactly the increments
\* that persisted writes still have to issue.  A calm reconciliation restores it
\* for a disturbed account.
BooksBalance ==
  \A a \in Accounts \ tainted :
    balance[a] + InFlight(a) = opening[a] + LedgerSum(a)

\* What a sweep may rely on for an account it has still to decide, as long as at
\* most one write raced with it: nothing moved since its scan, or exactly that
\* write did, and its sum either counts the write or was taken before it.
SweepSound ==
  \A k \in Reconcilers : Underway(k) => \A a \in sweep[k].todo :
    /\ race[k][a] = "none" => ~Busy(a) /\ balance[a] = sweep[k].seen[a]
    /\ race[k][a] = "none" /\ sweep[k].phase = "summed"
         => sweep[k].sums[a] = LedgerSum(a)
    /\ race[k][a] = "one" /\ sweep[k].phase = "summed"
         => \/ sweep[k].sums[a] = LedgerSum(a)
            \/ sweep[k].seen[a] - sweep[k].sums[a]
                 = balance[a] + InFlight(a) - LedgerSum(a)

\* A calm sweep raises no false alarm: when the books of an account balance, a
\* reconciliation that nobody raced with does not rewrite its balance.
NoFalseAlarm ==
  \A k \in Reconcilers, a \in Accounts \ tainted : Calm(k, a) => ~Lands(k, a)

\* "The balance can be re-derived from the ledger": once the writes are over,
\* the weekly sweep brings every cached balance to opening + ledger for good.
Exact(a) == balance[a] = opening[a] + LedgerSum(a)

EventuallyExact == <>[](\A a \in Accounts : Exact(a))

\* Under serial edits and without failures the ledger is the atomic ledger of
\* Books.tla, in which a write changes a row and the balances in one step: an
\* observer who adds the increments in flight cannot tell them apart.
Atomic == INSTANCE Books WITH
            balance <- [a \in Accounts |-> balance[a] + InFlight(a)]

ImplementsBooks == Atomic!Spec

-----------------------------------------------------------------------------
(* What comments of the repository say, and the code does not do.          *)

\* accounts.service.ts: the ledger keeps balanceCents in sync on every write,
\* and only a failing $inc makes it drift.  Without a failure, a quiet system
\* should therefore have exact balances.
Quiet == \A r \in Requests : request[r].legs = {}

KeptInSync == failures = 0 /\ Quiet => \A a \in Accounts : Exact(a)
=============================================================================
