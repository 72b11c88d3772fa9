----------------------------- MODULE Recurring -----------------------------
(***************************************************************************)
(* One recurring schedule and the daily job that turns its due occurrences *)
(* into ledger rows (recurring.service.ts, recurring-cron.service.ts), the *)
(* cron lock that elects one server instance a day                         *)
(* (cron-lock.service.ts) and the requests that edit, remove or pause the  *)
(* schedule meanwhile.  Schedules do not interact: the job isolates them.  *)
(*                                                                         *)
(* Per occurrence the job inserts the row, applies the balance and then    *)
(* advances nextDate; each is a database operation of its own, and the job *)
(* works from the document the cursor read when the schedule came up.      *)
(* Dates are whole days, the cadence a fixed number of them.               *)
(***************************************************************************)
EXTENDS Integers, FiniteSets

CONSTANTS
  Servers,       \* server instances, each running the daily cron
  Editors,       \* concurrent PATCH requests
  Horizon,       \* last day on which something falls due
  Period,        \* the cadence, in days
  MaxCatchup,    \* MAX_CATCHUP_PERIODS
  MaxCrashes,    \* bound on crashes and on failing database calls
  MaxEdits,      \* bound on PATCH requests
  Patchable,     \* the fields PATCH requests change
  Doings,        \* what else users do: "remove", "deleteRow", "archive"
  Subscriptions, \* whether the schedule starts as a bill, a subscription
  FirstDates,    \* the nextDate it is created with
  CreatedOn      \* the days it may be created on; nextDate may be earlier

Fields == {"next", "end", "active", "sub", "tracked"}

ASSUME RecurringAssumption ==
  /\ IsFiniteSet(Servers)
  /\ Horizon \in Nat
  /\ Period \in Nat \ {0}
  /\ MaxCatchup \in Nat \ {0}
  /\ MaxCrashes \in Nat
  /\ MaxEdits \in Nat
  /\ Patchable \subseteq Fields
  /\ Doings \subseteq {"remove", "deleteRow", "archive"}
  /\ Subscriptions \subseteq BOOLEAN
  /\ FirstDates \subseteq 0 .. Horizon
  /\ CreatedOn \subseteq 0 .. Horizon

VARIABLES
  today,       \* the current UTC day
  claimed,     \* today's cron lock is held
  schedule,    \* the stored schedule document
  removed,     \* the schedule was deleted
  usable,      \* its account exists and is not archived (its category, checked
               \* at the same places, is taken to stay usable)
  posted,      \* days with a row of the schedule: the { recurringId, date } index
  balance,     \* increments applied to the account, less those undone
  run,         \* run[s]: the progress of the job on server s
  edit,        \* edit[e]: the progress of one PATCH request
  edits,       \* number of PATCH requests so far
  crashes,     \* number of crashes and failed calls so far
  everPosted,  \* history: days that had a row at some time
  from,        \* history: the nextDate a user last chose
  expired,     \* history: the job deactivated the schedule, no user edited it since
  since        \* history: the day the schedule last became a posting subscription

vars == <<today, claimed, schedule, removed, usable, posted, balance, run, edit,
          edits, crashes, everPosted, from, expired, since>>

history == <<everPosted, from, expired, since>>

-----------------------------------------------------------------------------
LastDate == Horizon + Period    \* nextDate never gets beyond it
Dates == 0 .. LastDate
NoEnd == LastDate               \* no end date: no occurrence is later

\* The fields of a schedule the job depends on.  `tracked`: it has an account,
\* as every bill does; a subscription need not.
Schedule == [next : Dates, end : Dates, active : BOOLEAN, sub : BOOLEAN,
             tracked : BOOLEAN]

Posts(doc) == doc.sub /\ doc.tracked /\ doc.active

\* (Mutant: a date one day past is left where it is.)
SettleLate(doc, now) ==
  IF Posts(doc) /\ doc.next + 1 < now
  THEN [doc EXCEPT !.next = CHOOSE d \in now .. now + Period - 1 :
                              (d - doc.next) % Period = 0]
  ELSE doc

\* settleTrackedSubscriptionDate(): a subscription that can post starts today.
Settle(doc, now) ==
  IF Posts(doc) /\ doc.next < now
  THEN [doc EXCEPT !.next = CHOOSE d \in now .. now + Period - 1 :
                              (d - doc.next) % Period = 0]
  ELSE doc

IdleRun == [pc |-> "idle", now |-> 0, end |-> 0, sub |-> FALSE,
            tracked |-> FALSE, posting |-> FALSE, occurrence |-> 0,
            periods |-> 0, moved |-> FALSE]

IdleEdit(doc) == [pc |-> "idle", seen |-> doc, merged |-> doc, now |-> 0]

\* create(): any window is accepted, a nextDate in the past as well.  A schedule
\* created paused (isActive false) does nothing before an edit and is left out.
Init ==
  /\ schedule \in {doc \in Schedule :
       /\ doc.next \in FirstDates
       /\ doc.next <= doc.end
       /\ doc.active
       /\ doc.sub \in Subscriptions
       /\ doc.sub \/ doc.tracked}
  /\ today \in CreatedOn
  /\ claimed = FALSE
  /\ removed = FALSE
  /\ usable = TRUE
  /\ posted = {}
  /\ balance = 0
  /\ run = [s \in Servers |-> IdleRun]
  /\ edit = [e \in Editors |-> IdleEdit(schedule)]
  /\ edits = 0
  /\ crashes = 0
  /\ everPosted = {}
  /\ from = schedule.next
  /\ expired = FALSE
  /\ since = today

-----------------------------------------------------------------------------
(* The calendar and the cron lock.                                         *)

\* (Mutant: the lock's key does not name the day.)
MidnightSameKey ==
  /\ today' = IF today < Horizon THEN today + 1 ELSE today
  /\ UNCHANGED <<claimed, schedule, removed, usable, posted, balance, run, edit,
                 edits, crashes, history>>

\* A day passes and with it the lock's key.  After the horizon days still pass,
\* and the job still runs, but nothing new falls due.
Midnight ==
  /\ today' = IF today < Horizon THEN today + 1 ELSE today
  /\ claimed' = FALSE
  /\ UNCHANGED <<schedule, removed, usable, posted, balance, run, edit, edits,
                 crashes, history>>

\* handleMaterialization(), tryAcquire(): one server wins the day's key.  It is
\* never released, so a run that dies is not repeated that day.
Claim(s) ==
  /\ run[s].pc = "idle"
  /\ ~claimed
  /\ claimed' = TRUE
  /\ run' = [run EXCEPT ![s] = [IdleRun EXCEPT !.pc = "scan", !.now = today]]
  /\ UNCHANGED <<today, schedule, removed, usable, posted, balance, edit, edits,
                 crashes, history>>

-----------------------------------------------------------------------------
(* The job.  A run's local computation up to its next database operation   *)
(* belongs to the step before it.                                          *)

\* (Mutant: an occurrence is posted before its day.)
LoopHeadEager(end, occurrence, now, periods, posting) ==
  IF occurrence > end THEN "expire"
  ELSE IF periods >= MaxCatchup THEN "handled"
  ELSE IF posting THEN "insert" ELSE "advance"

\* (Mutant: the end date itself counts as past the end.)
LoopHeadShort(end, occurrence, now, periods, posting) ==
  IF occurrence >= end THEN "expire"
  ELSE IF occurrence > now \/ periods >= MaxCatchup THEN "handled"
  ELSE IF posting THEN "insert" ELSE "advance"

\* The head of the catch-up loop: where a run stands before `occurrence`.
LoopHead(end, occurrence, now, periods, posting) ==
  IF occurrence > end THEN "expire"
  ELSE IF occurrence > now \/ periods >= MaxCatchup THEN "handled"
  ELSE IF posting THEN "insert" ELSE "advance"

Due(now) == ~removed /\ schedule.active /\ schedule.next <= now

\* materializeDue(): the cursor yields the schedule.  An unsnapshotted cursor may
\* yield it again once the run has moved it within the index.
Scan(s) ==
  LET q == run[s] IN
  /\ q.pc = "scan" \/ (q.pc = "handled" /\ q.moved)
  /\ Due(q.now)
  /\ run' = [run EXCEPT ![s] =
       [pc |-> IF schedule.sub /\ ~schedule.tracked
               THEN LoopHead(schedule.end, schedule.next, q.now, 0, FALSE)
               ELSE "resolve",
        now |-> q.now, end |-> schedule.end, sub |-> schedule.sub,
        tracked |-> schedule.tracked, posting |-> FALSE,
        occurrence |-> schedule.next, periods |-> 0, moved |-> FALSE]]
  /\ UNCHANGED <<today, claimed, schedule, removed, usable, posted, balance,
                 edit, edits, crashes, history>>

\* The cursor is exhausted.
EndRun(s) ==
  /\ \/ run[s].pc = "handled"
     \/ run[s].pc = "scan" /\ ~Due(run[s].now)
  /\ run' = [run EXCEPT ![s] = IdleRun]
  /\ UNCHANGED <<today, claimed, schedule, removed, usable, posted, balance,
                 edit, edits, crashes, history>>

\* resolveMaterializationRefs(), once per schedule: with unusable references a
\* bill is skipped where it stands, a subscription advances without posting.
Resolve(s) ==
  LET q == run[s]
      postable == q.tracked /\ usable
  IN  /\ q.pc = "resolve"
      /\ run' = [run EXCEPT
           ![s].posting = postable,
           ![s].pc = IF postable \/ q.sub
                     THEN LoopHead(q.end, q.occurrence, q.now, 0, postable)
                     ELSE "handled"]
      /\ UNCHANGED <<today, claimed, schedule, removed, usable, posted, balance,
                     edit, edits, crashes, history>>

\* (Mutant: the balance is applied for a duplicate as well.)
InsertTwice(s) ==
  LET day == run[s].occurrence IN
  /\ run[s].pc = "insert"
  /\ posted' = posted \cup {day}
  /\ everPosted' = everPosted \cup {day}
  /\ run' = [run EXCEPT ![s].pc = "sync"]
  /\ UNCHANGED <<today, claimed, schedule, removed, usable, balance, edit, edits,
                 crashes, from, expired, since>>

\* materializeRecurring(): the insert.  The unique index turns a second row for
\* the day away; the balance is then left alone, the occurrence counts as done.
Insert(s) ==
  LET day == run[s].occurrence IN
  /\ run[s].pc = "insert"
  /\ posted' = posted \cup {day}
  /\ everPosted' = everPosted \cup {day}
  /\ run' = [run EXCEPT ![s].pc = IF day \in posted THEN "advance" ELSE "sync"]
  /\ UNCHANGED <<today, claimed, schedule, removed, usable, balance, edit, edits,
                 crashes, from, expired, since>>

\* syncBalances(): the $inc of the new row.
Sync(s) ==
  /\ run[s].pc = "sync"
  /\ balance' = balance + 1
  /\ run' = [run EXCEPT ![s].pc = "advance"]
  /\ UNCHANGED <<today, claimed, schedule, removed, usable, posted, edit, edits,
                 crashes, history>>

\* (Mutant: the advance is not guarded by the nextDate observed.)
MatchesAnyDate(s) == ~removed

\* The filter of advanceSchedule(): nextDate is the one the run observed.
Matches(s) == ~removed /\ schedule.next = run[s].occurrence

\* advanceSchedule() after an occurrence.  The last one deactivates the schedule
\* in the same write.  A miss yields the remaining periods.
Advance(s) ==
  LET q == run[s]
      next == q.occurrence + Period
      finished == next > q.end
  IN  /\ q.pc = "advance"
      /\ IF Matches(s)
         THEN /\ schedule' = [schedule EXCEPT !.next = next,
                                              !.active = @ /\ ~finished]
              /\ expired' = (expired \/ finished)
              /\ run' = [run EXCEPT
                   ![s].occurrence = next,
                   ![s].periods = @ + 1,
                   ![s].moved = TRUE,
                   ![s].pc = IF finished THEN "handled"
                             ELSE LoopHead(q.end, next, q.now, q.periods + 1,
                                           q.posting)]
         ELSE /\ run' = [run EXCEPT ![s].pc = "handled"]
              /\ UNCHANGED <<schedule, expired>>
      /\ UNCHANGED <<today, claimed, removed, usable, posted, balance, edit,
                     edits, crashes, everPosted, from, since>>

\* advanceSchedule() of a schedule already past its end: it is deactivated.
Expire(s) ==
  /\ run[s].pc = "expire"
  /\ IF Matches(s)
     THEN schedule' = [schedule EXCEPT !.active = FALSE] /\ expired' = TRUE
     ELSE UNCHANGED <<schedule, expired>>
  /\ run' = [run EXCEPT ![s].pc = "handled"]
  /\ UNCHANGED <<today, claimed, removed, usable, posted, balance, edit, edits,
                 crashes, everPosted, from, since>>

\* The process dies, or a database call throws and the schedule is given up for
\* the day.
Crash(s) ==
  /\ run[s].pc # "idle"
  /\ crashes < MaxCrashes
  /\ crashes' = crashes + 1
  /\ run' = [run EXCEPT ![s] = IdleRun]
  /\ UNCHANGED <<today, claimed, schedule, removed, usable, posted, balance,
                 edit, edits, history>>

-----------------------------------------------------------------------------
(* Users.                                                                  *)

\* The states update() accepts for a document it read as `seen`.
Accepted(seen) ==
  {doc \in Schedule :
     /\ \A f \in Fields \ Patchable : doc[f] = seen[f]
     /\ doc.next # seen.next \/ doc.end # seen.end => doc.next <= doc.end
     /\ seen.tracked => doc.tracked                \* accounts are not detached
     /\ doc.tracked /\ ~seen.tracked => usable
     /\ doc.active /\ ~seen.active /\ doc.tracked => usable}

\* update(): findOne and the checks.
ReadForEdit(e) ==
  /\ edit[e].pc = "idle"
  /\ edits < MaxEdits
  /\ ~removed
  /\ edits' = edits + 1
  /\ \E doc \in Accepted(schedule) :
       edit' = [edit EXCEPT ![e] = [pc |-> "read", seen |-> schedule,
                                    merged |-> Settle(doc, today),
                                    now |-> today]]
  /\ UNCHANGED <<today, claimed, schedule, removed, usable, posted, balance, run,
                 crashes, history>>

\* save(): only the fields that differ from the document read are written.
Saved(e) ==
  LET q == edit[e]
      Field(f) == IF q.merged[f] # q.seen[f] THEN q.merged[f] ELSE schedule[f]
  IN  [next |-> Field("next"), end |-> Field("end"), active |-> Field("active"),
       sub |-> Field("sub"), tracked |-> Field("tracked")]

SaveEdit(e) ==
  LET q == edit[e] IN
  /\ q.pc = "read"
  /\ ~removed
  /\ schedule' = Saved(e)
  /\ from' = IF q.merged.next # q.seen.next THEN q.merged.next ELSE from
  /\ expired' = (expired /\ q.merged = q.seen)
  /\ since' = IF Posts(Saved(e)) /\ (~Posts(schedule) \/ from' # from)
              THEN q.now ELSE since
  /\ edit' = [edit EXCEPT ![e] = IdleEdit(schedule')]
  /\ UNCHANGED <<today, claimed, removed, usable, posted, balance, run, edits,
                 crashes, everPosted>>

\* save() of a schedule removed meanwhile finds no document and throws.
SaveMissing(e) ==
  /\ edit[e].pc = "read"
  /\ removed
  /\ edit' = [edit EXCEPT ![e] = IdleEdit(schedule)]
  /\ UNCHANGED <<today, claimed, schedule, removed, usable, posted, balance, run,
                 edits, crashes, history>>

\* remove(): one deleteOne; the ledger keeps its rows.
Remove ==
  /\ "remove" \in Doings
  /\ ~removed
  /\ removed' = TRUE
  /\ UNCHANGED <<today, claimed, schedule, usable, posted, balance, run, edit,
                 edits, crashes, history>>

\* A user deletes a materialized row: its effect is undone (Ledger.tla has the
\* steps) and its slot in the unique index is free again.
DeleteRow(day) ==
  /\ "deleteRow" \in Doings
  /\ day \in posted
  /\ posted' = posted \ {day}
  /\ balance' = balance - 1
  /\ UNCHANGED <<today, claimed, schedule, removed, usable, run, edit, edits,
                 crashes, history>>

\* The account is archived, or restored.
Archive ==
  /\ "archive" \in Doings
  /\ usable' = ~usable
  /\ UNCHANGED <<today, claimed, schedule, removed, posted, balance, run, edit,
                 edits, crashes, history>>

-----------------------------------------------------------------------------
Work(s) ==
  \/ Scan(s)
  \/ EndRun(s)
  \/ Resolve(s)
  \/ Insert(s)
  \/ Sync(s)
  \/ Advance(s)
  \/ Expire(s)

Edit(e) == ReadForEdit(e) \/ SaveEdit(e) \/ SaveMissing(e)

Next ==
  \/ Midnight
  \/ \E s \in Servers : Claim(s) \/ Work(s) \/ Crash(s)
  \/ \E e \in Editors : Edit(e)
  \/ Remove
  \/ \E day \in Dates : DeleteRow(day)
  \/ Archive

Spec == Init /\ [][Next]_vars

\* Days pass, the cron fires on some server, a run that began goes on.
Fairness ==
  /\ WF_vars(Midnight)
  /\ WF_vars(\E s \in Servers : Claim(s))
  /\ \A s \in Servers : WF_vars(Work(s))

FairSpec == Spec /\ Fairness

-----------------------------------------------------------------------------
(* Properties.                                                             *)

RunRecord ==
  [pc : {"idle", "scan", "resolve", "insert", "sync", "advance", "expire",
         "handled"},
   now : 0 .. Horizon, end : Dates, sub : BOOLEAN, tracked : BOOLEAN,
   posting : BOOLEAN, occurrence : Dates, periods : 0 .. MaxCatchup,
   moved : BOOLEAN]

EditRecord ==
  [pc : {"idle", "read"}, seen : Schedule, merged : Schedule, now : 0 .. Horizon]

\* Type invariant.
TypeOK ==
  /\ today \in 0 .. Horizon
  /\ {claimed, removed, usable, expired} \subseteq BOOLEAN
  /\ schedule \in Schedule
  /\ posted \subseteq everPosted /\ everPosted \subseteq Dates
  /\ balance \in Int
  /\ run \in [Servers -> RunRecord]
  /\ edit \in [Editors -> EditRecord]
  /\ edits \in 0 .. MaxEdits
  /\ crashes \in 0 .. MaxCrashes
  /\ from \in Dates
  /\ since \in 0 .. Horizon

\* "Advancing first would lose the occurrence outright": between the date a user
\* last chose and nextDate no occurrence of a bill is missing from the ledger's
\* history, whatever crashes, overlapping runs and edits did in between.
LedgerComplete ==
  ~schedule.sub =>
    \A day \in from .. schedule.next - 1 :
      (day - from) % Period = 0 => day \in everPosted

\* "At worst, a cached balance short by one occurrence" per crash, and never too
\* high: no retry, revisit or overlapping run applies an occurrence twice.
ShortByCrashes ==
  LET syncing == Cardinality({s \in Servers : run[s].pc = "sync"})
      short == Cardinality(posted) - balance - syncing
  IN  0 <= short /\ short <= crashes

\* "Deactivate in the same write as the final advance when the schedule has now
\* run its course": the job ends no schedule with an occurrence left to post.
EndsOnTime == expired => schedule.next > schedule.end

\* The ledger of a subscription is never backfilled through the API: no edit
\* leaves one that can post with a date before the day of the edit.
NeverBackfilled == Posts(schedule) => schedule.next >= since

\* A due schedule with usable references, or a subscription with any, does not
\* stay due: a crash, a capped or a yielding run is made up for on a later day.
CatchesUp == <>[]usable \/ <>[](schedule.sub) => <>[]~Due(today)

\* As long as nobody edits it, the ledger rows of a bill appear as Occurrences.tla
\* promises, through crashes, caps and overlapping runs.
InOrder == INSTANCE Occurrences WITH
             next <- IF schedule.next \in everPosted THEN schedule.next + Period
                     ELSE schedule.next,
             end <- schedule.end,
             posted <- everPosted

PostsInOrder ==
  /\ InOrder!Init
  /\ [][edits' = 0 => [InOrder!Next]_InOrder!vars]_vars

=============================================================================
