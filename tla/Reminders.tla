----------------------------- MODULE Reminders -----------------------------
(***************************************************************************)
(* The 9 o'clock job that reminds of what falls due soon, what it stores,  *)
(* and the member who reads and deletes it (notifications-cron.service.ts, *)
(* notifications.service.ts), over schedules that change meanwhile.  The   *)
(* lock elects one server a day; a job may still run when the next day's   *)
(* starts.                                                                 *)
(***************************************************************************)
EXTENDS Subscriptions

CONSTANTS
  Servers,
  Starts     \* the schedules there may be at first, bills among them

ASSUME RemindersAssumption ==
  \A docs \in Starts :
    /\ docs \in [Ids -> Documents]
    /\ \A i \in Ids : ~(docs[i].free /\ docs[i].account # NoAccount)

VARIABLES
  reminders,   \* the stored notifications: schedule, billing date, read
  claimed,     \* today's lock is held
  round,       \* round[s]: the progress of the job on server s
  told         \* history: schedules and dates some reminder was created for

notices == <<reminders, claimed, round, told>>

vars == <<upkeep, notices, request, amid, failures>>

Resting == [pc |-> "idle", now |-> 0, todo |-> {}, of |-> 0, date |-> 0, failed |-> {}]

Init ==
  /\ InitUpkeep
  /\ schedules \in Starts
  /\ request = [p \in Requests |-> Idle]
  /\ amid = [p \in Requests |-> {}]
  /\ failures = 0
  /\ reminders = {}
  /\ claimed = FALSE
  /\ round = [s \in Servers |-> Resting]
  /\ told = {}

\* isInReminderWindow().
InReminderWindow(date, lead, now) == now < date /\ date <= now + lead

Begins(s, r) == round' = [round EXCEPT ![s] = r]

\* handleReminders(), tryAcquire().
StartRound(s) ==
  /\ round[s].pc = "idle"
  /\ ~claimed
  /\ claimed' = TRUE
  /\ Begins(s, [Resting EXCEPT !.pc = "scan", !.now = today, !.todo = Ids])
  /\ moved' = IF \A t \in Servers : round[t].pc = "idle" THEN {} ELSE moved
  /\ UNCHANGED <<today, schedules, archived, blind, reminders, told, request, amid, failures>>

\* The cursor's next schedule, as it is now.
Visit(s) ==
  LET r == round[s] IN
  /\ r.pc = "scan"
  /\ \E i \in r.todo :
       /\ \A j \in r.todo : i <= j
       /\ LET doc == schedules[i]
              remind == Live(schedules, i) /\ doc.active
                        /\ InReminderWindow(doc.next, doc.lead, r.now)
          IN  Begins(s, IF remind THEN [r EXCEPT !.pc = "upsert", !.of = i, !.date = doc.next]
                        ELSE [r EXCEPT !.todo = @ \ {i}])
  /\ UNCHANGED <<upkeep, reminders, claimed, told, request, amid, failures>>

Past(r) == [r EXCEPT !.pc = "scan", !.todo = @ \ {r.of}]

\* (Mutant: a reminder already read does not count.)
UpsertUnread(i, date) ==
  IF \E n \in reminders : n.of = i /\ n.date = date /\ ~n.read THEN reminders
  ELSE reminders \cup {[of |-> i, date |-> date, read |-> FALSE]}

\* (Mutant: an existing reminder is set to unread.)
UpsertAnew(i, date) ==
  {n \in reminders : n.of # i \/ n.date # date} \cup {[of |-> i, date |-> date, read |-> FALSE]}

\* createRenewalReminder(), createBillReminder(): one upsert, setting on insert only.
Upserted(i, date) ==
  IF \E n \in reminders : n.of = i /\ n.date = date THEN reminders
  ELSE reminders \cup {[of |-> i, date |-> date, read |-> FALSE]}

Remind(s) ==
  LET r == round[s] IN
  /\ r.pc = "upsert"
  /\ reminders' = Upserted(r.of, r.date)
  /\ told' = told \cup {<<r.of, r.date>>}
  /\ Begins(s, Past(r))
  /\ UNCHANGED <<upkeep, claimed, request, amid, failures>>

\* (Mutant: the first failure ends the loop.)
AfterFailureStop(r) == [r EXCEPT !.pc = "scan", !.todo = {}, !.failed = @ \cup {r.of}]

\* One that fails does not keep the others from theirs.
AfterFailure(r) == [Past(r) EXCEPT !.failed = @ \cup {r.of}]

RemindFails(s) ==
  /\ round[s].pc = "upsert"
  /\ failures < MaxFailures
  /\ failures' = failures + 1
  /\ Begins(s, AfterFailure(round[s]))
  /\ UNCHANGED <<upkeep, reminders, claimed, told, request, amid>>

EndRound(s) ==
  LET r == round[s] IN
  /\ r.pc = "scan"
  /\ r.todo = {}
  /\ Begins(s, Resting)
  /\ UNCHANGED <<upkeep, reminders, claimed, told, request, amid, failures>>

\* The process dies; the lock stays for the day.
RoundDies(s) ==
  /\ round[s].pc # "idle"
  /\ failures < MaxFailures
  /\ failures' = failures + 1
  /\ Begins(s, Resting)
  /\ UNCHANGED <<upkeep, reminders, claimed, told, request, amid>>

Midnight ==
  /\ today < LastDay
  /\ today' = today + 1
  /\ claimed' = FALSE
  /\ UNCHANGED <<schedules, archived, blind, moved, reminders, round, told,
                 request, amid, failures>>

-----------------------------------------------------------------------------
(* The member: markAsRead(), markAllAsRead(), remove().                    *)

Read(p, n) ==
  /\ ~n.read
  /\ Begin(p, Done)
  /\ reminders' = (reminders \ {n}) \cup {[n EXCEPT !.read = TRUE]}
  /\ UNCHANGED <<upkeep, claimed, round, told, failures>>

ReadAll(p) ==
  /\ \E n \in reminders : ~n.read
  /\ Begin(p, Done)
  /\ reminders' = {[n EXCEPT !.read = TRUE] : n \in reminders}
  /\ UNCHANGED <<upkeep, claimed, round, told, failures>>

Delete(p, n) ==
  /\ Begin(p, Done)
  /\ reminders' = reminders \ {n}
  /\ UNCHANGED <<upkeep, claimed, round, told, failures>>

-----------------------------------------------------------------------------
Job(s) ==
  StartRound(s) \/ Visit(s) \/ Remind(s) \/ RemindFails(s) \/ EndRound(s) \/ RoundDies(s)

Next ==
  \/ Midnight
  \/ \E s \in Servers : Job(s)
  \/ \E i \in Ids : Materialize(i) /\ UNCHANGED notices
  \/ \E p \in Requests :
       \/ Fresh(p) /\ SubscriptionRequest(p) /\ UNCHANGED notices
       \/ Active(p) /\ SubscriptionStep(p) /\ UNCHANGED notices
       \/ Fresh(p) /\ ReadAll(p)
       \/ Fresh(p) /\ \E n \in reminders : Read(p, n) \/ Delete(p, n)

Spec == Init /\ [][Next]_vars

-----------------------------------------------------------------------------
\* Types of the stored documents; the dates stay within a cadence of the bound.
TypeOK ==
  /\ today \in 0 .. LastDay
  /\ \A i \in Ids :
       /\ schedules[i].next \in 0 .. LastDay + Period
       /\ schedules[i].account \in Accounts \cup {NoAccount}
  /\ \A n \in reminders : n.of \in Ids /\ n.date \in 1 .. LastDay + Period

\* A free subscription is not tracked, unless two requests crossed.
FreeIsUntracked ==
  \A i \in Ids \ blind : ~(schedules[i].free /\ schedules[i].account # NoAccount)

\* A step of the request p.
Steps(p) ==
  /\ Active(p)
  /\ \/ request'[p].op # request[p].op
     \/ request'[p].at # request[p].at
     \/ request'[p].todo # request[p].todo

\* The ledger of a subscription is never backfilled: a request that leaves it able
\* to post, when it was not or had another date, leaves a date not before the day
\* of the request.
NoBackfill ==
  [][\A i \in Ids, p \in Requests :
      /\ CanPost(schedules'[i]) /\ i \notin blind'
      /\ ~CanPost(schedules[i]) \/ schedules'[i].next # schedules[i].next
      /\ Steps(p) /\ request[p].op \in {"update", "activate"}
      => schedules'[i].next >= request[p].cursor]_vars

\* A paused subscription is switched on only after its account was looked up and
\* was not archived then.
ResumesUsable ==
  [][\A i \in Ids, p \in Requests :
      /\ CanPost(schedules'[i]) /\ ~schedules[i].active /\ i \notin blind'
      /\ Steps(p)
      => \/ request[p].op = "update" /\ request[p].found
         \/ request[p].op = "activate" /\ schedules[i].account \in request[p].wanted
         \/ request[p].op = "create"]_vars

\* No bulk request moves a date back that the midnight job has moved on, whatever
\* it read.  A PATCH does if it names a date; or if it does not, but rolled the
\* past date it read, for save() does not look whether the job was faster.  It
\* then puts back a date not before the day of the request.
NoStepBack ==
  [][\A i \in Ids, p \in Requests :
      /\ schedules[i].state = "live" /\ schedules'[i].next < schedules[i].next
      /\ Steps(p)
      => /\ request[p].op = "update"
         /\ \/ "next" \in request[p].todo
            \/ /\ request[p].doc.next < request[p].cursor
               /\ request[p].cursor <= schedules'[i].next]_vars

\* At the end of a job everyone has been reminded whose schedule stood unchanged
\* since it started and is within its window, but for those whose reminder failed:
\* the failure of one takes nothing from the others.
RemindedInTime ==
  [][\A s \in Servers :
      round[s].pc # "idle" /\ round'[s].pc = "idle" /\ failures' = failures =>
        \A i \in Ids \ (moved \cup round[s].failed) :
          LET doc == schedules[i] IN
          doc.state = "live" /\ doc.active
            /\ doc.next - doc.lead <= round[s].now /\ round[s].now < doc.next
          => <<i, doc.next>> \in told]_vars

\* One reminder for an occurrence, however many days, servers and reads.
RemindedOnce ==
  \A n, m \in reminders : n.of = m.of /\ n.date = m.date => n = m

\* A reminder that was read stays read.
StaysRead ==
  [][\A n \in reminders, m \in reminders' :
      n.of = m.of /\ n.date = m.date /\ n.read => m.read]_vars

\* A free subscription posts nothing and an occurrence is announced once.
TrackedAndTold == TypeOK /\ FreeIsUntracked /\ RemindedOnce

\* No request makes a subscription post into the past or onto an archived account,
\* and none puts back a date the midnight job has moved on, but for a PATCH that
\* names a date or had rolled the one it read.
ActivatesSoundly == NoBackfill /\ ResumesUsable /\ NoStepBack

\* A job leaves nobody out whom it could remind, and no later job makes a reminder
\* unread.
Reminded == RemindedInTime /\ StaysRead

=============================================================================
