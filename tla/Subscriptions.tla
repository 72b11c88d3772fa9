--------------------------- MODULE Subscriptions ---------------------------
(***************************************************************************)
(* Subscriptions (subscriptions.service.ts): schedules marked as such,     *)
(* created, edited, removed one by one and switched in bulk, while the     *)
(* midnight job moves their dates.  An edit writes the fields it changed;  *)
(* a bulk activation writes what it decided from the documents it read.    *)
(*                                                                         *)
(* Recurring.tla has the job step by step; here it posts an occurrence and *)
(* advances in one.  Cost is whether there is one; name, notes, tags,      *)
(* category and label are left out, as is the cadence's calendar.          *)
(***************************************************************************)
EXTENDS Handlers

CONSTANTS
  NumSchedules,   \* bound on schedules ever created
  Accounts,
  Period,         \* the cadence, in days
  LastDay,        \* bound on the days
  Selections,     \* what a member may select for a bulk operation
  Creations,      \* the documents a member may create
  Patches         \* the fields a member may change at once, and to what

VARIABLES
  today,       \* the current UTC day
  schedules,   \* schedules[i]: the stored document
  archived,    \* archived[a]: the account's isArchived
  blind,       \* history: schedules written by a request after they had changed
               \* since it read them
  moved        \* history: schedules changed since the reminders' job last started

upkeep == <<today, schedules, archived, blind, moved>>

NoAccount == 0
Ids == 1 .. NumSchedules

\* sub: isSubscription; free: no cost; lead: reminderDaysBefore.
NoSchedule == [state |-> "free", sub |-> FALSE, account |-> NoAccount, free |-> FALSE,
               next |-> 0, active |-> FALSE, lead |-> 0]

\* The fields a member may change, and what they may hold.  The bounds on dates are
\* the model's.
Values ==
  [account |-> Accounts \cup {NoAccount}, free |-> BOOLEAN, next |-> 0 .. LastDay + Period,
   active |-> BOOLEAN, lead |-> Nat]

Documents ==
  [state : {"free", "live", "gone"}, sub : BOOLEAN, account : Values.account,
   free : Values.free, next : Values.next, active : Values.active, lead : Values.lead]

ASSUME SubscriptionsAssumption ==
  /\ Period \in Nat \ {0} /\ LastDay \in Nat
  /\ Creations \subseteq Documents
  /\ \A patch \in Patches :
       DOMAIN patch \subseteq DOMAIN Values /\ \A f \in DOMAIN patch : patch[f] \in Values[f]

Subscription(i) == Live(schedules, i) /\ schedules[i].sub

CanPost(doc) == doc.sub /\ doc.active /\ doc.account # NoAccount

\* The first date on the cadence that is today or later.
Rolled(date, now) == CHOOSE d \in now .. now + Period - 1 : (d - date) % Period = 0

\* (Mutant: the date is left as it is.)
SettleNever(doc, now) == doc

\* settleTrackedSubscriptionDate().
Settle(doc, now) ==
  IF CanPost(doc) /\ doc.next < now THEN [doc EXCEPT !.next = Rolled(@, now)] ELSE doc

\* Every write of a document.
Write(i, doc) ==
  /\ schedules' = [schedules EXCEPT ![i] = doc]
  /\ moved' = IF doc # schedules[i] THEN moved \cup {i} ELSE moved

\* The document was no longer the one the request had read.
Blindly(i, read) == blind' = IF schedules[i] # read THEN blind \cup {i} ELSE blind

Unchanged == UNCHANGED <<schedules, blind, moved>>

-----------------------------------------------------------------------------
(* create(), update(), remove().                                           *)

\* assertLedgerable(), assertAccountUsable().
BeginCreate(p, doc) ==
  /\ doc.account # NoAccount => ~doc.free /\ ~archived[doc.account]
  /\ Begin(p, [Idle EXCEPT !.op = "create", !.at = "save", !.wanted = Settle(doc, today)])
  /\ UNCHANGED <<upkeep, failures>>

Create(p) ==
  /\ At(p, "create", "save")
  /\ \E i \in Free(schedules) : Write(i, request[p].wanted)
  /\ Finish(p)
  /\ UNCHANGED <<today, archived, blind, failures>>

Merged(doc, patch) == [f \in DOMAIN doc |-> IF f \in DOMAIN patch THEN patch[f] ELSE doc[f]]

\* findDoc().  todo: the fields the PATCH names.
BeginUpdate(p, i, patch) ==
  /\ Subscription(i)
  /\ Begin(p, [Idle EXCEPT !.op = "update", !.at = "check", !.id = i,
                           !.doc = schedules[i], !.wanted = patch,
                           !.todo = DOMAIN patch, !.cursor = today])
  /\ UNCHANGED <<upkeep, failures>>

\* (Mutant: the account is looked up only when it is another one.)
LooksUpNewAccount(read, doc) == doc.account \notin {NoAccount, read.account}

\* A new account, or the account of a subscription that is switched on.
LooksUpAccount(read, doc) ==
  \/ doc.account \notin {NoAccount, read.account}
  \/ doc.account # NoAccount /\ doc.active /\ ~read.active

\* (Mutant: the cost is checked only when an account is attached.)
LedgerableOnAttach(read, doc) == doc.account \in {NoAccount, read.account} \/ ~doc.free

\* assertLedgerable().
Ledgerable(read, doc) == doc.account = NoAccount \/ ~doc.free

\* assertAccountUsable(), assertLedgerable(); then the merged document settles.
\* found: the account was looked up, and usable.
Check(p) ==
  LET q == request[p]
      doc == Merged(q.doc, q.wanted)
      lookUp == LooksUpAccount(q.doc, doc)
  IN
  /\ At(p, "update", "check")
  /\ IF (lookUp /\ archived[doc.account]) \/ ~Ledgerable(q.doc, doc)
     THEN Finish(p)
     ELSE Becomes(p, [q EXCEPT !.at = "save", !.wanted = Settle(doc, q.cursor),
                               !.found = lookUp])
  /\ UNCHANGED <<upkeep, failures>>

\* (Mutant: the whole document is written, not the changed fields.)
SaveWhole(p) ==
  LET q == request[p] IN
  /\ At(p, "update", "save")
  /\ IF Live(schedules, q.id)
     THEN Write(q.id, q.wanted) /\ Blindly(q.id, q.doc)
     ELSE Unchanged
  /\ Finish(p)
  /\ UNCHANGED <<today, archived, failures>>

\* save() throws when the document is gone.
Save(p) ==
  LET q == request[p] IN
  /\ At(p, "update", "save")
  /\ IF Live(schedules, q.id)
     THEN /\ Write(q.id, Saved(schedules[q.id], q.doc, q.wanted))
          /\ Blindly(q.id, q.doc)
     ELSE Unchanged
  /\ Finish(p)
  /\ UNCHANGED <<today, archived, failures>>

Remove(p, i) ==
  /\ Subscription(i)
  /\ Begin(p, Done)
  /\ Write(i, [schedules[i] EXCEPT !.state = "gone"])
  /\ UNCHANGED <<today, archived, blind, failures>>

-----------------------------------------------------------------------------
(* bulkOperation().                                                        *)

Looked(q) == {q.doc[i].account : i \in DOMAIN q.doc} \ {NoAccount}

\* The documents of the household among those asked for.
BeginBulk(p, ids, action) ==
  LET known == {i \in ids : Subscription(i)} IN
  /\ known # {}
  /\ Begin(p, [Idle EXCEPT !.op = action, !.doc = [i \in known |-> schedules[i]],
       !.wanted = {}, !.cursor = today,
       !.at = IF action = "activate" THEN "look" ELSE "write",
       !.todo = IF action = "activate"
                THEN {schedules[i].account : i \in known} \ {NoAccount} ELSE known])
  /\ UNCHANGED <<upkeep, failures>>

\* activatableIds(): wanted, the accounts found usable.
Activatable(q) ==
  {i \in DOMAIN q.doc : q.doc[i].account \in q.wanted \cup {NoAccount}}

LookUp(p) ==
  LET q == request[p] IN
  /\ At(p, "activate", "look")
  /\ \/ \E a \in q.todo :
          Becomes(p, [q EXCEPT !.todo = @ \ {a},
                               !.wanted = IF archived[a] THEN @ ELSE @ \cup {a}])
     \/ /\ q.todo = {}
        /\ IF Activatable(q) = {} THEN Finish(p)
           ELSE Becomes(p, [q EXCEPT !.at = "write", !.todo = Activatable(q)])
  /\ UNCHANGED <<upkeep, failures>>

Activated(doc, now) == Settle([doc EXCEPT !.active = TRUE], now)

\* Those with a past date, which get a date of their own.
Rolls(q, i) == Activated(q.doc[i], q.cursor).next # q.doc[i].next

\* (Mutant: the date observed is not in the filter.)
MatchesAny(q, i) == Subscription(i)

\* The filters: of a rolled date, the date observed.
Matches(q, i) ==
  Subscription(i) /\ (Rolls(q, i) => schedules[i].next = q.doc[i].next)

\* bulkActivate(): bulkWrite of those that roll, then updateMany of the others;
\* either writes one document after the other.
Activate(p) ==
  LET q == request[p] IN
  /\ At(p, "activate", "write")
  /\ \E i \in q.todo :
       /\ (\E j \in q.todo : Rolls(q, j)) => Rolls(q, i)
       /\ IF Matches(q, i)
          THEN /\ Write(i, [schedules[i] EXCEPT !.active = TRUE,
                      !.next = IF Rolls(q, i) THEN Activated(q.doc[i], q.cursor).next ELSE @])
               /\ Blindly(i, q.doc[i])
          ELSE Unchanged
       /\ IF q.todo = {i} THEN Finish(p)
          ELSE Becomes(p, [q EXCEPT !.todo = @ \ {i}])
  /\ UNCHANGED <<today, archived, failures>>

\* updateMany() to paused, deleteMany().
Switch(p) ==
  LET q == request[p] IN
  /\ \/ At(p, "deactivate", "write")
     \/ At(p, "delete", "write")
  /\ \E i \in q.todo :
       /\ IF Subscription(i)
          THEN Write(i, IF q.op = "delete" THEN [schedules[i] EXCEPT !.state = "gone"]
                        ELSE [schedules[i] EXCEPT !.active = FALSE])
          ELSE UNCHANGED <<schedules, moved>>
       /\ IF q.todo = {i} THEN Finish(p)
          ELSE Becomes(p, [q EXCEPT !.todo = @ \ {i}])
  /\ UNCHANGED <<today, archived, blind, failures>>

-----------------------------------------------------------------------------
(* Around them.                                                            *)

\* The account is archived or restored.
Archive(p, a) ==
  /\ Begin(p, Done)
  /\ archived' = [archived EXCEPT ![a] = ~@]
  /\ UNCHANGED <<today, schedules, blind, moved, failures>>

\* (Mutant: what is due tomorrow posts today.)
DueTomorrow(doc) == doc.active /\ doc.next <= today + 1

Due(doc) == doc.active /\ doc.next <= today

\* materializeSchedule(): an occurrence posts, or passes; a bill whose account is
\* unusable waits.
Materialize(i) ==
  LET doc == schedules[i] IN
  /\ Live(schedules, i)
  /\ Due(doc)
  /\ doc.sub \/ doc.account \notin {a \in Accounts : archived[a]}
  /\ Write(i, [doc EXCEPT !.next = @ + Period])
  /\ UNCHANGED <<today, archived, blind, request, amid, failures>>

InitUpkeep ==
  /\ today = 0
  /\ archived = [a \in Accounts |-> FALSE]
  /\ blind = {}
  /\ moved = {}

SubscriptionRequest(p) ==
  \/ \E doc \in Creations : BeginCreate(p, doc)
  \/ \E i \in Ids, patch \in Patches : BeginUpdate(p, i, patch)
  \/ \E i \in Ids : Remove(p, i)
  \/ \E ids \in Selections, action \in {"activate", "deactivate", "delete"} :
       BeginBulk(p, ids, action)
  \/ \E a \in Accounts : Archive(p, a)

SubscriptionStep(p) ==
  Create(p) \/ Check(p) \/ Save(p) \/ LookUp(p) \/ Activate(p) \/ Switch(p)
=============================================================================
