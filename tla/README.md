# Formal models of the household budgeting app

TLA+ specifications of the NestJS/MongoDB service in `src/backend` and of the
parts of its web client in `src/frontend` that run concurrently with it, with TLC
configurations that check them on small instances and TLAPS proofs of the central
ones. Paths below are relative to `src/backend/src/`; those that begin with `web/`
to `src/frontend/src/`.

Four facts about the program shape every model:

- MongoDB is used with single-document atomicity only. The services use no
  multi-document transaction, "by design" (`reconciliation/reconciliation.service.ts:42-51`).
  Every `await` on a database call is a point where other requests run.
- Documents are mostly changed by *load, check, `save()`*. Mongoose's `save()`
  writes the paths that differ from the document read and checks nothing else.
  A few writes are guarded instead: `$inc`, compare-and-set filters, unique indexes.
- Background jobs run on every server instance. A unique `(key, day)` lock
  document elects the instance that does the work, and is never released. Boot
  tasks run on every instance that starts, without a lock.
- The client applies whatever answer arrives, in the order of arrival, except
  where an effect's cleanup or an epoch says otherwise.

## Inventory

| component | state | operations | what is hard | what makes it correct |
| --- | --- | --- | --- | --- |
| Transaction ledger (`transactions/`) | transaction documents | create, update, remove, `materializeRecurring`; aggregations for reconciliation, budgets, reports | a row and the balances it moves are separate writes; edits of one row overlap | balance = opening + ledger, up to increments in flight |
| CSV import (`transactions/`) | the same documents | parse, dedupe, unordered batch, one `$inc` | uploads overlap; part of a batch is refused; death before the `$inc` | every row once, the balance counts what landed |
| Accounts (`accounts/`) | cached `balanceCents`, `openingBalanceCents`, type, archived flag | create, update, archive; `$inc`; compare-and-set; anchor stamp | the cache is written by four other components | same; no new activity on archived accounts |
| Balance reconciliation (`reconciliation/`) | none of its own | weekly cron, ops run, dry run, boot backfill | scan, aggregation and correction are separate reads and writes | no false alarm; drift is eventually healed; anchors are right |
| Recurring schedules (`recurring/`) | schedule: nextDate, endDate, cadence, anchor day, active, account | create, update, remove; daily materialization with catch-up | crash between insert, balance and advance; stale document held by the job; reference checks once per run | each occurrence posted exactly once, in order; no backfill of subscriptions |
| Cadence arithmetic (`recurring/recurring-dates.util.ts`) | none | add a period, roll to today, reminder window | month lengths, leap days, anchors | no drift |
| Cron lock (`common/cron-lock/`) | `(key, runDate)` documents | tryAcquire | never released, so a dead run is not retried the same day | one run a day, missed work made up for |
| Subscriptions (`subscriptions/`) | the same schedule documents with `isSubscription` | create, update, remove, bulk switch and removal, export | bulk decisions on old reads while midnight moves dates | no backfill, no step back, no resumption on an archived account |
| Notifications (`notifications/`) | reminders keyed by schedule and billing date | daily reminder job, read, remove | best effort once a day, over schedules that change | everyone due is reminded, once |
| Households (`households/`) | households, memberships, invitations | create, invite (revokes earlier invitations), accept (switches the household in place), remove; expiry; guard; boot migration | three documents per operation, no transaction | one home per user, invitations mean what they say |
| Users, admin (`users/`, `admin/`) | users, roles | register, delete, promote, demote with roll-back | a user is deleted piece by piece; demotions race | an administrator remains; nothing points at the deleted |
| Auth (`auth/`) and the client's session (`web/lib/api.ts`, `auth-context.tsx`) | refresh tokens, reset tokens, token version; cookie and storage | login, rotation, logout, change and reset of the password | rotation is three steps; two tabs share one cookie | what ends a session ends it, and nothing else does |
| Goals (`goals/`) | progress, baseline, link to an account | contribute, link, relink, unlink, update, remove | progress derived from a balance others move | link changes do not move progress |
| Categories, labels (`categories/`, `labels/`) | groups and categories with order and archived flag; label tree | CRUD, seed and backfill of defaults, reorder, re-parent | checks before writes, seeders that die or overlap | references resolve, no loop, defaults complete and never resurrected |
| Budgets (`budgets/`) | a limit per category and month | set, bulk set, clear, month's view | a view and an edit of it cross | what is shown is what is stored |
| Reports (`reports/`) | none | cash flow, net worth, spending | accounts that appear within the range, orphaned categories | the figures agree with each other |
| Web pages (`web/app/`, `web/components/`) | what is on the screen, calls under way | load, edit, refresh, page, filter, import wizard, bell | answers out of order, calls that fail after they were carried out | at rest the screen shows what is stored and selected |
| Index build, mail, health, configuration | none | I/O | - | - |

Components interact by calls between services in one process (transactions call
accounts and labels; the scheduler calls transactions, accounts and categories;
reconciliation calls transactions and accounts; registration provisions a
household, which seeds its categories), by sharing collections (subscriptions,
recurring and reminders share schedules; goals read account balances), and by
HTTP between the client and all of them.

`PROJECT.json` lists the components with their status and every hazard at the
line where it bites, with the properties that would catch it.

## Modules

| module | models | relation |
| --- | --- | --- |
| `LedgerRows` | stored rows, validation, the reconciliation aggregation with its `$sum` | extended by `Books`, `Ledger` |
| `Books` | abstract: a write changes a row and its balances in one step | refined by `Ledger` |
| `Ledger` | transaction writes, balance increments, reconciliation | the core |
| `LedgerProofs` | theorems about the ledger, and that it refines `Books` | see Proofs |
| `Occurrences` | abstract: occurrences are posted one by one, in order | refined by `Recurring` |
| `Recurring` | one schedule, the daily job, the cron lock, PATCH requests | |
| `RecurringProofs` | theorems about the schedule and its job, that it refines `Occurrences`, and about `Cadence` | see Proofs |
| `Cadence` | date arithmetic on a real calendar | pure, plus one schedule's life |
| `Households` | households, memberships, invitations, provisioning | extended by `Tenancy` |
| `Tenancy` | users and administrators, deletion, boot migration, composed with `Households` | run `tenancy` |
| `TenancyProofs` | theorems about administrators, homes, invitations and leaving | see Proofs |
| `Sessions` | the server's sessions: tokens, passwords, reset links | extended by `Browser` |
| `Browser` | two tabs with one cookie, composed with `Sessions` | run `sessions` |
| `SessionsProofs` | theorems about waiting calls; about sessions, passwords, links and giving up | see Proofs |
| `Handlers` | requests as sequences of database operations; what overlapped with what | extended by the next seven |
| `Categories`, `Labels` | the two catalogues, their checks, seeding | extended by `Catalogue` |
| `Catalogue` | records that name categories and labels, budget limits, composed with both | run `catalogue`, `CatalogueProofs` |
| `Accounts` | accounts, anchors and rows as imports and goals see them | extended by the next two |
| `Imports`, `Goals` | CSV import; goals and links | extended by `Savings` |
| `Savings` | both over the same balances | run `savings`, `SavingsProofs` |
| `Subscriptions` | subscription requests against the midnight job | extended by `Reminders` |
| `Reminders` | the reminder job and its notifications over those schedules | run `reminders`, `RemindersProofs` |
| `Records` | where a category or a label may be named, as the removals look for it | used by `Categories`, `Labels` |
| `Wire` | calls of a page: carried out, answered in any order, lost before or after | extended by the pages |
| `CategoriesPage`, `BudgetPage`, `ReportsPage`, `Bell`, `TransactionsPage` | five parts of the client with the endpoints they call | composed in `Pages` |
| `PagesProofs` | theorems about all five pages and about the reports | see Proofs |
| `Reports` | cash flow, net worth, spending and budget figures as functions of a ledger | used by `ReportsPage`, `Pages` |
| `MC...` | model values and small inputs for TLC | |

### Ledger

State: `balance` and `opening` are `balanceCents` and `openingBalanceCents`;
`rows` the transaction documents; `request[r]` what an HTTP request holds in
memory, with its position; `sweep[k]` the same for a reconciliation run. Three
variables are history: `failures` counts failures, `race` and `tainted` record
what happened, and no guard of the program reads them.

A request is `Create`, or `Read` followed by `SaveUpdate`, `SaveMissing` or
`DeleteRow`, and then one `ApplyLeg` for each `$inc` of `syncBalances`, in the
order the code issues them: the old row's source and destination, then the new
row's. `DropLegs` is a throwing `$inc` or a dead process: what was not issued
never is. `Abort` is everything that rejects a request before its first write.
`Patched` is `save()`'s rule: only fields the request changed are written.
`DeleteRow` ignores whether the row still exists, as `deleteOne` is used.
A reconciliation run is `Scan`, `Sum`, and per account `Correct` or `LeaveAlone`.

`LedgerDelta`, the aggregation's view of a row, is written from the pipeline
and independently of the write path's legs, so a disagreement of the two would
show.

Abstractions: dry runs are absent; the boot backfill and CSV import are in
`Savings`. The accounts are those of one household; others are independent.
`findForReconcile` and the aggregation are each one atomic read (MongoDB promises
a little less for a collection scan). Amounts and accounts are small sets;
categories, labels, dates and payees move no balance.

### Recurring

State: `schedule` is the document with the fields the job depends on; `posted`
the unique index `{ recurringId, date }`; `run[s]` the job on server `s`;
`edit[e]` a PATCH between its read and its `save()`; `claimed` the lock's key of
`today`. `balance` counts occurrences applied less those undone. `everPosted`,
`from`, `expired`, `since` are history.

`Init` is the state `create()` leaves, on a day that may be later than
`nextDate`. The job: `Claim`, `Scan` (the cursor yields the document, also a
second time after the run itself moved it in the index), `Resolve` (once), then
per occurrence `Insert`, `Sync`, `Advance`, or `Expire` past the end date.
Local computation between two database calls belongs to the step before
(`LoopHead`). `Crash` covers both a dead process and a throwing call, which
gives the schedule up until the next day's run. `Midnight` changes the lock's
key. PATCH is `ReadForEdit` and `SaveEdit`/`SaveMissing`; its checks run on the
document read. `DeleteRow`, `Archive` and `Remove` are other users.

Abstractions: dates are whole days and the cadence a fixed number of days
(`Cadence` has the real ones). Schedules are independent because the job
isolates them. The category is taken to stay usable; it is checked where the
account is. The time of day of nextDate, which the code strips for the index, is
left out.

### Cadence

A date is its UTC day's number, on a calendar with real month lengths and leap
years. `AddCadence`, `SettleDate` and `InReminderWindow` follow the source line by
line over JavaScript's carrying `Date` operations (`SetDate`, `ShiftMonth`,
external). One schedule is advanced and re-anchored; the reference is `Nth`,
which computes occurrence `k` from the user's date at once. Its initial states, actions
and type invariant carry the module's name (`CadenceSpec`), since one module of
proofs extends `Recurring` as well. Dates fall between the constants `FirstYear` and
`LastYear`; the calendar goes on to `EndOfTime`, so that a period, or a roll by 200 days,
that begins within those years ends on it.

### Households and Tenancy

State: `account[u]` is a user's life; `households[h]` the `ownerId`; `members` the
rows of the membership collection, with the unique index on a user's active row
(`HasActive`); `invitations` in the order they were written; `request[p]` what a
handler or a boot has in memory. Actions are the database operations of
`createHousehold()` with its roll-back (`SaveHousehold`, `AddOwner`,
`UndoHousehold`), on behalf of a registration, of `provisionPersonalHousehold()`
or of the boot; of `inviteMember()` (`CheckInvitee`, `Supersede`, which revokes the
earlier invitations, `InsertInvitation`); of `acceptInvitation()`
(`LookUpMembership`, `FindActive`, `CountOthers`, then `saveSwitch()` or
`addMember()`, then `markAccepted()`); and of `removeMember()` (`FindMember`,
`DeleteMember`). `Expire` lets an invitation expire. In `Tenancy` there follow
registration, deletion by an administrator (nobody deletes their own account,
`admin.controller.ts:115`), promotion, demotion with its roll-back, the seeding of
the administrator and the boot migration (one unlocked run per replica). `Throws`
is a failing call with the `catch` the code has there, `Dies` a dead process. Two
variables are history: `disturbed` holds the users and households two handlers
worked on at the same time, `overtaken` whether a role or a deletion was written
over an administrator past the check that one remains, or that check was lost.

Abstractions: a user stands for the address invitations are sent to; tokens and
e-mail are left out; all memberships are active, as the code writes them. The households that nobody belongs to are reused, which bounds them.

### Sessions and Browser

`Sessions` has one account: its password (named by the request that set it) and
`tokenVersion`, the refresh tokens in a chain per session, the access tokens
signed, the reset links. The handlers login, refresh, logout, change, forgot,
reset and delete go one database operation at a time; `Fails` is a call that
throws or a process that dies. `Browser` adds two tabs which share one cookie and
one `localStorage`, while each has its own `refreshPromise`: calls are sent,
refused with 401, wait for the tab's refresh, and are retried once. `Refused` is
a refresh answered with 401 and the redirect that follows.

Abstractions: times are left out, so a token may expire at any time
(`ExpireAccess`); a refresh token that expired after seven days is as good as
revoked and is not told apart. A logout whose call is lost leaves the server's
session alone and is not counted as ended.

### Handlers, Categories, Labels, Catalogue

`Handlers` is the frame for the modules of one household's requests: a handler is
a record with the step it is at and what it has read; `amid` is the history of
what it overlapped with. `Categories` has groups and categories with their unique
names, the seeder and its backfill step by step, creation, edits, moves and the
removals that archive what is referred to; `Labels` the tree with the walk up it
before a re-parenting; `Catalogue` the records that name either (transactions,
goals, schedules, budget limits), each checked and then written. History marks
(`torn`, `tied`) exempt only documents whose writer overlapped with the removal,
so that the properties are about all others.

Abstractions: names are two or three model values; the sort order is in
`CategoriesPage`; one record kind stands for bills and subscriptions; the
get-or-create of a month's budget document is left out.

### Accounts, Imports, Goals, Savings

`Accounts` are balances, anchors, rows and the archived flag, with a manual
transaction as one step (`Ledger` takes it apart) and the boot's anchor as a read,
a sum and a guarded stamp. `Imports` is the upload: read the stored keys, skip
duplicates, insert the rows one by one with refusals (`LoseRow`), then one
`$inc`, which a death in between loses. `Goals` has create, edit, contribute,
link, relink, unlink and removal with their filters. `owed` is the reference for
progress: what was contributed and what the linked account moved by.

Abstractions: a row of a file is the key it is compared by, or bad; parsing of
columns is left out, so is the fallback category.

### Subscriptions and Reminders

A schedule document has the fields these requests decide by. `create`, `update`
with its two checks and `save()`, removal, bulk activation, pausing and removal
run against the midnight job, one step per occurrence here because `Recurring`
has its steps. `Reminders` adds the 9 o'clock job: lock, cursor, one upsert per
schedule, a failing upsert that is caught, a dead round, and the member who reads
and deletes. `blind`, `moved` and `told` are history.

Abstractions: free or not stands for the amount; the cadence is a number of
days; a bulk removal is the removal of each.

### Pages

`Wire` is what the pages have in common: a call is carried out by the server, its
answer travels, or the call fails before or after it was carried out; answers
arrive in any order. Each page module has the state of the component's hooks, one
action per click and one per promise handler, and the endpoint's effect:

- `CategoriesPage`: moves (optimistic, then a refresh or a re-read after an
  error), archiving, refreshes, the epoch that makes a reorder's answer stale.
- `BudgetPage`: catalog, a month's budget, saves and clears, switching months.
- `ReportsPage` with `Reports`: the range, the fetch, and the figures.
- `Bell`: poll, list, read, read all, dismiss, against another member.
- `TransactionsPage`: filter, paging, deletion, import wizard, balances.

`Pages` opens one of them, from its mount on; `page` says which.

Abstractions: an epoch is kept as what it is compared for, so a fetch that was
cancelled or outdated leaves the wire. A call that fails was carried out or never
will be. What is stored when the page opens is one of the constant `Lists`, and
the amounts of the transactions that are recorded are `Amounts`: both are small for
TLC and arbitrary in the proofs. The groups of the categories page go through the same `runReorder()` as
the categories and are not repeated. The bulk write of a reorder is one step. A
report's answer stands as the length of the ledger it was computed from. Every
account has a date of creation: one without, which `getNetWorth()` shows in every
month (`reports.service.ts:332-341`), is left out. The
accounts have been read when the transactions page opens. The transaction form
ends as a deletion does, in `afterMutation()`, and is left out with the columns
of a CSV file.

## What the runs show

All passing runs are exhaustive. Deadlock checking is off where a finite number
of requests, clicks or periods really ends, and on where the system never stops.
A run checks a conjunction of named parts where they are about one thing; the
parts are listed.

| run | question | bounds | distinct states |
| --- | --- | --- | --- |
| `ledger` | Do the books balance at every instant, what may a sweep rely on, is drift healed for good? `TypeOK`, `BooksBalance`, `SweepSound`, `NoFalseAlarm`, `EventuallyExact` | 2 accounts, amount 1, 1 row stored at first or not, 2 unserialized requests, 1 sweep, 1 failure | 1.40 M |
| `ledger_atomic` | Do stepwise writes look atomic? `ImplementsBooks` | 2 accounts, 2 rows, 3 requests, one editor per row, no failure | 425 k |
| `ledger_stale_edit` | "kept in sync on every write" `KeptInSync` | 3 requests on one row | violated |
| `recurring_bills` | Is each occurrence of a bill posted, once, in order, until the end date? `TypeOK`, `LedgerComplete`, `ShortByCrashes`, `EndsOnTime`, `PostsInOrder` | 2 servers, 3 days, cap 2, 1 crash, 1 PATCH of the date, rows deleted, account archived, schedule removed; created on its day or after it | 3.11 M |
| `recurring_catches_up` | Does a due schedule get done? Do edits one after the other never backfill? `CatchesUp`, `NeverBackfilled` | 1 server, 3 days, bill and subscription, 2 PATCHes of date, pause and account, archiving, 1 crash | 1.80 M |
| `cadence` | Do dates drift? `NoDrift`, `LegacyDriftBounded`, `Punctual` (`SettlesOnFirst`, `RemindsBeforeDue`), `CadenceTypeOK` | created on the 15th and 28th to 31st of January, February and December 2023; 13 periods, then one edit and 13 more, to 2026 | 14 k |
| `tenancy` | Who belongs where? `HomesHold` (`OneHome`, `Housed`, `NoOrphans`), `InvitationsHold` (`InvitedOnly`, `SpentOnce`, `NewestOnly`), `AdminRemains`, `LeavesRightly` (`OwnersLeaveLast`, `RemovesOwnMember`) | 3 users, 2 requests at a time, 1 boot, 3 invitations, 1 failure | 2.85 M |
| `sessions` | What ends a session? `SessionsHold` (`OneTokenPerSession`, `LogoutEndsSession`), `CredentialsHold` (`PasswordEndsSessions`, `PasswordEndsAccess`, `LinkUsedOnce`, `NewestLinkOnly`), `NobodyWaitsInVain`, `NoSpuriousLogout` | 2 tabs, 3 calls or requests, 1 failure | 2.58 M |
| `catalogue` | Do references resolve? `ReferencesResolve` (`NoDangling`, `GroupsHold`, `ParentsHold`, `Forest`), `SeedComplete`, `WalksAndSeeds` (`WalkAdvances`, `SeedsOnce`) | 3 requests, 2 at once, 2 groups, 2 categories, 3 labels, 1 failure | 3.06 M |
| `savings` | Do imports and links count right? `ImportsHold` (`BalanceIsLedger`, `ImportedOnce`), `GoalsHold` (`ProgressKept`, `AccountFits`), `LeavesNothingOut`, `AnchorSound` | 2 accounts, 2 row keys, files of 2 and 3 rows, 1 goal, 3 requests, 2 at once, 1 failure | 2.31 M |
| `reminders` | Are subscriptions switched on soundly and everyone reminded once? `TrackedAndTold` (`FreeIsUntracked`, `RemindedOnce`), `ActivatesSoundly` (`NoBackfill`, `ResumesUsable`, `NoStepBack`), `Reminded` (`RemindedInTime`, `StaysRead`) | 2 schedules, 1 account, 1 server, 2 days, 2 requests, 1 failure | 4.12 M |
| `pages` | Does the screen show what is stored? `ScreenSettles` (`ListSettles`, `BudgetSettles`, `BellSettles`, `ListMatchesControls`, `MutationShows`, `EmptyMeansNone`), `NeverStuck`, `CallsSound` (`ImportsWhatItNames`), `WritesAsMeant` (`MovesOnePair`, `ZeroIsKept`), `ReportsAgree` (`FlowExplainsWorth`, `RangeIndependent`, `SpendingAddsUp`) | 3 categories, 2 months, 2 reminders, 3 rows on pages of one, 2 files and a refused one, ledgers of up to 2 transactions over 3 months; 2 or 3 actions of the member per page, 2 lost calls | 2.28 M |

The type invariants of the composed modules are the first part of `HomesHold`,
`SessionsHold`, `ReferencesResolve`, `ImportsHold`, `TrackedAndTold` and
`CallsSound`.

Why the bounds suffice. Ledger: a row has at most two accounts and three kinds of
change, and an anomaly needs two requests on one row, which may be there from the
start; a create and a deletion are a change and its opposite between the steps of
a sweep. Two accounts allow a transfer and its reversal, and a patch that changes
the account, the type or both; the proofs cover every amount. Recurring: a catch-up of two or three occurrences over a cap of two meets
the cap, the end date and today in every order, and two servers are enough for a
run that outlives its day to overlap the next. The calendar spans a leap February
and both its neighbours, and the days of the month are those on which clamping
differs. The others: the hazards are between two handlers, one of which may die,
so two at once and one failure are enough; three users are an owner, a member and
an administrator who is neither; three calls are two that share a refresh and one
that comes when it ends; a third request, after the two that overlapped, shows
what they left behind. On a page, an answer that comes too late needs two calls,
and a third shows whether the page gets over it.

The exceptions the properties name (`disturbed`, `amid`, `torn`, `tied`, `stale`,
`mixed`, `blind`, `tangled`, `overtaken`, `strayed`, `crossed`) are history, set when
handlers crossed in a way the code has no means to notice, or a failure took a
write that was to follow. `disturbed` and `amid` are the widest: they record that two
handlers worked on the same thing at once, whether or not it did harm. Without its
exception each of these properties fails, so they say how far the code's promises
reach, and the hazards in `PROJECT.json` note which one leaves its own race out.

Fairness. `Ledger`: a request that began runs on or is rejected, since Node's
event loop resumes it and its failures are bounded; the reconciliation cron
keeps firing (`reconciliation-cron.service.ts:23`). No fairness is put on
`Start`, `DropLegs` or `AbandonSweep`. `Recurring`: days pass, the daily cron
fires and some server claims the key (`recurring-cron.service.ts:25`), and a run
that began takes its next step. No fairness is put on users or crashes. For
`CatchesUp`, "due and never serviced" would be wrong for a bill whose account
stays archived, which the code leaves due on purpose; the property assumes the
account is eventually usable for good, or the schedule a subscription, which
advances without posting. The other modules state no fairness: what they promise
is about states in which nothing is under way (`AtRest`, the end of a job), or
about single steps (`WalkAdvances` is the variant that bounds a walk).

Every part of a passing run's property has a mutant in `PROJECT.json`: an operator
defined beside the original with a plausible mistake, under which TLC finds the
property violated. They are marked `(Mutant: ...)` in the modules.

### Disagreements with the repository's own words

Kept as a run, with the quoted lines under "findings" in `PROJECT.json`:

- `ledger_stale_edit`. Two requests on one row both reverse the effect of the
  row they read, because `remove()` does not look at `deletedCount`
  (`transactions.service.ts:684`) and `update()` does not check that the row is
  still the one it read. The balance drifts without any failure. The weekly
  sweep heals it (`EventuallyExact`).

Shown by the same modules with other constants or with a property's exception
taken out, not kept as runs:

- "A CAS miss rather than a clobbered balance" (`reconciliation.service.ts:38-40`):
  `compareAndSetBalance()` (`accounts.service.ts:252`) compares a value, so two
  complete writes that cancel out after the scan go unnoticed and a sum that
  counts one of them is written. `SweepSound` exempts it by `race`.
- "It is never backfilled through the API, whatever path got it there: create with
  a past date" (`recurring-dates.util.ts:68-71`): `RecurringService.create()`
  (`recurring.service.ts:172`) accepts `isSubscription` with an account and a past
  date and stores it as it is. `NeverBackfilled` fails with subscriptions created
  late.
- "Deactivate in the same write ... when the schedule has now run its course"
  (`recurring.service.ts:634-635`): the job decides by the end date it read and
  its guard looks at `nextDate` only (l. 814), so an end date extended meanwhile is
  overruled. `EndsOnTime` fails with `"end"` in `Patchable`.
- Two PATCHes, an attach and a reactivation, read before either was saved, each
  find the other condition unmet, and neither rolls the date
  (`recurring.service.ts:396`): `NeverBackfilled` fails with two editors.
- "References that cannot change mid-loop" (`recurring.service.ts:822-824`): an
  account archived after `Resolve` still receives the rest of the catch-up.
- "A clean run never reaches here" (`transactions.service.ts:227-228`): a
  `nextDate` patched back onto a posted day reaches the duplicate path without a
  crash.
- "Exactly right ... for legacy rows" (`recurring-transaction.schema.ts:117-119`):
  a schedule without an anchor moves from the 31st to the 28th for good, which
  is what `LegacyDriftBounded` bounds.
- "Two concurrent demotes can't both observe a safe count, so the 'at least one
  admin' invariant holds" (`users.service.ts:161-162`), "so two concurrent demotes
  can't race the last admin away" (`admin/admin.controller.ts:91-93`): they can, by
  way of the update that follows. Two PATCHes make a user of the last
  administrator. The first demotes her. The second finds no administrator to
  demote, which is its no-op. The first counts none, restores her role and rejects.
  Then the second goes on to `update()` (`admin/admin.controller.ts:97`), which
  writes the role of a user, and no administrator is left. Nothing failed, and one
  member who submits twice is enough. TLC finds it as soon as `overtaken` is taken
  out of `AdminRemains`, with `MaxFailures = 0`. For the same reason a deletion can
  take the last administrator: its own demotion did nothing because another
  request's was not taken back yet, or the user was promoted after it. A process
  that dies between a demotion and its roll-back, or a roll-back that throws (which
  the code logs as critical), leaves none as well.
- "The write misses and the subscription counts as failed instead of having a newer
  date overwritten" (`subscriptions.service.ts:630-632`) is true of the bulk switch
  it is said of. The same roll in `update()` ends in `save()` (l. 482-484), which
  has no such guard: a PATCH that names no date, but attaches an account to a past
  subscription, rolls the date it read forward, the midnight job moves the stored one
  further, and the save puts the older one back. `NoStepBack` fails without
  its last disjunct; with it, what is put back is never before the day of the
  PATCH.
- A household left through a pending invitation (`households.service.ts:427-441`):
  the count of the other members and the switch are two operations.
- Defaults a member deleted come back when a second seeder is still on its way
  (`categories.service.ts:92-96`).
- A reminder deleted inside its window is created again on the next day
  (`notifications.service.ts:158-163`).
- "An empty save on a $0 row is a no-op" (`web/app/budget/page.tsx:213-215`): not
  when the screen shows the month from before the member's own last write.
- The refreshes after archiving and moving are not numbered
  (`web/app/categories/page.tsx:101-119`): an older list can replace a newer one.
- The transactions page handles a failing refresh of the accounts
  (`web/app/transactions/page.tsx:158-164`) that never fails, because the context
  swallows the error (`web/lib/accounts-context.tsx:42-44`).
- The deletion of the only row of the last page leaves "No transactions found."
  (`web/app/transactions/page.tsx:348`) and, with one page left, no button to leave
  it (l. 407).

## Proofs

Proved for every value of the constants. The ledger's theorems rest on
`LedgerAssumption`, `RowsAssumption` and `StockAssumption` (account ids differ from
the absent one, amounts are positive integers, opening balances integers, numbers
of rows and requests natural, a row stored at first is valid):

- `LedgerProofs!TypeCorrect`: `Spec => []TypeOK`.
- `LedgerProofs!BooksAlwaysBalance`: `Spec => []BooksBalance`.
- `LedgerProofs!SweepsAreSound`: `Spec => []SweepSound`.
- `LedgerProofs!CalmSweepsAreHarmless`: `Spec => []NoFalseAlarm`.
- `LedgerProofs!LedgerImplementsBooks`: with one editor per row, no
  failures and no reconciliation, `Spec => ImplementsBooks`.

The scheduler's rest on `RecurringAssumption` (the servers are finitely many, the
period and the cap at least one, days and bounds natural):

- `RecurringProofs!ScheduleTypeCorrect`: `Spec => []TypeOK`.
- `RecurringProofs!BalanceShortByCrashes`: `Spec => []ShortByCrashes`.
- `RecurringProofs!ScheduleEndsOnTime`: `Spec => []EndsOnTime`, if no request
  changes the end date.
- `RecurringProofs!BillLedgerComplete`: `Spec => []LedgerComplete` for a schedule
  that is a bill and stays one.
- `RecurringProofs!SubscriptionsNeverBackfilled`: `Spec => []NeverBackfilled` with
  one PATCH at a time, for subscriptions created no later than their date.
- `RecurringProofs!SchedulePostsInOrder`: `Spec => PostsInOrder` for a bill whose
  end date no request changes.

Those about the cadence rest on `CadenceAssumption` (the years are natural and the
last not before the first, schedules start on days 1 to 31 of months 0 to 11,
the bounds are natural):

- `RecurringProofs!CadenceTypes`: `CadenceSpec => []CadenceTypeOK`.
- `RecurringProofs!NeverDrifts`: `CadenceSpec => []NoDrift`.
- `RecurringProofs!LegacyDriftsOnce`: `CadenceSpec => []LegacyDriftBounded`.
- `RecurringProofs!OnTime`: `CadenceSpec => []Punctual`.

The conditions on the end date, on PATCHes that overlap and on the day of creation
are three of the disagreements above: without them the property fails. A schedule
turned into a subscription may skip days on purpose.

The theorems about households rest on `TenancyAssumption` (the seeded administrator
is a user, the absent user is none, no request is a boot), `BoundsAssumption`
(users and handlers are finitely many and no numbers, the bounds natural) and
`HomeAssumption` (each user the system starts with has a household of his own):

- `TenancyProofs!AnAdminRemains`: `Spec => []AdminRemains`.
- `TenancyProofs!EveryoneHasOneHome`: `Spec => []HomesHold`.
- `TenancyProofs!InvitationsMeanWhatTheySay`: `Spec => []InvitationsHold`.
- `TenancyProofs!MembersLeaveRightly`: `Spec => LeavesRightly`.

Those about sessions rest on `SessionsAssumption` (calls are not numbered like
requests, the absent tab is none, the bounds are natural) and `BrowserAssumption`
(the absent refresh is no call):

- `SessionsProofs!NobodyIsLeftWaiting`: `Spec => []NobodyWaitsInVain`.
- `SessionsProofs!SessionsAreChains`: `Spec => []SessionsHold`.
- `SessionsProofs!PasswordsEndSessions`: `Spec => []CredentialsHold`.
- `SessionsProofs!TabsGiveUpRightly`: `Spec => NoSpuriousLogout`.

Those about the catalogue rest on `DefaultsAssumption` (the default set is a list of
groups, each with its categories, in which no name occurs twice, and its documents
fit in the bounds), `HandlersAssumption` and `LabelsAssumption` (bounds are natural):

- `CatalogueProofs!ReferencesAlwaysResolve`: `Spec => []ReferencesResolve`.
- `CatalogueProofs!SeedAlwaysComplete`: `Spec => []SeedComplete`.
- `CatalogueProofs!WalksAndSeedsAlways`: `Spec => WalksAndSeeds`.

Those about imports and goals rest on `AccountsAssumption` (amounts are integers,
"no anchor" is none, the absent account is no account), `ImportsAssumption` (a file
is a sequence of keys and bad rows), `GoalsAssumption` (each type of goal has its
class of accounts, the absent type is none, contributions are integers) and
`HandlersAssumption`:

- `SavingsProofs!ImportsAlwaysHold`: `Spec => []ImportsHold`.
- `SavingsProofs!GoalsAlwaysHold`: `Spec => []GoalsHold`.
- `SavingsProofs!UploadsLeaveNothingOut`: `Spec => LeavesNothingOut`.
- `SavingsProofs!AnchorsAreSound`: `Spec => AnchorSound`.

Those about subscriptions and reminders rest on `SubscriptionsAssumption` (a period is
at least a day, what a member may write are the known fields with values of their
type) and `RemindersAssumption` (at first no free subscription has an account):

- `RemindersProofs!TrackedAndToldAlways`: `Spec => []TrackedAndTold`.
- `RemindersProofs!RequestsActivateSoundly`: `Spec => ActivatesSoundly`.
- `RemindersProofs!EverybodyIsReminded`: `Spec => Reminded`.

Those about the pages rest on `PagesAssumption` (there are five pages), on
`WireAssumption`, `ListAssumption`, `BudgetAssumption`, `BellAssumption` and
`TableAssumption` (bounds are natural, there is a month and a page has room for a
row, what may be stored at first is a list, limits are natural numbers, files hold
rows, "none" is no file and no limit) and, for the figures, on `LedgerAssumption`
and `ReportsAssumption` (a transaction has a type, a month within the span and
accounts that exist, its amount is a natural number; accounts and expense categories
are finitely many, an account is an asset or a liability, balances are integers):

- `PagesProofs!ScreensSettle`: `Spec => []ScreenSettles`.
- `PagesProofs!NobodyIsStuck`: `Spec => []NeverStuck`.
- `PagesProofs!CallsAreSound`: `Spec => []CallsSound`.
- `PagesProofs!WritesMeant`: `Spec => WritesAsMeant`.
- `PagesProofs!ReportsAlwaysAgree`: `Spec => []ReportsAgree`.

### The argument for the ledger

The inductive invariant is
`IInv == TypeOK /\ WellFormed /\ BooksBalance /\ SweepSound`. `BooksBalance`
alone is not inductive: a step that persists a row must know that its pending
legs are exactly those of the row it read and the row it wrote (`WellFormed`),
and a correction by a sweep preserves the books only because of what the sweep's
scan and sum still say about the account (`SweepSound`). `race` is the history
that makes this expressible: it distinguishes no write, one write and several
writes since the scan, and a write half done at the scan or the sum. With none,
the scan is the balance. With one, either the sum counts that write, or balance
and ledger both moved by it, so that drift computed from the old pair is the
drift of the new one. With several, the compare-and-set can match by accident,
and the account is marked `tainted` when it lands; so is an account whose
increments were dropped or whose row was changed under a stale read. `tainted`
therefore excludes exactly the anomalies the code has, and a calm correction
removes an account from it.

The sums are a recursive function, which to the prover is a `CHOOSE`; that it
obeys its recursion, and that changing one term changes the sum by the
difference, is at the head of `LedgerProofs`, from the least-element principle for natural
numbers. One action changes one row and the legs of one request, so each
preservation step is arithmetic over these lemmas.

The refinement adds the increments in flight to each balance. Under serial edits
`current = before` whenever a request persists a row, so the balance plus the
legs moves by the difference of the two rows (`BookStep`), and applying a leg is
a stutter.

### The argument for the scheduler

`TypeOK` needs `InTime`: `nextDate` stays within one period of the horizon because
no run stands at an occurrence later than its own day. On top of it:

- `EndInv`: a run's copy of the end date is the stored one, and a run that expires
  a schedule stands past it. Only the guard of `advanceSchedule()` ties the two.
- `ShortByCrashes` is inductive with the type invariant; the servers between an
  insert and its `$inc` are counted as a finite set, and `Insert` adds to the rows
  and to that set only if the unique index let it.
- `BillInv`: a run behind an occurrence it is about to advance past has posted it
  (`Behind`), and `nextDate` is a whole number of periods after the date the user
  chose (`Whole`). `Advance` moves it by one period, and between two aligned days
  there is no other (`Gap`).
- `ForwardInv`: what a PATCH has read differs from the document it saves into only
  by what the job may have done since, an advance or a deactivation (`Informed`).
- `TrackInv`, for the refinement: a run stands at the stored date or whole periods
  behind it. At it, its insert is the abstract `Post`; behind it, `LedgerComplete`
  says the row is there, so the insert is a stutter. The abstract `next` is past
  the stored one exactly between the insert and the advance.

### The argument for the cadence

The calendar is a recursive function, and so is the walk of `SettleDate`: each is
the value CHOOSE takes among the functions that obey its equation, of which
something is known only once one exists. Induction is done with the least
counterexample (`LeastElement`): `CalendarExists` builds the calendar a month at a
time from the first, `WalkExists` the walk a day at a time back from today, below
which every step goes forward but not past the longest period (`StepIs`). Months are
28 to 31 days (`MonthsApart`), so each day has exactly one month, the search for it
begins early enough (`MonthIs`), and months and days convert back and forth
(`InMonth`, `UtcIs`).

`AddCadence`, by way of the 1st, is then the month `MonthsIn` later and the anchor day
or the last day of that month (`MonthsOn`). `NoDrift` alone is not inductive: it says
nothing of the month and the day apart. `OnCourse` does: the months since the chosen
date are a multiple of the cadence's, the day is the chosen one clamped to the month
at hand (never to an earlier month), the anchor is the chosen day. `Punctual` follows:
each occurrence before today leads to the next, and the 29th is not before it
(`OccurrencesLead`), so the walk takes the occurrences one by one up to the first that
is not past (`SettlesFirst`).

### The argument for administrators

`AdminRemains` says that when there is no administrator, somebody still has to count
or to restore one. To be inductive it needs to know that whoever counts can: the
user of an unfinished demotion still has a live account (`Recoverable`), or a
deletion overtook it, which `overtaken` records. It also records the role of a user
written over an administrator's, the one other way to lose an administrator without
a count to follow, and a failure of the handler that was to count. That in turn needs
`AdminsLive` (every administrator's account exists) and `Governed` (a handler at a
step of a change of role is a request about a registered user). Every step of
`Households` leaves all of this alone (`Elsewhere`); the five steps of a change of
role share `RolesPreserve`.

### The argument for homes

The properties are about documents that several handlers write without a lock, so
the invariant has an assertion for each handler at each of its steps (`Fits`): what
it has in memory still describes what is stored, or somebody worked on the same
user or household and the history says so (`disturbed`). Every step is then
shown to establish the assertion of the handler that takes it, and to leave those of
the others alone. The second part is done once: what a step changes is about its
handler's own user or its own household (`Touches`), and two handlers that have
one of them in common have disturbed it (`Shared`). So the pairs of steps need not
be gone through.

Where a unique index or a condition of the write refuses a change, the assertion
holds whoever overlaps. `OneHome` needs no assertion at all, because the index on
active rows refuses the second one. For `Housed`, a user without a home has a
handler that is about to give one, or a boot that is still to come by (`Provided`),
and a handler that takes a home away is then that handler (`Cares`). For
`NoOrphans`, nobody but its creator has heard of a household before its owner is
added (`Apart`). `SpentOnce` holds because whoever stands before `MarkAccepted` has
what it needs to close the invitation or leaves it to a failure (`Quits`);
`NewestOnly` because a new invitation supersedes the pending ones before it is
inserted. `LeavesRightly` is a property of steps: what a handler counted or found
before it writes is what its assertion says.

### The argument for sessions

A session is a chain of refresh tokens in which each replaces the one before. It
goes on from its usable token, or from a handler that has found one which is used
up by now and is to issue the next (`Continues`). `OneEnd` says that a session with
two such ends has met a second refresh at both, which is the race the code has no
means to notice. `EndsBut(s, i)` says that session `s` goes on from token `i` only;
with no `i` it has ended (`Ends`), and of the newest token the session is its own
(`Newest`). Because a handler issues at most one token for what it took up
(`TakesUp`), what has ended stays so, and the newest stays it until it is replaced.

Two handlers under way at the same time know of each other (`Witnessed`). That is
what the exceptions of the properties rest on. `Steady` is what every step but an
insert leaves as it is and `Moves` how one handler may go on, so that each conjunct
is checked against these two and the insert, not against every action.

- Passwords: what a token, a read and an access token carry of the password and the
  version is the account's, or a handler that changes it was met on the way
  (`TokensCurrent`, `ReadsCurrent`, `AccessCurrent`). A version is never handed out
  again, although a change of password writes the version it computed from a read.
- Links: a link that saved a password is used, or its handler is about to mark it
  (`LinksSpent`); who is to insert a link has superseded the others
  (`LinksReplaced`).
- A tab gives up (`NoSpuriousLogout`) when its refresh was refused. The cookie it
  sent was the newest token of its session unless another tab was refreshing too
  (`CookieNewest`, `RefreshesHold`), and the newest is refused only if the session
  has ended. What the property says of a state is `GivesUpRightly`.

The attempt at this proof corrected `NoSpuriousLogout`. It excused only a tab that
overlaps with another tab's refresh. But two tabs that refresh at the same time
leave the session with two ends and the browser with one cookie, so that one of
them can be thrown out later, when nobody is racing any more, while the other
end is alive. TLC shows it with four requests. The property therefore does not
count what a race between two tabs has left of a session, the tokens that have
`"refresh"` in their `amid`.

### The argument for waiting calls

A waiting call names its tab, the tab's `refreshPromise` names a call, and that
call's handler names the tab it will answer. `RefreshersAnswer` says the last two
agree, `WaitersRefresh` that a tab with waiting calls has a refresh. A step of the
server keeps a handler's operation and tab (`StepOf`), or ends a handler no tab
waits for; a tab that takes an answer settles all its waiting calls in the same
step (`TabSettles`).

### The argument for the catalogue

A writer looks an id up and writes it later; a remover looks for whoever names an
id and deletes it later. Each handler has an assertion for the step it is at
(`Fits`): what it looked up is there, what it looked for is not. The step of
another handler may break that, but the two are then under way at the same time
and know of each other (`Witnessed`). So the assertion of a writer says "there, or
I have met its removal", which is what the code writes into `torn`, and that of a
remover "whatever names it is torn". A step is shown to keep what others rely on
(`Keeps`): only its removal takes a document away (`KeepsLive`), whatever it points
at something it has met the removal of is torn (`Tears`), only an update gives a
label another parent (`KeepsTree`), nothing of the default set is lost but to a
member (`KeepsDefaults`). With that, the assertions of all other handlers are
preserved once for all steps (`OthersFit`).

- Forest: a loop is a smallest set of labels each of which lives and has its parent
  in the set (`Loop`), which needs no path and no recursion. A handler that has
  walked up the tree knows that the labels it visited lead to none but each other
  (`Walked`) and that its own label is none of them, unless another re-parenting was
  under way. If its save closed a loop, the part of the loop it had visited would be a smaller
  loop. That `Above` meets such a loop when a label is above itself follows from the
  least element of a set of turns (`LoopAbove`).
- Seeding: the default set has got as far as the entry the seeder is at, and the
  category to come goes into the group of its header (`FitsSeed`, `NextEntry`). A
  seeder that goes on after the stamp has met the one that stamped.

The attempt at this proof corrected `Above`. It followed the parent that a deleted
label had left behind, and so could find a "loop" through labels that are not there.
TLC shows it with four requests on labels. A deleted label is not found by the
code's walk (`labels.service.ts:297-303`) and has no parent now.

### The argument for imports and goals

The sums are folds over sets, whose value for a given set the prover knows only as
some function that obeys the recursion. The module therefore begins with three
facts about any such function, each from a smallest set that would contradict it:
it exists and is integer (`SumsExist`), it gives a set the same sum whatever that
set is a part of (`SumsAgree`), and taking any one element out takes its term out
(`SumsAdd`), whichever element the fold would have taken first.

- Balances: a step is `Even` for an account if its balance, with what its uploads
  have still to apply, moves by as much as the sum of its rows does. Every step is,
  or puts the account into `drifted` (`AllEven`), and from evenness the equation
  of `BalanceIsLedger` follows once for all steps (`EvenBalanced`). What is
  pending is a sum over all handlers, in which those that import nothing to this
  account count nothing.
- Uploads: the rows an upload is yet to insert are stored by nobody, unless another
  upload to the account was under way (`FitsStored`); with the freshness of row
  numbers (`RowsFresh`) that gives `ImportedOnce`. Every readable row of its file
  is stored or yet to be inserted, if nothing overlapped and nothing failed
  (`FitsCovered`), which at the end, with nothing to insert, is `LeavesNothingOut`.
- Anchors: as long as no write to the account has overlapped, the boot has in memory
  what the account held before its ledger, with the rows until it subtracts them
  and without them after (`FitsSum`).
- Goals: progress changes by a contribution, which is refused while the goal is
  linked, by a move of the account's balance, which `Follow` records, or by a link.
  The filter of `link()` pins what it has read of the goal, and `stale` records that
  the balance or the baseline it read was another by then; if neither was, the new
  baseline leaves the progress where it was (`RelinkKeeps`).
- What a handler has in memory has the type its step needs (`Fit`), and two that are
  under way at the same time know of each other (`Witnessed`).

### The argument for subscriptions and reminders

`TrackedAndTold` is not inductive: a request that has passed its checks saves later,
and a job reminds later of what it has seen. The invariant says what either still
relies on.

- What `update` is about to save was checked against what it read (`FitsUpdate`): it
  is not both free and on an account, it does not post from before the day of the
  check, and an account it starts to post to was looked up. `save()` writes the
  changed fields over whatever is stored then. If that is still what was read, the
  outcome is what was checked (`SavedIs`); if not, the schedule goes into `blind`. A
  bulk activation has the same (`FitsBulk`): it writes only what it found activatable,
  and the filter of each write matches the date it had rolled from (`ActivatedIs`).
- So every request's write is what the properties promise (`Promised`), which is
  proved once per operation (`Upkeep`) and used for the invariant and for
  `ActivatesSoundly` alike. What is said of dates that move back holds for `blind`
  schedules, too. A bulk write matches the date it had rolled from, so it goes
  forward. A PATCH writes a date only if the request named one or the one it read
  was past and was rolled; it then is not before the day of the request
  (`Rerolled`), though it may be before what the midnight job has stored meanwhile.
- A job that is under way has told of everyone it has passed, unless a write came
  between (`RoundFits`). Whoever writes a schedule puts it into `moved` (`Kept`), and
  `moved` is emptied by a job that starts only when no other is under way, since a
  second server's job would otherwise forget what the first relies on. At the end
  nobody is left to visit, which is `Reminded`.

### The argument for pages

What a page promises is about rest, when nothing is on the wire, and so says nothing
while something is. The invariant (`PagesInv`) says for each page what every call on
its wire is good for (`ListWire`, `BudgetWire`, `ReportWire`, `BellWire`,
`TableWire`); at rest there are no calls, and the property is what remains. Steps
change the wire in few ways: an answer is given or lost, a handler runs and makes
calls (`HandledThenOne`), a kind of call is cancelled (`WithoutMade`). `Made` says of
the new sequence that each of its calls is one of the old or of the new ones, which
is all the invariants ask.

- Categories: what the page owes the member is on the screen or in a refresh that
  nothing older can be the answer of (`OwedAwaited`), unless a refresh was overtaken.
  Only one call keeps the arrows disabled (`OneHolds`). A move that started from the
  stored order is, among the categories it lists, the stored order with two
  neighbours exchanged (`OneSwap`), and numbering the list anew changes the order of
  that pair alone (`OneExchange`).
- Budget: one write at a time (`OneWrite`). A fetch has the stored limit in its answer
  or crossed a write whose handler comes after it (`Unsettled`), which fetches again
  or applies what the write returned. An amount other than zero on the screen means
  that no zero is stored, as long as the screen is newer than the member's last write
  (`ZeroShown`); a clear on the wire was sent from such a screen (`ClearsSound`).
- Bell: `alone` is the history of a call that met no other. Of such a call the
  invariant knows the answer exactly (`AloneTakes`), of the others only its type.
- Transactions: the fetches on the wire are for what is selected
  (`FetchesSelected`) and from after every write that was reported done
  (`AnswerSound`); the list or its error awaits nothing else (`ListAwaited`), nor do
  the balances (`BalancesAwaited`). A page that was chosen by what an up-to-date
  answer said exists (`PageExists`). The wizard's file is the one named unless a
  second one is being read (`FilesSound`).
- Reports: each figure is a fold over a set of transactions or of accounts. As in
  `SavingsProofs`, any function that obeys the fold's recursion gives the same sum
  (`SumsAgree`), whence sums of disjoint sets and of terms add up (`SumOfUnion`,
  `SumOfPlus`). Adding the effects of a month by account is adding its net by
  transaction, since the two legs of a transfer cancel (`LegsCancel`,
  `EffectsAddUp`), and an account that does not appear yet is untouched
  (`QuietBefore`).

The attempt found no error of the program's or of a property, but two places where
the model was too small to be reasoned about: the lists stored at first and the
amounts were built into the modules as TLC's instances of them, and are constants
now.

### Only model-checked

Liveness (`EventuallyExact`, `CatchesUp`), since `ENABLED` and fairness are outside
the prover. That there is a run that does an operation (that an action is ever enabled) is
TLC's as well.

## Not modelled

- Start-up (`main.ts`): the order in which a process connects, builds its indexes
  and listens. The unique indexes are taken to exist by the modules that rely on
  them. The one-time tasks at boot are modelled where they write: memberships
  in `Tenancy`, default categories in `Catalogue`, opening balances in `Savings`;
  but not `stampExistingData()` (`main.ts:113`), which only fills in the household
  of legacy notifications.
- The get-or-create of a month's budget document, and the sort order of new
  groups and categories.
- DTO validation, parsing of dates, amounts and CSV columns: the modules start
  from what passed.
- Forms, charts, layout, wording, exports; pages that load once and navigate away.
- Mail, hashing and signing of tokens, throttling, health checks, configuration,
  logging: I/O or libraries, with no state that a property depends on.
