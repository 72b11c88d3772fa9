------------------------------- MODULE Goals -------------------------------
(***************************************************************************)
(* Goals (goals.service.ts).  A goal keeps its own progress, or tracks an  *)
(* account: its progress is then the balance above the baseline taken when *)
(* it was linked.  Linking, relinking and unlinking are each one write,    *)
(* whose filter pins what was read of the goal, not the balance.           *)
(***************************************************************************)
EXTENDS Accounts

CONSTANTS
  NumGoals,     \* bound on goals ever created
  Types,        \* savings and debt
  None,         \* model value: no type
  Fits,         \* Fits[type]: accountFitsGoal(), the accounts of its class
  Gifts         \* what a member contributes

ASSUME GoalsAssumption ==
  Fits \in [Types -> SUBSET Accounts] /\ None \notin Types /\ Gifts \subseteq Int

VARIABLES
  goals,   \* goals[g]: state, type, currentCents, accountId, baselineCents
  owed,    \* history: owed[g], what was contributed and what its account moved by
  stale,   \* history: goals written by a balance or a baseline no longer true
  mixed    \* history: goals whose type and account were changed at the same time

progress == <<goals, owed, stale, mixed>>

NoGoal == [state |-> "free", type |-> None, current |-> 0, account |-> NoAccount,
           baseline |-> 0]

NewGoals ==
  {[state |-> "live", type |-> type, current |-> 0, account |-> NoAccount, baseline |-> 0] :
    type \in Types}

Linked(goal) == goal.account # NoAccount

\* derivedCents(), toView(): the progress shown.
Progress(goal) ==
  IF Linked(goal) THEN balance[goal.account] - goal.baseline ELSE goal.current

\* history: the books moved, and with them the goals that track an account.
Follow ==
  owed' = [g \in DOMAIN goals |->
            IF Linked(goals[g])
            THEN owed[g] + balance'[goals[g].account] - balance[goals[g].account]
            ELSE owed[g]]

-----------------------------------------------------------------------------
(* create(): a linked goal baselines at the balance as it was read.        *)

BeginCreateGoal(p, type, a) ==
  /\ a = NoAccount \/ (a \in Fits[type] /\ ~archived[a])
  /\ Begin(p, [Idle EXCEPT !.op = "createGoal", !.at = "write",
       !.wanted = [type |-> type, link |-> a,
                   to |-> IF a = NoAccount THEN 0 ELSE balance[a]]])
  /\ UNCHANGED <<books, progress, failures>>

CreateGoal(p) ==
  LET w == request[p].wanted IN
  /\ At(p, "createGoal", "write")
  /\ \E g \in Free(goals) :
       /\ goals' = [goals EXCEPT ![g] = [state |-> "live", type |-> w.type, current |-> 0,
                                         account |-> w.link, baseline |-> w.to]]
       /\ stale' = IF Linked(goals'[g]) /\ balance[w.link] # w.to
                   THEN stale \cup {g} ELSE stale
  /\ Finish(p)
  /\ UNCHANGED <<books, owed, mixed, failures>>

-----------------------------------------------------------------------------
(* update(): findDoc(), then link(), unlink() or save().                   *)

\* The client sends a type or none, and the account it wants linked; the one
\* that is linked already, or no field, changes nothing.
BeginUpdateGoal(p, g, type, link) ==
  LET goal == goals[g]
      pairs == type \in {None, goal.type} \/ goal.account \in Fits[type]
  IN
  /\ Live(goals, g)
  /\ link = goal.account => type # None /\ (Linked(goal) => pairs)
  /\ Begin(p, [Idle EXCEPT !.op = "updateGoal", !.id = g, !.doc = goal,
       !.wanted = [type |-> type, link |-> link, from |-> 0, to |-> 0],
       !.at = IF link = goal.account THEN "save"
              ELSE IF link = NoAccount THEN "readOld" ELSE "readNew"])
  /\ UNCHANGED <<books, progress, failures>>

\* (Mutant: the account is checked against the type the goal had.)
TypeRead(q) == q.doc.type

NextType(q) == IF q.wanted.type = None THEN q.doc.type ELSE q.wanted.type

\* assertAccountLinkable().
ReadNew(p) ==
  LET q == request[p]
      a == q.wanted.link
  IN
  /\ At(p, "updateGoal", "readNew")
  /\ IF archived[a] \/ a \notin Fits[NextType(q)] THEN Finish(p)
     ELSE Becomes(p, [q EXCEPT !.wanted.to = balance[a],
                               !.at = IF Linked(q.doc) THEN "readOld" ELSE "write"])
  /\ UNCHANGED <<books, progress, failures>>

\* findLinkedAccount(): archived accounts too.
ReadOld(p) ==
  LET q == request[p] IN
  /\ At(p, "updateGoal", "readOld")
  /\ Becomes(p, [q EXCEPT !.wanted.from = balance[q.doc.account], !.at = "write"])
  /\ UNCHANGED <<books, progress, failures>>

\* (Mutant: link() does not pin the progress it read.)
PinnedByLink(q, goal) ==
  goal.state = "live" /\ goal.account = q.doc.account

\* The filters of link() and unlink().
Pinned(q, goal) ==
  /\ goal.state = "live"
  /\ goal.account = q.doc.account
  /\ q.wanted.link # NoAccount => goal.current = q.doc.current

\* What the progress is frozen at, from what was read.
Frozen(q) ==
  IF Linked(q.doc) THEN q.wanted.from - q.doc.baseline ELSE q.doc.current

\* (Mutant: unlinking leaves the baseline.)
BaselineKept(q) == q.wanted.to - Frozen(q)

Baseline(q) == IF q.wanted.link = NoAccount THEN 0 ELSE q.wanted.to - Frozen(q)

\* findOneAndUpdate() of link() and unlink(); a 409 when the filter matches nothing.
Relink(p) ==
  LET q == request[p]
      goal == goals[q.id]
      w == q.wanted
      next == [goal EXCEPT
        !.type = IF w.type = None THEN @ ELSE w.type,
        !.account = w.link,
        !.current = IF Linked(q.doc) THEN Frozen(q) ELSE @,
        !.baseline = Baseline(q)]
      moved == \/ w.link # NoAccount /\ balance[w.link] # w.to
               \/ Linked(q.doc) /\ balance[q.doc.account] # w.from
               \/ goal.baseline # q.doc.baseline
  IN
  /\ At(p, "updateGoal", "write")
  /\ IF Pinned(q, goal)
     THEN /\ goals' = [goals EXCEPT ![q.id] = next]
          /\ stale' = IF moved THEN stale \cup {q.id} ELSE stale
          /\ mixed' = IF goal.type # q.doc.type THEN mixed \cup {q.id} ELSE mixed
     ELSE UNCHANGED <<goals, stale, mixed>>
  /\ Finish(p)
  /\ UNCHANGED <<books, owed, failures>>

\* save(): the type, if it changes.
SaveGoal(p) ==
  LET q == request[p] IN
  /\ At(p, "updateGoal", "save")
  /\ IF Live(goals, q.id)
     THEN /\ goals' = [goals EXCEPT ![q.id] = Saved(@, q.doc, [type |-> q.wanted.type])]
          /\ mixed' = IF goals[q.id].account # q.doc.account
                      THEN mixed \cup {q.id} ELSE mixed
     ELSE UNCHANGED <<goals, mixed>>
  /\ Finish(p)
  /\ UNCHANGED <<books, owed, stale, failures>>

-----------------------------------------------------------------------------
(* addContribution(): an $inc while unlinked, tried twice; remove().       *)

Open(goal) == goal.state = "live" /\ ~Linked(goal)

Increment(g, x) ==
  /\ goals' = [goals EXCEPT ![g].current = @ + x]
  /\ owed' = [owed EXCEPT ![g] = @ + x]

Contribute(p, g, x) ==
  /\ g \in Known(goals)
  /\ \/ Open(goals[g]) /\ Increment(g, x) /\ Begin(p, Done)
     \/ /\ ~Open(goals[g])
        /\ Begin(p, [Idle EXCEPT !.op = "contribute", !.at = "look", !.id = g,
                                 !.wanted = x])
        /\ UNCHANGED <<goals, owed>>
  /\ UNCHANGED <<books, stale, mixed, failures>>

\* Linked or gone: refused.
ContributeLook(p) ==
  /\ At(p, "contribute", "look")
  /\ IF Open(goals[request[p].id]) THEN GoTo(p, "again") ELSE Finish(p)
  /\ UNCHANGED <<books, progress, failures>>

ContributeAgain(p) ==
  LET q == request[p] IN
  /\ At(p, "contribute", "again")
  /\ IF Open(goals[q.id]) THEN Increment(q.id, q.wanted) ELSE UNCHANGED <<goals, owed>>
  /\ Finish(p)
  /\ UNCHANGED <<books, stale, mixed, failures>>

RemoveGoal(p, g) ==
  /\ Live(goals, g)
  /\ Begin(p, Done)
  /\ goals' = [goals EXCEPT ![g].state = "gone"]
  /\ UNCHANGED <<books, owed, stale, mixed, failures>>
=============================================================================
