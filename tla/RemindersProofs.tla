-------------------------- MODULE RemindersProofs --------------------------
(***************************************************************************)
(* Reminders.tla for any documents, patches, selections, servers, days and *)
(* failures: what posts is tracked and announced once (TrackedAndTold), no *)
(* request makes a subscription post what it should not                    *)
(* (ActivatesSoundly), and a job reminds of whatever it could (Reminded).  *)
(*                                                                         *)
(* A request decides from the document it read and writes later.  Either   *)
(* the document is still that one, and the decision is what the properties *)
(* promise (Fit), or the schedule goes into blind.  A job decides from     *)
(* what it sees; whoever writes meanwhile is in moved (Kept).              *)
(***************************************************************************)
EXTENDS Reminders, TLAPS

-----------------------------------------------------------------------------
(* Documents, and what settling, merging and saving make of them.          *)

LEMMA Quotient ==
  ASSUME NEW n \in Int, NEW p \in Nat \ {0}
  PROVE  n % p \in 0 .. p - 1 /\ n \div p \in Int /\ n = p * (n \div p) + (n % p)
OBVIOUS

LEMMA Multiple ==
  ASSUME NEW n \in Int, NEW k \in Int, NEW p \in Nat \ {0}, n = p * k
  PROVE  n % p = 0
OBVIOUS

\* A date can be rolled by whole periods into the first period from a day on.
LEMMA RollExists ==
  ASSUME NEW n \in Int, NEW now \in Int, NEW p \in Nat \ {0}
  PROVE  \E d \in now .. now + p - 1 : (d - n) % p = 0
<1> DEFINE r == (n - now) % p
           q == (n - now) \div p
<1>1. /\ r \in 0 .. p - 1 /\ q \in Int
      /\ n - now = p * q + r
  <2>1. n - now \in Int
    OBVIOUS
  <2> QED
    BY <2>1, Quotient
<1> HIDE DEF r, q
<1>2. /\ -q \in Int /\ (now + r) - n \in Int
      /\ (now + r) - n = p * (-q)
  BY <1>1
<1>3. ((now + r) - n) % p = 0
  BY <1>2, Multiple
<1>4. now + r \in now .. now + p - 1
  BY <1>1
<1> QED
  BY <1>3, <1>4

LEMMA DocumentIs ==
  ASSUME NEW doc \in Documents
  PROVE  /\ doc = [state |-> doc.state, sub |-> doc.sub, account |-> doc.account,
                   free |-> doc.free, next |-> doc.next, active |-> doc.active,
                   lead |-> doc.lead]
         /\ DOMAIN doc = {"state", "sub", "account", "free", "next", "active", "lead"}
         /\ doc.next \in 0 .. LastDay + Period /\ doc.next \in Int /\ doc.lead \in Int
         /\ doc.account \in Accounts \cup {NoAccount}
BY SubscriptionsAssumption DEF Documents, Values

\* No cost, no account.
Sane(doc) == ~(doc.free /\ doc.account # NoAccount)

\* settleTrackedSubscriptionDate(): only the date changes, to today or later, and
\* only of what can post and is overdue.
LEMMA Settled ==
  ASSUME NEW doc \in Documents, NEW now \in 0 .. LastDay, NEW next, next = Settle(doc, now)
  PROVE  /\ next \in Documents
         /\ next.account = doc.account /\ next.free = doc.free /\ next.active = doc.active
         /\ next.state = doc.state /\ next.sub = doc.sub
         /\ CanPost(next) => next.next >= now
         /\ next.next # doc.next => CanPost(doc) /\ next.next > doc.next
         /\ next.next # doc.next => doc.next < now /\ now <= next.next
<1>1. CASE CanPost(doc) /\ doc.next < now
  <2> DEFINE d == Rolled(doc.next, now)
  <2>1. doc.next \in Int /\ now \in Int /\ Period \in Nat \ {0} /\ LastDay \in Nat
    BY DocumentIs, SubscriptionsAssumption
  <2>2. \E x \in now .. now + Period - 1 : (x - doc.next) % Period = 0
    BY <2>1, RollExists
  <2>3. d \in now .. now + Period - 1
    BY <2>2 DEF Rolled
  <2>4. d \in 0 .. LastDay + Period /\ d \in Int
    BY <2>1, <2>3
  <2>5. next = [doc EXCEPT !.next = d]
    BY <1>1 DEF Settle
  <2> HIDE DEF d
  <2>6. /\ next \in Documents /\ next.next = d
        /\ next.account = doc.account /\ next.free = doc.free /\ next.active = doc.active
        /\ next.state = doc.state /\ next.sub = doc.sub
    BY <2>4, <2>5 DEF Documents, Values
  <2> QED BY <1>1, <2>1, <2>3, <2>6
<1>2. CASE ~(CanPost(doc) /\ doc.next < now)
  <2>1. next = doc
    BY <1>2 DEF Settle
  <2>2. doc.next \in Int /\ now \in Int
    BY DocumentIs, SubscriptionsAssumption
  <2> QED BY <1>2, <2>1, <2>2
<1> QED BY <1>1, <1>2

LEMMA MergedIs ==
  ASSUME NEW doc \in Documents, NEW patch \in Patches
  PROVE  /\ Merged(doc, patch) \in Documents
         /\ "next" \notin DOMAIN patch => Merged(doc, patch).next = doc.next
<1> DEFINE D == {"state", "sub", "account", "free", "next", "active", "lead"}
<1>1. DOMAIN doc = D
  BY DocumentIs
<1>2. /\ DOMAIN patch \subseteq {"account", "free", "next", "active", "lead"}
      /\ \A f \in DOMAIN patch : patch[f] \in Values[f]
  BY SubscriptionsAssumption DEF Values
<1>3. PICK m : m = Merged(doc, patch)
  OBVIOUS
<1>4. m = [f \in D |-> IF f \in DOMAIN patch THEN patch[f] ELSE doc[f]]
  BY <1>1, <1>3 DEF Merged
<1>5. /\ m = [state |-> m.state, sub |-> m.sub, account |-> m.account, free |-> m.free,
              next |-> m.next, active |-> m.active, lead |-> m.lead]
      /\ m.state = doc.state /\ m.sub = doc.sub
  BY <1>2, <1>4
<1>6. /\ m.account \in {patch["account"], doc.account} /\ m.free \in {patch["free"], doc.free}
      /\ m.next \in {patch["next"], doc.next} /\ m.active \in {patch["active"], doc.active}
      /\ m.lead \in {patch["lead"], doc.lead}
  BY <1>4
<1>7. /\ m.account \in Values.account /\ m.free \in Values.free /\ m.next \in Values.next
      /\ m.active \in Values.active /\ m.lead \in Values.lead
  BY <1>2, <1>4 DEF Documents, Values
<1>8. "next" \notin DOMAIN patch => m.next = doc.next
  BY <1>4
<1> QED BY <1>3, <1>5, <1>7, <1>8 DEF Documents

\* A document nobody changed since it was read becomes what is wanted.
LEMMA SavedIs ==
  ASSUME NEW stored \in Documents, NEW read \in Documents, NEW wanted \in Documents
  PROVE  /\ Saved(stored, read, wanted) \in Documents
         /\ stored = read => Saved(stored, read, wanted) = wanted
         /\ Saved(stored, read, wanted).next =
              IF wanted.next = read.next THEN stored.next ELSE wanted.next
<1> DEFINE D == {"state", "sub", "account", "free", "next", "active", "lead"}
<1>1. DOMAIN stored = D /\ DOMAIN wanted = D
  BY DocumentIs
<1>2. PICK m : m = Saved(stored, read, wanted)
  OBVIOUS
<1>3. m = [f \in D |-> IF wanted[f] # read[f] THEN wanted[f] ELSE stored[f]]
  BY <1>1, <1>2 DEF Saved
<1>4. m = [state |-> m.state, sub |-> m.sub, account |-> m.account, free |-> m.free,
           next |-> m.next, active |-> m.active, lead |-> m.lead]
  BY <1>3
<1>5. /\ m.state \in {wanted.state, stored.state} /\ m.sub \in {wanted.sub, stored.sub}
      /\ m.account \in {wanted.account, stored.account}
      /\ m.free \in {wanted.free, stored.free} /\ m.next \in {wanted.next, stored.next}
      /\ m.active \in {wanted.active, stored.active} /\ m.lead \in {wanted.lead, stored.lead}
  BY <1>3
<1>6. m \in Documents
  BY <1>4, <1>5 DEF Documents
<1>7. ASSUME stored = read PROVE m = wanted
  <2>1. m = [f \in D |-> wanted[f]]
    BY <1>3, <1>7
  <2>2. wanted = [f \in D |-> wanted[f]]
    BY <1>1, DocumentIs
  <2> QED BY <2>1, <2>2
<1>8. m.next = IF wanted.next = read.next THEN stored.next ELSE wanted.next
  BY <1>3
<1> QED BY <1>2, <1>6, <1>7, <1>8


-----------------------------------------------------------------------------
(* What a handler has in memory, by what it is doing.                      *)

\* What a handler has in memory is a record of these fields.
Shape(q) ==
  q = [op |-> q.op, at |-> q.at, id |-> q.id, doc |-> q.doc, wanted |-> q.wanted,
       todo |-> q.todo, found |-> q.found, cursor |-> q.cursor]

FitsCreate(q) == q.op = "create" =>
  q.at = "save" /\ q.wanted \in Documents /\ Sane(q.wanted)

\* A date that differs from the one read was named, or rolled from a past one.
Rerolled(q) ==
  q.wanted.next # q.doc.next =>
    "next" \in q.todo \/ (q.doc.next < q.cursor /\ q.cursor <= q.wanted.next)

\* What is to be saved was checked against what was read.
FitsUpdate(q) == q.op = "update" =>
  /\ q.at \in {"check", "save"} /\ q.id \in Ids /\ q.doc \in Documents
  /\ q.cursor \in 0 .. LastDay
  /\ q.at = "check" => q.wanted \in Patches /\ q.todo = DOMAIN q.wanted
  /\ q.at = "save" => /\ q.wanted \in Documents /\ Sane(q.wanted) /\ Rerolled(q)
                      /\ CanPost(q.wanted) => q.wanted.next >= q.cursor
                      /\ LooksUpAccount(q.doc, q.wanted) => q.found = TRUE

BulkOps == {"activate", "deactivate", "delete"}

FitsBulk(q) == q.op \in BulkOps =>
  /\ q.at \in {"look", "write"} /\ DOMAIN q.doc \subseteq Ids
  /\ \A i \in DOMAIN q.doc : q.doc[i] \in Documents
  /\ q.cursor \in 0 .. LastDay
  /\ q.op # "activate" => q.at = "write" /\ q.todo \subseteq DOMAIN q.doc
  /\ q.at = "write" /\ q.op = "activate" => q.todo \subseteq Activatable(q)

Ops == {"none", "done", "create", "update"} \cup BulkOps

Fit(q) == Shape(q) /\ q.op \in Ops /\ FitsCreate(q) /\ FitsUpdate(q) /\ FitsBulk(q)

AllFit ==
  /\ request = [p \in Requests |-> request[p]]
  /\ \A p \in Requests : Fit(request[p])

Only(p) == \A r \in Requests \ {p} : request'[r] = request[r]

\* Only the handler p has moved.
Goes(p) == AllFit' /\ Only(p)

LEMMA IdleIs == Shape(Idle) /\ Idle.op = "none" /\ Fit(Idle)
BY DEF Idle, Shape, Fit, Ops, BulkOps, FitsCreate, FitsUpdate, FitsBulk

LEMMA DoneIs == Fit(Done) /\ Done.op = "done"
<1>1. ASSUME NEW i, Shape(i), NEW j, j = [i EXCEPT !.op = "done"]
      PROVE  Shape(j) /\ j.op = "done"
  BY <1>1 DEF Shape
<1>2. Shape(Done) /\ Done.op = "done"
  BY <1>1, IdleIs DEF Done
<1> QED BY <1>2 DEF Fit, Ops, BulkOps, FitsCreate, FitsUpdate, FitsBulk

LEMMA Becoming ==
  ASSUME AllFit, NEW p \in Requests, NEW q, Becomes(p, q), Fit(q)
  PROVE  Goes(p) /\ request'[p] = q
<1>1. request'[p] = q /\ Only(p)
  BY DEF AllFit, Becomes, Only
<1>2. request' = [r \in Requests |-> request'[r]]
  BY DEF Becomes, AllFit
<1> QED BY <1>1, <1>2 DEF AllFit, Only, Goes

LEMMA Finishing ==
  ASSUME AllFit, NEW p \in Requests, Finish(p)
  PROVE  Goes(p) /\ request'[p] = Done
<1>1. request'[p] = Done /\ Only(p)
  BY DEF AllFit, Finish, Only
<1>2. request' = [r \in Requests |-> request'[r]]
  BY DEF Finish, AllFit
<1> QED BY <1>1, <1>2, DoneIs DEF AllFit, Only, Goes

LEMMA Beginning ==
  ASSUME AllFit, NEW p \in Requests, NEW q, Begin(p, q), Fit(q)
  PROVE  Goes(p) /\ request'[p] = q /\ ~Active(p)
<1>1. request'[p] = q /\ Only(p) /\ ~Active(p)
  BY DEF AllFit, Begin, Only, Fresh, Active
<1>2. request' = [r \in Requests |-> request'[r]]
  BY DEF Begin, AllFit
<1> QED BY <1>1, <1>2 DEF AllFit, Only, Goes

-----------------------------------------------------------------------------
(* What a request may do to a schedule.                                    *)

SchedulesTyped == today \in 0 .. LastDay /\ schedules \in [Ids -> Documents]

\* What the properties promise of the document a request p writes over i, unless
\* i was no longer what it had read.
Promised(p, i, doc) ==
  LET q == request[p]
      old == schedules[i]
  IN
  /\ i \in blind' \/ (Sane(old) => Sane(doc))
  /\ CanPost(doc) /\ i \notin blind' /\ (~CanPost(old) \/ doc.next # old.next)
       /\ q.op \in {"update", "activate"}
     => doc.next >= q.cursor
  /\ CanPost(doc) /\ ~old.active /\ i \notin blind'
     => \/ q.op = "update" /\ q.found
        \/ q.op = "activate" /\ old.account \in q.wanted
        \/ q.op = "create"
  /\ old.state = "live" /\ doc.next < old.next
     => /\ q.op = "update"
        /\ "next" \in q.todo \/ (q.doc.next < q.cursor /\ q.cursor <= doc.next)

\* What a step of p does to the schedules: nothing, or one write as promised.
\* A request that starts by writing is not bound to more than its first part.
Upkeep(p) ==
  /\ Goes(p) /\ blind \subseteq blind' /\ today' = today
  /\ \/ UNCHANGED <<schedules, moved>>
     \/ \E i \in Ids, doc \in Documents : Write(i, doc) /\ Promised(p, i, doc)

LEMMA LiveIs ==
  ASSUME SchedulesTyped, NEW i, Live(schedules, i)
  PROVE  i \in Ids /\ schedules[i] \in Documents
BY DEF SchedulesTyped, Live

\* Switched on or off, or removed.
LEMMA Toggled ==
  ASSUME NEW doc \in Documents, NEW r,
         r = [doc EXCEPT !.state = "gone"] \/ r = [doc EXCEPT !.active = FALSE]
  PROVE  /\ r \in Documents /\ (Sane(doc) => Sane(r)) /\ r.next = doc.next
         /\ CanPost(r) => doc.active /\ CanPost(doc)
<1>1. CASE r = [doc EXCEPT !.state = "gone"]
  BY <1>1 DEF Documents, Sane, CanPost
<1>2. CASE r = [doc EXCEPT !.active = FALSE]
  BY <1>2 DEF Documents, Sane, CanPost, Values
<1> QED BY <1>1, <1>2

LEMMA ToggleKeeps ==
  ASSUME NEW p \in Requests, NEW i \in Ids, SchedulesTyped, NEW r,
         \/ r = [schedules[i] EXCEPT !.state = "gone"]
         \/ r = [schedules[i] EXCEPT !.active = FALSE]
  PROVE  r \in Documents /\ Promised(p, i, r)
<1>1. PICK doc \in Documents : doc = schedules[i]
  BY DEF SchedulesTyped
<1>2. /\ r \in Documents /\ (Sane(doc) => Sane(r)) /\ r.next = doc.next
      /\ CanPost(r) => doc.active /\ CanPost(doc)
  BY <1>1, Toggled
<1>3. doc.next \in Int
  BY DocumentIs
<1> QED BY <1>1, <1>2, <1>3 DEF Promised


LEMMA CreateBegins ==
  ASSUME AllFit, SchedulesTyped, NEW p \in Requests, NEW doc \in Creations, BeginCreate(p, doc)
  PROVE  Upkeep(p) /\ ~Active(p)
<1> DEFINE w == Settle(doc, today)
           q == [Idle EXCEPT !.op = "create", !.at = "save", !.wanted = w]
<1>1. doc \in Documents /\ Sane(doc)
  BY SubscriptionsAssumption DEF BeginCreate, Sane
<1>2. w \in Documents /\ Sane(w)
  BY <1>1, Settled DEF SchedulesTyped, Sane
<1> HIDE DEF w
<1>3. ASSUME NEW i, Shape(i), NEW r, r = [i EXCEPT !.op = "create", !.at = "save", !.wanted = w]
      PROVE  Shape(r) /\ r.op = "create" /\ r.at = "save" /\ r.wanted = w
  BY <1>3 DEF Shape
<1>4. Shape(q) /\ q.op = "create" /\ q.at = "save" /\ q.wanted = w
  BY <1>3, IdleIs
<1>5. Begin(p, q) /\ UNCHANGED upkeep
  BY DEF BeginCreate, w
<1> HIDE DEF q
<1>6. Fit(q)
  BY <1>2, <1>4 DEF Fit, Ops, BulkOps, FitsCreate, FitsUpdate, FitsBulk
<1> QED BY <1>5, <1>6, Beginning DEF Upkeep, upkeep

LEMMA UpdateBegins ==
  ASSUME AllFit, SchedulesTyped, NEW p \in Requests, NEW i \in Ids, NEW patch \in Patches,
         BeginUpdate(p, i, patch)
  PROVE  Upkeep(p) /\ ~Active(p)
<1>1. PICK d \in Documents : d = schedules[i]
  BY DEF SchedulesTyped
<1>2. PICK now \in 0 .. LastDay : now = today
  BY DEF SchedulesTyped
<1> DEFINE q == [Idle EXCEPT !.op = "update", !.at = "check", !.id = i, !.doc = d,
                             !.wanted = patch, !.todo = DOMAIN patch, !.cursor = now]
<1>3. ASSUME NEW j, Shape(j), NEW r,
             r = [j EXCEPT !.op = "update", !.at = "check", !.id = i, !.doc = d,
                           !.wanted = patch, !.todo = DOMAIN patch, !.cursor = now]
      PROVE  /\ Shape(r) /\ r.op = "update" /\ r.at = "check" /\ r.id = i /\ r.doc = d
             /\ r.wanted = patch /\ r.todo = DOMAIN patch /\ r.cursor = now
  BY <1>3 DEF Shape
<1>4. /\ Shape(q) /\ q.op = "update" /\ q.at = "check" /\ q.id = i /\ q.doc = d
      /\ q.wanted = patch /\ q.todo = DOMAIN patch /\ q.cursor = now
  BY <1>3, IdleIs
<1>5. Begin(p, q) /\ UNCHANGED upkeep
  BY <1>1, <1>2 DEF BeginUpdate
<1> HIDE DEF q
<1>6. Fit(q)
  BY <1>4 DEF Fit, Ops, BulkOps, FitsCreate, FitsUpdate, FitsBulk
<1> QED BY <1>5, <1>6, Beginning DEF Upkeep, upkeep

LEMMA BulkBegins ==
  ASSUME AllFit, SchedulesTyped, NEW p \in Requests, NEW ids,
         NEW action \in {"activate", "deactivate", "delete"}, BeginBulk(p, ids, action)
  PROVE  Upkeep(p) /\ ~Active(p)
<1>1. PICK now \in 0 .. LastDay : now = today
  BY DEF SchedulesTyped
<1> DEFINE known == {i \in ids : Subscription(i)}
           docs == [i \in known |-> schedules[i]]
           at == IF action = "activate" THEN "look" ELSE "write"
           todo == IF action = "activate"
                   THEN {schedules[i].account : i \in known} \ {NoAccount} ELSE known
           q == [Idle EXCEPT !.op = action, !.doc = docs, !.wanted = {}, !.cursor = now,
                             !.at = at, !.todo = todo]
<1>2. DOMAIN docs = known /\ \A i \in known : i \in Ids /\ docs[i] \in Documents
  BY LiveIs DEF Subscription
<1>3. Begin(p, q) /\ UNCHANGED upkeep
  BY <1>1 DEF BeginBulk
<1>4. at \in {"look", "write"} /\ (action # "activate" => at = "write" /\ todo = known)
      /\ (action = "activate" => at = "look")
  OBVIOUS
<1> HIDE DEF known, docs, at, todo
<1>5. ASSUME NEW j, Shape(j), NEW r,
             r = [j EXCEPT !.op = action, !.doc = docs, !.wanted = {}, !.cursor = now,
                           !.at = at, !.todo = todo]
      PROVE  /\ Shape(r) /\ r.op = action /\ r.doc = docs /\ r.cursor = now /\ r.at = at
             /\ r.todo = todo
  BY <1>5 DEF Shape
<1>6. /\ Shape(q) /\ q.op = action /\ q.doc = docs /\ q.cursor = now /\ q.at = at
      /\ q.todo = todo
  BY <1>5, IdleIs
<1> HIDE DEF q
<1>7. Fit(q)
  BY <1>2, <1>4, <1>6 DEF Fit, Ops, BulkOps, FitsCreate, FitsUpdate, FitsBulk
<1> QED BY <1>3, <1>7, Beginning DEF Upkeep, upkeep

\* Requests that do all they have to in one step.
LEMMA RemoveStep ==
  ASSUME AllFit, SchedulesTyped, NEW p \in Requests, NEW i \in Ids, Remove(p, i)
  PROVE  Upkeep(p) /\ ~Active(p)
<1>1. Goes(p) /\ ~Active(p)
  BY Beginning, DoneIs DEF Remove
<1>2. PICK r : r = [schedules[i] EXCEPT !.state = "gone"]
  OBVIOUS
<1>3. Write(i, r) /\ UNCHANGED <<today, blind>>
  BY <1>2 DEF Remove
<1>4. r \in Documents /\ Promised(p, i, r)
  BY <1>2, ToggleKeeps
<1> QED BY <1>1, <1>3, <1>4 DEF Upkeep

LEMMA ArchiveStep ==
  ASSUME AllFit, SchedulesTyped, NEW p \in Requests, NEW a \in Accounts, Archive(p, a)
  PROVE  Upkeep(p) /\ ~Active(p)
BY Beginning, DoneIs DEF Archive, Upkeep

LEMMA SaveNew ==
  ASSUME AllFit, SchedulesTyped, NEW p \in Requests, Create(p)
  PROVE  Upkeep(p)
<1>1. PICK i \in Free(schedules) : Write(i, request[p].wanted)
  BY DEF Create
<1>2. i \in Ids /\ schedules[i].state = "free"
  BY DEF Free, SchedulesTyped
<1>3. /\ request[p].op = "create" /\ request[p].wanted \in Documents
      /\ Sane(request[p].wanted)
  BY DEF Create, At, AllFit, Fit, FitsCreate
<1>4. Promised(p, i, request[p].wanted)
  BY <1>2, <1>3 DEF Promised
<1>5. Goes(p)
  BY Finishing DEF Create
<1> QED BY <1>1, <1>2, <1>3, <1>4, <1>5 DEF Upkeep, Create

\* The account is looked up, or need not be, and the document settles.
LEMMA CheckStep ==
  ASSUME AllFit, SchedulesTyped, NEW p \in Requests, Check(p)
  PROVE  Upkeep(p)
<1>1. PICK q : q = request[p]
  OBVIOUS
<1>2. /\ q.op = "update" /\ q.at = "check" /\ Fit(q) /\ q.doc \in Documents
      /\ q.wanted \in Patches /\ q.todo = DOMAIN q.wanted /\ q.cursor \in 0 .. LastDay
  BY <1>1 DEF Check, At, AllFit, Fit, FitsUpdate
<1>3. PICK doc \in Documents :
        /\ doc = Merged(q.doc, q.wanted)
        /\ "next" \notin q.todo => doc.next = q.doc.next
  BY <1>2, MergedIs
<1>4. PICK lookUp \in BOOLEAN : lookUp = LooksUpAccount(q.doc, doc)
  BY DEF LooksUpAccount
<1>5. PICK w : w = Settle(doc, q.cursor)
  OBVIOUS
<1>6. CASE Finish(p)
  BY <1>6, Finishing DEF Check, Upkeep, upkeep
<1>7. CASE ~Finish(p)
  <2> DEFINE r == [q EXCEPT !.at = "save", !.wanted = w, !.found = lookUp]
  <2>1. Ledgerable(q.doc, doc) /\ Becomes(p, r)
    BY <1>1, <1>3, <1>4, <1>5, <1>7 DEF Check
  <2>2. ASSUME NEW j, Shape(j), NEW s,
               s = [j EXCEPT !.at = "save", !.wanted = w, !.found = lookUp]
        PROVE  /\ Shape(s) /\ s.op = j.op /\ s.at = "save" /\ s.id = j.id /\ s.doc = j.doc
               /\ s.cursor = j.cursor /\ s.wanted = w /\ s.found = lookUp
               /\ s.todo = j.todo
    BY <2>2 DEF Shape
  <2>3. /\ Shape(r) /\ r.op = q.op /\ r.at = "save" /\ r.id = q.id /\ r.doc = q.doc
        /\ r.cursor = q.cursor /\ r.wanted = w /\ r.found = lookUp /\ r.todo = q.todo
    BY <1>2, <2>2 DEF Fit
  <2> HIDE DEF r
  <2>4. /\ w \in Documents /\ w.account = doc.account /\ w.free = doc.free
        /\ w.active = doc.active /\ (CanPost(w) => w.next >= q.cursor)
        /\ w.next # doc.next => doc.next < q.cursor /\ q.cursor <= w.next
    BY <1>2, <1>5, Settled
  <2>5. Sane(w)
    BY <2>1, <2>4 DEF Ledgerable, Sane
  <2>6. LooksUpAccount(q.doc, w) = lookUp
    BY <1>4, <2>4 DEF LooksUpAccount
  <2>9. Rerolled(r)
    BY <1>3, <2>3, <2>4 DEF Rerolled
  <2>7. FitsUpdate(r)
    BY <1>2, <2>3, <2>4, <2>5, <2>6, <2>9 DEF FitsUpdate, Fit
  <2>8. Fit(r)
    BY <1>2, <2>3, <2>7 DEF Fit, Ops, BulkOps, FitsCreate, FitsBulk
  <2> QED BY <2>1, <2>8, Becoming DEF Check, Upkeep, upkeep
<1> QED BY <1>6, <1>7

\* A document that is still what was read becomes what was checked.
LEMMA SaveStep ==
  ASSUME AllFit, SchedulesTyped, NEW p \in Requests, Save(p)
  PROVE  Upkeep(p)
<1>1. PICK q : q = request[p]
  OBVIOUS
<1>2. /\ q.op = "update" /\ q.at = "save" /\ q.id \in Ids /\ q.doc \in Documents
      /\ q.wanted \in Documents /\ Sane(q.wanted) /\ Rerolled(q)
      /\ CanPost(q.wanted) => q.wanted.next >= q.cursor
      /\ LooksUpAccount(q.doc, q.wanted) => q.found = TRUE
  BY <1>1 DEF Save, At, AllFit, Fit, FitsUpdate
<1>3. Goes(p) /\ today' = today
  BY Finishing DEF Save
<1>4. CASE Live(schedules, q.id)
  <2>1. PICK old \in Documents : old = schedules[q.id]
    BY <1>2 DEF SchedulesTyped
  <2>2. PICK new : new = Saved(old, q.doc, q.wanted)
    OBVIOUS
  <2>3. /\ new \in Documents /\ (old = q.doc => new = q.wanted)
        /\ new.next = IF q.wanted.next = q.doc.next THEN old.next ELSE q.wanted.next
    BY <1>2, <2>2, SavedIs
  <2>4. Write(q.id, new) /\ Blindly(q.id, q.doc)
    BY <1>1, <1>4, <2>1, <2>2 DEF Save
  <2>5. blind \subseteq blind' /\ (q.id \notin blind' => old = q.doc)
    BY <2>1, <2>4 DEF Blindly
  <2>6. CanPost(q.wanted) /\ ~q.doc.active => LooksUpAccount(q.doc, q.wanted)
    BY DEF CanPost, LooksUpAccount
  <2>7. old.next \in Int /\ new.next \in Int
    BY <2>3, DocumentIs
  <2>9. new.next < old.next =>
          "next" \in q.todo \/ (q.doc.next < q.cursor /\ q.cursor <= new.next)
    BY <1>2, <2>3, <2>7 DEF Rerolled
  <2>8. Promised(p, q.id, new)
    BY <1>1, <1>2, <2>1, <2>3, <2>5, <2>6, <2>9 DEF Promised
  <2> QED BY <1>2, <1>3, <2>3, <2>4, <2>5, <2>8 DEF Upkeep
<1>5. CASE ~Live(schedules, q.id)
  BY <1>1, <1>3, <1>5 DEF Save, Unchanged, Upkeep
<1> QED BY <1>4, <1>5


\* A bulk request with fewer documents to go fits as well.
LEMMA Shrinks ==
  ASSUME AllFit, NEW p \in Requests, request[p].op \in BulkOps, request[p].at = "write",
         NEW i,
         \/ Finish(p)
         \/ Becomes(p, [request[p] EXCEPT !.todo = @ \ {i}])
  PROVE  Goes(p)
<1>1. PICK q : q = request[p] /\ Fit(q)
  BY DEF AllFit
<1> DEFINE r == [q EXCEPT !.todo = @ \ {i}]
<1>2. CASE Finish(p)
  BY <1>2, Finishing
<1>3. CASE Becomes(p, r)
  <2>1. ASSUME NEW j, Shape(j), NEW s, s = [j EXCEPT !.todo = @ \ {i}]
        PROVE  /\ Shape(s) /\ s.op = j.op /\ s.at = j.at /\ s.doc = j.doc /\ s.id = j.id
               /\ s.cursor = j.cursor /\ s.wanted = j.wanted /\ s.todo = j.todo \ {i}
    BY <2>1 DEF Shape
  <2>2. /\ Shape(r) /\ r.op = q.op /\ r.at = q.at /\ r.doc = q.doc /\ r.id = q.id
        /\ r.cursor = q.cursor /\ r.wanted = q.wanted /\ r.todo = q.todo \ {i}
    BY <1>1, <2>1 DEF Fit
  <2>3. Becomes(p, r) /\ q.op \in BulkOps
    BY <1>1, <1>3
  <2> HIDE DEF r
  <2>4. FitsBulk(r)
    BY <1>1, <2>2 DEF Fit, FitsBulk, Activatable
  <2>5. Fit(r)
    BY <1>1, <2>2, <2>3, <2>4 DEF Fit, Ops, BulkOps, FitsCreate, FitsUpdate
  <2> QED BY <2>3, <2>5, Becoming
<1> QED BY <1>1, <1>2, <1>3

\* The accounts are looked up one by one, then it is decided what is activated.
LEMMA LookUpStep ==
  ASSUME AllFit, SchedulesTyped, NEW p \in Requests, LookUp(p)
  PROVE  Upkeep(p)
<1>1. PICK q : q = request[p] /\ Fit(q) /\ q.op = "activate" /\ q.at = "look"
  BY DEF AllFit, LookUp, At
<1>2. CASE Finish(p)
  BY <1>2, Finishing DEF LookUp, Upkeep, upkeep
<1>3. ASSUME NEW a \in q.todo,
             Becomes(p, [q EXCEPT !.todo = @ \ {a},
                                  !.wanted = IF archived[a] THEN @ ELSE @ \cup {a}])
      PROVE  Goes(p)
  <2>1. PICK w : w = IF archived[a] THEN q.wanted ELSE q.wanted \cup {a}
    OBVIOUS
  <2> DEFINE r == [q EXCEPT !.todo = @ \ {a}, !.wanted = w]
  <2>2. ASSUME NEW j, Shape(j), NEW s, s = [j EXCEPT !.todo = @ \ {a}, !.wanted = w]
        PROVE  /\ Shape(s) /\ s.op = j.op /\ s.at = j.at /\ s.doc = j.doc
               /\ s.cursor = j.cursor
    BY <2>2 DEF Shape
  <2>3. Shape(r) /\ r.op = q.op /\ r.at = q.at /\ r.doc = q.doc /\ r.cursor = q.cursor
    BY <1>1, <2>2 DEF Fit
  <2>4. Becomes(p, r)
    BY <1>3, <2>1
  <2> HIDE DEF r
  <2>5. Fit(r)
    BY <1>1, <2>3 DEF Fit, Ops, BulkOps, FitsCreate, FitsUpdate, FitsBulk
  <2> QED BY <2>4, <2>5, Becoming
<1>4. ASSUME Becomes(p, [q EXCEPT !.at = "write", !.todo = Activatable(q)])
      PROVE  Goes(p)
  <2>1. PICK t : t = Activatable(q)
    OBVIOUS
  <2> DEFINE r == [q EXCEPT !.at = "write", !.todo = t]
  <2>2. ASSUME NEW j, Shape(j), NEW s, s = [j EXCEPT !.at = "write", !.todo = t]
        PROVE  /\ Shape(s) /\ s.op = j.op /\ s.at = "write" /\ s.doc = j.doc
               /\ s.cursor = j.cursor /\ s.wanted = j.wanted /\ s.todo = t
    BY <2>2 DEF Shape
  <2>3. /\ Shape(r) /\ r.op = q.op /\ r.at = "write" /\ r.doc = q.doc
        /\ r.cursor = q.cursor /\ r.wanted = q.wanted /\ r.todo = t
    <3>1. Shape(q)
      BY <1>1 DEF Fit
    <3> QED BY Zenon, <2>2, <3>1
  <2>4. Becomes(p, r)
    BY <1>4, <2>1
  <2> HIDE DEF r
  <2>5. Activatable(r) = t
    BY <2>1, <2>3 DEF Activatable
  <2>6. Fit(r)
    BY <1>1, <2>3, <2>5 DEF Fit, Ops, BulkOps, FitsCreate, FitsUpdate, FitsBulk
  <2> QED BY <2>4, <2>6, Becoming
<1>5. Goes(p)
  BY <1>1, <1>2, <1>3, <1>4, Finishing DEF LookUp
<1> QED BY <1>5 DEF LookUp, Upkeep, upkeep

\* What bulkActivate() writes over a document that is as it was read.
LEMMA ActivatedIs ==
  ASSUME NEW read \in Documents, NEW now \in 0 .. LastDay, NEW next, next = Activated(read, now)
  PROVE  /\ next \in Documents /\ next.active = TRUE
         /\ next.account = read.account /\ next.free = read.free /\ next.sub = read.sub
         /\ CanPost(next) => next.next >= now
         /\ next.next # read.next => next.next > read.next
<1> DEFINE a == [read EXCEPT !.active = TRUE]
<1>1. /\ a \in Documents /\ a.active = TRUE /\ a.account = read.account
      /\ a.free = read.free /\ a.sub = read.sub /\ a.next = read.next
  BY DEF Documents, Values
<1>2. next = Settle(a, now)
  BY DEF Activated
<1> HIDE DEF a
<1> QED BY <1>1, <1>2, Settled

LEMMA ActivateStep ==
  ASSUME AllFit, SchedulesTyped, NEW p \in Requests, Activate(p)
  PROVE  Upkeep(p)
<1>1. PICK q : q = request[p] /\ Fit(q) /\ q.op = "activate" /\ q.at = "write"
  BY DEF AllFit, Activate, At
<1>2. PICK i \in q.todo :
        /\ IF Matches(q, i)
           THEN /\ Write(i, [schedules[i] EXCEPT !.active = TRUE,
                       !.next = IF Rolls(q, i) THEN Activated(q.doc[i], q.cursor).next
                                ELSE @])
                /\ Blindly(i, q.doc[i])
           ELSE Unchanged
        /\ Finish(p) \/ Becomes(p, [q EXCEPT !.todo = @ \ {i}])
  BY <1>1 DEF Activate
<1>3. /\ i \in DOMAIN q.doc /\ i \in Ids /\ q.cursor \in 0 .. LastDay
      /\ q.doc[i] \in Documents /\ q.doc[i].account \in q.wanted \cup {NoAccount}
  BY <1>1, <1>2 DEF Fit, FitsBulk, BulkOps, Activatable
<1>4. Goes(p)
  BY <1>1, <1>2, Shrinks DEF BulkOps
<1>5. today' = today
  BY DEF Activate
<1>6. CASE Matches(q, i)
  <2>1. PICK old \in Documents : old = schedules[i]
    BY <1>3 DEF SchedulesTyped
  <2>2. PICK read \in Documents : read = q.doc[i]
    BY <1>3
  <2>3. PICK act : act = Activated(read, q.cursor)
    OBVIOUS
  <2>4. /\ act \in Documents /\ act.active = TRUE
        /\ act.account = read.account /\ act.free = read.free /\ act.sub = read.sub
        /\ CanPost(act) => act.next >= q.cursor
        /\ act.next # read.next => act.next > read.next
    BY <1>3, <2>3, ActivatedIs
  <2>5. PICK d : d = IF act.next # read.next THEN act.next ELSE old.next
    OBVIOUS
  <2>6. PICK new : new = [old EXCEPT !.active = TRUE, !.next = d]
    OBVIOUS
  <2>7. Write(i, new) /\ Blindly(i, read)
    BY <1>2, <1>6, <2>1, <2>2, <2>3, <2>5, <2>6 DEF Rolls
  <2>8. /\ new \in Documents /\ new.active = TRUE /\ new.next = d /\ new.sub = old.sub
        /\ new.account = old.account /\ new.free = old.free
    BY <2>4, <2>5, <2>6 DEF Documents, Values
  <2>9. act.next # read.next => old.next = read.next
    BY <1>6, <2>1, <2>2, <2>3 DEF Matches, Rolls
  <2>10. blind \subseteq blind' /\ (i \notin blind' => old = read)
    BY <2>1, <2>7 DEF Blindly
  <2>11. act.next \in Int /\ old.next \in Int /\ read.next \in Int
    BY <2>4, DocumentIs
  <2>12. ~(new.next < old.next)
    BY <2>4, <2>5, <2>8, <2>9, <2>11
  <2>13. i \notin blind' => new.next = act.next /\ (CanPost(new) <=> CanPost(act))
    BY <2>4, <2>5, <2>8, <2>10 DEF CanPost
  <2>14. i \notin blind' /\ CanPost(new) => old.account \in q.wanted
    BY <1>3, <2>2, <2>8, <2>10 DEF CanPost
  <2>15. Promised(p, i, new)
    BY <1>1, <2>1, <2>4, <2>8, <2>12, <2>13, <2>14 DEF Promised, Sane
  <2> QED BY <1>3, <1>4, <1>5, <2>7, <2>8, <2>10, <2>15 DEF Upkeep
<1>7. CASE ~Matches(q, i)
  BY <1>2, <1>4, <1>5, <1>7 DEF Unchanged, Upkeep
<1> QED BY <1>6, <1>7

LEMMA SwitchStep ==
  ASSUME AllFit, SchedulesTyped, NEW p \in Requests, Switch(p)
  PROVE  Upkeep(p)
<1>1. PICK q : q = request[p] /\ Fit(q) /\ q.op \in {"deactivate", "delete"} /\ q.at = "write"
  BY DEF AllFit, Switch, At
<1>2. PICK i \in q.todo :
        /\ IF Subscription(i)
           THEN Write(i, IF q.op = "delete" THEN [schedules[i] EXCEPT !.state = "gone"]
                         ELSE [schedules[i] EXCEPT !.active = FALSE])
           ELSE UNCHANGED <<schedules, moved>>
        /\ Finish(p) \/ Becomes(p, [q EXCEPT !.todo = @ \ {i}])
  BY <1>1 DEF Switch
<1>3. i \in Ids
  BY <1>1, <1>2 DEF Fit, FitsBulk, BulkOps
<1>4. Goes(p)
  BY <1>1, <1>2, Shrinks DEF BulkOps
<1>5. today' = today /\ blind' = blind
  BY DEF Switch
<1>6. CASE Subscription(i)
  <2>1. PICK r : r = IF q.op = "delete" THEN [schedules[i] EXCEPT !.state = "gone"]
                     ELSE [schedules[i] EXCEPT !.active = FALSE]
    OBVIOUS
  <2>2. r \in Documents /\ Promised(p, i, r)
    BY <1>3, <2>1, ToggleKeeps
  <2> QED BY <1>2, <1>3, <1>4, <1>5, <1>6, <2>1, <2>2 DEF Upkeep
<1>7. CASE ~Subscription(i)
  BY <1>2, <1>4, <1>5, <1>7 DEF Upkeep
<1> QED BY <1>6, <1>7

LEMMA RequestsKeep ==
  ASSUME AllFit, SchedulesTyped, NEW p \in Requests,
         SubscriptionRequest(p) \/ SubscriptionStep(p)
  PROVE  Upkeep(p) /\ failures' = failures /\ (SubscriptionRequest(p) => ~Active(p))
<1>1. CASE SubscriptionRequest(p)
  <2>1. Upkeep(p) /\ ~Active(p)
    BY <1>1, CreateBegins, UpdateBegins, RemoveStep, BulkBegins, ArchiveStep
    DEF SubscriptionRequest
  <2>2. failures' = failures
    BY <1>1 DEF SubscriptionRequest, BeginCreate, BeginUpdate, Remove, BeginBulk, Archive
  <2> QED BY <2>1, <2>2
<1>2. CASE SubscriptionStep(p) /\ ~SubscriptionRequest(p)
  <2>1. Upkeep(p)
    BY <1>2, SaveNew, CheckStep, SaveStep, LookUpStep, ActivateStep, SwitchStep
    DEF SubscriptionStep
  <2>2. failures' = failures
    BY <1>2 DEF SubscriptionStep, Create, Check, Save, LookUp, Activate, Switch
  <2> QED BY <1>2, <2>1, <2>2
<1> QED BY <1>1, <1>2


-----------------------------------------------------------------------------
(* Reminders: one for an occurrence, and read for good.                    *)

NoticesTyped ==
  \A n \in reminders :
    /\ n = [of |-> n.of, date |-> n.date, read |-> n.read]
    /\ n.of \in Ids /\ n.date \in 1 .. LastDay + Period

\* No reminder becomes unread.
ReadStays ==
  \A n \in reminders, m \in reminders' : n.of = m.of /\ n.date = m.date /\ n.read => m.read

NoticesHold == NoticesTyped' /\ RemindedOnce' /\ ReadStays

LEMMA UpsertKeeps ==
  ASSUME NoticesTyped, RemindedOnce, NEW i \in Ids, NEW date \in 1 .. LastDay + Period,
         reminders' = Upserted(i, date)
  PROVE  NoticesHold
<1>1. CASE \E n \in reminders : n.of = i /\ n.date = date
  <2>1. reminders' = reminders
    BY <1>1 DEF Upserted
  <2> QED BY <2>1 DEF NoticesHold, NoticesTyped, RemindedOnce, ReadStays
<1>2. CASE ~\E n \in reminders : n.of = i /\ n.date = date
  <2>1. PICK n : n = [of |-> i, date |-> date, read |-> FALSE]
    OBVIOUS
  <2>2. reminders' = reminders \cup {n} /\ n.of = i /\ n.date = date
        /\ n = [of |-> n.of, date |-> n.date, read |-> n.read]
    BY <1>2, <2>1 DEF Upserted
  <2> QED BY <1>2, <2>2 DEF NoticesHold, NoticesTyped, RemindedOnce, ReadStays
<1> QED BY <1>1, <1>2

LEMMA ReadIs ==
  ASSUME NEW n, n = [of |-> n.of, date |-> n.date, read |-> n.read],
         NEW m, m = [n EXCEPT !.read = TRUE]
  PROVE  /\ m = [of |-> m.of, date |-> m.date, read |-> m.read]
         /\ m.of = n.of /\ m.date = n.date /\ m.read = TRUE
OBVIOUS

LEMMA ReadKeeps ==
  ASSUME NoticesTyped, RemindedOnce, NEW n \in reminders,
         reminders' = (reminders \ {n}) \cup {[n EXCEPT !.read = TRUE]}
  PROVE  NoticesHold
<1>1. PICK m : m = [n EXCEPT !.read = TRUE]
  OBVIOUS
<1>2. /\ m = [of |-> m.of, date |-> m.date, read |-> m.read]
      /\ m.of = n.of /\ m.date = n.date /\ m.read = TRUE
  BY <1>1, ReadIs DEF NoticesTyped
<1>3. reminders' = (reminders \ {n}) \cup {m}
  BY <1>1
<1>4. NoticesTyped'
  BY <1>2, <1>3 DEF NoticesTyped
<1>5. RemindedOnce'
  BY <1>2, <1>3 DEF RemindedOnce
<1>6. ReadStays
  BY <1>2, <1>3 DEF RemindedOnce, ReadStays
<1> QED BY <1>4, <1>5, <1>6 DEF NoticesHold

LEMMA ReadAllKeeps ==
  ASSUME NoticesTyped, RemindedOnce,
         reminders' = {[n EXCEPT !.read = TRUE] : n \in reminders}
  PROVE  NoticesHold
<1>1. ASSUME NEW m \in reminders'
      PROVE  \E n \in reminders :
               /\ m = [of |-> m.of, date |-> m.date, read |-> m.read]
               /\ m.of = n.of /\ m.date = n.date /\ m.read = TRUE
               /\ m = [n EXCEPT !.read = TRUE]
  BY ReadIs DEF NoticesTyped
<1>2. NoticesTyped'
  BY <1>1 DEF NoticesTyped
<1>3. RemindedOnce'
  <2> SUFFICES ASSUME NEW m \in reminders', NEW l \in reminders', m.of = l.of, m.date = l.date
               PROVE  m = l
    BY DEF RemindedOnce
  <2>1. PICK n \in reminders : m.of = n.of /\ m.date = n.date /\ m = [n EXCEPT !.read = TRUE]
    BY <1>1
  <2>2. PICK k \in reminders : l.of = k.of /\ l.date = k.date /\ l = [k EXCEPT !.read = TRUE]
    BY <1>1
  <2>3. n = k
    BY <2>1, <2>2 DEF RemindedOnce
  <2> QED BY <2>1, <2>2, <2>3
<1>4. ReadStays
  BY <1>1 DEF ReadStays
<1> QED BY <1>2, <1>3, <1>4 DEF NoticesHold

LEMMA DeleteKeeps ==
  ASSUME NoticesTyped, RemindedOnce, reminders' \subseteq reminders
  PROVE  NoticesHold
<1>1. NoticesTyped' /\ RemindedOnce'
  BY DEF NoticesTyped, RemindedOnce
<1>2. ReadStays
  BY DEF RemindedOnce, ReadStays
<1> QED BY <1>1, <1>2 DEF NoticesHold

-----------------------------------------------------------------------------
(* The job: whom it has passed it has told.                                *)

Wants(doc, now) ==
  doc.state = "live" /\ doc.active /\ doc.next - doc.lead <= now /\ now < doc.next

RoundShape(r) ==
  r = [pc |-> r.pc, now |-> r.now, todo |-> r.todo, of |-> r.of, date |-> r.date,
       failed |-> r.failed]

\* Whoever has not been moved since is either still to visit, or has failed, or was
\* told if it was to be; what is being reminded of is as it was seen.
RoundFits(r) ==
  /\ RoundShape(r) /\ r.pc \in {"idle", "scan", "upsert"}
  /\ r.pc # "idle" =>
       /\ r.now \in 0 .. LastDay
       /\ \A i \in Ids \ (moved \cup r.failed \cup r.todo) :
            Wants(schedules[i], r.now) => <<i, schedules[i].next>> \in told
  /\ r.pc = "upsert" =>
       /\ r.of \in Ids /\ r.date \in 1 .. LastDay + Period
       /\ r.of \notin moved => r.date = schedules[r.of].next

RoundsFit ==
  /\ round = [s \in Servers |-> round[s]]
  /\ \A s \in Servers : RoundFits(round[s])

\* Whoever changed has been moved.
Kept == \A i \in Ids \ moved' : i \notin moved /\ schedules'[i] = schedules[i]

LEMMA RoundsKeep ==
  ASSUME RoundsFit, Kept, round' = round, told \subseteq told'
  PROVE  RoundsFit'
BY DEF RoundsFit, RoundFits, Kept, Wants

\* A step of the job on one server, the schedules staying as they are.
LEMMA RoundMoves ==
  ASSUME RoundsFit, schedules' = schedules, moved' = moved, told \subseteq told',
         NEW s \in Servers, NEW r, Begins(s, r), RoundFits(r)'
  PROVE  /\ RoundsFit' /\ round'[s] = r
         /\ \A t \in Servers \ {s} : round'[t] = round[t]
<1>1. round'[s] = r /\ \A t \in Servers \ {s} : round'[t] = round[t]
  BY DEF Begins, RoundsFit
<1>2. round' = [t \in Servers |-> round'[t]]
  BY DEF Begins, RoundsFit
<1>3. \A t \in Servers \ {s} : RoundFits(round[t])'
  BY <1>1 DEF RoundsFit, RoundFits
<1>4. RoundFits(round[s])'
  BY <1>1 DEF RoundFits
<1> QED BY <1>1, <1>2, <1>3, <1>4 DEF RoundsFit


LEMMA RestingIs == RoundShape(Resting) /\ Resting.pc = "idle"
BY DEF RoundShape, Resting

\* A round that starts has everybody still to visit.  Only when no other is under
\* way what has been moved is forgotten.
LEMMA StartKeeps ==
  ASSUME RoundsFit, SchedulesTyped, NEW s \in Servers, StartRound(s)
  PROVE  RoundsFit' /\ round'[s].pc # "idle"
                    /\ \A t \in Servers \ {s} : round'[t] = round[t]
<1>1. PICK now \in 0 .. LastDay : now = today
  BY DEF SchedulesTyped
<1> DEFINE r == [Resting EXCEPT !.pc = "scan", !.now = now, !.todo = Ids]
<1>2. ASSUME NEW j, RoundShape(j), NEW k, k = [j EXCEPT !.pc = "scan", !.now = now, !.todo = Ids]
      PROVE  RoundShape(k) /\ k.pc = "scan" /\ k.now = now /\ k.todo = Ids
  BY <1>2 DEF RoundShape
<1>3. RoundShape(r) /\ r.pc = "scan" /\ r.now = now /\ r.todo = Ids
  BY <1>2, RestingIs
<1>4. Begins(s, r) /\ schedules' = schedules /\ told' = told
  BY <1>1 DEF StartRound
<1> HIDE DEF r
<1>5. round'[s] = r /\ \A t \in Servers \ {s} : round'[t] = round[t]
  BY <1>4 DEF Begins, RoundsFit
<1>6. round' = [t \in Servers |-> round'[t]]
  BY <1>4 DEF Begins, RoundsFit
<1>7. RoundFits(round[s])'
  BY <1>3, <1>5 DEF RoundFits
<1>8. ASSUME NEW t \in Servers \ {s} PROVE RoundFits(round[t])'
  <2>1. CASE \A u \in Servers : round[u].pc = "idle"
    BY <1>5, <2>1 DEF RoundsFit, RoundFits
  <2>2. CASE ~\A u \in Servers : round[u].pc = "idle"
    <3>1. moved' = moved
      BY <2>2 DEF StartRound
    <3> QED BY <1>4, <1>5, <3>1 DEF RoundsFit, RoundFits
  <2> QED BY <2>1, <2>2
<1> QED BY <1>3, <1>5, <1>6, <1>7, <1>8 DEF RoundsFit

\* Who is passed over does not want to be reminded.
LEMMA VisitKeeps ==
  ASSUME RoundsFit, SchedulesTyped, NEW s \in Servers, Visit(s)
  PROVE  RoundsFit' /\ round'[s].pc # "idle"
                    /\ \A t \in Servers \ {s} : round'[t] = round[t]
<1>1. PICK r : r = round[s] /\ r.pc = "scan" /\ RoundFits(r) /\ RoundShape(r)
  BY DEF Visit, RoundsFit, RoundFits
<1>2. PICK i \in r.todo :
        LET doc == schedules[i]
            remind == Live(schedules, i) /\ doc.active
                      /\ InReminderWindow(doc.next, doc.lead, r.now)
        IN  Begins(s, IF remind THEN [r EXCEPT !.pc = "upsert", !.of = i, !.date = doc.next]
                      ELSE [r EXCEPT !.todo = @ \ {i}])
  BY <1>1 DEF Visit
<1>3. schedules' = schedules /\ moved' = moved /\ told' = told
  BY DEF Visit, upkeep
<1>4. CASE Live(schedules, i) /\ schedules[i].active
           /\ InReminderWindow(schedules[i].next, schedules[i].lead, r.now)
  <2>1. PICK d : d = schedules[i].next
    OBVIOUS
  <2>2. PICK k : k = [r EXCEPT !.pc = "upsert", !.of = i, !.date = d]
    OBVIOUS
  <2>3. Begins(s, k)
    BY <1>2, <1>4, <2>1, <2>2
  <2>4. /\ RoundShape(k) /\ k.pc = "upsert" /\ k.of = i /\ k.date = d /\ k.now = r.now
        /\ k.todo = r.todo /\ k.failed = r.failed
    <3>1. RoundShape(r)
      BY <1>1
    <3> QED BY <3>1, <2>2 DEF RoundShape
  <2>5. i \in Ids /\ d \in 1 .. LastDay + Period
    <3>1. i \in Ids /\ schedules[i] \in Documents
      BY <1>4, LiveIs
    <3>2. d \in 0 .. LastDay + Period /\ d \in Int /\ r.now \in 0 .. LastDay /\ r.now < d
      BY <1>1, <1>4, <2>1, <3>1, DocumentIs DEF InReminderWindow, RoundFits
    <3>3. LastDay \in Int /\ Period \in Int
      BY SubscriptionsAssumption
    <3> QED BY <3>1, <3>2, <3>3
  <2>6. RoundFits(k)'
    BY <1>1, <1>3, <2>1, <2>4, <2>5 DEF RoundFits
  <2> QED BY <1>3, <2>3, <2>4, <2>6, RoundMoves
<1>5. CASE ~(Live(schedules, i) /\ schedules[i].active
             /\ InReminderWindow(schedules[i].next, schedules[i].lead, r.now))
  <2> DEFINE k == [r EXCEPT !.todo = @ \ {i}]
  <2>1. Begins(s, k)
    BY <1>2, <1>5
  <2>2. /\ RoundShape(k) /\ k.pc = "scan" /\ k.now = r.now
        /\ k.todo = r.todo \ {i} /\ k.failed = r.failed
    BY <1>1 DEF RoundShape
  <2> HIDE DEF k
  <2>3. i \in Ids => ~Wants(schedules[i], r.now)
    <3> SUFFICES ASSUME i \in Ids, Wants(schedules[i], r.now) PROVE FALSE
      OBVIOUS
    <3>1. PICK doc \in Documents : doc = schedules[i]
      BY DEF SchedulesTyped
    <3>2. doc.next \in Int /\ doc.lead \in Int /\ r.now \in Int /\ Live(schedules, i)
      BY <1>1, <3>1, DocumentIs, SubscriptionsAssumption
      DEF RoundFits, Wants, Live, SchedulesTyped
    <3> QED BY <1>5, <3>1, <3>2 DEF Wants, InReminderWindow
  <2>4. RoundFits(k)'
    BY <1>1, <1>3, <2>2, <2>3 DEF RoundFits
  <2> QED BY <1>3, <2>1, <2>2, <2>4, RoundMoves
<1> QED BY <1>4, <1>5

\* Past one that was told, or that failed.
LEMMA PastIs ==
  ASSUME NEW r, RoundShape(r), NEW k,
         k = Past(r) \/ k = AfterFailure(r)
  PROVE  /\ RoundShape(k) /\ k.pc = "scan" /\ k.now = r.now /\ k.todo = r.todo \ {r.of}
         /\ k.failed = r.failed \/ k.failed = r.failed \cup {r.of}
         /\ k = Past(r) => k.failed = r.failed
         /\ k = AfterFailure(r) => k.failed = r.failed \cup {r.of}
<1>1. PICK x : x = Past(r)
  OBVIOUS
<1>2. /\ RoundShape(x) /\ x.pc = "scan" /\ x.now = r.now /\ x.todo = r.todo \ {r.of}
      /\ x.failed = r.failed
  BY <1>1 DEF Past, RoundShape
<1>3. PICK y : y = [x EXCEPT !.failed = @ \cup {r.of}]
  OBVIOUS
<1>4. /\ RoundShape(y) /\ y.pc = "scan" /\ y.now = r.now /\ y.todo = r.todo \ {r.of}
      /\ y.failed = r.failed \cup {r.of}
  BY <1>2, <1>3 DEF RoundShape
<1>5. y = AfterFailure(r)
  BY <1>1, <1>3 DEF AfterFailure
<1> QED BY <1>1, <1>2, <1>4, <1>5

LEMMA RemindKeeps ==
  ASSUME RoundsFit, NEW s \in Servers, Remind(s), NoticesTyped, RemindedOnce
  PROVE  /\ RoundsFit' /\ round'[s].pc # "idle" /\ NoticesHold
         /\ \A t \in Servers \ {s} : round'[t] = round[t]
<1>1. PICK r : r = round[s] /\ r.pc = "upsert" /\ RoundFits(r) /\ RoundShape(r)
  BY DEF Remind, RoundsFit, RoundFits
<1>2. /\ reminders' = Upserted(r.of, r.date) /\ told' = told \cup {<<r.of, r.date>>}
      /\ Begins(s, Past(r)) /\ schedules' = schedules /\ moved' = moved
  BY <1>1 DEF Remind, upkeep
<1>3. NoticesHold
  BY <1>1, <1>2, UpsertKeeps DEF RoundFits
<1>4. PICK k : k = Past(r)
  OBVIOUS
<1>5. /\ RoundShape(k) /\ k.pc = "scan" /\ k.now = r.now /\ k.todo = r.todo \ {r.of}
      /\ k.failed = r.failed
  BY <1>1, <1>4, PastIs
<1>6. RoundFits(k)'
  BY <1>1, <1>2, <1>5 DEF RoundFits
<1> QED BY <1>2, <1>3, <1>4, <1>5, <1>6, RoundMoves

LEMMA FailKeeps ==
  ASSUME RoundsFit, NEW s \in Servers, RemindFails(s)
  PROVE  RoundsFit' /\ \A t \in Servers \ {s} : round'[t] = round[t]
<1>1. PICK r : r = round[s] /\ r.pc = "upsert" /\ RoundFits(r) /\ RoundShape(r)
  BY DEF RemindFails, RoundsFit, RoundFits
<1>2. /\ Begins(s, AfterFailure(r)) /\ schedules' = schedules /\ moved' = moved
      /\ told' = told
  BY <1>1 DEF RemindFails, upkeep
<1>3. PICK k : k = AfterFailure(r)
  OBVIOUS
<1>4. /\ RoundShape(k) /\ k.pc = "scan" /\ k.now = r.now /\ k.todo = r.todo \ {r.of}
      /\ k.failed = r.failed \cup {r.of}
  BY <1>1, <1>3, PastIs
<1>5. RoundFits(k)'
  BY <1>1, <1>2, <1>4 DEF RoundFits
<1> QED BY <1>2, <1>3, <1>5, RoundMoves

LEMMA RestKeeps ==
  ASSUME RoundsFit, NEW s \in Servers, EndRound(s) \/ RoundDies(s)
  PROVE  RoundsFit' /\ \A t \in Servers \ {s} : round'[t] = round[t]
<1>1. /\ Begins(s, Resting) /\ schedules' = schedules /\ moved' = moved
      /\ told' = told
  BY DEF EndRound, RoundDies, upkeep
<1>2. RoundFits(Resting)'
  BY RestingIs DEF RoundFits
<1> QED BY <1>1, <1>2, RoundMoves


-----------------------------------------------------------------------------
(* The invariant.                                                          *)

\* A free subscription is not tracked, or a request wrote it blindly.
Untracked == \A i \in Ids : i \in blind \/ Sane(schedules[i])

Inv ==
  /\ AllFit /\ SchedulesTyped /\ Untracked
  /\ NoticesTyped /\ RemindedOnce /\ RoundsFit
  /\ failures \in Nat

LEMMA WriteIs ==
  ASSUME SchedulesTyped, NEW i \in Ids, NEW doc \in Documents, Write(i, doc)
  PROVE  /\ schedules' \in [Ids -> Documents] /\ schedules'[i] = doc /\ Kept
         /\ \A j \in Ids \ {i} : schedules'[j] = schedules[j]
<1>1. /\ schedules' \in [Ids -> Documents] /\ schedules'[i] = doc
      /\ \A j \in Ids \ {i} : schedules'[j] = schedules[j]
  BY DEF Write, SchedulesTyped
<1>2. Kept
  BY <1>1 DEF Write, Kept
<1> QED BY <1>1, <1>2

\* A request keeps all that is known of schedules, reminders and jobs.
LEMMA UpkeepKeeps ==
  ASSUME Inv, NEW p \in Requests, Upkeep(p), UNCHANGED notices, failures' = failures
  PROVE  Inv'
<1>1. AllFit' /\ failures' \in Nat /\ NoticesTyped' /\ RemindedOnce'
  BY DEF Inv, Upkeep, Goes, notices, NoticesTyped, RemindedOnce
<1>2. round' = round /\ told' = told
  BY DEF notices
<1>3. CASE UNCHANGED <<schedules, moved>>
  <2>1. SchedulesTyped' /\ Untracked' /\ Kept
    BY <1>3 DEF Inv, Upkeep, SchedulesTyped, Untracked, Kept
  <2>2. RoundsFit'
    BY <1>2, <2>1, RoundsKeep DEF Inv
  <2> QED BY <1>1, <2>1, <2>2 DEF Inv
<1>4. ASSUME NEW i \in Ids, NEW doc \in Documents, Write(i, doc), Promised(p, i, doc)
      PROVE  Inv'
  <2>1. /\ schedules' \in [Ids -> Documents] /\ schedules'[i] = doc /\ Kept
        /\ \A j \in Ids \ {i} : schedules'[j] = schedules[j]
    BY <1>4, WriteIs DEF Inv
  <2>2. SchedulesTyped'
    BY <2>1 DEF Upkeep, SchedulesTyped, Inv
  <2>3. Untracked'
    <3>1. i \in blind' \/ (Sane(schedules[i]) => Sane(doc))
      BY <1>4 DEF Promised
    <3>2. blind \subseteq blind'
      BY DEF Upkeep
    <3> QED BY <2>1, <3>1, <3>2 DEF Inv, Untracked
  <2>4. RoundsFit'
    BY <1>2, <2>1, RoundsKeep DEF Inv
  <2> QED BY <1>1, <2>2, <2>3, <2>4 DEF Inv
<1> QED BY <1>3, <1>4 DEF Upkeep

\* materializeSchedule(): what is due is not past the last day yet.
LEMMA PostKeeps ==
  ASSUME Inv, NEW i \in Ids, Materialize(i), UNCHANGED notices
  PROVE  Inv'
<1>1. PICK old \in Documents : old = schedules[i]
  BY DEF Inv, SchedulesTyped
<1>2. PICK d : d = old.next + Period
  OBVIOUS
<1>3. PICK doc : doc = [old EXCEPT !.next = d]
  OBVIOUS
<1>4. Write(i, doc) /\ Due(old) /\ UNCHANGED <<today, blind, request, failures>>
  BY <1>1, <1>2, <1>3 DEF Materialize
<1>5. d \in 0 .. LastDay + Period
  <2>1. old.next \in 0 .. LastDay + Period /\ old.next <= LastDay
    BY <1>4, DocumentIs, SubscriptionsAssumption DEF Due, Inv, SchedulesTyped
  <2> QED BY <1>2, <2>1, SubscriptionsAssumption
<1>6. doc \in Documents /\ doc.free = old.free /\ doc.account = old.account
  BY <1>3, <1>5 DEF Documents, Values
<1>7. /\ schedules' \in [Ids -> Documents] /\ schedules'[i] = doc /\ Kept
      /\ \A j \in Ids \ {i} : schedules'[j] = schedules[j]
  BY <1>4, <1>6, WriteIs DEF Inv
<1>8. SchedulesTyped' /\ Untracked'
  BY <1>1, <1>4, <1>6, <1>7 DEF Inv, SchedulesTyped, Untracked, Sane
<1>9. RoundsFit'
  BY <1>7, RoundsKeep DEF Inv, notices
<1>10. AllFit' /\ NoticesTyped' /\ RemindedOnce' /\ failures' \in Nat
  BY <1>4 DEF Inv, AllFit, NoticesTyped, RemindedOnce, notices
<1> QED BY <1>8, <1>9, <1>10 DEF Inv

LEMMA MidnightKeeps ==
  ASSUME Inv, Midnight
  PROVE  Inv'
<1>1. SchedulesTyped' /\ Untracked' /\ Kept
  BY SubscriptionsAssumption DEF Inv, Midnight, SchedulesTyped, Untracked, Kept
<1>2. RoundsFit'
  BY <1>1, RoundsKeep DEF Inv, Midnight
<1>3. AllFit' /\ NoticesTyped' /\ RemindedOnce' /\ failures' \in Nat
  BY DEF Inv, Midnight, AllFit, NoticesTyped, RemindedOnce
<1> QED BY <1>1, <1>2, <1>3 DEF Inv

LEMMA JobKeeps ==
  ASSUME Inv, NEW s \in Servers, Job(s)
  PROVE  Inv' /\ ReadStays /\ \A t \in Servers \ {s} : round'[t] = round[t]
<1>1. UNCHANGED <<today, schedules, blind, request, amid>>
  BY DEF Job, StartRound, Visit, Remind, RemindFails, EndRound, RoundDies, upkeep
<1>2. failures' \in Nat
  <2>1. CASE RemindFails(s) \/ RoundDies(s)
    <3>1. failures' = failures + 1
      BY <2>1 DEF RemindFails, RoundDies
    <3> QED BY <3>1 DEF Inv
  <2>2. CASE ~(RemindFails(s) \/ RoundDies(s))
    <3>1. failures' = failures
      BY <2>2 DEF Job, StartRound, Visit, Remind, EndRound
    <3> QED BY <3>1 DEF Inv
  <2> QED BY <2>1, <2>2
<1>3. NoticesHold
  <2>1. CASE Remind(s)
    BY <2>1, RemindKeeps DEF Inv
  <2>2. CASE ~Remind(s)
    <3>1. reminders' = reminders
      BY <2>2 DEF Job, StartRound, Visit, RemindFails, EndRound, RoundDies
    <3> QED BY <3>1, DeleteKeeps DEF Inv
  <2> QED BY <2>1, <2>2
<1>4. RoundsFit' /\ \A t \in Servers \ {s} : round'[t] = round[t]
  BY StartKeeps, VisitKeeps, RemindKeeps, FailKeeps, RestKeeps DEF Job, Inv
<1>5. AllFit' /\ SchedulesTyped' /\ Untracked'
  BY <1>1 DEF Inv, AllFit, SchedulesTyped, Untracked
<1> QED BY <1>2, <1>3, <1>4, <1>5 DEF Inv, NoticesHold

\* Reading and deleting reminders.
LEMMA MemberKeeps ==
  ASSUME Inv, NEW p \in Requests,
         ReadAll(p) \/ \E n \in reminders : Read(p, n) \/ Delete(p, n)
  PROVE  Inv' /\ ReadStays /\ Goes(p) /\ ~Active(p) /\ UNCHANGED <<upkeep, round>>
<1>1. UNCHANGED <<upkeep, round, told, failures>> /\ Begin(p, Done)
  BY DEF ReadAll, Read, Delete
<1>2. Goes(p) /\ ~Active(p)
  BY <1>1, Beginning, DoneIs DEF Inv
<1>3. NoticesHold
  BY ReadAllKeeps, ReadKeeps, DeleteKeeps DEF ReadAll, Read, Delete, Inv
<1>4. SchedulesTyped' /\ Untracked' /\ Kept
  BY <1>1 DEF Inv, upkeep, SchedulesTyped, Untracked, Kept
<1>5. RoundsFit'
  BY <1>1, <1>4, RoundsKeep DEF Inv
<1> QED BY <1>1, <1>2, <1>3, <1>4, <1>5 DEF Inv, NoticesHold, Goes

LEMMA InitHolds ==
  ASSUME Init
  PROVE  Inv
<1>1. AllFit
  BY IdleIs DEF Init, AllFit
<1>2. SchedulesTyped /\ Untracked
  BY RemindersAssumption, SubscriptionsAssumption
  DEF Init, InitUpkeep, SchedulesTyped, Untracked, Sane
<1>3. NoticesTyped /\ RemindedOnce
  BY DEF Init, NoticesTyped, RemindedOnce
<1>4. RoundsFit
  BY RestingIs DEF Init, RoundsFit, RoundFits
<1> QED BY <1>1, <1>2, <1>3, <1>4 DEF Inv, Init

LEMMA StuttersHold ==
  ASSUME Inv, UNCHANGED vars
  PROVE  Inv' /\ ReadStays
<1>1. UNCHANGED <<today, schedules, blind, moved, reminders, round, told, request, failures>>
  BY DEF vars, upkeep, notices
<1>2. AllFit' /\ SchedulesTyped' /\ Untracked' /\ Kept
  BY <1>1 DEF Inv, AllFit, SchedulesTyped, Untracked, Kept
<1>3. RoundsFit'
  BY <1>1, <1>2, RoundsKeep DEF Inv
<1>4. NoticesHold
  BY <1>1, DeleteKeeps DEF Inv
<1> QED BY <1>1, <1>2, <1>3, <1>4 DEF Inv, NoticesHold

LEMMA NextHolds ==
  ASSUME Inv, Next
  PROVE  Inv' /\ ReadStays
<1>1. CASE Midnight
  BY <1>1, MidnightKeeps, DeleteKeeps DEF Midnight, Inv, NoticesHold
<1>2. ASSUME NEW s \in Servers, Job(s) PROVE Inv' /\ ReadStays
  BY <1>2, JobKeeps
<1>3. ASSUME NEW i \in Ids, Materialize(i), UNCHANGED notices PROVE Inv' /\ ReadStays
  BY <1>3, PostKeeps, DeleteKeeps DEF notices, Inv, NoticesHold
<1>4. ASSUME NEW p \in Requests, SubscriptionRequest(p) \/ SubscriptionStep(p), UNCHANGED notices
      PROVE  Inv' /\ ReadStays
  BY <1>4, RequestsKeep, UpkeepKeeps, DeleteKeeps DEF notices, Inv, NoticesHold
<1> QED BY <1>1, <1>2, <1>3, <1>4, MemberKeeps DEF Next

LEMMA InvHolds == Spec => []Inv
<1>1. Init => Inv
  BY InitHolds
<1>2. Inv /\ [Next]_vars => Inv'
  BY NextHolds, StuttersHold
<1> QED BY <1>1, <1>2, PTL DEF Spec

-----------------------------------------------------------------------------
(* The theorems.                                                           *)

\* A free subscription posts nothing, unless two requests crossed, and an occurrence
\* is announced once, whatever servers, days and reads there are (subscriptions.service.ts,
\* notifications.service.ts).
THEOREM TrackedAndToldAlways ==
  Spec => []TrackedAndTold
<1>1. Inv => TrackedAndTold
  <2> SUFFICES ASSUME Inv PROVE TrackedAndTold
    OBVIOUS
  <2>1. TypeOK
    BY DocumentIs DEF Inv, SchedulesTyped, NoticesTyped, TypeOK
  <2>2. FreeIsUntracked
    BY DEF Inv, Untracked, Sane, FreeIsUntracked
  <2> QED BY <2>1, <2>2 DEF Inv, TrackedAndTold
<1> QED BY <1>1, InvHolds, PTL


\* Who has moved is who made the step.
LEMMA OwnStep ==
  ASSUME Inv, Next, NEW p \in Requests, Steps(p)
  PROVE  Upkeep(p)
<1>1. request'[p] # request[p] /\ Active(p)
  BY DEF Steps
<1>2. ~Midnight /\ (\A s \in Servers : ~Job(s)) /\ \A i \in Ids : ~Materialize(i)
  BY <1>1 DEF Midnight, Materialize, Job, StartRound, Visit, Remind, RemindFails, EndRound,
     RoundDies
<1>3. PICK r \in Requests :
        \/ SubscriptionRequest(r) \/ SubscriptionStep(r)
        \/ ReadAll(r) \/ \E n \in reminders : Read(r, n) \/ Delete(r, n)
  BY <1>2 DEF Next
<1>4. CASE SubscriptionRequest(r) \/ SubscriptionStep(r)
  BY <1>1, <1>4, RequestsKeep DEF Inv, Upkeep, Goes, Only
<1>5. CASE ReadAll(r) \/ \E n \in reminders : Read(r, n) \/ Delete(r, n)
  BY <1>1, <1>5, MemberKeeps DEF Goes, Only
<1> QED BY <1>3, <1>4, <1>5

\* What a request writes is what was promised of it.
LEMMA OwnPromise ==
  ASSUME Inv, Next, NEW p \in Requests, Steps(p), NEW i \in Ids
  PROVE  /\ schedules'[i] = schedules[i] \/ Promised(p, i, schedules'[i])
         /\ schedules[i].next \in Int /\ ~(schedules[i].next < schedules[i].next)
<1>1. Upkeep(p) /\ SchedulesTyped
  BY OwnStep DEF Inv
<1>2. ASSUME NEW j \in Ids, NEW doc \in Documents, Write(j, doc), Promised(p, j, doc)
      PROVE  schedules'[i] = schedules[i] \/ Promised(p, i, schedules'[i])
  BY <1>1, <1>2, WriteIs
<1>3. schedules'[i] = schedules[i] \/ Promised(p, i, schedules'[i])
  BY <1>1, <1>2 DEF Upkeep
<1>4. schedules[i].next \in Int
  BY <1>1, DocumentIs DEF SchedulesTyped
<1> QED BY <1>3, <1>4

\* No request makes a subscription post into the past or onto an account that was not
\* looked up, and none puts back a date the midnight job has moved on, but for a PATCH
\* that names a date or had rolled the one it read (subscriptions.service.ts).
THEOREM RequestsActivateSoundly ==
  Spec => ActivatesSoundly
<1>1. ASSUME Inv, Next, NEW i \in Ids, NEW p \in Requests, Steps(p)
      PROVE  /\ /\ CanPost(schedules'[i]) /\ i \notin blind'
                /\ ~CanPost(schedules[i]) \/ schedules'[i].next # schedules[i].next
                /\ Steps(p) /\ request[p].op \in {"update", "activate"}
                => schedules'[i].next >= request[p].cursor
             /\ /\ CanPost(schedules'[i]) /\ ~schedules[i].active /\ i \notin blind'
                /\ Steps(p)
                => \/ request[p].op = "update" /\ request[p].found
                   \/ request[p].op = "activate" /\ schedules[i].account \in request[p].wanted
                   \/ request[p].op = "create"
             /\ /\ schedules[i].state = "live" /\ schedules'[i].next < schedules[i].next
                /\ Steps(p)
                => /\ request[p].op = "update"
                   /\ \/ "next" \in request[p].todo
                      \/ /\ request[p].doc.next < request[p].cursor
                         /\ request[p].cursor <= schedules'[i].next
  <2>1. PICK new : new = schedules'[i]
    OBVIOUS
  <2>2. new = schedules[i] \/ Promised(p, i, new)
    BY <1>1, <2>1, OwnPromise
  <2>3. ~(schedules[i].next < schedules[i].next)
    BY <1>1, OwnPromise
  <2>4. CASE new = schedules[i]
    BY <2>1, <2>3, <2>4 DEF CanPost
  <2>5. CASE Promised(p, i, new)
    BY <2>1, <2>5 DEF Promised
  <2> QED BY <2>2, <2>4, <2>5
<1>2. Inv /\ [Next]_vars =>
        [\A i \in Ids, p \in Requests :
          /\ CanPost(schedules'[i]) /\ i \notin blind'
          /\ ~CanPost(schedules[i]) \/ schedules'[i].next # schedules[i].next
          /\ Steps(p) /\ request[p].op \in {"update", "activate"}
          => schedules'[i].next >= request[p].cursor]_vars
  BY <1>1
<1>3. Inv /\ [Next]_vars =>
        [\A i \in Ids, p \in Requests :
          /\ CanPost(schedules'[i]) /\ ~schedules[i].active /\ i \notin blind'
          /\ Steps(p)
          => \/ request[p].op = "update" /\ request[p].found
             \/ request[p].op = "activate" /\ schedules[i].account \in request[p].wanted
             \/ request[p].op = "create"]_vars
  BY <1>1
<1>4. Inv /\ [Next]_vars =>
        [\A i \in Ids, p \in Requests :
          /\ schedules[i].state = "live" /\ schedules'[i].next < schedules[i].next
          /\ Steps(p)
          => /\ request[p].op = "update"
             /\ \/ "next" \in request[p].todo
                \/ /\ request[p].doc.next < request[p].cursor
                   /\ request[p].cursor <= schedules'[i].next]_vars
  BY <1>1
<1> QED BY <1>2, <1>3, <1>4, InvHolds, PTL
        DEF Spec, ActivatesSoundly, NoBackfill, ResumesUsable, NoStepBack

\* A job that ends, and does not die, has passed everybody.
LEMMA EndTold ==
  ASSUME Inv, Next, NEW s \in Servers, round[s].pc # "idle", round'[s].pc = "idle",
         failures' = failures, NEW i \in Ids \ (moved \cup round[s].failed),
         Wants(schedules[i], round[s].now)
  PROVE  <<i, schedules[i].next>> \in told
<1>1. PICK t \in Servers : Job(t)
  <2>1. round' # round
    OBVIOUS
  <2> QED BY <2>1 DEF Next, Midnight, notices, ReadAll, Read, Delete
<1>2. t = s
  BY <1>1, JobKeeps
<1>3. ~RemindFails(s) /\ ~RoundDies(s)
  <2>1. failures \in Nat
    BY DEF Inv
  <2> QED BY <2>1 DEF RemindFails, RoundDies
<1>4. ~StartRound(s) /\ ~Visit(s) /\ ~Remind(s)
  BY StartKeeps, VisitKeeps, RemindKeeps DEF Inv
<1>5. EndRound(s)
  BY <1>1, <1>2, <1>3, <1>4 DEF Job
<1>6. round[s].todo = {} /\ RoundFits(round[s])
  BY <1>5 DEF EndRound, Inv, RoundsFit
<1> QED BY <1>6 DEF RoundFits

\* At the end of a job everyone has been reminded who could be, but for those whose
\* reminder failed, and what was read stays read (notifications-cron.service.ts,
\* notifications.service.ts).
THEOREM EverybodyIsReminded ==
  Spec => Reminded
<1>1. Inv /\ [Next]_vars =>
        [\A s \in Servers :
          round[s].pc # "idle" /\ round'[s].pc = "idle" /\ failures' = failures =>
            \A i \in Ids \ (moved \cup round[s].failed) :
              LET doc == schedules[i] IN
              doc.state = "live" /\ doc.active
                /\ doc.next - doc.lead <= round[s].now /\ round[s].now < doc.next
              => <<i, doc.next>> \in told]_vars
  BY EndTold DEF Wants
<1>2. Inv /\ [Next]_vars =>
        [\A n \in reminders, m \in reminders' :
          n.of = m.of /\ n.date = m.date /\ n.read => m.read]_vars
  BY NextHolds DEF ReadStays
<1> QED BY <1>1, <1>2, InvHolds, PTL DEF Spec, Reminded, RemindedInTime, StaysRead
=============================================================================
