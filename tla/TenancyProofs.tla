--------------------------- MODULE TenancyProofs ---------------------------
(***************************************************************************)
(* Tenancy.tla for any users, requests, boots, households and failures: in *)
(* the first part, there is always an administrator (AdminRemains); in the *)
(* second, everyone has one home (HomesHold), invitations mean what they   *)
(* say (InvitationsHold) and no member leaves wrongly (LeavesRightly).     *)
(***************************************************************************)
EXTENDS Tenancy, FiniteSetTheorems, SequenceTheorems, TLAPS

-----------------------------------------------------------------------------
(* Nothing locks the administrators: a demotion is written first and       *)
(* counted afterwards.  So the last administrator may be gone for a        *)
(* moment, and the argument is that somebody then still has to count, and  *)
(* that whoever has to can take the demotion back: their user is not yet   *)
(* deleted (Recoverable), unless a write overtook the count.               *)

\* The steps of a change of role, and the operations that have such steps.
RoleSteps == {"demote", "countAdmins", "restoreAdmin", "repromote", "update"}
RoleOps == {"delete", "makeUser", "makeAdmin"}

\* What a handler has in memory is a record of these fields.
Record(q) ==
  q = [op |-> q.op, at |-> q.at, user |-> q.user, household |-> q.household,
       doc |-> q.doc, invitation |-> q.invitation, home |-> q.home,
       demoted |-> q.demoted, todo |-> q.todo]

Shapes ==
  /\ account = [u \in Users |-> account[u]]
  /\ request = [p \in Handlers |-> request[p]]
  /\ \A p \in Handlers : Record(request[p])
  /\ overtaken \in BOOLEAN

\* An administrator's account exists.
AdminsLive == \A u \in admins : u \in Users /\ account[u] = "live"

\* Only requests register, delete and change roles, of users once registered.
Governs(p, q) ==
  /\ q.at \in RoleSteps => q.op \in RoleOps
  /\ q.at = "update" => q.op # "delete"
  /\ q.op \in RoleOps \cup {"register"} =>
       p \in Requests /\ q.user \in Users /\ account[q.user] # "new"

Governed == \A p \in Handlers : Governs(p, request[p])

\* Whoever has yet to count can still take the demotion back.
Recoverable ==
  ~overtaken =>
    \A p \in Handlers : Unchecked(request[p]) => account[request[p].user] = "live"

AdminInv == Shapes /\ AdminsLive /\ Governed /\ Recoverable /\ AdminRemains

\* What leaves the administrators alone: the handler p goes on to q, which is no
\* step of a change of role unless p was at none that matters.
Elsewhere(p, q) ==
  /\ request' = [request EXCEPT ![p] = q]
  /\ Record(q)
  /\ ~Unchecked(request[p]) /\ ~Unchecked(q)
  /\ q.at \in RoleSteps => q.op \in RoleOps
  /\ q.at = "update" => q.op # "delete"
  /\ q.op \in RoleOps \cup {"register"} => q.op = request[p].op /\ q.user = request[p].user
  /\ UNCHANGED <<account, admins, overtaken>>

\* A step elsewhere keeps the invariant.
LEMMA ElsewherePreserves ==
  ASSUME AdminInv, NEW p \in Handlers, NEW q, Elsewhere(p, q)
  PROVE  AdminInv'
<1> USE DEF AdminInv, Elsewhere
<1>1. /\ request'[p] = q
      /\ \A r \in Handlers \ {p} : request'[r] = request[r]
  BY DEF Shapes
<1>2. Shapes'
  BY <1>1 DEF Shapes, Handlers
<1>3. AdminsLive'
  BY DEF AdminsLive
<1>4. Governed'
  <2> SUFFICES ASSUME NEW r \in Handlers
               PROVE  Governs(r, request[r])'
    BY DEF Governed, Handlers
  <2>1. Governs(r, request[r])
    BY DEF Governed
  <2>2. CASE r = p
    BY <1>1, <2>1, <2>2 DEF Governs
  <2>3. CASE r # p
    BY <1>1, <2>1, <2>3 DEF Governs
  <2> QED BY <2>2, <2>3
<1>5. Recoverable'
  BY <1>1 DEF Recoverable, Handlers
<1>6. AdminRemains'
  <2>1. \A r \in Requests : Unchecked(request[r]) => Unchecked(request[r])'
    BY <1>1 DEF Handlers, Unchecked
  <2> QED BY <2>1 DEF AdminRemains, Serving
<1> QED BY <1>2, <1>3, <1>4, <1>5, <1>6

\* A handler that has not begun or has ended is at no step of anything.
LEMMA Resting ==
  /\ Record(Idle) /\ Idle.at = "begin" /\ Idle.op = "none"
  /\ Record(Done) /\ Done.at = "begin" /\ Done.op = "done"
<1>1. Record(Idle) /\ Idle.at = "begin" /\ Idle.op = "none"
  BY DEF Record, Idle
<1> DEFINE done(q) == [q EXCEPT !.op = "done"]
<1>2. ASSUME NEW q, Record(q)
      PROVE  Record(done(q)) /\ done(q).at = q.at /\ done(q).op = "done"
  BY <1>2 DEF Record
<1>3. Done = done(Idle)
  BY DEF Done
<1> HIDE DEF done
<1> QED BY <1>1, <1>2, <1>3

\* Only the step of a handler changes.
LEMMA NextStep ==
  ASSUME NEW q, Record(q), NEW step
  PROVE  LET r == [q EXCEPT !.at = step]
         IN  Record(r) /\ r.at = step /\ r.op = q.op /\ r.user = q.user
             /\ r.demoted = q.demoted
BY DEF Record

\* Ending, from a step that decides nothing about administrators.
LEMMA EndsElsewhere ==
  ASSUME AdminInv, NEW p \in Handlers, ~Unchecked(request[p]), Finish(p),
         UNCHANGED <<account, admins, overtaken>>
  PROVE  AdminInv'
<1>1. Record(Over(p)) /\ Over(p).at = "begin" /\ Over(p).op \in {"none", "done"}
  BY Resting DEF Over
<1>2. Elsewhere(p, Over(p))
  BY <1>1 DEF Elsewhere, Finish, Becomes, Unchecked, RoleSteps, RoleOps
<1> QED BY <1>2, ElsewherePreserves

\* Going on, from and to such a step.
LEMMA GoesOnElsewhere ==
  ASSUME AdminInv, NEW p \in Handlers, NEW step, step \notin RoleSteps,
         ~Unchecked(request[p]), GoTo(p, step),
         UNCHANGED <<account, admins, overtaken>>
  PROVE  AdminInv'
<1> DEFINE q == [request[p] EXCEPT !.at = step]
<1>1. Record(request[p])
  BY DEF AdminInv, Shapes
<1>2. Record(q) /\ q.at = step /\ q.op = request[p].op /\ q.user = request[p].user
  BY <1>1, NextStep
<1>3. Elsewhere(p, q)
  BY <1>2 DEF Elsewhere, GoTo, Becomes, Unchecked, RoleSteps
<1> QED BY <1>3, ElsewherePreserves

\* A backfill's next user.
LEMMA NextUserElsewhere ==
  ASSUME NEW q, Record(q)
  PROVE  /\ Record(NextUser(q))
         /\ NextUser(q).at \in {"begin", "createHousehold"}
         /\ NextUser(q).op \in {"none", q.op}
<1>1. CASE q.todo = {}
  BY <1>1, Resting DEF NextUser
<1>2. CASE q.todo # {}
  <2> DEFINE u == CHOOSE v \in q.todo : TRUE
  <2>1. NextUser(q) = [q EXCEPT !.user = u, !.todo = q.todo \ {u},
                                !.at = "createHousehold", !.home = 0]
    BY <1>2 DEF NextUser
  <2> HIDE DEF u
  <2> QED BY <2>1 DEF Record
<1> QED BY <1>1, <1>2

\* Failed or not, the creation of a household leads to no change of role.
LEMMA CreationElsewhere ==
  ASSUME AdminInv, NEW p \in Handlers, NEW q, ~Unchecked(request[p]),
         \/ q = Created(p)
         \/ \E conflict \in BOOLEAN : q = NotCreated(p, conflict),
         request' = [request EXCEPT ![p] = q],
         UNCHANGED <<account, admins, overtaken>>
  PROVE  AdminInv'
<1> DEFINE old == request[p]
<1>1. Record(old)
  BY DEF AdminInv, Shapes
<1>2. CASE q = Over(p)
  BY <1>2, EndsElsewhere DEF Finish, Becomes
<1>3. CASE q = NextUser(old) /\ old.op = "backfill"
  <2>1. Record(q) /\ q.at \in {"begin", "createHousehold"} /\ q.op \in {"none", "backfill"}
    BY <1>1, <1>3, NextUserElsewhere
  <2>2. Elsewhere(p, q)
    BY <2>1 DEF Elsewhere, Unchecked, RoleSteps, RoleOps
  <2> QED BY <2>2, ElsewherePreserves
<1>4. CASE q = [old EXCEPT !.at = "undoUser"]
  BY <1>4, GoesOnElsewhere DEF GoTo, Becomes, RoleSteps
<1>5. q = Over(p) \/ (q = NextUser(old) /\ old.op = "backfill")
      \/ q = [old EXCEPT !.at = "undoUser"]
  BY DEF Created, NotCreated
<1> QED BY <1>2, <1>3, <1>4, <1>5

-----------------------------------------------------------------------------
(* Households: nothing there is about administrators.                      *)

\* A request that begins at no change of role, nor as one of its operations.
LEMMA BeginsElsewhere ==
  ASSUME AdminInv, NEW p \in Handlers, request[p] = Idle, NEW q, Record(q),
         q.at \notin RoleSteps, q.op \notin RoleOps \cup {"register"},
         Becomes(p, q), UNCHANGED <<account, admins, overtaken>>
  PROVE  AdminInv'
<1>1. Elsewhere(p, q)
  BY Resting DEF Elsewhere, Becomes, Unchecked, RoleSteps
<1> QED BY <1>1, ElsewherePreserves

LEMMA BeginInvitePreserves ==
  ASSUME AdminInv, NEW p \in Handlers, NEW u, NEW v, BeginInvite(p, u, v),
         UNCHANGED <<admins, overtaken>>
  PROVE  AdminInv'
<1> DEFINE q == [Idle EXCEPT !.op = "invite", !.at = "check", !.user = v,
                             !.household = RowOf(u).household]
<1>1. Record(q) /\ q.at = "check" /\ q.op = "invite"
  <2> DEFINE h == RowOf(u).household
  <2> HIDE DEF h
  <2>1. ASSUME NEW i, Record(i), NEW r,
               r = [i EXCEPT !.op = "invite", !.at = "check", !.user = v,
                             !.household = h]
        PROVE  Record(r) /\ r.at = "check" /\ r.op = "invite"
    BY <2>1 DEF Record
  <2>2. q = [Idle EXCEPT !.op = "invite", !.at = "check", !.user = v, !.household = h]
    BY DEF h
  <2> HIDE DEF q
  <2> QED BY <2>1, <2>2, Resting
<1> HIDE DEF q
<1>2. request[p] = Idle /\ Becomes(p, q) /\ UNCHANGED account
  BY DEF BeginInvite, q
<1> QED BY <1>1, <1>2, BeginsElsewhere DEF RoleSteps, RoleOps

LEMMA BeginAcceptPreserves ==
  ASSUME AdminInv, NEW p \in Handlers, NEW u, NEW i, BeginAccept(p, u, i),
         UNCHANGED <<admins, overtaken>>
  PROVE  AdminInv'
<1> DEFINE h == invitations[i].household
           q == [Idle EXCEPT !.op = "accept", !.at = "lookup", !.user = u,
                             !.household = h, !.invitation = i]
<1>1. request[p] = Idle /\ Becomes(p, q) /\ UNCHANGED account
  BY DEF BeginAccept
<1> HIDE DEF h
<1>2. ASSUME NEW j, Record(j), NEW r,
             r = [j EXCEPT !.op = "accept", !.at = "lookup", !.user = u,
                           !.household = h, !.invitation = i]
      PROVE  Record(r) /\ r.at = "lookup" /\ r.op = "accept"
  BY <1>2 DEF Record
<1>3. Record(q) /\ q.at = "lookup" /\ q.op = "accept"
  BY <1>2, Resting
<1> HIDE DEF q
<1> QED BY <1>1, <1>3, BeginsElsewhere DEF RoleSteps, RoleOps

LEMMA BeginRemovePreserves ==
  ASSUME AdminInv, NEW p \in Handlers, NEW u, NEW m, BeginRemove(p, u, m),
         UNCHANGED <<admins, overtaken>>
  PROVE  AdminInv'
<1> DEFINE h == RowOf(u).household
           v == m.user
           q == [Idle EXCEPT !.op = "remove", !.at = "find", !.doc = m,
                             !.user = v, !.household = h]
<1>1. request[p] = Idle /\ Becomes(p, q) /\ UNCHANGED account
  BY DEF BeginRemove
<1> HIDE DEF h, v
<1>2. ASSUME NEW j, Record(j), NEW r,
             r = [j EXCEPT !.op = "remove", !.at = "find", !.doc = m,
                           !.user = v, !.household = h]
      PROVE  Record(r) /\ r.at = "find" /\ r.op = "remove"
  BY <1>2 DEF Record
<1>3. Record(q) /\ q.at = "find" /\ q.op = "remove"
  BY <1>2, Resting
<1> HIDE DEF q
<1> QED BY <1>1, <1>3, BeginsElsewhere DEF RoleSteps, RoleOps

\* A handler's step that keeps what it is about, whatever else it remembers.
LEMMA KeepsElsewhere ==
  ASSUME AdminInv, NEW p \in Handlers, NEW q, Record(q),
         ~Unchecked(request[p]), q.at \notin RoleSteps,
         q.op = request[p].op, q.user = request[p].user,
         Becomes(p, q), UNCHANGED <<account, admins, overtaken>>
  PROVE  AdminInv'
<1>1. Elsewhere(p, q)
  BY DEF Elsewhere, Becomes, Unchecked, RoleSteps
<1> QED BY <1>1, ElsewherePreserves

LEMMA FindActivePreserves ==
  ASSUME AdminInv, NEW p \in Handlers, FindActive(p), UNCHANGED <<admins, overtaken>>
  PROVE  AdminInv'
<1> DEFINE old == request[p]
           row == RowOf(old.user)
           q(step) == [old EXCEPT !.doc = row, !.at = step]
<1>1. Record(old) /\ ~Unchecked(old) /\ UNCHANGED account
  BY DEF AdminInv, Shapes, FindActive, At, Unchecked
<1>2. CASE GoTo(p, "join")
  BY <1>1, <1>2, GoesOnElsewhere DEF RoleSteps
<1>3. CASE \E step \in {"count", "switch"} : Becomes(p, q(step))
  <2>1. PICK step \in {"count", "switch"} : Becomes(p, q(step))
    BY <1>3
  <2>2. Record(q(step)) /\ q(step).at = step /\ q(step).op = old.op
        /\ q(step).user = old.user
    <3> HIDE DEF row
    <3>1. ASSUME NEW i, Record(i), NEW r, r = [i EXCEPT !.doc = row, !.at = step]
          PROVE  Record(r) /\ r.at = step /\ r.op = i.op /\ r.user = i.user
      BY <3>1 DEF Record
    <3> QED BY <3>1, <1>1
  <2> HIDE DEF q
  <2> QED BY <1>1, <2>1, <2>2, KeepsElsewhere DEF RoleSteps
<1>4. GoTo(p, "join") \/ \E step \in {"count", "switch"} : Becomes(p, q(step))
  BY DEF FindActive, GoTo
<1> QED BY <1>2, <1>3, <1>4

LEMMA SaveHouseholdPreserves ==
  ASSUME AdminInv, NEW p \in Handlers, SaveHousehold(p),
         UNCHANGED <<admins, overtaken>>
  PROVE  AdminInv'
<1> DEFINE old == request[p]
           q(h) == [old EXCEPT !.at = "addOwner", !.home = h]
<1>1. Record(old) /\ ~Unchecked(old) /\ UNCHANGED account
  BY DEF AdminInv, Shapes, SaveHousehold, Unchecked
<1>2. PICK h \in Unused : Becomes(p, q(h))
  BY DEF SaveHousehold
<1>3. Record(q(h)) /\ q(h).at = "addOwner" /\ q(h).op = old.op /\ q(h).user = old.user
  <2>1. ASSUME NEW i, Record(i), NEW r, r = [i EXCEPT !.at = "addOwner", !.home = h]
        PROVE  Record(r) /\ r.at = "addOwner" /\ r.op = i.op /\ r.user = i.user
    BY <2>1 DEF Record
  <2> QED BY <2>1, <1>1
<1> HIDE DEF q
<1> QED BY <1>1, <1>2, <1>3, KeepsElsewhere DEF RoleSteps

\* Every further step of a handler that households.service.ts takes.
LEMMA HouseholdStepPreserves ==
  ASSUME AdminInv, NEW p \in Handlers, UNCHANGED <<admins, overtaken>>,
         \/ CheckInvitee(p) \/ Supersede(p) \/ InsertInvitation(p)
         \/ LookUpMembership(p) \/ FindActive(p) \/ CountOthers(p)
         \/ SaveSwitch(p) \/ Join(p) \/ MarkAccepted(p)
         \/ FindMember(p) \/ DeleteMember(p)
         \/ SaveHousehold(p) \/ AddOwner(p) \/ UndoHousehold(p)
  PROVE  AdminInv'
<1>2. CASE CheckInvitee(p)
  BY <1>2, EndsElsewhere, GoesOnElsewhere
  DEF CheckInvitee, At, Unchecked, RoleSteps
<1>3. CASE Supersede(p)
  BY <1>3, EndsElsewhere, GoesOnElsewhere
  DEF Supersede, At, Unchecked, RoleSteps
<1>4. CASE InsertInvitation(p) \/ MarkAccepted(p)
  BY <1>4, EndsElsewhere, GoesOnElsewhere
  DEF InsertInvitation, MarkAccepted, At, Unchecked, RoleSteps
<1>5. CASE LookUpMembership(p)
  BY <1>5, EndsElsewhere, GoesOnElsewhere
  DEF LookUpMembership, At, Unchecked, RoleSteps
<1>6. CASE FindActive(p)
  BY <1>6, FindActivePreserves
<1>7. CASE CountOthers(p)
  BY <1>7, EndsElsewhere, GoesOnElsewhere
  DEF CountOthers, At, Unchecked, RoleSteps
<1>8. CASE SaveSwitch(p) \/ Join(p)
  BY <1>8, EndsElsewhere, GoesOnElsewhere
  DEF SaveSwitch, Join, At, Unchecked, RoleSteps
<1>9. CASE FindMember(p)
  BY <1>9, EndsElsewhere, GoesOnElsewhere
  DEF FindMember, At, Unchecked, RoleSteps
<1>10. CASE DeleteMember(p)
  BY <1>10, EndsElsewhere, GoesOnElsewhere
  DEF DeleteMember, At, Unchecked, RoleSteps
<1>11. CASE SaveHousehold(p)
  BY <1>11, SaveHouseholdPreserves
<1>12. CASE AddOwner(p)
  <2>1. ~Unchecked(request[p]) /\ UNCHANGED account
    BY <1>12 DEF AddOwner, Unchecked
  <2>2. GoTo(p, "undoHousehold") \/ Becomes(p, Created(p))
    BY <1>12 DEF AddOwner
  <2> QED BY <2>1, <2>2, GoesOnElsewhere, CreationElsewhere DEF RoleSteps, Becomes
<1>13. CASE UndoHousehold(p)
  <2>1. ~Unchecked(request[p]) /\ UNCHANGED account
    BY <1>13 DEF UndoHousehold, Unchecked
  <2>2. \E conflict \in BOOLEAN : Becomes(p, NotCreated(p, conflict))
    BY <1>13 DEF UndoHousehold
  <2> QED BY <2>1, <2>2, CreationElsewhere DEF Becomes
<1> QED BY <1>2, <1>3, <1>4, <1>5, <1>6, <1>7, <1>8, <1>9, <1>10, <1>11, <1>12, <1>13

-----------------------------------------------------------------------------
(* Accounts and roles.                                                     *)

\* Going on as an operation on a role, without a count on either side.
LEMMA GoesOnGoverned ==
  ASSUME AdminInv, NEW p \in Handlers, NEW step, ~Unchecked(request[p]),
         step \notin {"countAdmins", "restoreAdmin"},
         step \in RoleSteps => request[p].op \in RoleOps,
         step = "update" => request[p].op # "delete",
         GoTo(p, step), UNCHANGED <<account, admins, overtaken>>
  PROVE  AdminInv'
<1> DEFINE q == [request[p] EXCEPT !.at = step]
<1>1. Record(request[p])
  BY DEF AdminInv, Shapes
<1>2. Record(q) /\ q.at = step /\ q.op = request[p].op /\ q.user = request[p].user
  BY <1>1, NextStep
<1>3. Elsewhere(p, q)
  BY <1>2 DEF Elsewhere, GoTo, Becomes, Unchecked
<1> QED BY <1>3, ElsewherePreserves

\* What every step keeps that never makes an account new again: the shape of the
\* state, and who may change roles.
LEMMA StepGoverned ==
  ASSUME AdminInv, NEW p \in Handlers, NEW q, Record(q),
         request' = [request EXCEPT ![p] = q],
         account' = [u \in Users |-> account'[u]],
         \A u \in Users : account[u] # "new" => account'[u] # "new",
         overtaken' \in BOOLEAN, Governs(p, q)'
  PROVE  /\ Shapes' /\ Governed'
         /\ request'[p] = q
         /\ \A r \in Handlers \ {p} : request'[r] = request[r]
<1>1. /\ request'[p] = q
      /\ \A r \in Handlers \ {p} : request'[r] = request[r]
  BY DEF AdminInv, Shapes
<1>2. Shapes'
  BY <1>1 DEF AdminInv, Shapes, Handlers
<1>3. Governed'
  <2> SUFFICES ASSUME NEW r \in Handlers
               PROVE  Governs(r, request[r])'
    BY DEF Governed, Handlers
  <2>1. Governs(r, request[r])
    BY DEF AdminInv, Governed
  <2>2. CASE r = p
    BY <1>1, <2>2 DEF Governs
  <2>3. CASE r # p
    BY <1>1, <2>1, <2>3 DEF Governs
  <2> QED BY <2>2, <2>3
<1> QED BY <1>1, <1>2, <1>3

\* A new account is nobody's who has to count: the one administrator it may make
\* is one more.
LEMMA RegisterPreserves ==
  ASSUME AdminInv, Serving, NEW p \in Requests, NEW u \in Users,
         NEW role \in {"user", "admin"}, Register(p, u, role)
  PROVE  AdminInv'
<1> DEFINE q == [Idle EXCEPT !.op = "register", !.at = "createHousehold", !.user = u]
<1>1. Record(q) /\ q.at = "createHousehold" /\ q.op = "register" /\ q.user = u
  <2>1. ASSUME NEW i, Record(i), NEW r,
               r = [i EXCEPT !.op = "register", !.at = "createHousehold", !.user = u]
        PROVE  Record(r) /\ r.at = "createHousehold" /\ r.op = "register" /\ r.user = u
    BY <2>1 DEF Record
  <2> QED BY <2>1, Resting
<1>2. /\ request[p] = Idle /\ request' = [request EXCEPT ![p] = q]
      /\ account[u] = "new" /\ account' = [account EXCEPT ![u] = "live"]
      /\ admins' = IF role = "admin" THEN admins \cup {u} ELSE admins
      /\ overtaken' = overtaken
  BY DEF Register, Becomes
<1> HIDE DEF q
<1>3. p \in Handlers
  BY DEF Handlers
<1>4. /\ account' = [v \in Users |-> account'[v]]
      /\ account'[u] = "live"
      /\ \A v \in Users \ {u} : account'[v] = account[v]
  BY <1>2 DEF AdminInv, Shapes
<1>5. Governs(p, q)'
  BY <1>1, <1>4 DEF Governs, RoleSteps, RoleOps
<1>6. /\ Shapes' /\ Governed' /\ request'[p] = q
      /\ \A r \in Handlers \ {p} : request'[r] = request[r]
  BY <1>1, <1>2, <1>3, <1>4, <1>5, StepGoverned DEF AdminInv, Shapes
<1>7. AdminsLive'
  BY <1>2, <1>4 DEF AdminInv, AdminsLive
<1>8. Recoverable'
  BY <1>1, <1>2, <1>4, <1>6 DEF AdminInv, Recoverable, Unchecked, Handlers,
     Governed, Governs, RoleSteps, RoleOps
<1>9. AdminRemains'
  <2>1. \A r \in Requests : Unchecked(request[r]) => Unchecked(request[r])'
    BY <1>2, <1>6, Resting DEF Handlers, Unchecked
  <2>2. admins' = {} => admins = {}
    BY <1>2
  <2> QED BY <1>2, <2>1, <2>2 DEF AdminInv, AdminRemains
<1> QED BY <1>6, <1>7, <1>8, <1>9 DEF AdminInv

\* A deletion takes an administrator, or one whose demotion is still to be
\* counted, only by overtaking: UndoUser and DropUser.
LEMMA DeletionPreserves ==
  ASSUME AdminInv, NEW p \in Handlers,
         request[p].op \in {"register", "delete"},
         request[p].at \in {"undoUser", "dropUser"},
         account' = [account EXCEPT ![request[p].user] = "gone"],
         admins' = admins \ {request[p].user},
         overtaken' = (overtaken \/ Overtakes(request[p].user)),
         Finish(p)
  PROVE  AdminInv'
<1> DEFINE u == request[p].user
           q == Over(p)
<1>1. Record(q) /\ q.at = "begin" /\ q.op \in {"none", "done"}
  BY Resting DEF Over
<1>2. request' = [request EXCEPT ![p] = q]
  BY DEF Finish, Becomes
<1>3. u \in Users /\ account[u] # "new"
  BY DEF AdminInv, Governed, Governs, RoleOps
<1>4. /\ account' = [v \in Users |-> account'[v]]
      /\ account'[u] = "gone"
      /\ \A v \in Users \ {u} : account'[v] = account[v]
  BY <1>3 DEF AdminInv, Shapes
<1> HIDE DEF q
<1>5. Governs(p, q)'
  BY <1>1 DEF Governs, RoleSteps, RoleOps
<1>6. overtaken' \in BOOLEAN
  OBVIOUS
<1>7. /\ Shapes' /\ Governed' /\ request'[p] = q
      /\ \A r \in Handlers \ {p} : request'[r] = request[r]
  BY <1>1, <1>2, <1>3, <1>4, <1>5, <1>6, StepGoverned
<1>8. AdminsLive'
  BY <1>4 DEF AdminInv, AdminsLive
<1>9. ~overtaken' => ~overtaken /\ ~Overtakes(u)
  OBVIOUS
<1>10. Recoverable'
  BY <1>1, <1>4, <1>7, <1>9 DEF AdminInv, Recoverable, Unchecked, Handlers,
     Overtakes, Governed, Governs, RoleSteps, RoleOps
<1>11. AdminRemains'
  <2>1. ~overtaken' => admins' = admins
    BY <1>9 DEF Overtakes
  <2>2. \A r \in Requests : Unchecked(request[r]) => Unchecked(request[r])'
    BY <1>7 DEF Handlers, Unchecked
  <2>3. Serving' => Serving
    BY <1>3, <1>4, TenancyAssumption DEF Serving
  <2> QED BY <1>9, <2>1, <2>2, <2>3 DEF AdminInv, AdminRemains
<1> QED BY <1>7, <1>8, <1>10, <1>11 DEF AdminInv

\* A step that changes no account: the count is what AdminRemains rests on.
LEMMA RolesPreserve ==
  ASSUME AdminInv, NEW p \in Handlers, NEW q, Record(q),
         request' = [request EXCEPT ![p] = q], account' = account,
         q.op \in {"none", "done", request[p].op},
         q.op \in RoleOps \cup {"register"} => q.user = request[p].user,
         q.at \in RoleSteps => q.op \in RoleOps,
         q.at = "update" => q.op # "delete",
         overtaken' \in BOOLEAN, overtaken => overtaken', AdminsLive',
         ~overtaken' /\ Unchecked(q) => account[q.user] = "live",
         ~overtaken' /\ admins' = {} =>
           \/ p \in Requests /\ Unchecked(q)
           \/ admins = {} /\ ~Unchecked(request[p])
  PROVE  AdminInv'
<1>1. Governs(p, request[p])
  BY DEF AdminInv, Governed
<1>2. Governs(p, q)'
  BY <1>1 DEF Governs, RoleOps
<1>3. account' = [u \in Users |-> account'[u]]
  BY DEF AdminInv, Shapes
<1>4. /\ Shapes' /\ Governed' /\ request'[p] = q
      /\ \A r \in Handlers \ {p} : request'[r] = request[r]
  BY <1>2, <1>3, StepGoverned
<1>5. Recoverable'
  BY <1>4 DEF AdminInv, Recoverable, Handlers, Unchecked
<1>6. AdminRemains'
  <2>1. Serving' = Serving
    BY DEF Serving
  <2>2. \A r \in Requests \ {p} : Unchecked(request[r]) => Unchecked(request[r])'
    BY <1>4 DEF Handlers, Unchecked
  <2>3. Unchecked(q) => Unchecked(request[p])'
    BY <1>4 DEF Unchecked
  <2> QED BY <2>1, <2>2, <2>3 DEF AdminInv, AdminRemains
<1> QED BY <1>4, <1>5, <1>6 DEF AdminInv

\* Only requests are at the steps of a change of role.
LEMMA RoleStepsRequested ==
  ASSUME AdminInv, NEW p \in Handlers, request[p].at \in RoleSteps
  PROVE  p \in Requests /\ request[p].op \in RoleOps /\ request[p].user \in Users
BY DEF AdminInv, Governed, Governs, RoleOps

LEMMA DemotePreserves ==
  ASSUME AdminInv, NEW p \in Handlers, Demote(p)
  PROVE  AdminInv'
<1> DEFINE old == request[p]
           q == [old EXCEPT !.at = "countAdmins", !.demoted = TRUE]
<1>1. Record(old) /\ old.at = "demote" /\ p \in Requests /\ old.op \in RoleOps
  BY RoleStepsRequested DEF AdminInv, Shapes, Demote, RoleSteps
<1>2. UNCHANGED <<account, overtaken>>
  BY DEF Demote, tenancy
<1>3. CASE old.user \in admins
  <2>1. request' = [request EXCEPT ![p] = q] /\ admins' = admins \ {old.user}
    BY <1>3 DEF Demote, Becomes
  <2>2. Record(q) /\ q.at = "countAdmins" /\ q.op = old.op /\ q.user = old.user
    <3>1. ASSUME NEW i, Record(i), NEW r,
                 r = [i EXCEPT !.at = "countAdmins", !.demoted = TRUE]
          PROVE  Record(r) /\ r.at = "countAdmins" /\ r.op = i.op /\ r.user = i.user
      BY <3>1 DEF Record
    <3> QED BY <3>1, <1>1
  <2>3. account[old.user] = "live"
    BY <1>3 DEF AdminInv, AdminsLive
  <2>4. AdminsLive'
    BY <1>2, <2>1 DEF AdminInv, AdminsLive
  <2>5. overtaken' \in BOOLEAN
    BY <1>2 DEF AdminInv, Shapes
  <2> HIDE DEF q
  <2>6. Unchecked(q) /\ q.at # "update"
    BY <2>2 DEF Unchecked
  <2> QED BY <1>1, <1>2, <2>1, <2>2, <2>3, <2>4, <2>5, <2>6, RolesPreserve
<1>4. CASE old.user \notin admins
  <2>1. GoTo(p, Onward(old)) /\ UNCHANGED admins
    BY <1>4 DEF Demote
  <2>2. /\ Onward(old) \in {"find", "update"}
        /\ Onward(old) = "update" => old.op # "delete"
    BY DEF Onward
  <2> HIDE DEF old
  <2> QED BY <1>1, <1>2, <2>1, <2>2, GoesOnGoverned DEF old, Unchecked
<1> QED BY <1>3, <1>4

LEMMA CountAdminsPreserves ==
  ASSUME AdminInv, NEW p \in Handlers, CountAdmins(p)
  PROVE  AdminInv'
<1> DEFINE old == request[p]
           step == IF admins = {} THEN "restoreAdmin" ELSE Onward(old)
           q == [old EXCEPT !.at = step]
<1>1. /\ Record(old) /\ old.at = "countAdmins" /\ p \in Requests
      /\ old.op \in RoleOps
  BY RoleStepsRequested DEF AdminInv, Shapes, CountAdmins, RoleSteps
<1>2. UNCHANGED <<account, admins, overtaken>> /\ request' = [request EXCEPT ![p] = q]
  BY DEF CountAdmins, tenancy, GoTo, Becomes
<1>3. /\ step \in {"restoreAdmin", "find", "update"}
      /\ step = "update" => old.op # "delete"
      /\ admins = {} => step = "restoreAdmin"
  BY DEF Onward
<1>4. Record(q) /\ q.at = step /\ q.op = old.op /\ q.user = old.user
  BY <1>1, NextStep
<1> HIDE DEF step, q
<1>5. ~overtaken => account[old.user] = "live"
  BY <1>1 DEF AdminInv, Recoverable, Unchecked
<1>6. AdminsLive' /\ overtaken' \in BOOLEAN
  BY <1>2 DEF AdminInv, AdminsLive, Shapes
<1>7. admins' = {} => Unchecked(q)
  BY <1>2, <1>3, <1>4 DEF Unchecked
<1>8. q.at = "update" => q.op # "delete"
  BY <1>3, <1>4
<1> QED BY <1>1, <1>2, <1>4, <1>5, <1>6, <1>7, <1>8, RolesPreserve

\* Recoverable is what makes this restore an administrator.
LEMMA RestoreAdminPreserves ==
  ASSUME AdminInv, NEW p \in Handlers, RestoreAdmin(p)
  PROVE  AdminInv'
<1> DEFINE old == request[p]
           u == old.user
           q == Over(p)
<1>1. old.at \in {"restoreAdmin", "repromote"} /\ p \in Requests /\ u \in Users
  BY RoleStepsRequested DEF RestoreAdmin, RoleSteps
<1>2. /\ UNCHANGED <<account, overtaken>> /\ request' = [request EXCEPT ![p] = q]
      /\ admins' = IF account[u] = "live" THEN admins \cup {u} ELSE admins
  BY DEF RestoreAdmin, tenancy, Finish, Becomes
<1>3. Record(q) /\ q.at = "begin" /\ q.op \in {"none", "done"}
  BY Resting DEF Over
<1> HIDE DEF q
<1>4. AdminsLive' /\ overtaken' \in BOOLEAN
  BY <1>1, <1>2 DEF AdminInv, AdminsLive, Shapes
<1>5. ~overtaken /\ Unchecked(old) => account[u] = "live"
  BY DEF AdminInv, Recoverable
<1>6. ~overtaken' /\ admins' = {} => admins = {} /\ ~Unchecked(old)
  BY <1>2, <1>5
<1>7. ~Unchecked(q) /\ q.at \notin RoleSteps /\ q.op \notin RoleOps \cup {"register"}
  BY <1>3 DEF Unchecked, RoleSteps, RoleOps
<1> QED BY <1>1, <1>2, <1>3, <1>4, <1>6, <1>7, RolesPreserve DEF RoleSteps

LEMMA UpdateRolePreserves ==
  ASSUME AdminInv, NEW p \in Handlers, UpdateRole(p)
  PROVE  AdminInv'
<1> DEFINE old == request[p]
           u == old.user
           q == Over(p)
<1>1. old.at = "update" /\ u \in Users /\ old.op \in {"makeUser", "makeAdmin"}
  <2>1. old.at = "update"
    BY DEF UpdateRole
  <2> QED BY <2>1, RoleStepsRequested DEF RoleSteps, RoleOps, AdminInv, Governed, Governs
<1>2. /\ account' = account /\ request' = [request EXCEPT ![p] = q]
      /\ admins' = IF account[u] # "live" THEN admins
                   ELSE IF old.op = "makeAdmin" THEN admins \cup {u}
                   ELSE admins \ {u}
      /\ overtaken' = (overtaken \/ (old.op = "makeUser" /\ u \in admins))
  BY DEF UpdateRole, tenancy, Finish, Becomes
<1>3. Record(q) /\ q.at = "begin" /\ q.op \in {"none", "done"}
  BY Resting DEF Over
<1> HIDE DEF q
<1>4. overtaken' \in BOOLEAN /\ (overtaken => overtaken')
  BY <1>2
<1>5. AdminsLive'
  BY <1>1, <1>2 DEF AdminInv, AdminsLive
<1>6. ~overtaken' /\ admins' = {} => admins = {} /\ ~Unchecked(old)
  BY <1>1, <1>2 DEF Unchecked
<1>7. ~Unchecked(q) /\ q.at \notin RoleSteps /\ q.op \notin RoleOps \cup {"register"}
  BY <1>3 DEF Unchecked, RoleSteps, RoleOps
<1> QED BY <1>2, <1>3, <1>4, <1>5, <1>6, <1>7, RolesPreserve DEF RoleSteps

\* The other steps of a deletion.
LEMMA FindAndDropPreserve ==
  ASSUME AdminInv, NEW p \in Handlers, FindUser(p) \/ DropMembers(p)
  PROVE  AdminInv'
<1>1. ~Unchecked(request[p]) /\ request[p].op = "delete"
      /\ UNCHANGED <<account, admins, overtaken>>
  BY DEF FindUser, DropMembers, At, Unchecked, tenancy
<1>2. Finish(p) \/ \E step \in {"dropMembers", "repromote", "dropUser"} : GoTo(p, step)
  BY DEF FindUser, DropMembers
<1>3. CASE Finish(p)
  BY <1>1, <1>3, EndsElsewhere
<1>4. ASSUME NEW step \in {"dropMembers", "repromote", "dropUser"}, GoTo(p, step)
      PROVE  AdminInv'
  BY <1>1, <1>4, GoesOnGoverned DEF RoleOps
<1> QED BY <1>2, <1>3, <1>4

\* The listings of a backfill.
LEMMA ListActivePreserves ==
  ASSUME AdminInv, NEW p \in Handlers, ListActive(p)
  PROVE  AdminInv'
<1> DEFINE old == request[p]
           listed == {m.user : m \in members}
           q == [old EXCEPT !.at = "listUsers", !.todo = listed]
<1>1. Record(old) /\ ~Unchecked(old) /\ Becomes(p, q)
      /\ UNCHANGED <<account, admins, overtaken>>
  BY DEF AdminInv, Shapes, ListActive, At, Unchecked, tenancy
<1>2. Record(q) /\ q.at = "listUsers" /\ q.op = old.op /\ q.user = old.user
  <2> HIDE DEF listed
  <2>1. ASSUME NEW i, Record(i), NEW r, r = [i EXCEPT !.at = "listUsers", !.todo = listed]
        PROVE  Record(r) /\ r.at = "listUsers" /\ r.op = i.op /\ r.user = i.user
    BY <2>1 DEF Record
  <2> QED BY <2>1, <1>1
<1> HIDE DEF q
<1> QED BY <1>1, <1>2, KeepsElsewhere DEF RoleSteps

LEMMA ListUsersPreserves ==
  ASSUME AdminInv, NEW p \in Handlers, ListUsers(p)
  PROVE  AdminInv'
<1> DEFINE old == request[p]
           left == {u \in Users : account[u] = "live"} \ old.todo
           listed == [old EXCEPT !.todo = left]
           q == NextUser(listed)
<1>1. /\ Record(old) /\ ~Unchecked(old) /\ old.op = "backfill"
      /\ request' = [request EXCEPT ![p] = q]
      /\ UNCHANGED <<account, admins, overtaken>>
  BY DEF AdminInv, Shapes, ListUsers, At, Unchecked, tenancy, Becomes
<1>2. Record(listed) /\ listed.op = "backfill"
  <2> HIDE DEF left
  <2>1. ASSUME NEW i, Record(i), NEW r, r = [i EXCEPT !.todo = left]
        PROVE  Record(r) /\ r.op = i.op
    BY <2>1 DEF Record
  <2> QED BY <2>1, <1>1
<1> HIDE DEF listed
<1>3. Record(q) /\ q.at \in {"begin", "createHousehold"} /\ q.op \in {"none", "backfill"}
  BY <1>2, NextUserElsewhere
<1>4. Elsewhere(p, q)
  BY <1>1, <1>3 DEF Elsewhere, Unchecked, RoleSteps, RoleOps
<1> QED BY <1>4, ElsewherePreserves

\* A boot serves nobody before there is an administrator.
LEMMA SeedAdminPreserves ==
  ASSUME AdminInv, NEW p \in Boots, SeedAdmin(p)
  PROVE  AdminInv'
<1> DEFINE q == [Idle EXCEPT !.op = "backfill", !.at = "listActive"]
<1>1. Record(q) /\ q.at = "listActive" /\ q.op = "backfill"
  <2>1. ASSUME NEW i, Record(i), NEW r,
               r = [i EXCEPT !.op = "backfill", !.at = "listActive"]
        PROVE  Record(r) /\ r.at = "listActive" /\ r.op = "backfill"
    BY <2>1 DEF Record
  <2> QED BY <2>1, Resting
<1>2. p \in Handlers /\ request[p] = Idle /\ Becomes(p, q) /\ overtaken' = overtaken
  BY DEF SeedAdmin, Handlers
<1> HIDE DEF q
<1>3. CASE UNCHANGED <<account, admins>>
  BY <1>1, <1>2, <1>3, BeginsElsewhere DEF RoleSteps, RoleOps
<1>4. CASE /\ account[Root] = "new" /\ account' = [account EXCEPT ![Root] = "live"]
           /\ admins' = {Root}
  <2>1. /\ account' = [u \in Users |-> account'[u]] /\ account'[Root] = "live"
        /\ \A u \in Users \ {Root} : account'[u] = account[u]
    BY <1>4, TenancyAssumption DEF AdminInv, Shapes
  <2>2. Governs(p, q)'
    BY <1>1 DEF Governs, RoleSteps, RoleOps
  <2>3. overtaken' \in BOOLEAN
    BY <1>2 DEF AdminInv, Shapes
  <2>4. /\ Shapes' /\ Governed' /\ request'[p] = q
        /\ \A r \in Handlers \ {p} : request'[r] = request[r]
    BY <1>1, <1>2, <2>1, <2>2, <2>3, StepGoverned DEF Becomes
  <2>5. AdminsLive'
    BY <1>4, <2>1, TenancyAssumption DEF AdminsLive
  <2>6. Recoverable'
    BY <1>1, <1>2, <2>1, <2>4 DEF AdminInv, Recoverable, Unchecked, Handlers,
       Governed, Governs, RoleSteps, RoleOps
  <2>7. AdminRemains'
    BY <1>4 DEF AdminRemains
  <2> QED BY <2>4, <2>5, <2>6, <2>7 DEF AdminInv
<1> QED BY <1>3, <1>4 DEF SeedAdmin

\* A deletion or a change of role begins at the demotion, or at the update when
\* the role to come is an administrator's.
LEMMA BeginRolePreserves ==
  ASSUME AdminInv, NEW p \in Requests, NEW admin \in admins, NEW u \in Users,
         \/ BeginDelete(p, admin, u)
         \/ \E role \in {"makeUser", "makeAdmin"} : BeginPatchRole(p, admin, u, role)
  PROVE  AdminInv'
<1>1. PICK op \in RoleOps, step \in {"demote", "update"} :
        /\ step = "update" => op # "delete"
        /\ request' = [request EXCEPT
                         ![p] = [Idle EXCEPT !.op = op, !.at = step, !.user = u]]
  BY DEF BeginDelete, BeginPatchRole, Becomes, RoleOps
<1> DEFINE begun == [Idle EXCEPT !.op = op, !.at = step, !.user = u]
<1>2. PICK s : s = begun /\ request' = [request EXCEPT ![p] = s]
  <2>1. request' = [request EXCEPT ![p] = begun]
    BY <1>1
  <2> QED BY <2>1
<1>3. /\ request[p] = Idle /\ account[u] # "new"
      /\ UNCHANGED <<account, admins, overtaken>>
  BY DEF BeginDelete, BeginPatchRole, tenancy
<1>4. request' = [request EXCEPT ![p] = s] /\ (step = "update" => op # "delete")
  BY <1>1, <1>2
<1>5. Record(s) /\ s.op = op /\ s.at = step /\ s.user = u
  <2>1. s = [Idle EXCEPT !.op = op, !.at = step, !.user = u]
    BY <1>2
  <2>2. ASSUME NEW i, Record(i), s = [i EXCEPT !.op = op, !.at = step, !.user = u]
        PROVE  Record(s) /\ s.op = op /\ s.at = step /\ s.user = u
    BY <2>2 DEF Record
  <2> QED BY <2>1, <2>2, Resting
<1>6. p \in Handlers
  BY DEF Handlers
<1>7. Governs(p, s)'
  BY <1>3, <1>4, <1>5 DEF Governs
<1>8. /\ account' = [v \in Users |-> account'[v]] /\ overtaken' \in BOOLEAN
  BY <1>3 DEF AdminInv, Shapes
<1>9. /\ Shapes' /\ Governed' /\ request'[p] = s
      /\ \A h \in Handlers \ {p} : request'[h] = request[h]
  BY <1>3, <1>4, <1>5, <1>6, <1>7, <1>8, StepGoverned
<1>10. AdminsLive' /\ admins' # {}
  BY <1>3 DEF AdminInv, AdminsLive
<1>11. Recoverable'
  BY <1>3, <1>4, <1>5, <1>9 DEF AdminInv, Recoverable, Unchecked, Handlers
<1> QED BY <1>9, <1>10, <1>11 DEF AdminInv, AdminRemains

-----------------------------------------------------------------------------
(* Failures, and the whole.                                                *)

\* A handler that ends before it has counted is an overtaking.
LEMMA LostCheckPreserves ==
  ASSUME AdminInv, NEW p \in Handlers, Finish(p), UNCHANGED <<account, admins>>,
         overtaken' = (overtaken \/ Unchecked(request[p]))
  PROVE  AdminInv'
<1> DEFINE q == Over(p)
<1>1. Record(q) /\ q.at = "begin" /\ q.op \in {"none", "done"}
  BY Resting DEF Over
<1>2. request' = [request EXCEPT ![p] = q]
  BY DEF Finish, Becomes
<1> HIDE DEF q
<1>3. overtaken' \in BOOLEAN /\ (overtaken => overtaken')
  OBVIOUS
<1>4. AdminsLive'
  BY DEF AdminInv, AdminsLive
<1>5. ~Unchecked(q) /\ q.at \notin RoleSteps /\ q.op \notin RoleOps \cup {"register"}
  BY <1>1 DEF Unchecked, RoleSteps, RoleOps
<1>6. ~overtaken' => ~Unchecked(request[p])
  OBVIOUS
<1> QED BY <1>1, <1>2, <1>3, <1>4, <1>5, <1>6, RolesPreserve DEF RoleSteps

LEMMA DiesPreserves ==
  ASSUME AdminInv, NEW p \in Handlers, Dies(p)
  PROVE  AdminInv'
BY LostCheckPreserves DEF Dies

LEMMA ThrowsPreserves ==
  ASSUME AdminInv, NEW p \in Handlers, Throws(p)
  PROVE  AdminInv'
<1> DEFINE old == request[p]
<1>1. UNCHANGED <<account, admins>> /\ overtaken' = (overtaken \/ Unchecked(old))
  BY DEF Throws
<1>2. \/ Finish(p)
      \/ GoTo(p, "undoAfterError") /\ old.at = "addOwner"
      \/ /\ \E conflict \in BOOLEAN : Becomes(p, NotCreated(p, conflict))
         /\ old.at \in {"createHousehold", "undoAfterError", "undoHousehold"}
      \/ /\ GoTo(p, "repromote") /\ old.op = "delete"
         /\ old.at \in {"find", "dropMembers", "dropUser"}
  BY DEF Throws, Finish, GoTo, Becomes
<1>3. CASE Finish(p)
  BY <1>1, <1>3, LostCheckPreserves
<1>4. CASE ~Unchecked(old)
  <2>1. UNCHANGED <<account, admins, overtaken>>
    BY <1>1, <1>4 DEF AdminInv, Shapes
  <2>2. CASE GoTo(p, "undoAfterError")
    BY <1>4, <2>1, <2>2, GoesOnElsewhere DEF RoleSteps
  <2>3. CASE \E conflict \in BOOLEAN : Becomes(p, NotCreated(p, conflict))
    BY <1>4, <2>1, <2>3, CreationElsewhere DEF Becomes
  <2>4. CASE GoTo(p, "repromote") /\ old.op = "delete"
    BY <1>4, <2>1, <2>4, GoesOnGoverned DEF RoleOps
  <2> QED BY <1>2, <1>3, <2>2, <2>3, <2>4
<1>5. ~Finish(p) => ~Unchecked(old)
  BY <1>2 DEF Unchecked
<1> QED BY <1>3, <1>4, <1>5

\* Every handler at rest, every account live or every account new.
LEMMA AdminInit == Init => AdminInv
<1> SUFFICES ASSUME Init PROVE AdminInv
  OBVIOUS
<1>1. \A p \in Handlers : request[p] = Idle
  BY DEF Init
<1>2. Shapes
  <2>1. account = [u \in Users |-> account[u]]
    BY DEF Init, Established, BrandNew
  <2> QED BY <1>1, <2>1, Resting DEF Init, Shapes
<1>3. AdminsLive
  <2>1. CASE BrandNew
    BY <2>1 DEF BrandNew, AdminsLive
  <2>2. CASE Established
    <3>1. /\ account = [u \in Users |-> "live"]
          /\ \E second \in Users : admins \in {{Root}, {Root, second}}
      BY <2>2 DEF Established
    <3> QED BY <3>1, TenancyAssumption DEF AdminsLive
  <2> QED BY <2>1, <2>2 DEF Init
<1>4. Governed
  BY <1>1, Resting DEF Governed, Governs, RoleSteps, RoleOps
<1>5. Recoverable
  BY <1>1, Resting DEF Recoverable, Unchecked
<1>6. AdminRemains
  BY TenancyAssumption DEF Init, Established, BrandNew, AdminRemains, Serving
<1> QED BY <1>2, <1>3, <1>4, <1>5, <1>6 DEF AdminInv

LEMMA BeginPreserves ==
  ASSUME AdminInv, Serving, NEW p \in Requests, Begin(p)
  PROVE  AdminInv'
<1>1. p \in Handlers
  BY DEF Handlers
<1>2. CASE \E u, v \in Users : BeginInvite(p, u, v) /\ UNCHANGED <<admins, overtaken>>
  BY <1>1, <1>2, BeginInvitePreserves
<1>3. CASE \E u \in Users, i \in DOMAIN invitations :
             BeginAccept(p, u, i) /\ UNCHANGED <<admins, overtaken>>
  BY <1>1, <1>3, BeginAcceptPreserves
<1>4. CASE \E u \in Users, m \in members :
             BeginRemove(p, u, m) /\ UNCHANGED <<admins, overtaken>>
  BY <1>1, <1>4, BeginRemovePreserves
<1>5. CASE \E u \in Users, role \in {"user", "admin"} : Register(p, u, role)
  BY <1>5, RegisterPreserves
<1>6. CASE \E admin \in admins, u \in Users :
             \/ BeginDelete(p, admin, u)
             \/ \E role \in {"makeUser", "makeAdmin"} : BeginPatchRole(p, admin, u, role)
  BY <1>6, BeginRolePreserves
<1> QED BY <1>2, <1>3, <1>4, <1>5, <1>6 DEF Begin

LEMMA ContinuePreserves ==
  ASSUME AdminInv, NEW p \in Handlers, Continue(p)
  PROVE  AdminInv'
<1>1. CASE UndoUser(p)
  BY <1>1, DeletionPreserves DEF UndoUser, At
<1>2. CASE DropUser(p)
  BY <1>2, DeletionPreserves DEF DropUser, At
<1>3. CASE FindUser(p) \/ DropMembers(p)
  BY <1>3, FindAndDropPreserve
<1>4. CASE Demote(p)
  BY <1>4, DemotePreserves
<1>5. CASE CountAdmins(p)
  BY <1>5, CountAdminsPreserves
<1>6. CASE RestoreAdmin(p)
  BY <1>6, RestoreAdminPreserves
<1>7. CASE UpdateRole(p)
  BY <1>7, UpdateRolePreserves
<1>8. CASE ListActive(p)
  BY <1>8, ListActivePreserves
<1>9. CASE ListUsers(p)
  BY <1>9, ListUsersPreserves
<1> QED
  BY <1>1, <1>2, <1>3, <1>4, <1>5, <1>6, <1>7, <1>8, <1>9, HouseholdStepPreserves
  DEF Continue

LEMMA AdminStep == AdminInv /\ [Next]_vars => AdminInv'
<1> SUFFICES ASSUME AdminInv, [Next]_vars PROVE AdminInv'
  OBVIOUS
<1>1. CASE Serving /\ \E p \in Requests : request[p] = Idle /\ Begin(p)
  BY <1>1, BeginPreserves
<1>2. CASE \E p \in Boots : SeedAdmin(p)
  BY <1>2, SeedAdminPreserves
<1>3. CASE \E p \in Handlers : Continue(p) \/ Throws(p) \/ Dies(p)
  BY <1>3, ContinuePreserves, ThrowsPreserves, DiesPreserves
<1>4. CASE UNCHANGED <<account, request, admins, overtaken>>
  BY <1>4 DEF AdminInv, Shapes, AdminsLive, Governed, Governs, Recoverable,
     AdminRemains, Serving, Unchecked
<1>5. CASE \E i \in 1 .. MaxInvitations : Expire(i) /\ UNCHANGED <<admins, overtaken>>
  BY <1>4, <1>5 DEF Expire
<1>6. CASE UNCHANGED vars
  BY <1>4, <1>6 DEF vars
<1> QED BY <1>1, <1>2, <1>3, <1>5, <1>6 DEF Next

\* Once the service has served anybody it always has an administrator, or a
\* demotion whose handler is about to give one back, whatever registers, boots,
\* promotes, demotes and deletes at the same time; unless a handler was overtaken
\* or died with its check (users.service.ts, demoteAdminSafely).
THEOREM AnAdminRemains == Spec => []AdminRemains
<1>1. AdminInv => AdminRemains
  BY DEF AdminInv
<1> QED BY <1>1, AdminInit, AdminStep, PTL DEF Spec

-----------------------------------------------------------------------------
(* A handler acts on what it read some operations ago, so what it relies   *)
(* on is an assertion about the documents (Fits), and the others must keep *)
(* it.  They do for one reason: what a step of a handler changes is about  *)
(* the handler's own user or its own household (Touches), and two handlers *)
(* that have a user or a household in common have disturbed it (Shared).   *)
(* Where not even the database refuses the write, that is all a property   *)
(* promises; where a unique index or a condition of the write refuses it,  *)
(* the assertion holds whoever overlaps.                                   *)

\* The steps of createHousehold() that have a household to answer for.
HomeSteps == {"addOwner", "undoHousehold", "undoAfterError"}

Creating == {"createHousehold"} \cup HomeSteps

Listing == {"listActive", "listUsers"}

Live(u) == account[u] = "live" \/ u \in disturbed

\* A member who is not the owner, an invitation still open.
Guest(h, u) == \E m \in members : m.user = u /\ m.household = h /\ m.role # "owner"

Pending(h, u) ==
  \E i \in DOMAIN invitations :
    /\ invitations[i].status = "pending"
    /\ invitations[i].household = h /\ invitations[i].user = u

Named(h) == h \in Households /\ households[h] # NoUser

\* The row a handler has read is the one with its id, and was never another's.
Identifies(q) ==
  /\ q.doc \in Row /\ q.doc.user = q.user
  /\ \A m \in members : m.id = q.doc.id => m.user = q.user /\ (m.role = "owner" => m = q.doc)

\* What each operation relies on between its steps.
FitsInvite(q) == q.op = "invite" =>
  /\ q.at \in {"check", "supersede", "insert"}
  /\ q.user \in Users /\ Named(q.household)
  /\ q.at # "check" => ~Guest(q.household, q.user) \/ q.user \in disturbed
  /\ q.at = "insert" => ~Pending(q.household, q.user) \/ q.user \in disturbed

FitsAccept(q) == q.op = "accept" =>
  /\ q.at \in {"lookup", "active", "count", "switch", "join", "mark"}
  /\ q.user \in Users /\ Live(q.user) /\ Named(q.household)
  /\ q.invitation \in DOMAIN invitations
  /\ invitations[q.invitation].household = q.household
  /\ invitations[q.invitation].user = q.user
  /\ invitations[q.invitation].status = "pending" \/ q.user \in disturbed
  /\ q.at \in {"active", "count", "switch", "join"} =>
       /\ ~Guest(q.household, q.user) \/ q.user \in disturbed
       /\ \A m \in members : m.user = q.user /\ m.role = "owner" => m.household # q.household
  /\ q.at \in {"count", "switch"} => Identifies(q)
  /\ q.at = "switch" /\ q.doc.role = "owner" =>
       Others(q) = {} \/ q.doc.household \in disturbed

FitsRemove(q) == q.op = "remove" =>
  /\ q.at \in {"find", "delete"} \cup Creating
  /\ q.user \in Users /\ Live(q.user)
  /\ q.at \in {"find", "delete"} => Identifies(q)
  /\ q.at = "delete" =>
       \A m \in members : m.id = q.doc.id =>
         m.role # "owner" /\ (m.household = q.household \/ q.user \in disturbed)

FitsRegister(q) == q.op = "register" =>
  /\ q.at \in Creating \cup {"undoUser"}
  /\ q.user \in Users /\ Live(q.user)
  /\ ~HasActive(q.user) \/ q.user \in disturbed

FitsDelete(q) ==
  q.op = "delete" /\ q.at = "dropUser" => ~HasActive(q.user) \/ q.user \in disturbed

FitsBackfill(q) == q.op = "backfill" =>
  /\ q.at \in Listing \cup Creating
  /\ q.todo \subseteq Users
  /\ q.at = "listActive" => q.todo = {}
  /\ q.at \notin Listing => q.user \in Users /\ \A u \in q.todo \cup {q.user} : Live(u)

\* A household being created is its creator's.
FitsCreation(q) ==
  /\ q.at \in Creating => q.op \in {"register", "remove", "backfill"}
  /\ q.at \in HomeSteps => q.home \in Households /\ households[q.home] = q.user
  /\ q.at = "undoAfterError" => failures > 0

Fits(p, q) ==
  /\ q.op \in {"none", "done", "invite", "accept", "remove", "register", "delete",
               "makeUser", "makeAdmin", "backfill"}
  /\ q.op \in {"invite", "accept", "remove"} => p \in Requests
  /\ q.op = "backfill" => p \in Boots
  /\ q.op # "accept" => q.invitation = 0
  /\ FitsInvite(q) /\ FitsAccept(q) /\ FitsRemove(q) /\ FitsRegister(q)
  /\ FitsDelete(q) /\ FitsBackfill(q) /\ FitsCreation(q)

AllFit == \A p \in Handlers : Fits(p, request[p])

\* Until its owner is added nobody else has heard of a new household.
ApartFrom(p, h) ==
  /\ \A m \in members : m.household # h
  /\ \A i \in DOMAIN invitations : invitations[i].household # h
  /\ \A r \in Handlers : request[r].household # h
  /\ \A r \in Handlers \ {p} : request[r].at \in HomeSteps => request[r].home # h

Apart == \A p \in Handlers : request[p].at \in HomeSteps => ApartFrom(p, request[p].home)

\* Two handlers that work on the same user or household have disturbed it.
Shared ==
  \A p \in Handlers : \A r \in Handlers \ {p} :
    Subjects(request[p]) \cap Subjects(request[r]) \subseteq disturbed

\* Types of the documents.
Stored ==
  /\ account \in [Users -> {"new", "live", "gone"}]
  /\ households \in [Households -> Users \cup {NoUser}]
  /\ members \subseteq Row
  /\ invitations \in Seq(Invitation)
  /\ failures \in 0 .. MaxFailures

\* Rows are told apart by their ids, and by their users; their households exist.
Keys == \A m, n \in members : m.id = n.id \/ m.user = n.user => m = n

Placed ==
  /\ \A m \in members : Named(m.household)
                        /\ (m.role = "owner" => households[m.household] = m.user)
  /\ \A i \in DOMAIN invitations : Named(invitations[i].household)

\* Somebody is about to give u a home, or to delete the account.
Provides(p, u) ==
  /\ request[p].user = u
  /\ \/ request[p].op = "register"
     \/ request[p].op = "remove" /\ request[p].at \in {"createHousehold", "addOwner"}
     \/ request[p].op = "delete" /\ request[p].at = "dropUser"

\* A boot that has yet to come to u.
Visits(p, u) ==
  /\ request[p].op = "backfill"
  /\ \/ request[p].at = "listActive"
     \/ request[p].at = "listUsers" /\ u \notin request[p].todo
     \/ request[p].at \notin Listing /\ u \in request[p].todo
     \/ request[p].at \in {"createHousehold", "addOwner"} /\ request[p].user = u

Provided ==
  \A u \in Users : account[u] = "live" /\ ~HasActive(u) =>
    \/ failures > 0
    \/ \E p \in Handlers : Provides(p, u)
    \/ u = Root /\ \E p \in Handlers : Visits(p, u)

HomeInv ==
  /\ AdminInv /\ Shared
  /\ Stored /\ AllFit /\ Apart /\ Keys /\ Placed /\ Provided
  /\ NoOrphans /\ InvitedOnly /\ SpentOnce /\ NewestOnly

-----------------------------------------------------------------------------
(* What the steps of a handler may change.                                 *)

\* A row the handler adds is its own user's, in its own household.
Adds(p, m) ==
  LET old == request[p] IN
  /\ m.user = old.user /\ Live(m.user)
  /\ \/ m.role = "owner" /\ old.at = "addOwner" /\ m.household = old.home
     \/ /\ m.role = "member" /\ old.op = "accept" /\ m.household = old.household
        /\ request'[p].invitation = old.invitation
  /\ \/ \A r \in Handlers : request[r].doc.id # m.id
     \/ m.role = "member" /\ \E n \in members : n.id = m.id /\ n.user = m.user
  /\ UNCHANGED <<account, households, invitations>>

\* An invitation it closes is its own user's, and so is the one it adds.
Closes(p, i) ==
  LET old == request[p] IN
  /\ i \in DOMAIN invitations'
  /\ invitations'[i].household = invitations[i].household
  /\ invitations'[i].user = invitations[i].user
  /\ \/ invitations'[i].status = invitations[i].status
     \/ invitations'[i].status # "pending" /\ invitations[i].user = old.user
  /\ invitations[i].expired => invitations'[i].expired

Sends(p, i) ==
  LET old == request[p] IN
  /\ old.op = "invite" /\ old.at = "insert"
  /\ invitations'[i].household = old.household /\ invitations'[i].user = old.user
  /\ UNCHANGED <<account, households, members>>
  /\ \A j \in DOMAIN invitations' \ DOMAIN invitations : j = i

Touches(p) ==
  /\ \A u \in Users : account[u] = "live" /\ account'[u] # "live" =>
       u = request[p].user /\ (HasActive(u) => u \in disturbed)
  /\ \A h \in Households : households'[h] # households[h] =>
       households[h] = NoUser \/ (request[p].at \in HomeSteps /\ h = request[p].home)
  /\ \A m \in members' \ members : Adds(p, m)
  /\ \A i \in DOMAIN invitations : Closes(p, i)
  /\ \A i \in DOMAIN invitations' \ DOMAIN invitations : Sends(p, i)
  /\ failures' \in Nat /\ failures <= failures'

\* Where the handler has the household from that it remembers next.
Hears(p) ==
  LET old == request[p]
      q   == request'[p]
  IN
  /\ \/ q.household \in {0, old.household}
     \/ \E m \in members : q.household = m.household
     \/ \E i \in DOMAIN invitations : q.household = invitations[i].household
  /\ q.at \in HomeSteps =>
       /\ UNCHANGED <<members, invitations>>
       /\ (old.at \in HomeSteps /\ q.home = old.home) \/ q.home \in Unused

\* An invitation it lets go of is spent, or let nobody in.
Quits(p) ==
  LET old == request[p] IN
  old.op = "accept" /\ request'[p].invitation # old.invitation =>
    \/ failures' > 0 \/ old.user \in disturbed
    \/ invitations'[old.invitation].status # "pending"
    \/ ~\E m \in members' : /\ m.user = old.user /\ m.household = old.household
                            /\ m.role # "owner"

\* Whom it leaves without a home, or was to give one, it still is to.
Cares(p) ==
  \A u \in Users :
    /\ account'[u] = "live" /\ ~HasActive(u)'
    /\ \/ account[u] # "live" \/ HasActive(u)
       \/ Provides(p, u) \/ (u = Root /\ Visits(p, u))
    => \/ failures' > 0 \/ Provides(p, u)' \/ (u = Root /\ Visits(p, u)')

Moves(p) ==
  /\ \A r \in Handlers \ {p} : request'[r] = request[r]
  /\ disturbed \subseteq disturbed'
  /\ Touches(p)

-----------------------------------------------------------------------------
(* What a step keeps of what the other handlers rely on.                   *)

LEMMA SubjectsOf ==
  ASSUME NEW q
  PROVE  /\ q.user \in Users => q.user \in Subjects(q)
         /\ q.household \in Households => q.household \in Subjects(q)
         /\ q.home \in Households => q.home \in Subjects(q)
         /\ q.doc.household \in Households => q.doc.household \in Subjects(q)
         /\ q.at # "listUsers" => q.todo \subseteq Subjects(q)
BY TenancyAssumption, BoundsAssumption DEF Subjects, Households

\* What the handler and another one are both about is disturbed.
LEMMA Overlap ==
  ASSUME Shared, NEW p \in Handlers, NEW r \in Handlers \ {p}
  PROVE  /\ request[r].user \in Users /\ request[r].user = request[p].user =>
              request[r].user \in disturbed
         /\ request[p].user \in Users /\ request[r].at # "listUsers"
              /\ request[p].user \in request[r].todo => request[p].user \in disturbed
         /\ \A h \in Households :
              /\ h = request[r].doc.household
              /\ h \in {request[p].household, request[p].home}
              => h \in disturbed
<1>1. Subjects(request[p]) \cap Subjects(request[r]) \subseteq disturbed
  BY DEF Shared
<1>2. \A q : (q.user \in Users => q.user \in Subjects(q))
  BY SubjectsOf
<1>3. \A q : (q.household \in Households => q.household \in Subjects(q))
  BY SubjectsOf
<1>4. \A q : (q.home \in Households => q.home \in Subjects(q))
  BY SubjectsOf
<1>5. \A q : (q.doc.household \in Households => q.doc.household \in Subjects(q))
  BY SubjectsOf
<1>6. \A q : (q.at # "listUsers" => q.todo \subseteq Subjects(q))
  BY SubjectsOf
<1>7. /\ request[r].user \in Users /\ request[r].user = request[p].user =>
            request[r].user \in disturbed
      /\ request[p].user \in Users /\ request[r].at # "listUsers"
           /\ request[p].user \in request[r].todo => request[p].user \in disturbed
  BY <1>1, <1>2, <1>6
<1>8. \A h \in Households :
        h = request[r].doc.household /\ h \in {request[p].household, request[p].home}
        => h \in disturbed
  BY <1>1, <1>3, <1>4, <1>5
<1> QED BY <1>7, <1>8

\* A user it might delete is another's only if disturbed.
LEMMA StaysLive ==
  ASSUME Shared, NEW p \in Handlers, Moves(p), NEW r \in Handlers \ {p},
         NEW u \in Users, Live(u),
         u = request[r].user \/ (request[r].at # "listUsers" /\ u \in request[r].todo)
  PROVE  Live(u)'
<1>1. account[u] = "live" /\ account'[u] # "live" => u = request[p].user
  BY DEF Moves, Touches
<1>2. u = request[p].user => u \in disturbed
  BY Overlap
<1> QED BY <1>1, <1>2 DEF Moves, Live

\* Only a household still being created can go.
LEMMA StaysNamed ==
  ASSUME Apart, NEW p \in Handlers, Moves(p), NEW h, Named(h),
         \/ \E r \in Handlers : h = request[r].household
         \/ \E m \in members : h = m.household
         \/ \E i \in DOMAIN invitations : h = invitations[i].household
  PROVE  Named(h)'
<1>1. households'[h] # households[h] => request[p].at \in HomeSteps /\ h = request[p].home
  BY DEF Moves, Touches, Named
<1>2. request[p].at \in HomeSteps => h # request[p].home
  BY DEF Apart, ApartFrom
<1>3. households'[h] = households[h]
  BY <1>1, <1>2
<1> QED BY <1>3 DEF Named, Households

LEMMA StaysIdentified ==
  ASSUME NEW p \in Handlers, Moves(p), NEW r \in Handlers \ {p}, Identifies(request[r])
  PROVE  Identifies(request[r])'
<1> DEFINE q == request[r]
<1>1. request'[r] = q
  BY DEF Moves
<1>2. SUFFICES ASSUME NEW m \in members', m.id = q.doc.id
               PROVE  m.user = q.user /\ (m.role = "owner" => m = q.doc)
  BY <1>1 DEF Identifies, Row, Households
<1>3. CASE m \in members
  BY <1>2, <1>3 DEF Identifies
<1>4. CASE m \notin members
  <2>1. m.role = "member" /\ \E n \in members : n.id = m.id /\ n.user = m.user
    BY <1>2, <1>4 DEF Moves, Touches, Adds
  <2> QED BY <1>2, <2>1 DEF Identifies
<1> QED BY <1>3, <1>4

\* A guest more, or an open invitation more, is its own user's.
LEMMA StaysAway ==
  ASSUME Shared, NEW p \in Handlers, Moves(p), NEW r \in Handlers \ {p},
         request[r].user \in Users, NEW h
  PROVE  /\ ~Guest(h, request[r].user) \/ request[r].user \in disturbed =>
              (~Guest(h, request[r].user) \/ request[r].user \in disturbed)'
         /\ ~HasActive(request[r].user) \/ request[r].user \in disturbed =>
              (~HasActive(request[r].user) \/ request[r].user \in disturbed)'
         /\ ~Pending(h, request[r].user) \/ request[r].user \in disturbed =>
              (~Pending(h, request[r].user) \/ request[r].user \in disturbed)'
<1> DEFINE u == request[r].user
<1>1. request'[r] = request[r] /\ disturbed \subseteq disturbed'
  BY DEF Moves
<1>2. u = request[p].user => u \in disturbed
  BY Overlap
<1>3. \A m \in members' : m \in members \/ m.user = request[p].user
  BY DEF Moves, Touches, Adds
<1>4. ASSUME Pending(h, u)', ~Pending(h, u)
      PROVE  u = request[p].user
  <2>1. PICK i \in DOMAIN invitations' :
          invitations'[i].status = "pending" /\ invitations'[i].household = h
          /\ invitations'[i].user = u
    BY <1>1, <1>4 DEF Pending
  <2>2. i \notin DOMAIN invitations
    BY <1>4, <2>1 DEF Pending, Moves, Touches, Closes
  <2> QED BY <2>1, <2>2 DEF Moves, Touches, Sends
<1>5. Guest(h, u)' => Guest(h, u) \/ u = request[p].user
  BY <1>1, <1>3 DEF Guest
<1>6. HasActive(u)' => HasActive(u) \/ u = request[p].user
  BY <1>1, <1>3 DEF HasActive
<1> QED BY <1>1, <1>2, <1>4, <1>5, <1>6

LEMMA StaysFitInvite ==
  ASSUME HomeInv, NEW p \in Handlers, Moves(p), NEW r \in Handlers \ {p},
         FitsInvite(request[r])
  PROVE  FitsInvite(request[r])'
<1> DEFINE q == request[r]
<1>1. request'[r] = q
  BY DEF Moves
<1>2. SUFFICES ASSUME q.op = "invite"
               PROVE  FitsInvite(q)'
  BY <1>1 DEF FitsInvite
<1>3. Named(q.household)'
  BY <1>1, <1>2, StaysNamed DEF HomeInv, FitsInvite, Named
<1>4. /\ q.at # "check" => (~Guest(q.household, q.user) \/ q.user \in disturbed)'
      /\ q.at = "insert" => (~Pending(q.household, q.user) \/ q.user \in disturbed)'
  BY <1>1, <1>2, StaysAway DEF HomeInv, FitsInvite
<1> QED BY <1>1, <1>2, <1>3, <1>4 DEF FitsInvite

\* Nobody joins the household an owner has counted and is about to leave.
LEMMA StaysAlone ==
  ASSUME HomeInv, NEW p \in Handlers, Moves(p), NEW r \in Handlers \ {p},
         request[r].doc \in Row,
         Others(request[r]) = {} \/ request[r].doc.household \in disturbed
  PROVE  (Others(request[r]) = {} \/ request[r].doc.household \in disturbed)'
<1> DEFINE h == request[r].doc.household
<1>1. request'[r] = request[r] /\ disturbed \subseteq disturbed'
  BY DEF Moves
<1>2. h \in Households
  BY DEF Row
<1>3. \A m \in members' : m \in members \/ m.household \in {request[p].household, request[p].home}
  BY DEF Moves, Touches, Adds
<1>4. h \in {request[p].household, request[p].home} => h \in disturbed
  BY <1>2, Overlap DEF HomeInv
<1> QED BY <1>1, <1>3, <1>4 DEF Others

LEMMA StaysFitAccept ==
  ASSUME HomeInv, NEW p \in Handlers, Moves(p), NEW r \in Handlers \ {p},
         FitsAccept(request[r])
  PROVE  FitsAccept(request[r])'
<1> DEFINE q == request[r]
<1>1. request'[r] = q /\ disturbed \subseteq disturbed'
  BY DEF Moves
<1>2. SUFFICES ASSUME q.op = "accept"
               PROVE  FitsAccept(q)'
  BY <1>1 DEF FitsAccept
<1>3. Named(q.household)' /\ Live(q.user)'
  BY <1>1, <1>2, StaysNamed, StaysLive DEF HomeInv, FitsAccept, Named, Live
<1>4. /\ q.invitation \in DOMAIN invitations'
      /\ invitations'[q.invitation].household = q.household
      /\ invitations'[q.invitation].user = q.user
      /\ invitations'[q.invitation].status = "pending" \/ q.user \in disturbed'
  <2>1. Closes(p, q.invitation)
    BY <1>2 DEF FitsAccept, Moves, Touches
  <2>2. q.user = request[p].user => q.user \in disturbed
    BY <1>2, Overlap DEF HomeInv, FitsAccept
  <2> QED BY <1>1, <1>2, <2>1, <2>2 DEF FitsAccept, Closes
<1>5. q.at \in {"active", "count", "switch", "join"} =>
        (~Guest(q.household, q.user) \/ q.user \in disturbed)'
  BY <1>1, <1>2, StaysAway DEF HomeInv, FitsAccept
<1>6. ASSUME q.at \in {"active", "count", "switch", "join"}, NEW m \in members',
             m.user = q.user, m.role = "owner"
      PROVE  m.household # q.household
  <2>1. CASE m \in members
    BY <1>2, <1>6, <2>1 DEF FitsAccept
  <2>2. CASE m \notin members
    <3>1. request[p].at \in HomeSteps /\ m.household = request[p].home
      BY <1>6, <2>2 DEF Moves, Touches, Adds, HomeSteps
    <3> QED BY <3>1 DEF HomeInv, Apart, ApartFrom
  <2> QED BY <2>1, <2>2
<1>7. q.at \in {"count", "switch"} => Identifies(q)'
  BY <1>1, <1>2, StaysIdentified DEF FitsAccept
<1>8. q.at = "switch" /\ q.doc.role = "owner" =>
        (Others(q) = {} \/ q.doc.household \in disturbed)'
  BY <1>1, <1>2, StaysAlone DEF FitsAccept, Identifies
<1> QED BY <1>1, <1>2, <1>3, <1>4, <1>5, <1>6, <1>7, <1>8 DEF FitsAccept

LEMMA StaysFitRemove ==
  ASSUME HomeInv, NEW p \in Handlers, Moves(p), NEW r \in Handlers \ {p},
         FitsRemove(request[r])
  PROVE  FitsRemove(request[r])'
<1> DEFINE q == request[r]
<1>1. request'[r] = q /\ disturbed \subseteq disturbed'
  BY DEF Moves
<1>2. SUFFICES ASSUME q.op = "remove"
               PROVE  FitsRemove(q)'
  BY <1>1 DEF FitsRemove
<1>3. Live(q.user)'
  BY <1>1, <1>2, StaysLive DEF HomeInv, FitsRemove, Live
<1>4. q.at \in {"find", "delete"} => Identifies(q)'
  BY <1>1, <1>2, StaysIdentified DEF FitsRemove
<1>5. ASSUME q.at = "delete", NEW m \in members', m.id = q.doc.id
      PROVE  m.role # "owner" /\ (m.household = q.household \/ q.user \in disturbed')
  <2>1. CASE m \in members
    BY <1>1, <1>2, <1>5, <2>1 DEF FitsRemove
  <2>2. CASE m \notin members
    <3>1. PICK n \in members : m.role = "member" /\ n.id = m.id /\ n.user = m.user
      BY <1>5, <2>2 DEF Moves, Touches, Adds
    <3>2. n.user = q.user /\ m.user = request[p].user
      BY <1>2, <1>5, <2>2, <3>1 DEF FitsRemove, Identifies, Moves, Touches, Adds
    <3>3. q.user \in disturbed
      BY <1>2, <3>1, <3>2, Overlap DEF FitsRemove, HomeInv
    <3> QED BY <1>1, <3>1, <3>3
  <2> QED BY <2>1, <2>2
<1> QED BY <1>1, <1>2, <1>3, <1>4, <1>5 DEF FitsRemove

LEMMA StaysFitBackfill ==
  ASSUME HomeInv, NEW p \in Handlers, Moves(p), NEW r \in Handlers \ {p},
         FitsBackfill(request[r])
  PROVE  FitsBackfill(request[r])'
<1> DEFINE q == request[r]
<1>1. request'[r] = q
  BY DEF Moves
<1>2. ASSUME q.op = "backfill", q.at \notin Listing, NEW u \in q.todo \cup {q.user}
      PROVE  Live(u)'
  BY <1>2, StaysLive DEF HomeInv, FitsBackfill, Listing
<1> QED BY <1>1, <1>2 DEF FitsBackfill

LEMMA StaysFitCreation ==
  ASSUME HomeInv, NEW p \in Handlers, Moves(p), NEW r \in Handlers \ {p},
         Fits(r, request[r])
  PROVE  FitsCreation(request[r])'
<1> DEFINE q == request[r]
<1>1. request'[r] = q /\ failures' \in Nat /\ failures <= failures'
  BY DEF Moves, Touches
<1>2. q.at \in HomeSteps => q.user \in Users
  BY DEF Fits, FitsCreation, FitsRegister, FitsRemove, FitsBackfill, Creating, Listing, HomeSteps
<1>3. ASSUME q.at \in HomeSteps
      PROVE  households'[q.home] = q.user
  <2>1. households[q.home] = q.user /\ q.home \in Households
    BY <1>3 DEF Fits, FitsCreation
  <2>2. request[p].at \in HomeSteps => request[p].home # q.home
    BY <1>3 DEF HomeInv, Apart, ApartFrom
  <2> QED BY <1>2, <1>3, <2>1, <2>2, TenancyAssumption DEF Moves, Touches
<1>4. q.at = "undoAfterError" => failures' > 0
  <2>1. failures \in Nat /\ (q.at = "undoAfterError" => failures > 0)
    BY DEF HomeInv, Stored, Fits, FitsCreation
  <2> QED BY <1>1, <2>1
<1> QED BY <1>1, <1>3, <1>4 DEF Fits, FitsCreation

\* What the others rely on is kept.
LEMMA OthersFit ==
  ASSUME HomeInv, NEW p \in Handlers, Moves(p), NEW r \in Handlers \ {p}
  PROVE  Fits(r, request[r])'
<1> DEFINE q == request[r]
<1>1. request'[r] = q /\ Fits(r, q)
  BY DEF Moves, HomeInv, AllFit
<1>2. FitsInvite(q)' /\ FitsAccept(q)' /\ FitsRemove(q)' /\ FitsBackfill(q)' /\ FitsCreation(q)'
  BY <1>1, StaysFitInvite, StaysFitAccept, StaysFitRemove, StaysFitBackfill,
     StaysFitCreation DEF Fits
<1>3. FitsRegister(q)'
  BY <1>1, StaysLive, StaysAway DEF Fits, FitsRegister, HomeInv
<1>4. FitsDelete(q)'
  <2>1. q.op = "delete" => q.user \in Users
    BY DEF HomeInv, AdminInv, Governed, Governs, RoleOps
  <2> QED BY <1>1, <2>1, StaysAway DEF Fits, FitsDelete, HomeInv
<1> QED BY <1>1, <1>2, <1>3, <1>4 DEF Fits


-----------------------------------------------------------------------------
(* What a step keeps of what the documents say.                            *)

LEMMA PlacedKept ==
  ASSUME HomeInv, NEW p \in Handlers, Moves(p)
  PROVE  Placed'
<1>1. Fits(p, request[p])
  BY DEF HomeInv, AllFit
<1>2. ASSUME NEW m \in members'
      PROVE  Named(m.household)' /\ (m.role = "owner" => households'[m.household] = m.user)
  <2>1. CASE m \in members
    <3>1. Named(m.household) /\ (m.role = "owner" => households[m.household] = m.user)
      BY <2>1 DEF HomeInv, Placed
    <3>2. households'[m.household] # households[m.household] =>
            request[p].at \in HomeSteps /\ m.household = request[p].home
      BY <3>1 DEF Moves, Touches, Named
    <3>3. households'[m.household] = households[m.household]
      BY <2>1, <3>2 DEF HomeInv, Apart, ApartFrom
    <3> QED BY <3>1, <3>3 DEF Named, Households
  <2>2. CASE m \notin members
    <3>1. Adds(p, m)
      BY <2>2 DEF Moves, Touches
    <3>2. CASE m.role = "owner" /\ request[p].at = "addOwner" /\ m.household = request[p].home
      <4>1. /\ m.household \in Households /\ households[m.household] = m.user
            /\ m.user \in Users
        BY <1>1, <3>1, <3>2 DEF Adds, Fits, FitsCreation, HomeSteps, Creating, FitsRegister,
           FitsRemove, FitsBackfill, Listing
      <4> QED BY <3>1, <4>1, TenancyAssumption DEF Adds, Named, Households
    <3>3. CASE m.role = "member" /\ request[p].op = "accept" /\ m.household = request[p].household
      <4>1. Named(m.household)
        BY <1>1, <3>3 DEF Fits, FitsAccept
      <4> QED BY <3>1, <3>3, <4>1 DEF Adds, Named, Households
    <3> QED BY <3>1, <3>2, <3>3 DEF Adds
  <2> QED BY <2>1, <2>2
<1>3. ASSUME NEW i \in DOMAIN invitations'
      PROVE  Named(invitations[i].household)'
  <2>1. CASE i \in DOMAIN invitations
    <3>1. invitations'[i].household = invitations[i].household
      BY <2>1 DEF Moves, Touches, Closes
    <3>2. Named(invitations[i].household)
      BY <2>1 DEF HomeInv, Placed
    <3>3. request[p].at \in HomeSteps => invitations[i].household # request[p].home
      BY <2>1 DEF HomeInv, Apart, ApartFrom
    <3> QED BY <3>1, <3>2, <3>3 DEF Moves, Touches, Named, Households
  <2>2. CASE i \notin DOMAIN invitations
    <3>1. Sends(p, i)
      BY <2>2 DEF Moves, Touches
    <3>2. Named(request[p].household)
      BY <1>1, <3>1 DEF Sends, Fits, FitsInvite
    <3> QED BY <3>1, <3>2 DEF Sends, Named, Households
  <2> QED BY <2>1, <2>2
<1> QED BY <1>2, <1>3 DEF Placed

LEMMA ApartKept ==
  ASSUME HomeInv, NEW p \in Handlers, Moves(p), Hears(p)
  PROVE  Apart'
<1> SUFFICES ASSUME NEW r \in Handlers, request'[r].at \in HomeSteps,
                    NEW h, h = request'[r].home
             PROVE  ApartFrom(r, h)'
  BY DEF Apart, Handlers
<1>1. \A o \in Handlers \ {p} : request'[o] = request[o]
  BY DEF Moves
\* What was apart from h before, but for the steps of p.
<1>2. \/ request[r].at \in HomeSteps /\ h = request[r].home
      \/ r = p /\ h \in Unused /\ UNCHANGED <<members, invitations>>
  BY <1>1 DEF Hears
<1>3. /\ \A m \in members : m.household # h
      /\ \A i \in DOMAIN invitations : invitations[i].household # h
      /\ \A o \in Handlers : request[o].household # h
      /\ \A o \in Handlers \ {r} : request[o].at \in HomeSteps => request[o].home # h
  BY <1>2 DEF HomeInv, Apart, ApartFrom, Unused, HouseholdsHeld
<1>4. h \in Households
  BY <1>2 DEF HomeInv, AllFit, Fits, FitsCreation, Unused
<1>5. \A m \in members' : m.household # h
  <2> SUFFICES ASSUME NEW m \in members', m \notin members, m.household = h
               PROVE  FALSE
    BY <1>3
  <2>1. Adds(p, m)
    BY DEF Moves, Touches
  <2>2. m.household = request[p].home /\ request[p].at \in HomeSteps
    BY <1>3, <2>1 DEF Adds, HomeSteps
  <2>3. r = p
    BY <1>3, <2>2
  <2>4. UNCHANGED members
    BY <2>3 DEF Hears
  <2> QED BY <2>4
<1>6. \A i \in DOMAIN invitations' : invitations'[i].household # h
  BY <1>3 DEF Moves, Touches, Closes, Sends
<1>7. \A o \in Handlers : request'[o].household # h
  <2>1. request'[p].household # h
    BY <1>3, <1>4, BoundsAssumption DEF Hears, Households
  <2> QED BY <1>1, <1>3, <2>1
<1>8. \A o \in Handlers \ {r} : request'[o].at \in HomeSteps => request'[o].home # h
  <2>1. ASSUME r # p, request'[p].at \in HomeSteps
        PROVE  request'[p].home # h
    <3>1. CASE request[p].at \in HomeSteps /\ request'[p].home = request[p].home
      BY <1>3, <2>1, <3>1
    <3>2. CASE request'[p].home \in Unused
      BY <1>2, <2>1, <3>2 DEF Unused, HouseholdsHeld
    <3> QED BY <2>1, <3>1, <3>2 DEF Hears
  <2> QED BY <1>1, <1>3, <2>1
<1> QED BY <1>5, <1>6, <1>7, <1>8 DEF ApartFrom, Handlers

LEMMA NoOrphansKept ==
  ASSUME HomeInv, NEW p \in Handlers, Moves(p)
  PROVE  NoOrphans'
<1> SUFFICES ASSUME NEW m \in members'
             PROVE  account'[m.user] = "live" \/ m.user \in disturbed'
  BY DEF NoOrphans
<1>1. CASE m \in members
  <2>1. m.user \in Users /\ HasActive(m.user) /\ (account[m.user] = "live" \/ m.user \in disturbed)
    BY <1>1 DEF HomeInv, Stored, Row, HasActive, NoOrphans
  <2> QED BY <2>1 DEF Moves, Touches
<1>2. CASE m \notin members
  BY <1>2 DEF Moves, Touches, Adds, Live
<1> QED BY <1>1, <1>2

LEMMA InvitedOnlyKept ==
  ASSUME HomeInv, NEW p \in Handlers, Moves(p)
  PROVE  InvitedOnly'
<1> SUFFICES ASSUME NEW m \in members', m.role # "owner"
             PROVE  \E i \in DOMAIN invitations' :
                      invitations'[i].household = m.household /\ invitations'[i].user = m.user
  BY DEF InvitedOnly
<1>1. PICK i \in DOMAIN invitations :
        invitations[i].household = m.household /\ invitations[i].user = m.user
  <2>1. CASE m \in members
    BY <2>1 DEF HomeInv, InvitedOnly
  <2>2. CASE m \notin members
    BY <2>2 DEF Moves, Touches, Adds, HomeInv, AllFit, Fits, FitsAccept
  <2> QED BY <2>1, <2>2
<1> QED BY <1>1 DEF Moves, Touches, Closes

LEMMA NewestOnlyKept ==
  ASSUME HomeInv, NEW p \in Handlers, Moves(p)
  PROVE  NewestOnly'
<1> SUFFICES ASSUME NEW i \in DOMAIN invitations', NEW j \in DOMAIN invitations', i # j,
                    invitations'[i].status = "pending", invitations'[j].status = "pending",
                    invitations'[i].household = invitations'[j].household,
                    invitations'[i].user = invitations'[j].user
             PROVE  invitations'[i].user \in disturbed'
  BY DEF NewestOnly
<1>1. disturbed \subseteq disturbed'
  BY DEF Moves
<1>2. CASE i \in DOMAIN invitations /\ j \in DOMAIN invitations
  BY <1>1, <1>2 DEF Moves, Touches, Closes, HomeInv, NewestOnly
\* Inserting comes after superseding.
<1>3. ASSUME NEW n \in DOMAIN invitations' \ DOMAIN invitations,
             NEW o \in DOMAIN invitations,
             invitations'[n].status = "pending", invitations'[o].status = "pending",
             invitations'[n].household = invitations'[o].household,
             invitations'[n].user = invitations'[o].user
      PROVE  invitations'[n].user \in disturbed'
  <2>1. Sends(p, n) /\ Closes(p, o)
    BY DEF Moves, Touches
  <2>2. Pending(request[p].household, request[p].user)
    BY <1>3, <2>1 DEF Sends, Closes, Pending
  <2> QED BY <1>1, <2>1, <2>2 DEF Sends, HomeInv, AllFit, Fits, FitsInvite
<1>4. CASE i \notin DOMAIN invitations /\ j \notin DOMAIN invitations
  BY <1>4 DEF Moves, Touches, Sends
<1> QED BY <1>2, <1>3, <1>4

LEMMA SpentOnceKept ==
  ASSUME HomeInv, NEW p \in Handlers, Moves(p), Quits(p)
  PROVE  SpentOnce'
<1> SUFFICES ASSUME NEW m \in members', NEW i \in DOMAIN invitations',
                    m.role # "owner", Redeemable(i)',
                    invitations'[i].household = m.household, invitations'[i].user = m.user,
                    ~(failures' > 0), m.user \notin disturbed'
             PROVE  \E r \in Requests : request'[r].invitation = i
  BY DEF SpentOnce
<1> DEFINE old == request[p]
<1>1. disturbed \subseteq disturbed' /\ Fits(p, old)
      /\ \A r \in Handlers \ {p} : request'[r] = request[r]
  BY DEF Moves, HomeInv, AllFit
\* It was sent before: nobody is invited to where they are already.
<1>2. i \in DOMAIN invitations
  <2> SUFFICES ASSUME i \notin DOMAIN invitations
               PROVE  FALSE
    OBVIOUS
  <2>1. Sends(p, i)
    BY DEF Moves, Touches
  <2>2. Guest(old.household, old.user)
    BY <2>1 DEF Sends, Guest
  <2> QED BY <1>1, <2>1, <2>2 DEF Sends, Fits, FitsInvite
<1>3. /\ Redeemable(i) /\ invitations[i].household = m.household
      /\ invitations[i].user = m.user
  <2>1. Closes(p, i)
    BY <1>2 DEF Moves, Touches
  <2>2. invitations'[i].status = "pending" /\ ~invitations'[i].expired
    BY DEF Redeemable
  <2> QED BY <2>1, <2>2 DEF Closes, Redeemable
<1>4. CASE m \in members
  <2>1. failures > 0 \/ \E r \in Requests : request[r].invitation = i
    BY <1>1, <1>2, <1>3, <1>4 DEF HomeInv, SpentOnce
  <2>2. ~(failures > 0)
    BY DEF Moves, Touches, HomeInv, Stored
  <2>3. PICK r \in Requests : request[r].invitation = i
    BY <2>1, <2>2
  <2>4. CASE r # p
    BY <1>1, <2>3, <2>4 DEF Handlers
  <2>5. CASE r = p
    <3>1. old.op = "accept"
      <4>1. i # 0
        BY <1>2 DEF HomeInv, Stored
      <4> QED BY <1>1, <2>3, <2>5, <4>1 DEF Fits
    <3>2. m.user = old.user /\ m.household = old.household
      BY <1>1, <1>3, <2>3, <2>5, <3>1 DEF Fits, FitsAccept
    <3>3. \E n \in members' : /\ n.user = old.user /\ n.household = old.household
                              /\ n.role # "owner"
      BY <3>2
    <3>4. request'[p].invitation = i
      BY <1>1, <2>3, <2>5, <3>1, <3>2, <3>3 DEF Quits, Redeemable
    <3> QED BY <2>5, <3>4
  <2> QED BY <2>4, <2>5
\* Who comes in brings the invitation they are about to spend.
<1>5. CASE m \notin members
  <2>1. Adds(p, m) /\ old.op = "accept" /\ p \in Requests
        /\ request'[p].invitation = old.invitation
        /\ m.user = old.user /\ m.household = old.household
    BY <1>1, <1>5 DEF Moves, Touches, Adds, Fits
  <2>2. /\ old.invitation \in DOMAIN invitations
        /\ invitations[old.invitation].household = m.household
        /\ invitations[old.invitation].user = m.user
        /\ invitations[old.invitation].status = "pending"
    BY <1>1, <2>1 DEF Fits, FitsAccept
  <2>3. old.invitation = i
    BY <1>1, <1>2, <1>3, <2>2 DEF HomeInv, NewestOnly, Redeemable
  <2> QED BY <2>1, <2>3
<1> QED BY <1>4, <1>5

LEMMA ProvidedKept ==
  ASSUME HomeInv, NEW p \in Handlers, Moves(p), Cares(p)
  PROVE  Provided'
<1> SUFFICES ASSUME NEW u \in Users, account'[u] = "live", ~HasActive(u)', ~(failures' > 0)
             PROVE  \/ \E r \in Handlers : Provides(r, u)'
                    \/ u = Root /\ \E r \in Handlers : Visits(r, u)'
  BY DEF Provided, Handlers
<1>1. \A r \in Handlers \ {p} : request'[r] = request[r]
  BY DEF Moves
<1>2. CASE account[u] # "live" \/ HasActive(u)
  BY <1>2 DEF Cares
<1>3. CASE account[u] = "live" /\ ~HasActive(u)
  <2>1. ~(failures > 0)
    BY DEF Moves, Touches, HomeInv, Stored
  <2>2. ASSUME NEW r \in Handlers, Provides(r, u)
        PROVE  \E o \in Handlers : Provides(o, u)' \/ (u = Root /\ Visits(o, u)')
    <3>1. CASE r = p
      BY <2>2, <3>1 DEF Cares
    <3>2. CASE r # p
      BY <1>1, <2>2, <3>2 DEF Provides
    <3> QED BY <3>1, <3>2
  <2>3. ASSUME NEW r \in Handlers, Visits(r, u), u = Root
        PROVE  \E o \in Handlers : Provides(o, u)' \/ (u = Root /\ Visits(o, u)')
    <3>1. CASE r = p
      BY <2>3, <3>1 DEF Cares
    <3>2. CASE r # p
      BY <1>1, <2>3, <3>2 DEF Visits
    <3> QED BY <3>1, <3>2
  <2> QED BY <1>3, <2>1, <2>2, <2>3 DEF HomeInv, Provided
<1> QED BY <1>2, <1>3

\* The whole step, from what it does itself.
LEMMA StepKeeps ==
  ASSUME HomeInv, AdminInv', Shared', NEW p \in Handlers, Moves(p),
         Stored', Keys', Fits(p, request[p])', Hears(p), Quits(p), Cares(p)
  PROVE  HomeInv'
<1>1. AllFit'
  BY OthersFit DEF AllFit, Handlers
<1> QED BY <1>1, PlacedKept, ApartKept, NoOrphansKept, InvitedOnlyKept, NewestOnlyKept,
          SpentOnceKept, ProvidedKept DEF HomeInv


-----------------------------------------------------------------------------
(* How handlers go on.                                                     *)

\* A handler that has not begun or has ended.
Rests(q) ==
  /\ q.op \in {"none", "done"} /\ q.at = "begin"
  /\ q.user = NoUser /\ q.household = 0 /\ q.doc = NoRow /\ q.invitation = 0
  /\ q.home = 0 /\ q.todo = {}

\* The same operation, but for its step, and its role.
Same(q, old) ==
  /\ q.op = old.op /\ q.user = old.user /\ q.household = old.household
  /\ q.doc = old.doc /\ q.invitation = old.invitation /\ q.home = old.home
  /\ q.todo = old.todo

LEMMA IdleRests == Rests(Idle) /\ Rests(Done)
<1>1. Rests(Idle)
  BY DEF Rests, Idle
<1>2. ASSUME NEW q, q = [Idle EXCEPT !.op = "done"]
      PROVE  q.op = "done" /\ q.at = Idle.at /\ q.user = Idle.user /\ q.household = Idle.household /\ q.doc = Idle.doc
             /\ q.invitation = Idle.invitation /\ q.home = Idle.home /\ q.todo = Idle.todo
  BY <1>2 DEF Idle
<1> QED BY <1>1, <1>2 DEF Rests, Done

LEMMA Goes ==
  ASSUME AdminInv, NEW p \in Handlers, NEW q, request' = [request EXCEPT ![p] = q]
  PROVE  request'[p] = q /\ \A r \in Handlers \ {p} : request'[r] = request[r]
BY DEF AdminInv, Shapes

LEMMA EndsResting ==
  ASSUME AdminInv, NEW p \in Handlers, Finish(p)
  PROVE  Rests(request'[p]) /\ \A r \in Handlers \ {p} : request'[r] = request[r]
<1>1. Rests(Over(p))
  BY IdleRests DEF Over
<1> DEFINE q == Over(p)
<1>2. request' = [request EXCEPT ![p] = q]
  BY DEF Finish, Becomes
<1> HIDE DEF q
<1> QED BY <1>1, <1>2, Goes DEF q

LEMMA GoesOn ==
  ASSUME AdminInv, NEW p \in Handlers, NEW step, GoTo(p, step)
  PROVE  /\ Same(request'[p], request[p]) /\ request'[p].at = step
         /\ \A r \in Handlers \ {p} : request'[r] = request[r]
<1> DEFINE old == request[p]
           q   == [old EXCEPT !.at = step]
<1>1. request' = [request EXCEPT ![p] = q]
  BY DEF GoTo, Becomes
<1>2. Record(old)
  BY DEF AdminInv, Shapes
<1>3. Same(q, old) /\ q.at = step
  <2>1. ASSUME NEW i, Record(i), NEW r, r = [i EXCEPT !.at = step]
        PROVE  Same(r, i) /\ r.at = step
    BY <2>1 DEF Record, Same
  <2> QED BY <1>2, <2>1
<1> HIDE DEF q
<1> QED BY <1>1, <1>3, Goes

\* The next user of a backfill, if there is one.
LEMMA NextUserIs ==
  ASSUME NEW q, Record(q)
  PROVE  LET n == NextUser(q) IN
         \/ q.todo = {} /\ Rests(n)
         \/ /\ n.op = q.op /\ n.at = "createHousehold" /\ n.user \in q.todo
            /\ n.todo = q.todo \ {n.user} /\ n.home = 0
            /\ n.household = q.household /\ n.doc = q.doc /\ n.invitation = q.invitation
<1>1. CASE q.todo = {}
  BY <1>1, IdleRests DEF NextUser
<1>2. CASE q.todo # {}
  <2> DEFINE u == CHOOSE v \in q.todo : TRUE
  <2>1. u \in q.todo
    BY <1>2
  <2>2. NextUser(q) = [q EXCEPT !.user = u, !.todo = q.todo \ {u},
                                !.at = "createHousehold", !.home = 0]
    BY <1>2 DEF NextUser
  <2> HIDE DEF u
  <2>3. ASSUME NEW n, n = [q EXCEPT !.user = u, !.todo = q.todo \ {u},
                                    !.at = "createHousehold", !.home = 0]
        PROVE  /\ n.op = q.op /\ n.at = "createHousehold" /\ n.user = u
               /\ n.todo = q.todo \ {u} /\ n.home = 0
               /\ n.household = q.household /\ n.doc = q.doc /\ n.invitation = q.invitation
    BY <2>3 DEF Record
  <2> QED BY <2>1, <2>2, <2>3
<1> QED BY <1>1, <1>2

LEMMA RowOfIs ==
  ASSUME NEW u, HasActive(u)
  PROVE  RowOf(u) \in members /\ RowOf(u).user = u
BY DEF HasActive, RowOf

\* Whatever two handlers are about after a step is disturbed by then.
LEMMA SharedKept ==
  ASSUME Overlaps
  PROVE  Shared' /\ disturbed \subseteq disturbed'
<1>1. disturbed' = disturbed \cup Overlapping(request')
  BY DEF Overlaps
<1>2. ASSUME NEW p \in Handlers, NEW r \in Handlers \ {p},
             NEW x \in Subjects(request'[p]) \cap Subjects(request'[r])
      PROVE  x \in Overlapping(request')
  BY <1>2 DEF Overlapping
<1>3. Shared'
  BY <1>1, <1>2 DEF Shared, Handlers, Subjects
<1> QED BY <1>1, <1>3

\* A handler at rest relies on nothing.
LEMMA RestsFit ==
  ASSUME NEW p \in Handlers, Rests(request'[p])
  PROVE  Fits(p, request[p])'
BY DEF Rests, Fits, FitsInvite, FitsAccept, FitsRemove, FitsRegister, FitsDelete,
   FitsBackfill, FitsCreation, Creating, HomeSteps, Listing

\* A step that writes no document.
LEMMA QuietStep ==
  ASSUME HomeInv, AdminInv', Overlaps, NEW p \in Handlers,
         \A r \in Handlers \ {p} : request'[r] = request[r],
         UNCHANGED <<account, households, members, invitations>>,
         failures' \in 0 .. MaxFailures, failures <= failures',
         Fits(p, request[p])', Hears(p), Quits(p), Cares(p)
  PROVE  HomeInv'
<1>1. Shared' /\ disturbed \subseteq disturbed'
  BY SharedKept
<1>2. Touches(p)
  <2>1. \A i \in DOMAIN invitations : Closes(p, i)
    BY DEF Closes
  <2> QED BY <2>1, BoundsAssumption DEF Touches
<1>3. Stored' /\ Keys'
  BY DEF HomeInv, Stored, Keys
<1> QED BY <1>1, <1>2, <1>3, StepKeeps DEF Moves

\* Going on so with the same household, home and invitation.
LEMMA QuietGoesOn ==
  ASSUME HomeInv, AdminInv', Overlaps, NEW p \in Handlers,
         \A r \in Handlers \ {p} : request'[r] = request[r],
         UNCHANGED <<account, households, members, invitations, failures>>,
         request'[p].household = request[p].household,
         request'[p].home = request[p].home,
         request'[p].invitation = request[p].invitation,
         request'[p].at \in HomeSteps => request[p].at \in HomeSteps,
         \A u \in Users : Provides(p, u) => Provides(p, u)' \/ HasActive(u),
         Visits(p, Root) => Visits(p, Root)' \/ HasActive(Root),
         UNCHANGED <<members, invitations>>,
         Fits(p, request[p])'
  PROVE  HomeInv'
<1>1. failures' \in 0 .. MaxFailures /\ failures <= failures'
  BY BoundsAssumption DEF HomeInv, Stored
<1>2. Hears(p) /\ Quits(p)
  BY DEF Hears, Quits
<1>3. Cares(p)
  BY DEF Cares, HasActive
<1> QED BY <1>1, <1>2, <1>3, QuietStep

\* Ending so: nobody was to be given a home, and the invitation let nobody in.
LEMMA QuietEnds ==
  ASSUME HomeInv, AdminInv', Overlaps, NEW p \in Handlers, Finish(p),
         UNCHANGED <<account, households, members, invitations, failures>>,
         \A u \in Users : ~Provides(p, u) \/ HasActive(u),
         ~Visits(p, Root) \/ HasActive(Root), Quits(p)
  PROVE  HomeInv'
<1>1. Rests(request'[p]) /\ \A r \in Handlers \ {p} : request'[r] = request[r]
  BY EndsResting DEF HomeInv
<1>2. Fits(p, request[p])'
  BY <1>1, RestsFit
<1>3. failures' \in 0 .. MaxFailures /\ failures <= failures'
  BY BoundsAssumption DEF HomeInv, Stored
<1>4. Hears(p)
  BY <1>1 DEF Hears, Rests, HomeSteps
<1>5. Cares(p)
  BY DEF Cares, HasActive
<1> QED BY <1>1, <1>2, <1>3, <1>4, <1>5, QuietStep


-----------------------------------------------------------------------------
(* Invitations.                                                            *)

\* A request that begins is about one user and a household somebody has told it.
LEMMA Begins ==
  ASSUME HomeInv, AdminInv', Overlaps, NEW p \in Handlers, request[p] = Idle,
         NEW q, request' = [request EXCEPT ![p] = q],
         UNCHANGED <<account, households, members, invitations, failures>>,
         q.at \notin HomeSteps,
         \/ q.household = 0
         \/ \E m \in members : q.household = m.household
         \/ \E i \in DOMAIN invitations : q.household = invitations[i].household,
         Fits(p, request[p])'
  PROVE  HomeInv'
<1>1. request'[p] = q /\ \A r \in Handlers \ {p} : request'[r] = request[r]
  BY Goes DEF HomeInv
<1>2. failures' \in 0 .. MaxFailures /\ failures <= failures'
  BY BoundsAssumption DEF HomeInv, Stored
<1>3. Hears(p)
  BY <1>1 DEF Hears
<1>4. Rests(request[p])
  BY IdleRests
<1>5. Quits(p) /\ Cares(p)
  BY <1>4 DEF Rests, Quits, Cares, Provides, Visits, HasActive
<1> QED BY <1>1, <1>2, <1>3, <1>5, QuietStep

LEMMA BeginInviteKeeps ==
  ASSUME HomeInv, AdminInv', Overlaps, NEW p \in Requests, NEW u \in Users, NEW v \in Users,
         BeginInvite(p, u, v)
  PROVE  HomeInv'
<1> DEFINE h == RowOf(u).household
           q == [Idle EXCEPT !.op = "invite", !.at = "check", !.user = v, !.household = h]
<1>1. p \in Handlers /\ request[p] = Idle /\ request' = [request EXCEPT ![p] = q]
      /\ UNCHANGED <<account, households, members, invitations, failures>>
  BY DEF BeginInvite, Handlers, Becomes
<1>2. RowOf(u) \in members
  BY RowOfIs DEF BeginInvite, Guarded
<1>3. Named(h)
  BY <1>2 DEF HomeInv, Placed
<1> HIDE DEF h
<1>4. /\ q.op = "invite" /\ q.at = "check" /\ q.user = v /\ q.household = h
      /\ q.invitation = 0
  BY DEF Idle
<1> HIDE DEF q
<1>5. request'[p] = q
  BY <1>1, Goes DEF HomeInv
<1>6. Fits(p, request[p])'
  BY <1>1, <1>3, <1>4, <1>5 DEF Fits, FitsInvite, FitsAccept, FitsRemove, FitsRegister,
     FitsDelete, FitsBackfill, FitsCreation, Creating, HomeSteps, Named
<1>7. \E m \in members : q.household = m.household
  BY <1>2, <1>4 DEF h
<1> QED BY <1>1, <1>4, <1>6, <1>7, Begins DEF HomeSteps

LEMMA CheckInviteeKeeps ==
  ASSUME HomeInv, AdminInv', Overlaps, NEW p \in Handlers, CheckInvitee(p)
  PROVE  HomeInv'
<1> DEFINE old == request[p]
           q == request'[p]
<1>1. old.op = "invite" /\ old.at = "check" /\ Fits(p, old)
      /\ UNCHANGED <<account, households, members, invitations, failures>>
  BY DEF CheckInvitee, At, HomeInv, AllFit
<1>2. \A u : ~Provides(p, u) /\ ~Visits(p, u)
  BY <1>1 DEF Provides, Visits
<1>3. CASE Finish(p)
  BY <1>1, <1>2, <1>3, QuietEnds DEF Quits
<1>4. CASE ~Finish(p)
  <2>1. /\ ~\E m \in members : m.user = old.user /\ m.household = old.household
                              /\ account[old.user] = "live"
        /\ GoTo(p, "supersede")
    BY <1>4 DEF CheckInvitee
  <2>2. Same(q, old) /\ q.at = "supersede" /\ \A r \in Handlers \ {p} : request'[r] = request[r]
    BY <2>1, GoesOn DEF HomeInv
  <2>3. ~Guest(old.household, old.user) \/ old.user \in disturbed
    BY <2>1 DEF Guest, HomeInv, NoOrphans
  <2>4. disturbed \subseteq disturbed'
    BY SharedKept
  <2>5. Fits(p, request[p])'
    BY <1>1, <2>2, <2>3, <2>4 DEF Same, Fits, FitsInvite, FitsAccept, FitsRemove, FitsRegister,
       FitsDelete, FitsBackfill, FitsCreation, Creating, HomeSteps, Guest, Named
  <2> QED BY <1>1, <1>2, <2>2, <2>5, QuietGoesOn DEF Same, HomeSteps
<1> QED BY <1>3, <1>4

\* Invitations are changed in their places.
LEMMA InvitationsKept ==
  ASSUME NEW s \in Seq(Invitation), NEW t, DOMAIN t = DOMAIN s, t = [i \in DOMAIN t |-> t[i]],
         \A i \in DOMAIN s : t[i] \in Invitation
  PROVE  t \in Seq(Invitation)
<1>1. DOMAIN s = 1 .. Len(s) /\ Len(s) \in Nat
  OBVIOUS
<1>2. t \in [1 .. Len(s) -> Invitation]
  BY <1>1
<1> QED BY <1>1, <1>2, SeqDef

LEMMA SupersedeKeeps ==
  ASSUME HomeInv, AdminInv', Overlaps, NEW p \in Handlers, Supersede(p)
  PROVE  HomeInv'
<1> DEFINE old == request[p]
           q == request'[p]
<1>1. old.op = "invite" /\ old.at = "supersede" /\ Fits(p, old)
      /\ UNCHANGED <<account, households, members, failures>>
      /\ invitations' = Superseded(old.household, old.user) /\ GoTo(p, "insert")
  BY DEF Supersede, At, HomeInv, AllFit
<1>2. Same(q, old) /\ q.at = "insert" /\ \A r \in Handlers \ {p} : request'[r] = request[r]
  BY <1>1, GoesOn DEF HomeInv
<1>3. Shared' /\ disturbed \subseteq disturbed'
  BY SharedKept
<1>4. invitations \in Seq(Invitation)
  BY DEF HomeInv, Stored
<1>5. /\ DOMAIN invitations' = DOMAIN invitations
      /\ \A i \in DOMAIN invitations :
           /\ invitations'[i].household = invitations[i].household
           /\ invitations'[i].user = invitations[i].user
           /\ invitations'[i].expired = invitations[i].expired
           /\ \/ invitations'[i].status = invitations[i].status
              \/ invitations'[i].status = "revoked" /\ invitations[i].user = old.user
           /\ ~(/\ invitations'[i].status = "pending"
                /\ invitations'[i].household = old.household
                /\ invitations'[i].user = old.user)
      /\ invitations' \in Seq(Invitation)
  <2> DEFINE open(i) == /\ invitations[i].household = old.household
                        /\ invitations[i].user = old.user
                        /\ invitations[i].status = "pending"
  <2>1. invitations' = [i \in DOMAIN invitations |->
                          IF open(i) THEN [invitations[i] EXCEPT !.status = "revoked"]
                          ELSE invitations[i]]
    BY <1>1 DEF Superseded
  <2>2. ASSUME NEW i \in DOMAIN invitations
        PROVE  /\ invitations'[i] \in Invitation
               /\ invitations'[i].household = invitations[i].household
               /\ invitations'[i].user = invitations[i].user
               /\ invitations'[i].expired = invitations[i].expired
               /\ invitations'[i].status = IF open(i) THEN "revoked" ELSE invitations[i].status
    <3>1. invitations[i] \in Invitation
      BY <1>4
    <3>2. CASE open(i)
      <4>1. invitations'[i] = [invitations[i] EXCEPT !.status = "revoked"]
        BY <2>1, <3>2
      <4> QED BY <3>1, <3>2, <4>1 DEF Invitation
    <3>3. CASE ~open(i)
      <4>1. invitations'[i] = invitations[i]
        BY <2>1, <3>3
      <4> QED BY <3>1, <3>3, <4>1
    <3> QED BY <3>2, <3>3
  <2>3. invitations' \in Seq(Invitation)
    BY <1>4, <2>1, <2>2, InvitationsKept
  <2> QED BY <2>1, <2>2, <2>3
<1>6. Touches(p)
  BY <1>1, <1>5, BoundsAssumption DEF Touches, Closes, HomeInv, Stored
<1>7. Stored' /\ Keys'
  BY <1>1, <1>5 DEF HomeInv, Stored, Keys
<1>8. Fits(p, request[p])'
  <2>1. ~\E i \in DOMAIN invitations' :
           /\ invitations'[i].status = "pending"
           /\ invitations'[i].household = old.household /\ invitations'[i].user = old.user
    BY <1>5
  <2> QED BY <1>1, <1>2, <1>3, <2>1 DEF Same, Fits, FitsInvite, FitsAccept, FitsRemove,
          FitsRegister, FitsDelete, FitsBackfill, FitsCreation, Creating, HomeSteps, Guest,
          Pending, Named
<1>9. Hears(p) /\ Quits(p) /\ Cares(p)
  BY <1>1, <1>2 DEF Hears, Quits, Cares, Same, HomeSteps, Provides, Visits, HasActive
<1> QED BY <1>2, <1>3, <1>6, <1>7, <1>8, <1>9, StepKeeps DEF Moves

LEMMA InsertInvitationKeeps ==
  ASSUME HomeInv, AdminInv', Overlaps, NEW p \in Handlers, InsertInvitation(p)
  PROVE  HomeInv'
<1> DEFINE old == request[p]
           new == [household |-> old.household, user |-> old.user, status |-> "pending",
                   expired |-> FALSE]
<1>1. old.op = "invite" /\ old.at = "insert" /\ Fits(p, old)
      /\ UNCHANGED <<account, households, members, failures>>
      /\ invitations' = Append(invitations, new) /\ Finish(p)
  BY DEF InsertInvitation, At, HomeInv, AllFit
<1>2. Rests(request'[p]) /\ \A r \in Handlers \ {p} : request'[r] = request[r]
  BY <1>1, EndsResting DEF HomeInv
<1>3. Shared' /\ disturbed \subseteq disturbed'
  BY SharedKept
<1>4. invitations \in Seq(Invitation) /\ new \in Invitation
  BY <1>1 DEF HomeInv, Stored, Fits, FitsInvite, Invitation, Named
<1>5. /\ invitations' \in Seq(Invitation)
      /\ DOMAIN invitations' = DOMAIN invitations \cup {Len(invitations) + 1}
      /\ \A i \in DOMAIN invitations : invitations'[i] = invitations[i]
      /\ invitations'[Len(invitations) + 1].household = old.household
      /\ invitations'[Len(invitations) + 1].user = old.user
  BY <1>1, <1>4
<1>6. Touches(p)
  BY <1>1, <1>5, BoundsAssumption DEF Touches, Closes, Sends, HomeInv, Stored
<1>7. Stored' /\ Keys'
  BY <1>1, <1>5 DEF HomeInv, Stored, Keys
<1>8. Fits(p, request[p])'
  BY <1>2, RestsFit
<1>9. Hears(p) /\ Quits(p) /\ Cares(p)
  BY <1>1, <1>2 DEF Hears, Quits, Cares, Rests, HomeSteps, Provides, Visits, HasActive
<1> QED BY <1>2, <1>3, <1>6, <1>7, <1>8, <1>9, StepKeeps DEF Moves

\* 72 hours pass for an invitation: nobody relies on its being valid still.
LEMMA ExpireKeeps ==
  ASSUME HomeInv, AdminInv', Overlaps, NEW i, Expire(i)
  PROVE  HomeInv'
<1>1. /\ i \in DOMAIN invitations /\ invitations[i].status = "pending"
      /\ invitations' = [invitations EXCEPT ![i].expired = TRUE]
      /\ UNCHANGED <<account, households, members, request, failures>>
  BY DEF Expire
<1>2. Shared' /\ disturbed \subseteq disturbed'
  BY SharedKept
<1>3. invitations \in Seq(Invitation)
  BY DEF HomeInv, Stored
<1>4. /\ invitations' \in Seq(Invitation)
      /\ DOMAIN invitations' = DOMAIN invitations
      /\ \A j \in DOMAIN invitations :
           /\ invitations'[j].household = invitations[j].household
           /\ invitations'[j].user = invitations[j].user
           /\ invitations'[j].status = invitations[j].status
           /\ invitations[j].expired => invitations'[j].expired
  <2>1. DOMAIN invitations' = DOMAIN invitations
        /\ invitations' = [j \in DOMAIN invitations' |-> invitations'[j]]
    BY <1>1, <1>3
  <2>2. ASSUME NEW j \in DOMAIN invitations
        PROVE  /\ invitations'[j] \in Invitation
               /\ invitations'[j].household = invitations[j].household
               /\ invitations'[j].user = invitations[j].user
               /\ invitations'[j].status = invitations[j].status
               /\ invitations[j].expired => invitations'[j].expired
    <3>1. invitations[j] \in Invitation
      BY <1>3
    <3>2. CASE j = i
      <4>1. invitations'[j] = [invitations[j] EXCEPT !.expired = TRUE]
        BY <1>1, <1>3, <3>2
      <4> QED BY <3>1, <4>1 DEF Invitation
    <3>3. CASE j # i
      <4>1. invitations'[j] = invitations[j]
        BY <1>1, <1>3, <3>3
      <4> QED BY <3>1, <4>1
    <3> QED BY <3>2, <3>3
  <2>3. invitations' \in Seq(Invitation)
    BY <1>3, <2>1, <2>2, InvitationsKept
  <2> QED BY <2>1, <2>2, <2>3
<1>5. Stored' /\ Keys' /\ Placed' /\ NoOrphans'
  BY <1>1, <1>2, <1>4 DEF HomeInv, Stored, Keys, Placed, NoOrphans, Named
<1>6. AllFit'
  <2> SUFFICES ASSUME NEW p \in Handlers
               PROVE  Fits(p, request[p])'
    BY DEF AllFit, Handlers
  <2>1. Fits(p, request[p])
    BY DEF HomeInv, AllFit
  <2>2. FitsInvite(request[p])'
    BY <1>1, <1>2, <1>4, <2>1 DEF Fits, FitsInvite, Named, Guest, Pending
  <2>3. FitsAccept(request[p])'
    BY <1>1, <1>2, <1>4, <2>1 DEF Fits, FitsAccept, Named, Guest, Live, Identifies, Others
  <2>4. FitsRemove(request[p])' /\ FitsRegister(request[p])' /\ FitsDelete(request[p])'
        /\ FitsBackfill(request[p])' /\ FitsCreation(request[p])'
    BY <1>1, <1>2, <2>1 DEF Fits, FitsRemove, FitsRegister, FitsDelete, FitsBackfill,
       FitsCreation, Live, Identifies, HasActive
  <2> QED BY <1>1, <2>1, <2>2, <2>3, <2>4 DEF Fits
<1>7. Apart'
  BY <1>1, <1>4 DEF HomeInv, Apart, ApartFrom
<1>8. Provided'
  BY <1>1 DEF HomeInv, Provided, HasActive, Provides, Visits
<1>9. InvitedOnly' /\ NewestOnly' /\ SpentOnce'
  BY <1>1, <1>2, <1>4 DEF HomeInv, InvitedOnly, NewestOnly, SpentOnce, Redeemable
<1> QED BY <1>2, <1>5, <1>6, <1>7, <1>8, <1>9 DEF HomeInv


-----------------------------------------------------------------------------
(* Acceptance.                                                             *)

LEMMA BeginAcceptKeeps ==
  ASSUME HomeInv, AdminInv', Overlaps, NEW p \in Requests, NEW u \in Users,
         NEW i \in DOMAIN invitations, BeginAccept(p, u, i)
  PROVE  HomeInv'
<1> DEFINE h == invitations[i].household
           q == [Idle EXCEPT !.op = "accept", !.at = "lookup", !.user = u,
                             !.household = h, !.invitation = i]
<1>1. p \in Handlers /\ request[p] = Idle /\ request' = [request EXCEPT ![p] = q]
      /\ UNCHANGED <<account, households, members, invitations, failures>>
  BY DEF BeginAccept, Handlers, Becomes
<1>2. account[u] = "live" /\ invitations[i].status = "pending" /\ invitations[i].user = u
  BY DEF BeginAccept, Redeemable
<1>3. Named(h)
  BY DEF HomeInv, Placed
<1>4. ASSUME NEW k, k = h, NEW r, r = [Idle EXCEPT !.op = "accept", !.at = "lookup", !.user = u,
                             !.household = k, !.invitation = i]
      PROVE  /\ r.op = "accept" /\ r.at = "lookup" /\ r.user = u /\ r.household = k
             /\ r.invitation = i
  BY <1>4 DEF Idle
<1>5. /\ q.op = "accept" /\ q.at = "lookup" /\ q.user = u /\ q.household = h
      /\ q.invitation = i
  BY <1>4
<1> HIDE DEF q
<1>6. request'[p] = q
  BY <1>1, Goes DEF HomeInv
<1>7. Fits(p, request[p])'
  BY <1>1, <1>2, <1>3, <1>5, <1>6 DEF Fits, FitsInvite, FitsAccept, FitsRemove, FitsRegister,
     FitsDelete, FitsBackfill, FitsCreation, Creating, HomeSteps, Named, Live
<1>8. \E j \in DOMAIN invitations : q.household = invitations[j].household
  BY <1>5
<1> QED BY <1>1, <1>5, <1>7, <1>8, Begins DEF HomeSteps

LEMMA LookUpMembershipKeeps ==
  ASSUME HomeInv, AdminInv', Overlaps, NEW p \in Handlers, LookUpMembership(p)
  PROVE  HomeInv'
<1> DEFINE old == request[p]
           q == request'[p]
           there == HasActive(old.user) /\ RowOf(old.user).household = old.household
<1>1. old.op = "accept" /\ old.at = "lookup" /\ Fits(p, old)
      /\ UNCHANGED <<account, households, members, invitations, failures>>
      /\ GoTo(p, IF there THEN "mark" ELSE "active")
  BY DEF LookUpMembership, At, HomeInv, AllFit
<1>2. Same(q, old) /\ q.at = (IF there THEN "mark" ELSE "active")
      /\ \A r \in Handlers \ {p} : request'[r] = request[r]
  BY <1>1, GoesOn DEF HomeInv
<1>3. \A u : ~Provides(p, u) /\ ~Visits(p, u)
  BY <1>1 DEF Provides, Visits
<1>4. ~there => \A m \in members : m.user = old.user => m.household # old.household
  BY RowOfIs DEF HasActive, HomeInv, Keys
<1>5. disturbed \subseteq disturbed'
  BY SharedKept
<1>6. q.at \in {"mark", "active"}
      /\ (q.at = "active" => \A m \in members : m.user = old.user => m.household # old.household)
  BY <1>2, <1>4
<1>7. FitsAccept(request[p])'
  BY <1>1, <1>2, <1>5, <1>6 DEF Same, Fits, FitsAccept, Guest, Named, Live
<1>8. Fits(p, request[p])'
  BY <1>1, <1>2, <1>6, <1>7 DEF Same, Fits, FitsInvite, FitsRemove, FitsRegister,
     FitsDelete, FitsBackfill, FitsCreation, Creating, HomeSteps
<1> QED BY <1>1, <1>2, <1>3, <1>6, <1>8, QuietGoesOn DEF Same, HomeSteps

\* A row read now is the one with its id.
LEMMA ReadsIdentified ==
  ASSUME HomeInv, NEW q, q.doc \in members, q.doc.user = q.user
  PROVE  Identifies(q)
BY DEF HomeInv, Keys, Stored, Identifies

LEMMA FindActiveKeeps ==
  ASSUME HomeInv, AdminInv', Overlaps, NEW p \in Handlers, FindActive(p)
  PROVE  HomeInv'
<1> DEFINE old == request[p]
           q == request'[p]
           row == RowOf(old.user)
<1>1. old.op = "accept" /\ old.at = "active" /\ Fits(p, old) /\ Record(old)
      /\ UNCHANGED <<account, households, members, invitations, failures>>
  BY DEF FindActive, At, HomeInv, AllFit, AdminInv, Shapes
<1>2. disturbed \subseteq disturbed'
  BY SharedKept
<1>3. \A u : ~Provides(p, u) /\ ~Visits(p, u)
  BY <1>1 DEF Provides, Visits
<1>4. CASE ~HasActive(old.user)
  <2>1. GoTo(p, "join")
    BY <1>4 DEF FindActive, GoTo
  <2>2. Same(q, old) /\ q.at = "join" /\ \A r \in Handlers \ {p} : request'[r] = request[r]
    BY <2>1, GoesOn DEF HomeInv
  <2>3. FitsAccept(request[p])'
    BY <1>1, <1>2, <2>2 DEF Same, Fits, FitsAccept, Guest, Named, Live
  <2>4. Fits(p, request[p])'
    BY <1>1, <2>2, <2>3 DEF Same, Fits, FitsInvite, FitsRemove, FitsRegister,
       FitsDelete, FitsBackfill, FitsCreation, Creating, HomeSteps
  <2> QED BY <1>1, <1>3, <2>2, <2>4, QuietGoesOn DEF Same, HomeSteps
<1>5. CASE HasActive(old.user)
  <2> DEFINE step == IF row.role = "owner" THEN "count" ELSE "switch"
             n == [old EXCEPT !.doc = row, !.at = step]
  <2>1. row \in members /\ row.user = old.user
    BY <1>5, RowOfIs
  <2>2. request' = [request EXCEPT ![p] = n]
    BY <1>5 DEF FindActive, Becomes
  <2> HIDE DEF row
  <2>3. step \in {"count", "switch"} /\ (step = "switch" => row.role # "owner")
    OBVIOUS
  <2> HIDE DEF step
  <2>4. /\ n.op = old.op /\ n.at = step /\ n.user = old.user /\ n.household = old.household
        /\ n.doc = row /\ n.invitation = old.invitation /\ n.home = old.home
    <3>1. ASSUME NEW o, Record(o), NEW r, r = [o EXCEPT !.doc = row, !.at = step]
          PROVE  /\ r.op = o.op /\ r.at = step /\ r.user = o.user /\ r.household = o.household
                 /\ r.doc = row /\ r.invitation = o.invitation /\ r.home = o.home
      BY <3>1 DEF Record
    <3> QED BY <1>1, <3>1
  <2> HIDE DEF n
  <2>5. q = n /\ \A r \in Handlers \ {p} : request'[r] = request[r]
    BY <2>2, Goes DEF HomeInv
  <2>6. Identifies(n)
    BY <1>1, <2>1, <2>4, ReadsIdentified
  <2>7. FitsAccept(request[p])'
    BY <1>1, <1>2, <2>3, <2>4, <2>5, <2>6 DEF Fits, FitsAccept, Guest, Named, Live, Identifies
  <2>8. Fits(p, request[p])'
    BY <1>1, <2>3, <2>4, <2>5, <2>7 DEF Fits, FitsInvite, FitsRemove, FitsRegister,
       FitsDelete, FitsBackfill, FitsCreation, Creating, HomeSteps
  <2> QED BY <1>1, <1>3, <2>3, <2>4, <2>5, <2>8, QuietGoesOn DEF HomeSteps
<1> QED BY <1>4, <1>5

LEMMA CountOthersKeeps ==
  ASSUME HomeInv, AdminInv', Overlaps, NEW p \in Handlers, CountOthers(p)
  PROVE  HomeInv'
<1> DEFINE old == request[p]
           q == request'[p]
<1>1. old.op = "accept" /\ old.at = "count" /\ Fits(p, old)
      /\ UNCHANGED <<account, households, members, invitations, failures>>
  BY DEF CountOthers, At, HomeInv, AllFit
<1>2. disturbed \subseteq disturbed'
  BY SharedKept
<1>3. \A u : ~Provides(p, u) /\ ~Visits(p, u)
  BY <1>1 DEF Provides, Visits
<1>4. CASE Finish(p)
  <2>1. Quits(p)
    BY <1>1 DEF Quits, Fits, FitsAccept, Guest
  <2> QED BY <1>1, <1>3, <1>4, <2>1, QuietEnds
<1>5. CASE ~Finish(p)
  <2>1. Others(old) = {} /\ GoTo(p, "switch")
    BY <1>5 DEF CountOthers
  <2>2. Same(q, old) /\ q.at = "switch" /\ \A r \in Handlers \ {p} : request'[r] = request[r]
    BY <2>1, GoesOn DEF HomeInv
  <2>3. FitsAccept(request[p])'
    BY <1>1, <1>2, <2>1, <2>2 DEF Same, Fits, FitsAccept, Guest, Named, Live, Identifies, Others
  <2>4. Fits(p, request[p])'
    BY <1>1, <2>2, <2>3 DEF Same, Fits, FitsInvite, FitsRemove, FitsRegister,
       FitsDelete, FitsBackfill, FitsCreation, Creating, HomeSteps
  <2> QED BY <1>1, <1>3, <2>2, <2>4, QuietGoesOn DEF Same, HomeSteps
<1> QED BY <1>4, <1>5


-----------------------------------------------------------------------------
(* Rows.                                                                   *)

\* One row a user: there are no more rows than users.
LEMMA FiniteMembers ==
  ASSUME Stored, Keys
  PROVE  IsFiniteSet(members)
<1> DEFINE f == [m \in members |-> m.user]
<1>1. f \in Injection(members, Users)
  BY DEF Stored, Keys, Row, Injection, IsInjective
<1> HIDE DEF f
<1> QED BY <1>1, FS_Injection, BoundsAssumption

\* Among so many numbers and one more there is one that is not held.
LEMMA NotHeld ==
  ASSUME NEW S, IsFiniteSet(S)
  PROVE  \E i \in 1 .. Cardinality(S) + 1 : i \notin S
<1> DEFINE n == Cardinality(S) + 1
<1>1. Cardinality(S) \in Nat
  BY FS_CardinalityType
<1>2. Cardinality(1 .. n) = n
  BY <1>1, FS_Interval
<1>3. ASSUME 1 .. n \subseteq S
      PROVE  FALSE
  <2>1. Cardinality(1 .. n) <= Cardinality(S)
    BY <1>3, FS_Subset
  <2> QED BY <1>1, <1>2, <2>1
<1> QED BY <1>3

LEMMA NewRowIdIsFresh ==
  ASSUME HomeInv
  PROVE  /\ NewRowId \in Nat
         /\ \A m \in members : m.id # NewRowId
         /\ \A p \in Handlers : request[p].doc.id # NewRowId
<1> DEFINE A == {m.id : m \in members}
           B == {request[p].doc.id : p \in Handlers}
           held == A \cup B
<1>1. IsFiniteSet(A)
  <2> DEFINE f == [m \in members |-> m.id]
  <2>1. f \in Surjection(members, A)
    BY DEF Surjection
  <2> HIDE DEF f, A
  <2> QED BY <2>1, FS_Surjection, FiniteMembers DEF HomeInv
<1>2. IsFiniteSet(B)
  <2> DEFINE f == [p \in Handlers |-> request[p].doc.id]
  <2>1. f \in Surjection(Handlers, B)
    BY DEF Surjection
  <2> HIDE DEF f, B
  <2> QED BY <2>1, FS_Surjection, BoundsAssumption
<1>3. IsFiniteSet(held)
  <2> HIDE DEF A, B
  <2> QED BY <1>1, <1>2, FS_Union
<1>4. NewRowId = CHOOSE i \in 1 .. Cardinality(held) + 1 : i \notin held
  BY DEF NewRowId
<1>5. NewRowId \in 1 .. Cardinality(held) + 1 /\ NewRowId \notin held
  <2> HIDE DEF held
  <2> QED BY <1>3, <1>4, NotHeld
<1> QED BY <1>5

\* A row is only ever added for a user that has none (the unique index).
LEMMA InsertedIs ==
  ASSUME HomeInv, NEW u \in Users, NEW h \in Households, NEW role \in {"owner", "member"},
         ~HasActive(u), members' = Inserted(u, h, role)
  PROVE  \E m \in Row :
           /\ members' = members \cup {m} /\ m \notin members
           /\ m.user = u /\ m.household = h /\ m.role = role
           /\ \A r \in Handlers : request[r].doc.id # m.id
           /\ Keys'
<1> DEFINE m == [id |-> NewRowId, user |-> u, household |-> h, role |-> role]
<1>1. m \in Row /\ m.id = NewRowId
  BY NewRowIdIsFresh DEF Row
<1>2. members' = members \cup {m}
  BY DEF Inserted
<1>3. m.user = u /\ m.household = h /\ m.role = role
  OBVIOUS
<1> HIDE DEF m
<1>4. \A n \in members : n.id # m.id /\ n.user # m.user
  BY <1>1, <1>3, NewRowIdIsFresh DEF HasActive
<1>5. Keys'
  BY <1>2, <1>4 DEF HomeInv, Keys
<1> QED BY <1>1, <1>2, <1>3, <1>4, <1>5, NewRowIdIsFresh

LEMMA JoinKeeps ==
  ASSUME HomeInv, AdminInv', Overlaps, NEW p \in Handlers, Join(p)
  PROVE  HomeInv'
<1> DEFINE old == request[p]
           q == request'[p]
<1>1. old.op = "accept" /\ old.at = "join" /\ Fits(p, old)
      /\ UNCHANGED <<account, households, invitations, failures>>
  BY DEF Join, At, HomeInv, AllFit
<1>2. Shared' /\ disturbed \subseteq disturbed'
  BY SharedKept
<1>3. \A u : ~Provides(p, u) /\ ~Visits(p, u)
  BY <1>1 DEF Provides, Visits
<1>4. CASE HasActive(old.user)
  <2>1. Finish(p) /\ UNCHANGED members
    BY <1>4 DEF Join
  <2>2. Quits(p)
    BY <1>1, <2>1 DEF Quits, Fits, FitsAccept, Guest
  <2> QED BY <1>1, <1>3, <2>1, <2>2, QuietEnds
<1>5. CASE ~HasActive(old.user)
  <2>1. members' = Inserted(old.user, old.household, "member") /\ GoTo(p, "mark")
    BY <1>5 DEF Join
  <2>2. Same(q, old) /\ q.at = "mark" /\ \A r \in Handlers \ {p} : request'[r] = request[r]
    BY <2>1, GoesOn DEF HomeInv
  <2>3. old.user \in Users /\ old.household \in Households /\ Live(old.user)
    BY <1>1 DEF Fits, FitsAccept, Named
  <2>4. PICK m \in Row :
           /\ members' = members \cup {m} /\ m \notin members
           /\ m.user = old.user /\ m.household = old.household /\ m.role = "member"
           /\ \A r \in Handlers : request[r].doc.id # m.id
           /\ Keys'
    BY <1>5, <2>1, <2>3, InsertedIs
  <2>5. \A n \in members' \ members : Adds(p, n)
    BY <1>1, <2>2, <2>3, <2>4 DEF Adds, Same
  <2>6. Touches(p)
    BY <1>1, <2>5, BoundsAssumption DEF Touches, Closes, HomeInv, Stored
  <2>7. Stored'
    BY <1>1, <2>4 DEF HomeInv, Stored
  <2>8. Fits(p, request[p])'
    BY <1>1, <1>2, <2>2 DEF Same, Fits, FitsInvite, FitsAccept, FitsRemove, FitsRegister,
       FitsDelete, FitsBackfill, FitsCreation, Creating, HomeSteps, Named, Live
  <2>9. Hears(p) /\ Quits(p)
    BY <2>2 DEF Hears, Quits, Same, HomeSteps
  <2>10. Cares(p)
    BY <1>1, <1>3, <2>4 DEF Cares, HasActive
  <2> QED BY <1>2, <2>2, <2>4, <2>6, <2>7, <2>8, <2>9, <2>10, StepKeeps DEF Moves
<1> QED BY <1>4, <1>5

\* save() writes the row it has read, of the same user, or none.
LEMMA SaveSwitchKeeps ==
  ASSUME HomeInv, AdminInv', Overlaps, NEW p \in Handlers, SaveSwitch(p)
  PROVE  HomeInv'
<1> DEFINE old == request[p]
           q == request'[p]
<1>1. old.op = "accept" /\ old.at = "switch" /\ Fits(p, old)
      /\ UNCHANGED <<account, households, invitations, failures>>
  BY DEF SaveSwitch, At, HomeInv, AllFit
<1>2. Shared' /\ disturbed \subseteq disturbed'
  BY SharedKept
<1>3. \A u : ~Provides(p, u) /\ ~Visits(p, u)
  BY <1>1 DEF Provides, Visits
<1>4. CASE ~\E m \in members : m.id = old.doc.id
  <2>1. Finish(p) /\ UNCHANGED members
    BY <1>4 DEF SaveSwitch
  <2>2. Quits(p)
    BY <1>1, <2>1 DEF Quits, Fits, FitsAccept, Guest
  <2> QED BY <1>1, <1>3, <2>1, <2>2, QuietEnds
<1>5. CASE \E m \in members : m.id = old.doc.id
  <2> DEFINE n == [old.doc EXCEPT !.household = old.household, !.role = "member"]
  <2>1. members' = {m \in members : m.id # old.doc.id} \cup {n} /\ GoTo(p, "mark")
    BY <1>5 DEF SaveSwitch
  <2>2. Same(q, old) /\ q.at = "mark" /\ \A r \in Handlers \ {p} : request'[r] = request[r]
    BY <2>1, GoesOn DEF HomeInv
  <2>3. old.user \in Users /\ old.household \in Households /\ Live(old.user)
        /\ Identifies(old)
    BY <1>1 DEF Fits, FitsAccept, Named
  <2>4. n \in Row /\ n.id = old.doc.id /\ n.user = old.user /\ n.household = old.household
        /\ n.role = "member"
    BY <2>3 DEF Identifies, Row
  <2> HIDE DEF n
  <2>5. \E o \in members : o.id = n.id /\ o.user = n.user
    BY <1>5, <2>3, <2>4 DEF Identifies
  <2>6. Keys'
    <3>1. \A m \in members : m.id # old.doc.id => m.user # old.user
      BY <2>4, <2>5 DEF HomeInv, Keys
    <3> QED BY <2>1, <2>4, <3>1 DEF HomeInv, Keys
  <2>7. \A m \in members' \ members : Adds(p, m)
    BY <1>1, <2>1, <2>2, <2>3, <2>4, <2>5 DEF Adds, Same
  <2>8. Touches(p)
    BY <1>1, <2>7, BoundsAssumption DEF Touches, Closes, HomeInv, Stored
  <2>9. Stored'
    BY <1>1, <2>1, <2>4 DEF HomeInv, Stored
  <2>10. Fits(p, request[p])'
    BY <1>1, <1>2, <2>2 DEF Same, Fits, FitsInvite, FitsAccept, FitsRemove, FitsRegister,
       FitsDelete, FitsBackfill, FitsCreation, Creating, HomeSteps, Named, Live
  <2>11. Hears(p) /\ Quits(p)
    BY <2>2 DEF Hears, Quits, Same, HomeSteps
  <2>12. Cares(p)
    <3>1. ASSUME NEW u, HasActive(u)
          PROVE  HasActive(u)'
      BY <2>1, <2>3, <2>4, <3>1 DEF HasActive, Identifies
    <3> QED BY <1>1, <1>3, <3>1 DEF Cares
  <2> QED BY <1>2, <2>2, <2>6, <2>8, <2>9, <2>10, <2>11, <2>12, StepKeeps DEF Moves
<1> QED BY <1>4, <1>5

LEMMA MarkAcceptedKeeps ==
  ASSUME HomeInv, AdminInv', Overlaps, NEW p \in Handlers, MarkAccepted(p)
  PROVE  HomeInv'
<1> DEFINE old == request[p]
           i == old.invitation
<1>1. old.op = "accept" /\ old.at = "mark" /\ Fits(p, old)
      /\ UNCHANGED <<account, households, members, failures>>
      /\ invitations' = [invitations EXCEPT ![i].status = "accepted"] /\ Finish(p)
  BY DEF MarkAccepted, At, HomeInv, AllFit
<1>2. Rests(request'[p]) /\ \A r \in Handlers \ {p} : request'[r] = request[r]
  BY <1>1, EndsResting DEF HomeInv
<1>3. Shared' /\ disturbed \subseteq disturbed'
  BY SharedKept
<1>4. invitations \in Seq(Invitation) /\ i \in DOMAIN invitations
      /\ invitations[i].user = old.user
  BY <1>1 DEF HomeInv, Stored, Fits, FitsAccept
<1>5. /\ DOMAIN invitations' = DOMAIN invitations
      /\ \A j \in DOMAIN invitations :
           /\ invitations'[j].household = invitations[j].household
           /\ invitations'[j].user = invitations[j].user
           /\ invitations'[j].expired = invitations[j].expired
           /\ invitations'[j].status = IF j = i THEN "accepted" ELSE invitations[j].status
      /\ invitations' \in Seq(Invitation)
  <2>1. DOMAIN invitations' = DOMAIN invitations
        /\ invitations' = [j \in DOMAIN invitations' |-> invitations'[j]]
    BY <1>1, <1>4
  <2>2. ASSUME NEW j \in DOMAIN invitations
        PROVE  /\ invitations'[j] \in Invitation
               /\ invitations'[j].household = invitations[j].household
               /\ invitations'[j].user = invitations[j].user
               /\ invitations'[j].expired = invitations[j].expired
               /\ invitations'[j].status = IF j = i THEN "accepted" ELSE invitations[j].status
    <3>1. invitations[j] \in Invitation
      BY <1>4
    <3>2. CASE j = i
      <4>1. invitations'[j] = [invitations[j] EXCEPT !.status = "accepted"]
        BY <1>1, <1>4, <3>2
      <4> QED BY <3>1, <3>2, <4>1 DEF Invitation
    <3>3. CASE j # i
      <4>1. invitations'[j] = invitations[j]
        BY <1>1, <1>4, <3>3
      <4> QED BY <3>1, <3>3, <4>1
    <3> QED BY <3>2, <3>3
  <2>3. invitations' \in Seq(Invitation)
    BY <1>4, <2>1, <2>2, InvitationsKept
  <2> QED BY <2>1, <2>2, <2>3
<1>6. Touches(p)
  BY <1>1, <1>4, <1>5, BoundsAssumption DEF Touches, Closes, HomeInv, Stored
<1>7. Stored' /\ Keys'
  BY <1>1, <1>5 DEF HomeInv, Stored, Keys
<1>8. Fits(p, request[p])'
  BY <1>2, RestsFit
<1>9. Hears(p) /\ Cares(p)
  BY <1>1, <1>2 DEF Hears, Cares, Rests, HomeSteps, Provides, Visits, HasActive
<1>10. Quits(p)
  BY <1>4, <1>5 DEF Quits
<1> QED BY <1>2, <1>3, <1>6, <1>7, <1>8, <1>9, <1>10, StepKeeps DEF Moves


-----------------------------------------------------------------------------
(* Removal.                                                                *)

LEMMA BeginRemoveKeeps ==
  ASSUME HomeInv, AdminInv', Overlaps, NEW p \in Requests, NEW u \in Users,
         NEW m \in members, BeginRemove(p, u, m)
  PROVE  HomeInv'
<1> DEFINE h == RowOf(u).household
           v == m.user
           q == [Idle EXCEPT !.op = "remove", !.at = "find", !.doc = m,
                             !.user = v, !.household = h]
<1>1. p \in Handlers /\ request[p] = Idle /\ request' = [request EXCEPT ![p] = q]
      /\ UNCHANGED <<account, households, members, invitations, failures>>
  BY DEF BeginRemove, Handlers, Becomes
<1>2. RowOf(u) \in members
  BY RowOfIs DEF BeginRemove, Guarded
<1>3. v \in Users /\ Live(v)
  BY DEF HomeInv, Stored, Row, NoOrphans, Live
<1>4. \E n \in members : h = n.household
  BY <1>2
<1> HIDE DEF h, v
<1>5. /\ q.op = "remove" /\ q.at = "find" /\ q.doc = m /\ q.user = v /\ q.household = h
      /\ q.invitation = 0
  BY DEF Idle
<1> HIDE DEF q
<1>6. request'[p] = q
  BY <1>1, Goes DEF HomeInv
<1>7. Identifies(q)
  BY <1>5, ReadsIdentified DEF v
<1>8. Fits(p, request[p])'
  BY <1>1, <1>3, <1>5, <1>6, <1>7, SharedKept DEF Fits, FitsInvite, FitsAccept, FitsRemove,
     FitsRegister, FitsDelete, FitsBackfill, FitsCreation, Creating, HomeSteps, Live, Identifies
<1> QED BY <1>1, <1>4, <1>5, <1>8, Begins DEF HomeSteps

LEMMA FindMemberKeeps ==
  ASSUME HomeInv, AdminInv', Overlaps, NEW p \in Handlers, FindMember(p)
  PROVE  HomeInv'
<1> DEFINE old == request[p]
           q == request'[p]
<1>1. old.op = "remove" /\ old.at = "find" /\ Fits(p, old)
      /\ UNCHANGED <<account, households, members, invitations, failures>>
  BY DEF FindMember, At, HomeInv, AllFit
<1>2. disturbed \subseteq disturbed'
  BY SharedKept
<1>3. \A u : ~Provides(p, u) /\ ~Visits(p, u)
  BY <1>1 DEF Provides, Visits
<1>4. CASE Finish(p)
  BY <1>1, <1>3, <1>4, QuietEnds DEF Quits
<1>5. CASE ~Finish(p)
  <2>1. PICK m \in members : m.id = old.doc.id /\ Removable(m, old.household)
    BY <1>5 DEF FindMember
  <2>2. GoTo(p, "delete")
    BY <1>5 DEF FindMember
  <2>3. Same(q, old) /\ q.at = "delete" /\ \A r \in Handlers \ {p} : request'[r] = request[r]
    BY <2>2, GoesOn DEF HomeInv
  <2>4. \A n \in members : n.id = old.doc.id => n.role # "owner" /\ n.household = old.household
    BY <2>1 DEF HomeInv, Keys, Removable
  <2>5. FitsRemove(request[p])'
    BY <1>1, <1>2, <2>3, <2>4 DEF Same, Fits, FitsRemove, Live, Identifies
  <2>6. Fits(p, request[p])'
    BY <1>1, <2>3, <2>5 DEF Same, Fits, FitsInvite, FitsAccept, FitsRegister,
       FitsDelete, FitsBackfill, FitsCreation, Creating, HomeSteps
  <2> QED BY <1>1, <1>3, <2>3, <2>6, QuietGoesOn DEF Same, HomeSteps
<1> QED BY <1>4, <1>5

\* Taking rows away disturbs nothing but whom they belonged to.
LEMMA RowsTaken ==
  ASSUME HomeInv, members' \subseteq members,
         UNCHANGED <<account, households, invitations, failures>>, NEW p \in Handlers
  PROVE  Touches(p) /\ Stored' /\ Keys'
<1>1. Touches(p)
  BY BoundsAssumption DEF Touches, Closes, HomeInv, Stored
<1> QED BY <1>1 DEF HomeInv, Stored, Keys

LEMMA DeleteMemberKeeps ==
  ASSUME HomeInv, AdminInv', Overlaps, NEW p \in Handlers, DeleteMember(p)
  PROVE  HomeInv'
<1> DEFINE old == request[p]
           q == request'[p]
<1>1. old.op = "remove" /\ old.at = "delete" /\ Fits(p, old)
      /\ members' = {m \in members : m.id # old.doc.id} /\ GoTo(p, "createHousehold")
      /\ UNCHANGED <<account, households, invitations, failures>>
  BY DEF DeleteMember, At, HomeInv, AllFit
<1>2. Shared' /\ disturbed \subseteq disturbed'
  BY SharedKept
<1>3. Same(q, old) /\ q.at = "createHousehold"
      /\ \A r \in Handlers \ {p} : request'[r] = request[r]
  BY <1>1, GoesOn DEF HomeInv
<1>4. Touches(p) /\ Stored' /\ Keys'
  BY <1>1, RowsTaken
<1>5. FitsRemove(request[p])'
  BY <1>1, <1>2, <1>3 DEF Same, Fits, FitsRemove, Live, Identifies, Creating
<1>6. Fits(p, request[p])'
  BY <1>1, <1>3, <1>5 DEF Same, Fits, FitsInvite, FitsAccept, FitsRegister,
     FitsDelete, FitsBackfill, FitsCreation, Creating, HomeSteps
<1>7. Hears(p) /\ Quits(p)
  BY <1>1, <1>3 DEF Hears, Quits, Same, HomeSteps
<1>8. Cares(p)
  <2>1. \A u : ~Visits(p, u) /\ (Provides(p, u) => FALSE)
    BY <1>1 DEF Visits, Provides
  <2>2. ASSUME NEW u, HasActive(u), ~HasActive(u)'
        PROVE  u = old.user
    BY <1>1, <2>2 DEF HasActive, Fits, FitsRemove, Identifies
  <2>3. Provides(p, old.user)'
    BY <1>1, <1>3 DEF Provides, Same
  <2>4. ASSUME NEW u, u = old.user
        PROVE  Provides(p, u)'
    BY <1>1, <1>3, <2>4 DEF Provides, Same
  <2> QED BY <1>1, <2>1, <2>2, <2>4 DEF Cares
<1> QED BY <1>2, <1>3, <1>4, <1>6, <1>7, <1>8, StepKeeps DEF Moves

-----------------------------------------------------------------------------
(* Creation of a household.                                                *)

\* Who creates a household is live, or disturbed.
LEMMA CreatorIs ==
  ASSUME HomeInv, NEW p \in Handlers, request[p].at \in Creating
  PROVE  /\ request[p].op \in {"register", "remove", "backfill"}
         /\ request[p].user \in Users /\ Live(request[p].user)
         /\ request[p].invitation = 0
BY DEF HomeInv, AllFit, Fits, FitsCreation, FitsRegister, FitsRemove, FitsBackfill,
   Creating, HomeSteps, Listing

\* A backfill's next user is live, and nobody is passed over.
LEMMA NextUserFits ==
  ASSUME HomeInv, NEW p \in Boots, NEW n, Record(n), n.op = "backfill", n.invitation = 0,
         n.household = request[p].household, n.todo \subseteq Users, \A u \in n.todo : Live(u),
         request' = [request EXCEPT ![p] = NextUser(n)],
         UNCHANGED account, disturbed \subseteq disturbed'
  PROVE  /\ Fits(p, request[p])'
         /\ request'[p].household \in {0, request[p].household}
         /\ request'[p].at \notin HomeSteps
         /\ \A u \in n.todo : Visits(p, u)'
         /\ \A r \in Handlers \ {p} : request'[r] = request[r]
<1> DEFINE q == NextUser(n)
<1>1. \/ n.todo = {} /\ Rests(q)
      \/ /\ q.op = "backfill" /\ q.at = "createHousehold" /\ q.user \in n.todo
         /\ q.todo = n.todo \ {q.user} /\ q.home = 0
         /\ q.household = n.household /\ q.invitation = 0
  BY NextUserIs
<1> HIDE DEF q
<1>2. p \in Handlers
  BY DEF Handlers
<1>3. request'[p] = q /\ \A r \in Handlers \ {p} : request'[r] = request[r]
  BY <1>2, Goes DEF HomeInv, q
<1>4. CASE n.todo = {} /\ Rests(q)
  BY <1>2, <1>3, <1>4, RestsFit DEF Rests, HomeSteps
<1>5. CASE /\ q.op = "backfill" /\ q.at = "createHousehold" /\ q.user \in n.todo
           /\ q.todo = n.todo \ {q.user} /\ q.household = n.household /\ q.invitation = 0
  <2>1. \A u \in q.todo \cup {q.user} : u \in Users /\ Live(u)'
    BY <1>5 DEF Live
  <2>2. FitsBackfill(request[p])'
    BY <1>3, <1>5, <2>1 DEF FitsBackfill, Creating, Listing, Live
  <2>3. Fits(p, request[p])'
    BY <1>3, <1>5, <2>2 DEF Fits, FitsInvite, FitsAccept, FitsRegister, FitsRemove,
       FitsDelete, FitsCreation, Creating, HomeSteps
  <2>4. \A u \in n.todo : Visits(p, u)'
    BY <1>3, <1>5 DEF Visits, Listing
  <2> QED BY <1>3, <1>5, <2>3, <2>4 DEF HomeSteps
<1> QED BY <1>1, <1>4, <1>5

LEMMA SaveHouseholdKeeps ==
  ASSUME HomeInv, AdminInv', Overlaps, NEW p \in Handlers, SaveHousehold(p)
  PROVE  HomeInv'
<1> DEFINE old == request[p]
           q == request'[p]
           n(h) == [old EXCEPT !.at = "addOwner", !.home = h]
<1>1. old.at = "createHousehold" /\ Fits(p, old) /\ Record(old)
      /\ UNCHANGED <<account, members, invitations, failures>>
  BY DEF SaveHousehold, HomeInv, AllFit, AdminInv, Shapes
<1>2. PICK h \in Unused : households' = [households EXCEPT ![h] = old.user]
                          /\ request' = [request EXCEPT ![p] = n(h)]
  BY DEF SaveHousehold, Becomes
<1>3. /\ n(h).op = old.op /\ n(h).user = old.user /\ n(h).household = old.household
      /\ n(h).doc = old.doc /\ n(h).invitation = old.invitation /\ n(h).todo = old.todo
      /\ n(h).at = "addOwner" /\ n(h).home = h
  <2>1. ASSUME NEW o, Record(o), NEW r, r = [o EXCEPT !.at = "addOwner", !.home = h]
        PROVE  /\ r.op = o.op /\ r.user = o.user /\ r.household = o.household
               /\ r.doc = o.doc /\ r.invitation = o.invitation /\ r.todo = o.todo
               /\ r.at = "addOwner" /\ r.home = h
    BY <2>1 DEF Record
  <2> QED BY <1>1, <2>1
<1> HIDE DEF n
<1>4. q = n(h) /\ \A r \in Handlers \ {p} : request'[r] = request[r]
  BY <1>2, Goes DEF HomeInv
<1>5. Shared' /\ disturbed \subseteq disturbed'
  BY SharedKept
<1>6. old.op \in {"register", "remove", "backfill"} /\ old.user \in Users /\ Live(old.user)
  BY <1>1, CreatorIs DEF Creating
<1>7. h \in Households /\ households[h] = NoUser
  BY DEF Unused
<1>8. /\ households' \in [Households -> Users \cup {NoUser}]
      /\ households'[h] = old.user
      /\ \A g \in Households : households'[g] # households[g] => households[g] = NoUser
  BY <1>2, <1>6, <1>7 DEF HomeInv, Stored
<1>9. Touches(p)
  BY <1>1, <1>8, BoundsAssumption DEF Touches, Closes, HomeInv, Stored
<1>10. Stored' /\ Keys'
  BY <1>1, <1>8 DEF HomeInv, Stored, Keys
<1>11. /\ FitsRemove(request[p])' /\ FitsRegister(request[p])' /\ FitsBackfill(request[p])'
  BY <1>1, <1>3, <1>4, <1>5 DEF Fits, FitsRemove, FitsRegister, FitsBackfill, Creating,
     HomeSteps, Listing, Live, HasActive
<1>12. Fits(p, request[p])'
  BY <1>1, <1>3, <1>4, <1>6, <1>7, <1>8, <1>11 DEF Fits, FitsInvite, FitsAccept, FitsDelete,
     FitsCreation, Creating, HomeSteps
<1>13. Hears(p) /\ Quits(p)
  BY <1>1, <1>3, <1>4 DEF Hears, Quits, HomeSteps
<1>14. Cares(p)
  BY <1>1, <1>3, <1>4 DEF Cares, HasActive, Provides, Visits, Listing
<1> QED BY <1>4, <1>5, <1>9, <1>10, <1>12, <1>13, <1>14, StepKeeps DEF Moves

\* What follows the owner's row: the next user, or the end.
LEMMA AddOwnerKeeps ==
  ASSUME HomeInv, AdminInv', Overlaps, NEW p \in Handlers, AddOwner(p)
  PROVE  HomeInv'
<1> DEFINE old == request[p]
           q == request'[p]
<1>1. old.at = "addOwner" /\ Fits(p, old) /\ Record(old)
      /\ UNCHANGED <<account, households, invitations, failures>>
  BY DEF AddOwner, HomeInv, AllFit, AdminInv, Shapes
<1>2. Shared' /\ disturbed \subseteq disturbed'
  BY SharedKept
<1>3. old.op \in {"register", "remove", "backfill"} /\ old.user \in Users /\ Live(old.user)
      /\ old.invitation = 0
  BY <1>1, CreatorIs DEF Creating, HomeSteps
<1>4. CASE HasActive(old.user)
  <2>1. GoTo(p, "undoHousehold") /\ UNCHANGED members
    BY <1>4 DEF AddOwner
  <2>2. Same(q, old) /\ q.at = "undoHousehold"
        /\ \A r \in Handlers \ {p} : request'[r] = request[r]
    BY <2>1, GoesOn DEF HomeInv
  <2>3. FitsRemove(request[p])' /\ FitsRegister(request[p])' /\ FitsBackfill(request[p])'
    BY <1>1, <1>2, <2>1, <2>2 DEF Same, Fits, FitsRemove, FitsRegister, FitsBackfill, Creating,
       HomeSteps, Listing, Live, HasActive
  <2>4. Fits(p, request[p])'
    BY <1>1, <2>1, <2>2, <2>3 DEF Same, Fits, FitsInvite, FitsAccept, FitsDelete,
       FitsCreation, Creating, HomeSteps
  <2>5. \A u \in Users : Provides(p, u) => Provides(p, u)' \/ HasActive(u)
    BY <1>1, <1>4, <2>2 DEF Provides, Same
  <2>6. Visits(p, Root) => Visits(p, Root)' \/ HasActive(Root)
    BY <1>1, <1>4, <2>2 DEF Visits, Same, Listing
  <2> QED BY <1>1, <2>1, <2>2, <2>4, <2>5, <2>6, QuietGoesOn DEF Same, HomeSteps
<1>5. CASE ~HasActive(old.user)
  <2>1. members' = Inserted(old.user, old.home, "owner")
        /\ request' = [request EXCEPT ![p] = Created(p)]
    BY <1>5 DEF AddOwner, Becomes
  <2>2. old.home \in Households
    BY <1>1 DEF Fits, FitsCreation, HomeSteps
  <2>3. PICK m \in Row :
           /\ members' = members \cup {m} /\ m \notin members
           /\ m.user = old.user /\ m.household = old.home /\ m.role = "owner"
           /\ \A r \in Handlers : request[r].doc.id # m.id
           /\ Keys'
    BY <1>3, <1>5, <2>1, <2>2, InsertedIs
  <2>4. \A o \in members' \ members : Adds(p, o)
    BY <1>1, <1>3, <2>3 DEF Adds
  <2>5. Touches(p)
    BY <1>1, <2>4, BoundsAssumption DEF Touches, Closes, HomeInv, Stored
  <2>6. Stored'
    BY <1>1, <2>3 DEF HomeInv, Stored
  <2>7. Quits(p)
    BY <1>3 DEF Quits
  <2>8. CASE old.op = "backfill"
    <3>1. request' = [request EXCEPT ![p] = NextUser(old)] /\ p \in Boots
      BY <1>1, <2>1, <2>8 DEF Created, Fits
    <3>2. old.todo \subseteq Users /\ \A u \in old.todo : Live(u)
      BY <1>1, <2>8 DEF Fits, FitsBackfill, Listing
    <3>3. /\ Fits(p, request[p])'
          /\ q.household \in {0, old.household} /\ q.at \notin HomeSteps
          /\ \A u \in old.todo : Visits(p, u)'
          /\ \A r \in Handlers \ {p} : request'[r] = request[r]
      BY <1>1, <1>2, <1>3, <2>8, <3>1, <3>2, NextUserFits
    <3>4. Hears(p)
      BY <3>3 DEF Hears
    <3>5. Cares(p)
      <4>1. ASSUME NEW u, ~HasActive(u)'
            PROVE  u # old.user /\ ~HasActive(u)
        BY <2>3, <4>1 DEF HasActive
      <4> QED BY <1>1, <2>8, <3>3, <4>1 DEF Cares, Provides, Visits, Listing
    <3> QED BY <1>2, <2>3, <2>5, <2>6, <2>7, <3>3, <3>4, <3>5, StepKeeps DEF Moves
  <2>9. CASE old.op # "backfill"
    <3>1. Finish(p)
      BY <2>1, <2>9 DEF Created, Finish, Becomes
    <3>2. Rests(q) /\ \A r \in Handlers \ {p} : request'[r] = request[r]
      BY <3>1, EndsResting DEF HomeInv
    <3>3. Fits(p, request[p])'
      BY <3>2, RestsFit
    <3>4. Hears(p)
      BY <3>2 DEF Hears, Rests, HomeSteps
    <3>5. Cares(p)
      <4>1. ASSUME NEW u, ~HasActive(u)'
            PROVE  u # old.user /\ ~HasActive(u)
        BY <2>3, <4>1 DEF HasActive
      <4> QED BY <1>1, <2>9, <4>1 DEF Cares, Provides, Visits
    <3> QED BY <1>2, <2>3, <2>5, <2>6, <2>7, <3>2, <3>3, <3>4, <3>5, StepKeeps DEF Moves
  <2> QED BY <2>8, <2>9
<1> QED BY <1>4, <1>5


\* Failed or not wanted any more: a registration rolls back, a backfill goes on
\* when somebody else was first, and the others give up.
LEMMA NotCreatedFits ==
  ASSUME HomeInv, NEW p \in Handlers, request[p].at \in Creating, NEW conflict \in BOOLEAN,
         request' = [request EXCEPT ![p] = NotCreated(p, conflict)],
         UNCHANGED <<account, members>>, disturbed \subseteq disturbed',
         failures' > 0 \/ (conflict /\ request[p].at = "undoHousehold")
  PROVE  /\ Fits(p, request[p])'
         /\ request'[p].household \in {0, request[p].household}
         /\ request'[p].at \notin HomeSteps
         /\ Cares(p)
         /\ \A r \in Handlers \ {p} : request'[r] = request[r]
<1> DEFINE old == request[p]
           q == request'[p]
<1>1. Fits(p, old) /\ Record(old)
  BY DEF HomeInv, AllFit, AdminInv, Shapes
<1>2. old.op \in {"register", "remove", "backfill"} /\ old.user \in Users /\ Live(old.user)
      /\ old.invitation = 0
  BY CreatorIs
<1>3. CASE old.op = "register"
  <2>1. GoTo(p, "undoUser")
    BY <1>3 DEF NotCreated, GoTo, Becomes
  <2>2. Same(q, old) /\ q.at = "undoUser" /\ \A r \in Handlers \ {p} : request'[r] = request[r]
    BY <2>1, GoesOn DEF HomeInv
  <2>3. Fits(p, request[p])'
    BY <1>1, <1>3, <2>2 DEF Same, Fits, FitsInvite, FitsAccept, FitsRemove, FitsRegister,
       FitsDelete, FitsBackfill, FitsCreation, Creating, HomeSteps, Live, HasActive
  <2>4. Cares(p)
    BY <1>3, <2>2 DEF Cares, Provides, Visits, Same, HasActive
  <2> QED BY <2>2, <2>3, <2>4 DEF Same, HomeSteps
<1>4. CASE old.op = "backfill" /\ conflict
  <2>1. request' = [request EXCEPT ![p] = NextUser(old)] /\ p \in Boots
    BY <1>1, <1>4 DEF NotCreated, Fits
  <2>2. old.todo \subseteq Users /\ \A u \in old.todo : Live(u)
    BY <1>1, <1>4 DEF Fits, FitsBackfill, Listing, Creating, HomeSteps
  <2>3. /\ Fits(p, request[p])'
        /\ q.household \in {0, old.household} /\ q.at \notin HomeSteps
        /\ \A u \in old.todo : Visits(p, u)'
        /\ \A r \in Handlers \ {p} : request'[r] = request[r]
    BY <1>1, <1>2, <1>4, <2>1, <2>2, NextUserFits
  <2>4. Cares(p)
    BY <1>4, <2>3 DEF Cares, Provides, Visits, HasActive, Listing, Creating, HomeSteps
  <2> QED BY <2>3, <2>4
<1>5. CASE old.op = "remove" \/ (old.op = "backfill" /\ ~conflict)
  <2>1. Finish(p)
    BY <1>5 DEF NotCreated, Finish, Becomes
  <2>2. Rests(q) /\ \A r \in Handlers \ {p} : request'[r] = request[r]
    BY <2>1, EndsResting DEF HomeInv
  <2>3. Fits(p, request[p])'
    BY <2>2, RestsFit
  <2>4. Cares(p)
    BY <1>5 DEF Cares, Provides, Visits, HasActive
  <2> QED BY <2>2, <2>3, <2>4 DEF Rests, HomeSteps
<1> QED BY <1>2, <1>3, <1>4, <1>5

LEMMA UndoHouseholdKeeps ==
  ASSUME HomeInv, AdminInv', Overlaps, NEW p \in Handlers, UndoHousehold(p)
  PROVE  HomeInv'
<1> DEFINE old == request[p]
           conflict == (old.at = "undoHousehold")
<1>1. /\ old.at \in {"undoHousehold", "undoAfterError"} /\ Fits(p, old)
      /\ households' = [households EXCEPT ![old.home] = NoUser]
      /\ request' = [request EXCEPT ![p] = NotCreated(p, conflict)]
      /\ UNCHANGED <<account, members, invitations, failures>>
  BY DEF UndoHousehold, Becomes, HomeInv, AllFit
<1>2. Shared' /\ disturbed \subseteq disturbed'
  BY SharedKept
<1>3. failures' > 0 \/ conflict
  BY <1>1 DEF Fits, FitsCreation
<1>4. old.home \in Households
  BY <1>1 DEF Fits, FitsCreation, HomeSteps
<1>5. /\ households' \in [Households -> Users \cup {NoUser}]
      /\ \A h \in Households : households'[h] # households[h] => h = old.home
  BY <1>1, <1>4 DEF HomeInv, Stored
<1>6. Touches(p)
  BY <1>1, <1>5, BoundsAssumption DEF Touches, Closes, HomeInv, Stored, HomeSteps
<1>7. Stored' /\ Keys'
  BY <1>1, <1>5 DEF HomeInv, Stored, Keys
<1>8. /\ Fits(p, request[p])' /\ Cares(p)
      /\ request'[p].household \in {0, old.household} /\ request'[p].at \notin HomeSteps
      /\ \A r \in Handlers \ {p} : request'[r] = request[r]
  <2>1. conflict \in BOOLEAN /\ old.at \in Creating /\ (conflict => old.at = "undoHousehold")
    BY <1>1 DEF Creating, HomeSteps
  <2> HIDE DEF conflict
  <2> QED BY <1>1, <1>2, <1>3, <2>1, NotCreatedFits
<1>9. Hears(p) /\ Quits(p)
  BY <1>1, <1>8, CreatorIs DEF Hears, Quits, Creating, HomeSteps
<1> QED BY <1>2, <1>6, <1>7, <1>8, <1>9, StepKeeps DEF Moves


-----------------------------------------------------------------------------
(* Accounts.                                                               *)

\* A new account has no row: rows belong to accounts that exist.
LEMMA RegisterKeeps ==
  ASSUME HomeInv, AdminInv', Overlaps, NEW p \in Requests, NEW u \in Users, NEW role,
         Register(p, u, role)
  PROVE  HomeInv'
<1> DEFINE q == [Idle EXCEPT !.op = "register", !.at = "createHousehold", !.user = u]
<1>1. /\ p \in Handlers /\ request[p] = Idle /\ request' = [request EXCEPT ![p] = q]
      /\ account[u] = "new" /\ account' = [account EXCEPT ![u] = "live"]
      /\ UNCHANGED <<households, members, invitations, failures>>
  BY DEF Register, Handlers, Becomes
<1>2. q.op = "register" /\ q.at = "createHousehold" /\ q.user = u /\ q.household = 0
      /\ q.invitation = 0
  BY DEF Idle
<1> HIDE DEF q
<1>3. request'[p] = q /\ \A r \in Handlers \ {p} : request'[r] = request[r]
  BY <1>1, Goes DEF HomeInv
<1>4. Shared' /\ disturbed \subseteq disturbed'
  BY SharedKept
<1>5. /\ account' \in [Users -> {"new", "live", "gone"}]
      /\ account'[u] = "live"
      /\ \A v \in Users \ {u} : account'[v] = account[v]
  BY <1>1 DEF HomeInv, Stored
<1>6. Touches(p)
  BY <1>1, <1>5, BoundsAssumption DEF Touches, Closes, HomeInv, Stored
<1>7. Stored' /\ Keys'
  BY <1>1, <1>5 DEF HomeInv, Stored, Keys
<1>8. ~HasActive(u) \/ u \in disturbed
  BY <1>1 DEF HasActive, HomeInv, NoOrphans
<1>9. Fits(p, request[p])'
  BY <1>1, <1>2, <1>3, <1>4, <1>5, <1>8 DEF Fits, FitsInvite, FitsAccept, FitsRemove, FitsRegister,
     FitsDelete, FitsBackfill, FitsCreation, Creating, HomeSteps, Live, HasActive
<1>10. Rests(request[p])
  BY <1>1, IdleRests
<1>11. Hears(p) /\ Quits(p)
  BY <1>2, <1>3, <1>10 DEF Hears, Quits, Rests, HomeSteps
<1>12. Cares(p)
  BY <1>1, <1>2, <1>3, <1>5, <1>10 DEF Cares, Provides, Visits, Rests, HasActive
<1> QED BY <1>1, <1>3, <1>4, <1>6, <1>7, <1>9, <1>11, <1>12, StepKeeps DEF Moves

\* An account goes last, when it has no row left.
LEMMA AccountGoes ==
  ASSUME HomeInv, AdminInv', Overlaps, NEW p \in Handlers,
         \/ request[p].op = "register"
         \/ request[p].op = "delete" /\ request[p].at = "dropUser",
         account' = [account EXCEPT ![request[p].user] = "gone"], Finish(p),
         UNCHANGED <<households, members, invitations, failures>>
  PROVE  HomeInv'
<1> DEFINE old == request[p]
<1>1. Fits(p, old)
  BY DEF HomeInv, AllFit
<1>2. old.user \in Users
  BY DEF HomeInv, AdminInv, Governed, Governs, RoleOps
<1>3. Rests(request'[p]) /\ \A r \in Handlers \ {p} : request'[r] = request[r]
  BY EndsResting DEF HomeInv
<1>4. Shared' /\ disturbed \subseteq disturbed'
  BY SharedKept
<1>5. /\ account' \in [Users -> {"new", "live", "gone"}]
      /\ account'[old.user] = "gone"
      /\ \A v \in Users \ {old.user} : account'[v] = account[v]
  BY <1>2 DEF HomeInv, Stored
<1>6. ~HasActive(old.user) \/ old.user \in disturbed
  BY <1>1 DEF Fits, FitsRegister, FitsDelete
<1>7. Touches(p)
  BY <1>5, <1>6, BoundsAssumption DEF Touches, Closes, HomeInv, Stored
<1>8. Stored' /\ Keys'
  BY <1>5 DEF HomeInv, Stored, Keys
<1>9. Fits(p, request[p])'
  BY <1>3, RestsFit
<1>10. Hears(p) /\ Quits(p)
  BY <1>3 DEF Hears, Quits, Rests, HomeSteps
<1>11. Cares(p)
  BY <1>5 DEF Cares, Provides, Visits, HasActive
<1> QED BY <1>3, <1>4, <1>7, <1>8, <1>9, <1>10, <1>11, StepKeeps DEF Moves

\* A deletion or a change of role that writes no document but the role.
LEMMA RoleQuiet ==
  ASSUME HomeInv, AdminInv', Overlaps, NEW p \in Handlers,
         request[p].op \in RoleOps, request[p].at # "dropUser",
         \A r \in Handlers \ {p} : request'[r] = request[r],
         UNCHANGED <<account, households, members, invitations, failures>>,
         \/ Rests(request'[p])
         \/ Same(request'[p], request[p]) /\ request'[p].at \notin {"dropUser"} \cup Creating
  PROVE  HomeInv'
<1>1. Fits(p, request[p])
  BY DEF HomeInv, AllFit
<1>2. Fits(p, request[p])'
  <2>1. CASE Rests(request'[p])
    BY <2>1, RestsFit
  <2>2. CASE Same(request'[p], request[p]) /\ request'[p].at \notin {"dropUser"} \cup Creating
    BY <1>1, <2>2 DEF Same, Fits, FitsInvite, FitsAccept, FitsRemove, FitsRegister,
       FitsDelete, FitsBackfill, FitsCreation, Creating, HomeSteps, RoleOps
  <2> QED BY <2>1, <2>2
<1>3. failures' \in 0 .. MaxFailures /\ failures <= failures'
  BY BoundsAssumption DEF HomeInv, Stored
<1>4. Hears(p) /\ Quits(p)
  BY DEF Hears, Quits, Rests, Same, Creating, HomeSteps, RoleOps
<1>5. Cares(p)
  BY DEF Cares, Provides, Visits, HasActive, RoleOps
<1> QED BY <1>2, <1>3, <1>4, <1>5, QuietStep

LEMMA BeginRoleKeeps ==
  ASSUME HomeInv, AdminInv', Overlaps, NEW p \in Requests, NEW admin, NEW u \in Users,
         \/ BeginDelete(p, admin, u)
         \/ \E role \in {"makeUser", "makeAdmin"} : BeginPatchRole(p, admin, u, role)
  PROVE  HomeInv'
<1>1. PICK op \in RoleOps, step \in {"demote", "update"} :
        request' = [request EXCEPT ![p] = [Idle EXCEPT !.op = op, !.at = step, !.user = u]]
  BY DEF BeginDelete, BeginPatchRole, Becomes, RoleOps
<1> DEFINE q == [Idle EXCEPT !.op = op, !.at = step, !.user = u]
<1>2. q.op = op /\ q.at = step /\ q.household = 0 /\ q.invitation = 0
  BY DEF Idle
<1>3. request' = [request EXCEPT ![p] = q]
  BY <1>1
<1> HIDE DEF q
<1>4. p \in Handlers /\ request[p] = Idle
      /\ UNCHANGED <<account, households, members, invitations, failures>>
  BY DEF BeginDelete, BeginPatchRole, tenancy, Handlers
<1>5. request'[p] = q
  BY <1>3, <1>4, Goes DEF HomeInv
<1>6. Fits(p, request[p])'
  BY <1>2, <1>5 DEF Fits, FitsInvite, FitsAccept, FitsRemove, FitsRegister,
     FitsDelete, FitsBackfill, FitsCreation, Creating, HomeSteps, RoleOps
<1>7. q.at \notin HomeSteps
  BY <1>2 DEF HomeSteps
<1> QED BY <1>2, <1>3, <1>4, <1>6, <1>7, Begins

LEMMA FindUserKeeps ==
  ASSUME HomeInv, AdminInv', Overlaps, NEW p \in Handlers, FindUser(p)
  PROVE  HomeInv'
<1>1. request[p].op = "delete" /\ request[p].at = "find"
      /\ UNCHANGED <<account, households, members, invitations, failures>>
  BY DEF FindUser, At, tenancy
<1>2. Finish(p) \/ GoTo(p, "dropMembers") \/ GoTo(p, "repromote")
  BY DEF FindUser
<1>3. /\ \A r \in Handlers \ {p} : request'[r] = request[r]
      /\ \/ Rests(request'[p])
         \/ Same(request'[p], request[p]) /\ request'[p].at \notin {"dropUser"} \cup Creating
  BY <1>2, EndsResting, GoesOn DEF HomeInv, Creating, HomeSteps
<1> QED BY <1>1, <1>3, RoleQuiet DEF RoleOps

LEMMA DemoteKeeps ==
  ASSUME HomeInv, AdminInv', Overlaps, NEW p \in Handlers, Demote(p)
  PROVE  HomeInv'
<1> DEFINE old == request[p]
           q == [old EXCEPT !.at = "countAdmins", !.demoted = TRUE]
<1>1. old.at = "demote" /\ old.op \in RoleOps /\ Record(old)
      /\ UNCHANGED <<account, households, members, invitations, failures>>
  BY DEF Demote, tenancy, HomeInv, AdminInv, Governed, Governs, Shapes, RoleSteps
<1>2. CASE old.user \in admins
  <2>1. request' = [request EXCEPT ![p] = q]
    BY <1>2 DEF Demote, Becomes
  <2>2. Same(q, old) /\ q.at = "countAdmins"
    <3>1. ASSUME NEW i, Record(i), NEW r, r = [i EXCEPT !.at = "countAdmins", !.demoted = TRUE]
          PROVE  Same(r, i) /\ r.at = "countAdmins"
      BY <3>1 DEF Record, Same
    <3> QED BY <1>1, <3>1
  <2> HIDE DEF q
  <2>3. request'[p] = q /\ \A r \in Handlers \ {p} : request'[r] = request[r]
    BY <2>1, Goes DEF HomeInv
  <2> QED BY <1>1, <2>2, <2>3, RoleQuiet DEF Creating, HomeSteps
<1>3. CASE old.user \notin admins
  <2>1. GoTo(p, Onward(old)) /\ Onward(old) \in {"find", "update"}
    BY <1>3 DEF Demote, Onward
  <2>2. Same(request'[p], old) /\ request'[p].at \in {"find", "update"}
        /\ \A r \in Handlers \ {p} : request'[r] = request[r]
    BY <2>1, GoesOn DEF HomeInv
  <2> QED BY <1>1, <2>2, RoleQuiet DEF Creating, HomeSteps
<1> QED BY <1>2, <1>3

LEMMA CountAdminsKeeps ==
  ASSUME HomeInv, AdminInv', Overlaps, NEW p \in Handlers, CountAdmins(p)
  PROVE  HomeInv'
<1> DEFINE step == IF admins = {} THEN "restoreAdmin" ELSE Onward(request[p])
<1>1. request[p].at = "countAdmins" /\ request[p].op \in RoleOps
      /\ UNCHANGED <<account, households, members, invitations, failures>>
  BY DEF CountAdmins, tenancy, HomeInv, AdminInv, Governed, Governs, RoleSteps
<1>2. GoTo(p, step) /\ step \in {"restoreAdmin", "find", "update"}
  BY DEF CountAdmins, Onward
<1> HIDE DEF step
<1>3. Same(request'[p], request[p]) /\ request'[p].at = step
      /\ \A r \in Handlers \ {p} : request'[r] = request[r]
  BY <1>2, GoesOn DEF HomeInv
<1> QED BY <1>1, <1>2, <1>3, RoleQuiet DEF Creating, HomeSteps

LEMMA RoleEndsKeeps ==
  ASSUME HomeInv, AdminInv', Overlaps, NEW p \in Handlers, RestoreAdmin(p) \/ UpdateRole(p)
  PROVE  HomeInv'
<1>1. request[p].at \in {"restoreAdmin", "repromote", "update"}
      /\ UNCHANGED <<account, households, members, invitations, failures>> /\ Finish(p)
  BY DEF RestoreAdmin, UpdateRole, tenancy
<1>2. request[p].op \in RoleOps
  BY <1>1 DEF HomeInv, AdminInv, Governed, Governs, RoleSteps
<1>3. Rests(request'[p]) /\ \A r \in Handlers \ {p} : request'[r] = request[r]
  BY <1>1, EndsResting DEF HomeInv
<1> QED BY <1>1, <1>2, <1>3, RoleQuiet

LEMMA DropMembersKeeps ==
  ASSUME HomeInv, AdminInv', Overlaps, NEW p \in Handlers, DropMembers(p)
  PROVE  HomeInv'
<1> DEFINE old == request[p]
           q == request'[p]
<1>1. old.op = "delete" /\ old.at = "dropMembers" /\ Fits(p, old)
      /\ members' = {m \in members : m.user # old.user} /\ GoTo(p, "dropUser")
      /\ UNCHANGED <<account, households, invitations, failures>>
  BY DEF DropMembers, At, HomeInv, AllFit
<1>2. Shared' /\ disturbed \subseteq disturbed'
  BY SharedKept
<1>3. Same(q, old) /\ q.at = "dropUser" /\ \A r \in Handlers \ {p} : request'[r] = request[r]
  BY <1>1, GoesOn DEF HomeInv
<1>4. Touches(p) /\ Stored' /\ Keys'
  BY <1>1, RowsTaken
<1>5. Fits(p, request[p])'
  <2>1. \A m \in members' : m.user # old.user
    BY <1>1
  <2> QED BY <1>1, <1>3, <2>1 DEF Same, Fits, FitsInvite, FitsAccept, FitsRemove, FitsRegister,
          FitsDelete, FitsBackfill, FitsCreation, Creating, HomeSteps, HasActive
<1>6. Hears(p) /\ Quits(p)
  BY <1>1, <1>3 DEF Hears, Quits, Same, HomeSteps
<1>7. Cares(p)
  <2>1. \A u : ~Visits(p, u) /\ ~Provides(p, u)
    BY <1>1 DEF Visits, Provides
  <2>2. ASSUME NEW u, HasActive(u), ~HasActive(u)'
        PROVE  u = old.user
    BY <1>1, <2>2 DEF HasActive
  <2>3. ASSUME NEW u, u = old.user
        PROVE  Provides(p, u)'
    BY <1>1, <1>3, <2>3 DEF Provides, Same
  <2> QED BY <1>1, <2>1, <2>2, <2>3 DEF Cares
<1> QED BY <1>2, <1>3, <1>4, <1>5, <1>6, <1>7, StepKeeps DEF Moves


-----------------------------------------------------------------------------
(* Boots.                                                                  *)

\* A boot that seeds the administrator gives them a home later.
LEMMA SeedAdminKeeps ==
  ASSUME HomeInv, AdminInv', Overlaps, NEW p \in Boots, SeedAdmin(p)
  PROVE  HomeInv'
<1> DEFINE q == [Idle EXCEPT !.op = "backfill", !.at = "listActive"]
<1>1. /\ p \in Handlers /\ request[p] = Idle /\ request' = [request EXCEPT ![p] = q]
      /\ UNCHANGED <<households, members, invitations, failures>>
      /\ \/ UNCHANGED account
         \/ account[Root] = "new" /\ account' = [account EXCEPT ![Root] = "live"]
  BY DEF SeedAdmin, Handlers, Becomes
<1>2. q.op = "backfill" /\ q.at = "listActive" /\ q.household = 0 /\ q.invitation = 0
      /\ q.todo = {}
  BY DEF Idle
<1> HIDE DEF q
<1>3. request'[p] = q /\ \A r \in Handlers \ {p} : request'[r] = request[r]
  BY <1>1, Goes DEF HomeInv
<1>4. Shared' /\ disturbed \subseteq disturbed'
  BY SharedKept
<1>5. /\ account' \in [Users -> {"new", "live", "gone"}]
      /\ \A v \in Users \ {Root} : account'[v] = account[v]
      /\ account[Root] = "live" => account'[Root] = "live"
  BY <1>1, TenancyAssumption DEF HomeInv, Stored
<1>6. Touches(p)
  BY <1>1, <1>5, BoundsAssumption DEF Touches, Closes, HomeInv, Stored
<1>7. Stored' /\ Keys'
  BY <1>1, <1>5 DEF HomeInv, Stored, Keys
<1>8. Fits(p, request[p])'
  BY <1>2, <1>3 DEF Fits, FitsInvite, FitsAccept, FitsRemove, FitsRegister,
     FitsDelete, FitsBackfill, FitsCreation, Creating, HomeSteps, Listing
<1>9. Rests(request[p])
  BY <1>1, IdleRests
<1>10. Hears(p) /\ Quits(p)
  BY <1>2, <1>3, <1>9 DEF Hears, Quits, Rests, HomeSteps
<1>11. Cares(p)
  BY <1>1, <1>2, <1>3, <1>5, <1>9 DEF Cares, Provides, Visits, Rests, HasActive
<1> QED BY <1>1, <1>3, <1>4, <1>6, <1>7, <1>8, <1>10, <1>11, StepKeeps DEF Moves

LEMMA ListActiveKeeps ==
  ASSUME HomeInv, AdminInv', Overlaps, NEW p \in Handlers, ListActive(p)
  PROVE  HomeInv'
<1> DEFINE old == request[p]
           listed == {m.user : m \in members}
           q == [old EXCEPT !.at = "listUsers", !.todo = listed]
<1>1. old.op = "backfill" /\ old.at = "listActive" /\ Fits(p, old) /\ Record(old)
      /\ request' = [request EXCEPT ![p] = q]
      /\ UNCHANGED <<account, households, members, invitations, failures>>
  BY DEF ListActive, At, tenancy, Becomes, HomeInv, AllFit, AdminInv, Shapes
<1>2. listed \subseteq Users /\ \A u : u \in listed <=> HasActive(u)
  BY DEF HomeInv, Stored, Row, HasActive
<1> HIDE DEF listed
<1>3. /\ q.op = old.op /\ q.at = "listUsers" /\ q.todo = listed
      /\ q.household = old.household /\ q.home = old.home /\ q.invitation = old.invitation
  <2>1. ASSUME NEW i, Record(i), NEW r, r = [i EXCEPT !.at = "listUsers", !.todo = listed]
        PROVE  /\ r.op = i.op /\ r.at = "listUsers" /\ r.todo = listed
               /\ r.household = i.household /\ r.home = i.home /\ r.invitation = i.invitation
    BY <2>1 DEF Record
  <2> QED BY <1>1, <2>1
<1> HIDE DEF q
<1>4. request'[p] = q /\ \A r \in Handlers \ {p} : request'[r] = request[r]
  BY <1>1, Goes DEF HomeInv
<1>5. Fits(p, request[p])'
  BY <1>1, <1>2, <1>3, <1>4 DEF Fits, FitsInvite, FitsAccept, FitsRemove, FitsRegister,
     FitsDelete, FitsBackfill, FitsCreation, Creating, HomeSteps, Listing
<1>6. Visits(p, Root) => Visits(p, Root)' \/ HasActive(Root)
  BY <1>1, <1>2, <1>3, <1>4 DEF Visits
<1>7. \A u : ~Provides(p, u)
  BY <1>1 DEF Provides
<1> QED BY <1>1, <1>3, <1>4, <1>5, <1>6, <1>7, QuietGoesOn DEF HomeSteps

\* Whoever had no row when they were listed, and is there by now, is visited.
LEMMA ListUsersKeeps ==
  ASSUME HomeInv, AdminInv', Overlaps, NEW p \in Handlers, ListUsers(p)
  PROVE  HomeInv'
<1> DEFINE old == request[p]
           left == {u \in Users : account[u] = "live"} \ old.todo
           n == [old EXCEPT !.todo = left]
           q == request'[p]
<1>1. old.op = "backfill" /\ old.at = "listUsers" /\ Fits(p, old) /\ Record(old)
      /\ request' = [request EXCEPT ![p] = NextUser(n)]
      /\ UNCHANGED <<account, households, members, invitations, failures>>
  BY DEF ListUsers, At, tenancy, Becomes, HomeInv, AllFit, AdminInv, Shapes
<1>2. left \subseteq Users /\ \A u \in left : Live(u)
  BY DEF Live
<1>3. Root \notin old.todo /\ account[Root] = "live" => Root \in left
  BY TenancyAssumption
<1> HIDE DEF left
<1>4. Record(n) /\ n.op = "backfill" /\ n.household = old.household
      /\ n.invitation = old.invitation /\ n.todo = left
  <2>1. ASSUME NEW i, Record(i), NEW r, r = [i EXCEPT !.todo = left]
        PROVE  Record(r) /\ r.op = i.op /\ r.household = i.household
               /\ r.invitation = i.invitation /\ r.todo = left
    BY <2>1 DEF Record
  <2> QED BY <1>1, <2>1
<1> HIDE DEF n
<1>5. p \in Boots /\ old.invitation = 0
  BY <1>1 DEF Fits
<1>6. Shared' /\ disturbed \subseteq disturbed'
  BY SharedKept
<1>7. /\ Fits(p, request[p])'
      /\ q.household \in {0, old.household} /\ q.at \notin HomeSteps
      /\ \A u \in left : Visits(p, u)'
      /\ \A r \in Handlers \ {p} : request'[r] = request[r]
  BY <1>1, <1>2, <1>4, <1>5, <1>6, NextUserFits
<1>8. Hears(p) /\ Quits(p)
  BY <1>1, <1>7 DEF Hears, Quits
<1>9. Cares(p)
  BY <1>1, <1>3, <1>7 DEF Cares, Provides, Visits, HasActive, Listing
<1>10. failures' \in 0 .. MaxFailures /\ failures <= failures'
  BY <1>1, BoundsAssumption DEF HomeInv, Stored
<1> QED BY <1>1, <1>7, <1>8, <1>9, <1>10, QuietStep

-----------------------------------------------------------------------------
(* Failures.                                                               *)

\* After a failure nobody is promised a home, but no document is in doubt.
LEMMA FailsKeeps ==
  ASSUME HomeInv, AdminInv', Overlaps, NEW p \in Handlers,
         failures < MaxFailures, failures' = failures + 1,
         UNCHANGED <<account, households, members, invitations>>,
         \A r \in Handlers \ {p} : request'[r] = request[r],
         request'[p].household \in {0, request[p].household},
         request'[p].at \in HomeSteps =>
           request[p].at \in HomeSteps /\ request'[p].home = request[p].home,
         Fits(p, request[p])'
  PROVE  HomeInv'
<1>1. failures' \in 0 .. MaxFailures /\ failures <= failures' /\ failures' > 0
  BY BoundsAssumption DEF HomeInv, Stored
<1>2. Hears(p) /\ Quits(p) /\ Cares(p)
  BY <1>1 DEF Hears, Quits, Cares
<1> QED BY <1>1, <1>2, QuietStep

LEMMA FailsEnding ==
  ASSUME HomeInv, AdminInv', Overlaps, NEW p \in Handlers, Finish(p),
         failures < MaxFailures, failures' = failures + 1,
         UNCHANGED <<account, households, members, invitations>>
  PROVE  HomeInv'
<1>1. Rests(request'[p]) /\ \A r \in Handlers \ {p} : request'[r] = request[r]
  BY EndsResting DEF HomeInv
<1>2. Fits(p, request[p])'
  BY <1>1, RestsFit
<1> QED BY <1>1, <1>2, FailsKeeps DEF Rests, HomeSteps

LEMMA ThrowsKeeps ==
  ASSUME HomeInv, AdminInv', Overlaps, NEW p \in Handlers, Throws(p)
  PROVE  HomeInv'
<1> DEFINE old == request[p]
           q == request'[p]
<1>1. failures < MaxFailures /\ failures' = failures + 1 /\ Fits(p, old)
      /\ UNCHANGED <<account, households, members, invitations>>
  BY DEF Throws, HomeInv, AllFit
<1>2. failures' > 0 /\ disturbed \subseteq disturbed'
  BY <1>1, BoundsAssumption, SharedKept DEF HomeInv, Stored
<1>3. \/ Finish(p)
      \/ GoTo(p, "undoAfterError") /\ old.at = "addOwner"
      \/ /\ old.at \in {"createHousehold", "undoAfterError", "undoHousehold"}
         /\ \E conflict \in BOOLEAN : Becomes(p, NotCreated(p, conflict))
      \/ /\ GoTo(p, "repromote") /\ old.op = "delete"
         /\ old.at \in {"find", "dropMembers", "dropUser"}
  BY DEF Throws, Finish, GoTo, Becomes
<1>4. CASE Finish(p)
  BY <1>1, <1>4, FailsEnding
<1>5. CASE GoTo(p, "undoAfterError") /\ old.at = "addOwner"
  <2>1. Same(q, old) /\ q.at = "undoAfterError"
        /\ \A r \in Handlers \ {p} : request'[r] = request[r]
    BY <1>5, GoesOn DEF HomeInv
  <2>2. FitsRemove(request[p])' /\ FitsRegister(request[p])' /\ FitsBackfill(request[p])'
    BY <1>1, <1>2, <1>5, <2>1 DEF Same, Fits, FitsRemove, FitsRegister, FitsBackfill, Creating,
       HomeSteps, Listing, Live, HasActive
  <2>3. Fits(p, request[p])'
    BY <1>1, <1>2, <1>5, <2>1, <2>2 DEF Same, Fits, FitsInvite, FitsAccept, FitsDelete,
       FitsCreation, Creating, HomeSteps
  <2> QED BY <1>1, <1>5, <2>1, <2>3, FailsKeeps DEF Same, HomeSteps
<1>6. CASE /\ old.at \in {"createHousehold", "undoAfterError", "undoHousehold"}
           /\ \E conflict \in BOOLEAN : Becomes(p, NotCreated(p, conflict))
  <2>1. old.at \in Creating
    BY <1>6 DEF Creating, HomeSteps
  <2>2. /\ Fits(p, request[p])'
        /\ q.household \in {0, old.household} /\ q.at \notin HomeSteps
        /\ \A r \in Handlers \ {p} : request'[r] = request[r]
    BY <1>1, <1>2, <1>6, <2>1, NotCreatedFits DEF Becomes
  <2> QED BY <1>1, <2>2, FailsKeeps
<1>7. CASE GoTo(p, "repromote") /\ old.op = "delete"
  <2>1. Same(q, old) /\ q.at = "repromote"
        /\ \A r \in Handlers \ {p} : request'[r] = request[r]
    BY <1>7, GoesOn DEF HomeInv
  <2>2. Fits(p, request[p])'
    BY <1>1, <1>7, <2>1 DEF Same, Fits, FitsInvite, FitsAccept, FitsRemove, FitsRegister,
       FitsDelete, FitsBackfill, FitsCreation, Creating, HomeSteps
  <2> QED BY <1>1, <2>1, <2>2, FailsKeeps DEF Same, HomeSteps
<1> QED BY <1>3, <1>4, <1>5, <1>6, <1>7

LEMMA DiesKeeps ==
  ASSUME HomeInv, AdminInv', Overlaps, NEW p \in Handlers, Dies(p)
  PROVE  HomeInv'
BY FailsEnding DEF Dies


-----------------------------------------------------------------------------
(* The whole system.                                                       *)

\* In an established service everybody has a row, in their own household unless
\* they have joined the administrator's.
LEMMA EstablishedFits ==
  ASSUME Established
  PROVE  /\ account = [u \in Users |-> "live"]
         /\ households \in [Households -> Users \cup {NoUser}]
         /\ members \subseteq Row /\ invitations \in Seq(Invitation)
         /\ Keys /\ Placed /\ \A u \in Users : HasActive(u)
         /\ InvitedOnly /\ NewestOnly
         /\ \A m \in members, i \in DOMAIN invitations :
              ~(/\ m.role # "owner" /\ Redeemable(i)
                /\ invitations[i].household = m.household /\ invitations[i].user = m.user)
<1>1. PICK second \in Users, third \in Users, joined \in BOOLEAN :
        LET owners == IF joined THEN Users \ {second} ELSE Users
            guest  == RowAt(second, Home[Root], "member")
        IN
        /\ Root \notin {second, third} /\ second # third
        /\ account = [u \in Users |-> "live"]
        /\ households = [h \in Households |->
                           IF \E u \in owners : Home[u] = h
                           THEN CHOOSE u \in owners : Home[u] = h ELSE NoUser]
        /\ members = {RowAt(u, Home[u], "owner") : u \in owners}
                       \cup (IF joined THEN {guest} ELSE {})
        /\ invitations =
             <<Invited(Home[Root], second, IF joined THEN "accepted" ELSE "pending"),
               Invited(Home[third], Root, "pending")>>
  BY DEF Established
<1> DEFINE owners == IF joined THEN Users \ {second} ELSE Users
           first  == Invited(Home[Root], second, IF joined THEN "accepted" ELSE "pending")
           other  == Invited(Home[third], Root, "pending")
<1>2. /\ Root \in owners /\ third \in owners /\ owners \subseteq Users
      /\ \A u \in Users \ owners : joined /\ u = second
      /\ joined => second \notin owners
  BY <1>1, TenancyAssumption
<1>3. \A u \in Users : Home[u] \in Households /\ Home[u] \in Nat
  BY HomeAssumption DEF Households
\* Each household is its owner's.
<1>4. /\ households \in [Households -> Users \cup {NoUser}]
      /\ \A u \in owners : households[Home[u]] = u
  <2>1. households = [h \in Households |->
                        IF \E u \in owners : Home[u] = h
                        THEN CHOOSE u \in owners : Home[u] = h ELSE NoUser]
    BY <1>1
  <2> HIDE DEF owners
  <2>2. ASSUME NEW u \in owners
        PROVE  (CHOOSE v \in owners : Home[v] = Home[u]) = u
    <3>1. \A v \in owners : Home[v] = Home[u] => v = u
      BY <1>2, <2>2, HomeAssumption
    <3> QED BY <3>1
  <2>3. ASSUME NEW h \in Households
        PROVE  households[h] \in Users \cup {NoUser}
    <3>1. CASE \E u \in owners : Home[u] = h
      BY <1>2, <2>1, <2>2, <2>3, <3>1
    <3>2. CASE ~\E u \in owners : Home[u] = h
      BY <2>1, <2>3, <3>2
    <3> QED BY <3>1, <3>2
  <2> QED BY <1>2, <1>3, <2>1, <2>2, <2>3
\* Each row is an owner's or the guest's.
<1>5. \A m \in members :
        \/ /\ m.user \in owners /\ m.role = "owner" /\ m.household = Home[m.user]
           /\ m = RowAt(m.user, Home[m.user], "owner")
        \/ /\ joined /\ m = RowAt(second, Home[Root], "member")
           /\ m.user = second /\ m.role = "member" /\ m.household = Home[Root]
  BY <1>1 DEF RowAt
<1>6. \A m \in members : m.id = Home[m.user] /\ m.user \in Users
  BY <1>2, <1>5 DEF RowAt
<1>7. members \subseteq Row
  <2>1. \A u \in Users, h \in Households, role \in {"owner", "member"} :
          RowAt(u, h, role) \in Row
    BY <1>3 DEF RowAt, Row
  <2> QED BY <1>2, <1>3, <1>5, <2>1, TenancyAssumption
<1>8. /\ invitations = <<first, other>> /\ DOMAIN invitations = {1, 2}
      /\ invitations[1] = first /\ invitations[2] = other
  BY <1>1
<1>9. /\ first.household = Home[Root] /\ first.user = second
      /\ first.status = IF joined THEN "accepted" ELSE "pending"
      /\ other.household = Home[third] /\ other.user = Root
      /\ first \in Invitation /\ other \in Invitation
  BY <1>3, TenancyAssumption DEF Invited, Invitation
<1> HIDE DEF owners, first, other
<1>10. invitations \in Seq(Invitation)
  BY <1>8, <1>9
<1>11. Keys
  <2>1. ASSUME NEW m \in members, NEW n \in members, m.id = n.id \/ m.user = n.user
        PROVE  m = n
    <3>1. m.user = n.user
      BY <1>6, <2>1, HomeAssumption
    <3> QED BY <1>2, <1>5, <3>1
  <2> QED BY <2>1 DEF Keys
<1>12. Placed
  <2>1. \A u \in owners : Named(Home[u]) /\ households[Home[u]] = u
    BY <1>2, <1>3, <1>4, TenancyAssumption DEF Named
  <2> QED BY <1>2, <1>5, <1>8, <1>9, <2>1 DEF Placed
<1>13. \A u \in Users : HasActive(u)
  <2>1. \A u \in owners : RowAt(u, Home[u], "owner") \in members
    BY <1>1 DEF owners
  <2>2. joined => RowAt(second, Home[Root], "member") \in members
    BY <1>1
  <2>3. ASSUME NEW u \in owners
        PROVE  HasActive(u)
    BY <2>1 DEF HasActive, RowAt
  <2>4. joined => HasActive(second)
    BY <2>2 DEF HasActive, RowAt
  <2> QED BY <1>2, <2>3, <2>4
<1>14. InvitedOnly
  BY <1>5, <1>8, <1>9 DEF InvitedOnly
<1>15. NewestOnly
  BY <1>1, <1>8, <1>9 DEF NewestOnly
<1>16. \A m \in members, i \in DOMAIN invitations :
         ~(/\ m.role # "owner" /\ Redeemable(i)
           /\ invitations[i].household = m.household /\ invitations[i].user = m.user)
  BY <1>1, <1>5, <1>8, <1>9 DEF Redeemable
<1> QED BY <1>1, <1>4, <1>7, <1>10, <1>11, <1>12, <1>13, <1>14, <1>15, <1>16

LEMMA HomeInit == Init => HomeInv
<1> SUFFICES ASSUME Init PROVE HomeInv
  OBVIOUS
<1>1. /\ \A p \in Handlers : request[p] = Idle
      /\ failures = 0 /\ disturbed = {} /\ Rests(Idle)
  BY IdleRests DEF Init
<1>2. Shared
  <2>1. Subjects(Idle) = {}
    BY <1>1 DEF Subjects, Rests, NoRow
  <2> QED BY <1>1, <2>1 DEF Shared
<1>3. AllFit
  BY <1>1 DEF AllFit, Rests, Fits, FitsInvite, FitsAccept, FitsRemove, FitsRegister,
     FitsDelete, FitsBackfill, FitsCreation, Creating, HomeSteps, Listing
<1>4. Apart
  BY <1>1 DEF Apart, Rests, HomeSteps
<1>5. failures \in 0 .. MaxFailures
  BY <1>1, BoundsAssumption
<1>6. CASE Established
  <2>1. NoOrphans
    BY <1>6, EstablishedFits DEF NoOrphans, Row
  <2> QED BY <1>1, <1>2, <1>3, <1>4, <1>5, <1>6, <2>1, EstablishedFits, AdminInit
          DEF HomeInv, Stored, Provided, SpentOnce
<1>7. CASE BrandNew
  BY <1>1, <1>2, <1>3, <1>4, <1>5, <1>7, AdminInit
  DEF BrandNew, HomeInv, Stored, Keys, Placed, Provided, NoOrphans, InvitedOnly,
      SpentOnce, NewestOnly
<1> QED BY <1>6, <1>7 DEF Init

LEMMA BeginKeeps ==
  ASSUME HomeInv, AdminInv', Overlaps, NEW p \in Requests, Begin(p)
  PROVE  HomeInv'
<1>1. CASE \E u, v \in Users : BeginInvite(p, u, v)
  BY <1>1, BeginInviteKeeps
<1>2. CASE \E u \in Users, i \in DOMAIN invitations : BeginAccept(p, u, i)
  BY <1>2, BeginAcceptKeeps
<1>3. CASE \E u \in Users, m \in members : BeginRemove(p, u, m)
  BY <1>3, BeginRemoveKeeps
<1>4. CASE \E u \in Users, role \in {"user", "admin"} : Register(p, u, role)
  BY <1>4, RegisterKeeps
<1>5. CASE \E admin \in admins, u \in Users :
             \/ BeginDelete(p, admin, u)
             \/ \E role \in {"makeUser", "makeAdmin"} : BeginPatchRole(p, admin, u, role)
  BY <1>5, BeginRoleKeeps
<1> QED BY <1>1, <1>2, <1>3, <1>4, <1>5 DEF Begin

LEMMA ContinueKeeps ==
  ASSUME HomeInv, AdminInv', Overlaps, NEW p \in Handlers, Continue(p)
  PROVE  HomeInv'
<1>1. CASE CheckInvitee(p) \/ Supersede(p) \/ InsertInvitation(p)
  BY <1>1, CheckInviteeKeeps, SupersedeKeeps, InsertInvitationKeeps
<1>2. CASE \/ LookUpMembership(p) \/ FindActive(p) \/ CountOthers(p)
           \/ SaveSwitch(p) \/ Join(p) \/ MarkAccepted(p)
  BY <1>2, LookUpMembershipKeeps, FindActiveKeeps, CountOthersKeeps, SaveSwitchKeeps,
     JoinKeeps, MarkAcceptedKeeps
<1>3. CASE FindMember(p) \/ DeleteMember(p)
  BY <1>3, FindMemberKeeps, DeleteMemberKeeps
<1>4. CASE SaveHousehold(p) \/ AddOwner(p) \/ UndoHousehold(p)
  BY <1>4, SaveHouseholdKeeps, AddOwnerKeeps, UndoHouseholdKeeps
<1>5. CASE UndoUser(p)
  BY <1>5, AccountGoes DEF UndoUser, At
<1>6. CASE DropUser(p)
  BY <1>6, AccountGoes DEF DropUser, At
<1>7. CASE FindUser(p) \/ DropMembers(p) \/ Demote(p) \/ CountAdmins(p)
  BY <1>7, FindUserKeeps, DropMembersKeeps, DemoteKeeps, CountAdminsKeeps
<1>8. CASE RestoreAdmin(p) \/ UpdateRole(p)
  BY <1>8, RoleEndsKeeps
<1>9. CASE ListActive(p) \/ ListUsers(p)
  BY <1>9, ListActiveKeeps, ListUsersKeeps
<1> QED BY <1>1, <1>2, <1>3, <1>4, <1>5, <1>6, <1>7, <1>8, <1>9 DEF Continue

LEMMA HomeStep == HomeInv /\ [Next]_vars => HomeInv'
<1> SUFFICES ASSUME HomeInv, [Next]_vars PROVE HomeInv'
  OBVIOUS
<1>1. AdminInv'
  BY AdminStep DEF HomeInv
<1>2. CASE UNCHANGED vars
  <2>1. UNCHANGED <<account, households, members, invitations, request, failures, disturbed>>
    BY <1>2 DEF vars
  <2>2. Shared' /\ Stored' /\ Keys' /\ NoOrphans' /\ InvitedOnly' /\ NewestOnly'
    BY <2>1 DEF HomeInv, Shared, Stored, Keys, NoOrphans, InvitedOnly, NewestOnly, Subjects
  <2>3. SpentOnce' /\ Provided'
    BY <2>1 DEF HomeInv, SpentOnce, Redeemable, Provided, Provides, Visits, HasActive
  <2>4. Apart' /\ Placed'
    BY <2>1 DEF HomeInv, Apart, ApartFrom, Placed, Named
  <2>5. ASSUME NEW p \in Handlers
        PROVE  Fits(p, request[p])'
    <3> DEFINE q == request[p]
    <3>1. Fits(p, q) /\ request'[p] = q
      BY <2>1 DEF HomeInv, AllFit
    <3>2. FitsInvite(q)'
      BY <2>1, <3>1 DEF Fits, FitsInvite, Guest, Pending, Named
    <3>3. FitsAccept(q)'
      BY <2>1, <3>1 DEF Fits, FitsAccept, Live, Named, Guest, Identifies, Others
    <3>4. FitsRemove(q)' /\ FitsRegister(q)' /\ FitsDelete(q)'
      BY <2>1, <3>1 DEF Fits, FitsRemove, FitsRegister, FitsDelete, Live, Identifies, HasActive
    <3>5. FitsBackfill(q)' /\ FitsCreation(q)'
      BY <2>1, <3>1 DEF Fits, FitsBackfill, FitsCreation, Live
    <3> QED BY <3>1, <3>2, <3>3, <3>4, <3>5 DEF Fits
  <2> QED BY <1>1, <2>2, <2>3, <2>4, <2>5 DEF HomeInv, AllFit, Handlers
<1>3. CASE Next
  <2>1. Overlaps
    BY <1>3 DEF Next
  <2>2. CASE \E p \in Requests : Begin(p)
    BY <1>1, <2>1, <2>2, BeginKeeps
  <2>3. CASE \E p \in Boots : SeedAdmin(p)
    BY <1>1, <2>1, <2>3, SeedAdminKeeps
  <2>4. CASE \E p \in Handlers : Continue(p) \/ Throws(p) \/ Dies(p)
    BY <1>1, <2>1, <2>4, ContinueKeeps, ThrowsKeeps, DiesKeeps
  <2>5. CASE \E i \in 1 .. MaxInvitations : Expire(i)
    BY <1>1, <2>1, <2>5, ExpireKeeps
  <2> QED BY <1>3, <2>2, <2>3, <2>4, <2>5 DEF Next
<1> QED BY <1>2, <1>3


\* Everyone served has one home and no home has two owners, whoever registers,
\* joins, removes, deletes and boots at the same time; somebody without a home is
\* the concern of a request still under way, or a call has failed; and no
\* membership outlives its account but of a user two handlers worked on at once
\* (households.service.ts, users.service.ts, households-migration.service.ts).
THEOREM EveryoneHasOneHome == Spec => []HomesHold
<1>1. HomeInv => HomesHold
  <2> SUFFICES ASSUME HomeInv PROVE HomesHold
    OBVIOUS
  <2>1. TypeOK
    BY DEF HomeInv, Stored, AdminInv, AdminsLive, Shapes, TypeOK
  <2>2. OneHome
    BY DEF HomeInv, Keys, Placed, Named, OneHome
  <2>3. ASSUME NEW u \in Users, account[u] = "live", ~HasActive(u), ~(failures > 0)
        PROVE  \/ \E p \in Handlers :
                    /\ request[p].user = u
                    /\ request[p].op \in {"register", "remove", "delete"}
               \/ u = Root /\ \E p \in Boots : Active(p)
    <3>1. CASE \E p \in Handlers : Provides(p, u)
      BY <3>1 DEF Provides
    <3>2. CASE u = Root /\ \E p \in Handlers : Visits(p, u)
      <4>1. PICK p \in Handlers : Visits(p, u)
        BY <3>2
      <4>2. p \in Boots /\ request[p].op = "backfill"
        BY <4>1 DEF Visits, HomeInv, AllFit, Fits
      <4>3. Active(p)
        BY <4>2, IdleRests DEF Active, Rests
      <4> QED BY <3>2, <4>2, <4>3
    <3> QED BY <2>3, <3>1, <3>2 DEF HomeInv, Provided
  <2>4. Housed
    BY <2>3 DEF Housed
  <2> QED BY <2>1, <2>2, <2>4 DEF HomesHold, HomeInv
<1> QED BY <1>1, HomeInit, HomeStep, PTL DEF Spec

\* Only the invited come in, an invitation that let its user in is spent, and of
\* the invitations of a person to a household only the newest is valid: whatever
\* is sent, accepted and expires at the same time (households.service.ts,
\* inviteMember and acceptInvitation).
THEOREM InvitationsMeanWhatTheySay == Spec => []InvitationsHold
<1>1. HomeInv => InvitationsHold
  BY DEF HomeInv, InvitationsHold
<1> QED BY <1>1, HomeInit, HomeStep, PTL DEF Spec

\* A row goes when its user switches, is removed or is deleted.
LEMMA RowsGo ==
  ASSUME HomeInv, Next, NEW m \in members, m \notin members'
  PROVE  \E p \in Handlers : /\ \A r \in Handlers \ {p} : request'[r] = request[r]
                             /\ SaveSwitch(p) \/ DeleteMember(p) \/ DropMembers(p)
<1>1. \E p \in Handlers : SaveSwitch(p) \/ DeleteMember(p) \/ DropMembers(p)
  <2> SUFFICES ASSUME \A p \in Handlers : ~SaveSwitch(p) /\ ~DeleteMember(p) /\ ~DropMembers(p)
               PROVE  members \subseteq members'
    OBVIOUS
  <2>1. CASE \E p \in Requests : Begin(p)
    BY <2>1 DEF Begin, BeginInvite, BeginAccept, BeginRemove, Register, BeginDelete,
       BeginPatchRole, tenancy
  <2>2. CASE \E p \in Boots : SeedAdmin(p)
    BY <2>2 DEF SeedAdmin
  <2>3. CASE \E p \in Handlers : Throws(p) \/ Dies(p)
    BY <2>3 DEF Throws, Dies
  <2>4. CASE \E i \in 1 .. MaxInvitations : Expire(i)
    BY <2>4 DEF Expire
  <2>5. ASSUME NEW p \in Handlers, Continue(p)
        PROVE  members \subseteq members'
    <3>1. CASE Join(p) \/ AddOwner(p)
      BY <3>1 DEF Join, AddOwner, Inserted
    <3>2. CASE \/ CheckInvitee(p) \/ Supersede(p) \/ InsertInvitation(p)
               \/ LookUpMembership(p) \/ FindActive(p) \/ CountOthers(p) \/ MarkAccepted(p)
               \/ FindMember(p) \/ SaveHousehold(p) \/ UndoHousehold(p)
      BY <3>2 DEF CheckInvitee, Supersede, InsertInvitation, LookUpMembership, FindActive,
         CountOthers, MarkAccepted, FindMember, SaveHousehold, UndoHousehold
    <3>3. CASE \/ UndoUser(p) \/ FindUser(p) \/ DropUser(p) \/ Demote(p) \/ CountAdmins(p)
               \/ RestoreAdmin(p) \/ UpdateRole(p) \/ ListActive(p) \/ ListUsers(p)
      BY <3>3 DEF UndoUser, FindUser, DropUser, Demote, CountAdmins, RestoreAdmin,
         UpdateRole, ListActive, ListUsers, tenancy
    <3> QED BY <2>5, <3>1, <3>2, <3>3 DEF Continue
  <2> QED BY <2>1, <2>2, <2>3, <2>4, <2>5 DEF Next
<1>2. PICK p \in Handlers : SaveSwitch(p) \/ DeleteMember(p) \/ DropMembers(p)
  BY <1>1
<1>3. (\E step : GoTo(p, step)) \/ Finish(p)
  BY <1>2 DEF SaveSwitch, DeleteMember, DropMembers
<1>4. \A r \in Handlers \ {p} : request'[r] = request[r]
  BY <1>3, GoesOn, EndsResting DEF HomeInv
<1> QED BY <1>2, <1>4

\* An owner who leaves a household by accepting an invitation leaves it empty, and
\* nobody is removed but from the household of whoever removes them: what was
\* counted or read some operations ago still holds when the row is written, unless
\* two handlers worked on the same household or user (acceptInvitation,
\* removeMember).
THEOREM MembersLeaveRightly == Spec => LeavesRightly
<1>1. HomeInv /\ [Next]_vars => [LeavesNobody]_vars
  <2> SUFFICES ASSUME HomeInv, Next, NEW m \in members \ members',
                      m.role = "owner", m.household \notin disturbed',
                      ~\E p \in Requests : At(p, "delete", "dropMembers"),
                      NEW n \in members'
               PROVE  n.household # m.household
    BY DEF LeavesNobody
  <2>1. PICK p \in Handlers : SaveSwitch(p) \/ DeleteMember(p) \/ DropMembers(p)
    BY RowsGo
  <2> DEFINE q == request[p]
  <2>2. Fits(p, q) /\ m.household \notin disturbed
    BY SharedKept DEF HomeInv, AllFit, Next
  <2>3. CASE SaveSwitch(p)
    <3> DEFINE row == [q.doc EXCEPT !.household = q.household, !.role = "member"]
    <3>1. /\ q.op = "accept" /\ q.at = "switch"
          /\ members' = {o \in members : o.id # q.doc.id} \cup {row}
      BY <2>3 DEF SaveSwitch, At
    <3>2. m.id = q.doc.id /\ Identifies(q)
      BY <2>2, <3>1 DEF Fits, FitsAccept
    <3>3. m = q.doc /\ m.user = q.user /\ m.household # q.household /\ q.doc.role = "owner"
      BY <2>2, <3>1, <3>2 DEF Identifies, Fits, FitsAccept
    <3>4. Others(q) = {}
      BY <2>2, <3>1, <3>3 DEF Fits, FitsAccept
    <3>5. row.household = q.household
      BY <3>2 DEF Identifies, Row
    <3> HIDE DEF row
    <3>6. ASSUME n \in members, n.id # q.doc.id
          PROVE  n.household # m.household
      <4>1. n.user # q.user
        BY <3>2, <3>3, <3>6 DEF HomeInv, Keys
      <4> QED BY <3>3, <3>4, <3>6, <4>1 DEF Others
    <3> QED BY <3>1, <3>3, <3>5, <3>6
  <2>4. CASE DeleteMember(p)
    BY <2>2, <2>4 DEF DeleteMember, At, Fits, FitsRemove
  <2>5. CASE DropMembers(p)
    BY <2>5 DEF DropMembers, At, HomeInv, AdminInv, Governed, Governs, RoleOps
  <2> QED BY <2>1, <2>3, <2>4, <2>5
<1>2. HomeInv /\ [Next]_vars => [RemovesHere]_vars
  <2> SUFFICES ASSUME HomeInv, Next, NEW p \in Requests, NEW m \in members \ members',
                      At(p, "remove", "delete"), request'[p] # request[p],
                      m.user \notin disturbed
               PROVE  m.household = request[p].household
    BY DEF RemovesHere
  <2>1. DeleteMember(p)
    BY RowsGo DEF Handlers, SaveSwitch, DropMembers, At
  <2>2. Fits(p, request[p]) /\ m.id = request[p].doc.id
    BY <2>1 DEF DeleteMember, HomeInv, AllFit, Handlers
  <2> QED BY <2>2 DEF At, Fits, FitsRemove, Identifies
<1> QED BY <1>1, <1>2, HomeInit, HomeStep, PTL
        DEF Spec, LeavesRightly, OwnersLeaveLast, RemovesOwnMember
=============================================================================
