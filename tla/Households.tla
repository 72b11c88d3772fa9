----------------------------- MODULE Households -----------------------------
(***************************************************************************)
(* Households, memberships and invitations (households.service.ts).        *)
(*                                                                         *)
(* A household and its owner's membership are two documents written one    *)
(* after the other; a user's active membership is one document that        *)
(* acceptance switches in place; an invitation is spent in a write of its  *)
(* own.  Each handler is the sequence of its database operations.          *)
(*                                                                         *)
(* Memberships are written with status active only, so a row is its id,    *)
(* user, household and role.  Roles other than owner are never told apart. *)
(* A user stands for the email invitations are addressed to.               *)
(***************************************************************************)
EXTENDS Integers, Sequences, FiniteSets

CONSTANTS
  Users,           \* people, each with one account and email at most
  NoUser,          \* model value: no such user
  NumHouseholds,   \* bound on households that exist at the same time
  MaxInvitations,  \* bound on invitations ever sent
  Requests,        \* HTTP requests, each of which runs once
  Boots,           \* replicas, each of which boots any number of times
  MaxFailures      \* bound on database calls that throw and processes that die

Households == 1 .. NumHouseholds

VARIABLES
  account,      \* account[u]: "new" before registration, "live", or "gone"
  households,   \* households[h]: the household's ownerId, or NoUser
  members,      \* the membership rows
  invitations,  \* the invitations, in the order they were written
  request,      \* request[p]: what the handler p has in memory
  failures      \* number of failures so far

\* (Mutant: the index was never built.)
HasActiveUnindexed(u) == FALSE

\* addMember()'s unique index on the user of active rows.
HasActive(u) == \E m \in members : m.user = u

RowOf(u) == CHOOSE m \in members : m.user = u

NoRow == [id |-> 0, user |-> NoUser, household |-> 0, role |-> "none"]

\* A handler that has not begun: op, the step it is at, the user it is about,
\* the household the guard resolved or the invitation names, the row and the
\* invitation it has read, the household it creates, whether it demoted an
\* administrator, and the users a backfill still has to look at.
Idle == [op |-> "none", at |-> "begin", user |-> NoUser, household |-> 0,
         doc |-> NoRow, invitation |-> 0, home |-> 0, demoted |-> FALSE,
         todo |-> {}]

Done == [Idle EXCEPT !.op = "done"]

Handlers == Requests \cup Boots

\* A boot can happen again, a request cannot.
Over(p) == IF p \in Boots THEN Idle ELSE Done

Becomes(p, q) == request' = [request EXCEPT ![p] = q]

Finish(p) == Becomes(p, Over(p))

GoTo(p, step) == Becomes(p, [request[p] EXCEPT !.at = step])

At(p, op, step) == request[p].op = op /\ request[p].at = step

\* Document ids are never reused while anything still holds them.
NewRowId ==
  LET held == {m.id : m \in members} \cup {request[p].doc.id : p \in Handlers}
  IN  CHOOSE i \in 1 .. Cardinality(held) + 1 : i \notin held

HouseholdsHeld ==
  {m.household : m \in members}
    \cup {invitations[i].household : i \in DOMAIN invitations}
    \cup UNION {{request[p].household, request[p].home, request[p].doc.household}
                : p \in Handlers}

Unused == {h \in Households : households[h] = NoUser} \ HouseholdsHeld

\* (Mutant: the row does not say which household.)
InsertedNowhere(u, h, role) ==
  members \cup {[id |-> NewRowId, user |-> u, household |-> 0, role |-> role]}

Inserted(u, h, role) ==
  members \cup {[id |-> NewRowId, user |-> u, household |-> h, role |-> role]}

-----------------------------------------------------------------------------
(* createHousehold(): the household, then its owner's row; if the row      *)
(* cannot be written the household is deleted again.  The three callers    *)
(* differ in what a failure means to them.                                 *)

NextUser(q) ==
  IF q.todo = {} THEN Idle
  ELSE LET u == CHOOSE v \in q.todo : TRUE
       IN  [q EXCEPT !.user = u, !.todo = q.todo \ {u},
                     !.at = "createHousehold", !.home = 0]

\* backfill goes on to the next user; the other two return.
Created(p) ==
  IF request[p].op = "backfill" THEN NextUser(request[p]) ELSE Over(p)

\* After a ConflictException a backfill carries on, registration rolls the user
\* back, and the re-provisioning of a removed member only logs it.
NotCreated(p, conflict) ==
  LET q == request[p] IN
  IF q.op = "register" THEN [q EXCEPT !.at = "undoUser"]
  ELSE IF q.op = "backfill" /\ conflict THEN NextUser(q)
  ELSE Over(p)

SaveHousehold(p) ==
  /\ request[p].at = "createHousehold"
  /\ \E h \in Unused :
       /\ \A g \in Unused : h <= g
       /\ households' = [households EXCEPT ![h] = request[p].user]
       /\ Becomes(p, [request[p] EXCEPT !.at = "addOwner", !.home = h])
  /\ UNCHANGED <<account, members, invitations, failures>>

AddOwner(p) ==
  LET q == request[p] IN
  /\ q.at = "addOwner"
  /\ IF HasActive(q.user)
     THEN /\ GoTo(p, "undoHousehold")
          /\ UNCHANGED members
     ELSE /\ members' = Inserted(q.user, q.home, "owner")
          /\ Becomes(p, Created(p))
  /\ UNCHANGED <<account, households, invitations, failures>>

UndoHousehold(p) ==
  /\ request[p].at \in {"undoHousehold", "undoAfterError"}
  /\ households' = [households EXCEPT ![request[p].home] = NoUser]
  /\ Becomes(p, NotCreated(p, request[p].at = "undoHousehold"))
  /\ UNCHANGED <<account, members, invitations, failures>>

-----------------------------------------------------------------------------
(* inviteMember().                                                         *)

\* JwtStrategy and HouseholdGuard: the caller exists and has a membership,
\* whose household and role the request carries from here on.
Guarded(u) == account[u] = "live" /\ HasActive(u)

BeginInvite(p, u, invitee) ==
  /\ request[p] = Idle
  /\ Guarded(u) /\ RowOf(u).role = "owner"
  /\ Len(invitations) + Cardinality({r \in Requests : request[r].op = "invite"})
       < MaxInvitations
  /\ Becomes(p, [Idle EXCEPT !.op = "invite", !.at = "check", !.user = invitee,
                             !.household = RowOf(u).household])
  /\ UNCHANGED <<account, households, members, invitations, failures>>

CheckInvitee(p) ==
  LET q == request[p] IN
  /\ At(p, "invite", "check")
  /\ IF \E m \in members : m.user = q.user /\ m.household = q.household
                           /\ account[q.user] = "live"
     THEN Finish(p) ELSE GoTo(p, "supersede")
  /\ UNCHANGED <<account, households, members, invitations, failures>>

\* (Mutant: an earlier invitation stays valid.)
SupersededNever(h, u) == invitations

Superseded(h, u) ==
  [i \in DOMAIN invitations |->
     IF /\ invitations[i].household = h /\ invitations[i].user = u
        /\ invitations[i].status = "pending"
     THEN [invitations[i] EXCEPT !.status = "revoked"] ELSE invitations[i]]

Supersede(p) ==
  LET q == request[p] IN
  /\ At(p, "invite", "supersede")
  /\ invitations' = Superseded(q.household, q.user)
  /\ GoTo(p, "insert")
  /\ UNCHANGED <<account, households, members, failures>>

InsertInvitation(p) ==
  LET q == request[p] IN
  /\ At(p, "invite", "insert")
  /\ invitations' = Append(invitations,
       [household |-> q.household, user |-> q.user, status |-> "pending",
        expired |-> FALSE])
  /\ Finish(p)
  /\ UNCHANGED <<account, households, members, failures>>

\* 72 hours pass.  The stored status does not change.
Expire(i) ==
  /\ i \in DOMAIN invitations
  /\ invitations[i].status = "pending" /\ ~invitations[i].expired
  /\ invitations' = [invitations EXCEPT ![i].expired = TRUE]
  /\ UNCHANGED <<account, households, members, request, failures>>

-----------------------------------------------------------------------------
(* acceptInvitation(): find the invitation, look for a membership of its   *)
(* household, switch the active one or add one, mark the invitation.       *)

Redeemable(i) == invitations[i].status = "pending" /\ ~invitations[i].expired

\* (Mutant: whoever has the token may accept.)
BeginAcceptAnyone(p, u, i) ==
  /\ request[p] = Idle
  /\ account[u] = "live"
  /\ i \in DOMAIN invitations /\ Redeemable(i)
  /\ Becomes(p, [Idle EXCEPT !.op = "accept", !.at = "lookup", !.user = u,
                   !.household = invitations[i].household, !.invitation = i])
  /\ UNCHANGED <<account, households, members, invitations, failures>>

BeginAccept(p, u, i) ==
  /\ request[p] = Idle
  /\ account[u] = "live"
  /\ i \in DOMAIN invitations /\ Redeemable(i) /\ invitations[i].user = u
  /\ Becomes(p, [Idle EXCEPT !.op = "accept", !.at = "lookup", !.user = u,
                   !.household = invitations[i].household, !.invitation = i])
  /\ UNCHANGED <<account, households, members, invitations, failures>>

\* Already an active member: only the invitation is left to be marked.
LookUpMembership(p) ==
  LET q == request[p] IN
  /\ At(p, "accept", "lookup")
  /\ GoTo(p, IF HasActive(q.user) /\ RowOf(q.user).household = q.household
             THEN "mark" ELSE "active")
  /\ UNCHANGED <<account, households, members, invitations, failures>>

FindActive(p) ==
  LET q == request[p] IN
  /\ At(p, "accept", "active")
  /\ Becomes(p,
       IF ~HasActive(q.user) THEN [q EXCEPT !.at = "join"]
       ELSE [q EXCEPT !.doc = RowOf(q.user),
               !.at = IF RowOf(q.user).role = "owner" THEN "count" ELSE "switch"])
  /\ UNCHANGED <<account, households, members, invitations, failures>>

\* (Mutant: an owner may leave other members behind.)
OthersIgnored(q) == {}

Others(q) ==
  {m \in members : m.household = q.doc.household /\ m.user # q.user}

CountOthers(p) ==
  /\ At(p, "accept", "count")
  /\ IF Others(request[p]) # {} THEN Finish(p) ELSE GoTo(p, "switch")
  /\ UNCHANGED <<account, households, members, invitations, failures>>

\* saveSwitch(): save() updates the row by its id and throws when it is gone.
SaveSwitch(p) ==
  LET q == request[p] IN
  /\ At(p, "accept", "switch")
  /\ IF \E m \in members : m.id = q.doc.id
     THEN /\ members' = {m \in members : m.id # q.doc.id}
               \cup {[q.doc EXCEPT !.household = q.household, !.role = "member"]}
          /\ GoTo(p, "mark")
     ELSE Finish(p) /\ UNCHANGED members
  /\ UNCHANGED <<account, households, invitations, failures>>

Join(p) ==
  LET q == request[p] IN
  /\ At(p, "accept", "join")
  /\ IF HasActive(q.user) THEN Finish(p) /\ UNCHANGED members
     ELSE /\ members' = Inserted(q.user, q.household, "member")
          /\ GoTo(p, "mark")
  /\ UNCHANGED <<account, households, invitations, failures>>

\* (Mutant: the invitation is not marked.)
MarkNever(p) ==
  /\ At(p, "accept", "mark")
  /\ Finish(p)
  /\ UNCHANGED <<account, households, members, invitations, failures>>

\* save() of the invitation read at the beginning, whatever became of it.
MarkAccepted(p) ==
  /\ At(p, "accept", "mark")
  /\ invitations' = [invitations EXCEPT ![request[p].invitation].status = "accepted"]
  /\ Finish(p)
  /\ UNCHANGED <<account, households, members, failures>>

-----------------------------------------------------------------------------
(* removeMember(): find the row, delete it by its id, give the removed     *)
(* user a household of their own.                                          *)

\* The caller names any membership.
BeginRemove(p, u, m) ==
  /\ request[p] = Idle
  /\ Guarded(u) /\ RowOf(u).role = "owner"
  /\ m \in members
  /\ Becomes(p, [Idle EXCEPT !.op = "remove", !.at = "find", !.doc = m,
                   !.user = m.user, !.household = RowOf(u).household])
  /\ UNCHANGED <<account, households, members, invitations, failures>>

\* (Mutant: the membership may be another household's.)
RemovableAnywhere(m, h) == m.role # "owner"

\* The row must belong to the caller's household and not be its owner's.
Removable(m, h) == m.household = h /\ m.role # "owner"

FindMember(p) ==
  LET q == request[p] IN
  /\ At(p, "remove", "find")
  /\ IF \E m \in members : m.id = q.doc.id /\ Removable(m, q.household)
     THEN GoTo(p, "delete") ELSE Finish(p)
  /\ UNCHANGED <<account, households, members, invitations, failures>>

\* (Mutant: the removed user gets no household of their own.)
DeleteMemberOnly(p) ==
  /\ At(p, "remove", "delete")
  /\ members' = {m \in members : m.id # request[p].doc.id}
  /\ Finish(p)
  /\ UNCHANGED <<account, households, invitations, failures>>

DeleteMember(p) ==
  /\ At(p, "remove", "delete")
  /\ members' = {m \in members : m.id # request[p].doc.id}
  /\ GoTo(p, "createHousehold")
  /\ UNCHANGED <<account, households, invitations, failures>>
=============================================================================
