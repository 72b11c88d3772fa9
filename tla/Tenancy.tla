------------------------------ MODULE Tenancy ------------------------------
(***************************************************************************)
(* Accounts and administrators (users.service.ts, admin.controller.ts) and *)
(* the tasks of a boot (households-migration.service.ts), composed with    *)
(* the households every account needs: registration creates one,           *)
(* deletion leaves it, a boot repairs what is missing.                     *)
(***************************************************************************)
EXTENDS Households

CONSTANTS
  Root,   \* the user whose name is the seeded administrator's
  Home    \* Home[u]: the household u owns in an established service

ASSUME TenancyAssumption ==
  Root \in Users /\ NoUser \notin Users /\ Requests \cap Boots = {}

\* A database holds finitely many of anything; people are not numbers, which
\* households and documents are.
ASSUME BoundsAssumption ==
  /\ IsFiniteSet(Users) /\ IsFiniteSet(Handlers)
  /\ (Users \cup {NoUser}) \cap Nat = {}
  /\ NumHouseholds \in Nat /\ MaxInvitations \in Nat /\ MaxFailures \in Nat

\* No two people own the same household.
ASSUME HomeAssumption ==
  /\ Home \in [Users -> Households]
  /\ \A u, v \in Users : Home[u] = Home[v] => u = v

VARIABLES
  admins,     \* users whose role is admin
  disturbed,  \* history: users and households two handlers worked on at once
  overtaken   \* history: a check was lost, or a role or a deletion was written of
              \* one whom no check covered (see AdminRemains)

vars == <<account, households, members, invitations, request, failures, admins,
          disturbed, overtaken>>

tenancy == <<account, households, members, invitations, failures>>

\* What a handler works on, and a backfill is going to.
Subjects(q) ==
  ({q.user, q.household, q.home, q.doc.household} \ {NoUser, 0})
    \cup (IF q.at = "listUsers" THEN {} ELSE q.todo)

Overlapping(req) ==
  UNION {UNION {Subjects(req[p]) \cap Subjects(req[r]) : r \in Handlers \ {p}} :
           p \in Handlers}

\* The check of a demotion is what a failure must not lose.
Unchecked(q) == q.at \in {"countAdmins", "restoreAdmin"}

\* A deletion that no check covers: of one who is an administrator, or whose
\* demotion another request is still counting.
Overtakes(u) ==
  u \in admins \/ \E p \in Handlers : Unchecked(request[p]) /\ request[p].user = u

-----------------------------------------------------------------------------
(* users.service.ts: create() and remove().                                *)

\* The account is saved first; createHousehold() follows.  People register as
\* users; an administrator may create another one.
Register(p, u, role) ==
  /\ request[p] = Idle
  /\ account[u] = "new"
  /\ role = "admin" => admins # {}
  /\ account' = [account EXCEPT ![u] = "live"]
  /\ admins' = IF role = "admin" THEN admins \cup {u} ELSE admins
  /\ Becomes(p, [Idle EXCEPT !.op = "register", !.at = "createHousehold",
                             !.user = u])
  /\ UNCHANGED <<households, members, invitations, failures, overtaken>>

UndoUser(p) ==
  /\ At(p, "register", "undoUser")
  /\ account' = [account EXCEPT ![request[p].user] = "gone"]
  /\ admins' = admins \ {request[p].user}
  /\ overtaken' = (overtaken \/ Overtakes(request[p].user))
  /\ Finish(p)
  /\ UNCHANGED <<households, members, invitations, failures>>

\* JwtStrategy and RolesGuard: the role is read with the request.
BeginDelete(p, admin, u) ==
  /\ request[p] = Idle
  /\ admin \in admins /\ admin # u /\ account[u] # "new"
  /\ Becomes(p, [Idle EXCEPT !.op = "delete", !.at = "demote", !.user = u])
  /\ UNCHANGED <<tenancy, admins, overtaken>>

\* findById(): a missing user ends the request; an error restores the role.
FindUser(p) ==
  LET q == request[p] IN
  /\ At(p, "delete", "find")
  /\ IF account[q.user] = "live" THEN GoTo(p, "dropMembers")
     ELSE IF q.demoted THEN GoTo(p, "repromote") ELSE Finish(p)
  /\ UNCHANGED <<tenancy, admins, overtaken>>

\* (Mutant: the account goes before its memberships.)
DropMembersLast(p) ==
  /\ At(p, "delete", "dropMembers")
  /\ GoTo(p, "dropUser")
  /\ UNCHANGED <<tenancy, admins, overtaken>>

\* removeMembershipsByUser(): before the account, so that a failure in between
\* leaves no membership without a user.
DropMembers(p) ==
  /\ At(p, "delete", "dropMembers")
  /\ members' = {m \in members : m.user # request[p].user}
  /\ GoTo(p, "dropUser")
  /\ UNCHANGED <<account, households, invitations, failures, admins, overtaken>>

DropUser(p) ==
  LET u == request[p].user IN
  /\ At(p, "delete", "dropUser")
  /\ account' = [account EXCEPT ![u] = "gone"]
  /\ admins' = admins \ {u}
  /\ overtaken' = (overtaken \/ Overtakes(u))
  /\ Finish(p)
  /\ UNCHANGED <<households, members, invitations, failures>>

-----------------------------------------------------------------------------
(* Administrators: PATCH of a role, and demoteAdminSafely().               *)

BeginPatchRole(p, admin, u, role) ==
  /\ request[p] = Idle
  /\ admin \in admins /\ account[u] # "new"
  /\ Becomes(p, [Idle EXCEPT !.op = role, !.at = IF role = "makeUser" THEN "demote" ELSE "update",
                             !.user = u])
  /\ UNCHANGED <<tenancy, admins, overtaken>>

\* The step after demoteAdminSafely() returns.
Onward(q) == IF q.op = "delete" THEN "find" ELSE "update"

\* An atomic findOneAndUpdate() that matches administrators only.
Demote(p) ==
  LET q == request[p] IN
  /\ q.at = "demote"
  /\ IF q.user \in admins
     THEN /\ admins' = admins \ {q.user}
          /\ Becomes(p, [q EXCEPT !.at = "countAdmins", !.demoted = TRUE])
     ELSE /\ GoTo(p, Onward(q))
          /\ UNCHANGED admins
  /\ UNCHANGED <<tenancy, overtaken>>

\* (Mutant: the demotion of the last administrator stands.)
CountAdminsUnchecked(p) ==
  /\ request[p].at = "countAdmins"
  /\ GoTo(p, Onward(request[p]))
  /\ UNCHANGED <<tenancy, admins, overtaken>>

\* None left: the demotion is taken back and the request rejected.
CountAdmins(p) ==
  /\ request[p].at = "countAdmins"
  /\ GoTo(p, IF admins = {} THEN "restoreAdmin" ELSE Onward(request[p]))
  /\ UNCHANGED <<tenancy, admins, overtaken>>

\* Both findByIdAndUpdate(): no upsert, so a deleted user stays deleted.
RestoreAdmin(p) ==
  LET u == request[p].user IN
  /\ request[p].at \in {"restoreAdmin", "repromote"}
  /\ admins' = IF account[u] = "live" THEN admins \cup {u} ELSE admins
  /\ Finish(p)
  /\ UNCHANGED <<tenancy, overtaken>>

\* update(): writes the requested role, whatever the role is by now.
UpdateRole(p) ==
  LET q == request[p] IN
  /\ q.at = "update"
  /\ admins' = IF account[q.user] # "live" THEN admins
               ELSE IF q.op = "makeAdmin" THEN admins \cup {q.user}
               ELSE admins \ {q.user}
  /\ overtaken' = (overtaken \/ (q.op = "makeUser" /\ q.user \in admins))
  /\ Finish(p)
  /\ UNCHANGED tenancy

-----------------------------------------------------------------------------
(* A boot: seedAdmin(), then backfillPersonalHouseholds().                 *)

\* The count and the insert are taken together: a second insert of the same
\* name is refused by its index and swallowed.
SeedAdmin(p) ==
  /\ p \in Boots /\ request[p] = Idle
  /\ IF admins = {} /\ account[Root] = "new"
     THEN /\ account' = [account EXCEPT ![Root] = "live"]
          /\ admins' = {Root}
     ELSE UNCHANGED <<account, admins>>
  /\ Becomes(p, [Idle EXCEPT !.op = "backfill", !.at = "listActive"])
  /\ UNCHANGED <<households, members, invitations, failures, overtaken>>

\* distinct(): the users that have an active membership.
ListActive(p) ==
  /\ At(p, "backfill", "listActive")
  /\ Becomes(p, [request[p] EXCEPT !.at = "listUsers",
                                   !.todo = {m.user : m \in members}])
  /\ UNCHANGED <<tenancy, admins, overtaken>>

\* find(): every user there is by now; those listed before are skipped.
ListUsers(p) ==
  LET q == request[p]
      live == {u \in Users : account[u] = "live"}
  IN
  /\ At(p, "backfill", "listUsers")
  /\ Becomes(p, NextUser([q EXCEPT !.todo = live \ q.todo]))
  /\ UNCHANGED <<tenancy, admins, overtaken>>

-----------------------------------------------------------------------------
(* Failures.                                                               *)

Active(p) == request[p] \notin {Idle, Done}

\* A database call throws: what the catch blocks around it do.
Throws(p) ==
  LET q == request[p] IN
  /\ Active(p) /\ failures < MaxFailures
  /\ failures' = failures + 1
  /\ Becomes(p,
       IF q.at = "addOwner" THEN [q EXCEPT !.at = "undoAfterError"]
       ELSE IF q.at \in {"createHousehold", "undoAfterError"}
         THEN NotCreated(p, FALSE)
       ELSE IF q.at = "undoHousehold" THEN NotCreated(p, TRUE)
       ELSE IF q.op = "delete" /\ q.demoted
               /\ q.at \in {"find", "dropMembers", "dropUser"}
         THEN [q EXCEPT !.at = "repromote"]
       ELSE Over(p))
  /\ overtaken' = (overtaken \/ Unchecked(request[p]))
  /\ UNCHANGED <<account, households, members, invitations, admins>>

\* The process dies.
Dies(p) ==
  /\ Active(p) /\ failures < MaxFailures
  /\ failures' = failures + 1
  /\ Finish(p)
  /\ overtaken' = (overtaken \/ Unchecked(request[p]))
  /\ UNCHANGED <<account, households, members, invitations, admins>>

-----------------------------------------------------------------------------
\* An established service: everybody has a household, a second person was invited
\* to the administrator's and may have joined it, and the administrator to a
\* third person's.  Or a new service that nobody has used.
Invited(h, u, status) ==
  [household |-> h, user |-> u, status |-> status, expired |-> FALSE]

RowAt(u, h, role) == [id |-> Home[u], user |-> u, household |-> h, role |-> role]

Established ==
  \E second, third \in Users, joined \in BOOLEAN :
    LET owners == IF joined THEN Users \ {second} ELSE Users
        guest  == RowAt(second, Home[Root], "member")
    IN
    /\ Root \notin {second, third} /\ second # third
    /\ account = [u \in Users |-> "live"]
    /\ households = [h \in Households |->
                       IF \E u \in owners : Home[u] = h
                       THEN CHOOSE u \in owners : Home[u] = h ELSE NoUser]
    /\ members = {RowAt(u, Home[u], "owner") : u \in owners}
                   \cup (IF joined THEN {guest} ELSE {})
    /\ admins \in {{Root}, {Root, second}}
    /\ invitations =
         <<Invited(Home[Root], second, IF joined THEN "accepted" ELSE "pending"),
           Invited(Home[third], Root, "pending")>>

BrandNew ==
  /\ account = [u \in Users |-> "new"]
  /\ households = [h \in Households |-> NoUser]
  /\ members = {} /\ invitations = <<>> /\ admins = {}

Init ==
  /\ Established \/ BrandNew
  /\ request = [p \in Handlers |-> Idle]
  /\ failures = 0
  /\ disturbed = {}
  /\ overtaken = FALSE

\* main.ts seeds the administrator before it listens.
Serving == account[Root] # "new"

\* What users begin.
Begin(p) ==
  \/ \E u, v \in Users : BeginInvite(p, u, v) /\ UNCHANGED <<admins, overtaken>>
  \/ \E u \in Users, i \in DOMAIN invitations :
       BeginAccept(p, u, i) /\ UNCHANGED <<admins, overtaken>>
  \/ \E u \in Users, m \in members :
       BeginRemove(p, u, m) /\ UNCHANGED <<admins, overtaken>>
  \/ \E u \in Users, role \in {"user", "admin"} : Register(p, u, role)
  \/ \E admin \in admins, u \in Users :
       \/ BeginDelete(p, admin, u)
       \/ \E role \in {"makeUser", "makeAdmin"} : BeginPatchRole(p, admin, u, role)

\* What a handler does once it has begun.
Continue(p) ==
  \/ /\ \/ CheckInvitee(p) \/ Supersede(p) \/ InsertInvitation(p)
        \/ LookUpMembership(p) \/ FindActive(p) \/ CountOthers(p)
        \/ SaveSwitch(p) \/ Join(p) \/ MarkAccepted(p)
        \/ FindMember(p) \/ DeleteMember(p)
        \/ SaveHousehold(p) \/ AddOwner(p) \/ UndoHousehold(p)
     /\ UNCHANGED <<admins, overtaken>>
  \/ UndoUser(p) \/ FindUser(p) \/ DropMembers(p) \/ DropUser(p)
  \/ Demote(p) \/ CountAdmins(p) \/ RestoreAdmin(p) \/ UpdateRole(p)
  \/ ListActive(p) \/ ListUsers(p)

Overlaps == disturbed' = disturbed \cup Overlapping(request')

Next ==
  /\ \/ Serving /\ \E p \in Requests : request[p] = Idle /\ Begin(p)
     \/ \E p \in Boots : SeedAdmin(p)
     \/ \E p \in Handlers :
          request[p] \notin {Idle, Done} /\ (Continue(p) \/ Throws(p) \/ Dies(p))
     \/ \E i \in 1 .. MaxInvitations :
          Expire(i) /\ UNCHANGED <<admins, overtaken>>
  /\ Overlaps

Spec == Init /\ [][Next]_vars

-----------------------------------------------------------------------------
(* Properties.                                                             *)

Row == [id : Nat, user : Users, household : Households, role : {"owner", "member"}]

Invitation == [household : Households, user : Users,
               status : {"pending", "revoked", "accepted"}, expired : BOOLEAN]

\* Types of the stored documents.
TypeOK ==
  /\ account \in [Users -> {"new", "live", "gone"}]
  /\ households \in [Households -> Users \cup {NoUser}]
  /\ members \subseteq Row
  /\ invitations \in Seq(Invitation)
  /\ failures \in 0 .. MaxFailures
  /\ admins \subseteq Users
  /\ overtaken \in BOOLEAN

\* A user is an active member of one household; the household exists; and the
\* role of owner belongs to the user the household names as its owner, so that
\* no household has two.
OneHome ==
  \A m \in members :
    /\ \A n \in members : n.user = m.user => n = m
    /\ households[m.household] # NoUser
    /\ m.role = "owner" => households[m.household] = m.user

\* Nobody is locked out of every household-scoped route, except while a request
\* about them is still under way or after a failure.
Housed ==
  \A u \in Users :
    account[u] = "live" /\ ~HasActive(u) =>
      \/ failures > 0
      \/ \E p \in Handlers :
           /\ request[p].user = u
           /\ request[p].op \in {"register", "remove", "delete"}
      \/ u = Root /\ \E p \in Boots : Active(p)

\* No membership points at a deleted account, whatever fails, as long as no two
\* handlers work on the same user.
NoOrphans ==
  \A m \in members : account[m.user] = "live" \/ m.user \in disturbed

\* Whoever belongs to a household they do not own was invited to it.
InvitedOnly ==
  \A m \in members : m.role = "owner" \/
    \E i \in DOMAIN invitations :
      invitations[i].household = m.household /\ invitations[i].user = m.user

\* An invitation that brought its user in cannot bring them in again later, but
\* after a failure or for users two handlers worked on at once.
SpentOnce ==
  \A m \in members, i \in DOMAIN invitations :
    /\ m.role # "owner" /\ Redeemable(i)
    /\ invitations[i].household = m.household /\ invitations[i].user = m.user
    => \/ failures > 0 \/ m.user \in disturbed
       \/ \E p \in Requests : request[p].invitation = i

\* Only the newest invitation of a person to a household is valid, but for people
\* two handlers worked on at once.
NewestOnly ==
  \A i, j \in DOMAIN invitations :
    /\ i # j /\ invitations[i].status = "pending" /\ invitations[j].status = "pending"
    /\ invitations[i].household = invitations[j].household
    /\ invitations[i].user = invitations[j].user
    => invitations[i].user \in disturbed

\* An owner who joins another household leaves nobody behind, but whoever another
\* handler brought in meanwhile.
LeavesNobody ==
  \A m \in members \ members' :
    /\ m.role = "owner" /\ m.household \notin disturbed'
    /\ ~\E p \in Requests : At(p, "delete", "dropMembers")
    => \A n \in members' : n.household # m.household

OwnersLeaveLast == [][LeavesNobody]_vars

\* Removing a member never takes anyone out of another household, unless another
\* handler worked on that member meanwhile.
RemovesHere ==
  \A p \in Requests : \A m \in members \ members' :
    /\ At(p, "remove", "delete") /\ request'[p] # request[p]
    /\ m.user \notin disturbed
    => m.household = request[p].household

RemovesOwnMember == [][RemovesHere]_vars

\* Once the service listens there is an administrator, except between a demotion
\* and the count that takes it back.  demoteAdminSafely() secures that only for
\* the demotions it makes itself, and `overtaken` marks what escapes it:
\*   - a role written over an administrator's by a request whose own demotion
\*     did nothing, for another request's was not taken back yet, or that had
\*     been demoted before and promoted since.  Two PATCHes that make a user of
\*     the last administrator do it, and nothing need fail;
\*   - the deletion of an administrator who was promoted after the check, or
\*     whose demotion another request had not counted yet, or who was only just
\*     created and is removed again by the roll-back of create();
\*   - a failure between the demotion and the write that takes it back.
AdminRemains ==
  admins = {} =>
    \/ overtaken \/ ~Serving
    \/ \E p \in Requests : Unchecked(request[p])

\* Who belongs where: everyone served has one home, no home has two owners, and
\* no membership is left of anyone deleted.
HomesHold == TypeOK /\ OneHome /\ Housed /\ NoOrphans

\* Invitations mean what they say: only the invited come in, once each, by the
\* newest link.
InvitationsHold == InvitedOnly /\ SpentOnce /\ NewestOnly

\* No step takes a member out of a household wrongly, be it the last owner by an
\* acceptance or a stranger by a removal.
LeavesRightly == OwnersLeaveLast /\ RemovesOwnMember

=============================================================================
