----------------------------- MODULE Categories -----------------------------
(***************************************************************************)
(* Category groups and categories of one household                         *)
(* (categories.service.ts): the default set and its seeder, the write      *)
(* side, and removal, which archives what something still refers to.       *)
(*                                                                         *)
(* sortOrder and isIncome are left out: nothing here reads them.           *)
(***************************************************************************)
EXTENDS Records

CONSTANTS
  Defaults,        \* the entries of the default set: <<group, None>> before
                   \* <<group, category>> for each of its categories
  GroupNames, CategoryNames,
  NumGroups, NumCategories   \* bounds on documents ever inserted

\* The entry h is the header the entry i stands under.
Header(h, i) ==
  /\ Defaults[h] = <<Defaults[i][1], None>>
  /\ \A j \in h + 1 .. i : Defaults[j][1] = Defaults[i][1] /\ Defaults[j][2] # None

\* No name is there twice, and the documents of the default set fit in the bounds.
ASSUME DefaultsAssumption ==
  /\ None \notin GroupNames \cup CategoryNames
  /\ Defaults \in Seq(GroupNames \X (CategoryNames \cup {None}))
  /\ \A i, j \in DOMAIN Defaults : i # j => Defaults[i] # Defaults[j]
  /\ \A i \in DOMAIN Defaults : \E h \in 1 .. i : Header(h, i)
  /\ NumGroups \in Nat /\ NumCategories \in Nat
  /\ Len(Defaults) \in 1 .. NumGroups /\ Len(Defaults) <= NumCategories

VARIABLES
  groups,       \* groups[g]: state ("free", "live", "gone") and name
  categories,   \* categories[c]: state, group, name, archived, and as history whether
                \* its group was being removed when it was put there
  stamped,      \* defaultCategoriesSeededAt is set
  edited        \* history: has a member changed any of them?

catalogue == <<groups, categories, stamped, edited>>

NoGroup == [state |-> "free", name |-> None]
NoCategory == [state |-> "free", group |-> 0, name |-> None, archived |-> FALSE,
               torn |-> FALSE]

\* category_group_name_unique: the household's group of that name, if any.
GroupsNamed(name) == {g \in DOMAIN groups : Live(groups, g) /\ groups[g].name = name}

\* (Mutant: the name of an archived category is free.)
CategoriesNamedActive(g, name) ==
  {c \in DOMAIN categories :
    /\ Live(categories, c) /\ ~categories[c].archived
    /\ categories[c].group = g /\ categories[c].name = name}

\* category_name_unique, archived ones included.
CategoriesNamed(g, name) ==
  {c \in DOMAIN categories :
    Live(categories, c) /\ categories[c].group = g /\ categories[c].name = name}

InsertGroup(g, name) ==
  groups' = [groups EXCEPT ![g] = [state |-> "live", name |-> name]]

InsertCategory(p, c, g, name) ==
  categories' = [categories EXCEPT ![c] =
                  [state |-> "live", group |-> g, name |-> name, archived |-> FALSE,
                   torn |-> Overlapped(p, "removeGroup", g)]]

-----------------------------------------------------------------------------
(* seedDefaultsForHousehold(), one upsert after the other, then the stamp. *)

\* createHousehold() seeds the household it has just inserted.
BeginSeed(p) ==
  /\ p = 1 /\ groups = [g \in DOMAIN groups |-> NoGroup]
  /\ Begin(p, [Idle EXCEPT !.op = "seed", !.at = "upsert", !.id = 1])
  /\ UNCHANGED <<catalogue, records, failures>>

\* (Mutant: the boot sweep looks at every household.)
BeginBackfillAlways(p) ==
  /\ Begin(p, [Idle EXCEPT !.op = "backfill", !.at = "upsert", !.id = 1])
  /\ UNCHANGED <<catalogue, records, failures>>

\* backfillDefaultCategories() at boot: only unstamped households.
BeginBackfill(p) ==
  /\ ~stamped
  /\ Begin(p, [Idle EXCEPT !.op = "backfill", !.at = "upsert", !.id = 1])
  /\ UNCHANGED <<catalogue, records, failures>>

Seeder(p) == request[p].op \in {"seed", "backfill"}

Seeded(p, g) ==
  LET q == request[p] IN
  Becomes(p, [q EXCEPT !.id = @ + 1, !.cursor = g,
                       !.at = IF q.id = Len(Defaults) THEN "stamp" ELSE "upsert"])

\* (Mutant: a group that exists has been seeded.)
UpsertGroupSkips(p) ==
  LET name == Defaults[request[p].id][1] IN
  /\ Seeder(p) /\ request[p].at = "upsert"
  /\ Defaults[request[p].id][2] = None
  /\ \/ GroupsNamed(name) # {} /\ GoTo(p, "stamp") /\ UNCHANGED groups
     \/ /\ GroupsNamed(name) = {}
        /\ \E g \in Free(groups) : InsertGroup(g, name) /\ Seeded(p, g)
  /\ UNCHANGED <<categories, stamped, edited, records, failures>>

\* The group a header upserted is the one its categories go to.
UpsertGroup(p) ==
  LET name == Defaults[request[p].id][1] IN
  /\ Seeder(p) /\ request[p].at = "upsert"
  /\ Defaults[request[p].id][2] = None
  /\ \/ /\ \E g \in GroupsNamed(name) : Seeded(p, g)
        /\ UNCHANGED groups
     \/ /\ GroupsNamed(name) = {}
        /\ \E g \in Free(groups) : InsertGroup(g, name) /\ Seeded(p, g)
  /\ UNCHANGED <<categories, stamped, edited, records, failures>>

UpsertCategory(p) ==
  LET name == Defaults[request[p].id][2]
      g == request[p].cursor
  IN
  /\ Seeder(p) /\ request[p].at = "upsert"
  /\ name # None
  /\ \/ CategoriesNamed(g, name) # {} /\ UNCHANGED categories
     \/ /\ CategoriesNamed(g, name) = {}
        /\ \E c \in Free(categories) : InsertCategory(p, c, g, name)
  /\ Seeded(p, g)
  /\ UNCHANGED <<groups, stamped, edited, records, failures>>

Stamp(p) ==
  /\ Seeder(p) /\ request[p].at = "stamp"
  /\ stamped' = TRUE
  /\ Finish(p)
  /\ UNCHANGED <<groups, categories, edited, records, failures>>

-----------------------------------------------------------------------------
(* Categories: create, update, remove.                                     *)

\* The client sends the id of a group it has seen.
BeginCreateCategory(p, g, name) ==
  /\ g \in Known(groups)
  /\ Begin(p, [Idle EXCEPT !.op = "createCategory", !.at = "group",
                           !.wanted = [group |-> g, name |-> name]])
  /\ UNCHANGED <<catalogue, records, failures>>

\* findOwnedCategory().
BeginUpdateCategory(p, c, wanted) ==
  /\ Live(categories, c)
  /\ wanted.group \in Known(groups)
  /\ wanted # [f \in DOMAIN wanted |-> categories[c][f]]
  /\ Begin(p, [Idle EXCEPT !.op = "updateCategory", !.id = c, !.doc = categories[c],
                !.wanted = wanted,
                !.at = IF wanted.group # categories[c].group THEN "group" ELSE "write"])
  /\ UNCHANGED <<catalogue, records, failures>>

\* assertGroupInHousehold().
AssertGroup(p) ==
  /\ request[p].at = "group"
  /\ IF Live(groups, request[p].wanted.group) THEN GoTo(p, "write") ELSE Finish(p)
  /\ UNCHANGED <<catalogue, records, failures>>

CreateCategory(p) ==
  LET w == request[p].wanted IN
  /\ At(p, "createCategory", "write")
  /\ \/ CategoriesNamed(w.group, w.name) # {} /\ UNCHANGED categories
     \/ /\ CategoriesNamed(w.group, w.name) = {}
        /\ \E c \in Free(categories) : InsertCategory(p, c, w.group, w.name)
  /\ Finish(p)
  /\ edited' = TRUE
  /\ UNCHANGED <<groups, stamped, records, failures>>

\* A removed document makes save() throw, a taken name is a 409.
UpdateCategory(p) ==
  LET q == request[p]
      saved == Saved(categories[q.id], q.doc, q.wanted)
      next == IF q.wanted.group = q.doc.group THEN saved
              ELSE [saved EXCEPT !.torn = Overlapped(p, "removeGroup", saved.group)]
      taken == CategoriesNamed(next.group, next.name) \ {q.id} # {}
  IN
  /\ At(p, "updateCategory", "write")
  /\ categories' = IF Live(categories, q.id) /\ ~taken
                   THEN [categories EXCEPT ![q.id] = next] ELSE categories
  /\ Finish(p)
  /\ edited' = TRUE
  /\ UNCHANGED <<groups, stamped, records, failures>>

\* What removeCategory() looks for: not recurring schedules, which skip a
\* charge whose category is gone.
Consulted == {"transaction", "limit", "goal"}

BeginRemoveCategory(p, c) ==
  /\ Live(categories, c)
  /\ Begin(p, [Idle EXCEPT !.op = "removeCategory", !.at = "look", !.id = c,
                           !.doc = categories[c]])
  /\ UNCHANGED <<catalogue, records, failures>>

\* (Mutant: only the transactions count.)
LookForCategoryInLedger(p) ==
  LET q == request[p] IN
  /\ At(p, "removeCategory", "look")
  /\ Becomes(p, [q EXCEPT !.at = "write",
       !.found = \E r \in records : r.kind = "transaction" /\ r.category = q.id])
  /\ UNCHANGED <<catalogue, records, failures>>

\* Three reads sent at the same time.  One step: what overlaps with a removal is
\* excused below, whichever of the reads missed it.
LookForCategory(p) ==
  LET q == request[p] IN
  /\ At(p, "removeCategory", "look")
  /\ Becomes(p, [q EXCEPT !.at = "write",
       !.found = \E r \in records : r.kind \in Consulted /\ r.category = q.id])
  /\ UNCHANGED <<catalogue, records, failures>>

\* Referred to: archived, unless it was.  Otherwise deleted.
RemoveCategory(p) ==
  LET q == request[p] IN
  /\ At(p, "removeCategory", "write")
  /\ categories' =
       IF ~Live(categories, q.id) \/ (q.found /\ q.doc.archived) THEN categories
       ELSE IF q.found THEN [categories EXCEPT ![q.id].archived = TRUE]
       ELSE [categories EXCEPT ![q.id].state = "gone"]
  /\ Finish(p)
  /\ edited' = TRUE
  /\ UNCHANGED <<groups, stamped, records, failures>>

-----------------------------------------------------------------------------
(* Groups: create, update, remove.                                         *)

CreateGroup(p, name) ==
  /\ Begin(p, Done)
  /\ GroupsNamed(name) = {}
  /\ \E g \in Free(groups) : InsertGroup(g, name)
  /\ edited' = TRUE
  /\ UNCHANGED <<categories, stamped, records, failures>>

\* findOwnedGroup().
BeginUpdateGroup(p, g, name) ==
  /\ Live(groups, g) /\ name # groups[g].name
  /\ Begin(p, [Idle EXCEPT !.op = "updateGroup", !.at = "write", !.id = g,
                           !.wanted = name])
  /\ UNCHANGED <<catalogue, records, failures>>

UpdateGroup(p) ==
  LET q == request[p] IN
  /\ At(p, "updateGroup", "write")
  /\ groups' = IF Live(groups, q.id) /\ GroupsNamed(q.wanted) = {}
               THEN [groups EXCEPT ![q.id].name = q.wanted] ELSE groups
  /\ Finish(p)
  /\ edited' = TRUE
  /\ UNCHANGED <<categories, stamped, records, failures>>

BeginRemoveGroup(p, g) ==
  /\ Live(groups, g)
  /\ Begin(p, [Idle EXCEPT !.op = "removeGroup", !.at = "look", !.id = g])
  /\ UNCHANGED <<catalogue, records, failures>>

\* (Mutant: archived categories do not count.)
GroupOccupiedByActive(p) ==
  /\ At(p, "removeGroup", "look")
  /\ IF \E c \in DOMAIN categories : Live(categories, c) /\ ~categories[c].archived
                                      /\ categories[c].group = request[p].id
     THEN Finish(p) ELSE GoTo(p, "write")
  /\ UNCHANGED <<catalogue, records, failures>>

GroupOccupied(p) ==
  /\ At(p, "removeGroup", "look")
  /\ IF \E c \in DOMAIN categories :
          Live(categories, c) /\ categories[c].group = request[p].id
     THEN Finish(p) ELSE GoTo(p, "write")
  /\ UNCHANGED <<catalogue, records, failures>>

RemoveGroup(p) ==
  /\ At(p, "removeGroup", "write")
  /\ groups' = IF Live(groups, request[p].id)
               THEN [groups EXCEPT ![request[p].id].state = "gone"] ELSE groups
  /\ Finish(p)
  /\ edited' = TRUE
  /\ UNCHANGED <<categories, stamped, records, failures>>

-----------------------------------------------------------------------------
Wanted == [group : 1 .. NumGroups, name : CategoryNames, archived : BOOLEAN]

CategoryRequest(p) ==
  \/ BeginSeed(p)
  \/ BeginBackfill(p)
  \/ \E g \in 1 .. NumGroups, name \in CategoryNames : BeginCreateCategory(p, g, name)
  \/ \E c \in 1 .. NumCategories, wanted \in Wanted : BeginUpdateCategory(p, c, wanted)
  \/ \E c \in 1 .. NumCategories : BeginRemoveCategory(p, c)
  \/ \E name \in GroupNames : CreateGroup(p, name)
  \/ \E g \in 1 .. NumGroups, name \in GroupNames : BeginUpdateGroup(p, g, name)
  \/ \E g \in 1 .. NumGroups : BeginRemoveGroup(p, g)

CategoryStep(p) ==
  \/ UpsertGroup(p)
  \/ UpsertCategory(p)
  \/ Stamp(p)
  \/ AssertGroup(p)
  \/ CreateCategory(p)
  \/ UpdateCategory(p)
  \/ LookForCategory(p)
  \/ RemoveCategory(p)
  \/ UpdateGroup(p)
  \/ GroupOccupied(p)
  \/ RemoveGroup(p)
=============================================================================
