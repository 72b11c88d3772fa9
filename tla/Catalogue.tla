----------------------------- MODULE Catalogue -----------------------------
(***************************************************************************)
(* Categories, labels and what carries them: transactions, goals,          *)
(* recurring schedules (subscriptions are those) and budget limits.  A     *)
(* writer looks a category and a label up and then writes their ids; a     *)
(* remover looks for carriers and then deletes.  Nothing locks either.     *)
(***************************************************************************)
EXTENDS Categories, Labels

vars == <<catalogue, labels, records, request, amid, failures>>

Kinds == {"transaction", "goal", "recurring", "limit"}

Record == [kind : Kinds, category : 0 .. NumCategories, label : 0 .. NumLabels,
           by : Requests, torn : BOOLEAN]

\* Was what q writes being removed while p looked it up?
Torn(p, category, label) ==
  \/ Overlapped(p, "removeCategory", category)
  \/ Overlapped(p, "removeLabel", label)

Carrier(p, kind, category, label, old) ==
  [kind |-> kind, category |-> category, label |-> label, by |-> p,
   torn |-> Torn(p, category, label) \/ \E r \in old : r.torn]

-----------------------------------------------------------------------------
(* Writing a record: transactions, goals, schedules, subscriptions.        *)

\* A new record, or one to be pointed elsewhere.  Only what changes is
\* checked; a schedule checks both at the same time.
BeginFile(p, kind, old, category, label) ==
  /\ \A i \in DOMAIN old : old[i].kind = kind
  /\ category \in {0} \cup Known(categories)
  /\ label \in {0} \cup Known(labels)
  /\ category # 0 \/ kind \in {"goal", "recurring"}
  /\ LET changed ==
           {f \in {"category", "label"} :
             LET id == IF f = "category" THEN category ELSE label IN
             id # 0 /\ \A i \in DOMAIN old : id # old[i][f]}
     IN
     /\ changed # {}
     /\ Begin(p, [Idle EXCEPT !.op = "file", !.todo = changed, !.doc = old,
                   !.wanted = [kind |-> kind, category |-> category,
                               label |-> label]])
  /\ UNCHANGED <<catalogue, labels, records, failures>>

\* assertCategoryInHousehold(), assertCategoryUsable(): found and active.
CheckCategory(p) ==
  LET q == request[p] IN
  /\ At(p, "file", "begin")
  /\ "category" \in q.todo
  /\ IF Live(categories, q.wanted.category) /\ ~categories[q.wanted.category].archived
     THEN Becomes(p, [q EXCEPT !.todo = @ \ {"category"}])
     ELSE Finish(p)
  /\ UNCHANGED <<catalogue, labels, records, failures>>

\* assertAssignable().
CheckLabel(p) ==
  LET q == request[p] IN
  /\ At(p, "file", "begin")
  /\ "label" \in q.todo
  /\ q.todo = {"label"} \/ q.wanted.kind = "recurring"
  /\ IF Live(labels, q.wanted.label) /\ ~labels[q.wanted.label].archived
     THEN Becomes(p, [q EXCEPT !.todo = @ \ {"label"}])
     ELSE Finish(p)
  /\ UNCHANGED <<catalogue, labels, records, failures>>

\* The record is inserted, or saved unless it was deleted.
File(p) ==
  LET q == request[p]
      old == {q.doc[i] : i \in DOMAIN q.doc}
  IN
  /\ At(p, "file", "begin")
  /\ q.todo = {}
  /\ records' = IF old \subseteq records THEN (records \ old)
                       \cup {Carrier(p, q.wanted.kind, q.wanted.category,
                                     q.wanted.label, old)}
                ELSE records
  /\ Finish(p)
  /\ UNCHANGED <<catalogue, labels, failures>>

\* A transaction, goal or schedule is deleted, or a limit cleared.
Unfile(p, r) ==
  /\ r \in records
  /\ Begin(p, Done)
  /\ records' = records \ {r}
  /\ UNCHANGED <<catalogue, labels, failures>>

-----------------------------------------------------------------------------
(* Limits of one month's budget (budgets.service.ts).                      *)

\* assertCategoryInHousehold(), assertCategoriesInHousehold(): one read for all
\* of them, which must be found and active.
BeginSetLimits(p, cs) ==
  /\ \A c \in cs : Live(categories, c) /\ ~categories[c].archived
  /\ Begin(p, [Idle EXCEPT !.op = "setLimits", !.at = "write", !.todo = cs])
  /\ UNCHANGED <<catalogue, labels, records, failures>>

LimitOn(c) == {r \in records : r.kind = "limit" /\ r.category = c}

\* The bulk write upserts one limit after the other.
SetLimit(p, c) ==
  LET q == request[p] IN
  /\ At(p, "setLimits", "write")
  /\ c \in q.todo /\ \A d \in q.todo : c <= d
  /\ records' = (records \ LimitOn(c))
                  \cup {Carrier(p, "limit", c, 0, LimitOn(c))}
  /\ IF q.todo = {c} THEN Finish(p) ELSE Becomes(p, [q EXCEPT !.todo = @ \ {c}])
  /\ UNCHANGED <<catalogue, labels, failures>>

\* A database call throws, or the process dies, after some of its writes.
Fail(p) ==
  /\ Active(p)
  /\ request[p].op \in {"seed", "backfill", "setLimits"}
  /\ failures < MaxFailures
  /\ failures' = failures + 1
  /\ Finish(p)
  /\ UNCHANGED <<catalogue, labels, records>>

-----------------------------------------------------------------------------
\* A household just created, or one seeded long ago with labels of its own,
\* none of them under another.  The documents seeded have the ids of their entries.
Init ==
  /\ request = [p \in Requests |-> Idle]
  /\ amid = [p \in Requests |-> {}]
  /\ failures = 0
  /\ records = {}
  /\ edited = FALSE
  /\ \/ /\ stamped = FALSE
        /\ groups = [g \in 1 .. NumGroups |-> NoGroup]
        /\ categories = [c \in 1 .. NumCategories |-> NoCategory]
        /\ labels = [l \in 1 .. NumLabels |-> NoLabel]
     \/ /\ stamped = TRUE
        /\ groups = [g \in 1 .. NumGroups |->
             IF g \in DOMAIN Defaults /\ Defaults[g][2] = None
             THEN [state |-> "live", name |-> Defaults[g][1]] ELSE NoGroup]
        /\ categories = [c \in 1 .. NumCategories |->
             IF c \in DOMAIN Defaults /\ Defaults[c][2] # None
             THEN [state |-> "live", group |-> CHOOSE h \in 1 .. c : Header(h, c),
                   name |-> Defaults[c][2], archived |-> FALSE, torn |-> FALSE]
             ELSE NoCategory]
        /\ labels = [l \in 1 .. NumLabels |-> [NoLabel EXCEPT !.state = "live"]]

RecordRequest(p) ==
  \/ \E kind \in Kinds \ {"limit"}, old \in {<<>>} \cup {<<r>> : r \in records},
        category \in 0 .. NumCategories, label \in 0 .. NumLabels :
       BeginFile(p, kind, old, category, label)
  \/ \E r \in records : Unfile(p, r)
  \/ \E cs \in (SUBSET (1 .. NumCategories)) \ {{}} : BeginSetLimits(p, cs)

RecordStep(p) ==
  \/ CheckCategory(p)
  \/ CheckLabel(p)
  \/ File(p)
  \/ \E c \in 1 .. NumCategories : SetLimit(p, c)
  \/ Fail(p)

Next ==
  \E p \in Requests :
    \/ /\ Fresh(p)
       /\ \/ CategoryRequest(p) /\ UNCHANGED labels
          \/ LabelRequest(p) /\ UNCHANGED catalogue
          \/ RecordRequest(p)
    \/ /\ Active(p)
       /\ \/ CategoryStep(p) /\ UNCHANGED labels
          \/ LabelStep(p) /\ UNCHANGED catalogue
          \/ RecordStep(p)

Spec == Init /\ [][Next]_vars

-----------------------------------------------------------------------------
\* Documents are of their schemas, and the unique indexes hold: a name is taken
\* once in its household or group, by an archived category too.
TypeOK ==
  /\ groups \in [1 .. NumGroups -> [state : {"free", "live", "gone"},
                                    name : GroupNames \cup {None}]]
  /\ categories \in [1 .. NumCategories ->
       [state : {"free", "live", "gone"}, group : 0 .. NumGroups,
        name : CategoryNames \cup {None}, archived : BOOLEAN, torn : BOOLEAN]]
  /\ labels \in [1 .. NumLabels ->
       [state : {"free", "live", "gone"}, parent : 0 .. NumLabels,
        archived : BOOLEAN, torn : BOOLEAN, tied : BOOLEAN]]
  /\ records \subseteq Record
  /\ \A g, h \in 1 .. NumGroups :
       g # h /\ Live(groups, g) /\ Live(groups, h) => groups[g].name # groups[h].name
  /\ \A c, d \in 1 .. NumCategories :
       /\ c # d /\ Live(categories, c) /\ Live(categories, d)
       => <<categories[c].group, categories[c].name>>
            # <<categories[d].group, categories[d].name>>
  /\ \A c \in 1 .. NumCategories : Cardinality(LimitOn(c)) <= 1

\* Whatever removeCategory() or remove() of labels looks for never carries an id
\* that does not resolve, but if its writer overlapped with the removal
\* (categories.service.ts:386-395, labels.service.ts:141-151).
NoDangling ==
  \A r \in records : ~r.torn =>
    /\ r.kind \in Consulted /\ r.category # 0 => Live(categories, r.category)
    /\ r.kind \in Labelled /\ r.label # 0 => Live(labels, r.label)

\* A category's group exists, archived categories included, but if the group was
\* being removed when the category was put in it.
GroupsHold ==
  \A c \in 1 .. NumCategories :
    Live(categories, c) /\ ~categories[c].torn => Live(groups, categories[c].group)

\* So does a label's parent.
ParentsHold ==
  \A l \in 1 .. NumLabels :
    Live(labels, l) /\ ~labels[l].torn /\ labels[l].parent # 0
      => Live(labels, labels[l].parent)

\* The ancestors of l that are left, l itself when it is below itself.  A label
\* that was deleted is not found and has none.
Above(l) ==
  LET up[n \in 0 .. NumLabels] ==
        IF n = 0 THEN l
        ELSE IF Live(labels, up[n - 1]) THEN labels[up[n - 1]].parent ELSE 0
  IN  {up[n] : n \in 1 .. NumLabels} \ {0}

\* No label is its own ancestor, but if one of the loop was re-parented while
\* another label was: the walk up the tree and the save are not atomic.
Forest ==
  \A l \in 1 .. NumLabels :
    l \in Above(l) => \E m \in Above(l) : labels[m].tied

\* The walk up the tree comes to an end whatever it meets: every turn visits a
\* label it had not visited ("so bad data cannot spin this forever").
WalkAdvances ==
  [][\A p \in Requests :
      At(p, "updateLabel", "walk") /\ request'[p].at = "walk"
                                   /\ request'[p] # request[p]
        => request'[p].todo # request[p].todo]_vars

\* A stamped household nobody has edited has every default, wherever the seeders
\* before the one that stamped it died.
SeedComplete ==
  stamped /\ ~edited =>
    \A i \in DOMAIN Defaults :
      \E g \in GroupsNamed(Defaults[i][1]) :
        Defaults[i][2] # None => CategoriesNamed(g, Defaults[i][2]) # {}

Seeds(p) ==
  Seeder(p) /\ request'[p] # request[p]
            /\ (groups' # groups \/ categories' # categories)

\* A stamped household is seeded by none but a seeder that overlapped with the one
\* that stamped it.
SeedsOnce ==
  [][\A p \in Requests :
      Seeds(p) /\ stamped => \E o \in amid[p] : o.op \in {"seed", "backfill"}]_vars

\* Whatever names a category, a group or a label names one that exists, and the
\* labels form a forest, but for the exceptions named above.
ReferencesResolve == TypeOK /\ NoDangling /\ GroupsHold /\ ParentsHold /\ Forest

\* Every walk up the tree advances, and no seeder starts on a stamped household.
WalksAndSeeds == WalkAdvances /\ SeedsOnce

=============================================================================
