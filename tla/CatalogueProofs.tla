-------------------------- MODULE CatalogueProofs --------------------------
(***************************************************************************)
(* References resolve (Catalogue!ReferencesResolve), defaults are complete *)
(* (SeedComplete), walks up the label tree advance and nothing is seeded   *)
(* twice (WalksAndSeeds), for any requests, documents and default set.     *)
(*                                                                         *)
(* A writer looks an id up and writes it, a remover looks for carriers of  *)
(* an id and deletes it.  Each relies on an assertion about the documents  *)
(* between its steps (Fits).  The other's step may break it, but then the  *)
(* two were under way at the same time and know of each other (Witnessed), *)
(* which is where the properties make their exception.                     *)
(***************************************************************************)
EXTENDS Catalogue, FiniteSetTheorems, WellFoundedInduction, TLAPS

SeedOps == {"seed", "backfill"}

CategoryOps ==
  {"createCategory", "updateCategory", "removeCategory", "updateGroup", "removeGroup"}

LabelOps == {"createLabel", "updateLabel", "removeLabel"}

RecordOps == {"file", "setLimits"}

\* What a handler has in memory is a record of these fields.
Shape(q) ==
  q = [op |-> q.op, at |-> q.at, id |-> q.id, doc |-> q.doc, wanted |-> q.wanted,
       todo |-> q.todo, found |-> q.found, cursor |-> q.cursor]

Shapes ==
  /\ request = [p \in Requests |-> request[p]]
  /\ amid = [p \in Requests |-> amid[p]]
  /\ \A p \in Requests :
       /\ Shape(request[p])
       /\ request[p].op \in {"none", "done"} \cup SeedOps \cup CategoryOps \cup LabelOps
                              \cup RecordOps

\* Requests begin one after the other.
Begun == \A p \in Requests : request[p].op # "none" => request[1].op # "none"

\* p has overlapped with a handler of these operations.
MetAny(p, ops) == \E o \in amid[p] : o.op \in ops

\* What is under way at the same time knows of each other.
Meets(p, q) ==
  IF q.op \in SeedOps THEN MetAny(p, SeedOps) ELSE Overlapped(p, q.op, q.id)

Witnessed ==
  \A p \in Requests : \A r \in Requests \ {p} :
    Active(p) /\ Active(r) => Meets(p, request[r])

-----------------------------------------------------------------------------
(* What a handler relies on at each step.                                  *)

\* An id that was looked up is there, or was being removed.
GroupSafe(p, g) == Live(groups, g) \/ Overlapped(p, "removeGroup", g)

CategorySafe(p, c) == Live(categories, c) \/ Overlapped(p, "removeCategory", c)

LabelSafe(p, l) == Live(labels, l) \/ Overlapped(p, "removeLabel", l)

\* The default set has got as far as its entry i.
Present(i) ==
  \E g \in GroupsNamed(Defaults[i][1]) :
    Defaults[i][2] # None => CategoriesNamed(g, Defaults[i][2]) # {}

FitsSeed(p, q) == q.op \in SeedOps =>
  /\ q.at \in {"upsert", "stamp"}
  /\ q.at = "upsert" => q.id \in DOMAIN Defaults
  /\ stamped => MetAny(p, SeedOps)
  /\ q.at = "upsert" /\ Defaults[q.id][2] # None =>
       /\ q.cursor \in 1 .. NumGroups /\ GroupSafe(p, q.cursor)
       /\ ~edited => q.cursor \in GroupsNamed(Defaults[q.id][1])
  /\ ~edited => \A i \in DOMAIN Defaults : q.at = "stamp" \/ i < q.id => Present(i)

FitsCreateCategory(p, q) == q.op = "createCategory" =>
  /\ q.at \in {"group", "write"}
  /\ q.wanted.group \in 1 .. NumGroups /\ q.wanted.name \in CategoryNames
  /\ q.at = "write" => GroupSafe(p, q.wanted.group)

FitsUpdateCategory(p, q) == q.op = "updateCategory" =>
  /\ q.at \in {"group", "write"} /\ q.id \in 1 .. NumCategories
  /\ q.wanted \in Wanted
  /\ q.at = "write" => q.wanted.group = q.doc.group \/ GroupSafe(p, q.wanted.group)

FitsRemoveCategory(q) == q.op = "removeCategory" =>
  /\ q.at \in {"look", "write"} /\ q.id \in 1 .. NumCategories
  /\ q.at = "write" /\ ~q.found =>
       \A r \in records : r.kind \in Consulted /\ r.category = q.id => r.torn

FitsUpdateGroup(q) == q.op = "updateGroup" =>
  q.at = "write" /\ q.id \in 1 .. NumGroups /\ q.wanted \in GroupNames

FitsRemoveGroup(q) == q.op = "removeGroup" =>
  /\ q.at \in {"look", "write"} /\ q.id \in 1 .. NumGroups
  /\ q.at = "write" =>
       \A c \in 1 .. NumCategories :
         Live(categories, c) /\ categories[c].group = q.id => categories[c].torn

FitsCreateLabel(p, q) == q.op = "createLabel" =>
  /\ q.at \in {"parent", "write"}
  /\ q.wanted.parent \in {0} \cup Known(labels)
  /\ q.at = "write" => q.wanted.parent = 0 \/ LabelSafe(p, q.wanted.parent)

\* The labels visited lead to nothing but each other and the one to visit next.
Walked(q) ==
  /\ q.wanted.parent \in q.todo /\ q.todo \subseteq Known(labels)
  /\ q.id \notin q.todo
  /\ \A m \in q.todo : Live(labels, m) =>
       labels[m].parent \in q.todo \cup {0} \cup (IF q.at = "walk" THEN {q.cursor} ELSE {})

FitsUpdateLabel(p, q) == q.op = "updateLabel" =>
  /\ q.at \in {"parent", "walk", "write"} /\ q.id \in Known(labels)
  /\ q.wanted \in [parent : {0} \cup Known(labels), archived : BOOLEAN]
  /\ q.at = "parent" => q.wanted.parent \notin {0, q.id}
  /\ q.at = "walk" => q.cursor \in {0} \cup Known(labels)
  /\ q.at \in {"walk", "write"} =>
       \/ q.at = "write" /\ q.wanted.parent \in {0, q.doc.parent}
       \/ /\ LabelSafe(p, q.wanted.parent)
          /\ MetAny(p, {"updateLabel"}) \/ Walked(q)

FitsRemoveLabel(q) == q.op = "removeLabel" =>
  /\ q.at \in {"look", "children", "write"} /\ q.id \in 1 .. NumLabels
  /\ q.at = "children" \/ (q.at = "write" /\ ~q.found) =>
       \A r \in records : r.kind \in Labelled /\ r.label = q.id => r.torn
  /\ q.at = "write" /\ ~q.found =>
       \A l \in 1 .. NumLabels :
         Live(labels, l) /\ labels[l].parent = q.id => labels[l].torn

\* A field that is not to be looked up any more is unchanged, none, or was there.
FitsFile(p, q) == q.op = "file" =>
  /\ q.at = "begin" /\ DOMAIN q.doc \subseteq {1}
  /\ \A i \in DOMAIN q.doc : q.doc[i] \in Record /\ q.doc[i].kind = q.wanted.kind
  /\ q.wanted \in [kind : Kinds \ {"limit"}, category : 0 .. NumCategories,
                   label : 0 .. NumLabels]
  /\ \/ "category" \in q.todo \/ q.wanted.category = 0
     \/ CategorySafe(p, q.wanted.category)
     \/ \E i \in DOMAIN q.doc : q.doc[i].category = q.wanted.category
  /\ \/ "label" \in q.todo \/ q.wanted.label = 0
     \/ LabelSafe(p, q.wanted.label)
     \/ \E i \in DOMAIN q.doc : q.doc[i].label = q.wanted.label

FitsSetLimits(p, q) == q.op = "setLimits" =>
  /\ q.at = "write" /\ q.todo \subseteq 1 .. NumCategories
  /\ \A c \in q.todo : CategorySafe(p, c)

Fits(p, q) ==
  /\ FitsSeed(p, q) /\ FitsCreateCategory(p, q) /\ FitsUpdateCategory(p, q)
  /\ FitsRemoveCategory(q) /\ FitsUpdateGroup(q) /\ FitsRemoveGroup(q)
  /\ FitsCreateLabel(p, q) /\ FitsUpdateLabel(p, q) /\ FitsRemoveLabel(q)
  /\ FitsFile(p, q) /\ FitsSetLimits(p, q)

AllFit == \A p \in Requests : Fits(p, request[p])

-----------------------------------------------------------------------------
(* The documents.                                                          *)

States == {"free", "live", "gone"}

\* TypeOK, where a budget has one limit for a category.
OneLimit == \A c \in 1 .. NumCategories : \A r, s \in LimitOn(c) : r = s

Stored ==
  /\ groups \in [1 .. NumGroups -> [state : States, name : GroupNames \cup {None}]]
  /\ categories \in [1 .. NumCategories ->
       [state : States, group : 0 .. NumGroups,
        name : CategoryNames \cup {None}, archived : BOOLEAN, torn : BOOLEAN]]
  /\ labels \in [1 .. NumLabels ->
       [state : States, parent : 0 .. NumLabels,
        archived : BOOLEAN, torn : BOOLEAN, tied : BOOLEAN]]
  /\ records \subseteq Record
  /\ stamped \in BOOLEAN /\ edited \in BOOLEAN

GroupsNamedOnce ==
  \A g, h \in 1 .. NumGroups :
    g # h /\ Live(groups, g) /\ Live(groups, h) => groups[g].name # groups[h].name

CategoriesNamedOnce ==
  \A c, d \in 1 .. NumCategories :
    /\ c # d /\ Live(categories, c) /\ Live(categories, d)
    => <<categories[c].group, categories[c].name>> # <<categories[d].group, categories[d].name>>

\* A parent is a label that was inserted.
ParentsKnown ==
  \A l \in Known(labels) : labels[l].parent \in {0} \cup Known(labels)

\* A set of labels that leads to nothing else, and such a set without a smaller one
\* inside, which is a loop.
Closed(S) ==
  S # {} /\ \A l \in S : Live(labels, l) /\ labels[l].parent \in S

Loop(S) == Closed(S) /\ \A T \in SUBSET S : Closed(T) => T = S

LoopsTied ==
  \A S \in SUBSET (1 .. NumLabels) : Loop(S) => \E m \in S : labels[m].tied

\* A household seeded before any request has a group.
SeededLong ==
  request[1].op = "none" /\ stamped => \E g \in 1 .. NumGroups : groups[g] # NoGroup

CatalogueInv ==
  /\ Stored /\ GroupsNamedOnce /\ CategoriesNamedOnce /\ OneLimit
  /\ NoDangling /\ GroupsHold /\ ParentsHold /\ ParentsKnown /\ LoopsTied
  /\ SeedComplete /\ SeededLong

Inv == Shapes /\ Begun /\ Witnessed /\ AllFit /\ CatalogueInv


-----------------------------------------------------------------------------
(* How handlers begin, go on and end.                                      *)

Only(p) == \A r \in Requests \ {p} : request'[r] = request[r]

\* Another step, or the end, of the handler p.
Moves(p) ==
  /\ Active(p) /\ Only(p)
  /\ \A r \in Requests \ {p} : amid'[r] = amid[r]
  /\ \/ request'[p].op = "done"
     \/ /\ request'[p].op = request[p].op /\ amid'[p] = amid[p]
        /\ request[p].op \in SeedOps \/ request'[p].id = request[p].id

\* What is under way and what begins hear of each other.
Begins(p) ==
  /\ Fresh(p) /\ Only(p)
  /\ \A r \in Requests \ {p} :
       /\ amid[r] \subseteq amid'[r]
       /\ Active(r) => /\ About(request'[p]) \in amid'[r]
                       /\ About(request[r]) \in amid'[p]

Goes(p) == (Moves(p) \/ Begins(p)) /\ Shapes'

LEMMA IdleIs == Shape(Idle) /\ Idle.op = "none"
BY DEF Idle, Shape

LEMMA DoneIs == Shape(Done) /\ Done.op = "done"
<1>1. ASSUME NEW i, Shape(i), NEW r, r = [i EXCEPT !.op = "done"]
      PROVE  Shape(r) /\ r.op = "done"
  BY <1>1 DEF Shape
<1> QED BY <1>1, IdleIs DEF Done

LEMMA Becoming ==
  ASSUME Shapes, NEW p \in Requests, Active(p), NEW q, Shape(q), q.op = request[p].op,
         request[p].op \in SeedOps \/ q.id = request[p].id, Becomes(p, q)
  PROVE  Goes(p) /\ request'[p] = q /\ amid' = amid
<1>1. request'[p] = q /\ Only(p) /\ amid' = amid
  BY DEF Shapes, Becomes, Only
<1>2. Moves(p)
  BY <1>1 DEF Moves
<1>3. request' = [r \in Requests |-> request'[r]]
  BY DEF Becomes, Shapes
<1>4. Shapes'
  BY <1>1, <1>3 DEF Shapes, Only
<1> QED BY <1>1, <1>2, <1>4 DEF Goes

\* The same request, at another step.
Same(q, old) ==
  /\ q.op = old.op /\ q.id = old.id /\ q.doc = old.doc /\ q.wanted = old.wanted
  /\ q.todo = old.todo /\ q.found = old.found /\ q.cursor = old.cursor

LEMMA GoesOn ==
  ASSUME Shapes, NEW p \in Requests, Active(p), NEW step, GoTo(p, step)
  PROVE  Goes(p) /\ Same(request'[p], request[p]) /\ request'[p].at = step /\ amid' = amid
<1> DEFINE q == [request[p] EXCEPT !.at = step]
<1>1. ASSUME NEW i, Shape(i), NEW r, r = [i EXCEPT !.at = step]
      PROVE  Shape(r) /\ Same(r, i) /\ r.at = step
  BY <1>1 DEF Shape, Same
<1>2. Shape(q) /\ Same(q, request[p]) /\ q.at = step
  BY <1>1 DEF Shapes
<1>3. Becomes(p, q)
  BY DEF GoTo
<1> HIDE DEF q
<1>4. q.op = request[p].op /\ q.id = request[p].id
  BY <1>2 DEF Same
<1> QED BY <1>2, <1>3, <1>4, Becoming

LEMMA Finishing ==
  ASSUME Shapes, NEW p \in Requests, Active(p), Finish(p)
  PROVE  Goes(p) /\ request'[p] = Done /\ request'[p].op = "done"
<1>1. request'[p] = Done /\ Only(p) /\ \A r \in Requests \ {p} : amid'[r] = amid[r]
  BY DEF Shapes, Finish, Only
<1>2. Moves(p)
  BY <1>1, DoneIs DEF Moves
<1>3. /\ request' = [r \in Requests |-> request'[r]]
      /\ amid' = [r \in Requests |-> amid'[r]]
  BY DEF Finish, Shapes
<1>4. Shapes'
  BY <1>1, <1>3, DoneIs DEF Shapes, Only
<1> QED BY <1>1, <1>2, <1>4, DoneIs DEF Goes

LEMMA Beginning ==
  ASSUME Shapes, NEW p \in Requests, NEW q, Shape(q), Begin(p, q),
         q.op \in {"done"} \cup SeedOps \cup CategoryOps \cup LabelOps \cup RecordOps
  PROVE  Goes(p) /\ Fresh(p) /\ request'[p] = q
<1>1. request'[p] = q /\ Only(p) /\ Fresh(p)
  BY DEF Shapes, Begin, Only
<1>2. ASSUME NEW r \in Requests \ {p}
      PROVE  /\ amid[r] \subseteq amid'[r]
             /\ Active(r) => About(request'[p]) \in amid'[r] /\ About(request[r]) \in amid'[p]
  BY <1>1 DEF Begin
<1>3. Begins(p)
  BY <1>1, <1>2 DEF Begins
<1>4. /\ request' = [r \in Requests |-> request'[r]]
      /\ amid' = [r \in Requests |-> amid'[r]]
  BY DEF Begin, Shapes
<1>5. Shapes'
  BY <1>1, <1>4 DEF Shapes, Only
<1> QED BY <1>1, <1>3, <1>5 DEF Goes

\* What met something before has met it still.
LEMMA MeetsStill ==
  ASSUME NEW p, NEW q, amid[p] \subseteq amid'[p]
  PROVE  /\ Meets(p, q) => Meets(p, q)'
         /\ \A ops : MetAny(p, ops) => MetAny(p, ops)'
         /\ \A op, id : Overlapped(p, op, id) => Overlapped(p, op, id)'
BY DEF Meets, MetAny, Overlapped

LEMMA AboutMeets ==
  ASSUME NEW p, NEW q, About(q) \in amid[p]
  PROVE  Meets(p, q)
<1>1. About(q) = [op |-> q.op, id |-> q.id] /\ About(q).op = q.op
  BY DEF About
<1> QED BY <1>1 DEF Meets, MetAny, Overlapped


LEMMA WitnessedStep ==
  ASSUME Shapes, Begun, Witnessed, NEW p \in Requests, Goes(p)
  PROVE  /\ Begun' /\ Witnessed'
         /\ \A r \in Requests \ {p} : amid[r] \subseteq amid'[r]
         /\ request'[1].op = "none" => request[1].op = "none"
<1>1. Only(p) /\ \A r \in Requests \ {p} : amid[r] \subseteq amid'[r]
  BY DEF Goes, Moves, Begins
<1>2. Begun'
  <2>1. CASE Moves(p)
    <3>1. 1 \in Requests
      BY HandlersAssumption DEF Requests
    <3>2. \A r \in Requests : request[r].op = "none" <=> request'[r].op = "none"
      BY <2>1, <1>1 DEF Moves, Only, Active
    <3> QED BY <3>1, <3>2 DEF Begun
  <2>2. CASE Begins(p)
    <3>1. p = 1 \/ (p - 1 \in Requests /\ request[p - 1].op # "none")
      BY <2>2, HandlersAssumption DEF Begins, Fresh, Requests
    <3>2. p = 1 \/ request[1].op # "none"
      BY <3>1 DEF Begun
    <3>3. p # 1 => request'[1].op # "none"
      BY <3>2, <1>1, HandlersAssumption DEF Only, Requests
    <3>4. p = 1 => Begun'
      BY <1>1, <2>2 DEF Begun, Only, Begins, Fresh
    <3> QED BY <3>3, <3>4 DEF Begun
  <2> QED BY <2>1, <2>2 DEF Goes
<1>3. request'[1].op = "none" => request[1].op = "none"
  BY <1>1, HandlersAssumption DEF Goes, Moves, Begins, Fresh, Active, Only, Requests
<1>4. Witnessed'
  <2> SUFFICES ASSUME NEW a \in Requests, NEW r \in Requests \ {a}, Active(a)', Active(r)'
               PROVE  Meets(a, request[r])'
    BY DEF Witnessed
  <2>1. CASE Moves(p)
    <3>1. \A b \in Requests : Active(b)' => Active(b) /\ amid'[b] = amid[b]
      BY <2>1 DEF Moves, Active, Only
    <3>2. Meets(a, request[r])
      BY <3>1 DEF Witnessed
    <3>3. /\ request'[r].op = request[r].op
          /\ request[r].op \in SeedOps \/ request'[r].id = request[r].id
      BY <2>1 DEF Moves, Active, Only
    <3> QED BY <3>1, <3>2, <3>3 DEF Meets, MetAny, Overlapped
  <2>2. CASE Begins(p)
    <3>1. CASE a = p
      BY <2>2, <3>1, <1>1, AboutMeets DEF Begins, Only, Active, Meets, MetAny, Overlapped, About
    <3>2. CASE r = p
      BY <2>2, <3>2, <1>1, AboutMeets DEF Begins, Only, Active, Meets, MetAny, Overlapped, About
    <3>3. CASE a # p /\ r # p
      BY <3>3, <1>1, MeetsStill DEF Only, Witnessed, Active
    <3> QED BY <3>1, <3>2, <3>3
  <2> QED BY <2>1, <2>2 DEF Goes
<1> QED BY <1>1, <1>2, <1>3, <1>4


-----------------------------------------------------------------------------
(* What a step of a handler may change of the documents, and why the others*)
(* may go on relying on them.                                              *)

Removes(p, op, id) == request[p].op = op /\ request[p].id = id

\* Only its removal takes a document away.
KeepsLive(p) ==
  /\ \A g \in 1 .. NumGroups :
       Live(groups, g) => Live(groups, g)' \/ Removes(p, "removeGroup", g)
  /\ \A c \in 1 .. NumCategories :
       Live(categories, c) => Live(categories, c)' \/ Removes(p, "removeCategory", c)
  /\ \A l \in 1 .. NumLabels :
       Live(labels, l) => Live(labels, l)' \/ Removes(p, "removeLabel", l)

\* What it points at what is being removed is torn.
TearsCategory(p, c) ==
  Live(categories, c)' /\ ~categories'[c].torn =>
    \/ Live(categories, c) /\ ~categories[c].torn /\ categories[c].group = categories'[c].group
    \/ ~Overlapped(p, "removeGroup", categories'[c].group)

TearsLabel(p, l) ==
  Live(labels, l)' /\ ~labels'[l].torn =>
    \/ Live(labels, l) /\ ~labels[l].torn /\ labels[l].parent = labels'[l].parent
    \/ ~Overlapped(p, "removeLabel", labels'[l].parent)

Tears(p) ==
  /\ Active(p) \/ (records' \subseteq records /\ UNCHANGED <<categories, labels>>)
  /\ \A r \in records' \ records :
       r.torn \/ (~Overlapped(p, "removeCategory", r.category)
                  /\ ~Overlapped(p, "removeLabel", r.label))
  /\ \A c \in 1 .. NumCategories : TearsCategory(p, c)
  /\ \A l \in 1 .. NumLabels : TearsLabel(p, l)

\* Only an update gives a label another parent.
KeepsTree(p) ==
  \A l \in Known(labels) :
    /\ l \in Known(labels)'
    /\ Live(labels, l)' => /\ Live(labels, l)
                           /\ labels'[l].parent = labels[l].parent \/ request[p].op = "updateLabel"

\* Nothing of the default set is lost but to a member.
KeepsDefaults(p) ==
  /\ edited => edited'
  /\ ~edited' =>
       /\ \A g \in 1 .. NumGroups : Live(groups, g) => groups'[g] = groups[g]
       /\ \A c \in 1 .. NumCategories : Live(categories, c) => categories'[c] = categories[c]
  /\ stamped' /\ ~stamped => request[p].op \in SeedOps

Keeps(p) == KeepsLive(p) /\ Tears(p) /\ KeepsTree(p) /\ KeepsDefaults(p)

\* Live and known documents are among those there can be.
LEMMA LiveIn ==
  ASSUME Stored
  PROVE  /\ \A g : Live(groups, g) <=> g \in 1 .. NumGroups /\ groups[g].state = "live"
         /\ \A c : Live(categories, c) <=> c \in 1 .. NumCategories /\ categories[c].state = "live"
         /\ \A l : Live(labels, l) <=> l \in 1 .. NumLabels /\ labels[l].state = "live"
         /\ \A l : l \in Known(labels) <=> l \in 1 .. NumLabels /\ labels[l].state # "free"
         /\ \A g : g \in Known(groups) <=> g \in 1 .. NumGroups /\ groups[g].state # "free"
         /\ \A c : c \in Known(categories) <=>
                     c \in 1 .. NumCategories /\ categories[c].state # "free"
BY DEF Stored, Live, Known

\* A default that is present stays so.
LEMMA PresentStill ==
  ASSUME Stored, Stored', NEW p, KeepsDefaults(p), ~edited'
  PROVE  /\ \A name, g : g \in GroupsNamed(name) => g \in GroupsNamed(name)'
         /\ \A i : Present(i) => Present(i)'
<1>1. ASSUME NEW name, NEW g, g \in GroupsNamed(name)
      PROVE  g \in GroupsNamed(name)'
  BY <1>1 DEF GroupsNamed, Stored, Live, KeepsDefaults
<1>2. ASSUME NEW name, NEW g, NEW c, c \in CategoriesNamed(g, name)
      PROVE  c \in CategoriesNamed(g, name)'
  BY <1>2 DEF CategoriesNamed, Stored, Live, KeepsDefaults
<1> QED BY <1>1, <1>2 DEF Present

LEMMA SafeStill ==
  ASSUME Shapes, Witnessed, Stored, Stored', NEW p \in Requests, Goes(p), KeepsLive(p),
         NEW r \in Requests \ {p}, Active(r), amid[r] \subseteq amid'[r]
  PROVE  /\ \A g : GroupSafe(r, g) => GroupSafe(r, g)'
         /\ \A c : CategorySafe(r, c) => CategorySafe(r, c)'
         /\ \A l : LabelSafe(r, l) => LabelSafe(r, l)'
<1>1. ASSUME NEW op \in {"removeGroup", "removeCategory", "removeLabel"}, NEW id,
             Removes(p, op, id)
      PROVE  Overlapped(r, op, id)
  <2>1. Active(p)
    BY <1>1 DEF Removes, Active
  <2>2. Meets(r, request[p])
    BY <2>1 DEF Witnessed
  <2> QED BY <1>1, <2>2 DEF Meets, Removes, SeedOps
<1>2. ASSUME NEW g, GroupSafe(r, g)
      PROVE  GroupSafe(r, g)'
  BY <1>1, <1>2, LiveIn, MeetsStill DEF GroupSafe, KeepsLive
<1>3. ASSUME NEW c, CategorySafe(r, c)
      PROVE  CategorySafe(r, c)'
  BY <1>1, <1>3, LiveIn, MeetsStill DEF CategorySafe, KeepsLive
<1>4. ASSUME NEW l, LabelSafe(r, l)
      PROVE  LabelSafe(r, l)'
  BY <1>1, <1>4, LiveIn, MeetsStill DEF LabelSafe, KeepsLive
<1> QED BY <1>2, <1>3, <1>4

\* Whoever points at what r removes while r does has met r.
LEMMA TearsWhatIsRemoved ==
  ASSUME Shapes, Witnessed, NEW p \in Requests, Goes(p),
         NEW r \in Requests \ {p}, Active(r), request[r].op \notin SeedOps, Active(p)
  PROVE  Overlapped(p, request[r].op, request[r].id)
BY DEF Witnessed, Meets


LEMMA OthersFit ==
  ASSUME Inv, Stored', NEW p \in Requests, Goes(p), Keeps(p),
         NEW r \in Requests \ {p}, NEW q, q = request[r]
  PROVE  request'[r] = q /\ Fits(r, q)'
<1>1. request'[r] = q /\ amid[r] \subseteq amid'[r]
  BY WitnessedStep DEF Goes, Moves, Begins, Only, Inv
<1>2. Fits(r, q)
  BY DEF Inv, AllFit
<1>3. Shapes /\ Witnessed /\ Stored
  BY DEF Inv, CatalogueInv
<1> SUFFICES ASSUME Active(r) PROVE Fits(r, q)'
  BY <1>1, <1>2, <1>3 DEF Fits, Active, FitsSeed, FitsCreateCategory, FitsUpdateCategory,
     FitsRemoveCategory, FitsUpdateGroup, FitsRemoveGroup, FitsCreateLabel, FitsUpdateLabel,
     FitsRemoveLabel, FitsFile, FitsSetLimits, SeedOps
<1>4. /\ \A g : GroupSafe(r, g) => GroupSafe(r, g)'
      /\ \A c : CategorySafe(r, c) => CategorySafe(r, c)'
      /\ \A l : LabelSafe(r, l) => LabelSafe(r, l)'
  BY <1>1, <1>3, SafeStill DEF Keeps
<1>5. \A ops : MetAny(r, ops) => MetAny(r, ops)'
  BY <1>1, MeetsStill
<1>6. Known(labels) \subseteq Known(labels)'
  BY DEF Keeps, KeepsTree
<1>7. Active(p) => Meets(r, request[p])
  BY <1>3 DEF Witnessed
<1>8. q.op \notin SeedOps /\ Active(p) => Overlapped(p, q.op, q.id)
  BY <1>3, TearsWhatIsRemoved
<1>9. FitsSeed(r, q)'
  <2> SUFFICES ASSUME q.op \in SeedOps PROVE FitsSeed(r, q)'
    BY DEF FitsSeed
  <2>1. FitsSeed(r, q)
    BY <1>2 DEF Fits
  <2>2. stamped' => MetAny(r, SeedOps)'
    BY <1>5, <1>7, <2>1 DEF FitsSeed, Keeps, KeepsDefaults, Meets, Active, SeedOps
  <2>3. ASSUME ~edited', NEW name, q.cursor \in GroupsNamed(name)
        PROVE  q.cursor \in GroupsNamed(name)'
    BY <1>3, <2>3, PresentStill DEF Keeps
  <2>4. ASSUME ~edited'
        PROVE  ~edited /\ \A i : Present(i) => Present(i)'
    BY <1>3, <2>4, PresentStill DEF Keeps, KeepsDefaults
  <2> QED BY <1>4, <2>1, <2>2, <2>3, <2>4 DEF FitsSeed
<1>10. FitsCreateCategory(r, q)' /\ FitsUpdateCategory(r, q)' /\ FitsUpdateGroup(q)'
  BY <1>2, <1>4 DEF Fits, FitsCreateCategory, FitsUpdateCategory, FitsUpdateGroup
<1>11. FitsRemoveCategory(q)'
  <2> SUFFICES ASSUME q.op = "removeCategory", q.at = "write", ~q.found,
                      NEW s \in records', s.kind \in Consulted, s.category = q.id
               PROVE  s.torn
    BY <1>2 DEF Fits, FitsRemoveCategory
  <2>1. CASE s \in records
    BY <2>1, <1>2 DEF Fits, FitsRemoveCategory
  <2>2. CASE s \notin records
    BY <2>2, <1>8 DEF Keeps, Tears, SeedOps
  <2> QED BY <2>1, <2>2
<1>12. FitsRemoveGroup(q)'
  <2> SUFFICES ASSUME q.op = "removeGroup", q.at = "write", NEW c \in 1 .. NumCategories,
                      Live(categories, c)', categories'[c].group = q.id,
                      ~categories'[c].torn
               PROVE  FALSE
    BY <1>2, <1>3 DEF Fits, FitsRemoveGroup, Stored
  <2>1. CASE Live(categories, c) /\ ~categories[c].torn /\ categories[c].group = q.id
    BY <2>1, <1>2 DEF Fits, FitsRemoveGroup
  <2>2. CASE ~(Live(categories, c) /\ ~categories[c].torn /\ categories[c].group = q.id)
    <3>1. TearsCategory(p, c)
      BY DEF Keeps, Tears
    <3>2. ~Overlapped(p, "removeGroup", q.id)
      BY <2>2, <3>1 DEF TearsCategory
    <3>3. Active(p)
      BY <2>2 DEF Keeps, Tears
    <3> QED BY <3>2, <3>3, <1>8 DEF SeedOps
  <2> QED BY <2>1, <2>2
<1>13. FitsCreateLabel(r, q)'
  BY <1>2, <1>4, <1>6 DEF Fits, FitsCreateLabel
<1>14. FitsUpdateLabel(r, q)'
  <2> SUFFICES ASSUME q.op = "updateLabel" PROVE FitsUpdateLabel(r, q)'
    BY DEF FitsUpdateLabel
  <2>1. FitsUpdateLabel(r, q)
    BY <1>2 DEF Fits
  <2>2. q.id \in Known(labels)' /\ q.wanted \in [parent : {0} \cup Known(labels)', archived : BOOLEAN]
    BY <2>1, <1>6 DEF FitsUpdateLabel
  <2>3. q.at = "walk" => q.cursor \in {0} \cup Known(labels)'
    BY <2>1, <1>6 DEF FitsUpdateLabel
  <2>4. MetAny(r, {"updateLabel"}) => MetAny(r, {"updateLabel"})'
    BY <1>5
  <2>5. ASSUME Walked(q)
        PROVE  MetAny(r, {"updateLabel"})' \/ Walked(q)'
    <3>1. CASE request[p].op = "updateLabel"
      <4>1. Overlapped(r, "updateLabel", request[p].id)
        BY <1>7, <3>1 DEF Meets, Active, SeedOps
      <4> QED BY <4>1, <2>4 DEF Overlapped, MetAny
    <3>2. CASE request[p].op # "updateLabel"
      <4>1. \A m \in q.todo : Live(labels, m)' => Live(labels, m) /\ labels'[m].parent = labels[m].parent
        BY <2>5, <3>2 DEF Walked, Keeps, KeepsTree
      <4> QED BY <2>5, <4>1, <1>6 DEF Walked
    <3> QED BY <3>1, <3>2
  <2>6. q.at \in {"walk", "write"} =>
          \/ q.at = "write" /\ q.wanted.parent \in {0, q.doc.parent}
          \/ /\ LabelSafe(r, q.wanted.parent)'
             /\ MetAny(r, {"updateLabel"})' \/ Walked(q)'
    BY <2>1, <2>4, <2>5, <1>4 DEF FitsUpdateLabel
  <2> QED BY <2>1, <2>2, <2>3, <2>6 DEF FitsUpdateLabel
<1>15. FitsRemoveLabel(q)'
  <2> SUFFICES ASSUME q.op = "removeLabel" PROVE FitsRemoveLabel(q)'
    BY DEF FitsRemoveLabel
  <2>1. FitsRemoveLabel(q)
    BY <1>2 DEF Fits
  <2>2. ASSUME q.at = "children" \/ (q.at = "write" /\ ~q.found),
               NEW s \in records', s.kind \in Labelled, s.label = q.id
        PROVE  s.torn
    <3>1. CASE s \in records
      BY <2>1, <2>2, <3>1 DEF FitsRemoveLabel
    <3>2. CASE s \notin records
      BY <2>2, <3>2, <1>8 DEF Keeps, Tears, SeedOps
    <3> QED BY <3>1, <3>2
  <2>3. ASSUME q.at = "write", ~q.found, NEW l \in 1 .. NumLabels,
               Live(labels, l)', labels'[l].parent = q.id, ~labels'[l].torn
        PROVE  FALSE
    <3>1. CASE Live(labels, l) /\ ~labels[l].torn /\ labels[l].parent = q.id
      BY <2>1, <2>3, <3>1 DEF FitsRemoveLabel
    <3>2. CASE ~(Live(labels, l) /\ ~labels[l].torn /\ labels[l].parent = q.id)
      <4>1. TearsLabel(p, l)
        BY DEF Keeps, Tears
      <4>2. ~Overlapped(p, "removeLabel", q.id)
        BY <2>3, <3>2, <4>1 DEF TearsLabel
      <4>3. Active(p)
        BY <2>3, <3>2 DEF Keeps, Tears
      <4> QED BY <4>2, <4>3, <1>8 DEF SeedOps
    <3> QED BY <3>1, <3>2
  <2>4. \A l \in 1 .. NumLabels : labels'[l].torn \in BOOLEAN
    BY DEF Stored
  <2> QED BY <2>1, <2>2, <2>3, <2>4 DEF FitsRemoveLabel
<1>16. FitsFile(r, q)' /\ FitsSetLimits(r, q)'
  BY <1>2, <1>4 DEF Fits, FitsFile, FitsSetLimits
<1> QED BY <1>9, <1>10, <1>11, <1>12, <1>13, <1>14, <1>15, <1>16 DEF Fits


-----------------------------------------------------------------------------
(* Steps that change no document.                                          *)

Untouched == UNCHANGED <<groups, categories, labels, records, stamped, edited>>

\* What is to be shown of a step of p.
Step(p) == Goes(p) /\ Keeps(p) /\ Fits(p, request[p])' /\ CatalogueInv'

LEMMA StepHolds ==
  ASSUME Inv, NEW p \in Requests, Step(p)
  PROVE  Inv'
<1>1. Stored' /\ Goes(p) /\ Keeps(p)
  BY DEF Step, CatalogueInv
<1>2. Shapes' /\ Begun' /\ Witnessed'
  BY WitnessedStep DEF Inv, Step, Goes
<1>3. ASSUME NEW r \in Requests PROVE Fits(r, request[r])'
  <2>1. CASE r = p
    BY <2>1 DEF Step
  <2>2. CASE r # p
    BY <1>1, <2>2, OthersFit
  <2> QED BY <2>1, <2>2
<1>4. AllFit'
  BY <1>3 DEF AllFit
<1> QED BY <1>2, <1>4 DEF Inv, Step

LEMMA QuietStep ==
  ASSUME Inv, NEW p \in Requests, Goes(p), Untouched, Fits(p, request[p])'
  PROVE  Step(p)
<1>1. Keeps(p)
  BY DEF Keeps, KeepsLive, Tears, TearsCategory, TearsLabel, KeepsTree, KeepsDefaults,
         Untouched, Live, Known
<1>2. (SeedComplete /\ NoDangling /\ GroupsHold /\ ParentsHold)'
  BY DEF Inv, CatalogueInv, Untouched, SeedComplete, NoDangling, GroupsHold, ParentsHold,
         GroupsNamed, CategoriesNamed, Live
<1>3. (GroupsNamedOnce /\ CategoriesNamedOnce /\ OneLimit /\ ParentsKnown /\ LoopsTied)'
  BY DEF Inv, CatalogueInv, Untouched, GroupsNamedOnce, CategoriesNamedOnce, OneLimit, LimitOn,
         ParentsKnown, LoopsTied, Loop, Closed, Live, Known
<1>4. SeededLong' /\ Stored'
  BY WitnessedStep DEF Inv, CatalogueInv, Untouched, SeededLong, Stored
<1> QED BY <1>1, <1>2, <1>3, <1>4 DEF Step, CatalogueInv

\* A handler has to answer for its own operation only.
LEMMA FitsIts ==
  ASSUME NEW p, NEW q,
         \/ q.op \in {"none", "done"}
         \/ q.op \in SeedOps /\ FitsSeed(p, q)'
         \/ q.op = "createCategory" /\ FitsCreateCategory(p, q)'
         \/ q.op = "updateCategory" /\ FitsUpdateCategory(p, q)'
         \/ q.op = "removeCategory" /\ FitsRemoveCategory(q)'
         \/ q.op = "updateGroup" /\ FitsUpdateGroup(q)'
         \/ q.op = "removeGroup" /\ FitsRemoveGroup(q)'
         \/ q.op = "createLabel" /\ FitsCreateLabel(p, q)'
         \/ q.op = "updateLabel" /\ FitsUpdateLabel(p, q)'
         \/ q.op = "removeLabel" /\ FitsRemoveLabel(q)'
         \/ q.op = "file" /\ FitsFile(p, q)'
         \/ q.op = "setLimits" /\ FitsSetLimits(p, q)'
  PROVE  Fits(p, q)'
<1>1. q.op \notin SeedOps => FitsSeed(p, q)'
  BY DEF FitsSeed
<1>2. q.op # "createCategory" => FitsCreateCategory(p, q)'
  BY DEF FitsCreateCategory
<1>3. q.op # "updateCategory" => FitsUpdateCategory(p, q)'
  BY DEF FitsUpdateCategory
<1>4. q.op # "removeCategory" => FitsRemoveCategory(q)'
  BY DEF FitsRemoveCategory
<1>5. q.op # "updateGroup" => FitsUpdateGroup(q)'
  BY DEF FitsUpdateGroup
<1>6. q.op # "removeGroup" => FitsRemoveGroup(q)'
  BY DEF FitsRemoveGroup
<1>7. q.op # "createLabel" => FitsCreateLabel(p, q)'
  BY DEF FitsCreateLabel
<1>8. q.op # "updateLabel" => FitsUpdateLabel(p, q)'
  BY DEF FitsUpdateLabel
<1>9. q.op # "removeLabel" => FitsRemoveLabel(q)'
  BY DEF FitsRemoveLabel
<1>10. q.op # "file" => FitsFile(p, q)'
  BY DEF FitsFile
<1>11. q.op # "setLimits" => FitsSetLimits(p, q)'
  BY DEF FitsSetLimits
<1> QED
  BY <1>1, <1>2, <1>3, <1>4, <1>5, <1>6, <1>7, <1>8, <1>9, <1>10, <1>11 DEF Fits, SeedOps

LEMMA EndFits ==
  ASSUME NEW p, request'[p].op = "done"
  PROVE  Fits(p, request[p])'
<1>1. PICK q : q = request'[p]
  OBVIOUS
<1>2. Fits(p, q)'
  BY <1>1, FitsIts
<1> QED BY <1>1, <1>2


LEMMA SeedEntry ==
  /\ Len(Defaults) \in Nat /\ DOMAIN Defaults = 1 .. Len(Defaults)
  /\ 1 \in DOMAIN Defaults /\ Defaults[1][2] = None
  /\ \A i \in DOMAIN Defaults :
       /\ Defaults[i][1] \in GroupNames
       /\ Defaults[i][2] \in CategoryNames \cup {None}
<1>1. /\ Len(Defaults) \in Nat /\ DOMAIN Defaults = 1 .. Len(Defaults)
      /\ 1 \in DOMAIN Defaults
      /\ \A i \in DOMAIN Defaults : Defaults[i] \in GroupNames \X (CategoryNames \cup {None})
  BY DefaultsAssumption
<1>2. PICK h \in 1 .. 1 : Header(h, 1)
  BY <1>1, DefaultsAssumption
<1>3. Defaults[1] = <<Defaults[1][1], None>>
  BY <1>2 DEF Header
<1> QED BY <1>1, <1>3

LEMMA SeedBegins ==
  ASSUME Inv, NEW p \in Requests, BeginSeed(p) \/ BeginBackfill(p), UNCHANGED labels
  PROVE  Step(p)
<1>1. PICK op \in SeedOps : Begin(p, [Idle EXCEPT !.op = op, !.at = "upsert", !.id = 1])
  BY DEF BeginSeed, BeginBackfill, SeedOps
<1>2. PICK q : /\ Shape(q) /\ q.op \in SeedOps /\ q.at = "upsert" /\ q.id = 1 /\ Begin(p, q)
  <2>1. ASSUME NEW i, Shape(i), NEW r, r = [i EXCEPT !.op = op, !.at = "upsert", !.id = 1]
        PROVE  Shape(r) /\ r.op = op /\ r.at = "upsert" /\ r.id = 1
    BY <2>1 DEF Shape
  <2> QED BY <1>1, <2>1, IdleIs
<1>3. Goes(p) /\ Fresh(p) /\ request'[p] = q
  BY <1>2, Beginning DEF Inv
<1>4. Untouched /\ ~stamped
  BY <1>3 DEF BeginSeed, BeginBackfill, catalogue, Untouched, Inv, CatalogueInv, SeededLong,
              Fresh, Stored
<1>5. FitsSeed(p, q)'
  BY <1>2, <1>4, SeedEntry DEF FitsSeed, Untouched
<1>6. Fits(p, q)'
  BY <1>2, <1>5, FitsIts
<1> QED BY <1>3, <1>4, <1>6, QuietStep

LEMMA CategoryBegins ==
  ASSUME Inv, NEW p \in Requests, UNCHANGED labels,
         \/ \E g \in 1 .. NumGroups, name \in CategoryNames : BeginCreateCategory(p, g, name)
         \/ \E c \in 1 .. NumCategories, wanted \in Wanted : BeginUpdateCategory(p, c, wanted)
         \/ \E c \in 1 .. NumCategories : BeginRemoveCategory(p, c)
  PROVE  Step(p)
<1>1. CASE \E g \in 1 .. NumGroups, name \in CategoryNames : BeginCreateCategory(p, g, name)
  <2>1. PICK g \in 1 .. NumGroups, name \in CategoryNames : BeginCreateCategory(p, g, name)
    BY <1>1
  <2>2. ASSUME NEW i, Shape(i), NEW r,
               r = [i EXCEPT !.op = "createCategory", !.at = "group",
                             !.wanted = [group |-> g, name |-> name]]
        PROVE  /\ Shape(r) /\ r.op = "createCategory" /\ r.at = "group"
               /\ r.wanted.group = g /\ r.wanted.name = name
    BY <2>2 DEF Shape
  <2>3. PICK q : /\ Shape(q) /\ q.op = "createCategory" /\ q.at = "group"
                 /\ q.wanted.group = g /\ q.wanted.name = name /\ Begin(p, q)
    BY <2>1, <2>2, IdleIs DEF BeginCreateCategory
  <2>4. Goes(p) /\ request'[p] = q
    BY <2>3, Beginning DEF Inv, CategoryOps
  <2>5. Fits(p, q)'
    BY <2>3, FitsIts DEF FitsCreateCategory
  <2> QED BY <2>1, <2>4, <2>5, QuietStep DEF BeginCreateCategory, catalogue, Untouched
<1>2. CASE \E c \in 1 .. NumCategories, wanted \in Wanted : BeginUpdateCategory(p, c, wanted)
  <2>1. PICK c \in 1 .. NumCategories, wanted \in Wanted : BeginUpdateCategory(p, c, wanted)
    BY <1>2
  <2> DEFINE step == IF wanted.group # categories[c].group THEN "group" ELSE "write"
  <2>2. ASSUME NEW i, Shape(i), NEW r,
               r = [i EXCEPT !.op = "updateCategory", !.id = c, !.doc = categories[c],
                             !.wanted = wanted, !.at = step]
        PROVE  /\ Shape(r) /\ r.op = "updateCategory" /\ r.at = step
               /\ r.id = c /\ r.doc = categories[c] /\ r.wanted = wanted
    <3> HIDE DEF step
    <3> QED BY <2>2 DEF Shape
  <2>3. PICK q : /\ Shape(q) /\ q.op = "updateCategory" /\ q.at = step
                 /\ q.id = c /\ q.doc = categories[c] /\ q.wanted = wanted /\ Begin(p, q)
    BY <2>1, <2>2, IdleIs DEF BeginUpdateCategory
  <2>4. Goes(p) /\ request'[p] = q
    BY <2>3, Beginning DEF Inv, CategoryOps
  <2>5. FitsUpdateCategory(p, q)'
    BY <2>3 DEF FitsUpdateCategory
  <2>6. Fits(p, q)'
    BY <2>3, <2>5, FitsIts
  <2> QED BY <2>1, <2>4, <2>6, QuietStep DEF BeginUpdateCategory, catalogue, Untouched
<1>3. CASE \E c \in 1 .. NumCategories : BeginRemoveCategory(p, c)
  <2>1. PICK c \in 1 .. NumCategories : BeginRemoveCategory(p, c)
    BY <1>3
  <2>2. ASSUME NEW i, Shape(i), NEW r,
               r = [i EXCEPT !.op = "removeCategory", !.at = "look", !.id = c,
                             !.doc = categories[c]]
        PROVE  Shape(r) /\ r.op = "removeCategory" /\ r.at = "look" /\ r.id = c
    BY <2>2 DEF Shape
  <2>3. PICK q : /\ Shape(q) /\ q.op = "removeCategory" /\ q.at = "look" /\ q.id = c
                 /\ Begin(p, q)
    BY <2>1, <2>2, IdleIs DEF BeginRemoveCategory
  <2>4. Goes(p) /\ request'[p] = q
    BY <2>3, Beginning DEF Inv, CategoryOps
  <2>5. Fits(p, q)'
    BY <2>3, FitsIts DEF FitsRemoveCategory
  <2> QED BY <2>1, <2>4, <2>5, QuietStep DEF BeginRemoveCategory, catalogue, Untouched
<1> QED BY <1>1, <1>2, <1>3

LEMMA GroupBegins ==
  ASSUME Inv, NEW p \in Requests, UNCHANGED labels,
         \/ \E g \in 1 .. NumGroups, name \in GroupNames : BeginUpdateGroup(p, g, name)
         \/ \E g \in 1 .. NumGroups : BeginRemoveGroup(p, g)
  PROVE  Step(p)
<1>1. CASE \E g \in 1 .. NumGroups, name \in GroupNames : BeginUpdateGroup(p, g, name)
  <2>1. PICK g \in 1 .. NumGroups, name \in GroupNames : BeginUpdateGroup(p, g, name)
    BY <1>1
  <2>2. ASSUME NEW i, Shape(i), NEW r,
               r = [i EXCEPT !.op = "updateGroup", !.at = "write", !.id = g, !.wanted = name]
        PROVE  Shape(r) /\ r.op = "updateGroup" /\ r.at = "write" /\ r.id = g /\ r.wanted = name
    BY <2>2 DEF Shape
  <2>3. PICK q : /\ Shape(q) /\ q.op = "updateGroup" /\ q.at = "write" /\ q.id = g
                 /\ q.wanted = name /\ Begin(p, q)
    BY <2>1, <2>2, IdleIs DEF BeginUpdateGroup
  <2>4. Goes(p) /\ request'[p] = q
    BY <2>3, Beginning DEF Inv, CategoryOps
  <2>5. Fits(p, q)'
    BY <2>3, FitsIts DEF FitsUpdateGroup
  <2> QED BY <2>1, <2>4, <2>5, QuietStep DEF BeginUpdateGroup, catalogue, Untouched
<1>2. CASE \E g \in 1 .. NumGroups : BeginRemoveGroup(p, g)
  <2>1. PICK g \in 1 .. NumGroups : BeginRemoveGroup(p, g)
    BY <1>2
  <2>2. ASSUME NEW i, Shape(i), NEW r,
               r = [i EXCEPT !.op = "removeGroup", !.at = "look", !.id = g]
        PROVE  Shape(r) /\ r.op = "removeGroup" /\ r.at = "look" /\ r.id = g
    BY <2>2 DEF Shape
  <2>3. PICK q : /\ Shape(q) /\ q.op = "removeGroup" /\ q.at = "look" /\ q.id = g
                 /\ Begin(p, q)
    BY <2>1, <2>2, IdleIs DEF BeginRemoveGroup
  <2>4. Goes(p) /\ request'[p] = q
    BY <2>3, Beginning DEF Inv, CategoryOps
  <2>5. Fits(p, q)'
    BY <2>3, FitsIts DEF FitsRemoveGroup
  <2> QED BY <2>1, <2>4, <2>5, QuietStep DEF BeginRemoveGroup, catalogue, Untouched
<1> QED BY <1>1, <1>2


LEMMA AssertGroupStep ==
  ASSUME Inv, NEW p \in Requests, Active(p), AssertGroup(p), UNCHANGED labels
  PROVE  Step(p)
<1>1. Untouched /\ Fits(p, request[p]) /\ Shapes
  BY DEF AssertGroup, catalogue, Untouched, Inv, AllFit
<1>2. request[p].op \in {"createCategory", "updateCategory"}
  <2>1. request[p].op \in SeedOps \cup CategoryOps \cup LabelOps \cup RecordOps
    BY <1>1 DEF Shapes, Active
  <2> QED BY <1>1, <2>1 DEF AssertGroup, Fits, SeedOps, CategoryOps, LabelOps, RecordOps,
      FitsSeed, FitsRemoveCategory, FitsUpdateGroup, FitsRemoveGroup, FitsCreateLabel,
      FitsUpdateLabel, FitsRemoveLabel, FitsFile, FitsSetLimits
<1>3. CASE Live(groups, request[p].wanted.group)
  <2>1. GoTo(p, "write")
    BY <1>3 DEF AssertGroup
  <2>2. PICK q : q = request'[p]
    OBVIOUS
  <2>3. Goes(p) /\ Same(q, request[p]) /\ q.at = "write" /\ amid' = amid
    BY <1>1, <2>1, <2>2, GoesOn
  <2>4. GroupSafe(p, q.wanted.group)'
    BY <1>1, <1>3, <2>3 DEF GroupSafe, Untouched, Same
  <2>5. q.op = "createCategory" => FitsCreateCategory(p, q)'
    BY <1>1, <2>3, <2>4 DEF Fits, FitsCreateCategory, Same
  <2>6. q.op = "updateCategory" => FitsUpdateCategory(p, q)'
    BY <1>1, <2>3, <2>4 DEF Fits, FitsUpdateCategory, Same
  <2>7. Fits(p, q)'
    BY <1>2, <2>3, <2>5, <2>6, FitsIts DEF Same
  <2> QED BY <1>1, <2>2, <2>3, <2>7, QuietStep
<1>4. CASE ~Live(groups, request[p].wanted.group)
  BY <1>1, <1>4, Finishing, EndFits, QuietStep DEF AssertGroup
<1> QED BY <1>3, <1>4

LEMMA LookForCategoryStep ==
  ASSUME Inv, NEW p \in Requests, Active(p), LookForCategory(p), UNCHANGED labels
  PROVE  Step(p)
<1>1. Untouched /\ Fits(p, request[p]) /\ Shapes
  BY DEF LookForCategory, catalogue, Untouched, Inv, AllFit
<1> DEFINE found == \E r \in records : r.kind \in Consulted /\ r.category = request[p].id
<1>2. PICK q : /\ Shape(q) /\ q.op = "removeCategory" /\ q.id = request[p].id
               /\ q.at = "write" /\ (q.found <=> found) /\ Becomes(p, q)
  <2>1. PICK f \in BOOLEAN : f = found
    OBVIOUS
  <2>2. ASSUME NEW i, Shape(i), NEW r, r = [i EXCEPT !.at = "write", !.found = f]
        PROVE  Shape(r) /\ r.op = i.op /\ r.id = i.id /\ r.at = "write" /\ r.found = f
    BY <2>2 DEF Shape
  <2>3. Becomes(p, [request[p] EXCEPT !.at = "write", !.found = f])
    BY <2>1 DEF LookForCategory
  <2>4. Shape(request[p]) /\ request[p].op = "removeCategory"
    BY <1>1 DEF Shapes, LookForCategory, At
  <2> QED BY <2>1, <2>2, <2>3, <2>4
<1>3. Goes(p) /\ request'[p] = q
  BY <1>1, <1>2, Becoming DEF LookForCategory, At
<1>4. FitsRemoveCategory(q)'
  BY <1>1, <1>2 DEF LookForCategory, At, Fits, FitsRemoveCategory, Untouched
<1>5. Fits(p, q)'
  BY <1>2, <1>4, FitsIts
<1> QED BY <1>1, <1>3, <1>5, QuietStep

LEMMA GroupOccupiedStep ==
  ASSUME Inv, NEW p \in Requests, Active(p), GroupOccupied(p), UNCHANGED labels
  PROVE  Step(p)
<1>1. Untouched /\ Fits(p, request[p]) /\ Shapes /\ Stored
  BY DEF GroupOccupied, catalogue, Untouched, Inv, AllFit, CatalogueInv
<1> DEFINE occupied == \E c \in DOMAIN categories :
                         Live(categories, c) /\ categories[c].group = request[p].id
<1>2. CASE occupied
  BY <1>1, <1>2, Finishing, EndFits, QuietStep DEF GroupOccupied
<1>3. CASE ~occupied
  <2>1. GoTo(p, "write")
    BY <1>3 DEF GroupOccupied
  <2>2. PICK q : q = request'[p]
    OBVIOUS
  <2>3. Goes(p) /\ Same(q, request[p]) /\ q.at = "write"
    BY <1>1, <2>1, <2>2, GoesOn
  <2>4. \A c \in 1 .. NumCategories : Live(categories, c) => categories[c].group # q.id
    BY <1>1, <1>3, <2>3 DEF Stored, Same
  <2>5. FitsRemoveGroup(q)'
    BY <1>1, <2>3, <2>4 DEF GroupOccupied, At, Fits, FitsRemoveGroup, Untouched, Same
  <2>6. Fits(p, q)'
    BY <2>3, <2>5, FitsIts DEF GroupOccupied, At, Same
  <2> QED BY <1>1, <2>2, <2>3, <2>6, QuietStep
<1> QED BY <1>2, <1>3


LEMMA LabelBegins ==
  ASSUME Inv, NEW p \in Requests, UNCHANGED catalogue, LabelRequest(p)
  PROVE  Step(p)
<1> USE DEF catalogue, Untouched
<1>1. CASE \E parent \in 0 .. NumLabels : BeginCreateLabel(p, parent)
  <2>1. PICK parent \in 0 .. NumLabels : BeginCreateLabel(p, parent)
    BY <1>1
  <2> DEFINE step == IF parent = 0 THEN "write" ELSE "parent"
  <2>2. ASSUME NEW i, Shape(i), NEW r,
               r = [i EXCEPT !.op = "createLabel", !.wanted = [parent |-> parent], !.at = step]
        PROVE  Shape(r) /\ r.op = "createLabel" /\ r.at = step /\ r.wanted.parent = parent
    <3> HIDE DEF step
    <3> QED BY <2>2 DEF Shape
  <2>3. PICK q : /\ Shape(q) /\ q.op = "createLabel" /\ q.at = step
                 /\ q.wanted.parent = parent /\ Begin(p, q)
    BY <2>1, <2>2, IdleIs DEF BeginCreateLabel
  <2>4. Goes(p) /\ request'[p] = q
    BY <2>3, Beginning DEF Inv, LabelOps
  <2>5. parent \in {0} \cup Known(labels)' /\ Untouched
    BY <2>1 DEF BeginCreateLabel, Known
  <2>6. FitsCreateLabel(p, q)'
    BY <2>3, <2>5 DEF FitsCreateLabel
  <2>7. Fits(p, q)'
    BY <2>3, <2>6, FitsIts
  <2> QED BY <2>4, <2>5, <2>7, QuietStep
<1>2. CASE \E l \in 1 .. NumLabels, wanted \in [parent : 0 .. NumLabels, archived : BOOLEAN] :
             BeginUpdateLabel(p, l, wanted)
  <2>1. PICK l \in 1 .. NumLabels, wanted \in [parent : 0 .. NumLabels, archived : BOOLEAN] :
          BeginUpdateLabel(p, l, wanted)
    BY <1>2
  <2> DEFINE step == IF wanted.parent \in {0, labels[l].parent} THEN "write" ELSE "parent"
  <2>2. ASSUME NEW i, Shape(i), NEW r,
               r = [i EXCEPT !.op = "updateLabel", !.id = l, !.doc = labels[l],
                             !.wanted = wanted, !.at = step]
        PROVE  /\ Shape(r) /\ r.op = "updateLabel" /\ r.id = l /\ r.at = step
               /\ r.doc = labels[l] /\ r.wanted = wanted
    <3> HIDE DEF step
    <3> QED BY <2>2 DEF Shape
  <2>3. PICK q : /\ Shape(q) /\ q.op = "updateLabel" /\ q.id = l /\ q.at = step
                 /\ q.doc = labels[l] /\ q.wanted = wanted /\ Begin(p, q)
    BY <2>1, <2>2, IdleIs DEF BeginUpdateLabel
  <2>4. Goes(p) /\ request'[p] = q
    BY <2>3, Beginning DEF Inv, LabelOps
  <2>5. wanted.parent \in {0} \cup Known(labels)' /\ l \in Known(labels)' /\ Untouched
        /\ wanted.parent # l
    BY <2>1 DEF BeginUpdateLabel, Known, Live
  <2>6. FitsUpdateLabel(p, q)'
    BY <2>3, <2>5 DEF FitsUpdateLabel
  <2>7. Fits(p, q)'
    BY <2>3, <2>6, FitsIts
  <2> QED BY <2>4, <2>5, <2>7, QuietStep
<1>3. CASE \E l \in 1 .. NumLabels : BeginRemoveLabel(p, l)
  <2>1. PICK l \in 1 .. NumLabels : BeginRemoveLabel(p, l)
    BY <1>3
  <2>2. ASSUME NEW i, Shape(i), NEW r,
               r = [i EXCEPT !.op = "removeLabel", !.at = "look", !.id = l, !.doc = labels[l]]
        PROVE  Shape(r) /\ r.op = "removeLabel" /\ r.at = "look" /\ r.id = l
    BY <2>2 DEF Shape
  <2>3. PICK q : /\ Shape(q) /\ q.op = "removeLabel" /\ q.at = "look" /\ q.id = l
                 /\ Begin(p, q)
    BY <2>1, <2>2, IdleIs DEF BeginRemoveLabel
  <2>4. Goes(p) /\ request'[p] = q
    BY <2>3, Beginning DEF Inv, LabelOps
  <2>5. Fits(p, q)'
    BY <2>3, FitsIts DEF FitsRemoveLabel
  <2> QED BY <2>1, <2>4, <2>5, QuietStep DEF BeginRemoveLabel
<1> QED BY <1>1, <1>2, <1>3 DEF LabelRequest

LEMMA ParentStep ==
  ASSUME Inv, NEW p \in Requests, Active(p), Parent(p), UNCHANGED catalogue
  PROVE  Step(p)
<1> DEFINE parent == request[p].wanted.parent
<1>1. Untouched /\ Fits(p, request[p]) /\ Shapes /\ Stored /\ ParentsKnown
  BY DEF Parent, catalogue, Untouched, Inv, AllFit, CatalogueInv
<1>2. request[p].op \in {"createLabel", "updateLabel"}
  <2>1. request[p].op \in SeedOps \cup CategoryOps \cup LabelOps \cup RecordOps
    BY <1>1 DEF Shapes, Active
  <2> QED BY <1>1, <2>1 DEF Parent, Fits, SeedOps, CategoryOps, LabelOps, RecordOps,
      FitsSeed, FitsCreateCategory, FitsUpdateCategory, FitsRemoveCategory, FitsUpdateGroup,
      FitsRemoveGroup, FitsRemoveLabel, FitsFile, FitsSetLimits
<1>3. CASE ~Live(labels, parent) \/ labels[parent].archived
  BY <1>1, <1>3, Finishing, EndFits, QuietStep DEF Parent
<1>4. CASE Live(labels, parent) /\ request[p].op = "createLabel" /\ ~labels[parent].archived
  <2>1. GoTo(p, "write")
    BY <1>4 DEF Parent
  <2>2. PICK q : q = request'[p]
    OBVIOUS
  <2>3. Goes(p) /\ Same(q, request[p]) /\ q.at = "write" /\ amid' = amid
    BY <1>1, <2>1, <2>2, GoesOn
  <2>4. LabelSafe(p, q.wanted.parent)'
    BY <1>1, <1>4, <2>3 DEF LabelSafe, Untouched, Same
  <2>5. FitsCreateLabel(p, q)'
    BY <1>1, <1>4, <2>3, <2>4 DEF Fits, FitsCreateLabel, Same, Known, Untouched
  <2>6. Fits(p, q)'
    BY <1>4, <2>3, <2>5, FitsIts DEF Same
  <2> QED BY <1>1, <2>2, <2>3, <2>6, QuietStep
<1>5. CASE Live(labels, parent) /\ request[p].op = "updateLabel" /\ ~labels[parent].archived
  <2>1. PICK q : /\ Shape(q) /\ q.op = "updateLabel" /\ q.id = request[p].id
                 /\ q.wanted = request[p].wanted /\ q.at = "walk" /\ q.todo = {parent}
                 /\ q.cursor = labels[parent].parent /\ Becomes(p, q)
    <3>1. ASSUME NEW i, Shape(i), NEW r,
                 r = [i EXCEPT !.at = "walk", !.todo = {parent}, !.cursor = labels[parent].parent]
          PROVE  /\ Shape(r) /\ r.op = i.op /\ r.id = i.id /\ r.wanted = i.wanted
                 /\ r.at = "walk" /\ r.todo = {parent} /\ r.cursor = labels[parent].parent
      <4> HIDE DEF parent
      <4> QED BY <3>1 DEF Shape
    <3>2. Becomes(p, [request[p] EXCEPT !.at = "walk", !.todo = {parent},
                                        !.cursor = labels[parent].parent])
      BY <1>5 DEF Parent
    <3>3. Shape(request[p])
      BY <1>1 DEF Shapes
    <3> QED BY <1>5, <3>1, <3>2, <3>3
  <2>2. Goes(p) /\ request'[p] = q /\ amid' = amid
    BY <1>1, <1>5, <2>1, Becoming
  <2>3. parent \in Known(labels) /\ labels[parent].parent \in {0} \cup Known(labels)
    BY <1>1, <1>5 DEF Known, Live, ParentsKnown
  <2>4. parent # q.id
    BY <1>1, <1>5, <2>1 DEF Parent, Fits, FitsUpdateLabel
  <2>5. Known(labels)' = Known(labels) /\ labels' = labels
    BY <1>1 DEF Untouched, Known
  <2>6. Walked(q)' /\ LabelSafe(p, q.wanted.parent)'
    BY <1>5, <2>1, <2>3, <2>4, <2>5 DEF Walked, LabelSafe
  <2>7. FitsUpdateLabel(p, q)'
    <3>1. /\ request[p].id \in Known(labels)
          /\ request[p].wanted \in [parent : {0} \cup Known(labels), archived : BOOLEAN]
      BY <1>1, <1>5 DEF Fits, FitsUpdateLabel
    <3> QED BY <3>1, <2>1, <2>3, <2>5, <2>6 DEF FitsUpdateLabel
  <2>8. Fits(p, q)'
    BY <2>1, <2>7, FitsIts
  <2> QED BY <1>1, <2>2, <2>8, QuietStep
<1> QED BY <1>2, <1>3, <1>4, <1>5

LEMMA WalkStep ==
  ASSUME Inv, NEW p \in Requests, Active(p), Walk(p), UNCHANGED catalogue
  PROVE  Step(p) /\ (request'[p].at = "walk" => request'[p].todo # request[p].todo)
<1> DEFINE old == request[p]
           next == IF Live(labels, old.cursor) THEN labels[old.cursor].parent ELSE 0
<1>1. Untouched /\ Fits(p, old) /\ Shapes /\ Stored /\ ParentsKnown
  BY DEF Walk, catalogue, Untouched, Inv, AllFit, CatalogueInv
<1>2. /\ old.op = "updateLabel" /\ old.at = "walk" /\ old.id \in Known(labels)
      /\ old.wanted \in [parent : {0} \cup Known(labels), archived : BOOLEAN]
      /\ old.cursor \in {0} \cup Known(labels) /\ LabelSafe(p, old.wanted.parent)
      /\ MetAny(p, {"updateLabel"}) \/ Walked(old)
  BY <1>1 DEF Walk, At, Fits, FitsUpdateLabel
<1>3. Known(labels)' = Known(labels) /\ labels' = labels
  BY <1>1 DEF Untouched, Known
<1>4. CASE old.cursor = old.id
  BY <1>1, <1>4, Finishing, EndFits, QuietStep DEF Walk, Done, Idle
<1>5. CASE old.cursor # old.id /\ (old.cursor = 0 \/ old.cursor \in old.todo)
  <2>1. GoTo(p, "write")
    BY <1>5 DEF Walk
  <2>2. PICK q : q = request'[p]
    OBVIOUS
  <2>3. Goes(p) /\ Same(q, old) /\ q.at = "write" /\ amid' = amid
    BY <1>1, <2>1, <2>2, GoesOn
  <2>4. LabelSafe(p, q.wanted.parent)' /\ (MetAny(p, {"updateLabel"}) => MetAny(p, {"updateLabel"})')
    BY <1>2, <1>3, <2>3 DEF LabelSafe, Overlapped, MetAny, Same
  <2>5. Walked(old) => Walked(q)'
    BY <1>2, <1>3, <1>5, <2>3 DEF Walked, Same
  <2>6. FitsUpdateLabel(p, q)'
    BY <1>2, <1>3, <2>3, <2>4, <2>5 DEF FitsUpdateLabel, Same
  <2>7. Fits(p, q)'
    BY <1>2, <2>3, <2>6, FitsIts DEF Same
  <2> QED BY <1>1, <2>2, <2>3, <2>7, QuietStep
<1>6. CASE old.cursor # old.id /\ old.cursor # 0 /\ old.cursor \notin old.todo
  <2>1. PICK q : /\ Shape(q) /\ q.op = old.op /\ q.at = "walk" /\ q.id = old.id
                 /\ q.wanted = old.wanted /\ q.todo = old.todo \cup {old.cursor}
                 /\ q.cursor = next /\ Becomes(p, q)
    <3>1. PICK n : n = next
      OBVIOUS
    <3>2. ASSUME NEW i, Shape(i), NEW r, r = [i EXCEPT !.todo = @ \cup {i.cursor}, !.cursor = n]
          PROVE  /\ Shape(r) /\ r.op = i.op /\ r.at = i.at /\ r.id = i.id /\ r.wanted = i.wanted
                 /\ r.todo = i.todo \cup {i.cursor} /\ r.cursor = n
      BY <3>2 DEF Shape
    <3>3. Becomes(p, [old EXCEPT !.todo = @ \cup {old.cursor}, !.cursor = n])
      BY <1>6, <3>1 DEF Walk
    <3>4. Shape(old)
      BY <1>1 DEF Shapes
    <3> HIDE DEF next
    <3> QED BY <1>2, <3>1, <3>2, <3>3, <3>4
  <2>2. Goes(p) /\ request'[p] = q /\ amid' = amid
    BY <1>1, <2>1, Becoming
  <2>3. old.cursor \in Known(labels) /\ next \in {0} \cup Known(labels)
    BY <1>1, <1>2, <1>6 DEF Live, Known, ParentsKnown
  <2>4. LabelSafe(p, q.wanted.parent)' /\ (MetAny(p, {"updateLabel"}) => MetAny(p, {"updateLabel"})')
    BY <1>2, <1>3, <2>1, <2>2 DEF LabelSafe, Overlapped, MetAny
  <2>5. Walked(old) => Walked(q)'
    BY <1>2, <1>3, <1>6, <2>1, <2>3 DEF Walked
  <2>6. FitsUpdateLabel(p, q)'
    <3> HIDE DEF next
    <3> QED BY <1>2, <1>3, <2>1, <2>3, <2>4, <2>5 DEF FitsUpdateLabel
  <2>7. Fits(p, q)'
    BY <1>2, <2>1, <2>6, FitsIts
  <2>8. q.todo # old.todo
    BY <2>1, <1>6
  <2> QED BY <1>1, <2>2, <2>7, <2>8, QuietStep
<1> QED BY <1>4, <1>5, <1>6


LEMMA LookForLabelStep ==
  ASSUME Inv, NEW p \in Requests, Active(p), LookForLabel(p), UNCHANGED catalogue
  PROVE  Step(p)
<1> DEFINE found == \E r \in records : r.kind \in Labelled /\ r.label = request[p].id
           step == IF found THEN "write" ELSE "children"
<1>1. Untouched /\ Fits(p, request[p]) /\ Shapes
  BY DEF LookForLabel, catalogue, Untouched, Inv, AllFit
<1>2. PICK q : /\ Shape(q) /\ q.op = "removeLabel" /\ q.id = request[p].id
               /\ q.at = step /\ (q.found <=> found) /\ Becomes(p, q)
  <2>1. PICK f \in BOOLEAN : f = found
    OBVIOUS
  <2>2. PICK s : s = step
    OBVIOUS
  <2>3. ASSUME NEW i, Shape(i), NEW r, r = [i EXCEPT !.found = f, !.at = s]
        PROVE  Shape(r) /\ r.op = i.op /\ r.id = i.id /\ r.at = s /\ r.found = f
    BY <2>3 DEF Shape
  <2>4. Becomes(p, [request[p] EXCEPT !.found = f, !.at = s])
    BY <2>1, <2>2 DEF LookForLabel
  <2>5. Shape(request[p]) /\ request[p].op = "removeLabel"
    BY <1>1 DEF Shapes, LookForLabel, At
  <2> QED BY <2>1, <2>2, <2>3, <2>4, <2>5
<1>3. Goes(p) /\ request'[p] = q
  BY <1>1, <1>2, Becoming DEF LookForLabel, At
<1>4. FitsRemoveLabel(q)'
  BY <1>1, <1>2 DEF LookForLabel, At, Fits, FitsRemoveLabel, Untouched
<1>5. Fits(p, q)'
  BY <1>2, <1>4, FitsIts
<1> QED BY <1>1, <1>3, <1>5, QuietStep

LEMMA ChildrenStep ==
  ASSUME Inv, NEW p \in Requests, Active(p), Children(p), UNCHANGED catalogue
  PROVE  Step(p)
<1> DEFINE parent == \E l \in DOMAIN labels : Live(labels, l) /\ labels[l].parent = request[p].id
<1>1. Untouched /\ Fits(p, request[p]) /\ Shapes /\ Stored
  BY DEF Children, catalogue, Untouched, Inv, AllFit, CatalogueInv
<1>2. CASE parent
  BY <1>1, <1>2, Finishing, EndFits, QuietStep DEF Children
<1>3. CASE ~parent
  <2>1. GoTo(p, "write")
    BY <1>3 DEF Children
  <2>2. PICK q : q = request'[p]
    OBVIOUS
  <2>3. Goes(p) /\ Same(q, request[p]) /\ q.at = "write"
    BY <1>1, <2>1, <2>2, GoesOn
  <2>4. \A l \in 1 .. NumLabels : Live(labels, l) => labels[l].parent # q.id
    BY <1>1, <1>3, <2>3 DEF Stored, Same
  <2>5. FitsRemoveLabel(q)'
    BY <1>1, <2>3, <2>4 DEF Children, At, Fits, FitsRemoveLabel, Untouched, Same
  <2>6. Fits(p, q)'
    BY <2>3, <2>5, FitsIts DEF Children, At, Same
  <2> QED BY <1>1, <2>2, <2>3, <2>6, QuietStep
<1> QED BY <1>2, <1>3

-----------------------------------------------------------------------------
(* Records: looking up what they name.                                     *)

LEMMA FileBegins ==
  ASSUME Inv, NEW p \in Requests, NEW kind \in Kinds \ {"limit"},
         NEW old \in {<<>>} \cup {<<r>> : r \in records},
         NEW category \in 0 .. NumCategories, NEW label \in 0 .. NumLabels,
         BeginFile(p, kind, old, category, label)
  PROVE  Step(p)
<1> DEFINE named(f) == IF f = "category" THEN category ELSE label
           changed == {f \in {"category", "label"} :
                        named(f) # 0 /\ \A i \in DOMAIN old : named(f) # old[i][f]}
           wanted == [kind |-> kind, category |-> category, label |-> label]
<1>1. PICK todo : todo = changed
  OBVIOUS
<1>2. Begin(p, [Idle EXCEPT !.op = "file", !.todo = todo, !.doc = old, !.wanted = wanted])
  BY <1>1 DEF BeginFile
<1>3. PICK q : /\ Shape(q) /\ q.op = "file" /\ q.at = "begin" /\ q.todo = todo /\ q.doc = old
               /\ q.wanted = wanted /\ Begin(p, q)
  <2>1. ASSUME NEW i, Shape(i), NEW r,
               r = [i EXCEPT !.op = "file", !.todo = todo, !.doc = old, !.wanted = wanted]
        PROVE  /\ Shape(r) /\ r.op = "file" /\ r.at = i.at /\ r.todo = todo /\ r.doc = old
               /\ r.wanted = wanted
    BY <2>1 DEF Shape
  <2>2. Idle.at = "begin"
    BY DEF Idle
  <2> QED BY <1>2, <2>1, <2>2, IdleIs
<1>4. Goes(p) /\ request'[p] = q
  BY <1>3, Beginning DEF Inv, RecordOps
<1>5. DOMAIN old \subseteq {1} /\ \A i \in DOMAIN old : old[i] \in Record /\ old[i].kind = kind
  <2>1. CASE old = <<>>
    BY <2>1
  <2>2. CASE \E r \in records : old = <<r>>
    BY <2>2 DEF BeginFile, Inv, CatalogueInv, Stored
  <2> QED BY <2>1, <2>2
<1>6. "category" \in todo \/ category = 0 \/ \E i \in DOMAIN old : old[i].category = category
  <2>1. \A i \in DOMAIN old : old[i].category = old[i]["category"]
    OBVIOUS
  <2>2. named("category") = category
    OBVIOUS
  <2> HIDE DEF named
  <2> QED BY <1>1, <2>1, <2>2
<1>7. "label" \in todo \/ label = 0 \/ \E i \in DOMAIN old : old[i].label = label
  <2>1. \A i \in DOMAIN old : old[i].label = old[i]["label"]
    OBVIOUS
  <2>2. named("label") = label
    OBVIOUS
  <2> HIDE DEF named
  <2> QED BY <1>1, <2>1, <2>2
<1>8. /\ q.wanted.kind = kind /\ q.wanted.category = category /\ q.wanted.label = label
      /\ q.wanted \in [kind : Kinds \ {"limit"}, category : 0 .. NumCategories,
                       label : 0 .. NumLabels]
  BY <1>3
<1>9. FitsFile(p, q)'
  <2> HIDE DEF wanted
  <2> QED BY <1>3, <1>5, <1>6, <1>7, <1>8 DEF FitsFile
<1>10. Fits(p, q)'
  BY <1>3, <1>9, FitsIts
<1> QED BY <1>4, <1>10, QuietStep DEF BeginFile, catalogue, Untouched

LEMMA CheckStep ==
  ASSUME Inv, NEW p \in Requests, Active(p), CheckCategory(p) \/ CheckLabel(p)
  PROVE  Step(p)
<1>1. Untouched /\ Fits(p, request[p]) /\ Shapes /\ At(p, "file", "begin")
  BY DEF CheckCategory, CheckLabel, catalogue, Untouched, Inv, AllFit
<1>2. CASE Finish(p)
  BY <1>1, <1>2, Finishing, EndFits, QuietStep
<1>3. ASSUME NEW field \in {"category", "label"},
             field = "category" => CategorySafe(p, request[p].wanted.category),
             field = "label" => LabelSafe(p, request[p].wanted.label),
             Becomes(p, [request[p] EXCEPT !.todo = @ \ {field}])
      PROVE  Step(p)
  <2>1. PICK q : /\ Shape(q) /\ q.op = "file" /\ q.at = "begin" /\ q.id = request[p].id
                 /\ q.doc = request[p].doc /\ q.wanted = request[p].wanted
                 /\ q.todo = request[p].todo \ {field} /\ Becomes(p, q)
    <3>1. ASSUME NEW i, Shape(i), NEW r, r = [i EXCEPT !.todo = @ \ {field}]
          PROVE  /\ Shape(r) /\ r.op = i.op /\ r.at = i.at /\ r.id = i.id
                 /\ r.doc = i.doc /\ r.wanted = i.wanted /\ r.todo = i.todo \ {field}
      BY <3>1 DEF Shape
    <3>2. Shape(request[p]) /\ request[p].op = "file" /\ request[p].at = "begin"
      BY <1>1 DEF Shapes, At
    <3> QED BY <1>3, <3>1, <3>2
  <2>2. Goes(p) /\ request'[p] = q /\ amid' = amid
    BY <1>1, <2>1, Becoming DEF At
  <2>3. /\ CategorySafe(p, q.wanted.category) => CategorySafe(p, q.wanted.category)'
        /\ LabelSafe(p, q.wanted.label) => LabelSafe(p, q.wanted.label)'
    BY <1>1, <2>2 DEF CategorySafe, LabelSafe, Overlapped, Untouched, Live
  <2>4. FitsFile(p, request[p])
    BY <1>1 DEF Fits
  <2>5. FitsFile(p, q)'
    BY <1>1, <1>3, <2>1, <2>3, <2>4 DEF FitsFile, At
  <2>6. Fits(p, q)'
    BY <2>1, <2>5, FitsIts
  <2> QED BY <1>1, <2>2, <2>6, QuietStep
<1>4. CASE CheckCategory(p)
  BY <1>2, <1>3, <1>4 DEF CheckCategory, CategorySafe
<1>5. CASE CheckLabel(p)
  BY <1>2, <1>3, <1>5 DEF CheckLabel, LabelSafe
<1> QED BY <1>4, <1>5

LEMMA LimitsBegin ==
  ASSUME Inv, NEW p \in Requests, NEW cs \in SUBSET (1 .. NumCategories), BeginSetLimits(p, cs)
  PROVE  Step(p)
<1>1. ASSUME NEW i, Shape(i), NEW r,
             r = [i EXCEPT !.op = "setLimits", !.at = "write", !.todo = cs]
      PROVE  Shape(r) /\ r.op = "setLimits" /\ r.at = "write" /\ r.todo = cs
  BY <1>1 DEF Shape
<1>2. PICK q : Shape(q) /\ q.op = "setLimits" /\ q.at = "write" /\ q.todo = cs /\ Begin(p, q)
  BY <1>1, IdleIs DEF BeginSetLimits
<1>3. Goes(p) /\ request'[p] = q
  BY <1>2, Beginning DEF Inv, RecordOps
<1>4. \A c \in cs : CategorySafe(p, c)'
  BY DEF BeginSetLimits, CategorySafe, catalogue, Live
<1>5. Fits(p, q)'
  BY <1>2, <1>4, FitsIts DEF FitsSetLimits
<1> QED BY <1>3, <1>5, QuietStep DEF BeginSetLimits, catalogue, Untouched

LEMMA FailStep ==
  ASSUME Inv, NEW p \in Requests, Active(p), Fail(p)
  PROVE  Step(p)
BY Finishing, EndFits, QuietStep DEF Fail, catalogue, Untouched, Inv


-----------------------------------------------------------------------------
(* Steps that change one collection of documents.                          *)

LEMMA DefaultsStill ==
  ASSUME Inv, NEW p \in Requests, Goes(p), Stored', KeepsDefaults(p),
         stamped' => stamped \/ edited', stamped' => stamped \/ Active(p),
         \A g \in 1 .. NumGroups : groups[g] # NoGroup => groups'[g] # NoGroup
  PROVE  SeedComplete' /\ SeededLong'
<1>1. Stored /\ SeedComplete /\ SeededLong
  BY DEF Inv, CatalogueInv
<1>2. SeedComplete'
  <2> SUFFICES ASSUME ~edited', stamped' PROVE \A i \in DOMAIN Defaults : Present(i)'
    BY DEF SeedComplete, Present
  <2>1. \A i \in DOMAIN Defaults : Present(i)
    BY <1>1 DEF KeepsDefaults, SeedComplete, Present, Stored
  <2> QED BY <1>1, <2>1, PresentStill
<1>3. Active(p) => request[1].op # "none"
  BY DEF Inv, Begun, Active
<1>4. request'[1].op = "none" => request[1].op = "none"
  BY WitnessedStep DEF Inv
<1> QED BY <1>1, <1>2, <1>3, <1>4 DEF SeededLong

LEMMA GroupChange ==
  ASSUME Inv, NEW p \in Requests, Goes(p), UNCHANGED <<categories, labels, records, stamped>>,
         Stored', GroupsNamedOnce', KeepsLive(p), KeepsDefaults(p), GroupsHold',
         \A g \in 1 .. NumGroups : groups[g] # NoGroup => groups'[g] # NoGroup,
         Fits(p, request[p])'
  PROVE  Step(p)
<1>1. SeedComplete' /\ SeededLong'
  BY DefaultsStill
<1>2. Tears(p) /\ KeepsTree(p)
  BY DEF Tears, TearsCategory, TearsLabel, KeepsTree, Live, Known
<1>3. (CategoriesNamedOnce /\ OneLimit /\ NoDangling /\ ParentsHold /\ ParentsKnown /\ LoopsTied)'
  BY DEF Inv, CatalogueInv, CategoriesNamedOnce, OneLimit, LimitOn, NoDangling, ParentsHold,
         ParentsKnown, LoopsTied, Loop, Closed, Live, Known
<1> QED BY <1>1, <1>2, <1>3 DEF Step, Keeps, CatalogueInv

LEMMA CategoryChange ==
  ASSUME Inv, NEW p \in Requests, Active(p), Goes(p),
         UNCHANGED <<groups, labels, records, stamped>>,
         Stored', CategoriesNamedOnce', KeepsLive(p), KeepsDefaults(p), GroupsHold', NoDangling',
         \A c \in 1 .. NumCategories : TearsCategory(p, c),
         Fits(p, request[p])'
  PROVE  Step(p)
<1>1. SeedComplete' /\ SeededLong'
  BY DefaultsStill
<1>2. Tears(p) /\ KeepsTree(p)
  BY DEF Tears, TearsLabel, KeepsTree, Live, Known
<1>3. (GroupsNamedOnce /\ OneLimit /\ ParentsHold /\ ParentsKnown /\ LoopsTied)'
  BY DEF Inv, CatalogueInv, GroupsNamedOnce, OneLimit, LimitOn, ParentsHold,
         ParentsKnown, LoopsTied, Loop, Closed, Live, Known
<1> QED BY <1>1, <1>2, <1>3 DEF Step, Keeps, CatalogueInv

LEMMA LabelChange ==
  ASSUME Inv, NEW p \in Requests, Active(p), Goes(p), UNCHANGED <<catalogue, records>>,
         Stored', KeepsLive(p), KeepsTree(p), NoDangling', ParentsHold', ParentsKnown',
         LoopsTied', \A l \in 1 .. NumLabels : TearsLabel(p, l),
         Fits(p, request[p])'
  PROVE  Step(p)
<1>1. KeepsDefaults(p) /\ UNCHANGED <<groups, categories, stamped, edited>>
  BY DEF KeepsDefaults, catalogue
<1>2. SeedComplete' /\ SeededLong'
  BY <1>1, DefaultsStill
<1>3. Tears(p)
  BY <1>1 DEF Tears, TearsCategory, Live
<1>4. (GroupsNamedOnce /\ CategoriesNamedOnce /\ OneLimit /\ GroupsHold)'
  BY <1>1 DEF Inv, CatalogueInv, GroupsNamedOnce, CategoriesNamedOnce, OneLimit, LimitOn,
              GroupsHold, Live
<1> QED BY <1>1, <1>2, <1>3, <1>4 DEF Step, Keeps, CatalogueInv

LEMMA RecordChange ==
  ASSUME Inv, NEW p \in Requests, Goes(p), UNCHANGED <<catalogue, labels>>,
         Stored', OneLimit', NoDangling', Active(p) \/ records' \subseteq records,
         \A r \in records' \ records :
           r.torn \/ (~Overlapped(p, "removeCategory", r.category)
                      /\ ~Overlapped(p, "removeLabel", r.label)),
         Fits(p, request[p])'
  PROVE  Step(p)
<1>1. UNCHANGED <<groups, categories, stamped, edited>>
  BY DEF catalogue
<1>2. KeepsDefaults(p) /\ KeepsLive(p) /\ KeepsTree(p)
  BY <1>1 DEF KeepsDefaults, KeepsLive, KeepsTree, Live, Known
<1>3. SeedComplete' /\ SeededLong'
  BY <1>1, <1>2, DefaultsStill
<1>4. Tears(p)
  BY <1>1 DEF Tears, TearsCategory, TearsLabel, Live
<1>5. (GroupsNamedOnce /\ CategoriesNamedOnce /\ GroupsHold /\ ParentsHold /\ ParentsKnown /\ LoopsTied)'
  BY <1>1 DEF Inv, CatalogueInv, GroupsNamedOnce, CategoriesNamedOnce, GroupsHold,
              ParentsHold, ParentsKnown, LoopsTied, Loop, Closed, Live, Known
<1> QED BY <1>2, <1>3, <1>4, <1>5 DEF Step, Keeps, CatalogueInv


-----------------------------------------------------------------------------
(* Groups and the seeders.                                                 *)

\* A group that is inserted or renamed takes a name nobody has.
LEMMA GroupPut ==
  ASSUME Stored, GroupsNamedOnce, NEW i \in 1 .. NumGroups, NEW name \in GroupNames,
         GroupsNamed(name) = {}, NEW q, q = [state |-> "live", name |-> name],
         groups' = [groups EXCEPT ![i] = q], UNCHANGED <<categories, labels, records, stamped>>,
         edited' \in BOOLEAN
  PROVE  /\ Stored' /\ GroupsNamedOnce'
         /\ \A g : Live(groups, g) => Live(groups, g)'
         /\ GroupsHold => GroupsHold'
         /\ i \in GroupsNamed(name)'
         /\ \A g \in 1 .. NumGroups : groups[g] # NoGroup => groups'[g] # NoGroup
<1>1. /\ groups'[i] = q /\ q.state = "live" /\ q.name = name /\ q # NoGroup
      /\ \A g \in 1 .. NumGroups : g # i => groups'[g] = groups[g]
      /\ DOMAIN groups' = 1 .. NumGroups /\ DOMAIN groups = 1 .. NumGroups
  BY DEF Stored, NoGroup
<1>2. Stored'
  BY DEF Stored, States
<1>3. GroupsNamedOnce'
  BY <1>1 DEF GroupsNamedOnce, GroupsNamed, Live
<1>4. \A g : Live(groups, g) => Live(groups, g)'
  BY <1>1 DEF Live
<1>5. GroupsHold => GroupsHold'
  BY <1>4 DEF GroupsHold, Live
<1>6. i \in GroupsNamed(name)'
  BY <1>1 DEF GroupsNamed, Live
<1> QED BY <1>1, <1>2, <1>3, <1>4, <1>5, <1>6

LEMMA FreeIn ==
  ASSUME Stored
  PROVE  /\ \A g \in Free(groups) : g \in 1 .. NumGroups /\ groups[g].state = "free"
         /\ \A c \in Free(categories) : c \in 1 .. NumCategories /\ categories[c].state = "free"
         /\ \A l \in Free(labels) : l \in 1 .. NumLabels /\ labels[l].state = "free"
BY DEF Free, Stored

LEMMA GroupInserted ==
  ASSUME Inv, NEW name \in GroupNames, GroupsNamed(name) = {}, NEW g \in Free(groups),
         InsertGroup(g, name), UNCHANGED <<categories, labels, records, stamped>>,
         edited' \in {edited, TRUE}, NEW p
  PROVE  /\ Stored' /\ GroupsNamedOnce' /\ GroupsHold' /\ KeepsLive(p)
         /\ g \in 1 .. NumGroups /\ g \in GroupsNamed(name)'
         /\ stamped = stamped' => KeepsDefaults(p)
         /\ \A h \in 1 .. NumGroups : groups[h] # NoGroup => groups'[h] # NoGroup
<1>1. Stored /\ GroupsNamedOnce /\ GroupsHold
  BY DEF Inv, CatalogueInv
<1>2. g \in 1 .. NumGroups /\ groups[g].state = "free"
  BY <1>1, FreeIn
<1>3. edited' \in BOOLEAN
  BY <1>1 DEF Stored
<1>4. /\ Stored' /\ GroupsNamedOnce' /\ GroupsHold' /\ g \in GroupsNamed(name)'
      /\ \A h : Live(groups, h) => Live(groups, h)'
      /\ \A h \in 1 .. NumGroups : groups[h] # NoGroup => groups'[h] # NoGroup
  BY <1>1, <1>2, <1>3, GroupPut DEF InsertGroup
<1>5. KeepsLive(p)
  BY <1>4 DEF KeepsLive, Live
<1>6. KeepsDefaults(p)
  BY <1>1, <1>2 DEF KeepsDefaults, InsertGroup, Stored, Live
<1> QED BY <1>2, <1>4, <1>5, <1>6

LEMMA CreateGroupStep ==
  ASSUME Inv, NEW p \in Requests, NEW name \in GroupNames, CreateGroup(p, name),
         UNCHANGED labels
  PROVE  Step(p)
<1>1. PICK g \in Free(groups) : InsertGroup(g, name)
  BY DEF CreateGroup
<1>2. Goes(p) /\ request'[p].op = "done"
  BY Beginning, DoneIs DEF CreateGroup, Inv
<1>3. Fits(p, request[p])'
  BY <1>2, EndFits
<1> QED BY <1>1, <1>2, <1>3, GroupInserted, GroupChange DEF CreateGroup

LEMMA UpdateGroupStep ==
  ASSUME Inv, NEW p \in Requests, Active(p), UpdateGroup(p), UNCHANGED labels
  PROVE  Step(p)
<1> DEFINE q == request[p]
<1>1. Stored /\ GroupsNamedOnce /\ GroupsHold /\ Shapes /\ Fits(p, q)
  BY DEF Inv, CatalogueInv, AllFit
<1>2. Goes(p) /\ request'[p].op = "done" /\ q.id \in 1 .. NumGroups /\ q.wanted \in GroupNames
  BY <1>1, Finishing DEF UpdateGroup, Fits, FitsUpdateGroup, At
<1>3. Fits(p, request[p])'
  BY <1>2, EndFits
<1>4. CASE groups' = groups
  <2>1. Stored' /\ GroupsNamedOnce' /\ GroupsHold' /\ KeepsLive(p) /\ KeepsDefaults(p)
    BY <1>1, <1>4 DEF UpdateGroup, Stored, GroupsNamedOnce, GroupsHold, KeepsLive,
                      KeepsDefaults, Live
  <2> QED BY <1>2, <1>3, <1>4, <2>1, GroupChange DEF UpdateGroup
<1>5. CASE Live(groups, q.id) /\ GroupsNamed(q.wanted) = {}
  <2>1. PICK n : n = [state |-> "live", name |-> q.wanted]
    OBVIOUS
  <2>2. groups' = [groups EXCEPT ![q.id] = n]
    <3>1. groups[q.id] \in [state : States, name : GroupNames \cup {None}]
      BY <1>1, <1>2 DEF Stored
    <3>2. [groups[q.id] EXCEPT !.name = q.wanted] = n
      BY <1>5, <2>1, <3>1 DEF Live
    <3>3. groups' = [groups EXCEPT ![q.id] = [groups[q.id] EXCEPT !.name = q.wanted]]
      BY <1>5 DEF UpdateGroup
    <3> QED BY <3>2, <3>3
  <2>3. /\ Stored' /\ GroupsNamedOnce' /\ GroupsHold'
        /\ \A g : Live(groups, g) => Live(groups, g)'
        /\ \A g \in 1 .. NumGroups : groups[g] # NoGroup => groups'[g] # NoGroup
    BY <1>1, <1>2, <1>5, <2>1, <2>2, GroupPut DEF UpdateGroup
  <2>4. KeepsLive(p) /\ KeepsDefaults(p)
    BY <2>3 DEF KeepsLive, KeepsDefaults, Live, UpdateGroup
  <2> QED BY <1>2, <1>3, <2>3, <2>4, GroupChange DEF UpdateGroup
<1> QED BY <1>4, <1>5 DEF UpdateGroup

LEMMA RemoveGroupStep ==
  ASSUME Inv, NEW p \in Requests, Active(p), RemoveGroup(p), UNCHANGED labels
  PROVE  Step(p)
<1> DEFINE q == request[p]
<1>1. Stored /\ GroupsNamedOnce /\ GroupsHold /\ Shapes /\ Fits(p, q)
  BY DEF Inv, CatalogueInv, AllFit
<1>2. Goes(p) /\ request'[p].op = "done" /\ q.id \in 1 .. NumGroups
  BY <1>1, Finishing DEF RemoveGroup, Fits, FitsRemoveGroup, At
<1>3. Fits(p, request[p])'
  BY <1>2, EndFits
<1>4. /\ groups' \in [1 .. NumGroups -> [state : States, name : GroupNames \cup {None}]]
      /\ \A g \in 1 .. NumGroups : g # q.id => groups'[g] = groups[g]
      /\ groups'[q.id] = groups[q.id] \/ (groups'[q.id].state = "gone" /\ groups[q.id].state = "live")
  BY <1>1, <1>2 DEF RemoveGroup, Stored, States, Live
<1>5. Stored' /\ GroupsNamedOnce'
  BY <1>1, <1>4 DEF RemoveGroup, Stored, GroupsNamedOnce, Live
<1>6. GroupsHold'
  <2> SUFFICES ASSUME NEW c \in 1 .. NumCategories, Live(categories, c), ~categories[c].torn
               PROVE  Live(groups, categories[c].group)'
    BY DEF GroupsHold, RemoveGroup
  <2>1. categories[c].group # q.id
    BY <1>1 DEF Fits, FitsRemoveGroup, RemoveGroup, At
  <2>2. Live(groups, categories[c].group)
    BY <1>1 DEF GroupsHold
  <2>3. categories' = categories
    BY DEF RemoveGroup
  <2> QED BY <1>4, <2>1, <2>2, <2>3, <1>1 DEF Live, Stored
<1>7. KeepsLive(p)
  BY <1>4, <1>1 DEF KeepsLive, RemoveGroup, At, Removes, Live, Stored
<1>8. KeepsDefaults(p)
  BY DEF KeepsDefaults, RemoveGroup
<1>9. \A g \in 1 .. NumGroups : groups[g] # NoGroup => groups'[g] # NoGroup
  <2>1. NoGroup.state = "free"
    BY DEF NoGroup
  <2> QED BY <1>4, <2>1
<1> QED BY <1>2, <1>3, <1>5, <1>6, <1>7, <1>8, <1>9, GroupChange DEF RemoveGroup


\* A category's entry stands under the same group as the entry before it.
LEMMA NextEntry ==
  ASSUME NEW i \in DOMAIN Defaults, i + 1 \in DOMAIN Defaults, Defaults[i + 1][2] # None
  PROVE  Defaults[i + 1][1] = Defaults[i][1]
<1>1. Len(Defaults) \in Nat /\ DOMAIN Defaults = 1 .. Len(Defaults) /\ i \in Nat
  BY SeedEntry
<1>2. PICK h \in 1 .. i + 1 : Header(h, i + 1)
  BY DefaultsAssumption
<1>3. h # i + 1
  BY <1>2 DEF Header
<1>4. h = i \/ i \in h + 1 .. i + 1
  BY <1>1, <1>2, <1>3
<1> QED BY <1>1, <1>2, <1>3, <1>4 DEF Header

LEMMA SeededStep ==
  ASSUME Inv, NEW p \in Requests, Active(p), Seeder(p), request[p].at = "upsert",
         NEW i, i = request[p].id, NEW g \in 1 .. NumGroups, Seeded(p, g),
         Stored', KeepsDefaults(p), stamped' = stamped, GroupSafe(p, g)',
         ~edited' => /\ g \in GroupsNamed(Defaults[i][1])'
                     /\ Defaults[i][2] # None => CategoriesNamed(g, Defaults[i][2])' # {}
  PROVE  Goes(p) /\ Fits(p, request[p])'
<1> DEFINE old == request[p]
<1>1. PICK step : step = IF old.id = Len(Defaults) THEN "stamp" ELSE "upsert"
  OBVIOUS
<1>2. PICK q : /\ Shape(q) /\ q.op = old.op /\ q.id = i + 1 /\ q.cursor = g /\ q.at = step
               /\ Becomes(p, q)
  <2>1. ASSUME NEW o, Shape(o), NEW r, r = [o EXCEPT !.id = @ + 1, !.cursor = g, !.at = step]
        PROVE  Shape(r) /\ r.op = o.op /\ r.id = o.id + 1 /\ r.cursor = g /\ r.at = step
    BY <2>1 DEF Shape
  <2>2. Becomes(p, [old EXCEPT !.id = @ + 1, !.cursor = g, !.at = step])
    BY <1>1 DEF Seeded
  <2>3. Shape(old)
    BY DEF Inv, Shapes
  <2> QED BY <2>1, <2>2, <2>3
<1>3. Goes(p) /\ request'[p] = q /\ amid' = amid
  BY <1>2, Becoming DEF Inv, Seeder, SeedOps
<1>4. Fits(p, old) /\ old.op \in SeedOps /\ Stored
  BY DEF Inv, AllFit, Seeder, SeedOps, CatalogueInv
<1>5. /\ i \in DOMAIN Defaults /\ i \in Nat
      /\ stamped => MetAny(p, SeedOps)
      /\ ~edited => \A j \in DOMAIN Defaults : j < i => Present(j)
  BY <1>4, SeedEntry DEF Fits, FitsSeed
<1>6. q.at = "upsert" => i + 1 \in DOMAIN Defaults
  BY <1>1, <1>2, <1>5, SeedEntry
<1>7. stamped' => MetAny(p, SeedOps)'
  BY <1>3, <1>5 DEF MetAny
<1>8. ASSUME ~edited', q.at = "upsert", Defaults[q.id][2] # None
      PROVE  q.cursor \in GroupsNamed(Defaults[q.id][1])'
  BY <1>2, <1>5, <1>6, <1>8, NextEntry
<1>9. ASSUME ~edited', NEW j \in DOMAIN Defaults, q.at = "stamp" \/ j < q.id
      PROVE  Present(j)'
  <2>1. CASE j < i
    <3>1. Present(j)
      BY <1>5, <1>9, <2>1 DEF KeepsDefaults
    <3> QED BY <1>4, <1>9, <3>1, PresentStill
  <2>2. CASE j = i
    BY <2>2, <1>9 DEF Present
  <2>3. CASE j > i
    BY <1>1, <1>2, <1>5, <1>9, <2>3, SeedEntry
  <2> QED BY <1>5, <2>1, <2>2, <2>3, SeedEntry
<1>10. FitsSeed(p, q)'
  BY <1>1, <1>2, <1>6, <1>7, <1>8, <1>9 DEF FitsSeed
<1>11. Fits(p, q)'
  BY <1>2, <1>4, <1>10, FitsIts
<1> QED BY <1>3, <1>11

LEMMA UpsertGroupStep ==
  ASSUME Inv, NEW p \in Requests, Active(p), UpsertGroup(p), UNCHANGED labels
  PROVE  Step(p)
<1>0. PICK i : i = request[p].id
  OBVIOUS
<1> DEFINE name == Defaults[i][1]
<1>1. Stored /\ GroupsNamedOnce /\ GroupsHold /\ Fits(p, request[p])
  BY DEF Inv, CatalogueInv, AllFit
<1>2. i \in DOMAIN Defaults /\ name \in GroupNames /\ Defaults[i][2] = None
  BY <1>0, <1>1, SeedEntry DEF Fits, FitsSeed, UpsertGroup, Seeder, SeedOps
<1>3. CASE groups' = groups /\ \E g \in GroupsNamed(name) : Seeded(p, g)
  <2>1. PICK g \in GroupsNamed(name) : Seeded(p, g)
    BY <1>3
  <2>2. g \in 1 .. NumGroups /\ Live(groups, g)
    BY <1>1, LiveIn DEF GroupsNamed
  <2>3. /\ Stored' /\ KeepsDefaults(p) /\ KeepsLive(p) /\ GroupsNamedOnce' /\ GroupsHold'
        /\ g \in GroupsNamed(name)' /\ GroupSafe(p, g)'
    BY <1>1, <1>3, <2>1, <2>2 DEF UpsertGroup, Stored, KeepsDefaults, KeepsLive, GroupsNamedOnce,
       GroupsHold, GroupsNamed, GroupSafe, Live
  <2>4. Goes(p) /\ Fits(p, request[p])'
    BY <1>0, <1>2, <2>1, <2>2, <2>3, SeededStep DEF UpsertGroup
  <2> QED BY <1>3, <2>3, <2>4, GroupChange DEF UpsertGroup
<1>4. ASSUME GroupsNamed(name) = {}, NEW g \in Free(groups), InsertGroup(g, name), Seeded(p, g)
      PROVE  Step(p)
  <2>1. /\ Stored' /\ KeepsDefaults(p) /\ KeepsLive(p) /\ GroupsNamedOnce' /\ GroupsHold'
        /\ g \in 1 .. NumGroups /\ g \in GroupsNamed(name)'
        /\ \A h \in 1 .. NumGroups : groups[h] # NoGroup => groups'[h] # NoGroup
    BY <1>2, <1>4, GroupInserted DEF UpsertGroup
  <2>2. GroupSafe(p, g)'
    BY <2>1 DEF GroupSafe, GroupsNamed
  <2>3. Goes(p) /\ Fits(p, request[p])'
    BY <1>0, <1>2, <1>4, <2>1, <2>2, SeededStep DEF UpsertGroup
  <2> QED BY <2>1, <2>3, GroupChange DEF UpsertGroup
<1> QED BY <1>0, <1>3, <1>4 DEF UpsertGroup

LEMMA StampStep ==
  ASSUME Inv, NEW p \in Requests, Active(p), Stamp(p), UNCHANGED labels
  PROVE  Step(p)
<1>1. Stored /\ Fits(p, request[p]) /\ request[p].op \in SeedOps /\ request[1].op # "none"
  BY DEF Inv, CatalogueInv, AllFit, Stamp, Seeder, SeedOps, Begun, Active
<1>2. Goes(p) /\ request'[p].op = "done"
  BY Finishing DEF Inv, Stamp
<1>3. Fits(p, request[p])'
  BY <1>2, EndFits
<1>4. Keeps(p)
  BY <1>1 DEF Keeps, KeepsLive, Tears, TearsCategory, TearsLabel, KeepsTree, KeepsDefaults,
         Stamp, Live, Known
<1>5. SeedComplete'
  <2>1. ~edited => \A i \in DOMAIN Defaults : Present(i)
    BY <1>1 DEF Fits, FitsSeed, Stamp
  <2> QED BY <2>1 DEF SeedComplete, Present, Stamp, GroupsNamed, CategoriesNamed, Live
<1>6. (NoDangling /\ GroupsHold /\ ParentsHold)'
  BY DEF Inv, CatalogueInv, Stamp, NoDangling, GroupsHold, ParentsHold, Live
<1>7. (GroupsNamedOnce /\ CategoriesNamedOnce /\ OneLimit /\ ParentsKnown /\ LoopsTied)'
  BY DEF Inv, CatalogueInv, Stamp, GroupsNamedOnce, CategoriesNamedOnce, OneLimit, LimitOn,
         ParentsKnown, LoopsTied, Loop, Closed, Live, Known
<1>8. SeededLong' /\ Stored'
  BY <1>1, <1>2, WitnessedStep DEF Inv, Stamp, SeededLong, Stored
<1> QED BY <1>2, <1>3, <1>4, <1>5, <1>6, <1>7, <1>8 DEF Step, CatalogueInv


-----------------------------------------------------------------------------
(* Categories.                                                             *)

CategoryDocs ==
  [state : States, group : 0 .. NumGroups, name : CategoryNames \cup {None},
   archived : BOOLEAN, torn : BOOLEAN]

\* What is to be shown of a write to the categories.
CategoriesWritten(p) ==
  /\ Stored' /\ CategoriesNamedOnce' /\ KeepsLive(p) /\ KeepsDefaults(p)
  /\ GroupsHold' /\ NoDangling' /\ \A c \in 1 .. NumCategories : TearsCategory(p, c)

\* A category that is inserted or saved under a name nobody has in its group.
LEMMA CategoryPut ==
  ASSUME Inv, NEW p \in Requests, NEW i \in 1 .. NumCategories, NEW q \in CategoryDocs,
         q.state = "live", CategoriesNamed(q.group, q.name) \ {i} = {},
         categories' = [categories EXCEPT ![i] = q],
         UNCHANGED <<groups, labels, records, stamped>>, edited' \in {edited, TRUE},
         ~edited' => categories[i].state = "free",
         \/ ~q.torn => Live(groups, q.group) /\ ~Overlapped(p, "removeGroup", q.group)
         \/ Live(categories, i) /\ q.group = categories[i].group /\ q.torn = categories[i].torn
  PROVE  /\ CategoriesWritten(p)
         /\ i \in CategoriesNamed(q.group, q.name)'
<1>1. Stored /\ CategoriesNamedOnce /\ GroupsHold /\ NoDangling
  BY DEF Inv, CatalogueInv
<1>2. /\ categories'[i] = q
      /\ \A c \in 1 .. NumCategories : c # i => categories'[c] = categories[c]
      /\ DOMAIN categories' = 1 .. NumCategories /\ DOMAIN categories = 1 .. NumCategories
  BY <1>1 DEF Stored
<1>3. Stored'
  <2>1. categories' \in [1 .. NumCategories -> CategoryDocs]
    BY <1>1 DEF Stored, CategoryDocs
  <2> QED BY <1>1, <2>1 DEF Stored, CategoryDocs
<1>4. CategoriesNamedOnce'
  <2> SUFFICES ASSUME NEW c \in 1 .. NumCategories, NEW d \in 1 .. NumCategories, c # d,
                      Live(categories, c)', Live(categories, d)',
                      categories'[c].group = categories'[d].group,
                      categories'[c].name = categories'[d].name
               PROVE  FALSE
    BY DEF CategoriesNamedOnce
  <2>1. CASE c = i
    BY <1>2, <2>1 DEF CategoriesNamed, Live
  <2>2. CASE d = i
    BY <1>2, <2>2 DEF CategoriesNamed, Live
  <2>3. CASE c # i /\ d # i
    BY <1>1, <1>2, <2>3 DEF CategoriesNamedOnce, Live
  <2> QED BY <2>1, <2>2, <2>3
<1>5. \A c : Live(categories, c) => Live(categories, c)'
  BY <1>2 DEF Live
<1>6. KeepsLive(p)
  BY <1>5 DEF KeepsLive, Live
<1>7. KeepsDefaults(p)
  BY <1>1, <1>2 DEF KeepsDefaults, Stored, Live
<1>8. GroupsHold'
  BY <1>1, <1>2 DEF GroupsHold, Live
<1>9. NoDangling'
  BY <1>1, <1>5 DEF NoDangling, Live
<1>10. ASSUME NEW c \in 1 .. NumCategories PROVE TearsCategory(p, c)
  BY <1>1, <1>2 DEF TearsCategory, Live, Stored
<1>11. i \in CategoriesNamed(q.group, q.name)'
  BY <1>2 DEF CategoriesNamed, Live
<1> QED BY <1>3, <1>4, <1>6, <1>7, <1>8, <1>9, <1>10, <1>11 DEF CategoriesWritten

LEMMA CategoriesSame ==
  ASSUME Inv, NEW p \in Requests, UNCHANGED <<groups, categories, labels, records, stamped>>,
         edited' \in {edited, TRUE}
  PROVE  /\ CategoriesWritten(p)
<1>1. Stored /\ CategoriesNamedOnce /\ GroupsHold /\ NoDangling
  BY DEF Inv, CatalogueInv
<1>2. Stored' /\ CategoriesNamedOnce' /\ GroupsHold'
  BY <1>1 DEF Stored, CategoriesNamedOnce, GroupsHold, Live
<1>3. NoDangling' /\ KeepsLive(p)
  BY <1>1 DEF NoDangling, KeepsLive, Live
<1>4. KeepsDefaults(p)
  BY <1>1 DEF KeepsDefaults, Stored
<1>5. \A c \in 1 .. NumCategories : TearsCategory(p, c)
  BY DEF TearsCategory, Live
<1> QED BY <1>2, <1>3, <1>4, <1>5 DEF CategoriesWritten

LEMMA CategoryInserted ==
  ASSUME Inv, NEW p \in Requests, NEW g \in 1 .. NumGroups, NEW name \in CategoryNames,
         CategoriesNamed(g, name) = {}, GroupSafe(p, g),
         NEW c \in Free(categories), InsertCategory(p, c, g, name),
         UNCHANGED <<groups, labels, records, stamped>>, edited' \in {edited, TRUE}
  PROVE  /\ CategoriesWritten(p)
         /\ CategoriesNamed(g, name)' # {}
<1>1. Stored
  BY DEF Inv, CatalogueInv
<1>2. c \in 1 .. NumCategories /\ categories[c].state = "free"
  BY <1>1, FreeIn
<1>3. PICK torn \in BOOLEAN : torn <=> Overlapped(p, "removeGroup", g)
  OBVIOUS
<1>4. PICK q : q = [state |-> "live", group |-> g, name |-> name, archived |-> FALSE,
                    torn |-> torn]
  OBVIOUS
<1>5. /\ q \in CategoryDocs /\ q.state = "live" /\ q.group = g /\ q.name = name
      /\ ~q.torn => Live(groups, g) /\ ~Overlapped(p, "removeGroup", g)
  BY <1>3, <1>4 DEF CategoryDocs, States, GroupSafe
<1>6. categories' = [categories EXCEPT ![c] = q]
  BY <1>3, <1>4 DEF InsertCategory, Overlapped
<1>7. CategoriesNamed(q.group, q.name) \ {c} = {}
  BY <1>5
<1> QED BY <1>2, <1>5, <1>6, <1>7, CategoryPut

LEMMA UpsertCategoryStep ==
  ASSUME Inv, NEW p \in Requests, Active(p), UpsertCategory(p), UNCHANGED labels
  PROVE  Step(p)
<1>1. Stored /\ Fits(p, request[p])
  BY DEF Inv, CatalogueInv, AllFit
<1>2. PICK i, g : i = request[p].id /\ g = request[p].cursor
  OBVIOUS
<1> DEFINE name == Defaults[i][2]
<1>3. /\ i \in DOMAIN Defaults /\ name \in CategoryNames /\ name # None
      /\ g \in 1 .. NumGroups /\ GroupSafe(p, g)
      /\ ~edited => g \in GroupsNamed(Defaults[i][1])
  BY <1>1, <1>2, SeedEntry DEF Fits, FitsSeed, UpsertCategory, Seeder, SeedOps
<1> DEFINE Written == CategoriesWritten(p) /\ CategoriesNamed(g, name)' # {}
<1>4. Written
  <2>1. CASE CategoriesNamed(g, name) # {} /\ categories' = categories
    <3>1. CategoriesNamed(g, name)' = CategoriesNamed(g, name)
      BY <2>1 DEF CategoriesNamed, Live
    <3>2. /\ UNCHANGED <<groups, categories, labels, records, stamped>>
          /\ edited' \in {edited, TRUE}
      BY <2>1 DEF UpsertCategory
    <3> QED BY <2>1, <3>1, <3>2, CategoriesSame
  <2>2. ASSUME CategoriesNamed(g, name) = {},
               NEW c \in Free(categories), InsertCategory(p, c, g, name)
        PROVE  Written
    BY <1>3, <2>2, CategoryInserted DEF UpsertCategory, Written
  <2> QED BY <1>2, <2>1, <2>2 DEF UpsertCategory
<1>5. GroupSafe(p, g)'
  <2>1. groups' = groups /\ (amid'[p] = amid[p])
    BY DEF UpsertCategory, Seeded, Becomes
  <2> QED BY <1>3, <2>1 DEF GroupSafe, Overlapped
<1>6. ~edited' => g \in GroupsNamed(Defaults[i][1])'
  BY <1>3 DEF UpsertCategory, GroupsNamed, Live
<1>7. Goes(p) /\ Fits(p, request[p])'
  BY <1>2, <1>3, <1>4, <1>5, <1>6, SeededStep DEF UpsertCategory, CategoriesWritten
<1> QED BY <1>4, <1>7, CategoryChange DEF UpsertCategory, CategoriesWritten

LEMMA CreateCategoryStep ==
  ASSUME Inv, NEW p \in Requests, Active(p), CreateCategory(p), UNCHANGED labels
  PROVE  Step(p)
<1>1. Stored /\ Fits(p, request[p])
  BY DEF Inv, CatalogueInv, AllFit
<1>2. PICK g, name : g = request[p].wanted.group /\ name = request[p].wanted.name
  OBVIOUS
<1>3. g \in 1 .. NumGroups /\ name \in CategoryNames /\ GroupSafe(p, g)
  BY <1>1, <1>2 DEF Fits, FitsCreateCategory, CreateCategory, At
<1>4. Goes(p) /\ request'[p].op = "done"
  BY Finishing DEF Inv, CreateCategory
<1>5. Fits(p, request[p])'
  BY <1>4, EndFits
<1>6. CategoriesWritten(p)
  <2>1. CASE categories' = categories
    BY <2>1, CategoriesSame DEF CreateCategory
  <2>2. ASSUME CategoriesNamed(g, name) = {},
               NEW c \in Free(categories), InsertCategory(p, c, g, name)
        PROVE  CategoriesWritten(p)
    BY <1>3, <2>2, CategoryInserted DEF CreateCategory
  <2> QED BY <1>2, <2>1, <2>2 DEF CreateCategory
<1> QED BY <1>4, <1>5, <1>6, CategoryChange DEF CreateCategory, CategoriesWritten


LEMMA SavedCategory ==
  ASSUME NEW stored \in CategoryDocs, NEW doc, NEW wanted \in Wanted,
         NEW s, s = Saved(stored, doc, wanted)
  PROVE  /\ s \in CategoryDocs /\ s.state = stored.state /\ s.torn = stored.torn
         /\ s.group = IF wanted.group # doc.group THEN wanted.group ELSE stored.group
<1>1. /\ DOMAIN stored = {"state", "group", "name", "archived", "torn"}
      /\ DOMAIN wanted = {"group", "name", "archived"}
  BY DEF CategoryDocs, Wanted
<1>2. /\ s["state"] = stored["state"] /\ s["torn"] = stored["torn"]
      /\ s["group"] = IF wanted["group"] # doc["group"] THEN wanted["group"] ELSE stored["group"]
      /\ s["name"] = IF wanted["name"] # doc["name"] THEN wanted["name"] ELSE stored["name"]
      /\ s["archived"] =
           IF wanted["archived"] # doc["archived"] THEN wanted["archived"] ELSE stored["archived"]
      /\ s = [f \in {"state", "group", "name", "archived", "torn"} |-> s[f]]
  BY <1>1 DEF Saved
<1>3. s.group \in 0 .. NumGroups /\ s.name \in CategoryNames \cup {None}
  BY <1>2 DEF CategoryDocs, Wanted
<1>4. s.archived \in BOOLEAN /\ s.torn \in BOOLEAN /\ s.state \in States
  BY <1>2 DEF CategoryDocs, Wanted
<1>5. s = [state |-> s.state, group |-> s.group, name |-> s.name, archived |-> s.archived,
           torn |-> s.torn]
  BY <1>2
<1>6. s \in CategoryDocs
  BY <1>3, <1>4, <1>5 DEF CategoryDocs
<1> QED BY <1>2, <1>6

LEMMA UpdateCategoryStep ==
  ASSUME Inv, NEW p \in Requests, Active(p), UpdateCategory(p), UNCHANGED labels
  PROVE  Step(p)
<1>1. Stored /\ Fits(p, request[p])
  BY DEF Inv, CatalogueInv, AllFit
<1>2. PICK q : q = request[p]
  OBVIOUS
<1>3. PICK torn \in BOOLEAN : torn <=> Overlapped(p, "removeGroup", q.wanted.group)
  OBVIOUS
<1>4. PICK saved : saved = Saved(categories[q.id], q.doc, q.wanted)
  OBVIOUS
<1>5. PICK n : n = IF q.wanted.group = q.doc.group THEN saved ELSE [saved EXCEPT !.torn = torn]
  OBVIOUS
<1>6. /\ q.id \in 1 .. NumCategories /\ q.wanted \in Wanted
      /\ q.wanted.group = q.doc.group \/ GroupSafe(p, q.wanted.group)
  BY <1>1, <1>2 DEF Fits, FitsUpdateCategory, UpdateCategory, At
<1>7. /\ categories[q.id] \in CategoryDocs
      /\ saved \in CategoryDocs /\ saved.state = categories[q.id].state
      /\ saved.torn = categories[q.id].torn
      /\ saved.group = IF q.wanted.group # q.doc.group THEN q.wanted.group
                       ELSE categories[q.id].group
  <2>1. categories[q.id] \in CategoryDocs
    BY <1>1, <1>6 DEF Stored, CategoryDocs
  <2> QED BY <1>4, <1>6, <2>1, SavedCategory
<1>8. /\ n \in CategoryDocs /\ n.state = categories[q.id].state
      /\ \/ ~n.torn => Live(groups, n.group) /\ ~Overlapped(p, "removeGroup", n.group)
         \/ n.group = categories[q.id].group /\ n.torn = categories[q.id].torn
  <2>1. CASE q.wanted.group = q.doc.group
    BY <1>5, <1>7, <2>1
  <2>2. CASE q.wanted.group # q.doc.group
    <3>1. /\ n \in CategoryDocs /\ n.state = saved.state /\ n.group = saved.group
          /\ n.torn = torn
      BY <1>5, <1>7, <2>2 DEF CategoryDocs
    <3> QED BY <1>3, <1>6, <1>7, <2>2, <3>1 DEF GroupSafe
  <2> QED BY <2>1, <2>2
<1>9. CategoriesWritten(p)
  <2>1. CASE categories' = categories
    BY <2>1, CategoriesSame DEF UpdateCategory
  <2>2. CASE /\ Live(categories, q.id) /\ CategoriesNamed(n.group, n.name) \ {q.id} = {}
             /\ categories' = [categories EXCEPT ![q.id] = n]
    <3>1. n.state = "live" /\ edited'
      BY <1>8, <2>2 DEF Live, UpdateCategory
    <3> QED BY <1>6, <1>8, <2>2, <3>1, CategoryPut DEF UpdateCategory
  <2>3. n = IF q.wanted.group = q.doc.group THEN saved
            ELSE [saved EXCEPT !.torn = Overlapped(p, "removeGroup", saved.group)]
    BY <1>3, <1>5, <1>7 DEF Overlapped
  <2> QED BY <1>2, <1>4, <2>1, <2>2, <2>3 DEF UpdateCategory
<1>10. Goes(p) /\ request'[p].op = "done"
  BY Finishing DEF Inv, UpdateCategory
<1>11. Fits(p, request[p])'
  BY <1>10, EndFits
<1> QED BY <1>9, <1>10, <1>11, CategoryChange DEF UpdateCategory, CategoriesWritten

LEMMA RemoveCategoryStep ==
  ASSUME Inv, NEW p \in Requests, Active(p), RemoveCategory(p), UNCHANGED labels
  PROVE  Step(p)
<1>1. /\ Stored /\ Fits(p, request[p]) /\ CategoriesNamedOnce /\ GroupsHold /\ NoDangling
  BY DEF Inv, CatalogueInv, AllFit
<1>2. PICK q : q = request[p]
  OBVIOUS
<1>3. /\ q.id \in 1 .. NumCategories
      /\ ~q.found => \A r \in records : r.kind \in Consulted /\ r.category = q.id => r.torn
  BY <1>1, <1>2 DEF Fits, FitsRemoveCategory, RemoveCategory, At
<1>4. PICK stored \in CategoryDocs : stored = categories[q.id]
  BY <1>1, <1>3 DEF Stored, CategoryDocs
<1>5. Goes(p) /\ request'[p].op = "done"
  BY Finishing DEF Inv, RemoveCategory
<1>6. Fits(p, request[p])'
  BY <1>5, EndFits
<1>7. CategoriesWritten(p)
  <2>1. CASE categories' = categories
    BY <2>1, CategoriesSame DEF RemoveCategory
  <2>2. CASE /\ Live(categories, q.id)
             /\ categories' = [categories EXCEPT ![q.id].archived = TRUE]
    <3>1. PICK n : n = [stored EXCEPT !.archived = TRUE]
      OBVIOUS
    <3>2. /\ n \in CategoryDocs /\ n.state = "live" /\ n.name = stored.name
          /\ n.group = stored.group /\ n.torn = stored.torn
      BY <1>4, <2>2, <3>1 DEF CategoryDocs, Live
    <3>3. CategoriesNamed(n.group, n.name) \ {q.id} = {}
      BY <1>1, <1>3, <1>4, <2>2, <3>2, LiveIn DEF CategoriesNamed, CategoriesNamedOnce
    <3>4. categories' = [categories EXCEPT ![q.id] = n]
      BY <1>4, <2>2, <3>1
    <3> QED BY <1>3, <1>4, <2>2, <3>2, <3>3, <3>4, CategoryPut DEF RemoveCategory
  <2>3. CASE ~q.found /\ categories' = [categories EXCEPT ![q.id].state = "gone"]
    <3>1. PICK n : n = [stored EXCEPT !.state = "gone"]
      OBVIOUS
    <3>2. n \in CategoryDocs /\ n.state = "gone"
      BY <3>1 DEF CategoryDocs, States
    <3>3. categories' = [categories EXCEPT ![q.id] = n]
      BY <1>4, <2>3, <3>1
    <3>4. Stored'
      <4>1. categories' \in [1 .. NumCategories -> CategoryDocs]
        BY <1>1, <3>2, <3>3 DEF Stored, CategoryDocs
      <4> QED BY <1>1, <4>1 DEF Stored, CategoryDocs, RemoveCategory
    <3>5. /\ \A c \in 1 .. NumCategories : c # q.id => categories'[c] = categories[c]
          /\ DOMAIN categories' = 1 .. NumCategories /\ DOMAIN categories = 1 .. NumCategories
          /\ categories'[q.id].state = "gone"
      BY <1>1, <1>3, <3>2, <3>3 DEF Stored
    <3>6. \A c : Live(categories, c)' => c # q.id /\ Live(categories, c)
      BY <3>5 DEF Live
    <3>7. CategoriesNamedOnce' /\ GroupsHold'
      BY <1>1, <3>5, <3>6 DEF CategoriesNamedOnce, GroupsHold, RemoveCategory, Live
    <3>8. KeepsLive(p)
      BY <1>2, <3>5 DEF KeepsLive, Removes, RemoveCategory, At, Live
    <3>9. NoDangling'
      <4> SUFFICES ASSUME NEW r \in records, ~r.torn
                   PROVE  /\ r.kind \in Consulted /\ r.category # 0 => Live(categories, r.category)'
                          /\ r.kind \in Labelled /\ r.label # 0 => Live(labels, r.label)'
        BY DEF NoDangling, RemoveCategory
      <4>1. r.kind \in Labelled /\ r.label # 0 => Live(labels, r.label)'
        BY <1>1 DEF NoDangling
      <4>2. r.kind \in Consulted /\ r.category # 0 => Live(categories, r.category) /\ r.category # q.id
        BY <1>1, <1>3, <2>3 DEF NoDangling
      <4> QED BY <3>5, <4>1, <4>2 DEF Live
    <3>10. KeepsDefaults(p)
      BY DEF KeepsDefaults, RemoveCategory
    <3>11. \A c \in 1 .. NumCategories : TearsCategory(p, c)
      BY <1>1, <3>5, <3>6 DEF TearsCategory, Stored
    <3> QED BY <3>4, <3>7, <3>8, <3>9, <3>10, <3>11 DEF CategoriesWritten
  <2> QED BY <1>2, <2>1, <2>2, <2>3 DEF RemoveCategory
<1> QED BY <1>5, <1>6, <1>7, CategoryChange DEF RemoveCategory, CategoriesWritten


-----------------------------------------------------------------------------
(* Labels.                                                                 *)

LabelDocs ==
  [state : States, parent : 0 .. NumLabels, archived : BOOLEAN, torn : BOOLEAN,
   tied : BOOLEAN]

\* What is to be shown of a write to the labels.
LabelsWritten(p) ==
  /\ Stored' /\ KeepsLive(p) /\ KeepsTree(p) /\ NoDangling' /\ ParentsHold'
  /\ ParentsKnown' /\ LoopsTied' /\ \A l \in 1 .. NumLabels : TearsLabel(p, l)

\* A loop none of whose labels has changed was one before.
LEMMA LoopStill ==
  ASSUME NEW S, Loop(S)',
         \A m \in S : /\ Live(labels, m)' => Live(labels, m)
                      /\ Live(labels, m) => Live(labels, m)'
                      /\ labels'[m].parent = labels[m].parent
  PROVE  Loop(S)
BY DEF Loop, Closed

LEMMA LabelPut ==
  ASSUME Inv, NEW p \in Requests, NEW i \in 1 .. NumLabels, NEW q \in LabelDocs,
         q.state = "live", q.parent \in {0} \cup Known(labels),
         labels' = [labels EXCEPT ![i] = q], UNCHANGED <<catalogue, records>>,
         \/ labels[i].state = "free"
         \/ Live(labels, i) /\ (q.parent = labels[i].parent \/ request[p].op = "updateLabel"),
         \/ /\ ~q.torn => q.parent = 0 \/ Live(labels, q.parent)
            /\ ~q.torn => ~Overlapped(p, "removeLabel", q.parent)
         \/ Live(labels, i) /\ q.parent = labels[i].parent /\ q.torn = labels[i].torn,
         \A S \in SUBSET (1 .. NumLabels) : Loop(S)' /\ i \in S => \E m \in S : labels'[m].tied
  PROVE  LabelsWritten(p)
<1>1. Stored /\ NoDangling /\ ParentsHold /\ ParentsKnown /\ LoopsTied
  BY DEF Inv, CatalogueInv
<1>2. /\ labels'[i] = q
      /\ \A l \in 1 .. NumLabels : l # i => labels'[l] = labels[l]
      /\ DOMAIN labels' = 1 .. NumLabels /\ DOMAIN labels = 1 .. NumLabels
      /\ UNCHANGED <<groups, categories, stamped, edited, records>>
  BY <1>1 DEF Stored, catalogue
<1>3. Stored'
  <2>1. labels' \in [1 .. NumLabels -> LabelDocs]
    BY <1>1 DEF Stored, LabelDocs
  <2> QED BY <1>1, <1>2, <2>1 DEF Stored, LabelDocs
<1>4. \A l : Live(labels, l) => Live(labels, l)'
  BY <1>2 DEF Live
<1>5. KeepsLive(p)
  BY <1>2, <1>4 DEF KeepsLive, Live
<1>6. Known(labels) \subseteq Known(labels)' /\ KeepsTree(p)
  BY <1>2 DEF KeepsTree, Known, Live
<1>7. NoDangling'
  BY <1>1, <1>2, <1>4 DEF NoDangling, Live
<1>8. ParentsHold'
  <2> SUFFICES ASSUME NEW l \in 1 .. NumLabels, Live(labels, l)', ~labels'[l].torn,
                      labels'[l].parent # 0
               PROVE  Live(labels, labels'[l].parent)
    BY <1>4 DEF ParentsHold
  <2> QED BY <1>1, <1>2 DEF ParentsHold, Live
<1>9. ParentsKnown'
  <2> SUFFICES ASSUME NEW l \in Known(labels)' PROVE labels'[l].parent \in {0} \cup Known(labels)
    BY <1>6 DEF ParentsKnown
  <2> QED BY <1>1, <1>2 DEF ParentsKnown, Known
<1>10. LoopsTied'
  <2> SUFFICES ASSUME NEW S \in SUBSET (1 .. NumLabels), Loop(S)', i \notin S
               PROVE  \E m \in S : labels'[m].tied
    BY DEF LoopsTied
  <2>1. \A m \in S : labels'[m] = labels[m] /\ (Live(labels, m)' <=> Live(labels, m))
    BY <1>2 DEF Live
  <2>2. Loop(S)
    BY <2>1, LoopStill
  <2> QED BY <1>1, <2>1, <2>2 DEF LoopsTied
<1>11. \A l \in 1 .. NumLabels : TearsLabel(p, l)
  BY <1>1, <1>2 DEF TearsLabel, Live, Stored
<1> QED BY <1>3, <1>5, <1>6, <1>7, <1>8, <1>9, <1>10, <1>11 DEF LabelsWritten

LEMMA LabelsSame ==
  ASSUME Inv, NEW p \in Requests, UNCHANGED <<catalogue, labels, records>>
  PROVE  LabelsWritten(p)
<1>1. Stored /\ NoDangling /\ ParentsHold /\ ParentsKnown /\ LoopsTied
  BY DEF Inv, CatalogueInv
<1>2. Stored' /\ NoDangling' /\ ParentsHold' /\ ParentsKnown'
  BY <1>1 DEF Stored, NoDangling, ParentsHold, ParentsKnown, Live, Known, catalogue
<1>3. LoopsTied'
  BY <1>1, LoopStill DEF LoopsTied, Live
<1>4. KeepsLive(p) /\ KeepsTree(p) /\ \A l \in 1 .. NumLabels : TearsLabel(p, l)
  BY DEF KeepsLive, KeepsTree, TearsLabel, Live, Known, catalogue
<1> QED BY <1>2, <1>3, <1>4 DEF LabelsWritten

LEMMA CreateLabelStep ==
  ASSUME Inv, NEW p \in Requests, Active(p), CreateLabel(p), UNCHANGED catalogue
  PROVE  Step(p)
<1>1. Stored /\ ParentsKnown /\ Fits(p, request[p])
  BY DEF Inv, CatalogueInv, AllFit
<1>2. PICK parent : parent = request[p].wanted.parent
  OBVIOUS
<1>3. /\ parent \in {0} \cup Known(labels) /\ parent \in 0 .. NumLabels
      /\ parent = 0 \/ LabelSafe(p, parent)
  BY <1>1, <1>2, LiveIn, LabelsAssumption DEF Fits, FitsCreateLabel, CreateLabel, At
<1>4. PICK torn \in BOOLEAN : torn <=> Overlapped(p, "removeLabel", parent)
  OBVIOUS
<1>5. PICK q : q = [state |-> "live", archived |-> FALSE, parent |-> parent, torn |-> torn,
                    tied |-> FALSE]
  OBVIOUS
<1>6. q \in LabelDocs /\ q.state = "live" /\ q.parent = parent /\ (q.torn <=> torn)
  BY <1>3, <1>5 DEF LabelDocs, States
<1>7. PICK i \in Free(labels) : labels' = [labels EXCEPT ![i] = q]
  BY <1>2, <1>4, <1>5 DEF CreateLabel, Overlapped
<1>8. i \in 1 .. NumLabels /\ labels[i].state = "free" /\ i \notin Known(labels)
  BY <1>1, FreeIn, LiveIn
<1>9. ASSUME NEW S \in SUBSET (1 .. NumLabels), Loop(S)', i \in S
      PROVE  FALSE
  <2> DEFINE T == S \ {i}
  <2>1. parent \in S /\ parent # i
    BY <1>1, <1>3, <1>6, <1>7, <1>8, <1>9 DEF Loop, Closed, Stored
  <2>2. ASSUME NEW m \in T PROVE Live(labels, m)' /\ labels'[m].parent \in T
    <3>1. Live(labels, m)' /\ labels'[m].parent \in S /\ labels'[m] = labels[m]
      <4>1. Live(labels, m)' /\ labels'[m].parent \in S
        BY <1>9 DEF Loop, Closed
      <4>2. m \in DOMAIN labels /\ m # i
        BY <1>1 DEF Stored
      <4> QED BY <1>7, <4>1, <4>2
    <3>2. m \in Known(labels)
      BY <3>1, <1>1 DEF Live, Known, Stored
    <3>3. labels[m].parent # i
      BY <3>2, <1>1, <1>8 DEF ParentsKnown
    <3> QED BY <3>1, <3>3
  <2>3. Closed(T)'
    BY <2>1, <2>2 DEF Closed
  <2>4. T = S
    BY <2>3, <1>9 DEF Loop
  <2> QED BY <1>9, <2>4
<1>10. LabelsWritten(p)
  BY <1>3, <1>4, <1>6, <1>7, <1>8, <1>9, LabelPut DEF CreateLabel, LabelSafe
<1>11. Goes(p) /\ request'[p].op = "done"
  BY Finishing DEF Inv, CreateLabel
<1>12. Fits(p, request[p])'
  BY <1>11, EndFits
<1> QED BY <1>10, <1>11, <1>12, LabelChange DEF CreateLabel, LabelsWritten


LEMMA SavedLabel ==
  ASSUME NEW stored \in LabelDocs, NEW doc,
         NEW wanted \in [parent : 0 .. NumLabels, archived : BOOLEAN],
         NEW s, s = Saved(stored, doc, wanted)
  PROVE  /\ s \in LabelDocs /\ s.state = stored.state
         /\ s.torn = stored.torn /\ s.tied = stored.tied
         /\ s.parent = IF wanted.parent # doc.parent THEN wanted.parent ELSE stored.parent
<1>1. /\ DOMAIN stored = {"state", "parent", "archived", "torn", "tied"}
      /\ DOMAIN wanted = {"parent", "archived"}
  BY DEF LabelDocs
<1>2. /\ s["state"] = stored["state"] /\ s["torn"] = stored["torn"] /\ s["tied"] = stored["tied"]
      /\ s["parent"] =
           IF wanted["parent"] # doc["parent"] THEN wanted["parent"] ELSE stored["parent"]
      /\ s["archived"] =
           IF wanted["archived"] # doc["archived"] THEN wanted["archived"] ELSE stored["archived"]
      /\ s = [f \in {"state", "parent", "archived", "torn", "tied"} |-> s[f]]
  BY <1>1 DEF Saved
<1>3. s.parent \in 0 .. NumLabels
  BY <1>2 DEF LabelDocs
<1>4. s.archived \in BOOLEAN /\ s.torn \in BOOLEAN /\ s.tied \in BOOLEAN /\ s.state \in States
  BY <1>2 DEF LabelDocs
<1>5. s = [state |-> s.state, parent |-> s.parent, archived |-> s.archived, torn |-> s.torn,
           tied |-> s.tied]
  BY <1>2
<1>6. s \in LabelDocs
  BY <1>3, <1>4, <1>5 DEF LabelDocs
<1> QED BY <1>2, <1>6

LEMMA UpdateLabelStep ==
  ASSUME Inv, NEW p \in Requests, Active(p), UpdateLabel(p), UNCHANGED catalogue
  PROVE  Step(p)
<1>1. Stored /\ LoopsTied /\ ParentsKnown /\ Fits(p, request[p])
  BY DEF Inv, CatalogueInv, AllFit
<1>2. PICK q : q = request[p]
  OBVIOUS
<1>3. PICK parent : parent = q.wanted.parent
  OBVIOUS
<1>4. PICK torn \in BOOLEAN, tied \in BOOLEAN :
        /\ torn <=> Overlapped(p, "removeLabel", parent)
        /\ tied <=> \E o \in amid[p] : o.op = "updateLabel"
  OBVIOUS
<1>5. PICK saved : saved = Saved(labels[q.id], q.doc, q.wanted)
  OBVIOUS
<1>6. PICK n : n = IF parent = q.doc.parent THEN saved
                   ELSE [saved EXCEPT !.torn = torn, !.tied = tied]
  OBVIOUS
<1>7. /\ q.id \in 1 .. NumLabels /\ parent \in {0} \cup Known(labels)
      /\ q.wanted \in [parent : 0 .. NumLabels, archived : BOOLEAN]
      /\ \/ parent \in {0, q.doc.parent}
         \/ LabelSafe(p, parent) /\ (tied \/ Walked(q))
  <2>1. FitsUpdateLabel(p, q) /\ q.op = "updateLabel" /\ q.at = "write"
    BY <1>1, <1>2 DEF Fits, UpdateLabel, At
  <2>2. /\ q.id \in Known(labels)
        /\ q.wanted \in [parent : {0} \cup Known(labels), archived : BOOLEAN]
    BY <2>1 DEF FitsUpdateLabel
  <2>3. Known(labels) \subseteq 1 .. NumLabels /\ {0} \cup Known(labels) \subseteq 0 .. NumLabels
    BY <1>1, LiveIn, LabelsAssumption
  <2>4. tied <=> MetAny(p, {"updateLabel"})
    BY <1>4 DEF MetAny
  <2> QED BY <1>3, <2>1, <2>2, <2>3, <2>4 DEF FitsUpdateLabel
<1>8. /\ labels[q.id] \in LabelDocs
      /\ saved \in LabelDocs /\ saved.state = labels[q.id].state
      /\ saved.torn = labels[q.id].torn /\ saved.tied = labels[q.id].tied
      /\ saved.parent = IF parent # q.doc.parent THEN parent ELSE labels[q.id].parent
  <2>1. labels[q.id] \in LabelDocs
    BY <1>1, <1>7 DEF Stored, LabelDocs
  <2> QED BY <1>3, <1>5, <1>7, <2>1, SavedLabel
<1>9. /\ n \in LabelDocs /\ n.state = labels[q.id].state
      /\ \/ /\ parent = q.doc.parent /\ n.parent = labels[q.id].parent
            /\ n.torn = labels[q.id].torn /\ n.tied = labels[q.id].tied
         \/ /\ parent # q.doc.parent /\ n.parent = parent
            /\ (n.torn <=> torn) /\ (n.tied <=> tied)
  <2>1. CASE parent = q.doc.parent
    BY <1>6, <1>8, <2>1
  <2>2. CASE parent # q.doc.parent
    <3>1. /\ n \in LabelDocs /\ n.state = saved.state /\ n.parent = saved.parent
          /\ n.torn = torn /\ n.tied = tied
      BY <1>6, <1>8, <2>2 DEF LabelDocs
    <3> QED BY <1>8, <2>2, <3>1
  <2> QED BY <2>1, <2>2
<1>10. ASSUME Live(labels, q.id), labels' = [labels EXCEPT ![q.id] = n],
              NEW S \in SUBSET (1 .. NumLabels), Loop(S)', q.id \in S
       PROVE  \E m \in S : labels'[m].tied
  <2>1. /\ labels'[q.id] = n
        /\ \A l \in 1 .. NumLabels : l # q.id => labels'[l] = labels[l]
        /\ DOMAIN labels' = 1 .. NumLabels /\ DOMAIN labels = 1 .. NumLabels
    BY <1>1, <1>7, <1>10 DEF Stored
  <2>2. CASE parent = q.doc.parent
    <3>1. \A m \in S : /\ labels'[m].parent = labels[m].parent
                       /\ labels'[m].tied = labels[m].tied
                       /\ Live(labels, m)' <=> Live(labels, m)
      BY <1>9, <2>1, <2>2 DEF Live
    <3>2. Loop(S)
      BY <1>10, <3>1, LoopStill
    <3> QED BY <1>1, <3>1, <3>2 DEF LoopsTied
  <2>3. CASE parent # q.doc.parent /\ tied
    BY <1>9, <1>10, <2>1, <2>3
  <2>4. CASE parent # q.doc.parent /\ ~tied
    <3> DEFINE T == S \cap q.todo
    <3>1. /\ \A m \in S : Live(labels, m)' /\ labels'[m].parent \in S
          /\ 0 \notin S
      <4>1. Closed(S)'
        BY <1>10 DEF Loop
      <4>2. \A m \in S : Live(labels, m)' /\ labels'[m].parent \in S
        BY <4>1 DEF Closed
      <4>3. 0 \notin S
        BY <1>10, LabelsAssumption
      <4> QED BY <4>2, <4>3
    <3>2. parent \in S /\ Walked(q)
      BY <1>7, <1>9, <1>10, <2>1, <2>4, <3>1
    <3>3. parent \in T /\ q.id \notin T
      BY <1>3, <3>2 DEF Walked
    <3>4. ASSUME NEW m \in T PROVE labels'[m].parent \in T
      <4>1. labels'[m] = labels[m] /\ Live(labels, m)
        BY <2>1, <3>1, <3>3 DEF Live
      <4>2. q.at = "write"
        BY <1>2 DEF UpdateLabel, At
      <4>3. labels[m].parent \in q.todo \cup {0}
        BY <3>2, <4>1, <4>2 DEF Walked
      <4> QED BY <3>1, <4>1, <4>3
    <3>5. Closed(T)'
      BY <3>1, <3>3, <3>4 DEF Closed
    <3>6. T = S
      BY <1>10, <3>5 DEF Loop
    <3> QED BY <1>10, <3>3, <3>6
  <2> QED BY <2>2, <2>3, <2>4
<1>11. LabelsWritten(p)
  <2>1. CASE labels' = labels
    BY <2>1, LabelsSame DEF UpdateLabel
  <2>2. CASE Live(labels, q.id) /\ labels' = [labels EXCEPT ![q.id] = n]
    <3>1. n.state = "live" /\ n.parent \in {0} \cup Known(labels)
      BY <1>1, <1>7, <1>9, <2>2 DEF Live, Known, ParentsKnown
    <3>2. \/ /\ ~n.torn => n.parent = 0 \/ Live(labels, n.parent)
             /\ ~n.torn => ~Overlapped(p, "removeLabel", n.parent)
          \/ Live(labels, q.id) /\ n.parent = labels[q.id].parent /\ n.torn = labels[q.id].torn
      BY <1>4, <1>7, <1>9, <2>2 DEF LabelSafe
    <3>3. request[p].op = "updateLabel"
      BY DEF UpdateLabel, At
    <3> QED BY <1>7, <1>9, <1>10, <2>2, <3>1, <3>2, <3>3, LabelPut DEF UpdateLabel
  <2>3. n = IF q.wanted.parent = q.doc.parent THEN saved
            ELSE [saved EXCEPT !.torn = Overlapped(p, "removeLabel", saved.parent),
                               !.tied = \E o \in amid[p] : o.op = "updateLabel"]
    <3>1. parent # q.doc.parent => torn = Overlapped(p, "removeLabel", saved.parent)
      BY <1>4, <1>8 DEF Overlapped
    <3>2. tied = (\E o \in amid[p] : o.op = "updateLabel")
      BY <1>4
    <3> QED BY <1>3, <1>6, <3>1, <3>2
  <2> QED BY <1>2, <1>5, <2>1, <2>2, <2>3 DEF UpdateLabel
<1>12. Goes(p) /\ request'[p].op = "done"
  BY Finishing DEF Inv, UpdateLabel
<1>13. Fits(p, request[p])'
  BY <1>12, EndFits
<1> QED BY <1>11, <1>12, <1>13, LabelChange DEF UpdateLabel, LabelsWritten


LEMMA RemoveLabelStep ==
  ASSUME Inv, NEW p \in Requests, Active(p), RemoveLabel(p), UNCHANGED catalogue
  PROVE  Step(p)
<1>1. /\ Stored /\ Fits(p, request[p]) /\ NoDangling /\ ParentsHold /\ ParentsKnown /\ LoopsTied
  BY DEF Inv, CatalogueInv, AllFit
<1>2. PICK q : q = request[p]
  OBVIOUS
<1>3. /\ q.id \in 1 .. NumLabels
      /\ ~q.found =>
           /\ \A r \in records : r.kind \in Labelled /\ r.label = q.id => r.torn
           /\ \A l \in 1 .. NumLabels :
                Live(labels, l) /\ labels[l].parent = q.id => labels[l].torn
  BY <1>1, <1>2 DEF Fits, FitsRemoveLabel, RemoveLabel, At
<1>4. PICK stored \in LabelDocs : stored = labels[q.id]
  BY <1>1, <1>3 DEF Stored, LabelDocs
<1>5. Goes(p) /\ request'[p].op = "done"
  BY Finishing DEF Inv, RemoveLabel
<1>6. Fits(p, request[p])'
  BY <1>5, EndFits
<1>7. LabelsWritten(p)
  <2>1. CASE labels' = labels
    BY <2>1, LabelsSame DEF RemoveLabel
  <2>2. CASE Live(labels, q.id) /\ labels' = [labels EXCEPT ![q.id].archived = TRUE]
    <3>1. PICK n : n = [stored EXCEPT !.archived = TRUE]
      OBVIOUS
    <3>2. /\ n \in LabelDocs /\ n.state = "live" /\ n.parent = stored.parent
          /\ n.torn = stored.torn /\ n.tied = stored.tied
      BY <1>4, <2>2, <3>1 DEF LabelDocs, Live
    <3>3. labels' = [labels EXCEPT ![q.id] = n]
      BY <1>4, <2>2, <3>1
    <3>4. n.parent \in {0} \cup Known(labels)
      BY <1>1, <1>4, <2>2, <3>2 DEF Live, Known, ParentsKnown
    <3>5. ASSUME NEW S \in SUBSET (1 .. NumLabels), Loop(S)'
          PROVE  \E m \in S : labels'[m].tied
      <4>1. \A m \in S : /\ labels'[m].parent = labels[m].parent
                         /\ labels'[m].tied = labels[m].tied
                         /\ Live(labels, m)' <=> Live(labels, m)
        BY <1>1, <1>3, <1>4, <2>2, <3>2, <3>3 DEF Stored, Live
      <4>2. Loop(S)
        BY <3>5, <4>1, LoopStill
      <4> QED BY <1>1, <4>1, <4>2 DEF LoopsTied
    <3> QED BY <1>3, <1>4, <2>2, <3>2, <3>3, <3>4, <3>5, LabelPut DEF RemoveLabel
  <2>3. CASE ~q.found /\ labels' = [labels EXCEPT ![q.id].state = "gone"]
    <3>1. PICK n : n = [stored EXCEPT !.state = "gone"]
      OBVIOUS
    <3>2. n \in LabelDocs /\ n.state = "gone" /\ n.parent = stored.parent
      BY <3>1 DEF LabelDocs, States
    <3>3. labels' = [labels EXCEPT ![q.id] = n]
      BY <1>4, <2>3, <3>1
    <3>4. Stored'
      <4>1. labels' \in [1 .. NumLabels -> LabelDocs]
        BY <1>1, <3>2, <3>3 DEF Stored, LabelDocs
      <4> QED BY <1>1, <4>1 DEF Stored, LabelDocs, RemoveLabel, catalogue
    <3>5. /\ \A l \in 1 .. NumLabels : l # q.id => labels'[l] = labels[l]
          /\ DOMAIN labels' = 1 .. NumLabels /\ DOMAIN labels = 1 .. NumLabels
          /\ labels'[q.id] = n
      BY <1>1, <1>3, <3>3 DEF Stored
    <3>6. \A l : Live(labels, l)' => l # q.id /\ Live(labels, l) /\ labels'[l] = labels[l]
      BY <3>2, <3>5 DEF Live
    <3>7. KeepsLive(p)
      BY <1>2, <3>5 DEF KeepsLive, Removes, RemoveLabel, At, Live, catalogue
    <3>8. NoDangling'
      <4> SUFFICES ASSUME NEW r \in records, ~r.torn
                   PROVE  /\ r.kind \in Consulted /\ r.category # 0 => Live(categories, r.category)'
                          /\ r.kind \in Labelled /\ r.label # 0 => Live(labels, r.label)'
        BY DEF NoDangling, RemoveLabel
      <4>1. r.kind \in Consulted /\ r.category # 0 => Live(categories, r.category)'
        BY <1>1 DEF NoDangling, catalogue
      <4>2. r.kind \in Labelled /\ r.label # 0 => Live(labels, r.label) /\ r.label # q.id
        BY <1>1, <1>3, <2>3 DEF NoDangling
      <4> QED BY <3>5, <4>1, <4>2 DEF Live
    <3>9. ParentsHold'
      <4> SUFFICES ASSUME NEW l \in 1 .. NumLabels, Live(labels, l)', ~labels'[l].torn,
                          labels'[l].parent # 0
                   PROVE  Live(labels, labels[l].parent)'
        BY DEF ParentsHold
      <4>1. Live(labels, l) /\ labels'[l] = labels[l]
        BY <3>6
      <4>2. Live(labels, labels[l].parent) /\ labels[l].parent # q.id
        BY <1>1, <1>3, <2>3, <4>1 DEF ParentsHold
      <4> QED BY <3>5, <4>1, <4>2 DEF Live
    <3>10. Known(labels)' = Known(labels)
      BY <3>2, <3>5, <1>3, <1>4, <2>3 DEF Known, RemoveLabel, Live
    <3>11. ParentsKnown' /\ KeepsTree(p)
      BY <1>1, <1>4, <3>2, <3>5, <3>6, <3>10 DEF ParentsKnown, KeepsTree, Known
    <3>12. LoopsTied'
      <4> SUFFICES ASSUME NEW S \in SUBSET (1 .. NumLabels), Loop(S)'
                   PROVE  \E m \in S : labels'[m].tied
        BY DEF LoopsTied
      <4>1. \A m \in S : Live(labels, m)'
        BY DEF Loop, Closed
      <4>2. \A m \in S : Live(labels, m) /\ labels'[m] = labels[m]
        BY <3>6, <4>1
      <4>3. Loop(S)
        BY <4>1, <4>2, LoopStill
      <4> QED BY <1>1, <4>2, <4>3 DEF LoopsTied
    <3>13. \A l \in 1 .. NumLabels : TearsLabel(p, l)
      BY <1>1, <3>6 DEF TearsLabel, Stored
    <3> QED BY <3>4, <3>7, <3>8, <3>9, <3>11, <3>12, <3>13 DEF LabelsWritten
  <2> QED BY <1>2, <2>1, <2>2, <2>3 DEF RemoveLabel
<1> QED BY <1>5, <1>6, <1>7, LabelChange DEF RemoveLabel, LabelsWritten

-----------------------------------------------------------------------------
(* Records: writing them.                                                  *)

\* Records taken away, and at most one put there that names what exists.
LEMMA RecordPut ==
  ASSUME Inv, NEW p \in Requests, Active(p), NEW old \in SUBSET records, NEW r \in Record,
         records' = (records \ old) \cup {r}, UNCHANGED <<catalogue, labels>>,
         ~r.torn => /\ ~Overlapped(p, "removeCategory", r.category)
                    /\ ~Overlapped(p, "removeLabel", r.label)
                    /\ r.kind \in Consulted /\ r.category # 0 => Live(categories, r.category)
                    /\ r.kind \in Labelled /\ r.label # 0 => Live(labels, r.label),
         r.kind = "limit" => LimitOn(r.category) \subseteq old,
         Goes(p), Fits(p, request[p])'
  PROVE  Step(p)
<1>1. Stored /\ OneLimit /\ NoDangling
  BY DEF Inv, CatalogueInv
<1>2. Stored'
  BY <1>1 DEF Stored, catalogue
<1>3. OneLimit'
  BY <1>1 DEF OneLimit, LimitOn
<1>4. NoDangling'
  <2> SUFFICES ASSUME NEW s \in records', ~s.torn
               PROVE  /\ s.kind \in Consulted /\ s.category # 0 => Live(categories, s.category)
                      /\ s.kind \in Labelled /\ s.label # 0 => Live(labels, s.label)
    BY DEF NoDangling, catalogue, Live
  <2>1. CASE s = r
    BY <2>1
  <2>2. CASE s \in records
    BY <1>1, <2>2 DEF NoDangling
  <2> QED BY <2>1, <2>2
<1> QED BY <1>2, <1>3, <1>4, RecordChange


LEMMA FileStep ==
  ASSUME Inv, NEW p \in Requests, Active(p), File(p)
  PROVE  Step(p)
<1> DEFINE q == request[p]
           old == {q.doc[i] : i \in DOMAIN q.doc}
           category == q.wanted.category
           label == q.wanted.label
           r == Carrier(p, q.wanted.kind, category, label, old)
<1>1. Stored /\ OneLimit /\ NoDangling /\ FitsFile(p, q) /\ q.op = "file" /\ q.todo = {}
  BY DEF Inv, CatalogueInv, AllFit, Fits, File, At
<1>2. Goes(p) /\ request'[p].op = "done"
  BY Finishing DEF Inv, File
<1>3. Fits(p, request[p])'
  BY <1>2, EndFits
<1>4. CASE ~(old \subseteq records)
  <2>1. records' = records
    BY <1>4 DEF File
  <2>2. Stored' /\ OneLimit' /\ NoDangling'
    BY <1>1, <2>1 DEF Stored, OneLimit, LimitOn, NoDangling, Live, File, catalogue
  <2> QED BY <1>2, <1>3, <2>1, <2>2, RecordChange DEF File
<1>5. CASE old \subseteq records
  <2>1. records' = (records \ old) \cup {r}
    BY <1>5 DEF File
  <2>2. /\ q.wanted.kind \in Kinds \ {"limit"} /\ category \in 0 .. NumCategories
        /\ label \in 0 .. NumLabels
        /\ \A o \in old : o \in records /\ o.kind = q.wanted.kind
        /\ category = 0 \/ CategorySafe(p, category) \/ \E o \in old : o.category = category
        /\ label = 0 \/ LabelSafe(p, label) \/ \E o \in old : o.label = label
    BY <1>1, <1>5 DEF FitsFile
  <2>3. PICK torn \in BOOLEAN : torn <=> Torn(p, category, label) \/ \E o \in old : o.torn
    OBVIOUS
  <2>4. PICK s : s = [kind |-> q.wanted.kind, category |-> category, label |-> label,
                      by |-> p, torn |-> torn]
    OBVIOUS
  <2>5. s = r
    BY <2>3, <2>4 DEF Carrier, Torn, Overlapped
  <2>6. /\ s.kind = q.wanted.kind /\ s.category = category /\ s.label = label
        /\ (s.torn <=> torn) /\ s \in Record
    BY <2>2, <2>3, <2>4 DEF Record
  <2>7. ASSUME ~s.torn
        PROVE  /\ ~Overlapped(p, "removeCategory", s.category)
               /\ ~Overlapped(p, "removeLabel", s.label)
               /\ s.kind \in Consulted /\ s.category # 0 => Live(categories, s.category)
               /\ s.kind \in Labelled /\ s.label # 0 => Live(labels, s.label)
    <3>1. ~Torn(p, category, label) /\ \A o \in old : ~o.torn
      BY <2>3, <2>6, <2>7
    <3>2. /\ category = 0 \/ Live(categories, category) \/ \E o \in old : o.category = category
          /\ label = 0 \/ Live(labels, label) \/ \E o \in old : o.label = label
      BY <2>2, <3>1 DEF CategorySafe, LabelSafe, Torn
    <3>3. ASSUME NEW o \in old
          PROVE  /\ o.kind \in Consulted /\ o.category # 0 => Live(categories, o.category)
                 /\ o.kind \in Labelled /\ o.label # 0 => Live(labels, o.label)
                 /\ o.kind = s.kind
      BY <1>1, <2>2, <2>6, <3>1 DEF NoDangling
    <3> HIDE DEF old, category, label
    <3>4. s.kind \in Consulted /\ s.category # 0 => Live(categories, s.category)
      BY <2>6, <3>2, <3>3
    <3>5. s.kind \in Labelled /\ s.label # 0 => Live(labels, s.label)
      BY <2>6, <3>2, <3>3
    <3> QED BY <2>6, <3>1, <3>4, <3>5 DEF Torn
  <2>8. s.kind # "limit"
    BY <2>2, <2>6
  <2> HIDE DEF old, r
  <2> QED BY <1>2, <1>3, <1>5, <2>1, <2>5, <2>6, <2>7, <2>8, RecordPut DEF File
<1> QED BY <1>4, <1>5

LEMMA UnfileStep ==
  ASSUME Inv, NEW p \in Requests, NEW r \in records, Unfile(p, r)
  PROVE  Step(p)
<1>1. Stored /\ OneLimit /\ NoDangling /\ records' \subseteq records
  BY DEF Inv, CatalogueInv, Unfile
<1>2. Stored' /\ OneLimit' /\ NoDangling'
  BY <1>1 DEF Stored, OneLimit, LimitOn, NoDangling, Live, Unfile, catalogue
<1>3. Goes(p) /\ request'[p].op = "done"
  BY Beginning, DoneIs DEF Unfile, Inv
<1>4. Fits(p, request[p])'
  BY <1>3, EndFits
<1> QED BY <1>1, <1>2, <1>3, <1>4, RecordChange DEF Unfile

LEMMA SetLimitStep ==
  ASSUME Inv, NEW p \in Requests, Active(p), NEW c \in 1 .. NumCategories, SetLimit(p, c)
  PROVE  Step(p)
<1> DEFINE old == request[p]
<1>1. Stored /\ FitsSetLimits(p, old) /\ old.op = "setLimits" /\ old.at = "write" /\ c \in old.todo
  BY DEF Inv, CatalogueInv, AllFit, Fits, SetLimit, At
<1>2. Goes(p) /\ Fits(p, request[p])'
  <2>1. CASE Finish(p)
    BY <2>1, Finishing, EndFits DEF Inv
  <2>2. CASE Becomes(p, [old EXCEPT !.todo = @ \ {c}])
    <3>1. ASSUME NEW i, Shape(i), NEW r, r = [i EXCEPT !.todo = @ \ {c}]
          PROVE  /\ Shape(r) /\ r.op = i.op /\ r.at = i.at /\ r.id = i.id
                 /\ r.todo = i.todo \ {c}
      BY <3>1 DEF Shape
    <3>2. PICK q : /\ Shape(q) /\ q.op = "setLimits" /\ q.at = "write" /\ q.id = old.id
                   /\ q.todo = old.todo \ {c} /\ Becomes(p, q)
      BY <1>1, <2>2, <3>1 DEF Inv, Shapes
    <3>3. Goes(p) /\ request'[p] = q /\ amid' = amid
      BY <1>1, <3>2, Becoming DEF Inv
    <3>4. \A d : CategorySafe(p, d) => CategorySafe(p, d)'
      BY <3>3 DEF CategorySafe, Overlapped, SetLimit, catalogue, Live
    <3>5. FitsSetLimits(p, q)'
      BY <1>1, <3>2, <3>4 DEF FitsSetLimits
    <3>6. Fits(p, q)'
      BY <3>2, <3>5, FitsIts
    <3> QED BY <3>3, <3>6
  <2> QED BY <2>1, <2>2 DEF SetLimit
<1>3. PICK torn \in BOOLEAN : torn <=> Torn(p, c, 0) \/ \E r \in LimitOn(c) : r.torn
  OBVIOUS
<1>4. PICK s : s = [kind |-> "limit", category |-> c, label |-> 0, by |-> p, torn |-> torn]
  OBVIOUS
<1>5. records' = (records \ LimitOn(c)) \cup {s}
  BY <1>3, <1>4 DEF SetLimit, Carrier, Torn, Overlapped
<1>6. s \in Record /\ s.kind = "limit" /\ s.category = c /\ s.label = 0 /\ (s.torn <=> torn)
  <2>1. 0 \in 0 .. NumLabels
    BY LabelsAssumption
  <2> QED BY <1>3, <1>4, <2>1 DEF Record, Kinds
<1>7. ~s.torn => /\ ~Overlapped(p, "removeCategory", c) /\ ~Overlapped(p, "removeLabel", 0)
                 /\ Live(categories, c)
  BY <1>1, <1>3, <1>6 DEF Torn, FitsSetLimits, CategorySafe
<1>8. LimitOn(c) \subseteq records
  BY DEF LimitOn
<1> QED BY <1>2, <1>5, <1>6, <1>7, <1>8, RecordPut DEF SetLimit


-----------------------------------------------------------------------------
(* The households there may be at first.                                   *)

LEMMA NothingYet ==
  ASSUME Init, ~stamped
  PROVE  CatalogueInv
<1>1. /\ groups = [g \in 1 .. NumGroups |-> NoGroup] /\ records = {}
      /\ categories = [c \in 1 .. NumCategories |-> NoCategory]
      /\ labels = [l \in 1 .. NumLabels |-> NoLabel] /\ stamped = FALSE /\ edited = FALSE
  BY DEF Init
<1>2. /\ NoGroup.state = "free" /\ NoCategory.state = "free" /\ NoLabel.state = "free"
      /\ NoGroup \in [state : States, name : GroupNames \cup {None}]
      /\ NoCategory \in CategoryDocs /\ NoLabel \in LabelDocs
  BY DefaultsAssumption, LabelsAssumption DEF NoGroup, NoCategory, NoLabel, States,
     CategoryDocs, LabelDocs
<1>3. Stored
  BY <1>1, <1>2 DEF Stored, CategoryDocs, LabelDocs
<1>4. /\ \A g : ~Live(groups, g)
      /\ \A c : ~Live(categories, c)
      /\ \A l : ~Live(labels, l) /\ l \notin Known(labels)
  BY <1>1, <1>2 DEF Live, Known
<1>5. GroupsNamedOnce /\ CategoriesNamedOnce /\ OneLimit /\ NoDangling
  BY <1>1, <1>4 DEF GroupsNamedOnce, CategoriesNamedOnce, OneLimit, LimitOn, NoDangling
<1>6. GroupsHold /\ ParentsHold /\ ParentsKnown
  BY <1>4 DEF GroupsHold, ParentsHold, ParentsKnown
<1>7. LoopsTied
  BY <1>4 DEF LoopsTied, Loop, Closed
<1> QED BY <1>1, <1>3, <1>5, <1>6, <1>7 DEF CatalogueInv, SeedComplete, SeededLong

\* The header of a category's entry.
Over(c) == CHOOSE h \in 1 .. c : Header(h, c)

LEMMA OverIs ==
  ASSUME NEW c \in DOMAIN Defaults, Defaults[c][2] # None
  PROVE  /\ Over(c) \in 1 .. c /\ Over(c) \in DOMAIN Defaults /\ Defaults[Over(c)][2] = None
         /\ Defaults[Over(c)][1] = Defaults[c][1]
<1>1. Over(c) \in 1 .. c /\ Header(Over(c), c)
  BY DefaultsAssumption DEF Over
<1>2. c \in 1 .. Len(Defaults) /\ Len(Defaults) \in Nat
  BY SeedEntry
<1> QED BY <1>1, <1>2, SeedEntry DEF Header

LEMMA SeededBefore ==
  ASSUME Init, stamped
  PROVE  CatalogueInv
<1>1. /\ groups = [g \in 1 .. NumGroups |->
             IF g \in DOMAIN Defaults /\ Defaults[g][2] = None
             THEN [state |-> "live", name |-> Defaults[g][1]] ELSE NoGroup]
      /\ categories = [c \in 1 .. NumCategories |->
             IF c \in DOMAIN Defaults /\ Defaults[c][2] # None
             THEN [state |-> "live", group |-> Over(c),
                   name |-> Defaults[c][2], archived |-> FALSE, torn |-> FALSE]
             ELSE NoCategory]
      /\ labels = [l \in 1 .. NumLabels |-> [NoLabel EXCEPT !.state = "live"]]
      /\ stamped = TRUE /\ edited = FALSE /\ records = {}
  BY DEF Init, Over
<1>2. /\ NoGroup.state = "free" /\ NoCategory.state = "free"
      /\ NoGroup \in [state : States, name : GroupNames \cup {None}]
      /\ NoCategory \in CategoryDocs
      /\ [NoLabel EXCEPT !.state = "live"] \in LabelDocs
      /\ [NoLabel EXCEPT !.state = "live"].parent = 0
  <2>1. /\ NoGroup.state = "free" /\ NoCategory.state = "free"
        /\ NoGroup \in [state : States, name : GroupNames \cup {None}]
        /\ NoCategory \in CategoryDocs
    BY DefaultsAssumption DEF NoGroup, NoCategory, States, CategoryDocs
  <2>2. NoLabel \in LabelDocs /\ NoLabel.parent = 0
    BY LabelsAssumption DEF NoLabel, States, LabelDocs
  <2>3. /\ [NoLabel EXCEPT !.state = "live"] \in LabelDocs
        /\ [NoLabel EXCEPT !.state = "live"].parent = 0
    BY <2>2 DEF LabelDocs, States
  <2> QED BY <2>1, <2>3
<1>3. /\ DOMAIN Defaults = 1 .. Len(Defaults) /\ Len(Defaults) \in Nat
      /\ Len(Defaults) <= NumGroups /\ Len(Defaults) <= NumCategories
      /\ NumGroups \in Nat /\ NumCategories \in Nat /\ 1 <= NumGroups
      /\ DOMAIN Defaults \subseteq 1 .. NumGroups /\ DOMAIN Defaults \subseteq 1 .. NumCategories
  BY DefaultsAssumption, SeedEntry
<1>4. /\ \A g : Live(groups, g) <=> g \in DOMAIN Defaults /\ Defaults[g][2] = None
      /\ \A g : Live(groups, g) => groups[g].name = Defaults[g][1]
  BY <1>1, <1>2, <1>3 DEF Live
<1>5. /\ \A c : Live(categories, c) <=> c \in DOMAIN Defaults /\ Defaults[c][2] # None
      /\ \A c : Live(categories, c) => /\ categories[c].group = Over(c)
                                       /\ categories[c].name = Defaults[c][2]
  BY <1>1, <1>2, <1>3 DEF Live
<1>6. Stored
  <2>1. groups \in [1 .. NumGroups -> [state : States, name : GroupNames \cup {None}]]
    BY <1>1, <1>2, SeedEntry DEF States
  <2>2. ASSUME NEW c \in 1 .. NumCategories PROVE categories[c] \in CategoryDocs
    <3>1. CASE c \in DOMAIN Defaults /\ Defaults[c][2] # None
      <4>1. Over(c) \in 0 .. NumGroups
        BY <1>3, <3>1, OverIs
      <4>2. Defaults[c][2] \in CategoryNames \cup {None}
        BY <3>1, SeedEntry
      <4> QED BY <1>1, <3>1, <4>1, <4>2 DEF CategoryDocs, States
    <3>2. CASE ~(c \in DOMAIN Defaults /\ Defaults[c][2] # None)
      BY <1>1, <1>2, <3>2
    <3> QED BY <3>1, <3>2
  <2>3. categories \in [1 .. NumCategories -> CategoryDocs]
    BY <1>1, <2>2
  <2>4. labels \in [1 .. NumLabels -> LabelDocs]
    BY <1>1, <1>2
  <2> QED BY <1>1, <2>1, <2>3, <2>4 DEF Stored, CategoryDocs, LabelDocs
<1>7. ASSUME NEW i \in DOMAIN Defaults, NEW j \in DOMAIN Defaults, i # j
      PROVE  Defaults[i][1] # Defaults[j][1] \/ Defaults[i][2] # Defaults[j][2]
  <2>1. /\ Defaults[i] \in GroupNames \X (CategoryNames \cup {None})
        /\ Defaults[j] \in GroupNames \X (CategoryNames \cup {None})
    BY DefaultsAssumption
  <2>2. Defaults[i] # Defaults[j]
    BY <1>7, DefaultsAssumption
  <2> QED BY <2>1, <2>2
<1>8. GroupsNamedOnce
  BY <1>4, <1>7 DEF GroupsNamedOnce
<1>9. CategoriesNamedOnce
  <2> SUFFICES ASSUME NEW c, NEW d, c # d, Live(categories, c), Live(categories, d),
                      Over(c) = Over(d)
               PROVE  Defaults[c][2] # Defaults[d][2]
    BY <1>5 DEF CategoriesNamedOnce
  <2>1. Defaults[c][1] = Defaults[d][1]
    BY <1>5, OverIs
  <2> QED BY <1>5, <1>7, <2>1
<1>10. GroupsHold /\ NoDangling /\ OneLimit
  BY <1>1, <1>4, <1>5, OverIs DEF GroupsHold, NoDangling, OneLimit, LimitOn
<1>11. ParentsHold /\ ParentsKnown
  BY <1>1, <1>2 DEF ParentsHold, ParentsKnown, Live, Known
<1>12. LoopsTied
  <2> SUFFICES ASSUME NEW S \in SUBSET (1 .. NumLabels), Closed(S) PROVE FALSE
    BY DEF LoopsTied, Loop
  <2>1. PICK l \in S : labels[l].parent \in S
    BY DEF Closed
  <2>2. labels[l].parent = 0
    BY <1>1, <1>2, <2>1
  <2> QED BY <2>1, <2>2, LabelsAssumption
<1>13. ASSUME NEW i \in DOMAIN Defaults PROVE Present(i)
  <2>1. CASE Defaults[i][2] = None
    <3>1. i \in GroupsNamed(Defaults[i][1])
      BY <1>1, <1>3, <1>4, <2>1 DEF GroupsNamed
    <3> QED BY <2>1, <3>1 DEF Present
  <2>2. CASE Defaults[i][2] # None
    <3>1. Over(i) \in GroupsNamed(Defaults[i][1])
      BY <1>1, <1>3, <1>4, <2>2, OverIs DEF GroupsNamed
    <3>2. i \in CategoriesNamed(Over(i), Defaults[i][2])
      BY <1>1, <1>3, <1>5, <2>2 DEF CategoriesNamed
    <3> QED BY <3>1, <3>2 DEF Present
  <2> QED BY <2>1, <2>2
<1>14. SeedComplete
  BY <1>13 DEF SeedComplete, Present
<1>15. SeededLong
  <2>1. Live(groups, 1) /\ 1 \in 1 .. NumGroups
    BY <1>3, <1>4, SeedEntry
  <2> QED BY <1>2, <2>1 DEF SeededLong, Live
<1> QED BY <1>6, <1>8, <1>9, <1>10, <1>11, <1>12, <1>14, <1>15 DEF CatalogueInv

LEMMA InitHolds ==
  Init => Inv
<1> SUFFICES ASSUME Init PROVE Inv
  OBVIOUS
<1>1. /\ request = [p \in Requests |-> Idle] /\ amid = [p \in Requests |-> {}]
      /\ \A p \in Requests : request[p] = Idle
  BY DEF Init
<1>2. Shapes /\ Begun /\ Witnessed
  BY <1>1, IdleIs, HandlersAssumption DEF Shapes, Begun, Witnessed, Active, Requests
<1>3. AllFit
  <2> SUFFICES ASSUME NEW p \in Requests PROVE Fits(p, request[p])
    BY DEF AllFit
  <2>1. request[p].op = "none"
    BY <1>1, IdleIs
  <2> QED BY <2>1 DEF Fits, FitsSeed, FitsCreateCategory, FitsUpdateCategory,
     FitsRemoveCategory, FitsUpdateGroup, FitsRemoveGroup, FitsCreateLabel, FitsUpdateLabel,
     FitsRemoveLabel, FitsFile, FitsSetLimits, SeedOps
<1>4. CatalogueInv
  BY NothingYet, SeededBefore
<1> QED BY <1>2, <1>3, <1>4 DEF Inv

-----------------------------------------------------------------------------
(* Every step.                                                             *)

LEMMA CategoryRequestStep ==
  ASSUME Inv, NEW p \in Requests, CategoryRequest(p), UNCHANGED labels
  PROVE  Step(p)
BY SeedBegins, CategoryBegins, CreateGroupStep, GroupBegins DEF CategoryRequest

LEMMA CategoryStepStep ==
  ASSUME Inv, NEW p \in Requests, Active(p), CategoryStep(p), UNCHANGED labels
  PROVE  Step(p)
BY UpsertGroupStep, UpsertCategoryStep, StampStep, AssertGroupStep, CreateCategoryStep,
   UpdateCategoryStep, LookForCategoryStep, RemoveCategoryStep, UpdateGroupStep,
   GroupOccupiedStep, RemoveGroupStep DEF CategoryStep

LEMMA LabelStepStep ==
  ASSUME Inv, NEW p \in Requests, Active(p), LabelStep(p), UNCHANGED catalogue
  PROVE  Step(p)
BY ParentStep, WalkStep, CreateLabelStep, UpdateLabelStep, LookForLabelStep, ChildrenStep,
   RemoveLabelStep DEF LabelStep

LEMMA RecordRequestStep ==
  ASSUME Inv, NEW p \in Requests, RecordRequest(p)
  PROVE  Step(p)
BY FileBegins, UnfileStep, LimitsBegin DEF RecordRequest

LEMMA RecordStepStep ==
  ASSUME Inv, NEW p \in Requests, Active(p), RecordStep(p)
  PROVE  Step(p)
BY CheckStep, FileStep, SetLimitStep, FailStep DEF RecordStep

LEMMA NextSteps ==
  ASSUME Inv, Next
  PROVE  \E p \in Requests : Step(p)
BY CategoryRequestStep, LabelBegins, RecordRequestStep, CategoryStepStep, LabelStepStep,
   RecordStepStep DEF Next

LEMMA StuttersHold ==
  ASSUME Inv, UNCHANGED vars
  PROVE  Inv'
<1>1. UNCHANGED <<groups, categories, labels, records, stamped, edited, request, amid>>
  BY DEF vars, catalogue
<1>2. Shapes' /\ Begun' /\ Witnessed'
  BY <1>1 DEF Inv, Shapes, Begun, Witnessed, Meets, MetAny, Overlapped, Active
<1>3. AllFit'
  <2> SUFFICES ASSUME NEW p \in Requests PROVE Fits(p, request[p])'
    BY DEF AllFit
  <2>1. PICK q : q = request[p]
    OBVIOUS
  <2>2. Fits(p, q)
    BY <2>1 DEF Inv, AllFit
  <2>3. FitsSeed(p, q)' /\ FitsCreateCategory(p, q)' /\ FitsUpdateCategory(p, q)'
    BY <1>1, <2>2 DEF Fits, FitsSeed, FitsCreateCategory, FitsUpdateCategory, MetAny, GroupSafe,
       Overlapped, Live, Present, GroupsNamed, CategoriesNamed
  <2>4. FitsRemoveCategory(q)' /\ FitsUpdateGroup(q)' /\ FitsRemoveGroup(q)' /\ FitsRemoveLabel(q)'
    BY <1>1, <2>2 DEF Fits, FitsRemoveCategory, FitsUpdateGroup, FitsRemoveGroup,
       FitsRemoveLabel, Live
  <2>5. FitsCreateLabel(p, q)' /\ FitsUpdateLabel(p, q)'
    BY <1>1, <2>2 DEF Fits, FitsCreateLabel, FitsUpdateLabel, Walked, LabelSafe, MetAny,
       Overlapped, Live, Known
  <2>6. FitsFile(p, q)' /\ FitsSetLimits(p, q)'
    BY <1>1, <2>2 DEF Fits, FitsFile, FitsSetLimits, CategorySafe, LabelSafe, Overlapped, Live
  <2>7. Fits(p, q)'
    BY <2>3, <2>4, <2>5, <2>6 DEF Fits
  <2> QED BY <1>1, <2>1, <2>7
<1>4. (SeedComplete /\ NoDangling /\ GroupsHold /\ ParentsHold)'
  BY <1>1 DEF Inv, CatalogueInv, SeedComplete, NoDangling, GroupsHold, ParentsHold,
              GroupsNamed, CategoriesNamed, Live
<1>5. (GroupsNamedOnce /\ CategoriesNamedOnce /\ OneLimit /\ ParentsKnown /\ LoopsTied)'
  BY <1>1 DEF Inv, CatalogueInv, GroupsNamedOnce, CategoriesNamedOnce, OneLimit, LimitOn,
              ParentsKnown, LoopsTied, Loop, Closed, Live, Known
<1>6. SeededLong' /\ Stored'
  BY <1>1 DEF Inv, CatalogueInv, SeededLong, Stored
<1> QED BY <1>2, <1>3, <1>4, <1>5, <1>6 DEF Inv, CatalogueInv

\* The inductive invariant holds throughout.
LEMMA InvHolds ==
  Spec => []Inv
<1>1. Inv /\ [Next]_vars => Inv'
  BY NextSteps, StepHolds, StuttersHold
<1> QED BY <1>1, InitHolds, PTL DEF Spec


-----------------------------------------------------------------------------
(* Loops of the label tree.                                                *)

LessThan == {pair \in Nat \X Nat : pair[1] < pair[2]}

\* A non-empty set of naturals has a least element.
LEMMA LeastElement ==
  ASSUME NEW T \in SUBSET Nat, T # {}
  PROVE  \E m \in T : \A n \in T : m <= n
<1>1. IsWellFoundedOn(LessThan, Nat)
  BY NatLessThanWellFounded DEF OpToRel, LessThan
<1>2. PICK m \in T : \A n \in T : ~(<<n, m>> \in LessThan)
  BY <1>1, WFMin
<1>3. \A i, j \in Nat : i < j => <<i, j>> \in LessThan
  BY DEF LessThan
<1>4. ASSUME NEW n \in T PROVE m <= n
  <2>1. m \in Nat /\ n \in Nat /\ ~(n < m)
    BY <1>2, <1>3
  <2> QED BY <2>1
<1> QED BY <1>4

\* One turn up the tree.
Up(l) == IF Live(labels, l) THEN labels[l].parent ELSE 0

\* What the turns up from l meet.
Climbs(n, l, up) == up = [i \in 0 .. n |-> IF i = 0 THEN l ELSE Up(up[i - 1])]

LEMMA ClimbExists ==
  ASSUME NEW n \in Nat, NEW l
  PROVE  \E up : Climbs(n, l, up)
<1> DEFINE Bad == {k \in Nat : k <= n /\ ~ \E up : Climbs(k, l, up)}
<1>1. SUFFICES ASSUME Bad # {} PROVE FALSE
  OBVIOUS
<1>2. PICK k \in Bad : \A j \in Bad : k <= j
  BY <1>1, LeastElement
<1>3. CASE k = 0
  <2> DEFINE up == [i \in 0 .. 0 |-> l]
  <2>1. Climbs(0, l, up)
    BY DEF Climbs
  <2> QED BY <1>3, <2>1
<1>4. CASE k # 0
  <2>1. k \in Nat /\ k - 1 \in Nat /\ k <= n
    BY <1>4
  <2>2. PICK up : Climbs(k - 1, l, up)
    BY <1>2, <2>1
  <2> DEFINE all == [i \in 0 .. k |-> IF i = k THEN Up(up[k - 1]) ELSE up[i]]
  <2>3. ASSUME NEW i \in 0 .. k
        PROVE  all[i] = IF i = 0 THEN l ELSE Up(all[i - 1])
    <3>1. CASE i = k
      BY <1>4, <2>1, <3>1
    <3>2. CASE i # k
      <4>1. i \in 0 .. k - 1 /\ (i # 0 => i - 1 \in 0 .. k - 1)
        BY <2>1, <3>2
      <4>2. up[i] = IF i = 0 THEN l ELSE Up(up[i - 1])
        BY <2>2, <4>1 DEF Climbs
      <4> QED BY <2>1, <3>2, <4>1, <4>2
    <3> QED BY <3>1, <3>2
  <2>4. Climbs(k, l, all)
    BY <2>3 DEF Climbs
  <2> QED BY <2>4
<1> QED BY <1>3, <1>4

LEMMA AboveIs ==
  ASSUME NEW l
  PROVE  \E up : /\ Above(l) = {up[n] : n \in 1 .. NumLabels} \ {0}
                 /\ up[0] = l
                 /\ \A n \in 1 .. NumLabels : up[n] = Up(up[n - 1])
<1> DEFINE up == CHOOSE f : Climbs(NumLabels, l, f)
<1>1. Climbs(NumLabels, l, up)
  BY ClimbExists, LabelsAssumption
<1>2. Above(l) = {up[n] : n \in 1 .. NumLabels} \ {0}
  BY DEF Above, Climbs, Up
<1> HIDE DEF up
<1>3. up[0] = l /\ \A n \in 1 .. NumLabels : up[n] = Up(up[n - 1])
  <2>1. \A i \in 0 .. NumLabels : up[i] = IF i = 0 THEN l ELSE Up(up[i - 1])
    BY <1>1 DEF Climbs
  <2> QED BY <2>1, LabelsAssumption
<1> QED BY <1>2, <1>3

\* The way up from l to l is a loop.
LEMMA LoopAbove ==
  ASSUME Stored, NEW l \in 1 .. NumLabels, l \in Above(l)
  PROVE  \E S \in SUBSET (1 .. NumLabels) : Loop(S) /\ S \subseteq Above(l)
<1>1. PICK up : /\ Above(l) = {up[n] : n \in 1 .. NumLabels} \ {0}
                /\ up[0] = l
                /\ \A n \in 1 .. NumLabels : up[n] = Up(up[n - 1])
  BY AboveIs
<1>2. PICK k \in 1 .. NumLabels : up[k] = l
  BY <1>1
<1> DEFINE S == {up[n] : n \in 1 .. k}
<1>3. NumLabels \in Nat /\ k \in Nat /\ 1 .. k \subseteq 1 .. NumLabels /\ k \in 1 .. k
  BY LabelsAssumption
\* Nothing is above 0, so 0 is not on the way.
<1>4. ASSUME NEW n \in 1 .. k PROVE up[n] # 0
  <2> SUFFICES ASSUME up[n] = 0 PROVE FALSE
    OBVIOUS
  <2> DEFINE Off == {m \in Nat : n <= m /\ m <= k /\ up[m] # 0}
  <2>1. k \in Off
    BY <1>2, <1>3, LabelsAssumption
  <2>2. PICK m \in Off : \A j \in Off : m <= j
    BY <2>1, LeastElement
  <2>3. m # n /\ m - 1 \in Nat /\ n <= m - 1 /\ m - 1 <= k /\ m \in 1 .. NumLabels
    BY <1>3, <2>2
  <2>4. m - 1 \notin Off
    BY <2>2, <2>3
  <2>5. up[m - 1] = 0
    BY <2>3, <2>4
  <2>6. ~Live(labels, 0)
    BY LabelsAssumption DEF Live, Stored
  <2>7. up[m] = 0
    BY <1>1, <2>3, <2>5, <2>6 DEF Up
  <2> QED BY <2>2, <2>7
<1>5. ASSUME NEW n \in 1 .. k
      PROVE  Live(labels, up[n - 1]) /\ up[n] = labels[up[n - 1]].parent
  BY <1>1, <1>3, <1>4 DEF Up
<1>6. S = {up[n - 1] : n \in 1 .. k}
  <2>1. ASSUME NEW n \in 1 .. k PROVE up[n] \in {up[m - 1] : m \in 1 .. k}
    <3>1. CASE n = k
      <4>1. 1 \in 1 .. k /\ up[1 - 1] = l
        BY <1>1, <1>3
      <4> QED BY <1>2, <3>1, <4>1
    <3>2. CASE n # k
      <4>1. n + 1 \in 1 .. k /\ (n + 1) - 1 = n
        BY <1>3, <3>2
      <4> QED BY <4>1
    <3> QED BY <3>1, <3>2
  <2>2. ASSUME NEW n \in 1 .. k PROVE up[n - 1] \in S
    <3>1. CASE n = 1
      BY <1>1, <1>2, <1>3, <3>1
    <3>2. CASE n # 1
      <4>1. n - 1 \in 1 .. k
        BY <1>3, <3>2
      <4> QED BY <4>1
    <3> QED BY <3>1, <3>2
  <2> QED BY <2>1, <2>2
<1>7. Closed(S) /\ S \subseteq 1 .. NumLabels
  <2>1. ASSUME NEW m \in S
        PROVE  Live(labels, m) /\ labels[m].parent \in S /\ m \in 1 .. NumLabels
    <3>1. PICK n \in 1 .. k : m = up[n - 1]
      BY <1>6
    <3> QED BY <1>5, <3>1 DEF Live, Stored
  <2>2. S # {}
    BY <1>3
  <2> QED BY <2>1, <2>2 DEF Closed
<1>8. ASSUME NEW T \in SUBSET S, Closed(T), NEW n \in 0 .. k, up[n] \in T,
             NEW m \in n .. k
      PROVE  up[m] \in T
  <2> SUFFICES ASSUME up[m] \notin T PROVE FALSE
    OBVIOUS
  <2> DEFINE Out == {j \in Nat : n <= j /\ j <= k /\ up[j] \notin T}
  <2>1. m \in Out
    BY <1>3
  <2>2. PICK j \in Out : \A i \in Out : j <= i
    BY <2>1, LeastElement
  <2>3. j # n /\ j - 1 \in Nat /\ n <= j - 1 /\ j - 1 <= k /\ j \in 1 .. k
    BY <1>3, <1>8, <2>2
  <2>4. up[j - 1] \in T
    BY <2>2, <2>3
  <2>5. up[j] \in T
    BY <1>5, <1>8, <2>3, <2>4 DEF Closed
  <2> QED BY <2>2, <2>5
<1>9. ASSUME NEW T \in SUBSET S, Closed(T)
      PROVE  T = S
  <2>1. PICK n \in 1 .. k : up[n] \in T
    BY <1>9 DEF Closed
  <2>2. up[k] \in T
    BY <1>3, <1>8, <1>9, <2>1
  <2>3. up[0] \in T /\ 0 \in 0 .. k
    BY <1>1, <1>2, <1>3, <2>2
  <2>4. ASSUME NEW m \in 1 .. k PROVE up[m] \in T
    BY <1>3, <1>8, <1>9, <2>3
  <2> QED BY <2>4
<1>10. S \subseteq Above(l)
  BY <1>1, <1>3, <1>4
<1> HIDE DEF S
<1> QED BY <1>7, <1>9, <1>10 DEF Loop


-----------------------------------------------------------------------------
(* The properties.                                                         *)

LEMMA OneLimitCounts ==
  ASSUME OneLimit, NEW c \in 1 .. NumCategories
  PROVE  Cardinality(LimitOn(c)) <= 1
<1>1. CASE LimitOn(c) = {}
  BY <1>1, FS_EmptySet
<1>2. CASE LimitOn(c) # {}
  <2>1. PICK r : r \in LimitOn(c)
    BY <1>2
  <2>2. LimitOn(c) = {r}
    BY <2>1 DEF OneLimit
  <2>3. Cardinality(LimitOn(c)) = 1
    BY <2>2, FS_Singleton
  <2> QED BY <2>3
<1> QED BY <1>1, <1>2

LEMMA InvResolves ==
  Inv => ReferencesResolve
<1> SUFFICES ASSUME Inv PROVE ReferencesResolve
  OBVIOUS
<1>1. /\ Stored /\ GroupsNamedOnce /\ CategoriesNamedOnce /\ OneLimit /\ LoopsTied
      /\ NoDangling /\ GroupsHold /\ ParentsHold
  BY DEF Inv, CatalogueInv
<1>2. TypeOK
  BY <1>1, OneLimitCounts DEF TypeOK, Stored, States, GroupsNamedOnce, CategoriesNamedOnce
<1>3. Forest
  <2> SUFFICES ASSUME NEW l \in 1 .. NumLabels, l \in Above(l)
               PROVE  \E m \in Above(l) : labels[m].tied
    BY DEF Forest
  <2>1. PICK S \in SUBSET (1 .. NumLabels) : Loop(S) /\ S \subseteq Above(l)
    BY <1>1, LoopAbove
  <2> QED BY <1>1, <2>1 DEF LoopsTied
<1> QED BY <1>1, <1>2, <1>3 DEF ReferencesResolve

\* Whatever names a category, a group or a label names one that exists, names and
\* limits are unique, and the labels form a forest, but for what overlapped with a
\* removal or with another re-parenting (categories.service.ts:386-395,
\* labels.service.ts:141-151), whatever the requests and their number.
THEOREM ReferencesAlwaysResolve ==
  Spec => []ReferencesResolve
BY InvHolds, InvResolves, PTL

\* A stamped household nobody has edited has every default of any well-formed
\* default set, wherever earlier seeders died (categories.service.ts:69-106).
THEOREM SeedAlwaysComplete ==
  Spec => []SeedComplete
<1>1. Inv => SeedComplete
  BY DEF Inv, CatalogueInv
<1> QED BY <1>1, InvHolds, PTL

\* Only its own step changes what a handler has in memory, and a handler that
\* walks takes no step but a turn of the walk.
LEMMA WalksByWalking ==
  ASSUME Inv, Next, NEW p \in Requests, At(p, "updateLabel", "walk"),
         request'[p] # request[p]
  PROVE  Active(p) /\ Walk(p) /\ UNCHANGED catalogue
<1>1. PICK r \in Requests :
        \/ /\ Fresh(r)
           /\ \/ CategoryRequest(r) /\ UNCHANGED labels
              \/ LabelRequest(r) /\ UNCHANGED catalogue
              \/ RecordRequest(r)
        \/ /\ Active(r)
           /\ \/ CategoryStep(r) /\ UNCHANGED labels
              \/ LabelStep(r) /\ UNCHANGED catalogue
              \/ RecordStep(r)
  BY DEF Next
<1>2. Step(r)
  BY <1>1, CategoryRequestStep, LabelBegins, RecordRequestStep, CategoryStepStep,
     LabelStepStep, RecordStepStep
<1>3. r = p
  BY <1>2 DEF Step, Goes, Moves, Begins, Only
<1>4. ~Fresh(p) /\ Active(p)
  BY DEF At, Fresh, Active
<1>5. ~CategoryStep(p)
  BY DEF CategoryStep, At, Seeder, UpsertGroup, UpsertCategory, Stamp, AssertGroup,
     CreateCategory, UpdateCategory, LookForCategory, RemoveCategory, UpdateGroup,
     GroupOccupied, RemoveGroup
<1>6. ~RecordStep(p)
  BY DEF RecordStep, At, CheckCategory, CheckLabel, File, SetLimit, Fail
<1>7. LabelStep(p) => Walk(p)
  BY DEF LabelStep, At, Parent, CreateLabel, UpdateLabel, LookForLabel, Children, RemoveLabel
<1> QED BY <1>1, <1>3, <1>4, <1>5, <1>6, <1>7

\* Every turn of the walk up the tree visits a label it had not visited
\* (labels.service.ts:279-306), and a stamped household is seeded by none but a
\* seeder that overlapped with the one that stamped it (categories.service.ts:264-296).
THEOREM WalksAndSeedsAlways ==
  Spec => WalksAndSeeds
<1>1. Inv /\ [Next]_vars =>
        [\A p \in Requests :
           At(p, "updateLabel", "walk") /\ request'[p].at = "walk"
                                        /\ request'[p] # request[p]
             => request'[p].todo # request[p].todo]_vars
  BY WalksByWalking, WalkStep DEF vars
<1>2. Inv =>
        \A p \in Requests : Seeds(p) /\ stamped => \E o \in amid[p] : o.op \in {"seed", "backfill"}
  BY DEF Inv, AllFit, Fits, FitsSeed, Seeds, Seeder, MetAny, SeedOps
<1>3. Inv /\ [Next]_vars =>
        [\A p \in Requests :
           Seeds(p) /\ stamped => \E o \in amid[p] : o.op \in {"seed", "backfill"}]_vars
  BY <1>2
<1> QED BY <1>1, <1>3, InvHolds, PTL DEF Spec, WalksAndSeeds, WalkAdvances, SeedsOnce
=============================================================================
