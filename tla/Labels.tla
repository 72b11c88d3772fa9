------------------------------- MODULE Labels -------------------------------
(***************************************************************************)
(* The label tree of one household (labels.service.ts): create, update     *)
(* with its walk up the tree, and removal, which archives what something   *)
(* still refers to.  Names and colours are left out: a taken name is a     *)
(* request refused.                                                        *)
(***************************************************************************)
EXTENDS Records

CONSTANT NumLabels   \* bound on labels ever inserted

ASSUME LabelsAssumption == NumLabels \in Nat

VARIABLE labels   \* labels[l]: state, parent (0 for none), archived, and as history
                  \* whether its parent was being removed when it was given, and
                  \* whether another label was being given one

NoLabel == [state |-> "free", parent |-> 0, archived |-> FALSE, torn |-> FALSE,
            tied |-> FALSE]

BeginCreateLabel(p, parent) ==
  /\ parent \in {0} \cup Known(labels)
  /\ Begin(p, [Idle EXCEPT !.op = "createLabel", !.wanted = [parent |-> parent],
                           !.at = IF parent = 0 THEN "write" ELSE "parent"])
  /\ UNCHANGED <<labels, records, failures>>

\* findOwnedLabel().  An unchanged parent is not looked at again.
BeginUpdateLabel(p, l, wanted) ==
  /\ Live(labels, l)
  /\ wanted # [f \in DOMAIN wanted |-> labels[l][f]]
  /\ wanted.parent # l
  /\ wanted.parent \in {0} \cup Known(labels)
  /\ Begin(p, [Idle EXCEPT !.op = "updateLabel", !.id = l, !.doc = labels[l],
                !.wanted = wanted,
                !.at = IF wanted.parent \in {0, labels[l].parent} THEN "write"
                       ELSE "parent"])
  /\ UNCHANGED <<labels, records, failures>>

\* assertParentUsable(): found and active.  An update then walks up from it.
Parent(p) ==
  LET q == request[p]
      parent == q.wanted.parent
  IN
  /\ q.at = "parent"
  /\ IF ~Live(labels, parent) \/ labels[parent].archived THEN Finish(p)
     ELSE IF q.op = "createLabel" THEN GoTo(p, "write")
     ELSE Becomes(p, [q EXCEPT !.at = "walk", !.todo = {parent},
                               !.cursor = labels[parent].parent])
  /\ UNCHANGED <<labels, records, failures>>

\* (Mutant: the walk does not remember what it visited.)
WalkForgetful(p) ==
  LET q == request[p] IN
  /\ At(p, "updateLabel", "walk")
  /\ IF q.cursor = q.id THEN Finish(p)
     ELSE IF q.cursor = 0 THEN GoTo(p, "write")
     ELSE Becomes(p, [q EXCEPT !.todo = @ \cup {q.cursor},
            !.cursor = IF Live(labels, q.cursor) THEN labels[q.cursor].parent ELSE 0])
  /\ UNCHANGED <<labels, records, failures>>

\* (Mutant: the new parent's ancestors are not looked at.)
WalkNowhere(p) ==
  /\ At(p, "updateLabel", "walk")
  /\ GoTo(p, "write")
  /\ UNCHANGED <<labels, records, failures>>

\* One turn of assertNotDescendant(): todo holds the labels visited, cursor the
\* parent of the last one.
Walk(p) ==
  LET q == request[p] IN
  /\ At(p, "updateLabel", "walk")
  /\ IF q.cursor = q.id THEN Finish(p)
     ELSE IF q.cursor = 0 \/ q.cursor \in q.todo THEN GoTo(p, "write")
     ELSE Becomes(p, [q EXCEPT !.todo = @ \cup {q.cursor},
            !.cursor = IF Live(labels, q.cursor) THEN labels[q.cursor].parent ELSE 0])
  /\ UNCHANGED <<labels, records, failures>>

CreateLabel(p) ==
  /\ At(p, "createLabel", "write")
  /\ \E l \in Free(labels) :
       labels' = [labels EXCEPT ![l] = [state |-> "live", archived |-> FALSE,
          parent |-> request[p].wanted.parent,
          torn |-> Overlapped(p, "removeLabel", request[p].wanted.parent),
          tied |-> FALSE]]
  /\ Finish(p)
  /\ UNCHANGED <<records, failures>>

UpdateLabel(p) ==
  LET q == request[p]
      saved == Saved(labels[q.id], q.doc, q.wanted)
      next == IF q.wanted.parent = q.doc.parent THEN saved
              ELSE [saved EXCEPT !.torn = Overlapped(p, "removeLabel", saved.parent),
                                 !.tied = \E o \in amid[p] : o.op = "updateLabel"]
  IN
  /\ At(p, "updateLabel", "write")
  /\ labels' = IF Live(labels, q.id) THEN [labels EXCEPT ![q.id] = next] ELSE labels
  /\ Finish(p)
  /\ UNCHANGED <<records, failures>>

-----------------------------------------------------------------------------
(* remove(): look for records, then for children.                          *)

Labelled == {"transaction", "recurring", "goal"}

BeginRemoveLabel(p, l) ==
  /\ Live(labels, l)
  /\ Begin(p, [Idle EXCEPT !.op = "removeLabel", !.at = "look", !.id = l,
                           !.doc = labels[l]])
  /\ UNCHANGED <<labels, records, failures>>

\* Three reads sent at the same time, as for a category.
LookForLabel(p) ==
  LET q == request[p]
      found == \E r \in records : r.kind \in Labelled /\ r.label = q.id
  IN
  /\ At(p, "removeLabel", "look")
  /\ Becomes(p, [q EXCEPT !.found = found, !.at = IF found THEN "write" ELSE "children"])
  /\ UNCHANGED <<labels, records, failures>>

\* (Mutant: a label with children may go.)
ChildrenIgnored(p) ==
  /\ At(p, "removeLabel", "children")
  /\ GoTo(p, "write")
  /\ UNCHANGED <<labels, records, failures>>

Children(p) ==
  /\ At(p, "removeLabel", "children")
  /\ IF \E l \in DOMAIN labels : Live(labels, l) /\ labels[l].parent = request[p].id
     THEN Finish(p) ELSE GoTo(p, "write")
  /\ UNCHANGED <<labels, records, failures>>

RemoveLabel(p) ==
  LET q == request[p] IN
  /\ At(p, "removeLabel", "write")
  /\ labels' =
       IF ~Live(labels, q.id) \/ (q.found /\ q.doc.archived) THEN labels
       ELSE IF q.found THEN [labels EXCEPT ![q.id].archived = TRUE]
       ELSE [labels EXCEPT ![q.id].state = "gone"]
  /\ Finish(p)
  /\ UNCHANGED <<records, failures>>

LabelRequest(p) ==
  \/ \E parent \in 0 .. NumLabels : BeginCreateLabel(p, parent)
  \/ \E l \in 1 .. NumLabels,
        wanted \in [parent : 0 .. NumLabels, archived : BOOLEAN] :
       BeginUpdateLabel(p, l, wanted)
  \/ \E l \in 1 .. NumLabels : BeginRemoveLabel(p, l)

LabelStep(p) ==
  \/ Parent(p)
  \/ Walk(p)
  \/ CreateLabel(p)
  \/ UpdateLabel(p)
  \/ LookForLabel(p)
  \/ Children(p)
  \/ RemoveLabel(p)
=============================================================================
