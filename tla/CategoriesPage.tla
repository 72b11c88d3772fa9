--------------------------- MODULE CategoriesPage ---------------------------
(***************************************************************************)
(* The categories page (frontend/src/app/categories/page.tsx) and the part *)
(* of categories.service.ts that keeps the order of one list.  The groups  *)
(* are one more such list and go through the same runReorder().            *)
(*                                                                         *)
(* Moves are sent one at a time, archiving is not held back, and every     *)
(* success is followed by a refresh of its own, so several refreshes and a *)
(* move may be on the wire together.                                       *)
(***************************************************************************)
EXTENDS Wire

CONSTANTS
  NumCategories,   \* categories of one group, numbered in name order
  Lists,           \* what may be stored at first: the sortOrders, the archived
  MaxListActs      \* bound on moves and archivings while the page is open

Categories == 1 .. NumCategories

ASSUME ListAssumption ==
  /\ NumCategories \in Nat
  /\ Lists # {}
  /\ Lists \subseteq [order : [Categories -> 0 .. NumCategories],
                    archived : SUBSET Categories]

VARIABLES
  order,        \* order[c]: the stored sortOrder
  archived,     \* the categories stored as archived
  version,      \* how many writes the server has carried out
  shown,        \* the list on the screen: order, archived, version it is from
  reordering,   \* a move is under way: the arrows are disabled
  loading,      \* the first load is not over
  owed,         \* history: the version the page owes the member
  tangled       \* history: a refresh overwrote a newer list

listVars == <<order, archived, version, shown, reordering, loading, owed,
              tangled>>

Stored == [order |-> order, archived |-> archived, at |-> version]

\* By sortOrder, ties by name.
Before(o, c, d) == o[c] < o[d] \/ (o[c] = o[d] /\ c < d)

\* The active categories as displayed.
Displayed(list) ==
  CHOOSE ids \in SetToSeqs(DOMAIN list.order \ list.archived) :
    \A i, j \in DOMAIN ids : i < j => Before(list.order, ids[i], ids[j])

\* A refresh: on mount ("load"), after a success ("after"), or within
\* runReorder(), which enables the arrows again when the refresh is over.
Refresh(purpose) ==
  [kind |-> "refresh", stage |-> "sent", answer |-> None, purpose |-> purpose]

InReorder == {"stale", "resync"}

\* Nothing is on the screen before the first load.
Blank == [order |-> <<>>, archived |-> {}, at |-> 0]

ListInit ==
  /\ \E list \in Lists : order = list.order /\ archived = list.archived
  /\ version = 0
  /\ shown = Blank
  /\ reordering = FALSE
  /\ loading = TRUE
  /\ owed = 0
  /\ tangled = FALSE

-----------------------------------------------------------------------------
(* The server.                                                             *)

ServeRefresh(i) ==
  /\ Stage(i, "refresh", "sent")
  /\ Answered(i, Stored)
  /\ UNCHANGED <<order, archived, version, shown, reordering, loading, owed,
                 tangled, acts, errors>>

\* updateCategory(): isArchived is set to what the button asked for.
ServeArchive(i) ==
  /\ Stage(i, "archive", "sent")
  /\ archived' = IF calls[i].to THEN archived \cup {calls[i].category}
                 ELSE archived \ {calls[i].category}
  /\ version' = version + 1
  /\ Answered(i, version')
  /\ UNCHANGED <<order, shown, reordering, loading, owed, tangled, acts,
                 errors>>

\* (Mutant: the categories that are not listed are moved behind the listed.)
ReorderedOthersLast(ids, n) ==
  [c \in Categories |-> IF \E k \in 1 .. n : ids[k] = c
                        THEN (CHOOSE k \in 1 .. n : ids[k] = c) - 1
                        ELSE order[c] + n]

\* sortOrder = index, one document after the other; a bulkWrite that fails has
\* written the first n.  Categories that are not listed keep their sortOrder.
Reordered(ids, n) ==
  [c \in Categories |-> IF \E k \in 1 .. n : ids[k] = c
                        THEN (CHOOSE k \in 1 .. n : ids[k] = c) - 1
                        ELSE order[c]]

\* applyReorder() writes every index; the answer is the list read afterwards.
ServeReorder(i) ==
  /\ Stage(i, "reorder", "sent")
  /\ order' = Reordered(calls[i].ids, Len(calls[i].ids))
  /\ version' = version + 1
  /\ Answered(i, [order |-> order', archived |-> archived, at |-> version'])
  /\ UNCHANGED <<archived, shown, reordering, loading, owed, tangled, acts,
                 errors>>

\* applyReorder() fails midway and rethrows.
ServeReorderPartly(i) ==
  /\ Stage(i, "reorder", "sent")
  /\ errors < MaxErrors
  /\ errors' = errors + 1
  /\ \E n \in 1 .. Len(calls[i].ids) - 1 : order' = Reordered(calls[i].ids, n)
  /\ version' = version + 1
  /\ calls' = [calls EXCEPT ![i].stage = "failed"]
  /\ UNCHANGED <<archived, shown, reordering, loading, owed, tangled, acts>>

-----------------------------------------------------------------------------
(* What the member does.                                                   *)

\* (Mutant: a second move may start from the order the first one started from.)
MayMoveAlways == ~loading

\* The arrows: disabled while a move is under way.
MayMove == ~loading /\ ~reordering

\* handleMoveCategory(): the i-th displayed category trades places with the
\* next ("down" on the one is "up" on the other).  The call carries the refresh
\* epoch, kept as what it is compared for: `fresh` until a refresh is applied.
\* `honest` (history): the list on the screen was the stored one.
Move(i) ==
  LET ids == Displayed(shown) IN
  /\ MayMove
  /\ Act(MaxListActs)
  /\ i \in 1 .. Len(ids) - 1
  /\ calls' = Append(calls,
       [kind |-> "reorder", stage |-> "sent", answer |-> None,
        ids |-> [ids EXCEPT ![i] = ids[i + 1], ![i + 1] = ids[i]],
        pair |-> {ids[i], ids[i + 1]}, fresh |-> TRUE,
        honest |-> shown.order = order])
  /\ reordering' = TRUE
  /\ UNCHANGED <<order, archived, version, shown, loading, owed, tangled,
                 errors>>

\* handleArchive(), handleUnarchive(): nothing holds them back.  Saving the
\* category form and creating or renaming a group proceed in the same way.
Archive(c) ==
  /\ ~loading
  /\ c \in DOMAIN shown.order
  /\ Act(MaxListActs)
  /\ calls' = Append(calls,
       [kind |-> "archive", stage |-> "sent", answer |-> None,
        category |-> c, to |-> c \notin shown.archived])
  /\ UNCHANGED <<order, archived, version, shown, reordering, loading, owed,
                 tangled, errors>>

-----------------------------------------------------------------------------
(* The handlers that run when a call is over.                              *)

Later(v, w) == IF v < w THEN w ELSE v

\* refreshEpoch.current += 1: the answer of a move on the wire is now stale.
Outdated(cs) ==
  [k \in DOMAIN cs |-> IF cs[k].kind = "reorder"
                       THEN [cs[k] EXCEPT !.fresh = FALSE] ELSE cs[k]]

\* refresh(): whatever arrives is applied, in the order of arrival.
RefreshDone(i) ==
  LET c == calls[i] IN
  /\ Stage(i, "refresh", "done")
  /\ calls' = Outdated(RemoveAt(calls, i))
  /\ shown' = c.answer
  /\ loading' = (loading /\ c.purpose # "load")
  /\ reordering' = (reordering /\ c.purpose \notin InReorder)
  /\ tangled' = \/ c.answer.at < shown.at
                \/ tangled /\ c.answer.at < owed
  /\ UNCHANGED <<order, archived, version, owed, acts, errors>>

\* The member is told that the list may be out of date, or could not be loaded.
RefreshFailed(i) ==
  /\ Stage(i, "refresh", "failed")
  /\ Handled(i, <<>>)
  /\ loading' = (loading /\ calls[i].purpose # "load")
  /\ reordering' = (reordering /\ calls[i].purpose \notin InReorder)
  /\ owed' = shown.at
  /\ UNCHANGED <<order, archived, version, shown, tangled, acts, errors>>

AfterSuccess == <<Refresh("after")>>

\* Archived, with the toast that says so: the page now owes this version.
ArchiveDone(i) ==
  /\ Stage(i, "archive", "done")
  /\ Handled(i, AfterSuccess)
  /\ owed' = Later(owed, calls[i].answer)
  /\ UNCHANGED <<order, archived, version, shown, reordering, loading, tangled,
                 acts, errors>>

\* "Failed to archive": nothing is read again, although it may have applied.
ArchiveFailed(i) ==
  /\ Stage(i, "archive", "failed")
  /\ Handled(i, <<>>)
  /\ UNCHANGED <<listVars, acts, errors>>

\* (Mutant: a move's answer is applied whatever was refreshed meanwhile.)
StillCurrentAlways(c) == TRUE

\* refreshEpoch.current === epochAtRequest
StillCurrent(c) == c.fresh

\* runReorder(): the answer doubles as the refetch.
ReorderDone(i) ==
  LET c == calls[i] IN
  /\ Stage(i, "reorder", "done")
  /\ StillCurrent(c)
  /\ Handled(i, <<>>)
  /\ shown' = c.answer
  /\ reordering' = FALSE
  /\ owed' = Later(owed, c.answer.at)
  /\ UNCHANGED <<order, archived, version, loading, tangled, acts, errors>>

\* runReorder(): a refresh landed while the move was in flight, read again.
ReorderStale(i) ==
  LET c == calls[i] IN
  /\ Stage(i, "reorder", "done")
  /\ ~StillCurrent(c)
  /\ Handled(i, <<Refresh("stale")>>)
  /\ owed' = Later(owed, c.answer.at)
  /\ UNCHANGED <<order, archived, version, shown, reordering, loading, tangled,
                 acts, errors>>

\* resyncAfterError(): a failed reorder may have been applied partly.
AfterFailedMove == <<Refresh("resync")>>

ReorderFailed(i) ==
  /\ Stage(i, "reorder", "failed")
  /\ Handled(i, AfterFailedMove)
  /\ reordering' = (AfterFailedMove # <<>>)
  /\ owed' = version
  /\ UNCHANGED <<order, archived, version, shown, loading, tangled, acts,
                 errors>>

ListNext ==
  \/ \E i \in DOMAIN calls :
       \/ ServeRefresh(i) \/ ServeArchive(i) \/ ServeReorder(i)
       \/ ServeReorderPartly(i) \/ RefreshDone(i) \/ RefreshFailed(i)
       \/ ArchiveDone(i) \/ ArchiveFailed(i)
       \/ ReorderDone(i) \/ ReorderStale(i) \/ ReorderFailed(i)
       \/ Lost(i) /\ UNCHANGED listVars
  \/ \E i \in Categories : Move(i) \/ Archive(i)
=============================================================================
