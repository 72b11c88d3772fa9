------------------------------ MODULE Handlers ------------------------------
(***************************************************************************)
(* Requests of one household's members, handled at the same time.  A       *)
(* handler is a sequence of database operations; between two of them any   *)
(* other may run.  Documents are found, changed in memory and saved.       *)
(***************************************************************************)
EXTENDS Integers, Sequences, FiniteSets

CONSTANTS
  MaxRequests,  \* bound on requests and boots
  AtOnce,       \* bound on those under way at the same time
  MaxFailures   \* bound on database calls that throw and processes that die

ASSUME HandlersAssumption == MaxRequests \in Nat

\* Numbered in the order they begin.
Requests == 1 .. MaxRequests

VARIABLES
  request,   \* request[p]: what the handler p has in memory
  amid,      \* history: what the handlers p has overlapped with were about
  failures   \* number of failures so far

\* op, the step it is at, the document it is about, that document as it was
\* read and as the client wants it, what is left to look at, was looked at or is
\* named by the client, what the looking found, and where it has got to.
Idle == [op |-> "none", at |-> "begin", id |-> 0, doc |-> <<>>, wanted |-> <<>>,
         todo |-> {}, found |-> FALSE, cursor |-> 0]

Done == [Idle EXCEPT !.op = "done"]

Active(p) == request[p].op \notin {"none", "done"}

At(p, op, step) == request[p].op = op /\ request[p].at = step

Becomes(p, q) == request' = [request EXCEPT ![p] = q] /\ UNCHANGED amid

GoTo(p, step) == Becomes(p, [request[p] EXCEPT !.at = step])

Finish(p) ==
  /\ request' = [request EXCEPT ![p] = Done]
  /\ amid' = [amid EXCEPT ![p] = {}]

Fresh(p) ==
  /\ request[p].op = "none"
  /\ p > 1 => request[p - 1].op # "none"
  /\ Cardinality({q \in Requests : Active(q)}) < AtOnce

About(q) == [op |-> q.op, id |-> q.id]

Begin(p, q) ==
  /\ Fresh(p)
  /\ request' = [request EXCEPT ![p] = q]
  /\ amid' = [r \in Requests |->
               IF r = p THEN {About(request[o]) : o \in {o \in Requests : Active(o)}}
               ELSE IF Active(r) THEN amid[r] \cup {About(q)} ELSE amid[r]]

\* Has p overlapped with this so far?
Overlapped(p, op, id) == [op |-> op, id |-> id] \in amid[p]

\* save(): only the paths the client changed are written.
Saved(stored, read, wanted) ==
  [f \in DOMAIN stored |->
    IF f \in DOMAIN wanted /\ wanted[f] # read[f] THEN wanted[f] ELSE stored[f]]

Live(docs, i) == i \in DOMAIN docs /\ docs[i].state = "live"

\* Ids a client may have seen.
Known(docs) == {i \in DOMAIN docs : docs[i].state # "free"}

\* The id of the next document to be inserted; there is none at the bound.
Free(docs) == {i \in DOMAIN docs : docs[i].state = "free"
                                   /\ \A j \in 1 .. i - 1 : docs[j].state # "free"}
=============================================================================
