-------------------------------- MODULE Wire --------------------------------
(***************************************************************************)
(* What a page of the web app shares with the server: apiFetch() calls     *)
(* that the server carries out, or that fail before or after it does, and  *)
(* whose answers arrive in any order.  A call ends in the promise handler  *)
(* of the page that made it.                                               *)
(*                                                                         *)
(* A call is a record with at least `kind`, `stage` and `answer`.          *)
(***************************************************************************)
EXTENDS Naturals, SequencesExt

CONSTANTS
  None,        \* no answer yet
  MaxErrors    \* bound on calls that fail

ASSUME WireAssumption == MaxErrors \in Nat

VARIABLES
  calls,    \* the calls whose handler has not run, in the order they were made
  acts,     \* how often the member has acted
  errors    \* how many calls have failed

Sending(kind) == [kind |-> kind, stage |-> "sent", answer |-> None]

\* The member acts: one click, of which the page allows `bound`.
Act(bound) == acts < bound /\ acts' = acts + 1

Stage(i, kind, stage) == calls[i].kind = kind /\ calls[i].stage = stage

\* The server's answer to call i is on its way.
Answered(i, answer) ==
  calls' = [calls EXCEPT ![i].stage = "done", ![i].answer = answer]

\* fetch() of call i rejects: the request never arrived, or its answer is lost.
Lost(i) ==
  /\ calls[i].stage \in {"sent", "done"}
  /\ errors < MaxErrors
  /\ errors' = errors + 1
  /\ calls' = [calls EXCEPT ![i].stage = "failed"]
  /\ UNCHANGED acts

\* The handler of call i has run and, as its last act, made the calls `more`.
Handled(i, more) == calls' = RemoveAt(calls, i) \o more

\* Calls for reading whose answers the page will ignore leave no trace: what is
\* left of the calls cs without those of a kind.
Without(cs, kind) ==
  LET kept[n \in 0 .. Len(cs)] ==
        IF n = 0 THEN <<>>
        ELSE IF cs[n].kind = kind THEN kept[n - 1] ELSE Append(kept[n - 1], cs[n])
  IN  kept[Len(cs)]
=============================================================================
