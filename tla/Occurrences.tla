---------------------------- MODULE Occurrences ----------------------------
(***************************************************************************)
(* What a recurring schedule promises: its occurrences enter the ledger    *)
(* one by one, in order, none skipped and none twice, each once its day    *)
(* has come and none after the end date.  Recurring.tla implements this    *)
(* whatever crashes, retries and overlapping runs do to the scheduler.     *)
(***************************************************************************)
EXTENDS Integers

CONSTANTS Horizon, Period, FirstDates, CreatedOn

VARIABLES today, next, end, posted

vars == <<today, next, end, posted>>

Init ==
  /\ today \in CreatedOn
  /\ next \in FirstDates
  /\ end \in 0 .. Horizon + Period
  /\ posted = {}

DayPasses ==
  /\ today < Horizon
  /\ today' = today + 1
  /\ UNCHANGED <<next, end, posted>>

Post ==
  /\ next <= today
  /\ next <= end
  /\ posted' = posted \cup {next}
  /\ next' = next + Period
  /\ UNCHANGED <<today, end>>

Next == DayPasses \/ Post

Spec == Init /\ [][Next]_vars
=============================================================================
