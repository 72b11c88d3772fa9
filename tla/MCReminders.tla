---------------------------- MODULE MCReminders ----------------------------
(* Reminders.tla on a small instance. *)
EXTENDS Reminders, TLC

CONSTANTS cash, server1   \* model values

Doc(account, next, active) ==
  [state |-> "live", sub |-> TRUE, account |-> account, free |-> FALSE, next |-> next,
   active |-> active, lead |-> 2]

News == { Doc(cash, 0, TRUE) }

Bill == [Doc(cash, 2, TRUE) EXCEPT !.sub = FALSE]

Firsts == { <<Doc(cash, 0, TRUE), Doc(NoAccount, 0, FALSE)>>,
            <<Bill, NoSchedule>> }

Edits == { [account |-> cash], [free |-> TRUE], [next |-> 0, active |-> TRUE] }
=============================================================================
