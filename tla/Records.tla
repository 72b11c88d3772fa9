------------------------------ MODULE Records ------------------------------
(***************************************************************************)
(* The documents that carry a category or a label: transactions, goals,    *)
(* recurring schedules (subscriptions are those) and budget limits.        *)
(***************************************************************************)
EXTENDS Handlers

CONSTANT None   \* model value: no name

VARIABLE records   \* what carries a category or a label, 0 for none
=============================================================================
