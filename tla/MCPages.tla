------------------------------- MODULE MCPages ------------------------------
(* Pages.tla on small instances. *)
EXTENDS Pages

CONSTANTS bank, card              \* model values: accounts
CONSTANTS food, salary, orphan    \* model values: categories

\* Stored in the order of the names, the last one archived or not.
MCLists ==
  {[order |-> [c \in Categories |-> c], archived |-> a] :
     a \in {{}, {NumCategories}}}

MCAmounts == <<1, 2>>

MCOpening == [a \in {bank, card} |-> IF a = bank THEN 5 ELSE -3]
MCCreatedIn == [a \in {bank, card} |-> IF a = bank THEN 1 ELSE 3]

Entry(type, m, a, to, c) ==
  [type |-> type, month |-> m, account |-> a, to |-> to, category |-> c]

\* Also spend on an income category, and on one that has been deleted.
MCEntries ==
  {Entry("income", m, a, None, c) :
     m \in {1, 2}, a \in {bank}, c \in {salary, NoCategory}}
  \cup {Entry("expense", m, a, None, c) :
     m \in {2, 3}, a \in {bank, card}, c \in {food, salary, orphan, NoCategory}}
  \cup {Entry("transfer", m, bank, card, NoCategory) : m \in {1, 2}}

\* Two files that are accepted and one that is refused.
MCFiles == ("jan" :> {1, 2}) @@ ("feb" :> {3}) @@ ("bad" :> {})

MCStock == {{1, 3}, {1, 2, 3}}
=============================================================================
