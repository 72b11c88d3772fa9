------------------------------ MODULE Imports ------------------------------
(***************************************************************************)
(* importTransactions() (transactions.service.ts): a bank's file is parsed *)
(* to rows, those already stored on the account or met before in the file  *)
(* are skipped, the others are inserted in an unordered batch and the      *)
(* balance is adjusted once.                                               *)
(*                                                                         *)
(* A row of a file is its key, or bad: no amount, zero, or no date.  The   *)
(* category it falls back to is left out.                                  *)
(***************************************************************************)
EXTENDS Accounts

CONSTANTS Bad, Files   \* the files a member may upload

ASSUME ImportsAssumption == Files \subseteq Seq(Keys \cup {Bad})

BeginImport(p, a, file) ==
  /\ ~archived[a]
  /\ Begin(p, [Idle EXCEPT !.op = "import", !.at = "dedupe", !.id = a,
                           !.wanted = file])
  /\ UNCHANGED <<books, failures>>

\* (Mutant: two equal rows of one file are two transactions.)
NewEachRow(file, stored) ==
  {n \in DOMAIN file : file[n] \notin stored \cup {Bad}}

\* Candidates that repeat neither a stored key nor an earlier row of the file.
New(file, stored) ==
  {n \in DOMAIN file :
    /\ file[n] \notin stored \cup {Bad}
    /\ \A m \in 1 .. n - 1 : file[m] # file[n]}

\* (Mutant: rows of the household's other accounts count.)
StoredAnywhere(a) == {r.key : r \in rows}

\* existingImportKeys().
Stored(a) == {r.key : r \in RowsOf(a)}

Dedupe(p) ==
  LET q == request[p]
      new == New(q.wanted, Stored(q.id))
  IN
  /\ At(p, "import", "dedupe")
  /\ Becomes(p, [q EXCEPT !.todo = new, !.at = "insert"])
  /\ UNCHANGED <<books, failures>>

\* insertMany(), ordered: false.  The rows that landed are counted.
InsertRow(p) ==
  LET q == request[p] IN
  /\ At(p, "import", "insert")
  /\ \E n \in q.todo :
       /\ \A m \in q.todo : n <= m
       /\ rows' = rows \cup {[account |-> q.id, key |-> q.wanted[n], by |-> p, row |-> n,
                              torn |-> Overlapped(p, "import", q.id)]}
       /\ Becomes(p, [q EXCEPT !.todo = @ \ {n},
                               !.cursor = @ + Amount[q.wanted[n]]])
  /\ UNCHANGED <<balance, opening, archived, base, drifted, failures>>

\* (Mutant: a row that did not land is counted all the same.)
LoseRowCounted(p) ==
  LET q == request[p] IN
  /\ At(p, "import", "insert")
  /\ failures < MaxFailures
  /\ failures' = failures + 1
  /\ \E n \in q.todo :
       /\ \A m \in q.todo : n <= m
       /\ Becomes(p, [q EXCEPT !.todo = @ \ {n}, !.found = TRUE,
                               !.cursor = @ + Amount[q.wanted[n]]])
  /\ UNCHANGED books

\* A row the database refuses; the others go on.  found: the member is told.
LoseRow(p) ==
  LET q == request[p] IN
  /\ At(p, "import", "insert")
  /\ failures < MaxFailures
  /\ failures' = failures + 1
  /\ \E n \in q.todo :
       /\ \A m \in q.todo : n <= m
       /\ Becomes(p, [q EXCEPT !.todo = @ \ {n}, !.found = TRUE])
  /\ UNCHANGED books

\* applyBalanceDelta(), by what landed.
ApplyImport(p) ==
  LET q == request[p] IN
  /\ At(p, "import", "insert")
  /\ q.todo = {}
  /\ balance' = [balance EXCEPT ![q.id] = @ + q.cursor]
  /\ Finish(p)
  /\ UNCHANGED <<opening, archived, rows, base, drifted, failures>>

\* The $inc throws or the process dies; the rows inserted so far stay.
ImportDies(p) ==
  LET q == request[p] IN
  /\ At(p, "import", "insert")
  /\ failures < MaxFailures
  /\ failures' = failures + 1
  /\ drifted' = IF q.cursor = 0 THEN drifted ELSE drifted \cup {q.id}
  /\ Finish(p)
  /\ UNCHANGED <<balance, opening, archived, rows, base>>
=============================================================================
