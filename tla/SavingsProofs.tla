--------------------------- MODULE SavingsProofs ---------------------------
(***************************************************************************)
(* Savings.tla for any accounts, files, goals, requests and failures:      *)
(* balances count what was stored and rows are stored once (ImportsHold),  *)
(* goals show what they are owed (GoalsHold), uploads are complete         *)
(* (LeavesNothingOut) and anchors are right (AnchorSound).                 *)
(*                                                                         *)
(* Sums are folds over sets, so the first part shows that they depend on   *)
(* nothing but the set.  Then each step is shown to move a balance by what *)
(* it moves the stored rows by (Even), and each handler to know what it    *)
(* relies on (Fit, FitsStored, FitsCovered, FitsSum), unless it has met    *)
(* whoever could have changed it (Witnessed).                              *)
(***************************************************************************)
EXTENDS Savings, FiniteSetTheorems, WellFoundedInduction, TLAPS

-----------------------------------------------------------------------------
(* What the fold over a set computes: a sum of integers does not depend on *)
(* the order, nor on the set it is a part of.  Induction is replaced by a  *)
(* smallest counterexample.                                                *)

LessThan == {pair \in Nat \X Nat : pair[1] < pair[2]}

\* Every nonempty set of naturals has a least element.
LEMMA LeastElement ==
  ASSUME NEW T \in SUBSET Nat, T # {}
  PROVE  \E m \in T : \A n \in T : m <= n
<1>1. IsWellFoundedOn(LessThan, Nat)
  BY NatLessThanWellFounded DEF OpToRel, LessThan
<1>2. PICK m \in T : \A n \in T : ~(<<n, m>> \in LessThan)
  BY <1>1, WFMin
<1>3. \A i, j \in Nat : i < j => <<i, j>> \in LessThan
  BY DEF LessThan
<1>4. ASSUME NEW n \in T PROVE m <= n
  <2>1. m \in Nat /\ n \in Nat /\ ~(n < m)
    BY <1>2, <1>3
  <2> QED BY <2>1
<1> QED BY <1>4

\* A nonempty collection of subsets of a finite set has a smallest one.
LEMMA SmallestSet ==
  ASSUME NEW S, IsFiniteSet(S), NEW C \in SUBSET (SUBSET S), C # {}
  PROVE  \E T \in C : \A U \in C : Cardinality(T) <= Cardinality(U)
<1> DEFINE N == {Cardinality(T) : T \in C}
<1>1. N \in SUBSET Nat /\ N # {}
  BY FS_Subset, FS_CardinalityType
<1>2. PICK m \in N : \A n \in N : m <= n
  BY <1>1, LeastElement
<1> QED BY <1>2

\* Without an element it has, a finite set is smaller.
LEMMA Smaller ==
  ASSUME NEW S, IsFiniteSet(S), NEW T \in SUBSET S, NEW x \in T
  PROVE  ~(Cardinality(T) <= Cardinality(T \ {x}))
<1>1. IsFiniteSet(T)
  BY FS_Subset
<1>2. Cardinality(T \ {x}) = Cardinality(T) - 1
  BY <1>1, FS_RemoveElement
<1>3. Cardinality(T) \in Nat
  BY <1>1, FS_CardinalityType
<1> QED BY <1>2, <1>3

First(T) == CHOOSE x \in T : TRUE

\* g[T] is the sum of e over T, for every subset T of S.
AreSums(S, e, g) ==
  g = [T \in SUBSET S |->
        IF T = {} THEN 0 ELSE e[First(T)] + g[T \ {First(T)}]]

LEMMA FirstIn ==
  ASSUME NEW T, T # {}
  PROVE  First(T) \in T
BY DEF First

\* There is one such sum, whatever the set is a part of.
LEMMA SumsAgree ==
  ASSUME NEW S, NEW S2, NEW e, NEW e2, NEW g, NEW h, AreSums(S, e, g), AreSums(S2, e2, h),
         NEW T \in SUBSET (S \cap S2), IsFiniteSet(T), \A x \in T : e[x] = e2[x]
  PROVE  g[T] = h[T]
<1> DEFINE Wrong == {U \in SUBSET T : g[U] # h[U]}
<1>1. SUFFICES ASSUME Wrong # {} PROVE FALSE
  OBVIOUS
<1>2. PICK U \in Wrong : \A V \in Wrong : Cardinality(U) <= Cardinality(V)
  BY <1>1, SmallestSet
<1>3. U \in SUBSET S /\ U \in SUBSET S2 /\ g[U] # h[U]
  OBVIOUS
<1>4. /\ g[U] = IF U = {} THEN 0 ELSE e[First(U)] + g[U \ {First(U)}]
      /\ h[U] = IF U = {} THEN 0 ELSE e2[First(U)] + h[U \ {First(U)}]
  BY <1>3 DEF AreSums
<1>5. U # {}
  BY <1>3, <1>4
<1>6. U \ {First(U)} \notin Wrong /\ e[First(U)] = e2[First(U)]
  BY <1>2, <1>5, FirstIn, Smaller
<1> QED BY <1>3, <1>4, <1>5, <1>6

\* Such sums exist, and are integers.
LEMMA SumsExist ==
  ASSUME NEW S, IsFiniteSet(S), NEW e \in [S -> Int]
  PROVE  \E g \in [SUBSET S -> Int] : AreSums(S, e, g)
<1> DEFINE Are(T, g) == g \in [SUBSET T -> Int] /\ AreSums(T, e, g)
           Wrong == {T \in SUBSET S : ~ \E g : Are(T, g)}
           Whole(T) == (CHOOSE g : Are(T, g))[T]
<1>1. SUFFICES ASSUME Wrong # {} PROVE FALSE
  OBVIOUS
<1>2. PICK T \in Wrong : \A U \in Wrong : Cardinality(T) <= Cardinality(U)
  BY <1>1, SmallestSet
<1>3. ASSUME NEW U \in SUBSET T, U # T
      PROVE  \E g : Are(U, g)
  <2>1. PICK x \in T : x \notin U
    BY <1>3
  <2>2. IsFiniteSet(T) /\ IsFiniteSet(T \ {x})
    BY FS_Subset, FS_RemoveElement
  <2>3. U \in SUBSET (T \ {x})
    BY <2>1
  <2>4. Cardinality(U) <= Cardinality(T \ {x})
    BY <2>2, <2>3, FS_Subset
  <2>5. Cardinality(T) \in Nat /\ Cardinality(U) \in Nat /\ Cardinality(T \ {x}) \in Nat
    BY <2>2, <2>3, FS_Subset, FS_CardinalityType
  <2>6. ~(Cardinality(T) <= Cardinality(T \ {x}))
    BY Smaller
  <2>7. ~(Cardinality(T) <= Cardinality(U))
    BY <2>4, <2>5, <2>6
  <2>8. U \notin Wrong
    BY <1>2, <2>7
  <2> QED BY <2>8
<1>4. ASSUME NEW U \in SUBSET T, U # T
      PROVE  /\ Whole(U) \in Int
             /\ Whole(U) = IF U = {} THEN 0 ELSE e[First(U)] + Whole(U \ {First(U)})
  <2> DEFINE g == CHOOSE f : Are(U, f)
             V == U \ {First(U)}
             h == CHOOSE f : Are(V, f)
  <2>1. Are(U, g)
    BY <1>3, <1>4
  <2>2. V \in SUBSET T /\ V # T
    BY <1>4
  <2>3. Are(V, h)
    BY <1>3, <2>2
  <2> HIDE DEF g, h
  <2>4. IsFiniteSet(V) /\ V \in SUBSET (U \cap V)
    BY FS_Subset, <2>2
  <2>5. g[V] = h[V]
    BY <2>1, <2>3, <2>4, SumsAgree
  <2>6. g[U] = (IF U = {} THEN 0 ELSE e[First(U)] + g[V]) /\ g[U] \in Int
    BY <2>1 DEF AreSums
  <2>7. Whole(U) = g[U] /\ Whole(V) = h[V]
    BY DEF g, h
  <2> QED BY <2>5, <2>6, <2>7
<1> DEFINE f == [U \in SUBSET T |->
                  IF U = T THEN (IF U = {} THEN 0 ELSE e[First(U)] + Whole(U \ {First(U)}))
                  ELSE Whole(U)]
<1> HIDE DEF Whole
<1>5. T # {} => First(T) \in T /\ T \ {First(T)} # T /\ T \ {First(T)} \in SUBSET T
  BY FirstIn
<1>6. \A U \in SUBSET T : f[U] \in Int
  <2> TAKE U \in SUBSET T
  <2>1. CASE U # T
    BY <1>4, <2>1
  <2>2. CASE U = T /\ T # {}
    <3>1. Whole(T \ {First(T)}) \in Int
      BY <1>4, <1>5, <2>2
    <3>2. e[First(T)] \in Int
      BY <1>5, <2>2
    <3> QED BY <2>2, <3>1, <3>2
  <2>3. CASE U = T /\ T = {}
    BY <2>3
  <2> QED BY <2>1, <2>2, <2>3
<1>7. \A U \in SUBSET T : f[U] = IF U = {} THEN 0 ELSE e[First(U)] + f[U \ {First(U)}]
  <2> TAKE U \in SUBSET T
  <2>1. U # {} => First(U) \in U /\ U \ {First(U)} # T /\ U \ {First(U)} \in SUBSET T
    BY FirstIn
  <2>2. U # {} => f[U \ {First(U)}] = Whole(U \ {First(U)})
    BY <2>1
  <2>3. f[U] = IF U = {} THEN 0 ELSE e[First(U)] + Whole(U \ {First(U)})
    BY <1>4
  <2> QED BY <2>2, <2>3
<1>8. Are(T, f)
  <2>1. f \in [SUBSET T -> Int]
    BY <1>6
  <2>2. AreSums(T, e, f)
    BY <1>7 DEF AreSums
  <2> QED BY <2>1, <2>2
<1> QED BY <1>8

\* Any element may be the one that is added last.
Adds(S, e, g) ==
  \A T \in SUBSET S : \A x \in T : g[T] = e[x] + g[T \ {x}]

LEMMA SumsAdd ==
  ASSUME NEW S, IsFiniteSet(S), NEW e \in [S -> Int], NEW g \in [SUBSET S -> Int],
         AreSums(S, e, g)
  PROVE  Adds(S, e, g)
<1> DEFINE Wrong == {U \in SUBSET S : \E y \in U : g[U] # e[y] + g[U \ {y}]}
<1>1. SUFFICES ASSUME Wrong # {} PROVE FALSE
  BY DEF Adds
<1>2. PICK U \in Wrong : \A V \in Wrong : Cardinality(U) <= Cardinality(V)
  BY <1>1, SmallestSet
<1>3. PICK y \in U : g[U] # e[y] + g[U \ {y}]
  OBVIOUS
<1> DEFINE c == First(U)
           V == U \ {c}
           W == U \ {y}
<1>4. U \in SUBSET S /\ c \in U /\ V \in SUBSET S /\ W \in SUBSET S
  BY <1>3, FirstIn
<1>5. g[U] = e[c] + g[V]
  BY <1>4 DEF AreSums
<1>6. c # y
  BY <1>3, <1>5
<1> HIDE DEF c
<1>7. V \notin Wrong /\ W \notin Wrong
  BY <1>2, <1>4, Smaller
<1>8. g[V] = e[y] + g[V \ {y}]
  BY <1>4, <1>6, <1>7
<1>9. g[W] = e[c] + g[W \ {c}]
  BY <1>4, <1>6, <1>7
<1>10. V \ {y} = W \ {c} /\ V \ {y} \in SUBSET S
  BY <1>4
<1>11. e[c] \in Int /\ e[y] \in Int /\ g[V \ {y}] \in Int
  BY <1>4, <1>10
<1>12. PICK rest \in Int : rest = g[V \ {y}] /\ rest = g[W \ {c}]
  BY <1>10, <1>11
<1>13. g[U] = e[c] + (e[y] + rest) /\ g[W] = e[c] + rest
  BY <1>5, <1>8, <1>9, <1>12
<1>14. e[c] + (e[y] + rest) = e[y] + (e[c] + rest)
  BY <1>11
<1> QED BY <1>3, <1>13, <1>14

\* What Sum and Pending add up.
Signed(rs) == [r \in rs |-> Amount[r.key]]

LEMMA SumIs ==
  ASSUME NEW rs, IsFiniteSet(rs), \A r \in rs : Amount[r.key] \in Int
  PROVE  \E g \in [SUBSET rs -> Int] : AreSums(rs, Signed(rs), g) /\ Sum(rs) = g[rs]
<1> DEFINE Fold(g) == g = [s \in SUBSET rs |->
             IF s = {} THEN 0
             ELSE Amount[(CHOOSE x \in s : TRUE).key] + g[s \ {CHOOSE x \in s : TRUE}]]
           iter == CHOOSE g : Fold(g)
<1>1. \A s \in SUBSET rs : s # {} => First(s) \in rs
  BY FirstIn
<1>2. ASSUME NEW g PROVE AreSums(rs, Signed(rs), g) <=> Fold(g)
  BY <1>1 DEF AreSums, First, Signed
<1>3. Signed(rs) \in [rs -> Int]
  BY DEF Signed
<1>4. PICK g \in [SUBSET rs -> Int] : AreSums(rs, Signed(rs), g)
  BY <1>3, SumsExist
<1>5. AreSums(rs, Signed(rs), iter)
  BY <1>2, <1>4
<1>6. Sum(rs) = iter[rs]
  BY DEF Sum, MapThenSumSet, MapThenFoldSet
<1>7. Sum(rs) = g[rs]
  BY <1>4, <1>5, <1>6, SumsAgree
<1> QED BY <1>4, <1>7

\* The rows of a set of integers, with one row put aside.
LEMMA SumOneMore ==
  ASSUME NEW rs, IsFiniteSet(rs), \A r \in rs : Amount[r.key] \in Int, NEW x \in rs
  PROVE  Sum(rs) = Amount[x.key] + Sum(rs \ {x})
<1>1. PICK g \in [SUBSET rs -> Int] : AreSums(rs, Signed(rs), g) /\ Sum(rs) = g[rs]
  BY SumIs
<1> DEFINE rest == rs \ {x}
<1>2. IsFiniteSet(rest)
  BY FS_RemoveElement
<1>3. PICK h \in [SUBSET rest -> Int] : AreSums(rest, Signed(rest), h) /\ Sum(rest) = h[rest]
  BY SumIs, <1>2
<1>4. g[rest] = h[rest]
  BY SumsAgree, <1>1, <1>2, <1>3 DEF Signed
<1>5. Signed(rs) \in [rs -> Int] /\ Signed(rs)[x] = Amount[x.key]
  BY DEF Signed
<1>6. g[rs] = Signed(rs)[x] + g[rest]
  <2>1. Adds(rs, Signed(rs), g)
    BY SumsAdd, <1>1, <1>5
  <2>2. rs \in SUBSET rs /\ x \in rs
    OBVIOUS
  <2> QED BY <2>1, <2>2 DEF Adds
<1> QED BY <1>1, <1>3, <1>4, <1>5, <1>6

LEMMA SumInt ==
  ASSUME NEW rs, IsFiniteSet(rs), \A r \in rs : Amount[r.key] \in Int
  PROVE  Sum(rs) \in Int
<1>1. rs \in SUBSET rs
  OBVIOUS
<1>2. PICK g \in [SUBSET rs -> Int] : Sum(rs) = g[rs]
  BY SumIs
<1> QED BY <1>1, <1>2

LEMMA RequestsFinite == IsFiniteSet(Requests)
<1>1. 1 \in Int /\ MaxRequests \in Int
  BY HandlersAssumption
<1> QED BY <1>1, FS_Interval DEF Requests

\* What imports have still to count, of requests q on the account a.
Due(q, a) == IF q.op = "import" /\ q.id = a THEN q.cursor ELSE 0

PendingOf(q, a) ==
  LET importing == {p \in Requests : q[p].op = "import" /\ q[p].id = a}
  IN  MapThenSumSet(LAMBDA p : q[p].cursor, importing)

LEMMA PendingIs ==
  ASSUME NEW q, NEW a, \A p \in Requests : Due(q[p], a) \in Int
  PROVE  \E g \in [SUBSET Requests -> Int] :
           /\ AreSums(Requests, [p \in Requests |-> Due(q[p], a)], g)
           /\ PendingOf(q, a) = g[Requests]
           /\ (\A p \in Requests : ~(q[p].op = "import" /\ q[p].id = a)) => PendingOf(q, a) = 0
<1> DEFINE T == {p \in Requests : q[p].op = "import" /\ q[p].id = a}
           e == [p \in Requests |-> Due(q[p], a)]
<1>1. IsFiniteSet(Requests) /\ IsFiniteSet(T)
  <2>1. T \in SUBSET Requests
    OBVIOUS
  <2> QED BY <2>1, RequestsFinite, FS_Subset
<1>2. e \in [Requests -> Int] /\ \A p \in T : e[p] = q[p].cursor
  BY DEF Due
<1>3. PICK g \in [SUBSET Requests -> Int] : AreSums(Requests, e, g)
  BY <1>1, <1>2, SumsExist
<1> DEFINE Fold(h) == h = [s \in SUBSET T |->
             IF s = {} THEN 0
             ELSE q[CHOOSE x \in s : TRUE].cursor + h[s \ {CHOOSE x \in s : TRUE}]]
           iter == CHOOSE h : Fold(h)
<1>4. \A s \in SUBSET T : s # {} => First(s) \in T
  BY FirstIn
<1>5. ASSUME NEW h PROVE AreSums(T, e, h) <=> Fold(h)
  <2>1. \A s \in SUBSET T : s # {} => e[First(s)] = q[First(s)].cursor
    BY <1>2, <1>4
  <2> HIDE DEF e, T
  <2> QED BY <2>1 DEF AreSums, First
<1>6. PICK h : AreSums(T, e, h)
  <2> DEFINE d == [p \in T |-> e[p]]
  <2>1. d \in [T -> Int]
    BY <1>2
  <2>2. PICK h : AreSums(T, d, h)
    BY <1>1, <2>1, SumsExist
  <2>3. AreSums(T, e, h)
    BY <2>2, <1>4 DEF AreSums
  <2> QED BY <2>3
<1>7. AreSums(T, e, iter)
  BY <1>5, <1>6
<1>8. PendingOf(q, a) = iter[T]
  BY DEF PendingOf, MapThenSumSet, MapThenFoldSet
<1>9. iter[T] = g[T]
  BY <1>1, <1>3, <1>7, SumsAgree
<1> HIDE DEF iter
\* Whoever is not importing adds nothing.
<1>10. g[Requests] = g[T]
  <2> DEFINE Wrong == {U \in SUBSET Requests : T \subseteq U /\ g[U] # g[T]}
  <2>1. SUFFICES ASSUME Wrong # {} PROVE FALSE
    OBVIOUS
  <2> HIDE DEF T
  <2>2. PICK U \in Wrong : \A V \in Wrong : Cardinality(U) <= Cardinality(V)
    <3>1. Wrong \in SUBSET (SUBSET Requests)
      OBVIOUS
    <3> QED BY <3>1, <1>1, <2>1, SmallestSet
  <2>3. PICK x \in U : x \notin T
    BY <2>2
  <2>4. g[U] = e[x] + g[U \ {x}]
    <3>1. U \in SUBSET Requests
      BY <2>2
    <3> HIDE DEF e
    <3>2. Adds(Requests, e, g)
      BY <1>1, <1>2, <1>3, SumsAdd
    <3> QED BY <3>1, <3>2, <2>3 DEF Adds
  <2>5. e[x] = 0 /\ g[U \ {x}] \in Int
    BY <2>2, <2>3, <1>3 DEF Due, T
  <2>6. U \ {x} \notin Wrong
    BY <1>1, <2>2, Smaller
  <2> QED BY <2>2, <2>3, <2>4, <2>5, <2>6
<1>11. g[{}] = 0
  BY <1>3 DEF AreSums
<1>12. (\A p \in Requests : ~(q[p].op = "import" /\ q[p].id = a)) => T = {}
  OBVIOUS
<1> HIDE DEF T
<1> QED BY <1>3, <1>8, <1>9, <1>10, <1>11, <1>12

LEMMA NonePending ==
  ASSUME NEW q, NEW a, \A p \in Requests : Due(q[p], a) \in Int,
         \A p \in Requests : ~(q[p].op = "import" /\ q[p].id = a)
  PROVE  PendingOf(q, a) = 0
BY PendingIs

\* A step of p moves what is pending by what is due to p.
LEMMA PendingMoves ==
  ASSUME NEW q, NEW r, NEW a, NEW p \in Requests,
         \A o \in Requests : Due(q[o], a) \in Int /\ Due(r[o], a) \in Int,
         \A o \in Requests \ {p} : r[o] = q[o]
  PROVE  /\ PendingOf(q, a) \in Int /\ PendingOf(r, a) \in Int
         /\ PendingOf(r, a) = PendingOf(q, a) + Due(r[p], a) - Due(q[p], a)
<1> DEFINE e == [o \in Requests |-> Due(q[o], a)]
           d == [o \in Requests |-> Due(r[o], a)]
           T == Requests \ {p}
<1>1. PICK g \in [SUBSET Requests -> Int] :
        AreSums(Requests, e, g) /\ PendingOf(q, a) = g[Requests]
  BY PendingIs
<1>2. PICK h \in [SUBSET Requests -> Int] :
        AreSums(Requests, d, h) /\ PendingOf(r, a) = h[Requests]
  BY PendingIs
<1>3. IsFiniteSet(Requests) /\ IsFiniteSet(T)
  BY RequestsFinite, FS_RemoveElement
<1>4. e \in [Requests -> Int] /\ d \in [Requests -> Int] /\ \A x \in T : e[x] = d[x]
  OBVIOUS
<1> HIDE DEF e, d
<1>5. g[Requests] = e[p] + g[T] /\ h[Requests] = d[p] + h[T]
  <2>1. Adds(Requests, e, g) /\ Adds(Requests, d, h)
    BY <1>1, <1>2, <1>3, <1>4, SumsAdd
  <2>2. Requests \in SUBSET Requests
    OBVIOUS
  <2> QED BY <2>1, <2>2 DEF Adds
<1>6. g[T] = h[T]
  BY <1>1, <1>2, <1>3, <1>4, SumsAgree
<1>7. e[p] = Due(q[p], a) /\ d[p] = Due(r[p], a) /\ e[p] \in Int /\ d[p] \in Int
  BY <1>4 DEF e, d
<1>8. g[T] \in Int
  OBVIOUS
<1> QED BY <1>1, <1>2, <1>5, <1>6, <1>7, <1>8

-----------------------------------------------------------------------------
(* What a handler has in memory, by what it is doing.                      *)

\* What a handler has in memory is a record of these fields.
Shape(q) ==
  q = [op |-> q.op, at |-> q.at, id |-> q.id, doc |-> q.doc, wanted |-> q.wanted,
       todo |-> q.todo, found |-> q.found, cursor |-> q.cursor]

Goal ==
  [state : {"free", "live", "gone"}, type : Types \cup {None}, current : Int,
   account : Accounts \cup {NoAccount}, baseline : Int]

FitsAnchor(q) == q.op = "anchor" =>
  q.at \in {"sum", "stamp"} /\ q.id \in Accounts /\ q.wanted \in Int

FitsImport(q) == q.op = "import" =>
  /\ q.at \in {"dedupe", "insert"} /\ q.id \in Accounts /\ q.wanted \in Files
  /\ q.cursor \in Int /\ (q.at = "dedupe" => q.cursor = 0)
  /\ q.at = "insert" => \A n \in q.todo : n \in DOMAIN q.wanted /\ q.wanted[n] \in Keys

FitsCreate(q) == q.op = "createGoal" =>
  /\ q.at = "write"
  /\ q.wanted \in [type : Types, link : Accounts \cup {NoAccount}, to : Int]
  /\ IF q.wanted.link = NoAccount THEN q.wanted.to = 0
     ELSE q.wanted.link \in Fits[q.wanted.type]

\* A link was looked up in the class of the goal as it will be; a type that changes
\* alone was checked against the account.
FitsUpdate(q) == q.op = "updateGoal" =>
  /\ q.at \in {"save", "readOld", "readNew", "write"} /\ q.id \in 1 .. NumGoals
  /\ q.doc \in Goal
  /\ q.wanted \in [type : Types \cup {None}, link : Accounts \cup {NoAccount},
                   from : Int, to : Int]
  /\ q.at = "save" => /\ q.wanted.type # None
                      /\ Linked(q.doc) => \/ q.wanted.type = q.doc.type
                                          \/ q.doc.account \in Fits[q.wanted.type]
  /\ q.at # "save" => q.wanted.link # q.doc.account
  /\ q.at = "readNew" => q.wanted.link # NoAccount
  /\ q.at = "readOld" => Linked(q.doc)
  /\ q.at \in {"readOld", "write"} /\ q.wanted.link # NoAccount =>
       q.wanted.link \in Fits[NextType(q)]

FitsContribute(q) == q.op = "contribute" =>
  q.at \in {"look", "again"} /\ q.id \in 1 .. NumGoals /\ q.wanted \in Int

Ops == {"none", "done", "anchor", "import", "createGoal", "updateGoal", "contribute"}

Fit(q) ==
  /\ Shape(q) /\ q.op \in Ops
  /\ FitsAnchor(q) /\ FitsImport(q) /\ FitsCreate(q) /\ FitsUpdate(q) /\ FitsContribute(q)

AllFit ==
  /\ request = [p \in Requests |-> request[p]]
  /\ amid = [p \in Requests |-> amid[p]]
  /\ \A p \in Requests : Fit(request[p])

\* What is under way at the same time knows of each other.
Witnessed ==
  \A p \in Requests : \A r \in Requests \ {p} :
    Active(p) /\ Active(r) => About(request[r]) \in amid[p]

Row(r) ==
  /\ r = [account |-> r.account, key |-> r.key, by |-> r.by, row |-> r.row, torn |-> r.torn]
  /\ r.account \in Accounts /\ r.key \in Keys /\ r.by \in Requests

BooksTyped ==
  /\ balance \in [Accounts -> Int] /\ base \in [Accounts -> Int]
  /\ opening \in [Accounts -> Int \cup {Unset}] /\ archived \in [Accounts -> BOOLEAN]
  /\ IsFiniteSet(rows) /\ \A r \in rows : Row(r)

\* A goal that is not linked has no baseline; one to come has nothing.
GoalsTyped ==
  /\ goals \in [1 .. NumGoals -> Goal] /\ owed \in [1 .. NumGoals -> Int]
  /\ \A g \in 1 .. NumGoals :
       /\ ~Linked(goals[g]) => goals[g].baseline = 0
       /\ goals[g].state = "free" => ~Linked(goals[g]) /\ owed[g] = 0

BaseInv == AllFit /\ Witnessed /\ BooksTyped /\ GoalsTyped

-----------------------------------------------------------------------------
(* How handlers begin, go on and end.                                      *)

Only(p) == \A r \in Requests \ {p} : request'[r] = request[r]

\* Another step, or the end, of the handler p.
Moves(p) ==
  /\ Active(p) /\ Only(p)
  /\ \A r \in Requests \ {p} : amid'[r] = amid[r]
  /\ \/ request'[p] = Done
     \/ /\ request'[p].op = request[p].op /\ request'[p].id = request[p].id
        /\ amid'[p] = amid[p]

\* What is under way and what begins hear of each other.
Begins(p) ==
  /\ Fresh(p) /\ Only(p)
  /\ \A r \in Requests \ {p} :
       /\ amid[r] \subseteq amid'[r]
       /\ Active(r) => /\ About(request'[p]) \in amid'[r]
                       /\ About(request[r]) \in amid'[p]

Goes(p) == (Moves(p) \/ Begins(p)) /\ AllFit'

LEMMA IdleIs == Shape(Idle) /\ Idle.op = "none" /\ Idle.cursor = 0
BY DEF Idle, Shape

\* A request that did all it had to in its first step.
LEMMA DoneFits ==
  ASSUME NEW a, NEW r, r = [Done EXCEPT !.id = a]
  PROVE  Fit(r) /\ r.op = "done" /\ r.id = a
<1>1. ASSUME NEW i, Shape(i), NEW j, j = [i EXCEPT !.op = "done"]
      PROVE  Shape(j) /\ j.op = "done"
  BY <1>1 DEF Shape
<1>2. ASSUME NEW i, Shape(i), i.op = "done", NEW j, j = [i EXCEPT !.id = a]
      PROVE  Shape(j) /\ j.op = "done" /\ j.id = a
  BY <1>2 DEF Shape
<1>3. Shape(r) /\ r.op = "done" /\ r.id = a
  BY <1>1, <1>2, IdleIs DEF Done
<1> QED
  BY <1>3 DEF Fit, Ops, FitsAnchor, FitsImport, FitsCreate, FitsUpdate, FitsContribute

LEMMA DoneIs == Fit(Done) /\ Done.op = "done"
<1>1. ASSUME NEW i, Shape(i), NEW j, j = [i EXCEPT !.op = "done"]
      PROVE  Shape(j) /\ j.op = "done"
  BY <1>1 DEF Shape
<1>2. Shape(Done) /\ Done.op = "done"
  BY <1>1, IdleIs DEF Done
<1> QED
  BY <1>2 DEF Fit, Ops, FitsAnchor, FitsImport, FitsCreate, FitsUpdate, FitsContribute

LEMMA Becoming ==
  ASSUME AllFit, NEW p \in Requests, Active(p), NEW q, Becomes(p, q), Fit(q),
         q.op = request[p].op, q.id = request[p].id
  PROVE  Goes(p) /\ request'[p] = q /\ amid' = amid
<1>1. request'[p] = q /\ Only(p) /\ amid' = amid
  BY DEF AllFit, Becomes, Only
<1>2. Moves(p)
  BY <1>1 DEF Moves
<1>3. request' = [r \in Requests |-> request'[r]]
  BY DEF Becomes, AllFit
<1>4. AllFit'
  BY <1>1, <1>3 DEF AllFit, Only
<1> QED BY <1>1, <1>2, <1>4 DEF Goes

LEMMA Finishing ==
  ASSUME AllFit, NEW p \in Requests, Active(p), Finish(p)
  PROVE  Goes(p) /\ request'[p] = Done /\ request'[p].op = "done"
<1>1. request'[p] = Done /\ Only(p) /\ \A r \in Requests \ {p} : amid'[r] = amid[r]
  BY DEF AllFit, Finish, Only
<1>2. Moves(p)
  BY <1>1 DEF Moves
<1>3. /\ request' = [r \in Requests |-> request'[r]]
      /\ amid' = [r \in Requests |-> amid'[r]]
  BY DEF Finish, AllFit
<1>4. AllFit'
  BY <1>1, <1>3, DoneIs DEF AllFit, Only
<1> QED BY <1>1, <1>2, <1>4, DoneIs DEF Goes

LEMMA Beginning ==
  ASSUME AllFit, NEW p \in Requests, NEW q, Begin(p, q), Fit(q)
  PROVE  Goes(p) /\ Fresh(p) /\ request'[p] = q
<1>1. request'[p] = q /\ Only(p) /\ Fresh(p)
  BY DEF AllFit, Begin, Only
<1>2. ASSUME NEW r \in Requests \ {p}
      PROVE  /\ amid[r] \subseteq amid'[r]
             /\ Active(r) => About(request'[p]) \in amid'[r] /\ About(request[r]) \in amid'[p]
  BY <1>1 DEF Begin
<1>3. Begins(p)
  BY <1>1, <1>2 DEF Begins
<1>4. /\ request' = [r \in Requests |-> request'[r]]
      /\ amid' = [r \in Requests |-> amid'[r]]
  BY DEF Begin, AllFit
<1>5. AllFit'
  BY <1>1, <1>4 DEF AllFit, Only
<1> QED BY <1>1, <1>3, <1>5 DEF Goes

LEMMA WitnessedStep ==
  ASSUME Witnessed, NEW p \in Requests, Goes(p)
  PROVE  /\ Witnessed' /\ Only(p)
         /\ \A r \in Requests \ {p} : amid[r] \subseteq amid'[r]
<1>1. Only(p) /\ \A r \in Requests \ {p} : amid[r] \subseteq amid'[r]
  BY DEF Goes, Moves, Begins
<1>2. Witnessed'
  <2> SUFFICES ASSUME NEW a \in Requests, NEW r \in Requests \ {a}, Active(a)', Active(r)'
               PROVE  About(request'[r]) \in amid'[a]
    BY DEF Witnessed
  <2>1. CASE Moves(p)
    <3>1. \A b \in Requests : Active(b)' =>
            /\ Active(b) /\ amid'[b] = amid[b]
            /\ request'[b].op = request[b].op /\ request'[b].id = request[b].id
      BY <2>1, DoneIs DEF Moves, Active, Only
    <3>2. About(request[r]) \in amid[a]
      BY <3>1 DEF Witnessed
    <3> QED BY <3>1, <3>2 DEF About
  <2>2. CASE Begins(p)
    <3>1. CASE a = p
      BY <2>2, <3>1 DEF Begins, Only, Active
    <3>2. CASE r = p
      BY <2>2, <3>2 DEF Begins, Only, Active
    <3>3. CASE a # p /\ r # p
      BY <3>3, <1>1 DEF Only, Witnessed, Active
    <3> QED BY <3>1, <3>2, <3>3
  <2> QED BY <2>1, <2>2 DEF Goes
<1> QED BY <1>1, <1>2

-----------------------------------------------------------------------------
(* What each step leaves in memory.                                        *)

LEMMA EnterStep ==
  ASSUME BaseInv, NEW p \in Requests, NEW a \in Accounts, NEW k \in Keys, Enter(p, a, k)
  PROVE  Goes(p) /\ Fresh(p) /\ request'[p].op = "done" /\ request'[p].id = a
<1> DEFINE q == [Done EXCEPT !.id = a]
<1>1. Fit(q) /\ q.op = "done" /\ q.id = a
  BY DoneFits
<1>2. Begin(p, q)
  BY DEF Enter
<1> HIDE DEF q
<1> QED BY <1>1, <1>2, Beginning DEF BaseInv

LEMMA EraseStep ==
  ASSUME BaseInv, NEW p \in Requests, NEW r \in rows, Erase(p, r)
  PROVE  Goes(p) /\ Fresh(p) /\ request'[p].op = "done" /\ request'[p].id = r.account
<1>1. PICK a : a = r.account
  OBVIOUS
<1> DEFINE q == [Done EXCEPT !.id = a]
<1>2. Fit(q) /\ q.op = "done" /\ q.id = a
  BY DoneFits
<1>3. Begin(p, q)
  BY <1>1 DEF Erase
<1> HIDE DEF q
<1> QED BY <1>1, <1>2, <1>3, Beginning DEF BaseInv

LEMMA DoneStep ==
  ASSUME BaseInv, NEW p \in Requests, Begin(p, Done)
  PROVE  Goes(p) /\ Fresh(p) /\ request'[p].op = "done"
BY DoneIs, Beginning DEF BaseInv

LEMMA AnchorBegins ==
  ASSUME BaseInv, NEW p \in Requests, NEW a \in Accounts, BeginAnchor(p, a)
  PROVE  /\ Goes(p) /\ Fresh(p)
         /\ At(p, "anchor", "sum")' /\ request'[p].id = a /\ request'[p].wanted = balance[a]
<1>1. PICK b \in Int : b = balance[a]
  BY DEF BaseInv, BooksTyped
<1> DEFINE q == [Idle EXCEPT !.op = "anchor", !.at = "sum", !.id = a, !.wanted = b]
<1>2. ASSUME NEW i, Shape(i), NEW r,
             r = [i EXCEPT !.op = "anchor", !.at = "sum", !.id = a, !.wanted = b]
      PROVE  Shape(r) /\ r.op = "anchor" /\ r.at = "sum" /\ r.id = a /\ r.wanted = b
  BY <1>2 DEF Shape
<1>3. Shape(q) /\ q.op = "anchor" /\ q.at = "sum" /\ q.id = a /\ q.wanted = b
  BY <1>2, IdleIs
<1>4. Begin(p, q)
  BY <1>1 DEF BeginAnchor
<1> HIDE DEF q
<1>5. Fit(q)
  BY <1>3 DEF Fit, Ops, FitsAnchor, FitsImport, FitsCreate, FitsUpdate, FitsContribute
<1>6. Goes(p) /\ Fresh(p) /\ request'[p] = q
  BY <1>4, <1>5, Beginning DEF BaseInv
<1> QED BY <1>1, <1>3, <1>6 DEF At

LEMMA AnchorSums ==
  ASSUME BaseInv, NEW p \in Requests, AnchorSum(p)
  PROVE  /\ Active(p) /\ Goes(p) /\ amid' = amid /\ UNCHANGED books
         /\ At(p, "anchor", "stamp")' /\ request'[p].id = request[p].id
         /\ request'[p].wanted = request[p].wanted - Sum(RowsOf(request[p].id))
<1>1. PICK q : q = request[p]
  OBVIOUS
<1>2. Fit(q) /\ q.op = "anchor" /\ Active(p) /\ q.id \in Accounts /\ q.wanted \in Int
  BY <1>1 DEF BaseInv, AllFit, Fit, FitsAnchor, AnchorSum, At, Active
<1>3. PICK s \in Int : s = Sum(RowsOf(q.id))
  <2>1. RowsOf(q.id) \in SUBSET rows
    BY DEF RowsOf
  <2>2. IsFiniteSet(RowsOf(q.id)) /\ \A r \in RowsOf(q.id) : Amount[r.key] \in Int
    BY <2>1, FS_Subset, AccountsAssumption DEF BaseInv, BooksTyped, Row
  <2> QED BY <2>2, SumInt
<1> DEFINE n == [q EXCEPT !.at = "stamp", !.wanted = @ - s]
<1>4. ASSUME NEW r, r = [q EXCEPT !.at = "stamp", !.wanted = @ - s]
      PROVE  /\ Shape(r) /\ r.op = "anchor" /\ r.at = "stamp" /\ r.id = q.id
             /\ r.wanted = q.wanted - s
  BY <1>2, <1>4 DEF Fit, Shape
<1>5. /\ Shape(n) /\ n.op = "anchor" /\ n.at = "stamp" /\ n.id = q.id
      /\ n.wanted = q.wanted - s
  BY <1>4
<1>6. Becomes(p, n)
  BY <1>1, <1>3 DEF AnchorSum
<1> HIDE DEF n
<1>7. Fit(n)
  BY <1>2, <1>5 DEF Fit, Ops, FitsAnchor, FitsImport, FitsCreate, FitsUpdate, FitsContribute
<1>8. Goes(p) /\ request'[p] = n /\ amid' = amid
  BY <1>1, <1>2, <1>5, <1>6, <1>7, Becoming DEF BaseInv
<1> QED BY <1>1, <1>2, <1>3, <1>5, <1>8 DEF At, AnchorSum

LEMMA ImportBegins ==
  ASSUME BaseInv, NEW p \in Requests, NEW a \in Accounts, NEW file \in Files,
         BeginImport(p, a, file)
  PROVE  /\ Goes(p) /\ Fresh(p) /\ At(p, "import", "dedupe")' /\ request'[p].id = a
         /\ request'[p].wanted = file /\ request'[p].cursor = 0
<1> DEFINE q == [Idle EXCEPT !.op = "import", !.at = "dedupe", !.id = a, !.wanted = file]
<1>1. ASSUME NEW i, Shape(i), NEW r,
             r = [i EXCEPT !.op = "import", !.at = "dedupe", !.id = a, !.wanted = file]
      PROVE  /\ Shape(r) /\ r.op = "import" /\ r.at = "dedupe" /\ r.id = a
             /\ r.wanted = file /\ r.cursor = i.cursor
  BY <1>1 DEF Shape
<1>2. /\ Shape(q) /\ q.op = "import" /\ q.at = "dedupe" /\ q.id = a
      /\ q.wanted = file /\ q.cursor = 0
  BY <1>1, IdleIs
<1>3. Begin(p, q)
  BY DEF BeginImport
<1> HIDE DEF q
<1>4. Fit(q)
  BY <1>2 DEF Fit, Ops, FitsAnchor, FitsImport, FitsCreate, FitsUpdate, FitsContribute
<1>5. Goes(p) /\ Fresh(p) /\ request'[p] = q
  BY <1>3, <1>4, Beginning DEF BaseInv
<1> QED BY <1>2, <1>5 DEF At

\* An importing handler, and a row of its file it may store.
LEMMA Importing ==
  ASSUME BaseInv, NEW p \in Requests, request[p].op = "import"
  PROVE  /\ Active(p) /\ Fit(request[p]) /\ FitsImport(request[p])
         /\ request[p].id \in Accounts /\ request[p].cursor \in Int
BY DEF BaseInv, AllFit, Fit, FitsImport, Active

LEMMA Dedupes ==
  ASSUME BaseInv, NEW p \in Requests, Dedupe(p)
  PROVE  /\ Active(p) /\ Goes(p) /\ amid' = amid /\ UNCHANGED books
         /\ At(p, "import", "insert")'
         /\ request'[p].id = request[p].id /\ request'[p].wanted = request[p].wanted
         /\ request'[p].cursor = request[p].cursor
         /\ request'[p].todo = New(request[p].wanted, Stored(request[p].id))
<1>1. PICK q : q = request[p]
  OBVIOUS
<1>2. q.op = "import" /\ q.at = "dedupe" /\ Active(p) /\ Fit(q) /\ FitsImport(q)
  BY <1>1, Importing DEF Dedupe, At
<1>3. PICK new : new = New(q.wanted, Stored(q.id))
  OBVIOUS
<1> DEFINE n == [q EXCEPT !.todo = new, !.at = "insert"]
<1>4. ASSUME NEW r, r = [q EXCEPT !.todo = new, !.at = "insert"]
      PROVE  /\ Shape(r) /\ r.op = "import" /\ r.at = "insert" /\ r.id = q.id
             /\ r.wanted = q.wanted /\ r.cursor = q.cursor /\ r.todo = new
  BY <1>2, <1>4 DEF Fit, Shape
<1>5. /\ Shape(n) /\ n.op = "import" /\ n.at = "insert" /\ n.id = q.id
      /\ n.wanted = q.wanted /\ n.cursor = q.cursor /\ n.todo = new
  BY <1>4
<1>6. Becomes(p, n)
  BY <1>1, <1>3 DEF Dedupe
<1> HIDE DEF n
<1>7. ASSUME NEW i \in new
      PROVE  i \in DOMAIN q.wanted /\ q.wanted[i] \in Keys
  <2>1. q.wanted \in Seq(Keys \cup {Bad})
    BY <1>2, ImportsAssumption DEF FitsImport
  <2> QED BY <1>3, <2>1 DEF New
<1>8. FitsImport(n)
  BY <1>2, <1>5, <1>7 DEF FitsImport
<1>9. Fit(n)
  BY <1>5, <1>8 DEF Fit, Ops, FitsAnchor, FitsCreate, FitsUpdate, FitsContribute
<1>10. Goes(p) /\ request'[p] = n /\ amid' = amid
  BY <1>1, <1>2, <1>5, <1>6, <1>9, Becoming DEF BaseInv
<1> QED BY <1>1, <1>2, <1>3, <1>5, <1>10 DEF At, Dedupe


\* The first row of a batch that is still to be stored, what it counts and whether
\* the member will be told.
LEMMA Inserts ==
  ASSUME BaseInv, NEW p \in Requests, NEW n \in request[p].todo, NEW x \in Int,
         NEW lost, At(p, "import", "insert"),
         \/ ~lost /\ Becomes(p, [request[p] EXCEPT !.todo = @ \ {n}, !.cursor = @ + x])
         \/ lost /\ x = 0 /\ Becomes(p, [request[p] EXCEPT !.todo = @ \ {n}, !.found = TRUE])
  PROVE  /\ Active(p) /\ Goes(p) /\ amid' = amid /\ At(p, "import", "insert")'
         /\ request'[p].id = request[p].id /\ request'[p].wanted = request[p].wanted
         /\ request'[p].cursor = request[p].cursor + x
         /\ request'[p].todo = request[p].todo \ {n}
         /\ lost => request'[p].found = TRUE
         /\ ~lost => request'[p].found = request[p].found
<1>1. PICK q : q = request[p]
  OBVIOUS
<1>2. q.op = "import" /\ q.at = "insert" /\ Active(p) /\ Fit(q) /\ FitsImport(q) /\ q.cursor \in Int
  BY <1>1, Importing DEF At
<1> DEFINE stored == [q EXCEPT !.todo = @ \ {n}, !.cursor = @ + x]
           refused == [q EXCEPT !.todo = @ \ {n}, !.found = TRUE]
           Is(r) == /\ Shape(r) /\ r.op = "import" /\ r.at = "insert" /\ r.id = q.id
                    /\ r.wanted = q.wanted /\ r.todo = q.todo \ {n}
<1>3. ASSUME NEW r, r = [q EXCEPT !.todo = @ \ {n}, !.cursor = @ + x]
      PROVE  Is(r) /\ r.cursor = q.cursor + x /\ r.found = q.found
  BY <1>2, <1>3 DEF Fit, Shape
<1>4. ASSUME NEW r, r = [q EXCEPT !.todo = @ \ {n}, !.found = TRUE]
      PROVE  Is(r) /\ r.cursor = q.cursor /\ r.found = TRUE
  BY <1>2, <1>4 DEF Fit, Shape
<1>5. PICK r : /\ Becomes(p, r) /\ Is(r) /\ r.cursor = q.cursor + x
               /\ lost => r.found = TRUE
               /\ ~lost => r.found = q.found
  <2>1. CASE ~lost
    <3>1. Becomes(p, stored)
      BY <1>1, <2>1
    <3> HIDE DEF Is
    <3> QED BY <1>3, <2>1, <3>1
  <2>2. CASE lost
    <3>1. Becomes(p, refused)
      BY <1>1, <2>2
    <3>2. q.cursor = q.cursor + x
      BY <1>2, <2>2
    <3> HIDE DEF Is
    <3> QED BY <1>4, <2>2, <3>1, <3>2
  <2> QED BY <2>1, <2>2
<1>6. FitsImport(r)
  BY <1>2, <1>5 DEF FitsImport
<1>7. Fit(r)
  BY <1>5, <1>6 DEF Fit, Ops, FitsAnchor, FitsCreate, FitsUpdate, FitsContribute
<1>8. Goes(p) /\ request'[p] = r /\ amid' = amid
  BY <1>1, <1>2, <1>5, <1>7, Becoming DEF BaseInv
<1> QED BY <1>1, <1>2, <1>5, <1>8 DEF At

\* The key of a row to be stored, and its amount.
LEMMA ToStore ==
  ASSUME BaseInv, NEW p \in Requests, At(p, "import", "insert"), NEW n \in request[p].todo
  PROVE  /\ n \in DOMAIN request[p].wanted /\ request[p].wanted[n] \in Keys
         /\ Amount[request[p].wanted[n]] \in Int
BY Importing, AccountsAssumption DEF At, FitsImport

LEMMA InsertStep ==
  ASSUME BaseInv, NEW p \in Requests, InsertRow(p)
  PROVE  \E n \in request[p].todo :
           /\ n \in DOMAIN request[p].wanted /\ request[p].wanted[n] \in Keys
           /\ rows' = rows \cup {[account |-> request[p].id, key |-> request[p].wanted[n],
                                  by |-> p, row |-> n,
                                  torn |-> Overlapped(p, "import", request[p].id)]}
           /\ Active(p) /\ Goes(p) /\ amid' = amid
           /\ At(p, "import", "insert") /\ At(p, "import", "insert")'
           /\ request'[p].id = request[p].id /\ request'[p].wanted = request[p].wanted
           /\ request'[p].cursor = request[p].cursor + Amount[request[p].wanted[n]]
           /\ request'[p].todo = request[p].todo \ {n}
           /\ request'[p].found = request[p].found
<1>1. PICK n \in request[p].todo :
        /\ rows' = rows \cup {[account |-> request[p].id, key |-> request[p].wanted[n],
                               by |-> p, row |-> n,
                               torn |-> Overlapped(p, "import", request[p].id)]}
        /\ Becomes(p, [request[p] EXCEPT !.todo = @ \ {n},
                                         !.cursor = @ + Amount[request[p].wanted[n]]])
  BY DEF InsertRow
<1>2. At(p, "import", "insert")
  BY DEF InsertRow
<1>3. n \in DOMAIN request[p].wanted /\ request[p].wanted[n] \in Keys
      /\ Amount[request[p].wanted[n]] \in Int
  BY <1>2, ToStore
<1>4. PICK x \in Int : x = Amount[request[p].wanted[n]]
  BY <1>3
<1>5. Becomes(p, [request[p] EXCEPT !.todo = @ \ {n}, !.cursor = @ + x])
  BY <1>1, <1>4
<1>6. /\ Active(p) /\ Goes(p) /\ amid' = amid /\ At(p, "import", "insert")'
      /\ request'[p].id = request[p].id /\ request'[p].wanted = request[p].wanted
      /\ request'[p].cursor = request[p].cursor + x
      /\ request'[p].todo = request[p].todo \ {n}
      /\ request'[p].found = request[p].found
  BY <1>2, <1>5, Inserts
<1> QED BY <1>1, <1>2, <1>3, <1>4, <1>6

LEMMA LoseStep ==
  ASSUME BaseInv, NEW p \in Requests, LoseRow(p)
  PROVE  /\ Active(p) /\ Goes(p) /\ amid' = amid /\ UNCHANGED books
         /\ At(p, "import", "insert") /\ At(p, "import", "insert")'
         /\ request'[p].id = request[p].id /\ request'[p].wanted = request[p].wanted
         /\ request'[p].cursor = request[p].cursor
         /\ request'[p].todo \subseteq request[p].todo /\ request'[p].found = TRUE
<1>1. PICK n \in request[p].todo :
        Becomes(p, [request[p] EXCEPT !.todo = @ \ {n}, !.found = TRUE])
  BY DEF LoseRow
<1>2. At(p, "import", "insert")
  BY DEF LoseRow
<1>3. /\ Active(p) /\ Goes(p) /\ amid' = amid /\ At(p, "import", "insert")'
      /\ request'[p].id = request[p].id /\ request'[p].wanted = request[p].wanted
      /\ request'[p].cursor = request[p].cursor + 0
      /\ request'[p].todo = request[p].todo \ {n}
      /\ request'[p].found = TRUE
  <2>1. 0 \in Int
    OBVIOUS
  <2> QED BY <1>1, <1>2, <2>1, Inserts
<1>4. request[p].cursor \in Int
  BY <1>2, Importing DEF At
<1> QED BY <1>2, <1>3, <1>4 DEF LoseRow

LEMMA EndStep ==
  ASSUME BaseInv, NEW p \in Requests, Finish(p), Active(p)
  PROVE  Goes(p) /\ request'[p] = Done /\ request'[p].op = "done"
BY Finishing DEF BaseInv


LEMMA CreateBegins ==
  ASSUME BaseInv, NEW p \in Requests, NEW type \in Types, NEW a \in Accounts \cup {NoAccount},
         BeginCreateGoal(p, type, a)
  PROVE  Goes(p) /\ Fresh(p) /\ request'[p].op = "createGoal"
<1>1. PICK b \in Int : b = IF a = NoAccount THEN 0 ELSE balance[a]
  BY DEF BaseInv, BooksTyped
<1>2. PICK w : w = [type |-> type, link |-> a, to |-> b]
  OBVIOUS
<1> DEFINE q == [Idle EXCEPT !.op = "createGoal", !.at = "write", !.wanted = w]
<1>3. ASSUME NEW i, Shape(i), NEW r,
             r = [i EXCEPT !.op = "createGoal", !.at = "write", !.wanted = w]
      PROVE  Shape(r) /\ r.op = "createGoal" /\ r.at = "write" /\ r.wanted = w
  BY <1>3 DEF Shape
<1>4. Shape(q) /\ q.op = "createGoal" /\ q.at = "write" /\ q.wanted = w
  BY <1>3, IdleIs
<1>5. Begin(p, q)
  BY <1>1, <1>2 DEF BeginCreateGoal
<1> HIDE DEF q
<1>6. a = NoAccount \/ a \in Fits[type]
  BY DEF BeginCreateGoal
<1>7. FitsCreate(q)
  BY <1>1, <1>2, <1>4, <1>6 DEF FitsCreate
<1>8. Fit(q)
  BY <1>4, <1>7 DEF Fit, Ops, FitsAnchor, FitsImport, FitsUpdate, FitsContribute
<1> QED BY <1>4, <1>5, <1>8, Beginning DEF BaseInv

LEMMA UpdateBegins ==
  ASSUME BaseInv, NEW p \in Requests, NEW g \in 1 .. NumGoals, NEW type \in Types \cup {None},
         NEW link \in Accounts \cup {NoAccount}, BeginUpdateGoal(p, g, type, link)
  PROVE  Goes(p) /\ Fresh(p) /\ request'[p].op = "updateGoal"
<1>1. PICK goal \in Goal : goal = goals[g]
  BY DEF BaseInv, GoalsTyped
<1>2. PICK w : w = [type |-> type, link |-> link, from |-> 0, to |-> 0]
  OBVIOUS
<1>3. PICK at : at = IF link = goal.account THEN "save"
                     ELSE IF link = NoAccount THEN "readOld" ELSE "readNew"
  OBVIOUS
<1> DEFINE q == [Idle EXCEPT !.op = "updateGoal", !.id = g, !.doc = goal, !.wanted = w,
                             !.at = at]
<1>4. ASSUME NEW i, Shape(i), NEW r,
             r = [i EXCEPT !.op = "updateGoal", !.id = g, !.doc = goal, !.wanted = w, !.at = at]
      PROVE  /\ Shape(r) /\ r.op = "updateGoal" /\ r.at = at /\ r.id = g /\ r.doc = goal
             /\ r.wanted = w
  BY <1>4 DEF Shape
<1>5. /\ Shape(q) /\ q.op = "updateGoal" /\ q.at = at /\ q.id = g /\ q.doc = goal
      /\ q.wanted = w
  BY <1>4, IdleIs
<1>6. Begin(p, q)
  BY <1>1, <1>2, <1>3 DEF BeginUpdateGoal
<1> HIDE DEF q
<1>7. link = goal.account =>
        /\ type # None
        /\ Linked(goal) => type \in {None, goal.type} \/ goal.account \in Fits[type]
  BY <1>1 DEF BeginUpdateGoal
<1>8. /\ w \in [type : Types \cup {None}, link : Accounts \cup {NoAccount}, from : Int, to : Int]
      /\ w.type = type /\ w.link = link
  BY <1>2
<1>9. FitsUpdate(q)
  <2>1. CASE link = goal.account
    BY <1>3, <1>5, <1>7, <1>8, <2>1 DEF FitsUpdate
  <2>2. CASE link # goal.account /\ link = NoAccount
    BY <1>3, <1>5, <1>8, <2>2 DEF FitsUpdate, Linked
  <2>3. CASE link # goal.account /\ link # NoAccount
    BY <1>3, <1>5, <1>8, <2>3 DEF FitsUpdate
  <2> QED BY <2>1, <2>2, <2>3
<1>10. Fit(q)
  BY <1>5, <1>9 DEF Fit, Ops, FitsAnchor, FitsImport, FitsCreate, FitsContribute
<1> QED BY <1>5, <1>6, <1>10, Beginning DEF BaseInv

\* An updating handler.
LEMMA Updating ==
  ASSUME BaseInv, NEW p \in Requests, request[p].op = "updateGoal"
  PROVE  /\ Active(p) /\ Fit(request[p]) /\ FitsUpdate(request[p])
         /\ request[p].id \in 1 .. NumGoals
BY DEF BaseInv, AllFit, Fit, FitsUpdate, Active

\* What it reads of an account is all that changes in memory.
LEMMA Reads ==
  ASSUME BaseInv, NEW p \in Requests, request[p].op = "updateGoal", NEW w, NEW step, NEW n,
         Becomes(p, n), n = [request[p] EXCEPT !.wanted = w, !.at = step],
         NEW b \in Int,
         \/ w = [request[p].wanted EXCEPT !.to = b]
         \/ w = [request[p].wanted EXCEPT !.from = b],
         step \in {"readOld", "write"},
         request[p].at \in {"readNew", "readOld"}, step = "readOld" => Linked(request[p].doc),
         w.link # NoAccount => w.link \in Fits[NextType(request[p])]
  PROVE  Goes(p) /\ amid' = amid /\ request'[p].op = "updateGoal"
<1>1. PICK q : q = request[p]
  OBVIOUS
<1>2. q.op = "updateGoal" /\ Active(p) /\ Fit(q) /\ FitsUpdate(q)
  BY <1>1, Updating
<1>3. /\ Shape(n) /\ n.op = "updateGoal" /\ n.at = step /\ n.id = q.id /\ n.doc = q.doc
      /\ n.wanted = w
  <2>1. ASSUME NEW i, Shape(i), NEW r, r = [i EXCEPT !.wanted = w, !.at = step]
        PROVE  /\ Shape(r) /\ r.op = i.op /\ r.at = step /\ r.id = i.id /\ r.doc = i.doc
               /\ r.wanted = w
    BY <2>1 DEF Shape
  <2> QED BY <1>1, <1>2, <2>1 DEF Fit
<1>4. /\ w \in [type : Types \cup {None}, link : Accounts \cup {NoAccount}, from : Int, to : Int]
      /\ w.type = q.wanted.type /\ w.link = q.wanted.link
  BY <1>1, <1>2 DEF FitsUpdate
<1>5. NextType(n) = NextType(q)
  BY <1>3, <1>4 DEF NextType
<1>6. FitsUpdate(n)
  BY <1>1, <1>2, <1>3, <1>4, <1>5 DEF FitsUpdate
<1>7. Fit(n)
  BY <1>3, <1>6 DEF Fit, Ops, FitsAnchor, FitsImport, FitsCreate, FitsContribute
<1>8. AllFit /\ Active(p) /\ Becomes(p, n) /\ n.op = request[p].op /\ n.id = request[p].id
  BY <1>1, <1>2, <1>3 DEF BaseInv
<1>9. Goes(p) /\ request'[p] = n /\ amid' = amid
  BY <1>7, <1>8, Becoming
<1> QED BY <1>3, <1>9

LEMMA ReadNewStep ==
  ASSUME BaseInv, NEW p \in Requests, ReadNew(p)
  PROVE  Active(p) /\ Goes(p)
<1>1. PICK q : q = request[p]
  OBVIOUS
<1>2. q.op = "updateGoal" /\ q.at = "readNew" /\ Active(p) /\ Fit(q) /\ FitsUpdate(q)
  BY <1>1, Updating DEF ReadNew, At
<1>3. PICK a \in Accounts : a = q.wanted.link
  BY <1>2 DEF FitsUpdate
<1>4. CASE archived[a] \/ a \notin Fits[NextType(q)]
  BY <1>1, <1>2, <1>3, <1>4, EndStep DEF ReadNew
<1>5. CASE ~(archived[a] \/ a \notin Fits[NextType(q)])
  <2>1. PICK b \in Int : b = balance[a]
    BY DEF BaseInv, BooksTyped
  <2>2. PICK step : step = IF Linked(q.doc) THEN "readOld" ELSE "write"
    OBVIOUS
  <2>3. PICK w : w = [q.wanted EXCEPT !.to = b]
    OBVIOUS
  <2>4. PICK n : n = [q EXCEPT !.wanted = w, !.at = step]
    OBVIOUS
  <2>5. Becomes(p, [q EXCEPT !.wanted.to = b, !.at = step])
    BY <1>1, <1>3, <1>5, <2>1, <2>2 DEF ReadNew
  <2>6. [q EXCEPT !.wanted.to = b, !.at = step] = n
    BY <1>2, <2>3, <2>4 DEF Fit, Shape
  <2>7. w.link = q.wanted.link
    BY <1>2, <2>3 DEF FitsUpdate
  <2> QED BY <1>1, <1>2, <1>3, <1>5, <2>2, <2>3, <2>4, <2>5, <2>6, <2>7, Reads
<1> QED BY <1>4, <1>5

LEMMA ReadOldStep ==
  ASSUME BaseInv, NEW p \in Requests, ReadOld(p)
  PROVE  Active(p) /\ Goes(p)
<1>1. PICK q : q = request[p]
  OBVIOUS
<1>2. q.op = "updateGoal" /\ q.at = "readOld" /\ Active(p) /\ Fit(q) /\ FitsUpdate(q)
  BY <1>1, Updating DEF ReadOld, At
<1>3. q.doc.account \in Accounts
  BY <1>2 DEF FitsUpdate, Goal, Linked
<1>4. PICK b \in Int : b = balance[q.doc.account]
  BY <1>3 DEF BaseInv, BooksTyped
<1>5. PICK w : w = [q.wanted EXCEPT !.from = b]
  OBVIOUS
<1>6. PICK n : n = [q EXCEPT !.wanted = w, !.at = "write"]
  OBVIOUS
<1>7. Becomes(p, [q EXCEPT !.wanted.from = b, !.at = "write"])
  BY <1>1, <1>4 DEF ReadOld
<1>8. [q EXCEPT !.wanted.from = b, !.at = "write"] = n
  BY <1>2, <1>5, <1>6 DEF Fit, Shape
<1>9. w.link = q.wanted.link
  BY <1>2, <1>5 DEF FitsUpdate
<1>10. w.link # NoAccount => w.link \in Fits[NextType(q)]
  BY <1>2, <1>9 DEF FitsUpdate
<1>11. PICK step : step = "write"
  OBVIOUS
<1> QED BY <1>1, <1>2, <1>5, <1>6, <1>7, <1>8, <1>10, <1>11, Reads

LEMMA ContributeBegins ==
  ASSUME BaseInv, NEW p \in Requests, NEW g \in 1 .. NumGoals, NEW x \in Gifts,
         Contribute(p, g, x)
  PROVE  Goes(p) /\ Fresh(p) /\ request'[p].op \in {"done", "contribute"}
<1>1. CASE Begin(p, Done)
  BY <1>1, DoneStep
<1> DEFINE q == [Idle EXCEPT !.op = "contribute", !.at = "look", !.id = g, !.wanted = x]
<1>2. CASE Begin(p, q)
  <2>1. ASSUME NEW i, Shape(i), NEW r,
               r = [i EXCEPT !.op = "contribute", !.at = "look", !.id = g, !.wanted = x]
        PROVE  Shape(r) /\ r.op = "contribute" /\ r.at = "look" /\ r.id = g /\ r.wanted = x
    BY <2>1 DEF Shape
  <2>2. Shape(q) /\ q.op = "contribute" /\ q.at = "look" /\ q.id = g /\ q.wanted = x
    BY <2>1, IdleIs
  <2> HIDE DEF q
  <2>3. Fit(q)
    BY <2>2, GoalsAssumption
    DEF Fit, Ops, FitsAnchor, FitsImport, FitsCreate, FitsUpdate, FitsContribute
  <2> QED BY <1>2, <2>2, <2>3, Beginning DEF BaseInv
<1> QED BY <1>1, <1>2 DEF Contribute

LEMMA LookStep ==
  ASSUME BaseInv, NEW p \in Requests, ContributeLook(p)
  PROVE  Active(p) /\ Goes(p)
<1>1. PICK q : q = request[p]
  OBVIOUS
<1>2. q.op = "contribute" /\ Active(p) /\ Fit(q) /\ FitsContribute(q)
  BY <1>1 DEF BaseInv, AllFit, Fit, ContributeLook, At, Active
<1>3. PICK step : step = "again"
  OBVIOUS
<1> DEFINE n == [q EXCEPT !.at = step]
<1>4. ASSUME NEW r, r = [q EXCEPT !.at = step]
      PROVE  /\ Shape(r) /\ r.op = "contribute" /\ r.at = step /\ r.id = q.id
             /\ r.wanted = q.wanted
  BY <1>2, <1>4 DEF Fit, Shape
<1>5. /\ Shape(n) /\ n.op = "contribute" /\ n.at = "again" /\ n.id = q.id
      /\ n.wanted = q.wanted
  BY <1>3, <1>4
<1>6. Becomes(p, n) \/ Finish(p)
  BY <1>1, <1>3 DEF ContributeLook, GoTo
<1> HIDE DEF n
<1>7. Fit(n)
  BY <1>2, <1>5 DEF Fit, Ops, FitsAnchor, FitsImport, FitsCreate, FitsUpdate, FitsContribute
<1>8. CASE Becomes(p, n)
  BY <1>1, <1>2, <1>5, <1>7, <1>8, Becoming DEF BaseInv
<1> QED BY <1>2, <1>6, <1>8, EndStep

-----------------------------------------------------------------------------
(* Types of the books and of the goals.                                    *)

BookSteps(p) ==
  /\ (Fresh(p) /\ BookRequest(p)) \/ (Active(p) /\ BookStep(p))
  /\ Follow /\ UNCHANGED <<goals, stale, mixed>>

GoalSteps(p) == (Fresh(p) /\ GoalRequest(p)) \/ (Active(p) /\ GoalStep(p))

LEMMA BookGoes ==
  ASSUME BaseInv, NEW p \in Requests, BookSteps(p)
  PROVE  Goes(p)
<1>1. CASE BookRequest(p)
  BY <1>1, EnterStep, EraseStep, DoneStep, AnchorBegins, ImportBegins DEF BookRequest, Archive
<1>2. CASE Active(p) /\ BookStep(p)
  BY <1>2, AnchorSums, Dedupes, InsertStep, LoseStep, EndStep
  DEF BookStep, AnchorStamp, ApplyImport, ImportDies
<1> QED BY <1>1, <1>2 DEF BookSteps

LEMMA GoalGoes ==
  ASSUME BaseInv, NEW p \in Requests, GoalSteps(p)
  PROVE  Goes(p) /\ UNCHANGED books
<1>1. CASE GoalRequest(p)
  <2>1. Goes(p)
    BY <1>1, CreateBegins, UpdateBegins, ContributeBegins, DoneStep DEF GoalRequest, RemoveGoal
  <2> QED
    BY <1>1, <2>1 DEF GoalRequest, BeginCreateGoal, BeginUpdateGoal, Contribute, RemoveGoal
<1>2. CASE Active(p) /\ GoalStep(p)
  <2>1. Goes(p)
    BY <1>2, ReadNewStep, ReadOldStep, LookStep, EndStep
    DEF GoalStep, CreateGoal, Relink, SaveGoal, ContributeAgain
  <2> QED
    BY <1>2, <2>1 DEF GoalStep, CreateGoal, ReadNew, ReadOld, Relink, SaveGoal,
       ContributeLook, ContributeAgain
<1> QED BY <1>1, <1>2 DEF GoalSteps

LEMMA NextSteps ==
  ASSUME BaseInv, Next
  PROVE  \E p \in Requests : Goes(p) /\ (BookSteps(p) \/ (GoalSteps(p) /\ UNCHANGED books))
<1>1. PICK p \in Requests : BookSteps(p) \/ GoalSteps(p)
  BY DEF Next, BookSteps, GoalSteps
<1> QED BY <1>1, BookGoes, GoalGoes

LEMMA RowsTyped ==
  ASSUME BooksTyped, NEW r, Row(r)
  PROVE  IsFiniteSet(rows \cup {r}) /\ \A s \in rows \cup {r} : Row(s)
BY FS_AddElement DEF BooksTyped

LEMMA BooksStayTyped ==
  ASSUME BaseInv, NEW p \in Requests, BookSteps(p)
  PROVE  BooksTyped' /\ base' = base
<1> USE DEF BaseInv
<1>1. ASSUME NEW a \in Accounts, NEW k \in Keys, Enter(p, a, k)
      PROVE  BooksTyped' /\ base' = base
  <2>1. Row([account |-> a, key |-> k, by |-> p, row |-> 0, torn |-> FALSE])
    BY DEF Row
  <2>2. IsFiniteSet(rows') /\ \A r \in rows' : Row(r)
    BY <1>1, <2>1, RowsTyped DEF Enter
  <2> QED BY <1>1, <2>2, AccountsAssumption DEF Enter, BooksTyped
<1>2. ASSUME NEW r \in rows, Erase(p, r)
      PROVE  BooksTyped' /\ base' = base
  <2>1. PICK a \in Accounts : a = r.account
    BY DEF BooksTyped, Row
  <2>2. PICK x \in Int : x = Amount[r.key]
    BY AccountsAssumption DEF BooksTyped, Row
  <2>3. IsFiniteSet(rows') /\ \A s \in rows' : Row(s)
    BY <1>2, FS_RemoveElement DEF Erase, BooksTyped
  <2>4. balance' = [balance EXCEPT ![a] = @ - x]
    BY <1>2, <2>1, <2>2 DEF Erase
  <2>5. \A b \in Accounts : balance[b] \in Int
    BY DEF BooksTyped
  <2>6. balance' \in [Accounts -> Int]
    BY <2>4, <2>5 DEF BooksTyped
  <2> QED BY <1>2, <2>3, <2>6 DEF Erase, BooksTyped
<1>3. ASSUME NEW a \in Accounts, Archive(p, a)
      PROVE  BooksTyped' /\ base' = base
  BY <1>3 DEF Archive, BooksTyped
<1>4. ASSUME UNCHANGED books
      PROVE  BooksTyped' /\ base' = base
  BY <1>4 DEF books, BooksTyped
<1>5. ASSUME AnchorStamp(p)
      PROVE  BooksTyped' /\ base' = base
  <2>1. request[p].wanted \in Int
    BY <1>5 DEF AnchorStamp, At, AllFit, Fit, FitsAnchor
  <2>2. opening' \in [Accounts -> Int \cup {Unset}]
    BY <1>5, <2>1 DEF AnchorStamp, BooksTyped
  <2> QED BY <1>5, <2>2 DEF AnchorStamp, BooksTyped
<1>6. ASSUME InsertRow(p)
      PROVE  BooksTyped' /\ base' = base
  <2>1. PICK n \in request[p].todo :
          /\ request[p].wanted[n] \in Keys /\ At(p, "import", "insert")
          /\ rows' = rows \cup {[account |-> request[p].id, key |-> request[p].wanted[n],
                                 by |-> p, row |-> n,
                                 torn |-> Overlapped(p, "import", request[p].id)]}
    BY <1>6, InsertStep
  <2>2. request[p].id \in Accounts
    BY <2>1, Importing DEF At
  <2>3. Row([account |-> request[p].id, key |-> request[p].wanted[n], by |-> p, row |-> n,
             torn |-> Overlapped(p, "import", request[p].id)])
    BY <2>1, <2>2 DEF Row
  <2>4. IsFiniteSet(rows') /\ \A r \in rows' : Row(r)
    BY <2>1, <2>3, RowsTyped
  <2> QED BY <1>6, <2>4 DEF InsertRow, BooksTyped
<1>7. ASSUME ApplyImport(p)
      PROVE  BooksTyped' /\ base' = base
  <2>1. request[p].id \in Accounts /\ request[p].cursor \in Int
    BY <1>7, Importing DEF ApplyImport, At
  <2> QED BY <1>7, <2>1 DEF ApplyImport, BooksTyped
<1>8. ASSUME ImportDies(p)
      PROVE  BooksTyped' /\ base' = base
  BY <1>8 DEF ImportDies, BooksTyped
<1> HIDE DEF BaseInv
<1>9. CASE BookRequest(p)
  BY <1>1, <1>2, <1>3, <1>4, <1>9 DEF BookRequest, BeginAnchor, BeginImport
<1>10. CASE BookStep(p)
  BY <1>4, <1>5, <1>6, <1>7, <1>8, <1>10 DEF BookStep, AnchorSum, Dedupe, LoseRow
<1> QED BY <1>9, <1>10 DEF BookSteps

\* The balance of an account moves, and what is owed to the goals on it.
LEMMA Follows ==
  ASSUME BooksTyped, BooksTyped', GoalsTyped, Follow, UNCHANGED goals
  PROVE  /\ GoalsTyped'
         /\ \A g \in 1 .. NumGoals :
              owed'[g] = IF Linked(goals[g])
                         THEN owed[g] + balance'[goals[g].account] - balance[goals[g].account]
                         ELSE owed[g]
<1>1. owed' = [g \in 1 .. NumGoals |->
                IF Linked(goals[g])
                THEN owed[g] + balance'[goals[g].account] - balance[goals[g].account]
                ELSE owed[g]]
  BY DEF Follow, GoalsTyped
<1>2. \A g \in 1 .. NumGoals : Linked(goals[g]) => goals[g].account \in Accounts
  BY DEF GoalsTyped, Goal, Linked
<1>3. \A g \in 1 .. NumGoals : owed'[g] \in Int
  <2> TAKE g \in 1 .. NumGoals
  <2>1. owed[g] \in Int
    BY DEF GoalsTyped
  <2>2. CASE Linked(goals[g])
    <3>1. PICK a \in Accounts : a = goals[g].account
      BY <1>2, <2>2
    <3>2. balance[a] \in Int /\ balance'[a] \in Int
      BY DEF BooksTyped
    <3> QED BY <1>1, <2>1, <2>2, <3>1, <3>2
  <2> QED BY <1>1, <2>1, <2>2
<1>4. owed' \in [1 .. NumGoals -> Int]
  BY <1>1, <1>3
<1> QED BY <1>1, <1>4 DEF GoalsTyped

\* One goal is written, and what is owed to it.
LEMMA GoalPut ==
  ASSUME GoalsTyped, NEW g \in 1 .. NumGoals, NEW next \in Goal, NEW due \in Int,
         goals' = [goals EXCEPT ![g] = next], owed' = [owed EXCEPT ![g] = due],
         ~Linked(next) => next.baseline = 0, next.state # "free"
  PROVE  /\ GoalsTyped' /\ goals'[g] = next /\ owed'[g] = due
         /\ \A h \in 1 .. NumGoals : h # g => goals'[h] = goals[h] /\ owed'[h] = owed[h]
BY DEF GoalsTyped, Linked

\* Nothing changes but what a field holds.
LEMMA SavedGoal ==
  ASSUME NEW goal \in Goal, NEW read, NEW type \in Types \cup {None}, NEW next,
         next = Saved(goal, read, [type |-> type])
  PROVE  /\ next \in Goal /\ next.state = goal.state /\ next.account = goal.account
         /\ next.current = goal.current /\ next.baseline = goal.baseline
         /\ next.type = IF type # read.type THEN type ELSE goal.type
<1>1. DOMAIN goal = {"state", "type", "current", "account", "baseline"}
  BY DEF Goal
<1>2. next = [f \in {"state", "type", "current", "account", "baseline"} |->
               IF f = "type" /\ type # read.type THEN type ELSE goal[f]]
  BY <1>1 DEF Saved
<1>3. /\ next = [state |-> goal.state, type |-> next.type, current |-> goal.current,
                 account |-> goal.account, baseline |-> goal.baseline]
      /\ next.type = IF type # read.type THEN type ELSE goal.type
  BY <1>2
<1> QED BY <1>3 DEF Goal


\* What a goal is created as, linked at the balance that was read.
LEMMA CreateStep ==
  ASSUME BaseInv, NEW p \in Requests, CreateGoal(p)
  PROVE  \E g \in 1 .. NumGoals, next \in Goal :
           /\ GoalsTyped' /\ goals[g].state = "free" /\ goals'[g] = next
           /\ owed' = owed /\ mixed' = mixed
           /\ \A h \in 1 .. NumGoals : h # g => goals'[h] = goals[h]
           /\ next.state = "live" /\ next.current = 0 /\ owed[g] = 0
           /\ IF Linked(next) THEN next.account \in Fits[next.type] ELSE next.baseline = 0
           /\ stale' = IF Linked(next) /\ balance[next.account] # next.baseline
                       THEN stale \cup {g} ELSE stale
<1>1. PICK w : w = request[p].wanted
  OBVIOUS
<1>2. /\ w \in [type : Types, link : Accounts \cup {NoAccount}, to : Int]
      /\ IF w.link = NoAccount THEN w.to = 0 ELSE w.link \in Fits[w.type]
  BY <1>1 DEF CreateGoal, At, BaseInv, AllFit, Fit, FitsCreate
<1>3. PICK next : next = [state |-> "live", type |-> w.type, current |-> 0,
                          account |-> w.link, baseline |-> w.to]
  OBVIOUS
<1>4. /\ next \in Goal /\ next.state = "live" /\ next.current = 0 /\ next.account = w.link
      /\ next.type = w.type /\ next.baseline = w.to
  BY <1>2, <1>3 DEF Goal
<1>5. PICK g \in Free(goals) :
        /\ goals' = [goals EXCEPT ![g] = next]
        /\ stale' = IF Linked(goals'[g]) /\ balance[w.link] # w.to THEN stale \cup {g} ELSE stale
  BY <1>1, <1>3 DEF CreateGoal
<1>6. g \in 1 .. NumGoals /\ goals[g].state = "free" /\ owed[g] = 0
  BY <1>5 DEF Free, BaseInv, GoalsTyped
<1>7. owed' = owed /\ mixed' = mixed /\ owed' = [owed EXCEPT ![g] = 0]
  BY <1>6 DEF CreateGoal, BaseInv, GoalsTyped
<1>8. (~Linked(next) => next.baseline = 0) /\ next.state # "free" /\ 0 \in Int
  BY <1>2, <1>4 DEF Linked
<1>9. /\ GoalsTyped' /\ goals'[g] = next
      /\ \A h \in 1 .. NumGoals : h # g => goals'[h] = goals[h]
  BY <1>4, <1>5, <1>6, <1>7, <1>8, GoalPut DEF BaseInv
<1> QED BY <1>2, <1>4, <1>5, <1>6, <1>7, <1>8, <1>9 DEF Linked

\* What a goal is relinked to.
Relinked(q, goal, next) ==
  /\ next.state = goal.state /\ next.account = q.wanted.link
  /\ next.type = IF q.wanted.type = None THEN goal.type ELSE q.wanted.type
  /\ next.current = IF Linked(q.doc) THEN Frozen(q) ELSE goal.current
  /\ next.baseline = Baseline(q)

LEMMA RelinkStep ==
  ASSUME BaseInv, NEW p \in Requests, Relink(p)
  PROVE  /\ GoalsTyped' /\ owed' = owed /\ At(p, "updateGoal", "write")
         /\ \/ UNCHANGED <<goals, stale, mixed>>
            \/ LET q == request[p]
                   goal == goals[q.id]
                   w == q.wanted
               IN  /\ Pinned(q, goal) /\ Relinked(q, goal, goals'[q.id])
                   /\ \A h \in 1 .. NumGoals : h # q.id => goals'[h] = goals[h]
                   /\ stale' = IF \/ w.link # NoAccount /\ balance[w.link] # w.to
                                  \/ Linked(q.doc) /\ balance[q.doc.account] # w.from
                                  \/ goal.baseline # q.doc.baseline
                               THEN stale \cup {q.id} ELSE stale
                   /\ mixed' = IF goal.type # q.doc.type THEN mixed \cup {q.id} ELSE mixed
<1>1. PICK q : q = request[p]
  OBVIOUS
<1>2. /\ q.at = "write" /\ FitsUpdate(q) /\ q.op = "updateGoal" /\ q.id \in 1 .. NumGoals
      /\ q.doc \in Goal
      /\ q.wanted \in [type : Types \cup {None}, link : Accounts \cup {NoAccount},
                       from : Int, to : Int]
  BY <1>1, Updating DEF Relink, At, FitsUpdate
<1>3. PICK goal \in Goal : goal = goals[q.id]
  BY <1>2 DEF BaseInv, GoalsTyped
<1>4. PICK next : next = [goal EXCEPT
        !.type = IF q.wanted.type = None THEN @ ELSE q.wanted.type,
        !.account = q.wanted.link,
        !.current = IF Linked(q.doc) THEN Frozen(q) ELSE @,
        !.baseline = Baseline(q)]
  OBVIOUS
<1>5. owed' = owed /\ At(p, "updateGoal", "write")
  BY DEF Relink
<1>6. CASE UNCHANGED <<goals, stale, mixed>>
  BY <1>5, <1>6 DEF BaseInv, GoalsTyped
<1>7. CASE Pinned(q, goal) /\ goals' = [goals EXCEPT ![q.id] = next]
           /\ stale' = (IF \/ q.wanted.link # NoAccount /\ balance[q.wanted.link] # q.wanted.to
                           \/ Linked(q.doc) /\ balance[q.doc.account] # q.wanted.from
                           \/ goal.baseline # q.doc.baseline
                        THEN stale \cup {q.id} ELSE stale)
           /\ mixed' = (IF goal.type # q.doc.type THEN mixed \cup {q.id} ELSE mixed)
  <2>1. Frozen(q) \in Int /\ Baseline(q) \in Int
    BY <1>2 DEF Frozen, Baseline, Goal
  <2>2. Relinked(q, goal, next) /\ next \in Goal
    BY <1>2, <1>3, <1>4, <2>1 DEF Relinked, Goal
  <2>3. ~Linked(next) => next.baseline = 0
    BY <2>2 DEF Linked, Relinked, Baseline
  <2>4. next.state # "free"
    BY <1>7, <2>2 DEF Pinned, Relinked
  <2>5. owed[q.id] \in Int /\ owed' = [owed EXCEPT ![q.id] = owed[q.id]]
    BY <1>2, <1>5 DEF BaseInv, GoalsTyped
  <2>6. GoalsTyped' /\ goals'[q.id] = next
        /\ \A h \in 1 .. NumGoals : h # q.id => goals'[h] = goals[h]
    BY <1>2, <1>7, <2>2, <2>3, <2>4, <2>5, GoalPut DEF BaseInv
  <2> QED BY <1>1, <1>3, <1>5, <1>7, <2>2, <2>6
<1> QED BY <1>1, <1>3, <1>4, <1>6, <1>7 DEF Relink

LEMMA SaveStep ==
  ASSUME BaseInv, NEW p \in Requests, SaveGoal(p)
  PROVE  /\ GoalsTyped' /\ owed' = owed /\ stale' = stale /\ At(p, "updateGoal", "save")
         /\ \/ UNCHANGED <<goals, mixed>>
            \/ LET q == request[p]
                   goal == goals[q.id]
                   next == goals'[q.id]
               IN  /\ Live(goals, q.id)
                   /\ next.state = goal.state /\ next.account = goal.account
                   /\ next.current = goal.current /\ next.baseline = goal.baseline
                   /\ next.type = IF q.wanted.type # q.doc.type THEN q.wanted.type ELSE goal.type
                   /\ \A h \in 1 .. NumGoals : h # q.id => goals'[h] = goals[h]
                   /\ mixed' = IF goal.account # q.doc.account THEN mixed \cup {q.id} ELSE mixed
<1>1. PICK q : q = request[p]
  OBVIOUS
<1>2. /\ q.at = "save" /\ FitsUpdate(q) /\ q.op = "updateGoal" /\ q.id \in 1 .. NumGoals
      /\ q.wanted.type \in Types \cup {None}
  BY <1>1, Updating DEF SaveGoal, At, FitsUpdate
<1>3. PICK goal \in Goal : goal = goals[q.id]
  BY <1>2 DEF BaseInv, GoalsTyped
<1>4. PICK next : next = Saved(goal, q.doc, [type |-> q.wanted.type])
  OBVIOUS
<1>5. owed' = owed /\ stale' = stale /\ At(p, "updateGoal", "save")
  BY DEF SaveGoal
<1>6. CASE UNCHANGED <<goals, mixed>>
  BY <1>5, <1>6 DEF BaseInv, GoalsTyped
<1>7. CASE /\ Live(goals, q.id) /\ goals' = [goals EXCEPT ![q.id] = next]
           /\ mixed' = IF goal.account # q.doc.account THEN mixed \cup {q.id} ELSE mixed
  <2>1. /\ next \in Goal /\ next.state = goal.state /\ next.account = goal.account
        /\ next.current = goal.current /\ next.baseline = goal.baseline
        /\ next.type = IF q.wanted.type # q.doc.type THEN q.wanted.type ELSE goal.type
    BY <1>2, <1>4, SavedGoal
  <2>2. (~Linked(next) => next.baseline = 0) /\ next.state # "free"
    BY <1>2, <1>3, <1>7, <2>1 DEF BaseInv, GoalsTyped, Linked, Live
  <2>3. owed[q.id] \in Int /\ owed' = [owed EXCEPT ![q.id] = owed[q.id]]
    BY <1>2, <1>5 DEF BaseInv, GoalsTyped
  <2>4. GoalsTyped' /\ goals'[q.id] = next
        /\ \A h \in 1 .. NumGoals : h # q.id => goals'[h] = goals[h]
    BY <1>2, <1>7, <2>1, <2>2, <2>3, GoalPut DEF BaseInv
  <2> QED BY <1>1, <1>3, <1>5, <1>7, <2>1, <2>4
<1> QED BY <1>1, <1>3, <1>4, <1>6, <1>7 DEF SaveGoal

\* A contribution reaches a goal that is not linked.
LEMMA IncrementStep ==
  ASSUME BaseInv, NEW g \in 1 .. NumGoals, Open(goals[g]), NEW x \in Int, Increment(g, x)
  PROVE  /\ GoalsTyped' /\ owed'[g] = owed[g] + x
         /\ goals'[g].state = "live" /\ ~Linked(goals'[g])
         /\ goals'[g].current = goals[g].current + x
         /\ \A h \in 1 .. NumGoals : h # g => goals'[h] = goals[h] /\ owed'[h] = owed[h]
<1>1. PICK goal \in Goal : goal = goals[g]
  BY DEF BaseInv, GoalsTyped
<1>2. PICK next : next = [goal EXCEPT !.current = @ + x]
  OBVIOUS
<1>3. /\ next \in Goal /\ next.state = goal.state /\ next.account = goal.account
      /\ next.baseline = goal.baseline /\ next.current = goal.current + x
  BY <1>2 DEF Goal
<1>4. goals' = [goals EXCEPT ![g] = next]
  BY <1>1, <1>2 DEF Increment
<1>5. PICK due \in Int : due = owed[g] + x
  BY DEF BaseInv, GoalsTyped
<1>6. owed' = [owed EXCEPT ![g] = due]
  BY <1>5 DEF Increment
<1>7. (~Linked(next) => next.baseline = 0) /\ next.state # "free" /\ ~Linked(next)
  BY <1>1, <1>3 DEF BaseInv, GoalsTyped, Linked, Open
<1>8. /\ GoalsTyped' /\ goals'[g] = next /\ owed'[g] = due
      /\ \A h \in 1 .. NumGoals : h # g => goals'[h] = goals[h] /\ owed'[h] = owed[h]
  BY <1>3, <1>4, <1>6, <1>7, GoalPut DEF BaseInv
<1> QED BY <1>1, <1>3, <1>5, <1>7, <1>8 DEF Open

LEMMA RemoveStep ==
  ASSUME BaseInv, NEW p \in Requests, NEW g \in 1 .. NumGoals, RemoveGoal(p, g)
  PROVE  /\ GoalsTyped' /\ owed' = owed /\ goals'[g].state = "gone"
         /\ \A h \in 1 .. NumGoals : h # g => goals'[h] = goals[h]
<1>1. PICK goal \in Goal : goal = goals[g]
  BY DEF BaseInv, GoalsTyped
<1>2. PICK next : next = [goal EXCEPT !.state = "gone"]
  OBVIOUS
<1>3. /\ next \in Goal /\ next.state = "gone" /\ next.account = goal.account
      /\ next.baseline = goal.baseline
  BY <1>2 DEF Goal
<1>4. goals' = [goals EXCEPT ![g] = next] /\ owed' = owed
  BY <1>1, <1>2 DEF RemoveGoal
<1>5. ~Linked(next) => next.baseline = 0
  BY <1>1, <1>3 DEF BaseInv, GoalsTyped, Linked
<1>6. owed[g] \in Int /\ owed' = [owed EXCEPT ![g] = owed[g]]
  BY <1>4 DEF BaseInv, GoalsTyped
<1>7. next.state # "free"
  BY <1>3
<1> QED BY <1>3, <1>4, <1>5, <1>6, <1>7, GoalPut DEF BaseInv


LEMMA GoalsStayTyped ==
  ASSUME BaseInv, NEW p \in Requests, GoalSteps(p)
  PROVE  GoalsTyped'
<1>1. UNCHANGED progress => GoalsTyped'
  BY DEF progress, BaseInv, GoalsTyped
<1>2. CASE GoalRequest(p)
  <2>1. ASSUME NEW g \in 1 .. NumGoals, NEW x \in Gifts, Contribute(p, g, x)
        PROVE  GoalsTyped'
    <3>1. x \in Int
      BY GoalsAssumption
    <3>2. CASE Open(goals[g]) /\ Increment(g, x)
      BY <3>1, <3>2, IncrementStep
    <3>3. CASE UNCHANGED <<goals, owed>>
      BY <3>3 DEF BaseInv, GoalsTyped
    <3> QED BY <2>1, <3>2, <3>3 DEF Contribute
  <2> QED
    BY <1>1, <1>2, <2>1, RemoveStep DEF GoalRequest, BeginCreateGoal, BeginUpdateGoal
<1>3. CASE GoalStep(p)
  <2>1. ASSUME ContributeAgain(p)
        PROVE  GoalsTyped'
    <3>1. request[p].wanted \in Int /\ request[p].id \in 1 .. NumGoals
      BY <2>1 DEF ContributeAgain, At, BaseInv, AllFit, Fit, FitsContribute
    <3>2. CASE Open(goals[request[p].id]) /\ Increment(request[p].id, request[p].wanted)
      BY <3>1, <3>2, IncrementStep
    <3>3. CASE UNCHANGED <<goals, owed>>
      BY <3>3 DEF BaseInv, GoalsTyped
    <3> QED BY <2>1, <3>2, <3>3 DEF ContributeAgain
  <2> QED
    BY <1>1, <1>3, <2>1, CreateStep, RelinkStep, SaveStep
    DEF GoalStep, ReadNew, ReadOld, ContributeLook
<1> QED BY <1>2, <1>3 DEF GoalSteps

LEMMA BaseStep == BaseInv /\ Next => BaseInv'
<1> SUFFICES ASSUME BaseInv, Next PROVE BaseInv'
  OBVIOUS
<1>1. PICK p \in Requests : Goes(p) /\ (BookSteps(p) \/ (GoalSteps(p) /\ UNCHANGED books))
  BY NextSteps
<1>2. AllFit' /\ Witnessed'
  BY <1>1, WitnessedStep DEF BaseInv, Goes
<1>3. CASE BookSteps(p)
  <2>1. BooksTyped'
    BY <1>3, BooksStayTyped
  <2>2. GoalsTyped'
    BY <1>3, <2>1, Follows DEF BaseInv, BookSteps
  <2> QED BY <1>2, <2>1, <2>2 DEF BaseInv
<1>4. CASE GoalSteps(p) /\ UNCHANGED books
  <2>1. BooksTyped'
    BY <1>4 DEF BaseInv, BooksTyped, books
  <2>2. GoalsTyped'
    BY <1>4, GoalsStayTyped
  <2> QED BY <1>2, <2>1, <2>2 DEF BaseInv
<1> QED BY <1>1, <1>3, <1>4

-----------------------------------------------------------------------------
(* Goals: what is shown is what is owed, in an account of the goal's class.*)

GoalInv ==
  \A g \in 1 .. NumGoals :
    goals[g].state = "live" =>
      /\ g \notin stale => Progress(goals[g]) = owed[g]
      /\ Linked(goals[g]) /\ g \notin mixed => goals[g].account \in Fits[goals[g].type]

LEMMA GoalInvIs ==
  ASSUME GoalsTyped
  PROVE  GoalInv <=> ProgressKept /\ AccountFits
BY DEF GoalInv, ProgressKept, AccountFits, Live, GoalsTyped

\* What is shown of a goal does not depend on more than this.
LEMMA ProgressIs ==
  ASSUME NEW goal
  PROVE  /\ Progress(goal) =
              IF Linked(goal) THEN balance[goal.account] - goal.baseline ELSE goal.current
         /\ balance' = balance => Progress(goal)' = Progress(goal)
BY DEF Progress

\* The books move: goals follow their accounts.
LEMMA BooksKeepGoals ==
  ASSUME BaseInv, BaseInv', GoalInv, NEW p \in Requests, BookSteps(p)
  PROVE  GoalInv'
<1>1. UNCHANGED <<goals, stale, mixed>>
  BY DEF BookSteps
<1>2. \A g \in 1 .. NumGoals :
        owed'[g] = IF Linked(goals[g])
                   THEN owed[g] + balance'[goals[g].account] - balance[goals[g].account]
                   ELSE owed[g]
  BY Follows DEF BookSteps, BaseInv
<1>3. ASSUME NEW g \in 1 .. NumGoals, Progress(goals[g]) = owed[g]
      PROVE  Progress(goals[g])' = owed'[g]
  <2>1. PICK goal \in Goal : goal = goals[g]
    BY DEF BaseInv, GoalsTyped
  <2>2. CASE ~Linked(goal)
    BY <1>1, <1>2, <1>3, <2>1, <2>2 DEF Progress
  <2>3. CASE Linked(goal)
    <3>1. PICK a \in Accounts : a = goal.account
      BY <2>1, <2>3 DEF Goal, Linked
    <3>2. balance[a] \in Int /\ balance'[a] \in Int /\ goal.baseline \in Int
      BY DEF BaseInv, BooksTyped, Goal
    <3>3. owed[g] = balance[a] - goal.baseline
      BY <1>3, <2>1, <2>3, <3>1 DEF Progress
    <3>4. owed'[g] = owed[g] + balance'[a] - balance[a]
      BY <1>2, <2>1, <2>3, <3>1
    <3>5. Progress(goals[g])' = balance'[a] - goal.baseline
      BY <1>1, <2>1, <2>3, <3>1 DEF Progress
    <3> QED BY <3>2, <3>3, <3>4, <3>5
  <2> QED BY <2>2, <2>3
<1> QED BY <1>1, <1>3 DEF GoalInv

\* One goal is written, the others stay as they are.
LEMMA OthersKept ==
  ASSUME GoalInv, UNCHANGED books, NEW g \in 1 .. NumGoals,
         \A h \in 1 .. NumGoals : h # g => goals'[h] = goals[h] /\ owed'[h] = owed[h],
         stale' \in {stale, stale \cup {g}}, mixed' \in {mixed, mixed \cup {g}},
         goals'[g].state = "live" =>
           /\ g \notin stale' => Progress(goals'[g]) = owed'[g]
           /\ Linked(goals'[g]) /\ g \notin mixed' => goals'[g].account \in Fits[goals'[g].type]
  PROVE  GoalInv'
<1>1. balance' = balance
  BY DEF books
<1>2. \A h : Progress(goals[h])' = Progress(goals'[h])
  BY <1>1 DEF Progress
<1>3. \A h : Linked(goals[h])' = Linked(goals'[h])
  BY DEF Linked
<1> QED BY <1>2, <1>3 DEF GoalInv

\* A link keeps the progress it read, if nothing it read has changed.
LEMMA RelinkKeeps ==
  ASSUME BaseInv, NEW p \in Requests, NEW q, q = request[p], At(p, "updateGoal", "write"),
         NEW goal \in Goal, NEW next \in Goal, Pinned(q, goal), Relinked(q, goal, next),
         q.wanted.link # NoAccount => balance[q.wanted.link] = q.wanted.to,
         Linked(q.doc) => balance[q.doc.account] = q.wanted.from,
         goal.baseline = q.doc.baseline
  PROVE  Progress(next) = Progress(goal)
<1>1. FitsUpdate(q) /\ q.op = "updateGoal" /\ q.at = "write"
  BY Updating DEF At
<1>2. /\ q.doc \in Goal /\ q.wanted.link # q.doc.account
      /\ q.wanted.link \in Accounts \cup {NoAccount} /\ q.wanted.from \in Int /\ q.wanted.to \in Int
  BY <1>1 DEF FitsUpdate
<1>3. /\ next.account = q.wanted.link /\ goal.account = q.doc.account
      /\ next.current = IF Linked(q.doc) THEN Frozen(q) ELSE goal.current
      /\ next.baseline = Baseline(q)
  BY DEF Relinked, Pinned
<1>4. PICK frozen \in Int : frozen = Frozen(q)
  BY <1>2 DEF Frozen, Goal
<1>5. CASE Linked(q.doc)
  <2>1. Progress(goal) = frozen
    BY <1>3, <1>4, <1>5 DEF Progress, Frozen, Linked
  <2>2. CASE q.wanted.link = NoAccount
    BY <1>3, <1>4, <1>5, <2>1, <2>2 DEF Progress, Linked
  <2>3. CASE q.wanted.link # NoAccount
    <3>1. Progress(next) = q.wanted.to - (q.wanted.to - frozen)
      BY <1>3, <1>4, <2>3 DEF Progress, Linked, Baseline
    <3> QED BY <1>2, <1>4, <2>1, <3>1
  <2> QED BY <2>2, <2>3
<1>6. CASE ~Linked(q.doc)
  <2>1. q.wanted.link # NoAccount
    BY <1>2, <1>6 DEF Linked
  <2>2. frozen = goal.current /\ Progress(goal) = frozen
    BY <1>3, <1>4, <1>6, <2>1 DEF Progress, Frozen, Linked, Pinned
  <2>3. Progress(next) = q.wanted.to - (q.wanted.to - frozen)
    BY <1>3, <1>4, <2>1 DEF Progress, Linked, Baseline
  <2> QED BY <1>2, <1>4, <2>2, <2>3
<1> QED BY <1>5, <1>6


LEMMA CreateKeeps ==
  ASSUME BaseInv, GoalInv, UNCHANGED books, NEW p \in Requests, CreateGoal(p)
  PROVE  GoalInv'
<1>1. PICK g \in 1 .. NumGoals, next \in Goal :
        /\ goals'[g] = next /\ owed' = owed /\ mixed' = mixed
        /\ \A h \in 1 .. NumGoals : h # g => goals'[h] = goals[h]
        /\ next.state = "live" /\ next.current = 0 /\ owed[g] = 0
        /\ IF Linked(next) THEN next.account \in Fits[next.type] ELSE next.baseline = 0
        /\ stale' = IF Linked(next) /\ balance[next.account] # next.baseline
                    THEN stale \cup {g} ELSE stale
  BY CreateStep
<1>2. next.baseline \in Int /\ (Linked(next) => balance[next.account] \in Int)
  BY DEF Goal, Linked, BaseInv, BooksTyped
<1>3. g \notin stale' => Progress(next) = 0
  BY <1>1, <1>2 DEF Progress
<1>4. stale' \in {stale, stale \cup {g}} /\ mixed' \in {mixed, mixed \cup {g}}
  BY <1>1
<1>5. \A h \in 1 .. NumGoals : h # g => goals'[h] = goals[h] /\ owed'[h] = owed[h]
  BY <1>1
<1>6. /\ g \notin stale' => Progress(goals'[g]) = owed'[g]
      /\ Linked(goals'[g]) => goals'[g].account \in Fits[goals'[g].type]
  BY <1>1, <1>3
<1> QED BY <1>4, <1>5, <1>6, OthersKept

LEMMA RelinkKeepsGoals ==
  ASSUME BaseInv, GoalInv, UNCHANGED books, NEW p \in Requests, Relink(p)
  PROVE  GoalInv'
<1>1. PICK q : q = request[p]
  OBVIOUS
<1>2. At(p, "updateGoal", "write") /\ owed' = owed /\ GoalsTyped'
  BY RelinkStep
<1>3. FitsUpdate(q) /\ q.op = "updateGoal" /\ q.at = "write" /\ q.id \in 1 .. NumGoals
  BY <1>1, <1>2, Updating DEF At
<1>4. PICK g \in 1 .. NumGoals : g = q.id
  BY <1>3
<1>5. PICK goal \in Goal : goal = goals[g]
  BY DEF BaseInv, GoalsTyped
<1>6. PICK next \in Goal : next = goals'[g]
  BY <1>2 DEF GoalsTyped
<1>7. CASE UNCHANGED <<goals, stale, mixed>>
  <2>1. balance' = balance
    BY DEF books
  <2> QED BY <1>2, <1>7, <2>1 DEF GoalInv, Progress, Linked
<1>8. CASE ~UNCHANGED <<goals, stale, mixed>>
  <2>1. /\ Pinned(q, goal) /\ Relinked(q, goal, next)
        /\ \A h \in 1 .. NumGoals : h # g => goals'[h] = goals[h]
        /\ stale' = IF \/ q.wanted.link # NoAccount /\ balance[q.wanted.link] # q.wanted.to
                       \/ Linked(q.doc) /\ balance[q.doc.account] # q.wanted.from
                       \/ goal.baseline # q.doc.baseline
                    THEN stale \cup {g} ELSE stale
        /\ mixed' = IF goal.type # q.doc.type THEN mixed \cup {g} ELSE mixed
    BY <1>1, <1>4, <1>5, <1>6, <1>8, RelinkStep
  <2>2. g \notin stale' => Progress(next) = Progress(goal) /\ g \notin stale
    BY <1>1, <1>2, <2>1, RelinkKeeps
  <2>3. goal.state = "live"
    BY <2>1 DEF Pinned
  <2>4. g \notin stale' => Progress(next) = owed'[g]
    BY <1>2, <1>5, <2>2, <2>3 DEF GoalInv
  <2>5. Linked(next) /\ g \notin mixed' => next.account \in Fits[next.type]
    <3> SUFFICES ASSUME Linked(next), g \notin mixed' PROVE next.account \in Fits[next.type]
      OBVIOUS
    <3>1. next.account = q.wanted.link /\ q.wanted.link # NoAccount
      BY <2>1 DEF Relinked, Linked
    <3>2. goal.type = q.doc.type
      BY <2>1
    <3>3. next.type = NextType(q)
      BY <2>1, <3>2 DEF Relinked, NextType
    <3> QED BY <1>3, <3>1, <3>3 DEF FitsUpdate
  <2>6. stale' \in {stale, stale \cup {g}} /\ mixed' \in {mixed, mixed \cup {g}}
    BY <2>1
  <2>7. \A h \in 1 .. NumGoals : h # g => goals'[h] = goals[h] /\ owed'[h] = owed[h]
    BY <1>2, <2>1
  <2> QED BY <1>6, <2>4, <2>5, <2>6, <2>7, OthersKept
<1> QED BY <1>7, <1>8

LEMMA SaveKeepsGoals ==
  ASSUME BaseInv, GoalInv, UNCHANGED books, NEW p \in Requests, SaveGoal(p)
  PROVE  GoalInv'
<1>1. PICK q : q = request[p]
  OBVIOUS
<1>2. At(p, "updateGoal", "save") /\ owed' = owed /\ stale' = stale
  BY SaveStep
<1>3. FitsUpdate(q) /\ q.op = "updateGoal" /\ q.at = "save" /\ q.id \in 1 .. NumGoals
  BY <1>1, <1>2, Updating DEF At
<1>4. PICK g \in 1 .. NumGoals : g = q.id
  BY <1>3
<1>5. PICK goal : goal = goals[g]
  OBVIOUS
<1>6. PICK next : next = goals'[g]
  OBVIOUS
<1>7. CASE UNCHANGED <<goals, mixed>>
  <2>1. balance' = balance
    BY DEF books
  <2> QED BY <1>2, <1>7, <2>1 DEF GoalInv, Progress, Linked
<1>8. CASE ~UNCHANGED <<goals, mixed>>
  <2>1. /\ goal.state = "live"
        /\ next.state = goal.state /\ next.account = goal.account
        /\ next.current = goal.current /\ next.baseline = goal.baseline
        /\ next.type = IF q.wanted.type # q.doc.type THEN q.wanted.type ELSE goal.type
        /\ \A h \in 1 .. NumGoals : h # g => goals'[h] = goals[h]
        /\ mixed' = IF goal.account # q.doc.account THEN mixed \cup {g} ELSE mixed
    BY <1>1, <1>4, <1>5, <1>6, <1>8, SaveStep DEF Live
  <2>2. Progress(next) = Progress(goal) /\ (Linked(next) <=> Linked(goal))
    BY <2>1 DEF Progress, Linked
  <2>3. g \notin stale' => Progress(next) = owed'[g]
    BY <1>2, <1>5, <2>1, <2>2 DEF GoalInv
  <2>4. Linked(next) /\ g \notin mixed' => next.account \in Fits[next.type]
    <3> SUFFICES ASSUME Linked(next), g \notin mixed' PROVE next.account \in Fits[next.type]
      OBVIOUS
    <3>1. goal.account = q.doc.account /\ g \notin mixed
      BY <2>1
    <3>2. Linked(goal) /\ Linked(q.doc)
      BY <2>2, <3>1 DEF Linked
    <3>3. goal.account \in Fits[goal.type]
      BY <1>5, <2>1, <3>1, <3>2 DEF GoalInv
    <3>4. q.wanted.type = q.doc.type \/ q.doc.account \in Fits[q.wanted.type]
      BY <1>3, <3>2 DEF FitsUpdate
    <3> QED BY <2>1, <3>1, <3>3, <3>4
  <2>5. stale' \in {stale, stale \cup {g}} /\ mixed' \in {mixed, mixed \cup {g}}
    BY <1>2, <2>1
  <2>6. \A h \in 1 .. NumGoals : h # g => goals'[h] = goals[h] /\ owed'[h] = owed[h]
    BY <1>2, <2>1
  <2> QED BY <1>6, <2>3, <2>4, <2>5, <2>6, OthersKept
<1> QED BY <1>7, <1>8

LEMMA IncrementKeeps ==
  ASSUME BaseInv, GoalInv, UNCHANGED books, UNCHANGED <<stale, mixed>>,
         NEW g \in 1 .. NumGoals, Open(goals[g]), NEW x \in Int, Increment(g, x)
  PROVE  GoalInv'
<1>1. PICK goal \in Goal : goal = goals[g]
  BY DEF BaseInv, GoalsTyped
<1>2. /\ owed'[g] = owed[g] + x /\ ~Linked(goals'[g])
      /\ goals'[g].current = goal.current + x
      /\ \A h \in 1 .. NumGoals : h # g => goals'[h] = goals[h] /\ owed'[h] = owed[h]
  BY <1>1, IncrementStep
<1>3. goal.state = "live" /\ ~Linked(goal)
  BY <1>1 DEF Open
<1>4. g \notin stale => owed[g] = goal.current
  BY <1>1, <1>3 DEF GoalInv, Progress
<1>5. g \notin stale' => Progress(goals'[g]) = owed'[g]
  BY <1>2, <1>4 DEF Progress
<1> QED BY <1>2, <1>5, OthersKept

LEMMA GoalsKeepGoals ==
  ASSUME BaseInv, GoalInv, NEW p \in Requests, GoalSteps(p), UNCHANGED books
  PROVE  GoalInv'
<1>1. ASSUME UNCHANGED progress PROVE GoalInv'
  BY <1>1 DEF progress, books, GoalInv, Progress, Linked
<1>2. CASE GoalRequest(p)
  <2>1. ASSUME NEW g \in 1 .. NumGoals, NEW x \in Gifts, Contribute(p, g, x)
        PROVE  GoalInv'
    <3>1. x \in Int
      BY GoalsAssumption
    <3>2. CASE Open(goals[g]) /\ Increment(g, x)
      BY <2>1, <3>1, <3>2, IncrementKeeps DEF Contribute
    <3>3. CASE UNCHANGED <<goals, owed>>
      BY <1>1, <2>1, <3>3 DEF Contribute, progress
    <3> QED BY <2>1, <3>2, <3>3 DEF Contribute
  <2>2. ASSUME NEW g \in 1 .. NumGoals, RemoveGoal(p, g)
        PROVE  GoalInv'
    <3>1. /\ owed' = owed /\ goals'[g].state = "gone"
          /\ \A h \in 1 .. NumGoals : h # g => goals'[h] = goals[h]
      BY <2>2, RemoveStep
    <3>2. UNCHANGED <<stale, mixed>>
      BY <2>2 DEF RemoveGoal
    <3> QED BY <3>1, <3>2, OthersKept
  <2> QED BY <1>1, <1>2, <2>1, <2>2 DEF GoalRequest, BeginCreateGoal, BeginUpdateGoal
<1>3. CASE GoalStep(p)
  <2>1. ASSUME ContributeAgain(p)
        PROVE  GoalInv'
    <3>1. request[p].wanted \in Int /\ request[p].id \in 1 .. NumGoals
      BY <2>1 DEF ContributeAgain, At, BaseInv, AllFit, Fit, FitsContribute
    <3>2. CASE Open(goals[request[p].id]) /\ Increment(request[p].id, request[p].wanted)
      BY <2>1, <3>1, <3>2, IncrementKeeps DEF ContributeAgain
    <3>3. CASE UNCHANGED <<goals, owed>>
      BY <1>1, <2>1, <3>3 DEF ContributeAgain, progress
    <3> QED BY <2>1, <3>2, <3>3 DEF ContributeAgain
  <2> QED
    BY <1>1, <1>3, <2>1, CreateKeeps, RelinkKeepsGoals, SaveKeepsGoals
    DEF GoalStep, ReadNew, ReadOld, ContributeLook
<1> QED BY <1>2, <1>3 DEF GoalSteps

LEMMA GoalInvStep == BaseInv /\ BaseInv' /\ GoalInv /\ Next => GoalInv'
BY NextSteps, BooksKeepGoals, GoalsKeepGoals


-----------------------------------------------------------------------------
(* What a step does to the rows.                                           *)

RowsMove(p) ==
  /\ base' = base /\ drifted \subseteq drifted'
  /\ Begins(p) \/ rows \subseteq rows'
  /\ \A x \in rows' \ rows :
       /\ x.by = p
       /\ (Begins(p) /\ x.row = 0) \/ (request[p].op = "import" /\ request[p].id = x.account)
  /\ \A a \in Accounts :
       \/ RowsOf(a)' = RowsOf(a)
       \/ Begins(p) /\ About(request'[p]) = [op |-> "done", id |-> a]
       \/ request[p].op = "import" /\ request[p].id = a

\* Handlers of goals have nothing to do with rows.
LEMMA GoalOps ==
  ASSUME BaseInv, NEW p \in Requests, GoalSteps(p)
  PROVE  /\ request[p].op \notin {"import", "anchor"}
         /\ request'[p].op \notin {"import", "anchor"}
<1>1. CASE GoalRequest(p)
  <2>1. request'[p].op \in {"done", "createGoal", "updateGoal", "contribute"}
    BY <1>1, CreateBegins, UpdateBegins, ContributeBegins, DoneStep DEF GoalRequest, RemoveGoal
  <2>2. request[p].op = "none"
    BY <1>1 DEF GoalRequest, BeginCreateGoal, BeginUpdateGoal, Contribute, RemoveGoal, Begin, Fresh
  <2> QED BY <2>1, <2>2
<1>2. CASE Active(p) /\ GoalStep(p)
  <2>1. request[p].op \in {"createGoal", "updateGoal", "contribute"}
    BY <1>2 DEF GoalStep, CreateGoal, ReadNew, ReadOld, Relink, SaveGoal, ContributeLook,
       ContributeAgain, At
  <2>2. Goes(p) /\ ~Fresh(p)
    BY <1>2, GoalGoes DEF GoalSteps, Fresh, Active
  <2> QED BY <2>1, <2>2, DoneIs DEF Goes, Moves, Begins
<1> QED BY <1>1, <1>2 DEF GoalSteps

LEMMA FreshBegins ==
  ASSUME NEW p \in Requests, Goes(p), Fresh(p)
  PROVE  Begins(p)
BY DEF Goes, Moves, Fresh, Active

LEMMA ActiveMoves ==
  ASSUME NEW p \in Requests, Goes(p), Active(p)
  PROVE  Moves(p)
BY DEF Goes, Begins, Fresh, Active

LEMMA EnterMoves ==
  ASSUME BaseInv, NEW p \in Requests, NEW a \in Accounts, NEW k \in Keys, Enter(p, a, k)
  PROVE  RowsMove(p)
<1>1. Begins(p) /\ request'[p].op = "done" /\ request'[p].id = a
  BY EnterStep, FreshBegins
<1>2. About(request'[p]) = [op |-> "done", id |-> a]
  BY <1>1 DEF About
<1>3. \A b \in Accounts : b # a => RowsOf(b)' = RowsOf(b)
  BY DEF RowsOf, Enter
<1>4. \A x \in rows' \ rows : x.by = p /\ x.row = 0
  BY DEF Enter
<1> QED BY <1>1, <1>2, <1>3, <1>4 DEF RowsMove, Enter

LEMMA EraseMoves ==
  ASSUME BaseInv, NEW p \in Requests, NEW r \in rows, Erase(p, r)
  PROVE  RowsMove(p)
<1>1. Begins(p) /\ request'[p].op = "done" /\ request'[p].id = r.account
  BY EraseStep, FreshBegins
<1>2. About(request'[p]) = [op |-> "done", id |-> r.account]
  BY <1>1 DEF About
<1>3. \A b \in Accounts : b # r.account => RowsOf(b)' = RowsOf(b)
  BY DEF RowsOf, Erase
<1>4. rows' \subseteq rows /\ drifted' = drifted /\ base' = base
  BY DEF Erase
<1> QED BY <1>1, <1>2, <1>3, <1>4 DEF RowsMove

LEMMA InsertMoves ==
  ASSUME BaseInv, NEW p \in Requests, InsertRow(p)
  PROVE  RowsMove(p)
<1>1. PICK n \in request[p].todo :
        /\ rows' = rows \cup {[account |-> request[p].id, key |-> request[p].wanted[n],
                               by |-> p, row |-> n,
                               torn |-> Overlapped(p, "import", request[p].id)]}
        /\ At(p, "import", "insert")
  BY InsertStep
<1>2. request[p].op = "import"
  BY <1>1 DEF At
<1>3. \A b \in Accounts : b # request[p].id => RowsOf(b)' = RowsOf(b)
  BY <1>1 DEF RowsOf
<1>4. \A x \in rows' \ rows : x.by = p /\ x.account = request[p].id
  BY <1>1
<1>5. rows \subseteq rows' /\ drifted' = drifted /\ base' = base
  BY <1>1 DEF InsertRow
<1> QED BY <1>2, <1>3, <1>4, <1>5 DEF RowsMove

LEMMA QuietMoves ==
  ASSUME NEW p \in Requests, rows' = rows, base' = base, drifted \subseteq drifted'
  PROVE  RowsMove(p)
BY DEF RowsMove, RowsOf

LEMMA AllMove ==
  ASSUME BaseInv, NEW p \in Requests, BookSteps(p) \/ UNCHANGED books
  PROVE  RowsMove(p)
<1>1. CASE BookRequest(p)
  BY <1>1, EnterMoves, EraseMoves, QuietMoves
  DEF BookRequest, Archive, BeginAnchor, BeginImport, books
<1>2. CASE BookStep(p)
  <2>1. CASE ImportDies(p)
    BY <2>1, QuietMoves DEF ImportDies
  <2> QED
    BY <1>2, <2>1, InsertMoves, QuietMoves
    DEF BookStep, AnchorSum, AnchorStamp, Dedupe, LoseRow, ApplyImport, books
<1>3. CASE UNCHANGED books
  BY <1>3, QuietMoves DEF books
<1> QED BY <1>1, <1>2, <1>3 DEF BookSteps

-----------------------------------------------------------------------------
(* Imports and anchors: what a handler relies on.                          *)

Held(rs, a) == Sum({r \in rs : r.account = a})

Balanced ==
  \A a \in Accounts \ drifted :
    balance[a] + PendingOf(request, a) = base[a] + Held(rows, a)

\* A handler that stores rows of its own has stored none of those still to come.
RowsFresh ==
  \A r \in rows :
    /\ request[r.by].op # "none"
    /\ request[r.by].op = "import" =>
         request[r.by].at = "insert" /\ r.row \notin request[r.by].todo

\* No row to come repeats another one, nor a stored one but of an upload it has met.
FitsStored(p) == At(p, "import", "insert") =>
  LET q == request[p] IN
  /\ \A m, n \in q.todo : q.wanted[m] = q.wanted[n] => m = n
  /\ \/ Overlapped(p, "import", q.id)
     \/ \A n \in q.todo, r \in rows :
          r.account = q.id /\ r.row # 0 => r.key # q.wanted[n]

\* While nobody else is about, what is not stored is still to come.
FitsCovered(p) == At(p, "import", "insert") /\ ~request[p].found /\ amid[p] = {} =>
  LET q == request[p] IN
  \A n \in DOMAIN q.wanted :
    \/ q.wanted[n] = Bad
    \/ \E m \in q.todo : q.wanted[m] = q.wanted[n]
    \/ \E r \in rows : r.account = q.id /\ r.key = q.wanted[n]

\* No write to the ledger of the account overlapped.
Clean(p) == amid[p] \cap [op : {"done", "import"}, id : {request[p].id}] = {}

FitsSum(p) == request[p].op = "anchor" /\ request[p].id \notin drifted /\ Clean(p) =>
  LET q == request[p] IN
  q.wanted = IF q.at = "sum" THEN base[q.id] + Held(rows, q.id) ELSE base[q.id]

ImportsFit == \A p \in Requests : FitsStored(p) /\ FitsCovered(p) /\ FitsSum(p)

BookInv == Balanced /\ RowsFresh /\ ImportedOnce /\ ImportsFit

LEMMA HeldIs ==
  ASSUME NEW a
  PROVE  RowsOf(a) = {r \in rows : r.account = a} /\ Sum(RowsOf(a)) = Held(rows, a)
BY DEF RowsOf, Held

LEMMA BalancedIs == Balanced <=> BalanceIsLedger
<1>1. \A a : Pending(a) = PendingOf(request, a)
  BY DEF Pending, PendingOf
<1> QED BY <1>1, HeldIs DEF Balanced, BalanceIsLedger

\* The others' steps: what they may do to what a handler relies on.
LEMMA OthersFit ==
  ASSUME BaseInv, BookInv, NEW p \in Requests, Goes(p), RowsMove(p),
         NEW r \in Requests \ {p}
  PROVE  FitsStored(r)' /\ FitsCovered(r)' /\ FitsSum(r)'
<1>1. request'[r] = request[r] /\ amid[r] \subseteq amid'[r]
  BY WitnessedStep DEF BaseInv, Only
<1>2. ASSUME At(r, "import", "insert") \/ request[r].op = "anchor"
      PROVE  /\ Active(r) /\ request[r].id \in Accounts
             /\ Begins(p) => About(request'[p]) \in amid'[r]
             /\ Active(p) => About(request[p]) \in amid[r]
  <2>1. Active(r) /\ request[r].id \in Accounts
    BY <1>2 DEF At, Active, BaseInv, AllFit, Fit, FitsImport, FitsAnchor
  <2> QED BY <2>1 DEF Begins, BaseInv, Witnessed
<1>3. FitsStored(r)'
  <2> SUFFICES ASSUME At(r, "import", "insert")'
               PROVE  FitsStored(r)'
    BY DEF FitsStored
  <2>1. At(r, "import", "insert")
    BY <1>1 DEF At
  <2>2. CASE Overlapped(r, "import", request[r].id)
    BY <1>1, <2>1, <2>2 DEF FitsStored, Overlapped, BookInv, ImportsFit
  <2>3. CASE ~Overlapped(r, "import", request[r].id)
    <3>1. ~(request[p].op = "import" /\ request[p].id = request[r].id)
      BY <1>2, <2>1, <2>3, Importing DEF Overlapped, About
    <3>2. \A x \in rows' : x.account = request[r].id /\ x.row # 0 => x \in rows
      BY <3>1 DEF RowsMove
    <3> QED BY <1>1, <2>1, <2>3, <3>2 DEF FitsStored, BookInv, ImportsFit, Overlapped, At
  <2> QED BY <2>2, <2>3
<1>4. FitsCovered(r)'
  <2> SUFFICES ASSUME At(r, "import", "insert")', ~request'[r].found, amid'[r] = {}
               PROVE  FitsCovered(r)'
    BY DEF FitsCovered
  <2>1. At(r, "import", "insert")
    BY <1>1 DEF At
  <2>2. rows \subseteq rows'
    BY <1>2, <2>1 DEF RowsMove
  <2>3. FitsCovered(r) /\ amid[r] = {}
    BY <1>1 DEF BookInv, ImportsFit
  <2> QED BY <1>1, <2>1, <2>2, <2>3 DEF FitsCovered
<1>5. FitsSum(r)'
  <2> SUFFICES ASSUME request'[r].op = "anchor", request'[r].id \notin drifted', Clean(r)'
               PROVE  FitsSum(r)'
    BY DEF FitsSum
  <2>1. PICK q : q = request[r]
    OBVIOUS
  <2>2. q.op = "anchor" /\ q.id \notin drifted /\ Clean(r) /\ q.id \in Accounts
    BY <1>1, <1>2, <2>1 DEF RowsMove, Clean
  <2>3. ~(Begins(p) /\ About(request'[p]) = [op |-> "done", id |-> q.id])
    BY <1>1, <1>2, <2>1, <2>2 DEF Clean
  <2>4. ~(request[p].op = "import" /\ request[p].id = q.id)
    BY <1>1, <1>2, <2>1, <2>2, Importing DEF Clean, About
  <2>5. RowsOf(q.id)' = RowsOf(q.id)
    BY <2>2, <2>3, <2>4 DEF RowsMove
  <2>6. Held(rows, q.id)' = Held(rows, q.id)
    BY <2>5 DEF Held, RowsOf
  <2>7. base' = base
    BY DEF RowsMove
  <2> QED BY <1>1, <2>1, <2>2, <2>6, <2>7 DEF FitsSum, BookInv, ImportsFit, Held
<1> QED BY <1>3, <1>4, <1>5


-----------------------------------------------------------------------------
(* The balance of an account, with what its imports have still to count.   *)

\* One row more, or less, on its account.
LEMMA HeldAdd ==
  ASSUME NEW rs, IsFiniteSet(rs), \A r \in rs : Row(r), NEW x, Row(x), x \notin rs, NEW a
  PROVE  /\ Held(rs, a) \in Int /\ Amount[x.key] \in Int
         /\ Held(rs \cup {x}, a) =
              Held(rs, a) + (IF x.account = a THEN Amount[x.key] ELSE 0)
<1> DEFINE S == {r \in rs : r.account = a}
           T == {r \in rs \cup {x} : r.account = a}
<1>1. S \in SUBSET rs /\ T \in SUBSET (rs \cup {x}) /\ IsFiniteSet(rs \cup {x})
  BY FS_AddElement
<1>2. IsFiniteSet(S) /\ IsFiniteSet(T)
  BY <1>1, FS_Subset
<1>3. \A r \in rs \cup {x} : Amount[r.key] \in Int
  BY AccountsAssumption DEF Row
<1>4. \A r \in S : Amount[r.key] \in Int
  BY <1>3
<1>5. \A r \in T : Amount[r.key] \in Int
  BY <1>3
<1>6. Held(rs, a) = Sum(S) /\ Held(rs \cup {x}, a) = Sum(T)
  BY DEF Held
<1>7. x.account # a => S = T
  OBVIOUS
<1>8. x.account = a => x \in T /\ T \ {x} = S
  OBVIOUS
<1> HIDE DEF S, T
<1>9. Sum(S) \in Int
  BY <1>2, <1>4, SumInt
<1>10. x.account = a => Sum(T) = Amount[x.key] + Sum(S)
  BY <1>2, <1>5, <1>8, SumOneMore
<1>11. Amount[x.key] \in Int
  BY <1>3
<1> QED BY <1>6, <1>7, <1>9, <1>10, <1>11

LEMMA DueInt ==
  ASSUME BaseInv, NEW p \in Requests, NEW a
  PROVE  Due(request[p], a) \in Int
BY DEF BaseInv, AllFit, Fit, FitsImport, Due

\* A step that moves the balance of an account as it moves its rows and what its
\* own import has still to count.
Even(p, a) ==
  /\ Held(rows, a) \in Int /\ Held(rows', a) \in Int
  /\ balance'[a] + Due(request'[p], a) + Held(rows, a)
       = balance[a] + Due(request[p], a) + Held(rows', a)

LEMMA EvenBalanced ==
  ASSUME BaseInv, BaseInv', Balanced, NEW p \in Requests, Goes(p),
         base' = base, drifted \subseteq drifted',
         \A a \in Accounts \ drifted' : Even(p, a)
  PROVE  Balanced'
<1> SUFFICES ASSUME NEW a \in Accounts \ drifted'
             PROVE  balance'[a] + PendingOf(request', a) = base'[a] + Held(rows', a)
  BY DEF Balanced, Held
<1>1. \A o \in Requests \ {p} : request'[o] = request[o]
  BY WitnessedStep DEF BaseInv, Only
<1>2. \A o \in Requests : Due(request[o], a) \in Int /\ Due(request'[o], a) \in Int
  BY DueInt DEF BaseInv, AllFit, Fit, FitsImport, Due
<1>3. /\ PendingOf(request, a) \in Int /\ PendingOf(request', a) \in Int
      /\ PendingOf(request', a)
           = PendingOf(request, a) + Due(request'[p], a) - Due(request[p], a)
  BY <1>1, <1>2, PendingMoves
<1>4. balance[a] + PendingOf(request, a) = base[a] + Held(rows, a)
  BY DEF Balanced
<1>5. balance[a] \in Int /\ balance'[a] \in Int /\ base[a] \in Int /\ base'[a] = base[a]
  BY DEF BaseInv, BooksTyped
<1>6. Even(p, a)
  OBVIOUS
<1>7. Due(request[p], a) \in Int /\ Due(request'[p], a) \in Int
  BY <1>2
<1> QED BY <1>3, <1>4, <1>5, <1>6, <1>7 DEF Even

LEMMA HeldInt ==
  ASSUME BooksTyped, NEW a
  PROVE  Held(rows, a) \in Int
<1>1. {r \in rows : r.account = a} \in SUBSET rows
  OBVIOUS
<1>2. \A r \in rows : Amount[r.key] \in Int
  BY AccountsAssumption DEF BooksTyped, Row
<1>3. /\ IsFiniteSet({r \in rows : r.account = a})
      /\ \A r \in {r \in rows : r.account = a} : Amount[r.key] \in Int
  BY <1>1, <1>2, FS_Subset DEF BooksTyped
<1> QED BY <1>3, SumInt DEF Held

LEMMA DueNone ==
  ASSUME NEW q, q.op # "import", NEW a
  PROVE  Due(q, a) = 0
BY DEF Due

LEMMA EnterEven ==
  ASSUME BaseInv, RowsFresh, NEW p \in Requests, NEW a \in Accounts, NEW k \in Keys,
         Enter(p, a, k), NEW b \in Accounts
  PROVE  Even(p, b)
<1>1. PICK x : x = [account |-> a, key |-> k, by |-> p, row |-> 0, torn |-> FALSE]
  OBVIOUS
<1>2. Row(x) /\ x.account = a /\ x.key = k /\ x.by = p
  BY <1>1 DEF Row
<1>3. request[p].op = "none" /\ request'[p].op = "done"
  BY EnterStep DEF Fresh
<1>4. x \notin rows
  BY <1>2, <1>3 DEF RowsFresh
<1>5. rows' = rows \cup {x} /\ balance' = [balance EXCEPT ![a] = @ + Amount[k]]
  BY <1>1 DEF Enter
<1>6. /\ Held(rows, b) \in Int /\ Amount[k] \in Int
      /\ Held(rows', b) = Held(rows, b) + (IF a = b THEN Amount[k] ELSE 0)
  BY <1>2, <1>4, <1>5, HeldAdd DEF BaseInv, BooksTyped
<1>7. Due(request[p], b) = 0 /\ Due(request'[p], b) = 0
  BY <1>3, DueNone
<1>8. balance[b] \in Int /\ balance'[b] = balance[b] + (IF a = b THEN Amount[k] ELSE 0)
  BY <1>5, <1>6 DEF BaseInv, BooksTyped
<1> QED BY <1>6, <1>7, <1>8 DEF Even

LEMMA EraseEven ==
  ASSUME BaseInv, NEW p \in Requests, NEW r \in rows, Erase(p, r), NEW b \in Accounts
  PROVE  Even(p, b)
<1>1. PICK a \in Accounts : a = r.account
  BY DEF BaseInv, BooksTyped, Row
<1>2. PICK x : x = Amount[r.key]
  OBVIOUS
<1>3. request[p].op = "none" /\ request'[p].op = "done"
  BY EraseStep DEF Fresh
<1>4. /\ rows' = rows \ {r} /\ balance' = [balance EXCEPT ![a] = @ - x]
      /\ rows = rows' \cup {r} /\ r \notin rows'
  BY <1>1, <1>2 DEF Erase
<1>5. IsFiniteSet(rows') /\ (\A s \in rows' : Row(s)) /\ Row(r)
  BY <1>4, FS_RemoveElement DEF BaseInv, BooksTyped
<1>6. /\ Held(rows', b) \in Int /\ x \in Int
      /\ Held(rows, b) = Held(rows', b) + (IF a = b THEN x ELSE 0)
  <2>1. PICK rs : rs = rows'
    OBVIOUS
  <2>2. /\ Held(rs, b) \in Int /\ Amount[r.key] \in Int
        /\ Held(rs \cup {r}, b) = Held(rs, b) + (IF r.account = b THEN Amount[r.key] ELSE 0)
    BY <1>4, <1>5, <2>1, HeldAdd
  <2> QED BY <1>1, <1>2, <1>4, <2>1, <2>2
<1>7. Due(request[p], b) = 0 /\ Due(request'[p], b) = 0
  BY <1>3, DueNone
<1>8. balance[b] \in Int /\ balance'[b] = balance[b] - (IF a = b THEN x ELSE 0)
  BY <1>4, <1>6 DEF BaseInv, BooksTyped
<1> QED BY <1>6, <1>7, <1>8 DEF Even

LEMMA InsertEven ==
  ASSUME BaseInv, RowsFresh, NEW p \in Requests, InsertRow(p), NEW b \in Accounts
  PROVE  Even(p, b)
<1>1. PICK q : q = request[p]
  OBVIOUS
<1>2. PICK n \in q.todo :
        /\ q.wanted[n] \in Keys
        /\ rows' = rows \cup {[account |-> q.id, key |-> q.wanted[n], by |-> p, row |-> n,
                               torn |-> Overlapped(p, "import", q.id)]}
        /\ At(p, "import", "insert") /\ At(p, "import", "insert")'
        /\ request'[p].id = q.id /\ request'[p].cursor = q.cursor + Amount[q.wanted[n]]
  BY <1>1, InsertStep
<1>3. PICK x : x = [account |-> q.id, key |-> q.wanted[n], by |-> p, row |-> n,
                    torn |-> Overlapped(p, "import", q.id)]
  OBVIOUS
<1>4. q.op = "import" /\ q.at = "insert" /\ q.id \in Accounts /\ q.cursor \in Int
  BY <1>1, <1>2, Importing DEF At
<1>5. Row(x) /\ x.account = q.id /\ x.key = q.wanted[n] /\ x.by = p /\ x.row = n
  BY <1>2, <1>3, <1>4 DEF Row
<1>6. x \notin rows
  BY <1>1, <1>2, <1>4, <1>5 DEF RowsFresh
<1>7. PICK y : y = Amount[q.wanted[n]]
  OBVIOUS
<1>8. /\ Held(rows, b) \in Int /\ y \in Int
      /\ Held(rows', b) = Held(rows, b) + (IF q.id = b THEN y ELSE 0)
  BY <1>2, <1>3, <1>5, <1>6, <1>7, HeldAdd DEF BaseInv, BooksTyped
<1>9. /\ Due(q, b) = (IF q.id = b THEN q.cursor ELSE 0)
      /\ Due(request'[p], b) = (IF q.id = b THEN q.cursor + y ELSE 0)
  BY <1>2, <1>4, <1>7 DEF Due, At
<1>10. balance' = balance /\ balance[b] \in Int
  BY DEF InsertRow, BaseInv, BooksTyped
<1> QED BY <1>1, <1>4, <1>8, <1>9, <1>10 DEF Even

LEMMA ApplyEven ==
  ASSUME BaseInv, NEW p \in Requests, Active(p), ApplyImport(p), NEW b \in Accounts
  PROVE  Even(p, b)
<1>1. PICK q : q = request[p]
  OBVIOUS
<1>2. q.op = "import" /\ q.id \in Accounts /\ q.cursor \in Int
  BY <1>1, Importing DEF ApplyImport, At
<1>3. Due(request'[p], b) = 0
  BY EndStep, DueNone DEF ApplyImport
<1>4. Due(q, b) = IF q.id = b THEN q.cursor ELSE 0
  BY <1>2 DEF Due
<1>5. balance' = [balance EXCEPT ![q.id] = @ + q.cursor] /\ rows' = rows
  BY <1>1 DEF ApplyImport
<1>6. balance[b] \in Int /\ balance'[b] = balance[b] + (IF q.id = b THEN q.cursor ELSE 0)
  BY <1>2, <1>5 DEF BaseInv, BooksTyped
<1>7. PICK h \in Int : h = Held(rows, b) /\ h = Held(rows', b)
  BY <1>5, HeldInt DEF BaseInv
<1> QED BY <1>1, <1>2, <1>3, <1>4, <1>6, <1>7 DEF Even

\* The balance and the rows stay, and so does what is due to the account.
LEMMA QuietEven ==
  ASSUME BaseInv, NEW p \in Requests, NEW b \in Accounts, balance' = balance, rows' = rows,
         Due(request'[p], b) = Due(request[p], b)
  PROVE  Even(p, b)
<1>1. PICK h \in Int : h = Held(rows, b) /\ h = Held(rows', b)
  BY HeldInt DEF BaseInv
<1>2. PICK d \in Int : d = Due(request[p], b) /\ d = Due(request'[p], b)
  BY DueInt
<1>3. balance[b] \in Int /\ balance'[b] = balance[b]
  BY DEF BaseInv, BooksTyped
<1> QED BY <1>1, <1>2, <1>3 DEF Even

LEMMA DiesEven ==
  ASSUME BaseInv, NEW p \in Requests, Active(p), ImportDies(p), NEW b \in Accounts \ drifted'
  PROVE  Even(p, b)
<1>1. Due(request'[p], b) = 0
  BY EndStep, DueNone DEF ImportDies
<1>2. Due(request[p], b) = 0
  BY DEF Due, ImportDies
<1> QED BY <1>1, <1>2, QuietEven DEF ImportDies

LEMMA AllEven ==
  ASSUME BaseInv, RowsFresh, NEW p \in Requests, BookSteps(p), NEW b \in Accounts \ drifted'
  PROVE  Even(p, b)
<1>1. CASE Fresh(p) /\ BookRequest(p)
  <2>1. Due(request[p], b) = 0
    BY <1>1, DueNone DEF Fresh
  <2>2. ASSUME NEW a \in Accounts, Archive(p, a) \/ BeginAnchor(p, a)
        PROVE  Even(p, b)
    <3>1. request'[p].op # "import"
      BY <2>2, DoneStep, AnchorBegins DEF Archive, At
    <3> QED BY <2>1, <2>2, <3>1, DueNone, QuietEven DEF Archive, BeginAnchor, books
  <2>3. ASSUME NEW a \in Accounts, NEW file \in Files, BeginImport(p, a, file)
        PROVE  Even(p, b)
    <3>1. Due(request'[p], b) = 0
      BY <2>3, ImportBegins DEF Due
    <3> QED BY <2>1, <2>3, <3>1, QuietEven DEF BeginImport, books
  <2> QED BY <1>1, <2>2, <2>3, EnterEven, EraseEven DEF BookRequest
<1>2. CASE Active(p) /\ BookStep(p)
  <2>1. CASE AnchorSum(p)
    <3>1. request[p].op # "import" /\ request'[p].op # "import"
      BY <2>1, AnchorSums DEF AnchorSum, At
    <3> QED BY <2>1, <3>1, DueNone, QuietEven DEF AnchorSum, books
  <2>2. CASE AnchorStamp(p)
    <3>1. request[p].op # "import" /\ request'[p].op # "import"
      BY <1>2, <2>2, EndStep DEF AnchorStamp, At
    <3> QED BY <2>2, <3>1, DueNone, QuietEven DEF AnchorStamp
  <2>3. CASE Dedupe(p)
    <3>1. Due(request'[p], b) = Due(request[p], b)
      BY <2>3, Dedupes DEF Dedupe, At, Due
    <3> QED BY <2>3, <3>1, QuietEven DEF Dedupe, books
  <2>4. CASE LoseRow(p)
    <3>1. Due(request'[p], b) = Due(request[p], b)
      BY <2>4, LoseStep DEF At, Due
    <3> QED BY <2>4, <3>1, QuietEven DEF LoseRow, books
  <2> QED
    BY <1>2, <2>1, <2>2, <2>3, <2>4, InsertEven, ApplyEven, DiesEven DEF BookStep
<1> QED BY <1>1, <1>2 DEF BookSteps

LEMMA BalancedStep ==
  ASSUME BaseInv, BaseInv', BookInv, Next
  PROVE  Balanced'
<1>1. PICK p \in Requests : Goes(p) /\ (BookSteps(p) \/ (GoalSteps(p) /\ UNCHANGED books))
  BY NextSteps
<1>2. base' = base /\ drifted \subseteq drifted'
  BY <1>1, AllMove DEF RowsMove
<1>3. ASSUME NEW b \in Accounts \ drifted' PROVE Even(p, b)
  <2>1. CASE BookSteps(p)
    BY <2>1, AllEven DEF BookInv
  <2>2. CASE GoalSteps(p) /\ UNCHANGED books
    <3>1. Due(request'[p], b) = Due(request[p], b)
      BY <2>2, GoalOps, DueNone
    <3> QED BY <2>2, <3>1, QuietEven DEF books
  <2> QED BY <1>1, <2>1, <2>2
<1> QED BY <1>1, <1>2, <1>3, EvenBalanced DEF BookInv


-----------------------------------------------------------------------------
(* Each row once.                                                          *)

LEMMA OthersFresh ==
  ASSUME BaseInv, BookInv, NEW p \in Requests, Goes(p), RowsMove(p),
         \A r \in rows' : r.by = p =>
           /\ request'[p].op # "none"
           /\ request'[p].op = "import" =>
                request'[p].at = "insert" /\ r.row \notin request'[p].todo
  PROVE  RowsFresh'
<1> SUFFICES ASSUME NEW r \in rows', r.by # p
             PROVE  /\ request'[r.by].op # "none"
                    /\ request'[r.by].op = "import" =>
                         request'[r.by].at = "insert" /\ r.row \notin request'[r.by].todo
  BY DEF RowsFresh
<1>1. r \in rows
  BY DEF RowsMove
<1>2. request'[r.by] = request[r.by]
  BY <1>1, WitnessedStep DEF BaseInv, Only, BooksTyped, Row
<1> QED BY <1>1, <1>2 DEF BookInv, RowsFresh

LEMMA FreshStep ==
  ASSUME BaseInv, BookInv, NEW p \in Requests, Goes(p), RowsMove(p),
         BookSteps(p) \/ (GoalSteps(p) /\ UNCHANGED books)
  PROVE  RowsFresh'
<1>1. request'[p].op # "none"
  <2>1. CASE Fresh(p) /\ BookRequest(p)
    BY <2>1, EnterStep, EraseStep, DoneStep, AnchorBegins, ImportBegins
    DEF BookRequest, Archive, At
  <2>2. CASE Fresh(p) /\ GoalRequest(p)
    BY <2>2, CreateBegins, UpdateBegins, ContributeBegins, DoneStep DEF GoalRequest, RemoveGoal
  <2>3. CASE Active(p)
    <3>1. Moves(p)
      BY <2>3, ActiveMoves
    <3> QED BY <2>3, <3>1, DoneIs DEF Moves, Active
  <2> QED BY <2>1, <2>2, <2>3 DEF BookSteps, GoalSteps
<1>2. Fresh(p) => \A r \in rows : r.by # p
  BY DEF BookInv, RowsFresh, Fresh
<1>3. CASE InsertRow(p)
  <2>1. PICK q : q = request[p]
    OBVIOUS
  <2>2. PICK n \in q.todo :
          /\ rows' = rows \cup {[account |-> q.id, key |-> q.wanted[n], by |-> p, row |-> n,
                                 torn |-> Overlapped(p, "import", q.id)]}
          /\ q.op = "import" /\ At(p, "import", "insert")'
          /\ request'[p].todo = q.todo \ {n}
    BY <1>3, <2>1, InsertStep DEF At
  <2>3. \A r \in rows : r.by = p => r.row \notin q.todo
    BY <2>1, <2>2 DEF BookInv, RowsFresh
  <2>4. \A r \in rows' : r.by = p => r.row \notin request'[p].todo
    BY <2>2, <2>3
  <2> QED BY <1>1, <2>2, <2>4, OthersFresh DEF At
<1>4. CASE request'[p].op # "import"
  BY <1>1, <1>4, OthersFresh
<1>5. CASE LoseRow(p)
  <2>1. /\ request'[p].at = "insert" /\ request'[p].todo \subseteq request[p].todo
        /\ request[p].op = "import" /\ rows' = rows
    BY <1>5, LoseStep DEF At, books
  <2>2. \A r \in rows' : r.by = p => r.row \notin request'[p].todo
    BY <2>1 DEF BookInv, RowsFresh
  <2> QED BY <1>1, <2>1, <2>2, OthersFresh
<1>6. CASE Dedupe(p)
  <2>1. \A r \in rows' : r.by # p
    BY <1>6, Dedupes DEF Dedupe, At, BookInv, RowsFresh, books
  <2> QED BY <2>1, OthersFresh
<1>7. ASSUME NEW a \in Accounts, NEW file \in Files, BeginImport(p, a, file)
      PROVE  RowsFresh'
  <2>1. \A r \in rows' : r.by # p
    BY <1>2, <1>7, ImportBegins DEF BeginImport, books
  <2> QED BY <2>1, OthersFresh
<1>8. CASE GoalSteps(p)
  BY <1>4, <1>8, GoalOps
<1>9. CASE Fresh(p) /\ BookRequest(p)
  <2>1. BookRequest(p) => request'[p].op # "import"
                          \/ \E a \in Accounts, file \in Files : BeginImport(p, a, file)
    BY EnterStep, EraseStep, DoneStep, AnchorBegins DEF BookRequest, Archive, At
  <2> QED BY <1>4, <1>7, <1>9, <2>1
<1>10. CASE Active(p) /\ BookStep(p)
  <2>1. AnchorSum(p) => request'[p].op # "import"
    BY AnchorSums DEF At
  <2>2. AnchorStamp(p) \/ ApplyImport(p) \/ ImportDies(p) => request'[p].op # "import"
    BY <1>10, EndStep DEF AnchorStamp, ApplyImport, ImportDies
  <2> QED BY <1>3, <1>4, <1>5, <1>6, <1>10, <2>1, <2>2 DEF BookStep
<1> QED BY <1>8, <1>9, <1>10 DEF BookSteps

LEMMA OnceStep ==
  ASSUME BaseInv, BookInv, NEW p \in Requests, RowsMove(p),
         BookSteps(p) \/ UNCHANGED books
  PROVE  ImportedOnce'
<1>1. ASSUME \A x \in rows' : x.row # 0 => x \in rows
      PROVE  ImportedOnce'
  BY <1>1 DEF BookInv, ImportedOnce
<1>2. CASE InsertRow(p)
  <2>1. PICK q : q = request[p]
    OBVIOUS
  <2>2. PICK n \in q.todo :
          /\ rows' = rows \cup {[account |-> q.id, key |-> q.wanted[n], by |-> p, row |-> n,
                                 torn |-> Overlapped(p, "import", q.id)]}
          /\ At(p, "import", "insert")
    BY <1>2, <2>1, InsertStep
  <2>3. PICK x : x = [account |-> q.id, key |-> q.wanted[n], by |-> p, row |-> n,
                      torn |-> Overlapped(p, "import", q.id)]
    OBVIOUS
  <2>4. /\ x.account = q.id /\ x.key = q.wanted[n]
        /\ x.torn = Overlapped(p, "import", q.id)
    BY <2>3
  <2>5. ASSUME NEW s \in rows, s.row # 0, s.account = x.account, s.key = x.key, ~x.torn
        PROVE  FALSE
    BY <2>1, <2>2, <2>4, <2>5 DEF BookInv, ImportsFit, FitsStored
  <2>6. rows' = rows \cup {x}
    BY <2>2, <2>3
  <2> QED BY <2>5, <2>6 DEF BookInv, ImportedOnce
<1>3. \A x \in rows' \ rows : x.row = 0 \/ request[p].op = "import"
  BY DEF RowsMove
<1>4. CASE rows' \subseteq rows
  BY <1>1, <1>4
<1>5. CASE Fresh(p)
  BY <1>1, <1>3, <1>5 DEF Fresh
<1>6. CASE BookStep(p)
  BY <1>2, <1>4, <1>6
  DEF BookStep, AnchorSum, AnchorStamp, Dedupe, LoseRow, ApplyImport, ImportDies, books
<1> QED BY <1>4, <1>5, <1>6 DEF BookSteps, books

-----------------------------------------------------------------------------
(* What a handler of imports or anchors relies on after its own step.      *)

FitsBook(p) == FitsStored(p) /\ FitsCovered(p) /\ FitsSum(p)

LEMMA FitsElse ==
  ASSUME NEW p, request'[p].op # "anchor",
         request'[p].op # "import" \/ request'[p].at # "insert"
  PROVE  FitsBook(p)'
BY DEF FitsBook, FitsStored, FitsCovered, FitsSum, At

IsFirst(file, n, m) ==
  file[m] = file[n] /\ \A l \in 1 .. m - 1 : file[l] # file[n]

\* The first row of a file with a key, among those with it.
LEMMA FirstRow ==
  ASSUME NEW file, file \in Seq(Keys \cup {Bad}), NEW n \in DOMAIN file
  PROVE  \E m \in DOMAIN file : IsFirst(file, n, m)
<1> DEFINE N == {m \in DOMAIN file : file[m] = file[n]}
<1>1. N \in SUBSET Nat /\ n \in N
  OBVIOUS
<1>2. PICK m \in N : \A l \in N : m <= l
  BY <1>1, LeastElement
<1>3. ASSUME NEW l \in 1 .. m - 1, file[l] = file[n]
      PROVE  FALSE
  <2>1. m \in 1 .. Len(file)
    BY <1>2
  <2>2. l \in DOMAIN file /\ l < m
    BY <2>1
  <2> QED BY <1>2, <1>3, <2>1, <2>2
<1>4. PICK k \in DOMAIN file : k = m /\ file[k] = file[n]
  BY <1>2
<1>5. \A l \in 1 .. k - 1 : file[l] # file[n]
  BY <1>3, <1>4
<1> HIDE DEF N
<1> QED BY <1>4, <1>5 DEF IsFirst

LEMMA DedupeFits ==
  ASSUME BaseInv, NEW p \in Requests, Dedupe(p)
  PROVE  FitsBook(p)'
<1>1. PICK q : q = request[p]
  OBVIOUS
<1>2. q.op = "import" /\ FitsImport(q) /\ q.id \in Accounts
  BY <1>1, Importing DEF Dedupe, At
<1>3. PICK file : file = q.wanted /\ file \in Seq(Keys \cup {Bad})
  BY <1>2, ImportsAssumption DEF FitsImport
<1>4. PICK new : new = New(file, Stored(q.id))
  OBVIOUS
<1>5. /\ request'[p].op = "import" /\ request'[p].id = q.id
      /\ request'[p].wanted = file /\ request'[p].todo = new /\ rows' = rows
  BY <1>1, <1>3, <1>4, Dedupes DEF At, books
<1>6. new = {n \in DOMAIN file :
               /\ file[n] \notin Stored(q.id) \cup {Bad}
               /\ \A m \in 1 .. n - 1 : file[m] # file[n]}
  BY <1>4 DEF New
<1>7. Stored(q.id) = {r.key : r \in {r \in rows : r.account = q.id}}
  BY DEF Stored, RowsOf
<1>8. ASSUME NEW m \in new, NEW n \in new, file[m] = file[n]
      PROVE  m = n
  <2>1. m \in 1 .. Len(file) /\ n \in 1 .. Len(file)
    BY <1>3, <1>6
  <2>2. ~(m < n) /\ ~(n < m)
    BY <1>6, <1>8, <2>1
  <2> QED BY <2>1, <2>2
<1>9. ASSUME NEW n \in new, NEW r \in rows, r.account = q.id
      PROVE  r.key # file[n]
  BY <1>6, <1>7, <1>9
<1>10. ASSUME NEW n \in DOMAIN file
       PROVE  \/ file[n] = Bad
              \/ \E m \in new : file[m] = file[n]
              \/ \E r \in rows : r.account = q.id /\ r.key = file[n]
  <2>1. PICK m \in DOMAIN file : IsFirst(file, n, m)
    BY <1>3, FirstRow
  <2>2. file[m] = file[n] /\ (file[m] \notin Stored(q.id) \cup {Bad} => m \in new)
    BY <1>6, <2>1 DEF IsFirst
  <2> QED BY <1>7, <2>1, <2>2
<1>11. FitsStored(p)'
  BY <1>5, <1>8, <1>9 DEF FitsStored
<1>12. FitsCovered(p)'
  BY <1>5, <1>10 DEF FitsCovered
<1> QED BY <1>5, <1>11, <1>12 DEF FitsBook, FitsSum

LEMMA InsertFits ==
  ASSUME BaseInv, BookInv, NEW p \in Requests, InsertRow(p)
  PROVE  FitsBook(p)'
<1>1. PICK q : q = request[p]
  OBVIOUS
<1>2. PICK n \in q.todo :
        /\ rows' = rows \cup {[account |-> q.id, key |-> q.wanted[n], by |-> p, row |-> n,
                               torn |-> Overlapped(p, "import", q.id)]}
        /\ amid' = amid /\ At(p, "import", "insert") /\ At(p, "import", "insert")'
        /\ request'[p].id = q.id /\ request'[p].wanted = q.wanted
        /\ request'[p].todo = q.todo \ {n} /\ request'[p].found = q.found
  BY <1>1, InsertStep
<1>3. PICK x : x = [account |-> q.id, key |-> q.wanted[n], by |-> p, row |-> n,
                    torn |-> Overlapped(p, "import", q.id)]
  OBVIOUS
<1>4. x.account = q.id /\ x.key = q.wanted[n] /\ rows' = rows \cup {x}
  BY <1>2, <1>3
<1>5. FitsStored(p) /\ FitsCovered(p)
  BY DEF BookInv, ImportsFit
<1>6. \A m, l \in q.todo : q.wanted[m] = q.wanted[l] => m = l
  BY <1>1, <1>2, <1>5 DEF FitsStored
<1>7. FitsStored(p)'
  <2>1. CASE Overlapped(p, "import", q.id)
    BY <1>2, <1>6, <2>1 DEF FitsStored, Overlapped
  <2>2. CASE ~Overlapped(p, "import", q.id)
    <3>1. \A m \in q.todo, r \in rows : r.account = q.id /\ r.row # 0 => r.key # q.wanted[m]
      BY <1>1, <1>2, <1>5, <2>2 DEF FitsStored
    <3>2. \A m \in q.todo \ {n}, r \in rows' :
            r.account = q.id /\ r.row # 0 => r.key # q.wanted[m]
      BY <1>4, <1>6, <3>1
    <3> QED BY <1>2, <1>6, <3>2 DEF FitsStored
  <2> QED BY <2>1, <2>2
<1>8. FitsCovered(p)'
  <2> SUFFICES ASSUME ~q.found, amid[p] = {}, NEW m \in DOMAIN q.wanted, q.wanted[m] # Bad
               PROVE  \/ \E l \in q.todo \ {n} : q.wanted[l] = q.wanted[m]
                      \/ \E r \in rows' : r.account = q.id /\ r.key = q.wanted[m]
    BY <1>2 DEF FitsCovered
  <2>1. \/ \E l \in q.todo : q.wanted[l] = q.wanted[m]
        \/ \E r \in rows : r.account = q.id /\ r.key = q.wanted[m]
    BY <1>1, <1>2, <1>5 DEF FitsCovered
  <2> QED BY <1>4, <2>1
<1> QED BY <1>2, <1>7, <1>8 DEF FitsBook, FitsSum, At

LEMMA LoseFits ==
  ASSUME BaseInv, BookInv, NEW p \in Requests, LoseRow(p)
  PROVE  FitsBook(p)'
<1>1. PICK q : q = request[p]
  OBVIOUS
<1>2. /\ amid' = amid /\ rows' = rows
      /\ At(p, "import", "insert") /\ At(p, "import", "insert")'
      /\ request'[p].id = q.id /\ request'[p].wanted = q.wanted
      /\ request'[p].todo \subseteq q.todo /\ request'[p].found = TRUE
  BY <1>1, LoseStep DEF books
<1>3. FitsStored(p)
  BY DEF BookInv, ImportsFit
<1>4. FitsStored(p)'
  BY <1>1, <1>2, <1>3 DEF FitsStored, Overlapped
<1> QED BY <1>2, <1>4 DEF FitsBook, FitsCovered, FitsSum, At

\* The balance an anchor starts from is what the account held before its rows, if
\* nothing has still to be counted.
LEMMA AnchorFits ==
  ASSUME BaseInv, BookInv, NEW p \in Requests, NEW a \in Accounts, BeginAnchor(p, a)
  PROVE  FitsBook(p)'
<1>1. /\ Goes(p) /\ Fresh(p) /\ At(p, "anchor", "sum")' /\ request'[p].id = a
      /\ request'[p].wanted = balance[a] /\ UNCHANGED books
  BY AnchorBegins DEF BeginAnchor
<1>2. FitsSum(p)'
  <2> SUFFICES ASSUME a \notin drifted, Clean(p)'
               PROVE  balance[a] = base[a] + Held(rows, a)
    BY <1>1 DEF FitsSum, At, books, Held
  <2>1. ASSUME NEW o \in Requests, request[o].op = "import", request[o].id = a
        PROVE  FALSE
    <3>1. Active(o) /\ o # p
      BY <1>1, <2>1 DEF Active, Fresh
    <3>2. About(request[o]) \in amid'[p]
      BY <1>1, <3>1, FreshBegins DEF Begins
    <3> QED BY <1>1, <2>1, <3>2 DEF Clean, About
  <2>2. PendingOf(request, a) = 0
    BY <2>1, DueInt, NonePending
  <2>3. balance[a] + PendingOf(request, a) = base[a] + Held(rows, a)
    BY DEF BookInv, Balanced
  <2>4. balance[a] \in Int
    BY DEF BaseInv, BooksTyped
  <2> QED BY <2>2, <2>3, <2>4
<1> QED BY <1>1, <1>2 DEF FitsBook, FitsStored, FitsCovered, At

LEMMA SumFits ==
  ASSUME BaseInv, BookInv, NEW p \in Requests, AnchorSum(p)
  PROVE  FitsBook(p)'
<1>1. PICK q : q = request[p]
  OBVIOUS
<1>2. /\ q.op = "anchor" /\ q.at = "sum" /\ q.id \in Accounts
      /\ At(p, "anchor", "stamp")' /\ request'[p].id = q.id /\ amid' = amid
      /\ UNCHANGED books /\ request'[p].wanted = q.wanted - Held(rows, q.id)
  BY <1>1, AnchorSums, HeldIs DEF AnchorSum, At, BaseInv, AllFit, Fit, FitsAnchor
<1>3. FitsSum(p)'
  <2> SUFFICES ASSUME q.id \notin drifted, Clean(p)'
               PROVE  request'[p].wanted = base[q.id]
    BY <1>2 DEF FitsSum, At, books
  <2>1. Clean(p)
    BY <1>1, <1>2 DEF Clean
  <2>2. q.wanted = base[q.id] + Held(rows, q.id)
    BY <1>1, <1>2, <2>1 DEF BookInv, ImportsFit, FitsSum
  <2>3. base[q.id] \in Int /\ Held(rows, q.id) \in Int
    BY <1>2, HeldInt DEF BaseInv, BooksTyped
  <2> QED BY <1>2, <2>2, <2>3
<1> QED BY <1>2, <1>3 DEF FitsBook, FitsStored, FitsCovered, At

LEMMA OwnFits ==
  ASSUME BaseInv, BookInv, NEW p \in Requests,
         BookSteps(p) \/ (GoalSteps(p) /\ UNCHANGED books)
  PROVE  FitsBook(p)'
<1>1. CASE GoalSteps(p)
  BY <1>1, GoalOps, FitsElse
<1>2. CASE Fresh(p) /\ BookRequest(p)
  <2>1. ASSUME NEW a \in Accounts, NEW file \in Files, BeginImport(p, a, file)
        PROVE  FitsBook(p)'
    BY <2>1, ImportBegins, FitsElse DEF At
  <2>2. ASSUME request'[p].op = "done" PROVE FitsBook(p)'
    BY <2>2, FitsElse
  <2> QED
    BY <1>2, <2>1, <2>2, EnterStep, EraseStep, DoneStep, AnchorFits DEF BookRequest, Archive
<1>3. CASE Active(p) /\ BookStep(p)
  <2>1. ASSUME Finish(p) PROVE FitsBook(p)'
    BY <1>3, <2>1, EndStep, FitsElse
  <2> QED
    BY <1>3, <2>1, SumFits, DedupeFits, InsertFits, LoseFits
    DEF BookStep, AnchorStamp, ApplyImport, ImportDies
<1> QED BY <1>1, <1>2, <1>3 DEF BookSteps

LEMMA BookInvStep == BaseInv /\ BaseInv' /\ BookInv /\ Next => BookInv'
<1> SUFFICES ASSUME BaseInv, BaseInv', BookInv, Next PROVE BookInv'
  OBVIOUS
<1>1. PICK p \in Requests : Goes(p) /\ (BookSteps(p) \/ (GoalSteps(p) /\ UNCHANGED books))
  BY NextSteps
<1>2. RowsMove(p)
  BY <1>1, AllMove
<1>3. Balanced' /\ RowsFresh' /\ ImportedOnce'
  BY <1>1, <1>2, BalancedStep, FreshStep, OnceStep
<1>4. ImportsFit'
  BY <1>1, <1>2, OthersFit, OwnFits DEF ImportsFit, FitsBook
<1> QED BY <1>3, <1>4 DEF BookInv


-----------------------------------------------------------------------------
(* The theorems.                                                           *)

Inv == BaseInv /\ GoalInv /\ BookInv /\ failures \in Nat

LEMMA FailuresStep ==
  ASSUME failures \in Nat, Next
  PROVE  failures' \in Nat
<1>1. PICK p \in Requests : BookRequest(p) \/ BookStep(p) \/ GoalRequest(p) \/ GoalStep(p)
  BY DEF Next
<1>2. CASE BookRequest(p)
  BY <1>2 DEF BookRequest, Enter, Erase, Archive, BeginAnchor, BeginImport
<1>3. CASE BookStep(p)
  <2>1. CASE LoseRow(p) \/ ImportDies(p)
    <3>1. failures' = failures + 1
      BY <2>1 DEF LoseRow, ImportDies
    <3> QED BY <3>1
  <2>2. CASE ~(LoseRow(p) \/ ImportDies(p))
    <3>1. failures' = failures
      BY <1>3, <2>2 DEF BookStep, AnchorSum, AnchorStamp, Dedupe, InsertRow, ApplyImport
    <3> QED BY <3>1
  <2> QED BY <2>1, <2>2
<1>4. CASE GoalRequest(p)
  BY <1>4 DEF GoalRequest, BeginCreateGoal, BeginUpdateGoal, Contribute, RemoveGoal
<1>5. CASE GoalStep(p)
  BY <1>5 DEF GoalStep, CreateGoal, ReadNew, ReadOld, Relink, SaveGoal, ContributeLook,
     ContributeAgain
<1> QED BY <1>1, <1>2, <1>3, <1>4, <1>5

LEMMA IdleFits == Fit(Idle) /\ ~(Idle.op \in {"import", "anchor"})
BY IdleIs DEF Fit, Ops, FitsAnchor, FitsImport, FitsCreate, FitsUpdate, FitsContribute

LEMMA InitHolds ==
  ASSUME Init
  PROVE  Inv
<1>1. /\ \A p \in Requests : request[p] = Idle /\ request[p].op = "none"
      /\ request = [p \in Requests |-> request[p]]
      /\ amid = [p \in Requests |-> amid[p]]
  BY IdleIs DEF Init
<1>2. AllFit
  BY <1>1, IdleFits DEF AllFit
<1>3. Witnessed
  BY <1>1 DEF Witnessed, Active
<1>4. /\ base = [a \in Accounts |-> 0] /\ balance = base /\ rows = {} /\ drifted = {}
      /\ opening \in [Accounts -> {0, Unset}] /\ archived = [a \in Accounts |-> FALSE]
  BY DEF Init
<1>5. BooksTyped
  BY <1>4, FS_EmptySet DEF BooksTyped
<1>6. /\ goals \in [1 .. NumGoals -> NewGoals \cup {NoGoal}]
      /\ owed = [g \in 1 .. NumGoals |-> 0]
  BY DEF Init
<1>7. ASSUME NEW goal \in NewGoals \cup {NoGoal}
      PROVE  goal \in Goal /\ ~Linked(goal) /\ goal.baseline = 0 /\ goal.current = 0
  BY DEF NewGoals, NoGoal, Goal, Linked
<1>8. GoalsTyped
  BY <1>6, <1>7 DEF GoalsTyped
<1>9. GoalInv
  BY <1>6, <1>7 DEF GoalInv, Progress
<1>10. BaseInv
  BY <1>2, <1>3, <1>5, <1>8 DEF BaseInv
<1>11. Balanced
  <2> SUFFICES ASSUME NEW a \in Accounts
               PROVE  balance[a] + PendingOf(request, a) = base[a] + Held(rows, a)
    BY DEF Balanced
  <2>1. PendingOf(request, a) = 0
    <3>1. \A p \in Requests : ~(request[p].op = "import" /\ request[p].id = a)
      BY <1>1
    <3> QED BY <1>10, <3>1, DueInt, NonePending
  <2>2. Held(rows, a) = 0
    <3>1. {r \in {} : r.account = a} = {}
      OBVIOUS
    <3>2. PICK g \in [SUBSET {} -> Int] : AreSums({}, Signed({}), g) /\ Sum({}) = g[{}]
      BY FS_EmptySet, SumIs
    <3>3. g[{}] = 0
      BY <3>2 DEF AreSums
    <3> QED BY <1>4, <3>1, <3>2, <3>3 DEF Held
  <2> QED BY <1>4, <2>1, <2>2
<1>12. RowsFresh /\ ImportedOnce
  BY <1>4 DEF RowsFresh, ImportedOnce
<1>13. ImportsFit
  BY <1>1 DEF ImportsFit, FitsStored, FitsCovered, FitsSum, At
<1>14. failures \in Nat
  BY DEF Init
<1> QED BY <1>9, <1>10, <1>11, <1>12, <1>13, <1>14 DEF Inv, BookInv

LEMMA StuttersHold ==
  ASSUME Inv, UNCHANGED vars
  PROVE  Inv'
<1>1. UNCHANGED <<balance, opening, archived, rows, base, drifted, goals, owed, stale, mixed,
                  request, amid>>
  BY DEF vars, books, progress
<1>2. BaseInv'
  BY <1>1 DEF Inv, BaseInv, AllFit, Witnessed, Active, BooksTyped, GoalsTyped, Linked
<1>3. GoalInv'
  BY <1>1 DEF Inv, GoalInv, Progress, Linked
<1>4. Balanced'
  BY <1>1, BalancedIs DEF Inv, BookInv, Balanced
<1>5. RowsFresh' /\ ImportedOnce'
  BY <1>1 DEF Inv, BookInv, RowsFresh, ImportedOnce
<1>6. ImportsFit'
  BY <1>1 DEF Inv, BookInv, ImportsFit, FitsStored, FitsCovered, FitsSum, At, Overlapped,
     Clean
<1>7. failures' \in Nat
  BY DEF Inv, vars
<1> QED BY <1>2, <1>3, <1>4, <1>5, <1>6, <1>7 DEF Inv, BookInv

LEMMA InvHolds == Spec => []Inv
<1>1. Init => Inv
  BY InitHolds
<1>2. Inv /\ [Next]_vars => Inv'
  <2> SUFFICES ASSUME Inv, [Next]_vars PROVE Inv'
    OBVIOUS
  <2>1. CASE Next
    BY <2>1, BaseStep, GoalInvStep, BookInvStep, FailuresStep DEF Inv
  <2>2. CASE UNCHANGED vars
    BY <2>2, StuttersHold
  <2> QED BY <2>1, <2>2
<1> QED BY <1>1, <1>2, PTL DEF Spec

\* The balance of an account counts exactly the rows that landed, and no row of a
\* statement lands twice, however many uploads, edits and failures overlap
\* (importTransactions(), transactions.service.ts).
THEOREM ImportsAlwaysHold ==
  Spec => []ImportsHold
<1>1. Inv => ImportsHold
  <2> SUFFICES ASSUME Inv PROVE ImportsHold
    OBVIOUS
  <2>1. \A r \in rows : r.account \in Accounts /\ r.key \in Keys /\ r.by \in Requests
    BY DEF Inv, BaseInv, BooksTyped, Row
  <2>2. \A g \in 1 .. NumGoals :
          /\ goals[g].account \in Accounts \cup {NoAccount}
          /\ goals[g].type \in Types \cup {None}
          /\ ~Linked(goals[g]) => goals[g].baseline = 0
    BY DEF Inv, BaseInv, GoalsTyped, Goal
  <2>3. TypeOK
    BY <2>1, <2>2 DEF TypeOK, Inv, BaseInv, BooksTyped
  <2> QED BY <2>3, BalancedIs DEF ImportsHold, Inv, BookInv
<1> QED BY <1>1, InvHolds, PTL

\* What a goal shows is what was contributed to it and what its account has moved
\* by, and it tracks an account of its class (goals.service.ts).
THEOREM GoalsAlwaysHold ==
  Spec => []GoalsHold
<1>1. Inv => GoalsHold
  BY GoalInvIs DEF Inv, BaseInv, GoalsHold
<1> QED BY <1>1, InvHolds, PTL

\* A step that ends an upload in its last step is its own.
LEMMA OwnEnd ==
  ASSUME Inv, Next, NEW p \in Requests, request'[p] # request[p],
         request[p].op \in {"import", "anchor"}
  PROVE  Active(p) /\ BookStep(p)
<1>1. PICK r \in Requests : BookSteps(r) \/ GoalSteps(r)
  BY DEF Next, BookSteps, GoalSteps
<1>2. Goes(r)
  BY <1>1, BookGoes, GoalGoes DEF Inv
<1>3. r = p
  BY <1>2 DEF Goes, Moves, Begins, Only
<1>4. ~Fresh(p) /\ ~GoalSteps(p)
  BY GoalOps DEF Fresh, Inv
<1> QED BY <1>1, <1>3, <1>4 DEF BookSteps

\* A finished upload left out nothing that could be read, but for what the member
\* was told of, or whatever overlapped (transactions.service.ts).
LEMMA UploadLeavesNothingOut ==
  ASSUME Inv, Next, NEW p \in Requests, At(p, "import", "insert"), request'[p].op = "done",
         failures' = failures, ~request[p].found, amid[p] = {}
  PROVE  \A n \in DOMAIN request[p].wanted :
           \/ request[p].wanted[n] = Bad
           \/ \E r \in RowsOf(request[p].id) : r.key = request[p].wanted[n]
<1>1. Active(p) /\ BookStep(p)
  BY OwnEnd DEF At
<1>2. ApplyImport(p)
  <2>1. ~InsertRow(p)
    BY InsertStep DEF At, Inv
  <2>2. ~LoseRow(p)
    BY LoseStep DEF At, Inv
  <2>3. ~ImportDies(p)
    BY DEF ImportDies, Inv
  <2> QED BY <1>1, <2>1, <2>2, <2>3 DEF BookStep, AnchorSum, AnchorStamp, Dedupe, At
<1>3. request[p].todo = {}
  BY <1>2 DEF ApplyImport
<1>4. FitsCovered(p)
  BY DEF Inv, BookInv, ImportsFit
<1> QED BY <1>3, <1>4, HeldIs DEF FitsCovered


\* The anchor that a boot stamps: what the account held before its ledger, when
\* no write overlapped; and no later boot spoils it (accounts.service.ts).
LEMMA StampIsSound ==
  ASSUME Inv, Next, NEW p \in Requests, At(p, "anchor", "stamp"), request'[p].op = "done",
         \/ opening[request[p].id] = base[request[p].id]
         \/ opening[request[p].id] = Unset /\ Clean(p) /\ request[p].id \notin drifted
  PROVE  opening'[request[p].id] = base[request[p].id]
<1>1. Active(p) /\ BookStep(p)
  BY OwnEnd DEF At
<1>2. AnchorStamp(p)
  BY <1>1 DEF BookStep, AnchorSum, Dedupe, InsertRow, LoseRow, ApplyImport, ImportDies, At
<1>3. PICK q : q = request[p]
  OBVIOUS
<1>4. q.op = "anchor" /\ q.at = "stamp" /\ q.id \in Accounts
  BY <1>3 DEF At, Inv, BaseInv, AllFit, Fit, FitsAnchor
<1>5. opening \in [Accounts -> Int \cup {Unset}] /\ base[q.id] \in Int /\ Unset \notin Int
  BY <1>4, AccountsAssumption DEF Inv, BaseInv, BooksTyped
<1>6. opening'[q.id] = IF opening[q.id] = Unset THEN q.wanted ELSE opening[q.id]
  BY <1>2, <1>3, <1>4, <1>5 DEF AnchorStamp
<1>7. CASE opening[q.id] = base[q.id]
  BY <1>3, <1>5, <1>6, <1>7
<1>8. CASE opening[q.id] = Unset /\ Clean(p) /\ q.id \notin drifted
  <2>1. FitsSum(p)
    BY DEF Inv, BookInv, ImportsFit
  <2>2. q.wanted = base[q.id]
    BY <1>3, <1>4, <1>8, <2>1 DEF FitsSum
  <2> QED BY <1>3, <1>6, <1>8, <2>2
<1> QED BY <1>3, <1>7, <1>8

\* An upload leaves out nothing: at its end every row of the file that could be
\* read is stored, or the member was told, or something overlapped with it
\* (importTransactions(), transactions.service.ts).
THEOREM UploadsLeaveNothingOut ==
  Spec => LeavesNothingOut
<1>1. Inv /\ [Next]_vars =>
        [\A p \in Requests :
           At(p, "import", "insert") /\ request'[p].op = "done" /\ failures' = failures
                                     /\ ~request[p].found /\ amid[p] = {} =>
             \A n \in DOMAIN request[p].wanted :
               \/ request[p].wanted[n] = Bad
               \/ \E r \in RowsOf(request[p].id) : r.key = request[p].wanted[n]]_vars
  BY UploadLeavesNothingOut DEF vars
<1> QED BY <1>1, InvHolds, PTL DEF Spec, LeavesNothingOut

\* The anchor a boot gives an account is what it held before its ledger, when no
\* write to its ledger overlapped with the boot, and no later boot writes over it
\* (backfillOpeningBalances(), setOpeningBalanceIfUnset(), accounts.service.ts).
THEOREM AnchorsAreSound ==
  Spec => AnchorSound
<1>1. ASSUME Inv, Next, NEW p \in Requests, At(p, "anchor", "stamp"), request'[p].op = "done"
      PROVE  LET a == request[p].id
                 clean == amid[p] \cap [op : {"done", "import"}, id : {a}] = {}
             IN  \/ opening[a] = base[a]
                 \/ opening[a] = Unset /\ clean /\ a \notin drifted
                 => opening'[a] = base[a]
  BY <1>1, StampIsSound DEF Clean
<1>2. Inv /\ [Next]_vars =>
        [\A p \in Requests :
           At(p, "anchor", "stamp") /\ request'[p].op = "done" =>
             LET a == request[p].id
                 clean == amid[p] \cap [op : {"done", "import"}, id : {a}] = {}
             IN  \/ opening[a] = base[a]
                 \/ opening[a] = Unset /\ clean /\ a \notin drifted
                 => opening'[a] = base[a]]_vars
  BY <1>1 DEF vars
<1> QED BY <1>2, InvHolds, PTL DEF Spec, AnchorSound
=============================================================================
