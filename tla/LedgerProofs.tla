---------------------------- MODULE LedgerProofs ----------------------------
(***************************************************************************)
(* Ledger.tla for any accounts, any number of rows, requests, sweeps and   *)
(* failures: type correctness, the two safety invariants, and that it      *)
(* implements Books.tla when each row has one editor at a time and nothing *)
(* fails, where an observer adds the increments in flight.                 *)
(***************************************************************************)
EXTENDS Ledger, WellFoundedInduction, TLAPS

-----------------------------------------------------------------------------
(* What SumTo computes, for every length and every integer sequence: the   *)
(* recursive function is well defined, a sum of zeros is zero, and changing*)
(* one term changes the sum by the difference.  Induction is replaced by   *)
(* the least element of the set of counterexamples.                        *)

LessThan == {pair \in Nat \X Nat : pair[1] < pair[2]}

\* Every nonempty set of naturals has a least element.
LEMMA LeastElement ==
  ASSUME NEW T \in SUBSET Nat, T # {}
  PROVE  \E m \in T : \A n \in T : m <= n
<1>1. IsWellFoundedOn(LessThan, Nat)
  BY NatLessThanWellFounded DEF OpToRel, LessThan
<1>2. PICK m \in T : \A n \in T : ~(<<n, m>> \in LessThan)
  BY <1>1, WFMin
<1>3. \A i, j \in Nat : i < j => <<i, j>> \in LessThan
  BY DEF LessThan
<1>4. ASSUME NEW n \in T PROVE m <= n
  <2>1. m \in Nat /\ n \in Nat
    OBVIOUS
  <2>2. ~(n < m)
    BY <1>2, <1>3, <2>1
  <2> QED
    BY <2>1, <2>2
<1> QED
  BY <1>4

\* g lists the prefix sums of e up to n.
AreSums(n, e, g) ==
  g = [i \in 0 .. n |-> IF i = 0 THEN 0 ELSE g[i - 1] + e[i]]

\* The prefix sums of a sequence of integers exist and are integers.
LEMMA SumsExist ==
  ASSUME NEW n \in Nat, NEW e \in [1 .. n -> Int]
  PROVE  \E g \in [0 .. n -> Int] : AreSums(n, e, g)
<1> DEFINE Bad == {k \in Nat : k <= n /\ ~ \E g \in [0 .. k -> Int] : AreSums(k, e, g)}
<1>1. SUFFICES ASSUME Bad # {} PROVE FALSE
  OBVIOUS
<1>2. PICK k \in Bad : \A j \in Bad : k <= j
  BY <1>1, LeastElement
<1>3. CASE k = 0
  <2>1. [i \in 0 .. 0 |-> 0] \in [0 .. 0 -> Int]
    OBVIOUS
  <2>2. AreSums(0, e, [i \in 0 .. 0 |-> 0])
    BY DEF AreSums
  <2> QED
    BY <1>3, <2>1, <2>2
<1>4. CASE k # 0
  <2>1. k \in Nat /\ k - 1 \in Nat /\ k <= n
    BY <1>4
  <2>2. k - 1 \notin Bad
    BY <1>2, <2>1
  <2>3. PICK g \in [0 .. k - 1 -> Int] : AreSums(k - 1, e, g)
    BY <2>1, <2>2
  <2> DEFINE h == [i \in 0 .. k |-> IF i = k THEN g[k - 1] + e[k] ELSE g[i]]
  <2>4. e[k] \in Int /\ g[k - 1] \in Int
    BY <2>1, <1>4
  <2>5. h \in [0 .. k -> Int]
    BY <2>1, <2>4
  <2>6. \A i \in 0 .. k : h[i] = IF i = 0 THEN 0 ELSE h[i - 1] + e[i]
    <3> TAKE i \in 0 .. k
    <3>1. CASE i = k
      BY <3>1, <1>4, <2>1
    <3>2. CASE i # k
      <4>1. i \in 0 .. k - 1 /\ (i # 0 => i - 1 \in 0 .. k - 1)
        BY <3>2, <2>1
      <4>2. g[i] = IF i = 0 THEN 0 ELSE g[i - 1] + e[i]
        BY <2>3, <4>1 DEF AreSums
      <4> QED
        BY <4>1, <4>2, <3>2, <2>1
    <3> QED
      BY <3>1, <3>2
  <2>7. AreSums(k, e, h)
    BY <2>6 DEF AreSums
  <2> QED
    BY <2>5, <2>7
<1> QED
  BY <1>3, <1>4

\* The recursive function is one of them.
LEMMA PrefixSumsWork ==
  ASSUME NEW n \in Nat, NEW e \in [1 .. n -> Int]
  PROVE  AreSums(n, e, PrefixSums(n, e))
<1>1. \E g : AreSums(n, e, g)
  BY SumsExist
<1> QED
  BY <1>1 DEF AreSums, PrefixSums

\* There is only one list of prefix sums.
LEMMA SumsUnique ==
  ASSUME NEW n \in Nat, NEW e \in [1 .. n -> Int], NEW g, NEW h,
         AreSums(n, e, g), AreSums(n, e, h)
  PROVE  g = h
<1> DEFINE Bad == {i \in Nat : i <= n /\ g[i] # h[i]}
<1>1. ASSUME Bad # {} PROVE FALSE
  <2>1. PICK k \in Bad : \A j \in Bad : k <= j
    BY <1>1, LeastElement
  <2>2. k \in Nat /\ k <= n /\ g[k] # h[k]
    OBVIOUS
  <2>3. g[k] = (IF k = 0 THEN 0 ELSE g[k - 1] + e[k])
        /\ h[k] = (IF k = 0 THEN 0 ELSE h[k - 1] + e[k])
    BY <2>2 DEF AreSums
  <2>4. k # 0 => g[k - 1] = h[k - 1]
    BY <2>1, <2>2
  <2> QED
    BY <2>2, <2>3, <2>4
<1>2. \A i \in 0 .. n : g[i] = h[i]
  BY <1>1
<1> QED
  BY <1>2 DEF AreSums

\* A sum of integers is the last prefix sum, and an integer.
LEMMA SumToIs ==
  ASSUME NEW n \in Nat, NEW e \in [1 .. n -> Int], NEW g, AreSums(n, e, g)
  PROVE  SumTo(n, e) = g[n]
BY PrefixSumsWork, SumsUnique DEF SumTo

LEMMA SumToInt ==
  ASSUME NEW n \in Nat, NEW e \in [1 .. n -> Int]
  PROVE  SumTo(n, e) \in Int
<1>1. PICK g \in [0 .. n -> Int] : AreSums(n, e, g)
  BY SumsExist
<1>2. SumTo(n, e) = g[n]
  BY <1>1, SumToIs
<1> QED
  BY <1>1, <1>2

\* A sum of zeros is zero.
LEMMA SumToZero ==
  ASSUME NEW n \in Nat, NEW e \in [1 .. n -> Int], \A i \in 1 .. n : e[i] = 0
  PROVE  SumTo(n, e) = 0
<1> DEFINE g == [i \in 0 .. n |-> 0]
<1>1. AreSums(n, e, g)
  <2>1. \A i \in 0 .. n : g[i] = IF i = 0 THEN 0 ELSE g[i - 1] + e[i]
    OBVIOUS
  <2> QED
    BY <2>1 DEF AreSums
<1>2. SumTo(n, e) = g[n]
  BY <1>1, SumToIs
<1> QED
  BY <1>2

\* Changing term k of a sum moves the sum by the change of that term.
LEMMA SumToUpdate ==
  ASSUME NEW n \in Nat, NEW e \in [1 .. n -> Int], NEW f \in [1 .. n -> Int],
         NEW k \in 1 .. n, \A i \in 1 .. n : i # k => f[i] = e[i]
  PROVE  SumTo(n, f) = SumTo(n, e) + f[k] - e[k]
<1>1. PICK g \in [0 .. n -> Int] : AreSums(n, e, g)
  BY SumsExist
<1> DEFINE h == [i \in 0 .. n |-> IF i < k THEN g[i] ELSE g[i] + f[k] - e[k]]
<1>2. \A i \in 0 .. n : h[i] = IF i = 0 THEN 0 ELSE h[i - 1] + f[i]
  <2> TAKE i \in 0 .. n
  <2>1. g[i] = IF i = 0 THEN 0 ELSE g[i - 1] + e[i]
    BY <1>1 DEF AreSums
  <2>2. i # 0 => /\ i \in 1 .. n /\ i - 1 \in 0 .. n
                 /\ g[i - 1] \in Int /\ g[i] \in Int
    OBVIOUS
  <2>3. f[k] \in Int /\ e[k] \in Int
    OBVIOUS
  <2>4. CASE i = 0
    BY <2>1, <2>4
  <2>5. CASE i # 0 /\ i < k
    BY <2>1, <2>2, <2>5
  <2>6. CASE i # 0 /\ i = k
    BY <2>1, <2>2, <2>3, <2>6
  <2>7. CASE i # 0 /\ i > k
    <3>1. f[i] = e[i] /\ e[i] \in Int
      BY <2>7, <2>2
    <3> QED
      BY <2>1, <2>2, <2>3, <2>7, <3>1
  <2> QED
    BY <2>4, <2>5, <2>6, <2>7
<1>3. AreSums(n, f, h)
  BY <1>2 DEF AreSums
<1>4. SumTo(n, f) = h[n] /\ SumTo(n, e) = g[n]
  BY <1>1, <1>3, SumToIs
<1> QED
  BY <1>4

USE DEF Rows, Requests, SweepRecord, RaceLevel

-----------------------------------------------------------------------------
(* The operators on rows and requests.                                     *)

LEMMA RowTypes ==
  /\ NoRow \in StoredRow
  /\ DeletedRow \in StoredRow
  /\ ValidRow \subseteq StoredRow
BY RowsAssumption DEF NoRow, DeletedRow, StoredRow, ValidRow, Kinds

LEMMA StoredRowFields ==
  ASSUME NEW row \in StoredRow
  PROVE  row.amount \in Int /\ row.type \in Kinds \cup {"none", "deleted"}
<1>1. Amounts \cup {0} \subseteq Int
  BY RowsAssumption
<1> QED
  BY <1>1 DEF StoredRow

\* The aggregation by cases.
LEMMA LedgerDeltaCases ==
  ASSUME NEW row \in StoredRow, NEW a \in Accounts
  PROVE  LedgerDelta(row, a) =
           (IF row.account = a THEN SourceDelta(row) ELSE 0)
           + (IF row.type = "transfer" /\ row.transferAccount = a
              THEN row.amount ELSE 0)
<1>1. row.amount \in Int
  BY StoredRowFields
<1>2. /\ row.amount * 1 = row.amount
      /\ row.amount * (-1) = -row.amount
      /\ row.amount * 0 = 0
  BY <1>1
<1> QED
  BY <1>2 DEF LedgerDelta, SourceDelta

\* A row counts an integer for an account, and nothing for the others.
LEMMA LedgerDeltaInt ==
  ASSUME NEW row \in StoredRow, NEW a \in Accounts
  PROVE  /\ LedgerDelta(row, a) \in Int
         /\ a \notin AccountsOf(row) => LedgerDelta(row, a) = 0
<1>1. row.amount \in Int /\ SourceDelta(row) \in Int
  BY StoredRowFields DEF SourceDelta
<1>2. a # NoAccount
  BY RowsAssumption
<1> QED
  BY <1>1, <1>2, LedgerDeltaCases DEF AccountsOf

\* Absent rows count nothing.
LEMMA LedgerDeltaNone ==
  ASSUME NEW a \in Accounts
  PROVE  LedgerDelta(NoRow, a) = 0 /\ LedgerDelta(DeletedRow, a) = 0
BY RowsAssumption DEF LedgerDelta, NoRow, DeletedRow

\* A request record; `after` may be any stored row, which is all the lemmas
\* about legs need.
Requestish ==
  [pc : {"new", "read", "sync", "done", "failed"}, row : Rows \cup {0},
   before : StoredRow, after : StoredRow, legs : SUBSET (1 .. 4)]

LEMMA RecordIsRequestish ==
  RequestRecord \subseteq Requestish
BY RowTypes DEF RequestRecord, Requestish

LEMMA PendingLegInt ==
  ASSUME NEW q \in Requestish, NEW a \in Accounts, NEW leg \in 1 .. 4
  PROVE  LegDelta(q, leg) \in Int /\ PendingLeg(q, leg, a) \in Int
<1>1. leg = 1 \/ leg = 2 \/ leg = 3 \/ leg = 4
  OBVIOUS
<1>2. /\ q.before.amount \in Int /\ q.after.amount \in Int
      /\ q.before.type \in Kinds \cup {"none", "deleted"}
      /\ q.after.type \in Kinds \cup {"none", "deleted"}
  BY StoredRowFields DEF Requestish
<1>3. SourceDelta(q.before) \in Int /\ SourceDelta(q.after) \in Int
  BY <1>2 DEF SourceDelta, Kinds
<1>4. LegDelta(q, leg) \in Int
  BY <1>1, <1>2, <1>3 DEF LegDelta, LegRow
<1> QED
  BY <1>4 DEF PendingLeg

LEMMA PendingInt ==
  ASSUME NEW q \in Requestish, NEW a \in Accounts
  PROVE  /\ Pending(q, a) \in Int
         /\ a \notin Touched(q) => Pending(q, a) = 0
         /\ q.legs = {} => Pending(q, a) = 0
<1>1. /\ PendingLeg(q, 1, a) \in Int /\ PendingLeg(q, 2, a) \in Int
      /\ PendingLeg(q, 3, a) \in Int /\ PendingLeg(q, 4, a) \in Int
  BY PendingLegInt
<1>2. ASSUME a \notin Touched(q), NEW leg \in 1 .. 4
      PROVE  PendingLeg(q, leg, a) = 0
  BY <1>2 DEF Touched, PendingLeg
<1>3. ASSUME q.legs = {}, NEW leg \in 1 .. 4
      PROVE  PendingLeg(q, leg, a) = 0
  BY <1>3 DEF PendingLeg
<1> QED
  BY <1>1, <1>2, <1>3 DEF Pending

\* The legs of an edit add up to the change the aggregation sees: the write path
\* and the aggregation agree about every kind of row.
LEMMA LegsAgree ==
  ASSUME NEW q \in Requestish, NEW a \in Accounts,
         q.legs = Legs(q.before, q.after)
  PROVE  Pending(q, a) = LedgerDelta(q.after, a) - LedgerDelta(q.before, a)
<1> DEFINE b == q.before
           c == q.after
<1>1. b \in StoredRow /\ c \in StoredRow
  BY DEF Requestish
<1>2. /\ 1 \in q.legs <=> b.type # "none"
      /\ 2 \in q.legs <=> b.type = "transfer"
      /\ 3 \in q.legs <=> c.type # "none"
      /\ 4 \in q.legs <=> c.type = "transfer"
  BY DEF Legs, LegsOf
<1>3. /\ LegAccount(q, 1) = b.account /\ LegAccount(q, 2) = b.transferAccount
      /\ LegAccount(q, 3) = c.account /\ LegAccount(q, 4) = c.transferAccount
      /\ LegDelta(q, 1) = -SourceDelta(b) /\ LegDelta(q, 2) = -b.amount
      /\ LegDelta(q, 3) = SourceDelta(c) /\ LegDelta(q, 4) = c.amount
  BY DEF LegAccount, LegDelta, LegRow
<1>7. b.amount \in Int /\ c.amount \in Int
  BY <1>1, StoredRowFields
<1>4. PendingLeg(q, 1, a) + PendingLeg(q, 2, a) = -LedgerDelta(b, a)
  BY <1>1, <1>2, <1>3, <1>7, LedgerDeltaCases DEF PendingLeg, SourceDelta
<1>5. PendingLeg(q, 3, a) + PendingLeg(q, 4, a) = LedgerDelta(c, a)
  BY <1>1, <1>2, <1>3, <1>7, LedgerDeltaCases DEF PendingLeg, SourceDelta
<1>6. /\ PendingLeg(q, 1, a) \in Int /\ PendingLeg(q, 2, a) \in Int
      /\ PendingLeg(q, 3, a) \in Int /\ PendingLeg(q, 4, a) \in Int
      /\ LedgerDelta(b, a) \in Int /\ LedgerDelta(c, a) \in Int
  BY <1>1, PendingLegInt, LedgerDeltaInt
<1> QED
  BY <1>4, <1>5, <1>6 DEF Pending

\* Legs lead to accounts of the two rows only.
LEMMA TouchedOf ==
  ASSUME NEW q \in Requestish, q.legs = Legs(q.before, q.after),
         NEW a \in Accounts, a \in Touched(q)
  PROVE  a \in AccountsOf(q.before) \cup AccountsOf(q.after)
BY RowsAssumption DEF Touched, Legs, LegsOf, LegAccount, LegRow, AccountsOf

-----------------------------------------------------------------------------
(* The sums over rows and requests.                                        *)

LEMMA RequestTyped ==
  ASSUME TypeOK, NEW r \in Requests
  PROVE  request[r] \in Requestish
BY RecordIsRequestish DEF TypeOK

LEMMA LedgerSumInt ==
  ASSUME rows \in [Rows -> StoredRow], NEW a \in Accounts
  PROVE  LedgerSum(a) \in Int
<1>1. [t \in Rows |-> LedgerDelta(rows[t], a)] \in [1 .. NumRows -> Int]
  BY LedgerDeltaInt
<1> QED
  BY <1>1, RowsAssumption, SumToInt DEF LedgerSum, LedgerTotal

LEMMA InFlightInt ==
  ASSUME TypeOK, NEW a \in Accounts
  PROVE  InFlight(a) \in Int
<1>1. [r \in Requests |-> Pending(request[r], a)] \in [1 .. NumRequests -> Int]
  BY RequestTyped, PendingInt
<1> QED
  BY <1>1, LedgerAssumption, SumToInt DEF InFlight

\* Nothing is in flight for an account no request has still to adjust.
LEMMA IdleAccount ==
  ASSUME TypeOK, NEW a \in Accounts, ~Busy(a)
  PROVE  InFlight(a) = 0
<1> DEFINE e == [r \in Requests |-> Pending(request[r], a)]
<1>1. \A r \in Requests : Pending(request[r], a) = 0
  BY RequestTyped, PendingInt DEF Busy
<1>2. e \in [1 .. NumRequests -> Int] /\ \A r \in 1 .. NumRequests : e[r] = 0
  BY <1>1
<1> QED
  BY <1>2, LedgerAssumption, SumToZero DEF InFlight

\* Storing one row moves the ledger sum by the difference it makes.
LEMMA StoreRow ==
  ASSUME TypeOK, NEW t \in Rows, NEW row \in StoredRow,
         rows' = [rows EXCEPT ![t] = row], NEW a \in Accounts
  PROVE  LedgerSum(a)' = LedgerSum(a) + LedgerDelta(row, a)
                         - LedgerDelta(rows[t], a)
<1> DEFINE e == [u \in Rows |-> LedgerDelta(rows[u], a)]
           f == [u \in Rows |-> LedgerDelta(rows'[u], a)]
<1>1. \A u \in Rows : rows[u] \in StoredRow /\ rows'[u] \in StoredRow
  BY DEF TypeOK
<1>2. e \in [1 .. NumRows -> Int] /\ f \in [1 .. NumRows -> Int]
  BY <1>1, LedgerDeltaInt
<1>3. \A u \in 1 .. NumRows : u # t => f[u] = e[u]
  BY DEF TypeOK
<1>4. f[t] = LedgerDelta(row, a) /\ e[t] = LedgerDelta(rows[t], a)
  BY DEF TypeOK
<1>5. SumTo(NumRows, f) = SumTo(NumRows, e) + f[t] - e[t]
  <2> HIDE DEF e, f
  <2> QED
    BY <1>2, <1>3, RowsAssumption, SumToUpdate
<1> QED
  BY <1>4, <1>5 DEF LedgerSum, LedgerTotal

\* Moving one request on moves the increments in flight by its own difference.
LEMMA MoveRequest ==
  ASSUME TypeOK, NEW r \in Requests, NEW q \in Requestish,
         request' = [request EXCEPT ![r] = q], NEW a \in Accounts
  PROVE  InFlight(a)' = InFlight(a) + Pending(q, a) - Pending(request[r], a)
<1> DEFINE e == [s \in Requests |-> Pending(request[s], a)]
           f == [s \in Requests |-> Pending(request'[s], a)]
<1>1. \A s \in Requests : request[s] \in Requestish /\ request'[s] \in Requestish
  BY RequestTyped DEF TypeOK
<1>2. e \in [1 .. NumRequests -> Int] /\ f \in [1 .. NumRequests -> Int]
  BY <1>1, PendingInt
<1>3. \A s \in 1 .. NumRequests : s # r => f[s] = e[s]
  BY DEF TypeOK
<1>4. f[r] = Pending(q, a) /\ e[r] = Pending(request[r], a)
  BY DEF TypeOK
<1>5. SumTo(NumRequests, f) = SumTo(NumRequests, e) + f[r] - e[r]
  <2> HIDE DEF e, f
  <2> QED
    BY <1>2, <1>3, LedgerAssumption, SumToUpdate
<1> QED
  BY <1>4, <1>5 DEF InFlight

-----------------------------------------------------------------------------
(* Type correctness.                                                       *)

LEMMA NotedType ==
  ASSUME TypeOK, NEW S
  PROVE  /\ Noted(S) \in [Reconcilers -> [Accounts -> RaceLevel]]
         /\ Blurred(S) \in [Reconcilers -> [Accounts -> RaceLevel]]
BY DEF TypeOK, Noted, Blurred, More

LEMMA PatchedType ==
  ASSUME NEW current \in StoredRow, NEW before \in StoredRow,
         NEW after \in StoredRow
  PROVE  Patched(current, before, after) \in StoredRow
BY DEF Patched, StoredRow

LEMMA LegsType ==
  ASSUME NEW before, NEW after
  PROVE  Legs(before, after) \in SUBSET (1 .. 4)
BY DEF Legs, LegsOf

\* What a request holds in each state of its progress.
WellFormed ==
  \A r \in Requests :
    /\ request[r].pc \in {"read", "sync"} => request[r].row \in Rows
    /\ request[r].pc # "sync" => request[r].legs = {}

\* A request that moves on has a request record again.
LEMMA MovedType ==
  ASSUME NEW q \in RequestRecord, NEW legs \in SUBSET (1 .. 4),
         NEW pc \in {"new", "read", "sync", "done", "failed"}
  PROVE  /\ Moved(q, pc, legs) \in RequestRecord
         /\ Moved(q, pc, legs).pc = pc
         /\ Moved(q, pc, legs).row = q.row
         /\ Moved(q, pc, legs).before = q.before
         /\ Moved(q, pc, legs).after = q.after
         /\ Moved(q, pc, legs).legs = legs
BY DEF RequestRecord, Moved

LEMMA RequestFields ==
  ASSUME TypeOK, NEW r \in Requests
  PROVE  /\ request[r] \in RequestRecord
         /\ request[r].before \in StoredRow
         /\ request[r].after \in ValidRow \cup {NoRow}
         /\ request[r].after \in StoredRow
         /\ request[r].legs \in SUBSET (1 .. 4)
<1>1. request[r] \in RequestRecord
  BY DEF TypeOK
<1> QED
  BY <1>1, RowTypes DEF RequestRecord

LEMMA RequestMove ==
  ASSUME TypeOK, WellFormed, NEW r \in Requests, NEW q \in RequestRecord,
         q.pc \in {"read", "sync"} => q.row \in Rows,
         q.pc # "sync" => q.legs = {},
         request' = [request EXCEPT ![r] = q]
  PROVE  request' \in [Requests -> RequestRecord] /\ WellFormed'
BY DEF TypeOK, WellFormed

LEMMA InitTyped == Init => TypeOK /\ WellFormed
<1> SUFFICES ASSUME Init PROVE TypeOK /\ WellFormed
  OBVIOUS
<1>2. rows \in [Rows -> StoredRow]
  BY RowTypes, StockAssumption DEF Init
<1>1. balance \in [Accounts -> Int] /\ opening \in [Accounts -> Int]
  <2>1. opening \in [Accounts -> Int]
    BY RowsAssumption DEF Init
  <2>2. ASSUME NEW a \in Accounts
        PROVE  opening[a] + LedgerSum(a) \in Int
    BY <1>2, <2>1, LedgerSumInt
  <2> QED
    BY <2>1, <2>2 DEF Init
<1>3. sweep \in [Reconcilers -> SweepRecord]
  BY DEF Init, IdleSweep, Zero
<1>4. race \in [Reconcilers -> [Accounts -> RaceLevel]]
  BY DEF Init, NoRace
<1>5. WellFormed
  BY DEF Init, WellFormed, Unread
<1>6. failures \in 0 .. MaxFailures /\ tainted \in SUBSET Accounts
  BY LedgerAssumption DEF Init
<1>7. request \in [Requests -> RequestRecord]
  <2>1. Unread \in RequestRecord
    BY RowTypes DEF Unread, RequestRecord
  <2> QED
    BY <2>1 DEF Init
<1> QED
  BY <1>1, <1>2, <1>3, <1>4, <1>5, <1>6, <1>7 DEF TypeOK

LEMMA PersistTyped ==
  ASSUME TypeOK, WellFormed, NEW r \in Requests, request[r].pc = "read",
         NEW stored \in StoredRow, Persist(r, stored)
  PROVE  TypeOK' /\ WellFormed'
<1> DEFINE q == request[r]
           involved == UNION {AccountsOf(row) : row \in
                                {q.before, q.after, rows[q.row], stored}}
<1>1. q.row \in Rows
  BY DEF WellFormed
<1>2. rows' \in [Rows -> StoredRow]
  BY <1>1 DEF Persist, TypeOK
<1>3. /\ q.before \in StoredRow /\ q.after \in ValidRow \cup {NoRow}
      /\ q.after \in StoredRow /\ rows[q.row] \in StoredRow
  BY <1>1, RequestFields DEF TypeOK
<1>4. Legs(q.before, q.after) \in SUBSET (1 .. 4)
  BY LegsType
<1>5. /\ request' \in [Requests -> RequestRecord]
      /\ WellFormed'
  <2> DEFINE m == Moved(q, "sync", Legs(q.before, q.after))
  <2>1. request' = [request EXCEPT ![r] = m]
    BY DEF Persist
  <2>2. m \in RequestRecord /\ m.pc = "sync" /\ m.row \in Rows
    BY <1>1, <1>4, MovedType, RequestFields
  <2> HIDE DEF m
  <2> QED
    BY <2>1, <2>2, RequestMove
<1>6. race' \in [Reconcilers -> [Accounts -> RaceLevel]]
  BY NotedType DEF Persist
<1>7. \A row \in StoredRow : AccountsOf(row) \subseteq Accounts
  BY DEF AccountsOf, StoredRow
<1>8. involved \subseteq Accounts
  BY <1>3, <1>7
<1>9. tainted' \in SUBSET Accounts
  BY <1>8 DEF Persist, TypeOK
<1> QED
  BY <1>2, <1>5, <1>6, <1>9 DEF Persist, TypeOK

LEMMA NextTyped ==
  ASSUME TypeOK, WellFormed, [Next]_vars
  PROVE  TypeOK' /\ WellFormed'
<1>1. ASSUME NEW r \in Requests, NEW t \in Rows, NEW row \in ValidRow,
             Create(r, t, row)
      PROVE  TypeOK' /\ WellFormed'
  <2>1. row \in StoredRow /\ NoRow \in StoredRow
    BY RowTypes
  <2>2. /\ request' \in [Requests -> RequestRecord]
        /\ WellFormed'
    <3> DEFINE q == [pc |-> "sync", row |-> t, before |-> NoRow, after |-> row,
                     legs |-> Legs(NoRow, row)]
    <3>1. request' = [request EXCEPT ![r] = q]
      BY <1>1 DEF Create
    <3>2. q \in RequestRecord /\ q.row \in Rows /\ q.pc = "sync"
      BY <2>1, LegsType DEF RequestRecord
    <3> HIDE DEF q
    <3> QED
      BY <3>1, <3>2, RequestMove
  <2>3. race' \in [Reconcilers -> [Accounts -> RaceLevel]]
    BY <1>1, NotedType DEF Create
  <2>4. rows' \in [Rows -> StoredRow]
    BY <1>1, <2>1 DEF Create, TypeOK
  <2> QED
    BY <1>1, <2>2, <2>3, <2>4 DEF Create, TypeOK
<1>2. ASSUME NEW r \in Requests, NEW t \in Rows,
             NEW after \in ValidRow \cup {NoRow}, Read(r, t, after)
      PROVE  TypeOK' /\ WellFormed'
  <2>1. rows[t] \in StoredRow
    BY DEF TypeOK
  <2>2. /\ request' \in [Requests -> RequestRecord]
        /\ WellFormed'
    <3> DEFINE q == [pc |-> "read", row |-> t, before |-> rows[t],
                     after |-> after, legs |-> {}]
    <3>1. request' = [request EXCEPT ![r] = q]
      BY <1>2 DEF Read
    <3>2. q \in RequestRecord /\ q.row \in Rows /\ q.legs = {}
      BY <2>1 DEF RequestRecord
    <3> HIDE DEF q
    <3> QED
      BY <3>1, <3>2, RequestMove
  <2> QED
    BY <1>2, <2>2 DEF Read, TypeOK
<1>3. ASSUME NEW r \in Requests, Abort(r) \/ SaveMissing(r)
      PROVE  TypeOK' /\ WellFormed'
  <2> DEFINE m == Moved(request[r], "failed", {})
  <2>1. request' = [request EXCEPT ![r] = m]
    BY <1>3 DEF Abort, SaveMissing
  <2>2. m \in RequestRecord /\ m.pc = "failed" /\ m.legs = {}
    BY MovedType, RequestFields
  <2> HIDE DEF m
  <2>3. request' \in [Requests -> RequestRecord] /\ WellFormed'
    BY <2>1, <2>2, RequestMove
  <2> QED
    BY <1>3, <2>3 DEF Abort, SaveMissing, TypeOK
<1>4. ASSUME NEW r \in Requests, SaveUpdate(r)
      PROVE  TypeOK' /\ WellFormed'
  <2>1. request[r].row \in Rows
    BY <1>4 DEF SaveUpdate, WellFormed
  <2>2. Patched(rows[request[r].row], request[r].before, request[r].after)
          \in StoredRow
    BY <2>1, RequestFields, PatchedType DEF TypeOK
  <2> QED
    BY <1>4, <2>2, PersistTyped DEF SaveUpdate
<1>5. ASSUME NEW r \in Requests, DeleteRow(r)
      PROVE  TypeOK' /\ WellFormed'
  BY <1>5, RowTypes, PersistTyped DEF DeleteRow
<1>6. ASSUME NEW r \in Requests, NEW leg \in 1 .. 4, ApplyLeg(r, leg)
      PROVE  TypeOK' /\ WellFormed'
  <2>1. LegDelta(request[r], leg) \in Int
    BY RequestTyped, PendingLegInt, RowsAssumption, <1>6 DEF ApplyLeg
  <2>2. balance' \in [Accounts -> Int]
    BY <1>6, <2>1 DEF ApplyLeg, TypeOK
  <2>3. /\ request' \in [Requests -> RequestRecord]
        /\ WellFormed'
    <3> DEFINE rest == request[r].legs \ {leg}
               m == Moved(request[r], IF rest = {} THEN "done" ELSE "sync", rest)
    <3>1. request' = [request EXCEPT ![r] = m]
      BY <1>6 DEF ApplyLeg
    <3>2. rest \in SUBSET (1 .. 4) /\ request[r].row \in Rows
      BY <1>6 DEF ApplyLeg, TypeOK, WellFormed, RequestRecord
    <3>3. /\ m \in RequestRecord /\ m.row = request[r].row /\ m.legs = rest
          /\ m.pc = IF rest = {} THEN "done" ELSE "sync"
      BY <3>2, MovedType, RequestFields
    <3> HIDE DEF m
    <3> QED
      BY <3>1, <3>2, <3>3, RequestMove
  <2> QED
    BY <1>6, <2>2, <2>3 DEF ApplyLeg, TypeOK
<1>7. ASSUME NEW r \in Requests, DropLegs(r)
      PROVE  TypeOK' /\ WellFormed'
  <2>1. /\ request' \in [Requests -> RequestRecord]
        /\ WellFormed'
    <3> DEFINE m == Moved(request[r], "failed", {})
    <3>1. request' = [request EXCEPT ![r] = m]
      BY <1>7 DEF DropLegs
    <3>2. m \in RequestRecord /\ m.pc = "failed" /\ m.legs = {}
      BY MovedType, RequestFields
    <3> HIDE DEF m
    <3> QED
      BY <3>1, <3>2, RequestMove
  <2>2. race' \in [Reconcilers -> [Accounts -> RaceLevel]]
    BY <1>7, NotedType DEF DropLegs
  <2>3. failures' \in 0 .. MaxFailures
    BY <1>7, LedgerAssumption DEF DropLegs, TypeOK
  <2>4. Touched(request[r]) \ {NoAccount} \subseteq Accounts
    BY RequestTyped, RowsAssumption
       DEF Touched, LegAccount, LegRow, Requestish, StoredRow
  <2> QED
    BY <1>7, <2>1, <2>2, <2>3, <2>4 DEF DropLegs, TypeOK
<1>8. ASSUME NEW k \in Reconcilers, Scan(k)
      PROVE  TypeOK' /\ WellFormed'
  <2>1. [phase |-> "scanned", todo |-> Accounts, seen |-> balance,
         sums |-> Zero] \in
         SweepRecord
    BY DEF TypeOK, Zero
  <2>2. [a \in Accounts |-> IF Busy(a) THEN "blurred" ELSE "none"]
          \in [Accounts -> RaceLevel]
    OBVIOUS
  <2> QED
    BY <1>8, <2>1, <2>2 DEF Scan, TypeOK, WellFormed
<1>12. ASSUME NEW k \in Reconcilers, Sum(k)
       PROVE  TypeOK' /\ WellFormed'
  <2>1. [a \in Accounts |-> LedgerSum(a)] \in [Accounts -> Int]
    BY LedgerSumInt DEF TypeOK
  <2>2. [phase |-> "summed", todo |-> sweep[k].todo, seen |-> sweep[k].seen,
         sums |-> [a \in Accounts |-> LedgerSum(a)]] \in
         SweepRecord
    BY <2>1 DEF TypeOK
  <2>3. [a \in Accounts |-> IF Busy(a) THEN "blurred" ELSE race[k][a]]
          \in [Accounts -> RaceLevel]
    BY DEF TypeOK
  <2> QED
    BY <1>12, <2>2, <2>3 DEF Sum, TypeOK, WellFormed
<1>9. ASSUME NEW k \in Reconcilers, NEW a \in Accounts,
             Correct(k, a) \/ LeaveAlone(k, a)
      PROVE  TypeOK' /\ WellFormed'
  <2>1. Finished(k, a) \in
         SweepRecord
    BY DEF Finished, IdleSweep, Zero, TypeOK
  <2>2. ASSUME NEW races \in [Reconcilers -> [Accounts -> RaceLevel]]
        PROVE  Forget(k, a, races) \in [Reconcilers -> [Accounts -> RaceLevel]]
    BY DEF Forget, NoRace
  <2>3. CASE Correct(k, a)
    <3>1. balance' \in [Accounts -> Int]
      BY <2>3 DEF Correct, Computed, TypeOK
    <3>2. race' \in [Reconcilers -> [Accounts -> RaceLevel]]
      BY <2>3, <2>2, NotedType DEF Correct
    <3>3. tainted' \in SUBSET Accounts
      BY <2>3 DEF Correct, TypeOK
    <3> QED
      BY <2>3, <2>1, <3>1, <3>2, <3>3 DEF Correct, TypeOK, WellFormed
  <2>4. CASE LeaveAlone(k, a)
    <3>1. race' \in [Reconcilers -> [Accounts -> RaceLevel]]
      BY <2>4, <2>2 DEF LeaveAlone, TypeOK
    <3> QED
      BY <2>4, <2>1, <3>1 DEF LeaveAlone, TypeOK, WellFormed
  <2> QED
    BY <1>9, <2>3, <2>4
<1>10. ASSUME NEW k \in Reconcilers, AbandonSweep(k)
       PROVE  TypeOK' /\ WellFormed'
  <2>1. IdleSweep \in SweepRecord /\ NoRace \in [Accounts -> RaceLevel]
    BY DEF IdleSweep, NoRace, Zero
  <2>2. failures' \in 0 .. MaxFailures
    BY <1>10, LedgerAssumption DEF AbandonSweep, TypeOK
  <2>3. /\ sweep' \in [Reconcilers -> SweepRecord]
        /\ race' \in [Reconcilers -> [Accounts -> RaceLevel]]
    BY <1>10, <2>1 DEF AbandonSweep, TypeOK
  <2> QED
    BY <1>10, <2>2, <2>3 DEF AbandonSweep, TypeOK, WellFormed
<1>11. CASE UNCHANGED vars
  BY <1>11 DEF vars, TypeOK, WellFormed
<1> QED
  BY <1>1, <1>2, <1>3, <1>4, <1>5, <1>6, <1>7, <1>8, <1>9, <1>10, <1>11,
     <1>12
     DEF Next, Start, Proceed, Reconcile

\* Every variable keeps its type.
THEOREM TypeCorrect == Spec => []TypeOK
<1>1. Spec => [](TypeOK /\ WellFormed)
  BY InitTyped, NextTyped, PTL DEF Spec
<1> QED
  BY <1>1, PTL

-----------------------------------------------------------------------------
(* The accounting invariant.                                               *)

IInv == TypeOK /\ WellFormed /\ BooksBalance /\ SweepSound

\* A step that touches neither the books nor what a sweep has seen of them.
LEMMA BooksFrame ==
  ASSUME IInv, NEW r \in Requests, NEW q \in RequestRecord,
         request' = [request EXCEPT ![r] = q],
         request[r].legs = {}, q.legs = {},
         UNCHANGED <<balance, opening, rows, sweep, race, tainted>>
  PROVE  BooksBalance' /\ SweepSound'
<1>1. \A a \in Accounts : InFlight(a)' = InFlight(a)
  <2> TAKE a \in Accounts
  <2>1. q \in Requestish /\ request[r] \in Requestish
    BY RecordIsRequestish, RequestTyped DEF IInv
  <2>2. Pending(q, a) = 0 /\ Pending(request[r], a) = 0
    BY <2>1, PendingInt
  <2>3. InFlight(a)' = InFlight(a) + Pending(q, a) - Pending(request[r], a)
    BY <2>1, MoveRequest DEF IInv
  <2>4. InFlight(a) \in Int
    BY InFlightInt DEF IInv
  <2> QED
    BY <2>2, <2>3, <2>4
<1>2. \A a \in Accounts : LedgerSum(a)' = LedgerSum(a)
  BY DEF LedgerSum, LedgerTotal
<1>3. \A a \in Accounts : Busy(a)' = Busy(a)
  <2>1. Touched(q) = {} /\ Touched(request[r]) = {}
    BY DEF Touched
  <2>2. \A s \in Requests : Touched(request'[s]) = Touched(request[s])
    BY <2>1 DEF IInv, TypeOK
  <2> QED
    BY <2>2 DEF Busy
<1>4. BooksBalance'
  BY <1>1, <1>2 DEF IInv, BooksBalance, TypeOK
<1>5. SweepSound'
  <2> SUFFICES ASSUME NEW k \in Reconcilers, Underway(k),
                      NEW a \in sweep[k].todo
               PROVE  /\ race[k][a] = "none"
                           => ~Busy(a)' /\ balance[a] = sweep[k].seen[a]
                      /\ race[k][a] = "none" /\ sweep[k].phase = "summed"
                           => sweep[k].sums[a] = LedgerSum(a)'
                      /\ race[k][a] = "one" /\ sweep[k].phase = "summed"
                           => \/ sweep[k].sums[a] = LedgerSum(a)'
                              \/ sweep[k].seen[a] - sweep[k].sums[a]
                                   = balance[a] + InFlight(a)' - LedgerSum(a)'
    BY DEF SweepSound, Underway
  <2>1. a \in Accounts
    BY DEF IInv, TypeOK
  <2> QED
    BY <2>1, <1>1, <1>2, <1>3 DEF IInv, SweepSound
<1> QED
  BY <1>4, <1>5

\* Two rows count the same for every account.
SameEffect(one, other) ==
  \A a \in Accounts : LedgerDelta(one, a) = LedgerDelta(other, a)

\* A write based on the stored row: the increments it owes are exactly what it
\* changes in the ledger, and every sweep under way takes note of it.
LEMMA HonestWrite ==
  ASSUME IInv, NEW r \in Requests, NEW q \in RequestRecord,
         NEW t \in Rows, NEW stored \in StoredRow, NEW S,
         request[r].legs = {}, q.legs = Legs(q.before, q.after),
         rows' = [rows EXCEPT ![t] = stored],
         request' = [request EXCEPT ![r] = q],
         SameEffect(rows[t], q.before), SameEffect(stored, q.after),
         AccountsOf(q.before) \cup AccountsOf(q.after) \subseteq S,
         race' = Noted(S),
         UNCHANGED <<balance, opening, sweep, tainted>>
  PROVE  BooksBalance' /\ SweepSound'
<1> DEFINE D(a) == LedgerDelta(q.after, a) - LedgerDelta(q.before, a)
<1>1. /\ q \in Requestish /\ request[r] \in Requestish
      /\ q.before \in StoredRow /\ q.after \in StoredRow
  BY RecordIsRequestish, RequestTyped DEF IInv, Requestish
<1>2. \A a \in Accounts : D(a) \in Int
  BY <1>1, LedgerDeltaInt
<1>3. \A a \in Accounts :
        /\ InFlight(a)' = InFlight(a) + D(a) /\ InFlight(a) \in Int
        /\ LedgerSum(a)' = LedgerSum(a) + D(a) /\ LedgerSum(a) \in Int
  <2> TAKE a \in Accounts
  <2>1. Pending(request[r], a) = 0 /\ Pending(q, a) = D(a)
    BY <1>1, PendingInt, LegsAgree
  <2>2. InFlight(a)' = InFlight(a) + Pending(q, a) - Pending(request[r], a)
    BY <1>1, MoveRequest DEF IInv
  <2>3. LedgerSum(a)' = LedgerSum(a) + LedgerDelta(stored, a)
                        - LedgerDelta(rows[t], a)
    BY StoreRow DEF IInv
  <2>4. /\ InFlight(a) \in Int /\ LedgerSum(a) \in Int
        /\ LedgerDelta(q.after, a) \in Int /\ LedgerDelta(q.before, a) \in Int
    BY <1>1, InFlightInt, LedgerSumInt, LedgerDeltaInt DEF IInv, TypeOK
  <2>5. /\ LedgerDelta(rows[t], a) = LedgerDelta(q.before, a)
        /\ LedgerDelta(stored, a) = LedgerDelta(q.after, a)
    BY DEF SameEffect
  <2> QED
    BY <2>1, <2>2, <2>3, <2>4, <2>5
<1>4. \A a \in Accounts : a \notin S => D(a) = 0 /\ Busy(a)' = Busy(a)
  <2> SUFFICES ASSUME NEW a \in Accounts, a \notin S
               PROVE  D(a) = 0 /\ Busy(a)' = Busy(a)
    OBVIOUS
  <2>1. D(a) = 0
    BY <1>1, LedgerDeltaInt
  <2>2. a \notin Touched(q)
    BY <1>1, TouchedOf
  <2>3. a \notin Touched(request[r])
    BY DEF Touched
  <2> QED
    BY <2>1, <2>2, <2>3 DEF Busy, IInv, TypeOK
<1> HIDE DEF D
<1>5. BooksBalance'
  <2> SUFFICES ASSUME NEW a \in Accounts \ tainted
               PROVE  balance[a] + InFlight(a)' = opening[a] + LedgerSum(a)'
    BY DEF BooksBalance
  <2>1. /\ balance[a] \in Int /\ opening[a] \in Int
        /\ balance[a] + InFlight(a) = opening[a] + LedgerSum(a)
    BY DEF IInv, BooksBalance, TypeOK
  <2> QED
    BY <2>1, <1>2, <1>3
<1>6. SweepSound'
  <2> SUFFICES ASSUME NEW k \in Reconcilers, Underway(k),
                      NEW a \in sweep[k].todo
               PROVE  /\ race'[k][a] = "none"
                           => ~Busy(a)' /\ balance[a] = sweep[k].seen[a]
                      /\ race'[k][a] = "none" /\ sweep[k].phase = "summed"
                           => sweep[k].sums[a] = LedgerSum(a)'
                      /\ race'[k][a] = "one" /\ sweep[k].phase = "summed"
                           => \/ sweep[k].sums[a] = LedgerSum(a)'
                              \/ sweep[k].seen[a] - sweep[k].sums[a]
                                   = balance[a] + InFlight(a)' - LedgerSum(a)'
    BY DEF SweepSound, Underway
  <2>1. /\ a \in Accounts /\ race[k][a] \in RaceLevel
        /\ sweep[k].seen[a] \in Int /\ sweep[k].sums[a] \in Int
        /\ balance[a] \in Int
    BY DEF IInv, TypeOK
  <2>2. race'[k][a] = IF a \in S THEN More(race[k][a]) ELSE race[k][a]
    BY <2>1 DEF Noted
  <2>3. CASE a \notin S
    <3>1. /\ InFlight(a)' = InFlight(a) /\ LedgerSum(a)' = LedgerSum(a)
          /\ Busy(a)' = Busy(a)
      BY <2>1, <2>3, <1>3, <1>4
    <3> QED
      BY <2>2, <2>3, <3>1 DEF IInv, SweepSound
  <2>4. CASE a \in S /\ race[k][a] = "none"
    <3>1. race'[k][a] = "one"
      BY <2>2, <2>4 DEF More
    <3>2. ~Busy(a) /\ balance[a] = sweep[k].seen[a]
      BY <2>4 DEF IInv, SweepSound
    <3>3. InFlight(a) = 0
      BY <2>1, <3>2, IdleAccount DEF IInv
    <3>4. sweep[k].phase = "summed" => sweep[k].sums[a] = LedgerSum(a)
      BY <2>4 DEF IInv, SweepSound
    <3> QED
      BY <3>1, <3>2, <3>3, <3>4, <2>1, <1>2, <1>3
  <2>5. CASE a \in S /\ race[k][a] # "none"
    BY <2>2, <2>5 DEF More
  <2> QED
    BY <2>3, <2>4, <2>5
<1> QED
  BY <1>5, <1>6

\* A write based on a stale read disturbs the accounts of the rows involved and
\* no other.
LEMMA StaleWrite ==
  ASSUME IInv, NEW r \in Requests, NEW q \in RequestRecord,
         NEW t \in Rows, NEW stored \in StoredRow, NEW S,
         request[r].legs = {}, q.legs = Legs(q.before, q.after),
         rows' = [rows EXCEPT ![t] = stored],
         request' = [request EXCEPT ![r] = q],
         AccountsOf(q.before) \cup AccountsOf(q.after) \subseteq S,
         AccountsOf(rows[t]) \cup AccountsOf(stored) \subseteq S,
         race' = Blurred(S), tainted' = tainted \cup S,
         UNCHANGED <<balance, opening, sweep>>
  PROVE  BooksBalance' /\ SweepSound'
<1>1. /\ q \in Requestish /\ request[r] \in Requestish
      /\ q.before \in StoredRow /\ q.after \in StoredRow
      /\ rows[t] \in StoredRow
  BY RecordIsRequestish, RequestTyped DEF IInv, Requestish, TypeOK
<1>2. ASSUME NEW a \in Accounts, a \notin S
      PROVE  /\ InFlight(a)' = InFlight(a)
             /\ LedgerSum(a)' = LedgerSum(a)
             /\ Busy(a)' = Busy(a)
  <2>1. /\ LedgerDelta(q.before, a) = 0 /\ LedgerDelta(q.after, a) = 0
        /\ LedgerDelta(rows[t], a) = 0 /\ LedgerDelta(stored, a) = 0
    BY <1>1, <1>2, LedgerDeltaInt
  <2>2. Pending(request[r], a) = 0 /\ Pending(q, a) = 0
    BY <1>1, <2>1, PendingInt, LegsAgree
  <2>3. InFlight(a)' = InFlight(a) + Pending(q, a) - Pending(request[r], a)
    BY <1>1, MoveRequest DEF IInv
  <2>4. LedgerSum(a)' = LedgerSum(a) + LedgerDelta(stored, a)
                        - LedgerDelta(rows[t], a)
    BY StoreRow DEF IInv
  <2>5. InFlight(a) \in Int /\ LedgerSum(a) \in Int
    BY InFlightInt, LedgerSumInt DEF IInv, TypeOK
  <2>6. a \notin Touched(q)
    BY <1>1, <1>2, TouchedOf
  <2>7. a \notin Touched(request[r])
    BY DEF Touched
  <2>8. Busy(a)' = Busy(a)
    BY <2>6, <2>7 DEF Busy, IInv, TypeOK
  <2> QED
    BY <2>1, <2>2, <2>3, <2>4, <2>5, <2>8
<1>3. BooksBalance'
  BY <1>2 DEF IInv, BooksBalance
<1>4. SweepSound'
  <2> SUFFICES ASSUME NEW k \in Reconcilers, Underway(k),
                      NEW a \in sweep[k].todo
               PROVE  /\ race'[k][a] = "none"
                           => ~Busy(a)' /\ balance[a] = sweep[k].seen[a]
                      /\ race'[k][a] = "none" /\ sweep[k].phase = "summed"
                           => sweep[k].sums[a] = LedgerSum(a)'
                      /\ race'[k][a] = "one" /\ sweep[k].phase = "summed"
                           => \/ sweep[k].sums[a] = LedgerSum(a)'
                              \/ sweep[k].seen[a] - sweep[k].sums[a]
                                   = balance[a] + InFlight(a)' - LedgerSum(a)'
    BY DEF SweepSound, Underway
  <2>1. a \in Accounts
    BY DEF IInv, TypeOK
  <2>2. race'[k][a] = IF a \in S THEN "blurred" ELSE race[k][a]
    BY <2>1 DEF Blurred
  <2>3. CASE a \in S
    BY <2>2, <2>3
  <2>4. CASE a \notin S
    BY <2>1, <2>2, <2>4, <1>2 DEF IInv, SweepSound
  <2> QED
    BY <2>3, <2>4
<1> QED
  BY <1>3, <1>4

\* An increment moves from in flight into the balance.
LEMMA LegMoves ==
  ASSUME IInv, NEW r \in Requests, NEW leg \in 1 .. 4, ApplyLeg(r, leg),
         NEW a \in Accounts
  PROVE  /\ balance'[a] + InFlight(a)' = balance[a] + InFlight(a)
         /\ balance'[a] \in Int /\ InFlight(a)' \in Int
<1> DEFINE q == request[r]
           b == LegAccount(q, leg)
           rest == q.legs \ {leg}
           pc == IF rest = {} THEN "done" ELSE "sync"
           m == Moved(q, pc, rest)
<1>1. /\ q \in RequestRecord /\ q \in Requestish /\ leg \in q.legs
      /\ b \in Accounts /\ rest \in SUBSET (1 .. 4)
  BY RequestFields, RecordIsRequestish DEF IInv, ApplyLeg
<1>2. /\ m \in RequestRecord /\ m.before = q.before /\ m.after = q.after
      /\ m.legs = rest
  BY <1>1, MovedType
<1>3. m \in Requestish /\ request' = [request EXCEPT ![r] = m]
  BY <1>2, RecordIsRequestish DEF ApplyLeg
<1>4. \A l \in 1 .. 4 : /\ LegAccount(m, l) = LegAccount(q, l)
                        /\ LegDelta(m, l) = LegDelta(q, l)
  BY <1>2 DEF LegAccount, LegDelta, LegRow
<1>5. \A l \in 1 .. 4 : l \in q.legs /\ l # leg <=> l \in m.legs
  BY <1>2
<1> DEFINE moved == IF a = b THEN LegDelta(q, leg) ELSE 0
<1>6. LegDelta(q, leg) \in Int
  BY <1>1, PendingLegInt
<1> HIDE DEF m
<1>7. Pending(m, a) = Pending(q, a) - moved
  <2>1. \A l \in 1 .. 4 :
          /\ PendingLeg(q, l, a) \in Int
          /\ PendingLeg(m, l, a)
               = IF l = leg THEN 0 ELSE PendingLeg(q, l, a)
    BY <1>1, <1>2, <1>3, <1>4, <1>5, PendingLegInt DEF PendingLeg
  <2>2. PendingLeg(q, leg, a) = moved
    BY <1>1 DEF PendingLeg
  <2> HIDE DEF moved, q, b
  <2>3. leg = 1 \/ leg = 2 \/ leg = 3 \/ leg = 4
    OBVIOUS
  <2> QED
    BY <2>1, <2>2, <2>3 DEF Pending
<1>8. InFlight(a)' = InFlight(a) + Pending(m, a) - Pending(q, a)
  BY <1>3, MoveRequest DEF IInv
<1>9. /\ InFlight(a) \in Int /\ balance[a] \in Int
      /\ Pending(q, a) \in Int /\ Pending(m, a) \in Int
  BY <1>1, <1>3, InFlightInt, PendingInt DEF IInv, TypeOK
<1>10. balance'[a] = balance[a] + moved
  BY <1>9 DEF ApplyLeg, IInv, TypeOK
<1>11. moved \in Int
  BY <1>6
<1> HIDE DEF moved, q
<1> QED
  BY <1>7, <1>8, <1>9, <1>10, <1>11

LEMMA LegStep ==
  ASSUME IInv, NEW r \in Requests, NEW leg \in 1 .. 4, ApplyLeg(r, leg)
  PROVE  BooksBalance' /\ SweepSound'
<1> DEFINE q == request[r]
           b == LegAccount(q, leg)
           rest == q.legs \ {leg}
           pc == IF rest = {} THEN "done" ELSE "sync"
           m == Moved(q, pc, rest)
<1>1. /\ q \in RequestRecord /\ leg \in q.legs
      /\ b \in Accounts /\ rest \in SUBSET (1 .. 4)
  BY RequestFields DEF IInv, ApplyLeg
<1>2. /\ m \in RequestRecord /\ m.before = q.before /\ m.after = q.after
      /\ m.legs = rest
  BY <1>1, MovedType
<1>3. request' = [request EXCEPT ![r] = m]
  BY DEF ApplyLeg
<1>4. \A l \in 1 .. 4 : LegAccount(m, l) = LegAccount(q, l)
  BY <1>2 DEF LegAccount, LegRow
<1> HIDE DEF m
<1>8. ASSUME NEW a \in Accounts
      PROVE  /\ balance'[a] + InFlight(a)' = balance[a] + InFlight(a)
             /\ LedgerSum(a)' = LedgerSum(a)
             /\ balance'[a] \in Int /\ InFlight(a)' \in Int
             /\ balance[a] \in Int /\ InFlight(a) \in Int
             /\ LedgerSum(a) \in Int
  <2>1. LedgerSum(a)' = LedgerSum(a)
    BY DEF ApplyLeg, LedgerSum, LedgerTotal
  <2> QED
    BY <2>1, LegMoves, InFlightInt, LedgerSumInt DEF IInv, TypeOK
<1>9. Busy(b)
  BY <1>1 DEF Busy, Touched
<1>10. ASSUME NEW a \in Accounts, ~Busy(a)
       PROVE  ~Busy(a)'
  <2>1. Touched(m) \subseteq Touched(q)
    BY <1>1, <1>2, <1>4 DEF Touched
  <2> QED
    BY <1>10, <2>1, <1>3 DEF Busy, IInv, TypeOK
<1>11. BooksBalance'
  <2> SUFFICES ASSUME NEW a \in Accounts \ tainted
               PROVE  balance'[a] + InFlight(a)' = opening[a] + LedgerSum(a)'
    BY DEF BooksBalance, ApplyLeg
  <2>1. /\ opening[a] \in Int
        /\ balance[a] + InFlight(a) = opening[a] + LedgerSum(a)
    BY DEF IInv, BooksBalance, TypeOK
  <2> QED
    BY <2>1, <1>8
<1>12. SweepSound'
  <2> SUFFICES ASSUME NEW k \in Reconcilers, Underway(k),
                      NEW a \in sweep[k].todo
               PROVE  /\ race[k][a] = "none"
                           => ~Busy(a)' /\ balance'[a] = sweep[k].seen[a]
                      /\ race[k][a] = "none" /\ sweep[k].phase = "summed"
                           => sweep[k].sums[a] = LedgerSum(a)'
                      /\ race[k][a] = "one" /\ sweep[k].phase = "summed"
                           => \/ sweep[k].sums[a] = LedgerSum(a)'
                              \/ sweep[k].seen[a] - sweep[k].sums[a]
                                   = balance'[a] + InFlight(a)' - LedgerSum(a)'
    BY DEF SweepSound, Underway, ApplyLeg
  <2>1. a \in Accounts
    BY DEF IInv, TypeOK
  <2>2. CASE race[k][a] = "none"
    <3>1. ~Busy(a) /\ a # b
      BY <2>2, <1>9 DEF IInv, SweepSound
    <3>2. balance'[a] = balance[a]
      BY <3>1, <2>1 DEF ApplyLeg, IInv, TypeOK
    <3> QED
      BY <2>1, <2>2, <3>1, <3>2, <1>8, <1>10 DEF IInv, SweepSound
  <2>3. CASE race[k][a] = "one"
    <3>1. balance'[a] + InFlight(a)' - LedgerSum(a)'
            = balance[a] + InFlight(a) - LedgerSum(a)
      BY <2>1, <1>8
    <3> QED
      BY <2>1, <2>3, <3>1, <1>8 DEF IInv, SweepSound
  <2> QED
    BY <2>2, <2>3
<1> QED
  BY <1>11, <1>12

\* A failed balance sync disturbs the accounts it had still to adjust, no other.
LEMMA DropStep ==
  ASSUME IInv, NEW r \in Requests, DropLegs(r)
  PROVE  BooksBalance' /\ SweepSound'
<1> DEFINE q == request[r]
           m == Moved(q, "failed", {})
<1>1. q \in RequestRecord /\ q \in Requestish
  BY RequestFields, RecordIsRequestish DEF IInv
<1>2. m \in RequestRecord /\ m.legs = {}
  BY <1>1, MovedType
<1>3. m \in Requestish /\ request' = [request EXCEPT ![r] = m]
  BY <1>2, RecordIsRequestish DEF DropLegs
<1> HIDE DEF m
<1>4. ASSUME NEW a \in Accounts, a \notin Touched(q)
      PROVE  /\ InFlight(a)' = InFlight(a)
             /\ Busy(a)' = Busy(a)
  <2>1. Pending(q, a) = 0 /\ Pending(m, a) = 0 /\ InFlight(a) \in Int
    BY <1>1, <1>2, <1>3, <1>4, PendingInt, InFlightInt DEF IInv
  <2>2. InFlight(a)' = InFlight(a) + Pending(m, a) - Pending(q, a)
    BY <1>3, MoveRequest DEF IInv
  <2>3. Touched(m) = {}
    BY <1>2 DEF Touched
  <2>4. Busy(a)' = Busy(a)
    BY <1>3, <1>4, <2>3 DEF Busy, IInv, TypeOK
  <2> QED
    BY <2>1, <2>2, <2>4
<1>5. \A a \in Accounts : LedgerSum(a)' = LedgerSum(a)
  BY DEF DropLegs, LedgerSum, LedgerTotal
<1>6. UNCHANGED <<balance, opening, sweep>>
  BY DEF DropLegs
<1>7. BooksBalance'
  <2> SUFFICES ASSUME NEW a \in Accounts \ tainted'
               PROVE  balance[a] + InFlight(a)' = opening[a] + LedgerSum(a)'
    BY <1>6 DEF BooksBalance
  <2>1. a # NoAccount
    BY RowsAssumption
  <2>2. a \notin tainted /\ a \notin Touched(q)
    BY <2>1 DEF DropLegs
  <2> QED
    BY <2>2, <1>4, <1>5 DEF IInv, BooksBalance
<1>8. SweepSound'
  <2> SUFFICES ASSUME NEW k \in Reconcilers, Underway(k),
                      NEW a \in sweep[k].todo
               PROVE  /\ race'[k][a] = "none"
                           => ~Busy(a)' /\ balance[a] = sweep[k].seen[a]
                      /\ race'[k][a] = "none" /\ sweep[k].phase = "summed"
                           => sweep[k].sums[a] = LedgerSum(a)'
                      /\ race'[k][a] = "one" /\ sweep[k].phase = "summed"
                           => \/ sweep[k].sums[a] = LedgerSum(a)'
                              \/ sweep[k].seen[a] - sweep[k].sums[a]
                                   = balance[a] + InFlight(a)' - LedgerSum(a)'
    BY <1>6 DEF SweepSound, Underway
  <2>1. a \in Accounts
    BY DEF IInv, TypeOK
  <2>2. race'[k][a] = IF a \in Touched(q) THEN "blurred" ELSE race[k][a]
    BY <2>1 DEF DropLegs, Blurred
  <2>3. CASE a \in Touched(q)
    BY <2>2, <2>3
  <2>4. CASE a \notin Touched(q)
    BY <2>1, <2>2, <2>4, <1>4, <1>5 DEF IInv, SweepSound
  <2> QED
    BY <2>3, <2>4
<1> QED
  BY <1>7, <1>8

\* What a reconciliation step leaves alone: the ledger and what is in flight.
LEMMA SweepFrame ==
  ASSUME NEW a, UNCHANGED <<rows, request>>
  PROVE  /\ LedgerSum(a)' = LedgerSum(a)
         /\ InFlight(a)' = InFlight(a)
         /\ Busy(a)' = Busy(a)
BY DEF LedgerSum, LedgerTotal, InFlight, Busy

\* What SweepSound says of one sweep and one account.
SoundAt(k, a) ==
  /\ race[k][a] = "none" => ~Busy(a) /\ balance[a] = sweep[k].seen[a]
  /\ race[k][a] = "none" /\ sweep[k].phase = "summed"
       => sweep[k].sums[a] = LedgerSum(a)
  /\ race[k][a] = "one" /\ sweep[k].phase = "summed"
       => \/ sweep[k].sums[a] = LedgerSum(a)
          \/ sweep[k].seen[a] - sweep[k].sums[a]
               = balance[a] + InFlight(a) - LedgerSum(a)

LEMMA SoundAtAll ==
  SweepSound <=> \A k \in Reconcilers :
                   Underway(k) => \A a \in sweep[k].todo : SoundAt(k, a)
BY DEF SweepSound, SoundAt

\* A step that leaves the books and what sweep k knows of a alone.
LEMMA SoundFrame ==
  ASSUME NEW k, NEW a, SoundAt(k, a), UNCHANGED <<rows, request>>,
         balance'[a] = balance[a], race'[k][a] = race[k][a],
         sweep'[k].phase = sweep[k].phase,
         sweep'[k].seen = sweep[k].seen, sweep'[k].sums = sweep[k].sums
  PROVE  SoundAt(k, a)'
BY SweepFrame DEF SoundAt

LEMMA ScanStep ==
  ASSUME IInv, NEW k \in Reconcilers, Scan(k)
  PROVE  BooksBalance' /\ SweepSound'
<1>1. BooksBalance'
  BY SweepFrame DEF IInv, BooksBalance, Scan
<1>2. SweepSound'
  <2> SUFFICES ASSUME NEW j \in Reconcilers, Underway(j)',
                      NEW a \in sweep'[j].todo
               PROVE  SoundAt(j, a)'
    BY DEF SweepSound, SoundAt, Underway
  <2>1. CASE j = k
    <3>1. /\ sweep'[k].phase = "scanned" /\ sweep'[k].todo = Accounts
          /\ sweep'[k].seen = balance
      BY DEF Scan, IInv, TypeOK
    <3>2. race'[k][a] = IF Busy(a) THEN "blurred" ELSE "none"
      BY <2>1, <3>1 DEF Scan, IInv, TypeOK
    <3>3. balance' = balance /\ (Busy(a)' = Busy(a))
      BY SweepFrame DEF Scan
    <3> QED
      BY <2>1, <3>1, <3>2, <3>3 DEF SoundAt
  <2>2. CASE j # k
    <3>1. /\ sweep'[j] = sweep[j] /\ race'[j] = race[j]
          /\ UNCHANGED <<rows, request, balance>>
      BY <2>2 DEF Scan, IInv, TypeOK
    <3>2. SoundAt(j, a)
      BY <3>1, SoundAtAll DEF IInv, Underway
    <3> QED
      BY <3>1, <3>2, SoundFrame
  <2> QED
    BY <2>1, <2>2
<1> QED
  BY <1>1, <1>2

LEMMA SumStep ==
  ASSUME IInv, NEW k \in Reconcilers, Sum(k)
  PROVE  BooksBalance' /\ SweepSound'
<1>1. BooksBalance'
  BY SweepFrame DEF IInv, BooksBalance, Sum
<1>2. SweepSound'
  <2> SUFFICES ASSUME NEW j \in Reconcilers, Underway(j)',
                      NEW a \in sweep'[j].todo
               PROVE  SoundAt(j, a)'
    BY DEF SweepSound, SoundAt, Underway
  <2>1. CASE j = k
    <3>1. /\ sweep'[k].phase = "summed" /\ sweep'[k].todo = sweep[k].todo
          /\ sweep'[k].seen = sweep[k].seen
          /\ sweep'[k].sums = [b \in Accounts |-> LedgerSum(b)]
      BY DEF Sum, IInv, TypeOK
    <3>2. a \in Accounts
      BY <2>1, <3>1 DEF IInv, TypeOK
    <3>3. race'[k][a] = IF Busy(a) THEN "blurred" ELSE race[k][a]
      BY <3>2 DEF Sum, IInv, TypeOK
    <3>4. balance' = balance /\ (Busy(a)' = Busy(a))
          /\ LedgerSum(a)' = LedgerSum(a)
      BY SweepFrame DEF Sum
    <3>5. SoundAt(k, a)
      BY <2>1, <3>1, SoundAtAll DEF IInv, Underway, Sum
    <3>6. sweep'[k].sums[a] = LedgerSum(a)
      BY <3>1, <3>2
    <3> QED
      BY <2>1, <3>1, <3>3, <3>4, <3>5, <3>6 DEF SoundAt
  <2>2. CASE j # k
    <3>1. /\ sweep'[j] = sweep[j] /\ race'[j] = race[j]
          /\ UNCHANGED <<rows, request, balance>>
      BY <2>2 DEF Sum, IInv, TypeOK
    <3>2. SoundAt(j, a)
      BY <3>1, SoundAtAll DEF IInv, Underway
    <3> QED
      BY <3>1, <3>2, SoundFrame
  <2> QED
    BY <2>1, <2>2
<1> QED
  BY <1>1, <1>2

\* A sweep that goes on after account a keeps what it knows of the others.
LEMMA FinishedFields ==
  ASSUME TypeOK, NEW k \in Reconcilers, sweep[k].phase = "summed", NEW a,
         NEW b \in Finished(k, a).todo
  PROVE  /\ b \in sweep[k].todo /\ b # a /\ b \in Accounts
         /\ sweep[k].todo # {a}
         /\ Finished(k, a).phase = sweep[k].phase
         /\ Finished(k, a).seen = sweep[k].seen
         /\ Finished(k, a).sums = sweep[k].sums
<1>1. sweep[k] \in SweepRecord
  BY DEF TypeOK
<1> QED
  BY <1>1 DEF Finished, IdleSweep

\* A calm correction leaves an exact balance; any other taints the account.
LEMMA CorrectStep ==
  ASSUME IInv, NEW k \in Reconcilers, NEW a \in Accounts, Correct(k, a)
  PROVE  BooksBalance' /\ SweepSound'
<1>1. /\ sweep[k].phase = "summed" /\ a \in sweep[k].todo
      /\ balance[a] = sweep[k].seen[a]
      /\ balance' = [balance EXCEPT ![a] = opening[a] + sweep[k].sums[a]]
      /\ UNCHANGED <<opening, rows, request>>
  BY DEF Correct, Lands, Computed
<1>2. /\ sweep[k].sums[a] \in Int /\ sweep[k].seen[a] \in Int
      /\ balance[a] \in Int /\ opening[a] \in Int
      /\ InFlight(a) \in Int /\ LedgerSum(a) \in Int
  BY InFlightInt, LedgerSumInt DEF IInv, TypeOK
<1>3. SoundAt(k, a)
  BY <1>1, SoundAtAll DEF IInv, Underway
<1>4. ASSUME Calm(k, a)
      PROVE  balance'[a] = opening[a] + LedgerSum(a) /\ InFlight(a) = 0
  <2>1. InFlight(a) = 0
    BY <1>4, IdleAccount DEF Calm, IInv
  <2>2. sweep[k].sums[a] = LedgerSum(a)
    BY <1>1, <1>2, <1>3, <1>4, <2>1 DEF SoundAt, Calm
  <2> QED
    BY <1>1, <2>1, <2>2 DEF IInv, TypeOK
<1>5. BooksBalance'
  <2> SUFFICES ASSUME NEW b \in Accounts \ tainted'
               PROVE  balance'[b] + InFlight(b)' = opening'[b] + LedgerSum(b)'
    BY DEF BooksBalance
  <2>1. InFlight(b)' = InFlight(b) /\ LedgerSum(b)' = LedgerSum(b)
    BY <1>1, SweepFrame
  <2>2. CASE b = a
    <3>1. Calm(k, a)
      BY <2>2 DEF Correct
    <3> QED
      BY <2>1, <2>2, <3>1, <1>1, <1>2, <1>4
  <2>3. CASE b # a
    <3>1. b \notin tainted /\ balance'[b] = balance[b]
      BY <2>3, <1>1 DEF Correct, IInv, TypeOK
    <3> QED
      BY <3>1, <2>1, <1>1 DEF IInv, BooksBalance
  <2> QED
    BY <2>2, <2>3
<1>6. SweepSound'
  <2> SUFFICES ASSUME NEW j \in Reconcilers, Underway(j)',
                      NEW b \in sweep'[j].todo
               PROVE  SoundAt(j, b)'
    BY DEF SweepSound, SoundAt, Underway
  <2>0. race' = Forget(k, a, Blurred({a}))
        /\ sweep' = [sweep EXCEPT ![k] = Finished(k, a)]
    BY DEF Correct
  <2>1. CASE j = k
    <3>1. sweep'[j] = Finished(k, a)
      BY <2>0, <2>1 DEF IInv, TypeOK
    <3>2. /\ b \in sweep[k].todo /\ b # a /\ b \in Accounts
          /\ sweep[k].todo # {a}
          /\ sweep'[k].phase = sweep[k].phase
          /\ sweep'[k].seen = sweep[k].seen
          /\ sweep'[k].sums = sweep[k].sums
      BY <2>1, <3>1, <1>1, FinishedFields DEF IInv
    <3>3. race'[k][b] = race[k][b]
      BY <2>0, <3>2 DEF Forget, Blurred
    <3>4. balance'[b] = balance[b] /\ SoundAt(k, b)
      BY <3>2, <1>1, SoundAtAll DEF IInv, TypeOK, Underway
    <3> QED
      BY <2>1, <3>2, <3>3, <3>4, <1>1, SoundFrame
  <2>2. CASE j # k
    <3>1. sweep'[j] = sweep[j]
      BY <2>0, <2>2 DEF IInv, TypeOK
    <3>2. b \in Accounts /\ Underway(j) /\ b \in sweep[j].todo
      BY <3>1 DEF IInv, TypeOK, Underway
    <3>3. race'[j][b] = IF b = a THEN "blurred" ELSE race[j][b]
      BY <2>0, <2>2, <3>2 DEF Forget, Blurred
    <3>4. CASE b = a
      BY <3>3, <3>4 DEF SoundAt
    <3>5. CASE b # a
      <4>1. balance'[b] = balance[b] /\ SoundAt(j, b)
        BY <3>2, <3>5, <1>1, SoundAtAll DEF IInv, TypeOK
      <4> QED
        BY <3>1, <3>3, <3>5, <4>1, <1>1, SoundFrame
    <3> QED
      BY <3>4, <3>5
  <2> QED
    BY <2>1, <2>2
<1> QED
  BY <1>5, <1>6

\* Leaving an account alone, or abandoning the sweep, changes no book and leaves
\* the sweep with fewer accounts to decide.
LEMMA LeaveStep ==
  ASSUME IInv, NEW k \in Reconcilers,
         NEW a \in Accounts, LeaveAlone(k, a)
  PROVE  BooksBalance' /\ SweepSound'
<1>1. BooksBalance'
  BY SweepFrame DEF IInv, BooksBalance, LeaveAlone
<1>2. SweepSound'
  <2> SUFFICES ASSUME NEW j \in Reconcilers, Underway(j)',
                      NEW b \in sweep'[j].todo
               PROVE  SoundAt(j, b)'
    BY DEF SweepSound, SoundAt, Underway
  <2>0. /\ race' = Forget(k, a, race)
        /\ sweep' = [sweep EXCEPT ![k] = Finished(k, a)]
        /\ sweep[k].phase = "summed"
        /\ UNCHANGED <<balance, rows, request>>
    BY DEF LeaveAlone
  <2>1. CASE j = k
    <3>1. sweep'[j] = Finished(k, a)
      BY <2>0, <2>1 DEF IInv, TypeOK
    <3>2. /\ b \in sweep[k].todo /\ sweep[k].todo # {a}
          /\ sweep'[k].phase = sweep[k].phase
          /\ sweep'[k].seen = sweep[k].seen
          /\ sweep'[k].sums = sweep[k].sums
      BY <2>0, <2>1, <3>1, FinishedFields DEF IInv
    <3>3. race'[k][b] = race[k][b] /\ SoundAt(k, b)
      BY <2>0, <3>2, SoundAtAll DEF Forget, IInv, Underway
    <3> QED
      BY <2>0, <2>1, <3>2, <3>3, SoundFrame
  <2>2. CASE j # k
    <3>1. sweep'[j] = sweep[j]
      BY <2>0, <2>2 DEF IInv, TypeOK
    <3>2. race'[j][b] = race[j][b] /\ SoundAt(j, b)
      BY <2>0, <2>2, <3>1, SoundAtAll DEF Forget, IInv, TypeOK, Underway
    <3> QED
      BY <2>0, <3>1, <3>2, SoundFrame
  <2> QED
    BY <2>1, <2>2
<1> QED
  BY <1>1, <1>2

LEMMA AbandonStep ==
  ASSUME IInv, NEW k \in Reconcilers, AbandonSweep(k)
  PROVE  BooksBalance' /\ SweepSound'
<1>1. BooksBalance'
  BY SweepFrame DEF IInv, BooksBalance, AbandonSweep
<1>2. SweepSound'
  <2> SUFFICES ASSUME NEW j \in Reconcilers, Underway(j)',
                      NEW b \in sweep'[j].todo
               PROVE  SoundAt(j, b)'
    BY DEF SweepSound, SoundAt, Underway
  <2>1. j # k
    BY DEF AbandonSweep, IInv, TypeOK, IdleSweep, Underway
  <2>2. /\ sweep'[j] = sweep[j] /\ race'[j] = race[j]
        /\ UNCHANGED <<balance, rows, request>>
    BY <2>1 DEF AbandonSweep, IInv, TypeOK
  <2>3. SoundAt(j, b)
    BY <2>2, SoundAtAll DEF IInv, Underway
  <2> QED
    BY <2>2, <2>3, SoundFrame
<1> QED
  BY <1>1, <1>2

\* Saving an update of the row as it was read stores exactly the new row.
LEMMA PatchedFresh ==
  ASSUME NEW before \in StoredRow, NEW after \in StoredRow
  PROVE  Patched(before, before, after) = after
BY DEF Patched, StoredRow

LEMMA PersistStep ==
  ASSUME IInv, NEW r \in Requests, SaveUpdate(r) \/ DeleteRow(r)
  PROVE  BooksBalance' /\ SweepSound'
<1> DEFINE q == request[r]
           t == q.row
           stored == IF q.after.type = "none" THEN DeletedRow
                     ELSE Patched(rows[t], q.before, q.after)
           m == Moved(q, "sync", Legs(q.before, q.after))
           S == UNION {AccountsOf(row) : row \in
                         {q.before, q.after, rows[t], stored}}
<1>1. q.pc = "read" /\ Persist(r, stored)
  BY DEF SaveUpdate, DeleteRow
<1>2. /\ q \in RequestRecord /\ t \in Rows /\ q.legs = {}
      /\ q.before \in StoredRow /\ q.after \in ValidRow \cup {NoRow}
      /\ q.after \in StoredRow /\ rows[t] \in StoredRow
  BY <1>1, RequestFields DEF IInv, WellFormed, TypeOK
<1>3. stored \in StoredRow
  BY <1>2, RowTypes, PatchedType
<1>4. /\ m \in RequestRecord /\ m.before = q.before /\ m.after = q.after
      /\ m.legs = Legs(m.before, m.after)
  BY <1>2, LegsType, MovedType
<1>5. /\ rows' = [rows EXCEPT ![t] = stored]
      /\ request' = [request EXCEPT ![r] = m]
      /\ UNCHANGED <<balance, opening, sweep, failures>>
  BY <1>1 DEF Persist
<1>6. /\ AccountsOf(m.before) \cup AccountsOf(m.after) \subseteq S
      /\ AccountsOf(rows[t]) \cup AccountsOf(stored) \subseteq S
  BY <1>4
<1>7. CASE rows[t] = q.before
  <2>1. race' = Noted(S) /\ UNCHANGED tainted
    BY <1>1, <1>7 DEF Persist
  <2>2. SameEffect(rows[t], m.before) /\ SameEffect(stored, m.after)
    <3>1. CASE q.after.type = "none"
      <4>1. q.after = NoRow /\ stored = DeletedRow
        BY <1>2, <3>1 DEF ValidRow, Kinds
      <4> QED
        BY <4>1, <1>4, <1>7, LedgerDeltaNone DEF SameEffect
    <3>2. CASE q.after.type # "none"
      <4>1. stored = q.after
        BY <1>2, <1>7, <3>2, PatchedFresh
      <4> QED
        BY <4>1, <1>4, <1>7 DEF SameEffect
    <3> QED
      BY <3>1, <3>2
  <2> HIDE DEF m, S, stored
  <2> QED
    BY <1>2, <1>3, <1>4, <1>5, <1>6, <2>1, <2>2, HonestWrite
<1>8. CASE rows[t] # q.before
  <2>1. race' = Blurred(S) /\ tainted' = tainted \cup S
    BY <1>1, <1>8 DEF Persist
  <2> HIDE DEF m, S, stored
  <2> QED
    BY <1>2, <1>3, <1>4, <1>5, <1>6, <2>1, StaleWrite
<1> QED
  BY <1>7, <1>8

LEMMA CreateStep ==
  ASSUME IInv, NEW r \in Requests, NEW t \in Rows, NEW row \in ValidRow,
         Create(r, t, row)
  PROVE  BooksBalance' /\ SweepSound'
<1> DEFINE q == [pc |-> "sync", row |-> t, before |-> NoRow, after |-> row,
                 legs |-> Legs(NoRow, row)]
<1>1. row \in StoredRow /\ NoRow \in StoredRow
  BY RowTypes
<1>2. /\ q \in RequestRecord /\ q.before = NoRow /\ q.after = row
      /\ q.legs = Legs(q.before, q.after)
  BY <1>1, LegsType DEF RequestRecord
<1>3. request[r].legs = {}
  BY DEF Create, IInv, WellFormed
<1>4. SameEffect(rows[t], q.before) /\ SameEffect(row, q.after)
  <2>1. rows[t].type = "none" /\ rows[t].amount \in Int
    BY StoredRowFields DEF Create, IInv, TypeOK
  <2> QED
    BY <1>2, <2>1, LedgerDeltaNone DEF LedgerDelta, SameEffect
<1>5. AccountsOf(NoRow) = {}
  BY DEF AccountsOf, NoRow
<1>6. /\ request' = [request EXCEPT ![r] = q] /\ race' = Noted(AccountsOf(row))
      /\ rows' = [rows EXCEPT ![t] = row]
      /\ UNCHANGED <<balance, opening, sweep, tainted>>
  BY DEF Create
<1> HIDE DEF q
<1> QED
  BY <1>1, <1>2, <1>3, <1>4, <1>5, <1>6, HonestWrite

LEMMA ReadStep ==
  ASSUME IInv, NEW r \in Requests, NEW t \in Rows,
         NEW after \in ValidRow \cup {NoRow}, Read(r, t, after)
  PROVE  BooksBalance' /\ SweepSound'
<1> DEFINE q == [pc |-> "read", row |-> t, before |-> rows[t],
                 after |-> after, legs |-> {}]
<1>1. q \in RequestRecord /\ q.legs = {}
  BY DEF RequestRecord, IInv, TypeOK
<1>2. request[r].legs = {}
  BY DEF Read, IInv, WellFormed
<1>3. /\ request' = [request EXCEPT ![r] = q]
      /\ UNCHANGED <<balance, opening, rows, sweep, race, tainted>>
  BY DEF Read
<1> HIDE DEF q
<1> QED
  BY <1>1, <1>2, <1>3, BooksFrame

LEMMA RejectStep ==
  ASSUME IInv, NEW r \in Requests, Abort(r) \/ SaveMissing(r)
  PROVE  BooksBalance' /\ SweepSound'
<1> DEFINE m == Moved(request[r], "failed", {})
<1>1. m \in RequestRecord /\ m.legs = {}
  BY RequestFields, MovedType DEF IInv
<1>2. request[r].legs = {}
  BY DEF Abort, SaveMissing, IInv, WellFormed
<1>3. /\ request' = [request EXCEPT ![r] = m]
      /\ UNCHANGED <<balance, opening, rows, sweep, race, tainted>>
  BY DEF Abort, SaveMissing
<1> HIDE DEF m
<1> QED
  BY <1>1, <1>2, <1>3, BooksFrame

LEMMA InitBooks == Init => IInv
<1> SUFFICES ASSUME Init PROVE IInv
  OBVIOUS
<1>1. TypeOK /\ WellFormed
  BY InitTyped
<1>2. ASSUME NEW a \in Accounts
      PROVE  InFlight(a) = 0 /\ LedgerSum(a) \in Int
  <2>1. ~Busy(a)
    BY DEF Init, Unread, Busy, Touched
  <2> QED
    BY <1>1, <2>1, IdleAccount, LedgerSumInt DEF TypeOK
<1>3. BooksBalance
  <2> SUFFICES ASSUME NEW a \in Accounts
               PROVE  balance[a] + InFlight(a) = opening[a] + LedgerSum(a)
    BY DEF BooksBalance
  <2> QED
    BY <1>1, <1>2 DEF Init, TypeOK
<1>4. SweepSound
  BY DEF Init, IdleSweep, SweepSound, Underway
<1> QED
  BY <1>1, <1>3, <1>4 DEF IInv

LEMMA NextBooks == IInv /\ [Next]_vars => IInv'
<1> SUFFICES ASSUME IInv, [Next]_vars PROVE BooksBalance' /\ SweepSound'
  BY NextTyped DEF IInv
<1>1. ASSUME NEW r \in Requests, Start(r)
      PROVE  BooksBalance' /\ SweepSound'
  BY <1>1, CreateStep, ReadStep DEF Start
<1>2. ASSUME NEW r \in Requests, Proceed(r)
      PROVE  BooksBalance' /\ SweepSound'
  BY <1>2, PersistStep, RejectStep, LegStep DEF Proceed
<1>3. ASSUME NEW k \in Reconcilers, Reconcile(k)
      PROVE  BooksBalance' /\ SweepSound'
  BY <1>3, ScanStep, SumStep, CorrectStep, LeaveStep DEF Reconcile
<1>4. CASE UNCHANGED vars
  BY <1>4, SweepFrame DEF vars, IInv, BooksBalance, SweepSound, Underway
<1> QED
  BY <1>1, <1>2, <1>3, <1>4, RejectStep, DropStep, AbandonStep DEF Next

\* An account no anomaly has disturbed differs from its opening balance plus the
\* ledger by exactly the increments persisted writes still have to issue.
THEOREM BooksAlwaysBalance == Spec => []BooksBalance
<1>1. Spec => []IInv
  BY InitBooks, NextBooks, PTL DEF Spec
<1>2. IInv => BooksBalance
  BY DEF IInv
<1> QED
  BY <1>1, <1>2, PTL

\* What a sweep knows of an account it raced with at most once is sound.
THEOREM SweepsAreSound == Spec => []SweepSound
<1>1. Spec => []IInv
  BY InitBooks, NextBooks, PTL DEF Spec
<1>2. IInv => SweepSound
  BY DEF IInv
<1> QED
  BY <1>1, <1>2, PTL

\* A reconciliation nobody raced with rewrites no balance that was right.
THEOREM CalmSweepsAreHarmless == Spec => []NoFalseAlarm
<1>1. Spec => []IInv
  BY InitBooks, NextBooks, PTL DEF Spec
<1>2. IInv => NoFalseAlarm
  <2> SUFFICES ASSUME IInv, NEW k \in Reconcilers,
                      NEW a \in Accounts \ tainted, Calm(k, a), Lands(k, a)
               PROVE  FALSE
    BY DEF NoFalseAlarm
  <2>1. SoundAt(k, a)
    BY SoundAtAll DEF IInv, Lands, Underway
  <2>2. /\ sweep[k].sums[a] \in Int /\ sweep[k].seen[a] \in Int
        /\ balance[a] \in Int /\ opening[a] \in Int
        /\ LedgerSum(a) \in Int
    BY LedgerSumInt DEF IInv, TypeOK
  <2>3. InFlight(a) = 0
    BY IdleAccount DEF IInv, Calm
  <2>4. balance[a] = opening[a] + LedgerSum(a)
    BY <2>2, <2>3 DEF IInv, BooksBalance
  <2>5. sweep[k].sums[a] = LedgerSum(a)
    BY <2>1, <2>2, <2>3 DEF SoundAt, Calm, Lands
  <2> QED
    BY <2>2, <2>4, <2>5 DEF Lands, Drift, Computed
<1> QED
  BY <1>1, <1>2, PTL

-----------------------------------------------------------------------------
(* The refinement: the increments in flight belong to rows nobody else     *)
(* edits, so an observer who adds them sees every write change its row and *)
(* its balances in one step.                                               *)

\* What an observer who adds the increments in flight takes a balance to be.
Seen(a) == balance[a] + InFlight(a)

\* Requests under way edit different rows, and a row about to be written is
\* still the one that was read.
Active(r) == request[r].pc \in {"read", "sync"}

Serial ==
  \A r \in Requests : Active(r) =>
    /\ rows[request[r].row].type # "none"
    /\ request[r].pc = "read" =>
         /\ rows[request[r].row] = request[r].before
         /\ request[r].before.type \in Kinds
    /\ \A s \in Requests :
         Active(s) /\ s # r => request[s].row # request[r].row

SInv == IInv /\ Serial

LEMMA InitSerial == Init => SInv
BY InitBooks DEF SInv, Serial, Active, Init, Unread

\* A request that stays on its row, or lets go of it, keeps the edits serial.
LEMMA StayOnRow ==
  ASSUME TypeOK, Serial, NEW r \in Requests, NEW q,
         request' = [request EXCEPT ![r] = q], q.row = request[r].row,
         q.pc \in {"read", "sync"} => Active(r) /\ q.pc = "sync",
         NEW row, rows' = [rows EXCEPT ![q.row] = row] \/ UNCHANGED rows,
         rows' # rows => Active(r) /\ row.type # "none"
  PROVE  Serial'
<1> SUFFICES ASSUME NEW s \in Requests, Active(s)'
             PROVE  /\ rows'[request'[s].row].type # "none"
                    /\ request'[s].pc = "read" =>
                         /\ rows'[request'[s].row] = request'[s].before
                         /\ request'[s].before.type \in Kinds
                    /\ \A u \in Requests : Active(u)' /\ u # s
                         => request'[u].row # request'[s].row
  BY DEF Serial
<1>1. \A u \in Requests : /\ request'[u].row = request[u].row
                          /\ Active(u)' => Active(u)
                          /\ u # r => request'[u] = request[u]
                          /\ u = r => request'[u] = q
  BY DEF Active, TypeOK
<1>2. Active(s)
  BY <1>1
<1>3. \A u \in Requests : Active(u)' /\ u # s
                            => request'[u].row # request'[s].row
  BY <1>1, <1>2 DEF Serial
<1>4. CASE rows' = rows
  <2>1. CASE s = r
    BY <1>1, <1>2, <1>3, <1>4, <2>1 DEF Serial, Active
  <2>2. CASE s # r
    BY <1>1, <1>2, <1>3, <1>4, <2>2 DEF Serial, Active
  <2> QED
    BY <2>1, <2>2
<1>5. CASE rows' # rows
  <2>1. rows' = [rows EXCEPT ![q.row] = row] /\ Active(r) /\ row.type # "none"
    BY <1>5
  <2>2. CASE s = r
    <3>1. rows'[request'[s].row].type # "none"
      BY <1>1, <1>2, <2>1, <2>2 DEF Serial, TypeOK
    <3> QED
      BY <1>1, <1>3, <2>2, <3>1 DEF Active
  <2>3. CASE s # r
    <3>1. request[s].row # request[r].row
      BY <1>2, <2>1, <2>3 DEF Serial
    <3>2. rows'[request[s].row] = rows[request[s].row]
      BY <2>1, <3>1 DEF TypeOK
    <3> QED
      BY <1>1, <1>2, <1>3, <2>3, <3>2 DEF Serial
  <2> QED
    BY <2>2, <2>3
<1> QED
  BY <1>4, <1>5

\* A request that begins takes a row nobody is editing.
LEMMA TakeRow ==
  ASSUME TypeOK, Serial, NEW r \in Requests, NEW q, NEW row,
         request' = [request EXCEPT ![r] = q],
         request[r].pc = "new", q.row \in Rows, rows[q.row] \in StoredRow,
         \A s \in Requests : Active(s) => request[s].row # q.row,
         rows' = [rows EXCEPT ![q.row] = row], row.type # "none",
         q.pc = "read" => row = q.before /\ row.type \in Kinds
  PROVE  Serial'
<1> SUFFICES ASSUME NEW s \in Requests, Active(s)'
             PROVE  /\ rows'[request'[s].row].type # "none"
                    /\ request'[s].pc = "read" =>
                         /\ rows'[request'[s].row] = request'[s].before
                         /\ request'[s].before.type \in Kinds
                    /\ \A u \in Requests : Active(u)' /\ u # s
                         => request'[u].row # request'[s].row
  BY DEF Serial
<1>1. /\ request'[r] = q
      /\ \A u \in Requests : u # r => /\ request'[u] = request[u]
                                      /\ Active(u)' => Active(u)
  BY DEF Active, TypeOK
<1>2. rows'[q.row] = row
  BY DEF TypeOK
<1>3. CASE s = r
  BY <1>1, <1>2, <1>3
<1>4. CASE s # r
  <2>1. Active(s) /\ request[s].row # q.row
    BY <1>1, <1>4
  <2>2. rows'[request[s].row] = rows[request[s].row]
    BY <2>1 DEF TypeOK
  <2> QED
    BY <1>1, <1>4, <2>1, <2>2 DEF Serial
<1> QED
  BY <1>3, <1>4

\* A write moves what the observer sees by the difference its row makes.
LEMMA WriteSeen ==
  ASSUME IInv, NEW r \in Requests, NEW q \in RequestRecord,
         request[r].legs = {}, q.legs = Legs(q.before, q.after),
         request' = [request EXCEPT ![r] = q], UNCHANGED balance,
         NEW a \in Accounts
  PROVE  Seen(a)' = Seen(a) + LedgerDelta(q.after, a) - LedgerDelta(q.before, a)
<1>1. /\ q \in Requestish /\ request[r] \in Requestish
      /\ q.before \in StoredRow /\ q.after \in StoredRow
  BY RecordIsRequestish, RequestTyped DEF IInv, Requestish
<1>2. InFlight(a)' = InFlight(a) + Pending(q, a) - Pending(request[r], a)
  BY <1>1, MoveRequest DEF IInv
<1>3. /\ Pending(request[r], a) = 0
      /\ Pending(q, a) = LedgerDelta(q.after, a) - LedgerDelta(q.before, a)
  BY <1>1, PendingInt, LegsAgree
<1>4. /\ InFlight(a) \in Int /\ balance[a] \in Int
      /\ LedgerDelta(q.after, a) \in Int /\ LedgerDelta(q.before, a) \in Int
  BY <1>1, InFlightInt, LedgerDeltaInt DEF IInv, TypeOK
<1> QED
  BY <1>2, <1>3, <1>4 DEF Seen

\* A request that owes nothing before and after a step shows the observer nothing.
LEMMA IdleSeen ==
  ASSUME IInv, NEW r \in Requests, NEW q \in RequestRecord,
         request[r].legs = {}, q.legs = {},
         request' = [request EXCEPT ![r] = q], UNCHANGED balance,
         NEW a \in Accounts
  PROVE  Seen(a)' = Seen(a)
<1>1. q \in Requestish /\ request[r] \in Requestish
  BY RecordIsRequestish, RequestTyped DEF IInv
<1>2. InFlight(a)' = InFlight(a) + Pending(q, a) - Pending(request[r], a)
  BY <1>1, MoveRequest DEF IInv
<1>3. Pending(request[r], a) = 0 /\ Pending(q, a) = 0 /\ InFlight(a) \in Int
  BY <1>1, PendingInt, InFlightInt DEF IInv
<1> QED
  BY <1>2, <1>3 DEF Seen

\* The observed row and balances change as an atomic write to row t changes them.
Written(t, row) ==
  /\ rows' = [rows EXCEPT ![t] = row]
  /\ opening' = opening
  /\ \A a \in Accounts :
       Seen(a)' = Seen(a) + LedgerDelta(row, a) - LedgerDelta(rows[t], a)

Untouched ==
  rows' = rows /\ opening' = opening /\ \A a \in Accounts : Seen(a)' = Seen(a)

\* Books sees the same rows, kinds and effects.
LEMMA SameRows ==
  /\ Atomic!Rows = Rows /\ Atomic!Kinds = Kinds
  /\ Atomic!NoRow = NoRow /\ Atomic!DeletedRow = DeletedRow
  /\ Atomic!ValidRow = ValidRow
  /\ \A row, a : Atomic!LedgerDelta(row, a) = LedgerDelta(row, a)
<1>1. Atomic!Rows = Rows /\ Atomic!Kinds = Kinds
  BY DEF Atomic!Rows, Rows, Atomic!Kinds, Kinds
<1>2. Atomic!NoRow = NoRow /\ Atomic!DeletedRow = DeletedRow
  BY DEF Atomic!NoRow, NoRow, Atomic!DeletedRow, DeletedRow
<1>3. Atomic!ValidRow = ValidRow
  BY <1>1, Zenon DEF Atomic!ValidRow, ValidRow
<1>4. ASSUME NEW row, NEW a
      PROVE  Atomic!LedgerDelta(row, a) = LedgerDelta(row, a)
  BY Zenon DEF Atomic!LedgerDelta, LedgerDelta
<1> QED
  BY <1>1, <1>2, <1>3, <1>4

LEMMA WrittenIsReplace ==
  ASSUME NEW t, NEW row, Written(t, row)
  PROVE  Atomic!Replace(t, row)
BY SameRows DEF Written, Atomic!Replace, Seen

\* A step of the atomic ledger, or a stutter.
BookStep == [Atomic!Next]_(Atomic!vars)

LEMMA UntouchedIsStutter ==
  ASSUME Untouched
  PROVE  BookStep
BY DEF BookStep, Untouched, Atomic!vars, Seen

LEMMA CreateRefines ==
  ASSUME SInv, NEW r \in Requests, NEW t \in Rows, NEW row \in ValidRow,
         Create(r, t, row)
  PROVE  Serial' /\ Atomic!Record(t)
<1> DEFINE q == [pc |-> "sync", row |-> t, before |-> NoRow, after |-> row,
                 legs |-> Legs(NoRow, row)]
<1>1. row \in StoredRow /\ NoRow \in StoredRow /\ rows[t] \in StoredRow
  BY RowTypes DEF SInv, IInv, TypeOK
<1>2. /\ q \in RequestRecord /\ q.before = NoRow /\ q.after = row
      /\ q.legs = Legs(q.before, q.after) /\ q.row = t /\ q.pc = "sync"
  BY <1>1, LegsType DEF RequestRecord
<1>3. /\ request' = [request EXCEPT ![r] = q]
      /\ rows' = [rows EXCEPT ![t] = row] /\ UNCHANGED <<balance, opening>>
      /\ rows[t].type = "none" /\ request[r].pc = "new"
  BY DEF Create
<1>4. request[r].legs = {}
  BY <1>3 DEF SInv, IInv, WellFormed
<1> HIDE DEF q
<1>5. Serial'
  <2>1. row.type # "none"
    BY DEF ValidRow, Kinds
  <2>2. \A s \in Requests : Active(s) => request[s].row # t
    BY <1>3 DEF SInv, Serial
  <2> QED
    BY <1>1, <1>2, <1>3, <2>1, <2>2, TakeRow DEF SInv, IInv
<1>6. Written(t, row)
  <2> SUFFICES ASSUME NEW a \in Accounts
               PROVE  Seen(a)' = Seen(a) + LedgerDelta(row, a)
                                 - LedgerDelta(rows[t], a)
    BY <1>3 DEF Written
  <2>1. LedgerDelta(rows[t], a) = 0 /\ LedgerDelta(NoRow, a) = 0
    <3>1. rows[t].type = "none" /\ rows[t].amount \in Int
      BY <1>1, <1>3, StoredRowFields
    <3> QED
      BY <3>1, LedgerDeltaNone DEF LedgerDelta
  <2>2. Seen(a)' = Seen(a) + LedgerDelta(row, a) - LedgerDelta(NoRow, a)
    BY <1>2, <1>3, <1>4, WriteSeen DEF SInv
  <2> QED
    BY <2>1, <2>2
<1> QED
  BY <1>3, <1>5, <1>6, WrittenIsReplace, SameRows DEF Atomic!Record

LEMMA ReadRefines ==
  ASSUME SInv, SerialEdits, NEW r \in Requests, NEW t \in Rows,
         NEW after \in ValidRow \cup {NoRow}, Read(r, t, after)
  PROVE  Serial' /\ Untouched
<1> DEFINE q == [pc |-> "read", row |-> t, before |-> rows[t],
                 after |-> after, legs |-> {}]
<1>1. /\ q \in RequestRecord /\ q.legs = {} /\ q.row = t
      /\ q.before = rows[t] /\ q.pc = "read" /\ rows[t] \in StoredRow
  BY DEF RequestRecord, SInv, IInv, TypeOK
<1>2. /\ request' = [request EXCEPT ![r] = q]
      /\ UNCHANGED <<balance, opening, rows>>
      /\ rows[t].type \in Kinds /\ request[r].pc = "new" /\ Editable(t)
  BY DEF Read
<1>3. request[r].legs = {}
  BY <1>2 DEF SInv, IInv, WellFormed
<1> HIDE DEF q
<1>4. Serial'
  <2>1. \A s \in Requests : Active(s) => request[s].row # t
    BY <1>2 DEF Editable, Active
  <2>2. rows[t].type # "none"
    BY <1>2 DEF Kinds
  <2>3. rows' = [rows EXCEPT ![t] = rows[t]]
    BY <1>2 DEF SInv, IInv, TypeOK
  <2> QED
    BY <1>1, <1>2, <2>1, <2>2, <2>3, TakeRow DEF SInv, IInv
<1>5. Untouched
  BY <1>1, <1>2, <1>3, IdleSeen DEF Untouched, SInv
<1> QED
  BY <1>4, <1>5

LEMMA RejectRefines ==
  ASSUME SInv, NEW r \in Requests, Abort(r) \/ SaveMissing(r)
  PROVE  Serial' /\ Untouched
<1> DEFINE m == Moved(request[r], "failed", {})
<1>1. /\ m \in RequestRecord /\ m.legs = {} /\ m.pc = "failed"
      /\ m.row = request[r].row
  BY RequestFields, MovedType DEF SInv, IInv
<1>2. request[r].legs = {}
  BY DEF Abort, SaveMissing, SInv, IInv, WellFormed
<1>3. /\ request' = [request EXCEPT ![r] = m]
      /\ UNCHANGED <<balance, opening, rows>>
  BY DEF Abort, SaveMissing
<1> HIDE DEF m
<1>4. Serial'
  BY <1>1, <1>3, StayOnRow DEF SInv, IInv
<1>5. Untouched
  BY <1>1, <1>2, <1>3, IdleSeen DEF Untouched, SInv
<1> QED
  BY <1>4, <1>5

LEMMA LegRefines ==
  ASSUME SInv, NEW r \in Requests, NEW leg \in 1 .. 4, ApplyLeg(r, leg)
  PROVE  Serial' /\ Untouched
<1> DEFINE q == request[r]
           rest == q.legs \ {leg}
           pc == IF rest = {} THEN "done" ELSE "sync"
           m == Moved(q, pc, rest)
<1>1. m \in RequestRecord /\ m.row = q.row /\ m.pc = pc
  BY RequestFields, MovedType DEF SInv, IInv
<1>2. /\ request' = [request EXCEPT ![r] = m] /\ q.pc = "sync"
      /\ UNCHANGED <<opening, rows>>
  BY DEF ApplyLeg
<1>3. m.pc \in {"read", "sync"} => Active(r) /\ m.pc = "sync"
  BY <1>1, <1>2 DEF Active
<1> HIDE DEF m
<1>4. Serial'
  BY <1>1, <1>2, <1>3, StayOnRow DEF SInv, IInv
<1>5. Untouched
  BY <1>2, LegMoves DEF Untouched, Seen, SInv
<1> QED
  BY <1>4, <1>5

LEMMA PersistRefines ==
  ASSUME SInv, NEW r \in Requests, SaveUpdate(r) \/ DeleteRow(r)
  PROVE  /\ Serial'
         /\ \E t \in Rows : Atomic!Amend(t) \/ Atomic!Erase(t)
<1> PICK t : t = request[r].row
  OBVIOUS
<1> PICK stored : stored = IF request[r].after.type = "none" THEN DeletedRow
                           ELSE Patched(rows[t], request[r].before,
                                        request[r].after)
  OBVIOUS
<1> DEFINE q == request[r]
           m == Moved(q, "sync", Legs(q.before, q.after))
<1>1. q.pc = "read" /\ Persist(r, stored)
  BY DEF SaveUpdate, DeleteRow
<1>2. /\ q \in RequestRecord /\ t \in Rows /\ q.legs = {}
      /\ q.before \in StoredRow /\ q.after \in ValidRow \cup {NoRow}
      /\ q.after \in StoredRow /\ Active(r)
  BY <1>1, RequestFields DEF SInv, IInv, WellFormed, Active
<1>3. rows[t] = q.before /\ q.before.type \in Kinds
  BY <1>1, <1>2 DEF SInv, Serial
<1>4. /\ m \in RequestRecord /\ m.before = q.before /\ m.after = q.after
      /\ m.legs = Legs(m.before, m.after) /\ m.row = t /\ m.pc = "sync"
  BY <1>2, LegsType, MovedType
<1>5. /\ rows' = [rows EXCEPT ![t] = stored]
      /\ request' = [request EXCEPT ![r] = m]
      /\ UNCHANGED <<balance, opening>>
  BY <1>1 DEF Persist
<1>6. \/ stored = DeletedRow /\ q.after = NoRow
      \/ stored = q.after /\ q.after \in ValidRow
  <2>1. CASE q.after.type = "none"
    BY <1>2, <2>1 DEF ValidRow, Kinds
  <2>2. CASE q.after.type # "none"
    BY <1>2, <1>3, <2>2, PatchedFresh DEF NoRow
  <2> QED
    BY <2>1, <2>2
<1>7. stored.type # "none"
  BY <1>6 DEF DeletedRow, ValidRow, Kinds
<1>8. SameEffect(stored, q.after)
  BY <1>6, LedgerDeltaNone DEF SameEffect
<1> HIDE DEF m
<1>9. Serial'
  BY <1>2, <1>4, <1>5, <1>7, StayOnRow DEF SInv, IInv
<1>10. Written(t, stored)
  <2> SUFFICES ASSUME NEW a \in Accounts
               PROVE  Seen(a)' = Seen(a) + LedgerDelta(stored, a)
                                 - LedgerDelta(rows[t], a)
    BY <1>5 DEF Written
  <2>1. Seen(a)' = Seen(a) + LedgerDelta(q.after, a) - LedgerDelta(q.before, a)
    BY <1>2, <1>4, <1>5, WriteSeen DEF SInv
  <2> QED
    BY <2>1, <1>3, <1>8 DEF SameEffect
<1>11. Atomic!Replace(t, stored)
  BY <1>10, WrittenIsReplace
<1>12. Atomic!Amend(t) \/ Atomic!Erase(t)
  BY <1>3, <1>6, <1>11, SameRows DEF Atomic!Amend, Atomic!Erase
<1> QED
  BY <1>2, <1>9, <1>12

\* Every step of the detailed ledger is an atomic write or a stutter.
LEMMA NextRefines ==
  ASSUME SInv, [Next]_vars, SerialEdits, MaxFailures = 0, Reconcilers = {}
  PROVE  SInv' /\ BookStep
<1>1. IInv'
  BY NextBooks DEF SInv
<1>2. ASSUME NEW r \in Requests, Start(r)
      PROVE  Serial' /\ BookStep
  <2>1. PICK t \in Rows :
          \/ \E row \in ValidRow : Create(r, t, row)
          \/ \E after \in ValidRow \cup {NoRow} : Read(r, t, after)
    BY <1>2 DEF Start
  <2>2. CASE \E row \in ValidRow : Create(r, t, row)
    BY <2>2, CreateRefines, SameRows DEF BookStep, Atomic!Next
  <2>3. CASE \E after \in ValidRow \cup {NoRow} : Read(r, t, after)
    BY <2>3, ReadRefines, UntouchedIsStutter
  <2> QED
    BY <2>1, <2>2, <2>3
<1>3. ASSUME NEW r \in Requests, Abort(r) \/ SaveMissing(r)
      PROVE  Serial' /\ BookStep
  BY <1>3, RejectRefines, UntouchedIsStutter
<1>4. ASSUME NEW r \in Requests, SaveUpdate(r) \/ DeleteRow(r)
      PROVE  Serial' /\ BookStep
  BY <1>4, PersistRefines, SameRows DEF BookStep, Atomic!Next
<1>5. ASSUME NEW r \in Requests, NEW leg \in 1 .. 4, ApplyLeg(r, leg)
      PROVE  Serial' /\ BookStep
  BY <1>5, LegRefines, UntouchedIsStutter
<1>6. ASSUME NEW r \in Requests, DropLegs(r)
      PROVE  FALSE
  BY <1>6 DEF DropLegs, SInv, IInv, TypeOK
<1>7. ASSUME UNCHANGED vars
      PROVE  Serial' /\ BookStep
  <2>1. Serial'
    BY <1>7 DEF vars, SInv, Serial, Active
  <2>2. Untouched
    BY <1>7, SweepFrame DEF vars, Untouched, Seen
  <2> QED
    BY <2>1, <2>2, UntouchedIsStutter
<1>8. Serial' /\ BookStep
  BY <1>2, <1>3, <1>4, <1>5, <1>6, <1>7 DEF Next, Proceed
<1> QED
  BY <1>1, <1>8 DEF SInv

LEMMA InitRefines == Init => Atomic!Init
<1> SUFFICES ASSUME Init PROVE Atomic!Init
  OBVIOUS
<1>1. ASSUME NEW a \in Accounts
      PROVE  balance[a] + InFlight(a) = opening[a] + LedgerSum(a)
  <2>1. ~Busy(a)
    BY DEF Init, Unread, Busy, Touched
  <2>2. InFlight(a) = 0 /\ balance[a] \in Int
    BY <2>1, InitTyped, IdleAccount DEF TypeOK
  <2> QED
    BY <2>2 DEF Init
<1>2. [a \in Accounts |-> balance[a] + InFlight(a)]
        = [a \in Accounts |-> opening[a] + LedgerTotal(rows, a)]
  BY <1>1 DEF LedgerSum
<1>3. ASSUME NEW a
      PROVE  Atomic!LedgerTotal(rows, a) = LedgerTotal(rows, a)
  <2>1. [t \in Rows |-> Atomic!LedgerDelta(rows[t], a)]
          = [t \in Rows |-> LedgerDelta(rows[t], a)]
    BY SameRows
  <2>2. \A n, e : Atomic!SumTo(n, e) = SumTo(n, e)
    BY Zenon DEF Atomic!SumTo, Atomic!PrefixSums, SumTo, PrefixSums
  <2> QED
    BY <2>1, <2>2, SameRows, Zenon DEF Atomic!LedgerTotal, LedgerTotal
<1> QED
  BY <1>2, <1>3, SameRows DEF Init, Atomic!Init

\* With one editor per row and no failures, the ledger is the atomic ledger.
THEOREM LedgerImplementsBooks ==
  ASSUME SerialEdits, MaxFailures = 0, Reconcilers = {}
  PROVE  Spec => ImplementsBooks
<1>1. Init => SInv /\ Atomic!Init
  BY InitSerial, InitRefines
<1>2. SInv /\ [Next]_vars => SInv' /\ [Atomic!Next]_(Atomic!vars)
  BY NextRefines DEF BookStep
<1> QED
  BY <1>1, <1>2, PTL DEF Spec, ImplementsBooks, Atomic!Spec
=============================================================================
