----------------------------- MODULE PagesProofs ----------------------------
(***************************************************************************)
(* Pages.tla for any lists, months, limits, files and ledgers, and any     *)
(* number of calls on the wire: the screens show what is stored            *)
(* (ScreensSettle), no page waits for nothing (NobodyIsStuck), calls and   *)
(* writes are what the member meant (CallsAreSound, WritesMeant), and the  *)
(* reports agree with each other (ReportsAlwaysAgree).                     *)
(*                                                                         *)
(* Each page has an invariant of its own, which says of every call on the  *)
(* wire what its handler will find: that its answer is as new as what the  *)
(* page has promised since, or who else will bring something newer.  At    *)
(* rest nothing is on the wire, and what is left of the invariant is the   *)
(* property.  A list settles because somebody awaits it (OwedAwaited,      *)
(* ListAwaited, BalancesAwaited); a budget because a fetch that crossed a  *)
(* write has that write's handler after it (Unsettled); the bell because a *)
(* call that is alone meets no other (AloneTakes).                         *)
(*                                                                         *)
(* The reports need no invariant but the types of a transaction: the folds *)
(* of Reports.tla are shown to add up as sums do, by smallest              *)
(* counterexample, and the figures are equations between such sums.        *)
(***************************************************************************)
EXTENDS Pages, SequenceTheorems, FiniteSetTheorems, TLAPS

-----------------------------------------------------------------------------
(* Calls as a sequence.                                                    *)

LessThan == {pair \in Nat \X Nat : pair[1] < pair[2]}

\* Every nonempty set of naturals has a least element.
LEMMA LeastElement ==
  ASSUME NEW T \in SUBSET Nat, T # {}
  PROVE  \E m \in T : \A n \in T : m <= n
<1>1. IsWellFoundedOn(LessThan, Nat)
  BY NatLessThanWellFounded DEF OpToRel, LessThan
<1>2. PICK m \in T : \A n \in T : ~(<<n, m>> \in LessThan)
  BY <1>1, WFMin
<1>3. \A i, j \in Nat : i < j => <<i, j>> \in LessThan
  BY DEF LessThan
<1>4. ASSUME NEW n \in T PROVE m <= n
  <2>1. m \in Nat /\ n \in Nat
    OBVIOUS
  <2>2. ~(n < m)
    BY <1>2, <1>3, <2>1
  <2> QED
    BY <2>1, <2>2
<1> QED
  BY <1>4

\* The calls `new` are those of the calls `old` at the places J, and the calls N,
\* in some order: each of them once, and no other.
Made(new, old, J, N) ==
  /\ \A k \in DOMAIN new : new[k] \in N \/ \E j \in J : new[k] = old[j]
  /\ \A j \in J : \E k \in DOMAIN new : new[k] = old[j]
  /\ \A c \in N : \E k \in DOMAIN new : new[k] = c
  /\ \A k, l \in DOMAIN new : k # l =>
       \/ \E i, j \in J : i # j /\ new[k] = old[i] /\ new[l] = old[j]
       \/ new[k] \in N /\ \E j \in J : new[l] = old[j]
       \/ new[l] \in N /\ \E j \in J : new[k] = old[j]
       \/ new[k] \in N /\ new[l] \in N /\ new[k] # new[l]

\* What RemoveAt() leaves, place by place.
LEMMA RemovedAt ==
  ASSUME NEW S, NEW cs \in Seq(S), NEW i \in DOMAIN cs
  PROVE  /\ RemoveAt(cs, i) \in Seq(S)
         /\ Len(RemoveAt(cs, i)) = Len(cs) - 1
         /\ \A k \in 1 .. Len(cs) - 1 :
              RemoveAt(cs, i)[k] = IF k < i THEN cs[k] ELSE cs[k + 1]
<1> DEFINE a == SubSeq(cs, 1, i - 1)
           b == SubSeq(cs, i + 1, Len(cs))
<1>0. i \in Nat /\ i >= 1 /\ i <= Len(cs) /\ Len(cs) \in Nat
  OBVIOUS
<1>1. /\ a \in Seq(S) /\ Len(a) = i - 1
      /\ \A k \in 1 .. i - 1 : a[k] = cs[k]
  <2>1. \A k \in 1 .. i - 1 : cs[k] \in S
    BY <1>0
  <2> QED
    BY <1>0, <2>1, SubSeqProperties, Z3
<1>2. /\ b \in Seq(S) /\ Len(b) = Len(cs) - i
      /\ \A k \in 1 .. Len(cs) - i : b[k] = cs[k + i]
  <2>1. \A k \in i + 1 .. Len(cs) : cs[k] \in S
    BY <1>0
  <2>2. /\ b \in Seq(S)
        /\ Len(b) = IF i + 1 <= Len(cs) THEN Len(cs) - (i + 1) + 1 ELSE 0
        /\ \A k \in 1 .. Len(cs) - (i + 1) + 1 : b[k] = cs[i + 1 + k - 1]
    <3>1. ASSUME NEW m \in Int, NEW n \in Int, \A k \in m .. n : cs[k] \in S
          PROVE  /\ SubSeq(cs, m, n) \in Seq(S)
                 /\ Len(SubSeq(cs, m, n)) = IF m <= n THEN n - m + 1 ELSE 0
                 /\ \A k \in 1 .. n - m + 1 : SubSeq(cs, m, n)[k] = cs[m + k - 1]
      BY <3>1, SubSeqProperties, Z3
    <3> QED
      BY <1>0, <2>1, <3>1
  <2> QED
    BY <1>0, <2>2
<1>3. RemoveAt(cs, i) = a \o b
  BY DEF RemoveAt
<1> HIDE DEF a, b
<1>4. /\ a \o b \in Seq(S)
      /\ Len(a \o b) = Len(a) + Len(b)
      /\ \A k \in 1 .. Len(a) + Len(b) :
           (a \o b)[k] = IF k <= Len(a) THEN a[k] ELSE b[k - Len(a)]
  BY <1>1, <1>2, ConcatProperties, Zenon
<1>5. ASSUME NEW k \in 1 .. Len(cs) - 1
      PROVE  (a \o b)[k] = IF k < i THEN cs[k] ELSE cs[k + 1]
  <2>1. (a \o b)[k] = IF k <= Len(a) THEN a[k] ELSE b[k - Len(a)]
    BY <1>1, <1>2, <1>4, <1>0
  <2>2. CASE k < i
    BY <2>1, <2>2, <1>1, <1>0
  <2>3. CASE ~(k < i)
    <3>1. k - (i - 1) \in 1 .. Len(cs) - i
      BY <2>3, <1>0
    <3>2. (a \o b)[k] = b[k - (i - 1)]
      BY <2>1, <2>3, <1>1, <1>0
    <3>3. b[k - (i - 1)] = cs[k - (i - 1) + i]
      BY <3>1, <1>2
    <3>4. k - (i - 1) + i = k + 1
      BY <1>0
    <3> QED
      BY <3>2, <3>3, <3>4, <2>3
  <2> QED
    BY <2>2, <2>3
<1> QED
  BY <1>1, <1>2, <1>3, <1>4, <1>5, <1>0

\* RemoveAt() takes one call out.
LEMMA RemovedMade ==
  ASSUME NEW S, NEW cs \in Seq(S), NEW i \in DOMAIN cs
  PROVE  Made(RemoveAt(cs, i), cs, DOMAIN cs \ {i}, {})
<1> DEFINE r == RemoveAt(cs, i)
           at(k) == IF k < i THEN k ELSE k + 1
           back(j) == IF j < i THEN j ELSE j - 1
<1>0. i \in Nat /\ i >= 1 /\ i <= Len(cs) /\ Len(cs) \in Nat /\ DOMAIN cs = 1 .. Len(cs)
  OBVIOUS
<1>1. /\ r \in Seq(S) /\ Len(r) = Len(cs) - 1
      /\ \A k \in 1 .. Len(cs) - 1 : r[k] = IF k < i THEN cs[k] ELSE cs[k + 1]
  BY RemovedAt
<1> HIDE DEF r
<1>2. DOMAIN r = 1 .. Len(cs) - 1
  BY <1>1
<1>3. ASSUME NEW k \in DOMAIN r
      PROVE  at(k) \in DOMAIN cs \ {i} /\ r[k] = cs[at(k)]
  BY <1>0, <1>1, <1>2
<1>4. ASSUME NEW j \in DOMAIN cs \ {i}
      PROVE  back(j) \in DOMAIN r /\ r[back(j)] = cs[j]
  BY <1>0, <1>1, <1>2
<1>5. ASSUME NEW k \in DOMAIN r, NEW l \in DOMAIN r, k # l
      PROVE  at(k) # at(l)
  BY <1>0, <1>2, <1>5
<1> HIDE DEF at, back
<1> QED
  BY <1>3, <1>4, <1>5 DEF Made, r

\* Append() adds one.
LEMMA AppendedMade ==
  ASSUME NEW S, NEW cs \in Seq(S), NEW c \in S
  PROVE  Made(Append(cs, c), cs, DOMAIN cs, {c})
<1>1. /\ Append(cs, c) \in Seq(S)
      /\ Len(Append(cs, c)) = Len(cs) + 1
      /\ \A i \in 1 .. Len(cs) : Append(cs, c)[i] = cs[i]
      /\ Append(cs, c)[Len(cs) + 1] = c
  BY AppendProperties
<1> DEFINE r == Append(cs, c)
<1> HIDE DEF r
<1>2. /\ DOMAIN cs = 1 .. Len(cs) /\ DOMAIN r = 1 .. Len(cs) + 1 /\ Len(cs) \in Nat
      /\ \A k \in DOMAIN cs : k \in DOMAIN r /\ r[k] = cs[k]
      /\ Len(cs) + 1 \in DOMAIN r /\ r[Len(cs) + 1] = c
      /\ \A k \in DOMAIN r : k \in DOMAIN cs \/ k = Len(cs) + 1
  BY <1>1 DEF r
<1> QED
  BY <1>2 DEF Made, r

\* Changes in a row: one more call is added.
LEMMA MadeThenOne ==
  ASSUME NEW S, NEW old \in Seq(S), NEW cs \in Seq(S), NEW c \in S,
         NEW J \in SUBSET (DOMAIN old), NEW N, c \notin N, Made(cs, old, J, N)
  PROVE  Append(cs, c) \in Seq(S) /\ Made(Append(cs, c), old, J, N \cup {c})
<1>1. Append(cs, c) \in Seq(S) /\ Made(Append(cs, c), cs, DOMAIN cs, {c})
  BY AppendedMade, AppendProperties
<1> DEFINE r == Append(cs, c)
           M == N \cup {c}
<1> HIDE DEF r
<1>2. \A k \in DOMAIN r : r[k] \in M \/ \E j \in J : r[k] = old[j]
  BY <1>1 DEF Made, r
<1>3. (\A j \in J : \E k \in DOMAIN r : r[k] = old[j]) /\ \A d \in M : \E k \in DOMAIN r : r[k] = d
  <2>1. \E k \in DOMAIN r : r[k] = c
    BY <1>1 DEF Made, r
  <2>2. ASSUME NEW j \in J PROVE \E k \in DOMAIN r : r[k] = old[j]
    <3>1. PICK m \in DOMAIN cs : cs[m] = old[j]
      BY DEF Made
    <3>2. \E k \in DOMAIN r : r[k] = cs[m]
      BY <1>1 DEF Made, r
    <3> QED
      BY <3>1, <3>2
  <2>3. ASSUME NEW d \in N PROVE \E k \in DOMAIN r : r[k] = d
    <3>1. PICK m \in DOMAIN cs : cs[m] = d
      BY DEF Made
    <3>2. \E k \in DOMAIN r : r[k] = cs[m]
      BY <1>1 DEF Made, r
    <3> QED
      BY <3>1, <3>2
  <2> QED
    BY <2>1, <2>2, <2>3
<1>4. ASSUME NEW k \in DOMAIN r, NEW l \in DOMAIN r, k # l
      PROVE  \/ \E i, j \in J : i # j /\ r[k] = old[i] /\ r[l] = old[j]
             \/ r[k] \in M /\ \E j \in J : r[l] = old[j]
             \/ r[l] \in M /\ \E j \in J : r[k] = old[j]
             \/ r[k] \in M /\ r[l] \in M /\ r[k] # r[l]
  <2>1. CASE \E i, j \in DOMAIN cs : i # j /\ r[k] = cs[i] /\ r[l] = cs[j]
    <3>1. PICK i, j \in DOMAIN cs : i # j /\ r[k] = cs[i] /\ r[l] = cs[j]
      BY <2>1
    <3>2. \/ \E i1, j1 \in J : i1 # j1 /\ cs[i] = old[i1] /\ cs[j] = old[j1]
          \/ cs[i] \in N /\ \E j1 \in J : cs[j] = old[j1]
          \/ cs[j] \in N /\ \E j1 \in J : cs[i] = old[j1]
          \/ cs[i] \in N /\ cs[j] \in N /\ cs[i] # cs[j]
      BY <3>1 DEF Made
    <3> QED
      BY <3>1, <3>2
  <2>2. CASE r[k] = c /\ \E j \in DOMAIN cs : r[l] = cs[j]
    BY <2>2 DEF Made
  <2>3. CASE r[l] = c /\ \E j \in DOMAIN cs : r[k] = cs[j]
    BY <2>3 DEF Made
  <2> QED
    BY <1>1, <1>4, <2>1, <2>2, <2>3 DEF Made, r
<1> QED
  BY <1>1, <1>2, <1>3, <1>4 DEF Made, r

\* g lists what is left of the first calls without those of a kind.
AreKept(cs, kind, g) ==
  g = [n \in 0 .. Len(cs) |->
         IF n = 0 THEN <<>>
         ELSE IF cs[n].kind = kind THEN g[n - 1] ELSE Append(g[n - 1], cs[n])]

KeptOf(cs, kind, n) == {j \in 1 .. n : cs[j].kind # kind}

LEMMA KeptExists ==
  ASSUME NEW S, NEW cs \in Seq(S), NEW kind
  PROVE  \E g : AreKept(cs, kind, g)
<1> DEFINE F(g, n) == g = [k \in 0 .. n |->
             IF k = 0 THEN <<>>
             ELSE IF cs[k].kind = kind THEN g[k - 1] ELSE Append(g[k - 1], cs[k])]
           Bad == {n \in Nat : ~ \E g : F(g, n)}
<1>1. Bad = {}
  <2>1. SUFFICES ASSUME Bad # {} PROVE FALSE
    OBVIOUS
  <2>2. PICK n \in Bad : \A m \in Bad : n <= m
    BY <2>1, LeastElement
  <2>3. CASE n = 0
    <3>1. F([k \in 0 .. 0 |-> <<>>], 0)
      OBVIOUS
    <3> QED
      BY <2>3, <3>1
  <2>4. CASE n # 0
    <3>1. n \in Nat /\ n - 1 \in Nat /\ n - 1 \notin Bad
      <4>1. n \in Nat /\ n - 1 \in Nat
        BY <2>4
      <4> HIDE DEF Bad
      <4> QED
        BY <4>1, <2>2
    <3>2. PICK g : F(g, n - 1)
      BY <3>1
    <3> DEFINE h == [k \in 0 .. n |->
                 IF k = n THEN IF cs[n].kind = kind THEN g[n - 1]
                               ELSE Append(g[n - 1], cs[n])
                 ELSE g[k]]
    <3>3. ASSUME NEW k \in 0 .. n
          PROVE  h[k] = IF k = 0 THEN <<>>
                        ELSE IF cs[k].kind = kind THEN h[k - 1]
                        ELSE Append(h[k - 1], cs[k])
      <4>1. CASE k = n
        <5>1. k # 0 /\ k - 1 \in 0 .. n /\ k - 1 # n /\ k - 1 = n - 1
          BY <4>1, <3>1, <2>4
        <5>2. h[k - 1] = g[n - 1]
          BY <5>1
        <5>3. h[k] = IF cs[n].kind = kind THEN g[n - 1] ELSE Append(g[n - 1], cs[n])
          BY <4>1
        <5> HIDE DEF h
        <5> QED
          BY <5>1, <5>2, <5>3, <4>1
      <4>2. CASE k # n
        <5>1. k \in 0 .. n - 1 /\ (k # 0 => k - 1 \in 0 .. n /\ k - 1 # n)
          BY <4>2, <3>1
        <5>2. h[k] = g[k] /\ (k # 0 => h[k - 1] = g[k - 1])
          BY <5>1, <4>2
        <5>3. g[k] = IF k = 0 THEN <<>>
                     ELSE IF cs[k].kind = kind THEN g[k - 1]
                     ELSE Append(g[k - 1], cs[k])
          BY <5>1, <3>2
        <5> HIDE DEF h
        <5> QED
          BY <5>2, <5>3
      <4> QED
        BY <4>1, <4>2
    <3>4. F(h, n)
      <4>1. h = [k \in 0 .. n |-> h[k]]
        OBVIOUS
      <4> HIDE DEF h
      <4>2. [k \in 0 .. n |-> h[k]] = [k \in 0 .. n |->
               IF k = 0 THEN <<>>
               ELSE IF cs[k].kind = kind THEN h[k - 1] ELSE Append(h[k - 1], cs[k])]
        BY <3>3
      <4> QED
        BY <4>1, <4>2
    <3> QED
      BY <3>4, <2>2
  <2> QED
    BY <2>3, <2>4
<1>2. Len(cs) \in Nat
  OBVIOUS
<1> QED
  BY <1>1, <1>2 DEF AreKept

LEMMA KeptWorks ==
  ASSUME NEW S, NEW cs \in Seq(S), NEW kind
  PROVE  \E g : AreKept(cs, kind, g) /\ Without(cs, kind) = g[Len(cs)]
<1> DEFINE k == CHOOSE g : AreKept(cs, kind, g)
<1>1. AreKept(cs, kind, k)
  BY KeptExists
<1>2. Without(cs, kind) = k[Len(cs)]
  BY DEF Without, AreKept
<1> QED
  BY <1>1, <1>2

\* Without() takes the calls of one kind out.
LEMMA WithoutMade ==
  ASSUME NEW S, NEW cs \in Seq(S), NEW kind
  PROVE  /\ Without(cs, kind) \in Seq(S)
         /\ Made(Without(cs, kind), cs, {j \in DOMAIN cs : cs[j].kind # kind}, {})
<1>0. Len(cs) \in Nat /\ DOMAIN cs = 1 .. Len(cs)
  OBVIOUS
<1>1. PICK g : AreKept(cs, kind, g) /\ Without(cs, kind) = g[Len(cs)]
  BY KeptWorks
<1> DEFINE Good(n) == g[n] \in Seq(S) /\ Made(g[n], cs, KeptOf(cs, kind, n), {})
           Bad == {n \in Nat : n <= Len(cs) /\ ~Good(n)}
<1>2. Bad = {}
  <2>1. SUFFICES ASSUME Bad # {} PROVE FALSE
    OBVIOUS
  <2>2. PICK n \in Bad : \A m \in Bad : n <= m
    BY <2>1, LeastElement
  <2>3. n \in Nat /\ n <= Len(cs) /\ ~Good(n)
    OBVIOUS
  <2>4. n # 0 => n - 1 \in Nat /\ Good(n - 1)
    <3> SUFFICES ASSUME n # 0 PROVE n - 1 \in Nat /\ Good(n - 1)
      OBVIOUS
    <3>1. n - 1 \in Nat /\ n - 1 <= Len(cs) /\ ~(n <= n - 1)
      BY <2>3, <1>0
    <3> HIDE DEF Good
    <3> QED
      BY <2>2, <3>1
  <2>5. g[n] = IF n = 0 THEN <<>>
               ELSE IF cs[n].kind = kind THEN g[n - 1] ELSE Append(g[n - 1], cs[n])
    <3> HIDE DEF Good, Bad
    <3>1. n \in 0 .. Len(cs)
      BY <2>3, <1>0
    <3> QED
      BY <1>1, <3>1 DEF AreKept
  <2>6. CASE n = 0
    BY <2>3, <2>5, <2>6 DEF Made, KeptOf
  <2>7. CASE n # 0 /\ cs[n].kind = kind
    <3>1. KeptOf(cs, kind, n) = KeptOf(cs, kind, n - 1)
      BY <2>3, <2>7, <1>0 DEF KeptOf
    <3> QED
      BY <2>3, <2>4, <2>5, <2>7, <3>1
  <2>8. CASE n # 0 /\ cs[n].kind # kind
    <3>1. KeptOf(cs, kind, n) = KeptOf(cs, kind, n - 1) \cup {n}
      BY <2>3, <2>8, <1>0 DEF KeptOf
    <3>2. g[n - 1] \in Seq(S) /\ Made(g[n - 1], cs, KeptOf(cs, kind, n - 1), {})
      BY <2>4, <2>8
    <3>3. cs[n] \in S /\ n \in DOMAIN cs /\ n \notin KeptOf(cs, kind, n - 1)
      BY <2>3, <2>8, <1>0 DEF KeptOf
    <3>4. /\ Append(g[n - 1], cs[n]) \in Seq(S)
          /\ Made(Append(g[n - 1], cs[n]), g[n - 1], DOMAIN g[n - 1], {cs[n]})
      BY <3>2, <3>3, AppendedMade, AppendProperties
    <3> DEFINE a == g[n - 1]
               b == Append(a, cs[n])
               K == KeptOf(cs, kind, n - 1)
    <3> HIDE DEF a, b, K
    <3>5. Made(b, a, DOMAIN a, {cs[n]}) /\ Made(a, cs, K, {}) /\ n \notin K
      BY <3>2, <3>3, <3>4 DEF a, b, K
    <3>6. \A k \in DOMAIN b : b[k] = cs[n] \/ \E j \in K : b[k] = cs[j]
      BY <3>5 DEF Made
    <3>7. \A j \in K \cup {n} : \E k \in DOMAIN b : b[k] = cs[j]
      <4> TAKE j \in K \cup {n}
      <4>1. CASE j = n
        BY <3>5, <4>1 DEF Made
      <4>2. CASE j \in K
        <5>1. PICK m \in DOMAIN a : a[m] = cs[j]
          BY <3>5, <4>2 DEF Made
        <5>2. PICK k \in DOMAIN b : b[k] = a[m]
          BY <3>5 DEF Made
        <5> QED
          BY <5>1, <5>2
      <4> QED
        BY <4>1, <4>2
    <3>8. ASSUME NEW k \in DOMAIN b, NEW l \in DOMAIN b, k # l
          PROVE  \E i, j \in K \cup {n} : i # j /\ b[k] = cs[i] /\ b[l] = cs[j]
      <4>1. CASE \E i, j \in DOMAIN a : i # j /\ b[k] = a[i] /\ b[l] = a[j]
        <5>1. PICK i, j \in DOMAIN a : i # j /\ b[k] = a[i] /\ b[l] = a[j]
          BY <4>1
        <5>2. \E i1, j1 \in K : i1 # j1 /\ a[i] = cs[i1] /\ a[j] = cs[j1]
          BY <5>1, <3>5 DEF Made
        <5> QED
          BY <5>1, <5>2
      <4>2. CASE b[k] = cs[n] /\ \E j \in DOMAIN a : b[l] = a[j]
        <5>1. \E j \in K : b[l] = cs[j]
          BY <4>2, <3>5 DEF Made
        <5> QED
          BY <5>1, <4>2, <3>5
      <4>3. CASE b[l] = cs[n] /\ \E j \in DOMAIN a : b[k] = a[j]
        <5>1. \E j \in K : b[k] = cs[j]
          BY <4>3, <3>5 DEF Made
        <5> QED
          BY <5>1, <4>3, <3>5
      <4> QED
        BY <3>5, <3>8, <4>1, <4>2, <4>3 DEF Made
    <3>9. Made(b, cs, K \cup {n}, {})
      BY <3>6, <3>7, <3>8 DEF Made
    <3> QED
      BY <3>1, <3>4, <3>9, <2>3, <2>5, <2>8 DEF a, b, K
  <2> QED
    BY <2>6, <2>7, <2>8
<1>3. Good(Len(cs))
  BY <1>2, <1>0
<1>4. KeptOf(cs, kind, Len(cs)) = {j \in DOMAIN cs : cs[j].kind # kind}
  BY <1>0 DEF KeptOf
<1> QED
  BY <1>1, <1>3, <1>4

\* Changes in a row: the calls of a kind are taken out.
LEMMA MadeThenWithout ==
  ASSUME NEW S, NEW old \in Seq(S), NEW a \in Seq(S), NEW kind,
         NEW J \in SUBSET (DOMAIN old), NEW N, Made(a, old, J, N),
         \A c \in N : c.kind # kind
  PROVE  /\ Without(a, kind) \in Seq(S)
         /\ Made(Without(a, kind), old, {j \in J : old[j].kind # kind}, N)
<1> DEFINE b == Without(a, kind)
           K == {j \in J : old[j].kind # kind}
<1>1. b \in Seq(S) /\ Made(b, a, {j \in DOMAIN a : a[j].kind # kind}, {})
  BY WithoutMade
<1> HIDE DEF b
<1>2. \A k \in DOMAIN b : b[k] \in N \/ \E j \in K : b[k] = old[j]
  <2> TAKE k \in DOMAIN b
  <2>1. PICK m \in DOMAIN a : a[m].kind # kind /\ b[k] = a[m]
    BY <1>1 DEF Made
  <2>2. a[m] \in N \/ \E j \in J : a[m] = old[j]
    BY DEF Made
  <2> QED
    BY <2>1, <2>2
<1>3. \A j \in K : \E k \in DOMAIN b : b[k] = old[j]
  <2> TAKE j \in K
  <2>1. PICK m \in DOMAIN a : a[m] = old[j]
    BY DEF Made
  <2>2. \E k \in DOMAIN b : b[k] = a[m]
    BY <1>1, <2>1 DEF Made
  <2> QED
    BY <2>1, <2>2
<1>4. \A c \in N : \E k \in DOMAIN b : b[k] = c
  <2> TAKE c \in N
  <2>1. PICK m \in DOMAIN a : a[m] = c
    BY DEF Made
  <2>2. \E k \in DOMAIN b : b[k] = a[m]
    BY <1>1, <2>1 DEF Made
  <2> QED
    BY <2>1, <2>2
<1>5. ASSUME NEW k \in DOMAIN b, NEW l \in DOMAIN b, k # l
      PROVE  \/ \E i, j \in K : i # j /\ b[k] = old[i] /\ b[l] = old[j]
             \/ b[k] \in N /\ \E j \in K : b[l] = old[j]
             \/ b[l] \in N /\ \E j \in K : b[k] = old[j]
             \/ b[k] \in N /\ b[l] \in N /\ b[k] # b[l]
  <2>1. PICK m, n \in DOMAIN a : /\ m # n /\ a[m].kind # kind /\ a[n].kind # kind
                                 /\ b[k] = a[m] /\ b[l] = a[n]
    BY <1>1, <1>5 DEF Made
  <2>2. \/ \E i, j \in J : i # j /\ a[m] = old[i] /\ a[n] = old[j]
        \/ a[m] \in N /\ \E j \in J : a[n] = old[j]
        \/ a[n] \in N /\ \E j \in J : a[m] = old[j]
        \/ a[m] \in N /\ a[n] \in N /\ a[m] # a[n]
    BY <2>1 DEF Made
  <2> QED
    BY <2>1, <2>2
<1> QED
  BY <1>1, <1>2, <1>3, <1>4, <1>5 DEF Made, b

\* Nothing has been taken out or added.
LEMMA MadeAlready ==
  ASSUME NEW S, NEW cs \in Seq(S)
  PROVE  Made(cs, cs, DOMAIN cs, {})
BY DEF Made

\* A handler that makes no call.
LEMMA HandledMade ==
  ASSUME NEW S, calls \in Seq(S), NEW i \in DOMAIN calls, Handled(i, <<>>)
  PROVE  calls' \in Seq(S) /\ Made(calls', calls, DOMAIN calls \ {i}, {})
<1>1. RemoveAt(calls, i) \in Seq(S) /\ Made(RemoveAt(calls, i), calls, DOMAIN calls \ {i}, {})
  BY RemovedAt, RemovedMade
<1>2. calls' = RemoveAt(calls, i)
  BY <1>1, ConcatEmptySeq DEF Handled
<1> QED
  BY <1>1, <1>2

\* A handler that makes one.
LEMMA HandledThenOne ==
  ASSUME NEW S, calls \in Seq(S), NEW i \in DOMAIN calls, NEW c \in S, Handled(i, <<c>>)
  PROVE  calls' \in Seq(S) /\ Made(calls', calls, DOMAIN calls \ {i}, {c})
<1>1. RemoveAt(calls, i) \in Seq(S) /\ Made(RemoveAt(calls, i), calls, DOMAIN calls \ {i}, {})
  BY RemovedAt, RemovedMade
<1>2. calls' = Append(RemoveAt(calls, i), c)
  BY <1>1, AppendIsConcat DEF Handled
<1>3. DOMAIN calls \ {i} \in SUBSET DOMAIN calls /\ {} \cup {c} = {c}
  OBVIOUS
<1> HIDE DEF Handled
<1> QED
  BY <1>1, <1>2, <1>3, MadeThenOne

\* Call i is replaced.
LEMMA ReplacedMade ==
  ASSUME NEW S, calls \in Seq(S), NEW i \in DOMAIN calls, NEW d \in S,
         calls' = [calls EXCEPT ![i] = d]
  PROVE  calls' \in Seq(S) /\ Made(calls', calls, DOMAIN calls \ {i}, {d})
<1>1. /\ calls' \in Seq(S) /\ DOMAIN calls' = DOMAIN calls /\ calls'[i] = d
      /\ \A j \in DOMAIN calls : j # i => calls'[j] = calls[j]
  OBVIOUS
<1> QED
  BY <1>1 DEF Made

-----------------------------------------------------------------------------
(* The budget page.                                                        *)

Stages == {"sent", "done", "failed"}

Views == [month : Months \cup {0}, planned : Nat]

BudgetCalls ==
  [kind : {"budget"}, stage : Stages, answer : {None} \cup Views, month : Months]
  \cup [kind : {"catalog"}, stage : Stages, answer : {None, "catalog"}]
  \cup [kind : {"save"}, stage : Stages, answer : {None} \cup Views,
        month : Months, cents : Cents]
  \cup [kind : {"clear"}, stage : Stages, answer : {None, "cleared"},
        month : Months, warned : BOOLEAN]

BudgetTypes ==
  /\ limit \in [Months -> {NoLimit} \cup Cents]
  /\ month \in Months
  /\ view \in Views
  /\ saving \in BOOLEAN /\ budgetError \in BOOLEAN /\ doubted \in BOOLEAN
  /\ catalog \in {"loading", "loaded", "error"}

IsWrite(c) == c.kind \in {"save", "clear"}

\* A write of month m that the server may have carried out is not over.
Unsettled(m) ==
  \E w \in DOMAIN calls :
    IsWrite(calls[w]) /\ calls[w].stage # "sent" /\ calls[w].month = m

Fetching == \E j \in DOMAIN calls : calls[j].kind = "budget"

OneWrite ==
  /\ \A j, k \in DOMAIN calls : IsWrite(calls[j]) /\ IsWrite(calls[k]) => j = k
  /\ saving <=> \E j \in DOMAIN calls : IsWrite(calls[j])

FetchesSound ==
  \A j \in DOMAIN calls : calls[j].kind = "budget" =>
    /\ calls[j].month = month
    /\ calls[j].stage = "done" =>
         /\ calls[j].answer \in Views /\ calls[j].answer.month = month
         /\ calls[j].answer = Budget(month) \/ Unsettled(month)

WritesSound ==
  \A j \in DOMAIN calls : calls[j].stage = "done" =>
    /\ calls[j].kind = "save" =>
         /\ limit[calls[j].month] = calls[j].cents
         /\ calls[j].answer = [month |-> calls[j].month, planned |-> calls[j].cents]
    /\ calls[j].kind = "clear" => limit[calls[j].month] = NoLimit

ViewSound ==
  saving \/ Fetching \/ budgetError \/
    (view.month = month => view.planned = Planned(month))

Awaited ==
  /\ catalog = "loading" => \E j \in DOMAIN calls : calls[j].kind = "catalog"
  /\ view.month = month \/ budgetError \/ Fetching

\* What the screen shows of a zero.
ZeroShown ==
  ~doubted /\ view.month \in Months /\ view.planned # 0 =>
    limit[view.month] # 0 \/ Unsettled(view.month)

ClearsSound ==
  \A j \in DOMAIN calls :
    calls[j].kind = "clear" /\ calls[j].stage = "sent" /\ ~calls[j].warned
      => limit[calls[j].month] # 0

BudgetWire ==
  /\ calls \in Seq(BudgetCalls)
  /\ OneWrite /\ FetchesSound /\ WritesSound /\ ViewSound /\ Awaited
  /\ ZeroShown /\ ClearsSound

BudgetInv == BudgetTypes /\ (page = "budget" => BudgetWire)

\* d is the call c at another stage.
SameWrite(c, d) ==
  /\ d.kind = c.kind
  /\ c.kind # "catalog" => d.month = c.month
  /\ c.kind = "save" => d.cents = c.cents
  /\ c.kind = "clear" => d.warned = c.warned

\* Call i, and nothing else on the wire, is at another stage.
Moved(i) ==
  /\ DOMAIN calls' = DOMAIN calls
  /\ \A j \in DOMAIN calls : j # i => calls'[j] = calls[j]

LEMMA MonthsAre ==
  /\ Months \subseteq Nat /\ 0 \notin Months /\ 1 \in Months
  /\ Cents \subseteq Nat /\ NoLimit \notin Nat
BY BudgetAssumption DEF Months

LEMMA PlannedIs ==
  ASSUME BudgetTypes, NEW m \in Months
  PROVE  Planned(m) \in Nat /\ Budget(m) \in Views /\ Budget(m).month = m
         /\ Budget(m).planned = Planned(m)
         /\ (limit[m] \in Nat => Planned(m) = limit[m])
<1>1. limit[m] \in {NoLimit} \cup Cents
  BY DEF BudgetTypes
<1>2. Planned(m) \in Nat
  BY <1>1, MonthsAre DEF Planned
<1> QED
  BY <1>1, <1>2, MonthsAre DEF Budget, Views, Planned

\* A call that is answered.
LEMMA BudgetAnswered ==
  ASSUME calls \in Seq(BudgetCalls), NEW i \in DOMAIN calls, NEW a,
         Answered(i, a), calls[i].stage = "sent",
         \/ calls[i].kind \in {"budget", "save"} /\ a \in Views
         \/ calls[i].kind = "catalog" /\ a = "catalog"
         \/ calls[i].kind = "clear" /\ a = "cleared"
  PROVE  /\ calls' \in Seq(BudgetCalls)
         /\ Moved(i) /\ SameWrite(calls[i], calls'[i])
         /\ calls'[i].stage = "done" /\ calls'[i].answer = a
<1> DEFINE d == [[calls[i] EXCEPT !.stage = "done"] EXCEPT !.answer = a]
<1>1. calls[i] \in BudgetCalls
  OBVIOUS
<1>2. d \in BudgetCalls /\ SameWrite(calls[i], d) /\ d.stage = "done" /\ d.answer = a
  BY <1>1 DEF BudgetCalls, Stages, SameWrite
<1>3. calls' = [calls EXCEPT ![i] = d]
  BY DEF Answered
<1> HIDE DEF d
<1> QED
  BY <1>2, <1>3 DEF Moved

\* A call that fails.
LEMMA BudgetLost ==
  ASSUME calls \in Seq(BudgetCalls), NEW i \in DOMAIN calls, Lost(i)
  PROVE  /\ calls' \in Seq(BudgetCalls)
         /\ Moved(i) /\ SameWrite(calls[i], calls'[i])
         /\ calls'[i].stage = "failed"
<1> DEFINE d == [calls[i] EXCEPT !.stage = "failed"]
<1>1. calls[i] \in BudgetCalls
  OBVIOUS
<1>2. d \in BudgetCalls /\ SameWrite(calls[i], d) /\ d.stage = "failed"
  BY <1>1 DEF BudgetCalls, Stages, SameWrite
<1>3. calls' = [calls EXCEPT ![i] = d]
  BY DEF Lost
<1> HIDE DEF d
<1> QED
  BY <1>2, <1>3 DEF Moved

LEMMA BudgetKinds ==
  ASSUME calls \in Seq(BudgetCalls), NEW i \in DOMAIN calls
  PROVE  /\ calls[i].kind \in {"budget", "catalog", "save", "clear"}
         /\ calls[i].stage \in Stages
         /\ calls[i].kind # "catalog" => calls[i].month \in Months
         /\ calls[i].kind = "save" => calls[i].cents \in Cents
<1>1. calls[i] \in BudgetCalls
  OBVIOUS
<1> QED
  BY <1>1 DEF BudgetCalls

LEMMA ServeBudgetStep ==
  ASSUME BudgetTypes, BudgetWire, NEW i \in DOMAIN calls, ServeBudget(i)
  PROVE  BudgetTypes' /\ BudgetWire'
<1>0. calls \in Seq(BudgetCalls) /\ calls[i].kind = "budget" /\ calls[i].stage = "sent"
      /\ calls[i].month = month
  BY DEF BudgetWire, ServeBudget, Stage, FetchesSound
<1>1. Answered(i, Budget(month)) /\ UNCHANGED budgetVars
  BY <1>0 DEF ServeBudget
<1>2. /\ calls' \in Seq(BudgetCalls)
      /\ Moved(i) /\ SameWrite(calls[i], calls'[i])
      /\ calls'[i].stage = "done" /\ calls'[i].answer = Budget(month)
  BY <1>0, <1>1, PlannedIs, BudgetAnswered DEF BudgetTypes
<1>3. BudgetTypes'
  BY <1>1 DEF BudgetTypes, budgetVars
<1>4. \A m \in Months : Unsettled(m) => Unsettled(m)'
  BY <1>0, <1>2 DEF Unsettled, Moved, IsWrite
<1>5. OneWrite'
  BY <1>0, <1>1, <1>2 DEF BudgetWire, OneWrite, Moved, SameWrite, IsWrite, budgetVars
<1>6. FetchesSound'
  BY <1>0, <1>1, <1>2, <1>4, PlannedIs DEF BudgetWire, BudgetTypes, FetchesSound, Moved, SameWrite, budgetVars, Budget, Planned
<1>7. WritesSound'
  BY <1>0, <1>1, <1>2 DEF BudgetWire, WritesSound, Moved, SameWrite, budgetVars
<1>8. ViewSound'
  BY <1>0, <1>1, <1>2 DEF BudgetWire, ViewSound, Fetching, Moved, SameWrite, budgetVars, Planned
<1>9. Awaited'
  BY <1>0, <1>1, <1>2 DEF BudgetWire, Awaited, Fetching, Moved, SameWrite, budgetVars
<1>10. ZeroShown'
  BY <1>0, <1>1, <1>4 DEF BudgetWire, ZeroShown, budgetVars
<1>11. ClearsSound'
  BY <1>0, <1>1, <1>2 DEF BudgetWire, ClearsSound, Moved, SameWrite, budgetVars
<1> QED
  BY <1>2, <1>3, <1>5, <1>6, <1>7, <1>8, <1>9, <1>10, <1>11 DEF BudgetWire

\* What is fetched again, whatever was taken off the wire before.
LEMMA Refetched ==
  ASSUME calls \in Seq(BudgetCalls), NEW cs \in Seq(BudgetCalls), NEW m \in Months,
         NEW J \in SUBSET (DOMAIN calls), NEW N, Made(cs, calls, J, N),
         \A c \in N : c.kind # "budget"
  PROVE  /\ Refetch(cs, m) \in Seq(BudgetCalls)
         /\ Made(Refetch(cs, m), calls, {j \in J : calls[j].kind # "budget"},
                 N \cup {GetBudget(m)})
<1> DEFINE K == {j \in J : calls[j].kind # "budget"}
           b == Without(cs, "budget")
<1>1. b \in Seq(BudgetCalls) /\ Made(b, calls, K, N)
  BY MadeThenWithout
<1>2. K \in SUBSET (DOMAIN calls)
  OBVIOUS
<1>3. GetBudget(m) \in BudgetCalls /\ GetBudget(m).kind = "budget"
  BY DEF GetBudget, BudgetCalls, Stages
<1>4. GetBudget(m) \notin N
  BY <1>3
<1> HIDE DEF b, K
<1>5. Append(b, GetBudget(m)) \in Seq(BudgetCalls) /\ Made(Append(b, GetBudget(m)), calls, K, N \cup {GetBudget(m)})
  BY <1>1, <1>2, <1>3, <1>4, MadeThenOne
<1> QED
  BY <1>5 DEF Refetch, b, K

LEMMA ServeCatalogStep ==
  ASSUME BudgetTypes, BudgetWire, NEW i \in DOMAIN calls, ServeCatalog(i)
  PROVE  BudgetTypes' /\ BudgetWire'
<1>0. calls \in Seq(BudgetCalls) /\ calls[i].kind = "catalog" /\ calls[i].stage = "sent"
  BY DEF BudgetWire, ServeCatalog, Stage
<1>a. Answered(i, "catalog") /\ UNCHANGED budgetVars
  BY DEF ServeCatalog
<1>1. /\ calls' \in Seq(BudgetCalls)
      /\ Moved(i) /\ SameWrite(calls[i], calls'[i])
      /\ calls'[i].stage = "done"
  BY <1>0, <1>a, BudgetAnswered
<1>s. calls' \in Seq(BudgetCalls)
  BY <1>1
<1>t. BudgetTypes'
  BY <1>a DEF BudgetTypes, budgetVars
<1>u. \A m \in Months : Unsettled(m) => Unsettled(m)'
  BY <1>0, <1>1 DEF Unsettled, Moved, SameWrite, IsWrite
<1>50. OneWrite'
  BY <1>0, <1>1, <1>a DEF BudgetWire, OneWrite, IsWrite, Moved, SameWrite, budgetVars
<1>51. FetchesSound'
  BY <1>0, <1>1, <1>a, <1>u DEF BudgetWire, BudgetTypes, FetchesSound, Budget, Planned, Moved, SameWrite, budgetVars
<1>52. WritesSound'
  BY <1>0, <1>1, <1>a DEF BudgetWire, WritesSound, Moved, SameWrite, budgetVars
<1>53. ViewSound'
  BY <1>0, <1>1, <1>a DEF BudgetWire, ViewSound, Fetching, Planned, Moved, SameWrite, budgetVars
<1>54. Awaited'
  BY <1>0, <1>1, <1>a DEF BudgetWire, Awaited, Fetching, Moved, SameWrite, budgetVars
<1>55. ZeroShown'
  BY <1>0, <1>1, <1>a, <1>u DEF BudgetWire, ZeroShown, Moved, SameWrite, budgetVars
<1>56. ClearsSound'
  BY <1>0, <1>1, <1>a DEF BudgetWire, ClearsSound, Moved, SameWrite, budgetVars
<1> QED
  BY <1>s, <1>t, <1>50, <1>51, <1>52, <1>53, <1>54, <1>55, <1>56 DEF BudgetWire

LEMMA ServeSaveStep ==
  ASSUME BudgetTypes, BudgetWire, NEW i \in DOMAIN calls, ServeSave(i)
  PROVE  BudgetTypes' /\ BudgetWire'
<1> DEFINE m == calls[i].month
           cents == calls[i].cents
<1>0. /\ calls \in Seq(BudgetCalls) /\ calls[i].kind = "save" /\ calls[i].stage = "sent"
      /\ m \in Months /\ cents \in Cents /\ cents \in Nat
  BY BudgetKinds, MonthsAre DEF BudgetWire, ServeSave, Stage
<1>a. /\ Answered(i, [month |-> m, planned |-> cents])
      /\ limit' = [limit EXCEPT ![m] = cents]
      /\ UNCHANGED <<month, view, saving, budgetError, catalog, doubted>>
  BY DEF ServeSave
<1>b. [month |-> m, planned |-> cents] \in Views
  BY <1>0 DEF Views
<1>1. /\ calls' \in Seq(BudgetCalls)
      /\ Moved(i) /\ SameWrite(calls[i], calls'[i])
      /\ calls'[i].stage = "done" /\ calls'[i].answer = [month |-> m, planned |-> cents]
  BY <1>0, <1>a, <1>b, BudgetAnswered
<1>s. calls' \in Seq(BudgetCalls)
  BY <1>1
<1>t. BudgetTypes'
  BY <1>0, <1>a DEF BudgetTypes
<1>u. (\A n \in Months : Unsettled(n) => Unsettled(n)') /\ Unsettled(m)'
  BY <1>0, <1>1 DEF Unsettled, Moved, SameWrite, IsWrite
<1>c. /\ \A n \in Months : n # m => limit'[n] = limit[n]
      /\ limit'[m] = cents
      /\ month \in Months
  BY <1>0, <1>a DEF BudgetTypes
<1>d. saving /\ \A j \in DOMAIN calls : IsWrite(calls[j]) => j = i
  BY <1>0 DEF BudgetWire, OneWrite, IsWrite
<1>e. \A j \in DOMAIN calls : calls[j].kind # "catalog" => calls[j].month \in Months
  BY <1>0, BudgetKinds
<1> HIDE DEF m, cents
<1>50. OneWrite'
  BY <1>0, <1>1, <1>a, <1>c, <1>d DEF BudgetWire, OneWrite, IsWrite, Moved, SameWrite
<1>51. FetchesSound'
  BY <1>0, <1>1, <1>a, <1>c, <1>d, <1>u DEF BudgetWire, BudgetTypes, FetchesSound, Budget, Planned, m, Moved, SameWrite
<1>52. WritesSound'
  BY <1>0, <1>1, <1>a, <1>c, <1>d, <1>e DEF BudgetWire, WritesSound, IsWrite, m, cents, Moved, SameWrite
<1>53. ViewSound'
  BY <1>0, <1>1, <1>a, <1>c, <1>d DEF BudgetWire, ViewSound, Fetching, Planned, Moved, SameWrite
<1>54. Awaited'
  BY <1>0, <1>1, <1>a, <1>c, <1>d DEF BudgetWire, Awaited, Fetching, Moved, SameWrite
<1>55. ZeroShown'
  BY <1>0, <1>1, <1>a, <1>c, <1>d, <1>u DEF BudgetWire, ZeroShown, m, Moved, SameWrite
<1>56. ClearsSound'
  BY <1>0, <1>1, <1>a, <1>c, <1>d, <1>e DEF BudgetWire, ClearsSound, IsWrite, Moved, SameWrite
<1> QED
  BY <1>s, <1>t, <1>50, <1>51, <1>52, <1>53, <1>54, <1>55, <1>56 DEF BudgetWire

LEMMA ServeClearStep ==
  ASSUME BudgetTypes, BudgetWire, NEW i \in DOMAIN calls, ServeClear(i)
  PROVE  BudgetTypes' /\ BudgetWire'
<1> DEFINE m == calls[i].month
<1>0. /\ calls \in Seq(BudgetCalls) /\ calls[i].kind = "clear" /\ calls[i].stage = "sent"
      /\ m \in Months
  BY BudgetKinds DEF BudgetWire, ServeClear, Stage
<1>a. /\ Answered(i, "cleared")
      /\ limit' = [limit EXCEPT ![m] = NoLimit]
      /\ UNCHANGED <<month, view, saving, budgetError, catalog, doubted>>
  BY DEF ServeClear
<1>1. /\ calls' \in Seq(BudgetCalls)
      /\ Moved(i) /\ SameWrite(calls[i], calls'[i])
      /\ calls'[i].stage = "done"
  BY <1>0, <1>a, BudgetAnswered
<1>s. calls' \in Seq(BudgetCalls)
  BY <1>1
<1>t. BudgetTypes'
  BY <1>0, <1>a DEF BudgetTypes
<1>u. (\A n \in Months : Unsettled(n) => Unsettled(n)') /\ Unsettled(m)'
  BY <1>0, <1>1 DEF Unsettled, Moved, SameWrite, IsWrite
<1>c. /\ \A n \in Months : n # m => limit'[n] = limit[n]
      /\ limit'[m] = NoLimit
      /\ month \in Months
  BY <1>0, <1>a DEF BudgetTypes
<1>d. saving /\ \A j \in DOMAIN calls : IsWrite(calls[j]) => j = i
  BY <1>0 DEF BudgetWire, OneWrite, IsWrite
<1>e. \A j \in DOMAIN calls : calls[j].kind # "catalog" => calls[j].month \in Months
  BY <1>0, BudgetKinds
<1> HIDE DEF m
<1>50. OneWrite'
  BY <1>0, <1>1, <1>a, <1>c, <1>d DEF BudgetWire, OneWrite, IsWrite, Moved, SameWrite
<1>51. FetchesSound'
  BY <1>0, <1>1, <1>a, <1>c, <1>d, <1>u DEF BudgetWire, BudgetTypes, FetchesSound, Budget, Planned, m, Moved, SameWrite
<1>52. WritesSound'
  BY <1>0, <1>1, <1>a, <1>c, <1>d, <1>e DEF BudgetWire, WritesSound, IsWrite, m, Moved, SameWrite
<1>53. ViewSound'
  BY <1>0, <1>1, <1>a, <1>c, <1>d DEF BudgetWire, ViewSound, Fetching, Planned, Moved, SameWrite
<1>54. Awaited'
  BY <1>0, <1>1, <1>a, <1>c, <1>d DEF BudgetWire, Awaited, Fetching, Moved, SameWrite
<1>55. ZeroShown'
  BY <1>0, <1>1, <1>a, <1>c, <1>d, <1>u DEF BudgetWire, ZeroShown, m, Moved, SameWrite
<1>56. ClearsSound'
  BY <1>0, <1>1, <1>a, <1>c, <1>d, <1>e DEF BudgetWire, ClearsSound, IsWrite, m, Moved, SameWrite
<1> QED
  BY <1>s, <1>t, <1>50, <1>51, <1>52, <1>53, <1>54, <1>55, <1>56 DEF BudgetWire

LEMMA BudgetLostStep ==
  ASSUME BudgetTypes, BudgetWire, NEW i \in DOMAIN calls, Lost(i), UNCHANGED budgetVars
  PROVE  BudgetTypes' /\ BudgetWire'
<1>0. calls \in Seq(BudgetCalls)
  BY DEF BudgetWire
<1>1. /\ calls' \in Seq(BudgetCalls)
      /\ Moved(i) /\ SameWrite(calls[i], calls'[i])
      /\ calls'[i].stage = "failed"
  BY <1>0, BudgetLost
<1>s. calls' \in Seq(BudgetCalls)
  BY <1>1
<1>t. BudgetTypes'
  BY DEF BudgetTypes, budgetVars
<1>u. \A m \in Months : Unsettled(m) => Unsettled(m)'
  BY <1>0, <1>1 DEF Unsettled, Moved, SameWrite, IsWrite
<1>50. OneWrite'
  BY <1>0, <1>1 DEF BudgetWire, OneWrite, IsWrite, Moved, SameWrite, budgetVars
<1>51. FetchesSound'
  BY <1>0, <1>1, <1>u DEF BudgetWire, BudgetTypes, FetchesSound, Budget, Planned, Moved, SameWrite, budgetVars
<1>52. WritesSound'
  BY <1>0, <1>1 DEF BudgetWire, WritesSound, Moved, SameWrite, budgetVars
<1>53. ViewSound'
  BY <1>0, <1>1 DEF BudgetWire, ViewSound, Fetching, Planned, Moved, SameWrite, budgetVars
<1>54. Awaited'
  BY <1>0, <1>1 DEF BudgetWire, Awaited, Fetching, Moved, SameWrite, budgetVars
<1>55. ZeroShown'
  BY <1>0, <1>1, <1>u DEF BudgetWire, ZeroShown, Moved, SameWrite, budgetVars
<1>56. ClearsSound'
  BY <1>0, <1>1 DEF BudgetWire, ClearsSound, Moved, SameWrite, budgetVars
<1> QED
  BY <1>s, <1>t, <1>50, <1>51, <1>52, <1>53, <1>54, <1>55, <1>56 DEF BudgetWire

LEMMA SwitchMonthStep ==
  ASSUME BudgetTypes, BudgetWire, NEW m \in Months, SwitchMonth(m)
  PROVE  BudgetTypes' /\ BudgetWire'
<1>0. calls \in Seq(BudgetCalls)
  BY DEF BudgetWire
<1>a. /\ calls' = Refetch(calls, m) /\ month' = m /\ budgetError' = FALSE
      /\ UNCHANGED <<limit, view, saving, catalog, doubted>>
  BY DEF SwitchMonth
<1>1. /\ calls' \in Seq(BudgetCalls)
      /\ Made(calls', calls, {j \in DOMAIN calls : calls[j].kind # "budget"}, {GetBudget(m)})
  <2>1. /\ Refetch(calls, m) \in Seq(BudgetCalls)
        /\ Made(Refetch(calls, m), calls, {j \in DOMAIN calls : calls[j].kind # "budget"},
                {} \cup {GetBudget(m)})
    BY <1>0, Refetched, MadeAlready
  <2> QED
    BY <2>1, <1>a
<1>2. GetBudget(m).kind = "budget" /\ GetBudget(m).stage = "sent" /\ GetBudget(m).month = m
  BY DEF GetBudget
<1>s. calls' \in Seq(BudgetCalls)
  BY <1>1
<1>t. BudgetTypes'
  BY <1>a DEF BudgetTypes
<1>u. \A n \in Months : Unsettled(n) => Unsettled(n)'
  <2> SUFFICES ASSUME NEW n \in Months, NEW w \in DOMAIN calls, IsWrite(calls[w]),
                      calls[w].stage # "sent", calls[w].month = n
               PROVE  Unsettled(n)'
    BY DEF Unsettled
  <2>1. \E k \in DOMAIN calls' : calls'[k] = calls[w]
    BY <1>1 DEF Made, IsWrite
  <2> QED
    BY <2>1 DEF Unsettled
<1>50. OneWrite'
  BY <1>0, <1>1, <1>2, <1>a DEF BudgetWire, OneWrite, IsWrite, Made
<1>51. FetchesSound'
  BY <1>0, <1>1, <1>2, <1>a, <1>u DEF BudgetWire, BudgetTypes, FetchesSound, Budget, Planned, Made
<1>52. WritesSound'
  BY <1>0, <1>1, <1>2, <1>a DEF BudgetWire, WritesSound, Made
<1>53. ViewSound'
  BY <1>0, <1>1, <1>2, <1>a DEF BudgetWire, ViewSound, Fetching, Planned, Made
<1>54. Awaited'
  BY <1>0, <1>1, <1>2, <1>a DEF BudgetWire, Awaited, Fetching, Made
<1>55. ZeroShown'
  BY <1>0, <1>1, <1>2, <1>a, <1>u DEF BudgetWire, ZeroShown, Made
<1>56. ClearsSound'
  BY <1>0, <1>1, <1>2, <1>a DEF BudgetWire, ClearsSound, Made
<1> QED
  BY <1>s, <1>t, <1>50, <1>51, <1>52, <1>53, <1>54, <1>55, <1>56 DEF BudgetWire

LEMMA SaveStep ==
  ASSUME BudgetTypes, BudgetWire, NEW cents \in Cents, Save(cents)
  PROVE  BudgetTypes' /\ BudgetWire'
<1>0. /\ calls \in Seq(BudgetCalls) /\ Ready /\ ~saving
      /\ \A j \in DOMAIN calls : ~IsWrite(calls[j])
  BY DEF BudgetWire, Save, MaySave, OneWrite
<1> DEFINE c == [kind |-> "save", stage |-> "sent", answer |-> None,
                  month |-> month, cents |-> cents]
<1>a. /\ calls' = Append(calls, c) /\ saving' = TRUE
      /\ UNCHANGED <<limit, month, view, budgetError, catalog, doubted>>
  BY DEF Save
<1>b. /\ c \in BudgetCalls /\ IsWrite(c) /\ c.stage = "sent" /\ c.kind = "save"
      /\ c.month = month
  BY DEF BudgetCalls, BudgetTypes, Stages, IsWrite
<1> HIDE DEF c
<1>1. /\ calls' \in Seq(BudgetCalls)
      /\ Made(calls', calls, DOMAIN calls, {c})
  BY <1>0, <1>a, <1>b, AppendedMade, AppendProperties
<1>s. calls' \in Seq(BudgetCalls)
  BY <1>1
<1>t. BudgetTypes'
  BY <1>a DEF BudgetTypes
<1>u. \A n \in Months : Unsettled(n) => Unsettled(n)'
  BY <1>0 DEF Unsettled
<1>f. \A j \in DOMAIN calls : \E k \in DOMAIN calls' : calls'[k] = calls[j]
  BY <1>1 DEF Made
<1>50. OneWrite'
  BY <1>0, <1>1, <1>a, <1>b DEF BudgetWire, OneWrite, IsWrite, Made, IsWrite
<1>51. FetchesSound'
  BY <1>0, <1>1, <1>a, <1>b, <1>u DEF BudgetWire, BudgetTypes, FetchesSound, Budget, Planned, Made, IsWrite
<1>52. WritesSound'
  BY <1>0, <1>1, <1>a, <1>b DEF BudgetWire, WritesSound, Made, IsWrite
<1>53. ViewSound'
  BY <1>0, <1>1, <1>a, <1>b DEF BudgetWire, ViewSound, Fetching, Planned, Made, IsWrite
<1>54. Awaited'
  BY <1>a, <1>f DEF BudgetWire, Awaited, Fetching, Made, IsWrite
<1>55. ZeroShown'
  BY <1>0, <1>1, <1>a, <1>b, <1>u DEF BudgetWire, ZeroShown, Made, IsWrite
<1>56. ClearsSound'
  BY <1>0, <1>1, <1>a, <1>b DEF BudgetWire, ClearsSound, Made, IsWrite
<1> QED
  BY <1>s, <1>t, <1>50, <1>51, <1>52, <1>53, <1>54, <1>55, <1>56 DEF BudgetWire

LEMMA ClearLimitStep ==
  ASSUME BudgetTypes, BudgetWire, ClearLimit
  PROVE  BudgetTypes' /\ BudgetWire'
<1>0. /\ calls \in Seq(BudgetCalls) /\ Ready /\ ~saving
      /\ \A j \in DOMAIN calls : ~IsWrite(calls[j])
  BY DEF BudgetWire, ClearLimit, MaySave, OneWrite
<1> DEFINE c == [kind |-> "clear", stage |-> "sent", answer |-> None,
                  month |-> month, warned |-> doubted]
<1>a. /\ calls' = Append(calls, c) /\ saving' = TRUE
      /\ UNCHANGED <<limit, month, view, budgetError, catalog, doubted>>
  BY DEF ClearLimit
<1>b. /\ c \in BudgetCalls /\ IsWrite(c) /\ c.stage = "sent" /\ c.kind = "clear"
      /\ c.month = month /\ c.warned = doubted
  BY DEF BudgetCalls, BudgetTypes, Stages, IsWrite
<1> HIDE DEF c
<1>1. /\ calls' \in Seq(BudgetCalls)
      /\ Made(calls', calls, DOMAIN calls, {c})
  BY <1>0, <1>a, <1>b, AppendedMade, AppendProperties
<1>s. calls' \in Seq(BudgetCalls)
  BY <1>1
<1>t. BudgetTypes'
  BY <1>a DEF BudgetTypes
<1>u. \A n \in Months : Unsettled(n) => Unsettled(n)'
  BY <1>0 DEF Unsettled
<1>f. \A j \in DOMAIN calls : \E k \in DOMAIN calls' : calls'[k] = calls[j]
  BY <1>1 DEF Made
<1>c. ~doubted => limit[month] # 0
  <2>1. view.planned # 0 /\ view.month = month /\ month \in Months
    BY <1>0 DEF ClearLimit, Clears, Ready, Current, BudgetTypes
  <2> QED
    BY <1>0, <2>1 DEF BudgetWire, ZeroShown, Unsettled
<1>50. OneWrite'
  BY <1>0, <1>1, <1>a, <1>b DEF BudgetWire, OneWrite, IsWrite, Made, IsWrite
<1>51. FetchesSound'
  BY <1>0, <1>1, <1>a, <1>b, <1>u DEF BudgetWire, BudgetTypes, FetchesSound, Budget, Planned, Made, IsWrite
<1>52. WritesSound'
  BY <1>0, <1>1, <1>a, <1>b DEF BudgetWire, WritesSound, Made, IsWrite
<1>53. ViewSound'
  BY <1>0, <1>1, <1>a, <1>b DEF BudgetWire, ViewSound, Fetching, Planned, Made, IsWrite
<1>54. Awaited'
  BY <1>a, <1>f DEF BudgetWire, Awaited, Fetching, Made, IsWrite
<1>55. ZeroShown'
  BY <1>0, <1>1, <1>a, <1>b, <1>u DEF BudgetWire, ZeroShown, Made, IsWrite
<1>56. ClearsSound'
  BY <1>0, <1>1, <1>a, <1>b, <1>c DEF BudgetWire, ClearsSound, Made, IsWrite
<1> QED
  BY <1>s, <1>t, <1>50, <1>51, <1>52, <1>53, <1>54, <1>55, <1>56 DEF BudgetWire

LEMMA RetryStep ==
  ASSUME BudgetTypes, BudgetWire, Retry
  PROVE  BudgetTypes' /\ BudgetWire'
<1>0. calls \in Seq(BudgetCalls) /\ month \in Months
  BY DEF BudgetWire, BudgetTypes
<1> DEFINE s == Sending("catalog")
           J == {j \in DOMAIN calls : calls[j].kind # "catalog"}
<1>2. /\ GetBudget(month).kind = "budget" /\ GetBudget(month).stage = "sent"
      /\ GetBudget(month).month = month
      /\ s \in BudgetCalls /\ s.kind = "catalog" /\ s.stage = "sent"
  BY DEF GetBudget, Sending, BudgetCalls, Stages
<1> HIDE DEF s
<1>a. UNCHANGED budgetVars
  BY DEF Retry
<1>b. \E K \in SUBSET (DOMAIN calls), N \in SUBSET {s} :
        /\ calls' \in Seq(BudgetCalls)
        /\ Made(calls', calls, {j \in K : calls[j].kind # "budget"}, N \cup {GetBudget(month)})
        /\ \A j \in DOMAIN calls \ K : calls[j].kind = "catalog"
        /\ K = DOMAIN calls \/ s \in N
  <2>1. CASE catalog = "loaded"
    <3>1. calls' = Refetch(calls, month)
      BY <2>1 DEF Retry
    <3>2. /\ Refetch(calls, month) \in Seq(BudgetCalls)
          /\ Made(Refetch(calls, month), calls, {j \in DOMAIN calls : calls[j].kind # "budget"},
                  {} \cup {GetBudget(month)})
      BY <1>0, Refetched, MadeAlready
    <3> WITNESS DOMAIN calls \in SUBSET (DOMAIN calls), {} \in SUBSET {s}
    <3> QED
      BY <3>1, <3>2
  <2>2. CASE catalog # "loaded"
    <3>1. calls' = Refetch(Append(Without(calls, "catalog"), s), month)
      BY <2>2 DEF Retry, s
    <3>2. Without(calls, "catalog") \in Seq(BudgetCalls) /\ Made(Without(calls, "catalog"), calls, J, {})
      BY <1>0, WithoutMade
    <3>3. J \in SUBSET (DOMAIN calls)
      OBVIOUS
    <3>4. /\ Append(Without(calls, "catalog"), s) \in Seq(BudgetCalls)
          /\ Made(Append(Without(calls, "catalog"), s), calls, J, {} \cup {s})
      BY <1>0, <1>2, <3>2, <3>3, MadeThenOne
    <3> DEFINE a == Append(Without(calls, "catalog"), s)
    <3> HIDE DEF a, J
    <3>5. a \in Seq(BudgetCalls) /\ Made(a, calls, J, {s}) /\ calls' = Refetch(a, month)
      BY <3>1, <3>4 DEF a
    <3>6. /\ calls' \in Seq(BudgetCalls)
          /\ Made(calls', calls, {j \in J : calls[j].kind # "budget"}, {s} \cup {GetBudget(month)})
      BY <1>0, <1>2, <3>3, <3>5, Refetched
    <3>7. \A j \in DOMAIN calls \ J : calls[j].kind = "catalog"
      BY DEF J
    <3>8. s \in {s}
      OBVIOUS
    <3> WITNESS J \in SUBSET (DOMAIN calls), {s} \in SUBSET {s}
    <3> QED
      BY <3>6, <3>7, <3>8
  <2> QED
    BY <2>1, <2>2
<1>c. PICK K \in SUBSET (DOMAIN calls), N \in SUBSET {s} :
        /\ calls' \in Seq(BudgetCalls)
        /\ Made(calls', calls, {j \in K : calls[j].kind # "budget"}, N \cup {GetBudget(month)})
        /\ \A j \in DOMAIN calls \ K : calls[j].kind = "catalog"
        /\ K = DOMAIN calls \/ s \in N
  BY <1>b
<1>d. \A j \in DOMAIN calls : IsWrite(calls[j]) => j \in K
  BY <1>c DEF IsWrite
<1>e. \A c \in N \cup {GetBudget(month)} : ~IsWrite(c) /\ c.stage = "sent"
  BY <1>2 DEF IsWrite
<1>f. /\ \A k \in DOMAIN calls' : IsWrite(calls'[k]) => \E j \in DOMAIN calls : calls'[k] = calls[j]
      /\ \A j \in DOMAIN calls : IsWrite(calls[j]) => \E k \in DOMAIN calls' : calls'[k] = calls[j]
      /\ \A k, l \in DOMAIN calls' : k # l /\ IsWrite(calls'[k]) /\ IsWrite(calls'[l])
           => \E i, j \in DOMAIN calls : i # j /\ calls'[k] = calls[i] /\ calls'[l] = calls[j]
      /\ \E k \in DOMAIN calls' : calls'[k] = GetBudget(month)
  <2>1. \A k \in DOMAIN calls' : IsWrite(calls'[k]) => \E j \in DOMAIN calls : calls'[k] = calls[j]
    BY <1>c, <1>e DEF Made
  <2>2. \A j \in DOMAIN calls : IsWrite(calls[j]) => \E k \in DOMAIN calls' : calls'[k] = calls[j]
    BY <1>c, <1>d DEF Made, IsWrite
  <2>3. \A k, l \in DOMAIN calls' : k # l /\ IsWrite(calls'[k]) /\ IsWrite(calls'[l])
           => \E i, j \in DOMAIN calls : i # j /\ calls'[k] = calls[i] /\ calls'[l] = calls[j]
    BY <1>c, <1>e DEF Made
  <2>4. \E k \in DOMAIN calls' : calls'[k] = GetBudget(month)
    <3>1. GetBudget(month) \in N \cup {GetBudget(month)}
      OBVIOUS
    <3> QED
      BY <1>c, <3>1 DEF Made
  <2> QED
    BY <2>1, <2>2, <2>3, <2>4
<1>g. (\E j \in DOMAIN calls : calls[j].kind = "catalog") => \E k \in DOMAIN calls' : calls'[k].kind = "catalog"
  <2>1. CASE s \in N
    <3>1. s \in N \cup {GetBudget(month)}
      BY <2>1
    <3> QED
      BY <1>2, <1>c, <3>1 DEF Made
  <2>2. CASE K = DOMAIN calls
    <3>1. ASSUME NEW j \in DOMAIN calls, calls[j].kind = "catalog"
          PROVE  \E k \in DOMAIN calls' : calls'[k] = calls[j]
      BY <1>c, <2>2, <3>1 DEF Made
    <3> QED
      BY <3>1
  <2> QED
    BY <1>c, <2>1, <2>2
<1>s. calls' \in Seq(BudgetCalls)
  BY <1>c
<1>t. BudgetTypes'
  BY <1>a DEF BudgetTypes, budgetVars
<1>u. \A n \in Months : Unsettled(n) => Unsettled(n)'
  <2> SUFFICES ASSUME NEW n \in Months, NEW w \in DOMAIN calls, IsWrite(calls[w]),
                      calls[w].stage # "sent", calls[w].month = n
               PROVE  Unsettled(n)'
    BY DEF Unsettled
  <2>1. \E k \in DOMAIN calls' : calls'[k] = calls[w]
    BY <1>c, <1>d DEF Made, IsWrite
  <2> QED
    BY <2>1 DEF Unsettled
<1>50. OneWrite'
  BY <1>0, <1>2, <1>a, <1>f DEF BudgetWire, OneWrite, IsWrite, budgetVars, IsWrite
<1>51. FetchesSound'
  BY <1>0, <1>2, <1>a, <1>c, <1>d, <1>u DEF BudgetWire, BudgetTypes, FetchesSound, Budget, Planned, Made, budgetVars, IsWrite
<1>52. WritesSound'
  BY <1>0, <1>2, <1>a, <1>e, <1>f DEF BudgetWire, WritesSound, IsWrite, budgetVars, IsWrite
<1>53. ViewSound'
  BY <1>0, <1>2, <1>a, <1>f DEF BudgetWire, ViewSound, Fetching, Planned, budgetVars, IsWrite
<1>54. Awaited'
  BY <1>0, <1>2, <1>a, <1>f, <1>g DEF BudgetWire, Awaited, Fetching, budgetVars, IsWrite
<1>55. ZeroShown'
  BY <1>0, <1>2, <1>a, <1>u DEF BudgetWire, ZeroShown, budgetVars, IsWrite
<1>56. ClearsSound'
  BY <1>0, <1>2, <1>a, <1>e, <1>f DEF BudgetWire, ClearsSound, IsWrite, budgetVars, IsWrite
<1> QED
  BY <1>s, <1>t, <1>50, <1>51, <1>52, <1>53, <1>54, <1>55, <1>56 DEF BudgetWire

LEMMA BudgetDoneStep ==
  ASSUME BudgetTypes, BudgetWire, NEW i \in DOMAIN calls, BudgetDone(i)
  PROVE  BudgetTypes' /\ BudgetWire'
<1>0. calls \in Seq(BudgetCalls) /\ calls[i].kind = "budget" /\ calls[i].stage = "done"
  BY DEF BudgetWire, BudgetDone, Stage
<1>a. /\ Handled(i, <<>>) /\ view' = calls[i].answer /\ budgetError' = FALSE /\ doubted' = FALSE
      /\ UNCHANGED <<limit, month, saving, catalog>>
  BY DEF BudgetDone
<1>1. calls' \in Seq(BudgetCalls) /\ Made(calls', calls, DOMAIN calls \ {i}, {})
  BY <1>0, <1>a, HandledMade
<1>b. calls[i].answer.month = month /\ (calls[i].answer = Budget(month) \/ Unsettled(month))
  BY <1>0 DEF BudgetWire, FetchesSound
<1>c. month \in Months /\ Budget(month).planned = Planned(month)
  BY PlannedIs DEF BudgetTypes
<1>d. Unsettled(month) => saving
  BY DEF Unsettled, BudgetWire, OneWrite
<1>s. calls' \in Seq(BudgetCalls)
  BY <1>1
<1>t. BudgetTypes'
  BY <1>0, <1>a DEF BudgetTypes, FetchesSound, BudgetWire
<1>u. \A n \in Months : Unsettled(n) => Unsettled(n)'
  <2> SUFFICES ASSUME NEW n \in Months, NEW w \in DOMAIN calls, IsWrite(calls[w]),
                      calls[w].stage # "sent", calls[w].month = n
               PROVE  Unsettled(n)'
    BY DEF Unsettled
  <2>1. \E k \in DOMAIN calls' : calls'[k] = calls[w]
    BY <1>0, <1>1 DEF Made, IsWrite
  <2> QED
    BY <2>1 DEF Unsettled
<1>50. OneWrite'
  BY <1>0, <1>1, <1>a DEF BudgetWire, OneWrite, IsWrite, Made
<1>51. FetchesSound'
  BY <1>0, <1>1, <1>a, <1>u DEF BudgetWire, BudgetTypes, FetchesSound, Budget, Planned, Made
<1>52. WritesSound'
  BY <1>0, <1>1, <1>a DEF BudgetWire, WritesSound, Made
<1>53. ViewSound'
  BY <1>0, <1>1, <1>a, <1>b, <1>c, <1>d DEF BudgetWire, ViewSound, Fetching, Planned, Made
<1>54. Awaited'
  BY <1>0, <1>1, <1>a, <1>b DEF BudgetWire, Awaited, Fetching, Made
<1>55. ZeroShown'
  BY <1>0, <1>1, <1>a, <1>b, <1>c, <1>u DEF BudgetWire, ZeroShown, Planned, Made
<1>56. ClearsSound'
  BY <1>0, <1>1, <1>a DEF BudgetWire, ClearsSound, Made
<1> QED
  BY <1>s, <1>t, <1>50, <1>51, <1>52, <1>53, <1>54, <1>55, <1>56 DEF BudgetWire

LEMMA BudgetFailedStep ==
  ASSUME BudgetTypes, BudgetWire, NEW i \in DOMAIN calls, BudgetFailed(i)
  PROVE  BudgetTypes' /\ BudgetWire'
<1>0. calls \in Seq(BudgetCalls) /\ calls[i].kind = "budget" /\ calls[i].stage = "failed"
  BY DEF BudgetWire, BudgetFailed, Stage
<1>a. /\ Handled(i, <<>>) /\ budgetError' = TRUE
      /\ UNCHANGED <<limit, month, view, saving, catalog, doubted>>
  BY DEF BudgetFailed
<1>1. calls' \in Seq(BudgetCalls) /\ Made(calls', calls, DOMAIN calls \ {i}, {})
  BY <1>0, <1>a, HandledMade
<1>s. calls' \in Seq(BudgetCalls)
  BY <1>1
<1>t. BudgetTypes'
  BY <1>0, <1>a DEF BudgetTypes, FetchesSound, BudgetWire
<1>u. \A n \in Months : Unsettled(n) => Unsettled(n)'
  <2> SUFFICES ASSUME NEW n \in Months, NEW w \in DOMAIN calls, IsWrite(calls[w]),
                      calls[w].stage # "sent", calls[w].month = n
               PROVE  Unsettled(n)'
    BY DEF Unsettled
  <2>1. \E k \in DOMAIN calls' : calls'[k] = calls[w]
    BY <1>0, <1>1 DEF Made, IsWrite
  <2> QED
    BY <2>1 DEF Unsettled
<1>50. OneWrite'
  BY <1>0, <1>1, <1>a DEF BudgetWire, OneWrite, IsWrite, Made
<1>51. FetchesSound'
  BY <1>0, <1>1, <1>a, <1>u DEF BudgetWire, BudgetTypes, FetchesSound, Budget, Planned, Made
<1>52. WritesSound'
  BY <1>0, <1>1, <1>a DEF BudgetWire, WritesSound, Made
<1>53. ViewSound'
  BY <1>0, <1>1, <1>a DEF BudgetWire, ViewSound, Fetching, Planned, Made
<1>54. Awaited'
  BY <1>0, <1>1, <1>a DEF BudgetWire, Awaited, Fetching, Made
<1>55. ZeroShown'
  BY <1>0, <1>1, <1>a, <1>u DEF BudgetWire, ZeroShown, Made
<1>56. ClearsSound'
  BY <1>0, <1>1, <1>a DEF BudgetWire, ClearsSound, Made
<1> QED
  BY <1>s, <1>t, <1>50, <1>51, <1>52, <1>53, <1>54, <1>55, <1>56 DEF BudgetWire

LEMMA CatalogDoneStep ==
  ASSUME BudgetTypes, BudgetWire, NEW i \in DOMAIN calls, CatalogDone(i)
  PROVE  BudgetTypes' /\ BudgetWire'
<1>0. calls \in Seq(BudgetCalls) /\ calls[i].kind = "catalog" /\ calls[i].stage = "done"
  BY DEF BudgetWire, CatalogDone, Stage
<1>a. /\ Handled(i, <<>>) /\ catalog' = "loaded"
      /\ UNCHANGED <<limit, month, view, saving, budgetError, doubted>>
  BY DEF CatalogDone
<1>1. calls' \in Seq(BudgetCalls) /\ Made(calls', calls, DOMAIN calls \ {i}, {})
  BY <1>0, <1>a, HandledMade
<1>s. calls' \in Seq(BudgetCalls)
  BY <1>1
<1>t. BudgetTypes'
  BY <1>0, <1>a DEF BudgetTypes
<1>u. \A n \in Months : Unsettled(n) => Unsettled(n)'
  <2> SUFFICES ASSUME NEW n \in Months, NEW w \in DOMAIN calls, IsWrite(calls[w]),
                      calls[w].stage # "sent", calls[w].month = n
               PROVE  Unsettled(n)'
    BY DEF Unsettled
  <2>1. \E k \in DOMAIN calls' : calls'[k] = calls[w]
    BY <1>0, <1>1 DEF Made, IsWrite
  <2> QED
    BY <2>1 DEF Unsettled
<1>50. OneWrite'
  BY <1>0, <1>1, <1>a DEF BudgetWire, OneWrite, IsWrite, Made
<1>51. FetchesSound'
  BY <1>0, <1>1, <1>a, <1>u DEF BudgetWire, BudgetTypes, FetchesSound, Budget, Planned, Made
<1>52. WritesSound'
  BY <1>0, <1>1, <1>a DEF BudgetWire, WritesSound, Made
<1>53. ViewSound'
  BY <1>0, <1>1, <1>a DEF BudgetWire, ViewSound, Fetching, Planned, Made
<1>54. Awaited'
  BY <1>0, <1>1, <1>a DEF BudgetWire, Awaited, Fetching, Made
<1>55. ZeroShown'
  BY <1>0, <1>1, <1>a, <1>u DEF BudgetWire, ZeroShown, Made
<1>56. ClearsSound'
  BY <1>0, <1>1, <1>a DEF BudgetWire, ClearsSound, Made
<1> QED
  BY <1>s, <1>t, <1>50, <1>51, <1>52, <1>53, <1>54, <1>55, <1>56 DEF BudgetWire

LEMMA CatalogFailedStep ==
  ASSUME BudgetTypes, BudgetWire, NEW i \in DOMAIN calls, CatalogFailed(i)
  PROVE  BudgetTypes' /\ BudgetWire'
<1>0. calls \in Seq(BudgetCalls) /\ calls[i].kind = "catalog" /\ calls[i].stage = "failed"
  BY DEF BudgetWire, CatalogFailed, Stage
<1>a. /\ Handled(i, <<>>) /\ catalog' \in {"loaded", "error"}
      /\ UNCHANGED <<limit, month, view, saving, budgetError, doubted>>
  BY DEF CatalogFailed
<1>1. calls' \in Seq(BudgetCalls) /\ Made(calls', calls, DOMAIN calls \ {i}, {})
  BY <1>0, <1>a, HandledMade
<1>s. calls' \in Seq(BudgetCalls)
  BY <1>1
<1>t. BudgetTypes'
  BY <1>0, <1>a DEF BudgetTypes
<1>u. \A n \in Months : Unsettled(n) => Unsettled(n)'
  <2> SUFFICES ASSUME NEW n \in Months, NEW w \in DOMAIN calls, IsWrite(calls[w]),
                      calls[w].stage # "sent", calls[w].month = n
               PROVE  Unsettled(n)'
    BY DEF Unsettled
  <2>1. \E k \in DOMAIN calls' : calls'[k] = calls[w]
    BY <1>0, <1>1 DEF Made, IsWrite
  <2> QED
    BY <2>1 DEF Unsettled
<1>50. OneWrite'
  BY <1>0, <1>1, <1>a DEF BudgetWire, OneWrite, IsWrite, Made
<1>51. FetchesSound'
  BY <1>0, <1>1, <1>a, <1>u DEF BudgetWire, BudgetTypes, FetchesSound, Budget, Planned, Made
<1>52. WritesSound'
  BY <1>0, <1>1, <1>a DEF BudgetWire, WritesSound, Made
<1>53. ViewSound'
  BY <1>0, <1>1, <1>a DEF BudgetWire, ViewSound, Fetching, Planned, Made
<1>54. Awaited'
  BY <1>0, <1>1, <1>a DEF BudgetWire, Awaited, Fetching, Made
<1>55. ZeroShown'
  BY <1>0, <1>1, <1>a, <1>u DEF BudgetWire, ZeroShown, Made
<1>56. ClearsSound'
  BY <1>0, <1>1, <1>a DEF BudgetWire, ClearsSound, Made
<1> QED
  BY <1>s, <1>t, <1>50, <1>51, <1>52, <1>53, <1>54, <1>55, <1>56 DEF BudgetWire

LEMMA SaveDoneStep ==
  ASSUME BudgetTypes, BudgetWire, NEW i \in DOMAIN calls, SaveDone(i)
  PROVE  BudgetTypes' /\ BudgetWire'
<1>0. /\ calls \in Seq(BudgetCalls) /\ calls[i].kind = "save" /\ calls[i].stage = "done"
      /\ calls[i].month = month /\ month \in Months
      /\ calls[i].cents \in Cents /\ calls[i].cents \in Nat
  BY BudgetKinds, MonthsAre DEF BudgetWire, BudgetTypes, SaveDone, Stage
<1>a. /\ calls' = Without(RemoveAt(calls, i), "budget")
      /\ view' = calls[i].answer /\ budgetError' = FALSE /\ saving' = FALSE /\ doubted' = FALSE
      /\ UNCHANGED <<limit, month, catalog>>
  BY DEF SaveDone, Saved
<1>1. /\ calls' \in Seq(BudgetCalls)
      /\ Made(calls', calls, {j \in DOMAIN calls \ {i} : calls[j].kind # "budget"}, {})
  <2> DEFINE a == RemoveAt(calls, i)
             J == DOMAIN calls \ {i}
             K == {j \in J : calls[j].kind # "budget"}
  <2>1. a \in Seq(BudgetCalls) /\ Made(a, calls, J, {}) /\ J \in SUBSET (DOMAIN calls)
    BY <1>0, RemovedAt, RemovedMade
  <2> HIDE DEF a, J
  <2>2. /\ Without(a, "budget") \in Seq(BudgetCalls)
        /\ Made(Without(a, "budget"), calls, K, {})
    BY <1>0, <2>1, MadeThenWithout
  <2>3. K \in SUBSET (DOMAIN calls)
    BY <2>1
  <2> QED
    BY <1>a, <2>2 DEF a, J
<1>b. /\ limit[month] = calls[i].cents /\ view'.month = month /\ view'.planned = calls[i].cents
      /\ Planned(month) = calls[i].cents /\ view' \in Views
  <2>1. limit[month] = calls[i].cents /\ view' = [month |-> month, planned |-> calls[i].cents]
    BY <1>0, <1>a DEF BudgetWire, WritesSound
  <2> QED
    BY <1>0, <2>1, PlannedIs DEF Views
<1>d. \A j \in DOMAIN calls : IsWrite(calls[j]) => j = i
  BY <1>0 DEF BudgetWire, OneWrite, IsWrite
<1>s. calls' \in Seq(BudgetCalls)
  BY <1>1
<1>t. BudgetTypes'
  BY <1>a, <1>b DEF BudgetTypes
<1>u. TRUE
  OBVIOUS
<1>50. OneWrite'
  BY <1>0, <1>1, <1>a, <1>d DEF BudgetWire, OneWrite, IsWrite, Made, IsWrite
<1>51. FetchesSound'
  BY <1>0, <1>1, <1>a, <1>d, <1>u DEF BudgetWire, BudgetTypes, FetchesSound, Budget, Planned, Made, IsWrite
<1>52. WritesSound'
  BY <1>0, <1>1, <1>a, <1>d DEF BudgetWire, WritesSound, Made, IsWrite
<1>53. ViewSound'
  BY <1>0, <1>1, <1>a, <1>d, <1>b DEF BudgetWire, ViewSound, Fetching, Planned, Made, IsWrite
<1>54. Awaited'
  BY <1>0, <1>1, <1>a, <1>d, <1>b DEF BudgetWire, Awaited, Fetching, Made, IsWrite
<1>55. ZeroShown'
  BY <1>0, <1>1, <1>a, <1>d, <1>b, <1>u DEF BudgetWire, ZeroShown, Made, IsWrite
<1>56. ClearsSound'
  BY <1>0, <1>1, <1>a, <1>d DEF BudgetWire, ClearsSound, Made, IsWrite
<1> QED
  BY <1>s, <1>t, <1>50, <1>51, <1>52, <1>53, <1>54, <1>55, <1>56 DEF BudgetWire

LEMMA SaveElsewhereStep ==
  ASSUME BudgetTypes, BudgetWire, NEW i \in DOMAIN calls, SaveElsewhere(i)
  PROVE  BudgetTypes' /\ BudgetWire'
<1>0. /\ calls \in Seq(BudgetCalls) /\ calls[i].kind = "save" /\ calls[i].stage = "done"
      /\ month \in Months /\ calls[i].month \in Months
  BY BudgetKinds DEF BudgetWire, BudgetTypes, SaveElsewhere, Stage
<1>a. /\ calls' = Refetch(Without(RemoveAt(calls, i), "budget"), month)
      /\ saving' = FALSE /\ doubted' = (doubted \/ view.month = calls[i].month) /\ calls[i].month # month
      /\ UNCHANGED <<limit, month, view, budgetError, catalog>>
  BY DEF SaveElsewhere, Saved, Elsewhere
<1>1. /\ calls' \in Seq(BudgetCalls)
      /\ Made(calls', calls, {j \in DOMAIN calls \ {i} : calls[j].kind # "budget"},
              {GetBudget(month)})
  <2> DEFINE a == RemoveAt(calls, i)
             J == DOMAIN calls \ {i}
             K == {j \in J : calls[j].kind # "budget"}
  <2>1. a \in Seq(BudgetCalls) /\ Made(a, calls, J, {}) /\ J \in SUBSET (DOMAIN calls)
    BY <1>0, RemovedAt, RemovedMade
  <2> HIDE DEF a, J
  <2>2. /\ Without(a, "budget") \in Seq(BudgetCalls)
        /\ Made(Without(a, "budget"), calls, K, {})
    BY <1>0, <2>1, MadeThenWithout
  <2>3. K \in SUBSET (DOMAIN calls)
    BY <2>1
  <2> DEFINE b == Without(a, "budget")
  <2> HIDE DEF b, K
  <2>4. /\ Refetch(b, month) \in Seq(BudgetCalls)
        /\ Made(Refetch(b, month), calls, {j \in K : calls[j].kind # "budget"},
                {} \cup {GetBudget(month)})
    BY <1>0, <2>2, <2>3, Refetched DEF b
  <2>5. {j \in K : calls[j].kind # "budget"} = {j \in J : calls[j].kind # "budget"}
    BY DEF K
  <2> QED
    BY <1>a, <2>4, <2>5 DEF a, b, J
<1>2. /\ GetBudget(month).kind = "budget" /\ GetBudget(month).stage = "sent"
      /\ GetBudget(month).month = month
  BY DEF GetBudget
<1>d. \A j \in DOMAIN calls : IsWrite(calls[j]) => j = i
  BY <1>0 DEF BudgetWire, OneWrite, IsWrite
<1>s. calls' \in Seq(BudgetCalls)
  BY <1>1
<1>t. BudgetTypes'
  BY <1>a DEF BudgetTypes
<1>u. ASSUME view.month \in Months, Unsettled(view.month)
      PROVE  doubted'
  <2>1. calls[i].month = view.month
    BY <1>u, <1>d DEF Unsettled
  <2>2. TRUE
    BY <1>0 DEF BudgetWire, WritesSound
  <2> QED
    BY <1>0, <1>a, <2>1, <2>2, MonthsAre
<1>50. OneWrite'
  BY <1>0, <1>1, <1>2, <1>a, <1>d DEF BudgetWire, OneWrite, IsWrite, Made, IsWrite
<1>51. FetchesSound'
  BY <1>0, <1>1, <1>2, <1>a, <1>d, <1>u DEF BudgetWire, BudgetTypes, FetchesSound, Budget, Planned, Made, IsWrite
<1>52. WritesSound'
  BY <1>0, <1>1, <1>2, <1>a, <1>d DEF BudgetWire, WritesSound, Made, IsWrite
<1>53. ViewSound'
  BY <1>0, <1>1, <1>2, <1>a, <1>d DEF BudgetWire, ViewSound, Fetching, Planned, Made, IsWrite
<1>54. Awaited'
  BY <1>0, <1>1, <1>2, <1>a, <1>d DEF BudgetWire, Awaited, Fetching, Made, IsWrite
<1>55. ZeroShown'
  BY <1>0, <1>1, <1>2, <1>a, <1>d, <1>u DEF BudgetWire, ZeroShown, Made, IsWrite
<1>56. ClearsSound'
  BY <1>0, <1>1, <1>2, <1>a, <1>d DEF BudgetWire, ClearsSound, Made, IsWrite
<1> QED
  BY <1>s, <1>t, <1>50, <1>51, <1>52, <1>53, <1>54, <1>55, <1>56 DEF BudgetWire

LEMMA ClearDoneStep ==
  ASSUME BudgetTypes, BudgetWire, NEW i \in DOMAIN calls, ClearDone(i)
  PROVE  BudgetTypes' /\ BudgetWire'
<1>0. /\ calls \in Seq(BudgetCalls) /\ calls[i].kind = "clear" /\ calls[i].stage = "done"
      /\ month \in Months /\ calls[i].month \in Months
  BY BudgetKinds DEF BudgetWire, BudgetTypes, ClearDone, Stage
<1>a. /\ calls' = Refetch(Without(RemoveAt(calls, i), "budget"), month)
      /\ saving' = FALSE /\ UNCHANGED doubted
      /\ UNCHANGED <<limit, month, view, budgetError, catalog>>
  BY DEF ClearDone, Saved, Elsewhere
<1>1. /\ calls' \in Seq(BudgetCalls)
      /\ Made(calls', calls, {j \in DOMAIN calls \ {i} : calls[j].kind # "budget"},
              {GetBudget(month)})
  <2> DEFINE a == RemoveAt(calls, i)
             J == DOMAIN calls \ {i}
             K == {j \in J : calls[j].kind # "budget"}
  <2>1. a \in Seq(BudgetCalls) /\ Made(a, calls, J, {}) /\ J \in SUBSET (DOMAIN calls)
    BY <1>0, RemovedAt, RemovedMade
  <2> HIDE DEF a, J
  <2>2. /\ Without(a, "budget") \in Seq(BudgetCalls)
        /\ Made(Without(a, "budget"), calls, K, {})
    BY <1>0, <2>1, MadeThenWithout
  <2>3. K \in SUBSET (DOMAIN calls)
    BY <2>1
  <2> DEFINE b == Without(a, "budget")
  <2> HIDE DEF b, K
  <2>4. /\ Refetch(b, month) \in Seq(BudgetCalls)
        /\ Made(Refetch(b, month), calls, {j \in K : calls[j].kind # "budget"},
                {} \cup {GetBudget(month)})
    BY <1>0, <2>2, <2>3, Refetched DEF b
  <2>5. {j \in K : calls[j].kind # "budget"} = {j \in J : calls[j].kind # "budget"}
    BY DEF K
  <2> QED
    BY <1>a, <2>4, <2>5 DEF a, b, J
<1>2. /\ GetBudget(month).kind = "budget" /\ GetBudget(month).stage = "sent"
      /\ GetBudget(month).month = month
  BY DEF GetBudget
<1>d. \A j \in DOMAIN calls : IsWrite(calls[j]) => j = i
  BY <1>0 DEF BudgetWire, OneWrite, IsWrite
<1>s. calls' \in Seq(BudgetCalls)
  BY <1>1
<1>t. BudgetTypes'
  BY <1>a DEF BudgetTypes
<1>u. ASSUME view.month \in Months, Unsettled(view.month)
      PROVE  limit[view.month] # 0
  <2>1. calls[i].month = view.month
    BY <1>u, <1>d DEF Unsettled
  <2>2. limit[calls[i].month] = NoLimit
    BY <1>0 DEF BudgetWire, WritesSound
  <2> QED
    BY <1>0, <1>a, <2>1, <2>2, MonthsAre
<1>50. OneWrite'
  BY <1>0, <1>1, <1>2, <1>a, <1>d DEF BudgetWire, OneWrite, IsWrite, Made, IsWrite
<1>51. FetchesSound'
  BY <1>0, <1>1, <1>2, <1>a, <1>d, <1>u DEF BudgetWire, BudgetTypes, FetchesSound, Budget, Planned, Made, IsWrite
<1>52. WritesSound'
  BY <1>0, <1>1, <1>2, <1>a, <1>d DEF BudgetWire, WritesSound, Made, IsWrite
<1>53. ViewSound'
  BY <1>0, <1>1, <1>2, <1>a, <1>d DEF BudgetWire, ViewSound, Fetching, Planned, Made, IsWrite
<1>54. Awaited'
  BY <1>0, <1>1, <1>2, <1>a, <1>d DEF BudgetWire, Awaited, Fetching, Made, IsWrite
<1>55. ZeroShown'
  BY <1>0, <1>1, <1>2, <1>a, <1>d, <1>u DEF BudgetWire, ZeroShown, Made, IsWrite
<1>56. ClearsSound'
  BY <1>0, <1>1, <1>2, <1>a, <1>d DEF BudgetWire, ClearsSound, Made, IsWrite
<1> QED
  BY <1>s, <1>t, <1>50, <1>51, <1>52, <1>53, <1>54, <1>55, <1>56 DEF BudgetWire

LEMMA WriteFailedStep ==
  ASSUME BudgetTypes, BudgetWire, NEW i \in DOMAIN calls, WriteFailed(i)
  PROVE  BudgetTypes' /\ BudgetWire'
<1>0. /\ calls \in Seq(BudgetCalls) /\ IsWrite(calls[i]) /\ calls[i].stage = "failed"
      /\ month \in Months
  BY DEF BudgetWire, BudgetTypes, WriteFailed, IsWrite
<1>a. /\ calls' = Refetch(RemoveAt(calls, i), month)
      /\ saving' = FALSE /\ doubted' = TRUE
      /\ UNCHANGED <<limit, month, view, budgetError, catalog>>
  BY DEF WriteFailed, Resynced
<1>1. /\ calls' \in Seq(BudgetCalls)
      /\ Made(calls', calls, {j \in DOMAIN calls \ {i} : calls[j].kind # "budget"},
              {GetBudget(month)})
  <2> DEFINE a == RemoveAt(calls, i)
             J == DOMAIN calls \ {i}
             K == {j \in J : calls[j].kind # "budget"}
  <2>1. a \in Seq(BudgetCalls) /\ Made(a, calls, J, {}) /\ J \in SUBSET (DOMAIN calls)
    BY <1>0, RemovedAt, RemovedMade
  <2> HIDE DEF a, J
  <2>4. /\ Refetch(a, month) \in Seq(BudgetCalls)
        /\ Made(Refetch(a, month), calls, {j \in J : calls[j].kind # "budget"},
                {} \cup {GetBudget(month)})
    BY <1>0, <2>1, Refetched
  <2> QED
    BY <1>a, <2>4 DEF a, J
<1>2. /\ GetBudget(month).kind = "budget" /\ GetBudget(month).stage = "sent"
      /\ GetBudget(month).month = month
  BY DEF GetBudget
<1>d. \A j \in DOMAIN calls : IsWrite(calls[j]) => j = i
  BY <1>0 DEF BudgetWire, OneWrite, IsWrite
<1>s. calls' \in Seq(BudgetCalls)
  BY <1>1
<1>t. BudgetTypes'
  BY <1>a DEF BudgetTypes
<1>u. TRUE
  OBVIOUS
<1>50. OneWrite'
  BY <1>0, <1>1, <1>2, <1>a, <1>d DEF BudgetWire, OneWrite, IsWrite, Made, IsWrite
<1>51. FetchesSound'
  BY <1>0, <1>1, <1>2, <1>a, <1>d, <1>u DEF BudgetWire, BudgetTypes, FetchesSound, Budget, Planned, Made, IsWrite
<1>52. WritesSound'
  BY <1>0, <1>1, <1>2, <1>a, <1>d DEF BudgetWire, WritesSound, Made, IsWrite
<1>53. ViewSound'
  BY <1>0, <1>1, <1>2, <1>a, <1>d DEF BudgetWire, ViewSound, Fetching, Planned, Made, IsWrite
<1>54. Awaited'
  BY <1>0, <1>1, <1>2, <1>a, <1>d DEF BudgetWire, Awaited, Fetching, Made, IsWrite
<1>55. ZeroShown'
  BY <1>0, <1>1, <1>2, <1>a, <1>d, <1>u DEF BudgetWire, ZeroShown, Made, IsWrite
<1>56. ClearsSound'
  BY <1>0, <1>1, <1>2, <1>a, <1>d DEF BudgetWire, ClearsSound, Made, IsWrite
<1> QED
  BY <1>s, <1>t, <1>50, <1>51, <1>52, <1>53, <1>54, <1>55, <1>56 DEF BudgetWire

LEMMA BudgetStep ==
  ASSUME BudgetInv, page = "budget", BudgetNext
  PROVE  BudgetTypes' /\ BudgetWire'
<1>0. BudgetTypes /\ BudgetWire
  BY DEF BudgetInv
<1>1. ASSUME NEW i \in DOMAIN calls,
             \/ ServeBudget(i) \/ ServeCatalog(i) \/ ServeSave(i) \/ ServeClear(i)
             \/ Lost(i) /\ UNCHANGED budgetVars
      PROVE  BudgetTypes' /\ BudgetWire'
  BY <1>0, <1>1, ServeBudgetStep, ServeCatalogStep, ServeSaveStep, ServeClearStep,
     BudgetLostStep
<1>2. ASSUME NEW i \in DOMAIN calls,
             \/ BudgetDone(i) \/ BudgetFailed(i) \/ CatalogDone(i) \/ CatalogFailed(i)
             \/ SaveDone(i) \/ SaveElsewhere(i) \/ ClearDone(i) \/ WriteFailed(i)
      PROVE  BudgetTypes' /\ BudgetWire'
  BY <1>0, <1>2, BudgetDoneStep, BudgetFailedStep, CatalogDoneStep, CatalogFailedStep,
     SaveDoneStep, SaveElsewhereStep, ClearDoneStep, WriteFailedStep
<1>3. ASSUME \/ \E m \in Months : SwitchMonth(m)
             \/ \E cents \in Cents : Save(cents)
             \/ ClearLimit \/ Retry
      PROVE  BudgetTypes' /\ BudgetWire'
  BY <1>0, <1>3, SwitchMonthStep, SaveStep, ClearLimitStep, RetryStep
<1> QED
  BY <1>1, <1>2, <1>3 DEF BudgetNext

LEMMA BudgetInvInit == Init => BudgetInv
<1> SUFFICES ASSUME Init PROVE BudgetInv
  OBVIOUS
<1>1. BudgetTypes
  BY MonthsAre DEF Init, BudgetInit, BudgetTypes, Views, NoView
<1>2. ASSUME page = "budget" PROVE BudgetWire
  <2> DEFINE s == Sending("catalog")
             b == GetBudget(month)
  <2>1. calls = <<s, b>>
    BY <1>2 DEF Init, Mount
  <2>2. /\ s \in BudgetCalls /\ s.kind = "catalog" /\ s.stage = "sent"
        /\ b \in BudgetCalls /\ b.kind = "budget" /\ b.stage = "sent" /\ b.month = month
    BY <1>1 DEF Sending, GetBudget, BudgetCalls, BudgetTypes, Stages
  <2> HIDE DEF s, b
  <2>3. calls \in Seq(BudgetCalls) /\ DOMAIN calls = {1, 2} /\ calls[1] = s /\ calls[2] = b
    BY <2>1, <2>2
  <2>4. saving = FALSE /\ doubted = FALSE /\ view.planned = 0 /\ view.month = 0
    BY DEF Init, BudgetInit, NoView
  <2>5. OneWrite
    BY <2>2, <2>3, <2>4 DEF OneWrite, IsWrite
  <2>6. FetchesSound /\ WritesSound
    BY <2>2, <2>3 DEF FetchesSound, WritesSound
  <2>7. ViewSound /\ Awaited
    BY <2>2, <2>3 DEF ViewSound, Awaited, Fetching
  <2>8. ZeroShown /\ ClearsSound
    BY <2>2, <2>3, <2>4 DEF ZeroShown, ClearsSound
  <2> QED
    BY <2>3, <2>5, <2>6, <2>7, <2>8 DEF BudgetWire
<1> QED
  BY <1>1, <1>2 DEF BudgetInv

LEMMA BudgetInvKept == BudgetInv /\ [Next]_vars => BudgetInv'
<1> SUFFICES ASSUME BudgetInv, [Next]_vars PROVE BudgetInv'
  OBVIOUS
<1>1. CASE page = "budget" /\ Next /\ BudgetNext
  BY <1>1, BudgetStep DEF BudgetInv
<1>2. CASE page # "budget" /\ Next
  <2>1. UNCHANGED budgetVars /\ page' = page
    BY <1>2 DEF Next
  <2> QED
    BY <1>2, <2>1 DEF BudgetInv, BudgetTypes, budgetVars
<1>3. CASE UNCHANGED vars
  BY <1>3 DEF BudgetInv, BudgetTypes, BudgetWire, OneWrite, FetchesSound, WritesSound,
     ViewSound, Awaited, ZeroShown, ClearsSound, Fetching, Unsettled, Budget, Planned,
     vars, wireVars, budgetVars
<1> QED
  BY <1>1, <1>2, <1>3 DEF Next

LEMMA BudgetAtRest ==
  ASSUME BudgetInv
  PROVE  /\ BudgetSettles
         /\ AtRest /\ page = "budget" => ~saving /\ (Ready \/ budgetError \/ catalog = "error")
<1> SUFFICES ASSUME AtRest, page = "budget"
             PROVE  /\ Ready /\ ~budgetError => view.planned = Planned(month)
                    /\ ~saving /\ (Ready \/ budgetError \/ catalog = "error")
  BY DEF BudgetSettles
<1>1. DOMAIN calls = {}
  BY DEF AtRest
<1>2. ~saving /\ ~Fetching
  BY <1>1 DEF BudgetInv, BudgetWire, OneWrite, Fetching
<1> QED
  BY <1>1, <1>2 DEF BudgetInv, BudgetWire, BudgetTypes, ViewSound, Awaited, Ready, Current

\* A limit that is cleared is not zero, unless the screen may be behind.
LEMMA ClearedIsNotZero ==
  ASSUME BudgetInv, page = "budget", NEW i \in DOMAIN calls, ServeClear(i), ~calls[i].warned
  PROVE  limit[calls[i].month] # 0
BY DEF BudgetInv, BudgetWire, ClearsSound, ServeClear, Stage

-----------------------------------------------------------------------------
(* The reports page.                                                       *)

ReportCalls ==
  [kind : {"report"}, stage : Stages, answer : {None} \cup Nat, range : Ranges]

\* A transaction as far as the figures go: the fields without a condition may be
\* anything.
IsEntry(t) ==
  /\ t.type \in {"income", "expense", "transfer"}
  /\ t.amount \in Nat
  /\ t.month \in 1 .. Span
  /\ t.account \in Holdings
  /\ t.type = "transfer" => t.to \in Holdings

ReportTypes ==
  /\ range \in Ranges
  /\ \E n \in 0 .. NumEntries : ledger = [k \in 1 .. n |-> ledger[k]]
  /\ \A k \in DOMAIN ledger : IsEntry(ledger[k])

ReportWire ==
  /\ calls \in Seq(ReportCalls)
  /\ \A j \in DOMAIN calls : calls[j].range = range
  /\ Loading => \E j \in DOMAIN calls : TRUE

ReportInv == ReportTypes /\ (page = "reports" => ReportWire)

LEMMA ReportMoved ==
  ASSUME calls \in Seq(ReportCalls), NEW i \in DOMAIN calls,
         \/ \E a \in Nat : Answered(i, a)
         \/ Lost(i)
  PROVE  /\ calls' \in Seq(ReportCalls) /\ DOMAIN calls' = DOMAIN calls
         /\ \A j \in DOMAIN calls : calls'[j].range = calls[j].range
<1>1. calls[i] \in ReportCalls
  OBVIOUS
<1>2. ASSUME NEW d \in ReportCalls, d.range = calls[i].range, calls' = [calls EXCEPT ![i] = d]
      PROVE  /\ calls' \in Seq(ReportCalls) /\ DOMAIN calls' = DOMAIN calls
             /\ \A j \in DOMAIN calls : calls'[j].range = calls[j].range
  BY <1>2
<1>3. CASE Lost(i)
  <2> DEFINE d == [calls[i] EXCEPT !.stage = "failed"]
  <2>1. d \in ReportCalls /\ d.range = calls[i].range
    BY <1>1 DEF ReportCalls, Stages
  <2>2. calls' = [calls EXCEPT ![i] = d]
    BY <1>3 DEF Lost
  <2> HIDE DEF d
  <2> QED
    BY <2>1, <2>2, <1>2
<1>4. ASSUME NEW a \in Nat, Answered(i, a)
      PROVE  /\ calls' \in Seq(ReportCalls) /\ DOMAIN calls' = DOMAIN calls
             /\ \A j \in DOMAIN calls : calls'[j].range = calls[j].range
  <2> DEFINE d == [[calls[i] EXCEPT !.stage = "done"] EXCEPT !.answer = a]
  <2>1. d \in ReportCalls /\ d.range = calls[i].range
    BY <1>1 DEF ReportCalls, Stages
  <2>2. calls' = [calls EXCEPT ![i] = d]
    BY <1>4 DEF Answered
  <2> HIDE DEF d
  <2> QED
    BY <2>1, <2>2, <1>2
<1> QED
  BY <1>3, <1>4

LEMMA LedgerStep ==
  ASSUME ReportTypes, NEW t \in Entries, Record(t)
  PROVE  ReportTypes'
<1>1. PICK n \in 0 .. NumEntries : ledger = [k \in 1 .. n |-> ledger[k]]
  BY DEF ReportTypes
<1> DEFINE S0 == {ledger[k] : k \in 1 .. n}
<1>a. ledger \in Seq(S0) /\ Len(ledger) = n /\ DOMAIN ledger = 1 .. n
  <2>1. n \in Nat /\ \A k \in 1 .. n : ledger[k] \in S0
    BY LedgerAssumption
  <2> HIDE DEF S0
  <2>2. [k \in 1 .. n |-> ledger[k]] \in Seq(S0)
    BY <2>1
  <2> QED
    BY <2>1, <2>2, <1>1
<1> DEFINE e == [type |-> t.type, month |-> t.month, account |-> t.account, to |-> t.to,
                 category |-> t.category, amount |-> Amounts[n + 1]]
<1>2. n < NumEntries /\ n \in Nat /\ n + 1 \in 1 .. NumEntries /\ ledger' = Append(ledger, e)
      /\ range' = range
  BY <1>a, LedgerAssumption DEF Record
<1>b. ledger' = [k \in DOMAIN ledger' |-> ledger'[k]]
  <2>1. Append(ledger, e) = [k \in DOMAIN Append(ledger, e) |-> Append(ledger, e)[k]]
    BY <1>a
  <2> QED
    BY <1>2, <2>1
<1>3. IsEntry(e)
  BY <1>2, LedgerAssumption DEF IsEntry
<1> HIDE DEF e
<1>4. DOMAIN ledger' = 1 .. n + 1 /\ Len(ledger') = n + 1 /\ ledger'[n + 1] = e
      /\ \A k \in 1 .. n : ledger'[k] = ledger[k]
  <2> DEFINE S == S0 \cup {e}
  <2> HIDE DEF S0
  <2>1. ledger \in Seq(S)
    BY <1>a
  <2> HIDE DEF S
  <2>2. e \in S
    BY DEF S
  <2> QED
    BY <2>1, <2>2, <1>a, <1>2, AppendProperties
<1>5. n + 1 \in 0 .. NumEntries /\ ledger' = [k \in 1 .. n + 1 |-> ledger'[k]]
  BY <1>2, <1>4, <1>b
<1>6. \A k \in DOMAIN ledger' : IsEntry(ledger'[k])
  BY <1>a, <1>2, <1>3, <1>4 DEF ReportTypes
<1>7. (\A k \in DOMAIN ledger' : IsEntry(ledger'[k])) => (\A k \in DOMAIN ledger : IsEntry(ledger[k]))'
  OBVIOUS
<1> QED
  BY <1>2, <1>5, <1>6, <1>7 DEF ReportTypes

LEMMA ReportStep ==
  ASSUME ReportInv, page = "reports", ReportsNext
  PROVE  ReportTypes' /\ ReportWire'
<1>0. ReportTypes /\ ReportWire /\ calls \in Seq(ReportCalls)
  BY DEF ReportInv, ReportWire
<1>1. ASSUME NEW i \in DOMAIN calls, ServeReport(i) \/ (Lost(i) /\ UNCHANGED reportVars)
      PROVE  ReportTypes' /\ ReportWire'
  <2>1. Len(ledger) \in Nat
    BY <1>0 DEF ReportTypes
  <2>2. /\ calls' \in Seq(ReportCalls) /\ DOMAIN calls' = DOMAIN calls
        /\ \A j \in DOMAIN calls : calls'[j].range = calls[j].range
    BY <1>0, <1>1, <2>1, ReportMoved DEF ServeReport
  <2>3. UNCHANGED reportVars
    BY <1>1 DEF ServeReport
  <2>4. ReportTypes'
    BY <1>0, <2>3 DEF ReportTypes, reportVars, IsEntry
  <2> QED
    BY <1>0, <2>2, <2>3, <2>4 DEF ReportWire, reportVars, Loading
<1>2. ASSUME NEW i \in DOMAIN calls, ReportDone(i) \/ ReportFailed(i)
      PROVE  ReportTypes' /\ ReportWire'
  <2>1. /\ Handled(i, <<>>) /\ UNCHANGED <<ledger, range>>
        /\ report'.key = calls[i].range
    BY <1>2 DEF ReportDone, ReportFailed
  <2>2. calls' \in Seq(ReportCalls) /\ Made(calls', calls, DOMAIN calls \ {i}, {})
    BY <1>0, <2>1, HandledMade
  <2>3. ReportTypes'
    BY <1>0, <2>1 DEF ReportTypes, IsEntry
  <2> QED
    BY <1>0, <2>1, <2>2, <2>3 DEF ReportWire, Loading, Made
<1>3. ASSUME NEW t \in Entries, Record(t)
      PROVE  ReportTypes' /\ ReportWire'
  <2>1. UNCHANGED <<range, report, calls>>
    BY <1>3 DEF Record
  <2> QED
    BY <1>0, <1>3, <2>1, LedgerStep DEF ReportWire, Loading
<1>4. ASSUME NEW r \in Ranges, ChooseRange(r)
      PROVE  ReportTypes' /\ ReportWire'
  <2>1. /\ calls' = Append(Without(calls, "report"), GetReport(r)) /\ range' = r
        /\ UNCHANGED <<ledger, report>>
    BY <1>4 DEF ChooseRange, Cancelled
  <2>2. /\ Without(calls, "report") \in Seq(ReportCalls)
        /\ Made(Without(calls, "report"), calls, {j \in DOMAIN calls : calls[j].kind # "report"}, {})
    BY <1>0, WithoutMade
  <2>3. {j \in DOMAIN calls : calls[j].kind # "report"} = {}
    <3>1. \A j \in DOMAIN calls : calls[j] \in ReportCalls
      BY <1>0
    <3> QED
      BY <3>1 DEF ReportCalls
  <2>4. GetReport(r) \in ReportCalls /\ GetReport(r).range = r
    BY DEF GetReport, ReportCalls, Stages
  <2> DEFINE w == Without(calls, "report")
             g == GetReport(r)
  <2> HIDE DEF w, g
  <2>5. w \in Seq(ReportCalls) /\ Made(w, calls, {}, {}) /\ g \in ReportCalls
    BY <2>2, <2>3, <2>4 DEF w, g
  <2>6. calls' \in Seq(ReportCalls) /\ Made(calls', calls, {}, {} \cup {g})
    <3>1. {} \in SUBSET (DOMAIN calls) /\ g \notin {} /\ calls' = Append(w, g)
      BY <2>1 DEF w, g
    <3> QED
      BY <1>0, <2>5, <3>1, MadeThenOne
  <2>7. ReportTypes'
    BY <1>0, <2>1 DEF ReportTypes, IsEntry
  <2>8. (\A k \in DOMAIN calls' : calls'[k] = g) /\ \E k \in DOMAIN calls' : TRUE
    BY <2>6 DEF Made
  <2> QED
    BY <1>0, <2>1, <2>4, <2>6, <2>7, <2>8 DEF ReportWire, g
<1> QED
  BY <1>1, <1>2, <1>3, <1>4 DEF ReportsNext

LEMMA ReportInvInit == Init => ReportInv
<1> SUFFICES ASSUME Init PROVE ReportInv
  OBVIOUS
<1>1. range = <<1, Span>> /\ range \in Ranges /\ ledger = <<>>
  BY LedgerAssumption DEF Init, ReportsInit, Ranges
<1>2. ReportTypes
  <2>1. 0 \in 0 .. NumEntries
    BY LedgerAssumption
  <2>2. ledger = [k \in 1 .. 0 |-> ledger[k]]
    BY <1>1
  <2>3. \A k \in DOMAIN ledger : IsEntry(ledger[k])
    BY <1>1
  <2> QED
    BY <1>1, <2>1, <2>2, <2>3 DEF ReportTypes
<1>3. ASSUME page = "reports" PROVE ReportWire
  <2> DEFINE g == GetReport(range)
  <2>1. calls = <<g>>
    BY <1>3 DEF Init, Mount
  <2>2. g \in ReportCalls /\ g.range = range
    BY <1>1 DEF GetReport, ReportCalls, Stages
  <2> HIDE DEF g
  <2> QED
    BY <2>1, <2>2 DEF ReportWire
<1> QED
  BY <1>2, <1>3 DEF ReportInv

LEMMA ReportInvKept == ReportInv /\ [Next]_vars => ReportInv'
<1> SUFFICES ASSUME ReportInv, [Next]_vars PROVE ReportInv'
  OBVIOUS
<1>1. CASE page = "reports" /\ Next /\ ReportsNext
  BY <1>1, ReportStep DEF ReportInv
<1>2. CASE page # "reports" /\ Next
  <2>1. UNCHANGED reportVars /\ page' = page
    BY <1>2 DEF Next
  <2> QED
    BY <1>2, <2>1 DEF ReportInv, ReportTypes, reportVars, IsEntry
<1>3. CASE UNCHANGED vars
  BY <1>3 DEF ReportInv, ReportTypes, ReportWire, Loading, IsEntry, vars, wireVars, reportVars
<1> QED
  BY <1>1, <1>2, <1>3 DEF Next

LEMMA ReportsAtRest ==
  ASSUME ReportInv
  PROVE  AtRest /\ page = "reports" => ~Loading
BY DEF ReportInv, ReportWire, AtRest

-----------------------------------------------------------------------------
(* The bell.                                                               *)

NoticeLists == [listed : SUBSET Notices, marked : SUBSET Notices, unread : Nat]

NoticeCalls ==
  [kind : {"count"}, stage : Stages, answer : {None} \cup Nat, of : {None},
   alone : BOOLEAN]
  \cup [kind : {"notices"}, stage : Stages, answer : {None} \cup NoticeLists,
        of : {None}, alone : BOOLEAN]
  \cup [kind : {"readAll"}, stage : Stages, answer : {None, "done"}, of : {None},
        alone : BOOLEAN]
  \cup [kind : {"read", "dismiss"}, stage : Stages, answer : {None, "done"},
        of : Notices, alone : BOOLEAN]

BellTypes ==
  /\ inbox \in [Notices -> {"none", "unread", "read", "gone"}]
  /\ badge \in Nat
  /\ open \in BOOLEAN /\ fetching \in BOOLEAN
  /\ listed \subseteq Notices /\ marked \subseteq listed
  /\ countSound \in BOOLEAN /\ listSound \in BOOLEAN

IsAct(c) == c.kind \in {"read", "readAll", "dismiss"}

\* The server may have carried out what the bell does not display yet.
Pending == \E j \in DOMAIN calls : IsAct(calls[j]) /\ calls[j].stage # "sent"

AloneMeansOnly == \A j \in DOMAIN calls : calls[j].alone => DOMAIN calls = {j}

BadgeSound == countSound /\ ~Pending => badge = Cardinality(Unread)

ListSound ==
  listSound /\ ~Pending => listed \subseteq Present /\ marked = listed \ Unread

\* The bell once it displays what call c has done.
ReadTook(c) ==
  /\ listSound => /\ c.of \in listed /\ listed \subseteq Present
                  /\ c.of \notin Unread /\ marked = listed \ (Unread \cup {c.of})
  /\ listSound /\ countSound => badge = Cardinality(Unread) + 1

ReadAllTook == Unread = {} /\ (listSound => listed \subseteq Present)

DismissTook(c) ==
  /\ listSound => /\ listed \ {c.of} \subseteq Present
                  /\ marked \ {c.of} = (listed \ {c.of}) \ Unread
  /\ listSound /\ countSound =>
       badge = IF c.of \in listed \ marked THEN Cardinality(Unread) + 1
               ELSE Cardinality(Unread)

\* What is known of a call while nothing else is under way.
AloneTakes(c) ==
  /\ c.kind = "count" /\ c.stage = "done" => c.answer = Cardinality(Unread)
  /\ c.kind = "notices" /\ c.stage = "done" =>
       c.answer = [listed |-> Present, marked |-> Present \ Unread,
                   unread |-> Cardinality(Unread)]
  /\ c.kind = "read" /\ c.stage = "sent" => c.of \in listed \ marked
  /\ c.kind = "dismiss" /\ c.stage = "sent" => c.of \in listed
  /\ c.kind = "read" /\ c.stage = "done" => ReadTook(c)
  /\ c.kind = "readAll" /\ c.stage = "done" => ReadAllTook
  /\ c.kind = "dismiss" /\ c.stage = "done" => DismissTook(c)

AnswersTyped ==
  \A j \in DOMAIN calls : calls[j].stage = "done" =>
    /\ calls[j].kind = "count" => calls[j].answer \in Nat
    /\ calls[j].kind = "notices" =>
         /\ calls[j].answer \in NoticeLists
         /\ calls[j].answer.marked \subseteq calls[j].answer.listed

AloneSound == \A j \in DOMAIN calls : calls[j].alone => AloneTakes(calls[j])

FetchAwaited == fetching => \E j \in DOMAIN calls : calls[j].kind = "notices"

BellWire ==
  /\ calls \in Seq(NoticeCalls)
  /\ AloneMeansOnly /\ BadgeSound /\ ListSound /\ AnswersTyped /\ AloneSound
  /\ FetchAwaited

BellInv == BellTypes /\ (page = "bell" => BellWire)

\* d is the call c at another stage, or no longer alone.
SameNotice(c, d) == d.kind = c.kind /\ d.of = c.of

LEMMA NoticesFinite ==
  /\ IsFiniteSet(Notices) /\ IsFiniteSet(Unread) /\ Cardinality(Unread) \in Nat
  /\ Unread \subseteq Notices /\ Present \subseteq Notices /\ Unread \subseteq Present
<1>1. IsFiniteSet(Notices)
  BY BellAssumption, FS_Interval DEF Notices
<1>2. Unread \subseteq Notices /\ Present \subseteq Notices /\ Unread \subseteq Present
  BY DEF Unread, Present
<1> QED
  BY <1>1, <1>2, FS_Subset, FS_CardinalityType

LEMMA OneUnreadLess ==
  ASSUME NEW x \in Unread
  PROVE  Cardinality(Unread) = Cardinality(Unread \ {x}) + 1
<1>1. Cardinality(Unread \ {x}) = Cardinality(Unread) - 1
  BY NoticesFinite, FS_RemoveElement
<1> QED
  BY <1>1, NoticesFinite

\* Nothing the bell keeps changes.
LEMMA BellUnchanged ==
  ASSUME BellWire, UNCHANGED <<inbox, badge, listed, marked, fetching, countSound,
                               listSound, calls>>
  PROVE  BellWire'
<1>1. Unread' = Unread /\ Present' = Present
  BY DEF Unread, Present
<1>2. Pending' <=> Pending
  BY DEF Pending
<1>3. AloneMeansOnly' /\ AnswersTyped'
  BY DEF BellWire, AloneMeansOnly, AnswersTyped
<1>4. BadgeSound' /\ ListSound'
  BY <1>1, <1>2 DEF BellWire, BadgeSound, ListSound
<1>5. FetchAwaited'
  BY DEF BellWire, FetchAwaited
<1>6. AloneSound'
  <2> SUFFICES ASSUME NEW j \in DOMAIN calls, calls[j].alone
               PROVE  AloneTakes(calls[j])'
    BY DEF AloneSound
  <2>1. AloneTakes(calls[j])
    BY DEF BellWire, AloneSound
  <2> QED
    BY <2>1, <1>1 DEF AloneTakes, ReadTook, ReadAllTook, DismissTook
<1> QED
  BY <1>3, <1>4, <1>5, <1>6 DEF BellWire

LEMMA NoticeIs ==
  ASSUME calls \in Seq(NoticeCalls), NEW i \in DOMAIN calls
  PROVE  /\ calls[i].kind \in {"count", "notices", "read", "readAll", "dismiss"}
         /\ calls[i].stage \in Stages
         /\ calls[i].alone \in BOOLEAN
         /\ calls[i].kind \in {"read", "dismiss"} => calls[i].of \in Notices
<1>1. calls[i] \in NoticeCalls
  OBVIOUS
<1> QED
  BY <1>1 DEF NoticeCalls

\* A call that is answered.
LEMMA NoticeAnswered ==
  ASSUME calls \in Seq(NoticeCalls), NEW i \in DOMAIN calls, NEW a,
         Answered(i, a),
         \/ calls[i].kind = "count" /\ a \in Nat
         \/ calls[i].kind = "notices" /\ a \in NoticeLists
         \/ IsAct(calls[i]) /\ a = "done"
  PROVE  /\ calls' \in Seq(NoticeCalls)
         /\ Moved(i) /\ SameNotice(calls[i], calls'[i])
         /\ calls'[i].stage = "done" /\ calls'[i].answer = a
         /\ calls'[i].alone = calls[i].alone
<1> DEFINE d == [[calls[i] EXCEPT !.stage = "done"] EXCEPT !.answer = a]
<1>1. calls[i] \in NoticeCalls
  OBVIOUS
<1>2. /\ d \in NoticeCalls /\ SameNotice(calls[i], d) /\ d.stage = "done" /\ d.answer = a
      /\ d.alone = calls[i].alone
  BY <1>1 DEF NoticeCalls, Stages, SameNotice, IsAct
<1>3. calls' = [calls EXCEPT ![i] = d]
  BY DEF Answered
<1> HIDE DEF d
<1> QED
  BY <1>2, <1>3 DEF Moved

\* A call that fails.
LEMMA NoticeLost ==
  ASSUME calls \in Seq(NoticeCalls), NEW i \in DOMAIN calls,
         calls' = [calls EXCEPT ![i].stage = "failed"]
  PROVE  /\ calls' \in Seq(NoticeCalls)
         /\ Moved(i) /\ SameNotice(calls[i], calls'[i])
         /\ calls'[i].stage = "failed" /\ calls'[i].alone = calls[i].alone
<1> DEFINE d == [calls[i] EXCEPT !.stage = "failed"]
<1>1. calls[i] \in NoticeCalls
  OBVIOUS
<1>2. d \in NoticeCalls /\ SameNotice(calls[i], d) /\ d.stage = "failed" /\ d.alone = calls[i].alone
  BY <1>1 DEF NoticeCalls, Stages, SameNotice
<1>3. calls' = [calls EXCEPT ![i] = d]
  OBVIOUS
<1> HIDE DEF d
<1> QED
  BY <1>2, <1>3 DEF Moved

\* The calls on the wire when another one is made, or something else happens.
Disturbed == [k \in DOMAIN calls |-> [calls[k] EXCEPT !.alone = FALSE]]

LEMMA DisturbedIs ==
  ASSUME calls \in Seq(NoticeCalls)
  PROVE  /\ Disturbed \in Seq(NoticeCalls)
         /\ DOMAIN Disturbed = DOMAIN calls /\ Len(Disturbed) = Len(calls)
         /\ \A k \in DOMAIN calls :
              /\ SameNotice(calls[k], Disturbed[k])
              /\ Disturbed[k].stage = calls[k].stage /\ Disturbed[k].answer = calls[k].answer
              /\ Disturbed[k].alone = FALSE
<1>1. ASSUME NEW k \in DOMAIN calls
      PROVE  LET d == [calls[k] EXCEPT !.alone = FALSE] IN
             /\ d \in NoticeCalls
             /\ SameNotice(calls[k], d) /\ d.stage = calls[k].stage
             /\ d.answer = calls[k].answer /\ d.alone = FALSE
  <2>1. calls[k] \in NoticeCalls
    OBVIOUS
  <2> QED
    BY <2>1 DEF NoticeCalls, SameNotice
<1>2. DOMAIN calls = 1 .. Len(calls) /\ Len(calls) \in Nat
  OBVIOUS
<1>3. \A k \in DOMAIN calls : Disturbed[k] = [calls[k] EXCEPT !.alone = FALSE]
  BY DEF Disturbed
<1>4. \A k \in 1 .. Len(calls) : Disturbed[k] \in NoticeCalls
  BY <1>1, <1>2, <1>3
<1>5. Disturbed = [k \in 1 .. Len(calls) |-> Disturbed[k]]
  BY <1>2 DEF Disturbed
<1>6. Disturbed \in Seq(NoticeCalls) /\ DOMAIN Disturbed = 1 .. Len(calls) /\ Len(Disturbed) = Len(calls)
  <2> DEFINE d == Disturbed
             n == Len(calls)
  <2> HIDE DEF d, n
  <2>1. n \in Nat /\ d = [k \in 1 .. n |-> d[k]] /\ \A k \in 1 .. n : d[k] \in NoticeCalls
    BY <1>2, <1>4, <1>5 DEF d, n
  <2>2. [k \in 1 .. n |-> d[k]] \in Seq(NoticeCalls) /\ DOMAIN d = 1 .. n
    BY <2>1
  <2>3. d \in Seq(NoticeCalls)
    BY <2>1, <2>2
  <2> QED
    BY <2>1, <2>2, <2>3 DEF d, n
<1> QED
  BY <1>1, <1>2, <1>3, <1>6

\* A call is made.
LEMMA CallingIs ==
  ASSUME calls \in Seq(NoticeCalls), NEW kind, NEW n,
         \/ kind \in {"count", "notices", "readAll"} /\ n = None
         \/ kind \in {"read", "dismiss"} /\ n \in Notices,
         calls' = Calling(calls, kind, n)
  PROVE  /\ calls' \in Seq(NoticeCalls)
         /\ DOMAIN calls' = DOMAIN calls \cup {Len(calls) + 1}
         /\ Len(calls) + 1 \notin DOMAIN calls
         /\ \A k \in DOMAIN calls :
              /\ SameNotice(calls[k], calls'[k])
              /\ calls'[k].stage = calls[k].stage /\ calls'[k].answer = calls[k].answer
              /\ calls'[k].alone = FALSE
         /\ LET c == calls'[Len(calls) + 1] IN
            /\ c.kind = kind /\ c.stage = "sent" /\ c.of = n
            /\ c.alone = (calls = <<>>)
<1> DEFINE c == [kind |-> kind, stage |-> "sent", answer |-> None, of |-> n,
                 alone |-> calls = <<>>]
<1>1. calls' = Append(Disturbed, c)
  BY DEF Calling, Disturbed
<1>2. /\ c \in NoticeCalls /\ c.kind = kind /\ c.stage = "sent" /\ c.of = n
      /\ c.alone = (calls = <<>>)
  BY DEF NoticeCalls, Stages
<1> HIDE DEF c
<1>3. /\ calls' \in Seq(NoticeCalls)
      /\ Len(calls') = Len(Disturbed) + 1
      /\ \A k \in 1 .. Len(Disturbed) : calls'[k] = Disturbed[k]
      /\ calls'[Len(Disturbed) + 1] = c
  BY <1>1, <1>2, DisturbedIs, AppendProperties
<1>4. Len(calls) \in Nat /\ DOMAIN calls = 1 .. Len(calls) /\ Len(Disturbed) = Len(calls)
  BY DisturbedIs
<1>5. DOMAIN calls' = 1 .. Len(calls) + 1
  BY <1>3, <1>4
<1>6. /\ DOMAIN calls' = DOMAIN calls \cup {Len(calls) + 1}
      /\ Len(calls) + 1 \notin DOMAIN calls
  BY <1>4, <1>5
<1> QED
  BY <1>2, <1>3, <1>4, <1>6, DisturbedIs

\* A step of a call that leaves the bell alone.
LEMMA BellMovedStep ==
  ASSUME BellTypes, BellWire, NEW i \in DOMAIN calls, UNCHANGED bellVars,
         calls' \in Seq(NoticeCalls), Moved(i), SameNotice(calls[i], calls'[i]),
         calls'[i].alone = calls[i].alone, calls'[i].stage # "sent",
         \/ calls'[i].stage = "failed"
         \/ /\ ~IsAct(calls[i]) /\ AloneTakes(calls'[i])
            /\ calls[i].kind = "count" => calls'[i].answer \in Nat
            /\ calls[i].kind = "notices" =>
                 /\ calls'[i].answer \in NoticeLists
                 /\ calls'[i].answer.marked \subseteq calls'[i].answer.listed
  PROVE  BellTypes' /\ BellWire'
<1>1. Unread' = Unread /\ Present' = Present
  BY DEF Unread, Present, bellVars
<1>2. BellTypes'
  BY DEF BellTypes, bellVars
<1>3. Pending => Pending'
  BY DEF Pending, Moved, SameNotice, IsAct
<1>4. AloneMeansOnly'
  BY DEF BellWire, AloneMeansOnly, Moved
<1>5. BadgeSound' /\ ListSound'
  BY <1>1, <1>3 DEF BellWire, BadgeSound, ListSound, bellVars
<1>6. AnswersTyped'
  BY DEF BellWire, AnswersTyped, Moved, SameNotice
<1>7. \A c : AloneTakes(c) => AloneTakes(c)'
  BY <1>1 DEF AloneTakes, ReadTook, ReadAllTook, DismissTook, bellVars
<1>8. calls'[i].stage = "failed" => AloneTakes(calls'[i])
  BY DEF AloneTakes
<1>9. ASSUME NEW j \in DOMAIN calls, calls'[j].alone PROVE AloneTakes(calls'[j])
  <2>1. CASE j = i
    BY <2>1, <1>8
  <2>2. CASE j # i
    BY <2>2, <1>9 DEF BellWire, AloneSound, Moved
  <2> QED
    BY <2>1, <2>2
<1>10. AloneSound'
  <2>1. \A j \in DOMAIN calls' : calls'[j].alone => AloneTakes(calls'[j])
    BY <1>9 DEF Moved
  <2> HIDE DEF AloneTakes
  <2>2. ASSUME NEW j \in DOMAIN calls', calls'[j].alone
        PROVE  AloneTakes(calls[j])'
    <3>1. AloneTakes(calls'[j])
      BY <2>1, <2>2
    <3> QED
      BY <3>1, <1>1 DEF AloneTakes, ReadTook, ReadAllTook, DismissTook, bellVars
  <2> QED
    BY <2>2 DEF AloneSound
<1>11. FetchAwaited'
  BY DEF BellWire, FetchAwaited, Moved, SameNotice, bellVars
<1> QED
  BY <1>2, <1>4, <1>5, <1>6, <1>10, <1>11 DEF BellWire

LEMMA ServeCountStep ==
  ASSUME BellTypes, BellWire, NEW i \in DOMAIN calls, ServeCount(i)
  PROVE  BellTypes' /\ BellWire'
<1>1. /\ calls[i].kind = "count" /\ calls \in Seq(NoticeCalls) /\ ~IsAct(calls[i])
      /\ Answered(i, Cardinality(Unread)) /\ UNCHANGED bellVars
  BY DEF BellWire, ServeCount, Stage, IsAct
<1>2. /\ calls' \in Seq(NoticeCalls)
      /\ Moved(i) /\ SameNotice(calls[i], calls'[i])
      /\ calls'[i].stage = "done" /\ calls'[i].answer = Cardinality(Unread)
      /\ calls'[i].alone = calls[i].alone
  BY <1>1, NoticesFinite, NoticeAnswered
<1>3. AloneTakes(calls'[i]) /\ calls'[i].answer \in Nat
  BY <1>1, <1>2, NoticesFinite DEF AloneTakes, SameNotice
<1> QED
  BY <1>1, <1>2, <1>3, BellMovedStep

LEMMA ServeNoticesStep ==
  ASSUME BellTypes, BellWire, NEW i \in DOMAIN calls, ServeNotices(i)
  PROVE  BellTypes' /\ BellWire'
<1> DEFINE a == [listed |-> Present, marked |-> Present \ Unread,
                 unread |-> Cardinality(Unread)]
<1>1. /\ calls[i].kind = "notices" /\ calls \in Seq(NoticeCalls) /\ ~IsAct(calls[i])
      /\ Answered(i, a) /\ UNCHANGED bellVars
  BY DEF BellWire, ServeNotices, Stage, IsAct
<1>2. a \in NoticeLists /\ a.marked \subseteq a.listed
  BY NoticesFinite DEF NoticeLists
<1> HIDE DEF a
<1>3. /\ calls' \in Seq(NoticeCalls)
      /\ Moved(i) /\ SameNotice(calls[i], calls'[i])
      /\ calls'[i].stage = "done" /\ calls'[i].answer = a
      /\ calls'[i].alone = calls[i].alone
  BY <1>1, <1>2, NoticeAnswered
<1>4. AloneTakes(calls'[i])
  BY <1>1, <1>3 DEF AloneTakes, SameNotice, a
<1> QED
  BY <1>1, <1>2, <1>3, <1>4, BellMovedStep

LEMMA BellFailedStep ==
  ASSUME BellTypes, BellWire, NEW i \in DOMAIN calls,
         calls' = [calls EXCEPT ![i].stage = "failed"], UNCHANGED bellVars
  PROVE  BellTypes' /\ BellWire'
<1>1. calls \in Seq(NoticeCalls)
  BY DEF BellWire
<1>2. /\ calls' \in Seq(NoticeCalls)
      /\ Moved(i) /\ SameNotice(calls[i], calls'[i])
      /\ calls'[i].stage = "failed" /\ calls'[i].alone = calls[i].alone
  BY <1>1, NoticeLost
<1> QED
  BY <1>1, <1>2, BellMovedStep

\* The inbox after the server has carried out an act.
LEMMA ServeNoticeStep ==
  ASSUME BellTypes, BellWire, NEW i \in DOMAIN calls, ServeNotice(i)
  PROVE  BellTypes' /\ BellWire'
<1> DEFINE c == calls[i]
<1>0. /\ calls \in Seq(NoticeCalls) /\ IsAct(c) /\ c.stage = "sent"
      /\ UNCHANGED <<badge, open, listed, marked, fetching, countSound, listSound>>
  BY DEF BellWire, ServeNotice, IsAct
<1>1. CASE c.kind # "readAll" /\ c.of \notin Present
  <2>1. calls' = [calls EXCEPT ![i].stage = "failed"] /\ UNCHANGED bellVars
    BY <1>0, <1>1 DEF ServeNotice, bellVars
  <2> QED
    BY <2>1, BellFailedStep
<1>2. CASE ~(c.kind # "readAll" /\ c.of \notin Present)
  <2>1. /\ Answered(i, "done")
        /\ inbox' = [n \in Notices |->
               IF c.kind = "readAll"
               THEN IF inbox[n] = "unread" THEN "read" ELSE inbox[n]
               ELSE IF n # c.of THEN inbox[n]
               ELSE IF c.kind = "read" THEN "read" ELSE "gone"]
    BY <1>2 DEF ServeNotice
  <2>2. /\ calls' \in Seq(NoticeCalls)
        /\ Moved(i) /\ SameNotice(c, calls'[i])
        /\ calls'[i].stage = "done" /\ calls'[i].answer = "done"
        /\ calls'[i].alone = c.alone
    BY <1>0, <2>1, NoticeAnswered
  <2>3. c.kind \in {"read", "readAll", "dismiss"} /\ (c.kind # "readAll" => c.of \in Notices /\ c.of \in Present)
    BY <1>0, <1>2, NoticeIs DEF IsAct
  <2> HIDE DEF c
  <2>4. BellTypes'
    BY <1>0, <2>1, <2>3 DEF BellTypes
  <2>5. Pending'
    BY <1>0, <2>2 DEF Pending, Moved, SameNotice, IsAct, c
  <2>6. AloneMeansOnly'
    BY <2>2 DEF BellWire, AloneMeansOnly, Moved, c
  <2>7. BadgeSound' /\ ListSound'
    BY <2>5 DEF BadgeSound, ListSound
  <2>8. AnswersTyped'
    BY <1>0, <2>2 DEF BellWire, AnswersTyped, Moved, SameNotice, IsAct, c
  <2>9. FetchAwaited'
    BY <1>0, <2>2 DEF BellWire, FetchAwaited, Moved, SameNotice, c
  <2>10. \A j \in DOMAIN calls' : calls'[j].alone => j = i /\ c.alone
    BY <2>2 DEF BellWire, AloneMeansOnly, Moved, c
  <2>11. ASSUME c.alone PROVE AloneTakes(calls[i])'
    <3>1. DOMAIN calls = {i} /\ AloneTakes(c)
      BY <2>11 DEF BellWire, AloneMeansOnly, AloneSound, c
    <3>2. ~Pending
      BY <1>0, <3>1 DEF Pending, c
    <3>3. /\ countSound => badge = Cardinality(Unread)
          /\ listSound => listed \subseteq Present /\ marked = listed \ Unread
      BY <3>2 DEF BellWire, BadgeSound, ListSound
    <3>4. /\ calls'[i].kind = c.kind /\ calls'[i].of = c.of /\ calls'[i].stage = "done"
          /\ listed' = listed /\ marked' = marked /\ badge' = badge
          /\ listSound' = listSound /\ countSound' = countSound
      BY <1>0, <2>2 DEF SameNotice
    <3>5. CASE c.kind = "readAll"
      <4>1. \A n \in Notices : inbox'[n] = IF inbox[n] = "unread" THEN "read" ELSE inbox[n]
        BY <2>1, <3>5
      <4>2. Unread' = {} /\ Present' = Present
        BY <4>1 DEF Unread, Present
      <4> QED
        BY <3>3, <3>4, <3>5, <4>2 DEF AloneTakes, ReadAllTook
    <3>6. CASE c.kind = "read"
      <4>1. \A n \in Notices : inbox'[n] = IF n = c.of THEN "read" ELSE inbox[n]
        BY <2>1, <3>6
      <4>2. c.of \in listed \ marked
        BY <1>0, <3>1, <3>6 DEF AloneTakes
      <4>3. Unread' = Unread \ {c.of} /\ Present' = Present
        BY <4>1, <2>3, <3>6 DEF Unread, Present
      <4>4. listSound => c.of \in Unread
        BY <3>3, <4>2
      <4>5. c.of \in Unread => Cardinality(Unread) = Cardinality(Unread') + 1
        BY <4>3, OneUnreadLess
      <4>6. ReadTook(c)'
        BY <3>3, <3>4, <4>2, <4>3, <4>4, <4>5 DEF ReadTook, c
      <4> QED
        BY <3>4, <3>6, <4>6 DEF AloneTakes, ReadTook, c
    <3>7. CASE c.kind = "dismiss"
      <4>1. \A n \in Notices : inbox'[n] = IF n = c.of THEN "gone" ELSE inbox[n]
        BY <2>1, <3>7
      <4>2. c.of \in listed
        BY <1>0, <3>1, <3>7 DEF AloneTakes
      <4>3. Unread' = Unread \ {c.of} /\ Present' = Present \ {c.of}
        BY <4>1, <2>3, <3>7 DEF Unread, Present
      <4>4. listSound => (c.of \in Unread <=> c.of \in listed \ marked)
        BY <3>3, <4>2
      <4>5. /\ c.of \in Unread => Cardinality(Unread) = Cardinality(Unread') + 1
            /\ c.of \notin Unread => Unread' = Unread
        BY <4>3, OneUnreadLess
      <4>6. listSound => /\ listed \ {c.of} \subseteq Present'
                         /\ marked \ {c.of} = (listed \ {c.of}) \ Unread'
        BY <3>3, <4>3
      <4>7. DismissTook(c)'
        BY <3>3, <3>4, <4>4, <4>5, <4>6 DEF DismissTook, c
      <4> QED
        BY <3>4, <3>7, <4>7 DEF AloneTakes, DismissTook, c
    <3> QED
      BY <2>3, <3>5, <3>6, <3>7
  <2>12. AloneSound'
    BY <2>10, <2>11 DEF AloneSound
  <2> QED
    BY <2>2, <2>4, <2>6, <2>7, <2>8, <2>9, <2>12 DEF BellWire
<1> QED
  BY <1>1, <1>2

LEMMA ChangedElsewhereStep ==
  ASSUME BellTypes, BellWire, NEW n \in Notices, ChangedElsewhere(n)
  PROVE  BellTypes' /\ BellWire'
<1>0. calls \in Seq(NoticeCalls)
  BY DEF BellWire
<1>1. PICK state \in {"unread", "read", "gone"} : inbox' = [inbox EXCEPT ![n] = state]
  BY DEF ChangedElsewhere
<1>2. /\ calls' = Disturbed /\ countSound' = FALSE
      /\ listSound' = (listSound /\ n \notin listed)
      /\ UNCHANGED <<badge, open, listed, marked, fetching>>
  BY DEF ChangedElsewhere, Disturbed
<1>3. BellTypes'
  BY <1>1, <1>2 DEF BellTypes
<1>4. /\ calls' \in Seq(NoticeCalls) /\ DOMAIN calls' = DOMAIN calls
      /\ \A k \in DOMAIN calls :
           /\ SameNotice(calls[k], calls'[k])
           /\ calls'[k].stage = calls[k].stage /\ calls'[k].answer = calls[k].answer
           /\ calls'[k].alone = FALSE
  BY <1>0, <1>2, DisturbedIs
<1>5. Pending' <=> Pending
  BY <1>4 DEF Pending, IsAct, SameNotice
<1>6. \A m \in Notices : m # n => (m \in Unread' <=> m \in Unread) /\ (m \in Present' <=> m \in Present)
  BY <1>1 DEF BellTypes, Unread, Present
<1>7. BadgeSound'
  BY <1>2 DEF BadgeSound
<1>8. ListSound'
  <2> SUFFICES ASSUME listSound, n \notin listed, ~Pending
               PROVE  listed \subseteq Present' /\ marked = listed \ Unread'
    BY <1>2, <1>5 DEF ListSound
  <2>1. listed \subseteq Present /\ marked = listed \ Unread /\ listed \subseteq Notices
    BY DEF BellWire, BellTypes, ListSound
  <2> QED
    BY <2>1, <1>6
<1>9. AloneMeansOnly' /\ AloneSound'
  BY <1>4 DEF AloneMeansOnly, AloneSound
<1>10. AnswersTyped' /\ FetchAwaited'
  BY <1>2, <1>4 DEF BellWire, AnswersTyped, FetchAwaited, SameNotice
<1> QED
  BY <1>3, <1>4, <1>7, <1>8, <1>9, <1>10 DEF BellWire

\* The bell makes a call.
LEMMA BellCalledStep ==
  ASSUME BellTypes, BellWire, NEW kind, NEW n, calls' = Calling(calls, kind, n),
         \/ kind \in {"count", "notices", "readAll"} /\ n = None
         \/ kind = "read" /\ n \in Notices /\ n \in listed \ marked
         \/ kind = "dismiss" /\ n \in Notices /\ n \in listed,
         UNCHANGED <<inbox, badge, listed, marked, countSound, listSound>>,
         open' \in BOOLEAN,
         fetching' = fetching \/ (kind = "notices" /\ fetching' = TRUE)
  PROVE  BellTypes' /\ BellWire'
<1> DEFINE new == Len(calls) + 1
<1>0. calls \in Seq(NoticeCalls)
  BY DEF BellWire
<1>1. /\ calls' \in Seq(NoticeCalls)
      /\ DOMAIN calls' = DOMAIN calls \cup {new}
      /\ new \notin DOMAIN calls
      /\ \A k \in DOMAIN calls :
           /\ SameNotice(calls[k], calls'[k])
           /\ calls'[k].stage = calls[k].stage /\ calls'[k].answer = calls[k].answer
           /\ calls'[k].alone = FALSE
      /\ calls'[new].kind = kind /\ calls'[new].stage = "sent" /\ calls'[new].of = n
      /\ calls'[new].alone = (calls = <<>>)
  BY <1>0, CallingIs
<1>2. calls = <<>> => DOMAIN calls = {}
  OBVIOUS
<1> HIDE DEF new
<1>3. BellTypes'
  BY DEF BellTypes
<1>4. Unread' = Unread /\ Present' = Present
  BY DEF Unread, Present
<1>5. Pending' <=> Pending
  BY <1>1 DEF Pending, IsAct, SameNotice
<1>6. BadgeSound' /\ ListSound'
  BY <1>4, <1>5 DEF BellWire, BadgeSound, ListSound
<1>7. AloneMeansOnly'
  BY <1>1, <1>2 DEF AloneMeansOnly
<1>8. AnswersTyped'
  BY <1>1 DEF BellWire, AnswersTyped, SameNotice
<1>9. AloneSound'
  BY <1>1 DEF AloneSound, AloneTakes
<1>10. FetchAwaited'
  BY <1>1 DEF BellWire, FetchAwaited, SameNotice
<1> QED
  BY <1>1, <1>3, <1>6, <1>7, <1>8, <1>9, <1>10 DEF BellWire

\* What a handler leaves on the wire.
LEMMA BellHandled ==
  ASSUME BellWire, NEW i \in DOMAIN calls, Handled(i, <<>>)
  PROVE  /\ calls' \in Seq(NoticeCalls) /\ AloneMeansOnly' /\ AnswersTyped' /\ AloneSound'
         /\ calls[i].alone => ~Pending'
         /\ ~IsAct(calls[i]) /\ Pending => Pending'
         /\ calls[i].kind # "notices" /\ (\E j \in DOMAIN calls : calls[j].kind = "notices")
              => \E j \in DOMAIN calls' : calls'[j].kind = "notices"
<1>0. calls \in Seq(NoticeCalls)
  BY DEF BellWire
<1>1. calls' \in Seq(NoticeCalls) /\ Made(calls', calls, DOMAIN calls \ {i}, {})
  BY <1>0, HandledMade
<1>2. \A k \in DOMAIN calls' : \E j \in DOMAIN calls : j # i /\ calls'[k] = calls[j]
  BY <1>1 DEF Made
<1>3. \A j \in DOMAIN calls : j # i => \E k \in DOMAIN calls' : calls'[k] = calls[j]
  BY <1>1 DEF Made
<1>4. \A k \in DOMAIN calls' : ~calls'[k].alone
  BY <1>2 DEF BellWire, AloneMeansOnly
<1>5. AloneMeansOnly' /\ AloneSound'
  BY <1>4 DEF AloneMeansOnly, AloneSound
<1>6. AnswersTyped'
  BY <1>2 DEF BellWire, AnswersTyped
<1>7. calls[i].alone => ~Pending'
  BY <1>2 DEF BellWire, AloneMeansOnly, Pending
<1>8. ~IsAct(calls[i]) /\ Pending => Pending'
  BY <1>3 DEF Pending
<1> QED
  BY <1>1, <1>3, <1>5, <1>6, <1>7, <1>8

LEMMA CountDoneStep ==
  ASSUME BellTypes, BellWire, NEW i \in DOMAIN calls, CountDone(i)
  PROVE  BellTypes' /\ BellWire'
<1> DEFINE c == calls[i]
<1>0. /\ calls \in Seq(NoticeCalls) /\ Handled(i, <<>>)
      /\ c.kind = "count" /\ c.stage = "done"
      /\ badge' = c.answer /\ countSound' = c.alone
      /\ UNCHANGED <<inbox, open, listed, marked, fetching, listSound>>
  BY DEF BellWire, CountDone, Stage, Sound
<1>1. /\ calls' \in Seq(NoticeCalls) /\ AloneMeansOnly' /\ AnswersTyped' /\ AloneSound'
      /\ c.alone => ~Pending'
      /\ ~IsAct(c) /\ Pending => Pending'
      /\ c.kind # "notices" /\ (\E j \in DOMAIN calls : calls[j].kind = "notices")
           => \E j \in DOMAIN calls' : calls'[j].kind = "notices"
  BY <1>0, BellHandled
<1>2. c.alone \in BOOLEAN /\ (c.alone => AloneTakes(c))
  BY <1>0, NoticeIs DEF BellWire, AloneSound
<1>3. Unread' = Unread /\ Present' = Present
  BY <1>0 DEF Unread, Present
<1>t. BellTypes'
  BY <1>0, <1>2 DEF BellTypes, BellWire, AnswersTyped
<1>b. BadgeSound'
  BY <1>0, <1>2, <1>3 DEF BadgeSound, AloneTakes
<1>l. ListSound'
  BY <1>0, <1>1, <1>3 DEF BellWire, ListSound, IsAct
<1>f. FetchAwaited'
  BY <1>0, <1>1 DEF BellWire, FetchAwaited
<1> QED
  BY <1>1, <1>t, <1>b, <1>l, <1>f DEF BellWire

LEMMA NoticesDoneStep ==
  ASSUME BellTypes, BellWire, NEW i \in DOMAIN calls, NoticesDone(i)
  PROVE  BellTypes' /\ BellWire'
<1> DEFINE c == calls[i]
<1>0. /\ calls \in Seq(NoticeCalls) /\ Handled(i, <<>>)
      /\ c.kind = "notices" /\ c.stage = "done"
      /\ listed' = c.answer.listed /\ marked' = c.answer.marked /\ badge' = c.answer.unread
      /\ fetching' = FALSE /\ countSound' = c.alone /\ listSound' = c.alone
      /\ UNCHANGED <<inbox, open>>
  BY DEF BellWire, NoticesDone, Stage, Sound
<1>1. /\ calls' \in Seq(NoticeCalls) /\ AloneMeansOnly' /\ AnswersTyped' /\ AloneSound'
      /\ c.alone => ~Pending'
      /\ ~IsAct(c) /\ Pending => Pending'
      /\ c.kind # "notices" /\ (\E j \in DOMAIN calls : calls[j].kind = "notices")
           => \E j \in DOMAIN calls' : calls'[j].kind = "notices"
  BY <1>0, BellHandled
<1>2. c.alone \in BOOLEAN /\ (c.alone => AloneTakes(c))
  BY <1>0, NoticeIs DEF BellWire, AloneSound
<1>3. Unread' = Unread /\ Present' = Present
  BY <1>0 DEF Unread, Present
<1>t. BellTypes'
  <2>1. c.answer \in NoticeLists /\ c.answer.marked \subseteq c.answer.listed
    BY <1>0 DEF BellWire, AnswersTyped
  <2> QED
    BY <1>0, <1>2, <2>1 DEF BellTypes, NoticeLists
<1>4. c.alone => /\ listed' = Present /\ marked' = Present \ Unread
                 /\ badge' = Cardinality(Unread)
  BY <1>0, <1>2 DEF AloneTakes
<1>b. BadgeSound'
  BY <1>0, <1>3, <1>4 DEF BadgeSound
<1>l. ListSound'
  BY <1>0, <1>3, <1>4 DEF ListSound
<1>f. FetchAwaited'
  BY <1>0 DEF FetchAwaited
<1> QED
  BY <1>1, <1>t, <1>b, <1>l, <1>f DEF BellWire

LEMMA ReadDoneStep ==
  ASSUME BellTypes, BellWire, NEW i \in DOMAIN calls, ReadDone(i)
  PROVE  BellTypes' /\ BellWire'
<1> DEFINE c == calls[i]
<1>0. /\ calls \in Seq(NoticeCalls) /\ Handled(i, <<>>)
      /\ c.kind = "read" /\ c.stage = "done"
      /\ marked' = marked \cup (listed \cap {c.of}) /\ badge' = Less(badge) /\ open' = FALSE
      /\ countSound' = (countSound /\ listSound /\ c.alone) /\ listSound' = (listSound /\ c.alone)
      /\ UNCHANGED <<inbox, listed, fetching>>
  BY DEF BellWire, ReadDone, Stage, Sound
<1>1. /\ calls' \in Seq(NoticeCalls) /\ AloneMeansOnly' /\ AnswersTyped' /\ AloneSound'
      /\ c.alone => ~Pending'
      /\ ~IsAct(c) /\ Pending => Pending'
      /\ c.kind # "notices" /\ (\E j \in DOMAIN calls : calls[j].kind = "notices")
           => \E j \in DOMAIN calls' : calls'[j].kind = "notices"
  BY <1>0, BellHandled
<1>2. c.alone \in BOOLEAN /\ (c.alone => AloneTakes(c))
  BY <1>0, NoticeIs DEF BellWire, AloneSound
<1>3. Unread' = Unread /\ Present' = Present
  BY <1>0 DEF Unread, Present
<1>t. BellTypes'
  <2>1. badge' \in Nat
    BY <1>0 DEF BellTypes, Less
  <2>2. listed' \subseteq Notices /\ marked' \subseteq listed'
    BY <1>0 DEF BellTypes
  <2>3. countSound' \in BOOLEAN /\ listSound' \in BOOLEAN
    BY <1>0
  <2> QED
    BY <1>0, <2>1, <2>2, <2>3 DEF BellTypes
<1>4. c.alone => ReadTook(c)
  BY <1>0, <1>2 DEF AloneTakes
<1>b. BadgeSound'
  <2> SUFFICES ASSUME countSound' PROVE badge' = Cardinality(Unread)
    BY <1>3 DEF BadgeSound
  <2>1. badge = Cardinality(Unread) + 1
    BY <1>0, <1>4 DEF ReadTook
  <2> QED
    BY <1>0, <2>1, NoticesFinite DEF Less
<1>l. ListSound'
  BY <1>0, <1>3, <1>4 DEF ListSound, ReadTook
<1>f. FetchAwaited'
  BY <1>0, <1>1 DEF BellWire, FetchAwaited
<1> QED
  BY <1>1, <1>t, <1>b, <1>l, <1>f DEF BellWire

LEMMA ReadAllDoneStep ==
  ASSUME BellTypes, BellWire, NEW i \in DOMAIN calls, ReadAllDone(i)
  PROVE  BellTypes' /\ BellWire'
<1> DEFINE c == calls[i]
<1>0. /\ calls \in Seq(NoticeCalls) /\ Handled(i, <<>>)
      /\ c.kind = "readAll" /\ c.stage = "done"
      /\ marked' = listed /\ badge' = 0
      /\ countSound' = (countSound /\ listSound /\ c.alone) /\ listSound' = (listSound /\ c.alone)
      /\ UNCHANGED <<inbox, open, listed, fetching>>
  BY DEF BellWire, ReadAllDone, Stage, Sound
<1>1. /\ calls' \in Seq(NoticeCalls) /\ AloneMeansOnly' /\ AnswersTyped' /\ AloneSound'
      /\ c.alone => ~Pending'
      /\ ~IsAct(c) /\ Pending => Pending'
      /\ c.kind # "notices" /\ (\E j \in DOMAIN calls : calls[j].kind = "notices")
           => \E j \in DOMAIN calls' : calls'[j].kind = "notices"
  BY <1>0, BellHandled
<1>2. c.alone \in BOOLEAN /\ (c.alone => AloneTakes(c))
  BY <1>0, NoticeIs DEF BellWire, AloneSound
<1>3. Unread' = Unread /\ Present' = Present
  BY <1>0 DEF Unread, Present
<1>t. BellTypes'
  BY <1>0, <1>2 DEF BellTypes
<1>4. c.alone => ReadAllTook
  BY <1>0, <1>2 DEF AloneTakes
<1>b. BadgeSound'
  BY <1>0, <1>3, <1>4, FS_EmptySet DEF BadgeSound, ReadAllTook
<1>l. ListSound'
  BY <1>0, <1>3, <1>4 DEF ListSound, ReadAllTook
<1>f. FetchAwaited'
  BY <1>0, <1>1 DEF BellWire, FetchAwaited
<1> QED
  BY <1>1, <1>t, <1>b, <1>l, <1>f DEF BellWire

LEMMA DismissDoneStep ==
  ASSUME BellTypes, BellWire, NEW i \in DOMAIN calls, DismissDone(i)
  PROVE  BellTypes' /\ BellWire'
<1> DEFINE c == calls[i]
<1>0. /\ calls \in Seq(NoticeCalls) /\ Handled(i, <<>>)
      /\ c.kind = "dismiss" /\ c.stage = "done"
      /\ badge' = (IF c.of \in listed \ marked THEN Less(badge) ELSE badge)
      /\ listed' = listed \ {c.of} /\ marked' = marked \ {c.of}
      /\ countSound' = (countSound /\ listSound /\ c.alone) /\ listSound' = (listSound /\ c.alone)
      /\ UNCHANGED <<inbox, open, fetching>>
  BY DEF BellWire, DismissDone, Counts, Stage, Sound
<1>1. /\ calls' \in Seq(NoticeCalls) /\ AloneMeansOnly' /\ AnswersTyped' /\ AloneSound'
      /\ c.alone => ~Pending'
      /\ ~IsAct(c) /\ Pending => Pending'
      /\ c.kind # "notices" /\ (\E j \in DOMAIN calls : calls[j].kind = "notices")
           => \E j \in DOMAIN calls' : calls'[j].kind = "notices"
  BY <1>0, BellHandled
<1>2. c.alone \in BOOLEAN /\ (c.alone => AloneTakes(c))
  BY <1>0, NoticeIs DEF BellWire, AloneSound
<1>3. Unread' = Unread /\ Present' = Present
  BY <1>0 DEF Unread, Present
<1>t. BellTypes'
  BY <1>0, <1>2 DEF BellTypes, Less
<1>4. c.alone => DismissTook(c)
  BY <1>0, <1>2 DEF AloneTakes
<1>b. BadgeSound'
  <2> SUFFICES ASSUME countSound' PROVE badge' = Cardinality(Unread)
    BY <1>3 DEF BadgeSound
  <2>1. badge = IF c.of \in listed \ marked THEN Cardinality(Unread) + 1
                ELSE Cardinality(Unread)
    BY <1>0, <1>4 DEF DismissTook
  <2> QED
    BY <1>0, <2>1, NoticesFinite DEF Less
<1>l. ListSound'
  BY <1>0, <1>3, <1>4 DEF ListSound, DismissTook
<1>f. FetchAwaited'
  BY <1>0, <1>1 DEF BellWire, FetchAwaited
<1> QED
  BY <1>1, <1>t, <1>b, <1>l, <1>f DEF BellWire

LEMMA NoticeFailedStep ==
  ASSUME BellTypes, BellWire, NEW i \in DOMAIN calls, NoticeFailed(i)
  PROVE  BellTypes' /\ BellWire'
<1> DEFINE c == calls[i]
<1>0. /\ calls \in Seq(NoticeCalls) /\ Handled(i, <<>>)
      /\ c.stage = "failed" /\ open' = (open /\ c.kind # "read")
      /\ fetching' = (fetching /\ c.kind # "notices")
      /\ countSound' = (countSound /\ c.kind \in {"count", "notices"})
      /\ listSound' = (listSound /\ c.kind \in {"count", "notices"})
      /\ UNCHANGED <<inbox, badge, listed, marked>>
  BY DEF BellWire, NoticeFailed, Stage, Sound
<1>1. /\ calls' \in Seq(NoticeCalls) /\ AloneMeansOnly' /\ AnswersTyped' /\ AloneSound'
      /\ c.alone => ~Pending'
      /\ ~IsAct(c) /\ Pending => Pending'
      /\ c.kind # "notices" /\ (\E j \in DOMAIN calls : calls[j].kind = "notices")
           => \E j \in DOMAIN calls' : calls'[j].kind = "notices"
  BY <1>0, BellHandled
<1>2. c.alone \in BOOLEAN /\ (c.alone => AloneTakes(c))
  BY <1>0, NoticeIs DEF BellWire, AloneSound
<1>3. Unread' = Unread /\ Present' = Present
  BY <1>0 DEF Unread, Present
<1>t. BellTypes'
  BY <1>0, <1>2 DEF BellTypes
<1>b. BadgeSound'
  BY <1>0, <1>1, <1>3 DEF BellWire, BadgeSound, IsAct
<1>l. ListSound'
  BY <1>0, <1>1, <1>3 DEF BellWire, ListSound, IsAct
<1>f. FetchAwaited'
  BY <1>0, <1>1 DEF BellWire, FetchAwaited
<1> QED
  BY <1>1, <1>t, <1>b, <1>l, <1>f DEF BellWire

LEMMA BellStep ==
  ASSUME BellInv, page = "bell", BellNext
  PROVE  BellTypes' /\ BellWire'
<1>0. BellTypes /\ BellWire
  BY DEF BellInv
<1>1. ASSUME NEW i \in DOMAIN calls,
             \/ ServeCount(i) \/ ServeNotices(i) \/ ServeNotice(i)
             \/ Lost(i) /\ UNCHANGED bellVars
      PROVE  BellTypes' /\ BellWire'
  BY <1>0, <1>1, ServeCountStep, ServeNoticesStep, ServeNoticeStep, BellFailedStep DEF Lost
<1>2. ASSUME NEW i \in DOMAIN calls,
             \/ CountDone(i) \/ NoticesDone(i)
             \/ ReadDone(i) \/ ReadAllDone(i) \/ DismissDone(i) \/ NoticeFailed(i)
      PROVE  BellTypes' /\ BellWire'
  BY <1>0, <1>2, CountDoneStep, NoticesDoneStep, ReadDoneStep, ReadAllDoneStep,
     DismissDoneStep, NoticeFailedStep
<1>3. ASSUME NEW n \in Notices, ChangedElsewhere(n)
      PROVE  BellTypes' /\ BellWire'
  BY <1>0, <1>3, ChangedElsewhereStep
<1>4. ASSUME NEW n \in Notices, Click(n)
      PROVE  BellTypes' /\ BellWire'
  <2>1. UNCHANGED <<inbox, badge, listed, marked, fetching, countSound, listSound>>
        /\ n \in listed /\ open' \in BOOLEAN
    BY <1>0, <1>4 DEF Click, Clickable, BellTypes
  <2>2. CASE n \in marked
    <3>1. UNCHANGED calls
      BY <1>4, <2>2 DEF Click
    <3>2. BellTypes'
      BY <1>0, <2>1 DEF BellTypes
    <3>3. BellWire'
      BY <1>0, <2>1, <3>1, BellUnchanged
    <3> QED
      BY <3>2, <3>3
  <2>3. CASE n \notin marked
    <3>1. calls' = Calling(calls, "read", n)
      BY <1>4, <2>3 DEF Click
    <3> QED
      BY <1>0, <2>1, <2>3, <3>1, BellCalledStep
  <2> QED
    BY <2>2, <2>3
<1>5. ASSUME NEW n \in Notices, Dismiss(n)
      PROVE  BellTypes' /\ BellWire'
  <2>1. /\ calls' = Calling(calls, "dismiss", n) /\ UNCHANGED bellVars /\ n \in listed
        /\ open' \in BOOLEAN
    BY <1>0, <1>5 DEF Dismiss, Clickable, bellVars, BellTypes
  <2> QED
    BY <1>0, <2>1, BellCalledStep DEF bellVars
<1>6. ASSUME Poll PROVE BellTypes' /\ BellWire'
  <2>1. calls' = Calling(calls, "count", None) /\ UNCHANGED bellVars /\ open' \in BOOLEAN
    BY <1>0, <1>6 DEF Poll, bellVars, BellTypes
  <2> QED
    BY <1>0, <2>1, BellCalledStep DEF bellVars
<1>7. ASSUME MarkAll PROVE BellTypes' /\ BellWire'
  <2>1. calls' = Calling(calls, "readAll", None) /\ UNCHANGED bellVars /\ open' \in BOOLEAN
    BY <1>0, <1>7 DEF MarkAll, bellVars, BellTypes
  <2> QED
    BY <1>0, <2>1, BellCalledStep DEF bellVars
<1>8. ASSUME Toggle PROVE BellTypes' /\ BellWire'
  <2>1. UNCHANGED <<inbox, badge, listed, marked, countSound, listSound>> /\ open' \in BOOLEAN
    BY <1>0, <1>8 DEF Toggle, BellTypes
  <2>2. CASE open
    <3>1. UNCHANGED <<calls, fetching>>
      BY <1>8, <2>2 DEF Toggle
    <3>2. BellTypes'
      BY <1>0, <2>1, <3>1 DEF BellTypes
    <3>3. BellWire'
      BY <1>0, <2>1, <3>1, BellUnchanged
    <3> QED
      BY <3>2, <3>3
  <2>3. CASE ~open
    <3>1. calls' = Calling(calls, "notices", None) /\ fetching' = TRUE
      BY <1>8, <2>3 DEF Toggle
    <3> QED
      BY <1>0, <2>1, <3>1, BellCalledStep
  <2> QED
    BY <2>2, <2>3
<1> QED
  BY <1>1, <1>2, <1>3, <1>4, <1>5, <1>6, <1>7, <1>8 DEF BellNext

LEMMA BellInvInit == Init => BellInv
<1> SUFFICES ASSUME Init PROVE BellInv
  OBVIOUS
<1>1. BellTypes
  BY DEF Init, BellInit, BellTypes
<1>2. ASSUME page = "bell" PROVE BellWire
  <2> DEFINE c == [kind |-> "count", stage |-> "sent", answer |-> None, of |-> None,
                   alone |-> TRUE]
  <2>1. calls = Append([k \in DOMAIN <<>> |-> [<<>>[k] EXCEPT !.alone = FALSE]],
                       [kind |-> "count", stage |-> "sent", answer |-> None,
                        of |-> None, alone |-> <<>> = <<>>])
    BY <1>2 DEF Init, Mount, Calling
  <2>2. [k \in DOMAIN <<>> |-> [<<>>[k] EXCEPT !.alone = FALSE]] = <<>>
    OBVIOUS
  <2>3. calls = <<c>>
    <3>1. (<<>> = <<>>) = TRUE
      OBVIOUS
    <3>2. calls = Append(<<>>, c)
      BY <2>1, <2>2, <3>1
    <3> QED
      BY <3>2
  <2>4. c \in NoticeCalls /\ c.kind = "count" /\ c.stage = "sent"
    BY DEF NoticeCalls, Stages
  <2> HIDE DEF c
  <2>5. calls \in Seq(NoticeCalls) /\ DOMAIN calls = {1} /\ calls[1] = c
    BY <2>3, <2>4
  <2>6. fetching = FALSE /\ countSound = FALSE /\ listed = {} /\ marked = {}
    BY DEF Init, BellInit
  <2>7. AloneMeansOnly
    BY <2>5 DEF AloneMeansOnly
  <2>8. BadgeSound /\ ListSound
    BY <2>6 DEF BadgeSound, ListSound
  <2>9. AnswersTyped /\ AloneSound /\ FetchAwaited
    BY <2>4, <2>5, <2>6 DEF AnswersTyped, AloneSound, AloneTakes, FetchAwaited
  <2> QED
    BY <2>5, <2>7, <2>8, <2>9 DEF BellWire
<1> QED
  BY <1>1, <1>2 DEF BellInv

LEMMA BellInvKept == BellInv /\ [Next]_vars => BellInv'
<1> SUFFICES ASSUME BellInv, [Next]_vars PROVE BellInv'
  OBVIOUS
<1>1. CASE page = "bell" /\ Next /\ BellNext
  BY <1>1, BellStep DEF BellInv
<1>2. CASE page # "bell" /\ Next
  <2>1. UNCHANGED bellVars /\ page' = page
    BY <1>2 DEF Next
  <2> QED
    BY <1>2, <2>1 DEF BellInv, BellTypes, bellVars
<1>3. CASE UNCHANGED vars
  <2>1. UNCHANGED <<page, calls>> /\ UNCHANGED bellVars
    BY <1>3 DEF vars, wireVars
  <2>2. BellTypes'
    BY <2>1 DEF BellInv, BellTypes, bellVars
  <2>3. page = "bell" => BellWire'
    BY <2>1, BellUnchanged DEF BellInv, bellVars
  <2> QED
    BY <2>1, <2>2, <2>3 DEF BellInv
<1> QED
  BY <1>1, <1>2, <1>3 DEF Next

LEMMA BellAtRest ==
  ASSUME BellInv
  PROVE  BellSettles /\ (AtRest /\ page = "bell" => ~fetching)
<1>1. AtRest => DOMAIN calls = {}
  BY DEF AtRest
<1> QED
  BY <1>1 DEF BellInv, BellWire, BellTypes, BellSettles, BadgeSound, ListSound, Pending,
     FetchAwaited

-----------------------------------------------------------------------------
(* The transactions page.                                                  *)

Filters == {"all", "picked"}

Tables == [rows : SUBSET (1 .. NumRows), pages : Nat, filter : {None} \cup Filters,
           number : Nat, at : Nat]

WizardStates ==
  [life : Nat, step : {"closed", "upload", "map", "preview", "result"},
   named : {None} \cup DOMAIN Files, file : {None} \cup DOMAIN Files,
   submitting : BOOLEAN]

TableCalls ==
  [kind : {"table"}, stage : Stages, answer : {None} \cup Tables,
   filter : Filters, number : Nat]
  \cup [kind : {"accounts"}, stage : Stages, answer : {None} \cup Nat]
  \cup [kind : {"delete"}, stage : Stages, answer : {None} \cup Nat,
        row : {None} \cup 1 .. NumRows]
  \cup [kind : {"file"}, stage : Stages, answer : {None}, file : DOMAIN Files,
        life : Nat]
  \cup [kind : {"import"}, stage : Stages, answer : {None} \cup Nat,
        file : DOMAIN Files, named : {None} \cup DOMAIN Files, life : Nat]

TableTypes ==
  /\ stored \subseteq 1 .. NumRows
  /\ writes \in Nat /\ due \in Nat /\ balances \in Nat
  /\ filter \in Filters /\ pageNo \in Nat \ {0}
  /\ table \in Tables
  /\ tableError \in BOOLEAN /\ tableLoading \in BOOLEAN /\ accountsError \in BOOLEAN
  /\ overtaken \in BOOLEAN /\ strayed \in BOOLEAN /\ crossed \in BOOLEAN
  /\ deleting \in {None} \cup 1 .. NumRows
  /\ wizard \in WizardStates

\* An answer for what is selected, from after every write the page reported.
AnswerSound(a) ==
  /\ a \in Tables
  /\ a.filter = filter /\ a.number = pageNo
  /\ due <= a.at /\ a.at <= writes
  /\ a.at = writes => a = Slice(filter, pageNo)

FetchSound(c) ==
  /\ c.filter = filter /\ c.number = pageNo
  /\ c.stage = "done" => AnswerSound(c.answer)

FetchesSelected ==
  \A j \in DOMAIN calls : calls[j].kind = "table" => FetchSound(calls[j])

ListAwaited ==
  \/ \E j \in DOMAIN calls : calls[j].kind = "table"
  \/ /\ ~tableLoading
     /\ \/ tableError
        \/ table.filter = filter /\ table.number = pageNo /\ due <= table.at

TableSound ==
  /\ due <= writes /\ table.at <= writes
  /\ table.number = 0 => table.pages = 0
  /\ table.number # 0 /\ table.at = writes =>
       table = Slice(table.filter, table.number)

PageExists ==
  \/ strayed
  \/ pageNo = 1
  \/ (pageNo - 1) * PageSize < Cardinality(Matching(filter))

WriteKinds == {"accounts", "delete", "import"}

AnswersKnown ==
  \A j \in DOMAIN calls :
    calls[j].kind \in WriteKinds /\ calls[j].stage = "done" =>
      calls[j].answer \in Nat /\ calls[j].answer <= writes

BalancesAwaited ==
  \/ accountsError \/ overtaken \/ due <= balances
  \/ \E j \in DOMAIN calls :
       calls[j].kind = "accounts" /\ (calls[j].stage = "done" => due <= calls[j].answer)

WizardSound ==
  wizard.step \in {"map", "preview"} =>
    /\ wizard.file \in DOMAIN Files /\ Files[wizard.file] # {}
    /\ crossed \/ wizard.named = wizard.file

FilesSound ==
  /\ \A j \in DOMAIN calls :
       calls[j].kind = "file" => calls[j].life <= wizard.life
  /\ \/ crossed
     \/ /\ \A j, k \in DOMAIN calls :
             calls[j].kind = "file" /\ calls[k].kind = "file" => j = k
        /\ \A j \in DOMAIN calls :
             calls[j].kind = "file" /\ calls[j].life = wizard.life
               /\ wizard.step # "closed" => wizard.named = calls[j].file

ImportsNamed ==
  \A j \in DOMAIN calls :
    calls[j].kind = "import" => crossed \/ calls[j].named = calls[j].file

SubmitAwaited ==
  wizard.submitting =>
    /\ wizard.step # "closed"
    /\ \E j \in DOMAIN calls :
         calls[j].kind = "import" /\ calls[j].life = wizard.life

TableWire ==
  /\ calls \in Seq(TableCalls)
  /\ FetchesSelected /\ ListAwaited /\ TableSound /\ PageExists
  /\ AnswersKnown /\ BalancesAwaited
  /\ WizardSound /\ FilesSound /\ ImportsNamed /\ SubmitAwaited

TableInv == TableTypes /\ (page = "transactions" => TableWire)

LEMMA RowsFinite ==
  ASSUME TableTypes, NEW f
  PROVE  /\ IsFiniteSet(Matching(f)) /\ Cardinality(Matching(f)) \in Nat
         /\ Matching(f) \subseteq 1 .. NumRows /\ NumRows \in Nat
         /\ PageSize \in Nat \ {0}
<1>1. IsFiniteSet(1 .. NumRows)
  BY TableAssumption, FS_Interval
<1>2. Matching(f) \subseteq 1 .. NumRows
  BY DEF Matching, TableTypes
<1> QED
  BY <1>1, <1>2, FS_Subset, FS_CardinalityType, TableAssumption

\* The pages there are.
LEMMA PagesAre ==
  ASSUME NEW n \in Nat, NEW s \in Nat \ {0}, NEW p \in Nat
  PROVE  /\ (n + s - 1) \div s \in Nat
         /\ p < (n + s - 1) \div s => p * s < n
<1> DEFINE q == (n + s - 1) \div s
<1>1. n + s - 1 \in Nat /\ q \in Int /\ q * s <= n + s - 1 /\ n + s - 1 < (q + 1) * s
  OBVIOUS
<1>2. q >= 0
  <2> SUFFICES ASSUME q <= -1 PROVE FALSE
    BY <1>1
  <2>1. (q + 1) * s <= 0 * s
    BY <1>1
  <2> QED
    BY <1>1, <2>1
<1>3. ASSUME p < q PROVE p * s < n
  <2> HIDE DEF q
  <2>1. (p + 1) * s <= q * s
    BY <1>1, <1>3
  <2>2. (p + 1) * s = p * s + s /\ p * s \in Nat
    OBVIOUS
  <2>3. q * s \in Int
    BY <1>1
  <2> QED
    BY <1>1, <2>1, <2>2, <2>3
<1> QED
  BY <1>1, <1>2, <1>3

LEMMA SliceIs ==
  ASSUME TableTypes, NEW f \in Filters, NEW p \in Nat
  PROVE  /\ Slice(f, p) \in Tables
         /\ Slice(f, p).filter = f /\ Slice(f, p).number = p /\ Slice(f, p).at = writes
<1>1. (Cardinality(Matching(f)) + PageSize - 1) \div PageSize \in Nat
  BY RowsFinite, PagesAre
<1>2. \A r \in Matching(f) : r \in 1 .. NumRows
  BY RowsFinite
<1> QED
  BY <1>1, <1>2 DEF Slice, Tables, TableTypes

-----------------------------------------------------------------------------
(* What a step that does not concern a part of the page leaves of it.      *)

LEMMA FetchesKept ==
  ASSUME TableTypes, TableWire, NEW J \in SUBSET (DOMAIN calls), NEW N,
         Made(calls', calls, J, N),
         \A c \in N : c.kind = "table" => FetchSound(c)',
         UNCHANGED <<filter, pageNo, due>>,
         UNCHANGED <<stored, writes>> \/ writes' = writes + 1
  PROVE  FetchesSelected'
<1>1. \A k \in DOMAIN calls' : calls'[k] \in N \/ \E j \in DOMAIN calls : calls'[k] = calls[j]
  BY DEF Made
<1>2. ASSUME NEW c, c.kind = "table", FetchSound(c) PROVE FetchSound(c)'
  <2>1. UNCHANGED <<stored, writes>> => Slice(filter, pageNo)' = Slice(filter, pageNo)
    BY DEF Slice, Matching
  <2>2. ASSUME c.stage = "done" PROVE c.answer.at \in Nat /\ writes \in Nat
    BY <1>2, <2>2 DEF FetchSound, AnswerSound, Tables, TableTypes
  <2> QED
    BY <1>2, <2>1, <2>2 DEF FetchSound, AnswerSound
<1>3. \A c : c.kind = "table" /\ FetchSound(c) => FetchSound(c)'
  BY <1>2
<1> QED
  BY <1>1, <1>3 DEF TableWire, FetchesSelected

LEMMA ListKept ==
  ASSUME TableWire, NEW J \in SUBSET (DOMAIN calls), NEW N,
         Made(calls', calls, J, N),
         \/ \A j \in DOMAIN calls : calls[j].kind = "table" => j \in J
         \/ \E c \in N : c.kind = "table",
         UNCHANGED <<filter, pageNo, due, table, tableError, tableLoading>>
  PROVE  ListAwaited'
<1>1. CASE \A j \in DOMAIN calls : calls[j].kind = "table" => j \in J
  <2>1. \A j \in DOMAIN calls : calls[j].kind = "table" =>
          \E k \in DOMAIN calls' : calls'[k] = calls[j]
    BY <1>1 DEF Made
  <2> QED
    BY <2>1 DEF TableWire, ListAwaited
<1>2. CASE \E c \in N : c.kind = "table"
  BY <1>2 DEF Made, ListAwaited
<1> QED
  BY <1>1, <1>2

\* The list is fetched again, for what is selected now.
LEMMA FetchedAnew ==
  ASSUME NEW J \in SUBSET (DOMAIN calls), NEW N, Made(calls', calls, J, N),
         \A j \in J : calls[j].kind # "table",
         GetTable(filter', pageNo') \in N,
         \A c \in N : c.kind = "table" => c = GetTable(filter', pageNo')
  PROVE  FetchesSelected' /\ ListAwaited'
<1>1. \A k \in DOMAIN calls' : calls'[k].kind = "table" => calls'[k] = GetTable(filter', pageNo')
  BY DEF Made
<1>2. \E k \in DOMAIN calls' : calls'[k] = GetTable(filter', pageNo')
  BY DEF Made
<1> QED
  BY <1>1, <1>2 DEF FetchesSelected, FetchSound, ListAwaited, GetTable

LEMMA ShownKept ==
  ASSUME TableTypes, TableWire, UNCHANGED <<filter, pageNo, due, table>>,
         \/ UNCHANGED <<stored, writes, strayed>>
         \/ /\ stored' \subseteq 1 .. NumRows /\ writes' = writes + 1
            /\ strayed' = (strayed \/ Beyond')
  PROVE  TableSound' /\ PageExists'
<1>1. CASE UNCHANGED <<stored, writes, strayed>>
  <2>1. Slice(table.filter, table.number)' = Slice(table.filter, table.number)
    BY <1>1 DEF Slice, Matching
  <2>2. TableSound'
    BY <1>1, <2>1 DEF TableWire, TableSound
  <2>3. PageExists'
    BY <1>1 DEF TableWire, PageExists, Matching
  <2> QED
    BY <2>2, <2>3
<1>2. CASE /\ stored' \subseteq 1 .. NumRows /\ writes' = writes + 1
           /\ strayed' = (strayed \/ Beyond')
  <2>1. writes \in Nat /\ table.at \in Nat /\ due \in Nat
    BY DEF TableTypes, Tables
  <2>2. TableSound'
    BY <1>2, <2>1 DEF TableWire, TableSound
  <2>3. PageExists'
    <3>1. Cardinality(Matching(filter))' \in Nat /\ ((pageNo - 1) * PageSize)' \in Int
      <4> DEFINE B == Matching(filter)'
      <4>1. B \subseteq 1 .. NumRows
        BY <1>2 DEF Matching
      <4>2. IsFiniteSet(1 .. NumRows) /\ PageSize \in Int /\ pageNo' \in Int
        BY TableAssumption, FS_Interval DEF TableTypes
      <4> HIDE DEF B
      <4>3. Cardinality(B) \in Nat
        BY <4>1, <4>2, FS_Subset, FS_CardinalityType
      <4> QED
        BY <4>2, <4>3 DEF B
    <3> DEFINE n == Cardinality(Matching(filter))
               first == (pageNo - 1) * PageSize
    <3>2. strayed' \/ pageNo' = 1 \/ ~(n' <= first')
      BY <1>2 DEF Beyond
    <3>3. n' \in Nat /\ first' \in Int
      BY <3>1
    <3> HIDE DEF n, first
    <3>4. strayed' \/ pageNo' = 1 \/ first' < n'
      BY <3>2, <3>3
    <3> QED
      BY <3>4 DEF PageExists, n, first
  <2> QED
    BY <2>2, <2>3
<1> QED
  BY <1>1, <1>2

LEMMA AnswersKept ==
  ASSUME TableTypes, TableWire, NEW J \in SUBSET (DOMAIN calls), NEW N,
         Made(calls', calls, J, N), writes' = writes \/ writes' = writes + 1,
         \A c \in N : c.kind \in WriteKinds /\ c.stage = "done" =>
           c.answer \in Nat /\ c.answer <= writes'
  PROVE  AnswersKnown'
<1>1. writes \in Nat
  BY DEF TableTypes
<1>2. \A k \in DOMAIN calls' : calls'[k] \in N \/ \E j \in DOMAIN calls : calls'[k] = calls[j]
  BY DEF Made
<1> QED
  BY <1>1, <1>2 DEF TableWire, AnswersKnown

LEMMA BalancesKept ==
  ASSUME TableWire, NEW J \in SUBSET (DOMAIN calls), NEW N,
         Made(calls', calls, J, N),
         \/ /\ \A j \in DOMAIN calls : calls[j].kind = "accounts" => j \in J
            /\ UNCHANGED <<accountsError, overtaken, due, balances>>
         \/ /\ \E c \in N : c.kind = "accounts" /\ (c.stage = "done" => due' <= c.answer)
  PROVE  BalancesAwaited'
<1>1. CASE /\ \A j \in DOMAIN calls : calls[j].kind = "accounts" => j \in J
           /\ UNCHANGED <<accountsError, overtaken, due, balances>>
  <2>1. \A j \in DOMAIN calls : calls[j].kind = "accounts" =>
          \E k \in DOMAIN calls' : calls'[k] = calls[j]
    BY <1>1 DEF Made
  <2> QED
    BY <1>1, <2>1 DEF TableWire, BalancesAwaited
<1>2. CASE \E c \in N : c.kind = "accounts" /\ (c.stage = "done" => due' <= c.answer)
  BY <1>2 DEF Made, BalancesAwaited
<1> QED
  BY <1>1, <1>2

LEMMA WizardKept ==
  ASSUME TableWire, NEW J \in SUBSET (DOMAIN calls), NEW N,
         Made(calls', calls, J, N),
         \A j \in DOMAIN calls : calls[j].kind \in {"file", "import"} => j \in J,
         \A c \in N : c.kind \notin {"file", "import"},
         UNCHANGED <<wizard, crossed>>
  PROVE  WizardSound' /\ FilesSound' /\ ImportsNamed' /\ SubmitAwaited'
<1>1. \A k \in DOMAIN calls' : calls'[k].kind \in {"file", "import"} =>
        \E j \in DOMAIN calls : calls'[k] = calls[j]
  BY DEF Made
<1>2. \A j \in DOMAIN calls : calls[j].kind = "import" =>
        \E k \in DOMAIN calls' : calls'[k] = calls[j]
  BY DEF Made
<1>3. \A k, l \in DOMAIN calls' :
        k # l /\ calls'[k].kind = "file" /\ calls'[l].kind = "file" =>
          \E i, j \in DOMAIN calls : i # j /\ calls[i].kind = "file" /\ calls[j].kind = "file"
  BY DEF Made
<1>4. WizardSound'
  BY DEF TableWire, WizardSound
<1>5. FilesSound'
  BY <1>1, <1>3 DEF TableWire, FilesSound
<1>6. ImportsNamed'
  BY <1>1 DEF TableWire, ImportsNamed
<1>7. SubmitAwaited'
  BY <1>2 DEF TableWire, SubmitAwaited
<1> QED
  BY <1>4, <1>5, <1>6, <1>7

\* d is the call c at another stage.
SameCall(c, d) ==
  /\ d.kind = c.kind
  /\ c.kind = "table" => d.filter = c.filter /\ d.number = c.number
  /\ c.kind = "file" => d.file = c.file /\ d.life = c.life
  /\ c.kind = "import" => d.file = c.file /\ d.named = c.named /\ d.life = c.life

LEMMA TableKinds ==
  ASSUME calls \in Seq(TableCalls), NEW i \in DOMAIN calls
  PROVE  /\ calls[i].kind \in {"table", "accounts", "delete", "file", "import"}
         /\ calls[i].stage \in Stages
         /\ calls[i].kind = "table" => calls[i].filter \in Filters /\ calls[i].number \in Nat
         /\ calls[i].kind = "file" => calls[i].file \in DOMAIN Files /\ calls[i].life \in Nat
         /\ calls[i].kind = "import" => /\ calls[i].file \in DOMAIN Files /\ calls[i].life \in Nat
                                        /\ calls[i].named \in {None} \cup DOMAIN Files
<1>1. calls[i] \in TableCalls
  OBVIOUS
<1> QED
  BY <1>1 DEF TableCalls

LEMMA TableAnswered ==
  ASSUME calls \in Seq(TableCalls), NEW i \in DOMAIN calls, NEW a, Answered(i, a),
         \/ calls[i].kind = "table" /\ a \in Tables
         \/ calls[i].kind \in WriteKinds /\ a \in Nat
  PROVE  \E d \in TableCalls :
           /\ calls' \in Seq(TableCalls) /\ Made(calls', calls, DOMAIN calls \ {i}, {d})
           /\ SameCall(calls[i], d) /\ d.stage = "done" /\ d.answer = a
<1> DEFINE d == [[calls[i] EXCEPT !.stage = "done"] EXCEPT !.answer = a]
<1>1. calls[i] \in TableCalls
  OBVIOUS
<1>2. d \in TableCalls /\ SameCall(calls[i], d) /\ d.stage = "done" /\ d.answer = a
  BY <1>1 DEF TableCalls, Stages, SameCall, WriteKinds
<1>3. calls' = [calls EXCEPT ![i] = d]
  BY DEF Answered
<1> HIDE DEF d
<1>4. calls' \in Seq(TableCalls) /\ Made(calls', calls, DOMAIN calls \ {i}, {d})
  BY <1>2, <1>3, ReplacedMade
<1> QED
  BY <1>2, <1>4

LEMMA TableLost ==
  ASSUME calls \in Seq(TableCalls), NEW i \in DOMAIN calls,
         calls' = [calls EXCEPT ![i].stage = "failed"]
  PROVE  \E d \in TableCalls :
           /\ calls' \in Seq(TableCalls) /\ Made(calls', calls, DOMAIN calls \ {i}, {d})
           /\ SameCall(calls[i], d) /\ d.stage = "failed"
<1> DEFINE d == [calls[i] EXCEPT !.stage = "failed"]
<1>1. calls[i] \in TableCalls
  OBVIOUS
<1>2. d \in TableCalls /\ SameCall(calls[i], d) /\ d.stage = "failed"
  BY <1>1 DEF TableCalls, Stages, SameCall
<1>3. calls' = [calls EXCEPT ![i] = d]
  OBVIOUS
<1> HIDE DEF d
<1>4. calls' \in Seq(TableCalls) /\ Made(calls', calls, DOMAIN calls \ {i}, {d})
  BY <1>2, <1>3, ReplacedMade
<1> QED
  BY <1>2, <1>4

WizardParts == WizardSound /\ FilesSound /\ ImportsNamed /\ SubmitAwaited

LEMMA WizardMoved ==
  ASSUME TableWire, NEW i \in DOMAIN calls, NEW d,
         Made(calls', calls, DOMAIN calls \ {i}, {d}), SameCall(calls[i], d),
         UNCHANGED <<wizard, crossed>>
  PROVE  WizardParts'
<1>1. \A k \in DOMAIN calls' : calls'[k] = d \/ \E j \in DOMAIN calls : calls'[k] = calls[j]
  BY DEF Made
<1>2. \A j \in DOMAIN calls : \E k \in DOMAIN calls' : calls'[k] = calls[j] \/ (j = i /\ calls'[k] = d)
  BY DEF Made
<1>3. \A k, l \in DOMAIN calls' :
        k # l /\ calls'[k].kind = "file" /\ calls'[l].kind = "file" =>
          \E m, j \in DOMAIN calls : m # j /\ calls[m].kind = "file" /\ calls[j].kind = "file"
  BY DEF Made, SameCall
<1>4. WizardSound'
  BY DEF TableWire, WizardSound
<1>5. FilesSound'
  <2>1. \A k \in DOMAIN calls' : calls'[k].kind = "file" =>
          \E j \in DOMAIN calls : /\ calls[j].kind = "file" /\ calls'[k].life = calls[j].life
                                  /\ calls'[k].file = calls[j].file
    BY <1>1 DEF SameCall
  <2> QED
    BY <2>1, <1>3 DEF TableWire, FilesSound
<1>6. ImportsNamed'
  BY <1>1 DEF TableWire, ImportsNamed, SameCall
<1>7. SubmitAwaited'
  BY <1>2 DEF TableWire, SubmitAwaited, SameCall
<1> QED
  BY <1>4, <1>5, <1>6, <1>7 DEF WizardParts

\* A call is carried out or lost.
LEMMA TableMovedStep ==
  ASSUME TableTypes, TableWire, NEW i \in DOMAIN calls, NEW d \in TableCalls,
         calls' \in Seq(TableCalls), Made(calls', calls, DOMAIN calls \ {i}, {d}),
         SameCall(calls[i], d), d.stage \in {"done", "failed"},
         UNCHANGED <<filter, pageNo, table, tableError, tableLoading, deleting, balances,
                     accountsError, wizard, due, overtaken, crossed>>,
         \/ UNCHANGED <<stored, writes, strayed>>
         \/ /\ stored' \subseteq 1 .. NumRows /\ writes' = writes + 1
            /\ strayed' = (strayed \/ Beyond')
            /\ d.kind # "table",
         d.kind = "table" /\ d.stage = "done" => AnswerSound(d.answer),
         d.kind \in WriteKinds /\ d.stage = "done" => d.answer = writes'
  PROVE  TableTypes' /\ TableWire'
<1>1. TableTypes'
  <2>1. strayed' \in BOOLEAN
    BY DEF TableTypes
  <2>2. stored' \subseteq 1 .. NumRows
    BY DEF TableTypes
  <2>3. writes \in Nat /\ (writes' = writes \/ writes' = writes + 1)
    BY DEF TableTypes
  <2>4. writes' \in Nat
    BY <2>3
  <2> QED
    BY <2>1, <2>2, <2>4 DEF TableTypes
<1>2. writes' \in Nat /\ due <= writes' /\ (writes' = writes \/ writes' = writes + 1)
  BY DEF TableTypes, TableWire, TableSound
<1>3. d.kind = "table" => FetchSound(d)'
  <2> SUFFICES ASSUME d.kind = "table" PROVE FetchSound(d)'
    OBVIOUS
  <2>1. UNCHANGED <<stored, writes>> /\ d.filter = filter /\ d.number = pageNo
    BY DEF SameCall, TableWire, FetchesSelected, FetchSound
  <2>2. Slice(filter, pageNo)' = Slice(filter, pageNo)
    BY <2>1 DEF Slice, Matching
  <2> QED
    BY <2>1, <2>2 DEF FetchSound, AnswerSound
<1>4. FetchesSelected'
  BY <1>3, FetchesKept
<1>5. ListAwaited'
  <2>1. \/ \A j \in DOMAIN calls : calls[j].kind = "table" => j \in DOMAIN calls \ {i}
        \/ \E c \in {d} : c.kind = "table"
    BY DEF SameCall
  <2> QED
    BY <2>1, ListKept
<1>6. TableSound' /\ PageExists'
  BY ShownKept
<1>7. AnswersKnown'
  BY <1>2, AnswersKept
<1>8. BalancesAwaited'
  <2>1. \/ \A j \in DOMAIN calls : calls[j].kind = "accounts" => j \in DOMAIN calls \ {i}
        \/ \E c \in {d} : c.kind = "accounts" /\ (c.stage = "done" => due' <= c.answer)
    BY <1>2 DEF SameCall, WriteKinds
  <2> QED
    BY <2>1, BalancesKept
<1>9. WizardParts'
  BY WizardMoved
<1> QED
  BY <1>1, <1>4, <1>5, <1>6, <1>7, <1>8, <1>9 DEF TableWire, WizardParts

LEMMA TableServedStep ==
  ASSUME TableTypes, TableWire, NEW i \in DOMAIN calls,
         \/ ServeTable(i) \/ ServeAccounts(i) \/ ServeDelete(i) \/ ServeImport(i)
         \/ Lost(i) /\ UNCHANGED tableVars
  PROVE  TableTypes' /\ TableWire'
<1> DEFINE c == calls[i]
<1>0. calls \in Seq(TableCalls) /\ writes \in Nat /\ due <= writes
  BY DEF TableWire, TableSound, TableTypes
<1>1. CASE ServeTable(i)
  <2>1. /\ c.kind = "table" /\ c.filter = filter /\ c.number = pageNo
        /\ filter \in Filters /\ pageNo \in Nat
    BY <1>1 DEF ServeTable, Stage, TableWire, FetchesSelected, FetchSound, TableTypes
  <2>2. Answered(i, Slice(filter, pageNo)) /\ UNCHANGED tableVars
    BY <1>1, <2>1 DEF ServeTable
  <2>3. AnswerSound(Slice(filter, pageNo)) /\ Slice(filter, pageNo) \in Tables
    BY <1>0, <2>1, SliceIs DEF AnswerSound
  <2>4. PICK d \in TableCalls :
          /\ calls' \in Seq(TableCalls) /\ Made(calls', calls, DOMAIN calls \ {i}, {d})
          /\ SameCall(c, d) /\ d.stage = "done" /\ d.answer = Slice(filter, pageNo)
    BY <1>0, <2>1, <2>2, <2>3, TableAnswered
  <2>5. d.kind = "table" /\ d.kind \notin WriteKinds
    BY <2>1, <2>4 DEF SameCall, WriteKinds
  <2> HIDE DEF c
  <2> QED
    BY <2>2, <2>3, <2>4, <2>5, TableMovedStep DEF tableVars, c
<1>2. CASE ServeAccounts(i)
  <2>1. c.kind = "accounts" /\ Answered(i, writes) /\ UNCHANGED tableVars
    BY <1>2 DEF ServeAccounts, Stage
  <2>2. PICK d \in TableCalls :
          /\ calls' \in Seq(TableCalls) /\ Made(calls', calls, DOMAIN calls \ {i}, {d})
          /\ SameCall(c, d) /\ d.stage = "done" /\ d.answer = writes
    BY <1>0, <2>1, TableAnswered DEF WriteKinds
  <2>3. d.kind # "table"
    BY <2>1, <2>2 DEF SameCall
  <2> QED
    BY <2>1, <2>2, <2>3, TableMovedStep DEF tableVars
<1>3. ASSUME NEW rows, StoredBecomes(rows), rows \subseteq 1 .. NumRows, Answered(i, writes'),
             c.kind \in {"delete", "import"}
      PROVE  TableTypes' /\ TableWire'
  <2>1. /\ \/ UNCHANGED <<stored, writes, strayed>>
           \/ /\ stored' \subseteq 1 .. NumRows /\ writes' = writes + 1
              /\ strayed' = (strayed \/ Beyond')
        /\ UNCHANGED <<filter, pageNo, table, tableError, tableLoading, deleting, balances,
                       accountsError, wizard, due, overtaken, crossed>>
    <3>1. CASE rows = stored
      <4>1. /\ UNCHANGED <<stored, writes, filter, pageNo>>
            /\ strayed' = (strayed \/ Beyond')
        BY <1>3, <3>1 DEF StoredBecomes
      <4>2. Beyond' = Beyond
        BY <4>1 DEF Beyond, Matching
      <4>3. Cardinality(Matching(filter)) \in Nat /\ (pageNo - 1) * PageSize \in Int
        BY RowsFinite DEF TableTypes
      <4> DEFINE n == Cardinality(Matching(filter))
                 first == (pageNo - 1) * PageSize
      <4>4. n \in Nat /\ first \in Int
        BY <4>3
      <4>5. strayed \/ pageNo = 1 \/ first < n
        BY DEF TableWire, PageExists
      <4> HIDE DEF n, first
      <4>6. strayed \/ pageNo = 1 \/ ~(n <= first)
        BY <4>4, <4>5
      <4>7. strayed \/ ~Beyond
        BY <4>6 DEF Beyond, n, first
      <4>8. strayed' = strayed
        BY <4>1, <4>2, <4>7 DEF TableTypes
      <4> QED
        BY <1>3, <4>1, <4>8 DEF StoredBecomes
    <3>2. CASE rows # stored
      BY <1>3, <3>2 DEF StoredBecomes
    <3> QED
      BY <3>1, <3>2
  <2>2. writes' \in Nat
    BY <1>0, <2>1
  <2>3. PICK d \in TableCalls :
          /\ calls' \in Seq(TableCalls) /\ Made(calls', calls, DOMAIN calls \ {i}, {d})
          /\ SameCall(c, d) /\ d.stage = "done" /\ d.answer = writes'
    BY <1>0, <1>3, <2>2, TableAnswered DEF WriteKinds
  <2>4. d.kind # "table"
    BY <1>3, <2>3 DEF SameCall
  <2> QED
    BY <2>1, <2>3, <2>4, TableMovedStep
<1>4. ASSUME calls' = [calls EXCEPT ![i].stage = "failed"], UNCHANGED tableVars
      PROVE  TableTypes' /\ TableWire'
  <2>1. PICK d \in TableCalls :
          /\ calls' \in Seq(TableCalls) /\ Made(calls', calls, DOMAIN calls \ {i}, {d})
          /\ SameCall(c, d) /\ d.stage = "failed"
    BY <1>0, <1>4, TableLost
  <2> QED
    BY <1>4, <2>1, TableMovedStep DEF tableVars
<1>5. CASE ServeDelete(i)
  <2>1. CASE c.row \in stored
    <3>1. StoredBecomes(stored \ {c.row}) /\ Answered(i, writes') /\ c.kind = "delete"
      BY <1>5, <2>1 DEF ServeDelete, Stage
    <3>2. stored \ {c.row} \subseteq 1 .. NumRows
      BY DEF TableTypes
    <3> QED
      BY <3>1, <3>2, <1>3
  <2>2. CASE c.row \notin stored
    BY <1>4, <1>5, <2>2 DEF ServeDelete
  <2> QED
    BY <2>1, <2>2
<1>6. CASE ServeImport(i)
  <2>1. /\ c.kind = "import" /\ StoredBecomes(stored \cup Files[c.file])
        /\ Answered(i, writes')
    BY <1>6 DEF ServeImport, Stage
  <2>2. stored \cup Files[c.file] \subseteq 1 .. NumRows
    BY <1>0, <2>1, TableKinds, TableAssumption DEF TableTypes
  <2> QED
    BY <2>1, <2>2, <1>3
<1> QED
  BY <1>1, <1>2, <1>4, <1>5, <1>6 DEF Lost

-----------------------------------------------------------------------------
(* Steps that leave the wire alone.                                        *)

LEMMA TableUnmade ==
  ASSUME TableWire, UNCHANGED calls
  PROVE  /\ calls' \in Seq(TableCalls) /\ Made(calls', calls, DOMAIN calls, {})
         /\ DOMAIN calls \in SUBSET (DOMAIN calls)
BY MadeAlready DEF TableWire

LEMMA RowElsewhereStep ==
  ASSUME TableTypes, TableWire, NEW r \in 1 .. NumRows, RowElsewhere(r)
  PROVE  TableTypes' /\ TableWire'
<1>0. /\ calls' \in Seq(TableCalls) /\ Made(calls', calls, DOMAIN calls, {})
      /\ writes \in Nat
  BY TableUnmade DEF RowElsewhere, TableTypes
<1> DEFINE rows == IF r \in stored THEN stored \ {r} ELSE stored \cup {r}
<1>1. StoredBecomes(rows) /\ rows \subseteq 1 .. NumRows /\ rows # stored
  BY DEF RowElsewhere, TableTypes
<1> HIDE DEF rows
<1>2. /\ stored' \subseteq 1 .. NumRows /\ writes' = writes + 1
      /\ strayed' = (strayed \/ Beyond')
      /\ UNCHANGED <<filter, pageNo, table, tableError, tableLoading, deleting, balances,
                     accountsError, wizard, due, overtaken, crossed>>
  BY <1>1 DEF StoredBecomes
<1>3. TableTypes'
  <2>1. strayed' \in BOOLEAN
    BY <1>2
  <2> QED
    BY <1>0, <1>2, <2>1 DEF TableTypes
<1>4. FetchesSelected'
  BY <1>0, <1>2, FetchesKept
<1>5. ListAwaited'
  BY <1>0, <1>2, ListKept
<1>6. TableSound' /\ PageExists'
  BY <1>2, ShownKept
<1>7. AnswersKnown'
  BY <1>0, <1>2, AnswersKept
<1>8. BalancesAwaited'
  BY <1>0, <1>2, BalancesKept
<1>9. WizardParts'
  BY <1>0, <1>2, WizardKept DEF WizardParts
<1> QED
  BY <1>0, <1>3, <1>4, <1>5, <1>6, <1>7, <1>8, <1>9 DEF TableWire, WizardParts

\* Everything but the wizard, and the dialog, stays as it is; a call for a file or
\* an import may be made or be over.
LEMMA WizardStep ==
  ASSUME TableTypes, TableWire, TableTypes', WizardParts',
         NEW J \in SUBSET (DOMAIN calls), NEW N,
         calls' \in Seq(TableCalls), Made(calls', calls, J, N),
         \A j \in DOMAIN calls : calls[j].kind \in {"table", "accounts"} => j \in J,
         \A c \in N : c.kind \in {"file", "import", "delete"} /\ c.stage = "sent",
         UNCHANGED <<stored, writes, controls, table, tableError, tableLoading,
                     balances, accountsError, due, overtaken>>
  PROVE  TableWire'
<1>0. UNCHANGED <<filter, pageNo, strayed>> /\ writes \in Nat
  BY DEF controls, TableTypes
<1>1. FetchesSelected'
  BY <1>0, FetchesKept
<1>2. ListAwaited'
  BY <1>0, ListKept
<1>3. TableSound' /\ PageExists'
  BY <1>0, ShownKept
<1>4. AnswersKnown'
  BY <1>0, AnswersKept
<1>5. BalancesAwaited'
  BY <1>0, BalancesKept
<1> QED
  BY <1>1, <1>2, <1>3, <1>4, <1>5 DEF TableWire, WizardParts

LEMMA DialogStep ==
  ASSUME TableTypes, TableWire,
         \/ \E r \in 1 .. NumRows : AskDelete(r)
         \/ CancelDelete
  PROVE  TableTypes' /\ TableWire'
<1>1. /\ UNCHANGED <<stored, writes, controls, table, tableError, tableLoading,
                     balances, accountsError, wizard, due, overtaken, crossed, calls>>
      /\ deleting' \in {None} \cup 1 .. NumRows
  BY DEF AskDelete, CancelDelete
<1>2. /\ calls' \in Seq(TableCalls) /\ Made(calls', calls, DOMAIN calls, {})
  BY <1>1, TableUnmade
<1>3. TableTypes'
  BY <1>1 DEF TableTypes, controls
<1>4. WizardParts'
  BY <1>1, <1>2, WizardKept DEF WizardParts
<1> QED
  BY <1>1, <1>2, <1>3, <1>4, WizardStep

LEMMA OpenWizardStep ==
  ASSUME TableTypes, TableWire, OpenWizard
  PROVE  TableTypes' /\ TableWire'
<1>1. /\ UNCHANGED <<stored, writes, controls, table, tableError, tableLoading, deleting,
                     balances, accountsError, due, overtaken, crossed, calls>>
      /\ wizard' = [life |-> wizard.life + 1, step |-> "upload", named |-> None,
                    file |-> None, submitting |-> FALSE]
  BY DEF OpenWizard, Elsewise, Closed
<1>2. /\ calls' \in Seq(TableCalls) /\ Made(calls', calls, DOMAIN calls, {})
      /\ wizard.life \in Nat
  BY <1>1, TableUnmade DEF TableTypes, WizardStates
<1>3. TableTypes'
  <2>1. wizard' \in WizardStates
    BY <1>1, <1>2 DEF WizardStates
  <2> QED
    BY <1>1, <2>1 DEF TableTypes, controls
<1>4. WizardSound' /\ ImportsNamed' /\ SubmitAwaited'
  BY <1>1 DEF TableWire, WizardSound, ImportsNamed, SubmitAwaited
<1>5. \A j \in DOMAIN calls : calls[j].kind = "file" =>
        calls[j].life \in Nat /\ calls[j].life <= wizard.life
  BY TableKinds DEF TableWire, FilesSound
<1>6. FilesSound'
  BY <1>1, <1>2, <1>5 DEF TableWire, FilesSound
<1> QED
  BY <1>1, <1>2, <1>3, <1>4, <1>6, WizardStep DEF WizardParts

LEMMA WalkStep ==
  ASSUME TableTypes, TableWire, Walk
  PROVE  TableTypes' /\ TableWire'
<1>1. /\ UNCHANGED <<stored, writes, controls, table, tableError, tableLoading, deleting,
                     balances, accountsError, due, overtaken, crossed, calls>>
      /\ \/ /\ \/ wizard.step = "map" /\ wizard' = [wizard EXCEPT !.step = "preview"]
               \/ wizard.step = "preview" /\ wizard' = [wizard EXCEPT !.step = "map"]
               \/ wizard.step = "map" /\ wizard' = [wizard EXCEPT !.step = "upload"]
         \/ wizard' = [life |-> wizard.life, step |-> "closed", named |-> None,
                       file |-> None, submitting |-> FALSE]
  BY DEF Walk, Elsewise, Closed, Step
<1>2. /\ calls' \in Seq(TableCalls) /\ Made(calls', calls, DOMAIN calls, {})
      /\ wizard \in WizardStates
  BY <1>1, TableUnmade DEF TableTypes
<1>3. wizard' \in WizardStates /\ wizard'.life = wizard.life
  <2>1. ASSUME NEW s \in {"map", "preview", "upload"}, wizard' = [wizard EXCEPT !.step = s]
        PROVE  wizard' \in WizardStates /\ wizard'.life = wizard.life
    BY <1>2, <2>1 DEF WizardStates
  <2>2. CASE wizard' = [life |-> wizard.life, step |-> "closed", named |-> None,
                        file |-> None, submitting |-> FALSE]
    BY <1>2, <2>2 DEF WizardStates
  <2> QED
    BY <1>1, <2>1, <2>2
<1>4. TableTypes'
  BY <1>1, <1>3 DEF TableTypes, controls
<1>5. \/ /\ wizard.step # "closed" /\ wizard'.step # "closed"
         /\ wizard'.named = wizard.named /\ wizard'.file = wizard.file
         /\ wizard'.submitting = wizard.submitting
         /\ wizard'.step \in {"map", "preview"} => wizard.step \in {"map", "preview"}
      \/ wizard'.step = "closed" /\ ~wizard'.submitting
  BY <1>1, <1>2 DEF WizardStates
<1>6. WizardSound'
  BY <1>1, <1>5 DEF TableWire, WizardSound
<1>7. ImportsNamed' /\ SubmitAwaited'
  BY <1>1, <1>3, <1>5 DEF TableWire, ImportsNamed, SubmitAwaited
<1>8. FilesSound'
  BY <1>1, <1>3, <1>5 DEF TableWire, FilesSound
<1> QED
  BY <1>1, <1>2, <1>4, <1>6, <1>7, <1>8, WizardStep DEF WizardParts

-----------------------------------------------------------------------------
(* Steps that make a call.                                                 *)

LEMMA TableCalled ==
  ASSUME TableWire, NEW c \in TableCalls, calls' = Append(calls, c)
  PROVE  calls' \in Seq(TableCalls) /\ Made(calls', calls, DOMAIN calls, {c})
<1>1. Append(calls, c) \in Seq(TableCalls)
  BY DEF TableWire
<1> QED
  BY <1>1, AppendedMade DEF TableWire

LEMMA ConfirmDeleteStep ==
  ASSUME TableTypes, TableWire, ConfirmDelete
  PROVE  TableTypes' /\ TableWire'
<1> DEFINE c == [kind |-> "delete", stage |-> "sent", answer |-> None, row |-> deleting]
<1>1. calls' = Append(calls, c) /\ UNCHANGED tableVars
  BY DEF ConfirmDelete
<1>2. c \in TableCalls /\ c.kind = "delete" /\ c.stage = "sent"
  BY DEF TableCalls, Stages, TableTypes
<1> HIDE DEF c
<1>3. calls' \in Seq(TableCalls) /\ Made(calls', calls, DOMAIN calls, {c})
  BY <1>1, <1>2, TableCalled
<1>4. TableTypes'
  BY <1>1 DEF TableTypes, tableVars
<1>5. WizardParts'
  BY <1>1, <1>2, <1>3, WizardKept DEF WizardParts, tableVars
<1> QED
  BY <1>1, <1>2, <1>3, <1>4, <1>5, WizardStep DEF tableVars, controls

LEMMA ChooseFileStep ==
  ASSUME TableTypes, TableWire, NEW f \in DOMAIN Files, ChooseFile(f)
  PROVE  TableTypes' /\ TableWire'
<1> DEFINE c == [kind |-> "file", stage |-> "sent", answer |-> None, file |-> f,
                 life |-> wizard.life]
<1>1. /\ calls' = Append(calls, c) /\ wizard' = [wizard EXCEPT !.named = f]
      /\ crossed' = (crossed \/ \E i \in DOMAIN calls : calls[i].kind = "file")
      /\ wizard.step = "upload"
      /\ UNCHANGED <<stored, writes, controls, table, tableError, tableLoading, deleting,
                     balances, accountsError, due, overtaken>>
  BY DEF ChooseFile, Elsewise
<1>2. wizard \in WizardStates /\ wizard.life \in Nat
  BY DEF TableTypes, WizardStates
<1>3. /\ c \in TableCalls /\ c.kind = "file" /\ c.stage = "sent" /\ c.file = f
      /\ c.life = wizard.life
  BY <1>2 DEF TableCalls, Stages
<1> HIDE DEF c
<1>4. calls' \in Seq(TableCalls) /\ Made(calls', calls, DOMAIN calls, {c})
  BY <1>1, <1>3, TableCalled
<1>5. /\ wizard' \in WizardStates /\ wizard'.life = wizard.life /\ wizard'.step = "upload"
      /\ wizard'.named = f /\ wizard'.submitting = wizard.submitting
  BY <1>1, <1>2 DEF WizardStates
<1>6. TableTypes'
  <2>1. crossed' \in BOOLEAN
    BY <1>1
  <2> QED
    BY <1>1, <1>5, <2>1 DEF TableTypes, controls
<1>7. \A k \in DOMAIN calls' : calls'[k] = c \/ \E j \in DOMAIN calls : calls'[k] = calls[j]
  BY <1>4 DEF Made
<1>8. \A j \in DOMAIN calls : \E k \in DOMAIN calls' : calls'[k] = calls[j]
  BY <1>4 DEF Made
<1>9. WizardSound'
  BY <1>5 DEF WizardSound
<1>10. ImportsNamed'
  BY <1>1, <1>3, <1>7 DEF TableWire, ImportsNamed
<1>11. SubmitAwaited'
  BY <1>5, <1>8 DEF TableWire, SubmitAwaited
<1>12. FilesSound'
  <2>1. \A k \in DOMAIN calls' : calls'[k].kind = "file" => calls'[k].life <= wizard'.life
    BY <1>2, <1>3, <1>5, <1>7 DEF TableWire, FilesSound
  <2>2. ~crossed' => \A k \in DOMAIN calls' : calls'[k].kind = "file" => calls'[k] = c
    BY <1>1, <1>7
  <2>3. ~crossed' => \A k, l \in DOMAIN calls' :
           calls'[k].kind = "file" /\ calls'[l].kind = "file" => k = l
    <3> SUFFICES ASSUME ~crossed', NEW k \in DOMAIN calls', NEW l \in DOMAIN calls',
                        calls'[k].kind = "file", calls'[l].kind = "file", k # l
                 PROVE  FALSE
      OBVIOUS
    <3>1. \A j \in DOMAIN calls : calls[j].kind # "file"
      BY <1>1
    <3> QED
      BY <1>4, <3>1 DEF Made
  <2> QED
    BY <1>3, <1>5, <2>1, <2>2, <2>3 DEF FilesSound
<1> QED
  BY <1>1, <1>3, <1>4, <1>6, <1>9, <1>10, <1>11, <1>12, WizardStep DEF WizardParts

LEMMA CommitStep ==
  ASSUME TableTypes, TableWire, Commit
  PROVE  TableTypes' /\ TableWire'
<1> DEFINE c == [kind |-> "import", stage |-> "sent", answer |-> None, file |-> wizard.file,
                 named |-> wizard.named, life |-> wizard.life]
<1>1. /\ calls' = Append(calls, c) /\ wizard' = [wizard EXCEPT !.submitting = TRUE]
      /\ wizard.step = "preview"
      /\ UNCHANGED <<stored, writes, controls, table, tableError, tableLoading, deleting,
                     balances, accountsError, due, overtaken, crossed>>
  BY DEF Commit, Elsewise
<1>2. /\ wizard \in WizardStates /\ wizard.file \in DOMAIN Files
      /\ crossed \/ wizard.named = wizard.file
  BY <1>1 DEF TableTypes, TableWire, WizardSound
<1>3. /\ c \in TableCalls /\ c.kind = "import" /\ c.stage = "sent"
      /\ c.file = wizard.file /\ c.named = wizard.named /\ c.life = wizard.life
  BY <1>2 DEF TableCalls, Stages, WizardStates
<1> HIDE DEF c
<1>4. calls' \in Seq(TableCalls) /\ Made(calls', calls, DOMAIN calls, {c})
  BY <1>1, <1>3, TableCalled
<1>5. /\ wizard' \in WizardStates /\ wizard'.life = wizard.life /\ wizard'.step = "preview"
      /\ wizard'.named = wizard.named /\ wizard'.file = wizard.file
  BY <1>1, <1>2 DEF WizardStates
<1>6. TableTypes'
  BY <1>1, <1>5 DEF TableTypes, controls
<1>7. \A k \in DOMAIN calls' : calls'[k] = c \/ \E j \in DOMAIN calls : calls'[k] = calls[j]
  BY <1>4 DEF Made
<1>8. \E k \in DOMAIN calls' : calls'[k] = c
  BY <1>4 DEF Made
<1>9. WizardSound'
  BY <1>1, <1>5 DEF TableWire, WizardSound
<1>10. ImportsNamed'
  BY <1>1, <1>2, <1>3, <1>7 DEF TableWire, ImportsNamed
<1>11. SubmitAwaited'
  BY <1>3, <1>5, <1>8 DEF SubmitAwaited
<1>12. FilesSound'
  <2>1. \A k \in DOMAIN calls' : calls'[k].kind = "file" =>
          \E j \in DOMAIN calls : calls'[k] = calls[j]
    BY <1>3, <1>7
  <2>2. \A k, l \in DOMAIN calls' :
          k # l /\ calls'[k].kind = "file" /\ calls'[l].kind = "file" =>
            \E i, j \in DOMAIN calls : i # j /\ calls[i].kind = "file" /\ calls[j].kind = "file"
    BY <1>3, <1>4 DEF Made
  <2> QED
    BY <1>1, <1>5, <2>1, <2>2 DEF TableWire, FilesSound
<1> QED
  BY <1>1, <1>3, <1>4, <1>6, <1>9, <1>10, <1>11, <1>12, WizardStep DEF WizardParts

-----------------------------------------------------------------------------
(* The list is fetched again.                                              *)

LEMMA TableFetched ==
  ASSUME calls \in Seq(TableCalls), NEW cs \in Seq(TableCalls),
         NEW J \in SUBSET (DOMAIN calls), Made(cs, calls, J, {}),
         NEW f \in Filters, NEW p \in Nat
  PROVE  /\ Fetch(cs, f, p) \in Seq(TableCalls)
         /\ Made(Fetch(cs, f, p), calls, {j \in J : calls[j].kind # "table"}, {GetTable(f, p)})
<1> DEFINE K == {j \in J : calls[j].kind # "table"}
           b == Without(cs, "table")
           g == GetTable(f, p)
<1>1. b \in Seq(TableCalls) /\ Made(b, calls, K, {})
  BY MadeThenWithout
<1>2. K \in SUBSET (DOMAIN calls)
  OBVIOUS
<1>3. g \in TableCalls
  BY DEF GetTable, TableCalls, Stages
<1> HIDE DEF b, K, g
<1>4. Append(b, g) \in Seq(TableCalls) /\ Made(Append(b, g), calls, K, {} \cup {g})
  BY <1>1, <1>2, <1>3, MadeThenOne
<1> QED
  BY <1>4 DEF Fetch, Uncancelled, b, K, g

LEMMA TableSelectedStep ==
  ASSUME TableTypes, TableWire, PageExists', filter' \in Filters, pageNo' \in Nat \ {0},
         strayed' \in BOOLEAN, calls' = Fetch(calls, filter', pageNo'),
         UNCHANGED <<stored, writes, table, tableError, tableLoading, deleting,
                     balances, accountsError, wizard, due, overtaken, crossed>>
  PROVE  TableTypes' /\ TableWire'
<1> DEFINE J == {j \in DOMAIN calls : calls[j].kind # "table"}
           N == {GetTable(filter', pageNo')}
<1>0. calls \in Seq(TableCalls) /\ Made(calls, calls, DOMAIN calls, {})
      /\ DOMAIN calls \in SUBSET (DOMAIN calls) /\ pageNo' \in Nat
  BY MadeAlready DEF TableWire
<1>1. calls' \in Seq(TableCalls) /\ Made(calls', calls, J, N)
  BY <1>0, TableFetched
<1>2. J \in SUBSET (DOMAIN calls)
  OBVIOUS
<1>3. \A c \in N : c.kind = "table" /\ c.stage = "sent"
  BY DEF GetTable
<1>4. TableTypes'
  BY DEF TableTypes
<1>5. FetchesSelected' /\ ListAwaited'
  BY <1>1, <1>2, FetchedAnew
<1>6. TableSound'
  BY DEF TableWire, TableSound, Slice, Matching
<1>7. AnswersKnown'
  BY <1>1, <1>2, <1>3, AnswersKept
<1>8. BalancesAwaited'
  BY <1>1, <1>2, BalancesKept
<1>9. WizardParts'
  BY <1>1, <1>2, <1>3, WizardKept DEF WizardParts
<1> QED
  BY <1>1, <1>4, <1>5, <1>6, <1>7, <1>8, <1>9 DEF TableWire, WizardParts

LEMMA SelectStep ==
  ASSUME TableTypes, TableWire, NEW f \in Filters, Select(f)
  PROVE  TableTypes' /\ TableWire'
<1>1. /\ filter' = f /\ pageNo' = 1 /\ strayed' = FALSE
      /\ calls' = Fetch(calls, f, pageNo')
      /\ UNCHANGED <<stored, writes, table, tableError, tableLoading, deleting,
                     balances, accountsError, wizard, due, overtaken, crossed>>
  BY DEF Select, FirstPage
<1>2. PageExists'
  BY <1>1 DEF PageExists
<1>3. strayed' \in BOOLEAN
  BY <1>1
<1>4. filter' \in Filters /\ pageNo' \in Nat \ {0}
  BY <1>1
<1>5. calls' = Fetch(calls, filter', pageNo')
  BY <1>1
<1> QED
  BY <1>1, <1>2, <1>3, <1>4, <1>5, TableSelectedStep

LEMMA TurnStep ==
  ASSUME TableTypes, TableWire, NEW p \in 1 .. NumRows, Turn(p)
  PROVE  TableTypes' /\ TableWire'
<1>1. /\ pageNo' = p /\ filter' = filter /\ calls' = Fetch(calls, filter', pageNo')
      /\ strayed' = (strayed \/ table.filter # filter \/ table.number # pageNo
                       \/ table.at # writes)
      /\ UNCHANGED <<stored, writes, table, tableError, tableLoading, deleting,
                     balances, accountsError, wizard, due, overtaken, crossed>>
      /\ table.pages > 1
      /\ \/ p = pageNo - 1 /\ pageNo > 1
         \/ p = pageNo + 1 /\ table.number < table.pages
  BY DEF Turn
<1>2. filter \in Filters /\ pageNo \in Nat \ {0} /\ p \in Nat \ {0} /\ strayed' \in BOOLEAN
  BY <1>1 DEF TableTypes
<1> DEFINE n == Cardinality(Matching(filter))
<1>3. n \in Nat /\ PageSize \in Nat \ {0}
  BY RowsFinite
<1>4. Cardinality(Matching(filter))' = n
  BY <1>1 DEF Matching
<1>5. ASSUME ~strayed'
      PROVE  p = 1 \/ (p - 1) * PageSize < n
  <2>1. ~strayed /\ table.filter = filter /\ table.number = pageNo /\ table.at = writes
    BY <1>1, <1>5
  <2>2. table = Slice(filter, pageNo)
    BY <1>2, <2>1 DEF TableWire, TableSound
  <2>3. table.pages = (n + PageSize - 1) \div PageSize
    BY <2>2 DEF Slice
  <2>4. pageNo = 1 \/ (pageNo - 1) * PageSize < n
    BY <2>1 DEF TableWire, PageExists
  <2> HIDE DEF n
  <2>5. CASE p = pageNo - 1 /\ pageNo > 1
    <3>1. (p - 1) * PageSize <= (pageNo - 1) * PageSize
      <4>1. p - 1 \in Nat /\ pageNo - 1 = (p - 1) + 1
        BY <1>2, <2>5
      <4>2. ((p - 1) + 1) * PageSize = (p - 1) * PageSize + PageSize
        BY <1>3, <4>1
      <4>3. (p - 1) * PageSize \in Nat
        BY <1>3, <4>1
      <4> QED
        BY <1>3, <4>1, <4>2, <4>3
    <3>2. (p - 1) * PageSize \in Int /\ (pageNo - 1) * PageSize \in Int
      BY <1>2, <1>3
    <3> QED
      BY <1>2, <1>3, <2>4, <2>5, <3>1, <3>2
  <2>6. CASE p = pageNo + 1 /\ table.number < table.pages
    <3>1. pageNo < (n + PageSize - 1) \div PageSize
      BY <2>1, <2>3, <2>6
    <3>2. pageNo * PageSize < n
      BY <1>2, <1>3, <3>1, PagesAre
    <3> QED
      BY <1>2, <2>6, <3>2
  <2> QED
    BY <1>1, <2>5, <2>6
<1>6. PageExists'
  <2>1. strayed' \/ p = 1 \/ (p - 1) * PageSize < n
    BY <1>5
  <2> QED
    BY <1>1, <1>4, <2>1 DEF PageExists
<1> QED
  BY <1>1, <1>2, <1>6, TableSelectedStep

-----------------------------------------------------------------------------
(* Handlers.                                                               *)

LEMMA TableHandled ==
  ASSUME TableTypes, TableWire, NEW i \in DOMAIN calls, Handled(i, <<>>),
         UNCHANGED <<stored, writes, filter, pageNo, strayed, due>>
  PROVE  /\ calls' \in Seq(TableCalls) /\ Made(calls', calls, DOMAIN calls \ {i}, {})
         /\ FetchesSelected' /\ PageExists' /\ AnswersKnown'
<1>1. calls' \in Seq(TableCalls) /\ Made(calls', calls, DOMAIN calls \ {i}, {})
  BY HandledMade DEF TableWire
<1>2. DOMAIN calls \ {i} \in SUBSET (DOMAIN calls)
  OBVIOUS
<1>3. FetchesSelected'
  BY <1>1, <1>2, FetchesKept
<1>4. AnswersKnown'
  BY <1>1, <1>2, AnswersKept
<1>5. PageExists'
  BY DEF TableWire, PageExists, Matching
<1> QED
  BY <1>1, <1>3, <1>4, <1>5

LEMMA TableOverStep ==
  ASSUME TableTypes, TableWire, NEW i \in DOMAIN calls, TableDone(i) \/ TableFailed(i)
  PROVE  TableTypes' /\ TableWire'
<1> DEFINE c == calls[i]
<1>0. /\ c.kind = "table" /\ Handled(i, <<>>)
      /\ \/ c.stage = "done" /\ table' = c.answer /\ tableError' = FALSE
         \/ c.stage = "failed" /\ table' = table /\ tableError' = TRUE
      /\ tableLoading' = FALSE
      /\ UNCHANGED <<stored, writes, filter, pageNo, strayed, deleting, balances,
                     accountsError, wizard, due, overtaken, crossed>>
  BY DEF TableDone, TableFailed, Stage, controls
<1>1. /\ calls' \in Seq(TableCalls) /\ Made(calls', calls, DOMAIN calls \ {i}, {})
      /\ FetchesSelected' /\ PageExists' /\ AnswersKnown'
  BY <1>0, TableHandled
<1>2. c.stage = "done" => AnswerSound(c.answer)
  BY <1>0 DEF TableWire, FetchesSelected, FetchSound
<1>3. /\ table' \in Tables
      /\ \/ tableError'
         \/ table'.filter = filter /\ table'.number = pageNo /\ due <= table'.at
      /\ c.stage = "done" => /\ table'.at <= writes /\ table'.number = pageNo
                             /\ table'.at = writes => table' = Slice(filter, pageNo)
  BY <1>0, <1>2 DEF AnswerSound, TableTypes
<1>4. TableTypes'
  BY <1>0, <1>3 DEF TableTypes
<1>5. ListAwaited'
  BY <1>0, <1>3 DEF ListAwaited
<1>6. TableSound'
  <2>1. CASE table' = table
    BY <1>0, <2>1 DEF TableWire, TableSound, Slice, Matching
  <2>2. CASE c.stage = "done"
    <3>1. table' = c.answer /\ table'.filter = filter /\ table'.number = pageNo /\ pageNo # 0
      BY <1>0, <1>2, <2>2 DEF AnswerSound, TableTypes
    <3>2. Slice(filter, pageNo)' = Slice(filter, pageNo)
      BY <1>0 DEF Slice, Matching
    <3> QED
      BY <1>0, <1>3, <2>2, <3>1, <3>2 DEF TableWire, TableSound
  <2> QED
    BY <1>0, <2>1, <2>2
<1>7. DOMAIN calls \ {i} \in SUBSET (DOMAIN calls)
  OBVIOUS
<1>8. BalancesAwaited'
  BY <1>0, <1>1, <1>7, BalancesKept
<1>9. WizardParts'
  BY <1>0, <1>1, <1>7, WizardKept DEF WizardParts
<1> QED
  BY <1>1, <1>4, <1>5, <1>6, <1>8, <1>9 DEF TableWire, WizardParts

LEMMA AccountsOverStep ==
  ASSUME TableTypes, TableWire, NEW i \in DOMAIN calls, AccountsDone(i) \/ AccountsFailed(i)
  PROVE  TableTypes' /\ TableWire'
<1> DEFINE c == calls[i]
<1>0. /\ c.kind = "accounts" /\ Handled(i, <<>>)
      /\ \/ /\ c.stage = "done" /\ balances' = c.answer /\ accountsError' = accountsError
            /\ overtaken' = (c.answer < balances \/ (overtaken /\ c.answer < due))
         \/ c.stage = "failed" /\ accountsError' = TRUE /\ UNCHANGED <<balances, overtaken>>
      /\ UNCHANGED <<stored, writes, filter, pageNo, strayed, table, tableError, tableLoading,
                     deleting, wizard, due, crossed>>
  BY DEF AccountsDone, AccountsFailed, Stage, controls
<1>1. /\ calls' \in Seq(TableCalls) /\ Made(calls', calls, DOMAIN calls \ {i}, {})
      /\ FetchesSelected' /\ PageExists' /\ AnswersKnown'
  BY <1>0, TableHandled
<1>2. /\ c.stage = "done" => c.answer \in Nat
      /\ balances \in Nat /\ due \in Nat
  BY <1>0 DEF TableWire, AnswersKnown, WriteKinds, TableTypes
<1>3. TableTypes'
  <2>1. balances' \in Nat /\ overtaken' \in BOOLEAN /\ accountsError' \in BOOLEAN
    BY <1>0, <1>2 DEF TableTypes
  <2> QED
    BY <1>0, <2>1 DEF TableTypes
<1>4. DOMAIN calls \ {i} \in SUBSET (DOMAIN calls)
  OBVIOUS
<1>5. ListAwaited'
  BY <1>0, <1>1, <1>4, ListKept
<1>6. TableSound'
  BY <1>0 DEF TableWire, TableSound, Slice, Matching
<1>7. BalancesAwaited'
  <2>1. CASE c.stage = "failed"
    BY <1>0, <2>1 DEF BalancesAwaited
  <2>2. CASE c.stage = "done"
    <3>a. /\ balances' = c.answer /\ accountsError' = accountsError /\ due' = due
          /\ overtaken' = (c.answer < balances \/ (overtaken /\ c.answer < due))
      BY <1>0, <2>2
    <3> SUFFICES ASSUME ~accountsError', ~overtaken', ~(due' <= balances')
                 PROVE  BalancesAwaited'
      BY DEF BalancesAwaited
    <3>c. ~accountsError /\ ~(c.answer < balances) /\ ~(overtaken /\ c.answer < due)
          /\ ~(due <= c.answer)
      BY <3>a
    <3>d. balances <= c.answer /\ c.answer < due
      BY <1>2, <2>2, <3>c
    <3>b. ~accountsError /\ balances <= c.answer /\ c.answer < due /\ ~overtaken
      BY <3>c, <3>d
    <3>1. PICK j \in DOMAIN calls :
            calls[j].kind = "accounts" /\ (calls[j].stage = "done" => due <= calls[j].answer)
      BY <1>2, <2>2, <3>b DEF TableWire, BalancesAwaited
    <3>2. j # i
      BY <1>2, <2>2, <3>1, <3>b
    <3>3. \E k \in DOMAIN calls' : calls'[k] = calls[j]
      BY <1>1, <3>2 DEF Made
    <3> QED
      BY <1>0, <3>1, <3>3 DEF BalancesAwaited
  <2> QED
    BY <1>0, <2>1, <2>2
<1>8. WizardParts'
  BY <1>0, <1>1, <1>4, WizardKept DEF WizardParts
<1> QED
  BY <1>1, <1>3, <1>5, <1>6, <1>7, <1>8 DEF TableWire, WizardParts

LEMMA DeleteFailedStep ==
  ASSUME TableTypes, TableWire, NEW i \in DOMAIN calls, DeleteFailed(i)
  PROVE  TableTypes' /\ TableWire'
<1>0. calls[i].kind = "delete" /\ Handled(i, <<>>) /\ UNCHANGED tableVars
  BY DEF DeleteFailed, Stage
<1>1. /\ calls' \in Seq(TableCalls) /\ Made(calls', calls, DOMAIN calls \ {i}, {})
  BY <1>0, TableHandled DEF tableVars
<1>2. DOMAIN calls \ {i} \in SUBSET (DOMAIN calls)
  OBVIOUS
<1>3. TableTypes'
  BY <1>0 DEF TableTypes, tableVars
<1>4. WizardParts'
  BY <1>0, <1>1, <1>2, WizardKept DEF WizardParts, tableVars
<1> QED
  BY <1>0, <1>1, <1>2, <1>3, <1>4, WizardStep DEF tableVars, controls

\* A deletion or an import is over: the list and the balances are read again.
LEMMA MutatedMade ==
  ASSUME TableTypes, TableWire, NEW i \in DOMAIN calls, Mutated(i)
  PROVE  /\ calls' \in Seq(TableCalls)
         /\ Made(calls', calls, {j \in DOMAIN calls \ {i} : calls[j].kind # "table"},
                 {GetTable(filter, pageNo), Sending("accounts")})
<1> DEFINE cs == RemoveAt(calls, i)
           J == DOMAIN calls \ {i}
           K == {j \in J : calls[j].kind # "table"}
           b == Fetch(cs, filter, pageNo)
           g == GetTable(filter, pageNo)
           a == Sending("accounts")
<1>0. calls \in Seq(TableCalls) /\ filter \in Filters /\ pageNo \in Nat
  BY DEF TableWire, TableTypes
<1>1. cs \in Seq(TableCalls) /\ Made(cs, calls, J, {})
  BY <1>0, RemovedAt, RemovedMade
<1>2. J \in SUBSET (DOMAIN calls) /\ K \in SUBSET (DOMAIN calls)
  OBVIOUS
<1>3. calls' = Append(b, a)
  BY DEF Mutated, AfterMutation
<1>4. a \in TableCalls /\ a \notin {g}
  BY DEF Sending, GetTable, TableCalls, Stages
<1> HIDE DEF cs
<1>5. b \in Seq(TableCalls) /\ Made(b, calls, K, {g})
  <2> HIDE DEF J
  <2> QED
    BY <1>0, <1>1, <1>2, TableFetched
<1> HIDE DEF b, a, g, K
<1>6. Append(b, a) \in Seq(TableCalls) /\ Made(Append(b, a), calls, K, {g} \cup {a})
  BY <1>0, <1>2, <1>4, <1>5, MadeThenOne
<1>7. {g} \cup {a} = {g, a}
  OBVIOUS
<1> QED
  BY <1>3, <1>6, <1>7 DEF g, a, K

LEMMA MutatedStep ==
  ASSUME TableTypes, TableWire, NEW i \in DOMAIN calls, calls[i].kind \in {"delete", "import"},
         calls[i].stage = "done", Mutated(i),
         deleting' \in {None} \cup 1 .. NumRows, wizard' \in WizardStates, WizardParts'
  PROVE  TableTypes' /\ TableWire'
<1> DEFINE J == {j \in DOMAIN calls \ {i} : calls[j].kind # "table"}
           N == {GetTable(filter, pageNo), Sending("accounts")}
<1>0. /\ due' = (IF due < calls[i].answer THEN calls[i].answer ELSE due)
      /\ accountsError' = FALSE
      /\ UNCHANGED <<stored, writes, filter, pageNo, strayed, table, tableError, tableLoading,
                     balances, overtaken, crossed>>
  BY DEF Mutated, controls
<1>1. calls' \in Seq(TableCalls) /\ Made(calls', calls, J, N)
  BY MutatedMade
<1>2. J \in SUBSET (DOMAIN calls)
  OBVIOUS
<1>3. /\ \A c \in N : c.stage = "sent" /\ c.kind \in {"table", "accounts"}
      /\ \A c \in N : c.kind = "table" => c = GetTable(filter, pageNo)
      /\ \E c \in N : c.kind = "accounts" /\ c.stage = "sent"
      /\ GetTable(filter, pageNo) \in N
  BY DEF GetTable, Sending
<1>4. calls[i].answer \in Nat /\ calls[i].answer <= writes /\ due \in Nat /\ due <= writes
  BY DEF TableWire, AnswersKnown, WriteKinds, TableSound, TableTypes
<1>5. TableTypes'
  <2>1. due' \in Nat
    BY <1>0, <1>4
  <2> QED
    BY <1>0, <2>1 DEF TableTypes
<1> HIDE DEF N
<1>6. FetchesSelected' /\ ListAwaited'
  BY <1>0, <1>1, <1>2, <1>3, FetchedAnew
<1>7. TableSound'
  <2>1. due' <= writes
    BY <1>0, <1>4
  <2> QED
    BY <1>0, <2>1 DEF TableWire, TableSound, Slice, Matching
<1>8. PageExists'
  BY <1>0 DEF TableWire, PageExists, Matching
<1>9. AnswersKnown'
  BY <1>0, <1>1, <1>2, <1>3, AnswersKept
<1>10. BalancesAwaited'
  BY <1>1, <1>2, <1>3, BalancesKept
<1> QED
  BY <1>1, <1>5, <1>6, <1>7, <1>8, <1>9, <1>10 DEF TableWire, WizardParts

\* The parts of the wizard when a call is over that is no file's.
LEMMA WizardAfter ==
  ASSUME TableTypes, TableWire, NEW i \in DOMAIN calls, NEW J \in SUBSET (DOMAIN calls \ {i}), NEW N,
         Made(calls', calls, J, N), \A c \in N : c.kind \notin {"file", "import"},
         \A j \in DOMAIN calls : j # i /\ calls[j].kind = "import" => j \in J,
         UNCHANGED crossed, wizard' \in WizardStates,
         \/ /\ wizard' = wizard
            /\ calls[i].kind # "import" \/ calls[i].life # wizard.life \/ wizard.step = "closed"
         \/ /\ wizard.step # "closed" /\ ~wizard'.submitting
            /\ wizard'.life = wizard.life /\ wizard'.named = wizard.named
            /\ wizard'.file = wizard.file /\ wizard'.step \in {"result", wizard.step}
  PROVE  WizardParts'
<1>0. wizard \in WizardStates
  BY DEF TableTypes
<1>1. \A k \in DOMAIN calls' : calls'[k].kind \in {"file", "import"} =>
        \E j \in DOMAIN calls : calls'[k] = calls[j]
  BY DEF Made
<1>2. \A j \in DOMAIN calls : j # i /\ calls[j].kind = "import" =>
        \E k \in DOMAIN calls' : calls'[k] = calls[j]
  BY DEF Made
<1>3. \A k, l \in DOMAIN calls' :
        k # l /\ calls'[k].kind = "file" /\ calls'[l].kind = "file" =>
          \E m, j \in DOMAIN calls : m # j /\ calls[m].kind = "file" /\ calls[j].kind = "file"
  BY DEF Made
<1>4. /\ wizard'.life = wizard.life /\ wizard'.named = wizard.named /\ wizard'.file = wizard.file
      /\ wizard'.step # "closed" => wizard.step # "closed"
      /\ wizard'.step \in {"map", "preview"} => wizard.step \in {"map", "preview"}
      /\ wizard'.submitting =>
           wizard' = wizard /\ (calls[i].kind # "import" \/ calls[i].life # wizard.life
                                \/ wizard.step = "closed")
  OBVIOUS
<1>5. WizardSound'
  BY <1>4 DEF TableWire, WizardSound
<1>6. FilesSound'
  BY <1>1, <1>3, <1>4 DEF TableWire, FilesSound
<1>7. ImportsNamed'
  BY <1>1 DEF TableWire, ImportsNamed
<1>8. SubmitAwaited'
  <2> SUFFICES ASSUME wizard'.submitting PROVE SubmitAwaited'
    BY DEF SubmitAwaited
  <2>1. /\ wizard.step # "closed"
        /\ \E j \in DOMAIN calls : calls[j].kind = "import" /\ calls[j].life = wizard.life
    BY <1>4 DEF TableWire, SubmitAwaited
  <2> QED
    BY <1>2, <1>4, <2>1 DEF SubmitAwaited
<1> QED
  BY <1>5, <1>6, <1>7, <1>8 DEF WizardParts

LEMMA DeleteDoneStep ==
  ASSUME TableTypes, TableWire, NEW i \in DOMAIN calls, DeleteDone(i)
  PROVE  TableTypes' /\ TableWire'
<1> DEFINE J == {j \in DOMAIN calls \ {i} : calls[j].kind # "table"}
           N == {GetTable(filter, pageNo), Sending("accounts")}
<1>0. calls[i].kind = "delete" /\ calls[i].stage = "done" /\ Mutated(i) /\ deleting' = None
      /\ wizard' = wizard /\ crossed' = crossed
  BY DEF DeleteDone, Stage, Mutated
<1>1. Made(calls', calls, J, N) /\ wizard' \in WizardStates
  BY <1>0, MutatedMade DEF TableTypes
<1>2. /\ \A c \in N : c.kind \notin {"file", "import"}
      /\ \A j \in DOMAIN calls : j # i /\ calls[j].kind = "import" => j \in J
      /\ J \in SUBSET (DOMAIN calls \ {i})
  BY DEF GetTable, Sending
<1> HIDE DEF J, N
<1>3. WizardParts'
  BY <1>0, <1>1, <1>2, WizardAfter
<1> QED
  BY <1>0, <1>1, <1>3, MutatedStep

LEMMA ImportDoneStep ==
  ASSUME TableTypes, TableWire, NEW i \in DOMAIN calls, ImportDone(i)
  PROVE  TableTypes' /\ TableWire'
<1> DEFINE J == {j \in DOMAIN calls \ {i} : calls[j].kind # "table"}
           N == {GetTable(filter, pageNo), Sending("accounts")}
           w == [wizard EXCEPT !.step = "result", !.submitting = FALSE]
<1>0. calls[i].kind = "import" /\ calls[i].stage = "done" /\ Mutated(i) /\ deleting' = deleting
      /\ wizard' = (IF wizard.life = calls[i].life /\ wizard.step # "closed" THEN w ELSE wizard)
      /\ crossed' = crossed
  BY DEF ImportDone, Stage, Mutated, InWizard
<1>a. /\ w \in WizardStates /\ wizard \in WizardStates /\ ~w.submitting
      /\ w.life = wizard.life /\ w.named = wizard.named /\ w.file = wizard.file
      /\ w.step \in {"result", wizard.step}
      /\ deleting' \in {None} \cup 1 .. NumRows
  BY <1>0 DEF TableTypes, WizardStates
<1>1. Made(calls', calls, J, N) /\ wizard' \in WizardStates
  BY <1>0, <1>a, MutatedMade
<1>2. /\ \A c \in N : c.kind \notin {"file", "import"}
      /\ \A j \in DOMAIN calls : j # i /\ calls[j].kind = "import" => j \in J
      /\ J \in SUBSET (DOMAIN calls \ {i})
  BY DEF GetTable, Sending
<1> HIDE DEF J, N
<1>3. WizardParts'
  <2>1. CASE wizard.life = calls[i].life /\ wizard.step # "closed"
    BY <1>0, <1>a, <1>1, <1>2, <2>1, WizardAfter
  <2>2. CASE ~(wizard.life = calls[i].life /\ wizard.step # "closed")
    BY <1>0, <1>1, <1>2, <2>2, WizardAfter
  <2> QED
    BY <2>1, <2>2
<1> QED
  BY <1>0, <1>a, <1>1, <1>3, MutatedStep

LEMMA ImportFailedStep ==
  ASSUME TableTypes, TableWire, NEW i \in DOMAIN calls, ImportFailed(i)
  PROVE  TableTypes' /\ TableWire'
<1> DEFINE J == DOMAIN calls \ {i}
           w == [wizard EXCEPT !.submitting = FALSE]
<1>0. /\ calls[i].kind = "import" /\ calls[i].stage = "failed" /\ Handled(i, <<>>)
      /\ wizard' = (IF wizard.life = calls[i].life /\ wizard.step # "closed" THEN w ELSE wizard)
      /\ UNCHANGED <<stored, writes, controls, table, tableError, tableLoading, deleting,
                     balances, accountsError, due, overtaken, crossed>>
  BY DEF ImportFailed, Stage, InWizard, Elsewise
<1>a. /\ w \in WizardStates /\ wizard \in WizardStates /\ ~w.submitting
      /\ w.life = wizard.life /\ w.named = wizard.named /\ w.file = wizard.file
      /\ w.step \in {"result", wizard.step}
  BY <1>0 DEF TableTypes, WizardStates
<1>1. calls' \in Seq(TableCalls) /\ Made(calls', calls, J, {}) /\ wizard' \in WizardStates
  BY <1>0, <1>a, HandledMade DEF TableWire
<1>2. J \in SUBSET (DOMAIN calls) /\ J \in SUBSET (DOMAIN calls \ {i})
      /\ \A j \in DOMAIN calls : j # i => j \in J
  OBVIOUS
<1> HIDE DEF J
<1>3. WizardParts'
  <2>1. CASE wizard.life = calls[i].life /\ wizard.step # "closed"
    <3>1. wizard' = w
      BY <1>0, <2>1
    <3> HIDE DEF w
    <3> QED
      BY <1>0, <1>1, <1>2, <1>a, <2>1, <3>1, WizardAfter
  <2>2. CASE ~(wizard.life = calls[i].life /\ wizard.step # "closed")
    BY <1>0, <1>1, <1>2, <2>2, WizardAfter
  <2> QED
    BY <2>1, <2>2
<1>4. TableTypes'
  BY <1>0, <1>1 DEF TableTypes, controls
<1>5. \A j \in DOMAIN calls : calls[j].kind \in {"table", "accounts"} => j \in J
  BY <1>0, <1>2
<1> QED
  BY <1>0, <1>1, <1>2, <1>3, <1>4, <1>5, WizardStep

LEMMA FileReadStep ==
  ASSUME TableTypes, TableWire, NEW i \in DOMAIN calls, FileRead(i)
  PROVE  TableTypes' /\ TableWire'
<1> DEFINE J == DOMAIN calls \ {i}
           c == calls[i]
           w == [wizard EXCEPT !.step = "map", !.file = c.file]
<1>0. /\ c.kind = "file" /\ Handled(i, <<>>)
      /\ \/ wizard' = wizard
         \/ /\ wizard' = w /\ wizard.life = c.life /\ wizard.step # "closed"
            /\ Files[c.file] # {}
      /\ UNCHANGED <<stored, writes, controls, table, tableError, tableLoading, deleting,
                     balances, accountsError, due, overtaken, crossed>>
  BY DEF FileRead, InWizard, Elsewise, Accepted
<1>a. c.file \in DOMAIN Files /\ wizard \in WizardStates
  BY <1>0, TableKinds DEF TableWire, TableTypes
<1>b. /\ w \in WizardStates /\ w.step = "map" /\ w.file = c.file /\ w.named = wizard.named
      /\ w.life = wizard.life /\ w.submitting = wizard.submitting
  BY <1>a DEF WizardStates
<1>1. calls' \in Seq(TableCalls) /\ Made(calls', calls, J, {}) /\ wizard' \in WizardStates
  BY <1>0, <1>a, <1>b, HandledMade DEF TableWire
<1>2. J \in SUBSET (DOMAIN calls) /\ \A j \in DOMAIN calls : j # i => j \in J
  OBVIOUS
<1>3. TableTypes'
  BY <1>0, <1>1 DEF TableTypes, controls
<1>4. \A k \in DOMAIN calls' : \E j \in DOMAIN calls : calls'[k] = calls[j]
  BY <1>1, <1>2 DEF Made
<1>5. \A j \in DOMAIN calls : calls[j].kind = "import" =>
        \E k \in DOMAIN calls' : calls'[k] = calls[j]
  BY <1>0, <1>1, <1>2 DEF Made
<1>6. \A k, l \in DOMAIN calls' :
        k # l /\ calls'[k].kind = "file" /\ calls'[l].kind = "file" =>
          \E m, j \in DOMAIN calls : m # j /\ calls[m].kind = "file" /\ calls[j].kind = "file"
  BY <1>1, <1>2 DEF Made
<1>7. /\ wizard'.life = wizard.life /\ wizard'.named = wizard.named
      /\ wizard'.submitting = wizard.submitting
      /\ wizard'.step # "closed" <=> wizard.step # "closed"
  BY <1>0, <1>b
<1> HIDE DEF w
<1>8. WizardSound'
  <2>1. CASE wizard' = wizard
    BY <1>0, <2>1 DEF TableWire, WizardSound
  <2>2. CASE wizard' = w /\ wizard.life = c.life /\ wizard.step # "closed" /\ Files[c.file] # {}
    <3>1. crossed \/ wizard.named = c.file
      BY <1>0, <2>2 DEF TableWire, FilesSound
    <3> QED
      BY <1>0, <1>a, <1>b, <2>2, <3>1 DEF WizardSound
  <2> QED
    BY <1>0, <2>1, <2>2
<1>9. FilesSound'
  BY <1>0, <1>4, <1>6, <1>7 DEF TableWire, FilesSound
<1>10. ImportsNamed'
  BY <1>0, <1>4 DEF TableWire, ImportsNamed
<1>11. SubmitAwaited'
  BY <1>5, <1>7 DEF TableWire, SubmitAwaited
<1>12. \A j \in DOMAIN calls : calls[j].kind \in {"table", "accounts"} => j \in J
  BY <1>0, <1>2
<1> HIDE DEF J, c
<1> QED
  BY <1>0, <1>1, <1>2, <1>3, <1>8, <1>9, <1>10, <1>11, <1>12, WizardStep DEF WizardParts

LEMMA TableStep ==
  ASSUME TableInv, page = "transactions", TableNext
  PROVE  TableTypes' /\ TableWire'
<1>0. TableTypes /\ TableWire
  BY DEF TableInv
<1>1. ASSUME NEW i \in DOMAIN calls,
             \/ ServeTable(i) \/ ServeAccounts(i) \/ ServeDelete(i) \/ ServeImport(i)
             \/ Lost(i) /\ UNCHANGED tableVars
      PROVE  TableTypes' /\ TableWire'
  BY <1>0, <1>1, TableServedStep
<1>2. ASSUME NEW i \in DOMAIN calls,
             \/ TableDone(i) \/ TableFailed(i) \/ AccountsDone(i) \/ AccountsFailed(i)
             \/ DeleteDone(i) \/ DeleteFailed(i)
             \/ FileRead(i) \/ ImportDone(i) \/ ImportFailed(i)
      PROVE  TableTypes' /\ TableWire'
  BY <1>0, <1>2, TableOverStep, AccountsOverStep, DeleteDoneStep, DeleteFailedStep,
     FileReadStep, ImportDoneStep, ImportFailedStep
<1>3. ASSUME NEW r \in 1 .. NumRows, RowElsewhere(r) \/ AskDelete(r)
      PROVE  TableTypes' /\ TableWire'
  BY <1>0, <1>3, RowElsewhereStep, DialogStep
<1>4. ASSUME NEW f \in {"all", "picked"}, Select(f)
      PROVE  TableTypes' /\ TableWire'
  BY <1>0, <1>4, SelectStep DEF Filters
<1>5. ASSUME NEW p \in 1 .. NumRows, Turn(p)
      PROVE  TableTypes' /\ TableWire'
  BY <1>0, <1>5, TurnStep
<1>6. ASSUME NEW f \in DOMAIN Files, ChooseFile(f)
      PROVE  TableTypes' /\ TableWire'
  BY <1>0, <1>6, ChooseFileStep
<1>7. ASSUME CancelDelete \/ ConfirmDelete \/ OpenWizard \/ Walk \/ Commit
      PROVE  TableTypes' /\ TableWire'
  BY <1>0, <1>7, DialogStep, ConfirmDeleteStep, OpenWizardStep, WalkStep, CommitStep
<1> QED
  BY <1>1, <1>2, <1>3, <1>4, <1>5, <1>6, <1>7 DEF TableNext

LEMMA TableInvInit == Init => TableInv
<1> SUFFICES ASSUME Init PROVE TableInv
  OBVIOUS
<1>1. /\ stored \in Stock /\ writes = 0 /\ filter = "all" /\ pageNo = 1
      /\ table = [rows |-> {}, pages |-> 0, filter |-> None, number |-> 0, at |-> 0]
      /\ tableError = FALSE /\ tableLoading = TRUE /\ deleting = None /\ balances = 0
      /\ accountsError = FALSE
      /\ wizard = [life |-> 0, step |-> "closed", named |-> None, file |-> None,
                   submitting |-> FALSE]
      /\ due = 0 /\ overtaken = FALSE /\ strayed = FALSE /\ crossed = FALSE
  BY DEF Init, TableInit, Closed
<1>2. /\ table \in Tables /\ wizard \in WizardStates /\ stored \subseteq 1 .. NumRows
      /\ filter \in Filters
  BY <1>1, TableAssumption DEF Tables, WizardStates, Filters
<1>a. /\ tableError \in BOOLEAN /\ tableLoading \in BOOLEAN /\ accountsError \in BOOLEAN
      /\ overtaken \in BOOLEAN /\ strayed \in BOOLEAN /\ crossed \in BOOLEAN
  BY <1>1
<1>b. /\ writes \in Nat /\ due \in Nat /\ balances \in Nat /\ pageNo \in Nat \ {0}
      /\ deleting \in {None} \cup 1 .. NumRows
  BY <1>1
<1>3. TableTypes
  BY <1>2, <1>a, <1>b DEF TableTypes
<1>4. ASSUME page = "transactions" PROVE TableWire
  <2> DEFINE g == GetTable("all", 1)
  <2>1. calls = <<g>>
    BY <1>4 DEF Init, Mount
  <2>2. /\ g \in TableCalls /\ g.kind = "table" /\ g.stage = "sent" /\ g.filter = "all"
        /\ g.number = 1
    BY DEF GetTable, TableCalls, Stages, Filters
  <2> HIDE DEF g
  <2>3. calls \in Seq(TableCalls) /\ DOMAIN calls = {1} /\ calls[1] = g
    BY <2>1, <2>2
  <2>4. FetchesSelected /\ ListAwaited
    BY <1>1, <2>2, <2>3 DEF FetchesSelected, FetchSound, ListAwaited
  <2>5. TableSound /\ PageExists /\ BalancesAwaited
    BY <1>1 DEF TableSound, PageExists, BalancesAwaited
  <2>6. AnswersKnown
    BY <2>2, <2>3 DEF AnswersKnown
  <2>7. WizardSound /\ FilesSound /\ ImportsNamed /\ SubmitAwaited
    BY <1>1, <2>2, <2>3 DEF WizardSound, FilesSound, ImportsNamed, SubmitAwaited
  <2> QED
    BY <2>3, <2>4, <2>5, <2>6, <2>7 DEF TableWire
<1> QED
  BY <1>3, <1>4 DEF TableInv

LEMMA TableInvKept == TableInv /\ [Next]_vars => TableInv'
<1> SUFFICES ASSUME TableInv, [Next]_vars PROVE TableInv'
  OBVIOUS
<1>1. CASE page = "transactions" /\ Next /\ TableNext
  BY <1>1, TableStep DEF TableInv
<1>2. CASE page # "transactions" /\ Next
  <2>1. UNCHANGED tableVars /\ page' = page
    BY <1>2 DEF Next
  <2> QED
    BY <1>2, <2>1 DEF TableInv, TableTypes, tableVars
<1>3. CASE UNCHANGED vars
  <2>1. UNCHANGED <<page, calls>> /\ UNCHANGED tableVars
    BY <1>3 DEF vars, wireVars
  <2>2. TableTypes'
    BY <2>1 DEF TableInv, TableTypes, tableVars
  <2>3. ASSUME page = "transactions" PROVE TableWire'
    <3>0. TableTypes /\ TableWire
      BY <2>3 DEF TableInv
    <3>1. /\ calls' \in Seq(TableCalls) /\ Made(calls', calls, DOMAIN calls, {})
      BY <2>1, <3>0, TableUnmade
    <3>2. WizardParts'
      BY <2>1, <3>0, <3>1, WizardKept DEF WizardParts, tableVars
    <3> QED
      BY <2>1, <2>2, <3>0, <3>1, <3>2, WizardStep DEF tableVars, controls
  <2> QED
    BY <2>1, <2>2, <2>3 DEF TableInv
<1> QED
  BY <1>1, <1>2, <1>3 DEF Next

-----------------------------------------------------------------------------
(* What the page shows at rest.                                            *)

\* The k-th row that is listed.
LEMMA RowAt ==
  ASSUME NEW M \in Nat, NEW S \in SUBSET (1 .. M), NEW k \in Nat, k < Cardinality(S)
  PROVE  \E r \in S : Cardinality({s \in S : s > r}) = k
<1> DEFINE Newer(r) == {s \in S : s > r}
           T == {r \in S : Cardinality(Newer(r)) <= k}
<1>0. IsFiniteSet(S)
  <2>1. IsFiniteSet(1 .. M)
    BY FS_Interval
  <2> QED
    BY <2>1, FS_Subset
<1>1. \A X \in SUBSET S : IsFiniteSet(X) /\ Cardinality(X) \in Nat
  BY <1>0, FS_Subset, FS_CardinalityType
<1>2. \A r \in S : Newer(r) \in SUBSET S
  OBVIOUS
\* The greatest of the rows.
<1>3. ASSUME NEW X \in SUBSET S, X # {} PROVE \E m \in X : \A x \in X : x <= m
  <2> DEFINE D == {M - x : x \in X}
  <2>a. \A x \in X : M - x \in Nat
    <3>1. \A x \in X : x \in 1 .. M
      OBVIOUS
    <3> QED
      BY <3>1
  <2>1. D \in SUBSET Nat /\ D # {}
    BY <1>3, <2>a
  <2>2. PICK d \in D : \A e \in D : d <= e
    <3> HIDE DEF D
    <3> QED
      BY <2>1, LeastElement
  <2>3. PICK m \in X : d = M - m
    BY <2>2
  <2>4. ASSUME NEW x \in X PROVE x <= m
    <3>1. M - m <= M - x
      BY <2>2, <2>3
    <3>2. x \in Nat /\ m \in Nat
      OBVIOUS
    <3> QED
      BY <3>1, <3>2
  <2> QED
    BY <2>4
<1>4. T # {}
  <2>1. S # {}
    BY FS_EmptySet
  <2>2. PICK m \in S : \A x \in S : x <= m
    BY <1>3, <2>1
  <2>3. Newer(m) = {}
    <3> SUFFICES ASSUME NEW s \in S, s > m PROVE FALSE
      OBVIOUS
    <3>1. s <= m /\ s \in Nat /\ m \in Nat
      BY <2>2
    <3> QED
      BY <3>1
  <2>4. Cardinality(Newer(m)) = 0
    BY <2>3, FS_EmptySet
  <2> QED
    BY <2>4
<1>5. PICK r \in T : \A t \in T : r <= t
  <2>1. S \in SUBSET Nat /\ T \in SUBSET S
    OBVIOUS
  <2> HIDE DEF T
  <2> QED
    BY <1>4, <2>1, LeastElement
<1>6. r \in S /\ Cardinality(Newer(r)) <= k /\ Cardinality(Newer(r)) \in Nat
  BY <1>1, <1>2
<1>7. ASSUME Cardinality(Newer(r)) < k PROVE FALSE
  <2> DEFINE U == Newer(r) \cup {r}
             X == S \ U
  <2>1. Cardinality(U) = Cardinality(Newer(r)) + 1
    <3>1. r \notin Newer(r) /\ IsFiniteSet(Newer(r))
      BY <1>1, <1>2, <1>6
    <3> HIDE DEF Newer
    <3> QED
      BY <3>1, FS_AddElement
  <2>2. U \in SUBSET S
    BY <1>6
  <2>3. Cardinality(U) < Cardinality(S)
    BY <1>1, <1>6, <1>7, <2>1
  <2>4. X # {}
    BY <2>2, <2>3, <1>1
  <2>5. PICK q \in X : \A x \in X : x <= q
    BY <1>3, <2>4
  <2>6. q \in S /\ q < r
    BY <1>6, <2>5
  <2>7. Newer(q) = U
    <3>1. ASSUME NEW s \in S PROVE s > q <=> (s > r \/ s = r)
      <4>1. s \in Nat /\ q \in Nat /\ r \in Nat /\ q < r
        BY <1>6, <2>6
      <4>2. s \in X => s <= q
        BY <2>5
      <4>3. s \in X \/ s > r \/ s = r
        OBVIOUS
      <4> QED
        BY <4>1, <4>2, <4>3
    <3> QED
      BY <1>6, <3>1
  <2>8. q \in T
    <3>1. Cardinality(Newer(q)) <= k
      BY <1>6, <1>7, <2>1, <2>7
    <3> QED
      BY <2>6, <3>1
  <2>9. r <= q /\ r \in Nat /\ q \in Nat
    BY <1>5, <1>6, <2>6, <2>8
  <2> QED
    BY <2>6, <2>9
<1> QED
  BY <1>6, <1>7

LEMMA SliceIsNotEmpty ==
  ASSUME TableTypes, Matching(filter) # {},
         pageNo = 1 \/ (pageNo - 1) * PageSize < Cardinality(Matching(filter))
  PROVE  Slice(filter, pageNo).rows # {}
<1> DEFINE rows == Matching(filter)
           k == (pageNo - 1) * PageSize
<1>1. /\ IsFiniteSet(rows) /\ Cardinality(rows) \in Nat /\ rows \in SUBSET (1 .. NumRows)
      /\ NumRows \in Nat /\ PageSize \in Nat \ {0} /\ pageNo \in Nat \ {0}
  BY RowsFinite DEF TableTypes
<1>2. Cardinality(rows) # 0
  BY <1>1, FS_EmptySet
<1>3. k \in Nat /\ pageNo * PageSize = k + PageSize
  <2>1. pageNo - 1 \in Nat /\ pageNo = (pageNo - 1) + 1
    BY <1>1
  <2>2. ((pageNo - 1) + 1) * PageSize = (pageNo - 1) * PageSize + PageSize
    BY <1>1, <2>1
  <2>3. (pageNo - 1) * PageSize \in Nat
    BY <1>1, <2>1
  <2> QED
    BY <2>1, <2>2, <2>3
<1>4. pageNo = 1 => k = 0
  BY <1>1
<1>5. k < Cardinality(rows)
  BY <1>1, <1>2, <1>4
<1>6. PICK r \in rows : Cardinality({s \in rows : s > r}) = k
  <2> HIDE DEF rows, k
  <2> QED
    BY <1>1, <1>3, <1>5, RowAt
<1>7. k \in (pageNo - 1) * PageSize .. pageNo * PageSize - 1
  <2>1. k <= pageNo * PageSize - 1
    <3> HIDE DEF k
    <3> QED
      BY <1>1, <1>3
  <2>2. pageNo * PageSize - 1 \in Int
    BY <1>1
  <2> QED
    BY <1>3, <2>1, <2>2
<1>8. Slice(filter, pageNo).rows =
        {s \in rows : Cardinality({t \in rows : t > s})
                        \in (pageNo - 1) * PageSize .. pageNo * PageSize - 1}
  BY DEF Slice
<1> HIDE DEF k, rows
<1>9. r \in Slice(filter, pageNo).rows
  BY <1>6, <1>7, <1>8
<1> QED
  BY <1>9

LEMMA TableAtRest ==
  ASSUME TableInv
  PROVE  /\ ListMatchesControls /\ MutationShows /\ EmptyMeansNone
         /\ AtRest /\ page = "transactions" => ~tableLoading /\ ~wizard.submitting
<1> SUFFICES ASSUME AtRest, page = "transactions"
             PROVE  /\ ListMatchesControls /\ MutationShows /\ EmptyMeansNone
                    /\ ~tableLoading /\ ~wizard.submitting
  BY DEF ListMatchesControls, MutationShows, EmptyMeansNone
<1>1. DOMAIN calls = {} /\ TableTypes /\ TableWire
  BY DEF AtRest, TableInv
<1>2. /\ ~tableLoading
      /\ \/ tableError
         \/ table.filter = filter /\ table.number = pageNo /\ due <= table.at
  BY <1>1 DEF TableWire, ListAwaited
<1>3. accountsError \/ overtaken \/ due <= balances
  BY <1>1 DEF TableWire, BalancesAwaited
<1>4. ~wizard.submitting
  BY <1>1 DEF TableWire, SubmitAwaited
<1>5. due \in Nat /\ table.at \in Nat /\ balances \in Nat /\ pageNo \in Nat \ {0}
  BY <1>1 DEF TableTypes, Tables
<1>6. ListMatchesControls
  BY <1>2 DEF ListMatchesControls
<1>7. MutationShows
  BY <1>2, <1>3, <1>5 DEF MutationShows
<1>8. EmptyMeansNone
  <2> SUFFICES ASSUME ~tableError, table.at = writes, Matching(filter) # {}, ~strayed
               PROVE  table.rows # {}
    BY DEF EmptyMeansNone
  <2>1. table = Slice(filter, pageNo)
    BY <1>1, <1>2, <1>5 DEF TableWire, TableSound
  <2>2. pageNo = 1 \/ (pageNo - 1) * PageSize < Cardinality(Matching(filter))
    BY <1>1 DEF TableWire, PageExists
  <2> QED
    BY <1>1, <2>1, <2>2, SliceIsNotEmpty
<1> QED
  BY <1>2, <1>4, <1>6, <1>7, <1>8

-----------------------------------------------------------------------------
(* The categories page.                                                    *)

Orders == [Categories -> 0 .. NumCategories]

ListAnswers == [order : Orders, archived : SUBSET Categories, at : Nat]

Purposes == {"load", "after", "stale", "resync"}

ListCalls ==
  [kind : {"refresh"}, stage : Stages, answer : {None} \cup ListAnswers,
   purpose : Purposes]
  \cup [kind : {"archive"}, stage : Stages, answer : {None} \cup Nat,
        category : Categories, to : BOOLEAN]
  \cup [kind : {"reorder"}, stage : Stages, answer : {None} \cup ListAnswers,
        ids : Seq(Categories), pair : SUBSET Categories, fresh : BOOLEAN,
        honest : BOOLEAN]

ListTypes ==
  /\ order \in Orders /\ archived \subseteq Categories
  /\ version \in Nat /\ owed \in Nat /\ owed <= version
  /\ shown \in ListAnswers \/ shown = Blank
  /\ shown.at <= version
  /\ reordering \in BOOLEAN /\ loading \in BOOLEAN /\ tangled \in BOOLEAN

\* The call of a move that started from the stored order: two neighbours of the
\* sorted list are exchanged.
Exchange(s, m) == [s EXCEPT ![m] = s[m + 1], ![m + 1] = s[m]]

Sorted(o, s) == \A x, y \in DOMAIN s : x < y => Before(o, s[x], s[y])

OneSwap(c) ==
  \E m \in 1 .. Len(c.ids) - 1 :
    Sorted(order, Exchange(c.ids, m)) /\ c.pair = {c.ids[m], c.ids[m + 1]}

CallSound(c) ==
  /\ c.stage = "done" =>
       /\ c.kind \in {"refresh", "reorder"} =>
            c.answer \in ListAnswers /\ c.answer.at <= version
       /\ c.kind = "archive" => c.answer \in Nat /\ c.answer <= version
       /\ c.kind = "reorder" /\ c.fresh => shown.at < c.answer.at
  /\ c.kind = "reorder" => Len(c.ids) <= NumCategories
  /\ c.kind = "reorder" /\ c.stage = "sent" /\ c.honest => OneSwap(c)

AllSound == \A j \in DOMAIN calls : CallSound(calls[j])

\* What keeps the arrows disabled.
Holds(c) ==
  \/ c.kind = "reorder"
  \/ c.kind = "refresh" /\ c.purpose \in InReorder

OneHolds ==
  /\ \A j, k \in DOMAIN calls : Holds(calls[j]) /\ Holds(calls[k]) => j = k
  /\ reordering <=> \E j \in DOMAIN calls : Holds(calls[j])

LoadAwaited ==
  loading => \E j \in DOMAIN calls :
               calls[j].kind = "refresh" /\ calls[j].purpose = "load"

OwedAwaited ==
  \/ tangled \/ owed <= shown.at
  \/ \E j \in DOMAIN calls :
       calls[j].kind = "refresh" /\ (calls[j].stage = "done" => owed <= calls[j].answer.at)

ListWire ==
  /\ calls \in Seq(ListCalls)
  /\ AllSound /\ OneHolds /\ LoadAwaited /\ OwedAwaited

ListInv == ListTypes /\ (page = "categories" => ListWire)

-----------------------------------------------------------------------------
(* The list as displayed.                                                  *)

LEMMA CategoriesFinite ==
  ASSUME NEW S \in SUBSET Categories
  PROVE  /\ IsFiniteSet(S) /\ Cardinality(S) \in Nat /\ Cardinality(S) <= NumCategories
         /\ Categories \subseteq Nat /\ NumCategories \in Nat
<1>1. NumCategories \in Nat
  BY ListAssumption
<1>2. IsFiniteSet(Categories) /\ Cardinality(Categories) = NumCategories
  BY <1>1, FS_Interval DEF Categories
<1>3. IsFiniteSet(S) /\ Cardinality(S) <= Cardinality(Categories)
  BY <1>2, FS_Subset
<1> QED
  BY <1>1, <1>2, <1>3, FS_CardinalityType DEF Categories

\* Before is a strict order, total on the categories.
LEMMA BeforeOrders ==
  ASSUME NEW D \in SUBSET Categories, NEW o \in [D -> Nat]
  PROVE  /\ \A c \in D : ~Before(o, c, c)
         /\ \A c, d \in D : Before(o, c, d) => ~Before(o, d, c)
         /\ \A c, d, e \in D : Before(o, c, d) /\ Before(o, d, e) => Before(o, c, e)
         /\ \A c, d \in D : c # d => Before(o, c, d) \/ Before(o, d, c)
<1>1. \A c \in D : o[c] \in Nat /\ c \in Nat
  BY CategoriesFinite
<1>2. \A c, d \in D : Before(o, c, d) <=> (o[c] < o[d] \/ (o[c] = o[d] /\ c < d))
  BY DEF Before
<1>3. \A c \in D : ~Before(o, c, c)
  BY <1>1, <1>2
<1>4. \A c, d \in D : Before(o, c, d) => ~Before(o, d, c)
  BY <1>1, <1>2
<1>5. \A c, d, e \in D : Before(o, c, d) /\ Before(o, d, e) => Before(o, c, e)
  BY <1>1, <1>2
<1>6. \A c, d \in D : c # d => Before(o, c, d) \/ Before(o, d, c)
  BY <1>1, <1>2
<1> QED
  BY <1>3, <1>4, <1>5, <1>6

LEMMA SortedExists ==
  ASSUME NEW D \in SUBSET Categories, NEW o \in [D -> Nat], NEW S \in SUBSET D
  PROVE  \E ids \in SetToSeqs(S) :
           \A x, y \in DOMAIN ids : x < y => Before(o, ids[x], ids[y])
<1> DEFINE n == Cardinality(S)
           Earlier(c) == {d \in S : Before(o, d, c)}
           rank == [c \in S |-> Cardinality(Earlier(c)) + 1]
           ids == [k \in 1 .. n |-> CHOOSE c \in S : rank[c] = k]
<1>1. IsFiniteSet(S) /\ n \in Nat
  BY CategoriesFinite
<1>2. ASSUME NEW T \in SUBSET S PROVE IsFiniteSet(T) /\ Cardinality(T) \in Nat
  BY <1>1, FS_Subset, FS_CardinalityType
<1>3. ASSUME NEW c \in S PROVE rank[c] \in 1 .. n /\ rank[c] = Cardinality(Earlier(c)) + 1
  <2>1. Earlier(c) \in SUBSET (S \ {c})
    BY BeforeOrders
  <2>2. IsFiniteSet(S \ {c}) /\ Cardinality(S \ {c}) = n - 1
    BY <1>1, FS_RemoveElement
  <2>3. Cardinality(Earlier(c)) <= n - 1
    <3> DEFINE T == Earlier(c)
    <3> HIDE DEF Earlier
    <3> QED
      BY <2>1, <2>2, FS_Subset
  <2>4. Cardinality(Earlier(c)) \in Nat
    BY <1>2
  <2>5. rank[c] = Cardinality(Earlier(c)) + 1
    OBVIOUS
  <2> HIDE DEF n, Earlier, rank
  <2> QED
    BY <1>1, <2>3, <2>4, <2>5
<1>4. ASSUME NEW c \in S, NEW d \in S, Before(o, c, d) PROVE rank[c] < rank[d]
  <2>1. Earlier(c) \cup {c} \subseteq Earlier(d)
    BY <1>4, BeforeOrders
  <2>2. c \notin Earlier(c)
    BY BeforeOrders
  <2>3. IsFiniteSet(Earlier(c)) /\ Cardinality(Earlier(c)) \in Nat
    BY <1>2
  <2>4. IsFiniteSet(Earlier(d)) /\ Cardinality(Earlier(d)) \in Nat
    BY <1>2
  <2>5. Cardinality(Earlier(c) \cup {c}) = Cardinality(Earlier(c)) + 1
    <3> HIDE DEF Earlier
    <3> QED
      BY <2>2, <2>3, FS_AddElement
  <2>6. Cardinality(Earlier(c) \cup {c}) <= Cardinality(Earlier(d))
    <3> HIDE DEF Earlier
    <3> QED
      BY <2>1, <2>4, FS_Subset
  <2>7. rank[c] = Cardinality(Earlier(c)) + 1 /\ rank[d] = Cardinality(Earlier(d)) + 1
    BY <1>3
  <2> HIDE DEF rank, Earlier
  <2> QED
    BY <2>3, <2>4, <2>5, <2>6, <2>7
<1>5. rank \in [S -> 1 .. n]
  BY <1>3
<1> HIDE DEF rank
<1>6. \A c, d \in S : rank[c] = rank[d] => c = d
  <2> SUFFICES ASSUME NEW c \in S, NEW d \in S, rank[c] = rank[d], c # d PROVE FALSE
    OBVIOUS
  <2>1. Before(o, c, d) \/ Before(o, d, c)
    BY BeforeOrders
  <2>2. rank[c] \in Nat /\ rank[d] \in Nat
    <3> HIDE DEF n
    <3>1. rank[c] \in 1 .. n /\ rank[d] \in 1 .. n
      BY <1>5
    <3> QED
      BY <3>1, <1>1
  <2> QED
    BY <1>4, <2>1, <2>2
<1>7. rank \in Injection(S, 1 .. n)
  BY <1>5, <1>6 DEF Injection, IsInjective
<1>8. IsFiniteSet(1 .. n) /\ Cardinality(1 .. n) = n
  BY <1>1, FS_Interval
<1>9. rank \in Surjection(S, 1 .. n)
  <2> HIDE DEF n
  <2>1. Cardinality(S) = n
    BY DEF n
  <2> QED
    BY <1>7, <1>8, <2>1, FS_Injection
<1>10. \A k \in 1 .. n : \E c \in S : rank[c] = k
  BY <1>9 DEF Surjection
<1>11. \A k \in 1 .. n : ids[k] \in S /\ rank[ids[k]] = k
  BY <1>10
<1>12. ids \in SetToSeqs(S)
  BY <1>11 DEF SetToSeqs
<1>13. ASSUME NEW x \in DOMAIN ids, NEW y \in DOMAIN ids, x < y
       PROVE  Before(o, ids[x], ids[y])
  <2>1. x \in 1 .. n /\ y \in 1 .. n
    OBVIOUS
  <2> DEFINE c == ids[x]
             d == ids[y]
  <2>2. c \in S /\ d \in S /\ rank[c] = x /\ rank[d] = y
    BY <1>11, <2>1
  <2> HIDE DEF ids, c, d
  <2>3. x \in Nat /\ y \in Nat
    BY <1>1, <2>1
  <2>4. c # d
    BY <1>13, <2>2, <2>3
  <2>5. ~Before(o, d, c)
    BY <1>4, <1>13, <2>2, <2>3
  <2>6. Before(o, c, d)
    BY <2>2, <2>4, <2>5, BeforeOrders
  <2> QED
    BY <2>6 DEF c, d
<1> QED
  BY <1>12, <1>13

LEMMA DisplayedIs ==
  ASSUME NEW list, NEW D \in SUBSET Categories, list.order \in [D -> Nat]
  PROVE  /\ Displayed(list) \in Seq(Categories)
         /\ Len(Displayed(list)) <= NumCategories
         /\ Sorted(list.order, Displayed(list))
<1> DEFINE S == D \ list.archived
           ids == Displayed(list)
<1>1. ids = CHOOSE s \in SetToSeqs(S) : \A x, y \in DOMAIN s : x < y => Before(list.order, s[x], s[y])
  BY DEF Displayed
<1>2. \E s \in SetToSeqs(S) : \A x, y \in DOMAIN s : x < y => Before(list.order, s[x], s[y])
  BY SortedExists
<1>3. ids \in SetToSeqs(S) /\ \A x, y \in DOMAIN ids : x < y => Before(list.order, ids[x], ids[y])
  <2> HIDE DEF ids, S
  <2> QED
    BY <1>1, <1>2
<1>4. Cardinality(S) \in Nat /\ Cardinality(S) <= NumCategories
  BY CategoriesFinite
<1>5. ids \in [1 .. Cardinality(S) -> S]
  BY <1>3 DEF SetToSeqs
<1>6. ids \in Seq(Categories) /\ Len(ids) = Cardinality(S)
  <2> HIDE DEF ids
  <2>1. ids \in [1 .. Cardinality(S) -> Categories]
    BY <1>5
  <2> HIDE DEF S
  <2> QED
    BY <1>4, <2>1
<1> QED
  BY <1>3, <1>4, <1>6 DEF Sorted

\* d is the call c at another stage.
SameListCall(c, d) ==
  /\ d.kind = c.kind
  /\ c.kind = "refresh" => d.purpose = c.purpose
  /\ c.kind = "reorder" => d.ids = c.ids /\ d.fresh = c.fresh

LEMMA ListKinds ==
  ASSUME calls \in Seq(ListCalls), NEW i \in DOMAIN calls
  PROVE  /\ calls[i].kind \in {"refresh", "archive", "reorder"}
         /\ calls[i].stage \in Stages
         /\ calls[i].kind = "refresh" => calls[i].purpose \in Purposes
         /\ calls[i].kind = "archive" => calls[i].category \in Categories
         /\ calls[i].kind = "reorder" =>
              calls[i].ids \in Seq(Categories) /\ calls[i].pair \in SUBSET Categories
<1>1. calls[i] \in ListCalls
  OBVIOUS
<1> QED
  BY <1>1 DEF ListCalls

LEMMA ListAnswered ==
  ASSUME calls \in Seq(ListCalls), NEW i \in DOMAIN calls, NEW a, Answered(i, a),
         \/ calls[i].kind \in {"refresh", "reorder"} /\ a \in ListAnswers
         \/ calls[i].kind = "archive" /\ a \in Nat
  PROVE  \E d \in ListCalls :
           /\ calls' \in Seq(ListCalls) /\ Made(calls', calls, DOMAIN calls \ {i}, {d})
           /\ SameListCall(calls[i], d) /\ d.stage = "done" /\ d.answer = a
<1> DEFINE d == [[calls[i] EXCEPT !.stage = "done"] EXCEPT !.answer = a]
<1>1. calls[i] \in ListCalls
  OBVIOUS
<1>2. d \in ListCalls /\ SameListCall(calls[i], d) /\ d.stage = "done" /\ d.answer = a
  BY <1>1 DEF ListCalls, Stages, SameListCall
<1>3. calls' = [calls EXCEPT ![i] = d]
  BY DEF Answered
<1> HIDE DEF d
<1>4. calls' \in Seq(ListCalls) /\ Made(calls', calls, DOMAIN calls \ {i}, {d})
  BY <1>2, <1>3, ReplacedMade
<1> QED
  BY <1>2, <1>4

LEMMA ListLost ==
  ASSUME calls \in Seq(ListCalls), NEW i \in DOMAIN calls,
         calls' = [calls EXCEPT ![i].stage = "failed"]
  PROVE  \E d \in ListCalls :
           /\ calls' \in Seq(ListCalls) /\ Made(calls', calls, DOMAIN calls \ {i}, {d})
           /\ SameListCall(calls[i], d) /\ d.stage = "failed"
<1> DEFINE d == [calls[i] EXCEPT !.stage = "failed"]
<1>1. calls[i] \in ListCalls
  OBVIOUS
<1>2. d \in ListCalls /\ SameListCall(calls[i], d) /\ d.stage = "failed"
  BY <1>1 DEF ListCalls, Stages, SameListCall
<1>3. calls' = [calls EXCEPT ![i] = d]
  OBVIOUS
<1> HIDE DEF d
<1>4. calls' \in Seq(ListCalls) /\ Made(calls', calls, DOMAIN calls \ {i}, {d})
  BY <1>2, <1>3, ReplacedMade
<1> QED
  BY <1>2, <1>4

-----------------------------------------------------------------------------
(* What a step leaves of the parts of the invariant.                       *)

\* A call stays sound while the list on the screen is the same, and the order
\* too unless the call is not a move on its way.
LEMMA SoundKept ==
  ASSUME version \in Nat, version' \in Nat, version <= version', shown' = shown,
         NEW c, CallSound(c),
         order' = order \/ ~(c.kind = "reorder" /\ c.stage = "sent")
  PROVE  CallSound(c)'
<1>1. c.stage = "done" /\ c.kind \in {"refresh", "reorder"} =>
        c.answer \in ListAnswers /\ c.answer.at <= version'
  BY DEF CallSound, ListAnswers
<1>2. c.stage = "done" /\ c.kind = "archive" => c.answer \in Nat /\ c.answer <= version'
  BY DEF CallSound
<1>3. ASSUME c.kind = "reorder" /\ c.stage = "sent" /\ c.honest PROVE OneSwap(c)'
  <2>1. OneSwap(c) /\ order' = order
    BY <1>3 DEF CallSound
  <2> QED
    BY <2>1 DEF OneSwap, Sorted, Before
<1> QED
  BY <1>1, <1>2, <1>3 DEF CallSound

LEMMA AllSoundKept ==
  ASSUME AllSound, NEW J \in SUBSET (DOMAIN calls), NEW N, Made(calls', calls, J, N),
         version \in Nat, version' \in Nat, version <= version', shown' = shown,
         \/ order' = order
         \/ \A j \in J : ~(calls[j].kind = "reorder" /\ calls[j].stage = "sent"),
         \A c \in N : CallSound(c)'
  PROVE  AllSound'
<1>1. \A c : CallSound(c) /\ (order' = order \/ ~(c.kind = "reorder" /\ c.stage = "sent"))
             => CallSound(c)'
  BY SoundKept
<1>2. \A k \in DOMAIN calls' : calls'[k] \in N \/ \E j \in J : calls'[k] = calls[j]
  BY DEF Made
<1>3. \A j \in J : CallSound(calls[j])
  BY DEF AllSound
<1> QED
  BY <1>1, <1>2, <1>3 DEF AllSound

\* Call i is replaced by one that holds the arrows back like it, or not like it.
LEMMA HoldsReplaced ==
  ASSUME OneHolds, NEW i \in DOMAIN calls, NEW d,
         Made(calls', calls, DOMAIN calls \ {i}, {d}),
         Holds(d) <=> Holds(calls[i]), reordering' = reordering
  PROVE  OneHolds'
<1> DEFINE J == DOMAIN calls \ {i}
<1>1. ASSUME NEW k \in DOMAIN calls', NEW l \in DOMAIN calls', k # l,
             Holds(calls'[k]), Holds(calls'[l])
      PROVE  FALSE
  <2>1. \/ \E m, j \in J : m # j /\ calls'[k] = calls[m] /\ calls'[l] = calls[j]
        \/ calls'[k] = d /\ \E j \in J : calls'[l] = calls[j]
        \/ calls'[l] = d /\ \E j \in J : calls'[k] = calls[j]
    BY <1>1 DEF Made
  <2> QED
    BY <1>1, <2>1 DEF OneHolds
<1>2. ASSUME NEW j \in DOMAIN calls, Holds(calls[j]) PROVE \E k \in DOMAIN calls' : Holds(calls'[k])
  BY <1>2 DEF Made
<1>3. ASSUME NEW k \in DOMAIN calls', Holds(calls'[k]) PROVE \E j \in DOMAIN calls : Holds(calls[j])
  BY <1>3 DEF Made
<1> QED
  BY <1>1, <1>2, <1>3 DEF OneHolds

LEMMA HoldsRemoved ==
  ASSUME OneHolds, NEW i \in DOMAIN calls, Made(calls', calls, DOMAIN calls \ {i}, {}),
         reordering' <=> (reordering /\ ~Holds(calls[i])), reordering' \in BOOLEAN
  PROVE  OneHolds'
<1> DEFINE J == DOMAIN calls \ {i}
<1>1. ASSUME NEW k \in DOMAIN calls', NEW l \in DOMAIN calls', k # l,
             Holds(calls'[k]), Holds(calls'[l])
      PROVE  FALSE
  <2>1. \E m, j \in J : m # j /\ calls'[k] = calls[m] /\ calls'[l] = calls[j]
    BY <1>1 DEF Made
  <2> QED
    BY <1>1, <2>1 DEF OneHolds
<1>2. ASSUME reordering' PROVE \E k \in DOMAIN calls' : Holds(calls'[k])
  <2>1. PICK j \in DOMAIN calls : Holds(calls[j])
    BY <1>2 DEF OneHolds
  <2>2. j \in J
    BY <1>2, <2>1
  <2> QED
    BY <2>1, <2>2 DEF Made
<1>3. ASSUME NEW k \in DOMAIN calls', Holds(calls'[k]) PROVE reordering'
  <2>1. PICK j \in J : calls'[k] = calls[j]
    BY DEF Made
  <2> QED
    BY <1>3, <2>1 DEF OneHolds
<1> QED
  BY <1>1, <1>2, <1>3 DEF OneHolds

LEMMA HoldsAdded ==
  ASSUME OneHolds, NEW d, Made(calls', calls, DOMAIN calls, {d}),
         Holds(d) => ~reordering, reordering' <=> (reordering \/ Holds(d)), reordering' \in BOOLEAN
  PROVE  OneHolds'
<1>1. ASSUME NEW k \in DOMAIN calls', NEW l \in DOMAIN calls', k # l,
             Holds(calls'[k]), Holds(calls'[l])
      PROVE  FALSE
  <2>1. \/ \E m, j \in DOMAIN calls : m # j /\ calls'[k] = calls[m] /\ calls'[l] = calls[j]
        \/ calls'[k] = d /\ \E j \in DOMAIN calls : calls'[l] = calls[j]
        \/ calls'[l] = d /\ \E j \in DOMAIN calls : calls'[k] = calls[j]
    BY <1>1 DEF Made
  <2> QED
    BY <1>1, <2>1 DEF OneHolds
<1>2. ASSUME NEW j \in DOMAIN calls, Holds(calls[j]) PROVE \E k \in DOMAIN calls' : Holds(calls'[k])
  BY <1>2 DEF Made
<1>3. \E k \in DOMAIN calls' : calls'[k] = d
  BY DEF Made
<1>4. ASSUME NEW k \in DOMAIN calls', Holds(calls'[k])
      PROVE  Holds(d) \/ \E j \in DOMAIN calls : Holds(calls[j])
  BY <1>4 DEF Made
<1>5. reordering' => \E k \in DOMAIN calls' : Holds(calls'[k])
  BY <1>2, <1>3 DEF OneHolds
<1>6. (\E k \in DOMAIN calls' : Holds(calls'[k])) => reordering'
  BY <1>4 DEF OneHolds
<1> QED
  BY <1>1, <1>5, <1>6 DEF OneHolds

IsLoad(c) == c.kind = "refresh" /\ c.purpose = "load"

LEMMA LoadKept ==
  ASSUME LoadAwaited, NEW J \in SUBSET (DOMAIN calls), NEW N, Made(calls', calls, J, N),
         loading' => loading,
         loading' => \A j \in DOMAIN calls : IsLoad(calls[j]) => j \in J \/ \E c \in N : IsLoad(c)
  PROVE  LoadAwaited'
<1>1. ASSUME loading' PROVE \E k \in DOMAIN calls' : IsLoad(calls'[k])
  <2>1. PICK j \in DOMAIN calls : IsLoad(calls[j])
    BY <1>1 DEF LoadAwaited, IsLoad
  <2>2. CASE j \in J
    BY <2>1, <2>2 DEF Made
  <2>3. CASE \E c \in N : IsLoad(c)
    BY <2>3 DEF Made
  <2> QED
    BY <1>1, <2>1, <2>2, <2>3
<1> QED
  BY <1>1 DEF LoadAwaited, IsLoad

\* The call brings, or may still bring, what the page owes.
Brings(c, v) == c.kind = "refresh" /\ (c.stage = "done" => v <= c.answer.at)

LEMMA OwedKept ==
  ASSUME OwedAwaited, NEW J \in SUBSET (DOMAIN calls), NEW N, Made(calls', calls, J, N),
         UNCHANGED <<tangled, owed, shown>>,
         \A j \in DOMAIN calls :
           Brings(calls[j], owed) => j \in J \/ \E c \in N : Brings(c, owed)
  PROVE  OwedAwaited'
<1>1. CASE \E j \in DOMAIN calls : Brings(calls[j], owed)
  <2>1. PICK j \in DOMAIN calls : Brings(calls[j], owed)
    BY <1>1
  <2>2. \E k \in DOMAIN calls' : Brings(calls'[k], owed)
    <3>1. CASE j \in J
      BY <2>1, <3>1 DEF Made
    <3>2. CASE \E c \in N : Brings(c, owed)
      BY <3>2 DEF Made
    <3> QED
      BY <2>1, <3>1, <3>2
  <2> QED
    BY <2>2 DEF OwedAwaited, Brings
<1> QED
  BY <1>1 DEF OwedAwaited, Brings

LEMMA OwedAsked ==
  ASSUME NEW J \in SUBSET (DOMAIN calls), NEW N, Made(calls', calls, J, N),
         NEW c \in N, c.kind = "refresh", c.stage = "sent"
  PROVE  OwedAwaited'
<1>1. PICK k \in DOMAIN calls' : calls'[k] = c
  BY DEF Made
<1> QED
  BY <1>1 DEF OwedAwaited

LEMMA ReorderedIs ==
  ASSUME order \in Orders, NEW ids \in Seq(Categories), Len(ids) <= NumCategories,
         NEW n \in 0 .. Len(ids)
  PROVE  Reordered(ids, n) \in Orders
<1>1. NumCategories \in Nat /\ Len(ids) \in Nat
  BY ListAssumption
<1>2. ASSUME NEW c \in Categories
      PROVE  (IF \E k \in 1 .. n : ids[k] = c THEN (CHOOSE k \in 1 .. n : ids[k] = c) - 1
              ELSE order[c]) \in 0 .. NumCategories
  <2> DEFINE p == CHOOSE k \in 1 .. n : ids[k] = c
  <2>1. CASE \E k \in 1 .. n : ids[k] = c
    <3>1. p \in 1 .. n
      BY <2>1
    <3> HIDE DEF p
    <3>2. p - 1 \in 0 .. NumCategories
      BY <1>1, <3>1
    <3> QED
      BY <2>1, <3>2 DEF p
  <2>2. CASE ~ \E k \in 1 .. n : ids[k] = c
    BY <2>2 DEF Orders
  <2> QED
    BY <2>1, <2>2
<1> QED
  BY <1>2 DEF Reordered, Orders

\* A call is carried out or lost.
LEMMA ListMovedStep ==
  ASSUME ListTypes, ListWire, NEW i \in DOMAIN calls, NEW d \in ListCalls,
         calls' \in Seq(ListCalls), Made(calls', calls, DOMAIN calls \ {i}, {d}),
         SameListCall(calls[i], d), CallSound(d)',
         d.kind = "refresh" /\ d.stage = "done" => owed <= d.answer.at,
         UNCHANGED <<shown, reordering, loading, owed, tangled>>,
         version' = version \/ version' = version + 1,
         order' \in Orders, archived' \subseteq Categories,
         order' = order \/ calls[i].kind = "reorder"
  PROVE  ListTypes' /\ ListWire'
<1> DEFINE J == DOMAIN calls \ {i}
<1>0. calls \in Seq(ListCalls) /\ AllSound /\ OneHolds /\ LoadAwaited /\ OwedAwaited
  BY DEF ListWire
<1>1. version \in Nat /\ version' \in Nat /\ version <= version' /\ owed \in Nat
  BY DEF ListTypes
<1>2. ListTypes'
  <2>1. owed' <= version' /\ shown'.at <= version'
    <3>1. shown.at \in Nat
      BY DEF ListTypes, ListAnswers, Blank
    <3> QED
      BY <1>1, <3>1 DEF ListTypes
  <2> QED
    BY <1>1, <2>1 DEF ListTypes
<1>3. order' = order \/ \A j \in J : ~(calls[j].kind = "reorder" /\ calls[j].stage = "sent")
  BY <1>0 DEF OneHolds, Holds
<1>4. AllSound'
  BY <1>0, <1>1, <1>3, AllSoundKept
<1>5. OneHolds'
  <2>1. Holds(d) <=> Holds(calls[i])
    BY DEF Holds, SameListCall
  <2> QED
    BY <1>0, <2>1, HoldsReplaced
<1>6. LoadAwaited'
  <2>1. \A j \in DOMAIN calls : IsLoad(calls[j]) => j \in J \/ IsLoad(d)
    BY DEF IsLoad, SameListCall
  <2> QED
    BY <1>0, <2>1, LoadKept
<1>7. OwedAwaited'
  <2>1. \A j \in DOMAIN calls : Brings(calls[j], owed) => j \in J \/ Brings(d, owed)
    BY DEF Brings, SameListCall
  <2> QED
    BY <1>0, <2>1, OwedKept
<1> QED
  BY <1>2, <1>4, <1>5, <1>6, <1>7 DEF ListWire

LEMMA ListServedStep ==
  ASSUME ListTypes, ListWire, NEW i \in DOMAIN calls,
         \/ ServeRefresh(i) \/ ServeArchive(i) \/ ServeReorder(i) \/ ServeReorderPartly(i)
         \/ Lost(i) /\ UNCHANGED listVars
  PROVE  ListTypes' /\ ListWire'
<1> DEFINE c == calls[i]
<1>0. calls \in Seq(ListCalls) /\ CallSound(c) /\ AllSound
  BY DEF ListWire, AllSound
<1>1. /\ version \in Nat /\ version + 1 \in Nat /\ owed \in Nat /\ owed <= version
      /\ order \in Orders /\ archived \subseteq Categories
      /\ shown.at \in Nat /\ shown.at <= version
  BY DEF ListTypes, ListAnswers, Blank
<1>2. ASSUME calls' = [calls EXCEPT ![i].stage = "failed"],
             UNCHANGED <<shown, reordering, loading, owed, tangled>>,
             version' = version \/ version' = version + 1,
             order' \in Orders, archived' \subseteq Categories,
             order' = order \/ c.kind = "reorder"
      PROVE  ListTypes' /\ ListWire'
  <2>1. PICK d \in ListCalls :
          /\ calls' \in Seq(ListCalls) /\ Made(calls', calls, DOMAIN calls \ {i}, {d})
          /\ SameListCall(c, d) /\ d.stage = "failed"
    BY <1>0, <1>2, ListLost
  <2>2. CallSound(d)'
    BY <1>0, <2>1 DEF CallSound, SameListCall
  <2> QED
    BY <1>2, <2>1, <2>2, ListMovedStep
<1>3. CASE ServeRefresh(i)
  <2>1. /\ c.kind = "refresh" /\ Answered(i, Stored)
        /\ UNCHANGED <<order, archived, version, shown, reordering, loading, owed, tangled>>
    BY <1>3 DEF ServeRefresh, Stage
  <2>2. Stored \in ListAnswers /\ Stored.at = version
    BY <1>1 DEF Stored, ListAnswers
  <2>3. PICK d \in ListCalls :
          /\ calls' \in Seq(ListCalls) /\ Made(calls', calls, DOMAIN calls \ {i}, {d})
          /\ SameListCall(c, d) /\ d.stage = "done" /\ d.answer = Stored
    BY <1>0, <2>1, <2>2, ListAnswered
  <2>4. CallSound(d)'
    BY <1>1, <2>1, <2>2, <2>3 DEF CallSound, SameListCall
  <2>5. owed <= d.answer.at
    BY <1>1, <2>2, <2>3
  <2> QED
    BY <1>1, <2>1, <2>3, <2>4, <2>5, ListMovedStep
<1>4. CASE ServeArchive(i)
  <2>1. /\ c.kind = "archive" /\ Answered(i, version') /\ version' = version + 1
        /\ UNCHANGED <<order, shown, reordering, loading, owed, tangled>>
        /\ archived' = IF c.to THEN archived \cup {c.category} ELSE archived \ {c.category}
    BY <1>4 DEF ServeArchive, Stage
  <2>2. archived' \subseteq Categories
    BY <1>0, <1>1, <2>1, ListKinds
  <2>3. PICK d \in ListCalls :
          /\ calls' \in Seq(ListCalls) /\ Made(calls', calls, DOMAIN calls \ {i}, {d})
          /\ SameListCall(c, d) /\ d.stage = "done" /\ d.answer = version'
    BY <1>0, <1>1, <2>1, ListAnswered
  <2>4. CallSound(d)'
    BY <1>1, <2>1, <2>3 DEF CallSound, SameListCall
  <2>5. d.kind = "archive"
    BY <2>1, <2>3 DEF SameListCall
  <2> QED
    BY <1>1, <2>1, <2>2, <2>3, <2>4, <2>5, ListMovedStep
<1>5. ASSUME c.kind = "reorder"
      PROVE  c.ids \in Seq(Categories) /\ Len(c.ids) \in Nat /\ Len(c.ids) <= NumCategories
  BY <1>0, <1>5, ListKinds DEF CallSound
<1>6. CASE ServeReorder(i)
  <2> DEFINE a == [order |-> order', archived |-> archived, at |-> version']
  <2>1. /\ c.kind = "reorder" /\ Answered(i, a) /\ version' = version + 1
        /\ UNCHANGED <<archived, shown, reordering, loading, owed, tangled>>
        /\ order' = Reordered(c.ids, Len(c.ids))
    BY <1>6 DEF ServeReorder, Stage
  <2>2. order' \in Orders
    BY <1>1, <1>5, <2>1, ReorderedIs
  <2>3. a \in ListAnswers /\ a.at = version'
    BY <1>1, <2>1, <2>2 DEF ListAnswers
  <2> HIDE DEF a
  <2>4. PICK d \in ListCalls :
          /\ calls' \in Seq(ListCalls) /\ Made(calls', calls, DOMAIN calls \ {i}, {d})
          /\ SameListCall(c, d) /\ d.stage = "done" /\ d.answer = a
    BY <1>0, <2>1, <2>3, ListAnswered
  <2>5. CallSound(d)'
    BY <1>1, <1>5, <2>1, <2>3, <2>4 DEF CallSound, SameListCall
  <2>6. d.kind = "reorder"
    BY <2>1, <2>4 DEF SameListCall
  <2> QED
    BY <1>1, <2>1, <2>2, <2>4, <2>5, <2>6, ListMovedStep
<1>7. CASE ServeReorderPartly(i)
  <2>1. /\ c.kind = "reorder" /\ version' = version + 1
        /\ calls' = [calls EXCEPT ![i].stage = "failed"]
        /\ UNCHANGED <<archived, shown, reordering, loading, owed, tangled>>
        /\ \E n \in 1 .. Len(c.ids) - 1 : order' = Reordered(c.ids, n)
    BY <1>7 DEF ServeReorderPartly, Stage
  <2>2. order' \in Orders
    <3>1. PICK n \in 1 .. Len(c.ids) - 1 : order' = Reordered(c.ids, n)
      BY <2>1
    <3>2. n \in 0 .. Len(c.ids)
      BY <1>5, <2>1
    <3> QED
      BY <1>1, <1>5, <2>1, <3>1, <3>2, ReorderedIs
  <2> QED
    BY <1>1, <1>2, <2>1, <2>2
<1>8. CASE Lost(i) /\ UNCHANGED listVars
  BY <1>1, <1>2, <1>8 DEF Lost, listVars
<1> QED
  BY <1>3, <1>4, <1>6, <1>7, <1>8

LEMMA ExchangeTwice ==
  ASSUME NEW S, NEW s \in Seq(S), NEW m \in 1 .. Len(s) - 1
  PROVE  /\ Exchange(s, m) \in Seq(S) /\ Len(Exchange(s, m)) = Len(s)
         /\ Exchange(s, m)[m] = s[m + 1] /\ Exchange(s, m)[m + 1] = s[m]
         /\ Exchange(Exchange(s, m), m) = s
<1>0. Len(s) \in Nat /\ m \in DOMAIN s /\ m + 1 \in DOMAIN s /\ DOMAIN s = 1 .. Len(s) /\ m # m + 1
  OBVIOUS
<1> DEFINE t == Exchange(s, m)
           u == Exchange(t, m)
<1>1. /\ t = [k \in DOMAIN s |-> IF k = m + 1 THEN s[m] ELSE IF k = m THEN s[m + 1] ELSE s[k]]
  BY <1>0 DEF Exchange
<1>2. t \in Seq(S) /\ Len(t) = Len(s) /\ DOMAIN t = DOMAIN s
  BY <1>0, <1>1
<1>3. t[m] = s[m + 1] /\ t[m + 1] = s[m]
  BY <1>0, <1>1
<1>4. \A k \in DOMAIN s : k # m /\ k # m + 1 => t[k] = s[k]
  BY <1>1
<1> HIDE DEF t
<1>5. u = [k \in DOMAIN t |-> IF k = m + 1 THEN t[m] ELSE IF k = m THEN t[m + 1] ELSE t[k]]
  BY <1>0, <1>2 DEF Exchange
<1>6. u = [k \in DOMAIN s |-> s[k]]
  BY <1>2, <1>3, <1>4, <1>5
<1>7. u = s
  BY <1>6
<1> QED
  BY <1>2, <1>3, <1>7 DEF t

LEMMA ArchiveStep ==
  ASSUME ListTypes, ListWire, NEW g \in Categories, Archive(g)
  PROVE  ListTypes' /\ ListWire'
<1> DEFINE e == [kind |-> "archive", stage |-> "sent", answer |-> None, category |-> g,
                 to |-> g \notin shown.archived]
<1>0. calls \in Seq(ListCalls) /\ AllSound /\ OneHolds /\ LoadAwaited /\ OwedAwaited
  BY DEF ListWire
<1>1. /\ calls' = Append(calls, e)
      /\ UNCHANGED <<order, archived, version, shown, reordering, loading, owed, tangled>>
  BY DEF Archive
<1>2. e \in ListCalls /\ e.kind = "archive" /\ e.stage = "sent"
  BY DEF ListCalls, Stages
<1> HIDE DEF e
<1>a. PICK d \in ListCalls : d = e
  BY <1>2
<1>3. calls' \in Seq(ListCalls) /\ Made(calls', calls, DOMAIN calls, {d})
  BY <1>0, <1>1, <1>a, AppendedMade, AppendProperties
<1>4. ListTypes'
  BY <1>1 DEF ListTypes
<1>5. CallSound(d)' /\ ~Holds(d) /\ version \in Nat
  BY <1>2, <1>a DEF CallSound, Holds, ListTypes
<1>6. AllSound'
  BY <1>0, <1>1, <1>3, <1>5, AllSoundKept
<1>7. OneHolds'
  <2>1. reordering' \in BOOLEAN
    BY <1>1 DEF ListTypes
  <2> QED
    BY <1>0, <1>1, <1>3, <1>5, <2>1, HoldsAdded
<1>8. LoadAwaited' /\ OwedAwaited'
  BY <1>0, <1>1, <1>3, LoadKept, OwedKept
<1> QED
  BY <1>3, <1>4, <1>6, <1>7, <1>8 DEF ListWire

LEMMA MoveStep ==
  ASSUME ListTypes, ListWire, NEW i \in Categories, Move(i)
  PROVE  ListTypes' /\ ListWire'
<1> DEFINE s == Displayed(shown)
           e == [kind |-> "reorder", stage |-> "sent", answer |-> None,
                 ids |-> Exchange(s, i), pair |-> {s[i], s[i + 1]}, fresh |-> TRUE,
                 honest |-> shown.order = order]
<1>0. calls \in Seq(ListCalls) /\ AllSound /\ OneHolds /\ LoadAwaited /\ OwedAwaited
  BY DEF ListWire
<1>1. /\ calls' = Append(calls, e) /\ i \in 1 .. Len(s) - 1
      /\ reordering' = TRUE /\ ~reordering
      /\ UNCHANGED <<order, archived, version, shown, loading, owed, tangled>>
  BY DEF Move, MayMove, Exchange
<1>2. s \in Seq(Categories) /\ Len(s) <= NumCategories /\ Sorted(shown.order, s)
  <2>1. CASE shown = Blank
    <3>1. shown.order \in [{} -> Nat] /\ {} \in SUBSET Categories
      BY <2>1 DEF Blank
    <3> QED
      BY <3>1, DisplayedIs
  <2>2. CASE shown \in ListAnswers
    <3>1. shown.order \in [Categories -> 0 .. NumCategories]
      BY <2>2 DEF ListAnswers, Orders
    <3>2. 0 .. NumCategories \subseteq Nat
      BY ListAssumption
    <3>3. shown.order \in [Categories -> Nat]
      BY <3>1, <3>2
    <3> QED
      BY <3>3, DisplayedIs
  <2> QED
    BY <2>1, <2>2 DEF ListTypes
<1> HIDE DEF s
<1>3. /\ Exchange(s, i) \in Seq(Categories) /\ Len(Exchange(s, i)) = Len(s)
      /\ Exchange(s, i)[i] = s[i + 1] /\ Exchange(s, i)[i + 1] = s[i]
      /\ Exchange(Exchange(s, i), i) = s
  BY <1>1, <1>2, ExchangeTwice
<1>4. s[i] \in Categories /\ s[i + 1] \in Categories
  <2>1. i \in 1 .. Len(s) /\ i + 1 \in 1 .. Len(s)
    BY <1>1, <1>2
  <2> QED
    BY <1>2, <2>1
<1>a. /\ e \in ListCalls /\ e.kind = "reorder" /\ e.stage = "sent"
      /\ e.ids = Exchange(s, i) /\ e.pair = {s[i], s[i + 1]}
      /\ e.honest => shown.order = order
  <2>1. e \in ListCalls
    BY <1>3, <1>4 DEF ListCalls, Stages
  <2> QED
    BY <2>1
<1> HIDE DEF e
<1>5. PICK d \in ListCalls :
         /\ d = e /\ d.kind = "reorder" /\ d.stage = "sent"
         /\ d.ids = Exchange(s, i) /\ d.pair = {s[i], s[i + 1]}
         /\ d.honest => shown.order = order
  BY <1>a
<1>6. calls' \in Seq(ListCalls) /\ Made(calls', calls, DOMAIN calls, {d})
  BY <1>0, <1>1, <1>5, AppendedMade, AppendProperties
<1>7. ListTypes'
  BY <1>1 DEF ListTypes
<1>8. CallSound(d)'
  <2>1. Len(d.ids) <= NumCategories
    BY <1>2, <1>3, <1>5
  <2>2. ASSUME d.honest PROVE OneSwap(d)'
    <3>1. Sorted(order, Exchange(d.ids, i)) /\ d.pair = {d.ids[i], d.ids[i + 1]}
      BY <1>2, <1>3, <1>5, <2>2
    <3>2. i \in 1 .. Len(d.ids) - 1
      BY <1>1, <1>3, <1>5
    <3>3. Sorted(order', Exchange(d.ids, i))
      BY <1>1, <3>1
    <3> QED
      BY <3>1, <3>2, <3>3 DEF OneSwap
  <2> QED
    BY <1>5, <2>1, <2>2 DEF CallSound
<1>9. AllSound'
  <2>1. version \in Nat
    BY DEF ListTypes
  <2> QED
    BY <1>0, <1>1, <1>6, <1>8, <2>1, AllSoundKept
<1>10. OneHolds'
  <2>1. Holds(d)
    BY <1>5 DEF Holds
  <2> QED
    BY <1>0, <1>1, <1>6, <2>1, HoldsAdded
<1>11. LoadAwaited' /\ OwedAwaited'
  BY <1>0, <1>1, <1>6, LoadKept, OwedKept
<1> QED
  BY <1>6, <1>7, <1>9, <1>10, <1>11 DEF ListWire

LEMMA RefreshIs ==
  ASSUME NEW p \in Purposes
  PROVE  /\ Refresh(p) \in ListCalls /\ Refresh(p).kind = "refresh"
         /\ Refresh(p).stage = "sent" /\ Refresh(p).purpose = p
BY DEF Refresh, ListCalls, Stages

LEMMA LaterIs ==
  ASSUME NEW v \in Nat, NEW w \in Nat
  PROVE  /\ Later(v, w) \in Nat /\ v <= Later(v, w) /\ w <= Later(v, w)
         /\ \A x \in Nat : v <= x /\ w <= x => Later(v, w) <= x
BY DEF Later

\* What an answer says is no newer than what is stored.
LEMMA DoneIs ==
  ASSUME ListTypes, ListWire, NEW i \in DOMAIN calls, calls[i].stage = "done"
  PROVE  /\ calls[i].kind \in {"refresh", "reorder"} =>
              /\ calls[i].answer \in ListAnswers
              /\ calls[i].answer.at \in Nat /\ calls[i].answer.at <= version
         /\ calls[i].kind = "archive" => calls[i].answer \in Nat /\ calls[i].answer <= version
         /\ calls[i].kind = "reorder" /\ calls[i].fresh => shown.at < calls[i].answer.at
<1>1. CallSound(calls[i])
  BY DEF ListWire, AllSound
<1> QED
  BY <1>1 DEF CallSound, ListAnswers

LEMMA ListNumbers ==
  ASSUME ListTypes
  PROVE  version \in Nat /\ owed \in Nat /\ owed <= version /\ shown.at \in Nat /\ shown.at <= version
BY DEF ListTypes, ListAnswers, Blank

\* A handler that reads the list again.
LEMMA AskedStep ==
  ASSUME ListTypes, ListWire, NEW i \in DOMAIN calls, NEW p \in Purposes,
         Handled(i, <<Refresh(p)>>), Holds(calls[i]) <=> p \in InReorder,
         ~IsLoad(calls[i]),
         owed' \in Nat, owed' <= version,
         UNCHANGED <<order, archived, version, shown, reordering, loading, tangled>>
  PROVE  ListTypes' /\ ListWire'
<1>0. calls \in Seq(ListCalls) /\ AllSound /\ OneHolds /\ LoadAwaited /\ OwedAwaited
  BY DEF ListWire
<1>1. PICK d \in ListCalls : d = Refresh(p) /\ d.kind = "refresh" /\ d.stage = "sent" /\ d.purpose = p
  BY RefreshIs
<1>2. calls' \in Seq(ListCalls) /\ Made(calls', calls, DOMAIN calls \ {i}, {d})
  BY <1>0, <1>1, HandledThenOne
<1>3. ListTypes'
  BY DEF ListTypes
<1>4. AllSound'
  <2>1. CallSound(d)'
    BY <1>1 DEF CallSound
  <2> QED
    BY <1>0, <1>2, <2>1, ListNumbers, AllSoundKept
<1>5. OneHolds'
  <2>1. Holds(d) <=> p \in InReorder
    BY <1>1 DEF Holds
  <2> QED
    BY <1>0, <1>2, <2>1, HoldsReplaced
<1>6. LoadAwaited'
  <2>1. \A j \in DOMAIN calls : IsLoad(calls[j]) => j \in DOMAIN calls \ {i}
    OBVIOUS
  <2> QED
    BY <1>0, <1>2, <2>1, LoadKept
<1>7. OwedAwaited'
  BY <1>1, <1>2, OwedAsked
<1> QED
  BY <1>2, <1>3, <1>4, <1>5, <1>6, <1>7 DEF ListWire

LEMMA ArchiveDoneStep ==
  ASSUME ListTypes, ListWire, NEW i \in DOMAIN calls, ArchiveDone(i)
  PROVE  ListTypes' /\ ListWire'
<1>1. /\ calls[i].kind = "archive" /\ calls[i].stage = "done" /\ Handled(i, <<Refresh("after")>>)
      /\ owed' = Later(owed, calls[i].answer)
      /\ UNCHANGED <<order, archived, version, shown, reordering, loading, tangled>>
  BY DEF ArchiveDone, Stage, AfterSuccess
<1>2. owed' \in Nat /\ owed' <= version
  BY <1>1, ListNumbers, DoneIs, LaterIs
<1>3. ~Holds(calls[i]) /\ ~IsLoad(calls[i]) /\ "after" \notin InReorder /\ "after" \in Purposes
  BY <1>1 DEF Holds, IsLoad, InReorder, Purposes
<1> QED
  BY <1>1, <1>2, <1>3, AskedStep

LEMMA ReorderStaleStep ==
  ASSUME ListTypes, ListWire, NEW i \in DOMAIN calls, ReorderStale(i)
  PROVE  ListTypes' /\ ListWire'
<1>1. /\ calls[i].kind = "reorder" /\ calls[i].stage = "done" /\ Handled(i, <<Refresh("stale")>>)
      /\ owed' = Later(owed, calls[i].answer.at)
      /\ UNCHANGED <<order, archived, version, shown, reordering, loading, tangled>>
  BY DEF ReorderStale, Stage
<1>2. owed' \in Nat /\ owed' <= version
  BY <1>1, ListNumbers, DoneIs, LaterIs
<1>3. Holds(calls[i]) /\ ~IsLoad(calls[i]) /\ "stale" \in InReorder /\ "stale" \in Purposes
  BY <1>1 DEF Holds, IsLoad, InReorder, Purposes
<1> QED
  BY <1>1, <1>2, <1>3, AskedStep

LEMMA ReorderFailedStep ==
  ASSUME ListTypes, ListWire, NEW i \in DOMAIN calls, ReorderFailed(i)
  PROVE  ListTypes' /\ ListWire'
<1>1. /\ calls[i].kind = "reorder" /\ Handled(i, <<Refresh("resync")>>) /\ reordering' = TRUE
      /\ owed' = version
      /\ UNCHANGED <<order, archived, version, shown, loading, tangled>>
  BY DEF ReorderFailed, Stage, AfterFailedMove
<1>2. owed' \in Nat /\ owed' <= version
  BY <1>1, ListNumbers
<1>3. Holds(calls[i]) /\ ~IsLoad(calls[i]) /\ "resync" \in InReorder /\ "resync" \in Purposes
  BY <1>1 DEF Holds, IsLoad, InReorder, Purposes
<1>4. reordering' = reordering
  BY <1>1, <1>3 DEF ListWire, OneHolds, ListTypes
<1> QED
  BY <1>1, <1>2, <1>3, <1>4, AskedStep

LEMMA ArchiveFailedStep ==
  ASSUME ListTypes, ListWire, NEW i \in DOMAIN calls, ArchiveFailed(i)
  PROVE  ListTypes' /\ ListWire'
<1>0. calls \in Seq(ListCalls) /\ AllSound /\ OneHolds /\ LoadAwaited /\ OwedAwaited
  BY DEF ListWire
<1>1. /\ calls[i].kind = "archive" /\ Handled(i, <<>>)
      /\ UNCHANGED <<order, archived, version, shown, reordering, loading, owed, tangled>>
  BY DEF ArchiveFailed, Stage, listVars
<1>2. calls' \in Seq(ListCalls) /\ Made(calls', calls, DOMAIN calls \ {i}, {})
  BY <1>0, <1>1, HandledMade
<1>3. ListTypes'
  BY <1>1 DEF ListTypes
<1>4. AllSound'
  BY <1>0, <1>1, <1>2, ListNumbers, AllSoundKept
<1>5. ~Holds(calls[i]) /\ ~IsLoad(calls[i]) /\ ~Brings(calls[i], owed)
  BY <1>1 DEF Holds, IsLoad, Brings
<1>6. OneHolds'
  <2>1. reordering' \in BOOLEAN
    BY <1>1 DEF ListTypes
  <2> QED
    BY <1>0, <1>1, <1>2, <1>5, <2>1, HoldsRemoved
<1>7. LoadAwaited' /\ OwedAwaited'
  <2>1. /\ \A j \in DOMAIN calls : IsLoad(calls[j]) => j \in DOMAIN calls \ {i}
        /\ \A j \in DOMAIN calls : Brings(calls[j], owed) => j \in DOMAIN calls \ {i}
    BY <1>5
  <2> QED
    BY <1>0, <1>1, <1>2, <2>1, LoadKept, OwedKept
<1> QED
  BY <1>2, <1>3, <1>4, <1>6, <1>7 DEF ListWire

LEMMA RefreshFailedStep ==
  ASSUME ListTypes, ListWire, NEW i \in DOMAIN calls, RefreshFailed(i)
  PROVE  ListTypes' /\ ListWire'
<1> DEFINE c == calls[i]
<1>0. calls \in Seq(ListCalls) /\ AllSound /\ OneHolds /\ LoadAwaited
  BY DEF ListWire
<1>1. /\ c.kind = "refresh" /\ Handled(i, <<>>) /\ owed' = shown.at
      /\ UNCHANGED <<order, archived, version, shown, tangled>>
  BY DEF RefreshFailed, Stage
<1>2. /\ loading' <=> (loading /\ c.purpose # "load")
      /\ reordering' <=> (reordering /\ c.purpose \notin InReorder)
      /\ loading' \in BOOLEAN /\ reordering' \in BOOLEAN
  BY DEF RefreshFailed
<1>3. calls' \in Seq(ListCalls) /\ Made(calls', calls, DOMAIN calls \ {i}, {})
  BY <1>0, <1>1, HandledMade
<1>4. ListTypes'
  <2>1. owed' \in Nat /\ owed' <= version'
    BY <1>1, ListNumbers
  <2> QED
    BY <1>1, <1>2, <2>1 DEF ListTypes
<1>5. AllSound'
  BY <1>0, <1>1, <1>3, ListNumbers, AllSoundKept
<1>6. OneHolds'
  <2>1. Holds(c) <=> c.purpose \in InReorder
    BY <1>1 DEF Holds
  <2> QED
    BY <1>0, <1>2, <1>3, <2>1, HoldsRemoved
<1>7. LoadAwaited'
  <2>1. loading' => \A j \in DOMAIN calls : IsLoad(calls[j]) => j \in DOMAIN calls \ {i}
    BY <1>2 DEF IsLoad
  <2> QED
    BY <1>0, <1>2, <1>3, <2>1, LoadKept
<1>8. OwedAwaited'
  BY <1>1, ListNumbers DEF OwedAwaited
<1> QED
  BY <1>3, <1>4, <1>5, <1>6, <1>7, <1>8 DEF ListWire

LEMMA ReorderDoneStep ==
  ASSUME ListTypes, ListWire, NEW i \in DOMAIN calls, ReorderDone(i)
  PROVE  ListTypes' /\ ListWire'
<1> DEFINE c == calls[i]
           J == DOMAIN calls \ {i}
<1>0. calls \in Seq(ListCalls) /\ AllSound /\ OneHolds /\ LoadAwaited /\ OwedAwaited
  BY DEF ListWire
<1>1. /\ c.kind = "reorder" /\ c.stage = "done" /\ c.fresh /\ Handled(i, <<>>)
      /\ shown' = c.answer /\ reordering' = FALSE /\ owed' = Later(owed, c.answer.at)
      /\ UNCHANGED <<order, archived, version, loading, tangled>>
  BY DEF ReorderDone, Stage, StillCurrent
<1>2. /\ c.answer \in ListAnswers /\ c.answer.at \in Nat /\ c.answer.at <= version
      /\ shown.at < c.answer.at
  BY <1>1, DoneIs
<1>3. calls' \in Seq(ListCalls) /\ Made(calls', calls, J, {})
  BY <1>0, <1>1, HandledMade
<1>4. owed' \in Nat /\ owed' <= version
  BY <1>1, <1>2, ListNumbers, LaterIs
<1>5. ListTypes'
  BY <1>1, <1>2, <1>4 DEF ListTypes
<1>6. Holds(c) /\ ~IsLoad(c) /\ ~Brings(c, owed)
  BY <1>1 DEF Holds, IsLoad, Brings
<1>7. \A k \in DOMAIN calls' : \E j \in J : calls'[k] = calls[j]
  BY <1>3 DEF Made
<1>8. \A j \in J : CallSound(calls[j]) /\ calls[j].kind # "reorder"
  BY <1>0, <1>6 DEF AllSound, OneHolds, Holds
<1>9. AllSound'
  <2>1. \A d : CallSound(d) /\ d.kind # "reorder" => CallSound(d)'
    BY <1>1 DEF CallSound
  <2> QED
    BY <1>7, <1>8, <2>1 DEF AllSound
<1>10. OneHolds'
  <2>1. reordering' <=> (reordering /\ ~Holds(c))
    BY <1>1, <1>6
  <2>2. reordering' \in BOOLEAN
    BY <1>1
  <2> QED
    BY <1>0, <1>3, <2>1, <2>2, HoldsRemoved
<1>11. LoadAwaited'
  <2>1. \A j \in DOMAIN calls : IsLoad(calls[j]) => j \in J
    BY <1>6
  <2> QED
    BY <1>0, <1>1, <1>3, <2>1, LoadKept
<1>12. OwedAwaited'
  <2>1. CASE owed' <= c.answer.at
    BY <1>1, <2>1 DEF OwedAwaited
  <2>2. CASE ~(owed' <= c.answer.at)
    <3>1. owed' = owed /\ ~(owed <= shown.at)
      BY <1>1, <1>2, <2>2, ListNumbers DEF Later
    <3>2. CASE tangled
      BY <1>1, <3>2 DEF OwedAwaited
    <3>3. CASE \E j \in DOMAIN calls : Brings(calls[j], owed)
      <4>1. PICK j \in DOMAIN calls : Brings(calls[j], owed)
        BY <3>3
      <4>2. j \in J
        BY <1>6, <4>1
      <4>3. PICK k \in DOMAIN calls' : calls'[k] = calls[j]
        BY <1>3, <4>2 DEF Made
      <4>4. Brings(calls'[k], owed')
        BY <3>1, <4>1, <4>3
      <4> QED
        BY <4>4 DEF OwedAwaited, Brings
    <3> QED
      BY <1>0, <3>1, <3>2, <3>3 DEF OwedAwaited, Brings
  <2> QED
    BY <2>1, <2>2
<1> QED
  BY <1>3, <1>5, <1>9, <1>10, <1>11, <1>12 DEF ListWire

\* d is the call c after the refresh epoch has advanced.
IsOutdated(c, d) ==
  /\ d \in ListCalls
  /\ d.kind = c.kind /\ d.stage = c.stage /\ d.answer = c.answer
  /\ c.kind = "refresh" => d.purpose = c.purpose
  /\ c.kind = "reorder" =>
       d.ids = c.ids /\ d.pair = c.pair /\ d.honest = c.honest /\ ~d.fresh

LEMMA OutdatedIs ==
  ASSUME NEW cs \in Seq(ListCalls)
  PROVE  /\ Outdated(cs) \in Seq(ListCalls) /\ DOMAIN Outdated(cs) = DOMAIN cs
         /\ \A k \in DOMAIN cs : IsOutdated(cs[k], Outdated(cs)[k])
<1>1. ASSUME NEW k \in DOMAIN cs PROVE IsOutdated(cs[k], Outdated(cs)[k])
  <2>1. cs[k] \in ListCalls
    OBVIOUS
  <2>2. CASE cs[k].kind = "reorder"
    <3>1. Outdated(cs)[k] = [cs[k] EXCEPT !.fresh = FALSE]
      BY <2>2 DEF Outdated
    <3> DEFINE c == cs[k]
               d == [c EXCEPT !.fresh = FALSE]
    <3>2. c \in [kind : {"reorder"}, stage : Stages, answer : {None} \cup ListAnswers,
                 ids : Seq(Categories), pair : SUBSET Categories, fresh : BOOLEAN,
                 honest : BOOLEAN]
      BY <2>1, <2>2 DEF ListCalls
    <3>3. /\ d \in [kind : {"reorder"}, stage : Stages, answer : {None} \cup ListAnswers,
                 ids : Seq(Categories), pair : SUBSET Categories, fresh : BOOLEAN,
                 honest : BOOLEAN]
          /\ d.kind = c.kind /\ d.stage = c.stage /\ d.answer = c.answer
          /\ d.ids = c.ids /\ d.pair = c.pair /\ d.honest = c.honest /\ ~d.fresh
      <4> HIDE DEF c
      <4> QED
        BY <3>2
    <3> QED
      BY <2>2, <3>1, <3>3 DEF IsOutdated, ListCalls
  <2>3. CASE cs[k].kind # "reorder"
    BY <2>1, <2>3 DEF Outdated, IsOutdated
  <2> QED
    BY <2>2, <2>3
<1>2. DOMAIN Outdated(cs) = DOMAIN cs
  BY DEF Outdated
<1>3. \A k \in DOMAIN cs : Outdated(cs)[k] \in ListCalls
  BY <1>1 DEF IsOutdated
<1>4. Outdated(cs) = [k \in DOMAIN cs |-> Outdated(cs)[k]]
  BY DEF Outdated
<1>5. Outdated(cs) \in Seq(ListCalls)
  <2> DEFINE o == Outdated(cs)
  <2> HIDE DEF o
  <2>1. o = [k \in 1 .. Len(cs) |-> o[k]] /\ Len(cs) \in Nat /\ \A k \in 1 .. Len(cs) : o[k] \in ListCalls
    BY <1>3, <1>4 DEF o
  <2>2. o \in [1 .. Len(cs) -> ListCalls]
    BY <2>1
  <2> QED
    BY <2>1, <2>2 DEF o
<1> QED
  BY <1>1, <1>2, <1>5

LEMMA RefreshDoneStep ==
  ASSUME ListTypes, ListWire, NEW i \in DOMAIN calls, RefreshDone(i)
  PROVE  ListTypes' /\ ListWire'
<1> DEFINE c == calls[i]
           J == DOMAIN calls \ {i}
           r == RemoveAt(calls, i)
<1>0. calls \in Seq(ListCalls) /\ AllSound /\ OneHolds /\ LoadAwaited /\ OwedAwaited
  BY DEF ListWire
<1>1. /\ c.kind = "refresh" /\ c.stage = "done" /\ calls' = Outdated(r)
      /\ shown' = c.answer
      /\ UNCHANGED <<order, archived, version, owed>>
  BY DEF RefreshDone, Stage
<1>2. /\ loading' <=> (loading /\ c.purpose # "load")
      /\ reordering' <=> (reordering /\ c.purpose \notin InReorder)
      /\ tangled' <=> (c.answer.at < shown.at \/ (tangled /\ c.answer.at < owed))
      /\ loading' \in BOOLEAN /\ reordering' \in BOOLEAN /\ tangled' \in BOOLEAN
  BY DEF RefreshDone
<1>3. c.answer \in ListAnswers /\ c.answer.at \in Nat /\ c.answer.at <= version
  BY <1>1, DoneIs
<1>4. r \in Seq(ListCalls) /\ Made(r, calls, J, {})
  BY <1>0, RemovedAt, RemovedMade
<1> HIDE DEF r
<1>5. /\ calls' \in Seq(ListCalls) /\ DOMAIN calls' = DOMAIN r
      /\ \A k \in DOMAIN calls' : IsOutdated(r[k], calls'[k])
  BY <1>1, <1>4, OutdatedIs
<1>6. \A k \in DOMAIN calls' : \E j \in J : IsOutdated(calls[j], calls'[k])
  BY <1>4, <1>5 DEF Made
<1>7. \A j \in J : \E k \in DOMAIN calls' : IsOutdated(calls[j], calls'[k])
  <2>1. \A j \in J : \E k \in DOMAIN r : r[k] = calls[j]
    BY <1>4 DEF Made
  <2> QED
    BY <1>5, <2>1
<1>8. ASSUME NEW k \in DOMAIN calls', NEW l \in DOMAIN calls', k # l
      PROVE  \E m, j \in J : /\ m # j /\ IsOutdated(calls[m], calls'[k])
                             /\ IsOutdated(calls[j], calls'[l])
  <2>1. \E m, j \in J : m # j /\ r[k] = calls[m] /\ r[l] = calls[j]
    BY <1>4, <1>5, <1>8 DEF Made
  <2> QED
    BY <1>5, <2>1
<1>9. \A d, e : IsOutdated(d, e) =>
        /\ Holds(e) <=> Holds(d)
        /\ IsLoad(e) <=> IsLoad(d)
        /\ \A v : Brings(e, v) <=> Brings(d, v)
  BY DEF IsOutdated, Holds, IsLoad, Brings
<1>10. ListTypes'
  BY <1>1, <1>2, <1>3 DEF ListTypes
<1>11. AllSound'
  <2>1. \A d, e : IsOutdated(d, e) /\ CallSound(d) => CallSound(e)'
    <3> SUFFICES ASSUME NEW d, NEW e, IsOutdated(d, e), CallSound(d) PROVE CallSound(e)'
      OBVIOUS
    <3>1. e.kind = "reorder" /\ e.stage = "sent" /\ e.honest => OneSwap(e)'
      <4> SUFFICES ASSUME e.kind = "reorder", e.stage = "sent", e.honest PROVE OneSwap(e)'
        OBVIOUS
      <4>1. OneSwap(d) /\ e.ids = d.ids /\ e.pair = d.pair
        BY DEF IsOutdated, CallSound
      <4> QED
        BY <1>1, <4>1 DEF OneSwap, Sorted, Before
    <3> QED
      BY <1>1, <3>1 DEF IsOutdated, CallSound
  <2>2. \A j \in J : CallSound(calls[j])
    BY <1>0 DEF AllSound
  <2> QED
    BY <1>6, <2>1, <2>2 DEF AllSound
<1>12. OneHolds'
  <2>1. Holds(c) <=> c.purpose \in InReorder
    BY <1>1 DEF Holds
  <2>2. ASSUME NEW k \in DOMAIN calls', NEW l \in DOMAIN calls', k # l,
               Holds(calls'[k]), Holds(calls'[l])
        PROVE  FALSE
    <3>1. PICK m \in J, j \in J : /\ m # j /\ IsOutdated(calls[m], calls'[k])
                                  /\ IsOutdated(calls[j], calls'[l])
      BY <1>8, <2>2
    <3>2. Holds(calls[m]) /\ Holds(calls[j])
      BY <1>9, <2>2, <3>1
    <3> QED
      BY <1>0, <3>1, <3>2 DEF OneHolds
  <2>3. ASSUME reordering' PROVE \E k \in DOMAIN calls' : Holds(calls'[k])
    <3>1. PICK j \in DOMAIN calls : Holds(calls[j])
      BY <1>0, <1>2, <2>3 DEF OneHolds
    <3>2. j \in J
      BY <1>2, <2>1, <2>3, <3>1
    <3> QED
      BY <1>7, <1>9, <3>1, <3>2
  <2>4. ASSUME NEW k \in DOMAIN calls', Holds(calls'[k]) PROVE reordering'
    <3>1. PICK j \in J : IsOutdated(calls[j], calls'[k])
      BY <1>6
    <3>2. Holds(calls[j])
      BY <1>9, <2>4, <3>1
    <3>3. reordering /\ ~Holds(c)
      BY <1>0, <3>2 DEF OneHolds
    <3> QED
      BY <1>2, <2>1, <3>3
  <2> QED
    BY <2>2, <2>3, <2>4 DEF OneHolds
<1>13. LoadAwaited'
  <2>1. ASSUME loading' PROVE \E k \in DOMAIN calls' : IsLoad(calls'[k])
    <3>1. loading /\ ~IsLoad(c)
      BY <1>2, <2>1 DEF IsLoad
    <3>2. PICK j \in DOMAIN calls : IsLoad(calls[j])
      BY <1>0, <3>1 DEF LoadAwaited, IsLoad
    <3>3. j \in J
      BY <3>1, <3>2
    <3> QED
      BY <1>7, <1>9, <3>2, <3>3
  <2> QED
    BY <2>1 DEF LoadAwaited, IsLoad
<1>14. OwedAwaited'
  <2>1. CASE tangled' \/ owed <= c.answer.at
    BY <1>1, <2>1 DEF OwedAwaited
  <2>2. CASE ~tangled' /\ ~(owed <= c.answer.at)
    <3>1. ~tangled /\ ~(owed <= shown.at)
      BY <1>2, <1>3, <2>2, ListNumbers
    <3>2. PICK j \in DOMAIN calls : Brings(calls[j], owed)
      BY <1>0, <3>1 DEF OwedAwaited, Brings
    <3>3. j \in J
      BY <1>1, <2>2, <3>2 DEF Brings
    <3>4. PICK k \in DOMAIN calls' : Brings(calls'[k], owed)
      BY <1>7, <1>9, <3>2, <3>3
    <3> QED
      BY <1>1, <3>4 DEF OwedAwaited, Brings
  <2> QED
    BY <2>1, <2>2
<1> QED
  BY <1>5, <1>10, <1>11, <1>12, <1>13, <1>14 DEF ListWire

LEMMA ListStep ==
  ASSUME ListInv, page = "categories", ListNext
  PROVE  ListTypes' /\ ListWire'
<1>0. ListTypes /\ ListWire
  BY DEF ListInv
<1>1. ASSUME NEW i \in DOMAIN calls,
             \/ ServeRefresh(i) \/ ServeArchive(i) \/ ServeReorder(i)
             \/ ServeReorderPartly(i)
      PROVE  ListTypes' /\ ListWire'
  BY <1>0, <1>1, ListServedStep
<1>a. ASSUME NEW i \in DOMAIN calls, Lost(i), UNCHANGED listVars
      PROVE  ListTypes' /\ ListWire'
  BY <1>0, <1>a, ListServedStep
<1>2. ASSUME NEW i \in DOMAIN calls,
             \/ RefreshDone(i) \/ RefreshFailed(i) \/ ArchiveDone(i) \/ ArchiveFailed(i)
             \/ ReorderDone(i) \/ ReorderStale(i) \/ ReorderFailed(i)
      PROVE  ListTypes' /\ ListWire'
  BY <1>0, <1>2, RefreshDoneStep, RefreshFailedStep, ArchiveDoneStep, ArchiveFailedStep,
     ReorderDoneStep, ReorderStaleStep, ReorderFailedStep
<1>3. ASSUME NEW i \in Categories, Move(i) \/ Archive(i)
      PROVE  ListTypes' /\ ListWire'
  BY <1>0, <1>3, MoveStep, ArchiveStep
<1>4. ASSUME NEW i \in DOMAIN calls
      PROVE  /\ ServeRefresh(i) => ListTypes' /\ ListWire'
             /\ ServeArchive(i) => ListTypes' /\ ListWire'
             /\ ServeReorder(i) => ListTypes' /\ ListWire'
             /\ ServeReorderPartly(i) => ListTypes' /\ ListWire'
  BY <1>1
<1>5. ASSUME NEW i \in DOMAIN calls
      PROVE  /\ RefreshDone(i) => ListTypes' /\ ListWire'
             /\ RefreshFailed(i) => ListTypes' /\ ListWire'
             /\ ArchiveDone(i) => ListTypes' /\ ListWire'
             /\ ArchiveFailed(i) => ListTypes' /\ ListWire'
             /\ ReorderDone(i) => ListTypes' /\ ListWire'
             /\ ReorderStale(i) => ListTypes' /\ ListWire'
             /\ ReorderFailed(i) => ListTypes' /\ ListWire'
  BY <1>2
<1> QED
  BY <1>a, <1>3, <1>4, <1>5 DEF ListNext

LEMMA ListInvInit == Init => ListInv
<1> SUFFICES ASSUME Init PROVE ListInv
  OBVIOUS
<1>1. ListTypes
  <2>1. order \in Orders /\ archived \subseteq Categories
    BY ListAssumption DEF Init, ListInit, Orders
  <2>2. /\ version = 0 /\ owed = 0 /\ shown = Blank
        /\ reordering \in BOOLEAN /\ loading \in BOOLEAN /\ tangled \in BOOLEAN
    BY DEF Init, ListInit
  <2>3. shown.at = 0
    BY <2>2 DEF Blank
  <2> QED
    BY <2>1, <2>2, <2>3 DEF ListTypes
<1>2. ASSUME page = "categories" PROVE ListWire
  <2>1. "load" \in Purposes /\ "load" \notin InReorder
    BY DEF Purposes, InReorder
  <2>2. PICK d \in ListCalls : d = Refresh("load") /\ d.kind = "refresh" /\ d.stage = "sent"
                               /\ d.purpose = "load"
    BY <2>1, RefreshIs
  <2>3. calls = <<d>>
    BY <1>2, <2>2 DEF Init, Mount
  <2>4. calls \in Seq(ListCalls) /\ DOMAIN calls = {1} /\ calls[1] = d
    BY <2>3
  <2>5. AllSound
    BY <2>2, <2>4 DEF AllSound, CallSound
  <2>6. OneHolds
    BY <2>1, <2>2, <2>4 DEF OneHolds, Holds, Init, ListInit
  <2>7. LoadAwaited /\ OwedAwaited
    BY <2>2, <2>4 DEF LoadAwaited, OwedAwaited
  <2> QED
    BY <2>4, <2>5, <2>6, <2>7 DEF ListWire
<1> QED
  BY <1>1, <1>2 DEF ListInv

LEMMA ListInvKept == ListInv /\ [Next]_vars => ListInv'
<1> SUFFICES ASSUME ListInv, [Next]_vars PROVE ListInv'
  OBVIOUS
<1>1. CASE page = "categories" /\ Next /\ ListNext
  BY <1>1, ListStep DEF ListInv
<1>2. CASE page # "categories" /\ Next
  <2>1. UNCHANGED listVars /\ page' = page
    BY <1>2 DEF Next
  <2> QED
    BY <1>2, <2>1 DEF ListInv, ListTypes, listVars
<1>3. CASE UNCHANGED vars
  BY <1>3 DEF vars, wireVars, listVars, ListInv, ListTypes, ListWire, AllSound, CallSound, OneSwap,
     OneHolds, LoadAwaited, OwedAwaited
<1>4. page = "categories" /\ Next => ListNext
  BY DEF Next
<1> QED
  BY <1>1, <1>2, <1>3, <1>4

LEMMA ListAtRest ==
  ASSUME ListInv
  PROVE  ListSettles /\ (AtRest /\ page = "categories" => ~reordering /\ ~loading)
<1>1. AtRest => DOMAIN calls = {}
  BY DEF AtRest
<1>2. AtRest /\ page = "categories" => ~reordering /\ ~loading
  BY <1>1 DEF ListInv, ListWire, OneHolds, LoadAwaited
<1>3. AtRest /\ page = "categories" => tangled \/ owed <= shown.at
  BY <1>1 DEF ListInv, ListWire, OwedAwaited
<1>4. owed \in Nat /\ shown.at \in Nat
  BY ListNumbers DEF ListInv
<1> QED
  BY <1>2, <1>3, <1>4 DEF ListSettles

\* Where the place k of a list goes when two neighbours are exchanged.
Across(m, k) == IF k = m THEN m + 1 ELSE IF k = m + 1 THEN m ELSE k

\* A sorted list whose neighbours m and m + 1 are exchanged: any other two
\* categories of it stand as they stood.
LEMMA OnlyTheseTwo ==
  ASSUME NEW o \in [Categories -> Nat], NEW ids \in Seq(Categories),
         NEW m \in 1 .. Len(ids) - 1, Sorted(o, Exchange(ids, m))
  PROVE  /\ \A x, y \in DOMAIN ids : x # y => ids[x] # ids[y]
         /\ Before(o, ids[m + 1], ids[m])
         /\ \A x, y \in DOMAIN ids :
              y < x /\ Before(o, ids[x], ids[y]) => y = m /\ x = m + 1
<1> DEFINE b == Exchange(ids, m)
<1>0. Len(ids) \in Nat /\ DOMAIN ids = 1 .. Len(ids) /\ m \in DOMAIN ids /\ m + 1 \in DOMAIN ids
      /\ m \in Nat
  OBVIOUS
<1>1. /\ b \in Seq(Categories) /\ Len(b) = Len(ids)
      /\ b[m] = ids[m + 1] /\ b[m + 1] = ids[m]
  BY ExchangeTwice
<1>2. \A k \in DOMAIN ids : k # m /\ k # m + 1 => b[k] = ids[k]
  BY <1>0 DEF Exchange
<1>3. \A x, y \in DOMAIN b : x < y => Before(o, b[x], b[y])
  BY DEF Sorted
<1> HIDE DEF b
<1>4. \A k \in DOMAIN ids : Across(m, k) \in DOMAIN b /\ b[Across(m, k)] = ids[k]
  BY <1>0, <1>1, <1>2 DEF Across
<1>5. \A k \in DOMAIN ids : ids[k] \in Categories
  OBVIOUS
<1>6. ASSUME NEW x \in DOMAIN ids, NEW y \in DOMAIN ids, Across(m, x) < Across(m, y)
      PROVE  Before(o, ids[x], ids[y])
  BY <1>3, <1>4, <1>6
<1>7. ASSUME NEW x \in DOMAIN ids, NEW y \in DOMAIN ids, x # y
      PROVE  Across(m, x) < Across(m, y) \/ Across(m, y) < Across(m, x)
  BY <1>0, <1>7 DEF Across
<1>8. ASSUME NEW x \in DOMAIN ids, NEW y \in DOMAIN ids, x # y PROVE ids[x] # ids[y]
  <2>1. Before(o, ids[x], ids[y]) \/ Before(o, ids[y], ids[x])
    BY <1>6, <1>7, <1>8
  <2>2. ~Before(o, ids[x], ids[x])
    BY <1>5, BeforeOrders
  <2> QED
    BY <2>1, <2>2
<1>9. Before(o, ids[m + 1], ids[m])
  <2>1. Across(m, m + 1) < Across(m, m)
    BY <1>0 DEF Across
  <2> QED
    BY <1>0, <1>6, <2>1
<1>10. ASSUME NEW x \in DOMAIN ids, NEW y \in DOMAIN ids, y < x, Before(o, ids[x], ids[y])
       PROVE  y = m /\ x = m + 1
  <2>1. ~Before(o, ids[y], ids[x])
    BY <1>5, <1>10, BeforeOrders
  <2>2. ~(Across(m, y) < Across(m, x))
    BY <1>6, <2>1
  <2> QED
    BY <1>0, <1>10, <2>2 DEF Across
<1> QED
  BY <1>8, <1>9, <1>10

LEMMA OneExchange ==
  ASSUME ListTypes, ListWire, NEW i \in DOMAIN calls, ServeReorder(i), calls[i].honest
  PROVE  {p \in Swapped : p \subseteq ToSet(calls[i].ids)} = {calls[i].pair}
<1> DEFINE c == calls[i]
           ids == c.ids
<1>1. /\ c.kind = "reorder" /\ c.stage = "sent"
      /\ order' = Reordered(ids, Len(ids))
  BY DEF ServeReorder, Stage
<1>2. CallSound(c) /\ c.ids \in Seq(Categories)
  BY <1>1, ListKinds DEF ListWire, AllSound
<1>3. PICK m \in 1 .. Len(ids) - 1 :
        Sorted(order, Exchange(ids, m)) /\ c.pair = {ids[m], ids[m + 1]}
  BY <1>1, <1>2 DEF CallSound, OneSwap
<1>4. order \in [Categories -> Nat]
  <2>1. NumCategories \in Nat
    BY ListAssumption
  <2>2. 0 .. NumCategories \subseteq Nat
    BY <2>1
  <2> QED
    BY <2>2 DEF ListTypes, Orders
<1>5. /\ \A x, y \in DOMAIN ids : x # y => ids[x] # ids[y]
      /\ Before(order, ids[m + 1], ids[m])
      /\ \A x, y \in DOMAIN ids :
           y < x /\ Before(order, ids[x], ids[y]) => y = m /\ x = m + 1
  <2> DEFINE s == ids
  <2>1. s \in Seq(Categories) /\ m \in 1 .. Len(s) - 1 /\ Sorted(order, Exchange(s, m))
    BY <1>2, <1>3
  <2> HIDE DEF s
  <2> QED
    BY <1>4, <2>1, OnlyTheseTwo DEF s
<1>6. /\ Len(ids) \in Nat /\ DOMAIN ids = 1 .. Len(ids) /\ m \in Nat /\ m \in DOMAIN ids
      /\ m + 1 \in DOMAIN ids /\ \A k \in DOMAIN ids : ids[k] \in Categories
  BY <1>2, <1>3
<1> HIDE DEF ids
<1>7. ASSUME NEW k \in DOMAIN ids PROVE order'[ids[k]] = k - 1
  <2> DEFINE p == CHOOSE l \in 1 .. Len(ids) : ids[l] = ids[k]
  <2>1. p \in DOMAIN ids /\ ids[p] = ids[k]
    BY <1>6
  <2>2. p = k
    BY <1>5, <2>1
  <2>3. order'[ids[k]] = IF \E l \in 1 .. Len(ids) : ids[l] = ids[k] THEN p - 1 ELSE order[ids[k]]
    BY <1>1, <1>6 DEF Reordered
  <2> QED
    BY <1>6, <2>2, <2>3
<1>8. ASSUME NEW x \in DOMAIN ids, NEW y \in DOMAIN ids
      PROVE  Before(order', ids[y], ids[x]) <=> y < x
  <2>1. order'[ids[x]] = x - 1 /\ order'[ids[y]] = y - 1 /\ x \in Nat /\ y \in Nat
    BY <1>6, <1>7
  <2>2. ids[x] \in Nat /\ ids[y] \in Nat
    BY <1>6, CategoriesFinite
  <2>3. x = y => ~(ids[y] < ids[x])
    BY <2>2
  <2> QED
    BY <2>1, <2>3 DEF Before
<1>9. ToSet(ids) = {ids[k] : k \in DOMAIN ids}
  BY DEF ToSet
<1>10. ASSUME NEW p \in Swapped, p \subseteq ToSet(ids) PROVE p = c.pair
  <2>1. PICK d \in p, e \in p : d # e /\ p = {d, e} /\ Before(order, d, e) /\ Before(order', e, d)
    BY DEF Swapped
  <2>2. PICK x \in DOMAIN ids : d = ids[x]
    BY <1>9, <1>10, <2>1
  <2>3. PICK y \in DOMAIN ids : e = ids[y]
    BY <1>9, <1>10, <2>1
  <2>4. y < x
    BY <1>8, <2>1, <2>2, <2>3
  <2>5. y = m /\ x = m + 1
    BY <1>5, <2>1, <2>2, <2>3, <2>4
  <2> QED
    BY <1>3, <2>1, <2>2, <2>3, <2>5
<1>11. c.pair \in Swapped /\ c.pair \subseteq ToSet(ids)
  <2> DEFINE d == ids[m + 1]
             e == ids[m]
  <2>1. d # e /\ c.pair = {d, e} /\ Before(order, d, e)
    BY <1>3, <1>5, <1>6
  <2>2. Before(order', e, d)
    BY <1>6, <1>8
  <2>3. d \in Categories /\ e \in Categories /\ d \in ToSet(ids) /\ e \in ToSet(ids)
    BY <1>6, <1>9
  <2> HIDE DEF d, e
  <2> QED
    BY <2>1, <2>2, <2>3 DEF Swapped
<1>12. {p \in Swapped : p \subseteq ToSet(ids)} = {c.pair}
  BY <1>10, <1>11
<1> QED
  BY <1>12 DEF ids

-----------------------------------------------------------------------------
(* Sums over finite sets: what the fold computes depends on nothing but the *)
(* set and the numbers.                                                    *)

\* A nonempty collection of subsets of a finite set has a smallest one.
LEMMA SmallestSet ==
  ASSUME NEW S, IsFiniteSet(S), NEW C \in SUBSET (SUBSET S), C # {}
  PROVE  \E T \in C : \A U \in C : Cardinality(T) <= Cardinality(U)
<1> DEFINE N == {Cardinality(T) : T \in C}
<1>1. N \in SUBSET Nat /\ N # {}
  BY FS_Subset, FS_CardinalityType
<1>2. PICK m \in N : \A n \in N : m <= n
  BY <1>1, LeastElement
<1> QED BY <1>2

\* Without an element it has, a finite set is smaller.
LEMMA Smaller ==
  ASSUME NEW S, IsFiniteSet(S), NEW T \in SUBSET S, NEW x \in T
  PROVE  ~(Cardinality(T) <= Cardinality(T \ {x}))
<1>1. IsFiniteSet(T)
  BY FS_Subset
<1>2. Cardinality(T \ {x}) = Cardinality(T) - 1
  BY <1>1, FS_RemoveElement
<1>3. Cardinality(T) \in Nat
  BY <1>1, FS_CardinalityType
<1> QED BY <1>2, <1>3

First(T) == CHOOSE x \in T : TRUE

\* g[T] is the sum of e over T, for every subset T of S.
AreSums(S, e, g) ==
  g = [T \in SUBSET S |->
        IF T = {} THEN 0 ELSE e[First(T)] + g[T \ {First(T)}]]

LEMMA FirstIn ==
  ASSUME NEW T, T # {}
  PROVE  First(T) \in T
BY DEF First

\* There is one such sum, whatever the set is a part of.
LEMMA SumsAgree ==
  ASSUME NEW S, NEW S2, NEW e, NEW e2, NEW g, NEW h, AreSums(S, e, g), AreSums(S2, e2, h),
         NEW T \in SUBSET (S \cap S2), IsFiniteSet(T), \A x \in T : e[x] = e2[x]
  PROVE  g[T] = h[T]
<1> DEFINE Wrong == {U \in SUBSET T : g[U] # h[U]}
<1>1. SUFFICES ASSUME Wrong # {} PROVE FALSE
  OBVIOUS
<1>2. PICK U \in Wrong : \A V \in Wrong : Cardinality(U) <= Cardinality(V)
  BY <1>1, SmallestSet
<1>3. U \in SUBSET S /\ U \in SUBSET S2 /\ g[U] # h[U]
  OBVIOUS
<1>4. /\ g[U] = IF U = {} THEN 0 ELSE e[First(U)] + g[U \ {First(U)}]
      /\ h[U] = IF U = {} THEN 0 ELSE e2[First(U)] + h[U \ {First(U)}]
  BY <1>3 DEF AreSums
<1>5. U # {}
  BY <1>3, <1>4
<1>6. U \ {First(U)} \notin Wrong /\ e[First(U)] = e2[First(U)]
  BY <1>2, <1>5, FirstIn, Smaller
<1> QED BY <1>3, <1>4, <1>5, <1>6

\* Such sums exist, and are integers.
LEMMA SumsExist ==
  ASSUME NEW S, IsFiniteSet(S), NEW e \in [S -> Int]
  PROVE  \E g \in [SUBSET S -> Int] : AreSums(S, e, g)
<1> DEFINE Are(T, g) == g \in [SUBSET T -> Int] /\ AreSums(T, e, g)
           Wrong == {T \in SUBSET S : ~ \E g : Are(T, g)}
           Whole(T) == (CHOOSE g : Are(T, g))[T]
<1>1. SUFFICES ASSUME Wrong # {} PROVE FALSE
  OBVIOUS
<1>2. PICK T \in Wrong : \A U \in Wrong : Cardinality(T) <= Cardinality(U)
  BY <1>1, SmallestSet
<1>3. ASSUME NEW U \in SUBSET T, U # T
      PROVE  \E g : Are(U, g)
  <2>1. PICK x \in T : x \notin U
    BY <1>3
  <2>2. IsFiniteSet(T) /\ IsFiniteSet(T \ {x})
    BY FS_Subset, FS_RemoveElement
  <2>3. U \in SUBSET (T \ {x})
    BY <2>1
  <2>4. Cardinality(U) <= Cardinality(T \ {x})
    BY <2>2, <2>3, FS_Subset
  <2>5. Cardinality(T) \in Nat /\ Cardinality(U) \in Nat /\ Cardinality(T \ {x}) \in Nat
    BY <2>2, <2>3, FS_Subset, FS_CardinalityType
  <2>6. ~(Cardinality(T) <= Cardinality(T \ {x}))
    BY Smaller
  <2>7. ~(Cardinality(T) <= Cardinality(U))
    BY <2>4, <2>5, <2>6
  <2>8. U \notin Wrong
    BY <1>2, <2>7
  <2> QED BY <2>8
<1>4. ASSUME NEW U \in SUBSET T, U # T
      PROVE  /\ Whole(U) \in Int
             /\ Whole(U) = IF U = {} THEN 0 ELSE e[First(U)] + Whole(U \ {First(U)})
  <2> DEFINE g == CHOOSE f : Are(U, f)
             V == U \ {First(U)}
             h == CHOOSE f : Are(V, f)
  <2>1. Are(U, g)
    BY <1>3, <1>4
  <2>2. V \in SUBSET T /\ V # T
    BY <1>4
  <2>3. Are(V, h)
    BY <1>3, <2>2
  <2> HIDE DEF g, h
  <2>4. IsFiniteSet(V) /\ V \in SUBSET (U \cap V)
    BY FS_Subset, <2>2
  <2>5. g[V] = h[V]
    BY <2>1, <2>3, <2>4, SumsAgree
  <2>6. g[U] = (IF U = {} THEN 0 ELSE e[First(U)] + g[V]) /\ g[U] \in Int
    BY <2>1 DEF AreSums
  <2>7. Whole(U) = g[U] /\ Whole(V) = h[V]
    BY DEF g, h
  <2> QED BY <2>5, <2>6, <2>7
<1> DEFINE f == [U \in SUBSET T |->
                  IF U = T THEN (IF U = {} THEN 0 ELSE e[First(U)] + Whole(U \ {First(U)}))
                  ELSE Whole(U)]
<1> HIDE DEF Whole
<1>5. T # {} => First(T) \in T /\ T \ {First(T)} # T /\ T \ {First(T)} \in SUBSET T
  BY FirstIn
<1>6. \A U \in SUBSET T : f[U] \in Int
  <2> TAKE U \in SUBSET T
  <2>1. CASE U # T
    BY <1>4, <2>1
  <2>2. CASE U = T /\ T # {}
    <3>1. Whole(T \ {First(T)}) \in Int
      BY <1>4, <1>5, <2>2
    <3>2. e[First(T)] \in Int
      BY <1>5, <2>2
    <3> QED BY <2>2, <3>1, <3>2
  <2>3. CASE U = T /\ T = {}
    BY <2>3
  <2> QED BY <2>1, <2>2, <2>3
<1>7. \A U \in SUBSET T : f[U] = IF U = {} THEN 0 ELSE e[First(U)] + f[U \ {First(U)}]
  <2> TAKE U \in SUBSET T
  <2>1. U # {} => First(U) \in U /\ U \ {First(U)} # T /\ U \ {First(U)} \in SUBSET T
    BY FirstIn
  <2>2. U # {} => f[U \ {First(U)}] = Whole(U \ {First(U)})
    BY <2>1
  <2>3. f[U] = IF U = {} THEN 0 ELSE e[First(U)] + Whole(U \ {First(U)})
    BY <1>4
  <2> QED BY <2>2, <2>3
<1>8. Are(T, f)
  <2>1. f \in [SUBSET T -> Int]
    BY <1>6
  <2>2. AreSums(T, e, f)
    BY <1>7 DEF AreSums
  <2> QED BY <2>1, <2>2
<1> QED BY <1>8

\* Any element may be the one that is added last.
Adds(S, e, g) ==
  \A T \in SUBSET S : \A x \in T : g[T] = e[x] + g[T \ {x}]

LEMMA SumsAdd ==
  ASSUME NEW S, IsFiniteSet(S), NEW e \in [S -> Int], NEW g \in [SUBSET S -> Int],
         AreSums(S, e, g)
  PROVE  Adds(S, e, g)
<1> DEFINE Wrong == {U \in SUBSET S : \E y \in U : g[U] # e[y] + g[U \ {y}]}
<1>1. SUFFICES ASSUME Wrong # {} PROVE FALSE
  BY DEF Adds
<1>2. PICK U \in Wrong : \A V \in Wrong : Cardinality(U) <= Cardinality(V)
  BY <1>1, SmallestSet
<1>3. PICK y \in U : g[U] # e[y] + g[U \ {y}]
  OBVIOUS
<1> DEFINE c == First(U)
           V == U \ {c}
           W == U \ {y}
<1>4. U \in SUBSET S /\ c \in U /\ V \in SUBSET S /\ W \in SUBSET S
  BY <1>3, FirstIn
<1>5. g[U] = e[c] + g[V]
  BY <1>4 DEF AreSums
<1>6. c # y
  BY <1>3, <1>5
<1> HIDE DEF c
<1>7. V \notin Wrong /\ W \notin Wrong
  BY <1>2, <1>4, Smaller
<1>8. g[V] = e[y] + g[V \ {y}]
  BY <1>4, <1>6, <1>7
<1>9. g[W] = e[c] + g[W \ {c}]
  BY <1>4, <1>6, <1>7
<1>10. V \ {y} = W \ {c} /\ V \ {y} \in SUBSET S
  BY <1>4
<1>11. e[c] \in Int /\ e[y] \in Int /\ g[V \ {y}] \in Int
  BY <1>4, <1>10
<1>12. PICK rest \in Int : rest = g[V \ {y}] /\ rest = g[W \ {c}]
  BY <1>10, <1>11
<1>13. g[U] = e[c] + (e[y] + rest) /\ g[W] = e[c] + rest
  BY <1>5, <1>8, <1>9, <1>12
<1>14. e[c] + (e[y] + rest) = e[y] + (e[c] + rest)
  BY <1>11
<1> QED BY <1>3, <1>13, <1>14

\* The sum of e over S.
SumOf(S, e) == MapThenSumSet(LAMBDA x : e[x], S)

LEMMA SumOfIs ==
  ASSUME NEW S, IsFiniteSet(S), NEW e, \A x \in S : e[x] \in Int
  PROVE  \E g \in [SUBSET S -> Int] :
           AreSums(S, e, g) /\ Adds(S, e, g) /\ SumOf(S, e) = g[S] /\ g[{}] = 0
<1> DEFINE Fold(g) == g = [s \in SUBSET S |->
             IF s = {} THEN 0
             ELSE e[CHOOSE x \in s : TRUE] + g[s \ {CHOOSE x \in s : TRUE}]]
           iter == CHOOSE g : Fold(g)
           d == [x \in S |-> e[x]]
<1>1. \A s \in SUBSET S : s # {} => First(s) \in S
  BY FirstIn
<1>2. ASSUME NEW g PROVE AreSums(S, e, g) <=> Fold(g)
  BY DEF AreSums, First
<1>3. d \in [S -> Int]
  OBVIOUS
<1>4. PICK g \in [SUBSET S -> Int] : AreSums(S, d, g)
  BY <1>3, SumsExist
<1>5. AreSums(S, e, g)
  BY <1>1, <1>4 DEF AreSums
<1>6. AreSums(S, e, iter)
  BY <1>2, <1>5
<1>7. SumOf(S, e) = iter[S]
  BY DEF SumOf, MapThenSumSet, MapThenFoldSet
<1>8. SumOf(S, e) = g[S]
  BY <1>5, <1>6, <1>7, SumsAgree
<1>9. Adds(S, d, g)
  BY <1>3, <1>4, SumsAdd
<1>10. Adds(S, e, g)
  BY <1>9 DEF Adds
<1>11. g[{}] = 0
  BY <1>5 DEF AreSums
<1> QED
  BY <1>5, <1>8, <1>10, <1>11

\* One fewer.
LEMMA SumOfMore ==
  ASSUME NEW S, IsFiniteSet(S), NEW e, \A x \in S : e[x] \in Int
  PROVE  /\ SumOf(S, e) \in Int
         /\ S = {} => SumOf(S, e) = 0
         /\ \A x \in S : /\ SumOf(S \ {x}, e) \in Int
                         /\ SumOf(S, e) = e[x] + SumOf(S \ {x}, e)
<1>1. PICK g \in [SUBSET S -> Int] :
        AreSums(S, e, g) /\ Adds(S, e, g) /\ SumOf(S, e) = g[S] /\ g[{}] = 0
  BY SumOfIs
<1>2. S \in SUBSET S /\ g[S] \in Int
  OBVIOUS
<1>3. ASSUME NEW x \in S
      PROVE  SumOf(S \ {x}, e) \in Int /\ SumOf(S, e) = e[x] + SumOf(S \ {x}, e)
  <2> DEFINE T == S \ {x}
  <2>1. IsFiniteSet(T) /\ \A y \in T : e[y] \in Int
    BY FS_RemoveElement
  <2>a. T \in SUBSET S /\ T \in SUBSET (S \cap T) /\ T \in SUBSET T
    OBVIOUS
  <2> HIDE DEF T
  <2>2. PICK h \in [SUBSET T -> Int] : AreSums(T, e, h) /\ SumOf(T, e) = h[T]
    BY <2>1, SumOfIs
  <2>3. g[T] = h[T]
    BY <1>1, <2>1, <2>2, <2>a, SumsAgree
  <2>4. g[S] = e[x] + g[T]
    BY <1>1, <1>2 DEF Adds, T
  <2>5. h[T] \in Int
    BY <2>a
  <2> QED
    BY <1>1, <2>2, <2>3, <2>4, <2>5 DEF T
<1> QED
  BY <1>1, <1>2, <1>3

\* Whatever grows by e[x] with every x is the sum of e.
LEMMA SumOfUnique ==
  ASSUME NEW S, IsFiniteSet(S), NEW e, \A x \in S : e[x] \in Int,
         NEW h, h[{}] = 0,
         \A T \in SUBSET S : \A x \in T : h[T] = e[x] + h[T \ {x}]
  PROVE  h[S] = SumOf(S, e)
<1> DEFINE Wrong == {T \in SUBSET S : h[T] # SumOf(T, e)}
<1>1. SUFFICES ASSUME Wrong # {} PROVE FALSE
  BY DEF Wrong
<1>2. PICK T \in Wrong : \A U \in Wrong : Cardinality(T) <= Cardinality(U)
  BY <1>1, SmallestSet
<1>3. T \in SUBSET S /\ h[T] # SumOf(T, e)
  OBVIOUS
<1>4. IsFiniteSet(T) /\ \A x \in T : e[x] \in Int
  BY <1>3, FS_Subset
<1>5. T # {}
  BY <1>3, <1>4, SumOfMore
<1>6. PICK x \in T : TRUE
  BY <1>5
<1>7. T \ {x} \notin Wrong
  BY <1>2, <1>3, Smaller
<1>8. h[T \ {x}] = SumOf(T \ {x}, e)
  BY <1>3, <1>7
<1>9. h[T] = e[x] + h[T \ {x}] /\ SumOf(T, e) = e[x] + SumOf(T \ {x}, e)
  BY <1>3, <1>4, SumOfMore
<1> QED
  BY <1>3, <1>8, <1>9

LEMMA SumOfEqual ==
  ASSUME NEW S, IsFiniteSet(S), NEW e, NEW d, \A x \in S : e[x] \in Int /\ e[x] = d[x]
  PROVE  SumOf(S, e) = SumOf(S, d)
<1> DEFINE h == [T \in SUBSET S |-> SumOf(T, d)]
<1>1. h[{}] = 0
  BY SumOfMore, FS_EmptySet
<1>2. ASSUME NEW T \in SUBSET S, NEW x \in T PROVE h[T] = e[x] + h[T \ {x}]
  <2>1. IsFiniteSet(T) /\ \A y \in T : d[y] \in Int
    BY FS_Subset
  <2>2. SumOf(T, d) = d[x] + SumOf(T \ {x}, d)
    BY <2>1, SumOfMore
  <2>3. h[T] = SumOf(T, d) /\ h[T \ {x}] = SumOf(T \ {x}, d)
    OBVIOUS
  <2> QED
    BY <2>2, <2>3
<1> HIDE DEF h
<1>3. h[S] = SumOf(S, e)
  BY <1>1, <1>2, SumOfUnique
<1> QED
  BY <1>3 DEF h

LEMMA SumOfZeros ==
  ASSUME NEW S, IsFiniteSet(S), NEW e, \A x \in S : e[x] = 0
  PROVE  SumOf(S, e) = 0
<1> DEFINE h == [T \in SUBSET S |-> 0]
<1>1. h[{}] = 0 /\ \A T \in SUBSET S : \A x \in T : h[T] = e[x] + h[T \ {x}]
  OBVIOUS
<1>2. \A x \in S : e[x] \in Int
  OBVIOUS
<1> HIDE DEF h
<1>3. h[S] = SumOf(S, e)
  BY <1>1, <1>2, SumOfUnique
<1> QED
  BY <1>3 DEF h

\* Two parts that share nothing.
LEMMA SumOfUnion ==
  ASSUME NEW A, NEW B, IsFiniteSet(A), IsFiniteSet(B), A \cap B = {},
         NEW e, \A x \in A \cup B : e[x] \in Int
  PROVE  SumOf(A \cup B, e) = SumOf(A, e) + SumOf(B, e)
<1> DEFINE h == [T \in SUBSET B |-> SumOf(A \cup T, e) - SumOf(A, e)]
<1>0. SumOf(A, e) \in Int
  BY SumOfMore
<1>1. h[{}] = 0
  <2>1. A \cup {} = A
    OBVIOUS
  <2> QED
    BY <1>0, <2>1
<1>2. ASSUME NEW T \in SUBSET B, NEW x \in T PROVE h[T] = e[x] + h[T \ {x}]
  <2> DEFINE U == A \cup T
  <2>1. IsFiniteSet(U) /\ (\A y \in U : e[y] \in Int) /\ x \in U
    BY FS_Subset, FS_Union
  <2>2. U \ {x} = A \cup (T \ {x})
    OBVIOUS
  <2>3. h[T] = SumOf(U, e) - SumOf(A, e) /\ h[T \ {x}] = SumOf(U \ {x}, e) - SumOf(A, e)
    BY <2>2
  <2> HIDE DEF U, h
  <2>4. SumOf(U, e) = e[x] + SumOf(U \ {x}, e) /\ SumOf(U \ {x}, e) \in Int /\ e[x] \in Int
    BY <2>1, SumOfMore
  <2> QED
    BY <1>0, <2>3, <2>4
<1> HIDE DEF h
<1>3. h[B] = SumOf(B, e)
  BY <1>1, <1>2, SumOfUnique
<1>4. h[B] = SumOf(A \cup B, e) - SumOf(A, e)
  BY DEF h
<1>5. SumOf(A \cup B, e) \in Int
  <2>1. IsFiniteSet(A \cup B)
    BY FS_Union
  <2> QED
    BY <2>1, SumOfMore
<1> QED
  BY <1>0, <1>3, <1>4, <1>5

LEMMA SumOfPlus ==
  ASSUME NEW S, IsFiniteSet(S), NEW a, NEW b, NEW e,
         \A x \in S : a[x] \in Int /\ b[x] \in Int /\ e[x] = a[x] + b[x]
  PROVE  SumOf(S, e) = SumOf(S, a) + SumOf(S, b)
<1> DEFINE h == [T \in SUBSET S |-> SumOf(T, a) + SumOf(T, b)]
<1>1. h[{}] = 0
  BY SumOfMore, FS_EmptySet
<1>2. ASSUME NEW T \in SUBSET S, NEW x \in T PROVE h[T] = e[x] + h[T \ {x}]
  <2>1. IsFiniteSet(T) /\ \A y \in T : a[y] \in Int /\ b[y] \in Int
    BY FS_Subset
  <2>2. /\ SumOf(T, a) = a[x] + SumOf(T \ {x}, a) /\ SumOf(T \ {x}, a) \in Int
        /\ SumOf(T, b) = b[x] + SumOf(T \ {x}, b) /\ SumOf(T \ {x}, b) \in Int
    BY <2>1, SumOfMore
  <2>3. h[T] = SumOf(T, a) + SumOf(T, b) /\ h[T \ {x}] = SumOf(T \ {x}, a) + SumOf(T \ {x}, b)
    OBVIOUS
  <2>4. a[x] \in Int /\ b[x] \in Int /\ e[x] = a[x] + b[x]
    OBVIOUS
  <2> HIDE DEF h
  <2> QED
    BY <2>2, <2>3, <2>4
<1> HIDE DEF h
<1>3. \A x \in S : e[x] \in Int
  OBVIOUS
<1>4. h[S] = SumOf(S, e)
  BY <1>1, <1>2, <1>3, SumOfUnique
<1> QED
  BY <1>4 DEF h

\* A number at one place and zero elsewhere.
LEMMA SumOfOne ==
  ASSUME NEW S, IsFiniteSet(S), NEW e, NEW v \in Int, NEW x \in S,
         \A y \in S : e[y] = IF y = x THEN v ELSE 0
  PROVE  SumOf(S, e) = v
<1>1. \A y \in S : e[y] \in Int
  OBVIOUS
<1>2. SumOf(S, e) = e[x] + SumOf(S \ {x}, e)
  BY <1>1, SumOfMore
<1>3. SumOf(S \ {x}, e) = 0
  <2>1. IsFiniteSet(S \ {x}) /\ \A y \in S \ {x} : e[y] = 0
    BY FS_RemoveElement
  <2> QED
    BY <2>1, SumOfZeros
<1> QED
  BY <1>2, <1>3

\* A nonempty finite set of integers has a least element.
LEMMA MinIs ==
  ASSUME NEW S \in SUBSET Int, IsFiniteSet(S), S # {}
  PROVE  Min(S) \in S /\ \A y \in S : Min(S) <= y
<1> DEFINE Least(T, x) == x \in T /\ \A y \in T : x <= y
           Wrong == {T \in SUBSET S : T # {} /\ ~ \E x \in T : Least(T, x)}
<1>1. Wrong = {}
  <2>1. SUFFICES ASSUME Wrong # {} PROVE FALSE
    OBVIOUS
  <2>2. PICK T \in Wrong : \A U \in Wrong : Cardinality(T) <= Cardinality(U)
    BY <2>1, SmallestSet
  <2>3. PICK x \in T : TRUE
    OBVIOUS
  <2>4. T \in SUBSET S /\ ~ \E y \in T : Least(T, y)
    OBVIOUS
  <2>5. T \ {x} \notin Wrong /\ T \ {x} \in SUBSET S
    BY <2>2, <2>4, Smaller
  <2>6. CASE T \ {x} = {}
    BY <2>4, <2>6
  <2>7. CASE \E y \in T \ {x} : Least(T \ {x}, y)
    <3>1. PICK y \in T \ {x} : Least(T \ {x}, y)
      BY <2>7
    <3>2. CASE x <= y
      BY <2>4, <3>1, <3>2
    <3>3. CASE ~(x <= y)
      BY <2>4, <3>1, <3>3
    <3> QED
      BY <3>2, <3>3
  <2> QED
    BY <2>5, <2>6, <2>7
<1>2. S \in SUBSET S
  OBVIOUS
<1>3. \E x \in S : \A y \in S : x <= y
  BY <1>1, <1>2
<1> QED
  BY <1>3 DEF Min

-----------------------------------------------------------------------------
(* The figures as sums.                                                    *)

IsLedger(l) ==
  /\ IsFiniteSet(DOMAIN l)
  /\ \A i \in DOMAIN l : IsEntry(l[i])

AmountsOf(l) == [i \in DOMAIN l |-> l[i].amount]

EffectsOn(l, a) == [i \in DOMAIN l |-> Effect(l[i], a)]

UpTo(l, m) == {i \in DOMAIN l : l[i].month <= m}

During(l, m) == {i \in DOMAIN l : l[i].month = m}

\* What the account comes to at the end of month m.
Balances(l, m) ==
  [a \in Holdings |-> Opening[a] + SumOf(UpTo(l, m), EffectsOn(l, a))]

LEMMA HoldingsFinite == IsFiniteSet(Holdings) /\ \A a \in Holdings : Opening[a] \in Int /\ CreatedIn[a] \in Int
<1>1. IsFiniteSet(Holdings)
  BY ReportsAssumption, FS_Union DEF Holdings
<1> QED
  BY <1>1, ReportsAssumption

LEMMA EntryIs ==
  ASSUME NEW l, IsLedger(l), NEW i \in DOMAIN l
  PROVE  /\ l[i].amount \in Int /\ l[i].month \in Int /\ l[i].month <= Span /\ Span \in Int
         /\ AmountsOf(l)[i] = l[i].amount
         /\ \A a : EffectsOn(l, a)[i] = Effect(l[i], a) /\ Effect(l[i], a) \in Int
<1>1. /\ l[i].amount \in Nat /\ l[i].month \in 1 .. Span /\ Span \in Nat
  BY LedgerAssumption DEF IsLedger, IsEntry
<1>2. \A a : Effect(l[i], a) \in Int
  <2>1. l[i].amount \in Int /\ -l[i].amount \in Int
    BY <1>1
  <2> QED
    BY <2>1 DEF Effect
<1> QED
  BY <1>1, <1>2 DEF AmountsOf, EffectsOn

LEMMA TotalIs ==
  ASSUME NEW l, IsLedger(l), NEW T \in SUBSET (DOMAIN l)
  PROVE  Total(l, T) = SumOf(T, AmountsOf(l)) /\ IsFiniteSet(T)
<1> DEFINE e == AmountsOf(l)
           Fold(g) == g = [s \in SUBSET T |->
             IF s = {} THEN 0
             ELSE l[CHOOSE x \in s : TRUE].amount + g[s \ {CHOOSE x \in s : TRUE}]]
           iter == CHOOSE g : Fold(g)
<1>1. IsFiniteSet(T) /\ \A x \in T : e[x] \in Int /\ e[x] = l[x].amount
  BY EntryIs, FS_Subset DEF IsLedger
<1>2. PICK g \in [SUBSET T -> Int] : AreSums(T, e, g) /\ SumOf(T, e) = g[T]
  BY <1>1, SumOfIs
<1>3. ASSUME NEW h PROVE AreSums(T, e, h) <=> Fold(h)
  <2>1. \A s \in SUBSET T : s # {} => e[First(s)] = l[First(s)].amount
    BY <1>1, FirstIn
  <2> HIDE DEF e
  <2> QED
    BY <2>1 DEF AreSums, First
<1>4. AreSums(T, e, iter)
  BY <1>2, <1>3
<1>5. Total(l, T) = iter[T]
  BY DEF Total, MapThenSumSet, MapThenFoldSet
<1> HIDE DEF e, iter
<1>6. Total(l, T) = g[T]
  BY <1>1, <1>2, <1>4, <1>5, SumsAgree
<1> QED
  BY <1>1, <1>2, <1>6 DEF e

LEMMA DeltaIs ==
  ASSUME NEW l, IsLedger(l), NEW a, NEW months
  PROVE  Delta(l, a, months) = SumOf({i \in DOMAIN l : l[i].month \in months}, EffectsOn(l, a))
<1> DEFINE T == {i \in DOMAIN l : l[i].month \in months}
           e == EffectsOn(l, a)
           Fold(g) == g = [s \in SUBSET T |->
             IF s = {} THEN 0
             ELSE Effect(l[CHOOSE x \in s : TRUE], a) + g[s \ {CHOOSE x \in s : TRUE}]]
           iter == CHOOSE g : Fold(g)
<1>0. T \in SUBSET (DOMAIN l)
  OBVIOUS
<1>5. Delta(l, a, months) = iter[T]
  BY DEF Delta, MapThenSumSet, MapThenFoldSet
<1> HIDE DEF T
<1>1. IsFiniteSet(T) /\ \A x \in T : e[x] \in Int /\ e[x] = Effect(l[x], a)
  BY <1>0, EntryIs, FS_Subset DEF IsLedger
<1>2. PICK g \in [SUBSET T -> Int] : AreSums(T, e, g) /\ SumOf(T, e) = g[T]
  BY <1>1, SumOfIs
<1>3. ASSUME NEW h PROVE AreSums(T, e, h) <=> Fold(h)
  <2>1. \A s \in SUBSET T : s # {} => e[First(s)] = Effect(l[First(s)], a)
    BY <1>1, FirstIn
  <2> HIDE DEF e
  <2> QED
    BY <2>1 DEF AreSums, First
<1>4. AreSums(T, e, iter)
  BY <1>2, <1>3
<1> HIDE DEF e, iter
<1>6. Delta(l, a, months) = g[T]
  BY <1>1, <1>2, <1>4, <1>5, SumsAgree
<1> QED
  BY <1>2, <1>6 DEF e, T

\* The balance at the end of a month does not depend on where the range begins.
LEMMA EndBalanceIs ==
  ASSUME NEW l, IsLedger(l), NEW a \in Holdings, NEW from \in Int, NEW m \in Int, from <= m + 1
  PROVE  EndBalance(l, a, from, m) = Balances(l, m)[a] /\ Balances(l, m)[a] \in Int
<1> DEFINE e == EffectsOn(l, a)
           before == {n \in {l[i].month : i \in DOMAIN l} : n < from}
           A == {i \in DOMAIN l : l[i].month \in before}
           B == {i \in DOMAIN l : l[i].month \in from .. m}
<1>1. \A i \in DOMAIN l : l[i].month \in Int /\ e[i] \in Int
  BY EntryIs
<1>2. A \in SUBSET (DOMAIN l) /\ B \in SUBSET (DOMAIN l) /\ A \cap B = {} /\ A \cup B = UpTo(l, m)
  BY <1>1 DEF UpTo
<1>3. EndBalance(l, a, from, m) = (Opening[a] + SumOf(A, e)) + SumOf(B, e)
  BY DeltaIs DEF EndBalance, Carried
<1> HIDE DEF A, B, e
<1>4. IsFiniteSet(A) /\ IsFiniteSet(B) /\ (\A i \in A \cup B : e[i] \in Int)
  BY <1>1, <1>2, FS_Subset DEF IsLedger
<1>5. SumOf(A \cup B, e) = SumOf(A, e) + SumOf(B, e)
  BY <1>2, <1>4, SumOfUnion
<1>6. SumOf(A, e) \in Int /\ SumOf(B, e) \in Int /\ Opening[a] \in Int
  BY <1>4, SumOfMore, HoldingsFinite
<1>7. Balances(l, m)[a] = Opening[a] + SumOf(A \cup B, e)
  BY <1>2 DEF Balances, e
<1> QED
  BY <1>3, <1>5, <1>6, <1>7

WorthOf(l, from, m, S) == MapThenSumSet(LAMBDA a : EndBalance(l, a, from, m), S)

LEMMA WorthOfIs ==
  ASSUME NEW l, IsLedger(l), NEW S \in SUBSET Holdings, NEW from \in Int, NEW m \in Int,
         from <= m + 1
  PROVE  /\ WorthOf(l, from, m, S) = SumOf(S, Balances(l, m)) /\ IsFiniteSet(S)
         /\ \A a \in S : Balances(l, m)[a] \in Int
<1> DEFINE e == Balances(l, m)
           Fold(g) == g = [s \in SUBSET S |->
             IF s = {} THEN 0
             ELSE EndBalance(l, CHOOSE x \in s : TRUE, from, m) + g[s \ {CHOOSE x \in s : TRUE}]]
           iter == CHOOSE g : Fold(g)
<1>1. IsFiniteSet(S) /\ \A x \in S : e[x] \in Int /\ e[x] = EndBalance(l, x, from, m)
  BY EndBalanceIs, FS_Subset, HoldingsFinite
<1>2. PICK g \in [SUBSET S -> Int] : AreSums(S, e, g) /\ SumOf(S, e) = g[S]
  BY <1>1, SumOfIs
<1>3. ASSUME NEW h PROVE AreSums(S, e, h) <=> Fold(h)
  <2>1. \A s \in SUBSET S : s # {} => e[First(s)] = EndBalance(l, First(s), from, m)
    BY <1>1, FirstIn
  <2> HIDE DEF e
  <2> QED
    BY <2>1 DEF AreSums, First
<1>4. AreSums(S, e, iter)
  BY <1>2, <1>3
<1>5. WorthOf(l, from, m, S) = iter[S]
  BY DEF WorthOf, MapThenSumSet, MapThenFoldSet
<1> HIDE DEF e, iter
<1>6. WorthOf(l, from, m, S) = g[S]
  BY <1>1, <1>2, <1>4, <1>5, SumsAgree
<1> QED
  BY <1>1, <1>2, <1>6 DEF e

LEMMA NetWorthIs ==
  ASSUME NEW l, NEW from, NEW to, NEW m \in from .. to
  PROVE  /\ NetWorth(l, from, to)[m].worth =
              WorthOf(l, from, m, Appearing(l, m, to) \cap Assets)
                + WorthOf(l, from, m, Appearing(l, m, to) \cap Liabilities)
         /\ NetWorth(l, from, to)[m].accounts = Appearing(l, m, to)
BY DEF NetWorth, WorthOf

LEMMA TotalUnion ==
  ASSUME NEW l, IsLedger(l), NEW A \in SUBSET (DOMAIN l), NEW B \in SUBSET (DOMAIN l),
         A \cap B = {}
  PROVE  /\ Total(l, A \cup B) = Total(l, A) + Total(l, B)
         /\ Total(l, A) \in Int /\ Total(l, B) \in Int
<1> DEFINE e == AmountsOf(l)
<1>1. IsFiniteSet(A) /\ IsFiniteSet(B) /\ \A x \in A \cup B : e[x] \in Int
  BY TotalIs, EntryIs
<1>2. A \cup B \in SUBSET (DOMAIN l)
  OBVIOUS
<1>3. /\ Total(l, A) = SumOf(A, e) /\ Total(l, B) = SumOf(B, e)
      /\ Total(l, A \cup B) = SumOf(A \cup B, e)
  BY <1>2, TotalIs
<1> HIDE DEF e
<1> QED
  BY <1>1, <1>3, SumOfUnion, SumOfMore

\* Expenses that go to the categories C.
Placed(l, m, C) == {i \in OfType(l, m, "expense") : l[i].category \in C}

LEMMA PlacedIs ==
  ASSUME NEW l, IsLedger(l), NEW m, NEW C \in SUBSET Spending
  PROVE  SumOf(C, SpendingReport(l, m).actual) = Total(l, Placed(l, m, C))
<1> DEFINE e == SpendingReport(l, m).actual
           h == [T \in SUBSET C |-> Total(l, Placed(l, m, T))]
<1>1. \A c \in C : e[c] = Total(l, Placed(l, m, {c}))
  <2>1. \A c \in C : {i \in OfType(l, m, "expense") : l[i].category = c} = Placed(l, m, {c})
    BY DEF Placed
  <2> QED
    BY <2>1 DEF SpendingReport
<1>2. \A T : Placed(l, m, T) \in SUBSET (DOMAIN l)
  BY DEF Placed, OfType
<1>3. IsFiniteSet(C)
  BY ReportsAssumption, FS_Subset
<1>4. h[{}] = 0
  <2>1. Placed(l, m, {}) = {}
    BY DEF Placed
  <2>2. Total(l, {}) = 0
    <3>1. {} \in SUBSET (DOMAIN l)
      OBVIOUS
    <3>2. SumOf({}, AmountsOf(l)) = 0
      BY SumOfMore, FS_EmptySet
    <3> QED
      BY <3>1, <3>2, TotalIs
  <2> QED
    BY <2>1, <2>2
<1>5. ASSUME NEW T \in SUBSET C, NEW c \in T PROVE h[T] = e[c] + h[T \ {c}]
  <2> DEFINE A == Placed(l, m, {c})
             B == Placed(l, m, T \ {c})
  <2>1. A \cup B = Placed(l, m, T) /\ A \cap B = {}
    BY DEF Placed
  <2>2. Total(l, A \cup B) = Total(l, A) + Total(l, B)
    <3>1. A \in SUBSET (DOMAIN l) /\ B \in SUBSET (DOMAIN l)
      BY <1>2
    <3> HIDE DEF A, B
    <3> QED
      BY <2>1, <3>1, TotalUnion
  <2>3. h[T] = Total(l, Placed(l, m, T)) /\ h[T \ {c}] = Total(l, B)
    OBVIOUS
  <2>4. e[c] = Total(l, A)
    BY <1>1
  <2> QED
    BY <2>1, <2>2, <2>3, <2>4
<1>6. \A c \in C : e[c] \in Int
  <2>1. \A T : Total(l, Placed(l, m, T)) \in Int
    <3> TAKE T
    <3>1. Placed(l, m, T) \in SUBSET (DOMAIN l) /\ {} \in SUBSET (DOMAIN l)
      BY <1>2
    <3> QED
      BY <3>1, TotalUnion
  <2> QED
    BY <1>1, <2>1
<1>7. h[C] = Total(l, Placed(l, m, C))
  OBVIOUS
<1> HIDE DEF h, e
<1>8. h[C] = SumOf(C, e)
  BY <1>3, <1>4, <1>5, <1>6, SumOfUnique
<1> QED
  BY <1>7, <1>8 DEF e

LEMMA SpendingAgrees ==
  ASSUME IsLedger(ledger)
  PROVE  SpendingAddsUp
<1> SUFFICES ASSUME NEW m \in 1 .. Span
             PROVE  LET spent == SpendingReport(ledger, m)
                        rows == MapThenSumSet(LAMBDA c : spent.actual[c], Spending)
                    IN  /\ rows + spent.uncategorized = spent.total
                        /\ spent.total = Flow[m].expense
                        /\ BudgetView(ledger, m).actual = rows
  BY DEF SpendingAddsUp
<1> DEFINE spent == SpendingReport(ledger, m)
           rows == SumOf(Spending, spent.actual)
           A == Placed(ledger, m, Spending)
           B == {i \in OfType(ledger, m, "expense") : Unplaced(ledger[i])}
<1>1. rows = Total(ledger, A)
  BY PlacedIs
<1>2. /\ spent.uncategorized = Total(ledger, B)
      /\ spent.total = Total(ledger, OfType(ledger, m, "expense"))
  BY DEF SpendingReport
<1>3. /\ A \in SUBSET (DOMAIN ledger) /\ B \in SUBSET (DOMAIN ledger)
      /\ A \cup B = OfType(ledger, m, "expense") /\ A \cap B = {}
  BY DEF Placed, OfType, Unplaced
<1>4. Total(ledger, A \cup B) = Total(ledger, A) + Total(ledger, B)
  <2> HIDE DEF A, B
  <2> QED
    BY <1>3, TotalUnion
<1>5. spent.total = Flow[m].expense
  BY <1>2 DEF Flow, CashFlow, Spent
<1>6. BudgetView(ledger, m).actual = Total(ledger, A)
  BY DEF BudgetView, Placed
<1>7. rows = MapThenSumSet(LAMBDA c : spent.actual[c], Spending)
  BY DEF SumOf
<1> HIDE DEF rows, spent
<1>8. /\ rows + spent.uncategorized = spent.total
      /\ spent.total = Flow[m].expense
      /\ BudgetView(ledger, m).actual = rows
  BY <1>1, <1>2, <1>3, <1>4, <1>5, <1>6
<1> QED
  BY <1>7, <1>8 DEF spent

LEMMA RangesAgree ==
  ASSUME IsLedger(ledger)
  PROVE  RangeIndependent
<1> SUFFICES ASSUME NEW r \in Ranges
             PROVE  NetWorth(ledger, r[1], r[2])[r[2]] = NetWorth(ledger, 1, r[2])[r[2]]
  BY DEF RangeIndependent
<1>1. /\ Span \in Nat /\ r[1] \in Int /\ r[2] \in Int /\ 1 <= r[1] /\ r[1] <= r[2]
      /\ r[2] \in r[1] .. r[2] /\ r[2] \in 1 .. r[2]
      /\ r[1] <= r[2] + 1 /\ 1 <= r[2] + 1
  BY LedgerAssumption DEF Ranges
<1> DEFINE rows == Appearing(ledger, r[2], r[2])
<1>2. rows \cap Assets \in SUBSET Holdings /\ rows \cap Liabilities \in SUBSET Holdings
  BY DEF Holdings
<1>3. ASSUME NEW S \in SUBSET Holdings
      PROVE  WorthOf(ledger, r[1], r[2], S) = WorthOf(ledger, 1, r[2], S)
  BY <1>1, WorthOfIs
<1> HIDE DEF rows
<1>4. /\ WorthOf(ledger, r[1], r[2], rows \cap Assets) = WorthOf(ledger, 1, r[2], rows \cap Assets)
      /\ WorthOf(ledger, r[1], r[2], rows \cap Liabilities) = WorthOf(ledger, 1, r[2], rows \cap Liabilities)
  BY <1>2, <1>3
<1>5. ASSUME NEW f, r[2] \in f .. r[2]
      PROVE  NetWorth(ledger, f, r[2])[r[2]] =
               [assets |-> WorthOf(ledger, f, r[2], rows \cap Assets),
                liabilities |-> WorthOf(ledger, f, r[2], rows \cap Liabilities),
                worth |-> WorthOf(ledger, f, r[2], rows \cap Assets)
                            + WorthOf(ledger, f, r[2], rows \cap Liabilities),
                accounts |-> rows]
  BY <1>5 DEF NetWorth, WorthOf, rows
<1>6. /\ NetWorth(ledger, r[1], r[2])[r[2]] =
           [assets |-> WorthOf(ledger, r[1], r[2], rows \cap Assets),
            liabilities |-> WorthOf(ledger, r[1], r[2], rows \cap Liabilities),
            worth |-> WorthOf(ledger, r[1], r[2], rows \cap Assets)
                        + WorthOf(ledger, r[1], r[2], rows \cap Liabilities),
            accounts |-> rows]
      /\ NetWorth(ledger, 1, r[2])[r[2]] =
           [assets |-> WorthOf(ledger, 1, r[2], rows \cap Assets),
            liabilities |-> WorthOf(ledger, 1, r[2], rows \cap Liabilities),
            worth |-> WorthOf(ledger, 1, r[2], rows \cap Assets)
                        + WorthOf(ledger, 1, r[2], rows \cap Liabilities),
            accounts |-> rows]
  BY <1>1, <1>5
<1> QED
  BY <1>4, <1>6

\* What a transaction adds to the household's net worth.
NetOf(t) ==
  IF t.type = "income" THEN t.amount ELSE IF t.type = "expense" THEN -t.amount ELSE 0

\* The legs of a transfer cancel out, between two accounts or on one.
LEMMA LegsCancel ==
  ASSUME NEW t, IsEntry(t), NEW e, \A a \in Holdings : e[a] = Effect(t, a)
  PROVE  SumOf(Holdings, e) = NetOf(t) /\ NetOf(t) \in Int
<1> DEFINE v == IF t.type = "income" THEN t.amount ELSE -t.amount
           w == IF t.type = "transfer" THEN t.amount ELSE 0
           s == [a \in Holdings |-> IF a = t.account THEN v ELSE 0]
           d == [a \in Holdings |-> IF t.type = "transfer" /\ a = t.to THEN t.amount ELSE 0]
<1>1. /\ t.amount \in Int /\ v \in Int /\ w \in Int /\ IsFiniteSet(Holdings)
      /\ t.account \in Holdings
  BY HoldingsFinite DEF IsEntry
<1>2. \A a \in Holdings : s[a] \in Int /\ d[a] \in Int /\ e[a] = s[a] + d[a]
  BY <1>1 DEF Effect
<1>3. SumOf(Holdings, e) = SumOf(Holdings, s) + SumOf(Holdings, d)
  <2> HIDE DEF s, d
  <2> QED
    BY <1>1, <1>2, SumOfPlus
<1>4. SumOf(Holdings, s) = v
  <2>1. \A a \in Holdings : s[a] = IF a = t.account THEN v ELSE 0
    OBVIOUS
  <2> HIDE DEF s, v
  <2> QED
    BY <1>1, <2>1, SumOfOne
<1>5. SumOf(Holdings, d) = w
  <2>1. CASE t.type = "transfer"
    <3>1. t.to \in Holdings /\ \A a \in Holdings : d[a] = IF a = t.to THEN t.amount ELSE 0
      BY <2>1 DEF IsEntry
    <3> HIDE DEF d
    <3>2. SumOf(Holdings, d) = t.amount
      BY <1>1, <3>1, SumOfOne
    <3> QED
      BY <2>1, <3>2
  <2>2. CASE t.type # "transfer"
    <3>1. \A a \in Holdings : d[a] = 0
      BY <2>2
    <3> HIDE DEF d
    <3>2. SumOf(Holdings, d) = 0
      BY <1>1, <3>1, SumOfZeros
    <3> QED
      BY <2>2, <3>2
  <2> QED
    BY <2>1, <2>2
<1>6. v + w = NetOf(t) /\ NetOf(t) \in Int
  BY <1>1 DEF NetOf, IsEntry
<1> QED
  BY <1>3, <1>4, <1>5, <1>6

OfKind(l, T, type) == {i \in T : l[i].type = type}

\* Adding up by account is adding up by transaction.
EffectSums(l, T) == [a \in Holdings |-> SumOf(T, EffectsOn(l, a))]

LEMMA EffectsAddUp ==
  ASSUME NEW l, IsLedger(l), NEW M \in SUBSET (DOMAIN l)
  PROVE  SumOf(Holdings, EffectSums(l, M))
           = Total(l, OfKind(l, M, "income")) - Total(l, OfKind(l, M, "expense"))
<1> DEFINE e == [i \in DOMAIN l |-> NetOf(l[i])]
           h == [T \in SUBSET M |-> SumOf(Holdings, EffectSums(l, T))]
           k == [T \in SUBSET M |-> Total(l, OfKind(l, T, "income"))
                                      - Total(l, OfKind(l, T, "expense"))]
<1>1. ASSUME NEW T \in SUBSET M
      PROVE  /\ IsFiniteSet(T) /\ T \in SUBSET (DOMAIN l)
             /\ \A a \in Holdings : EffectSums(l, T)[a] = SumOf(T, EffectsOn(l, a))
                                    /\ EffectSums(l, T)[a] \in Int
  <2>1. T \in SUBSET (DOMAIN l) /\ IsFiniteSet(T)
    BY TotalIs
  <2>2. \A a \in Holdings : \A i \in T : EffectsOn(l, a)[i] \in Int
    BY <2>1, EntryIs
  <2>3. \A a \in Holdings : SumOf(T, EffectsOn(l, a)) \in Int
    BY <2>1, <2>2, SumOfMore
  <2> QED
    BY <2>1, <2>3 DEF EffectSums
<1>2. \A i \in M : e[i] \in Int /\ e[i] = NetOf(l[i]) /\ i \in DOMAIN l /\ IsEntry(l[i])
  <2>1. \A i \in M : l[i].amount \in Int /\ -l[i].amount \in Int
    BY EntryIs
  <2> QED
    BY <2>1 DEF IsLedger, NetOf
<1>3. h[{}] = 0 /\ k[{}] = 0
  <2>1. \A a \in Holdings : EffectSums(l, {})[a] = 0
    BY SumOfMore, FS_EmptySet DEF EffectSums
  <2>2. SumOf(Holdings, EffectSums(l, {})) = 0
    BY <2>1, HoldingsFinite, SumOfZeros
  <2>3. \A type : OfKind(l, {}, type) = {}
    BY DEF OfKind
  <2>4. Total(l, {}) = 0
    <3>1. {} \in SUBSET (DOMAIN l)
      OBVIOUS
    <3>2. SumOf({}, AmountsOf(l)) = 0
      BY SumOfMore, FS_EmptySet
    <3> QED
      BY <3>1, <3>2, TotalIs
  <2> QED
    BY <2>2, <2>3, <2>4
<1>4. ASSUME NEW T \in SUBSET M, NEW i \in T PROVE h[T] = e[i] + h[T \ {i}]
  <2> DEFINE b == EffectSums(l, T)
             c == EffectSums(l, T \ {i})
             d == [a \in Holdings |-> Effect(l[i], a)]
  <2>1. i \in DOMAIN l /\ IsEntry(l[i]) /\ e[i] = NetOf(l[i])
    BY <1>2
  <2>2. \A a \in Holdings : d[a] \in Int /\ d[a] = EffectsOn(l, a)[i]
    BY <2>1, EntryIs
  <2>3. ASSUME NEW a \in Holdings PROVE b[a] \in Int /\ c[a] \in Int /\ b[a] = d[a] + c[a]
    <3>1. \A j \in T : EffectsOn(l, a)[j] \in Int
      BY <1>1, EntryIs
    <3>2. SumOf(T, EffectsOn(l, a)) = EffectsOn(l, a)[i] + SumOf(T \ {i}, EffectsOn(l, a))
      BY <1>1, <3>1, SumOfMore
    <3>3. T \ {i} \in SUBSET M
      OBVIOUS
    <3>4. b[a] = SumOf(T, EffectsOn(l, a)) /\ b[a] \in Int
      BY <1>1
    <3>5. c[a] = SumOf(T \ {i}, EffectsOn(l, a)) /\ c[a] \in Int
      BY <1>1, <3>3
    <3> HIDE DEF b, c, d
    <3> QED
      BY <2>2, <3>2, <3>4, <3>5
  <2>4. SumOf(Holdings, d) = NetOf(l[i])
    <3>1. \A a \in Holdings : d[a] = Effect(l[i], a)
      OBVIOUS
    <3> HIDE DEF d
    <3> QED
      BY <2>1, <3>1, LegsCancel
  <2>5. SumOf(Holdings, b) = SumOf(Holdings, d) + SumOf(Holdings, c)
    <3> HIDE DEF b, c, d
    <3> QED
      BY <2>2, <2>3, HoldingsFinite, SumOfPlus
  <2>6. h[T] = SumOf(Holdings, b) /\ h[T \ {i}] = SumOf(Holdings, c)
    OBVIOUS
  <2> HIDE DEF b, c, d, h, e
  <2> QED
    BY <2>1, <2>4, <2>5, <2>6
<1>5. ASSUME NEW T \in SUBSET M, NEW i \in T PROVE k[T] = e[i] + k[T \ {i}]
  <2> DEFINE S(type) == Total(l, OfKind(l, T, type))
             R(type) == Total(l, OfKind(l, T \ {i}, type))
  <2>1. i \in DOMAIN l /\ IsEntry(l[i]) /\ e[i] = NetOf(l[i]) /\ l[i].amount \in Int
    BY <1>2, EntryIs
  <2>2. ASSUME NEW type
        PROVE  R(type) \in Int /\ S(type) = (IF l[i].type = type THEN l[i].amount ELSE 0) + R(type)
    <3> DEFINE A == OfKind(l, T, type)
               B == OfKind(l, T \ {i}, type)
               f == AmountsOf(l)
    <3>1. A \in SUBSET (DOMAIN l) /\ B \in SUBSET (DOMAIN l)
      BY <1>1 DEF OfKind
    <3>2. /\ IsFiniteSet(A) /\ IsFiniteSet(B) /\ Total(l, A) = SumOf(A, f) /\ Total(l, B) = SumOf(B, f)
      <4> HIDE DEF A, B, f
      <4> QED
        BY <3>1, TotalIs DEF f
    <3>3. \A j \in DOMAIN l : f[j] \in Int /\ f[j] = l[j].amount
      BY EntryIs
    <3>4. IF l[i].type = type THEN i \in A /\ B = A \ {i} ELSE B = A
      BY DEF OfKind
    <3> HIDE DEF A, B, f
    <3>5. SumOf(B, f) \in Int
      BY <3>1, <3>2, <3>3, SumOfMore
    <3>6. CASE l[i].type = type
      <4>1. SumOf(A, f) = f[i] + SumOf(A \ {i}, f)
        BY <3>1, <3>2, <3>3, <3>4, <3>6, SumOfMore
      <4> QED
        BY <2>1, <3>2, <3>3, <3>4, <3>5, <3>6, <4>1 DEF A, B
    <3>7. CASE l[i].type # type
      BY <3>2, <3>4, <3>5, <3>7 DEF A, B
    <3> QED
      BY <3>6, <3>7
  <2>3. k[T] = S("income") - S("expense") /\ k[T \ {i}] = R("income") - R("expense")
    OBVIOUS
  <2>4. /\ S("income") = (IF l[i].type = "income" THEN l[i].amount ELSE 0) + R("income")
        /\ S("expense") = (IF l[i].type = "expense" THEN l[i].amount ELSE 0) + R("expense")
        /\ R("income") \in Int /\ R("expense") \in Int
    BY <2>2
  <2> HIDE DEF S, R, k, e
  <2> QED
    BY <2>1, <2>3, <2>4 DEF NetOf
<1>6. IsFiniteSet(M) /\ \A i \in M : e[i] \in Int
  BY <1>1, <1>2
<1>7. h[M] = SumOf(Holdings, EffectSums(l, M))
      /\ k[M] = Total(l, OfKind(l, M, "income")) - Total(l, OfKind(l, M, "expense"))
  OBVIOUS
<1> HIDE DEF h, k, e
<1>8. h[M] = SumOf(M, e)
  BY <1>3, <1>4, <1>6, SumOfUnique
<1>9. k[M] = SumOf(M, e)
  BY <1>3, <1>5, <1>6, SumOfUnique
<1> QED
  BY <1>7, <1>8, <1>9

\* Where the first month of an account comes from: when it was created, and every
\* transaction on it up to the end of the range.
LEMMA FirstMonthIs ==
  ASSUME NEW l, IsLedger(l), NEW a \in Holdings
  PROVE  /\ FirstMonth(l, a, Span) \in Int
         /\ \A i \in DOMAIN l : Touches(l[i], a) => FirstMonth(l, a, Span) <= l[i].month
<1> DEFINE J == {j \in DOMAIN l : Touches(l[j], a) /\ l[j].month <= Span}
           T == {l[i].month : i \in J}
           S == {CreatedIn[a]} \cup T
<1>1. CreatedIn[a] \in Int /\ \A i \in DOMAIN l : l[i].month \in Int /\ l[i].month <= Span
  BY HoldingsFinite, EntryIs
<1>3. IsFiniteSet(T)
  <2>1. T \in SUBSET (1 .. Span) /\ 1 \in Int /\ Span \in Int
    BY LedgerAssumption DEF IsLedger, IsEntry
  <2> HIDE DEF T
  <2> QED
    BY <2>1, FS_Interval, FS_Subset
<1>4. IsFiniteSet(S)
  <2> HIDE DEF T
  <2> QED
    BY <1>3, FS_Singleton, FS_Union
<1>5. S \in SUBSET Int /\ S # {}
  BY <1>1
<1>6. FirstMonth(l, a, Span) = Min(S)
  BY DEF FirstMonth
<1>7. \A i \in DOMAIN l : Touches(l[i], a) => l[i].month \in S
  BY <1>1
<1> HIDE DEF S
<1>8. Min(S) \in S /\ \A y \in S : Min(S) <= y
  BY <1>4, <1>5, MinIs
<1> QED
  BY <1>5, <1>6, <1>7, <1>8

\* Before an account appears nothing happens on it.
LEMMA QuietBefore ==
  ASSUME NEW l, IsLedger(l), NEW m \in Int, NEW a \in Holdings, a \notin Appearing(l, m, Span),
         NEW T \in SUBSET UpTo(l, m)
  PROVE  SumOf(T, EffectsOn(l, a)) = 0
<1>1. \A i \in T : i \in DOMAIN l /\ l[i].month <= m /\ l[i].month \in Int
  BY EntryIs DEF UpTo
<1>2. FirstMonth(l, a, Span) \in Int /\ ~(FirstMonth(l, a, Span) <= m)
  BY FirstMonthIs DEF Appearing
<1>3. \A i \in T : ~Touches(l[i], a)
  BY <1>1, <1>2, FirstMonthIs
<1>4. \A i \in T : EffectsOn(l, a)[i] = 0
  BY <1>1, <1>3 DEF EffectsOn, Effect, Touches
<1>5. IsFiniteSet(T)
  BY <1>1, FS_Subset DEF IsLedger
<1> QED
  BY <1>4, <1>5, SumOfZeros

\* A month's balance is the balance of the month before and the month's effects.
LEMMA BalanceGrows ==
  ASSUME NEW l, IsLedger(l), NEW m \in Int, NEW a \in Holdings
  PROVE  /\ EffectSums(l, During(l, m))[a] \in Int
         /\ Balances(l, m - 1)[a] \in Int
         /\ Balances(l, m)[a] = Balances(l, m - 1)[a] + EffectSums(l, During(l, m))[a]
<1> DEFINE e == EffectsOn(l, a)
           A == UpTo(l, m - 1)
           B == During(l, m)
<1>1. \A i \in DOMAIN l : l[i].month \in Int /\ e[i] \in Int
  BY EntryIs
<1>2. /\ A \in SUBSET (DOMAIN l) /\ B \in SUBSET (DOMAIN l) /\ A \cap B = {}
      /\ A \cup B = UpTo(l, m)
  BY <1>1 DEF UpTo, During
<1>3. /\ Balances(l, m)[a] = Opening[a] + SumOf(A \cup B, e)
      /\ Balances(l, m - 1)[a] = Opening[a] + SumOf(A, e)
      /\ EffectSums(l, During(l, m))[a] = SumOf(B, e)
  BY <1>2 DEF Balances, EffectSums
<1> HIDE DEF A, B, e
<1>4. IsFiniteSet(A) /\ IsFiniteSet(B) /\ (\A i \in A \cup B : e[i] \in Int)
  BY <1>1, <1>2, FS_Subset DEF IsLedger
<1>5. SumOf(A \cup B, e) = SumOf(A, e) + SumOf(B, e)
  BY <1>2, <1>4, SumOfUnion
<1>6. SumOf(A, e) \in Int /\ SumOf(B, e) \in Int /\ Opening[a] \in Int
  BY <1>4, SumOfMore, HoldingsFinite
<1> QED
  BY <1>3, <1>5, <1>6

\* What the accounts that show come to, in one sum.
LEMMA WorthIs ==
  ASSUME NEW l, IsLedger(l), NEW m \in 1 .. Span
  PROVE  /\ NetWorth(l, 1, Span)[m].worth = SumOf(Appearing(l, m, Span), Balances(l, m))
         /\ NetWorth(l, 1, Span)[m].accounts = Appearing(l, m, Span)
<1> DEFINE R == Appearing(l, m, Span)
           A == R \cap Assets
           B == R \cap Liabilities
<1>1. /\ A \in SUBSET Holdings /\ B \in SUBSET Holdings /\ A \cap B = {} /\ A \cup B = R
      /\ 1 \in Int /\ m \in Int /\ 1 <= m + 1
  BY ReportsAssumption, LedgerAssumption DEF Appearing, Holdings
<1>2. NetWorth(l, 1, Span)[m].worth = WorthOf(l, 1, m, A) + WorthOf(l, 1, m, B)
  BY NetWorthIs
<1>3. NetWorth(l, 1, Span)[m].accounts = R
  BY NetWorthIs
<1> HIDE DEF A, B
<1>4. /\ WorthOf(l, 1, m, A) = SumOf(A, Balances(l, m)) /\ IsFiniteSet(A)
      /\ WorthOf(l, 1, m, B) = SumOf(B, Balances(l, m)) /\ IsFiniteSet(B)
      /\ \A a \in A \cup B : Balances(l, m)[a] \in Int
  BY <1>1, WorthOfIs
<1>5. SumOf(A \cup B, Balances(l, m)) = SumOf(A, Balances(l, m)) + SumOf(B, Balances(l, m))
  BY <1>1, <1>4, SumOfUnion
<1> QED
  BY <1>1, <1>2, <1>3, <1>4, <1>5

\* What the effects of a month come to over all accounts is its net cash flow.
LEMMA FlowIs ==
  ASSUME NEW m \in 1 .. Span, IsLedger(ledger)
  PROVE  SumOf(Holdings, EffectSums(ledger, During(ledger, m))) = Flow[m].net
<1> DEFINE M == During(ledger, m)
<1>1. M \in SUBSET (DOMAIN ledger)
  BY DEF During
<1>2. \A type : OfKind(ledger, M, type) = OfType(ledger, m, type)
  BY DEF OfKind, OfType, During
<1>3. Flow[m].net = Earned(ledger, m) - Spent(ledger, m)
  BY DEF Flow, CashFlow
<1> HIDE DEF M
<1>4. SumOf(Holdings, EffectSums(ledger, M))
        = Total(ledger, OfKind(ledger, M, "income")) - Total(ledger, OfKind(ledger, M, "expense"))
  BY <1>1, EffectsAddUp
<1> QED
  BY <1>2, <1>3, <1>4 DEF Earned, Spent, M

LEMMA WorthGrows ==
  ASSUME IsLedger(ledger), NEW m \in 2 .. Span
  PROVE  NetWorth(ledger, 1, Span)[m].worth - NetWorth(ledger, 1, Span)[m - 1].worth
           = Flow[m].net + SumOf(NetWorth(ledger, 1, Span)[m].accounts
                                   \ NetWorth(ledger, 1, Span)[m - 1].accounts, Opening)
<1> DEFINE R == Appearing(ledger, m, Span)
           Q == Appearing(ledger, m - 1, Span)
           N == R \ Q
           D == EffectSums(ledger, During(ledger, m))
           old == Balances(ledger, m - 1)
           new == Balances(ledger, m)
<1>1. /\ m \in 1 .. Span /\ m - 1 \in 1 .. Span /\ m \in Int /\ m - 1 \in Int
  BY LedgerAssumption
<1>2. /\ NetWorth(ledger, 1, Span)[m].worth = SumOf(R, new)
      /\ NetWorth(ledger, 1, Span)[m - 1].worth = SumOf(Q, old)
      /\ NetWorth(ledger, 1, Span)[m].accounts = R
      /\ NetWorth(ledger, 1, Span)[m - 1].accounts = Q
  BY <1>1, WorthIs
<1>3. R \in SUBSET Holdings
  BY DEF Appearing
<1>4. Q \in SUBSET R
  <2>1. \A a \in Holdings : FirstMonth(ledger, a, Span) \in Int
    BY FirstMonthIs
  <2> QED
    BY <1>1, <2>1 DEF Appearing
<1>5. \A a \in Holdings : D[a] \in Int /\ old[a] \in Int /\ new[a] = old[a] + D[a]
  BY <1>1, BalanceGrows
<1>6. \A a \in N : old[a] = Opening[a]
  <2>1. SUFFICES ASSUME NEW a \in N PROVE old[a] = Opening[a]
    OBVIOUS
  <2>2. a \in Holdings /\ a \notin Appearing(ledger, m - 1, Span)
    BY <1>3
  <2>3. SumOf(UpTo(ledger, m - 1), EffectsOn(ledger, a)) = 0
    BY <1>1, <2>2, QuietBefore
  <2> QED
    BY <2>2, <2>3, HoldingsFinite DEF Balances
<1>7. \A a \in Holdings \ R : D[a] = 0
  <2>1. SUFFICES ASSUME NEW a \in Holdings \ R PROVE D[a] = 0
    OBVIOUS
  <2>2. During(ledger, m) \in SUBSET UpTo(ledger, m)
    BY <1>1 DEF During, UpTo
  <2>3. SumOf(During(ledger, m), EffectsOn(ledger, a)) = 0
    BY <1>1, <2>2, QuietBefore
  <2> QED
    BY <2>3 DEF EffectSums
<1>8. SumOf(Holdings, D) = Flow[m].net
  BY <1>1, FlowIs
<1> HIDE DEF R, Q, D, old, new
<1>9. IsFiniteSet(Holdings) /\ IsFiniteSet(R) /\ IsFiniteSet(Q) /\ IsFiniteSet(N)
  BY <1>3, <1>4, FS_Subset, HoldingsFinite
<1>10. SumOf(R, new) = SumOf(R, old) + SumOf(R, D)
  BY <1>3, <1>5, <1>9, SumOfPlus
<1>11. SumOf(R, old) = SumOf(Q, old) + SumOf(N, Opening)
  <2>1. Q \cup N = R /\ Q \cap N = {} /\ \A a \in Q \cup N : old[a] \in Int
    BY <1>3, <1>4, <1>5
  <2>2. SumOf(N, old) = SumOf(N, Opening)
    BY <1>3, <1>5, <1>6, <1>9, SumOfEqual
  <2> HIDE DEF N
  <2>3. SumOf(Q \cup N, old) = SumOf(Q, old) + SumOf(N, old)
    BY <1>9, <2>1, SumOfUnion
  <2> QED
    BY <2>1, <2>2, <2>3
<1>12. SumOf(Holdings, D) = SumOf(R, D)
  <2> DEFINE E == Holdings \ R
  <2>1. IsFiniteSet(E) /\ R \cap E = {} /\ R \cup E = Holdings
    BY <1>3, <1>9, FS_Subset
  <2>2. SumOf(E, D) = 0
    BY <1>7, <2>1, SumOfZeros
  <2> HIDE DEF E
  <2>3. SumOf(R \cup E, D) = SumOf(R, D) + SumOf(E, D)
    BY <1>5, <1>9, <2>1, SumOfUnion
  <2>4. SumOf(R, D) \in Int
    BY <1>3, <1>5, <1>9, SumOfMore
  <2> QED
    BY <2>1, <2>2, <2>3, <2>4
<1>13. SumOf(R, D) \in Int /\ SumOf(Q, old) \in Int /\ SumOf(N, Opening) \in Int
  <2>1. SumOf(R, D) \in Int
    BY <1>3, <1>5, <1>9, SumOfMore
  <2>2. SumOf(Q, old) \in Int
    BY <1>3, <1>4, <1>5, <1>9, SumOfMore
  <2>3. \A a \in N : Opening[a] \in Int
    BY <1>3, HoldingsFinite
  <2> HIDE DEF N
  <2> QED
    BY <1>9, <2>1, <2>2, <2>3, SumOfMore
<1> HIDE DEF N
<1>14. SumOf(R, new) - SumOf(Q, old) = Flow[m].net + SumOf(N, Opening)
  BY <1>8, <1>10, <1>11, <1>12, <1>13
<1> QED
  BY <1>2, <1>14 DEF N

LEMMA FlowAgrees ==
  ASSUME IsLedger(ledger)
  PROVE  FlowExplainsWorth
<1> DEFINE worth == NetWorth(ledger, 1, Span)
<1>1. \A m \in 2 .. Span :
        worth[m].worth - worth[m - 1].worth
          = Flow[m].net + SumOf(worth[m].accounts \ worth[m - 1].accounts, Opening)
  BY WorthGrows
<1>2. \A S : SumOf(S, Opening) = MapThenSumSet(LAMBDA a : Opening[a], S)
  BY DEF SumOf
<1> HIDE DEF worth
<1>3. \A m \in 2 .. Span :
        worth[m].worth - worth[m - 1].worth
          = Flow[m].net + MapThenSumSet(LAMBDA a : Opening[a],
                            worth[m].accounts \ worth[m - 1].accounts)
  BY <1>1, <1>2
<1> QED
  BY <1>3 DEF FlowExplainsWorth, worth

\* What the wire and the ledger are like makes the three figures agree.
LEMMA ReportsHold ==
  ASSUME ReportTypes
  PROVE  ReportsAgree
<1>1. PICK n \in 0 .. NumEntries : ledger = [k \in 1 .. n |-> ledger[k]]
  BY DEF ReportTypes
<1>2. DOMAIN ledger = 1 .. n /\ 1 \in Int /\ n \in Int
  <2>1. DOMAIN [k \in 1 .. n |-> ledger[k]] = 1 .. n
    OBVIOUS
  <2> QED
    BY <1>1, <2>1, LedgerAssumption
<1>3. IsLedger(ledger)
  BY <1>2, FS_Interval DEF IsLedger, ReportTypes
<1> QED
  BY <1>3, FlowAgrees, RangesAgree, SpendingAgrees DEF ReportsAgree

-----------------------------------------------------------------------------
(* All the pages.                                                          *)

\* The page a tab shows stays the same, and the import wizard is closed on any
\* other than its own.
PageInv ==
  /\ page \in Openable
  /\ page # "transactions" => wizard.step = "closed"

PagesInv ==
  /\ PageInv
  /\ ListInv /\ BudgetInv /\ ReportInv /\ BellInv /\ TableInv

LEMMA PagesInvInit == Init => PagesInv
<1>1. Init => PageInv
  BY DEF Init, PageInv, TableInit, Closed
<1> QED
  BY <1>1, ListInvInit, BudgetInvInit, ReportInvInit, BellInvInit, TableInvInit DEF PagesInv

LEMMA PageInvKept == PageInv /\ [Next]_vars => PageInv'
<1>1. ASSUME PageInv, Next PROVE PageInv'
  <2>1. page' = page
    BY <1>1 DEF Next
  <2>2. page # "transactions" => wizard' = wizard
    BY <1>1 DEF Next, tableVars
  <2> QED
    BY <1>1, <2>1, <2>2 DEF PageInv
<1>2. ASSUME PageInv, UNCHANGED vars PROVE PageInv'
  BY <1>2 DEF PageInv, vars, tableVars
<1> QED
  BY <1>1, <1>2

LEMMA PagesInvKept == PagesInv /\ [Next]_vars => PagesInv'
BY PageInvKept, ListInvKept, BudgetInvKept, ReportInvKept, BellInvKept, TableInvKept
   DEF PagesInv

LEMMA PagesInvHolds == Spec => []PagesInv
BY PagesInvInit, PagesInvKept, PTL DEF Spec

\* Which pages there are, and what is on the wire of each.
LEMMA WireOfPage ==
  ASSUME PagesInv
  PROVE  \/ page = "categories" /\ ListWire
         \/ page = "budget" /\ BudgetWire
         \/ page = "reports" /\ ReportWire
         \/ page = "bell" /\ BellWire
         \/ page = "transactions" /\ TableWire
<1>1. page \in {"categories", "budget", "reports", "bell", "transactions"}
  BY PagesAssumption DEF PagesInv, PageInv
<1> QED
  BY <1>1 DEF PagesInv, ListInv, BudgetInv, ReportInv, BellInv, TableInv

ListCallKinds == {"refresh", "archive", "reorder"}
BudgetCallKinds == {"budget", "catalog", "save", "clear"}
BellCallKinds == {"count", "notices", "readAll", "read", "dismiss"}
TableCallKinds == {"table", "accounts", "delete", "file", "import"}

\* Each page makes its own kinds of calls.
LEMMA CallsOfPage ==
  ASSUME PagesInv, NEW i \in DOMAIN calls
  PROVE  /\ calls[i].stage \in Stages
         /\ \/ page = "categories" /\ calls[i].kind \in ListCallKinds
            \/ page = "budget" /\ calls[i].kind \in BudgetCallKinds
            \/ page = "reports" /\ calls[i].kind = "report"
            \/ page = "bell" /\ calls[i].kind \in BellCallKinds
            \/ page = "transactions" /\ calls[i].kind \in TableCallKinds
<1>1. CASE page = "categories" /\ ListWire
  <2>1. calls[i] \in ListCalls
    BY <1>1 DEF ListWire
  <2>2. calls[i].stage \in Stages /\ calls[i].kind \in ListCallKinds
    BY <2>1 DEF ListCalls, ListCallKinds
  <2> QED
    BY <1>1, <2>2
<1>2. CASE page = "budget" /\ BudgetWire
  <2>1. calls[i] \in BudgetCalls
    BY <1>2 DEF BudgetWire
  <2>2. calls[i].stage \in Stages /\ calls[i].kind \in BudgetCallKinds
    BY <2>1 DEF BudgetCalls, BudgetCallKinds
  <2> QED
    BY <1>2, <2>2
<1>3. CASE page = "reports" /\ ReportWire
  <2>1. calls[i] \in ReportCalls
    BY <1>3 DEF ReportWire
  <2>2. calls[i].stage \in Stages /\ calls[i].kind = "report"
    BY <2>1 DEF ReportCalls
  <2> QED
    BY <1>3, <2>2
<1>4. CASE page = "bell" /\ BellWire
  <2>1. calls[i] \in NoticeCalls
    BY <1>4 DEF BellWire
  <2>2. calls[i].stage \in Stages /\ calls[i].kind \in BellCallKinds
    BY <2>1 DEF NoticeCalls, BellCallKinds
  <2> QED
    BY <1>4, <2>2
<1>5. CASE page = "transactions" /\ TableWire
  <2>1. calls[i] \in TableCalls
    BY <1>5 DEF TableWire
  <2>2. calls[i].stage \in Stages /\ calls[i].kind \in TableCallKinds
    BY <2>1 DEF TableCalls, TableCallKinds
  <2> QED
    BY <1>5, <2>2
<1> QED
  BY <1>1, <1>2, <1>3, <1>4, <1>5, WireOfPage

LEMMA TypesHold ==
  ASSUME PagesInv
  PROVE  TypeOK
<1>1. /\ order \in [Categories -> 0 .. NumCategories] /\ archived \subseteq Categories
      /\ shown.archived \subseteq Categories /\ shown.at <= version /\ owed <= version
  BY DEF PagesInv, ListInv, ListTypes, Orders, ListAnswers, Blank
<1>2. limit \in [Months -> {NoLimit} \cup Cents] /\ month \in Months
  BY DEF PagesInv, BudgetInv, BudgetTypes
<1>3. range \in Ranges
  BY DEF PagesInv, ReportInv, ReportTypes
<1>4. /\ inbox \in [Notices -> {"none", "unread", "read", "gone"}]
      /\ marked \subseteq listed /\ listed \subseteq Notices
  BY DEF PagesInv, BellInv, BellTypes
<1>5. /\ stored \subseteq 1 .. NumRows /\ table.rows \subseteq 1 .. NumRows
      /\ wizard.step \in {"closed", "upload", "map", "preview", "result"}
  BY DEF PagesInv, TableInv, TableTypes, Tables, WizardStates
<1>6. wizard.step \in {"map", "preview"} => wizard.file # None /\ Files[wizard.file] # {}
  <2>1. CASE page = "transactions"
    BY <2>1, TableAssumption DEF PagesInv, TableInv, TableWire, WizardSound
  <2>2. CASE page # "transactions"
    BY <2>2 DEF PagesInv, PageInv
  <2> QED
    BY <2>1, <2>2
<1>7. \A i \in DOMAIN calls : /\ calls[i].kind \in Kinds
                              /\ calls[i].stage \in {"sent", "done", "failed"}
  BY CallsOfPage DEF Kinds, Stages, ListCallKinds, BudgetCallKinds, BellCallKinds,
                     TableCallKinds
<1> QED
  BY <1>1, <1>2, <1>3, <1>4, <1>5, <1>6, <1>7 DEF TypeOK

\* The calls on the wire are those of the page that is open, and an import that
\* is sent carries the file whose name the wizard displays, unless two files
\* were being read at the same time (handleFile(), handleCommit(),
\* CsvImportWizard.tsx).
THEOREM CallsAreSound ==
  Spec => []CallsSound
<1>1. PagesInv => ImportsWhatItNames
  <2> SUFFICES ASSUME PagesInv, NEW i \in DOMAIN calls, calls[i].kind = "import"
               PROVE  crossed \/ calls[i].named = calls[i].file
    BY DEF ImportsWhatItNames
  <2>1. page = "transactions"
    BY CallsOfPage DEF ListCallKinds, BudgetCallKinds, BellCallKinds
  <2> QED
    BY <2>1 DEF PagesInv, TableInv, TableWire, ImportsNamed
<1>2. PagesInv => CallsSound
  BY <1>1, TypesHold DEF CallsSound
<1> QED
  BY <1>2, PagesInvHolds, PTL

\* At rest every page shows what is stored and what its controls select, however
\* its answers were delayed, lost or overtaken, but for the overlaps it has no
\* means to notice (runReorder() and refresh() of the categories page,
\* handleSave() and clearLimit() of the budget page, NotificationBell.tsx, the
\* list's effect and afterMutation() of the transactions page).
THEOREM ScreensSettle ==
  Spec => []ScreenSettles
<1>1. PagesInv => ScreenSettles
  BY ListAtRest, BudgetAtRest, BellAtRest, TableAtRest DEF PagesInv, ScreenSettles
<1> QED
  BY <1>1, PagesInvHolds, PTL

\* No page waits for an answer that cannot come: with nothing on the wire its
\* buttons are enabled, and it shows data or an error (the `finally` of
\* runReorder(), clearLimit(), handleSave(), fetchNotifications() and the
\* transactions list, useReport()).
THEOREM NobodyIsStuck ==
  Spec => []NeverStuck
<1>1. PagesInv => NeverStuck
  <2> SUFFICES ASSUME PagesInv, AtRest PROVE NeverStuck
    BY DEF NeverStuck
  <2>1. /\ page = "categories" => ~reordering /\ ~loading
        /\ page = "budget" => ~saving /\ (Ready \/ budgetError \/ catalog = "error")
        /\ page = "reports" => ~Loading
        /\ page = "bell" => ~fetching
        /\ page = "transactions" => ~tableLoading /\ ~wizard.submitting
    BY ListAtRest, BudgetAtRest, ReportsAtRest, BellAtRest, TableAtRest DEF PagesInv
  <2>2. page \in {"categories", "budget", "reports", "bell", "transactions"}
    BY PagesAssumption DEF PagesInv, PageInv
  <2> QED
    BY <2>1, <2>2 DEF NeverStuck
<1> QED
  BY <1>1, PagesInvHolds, PTL

\* The cash flow explains the growth of the net worth, a month's report does not
\* depend on where its range begins, and the rows of the spending add up to its
\* total: for every ledger that members can record (getCashFlow(),
\* getNetWorth(), getSpending(), reports.service.ts; getBudgetVsActual(),
\* budgets.service.ts).
THEOREM ReportsAlwaysAgree ==
  Spec => []ReportsAgree
<1>1. PagesInv => ReportsAgree
  BY ReportsHold DEF PagesInv, ReportInv
<1> QED
  BY <1>1, PagesInvHolds, PTL

\* A move that started from the stored order exchanges the two neighbours the
\* member meant and no others among those listed (reorderCategories(),
\* categories.service.ts), and an empty field never clears a limit of zero,
\* unless the screen may be older than the member's last write (handleSave(),
\* budget/page.tsx).
THEOREM WritesMeant ==
  Spec => WritesAsMeant
<1>1. ASSUME PagesInv, NEW i \in DOMAIN calls, ServeReorder(i), calls[i].honest
      PROVE  {p \in Swapped : p \subseteq ToSet(calls[i].ids)} = {calls[i].pair}
  <2>1. calls[i].kind = "reorder"
    BY <1>1 DEF ServeReorder, Stage
  <2>2. page = "categories"
    BY <1>1, <2>1, CallsOfPage DEF BudgetCallKinds, BellCallKinds, TableCallKinds
  <2>3. ListTypes /\ ListWire
    BY <1>1, <2>2 DEF PagesInv, ListInv
  <2> QED
    BY <1>1, <2>3, OneExchange
<1>2. ASSUME PagesInv, NEW i \in DOMAIN calls, ServeClear(i), ~calls[i].warned
      PROVE  limit[calls[i].month] # 0
  <2>1. calls[i].kind = "clear"
    BY <1>2 DEF ServeClear, Stage
  <2>2. page = "budget"
    BY <1>2, <2>1, CallsOfPage DEF ListCallKinds, BellCallKinds, TableCallKinds
  <2> QED
    BY <1>2, <2>2, ClearedIsNotZero DEF PagesInv
<1>3. PagesInv /\ [Next]_vars =>
        [\A i \in DOMAIN calls :
           ServeReorder(i) /\ calls[i].honest
             => {p \in Swapped : p \subseteq ToSet(calls[i].ids)} = {calls[i].pair}]_vars
  BY <1>1
<1>4. PagesInv /\ [Next]_vars =>
        [\A i \in DOMAIN calls :
           ServeClear(i) /\ ~calls[i].warned => limit[calls[i].month] # 0]_vars
  BY <1>2
<1> QED
  BY <1>3, <1>4, PagesInvHolds, PTL DEF Spec, WritesAsMeant, MovesOnePair, ZeroIsKept
=============================================================================
