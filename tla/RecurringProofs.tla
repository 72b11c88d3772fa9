-------------------------- MODULE RecurringProofs --------------------------
(***************************************************************************)
(* Recurring.tla for any number of servers, requests, days and crashes:    *)
(* type correctness, the promises its run checks on a small instance, and  *)
(* that it implements Occurrences.tla while nobody edits a bill.  Then     *)
(* Cadence.tla, the dates that Recurring.tla takes to be a fixed number of *)
(* days apart, for any years and any number of advances and edits.         *)
(***************************************************************************)
EXTENDS Recurring, Cadence, FiniteSetTheorems, WellFoundedInduction, TLAPS

-----------------------------------------------------------------------------
(* Arithmetic of the cadence.                                              *)

\* A multiple of the period leaves no remainder.
LEMMA Multiple ==
  ASSUME NEW n \in Int, NEW k \in Int, NEW p \in Nat \ {0}, n = p * k
  PROVE  n % p = 0
OBVIOUS

LEMMA Quotient ==
  ASSUME NEW n \in Int, NEW p \in Nat \ {0}
  PROVE  /\ n % p \in 0 .. p - 1
         /\ n \div p \in Int
         /\ n = p * (n \div p) + (n % p)
OBVIOUS

LEMMA NoMultipleBetween ==
  ASSUME NEW t \in Int, NEW p \in Nat \ {0}
  PROVE  ~(0 < p * t /\ p * t < p)
<1>1. CASE t <= 0
  BY <1>1
<1>2. CASE t >= 1
  BY <1>2
<1> QED
  BY <1>1, <1>2

\* Between an aligned day and the next there is none.
LEMMA Gap ==
  ASSUME NEW n \in Int, NEW k \in Int, NEW p \in Nat \ {0},
         n % p = 0, 0 < k, k < p
  PROVE  (n + k) % p # 0
<1> SUFFICES ASSUME (n + k) % p = 0
             PROVE  FALSE
  OBVIOUS
<1> DEFINE m == n \div p
           j == (n + k) \div p
<1>1. m \in Int /\ n = p * m
  BY Quotient
<1>2. j \in Int /\ n + k = p * j
  <2>1. n + k \in Int
    OBVIOUS
  <2> QED
    BY <2>1, Quotient
<1> HIDE DEF m, j
<1>3. j - m \in Int /\ k = p * (j - m)
  BY <1>1, <1>2
<1> QED
  BY <1>3, NoMultipleBetween

LEMMA NextAligned ==
  ASSUME NEW n \in Int, NEW p \in Nat \ {0}, n % p = 0
  PROVE  (n + p) % p = 0
<1> DEFINE m == n \div p
<1>1. m \in Int /\ n = p * m
  BY Quotient
<1> HIDE DEF m
<1>2. m + 1 \in Int /\ n + p \in Int /\ n + p = p * (m + 1)
  BY <1>1
<1> QED
  BY <1>2, Multiple

\* A date can be rolled by whole periods into the first period from a day on.
LEMMA RollExists ==
  ASSUME NEW n \in Int, NEW now \in Int, NEW p \in Nat \ {0}
  PROVE  \E d \in now .. now + p - 1 : (d - n) % p = 0
<1> DEFINE r == (n - now) % p
           q == (n - now) \div p
<1>1. /\ r \in 0 .. p - 1 /\ q \in Int
      /\ n - now = p * q + r
  <2>1. n - now \in Int
    OBVIOUS
  <2> QED
    BY <2>1, Quotient
<1> HIDE DEF r, q
<1>2. /\ -q \in Int /\ (now + r) - n \in Int
      /\ (now + r) - n = p * (-q)
  BY <1>1
<1>3. ((now + r) - n) % p = 0
  BY <1>2, Multiple
<1>4. now + r \in now .. now + p - 1
  BY <1>1
<1> QED
  BY <1>3, <1>4

-----------------------------------------------------------------------------
(* Type correctness.                                                       *)

LEMMA Constants ==
  /\ Horizon \in Nat /\ Period \in Nat \ {0} /\ MaxCatchup \in Nat \ {0}
  /\ MaxCrashes \in Nat /\ MaxEdits \in Nat
  /\ LastDate \in Nat /\ 0 \in Dates /\ 0 .. Horizon \subseteq Dates
  /\ Dates \subseteq Int
BY RecurringAssumption DEF LastDate, Dates

\* settleTrackedSubscriptionDate(): only the date changes, and a subscription that
\* can post is dated today or later.
LEMMA Settled ==
  ASSUME NEW doc \in Schedule, NEW now \in 0 .. Horizon
  PROVE  /\ Settle(doc, now) \in Schedule
         /\ Settle(doc, now) = [doc EXCEPT !.next = Settle(doc, now).next]
         /\ Posts(doc) => Settle(doc, now).next >= now
<1>1. CASE Posts(doc) /\ doc.next < now
  <2> DEFINE d == CHOOSE d \in now .. now + Period - 1 : (d - doc.next) % Period = 0
  <2>1. doc.next \in Int /\ now \in Int
    BY Constants DEF Schedule
  <2>2. \E x \in now .. now + Period - 1 : (x - doc.next) % Period = 0
    BY <2>1, RollExists, Constants
  <2>3. d \in now .. now + Period - 1
    BY <2>2
  <2>4. d \in Dates
    BY <2>3, Constants DEF Dates, LastDate
  <2>5. Settle(doc, now) = [doc EXCEPT !.next = d]
    BY <1>1 DEF Settle
  <2> HIDE DEF d
  <2> QED
    BY <2>3, <2>4, <2>5, <2>1 DEF Schedule
<1>2. CASE ~(Posts(doc) /\ doc.next < now)
  BY <1>2, Constants DEF Settle, Schedule
<1> QED
  BY <1>1, <1>2

Posting == {"insert", "sync", "advance"}

\* A run posts nothing before its day and keeps to the cap.
InTime ==
  \A s \in Servers :
    /\ run[s].pc \in Posting => run[s].occurrence <= run[s].now
                                /\ run[s].periods < MaxCatchup
    /\ run[s].pc = "resolve" => run[s].periods = 0

TypeInv == TypeOK /\ InTime

LEMMA HeadTypes ==
  ASSUME NEW end, NEW occurrence, NEW now, NEW count, NEW posting,
         NEW pc, pc = LoopHead(end, occurrence, now, count, posting)
  PROVE  /\ pc \in {"insert", "advance", "expire", "handled"}
         /\ pc = "expire" <=> occurrence > end
         /\ pc = "insert" => posting
         /\ pc = "advance" => ~posting
         /\ pc \in Posting => ~(occurrence > now) /\ ~(count >= MaxCatchup)
BY DEF LoopHead, Posting

LEMMA IdleTypes == IdleRun \in RunRecord
BY Constants DEF IdleRun, RunRecord

\* The parts of TypeOK that actions disturb, one by one.
Flags == claimed \in BOOLEAN /\ removed \in BOOLEAN /\ usable \in BOOLEAN
         /\ expired \in BOOLEAN

Counts == /\ today \in 0 .. Horizon /\ since \in 0 .. Horizon
          /\ edits \in 0 .. MaxEdits /\ crashes \in 0 .. MaxCrashes
          /\ balance \in Int

Days == posted \subseteq everPosted /\ everPosted \subseteq Dates /\ from \in Dates

Documents == /\ schedule \in Schedule
             /\ edit \in [Editors -> EditRecord]

Runs == run \in [Servers -> RunRecord] /\ InTime

LEMMA TypeParts == TypeInv <=> Flags /\ Counts /\ Days /\ Documents /\ Runs
<1>1. {claimed, removed, usable, expired} \subseteq BOOLEAN <=> Flags
  BY DEF Flags
<1> QED
  BY <1>1 DEF TypeInv, TypeOK, Counts, Days, Documents, Runs

LEMMA TypeInit ==
  ASSUME Init
  PROVE  TypeInv
<1>1. Documents
  <2>1. schedule \in Schedule
    BY DEF Init
  <2> QED
    BY <2>1, Constants DEF Init, IdleEdit, EditRecord, Documents
<1>2. Counts
  BY RecurringAssumption DEF Init, Counts
<1>3. Runs
  BY IdleTypes DEF Init, Runs, InTime, IdleRun, Posting
<1>4. Days
  BY <1>1 DEF Init, Days, Documents, Schedule
<1>5. Flags
  BY DEF Init, Flags
<1> QED
  BY <1>1, <1>2, <1>3, <1>4, <1>5, TypeParts

LEMMA TypeNext ==
  ASSUME TypeInv, [Next]_vars
  PROVE  TypeInv'
<1>0. Flags /\ Counts /\ Days /\ Documents /\ Runs
  BY TypeParts
<1> SUFFICES Flags' /\ Counts' /\ Days' /\ Documents' /\ Runs'
  BY TypeParts, PTL
<1> USE Constants
<1>1. CASE Midnight
  <2>1. Counts'
    BY <1>0, <1>1 DEF Midnight, Counts, history
  <2>2. Runs' /\ Documents' /\ Days'
    BY <1>0, <1>1 DEF Midnight, Runs, InTime, Documents, Days, history
  <2>3. Flags'
    BY <1>0, <1>1 DEF Midnight, Flags, history
  <2> QED
    BY <2>1, <2>2, <2>3
<1>2. ASSUME NEW s \in Servers, Claim(s)
      PROVE  Flags' /\ Counts' /\ Days' /\ Documents' /\ Runs'
  <2>1. [IdleRun EXCEPT !.pc = "scan", !.now = today] \in RunRecord
    BY <1>0, IdleTypes DEF RunRecord, Counts
  <2>2. Runs'
    BY <1>0, <1>2, <2>1 DEF Claim, Runs, InTime, Posting
  <2> QED
    BY <1>0, <1>2, <2>2 DEF Claim, Flags, Counts, Days, Documents, history
<1>3. ASSUME NEW s \in Servers, Scan(s)
      PROVE  Flags' /\ Counts' /\ Days' /\ Documents' /\ Runs'
  <2> DEFINE head == LoopHead(schedule.end, schedule.next, run[s].now, 0, FALSE)
  <2>1. /\ head \in {"insert", "advance", "expire", "handled"}
        /\ head \in Posting => ~(schedule.next > run[s].now) /\ ~(0 >= MaxCatchup)
    BY HeadTypes
  <2>2. run[s] \in RunRecord /\ schedule \in Schedule
    BY <1>0 DEF Runs, Documents
  <2>3. /\ run'[s] \in RunRecord
        /\ run'[s].pc = "resolve" => run'[s].periods = 0
        /\ run'[s].pc \in Posting => run'[s].occurrence <= run'[s].now
                                     /\ run'[s].periods < MaxCatchup
    <3> HIDE DEF head
    <3>1. schedule.next \in Int /\ run[s].now \in Int
      BY <2>2 DEF Schedule, RunRecord
    <3>2. run'[s] = [pc |-> IF schedule.sub /\ ~schedule.tracked THEN head
                            ELSE "resolve",
                     now |-> run[s].now, end |-> schedule.end, sub |-> schedule.sub,
                     tracked |-> schedule.tracked, posting |-> FALSE,
                     occurrence |-> schedule.next, periods |-> 0, moved |-> FALSE]
      BY <1>0, <1>3 DEF Scan, Runs, head
    <3> QED
      BY <2>1, <2>2, <3>1, <3>2 DEF RunRecord, Schedule, Posting
  <2>4. Runs'
    BY <1>0, <1>3, <2>3 DEF Scan, Runs, InTime
  <2> QED
    BY <1>0, <1>3, <2>4 DEF Scan, Flags, Counts, Days, Documents, history
<1>4. ASSUME NEW s \in Servers, EndRun(s) \/ Crash(s)
      PROVE  Flags' /\ Counts' /\ Days' /\ Documents' /\ Runs'
  <2>1. run' = [run EXCEPT ![s] = IdleRun] /\ IdleRun.pc \notin Posting \cup {"resolve"}
    BY <1>4 DEF EndRun, Crash, Posting, IdleRun
  <2>2. Runs'
    BY <1>0, <2>1, IdleTypes DEF Runs, InTime
  <2>3. CASE EndRun(s)
    BY <1>0, <2>3, <2>2 DEF EndRun, Flags, Counts, Days, Documents, history
  <2>4. CASE Crash(s)
    BY <1>0, <2>4, <2>2 DEF Crash, Flags, Counts, Days, Documents, history
  <2> QED
    BY <1>4, <2>3, <2>4
<1>5. ASSUME NEW s \in Servers, Resolve(s)
      PROVE  Flags' /\ Counts' /\ Days' /\ Documents' /\ Runs'
  <2> DEFINE q == run[s]
             head == LoopHead(q.end, q.occurrence, q.now, 0, q.tracked /\ usable)
  <2>1. /\ head \in {"insert", "advance", "expire", "handled"}
        /\ head \in Posting => ~(q.occurrence > q.now) /\ ~(0 >= MaxCatchup)
    BY HeadTypes
  <2>2. /\ q \in RunRecord /\ q.pc = "resolve" /\ usable \in BOOLEAN
        /\ q.periods = 0
    BY <1>0, <1>5 DEF Runs, Resolve, Flags, InTime
  <2>3. run' = [run EXCEPT ![s] = [q EXCEPT
                  !.posting = q.tracked /\ usable,
                  !.pc = IF (q.tracked /\ usable) \/ q.sub THEN head
                         ELSE "handled"]]
    BY <1>0, <1>5 DEF Resolve, Runs
  <2>4. /\ run'[s] \in RunRecord
        /\ run'[s].pc # "resolve"
        /\ run'[s].pc \in Posting => run'[s].occurrence <= run'[s].now
                                     /\ run'[s].periods < MaxCatchup
    <3> DEFINE post == q.tracked /\ usable
    <3>1. post \in BOOLEAN /\ q.occurrence \in Int /\ q.now \in Int
      BY <2>2 DEF RunRecord
    <3>2. run'[s] = [q EXCEPT !.posting = post,
                              !.pc = IF post \/ q.sub THEN head ELSE "handled"]
      BY <1>0, <2>3 DEF Runs
    <3> HIDE DEF head, post
    <3>3. run'[s] \in RunRecord /\ run'[s].pc # "resolve"
      BY <2>1, <2>2, <3>1, <3>2 DEF RunRecord
    <3>4. ASSUME run'[s].pc \in Posting
          PROVE  run'[s].occurrence <= run'[s].now /\ run'[s].periods < MaxCatchup
      BY <2>1, <2>2, <3>1, <3>2, <3>4 DEF RunRecord, Posting
    <3> QED
      BY <3>3, <3>4
  <2>5. Runs'
    BY <1>0, <2>3, <2>4 DEF Runs, InTime
  <2> QED
    BY <1>0, <1>5, <2>5 DEF Resolve, Flags, Counts, Days, Documents, history
<1>6. ASSUME NEW s \in Servers, Insert(s)
      PROVE  Flags' /\ Counts' /\ Days' /\ Documents' /\ Runs'
  <2>1. run[s] \in RunRecord /\ run[s].occurrence \in Dates
    BY <1>0 DEF Runs, RunRecord
  <2>2. Runs'
    BY <1>0, <1>6, <2>1 DEF Insert, Runs, InTime, Posting, RunRecord
  <2>3. Days'
    BY <1>0, <1>6, <2>1 DEF Insert, Days
  <2> QED
    BY <1>0, <1>6, <2>2, <2>3 DEF Insert, Flags, Counts, Documents
<1>7. ASSUME NEW s \in Servers, Sync(s)
      PROVE  Flags' /\ Counts' /\ Days' /\ Documents' /\ Runs'
  <2>1. run[s] \in RunRecord
    BY <1>0 DEF Runs
  <2>2. Runs'
    BY <1>0, <1>7, <2>1 DEF Sync, Runs, InTime, Posting, RunRecord
  <2> QED
    BY <1>0, <1>7, <2>2 DEF Sync, Flags, Counts, Days, Documents, history
<1>8. ASSUME NEW s \in Servers, Advance(s)
      PROVE  Flags' /\ Counts' /\ Days' /\ Documents' /\ Runs'
  <2> DEFINE q == run[s]
             next == q.occurrence + Period
             finished == next > q.end
             head == LoopHead(q.end, next, q.now, q.periods + 1, q.posting)
  <2>1. /\ q \in RunRecord /\ q.pc = "advance"
        /\ q.occurrence <= q.now /\ q.periods < MaxCatchup
    BY <1>0, <1>8 DEF Runs, Advance, InTime, Posting
  <2>2. q.occurrence \in Int /\ q.now \in 0 .. Horizon /\ q.periods \in 0 .. MaxCatchup
    BY <2>1 DEF RunRecord
  <2>3. next \in Dates /\ q.periods + 1 \in 0 .. MaxCatchup
    BY <2>1, <2>2 DEF Dates, LastDate, RunRecord
  <2>4. /\ head \in {"insert", "advance", "expire", "handled"}
        /\ head \in Posting => ~(next > q.now) /\ ~(q.periods + 1 >= MaxCatchup)
    BY HeadTypes
  <2>5. CASE Matches(s)
    <3> DEFINE new == [q EXCEPT !.occurrence = next, !.periods = q.periods + 1,
                                !.moved = TRUE,
                                !.pc = IF finished THEN "handled" ELSE head]
    <3>1. run' = [run EXCEPT ![s] = new]
      BY <1>0, <1>8, <2>5 DEF Advance, Runs
    <3>2. schedule' = [schedule EXCEPT !.next = next,
                                       !.active = schedule.active /\ ~finished]
      BY <1>0, <1>8, <2>5 DEF Advance, Documents
    <3>3. /\ expired' = (expired \/ finished)
          /\ UNCHANGED <<today, claimed, removed, usable, posted, balance, edit,
                         edits, crashes, everPosted, from, since>>
      BY <1>8, <2>5 DEF Advance
    <3>4. finished \in BOOLEAN /\ schedule \in Schedule
      BY <1>0 DEF Documents
    <3> HIDE DEF next, finished, head
    <3>5. new \in RunRecord
      BY <2>1, <2>3, <2>4 DEF RunRecord
    <3>6. /\ new.pc # "resolve"
          /\ new.pc \in Posting => new.occurrence <= new.now
                                   /\ new.periods < MaxCatchup
      <4>1. next \in Int /\ q.periods + 1 \in Int
        BY <2>3
      <4> QED
        BY <2>1, <2>2, <2>4, <4>1 DEF RunRecord, Posting
    <3> HIDE DEF new
    <3>7. Runs'
      BY <1>0, <3>1, <3>5, <3>6 DEF Runs, InTime
    <3>8. Documents'
      BY <1>0, <2>3, <3>2, <3>3, <3>4 DEF Documents, Schedule
    <3>9. Flags'
      BY <1>0, <3>3, <3>4 DEF Flags
    <3> QED
      BY <1>0, <3>3, <3>7, <3>8, <3>9 DEF Counts, Days
  <2>6. CASE ~Matches(s)
    <3>1. Runs'
      BY <1>0, <1>8, <2>6 DEF Advance, Runs, InTime, Posting, RunRecord
    <3> QED
      BY <1>0, <1>8, <2>6, <3>1 DEF Advance, Flags, Counts, Days, Documents
  <2> QED
    BY <2>5, <2>6
<1>9. ASSUME NEW s \in Servers, Expire(s)
      PROVE  Flags' /\ Counts' /\ Days' /\ Documents' /\ Runs'
  <2>1. Runs'
    BY <1>0, <1>9 DEF Expire, Runs, InTime, Posting, RunRecord
  <2>2. Documents' /\ Flags'
    BY <1>0, <1>9 DEF Expire, Documents, Schedule, Flags
  <2> QED
    BY <1>0, <1>9, <2>1, <2>2 DEF Expire, Counts, Days
<1>10. ASSUME NEW e \in Editors, ReadForEdit(e)
       PROVE  Flags' /\ Counts' /\ Days' /\ Documents' /\ Runs'
  <2>1. PICK doc \in Accepted(schedule) :
          edit' = [edit EXCEPT ![e] = [pc |-> "read", seen |-> schedule,
                                       merged |-> Settle(doc, today), now |-> today]]
    BY <1>10 DEF ReadForEdit
  <2>2. doc \in Schedule /\ schedule \in Schedule /\ today \in 0 .. Horizon
    BY <1>0, <2>1 DEF Accepted, Documents, Counts
  <2>3. Settle(doc, today) \in Schedule
    BY <2>2, Settled
  <2>4. Documents'
    BY <1>0, <1>10, <2>1, <2>2, <2>3 DEF ReadForEdit, Documents, EditRecord
  <2>5. Counts'
    BY <1>0, <1>10 DEF ReadForEdit, Counts, history
  <2> QED
    BY <1>0, <1>10, <2>4, <2>5 DEF ReadForEdit, Flags, Days, Runs, InTime, history
<1>11. ASSUME NEW e \in Editors, SaveEdit(e)
       PROVE  Flags' /\ Counts' /\ Days' /\ Documents' /\ Runs'
  <2>1. /\ edit[e] \in EditRecord /\ schedule \in Schedule
        /\ edit[e].merged \in Schedule /\ edit[e].now \in 0 .. Horizon
    BY <1>0 DEF Documents, EditRecord
  <2>2. Saved(e) \in Schedule
    BY <2>1 DEF Saved, Schedule
  <2>3. Documents'
    BY <1>0, <1>11, <2>2 DEF SaveEdit, Documents, IdleEdit, EditRecord
  <2>4. edit[e].merged.next \in Dates
    BY <2>1 DEF Schedule
  <2>5. Counts' /\ Days'
    BY <1>0, <1>11, <2>1, <2>4 DEF SaveEdit, Counts, Days
  <2>6. Flags'
    BY <1>0, <1>11 DEF SaveEdit, Flags
  <2> QED
    BY <1>0, <1>11, <2>3, <2>5, <2>6 DEF SaveEdit, Runs, InTime
<1>12. ASSUME NEW e \in Editors, SaveMissing(e)
       PROVE  Flags' /\ Counts' /\ Days' /\ Documents' /\ Runs'
  <2>1. Documents'
    BY <1>0, <1>12 DEF SaveMissing, Documents, IdleEdit, EditRecord
  <2> QED
    BY <1>0, <1>12, <2>1 DEF SaveMissing, Flags, Counts, Days, Runs, InTime, history
<1>13. CASE Remove \/ Archive
  <2>1. Flags'
    BY <1>0, <1>13 DEF Remove, Archive, Flags, history
  <2> QED
    BY <1>0, <1>13, <2>1 DEF Remove, Archive, Counts, Days, Documents, Runs, InTime,
                             history
<1>14. ASSUME NEW day \in Dates, DeleteRow(day)
       PROVE  Flags' /\ Counts' /\ Days' /\ Documents' /\ Runs'
  BY <1>0, <1>14 DEF DeleteRow, Flags, Counts, Days, Documents, Runs, InTime, history
<1>15. CASE UNCHANGED vars
  BY <1>0, <1>15 DEF vars, Flags, Counts, Days, Documents, Runs, InTime
<1> QED
  BY <1>1, <1>2, <1>3, <1>4, <1>5, <1>6, <1>7, <1>8, <1>9, <1>10, <1>11, <1>12,
     <1>13, <1>14, <1>15 DEF Next, Work, Edit

\* Every variable keeps to the values the schemas and the job allow, and no run
\* posts ahead of its day or beyond MAX_CATCHUP_PERIODS.
THEOREM ScheduleTypeCorrect == Spec => []TypeOK
<1>1. Init => TypeInv
  BY TypeInit
<1>2. TypeInv /\ [Next]_vars => TypeInv'
  BY TypeNext
<1>3. TypeInv => TypeOK
  BY DEF TypeInv
<1> QED
  BY <1>1, <1>2, <1>3, PTL DEF Spec

LEMMA Typed == Spec => []TypeInv
<1>1. Init => TypeInv
  BY TypeInit
<1>2. TypeInv /\ [Next]_vars => TypeInv'
  BY TypeNext
<1> QED
  BY <1>1, <1>2, PTL DEF Spec

-----------------------------------------------------------------------------
(* The end date.                                                           *)

\* While no request changes the end date, a run's copy of it is the stored one.
EndKept ==
  /\ \A s \in Servers :
       /\ run[s].pc \notin {"idle", "scan"} => run[s].end = schedule.end
       /\ run[s].pc = "expire" => run[s].occurrence > run[s].end
  /\ \A e \in Editors : edit[e].pc = "read" => edit[e].merged.end = edit[e].seen.end

EndInv == EndKept /\ EndsOnTime

LEMMA EndInit ==
  ASSUME Init
  PROVE  EndInv
BY DEF Init, EndInv, EndKept, EndsOnTime, IdleRun, IdleEdit

LEMMA EndNext ==
  ASSUME "end" \notin Patchable, TypeInv, EndInv, [Next]_vars
  PROVE  EndInv'
<1>0. /\ schedule \in Schedule /\ edit \in [Editors -> EditRecord]
      /\ run \in [Servers -> RunRecord]
  BY DEF TypeInv, TypeOK
<1>00. schedule.next \in Int /\ schedule.end \in Int
  BY <1>0, Constants DEF Schedule
<1> USE DEF EndInv
<1>1. ASSUME NEW s \in Servers, Scan(s) \/ Resolve(s)
      PROVE  EndInv'
  <2>1. CASE Scan(s)
    <3> DEFINE head == LoopHead(schedule.end, schedule.next, run[s].now, 0, FALSE)
    <3>1. head = "expire" <=> schedule.next > schedule.end
      BY HeadTypes
    <3> HIDE DEF head
    <3>2. /\ run'[s].end = schedule.end /\ run'[s].occurrence = schedule.next
          /\ run'[s].pc \in {head, "resolve"}
      BY <1>0, <2>1 DEF Scan, head
    <3>3. run'[s].pc = "expire" => run'[s].occurrence > run'[s].end
      BY <3>1, <3>2
    <3>4. UNCHANGED <<schedule, edit, expired>>
          /\ \A t \in Servers \ {s} : run'[t] = run[t]
      BY <1>0, <2>1 DEF Scan, history
    <3> QED
      BY <3>2, <3>3, <3>4 DEF EndKept, EndsOnTime
  <2>2. CASE Resolve(s)
    <3> DEFINE q == run[s]
               head == LoopHead(q.end, q.occurrence, q.now, 0, q.tracked /\ usable)
    <3>1. head = "expire" <=> q.occurrence > q.end
      BY HeadTypes
    <3> HIDE DEF head
    <3>2. /\ run'[s].end = q.end /\ run'[s].occurrence = q.occurrence
          /\ run'[s].pc \in {head, "handled"} /\ q.pc = "resolve"
      BY <1>0, <2>2 DEF Resolve, head
    <3>3. run'[s].pc = "expire" => run'[s].occurrence > run'[s].end
      BY <3>1, <3>2
    <3>4. UNCHANGED <<schedule, edit, expired>>
          /\ \A t \in Servers \ {s} : run'[t] = run[t]
      BY <1>0, <2>2 DEF Resolve, history
    <3> QED
      BY <3>2, <3>3, <3>4 DEF EndKept, EndsOnTime
  <2> QED
    BY <1>1, <2>1, <2>2
<1>2. ASSUME NEW s \in Servers, Claim(s) \/ EndRun(s) \/ Crash(s)
      PROVE  EndInv'
  <2>1. /\ UNCHANGED <<schedule, edit, expired>>
        /\ run'[s].pc \in {"idle", "scan"}
        /\ \A t \in Servers \ {s} : run'[t] = run[t]
    <3>1. CASE Claim(s)
      BY <1>0, <3>1 DEF Claim, IdleRun, history
    <3>2. CASE EndRun(s)
      BY <1>0, <3>2 DEF EndRun, IdleRun, history
    <3>3. CASE Crash(s)
      BY <1>0, <3>3 DEF Crash, IdleRun, history
    <3> QED
      BY <1>2, <3>1, <3>2, <3>3
  <2> QED
    BY <2>1 DEF EndKept, EndsOnTime
<1>3. ASSUME NEW s \in Servers, Insert(s) \/ Sync(s)
      PROVE  EndInv'
  <2>1. /\ UNCHANGED <<schedule, edit, expired>>
        /\ run'[s].pc \in {"sync", "advance"} /\ run[s].pc \in {"insert", "sync"}
        /\ run'[s].end = run[s].end
        /\ \A t \in Servers \ {s} : run'[t] = run[t]
    <3> run[s] \in RunRecord
      BY <1>0
    <3>1. CASE Insert(s)
      BY <1>0, <3>1 DEF Insert, RunRecord
    <3>2. CASE Sync(s)
      BY <1>0, <3>2 DEF Sync, RunRecord, history
    <3> QED
      BY <1>3, <3>1, <3>2
  <2> QED
    BY <2>1 DEF EndKept, EndsOnTime
<1>4. ASSUME NEW s \in Servers, Advance(s)
      PROVE  EndInv'
  <2> DEFINE q == run[s]
             next == q.occurrence + Period
             finished == next > q.end
             head == LoopHead(q.end, next, q.now, q.periods + 1, q.posting)
  <2>1. head = "expire" <=> next > q.end
    BY HeadTypes
  <2>2. q.end = schedule.end /\ q.pc = "advance" /\ edit' = edit
    BY <1>4 DEF Advance, EndKept
  <2>3. \A t \in Servers \ {s} : run'[t] = run[t]
    BY <1>0, <1>4 DEF Advance
  <2>4. CASE Matches(s)
    <3>1. q.occurrence = schedule.next /\ next = schedule.next + Period
      BY <2>4 DEF Matches
    <3>2. /\ run'[s].end = q.end /\ run'[s].occurrence = next
          /\ run'[s].pc \in {"handled", head}
          /\ schedule'.next = next /\ schedule'.end = schedule.end
          /\ expired' = (expired \/ finished)
      <4>1. run' = [run EXCEPT ![s] =
                      [q EXCEPT !.occurrence = next, !.periods = q.periods + 1,
                                !.moved = TRUE,
                                !.pc = IF finished THEN "handled" ELSE head]]
        BY <1>0, <1>4, <2>4 DEF Advance
      <4>2. /\ schedule' = [schedule EXCEPT !.next = next,
                                            !.active = schedule.active /\ ~finished]
            /\ expired' = (expired \/ finished)
        BY <1>0, <1>4, <2>4 DEF Advance
      <4> HIDE DEF next, finished, head
      <4> QED
        BY <1>0, <4>1, <4>2 DEF Schedule, RunRecord
    <3>3. next > schedule.next /\ next \in Int
      BY <1>00, <3>1, Constants
    <3> HIDE DEF head, next
    <3>4. EndsOnTime'
      <4>1. expired' => expired \/ next > schedule.end
        BY <2>2, <3>2
      <4> QED
        BY <1>00, <2>2, <3>2, <3>3, <4>1 DEF EndsOnTime
    <3> QED
      BY <2>1, <2>2, <2>3, <3>2, <3>4 DEF EndKept
  <2>5. CASE ~Matches(s)
    <3>1. /\ run'[s].end = q.end /\ run'[s].pc = "handled"
          /\ UNCHANGED <<schedule, expired>>
      BY <1>0, <1>4, <2>5 DEF Advance, RunRecord
    <3> QED
      BY <2>2, <2>3, <3>1 DEF EndKept, EndsOnTime
  <2> QED
    BY <2>4, <2>5
<1>5. ASSUME NEW s \in Servers, Expire(s)
      PROVE  EndInv'
  <2>1. /\ edit' = edit /\ run[s].pc = "expire" /\ run'[s].pc = "handled"
        /\ run'[s].end = run[s].end
        /\ \A t \in Servers \ {s} : run'[t] = run[t]
    BY <1>0, <1>5 DEF Expire
  <2>2. schedule'.end = schedule.end /\ schedule'.next = schedule.next
    BY <1>0, <1>5 DEF Expire, Schedule
  <2>3. EndsOnTime'
    <3>1. CASE Matches(s)
      BY <2>1, <2>2, <3>1 DEF EndKept, EndsOnTime, Matches
    <3>2. CASE ~Matches(s)
      BY <1>5, <3>2 DEF Expire, EndsOnTime
    <3> QED
      BY <3>1, <3>2
  <2> QED
    BY <2>1, <2>2, <2>3 DEF EndKept
<1>6. ASSUME NEW e \in Editors, ReadForEdit(e)
      PROVE  EndInv'
  <2>1. PICK doc \in Accepted(schedule) :
          edit' = [edit EXCEPT ![e] = [pc |-> "read", seen |-> schedule,
                                       merged |-> Settle(doc, today), now |-> today]]
    BY <1>6 DEF ReadForEdit
  <2>2. doc \in Schedule /\ doc.end = schedule.end /\ today \in 0 .. Horizon
    BY <2>1 DEF Accepted, Fields, TypeInv, TypeOK
  <2>3. Settle(doc, today).end = schedule.end
    BY <2>2, Settled DEF Schedule
  <2>4. UNCHANGED <<schedule, run, expired>>
    BY <1>6 DEF ReadForEdit, history
  <2> QED
    BY <1>0, <2>1, <2>3, <2>4 DEF EndKept, EndsOnTime
<1>7. ASSUME NEW e \in Editors, SaveEdit(e)
      PROVE  EndInv'
  <2>1. edit[e] \in EditRecord /\ edit[e].merged.end = edit[e].seen.end
    BY <1>0, <1>7 DEF SaveEdit, EndKept
  <2>2. /\ schedule' = Saved(e) /\ run' = run
        /\ expired' = (expired /\ edit[e].merged = edit[e].seen)
        /\ edit' = [edit EXCEPT ![e] = IdleEdit(schedule')]
    BY <1>7 DEF SaveEdit
  <2>3. schedule'.end = schedule.end
    BY <2>1, <2>2 DEF Saved
  <2>4. edit[e].merged = edit[e].seen => schedule'.next = schedule.next
    BY <2>2 DEF Saved
  <2>5. EndsOnTime'
    BY <2>2, <2>3, <2>4 DEF EndsOnTime
  <2> QED
    BY <1>0, <2>2, <2>3, <2>5 DEF EndKept, IdleEdit
<1>8. ASSUME NEW e \in Editors, SaveMissing(e)
      PROVE  EndInv'
  BY <1>0, <1>8 DEF SaveMissing, EndKept, EndsOnTime, IdleEdit, history
<1>9. CASE Midnight \/ Remove \/ Archive
  BY <1>9 DEF Midnight, Remove, Archive, EndKept, EndsOnTime, history
<1>10. ASSUME NEW day \in Dates, DeleteRow(day)
       PROVE  EndInv'
  BY <1>10 DEF DeleteRow, EndKept, EndsOnTime, history
<1>11. CASE UNCHANGED vars
  BY <1>11 DEF vars, EndKept, EndsOnTime
<1> QED
  BY <1>1, <1>2, <1>3, <1>4, <1>5, <1>6, <1>7, <1>8, <1>9, <1>10, <1>11
  DEF Next, Work, Edit

\* While no request changes the end date, the job ends no schedule with an
\* occurrence left to post.
THEOREM ScheduleEndsOnTime ==
  ASSUME "end" \notin Patchable
  PROVE  Spec => []EndsOnTime
<1>1. Init => EndInv
  BY EndInit
<1>2. TypeInv /\ EndInv /\ [Next]_vars => EndInv'
  BY EndNext
<1>3. EndInv => EndsOnTime
  BY DEF EndInv
<1> QED
  BY <1>1, <1>2, <1>3, Typed, PTL DEF Spec

-----------------------------------------------------------------------------
(* The balance.                                                            *)

Syncing == {s \in Servers : run[s].pc = "sync"}

Short == Cardinality(posted) - balance - Cardinality(Syncing)

\* What syncing servers still owe is counted; only a crash loses an increment.
LEMMA FiniteSets ==
  ASSUME TypeInv
  PROVE  /\ IsFiniteSet(posted) /\ IsFiniteSet(Syncing)
         /\ Cardinality(posted) \in Nat /\ Cardinality(Syncing) \in Nat
         /\ balance \in Int /\ crashes \in Nat
<1>1. IsFiniteSet(Dates)
  BY Constants, FS_Interval DEF Dates
<1>2. posted \in SUBSET Dates /\ Syncing \in SUBSET Servers
  BY DEF TypeInv, TypeOK, Syncing
<1>3. IsFiniteSet(posted) /\ IsFiniteSet(Syncing)
  BY <1>1, <1>2, FS_Subset, RecurringAssumption
<1> QED
  BY <1>3, FS_CardinalityType, Constants DEF TypeInv, TypeOK

\* A step that leaves the set of syncing servers as it is.
LEMMA SyncingKept ==
  ASSUME TypeInv, NEW s \in Servers, run[s].pc # "sync", run'[s].pc # "sync",
         \A t \in Servers \ {s} : run'[t] = run[t]
  PROVE  Syncing' = Syncing
BY DEF Syncing

LEMMA ShortInit ==
  ASSUME Init
  PROVE  ShortByCrashes
<1>1. Syncing = {} /\ posted = {} /\ balance = 0 /\ crashes = 0
  BY DEF Init, Syncing, IdleRun
<1> QED
  BY <1>1, FS_EmptySet DEF ShortByCrashes, Syncing

LEMMA ShortNext ==
  ASSUME TypeInv, ShortByCrashes, [Next]_vars
  PROVE  ShortByCrashes'
<1>0. run \in [Servers -> RunRecord]
  BY DEF TypeInv, TypeOK
<1>00. /\ IsFiniteSet(posted) /\ IsFiniteSet(Syncing)
       /\ Cardinality(posted) \in Nat /\ Cardinality(Syncing) \in Nat
       /\ balance \in Int /\ crashes \in Nat
  BY FiniteSets
<1>01. 0 <= Short /\ Short <= crashes
  BY DEF ShortByCrashes, Short, Syncing
<1> SUFFICES 0 <= Short' /\ Short' <= crashes'
  BY DEF ShortByCrashes, Short, Syncing
<1>1. ASSUME UNCHANGED <<posted, balance, crashes>>, Syncing' = Syncing
      PROVE  0 <= Short' /\ Short' <= crashes'
  BY <1>01, <1>1 DEF Short
<1>2. ASSUME NEW s \in Servers, Claim(s) \/ EndRun(s) \/ Scan(s) \/ Resolve(s)
                                \/ Advance(s) \/ Expire(s)
      PROVE  0 <= Short' /\ Short' <= crashes'
  <2>1. UNCHANGED <<posted, balance, crashes>> /\ run[s].pc # "sync"
        /\ \A t \in Servers \ {s} : run'[t] = run[t]
    BY <1>0, <1>2 DEF Claim, EndRun, Scan, Resolve, Advance, Expire, history
  <2>2. \A end, occurrence, now, count, posting :
          LoopHead(end, occurrence, now, count, posting) # "sync"
    BY DEF LoopHead
  <2>3. run'[s].pc # "sync"
    <3> run[s] \in RunRecord
      BY <1>0
    <3>1. CASE Claim(s)
      BY <1>0, <3>1 DEF Claim, IdleRun
    <3>6. CASE EndRun(s)
      BY <1>0, <3>6 DEF EndRun, IdleRun
    <3>5. CASE Expire(s)
      BY <1>0, <3>5 DEF Expire, RunRecord
    <3>2. CASE Scan(s)
      BY <1>0, <2>2, <3>2 DEF Scan
    <3>3. CASE Resolve(s)
      BY <1>0, <2>2, <3>3 DEF Resolve
    <3>4. CASE Advance(s)
      <4>1. CASE Matches(s)
        BY <1>0, <2>2, <3>4, <4>1 DEF Advance, RunRecord
      <4>2. CASE ~Matches(s)
        BY <1>0, <3>4, <4>2 DEF Advance, RunRecord
      <4> QED
        BY <4>1, <4>2
    <3> QED
      BY <1>2, <3>1, <3>2, <3>3, <3>4, <3>5, <3>6
  <2> QED
    BY <1>1, <2>1, <2>3, SyncingKept
<1>3. ASSUME NEW s \in Servers, Insert(s)
      PROVE  0 <= Short' /\ Short' <= crashes'
  <2> DEFINE day == run[s].occurrence
  <2>1. /\ posted' = posted \cup {day} /\ UNCHANGED <<balance, crashes>>
        /\ run' = [run EXCEPT ![s].pc = IF day \in posted THEN "advance" ELSE "sync"]
        /\ run[s].pc = "insert"
    BY <1>3 DEF Insert
  <2>2. CASE day \in posted
    <3>1. posted' = posted
      BY <2>1, <2>2
    <3>2. /\ run'[s].pc = "advance"
          /\ \A t \in Servers \ {s} : run'[t] = run[t]
      BY <1>0, <2>1, <2>2
    <3> QED
      BY <1>1, <2>1, <3>1, <3>2, SyncingKept
  <2>3. CASE day \notin posted
    <3>1. Syncing' = Syncing \cup {s} /\ s \notin Syncing
      BY <1>0, <2>1, <2>3 DEF Syncing
    <3>2. /\ Cardinality(posted') = Cardinality(posted) + 1
          /\ Cardinality(Syncing') = Cardinality(Syncing) + 1
      BY <1>00, <2>1, <2>3, <3>1, FS_AddElement
    <3> QED
      BY <1>00, <1>01, <2>1, <3>2 DEF Short
  <2> QED
    BY <2>2, <2>3
<1>4. ASSUME NEW s \in Servers, Sync(s)
      PROVE  0 <= Short' /\ Short' <= crashes'
  <2>1. /\ balance' = balance + 1 /\ UNCHANGED <<posted, crashes>>
        /\ run' = [run EXCEPT ![s].pc = "advance"] /\ run[s].pc = "sync"
    BY <1>4 DEF Sync, history
  <2>2. Syncing' = Syncing \ {s} /\ s \in Syncing
    BY <1>0, <2>1 DEF Syncing
  <2>3. Cardinality(Syncing') = Cardinality(Syncing) - 1
    BY <1>00, <2>2, FS_RemoveElement
  <2> QED
    BY <1>00, <1>01, <2>1, <2>3 DEF Short
<1>5. ASSUME NEW s \in Servers, Crash(s)
      PROVE  0 <= Short' /\ Short' <= crashes'
  <2>1. /\ crashes' = crashes + 1 /\ UNCHANGED <<posted, balance>>
        /\ run' = [run EXCEPT ![s] = IdleRun]
    BY <1>5 DEF Crash, history
  <2>2. Syncing' = Syncing \ {s}
    BY <1>0, <2>1 DEF Syncing, IdleRun
  <2>3. /\ Cardinality(Syncing') <= Cardinality(Syncing)
        /\ Cardinality(Syncing') >= Cardinality(Syncing) - 1
        /\ Cardinality(Syncing') \in Int
    BY <1>00, <2>2, FS_RemoveElement
  <2> QED
    BY <1>00, <1>01, <2>1, <2>3 DEF Short
<1>6. ASSUME NEW day \in Dates, DeleteRow(day)
      PROVE  0 <= Short' /\ Short' <= crashes'
  <2>1. /\ posted' = posted \ {day} /\ day \in posted /\ balance' = balance - 1
        /\ UNCHANGED <<crashes, run>>
    BY <1>6 DEF DeleteRow, history
  <2>2. Cardinality(posted') = Cardinality(posted) - 1
    BY <1>00, <2>1, FS_RemoveElement
  <2>3. Syncing' = Syncing
    BY <2>1 DEF Syncing
  <2> QED
    BY <1>00, <1>01, <2>1, <2>2, <2>3 DEF Short
<1>7. CASE Midnight \/ Remove \/ Archive \/ \E e \in Editors : Edit(e)
  <2>1. UNCHANGED <<posted, balance, crashes, run>>
    BY <1>7 DEF Midnight, Remove, Archive, Edit, ReadForEdit, SaveEdit, SaveMissing,
                history
  <2> QED
    BY <1>1, <2>1 DEF Syncing
<1>8. CASE UNCHANGED vars
  BY <1>1, <1>8 DEF vars, Syncing
<1> QED
  BY <1>2, <1>3, <1>4, <1>5, <1>6, <1>7, <1>8 DEF Next, Work

\* The balance is short of the posted rows by at most one increment per crash or
\* failed call, and never above them.
THEOREM BalanceShortByCrashes == Spec => []ShortByCrashes
<1>1. Init => ShortByCrashes
  BY ShortInit
<1>2. TypeInv /\ ShortByCrashes /\ [Next]_vars => ShortByCrashes'
  BY ShortNext
<1> QED
  BY <1>1, <1>2, Typed, PTL DEF Spec
-----------------------------------------------------------------------------
(* The ledger of a bill.                                                   *)

\* The schedule is a bill and stays one; a run on its way past an occurrence posts,
\* and has posted it; nextDate is a whole number of periods after `from`.
Bill ==
  /\ ~schedule.sub
  /\ \A e \in Editors : edit[e].pc = "read" => edit[e].merged.sub = edit[e].seen.sub

Behind(q) ==
  /\ q.pc \notin {"idle", "scan"} => ~q.sub
  /\ q.pc \in Posting => q.posting
  /\ q.pc \in {"sync", "advance"} => q.occurrence \in everPosted

Whole ==
  /\ from <= schedule.next
  /\ (schedule.next - from) % Period = 0
  /\ \A day \in from .. schedule.next - 1 :
       (day - from) % Period = 0 => day \in everPosted

BillInv == Bill /\ (\A s \in Servers : Behind(run[s])) /\ Whole

LEMMA BillInit ==
  ASSUME Subscriptions \subseteq {FALSE}, Init
  PROVE  BillInv
<1>1. Bill /\ \A s \in Servers : Behind(run[s])
  BY DEF Init, Bill, Behind, Posting, IdleRun, IdleEdit
<1>2. from = schedule.next /\ schedule.next \in Int
  BY Constants DEF Init, Schedule
<1>3. schedule.next - from = Period * 0
  BY <1>2, Constants
<1>4. (schedule.next - from) % Period = 0
  BY <1>2, <1>3, Constants, Multiple
<1>5. Whole
  BY <1>2, <1>4 DEF Whole
<1> QED
  BY <1>1, <1>5 DEF BillInv

\* A step of one run, the stored schedule and the history untouched.
LEMMA BillRun ==
  ASSUME BillInv, NEW s \in Servers, Behind(run[s])',
         \A t \in Servers \ {s} : run'[t] = run[t],
         UNCHANGED <<schedule, edit, everPosted, from>>
  PROVE  BillInv'
BY DEF BillInv, Bill, Behind, Whole

\* The schedule goes on to the day after one whole period.
LEMMA WholeStep ==
  ASSUME TypeInv, Whole, schedule.next \in everPosted,
         schedule'.next = schedule.next + Period, from' = from,
         everPosted' = everPosted
  PROVE  Whole'
<1> DEFINE n == schedule.next
<1>1. n \in Int /\ from \in Int /\ schedule \in Schedule
  BY Constants DEF TypeInv, TypeOK, Schedule
<1>2. n - from \in Int /\ (n - from) % Period = 0 /\ Period \in Nat \ {0}
  BY <1>1, Constants DEF Whole
<1>3. (n + Period - from) % Period = 0
  <2>1. ((n - from) + Period) % Period = 0
    BY <1>2, NextAligned
  <2>2. (n - from) + Period = n + Period - from
    BY <1>1, <1>2
  <2> QED
    BY <2>1, <2>2
<1>4. ASSUME NEW day \in from .. n + Period - 1, (day - from) % Period = 0
      PROVE  day \in everPosted
  <2>1. day \in Int
    BY <1>1, <1>2
  <2>2. CASE day < n
    BY <1>1, <1>4, <2>1, <2>2 DEF Whole
  <2>3. CASE day = n
    BY <2>3
  <2>4. CASE day > n
    <3>1. /\ day - n \in Int /\ 0 < day - n /\ day - n < Period
          /\ (n - from) + (day - n) = day - from
      BY <1>1, <1>2, <2>1, <2>4
    <3>2. ((n - from) + (day - n)) % Period # 0
      BY <1>2, <3>1, Gap
    <3> QED
      BY <1>4, <3>1, <3>2
  <2> QED
    BY <1>1, <2>1, <2>2, <2>3, <2>4
<1>5. from <= n + Period
  BY <1>1, <1>2 DEF Whole
<1>6. schedule'.next = n + Period
  OBVIOUS
<1> HIDE DEF n
<1>7. from' <= schedule'.next
  BY <1>5, <1>6
<1>8. (schedule'.next - from') % Period = 0
  BY <1>1, <1>2, <1>3, <1>6
<1>9. \A day \in from' .. schedule'.next - 1 :
        (day - from') % Period = 0 => day \in everPosted'
  BY <1>1, <1>2, <1>4, <1>6
<1> QED
  BY <1>7, <1>8, <1>9 DEF Whole

LEMMA BillNext ==
  ASSUME "sub" \notin Patchable, TypeInv, BillInv, [Next]_vars
  PROVE  BillInv'
<1>0. /\ schedule \in Schedule /\ edit \in [Editors -> EditRecord]
      /\ run \in [Servers -> RunRecord]
  BY DEF TypeInv, TypeOK
<1>00. Bill /\ (\A s \in Servers : Behind(run[s])) /\ Whole
  BY DEF BillInv
<1>1. ASSUME NEW s \in Servers, Scan(s)
      PROVE  BillInv'
  <2>1. run'[s].pc = "resolve" /\ run'[s].sub = schedule.sub
    BY <1>0, <1>00, <1>1 DEF Scan, Bill
  <2>2. UNCHANGED <<schedule, edit, everPosted, from>>
        /\ \A t \in Servers \ {s} : run'[t] = run[t]
    BY <1>0, <1>1 DEF Scan, history
  <2>3. Behind(run[s])'
    BY <1>00, <2>1 DEF Behind, Bill, Posting
  <2> QED
    BY <2>2, <2>3, BillRun
<1>2. ASSUME NEW s \in Servers, Resolve(s)
      PROVE  BillInv'
  <2> DEFINE q == run[s]
             post == q.tracked /\ usable
             head == LoopHead(q.end, q.occurrence, q.now, 0, post)
  <2>1. /\ head \in {"insert", "advance", "expire", "handled"}
        /\ head = "insert" => post
        /\ head = "advance" => ~post
    BY HeadTypes
  <2>2. /\ q \in RunRecord /\ q.pc = "resolve" /\ ~q.sub
        /\ run' = [run EXCEPT ![s] = [q EXCEPT
                     !.posting = post,
                     !.pc = IF post \/ q.sub THEN head ELSE "handled"]]
    BY <1>0, <1>00, <1>2 DEF Resolve, Behind
  <2> HIDE DEF head, post
  <2>3. /\ run'[s].posting = post /\ ~run'[s].sub
        /\ run'[s].pc = IF post THEN head ELSE "handled"
    BY <1>0, <2>2 DEF RunRecord
  <2>4. Behind(run[s])'
    BY <2>1, <2>3 DEF Behind, Posting
  <2>5. UNCHANGED <<schedule, edit, everPosted, from>>
        /\ \A t \in Servers \ {s} : run'[t] = run[t]
    BY <1>0, <1>2 DEF Resolve, history
  <2> QED
    BY <2>4, <2>5, BillRun
<1>3. ASSUME NEW s \in Servers, Claim(s) \/ EndRun(s) \/ Crash(s)
      PROVE  BillInv'
  <2>1. /\ UNCHANGED <<schedule, edit, everPosted, from>>
        /\ run'[s].pc \in {"idle", "scan"}
        /\ \A t \in Servers \ {s} : run'[t] = run[t]
    <3>1. CASE Claim(s)
      BY <1>0, <3>1 DEF Claim, IdleRun, history
    <3>2. CASE EndRun(s)
      BY <1>0, <3>2 DEF EndRun, IdleRun, history
    <3>3. CASE Crash(s)
      BY <1>0, <3>3 DEF Crash, IdleRun, history
    <3> QED
      BY <1>3, <3>1, <3>2, <3>3
  <2>2. Behind(run[s])'
    BY <2>1 DEF Behind, Posting
  <2> QED
    BY <2>1, <2>2, BillRun
<1>4. ASSUME NEW s \in Servers, Insert(s)
      PROVE  BillInv'
  <2>1. /\ run[s] \in RunRecord /\ run[s].pc = "insert"
        /\ everPosted' = everPosted \cup {run[s].occurrence}
        /\ UNCHANGED <<schedule, edit, from>>
    BY <1>0, <1>4 DEF Insert
  <2>2. /\ run'[s].pc \in {"sync", "advance"}
        /\ run'[s].sub = run[s].sub /\ run'[s].posting = run[s].posting
        /\ run'[s].occurrence = run[s].occurrence
        /\ \A t \in Servers \ {s} : run'[t] = run[t]
    BY <1>0, <1>4, <2>1 DEF Insert, RunRecord
  <2>3. \A t \in Servers : Behind(run[t])'
    BY <1>00, <2>1, <2>2 DEF Behind, Posting
  <2>4. Bill' /\ Whole'
    BY <1>00, <2>1 DEF Bill, Whole
  <2> QED
    BY <2>3, <2>4 DEF BillInv
<1>5. ASSUME NEW s \in Servers, Sync(s)
      PROVE  BillInv'
  <2>1. /\ run[s] \in RunRecord /\ run[s].pc = "sync"
        /\ UNCHANGED <<schedule, edit, everPosted, from>>
    BY <1>0, <1>5 DEF Sync, history
  <2>2. /\ run'[s].pc = "advance"
        /\ run'[s].sub = run[s].sub /\ run'[s].posting = run[s].posting
        /\ run'[s].occurrence = run[s].occurrence
        /\ \A t \in Servers \ {s} : run'[t] = run[t]
    BY <1>0, <1>5, <2>1 DEF Sync, RunRecord
  <2>3. Behind(run[s])'
    BY <1>00, <2>1, <2>2 DEF Behind, Posting
  <2> QED
    BY <2>1, <2>2, <2>3, BillRun
<1>6. ASSUME NEW s \in Servers, Advance(s)
      PROVE  BillInv'
  <2> DEFINE q == run[s]
             next == q.occurrence + Period
             finished == next > q.end
             head == LoopHead(q.end, next, q.now, q.periods + 1, q.posting)
  <2>1. /\ head \in {"insert", "advance", "expire", "handled"}
        /\ head = "advance" => ~q.posting
    BY HeadTypes
  <2>2. /\ q \in RunRecord /\ q.pc = "advance" /\ q.posting /\ ~q.sub
        /\ q.occurrence \in everPosted
        /\ UNCHANGED <<edit, everPosted, from>>
        /\ \A t \in Servers \ {s} : run'[t] = run[t]
    BY <1>0, <1>00, <1>6 DEF Advance, Behind, Posting
  <2>3. CASE Matches(s)
    <3>1. q.occurrence = schedule.next /\ next = schedule.next + Period
      BY <2>3 DEF Matches
    <3>2. /\ run' = [run EXCEPT ![s] =
                      [q EXCEPT !.occurrence = next, !.periods = q.periods + 1,
                                !.moved = TRUE,
                                !.pc = IF finished THEN "handled" ELSE head]]
          /\ schedule' = [schedule EXCEPT !.next = next,
                                          !.active = schedule.active /\ ~finished]
      BY <1>0, <1>6, <2>3 DEF Advance
    <3> HIDE DEF next, finished, head
    <3>3. /\ run'[s].pc \in {"handled", head}
          /\ run'[s].posting = q.posting /\ run'[s].sub = q.sub
          /\ schedule'.next = next /\ schedule'.sub = schedule.sub
      BY <1>0, <3>2 DEF Schedule, RunRecord
    <3>4. \A t \in Servers : Behind(run[t])'
      BY <1>00, <2>1, <2>2, <3>3 DEF Behind, Posting
    <3>5. Whole'
      BY <1>00, <2>2, <3>1, <3>3, WholeStep
    <3>6. Bill'
      BY <1>00, <2>2, <3>3 DEF Bill
    <3> QED
      BY <3>4, <3>5, <3>6 DEF BillInv
  <2>4. CASE ~Matches(s)
    <3>1. /\ run'[s].pc = "handled" /\ run'[s].sub = q.sub
          /\ schedule' = schedule
      BY <1>0, <1>6, <2>2, <2>4 DEF Advance, RunRecord
    <3>2. Behind(run[s])'
      BY <2>2, <3>1 DEF Behind, Posting
    <3> QED
      BY <2>2, <3>1, <3>2, BillRun
  <2> QED
    BY <2>3, <2>4
<1>7. ASSUME NEW s \in Servers, Expire(s)
      PROVE  BillInv'
  <2>1. /\ UNCHANGED <<edit, everPosted, from>> /\ run[s] \in RunRecord
        /\ run[s].pc = "expire"
    BY <1>0, <1>7 DEF Expire
  <2>2. /\ run'[s].pc = "handled" /\ run'[s].sub = run[s].sub
        /\ \A t \in Servers \ {s} : run'[t] = run[t]
    BY <1>0, <1>7, <2>1 DEF Expire, RunRecord
  <2>3. schedule'.next = schedule.next /\ schedule'.sub = schedule.sub
    BY <1>0, <1>7 DEF Expire, Schedule
  <2>4. \A t \in Servers : Behind(run[t])'
    BY <1>00, <2>1, <2>2 DEF Behind, Posting
  <2> QED
    BY <1>00, <2>1, <2>3, <2>4 DEF BillInv, Bill, Whole
<1>8. ASSUME NEW e \in Editors, ReadForEdit(e)
      PROVE  BillInv'
  <2>1. PICK doc \in Accepted(schedule) :
          edit' = [edit EXCEPT ![e] = [pc |-> "read", seen |-> schedule,
                                       merged |-> Settle(doc, today), now |-> today]]
    BY <1>8 DEF ReadForEdit
  <2>2. doc \in Schedule /\ doc.sub = schedule.sub /\ today \in 0 .. Horizon
    BY <2>1 DEF Accepted, Fields, TypeInv, TypeOK
  <2>3. Settle(doc, today).sub = schedule.sub
    BY <2>2, Settled DEF Schedule
  <2>4. UNCHANGED <<schedule, run, everPosted, from>>
    BY <1>8 DEF ReadForEdit, history
  <2> QED
    BY <1>0, <1>00, <2>1, <2>3, <2>4 DEF BillInv, Bill, Behind, Whole
<1>9. ASSUME NEW e \in Editors, SaveEdit(e)
      PROVE  BillInv'
  <2> DEFINE p == edit[e]
  <2>1. /\ p \in EditRecord /\ p.merged.sub = p.seen.sub /\ p.merged \in Schedule
    BY <1>0, <1>00, <1>9 DEF SaveEdit, Bill, EditRecord
  <2>2. /\ schedule' = Saved(e) /\ UNCHANGED <<run, everPosted>>
        /\ from' = IF p.merged.next # p.seen.next THEN p.merged.next ELSE from
        /\ edit' = [edit EXCEPT ![e] = IdleEdit(schedule')]
    BY <1>9 DEF SaveEdit
  <2>3. /\ schedule'.sub = schedule.sub
        /\ schedule'.next = IF p.merged.next # p.seen.next THEN p.merged.next
                            ELSE schedule.next
    BY <2>1, <2>2 DEF Saved
  <2>4. Bill'
    BY <1>0, <1>00, <2>2, <2>3 DEF Bill, IdleEdit
  <2>5. Whole'
    <3>1. CASE p.merged.next = p.seen.next
      BY <1>00, <2>2, <2>3, <3>1 DEF Whole
    <3>2. CASE p.merged.next # p.seen.next
      <4>1. from' = schedule'.next /\ schedule'.next \in Int
        BY <2>1, <2>2, <2>3, <3>2, Constants DEF Schedule
      <4>2. schedule'.next - from' \in Int /\ schedule'.next - from' = Period * 0
        BY <4>1, Constants
      <4>3. (schedule'.next - from') % Period = 0
        BY <4>2, Constants, Multiple
      <4> QED
        BY <4>1, <4>3 DEF Whole
    <3> QED
      BY <3>1, <3>2
  <2> QED
    BY <1>00, <2>2, <2>4, <2>5 DEF BillInv, Behind
<1>10. ASSUME NEW e \in Editors, SaveMissing(e)
       PROVE  BillInv'
  BY <1>0, <1>00, <1>10 DEF SaveMissing, BillInv, Bill, Behind, Whole, IdleEdit, history
<1>11. CASE Midnight \/ Remove \/ Archive
  BY <1>00, <1>11 DEF Midnight, Remove, Archive, BillInv, Bill, Behind, Whole, history
<1>12. ASSUME NEW day \in Dates, DeleteRow(day)
       PROVE  BillInv'
  BY <1>00, <1>12 DEF DeleteRow, BillInv, Bill, Behind, Whole, history
<1>13. CASE UNCHANGED vars
  BY <1>00, <1>13 DEF vars, BillInv, Bill, Behind, Whole
<1> QED
  BY <1>1, <1>2, <1>3, <1>4, <1>5, <1>6, <1>7, <1>8, <1>9, <1>10, <1>11, <1>12,
     <1>13 DEF Next, Work, Edit

\* Between the date a user last chose for a bill and its nextDate no occurrence is
\* missing from the ledger's history, whatever crashed, overlapped or was edited.
THEOREM BillLedgerComplete ==
  ASSUME Subscriptions \subseteq {FALSE}, "sub" \notin Patchable
  PROVE  Spec => []LedgerComplete
<1>1. Init => BillInv
  BY BillInit
<1>2. TypeInv /\ BillInv /\ [Next]_vars => BillInv'
  BY BillNext
<1>3. BillInv => LedgerComplete
  BY DEF BillInv, Whole, LedgerComplete
<1> QED
  BY <1>1, <1>2, <1>3, Typed, PTL DEF Spec
-----------------------------------------------------------------------------
(* Subscriptions are never backfilled.                                     *)

\* An edit under way knows a state of the schedule that only the job has changed
\* since: it has advanced it, or deactivated it.
Informed(q) ==
  q.pc = "read" =>
    /\ q.seen.next <= schedule.next
    /\ schedule.active => q.seen.active
    /\ q.seen.sub = schedule.sub /\ q.seen.tracked = schedule.tracked
    /\ Posts(q.merged) => q.merged.next >= q.now
    /\ since <= q.now /\ q.now <= today

ForwardInv ==
  /\ NeverBackfilled
  /\ since <= today
  /\ \A e \in Editors : Informed(edit[e])

LEMMA ForwardInit ==
  ASSUME \A day \in CreatedOn, first \in FirstDates : TRUE \in Subscriptions => day <= first,
         Init
  PROVE  ForwardInv
<1>1. \A e \in Editors : Informed(edit[e])
  BY DEF Init, Informed, IdleEdit
<1>2. since <= today
  BY RecurringAssumption DEF Init
<1>3. NeverBackfilled
  BY Constants DEF Init, NeverBackfilled, Posts, Schedule
<1> QED
  BY <1>1, <1>2, <1>3 DEF ForwardInv

\* A step that may advance or deactivate the schedule and edits nothing.
LEMMA ForwardJob ==
  ASSUME TypeInv, ForwardInv, UNCHANGED <<edit, since>>, today' \in Int,
         today' >= today, schedule'.next \in Int, schedule'.next >= schedule.next,
         schedule'.sub = schedule.sub, schedule'.tracked = schedule.tracked,
         schedule'.active => schedule.active
  PROVE  ForwardInv'
<1>0. /\ schedule \in Schedule /\ edit \in [Editors -> EditRecord]
      /\ since \in Int /\ today \in Int
  BY Constants DEF TypeInv, TypeOK
<1>1. /\ schedule.next \in Int
      /\ \A e \in Editors : edit[e].seen.next \in Int /\ edit[e].now \in Int
  BY <1>0, Constants DEF EditRecord, Schedule
<1>2. ASSUME NEW e \in Editors
      PROVE  Informed(edit[e])'
  <2> DEFINE q == edit[e]
  <2>1. Informed(q) /\ q' = q /\ q.seen.next \in Int /\ q.now \in Int
    BY <1>1, <1>2 DEF ForwardInv
  <2> HIDE DEF q
  <2>2. CASE q.pc = "read"
    <3>1. q.seen.next <= schedule'.next
      BY <1>1, <2>1, <2>2 DEF Informed
    <3>2. schedule'.active => q.seen.active
      BY <2>1, <2>2 DEF Informed
    <3>3. since' <= q.now /\ q.now <= today'
      BY <1>0, <2>1, <2>2 DEF Informed
    <3>4. /\ q.seen.sub = schedule'.sub /\ q.seen.tracked = schedule'.tracked
          /\ Posts(q.merged) => q.merged.next >= q.now
      BY <2>1, <2>2 DEF Informed
    <3> QED
      BY <2>1, <3>1, <3>2, <3>3, <3>4 DEF Informed, Posts, q
  <2>3. CASE q.pc # "read"
    BY <2>1, <2>3 DEF Informed, q
  <2> QED
    BY <2>2, <2>3
<1>3. NeverBackfilled'
  BY <1>0, <1>1 DEF ForwardInv, NeverBackfilled, Posts
<1>4. (since <= today)'
  BY <1>0 DEF ForwardInv
<1> QED
  BY <1>2, <1>3, <1>4 DEF ForwardInv

LEMMA ForwardNext ==
  ASSUME \A e, f \in Editors : e = f, TypeInv, ForwardInv, [Next]_vars
  PROVE  ForwardInv'
<1>0. /\ schedule \in Schedule /\ edit \in [Editors -> EditRecord]
      /\ run \in [Servers -> RunRecord]
      /\ since \in Int /\ today \in 0 .. Horizon /\ today \in Int
  BY Constants DEF TypeInv, TypeOK
<1>00. schedule.next \in Int
  BY <1>0, Constants DEF Schedule
<1>1. ASSUME NEW s \in Servers,
             Claim(s) \/ Scan(s) \/ EndRun(s) \/ Resolve(s) \/ Insert(s) \/ Sync(s)
             \/ Crash(s)
      PROVE  ForwardInv'
  <2>1. UNCHANGED <<edit, since, today, schedule>>
    BY <1>1 DEF Claim, Scan, EndRun, Resolve, Insert, Sync, Crash, history
  <2> QED
    BY <1>0, <1>00, <2>1, ForwardJob
<1>2. ASSUME NEW s \in Servers, Advance(s)
      PROVE  ForwardInv'
  <2> DEFINE next == run[s].occurrence + Period
             finished == next > run[s].end
  <2>1. UNCHANGED <<edit, since, today>>
    BY <1>2 DEF Advance
  <2>2. CASE Matches(s)
    <3>1. next = schedule.next + Period
      BY <2>2 DEF Matches
    <3>2. schedule' = [schedule EXCEPT !.next = next,
                                       !.active = schedule.active /\ ~finished]
      BY <1>0, <1>2, <2>2 DEF Advance
    <3>3. next \in Int /\ next >= schedule.next
      BY <1>00, <3>1, Constants
    <3> HIDE DEF next, finished
    <3>4. /\ schedule'.next = next
          /\ schedule'.active => schedule.active
          /\ schedule'.sub = schedule.sub /\ schedule'.tracked = schedule.tracked
      BY <1>0, <3>2 DEF Schedule
    <3> QED
      BY <1>0, <2>1, <3>3, <3>4, ForwardJob
  <2>3. CASE ~Matches(s)
    <3>1. schedule' = schedule
      BY <1>2, <2>3 DEF Advance
    <3> QED
      BY <1>0, <1>00, <2>1, <3>1, ForwardJob
  <2> QED
    BY <2>2, <2>3
<1>3. ASSUME NEW s \in Servers, Expire(s)
      PROVE  ForwardInv'
  <2>1. UNCHANGED <<edit, since, today>>
    BY <1>3 DEF Expire
  <2>2. /\ schedule'.next = schedule.next
        /\ schedule'.active => schedule.active
        /\ schedule'.sub = schedule.sub /\ schedule'.tracked = schedule.tracked
    BY <1>0, <1>3 DEF Expire, Schedule
  <2> QED
    BY <1>0, <1>00, <2>1, <2>2, ForwardJob
<1>4. CASE Midnight
  <2>1. UNCHANGED <<edit, since, schedule>> /\ today' \in Int /\ today' >= today
    BY <1>0, <1>4 DEF Midnight, history
  <2> QED
    BY <1>00, <2>1, ForwardJob
<1>5. CASE Remove \/ Archive \/ UNCHANGED vars \/ \E day \in Dates : DeleteRow(day)
  <2>1. UNCHANGED <<edit, since, today, schedule>>
    BY <1>5 DEF Remove, Archive, vars, DeleteRow, history
  <2> QED
    BY <1>0, <1>00, <2>1, ForwardJob
<1>6. ASSUME NEW e \in Editors, ReadForEdit(e)
      PROVE  ForwardInv'
  <2>1. PICK doc \in Accepted(schedule) :
          edit' = [edit EXCEPT ![e] = [pc |-> "read", seen |-> schedule,
                                       merged |-> Settle(doc, today), now |-> today]]
    BY <1>6 DEF ReadForEdit
  <2> DEFINE merged == Settle(doc, today)
  <2>2. doc \in Schedule
    BY <2>1 DEF Accepted
  <2>3. /\ merged = [doc EXCEPT !.next = merged.next]
        /\ Posts(doc) => merged.next >= today
    BY <1>0, <2>2, Settled
  <2> HIDE DEF merged
  <2>4. Posts(merged) => Posts(doc)
    BY <2>2, <2>3 DEF Posts, Schedule
  <2>5. UNCHANGED <<schedule, today, since>>
    BY <1>6 DEF ReadForEdit, history
  <2>6. Informed(edit[e])'
    <3>1. edit'[e] = [pc |-> "read", seen |-> schedule, merged |-> merged, now |-> today]
      BY <1>0, <2>1 DEF merged
    <3> QED
      BY <1>0, <1>00, <2>3, <2>4, <2>5, <3>1 DEF Informed, ForwardInv
  <2>7. ASSUME NEW f \in Editors
        PROVE  Informed(edit[f])'
    <3>1. f = e
      OBVIOUS
    <3> QED
      BY <2>6, <3>1
  <2> QED
    BY <2>5, <2>7 DEF ForwardInv, NeverBackfilled
<1>7. ASSUME NEW e \in Editors, SaveEdit(e)
      PROVE  ForwardInv'
  <2> DEFINE q == edit[e]
  <2>1. /\ q \in EditRecord /\ q.pc = "read" /\ Informed(q)
        /\ q.merged \in Schedule /\ q.seen \in Schedule
        /\ q.merged.next \in Int /\ q.seen.next \in Int /\ q.now \in Int
    BY <1>0, <1>7, Constants DEF SaveEdit, ForwardInv, EditRecord, Schedule
  <2>2. /\ schedule' = Saved(e) /\ UNCHANGED <<today>>
        /\ edit' = [edit EXCEPT ![e] = IdleEdit(schedule')]
        /\ since' \in {q.now, since}
        /\ Posts(schedule') => since' = q.now \/ Posts(schedule)
    BY <1>7 DEF SaveEdit
  <2>3. Posts(schedule') => Posts(q.merged)
    BY <1>0, <2>1, <2>2 DEF Saved, Posts, Informed, Schedule
  <2>4. schedule'.next = IF q.merged.next # q.seen.next THEN q.merged.next
                         ELSE schedule.next
    BY <2>2 DEF Saved
  <2>5. since' <= q.now
    BY <1>0, <2>1, <2>2 DEF Informed
  <2>6. Posts(schedule') => schedule'.next >= q.now
    BY <1>00, <2>1, <2>3, <2>4 DEF Informed
  <2>7. NeverBackfilled'
    <3>1. schedule'.next \in Int /\ since' \in Int
      BY <1>0, <1>00, <2>1, <2>2, <2>4
    <3>2. Posts(schedule') => schedule'.next >= since'
      BY <2>1, <2>5, <2>6, <3>1
    <3> QED
      BY <3>2 DEF NeverBackfilled, Posts
  <2>8. q.now <= today
    BY <2>1 DEF Informed
  <2>9. \A f \in Editors : Informed(edit[f])'
    BY <1>0, <2>2 DEF Informed, IdleEdit
  <2> QED
    BY <1>0, <2>1, <2>2, <2>5, <2>7, <2>8, <2>9 DEF ForwardInv
<1>8. ASSUME NEW e \in Editors, SaveMissing(e)
      PROVE  ForwardInv'
  <2>1. /\ UNCHANGED <<schedule, today, since>>
        /\ \A f \in Editors : edit'[f].pc = "idle"
    BY <1>0, <1>8 DEF SaveMissing, IdleEdit, history
  <2> QED
    BY <2>1 DEF ForwardInv, NeverBackfilled, Informed
<1> QED
  BY <1>1, <1>2, <1>3, <1>4, <1>5, <1>6, <1>7, <1>8 DEF Next, Work, Edit

\* With one PATCH at a time, and created no later than its date, a subscription
\* that can post never has a date before the day of its last edit.
THEOREM SubscriptionsNeverBackfilled ==
  ASSUME \A e, f \in Editors : e = f,
         \A day \in CreatedOn, first \in FirstDates : TRUE \in Subscriptions => day <= first
  PROVE  Spec => []NeverBackfilled
<1>1. Init => ForwardInv
  BY ForwardInit
<1>2. TypeInv /\ ForwardInv /\ [Next]_vars => ForwardInv'
  BY ForwardNext
<1>3. ForwardInv => NeverBackfilled
  BY DEF ForwardInv
<1> QED
  BY <1>1, <1>2, <1>3, Typed, PTL DEF Spec

-----------------------------------------------------------------------------
(* The refinement: while nobody edits the bill, a run stands at the stored *)
(* date or whole periods behind it.                                        *)

\* Where a run stands, relative to the stored date: at it, or whole periods behind.
Trails(q) ==
  q.pc \notin {"idle", "scan"} =>
    /\ from <= q.occurrence /\ q.occurrence <= schedule.next
    /\ (q.occurrence - from) % Period = 0

Calendar == \A s \in Servers : run[s].pc # "idle" => run[s].now <= today

DueRuns == \A s \in Servers : run[s].pc = "insert" => run[s].occurrence <= run[s].end

OrderInv ==
  edits = 0 =>
    /\ \A e \in Editors : edit[e].pc = "idle"
    /\ \A day \in everPosted : day <= schedule.next
    /\ \A s \in Servers : Trails(run[s])

TrackInv == Calendar /\ DueRuns /\ OrderInv

BooksStep == [InOrder!Next]_(InOrder!vars)

LEMMA TrackInit ==
  ASSUME Init
  PROVE  TrackInv
BY DEF Init, TrackInv, Calendar, DueRuns, OrderInv, Trails, IdleRun, IdleEdit

\* A step of one run that leaves the schedule and the ledger's history alone.
LEMMA TrackRun ==
  ASSUME TrackInv, NEW s \in Servers,
         UNCHANGED <<today, schedule, edit, edits, everPosted, from>>,
         \A t \in Servers \ {s} : run'[t] = run[t],
         run'[s].pc # "idle" => run'[s].now <= today,
         run'[s].pc = "insert" => run'[s].occurrence <= run'[s].end,
         edits = 0 => Trails(run[s])'
  PROVE  TrackInv' /\ BooksStep
<1>1. Calendar' /\ DueRuns'
  BY DEF TrackInv, Calendar, DueRuns
<1>2. OrderInv'
  BY DEF TrackInv, OrderInv, Trails
<1>3. UNCHANGED InOrder!vars
  BY DEF InOrder!vars
<1> QED
  BY <1>1, <1>2, <1>3 DEF TrackInv, BooksStep

\* A step that changes neither the schedule's dates, nor the history, nor a run.
LEMMA TrackOther ==
  ASSUME TrackInv, UNCHANGED <<today, run, everPosted, from, edits>>,
         schedule'.next = schedule.next, schedule'.end = schedule.end,
         \A e \in Editors : edit[e].pc = "idle" => edit'[e].pc = "idle"
  PROVE  TrackInv' /\ BooksStep
<1>1. TrackInv'
  BY DEF TrackInv, Calendar, DueRuns, OrderInv, Trails
<1>2. UNCHANGED InOrder!vars
  BY DEF InOrder!vars
<1> QED
  BY <1>1, <1>2 DEF BooksStep

LEMMA TrackInsert ==
  ASSUME TypeInv, EndInv, BillInv, TrackInv, NEW s \in Servers, Insert(s)
  PROVE  TrackInv' /\ (edits' = 0 => BooksStep)
<1> DEFINE day == run[s].occurrence
           n == schedule.next
<1>0. /\ run \in [Servers -> RunRecord] /\ run[s] \in RunRecord
      /\ schedule \in Schedule /\ everPosted \subseteq Dates /\ today \in Int
  BY Constants DEF TypeInv, TypeOK
<1>1. /\ run[s].pc = "insert" /\ everPosted' = everPosted \cup {day}
      /\ run' = [run EXCEPT ![s].pc = IF day \in posted THEN "advance" ELSE "sync"]
      /\ UNCHANGED <<today, schedule, edit, edits, from>>
  BY DEF Insert
<1>2. /\ run'[s].pc \in {"advance", "sync"} /\ run'[s].now = run[s].now
      /\ run'[s].occurrence = day
      /\ \A t \in Servers \ {s} : run'[t] = run[t]
  BY <1>0, <1>1 DEF RunRecord
<1>3. /\ day \in Int /\ n \in Int /\ schedule.end \in Int /\ run[s].now \in Int
      /\ from \in Int /\ Period \in Nat \ {0}
  BY <1>0, Constants DEF RunRecord, Schedule, TypeInv, TypeOK
<1>4. /\ day <= today /\ day <= schedule.end
  <2>1. day <= run[s].now /\ run[s].now <= today
    BY <1>1 DEF TypeInv, InTime, Posting, TrackInv, Calendar
  <2>2. day <= run[s].end /\ run[s].end = schedule.end
    BY <1>1 DEF TrackInv, DueRuns, EndInv, EndKept
  <2> QED
    BY <1>0, <1>3, <2>1, <2>2
<1>5. Calendar' /\ DueRuns'
  BY <1>1, <1>2 DEF TrackInv, Calendar, DueRuns
<1>6. OrderInv'
  BY <1>1, <1>2 DEF TrackInv, OrderInv, Trails
<1>7. ASSUME edits = 0
      PROVE  BooksStep
  <2>1. /\ \A d \in everPosted : d <= n
        /\ from <= day /\ day <= n /\ (day - from) % Period = 0
    BY <1>1, <1>7 DEF TrackInv, OrderInv, Trails
  <2>2. CASE day \in everPosted
    <3>1. everPosted' = everPosted
      BY <1>1, <2>2
    <3> QED
      BY <1>1, <3>1 DEF BooksStep, InOrder!vars
  <2>3. CASE day \notin everPosted
    <3>1. day = n
      <4>0. day \in Int /\ n \in Int /\ day <= n
        BY <1>3, <2>1
      <4>1. SUFFICES ASSUME day < n
                     PROVE  FALSE
        BY <4>0
      <4>2. day \in from .. n - 1
        BY <1>3, <2>1, <4>1
      <4> QED
        BY <2>1, <2>3, <4>2 DEF BillInv, Whole
    <3>2. n \notin everPosted /\ n \in everPosted'
      BY <1>1, <2>3, <3>1
    <3> DEFINE abstract == IF n \in everPosted THEN n + Period ELSE n
    <3>3. abstract = n /\ abstract' = n + Period
      BY <1>1, <3>2
    <3>4. InOrder!Post
      BY <1>1, <1>4, <3>1, <3>3 DEF InOrder!Post
    <3> QED
      BY <3>4 DEF BooksStep, InOrder!Next
  <2> QED
    BY <2>2, <2>3
<1> QED
  BY <1>1, <1>5, <1>6, <1>7 DEF TrackInv

LEMMA TrackAdvance ==
  ASSUME TypeInv, EndInv, BillInv, TrackInv, NEW s \in Servers, Advance(s), BillInv'
  PROVE  TrackInv' /\ (edits' = 0 => BooksStep)
<1> DEFINE q == run[s]
           next == q.occurrence + Period
           finished == next > q.end
           head == LoopHead(q.end, next, q.now, q.periods + 1, q.posting)
<1>0. /\ run \in [Servers -> RunRecord] /\ q \in RunRecord
      /\ schedule \in Schedule /\ everPosted \subseteq Dates
  BY DEF TypeInv, TypeOK
<1>1. /\ q.pc = "advance" /\ UNCHANGED <<today, edit, edits, everPosted, from>>
      /\ \A t \in Servers \ {s} : run'[t] = run[t]
  BY <1>0 DEF Advance
<1>2. /\ q.occurrence \in Int /\ q.end \in Int /\ schedule.next \in Int
      /\ from \in Int /\ Period \in Nat \ {0}
  BY <1>0, Constants DEF RunRecord, Schedule, TypeInv, TypeOK
<1>3. q.now <= today
  BY <1>1 DEF TrackInv, Calendar
<1>4. CASE ~Matches(s)
  <2>1. /\ run'[s].pc = "handled" /\ run'[s].now = q.now
        /\ run'[s].occurrence = q.occurrence /\ schedule' = schedule
    BY <1>0, <1>1, <1>4 DEF Advance, RunRecord
  <2>2. edits = 0 => Trails(run[s])'
    BY <1>1, <2>1 DEF TrackInv, OrderInv, Trails
  <2> QED
    BY <1>1, <1>3, <2>1, <2>2, TrackRun
<1>5. CASE Matches(s)
  <2>1. q.occurrence = schedule.next /\ next = schedule.next + Period
    BY <1>5 DEF Matches
  <2>2. /\ run' = [run EXCEPT ![s] =
                    [q EXCEPT !.occurrence = next, !.periods = q.periods + 1,
                              !.moved = TRUE,
                              !.pc = IF finished THEN "handled" ELSE head]]
        /\ schedule' = [schedule EXCEPT !.next = next,
                                        !.active = schedule.active /\ ~finished]
    BY <1>0, <1>5 DEF Advance
  <2>3. /\ next \in Int /\ next > schedule.next
        /\ next = q.occurrence + Period
    BY <1>2, <2>1
  <2>4. head = "insert" => ~(next > q.end)
    BY HeadTypes
  <2>5. q.occurrence \in everPosted
    BY <1>1 DEF BillInv, Behind
  <2> HIDE DEF next, finished, head
  <2>6. /\ run'[s].now = q.now /\ run'[s].occurrence = next /\ run'[s].end = q.end
        /\ run'[s].pc \in {"handled", head}
        /\ schedule'.next = next /\ schedule'.end = schedule.end
    BY <1>0, <2>2 DEF RunRecord, Schedule
  <2>7. Calendar' /\ DueRuns'
    <3>1. run'[s].pc = "insert" => run'[s].occurrence <= run'[s].end
      BY <1>2, <2>3, <2>4, <2>6
    <3> QED
      BY <1>1, <1>3, <2>6, <3>1 DEF TrackInv, Calendar, DueRuns
  <2>8. OrderInv'
    <3>1. ASSUME edits = 0, NEW t \in Servers \ {s}
          PROVE  Trails(run[t])'
      <4>1. run[t].occurrence \in Int
        BY <1>0, Constants DEF RunRecord
      <4>2. Trails(run[t])
        BY <3>1 DEF TrackInv, OrderInv
      <4> QED
        BY <1>1, <1>2, <2>3, <2>6, <4>1, <4>2 DEF Trails
    <3>2. Trails(run[s])'
      BY <1>2, <2>3, <2>6 DEF Trails, BillInv, Whole
    <3>3. edits = 0 => \A day \in everPosted : day <= next
      <4>1. \A day \in everPosted : day \in Int
        BY <1>0, Constants
      <4> QED
        BY <1>2, <2>3, <4>1 DEF TrackInv, OrderInv
    <3> QED
      BY <1>1, <2>6, <3>1, <3>2, <3>3 DEF TrackInv, OrderInv
  <2>9. ASSUME edits = 0
        PROVE  UNCHANGED InOrder!vars
    <3>1. next \notin everPosted
      BY <1>2, <2>3, <2>9 DEF TrackInv, OrderInv
    <3>2. /\ schedule.next \in everPosted /\ next \notin everPosted'
          /\ schedule'.next = schedule.next + Period
      BY <1>1, <2>1, <2>5, <2>6, <3>1
    <3> QED
      BY <1>1, <2>6, <3>2 DEF InOrder!vars
  <2> QED
    BY <1>1, <2>7, <2>8, <2>9 DEF TrackInv, BooksStep
<1> QED
  BY <1>4, <1>5

LEMMA TrackNext ==
  ASSUME TypeInv, EndInv, BillInv, TrackInv, BillInv', [Next]_vars
  PROVE  TrackInv' /\ (edits' = 0 => BooksStep)
<1>0. /\ schedule \in Schedule /\ edit \in [Editors -> EditRecord]
      /\ run \in [Servers -> RunRecord] /\ edits \in Nat
      /\ today \in 0 .. Horizon
  BY Constants DEF TypeInv, TypeOK
<1>1. ASSUME NEW s \in Servers, Claim(s) \/ EndRun(s) \/ Crash(s)
      PROVE  TrackInv' /\ BooksStep
  <2>1. /\ UNCHANGED <<today, schedule, edit, edits, everPosted, from>>
        /\ run'[s].pc \in {"idle", "scan"}
        /\ run'[s].pc # "idle" => run'[s].now = today
        /\ \A t \in Servers \ {s} : run'[t] = run[t]
    <3>1. CASE Claim(s)
      BY <1>0, <3>1 DEF Claim, IdleRun, history
    <3>2. CASE EndRun(s)
      BY <1>0, <3>2 DEF EndRun, IdleRun, history
    <3>3. CASE Crash(s)
      BY <1>0, <3>3 DEF Crash, IdleRun, history
    <3> QED
      BY <1>1, <3>1, <3>2, <3>3
  <2>2. Trails(run[s])'
    BY <2>1 DEF Trails
  <2>3. run'[s].pc # "idle" => run'[s].now <= today
    BY <1>0, <2>1
  <2> QED
    BY <2>1, <2>2, <2>3, TrackRun
<1>2. ASSUME NEW s \in Servers, Scan(s)
      PROVE  TrackInv' /\ BooksStep
  <2>1. /\ UNCHANGED <<today, schedule, edit, edits, everPosted, from>>
        /\ run'[s].pc = "resolve" /\ run'[s].now = run[s].now
        /\ run'[s].occurrence = schedule.next /\ run[s].pc # "idle"
        /\ \A t \in Servers \ {s} : run'[t] = run[t]
    BY <1>0, <1>2 DEF Scan, history, BillInv, Bill
  <2>2. Trails(run[s])'
    <3>1. schedule.next \in Int
      BY <1>0, Constants DEF Schedule
    <3> QED
      BY <2>1, <3>1 DEF Trails, BillInv, Whole
  <2>3. run'[s].now <= today
    BY <2>1 DEF TrackInv, Calendar
  <2> QED
    BY <2>1, <2>2, <2>3, TrackRun
<1>3. ASSUME NEW s \in Servers, Resolve(s)
      PROVE  TrackInv' /\ BooksStep
  <2> DEFINE q == run[s]
             post == q.tracked /\ usable
             head == LoopHead(q.end, q.occurrence, q.now, 0, post)
  <2>1. head = "insert" => ~(q.occurrence > q.end)
    BY HeadTypes
  <2>2. /\ q \in RunRecord /\ q.pc = "resolve"
        /\ run' = [run EXCEPT ![s] = [q EXCEPT
                     !.posting = post,
                     !.pc = IF post \/ q.sub THEN head ELSE "handled"]]
    BY <1>0, <1>3 DEF Resolve
  <2> HIDE DEF head, post
  <2>3. /\ run'[s].occurrence = q.occurrence /\ run'[s].end = q.end
        /\ run'[s].now = q.now /\ run'[s].pc \in {head, "handled"}
    BY <1>0, <2>2 DEF RunRecord
  <2>4. q.occurrence \in Int /\ q.end \in Int
    BY <2>2, Constants DEF RunRecord
  <2>5. run'[s].pc = "insert" => run'[s].occurrence <= run'[s].end
    BY <2>1, <2>3, <2>4
  <2>6. UNCHANGED <<today, schedule, edit, edits, everPosted, from>>
        /\ \A t \in Servers \ {s} : run'[t] = run[t]
    BY <1>0, <1>3 DEF Resolve, history
  <2>7. edits = 0 => Trails(run[s])'
    BY <2>2, <2>3, <2>6 DEF TrackInv, OrderInv, Trails
  <2>8. run'[s].now <= today
    BY <2>2, <2>3 DEF TrackInv, Calendar
  <2> QED
    BY <2>5, <2>6, <2>7, <2>8, TrackRun
<1>4. ASSUME NEW s \in Servers, Sync(s)
      PROVE  TrackInv' /\ BooksStep
  <2>1. /\ run[s] \in RunRecord /\ run[s].pc = "sync"
        /\ UNCHANGED <<today, schedule, edit, edits, everPosted, from>>
    BY <1>0, <1>4 DEF Sync, history
  <2>2. /\ run'[s].pc = "advance" /\ run'[s].now = run[s].now
        /\ run'[s].occurrence = run[s].occurrence
        /\ \A t \in Servers \ {s} : run'[t] = run[t]
    BY <1>0, <1>4, <2>1 DEF Sync, RunRecord
  <2>3. edits = 0 => Trails(run[s])'
    BY <2>1, <2>2 DEF TrackInv, OrderInv, Trails
  <2>4. run'[s].now <= today
    BY <2>1, <2>2 DEF TrackInv, Calendar
  <2> QED
    BY <2>1, <2>2, <2>3, <2>4, TrackRun
<1>5. ASSUME NEW s \in Servers, Expire(s)
      PROVE  TrackInv' /\ BooksStep
  <2>1. /\ run[s] \in RunRecord /\ run[s].pc = "expire"
        /\ UNCHANGED <<today, edit, edits, everPosted, from>>
        /\ schedule'.next = schedule.next /\ schedule'.end = schedule.end
    BY <1>0, <1>5 DEF Expire, Schedule
  <2>2. /\ run'[s].pc = "handled" /\ run'[s].now = run[s].now
        /\ run'[s].occurrence = run[s].occurrence
        /\ \A t \in Servers \ {s} : run'[t] = run[t]
    BY <1>0, <1>5, <2>1 DEF Expire, RunRecord
  <2>3. Calendar' /\ DueRuns'
    BY <2>1, <2>2 DEF TrackInv, Calendar, DueRuns
  <2>4. OrderInv'
    BY <2>1, <2>2 DEF TrackInv, OrderInv, Trails
  <2>5. UNCHANGED InOrder!vars
    BY <2>1 DEF InOrder!vars
  <2> QED
    BY <2>3, <2>4, <2>5 DEF TrackInv, BooksStep
<1>6. ASSUME NEW s \in Servers, Insert(s)
      PROVE  TrackInv' /\ (edits' = 0 => BooksStep)
  BY <1>6, TrackInsert
<1>7. ASSUME NEW s \in Servers, Advance(s)
      PROVE  TrackInv' /\ (edits' = 0 => BooksStep)
  BY <1>7, TrackAdvance
<1>8. ASSUME NEW e \in Editors, ReadForEdit(e)
      PROVE  TrackInv' /\ edits' # 0
  <2>1. edits' = edits + 1 /\ UNCHANGED <<today, run>>
    BY <1>8 DEF ReadForEdit
  <2> QED
    BY <1>0, <2>1 DEF TrackInv, Calendar, DueRuns, OrderInv
<1>9. ASSUME NEW e \in Editors, SaveEdit(e)
      PROVE  TrackInv' /\ edits' # 0
  <2>1. UNCHANGED <<today, run, edits>> /\ edit[e].pc = "read"
    BY <1>9 DEF SaveEdit
  <2> QED
    BY <2>1 DEF TrackInv, Calendar, DueRuns, OrderInv
<1>10. ASSUME NEW e \in Editors, SaveMissing(e)
       PROVE  TrackInv' /\ BooksStep
  <2>1. /\ UNCHANGED <<today, run, everPosted, from, edits, schedule>>
        /\ \A f \in Editors : edit[f].pc = "idle" => edit'[f].pc = "idle"
    BY <1>0, <1>10 DEF SaveMissing, IdleEdit, history
  <2> QED
    BY <2>1, TrackOther
<1>11. CASE Remove \/ Archive \/ UNCHANGED vars \/ \E day \in Dates : DeleteRow(day)
  <2>1. UNCHANGED <<today, run, everPosted, from, edits, schedule, edit>>
    BY <1>11 DEF Remove, Archive, vars, DeleteRow, history
  <2> QED
    BY <2>1, TrackOther
<1>12. CASE Midnight
  <2>1. /\ today' = IF today < Horizon THEN today + 1 ELSE today
        /\ UNCHANGED <<run, everPosted, from, edits, schedule, edit>>
    BY <1>12 DEF Midnight, history
  <2>2. /\ today \in Int /\ today <= today' /\ today' \in Int
        /\ \A s \in Servers : run[s].now \in Int
    BY <1>0, <2>1, Constants DEF RunRecord
  <2>3. Calendar'
    BY <2>1, <2>2 DEF TrackInv, Calendar
  <2>4. DueRuns' /\ OrderInv'
    BY <2>1 DEF TrackInv, DueRuns, OrderInv, Trails
  <2>5. BooksStep
    <3>1. CASE today < Horizon
      BY <2>1, <3>1 DEF BooksStep, InOrder!Next, InOrder!DayPasses
    <3>2. CASE ~(today < Horizon)
      BY <2>1, <3>2 DEF BooksStep, InOrder!vars
    <3> QED
      BY <3>1, <3>2
  <2> QED
    BY <2>3, <2>4, <2>5 DEF TrackInv
<1> QED
  BY <1>1, <1>2, <1>3, <1>4, <1>5, <1>6, <1>7, <1>8, <1>9, <1>10, <1>11, <1>12
  DEF Next, Work, Edit

\* The job implements Occurrences.tla: as long as nobody edits a bill, its rows
\* appear one by one, in order, none skipped, none twice, none before its day and
\* none after the end, through crashes, caps and overlapping runs.
THEOREM SchedulePostsInOrder ==
  ASSUME Subscriptions \subseteq {FALSE}, "sub" \notin Patchable, "end" \notin Patchable
  PROVE  Spec => PostsInOrder
<1> DEFINE Inv == TypeInv /\ EndInv /\ BillInv /\ TrackInv
<1>1. Init => Inv /\ InOrder!Init
  <2>1. Init => Inv
    BY TypeInit, EndInit, BillInit, TrackInit
  <2>2. Init => InOrder!Init
    BY DEF Init, InOrder!Init, Schedule, Dates, LastDate
  <2> QED
    BY <2>1, <2>2
<1>2. Inv /\ [Next]_vars => Inv' /\ [edits' = 0 => BooksStep]_vars
  <2> SUFFICES ASSUME Inv, [Next]_vars
               PROVE  Inv' /\ (edits' = 0 => BooksStep)
    OBVIOUS
  <2>1. TypeInv'
    BY TypeNext
  <2>2. EndInv'
    BY EndNext
  <2>3. BillInv'
    BY BillNext
  <2>4. TrackInv' /\ (edits' = 0 => BooksStep)
    BY <2>3, TrackNext
  <2> QED
    BY <2>1, <2>2, <2>3, <2>4
<1> QED
  BY <1>1, <1>2, PTL DEF Spec, PostsInOrder, BooksStep

-----------------------------------------------------------------------------
(* Cadence.tla.  First, what stands for induction: a set of naturals has a *)
(* least element.                                                          *)

LessThan == {pair \in Nat \X Nat : pair[1] < pair[2]}

LEMMA LeastElement ==
  ASSUME NEW T \in SUBSET Nat, T # {}
  PROVE  \E m \in T : \A n \in T : m <= n
<1>1. IsWellFoundedOn(LessThan, Nat)
  BY NatLessThanWellFounded DEF OpToRel, LessThan
<1>2. PICK m \in T : \A n \in T : ~(<<n, m>> \in LessThan)
  BY <1>1, WFMin
<1>3. \A i, j \in Nat : i < j => <<i, j>> \in LessThan
  BY DEF LessThan
<1>4. ASSUME NEW n \in T PROVE m <= n
  <2>1. m \in Nat /\ n \in Nat /\ ~(n < m)
    BY <1>2, <1>3
  <2> QED BY <2>1
<1> QED BY <1>4

-----------------------------------------------------------------------------
(* The calendar.                                                           *)

FirstMonth == MonthIndex(FirstYear, 0)

LEMMA CalendarSpans ==
  /\ FirstMonth \in Nat /\ EndOfTime \in Nat
  /\ FirstMonth = 12 * FirstYear /\ EndOfTime = 12 * LastYear + 36
  /\ FirstMonth + 36 <= EndOfTime
BY CadenceAssumption DEF FirstMonth, EndOfTime, MonthIndex

LEMMA LengthIs ==
  ASSUME NEW i
  PROVE  LengthOf(i) \in 28 .. 31
BY DEF LengthOf, MonthLength

MonthsUpTo(n, f) ==
  f = [i \in FirstMonth .. n |-> IF i = FirstMonth THEN 0 ELSE f[i - 1] + LengthOf(i - 1)]

\* The recursion of FirstOf has a solution up to any month.
LEMMA CalendarExists ==
  ASSUME NEW n \in Int, FirstMonth <= n
  PROVE  \E f : MonthsUpTo(n, f)
<1> DEFINE Wrong == {k \in Nat : ~ \E f : MonthsUpTo(FirstMonth + k, f)}
<1>1. ASSUME Wrong # {} PROVE FALSE
  <2>1. PICK k \in Wrong : \A j \in Wrong : k <= j
    BY <1>1, LeastElement
  <2>2. CASE k = 0
    <3> DEFINE f == [i \in FirstMonth .. FirstMonth |-> 0]
    <3>1. \A i \in FirstMonth .. FirstMonth : i = FirstMonth
      BY CalendarSpans
    <3>2. MonthsUpTo(FirstMonth, f)
      BY <3>1 DEF MonthsUpTo
    <3>3. FirstMonth + k = FirstMonth
      BY <2>2, CalendarSpans
    <3> QED
      BY <3>2, <3>3
  <2>3. CASE k # 0
    <3> DEFINE b == FirstMonth + (k - 1)
    <3>1. k \in Nat /\ k - 1 \in Nat /\ k - 1 \notin Wrong
      BY <2>1, <2>3
    <3>2. PICK g : MonthsUpTo(b, g)
      BY <3>1
    <3>3. b \in Int /\ FirstMonth <= b /\ FirstMonth + k = b + 1 /\ FirstMonth \in Int
      BY <3>1, CalendarSpans
    <3> HIDE DEF b
    <3> DEFINE f == [i \in FirstMonth .. b + 1 |-> IF i = b + 1 THEN g[b] + LengthOf(b) ELSE g[i]]
    <3>4. ASSUME NEW i \in FirstMonth .. b + 1
          PROVE  f[i] = IF i = FirstMonth THEN 0 ELSE f[i - 1] + LengthOf(i - 1)
      <4>1. CASE i = b + 1
        <5>1. i # FirstMonth /\ i - 1 = b /\ b \in FirstMonth .. b + 1 /\ b # b + 1
          BY <3>3, <4>1
        <5> QED
          BY <4>1, <5>1
      <4>2. CASE i # b + 1
        <5>1. i \in FirstMonth .. b
              /\ (i # FirstMonth => i - 1 \in FirstMonth .. b + 1 /\ i - 1 # b + 1)
          BY <3>3, <4>2
        <5>2. g[i] = IF i = FirstMonth THEN 0 ELSE g[i - 1] + LengthOf(i - 1)
          BY <3>2, <5>1 DEF MonthsUpTo
        <5> QED
          BY <4>2, <5>1, <5>2
      <4> QED
        BY <4>1, <4>2
    <3>5. MonthsUpTo(b + 1, f)
      BY <3>4 DEF MonthsUpTo
    <3> QED
      BY <3>3, <3>5
  <2> QED
    BY <2>2, <2>3
<1>2. n - FirstMonth \in Nat /\ FirstMonth + (n - FirstMonth) = n
  BY CalendarSpans
<1> QED
  BY <1>1, <1>2

\* Each month begins where the one before ends.
LEMMA FirstOfIs ==
  /\ FirstOf[FirstMonth] = 0
  /\ \A i \in FirstMonth .. EndOfTime - 1 : FirstOf[i + 1] = FirstOf[i] + LengthOf(i)
<1>1. \E f : MonthsUpTo(EndOfTime, f)
  BY CalendarExists, CalendarSpans
<1>2. FirstOf = CHOOSE f : MonthsUpTo(EndOfTime, f)
  BY DEF FirstOf, FirstMonth, MonthsUpTo
<1>3. MonthsUpTo(EndOfTime, FirstOf)
  BY <1>1, <1>2
<1>4. \A i \in FirstMonth .. EndOfTime :
        FirstOf[i] = IF i = FirstMonth THEN 0 ELSE FirstOf[i - 1] + LengthOf(i - 1)
  BY <1>3 DEF MonthsUpTo
<1>5. \A i \in FirstMonth .. EndOfTime - 1 :
        i + 1 \in FirstMonth .. EndOfTime /\ i + 1 # FirstMonth /\ (i + 1) - 1 = i
  BY CalendarSpans
<1>6. FirstMonth \in FirstMonth .. EndOfTime
  BY CalendarSpans
<1> QED
  BY <1>4, <1>5, <1>6

\* Months are 28 to 31 days apart.
LEMMA MonthsApart ==
  ASSUME NEW i \in FirstMonth .. EndOfTime, NEW k \in Nat, i + k <= EndOfTime
  PROVE  /\ FirstOf[i] \in Nat /\ FirstOf[i + k] \in Nat
         /\ FirstOf[i] + 28 * k <= FirstOf[i + k]
         /\ FirstOf[i + k] <= FirstOf[i] + 31 * k
<1>1. \A j \in FirstMonth .. EndOfTime : FirstOf[j] \in Nat
  <2> DEFINE Wrong == {j \in Nat : j \in FirstMonth .. EndOfTime /\ FirstOf[j] \notin Nat}
  <2>1. ASSUME Wrong # {} PROVE FALSE
    <3>1. PICK j \in Wrong : \A m \in Wrong : j <= m
      BY <2>1, LeastElement
    <3>2. j # FirstMonth
      BY FirstOfIs
    <3>3. j - 1 \in FirstMonth .. EndOfTime - 1 /\ j - 1 \in Nat /\ (j - 1) + 1 = j
          /\ j - 1 \in FirstMonth .. EndOfTime /\ ~(j <= j - 1)
      BY <3>2, CalendarSpans
    <3>4. FirstOf[j - 1] \in Nat
      BY <3>1, <3>3
    <3>5. FirstOf[j] = FirstOf[j - 1] + LengthOf(j - 1)
      BY <3>3, FirstOfIs
    <3>6. LengthOf(j - 1) \in Nat
      BY LengthIs
    <3> QED
      BY <3>4, <3>5, <3>6
  <2>2. \A j \in FirstMonth .. EndOfTime : j \in Nat
    BY CalendarSpans
  <2> QED
    BY <2>1, <2>2
<1> DEFINE Right(j) == FirstOf[i] + 28 * j <= FirstOf[i + j] /\ FirstOf[i + j] <= FirstOf[i] + 31 * j
           Bad == {j \in Nat : i + j <= EndOfTime /\ ~Right(j)}
<1>2. i \in Nat
  BY CalendarSpans
<1>3. ASSUME Bad # {} PROVE FALSE
  <2>1. PICK j \in Bad : \A m \in Bad : j <= m
    BY <1>3, LeastElement
  <2>2. j # 0
    <3>1. i + 0 = i /\ FirstOf[i] \in Nat
      BY <1>1, <1>2
    <3>2. Right(0)
      BY <3>1
    <3> QED
      BY <3>2
  <2>3. j - 1 \in Nat /\ ~(j <= j - 1) /\ i + (j - 1) <= EndOfTime
        /\ i + (j - 1) \in FirstMonth .. EndOfTime - 1 /\ (i + (j - 1)) + 1 = i + j
        /\ i + (j - 1) \in FirstMonth .. EndOfTime /\ i + j \in FirstMonth .. EndOfTime
    BY <1>2, <2>2, CalendarSpans
  <2>4. Right(j - 1)
    BY <2>1, <2>3
  <2>5. FirstOf[i + j] = FirstOf[i + (j - 1)] + LengthOf(i + (j - 1))
    BY <2>3, FirstOfIs
  <2>6. LengthOf(i + (j - 1)) \in 28 .. 31
    BY LengthIs
  <2>7. FirstOf[i] \in Nat /\ FirstOf[i + j] \in Nat /\ FirstOf[i + (j - 1)] \in Nat
    BY <1>1, <2>3
  <2>8. Right(j)
    BY <2>3, <2>4, <2>5, <2>6, <2>7
  <2> QED
    BY <2>1, <2>8
<1>4. Right(k)
  BY <1>3
<1>5. i + k \in FirstMonth .. EndOfTime
  BY <1>2, CalendarSpans
<1> QED
  BY <1>1, <1>4, <1>5

InCalendar(n) == n \in Nat /\ n < FirstOf[EndOfTime]

LEMMA MonthIs ==
  ASSUME NEW n \in Nat, NEW i \in FirstMonth .. EndOfTime - 1,
         FirstOf[i] <= n, n < FirstOf[i + 1]
  PROVE  MonthOf(n) = i /\ DayOf(n) = n - FirstOf[i] + 1
<1> DEFINE guess == FirstMonth + n \div 31
           In(j) == FirstOf[j] <= n /\ n < FirstOf[j + 1]
<1>0. FirstMonth \in Nat /\ EndOfTime \in Nat /\ i \in Nat
  BY CalendarSpans
<1>1. guess \in Nat /\ guess <= i
  <2>1. i + 1 - FirstMonth \in Nat /\ FirstMonth + (i + 1 - FirstMonth) = i + 1
        /\ i + 1 <= EndOfTime /\ FirstMonth \in FirstMonth .. EndOfTime
    BY <1>0
  <2>2. FirstOf[i + 1] <= FirstOf[FirstMonth] + 31 * (i + 1 - FirstMonth) /\ FirstOf[i + 1] \in Nat
    BY <2>1, MonthsApart
  <2>3. n < 31 * (i + 1 - FirstMonth)
    BY <2>2, FirstOfIs, <1>0
  <2>4. n \div 31 \in Nat /\ n \div 31 < i + 1 - FirstMonth
    BY <2>3, <1>0
  <2> QED
    BY <2>4, <1>0
<1>2. i \in guess .. EndOfTime - 1
  BY <1>0, <1>1
<1>3. ASSUME NEW j \in guess .. EndOfTime - 1, In(j) PROVE j = i
  <2>1. FirstMonth <= guess
    BY <1>0
  <2> HIDE DEF guess
  <2>2. j \in FirstMonth .. EndOfTime - 1 /\ j \in Nat
    BY <1>0, <1>1, <2>1
  <2>3. CASE j < i
    <3>1. i - (j + 1) \in Nat /\ (j + 1) + (i - (j + 1)) = i /\ i <= EndOfTime
          /\ j + 1 \in FirstMonth .. EndOfTime
      BY <1>0, <2>2, <2>3
    <3>2. FirstOf[j + 1] + 28 * (i - (j + 1)) <= FirstOf[i] /\ FirstOf[j + 1] \in Nat
          /\ FirstOf[i] \in Nat
      BY <3>1, MonthsApart
    <3> QED
      BY <1>3, <3>1, <3>2
  <2>4. CASE i < j
    <3>1. j - (i + 1) \in Nat /\ (i + 1) + (j - (i + 1)) = j /\ j <= EndOfTime
          /\ i + 1 \in FirstMonth .. EndOfTime
      BY <1>0, <2>2, <2>4
    <3>2. FirstOf[i + 1] + 28 * (j - (i + 1)) <= FirstOf[j] /\ FirstOf[i + 1] \in Nat
          /\ FirstOf[j] \in Nat
      BY <3>1, MonthsApart
    <3> QED
      BY <1>3, <3>1, <3>2
  <2> QED
    BY <1>0, <2>2, <2>3, <2>4
<1>4. MonthOf(n) = CHOOSE j \in guess .. EndOfTime - 1 : In(j)
  BY DEF MonthOf, FirstMonth
<1> HIDE DEF guess
<1>5. MonthOf(n) = i
  BY <1>2, <1>3, <1>4
<1> QED
  BY <1>5 DEF DayOf

\* Every day of the calendar has a month and a day.
LEMMA InMonth ==
  ASSUME NEW n, InCalendar(n)
  PROVE  /\ MonthOf(n) \in FirstMonth .. EndOfTime - 1
         /\ DayOf(n) \in 1 .. LengthOf(MonthOf(n))
         /\ n = FirstOf[MonthOf(n)] + DayOf(n) - 1
         /\ n < FirstOf[MonthOf(n) + 1]
<1> DEFINE T == {k \in Nat : FirstMonth + k + 1 <= EndOfTime /\ n < FirstOf[FirstMonth + k + 1]}
<1>0. FirstMonth \in Nat /\ EndOfTime \in Nat /\ FirstMonth + 36 <= EndOfTime /\ n \in Nat
  BY CalendarSpans DEF InCalendar
<1>1. EndOfTime - 1 - FirstMonth \in T
  <2> DEFINE last == EndOfTime - 1 - FirstMonth
  <2>1. last \in Nat /\ FirstMonth + last + 1 = EndOfTime
    BY <1>0
  <2> HIDE DEF last
  <2>2. FirstOf[FirstMonth + last + 1] = FirstOf[EndOfTime] /\ EndOfTime <= EndOfTime
    BY <2>1, <1>0
  <2>3. n < FirstOf[FirstMonth + last + 1] /\ FirstMonth + last + 1 <= EndOfTime
    BY <2>1, <2>2 DEF InCalendar
  <2>4. last \in T
    BY <2>1, <2>3
  <2> QED
    BY <2>4 DEF last
<1>2. PICK k \in T : \A j \in T : k <= j
  BY <1>1, LeastElement
<1> DEFINE i == FirstMonth + k
<1>3. k \in Nat /\ i \in FirstMonth .. EndOfTime - 1 /\ n < FirstOf[i + 1]
  BY <1>0
<1>4. FirstOf[i] <= n
  <2>1. CASE k = 0
    BY <1>0, <2>1, FirstOfIs
  <2>2. CASE k # 0
    <3>1. k - 1 \in Nat /\ ~(k <= k - 1) /\ FirstMonth + (k - 1) + 1 = i /\ i <= EndOfTime
      BY <1>0, <1>3, <2>2
    <3>2. ~(n < FirstOf[i])
      BY <1>2, <3>1
    <3>3. i \in FirstMonth .. EndOfTime /\ 0 \in Nat /\ i + 0 <= EndOfTime
      BY <1>0, <1>3
    <3>4. FirstOf[i] \in Nat
      BY <3>3, MonthsApart
    <3> QED
      BY <1>0, <3>2, <3>4
  <2> QED
    BY <2>1, <2>2
<1> HIDE DEF i
<1>5. MonthOf(n) = i /\ DayOf(n) = n - FirstOf[i] + 1
  BY <1>0, <1>3, <1>4, MonthIs
<1>6. FirstOf[i + 1] = FirstOf[i] + LengthOf(i) /\ LengthOf(i) \in 28 .. 31
  BY <1>3, FirstOfIs, LengthIs
<1>7. FirstOf[i] \in Nat
  <2>1. i \in FirstMonth .. EndOfTime /\ 0 \in Nat /\ i + 0 <= EndOfTime
    BY <1>0, <1>3
  <2> QED
    BY <2>1, MonthsApart
<1>8. DayOf(n) \in 1 .. LengthOf(i) /\ n = FirstOf[i] + DayOf(n) - 1
  BY <1>0, <1>3, <1>4, <1>5, <1>6, <1>7
<1> QED
  BY <1>3, <1>5, <1>8

\* Every month and day that there is is a day of the calendar.
LEMMA UtcIs ==
  ASSUME NEW i \in FirstMonth .. EndOfTime - 1, NEW d \in 1 .. LengthOf(i)
  PROVE  /\ InCalendar(Utc(i, d)) /\ MonthOf(Utc(i, d)) = i /\ DayOf(Utc(i, d)) = d
         /\ Utc(i, d) = FirstOf[i] + d - 1
<1>0. FirstMonth \in Nat /\ EndOfTime \in Nat /\ i \in Nat
  BY CalendarSpans
<1>1. FirstOf[i + 1] = FirstOf[i] + LengthOf(i) /\ LengthOf(i) \in 28 .. 31
  BY FirstOfIs, LengthIs
<1>2. i + 1 \in FirstMonth .. EndOfTime /\ EndOfTime - (i + 1) \in Nat
      /\ (i + 1) + (EndOfTime - (i + 1)) = EndOfTime /\ EndOfTime <= EndOfTime
      /\ i \in FirstMonth .. EndOfTime /\ i + 0 <= EndOfTime /\ 0 \in Nat
  BY <1>0
<1>3. FirstOf[i] \in Nat
  BY <1>2, MonthsApart
<1>4. FirstOf[i + 1] + 28 * (EndOfTime - (i + 1)) <= FirstOf[EndOfTime]
      /\ FirstOf[EndOfTime] \in Nat
  BY <1>2, MonthsApart
<1> DEFINE n == FirstOf[i] + d - 1
<1>5. n \in Nat /\ FirstOf[i] <= n /\ n < FirstOf[i + 1] /\ n < FirstOf[EndOfTime]
      /\ n - FirstOf[i] + 1 = d
  BY <1>1, <1>2, <1>3, <1>4
<1>6. Utc(i, d) = n
  BY DEF Utc
<1> HIDE DEF n
<1>7. MonthOf(n) = i /\ DayOf(n) = d
  BY <1>5, MonthIs
<1> QED
  BY <1>5, <1>6, <1>7 DEF InCalendar, n

LEMMA MinOf ==
  ASSUME NEW a \in Int, NEW b \in Int
  PROVE  Min({a, b}) = IF a <= b THEN a ELSE b
<1> DEFINE m == IF a <= b THEN a ELSE b
<1>1. m \in {a, b} /\ \A y \in {a, b} : m <= y
  OBVIOUS
<1>2. \A x \in {a, b} : (\A y \in {a, b} : x <= y) => x = m
  OBVIOUS
<1> HIDE DEF m
<1>3. Min({a, b}) = m
  BY <1>1, <1>2 DEF Min
<1> QED
  BY <1>3 DEF m

\* The day a month has for an anchor.
LEMMA ClampedIs ==
  ASSUME NEW day \in 1 .. 31, NEW i
  PROVE  /\ Min({day, LengthOf(i)}) \in 1 .. LengthOf(i)
         /\ Min({day, LengthOf(i)}) <= day
         /\ Min({day, LengthOf(i)}) < day => Min({day, LengthOf(i)}) >= 28
         /\ day <= LengthOf(i) => Min({day, LengthOf(i)}) = day
<1>1. LengthOf(i) \in 28 .. 31 /\ LengthOf(i) \in Int /\ day \in Int
  BY LengthIs
<1>2. Min({day, LengthOf(i)}) = IF day <= LengthOf(i) THEN day ELSE LengthOf(i)
  BY <1>1, MinOf
<1> QED
  BY <1>1, <1>2

\* A day before a month begins is in an earlier month.
LEMMA MonthBefore ==
  ASSUME NEW n, InCalendar(n), NEW i \in FirstMonth .. EndOfTime, n < FirstOf[i]
  PROVE  MonthOf(n) < i
<1> DEFINE m == MonthOf(n)
<1>1. m \in FirstMonth .. EndOfTime - 1 /\ n = FirstOf[m] + DayOf(n) - 1
      /\ DayOf(n) \in 1 .. LengthOf(m) /\ LengthOf(m) \in 28 .. 31
  BY InMonth, LengthIs
<1>2. FirstMonth \in Nat /\ EndOfTime \in Nat
  BY CalendarSpans
<1> HIDE DEF m
<1>3. ASSUME i <= m PROVE FALSE
  <2>1. i \in FirstMonth .. EndOfTime /\ m - i \in Nat /\ i + (m - i) = m /\ m <= EndOfTime
    BY <1>1, <1>2, <1>3
  <2>2. FirstOf[i] \in Nat /\ FirstOf[m] \in Nat /\ FirstOf[i] + 28 * (m - i) <= FirstOf[m]
    BY <2>1, MonthsApart
  <2>3. FirstOf[m] <= n /\ n \in Nat
    BY <1>1, <2>2
  <2> QED
    BY <2>1, <2>2, <2>3
<1>4. m \in Nat /\ i \in Nat /\ m < i
  BY <1>1, <1>2, <1>3
<1> QED
  BY <1>4 DEF m

\* While there is room a period ahead is in the calendar, and so it is for 200 days
\* more.
LEMMA RoomAhead ==
  ASSUME NEW n, InCalendar(n), NEW d, InCalendar(d), Room(n), d < n + 200
  PROVE  MonthOf(d) < 12 * LastYear + 8
<1> DEFINE i == 12 * LastYear
<1>1. i \in FirstMonth .. EndOfTime /\ i + 8 \in FirstMonth .. EndOfTime
      /\ i + 8 <= EndOfTime /\ 8 \in Nat
  BY CalendarSpans, CadenceAssumption
<1>2. n <= FirstOf[i] + 1 - 1
  <2>1. i + 0 = i
    BY <1>1, CalendarSpans, CadenceAssumption
  <2>2. n <= FirstOf[i + 0] + 1 - 1
    BY DEF Room, Utc, MonthIndex
  <2> QED
    BY <2>1, <2>2
<1> HIDE DEF i
<1>3. FirstOf[i] \in Nat /\ FirstOf[i + 8] \in Nat /\ FirstOf[i] + 28 * 8 <= FirstOf[i + 8]
  BY <1>1, MonthsApart
<1>4. d < FirstOf[i + 8]
  BY <1>2, <1>3 DEF InCalendar
<1>5. MonthOf(d) < i + 8
  BY <1>1, <1>4, MonthBefore
<1> QED
  BY <1>5 DEF i

\* A day that there is room for is three years from the end of the calendar.
LEMMA ThreeYearsLeft ==
  ASSUME NEW n, InCalendar(n), Room(n)
  PROVE  \A d \in n .. n + 1000 : InCalendar(d)
<1> DEFINE i == 12 * LastYear
<1>1. /\ i \in FirstMonth .. EndOfTime /\ i + 36 = EndOfTime /\ 36 \in Nat
      /\ i + 36 <= EndOfTime /\ i + 0 = i
  BY CalendarSpans, CadenceAssumption
<1>2. n <= FirstOf[i + 0] + 1 - 1 /\ n \in Nat
  BY DEF Room, Utc, MonthIndex, InCalendar
<1> HIDE DEF i
<1>3. FirstOf[i] \in Nat /\ FirstOf[EndOfTime] \in Nat /\ FirstOf[i] + 28 * 36 <= FirstOf[EndOfTime]
  BY <1>1, MonthsApart
<1>4. FirstOf[i + 0] = FirstOf[i]
  BY <1>1
<1> QED
  BY <1>2, <1>3, <1>4 DEF InCalendar

-----------------------------------------------------------------------------
(* One period on.                                                          *)

LEMMA WeekOn ==
  ASSUME NEW n, InCalendar(n), NEW a
  PROVE  AddCadence(n, "weekly", a) = n + 7
<1>1. n = FirstOf[MonthOf(n)] + DayOf(n) - 1 /\ DayOf(n) \in Int /\ n \in Nat
      /\ MonthOf(n) \in FirstMonth .. EndOfTime - 1
  BY InMonth, LengthIs DEF InCalendar
<1>2. FirstOf[MonthOf(n)] \in Nat
  <2>1. MonthOf(n) \in FirstMonth .. EndOfTime /\ 0 \in Nat /\ MonthOf(n) + 0 <= EndOfTime
    BY <1>1, CalendarSpans
  <2> QED
    BY <2>1, MonthsApart
<1>3. AddCadence(n, "weekly", a) = FirstOf[MonthOf(n)] + (DayOf(n) + 7) - 1
  BY DEF AddCadence, SetDate, Utc
<1> QED
  BY <1>1, <1>2, <1>3

\* The day taken in the month that comes a period later.
Target(n, c, day) ==
  Utc(MonthOf(n) + MonthsIn(c), Min({day, LengthOf(MonthOf(n) + MonthsIn(c))}))

LEMMA MonthsOn ==
  ASSUME NEW n, InCalendar(n), NEW c \in Cadences, c # "weekly", NEW a \in 0 .. 31,
         MonthOf(n) + MonthsIn(c) <= EndOfTime - 1
  PROVE  AddCadence(n, c, a) = Target(n, c, IF a = NoAnchor THEN DayOf(n) ELSE a)
<1> DEFINE m == MonthOf(n)
           k == MonthsIn(c)
           day == IF a = NoAnchor THEN DayOf(n) ELSE a
<1>1. m \in FirstMonth .. EndOfTime - 1
  BY InMonth
<1>2. k \in Nat /\ FirstMonth \in Nat /\ EndOfTime \in Nat
  BY CalendarSpans DEF MonthsIn
<1>3. m + k \in FirstMonth .. EndOfTime - 1
  BY <1>1, <1>2
<1>4. 1 \in 1 .. LengthOf(m) /\ 1 \in 1 .. LengthOf(m + k)
  BY LengthIs
<1>5. SetDate(n, 1) = Utc(m, 1) /\ MonthOf(Utc(m, 1)) = m /\ DayOf(Utc(m, 1)) = 1
  BY <1>1, <1>4, UtcIs DEF SetDate
<1>6. ShiftMonth(SetDate(n, 1), k) = Utc(m + k, 1)
  BY <1>5 DEF ShiftMonth
<1>7. MonthOf(Utc(m + k, 1)) = m + k
  BY <1>3, <1>4, UtcIs
<1>8. AddCadence(n, c, a)
        = SetDate(ShiftMonth(SetDate(n, 1), k),
                  Min({day, LengthOf(MonthOf(ShiftMonth(SetDate(n, 1), k)))}))
  BY DEF AddCadence
<1> HIDE DEF m, k, day
<1>9. AddCadence(n, c, a) = Utc(m + k, Min({day, LengthOf(m + k)}))
  BY <1>6, <1>7, <1>8 DEF SetDate
<1> QED
  BY <1>9 DEF Target, m, k, day

\* It is a later day, of that month, and not more than the longest period away.
LEMMA TargetIs ==
  ASSUME NEW n, InCalendar(n), NEW c \in Cadences, c # "weekly", NEW day \in 1 .. 31,
         MonthOf(n) + MonthsIn(c) <= EndOfTime - 1
  PROVE  /\ InCalendar(Target(n, c, day))
         /\ MonthOf(Target(n, c, day)) = MonthOf(n) + MonthsIn(c)
         /\ DayOf(Target(n, c, day)) = Min({day, LengthOf(MonthOf(n) + MonthsIn(c))})
         /\ n < Target(n, c, day)
         /\ Target(n, c, day) < n + LongestPeriod
<1> DEFINE m == MonthOf(n)
           k == MonthsIn(c)
           clamped == Min({day, LengthOf(m + k)})
<1>1. m \in FirstMonth .. EndOfTime - 1 /\ n = FirstOf[m] + DayOf(n) - 1
      /\ DayOf(n) \in 1 .. LengthOf(m) /\ LengthOf(m) \in 28 .. 31
      /\ n < FirstOf[m + 1] /\ n \in Nat
  BY InMonth, LengthIs DEF InCalendar
<1>2. k \in Nat /\ k >= 1 /\ k <= 12 /\ FirstMonth \in Nat /\ EndOfTime \in Nat
  BY CalendarSpans DEF MonthsIn
<1>3. m + k \in FirstMonth .. EndOfTime - 1
  BY <1>1, <1>2
<1>4. clamped \in 1 .. LengthOf(m + k) /\ LengthOf(m + k) \in 28 .. 31
  BY ClampedIs, LengthIs
<1>5. Target(n, c, day) = Utc(m + k, clamped)
  BY DEF Target
<1> HIDE DEF m, k, clamped
<1>6. /\ InCalendar(Utc(m + k, clamped)) /\ MonthOf(Utc(m + k, clamped)) = m + k
      /\ DayOf(Utc(m + k, clamped)) = clamped
      /\ Utc(m + k, clamped) = FirstOf[m + k] + clamped - 1
  BY <1>3, <1>4, UtcIs
<1>7. /\ FirstOf[m + 1] \in Nat /\ FirstOf[m + k] \in Nat
      /\ FirstOf[m + 1] + 28 * (k - 1) <= FirstOf[m + k]
  <2>1. m + 1 \in FirstMonth .. EndOfTime /\ k - 1 \in Nat /\ (m + 1) + (k - 1) = m + k
        /\ m + k <= EndOfTime
    BY <1>1, <1>2, <1>3
  <2> QED
    BY <2>1, MonthsApart
<1>8. FirstOf[m] \in Nat /\ FirstOf[m + k] <= FirstOf[m] + 31 * k
  <2>1. m \in FirstMonth .. EndOfTime /\ m + k <= EndOfTime
    BY <1>1, <1>2, <1>3
  <2> QED
    BY <1>2, <2>1, MonthsApart
<1>10. n < FirstOf[m + k] + clamped - 1
  BY <1>1, <1>2, <1>4, <1>7
<1>11. FirstOf[m + k] + clamped - 1 < n + LongestPeriod
  <2>1. FirstOf[m] <= n /\ clamped <= 31
    BY <1>1, <1>4, <1>8
  <2>2. FirstOf[m + k] <= n + 31 * 12
    BY <1>1, <1>2, <1>7, <1>8, <2>1
  <2>3. clamped \in Nat
    BY <1>4
  <2> QED
    BY <1>1, <1>7, <2>1, <2>2, <2>3 DEF LongestPeriod
<1> QED
  BY <1>5, <1>6, <1>10, <1>11 DEF m, k, clamped

-----------------------------------------------------------------------------
(* The schedule.                                                           *)

\* The date is the occurrence `periods` on from the chosen one: for an anchored
\* schedule exactly, for a migrated one up to a day it has lost to a short month.
OnCourse ==
  /\ InCalendar(date) /\ InCalendar(chosen)
  /\ cadence \in Cadences
  /\ patches \in 0 .. MaxPatches
  /\ periods \in 0 .. MaxPeriods
  /\ anchor = NoAnchor \/ anchor = DayOf(chosen)
  /\ cadence = "weekly" => date = chosen + 7 * periods
  /\ cadence # "weekly" =>
       /\ MonthOf(date) = MonthOf(chosen) + periods * MonthsIn(cadence)
       /\ anchor # NoAnchor => DayOf(date) = Min({DayOf(chosen), LengthOf(MonthOf(date))})
       /\ DayOf(date) <= DayOf(chosen)
       /\ DayOf(date) < DayOf(chosen) => DayOf(date) >= 28

LEMMA DayIs ==
  ASSUME NEW n, InCalendar(n)
  PROVE  DayOf(n) \in 1 .. 31 /\ DayOf(n) # NoAnchor
<1>1. DayOf(n) \in 1 .. LengthOf(MonthOf(n)) /\ LengthOf(MonthOf(n)) \in 28 .. 31
  BY InMonth, LengthIs
<1> QED
  BY <1>1 DEF NoAnchor

\* A date that a user has just chosen is on course.
LEMMA Chosen ==
  ASSUME NEW n, InCalendar(n)
  PROVE  /\ n = n + 7 * 0
         /\ \A c \in Cadences : MonthOf(n) = MonthOf(n) + 0 * MonthsIn(c)
         /\ DayOf(n) = Min({DayOf(n), LengthOf(MonthOf(n))})
         /\ DayOf(n) <= DayOf(n)
         /\ ~(DayOf(n) < DayOf(n))
<1>1. DayOf(n) \in 1 .. 31 /\ DayOf(n) \in 1 .. LengthOf(MonthOf(n))
      /\ LengthOf(MonthOf(n)) \in 28 .. 31 /\ n \in Nat
  BY DayIs, InMonth, LengthIs DEF InCalendar
<1>2. MonthOf(n) \in Int
  BY InMonth, CalendarSpans
<1>3. \A c \in Cadences : MonthsIn(c) \in Int
  BY DEF MonthsIn
<1>4. DayOf(n) = Min({DayOf(n), LengthOf(MonthOf(n))})
  BY <1>1, ClampedIs
<1>5. \A c \in Cadences : MonthOf(n) = MonthOf(n) + 0 * MonthsIn(c)
  BY <1>2, <1>3
<1> QED
  BY <1>1, <1>4, <1>5

LEMMA OnCourseInit ==
  ASSUME CadenceInit
  PROVE  OnCourse
<1>1. PICK m \in StartMonths, day \in StartDays :
        /\ day <= MonthLength(FirstYear, m)
        /\ date = Utc(MonthIndex(FirstYear, m), day)
        /\ cadence \in Cadences
        /\ anchor \in {day, NoAnchor}
        /\ patches = 0 /\ chosen = date /\ periods = 0
  BY DEF CadenceInit
<1> DEFINE i == MonthIndex(FirstYear, m)
<1>2. m \in 0 .. 11 /\ day \in 1 .. 31 /\ FirstYear \in Nat
      /\ MaxPatches \in Nat /\ MaxPeriods \in Nat
  BY CadenceAssumption
<1>3. i \in FirstMonth .. EndOfTime - 1 /\ i \div 12 = FirstYear /\ i % 12 = m
  <2>1. i = 12 * FirstYear + m
    BY DEF MonthIndex
  <2>2. FirstMonth = 12 * FirstYear /\ FirstMonth + 36 <= EndOfTime /\ EndOfTime \in Nat
    BY CalendarSpans
  <2> HIDE DEF i
  <2> QED
    BY <1>2, <2>1, <2>2
<1> HIDE DEF i
<1>4. day \in 1 .. LengthOf(i)
  <2>1. LengthOf(i) = MonthLength(FirstYear, m) /\ LengthOf(i) \in 28 .. 31
    BY <1>3, LengthIs DEF LengthOf
  <2> QED
    BY <1>1, <1>2, <2>1
<1>5. InCalendar(date) /\ DayOf(date) = day
  BY <1>1, <1>3, <1>4, UtcIs DEF i
<1>6. patches \in 0 .. MaxPatches /\ periods \in 0 .. MaxPeriods
  BY <1>1, <1>2
<1> QED
  BY <1>1, <1>5, <1>6, Chosen DEF OnCourse

LEMMA OnCourseAdvance ==
  ASSUME OnCourse, AdvanceDate
  PROVE  OnCourse'
<1> USE DEF OnCourse
<1>1. /\ periods < MaxPeriods /\ Room(date)
      /\ date' = AddCadence(date, cadence, anchor) /\ periods' = periods + 1
      /\ cadence' = cadence /\ anchor' = anchor /\ patches' = patches /\ chosen' = chosen
  BY DEF AdvanceDate
<1>2. /\ MonthOf(date) < 12 * LastYear + 8
      /\ MonthOf(date) \in FirstMonth .. EndOfTime - 1 /\ date \in Nat
      /\ LastYear \in Nat /\ MaxPeriods \in Nat
      /\ FirstMonth \in Nat /\ EndOfTime = 12 * LastYear + 36
  <2>1. date < date + 200
    BY DEF InCalendar
  <2> QED
    BY <1>1, <2>1, RoomAhead, InMonth, CalendarSpans, CadenceAssumption DEF InCalendar
<1>3. periods' \in 0 .. MaxPeriods
  BY <1>1, <1>2
<1>4. CASE cadence = "weekly"
  <2>1. date' = date + 7
    BY <1>1, <1>4, WeekOn
  <2>2. date' = chosen + 7 * periods'
    BY <1>1, <1>4, <2>1 DEF InCalendar
  <2>3. InCalendar(date')
    <3>1. date + 7 \in date .. date + 1000
      BY <1>2
    <3> QED
      BY <1>1, <2>1, <3>1, ThreeYearsLeft
  <2> QED
    BY <1>1, <1>3, <1>4, <2>2, <2>3
<1>5. CASE cadence # "weekly"
  <2> DEFINE day == IF anchor = NoAnchor THEN DayOf(date) ELSE anchor
             k == MonthsIn(cadence)
             i == MonthOf(date) + k
  <2>1. DayOf(date) \in 1 .. 31 /\ DayOf(chosen) \in 1 .. 31
    BY DayIs
  <2>2. day \in 1 .. 31 /\ anchor \in 0 .. 31
    BY <2>1 DEF NoAnchor
  <2>3. k \in {1, 12}
    BY <1>5 DEF MonthsIn
  <2>4. MonthOf(date) + k <= EndOfTime - 1
    <3> HIDE DEF k
    <3> QED
      BY <1>2, <2>3
  <2>5. date' = Target(date, cadence, day)
    BY <1>1, <1>5, <2>2, <2>4, MonthsOn
  <2>6. InCalendar(date') /\ MonthOf(date') = i /\ DayOf(date') = Min({day, LengthOf(i)})
    BY <1>5, <2>2, <2>4, <2>5, TargetIs
  <2>7. MonthOf(date') = MonthOf(chosen) + periods' * k
    <3>1. MonthOf(chosen) \in Int /\ MonthOf(date) \in Int /\ periods \in Int
      BY InMonth, CalendarSpans, CadenceAssumption
    <3>2. MonthOf(date) = MonthOf(chosen) + periods * k
      BY <1>5
    <3> HIDE DEF k
    <3>3. MonthOf(date) + k = MonthOf(chosen) + (periods + 1) * k
      BY <2>3, <3>1, <3>2
    <3> QED
      BY <1>1, <2>6, <3>3
  <2>8. /\ Min({day, LengthOf(i)}) \in 1 .. LengthOf(i)
        /\ Min({day, LengthOf(i)}) <= day
        /\ Min({day, LengthOf(i)}) < day => Min({day, LengthOf(i)}) >= 28
        /\ LengthOf(i) \in 28 .. 31
    BY <2>2, ClampedIs, LengthIs
  <2>9. day <= DayOf(chosen) /\ (day < DayOf(chosen) => day >= 28)
        /\ (anchor # NoAnchor => day = DayOf(chosen))
    <3>1. CASE anchor = NoAnchor
      BY <1>5, <3>1
    <3>2. CASE anchor # NoAnchor
      BY <2>1, <3>2
    <3> QED
      BY <3>1, <3>2
  <2> HIDE DEF day, i
  <2> DEFINE new == Min({day, LengthOf(i)})
  <2>10. new <= DayOf(chosen) /\ (new < DayOf(chosen) => new >= 28)
    <3> HIDE DEF new
    <3>1. new \in Int /\ day \in Int /\ DayOf(chosen) \in Int
          /\ new <= day /\ (new < day => new >= 28)
      BY <2>1, <2>2, <2>8 DEF new
    <3> QED
      BY <2>9, <3>1
  <2>11. anchor # NoAnchor => new = Min({DayOf(chosen), LengthOf(i)})
    BY <2>9
  <2>12. DayOf(date') = new
    BY <2>6
  <2>13. k = MonthsIn(cadence')
    BY <1>1
  <2> HIDE DEF new, k
  <2>14. /\ InCalendar(date') /\ InCalendar(chosen')
         /\ cadence' \in Cadences
         /\ patches' \in 0 .. MaxPatches
         /\ anchor' = NoAnchor \/ anchor' = DayOf(chosen')
         /\ cadence' # "weekly"
    BY <1>1, <1>5, <2>6
  <2>15. /\ MonthOf(date') = MonthOf(chosen') + periods' * MonthsIn(cadence')
         /\ anchor' # NoAnchor => DayOf(date') = Min({DayOf(chosen'), LengthOf(MonthOf(date'))})
         /\ DayOf(date') <= DayOf(chosen')
         /\ DayOf(date') < DayOf(chosen') => DayOf(date') >= 28
    BY <1>1, <2>6, <2>7, <2>10, <2>11, <2>12, <2>13
  <2> QED
    BY <1>3, <2>14, <2>15
<1> QED
  BY <1>4, <1>5

LEMMA OnCourseNext ==
  ASSUME OnCourse, [CadenceNext]_cadenceVars
  PROVE  OnCourse'
<1>1. CASE AdvanceDate
  BY <1>1, OnCourseAdvance
<1>2. ASSUME NEW c \in Cadences, PatchCadence(c)
      PROVE  OnCourse'
  <2>1. /\ patches < MaxPatches /\ patches' = patches + 1 /\ cadence' = c
        /\ anchor' = DayOf(date) /\ chosen' = date /\ periods' = 0 /\ date' = date
    BY <1>2 DEF PatchCadence
  <2>2. patches' \in 0 .. MaxPatches /\ periods' \in 0 .. MaxPeriods
    BY <2>1, CadenceAssumption DEF OnCourse
  <2> QED
    BY <2>1, <2>2, Chosen DEF OnCourse
<1>3. ASSUME NEW c \in Cadences, NEW back \in {1, 3, 30}, date > back, PatchDate(date - back, c)
      PROVE  OnCourse'
  <2> DEFINE n == date - back
  <2>1. /\ patches < MaxPatches /\ patches' = patches + 1 /\ cadence' = c
        /\ anchor' = DayOf(n) /\ chosen' = n /\ periods' = 0 /\ date' = n
    BY <1>3 DEF PatchDate
  <2>2. patches' \in 0 .. MaxPatches /\ periods' \in 0 .. MaxPeriods
    BY <2>1, CadenceAssumption DEF OnCourse
  <2>3. InCalendar(n)
    <3>1. EndOfTime \in FirstMonth .. EndOfTime /\ 0 \in Nat /\ EndOfTime + 0 <= EndOfTime
      BY CalendarSpans
    <3>2. FirstOf[EndOfTime] \in Nat
      BY <3>1, MonthsApart
    <3> QED
      BY <1>3, <3>2 DEF OnCourse, InCalendar
  <2> HIDE DEF n
  <2> QED
    BY <2>1, <2>2, <2>3, Chosen DEF OnCourse
<1>4. CASE UNCHANGED cadenceVars
  BY <1>4 DEF OnCourse, cadenceVars
<1> QED
  BY <1>1, <1>2, <1>3, <1>4 DEF CadenceNext

LEMMA StaysOnCourse == CadenceSpec => []OnCourse
<1>1. CadenceInit => OnCourse
  BY OnCourseInit
<1>2. OnCourse /\ [CadenceNext]_cadenceVars => OnCourse'
  BY OnCourseNext
<1> QED
  BY <1>1, <1>2, PTL DEF CadenceSpec

\* The fields of a schedule, and the day its user chose, keep their types: the anchor
\* that create() and update() take is a day of the month.
THEOREM CadenceTypes == CadenceSpec => []CadenceTypeOK
<1>1. ASSUME OnCourse PROVE CadenceTypeOK
  <2>1. DayOf(chosen) \in 1 .. 31
    BY <1>1, DayIs DEF OnCourse
  <2> QED
    BY <1>1, <2>1 DEF OnCourse, CadenceTypeOK, InCalendar, NoAnchor
<1> QED
  BY <1>1, StaysOnCourse, PTL

\* However often advanceSchedule() stepped it, through whatever short months and edits,
\* an anchored schedule's nextDate is the occurrence that the chosen date implies.
THEOREM NeverDrifts == CadenceSpec => []NoDrift
<1>1. ASSUME OnCourse, anchor # NoAnchor PROVE date = Nth(chosen, cadence, periods)
  <2>1. CASE cadence = "weekly"
    BY <1>1, <2>1 DEF OnCourse, Nth
  <2>2. CASE cadence # "weekly"
    <3>1. date = FirstOf[MonthOf(date)] + DayOf(date) - 1
      BY <1>1, InMonth DEF OnCourse
    <3>2. /\ MonthOf(date) = MonthOf(chosen) + periods * MonthsIn(cadence)
          /\ DayOf(date) = Min({DayOf(chosen), LengthOf(MonthOf(date))})
      BY <1>1, <2>2 DEF OnCourse
    <3>3. Nth(chosen, cadence, periods)
            = FirstOf[MonthOf(chosen) + periods * MonthsIn(cadence)]
              + Min({DayOf(chosen), LengthOf(MonthOf(chosen) + periods * MonthsIn(cadence))}) - 1
      BY <2>2 DEF Nth
    <3> QED
      BY <3>1, <3>2, <3>3
  <2> QED
    BY <2>1, <2>2
<1>2. OnCourse => NoDrift
  BY <1>1 DEF NoDrift
<1> QED
  BY <1>2, StaysOnCourse, PTL

\* A schedule from before the anchor skips no month, and falls from the end of the
\* month to the 28th at worst: addCadence() without an anchor day.
THEOREM LegacyDriftsOnce == CadenceSpec => []LegacyDriftBounded
<1>1. OnCourse => LegacyDriftBounded
  BY DEF OnCourse, LegacyDriftBounded
<1> QED
  BY <1>1, StaysOnCourse, PTL

-----------------------------------------------------------------------------
(* Rolling a date to today.                                                *)

Rolls(w, step, n, now, top) ==
  w = [d \in n .. top |-> IF d >= now THEN d ELSE w[step[d]]]

\* Steps that go forward but not beyond the top are a well-founded recursion.
LEMMA WalkExists ==
  ASSUME NEW n \in Nat, NEW now \in Nat, NEW top \in Nat, now <= top, n <= now, NEW step,
         \A d \in n .. now - 1 : step[d] \in d + 1 .. top
  PROVE  \E w : Rolls(w, step, n, now, top)
<1> DEFINE Wrong == {k \in Nat : k <= now - n /\ ~ \E w : Rolls(w, step, now - k, now, top)}
<1>1. ASSUME Wrong # {} PROVE FALSE
  <2>1. PICK k \in Wrong : \A j \in Wrong : k <= j
    BY <1>1, LeastElement
  <2> DEFINE b == now - k
  <2>0. b \in Nat /\ n <= b /\ b <= now /\ k \in Nat /\ k <= now - n
    OBVIOUS
  <2>2. CASE k = 0
    <3> DEFINE w == [d \in now .. top |-> d]
    <3>1. \A d \in now .. top : d >= now
      OBVIOUS
    <3>2. Rolls(w, step, now, now, top)
      BY <3>1 DEF Rolls
    <3>3. now - k = now
      BY <2>2
    <3> QED
      BY <3>2, <3>3
  <2>3. CASE k # 0
    <3>1. k - 1 \in Nat /\ k - 1 <= now - n /\ ~(k <= k - 1) /\ now - (k - 1) = b + 1
      BY <2>0, <2>3
    <3>2. PICK v : Rolls(v, step, b + 1, now, top)
      <4>1. k - 1 \notin Wrong
        BY <2>1, <3>1
      <4>2. \E v : Rolls(v, step, now - (k - 1), now, top)
        BY <3>1, <4>1
      <4> HIDE DEF b
      <4> QED
        BY <3>1, <4>2
    <3>3. b < now
      BY <2>0, <2>3
    <3> HIDE DEF b, Wrong
    <3> DEFINE w == [d \in b .. top |-> IF d = b THEN v[step[b]] ELSE v[d]]
    <3>4. ASSUME NEW d \in b .. top
          PROVE  w[d] = IF d >= now THEN d ELSE w[step[d]]
      <4>1. CASE d = b
        <5>1. step[b] \in b + 1 .. top
          BY <2>0, <3>3
        <5>2. step[b] \in b .. top /\ step[b] # b
          BY <2>0, <5>1
        <5>3. ~(b >= now)
          BY <2>0, <3>3
        <5> QED
          BY <4>1, <5>2, <5>3
      <4>2. CASE d # b
        <5>1. d \in b + 1 .. top /\ d \in Nat
          BY <2>0, <4>2
        <5>2. v[d] = IF d >= now THEN d ELSE v[step[d]]
          BY <3>2, <5>1 DEF Rolls
        <5>3. ASSUME ~(d >= now) PROVE step[d] \in b .. top /\ step[d] # b
          <6>1. d \in n .. now - 1
            BY <2>0, <5>1, <5>3
          <6>2. step[d] \in d + 1 .. top
            BY <6>1
          <6> QED
            BY <2>0, <5>1, <6>2
        <5> QED
          BY <4>2, <5>2, <5>3
      <4> QED
        BY <4>1, <4>2
    <3>5. Rolls(w, step, b, now, top)
      BY <3>4 DEF Rolls
    <3> QED
      BY <2>1, <3>5 DEF Wrong, b
  <2> QED
    BY <2>2, <2>3
<1>2. now - n \in Nat /\ now - n <= now - n /\ now - (now - n) = n
  OBVIOUS
<1>3. \E w : Rolls(w, step, now - (now - n), now, top)
  BY <1>1, <1>2
<1> QED
  BY <1>2, <1>3

\* Occurrence k from day n on, for the anchor day `day`.
Occ(n, c, day, k) ==
  IF c = "weekly" THEN n + 7 * k
  ELSE Utc(MonthOf(n) + k * MonthsIn(c), Min({day, LengthOf(MonthOf(n) + k * MonthsIn(c))}))

\* The occurrence of month i.
InMonthOn(i, day) == Utc(i, Min({day, LengthOf(i)}))

LEMMA InMonthOnIs ==
  ASSUME NEW i \in FirstMonth .. EndOfTime - 1, NEW day \in 1 .. 31
  PROVE  /\ InCalendar(InMonthOn(i, day)) /\ MonthOf(InMonthOn(i, day)) = i
         /\ InMonthOn(i, day) \in Nat
         /\ FirstOf[i] \in Nat /\ FirstOf[i] <= InMonthOn(i, day)
<1>1. Min({day, LengthOf(i)}) \in 1 .. LengthOf(i) /\ LengthOf(i) \in 28 .. 31
  BY ClampedIs, LengthIs
<1>2. /\ InCalendar(InMonthOn(i, day)) /\ MonthOf(InMonthOn(i, day)) = i
      /\ InMonthOn(i, day) = FirstOf[i] + Min({day, LengthOf(i)}) - 1
  BY <1>1, UtcIs DEF InMonthOn
<1>3. i \in FirstMonth .. EndOfTime /\ 0 \in Nat /\ i + 0 <= EndOfTime
  BY CalendarSpans
<1>4. FirstOf[i] \in Nat
  BY <1>3, MonthsApart
<1> QED
  BY <1>1, <1>2, <1>4 DEF InCalendar

Leads(n, c, day, now) ==
  \E last \in 1 .. 29 :
    /\ Occ(n, c, day, last) >= now
    /\ \A k \in 0 .. last : Occ(n, c, day, k) \in Nat
    /\ \A k \in 0 .. last - 1 : Occ(n, c, day, k) < now =>
         AddCadence(Occ(n, c, day, k), c, day) = Occ(n, c, day, k + 1)

\* From a day there is room for, each occurrence before `now` leads to the next, and
\* within 29 periods one is not before it.
LEMMA OccurrencesLead ==
  ASSUME NEW n, InCalendar(n), Room(n), NEW c \in Cadences, NEW day \in 1 .. 31,
         c # "weekly" => DayOf(n) = Min({day, LengthOf(MonthOf(n))}),
         NEW now \in n + 1 .. n + 200
  PROVE  /\ Occ(n, c, day, 0) = n
         /\ Leads(n, c, day, now)
<1>1. /\ MonthOf(n) \in FirstMonth .. EndOfTime - 1 /\ n = FirstOf[MonthOf(n)] + DayOf(n) - 1
      /\ n \in Nat /\ FirstMonth \in Nat /\ EndOfTime = 12 * LastYear + 36 /\ LastYear \in Nat
      /\ DayOf(n) \in 1 .. 31 /\ day \in 0 .. 31 /\ day # NoAnchor
  BY InMonth, DayIs, CalendarSpans, CadenceAssumption DEF InCalendar, NoAnchor
<1>2. n < n + 200 /\ now \in Nat
  BY <1>1
<1>3. CASE c = "weekly"
  <2>1. \A k \in Nat : Occ(n, c, day, k) = n + 7 * k
    BY <1>3 DEF Occ
  <2>2. ASSUME NEW k \in 0 .. 28
        PROVE  AddCadence(Occ(n, c, day, k), c, day) = Occ(n, c, day, k + 1)
    <3>1. k \in Nat /\ k + 1 \in Nat /\ n + 7 * k \in n .. n + 1000
      BY <1>1
    <3>2. InCalendar(n + 7 * k)
      BY <3>1, ThreeYearsLeft
    <3>3. AddCadence(n + 7 * k, c, day) = n + 7 * k + 7
      BY <1>3, <3>2, WeekOn
    <3>4. n + 7 * k + 7 = n + 7 * (k + 1)
      BY <1>1
    <3> QED
      BY <2>1, <3>1, <3>3, <3>4
  <2>3. Occ(n, c, day, 0) = n
    BY <1>1, <2>1
  <2>4. Occ(n, c, day, 29) >= now
    BY <1>1, <2>1
  <2>5. \A k \in 0 .. 29 : Occ(n, c, day, k) \in Nat
    BY <1>1, <2>1
  <2>6. 29 \in 1 .. 29 /\ 29 - 1 = 28
    OBVIOUS
  <2> QED
    BY <2>2, <2>3, <2>4, <2>5, <2>6 DEF Leads
<1>4. CASE c # "weekly"
  <2> DEFINE m == MonthOf(n)
             p == MonthsIn(c)
  <2>0. p \in Nat /\ (p = 1 \/ p = 12)
    BY DEF MonthsIn
  <2>1. m \in Nat /\ m \in FirstMonth .. EndOfTime - 1 /\ m < 12 * LastYear + 8
        /\ n = FirstOf[m] + DayOf(n) - 1
    BY <1>1, <1>2, RoomAhead
  <2>2. \A k : Occ(n, c, day, k) = InMonthOn(m + k * p, day)
    BY <1>4 DEF Occ, InMonthOn
  <2>3. n = InMonthOn(m, day)
    BY <1>1, <1>4 DEF Utc, InMonthOn
  <2> HIDE DEF m, p
  <2>4. Occ(n, c, day, 0) = n
    <3>1. m + 0 * p = m
      BY <2>0, <2>1
    <3> QED
      BY <2>2, <2>3, <3>1
  <2>5. ASSUME NEW i \in m .. m + 12, InMonthOn(i, day) < now
        PROVE  AddCadence(InMonthOn(i, day), c, day) = InMonthOn(i + p, day)
    <3>1. i \in FirstMonth .. EndOfTime - 1
      BY <1>1, <2>1
    <3>2. InCalendar(InMonthOn(i, day)) /\ MonthOf(InMonthOn(i, day)) = i
          /\ InMonthOn(i, day) \in Nat
      BY <3>1, InMonthOnIs
    <3>3. InMonthOn(i, day) < n + 200
      BY <1>1, <1>2, <2>5, <3>2
    <3>4. i < 12 * LastYear + 8
      BY <3>2, <3>3, RoomAhead
    <3>5. i + p <= EndOfTime - 1
      BY <1>1, <2>0, <3>1, <3>4
    <3>6. MonthOf(InMonthOn(i, day)) + MonthsIn(c) <= EndOfTime - 1
      BY <3>2, <3>5 DEF p
    <3>7. AddCadence(InMonthOn(i, day), c, day)
            = Target(InMonthOn(i, day), c,
                     IF day = NoAnchor THEN DayOf(InMonthOn(i, day)) ELSE day)
      BY <1>1, <1>4, <3>2, <3>6, MonthsOn
    <3>8. AddCadence(InMonthOn(i, day), c, day) = Target(InMonthOn(i, day), c, day)
      BY <1>1, <3>7
    <3>9. Target(InMonthOn(i, day), c, day) = InMonthOn(i + p, day)
      BY <3>2 DEF Target, InMonthOn, p
    <3> QED
      BY <3>8, <3>9
  <2>6. ASSUME NEW j \in 9 .. 12
        PROVE  InMonthOn(m + j, day) >= n + 200 /\ InMonthOn(m + j, day) \in Nat
    <3>1. m + j \in FirstMonth .. EndOfTime - 1 /\ m \in FirstMonth .. EndOfTime /\ j \in Nat
          /\ m + j <= EndOfTime
      BY <1>1, <2>1
    <3>2. FirstOf[m] \in Nat /\ FirstOf[m + j] \in Nat /\ FirstOf[m] + 28 * j <= FirstOf[m + j]
      BY <3>1, MonthsApart
    <3>3. InMonthOn(m + j, day) \in Nat /\ FirstOf[m + j] <= InMonthOn(m + j, day)
      BY <3>1, InMonthOnIs
    <3> QED
      BY <1>1, <2>1, <3>2, <3>3
  <2>7. \A k \in 0 .. 12 : InMonthOn(m + k, day) \in Nat
    <3> TAKE k \in 0 .. 12
    <3>1. m + k \in FirstMonth .. EndOfTime - 1
      BY <1>1, <2>1
    <3> QED
      BY <3>1, InMonthOnIs
  <2>8. CASE p = 1
    <3>1. \A k \in 0 .. 10 : Occ(n, c, day, k) = InMonthOn(m + k, day)
      <4>1. \A k \in 0 .. 10 : m + k * p = m + k
        BY <2>1, <2>8
      <4> QED
        BY <2>2, <4>1
    <3>2. Occ(n, c, day, 9) >= now
      <4>1. InMonthOn(m + 9, day) >= n + 200 /\ InMonthOn(m + 9, day) \in Nat
        BY <2>6
      <4> QED
        BY <1>1, <1>2, <3>1, <4>1
    <3>3. \A k \in 0 .. 9 : Occ(n, c, day, k) \in Nat
      <4>1. \A k \in 0 .. 9 : k \in 0 .. 10 /\ k \in 0 .. 12
        OBVIOUS
      <4> QED
        BY <2>7, <3>1, <4>1
    <3>4. ASSUME NEW k \in 0 .. 8, Occ(n, c, day, k) < now
          PROVE  AddCadence(Occ(n, c, day, k), c, day) = Occ(n, c, day, k + 1)
      <4>1. m + k \in m .. m + 12 /\ k \in 0 .. 10 /\ k + 1 \in 0 .. 10 /\ (m + k) + p = m + (k + 1)
        BY <2>1, <2>8
      <4>2. Occ(n, c, day, k) = InMonthOn(m + k, day)
            /\ Occ(n, c, day, k + 1) = InMonthOn(m + (k + 1), day)
        BY <3>1, <4>1
      <4>3. AddCadence(InMonthOn(m + k, day), c, day) = InMonthOn((m + k) + p, day)
        BY <2>5, <3>4, <4>1, <4>2
      <4> QED
        BY <4>1, <4>2, <4>3
    <3>5. 9 \in 1 .. 29 /\ 9 - 1 = 8
      OBVIOUS
    <3> QED
      BY <2>4, <3>2, <3>3, <3>4, <3>5 DEF Leads
  <2>9. CASE p = 12
    <3>1. Occ(n, c, day, 1) = InMonthOn(m + 12, day)
      <4>1. m + 1 * p = m + 12
        BY <2>1, <2>9
      <4> QED
        BY <2>2, <4>1
    <3>2. Occ(n, c, day, 1) >= now /\ Occ(n, c, day, 1) \in Nat
      <4>1. InMonthOn(m + 12, day) >= n + 200 /\ InMonthOn(m + 12, day) \in Nat
        BY <2>6
      <4> QED
        BY <1>1, <1>2, <3>1, <4>1
    <3>3. n < now => AddCadence(n, c, day) = Occ(n, c, day, 1)
      <4>1. m \in m .. m + 12 /\ m + p = m + 12
        BY <2>1, <2>9
      <4>2. n < now => AddCadence(InMonthOn(m, day), c, day) = InMonthOn(m + p, day)
        BY <2>3, <2>5, <4>1
      <4> QED
        BY <2>3, <3>1, <4>1, <4>2
    <3>4. /\ \A k \in 0 .. 1 : k = 0 \/ k = 1
          /\ \A k \in 0 .. 0 : k = 0
          /\ 1 \in 1 .. 29 /\ 1 - 1 = 0 /\ 0 + 1 = 1
      OBVIOUS
    <3>5. \A k \in 0 .. 1 : Occ(n, c, day, k) \in Nat
      BY <1>1, <2>4, <3>2, <3>4
    <3>6. \A k \in 0 .. 1 - 1 : Occ(n, c, day, k) < now =>
            AddCadence(Occ(n, c, day, k), c, day) = Occ(n, c, day, k + 1)
      BY <2>4, <3>3, <3>4
    <3> QED
      BY <2>4, <3>2, <3>4, <3>5, <3>6 DEF Leads
  <2> QED
    BY <2>0, <2>8, <2>9
<1> QED
  BY <1>3, <1>4

\* A step forward of at most the longest period.
LEMMA StepIs ==
  ASSUME NEW n, InCalendar(n), Room(n), NEW c \in Cadences, NEW day \in 1 .. 31,
         NEW now \in n + 1 .. n + 200, NEW d \in n .. now - 1
  PROVE  AddCadence(d, c, day) \in d + 1 .. now + LongestPeriod
<1>1. n \in Nat /\ LastYear \in Nat /\ EndOfTime = 12 * LastYear + 36 /\ day \in 0 .. 31
      /\ day # NoAnchor /\ LongestPeriod = 403
  BY CalendarSpans, CadenceAssumption DEF InCalendar, NoAnchor, LongestPeriod
<1>2. d \in n .. n + 1000 /\ d < n + 200 /\ d \in Nat
  BY <1>1
<1>3. InCalendar(d)
  BY <1>2, ThreeYearsLeft
<1>4. CASE c = "weekly"
  <2>1. AddCadence(d, c, day) = d + 7
    BY <1>3, <1>4, WeekOn
  <2> QED
    BY <1>1, <1>2, <2>1
<1>5. CASE c # "weekly"
  <2>1. MonthOf(d) < 12 * LastYear + 8 /\ MonthOf(d) \in Nat
    BY <1>2, <1>3, RoomAhead, InMonth, CalendarSpans
  <2>2. MonthsIn(c) \in {1, 12}
    BY DEF MonthsIn
  <2>3. MonthOf(d) + MonthsIn(c) <= EndOfTime - 1
    BY <1>1, <2>1, <2>2
  <2>4. AddCadence(d, c, day) = Target(d, c, IF day = NoAnchor THEN DayOf(d) ELSE day)
    BY <1>1, <1>3, <1>5, <2>3, MonthsOn
  <2>5. AddCadence(d, c, day) = Target(d, c, day)
    BY <1>1, <2>4
  <2>6. InCalendar(Target(d, c, day)) /\ d < Target(d, c, day) /\ Target(d, c, day) < d + LongestPeriod
    BY <1>3, <1>5, <2>3, TargetIs
  <2> QED
    BY <1>1, <1>2, <2>5, <2>6 DEF InCalendar
<1> QED
  BY <1>4, <1>5

\* settleTrackedSubscriptionDate() stops at the first occurrence that is not before
\* the day.
LEMMA SettlesFirst ==
  ASSUME NEW n, InCalendar(n), Room(n), NEW c \in Cadences, NEW a \in 0 .. 31,
         NEW day \in 1 .. 31, day = IF a = NoAnchor THEN DayOf(n) ELSE a,
         c # "weekly" => DayOf(n) = Min({day, LengthOf(MonthOf(n))}),
         NEW now \in n + 1 .. n + 200
  PROVE  /\ SettleDate(n, c, a, now) >= now
         /\ \E k \in 1 .. 29 : /\ SettleDate(n, c, a, now) = Occ(n, c, day, k)
                               /\ Occ(n, c, day, k - 1) < now
<1>0. Occ(n, c, day, 0) = n /\ Leads(n, c, day, now)
  BY OccurrencesLead
<1> DEFINE top == now + LongestPeriod
           step == [d \in n .. now - 1 |-> AddCadence(d, c, day)]
           walk == CHOOSE w : w = [d \in n .. top |->
                                     IF d >= now THEN d ELSE w[AddCadence(d, c, day)]]
<1>1. n \in Nat /\ now \in Nat /\ top \in Nat /\ now <= top /\ n <= now
  BY DEF InCalendar, LongestPeriod
<1>2. \A d \in n .. now - 1 : AddCadence(d, c, day) \in d + 1 .. top
  BY StepIs
<1>3. SettleDate(n, c, a, now) = walk[n]
  BY DEF SettleDate
<1>4. walk = [d \in n .. top |-> IF d >= now THEN d ELSE walk[AddCadence(d, c, day)]]
  <2>1. \A d \in n .. now - 1 : step[d] \in d + 1 .. top
    BY <1>2
  <2> HIDE DEF step, top
  <2>2. \E w : Rolls(w, step, n, now, top)
    BY <1>1, <2>1, WalkExists
  <2>3. ASSUME NEW w, Rolls(w, step, n, now, top)
        PROVE  w = [d \in n .. top |-> IF d >= now THEN d ELSE w[AddCadence(d, c, day)]]
    <3>1. \A d \in n .. top : ~(d >= now) => d \in n .. now - 1
      BY <1>1
    <3>2. \A d \in n .. top : ~(d >= now) => step[d] = AddCadence(d, c, day)
      BY <3>1 DEF step
    <3> QED
      BY <2>3, <3>2 DEF Rolls
  <2>4. \E w : w = [d \in n .. top |-> IF d >= now THEN d ELSE w[AddCadence(d, c, day)]]
    BY <2>2, <2>3
  <2> QED
    BY <2>4
<1> HIDE DEF walk
<1>5. \A d \in n .. top : walk[d] = IF d >= now THEN d ELSE walk[AddCadence(d, c, day)]
  BY <1>4
<1> DEFINE At(k) == Occ(n, c, day, k)
<1>6. /\ At(0) = n
      /\ \E last \in 1 .. 29 :
           /\ At(last) >= now
           /\ \A k \in 0 .. last : At(k) \in Nat
           /\ \A k \in 0 .. last - 1 : At(k) < now => AddCadence(At(k), c, day) = At(k + 1)
  BY <1>0 DEF Leads
<1> HIDE DEF At
<1>7. PICK last \in 1 .. 29 :
        /\ At(last) >= now
        /\ \A k \in 0 .. last : At(k) \in Nat
        /\ \A k \in 0 .. last - 1 : At(k) < now => AddCadence(At(k), c, day) = At(k + 1)
  BY <1>6
<1> HIDE DEF top
<1> DEFINE Reached == {k \in Nat : k <= last /\ At(k) >= now}
<1>8. PICK k \in Reached : \A j \in Reached : k <= j
  <2>1. last \in Reached /\ Reached \in SUBSET Nat /\ Reached # {}
    BY <1>7
  <2> HIDE DEF Reached
  <2> QED
    BY <2>1, LeastElement
<1>9. k \in 1 .. 29 /\ k \in 0 .. last /\ At(k) >= now
  <2>1. k # 0
    BY <1>1, <1>6, <1>8
  <2> QED
    BY <1>8, <2>1
<1>10. ASSUME NEW j \in 0 .. k - 1
       PROVE  At(j) < now /\ At(j) \in Nat /\ AddCadence(At(j), c, day) = At(j + 1)
  <2>1. j \in Nat /\ j <= last /\ ~(k <= j) /\ j \in 0 .. last /\ j \in 0 .. last - 1
    BY <1>9
  <2>2. j \notin Reached
    BY <1>8, <2>1
  <2>3. ~(At(j) >= now) /\ At(j) \in Nat
    BY <1>7, <2>1, <2>2
  <2>4. At(j) < now
    BY <1>1, <2>3
  <2> QED
    BY <1>7, <2>1, <2>3, <2>4
<1>11. ASSUME NEW j \in 0 .. k
       PROVE  walk[At(j)] = walk[n] /\ At(j) >= n
  <2> DEFINE Off == {i \in Nat : i <= k /\ ~(walk[At(i)] = walk[n] /\ At(i) >= n)}
  <2>1. ASSUME Off # {} PROVE FALSE
    <3>1. PICK i \in Off : \A h \in Off : i <= h
      BY <2>1, LeastElement
    <3>2. i # 0
      BY <1>1, <1>6
    <3>3. i - 1 \in Nat /\ i - 1 <= k /\ ~(i <= i - 1) /\ i - 1 \in 0 .. k - 1 /\ (i - 1) + 1 = i
      BY <1>9, <3>2
    <3>4. walk[At(i - 1)] = walk[n] /\ At(i - 1) >= n
      BY <3>1, <3>3
    <3>5. At(i - 1) < now /\ At(i - 1) \in Nat /\ AddCadence(At(i - 1), c, day) = At(i)
      BY <1>10, <3>3
    <3>6. At(i - 1) \in n .. now - 1 /\ At(i - 1) \in n .. top /\ ~(At(i - 1) >= now)
      BY <1>1, <3>4, <3>5
    <3>7. walk[At(i - 1)] = walk[At(i)]
      BY <1>5, <3>5, <3>6
    <3>8. At(i) \in At(i - 1) + 1 .. top
      BY <1>2, <3>5, <3>6
    <3>9. At(i) >= n
      BY <1>1, <3>4, <3>5, <3>8
    <3> QED
      BY <3>1, <3>4, <3>7, <3>9
  <2>2. j \in Nat /\ j <= k
    BY <1>9
  <2> QED
    BY <2>1, <2>2
<1>12. At(k) \in n .. top
  <2>1. k - 1 \in 0 .. k - 1 /\ k - 1 \in 0 .. k /\ (k - 1) + 1 = k
    BY <1>9
  <2>2. At(k - 1) < now /\ At(k - 1) \in Nat /\ AddCadence(At(k - 1), c, day) = At(k)
        /\ At(k - 1) >= n
    BY <1>10, <1>11, <2>1
  <2>3. At(k - 1) \in n .. now - 1
    BY <1>1, <2>2
  <2>4. At(k) \in At(k - 1) + 1 .. top
    BY <1>2, <2>2, <2>3
  <2> QED
    BY <1>1, <2>2, <2>4
<1>13. walk[n] = At(k)
  <2>1. k \in 0 .. k
    BY <1>9
  <2>2. walk[At(k)] = walk[n]
    BY <1>11, <2>1
  <2>3. walk[At(k)] = At(k)
    BY <1>5, <1>9, <1>12
  <2> QED
    BY <2>2, <2>3
<1>14. At(k - 1) < now
  <2>1. k - 1 \in 0 .. k - 1
    BY <1>9
  <2> QED
    BY <1>10, <2>1
<1> QED
  BY <1>3, <1>9, <1>13, <1>14 DEF At

\* The occurrences from the stored date on are those of the chosen one.
LEMMA SameOccurrences ==
  ASSUME OnCourse, anchor # NoAnchor, NEW k \in Nat
  PROVE  Nth(chosen, cadence, periods + k) = Occ(date, cadence, DayOf(chosen), k)
<1>1. periods \in Nat /\ chosen \in Nat /\ MonthOf(chosen) \in Int
  BY InMonth, CalendarSpans, CadenceAssumption DEF OnCourse, InCalendar
<1>2. CASE cadence = "weekly"
  <2>1. date = chosen + 7 * periods
    BY <1>2 DEF OnCourse
  <2> QED
    BY <1>1, <1>2, <2>1 DEF Nth, Occ
<1>3. CASE cadence # "weekly"
  <2> DEFINE p == MonthsIn(cadence)
  <2>1. p \in Nat /\ (p = 1 \/ p = 12)
    BY DEF MonthsIn
  <2>2. MonthOf(date) = MonthOf(chosen) + periods * p
    BY <1>3 DEF OnCourse
  <2>3. Nth(chosen, cadence, periods + k)
          = Utc(MonthOf(chosen) + (periods + k) * p,
                Min({DayOf(chosen), LengthOf(MonthOf(chosen) + (periods + k) * p)}))
    BY <1>3 DEF Nth, Utc
  <2>4. Occ(date, cadence, DayOf(chosen), k)
          = Utc(MonthOf(date) + k * p, Min({DayOf(chosen), LengthOf(MonthOf(date) + k * p)}))
    BY <1>3 DEF Occ
  <2> HIDE DEF p
  <2>5. MonthOf(chosen) + (periods + k) * p = MonthOf(date) + k * p
    BY <1>1, <2>1, <2>2
  <2> QED
    BY <2>3, <2>4, <2>5
<1> QED
  BY <1>2, <1>3

\* A start date is settled on the first occurrence that is not past, and reminders
\* cover exactly the days before the due day: isInReminderWindow(),
\* settleTrackedSubscriptionDate().
THEOREM OnTime == CadenceSpec => []Punctual
<1>1. ASSUME OnCourse, Room(date), NEW late \in {1, 27, 31, 59, 200}
      PROVE  LET now == date + late
                 settled == SettleDate(date, cadence, anchor, now)
             IN  /\ settled >= now
                 /\ anchor # NoAnchor =>
                      \E k \in 1 .. 200 \div 7 + 1 :
                        /\ settled = Nth(chosen, cadence, periods + k)
                        /\ Nth(chosen, cadence, periods + k - 1) < now
  <2> DEFINE now == date + late
             day == IF anchor = NoAnchor THEN DayOf(date) ELSE anchor
             settled == SettleDate(date, cadence, anchor, now)
  <2>1. date \in Nat /\ InCalendar(date) /\ InCalendar(chosen) /\ cadence \in Cadences
        /\ periods \in Nat
    BY <1>1, CadenceAssumption DEF OnCourse, InCalendar
  <2>2. now \in date + 1 .. date + 200
    BY <2>1
  <2>3. DayOf(date) \in 1 .. 31 /\ DayOf(chosen) \in 1 .. 31
    BY <2>1, DayIs
  <2>4. anchor \in 0 .. 31 /\ day \in 1 .. 31
    BY <1>1, <2>3 DEF OnCourse, NoAnchor
  <2>5. cadence # "weekly" => DayOf(date) = Min({day, LengthOf(MonthOf(date))})
    <3>1. CASE anchor = NoAnchor
      BY <2>1, <3>1, Chosen
    <3>2. CASE anchor # NoAnchor
      BY <1>1, <3>2 DEF OnCourse
    <3> QED
      BY <3>1, <3>2
  <2>6. /\ settled >= now
        /\ \E k \in 1 .. 29 : /\ settled = Occ(date, cadence, day, k)
                              /\ Occ(date, cadence, day, k - 1) < now
    <3> HIDE DEF now
    <3> QED
      BY <1>1, <2>1, <2>2, <2>4, <2>5, SettlesFirst
  <2> HIDE DEF now, settled
  <2>7. ASSUME anchor # NoAnchor
        PROVE  \E k \in 1 .. 200 \div 7 + 1 :
                 /\ settled = Nth(chosen, cadence, periods + k)
                 /\ Nth(chosen, cadence, periods + k - 1) < now
    <3>1. PICK k \in 1 .. 29 : settled = Occ(date, cadence, day, k)
                               /\ Occ(date, cadence, day, k - 1) < now
      BY <2>6
    <3>2. day = DayOf(chosen)
      BY <1>1, <2>7 DEF OnCourse
    <3>3. k \in Nat /\ k - 1 \in Nat /\ periods + k - 1 = periods + (k - 1)
          /\ k \in 1 .. 200 \div 7 + 1
      BY <2>1
    <3>4. /\ Nth(chosen, cadence, periods + k) = Occ(date, cadence, day, k)
          /\ Nth(chosen, cadence, periods + (k - 1)) = Occ(date, cadence, day, k - 1)
      BY <1>1, <2>7, <3>2, <3>3, SameOccurrences
    <3>5. settled = Nth(chosen, cadence, periods + k)
          /\ Nth(chosen, cadence, periods + k - 1) < now
      BY <3>1, <3>3, <3>4
    <3> QED
      BY <3>3, <3>5
  <2> QED
    BY <2>6, <2>7 DEF now, settled
<1>2. ASSUME OnCourse, NEW daysBefore \in {0, 1, 3, 30}
      PROVE  {now \in date - 40 .. date + 2 : InReminderWindow(date, daysBefore, now)}
               = date - daysBefore .. date - 1
  <2>1. date \in Nat
    BY <1>2 DEF OnCourse, InCalendar
  <2>2. ASSUME NEW now \in Int
        PROVE  now \in date - 40 .. date + 2 /\ InReminderWindow(date, daysBefore, now)
                 <=> now \in date - daysBefore .. date - 1
    BY <2>1 DEF InReminderWindow, DaysUntil
  <2> QED
    BY <2>1, <2>2
<1>3. OnCourse => Punctual
  BY <1>1, <1>2 DEF Punctual, SettlesOnFirst, RemindsBeforeDue
<1> QED
  BY <1>3, StaysOnCourse, PTL
=============================================================================
