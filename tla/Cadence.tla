------------------------------ MODULE Cadence ------------------------------
(***************************************************************************)
(* The date arithmetic of recurring schedules (recurring-dates.util.ts,    *)
(* utc-date.util.ts) on a calendar of real months and leap years: how      *)
(* nextDate steps by a cadence, how the anchor day keeps a short month     *)
(* from moving the schedule for good, how a subscription's date is rolled  *)
(* to today, and which days a reminder falls on.                           *)
(*                                                                         *)
(* A date is the number of its UTC day, as utcDay() yields it (in days).   *)
(* The time of day, which every operation preserves or ignores, is left    *)
(* out.  Month numbers start at 0, as JavaScript's do.                     *)
(***************************************************************************)
EXTENDS Integers, FiniteSetsExt

CONSTANTS
  FirstYear,     \* the years dates may fall in
  LastYear,
  StartDays,     \* the days of the month schedules are created on
  StartMonths,   \* the months they are created in, of the first year
  MaxPeriods,    \* bound on the advances from one anchoring to the next
  MaxPatches     \* bound on the edits of one schedule

ASSUME CadenceAssumption ==
  /\ FirstYear \in Nat /\ LastYear \in Nat
  /\ FirstYear <= LastYear
  /\ StartDays \subseteq 1 .. 31
  /\ StartMonths \subseteq 0 .. 11
  /\ MaxPeriods \in Nat
  /\ MaxPatches \in Nat

VARIABLES
  date,      \* nextDate
  cadence,   \* "weekly", "monthly", "yearly"
  anchor,    \* cadenceAnchorDay, NoAnchor on a migrated schedule
  patches,   \* number of edits so far
  chosen,    \* history: the nextDate at the last anchoring
  periods    \* history: the advances since then

cadenceVars == <<date, cadence, anchor, patches, chosen, periods>>

Cadences == {"weekly", "monthly", "yearly"}
NoAnchor == 0

-----------------------------------------------------------------------------
(* The UTC calendar of JavaScript's Date.                                  *)

Leap(y) == y % 4 = 0 /\ (y % 100 # 0 \/ y % 400 = 0)

MonthLength(y, m) ==
  IF m = 1 THEN IF Leap(y) THEN 29 ELSE 28
  ELSE IF m \in {3, 5, 8, 10} THEN 30 ELSE 31

\* Months are counted through the years: month i is month i % 12 of its year.
MonthIndex(y, m) == 12 * y + m
LengthOf(i) == MonthLength(i \div 12, i % 12)

\* The calendar goes on for two years after the last one dates may fall in, for the
\* periods that are looked ahead.
EndOfTime == MonthIndex(LastYear + 3, 0)

\* The first day of each month, the first year's first day being day 0.
FirstOf ==
  LET first == MonthIndex(FirstYear, 0)
      f[i \in first .. EndOfTime] ==
        IF i = first THEN 0 ELSE f[i - 1] + LengthOf(i - 1)
  IN  f

\* Date.UTC(): days and months beyond their range carry over.
Utc(i, day) == FirstOf[i] + day - 1

\* getUTCFullYear(), getUTCMonth(), as one month index, and getUTCDate().  The
\* search starts at the month n would fall in were every month 31 days long.
MonthOf(n) ==
  LET guess == MonthIndex(FirstYear, 0) + n \div 31
  IN  CHOOSE i \in guess .. EndOfTime - 1 :
        FirstOf[i] <= n /\ n < FirstOf[i + 1]
DayOf(n) == n - FirstOf[MonthOf(n)] + 1

\* setUTCDate(), and setUTCMonth(month + months): the other fields stay.
SetDate(n, day) == Utc(MonthOf(n), day)
ShiftMonth(n, months) == Utc(MonthOf(n) + months, DayOf(n))

-----------------------------------------------------------------------------
(* recurring-dates.util.ts.                                                *)

MonthsIn(c) == IF c = "monthly" THEN 1 ELSE 12

\* No period is longer: a year and a month, were every month 31 days long.
LongestPeriod == 13 * 31

\* (Mutant: the month is shifted from the date itself, not from the 1st.)
AddCadenceOverflowing(n, c, anchorDay) ==
  IF c = "weekly" THEN SetDate(n, DayOf(n) + 7)
  ELSE LET day == IF anchorDay = NoAnchor THEN DayOf(n) ELSE anchorDay
           shifted == ShiftMonth(n, MonthsIn(c))
       IN  SetDate(shifted, Min({day, LengthOf(MonthOf(shifted))}))

\* (Mutant: the day is derived from the stored date every time.)
AddCadenceUnanchored(n, c, anchorDay) ==
  IF c = "weekly" THEN SetDate(n, DayOf(n) + 7)
  ELSE LET first == ShiftMonth(SetDate(n, 1), MonthsIn(c))
       IN  SetDate(first, Min({DayOf(n), LengthOf(MonthOf(first))}))

\* addCadence(): one period on.  The date is moved to the 1st before the month
\* is shifted, then to the anchor day or the last day of the month.
AddCadence(n, c, anchorDay) ==
  IF c = "weekly" THEN SetDate(n, DayOf(n) + 7)
  ELSE LET day == IF anchorDay = NoAnchor THEN DayOf(n) ELSE anchorDay
           first == ShiftMonth(SetDate(n, 1), MonthsIn(c))
       IN  SetDate(first, Min({day, LengthOf(MonthOf(first))}))

\* (Mutant: an occurrence due today is skipped.)
SettlePastToday(n, c, anchorDay, now) ==
  LET day == IF anchorDay = NoAnchor THEN DayOf(n) ELSE anchorDay
      walk[d \in n .. now + LongestPeriod] ==
        IF d > now THEN d ELSE walk[AddCadence(d, c, day)]
  IN  walk[n]

\* settleTrackedSubscriptionDate() of a subscription that can post: step until
\* today.  The walk is a function on the days up to `now`.
SettleDate(n, c, anchorDay, now) ==
  LET day == IF anchorDay = NoAnchor THEN DayOf(n) ELSE anchorDay
      walk[d \in n .. now + LongestPeriod] ==
        IF d >= now THEN d ELSE walk[AddCadence(d, c, day)]
  IN  walk[n]

DaysUntil(next, now) == next - now

\* (Mutant: the due day is reminded of as well.)
InReminderWindowDueDay(next, daysBefore, now) ==
  daysBefore > 0 /\ DaysUntil(next, now) >= 0
                 /\ DaysUntil(next, now) <= daysBefore

\* isInReminderWindow().
InReminderWindow(next, daysBefore, now) ==
  daysBefore > 0 /\ DaysUntil(next, now) > 0
                 /\ DaysUntil(next, now) <= daysBefore

-----------------------------------------------------------------------------
(* One schedule: the job advances it, requests edit it.                    *)

Room(n) == n <= Utc(MonthIndex(LastYear, 0), 1)

CadenceInit ==
  \E m \in StartMonths, day \in StartDays :
    /\ day <= MonthLength(FirstYear, m)
    /\ date = Utc(MonthIndex(FirstYear, m), day)
    /\ cadence \in Cadences
    /\ anchor \in {day, NoAnchor}
    /\ patches = 0
    /\ chosen = date
    /\ periods = 0

\* advanceSchedule() to the next occurrence.
AdvanceDate ==
  /\ periods < MaxPeriods
  /\ Room(date)
  /\ date' = AddCadence(date, cadence, anchor)
  /\ periods' = periods + 1
  /\ UNCHANGED <<cadence, anchor, patches, chosen>>

\* (Mutant: a new cadence keeps the old anchor.)
PatchCadenceOnly(c) ==
  /\ patches < MaxPatches
  /\ patches' = patches + 1
  /\ cadence' = c
  /\ chosen' = date
  /\ periods' = 0
  /\ UNCHANGED <<date, anchor>>

\* update() of the cadence alone re-anchors on the current nextDate.
PatchCadence(c) ==
  /\ patches < MaxPatches
  /\ patches' = patches + 1
  /\ cadence' = c
  /\ anchor' = DayOf(date)
  /\ chosen' = date
  /\ periods' = 0
  /\ UNCHANGED date

\* (Mutant: the anchor is taken from the whole date.)
PatchDateWhole(n, c) ==
  /\ patches < MaxPatches
  /\ patches' = patches + 1
  /\ cadence' = c
  /\ date' = n
  /\ anchor' = n
  /\ chosen' = n
  /\ periods' = 0

\* update() of nextDate re-anchors on the new date, whatever else it changes.
PatchDate(n, c) ==
  /\ patches < MaxPatches
  /\ patches' = patches + 1
  /\ cadence' = c
  /\ date' = n
  /\ anchor' = DayOf(n)
  /\ chosen' = n
  /\ periods' = 0

CadenceNext ==
  \/ AdvanceDate
  \/ \E c \in Cadences : PatchCadence(c)
  \/ \E c \in Cadences, back \in {1, 3, 30} :
       date > back /\ PatchDate(date - back, c)

CadenceSpec == CadenceInit /\ [][CadenceNext]_cadenceVars

-----------------------------------------------------------------------------
(* Properties.                                                             *)

\* The reference: occurrence k of a schedule whose user chose day n.  Computed
\* from n at once, so nothing can accumulate from one occurrence to the next.
Nth(n, c, k) ==
  IF c = "weekly" THEN n + 7 * k
  ELSE LET i == MonthOf(n) + k * MonthsIn(c)
       IN  FirstOf[i] + Min({DayOf(n), LengthOf(i)}) - 1

\* Type invariant.
CadenceTypeOK ==
  /\ date \in Nat /\ chosen \in Nat
  /\ cadence \in Cadences
  /\ anchor \in 0 .. 31
  /\ patches \in 0 .. MaxPatches
  /\ periods \in 0 .. MaxPeriods

\* "Jan 31, Feb 28, Mar 31": however often an anchored schedule advanced, through
\* whatever short months, leap years and changes of cadence, nextDate is the
\* occurrence the user's choice implies.
NoDrift == anchor # NoAnchor => date = Nth(chosen, cadence, periods)

\* A migrated schedule without an anchor may settle on an earlier day of the
\* month, once, but skips no month and never goes below the 28th.
LegacyDriftBounded ==
  anchor = NoAnchor /\ cadence # "weekly" =>
    /\ MonthOf(date) = MonthOf(chosen) + periods * MonthsIn(cadence)
    /\ DayOf(date) <= DayOf(chosen)
    /\ DayOf(date) < DayOf(chosen) => DayOf(date) >= 28

\* A subscription rolled forward starts on the first of its own occurrences that
\* is not before today, for each of the next days.
SettlesOnFirst ==
  Room(date) => \A late \in {1, 27, 31, 59, 200} :
    LET now == date + late
        settled == SettleDate(date, cadence, anchor, now)
    IN  /\ settled >= now
        /\ anchor # NoAnchor =>
             \E k \in 1 .. 200 \div 7 + 1 :
               /\ settled = Nth(chosen, cadence, periods + k)
               /\ Nth(chosen, cadence, periods + k - 1) < now

\* A reminder of n days covers exactly the n days before the due day, so a daily
\* job that reminds once per occurrence always finds one unless it is off.
RemindsBeforeDue ==
  \A daysBefore \in {0, 1, 3, 30} :
    {now \in date - 40 .. date + 2 : InReminderWindow(date, daysBefore, now)}
      = date - daysBefore .. date - 1

\* What is done on a day is done for the right date: a start date is settled on the
\* first occurrence not yet past, and reminders come before the due date.
Punctual == SettlesOnFirst /\ RemindsBeforeDue

=============================================================================
