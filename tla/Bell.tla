--------------------------------- MODULE Bell -------------------------------
(***************************************************************************)
(* The bell in the header (frontend/src/components/NotificationBell.tsx):  *)
(* a badge that is polled, a list that is fetched when the bell is opened, *)
(* and answers to reading and dismissing that the page applies to both by  *)
(* itself.  Another member, or the job of Reminders.tla, may change the    *)
(* reminders meanwhile.                                                    *)
(***************************************************************************)
EXTENDS Wire, FiniteSets

CONSTANTS
  NumReminders,   \* reminders there may ever be
  MaxBellActs     \* bound on polls, on clicks and on what others do

ASSUME BellAssumption == NumReminders \in Nat

VARIABLES
  inbox,         \* inbox[n]: "none" before it exists, "unread", "read", "gone"
  badge,         \* unreadCount
  open,          \* the list is open
  listed,        \* the reminders listed
  marked,        \* those among them displayed as read
  fetching,      \* the list reads "Loading..."
  countSound,    \* history: nothing has happened that the badge missed
  listSound      \* history: nothing has happened that the list missed

bellVars == <<inbox, badge, open, listed, marked, fetching, countSound,
              listSound>>

Notices == 1 .. NumReminders

Unread == {n \in Notices : inbox[n] = "unread"}

Present == {n \in Notices : inbox[n] \in {"unread", "read"}}

BellInit ==
  /\ inbox \in [Notices -> {"none", "unread", "read"}]
  /\ badge = 0
  /\ open = FALSE
  /\ listed = {} /\ marked = {}
  /\ fetching = FALSE
  /\ countSound = FALSE /\ listSound = TRUE

\* A call of the bell.  alone (history): nothing else was under way meanwhile.
\* of: the reminder it is about, if it is about one.
Calling(cs, kind, n) ==
  Append([k \in DOMAIN cs |-> [cs[k] EXCEPT !.alone = FALSE]],
         [kind |-> kind, stage |-> "sent", answer |-> None, of |-> n,
          alone |-> cs = <<>>])

-----------------------------------------------------------------------------
(* The server, and those who share it.                                     *)

ServeCount(i) ==
  /\ Stage(i, "count", "sent")
  /\ Answered(i, Cardinality(Unread))
  /\ UNCHANGED <<bellVars, acts, errors>>

\* findAll(): the reminders, and how many are unread.
ServeNotices(i) ==
  /\ Stage(i, "notices", "sent")
  /\ Answered(i, [listed |-> Present, marked |-> Present \ Unread,
                  unread |-> Cardinality(Unread)])
  /\ UNCHANGED <<bellVars, acts, errors>>

\* markAsRead(), markAllAsRead(), remove(): 404 when the reminder is gone.
ServeNotice(i) ==
  LET c == calls[i] IN
  /\ c.kind \in {"read", "readAll", "dismiss"}
  /\ c.stage = "sent"
  /\ IF c.kind # "readAll" /\ c.of \notin Present
     THEN calls' = [calls EXCEPT ![i].stage = "failed"] /\ UNCHANGED inbox
     ELSE /\ Answered(i, "done")
          /\ inbox' = [n \in Notices |->
               IF c.kind = "readAll"
               THEN IF inbox[n] = "unread" THEN "read" ELSE inbox[n]
               ELSE IF n # c.of THEN inbox[n]
               ELSE IF c.kind = "read" THEN "read" ELSE "gone"]
  /\ UNCHANGED <<badge, open, listed, marked, fetching, countSound, listSound,
                 acts, errors>>

\* The job creates a reminder; another member reads or deletes one.
ChangedElsewhere(n) ==
  /\ Act(MaxBellActs)
  /\ \E state \in {"unread", "read", "gone"} :
       /\ inbox[n] = "none" <=> state = "unread"
       /\ inbox[n] = "unread" \/ state # "read"
       /\ inbox[n] # "gone"
       /\ inbox' = [inbox EXCEPT ![n] = state]
  /\ calls' = [k \in DOMAIN calls |-> [calls[k] EXCEPT !.alone = FALSE]]
  /\ countSound' = FALSE
  /\ listSound' = (listSound /\ n \notin listed)
  /\ UNCHANGED <<badge, open, listed, marked, fetching, errors>>

-----------------------------------------------------------------------------
(* What the member does, and the clock.                                    *)

\* fetchUnreadCount(), by the interval while the tab is visible, and when it
\* becomes visible again.
Poll ==
  /\ Act(MaxBellActs)
  /\ calls' = Calling(calls, "count", None)
  /\ UNCHANGED <<bellVars, errors>>

\* handleToggle(), and a click outside of the list.
Toggle ==
  /\ open' = ~open
  /\ IF open THEN UNCHANGED <<fetching, calls, acts>>
     ELSE Act(MaxBellActs) /\ fetching' = TRUE /\ calls' = Calling(calls, "notices", None)
  /\ UNCHANGED <<inbox, badge, listed, marked, countSound, listSound, errors>>

Clickable(n) == open /\ ~fetching /\ n \in listed

\* handleClickNotification(): the list stays open until the answer is in.
Click(n) ==
  /\ Clickable(n)
  /\ Act(MaxBellActs)
  /\ IF n \in marked THEN open' = FALSE /\ UNCHANGED calls
     ELSE calls' = Calling(calls, "read", n) /\ UNCHANGED open
  /\ UNCHANGED <<inbox, badge, listed, marked, fetching, countSound, listSound,
                 errors>>

\* handleMarkAllRead().
MarkAll ==
  /\ open
  /\ badge > 0
  /\ Act(MaxBellActs)
  /\ calls' = Calling(calls, "readAll", None)
  /\ UNCHANGED <<bellVars, errors>>

\* handleDismiss().
Dismiss(n) ==
  /\ Clickable(n)
  /\ Act(MaxBellActs)
  /\ calls' = Calling(calls, "dismiss", n)
  /\ UNCHANGED <<bellVars, errors>>

-----------------------------------------------------------------------------
(* The handlers that run when a call is over.                              *)

Less(count) == IF count = 0 THEN 0 ELSE count - 1

CountDone(i) ==
  /\ Stage(i, "count", "done")
  /\ Handled(i, <<>>)
  /\ badge' = calls[i].answer
  /\ countSound' = calls[i].alone
  /\ UNCHANGED <<inbox, open, listed, marked, fetching, listSound, acts, errors>>

NoticesDone(i) ==
  LET c == calls[i] IN
  /\ Stage(i, "notices", "done")
  /\ Handled(i, <<>>)
  /\ listed' = c.answer.listed
  /\ marked' = c.answer.marked
  /\ badge' = c.answer.unread
  /\ fetching' = FALSE
  /\ countSound' = c.alone /\ listSound' = c.alone
  /\ UNCHANGED <<inbox, open, acts, errors>>

\* What is known to be right stays so when the call was alone.
Sound(c) ==
  /\ countSound' = (countSound /\ listSound /\ c.alone)
  /\ listSound' = (listSound /\ c.alone)

ReadDone(i) ==
  LET c == calls[i] IN
  /\ Stage(i, "read", "done")
  /\ Handled(i, <<>>)
  /\ marked' = marked \cup (listed \cap {c.of})
  /\ badge' = Less(badge)
  /\ open' = FALSE
  /\ Sound(c)
  /\ UNCHANGED <<inbox, listed, fetching, acts, errors>>

ReadAllDone(i) ==
  /\ Stage(i, "readAll", "done")
  /\ Handled(i, <<>>)
  /\ marked' = listed
  /\ badge' = 0
  /\ Sound(calls[i])
  /\ UNCHANGED <<inbox, open, listed, fetching, acts, errors>>

\* (Mutant: the badge goes down whatever was dismissed.)
CountsAlways(n) == TRUE

\* Only a reminder displayed as unread counts.
Counts(n) == n \in listed \ marked

DismissDone(i) ==
  LET c == calls[i] IN
  /\ Stage(i, "dismiss", "done")
  /\ Handled(i, <<>>)
  /\ badge' = IF Counts(c.of) THEN Less(badge) ELSE badge
  /\ listed' = listed \ {c.of}
  /\ marked' = marked \ {c.of}
  /\ Sound(c)
  /\ UNCHANGED <<inbox, open, fetching, acts, errors>>

\* Failures are ignored; the list stops loading, a click closes it.
NoticeFailed(i) ==
  LET c == calls[i] IN
  /\ c.stage = "failed"
  /\ Handled(i, <<>>)
  /\ open' = (open /\ c.kind # "read")
  /\ fetching' = (fetching /\ c.kind # "notices")
  /\ countSound' = (countSound /\ c.kind \in {"count", "notices"})
  /\ listSound' = (listSound /\ c.kind \in {"count", "notices"})
  /\ UNCHANGED <<inbox, badge, listed, marked, acts, errors>>

BellNext ==
  \/ \E i \in DOMAIN calls :
       \/ ServeCount(i) \/ ServeNotices(i) \/ ServeNotice(i)
       \/ CountDone(i) \/ NoticesDone(i)
       \/ ReadDone(i) \/ ReadAllDone(i) \/ DismissDone(i) \/ NoticeFailed(i)
       \/ Lost(i) /\ UNCHANGED bellVars
  \/ \E n \in Notices : ChangedElsewhere(n) \/ Click(n) \/ Dismiss(n)
  \/ Poll \/ Toggle \/ MarkAll
=============================================================================
