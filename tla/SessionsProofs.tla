--------------------------- MODULE SessionsProofs ---------------------------
(***************************************************************************)
(* Browser.tla for any tabs, calls, requests and failures: in the first    *)
(* part, a call that waits for a refresh waits for one that is under way   *)
(* (NobodyWaitsInVain); in the second, a session is one chain of refresh   *)
(* tokens (SessionsHold), a new password ends what the old one started     *)
(* (CredentialsHold), and a tab gives up only a session that has ended     *)
(* (NoSpuriousLogout).                                                     *)
(***************************************************************************)
EXTENDS Browser, FiniteSetTheorems, SequenceTheorems, TLAPS

-----------------------------------------------------------------------------
(* Waiting calls name only their tab; the tab's refreshPromise names the   *)
(* call that made it, and that call's handler the tab that is to hear the  *)
(* answer.  The argument is that these three never disagree: a handler     *)
(* keeps its tab until the tab has taken its answer, and the tab takes it  *)
(* together with all the calls that wait for it.                           *)

\* What a handler has in memory is a record of these fields.
Record(q) ==
  q = [op |-> q.op, at |-> q.at, tab |-> q.tab, token |-> q.token,
       access |-> q.access, version |-> q.version, reset |-> q.reset,
       session |-> q.session, password |-> q.password, amid |-> q.amid]

CallRecord(k) == k = [tab |-> k.tab, at |-> k.at, token |-> k.token]

Shapes ==
  /\ request = [p \in Senders |-> request[p]]
  /\ refreshing = [t \in Tabs |-> refreshing[t]]
  /\ call = [c \in Calls |-> call[c]]
  /\ \A c \in Calls : CallRecord(call[c]) /\ call[c].tab \in Tabs

\* The refresh a tab has under way is answered to that tab.
Refreshes(q, t) == Record(q) /\ q.op = "refresh" /\ q.tab = t

RefreshersAnswer ==
  \A t \in Tabs : refreshing[t] # NoRefresh =>
    /\ refreshing[t] \in Calls /\ call[refreshing[t]].tab = t
    /\ Refreshes(request[refreshing[t]], t)

WaitersRefresh ==
  \A c \in Calls : call[c].at = "waiting" => refreshing[call[c].tab] # NoRefresh

WaitInv == Shapes /\ RefreshersAnswer /\ WaitersRefresh

\* Calls are not among the requests that begin elsewhere.
LEMMA CallsAreNotRequests == \A c \in Calls : c \notin Requests /\ c \in Senders
BY SessionsAssumption DEF Requests, Senders

LEMMA IdleRecord == Record(Idle)
BY DEF Record, Idle

-----------------------------------------------------------------------------
(* The server keeps a refresh a refresh, for the tab that began it.        *)

\* A step of the handler p only, which is no call's refresh or stays one.
StepOf(p) ==
  \E q : /\ request' = [request EXCEPT ![p] = q]
         /\ p \in Calls => \A t \in Tabs : Refreshes(request[p], t) => Refreshes(q, t)

LEMMA StepPreserves ==
  ASSUME WaitInv, NEW p \in Senders, StepOf(p), UNCHANGED <<refreshing, call>>
  PROVE  WaitInv'
<1>1. PICK q : /\ request' = [request EXCEPT ![p] = q]
               /\ p \in Calls => \A t \in Tabs : Refreshes(request[p], t) => Refreshes(q, t)
  BY DEF StepOf
<1>2. /\ request'[p] = q
      /\ \A r \in Senders \ {p} : request'[r] = request[r]
      /\ request' = [r \in Senders |-> request'[r]]
  BY <1>1 DEF WaitInv, Shapes
<1>3. Shapes'
  BY <1>2 DEF WaitInv, Shapes, Senders, Requests
<1>4. WaitersRefresh'
  BY DEF WaitInv, WaitersRefresh
<1>5. RefreshersAnswer'
  <2> SUFFICES ASSUME NEW t \in Tabs, refreshing[t] # NoRefresh
               PROVE  Refreshes(request'[refreshing[t]], t)
    BY DEF WaitInv, RefreshersAnswer, Refreshes, Record
  <2>1. refreshing[t] \in Calls /\ refreshing[t] \in Senders /\ Refreshes(request[refreshing[t]], t)
    BY CallsAreNotRequests DEF WaitInv, RefreshersAnswer
  <2> QED BY <1>1, <1>2, <2>1
<1> QED BY <1>3, <1>4, <1>5 DEF WaitInv

\* Steps that change the step only, or end a handler nobody waits for.
LEMMA GoToIsStep ==
  ASSUME NEW p \in Senders, NEW step, GoTo(p, step)
  PROVE  StepOf(p)
<1> DEFINE q == [request[p] EXCEPT !.at = step]
<1>1. request' = [request EXCEPT ![p] = q]
  BY DEF GoTo, Becomes
<1>2. ASSUME NEW t \in Tabs, Refreshes(request[p], t) PROVE Refreshes(q, t)
  <2>1. ASSUME NEW i, Record(i), NEW r, r = [i EXCEPT !.at = step]
        PROVE  Record(r) /\ r.op = i.op /\ r.tab = i.tab
    BY <2>1 DEF Record
  <2> QED BY <1>2, <2>1 DEF Refreshes
<1> HIDE DEF q
<1> QED BY <1>1, <1>2 DEF StepOf

LEMMA RespondIsStep ==
  ASSUME NEW p \in Senders, NEW answer, Respond(p, answer)
  PROVE  StepOf(p)
<1>1. CASE request[p].tab = NoTab
  <2>1. request' = [request EXCEPT ![p] = Done]
    BY <1>1 DEF Respond, Becomes
  <2>2. \A t \in Tabs : ~Refreshes(request[p], t)
    BY <1>1, SessionsAssumption DEF Refreshes
  <2> QED BY <2>1, <2>2 DEF StepOf
<1>2. CASE request[p].tab # NoTab
  <2>1. GoTo(p, answer)
    BY <1>2 DEF Respond, GoTo, Becomes
  <2> QED BY <2>1, GoToIsStep
<1> QED BY <1>1, <1>2

\* A request is not a call's.
LEMMA RequestIsStep ==
  ASSUME NEW p \in Requests, NEW q, Becomes(p, q)
  PROVE  StepOf(p)
BY CallsAreNotRequests DEF StepOf, Becomes

LEMMA InsertIsStep ==
  ASSUME NEW p \in Senders, Insert(p)
  PROVE  StepOf(p)
<1> DEFINE old == request[p]
           overlapped == old.amid \cup Ops(p)
           signed == [version |-> old.version, password |-> old.password,
                      amid |-> overlapped, expired |-> FALSE]
           token == Len(tokens) + 1
           q == [old EXCEPT !.at = "ok", !.access = signed, !.token = token]
<1>1. CASE old.tab = NoTab
  <2>1. request' = [request EXCEPT ![p] = Done]
    BY <1>1 DEF Insert, Becomes
  <2>2. \A t \in Tabs : ~Refreshes(old, t)
    BY <1>1, SessionsAssumption DEF Refreshes
  <2> QED BY <2>1, <2>2 DEF StepOf
<1>2. CASE old.tab # NoTab
  <2>1. request' = [request EXCEPT ![p] = q]
    BY <1>2 DEF Insert, Becomes
  <2>2. ASSUME NEW t \in Tabs, Refreshes(old, t) PROVE Refreshes(q, t)
    <3> HIDE DEF signed, token
    <3>1. ASSUME NEW i, Record(i), NEW r,
                 r = [i EXCEPT !.at = "ok", !.access = signed, !.token = token]
          PROVE  Record(r) /\ r.op = i.op /\ r.tab = i.tab
      BY <3>1 DEF Record
    <3> QED BY <2>2, <3>1 DEF Refreshes
  <2> HIDE DEF q
  <2> QED BY <2>1, <2>2 DEF StepOf
<1> QED BY <1>1, <1>2

LEMMA RefreshUserIsStep ==
  ASSUME NEW p \in Senders, RefreshUser(p)
  PROVE  StepOf(p)
<1> DEFINE old == request[p]
           version == user.version
           token == tokens[old.token]
           session == token.session
           password == token.password
           overlapped == token.amid
           q == [old EXCEPT !.at = "revoke", !.version = version, !.session = session,
                            !.password = password, !.amid = overlapped]
<1>1. CASE ~user.exists
  <2>1. Respond(p, "refused")
    BY <1>1 DEF RefreshUser
  <2> QED BY <2>1, RespondIsStep
<1>2. CASE user.exists
  <2>1. request' = [request EXCEPT ![p] = q]
    BY <1>2 DEF RefreshUser, Becomes
  <2>2. ASSUME NEW t \in Tabs, Refreshes(old, t) PROVE Refreshes(q, t)
    <3> HIDE DEF version, session, password, overlapped
    <3>1. ASSUME NEW i, Record(i), NEW r,
                 r = [i EXCEPT !.at = "revoke", !.version = version,
                               !.session = session, !.password = password,
                               !.amid = overlapped]
          PROVE  Record(r) /\ r.op = i.op /\ r.tab = i.tab
      BY <3>1 DEF Record
    <3> QED BY <2>2, <3>1 DEF Refreshes
  <2> HIDE DEF q
  <2> QED BY <2>1, <2>2 DEF StepOf
<1> QED BY <1>1, <1>2

\* Every other handler's step changes where it is, or answers.
LEMMA HandleIsStep ==
  ASSUME NEW p \in Senders, Handle(p)
  PROVE  StepOf(p)
<1>1. CASE RefreshFind(p)
  BY <1>1, GoToIsStep, RespondIsStep DEF RefreshFind
<1>2. CASE RefreshRevoke(p)
  BY <1>2, GoToIsStep, RespondIsStep DEF RefreshRevoke
<1>3. CASE LogoutGuard(p)
  BY <1>3, GoToIsStep, RespondIsStep DEF LogoutGuard
<1>4. CASE LogoutRevoke(p)
  BY <1>4, GoToIsStep, RespondIsStep DEF LogoutRevoke
<1>5. CASE Bump(p)
  BY <1>5, GoToIsStep, RespondIsStep DEF Bump
<1>6. CASE ChangeSave(p)
  BY <1>6, GoToIsStep, RespondIsStep DEF ChangeSave
<1>7. CASE RevokeAll(p)
  BY <1>7, GoToIsStep, RespondIsStep DEF RevokeAll
<1>8. CASE Supersede(p)
  BY <1>8, GoToIsStep, RespondIsStep DEF Supersede
<1>9. CASE InsertReset(p)
  BY <1>9, GoToIsStep, RespondIsStep DEF InsertReset
<1>10. CASE ResetUser(p)
  BY <1>10, GoToIsStep, RespondIsStep DEF ResetUser
<1>11. CASE ResetSave(p)
  BY <1>11, GoToIsStep, RespondIsStep DEF ResetSave
<1>12. CASE Mark(p)
  BY <1>12, GoToIsStep, RespondIsStep DEF Mark
<1>13. CASE DropTokens(p)
  BY <1>13, GoToIsStep, RespondIsStep DEF DropTokens
<1> QED
  BY <1>1, <1>2, <1>3, <1>4, <1>5, <1>6, <1>7, <1>8, <1>9, <1>10, <1>11, <1>12, <1>13,
     InsertIsStep, RefreshUserIsStep DEF Handle

LEMMA BeginElsewhereIsStep ==
  ASSUME NEW p \in Requests, BeginElsewhere(p)
  PROVE  StepOf(p)
BY RequestIsStep DEF BeginElsewhere, BeginLogin, BeginChange, BeginForgot,
   BeginReset, BeginDelete

-----------------------------------------------------------------------------
(* The tabs.                                                               *)

\* One call moves on, to something else than waiting.
LEMMA CallMovesOn ==
  ASSUME WaitInv, NEW c \in Calls, NEW at, at # "waiting", NEW token,
         call' = [call EXCEPT ![c].at = at, ![c].token = token],
         UNCHANGED <<request, refreshing>>
  PROVE  WaitInv'
<1>1. /\ call' = [d \in Calls |-> call'[d]]
      /\ \A d \in Calls \ {c} : call'[d] = call[d]
      /\ CallRecord(call'[c]) /\ call'[c].at = at /\ call'[c].tab = call[c].tab
  <2>1. ASSUME NEW k, CallRecord(k), NEW r, r = [k EXCEPT !.at = at, !.token = token]
        PROVE  CallRecord(r) /\ r.at = at /\ r.tab = k.tab
    BY <2>1 DEF CallRecord
  <2>2. call' = [call EXCEPT ![c] = [call[c] EXCEPT !.at = at, !.token = token]]
    BY DEF WaitInv, Shapes
  <2>3. PICK r : /\ r = [call[c] EXCEPT !.at = at, !.token = token]
                 /\ call' = [call EXCEPT ![c] = r]
    BY <2>2
  <2>4. CallRecord(call[c])
    BY DEF WaitInv, Shapes
  <2> QED BY <2>1, <2>3, <2>4 DEF WaitInv, Shapes
<1>2. Shapes'
  BY <1>1 DEF WaitInv, Shapes, Senders, Requests
<1>3. RefreshersAnswer'
  BY <1>1 DEF WaitInv, RefreshersAnswer, Refreshes, Record
<1>4. WaitersRefresh'
  BY <1>1 DEF WaitInv, WaitersRefresh
<1> QED BY <1>2, <1>3, <1>4 DEF WaitInv

LEMMA CallPreserves ==
  ASSUME WaitInv, NEW c \in Calls, Call(c) \/ Succeeds(c) \/ Refused(c)
  PROVE  WaitInv'
BY CallMovesOn DEF Call, Succeeds, Refused

\* A call that is refused waits, and refreshes if its tab does not yet.
LEMMA UnauthorizedPreserves ==
  ASSUME WaitInv, NEW c \in Calls, Unauthorized(c)
  PROVE  WaitInv'
<1> DEFINE t == call[c].tab
           q == [Idle EXCEPT !.op = "refresh", !.at = "find", !.tab = t,
                             !.token = cookie]
<1>1. PICK k : /\ k = [call[c] EXCEPT !.at = "waiting", !.token = NoAccess]
               /\ call' = [call EXCEPT ![c] = k]
  BY DEF Unauthorized, WaitInv, Shapes
<1>2. CallRecord(k) /\ k.tab = t
  <2>1. ASSUME NEW i, CallRecord(i), k = [i EXCEPT !.at = "waiting", !.token = NoAccess]
        PROVE  CallRecord(k) /\ k.tab = i.tab
    BY <2>1 DEF CallRecord
  <2>2. CallRecord(call[c])
    BY DEF WaitInv, Shapes
  <2> QED BY <1>1, <2>1, <2>2
<1>3. /\ call' = [d \in Calls |-> call'[d]] /\ call'[c] = k
      /\ \A d \in Calls \ {c} : call'[d] = call[d]
  BY <1>1 DEF WaitInv, Shapes
<1>4. t \in Tabs /\ c \in Senders
  BY CallsAreNotRequests DEF WaitInv, Shapes
<1>5. \A d \in Calls : CallRecord(call'[d]) /\ call'[d].tab = call[d].tab
  BY <1>2, <1>3 DEF WaitInv, Shapes
<1>6. CASE refreshing[t] # NoRefresh
  <2>1. UNCHANGED <<refreshing, request>>
    BY <1>6 DEF Unauthorized
  <2>2. Shapes'
    BY <1>3, <1>5, <2>1 DEF WaitInv, Shapes, Senders, Requests
  <2>3. RefreshersAnswer'
    BY <1>5, <2>1 DEF WaitInv, RefreshersAnswer, Refreshes, Record
  <2>4. WaitersRefresh'
    BY <1>3, <1>5, <1>6, <2>1 DEF WaitInv, WaitersRefresh
  <2> QED BY <2>2, <2>3, <2>4 DEF WaitInv
<1>7. CASE refreshing[t] = NoRefresh
  <2>1. PICK r : /\ r = q /\ request' = [request EXCEPT ![c] = r]
                 /\ refreshing' = [refreshing EXCEPT ![t] = c]
    BY <1>7 DEF Unauthorized, Becomes
  <2>2. Refreshes(r, t)
    <3> DEFINE i == cookie
    <3>1. r = [Idle EXCEPT !.op = "refresh", !.at = "find", !.tab = t, !.token = i]
      BY <2>1
    <3> HIDE DEF i, t
    <3>2. ASSUME NEW j, Record(j),
                 r = [j EXCEPT !.op = "refresh", !.at = "find", !.tab = t, !.token = i]
          PROVE  Record(r) /\ r.op = "refresh" /\ r.tab = t
      BY <3>2 DEF Record
    <3> QED BY <3>1, <3>2, IdleRecord DEF Refreshes
  <2>3. /\ request' = [p \in Senders |-> request'[p]] /\ request'[c] = r
        /\ \A p \in Senders \ {c} : request'[p] = request[p]
        /\ refreshing' = [u \in Tabs |-> refreshing'[u]] /\ refreshing'[t] = c
        /\ \A u \in Tabs \ {t} : refreshing'[u] = refreshing[u]
    BY <1>4, <2>1 DEF WaitInv, Shapes
  <2> HIDE DEF t, q
  <2>4. Shapes'
    BY <1>3, <1>5, <2>3 DEF WaitInv, Shapes, Senders, Requests
  <2>5. RefreshersAnswer'
    <3> SUFFICES ASSUME NEW u \in Tabs, refreshing'[u] # NoRefresh
                 PROVE  /\ refreshing'[u] \in Calls /\ call'[refreshing'[u]].tab = u
                        /\ Refreshes(request'[refreshing'[u]], u)
      BY DEF RefreshersAnswer, Refreshes, Record
    <3>1. CASE u = t
      BY <1>5, <2>2, <2>3, <3>1 DEF t
    <3>2. CASE u # t
      <4>1. /\ refreshing[u] \in Calls /\ call[refreshing[u]].tab = u
            /\ Refreshes(request[refreshing[u]], u)
            /\ refreshing'[u] = refreshing[u]
        BY <2>3, <3>2 DEF WaitInv, RefreshersAnswer
      <4>2. refreshing[u] # c /\ refreshing[u] \in Senders
        BY <3>2, <4>1, CallsAreNotRequests DEF t
      <4> QED BY <1>5, <2>3, <4>1, <4>2
    <3> QED BY <3>1, <3>2
  <2>6. WaitersRefresh'
    <3> SUFFICES ASSUME NEW d \in Calls, call'[d].at = "waiting"
                 PROVE  refreshing'[call[d].tab] # NoRefresh
      BY <1>5 DEF WaitersRefresh
    <3>1. CASE call[d].tab = t
      BY <2>3, <3>1, BrowserAssumption
    <3>2. CASE call[d].tab # t
      <4>1. d # c /\ call[d].tab \in Tabs
        BY <3>2 DEF t, WaitInv, Shapes
      <4> QED BY <1>3, <2>3, <3>2, <4>1 DEF WaitInv, WaitersRefresh
    <3> QED BY <3>1, <3>2
  <2> QED BY <2>4, <2>5, <2>6 DEF WaitInv
<1> QED BY <1>6, <1>7

\* The tab t takes the answer, with all the calls that wait for it; the handlers
\* that answer to other tabs go on.
LEMMA TabSettles ==
  ASSUME WaitInv, NEW t \in Tabs,
         refreshing' = [refreshing EXCEPT ![t] = NoRefresh],
         call' = [c \in Calls |-> call'[c]],
         \A c \in Calls : /\ CallRecord(call'[c]) /\ call'[c].tab = call[c].tab
                          /\ call'[c].at = "waiting" =>
                               call[c].at = "waiting" /\ call[c].tab # t,
         request' = [p \in Senders |-> request'[p]],
         \A p \in Senders : request[p].tab # t => request'[p] = request[p]
  PROVE  WaitInv'
<1>1. /\ refreshing' = [u \in Tabs |-> refreshing'[u]] /\ refreshing'[t] = NoRefresh
      /\ \A u \in Tabs \ {t} : refreshing'[u] = refreshing[u]
  BY DEF WaitInv, Shapes
<1>2. Shapes'
  BY <1>1 DEF WaitInv, Shapes, Senders, Requests
<1>3. RefreshersAnswer'
  <2> SUFFICES ASSUME NEW u \in Tabs, refreshing'[u] # NoRefresh
               PROVE  /\ refreshing'[u] \in Calls /\ call'[refreshing'[u]].tab = u
                      /\ Refreshes(request'[refreshing'[u]], u)
    BY DEF RefreshersAnswer, Refreshes, Record
  <2>1. u # t /\ refreshing'[u] = refreshing[u]
    BY <1>1
  <2>2. /\ refreshing[u] \in Calls /\ call[refreshing[u]].tab = u
        /\ Refreshes(request[refreshing[u]], u) /\ refreshing[u] \in Senders
    BY <2>1, CallsAreNotRequests DEF WaitInv, RefreshersAnswer
  <2>3. request[refreshing[u]].tab = u
    BY <2>2 DEF Refreshes
  <2> QED BY <2>1, <2>2, <2>3
<1>4. WaitersRefresh'
  BY <1>1 DEF WaitInv, WaitersRefresh, Shapes
<1> QED BY <1>2, <1>3, <1>4 DEF WaitInv

LEMMA RefreshedPreserves ==
  ASSUME WaitInv, NEW t \in Tabs, Refreshed(t)
  PROVE  WaitInv'
<1> DEFINE p == refreshing[t]
           access == request[p].access
           retried(c) == c \in CallsOf(t) /\ call[c].at = "waiting"
           then(c) == IF retried(c)
                      THEN [call[c] EXCEPT !.at = "retry", !.token = access]
                      ELSE call[c]
<1>1. /\ p # NoRefresh /\ refreshing' = [refreshing EXCEPT ![t] = NoRefresh]
      /\ call' = [c \in Calls |-> then(c)]
      /\ request' = [request EXCEPT ![p] = Done]
  BY DEF Refreshed, Becomes
<1>2. p \in Senders /\ request[p].tab = t
  BY <1>1, CallsAreNotRequests DEF WaitInv, RefreshersAnswer, Refreshes
<1>3. /\ request' = [r \in Senders |-> request'[r]]
      /\ \A r \in Senders : request[r].tab # t => request'[r] = request[r]
  BY <1>1, <1>2 DEF WaitInv, Shapes
<1>4. ASSUME NEW c \in Calls
      PROVE  /\ CallRecord(then(c)) /\ then(c).tab = call[c].tab
             /\ then(c).at = "waiting" => call[c].at = "waiting" /\ call[c].tab # t
  <2>1. CallRecord(call[c])
    BY DEF WaitInv, Shapes
  <2>2. CASE retried(c)
    <3> HIDE DEF access
    <3>1. ASSUME NEW k, CallRecord(k), NEW r, r = [k EXCEPT !.at = "retry", !.token = access]
          PROVE  CallRecord(r) /\ r.tab = k.tab /\ r.at = "retry"
      BY <3>1 DEF CallRecord
    <3>2. PICK r : r = [call[c] EXCEPT !.at = "retry", !.token = access] /\ r = then(c)
      BY <2>2
    <3> HIDE DEF then
    <3> QED BY <2>1, <3>1, <3>2
  <2>3. CASE ~retried(c)
    BY <2>1, <2>3 DEF CallsOf
  <2> QED BY <2>2, <2>3
<1> HIDE DEF then
<1>5. /\ call' = [c \in Calls |-> call'[c]]
      /\ \A c \in Calls : call'[c] = then(c)
  BY <1>1
<1> QED BY <1>1, <1>3, <1>4, <1>5, TabSettles

LEMMA RedirectedPreserves ==
  ASSUME WaitInv, NEW t \in Tabs, Redirected(t)
  PROVE  WaitInv'
<1> DEFINE p == refreshing[t]
           left(c) == c \in CallsOf(t) /\ call[c].at \notin {"idle", "done"}
           then(c) == IF left(c)
                      THEN [call[c] EXCEPT !.at = "failed", !.token = NoAccess]
                      ELSE call[c]
           orphan(r) == IF r = p THEN Done
                        ELSE IF request[r].tab # t THEN request[r]
                        ELSE IF request[r].at \in {"ok", "refused"} THEN Done
                        ELSE [request[r] EXCEPT !.tab = NoTab]
<1>1. /\ p # NoRefresh /\ refreshing' = [refreshing EXCEPT ![t] = NoRefresh]
      /\ call' = [c \in Calls |-> then(c)]
      /\ request' = [r \in DOMAIN request |-> orphan(r)]
  BY DEF Redirected
<1>2. p \in Senders /\ request[p].tab = t
  BY <1>1, CallsAreNotRequests DEF WaitInv, RefreshersAnswer, Refreshes
<1>3. \A r \in Senders : request[r].tab # t => orphan(r) = request[r]
  BY <1>2
<1> HIDE DEF orphan
<1>4. /\ request' = [r \in Senders |-> request'[r]]
      /\ \A r \in Senders : request[r].tab # t => request'[r] = request[r]
  BY <1>1, <1>3 DEF WaitInv, Shapes
<1>5. ASSUME NEW c \in Calls
      PROVE  /\ CallRecord(then(c)) /\ then(c).tab = call[c].tab
             /\ then(c).at = "waiting" => call[c].at = "waiting" /\ call[c].tab # t
  <2>1. CallRecord(call[c])
    BY DEF WaitInv, Shapes
  <2>2. CASE left(c)
    <3>1. ASSUME NEW k, CallRecord(k), NEW r,
                 r = [k EXCEPT !.at = "failed", !.token = NoAccess]
          PROVE  CallRecord(r) /\ r.tab = k.tab /\ r.at = "failed"
      BY <3>1 DEF CallRecord
    <3>2. PICK r : r = [call[c] EXCEPT !.at = "failed", !.token = NoAccess] /\ r = then(c)
      BY <2>2
    <3> HIDE DEF then
    <3> QED BY <2>1, <3>1, <3>2
  <2>3. CASE ~left(c)
    BY <2>1, <2>3 DEF CallsOf
  <2> QED BY <2>2, <2>3
<1> HIDE DEF then
<1>6. /\ call' = [c \in Calls |-> call'[c]]
      /\ \A c \in Calls : call'[c] = then(c)
  BY <1>1
<1> QED BY <1>1, <1>4, <1>5, <1>6, TabSettles

-----------------------------------------------------------------------------
LEMMA WaitInit == Init => WaitInv
<1> SUFFICES ASSUME Init PROVE WaitInv
  OBVIOUS
<1>1. \A t \in Tabs : refreshing[t] = NoRefresh
  BY DEF Init
<1>2. PICK rest \in Tabs :
        call = [c \in Calls |-> [tab |-> IF c = CHOOSE d \in Calls : TRUE
                                        THEN CHOOSE t \in Tabs : TRUE ELSE rest,
                                at |-> "idle", token |-> NoAccess]]
  BY DEF Init
<1>3. (CHOOSE t \in Tabs : TRUE) \in Tabs
  OBVIOUS
<1>4. \A c \in Calls : CallRecord(call[c]) /\ call[c].tab \in Tabs /\ call[c].at = "idle"
  BY <1>2, <1>3 DEF CallRecord
<1>5. Shapes
  BY <1>2, <1>4 DEF Init, Shapes
<1> QED BY <1>1, <1>4, <1>5 DEF WaitInv, RefreshersAnswer, WaitersRefresh

LEMMA WaitStep == WaitInv /\ [Next]_vars => WaitInv'
<1> SUFFICES ASSUME WaitInv, [Next]_vars PROVE WaitInv'
  OBVIOUS
<1>1. CASE \E c \in Calls : Call(c) \/ Succeeds(c) \/ Refused(c)
  BY <1>1, CallPreserves
<1>2. CASE \E c \in Calls : Unauthorized(c)
  BY <1>2, UnauthorizedPreserves
<1>3. CASE \E t \in Tabs : Refreshed(t)
  BY <1>3, RefreshedPreserves
<1>4. CASE \E t \in Tabs : Redirected(t)
  BY <1>4, RedirectedPreserves
<1>5. ASSUME NEW p \in Senders, StepOf(p), UNCHANGED <<refreshing, call>>
      PROVE  WaitInv'
  BY <1>5, StepPreserves
<1>6. CASE \E p \in Requests : LoggedIn(p) \/ LoggedOut(p)
  BY <1>5, <1>6, RequestIsStep DEF LoggedIn, LoggedOut, Senders
<1>7. CASE Server
  BY <1>5, <1>7, HandleIsStep DEF Server, client
<1>8. CASE \E p \in Requests : BeginElsewhere(p) /\ UNCHANGED client
  BY <1>5, <1>8, BeginElsewhereIsStep DEF client, Senders
<1>9. CASE \E p \in Requests, t \in Tabs : Login(p, t) \/ Logout(p, t)
  BY <1>5, <1>9, RequestIsStep DEF Login, Logout, BeginLogin, client, Senders
<1>10. CASE (\E p \in Senders : Fails(p)) /\ UNCHANGED client
  BY <1>5, <1>10, RespondIsStep DEF Fails, client
<1>11. CASE UNCHANGED <<request, refreshing, call>>
  BY <1>11 DEF WaitInv, Shapes, RefreshersAnswer, WaitersRefresh, Refreshes, Record,
     Senders, Requests, CallRecord
<1>12. CASE ExpireAccess
  BY <1>11, <1>12 DEF ExpireAccess
<1>13. CASE (\E i \in DOMAIN resets : ExpireLink(i)) /\ UNCHANGED client
  BY <1>11, <1>13 DEF ExpireLink, client
<1>14. CASE UNCHANGED vars
  BY <1>11, <1>14 DEF vars
<1> QED
  BY <1>1, <1>2, <1>3, <1>4, <1>6, <1>7, <1>8, <1>9, <1>10, <1>12, <1>13, <1>14
  DEF Next, Receive

\* A call that was refused and waits for its tab's refresh waits for a request
\* that is under way and will be answered to that tab, however many tabs share the
\* session and whatever fails or logs out meanwhile (api.ts, refreshPromise).
THEOREM NobodyIsLeftWaiting == Spec => []NobodyWaitsInVain
<1>1. WaitInv => NobodyWaitsInVain
  BY DEF WaitInv, Shapes, RefreshersAnswer, WaitersRefresh, NobodyWaitsInVain, Refreshes
<1> QED BY <1>1, WaitInit, WaitStep, PTL DEF Spec

-----------------------------------------------------------------------------
(* Every handler reads, and writes some operations later, and nothing      *)
(* locks the account or the tokens.  What makes the properties true is     *)
(* that two handlers under way at once know of each other (Witnessed): a   *)
(* token, an access token or a link carries what its handler met, so that  *)
(* the properties can except it.  The rest is that a chain has one end,    *)
(* which is a usable token or a handler that is about to issue the next.   *)

Setting == {"change", "reset"}

\* A session that has begun.
Known(s) == s \in {-1, -2} \/ (s \in Requests /\ request[s] # Idle)

AccessToken(a) ==
  /\ a = [version |-> a.version, password |-> a.password, amid |-> a.amid,
          expired |-> a.expired]
  /\ a.version \in Int /\ a.expired \in BOOLEAN

-----------------------------------------------------------------------------
(* What a handler has in memory at each step.                              *)

\* A handler that has read all it needs for the next tokens, and what they carry.
Issuing(q) ==
  \/ q.op = "refresh" /\ q.at \in {"revoke", "insert"}
  \/ q.op = "login" /\ q.at = "insert"

Issues(q) ==
  /\ Known(q.session) /\ q.password \in Requests \cup {First}
  /\ q.amid \subseteq Operations

FitsRefresh(p, q) == q.op = "refresh" =>
  /\ p \in Calls /\ q.tab \in Tabs /\ refreshing[q.tab] = p
  /\ q.at \in {"find", "user", "revoke", "insert", "ok", "refused"}
  /\ q.at \in {"user", "revoke"} => q.token # 0
  /\ q.at = "revoke" =>
       /\ q.session = tokens[q.token].session /\ q.password = tokens[q.token].password
       /\ q.amid = tokens[q.token].amid

FitsLogin(p, q) == q.op = "login" =>
  /\ p \in Requests /\ q.at \in {"insert", "ok"}
  /\ q.session = p /\ (q.at = "insert" => q.amid = {})

FitsIssue(q) ==
  /\ Issuing(q) => Issues(q) /\ q.version \in Nat
  /\ q.op \in {"login", "refresh"} /\ q.at = "ok" => q.token # 0 /\ q.access \in issued

FitsOther(p, q) ==
  /\ q.op \in {"logout", "change", "forgot", "reset", "delete"} => p \in Requests
  /\ q.op = "logout" => q.at \in {"guard", "revoke", "bump", "ok", "refused"}
                        /\ (q.at = "revoke" => q.token # 0)
  /\ q.op = "change" => q.version \in Nat /\ q.at \in {"save", "revokeAll", "ok", "refused"}
  /\ q.op = "forgot" => q.at \in {"supersede", "insert", "ok", "refused"}
  /\ q.op = "reset" => q.reset \in DOMAIN resets
       /\ q.at \in {"user", "save", "mark", "revokeAll", "bump", "ok", "refused"}
  /\ q.op = "delete" => ~user.exists /\ q.at \in {"dropTokens", "ok", "refused"}

Fits(p, q) ==
  /\ Record(q)
  /\ q.op \in {"none", "done"} \cup Operations
  /\ q.op = "none" => q = Idle
  /\ q.op = "done" => q = Done
  /\ q.token \in 0 .. Len(tokens)
  /\ FitsRefresh(p, q) /\ FitsLogin(p, q) /\ FitsIssue(q) /\ FitsOther(p, q)

AllFit == \A p \in Senders : Fits(p, request[p])

\* Requests begin one after the other.
Numbered == \E n \in 0 .. MaxBegun : \A r \in Requests : request[r] # Idle <=> r <= n

\* What goes on at the same time knows of each other.
Witnessed ==
  \A p \in Senders : \A r \in Senders \ {p} :
    /\ request[p].op \in Operations \ {"change", "delete"}
    /\ request[r].op \in Operations \ {"login", "delete"}
    => Met(request[r]) \in amid[p]

Account == [exists : BOOLEAN, password : Requests \cup {First}, version : Nat]

Link == [used : BOOLEAN, expired : BOOLEAN, amid : SUBSET Operations, saves : Nat]

Stored ==
  /\ user \in Account
  /\ tokens \in Seq(Token)
  /\ \A i \in DOMAIN tokens : Known(tokens[i].session)
  /\ \A i \in DOMAIN tokens : tokens[i].status = "gone" => ~user.exists
  /\ \A a \in issued : AccessToken(a) /\ ~a.expired
  /\ resets \in Seq(Link)
  /\ failures \in Nat
  /\ cookie \in 0 .. Len(tokens)
  /\ storage = NoAccess \/ (AccessToken(storage) /\ [storage EXCEPT !.expired = FALSE] \in issued)
  /\ refreshing \in [Tabs -> Calls \cup {NoRefresh}]
  /\ \A s \in ended : Known(s)

Remembered ==
  /\ amid = [p \in Senders |-> amid[p]]
  /\ \A p \in Senders : Ops(p) \subseteq Operations

BaseInv == WaitInv /\ Stored /\ AllFit /\ Numbered /\ Remembered /\ Witnessed

-----------------------------------------------------------------------------
(* Chains: a session goes on from a usable token, or from a handler that   *)
(* has found one and is to issue the next.                                 *)

Continues(p) ==
  LET q == request[p] IN
  \/ q.op \in {"login", "refresh"} /\ q.at = "insert"
  \/ q.op = "refresh" /\ q.at \in {"user", "revoke"} /\ ~Usable(q.token)

SessionOf(p) ==
  LET q == request[p] IN
  IF q.at = "insert" THEN q.session ELSE tokens[q.token].session

\* What the token it issues will have met.
MetBy(p) ==
  LET q == request[p] IN
  (IF q.at = "insert" THEN q.amid ELSE tokens[q.token].amid) \cup Ops(p)

\* A session with two ends has met a refresh at both.
OneEnd ==
  /\ \A i, j \in DOMAIN tokens :
       /\ i # j /\ Usable(i) /\ Usable(j) /\ tokens[i].session = tokens[j].session
       => "refresh" \in tokens[i].amid
  /\ \A i \in DOMAIN tokens, p \in Senders :
       /\ Usable(i) /\ Continues(p) /\ tokens[i].session = SessionOf(p)
       => "refresh" \in tokens[i].amid /\ "refresh" \in MetBy(p)
  /\ \A p \in Senders : \A r \in Senders \ {p} :
       /\ Continues(p) /\ Continues(r) /\ SessionOf(p) = SessionOf(r)
       => "refresh" \in MetBy(p)

\* A session has ended but for what a race left of it, or goes on from the token i
\* only.
EndsBut(s, i) ==
  /\ \A j \in DOMAIN tokens \ {i} :
       Usable(j) /\ tokens[j].session = s => "refresh" \in tokens[j].amid
  /\ \A p \in Senders : Continues(p) /\ SessionOf(p) = s => "refresh" \in MetBy(p)

Ends(s) == EndsBut(s, 0)

Newest(i) == EndsBut(tokens[i].session, i)

\* The token in an answer under way is nobody else's yet.
AnswersHold ==
  \A p \in Senders :
    LET q == request[p] IN
    q.op \in {"login", "refresh"} /\ q.at = "ok" =>
      /\ Newest(q.token) /\ cookie # q.token
      /\ \A r \in Senders \ {p} : request[r].token # q.token

\* The cookie is the newest token, unless its answer is under way or was lost.
Refreshing(p) == request[p].op = "refresh" /\ request[p].at \in {"user", "revoke", "insert", "ok"}

CookieNewest ==
  \/ cookie = 0 \/ Newest(cookie)
  \/ failures > 0 \/ ~user.exists
  \/ \E p \in Senders : Refreshing(p)

Raced(p) == \E r \in amid[p] : r.op = "refresh" /\ r.tab # request[p].tab

\* What a refresh goes on to find, and why it gives up.
RefreshesHold ==
  \A p \in Senders :
    LET q == request[p] IN
    q.op = "refresh" /\ q.at \in {"find", "refused"} =>
      \/ q.token = 0 \/ failures > 0 \/ ~user.exists \/ Raced(p)
      \/ q.at = "find" /\ Newest(q.token)
      \/ q.at = "refused" /\ Ends(tokens[q.token].session)

\* Somebody who can log out has the newest token, or is about to.
StorageNewest ==
  \/ storage = NoAccess \/ cookie = 0 \/ Newest(cookie)
  \/ \E p \in Senders : request[p].op = "refresh"

LogoutsHold ==
  \A p \in Senders :
    LET q == request[p] IN
    q.op = "logout" =>
      \/ q.token = 0 \/ "refresh" \in Ops(p) \/ q.at = "refused"
      \/ q.at \in {"guard", "revoke"} /\ Newest(q.token)
      \/ q.at \in {"bump", "ok"} /\ Ends(tokens[q.token].session)

EndedHold == \A s \in ended : Ends(s)

ChainInv ==
  /\ OneEnd /\ AnswersHold /\ CookieNewest /\ RefreshesHold
  /\ StorageNewest /\ LogoutsHold /\ EndedHold

-----------------------------------------------------------------------------
(* Passwords and versions.                                                 *)

Revokes(p) ==
  \/ request[p].op = "change" /\ request[p].at = "revokeAll"
  \/ request[p].op = "reset" /\ request[p].at \in {"mark", "revokeAll"}

Bumps(p) == request[p].op = "reset" /\ request[p].at \in {"mark", "revokeAll", "bump"}

TokensCurrent ==
  \A i \in DOMAIN tokens : Usable(i) /\ user.exists =>
    \/ tokens[i].password = user.password
    \/ tokens[i].amid \cap Setting # {}
    \/ \E p \in Senders : Revokes(p)

\* What a login or a refresh has read is what the account says, or a handler that
\* changes it was under way at the same time.
ReadsRight(p) ==
  LET q == request[p] IN
  user.exists =>
    /\ q.op = "refresh" /\ q.at = "user" =>
         \/ tokens[q.token].password = user.password
         \/ (tokens[q.token].amid \cup Ops(p)) \cap Setting # {}
    /\ Issuing(q) =>
         /\ \/ q.password = user.password
            \/ (q.amid \cup Ops(p)) \cap Setting # {}
         /\ \/ q.version = user.version
            \/ (q.amid \cup Ops(p)) \cap (Setting \cup {"logout"}) # {}

ReadsCurrent == \A p \in Senders : ReadsRight(p)

\* An access token's version is never handed out again.
AccessCurrent ==
  \A a \in issued : user.exists =>
    \/ a.amid \cap (Setting \cup {"logout"}) # {}
    \/ /\ a.version <= user.version
       /\ \A p \in Senders : request[p].op = "change" /\ request[p].at = "save" =>
            a.version <= request[p].version
       /\ a.version = user.version =>
            a.password = user.password \/ \E p \in Senders : Bumps(p)

PasswordInv == TokensCurrent /\ ReadsCurrent /\ AccessCurrent

-----------------------------------------------------------------------------
(* Reset links.                                                            *)

LinksSpent ==
  /\ LinkUsedOnce
  /\ \A i \in DOMAIN resets : resets[i].saves > 0 =>
       \/ resets[i].used
       \/ \E p \in Senders : At(p, "reset", "mark") /\ request[p].reset = i
  /\ \A p \in Senders :
       /\ request[p].op = "reset" /\ request[p].at \in {"user", "save"}
       /\ resets[request[p].reset].saves > 0
       => "reset" \in Ops(p)

LinksReplaced ==
  /\ NewestLinkOnly
  /\ \A p \in Senders, i \in DOMAIN resets :
       At(p, "forgot", "insert") /\ ~resets[i].used => "forgot" \in resets[i].amid \cup Ops(p)

LinkInv == LinksSpent /\ LinksReplaced

-----------------------------------------------------------------------------
(* How handlers go on.                                                     *)

\* Only the handler p moves.
Only(p) == \A r \in Senders \ {p} : request'[r] = request[r]

\* The same request, at another step.
Same(q, old) ==
  /\ Record(q)
  /\ q.op = old.op /\ q.tab = old.tab /\ q.token = old.token /\ q.access = old.access
  /\ q.version = old.version /\ q.reset = old.reset /\ q.session = old.session
  /\ q.password = old.password /\ q.amid = old.amid

\* It has been answered: its tab has yet to hear, or there is nobody to hear.
Answered(p, answer) ==
  \/ request[p].tab = NoTab /\ request'[p] = Done
  \/ request[p].tab # NoTab /\ Same(request'[p], request[p]) /\ request'[p].at = answer

\* Of what there was nothing is forgotten.
Grows ==
  /\ DOMAIN tokens \subseteq DOMAIN tokens' /\ Len(tokens) <= Len(tokens')
  /\ \A i \in DOMAIN tokens : /\ tokens'[i].session = tokens[i].session
                              /\ tokens'[i].password = tokens[i].password
                              /\ tokens'[i].amid = tokens[i].amid
  /\ issued \subseteq issued' /\ DOMAIN resets \subseteq DOMAIN resets'
  /\ \A r \in Requests : request[r] # Idle => request'[r] # Idle
  /\ user'.exists => user.exists

LEMMA DoneIs ==
  /\ Record(Done) /\ Done.op = "done" /\ Done.tab = NoTab /\ Done.token = 0
  /\ Done.at = "begin" /\ Done.amid = {} /\ Done # Idle
<1>1. ASSUME NEW i, Record(i), NEW r, r = [i EXCEPT !.op = "done"]
      PROVE  Record(r) /\ r.op = "done" /\ r.tab = i.tab /\ r.token = i.token
             /\ r.at = i.at /\ r.amid = i.amid
  BY <1>1 DEF Record
<1>2. Idle.op = "none" /\ Idle.tab = NoTab /\ Idle.token = 0 /\ Idle.at = "begin" /\ Idle.amid = {}
  BY DEF Idle
<1>3. Record(Idle)
  BY IdleRecord
<1>4. Record(Done) /\ Done.op = "done" /\ Done.tab = NoTab /\ Done.token = 0
      /\ Done.at = "begin" /\ Done.amid = {}
  BY <1>1, <1>2, <1>3 DEF Done
<1> QED BY <1>2, <1>4

LEMMA Becoming ==
  ASSUME BaseInv, NEW p \in Senders, NEW q, request' = [request EXCEPT ![p] = q]
  PROVE  request'[p] = q /\ Only(p)
BY DEF BaseInv, WaitInv, Shapes, Only

LEMMA GoesOn ==
  ASSUME BaseInv, NEW p \in Senders, NEW step, GoTo(p, step)
  PROVE  Only(p) /\ Same(request'[p], request[p]) /\ request'[p].at = step
<1> DEFINE q == [request[p] EXCEPT !.at = step]
<1>1. request' = [request EXCEPT ![p] = q]
  BY DEF GoTo, Becomes
<1>2. Same(q, request[p]) /\ q.at = step
  <2>1. ASSUME NEW i, Record(i), NEW r, r = [i EXCEPT !.at = step]
        PROVE  Same(r, i) /\ r.at = step
    BY <2>1 DEF Record, Same
  <2>2. Record(request[p])
    BY DEF BaseInv, AllFit, Fits
  <2> QED BY <2>1, <2>2
<1> HIDE DEF q
<1> QED BY <1>1, <1>2, Becoming

LEMMA RespondAnswers ==
  ASSUME BaseInv, NEW p \in Senders, NEW answer, Respond(p, answer)
  PROVE  Only(p) /\ Answered(p, answer)
<1>1. CASE request[p].tab = NoTab
  <2>1. request' = [request EXCEPT ![p] = Done]
    BY <1>1 DEF Respond, Becomes
  <2> QED BY <1>1, <2>1, Becoming DEF Answered
<1>2. CASE request[p].tab # NoTab
  <2>1. GoTo(p, answer)
    BY <1>2 DEF Respond, GoTo, Becomes
  <2> QED BY <1>2, <2>1, GoesOn DEF Answered
<1> QED BY <1>1, <1>2

\* A handler that has ended relies on nothing.
LEMMA DoneFits ==
  ASSUME BaseInv, Len(tokens)' \in Nat, NEW p \in Senders, request'[p] = Done
  PROVE  Fits(p, request[p])'
BY DoneIs DEF Fits, FitsRefresh, FitsLogin, FitsIssue, FitsOther, Operations, Issuing

\* What the others rely on is kept.
LEMMA OthersFit ==
  ASSUME BaseInv, Grows, Len(tokens') \in Nat, NEW p \in Senders, request'[p] = request[p],
         request[p].op = "refresh" =>
           refreshing'[request[p].tab] = refreshing[request[p].tab]
  PROVE  Fits(p, request[p])'
<1> DEFINE q == request[p]
<1>1. Fits(p, q) /\ request'[p] = q
  BY DEF BaseInv, AllFit
<1>2. q.token \in 0 .. Len(tokens')
  BY <1>1 DEF Fits, Grows, BaseInv, Stored
<1>3. \A s : Known(s) => Known(s)'
  BY DEF Known, Grows, Requests
<1>4. FitsRefresh(p, q)'
  <2>1. q.op = "refresh" /\ q.at = "revoke" => q.token \in DOMAIN tokens
    BY <1>1 DEF Fits, FitsRefresh, BaseInv, Stored
  <2> QED BY <1>1, <2>1 DEF Fits, FitsRefresh, Grows
<1>5. FitsLogin(p, q)' /\ FitsIssue(q)' /\ FitsOther(p, q)'
  BY <1>1, <1>3 DEF Fits, FitsLogin, FitsIssue, Issuing, Issues, FitsOther, Grows, Requests,
     Operations
<1> QED BY <1>1, <1>2, <1>4, <1>5 DEF Fits, Operations

\* An answer, but a login's or a refresh's.
LEMMA AnsweredFits ==
  ASSUME BaseInv, Grows, Len(tokens') \in Nat, UNCHANGED refreshing, NEW p \in Senders,
         NEW answer \in {"ok", "refused"}, Answered(p, answer),
         request[p].op \in Operations \ {"login"},
         request[p].op = "refresh" => answer = "refused"
  PROVE  Fits(p, request[p])'
<1> DEFINE old == request[p]
<1>1. CASE request'[p] = Done
  BY <1>1, DoneFits
<1>2. CASE Same(request'[p], old) /\ request'[p].at = answer
  <2>1. Fits(p, old)
    BY DEF BaseInv, AllFit
  <2>2. request'[p].token \in 0 .. Len(tokens')
    BY <1>2, <2>1 DEF Fits, Grows, BaseInv, Stored, Same
  <2>3. FitsRefresh(p, request[p])' /\ FitsLogin(p, request[p])' /\ FitsIssue(request[p])'
    BY <1>2, <2>1 DEF Same, Fits, FitsRefresh, FitsLogin, FitsIssue, Issuing
  <2>4. FitsOther(p, request[p])'
    BY <1>2, <2>1 DEF Same, Fits, FitsOther, Grows, Requests
  <2> QED BY <1>2, <2>1, <2>2, <2>3, <2>4 DEF Same, Fits, Operations
<1> QED BY <1>1, <1>2 DEF Answered

-----------------------------------------------------------------------------
(* What two handlers know of each other.                                   *)

LEMMA Meets ==
  ASSUME BaseInv, Overlaps, AllFit'
  PROVE  /\ Witnessed' /\ Remembered'
         /\ \A p \in Senders : request'[p].op \in Operations \ {"change", "delete"} =>
              amid[p] \subseteq amid'[p]
<1>1. \A p \in Senders :
        amid'[p] = IF ~Active(p)' \/ request'[p].op \in {"change", "delete"} THEN {}
                   ELSE amid[p] \cup
                        {Met(request'[r]) :
                           r \in {r \in Senders \ {p} :
                                   Active(r)' /\ request'[r].op \notin {"login", "delete"}}}
  BY DEF Overlaps
<1>2. \A p \in Senders : /\ request'[p].op \in Operations => Active(p)'
                         /\ Active(p)' => request'[p].op \in Operations
  <2> SUFFICES ASSUME NEW p \in Senders
               PROVE  /\ request'[p].op \in Operations => Active(p)'
                      /\ Active(p)' => request'[p].op \in Operations
    OBVIOUS
  <2>1. Fits(p, request[p])'
    BY DEF AllFit, Senders, Requests
  <2>2. Idle.op = "none"
    BY DEF Idle
  <2> QED BY <2>1, <2>2, DoneIs DEF Fits, Active, Operations
<1>3. Witnessed'
  BY <1>1, <1>2 DEF Witnessed, Senders, Requests, Operations
<1>4. \A p \in Senders : request'[p].op \in Operations \ {"change", "delete"} =>
        amid[p] \subseteq amid'[p]
  BY <1>1, <1>2
<1>5. Remembered'
  <2>1. amid' = [p \in Senders |-> amid'[p]]
    BY DEF Overlaps
  <2>2. ASSUME NEW p \in Senders, NEW m \in amid'[p]
        PROVE  m.op \in Operations
    <3>1. CASE m \in amid[p]
      BY <3>1 DEF BaseInv, Remembered, Ops
    <3>2. CASE \E r \in Senders : Active(r)' /\ m = Met(request'[r])
      BY <1>2, <3>2 DEF Met
    <3> DEFINE others == {r \in Senders \ {p} :
                            Active(r)' /\ request'[r].op \notin {"login", "delete"}}
               met == {Met(request'[r]) : r \in others}
    <3>3. amid'[p] = {} \/ amid'[p] = amid[p] \cup met
      BY <1>1
    <3>4. m \in met => \E r \in others : m = Met(request'[r])
      OBVIOUS
    <3>5. \A r \in others : r \in Senders /\ Active(r)'
      OBVIOUS
    <3> HIDE DEF met, others
    <3> QED BY <2>2, <3>1, <3>2, <3>3, <3>4, <3>5
  <2> QED BY <2>1, <2>2 DEF Remembered, Ops, Senders, Requests
<1> QED BY <1>3, <1>4, <1>5

\* The base of the invariant, from what one handler does.
LEMMA BaseKept ==
  ASSUME BaseInv, WaitInv', Overlaps, Grows, Stored', Numbered',
         NEW p \in Senders, Only(p), Fits(p, request[p])',
         \A r \in Senders \ {p} : request[r].op = "refresh" =>
           refreshing'[request[r].tab] = refreshing[request[r].tab]
  PROVE  BaseInv'
<1>1. Len(tokens') \in Nat
  BY DEF Stored
<1>2. AllFit'
  BY <1>1, OthersFit DEF AllFit, Only, Senders, Requests
<1> QED BY <1>2, Meets DEF BaseInv

-----------------------------------------------------------------------------
(* Numbers of requests.                                                    *)

LEMMA NumbersKept ==
  ASSUME BaseInv, \A r \in Requests : request'[r] = Idle <=> request[r] = Idle
  PROVE  Numbered'
BY DEF BaseInv, Numbered, Requests

LEMMA FreshIs ==
  ASSUME BaseInv, NEW p, Fresh(p)
  PROVE  /\ p \in Requests /\ p \in Senders /\ request[p] = Idle
         /\ (Only(p) /\ request'[p] # Idle => Numbered')
<1>1. PICK n \in 0 .. MaxBegun : \A r \in Requests : request[r] # Idle <=> r <= n
  BY DEF BaseInv, Numbered
<1>2. {r \in Requests : request[r] # Idle} = 1 .. n
  BY <1>1, SessionsAssumption DEF Requests
<1>3. Cardinality(1 .. n) = n
  <2>1. 1 \in Int /\ n \in Int /\ 1 <= n + 1
    BY SessionsAssumption
  <2> QED BY <2>1, FS_Interval
<1>4. p \in Requests /\ p = n + 1
  BY <1>2, <1>3 DEF Fresh
<1>5. ASSUME Only(p), request'[p] # Idle
      PROVE  Numbered'
  <2>1. \A r \in Requests : request'[r] # Idle <=> r <= n + 1
    BY <1>1, <1>4, <1>5, SessionsAssumption DEF Only, Senders, Requests
  <2>2. n + 1 \in 0 .. MaxBegun
    BY <1>4, SessionsAssumption DEF Requests
  <2> QED BY <2>1, <2>2 DEF Numbered, Requests
<1>6. request[p] = Idle
  BY <1>1, <1>4, SessionsAssumption
<1> QED BY <1>4, <1>5, <1>6 DEF Senders

-----------------------------------------------------------------------------
(* What the steps do to the documents.                                     *)

\* Tokens are revoked or deleted, and nothing else.
TokensKept ==
  /\ tokens' \in Seq(Token) /\ DOMAIN tokens' = DOMAIN tokens /\ Len(tokens') = Len(tokens)
  /\ \A i \in DOMAIN tokens :
       /\ tokens'[i].session = tokens[i].session
       /\ tokens'[i].password = tokens[i].password
       /\ tokens'[i].amid = tokens[i].amid
       /\ tokens'[i].status = tokens[i].status \/ tokens'[i].status # "live"

LEMMA InTheirPlaces ==
  ASSUME NEW S, NEW s \in Seq(S), NEW t, DOMAIN t = DOMAIN s, t = [i \in DOMAIN t |-> t[i]],
         \A i \in DOMAIN s : t[i] \in S
  PROVE  t \in Seq(S) /\ Len(t) = Len(s)
<1>1. DOMAIN s = 1 .. Len(s) /\ Len(s) \in Nat
  OBVIOUS
<1>2. t \in [1 .. Len(s) -> S]
  BY <1>1
<1> QED BY <1>1, <1>2, SeqDef

\* Some of the tokens take another status.
LEMMA StatusesKeep ==
  ASSUME tokens \in Seq(Token), NEW status \in {"revoked", "gone"}, NEW chosen,
         tokens' = [i \in DOMAIN tokens |->
                      IF i \in chosen THEN [tokens[i] EXCEPT !.status = status] ELSE tokens[i]]
  PROVE  /\ TokensKept
         /\ \A i \in DOMAIN tokens :
              tokens'[i].status = IF i \in chosen THEN status ELSE tokens[i].status
<1>1. ASSUME NEW i \in DOMAIN tokens
      PROVE  /\ tokens'[i] \in Token
             /\ tokens'[i].session = tokens[i].session
             /\ tokens'[i].password = tokens[i].password
             /\ tokens'[i].amid = tokens[i].amid
             /\ tokens'[i].status = IF i \in chosen THEN status ELSE tokens[i].status
  <2>1. tokens[i] \in Token
    OBVIOUS
  <2>2. CASE i \in chosen
    <3>1. tokens'[i] = [tokens[i] EXCEPT !.status = status]
      BY <2>2
    <3> QED BY <2>1, <2>2, <3>1 DEF Token
  <2>3. CASE i \notin chosen
    <3>1. tokens'[i] = tokens[i]
      BY <2>3
    <3> QED BY <2>1, <2>3, <3>1
  <2> QED BY <2>2, <2>3
<1>2. tokens' \in Seq(Token) /\ Len(tokens') = Len(tokens)
  BY <1>1, InTheirPlaces
<1> QED BY <1>1, <1>2 DEF TokensKept

LEMMA TokensSame ==
  ASSUME tokens \in Seq(Token), UNCHANGED tokens
  PROVE  TokensKept
BY DEF TokensKept

LEMMA RevokesOne ==
  ASSUME tokens \in Seq(Token), NEW k \in DOMAIN tokens,
         tokens' = [tokens EXCEPT ![k].status = "revoked"]
  PROVE  /\ TokensKept /\ tokens'[k].status = "revoked"
         /\ \A i \in DOMAIN tokens \ {k} : tokens'[i].status = tokens[i].status
<1>1. tokens' = [i \in DOMAIN tokens |->
                   IF i \in {k} THEN [tokens[i] EXCEPT !.status = "revoked"] ELSE tokens[i]]
  OBVIOUS
<1> QED BY <1>1, StatusesKeep

\* Everything stays that was there, when tokens are kept.
LEMMA KeptGrows ==
  ASSUME Stored, TokensKept, issued \subseteq issued', DOMAIN resets \subseteq DOMAIN resets',
         user'.exists => user.exists,
         \A r \in Requests : request[r] # Idle => request'[r] # Idle
  PROVE  Grows /\ Len(tokens') \in Nat
BY DEF Grows, TokensKept, Stored

LEMMA StoredKept ==
  ASSUME Stored, Grows, TokensKept, user' \in Account, resets' \in Seq(Link), failures' \in Nat,
         \A i \in DOMAIN tokens : tokens'[i].status = "gone" =>
           tokens[i].status = "gone" \/ ~user'.exists,
         UNCHANGED <<issued, cookie, storage, ended>>,
         refreshing' \in [Tabs -> Calls \cup {NoRefresh}]
  PROVE  Stored'
<1>1. \A s : Known(s) => Known(s)'
  BY DEF Known, Grows, Requests
<1>2. ASSUME NEW i \in DOMAIN tokens'
      PROVE  Known(tokens[i].session)'
  <2>1. i \in DOMAIN tokens /\ tokens'[i].session = tokens[i].session
    BY DEF TokensKept
  <2> QED BY <1>1, <2>1 DEF Stored
<1>3. \A i \in DOMAIN tokens' : tokens'[i].status = "gone" => ~user'.exists
  BY DEF TokensKept, Stored, Grows
<1>4. storage' = NoAccess \/ (AccessToken(storage)' /\ [storage' EXCEPT !.expired = FALSE] \in issued')
  BY DEF Stored, AccessToken
<1>5. \A a \in issued' : AccessToken(a)' /\ ~a.expired
  BY DEF Stored, AccessToken
<1> QED BY <1>1, <1>2, <1>3, <1>4, <1>5 DEF Stored, TokensKept, Account, Link, Requests

\* A step of a server's handler that inserts neither tokens nor requests.
LEMMA ServerKeeps ==
  ASSUME BaseInv, WaitInv', Overlaps, NEW p \in Senders, Only(p),
         request[p] # Idle, request'[p] # Idle,
         TokensKept, user' \in Account, resets' \in Seq(Link), failures' \in Nat,
         user'.exists => user.exists, DOMAIN resets \subseteq DOMAIN resets',
         \A i \in DOMAIN tokens : tokens'[i].status = "gone" =>
           tokens[i].status = "gone" \/ ~user'.exists,
         UNCHANGED <<issued, cookie, storage, refreshing, ended>>,
         Grows /\ Len(tokens') \in Nat => Fits(p, request[p])'
  PROVE  BaseInv'
<1>1. \A r \in Requests : request'[r] = Idle <=> request[r] = Idle
  BY DEF Only, Senders
<1>2. Grows /\ Len(tokens') \in Nat
  BY <1>1, KeptGrows DEF BaseInv
<1>3. Stored'
  BY <1>2, StoredKept DEF BaseInv, Stored
<1>4. Numbered'
  BY <1>1, NumbersKept
<1> QED BY <1>2, <1>3, <1>4, BaseKept

-----------------------------------------------------------------------------
(* The handlers of the server.                                             *)

\* A request under way is not one that has not begun.
LEMMA NotIdle ==
  ASSUME BaseInv, NEW p \in Senders, request[p].op \in Operations
  PROVE  /\ request[p] # Idle
         /\ \A q : Same(q, request[p]) => q # Idle
         /\ \A answer : Answered(p, answer) => request'[p] # Idle
<1>1. Idle.op = "none"
  BY DEF Idle
<1> QED BY <1>1, DoneIs DEF Operations, Same, Answered

LEMMA AccountSteps ==
  ASSUME user \in Account
  PROVE  /\ [user EXCEPT !.version = @ + 1] \in Account
         /\ [user EXCEPT !.version = @ + 1].exists = user.exists
         /\ \A p \in Requests, v \in Nat :
              /\ [user EXCEPT !.password = p] \in Account
              /\ [user EXCEPT !.password = p].exists = user.exists
              /\ [user EXCEPT !.password = p, !.version = v] \in Account
              /\ [user EXCEPT !.password = p, !.version = v].exists = user.exists
         /\ [user EXCEPT !.exists = FALSE] \in Account
         /\ ~[user EXCEPT !.exists = FALSE].exists
<1>1. user.version + 1 \in Nat
  BY DEF Account
<1>2. ASSUME NEW v \in Nat
      PROVE  [user EXCEPT !.version = v] \in Account /\ [user EXCEPT !.version = v].exists = user.exists
  BY DEF Account
<1>3. ASSUME NEW p \in Requests, NEW v \in Nat
      PROVE  /\ [user EXCEPT !.password = p] \in Account
             /\ [user EXCEPT !.password = p].exists = user.exists
             /\ [user EXCEPT !.password = p, !.version = v] \in Account
             /\ [user EXCEPT !.password = p, !.version = v].exists = user.exists
  BY DEF Account
<1>4. [user EXCEPT !.exists = FALSE] \in Account /\ ~[user EXCEPT !.exists = FALSE].exists
  BY DEF Account
<1> QED BY <1>1, <1>2, <1>3, <1>4

\* Links change in their places.
LEMMA LinksKeep ==
  ASSUME resets \in Seq(Link), DOMAIN resets' = DOMAIN resets,
         resets' = [i \in DOMAIN resets' |-> resets'[i]],
         \A i \in DOMAIN resets : resets'[i] \in Link
  PROVE  resets' \in Seq(Link) /\ DOMAIN resets \subseteq DOMAIN resets'
BY InTheirPlaces

\* A handler that neither logs in nor refreshes takes a step.
LEMMA OtherHandles ==
  ASSUME BaseInv, WaitInv', Overlaps, NEW p \in Senders, Only(p),
         request[p].op \in Operations \ {"login", "refresh"},
         TokensKept, user' \in Account, resets' \in Seq(Link),
         user'.exists => user.exists, DOMAIN resets \subseteq DOMAIN resets',
         \A i \in DOMAIN tokens : tokens'[i].status = "gone" =>
           tokens[i].status = "gone" \/ ~user'.exists,
         UNCHANGED <<issued, failures, client>>,
         \/ \E answer \in {"ok", "refused"} : Answered(p, answer)
         \/ /\ Same(request'[p], request[p])
            /\ request[p].op = "logout" => request'[p].at = "bump" \/ (request'[p].at = "revoke" /\ request[p].token # 0)
            /\ request[p].op = "change" => request'[p].at = "revokeAll"
            /\ request[p].op = "forgot" => request'[p].at = "insert"
            /\ request[p].op = "reset" => request'[p].at \in {"save", "mark", "revokeAll", "bump"}
            /\ request[p].op # "delete"
  PROVE  BaseInv'
<1>1. request[p] # Idle /\ request'[p] # Idle
  BY NotIdle
<1>2. ASSUME Grows, Len(tokens') \in Nat
      PROVE  Fits(p, request[p])'
  <2>1. CASE \E answer \in {"ok", "refused"} : Answered(p, answer)
    BY <1>2, <2>1, AnsweredFits DEF client, Operations
  <2>2. CASE ~\E answer \in {"ok", "refused"} : Answered(p, answer)
    <3>1. Fits(p, request[p])
      BY DEF BaseInv, AllFit
    <3>2. Same(request'[p], request[p]) /\ request'[p].op = request[p].op
      BY <2>2 DEF Same
    <3>3. request'[p].token \in 0 .. Len(tokens')
      BY <1>2, <3>1, <3>2 DEF Fits, Grows, BaseInv, Stored, Same
    <3>4. FitsRefresh(p, request[p])' /\ FitsLogin(p, request[p])' /\ FitsIssue(request[p])'
      BY <3>2 DEF Same, FitsRefresh, FitsLogin, FitsIssue, Issuing
    <3>5. FitsOther(p, request[p])'
      BY <1>2, <2>2, <3>1, <3>2 DEF Same, Fits, FitsOther, Grows, Requests
    <3> QED BY <3>1, <3>2, <3>3, <3>4, <3>5 DEF Same, Fits, Operations
  <2> QED BY <2>1, <2>2
<1>3. failures' \in Nat
  BY DEF BaseInv, Stored
<1> QED BY <1>1, <1>2, <1>3, ServerKeeps DEF client

LEMMA LogoutsBase ==
  ASSUME BaseInv, WaitInv', Overlaps, NEW p \in Senders, UNCHANGED client,
         LogoutGuard(p) \/ LogoutRevoke(p)
  PROVE  BaseInv'
<1>1. Fits(p, request[p]) /\ request[p].op = "logout" /\ Stored
  BY DEF BaseInv, AllFit, LogoutGuard, LogoutRevoke, At
<1>2. CASE LogoutGuard(p)
  <2>1. TokensKept /\ resets' \in Seq(Link) /\ user' \in Account
    BY <1>1, <1>2, TokensSame DEF Stored, LogoutGuard, server
  <2>2. Only(p) /\ \/ \E answer \in {"ok", "refused"} : Answered(p, answer)
                   \/ /\ Same(request'[p], request[p])
                      /\ request'[p].at = "revoke" /\ request[p].token # 0
    BY <1>2, GoesOn, RespondAnswers DEF LogoutGuard
  <2> QED BY <1>1, <1>2, <2>1, <2>2, OtherHandles DEF LogoutGuard, server, Operations, Stored
<1>3. CASE LogoutRevoke(p)
  <2> DEFINE i == request[p].token
  <2>1. i \in DOMAIN tokens
    BY <1>1, <1>3 DEF Stored, Fits, FitsOther, LogoutRevoke, At
  <2>2. TokensKept /\ \A j \in DOMAIN tokens : tokens'[j].status \in {tokens[j].status, "revoked"}
    BY <1>1, <1>3, <2>1, RevokesOne, TokensSame DEF Stored, LogoutRevoke
  <2>3. Only(p) /\ Same(request'[p], request[p]) /\ request'[p].at = "bump"
    BY <1>3, GoesOn DEF LogoutRevoke
  <2> QED BY <1>1, <1>3, <2>2, <2>3, OtherHandles DEF LogoutRevoke, server, Operations, Stored
<1> QED BY <1>2, <1>3

LEMMA RevokesAll ==
  ASSUME tokens \in Seq(Token), NEW p, RevokeAll(p)
  PROVE  /\ TokensKept
         /\ \A i \in DOMAIN tokens :
              tokens'[i].status = IF tokens[i].status = "live" THEN "revoked" ELSE tokens[i].status
<1> DEFINE chosen == {i \in DOMAIN tokens : tokens[i].status = "live"}
<1>1. tokens' = [i \in DOMAIN tokens |->
                   IF i \in chosen THEN [tokens[i] EXCEPT !.status = "revoked"] ELSE tokens[i]]
  BY DEF RevokeAll
<1>2. \A i \in DOMAIN tokens : i \in chosen <=> tokens[i].status = "live"
  OBVIOUS
<1> HIDE DEF chosen
<1> QED BY <1>1, <1>2, StatusesKeep

LEMMA DropsAll ==
  ASSUME tokens \in Seq(Token), NEW p, DropTokens(p)
  PROVE  TokensKept /\ \A i \in DOMAIN tokens : tokens'[i].status = "gone"
<1> DEFINE chosen == DOMAIN tokens
<1>1. tokens' = [i \in DOMAIN tokens |->
                   IF i \in chosen THEN [tokens[i] EXCEPT !.status = "gone"] ELSE tokens[i]]
  BY DEF DropTokens
<1> HIDE DEF chosen
<1>2. TokensKept /\ \A i \in DOMAIN tokens :
                      tokens'[i].status = IF i \in chosen THEN "gone" ELSE tokens[i].status
  BY <1>1, StatusesKeep
<1> QED BY <1>2 DEF chosen

LEMMA PasswordsBase ==
  ASSUME BaseInv, WaitInv', Overlaps, NEW p \in Senders, UNCHANGED client,
         Bump(p) \/ ChangeSave(p) \/ RevokeAll(p) \/ ResetUser(p) \/ DropTokens(p)
  PROVE  BaseInv'
<1>1. Fits(p, request[p]) /\ Stored /\ Idle.at = "begin" /\ Done.at = "begin"
  BY DoneIs DEF BaseInv, AllFit, Idle
<1>2. CASE Bump(p)
  <2>1. request[p].op \in {"logout", "reset"}
    BY <1>1, <1>2 DEF Fits, FitsRefresh, FitsLogin, FitsOther, Operations, Bump
  <2>2. TokensKept /\ resets' \in Seq(Link) /\ user' \in Account /\ user'.exists = user.exists
    BY <1>1, <1>2, TokensSame, AccountSteps DEF Stored, Bump
  <2>3. Only(p) /\ Answered(p, "ok")
    BY <1>2, RespondAnswers DEF Bump
  <2> QED BY <1>1, <1>2, <2>1, <2>2, <2>3, OtherHandles DEF Bump, Operations, Stored
<1>3. CASE ChangeSave(p)
  <2>1. request[p].op = "change" /\ p \in Requests /\ request[p].version + 1 \in Nat
    BY <1>1, <1>3 DEF ChangeSave, At, Fits, FitsOther
  <2>2. TokensKept /\ resets' \in Seq(Link) /\ user' \in Account /\ user'.exists = user.exists
    BY <1>1, <1>3, <2>1, TokensSame, AccountSteps DEF Stored, ChangeSave
  <2>3. Only(p) /\ (Answered(p, "refused")
                    \/ (Same(request'[p], request[p]) /\ request'[p].at = "revokeAll"))
    BY <1>3, GoesOn, RespondAnswers DEF ChangeSave
  <2> QED BY <1>1, <1>3, <2>1, <2>2, <2>3, OtherHandles DEF ChangeSave, Operations, Stored
<1>4. CASE RevokeAll(p)
  <2>1. request[p].op \in {"change", "reset"}
    BY <1>1, <1>4 DEF Fits, FitsRefresh, FitsLogin, FitsOther, Operations, RevokeAll
  <2>2. TokensKept /\ resets' \in Seq(Link) /\ user' \in Account
        /\ \A i \in DOMAIN tokens : tokens'[i].status \in {tokens[i].status, "revoked"}
    BY <1>1, <1>4, RevokesAll DEF Stored, RevokeAll
  <2>3. Only(p) /\ (Answered(p, "ok")
                    \/ (/\ request[p].op = "reset"
                        /\ Same(request'[p], request[p]) /\ request'[p].at = "bump"))
    BY <1>4, GoesOn, RespondAnswers DEF RevokeAll
  <2> QED BY <1>1, <1>4, <2>1, <2>2, <2>3, OtherHandles DEF RevokeAll, Operations, Stored
<1>5. CASE ResetUser(p)
  <2>1. request[p].op = "reset"
    BY <1>5 DEF ResetUser, At
  <2>2. TokensKept /\ resets' \in Seq(Link) /\ user' \in Account
    BY <1>1, <1>5, TokensSame DEF Stored, ResetUser, server
  <2>3. Only(p) /\ (Answered(p, "refused")
                    \/ (Same(request'[p], request[p]) /\ request'[p].at = "save"))
    BY <1>5, GoesOn, RespondAnswers DEF ResetUser
  <2> QED BY <1>1, <1>5, <2>1, <2>2, <2>3, OtherHandles DEF ResetUser, Operations, Stored, server
<1>6. CASE DropTokens(p)
  <2>1. request[p].op = "delete" /\ ~user.exists
    BY <1>1, <1>6 DEF DropTokens, At, Fits, FitsOther
  <2>2. TokensKept /\ resets' \in Seq(Link) /\ user' \in Account
    BY <1>1, <1>6, DropsAll DEF Stored, DropTokens
  <2>3. Only(p) /\ Answered(p, "ok")
    BY <1>6, RespondAnswers DEF DropTokens
  <2> QED BY <1>1, <1>6, <2>1, <2>2, <2>3, OtherHandles DEF DropTokens, Operations, Stored
<1> QED BY <1>2, <1>3, <1>4, <1>5, <1>6

\* What the steps do to the links.
LEMMA Supersedes ==
  ASSUME Stored, NEW p, Supersede(p)
  PROVE  /\ resets' \in Seq(Link) /\ DOMAIN resets' = DOMAIN resets
         /\ \A i \in DOMAIN resets : /\ resets'[i].used /\ resets'[i].amid = resets[i].amid
                                     /\ resets'[i].saves = resets[i].saves
<1>1. ASSUME NEW i \in DOMAIN resets
      PROVE  /\ resets'[i] \in Link /\ resets'[i].used /\ resets'[i].amid = resets[i].amid
             /\ resets'[i].saves = resets[i].saves
  <2>1. resets[i] \in Link /\ resets'[i] = [resets[i] EXCEPT !.used = TRUE]
    BY DEF Stored, Supersede
  <2> QED BY <2>1 DEF Link
<1>2. DOMAIN resets' = DOMAIN resets /\ resets' = [i \in DOMAIN resets' |-> resets'[i]]
  BY DEF Supersede
<1> QED BY <1>1, <1>2, LinksKeep DEF Stored

LEMMA LinkInserted ==
  ASSUME Stored, Remembered, NEW p \in Senders, InsertReset(p)
  PROVE  /\ resets' \in Seq(Link) /\ DOMAIN resets' = DOMAIN resets \cup {Len(resets) + 1}
         /\ Len(resets) + 1 \notin DOMAIN resets
         /\ \A i \in DOMAIN resets : resets'[i] = resets[i]
         /\ resets'[Len(resets) + 1] =
              [used |-> FALSE, expired |-> FALSE, amid |-> Ops(p), saves |-> 0]
<1> DEFINE link == [used |-> FALSE, expired |-> FALSE, amid |-> Ops(p), saves |-> 0]
<1>1. link \in Link
  BY DEF Link, Remembered
<1>2. resets' = Append(resets, link) /\ resets \in Seq(Link)
  BY DEF InsertReset, Stored
<1> HIDE DEF link
<1>3. /\ resets' \in Seq(Link) /\ DOMAIN resets' = DOMAIN resets \cup {Len(resets) + 1}
      /\ Len(resets) + 1 \notin DOMAIN resets
      /\ \A i \in DOMAIN resets : resets'[i] = resets[i]
      /\ resets'[Len(resets) + 1] = link
  BY <1>1, <1>2
<1> QED BY <1>3 DEF link

LEMMA LinkSaves ==
  ASSUME Stored, Remembered, NEW p \in Senders, ResetSave(p), user.exists,
         request[p].reset \in DOMAIN resets
  PROVE  LET k == request[p].reset IN
         /\ resets' \in Seq(Link) /\ DOMAIN resets' = DOMAIN resets
         /\ resets'[k].saves = resets[k].saves + 1 /\ resets'[k].amid = resets[k].amid \cup Ops(p)
         /\ resets'[k].used = resets[k].used
         /\ \A i \in DOMAIN resets \ {k} : resets'[i] = resets[i]
<1> DEFINE k == request[p].reset
           ops == Ops(p)
           link == [resets[k] EXCEPT !.saves = @ + 1, !.amid = @ \cup ops]
<1>1. resets' = [resets EXCEPT ![k].saves = @ + 1, ![k].amid = @ \cup ops]
  BY DEF ResetSave
<1>2. resets[k] \in Link /\ ops \subseteq Operations
  BY DEF Stored, Remembered
<1> HIDE DEF ops
<1>3. /\ link \in Link /\ link.used = resets[k].used
      /\ link.saves = resets[k].saves + 1 /\ link.amid = resets[k].amid \cup ops
  <2>1. ASSUME NEW l \in Link, NEW m, m = [l EXCEPT !.saves = @ + 1, !.amid = @ \cup ops]
        PROVE  m.used = l.used /\ m.saves = l.saves + 1 /\ m.amid = l.amid \cup ops /\ m \in Link
    <3>1. m.amid \in SUBSET Operations
      BY <1>2, <2>1 DEF Link
    <3>2. m.saves \in Nat
      BY <2>1 DEF Link
    <3> QED BY <2>1, <3>1, <3>2 DEF Link
  <2>2. PICK m : m = link /\ m = [resets[k] EXCEPT !.saves = @ + 1, !.amid = @ \cup ops]
    OBVIOUS
  <2> HIDE DEF link, k
  <2> QED BY <1>2, <2>1, <2>2
<1>4. /\ resets'[k] = link /\ DOMAIN resets' = DOMAIN resets
      /\ \A i \in DOMAIN resets \ {k} : resets'[i] = resets[i]
      /\ resets' = [i \in DOMAIN resets' |-> resets'[i]]
  BY <1>1
<1>5. \A i \in DOMAIN resets : resets'[i] \in Link
  <2> HIDE DEF link, k
  <2>1. \A i \in DOMAIN resets : resets[i] \in Link
    BY DEF Stored
  <2> QED BY <1>3, <1>4, <2>1
<1>6. resets' \in Seq(Link)
  BY <1>4, <1>5, LinksKeep DEF Stored
<1> HIDE DEF link
<1> QED BY <1>3, <1>4, <1>6 DEF ops

LEMMA LinkMarked ==
  ASSUME Stored, NEW p, Mark(p), request[p].reset \in DOMAIN resets
  PROVE  LET k == request[p].reset IN
         /\ resets' \in Seq(Link) /\ DOMAIN resets' = DOMAIN resets
         /\ resets'[k].used /\ resets'[k].amid = resets[k].amid /\ resets'[k].saves = resets[k].saves
         /\ \A i \in DOMAIN resets \ {k} : resets'[i] = resets[i]
<1> DEFINE k == request[p].reset
           link == [resets[k] EXCEPT !.used = TRUE]
<1>1. resets' = [resets EXCEPT ![k].used = TRUE]
  BY DEF Mark
<1>2. resets[k] \in Link
  BY DEF Stored
<1>3. /\ link \in Link /\ link.used
      /\ link.saves = resets[k].saves /\ link.amid = resets[k].amid
  BY <1>2 DEF Link
<1>4. /\ resets'[k] = link /\ DOMAIN resets' = DOMAIN resets
      /\ \A i \in DOMAIN resets \ {k} : resets'[i] = resets[i]
      /\ resets' = [i \in DOMAIN resets' |-> resets'[i]]
  BY <1>1
<1>5. \A i \in DOMAIN resets : resets'[i] \in Link
  <2> HIDE DEF link, k
  <2>1. \A i \in DOMAIN resets : resets[i] \in Link
    BY DEF Stored
  <2> QED BY <1>3, <1>4, <2>1
<1>6. resets' \in Seq(Link)
  BY <1>4, <1>5, LinksKeep DEF Stored
<1> HIDE DEF link
<1> QED BY <1>3, <1>4, <1>6

LEMMA LinksBase ==
  ASSUME BaseInv, WaitInv', Overlaps, NEW p \in Senders, UNCHANGED client,
         Supersede(p) \/ InsertReset(p) \/ ResetSave(p) \/ Mark(p)
  PROVE  BaseInv'
<1>1. Fits(p, request[p]) /\ Stored /\ Remembered
  BY DEF BaseInv, AllFit
<1>2. CASE Supersede(p)
  <2>1. TokensKept /\ resets' \in Seq(Link) /\ DOMAIN resets' = DOMAIN resets /\ user' \in Account
    BY <1>1, <1>2, TokensSame, Supersedes DEF Stored, Supersede
  <2>2. Only(p) /\ Same(request'[p], request[p]) /\ request'[p].at = "insert"
    BY <1>2, GoesOn DEF Supersede
  <2> QED BY <1>1, <1>2, <2>1, <2>2, OtherHandles DEF Supersede, At, Operations, Stored
<1>3. CASE InsertReset(p)
  <2>1. TokensKept /\ resets' \in Seq(Link) /\ DOMAIN resets \subseteq DOMAIN resets'
        /\ user' \in Account
    BY <1>1, <1>3, TokensSame, LinkInserted DEF Stored, InsertReset
  <2>2. Only(p) /\ Answered(p, "ok")
    BY <1>3, RespondAnswers DEF InsertReset
  <2> QED BY <1>1, <1>3, <2>1, <2>2, OtherHandles DEF InsertReset, At, Operations, Stored
<1>4. CASE ResetSave(p)
  <2>1. p \in Requests /\ request[p].reset \in DOMAIN resets /\ request[p].op = "reset"
    BY <1>1, <1>4 DEF ResetSave, At, Fits, FitsOther
  <2>2. TokensKept /\ user' \in Account /\ user'.exists = user.exists
    BY <1>1, <1>4, <2>1, TokensSame, AccountSteps DEF Stored, ResetSave
  <2>3. resets' \in Seq(Link) /\ DOMAIN resets' = DOMAIN resets
    <3>1. CASE user.exists
      BY <1>1, <1>4, <2>1, <3>1, LinkSaves
    <3>2. CASE ~user.exists
      BY <1>1, <1>4, <3>2 DEF ResetSave, Stored
    <3> QED BY <3>1, <3>2
  <2>4. Only(p) /\ (Answered(p, "refused")
                    \/ (Same(request'[p], request[p]) /\ request'[p].at = "mark"))
    BY <1>4, GoesOn, RespondAnswers DEF ResetSave
  <2> QED BY <1>1, <1>4, <2>1, <2>2, <2>3, <2>4, OtherHandles DEF ResetSave, Operations, Stored
<1>5. CASE Mark(p)
  <2>1. request[p].reset \in DOMAIN resets /\ request[p].op = "reset"
    BY <1>1, <1>5 DEF Mark, At, Fits, FitsOther
  <2>2. TokensKept /\ resets' \in Seq(Link) /\ DOMAIN resets' = DOMAIN resets /\ user' \in Account
    BY <1>1, <1>5, <2>1, TokensSame, LinkMarked DEF Stored, Mark
  <2>3. Only(p) /\ Same(request'[p], request[p]) /\ request'[p].at = "revokeAll"
    BY <1>5, GoesOn DEF Mark
  <2> QED BY <1>1, <1>5, <2>1, <2>2, <2>3, OtherHandles DEF Mark, Operations, Stored
<1> QED BY <1>2, <1>3, <1>4, <1>5

-----------------------------------------------------------------------------
(* Refreshes and logins.                                                   *)

LEMMA RefreshFits ==
  ASSUME BaseInv, Grows, Len(tokens') \in Nat, UNCHANGED refreshing, NEW p \in Senders,
         request[p].op = "refresh", request'[p].op = "refresh", Record(request'[p]),
         request'[p].tab = request[p].tab,
         request'[p].token \in 0 .. Len(tokens'),
         request'[p].at \in {"find", "user", "revoke", "insert", "ok", "refused"},
         request'[p].at \in {"user", "revoke"} => request'[p].token # 0,
         request'[p].at = "revoke" =>
           /\ request'[p].session = tokens'[request'[p].token].session
           /\ request'[p].password = tokens'[request'[p].token].password
           /\ request'[p].amid = tokens'[request'[p].token].amid,
         FitsIssue(request[p])'
  PROVE  Fits(p, request[p])'
<1>1. Fits(p, request[p])
  BY DEF BaseInv, AllFit
<1> QED BY <1>1 DEF Fits, FitsRefresh, FitsLogin, FitsOther, Operations

LEMMA RefreshesBase ==
  ASSUME BaseInv, WaitInv', Overlaps, NEW p \in Senders, UNCHANGED client,
         RefreshFind(p) \/ RefreshUser(p) \/ RefreshRevoke(p) \/ Fails(p)
  PROVE  BaseInv'
<1> DEFINE q == request[p]
           i == q.token
<1>1. Fits(p, q) /\ Stored /\ q.op = "refresh"
  BY DEF BaseInv, AllFit, RefreshFind, RefreshUser, RefreshRevoke, Fails, At
<1>2. ASSUME TokensKept, user' = user, resets' = resets, failures' \in Nat, issued' = issued,
             Only(p), Answered(p, "refused"),
             \A j \in DOMAIN tokens : tokens'[j].status = "gone" => tokens[j].status = "gone"
      PROVE  BaseInv'
  <2>1. q # Idle /\ request'[p] # Idle
    BY <1>1, <1>2, NotIdle DEF Operations
  <2>2. Grows /\ Len(tokens') \in Nat => Fits(p, q)'
    BY <1>1, <1>2, AnsweredFits DEF client, Operations
  <2> QED BY <1>1, <1>2, <2>1, <2>2, ServerKeeps DEF client, Stored
<1>3. ASSUME TokensKept, user' = user, resets' = resets, failures' \in Nat, issued' = issued,
             Only(p), Record(request'[p]), request'[p].op = "refresh",
             request'[p].tab = q.tab, request'[p].token = i, i # 0,
             request'[p].at \in {"user", "revoke", "insert"},
             request'[p].at = "revoke" =>
               /\ request'[p].session = tokens[i].session
               /\ request'[p].password = tokens[i].password
               /\ request'[p].amid = tokens[i].amid,
             request'[p].at \in {"revoke", "insert"} =>
               request'[p].version \in Nat /\ Issues(request'[p]),
             \A j \in DOMAIN tokens : tokens'[j].status = "gone" => tokens[j].status = "gone"
      PROVE  BaseInv'
  <2>1. q # Idle /\ request'[p] # Idle
    BY <1>1, <1>3 DEF Idle
  <2>2. ASSUME Grows, Len(tokens') \in Nat
        PROVE  Fits(p, q)'
    <3>1. i \in DOMAIN tokens /\ i \in 0 .. Len(tokens')
      BY <1>1, <1>3, <2>2 DEF Fits, Stored, TokensKept
    <3>2. FitsIssue(q)'
      <4>1. \A s : Known(s) => Known(s)'
        BY <2>2 DEF Known, Grows, Requests
      <4> QED BY <1>3, <4>1 DEF FitsIssue, Issuing, Issues, Requests, Operations
    <3> QED BY <1>1, <1>3, <2>2, <3>1, <3>2, RefreshFits DEF client, TokensKept
  <2> QED BY <1>1, <1>3, <2>1, <2>2, ServerKeeps DEF client, Stored
<1>4. CASE RefreshFind(p)
  <2>1. TokensKept
    BY <1>1, <1>4, TokensSame DEF RefreshFind, server, Stored
  <2>2. CASE Usable(i)
    <3>1. Only(p) /\ Same(request'[p], q) /\ request'[p].at = "user"
      BY <1>4, <2>2, GoesOn DEF RefreshFind
    <3>2. i # 0
      BY <1>1, <2>2 DEF Usable, Stored
    <3> QED BY <1>1, <1>3, <1>4, <2>1, <3>1, <3>2 DEF RefreshFind, server, Stored, Same
  <2>3. CASE ~Usable(i)
    BY <1>1, <1>2, <1>4, <2>1, <2>3, RespondAnswers DEF RefreshFind, server, Stored
  <2> QED BY <2>2, <2>3
<1>5. CASE RefreshUser(p)
  <2>1. TokensKept
    BY <1>1, <1>5, TokensSame DEF RefreshUser, server, Stored
  <2>2. CASE user.exists
    <3> DEFINE version == user.version
               session == tokens[i].session
               password == tokens[i].password
               overlapped == tokens[i].amid
               r == [q EXCEPT !.at = "revoke", !.version = version, !.session = session,
                              !.password = password, !.amid = overlapped]
    <3>1. Only(p) /\ request'[p] = r
      BY <1>5, <2>2, Becoming DEF RefreshUser, Becomes
    <3>2. i \in DOMAIN tokens /\ tokens[i] \in Token /\ user \in Account /\ Known(session)
      BY <1>1, <1>5 DEF Fits, FitsRefresh, RefreshUser, At, Stored
    <3>3. version \in Nat /\ password \in Requests \cup {First} /\ overlapped \subseteq Operations
      BY <3>2 DEF Token, Account
    <3>4. Record(r) /\ r.op = q.op /\ r.tab = q.tab /\ r.token = i /\ r.at = "revoke"
          /\ r.version = version /\ r.session = session /\ r.password = password
          /\ r.amid = overlapped
      <4> HIDE DEF version, session, password, overlapped
      <4>1. ASSUME NEW old, Record(old), NEW new,
                   new = [old EXCEPT !.at = "revoke", !.version = version, !.session = session,
                                     !.password = password, !.amid = overlapped]
            PROVE  /\ Record(new) /\ new.op = old.op /\ new.tab = old.tab /\ new.token = old.token
                   /\ new.at = "revoke" /\ new.version = version /\ new.session = session
                   /\ new.password = password /\ new.amid = overlapped
        BY <4>1 DEF Record
      <4> QED BY <1>1, <4>1 DEF Fits
    <3> HIDE DEF r
    <3>5. Issues(request'[p])
      BY <3>1, <3>2, <3>3, <3>4 DEF Issues
    <3>6. i # 0
      BY <1>1, <3>2 DEF Stored
    <3> QED BY <1>1, <1>3, <1>5, <2>1, <3>1, <3>3, <3>4, <3>5, <3>6 DEF RefreshUser, server, Stored
  <2>3. CASE ~user.exists
    BY <1>1, <1>2, <1>5, <2>1, <2>3, RespondAnswers DEF RefreshUser, server, Stored
  <2> QED BY <2>2, <2>3
<1>6. CASE RefreshRevoke(p)
  <2>1. i \in DOMAIN tokens /\ i # 0 /\ q.at = "revoke" /\ q.version \in Nat /\ Issues(q)
    BY <1>1, <1>6 DEF Fits, FitsRefresh, FitsIssue, Issuing, RefreshRevoke, At, Stored
  <2>2. CASE tokens[i].status = "gone"
    BY <1>1, <1>2, <1>6, <2>2, RespondAnswers, TokensSame DEF RefreshRevoke, Stored
  <2>3. CASE tokens[i].status # "gone"
    <3>1. TokensKept /\ \A j \in DOMAIN tokens : tokens'[j].status \in {tokens[j].status, "revoked"}
      BY <1>1, <1>6, <2>1, <2>3, RevokesOne DEF RefreshRevoke, Stored
    <3>2. Only(p) /\ Same(request'[p], q) /\ request'[p].at = "insert"
      BY <1>6, <2>3, GoesOn DEF RefreshRevoke
    <3>3. Issues(request'[p])
      BY <2>1, <3>2 DEF Issues, Same
    <3> QED BY <1>1, <1>3, <1>6, <2>1, <3>1, <3>2, <3>3 DEF RefreshRevoke, Stored, Same
  <2> QED BY <2>2, <2>3
<1>7. CASE Fails(p)
  BY <1>1, <1>2, <1>7, RespondAnswers, TokensSame DEF Fails, Stored
<1> QED BY <1>4, <1>5, <1>6, <1>7

\* The token that Insert appends, and the access token it signs.
Inserted(p) ==
  LET q == request[p] IN
  [status |-> "live", session |-> q.session, password |-> q.password,
   amid |-> q.amid \cup Ops(p)]

Signed(p) ==
  LET q == request[p] IN
  [version |-> q.version, password |-> q.password, amid |-> q.amid \cup Ops(p),
   expired |-> FALSE]

LEMMA Inserts ==
  ASSUME BaseInv, NEW p \in Senders, Insert(p)
  PROVE  LET q == request[p]
             n == Len(tokens) + 1 IN
         /\ q.op \in {"login", "refresh"} /\ q.at = "insert" /\ Issues(q)
         /\ n \notin DOMAIN tokens /\ n # 0 /\ Len(tokens') = n
         /\ tokens' \in Seq(Token) /\ DOMAIN tokens' = DOMAIN tokens \cup {n}
         /\ \A i \in DOMAIN tokens : tokens'[i] = tokens[i]
         /\ tokens'[n] = Inserted(p)
         /\ issued' = issued \cup {Signed(p)} /\ AccessToken(Signed(p)) /\ ~Signed(p).expired
         /\ Only(p)
         /\ \/ q.tab = NoTab /\ request'[p] = Done
            \/ /\ q.tab # NoTab /\ Record(request'[p])
               /\ request'[p].op = q.op /\ request'[p].at = "ok"
               /\ request'[p].tab = q.tab /\ request'[p].token = n
               /\ request'[p].access = Signed(p)
               /\ request'[p].session = q.session /\ request'[p].amid = q.amid
<1> DEFINE q == request[p]
           n == Len(tokens) + 1
           ops == Ops(p)
           token == Inserted(p)
           access == Signed(p)
<1>1. Fits(p, q) /\ Stored /\ ops \subseteq Operations
  BY DEF BaseInv, AllFit, Remembered
<1>2. q.op \in {"login", "refresh"} /\ q.at = "insert"
  BY DEF Insert
<1>3. Issues(q) /\ q.version \in Nat
  BY <1>1, <1>2 DEF Fits, FitsIssue, Issuing
<1>4. token \in Token
  BY <1>1, <1>3 DEF Token, Issues, Known, Inserted
<1>5. tokens' = Append(tokens, token) /\ tokens \in Seq(Token)
  BY <1>1 DEF Insert, Stored, Inserted
<1>6. issued' = issued \cup {access}
  BY DEF Insert, Signed
<1>7. AccessToken(access) /\ ~access.expired
  BY <1>3 DEF AccessToken, Signed
<1>8. Only(p) /\
      \/ q.tab = NoTab /\ request'[p] = Done
      \/ /\ q.tab # NoTab /\ Record(request'[p])
         /\ request'[p].op = q.op /\ request'[p].at = "ok"
         /\ request'[p].tab = q.tab /\ request'[p].token = n
         /\ request'[p].access = access
         /\ request'[p].session = q.session /\ request'[p].amid = q.amid
  <2>1. CASE q.tab = NoTab
    BY <2>1, Becoming DEF Insert, Becomes
  <2>2. CASE q.tab # NoTab
    <3> DEFINE r == [q EXCEPT !.at = "ok", !.access = access, !.token = n]
    <3>1. Only(p) /\ request'[p] = r
      BY <2>2, Becoming DEF Insert, Becomes, Signed
    <3>2. ASSUME NEW old, Record(old), NEW new,
                 new = [old EXCEPT !.at = "ok", !.access = access, !.token = n]
          PROVE  /\ Record(new) /\ new.op = old.op /\ new.at = "ok" /\ new.tab = old.tab
                 /\ new.token = n /\ new.access = access
                 /\ new.session = old.session /\ new.amid = old.amid
      <4> HIDE DEF access, n
      <4> QED BY <3>2 DEF Record
    <3> HIDE DEF access, n
    <3>3. Record(q)
      BY <1>1 DEF Fits
    <3> QED BY <2>2, <3>1, <3>2, <3>3
  <2> QED BY <2>1, <2>2
<1> HIDE DEF token
<1>9. /\ n \notin DOMAIN tokens /\ n # 0 /\ Len(tokens') = n
      /\ tokens' \in Seq(Token) /\ DOMAIN tokens' = DOMAIN tokens \cup {n}
      /\ \A i \in DOMAIN tokens : tokens'[i] = tokens[i]
      /\ tokens'[n] = token
  BY <1>4, <1>5
<1> HIDE DEF q, n, access
<1> QED BY <1>2, <1>3, <1>6, <1>7, <1>8, <1>9 DEF q, n, access, token

LEMMA InsertBase ==
  ASSUME BaseInv, WaitInv', Overlaps, NEW p \in Senders, UNCHANGED client, Insert(p)
  PROVE  BaseInv'
<1> DEFINE q == request[p]
           n == Len(tokens) + 1
<1>1. Fits(p, q) /\ Stored
  BY DEF BaseInv, AllFit
<1>2. /\ q.op \in {"login", "refresh"} /\ q.at = "insert" /\ Issues(q)
      /\ n \notin DOMAIN tokens /\ n # 0 /\ Len(tokens') = n
      /\ tokens' \in Seq(Token) /\ DOMAIN tokens' = DOMAIN tokens \cup {n}
      /\ \A i \in DOMAIN tokens : tokens'[i] = tokens[i]
      /\ tokens'[n] = Inserted(p)
      /\ issued' = issued \cup {Signed(p)} /\ AccessToken(Signed(p)) /\ ~Signed(p).expired
      /\ Only(p)
      /\ \/ q.tab = NoTab /\ request'[p] = Done
         \/ /\ q.tab # NoTab /\ Record(request'[p])
            /\ request'[p].op = q.op /\ request'[p].at = "ok"
            /\ request'[p].tab = q.tab /\ request'[p].token = n
            /\ request'[p].access = Signed(p)
            /\ request'[p].session = q.session /\ request'[p].amid = q.amid
  BY Inserts
<1>3. request'[p] # Idle /\ q # Idle /\ n \in Nat
  BY <1>1, <1>2, DoneIs DEF Idle, Stored
<1>4. \A r \in Requests : request'[r] = Idle <=> request[r] = Idle
  BY <1>2, <1>3 DEF Only, Senders
<1>5. Grows
  BY <1>1, <1>2, <1>4 DEF Grows, Insert, Stored
<1>6. \A s : Known(s) => Known(s)'
  BY <1>5 DEF Known, Grows, Requests
<1>7. Stored'
  <2>1. ASSUME NEW i \in DOMAIN tokens'
        PROVE  Known(tokens[i].session)' /\ (tokens'[i].status = "gone" => ~user'.exists)
    <3>1. CASE i \in DOMAIN tokens
      BY <1>1, <1>2, <1>6, <3>1 DEF Stored, Insert
    <3>2. CASE i = n
      BY <1>2, <1>6, <3>2 DEF Inserted, Issues
    <3> QED BY <1>2, <3>1, <3>2
  <2>2. \A a \in issued' : AccessToken(a) /\ ~a.expired
    BY <1>1, <1>2 DEF Stored
  <2>3. cookie' \in 0 .. Len(tokens')
    BY <1>1, <1>2, <1>3 DEF Stored, client
  <2>4. storage' = NoAccess \/ (AccessToken(storage') /\ [storage' EXCEPT !.expired = FALSE] \in issued')
    BY <1>1, <1>2 DEF Stored, client
  <2>5. tokens' \in Seq(Token) /\ user' \in Account /\ resets' \in Seq(Link) /\ failures' \in Nat
        /\ refreshing' \in [Tabs -> Calls \cup {NoRefresh}]
    BY <1>1, <1>2 DEF Stored, Insert, client
  <2>6. \A s \in ended' : Known(s)'
    BY <1>1, <1>6 DEF Stored, client
  <2> QED BY <2>1, <2>2, <2>3, <2>4, <2>5, <2>6 DEF Stored, Account, Token, Link, Requests, AccessToken, Known
<1>8. Fits(p, q)'
  <2>1. CASE request'[p] = Done
    BY <1>2, <1>3, <2>1, DoneFits
  <2>2. CASE request'[p] # Done
    <3>1. FitsRefresh(p, q)' /\ FitsLogin(p, q)' /\ FitsIssue(q)' /\ FitsOther(p, q)'
      BY <1>1, <1>2, <2>2 DEF Fits, FitsRefresh, FitsLogin, FitsIssue, FitsOther, Issuing,
         client, Requests, Senders
    <3> QED BY <1>2, <1>3, <2>2, <3>1 DEF Fits, Operations
  <2> QED BY <2>1, <2>2
<1>9. Numbered'
  BY <1>4, NumbersKept
<1> QED BY <1>2, <1>5, <1>7, <1>8, <1>9, BaseKept DEF client

-----------------------------------------------------------------------------
(* Requests that begin.                                                    *)

LEMMA IdleIs ==
  /\ Record(Idle) /\ Idle.tab = NoTab /\ Idle.token = 0 /\ Idle.access = NoAccess
  /\ Idle.version = 0 /\ Idle.reset = 0 /\ Idle.session = First /\ Idle.password = First
  /\ Idle.amid = {} /\ Idle.op = "none" /\ Idle.at = "begin"
BY IdleRecord DEF Idle

LEMMA LoginBegins ==
  ASSUME BaseInv, NEW p, NEW tab, BeginLogin(p, tab)
  PROVE  /\ p \in Requests /\ request[p] = Idle /\ Only(p) /\ Numbered' /\ user.exists
         /\ LET q == request'[p] IN
              /\ Record(q) /\ q.op = "login" /\ q.at = "insert" /\ q.tab = tab
              /\ q.token = 0 /\ q.version = user.version /\ q.session = p
              /\ q.password = user.password /\ q.amid = {}
<1> DEFINE version == user.version
           password == user.password
           q == [Idle EXCEPT !.op = "login", !.at = "insert", !.tab = tab,
                   !.version = version, !.session = p, !.password = password]
<1>1. Fresh(p) /\ user.exists /\ request' = [request EXCEPT ![p] = q]
  BY DEF BeginLogin, Becomes
<1>2. /\ Record(q) /\ q.op = "login" /\ q.at = "insert" /\ q.tab = tab
      /\ q.token = 0 /\ q.version = version /\ q.session = p
      /\ q.password = password /\ q.amid = {}
  <2> HIDE DEF version, password
  <2>1. ASSUME NEW i, Record(i), NEW r,
               r = [i EXCEPT !.op = "login", !.at = "insert", !.tab = tab,
                      !.version = version, !.session = p, !.password = password]
        PROVE  /\ Record(r) /\ r.op = "login" /\ r.at = "insert" /\ r.tab = tab
               /\ r.token = i.token /\ r.version = version /\ r.session = p
               /\ r.password = password /\ r.amid = i.amid
    BY <2>1 DEF Record
  <2> QED BY <2>1, IdleIs
<1> HIDE DEF q
<1>3. p \in Senders
  BY <1>1, FreshIs
<1>4. request'[p] = q /\ Only(p) /\ q # Idle
  BY <1>1, <1>2, <1>3, Becoming, IdleIs
<1> QED BY <1>1, <1>2, <1>4, FreshIs

LEMMA ElsewhereBegins ==
  ASSUME BaseInv, NEW p,
         BeginChange(p) \/ BeginForgot(p) \/ BeginDelete(p) \/ (\E i \in DOMAIN resets : BeginReset(p, i))
  PROVE  /\ p \in Requests /\ request[p] = Idle /\ Only(p) /\ Numbered'
         /\ LET q == request'[p] IN
            /\ Record(q) /\ q.tab = NoTab /\ q.token = 0
            /\ \/ BeginChange(p) /\ q.op = "change" /\ q.at = "save" /\ q.version = user.version
               \/ BeginForgot(p) /\ q.op = "forgot" /\ q.at = "supersede"
               \/ BeginDelete(p) /\ q.op = "delete" /\ q.at = "dropTokens"
               \/ /\ q.op = "reset" /\ q.at = "user" /\ q.reset \in DOMAIN resets
                  /\ BeginReset(p, q.reset)
<1>1. ASSUME NEW q, q # Idle, Fresh(p), request' = [request EXCEPT ![p] = q]
      PROVE  p \in Requests /\ request[p] = Idle /\ Only(p) /\ Numbered' /\ request'[p] = q
  <2>1. p \in Senders
    BY <1>1, FreshIs
  <2>2. request'[p] = q /\ Only(p)
    BY <1>1, <2>1, Becoming
  <2> QED BY <1>1, <2>2, FreshIs
<1>2. CASE BeginChange(p)
  <2> DEFINE version == user.version
             q == [Idle EXCEPT !.op = "change", !.at = "save", !.version = version]
  <2>1. /\ Record(q) /\ q.tab = NoTab /\ q.token = 0
        /\ q.op = "change" /\ q.at = "save" /\ q.version = version
    <3> HIDE DEF version
    <3>1. ASSUME NEW i, Record(i), NEW r,
                 r = [i EXCEPT !.op = "change", !.at = "save", !.version = version]
          PROVE  /\ Record(r) /\ r.tab = i.tab /\ r.token = i.token
                 /\ r.op = "change" /\ r.at = "save" /\ r.version = version
      BY <3>1 DEF Record
    <3> QED BY <3>1, IdleIs
  <2>2. Fresh(p) /\ request' = [request EXCEPT ![p] = q]
    BY <1>2 DEF BeginChange, Becomes
  <2> HIDE DEF q
  <2> QED BY <1>1, <1>2, <2>1, <2>2, IdleIs
<1>3. CASE BeginForgot(p)
  <2> DEFINE q == [Idle EXCEPT !.op = "forgot", !.at = "supersede"]
  <2>1. /\ Record(q) /\ q.tab = NoTab /\ q.token = 0 /\ q.op = "forgot" /\ q.at = "supersede"
    <3>1. ASSUME NEW i, Record(i), NEW r, r = [i EXCEPT !.op = "forgot", !.at = "supersede"]
          PROVE  /\ Record(r) /\ r.tab = i.tab /\ r.token = i.token
                 /\ r.op = "forgot" /\ r.at = "supersede"
      BY <3>1 DEF Record
    <3> QED BY <3>1, IdleIs
  <2>2. Fresh(p) /\ request' = [request EXCEPT ![p] = q]
    BY <1>3 DEF BeginForgot, Becomes
  <2> HIDE DEF q
  <2> QED BY <1>1, <1>3, <2>1, <2>2, IdleIs
<1>4. CASE BeginDelete(p)
  <2> DEFINE q == [Idle EXCEPT !.op = "delete", !.at = "dropTokens"]
  <2>1. /\ Record(q) /\ q.tab = NoTab /\ q.token = 0 /\ q.op = "delete" /\ q.at = "dropTokens"
    <3>1. ASSUME NEW i, Record(i), NEW r, r = [i EXCEPT !.op = "delete", !.at = "dropTokens"]
          PROVE  /\ Record(r) /\ r.tab = i.tab /\ r.token = i.token
                 /\ r.op = "delete" /\ r.at = "dropTokens"
      BY <3>1 DEF Record
    <3> QED BY <3>1, IdleIs
  <2>2. Fresh(p) /\ request' = [request EXCEPT ![p] = q]
    BY <1>4 DEF BeginDelete, Becomes
  <2> HIDE DEF q
  <2> QED BY <1>1, <1>4, <2>1, <2>2, IdleIs
<1>5. CASE \E i \in DOMAIN resets : BeginReset(p, i)
  <2>1. PICK k \in DOMAIN resets : BeginReset(p, k)
    BY <1>5
  <2> DEFINE q == [Idle EXCEPT !.op = "reset", !.at = "user", !.reset = k]
  <2>2. /\ Record(q) /\ q.tab = NoTab /\ q.token = 0
        /\ q.op = "reset" /\ q.at = "user" /\ q.reset = k
    <3>1. ASSUME NEW i, Record(i), NEW r,
                 r = [i EXCEPT !.op = "reset", !.at = "user", !.reset = k]
          PROVE  /\ Record(r) /\ r.tab = i.tab /\ r.token = i.token
                 /\ r.op = "reset" /\ r.at = "user" /\ r.reset = k
      BY <3>1 DEF Record
    <3> QED BY <3>1, IdleIs
  <2>3. Fresh(p) /\ request' = [request EXCEPT ![p] = q]
    BY <2>1 DEF BeginReset, Becomes
  <2> HIDE DEF q
  <2> QED BY <1>1, <2>1, <2>2, <2>3, IdleIs
<1> QED BY <1>2, <1>3, <1>4, <1>5

LEMMA LogoutBegins ==
  ASSUME BaseInv, NEW p, NEW t, Logout(p, t)
  PROVE  /\ p \in Requests /\ request[p] = Idle /\ Only(p) /\ Numbered'
         /\ LET q == request'[p] IN
              /\ Record(q) /\ q.op = "logout" /\ q.at = "guard" /\ q.tab = t
              /\ q.token = cookie /\ q.access = storage
<1> DEFINE i == cookie
           a == storage
           q == [Idle EXCEPT !.op = "logout", !.at = "guard", !.tab = t, !.token = i, !.access = a]
<1>1. Fresh(p) /\ request' = [request EXCEPT ![p] = q]
  BY DEF Logout, Becomes
<1>2. /\ Record(q) /\ q.op = "logout" /\ q.at = "guard" /\ q.tab = t /\ q.token = i /\ q.access = a
  <2> HIDE DEF i, a
  <2>1. ASSUME NEW j, Record(j), NEW r,
               r = [j EXCEPT !.op = "logout", !.at = "guard", !.tab = t, !.token = i, !.access = a]
        PROVE  /\ Record(r) /\ r.op = "logout" /\ r.at = "guard" /\ r.tab = t
               /\ r.token = i /\ r.access = a
    BY <2>1 DEF Record
  <2> QED BY <2>1, IdleIs
<1> HIDE DEF q
<1>3. p \in Senders
  BY <1>1, FreshIs
<1>4. request'[p] = q /\ Only(p) /\ q # Idle
  BY <1>1, <1>2, <1>3, Becoming, IdleIs
<1> QED BY <1>1, <1>2, <1>4, FreshIs

\* A request begins; of what is stored it changes the account at most.
LEMMA BeginsKeeps ==
  ASSUME BaseInv, WaitInv', Overlaps, NEW p \in Requests, request[p] = Idle, Only(p), Numbered',
         user' \in Account, user'.exists => user.exists,
         UNCHANGED <<tokens, issued, resets, failures, client>>,
         Grows => Fits(p, request[p])', request'[p] # Idle
  PROVE  BaseInv'
<1>1. TokensKept /\ p \in Senders /\ Len(tokens') \in Nat
  BY TokensSame DEF BaseInv, Stored, Senders
<1>2. \A r \in Requests : request[r] # Idle => request'[r] # Idle
  BY DEF Only, Senders
<1>3. Grows
  BY <1>1, <1>2, KeptGrows DEF BaseInv
<1>4. Stored'
  BY <1>1, <1>3, StoredKept DEF BaseInv, Stored, client
<1> QED BY <1>1, <1>3, <1>4, BaseKept DEF client

LEMMA BeginsBase ==
  ASSUME BaseInv, WaitInv', Overlaps, NEW p \in Requests,
         \/ BeginElsewhere(p) /\ UNCHANGED client
         \/ \E t \in Tabs : Login(p, t) \/ Logout(p, t)
  PROVE  BaseInv'
<1>1. Stored /\ user \in Account /\ p \in Senders
  BY DEF BaseInv, Stored, Senders
<1>2. ASSUME NEW tab, BeginLogin(p, tab), UNCHANGED client
      PROVE  BaseInv'
  <2>1. request'[p] # Idle
    BY <1>2, LoginBegins, IdleIs
  <2>2. Issues(request[p])'
    BY <1>1, <1>2, <2>1, LoginBegins DEF Issues, Known, Account
  <2>3. ASSUME Grows PROVE Fits(p, request[p])'
    <3>1. FitsRefresh(p, request[p])' /\ FitsLogin(p, request[p])' /\ FitsOther(p, request[p])'
      BY <1>2, LoginBegins DEF FitsRefresh, FitsLogin, FitsOther, Requests
    <3>2. FitsIssue(request[p])'
      BY <1>1, <1>2, <2>2, LoginBegins DEF FitsIssue, Issuing, Account, Issues, Requests
    <3>3. Len(tokens') \in Nat
      BY <1>1, <1>2 DEF Stored, BeginLogin, server
    <3> QED BY <1>2, <3>1, <3>2, <3>3, LoginBegins DEF Fits, Operations
  <2> QED BY <1>1, <1>2, <2>1, <2>3, LoginBegins, BeginsKeeps DEF BeginLogin, server
<1>3. ASSUME BeginChange(p) \/ BeginForgot(p) \/ BeginDelete(p) \/ (\E i \in DOMAIN resets : BeginReset(p, i)),
             UNCHANGED client
      PROVE  BaseInv'
  <2>1. user' \in Account /\ (user'.exists => user.exists)
        /\ (BeginDelete(p) => ~user'.exists) /\ UNCHANGED <<tokens, issued, resets, failures>>
    BY <1>1, <1>3, AccountSteps DEF BeginChange, BeginForgot, BeginDelete, BeginReset, server
  <2>2. request'[p] # Idle
    BY <1>3, ElsewhereBegins, IdleIs
  <2>3. ASSUME Grows PROVE Fits(p, request[p])'
    <3>1. /\ Record(request'[p]) /\ request'[p].token = 0
          /\ \/ request'[p].op = "change" /\ request'[p].at = "save" /\ request'[p].version \in Nat
             \/ request'[p].op = "forgot" /\ request'[p].at = "supersede"
             \/ request'[p].op = "delete" /\ request'[p].at = "dropTokens" /\ ~user'.exists
             \/ request'[p].op = "reset" /\ request'[p].at = "user" /\ request'[p].reset \in DOMAIN resets
      BY <1>1, <1>3, <2>1, ElsewhereBegins DEF Account
    <3>2. Len(tokens') \in Nat
      BY <1>1, <2>1 DEF Stored
    <3>3. FitsRefresh(p, request[p])' /\ FitsLogin(p, request[p])' /\ FitsIssue(request[p])'
      BY <3>1 DEF FitsRefresh, FitsLogin, FitsIssue, Issuing
    <3>4. FitsOther(p, request[p])'
      BY <2>1, <3>1 DEF FitsOther, Requests
    <3> QED BY <3>1, <3>2, <3>3, <3>4 DEF Fits, Operations
  <2> QED BY <1>3, <2>1, <2>2, <2>3, ElsewhereBegins, BeginsKeeps
<1>4. ASSUME NEW t \in Tabs, Logout(p, t)
      PROVE  BaseInv'
  <2>1. request'[p] # Idle
    BY <1>4, LogoutBegins, IdleIs
  <2>2. ASSUME Grows PROVE Fits(p, request[p])'
    <3>1. FitsRefresh(p, request[p])' /\ FitsLogin(p, request[p])' /\ FitsIssue(request[p])'
          /\ FitsOther(p, request[p])'
      BY <1>4, LogoutBegins DEF FitsRefresh, FitsLogin, FitsOther, FitsIssue, Issuing, Requests
    <3> QED BY <1>1, <1>4, <3>1, LogoutBegins DEF Fits, Operations, Logout, server, Stored
  <2> QED BY <1>1, <1>4, <2>1, <2>2, LogoutBegins, BeginsKeeps DEF Logout, server
<1> QED BY <1>2, <1>3, <1>4 DEF BeginElsewhere, Login

-----------------------------------------------------------------------------
(* The tabs.                                                               *)

\* Nothing happens to the requests or to what is stored, but for links and
\* localStorage.
LEMMA RequestsRest ==
  ASSUME BaseInv, WaitInv', Overlaps,
         UNCHANGED <<request, user, tokens, issued, failures, cookie, refreshing, ended>>,
         resets' \in Seq(Link), DOMAIN resets' = DOMAIN resets,
         storage' = storage \/ (storage # NoAccess /\ storage' = [storage EXCEPT !.expired = TRUE])
  PROVE  BaseInv'
<1>1. Grows /\ Len(tokens') \in Nat
  BY DEF Grows, BaseInv, Stored
<1>2. AllFit'
  BY <1>1, OthersFit DEF AllFit, Senders, Requests
<1>3. Numbered'
  BY DEF BaseInv, Numbered, Requests
<1>4. storage' = NoAccess \/ (AccessToken(storage') /\ [storage' EXCEPT !.expired = FALSE] \in issued)
  <2>1. CASE storage' = storage
    BY <2>1 DEF BaseInv, Stored
  <2>2. CASE storage # NoAccess /\ storage' = [storage EXCEPT !.expired = TRUE]
    <3>1. AccessToken(storage) /\ [storage EXCEPT !.expired = FALSE] \in issued
      BY <2>2 DEF BaseInv, Stored
    <3>2. ASSUME NEW a, AccessToken(a), NEW b, b = [a EXCEPT !.expired = TRUE]
          PROVE  AccessToken(b) /\ [b EXCEPT !.expired = FALSE] = [a EXCEPT !.expired = FALSE]
      BY <3>2 DEF AccessToken
    <3> QED BY <2>2, <3>1, <3>2
  <2> QED BY <2>1, <2>2
<1>5. \A s : Known(s) <=> Known(s)'
  BY DEF Known, Requests
<1>6. Stored'
  BY <1>4, <1>5 DEF BaseInv, Stored, Account, AccessToken, Requests
<1> QED BY <1>2, <1>3, <1>6, Meets DEF BaseInv

\* A tab takes the answer of the request p, and it ends.
LEMMA AnswerTaken ==
  ASSUME BaseInv, WaitInv', Overlaps, NEW p \in Senders,
         request[p].op \in Operations, request' = [request EXCEPT ![p] = Done],
         UNCHANGED server, cookie' \in 0 .. Len(tokens),
         storage' = NoAccess \/ storage' \in issued,
         \A s \in ended' : s \in ended \/ Known(s),
         \/ UNCHANGED refreshing
         \/ \E t \in Tabs : refreshing[t] = p /\ refreshing' = [refreshing EXCEPT ![t] = NoRefresh]
  PROVE  BaseInv' /\ Only(p) /\ request'[p] = Done
<1>1. Only(p) /\ request'[p] = Done /\ Stored
  BY Becoming DEF BaseInv
<1>2. request[p] # Idle /\ request'[p] # Idle
  BY <1>1, NotIdle, DoneIs
<1>3. \A r \in Requests : request'[r] = Idle <=> request[r] = Idle
  BY <1>1, <1>2 DEF Only, Senders
<1>4. Grows /\ Len(tokens') \in Nat
  BY <1>1, <1>3 DEF Grows, server, Stored
<1>5. Fits(p, request[p])'
  BY <1>1, <1>4, DoneFits
<1>6. \A s : Known(s) => Known(s)'
  BY <1>4 DEF Known, Grows, Requests
<1>7. refreshing' \in [Tabs -> Calls \cup {NoRefresh}]
      /\ \A r \in Senders \ {p} : request[r].op = "refresh" =>
           refreshing'[request[r].tab] = refreshing[request[r].tab]
  <2>1. \A r \in Senders \ {p} : request[r].op = "refresh" =>
          request[r].tab \in Tabs /\ refreshing[request[r].tab] = r
    BY DEF BaseInv, AllFit, Fits, FitsRefresh
  <2> QED BY <1>1, <2>1 DEF Stored
<1>8. Stored'
  <2>1. storage' = NoAccess \/ (AccessToken(storage') /\ [storage' EXCEPT !.expired = FALSE] \in issued)
    <3>1. ASSUME NEW a \in issued
          PROVE  AccessToken(a) /\ [a EXCEPT !.expired = FALSE] \in issued
      <4>1. AccessToken(a) /\ ~a.expired
        BY <1>1, <3>1 DEF Stored
      <4>2. [a EXCEPT !.expired = FALSE] = a
        BY <4>1 DEF AccessToken
      <4> QED BY <3>1, <4>1, <4>2
    <3> QED BY <3>1
  <2>2. \A s \in ended' : Known(s)'
    BY <1>1, <1>6 DEF Stored
  <2> QED BY <1>1, <1>6, <1>7, <2>1, <2>2 DEF Stored, server, Account, Requests, AccessToken
<1>9. Numbered'
  BY <1>3, NumbersKept
<1> QED BY <1>1, <1>4, <1>5, <1>7, <1>8, <1>9, BaseKept

LEMMA AnswersBase ==
  ASSUME BaseInv, WaitInv', Overlaps,
         \/ \E t \in Tabs : Refreshed(t)
         \/ \E p \in Requests : LoggedIn(p) \/ LoggedOut(p)
  PROVE  BaseInv'
<1>1. AllFit /\ Stored
  BY DEF BaseInv
<1>2. ASSUME NEW t \in Tabs, Refreshed(t)
      PROVE  BaseInv'
  <2> DEFINE p == refreshing[t]
  <2>1. p \in Senders /\ request[p].op = "refresh" /\ request[p].at = "ok" /\ Fits(p, request[p])
    BY <1>1, <1>2, CallsAreNotRequests DEF Refreshed, At, AllFit, Stored
  <2>2. request[p].token \in 0 .. Len(tokens) /\ request[p].access \in issued
    BY <2>1 DEF Fits, FitsIssue
  <2> QED BY <1>1, <1>2, <2>1, <2>2, AnswerTaken DEF Refreshed, Becomes, Operations, Stored
<1>3. ASSUME NEW p \in Requests, LoggedIn(p)
      PROVE  BaseInv'
  <2>1. p \in Senders /\ request[p].op = "login" /\ request[p].at = "ok" /\ Fits(p, request[p])
    BY <1>1, <1>3 DEF LoggedIn, At, AllFit, Senders
  <2>2. request[p].token \in 0 .. Len(tokens) /\ request[p].access \in issued
    BY <2>1 DEF Fits, FitsIssue
  <2> QED BY <1>1, <1>3, <2>1, <2>2, AnswerTaken DEF LoggedIn, Becomes, Operations, Stored
<1>4. ASSUME NEW p \in Requests, LoggedOut(p)
      PROVE  BaseInv'
  <2>1. p \in Senders /\ request[p].op = "logout" /\ Fits(p, request[p])
    BY <1>1, <1>4 DEF LoggedOut, AllFit, Senders
  <2>2. request[p].token # 0 => Known(tokens[request[p].token].session)
    BY <1>1, <2>1 DEF Fits, Stored
  <2>3. \A s \in ended' : s \in ended \/ Known(s)
    BY <1>4, <2>2 DEF LoggedOut
  <2>4. cookie' \in 0 .. Len(tokens)
    BY <1>1, <1>4 DEF Stored, LoggedOut
  <2> QED BY <1>1, <1>4, <2>1, <2>3, <2>4, AnswerTaken DEF LoggedOut, Becomes, Operations, Stored
<1> QED BY <1>2, <1>3, <1>4

LEMMA RefreshBegins ==
  ASSUME BaseInv, NEW c \in Calls, Unauthorized(c), refreshing[call[c].tab] = NoRefresh
  PROVE  /\ c \in Senders /\ Only(c) /\ request[c] \in {Idle, Done}
         /\ LET q == request'[c] IN
              /\ Record(q) /\ q.op = "refresh" /\ q.at = "find" /\ q.tab = call[c].tab
              /\ q.token = cookie
<1> DEFINE t == call[c].tab
           i == cookie
           q == [Idle EXCEPT !.op = "refresh", !.at = "find", !.tab = t, !.token = i]
<1>1. c \in Senders /\ request' = [request EXCEPT ![c] = q]
  BY CallsAreNotRequests DEF Unauthorized, Becomes
<1>2. /\ Record(q) /\ q.op = "refresh" /\ q.at = "find" /\ q.tab = t /\ q.token = i
  <2> HIDE DEF i, t
  <2>1. ASSUME NEW j, Record(j), NEW r,
               r = [j EXCEPT !.op = "refresh", !.at = "find", !.tab = t, !.token = i]
        PROVE  /\ Record(r) /\ r.op = "refresh" /\ r.at = "find" /\ r.tab = t /\ r.token = i
    BY <2>1 DEF Record
  <2> QED BY <2>1, IdleIs
<1>3. request[c] \in {Idle, Done}
  <2>1. Fits(c, request[c]) /\ c \notin Requests
    BY <1>1, CallsAreNotRequests DEF BaseInv, AllFit
  <2>2. ASSUME request[c].op = "refresh" PROVE FALSE
    <3>1. refreshing[request[c].tab] = c /\ request[c].tab \in Tabs
      BY <2>1, <2>2 DEF Fits, FitsRefresh
    <3>2. c # NoRefresh
      BY BrowserAssumption
    <3>3. call[c].tab = request[c].tab
      BY <3>1, <3>2 DEF BaseInv, WaitInv, RefreshersAnswer
    <3> QED BY <3>1, <3>2, <3>3
  <2> QED BY <2>1, <2>2 DEF Fits, FitsLogin, FitsOther, Operations
<1> HIDE DEF q
<1> QED BY <1>1, <1>2, <1>3, Becoming

LEMMA UnauthorizedBase ==
  ASSUME BaseInv, WaitInv', Overlaps, NEW c \in Calls, Unauthorized(c)
  PROVE  BaseInv'
<1> DEFINE t == call[c].tab
<1>1. Stored /\ AllFit /\ t \in Tabs
  BY DEF BaseInv, WaitInv, Shapes
<1>2. CASE refreshing[t] # NoRefresh
  BY <1>1, <1>2, RequestsRest DEF Unauthorized, server, Stored
<1>3. CASE refreshing[t] = NoRefresh
  <2>1. /\ c \in Senders /\ Only(c)
        /\ Record(request'[c]) /\ request'[c].op = "refresh" /\ request'[c].at = "find"
        /\ request'[c].tab = t /\ request'[c].token = cookie
    BY <1>3, RefreshBegins
  <2>2. refreshing' = [refreshing EXCEPT ![t] = c]
        /\ UNCHANGED <<user, tokens, issued, resets, failures, cookie, storage, ended>>
    BY <1>3 DEF Unauthorized, server
  <2>3. \A r \in Requests : request'[r] = request[r]
    BY <2>1, CallsAreNotRequests DEF Only, Senders
  <2>4. Grows /\ Len(tokens') \in Nat
    BY <1>1, <2>2, <2>3 DEF Grows, Stored
  <2>5. refreshing' \in [Tabs -> Calls \cup {NoRefresh}] /\ refreshing'[t] = c
    BY <1>1, <2>2 DEF Stored
  <2>6. Fits(c, request[c])'
    <3>1. FitsRefresh(c, request[c])' /\ FitsLogin(c, request[c])' /\ FitsIssue(request[c])'
          /\ FitsOther(c, request[c])'
      BY <1>1, <2>1, <2>5 DEF FitsRefresh, FitsLogin, FitsOther, FitsIssue, Issuing
    <3> QED BY <1>1, <2>1, <2>2, <3>1 DEF Fits, Operations, Stored
  <2>7. \A r \in Senders \ {c} : request[r].op = "refresh" =>
          refreshing'[request[r].tab] = refreshing[request[r].tab]
    <3>1. \A r \in Senders \ {c} : request[r].op = "refresh" =>
            request[r].tab \in Tabs /\ refreshing[request[r].tab] \in Calls
      BY <1>1 DEF AllFit, Fits, FitsRefresh
    <3> QED BY <1>1, <1>3, <2>2, <3>1, BrowserAssumption DEF Stored
  <2>8. Stored'
    <3>1. TokensKept
      BY <1>1, <2>2, TokensSame DEF Stored
    <3> QED BY <1>1, <2>2, <2>4, <2>5, <3>1, StoredKept DEF Stored
  <2>9. Numbered'
    BY <2>3, NumbersKept
  <2> QED BY <2>1, <2>4, <2>6, <2>7, <2>8, <2>9, BaseKept
<1> QED BY <1>2, <1>3

\* A request the page had sent goes on without its tab.
Left(q, old) ==
  /\ Record(q) /\ q.tab = NoTab
  /\ q.op = old.op /\ q.at = old.at /\ q.token = old.token /\ q.access = old.access
  /\ q.version = old.version /\ q.reset = old.reset /\ q.session = old.session
  /\ q.password = old.password /\ q.amid = old.amid

LEMMA RedirectedIs ==
  ASSUME BaseInv, NEW t \in Tabs, Redirected(t)
  PROVE  LET p == refreshing[t] IN
         /\ p \in Senders /\ p \in Calls /\ request[p].op = "refresh" /\ request[p].at = "refused"
         /\ request[p].tab = t
         /\ request'[p] = Done
         /\ \A r \in Senders \ {p} :
              \/ request'[r] = request[r]
              \/ /\ request[r].tab = t /\ request[r].op \in Operations \ {"refresh"}
                 /\ \/ request[r].at \in {"ok", "refused"} /\ request'[r] = Done
                    \/ request[r].at \notin {"ok", "refused"} /\ Left(request'[r], request[r])
<1> DEFINE p == refreshing[t]
           orphan(r) == [request[r] EXCEPT !.tab = NoTab]
<1>1. /\ p # NoRefresh /\ request[p].op = "refresh" /\ request[p].at = "refused"
      /\ request' = [r \in DOMAIN request |->
                       IF r = p THEN Done
                       ELSE IF request[r].tab # t THEN request[r]
                       ELSE IF request[r].at \in {"ok", "refused"} THEN Done
                       ELSE orphan(r)]
  BY DEF Redirected, At
<1>2. p \in Calls /\ p \in Senders /\ request[p].tab = t
  BY <1>1, CallsAreNotRequests DEF BaseInv, WaitInv, RefreshersAnswer, Refreshes
<1>3. \A r \in Senders :
        request'[r] = IF r = p THEN Done
                      ELSE IF request[r].tab # t THEN request[r]
                      ELSE IF request[r].at \in {"ok", "refused"} THEN Done
                      ELSE orphan(r)
  BY <1>1 DEF BaseInv, WaitInv, Shapes
<1>4. \A r \in Senders : Left(orphan(r), request[r])
  <2>1. ASSUME NEW i, Record(i), NEW q, q = [i EXCEPT !.tab = NoTab]
        PROVE  Left(q, i)
    BY <2>1 DEF Record, Left
  <2>2. \A r \in Senders : Record(request[r])
    BY DEF BaseInv, AllFit, Fits
  <2> QED BY <2>1, <2>2
<1>5. ASSUME NEW r \in Senders \ {p}, request[r].tab = t
      PROVE  request[r].op \in Operations \ {"refresh"}
  <2>1. Fits(r, request[r]) /\ t # NoTab
    BY SessionsAssumption DEF BaseInv, AllFit
  <2>2. request[r].op \notin {"none", "done", "refresh"}
    BY <1>5, <2>1, IdleIs, DoneIs DEF Fits, FitsRefresh
  <2> QED BY <2>1, <2>2 DEF Fits
<1> HIDE DEF orphan
<1> QED BY <1>1, <1>2, <1>3, <1>4, <1>5

LEMMA RedirectedBase ==
  ASSUME BaseInv, WaitInv', Overlaps, NEW t \in Tabs, Redirected(t)
  PROVE  BaseInv'
<1> DEFINE p == refreshing[t]
<1>1. Stored /\ AllFit
  BY DEF BaseInv
<1>2. /\ p \in Senders /\ p \in Calls /\ request[p].op = "refresh" /\ request[p].at = "refused"
      /\ request[p].tab = t
      /\ request'[p] = Done
      /\ \A r \in Senders \ {p} :
           \/ request'[r] = request[r]
           \/ /\ request[r].tab = t /\ request[r].op \in Operations \ {"refresh"}
              /\ \/ request[r].at \in {"ok", "refused"} /\ request'[r] = Done
                 \/ request[r].at \notin {"ok", "refused"} /\ Left(request'[r], request[r])
  BY RedirectedIs
<1>3. /\ UNCHANGED <<user, tokens, issued, resets, failures, cookie, ended>>
      /\ storage' = NoAccess /\ refreshing' = [refreshing EXCEPT ![t] = NoRefresh]
  BY DEF Redirected, server
<1>4. \A r \in Requests : request'[r] = Idle <=> request[r] = Idle
  BY <1>2, DoneIs, IdleIs DEF Left, Operations, Senders
<1>5. Grows /\ Len(tokens') \in Nat
  BY <1>1, <1>3, <1>4 DEF Grows, Stored
<1>6. refreshing' \in [Tabs -> Calls \cup {NoRefresh}]
      /\ \A r \in Senders \ {p} : request[r].op = "refresh" =>
           refreshing'[request[r].tab] = refreshing[request[r].tab]
  <2>1. \A r \in Senders \ {p} : request[r].op = "refresh" =>
          request[r].tab \in Tabs /\ refreshing[request[r].tab] = r
    BY <1>1 DEF AllFit, Fits, FitsRefresh
  <2> QED BY <1>1, <1>3, <2>1 DEF Stored
<1>7. ASSUME NEW r \in Senders
      PROVE  Fits(r, request[r])'
  <2>1. CASE request'[r] = Done
    BY <1>5, <2>1, DoneFits
  <2>2. CASE r # p /\ request'[r] = request[r]
    BY <1>5, <1>6, <2>2, OthersFit
  <2>3. CASE /\ r # p /\ request[r].op \in Operations \ {"refresh"}
             /\ request[r].at \notin {"ok", "refused"} /\ Left(request'[r], request[r])
    <3>1. Fits(r, request[r])
      BY <1>1 DEF AllFit
    <3>2. \A s : Known(s) => Known(s)'
      BY <1>5 DEF Known, Grows, Requests
    <3>3. FitsRefresh(r, request[r])' /\ FitsLogin(r, request[r])' /\ FitsIssue(request[r])'
      BY <2>3, <3>1, <3>2 DEF Left, Fits, FitsRefresh, FitsLogin, FitsIssue, Issuing, Issues, Requests
    <3>4. FitsOther(r, request[r])'
      BY <1>3, <2>3, <3>1 DEF Left, Fits, FitsOther, Requests
    <3> QED BY <1>3, <2>3, <3>1, <3>3, <3>4 DEF Left, Fits, Operations
  <2> QED BY <1>2, <2>1, <2>2, <2>3
<1>8. AllFit'
  BY <1>7 DEF AllFit, Senders, Requests
<1>9. Stored'
  <2>1. \A s : Known(s) => Known(s)'
    BY <1>5 DEF Known, Grows, Requests
  <2> QED BY <1>1, <1>3, <1>6, <2>1 DEF Stored, Account, Requests, AccessToken
<1>10. Numbered'
  BY <1>4, NumbersKept
<1> QED BY <1>8, <1>9, <1>10, Meets DEF BaseInv

LEMMA LinkExpires ==
  ASSUME Stored, NEW i \in DOMAIN resets, ExpireLink(i)
  PROVE  /\ resets' \in Seq(Link) /\ DOMAIN resets' = DOMAIN resets
         /\ \A j \in DOMAIN resets : /\ resets'[j].used = resets[j].used
                                     /\ resets'[j].amid = resets[j].amid
                                     /\ resets'[j].saves = resets[j].saves
<1>1. resets' = [resets EXCEPT ![i].expired = TRUE]
  BY DEF ExpireLink
<1>2. ASSUME NEW j \in DOMAIN resets
      PROVE  /\ resets'[j] \in Link /\ resets'[j].used = resets[j].used
             /\ resets'[j].amid = resets[j].amid /\ resets'[j].saves = resets[j].saves
  <2>1. resets[j] \in Link
    BY DEF Stored
  <2>2. resets'[j] = IF j = i THEN [resets[j] EXCEPT !.expired = TRUE] ELSE resets[j]
    BY <1>1
  <2> QED BY <2>1, <2>2 DEF Link
<1>3. DOMAIN resets' = DOMAIN resets /\ resets' = [j \in DOMAIN resets' |-> resets'[j]]
  BY <1>1
<1> QED BY <1>2, <1>3, LinksKeep DEF Stored

LEMMA BaseStep == BaseInv /\ Next => BaseInv'
<1> SUFFICES ASSUME BaseInv, Next PROVE BaseInv'
  OBVIOUS
<1>1. WaitInv' /\ Stored /\ Overlaps
  BY WaitStep DEF BaseInv, Next
<1>2. CASE \E c \in Calls : Call(c) \/ Succeeds(c) \/ Refused(c)
  BY <1>1, <1>2, RequestsRest DEF Call, Succeeds, Refused, server, Stored
<1>3. CASE \E c \in Calls : Unauthorized(c)
  BY <1>1, <1>3, UnauthorizedBase
<1>4. CASE (\E t \in Tabs : Refreshed(t)) \/ \E p \in Requests : LoggedIn(p) \/ LoggedOut(p)
  BY <1>1, <1>4, AnswersBase
<1>5. CASE \E t \in Tabs : Redirected(t)
  BY <1>1, <1>5, RedirectedBase
<1>6. CASE Server
  <2>1. PICK p \in Senders : Handle(p) /\ UNCHANGED client
    BY <1>6 DEF Server
  <2> QED
    BY <1>1, <2>1, InsertBase, RefreshesBase, LogoutsBase, PasswordsBase, LinksBase DEF Handle
<1>7. CASE \E p \in Requests : \/ BeginElsewhere(p) /\ UNCHANGED client
                              \/ \E t \in Tabs : Login(p, t) \/ Logout(p, t)
  BY <1>1, <1>7, BeginsBase
<1>8. CASE ExpireAccess
  BY <1>1, <1>8, RequestsRest DEF ExpireAccess, server, Stored
<1>9. CASE (\E p \in Senders : Fails(p)) /\ UNCHANGED client
  BY <1>1, <1>9, RefreshesBase
<1>10. CASE (\E i \in DOMAIN resets : ExpireLink(i)) /\ UNCHANGED client
  BY <1>1, <1>10, RequestsRest, LinkExpires DEF ExpireLink, client
<1> QED
  BY <1>2, <1>3, <1>4, <1>5, <1>6, <1>7, <1>8, <1>9, <1>10 DEF Next, Receive

-----------------------------------------------------------------------------
(* What the steps, but an insertion, do to the handlers and to the cookie. *)

RefreshMoves(p) ==
  LET q == request[p]
      r == request'[p] IN
  /\ q.op = "refresh"
  /\ \/ /\ r.op = "refresh" /\ r.tab = q.tab /\ r.token = q.token
        /\ \/ q.at = "find" /\ r.at = "user" /\ Usable(q.token)' /\ user' = user
           \/ q.at = "find" /\ r.at = "refused" /\ ~Usable(q.token)
           \/ q.at = "user" /\ r.at = "revoke" /\ user' = user /\ r.version = user.version
           \/ /\ q.at = "revoke" /\ r.at = "insert" /\ ~Usable(q.token)'
              /\ r.session = q.session /\ r.amid = q.amid
              /\ r.version = q.version /\ r.password = q.password
           \/ r.at = "refused" /\ (failures' > 0 \/ ~user'.exists)
     \/ r = Done /\ q.at = "ok" /\ cookie' = q.token
     \/ r = Done /\ q.at = "refused" /\ storage' = NoAccess

LoginMoves(p) ==
  /\ request[p].op = "login"
  /\ Left(request'[p], request[p]) \/ (request'[p] = Done /\ request[p].at = "ok")

LogoutMoves(p) ==
  LET q == request[p]
      r == request'[p] IN
  /\ q.op = "logout"
  /\ \/ r = Done
     \/ /\ r.op = "logout" /\ r.token = q.token
        /\ \/ r.at \in {q.at, "refused"} \/ q.token = 0
           \/ q.at = "guard" /\ r.at = "revoke"
           \/ q.at = "revoke" /\ r.at = "bump" /\ ~Usable(q.token)'
           \/ q.at = "bump" /\ r.at = "ok"

OtherMoves(p) ==
  /\ request[p].op \in Operations \ {"refresh", "login", "logout"}
  /\ request'[p].op \in {request[p].op, "done"}
  /\ request'[p].token \in {request[p].token, 0}
  /\ \/ Left(request'[p], request[p])
     \/ request'[p] = Done /\ request[p].at \in {"ok", "refused"}
     \/ Handle(p) /\ Only(p)

Begins(p) ==
  LET r == request'[p] IN
  /\ request[p] \in {Idle, Done} /\ Only(p)
  /\ \/ r.op = "login" /\ r.at = "insert" /\ r.token = 0 /\ r.session = p
        /\ p \in Requests /\ request[p] = Idle
        /\ r.version = user.version /\ r.password = user.password /\ user' = user
     \/ r.op = "logout" /\ r.at = "guard" /\ r.token = cookie /\ storage # NoAccess
     \/ r.op = "refresh" /\ r.at = "find" /\ r.token = cookie /\ refreshing[r.tab] = NoRefresh
     \/ /\ r.op \in Operations \ {"refresh", "login", "logout"} /\ r.token = 0
        /\ r.op = "change" => r.version = user.version /\ user' = user
        /\ r.op = "reset" => BeginReset(p, r.reset) /\ r.reset \in DOMAIN resets /\ r.at = "user"
        /\ r.op = "forgot" => r.at = "supersede"

Moves(p) ==
  \/ request'[p] = request[p]
  \/ RefreshMoves(p) \/ LoginMoves(p) \/ LogoutMoves(p) \/ OtherMoves(p) \/ Begins(p)

\* The tab that waited for p stores what it was given.
Stores(p) ==
  /\ request[p].op \in {"login", "refresh"} /\ request[p].at = "ok"
  /\ cookie' = request[p].token /\ request'[p] = Done

AccountMoves ==
  \/ user' = user \/ ~user'.exists
  \/ \E p \in Senders : (ChangeSave(p) \/ ResetSave(p) \/ Bump(p)) /\ Only(p)

Steady ==
  /\ TokensKept
  /\ \A p \in Senders : Moves(p)
  /\ user'.exists => user.exists
  /\ AccountMoves /\ issued' = issued
  /\ failures > 0 => failures' > 0
  /\ (cookie' = cookie /\ (storage' # NoAccess => storage # NoAccess))
     \/ (cookie' = 0)
     \/ \E p \in Senders : Stores(p)
  /\ \A s \in ended' : s \in ended \/
       \E p \in Senders : /\ request[p].op = "logout" /\ request[p].at = "ok"
                          /\ request[p].token # 0 /\ "refresh" \notin Ops(p)
                          /\ s = tokens[request[p].token].session

LEMMA OneMoves ==
  ASSUME BaseInv, TokensKept, NEW p \in Senders, Only(p), Moves(p),
         user'.exists => user.exists, AccountMoves, failures > 0 => failures' > 0,
         UNCHANGED <<issued, cookie, ended>>, storage' # NoAccess => storage # NoAccess
  PROVE  Steady
BY DEF Steady, Only, Moves

\* Handlers that neither log in nor refresh nor log out.
LEMMA OthersSteady ==
  ASSUME BaseInv, NEW p \in Senders, UNCHANGED client,
         \/ ChangeSave(p) \/ (RevokeAll(p)) \/ Supersede(p) \/ InsertReset(p) \/ ResetUser(p)
         \/ ResetSave(p) \/ Mark(p) \/ DropTokens(p) \/ (Bump(p) /\ request[p].op # "logout")
  PROVE  Steady
<1>1. Fits(p, request[p]) /\ Stored /\ user \in Account
  BY DEF BaseInv, AllFit, Stored
<1>2. request[p].op \in Operations \ {"refresh", "login", "logout"}
  BY <1>1, DoneIs, IdleIs DEF Fits, FitsRefresh, FitsLogin, FitsOther, Operations, ChangeSave, RevokeAll,
     Supersede, InsertReset, ResetUser, ResetSave, Mark, DropTokens, Bump, At
<1>3. Only(p) /\ \/ \E answer : Answered(p, answer)
                 \/ Same(request'[p], request[p])
  BY GoesOn, RespondAnswers DEF ChangeSave, RevokeAll,
     Supersede, InsertReset, ResetUser, ResetSave, Mark, DropTokens, Bump
<1>4. Moves(p)
  <2>1. Handle(p)
    BY DEF Handle
  <2> QED BY <1>2, <1>3, <2>1, DoneIs DEF Moves, OtherMoves, Answered, Same
<1>5. TokensKept
  BY <1>1, TokensSame, RevokesAll, DropsAll DEF Stored, ChangeSave, RevokeAll,
     Supersede, InsertReset, ResetUser, ResetSave, Mark, DropTokens, Bump, server
<1>6. (user'.exists => user.exists) /\ failures' = failures
  <2>1. CASE ChangeSave(p) \/ ResetSave(p) \/ Bump(p)
    <3>1. p \in Requests
      BY <1>1, <1>2 DEF Fits, FitsOther, Operations
    <3>2. request[p].op = "change" => request[p].version + 1 \in Nat
      BY <1>1 DEF Fits, FitsOther
    <3> QED BY <1>1, <2>1, <3>1, <3>2, AccountSteps DEF ChangeSave, ResetSave, Bump, At
  <2> QED BY <2>1 DEF RevokeAll, Supersede, InsertReset, ResetUser, Mark, DropTokens, server
<1>7. AccountMoves /\ issued' = issued
  BY <1>3 DEF AccountMoves, ChangeSave, RevokeAll, Supersede, InsertReset, ResetUser, ResetSave, Mark,
     DropTokens, Bump, server
<1> QED BY <1>3, <1>4, <1>5, <1>6, <1>7, OneMoves DEF client

LEMMA LogoutsSteady ==
  ASSUME BaseInv, NEW p \in Senders, UNCHANGED client,
         LogoutGuard(p) \/ LogoutRevoke(p) \/ (Bump(p) /\ request[p].op = "logout")
  PROVE  Steady
<1> DEFINE q == request[p]
           i == q.token
<1>1. Fits(p, q) /\ Stored /\ user \in Account /\ q.op = "logout"
  BY DEF BaseInv, AllFit, Stored, LogoutGuard, LogoutRevoke, At
<1>2. CASE LogoutGuard(p)
  <2>1. Only(p) /\ \/ Answered(p, "refused") \/ (i = 0 /\ Answered(p, "ok"))
                   \/ (Same(request'[p], q) /\ q.at = "guard" /\ request'[p].at = "revoke")
    BY <1>2, GoesOn, RespondAnswers DEF LogoutGuard, At
  <2>2. Moves(p)
    BY <1>1, <2>1 DEF Moves, LogoutMoves, Answered, Same
  <2> QED BY <1>1, <1>2, <2>1, <2>2, TokensSame, OneMoves DEF LogoutGuard, server, client, Stored, AccountMoves
<1>3. CASE LogoutRevoke(p)
  <2>1. i \in DOMAIN tokens
    BY <1>1, <1>3 DEF Stored, Fits, FitsOther, LogoutRevoke, At
  <2>2. Only(p) /\ Same(request'[p], q) /\ q.at = "revoke" /\ request'[p].at = "bump"
    BY <1>3, GoesOn DEF LogoutRevoke, At
  <2>3. TokensKept /\ ~Usable(i)'
    BY <1>1, <1>3, <2>1, <2>2, RevokesOne, TokensSame DEF Stored, LogoutRevoke, Usable, Same
  <2>4. Moves(p)
    BY <1>1, <2>3, <2>2 DEF Moves, LogoutMoves, Same, Usable
  <2> QED BY <1>1, <1>3, <2>3, <2>2, <2>4, OneMoves DEF LogoutRevoke, client, AccountMoves
<1>4. CASE Bump(p)
  <2>1. Only(p) /\ Answered(p, "ok") /\ q.at = "bump"
    BY <1>4, RespondAnswers DEF Bump
  <2>2. Moves(p)
    BY <1>1, <2>1 DEF Moves, LogoutMoves, Answered, Same
  <2> QED BY <1>1, <1>4, <2>1, <2>2, TokensSame, OneMoves, AccountSteps DEF Bump, client, Stored, AccountMoves
<1> QED BY <1>2, <1>3, <1>4

LEMMA RefreshesSteady ==
  ASSUME BaseInv, NEW p \in Senders, UNCHANGED client,
         RefreshFind(p) \/ RefreshUser(p) \/ RefreshRevoke(p) \/ Fails(p)
  PROVE  Steady
<1> DEFINE q == request[p]
           i == q.token
<1>1. Fits(p, q) /\ Stored /\ q.op = "refresh" /\ q.tab # NoTab
  BY SessionsAssumption
  DEF BaseInv, AllFit, RefreshFind, RefreshUser, RefreshRevoke, Fails, At, Fits, FitsRefresh
<1>2. ASSUME Answered(p, "refused")
      PROVE  request'[p].op = "refresh" /\ request'[p].tab = q.tab /\ request'[p].token = i
             /\ request'[p].at = "refused"
  BY <1>1, <1>2 DEF Answered, Same
<1>3. CASE RefreshFind(p)
  <2>1. TokensKept /\ UNCHANGED <<tokens, user, issued, failures>>
    BY <1>1, <1>3, TokensSame DEF RefreshFind, server, Stored
  <2>2. Only(p) /\ Moves(p)
    <3>1. CASE Usable(i)
      <4>1. Only(p) /\ Same(request'[p], q) /\ q.at = "find" /\ request'[p].at = "user"
        BY <1>3, <3>1, GoesOn DEF RefreshFind, At
      <4> QED BY <1>1, <2>1, <3>1, <4>1 DEF Moves, RefreshMoves, Same, Usable
    <3>2. CASE ~Usable(i)
      <4>1. Only(p) /\ Answered(p, "refused") /\ q.at = "find"
        BY <1>3, <3>2, RespondAnswers DEF RefreshFind, At
      <4> QED BY <1>1, <1>2, <3>2, <4>1 DEF Moves, RefreshMoves
    <3> QED BY <3>1, <3>2
  <2> QED BY <2>1, <2>2, OneMoves DEF client, AccountMoves
<1>4. CASE RefreshUser(p)
  <2>1. TokensKept /\ UNCHANGED <<tokens, user, issued, failures>>
    BY <1>1, <1>4, TokensSame DEF RefreshUser, server, Stored
  <2>2. Only(p) /\ Moves(p)
    <3>1. CASE user.exists
      <4> DEFINE version == user.version
                 session == tokens[i].session
                 password == tokens[i].password
                 overlapped == tokens[i].amid
                 r == [q EXCEPT !.at = "revoke", !.version = version, !.session = session,
                                !.password = password, !.amid = overlapped]
      <4>1. Only(p) /\ request'[p] = r /\ q.at = "user"
        BY <1>4, <3>1, Becoming DEF RefreshUser, Becomes, At
      <4>2. r.op = q.op /\ r.tab = q.tab /\ r.token = i /\ r.at = "revoke"
            /\ r.version = version
        <5> HIDE DEF version, session, password, overlapped
        <5>1. ASSUME NEW old, Record(old), NEW new,
                     new = [old EXCEPT !.at = "revoke", !.version = version, !.session = session,
                                       !.password = password, !.amid = overlapped]
              PROVE  /\ new.op = old.op /\ new.tab = old.tab /\ new.token = old.token
                     /\ new.at = "revoke" /\ new.version = version
          BY <5>1 DEF Record
        <5> QED BY <1>1, <5>1 DEF Fits
      <4> HIDE DEF r
      <4> QED BY <1>1, <2>1, <4>1, <4>2 DEF Moves, RefreshMoves
    <3>2. CASE ~user.exists
      <4>1. Only(p) /\ Answered(p, "refused")
        BY <1>4, <3>2, RespondAnswers DEF RefreshUser
      <4> QED BY <1>1, <1>2, <2>1, <3>2, <4>1 DEF Moves, RefreshMoves
    <3> QED BY <3>1, <3>2
  <2> QED BY <2>1, <2>2, OneMoves DEF client, AccountMoves
<1>5. CASE RefreshRevoke(p)
  <2>1. i \in DOMAIN tokens /\ q.at = "revoke" /\ UNCHANGED <<user, issued, failures>>
    BY <1>1, <1>5 DEF Fits, FitsRefresh, RefreshRevoke, At, Stored
  <2>2. CASE tokens[i].status = "gone"
    <3>1. ~user.exists
      BY <1>1, <2>1, <2>2 DEF Stored
    <3>2. Only(p) /\ Answered(p, "refused") /\ TokensKept
      BY <1>1, <1>5, <2>2, RespondAnswers, TokensSame DEF RefreshRevoke, Stored
    <3>3. Moves(p)
      BY <1>1, <1>2, <2>1, <3>1, <3>2 DEF Moves, RefreshMoves
    <3> QED BY <2>1, <3>2, <3>3, OneMoves DEF client, AccountMoves
  <2>3. CASE tokens[i].status # "gone"
    <3>1. Only(p) /\ Same(request'[p], q) /\ request'[p].at = "insert"
      BY <1>5, <2>3, GoesOn DEF RefreshRevoke
    <3>2. TokensKept /\ ~Usable(i)'
      BY <1>1, <1>5, <2>1, <2>3, <3>1, RevokesOne DEF RefreshRevoke, Stored, Usable, Same
    <3>3. Moves(p)
      BY <1>1, <2>1, <3>1, <3>2 DEF Moves, RefreshMoves, Same, Usable
    <3> QED BY <2>1, <3>1, <3>2, <3>3, OneMoves DEF client, AccountMoves
  <2> QED BY <2>2, <2>3
<1>6. CASE Fails(p)
  <2>1. Only(p) /\ Answered(p, "refused") /\ TokensKept /\ failures' > 0 /\ UNCHANGED <<user, issued>>
    BY <1>1, <1>6, RespondAnswers, TokensSame DEF Fails, Stored
  <2>2. Moves(p)
    BY <1>1, <1>2, <2>1 DEF Moves, RefreshMoves
  <2> QED BY <2>1, <2>2, OneMoves DEF client, AccountMoves
<1> QED BY <1>3, <1>4, <1>5, <1>6

LEMMA BeginsSteady ==
  ASSUME BaseInv, NEW p \in Requests,
         \/ BeginElsewhere(p) /\ UNCHANGED client
         \/ \E t \in Tabs : Login(p, t) \/ Logout(p, t)
  PROVE  Steady
<1>1. p \in Senders /\ Stored /\ user \in Account
  BY DEF Senders, BaseInv, Stored
<1>2. UNCHANGED <<tokens, issued, failures, client>> /\ (user'.exists => user.exists) /\ AccountMoves
  BY <1>1, AccountSteps DEF AccountMoves, BeginElsewhere, BeginLogin, BeginChange, BeginForgot, BeginReset,
     BeginDelete, Login, Logout, server
<1>3. Only(p) /\ Moves(p)
  <2>1. ASSUME NEW tab, BeginLogin(p, tab) PROVE Only(p) /\ Moves(p)
    <3>1. user' = user
      BY <2>1 DEF BeginLogin, server
    <3> QED BY <2>1, <3>1, LoginBegins DEF Moves, Begins
  <2>2. ASSUME BeginChange(p) \/ BeginForgot(p) \/ BeginDelete(p) \/ (\E i \in DOMAIN resets : BeginReset(p, i))
        PROVE  Only(p) /\ Moves(p)
    <3>1. BeginChange(p) => user' = user
      BY DEF BeginChange, server
    <3> QED BY <2>2, <3>1, ElsewhereBegins DEF Moves, Begins, Operations
  <2>3. ASSUME NEW t, Logout(p, t) PROVE Only(p) /\ Moves(p)
    <3>1. storage # NoAccess
      BY <2>3 DEF Logout
    <3> QED BY <2>3, <3>1, LogoutBegins DEF Moves, Begins
  <2> QED BY <2>1, <2>2, <2>3 DEF BeginElsewhere, Login
<1> QED BY <1>1, <1>2, <1>3, TokensSame, OneMoves DEF client, Stored

LEMMA TabsSteady ==
  ASSUME BaseInv,
         \/ \E t \in Tabs : Refreshed(t) \/ Redirected(t)
         \/ \E p \in Requests : LoggedIn(p) \/ LoggedOut(p)
         \/ \E c \in Calls : Unauthorized(c)
         \/ UNCHANGED <<server, request, cookie, ended>> /\ (storage' # NoAccess => storage # NoAccess)
         \/ UNCHANGED <<user, tokens, issued, request, failures, client>>
  PROVE  Steady
<1>1. Stored /\ AllFit
  BY DEF BaseInv
<1>2. ASSUME UNCHANGED <<user, tokens, issued, failures>>
      PROVE  AccountMoves /\ TokensKept /\ (user'.exists => user.exists) /\ (failures > 0 => failures' > 0)
  BY <1>1, <1>2, TokensSame DEF Stored, AccountMoves
<1>3. ASSUME NEW t \in Tabs, Refreshed(t)
      PROVE  Steady
  <2> DEFINE p == refreshing[t]
  <2>1. p \in Senders /\ request[p].op = "refresh" /\ request[p].at = "ok"
        /\ request' = [request EXCEPT ![p] = Done] /\ cookie' = request[p].token
        /\ UNCHANGED <<user, tokens, issued, failures, ended>>
    BY <1>1, <1>3, CallsAreNotRequests DEF Refreshed, Becomes, At, Stored, server
  <2>2. request'[p] = Done /\ Only(p)
    BY <2>1, Becoming
  <2>3. Moves(p) /\ Stores(p)
    BY <2>1, <2>2 DEF Moves, RefreshMoves, Stores
  <2> QED BY <1>2, <2>1, <2>2, <2>3 DEF Steady, Only, Moves
<1>4. ASSUME NEW t \in Tabs, Redirected(t)
      PROVE  Steady
  <2>1. UNCHANGED <<user, tokens, issued, failures, cookie, ended>> /\ storage' = NoAccess
    BY <1>4 DEF Redirected, server
  <2>2. \A p \in Senders : Moves(p)
    <3> DEFINE p == refreshing[t]
    <3>1. /\ p \in Senders /\ request[p].op = "refresh" /\ request[p].at = "refused"
          /\ request'[p] = Done
          /\ \A r \in Senders \ {p} :
               \/ request'[r] = request[r]
               \/ /\ request[r].op \in Operations \ {"refresh"}
                  /\ \/ request[r].at \in {"ok", "refused"} /\ request'[r] = Done
                     \/ request[r].at \notin {"ok", "refused"} /\ Left(request'[r], request[r])
      BY <1>4, RedirectedIs
    <3>2. Moves(p)
      BY <2>1, <3>1 DEF Moves, RefreshMoves
    <3>3. ASSUME NEW r \in Senders \ {p}, request'[r] # request[r]
          PROVE  LoginMoves(r) \/ LogoutMoves(r) \/ OtherMoves(r)
      <4>1. request[r].op = "login" => request[r].at # "refused"
        BY <1>1 DEF AllFit, Fits, FitsLogin
      <4> QED BY <3>1, <3>3, <4>1, DoneIs DEF Operations, LoginMoves, LogoutMoves, OtherMoves, Left
    <3> QED BY <3>2, <3>3 DEF Moves
  <2> QED BY <1>2, <2>1, <2>2 DEF Steady
<1>5. ASSUME NEW p \in Requests, LoggedIn(p)
      PROVE  Steady
  <2>1. p \in Senders /\ request[p].op = "login" /\ request[p].at = "ok"
        /\ request' = [request EXCEPT ![p] = Done] /\ cookie' = request[p].token
        /\ UNCHANGED <<user, tokens, issued, failures, ended>>
    BY <1>5 DEF LoggedIn, Becomes, At, server, Senders
  <2>2. request'[p] = Done /\ Only(p)
    BY <2>1, Becoming
  <2>3. Moves(p) /\ Stores(p)
    BY <2>1, <2>2 DEF Moves, LoginMoves, Stores
  <2> QED BY <1>2, <2>1, <2>2, <2>3 DEF Steady, Only, Moves
<1>6. ASSUME NEW p \in Requests, LoggedOut(p)
      PROVE  Steady
  <2>1. p \in Senders /\ request[p].op = "logout" 
        /\ request' = [request EXCEPT ![p] = Done] /\ cookie' \in {cookie, 0} /\ storage' = NoAccess
        /\ UNCHANGED <<user, tokens, issued, failures>>
    BY <1>6 DEF LoggedOut, Becomes, server, Senders
  <2>2. request'[p] = Done /\ Only(p)
    BY <2>1, Becoming
  <2>3. Moves(p)
    BY <2>1, <2>2 DEF Moves, LogoutMoves
  <2>4. \A s \in ended' : s \in ended \/
          /\ request[p].op = "logout" /\ request[p].at = "ok"
          /\ request[p].token # 0 /\ "refresh" \notin Ops(p)
          /\ s = tokens[request[p].token].session
    BY <1>6 DEF LoggedOut
  <2> QED BY <1>2, <2>1, <2>2, <2>3, <2>4 DEF Steady, Only, Moves
<1>7. ASSUME UNCHANGED <<user, tokens, issued, failures, request, cookie, ended>>,
             storage' # NoAccess => storage # NoAccess
      PROVE  Steady
  BY <1>2, <1>7 DEF Steady, Moves
<1>8. ASSUME NEW c \in Calls, Unauthorized(c)
      PROVE  Steady
  <2>1. UNCHANGED <<user, tokens, issued, failures, cookie, storage, ended>>
    BY <1>8 DEF Unauthorized, server
  <2>2. CASE refreshing[call[c].tab] = NoRefresh
    <3>1. c \in Senders /\ Only(c) /\ Moves(c)
      BY <1>8, <2>2, RefreshBegins DEF Moves, Begins
    <3> QED BY <1>2, <2>1, <3>1, OneMoves
  <2>3. CASE refreshing[call[c].tab] # NoRefresh
    BY <1>7, <1>8, <2>1, <2>3 DEF Unauthorized
  <2> QED BY <2>2, <2>3
<1> QED BY <1>3, <1>4, <1>5, <1>6, <1>7, <1>8 DEF server, client

LEMMA StepsSteady ==
  ASSUME BaseInv, Next
  PROVE  Steady \/ \E p \in Senders : Insert(p) /\ UNCHANGED client
<1>1. CASE Server
  BY <1>1, OthersSteady, LogoutsSteady, RefreshesSteady DEF Server, Handle
<1>2. CASE Receive \/ \E c \in Calls : Call(c)
  BY <1>2, TabsSteady DEF Receive, Call, Succeeds, Refused
<1>3. CASE \E p \in Requests : \/ BeginElsewhere(p) /\ UNCHANGED client
                              \/ \E t \in Tabs : Login(p, t) \/ Logout(p, t)
  BY <1>3, BeginsSteady
<1>4. CASE ExpireAccess
  BY <1>4, TabsSteady DEF ExpireAccess
<1>5. CASE (\E p \in Senders : Fails(p)) /\ UNCHANGED client
  BY <1>5, RefreshesSteady
<1>6. CASE (\E i \in DOMAIN resets : ExpireLink(i)) /\ UNCHANGED client
  BY <1>6, TabsSteady DEF ExpireLink
<1> QED BY <1>1, <1>2, <1>3, <1>4, <1>5, <1>6 DEF Next

-----------------------------------------------------------------------------
(* The ends of a chain.                                                    *)

\* The handler p went on from a token already, takes up the token i as that is
\* revoked, or begins a session.
Keeps(p) ==
  /\ Continues(p) /\ SessionOf(p)' = SessionOf(p) /\ MetBy(p) \subseteq MetBy(p)'
  /\ request'[p].op = request[p].op

TakesUp(p, i) ==
  /\ request[p].op = "refresh" /\ request'[p].op = "refresh" /\ request[p].token = i
  /\ Usable(i) /\ tokens'[i].status # "live"
  /\ SessionOf(p)' = tokens[i].session /\ tokens[i].amid \subseteq MetBy(p)'

BeginsNew(p) == request'[p].op = "login" /\ request[p] = Idle /\ SessionOf(p)' = p /\ p \in Requests

\* What a handler knows of the others it keeps.
LEMMA KnowsStill ==
  ASSUME BaseInv, BaseInv', Overlaps, NEW p \in Senders,
         request'[p].op \in Operations \ {"change", "delete"}
  PROVE  amid[p] \subseteq amid'[p] /\ Ops(p) \subseteq Ops(p)'
BY Meets DEF BaseInv, Ops

LEMMA Claims ==
  ASSUME BaseInv, BaseInv', Overlaps, Steady, NEW p \in Senders, Continues(p)'
  PROVE  Keeps(p) \/ TakesUp(p, request[p].token) \/ BeginsNew(p)
<1> DEFINE q == request[p]
           r == request'[p]
           i == q.token
<1>1. /\ r.op \in {"login", "refresh"} /\ Ops(p) \subseteq Ops(p)'
      /\ \/ r.at = "insert"
         \/ r.op = "refresh" /\ r.at \in {"user", "revoke"} /\ ~(r.token \in DOMAIN tokens' /\ tokens'[r.token].status = "live")
  BY KnowsStill DEF Continues, Operations, Usable
<1>2. Fits(p, q) /\ Stored /\ Moves(p) /\ TokensKept /\ Fits(p, request[p])'
  BY DEF BaseInv, AllFit, Steady, Senders, Requests
<1>3. SessionOf(p)' = IF r.at = "insert" THEN r.session ELSE tokens'[r.token].session
  BY DEF SessionOf
<1>4. MetBy(p)' = (IF r.at = "insert" THEN r.amid ELSE tokens'[r.token].amid) \cup Ops(p)'
  BY DEF MetBy
<1>5. ASSUME q.op = "refresh", r.op = "refresh", r.token = i, q.at \in {"user", "revoke"},
             r.at \in {"user", "revoke", "insert"}, tokens'[i].status # "live",
             r.at = "insert" => r.session = tokens[i].session /\ r.amid = tokens[i].amid
      PROVE  Keeps(p) \/ TakesUp(p, i)
  <2>1. i \in DOMAIN tokens
    BY <1>2, <1>5 DEF Fits, FitsRefresh, Stored
  <2>2. SessionOf(p)' = tokens[i].session /\ MetBy(p)' = tokens[i].amid \cup Ops(p)'
    BY <1>2, <1>3, <1>4, <1>5, <2>1 DEF TokensKept
  <2>3. CASE Usable(i)
    BY <1>5, <2>2, <2>3 DEF TakesUp
  <2>4. CASE ~Usable(i)
    <3>1. Continues(p) /\ SessionOf(p) = tokens[i].session /\ MetBy(p) = tokens[i].amid \cup Ops(p)
      BY <1>5, <2>4 DEF Continues, SessionOf, MetBy
    <3> QED BY <1>1, <1>5, <2>2, <3>1 DEF Keeps
  <2> QED BY <2>3, <2>4
<1>6. ASSUME q.at = "insert", r.at = "insert", r.op = q.op, r.session = q.session, r.amid = q.amid
      PROVE  Keeps(p)
  BY <1>1, <1>3, <1>4, <1>6 DEF Keeps, Continues, SessionOf, MetBy
<1>7. CASE r = q
  <2>1. CASE r.at = "insert"
    BY <1>6, <1>7, <2>1
  <2>2. CASE r.at # "insert"
    <3>1. i \in DOMAIN tokens
      BY <1>1, <1>2, <1>7, <2>2 DEF Fits, FitsRefresh, Stored
    <3>2. DOMAIN tokens' = DOMAIN tokens
      BY <1>2 DEF TokensKept
    <3> QED BY <1>1, <1>5, <1>7, <2>2, <3>1, <3>2
  <2> QED BY <2>1, <2>2
<1>8. CASE RefreshMoves(p)
  <2>1. r.op = "refresh" /\ q.op = "refresh" /\ r.token = i
    BY <1>1, <1>8, DoneIs DEF RefreshMoves
  <2>2. CASE q.at = "user" /\ r.at = "revoke"
    <3>1. i \in DOMAIN tokens
      BY <1>2, <2>1, <2>2 DEF Fits, FitsRefresh, Stored
    <3>2. DOMAIN tokens' = DOMAIN tokens
      BY <1>2 DEF TokensKept
    <3> QED BY <1>1, <1>5, <2>1, <2>2, <3>1, <3>2
  <2>3. CASE q.at = "revoke" /\ r.at = "insert"
    <3>1. /\ q.session = tokens[i].session /\ q.amid = tokens[i].amid /\ i \in DOMAIN tokens
      BY <1>2, <2>1, <2>3 DEF Fits, FitsRefresh, Stored
    <3>2. ~(r.token \in DOMAIN tokens' /\ tokens'[r.token].status = "live")
          /\ r.session = q.session /\ r.amid = q.amid
      BY <1>8, <2>1, <2>3 DEF RefreshMoves, Usable
    <3>3. DOMAIN tokens' = DOMAIN tokens
      BY <1>2 DEF TokensKept
    <3> QED BY <1>5, <2>1, <2>3, <3>1, <3>2, <3>3
  <2>4. CASE q.at = "find" /\ r.at = "user"
    BY <1>1, <1>8, <2>1, <2>4 DEF RefreshMoves, Usable
  <2> QED BY <1>1, <1>8, <2>1, <2>2, <2>3, <2>4, DoneIs DEF RefreshMoves
<1>9. CASE LoginMoves(p)
  <2>1. Left(r, q) /\ q.op = "login"
    BY <1>1, <1>9, DoneIs DEF LoginMoves
  <2> QED BY <1>1, <1>6, <2>1 DEF Left
<1>10. CASE LogoutMoves(p) \/ OtherMoves(p)
  BY <1>1, <1>10, DoneIs DEF LogoutMoves, OtherMoves, Operations
<1>11. CASE Begins(p)
  BY <1>1, <1>3, <1>11 DEF Begins, BeginsNew
<1> QED BY <1>2, <1>7, <1>8, <1>9, <1>10, <1>11 DEF Moves

\* A session that has not begun is nobody's.
LEMMA NobodysYet ==
  ASSUME BaseInv, NEW s
  PROVE  /\ \A i \in DOMAIN tokens : tokens[i].session = s => Known(s)
         /\ \A p \in Senders : Continues(p) /\ SessionOf(p) = s => Known(s)
         /\ s \in Requests /\ request[s] = Idle => ~Known(s)
<1>1. Stored /\ AllFit
  BY DEF BaseInv
<1>2. ASSUME NEW p \in Senders, Continues(p)
      PROVE  Known(SessionOf(p))
  <2>1. CASE request[p].at = "insert"
    BY <1>1, <1>2, <2>1 DEF AllFit, Fits, FitsIssue, Issuing, Issues, Continues, SessionOf
  <2>2. CASE request[p].at # "insert"
    <3>1. request[p].token \in DOMAIN tokens
      BY <1>1, <1>2, <2>2 DEF AllFit, Fits, FitsRefresh, Continues, Stored
    <3> QED BY <1>1, <2>2, <3>1 DEF Stored, SessionOf
  <2> QED BY <2>1, <2>2
<1>3. s \in Requests => s \notin {-1, -2}
  BY SessionsAssumption DEF Requests
<1> QED BY <1>1, <1>2, <1>3 DEF Stored, Known

LEMMA EndsSteady ==
  ASSUME BaseInv, BaseInv', Overlaps, Steady, NEW s, Known(s), NEW i, EndsBut(s, i)
  PROVE  EndsBut(s, i)' \/ \E r \in Senders : Continues(r)' /\ TakesUp(r, i)
<1> SUFFICES ASSUME \A r \in Senders : Continues(r)' => ~TakesUp(r, i)
             PROVE  EndsBut(s, i)'
  OBVIOUS
<1>1. ASSUME NEW j \in DOMAIN tokens' \ {i}, Usable(j)', tokens'[j].session = s
      PROVE  "refresh" \in tokens'[j].amid
  <2>1. j \in DOMAIN tokens /\ Usable(j) /\ tokens[j].session = s /\ tokens'[j].amid = tokens[j].amid
    BY <1>1 DEF Steady, TokensKept, Usable
  <2> QED BY <2>1 DEF EndsBut
<1>2. ASSUME NEW p \in Senders, Continues(p)', SessionOf(p)' = s
      PROVE  "refresh" \in MetBy(p)'
  <2>1. CASE Keeps(p)
    BY <1>2, <2>1 DEF Keeps, EndsBut
  <2>2. CASE TakesUp(p, request[p].token)
    <3> DEFINE k == request[p].token
    <3>1. k # i /\ Usable(k) /\ tokens[k].session = s /\ tokens[k].amid \subseteq MetBy(p)'
      BY <1>2, <2>2 DEF TakesUp
    <3>2. k \in DOMAIN tokens
      BY <3>1 DEF Usable
    <3> QED BY <3>1, <3>2 DEF EndsBut
  <2>3. CASE BeginsNew(p)
    BY <1>2, <2>3, NobodysYet DEF BeginsNew
  <2> QED BY <1>2, <2>1, <2>2, <2>3, Claims
<1> QED BY <1>1, <1>2 DEF EndsBut, Senders, Requests

LEMMA OneEndSteady ==
  ASSUME BaseInv, BaseInv', Overlaps, Steady, OneEnd
  PROVE  OneEnd'
<1>1. ASSUME NEW j \in DOMAIN tokens', Usable(j)'
      PROVE  j \in DOMAIN tokens /\ Usable(j) /\ tokens'[j].session = tokens[j].session
             /\ tokens'[j].amid = tokens[j].amid
  BY <1>1 DEF Steady, TokensKept, Usable
<1>2. ASSUME NEW i \in DOMAIN tokens', NEW p \in Senders, Usable(i)', Continues(p)',
             tokens'[i].session = SessionOf(p)'
      PROVE  "refresh" \in tokens'[i].amid /\ "refresh" \in MetBy(p)'
  <2>1. i \in DOMAIN tokens /\ Usable(i) /\ tokens[i].session = SessionOf(p)'
        /\ tokens'[i].amid = tokens[i].amid
    BY <1>1, <1>2
  <2>2. CASE Keeps(p)
    BY <2>1, <2>2 DEF Keeps, OneEnd
  <2>3. CASE TakesUp(p, request[p].token)
    <3> DEFINE k == request[p].token
    <3>1. Usable(k) /\ tokens[k].session = SessionOf(p)' /\ tokens[k].amid \subseteq MetBy(p)'
          /\ tokens'[k].status # "live"
      BY <2>3 DEF TakesUp
    <3>2. k \in DOMAIN tokens /\ k # i
      BY <1>2, <3>1 DEF Usable
    <3> QED BY <2>1, <3>1, <3>2 DEF OneEnd
  <2>4. CASE BeginsNew(p)
    BY <2>1, <2>4, NobodysYet DEF BeginsNew
  <2> QED BY <1>2, <2>2, <2>3, <2>4, Claims
<1>3. ASSUME NEW p \in Senders, NEW r \in Senders \ {p}, Continues(p)', Continues(r)',
             SessionOf(p)' = SessionOf(r)'
      PROVE  "refresh" \in MetBy(p)'
  <2>1. request'[p].op \in {"login", "refresh"} /\ request'[r].op \in {"login", "refresh"}
    BY <1>3 DEF Continues
  <2>2. CASE request'[r].op = "refresh"
    <3>1. Met(request'[r]) \in amid'[p]
      BY <2>1, <2>2 DEF BaseInv, Witnessed, Operations, Senders, Requests
    <3>2. "refresh" \in Ops(p)'
      BY <2>2, <3>1 DEF Ops, Met
    <3> QED BY <3>2 DEF MetBy
  <2>3. CASE request'[r].op = "login"
    <3>1. CASE BeginsNew(r)
      <4>1. SessionOf(p)' = r /\ r \in Requests /\ request[r] = Idle
        BY <1>3, <3>1 DEF BeginsNew
      <4>2. ~Known(r)
        BY <4>1, NobodysYet
      <4>3. CASE Keeps(p)
        BY <4>1, <4>2, <4>3, NobodysYet DEF Keeps
      <4>4. CASE TakesUp(p, request[p].token)
        BY <4>1, <4>2, <4>4, NobodysYet DEF TakesUp, Usable
      <4>5. CASE BeginsNew(p)
        BY <4>1, <4>5 DEF BeginsNew
      <4> QED BY <1>3, <4>3, <4>4, <4>5, Claims
    <3>2. CASE Keeps(r)
      <4>1. Continues(r) /\ SessionOf(r) = SessionOf(p)'
        BY <1>3, <3>2 DEF Keeps
      <4>2. CASE Keeps(p)
        BY <4>1, <4>2 DEF Keeps, OneEnd
      <4>3. CASE TakesUp(p, request[p].token)
        <5> DEFINE k == request[p].token
        <5>1. Usable(k) /\ tokens[k].session = SessionOf(r) /\ tokens[k].amid \subseteq MetBy(p)'
              /\ k \in DOMAIN tokens
          BY <4>1, <4>3 DEF TakesUp, Usable
        <5> QED BY <4>1, <5>1 DEF OneEnd
      <4>4. CASE BeginsNew(p)
        BY <4>1, <4>4, NobodysYet DEF BeginsNew
      <4> QED BY <1>3, <4>2, <4>3, <4>4, Claims
    <3>3. ~TakesUp(r, request[r].token)
      BY <2>3 DEF TakesUp
    <3> QED BY <1>3, <3>1, <3>2, <3>3, Claims
  <2> QED BY <2>1, <2>2, <2>3
<1>4. \A i, j \in DOMAIN tokens' :
        /\ i # j /\ Usable(i)' /\ Usable(j)' /\ tokens'[i].session = tokens'[j].session
        => "refresh" \in tokens'[i].amid
  BY <1>1 DEF OneEnd
<1> QED BY <1>2, <1>3, <1>4 DEF OneEnd, Senders, Requests

-----------------------------------------------------------------------------
(* Who has the newest token.                                               *)

LEMMA NewestSteady ==
  ASSUME BaseInv, BaseInv', Overlaps, Steady, NEW i \in DOMAIN tokens, Newest(i)
  PROVE  Newest(i)' \/ \E r \in Senders : Continues(r)' /\ TakesUp(r, i)
<1>1. Known(tokens[i].session) /\ tokens'[i].session = tokens[i].session
  BY DEF BaseInv, Stored, Steady, TokensKept
<1> QED BY <1>1, EndsSteady DEF Newest

LEMMA EndsStill ==
  ASSUME BaseInv, BaseInv', Overlaps, Steady, NEW s, Known(s), Ends(s)
  PROVE  Ends(s)'
<1>1. ~Usable(0)
  BY DEF Usable, BaseInv, Stored
<1> QED BY <1>1, EndsSteady DEF Ends, TakesUp

\* A session that goes on from a token only has ended when that is revoked.
LEMMA NewestEnds ==
  ASSUME NEW i \in DOMAIN tokens, Newest(i), ~Usable(i)
  PROVE  Ends(tokens[i].session)
BY DEF Newest, Ends, EndsBut

LEMMA TokensCarried ==
  ASSUME Steady, NEW r \in Senders
  PROVE  request'[r].token \in {request[r].token, 0, cookie}
BY DoneIs DEF Steady, Moves, RefreshMoves, LoginMoves, LogoutMoves, OtherMoves, Begins, Left

LEMMA AnswersSteady ==
  ASSUME BaseInv, BaseInv', Overlaps, Steady, AnswersHold
  PROVE  AnswersHold'
<1> SUFFICES ASSUME NEW p \in Senders, request'[p].op \in {"login", "refresh"}, request'[p].at = "ok"
             PROVE  /\ Newest(request[p].token)' /\ cookie' # request'[p].token
                    /\ \A r \in Senders \ {p} : request'[r].token # request'[p].token
  BY DEF AnswersHold, Senders, Requests
<1> DEFINE i == request[p].token
<1>1. /\ request[p].op = request'[p].op /\ request[p].at = "ok" /\ request'[p].token = i
  <2>1. Moves(p)
    BY DEF Steady
  <2> QED BY <2>1, DoneIs DEF Moves, RefreshMoves, LoginMoves, LogoutMoves, OtherMoves, Begins, Left, Operations
<1>2. Newest(i) /\ cookie # i /\ \A r \in Senders \ {p} : request[r].token # i
  BY <1>1 DEF AnswersHold
<1>3. i # 0 /\ i \in DOMAIN tokens
  BY <1>1 DEF BaseInv, AllFit, Fits, FitsIssue, Stored
<1>4. \A r \in Senders : Continues(r)' => ~TakesUp(r, i)
  <2>1. ~Continues(p)'
    BY DEF Continues
  <2> QED BY <1>2, <2>1 DEF TakesUp
<1>5. Newest(request[p].token)'
  BY <1>1, <1>2, <1>3, <1>4, NewestSteady DEF Newest, EndsBut
<1>6. cookie' # i
  <2>1. ASSUME NEW r \in Senders, Stores(r) PROVE cookie' # i
    BY <1>2, <2>1, DoneIs DEF Stores
  <2> QED BY <1>2, <1>3, <2>1 DEF Steady
<1>7. \A r \in Senders \ {p} : request'[r].token # i
  BY <1>2, <1>3, TokensCarried
<1> QED BY <1>1, <1>5, <1>6, <1>7

\* The cookie that a tab stores is the newest token.
LEMMA StoredNewest ==
  ASSUME BaseInv, BaseInv', Overlaps, Steady, AnswersHold, NEW p \in Senders, Stores(p)
  PROVE  Newest(cookie)'
<1> DEFINE i == request[p].token
<1>1. Newest(i) /\ \A r \in Senders \ {p} : request[r].token # i
  BY DEF AnswersHold, Stores
<1>2. i \in DOMAIN tokens
  BY DEF BaseInv, AllFit, Fits, FitsIssue, Stored, Stores
<1>3. \A r \in Senders : Continues(r)' => ~TakesUp(r, i)
  BY <1>1, DoneIs DEF TakesUp, Stores
<1> QED BY <1>1, <1>2, <1>3, NewestSteady DEF Stores, Newest, EndsBut

LEMMA CookieSteady ==
  ASSUME BaseInv, BaseInv', Overlaps, Steady, AnswersHold, CookieNewest
  PROVE  CookieNewest'
<1>1. (user'.exists => user.exists) /\ (failures > 0 => failures' > 0)
  BY DEF Steady
<1>2. CASE cookie' = 0 \/ \E p \in Senders : Stores(p)
  BY <1>2, StoredNewest DEF CookieNewest
<1>3. CASE cookie' = cookie /\ cookie # 0 /\ Newest(cookie)
  <2>1. cookie \in DOMAIN tokens
    BY <1>3 DEF BaseInv, Stored
  <2>2. ASSUME NEW r \in Senders, Continues(r)', TakesUp(r, cookie)
        PROVE  Refreshing(r)'
    BY <2>2 DEF Continues, TakesUp, Refreshing
  <2>3. Newest(cookie)' \/ \E r \in Senders : Refreshing(r)'
    BY <1>3, <2>1, <2>2, NewestSteady DEF Newest, EndsBut
  <2> QED BY <2>3 DEF CookieNewest, Senders, Requests
<1>4. ASSUME NEW p \in Senders, Refreshing(p), cookie' = cookie
      PROVE  CookieNewest'
  <2>1. Moves(p)
    BY DEF Steady
  <2>2. CASE Refreshing(p)'
    BY <2>2 DEF CookieNewest, Senders, Requests
  <2>3. CASE ~Refreshing(p)'
    <3>1. (request'[p] = Done /\ request[p].at = "ok" /\ cookie' = request[p].token)
          \/ failures' > 0 \/ ~user'.exists
      BY <1>4, <2>1, <2>3, IdleIs, DoneIs
      DEF Refreshing, Moves, RefreshMoves, LoginMoves, LogoutMoves, OtherMoves, Begins, Operations
    <3> QED BY <1>4, <3>1, <1>2 DEF CookieNewest, Stores, Refreshing
  <2> QED BY <2>2, <2>3
<1> QED BY <1>1, <1>2, <1>3, <1>4 DEF Steady, CookieNewest

LEMMA StorageSteady ==
  ASSUME BaseInv, BaseInv', Overlaps, Steady, AnswersHold, StorageNewest
  PROVE  StorageNewest'
<1>1. CASE cookie' = 0 \/ \E p \in Senders : Stores(p)
  BY <1>1, StoredNewest DEF StorageNewest
<1>2. CASE cookie' = cookie /\ cookie # 0 /\ Newest(cookie)
  <2>1. cookie \in DOMAIN tokens
    BY <1>2 DEF BaseInv, Stored
  <2>2. ASSUME NEW r \in Senders, Continues(r)', TakesUp(r, cookie)
        PROVE  request'[r].op = "refresh"
    BY <2>2 DEF TakesUp
  <2>3. Newest(cookie)' \/ \E r \in Senders : request'[r].op = "refresh"
    BY <1>2, <2>1, <2>2, NewestSteady DEF Newest, EndsBut
  <2> QED BY <2>3 DEF StorageNewest, Senders, Requests
<1>3. ASSUME NEW p \in Senders, request[p].op = "refresh"
      PROVE  StorageNewest'
  <2>1. Moves(p)
    BY DEF Steady
  <2>2. CASE request'[p].op = "refresh"
    BY <2>2 DEF StorageNewest, Senders, Requests
  <2>3. CASE request'[p].op # "refresh"
    <3>1. Stores(p) \/ storage' = NoAccess
      BY <1>3, <2>1, <2>3, IdleIs, DoneIs
      DEF Moves, RefreshMoves, LoginMoves, LogoutMoves, OtherMoves, Begins, Operations, Stores
    <3>2. storage' = NoAccess => StorageNewest'
      BY DEF StorageNewest, NoAccess
    <3> QED BY <1>1, <3>1, <3>2
  <2> QED BY <2>2, <2>3
<1>4. storage' = NoAccess => StorageNewest'
  BY DEF StorageNewest, NoAccess
<1> QED BY <1>1, <1>2, <1>3, <1>4 DEF Steady, StorageNewest

LEMMA RefreshesHoldSteady ==
  ASSUME BaseInv, BaseInv', Overlaps, Steady, CookieNewest, RefreshesHold
  PROVE  RefreshesHold'
<1> SUFFICES ASSUME NEW p \in Senders, request'[p].op = "refresh",
                    request'[p].at \in {"find", "refused"}
             PROVE  \/ request'[p].token = 0 \/ failures' > 0 \/ ~user'.exists \/ Raced(p)'
                    \/ request'[p].at = "find" /\ Newest(request[p].token)'
                    \/ request'[p].at = "refused" /\ Ends(tokens[request[p].token].session)'
  BY DEF RefreshesHold, Senders, Requests
<1> DEFINE q == request[p]
           i == request'[p].token
<1>1. (user'.exists => user.exists) /\ (failures > 0 => failures' > 0) /\ Moves(p) /\ TokensKept
  BY DEF Steady
<1>2. ASSUME NEW r \in Senders \ {p}, request'[r].op = "refresh"
      PROVE  Raced(p)'
  <2>1. request'[p].tab # request'[r].tab
    <3>1. FitsRefresh(p, request[p])' /\ FitsRefresh(r, request[r])'
      BY DEF BaseInv, AllFit, Fits, Senders, Requests
    <3>2. refreshing'[request'[p].tab] = p /\ refreshing'[request'[r].tab] = r
      BY <1>2, <3>1 DEF FitsRefresh
    <3>3. r # p
      OBVIOUS
    <3> HIDE DEF q, i
    <3> QED BY <3>2, <3>3
  <2>2. Met(request'[r]) \in amid'[p]
    BY <1>2 DEF BaseInv, Witnessed, Operations, Senders, Requests
  <2>3. Met(request'[r]).op = "refresh" /\ Met(request'[r]).tab = request'[r].tab
    BY <1>2 DEF Met
  <2> QED BY <2>1, <2>2, <2>3 DEF Raced
<1>3. ASSUME Newest(i), i # 0, request'[p].at = "find"
      PROVE  Newest(request[p].token)' \/ Raced(p)'
  <2>1. i \in DOMAIN tokens
    BY <1>1, <1>3 DEF BaseInv, AllFit, Fits, Stored, TokensKept, Senders, Requests
  <2>2. \A r \in Senders : Continues(r)' /\ TakesUp(r, i) => r # p
    BY <1>3 DEF Continues
  <2>3. Newest(request[p].token)' \/ \E r \in Senders : Continues(r)' /\ TakesUp(r, i)
    BY <1>3, <2>1, NewestSteady DEF Newest, EndsBut
  <2> QED BY <1>2, <2>2, <2>3 DEF TakesUp
<1>4. ASSUME i # 0, Ends(tokens[i].session)
      PROVE  Ends(tokens[request[p].token].session)'
  <2>1. i \in DOMAIN tokens
    BY <1>1, <1>4 DEF BaseInv, AllFit, Fits, Stored, TokensKept, Senders, Requests
  <2>2. Known(tokens[i].session) /\ tokens'[i].session = tokens[i].session
    BY <1>1, <2>1 DEF BaseInv, Stored, TokensKept
  <2>3. PICK s : s = tokens[i].session
    OBVIOUS
  <2>4. Ends(s)'
    BY <1>4, <2>2, <2>3, EndsStill
  <2> QED BY <2>2, <2>3, <2>4 DEF Ends, EndsBut
<1>5. ASSUME q.op = "refresh", request'[p].tab = q.tab, Raced(p)
      PROVE  Raced(p)'
  BY <1>5, KnowsStill DEF Raced, Operations
<1>6. CASE request'[p] = q
  <2>1. q.token = 0 \/ failures > 0 \/ ~user.exists \/ Raced(p)
        \/ (q.at = "find" /\ Newest(q.token))
        \/ (q.at = "refused" /\ Ends(tokens[q.token].session))
    BY <1>6 DEF RefreshesHold
  <2> QED BY <1>1, <1>3, <1>4, <1>5, <1>6, <2>1
<1>7. CASE RefreshMoves(p)
  <2>1. q.op = "refresh" /\ request'[p].at = "refused" /\ i = q.token /\ request'[p].tab = q.tab
        /\ \/ q.at = "find" /\ ~Usable(i)
           \/ failures' > 0 \/ ~user'.exists
    BY <1>7, DoneIs DEF RefreshMoves
  <2>2. CASE q.at = "find" /\ ~Usable(i) /\ i # 0
    <3>1. i \in DOMAIN tokens
      BY <1>1, <2>2 DEF BaseInv, AllFit, Fits, Stored, TokensKept, Senders, Requests
    <3>2. failures > 0 \/ ~user.exists \/ Raced(p) \/ Newest(i)
      BY <2>1, <2>2 DEF RefreshesHold
    <3>3. Newest(i) => Ends(tokens[i].session)
      BY <2>2, <3>1, NewestEnds
    <3> QED BY <1>1, <1>4, <1>5, <2>1, <2>2, <3>2, <3>3
  <2> QED BY <2>1, <2>2
<1>8. CASE Begins(p)
  <2>1. /\ request'[p].at = "find" /\ i = cookie /\ refreshing[request'[p].tab] = NoRefresh
        /\ Only(p) /\ q \in {Idle, Done}
    BY <1>8 DEF Begins, Operations
  <2>2. cookie = 0 \/ Newest(cookie) \/ failures > 0 \/ ~user.exists
        \/ \E r \in Senders : Refreshing(r)
    BY DEF CookieNewest
  <2>3. ASSUME NEW r \in Senders, Refreshing(r)
        PROVE  Raced(p)'
    <3>1. r # p
      BY <2>1, <2>3, IdleIs, DoneIs DEF Refreshing
    <3>2. request'[r] = request[r]
      BY <2>1, <3>1 DEF Only
    <3> QED BY <1>2, <2>3, <3>1, <3>2 DEF Refreshing
  <2> QED BY <1>1, <1>3, <2>1, <2>2, <2>3
<1> QED BY <1>1, <1>6, <1>7, <1>8, DoneIs DEF Moves, LoginMoves, LogoutMoves, OtherMoves, Left, Operations

LEMMA LogoutsHoldSteady ==
  ASSUME BaseInv, BaseInv', Overlaps, Steady, StorageNewest, LogoutsHold
  PROVE  LogoutsHold'
<1> SUFFICES ASSUME NEW p \in Senders, request'[p].op = "logout"
             PROVE  \/ request'[p].token = 0 \/ "refresh" \in Ops(p)' \/ request'[p].at = "refused"
                    \/ request'[p].at \in {"guard", "revoke"} /\ Newest(request[p].token)'
                    \/ request'[p].at \in {"bump", "ok"} /\ Ends(tokens[request[p].token].session)'
  BY DEF LogoutsHold, Senders, Requests
<1> DEFINE q == request[p]
           i == request'[p].token
<1>1. Moves(p) /\ TokensKept /\ Ops(p) \subseteq Ops(p)'
  BY KnowsStill DEF Steady, Operations
<1>2. ASSUME NEW r \in Senders \ {p}, request'[r].op = "refresh"
      PROVE  "refresh" \in Ops(p)'
  <2>1. Met(request'[r]) \in amid'[p]
    BY <1>2 DEF BaseInv, Witnessed, Operations, Senders, Requests
  <2>2. Met(request'[r]).op = "refresh"
    BY <1>2 DEF Met
  <2> QED BY <2>1, <2>2 DEF Ops
<1>3. ASSUME Newest(i), i # 0
      PROVE  /\ Newest(request[p].token)' \/ "refresh" \in Ops(p)'
             /\ Usable(request[p].token)' \/ Ends(tokens[request[p].token].session)' \/ "refresh" \in Ops(p)'
  <2>1. i \in DOMAIN tokens
    BY <1>1, <1>3 DEF BaseInv, AllFit, Fits, Stored, TokensKept, Senders, Requests
  <2>2. \A r \in Senders : Continues(r)' => r # p
    BY DEF Continues
  <2>3. Newest(request[p].token)' \/ \E r \in Senders : Continues(r)' /\ TakesUp(r, i)
    BY <1>3, <2>1, NewestSteady DEF Newest, EndsBut
  <2>4. Newest(request[p].token)' \/ "refresh" \in Ops(p)'
    BY <1>2, <2>2, <2>3 DEF TakesUp
  <2>5. Newest(request[p].token)' /\ ~Usable(request[p].token)' => Ends(tokens[request[p].token].session)'
    BY DEF Newest, EndsBut, Ends
  <2> QED BY <2>4, <2>5
<1>4. ASSUME i # 0, Ends(tokens[i].session)
      PROVE  Ends(tokens[request[p].token].session)'
  <2>1. i \in DOMAIN tokens
    BY <1>1, <1>4 DEF BaseInv, AllFit, Fits, Stored, TokensKept, Senders, Requests
  <2>2. Known(tokens[i].session) /\ tokens'[i].session = tokens[i].session
    BY <1>1, <2>1 DEF BaseInv, Stored, TokensKept
  <2>3. PICK s : s = tokens[i].session
    OBVIOUS
  <2>4. Ends(s)'
    BY <1>4, <2>2, <2>3, EndsStill
  <2> QED BY <2>2, <2>3, <2>4 DEF Ends, EndsBut
<1>5. CASE q.op = "logout" /\ i = q.token /\ i # 0
  <2>1. \/ "refresh" \in Ops(p) \/ q.at = "refused"
        \/ q.at \in {"guard", "revoke"} /\ Newest(i)
        \/ q.at \in {"bump", "ok"} /\ Ends(tokens[i].session)
    BY <1>5 DEF LogoutsHold
  <2>2. q.at \in {"guard", "revoke", "bump", "ok", "refused"}
    BY <1>5 DEF BaseInv, AllFit, Fits, FitsOther
  <2>3. \/ request'[p].at \in {q.at, "refused"}
        \/ q.at = "guard" /\ request'[p].at = "revoke"
        \/ q.at = "revoke" /\ request'[p].at = "bump" /\ ~Usable(q.token)'
        \/ q.at = "bump" /\ request'[p].at = "ok"
    BY <1>1, <1>5, DoneIs, IdleIs DEF Moves, RefreshMoves, LoginMoves, LogoutMoves, OtherMoves, Begins
  <2> QED BY <1>1, <1>3, <1>4, <1>5, <2>1, <2>2, <2>3
<1>6. CASE Begins(p)
  <2>1. request'[p].at = "guard" /\ i = cookie /\ storage # NoAccess /\ Only(p) /\ q \in {Idle, Done}
    BY <1>6 DEF Begins, Operations
  <2>2. cookie = 0 \/ Newest(cookie) \/ \E r \in Senders : request[r].op = "refresh"
    BY <2>1 DEF StorageNewest
  <2>3. ASSUME NEW r \in Senders, request[r].op = "refresh"
        PROVE  "refresh" \in Ops(p)'
    <3>1. r # p
      BY <2>1, <2>3, IdleIs, DoneIs
    <3>2. request'[r] = request[r]
      BY <2>1, <3>1 DEF Only
    <3> QED BY <1>2, <2>3, <3>1, <3>2
  <2> QED BY <1>3, <2>1, <2>2, <2>3
<1>7. i = 0 \/ (q.op = "logout" /\ i = q.token) \/ Begins(p)
  BY <1>1, DoneIs DEF Moves, RefreshMoves, LoginMoves, LogoutMoves, OtherMoves, Left, Operations
<1> QED BY <1>5, <1>6, <1>7

LEMMA EndedSteady ==
  ASSUME BaseInv, BaseInv', Overlaps, Steady, LogoutsHold, EndedHold
  PROVE  EndedHold'
<1> SUFFICES ASSUME NEW s \in ended'
             PROVE  Ends(s)'
  BY DEF EndedHold
<1>1. CASE s \in ended
  BY <1>1, EndsStill DEF EndedHold, BaseInv, Stored
<1>2. ASSUME NEW p \in Senders, request[p].op = "logout", request[p].at = "ok",
             request[p].token # 0, "refresh" \notin Ops(p), s = tokens[request[p].token].session
      PROVE  Ends(s)'
  <2>1. Ends(s)
    BY <1>2 DEF LogoutsHold
  <2>2. Known(s)
    BY <1>2 DEF BaseInv, Stored, AllFit, Fits
  <2> QED BY <2>1, <2>2, EndsStill
<1> QED BY <1>1, <1>2 DEF Steady

-----------------------------------------------------------------------------
(* A handler issues the next token: its claim becomes the token.           *)

LEMMA InsertClaims ==
  ASSUME BaseInv, BaseInv', Overlaps, NEW p \in Senders, Insert(p)
  PROVE  LET n == Len(tokens) + 1 IN
         /\ Continues(p) /\ ~Continues(p)'
         /\ n \notin DOMAIN tokens /\ n # 0 /\ DOMAIN tokens' = DOMAIN tokens \cup {n}
         /\ tokens'[n].session = SessionOf(p) /\ tokens'[n].amid = MetBy(p)
         /\ \A j \in DOMAIN tokens : tokens'[j] = tokens[j]
         /\ \A r \in Senders \ {p} : request'[r] = request[r]
         /\ \A r \in Senders : Continues(r)' =>
              r # p /\ Continues(r) /\ SessionOf(r)' = SessionOf(r) /\ MetBy(r) \subseteq MetBy(r)'
<1> DEFINE n == Len(tokens) + 1
           q == request[p]
<1>1. /\ q.op \in {"login", "refresh"} /\ q.at = "insert"
      /\ n \notin DOMAIN tokens /\ n # 0 /\ DOMAIN tokens' = DOMAIN tokens \cup {n}
      /\ \A i \in DOMAIN tokens : tokens'[i] = tokens[i]
      /\ tokens'[n] = Inserted(p)
      /\ Only(p)
      /\ request'[p] = Done \/ (request'[p].op = q.op /\ request'[p].at = "ok")
  BY Inserts
<1>2. Continues(p) /\ ~Continues(p)'
  BY <1>1, DoneIs DEF Continues
<1>3. tokens'[n].session = SessionOf(p) /\ tokens'[n].amid = MetBy(p)
  BY <1>1 DEF Inserted, SessionOf, MetBy
<1>4. ASSUME NEW r \in Senders, Continues(r)'
      PROVE  r # p /\ Continues(r) /\ SessionOf(r)' = SessionOf(r) /\ MetBy(r) \subseteq MetBy(r)'
  <2>1. r # p /\ request'[r] = request[r]
    BY <1>1, <1>2, <1>4 DEF Only
  <2>2. Ops(r) \subseteq Ops(r)'
    BY <1>4, KnowsStill DEF Continues, Operations
  <2>3. CASE request[r].at = "insert"
    BY <1>4, <2>1, <2>2, <2>3 DEF Continues, SessionOf, MetBy
  <2>4. CASE request[r].at # "insert"
    <3>1. request[r].op = "refresh" /\ request[r].at \in {"user", "revoke"}
      BY <1>4, <2>1, <2>4 DEF Continues
    <3>2. request[r].token \in DOMAIN tokens
      BY <3>1 DEF BaseInv, AllFit, Fits, FitsRefresh, Stored
    <3> QED BY <1>1, <1>4, <2>1, <2>2, <2>4, <3>2 DEF Continues, SessionOf, MetBy, Usable
  <2> QED BY <2>1, <2>3, <2>4
<1> QED BY <1>1, <1>2, <1>3, <1>4 DEF Only

LEMMA InsertEnds ==
  ASSUME BaseInv, BaseInv', Overlaps, NEW p \in Senders, Insert(p), NEW s, NEW i, EndsBut(s, i)
  PROVE  EndsBut(s, i)'
<1> DEFINE n == Len(tokens) + 1
<1>1. /\ Continues(p) /\ DOMAIN tokens' = DOMAIN tokens \cup {n}
      /\ tokens'[n].session = SessionOf(p) /\ tokens'[n].amid = MetBy(p)
      /\ \A j \in DOMAIN tokens : tokens'[j] = tokens[j]
      /\ \A r \in Senders : Continues(r)' =>
           r # p /\ Continues(r) /\ SessionOf(r)' = SessionOf(r) /\ MetBy(r) \subseteq MetBy(r)'
  BY InsertClaims
<1>2. ASSUME NEW j \in DOMAIN tokens' \ {i}, Usable(j)', tokens'[j].session = s
      PROVE  "refresh" \in tokens'[j].amid
  BY <1>1, <1>2 DEF EndsBut, Usable
<1>3. ASSUME NEW r \in Senders, Continues(r)', SessionOf(r)' = s
      PROVE  "refresh" \in MetBy(r)'
  BY <1>1, <1>3 DEF EndsBut
<1> QED BY <1>2, <1>3 DEF EndsBut, Senders, Requests

LEMMA InsertChain ==
  ASSUME BaseInv, BaseInv', Overlaps, ChainInv, NEW p \in Senders, Insert(p), UNCHANGED client
  PROVE  ChainInv'
<1> DEFINE q == request[p]
<1>0. PICK n : n = Len(tokens) + 1
  OBVIOUS
<1>1. /\ Continues(p) /\ ~Continues(p)'
      /\ n \notin DOMAIN tokens /\ n # 0 /\ DOMAIN tokens' = DOMAIN tokens \cup {n}
      /\ tokens'[n].session = SessionOf(p) /\ tokens'[n].amid = MetBy(p)
      /\ \A j \in DOMAIN tokens : tokens'[j] = tokens[j]
      /\ \A r \in Senders \ {p} : request'[r] = request[r]
      /\ \A r \in Senders : Continues(r)' =>
           r # p /\ Continues(r) /\ SessionOf(r)' = SessionOf(r) /\ MetBy(r) \subseteq MetBy(r)'
  BY <1>0, InsertClaims
<1>2. /\ q.op \in {"login", "refresh"} /\ q.at = "insert"
      /\ \/ request'[p] = Done /\ q.tab = NoTab
         \/ request'[p].op = q.op /\ request'[p].at = "ok" /\ request'[p].token = n
  BY <1>0, Inserts
<1>3. UNCHANGED <<user, failures, cookie, storage, refreshing, ended>> /\ Stored /\ AllFit
  BY DEF Insert, client, BaseInv
<1>4. \A i \in DOMAIN tokens : Usable(i)' <=> Usable(i)
  BY <1>1 DEF Usable
<1>5. ASSUME NEW i \in DOMAIN tokens, Newest(i)
      PROVE  Newest(i)'
  <2>1. EndsBut(tokens[i].session, i)' 
    <3>1. PICK s : s = tokens[i].session
      OBVIOUS
    <3>2. EndsBut(s, i)'
      BY <1>5, <3>1, InsertEnds DEF Newest
    <3> QED BY <1>1, <3>1, <3>2 DEF EndsBut
  <2> QED BY <2>1 DEF Newest, EndsBut
<1>6. OneEnd'
  <2>1. ASSUME NEW i \in DOMAIN tokens', NEW j \in DOMAIN tokens', i # j, Usable(i)', Usable(j)',
               tokens'[i].session = tokens'[j].session
        PROVE  "refresh" \in tokens'[i].amid
    BY <1>1, <1>4, <2>1 DEF ChainInv, OneEnd
  <2>2. ASSUME NEW i \in DOMAIN tokens', NEW r \in Senders, Usable(i)', Continues(r)',
               tokens'[i].session = SessionOf(r)'
        PROVE  "refresh" \in tokens'[i].amid /\ "refresh" \in MetBy(r)'
    BY <1>1, <1>4, <2>2 DEF ChainInv, OneEnd
  <2>3. ASSUME NEW k \in Senders, NEW r \in Senders \ {k}, Continues(k)', Continues(r)',
               SessionOf(k)' = SessionOf(r)'
        PROVE  "refresh" \in MetBy(k)'
    BY <1>1, <2>3 DEF ChainInv, OneEnd
  <2> QED BY <2>1, <2>2, <2>3 DEF OneEnd, Senders, Requests
<1>7. Newest(n)'
  <2>1. ASSUME NEW j \in DOMAIN tokens' \ {n}, Usable(j)', tokens'[j].session = tokens'[n].session
        PROVE  "refresh" \in tokens'[j].amid
    BY <1>1, <1>4, <2>1 DEF ChainInv, OneEnd
  <2>2. ASSUME NEW r \in Senders, Continues(r)', SessionOf(r)' = tokens'[n].session
        PROVE  "refresh" \in MetBy(r)'
    BY <1>1, <2>2 DEF ChainInv, OneEnd
  <2> QED BY <2>1, <2>2 DEF Newest, EndsBut, Senders, Requests
<1>8. \A r \in Senders : request[r].token # n /\ cookie # n
  BY <1>0, <1>3 DEF AllFit, Fits, Stored
<1>9. AnswersHold'
  <2> SUFFICES ASSUME NEW r \in Senders, request'[r].op \in {"login", "refresh"}, request'[r].at = "ok"
               PROVE  /\ Newest(request[r].token)' /\ cookie # request'[r].token
                      /\ \A k \in Senders \ {r} : request'[k].token # request'[r].token
    BY <1>3 DEF AnswersHold, Senders, Requests
  <2>1. CASE r = p
    <3>1. request'[r].token = n
      BY <1>2, <2>1, DoneIs
    <3> QED BY <1>1, <1>7, <1>8, <2>1, <3>1 DEF Newest, EndsBut
  <2>2. CASE r # p
    <3>1. request'[r] = request[r]
      BY <1>1, <2>2
    <3>2. Newest(request[r].token) /\ cookie # request[r].token
          /\ \A k \in Senders \ {r} : request[k].token # request[r].token
      BY <3>1 DEF ChainInv, AnswersHold
    <3>3. request[r].token \in DOMAIN tokens /\ request[r].token # 0
      BY <1>3, <3>1 DEF AllFit, Fits, FitsIssue, Stored
    <3>4. \A k \in Senders \ {r} : request'[k].token # request[r].token
      BY <1>1, <1>2, <1>8, <3>2, <3>3, DoneIs
    <3> QED BY <1>5, <3>1, <3>2, <3>3, <3>4 DEF Newest, EndsBut
  <2> QED BY <2>1, <2>2
<1>10. (cookie # 0 /\ Newest(cookie)) => Newest(cookie)'
  BY <1>3, <1>5 DEF Stored, Newest, EndsBut
<1>11. q.op = "refresh" => request'[p].op = "refresh" /\ request'[p].at = "ok"
  BY <1>2, <1>3, SessionsAssumption DEF AllFit, Fits, FitsRefresh
<1>12. CookieNewest'
  <2>1. \A r \in Senders : Refreshing(r) => Refreshing(r)'
    BY <1>1, <1>11 DEF Refreshing
  <2> QED BY <1>3, <1>10, <2>1 DEF ChainInv, CookieNewest, Senders, Requests
<1>13. RefreshesHold'
  <2> SUFFICES ASSUME NEW r \in Senders, request'[r].op = "refresh", request'[r].at \in {"find", "refused"}
               PROVE  \/ request'[r].token = 0 \/ failures' > 0 \/ ~user'.exists \/ Raced(r)'
                      \/ request'[r].at = "find" /\ Newest(request[r].token)'
                      \/ request'[r].at = "refused" /\ Ends(tokens[request[r].token].session)'
    BY DEF RefreshesHold, Senders, Requests
  <2>1. request'[r] = request[r]
    BY <1>1, <1>2, DoneIs
  <2>2. Raced(r) => Raced(r)'
    BY <2>1, KnowsStill DEF Raced, Operations
  <2>3. ASSUME request[r].token # 0
        PROVE  /\ Newest(request[r].token) => Newest(request[r].token)'
               /\ Ends(tokens[request[r].token].session) => Ends(tokens[request[r].token].session)'
    <3>1. request[r].token \in DOMAIN tokens
      BY <1>3, <2>3 DEF AllFit, Fits, Stored
    <3>2. Newest(request[r].token) => Newest(request[r].token)'
      BY <1>5, <2>1, <3>1 DEF Newest, EndsBut
    <3>3. PICK s : s = tokens[request[r].token].session
      OBVIOUS
    <3>4. Ends(s) => Ends(s)'
      BY InsertEnds DEF Ends
    <3> QED BY <1>1, <2>1, <3>1, <3>2, <3>3, <3>4 DEF Ends, EndsBut
  <2>4. request[r].token = 0 \/ failures > 0 \/ ~user.exists \/ Raced(r)
        \/ (request[r].at = "find" /\ Newest(request[r].token))
        \/ (request[r].at = "refused" /\ Ends(tokens[request[r].token].session))
    BY <2>1 DEF ChainInv, RefreshesHold
  <2> QED BY <1>3, <2>1, <2>2, <2>3, <2>4
<1>14. StorageNewest'
  <2>1. \A r \in Senders : request[r].op = "refresh" => request'[r].op = "refresh"
    BY <1>1, <1>11
  <2> QED BY <1>3, <1>10, <2>1 DEF ChainInv, StorageNewest, Senders, Requests, NoAccess
<1>15. LogoutsHold'
  <2> SUFFICES ASSUME NEW r \in Senders, request'[r].op = "logout"
               PROVE  \/ request'[r].token = 0 \/ "refresh" \in Ops(r)' \/ request'[r].at = "refused"
                      \/ request'[r].at \in {"guard", "revoke"} /\ Newest(request[r].token)'
                      \/ request'[r].at \in {"bump", "ok"} /\ Ends(tokens[request[r].token].session)'
    BY DEF LogoutsHold, Senders, Requests
  <2>1. request'[r] = request[r]
    BY <1>1, <1>2, DoneIs
  <2>2. Ops(r) \subseteq Ops(r)'
    BY KnowsStill DEF Operations
  <2>3. ASSUME request[r].token # 0
        PROVE  /\ Newest(request[r].token) => Newest(request[r].token)'
               /\ Ends(tokens[request[r].token].session) => Ends(tokens[request[r].token].session)'
    <3>1. request[r].token \in DOMAIN tokens
      BY <1>3, <2>3 DEF AllFit, Fits, Stored
    <3>2. Newest(request[r].token) => Newest(request[r].token)'
      BY <1>5, <2>1, <3>1 DEF Newest, EndsBut
    <3>3. PICK s : s = tokens[request[r].token].session
      OBVIOUS
    <3>4. Ends(s) => Ends(s)'
      BY InsertEnds DEF Ends
    <3> QED BY <1>1, <2>1, <3>1, <3>2, <3>3, <3>4 DEF Ends, EndsBut
  <2>4. \/ request[r].token = 0 \/ "refresh" \in Ops(r) \/ request[r].at = "refused"
        \/ request[r].at \in {"guard", "revoke"} /\ Newest(request[r].token)
        \/ request[r].at \in {"bump", "ok"} /\ Ends(tokens[request[r].token].session)
    BY <2>1 DEF ChainInv, LogoutsHold
  <2> QED BY <2>1, <2>2, <2>3, <2>4
<1>16. EndedHold'
  BY <1>3, InsertEnds DEF ChainInv, EndedHold, Ends
<1> QED BY <1>6, <1>9, <1>12, <1>13, <1>14, <1>15, <1>16 DEF ChainInv

LEMMA ChainStep == BaseInv /\ BaseInv' /\ ChainInv /\ Next => ChainInv'
<1> SUFFICES ASSUME BaseInv, BaseInv', ChainInv, Next PROVE ChainInv'
  OBVIOUS
<1>1. Overlaps
  BY DEF Next
<1>2. CASE Steady
  BY <1>1, <1>2, OneEndSteady, AnswersSteady, CookieSteady, RefreshesHoldSteady, StorageSteady,
     LogoutsHoldSteady, EndedSteady DEF ChainInv
<1>3. CASE \E p \in Senders : Insert(p) /\ UNCHANGED client
  BY <1>1, <1>3, InsertChain
<1> QED BY <1>2, <1>3, StepsSteady

-----------------------------------------------------------------------------
(* New passwords.                                                          *)

\* The handler r changes the account.
Sets(r) ==
  /\ Only(r)
  /\ \/ /\ request[r].op = "change" /\ request[r].at = "save"
        /\ request'[r].op = "change" /\ request'[r].at = "revokeAll"
        /\ user'.version = request[r].version + 1
     \/ /\ request[r].op = "reset" /\ request[r].at = "save"
        /\ request'[r].op = "reset" /\ request'[r].at = "mark"
        /\ user'.version = user.version
     \/ /\ request[r].op \in {"logout", "reset"} /\ request[r].at = "bump"
        /\ user'.password = user.password /\ user'.version = user.version + 1

LEMMA AccountChanges ==
  ASSUME BaseInv, AccountMoves, user'.exists
  PROVE  user' = user \/ \E r \in Senders : Sets(r)
<1> SUFFICES ASSUME user' # user PROVE \E r \in Senders : Sets(r)
  OBVIOUS
<1>1. PICK r \in Senders : (ChangeSave(r) \/ ResetSave(r) \/ Bump(r)) /\ Only(r)
  BY DEF AccountMoves
<1>2. Fits(r, request[r]) /\ user \in Account
  BY DEF BaseInv, AllFit, Stored
<1>3. CASE ChangeSave(r)
  <2>1. user.exists /\ GoTo(r, "revokeAll")
        /\ user' = [user EXCEPT !.password = r, !.version = request[r].version + 1]
    BY <1>3 DEF ChangeSave
  <2>2. Same(request'[r], request[r]) /\ request'[r].at = "revokeAll"
    BY <2>1, GoesOn
  <2>3. user'.version = request[r].version + 1
    BY <1>2, <2>1 DEF Account
  <2> QED BY <1>1, <1>3, <2>2, <2>3 DEF Sets, Same, ChangeSave, At
<1>4. CASE ResetSave(r)
  <2>1. user.exists /\ GoTo(r, "mark") /\ user' = [user EXCEPT !.password = r]
    BY <1>4 DEF ResetSave
  <2>2. Same(request'[r], request[r]) /\ request'[r].at = "mark"
    BY <2>1, GoesOn
  <2>3. user'.version = user.version
    BY <1>2, <2>1 DEF Account
  <2> QED BY <1>1, <1>4, <2>2, <2>3 DEF Sets, Same, ResetSave, At
<1>5. CASE Bump(r)
  <2>1. user' = [user EXCEPT !.version = @ + 1]
    BY <1>5 DEF Bump
  <2>2. user'.password = user.password /\ user'.version = user.version + 1
    BY <1>2, <2>1 DEF Account
  <2>3. request[r].op \in {"logout", "reset"}
    BY <1>2, <1>5, IdleIs, DoneIs DEF Fits, FitsRefresh, FitsLogin, FitsOther, Operations, Bump
  <2> QED BY <1>1, <1>5, <2>2, <2>3 DEF Sets, Bump
<1> QED BY <1>1, <1>3, <1>4, <1>5

\* Who is about to revoke the tokens is so until there are none.
LEMMA RevokersStay ==
  ASSUME BaseInv, Steady, NEW p \in Senders, Revokes(p)
  PROVE  Revokes(p)' \/ \A i \in DOMAIN tokens : tokens'[i].status # "live"
<1>1. Moves(p) /\ Stored
  BY DEF Steady, BaseInv
<1>2. CASE request'[p] = request[p]
  BY <1>2 DEF Revokes
<1>3. CASE OtherMoves(p)
  <2>1. CASE Left(request'[p], request[p])
    BY <2>1 DEF Left, Revokes
  <2>2. CASE Handle(p)
    <3>1. Mark(p) \/ RevokeAll(p)
      BY <2>2 DEF Handle, Revokes, Insert, RefreshFind, RefreshUser, RefreshRevoke, LogoutGuard,
         LogoutRevoke, Bump, ChangeSave, Supersede, InsertReset, ResetUser, ResetSave, DropTokens, At
    <3>2. CASE RevokeAll(p)
      BY <1>1, <3>2, RevokesAll DEF Stored
    <3>3. CASE Mark(p)
      BY <3>3, GoesOn DEF Mark, At, Same, Revokes
    <3> QED BY <3>1, <3>2, <3>3
  <2> QED BY <1>3, <2>1, <2>2 DEF OtherMoves, Revokes
<1> QED
  BY <1>1, <1>2, <1>3, IdleIs, DoneIs DEF Moves, RefreshMoves, LoginMoves, LogoutMoves, Begins, Revokes

LEMMA BumpersStay ==
  ASSUME BaseInv, Steady, NEW p \in Senders, Bumps(p), user'.exists
  PROVE  Bumps(p)' \/ user'.version = user.version + 1
<1>1. Moves(p) /\ Stored /\ user.exists
  BY DEF Steady, BaseInv
<1>2. CASE request'[p] = request[p]
  BY <1>2 DEF Bumps
<1>3. CASE OtherMoves(p)
  <2>1. CASE Left(request'[p], request[p])
    BY <2>1 DEF Left, Bumps
  <2>2. CASE Handle(p)
    <3>1. Mark(p) \/ RevokeAll(p) \/ Bump(p)
      BY <2>2 DEF Handle, Bumps, Insert, RefreshFind, RefreshUser, RefreshRevoke, LogoutGuard,
         LogoutRevoke, ChangeSave, Supersede, InsertReset, ResetUser, ResetSave, DropTokens, At
    <3>2. CASE RevokeAll(p)
      BY <3>2, GoesOn DEF RevokeAll, Same, Bumps
    <3>3. CASE Mark(p)
      BY <3>3, GoesOn DEF Mark, At, Same, Bumps
    <3>4. CASE Bump(p)
      BY <1>1, <3>4 DEF Bump, Stored, Account
    <3> QED BY <3>1, <3>2, <3>3, <3>4
  <2> QED BY <1>3, <2>1, <2>2 DEF OtherMoves, Bumps
<1> QED
  BY <1>1, <1>2, <1>3, IdleIs, DoneIs DEF Moves, RefreshMoves, LoginMoves, LogoutMoves, Begins, Bumps

LEMMA TokensCurrentSteady ==
  ASSUME BaseInv, BaseInv', Steady, TokensCurrent
  PROVE  TokensCurrent'
<1> SUFFICES ASSUME NEW i \in DOMAIN tokens', Usable(i)', user'.exists
             PROVE  \/ tokens'[i].password = user'.password
                    \/ tokens'[i].amid \cap Setting # {}
                    \/ \E p \in Senders : Revokes(p)'
  BY DEF TokensCurrent, Senders, Requests
<1>1. /\ i \in DOMAIN tokens /\ Usable(i) /\ tokens'[i].password = tokens[i].password
      /\ tokens'[i].amid = tokens[i].amid /\ user.exists /\ tokens'[i].status = "live"
  BY DEF Steady, TokensKept, Usable
<1>2. \A p \in Senders : Revokes(p) => Revokes(p)'
  BY <1>1, RevokersStay
<1>3. ASSUME NEW r \in Senders, Sets(r)
      PROVE  user'.password = user.password \/ Revokes(r)'
  BY <1>3 DEF Sets, Revokes
<1>4. AccountMoves
  BY DEF Steady
<1> QED BY <1>1, <1>2, <1>3, <1>4, AccountChanges DEF TokensCurrent

\* Who changes the account is known to those who have read it.
LEMMA SettersKnown ==
  ASSUME BaseInv, BaseInv', Overlaps, Steady, user'.exists, NEW p \in Senders,
         request[p].op \in {"login", "refresh"}, request'[p].op \in {"login", "refresh"}
  PROVE  /\ user'.password = user.password \/ \E op \in Setting : op \in Ops(p)'
         /\ user'.version = user.version \/ \E op \in Setting \cup {"logout"} : op \in Ops(p)'
<1>1. amid[p] \subseteq amid'[p] /\ AccountMoves
  BY KnowsStill DEF Steady, Operations
<1>2. ASSUME NEW r \in Senders, Sets(r)
      PROVE  request[r].op \in Ops(p)'
  <2>1. r # p /\ request[r].op \in Operations \ {"login", "delete"}
    BY <1>2 DEF Sets, Operations
  <2>2. Met(request[r]) \in amid[p]
    BY <2>1 DEF BaseInv, Witnessed, Operations
  <2>3. Met(request[r]).op = request[r].op
    BY DEF Met
  <2> QED BY <1>1, <2>2, <2>3 DEF Ops
<1>3. \A r \in Senders : Sets(r) =>
        /\ request[r].op \in Setting \/ (user'.password = user.password /\ request[r].op = "logout")
  BY DEF Sets, Setting
<1> QED BY <1>1, <1>2, <1>3, AccountChanges

LEMMA ReadsSteady ==
  ASSUME BaseInv, BaseInv', Overlaps, Steady, TokensCurrent, ReadsCurrent
  PROVE  ReadsCurrent'
<1> SUFFICES ASSUME NEW p \in Senders, user'.exists PROVE ReadsRight(p)'
  BY DEF ReadsCurrent, ReadsRight, Senders, Requests
<1> DEFINE q == request[p]
           r == request'[p]
           Sees(i) == \/ tokens'[i].password = user'.password
                      \/ (tokens'[i].amid \cup Ops(p)') \cap Setting # {}
           Right == /\ \/ r.password = user'.password
                       \/ (r.amid \cup Ops(p)') \cap Setting # {}
                    /\ \/ r.version = user'.version
                       \/ (r.amid \cup Ops(p)') \cap (Setting \cup {"logout"}) # {}
<1>1. /\ user.exists /\ ReadsRight(p) /\ Moves(p) /\ TokensKept
      /\ Fits(p, q) /\ Fits(p, request[p])' /\ Stored
  BY DEF Steady, ReadsCurrent, BaseInv, AllFit, Senders, Requests
<1>2. ReadsRight(p)' <=> /\ r.op = "refresh" /\ r.at = "user" => Sees(r.token)
                         /\ Issuing(r) => Right
  BY DEF ReadsRight
<1>3. ASSUME r.op \in {"login", "refresh"}
      PROVE  Ops(p) \subseteq Ops(p)'
  BY <1>3, KnowsStill DEF Operations
<1>4. ASSUME q.op = "refresh", r.op = "refresh", q.at = "user", r.token = q.token
      PROVE  Sees(r.token)
  <2>1. q.token \in DOMAIN tokens
    BY <1>1, <1>4 DEF Fits, FitsRefresh, Stored
  <2>2. tokens'[q.token].password = tokens[q.token].password /\ tokens'[q.token].amid = tokens[q.token].amid
    BY <1>1, <2>1 DEF TokensKept
  <2>3. tokens[q.token].password = user.password \/ (tokens[q.token].amid \cup Ops(p)) \cap Setting # {}
    BY <1>1, <1>4 DEF ReadsRight
  <2>4. user'.password = user.password \/ \E op \in Setting : op \in Ops(p)'
    BY <1>4, SettersKnown
  <2> QED BY <1>3, <1>4, <2>2, <2>3, <2>4
<1>5. ASSUME Issuing(q), r.op = q.op, r.password = q.password, r.version = q.version, r.amid = q.amid
      PROVE  Right
  <2>1. q.op \in {"login", "refresh"}
    BY <1>5 DEF Issuing
  <2>2. /\ q.password = user.password \/ (q.amid \cup Ops(p)) \cap Setting # {}
        /\ q.version = user.version \/ (q.amid \cup Ops(p)) \cap (Setting \cup {"logout"}) # {}
    BY <1>1, <1>5 DEF ReadsRight
  <2>3. /\ user'.password = user.password \/ \E op \in Setting : op \in Ops(p)'
        /\ user'.version = user.version \/ \E op \in Setting \cup {"logout"} : op \in Ops(p)'
    BY <1>5, <2>1, SettersKnown
  <2> QED BY <1>3, <1>5, <2>1, <2>2, <2>3
<1>6. CASE r = q
  <2>1. Issuing(r) => Right
    BY <1>5, <1>6
  <2> QED BY <1>2, <1>4, <1>6, <2>1
<1>7. CASE RefreshMoves(p)
  <2>1. CASE r.op = "refresh" /\ q.op = "refresh" /\ r.token = q.token /\ q.at = "find" /\ r.at = "user"
             /\ Usable(q.token)' /\ user' = user
    <3>1. r.token \in DOMAIN tokens /\ Usable(r.token)
          /\ tokens'[r.token].password = tokens[r.token].password
          /\ tokens'[r.token].amid = tokens[r.token].amid
      BY <1>1, <2>1 DEF TokensKept, Usable
    <3>2. \/ tokens[r.token].password = user.password
          \/ tokens[r.token].amid \cap Setting # {}
          \/ \E k \in Senders : Revokes(k)
      BY <1>1, <3>1 DEF TokensCurrent
    <3>3. ASSUME NEW k \in Senders, Revokes(k)
          PROVE  request[k].op \in Ops(p)' /\ request[k].op \in Setting
      <4>1. k # p /\ request[k].op \in Setting
        BY <2>1, <3>3 DEF Revokes, Setting
      <4>2. Met(request[k]) \in amid[p] /\ Met(request[k]).op = request[k].op
        BY <2>1, <4>1 DEF BaseInv, Witnessed, Operations, Setting, Met
      <4> QED BY <1>3, <2>1, <4>1, <4>2 DEF Ops
    <3>4. Sees(r.token)
      BY <2>1, <3>1, <3>2, <3>3
    <3> QED BY <1>2, <2>1, <3>4 DEF Issuing
  <2>2. CASE r.op = "refresh" /\ q.op = "refresh" /\ r.token = q.token /\ q.at = "user" /\ r.at = "revoke"
             /\ user' = user /\ r.version = user.version
    <3>1. r.password = tokens'[r.token].password /\ r.amid = tokens'[r.token].amid
      BY <1>1, <2>2 DEF Fits, FitsRefresh
    <3>2. Right
      BY <1>4, <2>2, <3>1
    <3> QED BY <1>2, <2>2, <3>2
  <2>3. CASE r.op = "refresh" /\ q.op = "refresh" /\ q.at = "revoke" /\ r.at = "insert" /\ r.amid = q.amid
             /\ r.version = q.version /\ r.password = q.password
    BY <1>2, <1>5, <2>3 DEF Issuing
  <2> QED BY <1>2, <1>7, <2>1, <2>2, <2>3, DoneIs DEF RefreshMoves, Issuing
<1>8. CASE LoginMoves(p)
  <2>1. CASE Left(r, q)
    <3>1. Issuing(r) => Issuing(q) /\ r.op = q.op /\ r.password = q.password
                        /\ r.version = q.version /\ r.amid = q.amid
      BY <2>1 DEF Left, Issuing
    <3> QED BY <1>2, <1>5, <1>8, <2>1, <3>1 DEF Left, LoginMoves
  <2> QED BY <1>2, <1>8, <2>1, DoneIs DEF LoginMoves, Issuing
<1>9. CASE Begins(p)
  BY <1>2, <1>9 DEF Begins, Issuing, Operations
<1>10. CASE LogoutMoves(p) \/ OtherMoves(p)
  BY <1>2, <1>10, DoneIs DEF LogoutMoves, OtherMoves, Issuing, Operations
<1> QED BY <1>1, <1>6, <1>7, <1>8, <1>9, <1>10 DEF Moves

LEMMA AccessCurrentSteady ==
  ASSUME BaseInv, BaseInv', Steady, AccessCurrent
  PROVE  AccessCurrent'
<1> SUFFICES ASSUME NEW a \in issued, user'.exists, a.amid \cap (Setting \cup {"logout"}) = {}
             PROVE  /\ a.version <= user'.version
                    /\ \A p \in Senders : request'[p].op = "change" /\ request'[p].at = "save" =>
                         a.version <= request'[p].version
                    /\ a.version = user'.version =>
                         a.password = user'.password \/ \E p \in Senders : Bumps(p)'
  BY DEF AccessCurrent, Senders, Requests, Steady
<1>1. /\ user.exists /\ user \in Account /\ user' \in Account /\ a.version \in Int /\ AllFit
      /\ AccountMoves
  BY DEF Steady, BaseInv, Stored, AccessToken
<1>2. /\ a.version <= user.version
      /\ \A p \in Senders : request[p].op = "change" /\ request[p].at = "save" =>
           a.version <= request[p].version
      /\ a.version = user.version => a.password = user.password \/ \E p \in Senders : Bumps(p)
  BY <1>1 DEF AccessCurrent
<1>3. ASSUME NEW p \in Senders, request'[p].op = "change", request'[p].at = "save"
      PROVE  a.version <= request'[p].version
  <2>1. Moves(p)
    BY DEF Steady
  <2>2. CASE OtherMoves(p)
    <3>1. CASE Left(request'[p], request[p])
      BY <1>2, <1>3, <3>1 DEF Left
    <3>2. CASE Handle(p)
      <4>1. request[p].op = "change"
        BY <1>3, <2>2 DEF OtherMoves
      <4>2. ChangeSave(p) \/ RevokeAll(p)
        BY <1>1, <3>2, <4>1 DEF Handle, Insert, RefreshFind, RefreshUser, RefreshRevoke, LogoutGuard,
           LogoutRevoke, Bump, Supersede, InsertReset, ResetUser, ResetSave, Mark, DropTokens, At,
           AllFit, Fits, FitsOther
      <4>3. \/ Same(request'[p], request[p]) /\ request'[p].at = "revokeAll"
            \/ \E answer \in {"ok", "refused"} : Answered(p, answer)
        BY <4>1, <4>2, GoesOn, RespondAnswers DEF ChangeSave, RevokeAll
      <4> QED BY <1>3, <4>3, DoneIs DEF Answered
    <3> QED BY <1>3, <2>2, <3>1, <3>2, DoneIs DEF OtherMoves
  <2>3. CASE Begins(p)
    BY <1>2, <1>3, <2>3 DEF Begins
  <2> QED
    BY <1>2, <1>3, <2>1, <2>2, <2>3, DoneIs DEF Moves, RefreshMoves, LoginMoves, LogoutMoves, Left
<1>4. CASE user' = user
  <2>1. \A p \in Senders : Bumps(p) => Bumps(p)'
    <3>1. user.version \in Nat /\ user'.version = user.version
      BY <1>1, <1>4 DEF Account
    <3> QED BY <3>1, BumpersStay
  <2> QED BY <1>2, <1>3, <1>4, <2>1
<1>5. ASSUME NEW r \in Senders, Sets(r)
      PROVE  /\ a.version <= user'.version
             /\ a.version = user'.version =>
                  a.password = user'.password \/ \E p \in Senders : Bumps(p)'
  <2>1. CASE request[r].op = "change" /\ request[r].at = "save" /\ user'.version = request[r].version + 1
    <3>1. a.version <= request[r].version /\ request[r].version \in Nat
      BY <1>1, <1>2, <2>1 DEF AllFit, Fits, FitsOther
    <3> QED BY <1>1, <2>1, <3>1
  <2>2. CASE request'[r].op = "reset" /\ request'[r].at = "mark" /\ user'.version = user.version
    BY <1>2, <2>2 DEF Bumps
  <2>3. CASE user'.version = user.version + 1
    BY <1>1, <1>2, <2>3 DEF Account
  <2> QED BY <1>5, <2>1, <2>2, <2>3 DEF Sets
<1> QED BY <1>1, <1>3, <1>4, <1>5, AccountChanges

\* A handler issues what it has read; what it met goes with it.
LEMMA InsertPassword ==
  ASSUME BaseInv, BaseInv', Overlaps, PasswordInv, NEW p \in Senders, Insert(p)
  PROVE  PasswordInv'
<1> DEFINE q == request[p]
<1>0. PICK n : n = Len(tokens) + 1
  OBVIOUS
<1>1. /\ q.op \in {"login", "refresh"} /\ q.at = "insert"
      /\ n \notin DOMAIN tokens /\ DOMAIN tokens' = DOMAIN tokens \cup {n}
      /\ \A i \in DOMAIN tokens : tokens'[i] = tokens[i]
      /\ tokens'[n] = Inserted(p) /\ issued' = issued \cup {Signed(p)}
      /\ AccessToken(Signed(p)) /\ Only(p)
      /\ request'[p] = Done \/ (request'[p].op = q.op /\ request'[p].at = "ok")
  BY <1>0, Inserts
<1>2. user' = user /\ AllFit /\ Stored
  BY DEF Insert, BaseInv
<1>3. \A r \in Senders : request[r].op \in {"change", "reset"} => request'[r] = request[r]
  BY <1>1 DEF Only
<1>4. \A r \in Senders : (Revokes(r) => Revokes(r)') /\ (Bumps(r) => Bumps(r)')
  BY <1>3 DEF Revokes, Bumps
<1>5. user.exists => /\ \/ q.password = user.password
                        \/ (q.amid \cup Ops(p)) \cap Setting # {}
                     /\ \/ q.version = user.version
                        \/ (q.amid \cup Ops(p)) \cap (Setting \cup {"logout"}) # {}
  BY <1>1 DEF PasswordInv, ReadsCurrent, ReadsRight, Issuing
<1>6. TokensCurrent'
  <2> SUFFICES ASSUME NEW i \in DOMAIN tokens', Usable(i)', user.exists
               PROVE  \/ tokens'[i].password = user.password
                      \/ tokens'[i].amid \cap Setting # {}
                      \/ \E r \in Senders : Revokes(r)'
    BY <1>2 DEF TokensCurrent, Senders, Requests
  <2>1. CASE i = n
    BY <1>1, <1>5, <2>1 DEF Inserted
  <2>2. CASE i \in DOMAIN tokens
    BY <1>1, <1>4, <2>2 DEF Usable, PasswordInv, TokensCurrent
  <2> QED BY <1>1, <2>1, <2>2
<1>7. ReadsCurrent'
  <2> SUFFICES ASSUME NEW r \in Senders, user.exists PROVE ReadsRight(r)'
    BY <1>2 DEF ReadsCurrent, ReadsRight, Senders, Requests
  <2>1. CASE r = p
    BY <1>1, <2>1, DoneIs DEF ReadsRight, Issuing
  <2>2. CASE r # p
    <3>1. request'[r] = request[r] /\ ReadsRight(r)
      BY <1>1, <2>2 DEF Only, PasswordInv, ReadsCurrent
    <3>2. CASE request[r].op \in {"login", "refresh"}
      <4>1. Ops(r) \subseteq Ops(r)'
        BY <3>1, <3>2, KnowsStill DEF Operations
      <4>2. request[r].op = "refresh" /\ request[r].at = "user" => request[r].token \in DOMAIN tokens
        BY <1>2 DEF AllFit, Fits, FitsRefresh, Stored
      <4> QED BY <1>1, <1>2, <3>1, <4>1, <4>2 DEF ReadsRight, Issuing
    <3> QED BY <3>1, <3>2 DEF ReadsRight, Issuing
  <2> QED BY <2>1, <2>2
<1>8. AccessCurrent'
  <2> SUFFICES ASSUME NEW a \in issued', user.exists, a.amid \cap (Setting \cup {"logout"}) = {}
               PROVE  /\ a.version <= user.version
                      /\ \A r \in Senders : request'[r].op = "change" /\ request'[r].at = "save" =>
                           a.version <= request'[r].version
                      /\ a.version = user.version =>
                           a.password = user.password \/ \E r \in Senders : Bumps(r)'
    BY <1>2 DEF AccessCurrent, Senders, Requests
  <2>1. \A r \in Senders : request'[r].op = "change" => request[r].op = "change" /\ request'[r] = request[r]
    BY <1>1, DoneIs DEF Only
  <2>2. CASE a \in issued
    BY <1>4, <2>1, <2>2 DEF PasswordInv, AccessCurrent
  <2>3. CASE a = Signed(p)
    <3>1. a.version = user.version /\ a.password = user.password /\ user.version \in Nat
      BY <1>2, <1>5, <2>3 DEF Signed, Stored, Account
    <3>2. ASSUME NEW r \in Senders, request[r].op = "change" PROVE FALSE
      <4>1. r # p
        BY <1>1, <3>2
      <4>2. Met(request[r]) \in amid[p] /\ Met(request[r]).op = "change"
        BY <1>1, <3>2, <4>1 DEF BaseInv, Witnessed, Operations, Met
      <4> QED BY <2>3, <4>2 DEF Ops, Signed, Setting
    <3> QED BY <2>1, <3>1, <3>2
  <2> QED BY <1>1, <2>2, <2>3
<1> QED BY <1>6, <1>7, <1>8 DEF PasswordInv

LEMMA PasswordStep == BaseInv /\ BaseInv' /\ PasswordInv /\ Next => PasswordInv'
<1> SUFFICES ASSUME BaseInv, BaseInv', PasswordInv, Next PROVE PasswordInv'
  OBVIOUS
<1>1. Overlaps
  BY DEF Next
<1>2. CASE Steady
  BY <1>1, <1>2, TokensCurrentSteady, ReadsSteady, AccessCurrentSteady DEF PasswordInv
<1>3. CASE \E p \in Senders : Insert(p) /\ UNCHANGED client
  BY <1>1, <1>3, InsertPassword
<1> QED BY <1>2, <1>3, StepsSteady

-----------------------------------------------------------------------------
(* Reset links.                                                            *)

Relinks(p) == Supersede(p) \/ InsertReset(p) \/ ResetSave(p) \/ Mark(p)

\* The links say what they said.
LinksSame ==
  /\ DOMAIN resets' = DOMAIN resets
  /\ \A i \in DOMAIN resets : /\ resets'[i].used = resets[i].used
                              /\ resets'[i].amid = resets[i].amid
                              /\ resets'[i].saves = resets[i].saves

LEMMA LinksChange ==
  ASSUME BaseInv, Next
  PROVE  LinksSame \/ \E p \in Senders : Relinks(p)
<1>1. CASE resets' = resets
  BY <1>1 DEF LinksSame
<1>2. CASE \E i \in DOMAIN resets : ExpireLink(i)
  BY <1>2, LinkExpires DEF LinksSame, BaseInv
<1>3. CASE Receive \/ ExpireAccess \/ \E c \in Calls : Call(c)
  <2>1. resets' = resets
    BY <1>3 DEF Receive, Succeeds, Unauthorized, Refused, Refreshed, Redirected, LoggedIn, LoggedOut,
       Call, ExpireAccess, server
  <2> QED BY <1>1, <2>1
<1>4. CASE \E p \in Senders : Fails(p)
  BY <1>1, <1>4 DEF Fails
<1>5. CASE Server
  <2>1. PICK p \in Senders : Handle(p)
    BY <1>5 DEF Server
  <2>2. Relinks(p) \/ resets' = resets
    BY <2>1 DEF Handle, Relinks, Insert, RefreshFind, RefreshUser, RefreshRevoke, LogoutGuard,
       LogoutRevoke, Bump, ChangeSave, RevokeAll, ResetUser, DropTokens, server
  <2> QED BY <1>1, <2>2
<1>6. CASE \E p \in Requests : BeginElsewhere(p) \/ \E t \in Tabs : Login(p, t) \/ Logout(p, t)
  <2>1. resets' = resets
    BY <1>6 DEF BeginElsewhere, BeginLogin, BeginChange, BeginForgot, BeginReset, BeginDelete, Login,
       Logout, server
  <2> QED BY <1>1, <2>1
<1> QED BY <1>2, <1>3, <1>4, <1>5, <1>6 DEF Next

\* A handler of a reset, or of a link's request, that does nothing to the links.
LinkMoves(p) ==
  LET q == request[p]
      r == request'[p] IN
  /\ r.op \in {"reset", "forgot"} =>
       \/ /\ q.op = r.op /\ q.reset = r.reset
          /\ r.at = q.at \/ (q.at = "user" /\ r.at = "save")
             \/ r.at \in {"revokeAll", "bump", "ok", "refused"}
       \/ r.op = "reset" /\ r.at = "user" /\ ~resets[r.reset].used
       \/ r.op = "forgot" /\ r.at = "supersede"
  /\ At(p, "reset", "mark") => r.op = "reset" /\ r.at = "mark" /\ r.reset = q.reset


LEMMA LinksRest ==
  ASSUME BaseInv, NEW p \in Senders, Moves(p), ~Relinks(p)
  PROVE  LinkMoves(p)
<1> DEFINE q == request[p]
           r == request'[p]
<1>1. Fits(p, q)
  BY DEF BaseInv, AllFit
<1>2. CASE r = q
  BY <1>2 DEF LinkMoves, At
<1>3. CASE RefreshMoves(p) \/ LoginMoves(p) \/ LogoutMoves(p)
  BY <1>3, DoneIs DEF RefreshMoves, LoginMoves, LogoutMoves, Left, LinkMoves, At
<1>4. CASE OtherMoves(p)
  <2>1. CASE Left(r, q)
    BY <2>1 DEF Left, LinkMoves, At
  <2>2. CASE r = Done /\ q.at \in {"ok", "refused"}
    BY <2>2, DoneIs DEF LinkMoves, At
  <2>3. CASE Handle(p)
    <3>1. ChangeSave(p) \/ RevokeAll(p) \/ ResetUser(p) \/ DropTokens(p) \/ Bump(p)
      BY <1>4, <2>3 DEF OtherMoves, Handle, Relinks, Insert, RefreshFind, RefreshUser, RefreshRevoke,
         LogoutGuard, LogoutRevoke, At
    <3>2. CASE ResetUser(p)
      <4>1. \/ Same(r, q) /\ r.at = "save"
            \/ Answered(p, "refused")
        BY <3>2, GoesOn, RespondAnswers DEF ResetUser
      <4> QED BY <3>2, <4>1, DoneIs DEF ResetUser, At, Answered, Same, LinkMoves
    <3>3. CASE ChangeSave(p) \/ RevokeAll(p) \/ DropTokens(p) \/ Bump(p)
      <4>1. \/ Same(r, q) /\ r.at \in {"revokeAll", "bump"}
            \/ \E answer \in {"ok", "refused"} : Answered(p, answer)
        BY <3>3, GoesOn, RespondAnswers DEF ChangeSave, RevokeAll, DropTokens, Bump
      <4>2. ~At(p, "reset", "mark")
        BY <3>3 DEF ChangeSave, RevokeAll, DropTokens, Bump, At
      <4> QED BY <4>1, <4>2, DoneIs DEF Answered, Same, LinkMoves
    <3> QED BY <3>1, <3>2, <3>3
  <2> QED BY <1>4, <2>1, <2>2, <2>3 DEF OtherMoves
<1>5. CASE Begins(p)
  <2>1. q.op \notin Operations
    BY <1>5, IdleIs, DoneIs DEF Begins, Operations
  <2> QED BY <1>5, <2>1 DEF Begins, BeginReset, LinkMoves, At, Operations
<1> QED BY <1>2, <1>3, <1>4, <1>5 DEF Moves

\* Whoever uses a link, or requests one, meets who does so too.
LEMMA LinkersMeet ==
  ASSUME BaseInv, NEW p \in Senders, NEW r \in Senders \ {p},
         request[p].op \in {"reset", "forgot"}, request[r].op \in {"reset", "forgot"}
  PROVE  request[r].op \in Ops(p)
<1>1. Met(request[r]) \in amid[p] /\ Met(request[r]).op = request[r].op
  BY DEF BaseInv, Witnessed, Operations, Met
<1> QED BY <1>1 DEF Ops

LEMMA LinksKept ==
  ASSUME BaseInv, BaseInv', Overlaps, LinkInv, LinksSame, \A p \in Senders : LinkMoves(p)
  PROVE  LinkInv'
<1>1. \A p \in Senders : request'[p].op \in {"reset", "forgot"} => Ops(p) \subseteq Ops(p)'
  BY KnowsStill DEF Operations
<1>2. LinkUsedOnce' /\ NewestLinkOnly'
  BY DEF LinkInv, LinksSpent, LinksReplaced, LinkUsedOnce, NewestLinkOnly, LinksSame
<1>3. ASSUME NEW i \in DOMAIN resets, resets[i].saves > 0
      PROVE  \/ resets'[i].used
             \/ \E p \in Senders : At(p, "reset", "mark")' /\ request'[p].reset = i
  <2>1. \/ resets[i].used
        \/ \E p \in Senders : At(p, "reset", "mark") /\ request[p].reset = i
    BY <1>3 DEF LinkInv, LinksSpent
  <2> QED BY <2>1 DEF LinksSame, LinkMoves, At
<1>4. ASSUME NEW p \in Senders, request'[p].op = "reset", request'[p].at \in {"user", "save"},
             resets'[request'[p].reset].saves > 0
      PROVE  "reset" \in Ops(p)'
  <2> DEFINE i == request'[p].reset
  <2>1. i \in DOMAIN resets /\ resets[i].saves > 0 /\ resets'[i].used = resets[i].used
    BY <1>4 DEF BaseInv, AllFit, Fits, FitsOther, LinksSame, Senders, Requests
  <2>2. CASE request[p].op = "reset" /\ request[p].reset = i /\ request[p].at \in {"user", "save"}
    BY <1>1, <1>4, <2>1, <2>2 DEF LinkInv, LinksSpent
  <2>3. CASE ~resets[i].used
    <3>1. PICK r \in Senders : request'[r].op = "reset" /\ request'[r].at = "mark"
      BY <1>3, <2>1, <2>3 DEF At
    <3>2. r # p
      BY <1>4, <3>1
    <3>3. Met(request'[r]) \in amid'[p] /\ Met(request'[r]).op = "reset"
      BY <1>4, <3>1, <3>2 DEF BaseInv, Witnessed, Operations, Met, Senders, Requests
    <3> QED BY <3>3 DEF Ops
  <2> QED BY <1>4, <2>2, <2>3 DEF LinkMoves
<1>5. ASSUME NEW p \in Senders, NEW i \in DOMAIN resets, At(p, "forgot", "insert")', ~resets'[i].used
      PROVE  "forgot" \in resets'[i].amid \cup Ops(p)'
  <2>1. At(p, "forgot", "insert")
    BY <1>5 DEF LinkMoves, At
  <2> QED BY <1>1, <1>5, <2>1 DEF LinkInv, LinksReplaced, LinksSame, At
<1>6. LinksSpent'
  BY <1>2, <1>3, <1>4 DEF LinksSpent, LinksSame, Senders, Requests
<1>7. LinksReplaced'
  BY <1>2, <1>5 DEF LinksReplaced, LinksSame, Senders, Requests
<1> QED BY <1>6, <1>7 DEF LinkInv

\* A handler relinks; the others know what they knew.
LEMMA OthersRelink ==
  ASSUME BaseInv, BaseInv', Overlaps, NEW p \in Senders, Relinks(p)
  PROVE  /\ Only(p) /\ request[p].op \in {"reset", "forgot"}
         /\ \A r \in Senders \ {p} :
              request[r].op \in {"reset", "forgot"} =>
                Ops(r) \subseteq Ops(r)' /\ request[p].op \in Ops(r)
         /\ \A r \in Senders : request[r].op = "reset" => request[r].reset \in DOMAIN resets
<1>1. Only(p) /\ request[p].op \in {"reset", "forgot"}
  BY GoesOn, RespondAnswers DEF Relinks, Supersede, InsertReset, ResetSave, Mark, At
<1>2. ASSUME NEW r \in Senders \ {p}, request[r].op \in {"reset", "forgot"}
      PROVE  Ops(r) \subseteq Ops(r)' /\ request[p].op \in Ops(r)
  BY <1>1, <1>2, KnowsStill, LinkersMeet DEF Only, Operations
<1> QED BY <1>1, <1>2 DEF BaseInv, AllFit, Fits, FitsOther

LEMMA MarkLinks ==
  ASSUME BaseInv, BaseInv', Overlaps, LinkInv, NEW p \in Senders, Mark(p)
  PROVE  LinkInv'
<1> DEFINE k == request[p].reset
<1>1. /\ Only(p) /\ \A r \in Senders : request[r].op = "reset" => request[r].reset \in DOMAIN resets
      /\ \A r \in Senders \ {p} : request[r].op \in {"reset", "forgot"} => Ops(r) \subseteq Ops(r)'
  BY OthersRelink DEF Relinks
<1>2. At(p, "reset", "mark") /\ Same(request'[p], request[p]) /\ request'[p].at = "revokeAll"
  BY GoesOn DEF Mark
<1>3. /\ DOMAIN resets' = DOMAIN resets /\ resets'[k].used
      /\ \A i \in DOMAIN resets : /\ resets'[i].amid = resets[i].amid /\ resets'[i].saves = resets[i].saves
                                  /\ i = k \/ resets'[i] = resets[i]
  BY <1>1, <1>2, LinkMarked DEF BaseInv, At
<1>4. \A r \in Senders : r # p => request'[r] = request[r]
  BY <1>1 DEF Only
<1>5. LinkUsedOnce' /\ NewestLinkOnly'
  BY <1>3 DEF LinkInv, LinksSpent, LinksReplaced, LinkUsedOnce, NewestLinkOnly
<1>6. ASSUME NEW i \in DOMAIN resets, resets[i].saves > 0, i # k
      PROVE  \/ resets'[i].used
             \/ \E r \in Senders : At(r, "reset", "mark")' /\ request'[r].reset = i
  BY <1>3, <1>4, <1>6 DEF LinkInv, LinksSpent, At
<1>7. ASSUME NEW r \in Senders, request'[r].op = "reset", request'[r].at \in {"user", "save"},
             resets'[request'[r].reset].saves > 0
      PROVE  "reset" \in Ops(r)'
  <2>1. r # p
    BY <1>2, <1>7
  <2> QED BY <1>1, <1>3, <1>4, <1>7, <2>1 DEF LinkInv, LinksSpent
<1>8. ASSUME NEW r \in Senders, NEW i \in DOMAIN resets, At(r, "forgot", "insert")', ~resets'[i].used
      PROVE  "forgot" \in resets'[i].amid \cup Ops(r)'
  <2>1. r # p /\ i # k
    BY <1>2, <1>3, <1>8 DEF At
  <2> QED BY <1>1, <1>3, <1>4, <1>8, <2>1 DEF LinkInv, LinksReplaced, At
<1>9. LinksSpent'
  BY <1>3, <1>5, <1>6, <1>7 DEF LinksSpent, Senders, Requests
<1>10. LinksReplaced'
  BY <1>3, <1>5, <1>8 DEF LinksReplaced, Senders, Requests
<1> QED BY <1>9, <1>10 DEF LinkInv

LEMMA ResetSaveLinks ==
  ASSUME BaseInv, BaseInv', Overlaps, LinkInv, NEW p \in Senders, ResetSave(p), user.exists
  PROVE  LinkInv'
<1> DEFINE k == request[p].reset
<1>1. /\ Only(p) /\ \A r \in Senders : request[r].op = "reset" => request[r].reset \in DOMAIN resets
      /\ \A r \in Senders \ {p} :
           request[r].op \in {"reset", "forgot"} => Ops(r) \subseteq Ops(r)' /\ request[p].op \in Ops(r)
  BY OthersRelink DEF Relinks
<1>2. At(p, "reset", "save") /\ Same(request'[p], request[p]) /\ request'[p].at = "mark"
  BY GoesOn DEF ResetSave
<1>3. /\ DOMAIN resets' = DOMAIN resets
      /\ \A i \in DOMAIN resets : resets'[i].used = resets[i].used /\ resets[i].amid \subseteq resets'[i].amid
      /\ \A i \in DOMAIN resets : i # k => resets'[i] = resets[i]
      /\ resets'[k].saves = resets[k].saves + 1 /\ Ops(p) \subseteq resets'[k].amid
      /\ resets[k].saves \in Nat
  <2>1. k \in DOMAIN resets /\ Stored /\ Remembered
    BY <1>1, <1>2 DEF BaseInv, At
  <2>2. /\ DOMAIN resets' = DOMAIN resets
        /\ resets'[k].saves = resets[k].saves + 1 /\ resets'[k].amid = resets[k].amid \cup Ops(p)
        /\ resets'[k].used = resets[k].used
        /\ \A i \in DOMAIN resets \ {k} : resets'[i] = resets[i]
    BY <2>1, LinkSaves
  <2>3. resets[k].saves \in Nat
    <3>1. resets[k] \in Link
      BY <2>1 DEF Stored
    <3> HIDE DEF k
    <3> QED BY <3>1 DEF Link
  <2> HIDE DEF k
  <2> QED BY <2>2, <2>3
<1>4. \A r \in Senders : r # p => request'[r] = request[r]
  BY <1>1 DEF Only
<1>5. LinkUsedOnce'
  <2> SUFFICES ASSUME NEW i \in DOMAIN resets, resets'[i].saves > 1
               PROVE  "reset" \in resets'[i].amid
    BY <1>3 DEF LinkUsedOnce
  <2>1. CASE i = k
    <3>1. resets[k].saves > 0
      BY <1>3, <2>1
    <3>2. "reset" \in Ops(p)
      BY <1>2, <3>1 DEF LinkInv, LinksSpent, At
    <3> QED BY <1>3, <2>1, <3>2
  <2>2. CASE i # k
    BY <1>3, <2>2 DEF LinkInv, LinksSpent, LinkUsedOnce
  <2> QED BY <2>1, <2>2
<1>6. NewestLinkOnly'
  BY <1>3 DEF LinkInv, LinksReplaced, NewestLinkOnly
<1>7. ASSUME NEW i \in DOMAIN resets, resets'[i].saves > 0
      PROVE  \/ resets'[i].used
             \/ \E r \in Senders : At(r, "reset", "mark")' /\ request'[r].reset = i
  <2>1. CASE i = k
    BY <1>2, <2>1 DEF At, Same
  <2>2. CASE i # k
    BY <1>2, <1>3, <1>4, <1>7, <2>2 DEF LinkInv, LinksSpent, At
  <2> QED BY <2>1, <2>2
<1>8. ASSUME NEW r \in Senders, request'[r].op = "reset", request'[r].at \in {"user", "save"},
             resets'[request'[r].reset].saves > 0
      PROVE  "reset" \in Ops(r)'
  <2>1. r # p
    BY <1>2, <1>8
  <2>2. request'[r] = request[r] /\ request[p].op \in Ops(r)'
    BY <1>1, <1>4, <1>8, <2>1
  <2> QED BY <1>2, <2>2 DEF At
<1>9. ASSUME NEW r \in Senders, NEW i \in DOMAIN resets, At(r, "forgot", "insert")', ~resets'[i].used
      PROVE  "forgot" \in resets'[i].amid \cup Ops(r)'
  <2>1. r # p
    BY <1>2, <1>9 DEF At
  <2> QED BY <1>1, <1>3, <1>4, <1>9, <2>1 DEF LinkInv, LinksReplaced, At
<1>10. LinksSpent'
  BY <1>3, <1>5, <1>7, <1>8 DEF LinksSpent, Senders, Requests
<1>11. LinksReplaced'
  BY <1>3, <1>6, <1>9 DEF LinksReplaced, Senders, Requests
<1> QED BY <1>10, <1>11 DEF LinkInv

LEMMA SupersedeLinks ==
  ASSUME BaseInv, BaseInv', Overlaps, LinkInv, NEW p \in Senders, Supersede(p)
  PROVE  LinkInv'
<1>1. Only(p) /\ \A r \in Senders \ {p} : request[r].op \in {"reset", "forgot"} => Ops(r) \subseteq Ops(r)'
  BY OthersRelink DEF Relinks
<1>2. At(p, "forgot", "supersede") /\ Same(request'[p], request[p])
  BY GoesOn DEF Supersede
<1>3. /\ DOMAIN resets' = DOMAIN resets
      /\ \A i \in DOMAIN resets : /\ resets'[i].used /\ resets'[i].amid = resets[i].amid
                                  /\ resets'[i].saves = resets[i].saves
  BY Supersedes DEF BaseInv
<1>4. LinkUsedOnce' /\ NewestLinkOnly'
  BY <1>3 DEF LinkInv, LinksSpent, LinkUsedOnce, NewestLinkOnly
<1>5. ASSUME NEW r \in Senders, request'[r].op = "reset", request'[r].at \in {"user", "save"},
             resets'[request'[r].reset].saves > 0
      PROVE  "reset" \in Ops(r)'
  <2>1. r # p /\ request'[r] = request[r]
    BY <1>1, <1>2, <1>5 DEF At, Same, Only
  <2>2. request[r].reset \in DOMAIN resets
    BY <1>5, <2>1 DEF BaseInv, AllFit, Fits, FitsOther
  <2> QED BY <1>1, <1>3, <1>5, <2>1, <2>2 DEF LinkInv, LinksSpent
<1>6. LinksSpent'
  BY <1>3, <1>4, <1>5 DEF LinksSpent, Senders, Requests
<1>7. LinksReplaced'
  BY <1>3, <1>4 DEF LinksReplaced
<1> QED BY <1>6, <1>7 DEF LinkInv

LEMMA InsertLinks ==
  ASSUME BaseInv, BaseInv', Overlaps, LinkInv, NEW p \in Senders, InsertReset(p)
  PROVE  LinkInv'
<1>0. PICK n : n = Len(resets) + 1
  OBVIOUS
<1>1. /\ Only(p)
      /\ \A r \in Senders \ {p} :
           request[r].op \in {"reset", "forgot"} => Ops(r) \subseteq Ops(r)' /\ request[p].op \in Ops(r)
      /\ \A r \in Senders : request[r].op = "reset" => request[r].reset \in DOMAIN resets
  BY OthersRelink DEF Relinks
<1>2. At(p, "forgot", "insert") /\ Answered(p, "ok")
  BY RespondAnswers DEF InsertReset
<1>3. /\ DOMAIN resets' = DOMAIN resets \cup {n} /\ n \notin DOMAIN resets
      /\ \A i \in DOMAIN resets : resets'[i] = resets[i] /\ i < n
      /\ resets'[n].amid = Ops(p) /\ resets'[n].saves = 0
  <2>1. \A i \in DOMAIN resets : i < n
    BY <1>0 DEF BaseInv, Stored
  <2>2. /\ DOMAIN resets' = DOMAIN resets \cup {n} /\ n \notin DOMAIN resets
        /\ \A i \in DOMAIN resets : resets'[i] = resets[i]
        /\ resets'[n] = [used |-> FALSE, expired |-> FALSE, amid |-> Ops(p), saves |-> 0]
    BY <1>0, LinkInserted DEF BaseInv
  <2> QED BY <2>1, <2>2
<1>4. request'[p].op \in {"forgot", "done"} /\ request'[p].at # "insert"
  BY <1>2, DoneIs DEF Answered, Same, At
<1>5. \A r \in Senders : r # p => request'[r] = request[r]
  BY <1>1 DEF Only
<1>6. LinkUsedOnce'
  BY <1>3 DEF LinkInv, LinksSpent, LinkUsedOnce
<1>7. NewestLinkOnly'
  <2> SUFFICES ASSUME NEW i \in DOMAIN resets', NEW j \in DOMAIN resets', i < j,
                      ~resets'[i].used, ~resets'[j].used
               PROVE  "forgot" \in resets'[i].amid \cup resets'[j].amid
    BY DEF NewestLinkOnly
  <2>1. CASE j = n
    <3>1. i \in DOMAIN resets
      BY <1>0, <1>3, <2>1 DEF BaseInv, Stored
    <3> QED BY <1>2, <1>3, <2>1, <3>1 DEF LinkInv, LinksReplaced
  <2>2. CASE j \in DOMAIN resets
    <3>1. i \in DOMAIN resets
      BY <1>0, <1>3, <2>2 DEF BaseInv, Stored
    <3> QED BY <1>3, <2>2, <3>1 DEF LinkInv, LinksReplaced, NewestLinkOnly
  <2> QED BY <1>3, <2>1, <2>2
<1>8. ASSUME NEW i \in DOMAIN resets', resets'[i].saves > 0
      PROVE  \/ resets'[i].used
             \/ \E r \in Senders : At(r, "reset", "mark")' /\ request'[r].reset = i
  <2>1. i \in DOMAIN resets /\ resets[i].saves > 0 /\ resets'[i] = resets[i]
    BY <1>3, <1>8
  <2> QED BY <1>2, <1>5, <2>1 DEF LinkInv, LinksSpent, At
<1>9. ASSUME NEW r \in Senders, request'[r].op = "reset", request'[r].at \in {"user", "save"},
             resets'[request'[r].reset].saves > 0
      PROVE  "reset" \in Ops(r)'
  <2>1. r # p
    BY <1>4, <1>9
  <2> QED BY <1>1, <1>3, <1>5, <1>9, <2>1 DEF LinkInv, LinksSpent
<1>10. ASSUME NEW r \in Senders, NEW i \in DOMAIN resets', At(r, "forgot", "insert")', ~resets'[i].used
       PROVE  "forgot" \in resets'[i].amid \cup Ops(r)'
  <2>1. r # p /\ At(r, "forgot", "insert")
    BY <1>4, <1>5, <1>10 DEF At
  <2>2. "forgot" \in Ops(r)'
    BY <1>1, <1>2, <2>1 DEF At
  <2> QED BY <2>2
<1>11. LinksSpent'
  BY <1>6, <1>8, <1>9 DEF LinksSpent, Senders, Requests
<1>12. LinksReplaced'
  BY <1>7, <1>10 DEF LinksReplaced, Senders, Requests
<1> QED BY <1>11, <1>12 DEF LinkInv

LEMMA LinkStep == BaseInv /\ BaseInv' /\ LinkInv /\ Next => LinkInv'
<1> SUFFICES ASSUME BaseInv, BaseInv', LinkInv, Next PROVE LinkInv'
  OBVIOUS
<1>1. Overlaps
  BY DEF Next
<1>2. CASE \E p \in Senders : Mark(p) \/ Supersede(p) \/ InsertReset(p) \/ (ResetSave(p) /\ user.exists)
  BY <1>1, <1>2, MarkLinks, SupersedeLinks, InsertLinks, ResetSaveLinks
<1>3. ASSUME NEW p \in Senders, ResetSave(p), ~user.exists
      PROVE  LinkInv'
  <2>1. LinksSame /\ Only(p) /\ Answered(p, "refused") /\ At(p, "reset", "save")
    BY <1>3, RespondAnswers DEF ResetSave, LinksSame
  <2>2. \A r \in Senders : LinkMoves(r)
    BY <2>1, DoneIs DEF Only, LinkMoves, At, Answered, Same
  <2> QED BY <1>1, <2>1, <2>2, LinksKept
<1>4. CASE \A p \in Senders : ~Relinks(p)
  <2>1. LinksSame
    BY <1>4, LinksChange
  <2>2. CASE Steady
    BY <1>1, <1>4, <2>1, <2>2, LinksRest, LinksKept DEF Steady
  <2>3. ASSUME NEW p \in Senders, Insert(p)
        PROVE  LinkInv'
    <3>1. /\ Only(p) /\ request[p].op \in {"login", "refresh"}
          /\ request'[p] = Done \/ request'[p].op = request[p].op
      BY <2>3, Inserts
    <3>2. \A r \in Senders : LinkMoves(r)
      BY <3>1, DoneIs DEF Only, LinkMoves, At
    <3> QED BY <1>1, <2>1, <3>2, LinksKept
  <2> QED BY <2>2, <2>3, StepsSteady
<1> QED BY <1>2, <1>3, <1>4 DEF Relinks

-----------------------------------------------------------------------------
(* The initial states, and steps that change nothing.                      *)

LEMMA InitialTokens ==
  ASSUME Init
  PROVE  /\ tokens \in Seq(Token) /\ DOMAIN tokens = {1, 2} /\ Len(tokens) = 2
         /\ tokens[1].session = -1 /\ tokens[2].session = -2
         /\ \A i \in {1, 2} : /\ tokens[i].status = "live" /\ tokens[i].password = First
                              /\ tokens[i].amid = {}
<1>1. tokens = [i \in 1 .. 2 |-> [status |-> "live", session |-> -i, password |-> First, amid |-> {}]]
  BY DEF Init
<1>2. \A i \in 1 .. 2 : tokens[i] \in Token
  BY <1>1 DEF Token
<1>3. tokens \in [1 .. 2 -> Token]
  BY <1>1, <1>2
<1>4. tokens \in Seq(Token)
  BY <1>3, SeqDef
<1>5. DOMAIN tokens = 1 .. Len(tokens) /\ Len(tokens) \in Nat /\ DOMAIN tokens = 1 .. 2
  BY <1>3, <1>4
<1>6. Len(tokens) = 2
  <2>1. PICK m \in Nat : m = Len(tokens) /\ 1 .. m = 1 .. 2
    BY <1>5
  <2>2. 2 \in 1 .. m
    BY <2>1
  <2>3. m \in 1 .. 2
    BY <2>1, <2>2
  <2> QED BY <2>1, <2>2, <2>3
<1>7. tokens[1].session = -1 /\ tokens[2].session = -2
  BY <1>1
<1>8. \A i \in {1, 2} : /\ tokens[i].status = "live" /\ tokens[i].password = First
                        /\ tokens[i].amid = {}
  BY <1>1
<1> QED BY <1>4, <1>5, <1>6, <1>7, <1>8

LEMMA InitialAccess ==
  ASSUME Init
  PROVE  /\ issued = {storage} /\ AccessToken(storage) /\ ~storage.expired
         /\ storage.version = 0 /\ storage.password = First /\ storage.amid = {}
         /\ [storage EXCEPT !.expired = FALSE] = storage
<1>1. storage = [version |-> 0, password |-> First, amid |-> {}, expired |-> FALSE]
  BY DEF Init, NoAccess
<1>2. issued = {storage}
  BY DEF Init
<1>3. [storage EXCEPT !.expired = FALSE] = storage
  <2>1. ASSUME NEW a, a = [version |-> 0, password |-> First, amid |-> {}, expired |-> FALSE],
               NEW r, r = [a EXCEPT !.expired = FALSE]
        PROVE  r = a
    <3>1. a = [f \in {"version", "password", "amid", "expired"} |-> a[f]] /\ a["expired"] = FALSE
      BY <2>1
    <3>2. r = [f \in {"version", "password", "amid", "expired"} |->
                 IF f = "expired" THEN FALSE ELSE a[f]]
      BY <2>1, <3>1
    <3> QED BY <3>1, <3>2
  <2> QED BY <1>1, <2>1
<1>4. AccessToken(storage)
  BY <1>1 DEF AccessToken
<1> QED BY <1>1, <1>2, <1>3, <1>4

LEMMA InitialLinks ==
  ASSUME Init
  PROVE  resets \in Seq(Link) /\ DOMAIN resets = {1} /\ ~resets[1].used /\ resets[1].saves = 0
<1> DEFINE link == [used |-> FALSE, expired |-> FALSE, amid |-> {}, saves |-> 0]
<1>1. resets = <<link>> /\ link \in Link /\ ~link.used /\ link.saves = 0
  BY DEF Init, Link
<1> HIDE DEF link
<1>2. resets \in Seq(Link) /\ Len(resets) = 1 /\ resets[1] = link
  BY <1>1
<1> QED BY <1>1, <1>2

LEMMA BaseInit == Init => BaseInv
<1> SUFFICES ASSUME Init PROVE BaseInv
  OBVIOUS
<1>1. WaitInv
  BY WaitInit
<1>2. \A p \in Senders : request[p] = Idle /\ amid[p] = {}
  BY DEF Init
<1>3. Stored
  <2>1. user \in Account
    BY DEF Init, Account
  <2>2. \A i \in DOMAIN tokens : Known(tokens[i].session)
    BY InitialTokens DEF Known
  <2>3. storage = NoAccess \/ (AccessToken(storage) /\ [storage EXCEPT !.expired = FALSE] \in issued)
    BY InitialAccess
  <2>4. \A a \in issued : AccessToken(a) /\ ~a.expired
    BY InitialAccess
  <2>5. \A i \in DOMAIN tokens : tokens[i].status # "gone"
    BY InitialTokens
  <2>6. cookie \in 0 .. Len(tokens)
    BY InitialTokens DEF Init
  <2>7. failures \in Nat /\ refreshing \in [Tabs -> Calls \cup {NoRefresh}] /\ ended = {}
    BY DEF Init
  <2> QED BY <2>1, <2>2, <2>3, <2>4, <2>5, <2>6, <2>7, InitialTokens, InitialLinks DEF Stored
<1>4. AllFit
  <2>1. Idle.token \in 0 .. Len(tokens)
    BY IdleIs, InitialTokens
  <2> QED BY <1>2, <2>1, IdleIs, IdleRecord
    DEF AllFit, Fits, FitsRefresh, FitsLogin, FitsIssue, FitsOther, Issuing, Operations
<1>5. Numbered
  BY <1>2, SessionsAssumption DEF Numbered, Senders, Requests
<1>6. Remembered /\ Witnessed
  BY <1>2, IdleIs DEF Init, Remembered, Witnessed, Ops, Operations
<1> QED BY <1>1, <1>3, <1>4, <1>5, <1>6 DEF BaseInv

LEMMA ChainInit == Init => ChainInv
<1> SUFFICES ASSUME Init PROVE ChainInv
  OBVIOUS
<1>1. \A p \in Senders : request[p].op = "none"
  BY IdleIs DEF Init
<1>2. \A p \in Senders : ~Continues(p)
  BY <1>1 DEF Continues
<1>3. cookie = 1 /\ ended = {}
  BY DEF Init
<1>4. Newest(1)
  BY <1>2, InitialTokens DEF Newest, EndsBut
<1>5. OneEnd
  BY <1>2, InitialTokens DEF OneEnd
<1> QED BY <1>1, <1>3, <1>4, <1>5
  DEF ChainInv, AnswersHold, CookieNewest, RefreshesHold, StorageNewest, LogoutsHold, EndedHold

LEMMA PasswordInit == Init => PasswordInv
<1> SUFFICES ASSUME Init PROVE PasswordInv
  OBVIOUS
<1>1. \A p \in Senders : request[p].op = "none"
  BY IdleIs DEF Init
<1>2. user.password = First /\ user.version = 0
  BY DEF Init
<1>3. TokensCurrent
  BY <1>2, InitialTokens DEF TokensCurrent
<1>4. ReadsCurrent
  BY <1>1 DEF ReadsCurrent, ReadsRight, Issuing
<1>5. AccessCurrent
  BY <1>1, <1>2, InitialAccess DEF AccessCurrent
<1> QED BY <1>3, <1>4, <1>5 DEF PasswordInv

LEMMA LinkInit == Init => LinkInv
<1> SUFFICES ASSUME Init PROVE LinkInv
  OBVIOUS
<1>1. \A p \in Senders : request[p].op = "none"
  BY IdleIs DEF Init
<1> QED BY <1>1, InitialLinks
  DEF LinkInv, LinksSpent, LinksReplaced, LinkUsedOnce, NewestLinkOnly, At

SessionInv == BaseInv /\ ChainInv /\ PasswordInv /\ LinkInv

LEMMA SessionStutters == SessionInv /\ UNCHANGED vars => SessionInv'
<1> SUFFICES ASSUME SessionInv, UNCHANGED vars PROVE SessionInv'
  OBVIOUS
<1>1. UNCHANGED <<user, tokens, issued, resets, failures, request, amid, cookie, storage, refreshing,
                  call, ended>>
  BY DEF vars, server
<1>2. BaseInv'
  <2>1. WaitInv'
    BY <1>1 DEF SessionInv, BaseInv, WaitInv, Shapes, RefreshersAnswer, WaitersRefresh
  <2>2. Stored'
    BY <1>1 DEF SessionInv, BaseInv, Stored, Known
  <2>3. AllFit'
    BY <1>1 DEF SessionInv, BaseInv, AllFit, Fits, FitsRefresh, FitsLogin, FitsIssue, FitsOther,
       Issues, Known
  <2>4. Numbered' /\ Remembered' /\ Witnessed'
    BY <1>1 DEF SessionInv, BaseInv, Numbered, Remembered, Witnessed, Ops
  <2> QED BY <2>1, <2>2, <2>3, <2>4 DEF BaseInv
<1>3. ChainInv'
  <2>1. \A p \in Senders : /\ Continues(p)' <=> Continues(p)
                            /\ SessionOf(p)' = SessionOf(p) /\ MetBy(p)' = MetBy(p)
    BY <1>1 DEF Continues, SessionOf, MetBy, Usable, Ops
  <2>2. \A s, i : EndsBut(s, i) => EndsBut(s, i)'
    BY <1>1, <2>1 DEF EndsBut, Usable, Senders, Requests
  <2>3. OneEnd'
    BY <1>1, <2>1 DEF SessionInv, ChainInv, OneEnd, Usable, Senders, Requests
  <2>4. \A i : Newest(i) => Newest(i)'
    BY <1>1, <2>2 DEF Newest, EndsBut
  <2>5. AnswersHold'
    BY <1>1, <2>4 DEF SessionInv, ChainInv, AnswersHold, Newest, EndsBut
  <2>6. CookieNewest' /\ StorageNewest'
    BY <1>1, <2>4 DEF SessionInv, ChainInv, CookieNewest, StorageNewest, Refreshing, Newest, EndsBut
  <2>7. RefreshesHold'
    BY <1>1 DEF SessionInv, ChainInv, RefreshesHold, Newest, Ends, EndsBut, Continues, SessionOf,
       MetBy, Usable, Ops, Raced
  <2>8. LogoutsHold'
    BY <1>1 DEF SessionInv, ChainInv, LogoutsHold, Newest, Ends, EndsBut, Continues, SessionOf,
       MetBy, Usable, Ops
  <2>9. EndedHold'
    BY <1>1, <2>2 DEF SessionInv, ChainInv, EndedHold, Ends
  <2> QED BY <2>3, <2>5, <2>6, <2>7, <2>8, <2>9 DEF ChainInv
<1>4. PasswordInv'
  BY <1>1 DEF SessionInv, PasswordInv, TokensCurrent, ReadsCurrent, ReadsRight, AccessCurrent, Usable,
     Revokes, Bumps, Ops, Senders, Requests
<1>5. LinkInv'
  BY <1>1 DEF SessionInv, LinkInv, LinksSpent, LinksReplaced, LinkUsedOnce, NewestLinkOnly, At, Ops,
     Senders, Requests
<1> QED BY <1>2, <1>3, <1>4, <1>5 DEF SessionInv

LEMMA SessionAlways == Spec => []SessionInv
<1>1. Init => SessionInv
  BY BaseInit, ChainInit, PasswordInit, LinkInit DEF SessionInv
<1>2. SessionInv /\ [Next]_vars => SessionInv'
  BY BaseStep, ChainStep, PasswordStep, LinkStep, SessionStutters DEF SessionInv
<1> QED BY <1>1, <1>2, PTL DEF Spec

-----------------------------------------------------------------------------
(* What the project checks.                                                *)

\* A session is one chain of refresh tokens, unless two tabs refreshed at once, and a
\* logout ends the chain.
THEOREM SessionsAreChains == Spec => []SessionsHold
<1>1. SessionInv => SessionsHold
  <2> SUFFICES ASSUME SessionInv PROVE SessionsHold
    OBVIOUS
  <2>1. Stored
    BY DEF SessionInv, BaseInv
  <2>2. TypeOK
    <3>1. storage = NoAccess \/ [storage EXCEPT !.expired = FALSE] \in issued
      BY <2>1 DEF Stored
    <3>2. ended \subseteq Requests \cup {-1, -2}
      BY <2>1 DEF Stored, Known
    <3> QED BY <2>1, <3>1, <3>2 DEF TypeOK, Stored, Account
  <2>3. OneTokenPerSession
    BY DEF SessionInv, ChainInv, OneEnd, OneTokenPerSession
  <2>4. LogoutEndsSession
    <3>1. 0 \notin DOMAIN tokens
      BY <2>1 DEF Stored
    <3> QED BY <3>1 DEF SessionInv, ChainInv, EndedHold, Ends, EndsBut, LogoutEndsSession
  <2> QED BY <2>2, <2>3, <2>4 DEF SessionsHold
<1> QED BY <1>1, SessionAlways, PTL

\* A new password ends the sessions and the access tokens of the old one, but those
\* that met the change; a reset link sets one password, and only the newest works,
\* unless two were used or requested at once.
THEOREM PasswordsEndSessions == Spec => []CredentialsHold
<1>1. SessionInv => CredentialsHold
  <2> SUFFICES ASSUME SessionInv PROVE CredentialsHold
    OBVIOUS
  <2>1. ASSUME NEW p \in Senders, request[p].op \in {"change", "reset"}
        PROVE  p \in Requests /\ SettingPassword(p)
    BY <2>1 DEF SessionInv, BaseInv, AllFit, Fits, FitsOther, SettingPassword
  <2>2. PasswordEndsSessions
    BY <2>1 DEF SessionInv, PasswordInv, TokensCurrent, PasswordEndsSessions, Setting, Revokes
  <2>3. PasswordEndsAccess
    BY <2>1 DEF SessionInv, PasswordInv, AccessCurrent, PasswordEndsAccess, Setting, Bumps, Accepts
  <2>4. LinkUsedOnce /\ NewestLinkOnly
    BY DEF SessionInv, LinkInv, LinksSpent, LinksReplaced
  <2> QED BY <2>2, <2>3, <2>4 DEF CredentialsHold
<1> QED BY <1>1, SessionAlways, PTL

\* A tab that gives up has not been thrown out of a session that is alive.
THEOREM TabsGiveUpRightly == Spec => NoSpuriousLogout
<1>1. SessionInv => GivesUpRightly
  <2> SUFFICES ASSUME SessionInv, NEW t \in Tabs, refreshing[t] # NoRefresh, Redirected(t),
                      NEW p, p = refreshing[t], NEW i, i = request[p].token,
                      i # 0, ~(failures > 0), user.exists,
                      ~\E r \in amid[p] : r.op = "refresh" /\ r.tab # t
               PROVE  ~\E j \in DOMAIN tokens :
                         /\ Usable(j) /\ tokens[j].session = tokens[i].session
                         /\ "refresh" \notin tokens[j].amid
    BY DEF GivesUpRightly
  <2>1. /\ p \in Senders /\ request[p].op = "refresh" /\ request[p].at = "refused"
        /\ request[p].tab = t
    BY RedirectedIs DEF SessionInv
  <2>2. Ends(tokens[i].session)
    BY <2>1 DEF SessionInv, ChainInv, RefreshesHold, Raced
  <2>3. 0 \notin DOMAIN tokens
    BY DEF SessionInv, BaseInv, Stored
  <2> QED BY <2>2, <2>3 DEF Ends, EndsBut
<1> QED BY <1>1, SessionAlways, PTL DEF NoSpuriousLogout
=============================================================================
