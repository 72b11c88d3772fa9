------------------------------ MODULE Browser ------------------------------
(***************************************************************************)
(* The tabs of one browser (frontend/src/lib/api.ts, auth-context.tsx) and *)
(* the sessions they use.  The tabs share the cookie with the refresh      *)
(* token and localStorage with the access token; each tab has its own      *)
(* refreshPromise.                                                         *)
(***************************************************************************)
EXTENDS Sessions

CONSTANTS
  NoRefresh    \* refreshPromise = null

ASSUME BrowserAssumption == NoRefresh \notin Calls

VARIABLES
  cookie,      \* the refresh token in the cookie, 0 for none
  storage,     \* localStorage's access token, or NoAccess
  refreshing,  \* refreshPromise of each tab: the call that made it
  call,        \* each call: its tab, where it is, the access token it was sent with
  ended        \* history: sessions logged out of while none of them refreshed

vars == <<server, request, amid, cookie, storage, refreshing, call, ended>>

client == <<cookie, storage, refreshing, call, ended>>

CallsOf(t) == {c \in Calls : call[c].tab = t}

-----------------------------------------------------------------------------
(* apiFetch().                                                             *)

Call(c) ==
  /\ call[c].at = "idle"
  /\ call' = [call EXCEPT ![c].at = "sent", ![c].token = storage]
  /\ UNCHANGED <<server, request, cookie, storage, refreshing, ended>>

Succeeds(c) ==
  /\ call[c].at \in {"sent", "retry"}
  /\ Accepts(call[c].token)
  /\ call' = [call EXCEPT ![c].at = "done", ![c].token = NoAccess]
  /\ UNCHANGED <<server, request, cookie, storage, refreshing, ended>>

\* (Mutant: no mutex, every 401 refreshes.)
UnauthorizedRefreshes(c) ==
  LET t == call[c].tab IN
  /\ call[c].at = "sent" /\ ~Accepts(call[c].token)
  /\ call' = [call EXCEPT ![c].at = "waiting", ![c].token = NoAccess]
  /\ refreshing' = [refreshing EXCEPT ![t] = c]
  /\ Becomes(c, [Idle EXCEPT !.op = "refresh", !.at = "find", !.tab = t,
                             !.token = cookie])
  /\ UNCHANGED <<server, cookie, storage, ended>>

\* 401: the first one of a tab refreshes, the others wait for it.
Unauthorized(c) ==
  LET t == call[c].tab IN
  /\ call[c].at = "sent" /\ ~Accepts(call[c].token)
  /\ call' = [call EXCEPT ![c].at = "waiting", ![c].token = NoAccess]
  /\ IF refreshing[t] = NoRefresh
     THEN /\ refreshing' = [refreshing EXCEPT ![t] = c]
          /\ Becomes(c, [Idle EXCEPT !.op = "refresh", !.at = "find", !.tab = t,
                                     !.token = cookie])
     ELSE UNCHANGED <<refreshing, request>>
  /\ UNCHANGED <<server, cookie, storage, ended>>

\* (Mutant: only the call that refreshed is retried.)
RefreshedAlone(t) ==
  LET p == refreshing[t] IN
  /\ p # NoRefresh /\ At(p, "refresh", "ok")
  /\ cookie' = request[p].token
  /\ storage' = request[p].access
  /\ refreshing' = [refreshing EXCEPT ![t] = NoRefresh]
  /\ call' = [call EXCEPT ![p].at = "retry", ![p].token = request[p].access]
  /\ Becomes(p, Done)
  /\ UNCHANGED <<server, ended>>

\* The new token is stored, and every waiting call of the tab retried with it.
Refreshed(t) ==
  LET p == refreshing[t] IN
  /\ p # NoRefresh /\ At(p, "refresh", "ok")
  /\ cookie' = request[p].token
  /\ storage' = request[p].access
  /\ refreshing' = [refreshing EXCEPT ![t] = NoRefresh]
  /\ call' = [c \in Calls |->
                IF c \in CallsOf(t) /\ call[c].at = "waiting"
                THEN [call[c] EXCEPT !.at = "retry", !.token = request[p].access]
                ELSE call[c]]
  /\ Becomes(p, Done)
  /\ UNCHANGED <<server, ended>>

\* clearAuthStateAndRedirect(): the page is left, with whatever it was doing.
\* The server goes on with the requests the page had sent.
Redirected(t) ==
  LET p == refreshing[t] IN
  /\ p # NoRefresh /\ At(p, "refresh", "refused")
  /\ storage' = NoAccess
  /\ refreshing' = [refreshing EXCEPT ![t] = NoRefresh]
  /\ call' = [c \in Calls |->
                IF c \in CallsOf(t) /\ call[c].at \notin {"idle", "done"}
                THEN [call[c] EXCEPT !.at = "failed", !.token = NoAccess]
                ELSE call[c]]
  /\ request' = [r \in DOMAIN request |->
                   IF r = p THEN Done
                   ELSE IF request[r].tab # t THEN request[r]
                   ELSE IF request[r].at \in {"ok", "refused"} THEN Done
                   ELSE [request[r] EXCEPT !.tab = NoTab]]
  /\ UNCHANGED <<server, cookie, ended>>

\* The retried request is refused again, and is not retried a second time.
Refused(c) ==
  /\ call[c].at = "retry" /\ ~Accepts(call[c].token)
  /\ call' = [call EXCEPT ![c].at = "failed", ![c].token = NoAccess]
  /\ UNCHANGED <<server, request, cookie, storage, refreshing, ended>>

-----------------------------------------------------------------------------
(* AuthProvider.                                                           *)

Busy(t) == \E p \in Requests : request[p].tab = t

\* The middleware lets the login page show when there is no access token or it has
\* expired.
Login(p, t) ==
  /\ storage = NoAccess \/ storage.expired
  /\ ~Busy(t) /\ refreshing[t] = NoRefresh
  /\ BeginLogin(p, t)
  /\ UNCHANGED client

LoggedIn(p) ==
  LET q == request[p] IN
  /\ At(p, "login", "ok") /\ q.tab # NoTab
  /\ cookie' = q.token
  /\ storage' = q.access
  /\ Becomes(p, Done)
  /\ UNCHANGED <<server, refreshing, call, ended>>

\* logout(): a plain fetch, which does not refresh an expired access token.
Logout(p, t) ==
  /\ storage # NoAccess /\ ~Busy(t)
  /\ Fresh(p)
  /\ Becomes(p, [Idle EXCEPT !.op = "logout", !.at = "guard", !.tab = t,
                             !.token = cookie, !.access = storage])
  /\ UNCHANGED <<server, client>>

\* Whatever the answer, the tab forgets its access token; only a successful one
\* clears the cookie.
LoggedOut(p) ==
  LET q == request[p] IN
  /\ q.op = "logout" /\ q.at \in {"ok", "refused"}
  /\ storage' = NoAccess
  /\ cookie' = IF q.at = "ok" THEN 0 ELSE cookie
  /\ ended' = IF q.at = "ok" /\ q.token # 0 /\ "refresh" \notin Ops(p)
              THEN ended \cup {tokens[q.token].session} ELSE ended
  /\ Becomes(p, Done)
  /\ UNCHANGED <<server, refreshing, call>>

\* A quarter of an hour passes for the stored access token.
ExpireAccess ==
  /\ storage # NoAccess /\ ~storage.expired
  /\ storage' = [storage EXCEPT !.expired = TRUE]
  /\ UNCHANGED <<server, request, cookie, refreshing, call, ended>>

-----------------------------------------------------------------------------
\* The browser is logged in, with a session that began by the initial password;
\* so is another device, and a reset link was sent.  The calls are made in one tab, or in two.
Init ==
  /\ user = [exists |-> TRUE, password |-> First, version |-> 0]
  /\ tokens = [i \in 1 .. 2 |-> [status |-> "live", session |-> -i,
                                  password |-> First, amid |-> {}]]
  /\ issued = {[NoAccess EXCEPT !.version = 0]}
  /\ resets = <<[used |-> FALSE, expired |-> FALSE, amid |-> {}, saves |-> 0]>>
  /\ request = [p \in Senders |-> Idle]
  /\ amid = [p \in Senders |-> {}]
  /\ failures = 0
  /\ cookie = 1
  /\ storage = [NoAccess EXCEPT !.version = 0]
  /\ refreshing = [t \in Tabs |-> NoRefresh]
  /\ \E rest \in Tabs :
       call = [c \in Calls |-> [tab |-> IF c = CHOOSE d \in Calls : TRUE
                                        THEN CHOOSE t \in Tabs : TRUE ELSE rest,
                                at |-> "idle", token |-> NoAccess]]
  /\ ended = {}

\* The history the properties need: what a handler that issues a token or a link,
\* or ends a session, overlapped with.
Met(q) == [op |-> q.op, tab |-> IF q.op = "refresh" THEN q.tab ELSE NoTab]

Overlaps ==
  amid' = [p \in Senders |->
    IF ~Active(p)' \/ request'[p].op \in {"change", "delete"} THEN {}
    ELSE amid[p] \cup
         {Met(request'[r]) :
            r \in {r \in Senders \ {p} :
                    Active(r)' /\ request'[r].op \notin {"login", "delete"}}}]

Begun == {p \in Requests : request[p] # Idle} \cup {c \in Calls : call[c].at # "idle"}

MayBegin == Cardinality(Begun) < MaxBegun

Receive ==
  \/ \E c \in Calls : Succeeds(c) \/ Unauthorized(c) \/ Refused(c)
  \/ \E t \in Tabs : Refreshed(t) \/ Redirected(t)
  \/ \E p \in Requests : LoggedIn(p) \/ LoggedOut(p)

Server == \E p \in Senders : Handle(p) /\ UNCHANGED client

Next ==
  /\ \/ Receive \/ Server
     \/ /\ MayBegin
        /\ \/ \E c \in Calls : Call(c)
           \/ \E p \in Requests :
                \/ BeginElsewhere(p) /\ UNCHANGED client
                \/ \E t \in Tabs : Login(p, t) \/ Logout(p, t)
     \/ ExpireAccess
     \/ (\E p \in Senders : Fails(p)) /\ UNCHANGED client
     \/ (\E i \in DOMAIN resets : ExpireLink(i)) /\ UNCHANGED client
  /\ Overlaps

Spec == Init /\ [][Next]_vars

-----------------------------------------------------------------------------
(* Properties.                                                             *)

Operations == {"login", "refresh", "logout", "change", "forgot", "reset", "delete"}

Token ==
  [status : {"live", "revoked", "gone"},
   session : Requests \cup {-1, -2}, password : Requests \cup {First},
   amid : SUBSET Operations]

\* Types of what the server and the browser store.
TypeOK ==
  /\ user \in [exists : BOOLEAN, password : Requests \cup {First}, version : Nat]
  /\ tokens \in Seq(Token)
  /\ cookie \in 0 .. Len(tokens)
  /\ storage = NoAccess \/ [storage EXCEPT !.expired = FALSE] \in issued
  /\ refreshing \in [Tabs -> Calls \cup {NoRefresh}]
  /\ ended \subseteq Requests \cup {-1, -2}

\* A session that was logged out of has no working refresh token, unless it was
\* refreshed at the time, or twice at once before.
LogoutEndsSession ==
  \A i \in DOMAIN tokens :
    Usable(i) /\ tokens[i].session \in ended =>
      "refresh" \in tokens[i].amid

\* A tab never throws its user out of a session that is alive: when it gives up,
\* the refresh token it presented was not revoked by one of its own refreshes,
\* but expired, ended by a logout, a change of password or a deletion, or
\* replaced by another tab in a race.  (What a race between two tabs has left of
\* the session does not count.)
GivesUpRightly ==
  \A t \in Tabs :
    refreshing[t] # NoRefresh /\ Redirected(t) =>
      LET p == refreshing[t]
          i == request[p].token
      IN  \/ i = 0 \/ failures > 0 \/ ~user.exists
          \/ \E r \in amid[p] : r.op = "refresh" /\ r.tab # t
          \/ ~\E j \in DOMAIN tokens :
                /\ Usable(j) /\ tokens[j].session = tokens[i].session
                /\ "refresh" \notin tokens[j].amid

NoSpuriousLogout == [][GivesUpRightly]_vars

\* A call that waits for a refresh is waiting for one that is under way: nobody
\* is left behind by a refresh that has ended.
NobodyWaitsInVain ==
  \A c \in Calls :
    call[c].at = "waiting" =>
      LET p == refreshing[call[c].tab]
      IN  p # NoRefresh /\ request[p].op = "refresh" /\ request[p].tab = call[c].tab

\* A session is one chain of refresh tokens, and what ends it ends the chain.
SessionsHold == TypeOK /\ OneTokenPerSession /\ LogoutEndsSession

\* A new password ends what the old one started, and reset links work once.
CredentialsHold ==
  PasswordEndsSessions /\ PasswordEndsAccess /\ LinkUsedOnce /\ NewestLinkOnly

=============================================================================
