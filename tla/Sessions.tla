------------------------------ MODULE Sessions ------------------------------
(***************************************************************************)
(* Logins, refresh tokens, password changes and resets of one account      *)
(* (auth.service.ts, users.service.ts, jwt.strategy.ts).                   *)
(*                                                                         *)
(* A session is a chain of refresh tokens, each replacing the one before,  *)
(* and the access tokens signed along the way, which carry the             *)
(* tokenVersion the account had when it was read.  A password change       *)
(* revokes the refresh tokens and bumps tokenVersion; nothing locks the    *)
(* account while it does.                                                  *)
(*                                                                         *)
(* A password is the request that set it.  A token keeps the password its  *)
(* session logged in with: the code stores no such field, the properties   *)
(* are about it.                                                           *)
(***************************************************************************)
EXTENDS Integers, Sequences, FiniteSets

CONSTANTS
  Calls,        \* calls of apiFetch(), each of which may have to refresh
  MaxBegun,     \* bound on calls and other requests together
  Tabs,         \* tabs of the user's browser
  NoTab,        \* a request from somewhere else
  MaxFailures   \* bound on requests that fail half way

ASSUME SessionsAssumption ==
  /\ Calls \cap Nat = {} /\ NoTab \notin Tabs
  /\ MaxBegun \in Nat /\ MaxFailures \in Nat

\* Requests are numbered in the order they begin.
Requests == 1 .. MaxBegun

Senders == Requests \cup Calls

First == 0   \* stands for the request that set the initial password

VARIABLES
  user,      \* the account: does it exist, its password and tokenVersion
  tokens,    \* the refresh tokens, in the order they were inserted
  issued,    \* the access tokens signed so far
  resets,    \* the password reset links, in the order they were inserted
  request,   \* what a handler has in memory
  amid,      \* history: the op and tab of what each handler under way overlapped with
  failures

server == <<user, tokens, issued, resets, failures>>

NoAccess == [version |-> -1, password |-> First, amid |-> {}, expired |-> FALSE]

\* op, the step it is at, the tab that waits for the answer, the refresh token
\* in the cookie, the access token in the header, the account as it was read,
\* the reset link, the session and the password it logged in with, and the
\* access token to be returned.  amid: what the session's requests overlapped with.
Idle == [op |-> "none", at |-> "begin", tab |-> NoTab, token |-> 0,
         access |-> NoAccess, version |-> 0, reset |-> 0, session |-> First,
         password |-> First, amid |-> {}]

Done == [Idle EXCEPT !.op = "done"]

Becomes(p, q) == request' = [request EXCEPT ![p] = q]

GoTo(p, step) == Becomes(p, [request[p] EXCEPT !.at = step])

At(p, op, step) == request[p].op = op /\ request[p].at = step

\* The next request to begin.
Fresh(p) == p \in Requests /\ p = Cardinality({r \in Requests : request[r] # Idle}) + 1

Active(p) == request[p] \notin {Idle, Done}

\* The answer: a tab still has to receive it.
Respond(p, answer) ==
  Becomes(p, IF request[p].tab = NoTab THEN Done
             ELSE [request[p] EXCEPT !.at = answer])

\* Neither revoked nor deleted.  A token is as good as revoked when its seven days
\* are over.
Usable(i) == i \in DOMAIN tokens /\ tokens[i].status = "live"

\* JwtStrategy.validate(): the account exists and has the token's version.
\* passport has checked the expiry before.
Accepts(access) ==
  ~access.expired /\ user.exists /\ access.version = user.version

\* What the handler p has overlapped with so far.
Ops(p) == {r.op : r \in amid[p]}

-----------------------------------------------------------------------------
(* login(), and generateTokenPair(), which refresh() shares.               *)

\* findByUsername() and bcrypt.compare() look at one copy of the account.
BeginLogin(p, tab) ==
  /\ Fresh(p)
  /\ user.exists
  /\ Becomes(p, [Idle EXCEPT !.op = "login", !.at = "insert", !.tab = tab,
                   !.version = user.version, !.session = p,
                   !.password = user.password])
  /\ UNCHANGED server

Insert(p) ==
  LET q == request[p]
      overlapped == q.amid \cup Ops(p)
      access == [version |-> q.version, password |-> q.password,
                 amid |-> overlapped, expired |-> FALSE]
  IN
  /\ q.at = "insert" /\ q.op \in {"login", "refresh"}
  /\ tokens' = Append(tokens, [status |-> "live",
                               session |-> q.session, password |-> q.password,
                               amid |-> overlapped])
  /\ issued' = issued \cup {access}
  /\ Becomes(p, IF q.tab = NoTab THEN Done
                ELSE [q EXCEPT !.at = "ok", !.access = access,
                               !.token = Len(tokens) + 1])
  /\ UNCHANGED <<user, resets, failures>>

-----------------------------------------------------------------------------
(* refresh(): find the token, read the account, revoke, insert.            *)

RefreshFind(p) ==
  /\ At(p, "refresh", "find")
  /\ IF Usable(request[p].token) THEN GoTo(p, "user") ELSE Respond(p, "refused")
  /\ UNCHANGED server

\* (Mutant: the new token does not continue the session.)
RefreshUserBare(p) ==
  /\ At(p, "refresh", "user")
  /\ IF user.exists
     THEN Becomes(p, [request[p] EXCEPT !.at = "revoke", !.version = user.version])
     ELSE Respond(p, "refused")
  /\ UNCHANGED server

RefreshUser(p) ==
  LET q == request[p] IN
  /\ At(p, "refresh", "user")
  /\ IF user.exists
     THEN Becomes(p, [q EXCEPT !.at = "revoke", !.version = user.version,
                               !.session = tokens[q.token].session,
                               !.password = tokens[q.token].password,
                               !.amid = tokens[q.token].amid])
     ELSE Respond(p, "refused")
  /\ UNCHANGED server

\* (Mutant: the replaced token is not revoked.)
RefreshRevokeNever(p) ==
  /\ At(p, "refresh", "revoke")
  /\ GoTo(p, "insert")
  /\ UNCHANGED server

\* save() by id: it does not ask whether the token was revoked meanwhile, but
\* throws when it was deleted.
RefreshRevoke(p) ==
  LET i == request[p].token IN
  /\ At(p, "refresh", "revoke")
  /\ IF tokens[i].status = "gone"
     THEN Respond(p, "refused") /\ UNCHANGED tokens
     ELSE tokens' = [tokens EXCEPT ![i].status = "revoked"] /\ GoTo(p, "insert")
  /\ UNCHANGED <<user, issued, resets, failures>>

-----------------------------------------------------------------------------
(* logout(), behind JwtAuthGuard.                                          *)

LogoutGuard(p) ==
  LET q == request[p] IN
  /\ At(p, "logout", "guard")
  /\ IF ~Accepts(q.access) THEN Respond(p, "refused")
     ELSE IF q.token = 0 THEN Respond(p, "ok")
     ELSE GoTo(p, "revoke")
  /\ UNCHANGED server

\* (Mutant: the refresh token outlives the logout.)
LogoutRevokeNever(p) ==
  /\ At(p, "logout", "revoke")
  /\ Becomes(p, [request[p] EXCEPT !.at = "bump"])
  /\ UNCHANGED server

LogoutRevoke(p) ==
  LET i == request[p].token IN
  /\ At(p, "logout", "revoke")
  /\ tokens' = IF tokens[i].status = "live"
               THEN [tokens EXCEPT ![i].status = "revoked"] ELSE tokens
  /\ GoTo(p, "bump")
  /\ UNCHANGED <<user, issued, resets, failures>>

\* (Mutant: access tokens outlive a logout or a reset.)
BumpNever(p) ==
  /\ request[p].at = "bump"
  /\ Respond(p, "ok")
  /\ UNCHANGED server

\* incrementTokenVersion(): $inc, the last step of logout() and resetPassword().
Bump(p) ==
  /\ request[p].at = "bump"
  /\ user' = IF user.exists THEN [user EXCEPT !.version = @ + 1] ELSE user
  /\ Respond(p, "ok")
  /\ UNCHANGED <<tokens, issued, resets, failures>>

-----------------------------------------------------------------------------
(* changePassword().                                                       *)

\* Some client with a valid access token, and the current password.
BeginChange(p) ==
  /\ Fresh(p)
  /\ \E access \in issued : Accepts(access)
  /\ Becomes(p, [Idle EXCEPT !.op = "change", !.at = "save",
                             !.version = user.version])
  /\ UNCHANGED server

\* save() of the copy read before hashing: tokenVersion is set, not incremented.
ChangeSave(p) ==
  /\ At(p, "change", "save")
  /\ IF user.exists
     THEN /\ user' = [user EXCEPT !.password = p, !.version = request[p].version + 1]
          /\ GoTo(p, "revokeAll")
     ELSE Respond(p, "refused") /\ UNCHANGED user
  /\ UNCHANGED <<tokens, issued, resets, failures>>

\* (Mutant: the other sessions go on.)
RevokeAllNever(p) ==
  /\ request[p].at = "revokeAll"
  /\ IF request[p].op = "reset" THEN GoTo(p, "bump") ELSE Respond(p, "ok")
  /\ UNCHANGED server

RevokeAll(p) ==
  /\ request[p].at = "revokeAll"
  /\ tokens' = [i \in DOMAIN tokens |->
                  IF tokens[i].status = "live"
                  THEN [tokens[i] EXCEPT !.status = "revoked"] ELSE tokens[i]]
  /\ IF request[p].op = "reset" THEN GoTo(p, "bump") ELSE Respond(p, "ok")
  /\ UNCHANGED <<user, issued, resets, failures>>

-----------------------------------------------------------------------------
(* forgotPassword() and resetPassword().                                   *)

BeginForgot(p) ==
  /\ Fresh(p)
  /\ user.exists
  /\ Becomes(p, [Idle EXCEPT !.op = "forgot", !.at = "supersede"])
  /\ UNCHANGED server

\* (Mutant: earlier links stay valid.)
SupersedeNever(p) ==
  /\ At(p, "forgot", "supersede")
  /\ GoTo(p, "insert")
  /\ UNCHANGED server

Supersede(p) ==
  /\ At(p, "forgot", "supersede")
  /\ resets' = [i \in DOMAIN resets |-> [resets[i] EXCEPT !.used = TRUE]]
  /\ GoTo(p, "insert")
  /\ UNCHANGED <<user, tokens, issued, failures>>

InsertReset(p) ==
  /\ At(p, "forgot", "insert")
  /\ resets' = Append(resets, [used |-> FALSE, expired |-> FALSE,
                               amid |-> Ops(p), saves |-> 0])
  /\ Respond(p, "ok")
  /\ UNCHANGED <<user, tokens, issued, failures>>

BeginReset(p, i) ==
  /\ Fresh(p)
  /\ i \in DOMAIN resets /\ ~resets[i].used /\ ~resets[i].expired
  /\ Becomes(p, [Idle EXCEPT !.op = "reset", !.at = "user", !.reset = i])
  /\ UNCHANGED server

ResetUser(p) ==
  /\ At(p, "reset", "user")
  /\ IF user.exists THEN GoTo(p, "save") ELSE Respond(p, "refused")
  /\ UNCHANGED server

ResetSave(p) ==
  /\ At(p, "reset", "save")
  /\ IF user.exists
     THEN /\ user' = [user EXCEPT !.password = p]
          /\ resets' = [resets EXCEPT ![request[p].reset].saves = @ + 1,
                                  ![request[p].reset].amid = @ \cup Ops(p)]
          /\ GoTo(p, "mark")
     ELSE Respond(p, "refused") /\ UNCHANGED <<user, resets>>
  /\ UNCHANGED <<tokens, issued, failures>>

\* (Mutant: the link is not spent.)
MarkNever(p) ==
  /\ At(p, "reset", "mark")
  /\ GoTo(p, "revokeAll")
  /\ UNCHANGED server

Mark(p) ==
  /\ At(p, "reset", "mark")
  /\ resets' = [resets EXCEPT ![request[p].reset].used = TRUE]
  /\ GoTo(p, "revokeAll")
  /\ UNCHANGED <<user, tokens, issued, failures>>

-----------------------------------------------------------------------------
(* The end of an account, of tokens, of a process.                         *)

\* An administrator deletes the account: remove() takes the account, then its
\* tokens.
BeginDelete(p) ==
  /\ Fresh(p)
  /\ user.exists
  /\ user' = [user EXCEPT !.exists = FALSE]
  /\ Becomes(p, [Idle EXCEPT !.op = "delete", !.at = "dropTokens"])
  /\ UNCHANGED <<tokens, issued, resets, failures>>

DropTokens(p) ==
  /\ At(p, "delete", "dropTokens")
  /\ tokens' = [i \in DOMAIN tokens |-> [tokens[i] EXCEPT !.status = "gone"]]
  /\ Respond(p, "ok")
  /\ UNCHANGED <<user, issued, resets, failures>>

\* An hour passes for a link.
ExpireLink(i) ==
  /\ i \in DOMAIN resets /\ ~resets[i].used /\ ~resets[i].expired
  /\ resets' = [resets EXCEPT ![i].expired = TRUE]
  /\ UNCHANGED <<user, tokens, issued, request, failures>>

\* A refresh fails: a database call throws, the process dies, or the answer is
\* lost.  (Any other handler that dies is one that takes no further step.)
Fails(p) ==
  /\ request[p].op = "refresh" /\ request[p].at # "refused"
  /\ failures < MaxFailures
  /\ failures' = failures + 1
  /\ Respond(p, "refused")
  /\ UNCHANGED <<user, tokens, issued, resets>>

\* What a handler does once it has begun.
Handle(p) ==
  \/ Insert(p) \/ RefreshFind(p) \/ RefreshUser(p) \/ RefreshRevoke(p)
  \/ LogoutGuard(p) \/ LogoutRevoke(p) \/ Bump(p)
  \/ ChangeSave(p) \/ RevokeAll(p)
  \/ Supersede(p) \/ InsertReset(p)
  \/ ResetUser(p) \/ ResetSave(p) \/ Mark(p)
  \/ DropTokens(p)

\* What begins somewhere else than in the tabs.
BeginElsewhere(p) ==
  \/ BeginLogin(p, NoTab) \/ BeginChange(p) \/ BeginForgot(p)
  \/ \E i \in DOMAIN resets : BeginReset(p, i)
  \/ BeginDelete(p)

-----------------------------------------------------------------------------
(* Properties.                                                             *)

SettingPassword(p) == request[p].op \in {"change", "reset"}

\* A changed or reset password ends every session that logged in with an older
\* one, once no handler that sets a password is under way (or has died half way),
\* except one that logged in or refreshed while a change was.
PasswordEndsSessions ==
  \A i \in DOMAIN tokens :
    Usable(i) /\ user.exists =>
      \/ tokens[i].password = user.password
      \/ tokens[i].amid \cap {"change", "reset"} # {}
      \/ \E p \in Requests : SettingPassword(p)

\* No access token signed for an older password is accepted, with the same
\* exceptions: a version is never handed out twice.
PasswordEndsAccess ==
  \A access \in issued :
    Accepts(access) =>
      \/ access.password = user.password
      \/ access.amid \cap {"change", "reset", "logout"} # {}
      \/ \E p \in Requests : SettingPassword(p)

\* Each refresh token is replaced by one: no session splits in two, unless two
\* tabs refreshed at once.
OneTokenPerSession ==
  \A i, j \in DOMAIN tokens :
    /\ i # j /\ Usable(i) /\ Usable(j) /\ tokens[i].session = tokens[j].session
    => "refresh" \in tokens[i].amid

\* A reset link sets one password, unless it is submitted twice at once.
LinkUsedOnce ==
  \A i \in DOMAIN resets :
    resets[i].saves > 1 => "reset" \in resets[i].amid

\* Only the newest reset link works, unless two were requested at once.
NewestLinkOnly ==
  \A i, j \in DOMAIN resets :
    i < j /\ ~resets[i].used /\ ~resets[j].used =>
      "forgot" \in resets[i].amid \cup resets[j].amid
=============================================================================
