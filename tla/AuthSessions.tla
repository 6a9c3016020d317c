---------------------------- MODULE AuthSessions ----------------------------
(***************************************************************************)
(* The credential chain of apps/auth: a browser's SSO session yields       *)
(* one-time authorization codes, a code opens one application session, and *)
(* a session carries a chain of single-use refresh tokens.  Requests run   *)
(* concurrently in Worker invocations; the database executes one statement *)
(* at a time, so every action below is one D1 statement of one invocation  *)
(* together with the pure code that follows it, up to the next `await` on  *)
(* the database.  An invocation may also be cut short between any two.     *)
(*                                                                         *)
(* Clocks are abstracted: a row's expiry passes at a moment of its own.    *)
(***************************************************************************)
CONSTANTS
    Users,      \* accounts (rows of `users`)
    Clients,    \* registered applications
    Ssos,       \* identifiers of SSO sessions (the cookie a browser holds)
    Codes,      \* identifiers of authorization codes
    Sessions,   \* identifiers of application sessions
    Tokens,     \* identifiers of refresh tokens
    Reqs,       \* HTTP requests, each served by one Worker invocation
    None,       \* the absent value
    Duty,       \* bound: the endpoints each request may be sent to
    MayFail,    \* bound: the requests whose invocation may be cut short
    MayExpire   \* bound: the codes, tokens and SSO sessions whose time can run out

Kinds == {"signIn", "authorize", "exchange", "refresh", "access",
          "revoke", "prune", "logout", "sweep", "disable", "enable"}

ASSUME NoneAssumption ==
    /\ None \notin Users \cup Clients \cup Ssos \cup Codes \cup Sessions \cup Tokens
    /\ Codes \cap Tokens = {}
ASSUME DutyAssumption == Duty \in [Reqs -> SUBSET Kinds]

VARIABLES
    status,     \* users.status
    sso,        \* table sso_sessions
    code,       \* table authorization_codes
    session,    \* table sessions
    token,      \* table refresh_tokens
    req,        \* the invocations: which endpoint, how far, with what in hand
    wire,       \* codes and refresh tokens that reached a client in a response
    barred      \* history: why a request must fail, see Bar

tables == <<sso, code, session, token>>
vars == <<status, tables, req, wire, barred>>

-----------------------------------------------------------------------------
(* Rows.  An identifier without a row has the absent row. *)

Statuses == {"active", "disabled"}
SsoRow == [user : Users \cup {None}, revoked : BOOLEAN, expired : BOOLEAN]
CodeRow == [user : Users \cup {None}, client : Clients \cup {None},
            consumed : BOOLEAN, expired : BOOLEAN]
\* `code` is history: the authorization code the session was opened from.
SessionRow == [user : Users \cup {None}, client : Clients \cup {None},
               code : Codes \cup {None}, revoked : BOOLEAN]
TokenRow == [session : Sessions \cup {None}, parent : Tokens \cup {None},
             used : BOOLEAN, revoked : BOOLEAN, expired : BOOLEAN]

NoSso == [user |-> None, revoked |-> FALSE, expired |-> FALSE]
NoCode == [user |-> None, client |-> None, consumed |-> FALSE, expired |-> FALSE]
NoSession == [user |-> None, client |-> None, code |-> None, revoked |-> FALSE]
NoToken == [session |-> None, parent |-> None,
            used |-> FALSE, revoked |-> FALSE, expired |-> FALSE]

Stages == {"idle", "account", "rotate", "startSso", "mint", "consume", "open",
           "check", "mark", "issue", "respond", "actor", "patch", "list",
           "row", "chain", "ended", "closeSso", "done"}
Outcomes == {"none", "code", "tokens", "granted", "refused", "reuse", "ok", "failed"}

\* What an invocation has in its local variables.
Request == [kind : Kinds \cup {"none"}, stage : Stages, outcome : Outcomes,
            user : Users \cup {None}, client : Clients \cup {None},
            sso : Ssos \cup {None}, code : Codes \cup {None},
            session : Sessions \cup {None}, token : Tokens \cup {None},
            issued : Tokens \cup {None}, targets : SUBSET Sessions]

NoRequest == [kind |-> "none", stage |-> "idle", outcome |-> "none",
              user |-> None, client |-> None, sso |-> None, code |-> None,
              session |-> None, token |-> None, issued |-> None, targets |-> {}]

TypeOK ==
    /\ status \in [Users -> Statuses]
    /\ sso \in [Ssos -> SsoRow]
    /\ code \in [Codes -> CodeRow]
    /\ session \in [Sessions -> SessionRow]
    /\ token \in [Tokens -> TokenRow]
    /\ req \in [Reqs -> Request]
    /\ wire \subseteq Codes \cup Tokens
    /\ barred \in [Reqs -> SUBSET {"revoked", "disabled"}]

SsoLive(k) == sso[k].user # None /\ ~sso[k].revoked /\ ~sso[k].expired
Opened(s) == session[s].user # None
Issued(t) == token[t].session # None
Live(s) == Opened(s) /\ ~session[s].revoked
\* An access token naming s is handed out with each refresh token of s.
HasBearer(s) == \E t \in wire \cap Tokens : token[t].session = s

-----------------------------------------------------------------------------
(* Moving an invocation along.  An operator Faulty<Name> before a definition <Name> is *)
(* the definition with a defect: no action uses it, the properties are checked to fail *)
(* when it takes the place of <Name>.                                                 *)

Idle(r, kind) == req[r].stage = "idle" /\ kind \in Duty[r]
At(r, stage) == req[r].stage = stage
Goto(r, stage) == req' = [req EXCEPT ![r].stage = stage]
End(r, outcome) ==
    req' = [req EXCEPT ![r] = [@ EXCEPT !.stage = "done", !.outcome = outcome]]

\* History: why a request, as it begins, must get nothing: its credential is already
\* revoked, or its account is disabled.  Re-enabling the account lifts the second
\* reason (see Patch).
Bar(r, revoked, disabled) ==
    barred' = [barred EXCEPT ![r] = {why \in {"revoked", "disabled"} :
                                        \/ why = "revoked" /\ revoked
                                        \/ why = "disabled" /\ disabled}]

-----------------------------------------------------------------------------
(* Signing in, and authorizing an application from an SSO session. *)

\* A provider proved that the person is u; the browser may hold the cookie k.
BeginSignIn(r) ==
    /\ Idle(r, "signIn")
    /\ \E u \in Users, a \in Clients, k \in Ssos \cup {None} :
        /\ k # None => sso[k].user # None
        /\ req' = [req EXCEPT ![r] = [@ EXCEPT !.kind = "signIn", !.stage = "account",
                                               !.user = u, !.client = a, !.sso = k]]
        /\ Bar(r, FALSE, status[u] = "disabled")
    /\ UNCHANGED <<status, tables, wire>>

\* The user is let into application a on the strength of the cookie k alone.
BeginAuthorize(r) ==
    /\ Idle(r, "authorize")
    /\ \E a \in Clients, k \in Ssos :
        /\ sso[k].user # None
        /\ LET started == [req[r] EXCEPT !.kind = "authorize", !.user = sso[k].user,
                                         !.client = a, !.sso = k]
           IN  \/ /\ SsoLive(k)
                  /\ req' = [req EXCEPT ![r] = [started EXCEPT !.stage = "account"]]
               \/ /\ ~SsoLive(k)
                  /\ req' = [req EXCEPT ![r] = [started EXCEPT !.stage = "done",
                                                               !.outcome = "refused"]]
        /\ Bar(r, sso[k].revoked, status[sso[k].user] = "disabled")
    /\ UNCHANGED <<status, tables, wire>>

\* Where each kind of request goes on once findUserById returned an active account.
FaultyOnActive == [signIn |-> "rotate", authorize |-> "mint", exchange |-> "open",
                   refresh |-> "issue", access |-> "granted"]
OnActive == [signIn |-> "rotate", authorize |-> "mint", exchange |-> "open",
             refresh |-> "issue", access |-> "actor"]

FaultyAccountActive(u) == TRUE
AccountActive(u) == status[u] = "active"

ReadAccount(r) ==
    /\ At(r, "account")
    /\ \/ /\ AccountActive(req[r].user)
          /\ Goto(r, OnActive[req[r].kind])
       \/ /\ ~AccountActive(req[r].user)
          /\ End(r, "refused")
    /\ UNCHANGED <<status, tables, wire, barred>>

\* readSsoSession: the cookie names a live session of an active account.
Resolves(k) == k # None /\ SsoLive(k) /\ AccountActive(sso[k].user)

\* startSsoSession revokes the session the browser already held, if it still resolves.
\* The read of the cookie and the update after it are one step here: the update asks
\* nothing of the row but that it exists, and no row is ever removed.
RotateCookie(r) ==
    /\ At(r, "rotate")
    /\ LET k == req[r].sso
       IN  \/ /\ Resolves(k)
              /\ sso' = [sso EXCEPT ![k].revoked = TRUE]
           \/ /\ ~Resolves(k)
              /\ UNCHANGED sso
    /\ Goto(r, "startSso")
    /\ UNCHANGED <<status, code, session, token, wire, barred>>

StartSso(r) ==
    /\ At(r, "startSso")
    /\ \E k \in Ssos :
        /\ sso[k].user = None
        /\ sso' = [sso EXCEPT ![k] = [NoSso EXCEPT !.user = req[r].user]]
        /\ req' = [req EXCEPT ![r] = [@ EXCEPT !.stage = "mint", !.sso = k]]
    /\ UNCHANGED <<status, code, session, token, wire, barred>>

IssueAuthorizationCode(r) ==
    /\ At(r, "mint")
    /\ \E c \in Codes :
        /\ code[c].user = None
        /\ code' = [code EXCEPT ![c] = [NoCode EXCEPT !.user = req[r].user,
                                                      !.client = req[r].client]]
        /\ req' = [req EXCEPT ![r] = [@ EXCEPT !.stage = "respond", !.code = c]]
    /\ UNCHANGED <<status, sso, session, token, wire, barred>>

-----------------------------------------------------------------------------
(* POST /oauth/token, grant_type authorization_code. *)

BeginExchange(r) ==
    /\ Idle(r, "exchange")
    /\ \E c \in wire \cap Codes, a \in Clients :
        /\ code[c].user # None
        /\ LET started == [req[r] EXCEPT !.kind = "exchange", !.client = a,
                                         !.code = c, !.user = code[c].user]
           IN  \/ /\ ~code[c].expired
                  /\ req' = [req EXCEPT ![r] = [started EXCEPT !.stage = "consume"]]
               \/ /\ code[c].expired
                  /\ req' = [req EXCEPT ![r] = [started EXCEPT !.stage = "done",
                                                               !.outcome = "refused"]]
        /\ Bar(r, FALSE, status[code[c].user] = "disabled")
    /\ UNCHANGED <<status, tables, wire>>

FaultyUnconsumed(c) == TRUE
Unconsumed(c) == ~code[c].consumed

\* The code or the token in hand was issued to the client that presents it.
FaultySameClient(r, owner) == TRUE
SameClient(r, owner) == req[r].client = owner

\* UPDATE ... WHERE consumed_at IS NULL, then the checks that fail closed: the code
\* must belong to this client, and redirect_uri and code_verifier must match.
ConsumeAuthorizationCode(r) ==
    /\ At(r, "consume")
    /\ LET c == req[r].code
       IN  \/ /\ Unconsumed(c)
              /\ code' = [code EXCEPT ![c].consumed = TRUE]
              /\ \E proven \in BOOLEAN :
                   \/ /\ proven /\ SameClient(r, code[c].client)
                      /\ Goto(r, "account")
                   \/ /\ ~(proven /\ SameClient(r, code[c].client))
                      /\ End(r, "refused")
           \/ /\ ~Unconsumed(c)
              /\ End(r, "refused")
              /\ UNCHANGED code
    /\ UNCHANGED <<status, sso, session, token, wire, barred>>

CreateSession(r) ==
    /\ At(r, "open")
    /\ \E s \in Sessions :
        /\ ~Opened(s)
        /\ session' = [session EXCEPT ![s] = [NoSession EXCEPT !.user = req[r].user,
                                                               !.client = req[r].client,
                                                               !.code = req[r].code]]
        /\ req' = [req EXCEPT ![r] = [@ EXCEPT !.stage = "issue", !.session = s]]
    /\ UNCHANGED <<status, sso, code, token, wire, barred>>

-----------------------------------------------------------------------------
(* POST /oauth/token, grant_type refresh_token. *)

\* A spent token was presented: the request turns into the revocation of its session.
FaultyReuse(q, s) == [q EXCEPT !.stage = "done", !.outcome = "refused"]
Reuse(q, s) == [q EXCEPT !.stage = "row", !.targets = {s}]

\* SELECT the token: a used one starts revokeSession, the others are judged in order.
BeginRefresh(r) ==
    /\ Idle(r, "refresh")
    /\ \E t \in wire \cap Tokens, a \in Clients :
        LET s == token[t].session
            started == [req[r] EXCEPT !.kind = "refresh", !.client = a, !.token = t,
                                      !.session = s, !.user = session[s].user]
        IN  /\ Issued(t)
            /\ \/ /\ token[t].used
                  /\ req' = [req EXCEPT ![r] = Reuse(started, s)]
               \/ /\ ~token[t].used
                  /\ token[t].revoked \/ token[t].expired
                  /\ req' = [req EXCEPT ![r] = [started EXCEPT !.stage = "done",
                                                               !.outcome = "refused"]]
               \/ /\ ~token[t].used /\ ~token[t].revoked /\ ~token[t].expired
                  /\ req' = [req EXCEPT ![r] = [started EXCEPT !.stage = "check"]]
            /\ Bar(r, session[s].revoked, status[session[s].user] = "disabled")
    /\ UNCHANGED <<status, tables, wire>>

FaultyNotRevoked(s) == TRUE
NotRevoked(s) == ~session[s].revoked

CheckSession(r) ==
    /\ At(r, "check")
    /\ \/ /\ ~NotRevoked(req[r].session)
          /\ End(r, "refused")
       \/ /\ NotRevoked(req[r].session)
          /\ Goto(r, "mark")
    /\ UNCHANGED <<status, tables, wire, barred>>

FaultyUnused(t) == TRUE
Unused(t) == ~token[t].used

\* UPDATE ... WHERE used_at IS NULL; losing that race is reuse.  The client check
\* comes after it.
MarkUsed(r) ==
    /\ At(r, "mark")
    /\ LET t == req[r].token
           s == req[r].session
       IN  \/ /\ Unused(t)
              /\ token' = [token EXCEPT ![t].used = TRUE]
              /\ \/ /\ SameClient(r, session[s].client)
                    /\ Goto(r, "account")
                 \/ /\ ~SameClient(r, session[s].client)
                    /\ End(r, "refused")
           \/ /\ ~Unused(t)
              /\ req' = [req EXCEPT ![r] = Reuse(@, s)]
              /\ UNCHANGED token
    /\ UNCHANGED <<status, sso, code, session, wire, barred>>

\* buildTokenResponse: the next refresh token of the chain.
IssueRefreshToken(r) ==
    /\ At(r, "issue")
    /\ \E t \in Tokens :
        /\ ~Issued(t)
        /\ token' = [token EXCEPT ![t] = [NoToken EXCEPT !.session = req[r].session,
                                                         !.parent = req[r].token]]
        /\ req' = [req EXCEPT ![r] = [@ EXCEPT !.stage = "respond", !.issued = t]]
    /\ UNCHANGED <<status, sso, code, session, wire, barred>>

\* The response leaves, and with it the code or the token.
Respond(r) ==
    /\ At(r, "respond")
    /\ \/ /\ req[r].kind \in {"signIn", "authorize"}
          /\ wire' = wire \cup {req[r].code}
          /\ End(r, "code")
       \/ /\ req[r].kind \in {"exchange", "refresh"}
          /\ wire' = wire \cup {req[r].issued}
          /\ End(r, "tokens")
    /\ UNCHANGED <<status, tables, barred>>

-----------------------------------------------------------------------------
(* Any endpoint behind requireAuth, called with an access token of session s. *)

BeginAccess(r) ==
    /\ Idle(r, "access")
    /\ \E s \in Sessions :
        /\ HasBearer(s)
        /\ req' = [req EXCEPT ![r] = [@ EXCEPT !.kind = "access", !.stage = "account",
                                               !.session = s, !.user = session[s].user]]
        /\ Bar(r, session[s].revoked, status[session[s].user] = "disabled")
    /\ UNCHANGED <<status, tables, wire>>

RequireLiveSession(r) ==
    /\ At(r, "actor")
    /\ \/ /\ ~NotRevoked(req[r].session)
          /\ End(r, "refused")
       \/ /\ NotRevoked(req[r].session)
          /\ End(r, "granted")
    /\ UNCHANGED <<status, tables, wire, barred>>

-----------------------------------------------------------------------------
(* Revocation: its callers, then revokeSession's two statements. *)

\* /oauth/revoke with either kind of token, DELETE /me/sessions/:id, POST /logout,
\* DELETE /admin/sessions/:id.
BeginRevoke(r) ==
    /\ Idle(r, "revoke")
    /\ \E s \in Sessions :
        /\ Opened(s)
        /\ req' = [req EXCEPT ![r] = [@ EXCEPT !.kind = "revoke", !.stage = "row",
                                               !.targets = {s}]]
    /\ UNCHANGED <<status, tables, wire, barred>>

\* POST /me/sessions/prune: live sessions of the account the rules select (AuthPrune says
\* which), never the one the caller is using.
BeginPrune(r) ==
    /\ Idle(r, "prune")
    /\ \E current \in Sessions :
        /\ HasBearer(current) /\ Live(current)
        /\ \E doomed \in SUBSET {s \in Sessions : Live(s) /\ s # current
                                               /\ session[s].user = session[current].user} :
            /\ doomed # {}
            /\ req' = [req EXCEPT ![r] = [@ EXCEPT !.kind = "prune", !.stage = "row",
                                                   !.targets = doomed]]
    /\ UNCHANGED <<status, tables, wire, barred>>

\* RP-initiated logout: the session the hint names, if live, and the browser's cookie.
BeginLogout(r) ==
    /\ Idle(r, "logout")
    /\ \E hint \in {s \in Sessions : Opened(s)} \cup {None},
          k \in {x \in Ssos : sso[x].user # None} \cup {None} :
        LET ended == {s \in {hint} \cap Sessions : Live(s)}
        IN  req' = [req EXCEPT ![r] =
                      [@ EXCEPT !.kind = "logout", !.sso = k, !.targets = ended,
                                !.stage = IF ended = {} THEN "closeSso" ELSE "row"]]
    /\ UNCHANGED <<status, tables, wire, barred>>

\* DELETE /admin/users/:id/sessions.
BeginSweep(r) ==
    /\ Idle(r, "sweep")
    /\ \E u \in Users :
        req' = [req EXCEPT ![r] = [@ EXCEPT !.kind = "sweep", !.stage = "list", !.user = u]]
    /\ UNCHANGED <<status, tables, wire, barred>>

\* PATCH /admin/users/:id; asking for the status the account has is a no-op.
BeginPatch(r) ==
    /\ \E u \in Users :
        \/ /\ Idle(r, "disable") /\ status[u] = "active"
           /\ req' = [req EXCEPT ![r] = [@ EXCEPT !.kind = "disable", !.stage = "patch",
                                                  !.user = u]]
        \/ /\ Idle(r, "enable") /\ status[u] = "disabled"
           /\ req' = [req EXCEPT ![r] = [@ EXCEPT !.kind = "enable", !.stage = "patch",
                                                  !.user = u]]
    /\ UNCHANGED <<status, tables, wire, barred>>

\* UPDATE users SET status, unguarded.
Patch(r) ==
    /\ At(r, "patch")
    /\ \/ /\ req[r].kind = "disable"
          /\ status' = [status EXCEPT ![req[r].user] = "disabled"]
          /\ Goto(r, "list")
          /\ UNCHANGED barred
       \/ /\ req[r].kind = "enable"
          /\ status' = [status EXCEPT ![req[r].user] = "active"]
          /\ barred' = [x \in Reqs |-> IF req[x].user = req[r].user
                                       THEN barred[x] \ {"disabled"} ELSE barred[x]]
          /\ End(r, "ok")
    /\ UNCHANGED <<tables, wire>>

\* Where a request goes on once it has revoked all it set out to revoke.
FaultyAfterRevoking == [refresh |-> "ended", revoke |-> "ended", prune |-> "ended",
                        sweep |-> "ended", disable |-> "ended", logout |-> "closeSso"]
AfterRevoking == [refresh |-> "ended", revoke |-> "ended", prune |-> "ended",
                  sweep |-> "ended", disable |-> "closeSso", logout |-> "closeSso"]

\* SELECT every session of the account, revoked ones included.
ListSessions(r) ==
    /\ At(r, "list")
    /\ LET all == {s \in Sessions : session[s].user = req[r].user}
       IN  req' = [req EXCEPT ![r] =
                     [@ EXCEPT !.targets = all,
                               !.stage = IF all # {} THEN "row" ELSE AfterRevoking[req[r].kind]]]
    /\ UNCHANGED <<status, tables, wire, barred>>

\* revokeSession, first statement: the session row.
RevokeSessionRow(r) ==
    /\ At(r, "row")
    /\ \E s \in req[r].targets :
        /\ session' = [session EXCEPT ![s].revoked = TRUE]
        /\ req' = [req EXCEPT ![r] = [@ EXCEPT !.stage = "chain", !.session = s]]
    /\ UNCHANGED <<status, sso, code, token, wire, barred>>

\* revokeSession, second statement: the tokens of its rotation chain.
RevokeTokenRows(r) ==
    /\ At(r, "chain")
    /\ LET s == req[r].session
           left == req[r].targets \ {s}
       IN  /\ token' = [t \in Tokens |->
                          IF token[t].session = s THEN [token[t] EXCEPT !.revoked = TRUE]
                          ELSE token[t]]
           /\ req' = [req EXCEPT ![r] =
                        [@ EXCEPT !.targets = left,
                                  !.stage = IF left # {} THEN "row" ELSE AfterRevoking[req[r].kind]]]
    /\ UNCHANGED <<status, sso, code, session, wire, barred>>

\* The answer: for a refresh the error that reports the reuse.
AnswerRevocation(r) ==
    /\ At(r, "ended")
    /\ End(r, IF req[r].kind = "refresh" THEN "reuse" ELSE "ok")
    /\ UNCHANGED <<status, tables, wire, barred>>

\* Disabling closes every SSO session of the account in one statement; a logout the
\* one its cookie still resolves to (read and update in one step, as in RotateCookie).
CloseSsoSessions(r) ==
    /\ At(r, "closeSso")
    /\ LET closed == {k \in Ssos :
              \/ req[r].kind = "disable" /\ sso[k].user = req[r].user
              \/ req[r].kind = "logout" /\ k = req[r].sso /\ Resolves(k)}
       IN  sso' = [k \in Ssos |-> IF k \in closed /\ sso[k].user # None
                                  THEN [sso[k] EXCEPT !.revoked = TRUE] ELSE sso[k]]
    /\ End(r, "ok")
    /\ UNCHANGED <<status, code, session, token, wire, barred>>

-----------------------------------------------------------------------------
(* The environment: time runs out, an invocation is cut short. *)

ExpireSso(k) ==
    /\ k \in MayExpire /\ sso[k].user # None /\ ~sso[k].expired
    /\ sso' = [sso EXCEPT ![k].expired = TRUE]
    /\ UNCHANGED <<status, code, session, token, req, wire, barred>>

ExpireCode(c) ==
    /\ c \in MayExpire /\ code[c].user # None /\ ~code[c].expired
    /\ code' = [code EXCEPT ![c].expired = TRUE]
    /\ UNCHANGED <<status, sso, session, token, req, wire, barred>>

ExpireToken(t) ==
    /\ t \in MayExpire /\ Issued(t) /\ ~token[t].expired
    /\ token' = [token EXCEPT ![t].expired = TRUE]
    /\ UNCHANGED <<status, sso, code, session, req, wire, barred>>

Fail(r) ==
    /\ r \in MayFail /\ req[r].stage \notin {"idle", "done"}
    /\ End(r, "failed")
    /\ UNCHANGED <<status, tables, wire, barred>>

-----------------------------------------------------------------------------
Init ==
    /\ status = [u \in Users |-> "active"]
    /\ sso = [k \in Ssos |-> NoSso]
    /\ code = [c \in Codes |-> NoCode]
    /\ session = [s \in Sessions |-> NoSession]
    /\ token = [t \in Tokens |-> NoToken]
    /\ req = [r \in Reqs |-> NoRequest]
    /\ wire = {}
    /\ barred = [r \in Reqs |-> {}]

Begin(r) ==
    \/ BeginSignIn(r) \/ BeginAuthorize(r) \/ BeginExchange(r) \/ BeginRefresh(r)
    \/ BeginAccess(r) \/ BeginRevoke(r) \/ BeginPrune(r) \/ BeginLogout(r) \/ BeginSweep(r) \/ BeginPatch(r)

\* One more statement of an invocation under way.
Continue(r) ==
    \/ ReadAccount(r) \/ RotateCookie(r) \/ StartSso(r) \/ IssueAuthorizationCode(r)
    \/ ConsumeAuthorizationCode(r) \/ CreateSession(r) \/ CheckSession(r) \/ MarkUsed(r)
    \/ IssueRefreshToken(r) \/ Respond(r) \/ RequireLiveSession(r) \/ Patch(r)
    \/ ListSessions(r) \/ RevokeSessionRow(r) \/ RevokeTokenRows(r) \/ AnswerRevocation(r)
    \/ CloseSsoSessions(r)

Next ==
    \/ \E r \in Reqs : Begin(r) \/ Continue(r) \/ Fail(r)
    \/ \E k \in Ssos : ExpireSso(k)
    \/ \E c \in Codes : ExpireCode(c)
    \/ \E t \in Tokens : ExpireToken(t)

Spec == Init /\ [][Next]_vars

\* The runtime keeps serving a request it has begun; nobody has to send one.
FairSpec == Spec /\ \A r \in Reqs : WF_vars(Continue(r))

-----------------------------------------------------------------------------
(* Safety. *)

\* An authorization code opens at most one session, however many exchanges of it run
\* at the same time (tokens.ts, consumeAuthorizationCode).
OneSessionPerCode ==
    \A s1, s2 \in Sessions :
        Opened(s1) /\ Opened(s2) /\ session[s1].code = session[s2].code => s1 = s2

\* The rotation chain of a session never forks: no two of its refresh tokens are unspent
\* at the same time, in whatever order concurrent refreshes are served (tokens.ts,
\* consumeRefreshToken).
ChainNeverForks ==
    \A t1, t2 \in Tokens :
        /\ Issued(t1) /\ Issued(t2) /\ token[t1].session = token[t2].session
        /\ ~token[t1].used /\ ~token[t2].used
        => t1 = t2

\* A request that began with a credential already revoked, or for an account disabled and
\* not re-enabled since, obtains nothing: neither a code, nor tokens, nor access.  In
\* particular the token minted by a refresh that raced a revocation is worthless.
NothingForTheBarred ==
    \A r \in Reqs : barred[r] # {} => req[r].outcome \notin {"code", "tokens", "granted"}

\* When two requests that presented the same refresh token have both been answered, the
\* session is closed, or the token had simply expired: there is no interleaving in which a
\* replay goes unnoticed (tokens.ts, the comment on consumeRefreshToken).
ReplayEndsTheSession ==
    \A r1, r2 \in Reqs :
        /\ r1 # r2
        /\ \A r \in {r1, r2} : req[r].kind = "refresh" /\ req[r].stage = "done"
                               /\ req[r].outcome # "failed"
        /\ req[r1].token = req[r2].token
        => session[req[r1].session].revoked \/ token[req[r1].token].expired

\* Tokens are answered only to the client the authorization code was minted for, along
\* the whole chain from the code to the latest refresh, although both grants look at the
\* client only after they have spent the credential (token.ts).
TokensOnlyToTheirClient ==
    \A r \in Reqs : req[r].outcome = "tokens" =>
        /\ code[session[req[r].session].code].client = req[r].client
        /\ code[session[req[r].session].code].user = req[r].user

\* What PATCH /admin/users/:id says of disabling (admin/users.ts:122-123): "Disabling an
\* account revokes every session it has, so it takes effect immediately".
DisabledMeansSignedOut ==
    \A u \in Users :
        /\ status[u] = "disabled"
        /\ \A r \in Reqs : req[r].kind = "disable" /\ req[r].user = u => req[r].stage = "done"
        => \A s \in Sessions : session[s].user = u => session[s].revoked

-----------------------------------------------------------------------------
(* Liveness, under FairSpec. *)

\* Every session and every SSO session an account has when a disable is carried out ends
\* up revoked, whatever else is being served (admin/users.ts, the PATCH handler).
DisableReachesEverything ==
    \A u \in Users :
        /\ \A s \in Sessions :
             (\E r \in Reqs : At(r, "list") /\ req[r].kind = "disable" /\ req[r].user = u
                              /\ session[s].user = u)
             ~> session[s].revoked
        /\ \A k \in Ssos :
             (\E r \in Reqs : At(r, "list") /\ req[r].kind = "disable" /\ req[r].user = u
                              /\ sso[k].user = u)
             ~> sso[k].revoked

\* A refresh overtaken by another exchange of the same token brings the session down.
LostRaceEndsTheSession ==
    \A s \in Sessions :
        (\E r \in Reqs : req[r].stage \in {"check", "mark"} /\ req[r].session = s
                         /\ token[req[r].token].used)
        ~> session[s].revoked

-----------------------------------------------------------------------------
(* The inductive invariant behind the safety properties. *)

\* What each stage guarantees of the local variables of the invocation that reached it.
LocalsOK(q) ==
    /\ q.stage = "idle" => q = NoRequest
    /\ q.stage = "account" => q.kind \in DOMAIN OnActive
    /\ q.stage \in {"rotate", "startSso"} => q.kind = "signIn"
    /\ q.stage = "mint" => q.kind \in {"signIn", "authorize"}
    /\ q.stage \in {"consume", "open"} => q.kind = "exchange"
    /\ q.stage \in {"check", "mark"} => q.kind = "refresh" /\ q.session \in Sessions
    /\ q.stage = "issue" => q.kind \in {"exchange", "refresh"}
    /\ q.stage = "respond" => q.kind \in {"signIn", "authorize", "exchange", "refresh"}
    /\ q.stage = "actor" => q.kind = "access"
    /\ q.stage = "patch" => q.kind \in {"disable", "enable"}
    /\ q.stage = "list" => q.kind \in {"sweep", "disable"}
    /\ q.stage \in {"row", "chain", "ended"} => q.kind \in DOMAIN AfterRevoking
    /\ q.stage = "closeSso" => q.kind \in {"disable", "logout"}
    /\ q.stage # "done" => q.outcome = "none"
    /\ q.outcome = "tokens" => q.kind \in {"exchange", "refresh"}
    /\ q.outcome = "granted" => q.kind = "access"
    /\ q.outcome = "code" => q.kind \in {"signIn", "authorize"}
    /\ q.stage = "respond" /\ q.kind \in {"signIn", "authorize"} => q.code \in Codes
    /\ q.stage = "respond" /\ q.kind \in {"exchange", "refresh"} => q.issued \in Tokens

\* What they say of the rows they name.
Minted(c) == c \in Codes /\ code[c].user \in Users /\ code[c].client \in Clients
HoldsCode(q) == q.kind = "exchange" /\ q.stage \in {"account", "open"}
MayIssue(q) == q.stage = "issue" \/ (q.kind = "refresh" /\ q.stage = "account")
OnSession(q) == MayIssue(q) \/ q.stage \in {"check", "mark"}
                \/ (q.stage = "respond" /\ q.kind \in {"exchange", "refresh"})
                \/ q.outcome = "tokens"

RowsInHand(q) ==
    /\ q.stage \in {"account", "rotate", "startSso", "mint", "consume", "open", "list", "patch"} =>
         q.user \in Users
    /\ q.kind \in {"signIn", "authorize"} => q.client \in Clients
    /\ q.kind = "access" => q.session \in Sessions /\ session[q.session].user \in Users
    /\ q.kind \in {"signIn", "authorize"} /\ q.stage = "respond" => Minted(q.code)
    /\ HoldsCode(q) \/ q.stage = "consume" =>
         Minted(q.code) /\ code[q.code].user = q.user
    /\ HoldsCode(q) => code[q.code].consumed /\ code[q.code].client = q.client
    /\ OnSession(q) => q.session \in Sessions /\ session[q.session].user = q.user
                       /\ q.user \in Users
    /\ OnSession(q) /\ q.stage \notin {"check", "mark"} =>
         session[q.session].client = q.client
    /\ q.kind = "refresh" /\ (q.stage \in {"check", "mark"} \/ MayIssue(q)) =>
         q.token \in Tokens /\ token[q.token].session = q.session
    /\ q.kind = "refresh" /\ MayIssue(q) => token[q.token].used
    /\ q.kind \in {"exchange", "refresh"} /\ q.stage = "respond" =>
         q.issued \in Tokens /\ token[q.issued].session = q.session
    /\ \A s \in q.targets : session[s].user \in Users
    /\ q.stage = "row" => q.targets # {}
    /\ q.stage = "chain" => q.session \in Sessions /\ session[q.session].user \in Users
                            /\ session[q.session].revoked

\* Rows that name each other.
RowsOK ==
    /\ \A c \in wire \cap Codes : Minted(c)
    /\ \A t \in wire \cap Tokens : Issued(t)
    /\ \A t \in Tokens : Issued(t) => Opened(token[t].session)
    /\ \A s \in Sessions : Opened(s) =>
         /\ Minted(session[s].code) /\ code[session[s].code].consumed
         /\ code[session[s].code].user = session[s].user
         /\ code[session[s].code].client = session[s].client

\* Whoever has spent a token, or opened a session, holds the only right to issue the next.
ChainOK ==
    /\ ChainNeverForks
    /\ \A r \in Reqs : MayIssue(req[r]) =>
         \A t \in Tokens : token[t].session = req[r].session => token[t].used
    /\ \A r1, r2 \in Reqs :
         MayIssue(req[r1]) /\ MayIssue(req[r2]) /\ req[r1].session = req[r2].session => r1 = r2

\* Whoever has consumed a code holds the only right to open its session.
CodesOK ==
    /\ OneSessionPerCode
    /\ \A r \in Reqs : HoldsCode(req[r]) =>
         \A s \in Sessions : Opened(s) => session[s].code # req[r].code
    /\ \A r1, r2 \in Reqs :
         HoldsCode(req[r1]) /\ HoldsCode(req[r2]) /\ req[r1].code = req[r2].code => r1 = r2

\* A barred request never gets past the check that is to stop it.
BarOK(r) ==
    /\ barred[r] # {} => req[r].stage # "idle"
    /\ barred[r] # {} => req[r].outcome \notin {"code", "tokens", "granted"}
    /\ "disabled" \in barred[r] =>
         /\ req[r].user \in Users /\ status[req[r].user] = "disabled"
         /\ req[r].stage \notin {"rotate", "startSso", "mint", "open", "issue", "respond", "actor"}
    /\ "revoked" \in barred[r] =>
         /\ req[r].kind \in {"refresh", "access", "authorize"}
         /\ req[r].kind = "authorize" => req[r].stage = "done"
         /\ req[r].kind = "refresh" => req[r].stage \notin {"mark", "account", "issue", "respond"}
         /\ req[r].stage \in {"check", "account", "actor"} =>
              req[r].session \in Sessions /\ session[req[r].session].revoked

Locals == \A r \in Reqs : LocalsOK(req[r])
InHand == \A r \in Reqs : RowsInHand(req[r])
BarsOK == \A r \in Reqs : BarOK(r)

\* A refresh never lets go of the token it presented; once it has spent it, or has been
\* answered, nobody else settles on the same token while it can still be used.
RefreshOK(q) == q.kind = "refresh" =>
    /\ q.token \in Tokens /\ q.session \in Sessions /\ token[q.token].session = q.session
    /\ q.stage \in {"row", "chain"} => q.targets = {q.session}
    /\ q.stage = "ended" => session[q.session].revoked
Settled(q) == /\ q.kind = "refresh"
              /\ \/ q.stage \in {"account", "issue", "respond"}
                 \/ q.stage = "done" /\ q.outcome # "failed"
Useless(q) == session[q.session].revoked \/ token[q.token].expired
ReplayOK ==
    /\ \A t \in Tokens : token[t].revoked => Issued(t) /\ session[token[t].session].revoked
    /\ \A r \in Reqs : RefreshOK(req[r])
    /\ \A r \in Reqs : Settled(req[r]) => Useless(req[r]) \/ token[req[r].token].used
    /\ \A r1, r2 \in Reqs :
         /\ r1 # r2 /\ Settled(req[r1]) /\ Settled(req[r2])
         /\ req[r1].token = req[r2].token
         => Useless(req[r1])

Inv == TypeOK /\ Locals /\ InHand /\ RowsOK /\ ChainOK /\ CodesOK /\ BarsOK

-----------------------------------------------------------------------------
(* The promise made to the outside. *)

Phase == [s \in Sessions |-> IF ~Opened(s) THEN "unopened"
                             ELSE IF session[s].revoked THEN "closed" ELSE "open"]
Spendable == [s \in Sessions |-> {t \in Tokens : Live(s) /\ token[t].session = s
                                                 /\ ~token[t].used}]
Retired == {t \in Tokens : Issued(t) /\ (token[t].used \/ session[token[t].session].revoked)}

Family == INSTANCE SessionFamily
            WITH phase <- Phase, spendable <- Spendable, retired <- Retired

\* The token endpoint keeps the promise of SessionFamily: open once, close for ever, at
\* most one spendable token per session, a spent token never spendable again.
KeepsThePromise == Family!Spec
=============================================================================
