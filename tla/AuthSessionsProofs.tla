------------------------- MODULE AuthSessionsProofs -------------------------
(***************************************************************************)
(* Proofs about AuthSessions, for every number of accounts, clients,       *)
(* codes, sessions, tokens and concurrent requests, in three parts.        *)
(*   1. What each action does to the request that takes it.  A request is  *)
(*      a record of eleven fields; each lemma says once, field by field,   *)
(*      what a step leaves there, so that the proofs about the tables need *)
(*      not look inside the records again.                                 *)
(*   2. One lemma per conjunct of the inductive invariant, saying that a   *)
(*      statement of one invocation keeps it.  What makes facts read       *)
(*      before an await usable after it is TablesGrow: no statement undoes *)
(*      them.                                                              *)
(*   3. The safety properties, the implementation of SessionFamily, and    *)
(*      the replay of refresh tokens.                                      *)
(***************************************************************************)
EXTENDS AuthSessions, TLAPS

-----------------------------------------------------------------------------
(* Requests and rows as records. *)

\* Where findUserById sends a request on, kind by kind.
LEMMA OnActiveStage ==
    ASSUME NEW k \in DOMAIN OnActive
    PROVE  \/ k = "signIn" /\ OnActive[k] = "rotate"
           \/ k = "authorize" /\ OnActive[k] = "mint"
           \/ k = "exchange" /\ OnActive[k] = "open"
           \/ k = "refresh" /\ OnActive[k] = "issue"
           \/ k = "access" /\ OnActive[k] = "actor"
  BY DEF OnActive

\* The types of the fields of an invocation, one by one.
LEMMA RequestFields ==
    ASSUME NEW q \in Request
    PROVE  /\ q.user \in Users \cup {None} /\ q.client \in Clients \cup {None}
           /\ q.sso \in Ssos \cup {None} /\ q.code \in Codes \cup {None}
           /\ q.session \in Sessions \cup {None} /\ q.token \in Tokens \cup {None}
           /\ q.issued \in Tokens \cup {None} /\ q.targets \subseteq Sessions
           /\ q.kind \in Kinds \cup {"none"} /\ q.stage \in Stages /\ q.outcome \in Outcomes
  BY DEF Request

\* The updates the statements make of one row.
LEMMA SsoRowSteps ==
    /\ \A row \in SsoRow : /\ [row EXCEPT !.revoked = TRUE] \in SsoRow
                           /\ [row EXCEPT !.expired = TRUE] \in SsoRow
    /\ \A u \in Users \cup {None} : [NoSso EXCEPT !.user = u] \in SsoRow
  BY DEF SsoRow, NoSso

\* Minting, consuming and expiring an authorization code gives a code row again.
LEMMA CodeRowSteps ==
    /\ \A row \in CodeRow : /\ [row EXCEPT !.consumed = TRUE] \in CodeRow
                            /\ [row EXCEPT !.expired = TRUE] \in CodeRow
    /\ \A u \in Users \cup {None}, a \in Clients \cup {None} :
         [NoCode EXCEPT !.user = u, !.client = a] \in CodeRow
  BY DEF CodeRow, NoCode

\* Opening and revoking a session gives a session row again.
LEMMA SessionRowSteps ==
    /\ \A row \in SessionRow : [row EXCEPT !.revoked = TRUE] \in SessionRow
    /\ \A u \in Users \cup {None}, a \in Clients \cup {None}, c \in Codes \cup {None} :
         [NoSession EXCEPT !.user = u, !.client = a, !.code = c] \in SessionRow
  BY DEF SessionRow, NoSession

\* Issuing, spending, revoking and expiring a refresh token gives a token row again.
LEMMA TokenRowSteps ==
    /\ \A row \in TokenRow : /\ [row EXCEPT !.used = TRUE] \in TokenRow
                             /\ [row EXCEPT !.revoked = TRUE] \in TokenRow
                             /\ [row EXCEPT !.expired = TRUE] \in TokenRow
    /\ \A s \in Sessions \cup {None}, t \in Tokens \cup {None} :
         [NoToken EXCEPT !.session = s, !.parent = t] \in TokenRow
  BY DEF TokenRow, NoToken

\* Where a revocation goes on when nothing is left to revoke, kind by kind.
LEMMA AfterRevokingStage ==
    ASSUME NEW k \in DOMAIN AfterRevoking
    PROVE  \/ k \in {"disable", "logout"} /\ AfterRevoking[k] = "closeSso"
           \/ k \in {"refresh", "revoke", "prune", "sweep"} /\ AfterRevoking[k] = "ended"
  BY DEF AfterRevoking

\* A step of request r: it alone moves, and its local variables stay in order.
Frame(r) ==
    /\ req' \in [Reqs -> Request]
    /\ \A x \in Reqs \ {r} : req'[x] = req[x]
    /\ LocalsOK(req'[r])

\* What an invocation never changes once it has begun, and what only some steps change.
Keeps(n, q) == /\ n.kind = q.kind /\ n.user = q.user /\ n.client = q.client
               /\ n.token = q.token
Same(n, q) == /\ Keeps(n, q) /\ n.session = q.session /\ n.code = q.code
              /\ n.issued = q.issued /\ n.targets = q.targets

\* A request as its Begin step leaves it, and as a later step does.
Started(n, kind, stage, outcome, u, a, c, s, t, ts) ==
    /\ n.kind = kind /\ n.stage = stage /\ n.outcome = outcome
    /\ n.user = u /\ n.client = a /\ n.code = c /\ n.session = s /\ n.token = t
    /\ n.issued = None /\ n.targets = ts
Moved(n, q, stage, c, s, t, ts) ==
    /\ Keeps(n, q) /\ n.stage = stage /\ n.outcome = q.outcome
    /\ n.code = c /\ n.session = s /\ n.issued = t /\ n.targets = ts
Ended(n, q, o) == Same(n, q) /\ n.stage = "done" /\ n.outcome = o

\* Replacing the record of r by one in order is a step of r alone.
LEMMA FrameStep ==
    ASSUME TypeOK, NEW r \in Reqs, NEW n \in Request, LocalsOK(n),
           req' = [req EXCEPT ![r] = n]
    PROVE  Frame(r) /\ req'[r] = n
  BY DEF TypeOK, Frame

\* Answering keeps everything an invocation has in hand.
LEMMA DoneStep ==
    ASSUME NEW q \in Request, LocalsOK(q), q.stage # "idle", NEW o \in Outcomes,
           o = "tokens" => q.kind \in {"exchange", "refresh"},
           o = "granted" => q.kind = "access",
           o = "code" => q.kind \in {"signIn", "authorize"}
    PROVE  /\ [q EXCEPT !.stage = "done", !.outcome = o] \in Request
           /\ LocalsOK([q EXCEPT !.stage = "done", !.outcome = o])
           /\ Same([q EXCEPT !.stage = "done", !.outcome = o], q)
           /\ [q EXCEPT !.stage = "done", !.outcome = o].stage = "done"
           /\ [q EXCEPT !.stage = "done", !.outcome = o].outcome = o
<1> DEFINE n == [q EXCEPT !.stage = "done", !.outcome = o]
<1>1. n \in Request
  BY Zenon DEF Request, Stages
<1>2. n.stage = "done" /\ n.outcome = o /\ Same(n, q)
  BY DEF Request, Same, Keeps
<1> HIDE DEF n
<1>3. LocalsOK(n)
  BY <1>2 DEF LocalsOK, Same, Keeps
<1> QED
  BY <1>1, <1>2, <1>3 DEF n

\* End(r, o) is a step of r alone that only answers.
LEMMA EndStep ==
    ASSUME TypeOK, Locals, NEW r \in Reqs, NEW o \in Outcomes,
           req[r].stage # "idle", End(r, o),
           o = "tokens" => req[r].kind \in {"exchange", "refresh"},
           o = "granted" => req[r].kind = "access",
           o = "code" => req[r].kind \in {"signIn", "authorize"}
    PROVE  Frame(r) /\ Ended(req'[r], req[r], o)
<1> DEFINE n == [req[r] EXCEPT !.stage = "done", !.outcome = o]
<1>1. req[r] \in Request /\ LocalsOK(req[r])
  BY DEF TypeOK, Locals
<1>2. req' = [req EXCEPT ![r] = n]
  BY DEF End
<1>3. n \in Request /\ LocalsOK(n) /\ Same(n, req[r]) /\ n.stage = "done" /\ n.outcome = o
  BY <1>1, DoneStep
<1> HIDE DEF n
<1> QED
  BY <1>2, <1>3, FrameStep DEF Ended

-----------------------------------------------------------------------------
(* What each action does to the request that takes it. *)

\* BeginSignIn moves r alone: what it leaves in the hands of r, and in which tables.
LEMMA BeginSignInMoves ==
    ASSUME TypeOK, Locals, NEW r \in Reqs, BeginSignIn(r)
    PROVE  LET q == req[r] IN
           /\ Frame(r)
           /\ \E u \in Users, a \in Clients, k \in Ssos \cup {None} :
                 /\ Bar(r, FALSE, status[u] = "disabled")
                 /\ Started(req'[r], "signIn", "account", "none", u, a, None, None, None, {})
<1> DEFINE q == req[r]
<1>1. q \in Request /\ LocalsOK(q)
  BY DEF TypeOK, Locals
<1>2. q = NoRequest
  BY <1>1 DEF BeginSignIn, At, Idle, LocalsOK
<1>3. \E u \in Users, a \in Clients, k \in Ssos \cup {None} :
         /\ Bar(r, FALSE, status[u] = "disabled")
         /\ req' = [req EXCEPT ![r] = [q EXCEPT !.kind = "signIn", !.stage = "account", !.user = u, !.client = a, !.sso = k]]
  BY <1>1 DEF BeginSignIn
<1>4. ASSUME NEW u \in Users, NEW a \in Clients, NEW k \in Ssos \cup {None},
            Bar(r, FALSE, status[u] = "disabled"),
            req' = [req EXCEPT ![r] = [q EXCEPT !.kind = "signIn", !.stage = "account", !.user = u, !.client = a, !.sso = k]]
      PROVE  Frame(r) /\ Started(req'[r], "signIn", "account", "none", u, a, None, None, None, {})
  <2> DEFINE n == [q EXCEPT !.kind = "signIn", !.stage = "account", !.user = u, !.client = a, !.sso = k]
  <2>1. n \in Request
    BY <1>1, <1>2, ZenonT(30) DEF Request, Kinds, Stages, Outcomes, NoRequest
  <2>2. Started(n, "signIn", "account", "none", u, a, None, None, None, {})
    BY <1>1, <1>2 DEF Request, Started, NoRequest
  <2> HIDE DEF n
  <2>3. LocalsOK(n)
    BY <1>1, <1>2, <2>2, <1>4 DEF LocalsOK, Started, OnActive
  <2> QED
    BY <1>4, <2>1, <2>2, <2>3, FrameStep DEF n
<1> QED
  BY <1>3, <1>4

\* BeginAuthorize moves r alone: what it leaves in the hands of r, and in which tables.
LEMMA BeginAuthorizeMoves ==
    ASSUME TypeOK, Locals, NEW r \in Reqs, BeginAuthorize(r)
    PROVE  LET q == req[r] IN
           /\ Frame(r)
           /\ \/ \E a \in Clients, k \in Ssos :
                    /\ sso[k].user \in Users
                    /\ ~sso[k].revoked
                    /\ Bar(r, sso[k].revoked, status[sso[k].user] = "disabled")
                    /\ Started(req'[r], "authorize", "account", "none", sso[k].user, a, None, None, None, {})
              \/ \E a \in Clients, k \in Ssos :
                    /\ sso[k].user \in Users
                    /\ Bar(r, sso[k].revoked, status[sso[k].user] = "disabled")
                    /\ Started(req'[r], "authorize", "done", "refused", sso[k].user, a, None, None, None, {})
<1> DEFINE q == req[r]
<1>1. q \in Request /\ LocalsOK(q)
  BY DEF TypeOK, Locals
<1>2. q = NoRequest
  BY <1>1 DEF BeginAuthorize, At, Idle, LocalsOK
<1>3. \/ \E a \in Clients, k \in Ssos :
            /\ sso[k].user \in Users
            /\ ~sso[k].revoked
            /\ Bar(r, sso[k].revoked, status[sso[k].user] = "disabled")
            /\ req' = [req EXCEPT ![r] = [q EXCEPT !.kind = "authorize", !.user = sso[k].user, !.client = a, !.sso = k, !.stage = "account"]]
      \/ \E a \in Clients, k \in Ssos :
            /\ sso[k].user \in Users
            /\ Bar(r, sso[k].revoked, status[sso[k].user] = "disabled")
            /\ req' = [req EXCEPT ![r] = [q EXCEPT !.kind = "authorize", !.user = sso[k].user, !.client = a, !.sso = k, !.stage = "done", !.outcome = "refused"]]
  BY <1>1 DEF BeginAuthorize, TypeOK, SsoRow, SsoLive
<1>4. ASSUME NEW a \in Clients, NEW k \in Ssos,
            sso[k].user \in Users,
            ~sso[k].revoked,
            Bar(r, sso[k].revoked, status[sso[k].user] = "disabled"),
            req' = [req EXCEPT ![r] = [q EXCEPT !.kind = "authorize", !.user = sso[k].user, !.client = a, !.sso = k, !.stage = "account"]]
      PROVE  Frame(r) /\ Started(req'[r], "authorize", "account", "none", sso[k].user, a, None, None, None, {})
  <2> DEFINE n == [q EXCEPT !.kind = "authorize", !.user = sso[k].user, !.client = a, !.sso = k, !.stage = "account"]
  <2>1. n \in Request
    BY <1>1, <1>2, <1>4, ZenonT(30) DEF Request, Kinds, Stages, Outcomes, NoRequest
  <2>2. Started(n, "authorize", "account", "none", sso[k].user, a, None, None, None, {})
    BY <1>1, <1>2 DEF Request, Started, NoRequest
  <2> HIDE DEF n
  <2>3. LocalsOK(n)
    BY <1>1, <1>2, <2>2, <1>4 DEF LocalsOK, Started, OnActive
  <2> QED
    BY <1>4, <2>1, <2>2, <2>3, FrameStep DEF n
<1>5. ASSUME NEW a \in Clients, NEW k \in Ssos,
            sso[k].user \in Users,
            Bar(r, sso[k].revoked, status[sso[k].user] = "disabled"),
            req' = [req EXCEPT ![r] = [q EXCEPT !.kind = "authorize", !.user = sso[k].user, !.client = a, !.sso = k, !.stage = "done", !.outcome = "refused"]]
      PROVE  Frame(r) /\ Started(req'[r], "authorize", "done", "refused", sso[k].user, a, None, None, None, {})
  <2> DEFINE n == [q EXCEPT !.kind = "authorize", !.user = sso[k].user, !.client = a, !.sso = k, !.stage = "done", !.outcome = "refused"]
  <2>1. n \in Request
    BY <1>1, <1>2, <1>5, ZenonT(30) DEF Request, Kinds, Stages, Outcomes, NoRequest
  <2>2. Started(n, "authorize", "done", "refused", sso[k].user, a, None, None, None, {})
    BY <1>1, <1>2 DEF Request, Started, NoRequest
  <2> HIDE DEF n
  <2>3. LocalsOK(n)
    BY <1>1, <1>2, <2>2, <1>5 DEF LocalsOK, Started
  <2> QED
    BY <1>5, <2>1, <2>2, <2>3, FrameStep DEF n
<1> QED
  BY <1>3, <1>4, <1>5

\* BeginExchange moves r alone: what it leaves in the hands of r, and in which tables.
LEMMA BeginExchangeMoves ==
    ASSUME TypeOK, Locals, NEW r \in Reqs, BeginExchange(r)
    PROVE  LET q == req[r] IN
           /\ Frame(r)
           /\ \/ \E c \in Codes, a \in Clients :
                    /\ c \in wire
                    /\ code[c].user \in Users
                    /\ Bar(r, FALSE, status[code[c].user] = "disabled")
                    /\ Started(req'[r], "exchange", "consume", "none", code[c].user, a, c, None, None, {})
              \/ \E c \in Codes, a \in Clients :
                    /\ c \in wire
                    /\ code[c].user \in Users
                    /\ Bar(r, FALSE, status[code[c].user] = "disabled")
                    /\ Started(req'[r], "exchange", "done", "refused", code[c].user, a, c, None, None, {})
<1> DEFINE q == req[r]
<1>1. q \in Request /\ LocalsOK(q)
  BY DEF TypeOK, Locals
<1>2. q = NoRequest
  BY <1>1 DEF BeginExchange, At, Idle, LocalsOK
<1>3. \/ \E c \in Codes, a \in Clients :
            /\ c \in wire
            /\ code[c].user \in Users
            /\ Bar(r, FALSE, status[code[c].user] = "disabled")
            /\ req' = [req EXCEPT ![r] = [q EXCEPT !.kind = "exchange", !.client = a, !.code = c, !.user = code[c].user, !.stage = "consume"]]
      \/ \E c \in Codes, a \in Clients :
            /\ c \in wire
            /\ code[c].user \in Users
            /\ Bar(r, FALSE, status[code[c].user] = "disabled")
            /\ req' = [req EXCEPT ![r] = [q EXCEPT !.kind = "exchange", !.client = a, !.code = c, !.user = code[c].user, !.stage = "done", !.outcome = "refused"]]
  BY <1>1 DEF BeginExchange, TypeOK, CodeRow
<1>4. ASSUME NEW c \in Codes, NEW a \in Clients,
            c \in wire,
            code[c].user \in Users,
            Bar(r, FALSE, status[code[c].user] = "disabled"),
            req' = [req EXCEPT ![r] = [q EXCEPT !.kind = "exchange", !.client = a, !.code = c, !.user = code[c].user, !.stage = "consume"]]
      PROVE  Frame(r) /\ Started(req'[r], "exchange", "consume", "none", code[c].user, a, c, None, None, {})
  <2> DEFINE n == [q EXCEPT !.kind = "exchange", !.client = a, !.code = c, !.user = code[c].user, !.stage = "consume"]
  <2>1. n \in Request
    BY <1>1, <1>2, <1>4, ZenonT(30) DEF Request, Kinds, Stages, Outcomes, NoRequest
  <2>2. Started(n, "exchange", "consume", "none", code[c].user, a, c, None, None, {})
    BY <1>1, <1>2 DEF Request, Started, NoRequest
  <2> HIDE DEF n
  <2>3. LocalsOK(n)
    BY <1>1, <1>2, <2>2, <1>4 DEF LocalsOK, Started
  <2> QED
    BY <1>4, <2>1, <2>2, <2>3, FrameStep DEF n
<1>5. ASSUME NEW c \in Codes, NEW a \in Clients,
            c \in wire,
            code[c].user \in Users,
            Bar(r, FALSE, status[code[c].user] = "disabled"),
            req' = [req EXCEPT ![r] = [q EXCEPT !.kind = "exchange", !.client = a, !.code = c, !.user = code[c].user, !.stage = "done", !.outcome = "refused"]]
      PROVE  Frame(r) /\ Started(req'[r], "exchange", "done", "refused", code[c].user, a, c, None, None, {})
  <2> DEFINE n == [q EXCEPT !.kind = "exchange", !.client = a, !.code = c, !.user = code[c].user, !.stage = "done", !.outcome = "refused"]
  <2>1. n \in Request
    BY <1>1, <1>2, <1>5, ZenonT(30) DEF Request, Kinds, Stages, Outcomes, NoRequest
  <2>2. Started(n, "exchange", "done", "refused", code[c].user, a, c, None, None, {})
    BY <1>1, <1>2 DEF Request, Started, NoRequest
  <2> HIDE DEF n
  <2>3. LocalsOK(n)
    BY <1>1, <1>2, <2>2, <1>5 DEF LocalsOK, Started
  <2> QED
    BY <1>5, <2>1, <2>2, <2>3, FrameStep DEF n
<1> QED
  BY <1>3, <1>4, <1>5

\* BeginRefresh moves r alone: what it leaves in the hands of r, and in which tables.
LEMMA BeginRefreshMoves ==
    ASSUME TypeOK, Locals, NEW r \in Reqs, BeginRefresh(r)
    PROVE  /\ Frame(r)
           /\ \E t \in Tokens, a \in Clients, s \in Sessions, u \in Users \cup {None} :
                 /\ t \in wire
                 /\ token[t].session = s
                 /\ u = session[s].user
                 /\ Bar(r, session[s].revoked, status[u] = "disabled")
                 /\ \/ Started(req'[r], "refresh", "row", "none", u, a, None, s, t, {s})
                    \/ /\ token[t].revoked \/ token[t].expired
                       /\ Started(req'[r], "refresh", "done", "refused", u, a, None, s, t, {})
                    \/ Started(req'[r], "refresh", "check", "none", u, a, None, s, t, {})
<1> DEFINE q == req[r]
<1>1. q \in Request /\ LocalsOK(q)
  BY DEF TypeOK, Locals
<1>2. q = NoRequest
  BY <1>1 DEF BeginRefresh, At, Idle, LocalsOK
<1>3. PICK t \in Tokens, a \in Clients :
        LET s == token[t].session
            started == [q EXCEPT !.kind = "refresh", !.client = a, !.token = t,
                                 !.session = s, !.user = session[s].user]
        IN  /\ t \in wire /\ Issued(t)
            /\ Bar(r, session[s].revoked, status[session[s].user] = "disabled")
            /\ \/ req' = [req EXCEPT ![r] = [started EXCEPT !.stage = "row", !.targets = {s}]]
               \/ /\ token[t].revoked \/ token[t].expired
                  /\ req' = [req EXCEPT ![r] = [started EXCEPT !.stage = "done",
                                                               !.outcome = "refused"]]
               \/ req' = [req EXCEPT ![r] = [started EXCEPT !.stage = "check"]]
  BY <1>1 DEF BeginRefresh, Reuse
<1> DEFINE s == token[t].session
           u == session[s].user
           ts == {s}
<1>4. s \in Sessions /\ u \in Users \cup {None} /\ ts \in SUBSET Sessions
  BY <1>3 DEF TypeOK, TokenRow, SessionRow, Issued
<1>5. /\ t \in wire /\ token[t].session = s /\ u = session[s].user /\ ts = {s}
      /\ Bar(r, session[s].revoked, status[u] = "disabled")
  BY <1>3
<1>6. \/ req' = [req EXCEPT ![r] = [q EXCEPT !.kind = "refresh", !.client = a, !.token = t, !.session = s, !.user = u, !.stage = "row", !.targets = ts]]
      \/ /\ token[t].revoked \/ token[t].expired
         /\ req' = [req EXCEPT ![r] = [q EXCEPT !.kind = "refresh", !.client = a, !.token = t, !.session = s, !.user = u, !.stage = "done", !.outcome = "refused"]]
      \/ req' = [req EXCEPT ![r] = [q EXCEPT !.kind = "refresh", !.client = a, !.token = t, !.session = s, !.user = u, !.stage = "check"]]
  BY <1>3
<1> HIDE DEF s, u, ts
<1> DEFINE Outcome ==
             \/ Started(req'[r], "refresh", "row", "none", u, a, None, s, t, ts)
             \/ /\ token[t].revoked \/ token[t].expired
                /\ Started(req'[r], "refresh", "done", "refused", u, a, None, s, t, {})
             \/ Started(req'[r], "refresh", "check", "none", u, a, None, s, t, {})
<1>7. ASSUME req' = [req EXCEPT ![r] = [q EXCEPT !.kind = "refresh", !.client = a, !.token = t, !.session = s, !.user = u, !.stage = "row", !.targets = ts]]
      PROVE  Frame(r) /\ Outcome
  <2> DEFINE n == [q EXCEPT !.kind = "refresh", !.client = a, !.token = t, !.session = s, !.user = u, !.stage = "row", !.targets = ts]
  <2>1. n \in Request
    BY <1>1, <1>2, <1>4, ZenonT(30) DEF Request, Kinds, Stages, Outcomes, NoRequest
  <2>2. Started(n, "refresh", "row", "none", u, a, None, s, t, ts)
    BY <1>1, <1>2 DEF Request, Started, NoRequest
  <2> HIDE DEF n
  <2>3. LocalsOK(n)
    BY <1>4, <2>2 DEF LocalsOK, Started, AfterRevoking
  <2>4. Frame(r) /\ req'[r] = n
    BY <1>7, <2>1, <2>3, FrameStep DEF n
  <2> QED
    BY <2>2, <2>4
<1>8. ASSUME token[t].revoked \/ token[t].expired,
             req' = [req EXCEPT ![r] = [q EXCEPT !.kind = "refresh", !.client = a, !.token = t, !.session = s, !.user = u, !.stage = "done", !.outcome = "refused"]]
      PROVE  Frame(r) /\ Outcome
  <2> DEFINE n == [q EXCEPT !.kind = "refresh", !.client = a, !.token = t, !.session = s, !.user = u, !.stage = "done", !.outcome = "refused"]
  <2>1. n \in Request
    BY <1>1, <1>2, <1>4, ZenonT(30) DEF Request, Kinds, Stages, Outcomes, NoRequest
  <2>2. Started(n, "refresh", "done", "refused", u, a, None, s, t, {})
    BY <1>1, <1>2 DEF Request, Started, NoRequest
  <2> HIDE DEF n
  <2>3. LocalsOK(n)
    BY <1>4, <2>2 DEF LocalsOK, Started, AfterRevoking
  <2>4. Frame(r) /\ req'[r] = n
    BY <1>8, <2>1, <2>3, FrameStep DEF n
  <2> QED
    BY <1>8, <2>2, <2>4
<1>9. ASSUME req' = [req EXCEPT ![r] = [q EXCEPT !.kind = "refresh", !.client = a, !.token = t, !.session = s, !.user = u, !.stage = "check"]]
      PROVE  Frame(r) /\ Outcome
  <2> DEFINE n == [q EXCEPT !.kind = "refresh", !.client = a, !.token = t, !.session = s, !.user = u, !.stage = "check"]
  <2>1. n \in Request
    BY <1>1, <1>2, <1>4, ZenonT(30) DEF Request, Kinds, Stages, Outcomes, NoRequest
  <2>2. Started(n, "refresh", "check", "none", u, a, None, s, t, {})
    BY <1>1, <1>2 DEF Request, Started, NoRequest
  <2> HIDE DEF n
  <2>3. LocalsOK(n)
    BY <1>4, <2>2 DEF LocalsOK, Started, AfterRevoking
  <2>4. Frame(r) /\ req'[r] = n
    BY <1>9, <2>1, <2>3, FrameStep DEF n
  <2> QED
    BY <2>2, <2>4
<1>10. Frame(r) /\ Outcome
  BY <1>6, <1>7, <1>8, <1>9
<1> QED
  BY <1>4, <1>5, <1>10

\* BeginAccess moves r alone: what it leaves in the hands of r, and in which tables.
LEMMA BeginAccessMoves ==
    ASSUME TypeOK, Locals, NEW r \in Reqs, BeginAccess(r)
    PROVE  LET q == req[r] IN
           /\ Frame(r)
           /\ \E s \in Sessions :
                 /\ HasBearer(s)
                 /\ session[s].user \in Users \cup {None}
                 /\ Bar(r, session[s].revoked, status[session[s].user] = "disabled")
                 /\ Started(req'[r], "access", "account", "none", session[s].user, None, None, s, None, {})
<1> DEFINE q == req[r]
<1>1. q \in Request /\ LocalsOK(q)
  BY DEF TypeOK, Locals
<1>2. q = NoRequest
  BY <1>1 DEF BeginAccess, At, Idle, LocalsOK
<1>3. \E s \in Sessions :
         /\ HasBearer(s)
         /\ session[s].user \in Users \cup {None}
         /\ Bar(r, session[s].revoked, status[session[s].user] = "disabled")
         /\ req' = [req EXCEPT ![r] = [q EXCEPT !.kind = "access", !.stage = "account", !.session = s, !.user = session[s].user]]
  BY <1>1 DEF BeginAccess, TypeOK, SessionRow
<1>4. ASSUME NEW s \in Sessions,
            HasBearer(s),
            session[s].user \in Users \cup {None},
            Bar(r, session[s].revoked, status[session[s].user] = "disabled"),
            req' = [req EXCEPT ![r] = [q EXCEPT !.kind = "access", !.stage = "account", !.session = s, !.user = session[s].user]]
      PROVE  Frame(r) /\ Started(req'[r], "access", "account", "none", session[s].user, None, None, s, None, {})
  <2> DEFINE n == [q EXCEPT !.kind = "access", !.stage = "account", !.session = s, !.user = session[s].user]
  <2>1. n \in Request
    BY <1>1, <1>2, <1>4, ZenonT(30) DEF Request, Kinds, Stages, Outcomes, NoRequest
  <2>2. Started(n, "access", "account", "none", session[s].user, None, None, s, None, {})
    BY <1>1, <1>2 DEF Request, Started, NoRequest
  <2> HIDE DEF n
  <2>3. LocalsOK(n)
    BY <1>1, <1>2, <2>2, <1>4 DEF LocalsOK, Started, OnActive
  <2> QED
    BY <1>4, <2>1, <2>2, <2>3, FrameStep DEF n
<1> QED
  BY <1>3, <1>4

\* BeginRevoke moves r alone: what it leaves in the hands of r, and in which tables.
LEMMA BeginRevokeMoves ==
    ASSUME TypeOK, Locals, NEW r \in Reqs, BeginRevoke(r)
    PROVE  LET q == req[r] IN
           /\ Frame(r)
           /\ \E ts \in SUBSET Sessions :
                 /\ \A s \in ts : Opened(s)
                 /\ ts # {}
                 /\ Started(req'[r], "revoke", "row", "none", None, None, None, None, None, ts)
<1> DEFINE q == req[r]
<1>1. q \in Request /\ LocalsOK(q)
  BY DEF TypeOK, Locals
<1>2. q = NoRequest
  BY <1>1 DEF BeginRevoke, At, Idle, LocalsOK
<1>3. \E ts \in SUBSET Sessions :
         /\ \A s \in ts : Opened(s)
         /\ ts # {}
         /\ req' = [req EXCEPT ![r] = [q EXCEPT !.kind = "revoke", !.stage = "row", !.targets = ts]]
  BY <1>1 DEF BeginRevoke
<1>4. ASSUME NEW ts \in SUBSET Sessions,
            \A s \in ts : Opened(s),
            ts # {},
            req' = [req EXCEPT ![r] = [q EXCEPT !.kind = "revoke", !.stage = "row", !.targets = ts]]
      PROVE  Frame(r) /\ Started(req'[r], "revoke", "row", "none", None, None, None, None, None, ts)
  <2> DEFINE n == [q EXCEPT !.kind = "revoke", !.stage = "row", !.targets = ts]
  <2>1. n \in Request
    BY <1>1, <1>2, ZenonT(30) DEF Request, Kinds, Stages, Outcomes, NoRequest
  <2>2. Started(n, "revoke", "row", "none", None, None, None, None, None, ts)
    BY <1>1, <1>2 DEF Request, Started, NoRequest
  <2> HIDE DEF n
  <2>3. LocalsOK(n)
    BY <1>1, <1>2, <2>2, <1>4 DEF LocalsOK, Started, AfterRevoking
  <2> QED
    BY <1>4, <2>1, <2>2, <2>3, FrameStep DEF n
<1> QED
  BY <1>3, <1>4

\* BeginPrune moves r alone: what it leaves in the hands of r, and in which tables.
LEMMA BeginPruneMoves ==
    ASSUME TypeOK, Locals, NEW r \in Reqs, BeginPrune(r)
    PROVE  LET q == req[r] IN
           /\ Frame(r)
           /\ \E doomed \in SUBSET Sessions :
                 /\ \A s \in doomed : Opened(s)
                 /\ doomed # {}
                 /\ Started(req'[r], "prune", "row", "none", None, None, None, None, None, doomed)
<1> DEFINE q == req[r]
<1>1. q \in Request /\ LocalsOK(q)
  BY DEF TypeOK, Locals
<1>2. q = NoRequest
  BY <1>1 DEF BeginPrune, At, Idle, LocalsOK
<1>3. \E doomed \in SUBSET Sessions :
         /\ \A s \in doomed : Opened(s)
         /\ doomed # {}
         /\ req' = [req EXCEPT ![r] = [q EXCEPT !.kind = "prune", !.stage = "row", !.targets = doomed]]
  BY <1>1 DEF BeginPrune, Live
<1>4. ASSUME NEW doomed \in SUBSET Sessions,
            \A s \in doomed : Opened(s),
            doomed # {},
            req' = [req EXCEPT ![r] = [q EXCEPT !.kind = "prune", !.stage = "row", !.targets = doomed]]
      PROVE  Frame(r) /\ Started(req'[r], "prune", "row", "none", None, None, None, None, None, doomed)
  <2> DEFINE n == [q EXCEPT !.kind = "prune", !.stage = "row", !.targets = doomed]
  <2>1. n \in Request
    BY <1>1, <1>2, ZenonT(30) DEF Request, Kinds, Stages, Outcomes, NoRequest
  <2>2. Started(n, "prune", "row", "none", None, None, None, None, None, doomed)
    BY <1>1, <1>2 DEF Request, Started, NoRequest
  <2> HIDE DEF n
  <2>3. LocalsOK(n)
    BY <1>1, <1>2, <2>2, <1>4 DEF LocalsOK, Started, AfterRevoking
  <2> QED
    BY <1>4, <2>1, <2>2, <2>3, FrameStep DEF n
<1> QED
  BY <1>3, <1>4

\* BeginLogout moves r alone: what it leaves in the hands of r, and in which tables.
LEMMA BeginLogoutMoves ==
    ASSUME TypeOK, Locals, NEW r \in Reqs, BeginLogout(r)
    PROVE  LET q == req[r] IN
           /\ Frame(r)
           /\ \/ \E k \in Ssos \cup {None}, ended \in SUBSET Sessions :
                    /\ ended = {}
                    /\ Started(req'[r], "logout", "closeSso", "none", None, None, None, None, None, ended)
              \/ \E k \in Ssos \cup {None}, ended \in SUBSET Sessions :
                    /\ \A s \in ended : Opened(s)
                    /\ ended # {}
                    /\ Started(req'[r], "logout", "row", "none", None, None, None, None, None, ended)
<1> DEFINE q == req[r]
<1>1. q \in Request /\ LocalsOK(q)
  BY DEF TypeOK, Locals
<1>2. q = NoRequest
  BY <1>1 DEF BeginLogout, At, Idle, LocalsOK
<1>3. \/ \E k \in Ssos \cup {None}, ended \in SUBSET Sessions :
            /\ ended = {}
            /\ req' = [req EXCEPT ![r] = [q EXCEPT !.kind = "logout", !.sso = k, !.targets = ended, !.stage = "closeSso"]]
      \/ \E k \in Ssos \cup {None}, ended \in SUBSET Sessions :
            /\ \A s \in ended : Opened(s)
            /\ ended # {}
            /\ req' = [req EXCEPT ![r] = [q EXCEPT !.kind = "logout", !.sso = k, !.targets = ended, !.stage = "row"]]
  BY <1>1 DEF BeginLogout, Live
<1>4. ASSUME NEW k \in Ssos \cup {None}, NEW ended \in SUBSET Sessions,
            ended = {},
            req' = [req EXCEPT ![r] = [q EXCEPT !.kind = "logout", !.sso = k, !.targets = ended, !.stage = "closeSso"]]
      PROVE  Frame(r) /\ Started(req'[r], "logout", "closeSso", "none", None, None, None, None, None, ended)
  <2> DEFINE n == [q EXCEPT !.kind = "logout", !.sso = k, !.targets = ended, !.stage = "closeSso"]
  <2>1. n \in Request
    BY <1>1, <1>2, ZenonT(30) DEF Request, Kinds, Stages, Outcomes, NoRequest
  <2>2. Started(n, "logout", "closeSso", "none", None, None, None, None, None, ended)
    BY <1>1, <1>2 DEF Request, Started, NoRequest
  <2> HIDE DEF n
  <2>3. LocalsOK(n)
    BY <1>1, <1>2, <2>2, <1>4 DEF LocalsOK, Started
  <2> QED
    BY <1>4, <2>1, <2>2, <2>3, FrameStep DEF n
<1>5. ASSUME NEW k \in Ssos \cup {None}, NEW ended \in SUBSET Sessions,
            \A s \in ended : Opened(s),
            ended # {},
            req' = [req EXCEPT ![r] = [q EXCEPT !.kind = "logout", !.sso = k, !.targets = ended, !.stage = "row"]]
      PROVE  Frame(r) /\ Started(req'[r], "logout", "row", "none", None, None, None, None, None, ended)
  <2> DEFINE n == [q EXCEPT !.kind = "logout", !.sso = k, !.targets = ended, !.stage = "row"]
  <2>1. n \in Request
    BY <1>1, <1>2, ZenonT(30) DEF Request, Kinds, Stages, Outcomes, NoRequest
  <2>2. Started(n, "logout", "row", "none", None, None, None, None, None, ended)
    BY <1>1, <1>2 DEF Request, Started, NoRequest
  <2> HIDE DEF n
  <2>3. LocalsOK(n)
    BY <1>1, <1>2, <2>2, <1>5 DEF LocalsOK, Started, AfterRevoking
  <2> QED
    BY <1>5, <2>1, <2>2, <2>3, FrameStep DEF n
<1> QED
  BY <1>3, <1>4, <1>5

\* BeginSweep moves r alone: what it leaves in the hands of r, and in which tables.
LEMMA BeginSweepMoves ==
    ASSUME TypeOK, Locals, NEW r \in Reqs, BeginSweep(r)
    PROVE  LET q == req[r] IN
           /\ Frame(r)
           /\ \E u \in Users :
                 /\ Started(req'[r], "sweep", "list", "none", u, None, None, None, None, {})
<1> DEFINE q == req[r]
<1>1. q \in Request /\ LocalsOK(q)
  BY DEF TypeOK, Locals
<1>2. q = NoRequest
  BY <1>1 DEF BeginSweep, At, Idle, LocalsOK
<1>3. \E u \in Users :
         /\ req' = [req EXCEPT ![r] = [q EXCEPT !.kind = "sweep", !.stage = "list", !.user = u]]
  BY <1>1 DEF BeginSweep
<1>4. ASSUME NEW u \in Users,
            req' = [req EXCEPT ![r] = [q EXCEPT !.kind = "sweep", !.stage = "list", !.user = u]]
      PROVE  Frame(r) /\ Started(req'[r], "sweep", "list", "none", u, None, None, None, None, {})
  <2> DEFINE n == [q EXCEPT !.kind = "sweep", !.stage = "list", !.user = u]
  <2>1. n \in Request
    BY <1>1, <1>2, ZenonT(30) DEF Request, Kinds, Stages, Outcomes, NoRequest
  <2>2. Started(n, "sweep", "list", "none", u, None, None, None, None, {})
    BY <1>1, <1>2 DEF Request, Started, NoRequest
  <2> HIDE DEF n
  <2>3. LocalsOK(n)
    BY <1>1, <1>2, <2>2 DEF LocalsOK, Started
  <2> QED
    BY <1>4, <2>1, <2>2, <2>3, FrameStep DEF n
<1> QED
  BY <1>3, <1>4

\* BeginPatch moves r alone: what it leaves in the hands of r, and in which tables.
LEMMA BeginPatchMoves ==
    ASSUME TypeOK, Locals, NEW r \in Reqs, BeginPatch(r)
    PROVE  LET q == req[r] IN
           /\ Frame(r)
           /\ \/ \E u \in Users :
                    /\ Started(req'[r], "disable", "patch", "none", u, None, None, None, None, {})
              \/ \E u \in Users :
                    /\ Started(req'[r], "enable", "patch", "none", u, None, None, None, None, {})
<1> DEFINE q == req[r]
<1>1. q \in Request /\ LocalsOK(q)
  BY DEF TypeOK, Locals
<1>2. q = NoRequest
  BY <1>1 DEF BeginPatch, At, Idle, LocalsOK
<1>3. \/ \E u \in Users :
            /\ req' = [req EXCEPT ![r] = [q EXCEPT !.kind = "disable", !.stage = "patch", !.user = u]]
      \/ \E u \in Users :
            /\ req' = [req EXCEPT ![r] = [q EXCEPT !.kind = "enable", !.stage = "patch", !.user = u]]
  BY <1>1 DEF BeginPatch
<1>4. ASSUME NEW u \in Users,
            req' = [req EXCEPT ![r] = [q EXCEPT !.kind = "disable", !.stage = "patch", !.user = u]]
      PROVE  Frame(r) /\ Started(req'[r], "disable", "patch", "none", u, None, None, None, None, {})
  <2> DEFINE n == [q EXCEPT !.kind = "disable", !.stage = "patch", !.user = u]
  <2>1. n \in Request
    BY <1>1, <1>2, ZenonT(30) DEF Request, Kinds, Stages, Outcomes, NoRequest
  <2>2. Started(n, "disable", "patch", "none", u, None, None, None, None, {})
    BY <1>1, <1>2 DEF Request, Started, NoRequest
  <2> HIDE DEF n
  <2>3. LocalsOK(n)
    BY <1>1, <1>2, <2>2 DEF LocalsOK, Started
  <2> QED
    BY <1>4, <2>1, <2>2, <2>3, FrameStep DEF n
<1>5. ASSUME NEW u \in Users,
            req' = [req EXCEPT ![r] = [q EXCEPT !.kind = "enable", !.stage = "patch", !.user = u]]
      PROVE  Frame(r) /\ Started(req'[r], "enable", "patch", "none", u, None, None, None, None, {})
  <2> DEFINE n == [q EXCEPT !.kind = "enable", !.stage = "patch", !.user = u]
  <2>1. n \in Request
    BY <1>1, <1>2, ZenonT(30) DEF Request, Kinds, Stages, Outcomes, NoRequest
  <2>2. Started(n, "enable", "patch", "none", u, None, None, None, None, {})
    BY <1>1, <1>2 DEF Request, Started, NoRequest
  <2> HIDE DEF n
  <2>3. LocalsOK(n)
    BY <1>1, <1>2, <2>2 DEF LocalsOK, Started
  <2> QED
    BY <1>5, <2>1, <2>2, <2>3, FrameStep DEF n
<1> QED
  BY <1>3, <1>4, <1>5

\* ReadAccount moves r alone: what it leaves in the hands of r, and in which tables.
LEMMA ReadAccountMoves ==
    ASSUME TypeOK, Locals, NEW r \in Reqs, ReadAccount(r)
    PROVE  LET q == req[r] IN
           /\ Frame(r)
           /\ \/ /\ status[q.user] = "active"
                 /\ Moved(req'[r], q, OnActive[q.kind], q.code, q.session, q.issued, q.targets)
              \/ Ended(req'[r], q, "refused")
<1> DEFINE q == req[r]
<1>1. q \in Request /\ LocalsOK(q)
  BY DEF TypeOK, Locals
<1>2. q.stage = "account" /\ q.kind \in DOMAIN OnActive
  BY <1>1 DEF ReadAccount, At, Idle, LocalsOK
<1>3. \/ /\ status[q.user] = "active"
         /\ req' = [req EXCEPT ![r] = [q EXCEPT !.stage = OnActive[q.kind]]]
      \/ End(r, "refused")
  BY <1>1 DEF ReadAccount, Goto, AccountActive
<1>4. ASSUME status[q.user] = "active",
            req' = [req EXCEPT ![r] = [q EXCEPT !.stage = OnActive[q.kind]]]
      PROVE  Frame(r) /\ Moved(req'[r], q, OnActive[q.kind], q.code, q.session, q.issued, q.targets)
  <2> DEFINE n == [q EXCEPT !.stage = OnActive[q.kind]]
  <2>1. n \in Request
    BY <1>1, <1>2, OnActiveStage, ZenonT(30) DEF Request, Kinds, Stages, Outcomes
  <2>2. Moved(n, q, OnActive[q.kind], q.code, q.session, q.issued, q.targets)
    BY <1>1, <1>2 DEF Request, Moved, Keeps
  <2> HIDE DEF n
  <2>3. LocalsOK(n)
    BY <1>1, <1>2, <2>2, <1>4, OnActiveStage DEF LocalsOK, Moved, Keeps
  <2> QED
    BY <1>4, <2>1, <2>2, <2>3, FrameStep DEF n
<1>5. ASSUME End(r, "refused")
      PROVE  Frame(r) /\ Ended(req'[r], q, "refused")
  BY <1>1, <1>2, <1>5, EndStep DEF Outcomes
<1> QED
  BY <1>3, <1>4, <1>5

\* RotateCookie moves r alone: what it leaves in the hands of r, and in which tables.
LEMMA RotateCookieMoves ==
    ASSUME TypeOK, Locals, NEW r \in Reqs, RotateCookie(r)
    PROVE  LET q == req[r] IN
           /\ Frame(r)
           /\ Moved(req'[r], q, "startSso", q.code, q.session, q.issued, q.targets)
<1> DEFINE q == req[r]
<1>1. q \in Request /\ LocalsOK(q)
  BY DEF TypeOK, Locals
<1>2. q.stage = "rotate"
  BY <1>1 DEF RotateCookie, At, Idle, LocalsOK
<1>3. req' = [req EXCEPT ![r] = [q EXCEPT !.stage = "startSso"]]
  BY <1>1 DEF RotateCookie, Goto
<1>4. ASSUME req' = [req EXCEPT ![r] = [q EXCEPT !.stage = "startSso"]]
      PROVE  Frame(r) /\ Moved(req'[r], q, "startSso", q.code, q.session, q.issued, q.targets)
  <2> DEFINE n == [q EXCEPT !.stage = "startSso"]
  <2>1. n \in Request
    BY <1>1, <1>2, ZenonT(30) DEF Request, Kinds, Stages, Outcomes
  <2>2. Moved(n, q, "startSso", q.code, q.session, q.issued, q.targets)
    BY <1>1, <1>2 DEF Request, Moved, Keeps
  <2> HIDE DEF n
  <2>3. LocalsOK(n)
    BY <1>1, <1>2, <2>2 DEF LocalsOK, Moved, Keeps
  <2> QED
    BY <1>4, <2>1, <2>2, <2>3, FrameStep DEF n
<1> QED
  BY <1>3, <1>4

\* StartSso moves r alone: what it leaves in the hands of r, and in which tables.
LEMMA StartSsoMoves ==
    ASSUME TypeOK, Locals, NEW r \in Reqs, StartSso(r)
    PROVE  LET q == req[r] IN
           /\ Frame(r)
           /\ \E k \in Ssos :
                 /\ sso' = [sso EXCEPT ![k] = [NoSso EXCEPT !.user = q.user]]
                 /\ Moved(req'[r], q, "mint", q.code, q.session, q.issued, q.targets)
<1> DEFINE q == req[r]
<1>1. q \in Request /\ LocalsOK(q)
  BY DEF TypeOK, Locals
<1>2. q.stage = "startSso"
  BY <1>1 DEF StartSso, At, Idle, LocalsOK
<1>3. \E k \in Ssos :
         /\ sso' = [sso EXCEPT ![k] = [NoSso EXCEPT !.user = q.user]]
         /\ req' = [req EXCEPT ![r] = [q EXCEPT !.stage = "mint", !.sso = k]]
  BY <1>1 DEF StartSso
<1>4. ASSUME NEW k \in Ssos,
            sso' = [sso EXCEPT ![k] = [NoSso EXCEPT !.user = q.user]],
            req' = [req EXCEPT ![r] = [q EXCEPT !.stage = "mint", !.sso = k]]
      PROVE  Frame(r) /\ Moved(req'[r], q, "mint", q.code, q.session, q.issued, q.targets)
  <2> DEFINE n == [q EXCEPT !.stage = "mint", !.sso = k]
  <2>1. n \in Request
    BY <1>1, <1>2, ZenonT(30) DEF Request, Kinds, Stages, Outcomes
  <2>2. Moved(n, q, "mint", q.code, q.session, q.issued, q.targets)
    BY <1>1, <1>2 DEF Request, Moved, Keeps
  <2> HIDE DEF n
  <2>3. LocalsOK(n)
    BY <1>1, <1>2, <2>2, <1>4 DEF LocalsOK, Moved, Keeps
  <2> QED
    BY <1>4, <2>1, <2>2, <2>3, FrameStep DEF n
<1> QED
  BY <1>3, <1>4

\* IssueAuthorizationCode moves r alone: what it leaves in the hands of r, and in which tables.
LEMMA IssueAuthorizationCodeMoves ==
    ASSUME TypeOK, Locals, NEW r \in Reqs, IssueAuthorizationCode(r)
    PROVE  LET q == req[r] IN
           /\ Frame(r)
           /\ \E c \in Codes :
                 /\ code[c].user = None
                 /\ code' = [code EXCEPT ![c] = [NoCode EXCEPT !.user = q.user, !.client = q.client]]
                 /\ Moved(req'[r], q, "respond", c, q.session, q.issued, q.targets)
<1> DEFINE q == req[r]
<1>1. q \in Request /\ LocalsOK(q)
  BY DEF TypeOK, Locals
<1>2. q.stage = "mint"
  BY <1>1 DEF IssueAuthorizationCode, At, Idle, LocalsOK
<1>3. \E c \in Codes :
         /\ code[c].user = None
         /\ code' = [code EXCEPT ![c] = [NoCode EXCEPT !.user = q.user, !.client = q.client]]
         /\ req' = [req EXCEPT ![r] = [q EXCEPT !.stage = "respond", !.code = c]]
  BY <1>1 DEF IssueAuthorizationCode
<1>4. ASSUME NEW c \in Codes,
            code[c].user = None,
            code' = [code EXCEPT ![c] = [NoCode EXCEPT !.user = q.user, !.client = q.client]],
            req' = [req EXCEPT ![r] = [q EXCEPT !.stage = "respond", !.code = c]]
      PROVE  Frame(r) /\ Moved(req'[r], q, "respond", c, q.session, q.issued, q.targets)
  <2> DEFINE n == [q EXCEPT !.stage = "respond", !.code = c]
  <2>1. n \in Request
    BY <1>1, <1>2, ZenonT(30) DEF Request, Kinds, Stages, Outcomes
  <2>2. Moved(n, q, "respond", c, q.session, q.issued, q.targets)
    BY <1>1, <1>2 DEF Request, Moved, Keeps
  <2> HIDE DEF n
  <2>3. LocalsOK(n)
    BY <1>1, <1>2, <2>2, <1>4 DEF LocalsOK, Moved, Keeps
  <2> QED
    BY <1>4, <2>1, <2>2, <2>3, FrameStep DEF n
<1> QED
  BY <1>3, <1>4

\* ConsumeAuthorizationCode moves r alone: what it leaves in the hands of r, and in which tables.
LEMMA ConsumeAuthorizationCodeMoves ==
    ASSUME TypeOK, Locals, NEW r \in Reqs, ConsumeAuthorizationCode(r)
    PROVE  LET q == req[r] IN
           /\ Frame(r)
           /\ \/ /\ ~code[q.code].consumed
                 /\ code' = [code EXCEPT ![q.code].consumed = TRUE]
                 /\ code[q.code].client = q.client
                 /\ Moved(req'[r], q, "account", q.code, q.session, q.issued, q.targets)
              \/ /\ UNCHANGED code \/ code' = [code EXCEPT ![q.code].consumed = TRUE]
                 /\ Ended(req'[r], q, "refused")
<1> DEFINE q == req[r]
<1>1. q \in Request /\ LocalsOK(q)
  BY DEF TypeOK, Locals
<1>2. q.stage = "consume" /\ q.kind = "exchange" /\ "exchange" \in DOMAIN OnActive
  BY <1>1 DEF ConsumeAuthorizationCode, At, Idle, LocalsOK, OnActive
<1>3. \/ /\ ~code[q.code].consumed
         /\ code' = [code EXCEPT ![q.code].consumed = TRUE]
         /\ code[q.code].client = q.client
         /\ req' = [req EXCEPT ![r] = [q EXCEPT !.stage = "account"]]
      \/ /\ UNCHANGED code \/ code' = [code EXCEPT ![q.code].consumed = TRUE]
         /\ End(r, "refused")
  BY <1>1 DEF ConsumeAuthorizationCode, Goto, End, Unconsumed, SameClient
<1>4. ASSUME ~code[q.code].consumed,
            code' = [code EXCEPT ![q.code].consumed = TRUE],
            code[q.code].client = q.client,
            req' = [req EXCEPT ![r] = [q EXCEPT !.stage = "account"]]
      PROVE  Frame(r) /\ Moved(req'[r], q, "account", q.code, q.session, q.issued, q.targets)
  <2> DEFINE n == [q EXCEPT !.stage = "account"]
  <2>1. n \in Request
    BY <1>1, <1>2, ZenonT(30) DEF Request, Kinds, Stages, Outcomes
  <2>2. Moved(n, q, "account", q.code, q.session, q.issued, q.targets)
    BY <1>1, <1>2 DEF Request, Moved, Keeps
  <2> HIDE DEF n
  <2>3. LocalsOK(n)
    BY <1>1, <1>2, <2>2, <1>4 DEF LocalsOK, Moved, Keeps
  <2> QED
    BY <1>4, <2>1, <2>2, <2>3, FrameStep DEF n
<1>5. ASSUME UNCHANGED code \/ code' = [code EXCEPT ![q.code].consumed = TRUE],
            End(r, "refused")
      PROVE  Frame(r) /\ Ended(req'[r], q, "refused")
  BY <1>1, <1>2, <1>5, EndStep DEF Outcomes
<1> QED
  BY <1>3, <1>4, <1>5

\* CreateSession moves r alone: what it leaves in the hands of r, and in which tables.
LEMMA CreateSessionMoves ==
    ASSUME TypeOK, Locals, NEW r \in Reqs, CreateSession(r)
    PROVE  LET q == req[r] IN
           /\ Frame(r)
           /\ \E s \in Sessions :
                 /\ ~Opened(s)
                 /\ session' = [session EXCEPT ![s] = [NoSession EXCEPT !.user = q.user, !.client = q.client, !.code = q.code]]
                 /\ Moved(req'[r], q, "issue", q.code, s, q.issued, q.targets)
<1> DEFINE q == req[r]
<1>1. q \in Request /\ LocalsOK(q)
  BY DEF TypeOK, Locals
<1>2. q.stage = "open"
  BY <1>1 DEF CreateSession, At, Idle, LocalsOK
<1>3. \E s \in Sessions :
         /\ ~Opened(s)
         /\ session' = [session EXCEPT ![s] = [NoSession EXCEPT !.user = q.user, !.client = q.client, !.code = q.code]]
         /\ req' = [req EXCEPT ![r] = [q EXCEPT !.stage = "issue", !.session = s]]
  BY <1>1 DEF CreateSession
<1>4. ASSUME NEW s \in Sessions,
            ~Opened(s),
            session' = [session EXCEPT ![s] = [NoSession EXCEPT !.user = q.user, !.client = q.client, !.code = q.code]],
            req' = [req EXCEPT ![r] = [q EXCEPT !.stage = "issue", !.session = s]]
      PROVE  Frame(r) /\ Moved(req'[r], q, "issue", q.code, s, q.issued, q.targets)
  <2> DEFINE n == [q EXCEPT !.stage = "issue", !.session = s]
  <2>1. n \in Request
    BY <1>1, <1>2, ZenonT(30) DEF Request, Kinds, Stages, Outcomes
  <2>2. Moved(n, q, "issue", q.code, s, q.issued, q.targets)
    BY <1>1, <1>2 DEF Request, Moved, Keeps
  <2> HIDE DEF n
  <2>3. LocalsOK(n)
    BY <1>1, <1>2, <2>2, <1>4 DEF LocalsOK, Moved, Keeps
  <2> QED
    BY <1>4, <2>1, <2>2, <2>3, FrameStep DEF n
<1> QED
  BY <1>3, <1>4

\* CheckSession moves r alone: what it leaves in the hands of r, and in which tables.
LEMMA CheckSessionMoves ==
    ASSUME TypeOK, Locals, NEW r \in Reqs, CheckSession(r)
    PROVE  LET q == req[r] IN
           /\ Frame(r)
           /\ \/ Ended(req'[r], q, "refused")
              \/ /\ ~session[q.session].revoked
                 /\ Moved(req'[r], q, "mark", q.code, q.session, q.issued, q.targets)
<1> DEFINE q == req[r]
<1>1. q \in Request /\ LocalsOK(q)
  BY DEF TypeOK, Locals
<1>2. q.stage = "check"
  BY <1>1 DEF CheckSession, At, Idle, LocalsOK
<1>3. \/ End(r, "refused")
      \/ /\ ~session[q.session].revoked
         /\ req' = [req EXCEPT ![r] = [q EXCEPT !.stage = "mark"]]
  BY <1>1 DEF CheckSession, Goto, NotRevoked
<1>4. ASSUME End(r, "refused")
      PROVE  Frame(r) /\ Ended(req'[r], q, "refused")
  BY <1>1, <1>2, <1>4, EndStep DEF Outcomes
<1>5. ASSUME ~session[q.session].revoked,
            req' = [req EXCEPT ![r] = [q EXCEPT !.stage = "mark"]]
      PROVE  Frame(r) /\ Moved(req'[r], q, "mark", q.code, q.session, q.issued, q.targets)
  <2> DEFINE n == [q EXCEPT !.stage = "mark"]
  <2>1. n \in Request
    BY <1>1, <1>2, ZenonT(30) DEF Request, Kinds, Stages, Outcomes
  <2>2. Moved(n, q, "mark", q.code, q.session, q.issued, q.targets)
    BY <1>1, <1>2 DEF Request, Moved, Keeps
  <2> HIDE DEF n
  <2>3. LocalsOK(n)
    BY <1>1, <1>2, <2>2, <1>5 DEF LocalsOK, Moved, Keeps
  <2> QED
    BY <1>5, <2>1, <2>2, <2>3, FrameStep DEF n
<1> QED
  BY <1>3, <1>4, <1>5

\* MarkUsed moves r alone: what it leaves in the hands of r, and in which tables.
LEMMA MarkUsedMoves ==
    ASSUME TypeOK, Locals, NEW r \in Reqs, MarkUsed(r)
    PROVE  LET q == req[r] IN
           /\ Frame(r)
           /\ \/ /\ ~token[q.token].used
                 /\ token' = [token EXCEPT ![q.token].used = TRUE]
                 /\ session[q.session].client = q.client
                 /\ Moved(req'[r], q, "account", q.code, q.session, q.issued, q.targets)
              \/ /\ token' = [token EXCEPT ![q.token].used = TRUE]
                 /\ Ended(req'[r], q, "refused")
              \/ \E ts \in SUBSET Sessions :
                    /\ UNCHANGED token
                    /\ ts = {q.session}
                    /\ Moved(req'[r], q, "row", q.code, q.session, q.issued, ts)
<1> DEFINE q == req[r]
<1>1. q \in Request /\ LocalsOK(q)
  BY DEF TypeOK, Locals
<1>2. q.stage = "mark" /\ q.kind = "refresh" /\ "refresh" \in DOMAIN OnActive /\ "refresh" \in DOMAIN AfterRevoking
  BY <1>1 DEF MarkUsed, At, Idle, LocalsOK, OnActive, AfterRevoking
<1>3. \/ /\ ~token[q.token].used
         /\ token' = [token EXCEPT ![q.token].used = TRUE]
         /\ session[q.session].client = q.client
         /\ req' = [req EXCEPT ![r] = [q EXCEPT !.stage = "account"]]
      \/ /\ token' = [token EXCEPT ![q.token].used = TRUE]
         /\ End(r, "refused")
      \/ \E ts \in SUBSET Sessions :
            /\ UNCHANGED token
            /\ ts = {q.session}
            /\ req' = [req EXCEPT ![r] = [q EXCEPT !.stage = "row", !.targets = ts]]
  <2>1. q.session \in Sessions /\ {q.session} \in SUBSET Sessions
    BY <1>1, <1>2 DEF LocalsOK
  <2>2. CASE Unused(q.token)
    BY <1>1, <2>2 DEF MarkUsed, Goto, SameClient, Unused
  <2>3. CASE ~Unused(q.token)
    <3> DEFINE ts == {q.session}
    <3>1. req' = [req EXCEPT ![r] = [q EXCEPT !.stage = "row", !.targets = ts]] /\ UNCHANGED token
      BY <2>3 DEF MarkUsed, Reuse
    <3> HIDE DEF q
    <3> QED
      BY <2>1, <3>1
  <2> QED
    BY <2>2, <2>3
<1>4. ASSUME ~token[q.token].used,
            token' = [token EXCEPT ![q.token].used = TRUE],
            session[q.session].client = q.client,
            req' = [req EXCEPT ![r] = [q EXCEPT !.stage = "account"]]
      PROVE  Frame(r) /\ Moved(req'[r], q, "account", q.code, q.session, q.issued, q.targets)
  <2> DEFINE n == [q EXCEPT !.stage = "account"]
  <2>1. n \in Request
    BY <1>1, <1>2, ZenonT(30) DEF Request, Kinds, Stages, Outcomes
  <2>2. Moved(n, q, "account", q.code, q.session, q.issued, q.targets)
    BY <1>1, <1>2 DEF Request, Moved, Keeps
  <2> HIDE DEF n
  <2>3. LocalsOK(n)
    BY <1>1, <1>2, <2>2, <1>4 DEF LocalsOK, Moved, Keeps
  <2> QED
    BY <1>4, <2>1, <2>2, <2>3, FrameStep DEF n
<1>5. ASSUME token' = [token EXCEPT ![q.token].used = TRUE],
            End(r, "refused")
      PROVE  Frame(r) /\ Ended(req'[r], q, "refused")
  BY <1>1, <1>2, <1>5, EndStep DEF Outcomes
<1>6. ASSUME NEW ts \in SUBSET Sessions,
            UNCHANGED token,
            ts = {q.session},
            req' = [req EXCEPT ![r] = [q EXCEPT !.stage = "row", !.targets = ts]]
      PROVE  Frame(r) /\ Moved(req'[r], q, "row", q.code, q.session, q.issued, ts)
  <2> DEFINE n == [q EXCEPT !.stage = "row", !.targets = ts]
  <2>1. n \in Request
    BY <1>1, <1>2, ZenonT(30) DEF Request, Kinds, Stages, Outcomes
  <2>2. Moved(n, q, "row", q.code, q.session, q.issued, ts)
    BY <1>1, <1>2 DEF Request, Moved, Keeps
  <2> HIDE DEF n
  <2>3. LocalsOK(n)
    BY <1>1, <1>2, <2>2, <1>6 DEF LocalsOK, Moved, Keeps
  <2> QED
    BY <1>6, <2>1, <2>2, <2>3, FrameStep DEF n
<1> QED
  BY <1>3, <1>4, <1>5, <1>6

\* IssueRefreshToken moves r alone: what it leaves in the hands of r, and in which tables.
LEMMA IssueRefreshTokenMoves ==
    ASSUME TypeOK, Locals, NEW r \in Reqs, IssueRefreshToken(r)
    PROVE  LET q == req[r] IN
           /\ Frame(r)
           /\ \E t \in Tokens :
                 /\ ~Issued(t)
                 /\ token' = [token EXCEPT ![t] = [NoToken EXCEPT !.session = q.session, !.parent = q.token]]
                 /\ Moved(req'[r], q, "respond", q.code, q.session, t, q.targets)
<1> DEFINE q == req[r]
<1>1. q \in Request /\ LocalsOK(q)
  BY DEF TypeOK, Locals
<1>2. q.stage = "issue"
  BY <1>1 DEF IssueRefreshToken, At, Idle, LocalsOK
<1>3. \E t \in Tokens :
         /\ ~Issued(t)
         /\ token' = [token EXCEPT ![t] = [NoToken EXCEPT !.session = q.session, !.parent = q.token]]
         /\ req' = [req EXCEPT ![r] = [q EXCEPT !.stage = "respond", !.issued = t]]
  BY <1>1 DEF IssueRefreshToken
<1>4. ASSUME NEW t \in Tokens,
            ~Issued(t),
            token' = [token EXCEPT ![t] = [NoToken EXCEPT !.session = q.session, !.parent = q.token]],
            req' = [req EXCEPT ![r] = [q EXCEPT !.stage = "respond", !.issued = t]]
      PROVE  Frame(r) /\ Moved(req'[r], q, "respond", q.code, q.session, t, q.targets)
  <2> DEFINE n == [q EXCEPT !.stage = "respond", !.issued = t]
  <2>1. n \in Request
    BY <1>1, <1>2, ZenonT(30) DEF Request, Kinds, Stages, Outcomes
  <2>2. Moved(n, q, "respond", q.code, q.session, t, q.targets)
    BY <1>1, <1>2 DEF Request, Moved, Keeps
  <2> HIDE DEF n
  <2>3. LocalsOK(n)
    BY <1>1, <1>2, <2>2, <1>4 DEF LocalsOK, Moved, Keeps
  <2> QED
    BY <1>4, <2>1, <2>2, <2>3, FrameStep DEF n
<1> QED
  BY <1>3, <1>4

\* Respond moves r alone: what it leaves in the hands of r, and in which tables.
LEMMA RespondMoves ==
    ASSUME TypeOK, Locals, NEW r \in Reqs, Respond(r)
    PROVE  LET q == req[r] IN
           /\ Frame(r)
           /\ \/ /\ q.kind \in {"signIn", "authorize"}
                 /\ wire' = wire \cup {q.code}
                 /\ Ended(req'[r], q, "code")
              \/ /\ q.kind \in {"exchange", "refresh"}
                 /\ wire' = wire \cup {q.issued}
                 /\ Ended(req'[r], q, "tokens")
<1> DEFINE q == req[r]
<1>1. q \in Request /\ LocalsOK(q)
  BY DEF TypeOK, Locals
<1>2. q.stage = "respond"
  BY <1>1 DEF Respond, At, Idle, LocalsOK
<1>3. \/ /\ q.kind \in {"signIn", "authorize"}
         /\ wire' = wire \cup {q.code}
         /\ End(r, "code")
      \/ /\ q.kind \in {"exchange", "refresh"}
         /\ wire' = wire \cup {q.issued}
         /\ End(r, "tokens")
  BY <1>1 DEF Respond
<1>4. ASSUME q.kind \in {"signIn", "authorize"},
            wire' = wire \cup {q.code},
            End(r, "code")
      PROVE  Frame(r) /\ Ended(req'[r], q, "code")
  BY <1>1, <1>2, <1>4, EndStep DEF Outcomes
<1>5. ASSUME q.kind \in {"exchange", "refresh"},
            wire' = wire \cup {q.issued},
            End(r, "tokens")
      PROVE  Frame(r) /\ Ended(req'[r], q, "tokens")
  BY <1>1, <1>2, <1>5, EndStep DEF Outcomes
<1> QED
  BY <1>3, <1>4, <1>5

\* RequireLiveSession moves r alone: what it leaves in the hands of r, and in which tables.
LEMMA RequireLiveSessionMoves ==
    ASSUME TypeOK, Locals, NEW r \in Reqs, RequireLiveSession(r)
    PROVE  LET q == req[r] IN
           /\ Frame(r)
           /\ \/ Ended(req'[r], q, "refused")
              \/ /\ ~session[q.session].revoked
                 /\ Ended(req'[r], q, "granted")
<1> DEFINE q == req[r]
<1>1. q \in Request /\ LocalsOK(q)
  BY DEF TypeOK, Locals
<1>2. q.stage = "actor" /\ q.kind = "access"
  BY <1>1 DEF RequireLiveSession, At, Idle, LocalsOK
<1>3. \/ End(r, "refused")
      \/ /\ ~session[q.session].revoked
         /\ End(r, "granted")
  BY <1>1 DEF RequireLiveSession, NotRevoked
<1>4. ASSUME End(r, "refused")
      PROVE  Frame(r) /\ Ended(req'[r], q, "refused")
  BY <1>1, <1>2, <1>4, EndStep DEF Outcomes
<1>5. ASSUME ~session[q.session].revoked,
            End(r, "granted")
      PROVE  Frame(r) /\ Ended(req'[r], q, "granted")
  BY <1>1, <1>2, <1>5, EndStep DEF Outcomes
<1> QED
  BY <1>3, <1>4, <1>5

\* Patch moves r alone: what it leaves in the hands of r, and in which tables.
LEMMA PatchMoves ==
    ASSUME TypeOK, Locals, NEW r \in Reqs, Patch(r)
    PROVE  LET q == req[r] IN
           /\ Frame(r)
           /\ \/ /\ q.kind = "disable"
                 /\ status' = [status EXCEPT ![q.user] = "disabled"]
                 /\ UNCHANGED barred
                 /\ Moved(req'[r], q, "list", q.code, q.session, q.issued, q.targets)
              \/ /\ status' = [status EXCEPT ![q.user] = "active"]
                 /\ barred' = [x \in Reqs |-> IF req[x].user = q.user THEN barred[x] \ {"disabled"} ELSE barred[x]]
                 /\ Ended(req'[r], q, "ok")
<1> DEFINE q == req[r]
<1>1. q \in Request /\ LocalsOK(q)
  BY DEF TypeOK, Locals
<1>2. q.stage = "patch"
  BY <1>1 DEF Patch, At, Idle, LocalsOK
<1>3. \/ /\ q.kind = "disable"
         /\ status' = [status EXCEPT ![q.user] = "disabled"]
         /\ UNCHANGED barred
         /\ req' = [req EXCEPT ![r] = [q EXCEPT !.stage = "list"]]
      \/ /\ status' = [status EXCEPT ![q.user] = "active"]
         /\ barred' = [x \in Reqs |-> IF req[x].user = q.user THEN barred[x] \ {"disabled"} ELSE barred[x]]
         /\ End(r, "ok")
  BY <1>1 DEF Patch, Goto
<1>4. ASSUME q.kind = "disable",
            status' = [status EXCEPT ![q.user] = "disabled"],
            UNCHANGED barred,
            req' = [req EXCEPT ![r] = [q EXCEPT !.stage = "list"]]
      PROVE  Frame(r) /\ Moved(req'[r], q, "list", q.code, q.session, q.issued, q.targets)
  <2> DEFINE n == [q EXCEPT !.stage = "list"]
  <2>1. n \in Request
    BY <1>1, <1>2, ZenonT(30) DEF Request, Kinds, Stages, Outcomes
  <2>2. Moved(n, q, "list", q.code, q.session, q.issued, q.targets)
    BY <1>1, <1>2 DEF Request, Moved, Keeps
  <2> HIDE DEF n
  <2>3. LocalsOK(n)
    BY <1>1, <1>2, <2>2, <1>4 DEF LocalsOK, Moved, Keeps
  <2> QED
    BY <1>4, <2>1, <2>2, <2>3, FrameStep DEF n
<1>5. ASSUME status' = [status EXCEPT ![q.user] = "active"],
            barred' = [x \in Reqs |-> IF req[x].user = q.user THEN barred[x] \ {"disabled"} ELSE barred[x]],
            End(r, "ok")
      PROVE  Frame(r) /\ Ended(req'[r], q, "ok")
  BY <1>1, <1>2, <1>5, EndStep DEF Outcomes
<1> QED
  BY <1>3, <1>4, <1>5

\* ListSessions moves r alone: what it leaves in the hands of r, and in which tables.
LEMMA ListSessionsMoves ==
    ASSUME TypeOK, Locals, NEW r \in Reqs, ListSessions(r)
    PROVE  LET q == req[r] IN
           /\ Frame(r)
           /\ \/ \E all \in SUBSET Sessions :
                    /\ all = {s \in Sessions : session[s].user = q.user}
                    /\ all # {}
                    /\ Moved(req'[r], q, "row", q.code, q.session, q.issued, all)
              \/ \E all \in SUBSET Sessions :
                    /\ all = {}
                    /\ Moved(req'[r], q, AfterRevoking[q.kind], q.code, q.session, q.issued, all)
<1> DEFINE q == req[r]
<1>1. q \in Request /\ LocalsOK(q)
  BY DEF TypeOK, Locals
<1>2. q.stage = "list" /\ q.kind \in DOMAIN AfterRevoking
  BY <1>1 DEF ListSessions, At, Idle, LocalsOK, AfterRevoking
<1>3. \/ \E all \in SUBSET Sessions :
            /\ all = {s \in Sessions : session[s].user = q.user}
            /\ all # {}
            /\ req' = [req EXCEPT ![r] = [q EXCEPT !.targets = all, !.stage = "row"]]
      \/ \E all \in SUBSET Sessions :
            /\ all = {}
            /\ req' = [req EXCEPT ![r] = [q EXCEPT !.targets = all, !.stage = AfterRevoking[q.kind]]]
  BY <1>1 DEF ListSessions
<1>4. ASSUME NEW all \in SUBSET Sessions,
            all = {s \in Sessions : session[s].user = q.user},
            all # {},
            req' = [req EXCEPT ![r] = [q EXCEPT !.targets = all, !.stage = "row"]]
      PROVE  Frame(r) /\ Moved(req'[r], q, "row", q.code, q.session, q.issued, all)
  <2> DEFINE n == [q EXCEPT !.targets = all, !.stage = "row"]
  <2>1. n \in Request
    BY <1>1, <1>2, ZenonT(30) DEF Request, Kinds, Stages, Outcomes
  <2>2. Moved(n, q, "row", q.code, q.session, q.issued, all)
    BY <1>1, <1>2 DEF Request, Moved, Keeps
  <2> HIDE DEF n
  <2>3. LocalsOK(n)
    BY <1>1, <1>2, <2>2, <1>4 DEF LocalsOK, Moved, Keeps
  <2> QED
    BY <1>4, <2>1, <2>2, <2>3, FrameStep DEF n
<1>5. ASSUME NEW all \in SUBSET Sessions,
            all = {},
            req' = [req EXCEPT ![r] = [q EXCEPT !.targets = all, !.stage = AfterRevoking[q.kind]]]
      PROVE  Frame(r) /\ Moved(req'[r], q, AfterRevoking[q.kind], q.code, q.session, q.issued, all)
  <2> DEFINE n == [q EXCEPT !.targets = all, !.stage = AfterRevoking[q.kind]]
  <2>1. n \in Request
    BY <1>1, <1>2, AfterRevokingStage, ZenonT(30) DEF Request, Kinds, Stages, Outcomes
  <2>2. Moved(n, q, AfterRevoking[q.kind], q.code, q.session, q.issued, all)
    BY <1>1, <1>2 DEF Request, Moved, Keeps
  <2> HIDE DEF n
  <2>3. LocalsOK(n)
    BY <1>1, <1>2, <2>2, <1>5, AfterRevokingStage DEF LocalsOK, Moved, Keeps
  <2> QED
    BY <1>5, <2>1, <2>2, <2>3, FrameStep DEF n
<1> QED
  BY <1>3, <1>4, <1>5

\* RevokeSessionRow moves r alone: what it leaves in the hands of r, and in which tables.
LEMMA RevokeSessionRowMoves ==
    ASSUME TypeOK, Locals, NEW r \in Reqs, RevokeSessionRow(r)
    PROVE  LET q == req[r] IN
           /\ Frame(r)
           /\ \E s \in Sessions :
                 /\ s \in q.targets
                 /\ session' = [session EXCEPT ![s].revoked = TRUE]
                 /\ Moved(req'[r], q, "chain", q.code, s, q.issued, q.targets)
<1> DEFINE q == req[r]
<1>1. q \in Request /\ LocalsOK(q)
  BY DEF TypeOK, Locals
<1>2. q.stage = "row"
  BY <1>1 DEF RevokeSessionRow, At, Idle, LocalsOK
<1>3. \E s \in Sessions :
         /\ s \in q.targets
         /\ session' = [session EXCEPT ![s].revoked = TRUE]
         /\ req' = [req EXCEPT ![r] = [q EXCEPT !.stage = "chain", !.session = s]]
  BY <1>1 DEF RevokeSessionRow, Request
<1>4. ASSUME NEW s \in Sessions,
            s \in q.targets,
            session' = [session EXCEPT ![s].revoked = TRUE],
            req' = [req EXCEPT ![r] = [q EXCEPT !.stage = "chain", !.session = s]]
      PROVE  Frame(r) /\ Moved(req'[r], q, "chain", q.code, s, q.issued, q.targets)
  <2> DEFINE n == [q EXCEPT !.stage = "chain", !.session = s]
  <2>1. n \in Request
    BY <1>1, <1>2, ZenonT(30) DEF Request, Kinds, Stages, Outcomes
  <2>2. Moved(n, q, "chain", q.code, s, q.issued, q.targets)
    BY <1>1, <1>2 DEF Request, Moved, Keeps
  <2> HIDE DEF n
  <2>3. LocalsOK(n)
    BY <1>1, <1>2, <2>2, <1>4 DEF LocalsOK, Moved, Keeps
  <2> QED
    BY <1>4, <2>1, <2>2, <2>3, FrameStep DEF n
<1> QED
  BY <1>3, <1>4

\* RevokeTokenRows moves r alone: what it leaves in the hands of r, and in which tables.
LEMMA RevokeTokenRowsMoves ==
    ASSUME TypeOK, Locals, NEW r \in Reqs, RevokeTokenRows(r)
    PROVE  LET q == req[r] IN
           /\ Frame(r)
           /\ \/ \E left \in SUBSET Sessions :
                    /\ left \subseteq q.targets
                    /\ left # {}
                    /\ Moved(req'[r], q, "row", q.code, q.session, q.issued, left)
              \/ \E left \in SUBSET Sessions :
                    /\ left = {}
                    /\ Moved(req'[r], q, AfterRevoking[q.kind], q.code, q.session, q.issued, left)
<1> DEFINE q == req[r]
<1>1. q \in Request /\ LocalsOK(q)
  BY DEF TypeOK, Locals
<1>2. q.stage = "chain" /\ q.kind \in DOMAIN AfterRevoking
  BY <1>1 DEF RevokeTokenRows, At, Idle, LocalsOK
<1>3. \/ \E left \in SUBSET Sessions :
            /\ left \subseteq q.targets
            /\ left # {}
            /\ req' = [req EXCEPT ![r] = [q EXCEPT !.targets = left, !.stage = "row"]]
      \/ \E left \in SUBSET Sessions :
            /\ left = {}
            /\ req' = [req EXCEPT ![r] = [q EXCEPT !.targets = left, !.stage = AfterRevoking[q.kind]]]
  BY <1>1 DEF RevokeTokenRows, Request
<1>4. ASSUME NEW left \in SUBSET Sessions,
            left \subseteq q.targets,
            left # {},
            req' = [req EXCEPT ![r] = [q EXCEPT !.targets = left, !.stage = "row"]]
      PROVE  Frame(r) /\ Moved(req'[r], q, "row", q.code, q.session, q.issued, left)
  <2> DEFINE n == [q EXCEPT !.targets = left, !.stage = "row"]
  <2>1. n \in Request
    BY <1>1, <1>2, ZenonT(30) DEF Request, Kinds, Stages, Outcomes
  <2>2. Moved(n, q, "row", q.code, q.session, q.issued, left)
    BY <1>1, <1>2 DEF Request, Moved, Keeps
  <2> HIDE DEF n
  <2>3. LocalsOK(n)
    BY <1>1, <1>2, <2>2, <1>4 DEF LocalsOK, Moved, Keeps
  <2> QED
    BY <1>4, <2>1, <2>2, <2>3, FrameStep DEF n
<1>5. ASSUME NEW left \in SUBSET Sessions,
            left = {},
            req' = [req EXCEPT ![r] = [q EXCEPT !.targets = left, !.stage = AfterRevoking[q.kind]]]
      PROVE  Frame(r) /\ Moved(req'[r], q, AfterRevoking[q.kind], q.code, q.session, q.issued, left)
  <2> DEFINE n == [q EXCEPT !.targets = left, !.stage = AfterRevoking[q.kind]]
  <2>1. n \in Request
    BY <1>1, <1>2, AfterRevokingStage, ZenonT(30) DEF Request, Kinds, Stages, Outcomes
  <2>2. Moved(n, q, AfterRevoking[q.kind], q.code, q.session, q.issued, left)
    BY <1>1, <1>2 DEF Request, Moved, Keeps
  <2> HIDE DEF n
  <2>3. LocalsOK(n)
    BY <1>1, <1>2, <2>2, <1>5, AfterRevokingStage DEF LocalsOK, Moved, Keeps
  <2> QED
    BY <1>5, <2>1, <2>2, <2>3, FrameStep DEF n
<1> QED
  BY <1>3, <1>4, <1>5

\* AnswerRevocation moves r alone: what it leaves in the hands of r, and in which tables.
LEMMA AnswerRevocationMoves ==
    ASSUME TypeOK, Locals, NEW r \in Reqs, AnswerRevocation(r)
    PROVE  LET q == req[r] IN
           /\ Frame(r)
           /\ \/ Ended(req'[r], q, "reuse")
              \/ Ended(req'[r], q, "ok")
<1> DEFINE q == req[r]
<1>1. q \in Request /\ LocalsOK(q)
  BY DEF TypeOK, Locals
<1>2. q.stage = "ended"
  BY <1>1 DEF AnswerRevocation, At, Idle, LocalsOK
<1>3. \/ End(r, "reuse")
      \/ End(r, "ok")
  BY <1>1 DEF AnswerRevocation
<1>4. ASSUME End(r, "reuse")
      PROVE  Frame(r) /\ Ended(req'[r], q, "reuse")
  BY <1>1, <1>2, <1>4, EndStep DEF Outcomes
<1>5. ASSUME End(r, "ok")
      PROVE  Frame(r) /\ Ended(req'[r], q, "ok")
  BY <1>1, <1>2, <1>5, EndStep DEF Outcomes
<1> QED
  BY <1>3, <1>4, <1>5

\* CloseSsoSessions moves r alone: what it leaves in the hands of r, and in which tables.
LEMMA CloseSsoSessionsMoves ==
    ASSUME TypeOK, Locals, NEW r \in Reqs, CloseSsoSessions(r)
    PROVE  LET q == req[r] IN
           /\ Frame(r)
           /\ Ended(req'[r], q, "ok")
<1> DEFINE q == req[r]
<1>1. q \in Request /\ LocalsOK(q)
  BY DEF TypeOK, Locals
<1>2. q.stage = "closeSso"
  BY <1>1 DEF CloseSsoSessions, At, Idle, LocalsOK
<1>3. End(r, "ok")
  BY <1>1 DEF CloseSsoSessions
<1>4. ASSUME End(r, "ok")
      PROVE  Frame(r) /\ Ended(req'[r], q, "ok")
  BY <1>1, <1>2, <1>4, EndStep DEF Outcomes
<1> QED
  BY <1>3, <1>4

\* Fail moves r alone: what it leaves in the hands of r, and in which tables.
LEMMA FailMoves ==
    ASSUME TypeOK, Locals, NEW r \in Reqs, Fail(r)
    PROVE  LET q == req[r] IN
           /\ Frame(r)
           /\ Ended(req'[r], q, "failed")
<1> DEFINE q == req[r]
<1>1. q \in Request /\ LocalsOK(q)
  BY DEF TypeOK, Locals
<1>2. q.stage # "idle"
  BY <1>1 DEF Fail, At, Idle, LocalsOK
<1>3. End(r, "failed")
  BY <1>1 DEF Fail
<1>4. ASSUME End(r, "failed")
      PROVE  Frame(r) /\ Ended(req'[r], q, "failed")
  BY <1>1, <1>2, <1>4, EndStep DEF Outcomes
<1> QED
  BY <1>3, <1>4

-----------------------------------------------------------------------------
(* Types. *)

Step(r) == Begin(r) \/ Continue(r) \/ Fail(r)

\* Whatever a request does, it does to its own local variables only.
LEMMA StepFrame ==
    ASSUME TypeOK, Locals, NEW r \in Reqs, Step(r)
    PROVE  Frame(r)
<1>1. CASE BeginSignIn(r)
  BY <1>1, BeginSignInMoves
<1>2. CASE BeginAuthorize(r)
  BY <1>2, BeginAuthorizeMoves
<1>3. CASE BeginExchange(r)
  BY <1>3, BeginExchangeMoves
<1>4. CASE BeginRefresh(r)
  BY <1>4, BeginRefreshMoves
<1>5. CASE BeginAccess(r)
  BY <1>5, BeginAccessMoves
<1>6. CASE BeginRevoke(r)
  BY <1>6, BeginRevokeMoves
<1>7. CASE BeginPrune(r)
  BY <1>7, BeginPruneMoves
<1>8. CASE BeginLogout(r)
  BY <1>8, BeginLogoutMoves
<1>9. CASE BeginSweep(r)
  BY <1>9, BeginSweepMoves
<1>10. CASE BeginPatch(r)
  BY <1>10, BeginPatchMoves
<1>11. CASE ReadAccount(r)
  BY <1>11, ReadAccountMoves
<1>12. CASE RotateCookie(r)
  BY <1>12, RotateCookieMoves
<1>13. CASE StartSso(r)
  BY <1>13, StartSsoMoves
<1>14. CASE IssueAuthorizationCode(r)
  BY <1>14, IssueAuthorizationCodeMoves
<1>15. CASE ConsumeAuthorizationCode(r)
  BY <1>15, ConsumeAuthorizationCodeMoves
<1>16. CASE CreateSession(r)
  BY <1>16, CreateSessionMoves
<1>17. CASE CheckSession(r)
  BY <1>17, CheckSessionMoves
<1>18. CASE MarkUsed(r)
  BY <1>18, MarkUsedMoves
<1>19. CASE IssueRefreshToken(r)
  BY <1>19, IssueRefreshTokenMoves
<1>20. CASE Respond(r)
  BY <1>20, RespondMoves
<1>21. CASE RequireLiveSession(r)
  BY <1>21, RequireLiveSessionMoves
<1>22. CASE Patch(r)
  BY <1>22, PatchMoves
<1>23. CASE ListSessions(r)
  BY <1>23, ListSessionsMoves
<1>24. CASE RevokeSessionRow(r)
  BY <1>24, RevokeSessionRowMoves
<1>25. CASE RevokeTokenRows(r)
  BY <1>25, RevokeTokenRowsMoves
<1>26. CASE AnswerRevocation(r)
  BY <1>26, AnswerRevocationMoves
<1>27. CASE CloseSsoSessions(r)
  BY <1>27, CloseSsoSessionsMoves
<1>28. CASE Fail(r)
  BY <1>28, FailMoves
<1> QED
  BY <1>1, <1>2, <1>3, <1>4, <1>5, <1>6, <1>7, <1>8, <1>9, <1>10, <1>11, <1>12, <1>13, <1>14, <1>15, <1>16, <1>17, <1>18, <1>19, <1>20, <1>21, <1>22, <1>23, <1>24, <1>25, <1>26, <1>27, <1>28 DEF Step, Begin, Continue

RowsTyped ==
    /\ status \in [Users -> Statuses] /\ sso \in [Ssos -> SsoRow]
    /\ code \in [Codes -> CodeRow] /\ session \in [Sessions -> SessionRow]
    /\ token \in [Tokens -> TokenRow] /\ wire \subseteq Codes \cup Tokens
    /\ barred \in [Reqs -> SUBSET {"revoked", "disabled"}]

\* A statement of one invocation keeps rows and local variables well formed.
LEMMA StepTypes ==
    ASSUME TypeOK, Locals, NEW r \in Reqs, Step(r)
    PROVE  RowsTyped'
<1> DEFINE q == req[r]
<1> USE DEF RowsTyped
<1>0. q \in Request /\ LocalsOK(q)
  BY DEF TypeOK, Locals
<1>1. CASE BeginSignIn(r)
  BY <1>0, <1>1 DEF BeginSignIn, TypeOK, tables, Bar
<1>2. CASE BeginAuthorize(r)
  BY <1>0, <1>2 DEF BeginAuthorize, TypeOK, tables, Bar
<1>3. CASE BeginExchange(r)
  BY <1>0, <1>3 DEF BeginExchange, TypeOK, tables, Bar
<1>4. CASE BeginRefresh(r)
  BY <1>0, <1>4 DEF BeginRefresh, TypeOK, tables, Bar
<1>5. CASE BeginAccess(r)
  BY <1>0, <1>5 DEF BeginAccess, TypeOK, tables, Bar
<1>6. CASE BeginRevoke(r)
  BY <1>0, <1>6 DEF BeginRevoke, TypeOK, tables
<1>7. CASE BeginPrune(r)
  BY <1>0, <1>7 DEF BeginPrune, TypeOK, tables
<1>8. CASE BeginLogout(r)
  BY <1>0, <1>8 DEF BeginLogout, TypeOK, tables
<1>9. CASE BeginSweep(r)
  BY <1>0, <1>9 DEF BeginSweep, TypeOK, tables
<1>10. CASE BeginPatch(r)
  BY <1>0, <1>10 DEF BeginPatch, TypeOK, tables
<1>11. CASE ReadAccount(r)
  BY <1>0, <1>11 DEF ReadAccount, TypeOK, tables
<1>12. CASE RotateCookie(r)
  <2>1. sso' = [sso EXCEPT ![q.sso] = [sso[q.sso] EXCEPT !.revoked = TRUE]] \/ UNCHANGED sso
    BY <1>0, <1>12 DEF RotateCookie, tables
  <2>2. \A row \in SsoRow : [row EXCEPT !.revoked = TRUE] \in SsoRow
    BY SsoRowSteps
  <2>3. sso' \in [Ssos -> SsoRow]
    BY <2>1, <2>2 DEF TypeOK
  <2> QED
    BY <1>12, <2>3 DEF RotateCookie, TypeOK, tables
<1>13. CASE StartSso(r)
  <2>1. PICK k \in Ssos : sso' = [sso EXCEPT ![k] = [NoSso EXCEPT !.user = q.user]]
    BY <1>0, <1>13 DEF StartSso
  <2>2. [NoSso EXCEPT !.user = q.user] \in SsoRow
    BY <1>0, <1>13, SsoRowSteps, RequestFields DEF TypeOK
  <2>3. sso' \in [Ssos -> SsoRow]
    BY <2>1, <2>2 DEF TypeOK
  <2> QED
    BY <1>13, <2>3 DEF StartSso, TypeOK, tables
<1>14. CASE IssueAuthorizationCode(r)
  <2>1. PICK c \in Codes : code' = [code EXCEPT ![c] = [NoCode EXCEPT !.user = q.user, !.client = q.client]]
    BY <1>0, <1>14 DEF IssueAuthorizationCode
  <2>2. [NoCode EXCEPT !.user = q.user, !.client = q.client] \in CodeRow
    BY <1>0, <1>14, CodeRowSteps, RequestFields DEF TypeOK
  <2>3. code' \in [Codes -> CodeRow]
    BY <2>1, <2>2 DEF TypeOK
  <2> QED
    BY <1>14, <2>3 DEF IssueAuthorizationCode, TypeOK, tables
<1>15. CASE ConsumeAuthorizationCode(r)
  <2>1. code' = [code EXCEPT ![q.code] = [code[q.code] EXCEPT !.consumed = TRUE]] \/ UNCHANGED code
    BY <1>0, <1>15 DEF ConsumeAuthorizationCode, tables
  <2>2. \A row \in CodeRow : [row EXCEPT !.consumed = TRUE] \in CodeRow
    BY CodeRowSteps
  <2>3. code' \in [Codes -> CodeRow]
    BY <2>1, <2>2 DEF TypeOK
  <2> QED
    BY <1>15, <2>3 DEF ConsumeAuthorizationCode, TypeOK, tables
<1>16. CASE CreateSession(r)
  <2>1. PICK s \in Sessions : session' = [session EXCEPT ![s] = [NoSession EXCEPT !.user = q.user, !.client = q.client, !.code = q.code]]
    BY <1>0, <1>16 DEF CreateSession
  <2>2. [NoSession EXCEPT !.user = q.user, !.client = q.client, !.code = q.code] \in SessionRow
    BY <1>0, <1>16, SessionRowSteps, RequestFields DEF TypeOK
  <2>3. session' \in [Sessions -> SessionRow]
    BY <2>1, <2>2 DEF TypeOK
  <2> QED
    BY <1>16, <2>3 DEF CreateSession, TypeOK, tables
<1>17. CASE CheckSession(r)
  BY <1>0, <1>17 DEF CheckSession, TypeOK, tables
<1>18. CASE MarkUsed(r)
  <2>1. token' = [token EXCEPT ![q.token] = [token[q.token] EXCEPT !.used = TRUE]] \/ UNCHANGED token
    BY <1>0, <1>18 DEF MarkUsed, tables
  <2>2. \A row \in TokenRow : [row EXCEPT !.used = TRUE] \in TokenRow
    BY TokenRowSteps
  <2>3. token' \in [Tokens -> TokenRow]
    BY <2>1, <2>2 DEF TypeOK
  <2> QED
    BY <1>18, <2>3 DEF MarkUsed, TypeOK, tables
<1>19. CASE IssueRefreshToken(r)
  <2>1. PICK t \in Tokens : token' = [token EXCEPT ![t] = [NoToken EXCEPT !.session = q.session, !.parent = q.token]]
    BY <1>0, <1>19 DEF IssueRefreshToken
  <2>2. [NoToken EXCEPT !.session = q.session, !.parent = q.token] \in TokenRow
    BY <1>0, <1>19, TokenRowSteps, RequestFields DEF TypeOK
  <2>3. token' \in [Tokens -> TokenRow]
    BY <2>1, <2>2 DEF TypeOK
  <2> QED
    BY <1>19, <2>3 DEF IssueRefreshToken, TypeOK, tables
<1>20. CASE Respond(r)
  BY <1>0, <1>20 DEF Respond, TypeOK, tables, LocalsOK, At, End
<1>21. CASE RequireLiveSession(r)
  BY <1>0, <1>21 DEF RequireLiveSession, TypeOK, tables
<1>22. CASE Patch(r)
  BY <1>0, <1>22 DEF Patch, TypeOK, tables, Statuses, Request
<1>23. CASE ListSessions(r)
  BY <1>0, <1>23 DEF ListSessions, TypeOK, tables
<1>24. CASE RevokeSessionRow(r)
  <2>1. PICK s \in Sessions : session' = [session EXCEPT ![s] = [session[s] EXCEPT !.revoked = TRUE]]
    BY <1>0, <1>24, RequestFields DEF RevokeSessionRow
  <2>2. \A row \in SessionRow : [row EXCEPT !.revoked = TRUE] \in SessionRow
    BY SessionRowSteps
  <2>3. session' \in [Sessions -> SessionRow]
    BY <2>1, <2>2 DEF TypeOK
  <2> QED
    BY <1>24, <2>3 DEF RevokeSessionRow, TypeOK, tables
<1>25. CASE RevokeTokenRows(r)
  BY <1>0, <1>25, TokenRowSteps, RequestFields DEF RevokeTokenRows, TypeOK, tables
<1>26. CASE AnswerRevocation(r)
  BY <1>0, <1>26 DEF AnswerRevocation, TypeOK, tables
<1>27. CASE CloseSsoSessions(r)
  BY <1>0, <1>27, SsoRowSteps, RequestFields DEF CloseSsoSessions, TypeOK, tables
<1>28. CASE Fail(r)
  BY <1>0, <1>28 DEF Fail, TypeOK, tables
<1> QED
  BY <1>1, <1>2, <1>3, <1>4, <1>5, <1>6, <1>7, <1>8, <1>9, <1>10, <1>11, <1>12, <1>13, <1>14, <1>15, <1>16, <1>17, <1>18, <1>19, <1>20, <1>21, <1>22, <1>23, <1>24, <1>25, <1>26, <1>27, <1>28 DEF Step, Begin, Continue

\* Time passing touches one row of one table.
LEMMA ExpiryTypes ==
    ASSUME TypeOK, Locals,
           \/ \E k \in Ssos : ExpireSso(k)
           \/ \E c \in Codes : ExpireCode(c)
           \/ \E t \in Tokens : ExpireToken(t)
    PROVE  TypeOK' /\ Locals'
<1>1. ASSUME NEW k \in Ssos, ExpireSso(k) PROVE TypeOK' /\ Locals'
  <2>1. sso' = [sso EXCEPT ![k] = [sso[k] EXCEPT !.expired = TRUE]]
    BY <1>1 DEF ExpireSso
  <2>2. sso' \in [Ssos -> SsoRow]
    BY <2>1, SsoRowSteps DEF TypeOK
  <2> QED
    BY <1>1, <2>2 DEF ExpireSso, TypeOK, Locals
<1>2. ASSUME NEW c \in Codes, ExpireCode(c) PROVE TypeOK' /\ Locals'
  <2>1. code' = [code EXCEPT ![c] = [code[c] EXCEPT !.expired = TRUE]]
    BY <1>2 DEF ExpireCode
  <2>2. code' \in [Codes -> CodeRow]
    BY <2>1, CodeRowSteps DEF TypeOK
  <2> QED
    BY <1>2, <2>2 DEF ExpireCode, TypeOK, Locals
<1>3. ASSUME NEW t \in Tokens, ExpireToken(t) PROVE TypeOK' /\ Locals'
  <2>1. token' = [token EXCEPT ![t] = [token[t] EXCEPT !.expired = TRUE]]
    BY <1>3 DEF ExpireToken
  <2>2. token' \in [Tokens -> TokenRow]
    BY <2>1, TokenRowSteps DEF TypeOK
  <2> QED
    BY <1>3, <2>2 DEF ExpireToken, TypeOK, Locals
<1> QED
  BY <1>1, <1>2, <1>3

\* The empty tables and idle requests are well formed.
LEMMA InitTypes ==
    ASSUME Init
    PROVE  TypeOK /\ Locals
<1>1. NoSso \in SsoRow /\ NoCode \in CodeRow /\ NoSession \in SessionRow /\ NoToken \in TokenRow
  BY DEF NoSso, SsoRow, NoCode, CodeRow, NoSession, SessionRow, NoToken, TokenRow
<1>2. NoRequest \in Request
  BY ZenonT(30) DEF NoRequest, Request, Kinds, Stages, Outcomes
<1>3. TypeOK
  BY <1>1, <1>2 DEF Init, TypeOK, Statuses
<1>4. NoRequest.stage = "idle" /\ NoRequest.outcome = "none"
  BY DEF NoRequest
<1>5. LocalsOK(NoRequest)
  BY <1>4 DEF LocalsOK
<1> QED
  BY <1>3, <1>5 DEF Init, Locals

\* Every step keeps rows and local variables well formed.
LEMMA NextTypes ==
    ASSUME TypeOK, Locals, [Next]_vars
    PROVE  TypeOK' /\ Locals'
<1>1. ASSUME NEW r \in Reqs, Step(r) PROVE TypeOK' /\ Locals'
  <2>1. Frame(r) /\ RowsTyped'
    BY <1>1, StepFrame, StepTypes
  <2> QED
    BY <2>1 DEF Frame, RowsTyped, TypeOK, Locals
<1>2. CASE UNCHANGED vars
  BY <1>2 DEF vars, tables, TypeOK, Locals
<1> QED
  BY <1>1, <1>2, ExpiryTypes DEF Next, Step

\* Every row, every local variable of every invocation keeps its type, and each stage of
\* the handlers is reached with the local variables it relies on.
THEOREM TypeInvariant == Spec => [](TypeOK /\ Locals)
<1>1. Init => TypeOK /\ Locals
  BY InitTypes
<1>2. TypeOK /\ Locals /\ [Next]_vars => (TypeOK /\ Locals)'
  BY NextTypes
<1> QED
  BY <1>1, <1>2, PTL DEF Spec

\* What a statement never undoes: a row keeps its owner, and once consumed, used or
\* revoked stays so.
CodesGrow == \A c \in Codes : code[c].user # None =>
    /\ code'[c].user = code[c].user /\ code'[c].client = code[c].client
    /\ code[c].consumed => code'[c].consumed
SessionsGrow == \A s \in Sessions : Opened(s) =>
    /\ session'[s].user = session[s].user /\ session'[s].client = session[s].client
    /\ session'[s].code = session[s].code
    /\ session[s].revoked => session'[s].revoked
TokensGrow == \A t \in Tokens : Issued(t) =>
    /\ token'[t].session = token[t].session
    /\ token[t].used => token'[t].used
    /\ token[t].expired => token'[t].expired
TablesGrow == CodesGrow /\ SessionsGrow /\ TokensGrow

\* No statement of any invocation undoes what TablesGrow names.
LEMMA StepGrows ==
    ASSUME TypeOK, Locals, NEW r \in Reqs, Step(r)
    PROVE  TablesGrow
<1> USE DEF TablesGrow, CodesGrow, SessionsGrow, TokensGrow, Opened, Issued
<1> DEFINE q == req[r]
<1>0. q \in Request
  BY DEF TypeOK
<1>1. CASE UNCHANGED <<code, session, token>>
  BY <1>1
<1>2. CASE IssueAuthorizationCode(r)
  BY <1>2 DEF IssueAuthorizationCode, TypeOK
<1>3. CASE ConsumeAuthorizationCode(r)
  <2>1. code' = [code EXCEPT ![q.code].consumed = TRUE] \/ UNCHANGED code
    BY <1>3 DEF ConsumeAuthorizationCode
  <2> HIDE DEF q
  <2>2. CodesGrow
    BY <2>1 DEF TypeOK, CodeRow
  <2> QED
    BY <1>3, <2>2 DEF ConsumeAuthorizationCode
<1>4. CASE CreateSession(r)
  BY <1>4 DEF CreateSession, TypeOK
<1>5. CASE MarkUsed(r)
  <2>1. token' = [token EXCEPT ![q.token].used = TRUE] \/ UNCHANGED token
    BY <1>5 DEF MarkUsed
  <2> HIDE DEF q
  <2>2. TokensGrow
    BY <2>1 DEF TypeOK, TokenRow
  <2> QED
    BY <1>5, <2>2 DEF MarkUsed
<1>6. CASE IssueRefreshToken(r)
  BY <1>6 DEF IssueRefreshToken, TypeOK
<1>7. CASE RevokeSessionRow(r)
  <2>1. PICK s \in Sessions : session' = [session EXCEPT ![s].revoked = TRUE]
    BY <1>0, <1>7, RequestFields DEF RevokeSessionRow
  <2>2. SessionsGrow
    BY <2>1 DEF TypeOK, SessionRow
  <2> QED
    BY <1>7, <2>2 DEF RevokeSessionRow
<1>8. CASE RevokeTokenRows(r)
  <2>1. \A t \in Tokens : token'[t] \in {token[t], [token[t] EXCEPT !.revoked = TRUE]}
    BY <1>8 DEF RevokeTokenRows
  <2>2. TokensGrow
    BY <2>1 DEF TypeOK, TokenRow
  <2> QED
    BY <1>8, <2>2 DEF RevokeTokenRows
<1>9. CASE Begin(r) \/ Fail(r)
  BY <1>9, <1>1 DEF Begin, Fail, tables, BeginSignIn, BeginAuthorize, BeginExchange, BeginRefresh,
     BeginAccess, BeginRevoke, BeginPrune, BeginLogout, BeginSweep, BeginPatch
<1>10. CASE \/ ReadAccount(r) \/ RotateCookie(r) \/ StartSso(r) \/ CheckSession(r)
            \/ Respond(r) \/ RequireLiveSession(r) \/ Patch(r) \/ ListSessions(r)
            \/ AnswerRevocation(r) \/ CloseSsoSessions(r)
  BY <1>10, <1>1 DEF tables, ReadAccount, RotateCookie, StartSso, CheckSession, Respond,
     RequireLiveSession, Patch, ListSessions, AnswerRevocation, CloseSsoSessions
<1> QED
  BY <1>2, <1>3, <1>4, <1>5, <1>6, <1>7, <1>8, <1>9, <1>10 DEF Step, Continue

\* What an invocation has in hand stays true of the tables as they grow.
LEMMA InHandGrows ==
    ASSUME TypeOK, TablesGrow, NEW x \in Reqs, req'[x] \in Request, RowsInHand(req'[x])
    PROVE  RowsInHand(req[x])'
<1> DEFINE q == req'[x]
<1>1. None \notin Users /\ None \notin Sessions
  BY NoneAssumption
<1> USE DEF TablesGrow
<1>2. \A c \in Codes : code[c].user \in Users =>
        /\ code'[c].user = code[c].user /\ code'[c].client = code[c].client
        /\ code[c].consumed => code'[c].consumed
  BY <1>1 DEF CodesGrow
<1>3. \A s \in Sessions : session[s].user \in Users =>
        /\ session'[s].user = session[s].user /\ session'[s].client = session[s].client
        /\ session[s].revoked => session'[s].revoked
  BY <1>1 DEF SessionsGrow, Opened
<1>4. \A t \in Tokens : token[t].session \in Sessions =>
        token'[t].session = token[t].session /\ (token[t].used => token'[t].used)
  BY <1>1 DEF TokensGrow, Issued
<1>5. q.targets \subseteq Sessions
  BY DEF Request
<1> HIDE DEF TablesGrow
<1> QED
  BY <1>2, <1>3, <1>4, <1>5 DEF RowsInHand, Minted, HoldsCode, MayIssue, OnSession

\* What the request that moves has in hand afterwards agrees with the tables.
LEMMA MoverInHand ==
    ASSUME TypeOK, TypeOK', Locals, InHand, RowsOK, TablesGrow, NEW r \in Reqs, Step(r)
    PROVE  RowsInHand(req[r])'
<1> DEFINE q == req[r]
           n == req'[r]
<1>1. q \in Request /\ LocalsOK(q) /\ RowsInHand(q)
  BY DEF TypeOK, Locals, InHand
<1>2. n \in Request
  BY DEF TypeOK
<1>3. q.targets \subseteq Sessions /\ n.targets \subseteq Sessions
  BY <1>1, <1>2 DEF Request
<1>4. RowsInHand(n) => RowsInHand(req[r])'
  BY <1>2, InHandGrows DEF LocalsOK, Started, Moved, Ended, Same, Keeps, RowsInHand, HoldsCode, MayIssue, OnSession, Minted
<1>11. CASE BeginSignIn(r)
  <2>1. PICK u \in Users, a \in Clients :
             Started(n, "signIn", "account", "none", u, a, None, None, None, {})
    BY <1>11, BeginSignInMoves
  <2> HIDE DEF n
  <2>2. RowsInHand(n)
    BY <2>1, NoneAssumption DEF Started, RowsInHand, HoldsCode, MayIssue, OnSession, Minted
  <2> QED
    BY <1>4, <2>2
<1>12. CASE BeginAuthorize(r)
  <2>1. PICK a \in Clients, k \in Ssos :
          /\ sso[k].user \in Users
          /\ \/ Started(n, "authorize", "account", "none", sso[k].user, a, None, None, None, {})
             \/ Started(n, "authorize", "done", "refused", sso[k].user, a, None, None, None, {})
    BY <1>12, BeginAuthorizeMoves
  <2> HIDE DEF n
  <2>2. RowsInHand(n)
    BY <2>1, NoneAssumption DEF LocalsOK, Started, Moved, Ended, Same, Keeps, RowsInHand, HoldsCode, MayIssue, OnSession, Minted
  <2> QED
    BY <1>4, <2>2
<1>13. CASE BeginExchange(r)
  <2>1. PICK c \in Codes, a \in Clients :
          /\ c \in wire /\ code[c].user \in Users
          /\ \/ Started(n, "exchange", "consume", "none", code[c].user, a, c, None, None, {})
             \/ Started(n, "exchange", "done", "refused", code[c].user, a, c, None, None, {})
    BY <1>13, BeginExchangeMoves
  <2>2. Minted(c)
    BY <2>1 DEF RowsOK
  <2> HIDE DEF n
  <2>3. RowsInHand(n)
    BY <2>1, <2>2, NoneAssumption DEF LocalsOK, Started, Moved, Ended, Same, Keeps, RowsInHand, HoldsCode, MayIssue, OnSession, Minted
  <2> QED
    BY <1>4, <2>3
<1>14. CASE BeginRefresh(r)
  <2>1. PICK t \in Tokens, a \in Clients, s \in Sessions, u \in Users \cup {None} :
          /\ t \in wire /\ token[t].session = s /\ u = session[s].user
          /\ \/ Started(n, "refresh", "row", "none", u, a, None, s, t, {s})
             \/ Started(n, "refresh", "done", "refused", u, a, None, s, t, {})
             \/ Started(n, "refresh", "check", "none", u, a, None, s, t, {})
    BY <1>14, BeginRefreshMoves
  <2>2. session[s].user \in Users
    BY <2>1, NoneAssumption DEF RowsOK, Issued, Opened
  <2> HIDE DEF n
  <2>3. RowsInHand(n)
    BY <2>1, <2>2, NoneAssumption DEF LocalsOK, Started, Moved, Ended, Same, Keeps, RowsInHand, HoldsCode, MayIssue, OnSession, Minted
  <2> QED
    BY <1>4, <2>3
<1>15. CASE BeginAccess(r)
  <2>1. PICK s \in Sessions :
          /\ HasBearer(s) /\ session[s].user \in Users \cup {None}
          /\ Started(n, "access", "account", "none", session[s].user, None, None, s, None, {})
    BY <1>15, BeginAccessMoves
  <2>2. session[s].user \in Users
    BY <2>1, NoneAssumption DEF RowsOK, HasBearer, Issued, Opened
  <2> HIDE DEF n
  <2>3. RowsInHand(n)
    BY <2>1, <2>2, NoneAssumption DEF LocalsOK, Started, Moved, Ended, Same, Keeps, RowsInHand, HoldsCode, MayIssue, OnSession, Minted
  <2> QED
    BY <1>4, <2>3
<1>16. CASE BeginRevoke(r)
  <2>1. PICK ts \in SUBSET Sessions :
          /\ \A s \in ts : Opened(s)
          /\ ts # {}
          /\ Started(n, "revoke", "row", "none", None, None, None, None, None, ts)
    BY <1>16, BeginRevokeMoves
  <2>2. \A s \in ts : session[s].user \in Users
    BY <2>1 DEF Opened, TypeOK, SessionRow
  <2> HIDE DEF n
  <2>3. RowsInHand(n)
    BY <2>1, <2>2, NoneAssumption DEF LocalsOK, Started, Moved, Ended, Same, Keeps, RowsInHand, HoldsCode, MayIssue, OnSession, Minted
  <2> QED
    BY <1>4, <2>3
<1>17. CASE BeginPrune(r)
  <2>1. PICK ts \in SUBSET Sessions :
          /\ \A s \in ts : Opened(s)
          /\ ts # {}
          /\ Started(n, "prune", "row", "none", None, None, None, None, None, ts)
    BY <1>17, BeginPruneMoves
  <2>2. \A s \in ts : session[s].user \in Users
    BY <2>1 DEF Opened, TypeOK, SessionRow
  <2> HIDE DEF n
  <2>3. RowsInHand(n)
    BY <2>1, <2>2, NoneAssumption DEF LocalsOK, Started, Moved, Ended, Same, Keeps, RowsInHand, HoldsCode, MayIssue, OnSession, Minted
  <2> QED
    BY <1>4, <2>3
<1>18. CASE BeginLogout(r)
  <2>1. PICK ended \in SUBSET Sessions :
          /\ \A s \in ended : Opened(s)
          /\ \/ /\ ended = {}
                /\ Started(n, "logout", "closeSso", "none", None, None, None, None, None, ended)
             \/ /\ ended # {}
                /\ Started(n, "logout", "row", "none", None, None, None, None, None, ended)
    BY <1>18, BeginLogoutMoves
  <2>2. \A s \in ended : session[s].user \in Users
    BY <2>1 DEF Opened, TypeOK, SessionRow
  <2> HIDE DEF n
  <2>3. RowsInHand(n)
    BY <2>1, <2>2, NoneAssumption DEF LocalsOK, Started, Moved, Ended, Same, Keeps, RowsInHand, HoldsCode, MayIssue, OnSession, Minted
  <2> QED
    BY <1>4, <2>3
<1>19. CASE BeginSweep(r)
  <2>1. PICK u \in Users :
             Started(n, "sweep", "list", "none", u, None, None, None, None, {})
    BY <1>19, BeginSweepMoves
  <2> HIDE DEF n
  <2>2. RowsInHand(n)
    BY <2>1, NoneAssumption DEF Started, RowsInHand, HoldsCode, MayIssue, OnSession, Minted
  <2> QED
    BY <1>4, <2>2
<1>20. CASE BeginPatch(r)
  <2>1. PICK u \in Users :
             \/ Started(n, "disable", "patch", "none", u, None, None, None, None, {})
             \/ Started(n, "enable", "patch", "none", u, None, None, None, None, {})
    BY <1>20, BeginPatchMoves
  <2> HIDE DEF n
  <2>2. RowsInHand(n)
    BY <2>1, NoneAssumption DEF Started, RowsInHand, HoldsCode, MayIssue, OnSession, Minted
  <2> QED
    BY <1>4, <2>2
<1>21. CASE ReadAccount(r)
  <2>1. \/ Moved(n, q, OnActive[q.kind], q.code, q.session, q.issued, q.targets)
        \/ Ended(n, q, "refused")
    BY <1>21, ReadAccountMoves
  <2>2. q.stage = "account"
    BY <1>21 DEF ReadAccount, At
  <2>3. q.kind \in DOMAIN OnActive
    BY <1>1, <2>2 DEF LocalsOK
  <2> HIDE DEF q, n
  <2>4. RowsInHand(n)
    BY <1>1, <2>1, <2>2, <2>3, OnActiveStage, NoneAssumption DEF LocalsOK, Started, Moved, Ended, Same, Keeps, RowsInHand, HoldsCode, MayIssue, OnSession, Minted
  <2> QED
    BY <1>4, <2>4
<1>22. CASE RotateCookie(r)
  <2>1. Moved(n, q, "startSso", q.code, q.session, q.issued, q.targets)
    BY <1>22, RotateCookieMoves
  <2>2. q.stage = "rotate"
    BY <1>22 DEF RotateCookie, At
  <2> HIDE DEF q, n
  <2>3. RowsInHand(n)
    BY <1>1, <2>1, <2>2, NoneAssumption DEF LocalsOK, Moved, Ended, Same, Keeps, RowsInHand, HoldsCode, MayIssue, OnSession, Minted
  <2> QED
    BY <1>4, <2>3
<1>23. CASE StartSso(r)
  <2>1. Moved(n, q, "mint", q.code, q.session, q.issued, q.targets)
    BY <1>23, StartSsoMoves
  <2>2. q.stage = "startSso"
    BY <1>23 DEF StartSso, At
  <2> HIDE DEF q, n
  <2>3. RowsInHand(n)
    BY <1>1, <2>1, <2>2, NoneAssumption DEF LocalsOK, Moved, Ended, Same, Keeps, RowsInHand, HoldsCode, MayIssue, OnSession, Minted
  <2> QED
    BY <1>4, <2>3
<1>24. CASE CheckSession(r)
  <2>1. \/ Ended(n, q, "refused")
        \/ Moved(n, q, "mark", q.code, q.session, q.issued, q.targets)
    BY <1>24, CheckSessionMoves
  <2>2. q.stage = "check"
    BY <1>24 DEF CheckSession, At
  <2> HIDE DEF q, n
  <2>3. RowsInHand(n)
    BY <1>1, <2>1, <2>2, NoneAssumption DEF LocalsOK, Moved, Ended, Same, Keeps, RowsInHand, HoldsCode, MayIssue, OnSession, Minted
  <2> QED
    BY <1>4, <2>3
<1>25. CASE Respond(r)
  <2>1. \/ q.kind \in {"signIn", "authorize"} /\ Ended(n, q, "code")
        \/ q.kind \in {"exchange", "refresh"} /\ Ended(n, q, "tokens")
    BY <1>25, RespondMoves
  <2>2. q.stage = "respond"
    BY <1>25 DEF Respond, At
  <2> HIDE DEF q, n
  <2>3. RowsInHand(n)
    BY <1>1, <2>1, <2>2, NoneAssumption DEF LocalsOK, Moved, Ended, Same, Keeps, RowsInHand, HoldsCode, MayIssue, OnSession, Minted
  <2> QED
    BY <1>4, <2>3
<1>26. CASE RequireLiveSession(r)
  <2>1. \/ Ended(n, q, "refused")
        \/ Ended(n, q, "granted")
    BY <1>26, RequireLiveSessionMoves
  <2>2. q.stage = "actor"
    BY <1>26 DEF RequireLiveSession, At
  <2> HIDE DEF q, n
  <2>3. RowsInHand(n)
    BY <1>1, <2>1, <2>2, NoneAssumption DEF LocalsOK, Moved, Ended, Same, Keeps, RowsInHand, HoldsCode, MayIssue, OnSession, Minted
  <2> QED
    BY <1>4, <2>3
<1>27. CASE Patch(r)
  <2>1. \/ Moved(n, q, "list", q.code, q.session, q.issued, q.targets)
        \/ Ended(n, q, "ok")
    BY <1>27, PatchMoves
  <2>2. q.stage = "patch"
    BY <1>27 DEF Patch, At
  <2> HIDE DEF q, n
  <2>3. RowsInHand(n)
    BY <1>1, <2>1, <2>2, NoneAssumption DEF LocalsOK, Moved, Ended, Same, Keeps, RowsInHand, HoldsCode, MayIssue, OnSession, Minted
  <2> QED
    BY <1>4, <2>3
<1>28. CASE AnswerRevocation(r)
  <2>1. \/ Ended(n, q, "reuse")
        \/ Ended(n, q, "ok")
    BY <1>28, AnswerRevocationMoves
  <2>2. q.stage = "ended"
    BY <1>28 DEF AnswerRevocation, At
  <2> HIDE DEF q, n
  <2>3. RowsInHand(n)
    BY <1>1, <2>1, <2>2, NoneAssumption DEF LocalsOK, Moved, Ended, Same, Keeps, RowsInHand, HoldsCode, MayIssue, OnSession, Minted
  <2> QED
    BY <1>4, <2>3
<1>29. CASE CloseSsoSessions(r)
  <2>1. Ended(n, q, "ok")
    BY <1>29, CloseSsoSessionsMoves
  <2>2. q.stage = "closeSso"
    BY <1>29 DEF CloseSsoSessions, At
  <2> HIDE DEF q, n
  <2>3. RowsInHand(n)
    BY <1>1, <2>1, <2>2, NoneAssumption DEF LocalsOK, Moved, Ended, Same, Keeps, RowsInHand, HoldsCode, MayIssue, OnSession, Minted
  <2> QED
    BY <1>4, <2>3
<1>30. CASE Fail(r)
  <2>1. Ended(n, q, "failed") /\ q.stage # "done"
    BY <1>30, FailMoves DEF Fail
  <2> HIDE DEF q, n
  <2>2. RowsInHand(n)
    BY <1>1, <2>1 DEF LocalsOK, Started, Moved, Ended, Same, Keeps, RowsInHand, HoldsCode, MayIssue, OnSession, Minted
  <2> QED
    BY <1>4, <2>2
<1>31. CASE ListSessions(r)
  <2>1. PICK all \in SUBSET Sessions :
          \/ /\ all = {s \in Sessions : session[s].user = q.user} /\ all # {}
             /\ Moved(n, q, "row", q.code, q.session, q.issued, all)
          \/ /\ all = {}
             /\ Moved(n, q, AfterRevoking[q.kind], q.code, q.session, q.issued, all)
    BY <1>31, ListSessionsMoves
  <2>2. q.stage = "list" /\ q.kind \in DOMAIN AfterRevoking /\ q.user \in Users
    BY <1>1, <1>31 DEF ListSessions, At, AfterRevoking, LocalsOK, RowsInHand
  <2>3. \A s \in all : session[s].user \in Users
    BY <2>1, <2>2
  <2>4. all = {} => AfterRevoking[q.kind] \in {"ended", "closeSso"}
    BY <2>2, AfterRevokingStage
  <2> HIDE DEF q, n
  <2>5. RowsInHand(n)
    BY <1>1, <2>1, <2>2, <2>3, <2>4 DEF LocalsOK, Started, Moved, Ended, Same, Keeps, RowsInHand, HoldsCode, MayIssue, OnSession, Minted
  <2> QED
    BY <1>4, <2>5
<1>32. CASE RevokeTokenRows(r)
  <2>1. PICK left \in SUBSET Sessions :
          \/ /\ left \subseteq q.targets /\ left # {}
             /\ Moved(n, q, "row", q.code, q.session, q.issued, left)
          \/ /\ left = {}
             /\ Moved(n, q, AfterRevoking[q.kind], q.code, q.session, q.issued, left)
    BY <1>32, RevokeTokenRowsMoves
  <2>2. q.stage = "chain" /\ q.kind \in DOMAIN AfterRevoking
    BY <1>1, <1>32 DEF RevokeTokenRows, At, LocalsOK
  <2>3. AfterRevoking[q.kind] \in {"ended", "closeSso"}
    BY <2>2, AfterRevokingStage
  <2> HIDE DEF q, n
  <2>4. RowsInHand(n)
    BY <1>1, <2>1, <2>2, <2>3 DEF LocalsOK, Started, Moved, Ended, Same, Keeps, RowsInHand, HoldsCode, MayIssue, OnSession, Minted
  <2> QED
    BY <1>4, <2>4
<1>33. CASE IssueAuthorizationCode(r)
  <2>1. PICK c \in Codes :
          /\ code' = [code EXCEPT ![c] = [NoCode EXCEPT !.user = q.user, !.client = q.client]]
          /\ Moved(n, q, "respond", c, q.session, q.issued, q.targets)
    BY <1>33, IssueAuthorizationCodeMoves
  <2>2. q.stage = "mint" /\ UNCHANGED session
    BY <1>33 DEF IssueAuthorizationCode, At
  <2>3. q.kind \in {"signIn", "authorize"} /\ q.outcome = "none"
    BY <1>1, <2>2 DEF LocalsOK
  <2>4. code'[c].user = q.user /\ code'[c].client = q.client
    BY <2>1 DEF TypeOK, NoCode
  <2> HIDE DEF q, n
  <2> QED
    BY <1>1, <2>1, <2>2, <2>3, <2>4, NoneAssumption DEF n, Moved, Keeps, RowsInHand, HoldsCode, MayIssue, OnSession, Minted
<1>34. CASE ConsumeAuthorizationCode(r)
  <2>1. q.stage = "consume" /\ UNCHANGED <<session, token>>
    BY <1>34 DEF ConsumeAuthorizationCode, At
  <2>2. q.kind = "exchange" /\ q.outcome = "none"
    BY <1>1, <2>1 DEF LocalsOK
  <2>3. q.code \in Codes /\ code[q.code].user \in Users /\ code[q.code].client \in Clients
        /\ code[q.code].user = q.user
    BY <1>1, <2>1 DEF RowsInHand, HoldsCode, MayIssue, OnSession, Minted
  <2>4. \/ /\ code' = [code EXCEPT ![q.code].consumed = TRUE] /\ code[q.code].client = q.client
           /\ Moved(n, q, "account", q.code, q.session, q.issued, q.targets)
        \/ Ended(n, q, "refused")
    BY <1>34, ConsumeAuthorizationCodeMoves
  <2>5. code' = [code EXCEPT ![q.code].consumed = TRUE] =>
          code'[q.code].consumed /\ code'[q.code].user = q.user
          /\ code'[q.code].client = code[q.code].client
    BY <2>3 DEF TypeOK, CodeRow
  <2> HIDE DEF q, n
  <2> QED
    BY <1>1, <2>1, <2>2, <2>3, <2>4, <2>5, NoneAssumption DEF n, Moved, Ended, Same, Keeps, RowsInHand, HoldsCode, MayIssue, OnSession, Minted
<1>35. CASE CreateSession(r)
  <2>1. PICK s \in Sessions :
          /\ ~Opened(s)
          /\ session' = [session EXCEPT ![s] = [NoSession EXCEPT !.user = q.user, !.client = q.client, !.code = q.code]]
          /\ Moved(n, q, "issue", q.code, s, q.issued, q.targets)
    BY <1>35, CreateSessionMoves
  <2>2. q.stage = "open" /\ UNCHANGED <<code, token>>
    BY <1>35 DEF CreateSession, At
  <2>3. q.kind = "exchange" /\ q.outcome = "none" /\ q.user \in Users
    BY <1>1, <2>2 DEF LocalsOK, RowsInHand, HoldsCode, MayIssue, OnSession, Minted
  <2>4. session'[s].user = q.user /\ session'[s].client = q.client
    BY <2>1 DEF TypeOK, NoSession
  <2>5. \A x \in q.targets : session'[x].user \in Users
    BY <1>1, <1>3, <2>1, NoneAssumption DEF RowsInHand, Opened, TypeOK
  <2> HIDE DEF q, n
  <2> QED
    BY <1>1, <1>3, <2>1, <2>2, <2>3, <2>4, <2>5, NoneAssumption DEF n, Moved, Keeps, RowsInHand, HoldsCode, MayIssue, OnSession, Minted
<1>36. CASE MarkUsed(r)
  <2>1. PICK ts \in SUBSET Sessions :
          \/ /\ token' = [token EXCEPT ![q.token].used = TRUE]
             /\ session[q.session].client = q.client
             /\ Moved(n, q, "account", q.code, q.session, q.issued, q.targets)
          \/ /\ token' = [token EXCEPT ![q.token].used = TRUE]
             /\ Ended(n, q, "refused")
          \/ /\ UNCHANGED token /\ ts = {q.session}
             /\ Moved(n, q, "row", q.code, q.session, q.issued, ts)
    BY <1>36, MarkUsedMoves
  <2>2. q.stage = "mark" /\ UNCHANGED <<code, session>>
    BY <1>36 DEF MarkUsed, At
  <2>3. q.kind = "refresh" /\ q.outcome = "none"
    BY <1>1, <2>2 DEF LocalsOK
  <2>4. q.token \in Tokens /\ token[q.token].session = q.session
        /\ q.session \in Sessions /\ session[q.session].user = q.user /\ q.user \in Users
    BY <1>1, <2>2, <2>3 DEF RowsInHand, HoldsCode, MayIssue, OnSession, Minted
  <2>5. token' = [token EXCEPT ![q.token].used = TRUE] =>
          token'[q.token].used /\ token'[q.token].session = q.session
    BY <2>4 DEF TypeOK, TokenRow
  <2> HIDE DEF q, n
  <2> QED
    BY <1>1, <2>1, <2>2, <2>3, <2>4, <2>5, NoneAssumption DEF n, Moved, Ended, Same, Keeps, RowsInHand, HoldsCode, MayIssue, OnSession, Minted
<1>37. CASE IssueRefreshToken(r)
  <2>1. PICK t \in Tokens :
          /\ token' = [token EXCEPT ![t] = [NoToken EXCEPT !.session = q.session, !.parent = q.token]]
          /\ Moved(n, q, "respond", q.code, q.session, t, q.targets)
    BY <1>37, IssueRefreshTokenMoves
  <2>2. q.stage = "issue" /\ UNCHANGED <<code, session>>
    BY <1>37 DEF IssueRefreshToken, At
  <2>3. q.kind \in {"exchange", "refresh"} /\ q.outcome = "none"
    BY <1>1, <2>2 DEF LocalsOK
  <2>4. token'[t].session = q.session
    BY <2>1 DEF TypeOK, NoToken
  <2> HIDE DEF q, n
  <2> QED
    BY <1>1, <2>1, <2>2, <2>3, <2>4, NoneAssumption DEF n, Moved, Keeps, RowsInHand, HoldsCode, MayIssue, OnSession, Minted
<1>38. CASE RevokeSessionRow(r)
  <2>1. PICK s \in Sessions :
          /\ s \in q.targets
          /\ session' = [session EXCEPT ![s].revoked = TRUE]
          /\ Moved(n, q, "chain", q.code, s, q.issued, q.targets)
    BY <1>38, RevokeSessionRowMoves
  <2>2. q.stage = "row" /\ UNCHANGED <<code, token>>
    BY <1>38 DEF RevokeSessionRow, At
  <2>3. q.kind \in DOMAIN AfterRevoking /\ q.outcome = "none"
    BY <1>1, <2>2 DEF LocalsOK
  <2>4. \A x \in Sessions : session'[x].user = session[x].user
    BY <2>1 DEF TypeOK, SessionRow
  <2>5. session'[s].revoked
    BY <2>1 DEF TypeOK, SessionRow
  <2>6. session[s].user \in Users /\ q.kind \notin {"exchange", "signIn", "authorize"}
    BY <1>1, <2>1, <2>3 DEF RowsInHand, HoldsCode, MayIssue, OnSession, Minted, AfterRevoking
  <2> HIDE DEF q, n
  <2> QED
    BY <1>1, <1>3, <2>1, <2>2, <2>3, <2>4, <2>5, <2>6, NoneAssumption DEF n, Moved, Keeps, RowsInHand, HoldsCode, MayIssue, OnSession, Minted
<1> QED
  BY <1>11, <1>12, <1>13, <1>14, <1>15, <1>16, <1>17, <1>18, <1>19, <1>20, <1>21, <1>22, <1>23, <1>24, <1>25, <1>26, <1>27, <1>28, <1>29, <1>30, <1>31, <1>32, <1>33, <1>34, <1>35, <1>36, <1>37, <1>38 DEF Step, Begin, Continue

\* The rows that name each other, for any statement that opens no session, adds no
\* token and sends nothing out.
LEMMA RowsGrow ==
    ASSUME TypeOK, TypeOK', RowsOK, TablesGrow
    PROVE  /\ \A c \in Codes : Minted(c) => Minted(c)'
           /\ \A s \in Sessions : Opened(s) =>
                /\ Opened(s)'
                /\ Minted(session[s].code)' /\ code'[session'[s].code].consumed
                /\ code'[session'[s].code].user = session'[s].user
                /\ code'[session'[s].code].client = session'[s].client
           /\ \A t \in Tokens : Issued(t) => Issued(t)' /\ Opened(token[t].session)'
<1>1. None \notin Users /\ None \notin Sessions
  BY NoneAssumption
<1>2. \A c \in Codes : Minted(c) =>
        /\ Minted(c)' /\ code'[c].user = code[c].user /\ code'[c].client = code[c].client
        /\ code[c].consumed => code'[c].consumed
  BY <1>1 DEF TablesGrow, CodesGrow, Minted
<1>3. \A s \in Sessions : Opened(s) =>
        /\ Opened(s)' /\ session'[s].user = session[s].user
        /\ session'[s].client = session[s].client /\ session'[s].code = session[s].code
  BY DEF TablesGrow, SessionsGrow, Opened
<1>4. \A s \in Sessions : Opened(s) =>
        /\ Minted(session[s].code) /\ code[session[s].code].consumed
        /\ code[session[s].code].user = session[s].user
        /\ code[session[s].code].client = session[s].client
  BY DEF RowsOK
<1>5. \A c : Minted(c) => c \in Codes
  BY DEF Minted
<1>6. ASSUME NEW s \in Sessions, Opened(s)
      PROVE  /\ Opened(s)'
             /\ Minted(session[s].code)' /\ code'[session'[s].code].consumed
             /\ code'[session'[s].code].user = session'[s].user
             /\ code'[session'[s].code].client = session'[s].client
  <2> DEFINE c == session[s].code
  <2>1. c \in Codes /\ Minted(c) /\ code[c].consumed
        /\ code[c].user = session[s].user /\ code[c].client = session[s].client
    BY <1>4, <1>5, <1>6
  <2>2. session'[s].code = c /\ session'[s].user = session[s].user
        /\ session'[s].client = session[s].client /\ Opened(s)'
    BY <1>3, <1>6
  <2>3. code'[c].user = code[c].user /\ code'[c].client = code[c].client /\ code'[c].consumed
        /\ code'[c].user \in Users /\ code'[c].client \in Clients
    BY <1>2, <2>1 DEF Minted
  <2> HIDE DEF c
  <2> QED
    BY <2>1, <2>2, <2>3 DEF Minted
<1>7. ASSUME NEW t \in Tokens, Issued(t)
      PROVE  Issued(t)' /\ Opened(token[t].session)'
  <2>1. token[t].session \in Sessions /\ Opened(token[t].session)
    BY <1>7 DEF RowsOK, Issued, TypeOK, TokenRow
  <2>2. token'[t].session = token[t].session
    BY <1>7 DEF TablesGrow, TokensGrow
  <2>3. session'[token[t].session].user # None
    BY <1>3, <2>1 DEF Opened
  <2> QED
    BY <1>7, <2>2, <2>3 DEF Opened, Issued
<1> QED
  BY <1>2, <1>6, <1>7

\* Rows keep naming each other when no session, token or response is added.
LEMMA QuietRows ==
    ASSUME TypeOK, TypeOK', RowsOK, TablesGrow,
           \A s \in Sessions : Opened(s)' => Opened(s),
           \A t \in Tokens : Issued(t)' => Issued(t),
           \A c \in Codes : c \in wire' => c \in wire \/ Minted(c),
           \A t \in Tokens : t \in wire' => t \in wire \/ Issued(t)
    PROVE  RowsOK'
<1>1. \A c \in wire' \cap Codes : Minted(c)'
  BY RowsGrow DEF RowsOK
<1>2. \A t \in wire' \cap Tokens : Issued(t)'
  BY RowsGrow DEF RowsOK
<1>3. \A t \in Tokens : Issued(t)' => Opened(token[t].session)'
  BY RowsGrow
<1>4. \A s \in Sessions : Opened(s)' =>
        /\ Minted(session[s].code)' /\ code'[session'[s].code].consumed
        /\ code'[session'[s].code].user = session'[s].user
        /\ code'[session'[s].code].client = session'[s].client
  BY RowsGrow
<1> QED
  BY <1>1, <1>2, <1>3, <1>4 DEF RowsOK

\* Which statements open a session, add a token, or send something out.
LEMMA NewSessions ==
    ASSUME TypeOK, Locals, NEW r \in Reqs, Step(r), ~CreateSession(r)
    PROVE  \A s \in Sessions : Opened(s)' => Opened(s)
<1>1. CASE UNCHANGED session
  BY <1>1 DEF Opened
<1>2. CASE RevokeSessionRow(r)
  <2>1. PICK s \in Sessions : session' = [session EXCEPT ![s].revoked = TRUE]
    BY <1>2, RequestFields DEF RevokeSessionRow, TypeOK
  <2> QED
    BY <2>1 DEF TypeOK, SessionRow, Opened
<1>3. UNCHANGED session \/ RevokeSessionRow(r)
  BY DEF Step, Begin, Continue, Fail, tables, BeginSignIn, BeginAuthorize, BeginExchange,
     BeginRefresh, BeginAccess, BeginRevoke, BeginPrune, BeginLogout, BeginSweep, BeginPatch,
     ReadAccount, RotateCookie, StartSso, IssueAuthorizationCode, ConsumeAuthorizationCode,
     CheckSession, MarkUsed, IssueRefreshToken, Respond, RequireLiveSession, Patch,
     ListSessions, RevokeTokenRows, AnswerRevocation, CloseSsoSessions
<1> QED
  BY <1>1, <1>2, <1>3

\* Only IssueRefreshToken gives a token a session.
LEMMA NewTokens ==
    ASSUME TypeOK, Locals, NEW r \in Reqs, Step(r), ~IssueRefreshToken(r)
    PROVE  \A t \in Tokens : token'[t].session = token[t].session
<1>1. CASE UNCHANGED token
  BY <1>1
<1>2. CASE MarkUsed(r)
  <2>1. token' = [token EXCEPT ![req[r].token].used = TRUE] \/ UNCHANGED token
    BY <1>2 DEF MarkUsed
  <2> QED
    BY <2>1 DEF TypeOK, TokenRow
<1>3. CASE RevokeTokenRows(r)
  <2>1. \A t \in Tokens : token'[t] \in {token[t], [token[t] EXCEPT !.revoked = TRUE]}
    BY <1>3 DEF RevokeTokenRows
  <2> QED
    BY <2>1 DEF TypeOK, TokenRow
<1>4. UNCHANGED token \/ MarkUsed(r) \/ RevokeTokenRows(r)
  BY DEF Step, Begin, Continue, Fail, tables, BeginSignIn, BeginAuthorize, BeginExchange,
     BeginRefresh, BeginAccess, BeginRevoke, BeginPrune, BeginLogout, BeginSweep, BeginPatch,
     ReadAccount, RotateCookie, StartSso, IssueAuthorizationCode, ConsumeAuthorizationCode,
     CheckSession, CreateSession, Respond, RequireLiveSession, Patch, ListSessions,
     RevokeSessionRow, AnswerRevocation, CloseSsoSessions
<1> QED
  BY <1>1, <1>2, <1>3, <1>4

\* Only Respond sends a code or a token out.
LEMMA NewWire ==
    ASSUME NEW r \in Reqs, Step(r), ~Respond(r)
    PROVE  UNCHANGED wire
  BY DEF Step, Begin, Continue, Fail, BeginSignIn, BeginAuthorize, BeginExchange,
     BeginRefresh, BeginAccess, BeginRevoke, BeginPrune, BeginLogout, BeginSweep, BeginPatch,
     ReadAccount, RotateCookie, StartSso, IssueAuthorizationCode, ConsumeAuthorizationCode,
     CreateSession, CheckSession, MarkUsed, IssueRefreshToken, RequireLiveSession, Patch,
     ListSessions, RevokeSessionRow, RevokeTokenRows, AnswerRevocation, CloseSsoSessions

\* Rows keep naming each other.
LEMMA StepRows ==
    ASSUME TypeOK, TypeOK', Locals, InHand, RowsOK, TablesGrow, NEW r \in Reqs, Step(r)
    PROVE  RowsOK'
<1> DEFINE q == req[r]
<1>1. q \in Request /\ LocalsOK(q) /\ RowsInHand(q)
  BY DEF TypeOK, Locals, InHand
<1>2. CASE CreateSession(r)
  <2>1. PICK s \in Sessions :
          /\ ~Opened(s)
          /\ session' = [session EXCEPT ![s] = [NoSession EXCEPT !.user = q.user, !.client = q.client, !.code = q.code]]
    BY <1>2, CreateSessionMoves
  <2>2. q.stage = "open" /\ UNCHANGED <<code, token, wire>>
    BY <1>2 DEF CreateSession, At
  <2>3. Minted(q.code) /\ code[q.code].consumed /\ code[q.code].user = q.user
        /\ code[q.code].client = q.client
    BY <1>1, <2>2 DEF LocalsOK, RowsInHand, HoldsCode
  <2>4. session'[s].user = q.user /\ session'[s].client = q.client /\ session'[s].code = q.code
    BY <2>1 DEF TypeOK, NoSession
  <2>5. \A x \in Sessions \ {s} : session'[x] = session[x]
    BY <2>1 DEF TypeOK
  <2>8. \A x \in Sessions : Opened(x)' =>
          /\ Minted(session[x].code)' /\ code'[session'[x].code].consumed
          /\ code'[session'[x].code].user = session'[x].user
          /\ code'[session'[x].code].client = session'[x].client
    <3>1. ASSUME NEW x \in Sessions \ {s}, Opened(x)'
          PROVE  /\ Minted(session[x].code)' /\ code'[session'[x].code].consumed
                 /\ code'[session'[x].code].user = session'[x].user
                 /\ code'[session'[x].code].client = session'[x].client
      BY <2>5, <3>1, RowsGrow DEF Opened
    <3>2. /\ Minted(session[s].code)' /\ code'[session'[s].code].consumed
          /\ code'[session'[s].code].user = session'[s].user
          /\ code'[session'[s].code].client = session'[s].client
      BY <2>2, <2>3, <2>4 DEF Minted
    <3> QED
      BY <3>1, <3>2
  <2> HIDE DEF q
  <2>6. \A x \in Sessions : Opened(x) => Opened(x)'
    BY <2>1, <2>5 DEF Opened
  <2>7. \A t \in Tokens : Issued(t)' => Opened(token[t].session)'
    BY RowsGrow, <2>2 DEF Issued
  <2> QED
    BY <2>2, <2>7, <2>8 DEF RowsOK, Minted, Issued
<1>3. CASE IssueRefreshToken(r)
  <2>1. PICK t \in Tokens :
          token' = [token EXCEPT ![t] = [NoToken EXCEPT !.session = q.session, !.parent = q.token]]
    BY <1>3, IssueRefreshTokenMoves
  <2>2. q.stage = "issue" /\ UNCHANGED <<code, session, wire>>
    BY <1>3 DEF IssueRefreshToken, At
  <2>3. q.session \in Sessions /\ session[q.session].user \in Users
    BY <1>1, <2>2 DEF RowsInHand, OnSession, MayIssue
  <2>4. token'[t].session = q.session /\ \A x \in Tokens \ {t} : token'[x] = token[x]
    BY <2>1 DEF TypeOK, NoToken
  <2> HIDE DEF q
  <2> QED
    BY <2>2, <2>3, <2>4, NoneAssumption DEF RowsOK, Minted, Opened, Issued
<1>4. CASE ~CreateSession(r) /\ ~IssueRefreshToken(r)
  <2>1. \A s \in Sessions : Opened(s)' => Opened(s)
    BY <1>4, NewSessions
  <2>2. \A t \in Tokens : Issued(t)' => Issued(t)
    BY <1>4, NewTokens DEF Issued
  <2>3. CASE Respond(r)
    <3>1. \/ q.kind \in {"signIn", "authorize"} /\ wire' = wire \cup {q.code}
          \/ q.kind \in {"exchange", "refresh"} /\ wire' = wire \cup {q.issued}
      BY <2>3 DEF Respond
    <3>2. q.stage = "respond"
      BY <2>3 DEF Respond, At
    <3>3. \/ wire' = wire \cup {q.code} /\ Minted(q.code)
          \/ /\ wire' = wire \cup {q.issued} /\ q.issued \in Tokens
             /\ token[q.issued].session = q.session /\ q.session \in Sessions
      BY <1>1, <3>1, <3>2 DEF RowsInHand, OnSession
    <3>4. Codes \cap Tokens = {} /\ None \notin Sessions
      BY NoneAssumption
    <3> HIDE DEF q
    <3>5. /\ \A c \in Codes : c \in wire' => c \in wire \/ Minted(c)
          /\ \A t \in Tokens : t \in wire' => t \in wire \/ Issued(t)
      BY <3>3, <3>4 DEF Issued, Minted
    <3> QED
      BY <2>1, <2>2, <3>5, QuietRows
  <2>4. CASE ~Respond(r)
    BY <2>1, <2>2, <2>4, NewWire, QuietRows
  <2> QED
    BY <2>3, <2>4
<1> QED
  BY <1>2, <1>3, <1>4

-----------------------------------------------------------------------------
(* One spendable token per session. *)

\* Only a request that may issue already, or one that has just spent a token or opened a
\* session, may issue afterwards, and for the session it has in hand.
LEMMA NewIssuer ==
    ASSUME TypeOK, Locals, NEW r \in Reqs, Step(r),
           ~MarkUsed(r), ~CreateSession(r), MayIssue(req[r])'
    PROVE  MayIssue(req[r]) /\ req'[r].session = req[r].session
<1> DEFINE q == req[r]
           n == req'[r]
<1>1. q \in Request /\ LocalsOK(q)
  BY DEF TypeOK, Locals
<1>2. n.stage = "issue" \/ (n.kind = "refresh" /\ n.stage = "account")
  BY DEF MayIssue
<1>3. CASE ReadAccount(r)
  <2>1. \/ Moved(n, q, OnActive[q.kind], q.code, q.session, q.issued, q.targets)
        \/ Ended(n, q, "refused")
    BY <1>3, ReadAccountMoves
  <2>2. q.stage = "account" /\ q.kind \in DOMAIN OnActive
    BY <1>1, <1>3 DEF ReadAccount, At, LocalsOK
  <2>3. OnActive[q.kind] = "issue" => q.kind = "refresh"
    BY <2>2, OnActiveStage
  <2>4. OnActive[q.kind] # "account"
    BY <2>2, OnActiveStage
  <2> HIDE DEF q, n
  <2>5. q.kind = "refresh" /\ n.session = q.session
    BY <1>2, <2>1, <2>3, <2>4 DEF Moved, Ended, Same, Keeps
  <2> QED
    BY <2>2, <2>5 DEF MayIssue, q, n
<1>4. CASE BeginSignIn(r)
  <2> HIDE DEF n
  <2> QED
    BY <1>1, <1>2, <1>4, BeginSignInMoves DEF BeginSignIn, At, Started, n
<1>5. CASE BeginAuthorize(r)
  <2> HIDE DEF n
  <2> QED
    BY <1>1, <1>2, <1>5, BeginAuthorizeMoves DEF BeginAuthorize, At, Started, n
<1>6. CASE BeginExchange(r)
  <2> HIDE DEF n
  <2> QED
    BY <1>1, <1>2, <1>6, BeginExchangeMoves DEF BeginExchange, At, Started, n
<1>7. CASE BeginRefresh(r)
  <2>1. n.stage \in {"row", "done", "check"}
    BY <1>7, BeginRefreshMoves DEF Started
  <2> HIDE DEF n
  <2> QED
    BY <1>2, <2>1
<1>8. CASE BeginAccess(r)
  <2> HIDE DEF n
  <2> QED
    BY <1>1, <1>2, <1>8, BeginAccessMoves DEF BeginAccess, At, Started, n
<1>9. CASE BeginRevoke(r)
  <2> HIDE DEF n
  <2> QED
    BY <1>1, <1>2, <1>9, BeginRevokeMoves DEF BeginRevoke, At, Started, n
<1>10. CASE BeginPrune(r)
  <2> HIDE DEF n
  <2> QED
    BY <1>1, <1>2, <1>10, BeginPruneMoves DEF BeginPrune, At, Started, n
<1>11. CASE BeginLogout(r)
  <2> HIDE DEF n
  <2> QED
    BY <1>1, <1>2, <1>11, BeginLogoutMoves DEF BeginLogout, At, Started, n
<1>12. CASE BeginSweep(r)
  <2> HIDE DEF n
  <2> QED
    BY <1>1, <1>2, <1>12, BeginSweepMoves DEF BeginSweep, At, Started, n
<1>13. CASE BeginPatch(r)
  <2> HIDE DEF n
  <2> QED
    BY <1>1, <1>2, <1>13, BeginPatchMoves DEF BeginPatch, At, Started, n
<1>14. CASE RotateCookie(r)
  <2> HIDE DEF n
  <2> QED
    BY <1>1, <1>2, <1>14, RotateCookieMoves DEF RotateCookie, At, LocalsOK, Keeps, Same, Moved, Ended, n
<1>15. CASE StartSso(r)
  <2> HIDE DEF n
  <2> QED
    BY <1>1, <1>2, <1>15, StartSsoMoves DEF StartSso, At, LocalsOK, Keeps, Same, Moved, Ended, n
<1>16. CASE IssueAuthorizationCode(r)
  <2> HIDE DEF n
  <2> QED
    BY <1>1, <1>2, <1>16, IssueAuthorizationCodeMoves DEF IssueAuthorizationCode, At, LocalsOK, Keeps, Same, Moved, Ended, n
<1>17. CASE ConsumeAuthorizationCode(r)
  <2> HIDE DEF n
  <2> QED
    BY <1>1, <1>2, <1>17, ConsumeAuthorizationCodeMoves DEF ConsumeAuthorizationCode, At, LocalsOK, Keeps, Same, Moved, Ended, n
<1>18. CASE CheckSession(r)
  <2> HIDE DEF n
  <2> QED
    BY <1>1, <1>2, <1>18, CheckSessionMoves DEF CheckSession, At, LocalsOK, Keeps, Same, Moved, Ended, n
<1>19. CASE IssueRefreshToken(r)
  <2> HIDE DEF n
  <2> QED
    BY <1>1, <1>2, <1>19, IssueRefreshTokenMoves DEF IssueRefreshToken, At, LocalsOK, Keeps, Same, Moved, Ended, n
<1>20. CASE Respond(r)
  <2> HIDE DEF n
  <2> QED
    BY <1>1, <1>2, <1>20, RespondMoves DEF Respond, At, LocalsOK, Keeps, Same, Moved, Ended, n
<1>21. CASE RequireLiveSession(r)
  <2> HIDE DEF n
  <2> QED
    BY <1>1, <1>2, <1>21, RequireLiveSessionMoves DEF RequireLiveSession, At, LocalsOK, Keeps, Same, Moved, Ended, n
<1>22. CASE Patch(r)
  <2> HIDE DEF n
  <2> QED
    BY <1>1, <1>2, <1>22, PatchMoves DEF Patch, At, LocalsOK, Keeps, Same, Moved, Ended, n
<1>23. CASE ListSessions(r)
  <2>1. PICK all \in SUBSET Sessions :
          \/ Moved(n, q, "row", q.code, q.session, q.issued, all)
          \/ Moved(n, q, AfterRevoking[q.kind], q.code, q.session, q.issued, all)
    BY <1>23, ListSessionsMoves
  <2>2. q.stage = "list" /\ q.kind \in DOMAIN AfterRevoking
    BY <1>1, <1>23 DEF ListSessions, At, LocalsOK, AfterRevoking
  <2>3. AfterRevoking[q.kind] \in {"ended", "closeSso"}
    BY <2>2, AfterRevokingStage
  <2> HIDE DEF q, n
  <2> QED
    BY <1>2, <2>1, <2>3 DEF Moved, Keeps
<1>24. CASE RevokeSessionRow(r)
  <2> HIDE DEF n
  <2> QED
    BY <1>1, <1>2, <1>24, RevokeSessionRowMoves DEF RevokeSessionRow, At, LocalsOK, Keeps, Same, Moved, Ended, n
<1>25. CASE RevokeTokenRows(r)
  <2> HIDE DEF n
  <2> QED
    BY <1>1, <1>2, <1>25, RevokeTokenRowsMoves, AfterRevokingStage DEF RevokeTokenRows, At, LocalsOK, Keeps, Same, Moved, Ended, n
<1>26. CASE AnswerRevocation(r)
  <2> HIDE DEF n
  <2> QED
    BY <1>1, <1>2, <1>26, AnswerRevocationMoves DEF AnswerRevocation, At, LocalsOK, Keeps, Same, Moved, Ended, n
<1>27. CASE CloseSsoSessions(r)
  <2> HIDE DEF n
  <2> QED
    BY <1>1, <1>2, <1>27, CloseSsoSessionsMoves DEF CloseSsoSessions, At, LocalsOK, Keeps, Same, Moved, Ended, n
<1>28. CASE Fail(r)
  <2> HIDE DEF n
  <2> QED
    BY <1>1, <1>2, <1>28, FailMoves DEF Fail, At, LocalsOK, Keeps, Same, Moved, Ended, n
<1> QED
  BY <1>3, <1>4, <1>5, <1>6, <1>7, <1>8, <1>9, <1>10, <1>11, <1>12, <1>13, <1>14, <1>15, <1>16, <1>17, <1>18, <1>19, <1>20, <1>21, <1>22, <1>23, <1>24, <1>25, <1>26, <1>27, <1>28 DEF Step, Begin, Continue

\* A statement that adds no token and makes no new issuer leaves the chain as it is.
LEMMA QuietChain ==
    ASSUME TypeOK, ChainOK, InHand, TablesGrow, NEW r \in Reqs, Frame(r),
           \A t \in Tokens : token'[t].session = token[t].session,
           MayIssue(req[r])' => MayIssue(req[r]) /\ req'[r].session = req[r].session
    PROVE  ChainOK'
<1>1. \A t \in Tokens : Issued(t)' => Issued(t) /\ (token[t].used => token'[t].used)
  BY DEF Issued, TablesGrow, TokensGrow
<1>2. \A x \in Reqs : MayIssue(req[x])' => MayIssue(req[x]) /\ req'[x].session = req[x].session
  BY DEF Frame, MayIssue
<1>3. ChainNeverForks'
  BY <1>1 DEF ChainOK, ChainNeverForks
<1>4. \A x \in Reqs : MayIssue(req[x]) => req[x].session \in Sessions
  BY DEF InHand, RowsInHand, OnSession
<1>5. ASSUME NEW x \in Reqs, MayIssue(req[x])', NEW t \in Tokens,
             token'[t].session = req'[x].session
      PROVE  token'[t].used
  <2>1. MayIssue(req[x]) /\ token[t].session = req[x].session /\ req[x].session \in Sessions
    BY <1>2, <1>4, <1>5
  <2>2. token[t].used /\ Issued(t)
    BY <2>1, NoneAssumption DEF ChainOK, Issued
  <2> QED
    BY <2>2 DEF TablesGrow, TokensGrow
<1> QED
  BY <1>2, <1>3, <1>5 DEF ChainOK

\* Each session keeps at most one unspent token, and one issuer.
LEMMA StepChain ==
    ASSUME TypeOK, TypeOK', Locals, InHand, RowsOK, ChainOK, TablesGrow,
           NEW r \in Reqs, Step(r)
    PROVE  ChainOK'
<1> DEFINE q == req[r]
           n == req'[r]
<1>1. q \in Request /\ LocalsOK(q) /\ RowsInHand(q)
  BY DEF TypeOK, Locals, InHand
<1>2. Frame(r)
  BY StepFrame
<1>3. \A x \in Reqs : MayIssue(req[x]) => req[x].session \in Sessions /\ Opened(req[x].session)
  BY NoneAssumption DEF InHand, RowsInHand, OnSession, Opened
<1>4. CASE ~MarkUsed(r) /\ ~CreateSession(r) /\ ~IssueRefreshToken(r)
  BY <1>2, <1>4, NewIssuer, NewTokens, QuietChain
\* A session just opened has no token and nobody else to issue one.
<1>5. CASE CreateSession(r)
  <2>1. PICK s \in Sessions : ~Opened(s) /\ Moved(n, q, "issue", q.code, s, q.issued, q.targets)
    BY <1>5, CreateSessionMoves
  <2>2. UNCHANGED token
    BY <1>5 DEF CreateSession
  <2>3. \A t \in Tokens : token[t].session # s
    BY <2>1, NoneAssumption DEF RowsOK, Issued
  <2>4. \A x \in Reqs : MayIssue(req[x]) => req[x].session # s
    BY <1>3, <2>1
  <2>5. n.session = s
    BY <2>1 DEF Moved
  <2>6. \A x \in Reqs \ {r} : req'[x] = req[x]
    BY <1>2 DEF Frame
  <2>7. \A x \in Reqs \ {r} : MayIssue(req[x])' => MayIssue(req[x]) /\ req'[x].session = req[x].session
    BY <2>6 DEF MayIssue
  <2> HIDE DEF q, n
  <2>8. \A x \in Reqs : MayIssue(req[x])' =>
          \A t \in Tokens : token'[t].session = req'[x].session => token'[t].used
    BY <2>2, <2>3, <2>5, <2>7 DEF ChainOK, n
  <2>9. \A x, y \in Reqs :
          MayIssue(req[x])' /\ MayIssue(req[y])' /\ req'[x].session = req'[y].session => x = y
    BY <2>4, <2>5, <2>7 DEF ChainOK, n
  <2>10. ChainNeverForks'
    BY <2>2 DEF ChainOK, ChainNeverForks, Issued
  <2> QED
    BY <2>8, <2>9, <2>10 DEF ChainOK
\* The token just spent was the only one of its session that could be: whoever else might
\* have issued would have found it spent.
<1>6. CASE MarkUsed(r)
  <2>1. q.stage = "mark" /\ q.kind = "refresh" /\ q.token \in Tokens
        /\ token[q.token].session = q.session /\ q.session \in Sessions
    BY <1>1, <1>6 DEF MarkUsed, At, LocalsOK, RowsInHand, OnSession
  <2>2. \A t \in Tokens : token'[t].session = token[t].session
    BY <1>6, NewTokens DEF MarkUsed, IssueRefreshToken, At
  <2>3. CASE token[q.token].used
    <3>1. req' = [req EXCEPT ![r] = [@ EXCEPT !.stage = "row", !.targets = {q.session}]]
      BY <1>6, <2>3 DEF MarkUsed, Unused, Reuse
    <3>2. ~MayIssue(req[r])'
      BY <1>1, <2>1, <3>1 DEF TypeOK, MayIssue, Request
    <3> QED
      BY <1>2, <2>2, <3>2, QuietChain
  <2>4. CASE ~token[q.token].used
    <3>1. token' = [token EXCEPT ![q.token].used = TRUE]
      BY <1>6, <2>4 DEF MarkUsed, Unused
    <3>2. n.session = q.session
      BY <1>6, <2>4, MarkUsedMoves, <3>1 DEF Moved, Ended, Same
    <3>3. \A t \in Tokens : token[t].session = q.session => token'[t].used
      BY <2>1, <2>4, <3>1, NoneAssumption DEF ChainOK, ChainNeverForks, Issued, TypeOK, TokenRow
    <3>4. \A x \in Reqs : MayIssue(req[x]) => req[x].session # q.session
      BY <2>1, <2>4 DEF ChainOK
    <3>5. \A x \in Reqs \ {r} : MayIssue(req[x])' => MayIssue(req[x]) /\ req'[x].session = req[x].session
      BY <1>2 DEF Frame, MayIssue
    <3>6. \A t \in Tokens : Issued(t)' => Issued(t) /\ (token[t].used => token'[t].used)
      BY <2>2 DEF Issued, TablesGrow, TokensGrow
    <3>7. ChainNeverForks'
      BY <2>2, <3>6 DEF ChainOK, ChainNeverForks
    <3>8. \A x, y \in Reqs :
            MayIssue(req[x])' /\ MayIssue(req[y])' /\ req'[x].session = req'[y].session => x = y
      BY <3>2, <3>4, <3>5 DEF ChainOK
    <3>9. ASSUME NEW x \in Reqs, MayIssue(req[x])', NEW t \in Tokens,
                 token'[t].session = req'[x].session
          PROVE  token'[t].used
      <4>1. CASE x = r
        BY <2>2, <3>2, <3>3, <3>9, <4>1
      <4>2. CASE x # r
        <5>1. MayIssue(req[x]) /\ token[t].session = req[x].session /\ req[x].session \in Sessions
          BY <1>3, <2>2, <3>5, <3>9, <4>2
        <5>2. token[t].used /\ Issued(t)
          BY <5>1, NoneAssumption DEF ChainOK, Issued
        <5> QED
          BY <5>2 DEF TablesGrow, TokensGrow
      <4> QED
        BY <4>1, <4>2
    <3> QED
      BY <3>7, <3>8, <3>9 DEF ChainOK
  <2> QED
    BY <2>3, <2>4
\* The new token is the only unspent one, and its issuer the only issuer.
<1>7. CASE IssueRefreshToken(r)
  <2>1. PICK t \in Tokens :
          /\ ~Issued(t)
          /\ token' = [token EXCEPT ![t] = [NoToken EXCEPT !.session = q.session, !.parent = q.token]]
          /\ Moved(n, q, "respond", q.code, q.session, t, q.targets)
    BY <1>7, IssueRefreshTokenMoves
  <2>2. q.stage = "issue" /\ MayIssue(q)
    BY <1>7 DEF IssueRefreshToken, At, MayIssue
  <2>3. token'[t].session = q.session /\ \A x \in Tokens \ {t} : token'[x] = token[x]
    BY <2>1 DEF TypeOK, NoToken
  <2>4. ~MayIssue(req[r])'
    BY <2>1 DEF MayIssue, Moved
  <2>5. \A x \in Reqs \ {r} : MayIssue(req[x])' => MayIssue(req[x]) /\ req'[x].session = req[x].session
    BY <1>2 DEF Frame, MayIssue
  <2>6. \A x \in Reqs \ {r} : MayIssue(req[x]) => req[x].session # q.session
    BY <2>2 DEF ChainOK
  <2>7. \A x \in Tokens : token[x].session = q.session => token[x].used
    BY <2>2 DEF ChainOK
  <2> HIDE DEF q, n
  <2>8. ChainNeverForks'
    BY <2>3, <2>7 DEF ChainOK, ChainNeverForks, Issued
  <2>9. \A x, y \in Reqs :
          MayIssue(req[x])' /\ MayIssue(req[y])' /\ req'[x].session = req'[y].session => x = y
    BY <2>4, <2>5 DEF ChainOK
  <2>10. ASSUME NEW x \in Reqs, MayIssue(req[x])', NEW y \in Tokens,
                token'[y].session = req'[x].session
         PROVE  token'[y].used
    <3>1. x # r /\ MayIssue(req[x]) /\ req'[x].session = req[x].session
      BY <2>4, <2>5, <2>10
    <3>2. y # t
      BY <2>3, <2>6, <2>10, <3>1
    <3> QED
      BY <2>3, <2>10, <3>1, <3>2 DEF ChainOK
  <2> QED
    BY <2>8, <2>9, <2>10 DEF ChainOK
<1> QED
  BY <1>4, <1>5, <1>6, <1>7

-----------------------------------------------------------------------------
(* One session per authorization code. *)

\* Only consuming a code makes a request its holder.
LEMMA NewHolder ==
    ASSUME TypeOK, Locals, NEW r \in Reqs, Step(r), ~ConsumeAuthorizationCode(r),
           HoldsCode(req[r])'
    PROVE  HoldsCode(req[r]) /\ req'[r].code = req[r].code
<1> DEFINE q == req[r]
           n == req'[r]
<1>1. q \in Request /\ LocalsOK(q)
  BY DEF TypeOK, Locals
<1>2. n.kind = "exchange" /\ n.stage \in {"account", "open"}
  BY DEF HoldsCode
<1>3. CASE BeginSignIn(r)
  <2> HIDE DEF n
  <2> QED
    BY <1>1, <1>2, <1>3, BeginSignInMoves DEF BeginSignIn, At, Started, n
<1>4. CASE BeginAuthorize(r)
  <2> HIDE DEF n
  <2> QED
    BY <1>1, <1>2, <1>4, BeginAuthorizeMoves DEF BeginAuthorize, At, Started, n
<1>5. CASE BeginExchange(r)
  <2> HIDE DEF n
  <2> QED
    BY <1>1, <1>2, <1>5, BeginExchangeMoves DEF BeginExchange, At, Started, n
<1>6. CASE BeginRefresh(r)
  <2> HIDE DEF n
  <2> QED
    BY <1>1, <1>2, <1>6, BeginRefreshMoves DEF BeginRefresh, At, Started, n
<1>7. CASE BeginAccess(r)
  <2> HIDE DEF n
  <2> QED
    BY <1>1, <1>2, <1>7, BeginAccessMoves DEF BeginAccess, At, Started, n
<1>8. CASE BeginRevoke(r)
  <2> HIDE DEF n
  <2> QED
    BY <1>1, <1>2, <1>8, BeginRevokeMoves DEF BeginRevoke, At, Started, n
<1>9. CASE BeginPrune(r)
  <2> HIDE DEF n
  <2> QED
    BY <1>1, <1>2, <1>9, BeginPruneMoves DEF BeginPrune, At, Started, n
<1>10. CASE BeginLogout(r)
  <2> HIDE DEF n
  <2> QED
    BY <1>1, <1>2, <1>10, BeginLogoutMoves DEF BeginLogout, At, Started, n
<1>11. CASE BeginSweep(r)
  <2> HIDE DEF n
  <2> QED
    BY <1>1, <1>2, <1>11, BeginSweepMoves DEF BeginSweep, At, Started, n
<1>12. CASE BeginPatch(r)
  <2> HIDE DEF n
  <2> QED
    BY <1>1, <1>2, <1>12, BeginPatchMoves DEF BeginPatch, At, Started, n
<1>13. CASE ReadAccount(r)
  <2>1. \/ Moved(n, q, OnActive[q.kind], q.code, q.session, q.issued, q.targets)
        \/ Ended(n, q, "refused")
    BY <1>13, ReadAccountMoves
  <2>2. q.stage = "account"
    BY <1>13 DEF ReadAccount, At
  <2> HIDE DEF q, n
  <2>3. q.kind = "exchange" /\ n.code = q.code
    BY <1>2, <2>1 DEF Moved, Ended, Same, Keeps
  <2> QED
    BY <2>2, <2>3 DEF HoldsCode, q, n
<1>14. CASE RotateCookie(r)
  <2> HIDE DEF n
  <2> QED
    BY <1>1, <1>2, <1>14, RotateCookieMoves DEF RotateCookie, At, LocalsOK, Keeps, Same, Moved, Ended, n
<1>15. CASE StartSso(r)
  <2> HIDE DEF n
  <2> QED
    BY <1>1, <1>2, <1>15, StartSsoMoves DEF StartSso, At, LocalsOK, Keeps, Same, Moved, Ended, n
<1>16. CASE IssueAuthorizationCode(r)
  <2> HIDE DEF n
  <2> QED
    BY <1>1, <1>2, <1>16, IssueAuthorizationCodeMoves DEF IssueAuthorizationCode, At, LocalsOK, Keeps, Same, Moved, Ended, n
<1>17. CASE CreateSession(r)
  <2> HIDE DEF n
  <2> QED
    BY <1>1, <1>2, <1>17, CreateSessionMoves DEF CreateSession, At, LocalsOK, Keeps, Same, Moved, Ended, n
<1>18. CASE CheckSession(r)
  <2> HIDE DEF n
  <2> QED
    BY <1>1, <1>2, <1>18, CheckSessionMoves DEF CheckSession, At, LocalsOK, Keeps, Same, Moved, Ended, n
<1>19. CASE MarkUsed(r)
  <2>1. q.kind = "refresh"
    BY <1>1, <1>19 DEF MarkUsed, At, LocalsOK
  <2>2. n.kind = q.kind
    BY <1>19, MarkUsedMoves DEF Moved, Ended, Same, Keeps
  <2> QED
    BY <1>2, <2>1, <2>2
<1>20. CASE IssueRefreshToken(r)
  <2> HIDE DEF n
  <2> QED
    BY <1>1, <1>2, <1>20, IssueRefreshTokenMoves DEF IssueRefreshToken, At, LocalsOK, Keeps, Same, Moved, Ended, n
<1>21. CASE Respond(r)
  <2> HIDE DEF n
  <2> QED
    BY <1>1, <1>2, <1>21, RespondMoves DEF Respond, At, LocalsOK, Keeps, Same, Moved, Ended, n
<1>22. CASE RequireLiveSession(r)
  <2> HIDE DEF n
  <2> QED
    BY <1>1, <1>2, <1>22, RequireLiveSessionMoves DEF RequireLiveSession, At, LocalsOK, Keeps, Same, Moved, Ended, n
<1>23. CASE Patch(r)
  <2> HIDE DEF n
  <2> QED
    BY <1>1, <1>2, <1>23, PatchMoves DEF Patch, At, LocalsOK, Keeps, Same, Moved, Ended, n
<1>24. CASE ListSessions(r)
  <2>1. n.kind = q.kind
    BY <1>24, ListSessionsMoves DEF Moved, Keeps
  <2>2. q.kind # "exchange"
    BY <1>1, <1>24 DEF ListSessions, At, LocalsOK
  <2> QED
    BY <1>2, <2>1, <2>2
<1>25. CASE RevokeSessionRow(r)
  <2> HIDE DEF n
  <2> QED
    BY <1>1, <1>2, <1>25, RevokeSessionRowMoves DEF RevokeSessionRow, At, LocalsOK, Keeps, Same, Moved, Ended, n
<1>26. CASE RevokeTokenRows(r)
  <2> HIDE DEF n
  <2> QED
    BY <1>1, <1>2, <1>26, RevokeTokenRowsMoves, AfterRevokingStage DEF RevokeTokenRows, At, LocalsOK, Keeps, Same, Moved, Ended, n
<1>27. CASE AnswerRevocation(r)
  <2> HIDE DEF n
  <2> QED
    BY <1>1, <1>2, <1>27, AnswerRevocationMoves DEF AnswerRevocation, At, LocalsOK, Keeps, Same, Moved, Ended, n
<1>28. CASE CloseSsoSessions(r)
  <2> HIDE DEF n
  <2> QED
    BY <1>1, <1>2, <1>28, CloseSsoSessionsMoves DEF CloseSsoSessions, At, LocalsOK, Keeps, Same, Moved, Ended, n
<1>29. CASE Fail(r)
  <2> HIDE DEF n
  <2> QED
    BY <1>1, <1>2, <1>29, FailMoves DEF Fail, At, LocalsOK, Keeps, Same, Moved, Ended, n
<1> QED
  BY <1>3, <1>4, <1>5, <1>6, <1>7, <1>8, <1>9, <1>10, <1>11, <1>12, <1>13, <1>14, <1>15, <1>16, <1>17, <1>18, <1>19, <1>20, <1>21, <1>22, <1>23, <1>24, <1>25, <1>26, <1>27, <1>28, <1>29 DEF Step, Begin, Continue

\* Each code keeps at most one session, or one request about to open it.
LEMMA StepCodes ==
    ASSUME TypeOK, TypeOK', Locals, InHand, RowsOK, CodesOK, TablesGrow,
           NEW r \in Reqs, Step(r)
    PROVE  CodesOK'
<1> DEFINE q == req[r]
           n == req'[r]
<1>1. q \in Request /\ LocalsOK(q) /\ RowsInHand(q)
  BY DEF TypeOK, Locals, InHand
<1>2. \A x \in Reqs \ {r} : HoldsCode(req[x])' => HoldsCode(req[x]) /\ req'[x].code = req[x].code
  BY StepFrame DEF Frame, HoldsCode
<1>3. \A s \in Sessions : Opened(s) => Opened(s)' /\ session'[s].code = session[s].code
  BY DEF TablesGrow, SessionsGrow, Opened
\* Whoever consumes a code finds it unconsumed: nobody holds it and no session is of it.
<1>4. CASE ConsumeAuthorizationCode(r)
  <2>1. UNCHANGED session /\ q.stage = "consume"
    BY <1>4 DEF ConsumeAuthorizationCode, At
  <2>2. n.code = q.code /\ (HoldsCode(n) => ~code[q.code].consumed)
    BY <1>4, ConsumeAuthorizationCodeMoves DEF Moved, Ended, Same, HoldsCode
  <2>3. \A x \in Reqs : HoldsCode(req[x]) => code[req[x].code].consumed
    BY DEF InHand, RowsInHand
  <2>4. \A s \in Sessions : Opened(s) => code[session[s].code].consumed
    BY DEF RowsOK
  <2>5. \A s \in Sessions : Opened(s)' => Opened(s) /\ session'[s].code = session[s].code
    BY <2>1 DEF Opened
  <2>6. OneSessionPerCode'
    BY <2>1, <2>5 DEF CodesOK, OneSessionPerCode
  <2>7. HoldsCode(req[r])' <=> HoldsCode(n)
    BY DEF HoldsCode
  <2> HIDE DEF q, n
  <2>8. \A x \in Reqs : HoldsCode(req[x])' =>
          \A s \in Sessions : Opened(s)' => session'[s].code # req'[x].code
    BY <1>2, <2>2, <2>4, <2>5, <2>7 DEF CodesOK, n
  <2>9. \A x, y \in Reqs :
          HoldsCode(req[x])' /\ HoldsCode(req[y])' /\ req'[x].code = req'[y].code => x = y
    BY <1>2, <2>2, <2>3, <2>7 DEF CodesOK, n
  <2> QED
    BY <2>6, <2>8, <2>9 DEF CodesOK
<1>5. CASE ~ConsumeAuthorizationCode(r)
  <2>1. \A x \in Reqs : HoldsCode(req[x])' => HoldsCode(req[x]) /\ req'[x].code = req[x].code
    BY <1>2, <1>5, NewHolder
  <2>2. \A x, y \in Reqs :
          HoldsCode(req[x])' /\ HoldsCode(req[y])' /\ req'[x].code = req'[y].code => x = y
    BY <2>1 DEF CodesOK
  <2>3. CASE ~CreateSession(r)
    <3>1. \A s \in Sessions : Opened(s)' => Opened(s) /\ session'[s].code = session[s].code
      BY <1>3, <2>3, NewSessions
    <3>2. OneSessionPerCode'
      BY <3>1 DEF CodesOK, OneSessionPerCode
    <3>3. \A x \in Reqs : HoldsCode(req[x])' =>
            \A s \in Sessions : Opened(s)' => session'[s].code # req'[x].code
      BY <2>1, <3>1 DEF CodesOK
    <3> QED
      BY <2>2, <3>2, <3>3 DEF CodesOK
  \* The session opened is the first of its code, and its opener no longer holds the code.
  <2>4. CASE CreateSession(r)
    <3>1. PICK s \in Sessions :
            /\ ~Opened(s)
            /\ session' = [session EXCEPT ![s] = [NoSession EXCEPT !.user = q.user, !.client = q.client, !.code = q.code]]
            /\ Moved(n, q, "issue", q.code, s, q.issued, q.targets)
      BY <2>4, CreateSessionMoves
    <3>2. HoldsCode(q)
      BY <1>1, <2>4 DEF CreateSession, At, LocalsOK, HoldsCode
    <3>3. session'[s].code = q.code /\ \A x \in Sessions \ {s} : session'[x] = session[x]
      BY <3>1 DEF TypeOK, NoSession
    <3>4. \A x \in Sessions \ {s} : Opened(x)' => Opened(x) /\ session'[x].code = session[x].code
      BY <3>3 DEF Opened
    <3>5. \A x \in Sessions : Opened(x) => session[x].code # q.code
      BY <3>2 DEF CodesOK
    <3>6. ~HoldsCode(req[r])'
      BY <3>1 DEF HoldsCode, Moved
    <3>7. \A x \in Reqs \ {r} : HoldsCode(req[x]) => req[x].code # q.code
      BY <3>2 DEF CodesOK
    <3> HIDE DEF q, n
    <3>8. OneSessionPerCode'
      BY <3>3, <3>4, <3>5 DEF CodesOK, OneSessionPerCode
    <3>9. ASSUME NEW x \in Reqs, HoldsCode(req[x])', NEW y \in Sessions, Opened(y)'
          PROVE  session'[y].code # req'[x].code
      <4>1. x # r /\ HoldsCode(req[x]) /\ req'[x].code = req[x].code
        BY <2>1, <3>6, <3>9
      <4>2. CASE y = s
        BY <3>3, <3>7, <4>1, <4>2
      <4>3. CASE y # s
        BY <3>4, <3>9, <4>1, <4>3 DEF CodesOK
      <4> QED
        BY <4>2, <4>3
    <3> QED
      BY <2>2, <3>8, <3>9 DEF CodesOK
  <2> QED
    BY <2>3, <2>4
<1> QED
  BY <1>4, <1>5

-----------------------------------------------------------------------------
(* A barred request gets nothing. *)

\* Accounts change status, and bars are lifted, only in Patch; a bar is set as a request begins.
LEMMA BarFrame ==
    ASSUME TypeOK, NEW r \in Reqs, Step(r), ~Patch(r)
    PROVE  /\ UNCHANGED status
           /\ \A x \in Reqs \ {r} : barred'[x] = barred[x]
           /\ Continue(r) \/ Fail(r) => UNCHANGED barred
  BY DEF TypeOK, Bar, Step, Begin, Continue, Fail, BeginSignIn, BeginAuthorize, BeginExchange,
     BeginRefresh, BeginAccess, BeginRevoke, BeginPrune, BeginLogout, BeginSweep, BeginPatch,
     ReadAccount, RotateCookie, StartSso, IssueAuthorizationCode, ConsumeAuthorizationCode,
     CreateSession, CheckSession, MarkUsed, IssueRefreshToken, Respond, RequireLiveSession,
     ListSessions, RevokeSessionRow, RevokeTokenRows, AnswerRevocation, CloseSsoSessions

\* What the bar of a request says does not depend on what the others do.
LEMMA OthersBar ==
    ASSUME TypeOK, InHand, Locals, TablesGrow, NEW x \in Reqs, BarOK(x),
           req'[x] = req[x], barred'[x] \subseteq barred[x],
           "disabled" \in barred'[x] => status'[req[x].user] = "disabled"
    PROVE  BarOK(x)'
<1> DEFINE q == req[x]
<1>1. q \in Request /\ RowsInHand(q) /\ LocalsOK(q)
  BY DEF TypeOK, InHand, Locals
<1>2. "revoked" \in barred[x] /\ q.stage \in {"check", "account", "actor"} =>
        q.session \in Sessions /\ session[q.session].revoked /\ session'[q.session].revoked
  <2>1. SUFFICES ASSUME "revoked" \in barred[x], q.stage \in {"check", "account", "actor"}
                 PROVE  q.session \in Sessions /\ session[q.session].revoked
                        /\ session'[q.session].revoked
    OBVIOUS
  <2>2. q.session \in Sessions /\ session[q.session].revoked
        /\ q.kind \in {"refresh", "access", "authorize"}
        /\ (q.kind = "authorize" => q.stage = "done")
        /\ (q.kind = "refresh" => q.stage # "account")
    BY <2>1 DEF BarOK
  <2>3. session[q.session].user \in Users
    <3> HIDE DEF q
    <3> QED
      BY <1>1, <2>1, <2>2 DEF RowsInHand, OnSession, LocalsOK
  <2> QED
    BY <2>2, <2>3, NoneAssumption DEF TablesGrow, SessionsGrow, Opened
<1> QED
  BY <1>2 DEF BarOK

\* A barred request that moves stays short of its goal.
LEMMA MoverBar ==
    ASSUME TypeOK, TypeOK', Locals, InHand, RowsOK, TablesGrow,
           NEW r \in Reqs, BarOK(r), Step(r)
    PROVE  BarOK(r)'
<1> DEFINE q == req[r]
           n == req'[r]
<1>1. q \in Request /\ LocalsOK(q) /\ RowsInHand(q)
  BY DEF TypeOK, Locals, InHand
<1>2. \A s \in Sessions : session[s].user \in Users /\ session[s].revoked => session'[s].revoked
  BY NoneAssumption DEF TablesGrow, SessionsGrow, Opened
<1>4. \A b \in barred[r] : b = "revoked" \/ b = "disabled"
  BY DEF TypeOK
<1>5. \A b \in barred'[r] : b = "revoked" \/ b = "disabled"
  BY DEF TypeOK
<1>11. CASE BeginSignIn(r)
  <2>1. PICK u \in Users, a \in Clients :
          /\ Bar(r, FALSE, status[u] = "disabled")
          /\ Started(n, "signIn", "account", "none", u, a, None, None, None, {})
    BY <1>11, BeginSignInMoves
  <2>2. UNCHANGED <<status, session>>
    BY <1>11 DEF BeginSignIn, tables
  <2>3. "revoked" \notin barred'[r] /\ ("disabled" \in barred'[r] <=> status[u] = "disabled")
    BY <2>1 DEF Bar, TypeOK
  <2> HIDE DEF n
  <2> QED
    BY <1>5, <2>1, <2>2, <2>3 DEF BarOK, Started, n
<1>12. CASE BeginAuthorize(r)
  <2>1. PICK a \in Clients, k \in Ssos :
          /\ sso[k].user \in Users
          /\ Bar(r, sso[k].revoked, status[sso[k].user] = "disabled")
          /\ \/ /\ ~sso[k].revoked
                /\ Started(n, "authorize", "account", "none", sso[k].user, a, None, None, None, {})
             \/ Started(n, "authorize", "done", "refused", sso[k].user, a, None, None, None, {})
    BY <1>12, BeginAuthorizeMoves
  <2>2. UNCHANGED <<status, session>>
    BY <1>12 DEF BeginAuthorize, tables
  <2>3. /\ "revoked" \in barred'[r] <=> sso[k].revoked
        /\ "disabled" \in barred'[r] <=> status[sso[k].user] = "disabled"
    BY <2>1 DEF Bar, TypeOK
  <2> HIDE DEF n
  <2> QED
    BY <1>5, <2>1, <2>2, <2>3 DEF BarOK, Started, n
<1>13. CASE BeginExchange(r)
  <2>1. PICK c \in Codes, a \in Clients :
          /\ code[c].user \in Users
          /\ Bar(r, FALSE, status[code[c].user] = "disabled")
          /\ \/ Started(n, "exchange", "consume", "none", code[c].user, a, c, None, None, {})
             \/ Started(n, "exchange", "done", "refused", code[c].user, a, c, None, None, {})
    BY <1>13, BeginExchangeMoves
  <2>2. UNCHANGED <<status, session>>
    BY <1>13 DEF BeginExchange, tables
  <2>3. "revoked" \notin barred'[r] /\ ("disabled" \in barred'[r] <=> status[code[c].user] = "disabled")
    BY <2>1 DEF Bar, TypeOK
  <2> HIDE DEF n
  <2> QED
    BY <1>5, <2>1, <2>2, <2>3 DEF BarOK, Started, n
<1>14. CASE BeginRefresh(r)
  <2>1. PICK t \in Tokens, a \in Clients, s \in Sessions, u \in Users \cup {None} :
          /\ t \in wire /\ token[t].session = s /\ u = session[s].user
          /\ Bar(r, session[s].revoked, status[u] = "disabled")
          /\ \/ Started(n, "refresh", "row", "none", u, a, None, s, t, {s})
             \/ /\ token[t].revoked \/ token[t].expired
                /\ Started(n, "refresh", "done", "refused", u, a, None, s, t, {})
             \/ Started(n, "refresh", "check", "none", u, a, None, s, t, {})
    BY <1>14, BeginRefreshMoves
  <2>2. UNCHANGED <<status, session>>
    BY <1>14 DEF BeginRefresh, tables
  <2>3. u \in Users
    BY <2>1, NoneAssumption DEF RowsOK, Issued, Opened
  <2>4. /\ "revoked" \in barred'[r] <=> session[s].revoked
        /\ "disabled" \in barred'[r] <=> status[u] = "disabled"
    BY <2>1 DEF Bar, TypeOK
  <2> HIDE DEF n
  <2> QED
    BY <1>5, <2>1, <2>2, <2>3, <2>4 DEF BarOK, Started, n
<1>15. CASE BeginAccess(r)
  <2>1. PICK s \in Sessions :
          /\ HasBearer(s) /\ session[s].user \in Users \cup {None}
          /\ Bar(r, session[s].revoked, status[session[s].user] = "disabled")
          /\ Started(n, "access", "account", "none", session[s].user, None, None, s, None, {})
    BY <1>15, BeginAccessMoves
  <2>2. UNCHANGED <<status, session>>
    BY <1>15 DEF BeginAccess, tables
  <2>3. session[s].user \in Users
    BY <2>1, NoneAssumption DEF RowsOK, HasBearer, Issued, Opened
  <2>4. /\ "revoked" \in barred'[r] <=> session[s].revoked
        /\ "disabled" \in barred'[r] <=> status[session[s].user] = "disabled"
    BY <2>1 DEF Bar, TypeOK
  <2> HIDE DEF n
  <2> QED
    BY <1>5, <2>1, <2>2, <2>3, <2>4 DEF BarOK, Started, n
<1>16. CASE BeginRevoke(r)
  <2>1. q.stage = "idle" /\ UNCHANGED barred
    BY <1>16, <1>1 DEF BeginRevoke, Idle
  <2> QED
    BY <1>4, <1>5, <2>1 DEF BarOK
<1>17. CASE BeginPrune(r)
  <2>1. q.stage = "idle" /\ UNCHANGED barred
    BY <1>17, <1>1 DEF BeginPrune, Idle
  <2> QED
    BY <1>4, <1>5, <2>1 DEF BarOK
<1>18. CASE BeginLogout(r)
  <2>1. q.stage = "idle" /\ UNCHANGED barred
    BY <1>18, <1>1 DEF BeginLogout, Idle
  <2> QED
    BY <1>4, <1>5, <2>1 DEF BarOK
<1>19. CASE BeginSweep(r)
  <2>1. q.stage = "idle" /\ UNCHANGED barred
    BY <1>19, <1>1 DEF BeginSweep, Idle
  <2> QED
    BY <1>4, <1>5, <2>1 DEF BarOK
<1>20. CASE BeginPatch(r)
  <2>1. q.stage = "idle" /\ UNCHANGED barred
    BY <1>20, <1>1 DEF BeginPatch, Idle
  <2> QED
    BY <1>4, <1>5, <2>1 DEF BarOK
<1>21. CASE ReadAccount(r)
  <2>1. \/ /\ status[q.user] = "active"
           /\ Moved(n, q, OnActive[q.kind], q.code, q.session, q.issued, q.targets)
        \/ Ended(n, q, "refused")
    BY <1>21, ReadAccountMoves
  <2>2. q.stage = "account" /\ UNCHANGED <<status, barred>>
    BY <1>21 DEF ReadAccount, At
  <2>3. q.kind \in DOMAIN OnActive
    BY <1>1, <2>2 DEF LocalsOK
  <2>4. OnActive[q.kind] # "idle" /\ (q.kind = "access" => OnActive[q.kind] = "actor")
    BY <2>3, OnActiveStage
  <2> HIDE DEF q, n
  <2> QED
    BY <1>1, <1>2, <1>4, <2>1, <2>2, <2>3, <2>4 DEF BarOK, LocalsOK, RowsInHand, OnSession, Moved, Ended, Same, Keeps, q, n
<1>22. CASE RotateCookie(r)
  <2>1. Moved(n, q, "startSso", q.code, q.session, q.issued, q.targets)
    BY <1>22, RotateCookieMoves
  <2>2. q.stage = "rotate" /\ UNCHANGED <<status, barred>>
    BY <1>22 DEF RotateCookie, At
  <2> HIDE DEF q, n
  <2> QED
    BY <1>1, <1>2, <1>4, <2>1, <2>2 DEF BarOK, LocalsOK, RowsInHand, OnSession, Moved, Ended, Same, Keeps, q, n
<1>23. CASE StartSso(r)
  <2>1. q.stage = "startSso" /\ UNCHANGED <<status, barred>>
    BY <1>23 DEF StartSso, At
  <2>2. barred[r] = {}
    BY <1>1, <1>4, <2>1 DEF BarOK, LocalsOK
  <2> QED
    BY <2>1, <2>2 DEF BarOK
<1>24. CASE IssueAuthorizationCode(r)
  <2>1. q.stage = "mint" /\ UNCHANGED barred
    BY <1>24 DEF IssueAuthorizationCode, At
  <2>2. barred[r] = {}
    BY <1>1, <1>4, <2>1 DEF BarOK, LocalsOK
  <2> QED
    BY <2>1, <2>2 DEF BarOK
<1>25. CASE CreateSession(r)
  <2>1. q.stage = "open" /\ UNCHANGED barred
    BY <1>25 DEF CreateSession, At
  <2>2. barred[r] = {}
    BY <1>1, <1>4, <2>1 DEF BarOK, LocalsOK
  <2> QED
    BY <2>1, <2>2 DEF BarOK
<1>26. CASE IssueRefreshToken(r)
  <2>1. q.stage = "issue" /\ UNCHANGED barred
    BY <1>26 DEF IssueRefreshToken, At
  <2>2. barred[r] = {}
    BY <1>1, <1>4, <2>1 DEF BarOK, LocalsOK
  <2> QED
    BY <2>1, <2>2 DEF BarOK
<1>27. CASE Respond(r)
  <2>1. q.stage = "respond" /\ UNCHANGED barred
    BY <1>27 DEF Respond, At
  <2>2. barred[r] = {}
    BY <1>1, <1>4, <2>1 DEF BarOK, LocalsOK
  <2> QED
    BY <2>1, <2>2 DEF BarOK
<1>28. CASE ConsumeAuthorizationCode(r)
  <2>1. \/ Moved(n, q, "account", q.code, q.session, q.issued, q.targets)
        \/ Ended(n, q, "refused")
    BY <1>28, ConsumeAuthorizationCodeMoves
  <2>2. q.stage = "consume" /\ UNCHANGED <<status, barred>>
    BY <1>28 DEF ConsumeAuthorizationCode, At
  <2> HIDE DEF q, n
  <2> QED
    BY <1>1, <1>2, <1>4, <2>1, <2>2 DEF BarOK, LocalsOK, RowsInHand, OnSession, Moved, Ended, Same, Keeps, q, n
<1>29. CASE CheckSession(r)
  <2>1. \/ Ended(n, q, "refused")
        \/ /\ ~session[q.session].revoked
           /\ Moved(n, q, "mark", q.code, q.session, q.issued, q.targets)
    BY <1>29, CheckSessionMoves
  <2>2. q.stage = "check" /\ UNCHANGED <<status, barred>>
    BY <1>29 DEF CheckSession, At
  <2> HIDE DEF q, n
  <2> QED
    BY <1>1, <1>2, <1>4, <2>1, <2>2 DEF BarOK, LocalsOK, RowsInHand, OnSession, Moved, Ended, Same, Keeps, q, n
<1>30. CASE MarkUsed(r)
  <2>1. PICK ts \in SUBSET Sessions :
          \/ Moved(n, q, "account", q.code, q.session, q.issued, q.targets)
          \/ Ended(n, q, "refused")
          \/ Moved(n, q, "row", q.code, q.session, q.issued, ts)
    BY <1>30, MarkUsedMoves
  <2>2. q.stage = "mark" /\ UNCHANGED <<status, barred>>
    BY <1>30 DEF MarkUsed, At
  <2> HIDE DEF q, n
  <2> QED
    BY <1>1, <1>4, <2>1, <2>2 DEF BarOK, LocalsOK, Moved, Ended, Same, Keeps, q, n
<1>31. CASE RequireLiveSession(r)
  <2>1. \/ Ended(n, q, "refused")
        \/ /\ ~session[q.session].revoked
           /\ Ended(n, q, "granted")
    BY <1>31, RequireLiveSessionMoves
  <2>2. q.stage = "actor" /\ UNCHANGED <<status, barred>>
    BY <1>31 DEF RequireLiveSession, At
  <2> HIDE DEF q, n
  <2> QED
    BY <1>1, <1>2, <1>4, <2>1, <2>2 DEF BarOK, LocalsOK, RowsInHand, OnSession, Moved, Ended, Same, Keeps, q, n
<1>32. CASE ListSessions(r)
  <2>1. PICK all \in SUBSET Sessions :
          \/ Moved(n, q, "row", q.code, q.session, q.issued, all)
          \/ Moved(n, q, AfterRevoking[q.kind], q.code, q.session, q.issued, all)
    BY <1>32, ListSessionsMoves
  <2>2. q.stage = "list" /\ q.kind \in {"sweep", "disable"} /\ UNCHANGED <<status, barred>>
    BY <1>1, <1>32 DEF ListSessions, At, LocalsOK
  <2>3. AfterRevoking[q.kind] \in {"ended", "closeSso"}
    BY <2>2, AfterRevokingStage DEF AfterRevoking
  <2> HIDE DEF q, n
  <2> QED
    BY <1>1, <1>4, <2>1, <2>2, <2>3 DEF BarOK, LocalsOK, Moved, Keeps, q, n
<1>33. CASE RevokeSessionRow(r)
  <2>1. PICK s \in Sessions : Moved(n, q, "chain", q.code, s, q.issued, q.targets)
    BY <1>33, RevokeSessionRowMoves
  <2>2. q.stage = "row" /\ q.kind \in DOMAIN AfterRevoking /\ UNCHANGED <<status, barred>>
    BY <1>1, <1>33 DEF RevokeSessionRow, At, LocalsOK
  <2> HIDE DEF q, n
  <2> QED
    BY <1>1, <1>4, <2>1, <2>2 DEF BarOK, LocalsOK, Moved, Keeps, AfterRevoking, q, n
<1>34. CASE RevokeTokenRows(r)
  <2>1. PICK left \in SUBSET Sessions :
          \/ Moved(n, q, "row", q.code, q.session, q.issued, left)
          \/ Moved(n, q, AfterRevoking[q.kind], q.code, q.session, q.issued, left)
    BY <1>34, RevokeTokenRowsMoves
  <2>2. q.stage = "chain" /\ q.kind \in DOMAIN AfterRevoking /\ UNCHANGED <<status, barred>>
    BY <1>1, <1>34 DEF RevokeTokenRows, At, LocalsOK
  <2>3. AfterRevoking[q.kind] \in {"ended", "closeSso"}
    BY <2>2, AfterRevokingStage
  <2> HIDE DEF q, n
  <2> QED
    BY <1>1, <1>4, <2>1, <2>2, <2>3 DEF BarOK, LocalsOK, Moved, Keeps, AfterRevoking, q, n
<1>35. CASE AnswerRevocation(r)
  <2>1. \/ Ended(n, q, "reuse")
        \/ Ended(n, q, "ok")
    BY <1>35, AnswerRevocationMoves
  <2>2. q.stage = "ended" /\ UNCHANGED <<status, barred>>
    BY <1>35 DEF AnswerRevocation, At
  <2> HIDE DEF q, n
  <2> QED
    BY <1>1, <1>2, <1>4, <2>1, <2>2 DEF BarOK, LocalsOK, RowsInHand, OnSession, Moved, Ended, Same, Keeps, q, n
<1>36. CASE CloseSsoSessions(r)
  <2>1. Ended(n, q, "ok")
    BY <1>36, CloseSsoSessionsMoves
  <2>2. q.stage = "closeSso" /\ UNCHANGED <<status, barred>>
    BY <1>36 DEF CloseSsoSessions, At
  <2> HIDE DEF q, n
  <2> QED
    BY <1>1, <1>2, <1>4, <2>1, <2>2 DEF BarOK, LocalsOK, RowsInHand, OnSession, Moved, Ended, Same, Keeps, q, n
<1>37. CASE Patch(r)
  <2>1. q.stage = "patch" /\ q.kind \in {"disable", "enable"} /\ q.user \in Users
    BY <1>1, <1>37 DEF Patch, At, LocalsOK, RowsInHand
  <2>2. "revoked" \notin barred[r]
    BY <2>1 DEF BarOK
  <2>3. \/ /\ Moved(n, q, "list", q.code, q.session, q.issued, q.targets)
           /\ status' = [status EXCEPT ![q.user] = "disabled"] /\ UNCHANGED barred
        \/ /\ Ended(n, q, "ok")
           /\ barred' = [x \in Reqs |-> IF req[x].user = q.user
                                        THEN barred[x] \ {"disabled"} ELSE barred[x]]
    BY <1>37, PatchMoves
  <2> HIDE DEF q, n
  <2>4. CASE Moved(n, q, "list", q.code, q.session, q.issued, q.targets)
             /\ status' = [status EXCEPT ![q.user] = "disabled"] /\ UNCHANGED barred
    BY <1>1, <1>4, <2>1, <2>2, <2>4 DEF BarOK, LocalsOK, Moved, Keeps, TypeOK, q, n
  <2>5. CASE barred' = [x \in Reqs |-> IF req[x].user = q.user
                                       THEN barred[x] \ {"disabled"} ELSE barred[x]]
    <3>1. barred'[r] = {}
      BY <1>4, <2>2, <2>5 DEF q
    <3> QED
      BY <3>1 DEF BarOK
  <2> QED
    BY <2>3, <2>4, <2>5
<1>38. CASE Fail(r)
  <2>1. Ended(n, q, "failed") /\ q.stage # "done" /\ UNCHANGED <<status, barred>>
    BY <1>38, FailMoves DEF Fail
  <2> HIDE DEF q, n
  <2> QED
    BY <1>1, <1>4, <2>1 DEF BarOK, LocalsOK, Ended, Same, Keeps, q, n
<1> QED
  BY <1>11, <1>12, <1>13, <1>14, <1>15, <1>16, <1>17, <1>18, <1>19, <1>20, <1>21, <1>22, <1>23, <1>24, <1>25, <1>26, <1>27, <1>28, <1>29, <1>30, <1>31, <1>32, <1>33, <1>34, <1>35, <1>36, <1>37, <1>38 DEF Step, Begin, Continue

\* Every barred request stays short of its goal.
LEMMA StepBars ==
    ASSUME TypeOK, TypeOK', Locals, InHand, RowsOK, TablesGrow, BarsOK,
           NEW r \in Reqs, Step(r)
    PROVE  BarsOK'
<1>1. BarOK(r)'
  BY MoverBar DEF BarsOK
<1>2. ASSUME NEW x \in Reqs \ {r} PROVE BarOK(x)'
  <2>1. req'[x] = req[x] /\ BarOK(x)
    BY StepFrame DEF Frame, BarsOK
  <2>2. "disabled" \in barred[x] => req[x].user \in Users /\ status[req[x].user] = "disabled"
    BY <2>1 DEF BarOK
  <2>3. CASE ~Patch(r)
    BY <2>1, <2>2, <2>3, BarFrame, OthersBar
  <2>4. CASE Patch(r)
    <3>1. \/ /\ status' = [status EXCEPT ![req[r].user] = "disabled"] /\ UNCHANGED barred
          \/ /\ status' = [status EXCEPT ![req[r].user] = "active"]
             /\ barred' = [y \in Reqs |-> IF req[y].user = req[r].user
                                          THEN barred[y] \ {"disabled"} ELSE barred[y]]
      BY <2>4 DEF Patch
    <3>2. barred'[x] \subseteq barred[x]
      BY <3>1
    <3>3. "disabled" \in barred'[x] => status'[req[x].user] = "disabled"
      BY <2>2, <3>1 DEF TypeOK
    <3> QED
      BY <2>1, <3>2, <3>3, OthersBar
  <2> QED
    BY <2>3, <2>4
<1> QED
  BY <1>1, <1>2 DEF BarsOK

-----------------------------------------------------------------------------
(* The invariant. *)

\* The invariant holds of the empty tables.
LEMMA InitInv == Init => Inv
<1> SUFFICES ASSUME Init PROVE Inv
  OBVIOUS
<1>1. TypeOK /\ Locals
  BY InitTypes
<1>2. \A r \in Reqs : req[r].kind = "none" /\ req[r].stage = "idle" /\ req[r].outcome = "none"
                      /\ req[r].targets = {}
  BY DEF Init, NoRequest
<1>3. \A s \in Sessions : session[s].user = None
  BY DEF Init, NoSession
<1>4. \A t \in Tokens : token[t].session = None
  BY DEF Init, NoToken
<1>5. wire = {} /\ \A r \in Reqs : barred[r] = {}
  BY DEF Init
<1>6. InHand
  BY <1>2 DEF InHand, RowsInHand, HoldsCode, MayIssue, OnSession
<1>7. RowsOK /\ ChainOK /\ CodesOK
  BY <1>2, <1>3, <1>4, <1>5 DEF RowsOK, ChainOK, CodesOK, ChainNeverForks, OneSessionPerCode,
     Opened, Issued, MayIssue, HoldsCode
<1>8. BarsOK
  BY <1>5 DEF BarsOK, BarOK
<1> QED
  BY <1>1, <1>6, <1>7, <1>8 DEF Inv

\* The invariant survives any statement of any invocation.
LEMMA RequestInv ==
    ASSUME Inv, NEW r \in Reqs, Step(r)
    PROVE  Inv'
<1>1. TypeOK' /\ Locals'
  BY NextTypes DEF Inv, Next, Step
<1>2. TablesGrow
  BY StepGrows DEF Inv
<1>3. InHand'
  <2>1. RowsInHand(req[r])'
    BY <1>1, <1>2, MoverInHand DEF Inv
  <2>2. ASSUME NEW x \in Reqs \ {r} PROVE RowsInHand(req[x])'
    <3>1. req'[x] = req[x]
      BY StepFrame DEF Frame, Inv
    <3>2. req'[x] \in Request /\ RowsInHand(req'[x])
      BY <3>1 DEF Inv, TypeOK, InHand
    <3> QED
      BY <1>2, <3>2, InHandGrows DEF Inv
  <2> QED
    BY <2>1, <2>2 DEF InHand
<1>4. RowsOK'
  BY <1>1, <1>2, StepRows DEF Inv
<1>5. ChainOK'
  BY <1>1, <1>2, StepChain DEF Inv
<1>6. CodesOK'
  BY <1>1, <1>2, StepCodes DEF Inv
<1>7. BarsOK'
  BY <1>1, <1>2, StepBars DEF Inv
<1> QED
  BY <1>1, <1>3, <1>4, <1>5, <1>6, <1>7 DEF Inv

\* Time passing, and nothing happening, touch nothing the invariant speaks of.
LEMMA RestInv ==
    ASSUME Inv,
           \/ UNCHANGED vars
           \/ \E k \in Ssos : ExpireSso(k)
           \/ \E c \in Codes : ExpireCode(c)
           \/ \E t \in Tokens : ExpireToken(t)
    PROVE  Inv'
<1>1. TypeOK' /\ Locals'
  BY NextTypes DEF Inv, Next
<1>2. UNCHANGED <<status, session, req, wire, barred>>
  BY DEF vars, tables, ExpireSso, ExpireCode, ExpireToken
<1>3. \A c \in Codes : code'[c].user = code[c].user /\ code'[c].client = code[c].client
                       /\ code'[c].consumed = code[c].consumed
  <2>1. CASE UNCHANGED code
    BY <2>1
  <2>2. CASE \E c \in Codes : ExpireCode(c)
    <3>1. PICK c \in Codes : code' = [code EXCEPT ![c].expired = TRUE]
      BY <2>2 DEF ExpireCode
    <3> QED
      BY <3>1 DEF Inv, TypeOK, CodeRow
  <2> QED
    BY <2>1, <2>2 DEF vars, tables, ExpireSso, ExpireToken
<1>4. \A t \in Tokens : token'[t].session = token[t].session /\ token'[t].used = token[t].used
                       /\ (token[t].expired => token'[t].expired)
  <2>1. CASE UNCHANGED token
    BY <2>1
  <2>2. CASE \E t \in Tokens : ExpireToken(t)
    <3>1. PICK t \in Tokens : token' = [token EXCEPT ![t].expired = TRUE]
      BY <2>2 DEF ExpireToken
    <3> QED
      BY <3>1 DEF Inv, TypeOK, TokenRow
  <2> QED
    BY <2>1, <2>2 DEF vars, tables, ExpireSso, ExpireCode
<1>5. TablesGrow
  BY <1>2, <1>3, <1>4 DEF TablesGrow, CodesGrow, SessionsGrow, TokensGrow
<1>6. InHand'
  <2>1. ASSUME NEW x \in Reqs PROVE RowsInHand(req[x])'
    <3>1. req'[x] \in Request /\ RowsInHand(req'[x])
      BY <1>2 DEF Inv, TypeOK, InHand
    <3> QED
      BY <1>5, <3>1, InHandGrows DEF Inv
  <2> QED
    BY <2>1 DEF InHand
<1>7. RowsOK'
  <2>1. \A s \in Sessions : Opened(s)' => Opened(s)
    BY <1>2 DEF Opened
  <2>2. \A t \in Tokens : Issued(t)' => Issued(t)
    BY <1>4 DEF Issued
  <2> QED
    BY <1>1, <1>2, <1>5, <2>1, <2>2, QuietRows DEF Inv
<1>8. ChainOK'
  <2>1. ChainNeverForks'
    BY <1>4 DEF Inv, ChainOK, ChainNeverForks, Issued
  <2> QED
    BY <1>2, <1>4, <2>1 DEF Inv, ChainOK, MayIssue
<1>9. CodesOK'
  BY <1>2 DEF Inv, CodesOK, OneSessionPerCode, Opened, HoldsCode
<1>10. BarsOK'
  BY <1>2 DEF Inv, BarsOK, BarOK
<1> QED
  BY <1>1, <1>6, <1>7, <1>8, <1>9, <1>10 DEF Inv

\* The invariant is inductive.
LEMMA NextInv == Inv /\ [Next]_vars => Inv'
<1> SUFFICES ASSUME Inv, [Next]_vars PROVE Inv'
  OBVIOUS
<1>1. ASSUME NEW r \in Reqs, Step(r) PROVE Inv'
  BY <1>1, RequestInv
<1>2. CASE \/ UNCHANGED vars
           \/ \E k \in Ssos : ExpireSso(k)
           \/ \E c \in Codes : ExpireCode(c)
           \/ \E t \in Tokens : ExpireToken(t)
  BY <1>2, RestInv
<1> QED
  BY <1>1, <1>2 DEF Next, Step

\* Every reachable state of the credential chain satisfies the inductive invariant Inv.
THEOREM Invariance == Spec => []Inv
  BY InitInv, NextInv, PTL DEF Spec

\* Tables and local variables hold values of their types (db/schema.ts).
THEOREM TypeCorrectness == Spec => []TypeOK
<1>1. Inv => TypeOK
  BY DEF Inv
<1> QED
  BY <1>1, Invariance, PTL

\* An authorization code opens at most one session, for any number of concurrent
\* exchanges (consumeAuthorizationCode, createSession).
THEOREM CodesOpenOneSession == Spec => []OneSessionPerCode
<1>1. Inv => OneSessionPerCode
  BY DEF Inv, CodesOK
<1> QED
  BY <1>1, Invariance, PTL

\* A session never has two unspent refresh tokens, for any number of concurrent
\* refreshes (consumeRefreshToken, issueRefreshToken).
THEOREM ChainsNeverFork == Spec => []ChainNeverForks
<1>1. Inv => ChainNeverForks
  BY DEF Inv, ChainOK
<1> QED
  BY <1>1, Invariance, PTL

\* A request that began with a revoked credential, or for a disabled account, obtains
\* neither a code, nor tokens, nor access (the checks of token.ts and requireAuth).
THEOREM BarredGetNothing == Spec => []NothingForTheBarred
<1>1. Inv => NothingForTheBarred
  BY DEF Inv, BarsOK, BarOK, NothingForTheBarred
<1> QED
  BY <1>1, Invariance, PTL

\* Tokens are answered to the client and for the account the authorization code was
\* minted for (POST /oauth/token).
THEOREM TokensReachTheirClient == Spec => []TokensOnlyToTheirClient
<1>1. ASSUME Inv, NEW r \in Reqs, req[r].outcome = "tokens"
      PROVE  /\ code[session[req[r].session].code].client = req[r].client
             /\ code[session[req[r].session].code].user = req[r].user
  <2> DEFINE q == req[r]
  <2>1. RowsInHand(q) /\ LocalsOK(q) /\ q.outcome = "tokens"
    BY <1>1 DEF Inv, InHand, Locals
  <2>2. q.stage = "done"
    BY <2>1 DEF LocalsOK
  <2>3. q.session \in Sessions /\ session[q.session].user = q.user /\ q.user \in Users
        /\ session[q.session].client = q.client
    BY <2>1, <2>2 DEF RowsInHand, OnSession
  <2> HIDE DEF q
  <2> QED
    BY <1>1, <2>3, NoneAssumption DEF Inv, RowsOK, Opened, q
<1>2. Inv => TokensOnlyToTheirClient
  BY <1>1 DEF TokensOnlyToTheirClient
<1> QED
  BY <1>2, Invariance, PTL

-----------------------------------------------------------------------------
(* The token endpoint implements SessionFamily. *)

Quiet == UNCHANGED <<Phase, Spendable, Retired>>

\* A session's phase and a token's fate depend on these fields alone.
LEMMA QuietPromise ==
    ASSUME \A s \in Sessions : /\ Opened(s)' <=> Opened(s)
                               /\ Opened(s) => session'[s].revoked = session[s].revoked,
           \A t \in Tokens : token'[t].session = token[t].session
                             /\ token'[t].used = token[t].used,
           RowsOK, TypeOK
    PROVE  Quiet
<1>1. \A t \in Tokens : Issued(t) => token[t].session \in Sessions /\ Opened(token[t].session)
  BY DEF RowsOK, TypeOK, TokenRow, Issued
<1>2. Phase' = Phase
  BY DEF Phase, Opened
<1>3. Spendable' = Spendable
  BY DEF Spendable, Live, Opened
<1>4. Retired' = Retired
  BY <1>1 DEF Retired, Issued
<1> QED
  BY <1>2, <1>3, <1>4 DEF Quiet

\* A statement of an invocation is a step of SessionFamily, or none.
LEMMA StepPromise ==
    ASSUME Inv, NEW r \in Reqs, Step(r)
    PROVE  [Family!Next]_(Family!vars)
<1> DEFINE q == req[r]
           n == req'[r]
<1>1. TypeOK /\ Locals /\ RowsOK /\ ChainOK /\ q \in Request /\ LocalsOK(q) /\ RowsInHand(q)
  BY DEF Inv, TypeOK, Locals, InHand
<1>2. Quiet => [Family!Next]_(Family!vars)
  BY DEF Quiet, Family!vars
<1>3. \A t \in Tokens : Issued(t) => token[t].session \in Sessions /\ Opened(token[t].session)
  BY <1>1 DEF RowsOK, TypeOK, TokenRow, Issued
\* Opening a session opens it, with no token on it yet.
<1>4. CASE CreateSession(r)
  <2>1. PICK s \in Sessions :
          /\ ~Opened(s)
          /\ session' = [session EXCEPT ![s] = [NoSession EXCEPT !.user = q.user, !.client = q.client, !.code = q.code]]
    BY <1>1, <1>4, CreateSessionMoves
  <2>2. UNCHANGED token /\ q.user \in Users
    BY <1>1, <1>4 DEF CreateSession, At, RowsInHand
  <2>3. session'[s].user # None /\ session'[s].revoked = FALSE
        /\ \A x \in Sessions \ {s} : session'[x] = session[x]
    BY <1>1, <2>1, <2>2, NoneAssumption DEF TypeOK, NoSession
  <2> HIDE DEF q
  <2>4. Phase[s] = "unopened" /\ Phase' = [Phase EXCEPT ![s] = "open"]
    BY <2>1, <2>3 DEF Phase, Opened
  <2>5. \A t \in Tokens : token[t].session # s
    BY <1>3, <2>1, NoneAssumption DEF Issued
  <2>6. Spendable' = Spendable
    BY <2>2, <2>3, <2>5 DEF Spendable, Live, Opened
  <2>7. Retired' = Retired
    BY <1>3, <2>2, <2>3, <2>5 DEF Retired, Issued
  <2>8. Family!Open(s)
    BY <2>4, <2>6, <2>7 DEF Family!Open
  <2> QED
    BY <2>8 DEF Family!Next
\* Revoking an open session closes it and retires its token; again changes nothing.
<1>5. CASE RevokeSessionRow(r)
  <2>1. PICK s \in Sessions : s \in q.targets /\ session' = [session EXCEPT ![s].revoked = TRUE]
    BY <1>1, <1>5, RevokeSessionRowMoves
  <2>2. UNCHANGED token /\ Opened(s)
    BY <1>1, <1>5, <2>1, NoneAssumption DEF RevokeSessionRow, RowsInHand, Opened
  <2>3. session'[s].revoked = TRUE /\ session'[s].user = session[s].user
        /\ \A x \in Sessions \ {s} : session'[x] = session[x]
    BY <1>1, <2>1 DEF TypeOK, SessionRow
  <2> HIDE DEF q
  <2>4. CASE session[s].revoked
    <3>1. \A x \in Sessions : /\ Opened(x)' <=> Opened(x)
                              /\ Opened(x) => session'[x].revoked = session[x].revoked
      BY <1>1, <2>3, <2>4 DEF Opened, TypeOK, SessionRow
    <3> QED
      BY <1>1, <1>2, <2>2, <3>1, QuietPromise
  <2>5. CASE ~session[s].revoked
    <3>1. Phase[s] = "open" /\ Phase' = [Phase EXCEPT ![s] = "closed"]
      BY <2>2, <2>3, <2>5 DEF Phase, Opened
    <3>2. Spendable' = [Spendable EXCEPT ![s] = {}]
      BY <2>2, <2>3, <2>5 DEF Spendable, Live, Opened
    <3>3. Spendable[s] = {t \in Tokens : token[t].session = s /\ ~token[t].used}
      BY <2>2, <2>5 DEF Spendable, Live
    <3>4. Retired' = Retired \cup Spendable[s]
      BY <1>3, <2>2, <2>3, <2>5, <3>3, NoneAssumption DEF Retired, Issued
    <3>5. Family!Close(s)
      BY <3>1, <3>2, <3>4 DEF Family!Close
    <3> QED
      BY <3>5 DEF Family!Next
  <2> QED
    BY <2>4, <2>5
\* Spending a token of an open session; a closed session has nothing left to spend.
<1>6. CASE MarkUsed(r)
  <2> DEFINE t == q.token
             s == q.session
  <2>1. UNCHANGED session /\ t \in Tokens /\ s \in Sessions /\ token[t].session = s /\ Opened(s)
    BY <1>1, <1>6, NoneAssumption DEF MarkUsed, At, LocalsOK, RowsInHand, OnSession, Opened
  <2>2. CASE token[t].used
    <3>1. UNCHANGED token
      BY <1>6, <2>2 DEF MarkUsed, Unused
    <3> QED
      BY <1>1, <1>2, <2>1, <3>1, QuietPromise DEF Opened
  <2>3. CASE ~token[t].used
    <3>1. token' = [token EXCEPT ![t].used = TRUE]
      BY <1>6, <2>3 DEF MarkUsed, Unused
    <3>2. token'[t].used = TRUE /\ token'[t].session = s
          /\ \A x \in Tokens \ {t} : token'[x] = token[x]
      BY <1>1, <2>1, <3>1 DEF TypeOK, TokenRow
    <3> HIDE DEF q, s, t
    <3>3. Phase' = Phase
      BY <2>1 DEF Phase, Opened
    <3>4. CASE session[s].revoked
      <4>1. Spendable' = Spendable
        BY <2>1, <3>2, <3>4 DEF Spendable, Live, Opened
      <4>2. Retired' = Retired
        BY <2>1, <3>2, <3>4, NoneAssumption DEF Retired, Issued
      <4> QED
        BY <1>2, <3>3, <4>1, <4>2 DEF Quiet
    <3>5. CASE ~session[s].revoked
      <4>1. t \in Spendable[s] /\ Spendable' = [Spendable EXCEPT ![s] = Spendable[s] \ {t}]
        BY <2>1, <2>3, <3>2, <3>5 DEF Spendable, Live, Opened
      <4>2. Retired' = Retired \cup {t}
        BY <2>1, <3>2, <3>5, NoneAssumption DEF Retired, Issued
      <4>3. Family!Spend(s, t)
        BY <3>3, <4>1, <4>2 DEF Family!Spend
      <4> QED
        BY <2>1, <4>3 DEF Family!Next
    <3> QED
      BY <3>4, <3>5
  <2> QED
    BY <2>2, <2>3
\* Issuing the next token of an open session, or one nobody can ever spend.
<1>7. CASE IssueRefreshToken(r)
  <2> DEFINE s == q.session
  <2>1. PICK t \in Tokens :
          /\ ~Issued(t)
          /\ token' = [token EXCEPT ![t] = [NoToken EXCEPT !.session = q.session, !.parent = q.token]]
    BY <1>1, <1>7, IssueRefreshTokenMoves
  <2>2. UNCHANGED session /\ MayIssue(q)
    BY <1>7 DEF IssueRefreshToken, At, MayIssue
  <2>3. s \in Sessions /\ Opened(s)
    BY <1>1, <2>2, NoneAssumption DEF RowsInHand, OnSession, Opened
  <2>4. token'[t].session = s /\ token'[t].used = FALSE
        /\ \A x \in Tokens \ {t} : token'[x] = token[x]
    BY <1>1, <2>1 DEF TypeOK, NoToken
  <2>5. \A x \in Tokens : token[x].session = s => token[x].used
    BY <1>1, <2>2 DEF ChainOK
  <2>6. t \notin Retired /\ \A x \in Sessions : t \notin Spendable[x]
    BY <2>1, NoneAssumption DEF Retired, Spendable, Issued
  <2> HIDE DEF q, s
  <2>7. Phase' = Phase
    BY <2>2 DEF Phase, Opened
  <2>8. CASE session[s].revoked
    <3>1. Spendable' = Spendable
      BY <2>1, <2>2, <2>3, <2>4, <2>8, NoneAssumption DEF Spendable, Live, Opened, Issued
    <3>2. Retired' = Retired \cup {t}
      BY <2>1, <2>2, <2>3, <2>4, <2>8, NoneAssumption DEF Retired, Issued
    <3>3. Family!Stillborn(t)
      BY <2>6, <2>7, <3>1, <3>2 DEF Family!Stillborn
    <3> QED
      BY <3>3 DEF Family!Next
  <2>9. CASE ~session[s].revoked
    <3>0. Phase[s] = "open"
      BY <2>3, <2>9 DEF Phase
    <3>1. Spendable[s] = {}
      BY <2>3, <2>5 DEF Spendable
    <3>2. Spendable' = [Spendable EXCEPT ![s] = {t}]
      <4>1. ~Issued(t) /\ token[t].session # s
        BY <2>1, <2>3, NoneAssumption DEF Issued
      <4>2. \A x \in Sessions \ {s} : Spendable'[x] = Spendable[x]
        BY <2>2, <2>4, <4>1, <2>1, NoneAssumption DEF Spendable, Live, Opened, Issued
      <4>3. Spendable'[s] = {t}
        <5>1. Spendable'[s] = {x \in Tokens : session'[s].user # None /\ ~session'[s].revoked
                                              /\ token'[x].session = s /\ ~token'[x].used}
          BY <2>3 DEF Spendable, Live, Opened
        <5>2. session'[s].user # None /\ ~session'[s].revoked
          BY <2>2, <2>3, <2>9 DEF Opened
        <5>3. \A x \in Tokens \ {t} : ~(token'[x].session = s /\ ~token'[x].used)
          BY <2>4, <2>5
        <5> QED
          BY <2>4, <5>1, <5>2, <5>3
      <4> QED
        BY <4>2, <4>3, <2>3 DEF Spendable
    <3>3. Retired' = Retired
      BY <2>1, <2>2, <2>4, <2>9, NoneAssumption DEF Retired, Issued
    <3>4. Family!Grant(s, t)
      BY <2>6, <2>7, <3>0, <3>1, <3>2, <3>3 DEF Family!Grant
    <3> QED
      BY <2>3, <3>4 DEF Family!Next
  <2> QED
    BY <2>8, <2>9
<1>8. CASE ~CreateSession(r) /\ ~RevokeSessionRow(r) /\ ~MarkUsed(r) /\ ~IssueRefreshToken(r)
  <2>1. UNCHANGED session
    BY <1>8 DEF Step, Begin, Continue, Fail, tables, BeginSignIn, BeginAuthorize, BeginExchange,
       BeginRefresh, BeginAccess, BeginRevoke, BeginPrune, BeginLogout, BeginSweep, BeginPatch,
       ReadAccount, RotateCookie, StartSso, IssueAuthorizationCode, ConsumeAuthorizationCode,
       CheckSession, Respond, RequireLiveSession, Patch, ListSessions, RevokeTokenRows,
       AnswerRevocation, CloseSsoSessions
  <2>2. UNCHANGED token \/ RevokeTokenRows(r)
    BY <1>8 DEF Step, Begin, Continue, Fail, tables, BeginSignIn, BeginAuthorize, BeginExchange,
       BeginRefresh, BeginAccess, BeginRevoke, BeginPrune, BeginLogout, BeginSweep, BeginPatch,
       ReadAccount, RotateCookie, StartSso, IssueAuthorizationCode, ConsumeAuthorizationCode,
       CheckSession, Respond, RequireLiveSession, Patch, ListSessions,
       AnswerRevocation, CloseSsoSessions
  <2>3. \A t \in Tokens : token'[t].session = token[t].session /\ token'[t].used = token[t].used
    <3>1. CASE RevokeTokenRows(r)
      <4>1. \A t \in Tokens : token'[t] \in {token[t], [token[t] EXCEPT !.revoked = TRUE]}
        BY <3>1 DEF RevokeTokenRows
      <4> QED
        BY <1>1, <4>1 DEF TypeOK, TokenRow
    <3> QED
      BY <2>2, <3>1
  <2> QED
    BY <1>1, <1>2, <2>1, <2>3, QuietPromise DEF Opened
<1> QED
  BY <1>4, <1>5, <1>6, <1>7, <1>8

\* Time passing is no step of SessionFamily.
LEMMA RestPromise ==
    ASSUME Inv,
           \/ UNCHANGED vars
           \/ \E k \in Ssos : ExpireSso(k)
           \/ \E c \in Codes : ExpireCode(c)
           \/ \E t \in Tokens : ExpireToken(t)
    PROVE  [Family!Next]_(Family!vars)
<1>1. UNCHANGED session
  BY DEF vars, tables, ExpireSso, ExpireCode, ExpireToken
<1>2. \A t \in Tokens : token'[t].session = token[t].session /\ token'[t].used = token[t].used
  <2>1. CASE UNCHANGED token
    BY <2>1
  <2>2. CASE \E t \in Tokens : ExpireToken(t)
    <3>1. PICK t \in Tokens : token' = [token EXCEPT ![t].expired = TRUE]
      BY <2>2 DEF ExpireToken
    <3> QED
      BY <3>1 DEF Inv, TypeOK, TokenRow
  <2> QED
    BY <2>1, <2>2 DEF vars, tables, ExpireSso, ExpireCode
<1>3. Quiet
  BY <1>1, <1>2, QuietPromise DEF Inv, Opened
<1> QED
  BY <1>3 DEF Quiet, Family!vars

\* Whatever the interleaving, the token endpoint behaves as SessionFamily promises: a
\* session is opened once and closed once and for all, at most one of its tokens can be
\* spent, and a spent token never can again.
THEOREM PromiseKept == Spec => KeepsThePromise
<1>1. Init => Family!Init
  <2> SUFFICES ASSUME Init PROVE Family!Init
    OBVIOUS
  <2>1. \A s \in Sessions : session[s].user = None
    BY DEF Init, NoSession
  <2>2. \A t \in Tokens : token[t].session = None
    BY DEF Init, NoToken
  <2> QED
    BY <2>1, <2>2 DEF Family!Init, Phase, Spendable, Retired, Opened, Live, Issued
<1>2. Inv /\ [Next]_vars => [Family!Next]_(Family!vars)
  <2> SUFFICES ASSUME Inv, [Next]_vars PROVE [Family!Next]_(Family!vars)
    OBVIOUS
  <2>1. ASSUME NEW r \in Reqs, Step(r) PROVE [Family!Next]_(Family!vars)
    BY <2>1, StepPromise
  <2> QED
    BY <2>1, RestPromise DEF Next, Step
<1> QED
  BY <1>1, <1>2, Invariance, PTL DEF Spec, KeepsThePromise, Family!Spec

-----------------------------------------------------------------------------
(* A replayed token brings its session down. *)

\* The steps a refresh takes.
LEMMA RefreshSteps ==
    ASSUME TypeOK, Locals, NEW r \in Reqs, Step(r), req'[r].kind = "refresh"
    PROVE  \/ BeginRefresh(r)
           \/ /\ req[r].kind = "refresh"
              /\ \/ ReadAccount(r) \/ CheckSession(r) \/ MarkUsed(r) \/ IssueRefreshToken(r)
                 \/ Respond(r) \/ RevokeSessionRow(r) \/ RevokeTokenRows(r)
                 \/ AnswerRevocation(r) \/ Fail(r)
<1> DEFINE q == req[r]
           n == req'[r]
<1>1. q \in Request /\ LocalsOK(q)
  BY DEF TypeOK, Locals
<1>2. CASE BeginSignIn(r)
  <2> HIDE DEF n
  <2> QED
    BY <1>2, BeginSignInMoves DEF Started, n
<1>3. CASE BeginAuthorize(r)
  <2> HIDE DEF n
  <2> QED
    BY <1>3, BeginAuthorizeMoves DEF Started, n
<1>4. CASE BeginExchange(r)
  <2> HIDE DEF n
  <2> QED
    BY <1>4, BeginExchangeMoves DEF Started, n
<1>5. CASE BeginAccess(r)
  <2> HIDE DEF n
  <2> QED
    BY <1>5, BeginAccessMoves DEF Started, n
<1>6. CASE BeginRevoke(r)
  <2> HIDE DEF n
  <2> QED
    BY <1>6, BeginRevokeMoves DEF Started, n
<1>7. CASE BeginPrune(r)
  <2> HIDE DEF n
  <2> QED
    BY <1>7, BeginPruneMoves DEF Started, n
<1>8. CASE BeginLogout(r)
  <2> HIDE DEF n
  <2> QED
    BY <1>8, BeginLogoutMoves DEF Started, n
<1>9. CASE BeginSweep(r)
  <2> HIDE DEF n
  <2> QED
    BY <1>9, BeginSweepMoves DEF Started, n
<1>10. CASE BeginPatch(r)
  <2> HIDE DEF n
  <2> QED
    BY <1>10, BeginPatchMoves DEF Started, n
<1>11. CASE RotateCookie(r)
  <2>1. n.kind = q.kind
    BY <1>11, RotateCookieMoves DEF Moved, Ended, Same, Keeps
  <2> HIDE DEF q, n
  <2> QED
    BY <1>1, <1>11, <2>1 DEF RotateCookie, At, LocalsOK, q, n
<1>12. CASE StartSso(r)
  <2>1. n.kind = q.kind
    BY <1>12, StartSsoMoves DEF Moved, Ended, Same, Keeps
  <2> HIDE DEF q, n
  <2> QED
    BY <1>1, <1>12, <2>1 DEF StartSso, At, LocalsOK, q, n
<1>13. CASE IssueAuthorizationCode(r)
  <2>1. n.kind = q.kind
    BY <1>13, IssueAuthorizationCodeMoves DEF Moved, Ended, Same, Keeps
  <2> HIDE DEF q, n
  <2> QED
    BY <1>1, <1>13, <2>1 DEF IssueAuthorizationCode, At, LocalsOK, q, n
<1>14. CASE ConsumeAuthorizationCode(r)
  <2>1. n.kind = q.kind
    BY <1>14, ConsumeAuthorizationCodeMoves DEF Moved, Ended, Same, Keeps
  <2> HIDE DEF q, n
  <2> QED
    BY <1>1, <1>14, <2>1 DEF ConsumeAuthorizationCode, At, LocalsOK, q, n
<1>15. CASE CreateSession(r)
  <2>1. n.kind = q.kind
    BY <1>15, CreateSessionMoves DEF Moved, Ended, Same, Keeps
  <2> HIDE DEF q, n
  <2> QED
    BY <1>1, <1>15, <2>1 DEF CreateSession, At, LocalsOK, q, n
<1>16. CASE RequireLiveSession(r)
  <2>1. n.kind = q.kind
    BY <1>16, RequireLiveSessionMoves DEF Moved, Ended, Same, Keeps
  <2> HIDE DEF q, n
  <2> QED
    BY <1>1, <1>16, <2>1 DEF RequireLiveSession, At, LocalsOK, q, n
<1>17. CASE Patch(r)
  <2>1. n.kind = q.kind
    BY <1>17, PatchMoves DEF Moved, Ended, Same, Keeps
  <2> HIDE DEF q, n
  <2> QED
    BY <1>1, <1>17, <2>1 DEF Patch, At, LocalsOK, q, n
<1>18. CASE ListSessions(r)
  <2>1. n.kind = q.kind
    BY <1>18, ListSessionsMoves DEF Moved, Ended, Same, Keeps
  <2> HIDE DEF q, n
  <2> QED
    BY <1>1, <1>18, <2>1 DEF ListSessions, At, LocalsOK, q, n
<1>19. CASE CloseSsoSessions(r)
  <2>1. n.kind = q.kind
    BY <1>19, CloseSsoSessionsMoves DEF Moved, Ended, Same, Keeps
  <2> HIDE DEF q, n
  <2> QED
    BY <1>1, <1>19, <2>1 DEF CloseSsoSessions, At, LocalsOK, q, n
<1>20. CASE ReadAccount(r)
  <2>1. n.kind = q.kind
    BY <1>20, ReadAccountMoves DEF Moved, Ended, Same, Keeps
  <2> QED
    BY <1>20, <2>1
<1>21. CASE CheckSession(r)
  <2>1. n.kind = q.kind
    BY <1>21, CheckSessionMoves DEF Moved, Ended, Same, Keeps
  <2> QED
    BY <1>21, <2>1
<1>22. CASE MarkUsed(r)
  <2>1. n.kind = q.kind
    BY <1>22, MarkUsedMoves DEF Moved, Ended, Same, Keeps
  <2> QED
    BY <1>22, <2>1
<1>23. CASE IssueRefreshToken(r)
  <2>1. n.kind = q.kind
    BY <1>23, IssueRefreshTokenMoves DEF Moved, Ended, Same, Keeps
  <2> QED
    BY <1>23, <2>1
<1>24. CASE Respond(r)
  <2>1. n.kind = q.kind
    BY <1>24, RespondMoves DEF Moved, Ended, Same, Keeps
  <2> QED
    BY <1>24, <2>1
<1>25. CASE RevokeSessionRow(r)
  <2>1. n.kind = q.kind
    BY <1>25, RevokeSessionRowMoves DEF Moved, Ended, Same, Keeps
  <2> QED
    BY <1>25, <2>1
<1>26. CASE RevokeTokenRows(r)
  <2>1. n.kind = q.kind
    BY <1>26, RevokeTokenRowsMoves DEF Moved, Ended, Same, Keeps
  <2> QED
    BY <1>26, <2>1
<1>27. CASE AnswerRevocation(r)
  <2>1. n.kind = q.kind
    BY <1>27, AnswerRevocationMoves DEF Moved, Ended, Same, Keeps
  <2> QED
    BY <1>27, <2>1
<1>28. CASE Fail(r)
  <2>1. n.kind = q.kind
    BY <1>28, FailMoves DEF Moved, Ended, Same, Keeps
  <2> QED
    BY <1>28, <2>1
<1> QED
  BY <1>2, <1>3, <1>4, <1>5, <1>6, <1>7, <1>8, <1>9, <1>10, <1>11, <1>12, <1>13, <1>14, <1>15, <1>16, <1>17, <1>18, <1>19, <1>20, <1>21, <1>22, <1>23, <1>24, <1>25, <1>26, <1>27, <1>28 DEF Step, Begin, Continue

\* A token is revoked only on a session that is.
LEMMA NewRevocations ==
    ASSUME Inv, ReplayOK, TablesGrow, NEW r \in Reqs, Step(r)
    PROVE  \A t \in Tokens : token'[t].revoked => Issued(t)' /\ session'[token'[t].session].revoked
<1>1. TypeOK /\ InHand /\ RowsOK
  BY DEF Inv
<1>2. \A t \in Tokens : Issued(t) /\ session[token[t].session].revoked =>
        Issued(t)' /\ session'[token'[t].session].revoked
  BY <1>1, NoneAssumption DEF RowsOK, TypeOK, TokenRow, TablesGrow, TokensGrow, SessionsGrow, Issued
<1>3. CASE RevokeTokenRows(r)
  <2> DEFINE s == req[r].session
  <2>1. s \in Sessions /\ session[s].revoked
    BY <1>1, <1>3 DEF RevokeTokenRows, At, InHand, RowsInHand
  <2>2. \A t \in Tokens : token'[t].revoked => token[t].revoked \/ token[t].session = s
    BY <1>1, <1>3 DEF RevokeTokenRows, TypeOK, TokenRow
  <2>3. \A t \in Tokens : token[t].session = s => Issued(t)
    BY <2>1, NoneAssumption DEF Issued
  <2> QED
    BY <1>2, <2>1, <2>2, <2>3 DEF ReplayOK
<1>4. CASE ~RevokeTokenRows(r)
  <2>1. \A t \in Tokens : token'[t].revoked => token[t].revoked
    <3>1. CASE MarkUsed(r)
      <4>1. \/ UNCHANGED token
            \/ token' = [token EXCEPT ![req[r].token].used = TRUE]
        BY <3>1 DEF MarkUsed
      <4> QED
        BY <1>1, <4>1 DEF TypeOK, TokenRow
    <3>2. CASE IssueRefreshToken(r)
      BY <1>1, <3>2 DEF IssueRefreshToken, TypeOK, TokenRow, NoToken
    <3>3. CASE ~MarkUsed(r) /\ ~IssueRefreshToken(r)
      BY <1>4, <3>3 DEF Step, Begin, Continue, Fail, tables, BeginSignIn, BeginAuthorize,
         BeginExchange, BeginRefresh, BeginAccess, BeginRevoke, BeginPrune, BeginLogout,
         BeginSweep, BeginPatch, ReadAccount, RotateCookie, StartSso, IssueAuthorizationCode,
         ConsumeAuthorizationCode, CreateSession, CheckSession, Respond, RequireLiveSession,
         Patch, ListSessions, RevokeSessionRow, AnswerRevocation, CloseSsoSessions
    <3> QED
      BY <3>1, <3>2, <3>3
  <2> QED
    BY <1>2, <2>1 DEF ReplayOK
<1> QED
  BY <1>3, <1>4

\* A refresh that was in order stays so while the tables grow, and useless once it is.
LEMMA RefreshGrows ==
    ASSUME Inv, ReplayOK, TablesGrow, NEW x \in Reqs, req'[x] = req[x], req[x].kind = "refresh"
    PROVE  /\ RefreshOK(req[x])'
           /\ Useless(req[x]) => Useless(req[x])'
           /\ token[req[x].token].used => token'[req[x].token].used
<1> DEFINE q == req[x]
<1>1. RefreshOK(q) /\ RowsOK
  BY DEF ReplayOK, Inv
<1>2. q.token \in Tokens /\ q.session \in Sessions /\ token[q.token].session = q.session
      /\ Issued(q.token) /\ Opened(q.session)
  BY <1>1, NoneAssumption DEF RefreshOK, Issued, RowsOK
<1>3. /\ token'[q.token].session = q.session
      /\ session[q.session].revoked => session'[q.session].revoked
      /\ token[q.token].expired => token'[q.token].expired
      /\ token[q.token].used => token'[q.token].used
  BY <1>2 DEF TablesGrow, TokensGrow, SessionsGrow
<1> QED
  BY <1>1, <1>2, <1>3 DEF RefreshOK, Useless

\* What the request that moves must bring for ReplayOK to survive: it settles only on a
\* token that is of no more use, or that it has just spent.
LEMMA MoverReplay ==
    ASSUME Inv, ReplayOK, TablesGrow, NEW r \in Reqs, Step(r),
           RefreshOK(req[r])',
           Settled(req[r])' =>
             \/ Settled(req[r]) /\ req'[r].token = req[r].token /\ req'[r].session = req[r].session
             \/ Useless(req[r])'
             \/ ~token[req'[r].token].used /\ token'[req'[r].token].used
    PROVE  ReplayOK'
<1>1. \A x \in Reqs \ {r} : req'[x] = req[x]
  BY StepFrame DEF Inv, Frame
<1>2. \A x \in Reqs : RefreshOK(req[x])'
  <2>1. ASSUME NEW x \in Reqs \ {r} PROVE RefreshOK(req[x])'
    <3>1. CASE req[x].kind = "refresh"
      BY <1>1, <3>1, RefreshGrows
    <3>2. CASE req[x].kind # "refresh"
      BY <1>1, <3>2 DEF RefreshOK
    <3> QED
      BY <3>1, <3>2
  <2> QED
    BY <2>1
\* The same token means the same session, hence the same use.
<1>3. \A x, y \in Reqs :
        Settled(req[x])' /\ Settled(req[y])' /\ req'[x].token = req'[y].token =>
          (Useless(req[x])' <=> Useless(req[y])')
  BY <1>2 DEF Settled, RefreshOK, Useless
<1>4. \A x \in Reqs \ {r} : Settled(req[x])' =>
        /\ Settled(req[x])
        /\ Useless(req[x]) => Useless(req[x])'
        /\ token[req[x].token].used => token'[req[x].token].used
  BY <1>1, RefreshGrows DEF Settled
<1>5. \A x \in Reqs : Settled(req[x]) => Useless(req[x]) \/ token[req[x].token].used
  BY DEF ReplayOK
<1>6. /\ Settled(req[r]) /\ req'[r].token = req[r].token /\ req'[r].session = req[r].session
      => /\ Useless(req[r]) => Useless(req[r])'
         /\ token[req[r].token].used => token'[req[r].token].used
  <2> SUFFICES ASSUME Settled(req[r]), req'[r].token = req[r].token,
                      req'[r].session = req[r].session
               PROVE  /\ Useless(req[r]) => Useless(req[r])'
                      /\ token[req[r].token].used => token'[req[r].token].used
    OBVIOUS
  <2> DEFINE t == req[r].token
             s == req[r].session
  <2>1. t \in Tokens /\ s \in Sessions /\ token[t].session = s
    BY DEF Settled, ReplayOK, RefreshOK
  <2>2. Issued(t) /\ Opened(s)
    BY <2>1, NoneAssumption DEF Issued, Inv, RowsOK
  <2>3. /\ session[s].revoked => session'[s].revoked
        /\ token[t].expired => token'[t].expired
        /\ token[t].used => token'[t].used
    BY <2>1, <2>2 DEF TablesGrow, TokensGrow, SessionsGrow
  <2> QED
    BY <2>3 DEF Useless
<1>7. \A x \in Reqs : Settled(req[x])' => Useless(req[x])' \/ token'[req'[x].token].used
  BY <1>1, <1>4, <1>5, <1>6
<1>8. ASSUME NEW x \in Reqs \ {r}, Settled(req[r])', Settled(req[x])',
             req'[r].token = req'[x].token
      PROVE  Useless(req[r])' /\ Useless(req[x])'
  <2>1. req'[x] = req[x] /\ Settled(req[x])
    BY <1>1, <1>4, <1>8
  <2>2. CASE Settled(req[r]) /\ req'[r].token = req[r].token /\ req'[r].session = req[r].session
    <3>1. Useless(req[r])
      BY <1>8, <2>1, <2>2 DEF ReplayOK
    <3> QED
      BY <1>3, <1>6, <1>8, <2>2, <3>1
  <2>3. CASE Useless(req[r])'
    BY <1>3, <1>8, <2>3
  <2>4. CASE ~token[req'[r].token].used
    <3>1. Useless(req[x])
      BY <1>5, <1>8, <2>1, <2>4
    <3> QED
      BY <1>3, <1>4, <1>8, <3>1
  <2> QED
    BY <1>8, <2>2, <2>3, <2>4
<1>9. \A x, y \in Reqs :
        x # y /\ Settled(req[x])' /\ Settled(req[y])' /\ req'[x].token = req'[y].token =>
          Useless(req[x])'
  <2>1. ASSUME NEW x \in Reqs \ {r}, NEW y \in Reqs \ {r}, x # y, Settled(req[x])',
               Settled(req[y])', req'[x].token = req'[y].token
        PROVE  Useless(req[x])'
    <3>1. Useless(req[x])
      BY <1>1, <1>4, <2>1 DEF ReplayOK
    <3> QED
      BY <1>4, <2>1, <3>1
  <2> QED
    BY <1>8, <2>1
<1> QED
  BY <1>2, <1>7, <1>9, NewRevocations DEF ReplayOK

\* Whatever a request does, replays keep being noticed.
LEMMA StepReplay ==
    ASSUME Inv, ReplayOK, NEW r \in Reqs, Step(r)
    PROVE  ReplayOK'
<1> DEFINE q == req[r]
           n == req'[r]
<1>1. TypeOK /\ Locals /\ TablesGrow /\ RowsOK /\ q \in Request /\ LocalsOK(q) /\ RowsInHand(q)
      /\ RefreshOK(q)
  BY StepGrows DEF Inv, TypeOK, Locals, InHand, ReplayOK
<1>2. CASE n.kind # "refresh"
  BY <1>1, <1>2, MoverReplay DEF RefreshOK, Settled
<1>3. CASE BeginRefresh(r)
  <2>1. PICK t \in Tokens, a \in Clients, s \in Sessions, u \in Users \cup {None} :
          /\ token[t].session = s
          /\ \/ Started(n, "refresh", "row", "none", u, a, None, s, t, {s})
             \/ /\ token[t].revoked \/ token[t].expired
                /\ Started(n, "refresh", "done", "refused", u, a, None, s, t, {})
             \/ Started(n, "refresh", "check", "none", u, a, None, s, t, {})
    BY <1>1, <1>3, BeginRefreshMoves
  <2>2. UNCHANGED <<session, token>>
    BY <1>3 DEF BeginRefresh, tables
  <2>3. token[t].revoked => session[s].revoked
    BY <2>1 DEF ReplayOK
  <2> HIDE DEF n
  <2>4. n.token = t /\ n.session = s /\ n.stage \in {"row", "done", "check"}
        /\ (n.stage = "row" => n.targets = {s})
    BY <2>1 DEF Started
  <2>5. RefreshOK(req[r])'
    BY <2>1, <2>2, <2>4 DEF RefreshOK, n
  <2>6. n.stage = "done" => Useless(req[r])'
    BY <2>1, <2>2, <2>3, <2>4 DEF Useless, Started, n
  <2> QED
    BY <1>1, <2>4, <2>5, <2>6, MoverReplay DEF Settled, n
<1>4. ASSUME q.kind = "refresh", n.kind = "refresh"
      PROVE  q.token \in Tokens /\ q.session \in Sessions /\ token[q.token].session = q.session
             /\ token'[q.token].session = q.session
             /\ (session[q.session].revoked => session'[q.session].revoked)
  BY <1>1, <1>4, NoneAssumption DEF RefreshOK, RowsOK, Issued, TablesGrow, TokensGrow, SessionsGrow
\* Steps that keep a refresh settled, or unsettled.
<1>5. CASE q.kind = "refresh" /\ n.kind = "refresh" /\ (ReadAccount(r) \/ IssueRefreshToken(r) \/ Respond(r))
  <2>1. q.stage \in {"account", "issue", "respond"}
    BY <1>5 DEF ReadAccount, IssueRefreshToken, Respond, At
  <2>2. n.token = q.token /\ n.session = q.session
    BY <1>1, <1>5, ReadAccountMoves, IssueRefreshTokenMoves, RespondMoves
       DEF Moved, Ended, Same, Keeps
  <2>3. n.stage \in {"issue", "done", "respond"}
    <3>1. OnActive["refresh"] = "issue"
      BY DEF OnActive
    <3>2. ReadAccount(r) => n.stage \in {"issue", "done"}
      BY <1>1, <1>5, <3>1, ReadAccountMoves DEF Moved, Ended
    <3>3. IssueRefreshToken(r) => n.stage = "respond"
      BY <1>1, IssueRefreshTokenMoves DEF Moved
    <3>4. Respond(r) => n.stage = "done"
      BY <1>1, RespondMoves DEF Ended
    <3> QED
      BY <1>5, <3>2, <3>3, <3>4
  <2> HIDE DEF q, n
  <2>4. RefreshOK(req[r])'
    BY <1>4, <1>5, <2>2, <2>3 DEF RefreshOK, n
  <2>5. Settled(req[r])
    BY <1>5, <2>1 DEF Settled, q
  <2> QED
    BY <1>1, <2>2, <2>4, <2>5, MoverReplay DEF q, n
\* A refresh refused at the check finds its session revoked.
<1>6. CASE q.kind = "refresh" /\ n.kind = "refresh" /\ CheckSession(r)
  <2>1. n.token = q.token /\ n.session = q.session /\ n.stage \in {"done", "mark"}
    BY <1>1, <1>6, CheckSessionMoves DEF Moved, Ended, Same, Keeps
  <2>2. n.stage = "done" => session[q.session].revoked
    BY <1>1, <1>6 DEF CheckSession, NotRevoked, Goto, End, TypeOK, Request
  <2> HIDE DEF q, n
  <2>3. RefreshOK(req[r])'
    BY <1>4, <1>6, <2>1 DEF RefreshOK, n
  <2>4. Settled(req[r])' => Useless(req[r])'
    BY <1>4, <1>6, <2>1, <2>2 DEF Settled, Useless, n
  <2> QED
    BY <1>1, <2>3, <2>4, MoverReplay
\* One that spends its token had found it unspent; another turns to revoking.
<1>7. CASE q.kind = "refresh" /\ n.kind = "refresh" /\ MarkUsed(r)
  <2>1. n.token = q.token /\ n.session = q.session
    BY <1>1, <1>7, MarkUsedMoves DEF Moved, Ended, Same, Keeps
  <2>2. CASE token[q.token].used
    <3>1. req' = [req EXCEPT ![r] = [@ EXCEPT !.stage = "row", !.targets = {q.session}]]
      BY <1>7, <2>2 DEF MarkUsed, Unused, Reuse
    <3>2. n.stage = "row" /\ n.targets = {q.session}
      BY <1>1, <3>1 DEF TypeOK, Request
    <3> HIDE DEF q, n
    <3>3. RefreshOK(req[r])' /\ ~Settled(req[r])'
      BY <1>4, <1>7, <2>1, <3>2 DEF RefreshOK, Settled, n
    <3> QED
      BY <1>1, <3>3, MoverReplay
  <2>3. CASE ~token[q.token].used
    <3>1. token' = [token EXCEPT ![q.token].used = TRUE] /\ n.stage \in {"account", "done"}
      <4>1. /\ token' = [token EXCEPT ![q.token].used = TRUE]
            /\ Goto(r, "account") \/ End(r, "refused")
        BY <1>7, <2>3 DEF MarkUsed, Unused
      <4>2. n = [q EXCEPT !.stage = "account"] \/ n = [q EXCEPT !.stage = "done", !.outcome = "refused"]
        BY <1>1, <4>1 DEF Goto, End, TypeOK
      <4> QED
        BY <1>1, <4>1, <4>2 DEF Request
    <3>2. token'[q.token].used
      BY <1>1, <1>4, <1>7, <3>1 DEF TypeOK, TokenRow
    <3> HIDE DEF q, n
    <3>3. RefreshOK(req[r])'
      BY <1>4, <1>7, <2>1, <3>1 DEF RefreshOK, n
    <3> QED
      BY <1>1, <2>1, <2>3, <3>2, <3>3, MoverReplay DEF n
  <2> QED
    BY <2>2, <2>3
\* A refresh that revokes settles once its session is revoked.
<1>8. CASE q.kind = "refresh" /\ n.kind = "refresh" /\ RevokeSessionRow(r)
  <2>1. PICK s \in Sessions :
          /\ s \in q.targets /\ session' = [session EXCEPT ![s].revoked = TRUE]
          /\ Moved(n, q, "chain", q.code, s, q.issued, q.targets)
    BY <1>1, <1>8, RevokeSessionRowMoves
  <2>2. q.stage = "row" /\ s = q.session /\ q.targets = {q.session}
    BY <1>1, <1>8, <2>1 DEF RevokeSessionRow, At, RefreshOK
  <2> HIDE DEF q, n
  <2>3. RefreshOK(req[r])' /\ ~Settled(req[r])'
    BY <1>4, <1>8, <2>1, <2>2 DEF RefreshOK, Settled, Moved, Keeps, n
  <2> QED
    BY <1>1, <2>3, MoverReplay
<1>9. CASE q.kind = "refresh" /\ n.kind = "refresh" /\ RevokeTokenRows(r)
  <2>1. q.stage = "chain" /\ session[q.session].revoked /\ q.targets = {q.session}
    BY <1>1, <1>9 DEF RevokeTokenRows, At, RefreshOK, RowsInHand
  <2>2. n.token = q.token /\ n.session = q.session
    BY <1>1, <1>9, RevokeTokenRowsMoves DEF Moved, Keeps
  <2>3. n.stage = "ended"
    <3>1. AfterRevoking["refresh"] = "ended"
      BY DEF AfterRevoking
    <3>2. n = [q EXCEPT !.targets = {}, !.stage = "ended"]
      BY <1>1, <1>9, <2>1, <3>1 DEF RevokeTokenRows, TypeOK
    <3> QED
      BY <1>1, <3>2 DEF Request
  <2> HIDE DEF q, n
  <2>4. RefreshOK(req[r])' /\ ~Settled(req[r])'
    BY <1>4, <1>9, <2>1, <2>2, <2>3 DEF RefreshOK, Settled, n
  <2> QED
    BY <1>1, <2>4, MoverReplay
<1>10. CASE q.kind = "refresh" /\ n.kind = "refresh" /\ (AnswerRevocation(r) \/ Fail(r))
  <2>1. n.token = q.token /\ n.session = q.session /\ n.stage = "done"
    BY <1>1, <1>10, AnswerRevocationMoves, FailMoves DEF Ended, Same, Keeps
  <2>2. n.outcome = "failed" \/ session[q.session].revoked
    <3>1. CASE AnswerRevocation(r)
      BY <1>1, <1>10, <3>1 DEF AnswerRevocation, At, RefreshOK
    <3>2. CASE Fail(r)
      BY <1>1, <3>2, FailMoves DEF Ended
    <3> QED
      BY <1>10, <3>1, <3>2
  <2> HIDE DEF q, n
  <2>3. RefreshOK(req[r])'
    BY <1>4, <1>10, <2>1 DEF RefreshOK, n
  <2>4. Settled(req[r])' => Useless(req[r])'
    BY <1>4, <1>10, <2>1, <2>2 DEF Settled, Useless, n
  <2> QED
    BY <1>1, <2>3, <2>4, MoverReplay
<1> QED
  BY <1>1, <1>2, <1>3, <1>5, <1>6, <1>7, <1>8, <1>9, <1>10, RefreshSteps

\* Time passing only makes tokens useless.
LEMMA RestReplay ==
    ASSUME Inv, ReplayOK,
           \/ UNCHANGED vars
           \/ \E k \in Ssos : ExpireSso(k)
           \/ \E c \in Codes : ExpireCode(c)
           \/ \E t \in Tokens : ExpireToken(t)
    PROVE  ReplayOK'
<1>1. UNCHANGED <<session, req>>
  BY DEF vars, tables, ExpireSso, ExpireCode, ExpireToken
<1>2. \A t \in Tokens : /\ token'[t].session = token[t].session /\ token'[t].used = token[t].used
                        /\ token'[t].revoked = token[t].revoked
                        /\ token[t].expired => token'[t].expired
  <2>1. CASE UNCHANGED token
    BY <2>1
  <2>2. CASE \E t \in Tokens : ExpireToken(t)
    <3>1. PICK t \in Tokens : token' = [token EXCEPT ![t].expired = TRUE]
      BY <2>2 DEF ExpireToken
    <3> QED
      BY <3>1 DEF Inv, TypeOK, TokenRow
  <2> QED
    BY <2>1, <2>2 DEF vars, tables, ExpireSso, ExpireCode
<1>3. \A t \in Tokens : Issued(t)' <=> Issued(t)
  BY <1>2 DEF Issued
<1>4. \A r \in Reqs : RefreshOK(req[r])' /\ (Settled(req[r])' <=> Settled(req[r]))
  BY <1>1, <1>2 DEF ReplayOK, RefreshOK, Settled
<1>5. \A r \in Reqs : Settled(req[r]) =>
        /\ req[r].token \in Tokens
        /\ Useless(req[r]) => Useless(req[r])'
  BY <1>1, <1>2 DEF ReplayOK, RefreshOK, Settled, Useless
<1>6. \A t \in Tokens : token'[t].revoked => Issued(t)' /\ session'[token'[t].session].revoked
  BY <1>1, <1>2, <1>3 DEF ReplayOK
<1>7. \A r \in Reqs : Settled(req[r])' => Useless(req[r])' \/ token'[req'[r].token].used
  BY <1>1, <1>2, <1>4, <1>5 DEF ReplayOK
<1>8. \A x, y \in Reqs :
        x # y /\ Settled(req[x])' /\ Settled(req[y])' /\ req'[x].token = req'[y].token =>
          Useless(req[x])'
  BY <1>1, <1>4, <1>5 DEF ReplayOK
<1> QED
  BY <1>4, <1>6, <1>7, <1>8 DEF ReplayOK

\* When two refreshes that presented the same token have both been answered, its session is
\* closed or the token had expired: no interleaving of any number of requests lets a replay
\* go unnoticed (consumeRefreshToken).
THEOREM ReplaysEndTheSession == Spec => []ReplayEndsTheSession
<1>1. Init => ReplayOK
  <2> SUFFICES ASSUME Init PROVE ReplayOK
    OBVIOUS
  <2>1. \A r \in Reqs : req[r].kind = "none"
    BY DEF Init, NoRequest
  <2>2. \A t \in Tokens : token[t].revoked = FALSE
    BY DEF Init, NoToken
  <2> QED
    BY <2>1, <2>2 DEF ReplayOK, RefreshOK, Settled
<1>2. Inv /\ ReplayOK /\ [Next]_vars => ReplayOK'
  <2> SUFFICES ASSUME Inv, ReplayOK, [Next]_vars PROVE ReplayOK'
    OBVIOUS
  <2>1. ASSUME NEW r \in Reqs, Step(r) PROVE ReplayOK'
    BY <2>1, StepReplay
  <2> QED
    BY <2>1, RestReplay DEF Next, Step
<1>3. ReplayOK => ReplayEndsTheSession
  BY DEF ReplayOK, ReplayEndsTheSession, Settled, Useless
<1> QED
  BY <1>1, <1>2, <1>3, Invariance, PTL DEF Spec
=============================================================================
