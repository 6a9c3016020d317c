----------------------------- MODULE Authorize -----------------------------
(***************************************************************************)
(* The authorization endpoint of apps/auth: requests that are parked while *)
(* a user signs in, the SSO session a browser holds and what a client may  *)
(* ask of it (prompt and max_age), and the three ways a request ends in a  *)
(* code: a sign-in, the session at once, and the Authorize button.         *)
(***************************************************************************)
EXTENDS Integers, FiniteSets

CONSTANTS
    Browsers, Users,
    Sessions, \* bound: SSO sessions
    Parked,   \* bound: authorization requests
    Requests, \* HTTP requests
    None,
    MaxAges,  \* the max_age a client may ask for, in ticks
    MaxTime,  \* bound: ticks of the clock
    MaxEdits, \* bound: requests
    Together, \* bound: whether requests overlap
    Duties    \* bound: which of them happen

VARIABLES clock,
          sso,    \* sso_sessions, with the browser each was opened in (history)
          cookie, \* the session each browser's cookie names
          parked, \* authorization_requests, with what the client asked (history: when)
          codes,  \* history: the codes issued, and what for
          shown,  \* history: the account the sign-in front-end was told of, per parked request
          req,    \* requests, between two statements
          edits   \* counter of the bound

vars == <<clock, sso, cookie, parked, codes, shown, req, edits>>

Times == 0 .. MaxTime
Prompts == {"default", "login", "none"}
Session == [user : Users, at : Times, browser : Browsers, revoked : BOOLEAN]
Park == [prompt : Prompts \ {"none"}, maxAge : MaxAges \cup {None}, at : Times, stamp : Sessions \cup {None}, expired : BOOLEAN]
Code == [user : Users, auth : Times, prompt : Prompts, maxAge : MaxAges \cup {None}, asked : Times,
         way : {"sign-in", "none", "continue"}, parked : Parked \cup {None}, told : SUBSET (Users \cup {None})]
NoReq == [at |-> "none", b |-> None, p |-> None, user |-> None, s |-> None, prompt |-> "default", maxAge |-> None, asked |-> 0]

AuthorizeAssumption ==
    /\ {MaxTime, MaxEdits} \subseteq Nat /\ MaxAges \subseteq Nat /\ Together \in BOOLEAN
    /\ None \notin Browsers /\ None \notin Users /\ None \notin Sessions /\ None \notin Parked
    /\ None \notin MaxAges /\ None \notin Session /\ None \notin Park

TypeOK ==
    /\ clock \in Times /\ edits \in 0 .. MaxEdits
    /\ \A s \in Sessions : sso[s] # None => sso[s] \in Session
    /\ cookie \in [Browsers -> Sessions \cup {None}]
    /\ \A p \in Parked : parked[p] # None => parked[p] \in Park
    /\ codes \subseteq Code /\ shown \in [Parked -> SUBSET (Users \cup {None})]
    /\ \A q \in Requests : req[q].at \in {"none", "park", "issue", "code", "replace", "start"}

Free(q) == req[q].at = "none" /\ (Together \/ \A p \in Requests : req[p].at = "none")
Edit(what) == what \in Duties /\ edits < MaxEdits /\ edits' = edits + 1
At(q, at) == req[q].at = at /\ UNCHANGED edits
Go(q, r) == req' = [req EXCEPT ![q] = r]
End(q) == Go(q, NoReq)

\* readSsoSession: the session of the cookie, when it is live.
Live(s) == s # None /\ sso[s] # None /\ ~ sso[s].revoked
Held(b) == IF Live(cookie[b]) THEN cookie[b] ELSE None

FaultyAcceptable(s, prompt, maxAge) == s # None /\ prompt # "login" /\ (maxAge = None \/ clock - sso[s].at <= maxAge + 1)

\* isSsoSessionAcceptable
Acceptable(s, prompt, maxAge) == s # None /\ prompt # "login" /\ (maxAge = None \/ clock - sso[s].at <= maxAge)

-----------------------------------------------------------------------------
\* GET /oauth/authorize reads the session of the browser,
BeginAuthorize(q, b, prompt, maxAge) ==
    LET s == IF Acceptable(Held(b), prompt, maxAge) THEN Held(b) ELSE None IN
    /\ Free(q) /\ Edit("authorize")
    /\ \/ prompt = "none" /\ s = None /\ UNCHANGED req
       \/ /\ ~ (prompt = "none" /\ s = None)
          /\ Go(q, [NoReq EXCEPT !.at = IF prompt = "none" THEN "issue" ELSE "park", !.b = b, !.s = s,
                                  !.prompt = prompt, !.maxAge = maxAge, !.asked = clock])
    /\ UNCHANGED <<clock, sso, cookie, parked, codes, shown>>

\* parks the request with the session it found,
ParkRequest(q, p) ==
    LET r == req[q] IN
    /\ At(q, "park") /\ parked[p] = None
    /\ parked' = [parked EXCEPT ![p] = [prompt |-> r.prompt, maxAge |-> r.maxAge, at |-> r.asked, stamp |-> r.s, expired |-> FALSE]]
    /\ End(q) /\ UNCHANGED <<clock, sso, cookie, codes, shown>>

\* or answers at once from it: authorizeFromSsoSession.
FromSession(q) ==
    LET r == req[q] IN
    /\ At(q, "issue")
    /\ codes' = codes \cup {[user |-> sso[r.s].user, auth |-> sso[r.s].at, prompt |-> r.prompt, maxAge |-> r.maxAge,
                             asked |-> r.asked, way |-> IF r.p = None THEN "none" ELSE "continue", parked |-> r.p,
                             told |-> IF r.p = None THEN {} ELSE shown[r.p]]}
    /\ End(q) /\ UNCHANGED <<clock, sso, cookie, parked, shown>>

\* GET /oauth/authorize/:handle tells the front-end who the browser was signed in as.
Describe(q, p) ==
    /\ Free(q) /\ parked[p] # None /\ ~ parked[p].expired /\ Edit("describe")
    /\ shown' = [shown EXCEPT ![p] = @ \cup {IF Live(parked[p].stamp) THEN sso[parked[p].stamp].user ELSE None}]
    /\ UNCHANGED <<clock, sso, cookie, parked, codes, req>>

FaultyContinues(p, s) == TRUE

\* A request that was stamped continues from that session only.
Continues(p, s) == parked[p].stamp # None => parked[p].stamp = s

\* GET /oauth/authorize/:handle/continue: the Authorize button.
Continue(q, b, p) ==
    /\ Free(q) /\ parked[p] # None /\ ~ parked[p].expired /\ Held(b) # None /\ Continues(p, Held(b)) /\ Edit("continue")
    /\ Go(q, [at |-> "issue", b |-> b, p |-> p, user |-> None, s |-> Held(b), prompt |-> parked[p].prompt,
              maxAge |-> parked[p].maxAge, asked |-> parked[p].at])
    /\ UNCHANGED <<clock, sso, cookie, parked, codes, shown>>

\* A provider proved who the user of a browser is, for a request that was parked, maybe by another
\* browser: completeAuthentication reads the session the browser held,
BeginSignIn(q, b, u, p) ==
    /\ Free(q) /\ parked[p] # None /\ Edit("sign in")
    /\ Go(q, [at |-> "replace", b |-> b, p |-> p, user |-> u, s |-> Held(b), prompt |-> parked[p].prompt,
              maxAge |-> parked[p].maxAge, asked |-> parked[p].at])
    /\ UNCHANGED <<clock, sso, cookie, parked, codes, shown>>

FaultyReplaced(row) == row

Reshaped(row) == [row EXCEPT !.revoked = TRUE, !.at = MaxTime + 1]

Replaced(row) == [row EXCEPT !.revoked = TRUE]

\* revokes it,
Replace(q) ==
    LET s == req[q].s IN
    /\ At(q, "replace")
    /\ sso' = IF s = None THEN sso ELSE [sso EXCEPT ![s] = Replaced(@)]
    /\ Go(q, [req[q] EXCEPT !.at = "start"])
    /\ UNCHANGED <<clock, cookie, parked, codes, shown>>

\* opens another with a cookie,
Start(q, s) ==
    LET r == req[q] IN
    /\ At(q, "start") /\ sso[s] = None
    /\ sso' = [sso EXCEPT ![s] = [user |-> r.user, at |-> clock, browser |-> r.b, revoked |-> FALSE]]
    /\ Go(q, [r EXCEPT !.at = "code", !.s = s])
    /\ UNCHANGED <<clock, cookie, parked, codes, shown>>

\* and answers with the code; the cookie comes with the answer.
SignedIn(q) ==
    LET r == req[q] IN
    /\ At(q, "code")
    /\ codes' = codes \cup {[user |-> r.user, auth |-> sso[r.s].at, prompt |-> r.prompt, maxAge |-> r.maxAge,
                             asked |-> r.asked, way |-> "sign-in", parked |-> r.p, told |-> shown[r.p]]}
    /\ cookie' = [cookie EXCEPT ![r.b] = r.s]
    /\ End(q) /\ UNCHANGED <<clock, sso, parked, shown>>

\* The session ends: the browser signs out, or it is revoked from elsewhere.
Logout(q, b) ==
    /\ Free(q) /\ Held(b) # None /\ Edit("logout")
    /\ sso' = [sso EXCEPT ![cookie[b]].revoked = TRUE] /\ cookie' = [cookie EXCEPT ![b] = None]
    /\ UNCHANGED <<clock, parked, codes, shown, req>>

Tick == clock < MaxTime /\ clock' = clock + 1 /\ UNCHANGED <<sso, cookie, parked, codes, shown, req, edits>>

Expire(p) ==
    /\ parked[p] # None /\ Edit("expire") /\ parked' = [parked EXCEPT ![p].expired = TRUE]
    /\ UNCHANGED <<clock, sso, cookie, codes, shown, req>>

\* A request that is refused changes nothing.
Refuse == UNCHANGED vars

Init ==
    /\ clock = 0 /\ sso = [s \in Sessions |-> None] /\ cookie = [b \in Browsers |-> None]
    /\ parked = [p \in Parked |-> None] /\ codes = {} /\ shown = [p \in Parked |-> {}]
    /\ req = [q \in Requests |-> NoReq] /\ edits = 0

Next ==
    \/ \E q \in Requests :
         \/ FromSession(q) \/ Replace(q) \/ SignedIn(q)
         \/ \E b \in Browsers, prompt \in Prompts, age \in MaxAges \cup {None} : BeginAuthorize(q, b, prompt, age)
         \/ \E p \in Parked :
              \/ ParkRequest(q, p) \/ Describe(q, p)
              \/ \E b \in Browsers : Continue(q, b, p) \/ \E u \in Users : BeginSignIn(q, b, u, p)
         \/ \E s \in Sessions : Start(q, s)
         \/ \E b \in Browsers : Logout(q, b)
    \/ \E p \in Parked : Expire(p)
    \/ Tick \/ Refuse

Spec == Init /\ [][Next]_vars

-----------------------------------------------------------------------------
\* A client asked for a fresh authentication, or for one no older than so long, and its code says the user
\* authenticated after the request, or recently enough before it.
Fresh(k) == /\ k.prompt = "login" => k.auth >= k.asked
            /\ k.maxAge # None => k.asked - k.auth <= k.maxAge
FreshAsAsked == \A k \in codes : Fresh(k)

\* A code that came of a sign-in, or silently of the session, is as fresh as the client asked, whatever
\* sign-ins, sign-outs and expiries fall between the request and its answer.  The Authorize button gives a
\* code of the session the request was parked for not accepting (routes/authorize.ts, continue).
FreshUnlessContinued == \A k \in codes : k.way # "continue" => Fresh(k)

\* What the Authorize button grants is what the front-end showed: the account it named when it was
\* told that the browser was signed in.
GrantedAsShown ==
    \A k \in codes : k.way = "continue" /\ k.told \cap Users # {} => k.user \in k.told

\* A request the front-end was told is nobody's, and of nobody else since, ends in a code by a sign-in.
NobodyContinues ==
    \A k \in codes : k.way = "continue" => k.told # {None}

\* Of the sessions opened in a browser, one at most is still alive once its requests are over: the one
\* its cookie names.
OneSessionPerBrowser ==
    (\A q \in Requests : req[q].at = "none") =>
        \A s \in Sessions : Live(s) => cookie[sso[s].browser] = s
=============================================================================
