--------------------------- MODULE ClientSecrets ---------------------------
(***************************************************************************)
(* A client application of apps/auth and its secrets: registration, edits, *)
(* rotation with a grace period, revocation, and what becomes of a client  *)
(* that turns public.                                                      *)
(***************************************************************************)
EXTENDS Integers, FiniteSets

CONSTANTS
    Secrets,  \* bound: secrets
    Requests, \* requests of administrators
    None,
    Graces,   \* the grace periods of a rotation, in ticks
    MaxTime,  \* bound: ticks of the clock
    MaxEdits, \* bound: requests
    Together, \* bound: whether requests overlap
    Duties    \* bound: which of them happen

SecretsAssumption == Graces \subseteq Nat /\ {MaxTime, MaxEdits} \subseteq Nat /\ Together \in BOOLEAN

VARIABLES clock,
          app,    \* applications: the row of the client
          secret, \* application_secrets
          armed,  \* history: whether a secret was issued since the client is confidential
          asked,  \* history: what the last edit of each column asked for
          req, edits

vars == <<clock, app, secret, armed, asked, req, edits>>

\* A secret without an expiry.
Forever == MaxTime + 10
Methods == {"none", "post"}
Client == [method : Methods, pkce : BOOLEAN, active : BOOLEAN]
Secret == [expires : Nat, revoked : BOOLEAN]
NoReq == [at |-> "none", row |-> None, was |-> "none", s |-> None, life |-> Forever, grace |-> None, todo |-> {}, seen |-> None]

TypeOK ==
    /\ clock \in 0 .. MaxTime /\ edits \in 0 .. MaxEdits
    /\ app # None => app \in Client
    /\ \A s \in Secrets : secret[s] # None => secret[s] \in Secret
    /\ \A q \in Requests : req[q].at \in {"none", "first", "write", "list", "public", "insert", "retire", "deadline", "revoke"}

Idle == \A q \in Requests : req[q].at = "none"
Free(q) == req[q].at = "none" /\ (Together \/ Idle)
Edit(what) == what \in Duties /\ edits < MaxEdits /\ edits' = edits + 1
At(q, at) == req[q].at = at /\ UNCHANGED edits
Go(q, r) == req' = [req EXCEPT ![q] = r]
End(q) == Go(q, NoReq)
IsActive(row) == row # None /\ ~ row.revoked /\ row.expires > clock
Active == {s \in Secrets : IsActive(secret[s])}

-----------------------------------------------------------------------------
FaultyPkceRule(method, pkce) == pkce

\* resolvePkceRule: a public client always needs PKCE.
PkceRule(method, pkce) == pkce \/ method = "none"

\* Turning it off for a public client explicitly is refused.
PkceRefused(method, pkce) == method = "none" /\ pkce = FALSE

\* POST /admin/applications registers the client
Create(q, method, pkce) ==
    /\ Free(q) /\ app = None /\ Edit("create") /\ ~ PkceRefused(method, pkce)
    /\ app' = [method |-> method, pkce |-> PkceRule(method, pkce), active |-> TRUE]
    /\ asked' = [method |-> method, active |-> TRUE]
    /\ IF method = "none" THEN End(q) ELSE Go(q, [NoReq EXCEPT !.at = "first"])
    /\ UNCHANGED <<clock, secret, armed>>

Fresh(end) == [expires |-> end, revoked |-> FALSE]

\* and issues the first secret of a confidential one.
IssueFirst(q, s) ==
    /\ At(q, "first") /\ secret[s] = None
    /\ secret' = [secret EXCEPT ![s] = Fresh(Forever)] /\ armed' = (app.method = "post") /\ End(q)
    /\ UNCHANGED <<clock, app, asked>>

FaultyEdited(row, change) ==
    [row EXCEPT !.method = IF change.method = None THEN @ ELSE change.method, !.active = change.active # FALSE]

\* The whole row an edit writes: the columns it names over those it read.
Edited(row, change) ==
    LET method == IF change.method = None THEN row.method ELSE change.method
        pkce == IF change.pkce = None THEN row.pkce ELSE change.pkce IN
    [method |-> method, pkce |-> PkceRule(method, pkce), active |-> IF change.active = None THEN row.active ELSE change.active]

\* PATCH /admin/applications/:id reads the row,
BeginPatch(q, change) ==
    /\ Free(q) /\ app # None /\ Edit("edit") /\ ~ PkceRefused(Edited(app, change).method, change.pkce)
    /\ Go(q, [NoReq EXCEPT !.at = "write", !.row = Edited(app, change), !.was = app.method, !.seen = change])
    /\ UNCHANGED <<clock, app, secret, armed, asked>>

FaultyRevokes(was, row) == was = "none" /\ row.method = "none"

Revokes(was, row) == was = "post" /\ row.method = "none"

\* writes it,
WritePatch(q) ==
    LET r == req[q] IN
    /\ At(q, "write") /\ app' = r.row
    /\ asked' = [method |-> IF r.seen.method = None THEN asked.method ELSE r.seen.method,
                 active |-> IF r.seen.active = None THEN asked.active ELSE r.seen.active]
    /\ armed' = (armed /\ r.row.method = "post")
    /\ IF Revokes(r.was, r.row) THEN Go(q, [NoReq EXCEPT !.at = "list"]) ELSE End(q)
    /\ UNCHANGED <<clock, secret>>

\* and revokes the secrets of a client that turned public, one by one.
ListSecrets(q) ==
    /\ At(q, "list")
    /\ Go(q, [NoReq EXCEPT !.at = "public", !.todo = {s \in Secrets : secret[s] # None /\ ~ secret[s].revoked}])
    /\ UNCHANGED <<clock, app, secret, armed, asked>>

Mangled(row) == [row EXCEPT !.revoked = TRUE, !.expires = -1]

Revoked(row) == [row EXCEPT !.revoked = TRUE]

RevokeNext(q) ==
    /\ At(q, "public")
    /\ \/ \E s \in req[q].todo : /\ secret' = [secret EXCEPT ![s] = Revoked(@)]
                                 /\ Go(q, [req[q] EXCEPT !.todo = @ \ {s}])
       \/ req[q].todo = {} /\ End(q) /\ UNCHANGED secret
    /\ UNCHANGED <<clock, app, armed, asked>>

-----------------------------------------------------------------------------
\* POST /admin/applications/:id/secrets reads the client, which has to be confidential,
BeginIssue(q, life, grace) ==
    /\ Free(q) /\ app # None /\ app.method = "post" /\ Edit(IF grace = None THEN "issue" ELSE "rotate")
    /\ life # None => "expire" \in Duties
    /\ Go(q, [NoReq EXCEPT !.at = "insert", !.life = IF life = None THEN Forever ELSE clock + life, !.grace = grace])
    /\ UNCHANGED <<clock, app, secret, armed, asked>>

\* inserts the secret,
Insert(q, s) ==
    /\ At(q, "insert") /\ secret[s] = None
    /\ secret' = [secret EXCEPT ![s] = Fresh(req[q].life)] /\ armed' = (app.method = "post")
    /\ IF req[q].grace = None THEN End(q) ELSE Go(q, [req[q] EXCEPT !.at = "retire", !.s = s])
    /\ UNCHANGED <<clock, app, asked>>

\* reads, for a rotation, the others that are active
Retire(q) ==
    /\ At(q, "retire")
    /\ Go(q, [req[q] EXCEPT !.at = "deadline", !.todo = Active \ {req[q].s}, !.seen = secret])
    /\ UNCHANGED <<clock, app, secret, armed, asked>>

FaultyDeadline(row, grace) == clock + grace

\* An expiry that is closer than the grace period is not postponed.
Deadline(row, grace) == IF row.expires < clock + grace THEN row.expires ELSE clock + grace

\* and gives each a deadline, or revokes it when there is no grace.
RetireNext(q) ==
    LET r == req[q] IN
    /\ At(q, "deadline")
    /\ \/ \E s \in r.todo :
            /\ secret' = [secret EXCEPT ![s] = IF r.grace = 0 THEN Revoked(@) ELSE [@ EXCEPT !.expires = Deadline(r.seen[s], r.grace)]]
            /\ Go(q, [r EXCEPT !.todo = @ \ {s}])
       \/ r.todo = {} /\ End(q) /\ UNCHANGED secret
    /\ UNCHANGED <<clock, app, armed, asked>>

FaultyLast(s) == FALSE

\* Revoking the last active secret of a confidential client is refused.
Last(s) == Active \subseteq {s} /\ app.method = "post"

\* DELETE /admin/applications/:id/secrets/:secretId reads the client and its secrets,
BeginRevoke(q, s) ==
    /\ Free(q) /\ secret[s] # None /\ ~ secret[s].revoked /\ ~ Last(s) /\ Edit("revoke")
    /\ Go(q, [NoReq EXCEPT !.at = "revoke", !.s = s])
    /\ UNCHANGED <<clock, app, secret, armed, asked>>

\* and revokes it.
Revoke(q) ==
    /\ At(q, "revoke") /\ secret' = [secret EXCEPT ![req[q].s] = Revoked(@)] /\ End(q)
    /\ UNCHANGED <<clock, app, armed, asked>>

\* Time passes; bound: only between requests, when they are not to overlap.
Tick == clock < MaxTime /\ (Together \/ Idle) /\ clock' = clock + 1 /\ UNCHANGED <<app, secret, armed, asked, req, edits>>

\* authenticateClient and the lists read only.
List == UNCHANGED vars

Init ==
    /\ clock = 0 /\ app = None /\ secret = [s \in Secrets |-> None] /\ armed = FALSE
    /\ asked = [method |-> "none", active |-> TRUE]
    /\ req = [q \in Requests |-> NoReq] /\ edits = 0

Changes == [method : Methods \cup {None}, pkce : BOOLEAN \cup {None}, active : BOOLEAN \cup {None}]

Next ==
    \/ \E q \in Requests :
         \/ WritePatch(q) \/ ListSecrets(q) \/ RevokeNext(q) \/ Retire(q) \/ RetireNext(q) \/ Revoke(q)
         \/ \E method \in Methods, pkce \in BOOLEAN : Create(q, method, pkce)
         \/ \E change \in Changes : BeginPatch(q, change)
         \/ \E life \in (Graces \ {0}) \cup {None}, grace \in Graces \cup {None} : BeginIssue(q, life, grace)
         \/ \E s \in Secrets : IssueFirst(q, s) \/ Insert(q, s) \/ BeginRevoke(q, s)
    \/ Tick \/ List

Spec == Init /\ [][Next]_vars

-----------------------------------------------------------------------------
\* A client without a secret needs PKCE, whichever edits overlap.
PublicNeedsPkce == app # None /\ app.method = "none" => app.pkce

\* Once its edits are over, a public client has no secret that was not revoked.
PublicHasNone ==
    Idle /\ app # None /\ app.method = "none" => \A s \in Secrets : secret[s] # None => secret[s].revoked

\* No request takes the last secret a confidential client can authenticate with.
LastKept ==
    armed /\ armed' /\ clock' = clock /\ Active # {} => \E s \in Secrets : IsActive(secret'[s])

\* A confidential client that was given a secret can authenticate.
NeverLockedOut == Idle /\ armed => Active # {}

\* No rotation gives a secret a later end than it had.
NeverPostponed ==
    \A s \in Secrets : secret[s] # None => secret'[s].expires <= secret[s].expires

\* What an edit asked of a column stands until another asks for something else.
EditsKept == Idle /\ app # None => app.method = asked.method /\ app.active = asked.active
=============================================================================
