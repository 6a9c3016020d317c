----------------------------- MODULE Installations -----------------------------
(***************************************************************************)
(* The devices of apps/custom-apps: an app and its keys, the installations *)
(* that enroll with them, the token pair each one holds, its refresh, its  *)
(* review and its revocation.  Several invocations run at once; each reads *)
(* a row and writes it later.                                              *)
(***************************************************************************)
EXTENDS Naturals, FiniteSets

CONSTANTS
    Devices,    \* values of `device_id`
    Installs,   \* identifiers of rows of `installations`
    Keys,       \* identifiers of rows of `app_keys`
    Pairs,      \* pairs of an access and a refresh token, by the hashes stored
    Reqs,       \* requests in flight, each served by one invocation
    None,       \* the absent value
    Duty        \* bound: the endpoints each request may be sent to

Kinds == {"enroll", "refresh", "review", "revoke", "newkey", "rotate", "dropkey", "delete"}

ASSUME InstallationsAssumption ==
    /\ Duty \in [Reqs -> SUBSET Kinds]
    /\ None \notin Devices \cup Installs \cup Keys \cup Pairs

VARIABLES app,      \* table apps: whether the app is there
          key,      \* table app_keys
          inst,     \* table installations
          pair,     \* what became of each token pair
          req       \* the invocations

vars == <<app, key, inst, pair, req>>

Installation == [status : {"none", "active", "revoked"}, device : Devices \cup {None},
                 holds : Pairs \cup {None}, needsReview : BOOLEAN]
NoInstallation == [status |-> "none", device |-> None, holds |-> None, needsReview |-> FALSE]
AppKey == [status : {"none", "active", "revoked"}, of : Keys \cup {None},
           replacedBy : Keys \cup {None}]
NoKey == [status |-> "none", of |-> None, replacedBy |-> None]
\* `exchanged` counts the refreshes a pair was accepted in; `expired` is the end of its lifetime.
Pair == [issued : BOOLEAN, exchanged : 0 .. 2, expired : BOOLEAN]
NoPair == [issued |-> FALSE, exchanged |-> 0, expired |-> FALSE]
Request == [kind : Kinds \cup {"none"}, stage : {"none", "update", "insert", "write"},
            device : Devices \cup {None}, row : Installs \cup {None}, token : Pairs \cup {None},
            key : Keys \cup {None}]
NoRequest == [kind |-> "none", stage |-> "none", device |-> None, row |-> None, token |-> None,
              key |-> None]

TypeOK ==
    /\ app \in {"there", "deleted"}
    /\ key \in [Keys -> AppKey]
    /\ inst \in [Installs -> Installation]
    /\ pair \in [Pairs -> Pair]
    /\ req \in [Reqs -> Request]

Idle(r, kind) == req[r].kind = "none" /\ kind \in Duty[r]
At(r, kind, stage) == req[r].kind = kind /\ req[r].stage = stage
Begin(r, q) == req' = [req EXCEPT ![r] = q]
End(r) == req' = [req EXCEPT ![r] = NoRequest]
Stored(i) == inst[i].status # "none"

-----------------------------------------------------------------------------
(* Enrollment. *)

\* The row of a device, if the app knows it.
FindByDevice(d) == {i \in Installs : Stored(i) /\ inst[i].device = d}

\* A pair nobody holds, written to a row.
IssueTokens(t) == ~pair[t].issued /\ pair' = [pair EXCEPT ![t].issued = TRUE]

\* The row the answer goes to is re-enrolled, refused when it is revoked, or created.
Refused(i) == inst[i].status = "revoked"

\* POST .../enroll: the key is read, then the row of the device.
BeginEnroll(r) ==
    /\ Idle(r, "enroll") /\ app = "there"
    /\ \E d \in Devices, k \in Keys :
        /\ key[k].status = "active"
        /\ \/ \E i \in FindByDevice(d) :
                /\ ~Refused(i)
                /\ Begin(r, [NoRequest EXCEPT !.kind = "enroll", !.stage = "update", !.device = d,
                                              !.row = i, !.key = k])
           \/ /\ FindByDevice(d) = {}
              /\ Begin(r, [NoRequest EXCEPT !.kind = "enroll", !.stage = "insert", !.device = d,
                                            !.key = k])
    /\ UNCHANGED <<app, key, inst, pair>>

FaultyReenrolled(row, t) == [row EXCEPT !.status = "active", !.holds = t]

\* What a re-enrollment writes: new tokens, and what the device says of itself; never the status,
\* the alias or the review.
Reenrolled(row, t) == [row EXCEPT !.holds = t]

\* The update, keyed on the identifier alone.
Reenroll(r) ==
    /\ At(r, "enroll", "update")
    /\ \E t \in Pairs :
        /\ IssueTokens(t)
        /\ inst' = [inst EXCEPT ![req[r].row] = Reenrolled(@, t)]
    /\ End(r) /\ UNCHANGED <<app, key>>

FaultyDeviceIsFree(d) == \A i \in FindByDevice(d) : Refused(i) \/ inst[i].needsReview

\* The unique index on (app, device).
DeviceIsFree(d) == FindByDevice(d) = {}

\* The insert; it fails when the app is gone.
Enroll(r) ==
    /\ At(r, "enroll", "insert")
    /\ LET d == req[r].device IN
        \/ \E i \in Installs, t \in Pairs :
            /\ app = "there" /\ ~Stored(i) /\ DeviceIsFree(d)
            /\ IssueTokens(t)
            /\ inst' = [inst EXCEPT ![i] = [status |-> "active", device |-> d, holds |-> t,
                                            needsReview |-> TRUE]]
            /\ End(r)
        \* the unique index refuses: the winner is read and re-enrolled
        \/ \E i \in FindByDevice(d) :
            /\ app = "there" /\ ~DeviceIsFree(d)
            /\ IF Refused(i) THEN End(r)
               ELSE Begin(r, [req[r] EXCEPT !.stage = "update", !.row = i])
            /\ UNCHANGED <<inst, pair>>
        \/ app = "deleted" /\ End(r) /\ UNCHANGED <<inst, pair>>
    /\ UNCHANGED <<app, key>>

\* The lifetime of a refresh token ends.
Expire(t) ==
    /\ pair[t].issued /\ ~pair[t].expired
    /\ pair' = [pair EXCEPT ![t].expired = TRUE]
    /\ UNCHANGED <<app, key, inst, req>>

\* The tokens the gate of the ingest routes lets in.
Admits(t) == \E i \in Installs : inst[i].status = "active" /\ inst[i].holds = t /\ ~pair[t].expired

\* POST .../token/refresh: the row that holds the token presented,
BeginRefresh(r) ==
    /\ Idle(r, "refresh")
    /\ \E i \in Installs, t \in Pairs :
        /\ inst[i].status = "active" /\ inst[i].holds = t /\ ~pair[t].expired
        /\ Begin(r, [NoRequest EXCEPT !.kind = "refresh", !.stage = "write", !.row = i, !.token = t])
    /\ UNCHANGED <<app, key, inst, pair>>

FaultyStillHeld(q) == inst[q.row].status = "active"

\* written only while it still holds it.
StillHeld(q) == inst[q.row].holds = q.token

Refresh(r) ==
    /\ At(r, "refresh", "write")
    /\ LET q == req[r] IN
        IF StillHeld(q)
        THEN \E t \in Pairs :
                /\ ~pair[t].issued
                /\ pair' = [pair EXCEPT ![t].issued = TRUE, ![q.token].exchanged = @ + 1]
                /\ inst' = [inst EXCEPT ![q.row].holds = t]
        ELSE UNCHANGED <<inst, pair>>
    /\ End(r) /\ UNCHANGED <<app, key>>

-----------------------------------------------------------------------------
(* The panel: installations. *)

\* POST .../review and POST .../revoke read the row and go on when there is something to write.
BeginDecision(r) ==
    /\ \E kind \in {"review", "revoke"}, i \in Installs :
        /\ Idle(r, kind)
        /\ CASE kind = "review" -> inst[i].needsReview
             [] kind = "revoke" -> inst[i].status = "active"
        /\ Begin(r, [NoRequest EXCEPT !.kind = kind, !.stage = "write", !.row = i])
    /\ UNCHANGED <<app, key, inst, pair>>

Review(r) ==
    /\ At(r, "review", "write")
    /\ inst' = [inst EXCEPT ![req[r].row].needsReview = FALSE]
    /\ End(r) /\ UNCHANGED <<app, key, pair>>

FaultyRevoked(row) == [row EXCEPT !.status = "withdrawn", !.holds = None]

Revoked(row) == [row EXCEPT !.status = "revoked", !.holds = None, !.needsReview = FALSE]

Revoke(r) ==
    /\ At(r, "revoke", "write")
    /\ inst' = [inst EXCEPT ![req[r].row] = Revoked(@)]
    /\ End(r) /\ UNCHANGED <<app, key, pair>>

-----------------------------------------------------------------------------
(* The panel: keys, and the app. *)

\* POST .../keys
CreateKey(r) ==
    /\ Idle(r, "newkey") /\ app = "there"
    /\ \E k \in Keys :
        /\ key[k].status = "none"
        /\ key' = [key EXCEPT ![k] = [NoKey EXCEPT !.status = "active"]]
    /\ UNCHANGED <<app, inst, pair, req>>

\* POST .../keys/:id/rotate and .../revoke read the key: an active one is replaced or revoked.
BeginKey(r) ==
    /\ \E kind \in {"rotate", "dropkey"}, k \in Keys :
        /\ Idle(r, kind) /\ key[k].status = "active"
        /\ Begin(r, [NoRequest EXCEPT !.kind = kind, !.stage = "write", !.key = k])
    /\ UNCHANGED <<app, key, inst, pair>>

FaultyReplaced(row, k) == [row EXCEPT !.replacedBy = k]

\* A key that was rotated names its replacement.
Replaced(row, k) == [row EXCEPT !.status = "revoked", !.replacedBy = k]

\* One batch: the replacement in, the old key out. The insert fails once the app is gone.
RotateKey(r) ==
    /\ At(r, "rotate", "write")
    /\ LET old == req[r].key IN
        \/ app = "there" /\ \E k \in Keys :
            /\ key[k].status = "none"
            /\ key' = [key EXCEPT ![k] = [status |-> "active", of |-> old, replacedBy |-> None],
                                  ![old] = Replaced(@, k)]
        \/ app = "deleted" /\ UNCHANGED key
    /\ End(r) /\ UNCHANGED <<app, inst, pair>>

RevokeKey(r) ==
    /\ At(r, "dropkey", "write")
    /\ key' = [key EXCEPT ![req[r].key].status = IF @ = "none" THEN @ ELSE "revoked"]
    /\ End(r) /\ UNCHANGED <<app, inst, pair>>

\* DELETE /apps/:id: refused while it has installations,
BeginDelete(r) ==
    /\ Idle(r, "delete") /\ app = "there"
    /\ \A i \in Installs : ~Stored(i)
    /\ Begin(r, [NoRequest EXCEPT !.kind = "delete", !.stage = "write"])
    /\ UNCHANGED <<app, key, inst, pair>>

FaultyMayDrop == \A i \in Installs : inst[i].status # "active" \/ inst[i].needsReview

\* which the foreign key checks again when the row goes.
MayDrop == \A i \in Installs : ~Stored(i)

DeleteApp(r) ==
    /\ At(r, "delete", "write")
    /\ IF MayDrop
       THEN app' = "deleted" /\ key' = [k \in Keys |-> NoKey]
       ELSE UNCHANGED <<app, key>>
    /\ End(r) /\ UNCHANGED <<inst, pair>>

\* GET: the lists of keys and installations.
List == UNCHANGED vars

-----------------------------------------------------------------------------
\* POST /apps creates the app with its first key.
Init ==
    /\ app = "there"
    /\ \E k \in Keys : key = [j \in Keys |-> [NoKey EXCEPT !.status = IF j = k THEN "active" ELSE "none"]]
    /\ inst = [i \in Installs |-> NoInstallation]
    /\ pair = [t \in Pairs |-> NoPair]
    /\ req = [r \in Reqs |-> NoRequest]

Next ==
    \/ \E r \in Reqs :
        \/ BeginEnroll(r) \/ Reenroll(r) \/ Enroll(r) \/ BeginRefresh(r) \/ Refresh(r)
        \/ BeginDecision(r) \/ Review(r) \/ Revoke(r)
        \/ CreateKey(r) \/ BeginKey(r) \/ RotateKey(r) \/ RevokeKey(r)
        \/ BeginDelete(r) \/ DeleteApp(r)
    \/ \E t \in Pairs : Expire(t)
    \/ List

Spec == Init /\ [][Next]_vars

-----------------------------------------------------------------------------
\* A refresh token works once, however many refreshes present it at the same time and whatever
\* enrollments run beside them (services/enrollment.ts, the conditional update).
RefreshWorksOnce == \A t \in Pairs : pair[t].exchanged <= 1

\* A device has one installation of an app: of two first enrollments at once one loses the insert
\* and takes over the winner's row.
OneRowPerDevice == \A i, j \in Installs :
    Stored(i) /\ Stored(j) /\ inst[i].device = inst[j].device => i = j

\* Revocation sticks: no enrollment already under way brings a revoked device back.
RevocationSticks == [][\A i \in Installs :
    inst[i].status = "revoked" => inst'[i].status = "revoked"]_vars

\* No installation outlives its app: a device that enrolls between the count and the deletion
\* keeps the app.
InstallationsHaveAnApp == (\E i \in Installs : Stored(i)) => app = "there"

\* A key that was rotated is revoked, and the successor it names is a key its own rotation issued,
\* whatever rotations, additions and revocations overlap and whether the app goes meanwhile
\* (panel/routes/apps.ts, rotate: the replacement and the old key's row are one batch).
SuccessorIsOwn == \A k \in Keys : key[k].replacedBy # None =>
    /\ key[k].status = "revoked"
    /\ \E o \in Keys : key[k].replacedBy = o /\ key[o].of = k /\ key[o].status # "none"

\* Every key a rotation issues is the one its old key names (panel/routes/apps.ts, rotate).
RotationIsOneToOne == \A k \in Keys : key[k].of # None => key[key[k].of].replacedBy = k

\* A revoked installation holds no token (panel/routes/installations.ts, revoke).
RevokedHoldsNothing == \A i \in Installs : inst[i].status = "revoked" => inst[i].holds = None

=============================================================================
