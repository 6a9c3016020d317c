---------------------------- MODULE PushDevices ----------------------------
(***************************************************************************)
(* The devices an account registered for Web Push in apps/notifications,   *)
(* and the fan-out that delivers to them and drops those that are gone.    *)
(***************************************************************************)
EXTENDS Integers, FiniteSets

CONSTANTS
    Users, Endpoints, \* browser profiles
    Requests,         \* requests of users and deliveries of events
    None,
    MaxDevices,       \* maxSubscriptionsPerUser
    MaxFailures,
    MaxEdits,         \* bound: registrations and removals
    MaxPushes,        \* bound: fan-outs
    Together          \* bound: whether requests overlap

PushAssumption ==
    /\ {MaxDevices, MaxFailures} \subseteq Nat \ {0} /\ {MaxEdits, MaxPushes} \subseteq Nat /\ Together \in BOOLEAN

VARIABLES device, \* push_subscriptions, by endpoint
          dead,   \* endpoints the browser unsubscribed
          streak, \* history: deliveries that failed in a row since the endpoint was registered
          req, edits, pushes

vars == <<device, dead, streak, req, edits, pushes>>

Device == [id : 1 .. MaxEdits, user : Users, at : 1 .. MaxEdits, fails : 0 .. MaxFailures + MaxPushes]
NoReq == [at |-> "none", u |-> None, rows |-> {}, sent |-> {}, gone |-> {}, failed |-> {}]

TypeOK ==
    /\ \A e \in Endpoints : device[e] # None => device[e] \in Device
    /\ dead \subseteq Endpoints /\ streak \in [Endpoints -> 0 .. MaxPushes]
    /\ \A q \in Requests : req[q].at \in {"none", "list", "excess", "push", "gone", "sent", "failed", "drop"}
    /\ edits \in 0 .. MaxEdits /\ pushes \in 0 .. MaxPushes

Idle == \A q \in Requests : req[q].at = "none"
Free(q) == req[q].at = "none" /\ (Together \/ Idle)
At(q, at) == req[q].at = at
Go(q, r) == req' = [req EXCEPT ![q] = r]
Edit == edits < MaxEdits /\ edits' = edits + 1
Of(u) == {e \in Endpoints : device[e] # None /\ device[e].user = u}

\* A row of a snapshot that is still there: rows are deleted and updated by their id.
There(rows) == {e \in Endpoints : device[e] # None /\ [e |-> e, id |-> device[e].id] \in rows}
Rows(S) == {[e |-> e, id |-> device[e].id] : e \in S}
Drop(S) == device' = [e \in Endpoints |-> IF e \in S THEN None ELSE device[e]]

-----------------------------------------------------------------------------
\* What an endpoint that was registered already becomes: it moves to the account that registers it.
Refreshed(e, u) == [device[e] EXCEPT !.user = u, !.at = edits + 1, !.fails = 0]

\* registerSubscription inserts the endpoint or moves it.
Registered(u, e) ==
    IF device[e] = None THEN [id |-> edits + 1, user |-> u, at |-> edits + 1, fails |-> 0] ELSE Refreshed(e, u)

\* POST /me/push-subscriptions registers,
Register(q, u, e) ==
    /\ Free(q) /\ Edit /\ e \notin dead
    /\ device' = [device EXCEPT ![e] = Registered(u, e)]
    /\ streak' = [streak EXCEPT ![e] = 0]
    /\ Go(q, [NoReq EXCEPT !.at = "list", !.u = u])
    /\ UNCHANGED <<dead, pushes>>

FaultyExcess(S) == {e \in S : Cardinality({f \in S : device[f].at > device[e].at}) > MaxDevices}

Reversed(S) == {e \in S : Cardinality({f \in S : device[f].at < device[e].at}) >= MaxDevices}

\* All but the most recently registered.
Excess(S) == {e \in S : Cardinality({f \in S : device[f].at > device[e].at}) >= MaxDevices}

\* reads the devices of the account,
ListDevices(q) ==
    /\ At(q, "list")
    /\ Go(q, [req[q] EXCEPT !.at = "excess", !.rows = Rows(Excess(Of(req[q].u)))])
    /\ UNCHANGED <<device, dead, streak, edits, pushes>>

\* and drops the excess.
DropExcess(q) ==
    /\ At(q, "excess") /\ Drop(There(req[q].rows)) /\ Go(q, NoReq)
    /\ UNCHANGED <<dead, streak, edits, pushes>>

\* DELETE /me/push-subscriptions/:id
Remove(u, e) ==
    /\ e \in Of(u) /\ Edit /\ (Together \/ Idle) /\ Drop({e})
    /\ UNCHANGED <<dead, streak, req, pushes>>

\* The browser unsubscribes: its push service answers 404 or 410 from then on.
Unsubscribe(e) ==
    /\ e \notin dead /\ Edit /\ (Together \/ Idle) /\ dead' = dead \cup {e}
    /\ UNCHANGED <<device, streak, req, pushes>>

-----------------------------------------------------------------------------
FaultyReached(u) == {e \in Endpoints : device[e] # None}

Reached(u) == Of(u)

\* pushToUser reads the devices of the account,
Targets(q, u) ==
    /\ Free(q) /\ pushes < MaxPushes /\ pushes' = pushes + 1 /\ Reached(u) # {}
    /\ Go(q, [NoReq EXCEPT !.at = "push", !.u = u, !.rows = Rows(Reached(u))])
    /\ UNCHANGED <<device, dead, streak, edits>>

\* POST /me/push-subscriptions/test does the same with a notice that is no notification.
Test(q, u) == Targets(q, u)

\* delivers to all of them: each delivery succeeds, is told the endpoint is gone, or fails,
Push(q, failed) ==
    LET r == req[q]
        gone == {t \in r.rows : t.e \in dead} IN
    /\ At(q, "push") /\ failed \subseteq r.rows \ gone
    /\ Go(q, [r EXCEPT !.at = "gone", !.gone = gone, !.failed = failed, !.sent = r.rows \ (gone \cup failed)])
    /\ streak' = [e \in Endpoints |-> IF \E t \in failed : t.e = e THEN streak[e] + 1
                                      ELSE IF \E t \in r.rows \ gone : t.e = e THEN 0 ELSE streak[e]]
    /\ UNCHANGED <<device, dead, edits, pushes>>

\* drops those that are gone,
DropGone(q) ==
    /\ At(q, "gone") /\ Drop(There(req[q].gone)) /\ Go(q, [req[q] EXCEPT !.at = "sent"])
    /\ UNCHANGED <<dead, streak, edits, pushes>>

FaultyWorked(row) == row

Mistyped(row) == [row EXCEPT !.fails = -1]

Worked(row) == [row EXCEPT !.fails = 0]

\* clears the count of those it reached,
ResetSent(q) ==
    /\ At(q, "sent")
    /\ device' = [e \in Endpoints |-> IF e \in There(req[q].sent) THEN Worked(device[e]) ELSE device[e]]
    /\ Go(q, [req[q] EXCEPT !.at = "failed"])
    /\ UNCHANGED <<dead, streak, edits, pushes>>

\* counts the failures of the others,
CountFailed(q) ==
    /\ At(q, "failed")
    /\ device' = [e \in Endpoints |-> IF e \in There(req[q].failed) THEN [device[e] EXCEPT !.fails = @ + 1] ELSE device[e]]
    /\ Go(q, [req[q] EXCEPT !.at = "drop"])
    /\ UNCHANGED <<dead, streak, edits, pushes>>

\* and drops those that failed too often.
DropFailed(q) ==
    /\ At(q, "drop") /\ Drop({e \in There(req[q].failed) : device[e].fails >= MaxFailures}) /\ Go(q, NoReq)
    /\ UNCHANGED <<dead, streak, edits, pushes>>

\* GET /me/push-subscriptions
List == UNCHANGED vars

Init ==
    /\ device = [e \in Endpoints |-> None] /\ dead = {} /\ streak = [e \in Endpoints |-> 0]
    /\ req = [q \in Requests |-> NoReq] /\ edits = 0 /\ pushes = 0

Next ==
    \/ \E q \in Requests :
         \/ ListDevices(q) \/ DropExcess(q) \/ DropGone(q) \/ ResetSent(q) \/ CountFailed(q) \/ DropFailed(q)
         \/ \E u \in Users : Targets(q, u) \/ Test(q, u) \/ \E e \in Endpoints : Register(q, u, e)
         \/ \E failed \in SUBSET req[q].rows : Push(q, failed)
    \/ \E e \in Endpoints : Unsubscribe(e) \/ \E u \in Users : Remove(u, e)
    \/ List

Spec == Init /\ [][Next]_vars

-----------------------------------------------------------------------------
\* However many registrations overlap, no account has more devices than the limit once they are over.
DevicesLimited == Idle => \A u \in Users : Cardinality(Of(u)) <= MaxDevices

\* A registration makes room by dropping the devices of its account that were registered least
\* recently, and no other.
LeastRecentDropped ==
    \A q \in Requests : At(q, "excess") /\ req'[q].at = "none" =>
         \A e \in Endpoints : device[e] # None /\ device'[e] = None =>
             /\ device[e].user = req[q].u
             /\ \A f \in Of(req[q].u) : device'[f] # None => device[f].at > device[e].at

\* A device is dropped as failing when its last deliveries failed, as many in a row as it takes.
DroppedForFailures ==
    \A q \in Requests : At(q, "drop") /\ req'[q].at = "none" =>
         \A e \in Endpoints : device[e] # None /\ device'[e] = None => streak[e] >= MaxFailures

\* What an account is told reaches no browser that is another account's by then.
OwnScreens ==
    \A q \in Requests : At(q, "push") /\ req'[q].at = "gone" =>
         \A t \in req'[q].sent : device[t.e] # None => device[t.e].user = req[q].u
=============================================================================
