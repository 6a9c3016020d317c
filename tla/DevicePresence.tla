----------------------------- MODULE DevicePresence -----------------------------
(***************************************************************************)
(* The presence of one installation of apps/custom-apps: the heartbeats it *)
(* sends by request or down a socket, the time they credit to the hourly   *)
(* usage, the sockets its Durable Object holds, what the panel changes for *)
(* it and its revocation.                                                  *)
(***************************************************************************)
EXTENDS Naturals, FiniteSets

CONSTANTS
    Sockets,    \* the WebSockets the device opens
    Reqs,       \* requests and handlers in flight
    None,       \* the absent value
    HourLen,    \* seconds of an hour
    Limit,      \* offlineAfterIntervals intervals, in seconds
    MaxTime,    \* bound: the clock stops there
    Instant,    \* bound: whether a heartbeat is recorded in the second it arrives
    MaxEdits,   \* bound: changes the panel makes for the device
    Duty        \* bound: what each request may be

Kinds == {"beat", "frame", "open", "close", "edit", "revoke"}

PresenceAssumption ==
    /\ HourLen \in Nat \ {0} /\ Limit \in Nat /\ MaxTime \in Nat /\ MaxEdits \in Nat
    /\ Instant \in BOOLEAN
    /\ Duty \in [Reqs -> SUBSET Kinds]

VARIABLES now,      \* seconds since the enrollment
          inst,     \* the row of the installation
          usage,    \* usage_hourly.online_seconds
          dark,     \* seconds the installation read as disconnected
          socket,   \* the sockets, as the Durable Object sees them
          told,     \* the change of the panel the device last heard of
          req       \* the requests and handlers

vars == <<now, inst, usage, dark, socket, told, req>>

Times == 0 .. MaxTime
Hours == 0 .. (MaxTime \div HourLen)
\* `edits` stands for the state, the overrides and what else the directives carry.
Installation == [status : {"active", "revoked"}, seen : Times, connected : BOOLEAN,
                 closed : Times \cup {None}, edits : 0 .. MaxEdits]
Request == [kind : Kinds \cup {"none"}, stage : {"none", "write", "accept", "mark", "hello", "sync", "cut"},
            socket : Sockets \cup {None}, at : Times, seen : Times, edits : 0 .. MaxEdits]
NoRequest == [kind |-> "none", stage |-> "none", socket |-> None, at |-> 0, seen |-> 0, edits |-> 0]

TypeOK ==
    /\ now \in Times
    /\ inst \in Installation
    /\ usage \in [Hours -> 0 .. HourLen]
    /\ dark \in 0 .. MaxTime
    /\ socket \in [Sockets -> {"new", "open", "closing", "closed"}]
    /\ told \in 0 .. MaxEdits
    /\ req \in [Reqs -> Request]

Idle(r, kind) == req[r].kind = "none" /\ kind \in Duty[r]
At(r, kind, stage) == req[r].kind = kind /\ req[r].stage = stage
Begin(r, q) == req' = [req EXCEPT ![r] = q]
End(r) == req' = [req EXCEPT ![r] = NoRequest]
Open == {s \in Sockets : socket[s] = "open"}
Least(a, b) == IF a < b THEN a ELSE b

-----------------------------------------------------------------------------
(* Presence. *)

IsConnected ==
    /\ now - inst.seen <= Limit
    /\ ~(inst.closed # None /\ inst.closed >= inst.seen)

FaultySplitByHour(from, to) ==
    [h \in Hours |-> IF h = to \div HourLen THEN to - from ELSE 0]

\* The seconds of [from, to) that fall in each hour.
SplitByHour(from, to) ==
    [h \in Hours |-> Cardinality({n \in from .. to : n < to /\ n \div HourLen = h})]

FaultyHeartbeatCredit(seen, at) == IF at > seen THEN SplitByHour(seen, at) ELSE [h \in Hours |-> 0]

\* The gap since the previous heartbeat, unless it is longer than the threshold.
HeartbeatCredit(seen, at) ==
    IF at > seen /\ at - seen <= Limit THEN SplitByHour(seen, at) ELSE [h \in Hours |-> 0]

Tick ==
    /\ now < MaxTime
    /\ Instant => \A r \in Reqs : req[r].kind \notin {"beat", "frame"}
    /\ now' = now + 1
    /\ dark' = dark + (IF IsConnected THEN 0 ELSE 1)
    /\ UNCHANGED <<inst, usage, socket, told, req>>

FaultyMayBeat == TRUE

\* A heartbeat of a revoked installation is not recorded.
MayBeat == inst.status = "active"

\* A heartbeat, by request (refused by the gate when revoked) or down an open socket (which is
\* closed then): the app and the row are loaded,
BeginBeat(r) ==
    /\ \/ /\ Idle(r, "beat") /\ inst.status = "active"
          /\ Begin(r, [NoRequest EXCEPT !.kind = "beat", !.stage = "write", !.at = now,
                                        !.seen = inst.seen, !.edits = inst.edits])
          /\ UNCHANGED socket
       \/ /\ Idle(r, "frame")
          /\ \E s \in Open :
              IF MayBeat
              THEN /\ Begin(r, [NoRequest EXCEPT !.kind = "frame", !.stage = "write", !.socket = s,
                                                 !.at = now, !.seen = inst.seen, !.edits = inst.edits])
                   /\ UNCHANGED socket
              ELSE socket' = [socket EXCEPT ![s] = "closing"] /\ UNCHANGED req
    /\ UNCHANGED <<now, inst, usage, dark, told>>

FaultyAnswered(q) == told

\* The answer carries what was loaded; a socket that is gone loses it.
Answered(q) == IF q.kind = "frame" /\ socket[q.socket] # "open" THEN told ELSE q.edits

FaultySeen(row, at) == [row EXCEPT !.seen = at, !.status = "seen"]

Seen(row, at) == [row EXCEPT !.seen = at]

\* and one batch writes the row and the hours.
RecordHeartbeat(r) ==
    /\ req[r].kind \in {"beat", "frame"} /\ req[r].stage = "write"
    /\ LET q == req[r]  credit == HeartbeatCredit(q.seen, q.at) IN
        /\ inst' = Seen(inst, q.at)
        /\ usage' = [h \in Hours |-> Least(HourLen, usage[h] + credit[h])]
        /\ told' = Answered(q)
    /\ End(r)
    /\ UNCHANGED <<now, dark, socket>>

-----------------------------------------------------------------------------
(* The Durable Object. *)

\* GET .../socket passes the gate
BeginOpen(r) ==
    /\ Idle(r, "open") /\ inst.status = "active"
    /\ \E s \in Sockets :
        /\ socket[s] = "new" /\ \A o \in Reqs : req[o].socket # s
        /\ Begin(r, [NoRequest EXCEPT !.kind = "open", !.stage = "accept", !.socket = s])
    /\ UNCHANGED <<now, inst, usage, dark, socket, told>>

FaultyReplaced(s) == [socket EXCEPT ![s] = "open"]

\* A new connection closes the ones before it.
Replaced(s) == [o \in Sockets |-> IF o = s THEN "open" ELSE IF o \in Open THEN "closing" ELSE socket[o]]

\* and the object accepts it, without an await,
Accept(r) ==
    /\ At(r, "open", "accept")
    /\ socket' = Replaced(req[r].socket)
    /\ Begin(r, [req[r] EXCEPT !.stage = "mark", !.at = now])
    /\ UNCHANGED <<now, inst, usage, dark, told>>

\* marks the row,
MarkOpen(r) ==
    /\ At(r, "open", "mark")
    /\ inst' = [inst EXCEPT !.connected = TRUE]
    /\ Begin(r, [req[r] EXCEPT !.stage = "hello"])
    /\ UNCHANGED <<now, usage, dark, socket, told>>

\* and greets with the directives, whatever the status is by now.
Hello(r) ==
    /\ At(r, "open", "hello")
    /\ told' = IF socket[req[r].socket] = "open" THEN inst.edits ELSE told
    /\ End(r)
    /\ UNCHANGED <<now, inst, usage, dark, socket>>

\* The device closes a socket,
Leave(s) ==
    /\ socket[s] = "open"
    /\ \E r \in Reqs : "close" \in Duty[r]
    /\ socket' = [socket EXCEPT ![s] = "closing"]
    /\ UNCHANGED <<now, inst, usage, dark, told, req>>

\* A close counts only when no other socket is left.
Last(s) == Open \ {s} = {}

\* and the object hears of it.
Closed(r) ==
    /\ Idle(r, "close")
    /\ \E s \in Sockets :
        /\ socket[s] = "closing"
        /\ socket' = [socket EXCEPT ![s] = "closed"]
        /\ IF Last(s)
           THEN Begin(r, [NoRequest EXCEPT !.kind = "close", !.stage = "mark", !.at = now])
           ELSE UNCHANGED req
    /\ UNCHANGED <<now, inst, usage, dark, told>>

MarkClosed(r) ==
    /\ At(r, "close", "mark")
    /\ inst' = [inst EXCEPT !.connected = FALSE, !.closed = req[r].at]
    /\ End(r)
    /\ UNCHANGED <<now, usage, dark, socket, told>>

-----------------------------------------------------------------------------
(* The panel. *)

\* PATCH /installations/:id, PUT /apps/:id/status and the other changes: written, then pushed to
\* the socket the row says is there,
Edit(r) ==
    /\ Idle(r, "edit") /\ inst.edits < MaxEdits
    /\ inst' = [inst EXCEPT !.edits = @ + 1]
    /\ IF inst.connected
       THEN Begin(r, [NoRequest EXCEPT !.kind = "edit", !.stage = "sync"])
       ELSE UNCHANGED req
    /\ UNCHANGED <<now, usage, dark, socket, told>>

\* which is closed when the installation is revoked.
Sync(r) ==
    /\ At(r, "edit", "sync")
    /\ \/ Open = {} /\ UNCHANGED <<socket, told>>
       \/ \E s \in Open :
            IF inst.status = "active"
            THEN told' = inst.edits /\ UNCHANGED socket
            ELSE socket' = [socket EXCEPT ![s] = "closing"] /\ UNCHANGED told
    /\ End(r)
    /\ UNCHANGED <<now, inst, usage, dark>>

\* POST .../revoke: the row is read,
BeginRevoke(r) ==
    /\ Idle(r, "revoke") /\ inst.status = "active"
    /\ Begin(r, [NoRequest EXCEPT !.kind = "revoke", !.stage = IF inst.connected THEN "sync" ELSE "write"])
    /\ UNCHANGED <<now, inst, usage, dark, socket, told>>

\* written,
Revoke(r) ==
    /\ req[r].kind = "revoke" /\ req[r].stage \in {"write", "sync"}
    /\ inst' = [inst EXCEPT !.status = "revoked"]
    /\ IF req[r].stage = "sync" THEN Begin(r, [req[r] EXCEPT !.stage = "cut"]) ELSE End(r)
    /\ UNCHANGED <<now, usage, dark, socket, told>>

\* and disconnected when the row read said there is a socket.
Disconnect(r) ==
    /\ At(r, "revoke", "cut")
    /\ socket' = [s \in Sockets |-> IF s \in Open THEN "closing" ELSE socket[s]]
    /\ End(r)
    /\ UNCHANGED <<now, inst, usage, dark, told>>

\* GET: the views of the panel.
View == UNCHANGED vars

-----------------------------------------------------------------------------
\* An enrollment counts as seen.
Init ==
    /\ now = 0
    /\ inst = [status |-> "active", seen |-> 0, connected |-> FALSE, closed |-> None, edits |-> 0]
    /\ usage = [h \in Hours |-> 0]
    /\ dark = 0
    /\ socket = [s \in Sockets |-> "new"]
    /\ told = 0
    /\ req = [r \in Reqs |-> NoRequest]

Finish(r) == \/ RecordHeartbeat(r) \/ Accept(r) \/ MarkOpen(r) \/ Hello(r) \/ MarkClosed(r)
             \/ Sync(r) \/ Revoke(r) \/ Disconnect(r)

Next ==
    \/ Tick \/ View
    \/ \E s \in Sockets : Leave(s)
    \/ \E r \in Reqs :
        \/ BeginBeat(r) \/ RecordHeartbeat(r)
        \/ BeginOpen(r) \/ Accept(r) \/ MarkOpen(r) \/ Hello(r) \/ Closed(r) \/ MarkClosed(r)
        \/ Edit(r) \/ Sync(r) \/ BeginRevoke(r) \/ Revoke(r) \/ Disconnect(r)

Spec == Init /\ [][Next]_vars

\* The device goes on sending its heartbeats, by request or down its socket, and whatever runs
\* ends: no step waits for another.
FairSpec == Spec /\ \A r \in Reqs : WF_vars(BeginBeat(r)) /\ WF_vars(Finish(r))

-----------------------------------------------------------------------------
Total[n \in Hours] == usage[n] + (IF n = 0 THEN 0 ELSE Total[n - 1])

\* An hour is credited with no more than the part of it that has passed.
HoursHaveHappened == \A h \in Hours :
    usage[h] <= Cardinality({n \in 0 .. MaxTime : n < now /\ n \div HourLen = h})

\* The time credited and the time the installation read as disconnected are disjoint: together
\* they are no longer than the time since the enrollment (services/presence.ts: nothing is
\* credited for a gap in which the installation went offline).
OnlineOnlyWhileConnected == Total[MaxTime \div HourLen] + dark <= now

\* One socket per installation: a new connection closes the one before.
OneSocket == Cardinality(Open) <= 1

\* Whatever the panel changed reaches a device that keeps sending heartbeats, even when a push is
\* missed or an older answer arrives last.
PanelReachesDevice == told = inst.edits \/ inst.status = "revoked"

\* A revoked installation that still holds a socket loses it with its next heartbeat.
RevokedSocketCloses == inst.status = "revoked" => Open = {}

\* Once the revocation is done and nothing runs, no socket of the installation is open.
RevokedIsDisconnected ==
    inst.status = "revoked" /\ (\A r \in Reqs : req[r].kind = "none") => Open = {}

=============================================================================
