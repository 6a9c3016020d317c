--------------------------- MODULE RemoteCommands ---------------------------
(***************************************************************************)
(* The remote commands of apps/custom-apps for one installation: the panel *)
(* queues and withdraws them, every heartbeat answer or socket sync hands  *)
(* over those outstanding, the device acknowledges or sends a screenshot,  *)
(* the cron expires the rest.  A screenshot is an object in R2 and a row.  *)
(* Commands are numbered in the order they are created.                    *)
(***************************************************************************)
EXTENDS Naturals, FiniteSets

CONSTANTS
    MaxCmds,        \* bound: commands the panel queues
    Reqs,           \* requests in flight: of the panel, the device and its socket
    Images,         \* uploads: identifiers of screenshots
    None,           \* the absent value
    CommandTypes,   \* bound: types of command, of "restart" and "screenshot"
    TTL,            \* how long a command lives
    MaxPerDelivery, \* COMMANDS.maxPerDelivery
    MaxTime,        \* bound: the clock stops there
    Duties,         \* bound: what the requests in flight do
    Faults          \* bound: whether a batch may fail after the image is stored

CommandAssumption ==
    /\ MaxCmds \in Nat /\ TTL \in Nat \ {0} /\ MaxPerDelivery \in Nat \ {0} /\ MaxTime \in Nat
    /\ Faults \in BOOLEAN /\ CommandTypes \subseteq {"restart", "screenshot"}
    /\ None \notin Nat /\ None \notin Images

ASSUME CommandAssumption

VARIABLES now,      \* the clock
          cmd,      \* table commands
          allowed,  \* what the panel has on: "active" installation, "commands", "screenshots"
          bucket,   \* the objects of SCREENSHOTS
          shots,    \* table screenshots: the command each image answers
          known,    \* device: the commands it was handed
          done,     \* device: those it ran, once each
          req       \* requests between two statements

vars == <<now, cmd, allowed, bucket, shots, known, done, req>>

Cmds == 1 .. MaxCmds
Times == 0 .. MaxTime
Open == {"pending", "delivered"}
Closed == {"succeeded", "failed", "expired", "cancelled"}
Cmd == [status : Open \cup Closed \cup {"none"}, kind : {"restart", "screenshot", "none"},
        expires : 0 .. MaxTime + TTL, delivered : Times \cup {None}, result : Images \cup {"device", None}]
NoCmd == [status |-> "none", kind |-> "none", expires |-> 0, delivered |-> None, result |-> None]
Req == [duty : {"take", "ack", "shot", "drop", "issue", "none"}, at : {"read", "put", "none"},
        cmds : SUBSET Cmds, image : Images \cup {None}, kind : CommandTypes \cup {None}, was : Times \cup {None}]
NoReq == [duty |-> "none", at |-> "none", cmds |-> {}, image |-> None, kind |-> None, was |-> None]

TypeOK ==
    /\ now \in Times
    /\ cmd \in [Cmds -> Cmd]
    /\ allowed \in SUBSET {"active", "commands", "screenshots"}
    /\ bucket \in SUBSET Images
    /\ shots \in [Images -> Cmds \cup {None}]
    /\ known \in SUBSET Cmds /\ done \in SUBSET Cmds
    /\ req \in [Reqs -> Req]

Idle(r, duty) == req[r] = NoReq /\ duty \in Duties
Begin(r, duty, cmds, image) ==
    req' = [req EXCEPT ![r] = [NoReq EXCEPT !.duty = duty, !.at = "read", !.cmds = cmds, !.image = image,
                 !.was = IF duty \in {"ack", "shot"} THEN cmd[CHOOSE c \in cmds : TRUE].delivered ELSE None]]
At(r, duty, at) == req[r].duty = duty /\ req[r].at = at
End(r) == req' = [req EXCEPT ![r] = NoReq]
The(r) == CHOOSE c \in req[r].cmds : TRUE
Queued == {c \in Cmds : cmd[c].status # "none"}

-----------------------------------------------------------------------------
\* POST /installations/:id/commands reads the installation and the app,
BeginIssue(r) ==
    /\ Idle(r, "issue") /\ {"active", "commands"} \subseteq allowed
    /\ \E k \in CommandTypes :
        /\ k = "screenshot" => "screenshots" \in allowed
        /\ req' = [req EXCEPT ![r] = [NoReq EXCEPT !.duty = "issue", !.at = "read", !.kind = k]]
    /\ UNCHANGED <<now, cmd, allowed, bucket, shots, known, done>>

\* then inserts the command, whatever was switched off since.
Issue(r) ==
    /\ At(r, "issue", "read")
    /\ \E c \in Cmds :
        /\ c = Cardinality(Queued) + 1
        /\ cmd' = [cmd EXCEPT ![c] =
               [NoCmd EXCEPT !.status = "pending", !.kind = req[r].kind, !.expires = now + TTL]]
    /\ End(r)
    /\ UNCHANGED <<now, allowed, bucket, shots, known, done>>

\* POST /commands/:id/cancel: one guarded UPDATE.
Cancel(c) ==
    /\ "issue" \in Duties
    /\ cmd[c].status \in Open
    /\ cmd' = [cmd EXCEPT ![c].status = "cancelled"]
    /\ UNCHANGED <<now, allowed, bucket, shots, known, done, req>>

\* PATCH of the app or the installation, or a revocation: anything goes on or off.
Switch(what) ==
    /\ allowed' = IF what \in allowed THEN allowed \ {what} ELSE allowed \cup {what}
    /\ UNCHANGED <<now, cmd, bucket, shots, known, done, req>>

-----------------------------------------------------------------------------
\* The commands a delivery selects: open, not expired, the oldest MaxPerDelivery.
Outstanding ==
    LET open == {c \in Cmds : cmd[c].status \in Open /\ cmd[c].expires > now}
    IN {c \in open : Cardinality({d \in open : d < c}) < MaxPerDelivery}

\* takeOutstanding, in a heartbeat answer or a sync, selects,
BeginTake(r) ==
    /\ Idle(r, "take") /\ {"active", "commands"} \subseteq allowed /\ Outstanding # {}
    /\ Begin(r, "take", Outstanding, None)
    /\ UNCHANGED <<now, cmd, allowed, bucket, shots, known, done>>

FaultyFresh(c) == cmd[c].status \in Open

\* The rows the stamp still applies to.
Fresh(c) == cmd[c].status = "pending" /\ cmd[c].delivered = None

Stamp(cs) == cmd' = [c \in Cmds |->
    IF c \in cs /\ Fresh(c) THEN [cmd[c] EXCEPT !.status = "delivered", !.delivered = now] ELSE cmd[c]]

\* stamps those handed over for the first time, and answers, with what it selected.
Take(r) ==
    /\ At(r, "take", "read")
    /\ Stamp(req[r].cmds)
    /\ known' = known \cup req[r].cmds
    /\ End(r)
    /\ UNCHANGED <<now, allowed, bucket, shots, done>>

\* The answer may be lost.
TakeLost(r) ==
    /\ At(r, "take", "read")
    /\ Stamp(req[r].cmds)
    /\ End(r)
    /\ UNCHANGED <<now, allowed, bucket, shots, known, done>>

\* The device runs a command once, whatever it is handed again.
Run(c) ==
    /\ c \in known \ done
    /\ done' = done \cup {c}
    /\ UNCHANGED <<now, cmd, allowed, bucket, shots, known, req>>

-----------------------------------------------------------------------------
\* acknowledgeCommand, over HTTP or the socket, reads the command,
BeginAck(r) ==
    /\ Idle(r, "ack")
    /\ \E c \in done : cmd[c].status \in Open /\ Begin(r, "ack", {c}, None)
    /\ UNCHANGED <<now, cmd, allowed, bucket, shots, known, done>>

FaultyAckApplies(c) == TRUE

AckApplies(c) == cmd[c].status \in Open

\* delivered_at as an answer writes it: what it read, or now.
Delivered(r) == IF req[r].was = None THEN now ELSE req[r].was

\* and records what the device says if the command is still open.
Ack(r) ==
    /\ At(r, "ack", "read")
    /\ \E status \in {"succeeded", "failed"} :
        cmd' = IF ~ AckApplies(The(r)) THEN cmd
               ELSE [cmd EXCEPT ![The(r)] =
                        [@ EXCEPT !.status = status, !.result = "device", !.delivered = Delivered(r)]]
    /\ End(r)
    /\ UNCHANGED <<now, allowed, bucket, shots, known, done>>

\* POST .../commands/:id/screenshot checks that the command waits for one and that they are on,
BeginShot(r) ==
    /\ Idle(r, "shot") /\ {"commands", "screenshots", "active"} \subseteq allowed
    /\ \E c \in done, i \in Images :
        /\ cmd[c].kind = "screenshot" /\ cmd[c].status \in Open /\ cmd[c].expires > now
        /\ i \notin bucket /\ shots[i] = None /\ \A q \in Reqs : req[q].image # i
        /\ Begin(r, "shot", {c}, i)
    /\ UNCHANGED <<now, cmd, allowed, bucket, shots, known, done>>

FaultyPutShot(r) ==
    /\ At(r, "shot", "read")
    /\ \E stored \in {{}, {req[r].image}} : bucket' = bucket \cup stored
    /\ req' = [req EXCEPT ![r].at = "put"]
    /\ UNCHANGED <<now, cmd, allowed, shots, known, done>>

\* stores the image,
PutShot(r) ==
    /\ At(r, "shot", "read")
    /\ bucket' = bucket \cup {req[r].image}
    /\ req' = [req EXCEPT ![r].at = "put"]
    /\ UNCHANGED <<now, cmd, allowed, shots, known, done>>

\* and, in one batch, inserts its row and completes the command, whatever became of it.
Shot(r) ==
    /\ At(r, "shot", "put")
    /\ shots' = [shots EXCEPT ![req[r].image] = The(r)]
    /\ cmd' = [cmd EXCEPT ![The(r)] = 
           [@ EXCEPT !.status = "succeeded", !.result = req[r].image, !.delivered = Delivered(r)]]
    /\ End(r)
    /\ UNCHANGED <<now, allowed, bucket, known, done>>

ShotFails(r) ==
    /\ Faults /\ At(r, "shot", "put")
    /\ End(r)
    /\ UNCHANGED <<now, cmd, allowed, bucket, shots, known, done>>

\* DELETE /screenshots/:id reads the row, deletes the image,
BeginDrop(r) ==
    /\ Idle(r, "drop")
    /\ \E i \in Images : shots[i] # None /\ Begin(r, "drop", {}, i)
    /\ UNCHANGED <<now, cmd, allowed, bucket, shots, known, done>>

DropImage(r) ==
    /\ At(r, "drop", "read")
    /\ bucket' = bucket \ {req[r].image}
    /\ req' = [req EXCEPT ![r].at = "put"]
    /\ UNCHANGED <<now, cmd, allowed, shots, known, done>>

\* then the row.
Drop(r) ==
    /\ At(r, "drop", "put")
    /\ shots' = [shots EXCEPT ![req[r].image] = None]
    /\ End(r)
    /\ UNCHANGED <<now, cmd, allowed, bucket, known, done>>

-----------------------------------------------------------------------------
FaultyStale(c) == cmd[c].status = "delivered" /\ cmd[c].expires <= now

FaultyStatusOf(c) == "stale"

Stale(c) == cmd[c].status \in Open /\ cmd[c].expires <= now

StatusOf(c) == "expired"

\* expireCommands, every five minutes.
Expire ==
    /\ \E c \in Cmds : Stale(c)
    /\ cmd' = [c \in Cmds |-> IF Stale(c) THEN [cmd[c] EXCEPT !.status = StatusOf(c)] ELSE cmd[c]]
    /\ UNCHANGED <<now, allowed, bucket, shots, known, done, req>>

Tick ==
    /\ now < MaxTime /\ now' = now + 1
    /\ UNCHANGED <<cmd, allowed, bucket, shots, known, done, req>>

\* GET: the commands, the screenshots and their images.
List == UNCHANGED vars

-----------------------------------------------------------------------------
Init ==
    /\ now = 0
    /\ cmd = [c \in Cmds |-> NoCmd]
    /\ allowed = {"active", "commands", "screenshots"}
    /\ bucket = {}
    /\ shots = [i \in Images |-> None]
    /\ known = {} /\ done = {}
    /\ req = [r \in Reqs |-> NoReq]

Next ==
    \/ \E r \in Reqs :
        \/ BeginIssue(r) \/ Issue(r)
        \/ BeginTake(r) \/ Take(r) \/ TakeLost(r)
        \/ BeginAck(r) \/ Ack(r)
        \/ BeginShot(r) \/ PutShot(r) \/ Shot(r) \/ ShotFails(r)
        \/ BeginDrop(r) \/ DropImage(r) \/ Drop(r)
    \/ \E c \in Cmds : Cancel(c) \/ Run(c)
    \/ \E what \in {"commands", "screenshots", "active"} : Switch(what)
    \/ Expire \/ Tick \/ List

Spec == Init /\ [][Next]_vars

\* The clock runs and the cron runs; requests, once begun, end.
FairSpec ==
    /\ Spec /\ WF_vars(Tick) /\ WF_vars(Expire)
    /\ \A r \in Reqs : WF_vars(Issue(r)) /\ WF_vars(Take(r) \/ TakeLost(r)) /\ WF_vars(Ack(r))
        /\ WF_vars(PutShot(r)) /\ WF_vars(Shot(r) \/ ShotFails(r))

-----------------------------------------------------------------------------
\* A command that was answered, expired or withdrawn stays as it is, result included (panel:
\* "its acknowledgement will be refused").
ClosedStays == \A c \in Cmds : cmd[c].status \in Closed =>
    cmd'[c].status = cmd[c].status /\ cmd'[c].result = cmd[c].result

\* delivered_at, once it is written, is the first time: no later delivery or answer moves it.
StampedOnce == \A c \in Cmds : cmd[c].delivered # None => cmd'[c].delivered = cmd[c].delivered

\* The image of a command arrives, whatever became of the command meanwhile.
ImageArrives(c) == cmd[c].kind = "screenshot" /\ cmd'[c].status = "succeeded" /\ cmd'[c].result \in Images

\* What is true of every step, whoever delivers, answers, withdraws and expires meanwhile
\* (services/commands.ts): a stamp stays, and so does a command that ended, unless its image arrives.
AnswersStand == [][
    /\ StampedOnce
    /\ \A c \in Cmds : cmd[c].status \in Closed =>
         (cmd'[c].status = cmd[c].status /\ cmd'[c].result = cmd[c].result) \/ ImageArrives(c)]_vars

\* What the device was handed has delivered_at.
HandedIsStamped == \A c \in known : cmd[c].delivered # None

\* So it has while it may still be answered.
OpenIsStamped == \A c \in known : cmd[c].status \in Open => cmd[c].delivered # None

\* No acknowledgement is recorded for a command past its expiry.
LateIsRefused == [][\A c \in Cmds : cmd[c].status \in Open /\ cmd[c].expires <= now =>
    cmd'[c].result # "device"]_vars

\* The image of a row can be shown, unless the row is being deleted.
RowsHaveImages == \A i \in Images : shots[i] # None =>
    i \in bucket \/ \E r \in Reqs : req[r].duty = "drop" /\ req[r].image = i

\* With nothing in flight, every image kept has the row it is found, shown and deleted by.
ImagesAccounted == (\A r \in Reqs : req[r].duty \notin {"shot", "drop"}) =>
    bucket \subseteq {i \in Images : shots[i] # None}

\* Every command is answered, withdrawn or expired in the end, whether the device ever comes or not.
EveryCommandEnds == \A c \in Cmds : cmd[c].status \in Open => cmd[c].expires > MaxTime

=============================================================================
