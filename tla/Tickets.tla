------------------------------ MODULE Tickets ------------------------------
(***************************************************************************)
(* Support tickets of apps/custom-apps: opened and written on by devices   *)
(* through the ingest Worker, answered from the panel, read back by the    *)
(* device. A message is written in one batch; what is read before it, and  *)
(* what is told and shown after it, are statements of their own.           *)
(***************************************************************************)
EXTENDS Integers, Sequences, FiniteSets

CONSTANTS
    Tickets,     \* the tickets there may be
    Devices,     \* installations of one app
    Requests,    \* requests of devices and of the panel
    None,
    MaxTickets,  \* SUPPORT.maxTicketsPerHour
    MaxMessages, \* SUPPORT.maxMessagesPerHour
    MaxTime,     \* bound: seconds of the clock
    MaxEdits,    \* bound: requests, and what goes wrong
    Together,    \* bound: whether requests overlap
    Duties       \* bound: which of them happen

VARIABLES clock,
          ticket, \* tickets
          msgs,   \* ticket_messages of each ticket, in the order of the inserts
          paused, \* apps: support is off, or paused by the state of the app
          hour,   \* per device: the tickets and the messages of the last hour
          req,    \* requests, between two statements
          edits   \* counter of the bound

vars == <<clock, ticket, msgs, paused, hour, req, edits>>

Statuses == {"open", "pending", "resolved", "closed"}
Finished == {"resolved", "closed"}
Ticket == [device : Devices, number : Nat, status : Statuses, lastBy : {"requester", "staff"}, resolvedAt : BOOLEAN]
\* shown: an answer carried it to the other side, or the one that was to carry it was cut short.
Message == [author : {"requester", "staff"}, at : 0 .. MaxTime, seen : BOOLEAN, shown : {"no", "yes", "lost"}, told : BOOLEAN]
NoReq == [at |-> "none", by |-> None, t |-> None, now |-> 0, len |-> 0, status |-> "open"]

TicketsAssumption ==
    /\ {MaxTime, MaxEdits} \subseteq Nat /\ {MaxTickets, MaxMessages} \subseteq Nat \ {0} /\ Together \in BOOLEAN
    /\ IsFiniteSet(Requests) /\ Requests # {}
    /\ None \notin Ticket

TypeOK ==
    /\ clock \in 0 .. MaxTime /\ paused \in BOOLEAN /\ edits \in 0 .. MaxEdits
    /\ \A t \in Tickets : (ticket[t] # None => ticket[t] \in Ticket) /\ msgs[t] \in Seq(Message)
    /\ hour \in [Devices -> [tickets : Nat, messages : Nat]]
    /\ \A q \in Requests :
         /\ req[q].at \in {"none", "count", "insert", "check", "write", "tell", "mark", "show", "reply"}
         /\ req[q].now \in 0 .. MaxTime /\ req[q].len \in Nat /\ req[q].status \in Statuses

Free(q) == req[q].at = "none" /\ (Together \/ \A p \in Requests : req[p].at = "none")
Edit(what) == what \in Duties /\ edits < MaxEdits /\ edits' = edits + 1
Go(q, r) == req' = [req EXCEPT ![q] = r]
End(q) == Go(q, NoReq)
Move(q, at) == Go(q, [req[q] EXCEPT !.at = at])
Now(q, at) == Go(q, [req[q] EXCEPT !.at = at, !.now = clock])

\* What a reader of the other side has not seen is marked seen.
MarkSeen(ms, author) == [n \in DOMAIN ms |-> IF ms[n].author = author THEN [ms[n] EXCEPT !.seen = TRUE] ELSE ms[n]]
\* What an answer carries to the other side.
ShowUpTo(ms, author, len) ==
    [n \in DOMAIN ms |-> IF ms[n].author = author /\ n <= len THEN [ms[n] EXCEPT !.shown = "yes"] ELSE ms[n]]
NewMessage(author, now) == [author |-> author, at |-> now, seen |-> FALSE, shown |-> "no", told |-> FALSE]
\* What it marked as seen is lost with an answer.
LoseSeen(ms, author) ==
    [n \in DOMAIN ms |-> IF ms[n].author = author /\ ms[n].seen /\ ms[n].shown = "no" THEN [ms[n] EXCEPT !.shown = "lost"] ELSE ms[n]]
Other(side) == IF side = "staff" THEN "requester" ELSE "staff"

-----------------------------------------------------------------------------
\* POST /tickets of the ingest: support is on for the device (requireSupport),
BeginOpen(q, d) ==
    /\ Free(q) /\ ~ paused /\ Edit("open")
    /\ Go(q, [NoReq EXCEPT !.at = "count", !.by = d])
    /\ UNCHANGED <<clock, ticket, msgs, paused, hour>>

FaultyTooMany(n, max) == n > max

\* The limits of SUPPORT, on what was counted over the last hour.
TooMany(n, max) == n >= max

\* it has opened fewer than its limit in the last hour,
OpenCount(q) ==
    /\ req[q].at = "count"
    /\ IF TooMany(hour[req[q].by].tickets, MaxTickets) THEN End(q) ELSE Now(q, "insert")
    /\ UNCHANGED <<clock, ticket, msgs, paused, hour, edits>>

Numbers == {ticket[t].number : t \in {x \in Tickets : ticket[x] # None}}

\* The next number, taken in the insert itself.
Number == IF Numbers = {} THEN 1 ELSE (CHOOSE n \in Numbers : \A m \in Numbers : m <= n) + 1

\* the ticket is inserted with its first message,
OpenInsert(q, t) ==
    LET d == req[q].by IN
    /\ req[q].at = "insert" /\ ticket[t] = None
    /\ ticket' = [ticket EXCEPT ![t] = [device |-> d, number |-> Number, status |-> "open", lastBy |-> "requester", resolvedAt |-> FALSE]]
    /\ msgs' = [msgs EXCEPT ![t] = <<NewMessage("requester", req[q].now)>>]
    /\ hour' = [hour EXCEPT ![d].tickets = @ + 1, ![d].messages = @ + 1]
    /\ Go(q, [req[q] EXCEPT !.at = "tell", !.t = t, !.len = 1])
    /\ UNCHANGED <<clock, paused, edits>>

\* and the account the app's tickets are assigned to is told (notifyAssignee); nobody is where the app has
\* no such account, or the queue refuses the notice, and that is not tried again.
Tell(q) ==
    /\ req[q].at = "tell"
    /\ \/ msgs' = [msgs EXCEPT ![req[q].t][req[q].len].told = TRUE] /\ UNCHANGED edits
       \/ Edit("mail") /\ UNCHANGED msgs
    /\ End(q) /\ UNCHANGED <<clock, ticket, paused, hour>>

FaultyTakesMessages(k) == TRUE

\* A closed ticket takes no more messages.
TakesMessages(k) == k.status # "closed"

\* POST /tickets/:ticketId/messages: support is on, the ticket is the device's own and not closed,
BeginMessage(q, t) ==
    /\ Free(q) /\ ~ paused /\ ticket[t] # None /\ TakesMessages(ticket[t]) /\ Edit("message")
    /\ Go(q, [NoReq EXCEPT !.at = "check", !.by = ticket[t].device, !.t = t])
    /\ UNCHANGED <<clock, ticket, msgs, paused, hour>>

\* the device wrote fewer than its limit in the last hour,
MessageCheck(q) ==
    /\ req[q].at = "check"
    /\ IF TooMany(hour[req[q].by].messages, MaxMessages) THEN End(q) ELSE Now(q, "write")
    /\ UNCHANGED <<clock, ticket, msgs, paused, hour, edits>>

ReopenedStatus(k) == [k EXCEPT !.status = "reopened", !.lastBy = "requester", !.resolvedAt = FALSE]
FaultyWritten(k) == [k EXCEPT !.status = "open", !.lastBy = "requester"]

Written(k) == [k EXCEPT !.status = "open", !.lastBy = "requester", !.resolvedAt = FALSE]

\* and the message and the ticket, open again, are written in one batch.
MessageWrite(q) ==
    LET t == req[q].t IN
    /\ req[q].at = "write"
    /\ ticket' = [ticket EXCEPT ![t] = Written(@)]
    /\ msgs' = [msgs EXCEPT ![t] = Append(@, NewMessage("requester", req[q].now))]
    /\ hour' = [hour EXCEPT ![req[q].by].messages = @ + 1]
    /\ Go(q, [req[q] EXCEPT !.at = "tell", !.len = Len(msgs[t]) + 1])
    /\ UNCHANGED <<clock, paused, edits>>

-----------------------------------------------------------------------------
\* GET /tickets/:ticketId, of the device or of the panel: the ticket is loaded,
BeginGet(q, t, side) ==
    /\ Free(q) /\ ticket[t] # None /\ Edit("get")
    /\ Go(q, [NoReq EXCEPT !.at = "mark", !.by = side, !.t = t, !.len = Len(msgs[t])])
    /\ UNCHANGED <<clock, ticket, msgs, paused, hour>>

\* the other side's messages are marked seen,
GetMark(q) ==
    /\ req[q].at = "mark"
    /\ msgs' = [msgs EXCEPT ![req[q].t] = MarkSeen(@, Other(req[q].by))]
    /\ Move(q, "show")
    /\ UNCHANGED <<clock, ticket, paused, hour, edits>>

FaultyShown(q) == req[q].len

\* Everything there is by then.
Shown(q) == Len(msgs[req[q].t])

\* and then they are read, and answered.
Show(q) ==
    /\ req[q].at = "show"
    /\ msgs' = [msgs EXCEPT ![req[q].t] = ShowUpTo(@, Other(req[q].by), Shown(q))]
    /\ End(q) /\ UNCHANGED <<clock, ticket, paused, hour, edits>>

\* POST /tickets/:ticketId/replies loads the ticket and takes the time,
BeginReply(q, t, status) ==
    /\ Free(q) /\ ticket[t] # None /\ Edit("reply")
    /\ Go(q, [NoReq EXCEPT !.at = "reply", !.by = "staff", !.t = t, !.now = clock, !.status = status])
    /\ UNCHANGED <<clock, ticket, msgs, paused, hour>>

FaultyReplied(k, status) == [k EXCEPT !.status = status, !.resolvedAt = status \in Finished]

Replied(k, status) == [k EXCEPT !.status = status, !.lastBy = "staff", !.resolvedAt = status \in Finished]

\* and writes in one batch: the requester's messages are seen, the reply is added, the ticket waits or is finished.
Reply(q) ==
    LET t == req[q].t IN
    /\ req[q].at = "reply"
    /\ msgs' = [msgs EXCEPT ![t] = Append(MarkSeen(@, "requester"), NewMessage("staff", req[q].now))]
    /\ ticket' = [ticket EXCEPT ![t] = Replied(@, req[q].status)]
    /\ Move(q, "show")
    /\ UNCHANGED <<clock, paused, hour, edits>>

\* PATCH /tickets/:ticketId changes the status in one update.
Patch(q, t, status) ==
    /\ Free(q) /\ ticket[t] # None /\ Edit("patch")
    /\ ticket' = [ticket EXCEPT ![t].status = status, ![t].resolvedAt = status \in Finished]
    /\ UNCHANGED <<clock, msgs, paused, hour, req>>

\* The world: the clock, an hour with nothing new, the app's state, a request cut short.
Tick ==
    /\ "tick" \in Duties /\ clock < MaxTime /\ clock' = clock + 1
    /\ UNCHANGED <<ticket, msgs, paused, hour, req, edits>>

HourPasses ==
    /\ Edit("hour") /\ hour' = [d \in Devices |-> [tickets |-> 0, messages |-> 0]]
    /\ \A q \in Requests : req[q].at = "none"
    /\ UNCHANGED <<clock, ticket, msgs, paused, req>>

Pause == Edit("pause") /\ paused' = ~ paused /\ UNCHANGED <<clock, ticket, msgs, hour, req>>

Cut(q) ==
    /\ req[q].at # "none" /\ Edit("cut") /\ End(q)
    /\ msgs' = IF req[q].at = "show" THEN [msgs EXCEPT ![req[q].t] = LoseSeen(@, Other(req[q].by))] ELSE msgs
    /\ UNCHANGED <<clock, ticket, paused, hour>>

\* GET /tickets lists and changes nothing.
List == UNCHANGED vars

Init ==
    /\ clock = 0 /\ ticket = [t \in Tickets |-> None] /\ msgs = [t \in Tickets |-> <<>>] /\ paused = FALSE
    /\ hour = [d \in Devices |-> [tickets |-> 0, messages |-> 0]] /\ req = [q \in Requests |-> NoReq] /\ edits = 0

Handler(q) ==
    \/ \E d \in Devices : BeginOpen(q, d)
    \/ OpenCount(q) \/ MessageCheck(q) \/ MessageWrite(q) \/ Tell(q) \/ GetMark(q) \/ Show(q) \/ Reply(q)
    \/ \E t \in Tickets :
         \/ OpenInsert(q, t) \/ BeginMessage(q, t)
         \/ \E side \in {"staff", "requester"} : BeginGet(q, t, side)
         \/ \E s \in Statuses \ {"open"} : BeginReply(q, t, s)
         \/ \E s \in Statuses : Patch(q, t, s)

Next ==
    \/ \E q \in Requests : Handler(q) \/ Cut(q)
    \/ Tick \/ HourPasses \/ Pause \/ List

Spec == Init /\ [][Next]_vars

-----------------------------------------------------------------------------
Quiet == \A q \in Requests : req[q].at = "none"

\* A ticket says when it was finished exactly while it is resolved or closed: a message that reopens
\* it, a reply and an edit agree about it in whatever order they come.
FinishedWhenSaid == \A t \in Tickets : ticket[t] # None => (ticket[t].resolvedAt <=> ticket[t].status \in Finished)

\* A message marked as seen was shown to the other side, once the request that marked it is answered,
\* unless that answer was cut short: one that arrives while a ticket is being opened is either shown or
\* still unread, and whatever the desk was not told of is among the unread until it was shown.
SeenWasShown == Quiet => \A t \in Tickets : \A n \in DOMAIN msgs[t] : msgs[t][n].seen => msgs[t][n].shown # "no"

\* Whoever answers the app's tickets is told of every message of a requester.
RequestersHeard ==
    Quiet => \A t \in Tickets : \A n \in DOMAIN msgs[t] : msgs[t][n].author = "requester" => msgs[t][n].told

\* Whose turn it is follows from the last message of the conversation, as it is read: by time, and
\* by insertion within one second.
LastIsLast ==
    \A t \in Tickets : \A n \in DOMAIN msgs[t] :
        (\A m \in DOMAIN msgs[t] \ {n} : msgs[t][m].at < msgs[t][n].at \/ (msgs[t][m].at = msgs[t][n].at /\ m < n))
        => ticket[t].lastBy = msgs[t][n].author

\* A closed ticket takes no more messages of its requester: only the panel opens it again.
ClosedTakesNone ==
    \A t \in Tickets : ticket[t] # None /\ ticket[t].status = "closed" /\ Len(msgs'[t]) > Len(msgs[t])
                          => msgs'[t][Len(msgs'[t])].author = "staff"

\* Where requests overlap, an installation opens, and writes, at most so many more than its hourly limits
\* as there are requests beside one: each of them had been counted before any of them was inserted.
\* A ticket brings its first message, which only the limit of tickets counts.
HourlyLimits ==
    LET beside == Cardinality(Requests) - 1 IN
    \A d \in Devices : /\ hour[d].tickets <= MaxTickets + beside
                       /\ hour[d].messages <= MaxMessages + beside + hour[d].tickets
=============================================================================
