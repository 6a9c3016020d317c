------------------------- MODULE MaintenanceApproval -------------------------
(***************************************************************************)
(* One scheduled maintenance of apps/custom-apps from its draft to its     *)
(* window: the panel plans windows and sends the request, the client       *)
(* answers through the links of the emails, and the cron sends again,      *)
(* applies, reminds, starts or cancels.  One tick is 24 hours, the lead    *)
(* and the reminder's; a window lasts one.                                 *)
(***************************************************************************)
EXTENDS Naturals, Sequences, FiniteSets, SequencesExt

CONSTANTS
    Reqs,     \* requests of the panel and of the clients
    Cron,     \* the five-minute cron
    Kinds,    \* bound: kinds planned, of "normal" and "security"
    Horizon,  \* bound: the clock stops there, and every window has ended
    MaxWins,  \* bound: windows created
    MaxLinks, \* bound: links created
    MaxEdits, \* bound: requests
    Duties,   \* bound: what requests do
    Pauses    \* bound: whether the app's state changes

ApprovalAssumption ==
    /\ Horizon \in Nat /\ MaxWins \in Nat /\ MaxLinks \in Nat /\ MaxEdits \in Nat
    /\ Cron \notin Reqs /\ Pauses \in BOOLEAN

VARIABLES row,     \* the row of table maintenances
          windows, \* its rows of maintenance_windows, by position
          links,   \* its rows of maintenance_links, one for each send that reached the client
          paused,  \* pauseOf: the app is suspended, or in grace without maintenances
          now,     \* the clock, in days
          made,    \* counter of the bound: windows created
          edits,   \* counter of the bound
          req      \* requests, and the cron, between two statements

vars == <<row, windows, links, paused, now, made, edits, req>>

Resend == 2
Idle == {"draft", "no_response"}
Statuses == Idle \cup {"none", "pending_approval", "scheduled", "in_progress", "finished", "cancelled"}
Row == [status : Statuses, kind : Kinds, sends : Nat, sentAt : 0 .. Horizon, chosen : 0 .. MaxWins,
        reminded : BOOLEAN]
Window == [id : 1 .. MaxWins, at : 0 .. Horizon]
Link == [send : Nat, expires : 0 .. Horizon, dead : BOOLEAN, answer : {"none", "approved", "rejected"}]
Req == [duty : {"none", "add", "move", "remove", "patch", "delete", "send", "security", "approve", "reject",
                "apply", "no_response", "cancel", "remind", "start", "finish"},
        at : {"none", "read", "mailed", "closing"}, was : Statuses, sends : Nat, when : 0 .. Horizon,
        win : Window \cup {[id |-> 0, at |-> 0]}, kind : Kinds, link : 0 .. MaxLinks]
Blank(k) == [duty |-> "none", at |-> "none", was |-> "none", sends |-> 0, when |-> 0,
             win |-> [id |-> 0, at |-> 0], kind |-> k, link |-> 0]
NoReq == Blank(CHOOSE k \in Kinds : TRUE)

TypeOK ==
    /\ row \in Row
    /\ windows \in Seq(Window) /\ links \in Seq(Link)
    /\ paused \in BOOLEAN /\ now \in 0 .. Horizon
    /\ made \in 0 .. MaxWins /\ edits \in 0 .. MaxEdits
    /\ req \in [Reqs \cup {Cron} -> Req]

At(q, duty, at) == req[q].duty = duty /\ req[q].at = at
End(q) == req' = [req EXCEPT ![q] = NoReq]
Idling(q, duty) == /\ duty \in Duties /\ req[q] = NoReq /\ row.status # "none"
                   /\ edits < MaxEdits /\ edits' = edits + 1
Ask(duty) == [NoReq EXCEPT !.duty = duty, !.at = "read", !.was = row.status, !.sends = row.sends, !.when = now]
Begin(q, r) == req' = [req EXCEPT ![q] = r] /\ UNCHANGED <<row, windows, links, paused, now>>
Of(id) == SelectSeq(windows, LAMBDA w : w.id = id)
Starts == {w.at : w \in ToSet(windows)}
Ends(w) == w.at + 1

-----------------------------------------------------------------------------
\* The panel: planning.

FaultyEditable == row.status \notin {"in_progress", "finished", "cancelled"}

\* assertEditable: a draft, or one nobody answered.
Editable == row.status \in Idle

\* checkWindow: neither starts within the other.
Apart(w, v) == Ends(w) <= v.at \/ Ends(v) <= w.at

\* POST and PATCH .../windows: in the future and apart from the others read; the maintenance is editable.
BeginWindow(q, duty) ==
    /\ Idling(q, duty) /\ Editable
    /\ \E at \in now + 1 .. Horizon - 1 :
        \/ /\ duty = "add" /\ made < MaxWins /\ made' = made + 1
           /\ \A v \in ToSet(windows) : Apart([id |-> 0, at |-> at], v)
           /\ Begin(q, [Ask(duty) EXCEPT !.win = [id |-> made + 1, at |-> at]])
        \/ /\ duty = "move" /\ UNCHANGED made
           /\ \E w \in ToSet(windows) :
                /\ \A v \in ToSet(windows) \ {w} : Apart([w EXCEPT !.at = at], v)
                /\ Begin(q, [Ask(duty) EXCEPT !.win = [w EXCEPT !.at = at]])

AddWindow(q) ==
    /\ At(q, "add", "read") /\ row.status # "none"
    /\ \E i \in 1 .. Len(windows) + 1 : windows' = InsertAt(windows, i, req[q].win)
    /\ End(q) /\ UNCHANGED <<row, links, paused, now, made, edits>>

MoveWindow(q) ==
    /\ At(q, "move", "read")
    /\ LET others == SelectSeq(windows, LAMBDA w : w.id # req[q].win.id) IN
       IF Of(req[q].win.id) = <<>> THEN UNCHANGED windows
       ELSE \E i \in 1 .. Len(windows) : windows' = InsertAt(others, i, req[q].win)
    /\ End(q) /\ UNCHANGED <<row, links, paused, now, made, edits>>

\* DELETE .../windows/:windowId
BeginRemove(q) ==
    /\ Idling(q, "remove") /\ Editable /\ UNCHANGED made
    /\ \E w \in ToSet(windows) : Begin(q, [Ask("remove") EXCEPT !.win = w])

RemoveWindow(q) ==
    /\ At(q, "remove", "read")
    /\ windows' = SelectSeq(windows, LAMBDA w : w.id # req[q].win.id)
    /\ End(q) /\ UNCHANGED <<row, links, paused, now, made, edits>>

\* PATCH /maintenances/:id, of which the kind matters here
BeginPatch(q) ==
    /\ Idling(q, "patch") /\ Editable /\ UNCHANGED made
    /\ \E k \in Kinds : Begin(q, [Ask("patch") EXCEPT !.kind = k])

Patch(q) ==
    /\ At(q, "patch", "read")
    /\ row' = [row EXCEPT !.kind = req[q].kind]
    /\ End(q) /\ UNCHANGED <<windows, links, paused, now, made, edits>>

\* DELETE /maintenances/:id: its windows and links go with it.
BeginDelete(q) ==
    /\ Idling(q, "delete") /\ row.status \in {"draft", "cancelled"} /\ UNCHANGED made
    /\ Begin(q, Ask("delete"))

Delete(q) ==
    /\ At(q, "delete", "read")
    /\ row' = [row EXCEPT !.status = "none"] /\ windows' = <<>> /\ links' = <<>>
    /\ End(q) /\ UNCHANGED <<paused, now, made, edits>>

-----------------------------------------------------------------------------
\* The panel: sending, scheduling and cancelling.

\* POST .../send, of an editable one, and .../resend, of one that waits: no window has started.
BeginSend(q) ==
    /\ Idling(q, "send") /\ UNCHANGED made
    /\ \/ Editable /\ row.kind = "normal"
       \/ row.status = "pending_approval"
    /\ ~ paused /\ windows # <<>> /\ \A at \in Starts : at > now
    /\ Begin(q, Ask("send"))

\* sendRequest creates the link with the next number and mails it, or tells that it could not,
Mail(q) ==
    /\ At(q, "send", "read")
    /\ \/ /\ Len(links) < MaxLinks /\ windows # <<>>
          /\ links' = Append(links, [send |-> Len(links) + 1, answer |-> "none", dead |-> FALSE,
                 expires |-> CHOOSE at \in Starts : \A x \in Starts : at <= x])
          /\ req' = [req EXCEPT ![q].at = "mailed", ![q].link = Len(links) + 1]
       \/ End(q) /\ UNCHANGED links
    /\ UNCHANGED <<row, windows, paused, now, made, edits>>

\* and then closes the earlier links and waits for the client, whatever happened meanwhile.
Sent(q) ==
    /\ At(q, "send", "mailed")
    /\ links' = [i \in DOMAIN links |-> IF i < req[q].link THEN [links[i] EXCEPT !.dead = TRUE] ELSE links[i]]
    /\ row' = IF row.status = "none" THEN row
              ELSE [row EXCEPT !.status = "pending_approval", !.sentAt = req[q].when,
                       !.sends = (IF req[q].was = "pending_approval" THEN req[q].sends ELSE 0) + 1]
    /\ End(q) /\ UNCHANGED <<windows, paused, now, made, edits>>

\* POST .../schedule, of a security patch: its one window replaces those offered.
BeginSecurity(q) ==
    /\ Idling(q, "security") /\ Editable /\ row.kind = "security" /\ ~ paused
    /\ made < MaxWins /\ made' = made + 1
    /\ \E at \in now + 1 .. Horizon - 1 :
        Begin(q, [Ask("security") EXCEPT !.win = [id |-> made + 1, at |-> at]])

ReplaceWindows(q) ==
    /\ At(q, "security", "read")
    /\ windows' = <<req[q].win>>
    /\ req' = [req EXCEPT ![q].at = "mailed"]
    /\ UNCHANGED <<row, links, paused, now, made, edits>>

\* POST .../cancel
BeginCancel(q) ==
    /\ Idling(q, "cancel") /\ row.status \in Idle \cup {"pending_approval", "scheduled"} /\ UNCHANGED made
    /\ Begin(q, Ask("cancel"))

-----------------------------------------------------------------------------
\* The client.

LinkState(l) ==
    IF l.answer # "none" THEN "answered"
    ELSE IF row.status # "pending_approval" THEN "closed"
    ELSE IF l.dead THEN "superseded"
    ELSE IF now >= l.expires THEN "expired" ELSE "open"

\* POST .../approve, of a window still in the future, and .../reject, through an open link
BeginAnswer(q, duty) ==
    /\ Idling(q, duty) /\ UNCHANGED made
    /\ \E i \in DOMAIN links :
        /\ LinkState(links[i]) = "open"
        /\ IF duty = "reject" THEN Begin(q, [Ask(duty) EXCEPT !.link = i])
           ELSE \E w \in ToSet(windows) : w.at > now /\ Begin(q, [Ask(duty) EXCEPT !.link = i, !.win = w])

-----------------------------------------------------------------------------
\* The cron.

FaultyExpired == windows = <<>>

\* A request whose first window started, or that lost its windows, cannot be answered any more.
Expired == windows = <<>> \/ \E at \in Starts : at <= now

Due == now >= row.sentAt + Resend

\* firstEligibleWindow, by position
Eligible == SelectSeq(windows, LAMBDA w : w.at >= now + 1)

CronPending ==
    IF paused THEN (IF Expired THEN {Ask("cancel")} ELSE {})
    ELSE IF Expired \/ (Due /\ row.sends >= 2)
         THEN {IF Eligible = <<>> THEN Ask("no_response") ELSE [Ask("apply") EXCEPT !.win = Head(Eligible)]}
    ELSE IF Due THEN {Ask("send")} ELSE {}

CronScheduled(w) ==
    IF paused THEN (IF now >= w.at THEN {Ask("cancel")} ELSE {})
    ELSE IF now >= Ends(w) THEN {Ask("cancel")}
    ELSE IF now >= w.at THEN {Ask("start")}
    ELSE IF ~ row.reminded /\ now + 1 >= w.at THEN {Ask("remind")} ELSE {}

\* runMaintenances reads the row and its windows, and what is to be done with it now.
Run ==
    /\ req[Cron] = NoReq
    /\ \E r \in IF row.status = "pending_approval" THEN CronPending
                ELSE UNION {IF row.status = "scheduled" THEN CronScheduled(w)
                            ELSE IF row.status = "in_progress" /\ now >= Ends(w) THEN {Ask("finish")} ELSE {}
                            : w \in ToSet(Of(row.chosen))} :
        Begin(Cron, r)
    /\ UNCHANGED <<made, edits>>

-----------------------------------------------------------------------------
\* What a request or the cron writes after it read the row.

FaultyUnmoved(q) == row.status # "none"

\* The compare-and-swap on the status read.
Unmoved(q) == row.status = req[q].was

FaultyWrites == [approve |-> "approved", apply |-> "scheduled", security |-> "scheduled", reject |-> "draft",
                 no_response |-> "no_response", cancel |-> "cancelled", start |-> "in_progress",
                 finish |-> "finished", remind |-> "scheduled"]

\* The status each of them writes.
Writes == [approve |-> "scheduled", apply |-> "scheduled", security |-> "scheduled", reject |-> "draft",
           no_response |-> "no_response", cancel |-> "cancelled", start |-> "in_progress", finish |-> "finished",
           remind |-> "scheduled"]
Closes == {"approve", "apply", "security", "reject", "no_response", "cancel"}

\* markScheduled, the rejection, autoApply, cancelMaintenance, remind, start and finish
Write(q) ==
    /\ req[q].duty \in DOMAIN Writes /\ req[q].at = (IF req[q].duty = "security" THEN "mailed" ELSE "read")
    /\ LET duty == req[q].duty
           scheduled == duty \in {"approve", "apply", "security"}
       IN IF Unmoved(q) /\ (duty = "remind" => ~ row.reminded)
          THEN /\ row' = [row EXCEPT !.status = Writes[duty],
                     !.chosen = IF scheduled THEN req[q].win.id ELSE @,
                     !.sends = IF duty = "security" THEN 0 ELSE @,
                     !.reminded = IF scheduled THEN FALSE ELSE IF duty = "remind" THEN TRUE ELSE @]
               /\ IF duty \in Closes THEN req' = [req EXCEPT ![q].at = "closing"] ELSE End(q)
          ELSE UNCHANGED row /\ End(q)
    /\ UNCHANGED <<windows, links, paused, now, made, edits>>

\* invalidateLinks, and the answer on the link it came through
Close(q) ==
    /\ req[q].at = "closing"
    /\ links' = [i \in DOMAIN links |->
           [links[i] EXCEPT !.dead = TRUE,
               !.answer = IF i = req[q].link
                          THEN (IF req[q].duty = "approve" THEN "approved" ELSE "rejected") ELSE @]]
    /\ End(q) /\ UNCHANGED <<row, windows, paused, now, made, edits>>

\* The app is suspended, falls into grace, or is active again.
SetPause == Pauses /\ paused' = ~ paused /\ UNCHANGED <<row, windows, links, now, made, edits, req>>

\* A request does not last a day.
Tick ==
    /\ now < Horizon /\ now' = now + 1
    /\ \A q \in Reqs \cup {Cron} : req[q] = NoReq \/ req[q].when = now
    /\ UNCHANGED <<row, windows, links, paused, made, edits, req>>

\* GET: maintenances, windows, suggestions, installations and the page of a link.
List == UNCHANGED vars

-----------------------------------------------------------------------------
Init ==
    /\ \E k \in Kinds : row = [status |-> "draft", kind |-> k, sends |-> 0, sentAt |-> 0, chosen |-> 0,
                               reminded |-> FALSE]
    /\ windows = <<>> /\ links = <<>>
    /\ paused = FALSE /\ now = 0 /\ made = 0 /\ edits = 0
    /\ req = [q \in Reqs \cup {Cron} |-> NoReq]

Continue(q) ==
    \/ AddWindow(q) \/ MoveWindow(q) \/ RemoveWindow(q) \/ Patch(q) \/ Delete(q)
    \/ Mail(q) \/ Sent(q) \/ ReplaceWindows(q) \/ Write(q) \/ Close(q)

Next ==
    \/ \E q \in Reqs :
        \/ BeginWindow(q, "add") \/ BeginWindow(q, "move") \/ BeginRemove(q) \/ BeginPatch(q) \/ BeginDelete(q)
        \/ BeginSend(q) \/ BeginSecurity(q) \/ BeginCancel(q)
        \/ BeginAnswer(q, "approve") \/ BeginAnswer(q, "reject")
    \/ \E q \in Reqs \cup {Cron} : Continue(q)
    \/ Run \/ SetPause \/ Tick \/ List

Spec == Init /\ [][Next]_vars

\* Time passes, the cron runs every five minutes, and what has begun ends.
FairSpec ==
    /\ Spec /\ WF_vars(Tick) /\ WF_vars(Run)
    /\ \A q \in Reqs \cup {Cron} : WF_vars(Continue(q))

-----------------------------------------------------------------------------
\* A request that waits for the client, and a window that was fixed, come to an end: answered, applied,
\* given up, started or cancelled, although no mail arrives and nobody answers: once requests stop, it is.
Concluded == row.status \notin {"pending_approval", "scheduled", "in_progress"}

\* Two answers, or an answer and the cron, schedule it once.
ScheduledOnce == row.status = "scheduled" /\ row'.status = "scheduled" => row'.chosen = row.chosen

\* Once answered or cancelled, it does not wait for the client again unless it is sent again.
AnswerStands == [][row.status \in {"scheduled", "cancelled"} => row'.status # "pending_approval"]_vars

\* The window it runs in is one of its windows.
ChosenStands == row.status \in {"scheduled", "in_progress"} => \E w \in ToSet(windows) : w.id = row.chosen

\* No two windows of a maintenance overlap.
WindowsApart == \A w, v \in ToSet(windows) : w.id # v.id => w.at .. Ends(w) - 1 \cap v.at .. Ends(v) - 1 = {}

\* An answer is taken only through a link that no later send replaced.
SupersededIsClosed == [][\A q \in Reqs : req[q].duty \in {"approve", "reject"} /\ req'[q].at = "closing" =>
    ~ links[req[q].link].dead]_vars

\* What the client was asked, or what was scheduled, is not deleted.
HistoryStays == [][row'.status = "none" => row.status \in {"none", "draft", "cancelled"}]_vars

=============================================================================
