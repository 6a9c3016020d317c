--------------------------- MODULE MaintenanceRuns ---------------------------
(***************************************************************************)
(* The window of scheduled maintenances of apps/custom-apps: the cron      *)
(* reminds, starts and evaluates them, the panel closes them by hand, and  *)
(* each of those puts the app state of installations and one release the   *)
(* maintenances share somewhere and back, in several statements, while     *)
(* editors change the same rows and devices follow their offers.           *)
(***************************************************************************)
EXTENDS Naturals, FiniteSets

CONSTANTS
    Maints,   \* scheduled maintenances of one app
    Devices,  \* its installations, all on the release's line
    Cron,     \* the cron: one row at a time
    Panel,    \* requests of the panel
    MaxEdits, \* bound: requests of the panel and edits of editors
    Duties    \* bound: what happens

RunsAssumption == MaxEdits \in Nat /\ Cron \notin Panel

VARIABLES mnt,    \* the rows of maintenances, with result_detail
          over,   \* installations.state_override
          hand,   \* history: what an editor set last
          rel,    \* the release: status and reach
          has,    \* whether a device runs the release
          pin,    \* installations.rollback_to_version, below the release
          told,   \* what each device reported of the release since each start
          notice, \* in-app notices still shown
          logs,   \* work logs of each maintenance
          edits,  \* counter of the bound
          req     \* the cron and requests, between two statements

vars == <<mnt, over, hand, rel, has, pin, told, notice, logs, edits, req>>
device == <<has, pin, told>>

Overrides == {"none", "maintenance", "suspended"}
Ended == {"completed", "failed", "cancelled"}
Detail == [on : SUBSET Devices, previous : [Devices -> Overrides], targets : SUBSET Devices, published : BOOLEAN]
NoDetail == [on |-> {}, previous |-> [d \in Devices |-> "none"], targets |-> {}, published |-> FALSE]
Mnt == [status : {"scheduled", "in_progress"} \cup Ended, named : SUBSET Devices, ships : BOOLEAN,
        reminded : BOOLEAN, detail : Detail]
RelStatuses == {"draft", "published", "paused", "withdrawn"}
Rel == [status : RelStatuses, whole : BOOLEAN, reach : SUBSET Devices]
Req == [duty : {"none", "remind", "start", "complete", "fail"}, at : {"none", "read", "claimed", "restored"},
        of : Maints \cup {"none"}, detail : Detail, rel : Rel]
NoReq == [duty |-> "none", at |-> "none", of |-> "none", detail |-> NoDetail,
          rel |-> [status |-> "draft", whole |-> FALSE, reach |-> {}]]

TypeOK ==
    /\ mnt \in [Maints -> Mnt]
    /\ over \in [Devices -> Overrides] /\ hand \in [Devices -> Overrides]
    /\ rel \in Rel /\ has \in [Devices -> BOOLEAN] /\ pin \in [Devices -> BOOLEAN]
    /\ told \in [Maints -> [Devices -> SUBSET {"health_ok", "rolled_back"}]]
    /\ notice \in [Maints -> BOOLEAN] /\ logs \in [Maints -> 0 .. 2] /\ edits \in 0 .. MaxEdits
    /\ req \in [{Cron} \cup Panel -> Req]

At(q, duty, at) == req[q].duty = duty /\ req[q].at = at
Closing(q, at) == At(q, "complete", at) \/ At(q, "fail", at)
End(q) == req' = [req EXCEPT ![q] = NoReq]
Begin(q, duty, m, detail) ==
    /\ req[q] = NoReq
    /\ req' = [req EXCEPT ![q] = [duty |-> duty, at |-> "read", of |-> m, detail |-> detail, rel |-> rel]]
Edit == edits < MaxEdits /\ edits' = edits + 1
Status(m) == mnt[m].status

-----------------------------------------------------------------------------
\* The reminder claims the row,
RemindClaim(m) ==
    /\ "remind" \in Duties /\ req[Cron] = NoReq
    /\ Status(m) = "scheduled" /\ ~ mnt[m].reminded
    /\ mnt' = [mnt EXCEPT ![m].reminded = TRUE]
    /\ req' = [req EXCEPT ![Cron] = [NoReq EXCEPT !.duty = "remind", !.at = "claimed", !.of = m]]
    /\ UNCHANGED <<over, hand, rel, device, notice, logs, edits>>

\* mails it, and posts the in-app notice.
RemindPost ==
    /\ At(Cron, "remind", "claimed")
    /\ notice' = [notice EXCEPT ![req[Cron].of] = TRUE]
    /\ End(Cron) /\ UNCHANGED <<mnt, over, hand, rel, device, logs, edits>>

\* POST .../cancel, of a scheduled one
Cancel(m) ==
    /\ "cancel" \in Duties /\ Edit /\ Status(m) = "scheduled"
    /\ mnt' = [mnt EXCEPT ![m].status = "cancelled"]
    /\ notice' = [notice EXCEPT ![m] = FALSE]
    /\ UNCHANGED <<over, hand, rel, device, logs, req>>

-----------------------------------------------------------------------------
FaultyPrevious(d) == "maintenance"

FaultyPreviousActive(d) == "active"

\* The override a maintenance will restore.
Previous(d) == over[d]

\* start reads the release, the installations included and their overrides,
StartRead(m) ==
    /\ Status(m) = "scheduled"
    /\ mnt[m].ships => rel.status \in {"draft", "published"}
    /\ LET on == {d \in mnt[m].named : over[d] # "suspended"} IN
       Begin(Cron, "start", m,
           [on |-> on, previous |-> [d \in Devices |-> IF d \in on THEN Previous(d) ELSE "none"],
            targets |-> IF mnt[m].ships THEN {d \in on : ~ has[d]} ELSE {},
            published |-> mnt[m].ships /\ rel.status = "draft"])
    /\ UNCHANGED <<mnt, over, hand, rel, device, notice, logs, edits>>

\* claims the row with what it will have to undo,
StartClaim ==
    /\ At(Cron, "start", "read")
    /\ LET m == req[Cron].of IN
       IF Status(m) = "scheduled"
       THEN /\ mnt' = [mnt EXCEPT ![m].status = "in_progress", ![m].detail = req[Cron].detail]
            /\ told' = [told EXCEPT ![m] = [d \in Devices |-> {}]]
            /\ req' = [req EXCEPT ![Cron].at = "claimed"]
       ELSE End(Cron) /\ UNCHANGED <<mnt, told>>
    /\ UNCHANGED <<over, hand, rel, has, pin, notice, logs, edits>>

FaultyOpened(m, detail) == [status |-> "published", whole |-> TRUE, reach |-> detail.targets]

\* A draft is published to the targets alone, if it is a draft still; a published one gets them added
\* to the reach that was read.
Opened(m, detail) ==
    IF ~ mnt[m].ships THEN rel
    ELSE IF detail.published
         THEN IF rel.status = "draft" THEN [status |-> "published", whole |-> FALSE, reach |-> detail.targets] ELSE rel
    ELSE IF detail.targets \subseteq req[Cron].rel.reach THEN rel
         ELSE [rel EXCEPT !.reach = req[Cron].rel.reach \cup detail.targets]

\* and puts the installations in maintenance and the release within their reach.
StartApply ==
    /\ At(Cron, "start", "claimed")
    /\ LET detail == req[Cron].detail IN
       /\ over' = [d \in Devices |-> IF d \in detail.on THEN "maintenance" ELSE over[d]]
       /\ rel' = Opened(req[Cron].of, detail)
    /\ End(Cron) /\ UNCHANGED <<mnt, hand, device, notice, logs, edits>>

\* A release paused or withdrawn since it was planned fails the maintenance.
StartUnavailable(m) ==
    /\ Status(m) = "scheduled" /\ mnt[m].ships /\ rel.status \in {"paused", "withdrawn"}
    /\ req[Cron] = NoReq
    /\ mnt' = [mnt EXCEPT ![m].status = "failed"]
    /\ notice' = [notice EXCEPT ![m] = FALSE]
    /\ UNCHANGED <<over, hand, rel, device, logs, edits, req>>

-----------------------------------------------------------------------------
\* healthOf: every target reported health_ok, and none went back.
Healthy(m) == \A d \in mnt[m].detail.targets : told[m][d] = {"health_ok"}

\* The cron evaluates it after its window, or an editor closes it by hand.
CloseRead(q, m) ==
    /\ Status(m) = "in_progress"
    /\ \E duty \in {"complete", "fail"} :
        /\ IF q = Cron THEN (duty = "complete") = Healthy(m) /\ UNCHANGED edits
           ELSE "close" \in Duties /\ Edit
        /\ Begin(q, duty, m, mnt[m].detail)
    /\ UNCHANGED <<mnt, over, hand, rel, device, notice, logs>>

FaultyClaims(q) == Status(req[q].of) # "scheduled"

\* The compare-and-swap of finish.
Claims(q) == Status(req[q].of) = "in_progress"

\* finish claims the end of it,
CloseClaim(q) ==
    /\ Closing(q, "read")
    /\ IF Claims(q)
       THEN /\ mnt' = [mnt EXCEPT ![req[q].of].status = IF req[q].duty = "complete" THEN "completed" ELSE "failed"]
            /\ req' = [req EXCEPT ![q].at = "claimed"]
       ELSE End(q) /\ UNCHANGED mnt
    /\ UNCHANGED <<over, hand, rel, device, notice, logs, edits>>

\* restores the overrides that still say maintenance, ends the notices,
CloseRestore(q) ==
    /\ Closing(q, "claimed")
    /\ LET detail == req[q].detail IN
       over' = [d \in Devices |-> IF d \in detail.on /\ over[d] = "maintenance" THEN detail.previous[d] ELSE over[d]]
    /\ notice' = [notice EXCEPT ![req[q].of] = FALSE]
    /\ req' = [req EXCEPT ![q].at = "restored", ![q].rel = rel]
    /\ UNCHANGED <<mnt, hand, rel, device, logs, edits>>

\* logs the work of a completed one,
CloseLog(q) ==
    /\ At(q, "complete", "restored")
    /\ logs' = [logs EXCEPT ![req[q].of] = @ + 1]
    /\ End(q) /\ UNCHANGED <<mnt, over, hand, rel, device, notice, edits>>

FaultyExclusive(detail, was) == detail.published /\ ~ was.whole

\* Only this maintenance has the release: it published it, and it reaches nobody else.
Exclusive(detail, was) == detail.published /\ ~ was.whole /\ was.reach \subseteq detail.targets

FaultyPinned(detail) == {}

\* The targets, all of which had a version before.
Pinned(detail) == detail.targets

\* and of a failed one withdraws the release, or pauses it and sends the targets back; if it is still
\* in the status that was read.
CloseSettle(q) ==
    /\ At(q, "fail", "restored")
    /\ LET detail == req[q].detail
           was == req[q].rel
       IN IF mnt[req[q].of].ships /\ was.status \in {"published", "paused"} /\ rel.status = was.status
          THEN IF Exclusive(detail, was)
               THEN rel' = [rel EXCEPT !.status = "withdrawn"] /\ UNCHANGED pin
               ELSE /\ rel' = [rel EXCEPT !.status = "paused", !.reach = was.reach \ detail.targets]
                    /\ pin' = [d \in Devices |-> pin[d] \/ d \in Pinned(detail)]
          ELSE UNCHANGED <<rel, pin>>
    /\ End(q) /\ UNCHANGED <<mnt, over, hand, has, told, notice, logs, edits>>

\* An invocation is cut short between two statements.
Cut(q) ==
    /\ "cut" \in Duties /\ Edit /\ req[q] # NoReq /\ req[q].at # "read"
    /\ End(q) /\ UNCHANGED <<mnt, over, hand, rel, device, notice, logs>>

-----------------------------------------------------------------------------
\* PATCH /installations/:id sets or clears an override by hand.
SetOverride(d) ==
    /\ "override" \in Duties /\ Edit
    /\ \E o \in {"none", "suspended"} : over' = [over EXCEPT ![d] = o] /\ hand' = [hand EXCEPT ![d] = o]
    /\ UNCHANGED <<mnt, rel, device, notice, logs, req>>

\* POST /releases/:id/rollout
Rollout ==
    /\ "rollout" \in Duties /\ Edit /\ rel.status \in {"published", "paused"}
    /\ \E whole \in BOOLEAN, reach \in SUBSET Devices : rel' = [rel EXCEPT !.whole = whole, !.reach = reach]
    /\ UNCHANGED <<mnt, over, hand, device, notice, logs, req>>

Reaches(d) == rel.whole \/ d \in rel.reach

\* A device installs the release it is offered.
Install(d) ==
    /\ ~ has[d] /\ rel.status = "published" /\ Reaches(d)
    /\ has' = [has EXCEPT ![d] = TRUE] /\ pin' = [pin EXCEPT ![d] = FALSE]
    /\ UNCHANGED <<mnt, over, hand, rel, told, notice, logs, edits, req>>

\* It goes back: the release was withdrawn, or it is pinned below it.
Back(d) ==
    /\ has[d] /\ (rel.status = "withdrawn" \/ pin[d])
    /\ has' = [has EXCEPT ![d] = FALSE] /\ pin' = [pin EXCEPT ![d] = FALSE]
    /\ UNCHANGED <<mnt, over, hand, rel, told, notice, logs, edits, req>>

\* It reports that it is healthy, or that it went back by itself.
Report(d) ==
    /\ has[d]
    /\ \E said \in {"health_ok", "rolled_back"} :
        /\ told' = [m \in Maints |-> IF Status(m) = "scheduled" THEN told[m]
                                     ELSE [told[m] EXCEPT ![d] = @ \cup {said}]]
        /\ has' = [has EXCEPT ![d] = said = "health_ok"]
    /\ UNCHANGED <<mnt, over, hand, rel, pin, notice, logs, edits, req>>

\* GET: the installations included and the counts of the overview.
List == UNCHANGED vars

-----------------------------------------------------------------------------
Init ==
    /\ mnt \in [Maints -> {[status |-> "scheduled", named |-> ds, ships |-> s, reminded |-> FALSE, detail |-> NoDetail] :
                               ds \in (SUBSET Devices) \ {{}}, s \in BOOLEAN}]
    /\ over = [d \in Devices |-> "none"] /\ hand = over
    /\ rel = [status |-> "draft", whole |-> FALSE, reach |-> {}]
    /\ has = [d \in Devices |-> FALSE] /\ pin = has
    /\ told = [m \in Maints |-> [d \in Devices |-> {}]]
    /\ notice = [m \in Maints |-> FALSE] /\ logs = [m \in Maints |-> 0]
    /\ edits = 0 /\ req = [q \in {Cron} \cup Panel |-> NoReq]

Continue(q) == CloseClaim(q) \/ CloseRestore(q) \/ CloseLog(q) \/ CloseSettle(q)

Next ==
    \/ \E m \in Maints : RemindClaim(m) \/ Cancel(m) \/ StartRead(m) \/ StartUnavailable(m)
    \/ RemindPost \/ StartClaim \/ StartApply
    \/ \E q \in {Cron} \cup Panel : Continue(q) \/ Cut(q) \/ \E m \in Maints : CloseRead(q, m)
    \/ \E d \in Devices : SetOverride(d) \/ Install(d) \/ Back(d) \/ Report(d)
    \/ Rollout \/ List

Spec == Init /\ [][Next]_vars

\* Finishing goes on once begun, and devices follow their offers.
FairSpec ==
    /\ Spec
    /\ \A q \in {Cron} \cup Panel : WF_vars(Continue(q))
    /\ \A d \in Devices : WF_vars(Back(d))

-----------------------------------------------------------------------------
\* The work of a maintenance is logged at most once, and only of a completed one.
LoggedOnce == \A m \in Maints : logs[m] <= 1 /\ (logs[m] = 1 => Status(m) = "completed")

\* Nobody outside the maintenances runs the release because of them.
OutsidersUntouched == \A d \in Devices : has[d] => \E m \in Maints : d \in mnt[m].detail.targets

\* Withdrawing for a failed maintenance sends back no device that is not one of its targets, or is on
\* its way back already.
OthersKeepIt == \A q \in {Cron} \cup Panel : At(q, "fail", "restored") /\ rel'.status # rel.status
    /\ rel'.status = "withdrawn" => \A d \in Devices : has[d] => d \in req[q].detail.targets \/ pin[d]

\* A target of a failed maintenance leaves the release in the end.
FailedIsLeft == \A m \in Maints, d \in Devices : Status(m) = "failed" /\ d \in mnt[m].detail.targets => ~ has[d]

\* Once no maintenance of a device runs, it is out of maintenance.
Freed == (\A q \in {Cron} \cup Panel : req[q] = NoReq) =>
    \A d \in Devices : over[d] = "maintenance" =>
        \E m \in Maints : Status(m) = "in_progress" /\ d \in mnt[m].detail.on

\* The installations of a maintenance in progress are in maintenance, unless an editor said otherwise.
RunningIsShown == (\A q \in {Cron} \cup Panel : req[q] = NoReq) =>
    \A m \in Maints : Status(m) = "in_progress" =>
        \A d \in mnt[m].detail.on : over[d] = "maintenance"

\* A suspension set by hand stays until it is lifted by hand.
HandKept == \A d \in Devices : hand[d] = "suspended" => over[d] = "suspended"

\* The in-app notice of a maintenance ends when the maintenance does.
NoticeEnds == (\A q \in {Cron} \cup Panel : req[q] = NoReq) =>
    \A m \in Maints : notice[m] => Status(m) \notin Ended

\* The hours of a completed maintenance are in the work log.
CompletedIsLogged == \A m \in Maints :
    Status(m) = "completed" /\ (\A q \in {Cron} \cup Panel : req[q] = NoReq) => logs[m] = 1

=============================================================================
