--------------------------- MODULE UpdateReleases ---------------------------
(***************************************************************************)
(* The releases of one line (app, channel, platform) of apps/custom-apps:  *)
(* CI uploads drafts, editors publish, pause, resume, withdraw, roll back  *)
(* and delete them, the cron pauses those that go wrong, and devices take  *)
(* the offer computed for them, report how it went and may come back.      *)
(* Versions are numbers; every device is x86_64, and universal fits it.    *)
(***************************************************************************)
EXTENDS Naturals, FiniteSets

CONSTANTS
    Rels,        \* uploads: identifiers of releases
    Devices,     \* installations
    Reqs,        \* requests of CI and of the panel
    None,        \* the absent value
    Newest,      \* bound: versions are 1 .. Newest
    Arches,      \* bound: architectures uploaded, of "x86_64" and "universal"
    MinSample,   \* RELEASES.pauseMinSample
    PausePercent,\* apps.rollout_pause_rollback_percent
    CrashPercent,\* apps.rollout_pause_crash_percent
    MaxEdits,    \* bound: requests of CI and the panel
    Duties,      \* bound: what happens
    Fickle       \* bound: whether a device may report both a success and a rollback of a release

UpdateAssumption ==
    Newest \in Nat /\ MinSample \in Nat /\ PausePercent \in 1 .. 100 /\ CrashPercent \in 1 .. 100
    /\ MaxEdits \in Nat /\ Fickle \in BOOLEAN

VARIABLES rel,     \* table releases
          bucket,  \* the objects of RELEASES
          reports, \* release_reports and crash_reports: what each device reported of each release
          runs,    \* the version each device runs and the one before
          going,   \* the release a device has a link to
          pin,     \* installations.rollback_to_version
          edits,   \* counter of the bound
          req      \* requests between two statements

vars == <<rel, bucket, reports, runs, going, pin, edits, req>>

Versions == 1 .. Newest
Live == {"published", "paused"}
Rel == [status : {"none", "draft", "withdrawn"} \cup Live, version : 0 .. Newest,
        arch : Arches \cup {None}, reach : SUBSET Devices, auto : BOOLEAN]
NoRel == [status |-> "none", version |-> 0, arch |-> None, reach |-> {}, auto |-> FALSE]
Moves == {"publish", "pause", "resume", "withdraw"}
Req == [duty : Moves \cup {"none", "upload", "rollback", "delete"}, at : {"none", "read", "put", "cleared"},
        it : Rels \cup {None}, was : {"none", "draft", "withdrawn"} \cup Live, newer : SUBSET Rels,
        row : Rel]
NoReq == [duty |-> "none", at |-> "none", it |-> None, was |-> "none", newer |-> {}, row |-> NoRel]

TypeOK ==
    /\ rel \in [Rels -> Rel]
    /\ \A k \in bucket : k \in Rels \cup Versions
    /\ reports \in [Rels -> [Devices -> SUBSET {"installed", "health_ok", "rolled_back", "crashed"}]]
    /\ runs \in [Devices -> [now : 0 .. Newest, before : 0 .. Newest]]
    /\ going \in [Devices -> Rels \cup {None}]
    /\ pin \in [Devices -> 0 .. Newest \cup {None}]
    /\ edits \in 0 .. MaxEdits
    /\ req \in [Reqs -> Req]

Begin(q, duty) ==
    /\ req[q] = NoReq /\ duty \in Duties
    /\ edits < MaxEdits /\ edits' = edits + 1
At(q, duty, at) == req[q].duty = duty /\ req[q].at = at
End(q) == req' = [req EXCEPT ![q] = NoReq]
Version(r) == rel[r].version
devices == <<reports, runs, going, pin>>

-----------------------------------------------------------------------------
\* The row of a line and version there is already: the unique index.
Exists(row) == \E r \in Rels :
    rel[r].status # "none" /\ rel[r].version = row.version /\ rel[r].arch = row.arch

FaultyKey(r, row) == row.version

\* The artifact's object key holds the release's id.
Key(r, row) == r

\* POST /apps/:id/releases/upload checks that the version is new on its line,
BeginUpload(q) ==
    /\ Begin(q, "upload")
    /\ \E r \in Rels, v \in Versions, a \in Arches :
        LET row == [NoRel EXCEPT !.status = "draft", !.version = v, !.arch = a] IN
        /\ rel[r].status = "none" /\ \A p \in Reqs : req[p].it # r
        /\ ~ Exists(row)
        /\ req' = [req EXCEPT ![q] = [NoReq EXCEPT !.duty = "upload", !.at = "read", !.it = r, !.row = row]]
    /\ UNCHANGED <<rel, bucket, devices>>

\* streams the artifact into the bucket,
PutArtifact(q) ==
    /\ At(q, "upload", "read")
    /\ bucket' = bucket \cup {Key(req[q].it, req[q].row)}
    /\ req' = [req EXCEPT ![q].at = "put"]
    /\ UNCHANGED <<rel, edits, devices>>

\* and inserts the draft; a signature that does not verify, or a version that came to exist, deletes
\* the artifact.
Upload(q) ==
    /\ At(q, "upload", "put") /\ ~ Exists(req[q].row)
    /\ rel' = [rel EXCEPT ![req[q].it] = req[q].row]
    /\ End(q)
    /\ UNCHANGED <<bucket, edits, devices>>

Refuse(q) ==
    /\ At(q, "upload", "put")
    /\ bucket' = bucket \ {Key(req[q].it, req[q].row)}
    /\ End(q)
    /\ UNCHANGED <<rel, edits, devices>>

-----------------------------------------------------------------------------
From == [publish |-> {"draft"}, pause |-> {"published"}, resume |-> {"paused"}, withdraw |-> Live]
FaultyTo == [publish |-> "published", pause |-> "paused", resume |-> "published", withdraw |-> "archived"]

\* transition's target statuses.
To == [publish |-> "published", pause |-> "paused", resume |-> "published", withdraw |-> "withdrawn"]

\* transition reads the release and its status,
BeginMove(q, move) ==
    /\ Begin(q, move)
    /\ \E r \in Rels, reach \in SUBSET Devices :
        /\ rel[r].status \in From[move]
        /\ move # "publish" => reach = rel[r].reach
        /\ req' = [req EXCEPT ![q] = [NoReq EXCEPT !.duty = move, !.at = "read", !.it = r,
                        !.was = rel[r].status, !.row = [NoRel EXCEPT !.reach = reach]]]
    /\ UNCHANGED <<rel, bucket, devices>>

FaultyUnmoved(q) == rel[req[q].it].status # "none"

Unmoved(q) == rel[req[q].it].status = req[q].was

\* and writes the new one if it is still that.
Move(q, move) ==
    /\ At(q, move, "read")
    /\ rel' = IF Unmoved(q)
              THEN [rel EXCEPT ![req[q].it] = [@ EXCEPT !.status = To[move], !.auto = FALSE,
                       !.reach = IF move = "publish" THEN req[q].row.reach ELSE @]]
              ELSE rel
    /\ End(q)
    /\ UNCHANGED <<bucket, edits, devices>>

\* POST /releases/:id/rollout: the reach of a live release.
Rollout ==
    /\ "rollout" \in Duties /\ edits < MaxEdits /\ edits' = edits + 1
    /\ \E r \in Rels, reach \in SUBSET Devices :
        rel[r].status \in Live /\ rel' = [rel EXCEPT ![r].reach = reach]
    /\ UNCHANGED <<bucket, devices, req>>

\* POST /releases/:id/rollback reads the target and the live ones above it,
BeginRollback(q) ==
    /\ Begin(q, "rollback")
    /\ \E r \in Rels :
        /\ rel[r].status \in Live \cup {"withdrawn"}
        /\ req' = [req EXCEPT ![q] = [NoReq EXCEPT !.duty = "rollback", !.at = "read", !.it = r,
               !.newer = {n \in Rels : rel[n].status \in Live /\ rel[n].arch = rel[r].arch /\ Version(n) > Version(r)}]]
    /\ UNCHANGED <<rel, bucket, devices>>

\* publishes the target to the whole line and withdraws those.
Rollback(q) ==
    /\ At(q, "rollback", "read")
    /\ rel' = [r \in Rels |->
           IF r = req[q].it THEN [rel[r] EXCEPT !.status = "published", !.reach = Devices, !.auto = FALSE]
           ELSE IF r \in req[q].newer THEN [rel[r] EXCEPT !.status = "withdrawn", !.auto = FALSE] ELSE rel[r]]
    /\ End(q)
    /\ UNCHANGED <<bucket, edits, devices>>

\* DELETE /releases/:id reads the draft,
BeginDelete(q) ==
    /\ Begin(q, "delete")
    /\ \E r \in Rels :
        /\ rel[r].status = "draft"
        /\ req' = [req EXCEPT ![q] = [NoReq EXCEPT !.duty = "delete", !.at = "read", !.it = r]]
    /\ UNCHANGED <<rel, bucket, devices>>

\* deletes its artifact,
DeleteArtifact(q) ==
    /\ At(q, "delete", "read")
    /\ bucket' = bucket \ {Key(req[q].it, rel[req[q].it])}
    /\ req' = [req EXCEPT ![q].at = "cleared"]
    /\ UNCHANGED <<rel, edits, devices>>

\* then the row, whatever became of it.
Delete(q) ==
    /\ At(q, "delete", "cleared")
    /\ rel' = [rel EXCEPT ![req[q].it] = NoRel]
    /\ reports' = [reports EXCEPT ![req[q].it] = [d \in Devices |-> {}]]
    /\ End(q)
    /\ UNCHANGED <<bucket, runs, going, pin, edits>>

-----------------------------------------------------------------------------
\* lineReleases: what the device could be offered or be running.
Line == {r \in Rels : rel[r].status \in Live \cup {"withdrawn"}}
Highest(rs) == {r \in rs : \A q \in rs : Version(q) <= Version(r)}
Offer(r, rollback) == [rel |-> r, rollback |-> rollback]

\* A pin bites while the device runs something above it, and there is something to go back to.
PinTargets(d) ==
    LET live == {r \in Line : rel[r].status # "withdrawn"}
        exact == {r \in live : Version(r) = pin[d]}
    IN IF pin[d] = None \/ runs[d].now <= pin[d] THEN {}
       ELSE IF exact # {} THEN exact ELSE Highest({r \in live : Version(r) < pin[d]})

Best(d) == {r \in Highest({r \in Line : rel[r].status = "published" /\ d \in rel[r].reach}) :
                Version(r) > runs[d].now}

FaultyBack(d) == Highest({r \in Line : Version(r) < runs[d].now})

FaultyBackReach(d) ==
    Highest({r \in Line : rel[r].status # "withdrawn" /\ d \in rel[r].reach /\ Version(r) < runs[d].now})

\* The newest live one below a version that was withdrawn.
Back(d) == Highest({r \in Line : rel[r].status # "withdrawn" /\ Version(r) < runs[d].now})

\* One row of the version the device runs is withdrawn: the rows come in no order, and the first counts.
RunsWithdrawn(d) == \E r \in Line : Version(r) = runs[d].now /\ rel[r].status = "withdrawn"

\* offerFor: what the device may be offered now.
Offers(d) ==
    IF PinTargets(d) # {} THEN {Offer(r, TRUE) : r \in PinTargets(d)}
    ELSE IF Best(d) # {} THEN {Offer(r, FALSE) : r \in Best(d)}
    ELSE IF RunsWithdrawn(d) THEN {Offer(r, TRUE) : r \in Back(d)} ELSE {}

\* The device asks for the link of what it is offered: a live release.
GetLink(d) ==
    /\ going[d] = None
    /\ \E o \in Offers(d) : rel[o.rel].status \in Live /\ going' = [going EXCEPT ![d] = o.rel]
    /\ UNCHANGED <<rel, bucket, reports, runs, pin, edits, req>>

\* It downloads against the link, installs, and reports it; the heartbeat of the new version spends a
\* pin at or above it.
Install(d) ==
    /\ going[d] # None
    /\ LET r == going[d]
           v == Version(r)
       IN IF rel[r].status # "none" /\ Key(r, rel[r]) \in bucket
          THEN /\ runs' = [runs EXCEPT ![d] = [now |-> v, before |-> @.now]]
               /\ reports' = [reports EXCEPT ![r][d] = @ \cup {"installed"}]
               /\ pin' = [pin EXCEPT ![d] = IF @ # None /\ v <= @ THEN None ELSE @]
          ELSE UNCHANGED <<runs, reports, pin>>
    /\ going' = [going EXCEPT ![d] = None]
    /\ UNCHANGED <<rel, bucket, edits, req>>

\* It came up healthy, or it went back to the version before.
Settle(d) ==
    /\ "reports" \in Duties
    /\ \E r \in Line :
        /\ Version(r) = runs[d].now /\ "installed" \in reports[r][d]
        /\ Fickle \/ reports[r][d] \cap {"health_ok", "rolled_back"} = {}
        /\ \/ /\ "health_ok" \notin reports[r][d]
              /\ reports' = [reports EXCEPT ![r][d] = @ \cup {"health_ok"}]
              /\ pin' = [pin EXCEPT ![d] = IF @ = Version(r) THEN None ELSE @]
              /\ UNCHANGED runs
           \/ /\ reports' = [reports EXCEPT ![r][d] = @ \cup {"rolled_back"}]
              /\ runs' = [runs EXCEPT ![d] = [now |-> @.before, before |-> @.before]]
              /\ UNCHANGED pin
    /\ UNCHANGED <<rel, bucket, going, edits, req>>

\* The version it runs crashes: a crash report names the version, and counts from its publication on.
Crash(d) ==
    /\ "crashes" \in Duties
    /\ LET here == {r \in Line : Version(r) = runs[d].now} IN
       reports' = [r \in Rels |-> IF r \in here THEN [reports[r] EXCEPT ![d] = @ \cup {"crashed"}] ELSE reports[r]]
    /\ UNCHANGED <<rel, bucket, runs, going, pin, edits, req>>

\* A failed maintenance sends the device back to what it ran.
Pin(d) ==
    /\ "pin" \in Duties /\ pin[d] = None
    /\ runs[d].before < runs[d].now
    /\ pin' = [pin EXCEPT ![d] = runs[d].before]
    /\ UNCHANGED <<rel, bucket, reports, runs, going, edits, req>>

-----------------------------------------------------------------------------
\* releaseStats counts the devices that reported each step.
Count(r, step) == Cardinality({d \in Devices : step \in reports[r][d]})
Settled(r) == Count(r, "health_ok") + Count(r, "rolled_back")
Updated(r) == IF Count(r, "installed") > Settled(r) THEN Count(r, "installed") ELSE Settled(r)

\* A device that crashed counts once it installed the release.
Crashed(r) == Cardinality({d \in Devices :
    "crashed" \in reports[r][d] /\ reports[r][d] \cap {"installed", "health_ok"} # {}})

Past(part, sample, percent) == sample > 0 /\ 100 * part >= percent * sample

FaultyPauses(r) ==
    \/ Settled(r) >= MinSample /\ Past(Count(r, "rolled_back"), Settled(r), PausePercent)
    \/ Past(Crashed(r), Updated(r), CrashPercent)

\* pauseReason: the devices that rolled back, or those that crashed, past the threshold over enough.
Pauses(r) ==
    \/ Settled(r) >= MinSample /\ Past(Count(r, "rolled_back"), Settled(r), PausePercent)
    \/ Updated(r) >= MinSample /\ Past(Crashed(r), Updated(r), CrashPercent)

\* evaluateRollouts, for one published release.
Evaluate(r) ==
    /\ rel[r].status = "published" /\ Pauses(r)
    /\ rel' = [rel EXCEPT ![r] = [@ EXCEPT !.status = "paused", !.auto = TRUE]]
    /\ UNCHANGED <<bucket, devices, edits, req>>

\* GET: releases, their numbers, reports, artifacts and what an installation would be offered.
List == UNCHANGED vars

-----------------------------------------------------------------------------
Init ==
    /\ rel = [r \in Rels |-> NoRel]
    /\ bucket = {}
    /\ reports = [r \in Rels |-> [d \in Devices |-> {}]]
    /\ runs = [d \in Devices |-> [now |-> 0, before |-> 0]]
    /\ going = [d \in Devices |-> None]
    /\ pin = [d \in Devices |-> None]
    /\ edits = 0 /\ req = [q \in Reqs |-> NoReq]

Next ==
    \/ \E q \in Reqs :
        \/ BeginUpload(q) \/ PutArtifact(q) \/ Upload(q) \/ Refuse(q)
        \/ \E move \in Moves : BeginMove(q, move) \/ Move(q, move)
        \/ BeginRollback(q) \/ Rollback(q)
        \/ BeginDelete(q) \/ DeleteArtifact(q) \/ Delete(q)
    \/ \E d \in Devices : GetLink(d) \/ Install(d) \/ Settle(d) \/ Crash(d) \/ Pin(d)
    \/ \E r \in Rels : Evaluate(r)
    \/ Rollout \/ List

Spec == Init /\ [][Next]_vars

\* Devices ask for the offer at every heartbeat, and follow it.
FairSpec == Spec /\ \A d \in Devices : WF_vars(GetLink(d)) /\ WF_vars(Install(d))

-----------------------------------------------------------------------------
\* What a device is offered can be downloaded: it is live and its artifact is there.
OfferedIsThere == \A d \in Devices : \A o \in Offers(d) :
    rel[o.rel].status \in Live /\ Key(o.rel, rel[o.rel]) \in bucket

\* A device that installs what it is offered is not offered something else for it.
OfferSettles == \A d \in Devices : \A o \in Offers(d) : pin[d] = None =>
    LET v == Version(o.rel)
        here == {r \in Line : Version(r) = v}
    IN /\ ~ \E r \in Line : rel[r].status = "published" /\ d \in rel[r].reach /\ Version(r) > v
       /\ ~ \E r \in here : rel[r].status = "withdrawn"

\* A device on a withdrawn version, with a live one below, leaves it in the end.
WithdrawnIsLeft == \A d \in Devices :
    ~ /\ \E r \in Line : Version(r) = runs[d].now /\ rel[r].status = "withdrawn"
      /\ \E r \in Line : rel[r].status \in Live /\ Version(r) < runs[d].now

\* A release that was ever published stays as history: only drafts are deleted.
OnlyDraftsDeleted == [][\A r \in Rels : rel'[r].status = "none" => rel[r].status \in {"none", "draft"}]_vars

\* A paused release is offered to nobody new.
PausedIsNotOffered == \A d \in Devices : \A o \in Offers(d) : rel[o.rel].status # "paused"

\* Nothing above its pin is offered to a device that runs something above it.
PinHolds == \A d \in Devices : pin[d] # None /\ runs[d].now > pin[d] =>
    \A o \in Offers(d) : Version(o.rel) <= pin[d]

\* A release pauses itself over what enough devices reported of it, whether they went back or crashed.
SampleIsDevices == \A r \in Rels : rel[r].auto =>
    Cardinality({d \in Devices : reports[r][d] \cap {"installed", "health_ok", "rolled_back"} # {}}) >= MinSample

\* Rolling a line back leaves nothing newer of it live.
RollbackClears == [][\A q \in Reqs : At(q, "rollback", "read") /\ req'[q] = NoReq =>
    \A n \in Rels : rel'[n].status \in Live /\ rel'[n].arch = rel'[req[q].it].arch =>
        rel'[n].version <= rel'[req[q].it].version]_vars

=============================================================================
