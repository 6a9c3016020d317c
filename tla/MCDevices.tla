----------------------------- MODULE MCDevices -----------------------------
(***************************************************************************)
(* Instances for TLC of what apps/custom-apps keeps of the devices of an   *)
(* app: installations and keys, presence, commands, configuration and      *)
(* updates.  A behaviour is a behaviour of the instance named by `part`.   *)
(* Installations, about which there are proofs, is extended: while another *)
(* part runs, its variables stay as they were; the variables of any other  *)
(* component hold None while it does not run.                              *)
(***************************************************************************)
EXTENDS Installations, TLC

CONSTANTS x1, x2, x3  \* interchangeable rows

VARIABLES part,
    online, usage, dark, socket, told,                               \* DevicePresence
    cmd, allowed, shots, known, done,                                \* RemoteCommands
    history, schema, flags, channel, msgs, receipts, page, beat, fetch, lost, \* RemoteConfig
    rel, reports, runs, going, pin,                                  \* UpdateReleases
    now, bucket, edits, job                                          \* of several of these four

Three == {x1, x2, x3}
Interchangeable == Permutations(Three)

installationVars == <<app, key, inst, pair, req>>
presenceVars == <<online, usage, dark, socket, told>>
commandVars == <<cmd, allowed, shots, known, done>>
configVars == <<history, schema, flags, channel, msgs, receipts, page, beat, fetch, lost>>
updateVars == <<rel, reports, runs, going, pin>>
allVars == <<part, installationVars, presenceVars, commandVars, configVars, updateVars, now, bucket, edits, job>>

NoPresence == online = None /\ usage = None /\ dark = None /\ socket = None /\ told = None
NoCommands == cmd = None /\ allowed = None /\ shots = None /\ known = None /\ done = None
NoConfig == /\ history = None /\ schema = None /\ flags = None /\ channel = None /\ msgs = None
            /\ receipts = None /\ page = None /\ beat = None /\ fetch = None /\ lost = None
NoUpdates == rel = None /\ reports = None /\ runs = None /\ going = None /\ pin = None

-----------------------------------------------------------------------------
(* The instances *)

\* A device that enrolls twice at once, and a refresh, a review or a revocation beside it.
Enrolling == "r1" :> {"enroll"} @@ "r2" :> {"enroll", "refresh"} @@ "r3" :> {"refresh", "review", "revoke", "delete"}
\* Two editors rotate keys, one of them adds and revokes some, and the app may go.
Rotating == "r1" :> {"rotate"} @@ "r2" :> {"rotate", "newkey", "dropkey"} @@ "r3" :> {"delete", "enroll"}
EveryDuty == [r \in {"r1", "r2", "r3"} |-> Enrolling[r] \cup Rotating[r]]
Sent(duty) == \A r \in Reqs : req[r].kind \in {"none"} \cup duty[r]

\* Ping mode, one heartbeat at a time, over four hours; in Quick each is recorded as it arrives.
PingDuty == "r1" :> {"beat", "revoke"}
Ping == INSTANCE DevicePresence WITH inst <- online, req <- job, Sockets <- {}, Reqs <- {"r1"}, HourLen <- 2, Limit <- 3,
                MaxTime <- 7, Instant <- FALSE, MaxEdits <- 0, Duty <- PingDuty
Quick == INSTANCE DevicePresence WITH inst <- online, req <- job, Sockets <- {}, Reqs <- {"r1"}, HourLen <- 2, Limit <- 3,
                MaxTime <- 7, Instant <- TRUE, MaxEdits <- 0, Duty <- PingDuty
\* A device that reconnects, changes of the panel and a revocation.
Reconnect == INSTANCE DevicePresence WITH inst <- online, req <- job, Sockets <- {"s1", "s2"}, Reqs <- {"r1", "r2", "r3"},
                HourLen <- 2, Limit <- 2, MaxTime <- 1, Instant <- FALSE, MaxEdits <- 1,
                Duty <- "r1" :> {"frame"} @@ "r2" :> {"open", "close"} @@ "r3" :> {"open", "edit", "revoke"}

\* Two commands; two requests that queue, deliver and acknowledge.
Commands == INSTANCE RemoteCommands WITH req <- job, MaxCmds <- 2, Reqs <- {x1, x2}, Images <- {"i1"}, CommandTypes <- {"restart"},
                TTL <- 2, MaxPerDelivery <- 1, MaxTime <- 2, Duties <- {"issue", "take", "ack"}, Faults <- FALSE
\* A screenshot that is sent twice, and deleted.
Shots == INSTANCE RemoteCommands WITH req <- job, MaxCmds <- 1, Reqs <- {"r1", "r2"}, Images <- {x1, x2},
                CommandTypes <- {"screenshot"}, TTL <- 2, MaxPerDelivery <- 1, MaxTime <- 2,
                Duties <- {"issue", "take", "ack", "shot", "drop"}, Faults <- TRUE

\* Two editors save and restore versions of the config.
Versions == INSTANCE RemoteConfig WITH req <- job, Editors <- {x1, x2}, Fetches <- {"f1", "f2"}, Msgs <- {}, MaxVersion <- 2,
                MaxEdits <- 2, MaxLost <- 0, MaxTime <- 0, Duties <- {"config"}

\* One device, two requests of CI and the panel.
Offer == INSTANCE UpdateReleases WITH req <- job, Rels <- {x1, x2}, Devices <- {"d1"}, Reqs <- {"q1", "q2"}, Newest <- 2,
                Arches <- {"x86_64"}, MinSample <- 2, PausePercent <- 50, CrashPercent <- 20, MaxEdits <- 6, Fickle <- FALSE,
                Duties <- {"upload", "publish", "pause", "resume", "withdraw", "rollback", "rollout"}
\* Two architectures, with one request at a time.
Artifacts == INSTANCE UpdateReleases WITH req <- job, Rels <- {x1, x2}, Devices <- {"d1"}, Reqs <- {"q1"}, Newest <- 2,
                Arches <- {"x86_64", "universal"}, MinSample <- 2, PausePercent <- 50, CrashPercent <- 20, MaxEdits <- 5, Fickle <- FALSE,
                Duties <- {"upload", "publish", "withdraw", "delete"}
\* Two devices that report.
Reported == INSTANCE UpdateReleases WITH req <- job, Rels <- {"l1"}, Devices <- {x1, x2}, Reqs <- {"q1"}, Newest <- 2,
                Arches <- {"x86_64"}, MinSample <- 2, PausePercent <- 50, CrashPercent <- 20, MaxEdits <- 4, Fickle <- FALSE,
                Duties <- {"upload", "publish", "resume", "withdraw", "reports", "crashes", "pin"}

ASSUME Duty = EveryDuty
ASSUME Ping!PresenceAssumption /\ Quick!PresenceAssumption /\ Reconnect!PresenceAssumption
ASSUME Commands!CommandAssumption /\ Shots!CommandAssumption /\ Versions!ConfigAssumption
ASSUME Offer!UpdateAssumption /\ Artifacts!UpdateAssumption /\ Reported!UpdateAssumption

-----------------------------------------------------------------------------
(* The behaviours *)

MCInit ==
    /\ Init /\ key["k1"].status = "active"
    /\ \/ /\ part \in {"enrolling", "rotating"}
          /\ NoPresence /\ NoCommands /\ NoConfig /\ NoUpdates
          /\ now = None /\ bucket = None /\ edits = None /\ job = None
       \/ /\ \/ part = "ping" /\ Ping!Init
             \/ part = "quick" /\ Quick!Init
             \/ part = "reconnect" /\ Reconnect!Init
          /\ NoCommands /\ NoConfig /\ NoUpdates /\ bucket = None /\ edits = None
       \/ /\ \/ part = "commands" /\ Commands!Init
             \/ part = "shots" /\ Shots!Init
          /\ NoPresence /\ NoConfig /\ NoUpdates /\ edits = None
       \/ /\ part = "versions" /\ Versions!Init
          /\ NoPresence /\ NoCommands /\ NoUpdates /\ bucket = None
       \/ /\ \/ part = "offer" /\ Offer!Init
             \/ part = "artifacts" /\ Artifacts!Init
             \/ part = "reported" /\ Reported!Init
          /\ NoPresence /\ NoCommands /\ NoConfig /\ now = None

MCNext ==
    /\ UNCHANGED part
    /\ \/ /\ \/ part = "enrolling" /\ Next /\ Sent(Enrolling)' /\ UNCHANGED key
             \/ part = "rotating" /\ Next /\ Sent(Rotating)'
          /\ UNCHANGED <<presenceVars, commandVars, configVars, updateVars, now, bucket, edits, job>>
       \/ /\ \/ part = "ping" /\ Ping!Next
             \/ part = "quick" /\ Quick!Next
             \/ part = "reconnect" /\ Reconnect!Next
          /\ UNCHANGED <<installationVars, commandVars, configVars, updateVars, bucket, edits>>
       \/ /\ \/ part = "commands" /\ Commands!Next
             \/ part = "shots" /\ Shots!Next
          /\ UNCHANGED <<installationVars, presenceVars, configVars, updateVars, edits>>
       \/ /\ part = "versions" /\ Versions!Next
          /\ UNCHANGED <<installationVars, presenceVars, commandVars, updateVars, bucket>>
       \/ /\ \/ part = "offer" /\ Offer!Next
             \/ part = "artifacts" /\ Artifacts!Next
             \/ part = "reported" /\ Reported!Next
          /\ UNCHANGED <<installationVars, presenceVars, commandVars, configVars, now>>

MCSpec == MCInit /\ [][MCNext]_allVars

-----------------------------------------------------------------------------
(* Properties, with RefreshWorksOnce, OneRowPerDevice and RevocationSticks of Installations *)

\* No installation outlives its app and the successor of a rotated key is one its own rotation issued
\* (services/enrollment.ts, panel/routes/apps.ts); a device, whose heartbeats come one at a time, is credited with
\* no second that has not passed, nor with one it read as disconnected, and keeps one socket
\* (services/heartbeat.ts, services/socket.ts); the image of a screenshot can be shown (ingest/index.ts); and
\* what a device is offered is live, can be downloaded and, on a line of one architecture, settles it; a
\* release pauses itself over enough devices, by what they installed and by what crashed (services/releases.ts).
DevicesHold ==
    /\ TypeOK /\ InstallationsHaveAnApp /\ SuccessorIsOwn
    /\ part = "ping" => Ping!TypeOK /\ Ping!HoursHaveHappened
    /\ part = "quick" => Quick!OnlineOnlyWhileConnected
    /\ part = "reconnect" => Reconnect!TypeOK /\ Reconnect!OneSocket
    /\ part = "commands" => Commands!TypeOK
    /\ part = "shots" => Shots!RowsHaveImages
    /\ part = "offer" => Offer!TypeOK /\ Offer!OfferSettles
    /\ part = "artifacts" => Artifacts!OfferedIsThere
    /\ part = "reported" => Reported!SampleIsDevices

\* What no step does: change a command that ended, or stamp one again (services/commands.ts), or
\* rewrite the history of the config (panel/routes/remote.ts).
RemoteMoves == [][
    /\ part = "commands" => Commands!ClosedStays /\ Commands!StampedOnce
    /\ part = "versions" => Versions!HistoryGrows]_allVars

=============================================================================
