----------------------------- MODULE MCProgress -----------------------------
(***************************************************************************)
(* Instances for TLC of what must eventually happen, in every component    *)
(* that promises something of the kind, under the fairness each of them    *)
(* states.  A behaviour is a behaviour of the instance named by `part`.    *)
(* RemoteCommands, about which there are proofs, is extended: while        *)
(* another part runs, its variables stay as they were; the variables of    *)
(* any other component hold None while it does not run.  Components that   *)
(* name a variable alike share it here.                                    *)
(***************************************************************************)
EXTENDS RemoteCommands, Integers, Sequences, TLC

CONSTANT Parts

VARIABLES part,
    status, sso, code, session, token, wire, barred,                   \* AuthSessions
    windows, links, paused,                                            \* MaintenanceApproval
    mnt, over, has, notice, logs,                                      \* MaintenanceRuns
    app, shown,                                                        \* ContractLapse
    rule, holds, rows, ev,                                             \* Alerts
    inst, usage, dark, socket,                                         \* DevicePresence
    history, schema, flags, channel, msgs, receipts, page, beat, fetch, lost, \* RemoteConfig
    reports, runs, going,                                              \* UpdateReleases
    queue, retries, stored, counted, group,                            \* CrashReports
    fires, to, note, tries, asked, faults,                             \* NotificationDigests
    row, made, rel, pin, hand, told, day, mailed, run, gone,           \* of two or three of these
    builds,                                                            \* bucket of UpdateReleases
    clock, edits, job                                                  \* now, edits and req of several

authVars == <<status, sso, code, session, token, wire, barred>>
approvalVars == <<windows, links, paused>>
runsVars == <<mnt, over, has, notice, logs>>
lapseVars == <<app, shown>>
alertVars == <<rule, holds, rows, ev>>
presenceVars == <<inst, usage, dark, socket>>
commandVars == <<now, cmd, allowed, bucket, shots, known, done, req>>
configVars == <<history, schema, flags, channel, msgs, receipts, page, beat, fetch, lost>>
updateVars == <<reports, runs, going>>
crashVars == <<queue, retries, stored, counted, group>>
digestVars == <<fires, to, note, tries, asked, faults>>
allVars == <<part, authVars, approvalVars, runsVars, lapseVars, alertVars, presenceVars, commandVars, configVars,
             updateVars, crashVars, digestVars, row, made, rel, pin, hand, told, day, mailed, run, gone, builds,
             clock, edits, job>>

-----------------------------------------------------------------------------
(* The instances *)

\* Two refreshes racing on one token, and a disable, with nothing cut short.
AuthDuty == <<{"signIn"}, {"exchange"}, {"refresh"}, {"refresh"}, {"disable"}>>
Auth == INSTANCE AuthSessions WITH req <- job, Users <- {"u"}, Clients <- {"a"}, Ssos <- {"k"}, Codes <- {"c"}, Sessions <- {"s"},
            Tokens <- {"t1", "t2", "t3"}, Reqs <- 1 .. 5, Duty <- AuthDuty, MayFail <- {}, MayExpire <- {"c"}

\* One maintenance with two windows, sent to a client who may never answer.
Approval == INSTANCE MaintenanceApproval WITH now <- clock, req <- job, Reqs <- {1}, Cron <- 0, Kinds <- {"normal"}, Horizon <- 4, MaxWins <- 2,
            MaxLinks <- 2, MaxEdits <- 4, Duties <- {"add", "send", "approve", "reject", "cancel"}, Pauses <- FALSE

\* Two maintenances of one device that report as it likes.
Runs == INSTANCE MaintenanceRuns WITH req <- job, Maints <- {"m1", "m2"}, Devices <- {1}, Cron <- 0, Panel <- {}, MaxEdits <- 0,
            Duties <- {}

\* A contract of two apps; the cron and its mails may be cut short.
Lapse == INSTANCE ContractLapse WITH req <- job, Contracts <- {"c"}, Apps <- {"a1", "a2"}, Cron <- 0, Requests <- {0}, Notice <- 1,
            Graces <- {0, 1}, Horizon <- 5, MaxEdits <- 2, Duties <- {"renew", "cut", "mail"}

\* A condition that comes and goes while the evaluation is cut short and the panel edits.
Alarms == INSTANCE Alerts WITH req <- job, Rules <- {"r"}, AppRules <- {"r"}, Subjects <- {"s"}, Ids <- {"i1", "i2", "i3"},
            Evals <- {0}, Requests <- {1}, MaxRules <- 1, MaxEdits <- 4, Together <- TRUE,
            Duties <- {"flip", "age", "ack", "resolve", "enable", "cut"}

\* A device that sends heartbeats both ways, an edit and a revocation.
PresenceDuty == <<{"frame", "beat"}, {"open", "close", "beat"}, {"edit", "revoke"}>>
Presence == INSTANCE DevicePresence WITH now <- clock, req <- job, Sockets <- {"s1", "s2"}, Reqs <- 1 .. 3, HourLen <- 2, Limit <- 2, MaxTime <- 0,
            Instant <- FALSE, MaxEdits <- 1, Duty <- PresenceDuty

\* Two commands for a device that may never come, with one request at a time.
Commands == INSTANCE RemoteCommands WITH CommandTypes <- {"restart"}, Duties <- {"issue", "take", "ack"}, Faults <- FALSE
OneRequest == req[2] = NoReq
\* One screenshot: two requests that hand it over, answer it, store it twice and delete it.
Shots == INSTANCE RemoteCommands WITH CommandTypes <- {"screenshot"}
OneCommand == cmd[2] = NoCmd

\* A page with two requests in flight, while flags change; then while a message starts and ends, and an
\* answer is lost.
Page == INSTANCE RemoteConfig WITH now <- clock, req <- job, Editors <- {1}, Fetches <- {1, 2}, Msgs <- {}, MaxVersion <- 1, MaxEdits <- 2,
            MaxLost <- 0, MaxTime <- 0, Duties <- {"flags"}
Messages == INSTANCE RemoteConfig WITH now <- clock, req <- job, Editors <- {1}, Fetches <- {1, 2}, Msgs <- {"m"}, MaxVersion <- 1, MaxEdits <- 1,
            MaxLost <- 1, MaxTime <- 1, Duties <- {"messages"}

\* Two releases, one of which is withdrawn.
Updates == INSTANCE UpdateReleases WITH bucket <- builds, req <- job, Rels <- {"l1", "l2"}, Devices <- {1}, Reqs <- {1}, Newest <- 2,
            Arches <- {"x86_64"}, MinSample <- 2, PausePercent <- 50, CrashPercent <- 20, MaxEdits <- 6, Fickle <- FALSE,
            Duties <- {"upload", "publish", "withdraw", "rollout"}

\* Two reports, sent twice, of which a delivery may fail once.
Crashes == INSTANCE CrashReports WITH now <- clock, req <- job, Reports <- {1, 2}, Reqs <- {1}, Retention <- 2, MaxTime <- 2, MaxSends <- 2,
            MaxRetries <- 1, Prompt <- TRUE

\* Two notifications, a mail of which may fail once.
Digests == INSTANCE NotificationDigests WITH req <- job, Users <- {"u"}, Notices <- {"n1", "n2"}, Requests <- {1}, Crons <- {0},
            Week <- 2, Batch <- 1, MaxFires <- 1, MaxTries <- 1, MaxFaults <- 1, MaxEdits <- 0,
            Frequencies <- {"immediate", "daily", "weekly"}, Together <- TRUE, Duties <- {}

-----------------------------------------------------------------------------
(* The behaviours *)

Blank ==
    /\ part = "auth" \/ (status = None /\ sso = None /\ code = None /\ session = None /\ token = None
                         /\ wire = None /\ barred = None)
    /\ part = "approval" \/ (windows = None /\ links = None /\ paused = None)
    /\ part = "runs" \/ (mnt = None /\ over = None /\ has = None /\ notice = None /\ logs = None)
    /\ part = "lapse" \/ (app = None /\ shown = None)
    /\ part = "alerts" \/ (rule = None /\ holds = None /\ rows = None /\ ev = None)
    /\ part = "presence" \/ (inst = None /\ usage = None /\ dark = None /\ socket = None)
    /\ part \in {"page", "messages"} \/ (history = None /\ schema = None /\ flags = None /\ channel = None
                                         /\ msgs = None /\ receipts = None /\ page = None /\ beat = None
                                         /\ fetch = None /\ lost = None)
    /\ part = "updates" \/ (reports = None /\ runs = None /\ going = None)
    /\ part = "crashes" \/ (queue = None /\ retries = None /\ stored = None /\ counted = None /\ group = None)
    /\ part = "digests" \/ (fires = None /\ to = None /\ note = None /\ tries = None /\ asked = None
                            /\ faults = None)
    /\ part \in {"approval", "lapse"} \/ row = None
    /\ part \in {"approval", "crashes"} \/ made = None
    /\ part \in {"runs", "updates"} \/ (rel = None /\ pin = None)
    /\ part \in {"runs", "lapse"} \/ hand = None
    /\ part \in {"runs", "alerts", "presence"} \/ told = None
    /\ part \in {"lapse", "digests"} \/ (day = None /\ mailed = None /\ run = None)
    /\ part \in {"alerts", "digests"} \/ gone = None
    /\ part = "updates" \/ builds = None
    /\ part \in {"approval", "presence", "page", "messages", "crashes"} \/ clock = None
    /\ part \notin {"auth", "presence", "commands", "shots", "crashes"} \/ edits = None
    /\ part \notin {"commands", "shots"} \/ job = None

Others ==
    /\ UNCHANGED part
    /\ part = "auth" \/ UNCHANGED authVars
    /\ part = "approval" \/ UNCHANGED approvalVars
    /\ part = "runs" \/ UNCHANGED runsVars
    /\ part = "lapse" \/ UNCHANGED lapseVars
    /\ part = "alerts" \/ UNCHANGED alertVars
    /\ part = "presence" \/ UNCHANGED presenceVars
    /\ part \in {"commands", "shots"} \/ UNCHANGED commandVars
    /\ part \in {"page", "messages"} \/ UNCHANGED configVars
    /\ part = "updates" \/ UNCHANGED updateVars
    /\ part = "crashes" \/ UNCHANGED crashVars
    /\ part = "digests" \/ UNCHANGED digestVars
    /\ part \in {"approval", "lapse"} \/ UNCHANGED row
    /\ part \in {"approval", "crashes"} \/ UNCHANGED made
    /\ part \in {"runs", "updates"} \/ UNCHANGED <<rel, pin>>
    /\ part \in {"runs", "lapse"} \/ UNCHANGED hand
    /\ part \in {"runs", "alerts", "presence"} \/ UNCHANGED told
    /\ part \in {"lapse", "digests"} \/ UNCHANGED <<day, mailed, run>>
    /\ part \in {"alerts", "digests"} \/ UNCHANGED gone
    /\ part = "updates" \/ UNCHANGED builds
    /\ part \in {"approval", "presence", "page", "messages", "crashes"} \/ UNCHANGED clock
    /\ part \notin {"auth", "presence", "commands", "shots", "crashes"} \/ UNCHANGED edits
    /\ part \notin {"commands", "shots"} \/ UNCHANGED job

MCInit ==
    /\ part \in Parts
    /\ Init
    /\ \/ part = "auth" /\ Auth!Init
       \/ part = "approval" /\ Approval!Init
       \/ part = "runs" /\ Runs!Init
       \/ part = "lapse" /\ Lapse!Init
       \/ part = "alerts" /\ Alarms!Init
       \/ part = "presence" /\ Presence!Init
       \/ part \in {"commands", "shots"}
       \/ part = "page" /\ Page!Init
       \/ part = "messages" /\ Messages!Init
       \/ part = "updates" /\ Updates!Init
       \/ part = "crashes" /\ Crashes!Init
       \/ part = "digests" /\ Digests!Init
    /\ Blank

MCNext ==
    /\ \/ part = "auth" /\ Auth!Next
       \/ part = "approval" /\ Approval!Next
       \/ part = "runs" /\ Runs!Next
       \/ part = "lapse" /\ Lapse!Next
       \/ part = "alerts" /\ Alarms!Next
       \/ part = "presence" /\ Presence!Next
       \/ part = "commands" /\ Commands!Next /\ OneRequest'
       \/ part = "shots" /\ Shots!Next /\ OneCommand'
       \/ part = "page" /\ Page!Next
       \/ part = "messages" /\ Messages!Next
       \/ part = "updates" /\ Updates!Next
       \/ part = "crashes" /\ Crashes!Next
       \/ part = "digests" /\ Digests!Next
    /\ Others

-----------------------------------------------------------------------------
(* Fairness: the steps each component is owed, numbered; a part has those of its component. *)

ConfigStep(n) ==
    \/ part = "page" /\ \/ n = 1 /\ Page!SendBeat
                        \/ n = 2 /\ Page!AnswerBeat
                        \/ n = 3 /\ Page!ApplyBeat
                        \/ n \in 4 .. 5 /\ Page!Answer(n - 3)
                        \/ n \in 6 .. 7 /\ Page!ApplyFetch(n - 5)
    \/ part = "messages" /\ \/ n = 1 /\ Messages!SendBeat
                            \/ n = 2 /\ Messages!AnswerBeat
                            \/ n = 3 /\ Messages!ApplyBeat
                            \/ n \in 4 .. 5 /\ Messages!Answer(n - 3)
                            \/ n \in 6 .. 7 /\ Messages!ApplyFetch(n - 5)

Owed(n) ==
    /\ \/ part = "auth" /\ n \in 1 .. 5 /\ Auth!Continue(n)
       \/ part = "approval" /\ \/ n = 1 /\ Approval!Tick
                               \/ n = 2 /\ Approval!Run
                               \/ n \in 3 .. 4 /\ Approval!Continue(n - 3)
       \/ part = "runs" /\ ((n = 1 /\ Runs!Continue(0)) \/ (n = 2 /\ Runs!Back(1)))
       \/ part = "lapse" /\ \/ n = 1 /\ Lapse!CronRead
                            \/ n = 2 /\ Lapse!CronStep
                            \/ n = 3 /\ Lapse!Afterwards(0)
                            \/ n = 4 /\ Lapse!Create(0)
       \/ part = "alerts" /\ \/ n = 1 /\ Alarms!Evaluation(0)
                             \/ n = 2 /\ (Alarms!Create(1) \/ Alarms!Retire(1) \/ Alarms!Delete(1) \/ Alarms!Resolve(1))
       \/ part = "presence" /\ \/ n \in 1 .. 3 /\ Presence!BeginBeat(n)
                               \/ n \in 4 .. 6 /\ Presence!Finish(n - 3)
       \/ part = "commands" /\ \/ n = 1 /\ Commands!Tick
                               \/ n = 2 /\ Commands!Expire
                               \/ n = 3 /\ Commands!Issue(1)
                               \/ n = 4 /\ (Commands!Take(1) \/ Commands!TakeLost(1))
                               \/ n = 5 /\ Commands!Ack(1)
       \/ ConfigStep(n)
       \/ part = "updates" /\ ((n = 1 /\ Updates!GetLink(1)) \/ (n = 2 /\ Updates!Install(1)))
       \/ part = "crashes" /\ n \in 1 .. 2 /\ Crashes!Consume(n)
       \/ part = "digests" /\ \/ n = 1 /\ Digests!Consume
                              \/ n = 2 /\ Digests!Digest
                              \/ n = 3 /\ Digests!Tick
                              \/ n = 4 /\ fires = 0 /\ Digests!Fire(0)
    /\ Others

\* Days pass although the cron keeps running.
DayPasses == part = "lapse" /\ Lapse!Tick /\ Others

MCFairSpec ==
    /\ MCInit /\ [][MCNext]_allVars
    /\ \A n \in 1 .. 7 : WF_allVars(Owed(n))
    /\ SF_allVars(DayPasses)

-----------------------------------------------------------------------------
(* Properties *)

\* Every session and every SSO session an account has when a disable is carried out ends up revoked
\* (routes/admin/users.ts), and a refresh that was overtaken by another of the same token brings the session
\* down (services/tokens.ts), whatever else is being served.
Disabling == part = "auth" /\ \E r \in 1 .. 5 : job[r].kind = "disable" /\ job[r].stage = "list"
Overtaken == part = "auth" /\ \E r \in 1 .. 5 : job[r].stage \in {"check", "mark"} /\ token[job[r].token].used
CredentialsEnd ==
    /\ ((Disabling /\ session["s"].user = "u") \/ Overtaken) ~> (part = "auth" /\ session["s"].revoked)
    /\ (Disabling /\ sso["k"].user = "u") ~> (part = "auth" /\ sso["k"].revoked)

\* Once the panel rests, a device is told what it changed or is cut off (services/heartbeat.ts,
\* services/socket.ts), has its commands answered or expired (services/commands.ts), shows the flags and the
\* messages there are (services/sdk.ts), has left a withdrawn release (services/releases.ts), and
\* its crashes are counted (services/telemetry.ts), although answers are lost and deliveries fail.
DevicesCatchUp == <>[](
    /\ part = "presence" => Presence!PanelReachesDevice /\ Presence!RevokedSocketCloses
    /\ part = "commands" => Commands!EveryCommandEnds
    /\ part = "page" => Page!PageCatchesUp
    /\ part = "messages" => Messages!PageCatchesUp
    /\ part = "updates" => Updates!WithdrawnIsLeft
    /\ part = "crashes" => Crashes!AcceptedIsCounted)

\* What was planned comes to an end although runs are cut short and mails fail: a maintenance is
\* answered, applied or given up, and a failed one is left (services/maintenances.ts); a contract that
\* ended has its apps off (services/contracts.ts); alerts say what holds (services/alerts.ts); what
\* waits for a digest goes out (services/digest.ts).
WorkIsFinished == <>[](
    /\ part = "approval" => Approval!Concluded
    /\ part = "runs" => Runs!FailedIsLeft
    /\ part = "lapse" => Lapse!EndedIsOff
    /\ part = "alerts" => Alarms!AlertsFollow
    /\ part = "digests" => Digests!WaitingEnds)

=============================================================================
