---------------------------- MODULE MCServices ----------------------------
(***************************************************************************)
(* Instances for TLC of what apps/custom-apps keeps for the clients of an  *)
(* app: maintenances, contracts, alerts and tickets.  A behaviour is a     *)
(* behaviour of the instance named by `part`.  Alerts, about which there   *)
(* are proofs, is extended: while another part runs, its variables stay as *)
(* they were; the variables of any other component hold None while it does *)
(* not run.                                                                *)
(***************************************************************************)
EXTENDS Alerts, TLC

CONSTANTS x1, x2, x3  \* interchangeable rows

VARIABLES part,
    windows, links, now, made,                      \* MaintenanceApproval
    mnt, over, rel, has, pin, notice,               \* MaintenanceRuns
    contract, cycles, closedOn,                     \* ContractCycles
    app, shown, mailed, run,                        \* ContractLapse
    clock, ticket, msgs, hour,                      \* Tickets
    row, paused, logs, hand, heard, day, count, job \* of several of them

Three == {x1, x2, x3}
Interchangeable == Permutations(Three)

approvalVars == <<windows, links, now, made>>
runVars == <<mnt, over, rel, has, pin, notice>>
cycleVars == <<contract, cycles, closedOn>>
lapseVars == <<app, shown, mailed, run>>
alertVars == <<rule, holds, rows, told, gone, ev, req, edits>>
ticketVars == <<clock, ticket, msgs, hour>>
otherVars == <<row, paused, logs, hand, heard, day, count, job>>
allVars == <<part, approvalVars, runVars, cycleVars, lapseVars, alertVars, ticketVars, otherVars>>

NoApproval == windows = None /\ links = None /\ now = None /\ made = None
NoRun == mnt = None /\ over = None /\ rel = None /\ has = None /\ pin = None /\ notice = None
NoCycles == contract = None /\ cycles = None /\ closedOn = None
NoLapse == app = None /\ shown = None /\ mailed = None /\ run = None
NoTickets == clock = None /\ ticket = None /\ msgs = None /\ hour = None

-----------------------------------------------------------------------------
(* The instances *)

\* Two requests and the cron schedule a maintenance.
Approval == INSTANCE MaintenanceApproval WITH req <- job, edits <- count, Reqs <- {"q1", "q2"}, Cron <- "cron", Kinds <- {"normal"}, Horizon <- 3,
                MaxWins <- 2, MaxLinks <- 2, MaxEdits <- 5, Duties <- {"add", "send", "approve"}, Pauses <- FALSE
\* One request at a time plans it, with every edit there is.
Plan == INSTANCE MaintenanceApproval WITH req <- job, edits <- count, Reqs <- {"q1"}, Cron <- "cron", Kinds <- {"normal", "security"}, Horizon <- 3,
                MaxWins <- 2, MaxLinks <- 2, MaxEdits <- 5, Pauses <- FALSE,
                Duties <- {"add", "move", "remove", "patch", "delete", "security", "send", "cancel"}

\* The cron runs two maintenances with two devices; nobody interferes.
Runs == INSTANCE MaintenanceRuns WITH req <- job, edits <- count, told <- heard, Maints <- {x1, x2}, Devices <- {"d1", "d2"}, Cron <- "cron", Panel <- {},
                MaxEdits <- 0, Duties <- {}
\* Two requests of the panel interfere with one.
Closing == INSTANCE MaintenanceRuns WITH req <- job, edits <- count, told <- heard, Maints <- {"m1"}, Devices <- {"d1"}, Cron <- "cron", Panel <- {x1, x2},
                MaxEdits <- 3, Duties <- {"close", "cancel", "override", "remind", "rollout", "cut"}

\* Two requests synchronise the cycles of a contract at once.
Cycles == INSTANCE ContractCycles WITH req <- job, edits <- count, Entries <- {"e1"}, Requests <- {x1, x2}, Period <- 2, Horizon <- 3,
                Included <- 2, MaxKept <- 3, MaxAge <- 2, MaxSteps <- 4, MaxEdits <- 1, Duties <- {"view", "log", "end"}
\* One request at a time, over three cycles, which is more than a balance may live.
Balance == INSTANCE ContractCycles WITH req <- job, edits <- count, Entries <- {x1, x2}, Requests <- {"q1"}, Period <- 2, Horizon <- 5,
                Included <- 2, MaxKept <- 3, MaxAge <- 1, MaxSteps <- 2, MaxEdits <- 2,
                Duties <- {"list", "bill", "log", "unlog", "end", "cancel", "delete"}

\* Two contracts of an app; the requests of the panel wait for the cron.
Lapse == INSTANCE ContractLapse WITH req <- job, edits <- count, Contracts <- {x1, x2}, Apps <- {"a1"}, Cron <- "cron", Requests <- {"cron"},
                Notice <- 1, Graces <- {0, 1}, Horizon <- 5, MaxEdits <- 2,
                Duties <- {"renew", "patch", "cancel", "switch", "create", "mail"}
\* Two apps of one contract; the kill switch is used while the cron is at work.
Switch == INSTANCE ContractLapse WITH req <- job, edits <- count, Contracts <- {"c1"}, Apps <- {x1, x2}, Cron <- "cron", Requests <- {"q1"},
                Notice <- 1, Graces <- {0, 1}, Horizon <- 4, MaxEdits <- 2, Duties <- {"switch"}

\* Two overlapping evaluations of a rule, and the panel.
Evaluated == INSTANCE Alerts WITH MaxEdits <- 3, Together <- TRUE,
                Duties <- {"flip", "age", "ack", "resolve", "silence", "enable", "mail", "cut", "delete"}
OneRule == holds \subseteq {"r1"} \X Subjects /\ Cardinality({i \in Ids : rows[i] # None}) <= 2
\* Two rules, one evaluation or request at a time.
Ruled == INSTANCE Alerts WITH Together <- FALSE,
                Duties <- {"create", "flip", "ack", "resolve", "silence", "delete", "age"}
OneRun == ev["e2"].at = "none"

\* Two requests at once on two tickets of a device.
Desk == INSTANCE Tickets WITH req <- job, edits <- count, Tickets <- {x1, x2}, Devices <- {"d1"}, Requests <- {"q1", "q2"}, MaxTickets <- 1,
                MaxMessages <- 1, MaxTime <- 0, MaxEdits <- 5, Together <- TRUE,
                Duties <- {"open", "message", "get", "reply", "patch", "hour", "pause", "mail", "cut"}
\* One request at a time while seconds pass.
Talk == INSTANCE Tickets WITH req <- job, edits <- count, Tickets <- {x1, x2}, Devices <- {"d1"}, Requests <- {"q1"}, MaxTickets <- 1,
                MaxMessages <- 2, MaxTime <- 3, MaxEdits <- 5, Together <- FALSE,
                Duties <- {"open", "message", "get", "reply", "patch", "tick", "cut"}

ASSUME Approval!ApprovalAssumption /\ Plan!ApprovalAssumption /\ Runs!RunsAssumption /\ Closing!RunsAssumption
ASSUME Cycles!CyclesAssumption /\ Balance!CyclesAssumption /\ Lapse!LapseAssumption /\ Switch!LapseAssumption
ASSUME Desk!TicketsAssumption /\ Talk!TicketsAssumption

-----------------------------------------------------------------------------
(* The behaviours *)

MCInit ==
    /\ Init
    /\ \/ /\ \/ part = "approval" /\ Approval!Init
             \/ part = "plan" /\ Plan!Init
          /\ NoRun /\ NoCycles /\ NoLapse /\ NoTickets
          /\ logs = None /\ hand = None /\ heard = None /\ day = None
       \/ /\ \/ part = "runs" /\ Runs!Init
             \/ part = "closing" /\ Closing!Init
          /\ NoApproval /\ NoCycles /\ NoLapse /\ NoTickets
          /\ row = None /\ paused = None /\ day = None
       \/ /\ \/ part = "cycles" /\ Cycles!Init
             \/ part = "balance" /\ Balance!Init
          /\ NoApproval /\ NoRun /\ NoLapse /\ NoTickets
          /\ row = None /\ paused = None /\ hand = None /\ heard = None
       \/ /\ \/ part = "lapse" /\ Lapse!Init
             \/ part = "switch" /\ Switch!Init
          /\ NoApproval /\ NoRun /\ NoCycles /\ NoTickets
          /\ paused = None /\ logs = None /\ heard = None
       \/ /\ part \in {"evaluated", "ruled"}
          /\ NoApproval /\ NoRun /\ NoCycles /\ NoLapse /\ NoTickets
          /\ row = None /\ paused = None /\ logs = None /\ hand = None /\ heard = None /\ day = None
          /\ count = None /\ job = None
       \/ /\ \/ part = "desk" /\ Desk!Init
             \/ part = "talk" /\ Talk!Init
          /\ NoApproval /\ NoRun /\ NoCycles /\ NoLapse
          /\ row = None /\ logs = None /\ hand = None /\ heard = None /\ day = None
    /\ rule["r2"] = None /\ (rule["r1"] # None <=> part = "evaluated")

MCNext ==
    /\ UNCHANGED part
    /\ \/ /\ \/ part = "approval" /\ Approval!Next
             \/ part = "plan" /\ Plan!Next
          /\ UNCHANGED <<runVars, cycleVars, lapseVars, alertVars, ticketVars, logs, hand, heard, day>>
       \/ /\ \/ part = "runs" /\ Runs!Next
             \/ part = "closing" /\ Closing!Next
          /\ UNCHANGED <<approvalVars, cycleVars, lapseVars, alertVars, ticketVars, row, paused, day>>
       \/ /\ \/ part = "cycles" /\ Cycles!Next
             \/ part = "balance" /\ Balance!Next
          /\ UNCHANGED <<approvalVars, runVars, lapseVars, alertVars, ticketVars, row, paused, hand, heard>>
       \/ /\ \/ part = "lapse" /\ Lapse!Next
             \/ part = "switch" /\ Switch!Next
          /\ UNCHANGED <<approvalVars, runVars, cycleVars, alertVars, ticketVars, paused, logs, heard>>
       \/ /\ \/ part = "evaluated" /\ Evaluated!Next /\ OneRule'
             \/ part = "ruled" /\ Ruled!Next /\ OneRun'
          /\ UNCHANGED <<approvalVars, runVars, cycleVars, lapseVars, ticketVars, otherVars>>
       \/ /\ \/ part = "desk" /\ Desk!Next
             \/ part = "talk" /\ Talk!Next
          /\ UNCHANGED <<approvalVars, runVars, cycleVars, lapseVars, alertVars, row, logs, hand, heard, day>>

MCSpec == MCInit /\ [][MCNext]_allVars

-----------------------------------------------------------------------------
(* Properties, with OneOpen and ResolvedNotFirst of Alerts *)

\* What clients pay for adds up, and what they are told is consistent.  A maintenance runs in a window it
\* still has; a device is free once none of its maintenances runs, nobody outside them runs the release
\* because of them, and the work is logged once, of a completed one, whoever closes it
\* (services/maintenances.ts).  Hours are counted once: no two cycles share a day, every minute of a closed
\* one was used, expired or carried over, the youngest are kept; and an app that a lapse switched off has a
\* contract that lapsed and was not renewed since, unless an edit left the app out of its contract
\* (services/contracts.ts).  One at a time, whoever was told that an alert began is told its end, and no rule
\* that goes leaves one (services/alerts.ts).  A ticket is finished when it says so, what is marked as seen was
\* shown, the hourly limits are passed by no more than the requests that overlapped, and, one at a time, whose
\* turn it is follows from the last message (panel/routes/tickets.ts, services/tickets.ts).
ServicesHold ==
    /\ TypeOK
    /\ part = "approval" => Approval!TypeOK
    /\ part = "plan" => Plan!ChosenStands
    /\ part = "runs" => Runs!Freed /\ Runs!OutsidersUntouched
    /\ part = "closing" => Closing!TypeOK /\ Closing!LoggedOnce
    /\ part = "cycles" => Cycles!TypeOK /\ Cycles!Disjoint
    /\ part = "balance" => Balance!Conserved /\ Balance!NewestKept
    /\ part = "lapse" => Lapse!TypeOK /\ Lapse!OffIsLapsed
    /\ part = "ruled" => ToldBoth /\ OrphansResolved
    /\ part = "desk" => Desk!TypeOK /\ Desk!FinishedWhenSaid /\ Desk!SeenWasShown /\ Desk!HourlyLimits
    /\ part = "talk" => Talk!LastIsLast

\* What no step of them does: schedule a maintenance twice, withdraw a release from a device that is
\* not a target, change a closed cycle, leave a contract without today's cycle after a list that
\* stopped before its limit of steps, suspend an app within its grace (but for a contract edited after it had
\* lapsed) or switch on what was switched off by hand, let a requester into a closed ticket.
ServiceMoves == [][
    /\ part = "approval" => Approval!ScheduledOnce
    /\ part = "runs" => Runs!OthersKeepIt
    /\ part = "cycles" => Cycles!ClosedIsFinal
    /\ part = "balance" => Balance!ListIsCurrent
    /\ part = "lapse" => Lapse!GraceLasts /\ Lapse!GivenGraceLasts
    /\ part = "switch" => Switch!HandKept
    /\ part = "talk" => Talk!ClosedTakesNone]_allVars

=============================================================================
