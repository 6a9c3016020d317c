------------------------------ MODULE MCQueues ------------------------------
(***************************************************************************)
(* Instances for TLC of what arrives more than once, late or out of order: *)
(* crash reports and the nightly roll-up of apps/custom-apps, the digests  *)
(* and the push devices of apps/notifications.  A behaviour is a behaviour *)
(* of the instance named by `part`.  CrashReports, about which there are   *)
(* proofs, is extended: while another part runs, its variables stay as     *)
(* they were; those of any other component hold None while it does not.    *)
(***************************************************************************)
EXTENDS CrashReports, TLC

CONSTANTS
    x1, x2, x3, \* interchangeable rows
    y1, y2

VARIABLES part,
    today, rolled, missed, taken, queued, raw, purged, daily,                          \* DailyRollup
    day, fires, to, note, tries, mailed, gone, asked, run, faults,                     \* NotificationDigests
    device, dead, streak, pushes,                                                      \* PushDevices
    edits, job                                                                         \* of the last two

Three == {x1, x2, x3}
Two == {y1, y2}
Interchangeable == Permutations(Three) \cup Permutations(Two)

rollupVars == <<today, rolled, missed, taken, queued, raw, purged, daily>>
digestVars == <<day, fires, to, note, tries, mailed, gone, asked, run, faults>>
pushVars == <<device, dead, streak, pushes>>
allVars == <<part, vars, rollupVars, digestVars, pushVars, edits, job>>

NoRollup == /\ today = None /\ rolled = None /\ missed = None /\ taken = None
            /\ queued = None /\ raw = None /\ purged = None /\ daily = None
NoDigests == /\ day = None /\ fires = None /\ to = None /\ note = None /\ tries = None
             /\ mailed = None /\ gone = None /\ asked = None /\ run = None /\ faults = None
NoPush == device = None /\ dead = None /\ streak = None /\ pushes = None
NoJob == edits = None /\ job = None

-----------------------------------------------------------------------------
(* The instances *)

\* Samples up to a day late; the same day, with a night missed; the same day, with none.
Late == INSTANCE DailyRollup WITH Samples <- {"s1", "s2"}, Retention <- 3, MaxLate <- 1, MaxMissed <- 0, Days <- 5
Missed == INSTANCE DailyRollup WITH Samples <- {"s1", "s2"}, Retention <- 3, MaxLate <- 0, MaxMissed <- 1, Days <- 5
Daily == INSTANCE DailyRollup WITH Samples <- {"s1", "s2"}, Retention <- 3, MaxLate <- 0, MaxMissed <- 0, Days <- 5

\* Two users in batches of one, events delivered twice and mails that fail, a cron that fires twice.
Digests == INSTANCE NotificationDigests WITH req <- job, Users <- {x1, x2}, Notices <- Two, Requests <- {"q1"},
                Crons <- {"k1"}, Week <- 2, Batch <- 1, MaxFires <- 2, MaxTries <- 2, MaxFaults <- 1, MaxEdits <- 1,
                Frequencies <- {"immediate", "daily", "weekly"}, Together <- FALSE, Duties <- {"read"}
\* One user who reads, deletes and changes the preference; invocations cut short.
Choices == INSTANCE NotificationDigests WITH req <- job, Users <- {"u1"}, Notices <- Two, Requests <- {"q1"},
                Crons <- {"k1"}, Week <- 2, Batch <- 2, MaxFires <- 2, MaxTries <- 1, MaxFaults <- 1, MaxEdits <- 2,
                Frequencies <- {"immediate", "daily", "weekly", "never"}, Together <- FALSE,
                Duties <- {"read", "save", "delete", "cut"}
\* A week of three days, two users in a batch.
Weeks == INSTANCE NotificationDigests WITH req <- job, Users <- {x1, x2}, Notices <- Two, Requests <- {"q1"},
                Crons <- {"k1"}, Week <- 3, Batch <- 2, MaxFires <- 1, MaxTries <- 1, MaxFaults <- 1, MaxEdits <- 1,
                Frequencies <- {"daily", "weekly", "never"}, Together <- FALSE, Duties <- {"read"}

\* Two requests at once register the browsers of two accounts.
Registering == INSTANCE PushDevices WITH req <- job, Users <- Two, Endpoints <- {x1, x2}, Requests <- {"q1", "q2"},
                MaxDevices <- 1, MaxFailures <- 2, MaxEdits <- 4, MaxPushes <- 1, Together <- TRUE
\* One request at a time, with enough fan-outs to drop a browser for its failures.
Pushing == INSTANCE PushDevices WITH req <- job, Users <- Two, Endpoints <- Three, Requests <- {"q1"},
                MaxDevices <- 2, MaxFailures <- 2, MaxEdits <- 4, MaxPushes <- 3, Together <- FALSE

ASSUME Late!RollupAssumption /\ Missed!RollupAssumption /\ Daily!RollupAssumption
ASSUME Digests!DigestAssumption /\ Choices!DigestAssumption /\ Weeks!DigestAssumption
ASSUME Registering!PushAssumption /\ Pushing!PushAssumption

-----------------------------------------------------------------------------
(* The behaviours *)

MCInit ==
    /\ Init
    /\ \/ part = "crashes" /\ NoRollup /\ NoDigests /\ NoPush /\ NoJob
       \/ /\ \/ part = "late" /\ Late!Init
             \/ part = "missed" /\ Missed!Init
             \/ part = "daily" /\ Daily!Init
          /\ NoDigests /\ NoPush /\ NoJob
       \/ /\ \/ part = "digests" /\ Digests!Init
             \/ part = "choices" /\ Choices!Init
             \/ part = "weeks" /\ Weeks!Init
          /\ NoRollup /\ NoPush
       \/ /\ \/ part = "registering" /\ Registering!Init
             \/ part = "pushing" /\ Pushing!Init
          /\ NoRollup /\ NoDigests

MCNext ==
    /\ UNCHANGED part
    /\ \/ part = "crashes" /\ Next /\ UNCHANGED <<rollupVars, digestVars, pushVars, edits, job>>
       \/ /\ \/ part = "late" /\ Late!Next
             \/ part = "missed" /\ Missed!Next
             \/ part = "daily" /\ Daily!Next
          /\ UNCHANGED <<vars, digestVars, pushVars, edits, job>>
       \/ /\ \/ part = "digests" /\ Digests!Next
             \/ part = "choices" /\ Choices!Next
             \/ part = "weeks" /\ Weeks!Next
          /\ UNCHANGED <<vars, rollupVars, pushVars>>
       \/ /\ \/ part = "registering" /\ Registering!Next
             \/ part = "pushing" /\ Pushing!Next
          /\ UNCHANGED <<vars, rollupVars, digestVars>>

MCSpec == MCInit /\ [][MCNext]_allVars

-----------------------------------------------------------------------------
(* Properties, with CountsOnce, SightingsAreExact and ResolutionHolds of CrashReports *)

\* Nothing is purged before the row of its day stands for it (services/rollup.ts); a notification is
\* mailed once however often its event and the cron come, and its user is stamped with it
\* (services/digest.ts); a preference is saved switch by switch (services/recipients.ts); and no account
\* keeps more browsers than the limit (services/push.ts).
QueuesHold ==
    /\ part = "late" => Late!TypeOK /\ Late!CondensedBeforePurged
    /\ part = "missed" => Missed!CondensedBeforePurged
    /\ part = "digests" => Digests!TypeOK /\ Digests!MailedOnce /\ Digests!StampedWithRows
    /\ part = "choices" => Choices!SwitchesKept
    /\ part = "registering" => Registering!TypeOK /\ Registering!DevicesLimited

\* What no step does: take a sample from what a day shows, mail what was read, end the digests of a day
\* with something owed, drop a browser that was used later than one that is kept or did not fail
\* often enough, or push to a browser that is another account's.
QueueMoves == [][
    /\ part = "daily" => Daily!ShownNeverShrinks
    /\ part = "choices" => Choices!ReadIsNotMailed
    /\ part = "weeks" => Weeks!NothingLeftOver
    /\ part = "pushing" => Pushing!LeastRecentDropped /\ Pushing!DroppedForFailures /\ Pushing!OwnScreens]_allVars

=============================================================================
