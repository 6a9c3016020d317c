------------------------------ MODULE CrashReports ------------------------------
(***************************************************************************)
(* The crash reports of apps/custom-apps: a device sends a report, perhaps *)
(* twice, it travels in the telemetry queue, which delivers at least once  *)
(* and in any order, and is counted into its group; editors resolve,       *)
(* ignore and reopen the group; reports past the retention are purged.     *)
(* One group: reports of one signature and version.                        *)
(***************************************************************************)
EXTENDS Naturals, FiniteSets

CONSTANTS
    Reports,    \* identifiers minted by the devices
    Reqs,       \* the editors
    None,       \* the absent value
    Retention,  \* rawRetentionDays
    MaxTime,    \* bound: the clock stops there
    MaxSends,   \* bound: messages a report is sent in
    MaxRetries, \* deliveries of a message that may fail after they are stored
    Prompt      \* bound: whether every message is consumed before its report expires

ASSUME CrashAssumption ==
    /\ Retention \in Nat /\ MaxTime \in Nat /\ MaxSends \in Nat /\ MaxRetries \in Nat
    /\ Prompt \in BOOLEAN /\ None \notin 0 .. MaxTime

VARIABLES now,      \* the clock
          made,     \* device: when each crash occurred
          queue,    \* the telemetry queue: messages of each report, in flight
          retries,  \* deliveries of each report that failed after the commit
          stored,   \* table crash_reports
          counted,  \* how many times each report was counted
          group,    \* the row of crash_groups
          req       \* the editors' requests

vars == <<now, made, queue, retries, stored, counted, group, req>>

Times == 0 .. MaxTime
Statuses == {"open", "resolved", "ignored"}
Group == [status : {"none"} \cup Statuses, first : Times, last : Times,
          resolved : Times \cup {None}]
NoGroup == [status |-> "none", first |-> 0, last |-> 0, resolved |-> None]

TypeOK ==
    /\ now \in Times
    /\ made \in [Reports -> Times \cup {None}]
    /\ queue \in [Reports -> 0 .. MaxSends]
    /\ retries \in [Reports -> 0 .. MaxRetries]
    /\ stored \in SUBSET Reports
    /\ counted \in [Reports -> Nat]
    /\ group \in Group
    /\ req \in [Reqs -> Statuses \cup {"none"}]

Least(a, b) == IF a < b THEN a ELSE b
Most(a, b) == IF a > b THEN a ELSE b

-----------------------------------------------------------------------------
\* What the ingest accepts: nothing older than the retention. (The future is out of the model:
\* a crash occurs when the device says.)
WithinWindow(c) == now - made[c] <= Retention

Crash(c) ==
    /\ made[c] = None
    /\ made' = [made EXCEPT ![c] = now]
    /\ UNCHANGED <<now, queue, retries, stored, counted, group, req>>

\* POST .../crashes, which a device that saw no answer sends again.
Send(c) ==
    /\ made[c] # None /\ WithinWindow(c) /\ queue[c] < MaxSends
    /\ queue' = [queue EXCEPT ![c] = @ + 1]
    /\ UNCHANGED <<now, made, retries, stored, counted, group, req>>

FaultyIsNew(c) == group.status = "none" \/ group.last # made[c] \/ c \notin stored

FaultyCountsAgain(c) == c \notin stored /\ group.status # "ignored"

\* A report is counted when it is not stored yet.
IsNew(c) == c \notin stored

FaultyReopens(c) == FALSE

\* A crash after the resolution reopens the group.
Reopens(c) == group.status = "resolved" /\ made[c] > group.resolved

FaultySeen(c) == [group EXCEPT !.last = made[c], !.first = Least(@, made[c])]

\* The group keeps its first and last sighting, in whatever order reports come.
Seen(c) == [group EXCEPT !.first = Least(@, made[c]), !.last = Most(@, made[c])]

FaultyFirstOf(c) == [status |-> "fresh", first |-> made[c], last |-> made[c], resolved |-> None]

FirstOf(c) == [status |-> "open", first |-> made[c], last |-> made[c], resolved |-> None]

\* The group and the report in one transaction.
Store(c) ==
    /\ stored' = stored \cup {c}
    /\ IF IsNew(c)
       THEN /\ counted' = [counted EXCEPT ![c] = @ + 1]
            /\ group' = IF group.status = "none" THEN FirstOf(c)
                        ELSE IF Reopens(c) THEN [Seen(c) EXCEPT !.status = "open", !.resolved = None]
                        ELSE Seen(c)
       ELSE UNCHANGED <<counted, group>>

\* The consumer stores the batch and acknowledges it,
Consume(c) ==
    /\ queue[c] > 0
    /\ Store(c)
    /\ queue' = [queue EXCEPT ![c] = @ - 1]
    /\ UNCHANGED <<now, made, retries, req>>

\* or stores it and fails before it is acknowledged: a later chunk of the batch throws.
ConsumeAndFail(c) ==
    /\ queue[c] > 0 /\ retries[c] < MaxRetries
    /\ Store(c)
    /\ retries' = [retries EXCEPT ![c] = @ + 1]
    /\ UNCHANGED <<now, made, queue, req>>

\* The hourly purge takes reports past the retention; the group stays.
Purge ==
    /\ LET old == {c \in stored : made[c] + Retention < now} IN
        /\ old # {} /\ stored' = stored \ old
    /\ UNCHANGED <<now, made, queue, retries, counted, group, req>>

Tick ==
    /\ now < MaxTime
    /\ Prompt => \A c \in Reports : queue[c] > 0 => made[c] + Retention > now
    /\ now' = now + 1
    /\ UNCHANGED <<made, queue, retries, stored, counted, group, req>>

-----------------------------------------------------------------------------
\* PATCH /crashes/:id reads the group; another status is written later.
BeginStatus(r) ==
    /\ req[r] = "none" /\ group.status # "none"
    /\ \E s \in Statuses \ {group.status} : req' = [req EXCEPT ![r] = s]
    /\ UNCHANGED <<now, made, queue, retries, stored, counted, group>>

SetStatus(r) ==
    /\ req[r] # "none"
    /\ group' = [group EXCEPT !.status = req[r], !.resolved = IF req[r] = "resolved" THEN now ELSE None]
    /\ req' = [req EXCEPT ![r] = "none"]
    /\ UNCHANGED <<now, made, queue, retries, stored, counted>>

\* GET: the lists of groups, reports and log entries.
List == UNCHANGED vars

-----------------------------------------------------------------------------
Init ==
    /\ now = 0
    /\ made = [c \in Reports |-> None]
    /\ queue = [c \in Reports |-> 0]
    /\ retries = [c \in Reports |-> 0]
    /\ stored = {}
    /\ counted = [c \in Reports |-> 0]
    /\ group = NoGroup
    /\ req = [r \in Reqs |-> "none"]

Next ==
    \/ \E c \in Reports : Crash(c) \/ Send(c) \/ Consume(c) \/ ConsumeAndFail(c)
    \/ \E r \in Reqs : BeginStatus(r) \/ SetStatus(r)
    \/ Purge \/ Tick \/ List

Spec == Init /\ [][Next]_vars

\* The queue delivers what it holds, and a delivery fails only so often.
FairSpec == Spec /\ \A c \in Reports : WF_vars(Consume(c))

-----------------------------------------------------------------------------
\* A report counts once, however often it is sent and delivered (panel: occurrences).
CountsOnce == \A c \in Reports : counted[c] <= 1

\* The first and the last sighting of the group are those of the reports counted, whatever order
\* the queue delivered them in and whatever was purged since.
SightingsAreExact ==
    LET all == {made[c] : c \in {d \in Reports : counted[d] > 0}} IN
    group.status # "none" =>
        /\ group.first \in all /\ group.last \in all
        /\ \A t \in all : group.first <= t /\ t <= group.last

\* A group is resolved only while no crash counted into it happened after the resolution.
ResolutionHolds == group.status = "resolved" =>
    \A c \in Reports : counted[c] > 0 => made[c] <= group.resolved

\* A report the ingest accepted is counted in the end, though deliveries fail.
AcceptedIsCounted == \A c \in Reports : queue[c] > 0 => counted[c] > 0

=============================================================================
