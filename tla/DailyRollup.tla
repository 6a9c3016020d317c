------------------------------- MODULE DailyRollup -------------------------------
(***************************************************************************)
(* The telemetry of apps/custom-apps by day: what devices measured reaches *)
(* the raw tables late or twice, the nightly roll-up condenses the two     *)
(* days before today into one row each, the purge deletes what is past the *)
(* retention, and the panel reads the rows of past days and computes the   *)
(* last two.  One installation; a day counts its samples and events.       *)
(***************************************************************************)
EXTENDS Naturals, FiniteSets

CONSTANTS
    Samples,    \* measurements and events, by their natural keys
    None,       \* the absent value
    Retention,  \* rawRetentionDays
    MaxLate,    \* bound: days a sample may wait in the device
    MaxMissed,  \* bound: nights in a row without a roll-up
    Days        \* bound: the days of the run, from 0

RollupAssumption ==
    /\ Retention \in Nat \ {0} /\ MaxLate \in Nat /\ MaxMissed \in Nat /\ Days \in Nat
    /\ None \notin 0 .. Days

VARIABLES today,    \* the day in Santiago
          rolled,   \* whether tonight's roll-up has run
          missed,   \* nights in a row without one
          taken,    \* device: the day of each sample
          queued,   \* samples in the telemetry queue
          raw,      \* tables metric_samples, usage_events, usage_hourly: what is there
          purged,   \* samples the purge deleted
          daily     \* table installation_daily: the samples each row stands for

vars == <<today, rolled, missed, taken, queued, raw, purged, daily>>

AllDays == 0 .. Days

TypeOK ==
    /\ today \in AllDays
    /\ rolled \in BOOLEAN
    /\ missed \in 0 .. MaxMissed + 1
    /\ taken \in [Samples -> AllDays \cup {None}]
    /\ queued \in SUBSET Samples
    /\ raw \in SUBSET Samples
    /\ purged \in SUBSET Samples
    /\ daily \in [AllDays -> [there : BOOLEAN, of : SUBSET Samples]]

Taken(s) == taken[s] # None
NoDay == [there |-> FALSE, of |-> {}]

-----------------------------------------------------------------------------
\* The device measures something today.
Measure(s) ==
    /\ ~Taken(s)
    /\ taken' = [taken EXCEPT ![s] = today]
    /\ UNCHANGED <<today, rolled, missed, queued, raw, purged, daily>>

\* What the ingest accepts.
WithinWindow(s) == taken[s] + Retention >= today

\* POST .../metrics and .../events: sent at once, or when the network is back, or again.
Send(s) ==
    /\ Taken(s) /\ WithinWindow(s) /\ today - taken[s] <= MaxLate /\ s \notin queued
    /\ queued' = queued \cup {s}
    /\ UNCHANGED <<today, rolled, missed, taken, raw, purged, daily>>

\* The consumer inserts what is not there; it may be delivered again.
Consume(s) ==
    /\ s \in queued
    /\ raw' = raw \cup {s}
    /\ \E again \in BOOLEAN : queued' = IF again THEN queued ELSE queued \ {s}
    /\ UNCHANGED <<today, rolled, missed, taken, purged, daily>>

FaultyComputeDaily(d) == {taken[s] : s \in {x \in raw : taken[x] = d}}

\* A day, computed from the raw tables.
ComputeDaily(d) == {s \in raw : taken[s] = d}

FaultyRolledDays == {d \in AllDays : d + 1 = today}

\* Yesterday, and the day before again.
RolledDays == {d \in AllDays : d + 1 = today \/ d + 2 = today}

FaultyExpired == {s \in raw : taken[s] + Retention <= today + 1}

Expired == {s \in raw : taken[s] + Retention < today}

\* The hourly run at the roll-up's hour: the purge, then the roll-up, which replaces the rows of
\* the days that have anything. The queue has had the hours since midnight to deliver what was
\* sent before.
RunNightly ==
    /\ ~rolled
    /\ \A s \in queued : taken[s] = today
    /\ rolled' = TRUE /\ missed' = 0
    /\ raw' = raw \ Expired
    /\ purged' = purged \cup Expired
    /\ daily' = [d \in AllDays |->
                    IF d \in RolledDays /\ ComputeDaily(d) \ Expired # {}
                    THEN [there |-> TRUE, of |-> ComputeDaily(d) \ Expired] ELSE daily[d]]
    /\ UNCHANGED <<today, taken, queued>>

\* Every other hour: the purge alone.
RunHourly ==
    /\ Expired # {}
    /\ raw' = raw \ Expired
    /\ purged' = purged \cup Expired
    /\ UNCHANGED <<today, rolled, missed, taken, queued, daily>>

\* Midnight.
NextDay ==
    /\ today < Days
    /\ rolled \/ missed < MaxMissed
    /\ today' = today + 1
    /\ rolled' = FALSE
    /\ missed' = IF rolled THEN missed ELSE missed + 1
    /\ UNCHANGED <<taken, queued, raw, purged, daily>>

FaultyLiveDays == {d \in AllDays : d = today}

\* The days computed live when no row is there.
LiveDays == {d \in AllDays : d = today \/ d + 1 = today}

\* What the panel shows for a day.
Shown(d) == IF daily[d].there THEN daily[d].of
            ELSE IF d \in LiveDays THEN ComputeDaily(d) ELSE {}

\* GET .../metrics/daily, .../usage
Read == UNCHANGED vars

-----------------------------------------------------------------------------
Init ==
    /\ today = 0 /\ rolled = FALSE /\ missed = 0
    /\ taken = [s \in Samples |-> None]
    /\ queued = {} /\ raw = {} /\ purged = {}
    /\ daily = [d \in AllDays |-> NoDay]

Next ==
    \/ \E s \in Samples : Measure(s) \/ Send(s) \/ Consume(s)
    \/ RunNightly \/ RunHourly \/ NextDay \/ Read

Spec == Init /\ [][Next]_vars

-----------------------------------------------------------------------------
\* Nothing is purged before the row of its day stands for it (services/rollup.ts).
CondensedBeforePurged == \A s \in purged : s \in daily[taken[s]].of

\* The totals the panel shows of a day never lose a sample, neither when the day ends nor when its
\* row takes over nor when the raw rows go.
ShownNeverShrinks == \A d \in AllDays : Shown(d) \subseteq Shown(d)'

=============================================================================
