---------------------------- MODULE QueuesProofs ----------------------------
(***************************************************************************)
(* Proofs about what arrives more than once, late or out of order, for     *)
(* every number of reports, samples, days, devices, users and requests.    *)
(* Crash reports: while each message is consumed before its report         *)
(* expires, a report counts once however often it is sent and delivered,   *)
(* and the group says when the first and the last of its crashes were.     *)
(* The nightly roll-up: where a sample misses one night at most,           *)
(* nothing is purged before it is condensed.  Push devices: whenever no    *)
(* request is under way an account has no more of them than the limit.     *)
(***************************************************************************)
EXTENDS CrashReports, FiniteSets, FiniteSetTheorems, WellFoundedInduction, NaturalsInduction, TLAPS

CONSTANTS
    Samples, MaxLate, MaxMissed, Days,                                               \* DailyRollup
    Users, Endpoints, Requests, MaxDevices, MaxFailures, MaxEdits, MaxPushes, Together  \* PushDevices

VARIABLES
    today, rolled, missed, taken, queued, raw, purged, daily,                        \* DailyRollup
    device, dead, streak, edits, pushes, job                                         \* PushDevices

R == INSTANCE DailyRollup
U == INSTANCE PushDevices WITH req <- job

-----------------------------------------------------------------------------
(* Crash reports *)

Counted == {c \in Reports : counted[c] > 0}

\* A message is in flight only inside the window of its report.
InFlight == \A c \in Reports :
    /\ made[c] # None => made[c] <= now
    /\ queue[c] > 0 => made[c] # None /\ now <= made[c] + Retention

\* What is stored was counted, and what was counted is stored or past its window.
CountedOrPast ==
    /\ stored \subseteq Counted
    /\ \A c \in Counted : made[c] # None /\ (c \in stored \/ made[c] + Retention < now)

\* The group is there once a report counts, and spans those that do.
Spans ==
    /\ Counted # {} => group.status # "none"
    /\ group.status = "resolved" => group.resolved # None
    /\ group.status # "none" =>
         /\ \E c \in Counted : made[c] = group.first
         /\ \E c \in Counted : made[c] = group.last
         /\ \A c \in Counted : group.first <= made[c] /\ made[c] <= group.last

\* Editors decide only about a group that is there.
Editing == \A r \in Reqs : req[r] # "none" => group.status # "none"

\* The inductive invariant.
Inv == TypeOK /\ InFlight /\ CountedOrPast /\ CountsOnce /\ Spans /\ ResolutionHolds /\ Editing

-----------------------------------------------------------------------------
\* Nothing has crashed yet.
LEMMA InitInv == Init => Inv
<1> SUFFICES ASSUME Init PROVE Inv
  OBVIOUS
<1>1. TypeOK
  <2>1. 0 \in Times /\ 0 \in 0 .. MaxSends /\ 0 \in 0 .. MaxRetries
    BY CrashAssumption DEF Times
  <2> QED
    BY <2>1 DEF Init, TypeOK, Group, NoGroup
<1>2. Counted = {}
  BY DEF Counted, Init
<1>3. InFlight /\ CountedOrPast /\ CountsOnce /\ Spans /\ ResolutionHolds /\ Editing
  BY <1>2 DEF Init, InFlight, CountedOrPast, CountsOnce, Spans, ResolutionHolds, Editing, NoGroup
<1> QED
  BY <1>1, <1>3 DEF Inv

\* The types that steps of the clock and of crashes need as numbers.
LEMMA Numbers ==
    ASSUME Inv
    PROVE  /\ now \in Nat /\ now <= MaxTime
           /\ \A c \in Reports : made[c] # None => made[c] \in Nat
           /\ \A c \in Reports : queue[c] \in Nat /\ counted[c] \in Nat
           /\ group.first \in Nat /\ group.last \in Nat
           /\ group.resolved # None => group.resolved \in Nat
BY CrashAssumption DEF Inv, TypeOK, Times, Group

\* A crash happens now.
LEMMA CrashInv ==
    ASSUME Inv, NEW c \in Reports, Crash(c)
    PROVE  Inv'
<1>1. made' = [made EXCEPT ![c] = now] /\ made[c] = None /\ UNCHANGED <<now, queue, retries, stored, counted, group, req>>
  BY DEF Crash
<1>2. made' \in [Reports -> Times \cup {None}]
  BY <1>1 DEF Inv, TypeOK
<1>3. TypeOK'
  BY <1>1, <1>2 DEF Inv, TypeOK
<1>4. \A d \in Reports : d # c => made'[d] = made[d]
  BY <1>1 DEF Inv, TypeOK
<1>5. made'[c] = now /\ now \in Nat
  BY <1>1, Numbers DEF Inv, TypeOK
<1>6. c \notin Counted /\ Counted' = Counted /\ queue[c] = 0
  BY <1>1, Numbers DEF Inv, CountedOrPast, Counted, InFlight
<1>7. \A d \in Counted : d \in Reports /\ made'[d] = made[d]
  BY <1>4, <1>6 DEF Counted
<1>8. InFlight'
  <2> SUFFICES ASSUME NEW d \in Reports
               PROVE  /\ made'[d] # None => made'[d] <= now
                      /\ queue[d] > 0 => made'[d] # None /\ now <= made'[d] + Retention
    BY <1>1 DEF InFlight
  <2>1. CASE d = c
    BY <1>5, <1>6, <2>1
  <2>2. CASE d # c
    BY <1>4, <2>2 DEF Inv, InFlight
  <2> QED
    BY <2>1, <2>2
<1>9. CountedOrPast' /\ CountsOnce' /\ Spans' /\ Editing'
  BY <1>1, <1>6, <1>7 DEF Inv, CountedOrPast, CountsOnce, Spans, Editing
<1>10. ResolutionHolds'
  BY <1>1, <1>6, <1>7 DEF Inv, ResolutionHolds, Counted
<1> QED
  BY <1>3, <1>8, <1>9, <1>10 DEF Inv

\* A message is sent inside the window, and one is consumed: neither touches what is counted.
LEMMA QueueInv ==
    ASSUME Inv, NEW c \in Reports, UNCHANGED <<now, made, stored, counted, group, req>>, TypeOK',
           \A d \in Reports : queue'[d] > 0 => queue[d] > 0 \/ (d = c /\ made[c] # None /\ now <= made[c] + Retention)
    PROVE  Inv'
<1>1. InFlight'
  BY DEF Inv, InFlight
<1>2. Counted' = Counted
  BY DEF Counted
<1> QED
  BY <1>1, <1>2 DEF Inv, CountedOrPast, CountsOnce, Spans, ResolutionHolds, Editing

LEMMA SendInv ==
    ASSUME Inv, NEW c \in Reports, Send(c)
    PROVE  Inv'
<1>1. /\ made[c] # None /\ now - made[c] <= Retention /\ queue[c] < MaxSends /\ queue' = [queue EXCEPT ![c] = @ + 1]
      /\ UNCHANGED <<now, made, retries, stored, counted, group, req>>
  BY DEF Send, WithinWindow
<1>2. now \in Nat /\ made[c] \in Nat /\ Retention \in Nat /\ MaxSends \in Nat
  BY <1>1, Numbers, CrashAssumption
<1>3. now <= made[c] + Retention
  BY <1>1, <1>2
<1>4. queue' \in [Reports -> 0 .. MaxSends] /\ \A d \in Reports : d # c => queue'[d] = queue[d]
  BY <1>1, <1>2 DEF Inv, TypeOK
<1>5. TypeOK'
  BY <1>1, <1>4 DEF Inv, TypeOK
<1>6. \A d \in Reports : queue'[d] > 0 => queue[d] > 0 \/ (d = c /\ made[c] # None /\ now <= made[c] + Retention)
  BY <1>1, <1>3, <1>4
<1> QED
  BY <1>1, <1>5, <1>6, QueueInv

-----------------------------------------------------------------------------
\* A report that is consumed is inside its window: it is stored, or it was never counted.
LEMMA FirstTime ==
    ASSUME Inv, NEW c \in Reports, queue[c] > 0
    PROVE  made[c] \in Nat /\ now <= made[c] + Retention /\ (c \notin stored => counted[c] = 0)
<1>1. made[c] # None /\ now <= made[c] + Retention
  BY DEF Inv, InFlight
<1>2. made[c] \in Nat /\ now \in Nat /\ Retention \in Nat /\ counted[c] \in Nat
  BY <1>1, Numbers, CrashAssumption
<1>3. ~ made[c] + Retention < now
  BY <1>1, <1>2
<1>4. c \notin stored => c \notin Counted
  BY <1>3 DEF Inv, CountedOrPast
<1> QED
  BY <1>1, <1>2, <1>4 DEF Counted

\* What a sighting leaves of the first and the last.
LEMMA SeenIs ==
    ASSUME Inv, NEW c \in Reports, made[c] \in Times
    PROVE  /\ Seen(c) \in Group /\ Seen(c).status = group.status /\ Seen(c).resolved = group.resolved
           /\ Seen(c).first \in {group.first, made[c]} /\ Seen(c).last \in {group.last, made[c]}
           /\ Seen(c).first <= group.first /\ Seen(c).first <= made[c]
           /\ Seen(c).last >= group.last /\ Seen(c).last >= made[c]
<1>1. group \in Group /\ Times \subseteq Nat
  BY CrashAssumption DEF Inv, TypeOK, Times
<1>2. /\ Seen(c).first = Least(group.first, made[c]) /\ Seen(c).last = Most(group.last, made[c])
      /\ Seen(c).status = group.status /\ Seen(c).resolved = group.resolved
  BY <1>1 DEF Seen, Group
<1>3. /\ Least(group.first, made[c]) \in {group.first, made[c]} /\ Most(group.last, made[c]) \in {group.last, made[c]}
      /\ Least(group.first, made[c]) <= group.first /\ Least(group.first, made[c]) <= made[c]
      /\ Most(group.last, made[c]) >= group.last /\ Most(group.last, made[c]) >= made[c]
  <2>1. group.first \in Nat /\ group.last \in Nat /\ made[c] \in Nat
    BY <1>1 DEF Group
  <2> QED
    BY <2>1 DEF Least, Most
<1>4. Seen(c) \in Group
  <2>1. Least(group.first, made[c]) \in Times /\ Most(group.last, made[c]) \in Times
    BY <1>1, <1>3 DEF Group
  <2> QED
    BY <1>1, <2>1 DEF Seen, Group
<1> QED
  BY <1>2, <1>3, <1>4

\* A report that counts for the first time widens the group by itself.
LEMMA StoreInv ==
    ASSUME Inv, NEW c \in Reports, queue[c] > 0, Store(c), UNCHANGED <<now, made>>
    PROVE  /\ stored' \subseteq Reports /\ counted' \in [Reports -> Nat] /\ group' \in Group
           /\ CountedOrPast' /\ CountsOnce' /\ Spans' /\ ResolutionHolds' /\ group'.status # "none"
<1>0. /\ made[c] \in Nat /\ made[c] # None /\ made[c] \in Times /\ stored' = stored \cup {c} /\ stored \subseteq Reports
      /\ group \in Group /\ counted \in [Reports -> Nat] /\ Times \subseteq Nat
  BY FirstTime, CrashAssumption DEF Inv, InFlight, TypeOK, Times, Store
<1>1. CASE c \in stored
  <2>1. UNCHANGED <<counted, group>> /\ stored' = stored
    BY <1>0, <1>1 DEF Store, IsNew
  <2>2. group.status # "none"
    BY <1>1 DEF Inv, CountedOrPast, Spans
  <2> QED
    BY <1>0, <2>1, <2>2 DEF Inv, CountedOrPast, CountsOnce, Spans, ResolutionHolds, Counted
<1>2. CASE c \notin stored
  <2>1. counted[c] = 0 /\ counted' = [counted EXCEPT ![c] = @ + 1]
    BY <1>2, FirstTime DEF Store, IsNew
  <2>2. /\ counted' \in [Reports -> Nat] /\ counted'[c] = 1
        /\ \A d \in Reports : d # c => counted'[d] = counted[d]
    BY <1>0, <2>1
  <2>3. c \notin Counted /\ Counted' = Counted \cup {c}
    BY <2>1, <2>2 DEF Counted
  <2>4. CountedOrPast'
    BY <1>0, <2>3 DEF Inv, CountedOrPast
  <2>5. CountsOnce'
    <3> SUFFICES ASSUME NEW d \in Reports PROVE counted'[d] <= 1
      BY DEF CountsOnce
    <3>1. CASE d = c
      BY <2>2, <3>1
    <3>2. CASE d # c
      BY <2>2, <3>2 DEF Inv, CountsOnce
    <3> QED
      BY <3>1, <3>2
  <2>6. CASE group.status = "none"
    <3>1. Counted = {} /\ Counted' = {c}
      BY <2>3, <2>6 DEF Inv, Spans
    <3>2. group' = FirstOf(c)
      BY <1>2, <2>6 DEF Store, IsNew
    <3>3. group' \in Group /\ group'.status = "open" /\ group'.first = made[c] /\ group'.last = made[c]
      BY <1>0, <3>2 DEF FirstOf, Group, Statuses
    <3>4. Spans' /\ ResolutionHolds'
      BY <1>0, <3>1, <3>3 DEF Spans, ResolutionHolds
    <3> QED
      BY <1>0, <2>2, <2>4, <2>5, <3>3, <3>4
  <2>7. CASE group.status # "none"
    <3>1. /\ group'.first = Seen(c).first /\ group'.last = Seen(c).last /\ group' \in Group
          /\ \/ Reopens(c) /\ group'.status = "open"
             \/ ~ Reopens(c) /\ group'.status = group.status /\ group'.resolved = group.resolved
      <4>1. CASE Reopens(c)
        BY <1>0, <1>2, <2>7, <4>1, SeenIs DEF Store, IsNew, Group, Statuses
      <4>2. CASE ~ Reopens(c)
        BY <1>0, <1>2, <2>7, <4>2, SeenIs DEF Store, IsNew
      <4> QED
        BY <4>1, <4>2
    <3>2. /\ group'.first \in {group.first, made[c]} /\ group'.last \in {group.last, made[c]}
          /\ group'.first <= group.first /\ group'.first <= made[c]
          /\ group'.last >= group.last /\ group'.last >= made[c]
      BY <1>0, <3>1, SeenIs
    <3>3. group.first \in Nat /\ group.last \in Nat /\ group'.first \in Nat /\ group'.last \in Nat
      BY <1>0, <3>2, Numbers
    <3>4. Spans'
      <4>1. \E d \in Counted' : made[d] = group'.first
        BY <2>3, <2>7, <3>2 DEF Inv, Spans
      <4>2. \E d \in Counted' : made[d] = group'.last
        BY <2>3, <2>7, <3>2 DEF Inv, Spans
      <4>3. ASSUME NEW d \in Counted' PROVE group'.first <= made[d] /\ made[d] <= group'.last
        <5>1. CASE d = c
          BY <3>2, <5>1
        <5>2. CASE d # c
          <6>1. d \in Counted /\ d \in Reports /\ made[d] # None
            BY <2>3, <5>2 DEF Inv, CountedOrPast, Counted
          <6>2. made[d] \in Nat /\ group.first <= made[d] /\ made[d] <= group.last
            BY <2>7, <6>1, Numbers DEF Inv, Spans
          <6> QED
            BY <3>2, <3>3, <6>2
        <5> QED
          BY <5>1, <5>2
      <4>4. group'.status # "none" /\ (group'.status = "resolved" => group'.resolved # None)
        BY <2>7, <3>1 DEF Inv, Spans
      <4> QED
        BY <4>1, <4>2, <4>3, <4>4 DEF Spans
    <3>5. ResolutionHolds'
      <4> SUFFICES ASSUME group'.status = "resolved", NEW d \in Reports, counted'[d] > 0 PROVE made[d] <= group'.resolved
        BY DEF ResolutionHolds
      <4>1. ~ Reopens(c) /\ group.status = "resolved" /\ group'.resolved = group.resolved
        BY <3>1
      <4>2. group.resolved \in Nat
        BY <4>1, Numbers DEF Inv, Spans
      <4>3. CASE d = c
        BY <1>0, <4>1, <4>2, <4>3 DEF Reopens
      <4>4. CASE d # c
        BY <2>2, <4>1, <4>4 DEF Inv, ResolutionHolds
      <4> QED
        BY <4>3, <4>4
    <3>6. group'.status # "none"
      BY <2>7, <3>1
    <3> QED
      BY <1>0, <2>2, <2>4, <2>5, <3>1, <3>4, <3>5, <3>6
  <2> QED
    BY <2>6, <2>7
<1> QED
  BY <1>1, <1>2

\* A delivery, acknowledged or not.
LEMMA ConsumeInv ==
    ASSUME Inv, NEW c \in Reports, Consume(c) \/ ConsumeAndFail(c)
    PROVE  Inv'
<1>1. queue[c] > 0 /\ Store(c) /\ UNCHANGED <<now, made, req>>
  BY DEF Consume, ConsumeAndFail
<1>2. /\ stored' \subseteq Reports /\ counted' \in [Reports -> Nat] /\ group' \in Group
      /\ CountedOrPast' /\ CountsOnce' /\ Spans' /\ ResolutionHolds' /\ group'.status # "none"
  BY <1>1, StoreInv
<1>3. /\ queue' \in [Reports -> 0 .. MaxSends] /\ retries' \in [Reports -> 0 .. MaxRetries]
      /\ \A d \in Reports : queue'[d] > 0 => queue[d] > 0
  <2>1. CASE Consume(c)
    <3>1. queue' = [queue EXCEPT ![c] = queue[c] - 1] /\ UNCHANGED retries /\ queue[c] \in 1 .. MaxSends
      BY <1>1, <2>1, CrashAssumption DEF Consume, Inv, TypeOK
    <3>2. queue[c] - 1 \in 0 .. MaxSends
      BY <3>1, CrashAssumption
    <3> QED
      BY <1>1, <3>1, <3>2 DEF Inv, TypeOK
  <2>2. CASE ConsumeAndFail(c)
    BY <2>2, CrashAssumption DEF ConsumeAndFail, Inv, TypeOK
  <2> QED
    BY <2>1, <2>2
<1>4. InFlight'
  BY <1>1, <1>3 DEF Inv, InFlight
<1>5. TypeOK' /\ Editing'
  BY <1>1, <1>2, <1>3 DEF Inv, TypeOK, Editing
<1> QED
  BY <1>2, <1>4, <1>5 DEF Inv

\* The purge takes what is past its window.
LEMMA PurgeInv == Inv /\ Purge => Inv'
<1> SUFFICES ASSUME Inv, Purge PROVE Inv'
  OBVIOUS
<1>1. UNCHANGED <<now, made, queue, retries, counted, group, req>> /\ stored' = stored \ {c \in stored : made[c] + Retention < now}
  BY DEF Purge
<1>2. Counted' = Counted
  BY <1>1 DEF Counted
<1>3. CountedOrPast'
  BY <1>1, <1>2 DEF Inv, CountedOrPast
<1> QED
  BY <1>1, <1>2, <1>3 DEF Inv, TypeOK, InFlight, CountsOnce, Spans, ResolutionHolds, Editing

\* Time passes, and no message outlives its window.
LEMMA TickInv ==
    ASSUME Inv, Tick, Prompt
    PROVE  Inv'
<1>1. now' = now + 1 /\ now < MaxTime /\ UNCHANGED <<made, queue, retries, stored, counted, group, req>>
  BY DEF Tick
<1>2. \A c \in Reports : queue[c] > 0 => made[c] + Retention > now
  BY DEF Tick
<1>3. now \in Nat /\ Retention \in Nat /\ MaxTime \in Nat /\ Counted' = Counted
  BY <1>1, Numbers, CrashAssumption DEF Counted
<1>4. TypeOK'
  BY <1>1, <1>3 DEF Inv, TypeOK, Times
<1>5. InFlight'
  <2> SUFFICES ASSUME NEW c \in Reports
               PROVE  /\ made[c] # None => made[c] <= now + 1
                      /\ queue[c] > 0 => made[c] # None /\ now + 1 <= made[c] + Retention
    BY <1>1 DEF InFlight
  <2>1. made[c] # None => made[c] \in Nat /\ made[c] <= now
    BY Numbers DEF Inv, InFlight
  <2>2. queue[c] > 0 => made[c] # None
    BY DEF Inv, InFlight
  <2> QED
    BY <1>2, <1>3, <2>1, <2>2
<1>6. CountedOrPast'
  <2> SUFFICES ASSUME NEW c \in Counted PROVE made[c] # None /\ (c \in stored \/ made[c] + Retention < now + 1)
    BY <1>1, <1>3 DEF Inv, CountedOrPast
  <2>1. c \in Reports /\ made[c] # None /\ (c \in stored \/ made[c] + Retention < now)
    BY DEF Inv, CountedOrPast, Counted
  <2>2. made[c] \in Nat
    BY <2>1, Numbers
  <2> QED
    BY <1>3, <2>1, <2>2
<1> QED
  BY <1>1, <1>3, <1>4, <1>5, <1>6 DEF Inv, CountsOnce, Spans, ResolutionHolds, Editing

\* Editors change the status of a group; a resolution is later than every crash counted.
LEMMA StatusInv ==
    ASSUME Inv, NEW r \in Reqs, BeginStatus(r) \/ SetStatus(r)
    PROVE  Inv'
<1>1. UNCHANGED <<now, made, queue, retries, stored, counted>> /\ Counted' = Counted
  BY DEF BeginStatus, SetStatus, Counted
<1>2. CASE BeginStatus(r)
  <2>1. UNCHANGED group /\ req' \in [Reqs -> Statuses \cup {"none"}] /\ Editing'
    BY <1>2 DEF BeginStatus, Inv, TypeOK, Editing
  <2> QED
    BY <1>1, <2>1 DEF Inv, TypeOK, InFlight, CountedOrPast, CountsOnce, Spans, ResolutionHolds
<1>3. CASE SetStatus(r)
  <2>1. /\ req[r] \in Statuses /\ req' \in [Reqs -> Statuses \cup {"none"}]
        /\ group' = [group EXCEPT !.status = req[r], !.resolved = IF req[r] = "resolved" THEN now ELSE None]
    BY <1>3 DEF SetStatus, Inv, TypeOK
  <2>2. group \in Group /\ now \in Times
    BY DEF Inv, TypeOK
  <2>3. /\ group' \in Group /\ group'.first = group.first /\ group'.last = group.last /\ group'.status = req[r]
        /\ group'.status = "resolved" => group'.resolved = now
    BY <2>1, <2>2 DEF Group
  <2>4. TypeOK' /\ InFlight' /\ CountedOrPast' /\ CountsOnce'
    BY <1>1, <2>1, <2>3 DEF Inv, TypeOK, InFlight, CountedOrPast, CountsOnce
  <2>5. ResolutionHolds'
    BY <1>1, <2>3 DEF Inv, ResolutionHolds, CountedOrPast, Counted, InFlight
  <2>6. Spans' /\ Editing'
    <3>1. group.status # "none" /\ group'.status # "none"
      BY <1>3, <2>1, <2>3 DEF SetStatus, Inv, Editing, Statuses
    <3>2. now # None
      BY <2>2, CrashAssumption DEF Times
    <3> QED
      BY <1>1, <2>3, <3>1, <3>2 DEF Inv, Spans, Editing
  <2> QED
    BY <2>4, <2>5, <2>6 DEF Inv
<1> QED
  BY <1>2, <1>3

\* Every step keeps the invariant.
LEMMA NextInv == Prompt /\ Inv /\ [Next]_vars => Inv'
<1> SUFFICES ASSUME Prompt, Inv, [Next]_vars PROVE Inv'
  OBVIOUS
<1>1. CASE \E c \in Reports : Crash(c) \/ Send(c) \/ Consume(c) \/ ConsumeAndFail(c)
  BY <1>1, CrashInv, SendInv, ConsumeInv
<1>2. CASE \E r \in Reqs : BeginStatus(r) \/ SetStatus(r)
  BY <1>2, StatusInv
<1>3. CASE Purge \/ Tick
  BY <1>3, PurgeInv, TickInv
<1>4. CASE UNCHANGED vars
  BY <1>4 DEF vars, Inv, TypeOK, InFlight, CountedOrPast, Counted, CountsOnce, Spans, ResolutionHolds, Editing
<1> QED
  BY <1>1, <1>2, <1>3, <1>4 DEF Next, List

LEMMA InvHolds == Prompt /\ Spec => []Inv
<1> DEFINE PInv == Prompt /\ Inv
<1>1. Prompt /\ Init => PInv
  BY InitInv
<1>2. PInv /\ [Next]_vars => PInv'
  BY NextInv
<1>3. PInv => Inv
  OBVIOUS
<1> HIDE DEF PInv
<1> QED
  BY <1>1, <1>2, <1>3, PTL DEF Spec

-----------------------------------------------------------------------------
\* The clock, the queue, the tables and the editors have their types.
THEOREM TypeCorrect == Prompt /\ Spec => []TypeOK
<1>1. Inv => TypeOK
  BY DEF Inv
<1> QED
  BY InvHolds, <1>1, PTL

\* A report counts once, however often its device sends it and the queue delivers it.
THEOREM CountedOnce == Prompt /\ Spec => []CountsOnce
<1>1. Inv => CountsOnce
  BY DEF Inv
<1> QED
  BY InvHolds, <1>1, PTL

\* A group is not resolved while a later crash of it was counted.
THEOREM ResolvedIsQuiet == Prompt /\ Spec => []ResolutionHolds
<1>1. Inv => ResolutionHolds
  BY DEF Inv
<1> QED
  BY InvHolds, <1>1, PTL

\* The group names its first and its last crash, whatever order the queue delivered them in.
THEOREM SightingsExact == Prompt /\ Spec => []SightingsAreExact
<1>1. Inv => SightingsAreExact
  BY DEF Inv, Spans, SightingsAreExact, Counted
<1> QED
  BY InvHolds, <1>1, PTL

-----------------------------------------------------------------------------
(* The telemetry by day *)

\* A sample no row stands for yet was sent in time for the next roll-up.
InTime(s) == LET d == taken[s] IN
    s \in daily[d].of \/ today <= d + MaxLate + (IF rolled THEN 0 ELSE 1 + missed)

RollupInv ==
    /\ today \in 0 .. Days /\ rolled \in BOOLEAN /\ missed \in 0 .. MaxMissed
    /\ taken = [s \in Samples |-> taken[s]] /\ \A s \in Samples : taken[s] # None => taken[s] \in 0 .. today
    /\ raw \cup queued \cup purged \subseteq {s \in Samples : taken[s] # None}
    /\ daily = [d \in R!AllDays |-> daily[d]]
    /\ \A d \in R!AllDays : ~daily[d].there => daily[d].of = {}
    /\ \A d \in R!AllDays : \A s \in daily[d].of : s \in raw \cup purged /\ taken[s] = d
    /\ \A s \in raw \cup queued : InTime(s)
    /\ \A s \in purged : s \in daily[taken[s]].of /\ taken[s] + Retention < today

\* The night, or the two, a sample may miss, and what the purge leaves alone.
RollsInTime == R!RollupAssumption /\ MaxLate + MaxMissed <= 1 /\ Retention >= 2

LEMMA RollupInit == RollsInTime /\ R!Init => RollupInv
<1> SUFFICES ASSUME RollsInTime, R!Init PROVE RollupInv
  OBVIOUS
<1>0. Days \in Nat /\ MaxMissed \in Nat
  BY DEF RollsInTime, R!RollupAssumption
<1>1. today \in 0 .. Days /\ rolled \in BOOLEAN /\ missed \in 0 .. MaxMissed
  <2>1. today = 0 /\ missed = 0 /\ rolled = FALSE
    BY DEF R!Init
  <2>2. rolled \in BOOLEAN
    BY <2>1, Zenon
  <2>3. today \in 0 .. Days /\ missed \in 0 .. MaxMissed
    BY <1>0, <2>1
  <2> QED
    BY <2>2, <2>3
<1>2. taken = [s \in Samples |-> taken[s]] /\ \A s \in Samples : taken[s] = None
  BY DEF R!Init
<1>3. daily = [d \in R!AllDays |-> daily[d]] /\ \A d \in R!AllDays : daily[d].of = {}
  BY DEF R!Init, R!NoDay
<1>4. raw = {} /\ queued = {} /\ purged = {}
  BY DEF R!Init
<1> QED
  BY <1>1, <1>2, <1>3, <1>4 DEF RollupInv

\* Whoever is purged, a row stands for.
LEMMA ExpiredRolled ==
    ASSUME RollsInTime, RollupInv, NEW s \in R!Expired
    PROVE  s \in raw /\ taken[s] \in 0 .. today /\ s \in daily[taken[s]].of
<1>1. PICK d : d = taken[s]
  OBVIOUS
<1>2. s \in raw /\ d + Retention < today
  BY <1>1 DEF R!Expired
<1>3. d \in 0 .. today
  BY <1>1, <1>2 DEF RollupInv
<1>4. InTime(s)
  BY <1>2 DEF RollupInv
<1>5. missed \in 0 .. MaxMissed /\ MaxLate \in Nat /\ MaxMissed \in Nat /\ Retention \in Nat /\ today \in Nat
  BY DEF RollupInv, RollsInTime, R!RollupAssumption
<1>6. (IF rolled THEN 0 ELSE 1 + missed) \in 0 .. 1 + MaxMissed
  BY <1>5
<1>7. ~ (today <= d + MaxLate + (IF rolled THEN 0 ELSE 1 + missed))
  BY <1>2, <1>3, <1>5, <1>6 DEF RollsInTime
<1> QED
  BY <1>1, <1>2, <1>3, <1>4, <1>7 DEF InTime

LEMMA RollupMeasure ==
    ASSUME RollsInTime, RollupInv, NEW s \in Samples, R!Measure(s)
    PROVE  RollupInv'
<1>1. /\ taken[s] = None /\ taken' = [taken EXCEPT ![s] = today]
      /\ UNCHANGED <<today, rolled, missed, queued, raw, purged, daily>>
  BY DEF R!Measure, R!Taken
<1>2. /\ taken' = [x \in Samples |-> taken'[x]] /\ taken'[s] = today
      /\ \A x \in Samples : x # s => taken'[x] = taken[x]
  BY <1>1 DEF RollupInv
<1>3. \A x \in raw \cup queued \cup purged : x \in Samples /\ x # s
  BY <1>1 DEF RollupInv
<1>4. \A x \in Samples : taken'[x] # None => taken'[x] \in 0 .. today
  BY <1>2 DEF RollupInv
<1>5. R!AllDays' = R!AllDays
  BY DEF R!AllDays
<1>6. \A x \in raw \cup queued : InTime(x)'
  BY <1>1, <1>2, <1>3 DEF RollupInv, InTime
<1>7. \A d \in R!AllDays : \A x \in daily[d].of : x \in raw \cup purged /\ taken'[x] = d
  BY <1>2, <1>3 DEF RollupInv
<1>8. \A x \in purged : x \in daily[taken'[x]].of /\ taken'[x] + Retention < today
  BY <1>2, <1>3 DEF RollupInv
<1>9. raw \cup queued \cup purged \subseteq {x \in Samples : taken'[x] # None}
  BY <1>2, <1>3 DEF RollupInv
<1> QED
  BY <1>1, <1>2, <1>4, <1>5, <1>6, <1>7, <1>8, <1>9 DEF RollupInv

LEMMA RollupSend ==
    ASSUME RollsInTime, RollupInv, NEW s \in Samples, R!Send(s) \/ R!Consume(s)
    PROVE  RollupInv'
<1>1. UNCHANGED <<today, rolled, missed, taken, purged, daily>> /\ R!AllDays' = R!AllDays
  BY DEF R!Send, R!Consume, R!AllDays
<1>2. raw \subseteq raw' /\ raw' \cup queued' \subseteq raw \cup queued \cup {s} /\ taken[s] # None
  BY DEF R!Send, R!Consume, R!Taken, RollupInv
<1>3. InTime(s)
  <2>1. CASE R!Consume(s)
    BY <2>1 DEF R!Consume, RollupInv
  <2>2. CASE R!Send(s)
    <3>1. PICK d : d = taken[s]
      OBVIOUS
    <3>2. d \in 0 .. today /\ today - d <= MaxLate
      BY <1>2, <2>2, <3>1 DEF R!Send, RollupInv
    <3>3. missed \in Nat /\ MaxLate \in Nat /\ today \in Nat
      BY DEF RollupInv, RollsInTime, R!RollupAssumption
    <3>4. today <= d + MaxLate + (IF rolled THEN 0 ELSE 1 + missed)
      BY <3>2, <3>3
    <3> QED
      BY <3>1, <3>4 DEF InTime
  <2> QED
    BY <2>1, <2>2
<1>4. \A x \in raw' \cup queued' : InTime(x)'
  BY <1>1, <1>2, <1>3 DEF RollupInv, InTime
<1> QED
  BY <1>1, <1>2, <1>4 DEF RollupInv

LEMMA RollupHourly ==
    ASSUME RollsInTime, RollupInv, R!RunHourly
    PROVE  RollupInv'
<1>1. UNCHANGED <<today, rolled, missed, taken, queued, daily>> /\ R!AllDays' = R!AllDays
  BY DEF R!RunHourly, R!AllDays
<1>2. raw' = raw \ R!Expired /\ purged' = purged \cup R!Expired
  BY DEF R!RunHourly
<1>3. R!Expired \subseteq raw
  BY DEF R!Expired
<1>4. \A s \in purged' : s \in daily[taken[s]].of /\ taken[s] + Retention < today
  BY <1>2, ExpiredRolled DEF RollupInv, R!Expired
<1>5. \A x \in raw' \cup queued' : InTime(x)'
  BY <1>1, <1>2 DEF RollupInv, InTime
<1> QED
  BY <1>1, <1>2, <1>3, <1>4, <1>5 DEF RollupInv

LEMMA RollupNextDay ==
    ASSUME RollsInTime, RollupInv, R!NextDay
    PROVE  RollupInv'
<1>1. UNCHANGED <<taken, queued, raw, purged, daily>> /\ R!AllDays' = R!AllDays
  BY DEF R!NextDay, R!AllDays
<1>2. today \in Nat /\ Days \in Nat /\ Retention \in Nat /\ MaxLate \in Nat /\ MaxMissed \in Nat /\ missed \in 0 .. MaxMissed
  BY DEF RollupInv, RollsInTime, R!RollupAssumption
<1>3. /\ today' = today + 1 /\ today' \in 0 .. Days /\ rolled' = FALSE
      /\ missed' = (IF rolled THEN missed ELSE missed + 1) /\ missed' \in 0 .. MaxMissed
      /\ rolled \/ missed' = missed + 1
  BY <1>2 DEF R!NextDay
<1>4. \A s \in Samples : taken[s] # None => taken[s] \in 0 .. today'
  BY <1>2, <1>3 DEF RollupInv
<1>5. ASSUME NEW s \in raw \cup queued PROVE InTime(s)'
  <2>1. PICK d : d = taken[s]
    OBVIOUS
  <2>2. d \in Nat
    BY <1>2, <2>1 DEF RollupInv
  <2>3. CASE s \in daily[d].of
    BY <1>1, <2>1, <2>3 DEF InTime
  <2>4. CASE today <= d + MaxLate + (IF rolled THEN 0 ELSE 1 + missed)
    <3>1. today' <= d + MaxLate + (1 + missed')
      BY <1>2, <1>3, <2>2, <2>4
    <3> QED
      BY <1>1, <1>3, <2>1, <3>1 DEF InTime
  <2> QED
    BY <2>1, <2>3, <2>4 DEF RollupInv, InTime
<1>6. \A s \in purged : s \in daily[taken[s]].of /\ taken[s] + Retention < today'
  <2> SUFFICES ASSUME NEW s \in purged PROVE s \in daily[taken[s]].of /\ taken[s] + Retention < today'
    OBVIOUS
  <2>1. taken[s] \in Nat /\ s \in daily[taken[s]].of /\ taken[s] + Retention < today
    BY <1>2 DEF RollupInv
  <2> QED
    BY <1>2, <1>3, <2>1
<1> QED
  BY <1>1, <1>3, <1>4, <1>5, <1>6 DEF RollupInv

\* The rows the roll-up replaces lose nobody, and stand for whoever is in time.
LEMMA RollupNightly ==
    ASSUME RollsInTime, RollupInv, R!RunNightly
    PROVE  /\ RollupInv'
           /\ \A d \in R!AllDays : daily[d].there => daily'[d].there /\ daily[d].of \subseteq daily'[d].of
<1>1. UNCHANGED <<today, taken, queued>> /\ R!AllDays' = R!AllDays /\ rolled' = TRUE /\ missed' = 0 /\ ~rolled
  BY DEF R!RunNightly, R!AllDays
<1>2. raw' = raw \ R!Expired /\ purged' = purged \cup R!Expired /\ \A s \in queued : taken[s] = today
  BY DEF R!RunNightly
<1>3. R!Expired \subseteq raw /\ \A s \in R!Expired : s \in daily[taken[s]].of /\ taken[s] + Retention < today
  BY ExpiredRolled DEF R!Expired
<1>4. /\ today \in Nat /\ Days \in Nat /\ Retention \in Nat /\ MaxLate \in Nat /\ MaxMissed \in Nat
      /\ missed \in 0 .. MaxMissed /\ MaxLate + MaxMissed <= 1 /\ Retention >= 2 /\ today \in R!AllDays
  BY DEF RollupInv, RollsInTime, R!RollupAssumption, R!AllDays
<1>5. \A d \in R!AllDays : daily'[d] = IF d \in R!RolledDays /\ R!ComputeDaily(d) \ R!Expired # {}
                                       THEN [there |-> TRUE, of |-> R!ComputeDaily(d) \ R!Expired] ELSE daily[d]
  BY DEF R!RunNightly
<1>6. \A d \in R!RolledDays : d \in R!AllDays /\ today <= d + 2
  BY <1>4 DEF R!RolledDays, R!AllDays
\* Nobody of a day that is rolled up is purged.
<1>7. ASSUME NEW d \in R!RolledDays PROVE daily[d].of \subseteq R!ComputeDaily(d) \ R!Expired
  <2> SUFFICES ASSUME NEW s \in daily[d].of PROVE s \in R!ComputeDaily(d) \ R!Expired
    OBVIOUS
  <2>1. d \in R!AllDays /\ today <= d + 2 /\ taken[s] = d /\ s \in raw \cup purged
    BY <1>6 DEF RollupInv
  <2>2. d \in Nat
    BY <2>1 DEF R!AllDays
  <2>3. ~ (d + Retention < today)
    BY <1>4, <2>1, <2>2
  <2>4. s \notin purged /\ s \notin R!Expired
    BY <2>1, <2>3 DEF RollupInv, R!Expired
  <2> QED
    BY <2>1, <2>4 DEF R!ComputeDaily
<1>8. ASSUME NEW d \in R!AllDays
      PROVE  /\ daily[d].of \subseteq daily'[d].of
             /\ daily[d].there => daily'[d].there
             /\ ~daily'[d].there => daily'[d].of = {}
             /\ \A s \in daily'[d].of : s \in daily[d].of \/ (s \in raw \ R!Expired /\ taken[s] = d)
  <2>1. CASE d \in R!RolledDays /\ R!ComputeDaily(d) \ R!Expired # {}
    <3>1. PICK S : S = R!ComputeDaily(d) \ R!Expired
      OBVIOUS
    <3>2. daily'[d] = [there |-> TRUE, of |-> S]
      BY <1>5, <2>1, <3>1, Zenon
    <3>3. daily'[d].there = TRUE /\ daily'[d].of = R!ComputeDaily(d) \ R!Expired
      BY <3>1, <3>2
    <3> QED
      BY <1>7, <2>1, <3>3 DEF R!ComputeDaily
  <2>2. CASE ~ (d \in R!RolledDays /\ R!ComputeDaily(d) \ R!Expired # {})
    BY <1>5, <2>2 DEF RollupInv
  <2> QED
    BY <2>1, <2>2
<1>9. ASSUME NEW s \in raw' \cup queued' PROVE InTime(s)'
  <2>1. PICK d : d = taken[s]
    OBVIOUS
  <2>2. s \in raw \cup queued /\ d \in 0 .. today /\ d \in R!AllDays
    BY <1>1, <1>2, <1>4, <2>1 DEF RollupInv, R!AllDays
  <2>3. CASE s \in daily[d].of
    BY <1>1, <1>8, <2>1, <2>2, <2>3 DEF InTime
  <2>4. CASE d = today
    BY <1>1, <1>4, <2>1, <2>4 DEF InTime
  <2>5. CASE s \notin daily[d].of /\ d # today
    <3>1. s \in raw /\ s \notin R!Expired
      BY <1>1, <1>2, <1>3, <2>1, <2>2, <2>5
    <3>2. today <= d + MaxLate + (1 + missed)
      BY <1>1, <2>1, <2>2, <2>5 DEF RollupInv, InTime
    <3>3. d + 1 = today \/ d + 2 = today
      BY <1>4, <2>2, <2>5, <3>2
    <3>4. d \in R!RolledDays /\ s \in R!ComputeDaily(d) \ R!Expired
      BY <2>1, <2>2, <3>1, <3>3 DEF R!RolledDays, R!ComputeDaily
    <3>5. PICK S : S = R!ComputeDaily(d) \ R!Expired
      OBVIOUS
    <3>6. daily'[d] = [there |-> TRUE, of |-> S]
      BY <1>5, <2>2, <3>4, <3>5, Zenon
    <3>7. s \in daily'[d].of
      BY <3>4, <3>5, <3>6
    <3> QED
      BY <1>1, <2>1, <3>7 DEF InTime
  <2> QED
    BY <2>3, <2>4, <2>5
<1>10. \A s \in purged' : s \in daily'[taken[s]].of /\ taken[s] + Retention < today
  <2>1. \A s \in purged' : /\ taken[s] \in R!AllDays
                           /\ s \in daily[taken[s]].of /\ taken[s] + Retention < today
    <3>1. \A s \in purged' : s \in Samples /\ taken[s] # None
      BY <1>2, <1>3 DEF RollupInv
    <3>2. \A s \in purged' : taken[s] \in R!AllDays
      BY <1>4, <3>1 DEF RollupInv, R!AllDays
    <3> QED
      BY <1>2, <1>3, <3>2 DEF RollupInv
  <2> QED
    BY <1>8, <2>1
<1>11. daily' = [d \in R!AllDays |-> daily'[d]]
  BY DEF R!RunNightly
<1>12. \A d \in R!AllDays : \A s \in daily'[d].of : s \in raw' \cup purged' /\ taken[s] = d
  BY <1>2, <1>8 DEF RollupInv
<1>13. raw' \cup queued' \cup purged' \subseteq {s \in Samples : taken[s] # None}
  BY <1>1, <1>2, <1>3 DEF RollupInv
<1>14. missed' \in 0 .. MaxMissed /\ rolled' \in BOOLEAN
  BY <1>1, <1>4
<1> QED
  BY <1>1, <1>8, <1>9, <1>10, <1>11, <1>12, <1>13, <1>14 DEF RollupInv

LEMMA RollupStep ==
    ASSUME RollsInTime, RollupInv, [R!Next]_R!vars
    PROVE  RollupInv'
<1>1. CASE R!Read \/ UNCHANGED R!vars
  <2>1. UNCHANGED <<today, rolled, missed, taken, queued, raw, purged, daily>> /\ R!AllDays' = R!AllDays
    BY <1>1 DEF R!Read, R!vars, R!AllDays
  <2>2. \A s : InTime(s)' = InTime(s)
    BY <2>1 DEF InTime
  <2> QED
    BY <2>1, <2>2 DEF RollupInv
<1> QED
  BY <1>1, RollupMeasure, RollupSend, RollupNightly, RollupHourly, RollupNextDay DEF R!Next

\* Where a sample waits a day, or the roll-up misses a night, but not both, nothing is purged before the row
\* of its day stands for it, however often it is delivered (services/rollup.ts: two days are condensed
\* each night).
THEOREM PurgedIsCondensed == ASSUME RollsInTime PROVE R!Spec => []R!CondensedBeforePurged
<1>1. RollupInv => R!CondensedBeforePurged
  BY DEF RollupInv, R!CondensedBeforePurged
<1>2. RollupInv /\ [R!Next]_R!vars => RollupInv'
  BY RollupStep
<1>3. R!Init => RollupInv
  BY RollupInit
<1> QED
  BY <1>1, <1>2, <1>3, PTL DEF R!Spec

-----------------------------------------------------------------------------
(* The devices of an account *)

DeviceFields == {"id", "user", "at", "fails"}
PushFields == {"at", "u", "rows", "sent", "gone", "failed"}
Registered == {e \in Endpoints : device[e] # None}

\* Each device has its row, and no two were registered by the same request.
DevicesInv ==
    /\ device = [e \in Endpoints |-> device[e]]
    /\ IsFiniteSet(Registered)
    /\ edits \in Nat
    /\ \A e \in Registered : /\ device[e] = [f \in DeviceFields |-> device[e][f]]
                             /\ device[e].at \in 1 .. edits /\ device[e].fails \in Nat
    /\ \A e, f \in Registered : device[e].at = device[f].at => e = f
    /\ job = [q \in Requests |-> job[q]] /\ \A q \in Requests : job[q] = [f \in PushFields |-> job[q][f]]

\* A request that will list the devices of an account, or drop what it found to be too many.
Trims(q, u) ==
    /\ job[q].u = u
    /\ \/ job[q].at = "list"
       \/ job[q].at = "excess" /\ Cardinality(U!Of(u) \ U!There(job[q].rows)) <= MaxDevices

Trimmed == \A u \in Users : Cardinality(U!Of(u)) <= MaxDevices \/ \E q \in Requests : Trims(q, u)

\* Of a finite set whose members come in an order, fewer than m + 1 have fewer than m after them.
LEMMA LatestAreFew ==
    ASSUME NEW S, IsFiniteSet(S), NEW a, \A e \in S : a[e] \in Nat, \A e, f \in S : a[e] = a[f] => e = f,
           NEW m \in Nat, NEW K \in SUBSET S, \A e \in K : Cardinality({f \in S : a[f] > a[e]}) < m
    PROVE  Cardinality(K) <= m
<1>1. IsFiniteSet(K) /\ Cardinality(K) \in Nat
  BY FS_Subset, FS_CardinalityType
<1>2. CASE K = {}
  BY <1>2, FS_EmptySet
<1>3. CASE K # {}
  <2>1. PICK T : T = {a[e] : e \in K}
    OBVIOUS
  <2>2. T \subseteq Nat /\ T # {}
    BY <1>3, <2>1
  <2>3. PICK x \in T : \A y \in T : <<y, x>> \notin OpToRel(<, Nat)
    BY <2>2, WFMin, NatLessThanWellFounded
  <2>4. \A y \in T : ~ (y < x)
    BY <2>2, <2>3, Zenon DEF OpToRel
  <2>5. PICK e \in K : a[e] = x
    BY <2>1, <2>3
  <2>6. PICK G : G = {f \in S : a[f] > a[e]}
    OBVIOUS
  <2>7. ASSUME NEW f \in K \ {e} PROVE f \in G
    <3>1. a[f] \in T /\ a[f] \in Nat /\ a[e] \in Nat
      BY <2>1
    <3>2. ~ (a[f] < a[e]) /\ a[f] # a[e]
      BY <2>4, <2>5, <3>1
    <3> QED
      BY <2>6, <3>1, <3>2
  <2>8. Cardinality(K \ {e}) = Cardinality(K) - 1
    BY <1>1, FS_RemoveElement
  <2>9. IsFiniteSet(G) /\ Cardinality(G) \in Nat
    BY <2>6, FS_Subset, FS_CardinalityType
  <2>10. Cardinality(K \ {e}) <= Cardinality(G)
    BY <2>7, <2>9, FS_Subset
  <2>11. Cardinality(G) < m
    BY <2>6
  <2> QED
    BY <1>1, <2>8, <2>9, <2>10, <2>11
<1> QED
  BY <1>2, <1>3

LEMMA OfFinite ==
    ASSUME DevicesInv, NEW u
    PROVE  /\ U!Of(u) \subseteq Registered /\ IsFiniteSet(U!Of(u)) /\ Cardinality(U!Of(u)) \in Nat
           /\ \A T \in SUBSET U!Of(u) : IsFiniteSet(T) /\ Cardinality(T) \in Nat /\ Cardinality(T) <= Cardinality(U!Of(u))
<1>1. U!Of(u) \subseteq Registered
  BY DEF U!Of, Registered
<1>2. IsFiniteSet(U!Of(u))
  BY <1>1, FS_Subset DEF DevicesInv
<1> QED
  BY <1>1, <1>2, FS_Subset, FS_CardinalityType

LEMMA Excesses ==
    ASSUME NEW S, NEW e PROVE e \in U!Excess(S) <=> e \in S /\ Cardinality({f \in S : device[f].at > device[e].at}) >= MaxDevices
<1>1. \A T : U!Cardinality(T) = Cardinality(T)
  BY DEF U!Cardinality, Cardinality, U!IsFiniteSet, IsFiniteSet
<1> QED
  BY <1>1 DEF U!Excess

\* What is left when the excess is dropped.
LEMMA ExcessLeaves ==
    ASSUME U!PushAssumption, DevicesInv, NEW u
    PROVE  Cardinality(U!Of(u) \ U!Excess(U!Of(u))) <= MaxDevices
<1>1. PICK S : S = U!Of(u)
  OBVIOUS
<1>2. PICK a : a = [e \in S |-> device[e].at]
  OBVIOUS
<1>3. PICK K : K = S \ U!Excess(S)
  OBVIOUS
<1>4. MaxDevices \in Nat /\ IsFiniteSet(S) /\ S \subseteq Registered
  BY <1>1, OfFinite DEF U!PushAssumption
<1>5. \A e \in S : a[e] \in Nat /\ a[e] = device[e].at
  <2>1. edits \in Nat /\ \A e \in Registered : device[e].at \in 1 .. edits
    BY DEF DevicesInv
  <2>2. \A e \in S : a[e] = device[e].at /\ e \in Registered
    BY <1>2, <1>4
  <2> QED
    BY <2>1, <2>2
<1>6. \A e, f \in S : a[e] = a[f] => e = f
  BY <1>4, <1>5 DEF DevicesInv
<1>7. ASSUME NEW e \in K PROVE Cardinality({f \in S : a[f] > a[e]}) < MaxDevices
  <2>1. PICK G : G = {f \in S : a[f] > a[e]}
    OBVIOUS
  <2>2. G = {f \in S : device[f].at > device[e].at}
    BY <1>3, <1>5, <2>1
  <2>3. ~ (Cardinality(G) >= MaxDevices)
    BY <1>3, <2>2, Excesses
  <2>4. IsFiniteSet(G)
    BY <1>4, <2>1, FS_Subset
  <2>5. Cardinality(G) \in Nat
    BY <2>4, FS_CardinalityType
  <2> QED
    BY <1>4, <2>1, <2>3, <2>5
<1>8. Cardinality(K) <= MaxDevices
  BY <1>3, <1>4, <1>5, <1>6, <1>7, LatestAreFew
<1> QED
  BY <1>1, <1>3, <1>8

\* Rows that were read name the devices they were read of, while those stay.
LEMMA RowsOf ==
    ASSUME NEW S \in SUBSET Registered PROVE U!There(U!Rows(S)) = S
BY DEF U!There, U!Rows, Registered

-----------------------------------------------------------------------------
(* A step that registers nothing *)

\* No account gains a device, and those it keeps keep their rows.
Shrinks(u) == U!Of(u)' \subseteq U!Of(u) /\ \A e \in U!Of(u)' : device'[e].id = device[e].id

LEMMA TrimsStay ==
    ASSUME U!PushAssumption, DevicesInv, NEW u, Shrinks(u), NEW q \in Requests, job'[q] = job[q], Trims(q, u)
    PROVE  Trims(q, u)'
<1>1. CASE job[q].at = "list"
  BY <1>1 DEF Trims
<1>2. CASE job[q].at = "excess"
  <2>1. PICK rows : rows = job[q].rows
    OBVIOUS
  <2>2. U!Of(u)' \ U!There(rows)' \subseteq U!Of(u) \ U!There(rows)
    BY DEF Shrinks, U!There, U!Of
  <2>3. /\ Cardinality(U!Of(u)' \ U!There(rows)') \in Nat
        /\ Cardinality(U!Of(u)' \ U!There(rows)') <= Cardinality(U!Of(u) \ U!There(rows))
        /\ Cardinality(U!Of(u) \ U!There(rows)) \in Nat
    <3>1. IsFiniteSet(U!Of(u) \ U!There(rows))
      BY OfFinite
    <3> QED
      BY <2>2, <3>1, FS_Subset, FS_CardinalityType
  <2>4. Cardinality(U!Of(u) \ U!There(rows)) <= MaxDevices /\ MaxDevices \in Nat
    BY <1>2, <2>1 DEF Trims, U!PushAssumption
  <2>5. Cardinality(U!Of(u)' \ U!There(rows)') <= MaxDevices
    BY <2>3, <2>4
  <2> QED
    BY <1>2, <2>1, <2>5 DEF Trims
<1> QED
  BY <1>1, <1>2 DEF Trims

LEMMA FewStay ==
    ASSUME U!PushAssumption, DevicesInv, NEW u, Shrinks(u), Cardinality(U!Of(u)) <= MaxDevices
    PROVE  Cardinality(U!Of(u)') <= MaxDevices
BY OfFinite DEF Shrinks, U!PushAssumption

\* Requests that trim are left alone.
LEMMA TrimmedStays ==
    ASSUME U!PushAssumption, DevicesInv, Trimmed, \A u \in Users : Shrinks(u),
           \A q \in Requests : job'[q] = job[q] \/ job[q].at \notin {"list", "excess"}
    PROVE  Trimmed'
<1> SUFFICES ASSUME NEW u \in Users
             PROVE  Cardinality(U!Of(u)') <= MaxDevices \/ \E q \in Requests : Trims(q, u)'
  BY DEF Trimmed
<1>1. CASE Cardinality(U!Of(u)) <= MaxDevices
  BY <1>1, FewStay
<1>2. ASSUME NEW q \in Requests, Trims(q, u) PROVE \E p \in Requests : Trims(p, u)'
  BY <1>2, TrimsStay DEF Trims
<1> QED
  BY <1>1, <1>2 DEF Trimmed

\* Devices go, or keep all but their failures.
LEMMA DevicesStay ==
    ASSUME DevicesInv, device' = [e \in Endpoints |-> device'[e]], edits' \in Nat, edits' >= edits,
           job' = [q \in Requests |-> job'[q]], \A q \in Requests : job'[q] = [f \in PushFields |-> job'[q][f]],
           \A e \in Endpoints : device'[e] # None =>
               /\ device[e] # None
               /\ device'[e] = [f \in DeviceFields |-> device'[e][f]] /\ device'[e].fails \in Nat
               /\ device'[e].id = device[e].id /\ device'[e].at = device[e].at /\ device'[e].user = device[e].user
    PROVE  DevicesInv' /\ \A u \in Users : Shrinks(u)
<1>1. Registered' \subseteq Registered
  BY DEF Registered
<1>2. IsFiniteSet(Registered')
  BY <1>1, FS_Subset DEF DevicesInv
<1>3. ASSUME NEW e \in Registered'
      PROVE  /\ device'[e] = [f \in DeviceFields |-> device'[e][f]]
             /\ device'[e].at \in 1 .. edits' /\ device'[e].fails \in Nat
  <2>1. device[e].at \in 1 .. edits /\ edits \in Nat
    BY <1>1 DEF DevicesInv
  <2> QED
    BY <2>1 DEF Registered
<1>4. ASSUME NEW e \in Registered', NEW f \in Registered', device'[e].at = device'[f].at PROVE e = f
  BY <1>1, <1>4 DEF DevicesInv, Registered
<1>5. \A u \in Users : Shrinks(u)
  BY DEF Shrinks, U!Of
<1> QED
  BY <1>2, <1>3, <1>4, <1>5 DEF DevicesInv

-----------------------------------------------------------------------------
LEMMA GoPush ==
    ASSUME DevicesInv, NEW q \in Requests, NEW r, U!Go(q, r), r = [f \in PushFields |-> r[f]]
    PROVE  /\ job' = [p \in Requests |-> job'[p]] /\ \A p \in Requests : job'[p] = [f \in PushFields |-> job'[p][f]]
           /\ job'[q] = r /\ \A p \in Requests : p # q => job'[p] = job[p]
<1>1. job = [p \in Requests |-> job[p]] /\ \A p \in Requests : job[p] = [f \in PushFields |-> job[p][f]]
  BY DEF DevicesInv
<1>2. job' = [job EXCEPT ![q] = r]
  BY DEF U!Go
<1>3. \A p \in Requests : job'[p] = IF p = q THEN r ELSE job[p]
  BY <1>1, <1>2
<1>4. job' = [p \in Requests |-> job'[p]]
  BY <1>1, <1>2
<1> QED
  BY <1>1, <1>3, <1>4

LEMMA NoReqPush == U!NoReq = [f \in PushFields |-> U!NoReq[f]] /\ U!NoReq.at = "none"
BY DEF U!NoReq, PushFields

\* A request that is not to trim goes on, and devices go or keep all but their failures.
LEMMA PushGoes ==
    ASSUME U!PushAssumption, DevicesInv, Trimmed, NEW q \in Requests, NEW r, U!Go(q, r), r = [f \in PushFields |-> r[f]],
           job[q].at \notin {"list", "excess"}, UNCHANGED edits, device' = [e \in Endpoints |-> device'[e]],
           \A e \in Endpoints : device'[e] # None =>
               /\ device[e] # None
               /\ device'[e] = [f \in DeviceFields |-> device'[e][f]] /\ device'[e].fails \in Nat
               /\ device'[e].id = device[e].id /\ device'[e].at = device[e].at /\ device'[e].user = device[e].user
    PROVE  DevicesInv' /\ Trimmed'
<1>1. /\ job' = [p \in Requests |-> job'[p]] /\ \A p \in Requests : job'[p] = [f \in PushFields |-> job'[p][f]]
      /\ \A p \in Requests : job'[p] = job[p] \/ job[p].at \notin {"list", "excess"}
  BY GoPush
<1>2. edits' \in Nat /\ edits' >= edits
  BY DEF DevicesInv
<1>3. DevicesInv' /\ \A u \in Users : Shrinks(u)
  BY <1>1, <1>2, DevicesStay
<1> QED
  BY <1>1, <1>3, TrimmedStays

\* Devices that are dropped.
LEMMA Drops ==
    ASSUME DevicesInv, NEW S, U!Drop(S)
    PROVE  /\ device' = [e \in Endpoints |-> device'[e]]
           /\ \A e \in Endpoints : device'[e] # None =>
               /\ device[e] # None
               /\ device'[e] = [f \in DeviceFields |-> device'[e][f]] /\ device'[e].fails \in Nat
               /\ device'[e].id = device[e].id /\ device'[e].at = device[e].at /\ device'[e].user = device[e].user
<1>1. device' = [e \in Endpoints |-> IF e \in S THEN None ELSE device[e]]
  BY DEF U!Drop
<1>2. \A e \in Endpoints : device'[e] # None => device'[e] = device[e] /\ e \in Registered
  BY <1>1 DEF Registered
<1>3. \A e \in Registered : device[e] = [f \in DeviceFields |-> device[e][f]] /\ device[e].fails \in Nat
  BY DEF DevicesInv
<1> QED
  BY <1>1, <1>2, <1>3

LEMMA SameDevices ==
    ASSUME DevicesInv, UNCHANGED device
    PROVE  /\ device' = [e \in Endpoints |-> device'[e]]
           /\ \A e \in Endpoints : device'[e] # None =>
               /\ device[e] # None
               /\ device'[e] = [f \in DeviceFields |-> device'[e][f]] /\ device'[e].fails \in Nat
               /\ device'[e].id = device[e].id /\ device'[e].at = device[e].at /\ device'[e].user = device[e].user
<1>1. \A e \in Registered : device[e] = [f \in DeviceFields |-> device[e][f]] /\ device[e].fails \in Nat
  BY DEF DevicesInv
<1> QED
  BY <1>1 DEF DevicesInv, Registered

\* The fan-out: what it delivered to, and what it failed to.
LEMMA PushFans ==
    ASSUME U!PushAssumption, DevicesInv, Trimmed, NEW q \in Requests,
           \/ U!DropGone(q) \/ U!ResetSent(q) \/ U!CountFailed(q) \/ U!DropFailed(q)
           \/ \E u \in Users : U!Targets(q, u) \/ U!Test(q, u)
           \/ \E failed \in SUBSET job[q].rows : U!Push(q, failed)
    PROVE  DevicesInv' /\ Trimmed'
<1>0. PICK j : j = job[q] /\ j = [f \in PushFields |-> j[f]]
  BY DEF DevicesInv
<1>1. CASE U!DropGone(q)
  <2>1. PICK r : r = [j EXCEPT !.at = "sent"]
    OBVIOUS
  <2>2. r = [f \in PushFields |-> r[f]] /\ U!Go(q, r) /\ job[q].at = "gone" /\ UNCHANGED edits
    BY <1>0, <1>1, <2>1 DEF U!DropGone, U!At
  <2>3. PICK S : U!Drop(S)
    BY <1>1 DEF U!DropGone
  <2> QED
    BY <2>2, <2>3, Drops, PushGoes
<1>2. CASE U!DropFailed(q)
  <2>1. U!Go(q, U!NoReq) /\ job[q].at = "drop" /\ UNCHANGED edits
    BY <1>2 DEF U!DropFailed, U!At
  <2>2. PICK S : U!Drop(S)
    BY <1>2 DEF U!DropFailed
  <2> QED
    BY <2>1, <2>2, Drops, PushGoes, NoReqPush
<1>3. CASE U!ResetSent(q) \/ U!CountFailed(q)
  <2>1. PICK at : (at = "failed" \/ at = "drop") /\ U!Go(q, [j EXCEPT !.at = at])
    BY <1>0, <1>3 DEF U!ResetSent, U!CountFailed
  <2>2. PICK r : r = [j EXCEPT !.at = at]
    OBVIOUS
  <2>3. r = [f \in PushFields |-> r[f]] /\ U!Go(q, r) /\ job[q].at \notin {"list", "excess"} /\ UNCHANGED edits
    BY <1>0, <1>3, <2>1, <2>2 DEF U!ResetSent, U!CountFailed, U!At
  <2>4. \E S \in SUBSET Registered, n \in [Registered -> Nat] :
           device' = [e \in Endpoints |-> IF e \in S THEN [device[e] EXCEPT !.fails = n[e]] ELSE device[e]]
    <3>1. \A e \in Registered : device[e].fails \in Nat
      BY DEF DevicesInv
    <3>2. CASE U!ResetSent(q)
      <4>1. PICK S : S = U!There(job[q].sent)
        OBVIOUS
      <4>2. device' = [e \in Endpoints |-> IF e \in S THEN [device[e] EXCEPT !.fails = 0] ELSE device[e]]
        BY <3>2, <4>1 DEF U!ResetSent, U!Worked
      <4>3. S \subseteq Registered
        BY <4>1 DEF U!There, Registered
      <4>4. PICK n : n = [e \in Registered |-> 0]
        OBVIOUS
      <4>5. n \in [Registered -> Nat] /\ \A e \in S : n[e] = 0
        BY <4>3, <4>4
      <4>6. device' = [e \in Endpoints |-> IF e \in S THEN [device[e] EXCEPT !.fails = n[e]] ELSE device[e]]
        BY <4>2, <4>5
      <4> QED
        BY <4>3, <4>5, <4>6, Zenon
    <3>3. CASE U!CountFailed(q)
      <4>1. PICK S : S = U!There(job[q].failed)
        OBVIOUS
      <4>2. device' = [e \in Endpoints |-> IF e \in S THEN [device[e] EXCEPT !.fails = @ + 1] ELSE device[e]]
        BY <3>3, <4>1 DEF U!CountFailed
      <4>3. S \subseteq Registered
        BY <4>1 DEF U!There, Registered
      <4>4. PICK n : n = [e \in Registered |-> device[e].fails + 1]
        OBVIOUS
      <4>5. n \in [Registered -> Nat]
        BY <3>1, <4>4
      <4>6. \A e \in S : [device[e] EXCEPT !.fails = @ + 1] = [device[e] EXCEPT !.fails = n[e]]
        <5>1. \A e \in S : device[e] = [f \in DeviceFields |-> device[e][f]] /\ n[e] = device[e].fails + 1
          BY <4>3, <4>4 DEF DevicesInv
        <5> QED
          BY <5>1 DEF DeviceFields
      <4>7. device' = [e \in Endpoints |-> IF e \in S THEN [device[e] EXCEPT !.fails = n[e]] ELSE device[e]]
        BY <4>2, <4>6
      <4> QED
        BY <4>3, <4>5, <4>7, Zenon
    <3> QED
      BY <1>3, <3>2, <3>3
  <2>5. PICK S \in SUBSET Registered, n \in [Registered -> Nat] :
           device' = [e \in Endpoints |-> IF e \in S THEN [device[e] EXCEPT !.fails = n[e]] ELSE device[e]]
    BY <2>4
  <2>6. ASSUME NEW e \in Endpoints, device'[e] # None
        PROVE  /\ device[e] # None
               /\ device'[e] = [f \in DeviceFields |-> device'[e][f]] /\ device'[e].fails \in Nat
               /\ device'[e].id = device[e].id /\ device'[e].at = device[e].at /\ device'[e].user = device[e].user
    <3>1. e \in Registered
      BY <2>5, <2>6 DEF Registered
    <3>2. PICK x : x = device[e] /\ x = [f \in DeviceFields |-> x[f]] /\ x.fails \in Nat /\ n[e] \in Nat
      BY <3>1 DEF DevicesInv
    <3>3. device'[e] = x \/ device'[e] = [x EXCEPT !.fails = n[e]]
      BY <2>5, <3>2
    <3> QED
      BY <3>1, <3>2, <3>3 DEF DeviceFields, Registered
  <2>7. device' = [e \in Endpoints |-> device'[e]]
    BY <2>5
  <2> QED
    BY <2>3, <2>6, <2>7, PushGoes
<1>4. ASSUME NEW u, U!Targets(q, u) PROVE DevicesInv' /\ Trimmed'
  <2>1. PICK rows : U!Go(q, [U!NoReq EXCEPT !.at = "push", !.u = u, !.rows = rows])
    BY <1>4 DEF U!Targets
  <2>2. PICK z : z = U!NoReq /\ z = [f \in PushFields |-> z[f]]
    BY NoReqPush
  <2>3. PICK r : r = [z EXCEPT !.at = "push", !.u = u, !.rows = rows]
    OBVIOUS
  <2>4. r = [f \in PushFields |-> r[f]] /\ U!Go(q, r)
    BY <2>1, <2>2, <2>3
  <2>5. job[q].at = "none" /\ UNCHANGED <<edits, device>>
    BY <1>4 DEF U!Targets, U!Free
  <2> QED
    BY <2>4, <2>5, SameDevices, PushGoes
<1>5. ASSUME NEW failed \in SUBSET job[q].rows, U!Push(q, failed) PROVE DevicesInv' /\ Trimmed'
  <2>1. PICK g, s : U!Go(q, [j EXCEPT !.at = "gone", !.gone = g, !.failed = failed, !.sent = s])
    BY <1>0, <1>5 DEF U!Push
  <2>2. PICK r : r = [j EXCEPT !.at = "gone", !.gone = g, !.failed = failed, !.sent = s]
    OBVIOUS
  <2>3. r = [f \in PushFields |-> r[f]] /\ U!Go(q, r)
    BY <1>0, <2>1, <2>2
  <2>4. job[q].at = "push" /\ UNCHANGED <<edits, device>>
    BY <1>5 DEF U!Push, U!At
  <2> QED
    BY <2>3, <2>4, SameDevices, PushGoes
<1> QED
  BY <1>1, <1>2, <1>3, <1>4, <1>5 DEF U!Test

\* A registration adds one device, newer than any, and will list the devices of its account.
LEMMA PushRegister ==
    ASSUME U!PushAssumption, DevicesInv, Trimmed, NEW q \in Requests, NEW u \in Users, NEW e \in Endpoints, U!Register(q, u, e)
    PROVE  DevicesInv' /\ Trimmed'
<1>1. PICK z : z = U!NoReq /\ z = [f \in PushFields |-> z[f]]
  BY NoReqPush
<1>2. PICK r : r = [z EXCEPT !.at = "list", !.u = u]
  OBVIOUS
<1>3. r = [f \in PushFields |-> r[f]] /\ r.at = "list" /\ r.u = u
  BY <1>1, <1>2 DEF PushFields
<1>4. U!Go(q, r) /\ job[q].at = "none" /\ edits' = edits + 1
  BY <1>1, <1>2 DEF U!Register, U!Free, U!Edit
<1>5. /\ job' = [p \in Requests |-> job'[p]] /\ \A p \in Requests : job'[p] = [f \in PushFields |-> job'[p][f]]
      /\ job'[q] = r /\ \A p \in Requests : p # q => job'[p] = job[p]
  BY <1>3, <1>4, GoPush
<1>6. PICK x : x = U!Registered(u, e)
  OBVIOUS
<1>7. /\ device' = [device EXCEPT ![e] = x] /\ edits \in Nat
      /\ device = [d \in Endpoints |-> device[d]] /\ IsFiniteSet(Registered)
  BY <1>6 DEF U!Register, DevicesInv
<1>8. device' = [d \in Endpoints |-> device'[d]] /\ device'[e] = x /\ \A d \in Endpoints : d # e => device'[d] = device[d]
  BY <1>7
<1>9. x = [f \in DeviceFields |-> x[f]] /\ x.at = edits + 1 /\ x.user = u /\ x.fails \in Nat
  <2>1. CASE device[e] = None
    BY <1>6, <2>1 DEF U!Registered, DeviceFields
  <2>2. CASE device[e] # None
    <3>1. PICK d : d = device[e] /\ d = [f \in DeviceFields |-> d[f]]
      BY <2>2 DEF DevicesInv, Registered
    <3>2. x = [d EXCEPT !.user = u, !.at = edits + 1, !.fails = 0]
      BY <1>6, <2>2, <3>1 DEF U!Registered, U!Refreshed
    <3> QED
      BY <3>1, <3>2 DEF DeviceFields
  <2> QED
    BY <2>1, <2>2
<1>10. Registered' \subseteq Registered \cup {e}
  BY <1>8 DEF Registered
<1>11. IsFiniteSet(Registered')
  BY <1>7, <1>10, FS_AddElement, FS_Subset
<1>12. ASSUME NEW d \in Registered'
       PROVE  /\ device'[d] = [f \in DeviceFields |-> device'[d][f]]
              /\ device'[d].at \in 1 .. edits' /\ device'[d].fails \in Nat
              /\ d # e => d \in Registered /\ device'[d].at \in 1 .. edits
  <2>1. CASE d = e
    BY <1>4, <1>7, <1>8, <1>9, <2>1
  <2>2. CASE d # e
    <3>1. d \in Registered /\ device'[d] = device[d]
      BY <1>8, <1>10, <2>2 DEF Registered
    <3>2. /\ device[d] = [f \in DeviceFields |-> device[d][f]]
          /\ device[d].at \in 1 .. edits /\ device[d].fails \in Nat
      BY <3>1 DEF DevicesInv
    <3> QED
      BY <1>4, <1>7, <2>2, <3>1, <3>2
  <2> QED
    BY <2>1, <2>2
<1>13. ASSUME NEW c \in Registered', NEW d \in Registered', device'[c].at = device'[d].at PROVE c = d
  <2>1. CASE c # e /\ d # e
    <3>1. c \in Registered /\ d \in Registered /\ device'[c] = device[c] /\ device'[d] = device[d]
      BY <1>8, <1>12, <2>1 DEF Registered
    <3> QED
      BY <1>13, <3>1 DEF DevicesInv
  <2>2. CASE c = e \/ d = e
    <3>1. device'[e].at = edits + 1
      BY <1>8, <1>9
    <3>2. \A n \in 1 .. edits : n # edits + 1
      BY <1>7
    <3> QED
      BY <1>12, <1>13, <2>2, <3>1, <3>2
  <2> QED
    BY <2>1, <2>2
<1>14. edits' \in Nat
  BY <1>4, <1>7
<1>15. DevicesInv'
  BY <1>5, <1>8, <1>11, <1>12, <1>13, <1>14 DEF DevicesInv
<1>16. ASSUME NEW v \in Users PROVE Cardinality(U!Of(v)') <= MaxDevices \/ \E p \in Requests : Trims(p, v)'
  <2>1. CASE v = u
    BY <1>3, <1>5, <2>1 DEF Trims
  <2>2. CASE v # u
    <3>1. Shrinks(v)
      BY <1>8, <1>9, <2>2 DEF Shrinks, U!Of
    <3>2. ASSUME NEW p \in Requests, Trims(p, v) PROVE Trims(p, v)'
      <4>1. p # q
        BY <1>4, <3>2 DEF Trims
      <4> QED
        BY <1>5, <3>1, <3>2, <4>1, TrimsStay
    <3> QED
      BY <3>1, <3>2, FewStay DEF Trimmed
  <2> QED
    BY <2>1, <2>2
<1> QED
  BY <1>15, <1>16 DEF Trimmed

\* The list it reads leaves the account as many as it may have, and the rows are there to drop.
LEMMA PushList ==
    ASSUME U!PushAssumption, DevicesInv, Trimmed, NEW q \in Requests, U!ListDevices(q)
    PROVE  DevicesInv' /\ Trimmed'
<1>1. PICK j : j = job[q] /\ j = [f \in PushFields |-> j[f]]
  BY DEF DevicesInv
<1>2. PICK u : u = j.u
  OBVIOUS
<1>3. PICK S : S = U!Excess(U!Of(u))
  OBVIOUS
<1>4. PICK r : r = [j EXCEPT !.at = "excess", !.rows = U!Rows(S)]
  OBVIOUS
<1>5. r = [f \in PushFields |-> r[f]] /\ r.at = "excess" /\ r.u = u /\ r.rows = U!Rows(S)
  BY <1>1, <1>2, <1>4 DEF PushFields
<1>6. U!Go(q, r) /\ UNCHANGED <<device, edits>>
  BY <1>1, <1>2, <1>3, <1>4 DEF U!ListDevices
<1>7. /\ job' = [p \in Requests |-> job'[p]] /\ \A p \in Requests : job'[p] = [f \in PushFields |-> job'[p][f]]
      /\ job'[q] = r /\ \A p \in Requests : p # q => job'[p] = job[p]
  BY <1>5, <1>6, GoPush
<1>8. edits' \in Nat /\ edits' >= edits
  BY <1>6 DEF DevicesInv
<1>9. DevicesInv' /\ \A v \in Users : Shrinks(v)
  BY <1>6, <1>7, <1>8, SameDevices, DevicesStay
<1>10. S \subseteq U!Of(u) /\ S \in SUBSET Registered
  BY <1>3, OfFinite DEF U!Excess
<1>11. U!There(r.rows)' = S /\ U!Of(u)' = U!Of(u)
  <2>1. U!There(U!Rows(S)) = S
    BY <1>10, RowsOf
  <2> QED
    BY <1>5, <1>6, <2>1 DEF U!There, U!Of
<1>12. Trims(q, u)'
  <2>1. Cardinality(U!Of(u) \ S) <= MaxDevices
    BY <1>3, ExcessLeaves
  <2>2. Cardinality(U!Of(u)' \ U!There(r.rows)') <= MaxDevices
    BY <1>11, <2>1
  <2> QED
    BY <1>5, <1>7, <2>2 DEF Trims
<1>13. ASSUME NEW v \in Users PROVE Cardinality(U!Of(v)') <= MaxDevices \/ \E p \in Requests : Trims(p, v)'
  <2>1. CASE Cardinality(U!Of(v)) <= MaxDevices
    BY <1>9, <2>1, FewStay
  <2>2. ASSUME NEW p \in Requests, Trims(p, v) PROVE Trims(p, v)' \/ Trims(q, v)'
    <3>1. CASE p = q
      <4>1. v = u
        BY <1>1, <1>2, <2>2, <3>1 DEF Trims
      <4> QED
        BY <1>12, <4>1
    <3>2. CASE p # q
      BY <1>7, <1>9, <2>2, <3>2, TrimsStay
    <3> QED
      BY <3>1, <3>2
  <2> QED
    BY <2>1, <2>2 DEF Trimmed
<1> QED
  BY <1>9, <1>13 DEF Trimmed

\* Dropping what was found to be too many leaves the account within the limit.
LEMMA PushDrop ==
    ASSUME U!PushAssumption, DevicesInv, Trimmed, NEW q \in Requests, U!DropExcess(q)
    PROVE  DevicesInv' /\ Trimmed'
<1>1. PICK S : S = U!There(job[q].rows)
  OBVIOUS
<1>2. U!Drop(S) /\ U!Go(q, U!NoReq) /\ job[q].at = "excess" /\ UNCHANGED edits
  BY <1>1 DEF U!DropExcess, U!At
<1>3. /\ job' = [p \in Requests |-> job'[p]] /\ \A p \in Requests : job'[p] = [f \in PushFields |-> job'[p][f]]
      /\ \A p \in Requests : p # q => job'[p] = job[p]
  BY <1>2, NoReqPush, GoPush
<1>4. edits' \in Nat /\ edits' >= edits
  BY <1>2 DEF DevicesInv
<1>5. DevicesInv' /\ \A v \in Users : Shrinks(v)
  BY <1>2, <1>3, <1>4, Drops, DevicesStay
<1>6. ASSUME NEW v \in Users PROVE Cardinality(U!Of(v)') <= MaxDevices \/ \E p \in Requests : Trims(p, v)'
  <2>1. CASE Cardinality(U!Of(v)) <= MaxDevices
    BY <1>5, <2>1, FewStay
  <2>2. ASSUME NEW p \in Requests, Trims(p, v), p # q PROVE Trims(p, v)'
    BY <1>3, <1>5, <2>2, TrimsStay
  <2>3. CASE Trims(q, v)
    <3>1. Cardinality(U!Of(v) \ S) <= MaxDevices
      BY <1>1, <1>2, <2>3 DEF Trims
    <3>2. U!Of(v)' \subseteq U!Of(v) \ S
      BY <1>2 DEF U!Drop, U!Of
    <3>3. IsFiniteSet(U!Of(v) \ S) /\ Cardinality(U!Of(v) \ S) \in Nat
      BY OfFinite
    <3>4. Cardinality(U!Of(v)') \in Nat /\ Cardinality(U!Of(v)') <= Cardinality(U!Of(v) \ S)
      BY <3>2, <3>3, FS_Subset, FS_CardinalityType
    <3> QED
      BY <3>1, <3>3, <3>4 DEF U!PushAssumption
  <2> QED
    BY <2>1, <2>2, <2>3 DEF Trimmed
<1> QED
  BY <1>5, <1>6 DEF Trimmed

\* What users do without a request of their own.
LEMMA PushRest ==
    ASSUME U!PushAssumption, DevicesInv, Trimmed,
           \/ \E e \in Endpoints : U!Unsubscribe(e) \/ \E u \in Users : U!Remove(u, e)
           \/ U!List \/ UNCHANGED U!vars
    PROVE  DevicesInv' /\ Trimmed'
<1>1. UNCHANGED job /\ edits' \in Nat /\ edits' >= edits
  <2>1. edits \in Nat
    BY DEF DevicesInv
  <2>2. UNCHANGED job /\ (UNCHANGED edits \/ edits' = edits + 1)
    BY DEF U!Unsubscribe, U!Remove, U!List, U!vars, U!Edit
  <2> QED
    BY <2>1, <2>2
<1>2. UNCHANGED device \/ \E S : U!Drop(S)
  BY DEF U!Unsubscribe, U!Remove, U!List, U!vars
<1>3. DevicesInv' /\ \A v \in Users : Shrinks(v)
  <2>1. /\ job' = [q \in Requests |-> job'[q]] /\ \A q \in Requests : job'[q] = [f \in PushFields |-> job'[q][f]]
    BY <1>1 DEF DevicesInv
  <2> QED
    BY <1>1, <1>2, <2>1, SameDevices, Drops, DevicesStay
<1>4. \A q \in Requests : job'[q] = job[q]
  BY <1>1
<1> QED
  BY <1>3, <1>4, TrimmedStays

LEMMA PushStep ==
    ASSUME U!PushAssumption, DevicesInv, Trimmed, [U!Next]_U!vars
    PROVE  DevicesInv' /\ Trimmed'
BY PushFans, PushRegister, PushList, PushDrop, PushRest DEF U!Next

LEMMA PushInit == U!PushAssumption /\ U!Init => DevicesInv /\ Trimmed
<1> SUFFICES ASSUME U!PushAssumption, U!Init PROVE DevicesInv /\ Trimmed
  OBVIOUS
<1>1. device = [e \in Endpoints |-> device[e]] /\ Registered = {} /\ edits = 0
  BY DEF U!Init, Registered
<1>2. job = [q \in Requests |-> job[q]] /\ \A q \in Requests : job[q] = [f \in PushFields |-> job[q][f]]
  BY NoReqPush DEF U!Init
<1>3. IsFiniteSet({}) /\ Cardinality({}) = 0
  BY FS_EmptySet
<1>4. \A u : U!Of(u) = {}
  BY <1>1 DEF U!Of, Registered
<1>5. DevicesInv
  BY <1>1, <1>2, <1>3 DEF DevicesInv
<1>6. MaxDevices \in Nat
  BY DEF U!PushAssumption
<1>7. ASSUME NEW u PROVE Cardinality(U!Of(u)) <= MaxDevices
  <2>1. Cardinality(U!Of(u)) = 0
    BY <1>3, <1>4
  <2> QED
    BY <1>6, <2>1
<1> QED
  BY <1>5, <1>7 DEF Trimmed

\* However many registrations overlap, and whatever is removed or dropped as gone or failing meanwhile, no
\* account has more devices than the limit once they are over (services/push.ts: every registration
\* lists the account's devices after its insert and drops all but the latest).
THEOREM LimitIsKept == ASSUME U!PushAssumption PROVE U!Spec => []U!DevicesLimited
<1>1. DevicesInv /\ Trimmed => U!DevicesLimited
  <2> SUFFICES ASSUME Trimmed, U!Idle, NEW u \in Users PROVE U!Cardinality(U!Of(u)) <= MaxDevices
    BY DEF U!DevicesLimited
  <2>1. U!Cardinality(U!Of(u)) = Cardinality(U!Of(u))
    BY DEF U!Cardinality, Cardinality, U!IsFiniteSet, IsFiniteSet
  <2>2. \A q \in Requests : ~ Trims(q, u)
    BY DEF Trims, U!Idle
  <2> QED
    BY <2>1, <2>2 DEF Trimmed
<1>2. DevicesInv /\ Trimmed /\ [U!Next]_U!vars => DevicesInv' /\ Trimmed'
  BY PushStep
<1>3. U!Init => DevicesInv /\ Trimmed
  BY PushInit
<1> QED
  BY <1>1, <1>2, <1>3, PTL DEF U!Spec

=============================================================================
