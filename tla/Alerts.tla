------------------------------- MODULE Alerts -------------------------------
(***************************************************************************)
(* The alerts of apps/custom-apps: rules whose conditions the cron         *)
(* evaluates every five minutes, one rule at a time and one statement at a *)
(* time, reconciling what it finds with the alerts it raised before, while *)
(* the panel acknowledges, resolves, silences and deletes.                 *)
(***************************************************************************)
EXTENDS Integers, FiniteSets

CONSTANTS
    Rules, AppRules, \* the rules there may be; those about the one app that may be deleted
    Subjects,        \* installations, apps, contracts and cycles
    Ids,             \* bound: the alerts there may be
    Evals,           \* runs of the evaluation; two of them overlap
    Requests,        \* requests of the panel
    None,
    MaxRules,        \* ALERTS.maxRules
    MaxEdits,        \* bound: edits of the panel, changes of the conditions, what goes wrong
    Together,        \* bound: whether runs and requests overlap
    Duties           \* bound: which of them happen

VARIABLES rule,  \* alert_rules: None, or whether it is enabled and whether it is silenced
          holds, \* the subjects each rule's condition holds for
          rows,  \* alerts
          told,  \* history: the notices of each alert its recipient was sent, by type
          gone,  \* history: the app was deleted
          ev,    \* the evaluations, between two statements
          req,   \* the panel's requests, between two statements
          edits  \* counter of the bound

vars == <<rule, holds, rows, told, gone, ev, req, edits>>

Rule == [enabled : BOOLEAN, silenced : BOOLEAN]
Alert == [rule : Rules \cup {None}, subject : Subjects, status : {"open", "acknowledged", "resolved"},
          notified : BOOLEAN, recent : BOOLEAN, by : {"cron", "quiet", "hand"}]
Evaluating == [at : {"none", "rule", "detected", "finding", "tell", "mark", "farewell"},
               todo : SUBSET Rules, quiet : SUBSET Rules, rule : Rules \cup {None}, found : SUBSET Subjects,
               unresolved : SUBSET Ids, notified : SUBSET Ids, recent : SUBSET Ids, left : SUBSET Ids,
               id : Ids \cup {None}]
Asking == [at : {"none", "resolve", "retire", "delete", "insert"}, on : Ids \cup Rules \cup {"app", None},
           rules : SUBSET Rules]
Asleep == [at |-> "none", todo |-> {}, quiet |-> {}, rule |-> None, found |-> {}, unresolved |-> {},
           notified |-> {}, recent |-> {}, left |-> {}, id |-> None]
NoReq == [at |-> "none", on |-> None, rules |-> {}]
New == [enabled |-> TRUE, silenced |-> FALSE]

ASSUME AlertsAssumption ==
    /\ AppRules \subseteq Rules /\ MaxRules \in Nat /\ MaxEdits \in Nat /\ Together \in BOOLEAN
    /\ None \notin Rules \cup Rule \cup Alert /\ None # "app" /\ Evals \cap Requests = {}

TypeOK ==
    /\ rule \in [Rules -> Rule \cup {None}]
    /\ holds \subseteq Rules \X Subjects
    /\ rows \in [Ids -> Alert \cup {None}]
    /\ told \in [Ids -> [opened : 0 .. 1, resolved : Nat]]
    /\ gone \in BOOLEAN /\ edits \in 0 .. MaxEdits
    /\ ev \in [Evals -> Evaluating]
    /\ req \in [Requests -> Asking]

Idle(x) == IF x \in Evals THEN ev[x].at = "none" ELSE req[x].at = "none"
Free(x) == Idle(x) /\ (Together \/ \A y \in Evals \cup Requests : Idle(y))
Edit(what) == what \in Duties /\ edits < MaxEdits /\ edits' = edits + 1
Row(i) == rows[i]
Live(i) == Row(i) # None /\ Row(i).status # "resolved"

-----------------------------------------------------------------------------
\* evaluateAlerts reads the rules that are enabled.
Wake(e) ==
    /\ Free(e)
    /\ ev' = [ev EXCEPT ![e] = [Asleep EXCEPT !.at = "rule",
                                 !.todo = {r \in Rules : rule[r] # None /\ rule[r].enabled},
                                 !.quiet = {r \in Rules : rule[r] # None /\ rule[r].silenced}]]
    /\ UNCHANGED <<rule, holds, rows, told, gone, req, edits>>

\* detect: what the condition of one of them holds for, right now.
Detect(e, r) ==
    /\ ev[e].at = "rule" /\ r \in ev[e].todo
    /\ ev' = [ev EXCEPT ![e].at = "detected", ![e].todo = @ \ {r}, ![e].rule = r,
                        ![e].found = {s \in Subjects : <<r, s>> \in holds}]
    /\ UNCHANGED <<rule, holds, rows, told, gone, req, edits>>

\* reconcile reads the alerts of the rule, unresolved and recently resolved.
Read(e) ==
    LET mine == {i \in Ids : Row(i) # None /\ Row(i).rule = ev[e].rule}
        live == {i \in mine : Live(i)}
    IN  /\ ev[e].at = "detected"
        /\ ev' = [ev EXCEPT ![e].at = "finding", ![e].unresolved = live,
                            ![e].notified = {i \in live : Row(i).notified},
                            ![e].recent = {i \in mine \ live : Row(i).recent},
                            ![e].left = {i \in live : Row(i).subject \notin ev[e].found}]
        /\ UNCHANGED <<rule, holds, rows, told, gone, req, edits>>

FaultyTaken(r, s) == FALSE

\* The partial unique index: an unresolved alert of the rule for the subject.
Taken(r, s) == \E i \in Ids : Live(i) /\ Row(i).rule = r /\ Row(i).subject = s

About(set, s) == {i \in set : Row(i).subject = s}
Done(e, s) == [ev EXCEPT ![e].found = @ \ {s}]
\* A statement the database refuses ends the rule, and the evaluation goes on to the next.
Failed(e) == [ev EXCEPT ![e] = [Asleep EXCEPT !.at = "rule", !.todo = ev[e].todo, !.quiet = ev[e].quiet]]

\* A finding whose alert is open refreshes it;
Refresh(e, s) ==
    /\ ev[e].at = "finding" /\ s \in ev[e].found /\ About(ev[e].unresolved, s) # {}
    /\ ev' = Done(e, s)
    /\ UNCHANGED <<rule, holds, rows, told, gone, req, edits>>

FaultyReopened(a) == [a EXCEPT !.status = "reopened"]
ForgottenStatus(a) == [a EXCEPT !.by = "cron"]

Reopened(a) == [a EXCEPT !.status = "open", !.by = "cron"]

\* one whose alert was resolved a moment ago reopens it, unless that breaks the index;
Reopen(e, s) ==
    /\ ev[e].at = "finding" /\ s \in ev[e].found /\ About(ev[e].unresolved, s) = {}
    /\ \E i \in About(ev[e].recent, s) :
         IF Row(i).rule # None /\ ~ Live(i) /\ Taken(Row(i).rule, s)
         THEN ev' = Failed(e) /\ UNCHANGED rows
         ELSE ev' = Done(e, s) /\ rows' = [rows EXCEPT ![i] = Reopened(@)]
    /\ UNCHANGED <<rule, holds, told, gone, req, edits>>

\* any other opens one, unless the rule is gone or another evaluation opened it first.
Open(e, s) ==
    LET r == ev[e].rule IN
    /\ ev[e].at = "finding" /\ s \in ev[e].found
    /\ About(ev[e].unresolved, s) = {} /\ About(ev[e].recent, s) = {}
    /\ \/ rule[r] = None /\ ev' = Failed(e) /\ UNCHANGED rows
       \/ rule[r] # None /\ Taken(r, s) /\ ev' = Done(e, s) /\ UNCHANGED rows
       \/ /\ rule[r] # None /\ ~ Taken(r, s)
          /\ \E i \in {i \in Ids : Row(i) = None} :
               /\ rows' = [rows EXCEPT ![i] = [rule |-> r, subject |-> s, status |-> "open", notified |-> FALSE,
                                                recent |-> FALSE, by |-> "cron"]]
               /\ ev' = [Done(e, s) EXCEPT ![e].at = "tell", ![e].id = i]
    /\ UNCHANGED <<rule, holds, told, gone, req, edits>>

\* notifyRecipient: silent for a silenced rule, and false when the queue refuses.
Sent(e, i, type) ==
    \/ ev[e].rule \in ev[e].quiet /\ UNCHANGED <<told, edits>>
    \/ ev[e].rule \notin ev[e].quiet /\ Edit("mail") /\ UNCHANGED told
    \/ /\ ev[e].rule \notin ev[e].quiet
       /\ told' = IF type = "opened" THEN [told EXCEPT ![i].opened = 1] ELSE [told EXCEPT ![i].resolved = @ + 1]
       /\ UNCHANGED edits

\* The recipient is told that it opened,
Tell(e) ==
    /\ ev[e].at = "tell" /\ Sent(e, ev[e].id, "opened")
    /\ ev' = [ev EXCEPT ![e].at = IF told' = told THEN "finding" ELSE "mark"]
    /\ UNCHANGED <<rule, holds, rows, gone, req>>

FaultyMark(e) ==
    /\ ev[e].at = "mark"
    /\ ev' = [ev EXCEPT ![e].at = "finding"]
    /\ UNCHANGED <<rule, holds, rows, told, gone, req, edits>>

\* and the alert says so.
Mark(e) ==
    /\ ev[e].at = "mark"
    /\ rows' = [rows EXCEPT ![ev[e].id].notified = TRUE]
    /\ ev' = [ev EXCEPT ![e].at = "finding"]
    /\ UNCHANGED <<rule, holds, told, gone, req, edits>>

FaultyWasTold(e, i) == TRUE

\* as it was read
WasTold(e, i) == i \in ev[e].notified

\* Every finding done, an unresolved alert that was not found is resolved,
Clear(e, i) ==
    /\ ev[e].at = "finding" /\ ev[e].found = {} /\ i \in ev[e].left
    /\ IF Live(i)
       THEN /\ rows' = [rows EXCEPT ![i].status = "resolved", ![i].recent = TRUE,
                                     ![i].by = IF ev[e].rule \in ev[e].quiet THEN "quiet" ELSE "cron"]
            /\ ev' = [ev EXCEPT ![e].left = @ \ {i}, ![e].id = i, ![e].at = IF WasTold(e, i) THEN "farewell" ELSE "finding"]
       ELSE ev' = [ev EXCEPT ![e].left = @ \ {i}] /\ UNCHANGED rows
    /\ UNCHANGED <<rule, holds, told, gone, req, edits>>

\* and its recipient told, if they were told it opened.
Farewell(e) ==
    /\ ev[e].at = "farewell" /\ Sent(e, ev[e].id, "resolved")
    /\ ev' = [ev EXCEPT ![e].at = "finding"]
    /\ UNCHANGED <<rule, holds, rows, gone, req>>

RuleDone(e) ==
    /\ ev[e].at = "finding" /\ ev[e].found = {} /\ ev[e].left = {}
    /\ ev' = Failed(e)
    /\ UNCHANGED <<rule, holds, rows, told, gone, req, edits>>

Sleep(e) ==
    /\ ev[e].at = "rule" /\ ev[e].todo = {}
    /\ ev' = [ev EXCEPT ![e] = Asleep]
    /\ UNCHANGED <<rule, holds, rows, told, gone, req, edits>>

-----------------------------------------------------------------------------
\* POST /alert-rules counts the rules, and then inserts.
BeginCreate(q, r) ==
    /\ Free(q) /\ rule[r] = None /\ ~ (gone /\ r \in AppRules) /\ (\A i \in Ids : Row(i) # None => Row(i).rule # r)
    /\ Cardinality({x \in Rules : rule[x] # None}) < MaxRules /\ Edit("create")
    /\ req' = [req EXCEPT ![q] = [NoReq EXCEPT !.at = "insert", !.on = r]]
    /\ UNCHANGED <<rule, holds, rows, told, gone, ev>>

Create(q) ==
    LET r == req[q].on IN
    /\ req[q].at = "insert"
    /\ rule' = [rule EXCEPT ![r] = IF rule[r] # None \/ (gone /\ r \in AppRules) THEN @ ELSE New]
    /\ req' = [req EXCEPT ![q] = NoReq]
    /\ UNCHANGED <<holds, rows, told, gone, ev, edits>>

\* PATCH /alert-rules/:ruleId is one update.
Patch(q, r) ==
    /\ Free(q) /\ rule[r] # None
    /\ \/ Edit("enable") /\ rule' = [rule EXCEPT ![r].enabled = ~ @]
       \/ Edit("silence") /\ rule' = [rule EXCEPT ![r].silenced = ~ @]
    /\ UNCHANGED <<holds, rows, told, gone, ev, req>>

\* DELETE /alert-rules/:ruleId and DELETE /apps/:appId read the rules that go,
BeginDelete(q) ==
    /\ Free(q) /\ Edit("delete")
    /\ \/ \E r \in Rules : rule[r] # None /\ req' = [req EXCEPT ![q] = [at |-> "retire", on |-> None, rules |-> {r}]]
       \/ /\ ~ gone
          /\ req' = [req EXCEPT ![q] = [at |-> "retire", on |-> "app", rules |-> {r \in AppRules : rule[r] # None}]]
    /\ UNCHANGED <<rule, holds, rows, told, gone, ev>>

FaultyRetired(a) == IF a.status = "open" THEN [a EXCEPT !.status = "resolved", !.recent = TRUE, !.by = "hand"] ELSE a

Retired(a) == IF a.status # "resolved" THEN [a EXCEPT !.status = "resolved", !.recent = TRUE, !.by = "hand"] ELSE a

\* resolve their alerts,
Retire(q) ==
    /\ req[q].at = "retire"
    /\ rows' = [i \in Ids |-> IF Row(i) # None /\ Row(i).rule \in req[q].rules THEN Retired(Row(i)) ELSE Row(i)]
    /\ req' = [req EXCEPT ![q].at = "delete"]
    /\ UNCHANGED <<rule, holds, told, gone, ev, edits>>

\* and delete them, the app's with the app: their alerts stay, with no rule.
Delete(q) ==
    LET dead == IF req[q].on = "app" THEN AppRules ELSE req[q].rules IN
    /\ req[q].at = "delete"
    /\ rule' = [r \in Rules |-> IF r \in dead THEN None ELSE rule[r]]
    /\ rows' = [i \in Ids |-> IF Row(i) # None /\ Row(i).rule \in dead THEN [Row(i) EXCEPT !.rule = None] ELSE Row(i)]
    /\ gone' = (gone \/ req[q].on = "app")
    /\ req' = [req EXCEPT ![q] = NoReq]
    /\ UNCHANGED <<holds, told, ev, edits>>

\* POST /alerts/:alertId/ack: an open alert is acknowledged, in a conditional update.
Ack(q, i) ==
    /\ Free(q) /\ Row(i) # None /\ Row(i).status = "open" /\ Edit("ack")
    /\ rows' = [rows EXCEPT ![i].status = "acknowledged"]
    /\ UNCHANGED <<rule, holds, told, gone, ev, req>>

\* POST /alerts/:alertId/resolve reads the alert, and then updates it whatever it is by then.
BeginResolve(q, i) ==
    /\ Free(q) /\ Live(i) /\ Edit("resolve")
    /\ req' = [req EXCEPT ![q] = [NoReq EXCEPT !.at = "resolve", !.on = i]]
    /\ UNCHANGED <<rule, holds, rows, told, gone, ev>>

Resolve(q) ==
    /\ req[q].at = "resolve"
    /\ rows' = [rows EXCEPT ![req[q].on].status = "resolved", ![req[q].on].recent = TRUE, ![req[q].on].by = "hand"]
    /\ req' = [req EXCEPT ![q] = NoReq]
    /\ UNCHANGED <<rule, holds, told, gone, ev, edits>>

\* The world: a condition comes or clears; half an hour passes since an alert was resolved; a run is cut short.
Flip(r, s) ==
    /\ Edit("flip") /\ (Together \/ \A y \in Evals \cup Requests : Idle(y))
    /\ holds' = IF <<r, s>> \in holds THEN holds \ {<<r, s>>} ELSE holds \cup {<<r, s>>}
    /\ UNCHANGED <<rule, rows, told, gone, ev, req>>

Age(i) ==
    /\ Row(i) # None /\ Row(i).status = "resolved" /\ Row(i).recent /\ Edit("age")
    /\ rows' = [rows EXCEPT ![i].recent = FALSE]
    /\ UNCHANGED <<rule, holds, told, gone, ev, req>>

Cut(e) ==
    /\ ev[e].at # "none" /\ Edit("cut")
    /\ ev' = [ev EXCEPT ![e] = Asleep]
    /\ UNCHANGED <<rule, holds, rows, told, gone, req>>

Init ==
    /\ rule \in [Rules -> {None, New}] /\ Cardinality({r \in Rules : rule[r] # None}) <= MaxRules
    /\ holds = {} /\ rows = [i \in Ids |-> None] /\ told = [i \in Ids |-> [opened |-> 0, resolved |-> 0]]
    /\ gone = FALSE /\ ev = [e \in Evals |-> Asleep] /\ req = [q \in Requests |-> NoReq] /\ edits = 0

Evaluation(e) ==
    \/ Wake(e) \/ Read(e) \/ Tell(e) \/ Mark(e) \/ Farewell(e) \/ RuleDone(e) \/ Sleep(e)
    \/ \E r \in Rules : Detect(e, r)
    \/ \E s \in Subjects : Refresh(e, s) \/ Reopen(e, s) \/ Open(e, s)
    \/ \E i \in Ids : Clear(e, i)

PanelStep(q) ==
    \/ Create(q) \/ BeginDelete(q) \/ Retire(q) \/ Delete(q) \/ Resolve(q)
    \/ \E r \in Rules : BeginCreate(q, r) \/ Patch(q, r)
    \/ \E i \in Ids : Ack(q, i) \/ BeginResolve(q, i)

Next ==
    \/ \E e \in Evals : Evaluation(e) \/ Cut(e)
    \/ \E q \in Requests : PanelStep(q)
    \/ \E r \in Rules, s \in Subjects : Flip(r, s)
    \/ \E i \in Ids : Age(i)

Spec == Init /\ [][Next]_vars

\* The cron runs again and again, and what it or a request began goes on.
FairSpec == Spec /\ (\A e \in Evals : WF_vars(Evaluation(e)))
                 /\ (\A q \in Requests : WF_vars(Create(q) \/ Retire(q) \/ Delete(q) \/ Resolve(q)))

-----------------------------------------------------------------------------
Quiet == \A x \in Evals \cup Requests : Idle(x)

\* However many evaluations overlap, a rule has at most one unresolved alert for a subject (the
\* partial unique index, and what reconcile does when it refuses).
OneOpen ==
    \A i, j \in Ids : i # j /\ Live(i) /\ Live(j) /\ Row(i).rule # None /\ Row(i).rule = Row(j).rule
                      => Row(i).subject # Row(j).subject

\* Nobody is told that an alert was resolved who was not told that it opened.
ResolvedNotFirst == \A i \in Ids : told[i].resolved > 0 => told[i].opened > 0

\* An alert whose recipient was told it opened, and which the evaluation resolved while its rule was
\* not silenced, was told resolved: the mark of the notice is there when it is needed.
ToldBoth ==
    Quiet => \A i \in Ids : Row(i) # None /\ Row(i).status = "resolved" /\ Row(i).by = "cron" /\ told[i].opened > 0
                            => told[i].resolved > 0

\* Deleting a rule, or its app, leaves no alert of it unresolved: nothing would ever reconcile it.
OrphansResolved == Quiet => \A i \in Ids : Live(i) => Row(i).rule # None

\* An alert that comes and goes within the half hour is one alert with a count, not a notification
\* each time.
OneFarewell == \A i \in Ids : told[i].resolved <= 1

\* There are at most MaxRules rules.
RulesLimited == Cardinality({r \in Rules : rule[r] # None}) <= MaxRules

\* A condition that goes on holding ends up with an unresolved alert that stays, and one that has
\* cleared with none, as long as its rule is there and enabled, whatever cut the evaluations short.
Seen(r, s) == \E i \in Ids : Live(i) /\ Row(i).rule = r /\ Row(i).subject = s
Watched(r) == rule[r] # None /\ rule[r].enabled
AlertsFollow == \A r \in Rules, s \in Subjects : Watched(r) => (Seen(r, s) <=> <<r, s>> \in holds)
=============================================================================
