--------------------------- MODULE ServicesProofs ---------------------------
(***************************************************************************)
(* Proofs about what apps/custom-apps keeps for the clients of an app, for *)
(* every number of rows, requests and edits.  Alerts: a rule has one       *)
(* unresolved alert for a subject, and no end is announced whose beginning *)
(* was not, whatever overlaps.  Tickets: a ticket is finished when it says *)
(* so, what a side marked read it was shown, and the hourly limits are     *)
(* passed by no more than the requests that overlapped.  Maintenances: an  *)
(* answer schedules once.  Contracts: no two cycles share a day, and a     *)
(* closed one is final.                                                    *)
(***************************************************************************)
EXTENDS Alerts, Sequences, SequenceTheorems, FiniteSetTheorems, TLAPS

CONSTANTS
    Tickets, Devices, MaxTickets, MaxMessages, MaxTime,              \* Tickets
    Reqs, Cron, Kinds, Horizon, MaxWins, MaxLinks, Pauses,           \* MaintenanceApproval
    Entries, Period, Included, MaxKept, MaxAge, MaxSteps                      \* ContractCycles

VARIABLES
    clock, ticket, msgs, hour,                                       \* Tickets
    row, windows, links, now, made,                                  \* MaintenanceApproval
    day, contract, cycles, logs, closedOn,                           \* ContractCycles
    paused                                                           \* Tickets and MaintenanceApproval

D == INSTANCE Tickets
M == INSTANCE MaintenanceApproval
C == INSTANCE ContractCycles

-----------------------------------------------------------------------------
(* Alerts *)

There(i) == Row(i) # None

\* What an evaluation carries from one statement to the next: the rows it read are there, the recipient
\* of those it read as notified, or is about to mark or to bid farewell, was told that they opened.
Knows(x) ==
    /\ \A i \in x.unresolved \cup x.notified \cup x.recent \cup x.left : There(i)
    /\ \A i \in x.notified : told[i].opened > 0
    /\ x.at \in {"detected", "finding", "tell", "mark", "farewell"} => x.rule \in Rules
    /\ x.at \in {"tell", "mark", "farewell"} => x.id \in Ids /\ There(x.id)
    /\ x.at \in {"mark", "farewell"} => told[x.id].opened > 0

\* What a request of the panel carries: the alert it resolves is there, and it inserts a rule.
Holds(q) ==
    /\ q.at = "resolve" => q.on \in Ids /\ There(q.on)
    /\ q.at = "insert" => q.on \in Rules

Locals == (\A e \in Evals : Knows(ev[e])) /\ (\A q \in Requests : Holds(req[q]))

\* The mark on a row says that its recipient was told that it opened.
Marked == \A i \in Ids : There(i) /\ Row(i).notified => told[i].opened > 0

\* The inductive invariant.
Inv == TypeOK /\ Locals /\ Marked /\ OneOpen /\ ResolvedNotFirst

\* What every step keeps: rows never go, and nobody forgets that an alert opened.
Grows == \A i \in Ids : (There(i) => There(i)') /\ (told[i].opened > 0 => told'[i].opened > 0)

-----------------------------------------------------------------------------
\* No alert yet, and nobody at work.
LEMMA InitInv == Init => Inv
<1> SUFFICES ASSUME Init PROVE Inv
  OBVIOUS
<1>1. TypeOK
  <2>1. rule \in [Rules -> Rule \cup {None}]
    <3>1. New \in Rule
      BY DEF Rule, New
    <3>2. rule \in [Rules -> {None, New}]
      BY DEF Init
    <3> QED
      BY <3>1, <3>2
  <2>2. Asleep \in Evaluating /\ NoReq \in Asking
    BY DEF Asleep, Evaluating, NoReq, Asking
  <2>3. edits \in 0 .. MaxEdits
    BY AlertsAssumption DEF Init
  <2>4. rows \in [Ids -> Alert \cup {None}] /\ told \in [Ids -> [opened : 0 .. 1, resolved : Nat]]
    BY DEF Init
  <2>5. ev \in [Evals -> Evaluating] /\ req \in [Requests -> Asking]
    BY <2>2 DEF Init
  <2>6. holds \subseteq Rules \X Subjects /\ gone \in BOOLEAN
    BY DEF Init
  <2> QED
    BY <2>1, <2>3, <2>4, <2>5, <2>6 DEF TypeOK
<1>2. Locals
  BY DEF Init, Locals, Knows, Holds, Asleep, NoReq
<1>3. Marked /\ OneOpen /\ ResolvedNotFirst
  BY DEF Init, Marked, OneOpen, ResolvedNotFirst, There, Live, Row
<1> QED
  BY <1>1, <1>2, <1>3 DEF Inv

\* An evaluation that goes on with what it knows leaves the others what they knew.
LEMMA EvalLocals ==
    ASSUME Inv, NEW e \in Evals, NEW x \in Evaluating, Knows(x)', ev' = [ev EXCEPT ![e] = x], Grows, UNCHANGED req
    PROVE  Locals' /\ ev' \in [Evals -> Evaluating] /\ req' \in [Requests -> Asking]
<1>1. ev \in [Evals -> Evaluating] /\ req \in [Requests -> Asking]
  BY DEF Inv, TypeOK
<1>2. ASSUME NEW d \in Evals PROVE Knows(ev[d])'
  <2>1. CASE d = e
    <3>1. ev'[d] = x
      BY <1>1, <2>1
    <3> QED
      BY <3>1 DEF Knows
  <2>2. CASE d # e
    <3>1. ev'[d] = ev[d] /\ ev[d] \in Evaluating /\ Knows(ev[d])
      BY <1>1, <2>2 DEF Inv, Locals
    <3> QED
      BY <3>1 DEF Knows, Grows, Evaluating
  <2> QED
    BY <2>1, <2>2
<1>3. ASSUME NEW q \in Requests PROVE Holds(req[q])'
  BY DEF Inv, Locals, Holds, Grows
<1> QED
  BY <1>1, <1>2, <1>3 DEF Locals

\* The same of a request.
LEMMA PanelLocals ==
    ASSUME Inv, NEW q \in Requests, NEW x \in Asking, Holds(x)', req' = [req EXCEPT ![q] = x], Grows, UNCHANGED ev
    PROVE  Locals' /\ ev' \in [Evals -> Evaluating] /\ req' \in [Requests -> Asking]
<1>1. ev \in [Evals -> Evaluating] /\ req \in [Requests -> Asking]
  BY DEF Inv, TypeOK
<1>2. ASSUME NEW d \in Evals PROVE Knows(ev[d])'
  <2>1. ev'[d] = ev[d] /\ ev[d] \in Evaluating /\ Knows(ev[d])
    BY <1>1 DEF Inv, Locals
  <2> QED
    BY <2>1 DEF Knows, Grows, Evaluating
<1>3. ASSUME NEW p \in Requests PROVE Holds(req[p])'
  <2>1. CASE p = q
    <3>1. req'[p] = x
      BY <1>1, <2>1
    <3> QED
      BY <3>1 DEF Holds
  <2>2. CASE p # q
    <3>1. req'[p] = req[p] /\ Holds(req[p])
      BY <1>1, <2>2 DEF Inv, Locals
    <3> QED
      BY <3>1 DEF Holds, Grows
  <2> QED
    BY <2>1, <2>2
<1> QED
  BY <1>1, <1>2, <1>3 DEF Locals

\* A statement that writes no row and no notice keeps all but the locals.
LEMMA OnlyLocals ==
    ASSUME Inv, UNCHANGED <<rows, told>>, rule' \in [Rules -> Rule \cup {None}], holds' \subseteq Rules \X Subjects,
           gone' \in BOOLEAN, edits' \in 0 .. MaxEdits, Locals',
           ev' \in [Evals -> Evaluating], req' \in [Requests -> Asking]
    PROVE  Inv'
<1>1. TypeOK'
  BY DEF Inv, TypeOK
<1>2. Marked' /\ OneOpen' /\ ResolvedNotFirst'
  BY DEF Inv, Marked, OneOpen, ResolvedNotFirst, There, Live, Row
<1> QED
  BY <1>1, <1>2 DEF Inv

\* The bound's counter counts up to its bound.
LEMMA EditCounts ==
    ASSUME Inv, NEW what, Edit(what)
    PROVE  edits' \in 0 .. MaxEdits
BY AlertsAssumption DEF Inv, TypeOK, Edit

-----------------------------------------------------------------------------
(* An evaluation *)

\* The record of an evaluation, field by field.
LEMMA Fields ==
    ASSUME Inv, NEW e \in Evals
    PROVE  /\ ev[e] \in Evaluating /\ ev[e].todo \subseteq Rules /\ ev[e].quiet \subseteq Rules
           /\ ev[e].found \subseteq Subjects /\ ev[e].unresolved \subseteq Ids /\ ev[e].notified \subseteq Ids
           /\ ev[e].recent \subseteq Ids /\ ev[e].left \subseteq Ids /\ Knows(ev[e])
           /\ ev[e].rule \in Rules \cup {None} /\ ev[e].id \in Ids \cup {None}
BY DEF Inv, TypeOK, Locals, Evaluating

\* A step of an evaluation that writes no row and sends nothing, and knows no more than before.
LEMMA LocalStep ==
    ASSUME Inv, NEW e \in Evals, NEW x \in Evaluating, Knows(x), ev' = [ev EXCEPT ![e] = x],
           UNCHANGED <<rule, holds, rows, told, gone, req>>, edits' \in 0 .. MaxEdits
    PROVE  Inv'
<1>1. Grows
  BY DEF Grows, There, Row
<1>2. Knows(x)'
  BY DEF Knows, There, Row
<1>3. Locals' /\ ev' \in [Evals -> Evaluating] /\ req' \in [Requests -> Asking]
  BY <1>1, <1>2, EvalLocals
<1> QED
  BY <1>3, OnlyLocals DEF Inv, TypeOK

LEMMA WakeInv ==
    ASSUME Inv, NEW e \in Evals, Wake(e)
    PROVE  Inv'
<1> DEFINE todo == {r \in Rules : rule[r] # None /\ rule[r].enabled}
           quiet == {r \in Rules : rule[r] # None /\ rule[r].silenced}
           x == [Asleep EXCEPT !.at = "rule", !.todo = todo, !.quiet = quiet]
<1>1. ev' = [ev EXCEPT ![e] = x] /\ UNCHANGED <<rule, holds, rows, told, gone, req, edits>>
  BY DEF Wake
<1>2. todo \subseteq Rules /\ quiet \subseteq Rules
  OBVIOUS
<1> HIDE DEF todo, quiet
<1>3. x \in Evaluating
  BY <1>2 DEF Asleep, Evaluating
<1>4. Knows(x)
  BY DEF Asleep, Knows
<1> QED
  BY <1>1, <1>3, <1>4, LocalStep DEF Inv, TypeOK

LEMMA DetectInv ==
    ASSUME Inv, NEW e \in Evals, NEW r \in Rules, Detect(e, r)
    PROVE  Inv'
<1> DEFINE found == {s \in Subjects : <<r, s>> \in holds}
           x == [ev[e] EXCEPT !.at = "detected", !.todo = @ \ {r}, !.rule = r, !.found = found]
<1>1. ev' = [ev EXCEPT ![e] = x] /\ UNCHANGED <<rule, holds, rows, told, gone, req, edits>> /\ found \subseteq Subjects
  BY DEF Detect, Inv, TypeOK
<1> HIDE DEF found
<1>2. /\ x.at = "detected" /\ x.rule = r /\ x.unresolved = ev[e].unresolved /\ x.notified = ev[e].notified
      /\ x.recent = ev[e].recent /\ x.left = ev[e].left /\ x.id = ev[e].id
  BY Fields DEF Evaluating
<1>3. x \in Evaluating
  BY <1>1, Fields DEF Evaluating
<1> HIDE DEF x
<1>4. Knows(x)
  BY <1>2, Fields DEF Knows
<1> QED
  BY <1>1, <1>3, <1>4, LocalStep DEF Inv, TypeOK

LEMMA ReadInv ==
    ASSUME Inv, NEW e \in Evals, Read(e)
    PROVE  Inv'
<1> DEFINE mine == {i \in Ids : Row(i) # None /\ Row(i).rule = ev[e].rule}
           live == {i \in mine : Live(i)}
           notified == {i \in live : Row(i).notified}
           recent == {i \in mine \ live : Row(i).recent}
           left == {i \in live : Row(i).subject \notin ev[e].found}
           x == [ev[e] EXCEPT !.at = "finding", !.unresolved = live, !.notified = notified, !.recent = recent, !.left = left]
<1>1. /\ ev' = [ev EXCEPT ![e] = x] /\ ev[e].at = "detected"
      /\ UNCHANGED <<rule, holds, rows, told, gone, req, edits>>
  BY DEF Read, Inv, TypeOK
<1>2. \A i \in live \cup notified \cup recent \cup left : i \in Ids /\ There(i)
  BY DEF There
<1>3. \A i \in notified : i \in Ids /\ told[i].opened > 0
  BY DEF Inv, Marked, There, Live
<1> HIDE DEF live, notified, recent, left
<1>4. /\ x.at = "finding" /\ x.rule = ev[e].rule /\ x.unresolved = live /\ x.notified = notified
      /\ x.recent = recent /\ x.left = left
  BY Fields DEF Evaluating
<1>5. x \in Evaluating
  BY <1>2, Fields DEF Evaluating
<1> HIDE DEF x
<1>6. Knows(x)
  BY <1>1, <1>2, <1>3, <1>4, Fields DEF Knows
<1> QED
  BY <1>1, <1>5, <1>6, LocalStep DEF Inv, TypeOK

\* A rule that is done, or failed: the evaluation forgets what it read of it.
LEMMA FailedKnows ==
    ASSUME Inv, NEW e \in Evals
    PROVE  \E x \in Evaluating : /\ x.at = "rule" /\ Knows(x) /\ Failed(e) = [ev EXCEPT ![e] = x]
<1> DEFINE x == [Asleep EXCEPT !.at = "rule", !.todo = ev[e].todo, !.quiet = ev[e].quiet]
<1>1. Failed(e) = [ev EXCEPT ![e] = x]
  BY DEF Failed
<1>2. x \in Evaluating /\ x.at = "rule"
  BY Fields DEF Asleep, Evaluating
<1>3. Knows(x)
  BY DEF Asleep, Knows
<1> QED
  BY <1>1, <1>2, <1>3

\* A finding is done: the evaluation knows the same.
LEMMA DoneKnows ==
    ASSUME Inv, NEW e \in Evals, NEW s \in Subjects, ev[e].at = "finding"
    PROVE  \E x \in Evaluating : x.at = "finding" /\ Knows(x) /\ Done(e, s) = [ev EXCEPT ![e] = x]
<1> DEFINE x == [ev[e] EXCEPT !.found = @ \ {s}]
<1>1. Done(e, s) = [ev EXCEPT ![e] = x]
  BY DEF Done, Inv, TypeOK
<1>2. /\ x.at = "finding" /\ x.rule = ev[e].rule /\ x.unresolved = ev[e].unresolved /\ x.notified = ev[e].notified
      /\ x.recent = ev[e].recent /\ x.left = ev[e].left
  BY Fields DEF Evaluating
<1>3. x \in Evaluating
  BY Fields DEF Evaluating
<1> HIDE DEF x
<1>4. Knows(x)
  BY <1>2, Fields DEF Knows
<1> QED
  BY <1>1, <1>2, <1>3, <1>4

LEMMA RefreshInv ==
    ASSUME Inv, NEW e \in Evals, NEW s \in Subjects, Refresh(e, s)
    PROVE  Inv'
<1>1. ev[e].at = "finding" /\ ev' = Done(e, s) /\ UNCHANGED <<rule, holds, rows, told, gone, req, edits>>
  BY DEF Refresh
<1> QED
  BY <1>1, DoneKnows, LocalStep DEF Inv, TypeOK

\* The ends of an evaluation: the next rule, none, or cut short.
LEMMA EndInv ==
    ASSUME Inv, NEW e \in Evals, RuleDone(e) \/ Sleep(e) \/ Cut(e)
    PROVE  Inv'
<1>1. CASE RuleDone(e)
  <2>1. ev' = Failed(e) /\ UNCHANGED <<rule, holds, rows, told, gone, req, edits>>
    BY <1>1 DEF RuleDone
  <2> QED
    BY <2>1, FailedKnows, LocalStep DEF Inv, TypeOK
<1>2. CASE Sleep(e) \/ Cut(e)
  <2>1. ev' = [ev EXCEPT ![e] = Asleep] /\ UNCHANGED <<rule, holds, rows, told, gone, req>> /\ edits' \in 0 .. MaxEdits
    BY <1>2, EditCounts DEF Sleep, Cut, Inv, TypeOK
  <2>2. Asleep \in Evaluating /\ Knows(Asleep)
    BY DEF Asleep, Evaluating, Knows
  <2> QED
    BY <2>1, <2>2, LocalStep
<1> QED
  BY <1>1, <1>2

-----------------------------------------------------------------------------
(* One row is written *)

\* The row of one alert is written: no other of its rule and its subject is unresolved, if it is.
LEMMA RowWritten ==
    ASSUME Inv, NEW i \in Ids, NEW a \in Alert, rows' = [rows EXCEPT ![i] = a], UNCHANGED told,
           a.notified => told[i].opened > 0,
           a.status # "resolved" /\ a.rule # None =>
             \A j \in Ids : j # i /\ Live(j) /\ Row(j).rule = a.rule => Row(j).subject # a.subject
    PROVE  rows' \in [Ids -> Alert \cup {None}] /\ Grows /\ Marked' /\ OneOpen' /\ ResolvedNotFirst'
<1>1. rows \in [Ids -> Alert \cup {None}] /\ None \notin Alert
  BY AlertsAssumption DEF Inv, TypeOK
<1>2. rows' \in [Ids -> Alert \cup {None}]
  BY <1>1
<1>3. rows'[i] = a /\ a # None /\ \A j \in Ids : j # i => rows'[j] = rows[j]
  BY <1>1
<1>4. Grows
  BY <1>3 DEF Grows, There, Row
<1>5. Marked'
  BY <1>3 DEF Inv, Marked, There, Row
<1>6. OneOpen'
  <2> SUFFICES ASSUME NEW j \in Ids, NEW k \in Ids, j # k, Live(j)', Live(k)', rows'[j].rule # None,
                      rows'[j].rule = rows'[k].rule
               PROVE  rows'[j].subject # rows'[k].subject
    BY DEF OneOpen, Row
  <2>1. CASE j = i
    BY <1>3, <2>1 DEF Live, Row
  <2>2. CASE k = i
    BY <1>3, <2>2 DEF Live, Row
  <2>3. CASE j # i /\ k # i
    BY <1>3, <2>3 DEF Inv, OneOpen, Live, Row
  <2> QED
    BY <2>1, <2>2, <2>3
<1> QED
  BY <1>2, <1>4, <1>5, <1>6 DEF Inv, ResolvedNotFirst

\* The row keeps its rule and its subject, and is not unresolved again.
LEMMA RowKept ==
    ASSUME Inv, NEW i \in Ids, There(i), NEW a \in Alert, rows' = [rows EXCEPT ![i] = a], UNCHANGED told,
           a.notified => told[i].opened > 0, a.rule = Row(i).rule, a.subject = Row(i).subject,
           a.status # "resolved" => Row(i).status # "resolved"
    PROVE  rows' \in [Ids -> Alert \cup {None}] /\ Grows /\ Marked' /\ OneOpen' /\ ResolvedNotFirst'
<1>1. a.status # "resolved" /\ a.rule # None =>
        \A j \in Ids : j # i /\ Live(j) /\ Row(j).rule = a.rule => Row(j).subject # a.subject
  BY DEF Inv, OneOpen, Live, There
<1> QED
  BY <1>1, RowWritten

\* A row that is there is an alert.
LEMMA Rows ==
    ASSUME Inv, NEW i \in Ids, There(i)
    PROVE  rows[i] \in Alert /\ (rows[i].notified => told[i].opened > 0)
BY DEF Inv, TypeOK, Marked, There, Row

\* The parts of the invariant, after a step of an evaluation.
LEMMA AfterStep ==
    ASSUME Inv, NEW e \in Evals, NEW x \in Evaluating, Knows(x)', ev' = [ev EXCEPT ![e] = x], Grows,
           rows' \in [Ids -> Alert \cup {None}], told' \in [Ids -> [opened : 0 .. 1, resolved : Nat]],
           edits' \in 0 .. MaxEdits, UNCHANGED <<rule, holds, gone, req>>, Marked', OneOpen', ResolvedNotFirst'
    PROVE  Inv'
<1>1. Locals' /\ ev' \in [Evals -> Evaluating] /\ req' \in [Requests -> Asking]
  BY EvalLocals
<1> QED
  BY <1>1 DEF Inv, TypeOK

\* An alert resolved a moment ago is reopened, unless another is open.
LEMMA ReopenInv ==
    ASSUME Inv, NEW e \in Evals, NEW s \in Subjects, Reopen(e, s)
    PROVE  Inv'
<1>1. ev[e].at = "finding" /\ UNCHANGED <<rule, holds, told, gone, req, edits>>
  BY DEF Reopen
<1>2. PICK i \in About(ev[e].recent, s) :
         IF Row(i).rule # None /\ ~ Live(i) /\ Taken(Row(i).rule, s)
         THEN ev' = Failed(e) /\ UNCHANGED rows
         ELSE ev' = Done(e, s) /\ rows' = [rows EXCEPT ![i] = Reopened(@)]
  BY DEF Reopen
<1>3. i \in Ids /\ There(i) /\ Row(i).subject = s
  BY <1>2, Fields DEF About, Knows
<1>4. CASE ev' = Failed(e) /\ UNCHANGED rows
  BY <1>1, <1>4, FailedKnows, LocalStep DEF Inv, TypeOK
<1>5. CASE /\ ev' = Done(e, s) /\ rows' = [rows EXCEPT ![i] = Reopened(@)]
           /\ ~ (Row(i).rule # None /\ ~ Live(i) /\ Taken(Row(i).rule, s))
  <2> DEFINE a == Reopened(rows[i])
  <2>1. rows' = [rows EXCEPT ![i] = a]
    BY <1>3, <1>5 DEF Inv, TypeOK
  <2>2. /\ a \in Alert /\ a.notified = rows[i].notified /\ a.rule = Row(i).rule
        /\ a.subject = s
    BY <1>3, Rows DEF Reopened, Alert, Row
  <2>3. a.notified => told[i].opened > 0
    BY <1>3, <2>2, Rows
  <2>4. a.rule # None => \A j \in Ids : j # i /\ Live(j) /\ Row(j).rule = a.rule => Row(j).subject # a.subject
    <3>1. CASE Live(i)
      BY <1>3, <2>2, <3>1 DEF Inv, OneOpen
    <3>2. CASE ~ Live(i)
      BY <1>5, <2>2, <3>2 DEF Taken
    <3> QED
      BY <3>1, <3>2
  <2> HIDE DEF a
  <2>5. rows' \in [Ids -> Alert \cup {None}] /\ Grows /\ Marked' /\ OneOpen' /\ ResolvedNotFirst'
    BY <1>1, <1>3, <2>1, <2>2, <2>3, <2>4, RowWritten
  <2>6. PICK x \in Evaluating : x.at = "finding" /\ Knows(x) /\ ev' = [ev EXCEPT ![e] = x]
    BY <1>1, <1>5, DoneKnows
  <2>7. Knows(x)'
    BY <1>1, <2>5, <2>6 DEF Knows, Grows, Evaluating
  <2>8. told' \in [Ids -> [opened : 0 .. 1, resolved : Nat]] /\ edits' \in 0 .. MaxEdits
    BY <1>1 DEF Inv, TypeOK
  <2> QED
    BY <1>1, <2>5, <2>6, <2>7, <2>8, AfterStep
<1> QED
  BY <1>2, <1>4, <1>5

\* A new alert is opened for a subject that has none.
LEMMA OpenInv ==
    ASSUME Inv, NEW e \in Evals, NEW s \in Subjects, Open(e, s)
    PROVE  Inv'
<1> DEFINE r == ev[e].rule
<1>1. ev[e].at = "finding" /\ r \in Rules /\ UNCHANGED <<rule, holds, told, gone, req, edits>>
  BY Fields DEF Open, Knows
<1>2. CASE ev' = Failed(e) /\ UNCHANGED rows
  BY <1>1, <1>2, FailedKnows, LocalStep DEF Inv, TypeOK
<1>3. CASE ev' = Done(e, s) /\ UNCHANGED rows
  BY <1>1, <1>3, DoneKnows, LocalStep DEF Inv, TypeOK
<1>4. ASSUME NEW i \in Ids, Row(i) = None, ~ Taken(r, s),
             rows' = [rows EXCEPT ![i] = [rule |-> r, subject |-> s, status |-> "open", notified |-> FALSE,
                                           recent |-> FALSE, by |-> "cron"]],
             ev' = [Done(e, s) EXCEPT ![e].at = "tell", ![e].id = i]
      PROVE  Inv'
  <2> DEFINE a == [rule |-> r, subject |-> s, status |-> "open", notified |-> FALSE, recent |-> FALSE, by |-> "cron"]
             y == [ev[e] EXCEPT !.found = @ \ {s}, !.at = "tell", !.id = i]
  <2>1. a \in Alert /\ ~ a.notified /\ a.rule = r /\ a.subject = s
    BY <1>1 DEF Alert
  <2>2. \A j \in Ids : Live(j) /\ Row(j).rule = a.rule => Row(j).subject # a.subject
    BY <1>4, <2>1 DEF Taken
  <2>3. rows' = [rows EXCEPT ![i] = a]
    BY <1>4
  <2> HIDE DEF a
  <2>4. rows' \in [Ids -> Alert \cup {None}] /\ Grows /\ Marked' /\ OneOpen' /\ ResolvedNotFirst'
    BY <1>1, <2>1, <2>2, <2>3, RowWritten
  <2>5. There(i)'
    BY <2>1, <2>3, AlertsAssumption DEF There, Row, Inv, TypeOK
  <2>6. y \in Evaluating
    BY Fields DEF Evaluating
  <2>7. /\ y.at = "tell" /\ y.id = i /\ y.rule = ev[e].rule /\ y.unresolved = ev[e].unresolved
        /\ y.notified = ev[e].notified /\ y.recent = ev[e].recent /\ y.left = ev[e].left
    BY Fields DEF Evaluating
  <2>8. ev' = [ev EXCEPT ![e] = y]
    BY <1>4 DEF Done, Inv, TypeOK
  <2> HIDE DEF y
  <2>9. PICK x \in Evaluating : x = y
    BY <2>6
  <2>10. Knows(x)'
    BY <1>1, <2>4, <2>5, <2>7, <2>9, Fields DEF Knows, Grows
  <2>11. told' \in [Ids -> [opened : 0 .. 1, resolved : Nat]] /\ edits' \in 0 .. MaxEdits
    BY <1>1 DEF Inv, TypeOK
  <2> QED
    BY <1>1, <2>4, <2>8, <2>9, <2>10, <2>11, AfterStep
<1> QED
  BY <1>2, <1>3, <1>4 DEF Open

-----------------------------------------------------------------------------
(* Notices *)

\* What a notice changes: at most the history of its alert, which never forgets.
LEMMA SentTo ==
    ASSUME Inv, NEW e \in Evals, NEW i \in Ids, NEW type \in {"opened", "resolved"}, Sent(e, i, type)
    PROVE  /\ told' \in [Ids -> [opened : 0 .. 1, resolved : Nat]] /\ edits' \in 0 .. MaxEdits
           /\ \A j \in Ids : told[j].opened > 0 => told'[j].opened > 0
           /\ \A j \in Ids : told'[j].resolved # told[j].resolved => j = i /\ type = "resolved"
           /\ told' # told /\ type = "opened" => told'[i].opened > 0
<1>1. told \in [Ids -> [opened : 0 .. 1, resolved : Nat]] /\ edits \in 0 .. MaxEdits
  BY DEF Inv, TypeOK
<1>2. CASE UNCHANGED told
  BY <1>1, <1>2, EditCounts DEF Sent
<1>3. CASE type = "opened" /\ told' = [told EXCEPT ![i].opened = 1] /\ UNCHANGED edits
  <2>1. told'[i].opened = 1 /\ told'[i].resolved = told[i].resolved /\ \A j \in Ids : j # i => told'[j] = told[j]
    BY <1>1, <1>3
  <2>2. told' \in [Ids -> [opened : 0 .. 1, resolved : Nat]]
    BY <1>1, <1>3
  <2> QED
    BY <1>1, <1>3, <2>1, <2>2
<1>4. CASE type = "resolved" /\ told' = [told EXCEPT ![i].resolved = @ + 1] /\ UNCHANGED edits
  <2>1. told'[i].opened = told[i].opened /\ \A j \in Ids : j # i => told'[j] = told[j]
    BY <1>1, <1>4
  <2>2. told' \in [Ids -> [opened : 0 .. 1, resolved : Nat]]
    BY <1>1, <1>4
  <2> QED
    BY <1>1, <1>4, <2>1, <2>2
<1> QED
  BY <1>2, <1>3, <1>4 DEF Sent

\* A step that sends a notice and writes no row keeps the invariant, if an end is only announced to
\* who knows of the beginning.
LEMMA NoticeStep ==
    ASSUME Inv, NEW e \in Evals, NEW i \in Ids, NEW type \in {"opened", "resolved"}, Sent(e, i, type),
           type = "resolved" => told[i].opened > 0, UNCHANGED <<rule, holds, rows, gone, req>>,
           NEW x \in Evaluating, Knows(x)', ev' = [ev EXCEPT ![e] = x]
    PROVE  Inv'
<1>1. Grows /\ Marked'
  BY SentTo DEF Grows, Inv, Marked, There, Row
<1>2. OneOpen'
  BY DEF Inv, OneOpen, Live, Row
<1>3. ResolvedNotFirst'
  <2> SUFFICES ASSUME NEW j \in Ids, told'[j].resolved > 0
               PROVE  told'[j].opened > 0
    BY DEF ResolvedNotFirst
  <2>1. CASE told'[j].resolved = told[j].resolved
    BY <2>1, SentTo DEF Inv, ResolvedNotFirst
  <2>2. CASE told'[j].resolved # told[j].resolved
    BY <2>2, SentTo
  <2> QED
    BY <2>1, <2>2
<1>4. rows' \in [Ids -> Alert \cup {None}]
  BY DEF Inv, TypeOK
<1> QED
  BY <1>1, <1>2, <1>3, <1>4, SentTo, AfterStep

\* The recipient is told that an alert opened; only then is it marked.
LEMMA TellInv ==
    ASSUME Inv, NEW e \in Evals, Tell(e)
    PROVE  Inv'
<1> DEFINE i == ev[e].id
<1>1. /\ ev[e].at = "tell" /\ i \in Ids /\ There(i) /\ Sent(e, i, "opened")
      /\ ev' = [ev EXCEPT ![e].at = IF told' = told THEN "finding" ELSE "mark"]
      /\ UNCHANGED <<rule, holds, rows, gone, req>>
  BY Fields DEF Tell, Knows
<1>2. PICK at \in {"finding", "mark"} : at = (IF told' = told THEN "finding" ELSE "mark")
  OBVIOUS
<1> DEFINE y == [ev[e] EXCEPT !.at = at]
<1>3. ev' = [ev EXCEPT ![e] = y]
  BY <1>1, <1>2 DEF Inv, TypeOK
<1>4. y \in Evaluating
  BY Fields DEF Evaluating
<1>5. /\ y.at = at /\ y.id = i /\ y.rule = ev[e].rule /\ y.unresolved = ev[e].unresolved
      /\ y.notified = ev[e].notified /\ y.recent = ev[e].recent /\ y.left = ev[e].left
  BY Fields DEF Evaluating
<1> HIDE DEF y
<1>6. PICK x \in Evaluating : x = y
  BY <1>4
<1>7. at = "mark" => told'[i].opened > 0
  BY <1>1, <1>2, SentTo
<1>8. \A j \in Ids : (There(j) => There(j)') /\ (told[j].opened > 0 => told'[j].opened > 0)
  BY <1>1, SentTo DEF There, Row
<1>9. Knows(x)'
  BY <1>1, <1>5, <1>6, <1>7, <1>8, Fields DEF Knows
<1> QED
  BY <1>1, <1>3, <1>6, <1>9, NoticeStep

\* The end of an alert is announced to who was told of its beginning.
LEMMA FarewellInv ==
    ASSUME Inv, NEW e \in Evals, Farewell(e)
    PROVE  Inv'
<1> DEFINE i == ev[e].id
           y == [ev[e] EXCEPT !.at = "finding"]
<1>1. /\ ev[e].at = "farewell" /\ i \in Ids /\ told[i].opened > 0 /\ Sent(e, i, "resolved")
      /\ ev' = [ev EXCEPT ![e].at = "finding"] /\ UNCHANGED <<rule, holds, rows, gone, req>>
  BY Fields DEF Farewell, Knows
<1>2. ev' = [ev EXCEPT ![e] = y]
  BY <1>1 DEF Inv, TypeOK
<1>3. y \in Evaluating
  BY Fields DEF Evaluating
<1>4. /\ y.at = "finding" /\ y.rule = ev[e].rule /\ y.unresolved = ev[e].unresolved
      /\ y.notified = ev[e].notified /\ y.recent = ev[e].recent /\ y.left = ev[e].left
  BY Fields DEF Evaluating
<1> HIDE DEF y
<1>5. PICK x \in Evaluating : x = y
  BY <1>3
<1>6. \A j \in Ids : (There(j) => There(j)') /\ (told[j].opened > 0 => told'[j].opened > 0)
  BY <1>1, SentTo DEF There, Row
<1>7. Knows(x)'
  BY <1>1, <1>4, <1>5, <1>6, Fields DEF Knows
<1> QED
  BY <1>1, <1>2, <1>5, <1>7, NoticeStep

\* An alert whose recipient knows is marked.
LEMMA MarkInv ==
    ASSUME Inv, NEW e \in Evals, Mark(e)
    PROVE  Inv'
<1> DEFINE i == ev[e].id
           y == [ev[e] EXCEPT !.at = "finding"]
           a == [rows[i] EXCEPT !.notified = TRUE]
<1>1. /\ ev[e].at = "mark" /\ i \in Ids /\ There(i) /\ told[i].opened > 0
      /\ rows' = [rows EXCEPT ![i].notified = TRUE] /\ ev' = [ev EXCEPT ![e].at = "finding"]
      /\ UNCHANGED <<rule, holds, told, gone, req, edits>>
  BY Fields DEF Mark, Knows
<1>2. ev' = [ev EXCEPT ![e] = y] /\ rows' = [rows EXCEPT ![i] = a]
  BY <1>1 DEF Inv, TypeOK
<1>3. y \in Evaluating
  BY Fields DEF Evaluating
<1>4. /\ y.at = "finding" /\ y.rule = ev[e].rule /\ y.unresolved = ev[e].unresolved
      /\ y.notified = ev[e].notified /\ y.recent = ev[e].recent /\ y.left = ev[e].left
  BY Fields DEF Evaluating
<1>5. a \in Alert /\ a.rule = Row(i).rule /\ a.subject = Row(i).subject /\ a.status = Row(i).status
  BY <1>1, Rows DEF Alert, Row
<1> HIDE DEF y, a
<1>6. PICK x \in Evaluating : x = y
  BY <1>3
<1>7. rows' \in [Ids -> Alert \cup {None}] /\ Grows /\ Marked' /\ OneOpen' /\ ResolvedNotFirst'
  BY <1>1, <1>2, <1>5, RowKept
<1>8. Knows(x)'
  BY <1>1, <1>4, <1>6, <1>7, Fields DEF Knows, Grows
<1>9. told' \in [Ids -> [opened : 0 .. 1, resolved : Nat]] /\ edits' \in 0 .. MaxEdits
  BY <1>1 DEF Inv, TypeOK
<1> QED
  BY <1>1, <1>2, <1>6, <1>7, <1>8, <1>9, AfterStep

\* An unresolved alert that was not found is resolved; a farewell follows if it was read as notified.
LEMMA ClearInv ==
    ASSUME Inv, NEW e \in Evals, NEW i \in Ids, Clear(e, i)
    PROVE  Inv'
<1>1. /\ ev[e].at = "finding" /\ i \in ev[e].left /\ There(i) /\ UNCHANGED <<rule, holds, told, gone, req, edits>>
  BY Fields DEF Clear, Knows
<1>2. CASE ev' = [ev EXCEPT ![e].left = @ \ {i}] /\ UNCHANGED rows
  <2> DEFINE x == [ev[e] EXCEPT !.left = @ \ {i}]
  <2>1. ev' = [ev EXCEPT ![e] = x]
    BY <1>2 DEF Inv, TypeOK
  <2>2. x \in Evaluating
    BY Fields DEF Evaluating
  <2>3. /\ x.at = "finding" /\ x.rule = ev[e].rule /\ x.unresolved = ev[e].unresolved
        /\ x.notified = ev[e].notified /\ x.recent = ev[e].recent /\ x.left = ev[e].left \ {i}
    BY <1>1, Fields DEF Evaluating
  <2> HIDE DEF x
  <2>4. Knows(x)
    BY <1>1, <2>3, Fields DEF Knows
  <2> QED
    BY <1>1, <1>2, <2>1, <2>2, <2>4, LocalStep DEF Inv, TypeOK
<1>3. ASSUME NEW by \in {"quiet", "cron"}, NEW at \in {"farewell", "finding"}, at = "farewell" => WasTold(e, i),
             rows' = [rows EXCEPT ![i].status = "resolved", ![i].recent = TRUE, ![i].by = by],
             ev' = [ev EXCEPT ![e].left = @ \ {i}, ![e].id = i, ![e].at = at]
      PROVE  Inv'
  <2> DEFINE a == [rows[i] EXCEPT !.status = "resolved", !.recent = TRUE, !.by = by]
             y == [ev[e] EXCEPT !.left = @ \ {i}, !.id = i, !.at = at]
  <2>1. ev' = [ev EXCEPT ![e] = y] /\ rows' = [rows EXCEPT ![i] = a]
    BY <1>3 DEF Inv, TypeOK
  <2>2. y \in Evaluating
    BY Fields DEF Evaluating
  <2>3. /\ y.at = at /\ y.rule = ev[e].rule /\ y.unresolved = ev[e].unresolved /\ y.id = i
        /\ y.notified = ev[e].notified /\ y.recent = ev[e].recent /\ y.left = ev[e].left \ {i}
    BY Fields DEF Evaluating
  <2>4. /\ a \in Alert /\ a.rule = Row(i).rule /\ a.subject = Row(i).subject /\ a.status = "resolved"
        /\ a.notified = rows[i].notified
    BY <1>1, Rows DEF Alert, Row
  <2> HIDE DEF y, a
  <2>5. PICK x \in Evaluating : x = y
    BY <2>2
  <2>6. a.notified => told[i].opened > 0
    BY <1>1, <2>4, Rows
  <2>7. rows' \in [Ids -> Alert \cup {None}] /\ Grows /\ Marked' /\ OneOpen' /\ ResolvedNotFirst'
    BY <1>1, <2>1, <2>4, <2>6, RowKept
  <2>8. at = "farewell" => told[i].opened > 0
    BY <1>3, Fields DEF WasTold, Knows
  <2>9. Knows(x)'
    BY <1>1, <2>3, <2>5, <2>7, <2>8, Fields DEF Knows, Grows
  <2>10. told' \in [Ids -> [opened : 0 .. 1, resolved : Nat]] /\ edits' \in 0 .. MaxEdits
    BY <1>1 DEF Inv, TypeOK
  <2> QED
    BY <1>1, <2>1, <2>5, <2>7, <2>9, <2>10, AfterStep
<1> DEFINE by == IF ev[e].rule \in ev[e].quiet THEN "quiet" ELSE "cron"
           at == IF WasTold(e, i) THEN "farewell" ELSE "finding"
<1>4. CASE /\ rows' = [rows EXCEPT ![i].status = "resolved", ![i].recent = TRUE, ![i].by = by]
           /\ ev' = [ev EXCEPT ![e].left = @ \ {i}, ![e].id = i, ![e].at = at]
  <2>1. by \in {"quiet", "cron"} /\ at \in {"farewell", "finding"} /\ (at = "farewell" => WasTold(e, i))
    OBVIOUS
  <2> HIDE DEF by, at
  <2> QED
    BY <1>3, <1>4, <2>1
<1> QED
  BY <1>2, <1>4 DEF Clear

-----------------------------------------------------------------------------
(* The panel, and the world *)

\* A request that begins, or that ends having written no row.
LEMMA PanelStepInv ==
    ASSUME Inv, NEW q \in Requests, NEW x \in Asking, Holds(x), req' = [req EXCEPT ![q] = x],
           UNCHANGED <<holds, rows, told, gone, ev>>, rule' \in [Rules -> Rule \cup {None}], edits' \in 0 .. MaxEdits
    PROVE  Inv'
<1>1. Grows /\ Holds(x)'
  BY DEF Grows, Holds, There, Row
<1>2. Locals' /\ ev' \in [Evals -> Evaluating] /\ req' \in [Requests -> Asking]
  BY <1>1, PanelLocals
<1> QED
  BY <1>2, OnlyLocals DEF Inv, TypeOK

LEMMA CreateInv ==
    ASSUME Inv, NEW q \in Requests, (\E r \in Rules : BeginCreate(q, r)) \/ Create(q)
    PROVE  Inv'
<1>1. ASSUME NEW r \in Rules, BeginCreate(q, r)
      PROVE  Inv'
  <2> DEFINE x == [NoReq EXCEPT !.at = "insert", !.on = r]
  <2>1. x \in Asking /\ Holds(x)
    BY DEF NoReq, Asking, Holds
  <2>2. req' = [req EXCEPT ![q] = x] /\ UNCHANGED <<rule, holds, rows, told, gone, ev>> /\ edits' \in 0 .. MaxEdits
    BY <1>1, EditCounts DEF BeginCreate
  <2> QED
    BY <2>1, <2>2, PanelStepInv DEF Inv, TypeOK
<1>2. CASE Create(q)
  <2>1. NoReq \in Asking /\ Holds(NoReq)
    BY DEF NoReq, Asking, Holds
  <2>2. req' = [req EXCEPT ![q] = NoReq] /\ UNCHANGED <<holds, rows, told, gone, ev, edits>>
    BY <1>2 DEF Create
  <2>3. New \in Rule
    BY DEF New, Rule
  <2>4. rule' \in [Rules -> Rule \cup {None}]
    BY <1>2, <2>3 DEF Create, Inv, TypeOK
  <2> QED
    BY <2>1, <2>2, <2>4, PanelStepInv DEF Inv, TypeOK
<1> QED
  BY <1>1, <1>2

LEMMA PatchInv ==
    ASSUME Inv, NEW q \in Requests, NEW r \in Rules, Patch(q, r)
    PROVE  Inv'
<1>1. UNCHANGED <<holds, rows, told, gone, ev, req>> /\ edits' \in 0 .. MaxEdits
  BY EditCounts DEF Patch
<1>2. rule' \in [Rules -> Rule \cup {None}]
  <2>1. rule[r] \in Rule
    BY DEF Patch, Inv, TypeOK
  <2>2. [rule[r] EXCEPT !.enabled = ~ @] \in Rule /\ [rule[r] EXCEPT !.silenced = ~ @] \in Rule
    BY <2>1 DEF Rule
  <2>3. \/ rule' = [rule EXCEPT ![r] = [rule[r] EXCEPT !.enabled = ~ @]]
        \/ rule' = [rule EXCEPT ![r] = [rule[r] EXCEPT !.silenced = ~ @]]
    BY DEF Patch, Inv, TypeOK
  <2> QED
    BY <2>2, <2>3 DEF Inv, TypeOK
<1>3. Locals' /\ ev' \in [Evals -> Evaluating] /\ req' \in [Requests -> Asking]
  BY <1>1 DEF Inv, TypeOK, Locals, Knows, Holds, There, Row
<1> QED
  BY <1>1, <1>2, <1>3, OnlyLocals DEF Inv, TypeOK

LEMMA BeginInv ==
    ASSUME Inv, NEW q \in Requests, BeginDelete(q) \/ \E i \in Ids : BeginResolve(q, i)
    PROVE  Inv'
<1>1. \E x \in Asking : Holds(x) /\ req' = [req EXCEPT ![q] = x]
  <2>1. ASSUME NEW r \in Rules, req' = [req EXCEPT ![q] = [at |-> "retire", on |-> None, rules |-> {r}]]
        PROVE  <1>1!:
    BY <2>1 DEF Asking, Holds
  <2>2. ASSUME req' = [req EXCEPT ![q] = [at |-> "retire", on |-> "app", rules |-> {r \in AppRules : rule[r] # None}]]
        PROVE  <1>1!:
    <3>1. {r \in AppRules : rule[r] # None} \subseteq Rules
      BY AlertsAssumption
    <3> QED
      BY <2>2, <3>1 DEF Asking, Holds
  <2>3. ASSUME NEW i \in Ids, BeginResolve(q, i)
        PROVE  <1>1!:
    <3>1. req' = [req EXCEPT ![q] = [NoReq EXCEPT !.at = "resolve", !.on = i]] /\ There(i)
      BY <2>3 DEF BeginResolve, Live, There
    <3>2. [NoReq EXCEPT !.at = "resolve", !.on = i] \in Asking /\ Holds([NoReq EXCEPT !.at = "resolve", !.on = i])
      BY <3>1 DEF NoReq, Asking, Holds
    <3> QED
      BY <3>1, <3>2
  <2> QED
    BY <2>1, <2>2, <2>3 DEF BeginDelete
<1>2. UNCHANGED <<rule, holds, rows, told, gone, ev>> /\ edits' \in 0 .. MaxEdits
  BY EditCounts DEF BeginDelete, BeginResolve
<1> QED
  BY <1>1, <1>2, PanelStepInv DEF Inv, TypeOK

\* The parts of the invariant, after a step of the panel or of the world that sends nothing.
LEMMA AfterPanel ==
    ASSUME Inv, Locals', ev' \in [Evals -> Evaluating], req' \in [Requests -> Asking],
           rows' \in [Ids -> Alert \cup {None}], rule' \in [Rules -> Rule \cup {None}], gone' \in BOOLEAN,
           edits' \in 0 .. MaxEdits, UNCHANGED <<holds, told>>, Marked', OneOpen', ResolvedNotFirst'
    PROVE  Inv'
BY DEF Inv, TypeOK

\* Rows that are only resolved, or lose their rule, keep what they say.
LEMMA Resolving ==
    ASSUME Inv, UNCHANGED told, rows' \in [Ids -> Alert \cup {None}],
           \A i \in Ids : ~ There(i) => ~ There(i)',
           \A i \in Ids : There(i) => /\ There(i)' /\ rows'[i].notified = rows[i].notified
                                      /\ rows'[i].subject = rows[i].subject
                                      /\ rows'[i].rule \in {None, rows[i].rule}
                                      /\ rows'[i].status \in {"resolved", rows[i].status}
    PROVE  Grows /\ Marked' /\ OneOpen' /\ ResolvedNotFirst'
<1>1. Grows
  BY DEF Grows
<1>2. Marked'
  BY DEF Inv, Marked, Row
<1>3. OneOpen'
  <2> SUFFICES ASSUME NEW j \in Ids, NEW k \in Ids, j # k, Live(j)', Live(k)', rows'[j].rule # None,
                      rows'[j].rule = rows'[k].rule
               PROVE  rows'[j].subject # rows'[k].subject
    BY DEF OneOpen, Row
  <2>1. There(j) /\ There(k) /\ Live(j) /\ Live(k) /\ Row(j).rule # None /\ Row(j).rule = Row(k).rule
    BY DEF Live, There, Row
  <2> QED
    BY <2>1 DEF Inv, OneOpen, Row
<1> QED
  BY <1>1, <1>2, <1>3 DEF Inv, ResolvedNotFirst

\* Whatever retires an alert resolves it, or leaves it.
LEMMA RetiredSays ==
    ASSUME NEW a \in Alert
    PROVE  /\ Retired(a) \in Alert /\ Retired(a).notified = a.notified /\ Retired(a).subject = a.subject
           /\ Retired(a).rule = a.rule /\ Retired(a).status \in {"resolved", a.status}
BY DEF Retired, Alert

LEMMA RetireInv ==
    ASSUME Inv, NEW q \in Requests, Retire(q)
    PROVE  Inv'
<1> DEFINE y == [req[q] EXCEPT !.at = "delete"]
<1>1. /\ rows' = [i \in Ids |-> IF Row(i) # None /\ Row(i).rule \in req[q].rules THEN Retired(Row(i)) ELSE Row(i)]
      /\ req' = [req EXCEPT ![q] = y] /\ UNCHANGED <<rule, holds, told, gone, ev, edits>>
  BY DEF Retire, Inv, TypeOK
<1>2. \A i \in Ids : There(i) => Row(i) \in Alert
  BY Rows DEF Row
<1>3. None \notin Alert
  BY AlertsAssumption
<1>4. ASSUME NEW i \in Ids, There(i)
      PROVE  /\ rows'[i] \in Alert /\ There(i)' /\ rows'[i].notified = rows[i].notified
             /\ rows'[i].subject = rows[i].subject
             /\ rows'[i].rule \in {None, rows[i].rule} /\ rows'[i].status \in {"resolved", rows[i].status}
  BY <1>1, <1>2, <1>3, <1>4, RetiredSays DEF There, Row
<1>5. ASSUME NEW i \in Ids, ~ There(i)
      PROVE  rows'[i] = None
  BY <1>1, <1>5 DEF There, Row
<1>6. rows' \in [Ids -> Alert \cup {None}]
  BY <1>1, <1>4, <1>5
<1>7. Grows /\ Marked' /\ OneOpen' /\ ResolvedNotFirst'
  BY <1>1, <1>4, <1>5, <1>6, Resolving DEF There, Row
<1>8. y \in Asking /\ y.at = "delete"
  BY DEF Inv, TypeOK, Asking
<1> HIDE DEF y
<1>9. PICK x \in Asking : x = y
  BY <1>8
<1>10. Holds(x)'
  BY <1>8, <1>9 DEF Holds
<1>11. Locals' /\ ev' \in [Evals -> Evaluating] /\ req' \in [Requests -> Asking]
  BY <1>1, <1>7, <1>9, <1>10, PanelLocals
<1> QED
  BY <1>1, <1>6, <1>7, <1>11, AfterPanel DEF Inv, TypeOK

LEMMA DeleteInv ==
    ASSUME Inv, NEW q \in Requests, Delete(q)
    PROVE  Inv'
<1> DEFINE dead == IF req[q].on = "app" THEN AppRules ELSE req[q].rules
<1>1. /\ rule' = [r \in Rules |-> IF r \in dead THEN None ELSE rule[r]]
      /\ rows' = [i \in Ids |-> IF Row(i) # None /\ Row(i).rule \in dead THEN [Row(i) EXCEPT !.rule = None] ELSE Row(i)]
      /\ gone' = (gone \/ req[q].on = "app") /\ req' = [req EXCEPT ![q] = NoReq]
      /\ UNCHANGED <<holds, told, ev, edits>>
  BY DEF Delete
<1> HIDE DEF dead
<1>2. rule' \in [Rules -> Rule \cup {None}] /\ gone' \in BOOLEAN
  BY <1>1 DEF Inv, TypeOK
<1>3. ASSUME NEW i \in Ids, There(i)
      PROVE  /\ rows'[i] \in Alert /\ There(i)' /\ rows'[i].notified = rows[i].notified
             /\ rows'[i].subject = rows[i].subject
             /\ rows'[i].rule \in {None, rows[i].rule} /\ rows'[i].status \in {"resolved", rows[i].status}
  <2>1. rows[i] \in Alert /\ None \notin Alert
    BY <1>3, Rows, AlertsAssumption
  <2>2. rows'[i] = rows[i] \/ rows'[i] = [rows[i] EXCEPT !.rule = None]
    BY <1>1 DEF Row
  <2>3. LET a == [rows[i] EXCEPT !.rule = None]
        IN  /\ a \in Alert /\ a.notified = rows[i].notified /\ a.subject = rows[i].subject
            /\ a.rule = None /\ a.status = rows[i].status
    BY <2>1 DEF Alert
  <2> QED
    BY <2>1, <2>2, <2>3 DEF There, Row
<1>4. ASSUME NEW i \in Ids, ~ There(i)
      PROVE  rows'[i] = None
  BY <1>1, <1>4 DEF There, Row
<1>5. rows' \in [Ids -> Alert \cup {None}]
  BY <1>1, <1>3, <1>4
<1>6. Grows /\ Marked' /\ OneOpen' /\ ResolvedNotFirst'
  BY <1>1, <1>3, <1>4, <1>5, Resolving DEF There, Row
<1>7. NoReq \in Asking /\ Holds(NoReq)'
  BY DEF NoReq, Asking, Holds
<1>8. Locals' /\ ev' \in [Evals -> Evaluating] /\ req' \in [Requests -> Asking]
  BY <1>1, <1>6, <1>7, PanelLocals DEF NoReq
<1> QED
  BY <1>1, <1>2, <1>5, <1>6, <1>8, AfterPanel DEF Inv, TypeOK

\* POST ack, and half an hour that passes: one row, that is not unresolved again.
LEMMA TouchInv ==
    ASSUME Inv, NEW i \in Ids, (\E q \in Requests : Ack(q, i)) \/ Age(i)
    PROVE  Inv'
<1> DEFINE a == [rows[i] EXCEPT !.status = "acknowledged"]
           b == [rows[i] EXCEPT !.recent = FALSE]
<1>1. There(i) /\ UNCHANGED <<rule, holds, told, gone, ev, req>> /\ edits' \in 0 .. MaxEdits
  BY EditCounts DEF Ack, Age, There
<1>2. rows[i] \in Alert
  BY <1>1, Rows
<1>3. /\ a \in Alert /\ a.notified = rows[i].notified /\ a.rule = rows[i].rule /\ a.subject = rows[i].subject
      /\ b \in Alert /\ b.notified = rows[i].notified /\ b.rule = rows[i].rule /\ b.subject = rows[i].subject
      /\ b.status = rows[i].status
  BY <1>2 DEF Alert
<1>4. \/ rows' = [rows EXCEPT ![i] = a] /\ rows[i].status = "open"
      \/ rows' = [rows EXCEPT ![i] = b]
  BY DEF Ack, Age, Row, Inv, TypeOK
<1> HIDE DEF a, b
<1>5. PICK c \in Alert : /\ rows' = [rows EXCEPT ![i] = c] /\ c.notified = rows[i].notified /\ c.rule = rows[i].rule
                         /\ c.subject = rows[i].subject /\ (c.status # "resolved" => rows[i].status # "resolved")
  BY <1>3, <1>4
<1>6. c.notified => told[i].opened > 0
  BY <1>1, <1>5, Rows
<1>7. rows' \in [Ids -> Alert \cup {None}] /\ Grows /\ Marked' /\ OneOpen' /\ ResolvedNotFirst'
  BY <1>1, <1>5, <1>6, RowKept DEF Row
<1>8. Locals' /\ ev' \in [Evals -> Evaluating] /\ req' \in [Requests -> Asking]
  BY <1>1, <1>7 DEF Inv, TypeOK, Locals, Knows, Holds, Grows, Evaluating
<1> QED
  BY <1>1, <1>7, <1>8, AfterPanel DEF Inv, TypeOK

LEMMA ResolveInv ==
    ASSUME Inv, NEW q \in Requests, Resolve(q)
    PROVE  Inv'
<1> DEFINE i == req[q].on
           a == [rows[i] EXCEPT !.status = "resolved", !.recent = TRUE, !.by = "hand"]
<1>1. /\ i \in Ids /\ There(i) /\ req' = [req EXCEPT ![q] = NoReq] /\ UNCHANGED <<rule, holds, told, gone, ev, edits>>
      /\ rows' = [rows EXCEPT ![i].status = "resolved", ![i].recent = TRUE, ![i].by = "hand"]
  BY DEF Resolve, Inv, Locals, Holds
<1>2. rows' = [rows EXCEPT ![i] = a]
  BY <1>1 DEF Inv, TypeOK
<1>3. a \in Alert /\ a.notified = rows[i].notified /\ a.rule = rows[i].rule /\ a.subject = rows[i].subject /\ a.status = "resolved"
  BY <1>1, Rows DEF Alert
<1>4. a.notified => told[i].opened > 0
  BY <1>1, <1>3, Rows
<1> HIDE DEF a
<1>5. rows' \in [Ids -> Alert \cup {None}] /\ Grows /\ Marked' /\ OneOpen' /\ ResolvedNotFirst'
  BY <1>1, <1>2, <1>3, <1>4, RowKept DEF Row
<1>6. NoReq \in Asking /\ Holds(NoReq)'
  BY DEF NoReq, Asking, Holds
<1>7. Locals' /\ ev' \in [Evals -> Evaluating] /\ req' \in [Requests -> Asking]
  BY <1>1, <1>5, <1>6, PanelLocals DEF NoReq
<1> QED
  BY <1>1, <1>5, <1>7, AfterPanel DEF Inv, TypeOK

\* A condition comes or clears.
LEMMA FlipInv ==
    ASSUME Inv, NEW r \in Rules, NEW s \in Subjects, Flip(r, s)
    PROVE  Inv'
<1>1. UNCHANGED <<rule, rows, told, gone, ev, req>> /\ edits' \in 0 .. MaxEdits
  BY EditCounts DEF Flip
<1>2. holds' \subseteq Rules \X Subjects
  BY DEF Flip, Inv, TypeOK
<1>3. Locals' /\ ev' \in [Evals -> Evaluating] /\ req' \in [Requests -> Asking]
  BY <1>1 DEF Inv, TypeOK, Locals, Knows, Holds, There, Row
<1> QED
  BY <1>1, <1>2, <1>3, OnlyLocals DEF Inv, TypeOK

-----------------------------------------------------------------------------
\* Every step keeps the invariant.
LEMMA NextInv ==
    ASSUME Inv, [Next]_vars
    PROVE  Inv'
<1>1. CASE UNCHANGED vars
  BY <1>1 DEF vars, Inv, TypeOK, Locals, Knows, Holds, Marked, OneOpen, ResolvedNotFirst, There, Live, Row
<1>2. ASSUME NEW e \in Evals, Evaluation(e) \/ Cut(e)
      PROVE  Inv'
  <2>1. CASE Wake(e) \/ Read(e) \/ RuleDone(e) \/ Sleep(e) \/ Cut(e)
    BY <2>1, WakeInv, ReadInv, EndInv
  <2>2. CASE Tell(e) \/ Mark(e) \/ Farewell(e)
    BY <2>2, TellInv, MarkInv, FarewellInv
  <2>3. CASE \E r \in Rules : Detect(e, r)
    BY <2>3, DetectInv
  <2>4. CASE \E s \in Subjects : Refresh(e, s) \/ Reopen(e, s) \/ Open(e, s)
    BY <2>4, RefreshInv, ReopenInv, OpenInv
  <2>5. CASE \E i \in Ids : Clear(e, i)
    BY <2>5, ClearInv
  <2> QED
    BY <1>2, <2>1, <2>2, <2>3, <2>4, <2>5 DEF Evaluation
<1>3. ASSUME NEW q \in Requests, PanelStep(q)
      PROVE  Inv'
  <2>1. CASE Create(q) \/ \E r \in Rules : BeginCreate(q, r)
    BY <2>1, CreateInv
  <2>2. CASE BeginDelete(q) \/ \E i \in Ids : BeginResolve(q, i)
    BY <2>2, BeginInv
  <2>3. CASE Retire(q) \/ Delete(q) \/ Resolve(q)
    BY <2>3, RetireInv, DeleteInv, ResolveInv
  <2>4. CASE (\E r \in Rules : Patch(q, r)) \/ \E i \in Ids : Ack(q, i)
    BY <2>4, PatchInv, TouchInv
  <2> QED
    BY <1>3, <2>1, <2>2, <2>3, <2>4 DEF PanelStep
<1>4. ASSUME NEW r \in Rules, NEW s \in Subjects, Flip(r, s)
      PROVE  Inv'
  BY <1>4, FlipInv
<1>5. ASSUME NEW i \in Ids, Age(i)
      PROVE  Inv'
  BY <1>5, TouchInv
<1> QED
  BY <1>1, <1>2, <1>3, <1>4, <1>5 DEF Next

\* The inductive invariant holds in every reachable state.
THEOREM Invariance == Spec => []Inv
<1>1. Init => Inv
  BY InitInv
<1>2. Inv /\ [Next]_vars => Inv'
  BY NextInv
<1> QED
  BY <1>1, <1>2, PTL DEF Spec

\* Types: the tables, the evaluations and the requests hold values of their types.
THEOREM TypeCorrect == Spec => []TypeOK
<1>1. Inv => TypeOK
  BY DEF Inv
<1> QED
  BY <1>1, Invariance, PTL

\* However many evaluations and requests overlap, a rule has at most one unresolved alert for a
\* subject (services/alerts.ts reconcile, and the partial unique index it leans on).
THEOREM OneOpenAlert == Spec => []OneOpen
<1>1. Inv => OneOpen
  BY DEF Inv
<1> QED
  BY <1>1, Invariance, PTL

\* Nobody is told that an alert was resolved who was not told that it opened, whatever a run that
\* is cut short leaves half done (services/alerts.ts reconcile and notifyRecipient).
THEOREM NoEndWithoutABeginning == Spec => []ResolvedNotFirst
<1>1. Inv => ResolvedNotFirst
  BY DEF Inv
<1> QED
  BY <1>1, Invariance, PTL

-----------------------------------------------------------------------------
(* Tickets *)

Sides == {"staff", "requester"}

\* What a request carries from one statement to the next.
AskType == [at : {"none", "count", "insert", "check", "write", "tell", "mark", "show", "reply"},
            by : Devices \cup Sides \cup {None}, t : Tickets \cup {None}, now : 0 .. MaxTime, len : Nat,
            status : D!Statuses]

TicketTypes ==
    /\ clock \in 0 .. MaxTime /\ paused \in BOOLEAN /\ edits \in 0 .. MaxEdits
    /\ ticket \in [Tickets -> D!Ticket \cup {None}] /\ msgs \in [Tickets -> Seq(D!Message)]
    /\ hour \in [Devices -> [tickets : Nat, messages : Nat]]
    /\ req \in [Requests -> AskType]

\* A request names the device or the side it is of, the ticket it is about, and the message it tells of.
Names(r) ==
    /\ r.at \in {"count", "insert", "check", "write"} => r.by \in Devices
    /\ r.at \in {"check", "write", "tell", "mark", "show", "reply"} => r.t \in Tickets /\ ticket[r.t] \in D!Ticket
    /\ r.at \in {"mark", "show"} => r.by \in Sides
    /\ r.at = "reply" => r.by = "staff"
    /\ r.at = "tell" => r.len \in 1 .. Len(msgs[r.t])

\* One of the tickets there are has the highest number.
TopNumber ==
    (\E t \in Tickets : ticket[t] # None) =>
        \E t \in Tickets : ticket[t] # None /\ \A x \in Tickets : ticket[x] # None => ticket[x].number <= ticket[t].number

TicketInv == TicketTypes /\ (\A q \in Requests : Names(req[q])) /\ D!FinishedWhenSaid /\ TopNumber

-----------------------------------------------------------------------------
\* Marking, showing and telling change the mark they are about and no message.
LEMMA Marking ==
    ASSUME NEW ms \in Seq(D!Message), NEW a \in Sides
    PROVE  /\ D!MarkSeen(ms, a) \in Seq(D!Message) /\ Len(D!MarkSeen(ms, a)) = Len(ms)
           /\ \A n \in 1 .. Len(ms) : LET m == ms[n]  w == D!MarkSeen(ms, a)[n] IN
                /\ w.author = m.author /\ w.at = m.at /\ w.shown = m.shown /\ w.told = m.told
                /\ m.author # a => w.seen = m.seen
<1> DEFINE f == D!MarkSeen(ms, a)
<1>1. \A n \in 1 .. Len(ms) : ms[n] \in D!Message
  BY ElementOfSeq
<1>2. f = [n \in 1 .. Len(ms) |-> IF ms[n].author = a THEN [ms[n] EXCEPT !.seen = TRUE] ELSE ms[n]]
  BY LenProperties DEF D!MarkSeen
<1>3. \A n \in 1 .. Len(ms) : [ms[n] EXCEPT !.seen = TRUE] \in D!Message
  BY <1>1 DEF D!Message
<1>4. f \in Seq(D!Message) /\ Len(f) = Len(ms)
  BY <1>1, <1>2, <1>3, LenProperties, IsASeq
<1>5. ASSUME NEW n \in 1 .. Len(ms)
      PROVE  /\ f[n].author = ms[n].author /\ f[n].at = ms[n].at /\ f[n].shown = ms[n].shown
             /\ f[n].told = ms[n].told /\ (ms[n].author # a => f[n].seen = ms[n].seen)
  <2>1. f[n] = IF ms[n].author = a THEN [ms[n] EXCEPT !.seen = TRUE] ELSE ms[n]
    BY <1>2
  <2> QED
    BY <1>1, <2>1 DEF D!Message
<1> QED
  BY <1>4, <1>5

LEMMA Showing ==
    ASSUME NEW ms \in Seq(D!Message), NEW a \in Sides
    PROVE  LET f == D!ShowUpTo(ms, a, Len(ms)) IN
           /\ f \in Seq(D!Message) /\ Len(f) = Len(ms)
           /\ \A n \in 1 .. Len(ms) : LET m == ms[n]  w == f[n] IN
                /\ w.author = m.author /\ w.at = m.at /\ w.seen = m.seen /\ w.told = m.told
                /\ m.shown # "no" => w.shown # "no"
                /\ m.author = a => w.shown # "no"
<1> DEFINE f == D!ShowUpTo(ms, a, Len(ms))
<1>1. \A n \in 1 .. Len(ms) : ms[n] \in D!Message
  BY ElementOfSeq
<1>2. f = [n \in 1 .. Len(ms) |-> IF ms[n].author = a THEN [ms[n] EXCEPT !.shown = "yes"] ELSE ms[n]]
  BY LenProperties DEF D!ShowUpTo
<1>3. \A n \in 1 .. Len(ms) : [ms[n] EXCEPT !.shown = "yes"] \in D!Message
  BY <1>1 DEF D!Message
<1>4. f \in Seq(D!Message) /\ Len(f) = Len(ms)
  BY <1>1, <1>2, <1>3, LenProperties, IsASeq
<1> QED
  BY <1>1, <1>2, <1>4 DEF D!Message

LEMMA Losing ==
    ASSUME NEW ms \in Seq(D!Message), NEW a \in Sides
    PROVE  LET f == D!LoseSeen(ms, a) IN
           /\ f \in Seq(D!Message) /\ Len(f) = Len(ms)
           /\ \A n \in 1 .. Len(ms) : LET m == ms[n]  w == f[n] IN
                /\ w.author = m.author /\ w.seen = m.seen
                /\ m.shown # "no" => w.shown # "no"
                /\ m.author = a /\ m.seen => w.shown # "no"
<1> DEFINE f == D!LoseSeen(ms, a)
<1>1. \A n \in 1 .. Len(ms) : ms[n] \in D!Message
  BY ElementOfSeq
<1>2. f = [n \in 1 .. Len(ms) |-> IF ms[n].author = a /\ ms[n].seen /\ ms[n].shown = "no"
                                   THEN [ms[n] EXCEPT !.shown = "lost"] ELSE ms[n]]
  BY LenProperties DEF D!LoseSeen
<1>3. \A n \in 1 .. Len(ms) : [ms[n] EXCEPT !.shown = "lost"] \in D!Message
  BY <1>1 DEF D!Message
<1>4. f \in Seq(D!Message) /\ Len(f) = Len(ms)
  BY <1>1, <1>2, <1>3, LenProperties, IsASeq
<1> QED
  BY <1>1, <1>2, <1>4 DEF D!Message

LEMMA Telling ==
    ASSUME NEW ms \in Seq(D!Message), NEW k \in 1 .. Len(ms)
    PROVE  LET f == [ms EXCEPT ![k].told = TRUE] IN
           /\ f \in Seq(D!Message) /\ Len(f) = Len(ms)
           /\ f[k].told
           /\ \A n \in 1 .. Len(ms) : LET m == ms[n]  w == f[n] IN
                /\ w.author = m.author /\ w.at = m.at /\ w.seen = m.seen /\ w.shown = m.shown
                /\ m.told => w.told
<1> DEFINE f == [ms EXCEPT ![k].told = TRUE]
<1>1. \A n \in 1 .. Len(ms) : ms[n] \in D!Message
  BY ElementOfSeq
<1>2. f = [n \in 1 .. Len(ms) |-> IF n = k THEN [ms[k] EXCEPT !.told = TRUE] ELSE ms[n]]
  BY LenProperties
<1>3. [ms[k] EXCEPT !.told = TRUE] \in D!Message
  BY <1>1 DEF D!Message
<1>4. f \in Seq(D!Message) /\ Len(f) = Len(ms)
  BY <1>1, <1>2, <1>3, LenProperties, IsASeq
<1> QED
  BY <1>1, <1>2, <1>4 DEF D!Message

\* A new message comes last, and nobody saw it.
LEMMA Adding ==
    ASSUME NEW ms \in Seq(D!Message), NEW a \in Sides, NEW sec \in 0 .. MaxTime
    PROVE  LET f == Append(ms, D!NewMessage(a, sec)) IN
           /\ f \in Seq(D!Message) /\ Len(f) = Len(ms) + 1
           /\ \A n \in 1 .. Len(ms) : f[n] = ms[n]
           /\ f[Len(ms) + 1] = D!NewMessage(a, sec)
<1>1. D!NewMessage(a, sec) \in D!Message
  BY DEF D!NewMessage, D!Message, Sides
<1> QED
  BY <1>1, AppendProperties

-----------------------------------------------------------------------------
LEMMA Bounds == ASSUME D!TicketsAssumption PROVE MaxTickets \in Nat /\ MaxMessages \in Nat /\ MaxTime \in Nat /\ MaxEdits \in Nat
<1>1. {MaxTime, MaxEdits} \subseteq Nat /\ {MaxTickets, MaxMessages} \subseteq Nat \ {0}
  BY DEF D!TicketsAssumption
<1> QED
  BY <1>1

LEMMA TicketsInit == ASSUME D!TicketsAssumption, D!Init PROVE TicketInv
<1>1. D!NoReq \in AskType
  BY D!TicketsAssumption DEF D!TicketsAssumption, AskType, D!NoReq, D!Statuses
<1>2. << >> \in Seq(D!Message)
  BY EmptySeq
<1>3. TicketTypes
  <2>1. 0 \in 0 .. MaxTime /\ 0 \in 0 .. MaxEdits
    BY Bounds
  <2> QED
    BY <1>1, <1>2, <2>1 DEF D!Init, TicketTypes
<1>4. \A q \in Requests : Names(req[q])
  BY DEF D!Init, D!NoReq, Names
<1> QED
  BY <1>3, <1>4 DEF TicketInv, D!FinishedWhenSaid, TopNumber, D!Init

\* A step of one request leaves the others what they have in hand: no ticket goes, no message goes.
LEMMA OthersKeep ==
    ASSUME TicketInv, NEW q \in Requests, NEW r \in AskType, req' = [req EXCEPT ![q] = r], Names(r)',
           clock' = clock, paused' = paused, edits' \in 0 .. MaxEdits,
           ticket' \in [Tickets -> D!Ticket \cup {None}], msgs' \in [Tickets -> Seq(D!Message)],
           hour' \in [Devices -> [tickets : Nat, messages : Nat]],
           \A t \in Tickets : ticket[t] \in D!Ticket => ticket'[t] \in D!Ticket /\ Len(msgs[t]) <= Len(msgs'[t]),
           D!FinishedWhenSaid', TopNumber'
    PROVE  TicketInv'
<1>1. TicketTypes'
  BY DEF TicketInv, TicketTypes
<1>2. ASSUME NEW p \in Requests PROVE Names(req[p])'
  <2>1. CASE p = q
    BY <2>1 DEF TicketInv, TicketTypes
  <2>2. CASE p # q
    <3>1. PICK y \in AskType : y = req[p] /\ req'[p] = y
      BY <2>2 DEF TicketInv, TicketTypes
    <3>2. Names(y)
      BY <3>1 DEF TicketInv
    <3>3. y.at \in {"check", "write", "tell", "mark", "show", "reply"} =>
            ticket'[y.t] \in D!Ticket /\ Len(msgs[y.t]) <= Len(msgs'[y.t])
      BY <3>2 DEF Names
    <3>4. y.at = "tell" => y.len \in 1 .. Len(msgs'[y.t])
      <4> SUFFICES ASSUME y.at = "tell" PROVE y.len \in 1 .. Len(msgs'[y.t])
        OBVIOUS
      <4>1. /\ y.len \in 1 .. Len(msgs[y.t]) /\ y.t \in Tickets /\ Len(msgs[y.t]) <= Len(msgs'[y.t])
        BY <3>2, <3>3 DEF Names
      <4>2. Len(msgs[y.t]) \in Nat /\ Len(msgs'[y.t]) \in Nat
        BY <4>1, LenProperties DEF TicketInv, TicketTypes
      <4> QED
        BY <4>1, <4>2
    <3>5. Names(y)'
      BY <3>2, <3>3, <3>4 DEF Names
    <3> QED
      BY <3>1, <3>5 DEF Names
  <2> QED
    BY <2>1, <2>2
<1> QED
  BY <1>1, <1>2 DEF TicketInv

\* What a step that only moves a request needs.
LEMMA OnlyMoves ==
    ASSUME D!TicketsAssumption, TicketInv, NEW q \in Requests, NEW r \in AskType, req' = [req EXCEPT ![q] = r], Names(r),
           UNCHANGED <<clock, ticket, msgs, paused, hour>>, edits' \in 0 .. MaxEdits
    PROVE  TicketInv'
<1>1. Names(r)' /\ D!FinishedWhenSaid' /\ TopNumber'
  BY DEF Names, TicketInv, D!FinishedWhenSaid, TopNumber
<1>2. \A t \in Tickets : Len(msgs[t]) <= Len(msgs'[t])
  BY LenProperties DEF TicketInv, TicketTypes
<1> QED
  BY <1>1, <1>2, OthersKeep DEF TicketInv, TicketTypes

\* What a step that changes marks of the messages of a ticket needs.
LEMMA OnlyMarks ==
    ASSUME D!TicketsAssumption, TicketInv, NEW q \in Requests, NEW r \in AskType, req' = [req EXCEPT ![q] = r], Names(r),
           UNCHANGED <<clock, ticket, paused, hour>>, edits' \in 0 .. MaxEdits,
           NEW t \in Tickets, NEW f \in Seq(D!Message), Len(f) >= Len(msgs[t]), msgs' = [msgs EXCEPT ![t] = f]
    PROVE  TicketInv'
<1>1. /\ \A x \in Tickets : Len(msgs[x]) \in Nat /\ Len(msgs'[x]) \in Nat /\ Len(msgs[x]) <= Len(msgs'[x])
      /\ msgs' \in [Tickets -> Seq(D!Message)]
  BY LenProperties DEF TicketInv, TicketTypes
<1>2. Names(r)'
  BY <1>1 DEF Names
<1>3. D!FinishedWhenSaid' /\ TopNumber'
  BY DEF TicketInv, D!FinishedWhenSaid, TopNumber
<1> QED
  BY <1>1, <1>2, <1>3, OthersKeep DEF TicketInv, TicketTypes

\* A ticket that is written keeps its number.
LEMMA SameNumbers ==
    ASSUME D!TicketsAssumption, TicketInv, NEW t \in Tickets, ticket[t] \in D!Ticket, NEW k \in D!Ticket, k.number = ticket[t].number,
           ticket' = [ticket EXCEPT ![t] = k]
    PROVE  TopNumber'
<1>1. \A x \in Tickets : (ticket'[x] # None <=> ticket[x] # None) /\ ticket'[x].number = ticket[x].number
  BY DEF D!TicketsAssumption, TicketInv, TicketTypes
<1> QED
  BY <1>1 DEF TicketInv, TopNumber

\* An ended request, and one that has yet to ask anything.
LEMMA Ended == ASSUME D!TicketsAssumption PROVE D!NoReq \in AskType /\ Names(D!NoReq)
BY DEF D!TicketsAssumption, AskType, D!NoReq, Names, D!Statuses

LEMMA Counts == ASSUME D!TicketsAssumption, TicketInv, NEW what, D!Edit(what) PROVE edits' \in 0 .. MaxEdits
<1>1. edits \in 0 .. MaxEdits /\ edits < MaxEdits /\ edits' = edits + 1
  BY DEF D!Edit, TicketInv, TicketTypes
<1> QED
  BY <1>1, Bounds

-----------------------------------------------------------------------------
\* A request of a device or of the panel takes its next step.
LEMMA OpenStep ==
    ASSUME D!TicketsAssumption, TicketInv, NEW q \in Requests,
           \/ (\E d \in Devices : D!BeginOpen(q, d)) \/ D!OpenCount(q) \/ (\E t \in Tickets : D!OpenInsert(q, t)) \/ D!Tell(q)
    PROVE  TicketInv'
<1>0. req[q] \in AskType /\ Names(req[q]) /\ clock \in 0 .. MaxTime
  BY DEF TicketInv, TicketTypes
<1>1. ASSUME NEW d \in Devices, D!BeginOpen(q, d) PROVE TicketInv'
  <2>1. PICK r \in AskType : /\ r = [D!NoReq EXCEPT !.at = "count", !.by = d]
                             /\ r.at = "count" /\ r.by = d
    <3>1. PICK y \in AskType : y = [D!NoReq EXCEPT !.at = "count", !.by = d]
      BY Ended DEF AskType, D!NoReq, D!Statuses
    <3>2. y.at = "count" /\ y.by = d
      BY <3>1 DEF AskType, D!NoReq
    <3> QED
      BY <3>1, <3>2
  <2>2. Names(r)
    BY <2>1 DEF Names
  <2>3. req' = [req EXCEPT ![q] = r] /\ edits' \in 0 .. MaxEdits /\ UNCHANGED <<clock, ticket, msgs, paused, hour>>
    BY <1>1, <2>1, Counts DEF D!BeginOpen, D!Go
  <2> QED
    BY <2>2, <2>3, OnlyMoves
<1>2. CASE D!OpenCount(q)
  <2>1. PICK r \in AskType : r = [req[q] EXCEPT !.at = "insert", !.now = clock] /\ r.at = "insert" /\ r.by = req[q].by
    <3>1. PICK y \in AskType : y = [req[q] EXCEPT !.at = "insert", !.now = clock]
      BY <1>0 DEF AskType
    <3>2. y.at = "insert" /\ y.by = req[q].by
      BY <3>1 DEF AskType, D!NoReq
    <3> QED
      BY <3>1, <3>2
  <2>2. Names(r)
    BY <1>0, <1>2, <2>1 DEF D!OpenCount, Names
  <2>3. PICK y \in {r, D!NoReq} : req' = [req EXCEPT ![q] = y]
    BY <1>2, <2>1 DEF D!OpenCount, D!End, D!Now, D!Go
  <2>4. UNCHANGED <<clock, ticket, msgs, paused, hour>> /\ edits' \in 0 .. MaxEdits /\ y \in AskType /\ Names(y)
    BY <1>2, <2>1, <2>2, <2>3, Ended DEF D!OpenCount, TicketInv, TicketTypes
  <2> QED
    BY <2>3, <2>4, OnlyMoves
<1>3. ASSUME NEW t \in Tickets, D!OpenInsert(q, t) PROVE TicketInv'
  <2>1. req[q].by \in Devices /\ req[q].now \in 0 .. MaxTime
    BY <1>0, <1>3 DEF D!OpenInsert, Names, AskType
  <2>2. PICK r \in AskType : /\ r = [req[q] EXCEPT !.at = "tell", !.t = t, !.len = 1]
                             /\ r.at = "tell" /\ r.t = t /\ r.len = 1
    <3>1. PICK y \in AskType : y = [req[q] EXCEPT !.at = "tell", !.t = t, !.len = 1]
      BY <1>0 DEF AskType
    <3>2. y.at = "tell" /\ y.t = t /\ y.len = 1
      BY <3>1 DEF AskType, D!NoReq
    <3> QED
      BY <3>1, <3>2
  <2>3. D!Number \in Nat
    <3>1. \A x \in Tickets : ticket[x] # None => ticket[x].number \in Nat
      BY DEF TicketInv, TicketTypes, D!Ticket
    <3>2. D!Numbers = {} \/ \E n \in D!Numbers : n \in Nat /\ \A m \in D!Numbers : m <= n
      BY <3>1 DEF D!Numbers, TicketInv, TopNumber
    <3>3. CASE D!Numbers = {}
      BY <3>3 DEF D!Number
    <3>4. CASE D!Numbers # {}
      <4> DEFINE top == CHOOSE n \in D!Numbers : \A m \in D!Numbers : m <= n
      <4>1. top \in D!Numbers
        BY <3>2, <3>4
      <4>2. top \in Nat
        BY <3>1, <4>1 DEF D!Numbers
      <4> QED
        BY <3>4, <4>2 DEF D!Number
    <3> QED
      BY <3>3, <3>4
  <2>4. PICK k \in D!Ticket : k = [device |-> req[q].by, number |-> D!Number, status |-> "open", lastBy |-> "requester", resolvedAt |-> FALSE]
    BY <2>1, <2>3 DEF D!Ticket, D!Statuses
  <2>40. ~ k.resolvedAt /\ k.status = "open" /\ k.number = D!Number
    BY <2>4 DEF D!Ticket
  <2>50. PICK m \in D!Message : m = D!NewMessage("requester", req[q].now)
    BY <2>1 DEF D!NewMessage, D!Message
  <2>51. <<m>> \in Seq(D!Message) /\ Len(<<m>>) = 1
    OBVIOUS
  <2>5. PICK f \in Seq(D!Message) : f = <<D!NewMessage("requester", req[q].now)>> /\ Len(f) = 1
    BY <2>50, <2>51
  <2>6. /\ ticket[t] = None /\ ticket' = [ticket EXCEPT ![t] = k] /\ msgs' = [msgs EXCEPT ![t] = f]
        /\ UNCHANGED <<clock, paused, edits>> /\ req' = [req EXCEPT ![q] = r]
    BY <1>3, <2>2, <2>4, <2>5 DEF D!OpenInsert, D!Go
  <2>7. hour' \in [Devices -> [tickets : Nat, messages : Nat]]
    <3>0. PICK o \in [tickets : Nat, messages : Nat] : o = hour[req[q].by]
      BY <2>1 DEF TicketInv, TicketTypes
    <3>1. o = [tickets |-> o.tickets, messages |-> o.messages] /\ o.tickets \in Nat /\ o.messages \in Nat
      OBVIOUS
    <3>2. PICK o1 \in [tickets : Nat, messages : Nat] : o1 = [o EXCEPT !.tickets = @ + 1]
      <4>1. [o EXCEPT !.tickets = @ + 1] \in [tickets : Nat, messages : Nat]
        BY <3>1
      <4> QED
        BY <4>1
    <3>3. [o1 EXCEPT !.messages = @ + 1] \in [tickets : Nat, messages : Nat]
      OBVIOUS
    <3>4. PICK h \in [Devices -> [tickets : Nat, messages : Nat]] : h = [hour EXCEPT ![req[q].by] = o1]
      BY <2>1 DEF TicketInv, TicketTypes
    <3>5. h = [hour EXCEPT ![req[q].by].tickets = @ + 1] /\ h[req[q].by] = o1
      BY <2>1, <3>0, <3>2, <3>4 DEF TicketInv, TicketTypes
    <3>6. hour' = [h EXCEPT ![req[q].by].messages = @ + 1]
      BY <1>3, <3>5 DEF D!OpenInsert
    <3>7. hour' = [h EXCEPT ![req[q].by] = [o1 EXCEPT !.messages = @ + 1]]
      BY <3>5, <3>6
    <3> QED
      BY <2>1, <3>3, <3>7
  <2>8. Names(r)'
    BY <2>2, <2>4, <2>40, <2>5, <2>6 DEF Names, TicketInv, TicketTypes
  <2>9. \A x \in Tickets : ticket[x] \in D!Ticket => ticket'[x] \in D!Ticket /\ Len(msgs[x]) <= Len(msgs'[x])
    <3> SUFFICES ASSUME NEW x \in Tickets, ticket[x] \in D!Ticket PROVE ticket'[x] \in D!Ticket /\ Len(msgs[x]) <= Len(msgs'[x])
      OBVIOUS
    <3>1. x # t
      BY <2>6 DEF D!TicketsAssumption
    <3> QED
      BY <2>6, <3>1, LenProperties DEF TicketInv, TicketTypes
  <2>10. D!FinishedWhenSaid'
    <3> SUFFICES ASSUME NEW x \in Tickets, ticket'[x] # None
                 PROVE  ticket'[x].resolvedAt <=> ticket'[x].status \in D!Finished
      BY DEF D!FinishedWhenSaid
    <3> QED
      BY <2>40, <2>6 DEF TicketInv, TicketTypes, D!FinishedWhenSaid, D!Finished
  <2>11. ticket' \in [Tickets -> D!Ticket \cup {None}] /\ msgs' \in [Tickets -> Seq(D!Message)] /\ edits' \in 0 .. MaxEdits
    BY <2>6 DEF TicketInv, TicketTypes
  <2>12. TopNumber'
    <3>1. \A x \in Tickets : ticket[x] # None => ticket[x].number \in D!Numbers /\ ticket[x].number \in Nat
      BY DEF TicketInv, TicketTypes, D!Ticket, D!Numbers
    <3>2. \A n \in D!Numbers : n \in Nat /\ n <= D!Number
      <4>1. D!Numbers \subseteq Nat
        BY DEF D!Numbers, TicketInv, TicketTypes, D!Ticket
      <4> DEFINE top == CHOOSE n \in D!Numbers : \A z \in D!Numbers : z <= n
      <4>2. ASSUME D!Numbers # {} PROVE top \in D!Numbers /\ \A z \in D!Numbers : z <= top
        <5>1. \E n \in D!Numbers : \A z \in D!Numbers : z <= n
          BY <4>2 DEF D!Numbers, TicketInv, TopNumber
        <5> QED
          BY <5>1
      <4>3. ASSUME D!Numbers # {} PROVE D!Number = top + 1
        BY <4>3 DEF D!Number
      <4> HIDE DEF top
      <4>4. ASSUME NEW n \in D!Numbers PROVE n \in Nat /\ n <= D!Number
        <5>1. n \in Nat /\ top \in Nat /\ n <= top /\ D!Number = top + 1
          BY <4>1, <4>2, <4>3
        <5> QED
          BY <5>1
      <4> QED
        BY <4>4
    <3>3. ticket'[t] # None
      BY <2>4, <2>6 DEF D!TicketsAssumption, TicketInv, TicketTypes
    <3>4. \A x \in Tickets : ticket'[x] # None => ticket'[x].number <= ticket'[t].number
      BY <2>3, <2>40, <2>6, <3>1, <3>2 DEF TicketInv, TicketTypes
    <3> QED
      BY <3>3, <3>4 DEF TopNumber
  <2> QED
    BY <2>6, <2>7, <2>8, <2>9, <2>10, <2>11, <2>12, OthersKeep
<1>4. CASE D!Tell(q)
  <2>1. PICK x \in Tickets, k \in Nat : req[q].t = x /\ req[q].len = k /\ k \in 1 .. Len(msgs[x])
    BY <1>0, <1>4 DEF D!Tell, Names, AskType
  <2>20. msgs[x] \in Seq(D!Message)
    BY <2>1 DEF TicketInv, TicketTypes
  <2>2. PICK f \in Seq(D!Message) : f = [msgs[x] EXCEPT ![k].told = TRUE] /\ Len(f) = Len(msgs[x])
    <3>1. /\ [msgs[x] EXCEPT ![k].told = TRUE] \in Seq(D!Message)
          /\ Len([msgs[x] EXCEPT ![k].told = TRUE]) = Len(msgs[x])
      BY <2>1, <2>20, Telling
    <3> QED
      BY <3>1
  <2>3. req' = [req EXCEPT ![q] = D!NoReq] /\ UNCHANGED <<clock, ticket, paused, hour>>
    BY <1>4 DEF D!Tell, D!End, D!Go
  <2>4. Len(f) >= Len(msgs[x])
    BY <2>2, LenProperties
  <2>5. CASE msgs' = [msgs EXCEPT ![x] = f] /\ UNCHANGED edits
    <3>1. edits' \in 0 .. MaxEdits
      BY <2>5 DEF TicketInv, TicketTypes
    <3> QED
      BY <2>3, <2>4, <2>5, <3>1, Ended, OnlyMarks
  <2>6. CASE D!Edit("mail") /\ UNCHANGED msgs
    BY <2>3, <2>6, Ended, Counts, OnlyMoves
  <2> QED
    BY <1>4, <2>1, <2>2, <2>5, <2>6 DEF D!Tell
<1> QED
  BY <1>1, <1>2, <1>3, <1>4

\* One writes to a ticket: the message comes last, and the ticket waits for the other side.
LEMMA WriteStep ==
    ASSUME D!TicketsAssumption, TicketInv, NEW q \in Requests,
           \/ (\E t \in Tickets : D!BeginMessage(q, t)) \/ D!MessageCheck(q) \/ D!MessageWrite(q)
    PROVE  TicketInv'
<1>0. req[q] \in AskType /\ Names(req[q]) /\ clock \in 0 .. MaxTime
  BY DEF TicketInv, TicketTypes
<1>1. ASSUME NEW t \in Tickets, D!BeginMessage(q, t) PROVE TicketInv'
  <2>1. ticket[t] \in D!Ticket
    BY <1>1 DEF D!BeginMessage, TicketInv, TicketTypes
  <2>2. PICK r \in AskType : /\ r = [D!NoReq EXCEPT !.at = "check", !.by = ticket[t].device, !.t = t]
                             /\ r.at = "check" /\ r.by = ticket[t].device /\ r.t = t
    <3>1. PICK y \in AskType : y = [D!NoReq EXCEPT !.at = "check", !.by = ticket[t].device, !.t = t]
      BY <2>1, Ended DEF AskType, D!NoReq, D!Statuses, D!Ticket
    <3>2. y.at = "check" /\ y.by = ticket[t].device /\ y.t = t
      BY <3>1 DEF AskType, D!NoReq
    <3> QED
      BY <3>1, <3>2
  <2>3. Names(r)
    BY <2>1, <2>2 DEF Names, D!Ticket
  <2>4. req' = [req EXCEPT ![q] = r] /\ edits' \in 0 .. MaxEdits /\ UNCHANGED <<clock, ticket, msgs, paused, hour>>
    BY <1>1, <2>2, Counts DEF D!BeginMessage, D!Go
  <2> QED
    BY <2>3, <2>4, OnlyMoves
<1>2. CASE D!MessageCheck(q)
  <2>1. PICK r \in AskType : /\ r = [req[q] EXCEPT !.at = "write", !.now = clock]
                             /\ r.at = "write" /\ r.by = req[q].by /\ r.t = req[q].t
    <3>1. PICK y \in AskType : y = [req[q] EXCEPT !.at = "write", !.now = clock]
      BY <1>0 DEF AskType
    <3>2. y.at = "write" /\ y.by = req[q].by /\ y.t = req[q].t
      BY <3>1 DEF AskType, D!NoReq
    <3> QED
      BY <3>1, <3>2
  <2>2. Names(r)
    BY <1>0, <1>2, <2>1 DEF D!MessageCheck, Names
  <2>3. PICK y \in {r, D!NoReq} : req' = [req EXCEPT ![q] = y]
    BY <1>2, <2>1 DEF D!MessageCheck, D!End, D!Now, D!Go
  <2>4. UNCHANGED <<clock, ticket, msgs, paused, hour>> /\ edits' \in 0 .. MaxEdits /\ y \in AskType /\ Names(y)
    BY <1>2, <2>1, <2>2, <2>3, Ended DEF D!MessageCheck, TicketInv, TicketTypes
  <2> QED
    BY <2>3, <2>4, OnlyMoves
<1>3. CASE D!MessageWrite(q)
  <2>1. PICK x \in Tickets : req[q].t = x /\ ticket[x] \in D!Ticket /\ req[q].by \in Devices /\ req[q].now \in 0 .. MaxTime
    BY <1>0, <1>3 DEF D!MessageWrite, Names, AskType
  <2>2. PICK f \in Seq(D!Message) : f = Append(msgs[x], D!NewMessage("requester", req[q].now)) /\ Len(f) = Len(msgs[x]) + 1
    BY <2>1, Adding DEF TicketInv, TicketTypes, Sides
  <2>3. PICK r \in AskType : /\ r = [req[q] EXCEPT !.at = "tell", !.len = Len(msgs[x]) + 1]
                             /\ r.at = "tell" /\ r.t = x /\ r.len = Len(msgs[x]) + 1
    <3>1. PICK y \in AskType : y = [req[q] EXCEPT !.at = "tell", !.len = Len(msgs[x]) + 1]
      <4>1. Len(msgs[x]) + 1 \in Nat
        BY <2>1, LenProperties DEF TicketInv, TicketTypes
      <4> QED
        BY <1>0, <4>1 DEF AskType
    <3>2. y.at = "tell" /\ y.t = x /\ y.len = Len(msgs[x]) + 1
      BY <1>0, <2>1, <3>1 DEF AskType
    <3> QED
      BY <3>1, <3>2
  <2>40. D!Written(ticket[x]) \in D!Ticket
    BY <2>1 DEF D!Ticket, D!Statuses, D!Written
  <2>4. PICK k \in D!Ticket : k = D!Written(ticket[x]) /\ ~ k.resolvedAt /\ k.status = "open" /\ k.number = ticket[x].number
    BY <2>1, <2>40 DEF D!Ticket, D!Written
  <2>5. /\ ticket' = [ticket EXCEPT ![x] = k] /\ msgs' = [msgs EXCEPT ![x] = f]
        /\ UNCHANGED <<clock, paused, edits>> /\ req' = [req EXCEPT ![q] = r]
    BY <1>3, <2>1, <2>2, <2>3, <2>4 DEF D!MessageWrite, D!Go
  <2>6. hour' \in [Devices -> [tickets : Nat, messages : Nat]]
    <3>0. PICK o \in [tickets : Nat, messages : Nat] : o = hour[req[q].by]
      BY <2>1 DEF TicketInv, TicketTypes
    <3>01. [o EXCEPT !.messages = @ + 1] \in [tickets : Nat, messages : Nat]
      OBVIOUS
    <3>1. PICK h \in [tickets : Nat, messages : Nat] : h = [o EXCEPT !.messages = @ + 1]
      BY <3>01
    <3>2. hour' = [hour EXCEPT ![req[q].by] = h]
      BY <1>3, <2>1, <3>0, <3>1 DEF D!MessageWrite, TicketInv, TicketTypes
    <3> QED
      BY <2>1, <3>2 DEF TicketInv, TicketTypes
  <2>7. Names(r)'
    <3>1. msgs'[x] = f /\ ticket'[x] = k
      BY <2>5 DEF TicketInv, TicketTypes
    <3>2. Len(msgs[x]) \in Nat
      BY LenProperties DEF TicketInv, TicketTypes
    <3> QED
      BY <2>2, <2>3, <2>4, <3>1, <3>2 DEF Names
  <2>8. \A y \in Tickets : ticket[y] \in D!Ticket => ticket'[y] \in D!Ticket /\ Len(msgs[y]) <= Len(msgs'[y])
    BY <2>2, <2>4, <2>5, LenProperties DEF TicketInv, TicketTypes
  <2>9. D!FinishedWhenSaid'
    BY <2>4, <2>5 DEF TicketInv, TicketTypes, D!FinishedWhenSaid, D!Finished
  <2>10. ticket' \in [Tickets -> D!Ticket \cup {None}] /\ msgs' \in [Tickets -> Seq(D!Message)] /\ edits' \in 0 .. MaxEdits
    BY <2>5 DEF TicketInv, TicketTypes
  <2>11. TopNumber'
    BY <2>1, <2>4, <2>5, SameNumbers
  <2> QED
    BY <2>5, <2>6, <2>7, <2>8, <2>9, <2>10, <2>11, OthersKeep
<1> QED
  BY <1>1, <1>2, <1>3

\* One reads a ticket: what the other side wrote is marked, and then shown.
LEMMA ReadStep ==
    ASSUME D!TicketsAssumption, TicketInv, NEW q \in Requests,
           \/ (\E t \in Tickets, side \in Sides : D!BeginGet(q, t, side)) \/ D!GetMark(q) \/ D!Show(q)
    PROVE  TicketInv'
<1>0. req[q] \in AskType /\ Names(req[q])
  BY DEF TicketInv, TicketTypes
<1>1. ASSUME NEW t \in Tickets, NEW side \in Sides, D!BeginGet(q, t, side) PROVE TicketInv'
  <2>1. ticket[t] \in D!Ticket /\ Len(msgs[t]) \in Nat
    BY <1>1, LenProperties DEF D!BeginGet, TicketInv, TicketTypes
  <2>2. PICK r \in AskType : r = [D!NoReq EXCEPT !.at = "mark", !.by = side, !.t = t, !.len = Len(msgs[t])]
    BY <2>1, Ended DEF AskType, D!NoReq, D!Statuses
  <2>3. Names(r)
    BY <2>1, <2>2 DEF Names, D!NoReq
  <2>4. req' = [req EXCEPT ![q] = r] /\ edits' \in 0 .. MaxEdits /\ UNCHANGED <<clock, ticket, msgs, paused, hour>>
    BY <1>1, <2>2, Counts DEF D!BeginGet, D!Go
  <2> QED
    BY <2>3, <2>4, OnlyMoves
<1>2. CASE D!GetMark(q)
  <2>1. PICK x \in Tickets : req[q].t = x /\ ticket[x] \in D!Ticket /\ req[q].by \in Sides /\ msgs[x] \in Seq(D!Message)
    BY <1>0, <1>2 DEF D!GetMark, Names, TicketInv, TicketTypes
  <2>2. D!Other(req[q].by) \in Sides
    BY <2>1 DEF D!Other, Sides
  <2>3. PICK f \in Seq(D!Message) : f = D!MarkSeen(msgs[x], D!Other(req[q].by)) /\ Len(f) = Len(msgs[x])
    BY <2>1, <2>2, Marking
  <2>4. PICK r \in AskType : r = [req[q] EXCEPT !.at = "show"]
    BY <1>0 DEF AskType
  <2>5. r.at = "show" /\ r.t = x /\ r.by = req[q].by
    BY <1>0, <2>1, <2>4 DEF AskType
  <2>6. Names(r)
    BY <2>1, <2>5 DEF Names
  <2>7. /\ msgs' = [msgs EXCEPT ![x] = f] /\ req' = [req EXCEPT ![q] = r] /\ UNCHANGED <<clock, ticket, paused, hour>>
        /\ Len(f) >= Len(msgs[x]) /\ edits' \in 0 .. MaxEdits
    BY <1>2, <2>1, <2>3, <2>4, LenProperties DEF D!GetMark, D!Move, D!Go, TicketInv, TicketTypes
  <2> QED
    BY <2>6, <2>7, OnlyMarks
<1>3. CASE D!Show(q)
  <2>1. PICK x \in Tickets : req[q].t = x /\ ticket[x] \in D!Ticket /\ req[q].by \in Sides /\ msgs[x] \in Seq(D!Message)
    BY <1>0, <1>3 DEF D!Show, Names, TicketInv, TicketTypes
  <2>2. D!Other(req[q].by) \in Sides
    BY <2>1 DEF D!Other, Sides
  <2>3. PICK f \in Seq(D!Message) : f = D!ShowUpTo(msgs[x], D!Other(req[q].by), Len(msgs[x])) /\ Len(f) = Len(msgs[x])
    BY <2>1, <2>2, Showing
  <2>4. /\ msgs' = [msgs EXCEPT ![x] = f] /\ req' = [req EXCEPT ![q] = D!NoReq] /\ UNCHANGED <<clock, ticket, paused, hour>>
        /\ Len(f) >= Len(msgs[x]) /\ edits' \in 0 .. MaxEdits
    BY <1>3, <2>1, <2>3, LenProperties DEF D!Show, D!Shown, D!End, D!Go, TicketInv, TicketTypes
  <2> QED
    BY <2>4, Ended, OnlyMarks
<1> QED
  BY <1>1, <1>2, <1>3

\* The panel replies to a ticket, or changes its status.
LEMMA ReplyStep ==
    ASSUME D!TicketsAssumption, TicketInv, NEW q \in Requests,
           D!Reply(q) \/ \E t \in Tickets, status \in D!Statuses : D!BeginReply(q, t, status) \/ D!Patch(q, t, status)
    PROVE  TicketInv'
<1>0. req[q] \in AskType /\ Names(req[q]) /\ clock \in 0 .. MaxTime
  BY DEF TicketInv, TicketTypes
<1>1. ASSUME NEW t \in Tickets, NEW status \in D!Statuses, D!BeginReply(q, t, status) PROVE TicketInv'
  <2>1. ticket[t] \in D!Ticket
    BY <1>1 DEF D!BeginReply, TicketInv, TicketTypes
  <2>2. PICK r \in AskType : r = [D!NoReq EXCEPT !.at = "reply", !.by = "staff", !.t = t, !.now = clock, !.status = status]
    BY <1>0, <2>1, Ended DEF AskType, D!NoReq, D!Statuses, Sides
  <2>3. Names(r)
    BY <2>1, <2>2 DEF Names, D!NoReq
  <2>4. req' = [req EXCEPT ![q] = r] /\ edits' \in 0 .. MaxEdits /\ UNCHANGED <<clock, ticket, msgs, paused, hour>>
    BY <1>1, <2>2, Counts DEF D!BeginReply, D!Go
  <2> QED
    BY <2>3, <2>4, OnlyMoves
<1>2. CASE D!Reply(q)
  <2>1. PICK x \in Tickets : /\ req[q].t = x /\ ticket[x] \in D!Ticket /\ req[q].by = "staff" /\ msgs[x] \in Seq(D!Message)
                             /\ req[q].now \in 0 .. MaxTime /\ req[q].status \in D!Statuses
    BY <1>0, <1>2 DEF D!Reply, Names, TicketInv, TicketTypes, AskType
  <2>2. PICK g \in Seq(D!Message) : g = D!MarkSeen(msgs[x], "requester") /\ Len(g) = Len(msgs[x])
    BY <2>1, Marking DEF Sides
  <2>3. PICK f \in Seq(D!Message) : f = Append(g, D!NewMessage("staff", req[q].now)) /\ Len(f) = Len(g) + 1
    BY <2>1, Adding DEF Sides
  <2>4. PICK r \in AskType : r = [req[q] EXCEPT !.at = "show"]
    BY <1>0 DEF AskType
  <2>5. r.at = "show" /\ r.t = x /\ r.by = "staff"
    BY <1>0, <2>1, <2>4 DEF AskType
  <2>59. PICK b \in BOOLEAN : b = (req[q].status \in D!Finished)
    <3>1. CASE req[q].status \in D!Finished
      <4>1. (req[q].status \in D!Finished) = TRUE
        BY <3>1
      <4> QED
        BY <4>1
    <3>2. CASE req[q].status \notin D!Finished
      <4>1. (req[q].status \in D!Finished) = FALSE
        BY <3>2
      <4> QED
        BY <4>1
    <3> QED
      BY <3>1, <3>2
  <2>60. D!Replied(ticket[x], req[q].status) \in D!Ticket
    BY <2>1, <2>59 DEF D!Ticket, D!Replied
  <2>6. PICK k \in D!Ticket : k = D!Replied(ticket[x], req[q].status) /\ (k.resolvedAt <=> k.status \in D!Finished) /\ k.number = ticket[x].number
    BY <2>1, <2>60 DEF D!Ticket, D!Replied
  <2>7. /\ ticket' = [ticket EXCEPT ![x] = k] /\ msgs' = [msgs EXCEPT ![x] = f]
        /\ UNCHANGED <<clock, paused, hour, edits>> /\ req' = [req EXCEPT ![q] = r]
    BY <1>2, <2>1, <2>2, <2>3, <2>4, <2>6 DEF D!Reply, D!Move, D!Go, TicketInv, TicketTypes
  <2>8. Names(r)'
    BY <2>5, <2>6, <2>7 DEF Names, Sides, TicketInv, TicketTypes
  <2>9. \A y \in Tickets : ticket[y] \in D!Ticket => ticket'[y] \in D!Ticket /\ Len(msgs[y]) <= Len(msgs'[y])
    BY <2>2, <2>3, <2>6, <2>7, LenProperties DEF TicketInv, TicketTypes
  <2>10. D!FinishedWhenSaid'
    BY <2>6, <2>7 DEF TicketInv, TicketTypes, D!FinishedWhenSaid, D!Finished
  <2>11. /\ ticket' \in [Tickets -> D!Ticket \cup {None}] /\ msgs' \in [Tickets -> Seq(D!Message)] /\ edits' \in 0 .. MaxEdits
         /\ hour' \in [Devices -> [tickets : Nat, messages : Nat]]
    BY <2>7 DEF TicketInv, TicketTypes
  <2>12. TopNumber'
    BY <2>1, <2>6, <2>7, SameNumbers
  <2> QED
    BY <2>7, <2>8, <2>9, <2>10, <2>11, <2>12, OthersKeep
<1>3. ASSUME NEW t \in Tickets, NEW status \in D!Statuses, D!Patch(q, t, status) PROVE TicketInv'
  <2>1. ticket[t] \in D!Ticket
    BY <1>3 DEF D!Patch, TicketInv, TicketTypes
  <2>19. PICK b \in BOOLEAN : b = (status \in D!Finished)
    <3>1. CASE status \in D!Finished
      <4>1. (status \in D!Finished) = TRUE
        BY <3>1
      <4> QED
        BY <4>1
    <3>2. CASE status \notin D!Finished
      <4>1. (status \in D!Finished) = FALSE
        BY <3>2
      <4> QED
        BY <4>1
    <3> QED
      BY <3>1, <3>2
  <2>20. [ticket[t] EXCEPT !.status = status, !.resolvedAt = status \in D!Finished] \in D!Ticket
    BY <2>1, <2>19 DEF D!Ticket
  <2>2. PICK k \in D!Ticket : /\ k = [ticket[t] EXCEPT !.status = status, !.resolvedAt = status \in D!Finished]
                              /\ (k.resolvedAt <=> k.status \in D!Finished) /\ k.number = ticket[t].number
    BY <2>1, <2>20 DEF D!Ticket
  <2>3. ticket' = [ticket EXCEPT ![t] = k] /\ UNCHANGED <<clock, msgs, paused, hour, req>> /\ edits' \in 0 .. MaxEdits
    BY <1>3, <2>1, <2>2, Counts DEF D!Patch, TicketInv, TicketTypes
  <2>4. /\ \A y \in Tickets : ticket[y] \in D!Ticket => ticket'[y] \in D!Ticket /\ Len(msgs[y]) <= Len(msgs'[y])
        /\ ticket' \in [Tickets -> D!Ticket \cup {None}]
    BY <2>2, <2>3, LenProperties DEF TicketInv, TicketTypes
  <2>5. D!FinishedWhenSaid'
    BY <2>2, <2>3 DEF TicketInv, TicketTypes, D!FinishedWhenSaid, D!Finished
  <2>6. TopNumber'
    BY <2>1, <2>2, <2>3, SameNumbers
  <2>7. PICK r \in AskType : r = req[q] /\ req' = [req EXCEPT ![q] = r] /\ Names(r)
    BY <1>0, <2>3 DEF TicketInv, TicketTypes
  <2>8. Names(r)'
    BY <2>3, <2>4, <2>7 DEF Names
  <2>9. msgs' \in [Tickets -> Seq(D!Message)] /\ hour' \in [Devices -> [tickets : Nat, messages : Nat]]
    BY <2>3 DEF TicketInv, TicketTypes
  <2> QED
    BY <2>3, <2>4, <2>5, <2>6, <2>7, <2>8, <2>9, OthersKeep
<1> QED
  BY <1>1, <1>2, <1>3

LEMMA TicketsStep == ASSUME D!TicketsAssumption, TicketInv, [D!Next]_D!vars PROVE TicketInv'
<1>1. CASE UNCHANGED D!vars \/ D!List
  BY <1>1 DEF D!List, D!vars, TicketInv, TicketTypes, Names, D!FinishedWhenSaid, TopNumber
<1>2. CASE D!Tick
  <2>1. clock' \in 0 .. MaxTime
    BY <1>2, Bounds DEF D!Tick, TicketInv, TicketTypes
  <2> QED
    BY <1>2, <2>1 DEF D!Tick, TicketInv, TicketTypes, Names, D!FinishedWhenSaid, TopNumber
<1>3. CASE D!HourPasses
  <2>1. edits' \in 0 .. MaxEdits
    BY <1>3, Counts DEF D!HourPasses
  <2>2. hour' \in [Devices -> [tickets : Nat, messages : Nat]]
    BY <1>3 DEF D!HourPasses
  <2> QED
    BY <1>3, <2>1, <2>2 DEF D!HourPasses, TicketInv, TicketTypes, Names, D!FinishedWhenSaid, TopNumber
<1>4. CASE D!Pause
  <2>1. edits' \in 0 .. MaxEdits /\ paused' \in BOOLEAN
    BY <1>4, Counts DEF D!Pause, TicketInv, TicketTypes
  <2> QED
    BY <1>4, <2>1 DEF D!Pause, TicketInv, TicketTypes, Names, D!FinishedWhenSaid, TopNumber
<1>5. ASSUME NEW q \in Requests, D!Handler(q) PROVE TicketInv'
  BY <1>5, OpenStep, WriteStep, ReadStep, ReplyStep DEF D!Handler, Sides
<1>6. ASSUME NEW q \in Requests, D!Cut(q) PROVE TicketInv'
  <2>1. /\ req' = [req EXCEPT ![q] = D!NoReq] /\ edits' \in 0 .. MaxEdits /\ UNCHANGED <<clock, ticket, paused, hour>>
        /\ Names(req[q])
    BY <1>6, Counts DEF D!Cut, D!End, D!Go, TicketInv
  <2>2. CASE req[q].at = "show"
    <3>1. PICK t \in Tickets : req[q].t = t /\ req[q].by \in Sides
      BY <2>1, <2>2 DEF Names
    <3>2. PICK a \in Sides : a = D!Other(req[q].by)
      BY <3>1 DEF D!Other, Sides
    <3>3. PICK f : f = D!LoseSeen(msgs[t], a)
      OBVIOUS
    <3>4. msgs[t] \in Seq(D!Message) /\ Len(msgs[t]) \in Nat
      BY LenProperties DEF TicketInv, TicketTypes
    <3>5. f \in Seq(D!Message) /\ Len(f) >= Len(msgs[t])
      BY <3>3, <3>4, Losing
    <3>6. msgs' = [msgs EXCEPT ![t] = f]
      BY <1>6, <2>2, <3>1, <3>2, <3>3 DEF D!Cut
    <3> QED
      BY <2>1, <3>5, <3>6, Ended, OnlyMarks
  <2>3. CASE req[q].at # "show"
    <3>1. UNCHANGED msgs
      BY <1>6, <2>3 DEF D!Cut
    <3> QED
      BY <2>1, <3>1, Ended, OnlyMoves
  <2> QED
    BY <2>2, <2>3
<1> QED
  BY <1>1, <1>2, <1>3, <1>4, <1>5, <1>6 DEF D!Next

-----------------------------------------------------------------------------
\* A message that is marked as seen, and that no answer carried, is about to be shown by the request that
\* marked it.
Shows(q, t, author) == req[q].at = "show" /\ req[q].t = t /\ D!Other(req[q].by) = author
ToShow == \A t \in Tickets, a \in Sides : \A n \in 1 .. Len(msgs[t]) :
    msgs[t][n].author = a /\ msgs[t][n].seen /\ msgs[t][n].shown = "no" => \E q \in Requests : Shows(q, t, a)

\* A request that owes nothing moves.
LEMMA OwedMoves ==
    ASSUME TicketInv, ToShow, NEW q \in Requests, NEW r \in AskType, req' = [req EXCEPT ![q] = r],
           UNCHANGED msgs, req[q].at # "show"
    PROVE  ToShow'
<1>1. \A p \in Requests : p # q => req'[p] = req[p]
  BY DEF TicketInv, TicketTypes
<1>2. \A p \in Requests, t \in Tickets, a \in Sides : Shows(p, t, a) => Shows(p, t, a)'
  BY <1>1 DEF Shows
<1> QED
  BY <1>2 DEF ToShow

\* When a step of q, which is r then, makes f of the messages of t, what is owed is owed by q, or was by another.
ShowOwed(q, r, t, f) == \A n \in 1 .. Len(f) : f[n].seen /\ f[n].shown = "no" =>
    \/ r.at = "show" /\ r.t = t /\ D!Other(r.by) = f[n].author
    \/ /\ n \in 1 .. Len(msgs[t]) /\ msgs[t][n].seen /\ msgs[t][n].shown = "no" /\ msgs[t][n].author = f[n].author
       /\ ~ Shows(q, t, f[n].author)

\* A request changes the messages of the ticket it is about.
LEMMA OwedWrites ==
    ASSUME TicketInv, ToShow, NEW q \in Requests, NEW r \in AskType, req' = [req EXCEPT ![q] = r],
           NEW t \in Tickets, NEW f \in Seq(D!Message), msgs' = [msgs EXCEPT ![t] = f],
           req[q].at = "show" => req[q].t = t, ShowOwed(q, r, t, f)
    PROVE  ToShow'
<1>1. (\A p \in Requests : p # q => req'[p] = req[p]) /\ req'[q] = r
  BY DEF TicketInv, TicketTypes
<1>2. (\A x \in Tickets : x # t => msgs'[x] = msgs[x]) /\ msgs'[t] = f
  BY DEF TicketInv, TicketTypes
<1>3. ASSUME NEW p \in Requests, NEW x \in Tickets, NEW a, Shows(p, x, a), p # q \/ x # t PROVE Shows(p, x, a)'
  BY <1>1, <1>3 DEF Shows
<1> SUFFICES ASSUME NEW x \in Tickets, NEW a \in Sides, NEW n \in 1 .. Len(msgs'[x]),
                    msgs'[x][n].author = a, msgs'[x][n].seen, msgs'[x][n].shown = "no"
             PROVE  \E p \in Requests : Shows(p, x, a)'
  BY DEF ToShow
<1>4. CASE x # t
  <2>1. PICK p \in Requests : Shows(p, x, a)
    BY <1>2, <1>4 DEF ToShow
  <2> QED
    BY <1>3, <1>4, <2>1
<1>5. CASE x = t
  <2>1. CASE r.at = "show" /\ r.t = t /\ D!Other(r.by) = f[n].author
    BY <1>1, <1>2, <1>5, <2>1 DEF Shows, D!Other
  <2>2. CASE /\ n \in 1 .. Len(msgs[t]) /\ msgs[t][n].seen /\ msgs[t][n].shown = "no" /\ msgs[t][n].author = f[n].author
             /\ ~ Shows(q, t, f[n].author)
    <3>1. PICK p \in Requests : Shows(p, t, a)
      BY <1>2, <1>5, <2>2 DEF ToShow
    <3> QED
      BY <1>2, <1>3, <1>5, <2>2, <3>1
  <2> QED
    BY <1>2, <1>5, <2>1, <2>2 DEF ShowOwed
<1> QED
  BY <1>4, <1>5

LEMMA OwedStep == ASSUME D!TicketsAssumption, TicketInv, ToShow, [D!Next]_D!vars PROVE ToShow'
<1>1. CASE UNCHANGED <<msgs, req>>
  BY <1>1 DEF ToShow, Shows
<1>0. ASSUME NEW q \in Requests
      PROVE  /\ req[q] \in AskType /\ Names(req[q]) /\ clock \in 0 .. MaxTime
             /\ D!NoReq \in AskType /\ D!NoReq.at = "none"
  BY Ended DEF TicketInv, TicketTypes, D!NoReq
<1>00. \A x \in Tickets : msgs[x] \in Seq(D!Message) /\ Len(msgs[x]) \in Nat /\ \A n \in 1 .. Len(msgs[x]) : msgs[x][n] \in D!Message
  BY LenProperties, ElementOfSeq DEF TicketInv, TicketTypes
<1>2. ASSUME NEW q \in Requests, D!Handler(q) PROVE ToShow'
  <2>1. CASE \/ \E d \in Devices : D!BeginOpen(q, d)
             \/ \E t \in Tickets : \/ D!BeginMessage(q, t) \/ \E side \in Sides : D!BeginGet(q, t, side)
                                   \/ \E status \in D!Statuses : D!BeginReply(q, t, status)
             \/ D!OpenCount(q) \/ D!MessageCheck(q)
    <3>1. UNCHANGED msgs /\ req[q].at \in {"none", "count", "check"} /\ req'[q] \in AskType /\ req' = [req EXCEPT ![q] = req'[q]]
      <4>1. TicketInv'
        BY TicketsStep
      <4> QED
        BY <2>1, <4>1 DEF TicketInv, TicketTypes, D!BeginOpen, D!BeginMessage, D!BeginGet, D!BeginReply, D!Free, D!Go,
          D!OpenCount, D!MessageCheck, D!End, D!Now
    <3>2. PICK r \in AskType : req' = [req EXCEPT ![q] = r]
      BY <3>1
    <3> QED
      BY <3>1, <3>2, OwedMoves
  <2>3. ASSUME NEW t \in Tickets, D!OpenInsert(q, t) PROVE ToShow'
    <3>1. PICK r \in AskType : r = [req[q] EXCEPT !.at = "tell", !.t = t, !.len = 1]
      BY <1>0 DEF AskType
    <3>3. PICK m \in D!Message : m = D!NewMessage("requester", req[q].now)
      BY <1>0 DEF D!NewMessage, D!Message, AskType
    <3>4. ~ m.seen
      BY <3>3 DEF D!NewMessage
    <3>50. <<m>> \in Seq(D!Message) /\ Len(<<m>>) = 1 /\ <<m>>[1] = m
      OBVIOUS
    <3>5. PICK f \in Seq(D!Message) : f = <<m>> /\ Len(f) = 1 /\ f[1] = m
      BY <3>50
    <3>6. req' = [req EXCEPT ![q] = r] /\ msgs' = [msgs EXCEPT ![t] = f] /\ req[q].at = "insert"
      BY <2>3, <3>1, <3>3, <3>5 DEF D!OpenInsert, D!Go
    <3>7. ShowOwed(q, r, t, f)
      BY <3>4, <3>5 DEF ShowOwed
    <3> QED
      BY <3>6, <3>7, OwedWrites
  <2>4. CASE D!Tell(q)
    <3>0. req' = [req EXCEPT ![q] = D!NoReq] /\ req[q].at = "tell"
      BY <2>4 DEF D!Tell, D!End, D!Go
    <3>1. PICK t \in Tickets, k \in Nat : req[q].t = t /\ req[q].len = k /\ k \in 1 .. Len(msgs[t])
      BY <1>0, <3>0 DEF Names, AskType
    <3>2. PICK f : f = [msgs[t] EXCEPT ![k].told = TRUE]
      OBVIOUS
    <3>3. /\ f \in Seq(D!Message) /\ Len(f) = Len(msgs[t])
          /\ \A n \in 1 .. Len(f) : /\ f[n].author = msgs[t][n].author /\ f[n].seen = msgs[t][n].seen
                                    /\ f[n].shown = msgs[t][n].shown
      BY <1>00, <3>1, <3>2, Telling
    <3>4. ShowOwed(q, D!NoReq, t, f)
      BY <3>0, <3>3 DEF Shows, ShowOwed
    <3>5. CASE UNCHANGED msgs
      BY <1>0, <3>0, <3>5, OwedMoves
    <3>6. CASE msgs' = [msgs EXCEPT ![t] = f]
      BY <1>0, <3>0, <3>1, <3>3, <3>4, <3>6, OwedWrites
    <3> QED
      BY <2>4, <3>1, <3>2, <3>5, <3>6 DEF D!Tell
  <2>5. CASE D!MessageWrite(q)
    <3>1. PICK t \in Tickets : req[q].t = t /\ req[q].now \in 0 .. MaxTime
      BY <1>0, <2>5 DEF D!MessageWrite, Names, AskType
    <3>2. PICK f : f = Append(msgs[t], D!NewMessage("requester", req[q].now))
      OBVIOUS
    <3>3. /\ f \in Seq(D!Message) /\ Len(f) = Len(msgs[t]) + 1 /\ ~ f[Len(f)].seen
          /\ \A n \in 1 .. Len(msgs[t]) : f[n] = msgs[t][n]
      BY <1>00, <3>1, <3>2, Adding DEF Sides, D!NewMessage
    <3>4. PICK r \in AskType : r = [req[q] EXCEPT !.at = "tell", !.len = Len(f)]
      <4>1. Len(f) \in Nat
        BY <3>3, LenProperties
      <4> QED
        BY <1>0, <4>1 DEF AskType
    <3>6. msgs' = [msgs EXCEPT ![t] = f] /\ req' = [req EXCEPT ![q] = r] /\ req[q].at = "write"
      BY <2>5, <3>1, <3>2, <3>3, <3>4 DEF D!MessageWrite, D!Go
    <3>7. \A n \in 1 .. Len(f) : n \in 1 .. Len(msgs[t]) \/ n = Len(f)
      BY <1>00, <3>3
    <3>8. ShowOwed(q, r, t, f)
      BY <3>3, <3>6, <3>7 DEF ShowOwed, Shows
    <3> QED
      BY <3>3, <3>6, <3>8, OwedWrites
  <2>6. CASE D!GetMark(q)
    <3>1. PICK t \in Tickets : req[q].t = t /\ req[q].by \in Sides
      BY <1>0, <2>6 DEF D!GetMark, Names
    <3>2. PICK a \in Sides : a = D!Other(req[q].by)
      BY <3>1 DEF D!Other, Sides
    <3>3. PICK f : f = D!MarkSeen(msgs[t], a)
      OBVIOUS
    <3>4. /\ f \in Seq(D!Message) /\ Len(f) = Len(msgs[t])
          /\ \A n \in 1 .. Len(f) : /\ f[n].author = msgs[t][n].author
                                    /\ f[n].shown = msgs[t][n].shown /\ (msgs[t][n].author # a => f[n].seen = msgs[t][n].seen)
      BY <1>00, <3>3, Marking
    <3>5. PICK r \in AskType : r = [req[q] EXCEPT !.at = "show"]
      BY <1>0 DEF AskType
    <3>6. r.at = "show" /\ r.t = t /\ D!Other(r.by) = a
      BY <1>0, <3>1, <3>2, <3>5 DEF AskType
    <3>7. msgs' = [msgs EXCEPT ![t] = f] /\ req' = [req EXCEPT ![q] = r] /\ req[q].at = "mark"
      BY <2>6, <3>1, <3>2, <3>3, <3>5 DEF D!GetMark, D!Move, D!Go, TicketInv, TicketTypes
    <3>8. ShowOwed(q, r, t, f)
      BY <3>4, <3>6, <3>7 DEF ShowOwed, Shows
    <3> QED
      BY <3>4, <3>7, <3>8, OwedWrites
  <2>7. CASE D!Show(q)
    <3>1. PICK t \in Tickets : req[q].t = t /\ req[q].by \in Sides
      BY <1>0, <2>7 DEF D!Show, Names
    <3>2. PICK a \in Sides : a = D!Other(req[q].by)
      BY <3>1 DEF D!Other, Sides
    <3>3. PICK f : f = D!ShowUpTo(msgs[t], a, Len(msgs[t]))
      OBVIOUS
    <3>4. /\ f \in Seq(D!Message) /\ Len(f) = Len(msgs[t])
          /\ \A n \in 1 .. Len(f) : /\ f[n].author = msgs[t][n].author /\ f[n].seen = msgs[t][n].seen
                                    /\ (msgs[t][n].shown # "no" => f[n].shown # "no")
                                    /\ (msgs[t][n].author = a => f[n].shown # "no")
      BY <1>00, <3>3, Showing
    <3>5. msgs' = [msgs EXCEPT ![t] = f] /\ req' = [req EXCEPT ![q] = D!NoReq] /\ req[q].at = "show"
      BY <2>7, <3>1, <3>2, <3>3 DEF D!Show, D!Shown, D!End, D!Go, TicketInv, TicketTypes
    <3>6. ShowOwed(q, D!NoReq, t, f)
      BY <3>1, <3>2, <3>4 DEF Shows, ShowOwed
    <3> QED
      BY <1>0, <3>1, <3>4, <3>5, <3>6, OwedWrites
  <2>8. CASE D!Reply(q)
    <3>1. PICK t \in Tickets : req[q].t = t /\ req[q].by = "staff" /\ req[q].now \in 0 .. MaxTime
      BY <1>0, <2>8 DEF D!Reply, Names, AskType
    <3>2. PICK g : g = D!MarkSeen(msgs[t], "requester")
      OBVIOUS
    <3>3. /\ g \in Seq(D!Message) /\ Len(g) = Len(msgs[t])
          /\ \A n \in 1 .. Len(g) : /\ g[n].author = msgs[t][n].author
                                    /\ g[n].shown = msgs[t][n].shown /\ (msgs[t][n].author # "requester" => g[n].seen = msgs[t][n].seen)
      BY <1>00, <3>2, Marking DEF Sides
    <3>4. PICK f : f = Append(g, D!NewMessage("staff", req[q].now))
      OBVIOUS
    <3>5. /\ f \in Seq(D!Message) /\ Len(f) = Len(g) + 1 /\ ~ f[Len(f)].seen
          /\ \A n \in 1 .. Len(g) : f[n] = g[n]
      BY <3>1, <3>3, <3>4, Adding DEF Sides, D!NewMessage
    <3>6. PICK r \in AskType : r = [req[q] EXCEPT !.at = "show"]
      BY <1>0 DEF AskType
    <3>7. r.at = "show" /\ r.t = t /\ D!Other(r.by) = "requester"
      BY <1>0, <3>1, <3>6 DEF AskType, D!Other
    <3>8. msgs' = [msgs EXCEPT ![t] = f] /\ req' = [req EXCEPT ![q] = r] /\ req[q].at = "reply"
      BY <2>8, <3>1, <3>2, <3>4, <3>6 DEF D!Reply, D!Move, D!Go, TicketInv, TicketTypes
    <3>9. \A n \in 1 .. Len(f) : n \in 1 .. Len(msgs[t]) \/ n = Len(f)
      BY <1>00, <3>3, <3>5
    <3>10. ShowOwed(q, r, t, f)
      BY <3>3, <3>5, <3>7, <3>8, <3>9 DEF ShowOwed, Shows
    <3> QED
      BY <3>5, <3>8, <3>10, OwedWrites
  <2>9. CASE \E t \in Tickets, status \in D!Statuses : D!Patch(q, t, status)
    BY <1>1, <2>9 DEF D!Patch
  <2> QED
    BY <1>2, <2>1, <2>3, <2>4, <2>5, <2>6, <2>7, <2>8, <2>9 DEF D!Handler, Sides
<1>3. ASSUME NEW q \in Requests, D!Cut(q) PROVE ToShow'
  <2>1. req' = [req EXCEPT ![q] = D!NoReq]
    BY <1>3 DEF D!Cut, D!End, D!Go
  <2>2. CASE req[q].at # "show"
    BY <1>0, <1>3, <2>1, <2>2, OwedMoves DEF D!Cut
  <2>3. CASE req[q].at = "show"
    <3>1. PICK t \in Tickets : req[q].t = t /\ req[q].by \in Sides
      BY <1>0, <2>3 DEF Names
    <3>2. PICK a \in Sides : a = D!Other(req[q].by)
      BY <3>1 DEF D!Other, Sides
    <3>3. PICK f : f = D!LoseSeen(msgs[t], a)
      OBVIOUS
    <3>4. /\ f \in Seq(D!Message) /\ Len(f) = Len(msgs[t])
          /\ \A n \in 1 .. Len(f) : /\ f[n].author = msgs[t][n].author /\ f[n].seen = msgs[t][n].seen
                                    /\ (msgs[t][n].shown # "no" => f[n].shown # "no")
                                    /\ (msgs[t][n].author = a /\ msgs[t][n].seen => f[n].shown # "no")
      BY <1>00, <3>3, Losing
    <3>5. msgs' = [msgs EXCEPT ![t] = f]
      BY <1>3, <2>3, <3>1, <3>2, <3>3 DEF D!Cut
    <3>6. ShowOwed(q, D!NoReq, t, f)
      BY <3>1, <3>2, <3>4 DEF Shows, ShowOwed
    <3> QED
      BY <1>0, <2>1, <3>1, <3>4, <3>5, <3>6, OwedWrites
  <2> QED
    BY <2>2, <2>3
<1> QED
  BY <1>1, <1>2, <1>3 DEF D!Next, D!vars, D!List, D!Tick, D!HourPasses, D!Pause

-----------------------------------------------------------------------------
\* What was counted, with the requests that are past the count and have not written, stays within the limit
\* and one for each request beside one.
Inserting(d) == {q \in Requests : req[q].at = "insert" /\ req[q].by = d}
Writing(d) == {q \in Requests : req[q].at = "write" /\ req[q].by = d}
Beside == Cardinality(Requests) - 1
HoursOK == \A d \in Devices :
    /\ hour[d].tickets + Cardinality(Inserting(d)) <= MaxTickets + Beside
    /\ hour[d].messages + Cardinality(Writing(d)) <= MaxMessages + Beside + hour[d].tickets

LEMMA Counting ==
    (\A T : D!Cardinality(T) = Cardinality(T)) /\ (\A T : D!IsFiniteSet(T) <=> IsFiniteSet(T))
BY DEF D!Cardinality, Cardinality, D!IsFiniteSet, IsFiniteSet

LEMMA InHand ==
    ASSUME D!TicketsAssumption, NEW d
    PROVE  /\ Cardinality(Inserting(d)) \in Nat /\ Cardinality(Writing(d)) \in Nat
           /\ Cardinality(Inserting(d)) <= Cardinality(Requests) /\ Cardinality(Writing(d)) <= Cardinality(Requests)
           /\ IsFiniteSet(Inserting(d)) /\ IsFiniteSet(Writing(d))
           /\ Cardinality(Requests) \in Nat /\ Cardinality(Requests) >= 1
<1>1. IsFiniteSet(Requests) /\ Requests # {}
  BY Counting DEF D!TicketsAssumption
<1>2. Inserting(d) \subseteq Requests /\ Writing(d) \subseteq Requests
  BY DEF Inserting, Writing
<1>3. Cardinality(Requests) \in Nat /\ Cardinality(Requests) # 0
  BY <1>1, FS_CardinalityType, FS_EmptySet
<1> QED
  BY <1>1, <1>2, <1>3, FS_Subset, FS_CardinalityType

\* A request that does not get past a count moves, or is done with what it counted.
LEMMA HoursMove ==
    ASSUME D!TicketsAssumption, TicketInv, HoursOK, NEW q \in Requests, NEW r \in AskType, req' = [req EXCEPT ![q] = r],
           r.at \notin {"insert", "write"}, hour' \in [Devices -> [tickets : Nat, messages : Nat]],
           \A d \in Devices :
             \/ hour'[d] = hour[d]
             \/ /\ hour'[d].tickets = hour[d].tickets + 1 /\ hour'[d].messages = hour[d].messages + 1 /\ q \in Inserting(d)
             \/ /\ hour'[d].tickets = hour[d].tickets /\ hour'[d].messages = hour[d].messages + 1 /\ q \in Writing(d)
    PROVE  HoursOK'
<1> SUFFICES ASSUME NEW d \in Devices
             PROVE  /\ hour'[d].tickets + Cardinality(Inserting(d)') <= MaxTickets + Beside
                    /\ hour'[d].messages + Cardinality(Writing(d)') <= MaxMessages + Beside + hour'[d].tickets
  BY DEF HoursOK, Beside
<1>1. Inserting(d)' = Inserting(d) \ {q} /\ Writing(d)' = Writing(d) \ {q}
  BY DEF Inserting, Writing, TicketInv, TicketTypes
<1>2. /\ Cardinality(Inserting(d)') = IF q \in Inserting(d) THEN Cardinality(Inserting(d)) - 1 ELSE Cardinality(Inserting(d))
      /\ Cardinality(Writing(d)') = IF q \in Writing(d) THEN Cardinality(Writing(d)) - 1 ELSE Cardinality(Writing(d))
  BY <1>1, InHand, FS_RemoveElement
<1>3. /\ hour[d].tickets \in Nat /\ hour[d].messages \in Nat /\ hour'[d].tickets \in Nat /\ hour'[d].messages \in Nat
      /\ MaxTickets \in Nat /\ MaxMessages \in Nat /\ Beside \in Int
  <2>1. hour[d] \in [tickets : Nat, messages : Nat] /\ hour'[d] \in [tickets : Nat, messages : Nat]
    BY DEF TicketInv, TicketTypes
  <2>2. Beside \in Int
    BY InHand DEF Beside
  <2> QED
    BY <2>1, <2>2, Bounds
<1>4. ~ (q \in Inserting(d) /\ q \in Writing(d))
  BY DEF Inserting, Writing
<1>5. /\ hour[d].tickets + Cardinality(Inserting(d)) <= MaxTickets + Beside
      /\ hour[d].messages + Cardinality(Writing(d)) <= MaxMessages + Beside + hour[d].tickets
  BY DEF HoursOK
<1> QED
  BY <1>2, <1>3, <1>4, <1>5, InHand

\* One gets past a count: all of the requests may then be between that and their writes.
LEMMA HoursCounted ==
    ASSUME D!TicketsAssumption, TicketInv, HoursOK, NEW q \in Requests, NEW r \in AskType, req' = [req EXCEPT ![q] = r],
           UNCHANGED hour, req[q].at \in {"count", "check"}, r.by = req[q].by,
           \/ r.at = "insert" /\ hour[r.by].tickets < MaxTickets
           \/ r.at = "write" /\ hour[r.by].messages < MaxMessages
    PROVE  HoursOK'
<1> SUFFICES ASSUME NEW d \in Devices
             PROVE  /\ hour[d].tickets + Cardinality(Inserting(d)') <= MaxTickets + Beside
                    /\ hour[d].messages + Cardinality(Writing(d)') <= MaxMessages + Beside + hour[d].tickets
  BY DEF HoursOK, Beside
<1>1. /\ hour[d].tickets \in Nat /\ hour[d].messages \in Nat /\ MaxTickets \in Nat /\ MaxMessages \in Nat
      /\ Cardinality(Inserting(d)') \in Nat /\ Cardinality(Inserting(d)') <= Cardinality(Requests)
      /\ Cardinality(Writing(d)') \in Nat /\ Cardinality(Writing(d)') <= Cardinality(Requests)
      /\ Cardinality(Requests) \in Nat /\ Beside = Cardinality(Requests) - 1
  <2>1. Inserting(d)' \subseteq Requests /\ Writing(d)' \subseteq Requests /\ IsFiniteSet(Requests)
    BY Counting DEF Inserting, Writing, D!TicketsAssumption
  <2> QED
    BY <2>1, Bounds, FS_Subset, FS_CardinalityType DEF TicketInv, TicketTypes, Beside
<1>2. /\ (r.at = "insert" /\ r.by = d) \/ Inserting(d)' = Inserting(d)
      /\ (r.at = "write" /\ r.by = d) \/ Writing(d)' = Writing(d)
  BY DEF Inserting, Writing, TicketInv, TicketTypes
<1> QED
  BY <1>1, <1>2 DEF HoursOK

LEMMA HoursStep == ASSUME D!TicketsAssumption, TicketInv, HoursOK, [D!Next]_D!vars PROVE HoursOK'
<1>0. /\ TicketInv' /\ hour' \in [Devices -> [tickets : Nat, messages : Nat]]
      /\ \A d \in Devices : hour[d] \in [tickets : Nat, messages : Nat]
  BY TicketsStep DEF TicketInv, TicketTypes
<1>1. CASE UNCHANGED <<hour, req>>
  BY <1>1 DEF HoursOK, Inserting, Writing, Beside
<1>2. CASE D!HourPasses
  <2> SUFFICES ASSUME NEW d \in Devices
               PROVE  /\ hour'[d].tickets + Cardinality(Inserting(d)') <= MaxTickets + Beside
                      /\ hour'[d].messages + Cardinality(Writing(d)') <= MaxMessages + Beside + hour'[d].tickets
    BY DEF HoursOK, Beside
  <2>1. Inserting(d)' = {} /\ Writing(d)' = {} /\ hour'[d].tickets = 0 /\ hour'[d].messages = 0
    BY <1>2 DEF D!HourPasses, Inserting, Writing
  <2>2. Cardinality(Inserting(d)') = 0 /\ Cardinality(Writing(d)') = 0
    BY <2>1, FS_EmptySet
  <2> QED
    BY <2>1, <2>2, Bounds, InHand DEF Beside
<1>3. ASSUME NEW q \in Requests, D!Handler(q) \/ D!Cut(q) PROVE HoursOK'
  <2>0. req[q] \in AskType /\ Names(req[q]) /\ D!NoReq \in AskType /\ D!NoReq.at = "none"
    BY Ended DEF TicketInv, TicketTypes, D!NoReq
  <2>1. CASE \/ \E d \in Devices : D!BeginOpen(q, d)
             \/ \E t \in Tickets : \/ D!BeginMessage(q, t)
                                   \/ \E side \in Sides : D!BeginGet(q, t, side)
                                   \/ \E status \in D!Statuses : D!BeginReply(q, t, status)
             \/ D!Tell(q) \/ D!GetMark(q) \/ D!Show(q) \/ D!Reply(q) \/ D!Cut(q)
    <3>1. PICK r \in AskType : req' = [req EXCEPT ![q] = r] /\ r = req'[q]
      BY <1>0, <2>1 DEF TicketInv, TicketTypes, D!BeginOpen, D!BeginMessage, D!BeginGet, D!BeginReply, D!Tell, D!GetMark,
        D!Show, D!Reply, D!Cut, D!Go, D!End, D!Move
    <3>2. r.at \in {"count", "check", "mark", "reply", "none", "show"}
      <4>1. CASE \/ \E d \in Devices : D!BeginOpen(q, d)
                 \/ \E t \in Tickets : \/ D!BeginMessage(q, t)
                                       \/ \E side \in Sides : D!BeginGet(q, t, side)
                                       \/ \E status \in D!Statuses : D!BeginReply(q, t, status)
        BY <3>1, <4>1 DEF D!BeginOpen, D!BeginMessage, D!BeginGet, D!BeginReply, D!Go, D!NoReq, TicketInv, TicketTypes
      <4>2. CASE D!Tell(q) \/ D!GetMark(q) \/ D!Show(q) \/ D!Reply(q) \/ D!Cut(q)
        <5>1. r = D!NoReq \/ r = [req[q] EXCEPT !.at = "show"]
          BY <3>1, <4>2 DEF D!Tell, D!GetMark, D!Show, D!Reply, D!Cut, D!Go, D!End, D!Move, TicketInv, TicketTypes
        <5> QED
          BY <2>0, <5>1 DEF AskType
      <4> QED
        BY <2>1, <4>1, <4>2
    <3>3. UNCHANGED hour
      BY <2>1 DEF D!BeginOpen, D!BeginMessage, D!BeginGet, D!BeginReply, D!Tell, D!GetMark, D!Show, D!Reply, D!Cut
    <3> QED
      BY <1>0, <3>1, <3>2, <3>3, HoursMove
  <2>2. CASE D!OpenCount(q) \/ D!MessageCheck(q)
    <3>1. UNCHANGED hour /\ req[q].at \in {"count", "check"} /\ req[q].by \in Devices
      BY <2>0, <2>2 DEF D!OpenCount, D!MessageCheck, Names
    <3>2. CASE req' = [req EXCEPT ![q] = D!NoReq]
      BY <1>0, <2>0, <3>1, <3>2, HoursMove
    <3>3. CASE req' # [req EXCEPT ![q] = D!NoReq]
      <4>1. PICK r \in AskType : r = req'[q] /\ req' = [req EXCEPT ![q] = r]
        BY <1>0, <2>2 DEF D!OpenCount, D!MessageCheck, D!Now, D!End, D!Go, TicketInv, TicketTypes
      <4>2. \/ /\ r = [req[q] EXCEPT !.at = "insert", !.now = clock] /\ ~ (hour[req[q].by].tickets >= MaxTickets)
            \/ /\ r = [req[q] EXCEPT !.at = "write", !.now = clock] /\ ~ (hour[req[q].by].messages >= MaxMessages)
        BY <2>2, <3>3, <4>1 DEF D!OpenCount, D!MessageCheck, D!TooMany, D!Now, D!End, D!Go, TicketInv, TicketTypes
      <4>3. hour[req[q].by].tickets \in Nat /\ hour[req[q].by].messages \in Nat /\ MaxTickets \in Nat /\ MaxMessages \in Nat
        BY <1>0, <3>1, Bounds
      <4>4. r.by = req[q].by /\ \/ r.at = "insert" /\ hour[r.by].tickets < MaxTickets
                                \/ r.at = "write" /\ hour[r.by].messages < MaxMessages
        <5>1. PICK o \in AskType : o = req[q]
          BY <2>0
        <5>2. CASE r = [o EXCEPT !.at = "insert", !.now = clock] /\ ~ (hour[o.by].tickets >= MaxTickets)
          <6>1. r.at = "insert" /\ r.by = o.by
            BY <5>2 DEF AskType
          <6> QED
            BY <4>3, <5>1, <5>2, <6>1
        <5>3. CASE r = [o EXCEPT !.at = "write", !.now = clock] /\ ~ (hour[o.by].messages >= MaxMessages)
          <6>1. r.at = "write" /\ r.by = o.by
            BY <5>3 DEF AskType
          <6> QED
            BY <4>3, <5>1, <5>3, <6>1
        <5> QED
          BY <4>2, <5>1, <5>2, <5>3
      <4> QED
        BY <3>1, <4>1, <4>4, HoursCounted
    <3> QED
      BY <3>2, <3>3
  <2>3. CASE (\E t \in Tickets : D!OpenInsert(q, t)) \/ D!MessageWrite(q)
    <3>1. PICK r \in AskType : req' = [req EXCEPT ![q] = r] /\ r = req'[q] /\ r.at = "tell"
      <4>1. PICK r \in AskType : req' = [req EXCEPT ![q] = r] /\ r = req'[q]
        BY <1>0, <2>3 DEF TicketInv, TicketTypes, D!OpenInsert, D!MessageWrite, D!Go
      <4>2. PICK o \in AskType : o = req[q]
        BY <2>0
      <4>3. (\E t \in Tickets : r = [o EXCEPT !.at = "tell", !.t = t, !.len = 1]) \/ (\E len : r = [o EXCEPT !.at = "tell", !.len = len])
        BY <2>3, <4>1, <4>2 DEF TicketInv, TicketTypes, D!OpenInsert, D!MessageWrite, D!Go
      <4>4. r.at = "tell"
        BY <4>2, <4>3 DEF AskType
      <4> QED
        BY <4>1, <4>4
    <3>2. PICK d \in Devices : req[q].by = d
      BY <2>0, <2>3 DEF D!OpenInsert, D!MessageWrite, Names
    <3>3. \A x \in Devices : x # d => hour'[x] = hour[x]
      BY <2>3, <3>2 DEF D!OpenInsert, D!MessageWrite, TicketInv, TicketTypes
    <3>4. \/ /\ hour'[d].tickets = hour[d].tickets + 1 /\ hour'[d].messages = hour[d].messages + 1 /\ q \in Inserting(d)
          \/ /\ hour'[d].tickets = hour[d].tickets /\ hour'[d].messages = hour[d].messages + 1 /\ q \in Writing(d)
      <4>1. CASE \E t \in Tickets : D!OpenInsert(q, t)
        <5>1. hour' = [hour EXCEPT ![d].tickets = @ + 1, ![d].messages = @ + 1] /\ q \in Inserting(d)
          BY <3>2, <4>1 DEF D!OpenInsert, Inserting
        <5> QED
          BY <1>0, <5>1 DEF TicketInv, TicketTypes
      <4>2. CASE D!MessageWrite(q)
        <5>1. hour' = [hour EXCEPT ![d].messages = @ + 1] /\ q \in Writing(d)
          BY <3>2, <4>2 DEF D!MessageWrite, Writing
        <5> QED
          BY <1>0, <5>1 DEF TicketInv, TicketTypes
      <4> QED
        BY <2>3, <4>1, <4>2
    <3> QED
      BY <1>0, <3>1, <3>3, <3>4, HoursMove
  <2>4. CASE \E t \in Tickets, status \in D!Statuses : D!Patch(q, t, status)
    BY <1>1, <2>4 DEF D!Patch
  <2> QED
    BY <1>3, <2>1, <2>2, <2>3, <2>4 DEF D!Handler, Sides
<1> QED
  BY <1>1, <1>2, <1>3 DEF D!Next, D!vars, D!List, D!Pause, D!Tick

-----------------------------------------------------------------------------

\* A ticket says when it was finished exactly while it is resolved or closed, whatever requests overlap
\* (panel/routes/tickets.ts and ingest/index.ts write the status and the time together).
THEOREM TicketsFinishWhenSaid == ASSUME D!TicketsAssumption PROVE D!Spec => [](D!TypeOK /\ D!FinishedWhenSaid)
<1>1. TicketInv => D!TypeOK /\ D!FinishedWhenSaid
  BY DEF TicketInv, TicketTypes, D!TypeOK, AskType
<1>2. D!Init => TicketInv
  BY TicketsInit
<1>3. TicketInv /\ [D!Next]_D!vars => TicketInv'
  BY TicketsStep
<1> QED
  BY <1>1, <1>2, <1>3, PTL DEF D!Spec

\* Whatever requests overlap, are refused or are cut short: what is marked as seen was shown to the other
\* side, or is in the answer of a request that was cut short (getTicket of the ingest and of the panel).
THEOREM SeenIsShown == ASSUME D!TicketsAssumption PROVE D!Spec => []D!SeenWasShown
<1>1. D!Init => TicketInv /\ ToShow
  <2> SUFFICES ASSUME D!Init PROVE ToShow
    BY TicketsInit
  <2>1. Len(<< >>) = 0
    BY EmptySeq
  <2>2. \A t \in Tickets : 1 .. Len(msgs[t]) = {}
    BY <2>1 DEF D!Init
  <2> QED
    BY <2>2 DEF ToShow
<1>2. (TicketInv /\ ToShow) /\ [D!Next]_D!vars => (TicketInv /\ ToShow)'
  BY TicketsStep, OwedStep
<1>3. TicketInv /\ ToShow => D!SeenWasShown
  <2> SUFFICES ASSUME TicketInv, ToShow, D!Quiet, NEW t \in Tickets, NEW n \in DOMAIN msgs[t]
               PROVE  msgs[t][n].seen => msgs[t][n].shown # "no"
    BY DEF D!SeenWasShown
  <2>1. n \in 1 .. Len(msgs[t]) /\ msgs[t][n] \in D!Message
    BY LenProperties, ElementOfSeq DEF TicketInv, TicketTypes
  <2>2. PICK a \in Sides : msgs[t][n].author = a
    BY <2>1 DEF D!Message, Sides
  <2> QED
    BY <2>1, <2>2 DEF ToShow, Shows, D!Quiet
<1> QED
  BY <1>1, <1>2, <1>3, PTL DEF D!Spec

\* Whatever requests overlap, an installation is over its hourly limits by at most one for each request
\* beside one (the counts of POST /tickets and POST /tickets/:ticketId/messages are not of the inserts).
THEOREM LimitsAreNear == ASSUME D!TicketsAssumption PROVE D!Spec => []D!HourlyLimits
<1>1. D!Init => TicketInv /\ HoursOK
  <2> SUFFICES ASSUME D!Init, NEW d \in Devices
               PROVE  /\ hour[d].tickets + Cardinality(Inserting(d)) <= MaxTickets + Beside
                      /\ hour[d].messages + Cardinality(Writing(d)) <= MaxMessages + Beside + hour[d].tickets
    BY TicketsInit DEF HoursOK
  <2>1. Inserting(d) = {} /\ Writing(d) = {} /\ hour[d].tickets = 0 /\ hour[d].messages = 0
    BY DEF D!Init, D!NoReq, Inserting, Writing
  <2>2. Cardinality(Inserting(d)) = 0 /\ Cardinality(Writing(d)) = 0
    BY <2>1, FS_EmptySet
  <2> QED
    BY <2>1, <2>2, Bounds, InHand DEF Beside
<1>2. (TicketInv /\ HoursOK) /\ [D!Next]_D!vars => (TicketInv /\ HoursOK)'
  BY TicketsStep, HoursStep
<1>3. ASSUME D!TicketsAssumption, TicketInv, HoursOK PROVE D!HourlyLimits
  <2> SUFFICES ASSUME NEW d \in Devices
               PROVE  /\ hour[d].tickets <= MaxTickets + Beside
                      /\ hour[d].messages <= MaxMessages + Beside + hour[d].tickets
    BY Counting DEF D!HourlyLimits, Beside
  <2>1. hour[d].tickets \in Nat /\ hour[d].messages \in Nat /\ MaxTickets \in Nat /\ MaxMessages \in Nat /\ Beside \in Int
    <3>1. hour[d] \in [tickets : Nat, messages : Nat]
      BY <1>3 DEF TicketInv, TicketTypes
    <3>2. Beside \in Int
      BY InHand DEF Beside
    <3> QED
      BY <3>1, <3>2, Bounds
  <2>2. /\ hour[d].tickets + Cardinality(Inserting(d)) <= MaxTickets + Beside
        /\ hour[d].messages + Cardinality(Writing(d)) <= MaxMessages + Beside + hour[d].tickets
    BY <1>3 DEF HoursOK
  <2> QED
    BY <2>1, <2>2, InHand
<1>4. TicketInv /\ HoursOK => D!HourlyLimits
  BY <1>3
<1> QED
  BY <1>1, <1>2, <1>4, PTL DEF D!Spec


-----------------------------------------------------------------------------
(* Maintenances *)

\* The row and the requests are records; the windows they carry are not looked into here.
RowFields == {"status", "kind", "sends", "sentAt", "chosen", "reminded"}
CallFields == {"duty", "at", "was", "sends", "when", "win", "kind", "link"}
Schedules == {"approve", "apply", "security"}

\* Who is about to schedule the maintenance read that it was not scheduled.
ApprovalInv ==
    /\ row = [f \in RowFields |-> row[f]]
    /\ req = [q \in Reqs \cup {Cron} |-> req[q]]
    /\ \A q \in Reqs \cup {Cron} : /\ req[q] = [f \in CallFields |-> req[q][f]]
                                   /\ req[q].duty \in Schedules => req[q].was # "scheduled"

LEMMA ApprovalInit == M!Init => ApprovalInv
<1> SUFFICES ASSUME M!Init PROVE ApprovalInv
  OBVIOUS
<1>1. row = [f \in RowFields |-> row[f]]
  BY DEF M!Init, RowFields
<1>2. M!NoReq = [f \in CallFields |-> M!NoReq[f]] /\ M!NoReq.duty = "none"
  BY DEF M!NoReq, M!Blank, CallFields
<1> QED
  BY <1>1, <1>2 DEF M!Init, ApprovalInv, Schedules

\* What a request that asks anew carries.
LEMMA Asked ==
    ASSUME NEW duty, NEW y, y = M!Ask(duty)
    PROVE  y = [f \in CallFields |-> y[f]] /\ y.duty = duty /\ y.was = row.status
<1>1. PICK k : M!NoReq = M!Blank(k)
  BY DEF M!NoReq
<1>2. M!NoReq = [f \in CallFields |-> M!NoReq[f]]
  BY <1>1 DEF M!Blank, CallFields
<1>3. y = [M!NoReq EXCEPT !.duty = duty, !.at = "read", !.was = row.status, !.sends = row.sends, !.when = now]
  BY DEF M!Ask
<1>4. y = [f \in CallFields |-> y[f]]
  BY <1>2, <1>3
<1>5. y.duty = duty /\ y.was = row.status
  BY <1>2, <1>3 DEF CallFields
<1> QED
  BY <1>4, <1>5

\* A request begins.
LEMMA ApprovalBegins ==
    ASSUME ApprovalInv, NEW q \in Reqs \cup {Cron}, NEW y, M!Begin(q, y),
           y = [f \in CallFields |-> y[f]], y.duty \in Schedules => y.was # "scheduled"
    PROVE  ApprovalInv'
BY DEF ApprovalInv, M!Begin

\* A request goes on, or ends.
LEMMA ApprovalGoes ==
    ASSUME ApprovalInv, NEW q \in Reqs \cup {Cron},
           row' = [f \in RowFields |-> row'[f]],
           \/ UNCHANGED req
           \/ M!End(q)
           \/ \E at : req' = [req EXCEPT ![q].at = at]
           \/ \E at, link : req' = [req EXCEPT ![q].at = at, ![q].link = link]
    PROVE  ApprovalInv'
<1>1. CASE UNCHANGED req
  BY <1>1 DEF ApprovalInv
<1>2. CASE M!End(q)
  <2>1. M!NoReq = [f \in CallFields |-> M!NoReq[f]] /\ M!NoReq.duty = "none"
    BY DEF M!NoReq, M!Blank, CallFields
  <2> QED
    BY <1>2, <2>1 DEF ApprovalInv, M!End, Schedules
<1>3. ASSUME NEW y, y = [f \in CallFields |-> y[f]], y.duty = req[q].duty, y.was = req[q].was, req' = [req EXCEPT ![q] = y]
      PROVE  ApprovalInv'
  BY <1>3 DEF ApprovalInv
<1>4. ASSUME NEW at, req' = [req EXCEPT ![q].at = at] PROVE ApprovalInv'
  <2>1. PICK y : y = [req[q] EXCEPT !.at = at]
    OBVIOUS
  <2>2. y = [f \in CallFields |-> y[f]] /\ y.duty = req[q].duty /\ y.was = req[q].was
    <3>1. PICK o : o = req[q] /\ o = [f \in CallFields |-> o[f]]
      BY DEF ApprovalInv
    <3>2. y = [f \in CallFields |-> y[f]]
      BY <2>1, <3>1
    <3>3. y.duty = o.duty /\ y.was = o.was
      BY <2>1, <3>1 DEF CallFields
    <3> QED
      BY <3>1, <3>2, <3>3
  <2> QED
    BY <1>3, <1>4, <2>1, <2>2
<1>5. ASSUME NEW at, NEW link, req' = [req EXCEPT ![q].at = at, ![q].link = link] PROVE ApprovalInv'
  <2>1. PICK y : y = [req[q] EXCEPT !.at = at, !.link = link]
    OBVIOUS
  <2>2. y = [f \in CallFields |-> y[f]] /\ y.duty = req[q].duty /\ y.was = req[q].was
    <3>1. PICK o : o = req[q] /\ o = [f \in CallFields |-> o[f]]
      BY DEF ApprovalInv
    <3>2. y = [f \in CallFields |-> y[f]]
      BY <2>1, <3>1
    <3>3. y.duty = o.duty /\ y.was = o.was
      BY <2>1, <3>1 DEF CallFields
    <3> QED
      BY <3>1, <3>2, <3>3
  <2>3. req' = [req EXCEPT ![q] = y]
    BY <1>5, <2>1 DEF ApprovalInv
  <2> QED
    BY <1>3, <2>2, <2>3
<1> QED
  BY <1>1, <1>2, <1>4, <1>5

LEMMA ApprovalStep == ApprovalInv /\ [M!Next]_M!vars => ApprovalInv'
<1> SUFFICES ASSUME ApprovalInv, [M!Next]_M!vars PROVE ApprovalInv'
  OBVIOUS
<1>0. row = [f \in RowFields |-> row[f]]
  BY DEF ApprovalInv
<1>1. CASE UNCHANGED <<row, req>>
  BY <1>1 DEF ApprovalInv
<1>2. ASSUME NEW q \in Reqs,
             \/ M!BeginWindow(q, "add") \/ M!BeginWindow(q, "move") \/ M!BeginRemove(q) \/ M!BeginPatch(q)
             \/ M!BeginDelete(q) \/ M!BeginSend(q) \/ M!BeginSecurity(q) \/ M!BeginCancel(q)
             \/ M!BeginAnswer(q, "approve") \/ M!BeginAnswer(q, "reject")
      PROVE  ApprovalInv'
  <2>1. CASE M!BeginWindow(q, "add") \/ M!BeginWindow(q, "move")
    <3>0. PICK duty \in {"add", "move"} : M!BeginWindow(q, duty)
      BY <2>1
    <3>1. PICK w : M!Begin(q, [M!Ask(duty) EXCEPT !.win = w])
      BY <3>0 DEF M!BeginWindow
    <3>2. PICK y : y = [M!Ask(duty) EXCEPT !.win = w]
      OBVIOUS
    <3>3. y = [f \in CallFields |-> y[f]] /\ y.duty = duty
      BY <3>2, Asked DEF CallFields
    <3> QED
      BY <3>1, <3>2, <3>3, ApprovalBegins DEF Schedules
  <2>2. CASE M!BeginRemove(q)
    <3>1. PICK w : M!Begin(q, [M!Ask("remove") EXCEPT !.win = w])
      BY <2>2 DEF M!BeginRemove
    <3>2. PICK y : y = [M!Ask("remove") EXCEPT !.win = w]
      OBVIOUS
    <3>3. y = [f \in CallFields |-> y[f]] /\ y.duty = "remove"
      BY <3>2, Asked DEF CallFields
    <3> QED
      BY <3>1, <3>2, <3>3, ApprovalBegins DEF Schedules
  <2>3. CASE M!BeginPatch(q)
    <3>1. PICK k : M!Begin(q, [M!Ask("patch") EXCEPT !.kind = k])
      BY <2>3 DEF M!BeginPatch
    <3>2. PICK y : y = [M!Ask("patch") EXCEPT !.kind = k]
      OBVIOUS
    <3>3. y = [f \in CallFields |-> y[f]] /\ y.duty = "patch"
      BY <3>2, Asked DEF CallFields
    <3> QED
      BY <3>1, <3>2, <3>3, ApprovalBegins DEF Schedules
  <2>4. CASE M!BeginDelete(q) \/ M!BeginSend(q) \/ M!BeginCancel(q)
    <3>1. PICK duty \in {"delete", "send", "cancel"} : M!Begin(q, M!Ask(duty))
      BY <2>4 DEF M!BeginDelete, M!BeginSend, M!BeginCancel
    <3> QED
      BY <3>1, Asked, ApprovalBegins DEF Schedules
  <2>5. CASE M!BeginSecurity(q)
    <3>1. PICK w : M!Begin(q, [M!Ask("security") EXCEPT !.win = w])
      BY <2>5 DEF M!BeginSecurity
    <3>2. PICK y : y = [M!Ask("security") EXCEPT !.win = w]
      OBVIOUS
    <3>3. y = [f \in CallFields |-> y[f]] /\ y.was = row.status
      BY <3>2, Asked DEF CallFields
    <3>4. row.status # "scheduled"
      BY <2>5 DEF M!BeginSecurity, M!Editable, M!Idle
    <3> QED
      BY <3>1, <3>2, <3>3, <3>4, ApprovalBegins
  <2>6. CASE M!BeginAnswer(q, "approve") \/ M!BeginAnswer(q, "reject")
    <3>1. PICK duty \in {"approve", "reject"} : M!BeginAnswer(q, duty)
      BY <2>6
    <3>2. row.status # "scheduled"
      BY <3>1 DEF M!BeginAnswer, M!LinkState
    <3>3. \/ \E i : M!Begin(q, [M!Ask(duty) EXCEPT !.link = i])
          \/ \E i, w : M!Begin(q, [M!Ask(duty) EXCEPT !.link = i, !.win = w])
      BY <3>1 DEF M!BeginAnswer
    <3>4. ASSUME NEW i, M!Begin(q, [M!Ask(duty) EXCEPT !.link = i]) PROVE ApprovalInv'
      <4>1. PICK y : y = [M!Ask(duty) EXCEPT !.link = i]
        OBVIOUS
      <4>2. y = [f \in CallFields |-> y[f]] /\ y.was = row.status
        BY <4>1, Asked DEF CallFields
      <4> QED
        BY <3>2, <3>4, <4>1, <4>2, ApprovalBegins
    <3>5. ASSUME NEW i, NEW w, M!Begin(q, [M!Ask(duty) EXCEPT !.link = i, !.win = w]) PROVE ApprovalInv'
      <4>1. PICK y : y = [M!Ask(duty) EXCEPT !.link = i, !.win = w]
        OBVIOUS
      <4>2. PICK o : o = M!Ask(duty) /\ o = [f \in CallFields |-> o[f]] /\ o.was = row.status
        BY Asked
      <4>3. y = [f \in CallFields |-> y[f]]
        BY <4>1, <4>2
      <4>4. y.was = row.status
        BY <4>1, <4>2 DEF CallFields
      <4> QED
        BY <3>2, <3>5, <4>1, <4>3, <4>4, ApprovalBegins
    <3> QED
      BY <3>3, <3>4, <3>5
  <2> QED
    BY <1>2, <2>1, <2>2, <2>3, <2>4, <2>5, <2>6
<1>3. CASE M!Run
  <2>1. ASSUME NEW duty, duty \notin Schedules, M!Begin(Cron, M!Ask(duty)) PROVE ApprovalInv'
    BY <2>1, Asked, ApprovalBegins
  <2>2. ASSUME NEW w, row.status = "pending_approval", M!Begin(Cron, [M!Ask("apply") EXCEPT !.win = w]) PROVE ApprovalInv'
    <3>1. PICK y : y = [M!Ask("apply") EXCEPT !.win = w]
      OBVIOUS
    <3>2. y = [f \in CallFields |-> y[f]] /\ y.was = row.status
      BY <3>1, Asked DEF CallFields
    <3> QED
      BY <2>2, <3>1, <3>2, ApprovalBegins
  <2>3. CASE row.status = "pending_approval"
    <3>1. PICK r \in M!CronPending : M!Begin(Cron, r)
      BY <1>3, <2>3 DEF M!Run
    <3>2. \/ r \in {M!Ask("cancel"), M!Ask("no_response"), M!Ask("send")}
          \/ \E w : r = [M!Ask("apply") EXCEPT !.win = w]
      BY <3>1 DEF M!CronPending
    <3> QED
      BY <2>1, <2>2, <2>3, <3>1, <3>2 DEF Schedules
  <2>4. CASE row.status # "pending_approval"
    <3>1. PICK r : M!Begin(Cron, r) /\ \E w : r \in M!CronScheduled(w) \cup {M!Ask("finish")}
      BY <1>3, <2>4 DEF M!Run
    <3>2. r \in {M!Ask("cancel"), M!Ask("start"), M!Ask("remind"), M!Ask("finish")}
      BY <3>1 DEF M!CronScheduled
    <3> QED
      BY <2>1, <3>1, <3>2 DEF Schedules
  <2> QED
    BY <2>3, <2>4
<1>4. ASSUME NEW q \in Reqs \cup {Cron}, M!Continue(q) PROVE ApprovalInv'
  <2>1. row' = [f \in RowFields |-> row'[f]]
    <3>1. CASE M!Patch(q)
      BY <1>0, <3>1 DEF M!Patch, RowFields
    <3>2. CASE M!Delete(q)
      BY <1>0, <3>2 DEF M!Delete, RowFields
    <3>3. CASE M!Sent(q)
      BY <1>0, <3>3 DEF M!Sent, RowFields
    <3>4. CASE M!Write(q)
      BY <1>0, <3>4 DEF M!Write, RowFields
    <3> QED
      BY <1>0, <1>4, <3>1, <3>2, <3>3, <3>4
         DEF M!Continue, M!AddWindow, M!MoveWindow, M!RemoveWindow, M!Mail, M!ReplaceWindows, M!Close
  <2>2. \/ UNCHANGED req
        \/ M!End(q)
        \/ \E at : req' = [req EXCEPT ![q].at = at]
        \/ \E at, link : req' = [req EXCEPT ![q].at = at, ![q].link = link]
    BY <1>4 DEF M!Continue, M!AddWindow, M!MoveWindow, M!RemoveWindow, M!Patch, M!Delete, M!Mail, M!Sent, M!ReplaceWindows, M!Write, M!Close
  <2> QED
    BY <2>1, <2>2, ApprovalGoes
<1> QED
  BY <1>1, <1>2, <1>3, <1>4 DEF M!Next, M!vars, M!SetPause, M!Tick, M!List

\* Two answers, or an answer, the cron and the panel, schedule a maintenance once: while it is scheduled,
\* its window is not chosen again, whichever requests overlap (services/maintenances.ts).
THEOREM AnswersScheduleOnce == M!Spec => [][M!ScheduledOnce]_M!vars
<1>1. ApprovalInv /\ [M!Next]_M!vars => [M!ScheduledOnce]_M!vars
  <2> SUFFICES ASSUME ApprovalInv, M!Next, row.status = "scheduled", row'.status = "scheduled"
               PROVE  row'.chosen = row.chosen
    BY DEF M!ScheduledOnce
  <2>0. row = [f \in RowFields |-> row[f]]
    BY DEF ApprovalInv
  <2>1. CASE UNCHANGED row
    BY <2>1
  <2>2. ASSUME NEW q \in Reqs \cup {Cron}, M!Patch(q) \/ M!Delete(q) \/ M!Sent(q) PROVE row'.chosen = row.chosen
    BY <2>0, <2>2 DEF M!Patch, M!Delete, M!Sent, RowFields
  <2>3. ASSUME NEW q \in Reqs \cup {Cron}, M!Write(q) PROVE row'.chosen = row.chosen
    <3>1. req[q].duty \in Schedules => req[q].was # "scheduled"
      BY DEF ApprovalInv
    <3> QED
      BY <2>0, <2>3, <3>1 DEF M!Write, M!Unmoved, RowFields, Schedules
  <2> QED
    BY <2>1, <2>2, <2>3 DEF M!Next, M!Continue, M!SetPause, M!Tick, M!List, M!vars, M!Run, M!Begin, M!BeginWindow, M!BeginRemove, M!BeginPatch,
       M!BeginDelete, M!BeginSend, M!BeginSecurity, M!BeginCancel, M!BeginAnswer,
       M!AddWindow, M!MoveWindow, M!RemoveWindow, M!Mail, M!ReplaceWindows, M!Close
<1> QED
  BY <1>1, ApprovalInit, ApprovalStep, PTL DEF M!Spec

-----------------------------------------------------------------------------
(* Contracts and their cycles *)

Kept == [ends : Nat, cancelled : Nat, rollover : BOOLEAN]
CycleFields == {"ends", "included", "carried", "status", "used", "expired"}
SyncFields == {"duty", "at", "day", "contract", "latest", "row", "used", "log", "new", "entry", "steps"}

\* The cycles of a contract follow one another from its first day: each ends where the next one starts, and
\* only the last may be open.
Chain ==
    /\ cycles = [s \in DOMAIN cycles |-> cycles[s]] /\ DOMAIN cycles \subseteq Nat
    /\ \A s \in DOMAIN cycles : /\ cycles[s] = [f \in CycleFields |-> cycles[s][f]]
                                /\ cycles[s].ends \in Nat /\ s < cycles[s].ends
    /\ \A s, t \in DOMAIN cycles : s < t =>
           cycles[s].ends <= t /\ cycles[s].status # "open" /\ cycles[s].ends \in DOMAIN cycles
    /\ DOMAIN cycles # {} => 0 \in DOMAIN cycles /\ \E m \in DOMAIN cycles : \A s \in DOMAIN cycles : s <= m
    /\ contract = C!Gone => DOMAIN cycles = {}

\* A request is at a cycle there is, and what it read of one that was closed still holds.
Syncs(r) ==
    r.at \in {"step", "usage", "close"} =>
        /\ r.latest = -1 => r.at = "step"
        /\ r.latest # -1 /\ contract # C!Gone =>
             /\ r.latest \in DOMAIN cycles
             /\ r.row.status # "open" => cycles[r.latest].status # "open" /\ r.row.ends = cycles[r.latest].ends

\* What a request carries from one statement to the next.
Carries(r) ==
    /\ r = [f \in SyncFields |-> r[f]]
    /\ r.contract \in Kept \cup {C!Gone}
    /\ r.duty \in {"end", "rollover"} => r.new \in Kept

CyclesInv ==
    /\ day \in Nat /\ contract \in Kept \cup {C!Gone}
    /\ req = [q \in Requests |-> req[q]]
    /\ \A q \in Requests : Carries(req[q]) /\ Syncs(req[q])
    /\ Chain

-----------------------------------------------------------------------------
LEMMA CycleBounds == ASSUME C!CyclesAssumption PROVE Period \in Nat /\ Period > 0 /\ Horizon \in Nat /\ C!Forever \in Nat /\ C!Never \in Nat
BY DEF C!CyclesAssumption, C!Forever, C!Never

LEMMA CycleIdle == Carries(C!NoReq) /\ Syncs(C!NoReq) /\ C!NoReq = [f \in SyncFields |-> C!NoReq[f]]
<1>1. C!NoReq = [f \in SyncFields |-> C!NoReq[f]]
  BY DEF C!NoReq, SyncFields
<1>2. C!NoReq.at = "none" /\ C!NoReq.duty = "none" /\ C!NoReq.contract = C!Gone
  BY DEF C!NoReq
<1> QED
  BY <1>1, <1>2 DEF Carries, Syncs

LEMMA CyclesInit == ASSUME C!CyclesAssumption, C!Init PROVE CyclesInv
<1>1. contract \in Kept
  BY CycleBounds DEF C!Init, Kept
<1>2. DOMAIN cycles = {} /\ cycles = [s \in DOMAIN cycles |-> cycles[s]]
  BY DEF C!Init
<1>3. Chain
  BY <1>2 DEF Chain
<1> QED
  BY <1>1, <1>3, CycleIdle DEF C!Init, CyclesInv

\* A closed cycle is never changed but to be billed, and no cycle goes, while there is a contract.
Lasting ==
    /\ contract = C!Gone => contract' = C!Gone
    /\ contract' # C!Gone => \A s \in DOMAIN cycles :
         /\ s \in DOMAIN cycles'
         /\ cycles[s].status # "open" =>
              cycles'[s].status # "open" /\ \A f \in CycleFields \ {"status"} : cycles'[s][f] = cycles[s][f]

\* What a step of one request needs.
LEMMA CyclesGo ==
    ASSUME CyclesInv, NEW q \in Requests, NEW y, req' = [req EXCEPT ![q] = y], Carries(y), Syncs(y)',
           day' \in Nat, contract' \in Kept \cup {C!Gone}, Chain', Lasting
    PROVE  CyclesInv'
<1>1. req' = [p \in Requests |-> req'[p]]
  BY DEF CyclesInv
<1>2. ASSUME NEW p \in Requests PROVE Carries(req[p])' /\ Syncs(req[p])'
  <2>1. CASE p = q
    <3>1. req'[p] = y
      BY <2>1 DEF CyclesInv
    <3> QED
      BY <3>1 DEF Carries, Syncs
  <2>2. CASE p # q
    <3>1. PICK z : z = req[p] /\ req'[p] = z
      BY <2>2 DEF CyclesInv
    <3>2. Carries(z) /\ Syncs(z)
      BY <3>1 DEF CyclesInv
    <3>3. Syncs(z)'
      BY <3>2, "ends" \in CycleFields \ {"status"} DEF Syncs, Lasting, CycleFields
    <3> QED
      BY <3>1, <3>2, <3>3 DEF Carries, Syncs
  <2> QED
    BY <2>1, <2>2
<1> QED
  BY <1>1, <1>2 DEF CyclesInv

\* What a step that reads needs.
LEMMA CyclesRead ==
    ASSUME CyclesInv, NEW q \in Requests, NEW y, req' = [req EXCEPT ![q] = y], Carries(y), Syncs(y),
           UNCHANGED <<day, contract, cycles>>
    PROVE  CyclesInv'
<1>1. Chain' /\ Lasting /\ Syncs(y)'
  BY DEF CyclesInv, Chain, Lasting, Syncs
<1> QED
  BY <1>1, CyclesGo DEF CyclesInv

\* A period that a day falls in ends after it.
LEMMA Periods ==
    ASSUME C!CyclesAssumption, NEW d \in Nat, NEW last \in Int, NEW b \in C!OpeningOn(d, last)
    PROVE  b.ends \in Nat /\ d < b.ends
<1>1. Period \in Nat /\ Period > 0
  BY CycleBounds
<1>2. PICK c \in C!Containing(d, last) : b.ends = c.ends
  BY DEF C!OpeningOn
<1>3. ~ (d > last) /\ c.ends = C!Least(Period * (d \div Period) + Period, last + 1)
  BY <1>2 DEF C!Containing
<1>4. (d \div Period) \in Nat /\ d < Period * (d \div Period) + Period /\ Period * (d \div Period) \in Nat
  BY <1>1
<1> QED
  BY <1>1, <1>2, <1>3, <1>4 DEF C!Least

LEMMA LastDays == ASSUME NEW k \in Kept \cup {C!Gone} PROVE C!LastDay(k) \in Int
BY DEF C!LastDay, C!Least, Kept, C!Gone

LEMMA Moved ==
    ASSUME C!CyclesAssumption, NEW k \in Kept \cup {C!Gone}, NEW s \in Nat, NEW c, NEW e \in C!FollowedEnd(k, s, c)
    PROVE  e \in Nat /\ s < e
<1>1. Period \in Nat /\ Period > 0
  BY CycleBounds
<1>2. PICK x \in C!Containing(s, C!LastDay(k)) : e = x.ends /\ x.ends > s
  BY DEF C!FollowedEnd
<1>3. x.ends = C!Least(Period * (s \div Period) + Period, C!LastDay(k) + 1)
  BY <1>2 DEF C!Containing
<1>4. C!LastDay(k) \in Int /\ Period * (s \div Period) \in Int
  BY <1>1, LastDays
<1> QED
  BY <1>1, <1>2, <1>3, <1>4 DEF C!Least

\* The latest cycle is one there is, unless there is none.
LEMMA Latests == ASSUME CyclesInv PROVE (DOMAIN cycles = {} /\ C!Latest = -1) \/ C!Latest \in DOMAIN cycles
<1>1. CASE DOMAIN cycles = {}
  <2>1. cycles = << >>
    BY <1>1 DEF CyclesInv, Chain
  <2> QED
    BY <1>1, <2>1 DEF C!Latest
<1>2. CASE DOMAIN cycles # {}
  <2>1. cycles # << >>
    BY <1>2
  <2>2. \E m \in DOMAIN cycles : \A s \in DOMAIN cycles : m >= s
    BY <1>2 DEF CyclesInv, Chain
  <2>3. C!Max(DOMAIN cycles) \in DOMAIN cycles
    BY <2>2 DEF C!Max
  <2> QED
    BY <2>1, <2>3 DEF C!Latest
<1> QED
  BY <1>1, <1>2

\* A request begins.
LEMMA CyclesBegin ==
    ASSUME CyclesInv, NEW q \in Requests, NEW duty, NEW entry, NEW log, NEW new, C!Begin(q, duty, entry, log, new),
           duty \in {"end", "rollover"} => new \in Kept, UNCHANGED <<day, contract, cycles>>
    PROVE  CyclesInv'
<1>1. PICK y : y = [C!NoReq EXCEPT !.duty = duty, !.at = "latest", !.day = day, !.contract = contract, !.entry = entry, !.log = log, !.new = new]
  OBVIOUS
<1>2. y = [f \in SyncFields |-> y[f]]
  BY <1>1, CycleIdle
<1>3. y.duty = duty /\ y.at = "latest" /\ y.contract = contract /\ y.new = new
  BY <1>1, CycleIdle DEF SyncFields
<1>4. Carries(y) /\ Syncs(y)
  BY <1>2, <1>3 DEF Carries, Syncs, CyclesInv
<1>5. req' = [req EXCEPT ![q] = y]
  BY <1>1 DEF C!Begin
<1> QED
  BY <1>4, <1>5, CyclesRead

\* Begins, and what only reads.
LEMMA CyclesBegins ==
    ASSUME C!CyclesAssumption, CyclesInv, NEW q \in Requests,
           C!BeginView(q) \/ C!BeginLog(q) \/ C!BeginEdit(q) \/ C!BeginUnlog(q) \/ C!BeginDelete(q)
    PROVE  CyclesInv'
<1>1. CASE C!BeginView(q)
  <2>1. PICK duty \in {"view", "list"} : C!Begin(q, duty, "none", C!NoLog, C!Gone)
    BY <1>1 DEF C!BeginView
  <2> QED
    BY <1>1, <2>1, CyclesBegin DEF C!BeginView
<1>2. CASE C!BeginLog(q)
  <2>1. PICK e, l : C!Begin(q, "log", e, l, C!Gone)
    BY <1>2 DEF C!BeginLog
  <2> QED
    BY <1>2, <2>1, CyclesBegin DEF C!BeginLog
<1>3. CASE C!BeginEdit(q)
  <2>1. contract # C!Gone
    BY <1>3 DEF C!BeginEdit, C!Begin
  <2>2. contract \in Kept /\ UNCHANGED <<day, contract, cycles>>
    BY <1>3, <2>1 DEF CyclesInv, C!BeginEdit
  <2>3. ASSUME NEW e \in C!Days \cup {C!Forever}, C!Begin(q, "end", "none", C!NoLog, [contract EXCEPT !.ends = e]) PROVE CyclesInv'
    <3>1. e \in Nat
      BY CycleBounds DEF C!Days
    <3>2. [contract EXCEPT !.ends = e] \in Kept
      BY <2>2, <3>1 DEF Kept
    <3> QED
      BY <2>2, <2>3, <3>2, CyclesBegin
  <2>4. ASSUME C!Begin(q, "rollover", "none", C!NoLog, [contract EXCEPT !.rollover = ~ @]) PROVE CyclesInv'
    <3>1. [contract EXCEPT !.rollover = ~ @] \in Kept
      <4>1. PICK b \in BOOLEAN : b = contract.rollover
        BY <2>2 DEF Kept
      <4>2. (~ b) \in BOOLEAN
        BY <4>1
      <4> QED
        BY <2>2, <4>1, <4>2 DEF Kept
    <3> QED
      BY <2>2, <2>4, <3>1, CyclesBegin
  <2> QED
    BY <1>3, <2>3, <2>4 DEF C!BeginEdit
<1>4. CASE C!BeginUnlog(q)
  <2>1. PICK e : C!Begin(q, "unlog", e, C!NoLog, C!Gone)
    BY <1>4 DEF C!BeginUnlog
  <2> QED
    BY <1>4, <2>1, CyclesBegin DEF C!BeginUnlog
<1>5. CASE C!BeginDelete(q)
  BY <1>5, CyclesBegin DEF C!BeginDelete
<1> QED
  BY <1>1, <1>2, <1>3, <1>4, <1>5

\* What ends, or files and unfiles entries.
LEMMA CyclesEnd ==
    ASSUME CyclesInv, NEW q \in Requests,
           C!File(q) \/ C!Unlog(q) \/ C!Answer(q) \/ C!Resolve(q) \/ C!ReadUsage(q) \/ C!ReadLatest(q)
    PROVE  CyclesInv'
<1>0. PICK o : o = req[q] /\ Carries(o) /\ Syncs(o) /\ o = [f \in SyncFields |-> o[f]]
  BY DEF CyclesInv, Carries
<1>1. UNCHANGED <<day, contract, cycles>>
  BY DEF C!File, C!Unlog, C!Answer, C!Resolve, C!ReadUsage, C!ReadLatest
<1>2. CASE C!End(q)
  BY <1>1, <1>2, CycleIdle, CyclesRead DEF C!End
<1>3. CASE C!Resolve(q) /\ ~ C!End(q)
  <2>1. PICK c : req' = [req EXCEPT ![q].at = "file", ![q].log.cycle = c]
    BY <1>3 DEF C!Resolve
  <2>2. PICK y : y = [o EXCEPT !.at = "file", !.log.cycle = c]
    OBVIOUS
  <2>3. req' = [req EXCEPT ![q] = y]
    BY <1>0, <2>1, <2>2 DEF CyclesInv
  <2>4. y = [f \in SyncFields |-> y[f]] /\ y.at = "file" /\ y.duty = o.duty /\ y.contract = o.contract /\ y.new = o.new
    BY <1>0, <2>2 DEF SyncFields
  <2>5. Carries(y) /\ Syncs(y)
    BY <1>0, <2>4 DEF Carries, Syncs
  <2> QED
    BY <1>1, <2>3, <2>5, CyclesRead
<1>4. CASE C!ReadUsage(q)
  <2>1. PICK u : req' = [req EXCEPT ![q].used = u, ![q].at = "close"]
    BY <1>4 DEF C!ReadUsage
  <2>2. PICK y : y = [o EXCEPT !.used = u, !.at = "close"]
    OBVIOUS
  <2>3. req' = [req EXCEPT ![q] = y]
    BY <1>0, <2>1, <2>2 DEF CyclesInv
  <2>4. y = [f \in SyncFields |-> y[f]]
    BY <1>0, <2>2
  <2>5. /\ y.at = "close" /\ y.duty = o.duty /\ y.contract = o.contract /\ y.new = o.new
        /\ y.latest = o.latest /\ y.row = o.row
    BY <1>0, <2>2 DEF SyncFields
  <2>6. o.at = "usage"
    BY <1>0, <1>4 DEF C!ReadUsage, C!At
  <2>7. Carries(y) /\ Syncs(y)
    BY <1>0, <2>4, <2>5, <2>6 DEF Carries, Syncs
  <2> QED
    BY <1>1, <2>3, <2>7, CyclesRead
<1>5. CASE C!ReadLatest(q) /\ ~ C!End(q)
  <2>1. PICK last : last = C!Latest
    OBVIOUS
  <2>2. PICK read : read = IF last = -1 THEN C!NoReq.row ELSE cycles[last]
    OBVIOUS
  <2>3. req' = [req EXCEPT ![q].at = "step", ![q].latest = last, ![q].row = read]
    BY <1>5, <2>1, <2>2, Zenon DEF C!ReadLatest
  \* one field after the other
  <2>4. PICK x : x = [o EXCEPT !.at = "step"]
    OBVIOUS
  <2>5. PICK y : y = [x EXCEPT !.latest = last]
    OBVIOUS
  <2>6. PICK z : z = [y EXCEPT !.row = read]
    OBVIOUS
  <2>7. x = [f \in SyncFields |-> x[f]] /\ y = [f \in SyncFields |-> y[f]] /\ z = [f \in SyncFields |-> z[f]]
    BY <1>0, <2>4, <2>5, <2>6
  <2>8. /\ z.at = "step" /\ z.duty = o.duty /\ z.contract = o.contract /\ z.new = o.new
        /\ z.latest = last /\ z.row = read
    BY <1>0, <2>4, <2>5, <2>6, <2>7 DEF SyncFields
  <2>9. PICK h : h = [req EXCEPT ![q] = x]
    OBVIOUS
  <2>10. PICK k : k = [h EXCEPT ![q] = y]
    OBVIOUS
  <2>11. req = [i \in Requests |-> req[i]] /\ req[q] = o
    BY <1>0 DEF CyclesInv
  <2>12. h = [i \in Requests |-> h[i]] /\ h[q] = x /\ k = [i \in Requests |-> k[i]] /\ k[q] = y
    BY <2>9, <2>10, <2>11
  <2>13. req' = [k EXCEPT ![q] = z]
    BY <2>3, <2>4, <2>5, <2>6, <2>9, <2>10, <2>11, <2>12
  <2>14. req' = [req EXCEPT ![q] = z]
    BY <2>9, <2>10, <2>11, <2>12, <2>13
  <2>15. Carries(z)
    BY <1>0, <2>7, <2>8 DEF Carries
  <2>16. last # -1 => last \in DOMAIN cycles /\ read = cycles[last]
    BY <2>1, <2>2, Latests
  <2>17. Syncs(z)
    BY <2>8, <2>16, Zenon DEF Syncs
  <2> QED
    BY <1>1, <2>14, <2>15, <2>17, CyclesRead
<1> QED
  BY <1>2, <1>3, <1>4, <1>5 DEF C!File, C!Unlog, C!Answer

\* Cycles that are left alone but for one, that was open and is the last, and ends after its start.
LEMMA CyclesWrite ==
    ASSUME CyclesInv, NEW s \in DOMAIN cycles, NEW x, cycles' = [cycles EXCEPT ![s] = x],
           x = [f \in CycleFields |-> x[f]], x.ends \in Nat, s < x.ends, UNCHANGED contract,
           \/ cycles[s].status = "open"
           \/ x.status # "open" /\ \A f \in CycleFields \ {"status"} : x[f] = cycles[s][f]
    PROVE  Chain' /\ Lasting
<1>1. Chain
  BY DEF CyclesInv
<1>2. DOMAIN cycles' = DOMAIN cycles /\ cycles' = [t \in DOMAIN cycles' |-> cycles'[t]]
  BY <1>1 DEF Chain
<1>3. cycles'[s] = x /\ \A t \in DOMAIN cycles : t # s => cycles'[t] = cycles[t]
  BY <1>1 DEF Chain
<1>4. Lasting
  BY <1>2, <1>3 DEF Lasting
<1>5. ASSUME NEW t \in DOMAIN cycles
      PROVE  cycles'[t] = [f \in CycleFields |-> cycles'[t][f]] /\ cycles'[t].ends \in Nat /\ t < cycles'[t].ends
  BY <1>1, <1>3 DEF Chain
<1>6. ASSUME NEW a \in DOMAIN cycles, NEW b \in DOMAIN cycles, a < b
      PROVE  cycles'[a].ends <= b /\ cycles'[a].status # "open" /\ cycles'[a].ends \in DOMAIN cycles
  <2>1. cycles[a].ends <= b /\ cycles[a].status # "open" /\ cycles[a].ends \in DOMAIN cycles
    BY <1>1, <1>6 DEF Chain
  <2>2. CASE a = s
    BY <2>1, <2>2, <1>3, "ends" \in CycleFields \ {"status"} DEF CycleFields
  <2>3. CASE a # s
    BY <2>1, <2>3, <1>3
  <2> QED
    BY <2>2, <2>3
<1>7. Chain'
  BY <1>1, <1>2, <1>5, <1>6 DEF Chain
<1> QED
  BY <1>4, <1>7

\* openCycle adds the first cycle, or the one after the last, or none.
LEMMA CyclesOpen ==
    ASSUME C!CyclesAssumption, CyclesInv, NEW q \in Requests, NEW start \in Nat, NEW carried, C!Open(q, start, carried),
           req[q].at = "step", UNCHANGED <<day, contract>>,
           \/ start = 0
           \/ \E m \in DOMAIN cycles : cycles[m].status # "open" /\ cycles[m].ends = start
    PROVE  CyclesInv' /\ Lasting
<1>0. Chain /\ contract \in Kept /\ req[q].contract \in Kept \cup {C!Gone}
  BY DEF CyclesInv, Carries, C!Open
<1>1. PICK b \in C!OpeningOn(start, C!LastDay(req[q].contract)) :
        /\ cycles' = IF start \in DOMAIN cycles THEN cycles
                     ELSE C!Set(cycles, start, [ends |-> b.ends, included |-> b.included, carried |-> carried,
                                                status |-> "open", used |-> 0, expired |-> 0])
        /\ req' = [req EXCEPT ![q].latest = start, ![q].row = cycles'[start], ![q].steps = @ + 1,
                              ![q].at = IF req[q].steps + 1 = MaxSteps THEN "synced" ELSE @]
  BY DEF C!Open
<1>2. PICK x : x = [ends |-> b.ends, included |-> b.included, carried |-> carried, status |-> "open", used |-> 0, expired |-> 0]
  OBVIOUS
<1>3. x = [f \in CycleFields |-> x[f]] /\ x.ends \in Nat /\ start < x.ends
  <2>1. x = [f \in CycleFields |-> x[f]] /\ x.ends = b.ends
    BY <1>2 DEF CycleFields
  <2> QED
    BY <2>1, <1>0, LastDays, Periods
<1>4. Chain' /\ Lasting /\ start \in DOMAIN cycles'
  <2>1. CASE start \in DOMAIN cycles
    <3>1. UNCHANGED cycles
      BY <1>1, <2>1
    <3> QED
      BY <1>0, <2>1, <3>1 DEF Chain, Lasting
  <2>2. CASE start \notin DOMAIN cycles
    <3>1. cycles' = C!Set(cycles, start, x)
      BY <1>1, <1>2, <2>2
    <3>2. DOMAIN cycles' = DOMAIN cycles \cup {start} /\ cycles' = [t \in DOMAIN cycles' |-> cycles'[t]]
      BY <3>1 DEF C!Set
    <3>3. cycles'[start] = x /\ \A t \in DOMAIN cycles : cycles'[t] = cycles[t]
      BY <2>2, <3>1 DEF C!Set
    <3>4. Lasting
      BY <1>0, <3>2, <3>3 DEF Lasting
    <3>5. \A t \in DOMAIN cycles : t < start /\ cycles[t].ends <= start /\ cycles[t].status # "open" /\ cycles[t].ends \in DOMAIN cycles'
      <4>1. CASE start = 0
        BY <1>0, <2>2, <4>1 DEF Chain
      <4>2. CASE \E m \in DOMAIN cycles : cycles[m].status # "open" /\ cycles[m].ends = start
        <5>1. PICK m \in DOMAIN cycles : cycles[m].status # "open" /\ cycles[m].ends = start
          BY <4>2
        <5>2. m \in Nat /\ m < start
          BY <5>1, <1>0 DEF Chain
        <5>3. \A t \in DOMAIN cycles : ~ (m < t)
          BY <5>1, <1>0, <2>2 DEF Chain
        <5>4. ASSUME NEW t \in DOMAIN cycles
              PROVE  t < start /\ cycles[t].ends <= start /\ cycles[t].status # "open" /\ cycles[t].ends \in DOMAIN cycles'
          <6>1. t \in Nat /\ (t = m \/ t < m)
            BY <5>2, <5>3, <1>0 DEF Chain
          <6>2. CASE t = m
            BY <6>2, <5>1, <5>2, <3>2
          <6>3. CASE t < m
            <7>1. cycles[t].ends <= m /\ cycles[t].status # "open" /\ cycles[t].ends \in DOMAIN cycles /\ cycles[t].ends \in Nat
              BY <6>3, <1>0 DEF Chain
            <7> QED
              BY <7>1, <6>1, <6>3, <5>2, <3>2
          <6> QED
            BY <6>1, <6>2, <6>3
        <5> QED
          BY <5>4
      <4> QED
        BY <4>1, <4>2
    <3>6. DOMAIN cycles' \subseteq Nat
      BY <1>0, <3>2 DEF Chain
    <3>7. \A t \in DOMAIN cycles' : cycles'[t] = [f \in CycleFields |-> cycles'[t][f]] /\ cycles'[t].ends \in Nat /\ t < cycles'[t].ends
      BY <1>0, <1>3, <3>2, <3>3 DEF Chain
    <3>8. ASSUME NEW s \in DOMAIN cycles', NEW t \in DOMAIN cycles', s < t
          PROVE  cycles'[s].ends <= t /\ cycles'[s].status # "open" /\ cycles'[s].ends \in DOMAIN cycles'
      <4>1. CASE s = start
        <5>1. t \in DOMAIN cycles
          BY <3>2, <3>8, <4>1
        <5>2. t < start /\ t \in Nat
          BY <3>5, <5>1, <1>0 DEF Chain
        <5> QED
          BY <5>2, <3>8, <4>1
      <4>2. CASE s # start /\ t = start
        BY <3>2, <3>3, <3>5, <4>2
      <4>3. CASE s # start /\ t # start
        <5>1. s \in DOMAIN cycles /\ t \in DOMAIN cycles
          BY <3>2, <4>3
        <5>2. cycles[s].ends <= t /\ cycles[s].status # "open" /\ cycles[s].ends \in DOMAIN cycles
          BY <1>0, <5>1, <3>8 DEF Chain
        <5> QED
          BY <5>1, <5>2, <3>2, <3>3
      <4> QED
        BY <4>1, <4>2, <4>3
    <3>9. 0 \in DOMAIN cycles'
      BY <1>0, <3>2 DEF Chain
    <3>10. \A s \in DOMAIN cycles' : s <= start
      BY <3>2, <3>5, <3>6
    <3>11. contract' # C!Gone
      BY <1>0 DEF C!Open
    <3>12. Chain'
      BY <3>2, <3>6, <3>7, <3>8, <3>9, <3>10, <3>11 DEF Chain
    <3> QED
      BY <3>2, <3>4, <3>12
  <2> QED
    BY <2>1, <2>2
<1>5. PICK o : o = req[q] /\ Carries(o) /\ o.at = "step"
  BY DEF CyclesInv
<1>6. PICK z : z = cycles'[start]
  OBVIOUS
<1>60. PICK at, steps : /\ at = (IF o.steps + 1 = MaxSteps THEN "synced" ELSE o.at) /\ steps = o.steps + 1
                        /\ at \in {"step", "synced"}
  BY <1>5
<1>7. PICK y : y = [o EXCEPT !.latest = start, !.row = z, !.steps = steps, !.at = at]
  OBVIOUS
<1>8. req' = [req EXCEPT ![q] = y]
  BY <1>1, <1>5, <1>6, <1>60, <1>7 DEF CyclesInv
<1>9. y = [f \in SyncFields |-> y[f]]
  BY <1>5, <1>7 DEF Carries
<1>10. /\ y.at = at /\ y.duty = o.duty /\ y.contract = o.contract /\ y.new = o.new
       /\ y.latest = start /\ y.row = z
  BY <1>5, <1>7 DEF SyncFields, Carries
<1>11. Carries(y)
  BY <1>5, <1>60, <1>9, <1>10 DEF Carries
<1>12. Syncs(y)'
  BY <1>4, <1>6, <1>60, <1>10 DEF Syncs
<1>13. day' \in Nat /\ contract' \in Kept \cup {C!Gone}
  BY DEF CyclesInv
<1> QED
  BY <1>4, <1>8, <1>11, <1>12, <1>13, CyclesGo

\* followContractEnd, and closeCycle.
LEMMA CyclesFollow ==
    ASSUME C!CyclesAssumption, CyclesInv, NEW q \in Requests, C!Follow(q) \/ C!Close(q)
    PROVE  CyclesInv' /\ Lasting
<1>0. PICK o : o = req[q] /\ Carries(o) /\ Syncs(o) /\ o = [f \in SyncFields |-> o[f]]
  BY DEF CyclesInv, Carries
<1>1. UNCHANGED <<day, contract>> /\ day' \in Nat /\ contract' \in Kept \cup {C!Gone} /\ Chain
  BY DEF C!Follow, C!Close, CyclesInv
<1>2. CASE C!Follow(q)
  <2>1. PICK s : s = o.latest
    OBVIOUS
  <2>2. PICK ends : ends = C!FollowedEnd(o.contract, s, o.row)
    OBVIOUS
  <2>3. PICK read : read = IF ends # {} /\ C!Movable(s) THEN [cycles[s] EXCEPT !.ends = CHOOSE n \in ends : TRUE] ELSE o.row
    OBVIOUS
  <2>4. /\ o.at = "step" /\ s # -1 /\ o.row.status = "open"
        /\ cycles' = IF ends # {} /\ C!Movable(s) THEN [cycles EXCEPT ![s] = read] ELSE cycles
        /\ req' = [req EXCEPT ![q].row = read, ![q].at = IF read.ends > o.day THEN "synced" ELSE "usage"]
    BY <1>0, <1>2, <2>1, <2>2, <2>3 DEF C!Follow, C!At
  <2>5. Chain' /\ Lasting /\ read.status = "open" /\ DOMAIN cycles' = DOMAIN cycles
    <3>1. CASE ends # {} /\ C!Movable(s)
      <4>1. s \in DOMAIN cycles /\ cycles[s].status = "open"
        BY <3>1 DEF C!Movable
      <4>2. PICK n \in ends : n = CHOOSE m \in ends : TRUE
        BY <3>1
      <4>3. n \in Nat /\ s < n
        <5>1. s \in Nat /\ o.contract \in Kept \cup {C!Gone}
          BY <4>1, <1>0, <1>1 DEF Carries, Chain
        <5>2. n \in C!FollowedEnd(o.contract, s, o.row)
          BY <4>2, <2>2
        <5> QED
          BY <5>1, <5>2, Moved
      <4>4. read = [cycles[s] EXCEPT !.ends = n] /\ cycles[s] = [f \in CycleFields |-> cycles[s][f]]
        BY <2>3, <3>1, <4>1, <4>2, <1>1 DEF Chain
      <4>5. read = [f \in CycleFields |-> read[f]] /\ read.ends = n /\ read.status = "open"
        <5>1. read = [f \in CycleFields |-> read[f]]
          BY <4>4
        <5>2. read.ends = n /\ read.status = cycles[s].status
          BY <4>4 DEF CycleFields
        <5> QED
          BY <5>1, <5>2, <4>1
      <4>6. cycles' = [cycles EXCEPT ![s] = read]
        BY <2>4, <3>1
      <4>7. Chain' /\ Lasting
        BY <1>1, <4>1, <4>3, <4>5, <4>6, CyclesWrite
      <4> QED
        BY <4>5, <4>6, <4>7
    <3>2. CASE ~ (ends # {} /\ C!Movable(s))
      <4>1. UNCHANGED cycles /\ read = o.row
        BY <3>2, <2>3, <2>4
      <4> QED
        BY <1>1, <2>4, <4>1 DEF Chain, Lasting
    <3> QED
      BY <3>1, <3>2
  <2>6. PICK at : at = (IF read.ends > o.day THEN "synced" ELSE "usage")
    OBVIOUS
  <2>7. PICK y : y = [o EXCEPT !.row = read, !.at = at]
    OBVIOUS
  <2>8. req' = [req EXCEPT ![q] = y]
    BY <1>0, <2>4, <2>6, <2>7 DEF CyclesInv
  <2>9. y = [f \in SyncFields |-> y[f]]
    BY <1>0, <2>7
  <2>10. y.duty = o.duty /\ y.contract = o.contract /\ y.new = o.new /\ y.latest = s /\ y.row = read /\ y.at \in {"synced", "usage"}
    <3>1. y.duty = o.duty /\ y.contract = o.contract /\ y.new = o.new /\ y.latest = o.latest /\ y.row = read /\ y.at = at
      BY <1>0, <2>7 DEF SyncFields
    <3> QED
      BY <3>1, <2>1, <2>6
  <2>11. Carries(y)
    BY <1>0, <2>9, <2>10 DEF Carries
  <2>12. contract # C!Gone => s \in DOMAIN cycles
    BY <1>0, <2>1, <2>4 DEF Syncs
  <2>13. Syncs(y)'
    BY <1>1, <2>4, <2>5, <2>10, <2>12 DEF Syncs
  <2> QED
    BY <1>1, <2>5, <2>8, <2>11, <2>13, CyclesGo
<1>3. CASE C!Close(q)
  <2>1. PICK s : s = o.latest
    OBVIOUS
  <2>2. o.at = "close" /\ s # -1
    BY <1>0, <1>3, <2>1 DEF C!Close, C!At, Syncs
  <2>3. Chain' /\ Lasting
    <3>1. CASE C!Closable(s)
      <4>1. s \in DOMAIN cycles /\ cycles[s].status = "open"
        BY <3>1 DEF C!Closable
      <4>2. PICK u, x : /\ u = o.used /\ x = C!Expired(s, o.row, o.contract.rollover, o.used)
                        /\ cycles' = [cycles EXCEPT ![s].status = "closed", ![s].used = u, ![s].expired = x]
        <5>1. cycles' = [cycles EXCEPT ![s].status = "closed", ![s].used = o.used,
                             ![s].expired = C!Expired(s, o.row, o.contract.rollover, o.used)]
          BY <1>0, <1>3, <2>1, <3>1 DEF C!Close
        <5> QED
          BY <5>1
      <4>3. PICK c : c = cycles[s] /\ c = [f \in CycleFields |-> c[f]] /\ c.ends \in Nat /\ s < c.ends
        BY <4>1, <1>1 DEF Chain
      <4>4. PICK z : z = [c EXCEPT !.status = "closed", !.used = u, !.expired = x]
        OBVIOUS
      <4>5. cycles' = [cycles EXCEPT ![s] = z]
        BY <4>1, <4>2, <4>3, <4>4, <1>1 DEF Chain
      <4>6. z = [f \in CycleFields |-> z[f]] /\ z.ends = c.ends
        <5>1. z = [f \in CycleFields |-> z[f]]
          BY <4>3, <4>4
        <5>2. z.ends = c.ends
          BY <4>3, <4>4 DEF CycleFields
        <5> QED
          BY <5>1, <5>2
      <4> QED
        BY <1>1, <4>1, <4>3, <4>5, <4>6, CyclesWrite
    <3>2. CASE ~ C!Closable(s)
      <4>1. UNCHANGED cycles
        BY <1>0, <1>3, <2>1, <3>2 DEF C!Close
      <4> QED
        BY <1>1, <4>1 DEF Chain, Lasting
    <3> QED
      BY <3>1, <3>2
  <2>4. CASE C!End(q)
    <3>1. Carries(C!NoReq) /\ Syncs(C!NoReq)'
      <4>1. C!NoReq.at = "none"
        BY DEF C!NoReq
      <4> QED
        BY <4>1, CycleIdle DEF Syncs
    <3> QED
      BY <1>1, <2>3, <2>4, <3>1, CyclesGo DEF C!End
  <2>5. CASE ~ C!End(q)
    <3>1. PICK z : z = cycles'[s] /\ s \in DOMAIN cycles /\ req' = [req EXCEPT ![q].at = "step", ![q].row = z]
      BY <1>0, <1>3, <2>1, <2>5 DEF C!Close
    <3>2. PICK y : y = [o EXCEPT !.at = "step", !.row = z]
      OBVIOUS
    <3>3. req' = [req EXCEPT ![q] = y]
      BY <1>0, <3>1, <3>2 DEF CyclesInv
    <3>4. y = [f \in SyncFields |-> y[f]]
      BY <1>0, <3>2
    <3>5. y.at = "step" /\ y.duty = o.duty /\ y.contract = o.contract /\ y.new = o.new /\ y.latest = o.latest /\ y.row = z
      BY <1>0, <3>2 DEF SyncFields
    <3>6. Carries(y)
      BY <1>0, <3>4, <3>5 DEF Carries
    <3>7. Syncs(y)'
      BY <2>1, <2>2, <2>3, <3>1, <3>5 DEF Syncs, Lasting
    <3> QED
      BY <1>1, <2>3, <3>3, <3>6, <3>7, CyclesGo
  <2> QED
    BY <2>3, <2>4, <2>5
<1> QED
  BY <1>2, <1>3

\* advanceCycles opens, or is done.
LEMMA CyclesAdvance ==
    ASSUME C!CyclesAssumption, CyclesInv, NEW q \in Requests, C!OpenFirst(q) \/ C!OpenNext(q)
    PROVE  CyclesInv' /\ Lasting
<1>0. PICK o : o = req[q] /\ Carries(o) /\ Syncs(o) /\ o = [f \in SyncFields |-> o[f]]
  BY DEF CyclesInv, Carries
<1>1. UNCHANGED <<day, contract>> /\ o.at = "step"
  BY <1>0 DEF C!OpenFirst, C!OpenNext, C!At
<1>2. CASE C!Synced(q) /\ UNCHANGED cycles
  <2>1. PICK y : y = [o EXCEPT !.at = "synced"]
    OBVIOUS
  <2>2. req' = [req EXCEPT ![q] = y]
    BY <1>0, <1>2, <2>1 DEF C!Synced, CyclesInv
  <2>3. y = [f \in SyncFields |-> y[f]]
    BY <1>0, <2>1
  <2>4. y.at = "synced" /\ y.duty = o.duty /\ y.contract = o.contract /\ y.new = o.new
    BY <1>0, <2>1 DEF SyncFields
  <2>5. Carries(y) /\ Syncs(y)
    BY <1>0, <2>3, <2>4 DEF Carries, Syncs
  <2>6. Lasting
    BY <1>1, <1>2 DEF Lasting
  <2> QED
    BY <1>1, <1>2, <2>2, <2>5, <2>6, CyclesRead
<1>3. CASE C!OpenFirst(q) /\ ~ (C!Synced(q) /\ UNCHANGED cycles)
  <2>1. C!Open(q, 0, {})
    BY <1>3 DEF C!OpenFirst
  <2> QED
    BY <1>0, <1>1, <2>1, CyclesOpen
<1>4. CASE C!OpenNext(q) /\ ~ (C!Synced(q) /\ UNCHANGED cycles)
  <2>1. PICK m : m = o.latest /\ m # -1 /\ o.row.status # "open"
    BY <1>0, <1>4 DEF C!OpenNext
  <2>2. PICK next : next = o.row.ends
    OBVIOUS
  <2>3. PICK carried : C!Open(q, next, carried)
    BY <1>0, <1>4, <2>2 DEF C!OpenNext
  <2>4. contract # C!Gone
    BY <2>3 DEF C!Open
  <2>5. m \in DOMAIN cycles /\ cycles[m].status # "open" /\ cycles[m].ends = next
    BY <1>0, <1>1, <2>1, <2>2, <2>4 DEF Syncs
  <2>6. next \in Nat
    BY <2>5 DEF CyclesInv, Chain
  <2> QED
    BY <1>0, <1>1, <2>3, <2>5, <2>6, CyclesOpen
<1> QED
  BY <1>2, <1>3, <1>4

\* The panel edits, cancels, bills and deletes, and a day passes.
LEMMA CyclesEdit ==
    ASSUME C!CyclesAssumption, CyclesInv, NEW q \in Requests,
           C!Cancel(q) \/ C!SaveEdit(q) \/ C!Delete(q)
    PROVE  CyclesInv' /\ Lasting
<1>0. PICK o : o = req[q] /\ Carries(o) /\ Syncs(o) /\ o = [f \in SyncFields |-> o[f]]
  BY DEF CyclesInv, Carries
<1>1. UNCHANGED day /\ day' \in Nat /\ day \in Nat /\ Chain
  BY DEF C!Cancel, C!SaveEdit, C!Delete, CyclesInv
<1>2. ASSUME contract # C!Gone, NEW k \in Kept, contract' = k, UNCHANGED cycles, NEW d,
             req' = [req EXCEPT ![q] = [C!NoReq EXCEPT !.duty = "view", !.at = "latest", !.day = d, !.contract = contract']]
      PROVE  CyclesInv' /\ Lasting
  <2>1. k # C!Gone
    BY DEF Kept, C!Gone
  <2>2. Chain' /\ Lasting
    BY <1>1, <1>2, <2>1 DEF Chain, Lasting
  <2>3. PICK y : y = [C!NoReq EXCEPT !.duty = "view", !.at = "latest", !.day = d, !.contract = k]
    OBVIOUS
  <2>4. req' = [req EXCEPT ![q] = y]
    BY <1>2, <2>3
  <2>5. y = [f \in SyncFields |-> y[f]]
    BY <2>3, CycleIdle
  <2>6. y.at = "latest" /\ y.duty = "view" /\ y.contract = k
    BY <2>3, CycleIdle DEF SyncFields
  <2>7. Carries(y) /\ Syncs(y)'
    BY <2>5, <2>6 DEF Carries, Syncs
  <2> QED
    BY <1>1, <1>2, <2>2, <2>4, <2>7, CyclesGo
<1>3. CASE C!Cancel(q)
  <2>1. contract \in Kept /\ contract # C!Gone
    BY <1>3 DEF CyclesInv, C!Cancel
  <2>2. [contract EXCEPT !.cancelled = day] \in Kept
    BY <2>1, <1>1 DEF Kept
  <2> QED
    BY <1>3, <2>1, <2>2, <1>2 DEF C!Cancel
<1>4. ASSUME C!End(q), Chain', Lasting, contract' \in Kept \cup {C!Gone} PROVE CyclesInv' /\ Lasting
  <2>1. Carries(C!NoReq) /\ Syncs(C!NoReq)'
    <3>1. C!NoReq.at = "none"
      BY DEF C!NoReq
    <3> QED
      BY <3>1, CycleIdle DEF Syncs
  <2> QED
    BY <1>1, <1>4, <2>1, CyclesGo DEF C!End
<1>5. CASE C!SaveEdit(q)
  <2>1. CASE contract = C!Gone
    <3>1. C!End(q) /\ UNCHANGED <<contract, cycles>>
      BY <1>5, <2>1 DEF C!SaveEdit
    <3>2. Chain' /\ Lasting /\ contract' \in Kept \cup {C!Gone}
      BY <1>1, <3>1 DEF Chain, Lasting, CyclesInv
    <3> QED
      BY <1>4, <3>1, <3>2
  <2>2. CASE contract # C!Gone
    <3>1. contract \in Kept /\ o.new \in Kept /\ o.duty \in {"end", "rollover"}
      BY <1>0, <1>5, <2>2 DEF CyclesInv, C!SaveEdit, Carries
    <3>2. PICK k : k = [contract EXCEPT
                !.ends = IF o.duty = "end" THEN o.new.ends ELSE @,
                !.rollover = IF o.duty = "rollover" THEN o.new.rollover ELSE @]
      OBVIOUS
    <3>3. k \in Kept
      <4>1. CASE o.duty = "end"
        <5>1. k = [contract EXCEPT !.ends = o.new.ends, !.rollover = @]
          BY <3>2, <4>1
        <5> QED
          BY <3>1, <5>1 DEF Kept
      <4>2. CASE o.duty = "rollover"
        <5>1. k = [contract EXCEPT !.ends = @, !.rollover = o.new.rollover]
          BY <3>2, <4>2
        <5> QED
          BY <3>1, <5>1 DEF Kept
      <4> QED
        BY <3>1, <4>1, <4>2
    <3>4. contract' = k /\ UNCHANGED cycles
      BY <1>0, <1>5, <2>2, <3>2 DEF C!SaveEdit
    <3>5. req' = [req EXCEPT ![q] = [C!NoReq EXCEPT !.duty = "view", !.at = "latest", !.day = o.day, !.contract = contract']]
      BY <1>0, <1>5, <2>2 DEF C!SaveEdit
    <3> QED
      BY <2>2, <3>3, <3>4, <3>5, <1>2
  <2> QED
    BY <2>1, <2>2
<1>6. CASE C!Delete(q)
  <2>1. contract' = C!Gone /\ cycles' = << >> /\ C!End(q)
    BY <1>6 DEF C!Delete
  <2>2. DOMAIN cycles' = {} /\ cycles' = [s \in DOMAIN cycles' |-> cycles'[s]]
    BY <2>1
  <2>3. Chain' /\ Lasting
    BY <2>1, <2>2 DEF Chain, Lasting
  <2> QED
    BY <2>1, <2>3, <1>4
<1> QED
  BY <1>3, <1>5, <1>6

LEMMA CyclesStep == ASSUME C!CyclesAssumption, CyclesInv, [C!Next]_C!vars PROVE CyclesInv' /\ Lasting
<1>0. Chain /\ day \in Nat /\ contract \in Kept \cup {C!Gone}
  BY DEF CyclesInv
<1>1. ASSUME UNCHANGED <<contract, cycles>> PROVE Lasting /\ Chain'
  BY <1>0, <1>1 DEF Chain, Lasting
<1>2. ASSUME UNCHANGED req, UNCHANGED contract, day' \in Nat, Lasting, Chain' PROVE CyclesInv' /\ Lasting
  <2>1. ASSUME NEW q \in Requests PROVE Carries(req[q])' /\ Syncs(req[q])'
    <3>1. PICK z : z = req[q] /\ req'[q] = z /\ Carries(z) /\ Syncs(z)
      BY <1>2 DEF CyclesInv
    <3>2. Syncs(z)'
      BY <1>2, <3>1, "ends" \in CycleFields \ {"status"} DEF Syncs, Lasting, CycleFields
    <3> QED
      BY <3>1, <3>2 DEF Carries, Syncs
  <2> QED
    BY <1>0, <1>2, <2>1 DEF CyclesInv
<1>3. CASE C!Tick
  BY <1>0, <1>1, <1>2, <1>3 DEF C!Tick
<1>4. CASE C!ListLogs \/ UNCHANGED C!vars
  BY <1>0, <1>1, <1>2, <1>4 DEF C!ListLogs, C!vars
<1>5. CASE C!Bill
  <2>1. PICK s \in DOMAIN cycles : cycles[s].status = "closed" /\ cycles' = [cycles EXCEPT ![s].status = "billed"]
    BY <1>5 DEF C!Bill
  <2>2. PICK c : c = cycles[s] /\ c = [f \in CycleFields |-> c[f]] /\ c.ends \in Nat /\ s < c.ends
    BY <2>1, <1>0 DEF Chain
  <2>3. PICK z : z = [c EXCEPT !.status = "billed"]
    OBVIOUS
  <2>4. cycles' = [cycles EXCEPT ![s] = z]
    BY <2>1, <2>2, <2>3, <1>0 DEF Chain
  <2>5. z = [f \in CycleFields |-> z[f]]
    BY <2>2, <2>3
  <2>6. z.status = "billed" /\ \A f \in CycleFields \ {"status"} : z[f] = c[f]
    BY <2>2, <2>3 DEF CycleFields
  <2>7. z.ends = c.ends
    BY <2>6, "ends" \in CycleFields \ {"status"} DEF CycleFields
  <2>8. Chain' /\ Lasting
    BY <1>5, <2>1, <2>2, <2>4, <2>5, <2>6, <2>7, CyclesWrite DEF C!Bill
  <2> QED
    BY <1>0, <1>2, <1>5, <2>8 DEF C!Bill
<1>6. ASSUME NEW q \in Requests,
             C!BeginView(q) \/ C!BeginLog(q) \/ C!BeginEdit(q) \/ C!BeginUnlog(q) \/ C!BeginDelete(q)
      PROVE  CyclesInv' /\ Lasting
  BY <1>1, <1>6, CyclesBegins DEF C!BeginView, C!BeginLog, C!BeginEdit, C!BeginUnlog, C!BeginDelete
<1>7. ASSUME NEW q \in Requests,
             C!File(q) \/ C!Unlog(q) \/ C!Answer(q) \/ C!Resolve(q) \/ C!ReadUsage(q) \/ C!ReadLatest(q)
      PROVE  CyclesInv' /\ Lasting
  BY <1>1, <1>7, CyclesEnd DEF C!File, C!Unlog, C!Answer, C!Resolve, C!ReadUsage, C!ReadLatest
<1> QED
  BY <1>3, <1>4, <1>5, <1>6, <1>7, CyclesFollow, CyclesAdvance, CyclesEdit DEF C!Next, C!Sync

LEMMA CyclesInvariance == ASSUME C!CyclesAssumption PROVE C!Spec => []CyclesInv
<1>1. CyclesInv /\ [C!Next]_C!vars => CyclesInv'
  BY CyclesStep
<1> QED
  BY CyclesInit, <1>1, PTL DEF C!Spec

\* Two cycles of a contract never share a day, whichever requests opened them and however they overlap: the
\* unique start of a cycle, with the end that a closed one keeps, is enough (services/contracts.ts).
THEOREM CyclesAreDisjoint == ASSUME C!CyclesAssumption PROVE C!Spec => []C!Disjoint
<1>1. CyclesInv => C!Disjoint
  BY DEF CyclesInv, Chain, C!Disjoint
<1> QED
  BY CyclesInvariance, <1>1, PTL

\* A closed cycle is final while its contract stands: neither its period nor its balance changes again, and
\* it is not reopened, whatever requests read of it before it was closed (services/contracts.ts).
THEOREM ClosedCyclesAreFinal == ASSUME C!CyclesAssumption PROVE C!Spec => [][C!ClosedIsFinal]_C!vars
<1>1. ASSUME CyclesInv, CyclesInv', [C!Next]_C!vars PROVE C!ClosedIsFinal
  <2>1. SUFFICES ASSUME NEW s \in DOMAIN cycles, cycles[s].status # "open", contract' # C!Gone
                 PROVE  /\ s \in DOMAIN cycles' /\ cycles'[s].status # "open"
                        /\ [cycles'[s] EXCEPT !.status = ""] = [cycles[s] EXCEPT !.status = ""]
    BY DEF C!ClosedIsFinal
  <2>2. s \in DOMAIN cycles' /\ cycles'[s].status # "open" /\ \A f \in CycleFields \ {"status"} : cycles'[s][f] = cycles[s][f]
    BY <1>1, <2>1, CyclesStep DEF Lasting
  <2>3. PICK c : c = cycles[s] /\ c = [f \in CycleFields |-> c[f]]
    BY <1>1 DEF CyclesInv, Chain
  <2>4. PICK z : z = cycles'[s] /\ z = [f \in CycleFields |-> z[f]]
    BY <1>1, <2>2 DEF CyclesInv, Chain
  <2>5. [z EXCEPT !.status = ""] = [c EXCEPT !.status = ""]
    BY <2>2, <2>3, <2>4
  <2> QED
    BY <2>2, <2>3, <2>4, <2>5
<1>2. CyclesInv /\ CyclesInv' /\ [C!Next]_C!vars => [C!ClosedIsFinal]_C!vars
  BY <1>1
<1> QED
  BY CyclesInvariance, <1>2, PTL DEF C!Spec

=============================================================================
