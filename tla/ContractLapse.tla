---------------------------- MODULE ContractLapse ----------------------------
(***************************************************************************)
(* What the end of a service contract does to the apps it covers, in       *)
(* apps/custom-apps: the cron renews, warns and lapses contracts and ends  *)
(* grace periods, a renewal by hand undoes a lapse, and the kill switch is *)
(* still in the hands of the editors. Each of those takes several          *)
(* statements.                                                             *)
(***************************************************************************)
EXTENDS Integers, FiniteSets

CONSTANTS
    Contracts, Apps,
    Cron,      \* the cron, every five minutes
    Requests,  \* requests of the panel; Cron among them when they wait for each other
    None,
    Notice,    \* notice_days
    Graces,    \* the grace_days a contract may have
    Horizon,   \* bound: days of the calendar
    MaxEdits,  \* bound: edits of the panel, and what goes wrong
    Duties     \* bound: which of them happen

LapseAssumption == Notice \in Nat /\ Graces \subseteq Nat /\ Horizon \in Nat /\ MaxEdits \in Nat

VARIABLES day,    \* today, in Santiago
          row,    \* contracts with contract_apps
          app,    \* apps.state and state_until
          hand,   \* history: who put the app where it is: a "contract", an "editor" with the kill
                  \* switch, or an "edit" of a contract that had lapsed, which left it off
          shown,  \* the in-app notice of each contract: the end it announces
          mailed, \* history: the ends of contracts that clients were warned of
          run,    \* the cron: the rows it read and has still to visit
          edits,  \* counter of the bound
          req     \* the cron and requests, between two statements

vars == <<day, row, app, hand, shown, mailed, run, edits, req>>
panel == <<day, run>>

Days == 0 .. Horizon
Ends == Days \cup {Horizon + 9}
Row == [starts : Days, ends : Ends, auto : BOOLEAN, grace : Graces, covers : SUBSET Apps,
        cancelled : BOOLEAN, lapsed : BOOLEAN, warned : BOOLEAN]
Hands == {"contract", "editor", "edit"}
App == [state : {"active", "grace", "suspended"}, until : 0 .. Horizon + 9 \cup {None}]
Phases == {"none", "renew", "mail", "post", "lapse", "lapsing", "save", "reread", "reviving", "grace", "insert"}
NoReq == [at |-> "none", c |-> None, row |-> None, apps |-> {}, field |-> "none", new |-> None]
Idle == [todo |-> {}, rows |-> <<>>, on |-> FALSE]

TypeOK ==
    /\ day \in Days
    /\ \A c \in Contracts : row[c] # None => row[c] \in Row
    /\ app \in [Apps -> App] /\ hand \in [Apps -> Hands]
    /\ shown \in [Contracts -> Ends \cup {None}] /\ mailed \subseteq Contracts \X Ends
    /\ run.todo \subseteq Contracts /\ edits \in 0 .. MaxEdits
    /\ \A q \in Requests \cup {Cron} : req[q].at \in Phases /\ req[q].apps \subseteq Apps

InForce(k) == ~ k.cancelled /\ k.starts <= day /\ day <= k.ends
At(q, at) == req[q].at = at
End(q) == req' = [req EXCEPT ![q] = NoReq]
Edit(what) == what \in Duties /\ edits < MaxEdits /\ edits' = edits + 1
Free(q) == req[q] = NoReq /\ (q = Cron => ~ run.on)

-----------------------------------------------------------------------------
\* runContracts reads the contracts that are not cancelled.
CronRead ==
    /\ Free(Cron)
    /\ run' = [todo |-> {c \in Contracts : row[c] # None /\ ~ row[c].cancelled}, rows |-> row, on |-> TRUE]
    /\ UNCHANGED <<day, row, app, hand, shown, mailed, edits, req>>

Renews(k) == k.auto /\ k.ends < day
Warns(k) == ~ k.auto /\ ~ k.warned /\ day >= k.ends - Notice /\ day <= k.ends

FaultyLapses(k) == ~ k.auto /\ k.ends + 1 = day /\ ~ k.lapsed

Lapses(k) == ~ k.auto /\ k.ends < day /\ ~ k.lapsed

\* It visits one, as it was read: it is renewed, warned of, lapsed or left alone.
Visit(c) ==
    LET k == run.rows[c]
        at == IF Renews(k) THEN "renew" ELSE IF Warns(k) THEN "mail" ELSE IF Lapses(k) THEN "lapse" ELSE "none"
    IN  /\ run.on /\ req[Cron] = NoReq /\ c \in run.todo
        /\ run' = [run EXCEPT !.todo = @ \ {c}]
        /\ req' = [req EXCEPT ![Cron] = IF at = "none" THEN NoReq ELSE [NoReq EXCEPT !.at = at, !.c = c, !.row = k]]
        /\ UNCHANGED <<day, row, app, hand, shown, mailed, edits>>

FaultyRenewedEnd(k) == Horizon + 10

\* The end after as many renewals as it takes to reach today: past the days of the model.
RenewedEnd(k) == Horizon + 9

\* A contract that renews itself is extended from its end until it reaches today.
Renew ==
    /\ At(Cron, "renew")
    /\ LET c == req[Cron].c IN
       /\ row' = [row EXCEPT ![c].ends = RenewedEnd(req[Cron].row)]
       /\ req' = [req EXCEPT ![Cron].at = "reread"]
    /\ UNCHANGED <<panel, app, hand, shown, mailed, edits>>

\* sendNotice mails the client; if that fails, the next run tries again.
Mail ==
    /\ At(Cron, "mail")
    /\ \/ /\ mailed' = mailed \cup {<<req[Cron].c, req[Cron].row.ends>>}
          /\ req' = [req EXCEPT ![Cron].at = "post"]
          /\ UNCHANGED edits
       \/ /\ Edit("mail") /\ End(Cron) /\ UNCHANGED mailed
    /\ UNCHANGED <<panel, row, app, hand, shown>>

\* and posts the notice the apps show until the end.
Post ==
    /\ At(Cron, "post")
    /\ row' = [row EXCEPT ![req[Cron].c].warned = TRUE]
    /\ shown' = [shown EXCEPT ![req[Cron].c] = req[Cron].row.ends]
    /\ End(Cron) /\ UNCHANGED <<panel, app, hand, mailed, edits>>

\* lapse reads the covered apps,
LapseRead ==
    /\ At(Cron, "lapse")
    /\ req' = [req EXCEPT ![Cron].at = "lapsing", ![Cron].apps = {a \in row[req[Cron].c].covers : app[a].state # "suspended"}]
    /\ UNCHANGED <<panel, row, app, hand, shown, mailed, edits>>

FaultySpared(a) == FALSE

\* where state <> 'suspended'
Spared(a) == app[a].state = "suspended"

FaultyUntil(k) == k.ends + k.grace

\* The day after the last day of grace.
Until(k) == k.ends + k.grace + 1

\* puts each in grace, or suspends it when there are no grace days,
LapseApp(a) ==
    LET k == req[Cron].row IN
    /\ At(Cron, "lapsing") /\ a \in req[Cron].apps
    /\ IF Spared(a) THEN UNCHANGED <<app, hand>>
       ELSE /\ app' = [app EXCEPT ![a] = IF k.grace > 0 THEN [state |-> "grace", until |-> Until(k)]
                                         ELSE [state |-> "suspended", until |-> None]]
            /\ hand' = [hand EXCEPT ![a] = "contract"]
    /\ req' = [req EXCEPT ![Cron].apps = @ \ {a}]
    /\ UNCHANGED <<panel, row, shown, mailed, edits>>

\* and marks the contract last.
LapseMark ==
    /\ At(Cron, "lapsing") /\ req[Cron].apps = {}
    /\ row' = [row EXCEPT ![req[Cron].c].lapsed = TRUE]
    /\ End(Cron) /\ UNCHANGED <<panel, app, hand, shown, mailed, edits>>

FaultyDue(a) == app[a].state = "grace" /\ day + 1 >= app[a].until

\* The grace periods that are over.
Due(a) == app[a].state = "grace" /\ day >= app[a].until

\* endGracePeriods, after the contracts, reads the apps whose grace is over,
GraceRead ==
    /\ run.on /\ run.todo = {} /\ req[Cron] = NoReq
    /\ run' = Idle
    /\ req' = [req EXCEPT ![Cron].at = "grace", ![Cron].apps = {a \in Apps : Due(a)}]
    /\ UNCHANGED <<day, row, app, hand, shown, mailed, edits>>

\* and suspends those still in grace.
GraceEnd(a) ==
    /\ At(Cron, "grace") /\ a \in req[Cron].apps
    /\ app' = IF app[a].state = "grace" THEN [app EXCEPT ![a] = [state |-> "suspended", until |-> None]] ELSE app
    /\ req' = [req EXCEPT ![Cron].apps = @ \ {a}]
    /\ UNCHANGED <<panel, row, hand, shown, mailed, edits>>

CronDone ==
    /\ At(Cron, "grace") /\ req[Cron].apps = {}
    /\ End(Cron) /\ UNCHANGED <<panel, row, app, hand, shown, mailed, edits>>

-----------------------------------------------------------------------------
Overlap(j, k) == j.starts <= k.ends /\ k.starts <= j.ends
Clashes(c, k) == \E d \in Contracts \ {c} :
    row[d] # None /\ ~ row[d].cancelled /\ row[d].covers \cap k.covers # {} /\ Overlap(row[d], k)

\* An edit of one column of a contract, or of its apps, with what it was before.
Asks(q, c, field, new) ==
    req' = [req EXCEPT ![q] = [NoReq EXCEPT !.at = "save", !.c = c, !.row = row[c], !.field = field, !.new = new]]

\* POST /contracts/:id/renew: an end later than it has, today at least; PATCH: any end from its start
\* on, other apps, other days of grace, or whether it renews itself. Dates and apps are checked
\* against the other contracts (checkApps); none edits one that is cancelled.
BeginMove(q, c) ==
    LET k == row[c] IN
    /\ Free(q) /\ k # None /\ ~ k.cancelled
    /\ \/ /\ Edit("renew")
          /\ \E e \in Ends : e > k.ends /\ e >= day /\ ~ Clashes(c, [k EXCEPT !.ends = e]) /\ Asks(q, c, "ends", e)
       \/ /\ Edit("patch")
          /\ \/ \E e \in Ends : e >= k.starts /\ ~ Clashes(c, [k EXCEPT !.ends = e]) /\ Asks(q, c, "ends", e)
             \/ \E apps \in SUBSET Apps : ~ Clashes(c, [k EXCEPT !.covers = apps]) /\ Asks(q, c, "covers", apps)
             \/ \E g \in Graces : Asks(q, c, "grace", g)
             \/ Asks(q, c, "auto", ~ k.auto)
    /\ UNCHANGED <<panel, row, app, hand, shown, mailed>>

\* What an edit of a contract that had lapsed leaves off: the apps it no longer covers, and all of
\* them if it ended still; their state and the end of their grace stay as they were.
LeftOff(a, old, new) ==
    old.lapsed /\ a \in old.covers /\ app[a].state # "active" /\ (a \notin new.covers \/ new.ends < day)

\* The edit is written, and is a renewal when the end moved or it now renews itself (or no longer).
Move(q) ==
    LET c == req[q].c
        moved == row'[c].ends # req[q].row.ends \/ row'[c].auto # req[q].row.auto
    IN  /\ At(q, "save")
        /\ row' = [row EXCEPT ![c][req[q].field] = req[q].new]
        /\ hand' = [a \in Apps |-> IF hand[a] = "contract" /\ LeftOff(a, row[c], row'[c]) THEN "edit" ELSE hand[a]]
        /\ req' = [req EXCEPT ![q] = IF moved THEN [NoReq EXCEPT !.at = "reread", !.c = c] ELSE NoReq]
        /\ UNCHANGED <<panel, app, shown, mailed, edits>>

FaultyRevived(k, a) == app[a].state = "grace" /\ a \in k.covers

\* The apps a renewal switches on.
Revived(k, a) == app[a].state \in {"grace", "suspended"} /\ a \in k.covers

\* afterRenewal, with the contract as it is now, reads its apps if it had lapsed,
Reread(q) ==
    LET k == row[req[q].c] IN
    /\ At(q, "reread")
    /\ req' = [req EXCEPT ![q].at = "reviving", ![q].row = k,
                   ![q].apps = IF k.lapsed /\ k.ends >= day THEN {a \in Apps : Revived(k, a)} ELSE {}]
    /\ UNCHANGED <<panel, row, app, hand, shown, mailed, edits>>

\* switches each on that is still off,
Revive(q, a) ==
    /\ At(q, "reviving") /\ a \in req[q].apps
    /\ app' = [app EXCEPT ![a] = [state |-> "active", until |-> None]]
    /\ hand' = [hand EXCEPT ![a] = "contract"]
    /\ req' = [req EXCEPT ![q].apps = @ \ {a}]
    /\ UNCHANGED <<panel, row, shown, mailed, edits>>

\* Outside the notice period of its new end it can be warned of again.
Outside(k) == day < k.ends - Notice

\* then takes back the mark of the lapse and, outside its notice period, of the notice, which ends.
Renewed(q) ==
    LET c == req[q].c
        k == req[q].row
    IN  /\ At(q, "reviving") /\ req[q].apps = {}
        /\ row' = [row EXCEPT ![c].lapsed = @ /\ ~ (k.lapsed /\ k.ends >= day), ![c].warned = @ /\ ~ Outside(k)]
        /\ shown' = [shown EXCEPT ![c] = None]
        /\ End(q) /\ UNCHANGED <<panel, app, hand, mailed, edits>>

\* POST /contracts/:id/cancel
Cancel(c) ==
    /\ Edit("cancel") /\ row[c] # None /\ ~ row[c].cancelled
    /\ row' = [row EXCEPT ![c].cancelled = TRUE]
    /\ UNCHANGED <<panel, app, hand, shown, mailed, req>>

\* POST /contracts checks that none of its apps is covered in those dates (checkApps),
BeginCreate(q, c) ==
    /\ Edit("create") /\ Free(q) /\ row[c] = None
    /\ \E k \in Row :
        /\ k.starts <= k.ends /\ k.ends >= day /\ k.ends \in Days /\ k.covers = Apps /\ ~ k.auto
        /\ ~ k.cancelled /\ ~ k.lapsed /\ ~ k.warned
        /\ ~ Clashes(c, k)
        /\ req' = [req EXCEPT ![q] = [NoReq EXCEPT !.at = "insert", !.c = c, !.row = k]]
    /\ UNCHANGED <<panel, row, app, hand, shown, mailed>>

\* and inserts it.
Create(q) ==
    /\ At(q, "insert")
    /\ row' = IF row[req[q].c] = None THEN [row EXCEPT ![req[q].c] = req[q].row] ELSE row
    /\ End(q) /\ UNCHANGED <<panel, app, hand, shown, mailed, edits>>

\* PUT /apps/:id/status, by hand
Switch(q, a) ==
    /\ Edit("switch") /\ Free(q)
    /\ \E s \in {"active", "grace", "suspended"} :
        /\ app' = [app EXCEPT ![a] = [state |-> s, until |-> IF s = "grace" THEN day + 1 ELSE None]]
        /\ hand' = [hand EXCEPT ![a] = IF s = "active" THEN "contract" ELSE "editor"]
    /\ UNCHANGED <<panel, row, shown, mailed, req>>

\* An invocation is cut short; the contracts the cron has not visited wait for its next run.
Cut(q) ==
    /\ Edit(IF q = Cron /\ (run.on \/ At(q, "grace")) THEN "cut" ELSE "cut panel") /\ req[q] # NoReq
    /\ End(q) /\ run' = IF q = Cron THEN Idle ELSE run
    /\ UNCHANGED <<day, row, app, hand, shown, mailed>>

\* Requests and runs last minutes; the notice ends by itself with its day.
Tick ==
    /\ day < Horizon /\ day' = day + 1
    /\ ~ run.on /\ \A q \in Requests \cup {Cron} : req[q] = NoReq
    /\ shown' = [c \in Contracts |-> IF shown[c] # None /\ shown[c] < day' THEN None ELSE shown[c]]
    /\ UNCHANGED <<row, app, hand, mailed, run, edits, req>>

-----------------------------------------------------------------------------
Init ==
    /\ day = 0
    /\ \E first \in Contracts, g \in Graces, auto \in BOOLEAN :
        row = [c \in Contracts |-> IF c = first
            THEN [starts |-> 0, ends |-> 1, auto |-> auto, grace |-> g, covers |-> Apps,
                  cancelled |-> FALSE, lapsed |-> FALSE, warned |-> FALSE]
            ELSE None]
    /\ app = [a \in Apps |-> [state |-> "active", until |-> None]] /\ hand = [a \in Apps |-> "contract"]
    /\ shown = [c \in Contracts |-> None] /\ mailed = {}
    /\ run = Idle /\ edits = 0 /\ req = [q \in Requests \cup {Cron} |-> NoReq]

CronStep ==
    \/ (\E c \in Contracts : Visit(c)) \/ Renew \/ Mail \/ Post \/ LapseRead \/ LapseMark \/ GraceRead \/ CronDone
    \/ \E a \in Apps : LapseApp(a) \/ GraceEnd(a)

Afterwards(q) == Move(q) \/ Reread(q) \/ Renewed(q) \/ \E a \in Apps : Revive(q, a)

Next ==
    \/ Tick \/ CronRead \/ CronStep
    \/ \E q \in Requests \cup {Cron} : Afterwards(q) \/ Create(q) \/ Cut(q)
    \/ \E q \in Requests, c \in Contracts : BeginMove(q, c) \/ BeginCreate(q, c)
    \/ \E c \in Contracts : Cancel(c)
    \/ \E q \in Requests, a \in Apps : Switch(q, a)

Spec == Init /\ [][Next]_vars

\* The cron runs over and over, what it began goes on, and days pass.
FairSpec ==
    /\ Spec
    /\ WF_vars(CronRead) /\ WF_vars(CronStep) /\ SF_vars(Tick)
    /\ \A q \in Requests \cup {Cron} : WF_vars(Afterwards(q)) /\ WF_vars(Create(q))

-----------------------------------------------------------------------------
AtRest == ~ run.on /\ \A q \in Requests \cup {Cron} : req[q] = NoReq
CoveredOff(a) == app[a].state # "active" /\ hand[a] = "contract"

\* An app that is off, where no editor left it, has a contract that lapsed and was not renewed since.
OffIsLapsed == AtRest => \A a \in Apps : CoveredOff(a) =>
    \E c \in Contracts : row[c] # None /\ a \in row[c].covers /\ row[c].lapsed /\ (row[c].ends < day \/ row[c].cancelled)

\* A lapse takes an app out of service only when the days of grace are over, unless the contract was
\* edited after it had lapsed and ended still: the app keeps the end of its grace.
GraceLasts == \A a \in Apps : app[a].state = "grace" /\ app'[a].state = "suspended" /\ hand'[a] = "contract" =>
    \E c \in Contracts : row[c] # None /\ a \in row[c].covers /\ day > row[c].ends + row[c].grace

\* The same, whatever was edited: the status an editor sees of a contract (contractStatus) says it is
\* in grace until its end and its days of grace are over.
GraceFollows == \A a \in Apps : app[a].state = "grace" /\ app'[a].state = "suspended" /\ hand'[a] # "editor" =>
    \A c \in Contracts : row[c] # None /\ ~ row[c].cancelled /\ a \in row[c].covers /\ row[c].lapsed
        => day > row[c].ends + row[c].grace

\* A contract that ended for good, at whatever step its lapse is cut short, ends up with each of its
\* apps off, unless an editor had a hand in it.
EndedIsOff == \A c \in Contracts, a \in Apps :
    row[c] # None /\ ~ row[c].cancelled /\ ~ row[c].auto /\ a \in row[c].covers /\ row[c].ends + row[c].grace < Horizon - 1
        => app[a].state = "suspended" \/ hand[a] # "contract"

\* A renewed contract is warned of again before it lapses at its new end, when that is far enough.
LapsedWasWarned == AtRest => \A c \in Contracts :
    row[c] # None /\ row[c].lapsed => <<c, row[c].ends>> \in mailed

\* What an app shows of the end of a contract is when it ends.
NoticeTrue == AtRest => \A c \in Contracts : shown[c] # None => shown[c] = row[c].ends

\* An app that an editor switched off stays off until an editor switches it on.
HandKept == \A a \in Apps : hand[a] = "editor" /\ app[a].state = "suspended" /\ app'[a].state # "suspended" =>
    edits' # edits

\* No lapse touches an app that another contract in force covers.
SuccessorKeepsOn == AtRest => \A a \in Apps : CoveredOff(a) =>
    ~ \E c \in Contracts : row[c] # None /\ a \in row[c].covers /\ InForce(row[c])

\* No app is covered by two contracts at once.
OneContract == \A c, d \in Contracts : c # d /\ row[c] # None /\ row[d] # None /\ ~ row[c].cancelled /\ ~ row[d].cancelled =>
    row[c].covers \cap row[d].covers = {} \/ ~ Overlap(row[c], row[d])

\* A grace period given by hand lasts as long as it says.
GivenGraceLasts == \A a \in Apps : hand[a] = "editor" /\ hand'[a] = "editor" /\ app[a].state = "grace" /\ app'[a].state = "suspended" =>
    day >= app[a].until \/ edits' # edits

=============================================================================
