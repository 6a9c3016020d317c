------------------------ MODULE NotificationDigests ------------------------
(***************************************************************************)
(* The inbox, the queue consumer that fills it and the mails about it in   *)
(* apps/notifications: a notification is mailed at once or waits, pending, *)
(* for the digest of its user, and the digest leaves out what was read.    *)
(***************************************************************************)
EXTENDS Integers, FiniteSets

CONSTANTS
    Users,
    Notices,    \* events, by their id
    Requests,   \* deliveries of events and requests of users
    Crons,      \* runs of the hourly cron at the digest hour
    None,
    Week,       \* days between two weekly digests
    Batch,      \* recipients of a batch: DIGEST.batchSize
    MaxFires,   \* bound: runs in a day
    MaxTries,   \* bound: deliveries of an event
    MaxFaults,  \* bound: mails that fail and invocations cut short
    MaxEdits,   \* bound: requests of users
    Frequencies, \* the email frequencies in use
    Together,   \* bound: whether requests and runs overlap
    Duties      \* bound: which of them happen

DigestAssumption ==
    /\ {Week, Batch} \subseteq Nat \ {0} /\ {MaxFires, MaxTries, MaxFaults, MaxEdits} \subseteq Nat
    /\ Together \in BOOLEAN /\ Frequencies \subseteq {"immediate", "daily", "weekly", "never"}

VARIABLES day, fires, \* the day of the week, 0 being Monday, and the runs it had
          to,      \* recipients: lastDigestAt is so many days ago, Week for longer and for never
          note,    \* notifications, and whether they are older than today
          tries,   \* the deliveries each event had
          mailed,  \* history: how often a mail listed a notification, and the days since a digest did
          gone,    \* history: the notifications their user deleted
          asked,   \* history: the preference each user saved last, switch by switch
          req, run, faults, edits

vars == <<day, fires, to, note, tries, mailed, gone, asked, req, run, faults, edits>>

Ago == 0 .. Week
Older(d) == IF d = Week THEN Week ELSE d + 1
Recipient == [addr : BOOLEAN, freq : Frequencies, on : BOOLEAN, last : Ago]
Notice == [user : Users, read : BOOLEAN, status : {"none", "pending", "sent", "skipped"}, old : BOOLEAN]
NoReq == [at |-> "none", n |-> None, u |-> None, freq |-> "daily", on |-> TRUE, wants |-> FALSE, what |-> "none"]
NoRun == [at |-> "none", todo |-> {}, period |-> "daily", failed |-> {}, progress |-> FALSE, u |-> None, ids |-> {}]

TypeOK ==
    /\ day \in 0 .. Week - 1 /\ fires \in 0 .. MaxFires /\ faults \in 0 .. MaxFaults /\ edits \in 0 .. MaxEdits
    /\ to \in [Users -> Recipient]
    /\ \A n \in Notices : note[n] # None => note[n] \in Notice
    /\ tries \in [Notices -> 0 .. MaxTries] /\ gone \subseteq Notices
    /\ \A q \in Requests : req[q].at \in {"none", "insert", "mail", "mark", "save"}
    /\ \A k \in Crons : run[k].at \in {"none", "select", "skip", "list", "mail", "mark", "stamp", "over"}

Idle == /\ \A q \in Requests : req[q].at = "none"
        /\ \A k \in Crons : run[k].at \in {"none", "over"}
Free(q) == req[q].at = "none" /\ (Together \/ Idle)
At(q, at) == req[q].at = at
Go(q, r) == req' = [req EXCEPT ![q] = r]
End(q) == Go(q, NoReq)
Fault == faults < MaxFaults /\ faults' = faults + 1
Waits(n) == note[n] # None /\ note[n].status = "pending"
Pending(u) == {n \in Notices : Waits(n) /\ note[n].user = u}

-----------------------------------------------------------------------------
\* ingestEvent, on a delivery of an event: learns the address, reads the preferences,
Deliver(q, n, u, addr) ==
    LET p == [to[u] EXCEPT !.addr = @ \/ addr] IN
    /\ Free(q) /\ tries[n] < MaxTries /\ (tries[n] > 0 /\ note[n] # None => note[n].user = u)
    /\ tries' = [tries EXCEPT ![n] = @ + 1]
    /\ to' = [to EXCEPT ![u] = p]
    /\ Go(q, [NoReq EXCEPT !.at = "insert", !.n = n, !.u = u, !.freq = p.freq,
                           !.wants = p.on /\ p.freq # "never" /\ p.addr])
    /\ UNCHANGED <<day, fires, note, mailed, gone, asked, run, faults, edits>>

FaultyAgain(n) == FALSE

\* The id is the primary key: a redelivery inserts nothing.
Again(n) == note[n] # None

\* inserts the notification,
Insert(q) ==
    LET r == req[q] IN
    /\ At(q, "insert")
    /\ IF Again(r.n) THEN End(q) /\ UNCHANGED note
       ELSE /\ note' = [note EXCEPT ![r.n] = [user |-> r.u, read |-> FALSE, old |-> FALSE,
                                              status |-> IF r.wants THEN "pending" ELSE "none"]]
            /\ IF r.wants /\ r.freq = "immediate" THEN Go(q, [r EXCEPT !.at = "mail"]) ELSE End(q)
    /\ UNCHANGED <<day, fires, to, tries, mailed, gone, asked, run, faults, edits>>

Mail(S, d) == mailed' = [n \in Notices |-> IF n \in S THEN [times |-> mailed[n].times + 1, digest |-> d] ELSE mailed[n]]

\* mails it at once when that is the frequency, or leaves it to the digest,
SendImmediate(q) ==
    /\ At(q, "mail")
    /\ \/ Mail({req[q].n}, mailed[req[q].n].digest) /\ Go(q, [req[q] EXCEPT !.at = "mark"]) /\ UNCHANGED faults
       \/ Fault /\ End(q) /\ UNCHANGED mailed
    /\ UNCHANGED <<day, fires, to, note, tries, gone, asked, run, edits>>

Misspelt(row) == [row EXCEPT !.status = "mailed"]

Marked(row) == [row EXCEPT !.status = "sent"]

MarkAll(S) == note' = [n \in Notices |-> IF n \in S /\ note[n] # None THEN Marked(note[n]) ELSE note[n]]

\* and marks it.
MarkSent(q) ==
    /\ At(q, "mark") /\ MarkAll({req[q].n}) /\ End(q)
    /\ UNCHANGED <<day, fires, to, tries, mailed, gone, asked, run, faults, edits>>

\* The invocation of a consumer is cut short: the queue delivers the event again.
CutIngest(q) ==
    /\ req[q].at \in {"insert", "mail", "mark"} /\ "cut" \in Duties /\ Fault /\ End(q)
    /\ UNCHANGED <<day, fires, to, note, tries, mailed, gone, asked, run, edits>>

-----------------------------------------------------------------------------
\* The cron at the digest hour starts with the daily digest.
Fire(k) ==
    /\ run[k].at \in {"none", "over"} /\ fires < MaxFires /\ (Together \/ Idle)
    /\ fires' = fires + 1 /\ run' = [run EXCEPT ![k] = [NoRun EXCEPT !.at = "select"]]
    /\ UNCHANGED <<day, to, note, tries, mailed, gone, asked, req, faults, edits>>

FaultyFor(period) == IF period = "daily" THEN {"daily"} ELSE {"weekly"}

\* FREQUENCIES_FOR
For(period) == IF period = "daily" THEN {"daily", "immediate"} ELSE {"weekly"}

FaultyGuarded(u, period) == to[u].last <= (IF period = "daily" THEN 1 ELSE Week)

\* A recipient digested within the guard window (20 hours, 6 days) is not selected again.
Guarded(u, period) == to[u].last < (IF period = "daily" THEN 1 ELSE Week)

Due(k) == {u \in Users : /\ to[u].freq \in For(run[k].period) /\ to[u].addr /\ ~ Guarded(u, run[k].period)
                         /\ u \notin run[k].failed /\ Pending(u) # {}}
NextPeriod(k) ==
    IF run[k].period = "daily" /\ day = 0 THEN [NoRun EXCEPT !.at = "select", !.period = "weekly"] ELSE [NoRun EXCEPT !.at = "over"]

\* runPeriod selects a batch of recipients that are due, until there are none
SelectDue(k, S) ==
    /\ run[k].at = "select" /\ S \subseteq Due(k)
    /\ Cardinality(S) = (IF Cardinality(Due(k)) < Batch THEN Cardinality(Due(k)) ELSE Batch)
    /\ run' = [run EXCEPT ![k] = IF S = {} THEN NextPeriod(k) ELSE [@ EXCEPT !.at = "skip", !.todo = S, !.progress = FALSE]]
    /\ UNCHANGED <<day, fires, to, note, tries, mailed, gone, asked, req, faults, edits>>

\* or a batch made no progress.
NextBatch(k) ==
    /\ run[k].at = "skip" /\ run[k].todo = {}
    /\ run' = [run EXCEPT ![k] = IF run[k].progress THEN [@ EXCEPT !.at = "select"] ELSE NextPeriod(k)]
    /\ UNCHANGED <<day, fires, to, note, tries, mailed, gone, asked, req, faults, edits>>

FaultySkipped(row) == row

Skipped(row) == IF row.read THEN [row EXCEPT !.status = "skipped"] ELSE row

\* digestRecipient: what the user read meanwhile is skipped,
SkipRead(k, u) ==
    /\ run[k].at = "skip" /\ u \in run[k].todo
    /\ note' = [n \in Notices |-> IF n \in Pending(u) THEN Skipped(note[n]) ELSE note[n]]
    /\ run' = [run EXCEPT ![k] = [@ EXCEPT !.at = "list", !.u = u, !.todo = @ \ {u}]]
    /\ UNCHANGED <<day, fires, to, tries, mailed, gone, asked, req, faults, edits>>

\* what is pending is listed, if anything is,
ListPending(k) ==
    LET ids == Pending(run[k].u) IN
    /\ run[k].at = "list"
    /\ run' = [run EXCEPT ![k].at = IF ids = {} THEN "stamp" ELSE "mail", ![k].ids = ids]
    /\ UNCHANGED <<day, fires, to, note, tries, mailed, gone, asked, req, faults, edits>>

\* and mailed; a mail that fails leaves it pending and the recipient out of this run.
SendDigest(k) ==
    /\ run[k].at = "mail"
    /\ \/ Mail(run[k].ids, 0) /\ run' = [run EXCEPT ![k].at = "mark"] /\ UNCHANGED faults
       \/ Fault /\ run' = [run EXCEPT ![k] = [@ EXCEPT !.at = "skip", !.failed = @ \cup {run[k].u}]] /\ UNCHANGED mailed
    /\ UNCHANGED <<day, fires, to, note, tries, gone, asked, req, edits>>

\* The rows of the snapshot are marked,
MarkDigest(k) ==
    /\ run[k].at = "mark" /\ MarkAll(run[k].ids) /\ run' = [run EXCEPT ![k].at = "stamp"]
    /\ UNCHANGED <<day, fires, to, tries, mailed, gone, asked, req, faults, edits>>

FaultyDigested(row) == row

Digested(row) == [row EXCEPT !.last = 0]

\* then the recipient.
Stamp(k) ==
    /\ run[k].at = "stamp"
    /\ to' = [to EXCEPT ![run[k].u] = Digested(@)]
    /\ run' = [run EXCEPT ![k] = [@ EXCEPT !.at = "skip", !.progress = TRUE]]
    /\ UNCHANGED <<day, fires, note, tries, mailed, gone, asked, req, faults, edits>>

\* The run is cut short.
CutRun(k) ==
    /\ run[k].at \notin {"none", "over"} /\ "cut" \in Duties /\ Fault
    /\ run' = [run EXCEPT ![k] = NoRun]
    /\ UNCHANGED <<day, fires, to, note, tries, mailed, gone, asked, req, edits>>

-----------------------------------------------------------------------------
Edit(what) == what \in Duties /\ edits < MaxEdits /\ edits' = edits + 1

\* A request of a user teaches their address.
Known(u) == to' = [to EXCEPT ![u].addr = TRUE]

\* POST /me/notifications/:id/read and /unread; read-all marks those of the user that are unread.
MarkRead(n, read) ==
    /\ note[n] # None /\ Edit("read") /\ (Together \/ Idle)
    /\ Known(note[n].user) /\ note' = [note EXCEPT ![n].read = read]
    /\ UNCHANGED <<day, fires, tries, mailed, gone, asked, req, run, faults>>

ReadAll(u) ==
    /\ Edit("read") /\ (Together \/ Idle) /\ Known(u)
    /\ note' = [n \in Notices |-> IF note[n] # None /\ note[n].user = u THEN [note[n] EXCEPT !.read = TRUE] ELSE note[n]]
    /\ UNCHANGED <<day, fires, tries, mailed, gone, asked, req, run, faults>>

\* PUT /me/preferences: one switch at a time, merged over what is stored,
BeginSave(q, u, freq, on) ==
    /\ Free(q) /\ Edit("save") /\ (freq = None \/ on = None)
    /\ Known(u)
    /\ Go(q, [NoReq EXCEPT !.at = "save", !.u = u, !.what = IF freq = None THEN "on" ELSE "freq",
                           !.freq = IF freq = None THEN to[u].freq ELSE freq, !.on = IF on = None THEN to[u].on ELSE on])
    /\ UNCHANGED <<day, fires, note, tries, mailed, gone, asked, run, faults>>

FaultyMerged(row, r) == [row EXCEPT !.freq = r.freq]

Merged(row, r) == [row EXCEPT !.freq = r.freq, !.on = r.on]

\* and both are written.
Save(q) ==
    LET r == req[q] IN
    /\ At(q, "save")
    /\ to' = [to EXCEPT ![r.u] = Merged(@, r)]
    /\ asked' = [asked EXCEPT ![r.u] = IF r.what = "on" THEN [@ EXCEPT !.on = r.on] ELSE [@ EXCEPT !.freq = r.freq]]
    /\ End(q) /\ UNCHANGED <<day, fires, note, tries, mailed, gone, run, faults, edits>>

\* DELETE /me/notifications/:id
Remove(n) ==
    /\ note[n] # None /\ Edit("delete") /\ (Together \/ Idle)
    /\ Known(note[n].user) /\ note' = [note EXCEPT ![n] = None] /\ gone' = gone \cup {n}
    /\ UNCHANGED <<day, fires, tries, mailed, asked, req, run, faults>>

\* A day passes: its digests ran, at the digest hour.
Tick ==
    /\ fires > 0 /\ \A k \in Crons : run[k].at \in {"none", "over"}
    /\ day' = (day + 1) % Week /\ fires' = 0 /\ run' = [k \in Crons |-> NoRun]
    /\ to' = [u \in Users |-> [to[u] EXCEPT !.last = Older(@)]]
    /\ mailed' = [n \in Notices |-> [mailed[n] EXCEPT !.digest = Older(@)]]
    /\ note' = [n \in Notices |-> IF note[n] = None THEN None ELSE [note[n] EXCEPT !.old = TRUE]]
    /\ UNCHANGED <<tries, gone, asked, req, faults, edits>>

\* GET /me/notifications
List == UNCHANGED vars

Init ==
    /\ day \in 0 .. Week - 1 /\ fires = 0 /\ gone = {}
    /\ \E u \in [Users -> Frequencies] :
         /\ to = [x \in Users |-> [addr |-> FALSE, freq |-> u[x], on |-> TRUE, last |-> Week]]
         /\ asked = [x \in Users |-> [freq |-> u[x], on |-> TRUE]]
    /\ note = [n \in Notices |-> None] /\ tries = [n \in Notices |-> 0]
    /\ mailed = [n \in Notices |-> [times |-> 0, digest |-> Week]]
    /\ req = [q \in Requests |-> NoReq] /\ run = [k \in Crons |-> NoRun]
    /\ faults = 0 /\ edits = 0

Consume == \E q \in Requests : Insert(q) \/ SendImmediate(q) \/ MarkSent(q) \/ Save(q)
Digest == \E k \in Crons :
    \/ \E S \in SUBSET Users : SelectDue(k, S)
    \/ NextBatch(k) \/ (\E u \in Users : SkipRead(k, u)) \/ ListPending(k) \/ SendDigest(k) \/ MarkDigest(k) \/ Stamp(k)

Next ==
    \/ Consume \/ Digest
    \/ \E q \in Requests :
         \/ CutIngest(q)
         \/ \E n \in Notices, u \in Users, addr \in BOOLEAN : Deliver(q, n, u, addr)
         \/ \E u \in Users : \/ \E freq \in Frequencies : BeginSave(q, u, freq, None)
                             \/ \E on \in BOOLEAN : BeginSave(q, u, None, on)
    \/ \E k \in Crons : Fire(k) \/ CutRun(k)
    \/ \E n \in Notices : Remove(n) \/ \E read \in BOOLEAN : MarkRead(n, read)
    \/ \E u \in Users : ReadAll(u)
    \/ Tick \/ List

Spec == Init /\ [][Next]_vars

\* The cron fires every day, and what a request or a run began goes on.
Fairness ==
    /\ WF_vars(Consume) /\ WF_vars(Digest) /\ WF_vars(Tick) /\ WF_vars(\E k \in Crons : fires = 0 /\ Fire(k))

FairSpec == Spec /\ Fairness

-----------------------------------------------------------------------------
\* However often its event is delivered and whichever mail fails, no mail lists a notification that
\* another listed: it went out at once or in one digest.
MailedOnce == \A n \in Notices : mailed[n].times <= 1

\* A notification that was read before a digest was put together is not in it.
ReadIsNotMailed ==
    \A k \in Crons : run[k].at = "mail" /\ run'[k].at = "mark" => \A n \in run[k].ids : ~ note[n].read

\* The recipient is stamped with what a digest covered: once the runs are over, nothing went out in a
\* digest later than the last one its user is known to have had.
StampedWithRows ==
    Idle => \A n \in Notices : note[n] # None /\ note[n].status = "sent" /\ mailed[n].digest < Week =>
                                  to[note[n].user].last <= mailed[n].digest

\* The digests of a day leave nothing behind of what an account was owed that day and was there the day
\* before, unless a mail failed.
NothingLeftOver ==
    \A k \in Crons : run[k].at # "over" /\ run'[k].at = "over" /\ faults = 0 =>
         \A n \in Notices : LET p == to[note[n].user] IN Waits(n) /\ note[n].old /\ p.addr =>
             p.freq = "never" \/ (p.freq = "weekly" /\ day # 0)

\* What was deleted stays so.
GoneForGood == \A n \in gone : note[n] = None

\* What a user saves, one switch at a time, is what is stored.
SwitchesKept ==
    (\A q \in Requests : ~ At(q, "save")) => \A u \in Users : to[u].freq = asked[u].freq /\ to[u].on = asked[u].on

\* What waits for a digest goes out in one, unless its user reads it first.
WaitingEnds == \A n \in Notices : ~ Waits(n)
=============================================================================
