--------------------------- MODULE ContractCycles ---------------------------
(***************************************************************************)
(* The hours of one service contract of apps/custom-apps: its cycles,      *)
(* brought up to the calendar by whoever reads the contract first, what    *)
(* they carry over, and the work log filed under them, while the panel     *)
(* edits, cancels and deletes the contract. Requests interleave between    *)
(* their statements.                                                       *)
(***************************************************************************)
EXTENDS Integers, FiniteSetsExt

CONSTANTS
    Entries,   \* entries of the work log
    Requests,  \* requests and the cron, each of which syncs the cycles
    Period,    \* days of a cycle (weekly, daily; a month is a fixed number of days here)
    Horizon,   \* bound: days of the calendar, the first being starts_on
    Included,  \* included_minutes
    MaxKept,   \* rollover_max_minutes
    MaxAge,    \* rollover_max_cycles
    MaxSteps,  \* maxCyclesPerRun: cycles one sync opens (400 in the code)
    MaxEdits,  \* bound: edits of the contract and of entries
    Duties     \* bound: which edits happen

CyclesAssumption ==
    /\ Period \in Nat \ {0} /\ Horizon \in Nat /\ MaxEdits \in Nat
    /\ Included \in Nat /\ MaxKept \in Nat /\ MaxAge \in Nat \ {0}
    /\ MaxSteps \in Nat \ {0}

VARIABLES day,      \* today, in Santiago
          contract, \* the row of contracts, or Gone
          cycles,   \* contract_cycles by starts_on
          logs,     \* work_logs
          closedOn, \* history: the day each cycle was closed
          edits,    \* counter of the bound
          req       \* requests, between two statements

vars == <<day, contract, cycles, logs, closedOn, edits, req>>

Days == 0 .. Horizon
Forever == Horizon + 2 * Period  \* no ends_on, no cancelled_at
Never == Horizon + 2 * Period
Minutes == 1 .. 2
Amounts == 0 .. 8 * Included + 8
Bucket == [from : Days, minutes : Amounts, age : 0 .. Horizon + 1]
Contract == [ends : Days \cup {Forever}, cancelled : Days \cup {Never}, rollover : BOOLEAN]
Gone == [ends |-> -1, cancelled |-> -1, rollover |-> FALSE]
Cycle == [ends : 1 .. Forever, included : 0 .. Included, carried : SUBSET Bucket,
          status : {"open", "closed", "billed"}, used : Amounts, expired : Amounts]
NoLog == [day |-> -1, minutes |-> 0, cycle |-> -1]
NoReq == [duty |-> "none", at |-> "none", day |-> 0, contract |-> Gone, latest |-> -1,
          row |-> [ends |-> -1], used |-> 0, log |-> NoLog, new |-> Gone, entry |-> "none",
          steps |-> 0]

TypeOK ==
    /\ day \in Days /\ contract \in Contract \cup {Gone}
    /\ DOMAIN cycles \subseteq Days /\ DOMAIN closedOn \subseteq Days
    /\ \A s \in DOMAIN cycles :
        LET c == cycles[s] IN
        /\ c.ends \in s + 1 .. s + Period /\ c.included \in 0 .. Included
        /\ \A b \in c.carried : b.minutes \in 1 .. MaxKept /\ b.age \in 1 .. MaxAge /\ b.from \in 0 .. s - 1
        /\ c.status \in {"open", "closed", "billed"} /\ c.used \in Nat /\ c.expired \in Nat
    /\ \A e \in Entries : logs[e] = NoLog \/ (logs[e].minutes \in Minutes /\ logs[e].cycle \in Days \cup {-1})
    /\ edits \in 0 .. MaxEdits

Set(f, x, v) == [y \in DOMAIN f \cup {x} |-> IF y = x THEN v ELSE f[y]]
Least(a, b) == IF a < b THEN a ELSE b
Total(buckets) == MapThenSumSet(LAMBDA b : b.minutes, buckets)
Used(s) == MapThenSumSet(LAMBDA e : logs[e].minutes, {e \in Entries : logs[e].cycle = s})

-----------------------------------------------------------------------------
\* cycleContaining for an anchor on day 0: the period d falls in, cut at the contract's last day.
Containing(d, last) ==
    IF d > last THEN {}
    ELSE LET s == Period * (d \div Period) IN {[starts |-> s, ends |-> Least(s + Period, last + 1)]}

\* cycleOpeningOn: the rest of the period that starts on d, with its share of the minutes, rounded.
OpeningOn(d, last) ==
    {[starts |-> d, ends |-> c.ends,
      included |-> IF c.starts = d THEN Included ELSE (2 * Included * (c.ends - d) + Period) \div (2 * Period)] :
        c \in Containing(d, last)}

\* What is left of a bucket when the older ones are drawn from first.
Left(b, buckets, used) ==
    LET older == Total({x \in buckets : x.from < b.from})
        draw  == IF used > older THEN used - older ELSE 0
    IN  IF draw > b.minutes THEN 0 ELSE b.minutes - draw

FaultyCarried(own, rollover, used) ==
    IF ~ rollover THEN {}
    ELSE LET aged == {[b EXCEPT !.minutes = Left(b, own, used), !.age = @ + 1] : b \in own}
             kept == {b \in aged : b.minutes > 0 /\ b.age <= MaxAge}
             room(b) == MaxKept - Total({x \in kept : x.age > b.age})
         IN  {[b EXCEPT !.minutes = Least(@, room(b))] : b \in {x \in kept : room(x) > 0}}

FaultyCarriedEmpty(own, rollover, used) ==
    IF ~ rollover THEN {}
    ELSE LET aged == {[b EXCEPT !.minutes = Left(b, own, used), !.age = @ + 1] : b \in own}
             room(b) == MaxKept - Total({x \in aged : x.age < b.age})
         IN  {[b EXCEPT !.minutes = Least(@, room(b))] : b \in {x \in aged : x.age <= MaxAge /\ room(x) > 0}}

\* closeCycle: what rolls over, of the buckets with minutes left that are not too old, the newest
\* first within the cap.
Carried(own, rollover, used) ==
    IF ~ rollover THEN {}
    ELSE LET aged == {[b EXCEPT !.minutes = Left(b, own, used), !.age = @ + 1] : b \in own}
             kept == {b \in aged : b.minutes > 0 /\ b.age <= MaxAge}
             room(b) == MaxKept - Total({x \in kept : x.age < b.age})
         IN  {[b EXCEPT !.minutes = Least(@, room(b))] : b \in {x \in kept : room(x) > 0}}

\* The buckets a cycle has: what it was carried and its own minutes.
Buckets(s, c) == c.carried \cup {[from |-> s, minutes |-> c.included, age |-> 0]}

FaultyExpired(s, c, rollover, used) ==
    LET own == Buckets(s, c) IN IF used > Total(own) THEN 0 ELSE Total(own) - used

\* The leftover that does not roll over; Carried is given by the caller's policy.
Expired(s, c, rollover, used) ==
    LET own == Buckets(s, c)
        left == IF used > Total(own) THEN 0 ELSE Total(own) - used
    IN  left - Total(Carried(own, rollover, used))

-----------------------------------------------------------------------------
LastDay(k) == Least(k.ends, k.cancelled)
Covers(k, d) == d <= k.ends /\ d <= k.cancelled
Latest == IF cycles = <<>> THEN -1 ELSE Max(DOMAIN cycles)

\* followedEnd: where the end of an open cycle belongs, when that is somewhere else.
FollowedEnd(k, s, c) == {n.ends : n \in {x \in Containing(s, LastDay(k)) : x.ends # c.ends /\ x.ends > s}}

FaultyNeedsSync(k, s, d) ==
    IF s = -1 THEN TRUE
    ELSE IF cycles[s].status = "open" THEN FollowedEnd(k, s, cycles[s]) # {} \/ cycles[s].ends < d
    ELSE cycles[s].ends <= d /\ cycles[s].ends <= LastDay(k)

\* needsSync, for a list, which leaves alone the contracts it says no of.
NeedsSync(k, s, d) ==
    IF s = -1 THEN TRUE
    ELSE IF cycles[s].status = "open" THEN FollowedEnd(k, s, cycles[s]) # {} \/ cycles[s].ends <= d
    ELSE cycles[s].ends <= d /\ cycles[s].ends <= LastDay(k)

At(q, at) == req[q].at = at
End(q) == req' = [req EXCEPT ![q] = NoReq]
Edit(what) == what \in Duties /\ edits < MaxEdits /\ edits' = edits + 1

\* A request reads the contract and whatever it checks before it syncs.
Begin(q, duty, entry, log, new) ==
    /\ req[q] = NoReq /\ contract # Gone
    /\ req' = [req EXCEPT ![q] = [NoReq EXCEPT !.duty = duty, !.at = "latest", !.day = day,
                                      !.contract = contract, !.entry = entry, !.log = log, !.new = new]]

\* GET of the contract, its cycles or one cycle, POST .../close, the cron; and the list of contracts.
BeginView(q) ==
    /\ \E duty \in {"view", "list"} \cap Duties : Begin(q, duty, "none", NoLog, Gone)
    /\ UNCHANGED <<day, contract, cycles, logs, closedOn, edits>>

\* POST /work-logs, or the log of a completed maintenance, of a day the contract covers; and PATCH
\* /work-logs that moves an entry to another day, if its cycle is open.
BeginLog(q) ==
    /\ Edit("log")
    /\ \E e \in Entries, d \in 0 .. day, m \in Minutes :
        /\ logs[e].cycle # -1 => cycles[logs[e].cycle].status = "open"
        /\ Covers(contract, d)
        /\ Begin(q, "log", e, [day |-> d, minutes |-> m, cycle |-> -1], Gone)
    /\ UNCHANGED <<day, contract, cycles, logs, closedOn>>

\* PATCH /contracts/:id or POST .../renew with ends_on, or with the rollover: refused when a cycle
\* starts later, or when it is cancelled.
BeginEdit(q) ==
    /\ \/ /\ Edit("end")
          /\ \E e \in Days \cup {Forever} :
              /\ \A s \in DOMAIN cycles : s <= e
              /\ Begin(q, "end", "none", NoLog, [contract EXCEPT !.ends = e])
       \/ /\ Edit("rollover")
          /\ Begin(q, "rollover", "none", NoLog, [contract EXCEPT !.rollover = ~ @])
    /\ contract.cancelled = Never
    /\ UNCHANGED <<day, contract, cycles, logs, closedOn>>

\* POST .../cancel: today is the last day.
Cancel(q) ==
    /\ Edit("cancel") /\ contract # Gone /\ contract.cancelled = Never /\ req[q] = NoReq
    /\ contract' = [contract EXCEPT !.cancelled = day]
    /\ req' = [req EXCEPT ![q] = [NoReq EXCEPT !.duty = "view", !.at = "latest", !.day = day, !.contract = contract']]
    /\ UNCHANGED <<day, cycles, logs, closedOn>>

-----------------------------------------------------------------------------
\* syncCycles reads the latest cycle; a list stops there when it needs no sync.
ReadLatest(q) ==
    /\ At(q, "latest")
    /\ IF req[q].duty = "list" /\ ~ NeedsSync(req[q].contract, Latest, req[q].day)
       THEN End(q)
       ELSE req' = [req EXCEPT ![q].at = "step", ![q].latest = Latest,
                               ![q].row = IF Latest = -1 THEN NoReq.row ELSE cycles[Latest]]
    /\ UNCHANGED <<day, contract, cycles, logs, closedOn, edits>>

\* openCycle inserts the cycle unless one starts that day already, and goes on with the one there is,
\* or is done when it was the last of the run.
Open(q, start, carried) ==
    \E b \in OpeningOn(start, LastDay(req[q].contract)) :
        /\ contract # Gone
        /\ cycles' = IF start \in DOMAIN cycles THEN cycles
                     ELSE Set(cycles, start, [ends |-> b.ends, included |-> b.included, carried |-> carried,
                                              status |-> "open", used |-> 0, expired |-> 0])
        /\ req' = [req EXCEPT ![q].latest = start, ![q].row = cycles'[start], ![q].steps = @ + 1,
                              ![q].at = IF req[q].steps + 1 = MaxSteps THEN "synced" ELSE @]

Synced(q) == req' = [req EXCEPT ![q].at = "synced"]

\* advanceCycles opens the first cycle,
OpenFirst(q) ==
    /\ At(q, "step") /\ req[q].latest = -1
    /\ IF OpeningOn(0, LastDay(req[q].contract)) = {} \/ contract = Gone
       THEN Synced(q) /\ UNCHANGED cycles ELSE Open(q, 0, {})
    /\ UNCHANGED <<day, contract, logs, closedOn, edits>>

FaultyMovable(s) == s \in DOMAIN cycles

\* followContractEnd: where status = 'open'
Movable(s) == s \in DOMAIN cycles /\ cycles[s].status = "open"

\* moves the end of an open one (followContractEnd), and is done if it is still running,
Follow(q) ==
    LET s == req[q].latest
        ends == FollowedEnd(req[q].contract, s, req[q].row)
        moves == ends # {} /\ Movable(s)
        row == IF moves THEN [cycles[s] EXCEPT !.ends = CHOOSE n \in ends : TRUE] ELSE req[q].row
    IN  /\ At(q, "step") /\ s # -1 /\ req[q].row.status = "open"
        /\ cycles' = IF moves THEN [cycles EXCEPT ![s] = row] ELSE cycles
        /\ req' = [req EXCEPT ![q].row = row, ![q].at = IF row.ends > req[q].day THEN "synced" ELSE "usage"]
        /\ UNCHANGED <<day, contract, logs, closedOn, edits>>

\* or sums what was logged in it
ReadUsage(q) ==
    /\ At(q, "usage")
    /\ req' = [req EXCEPT ![q].used = Used(req[q].latest), ![q].at = "close"]
    /\ UNCHANGED <<day, contract, cycles, logs, closedOn, edits>>

FaultyClosable(s) == s \in DOMAIN cycles

\* where status = 'open'
Closable(s) == s \in DOMAIN cycles /\ cycles[s].status = "open"

\* and closes it, if it is open still, and goes on with the row as it is then,
Close(q) ==
    LET s == req[q].latest
        row == req[q].row
    IN  /\ At(q, "close")
        /\ IF Closable(s)
           THEN /\ cycles' = [cycles EXCEPT ![s].status = "closed", ![s].used = req[q].used,
                                  ![s].expired = Expired(s, row, req[q].contract.rollover, req[q].used)]
                /\ closedOn' = Set(closedOn, s, req[q].day)
           ELSE UNCHANGED <<cycles, closedOn>>
        /\ IF s \in DOMAIN cycles
           THEN req' = [req EXCEPT ![q].at = "step", ![q].row = cycles'[s]]
           ELSE End(q)
        /\ UNCHANGED <<day, contract, logs, edits>>

\* then opens the one after a closed one, with what it is carried by the policy of the contract,
OpenNext(q) ==
    LET s == req[q].latest
        row == req[q].row
        next == row.ends
        carried == Carried(Buckets(s, row), req[q].contract.rollover, row.used)
    IN  /\ At(q, "step") /\ s # -1 /\ row.status # "open"
        /\ IF next > req[q].day \/ next > LastDay(req[q].contract) \/ contract = Gone
           THEN Synced(q) /\ UNCHANGED cycles
           ELSE Open(q, next, carried)
        /\ UNCHANGED <<day, contract, logs, closedOn, edits>>

-----------------------------------------------------------------------------
\* The cycle the day of an entry falls in has to be open.
Resolve(q) ==
    LET d == req[q].log.day
        found == {s \in DOMAIN cycles : s <= d /\ d < cycles[s].ends}
    IN  /\ At(q, "synced") /\ req[q].duty = "log"
        /\ IF \E s \in found : cycles[s].status # "open" THEN End(q)
           ELSE req' = [req EXCEPT ![q].at = "file", ![q].log.cycle = IF found = {} THEN -1 ELSE CHOOSE s \in found : TRUE]
        /\ UNCHANGED <<day, contract, cycles, logs, closedOn, edits>>

\* The entry is written under it.
File(q) ==
    /\ At(q, "file")
    /\ logs' = [logs EXCEPT ![req[q].entry] =
           [req[q].log EXCEPT !.cycle = IF @ \in DOMAIN cycles THEN @ ELSE -1]]
    /\ End(q) /\ UNCHANGED <<day, contract, cycles, closedOn, edits>>

\* DELETE /work-logs, of an entry whose cycle is open: it is read,
BeginUnlog(q) ==
    /\ Edit("unlog")
    /\ \E e \in Entries :
        /\ logs[e] # NoLog /\ (logs[e].cycle # -1 => cycles[logs[e].cycle].status = "open")
        /\ Begin(q, "unlog", e, NoLog, Gone)
    /\ UNCHANGED <<day, contract, cycles, logs, closedOn>>

\* and deleted, without a sync.
Unlog(q) ==
    /\ At(q, "latest") /\ req[q].duty = "unlog"
    /\ logs' = [logs EXCEPT ![req[q].entry] = NoLog]
    /\ End(q) /\ UNCHANGED <<day, contract, cycles, closedOn, edits>>

\* The edit is saved after the sync of the view before it, and another sync follows.
SaveEdit(q) ==
    /\ At(q, "synced") /\ req[q].duty \in {"end", "rollover"}
    /\ IF contract = Gone THEN End(q) /\ UNCHANGED contract
       ELSE /\ contract' = [contract EXCEPT
                !.ends = IF req[q].duty = "end" THEN req[q].new.ends ELSE @,
                !.rollover = IF req[q].duty = "rollover" THEN req[q].new.rollover ELSE @]
            /\ req' = [req EXCEPT ![q] = [NoReq EXCEPT !.duty = "view", !.at = "latest", !.day = req[q].day, !.contract = contract']]
    /\ UNCHANGED <<day, cycles, logs, closedOn, edits>>

\* A read is answered.
Answer(q) ==
    /\ At(q, "synced") /\ req[q].duty \in {"view", "list"}
    /\ End(q) /\ UNCHANGED <<day, contract, cycles, logs, closedOn, edits>>

\* POST /cycles/:id/bill
Bill ==
    /\ \E s \in DOMAIN cycles : cycles[s].status = "closed" /\ cycles' = [cycles EXCEPT ![s].status = "billed"]
    /\ Edit("bill") /\ UNCHANGED <<day, contract, logs, closedOn, req>>

HasHistory == (\E s \in DOMAIN cycles : cycles[s].status # "open") \/ \E e \in Entries : logs[e] # NoLog

\* DELETE /contracts/:id counts the closed cycles and the entries,
BeginDelete(q) ==
    /\ Edit("delete") /\ ~ HasHistory /\ Begin(q, "delete", "none", NoLog, Gone)
    /\ UNCHANGED <<day, contract, cycles, logs, closedOn>>

\* and deletes it with its cycles; entries stay, under no cycle.
Delete(q) ==
    /\ At(q, "latest") /\ req[q].duty = "delete"
    /\ contract' = Gone /\ cycles' = <<>> /\ closedOn' = <<>>
    /\ logs' = [e \in Entries |-> IF logs[e] = NoLog THEN NoLog ELSE [logs[e] EXCEPT !.cycle = -1]]
    /\ End(q) /\ UNCHANGED <<day, edits>>

Tick == day < Horizon /\ day' = day + 1 /\ UNCHANGED <<contract, cycles, logs, closedOn, edits, req>>

\* GET /work-logs and the totals of what it matches.
ListLogs == UNCHANGED vars

-----------------------------------------------------------------------------
Init ==
    /\ day = 0
    /\ contract \in {[ends |-> e, cancelled |-> Never, rollover |-> r] : e \in {Period, Forever}, r \in BOOLEAN}
    /\ cycles = <<>> /\ closedOn = <<>>
    /\ logs = [e \in Entries |-> NoLog]
    /\ edits = 0 /\ req = [q \in Requests |-> NoReq]

Sync(q) ==
    \/ req[q].duty \notin {"unlog", "delete"} /\ ReadLatest(q)
    \/ OpenFirst(q) \/ Follow(q) \/ ReadUsage(q) \/ Close(q) \/ OpenNext(q)

Next ==
    \/ Tick \/ Bill \/ ListLogs
    \/ \E q \in Requests :
        \/ BeginView(q) \/ BeginLog(q) \/ BeginEdit(q) \/ Cancel(q) \/ BeginUnlog(q) \/ BeginDelete(q)
        \/ Sync(q) \/ Resolve(q) \/ File(q) \/ Unlog(q) \/ SaveEdit(q) \/ Answer(q) \/ Delete(q)

Spec == Init /\ [][Next]_vars

-----------------------------------------------------------------------------
\* Two cycles never share a day, whichever requests opened them: no minute of work belongs to both.
Disjoint == \A s, t \in DOMAIN cycles : s < t => cycles[s].ends <= t

\* A closed cycle is final: its period and its balance never change again.
ClosedIsFinal == \A s \in DOMAIN cycles : cycles[s].status # "open" /\ contract' # Gone =>
    /\ s \in DOMAIN cycles' /\ cycles'[s].status # "open"
    /\ [cycles'[s] EXCEPT !.status = ""] = [cycles[s] EXCEPT !.status = ""]

\* Every minute a closed cycle had was used, or expired, or is carried into the next, and only one of
\* those.
Conserved == \A s \in DOMAIN cycles :
    cycles[s].status # "open" /\ cycles[s].ends \in DOMAIN cycles =>
        LET had == Total(Buckets(s, cycles[s])) IN
        Least(cycles[s].used, had) + cycles[s].expired + Total(cycles[cycles[s].ends].carried) = had

\* Minutes that are lost to the cap are the ones with the least life left: while a bucket is cut, no
\* older one is kept.
NewestKept == \A s \in DOMAIN cycles : cycles[s].ends \in DOMAIN cycles /\ cycles[s].status # "open" =>
    \A b, k \in Buckets(s, cycles[s]) : LET next == cycles[cycles[s].ends].carried IN
        b.from < k.from /\ (\E x \in next : x.from = b.from) =>
            Left(k, Buckets(s, cycles[s]), cycles[s].used) =
                Total({x \in next : x.from = k.from})

\* After a list, a contract that covers today has an open cycle with today in it, unless it was left
\* alone for more cycles than a run catches up: then the list opened as many as it may.
ListIsCurrent == \A q \in Requests :
    req[q].duty = "list" /\ req'[q] = NoReq /\ contract # Gone /\ Covers(contract, req[q].day)
    /\ req[q].steps < MaxSteps =>
        \E s \in DOMAIN cycles : cycles[s].status = "open" /\ s <= req[q].day /\ req[q].day < cycles[s].ends

\* What a closed cycle says was used is what its entries add up to.
BalanceIsSum == \A s \in DOMAIN cycles : cycles[s].status # "open" => cycles[s].used = Used(s)

\* The cycle running when a contract is cancelled keeps its end.
CancelKeepsEnd == [][\A s \in DOMAIN cycles :
    s \in DOMAIN cycles' /\ contract.cancelled # Never => cycles'[s].ends = cycles[s].ends]_vars

\* No cycle starts after the end of the contract.
NothingAfterEnd == (\A q \in Requests : req[q] = NoReq) =>
    \A s \in DOMAIN cycles : s <= contract.ends

\* A cycle is closed only once its period is over.
ClosedOnlyOver == \A s \in DOMAIN closedOn : closedOn[s] >= cycles[s].ends

\* A contract with closed cycles, or with work logged under it, is never deleted.
HistoryKept == [][contract' = Gone /\ contract # Gone => ~ HasHistory]_vars

=============================================================================
