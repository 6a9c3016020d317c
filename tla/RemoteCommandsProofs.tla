------------------------ MODULE RemoteCommandsProofs ------------------------
(***************************************************************************)
(* Theorems about RemoteCommands: every screenshot listed has its image,   *)
(* delivered_at is written once, and a command that ended is changed by    *)
(* nothing but the image it asked for.  Requests act on what they read     *)
(* before others wrote, so the invariant says of each request in flight    *)
(* what it read that still holds.                                          *)
(***************************************************************************)
EXTENDS RemoteCommands, FiniteSetTheorems, TLAPS

-----------------------------------------------------------------------------
(* The inductive invariant *)

\* Commands are numbered without a gap: the next one is a row nothing was written to.
Numbered == Queued = 1 .. Cardinality(Queued)

\* A row nothing was written to has no delivery, and a delivered command has one.
Rows == \A c \in Cmds :
    /\ cmd[c].status = "none" => cmd[c].delivered = None
    /\ cmd[c].status = "delivered" => cmd[c].delivered # None

\* The device runs what it was handed, which the panel queued.
Handed == known \subseteq Queued /\ done \subseteq known

\* An answer is about one command, which was run, and the delivery it read is still the one in the row.
Answers(x, c) ==
    /\ x.cmds = {c} /\ cmd[c].delivered # None /\ x.was = cmd[c].delivered
    /\ x.duty = "shot" => cmd[c].kind = "screenshot"

\* What request x carries: an insert, its kind; a delivery, commands the panel queued; an answer, its command; an upload, an
\* image without a row that stays once it is stored; and a deletion, an image.
Carries(x) ==
    /\ x.duty = "issue" => x.kind \in CommandTypes
    /\ x.duty = "take" => x.cmds \subseteq Queued
    /\ x.duty \in {"ack", "shot"} => \E c \in done : Answers(x, c)
    /\ x.duty = "shot" => /\ shots[x.image] = None
                          /\ x.at = "put" => x.image \in bucket
    /\ x.duty \in {"shot", "drop"} => x.image \in Images
Locals == \A r \in Reqs : Carries(req[r])

\* No two requests have an image in common while it is uploaded.
Apart == \A r, q \in Reqs : r # q /\ req[r].duty = "shot" => req[q].image # req[r].image

Inv ==
    /\ TypeOK /\ Numbered /\ Rows /\ Handed /\ OpenIsStamped
    /\ Locals /\ Apart /\ RowsHaveImages

LEMMA Initially == Init => Inv
<1> SUFFICES ASSUME Init PROVE Inv
  OBVIOUS
<1>1. NoCmd \in Cmd /\ NoReq \in Req
  BY CommandAssumption DEF CommandAssumption, NoCmd, Cmd, NoReq, Req, Times
<1>2. TypeOK
  BY <1>1, CommandAssumption DEF CommandAssumption, Init, TypeOK, Times
<1>3. Queued = {} /\ Numbered
  <2>1. Queued = {}
    BY DEF Init, Queued, NoCmd
  <2> QED
    BY <2>1, FS_EmptySet DEF Numbered
<1>4. Rows /\ Handed /\ OpenIsStamped /\ Locals /\ Apart /\ RowsHaveImages
  BY <1>3 DEF Init, Rows, NoCmd, Handed, OpenIsStamped, Locals, Carries, NoReq, Apart, RowsHaveImages
<1> QED
  BY <1>2, <1>3, <1>4 DEF Inv

-----------------------------------------------------------------------------
(* What no step does to a row of commands *)

\* A row once written stays written, with its kind and its delivery; nothing reopens a command.
Kept == \A c \in Cmds :
    /\ cmd[c].status # "none" => cmd'[c].status # "none" /\ cmd'[c].kind = cmd[c].kind
    /\ cmd[c].delivered # None => cmd'[c].delivered = cmd[c].delivered
    /\ cmd[c].status \in Closed => cmd'[c].status \notin Open
    /\ cmd'[c].status = "none" => cmd'[c].delivered = None
    /\ cmd'[c].status = "delivered" => cmd'[c].delivered # None

\* A command that ended stays as it is, unless its image arrives.
EndedStays == \A c \in Cmds : cmd[c].status \in Closed =>
    (cmd'[c].status = cmd[c].status /\ cmd'[c].result = cmd[c].result) \/ ImageArrives(c)

\* The one element of a set of one.
LEMMA TheOnly ==
    ASSUME NEW c
    PROVE  (CHOOSE d \in {c} : TRUE) = c
  OBVIOUS

\* A step that writes no row.
LEMMA NoRowWritten ==
    ASSUME Inv, cmd' = cmd
    PROVE  cmd' \in [Cmds -> Cmd] /\ Kept /\ EndedStays /\ Queued' = Queued
  BY DEF Inv, TypeOK, Rows, Kept, EndedStays, ImageArrives, Closed, Open, Queued

\* The row an insert writes is one nothing was written to.
LEMMA NextIsFree ==
    ASSUME Inv, NEW c \in Cmds, c = Cardinality(Queued) + 1
    PROVE  cmd[c].status = "none" /\ cmd[c].delivered = None /\ Cardinality(Queued) \in Nat
<1>1. IsFiniteSet(Queued) /\ Cardinality(Queued) \in Nat
  <2>1. IsFiniteSet(Cmds) /\ Queued \in SUBSET Cmds
    BY CommandAssumption, FS_Interval DEF CommandAssumption, Cmds, Queued
  <2> QED
    BY <2>1, FS_Subset, FS_CardinalityType
<1>2. c \notin Queued
  BY <1>1 DEF Inv, Numbered
<1> QED
  BY <1>1, <1>2 DEF Inv, Queued, Rows

LEMMA IssueRows ==
    ASSUME Inv, NEW r \in Reqs, Issue(r)
    PROVE  cmd' \in [Cmds -> Cmd] /\ Kept /\ EndedStays /\ Numbered'
<1> DEFINE row == [NoCmd EXCEPT !.status = "pending", !.kind = req[r].kind, !.expires = now + TTL]
<1>1. PICK c \in Cmds : c = Cardinality(Queued) + 1 /\ cmd' = [cmd EXCEPT ![c] = row]
  BY DEF Issue
<1>2. cmd[c].status = "none" /\ cmd[c].delivered = None /\ Cardinality(Queued) \in Nat
  BY <1>1, NextIsFree
<1>3. row \in Cmd /\ row.status = "pending" /\ row.delivered = None
  <2>1. req[r].kind \in {"restart", "screenshot"}
    BY CommandAssumption DEF CommandAssumption, Issue, At, Inv, Locals, Carries
  <2>2. now + TTL \in 0 .. MaxTime + TTL
    BY CommandAssumption DEF CommandAssumption, Inv, TypeOK, Times
  <2> QED
    BY <2>1, <2>2 DEF NoCmd, Cmd, Open
<1> HIDE DEF row
<1>4. cmd' \in [Cmds -> Cmd] /\ cmd'[c] = row /\ \A d \in Cmds \ {c} : cmd'[d] = cmd[d]
  BY <1>1, <1>3 DEF Inv, TypeOK
<1>5. Kept /\ EndedStays
  BY <1>2, <1>3, <1>4 DEF Inv, Rows, Kept, EndedStays, ImageArrives, Closed, Open
<1>6. Numbered'
  <2>1. Queued' = Queued \cup {c}
    BY <1>3, <1>4 DEF Queued
  <2>2. Queued' = 1 .. c
    BY <1>1, <1>2, <2>1 DEF Inv, Numbered
  <2>3. Cardinality(Queued') = c
    BY <1>1, <1>2, <2>2, FS_Interval
  <2> QED
    BY <2>2, <2>3 DEF Numbered
<1> QED
  BY <1>4, <1>5, <1>6

LEMMA CancelRows ==
    ASSUME Inv, NEW c \in Cmds, Cancel(c)
    PROVE  cmd' \in [Cmds -> Cmd] /\ Kept /\ EndedStays /\ Queued' = Queued
<1>1. cmd' \in [Cmds -> Cmd]
  BY DEF Cancel, Inv, TypeOK, Cmd, Closed
<1> QED
  BY <1>1 DEF Cancel, Inv, TypeOK, Cmd, Rows, Kept, EndedStays, ImageArrives, Closed, Open, Queued

\* A delivery stamps what was pending and has no stamp.
LEMMA StampRows ==
    ASSUME Inv, NEW cs \in SUBSET Cmds, Stamp(cs)
    PROVE  /\ cmd' \in [Cmds -> Cmd] /\ Kept /\ EndedStays /\ Queued' = Queued
           /\ \A c \in cs \cap Queued : cmd'[c].status \in Open => cmd'[c].delivered # None
<1>1. now \in Times /\ now # None
  BY CommandAssumption DEF CommandAssumption, Inv, TypeOK, Times
<1>2. ASSUME NEW c \in Cmds
      PROVE  /\ cmd'[c] = cmd[c]
                \/ /\ c \in cs /\ Fresh(c) /\ cmd'[c] \in Cmd
                   /\ cmd'[c].status = "delivered" /\ cmd'[c].delivered = now
                   /\ cmd'[c].kind = cmd[c].kind
             /\ c \in cs /\ Fresh(c) => cmd'[c].delivered = now
  BY <1>1 DEF Stamp, Inv, TypeOK, Cmd, Open
<1>3. cmd' \in [Cmds -> Cmd]
  <2>1. \A c \in Cmds : cmd'[c] \in Cmd
    BY <1>2 DEF Inv, TypeOK
  <2> QED
    BY <2>1 DEF Stamp
<1>4. Kept /\ EndedStays /\ Queued' = Queued
  BY <1>1, <1>2 DEF Fresh, Inv, Rows, Kept, EndedStays, ImageArrives, Closed, Open, Queued
<1>5. ASSUME NEW c \in cs \cap Queued, cmd'[c].status \in Open PROVE cmd'[c].delivered # None
  <2>1. CASE Fresh(c)
    BY <1>1, <1>2, <2>1
  <2>2. CASE ~ Fresh(c)
    BY <1>2, <1>5, <2>2 DEF Fresh, Inv, Rows, Open
  <2> QED
    BY <2>1, <2>2
<1> QED
  BY <1>3, <1>4, <1>5

\* An answer writes the delivery it read, which is the one in the row.
LEMMA AnswerRows ==
    ASSUME Inv, NEW r \in Reqs, NEW c \in done, Answers(req[r], c), NEW status \in Closed \ {"expired"},
           NEW result \in Images \cup {"device"},
           cmd' = [cmd EXCEPT ![c] = [@ EXCEPT !.status = status, !.result = result, !.delivered = Delivered(r)]],
           cmd[c].status \in Open \/ (cmd[c].kind = "screenshot" /\ status = "succeeded" /\ result \in Images)
    PROVE  cmd' \in [Cmds -> Cmd] /\ Kept /\ EndedStays /\ Queued' = Queued
<1>1. c \in Cmds /\ cmd[c].status # "none"
  BY DEF Inv, Handed, Queued
<1>2. Delivered(r) = cmd[c].delivered /\ cmd[c].delivered # None
  BY DEF Answers, Delivered
<1>3. cmd' \in [Cmds -> Cmd]
  <2>1. cmd[c] \in Cmd /\ cmd[c].delivered \in Times \cup {None} /\ status \in Closed
    BY <1>1 DEF Inv, TypeOK, Cmd
  <2>2. [cmd[c] EXCEPT !.status = status, !.result = result, !.delivered = Delivered(r)] \in Cmd
    BY <1>2, <2>1 DEF Cmd
  <2> QED
    BY <1>1, <2>2 DEF Inv, TypeOK
<1>4. /\ cmd'[c].status = status /\ cmd'[c].result = result /\ cmd'[c].delivered = cmd[c].delivered
      /\ cmd'[c].kind = cmd[c].kind
      /\ \A d \in Cmds \ {c} : cmd'[d] = cmd[d]
  BY <1>1, <1>2 DEF Inv, TypeOK, Cmd
<1> QED
  BY <1>1, <1>2, <1>3, <1>4 DEF Inv, Rows, Kept, EndedStays, ImageArrives, Closed, Open, Queued

LEMMA AckRows ==
    ASSUME Inv, NEW r \in Reqs, Ack(r)
    PROVE  cmd' \in [Cmds -> Cmd] /\ Kept /\ EndedStays /\ Queued' = Queued
<1>1. PICK c \in done : Answers(req[r], c)
  BY DEF Ack, At, Inv, Locals, Carries
<1>2. The(r) = c
  BY <1>1, TheOnly DEF The, Answers
<1>3. PICK status \in {"succeeded", "failed"} :
        cmd' = IF ~ AckApplies(c) THEN cmd
               ELSE [cmd EXCEPT ![c] =
                        [@ EXCEPT !.status = status, !.result = "device", !.delivered = Delivered(r)]]
  BY <1>2 DEF Ack
<1>4. CASE AckApplies(c)
  BY <1>1, <1>3, <1>4, AnswerRows DEF AckApplies, Closed
<1>5. CASE ~ AckApplies(c)
  BY <1>3, <1>5, NoRowWritten
<1> QED
  BY <1>4, <1>5

LEMMA ShotRows ==
    ASSUME Inv, NEW r \in Reqs, Shot(r)
    PROVE  cmd' \in [Cmds -> Cmd] /\ Kept /\ EndedStays /\ Queued' = Queued
<1>1. PICK c \in done : Answers(req[r], c)
  BY DEF Shot, At, Inv, Locals, Carries
<1>2. The(r) = c
  BY <1>1, TheOnly DEF The, Answers
<1>3. cmd[c].kind = "screenshot" /\ req[r].image \in Images
  BY <1>1 DEF Shot, At, Answers, Inv, Locals, Carries
<1>4. cmd' = [cmd EXCEPT ![c] =
                 [@ EXCEPT !.status = "succeeded", !.result = req[r].image, !.delivered = Delivered(r)]]
  BY <1>2 DEF Shot
<1>5. "succeeded" \in Closed \ {"expired"} /\ req[r].image \in Images \cup {"device"}
  BY <1>3 DEF Closed
<1> QED
  BY <1>1, <1>3, <1>4, <1>5, AnswerRows

LEMMA ExpireRows ==
    ASSUME Inv, Expire
    PROVE  cmd' \in [Cmds -> Cmd] /\ Kept /\ EndedStays /\ Queued' = Queued
<1>1. ASSUME NEW c \in Cmds
      PROVE  /\ cmd'[c] \in Cmd
             /\ \/ cmd'[c] = cmd[c]
                \/ /\ Stale(c) /\ cmd'[c].status = "expired" /\ cmd'[c].kind = cmd[c].kind
                   /\ cmd'[c].delivered = cmd[c].delivered
  BY DEF Expire, StatusOf, Inv, TypeOK, Cmd, Closed
<1>2. cmd' \in [Cmds -> Cmd]
  BY <1>1 DEF Expire
<1> QED
  BY <1>1, <1>2 DEF Stale, Inv, Rows, Kept, EndedStays, ImageArrives, Closed, Open, Queued

-----------------------------------------------------------------------------
(* What a step leaves to the requests it does not serve *)

\* The uploads under way, but that of r, keep their image and have no row yet.
UploadsKept(r) == \A q \in Reqs \ {r} : req[q].duty = "shot" =>
    /\ shots'[req[q].image] = None
    /\ req[q].image \in bucket => req[q].image \in bucket'

\* Neither does the request that r goes on with take the image of another's upload.
NotTheirs(r, x) == \A q \in Reqs \ {r} :
    /\ req[q].duty = "shot" => x.image # req[q].image
    /\ x.duty = "shot" => req[q].image # x.image

\* What was carried may still be carried.
LEMMA CarriesKept ==
    ASSUME Inv, NEW x, Carries(x), Kept, cmd' \in [Cmds -> Cmd], done \subseteq done',
           x.duty = "shot" => shots'[x.image] = None /\ (x.image \in bucket => x.image \in bucket')
    PROVE  Carries(x)'
<1>1. done \subseteq Cmds /\ \A c \in done : cmd[c].status # "none"
  BY DEF Inv, Handed, Queued
<1>2. Queued \subseteq Queued'
  BY DEF Kept, Queued
<1>3. ASSUME NEW c \in done, Answers(x, c) PROVE Answers(x, c)'
  BY <1>1, <1>3 DEF Answers, Kept
<1> QED
  BY <1>2, <1>3 DEF Carries

\* A step of request r that goes on with x.
LEMMA RequestStep ==
    ASSUME Inv, NEW r \in Reqs, NEW x \in Req, Carries(x)', req' = [req EXCEPT ![r] = x],
           Kept, cmd' \in [Cmds -> Cmd], done \subseteq done', UploadsKept(r), NotTheirs(r, x)
    PROVE  Locals' /\ Apart' /\ req' \in [Reqs -> Req]
<1>1. req \in [Reqs -> Req] /\ req'[r] = x /\ \A q \in Reqs \ {r} : req'[q] = req[q]
  BY DEF Inv, TypeOK
<1>2. req' \in [Reqs -> Req]
  BY <1>1
<1>3. ASSUME NEW q \in Reqs PROVE Carries(req[q])'
  <2>1. PICK y \in Req : y = req'[q]
    BY <1>2
  <2>2. Carries(y)'
    <3>1. CASE q = r
      BY <1>1, <2>1, <3>1
    <3>2. CASE q # r
      <4>1. y = req[q] /\ Carries(y)
        BY <1>1, <2>1, <3>2 DEF Inv, Locals
      <4> QED
        BY <3>2, <4>1, CarriesKept DEF UploadsKept
    <3> QED
      BY <3>1, <3>2
  <2> QED
    BY <2>1, <2>2 DEF Carries, Answers
<1>4. Apart'
  BY <1>1 DEF Inv, Apart, NotTheirs
<1> QED
  BY <1>2, <1>3, <1>4 DEF Locals

\* A request that ends.
LEMMA Nothing ==
    ASSUME Inv, NEW r \in Reqs
    PROVE  NoReq \in Req /\ Carries(NoReq)' /\ NotTheirs(r, NoReq)
<1>1. NoReq \in Req
  BY CommandAssumption DEF CommandAssumption, NoReq, Req, Times
<1>2. Carries(NoReq)'
  BY DEF NoReq, Carries
<1>3. NotTheirs(r, NoReq)
  BY CommandAssumption DEF CommandAssumption, NoReq, NotTheirs, Inv, Locals, Carries
<1> QED
  BY <1>1, <1>2, <1>3

\* A step that serves no request leaves each what it carries.
LEMMA ForeignStep ==
    ASSUME Inv, req' = req, Kept, cmd' \in [Cmds -> Cmd], done \subseteq done', UNCHANGED <<bucket, shots>>
    PROVE  Locals' /\ Apart' /\ RowsHaveImages'
<1>1. ASSUME NEW q \in Reqs PROVE Carries(req[q])'
  <2>1. PICK y \in Req : y = req[q] /\ Carries(y)
    BY DEF Inv, TypeOK, Locals
  <2>2. y.duty = "shot" => shots'[y.image] = None /\ (y.image \in bucket => y.image \in bucket')
    BY <2>1 DEF Carries
  <2>3. Carries(y)'
    BY <2>1, <2>2, CarriesKept
  <2> QED
    BY <2>1, <2>3 DEF Carries, Answers
<1> QED
  BY <1>1 DEF Inv, Locals, Apart, RowsHaveImages

\* What the device knows, of commands no step reopens.
LEMMA KnownStep ==
    ASSUME Inv, Kept, Queued \subseteq Queued', UNCHANGED <<known, done>>
    PROVE  Handed' /\ OpenIsStamped'
<1>1. known \subseteq Queued /\ \A c \in known : c \in Cmds /\ cmd[c].status # "none"
  BY DEF Inv, Handed, Queued
<1>2. ASSUME NEW c \in known, cmd'[c].status \in Open PROVE cmd'[c].delivered # None
  BY <1>1, <1>2 DEF Inv, TypeOK, Cmd, Kept, OpenIsStamped, Closed, Open
<1> QED
  BY <1>1, <1>2 DEF Inv, Handed, OpenIsStamped

\* A row once written stays written.
LEMMA RowsStep ==
    ASSUME Inv, Kept
    PROVE  Rows' /\ Queued \subseteq Queued'
  BY DEF Kept, Rows, Queued

-----------------------------------------------------------------------------
(* The panel, the device and the cron *)

\* A request begins: it carries what it read.
LEMMA BeginInv ==
    ASSUME Inv, NEW r \in Reqs,
           BeginIssue(r) \/ BeginTake(r) \/ BeginAck(r) \/ BeginShot(r) \/ BeginDrop(r)
    PROVE  Inv'
<1>1. UNCHANGED <<now, cmd, allowed, bucket, shots, known, done>> /\ req[r].duty = "none"
  <2>1. UNCHANGED <<now, cmd, allowed, bucket, shots, known, done>>
    BY DEF BeginIssue, BeginTake, BeginAck, BeginShot, BeginDrop
  <2>2. req[r] = NoReq
    BY DEF BeginIssue, BeginTake, BeginAck, BeginShot, BeginDrop, Idle
  <2> QED
    BY <2>1, <2>2 DEF NoReq
<1>2. NoReq \in Req
  BY CommandAssumption DEF CommandAssumption, NoReq, Req, Times
<1>3. ASSUME NEW c \in Cmds
      PROVE  (CHOOSE d \in {c} : TRUE) = c /\ cmd[c].delivered \in Times \cup {None} /\ cmd[c] \in Cmd
  BY TheOnly DEF Inv, TypeOK, Cmd
<1>4. \E x \in Req : Carries(x) /\ NotTheirs(r, x) /\ req' = [req EXCEPT ![r] = x]
  <2>1. CASE BeginIssue(r)
    <3> PICK k \in CommandTypes : req' = [req EXCEPT ![r] = [NoReq EXCEPT !.duty = "issue", !.at = "read", !.kind = k]]
      BY <2>1 DEF BeginIssue
    <3> DEFINE x == [NoReq EXCEPT !.duty = "issue", !.at = "read", !.kind = k]
    <3>1. x \in Req /\ x.duty = "issue" /\ x.kind \in CommandTypes /\ x.image = None
      BY <1>2 DEF NoReq, Req
    <3> HIDE DEF x
    <3>2. Carries(x) /\ NotTheirs(r, x)
      BY <3>1, CommandAssumption DEF CommandAssumption, Carries, NotTheirs, Inv, Locals
    <3> QED
      BY <3>1, <3>2 DEF x
  <2>2. CASE BeginTake(r)
    <3> DEFINE x == [NoReq EXCEPT !.duty = "take", !.at = "read", !.cmds = Outstanding, !.image = None, !.was = None]
    <3>1. x \in Req /\ x.duty = "take" /\ x.cmds = Outstanding /\ x.image = None
      BY <1>2 DEF NoReq, Req, Outstanding
    <3>2. Outstanding \subseteq Queued
      BY DEF Outstanding, Queued, Open
    <3>3. req' = [req EXCEPT ![r] = x]
      BY <2>2 DEF BeginTake, Begin
    <3> HIDE DEF x
    <3>4. Carries(x) /\ NotTheirs(r, x)
      BY <3>1, <3>2, CommandAssumption DEF CommandAssumption, Carries, NotTheirs, Inv, Locals
    <3> QED
      BY <3>1, <3>3, <3>4
  <2>3. CASE BeginAck(r)
    <3> PICK c \in done : cmd[c].status \in Open /\ Begin(r, "ack", {c}, None)
      BY <2>3 DEF BeginAck
    <3> DEFINE x == [NoReq EXCEPT !.duty = "ack", !.at = "read", !.cmds = {c}, !.image = None, !.was = cmd[c].delivered]
    <3>1. c \in known /\ c \in Cmds /\ cmd[c].delivered # None
      BY DEF Inv, Handed, OpenIsStamped, Queued
    <3>2. x \in Req /\ x.duty = "ack" /\ x.cmds = {c} /\ x.image = None /\ x.was = cmd[c].delivered
      BY <1>2, <1>3, <3>1 DEF NoReq, Req
    <3>3. req' = [req EXCEPT ![r] = x]
      BY <1>3, <3>1 DEF Begin
    <3> HIDE DEF x
    <3>4. Carries(x) /\ NotTheirs(r, x)
      BY <3>1, <3>2, CommandAssumption DEF CommandAssumption, Carries, Answers, NotTheirs, Inv, Locals
    <3> QED
      BY <3>2, <3>3, <3>4
  <2>4. CASE BeginShot(r)
    <3> PICK c \in done, i \in Images :
          /\ cmd[c].kind = "screenshot" /\ cmd[c].status \in Open
          /\ i \notin bucket /\ shots[i] = None /\ \A q \in Reqs : req[q].image # i
          /\ Begin(r, "shot", {c}, i)
      BY <2>4 DEF BeginShot
    <3> DEFINE x == [NoReq EXCEPT !.duty = "shot", !.at = "read", !.cmds = {c}, !.image = i, !.was = cmd[c].delivered]
    <3>1. c \in known /\ c \in Cmds /\ cmd[c].delivered # None
      BY DEF Inv, Handed, OpenIsStamped, Queued
    <3>2. /\ x \in Req /\ x.duty = "shot" /\ x.at = "read" /\ x.cmds = {c} /\ x.image = i
          /\ x.was = cmd[c].delivered
      BY <1>2, <1>3, <3>1 DEF NoReq, Req
    <3>3. req' = [req EXCEPT ![r] = x]
      BY <1>3, <3>1 DEF Begin
    <3> HIDE DEF x
    <3>4. Carries(x) /\ NotTheirs(r, x)
      BY <3>1, <3>2 DEF Carries, Answers, NotTheirs
    <3> QED
      BY <3>2, <3>3, <3>4
  <2>5. CASE BeginDrop(r)
    <3> PICK i \in Images : shots[i] # None /\ Begin(r, "drop", {}, i)
      BY <2>5 DEF BeginDrop
    <3> DEFINE x == [NoReq EXCEPT !.duty = "drop", !.at = "read", !.cmds = {}, !.image = i, !.was = None]
    <3>1. x \in Req /\ x.duty = "drop" /\ x.image = i
      BY <1>2 DEF NoReq, Req
    <3>2. req' = [req EXCEPT ![r] = x]
      BY DEF Begin
    <3> HIDE DEF x
    <3>3. Carries(x) /\ NotTheirs(r, x)
      BY <3>1 DEF Carries, NotTheirs, Inv, Locals
    <3> QED
      BY <3>1, <3>2, <3>3
  <2> QED
    BY <2>1, <2>2, <2>3, <2>4, <2>5
<1>5. PICK x \in Req : Carries(x) /\ NotTheirs(r, x) /\ req' = [req EXCEPT ![r] = x]
  BY <1>4
<1>6. cmd' \in [Cmds -> Cmd] /\ Kept /\ Queued' = Queued
  BY <1>1, NoRowWritten
<1>7. Carries(x)' /\ UploadsKept(r)
  BY <1>1, <1>5 DEF Carries, Answers, Queued, UploadsKept, Inv, Locals
<1>8. Locals' /\ Apart' /\ req' \in [Reqs -> Req]
  BY <1>1, <1>5, <1>6, <1>7, RequestStep
<1>9. Rows' /\ Handed' /\ OpenIsStamped' /\ Numbered'
  BY <1>1, <1>6, RowsStep, KnownStep DEF Inv, Numbered
<1>10. RowsHaveImages'
  BY <1>1, <1>5 DEF Inv, TypeOK, RowsHaveImages
<1>11. TypeOK'
  BY <1>1, <1>8 DEF Inv, TypeOK
<1> QED
  BY <1>8, <1>9, <1>10, <1>11 DEF Inv

\* A request ends that touched no image; the rows are written as the lemmas above say.
LEMMA EndInv ==
    ASSUME Inv, NEW r \in Reqs, End(r), req[r].duty # "drop", UNCHANGED <<now, allowed, bucket, shots, done>>,
           cmd' \in [Cmds -> Cmd], Kept, Numbered', Handed', OpenIsStamped', known' \subseteq Cmds
    PROVE  Inv'
<1>1. UploadsKept(r)
  BY DEF UploadsKept, Inv, Locals, Carries
<1>2. Locals' /\ Apart' /\ req' \in [Reqs -> Req]
  BY <1>1, Nothing, RequestStep DEF End
<1>3. RowsHaveImages'
  BY DEF End, Inv, TypeOK, RowsHaveImages
<1>4. TypeOK'
  BY <1>2 DEF Inv, TypeOK
<1> QED
  BY <1>2, <1>3, <1>4, RowsStep DEF Inv

LEMMA IssueInv ==
    ASSUME Inv, NEW r \in Reqs, Issue(r)
    PROVE  Inv'
<1>1. cmd' \in [Cmds -> Cmd] /\ Kept /\ Numbered'
  BY IssueRows
<1>2. End(r) /\ req[r].duty # "drop" /\ UNCHANGED <<now, allowed, bucket, shots, known, done>>
  BY DEF Issue, At
<1>3. Handed' /\ OpenIsStamped'
  BY <1>1, <1>2, RowsStep, KnownStep
<1>4. known' \subseteq Cmds
  BY <1>2 DEF Inv, TypeOK
<1> QED
  BY <1>1, <1>2, <1>3, <1>4, EndInv

\* Handing over stamps what it hands over and may still be answered.
LEMMA TakeInv ==
    ASSUME Inv, NEW r \in Reqs, Take(r) \/ TakeLost(r)
    PROVE  Inv'
<1>1. req[r].cmds \subseteq Queued /\ req[r].cmds \in SUBSET Cmds
  BY DEF Take, TakeLost, At, Inv, Locals, Carries, Queued
<1>2. /\ cmd' \in [Cmds -> Cmd] /\ Kept /\ Queued' = Queued
      /\ \A c \in req[r].cmds : cmd'[c].status \in Open => cmd'[c].delivered # None
  BY <1>1, StampRows DEF Take, TakeLost
<1>3. /\ End(r) /\ req[r].duty # "drop" /\ UNCHANGED <<now, allowed, bucket, shots, done>>
      /\ known' \in {known, known \cup req[r].cmds}
  BY DEF Take, TakeLost, At
<1>4. Numbered'
  BY <1>2 DEF Inv, Numbered
<1>5. Handed'
  BY <1>1, <1>2, <1>3 DEF Inv, Handed
<1>6. OpenIsStamped'
  <2>1. ASSUME NEW c \in known, cmd'[c].status \in Open PROVE cmd'[c].delivered # None
    BY <1>2, <2>1 DEF Inv, TypeOK, Cmd, Handed, Queued, OpenIsStamped, Kept, Closed, Open
  <2> QED
    BY <1>2, <1>3, <2>1 DEF OpenIsStamped
<1>7. known' \subseteq Cmds
  BY <1>1, <1>3 DEF Inv, TypeOK
<1> QED
  BY <1>2, <1>3, <1>4, <1>5, <1>6, <1>7, EndInv

LEMMA AckInv ==
    ASSUME Inv, NEW r \in Reqs, Ack(r)
    PROVE  Inv'
<1>1. cmd' \in [Cmds -> Cmd] /\ Kept /\ Queued' = Queued
  BY AckRows
<1>2. End(r) /\ req[r].duty # "drop" /\ UNCHANGED <<now, allowed, bucket, shots, known, done>>
  BY DEF Ack, At
<1>3. Handed' /\ OpenIsStamped' /\ Numbered' /\ known' \subseteq Cmds
  BY <1>1, <1>2, KnownStep DEF Inv, Numbered, TypeOK
<1> QED
  BY <1>1, <1>2, <1>3, EndInv

\* Cancel, Run, Switch, Expire and Tick serve no request.
LEMMA OutsideInv ==
    ASSUME Inv,
           \/ \E c \in Cmds : Cancel(c) \/ Run(c)
           \/ \E what \in {"commands", "screenshots", "active"} : Switch(what)
           \/ Expire \/ Tick
    PROVE  Inv'
<1>1. UNCHANGED <<bucket, shots, known, req>> /\ done \subseteq done' /\ done' \subseteq known
  BY DEF Cancel, Run, Switch, Expire, Tick, Inv, Handed
<1>2. cmd' \in [Cmds -> Cmd] /\ Kept /\ Queued' = Queued
  BY CancelRows, ExpireRows, NoRowWritten DEF Run, Switch, Tick
<1>3. now' \in Times /\ allowed' \in SUBSET {"active", "commands", "screenshots"}
  BY CommandAssumption DEF CommandAssumption, Cancel, Run, Switch, Expire, Tick, Inv, TypeOK, Times
<1>4. Locals' /\ Apart' /\ RowsHaveImages'
  BY <1>1, <1>2, ForeignStep
<1>5. Handed' /\ OpenIsStamped'
  <2>1. ASSUME NEW c \in known, cmd'[c].status \in Open PROVE cmd'[c].delivered # None
    BY <1>2, <2>1 DEF Inv, TypeOK, Cmd, Handed, Queued, OpenIsStamped, Kept, Closed, Open
  <2> QED
    BY <1>1, <1>2, <2>1 DEF Inv, Handed, OpenIsStamped
<1>6. TypeOK'
  BY <1>1, <1>2, <1>3 DEF Inv, TypeOK
<1> QED
  BY <1>2, <1>4, <1>5, <1>6, RowsStep DEF Inv, Numbered

-----------------------------------------------------------------------------
(* Screenshots *)

\* What a step about images leaves, when it writes no command or one it answers.
LEMMA ImageInv ==
    ASSUME Inv, NEW r \in Reqs, NEW x \in Req, Carries(x)', req' = [req EXCEPT ![r] = x],
           UploadsKept(r), NotTheirs(r, x), UNCHANGED <<now, allowed, known, done>>,
           cmd' \in [Cmds -> Cmd], Kept, Queued' = Queued,
           bucket' \in SUBSET Images, shots' \in [Images -> Cmds \cup {None}], RowsHaveImages'
    PROVE  Inv'
<1>1. Locals' /\ Apart' /\ req' \in [Reqs -> Req]
  BY RequestStep
<1>2. Rows' /\ Handed' /\ OpenIsStamped' /\ Numbered'
  BY RowsStep, KnownStep DEF Inv, Numbered
<1>3. TypeOK'
  BY <1>1 DEF Inv, TypeOK
<1> QED
  BY <1>1, <1>2, <1>3 DEF Inv

\* Storing, or deleting, moves the request on with the same image.
LEMMA PutInv ==
    ASSUME Inv, NEW r \in Reqs, PutShot(r) \/ DropImage(r)
    PROVE  Inv'
<1>1. /\ UNCHANGED <<now, cmd, allowed, shots, known, done>>
      /\ req' = [req EXCEPT ![r].at = "put"] /\ req[r].duty \in {"shot", "drop"}
  BY DEF PutShot, DropImage, At
<1>2. PICK x \in Req : x = [req[r] EXCEPT !.at = "put"]
  BY DEF Inv, TypeOK, Req
<1>3. /\ req' = [req EXCEPT ![r] = x] /\ req[r] \in Req
      /\ x.duty = req[r].duty /\ x.cmds = req[r].cmds /\ x.image = req[r].image /\ x.was = req[r].was
  BY <1>1, <1>2 DEF Inv, TypeOK, Req
<1>4. cmd' \in [Cmds -> Cmd] /\ Kept /\ Queued' = Queued
  BY <1>1, NoRowWritten
<1>5. x.image \in Images /\ NotTheirs(r, x)
  BY <1>1, <1>3 DEF Inv, Locals, Carries, Apart, NotTheirs
<1>6. bucket' \in SUBSET Images /\ (x.duty = "shot" => x.image \in bucket')
  BY <1>3, <1>5 DEF PutShot, DropImage, At, Inv, TypeOK
<1>7. Carries(x)'
  BY <1>1, <1>3, <1>5, <1>6 DEF Inv, Locals, Carries, Answers
<1>8. UploadsKept(r)
  BY <1>1, <1>3, <1>5 DEF PutShot, DropImage, At, UploadsKept, NotTheirs, Inv, Locals, Carries
<1>9. RowsHaveImages'
  <2>1. ASSUME NEW i \in Images, shots[i] # None, i \notin bucket'
        PROVE  \E q \in Reqs : req'[q].duty = "drop" /\ req'[q].image = i
    <3>1. CASE i \in bucket
      BY <1>3, <2>1, <3>1 DEF PutShot, DropImage, At, Inv, TypeOK
    <3>2. CASE i \notin bucket
      <4>1. PICK q \in Reqs : req[q].duty = "drop" /\ req[q].image = i
        BY <2>1, <3>2 DEF Inv, RowsHaveImages
      <4> QED
        BY <1>3, <4>1 DEF Inv, TypeOK
    <3> QED
      BY <3>1, <3>2
  <2> QED
    BY <1>1, <2>1 DEF RowsHaveImages
<1>10. shots' \in [Images -> Cmds \cup {None}]
  BY <1>1 DEF Inv, TypeOK
<1> QED
  BY <1>1, <1>3, <1>4, <1>5, <1>6, <1>7, <1>8, <1>9, <1>10, ImageInv

\* The batch inserts the row of an image that is stored.
LEMMA ShotInv ==
    ASSUME Inv, NEW r \in Reqs, Shot(r)
    PROVE  Inv'
<1>1. cmd' \in [Cmds -> Cmd] /\ Kept /\ Queued' = Queued
  BY ShotRows
<1>2. PICK c \in done : Answers(req[r], c)
  BY DEF Shot, At, Inv, Locals, Carries
<1>3. The(r) = c /\ c \in Cmds
  BY <1>2, TheOnly DEF The, Answers, Inv, TypeOK
<1>4. /\ req[r].image \in bucket /\ req[r].image \in Images /\ req[r].duty = "shot"
      /\ shots' = [shots EXCEPT ![req[r].image] = c] /\ req' = [req EXCEPT ![r] = NoReq]
      /\ UNCHANGED <<now, allowed, bucket, known, done>>
  BY <1>3 DEF Shot, At, End, Inv, Locals, Carries
<1>5. UploadsKept(r)
  BY <1>4 DEF UploadsKept, Inv, TypeOK, Locals, Carries, Apart
<1>6. RowsHaveImages'
  BY <1>4 DEF Inv, TypeOK, RowsHaveImages
<1>7. bucket' \in SUBSET Images /\ shots' \in [Images -> Cmds \cup {None}]
  BY <1>3, <1>4 DEF Inv, TypeOK
<1> QED
  BY <1>1, <1>4, <1>5, <1>6, <1>7, Nothing, ImageInv

\* A failed batch leaves an image without a row.
LEMMA ShotFailsInv ==
    ASSUME Inv, NEW r \in Reqs, ShotFails(r)
    PROVE  Inv'
<1>1. UNCHANGED <<now, cmd, allowed, bucket, shots, known, done>> /\ End(r) /\ req[r].duty # "drop"
  BY DEF ShotFails, At
<1>2. cmd' \in [Cmds -> Cmd] /\ Kept /\ Queued' = Queued
  BY <1>1, NoRowWritten
<1>3. Handed' /\ OpenIsStamped' /\ Numbered' /\ known' \subseteq Cmds
  BY <1>1, <1>2, KnownStep DEF Inv, Numbered, TypeOK
<1> QED
  BY <1>1, <1>2, <1>3, EndInv

\* The row goes after the image, and the request that deleted both ends.
LEMMA DropInv ==
    ASSUME Inv, NEW r \in Reqs, Drop(r)
    PROVE  Inv'
<1>1. /\ UNCHANGED <<now, cmd, allowed, bucket, known, done>> /\ req[r].duty = "drop" /\ req[r].image \in Images
      /\ shots' = [shots EXCEPT ![req[r].image] = None] /\ req' = [req EXCEPT ![r] = NoReq]
  BY DEF Drop, At, End, Inv, Locals, Carries
<1>2. cmd' \in [Cmds -> Cmd] /\ Kept /\ Queued' = Queued
  BY <1>1, NoRowWritten
<1>3. UploadsKept(r)
  BY <1>1 DEF UploadsKept, Inv, TypeOK, Locals, Carries
<1>4. RowsHaveImages'
  BY <1>1 DEF Inv, TypeOK, RowsHaveImages
<1>5. bucket' \in SUBSET Images /\ shots' \in [Images -> Cmds \cup {None}]
  BY <1>1 DEF Inv, TypeOK
<1> QED
  BY <1>1, <1>2, <1>3, <1>4, <1>5, Nothing, ImageInv

-----------------------------------------------------------------------------
(* The theorems *)

LEMMA NextInv ==
    ASSUME Inv, [Next]_vars
    PROVE  Inv'
<1>1. CASE \E r \in Reqs : BeginIssue(r) \/ BeginTake(r) \/ BeginAck(r) \/ BeginShot(r) \/ BeginDrop(r)
  BY <1>1, BeginInv
<1>2. CASE \E r \in Reqs : Issue(r) \/ Take(r) \/ TakeLost(r) \/ Ack(r)
  BY <1>2, IssueInv, TakeInv, AckInv
<1>3. CASE \E r \in Reqs : PutShot(r) \/ Shot(r) \/ ShotFails(r) \/ DropImage(r) \/ Drop(r)
  BY <1>3, PutInv, ShotInv, ShotFailsInv, DropInv
<1>4. CASE \/ \E c \in Cmds : Cancel(c) \/ Run(c)
           \/ \E what \in {"commands", "screenshots", "active"} : Switch(what)
           \/ Expire \/ Tick
  BY <1>4, OutsideInv
<1>5. CASE UNCHANGED vars
  BY <1>5 DEF vars, Inv, TypeOK, Numbered, Queued, Rows, Handed, OpenIsStamped, Locals, Carries, Answers, Apart,
              RowsHaveImages
<1> QED
  BY <1>1, <1>2, <1>3, <1>4, <1>5 DEF Next, List

\* The inductive invariant holds in every state.
THEOREM Invariance == Spec => []Inv
<1>1. Init => Inv
  BY Initially
<1>2. Inv /\ [Next]_vars => Inv'
  BY NextInv
<1> QED
  BY <1>1, <1>2, PTL DEF Spec

\* Every variable keeps the type its table, object store or device gives it.
THEOREM TypeCorrect == Spec => []TypeOK
<1>1. Inv => TypeOK
  BY DEF Inv
<1> QED
  BY <1>1, Invariance, PTL

\* Whatever uploads, deletions and failures overlap, a screenshot that is listed has its image, or is being
\* deleted (ingest/index.ts, panel/routes/commands.ts).
THEOREM ScreenshotsCanBeShown == Spec => []RowsHaveImages
<1>1. Inv => RowsHaveImages
  BY DEF Inv
<1> QED
  BY <1>1, Invariance, PTL

\* What the device was handed and may still answer says when it was delivered (services/commands.ts).
THEOREM DeliveriesAreStamped == Spec => []OpenIsStamped
<1>1. Inv => OpenIsStamped
  BY DEF Inv
<1> QED
  BY <1>1, Invariance, PTL

\* No step moves a stamp, nor a command that ended, but for the image it asked for.
LEMMA NextKeeps ==
    ASSUME Inv, [Next]_vars
    PROVE  EndedStays /\ StampedOnce
<1>1. Kept /\ EndedStays
  <2>1. CASE cmd' = cmd
    BY <2>1, NoRowWritten
  <2>2. CASE \E r \in Reqs : Issue(r) \/ Ack(r) \/ Shot(r)
    BY <2>2, IssueRows, AckRows, ShotRows
  <2>3. CASE \E r \in Reqs : Take(r) \/ TakeLost(r)
    <3>1. PICK r \in Reqs : Stamp(req[r].cmds) /\ req[r] \in Req
      BY <2>3 DEF Take, TakeLost, Inv, TypeOK
    <3>2. req[r].cmds \in SUBSET Cmds
      BY <3>1 DEF Req
    <3> QED
      BY <3>1, <3>2, StampRows
  <2>4. CASE Expire \/ \E c \in Cmds : Cancel(c)
    BY <2>4, ExpireRows, CancelRows
  <2> QED
    BY <2>1, <2>2, <2>3, <2>4
    DEF Next, vars, BeginIssue, BeginTake, BeginAck, BeginShot, BeginDrop, PutShot, ShotFails, DropImage, Drop, Run,
        Switch, Tick, List
<1> QED
  BY <1>1 DEF Kept, StampedOnce

\* Whoever delivers, answers, withdraws and expires meanwhile, delivered_at is written once, and a command that
\* was answered, expired or withdrawn is changed by nothing but the image it asked for (services/commands.ts).
THEOREM AnswersAreFinal == Spec => AnswersStand
<1>1. Inv /\ [Next]_vars => EndedStays /\ StampedOnce
  BY NextKeeps
<1> QED
  BY <1>1, Invariance, PTL DEF Spec, AnswersStand, EndedStays

=============================================================================
