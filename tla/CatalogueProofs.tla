--------------------------- MODULE CatalogueProofs ---------------------------
(***************************************************************************)
(* Proofs about what buyers download, read and write, for every number of  *)
(* accounts, products, releases, files, pages, reviews and concurrent      *)
(* requests.                                                               *)
(* Downloads: a paid build goes to who paid, the wait is skipped by nobody *)
(* else, and a release passes its limit of files by no more than the       *)
(* registrations that overlapped.  Requirements: named once, reordered     *)
(* apart, and bounded in the same way.  Reviews: one for each person, kept *)
(* hidden and kept through resets.  The catalogue: the counters agree      *)
(* under stale edits.  The wiki: a page drops out of the sidebar only by a *)
(* write that crossed another.                                             *)
(***************************************************************************)
EXTENDS ReleaseDownloads, TLAPS, FiniteSetTheorems

CONSTANTS
    Entries, Names, Positions, MaxEntries, ListDuty,    \* ReleaseRequirements
    Reviews, Channels, ReviewDuty, Days, MaxCount,      \* ProductReviews
    Products, NoteDuty, Cut, MaxStamp, MaxViews,        \* ReleaseCatalog
    Pages, PageDuty, Overlap                            \* WikiPages

VARIABLES
    job,                                                \* the invocations of the modules below
    entry,                                              \* ReleaseRequirements
    issue, obtained, review, report, notices, answers,  \* ProductReviews
    goods, daily, clock, sent, due,                     \* ReleaseCatalog
    page                                                \* WikiPages

L == INSTANCE ReleaseRequirements WITH req <- job, Max <- MaxEntries, Duty <- ListDuty
V == INSTANCE ProductReviews WITH release <- issue, req <- job, Duty <- ReviewDuty
C == INSTANCE ReleaseCatalog WITH product <- goods, release <- issue, req <- job, Duty <- NoteDuty, MayFail <- Cut
W == INSTANCE WikiPages WITH req <- job, Duty <- PageDuty

-----------------------------------------------------------------------------
(* Downloads *)

\* The account of a ticket that is good waited, or held a purchase.
Entitled(t) == ticket[t].state \in {"good", "expired"} /\ (ticket[t].waited \/ ticket[t].account \in everHeld)

\* What an invocation carries from one statement to the next.
Carries(q) ==
    /\ q.kind \in {"upload", "patch", "delete", "mint", "serve"} => q.file \in Files
    /\ q.kind = "upload" => q.bytes \in Bytes
    /\ q.kind = "create" => q.row.release \in Releases
    /\ q.kind = "mint" /\ q.stage = "release" => q.row.release \in Releases
    /\ q.kind = "patch" => q.row.status \in {"draft", "published"}
    /\ q.kind = "serve" => /\ q.ticket \in Tickets /\ Entitled(q.ticket) /\ q.file = ticket[q.ticket].file

Locals == \A r \in Reqs : Carries(req[r])

\* The history of the holders covers them.
Remembered == holders \subseteq everHeld

\* A file belongs to a release.
FilesHaveReleases == \A f \in Files : Exists(f) => file[f].release \in Releases

\* A ticket names a file, and is good only for who waited or paid.
TicketsAreGood == \A t \in Minted : /\ ticket[t].file \in Files
                                    /\ ticket[t].state \in {"good", "expired"} => Entitled(t)

\* What went out went out with such a ticket.
ServedByTickets == \A d \in served : Entitled(d.ticket)

\* The inductive invariant.
Inv == /\ TypeOK /\ Locals /\ Remembered /\ FilesHaveReleases /\ TicketsAreGood /\ ServedByTickets
       /\ TicketsAreEarned

\* What every step keeps: a ticket says what it said, a good one stays good, and holders are remembered.
TicketsKept ==
    /\ everHeld \subseteq everHeld'
    /\ \A t \in Minted : /\ t \in Minted' /\ ticket'[t].file = ticket[t].file /\ ticket'[t].free = ticket[t].free
                         /\ ticket'[t].account = ticket[t].account
                         /\ Entitled(t) => Entitled(t)'

-----------------------------------------------------------------------------
\* Nothing published, nobody there.
LEMMA InitInv == Init => Inv
<1> SUFFICES ASSUME Init PROVE Inv
  OBVIOUS
<1>1. NoFile \in FileRow /\ NoTicket \in TicketRecord /\ NoProduct \in Product
  BY DEF NoFile, FileRow, NoTicket, TicketRecord, NoProduct, Product, Modes
<1>2. NoRequest \in Request
  BY <1>1 DEF NoRequest, Request, Stages
<1>3. [published |-> FALSE, pre |-> FALSE] \in ReleaseRow
  BY DEF ReleaseRow
<1>4. TypeOK
  BY <1>1, <1>2, <1>3 DEF Init, TypeOK
<1>5. Locals
  BY DEF Init, Locals, Carries, NoRequest
<1>6. Minted = {} /\ Remembered /\ FilesHaveReleases
  BY DEF Init, Minted, NoTicket, Remembered, FilesHaveReleases, Exists, NoFile
<1>7. TicketsAreGood /\ ServedByTickets /\ TicketsAreEarned
  BY <1>6 DEF Init, TicketsAreGood, ServedByTickets, TicketsAreEarned
<1> QED
  BY <1>4, <1>5, <1>6, <1>7 DEF Inv

\* What was carried may still be carried after a step that keeps the tickets.
LEMMA CarriesKept ==
    ASSUME NEW y, Carries(y), TicketsKept
    PROVE  Carries(y)'
<1>1. CASE y.kind = "serve"
  <2>1. y.ticket \in Minted
    BY <1>1 DEF Carries, Minted, Entitled
  <2>2. ticket'[y.ticket].file = ticket[y.ticket].file /\ Entitled(y.ticket)'
    BY <1>1, <2>1 DEF TicketsKept, Carries
  <2> QED
    BY <1>1, <2>2 DEF Carries
<1>2. CASE y.kind # "serve"
  BY <1>2 DEF Carries
<1> QED
  BY <1>1, <1>2

\* An invocation that goes on with what it carries leaves the others what they carried.
LEMMA LocalsKept ==
    ASSUME Inv, NEW r \in Reqs, NEW x \in Request, Carries(x)', req' = [req EXCEPT ![r] = x], TicketsKept
    PROVE  Locals' /\ req' \in [Reqs -> Request]
<1>1. req \in [Reqs -> Request]
  BY DEF Inv, TypeOK
<1>2. ASSUME NEW s \in Reqs PROVE Carries(req[s])'
  <2>1. CASE s = r
    <3>1. req'[s] = x
      BY <1>1, <2>1
    <3> QED
      BY <3>1 DEF Carries, Entitled
  <2>2. CASE s # r
    <3>1. PICK y \in Request : y = req[s] /\ y = req'[s] /\ Carries(y)
      BY <1>1, <2>2 DEF Inv, Locals
    <3>2. Carries(y)'
      BY <3>1, CarriesKept
    <3> QED
      BY <3>1, <3>2 DEF Carries, Entitled
  <2> QED
    BY <2>1, <2>2
<1> QED
  BY <1>1, <1>2 DEF Locals

\* A step that mints nothing and sends nothing.
LEMMA EditStep ==
    ASSUME Inv, NEW r \in Reqs, NEW x \in Request, Carries(x), req' = [req EXCEPT ![r] = x],
           UNCHANGED <<product, release, holders, ticket, served, everHeld>>,
           file' \in [Files -> FileRow], bucket' \in [Files -> Bytes \cup {None}], FilesHaveReleases'
    PROVE  Inv'
<1>1. TicketsKept /\ Carries(x)'
  BY DEF TicketsKept, Minted, Entitled, Carries
<1>2. Locals' /\ req' \in [Reqs -> Request]
  BY <1>1, LocalsKept
<1>3. TypeOK'
  BY <1>2 DEF Inv, TypeOK
<1>4. Minted' = Minted /\ Remembered' /\ TicketsAreGood' /\ ServedByTickets' /\ TicketsAreEarned'
  BY DEF Inv, Minted, Remembered, TicketsAreGood, ServedByTickets, TicketsAreEarned, Entitled
<1> QED
  BY <1>2, <1>3, <1>4 DEF Inv

\* One that only moves its invocation on.
LEMMA LocalStep ==
    ASSUME Inv, NEW r \in Reqs, NEW x \in Request, Carries(x), req' = [req EXCEPT ![r] = x],
           UNCHANGED <<product, release, file, bucket, holders, ticket, served, everHeld>>
    PROVE  Inv'
<1>1. file' \in [Files -> FileRow] /\ bucket' \in [Files -> Bytes \cup {None}] /\ FilesHaveReleases'
  BY DEF Inv, TypeOK, FilesHaveReleases, Exists
<1> QED
  BY <1>1, EditStep

\* An invocation that ends carries nothing.
LEMMA Nothing == NoRequest \in Request /\ Carries(NoRequest)
<1>1. NoFile \in FileRow /\ NoProduct \in Product
  BY DEF NoFile, FileRow, NoProduct, Product, Modes
<1> QED
  BY <1>1 DEF NoRequest, Request, Stages, Carries

-----------------------------------------------------------------------------
(* The editors *)

LEMMA CatalogueInv ==
    ASSUME Inv, EditProduct \/ EditRelease \/ Entitle
    PROVE  Inv'
<1>1. CASE EditProduct \/ EditRelease
  <2>1. UNCHANGED <<file, bucket, holders, ticket, req, served, everHeld>>
    BY <1>1 DEF EditProduct, EditRelease
  <2>2. product' \in Product /\ release' \in [Releases -> ReleaseRow]
    BY <1>1, DownloadsAssumption DEF EditProduct, EditRelease, Inv, TypeOK
  <2>3. TypeOK' /\ Locals'
    BY <2>1, <2>2 DEF Inv, TypeOK, Locals, Carries, Entitled
  <2> QED
    BY <2>1, <2>3 DEF Inv, Minted, Remembered, FilesHaveReleases, Exists, TicketsAreGood, ServedByTickets, TicketsAreEarned,
                      Entitled
<1>2. CASE Entitle
  <2>1. UNCHANGED <<product, release, file, bucket, ticket, req, served>>
    BY <1>2 DEF Entitle, catalogue
  <2>2. holders' \subseteq Accounts /\ everHeld' \subseteq Accounts /\ everHeld \subseteq everHeld' /\ Remembered'
    BY <1>2 DEF Entitle, Inv, TypeOK, Remembered
  <2>3. TypeOK' /\ Locals'
    BY <2>1, <2>2 DEF Inv, TypeOK, Locals, Carries, Entitled
  <2> QED
    BY <2>1, <2>2, <2>3 DEF Inv, Minted, FilesHaveReleases, Exists, TicketsAreGood, ServedByTickets, TicketsAreEarned,
                      Entitled
<1> QED
  BY <1>1, <1>2

\* An editor's request reads, and what it carries was there.
LEMMA CheckInv ==
    ASSUME Inv, NEW r \in Reqs, CheckCreate(r) \/ CheckUpload(r) \/ CheckPatch(r)
    PROVE  Inv'
<1>1. UNCHANGED <<product, release, file, bucket, holders, ticket, served, everHeld>>
  BY DEF CheckCreate, CheckUpload, CheckPatch, catalogue
<1>2. NoFile \in FileRow /\ NoProduct \in Product
  BY DEF NoFile, FileRow, NoProduct, Product, Modes
<1>3. \E x \in Request : Carries(x) /\ req' = [req EXCEPT ![r] = x]
  <2>1. CASE CheckCreate(r)
    <3> PICK l \in Releases, status \in {"draft", "published"} :
          Begin(r, [NoRequest EXCEPT !.kind = "create", !.stage = "insert",
                                     !.row = [NoFile EXCEPT !.status = status, !.release = l]])
      BY <2>1 DEF CheckCreate
    <3> DEFINE row == [NoFile EXCEPT !.status = status, !.release = l]
    <3>1. row \in FileRow /\ row.release \in Releases
      BY DEF NoFile, FileRow
    <3>2. req' = [req EXCEPT ![r] = [NoRequest EXCEPT !.kind = "create", !.stage = "insert", !.row = row]]
      BY DEF Begin
    <3> HIDE DEF row
    <3>3. [NoRequest EXCEPT !.kind = "create", !.stage = "insert", !.row = row] \in Request
      BY <1>2, <3>1 DEF NoRequest, Request, Kinds, Stages
    <3>4. Carries([NoRequest EXCEPT !.kind = "create", !.stage = "insert", !.row = row])
      BY <3>1 DEF NoRequest, Carries
    <3> QED
      BY <3>2, <3>3, <3>4
  <2>2. CASE CheckUpload(r)
    <3> PICK f \in Files, b \in Bytes, check \in BOOLEAN :
          Begin(r, [NoRequest EXCEPT !.kind = "upload", !.stage = "put", !.file = f,
                                     !.row = file[f], !.bytes = b, !.check = check])
      BY <2>2 DEF CheckUpload
    <3> DEFINE x == [NoRequest EXCEPT !.kind = "upload", !.stage = "put", !.file = f,
                                      !.row = file[f], !.bytes = b, !.check = check]
    <3>1. file[f] \in FileRow
      BY DEF Inv, TypeOK
    <3>2. x \in Request
      BY <1>2, <3>1 DEF NoRequest, Request, Kinds, Stages
    <3>3. Carries(x)
      BY DEF NoRequest, Carries
    <3> QED
      BY <3>2, <3>3 DEF Begin
  <2>3. CASE CheckPatch(r)
    <3> PICK f \in Files, status \in {"draft", "published"} :
          Begin(r, [NoRequest EXCEPT !.kind = "patch", !.stage = "write", !.file = f,
                                     !.row = [file[f] EXCEPT !.status = status]])
      BY <2>3 DEF CheckPatch
    <3> DEFINE row == [file[f] EXCEPT !.status = status]
    <3>1. row \in FileRow /\ row.status = status
      BY DEF Inv, TypeOK, FileRow
    <3>2. req' = [req EXCEPT ![r] = [NoRequest EXCEPT !.kind = "patch", !.stage = "write", !.file = f, !.row = row]]
      BY DEF Begin
    <3> HIDE DEF row
    <3>3. [NoRequest EXCEPT !.kind = "patch", !.stage = "write", !.file = f, !.row = row] \in Request
      BY <1>2, <3>1 DEF NoRequest, Request, Kinds, Stages
    <3>4. Carries([NoRequest EXCEPT !.kind = "patch", !.stage = "write", !.file = f, !.row = row])
      BY <3>1 DEF NoRequest, Carries
    <3> QED
      BY <3>2, <3>3, <3>4
  <2> QED
    BY <2>1, <2>2, <2>3
<1> QED
  BY <1>1, <1>3, LocalStep

\* A step of an upload or a deletion that writes the bucket.
LEMMA BucketInv ==
    ASSUME Inv, NEW r \in Reqs, PutObject(r) \/ RemoveObject(r) \/ DeleteObject(r)
    PROVE  Inv'
<1>1. UNCHANGED <<product, release, file, holders, ticket, served, everHeld>>
  BY DEF PutObject, RemoveObject, DeleteObject, catalogue
<1>2. req[r] \in Request /\ req \in [Reqs -> Request] /\ Carries(req[r])
  BY DEF Inv, TypeOK, Locals
<1>3. bucket' \in [Files -> Bytes \cup {None}]
  <2>1. CASE PutObject(r)
    BY <1>2, <2>1 DEF PutObject, At, Carries, Inv, TypeOK
  <2>2. CASE RemoveObject(r) \/ DeleteObject(r)
    BY <2>2 DEF RemoveObject, DeleteObject, Inv, TypeOK
  <2> QED
    BY <2>1, <2>2
<1>4. \E x \in Request : Carries(x) /\ req' = [req EXCEPT ![r] = x]
  <2>1. CASE PutObject(r)
    <3>1. ASSUME NEW stage \in {"record", "remove"}, Goto(r, stage)
          PROVE  <1>4!:
      <4> DEFINE x == [req[r] EXCEPT !.stage = stage]
      <4>1. req' = [req EXCEPT ![r] = x]
        BY <1>2, <3>1 DEF Goto
      <4>2. x \in Request /\ x.kind = "upload" /\ x.file = req[r].file /\ x.bytes = req[r].bytes
        BY <1>2, <2>1 DEF Request, Stages, PutObject, At
      <4> HIDE DEF x
      <4>3. Carries(x)
        BY <1>2, <2>1, <4>2 DEF Carries, PutObject, At
      <4> QED
        BY <4>1, <4>2, <4>3
    <3> QED
      BY <2>1, <3>1, Nothing DEF PutObject, End
  <2>2. CASE RemoveObject(r)
    BY <2>2, Nothing DEF RemoveObject, End
  <2>3. CASE DeleteObject(r)
    <3> PICK f \in Files : Begin(r, [NoRequest EXCEPT !.kind = "delete", !.stage = "row", !.file = f])
      BY <2>3 DEF DeleteObject
    <3>1. NoFile \in FileRow /\ NoProduct \in Product
      BY DEF NoFile, FileRow, NoProduct, Product, Modes
    <3>2. [NoRequest EXCEPT !.kind = "delete", !.stage = "row", !.file = f] \in Request
      BY <3>1 DEF NoRequest, Request, Kinds, Stages
    <3>3. Carries([NoRequest EXCEPT !.kind = "delete", !.stage = "row", !.file = f])
      BY DEF NoRequest, Carries
    <3> QED
      BY <3>2, <3>3 DEF Begin
  <2> QED
    BY <2>1, <2>2, <2>3
<1>5. FilesHaveReleases'
  BY <1>1 DEF Inv, FilesHaveReleases, Exists
<1>6. file' \in [Files -> FileRow]
  BY <1>1 DEF Inv, TypeOK
<1> QED
  BY <1>1, <1>3, <1>4, <1>5, <1>6, EditStep

\* A step that writes a row: it is registered with its release, and keeps it until it is gone.
LEMMA RowInv ==
    ASSUME Inv, NEW r \in Reqs, CreateFile(r) \/ RecordUpload(r) \/ PatchFile(r) \/ DeleteRow(r)
    PROVE  Inv'
<1>1. UNCHANGED <<product, release, bucket, holders, ticket, served, everHeld>> /\ req' = [req EXCEPT ![r] = NoRequest]
  BY DEF CreateFile, RecordUpload, PatchFile, DeleteRow, catalogue, End
<1>2. req[r] \in Request /\ Carries(req[r]) /\ file \in [Files -> FileRow]
  BY DEF Inv, TypeOK, Locals
<1>3. file' \in [Files -> FileRow] /\ FilesHaveReleases'
  <2>1. CASE CreateFile(r)
    <3>1. req[r].row \in FileRow /\ req[r].row.release \in Releases
      BY <1>2, <2>1 DEF Request, Carries, CreateFile, At
    <3>2. file' = file \/ \E f \in Files : file' = [file EXCEPT ![f] = req[r].row]
      BY <2>1 DEF CreateFile
    <3> QED
      BY <1>2, <3>1, <3>2 DEF Inv, FilesHaveReleases, Exists
  <2>2. CASE RecordUpload(r)
    <3> DEFINE f == req[r].file
               row == [file[f] EXCEPT !.uploaded = TRUE, !.checksum = RecordedChecksum(req[r])]
    <3>1. f \in Files /\ RecordedChecksum(req[r]) \in Bytes \cup {None}
      BY <1>2, <2>2 DEF RecordUpload, At, Carries, RecordedChecksum, Request, FileRow
    <3>2. file' = [file EXCEPT ![f] = IF Exists(f) THEN row ELSE file[f]]
      BY <1>2, <2>2 DEF RecordUpload
    <3>3. row \in FileRow /\ row.status = file[f].status /\ row.release = file[f].release
      BY <1>2, <3>1 DEF FileRow
    <3> HIDE DEF f, row
    <3> QED
      BY <1>2, <3>1, <3>2, <3>3 DEF Inv, FilesHaveReleases, Exists
  <2>3. CASE PatchFile(r)
    <3> DEFINE f == req[r].file
               row == [file[f] EXCEPT !.status = req[r].row.status]
    <3>1. f \in Files /\ req[r].row.status \in {"draft", "published"}
      BY <1>2, <2>3 DEF PatchFile, At, Carries
    <3>2. file' = IF Exists(f) THEN [file EXCEPT ![f] = row] ELSE file
      BY <1>2, <2>3, <3>1 DEF PatchFile, FileRow
    <3>3. row \in FileRow /\ row.release = file[f].release
      BY <1>2, <3>1 DEF FileRow
    <3> HIDE DEF f, row
    <3> QED
      BY <1>2, <3>1, <3>2, <3>3 DEF Inv, FilesHaveReleases, Exists
  <2>4. CASE DeleteRow(r)
    <3> DEFINE row == [NoFile EXCEPT !.status = "gone"]
    <3>1. file' = [file EXCEPT ![req[r].file] = row]
      BY <2>4 DEF DeleteRow
    <3>2. row \in FileRow /\ row.status = "gone"
      BY DEF NoFile, FileRow
    <3> HIDE DEF row
    <3> QED
      BY <1>2, <3>1, <3>2 DEF Inv, FilesHaveReleases, Exists
  <2> QED
    BY <2>1, <2>2, <2>3, <2>4
<1>4. bucket' \in [Files -> Bytes \cup {None}]
  BY <1>1 DEF Inv, TypeOK
<1> QED
  BY <1>1, <1>3, <1>4, Nothing, EditStep

-----------------------------------------------------------------------------
(* The downloads *)

\* The reads that precede a ticket.
LEMMA ReadsInv ==
    ASSUME Inv, NEW r \in Reqs, BeginMint(r) \/ ReadFile(r) \/ ReadRelease(r)
    PROVE  Inv'
<1>1. UNCHANGED <<product, release, file, bucket, holders, ticket, served, everHeld>>
  BY DEF BeginMint, ReadFile, ReadRelease, catalogue
<1>2. req[r] \in Request /\ Carries(req[r]) /\ product \in Product /\ file \in [Files -> FileRow]
  BY DEF Inv, TypeOK, Locals
<1>3. \E x \in Request : Carries(x) /\ req' = [req EXCEPT ![r] = x]
  <2>1. CASE BeginMint(r)
    <3> PICK a \in Accounts \cup {None}, f \in Files :
          Begin(r, [NoRequest EXCEPT !.kind = "mint", !.stage = "file", !.product = product, !.account = a, !.file = f])
      BY <2>1 DEF BeginMint
    <3> DEFINE x == [NoRequest EXCEPT !.kind = "mint", !.stage = "file", !.product = product, !.account = a, !.file = f]
    <3>1. NoFile \in FileRow
      BY DEF NoFile, FileRow
    <3>2. x \in Request
      BY <1>2, <3>1 DEF NoRequest, Request, Kinds, Stages
    <3>3. Carries(x)
      BY DEF NoRequest, Carries
    <3> QED
      BY <3>2, <3>3 DEF Begin
  <2>2. CASE ReadFile(r)
    <3> DEFINE row == file[req[r].file]
               x == [req[r] EXCEPT !.stage = "release", !.row = row]
    <3>1. req[r].kind = "mint" /\ req[r].file \in Files /\ row \in FileRow
      BY <1>2, <2>2 DEF ReadFile, At, Carries
    <3>2. CASE Fetchable(row) /\ req' = [req EXCEPT ![r] = x]
      <4>1. row.release \in Releases
        BY <3>1, <3>2 DEF Fetchable, Inv, FilesHaveReleases, Exists
      <4> HIDE DEF row
      <4>2. x \in Request /\ x.kind = "mint" /\ x.file = req[r].file /\ x.row = row
        BY <1>2, <3>1 DEF Request, Stages
      <4> HIDE DEF x
      <4>3. Carries(x)
        BY <3>1, <4>1, <4>2 DEF Carries
      <4> QED
        BY <3>2, <4>2, <4>3
    <3> QED
      BY <2>2, <3>2, Nothing DEF ReadFile, Begin, End
  <2>3. CASE ReadRelease(r)
    <3> DEFINE l == req[r].row.release
               x == [req[r] EXCEPT !.stage = "access", !.pre = release[l].pre]
    <3>1. req[r].kind = "mint" /\ req[r].file \in Files /\ l \in Releases
      BY <1>2, <2>3 DEF ReadRelease, At, Carries
    <3>2. release[l].pre \in BOOLEAN
      BY <3>1 DEF Inv, TypeOK, ReleaseRow
    <3> HIDE DEF l
    <3>3. x \in Request /\ x.kind = "mint" /\ x.file = req[r].file /\ x.stage = "access"
      BY <1>2, <3>1, <3>2 DEF Request, Stages
    <3>4. req' = [req EXCEPT ![r] = x] \/ req' = [req EXCEPT ![r] = NoRequest]
      BY <2>3 DEF ReadRelease, Begin, End, l
    <3> HIDE DEF x
    <3>5. Carries(x)
      BY <3>1, <3>3 DEF Carries
    <3> QED
      BY <3>3, <3>4, <3>5, Nothing
  <2> QED
    BY <2>1, <2>2, <2>3
<1> QED
  BY <1>1, <1>3, LocalStep

\* What the gate decided is what the ticket says: it is free, or its account is a holder; it is good
\* at once for a product that makes no offer, or for a holder.
LEMMA Decided ==
    ASSUME Inv, NEW q \in Request, MayDownload(q.product, q.pre, HasPaid(q.product, q.account))
    PROVE  LET paid == HasPaid(q.product, q.account)
               free == ~RequiresPayment(q.product) /\ ~(q.product.gatesPre /\ q.pre /\ AcceptsPayment(q.product))
           IN  /\ free \/ q.account \in everHeld
               /\ Cooldown(q.product, paid) \/ ~AcceptsPayment(q.product) \/ q.account \in everHeld
               /\ paid \in BOOLEAN /\ free \in BOOLEAN /\ (~AcceptsPayment(q.product)) \in BOOLEAN
<1>1. holders \subseteq everHeld
  BY DEF Inv, Remembered
<1>2. q.product.gatesPre \in BOOLEAN /\ q.pre \in BOOLEAN
  BY DEF Request, Product
<1> DEFINE paid == HasPaid(q.product, q.account)
           gated == ChannelGated(q.product, q.pre)
           free == ~RequiresPayment(q.product) /\ ~(q.product.gatesPre /\ q.pre /\ AcceptsPayment(q.product))
<1>3. paid => q.account \in everHeld
  BY <1>1 DEF HasPaid
<1>4. ~RequiresPayment(q.product) /\ ~gated => free
  BY DEF ChannelGated, AcceptsPayment
<1>5. RequiresPayment(q.product) \/ gated => paid
  BY DEF MayDownload
<1>6. Cooldown(q.product, paid) \/ ~AcceptsPayment(q.product) \/ paid
  BY DEF Cooldown
<1>7. paid \in BOOLEAN /\ free \in BOOLEAN /\ (~AcceptsPayment(q.product)) \in BOOLEAN
  BY DEF HasPaid
<1> HIDE DEF paid, gated, free
<1>8. free \/ q.account \in everHeld
  BY <1>3, <1>4, <1>5
<1>9. Cooldown(q.product, paid) \/ ~AcceptsPayment(q.product) \/ q.account \in everHeld
  BY <1>3, <1>6
<1> USE DEF paid, free
<1> QED
  BY <1>7, <1>8, <1>9

\* A ticket is minted from what was read.
LEMMA MintInv ==
    ASSUME Inv, NEW r \in Reqs, MintDownloadTicket(r)
    PROVE  Inv'
<1>1. /\ UNCHANGED <<product, release, file, bucket, holders, served, everHeld>> /\ req' = [req EXCEPT ![r] = NoRequest]
  BY DEF MintDownloadTicket, catalogue, End
<1>2. CASE UNCHANGED ticket
  BY <1>1, <1>2, Nothing, LocalStep
<1>3. ASSUME NEW t \in Tickets, NEW k \in TicketRecord, ticket[t].state = "none", ticket' = [ticket EXCEPT ![t] = k],
             k.file \in Files, k.free \/ k.account \in everHeld, k.state \in {"early", "good"},
             k.state = "good" => k.waited \/ k.account \in everHeld
      PROVE  Inv'
  <2>1. ticket' \in [Tickets -> TicketRecord] /\ ticket'[t] = k /\ \A u \in Tickets : u # t => ticket'[u] = ticket[u]
    BY <1>3 DEF Inv, TypeOK
  <2>2. Minted' = Minted \cup {t} /\ t \notin Minted
    BY <1>3, <2>1 DEF Minted
  <2>3. \A u \in Minted : u # t /\ ticket'[u] = ticket[u] /\ Entitled(u)' = Entitled(u)
    BY <1>1, <2>1, <2>2 DEF Minted, Entitled
  <2>4. TicketsKept
    BY <1>1, <2>2, <2>3 DEF TicketsKept
  <2>5. TypeOK' /\ Locals'
    <3>1. Carries(NoRequest)' /\ NoRequest \in Request
      BY Nothing DEF Carries, NoRequest
    <3>2. Locals' /\ req' \in [Reqs -> Request]
      BY <1>1, <2>4, <3>1, LocalsKept DEF NoRequest, NoFile, NoProduct
    <3> QED
      BY <1>1, <2>1, <3>2 DEF Inv, TypeOK
  <2>6. TicketsAreGood' /\ TicketsAreEarned'
    <3> SUFFICES ASSUME NEW u \in Minted'
                 PROVE  /\ ticket'[u].file \in Files
                        /\ ticket'[u].state \in {"good", "expired"} => Entitled(u)'
                        /\ ticket'[u].free \/ ticket'[u].account \in everHeld'
      BY DEF TicketsAreGood, TicketsAreEarned
    <3>1. CASE u = t
      BY <1>1, <1>3, <2>1, <3>1 DEF Entitled
    <3>2. CASE u # t
      BY <1>1, <2>2, <2>3, <3>2 DEF Inv, TicketsAreGood, TicketsAreEarned
    <3> QED
      BY <3>1, <3>2
  <2>7. \A d \in served : d.ticket \in Minted
    BY DEF Inv, TypeOK, Sending, ServedByTickets, Entitled, Minted
  <2>8. ServedByTickets'
    BY <1>1, <2>3, <2>7 DEF Inv, ServedByTickets
  <2> QED
    BY <1>1, <2>5, <2>6, <2>8 DEF Inv, Remembered, FilesHaveReleases, Exists
<1>4. ASSUME ~ UNCHANGED ticket
      PROVE  Inv'
  <2> DEFINE q == req[r]
             paid == HasPaid(q.product, q.account)
             free == ~RequiresPayment(q.product) /\ ~(q.product.gatesPre /\ q.pre /\ AcceptsPayment(q.product))
             state == IF Cooldown(q.product, paid) THEN "early" ELSE "good"
             k == [state |-> state, file |-> q.file, account |-> q.account, paid |-> paid, free |-> free,
                   waited |-> ~AcceptsPayment(q.product)]
  <2>1. q \in Request /\ q.file \in Files /\ q.account \in Accounts \cup {None}
    BY DEF Inv, TypeOK, Locals, Carries, MintDownloadTicket, At, Request
  <2>2. MayDownload(q.product, q.pre, paid)
    BY <1>4 DEF MintDownloadTicket
  <2>3. PICK t \in Tickets : ticket[t].state = "none" /\ ticket' = [ticket EXCEPT ![t] = k]
    BY <1>4 DEF MintDownloadTicket
  <2>4. /\ free \/ q.account \in everHeld
        /\ Cooldown(q.product, paid) \/ ~AcceptsPayment(q.product) \/ q.account \in everHeld
        /\ paid \in BOOLEAN /\ free \in BOOLEAN /\ (~AcceptsPayment(q.product)) \in BOOLEAN
    BY <2>1, <2>2, Decided
  <2>5. state \in {"early", "good"} /\ (state = "good" => ~Cooldown(q.product, paid))
    OBVIOUS
  <2> HIDE DEF q, paid, free, state
  <2>6. k \in TicketRecord
    BY <2>1, <2>4, <2>5 DEF TicketRecord
  <2>7. k.file \in Files /\ (k.free \/ k.account \in everHeld) /\ k.state \in {"early", "good"}
        /\ (k.state = "good" => k.waited \/ k.account \in everHeld)
    BY <2>1, <2>4, <2>5
  <2> HIDE DEF k
  <2> QED
    BY <1>3, <2>3, <2>6, <2>7
<1> QED
  BY <1>2, <1>4

\* The wait ends, and so does the ticket.
LEMMA TimeInv ==
    ASSUME Inv, NEW t \in Tickets, TimePasses(t)
    PROVE  Inv'
<1>1. UNCHANGED <<product, release, file, bucket, holders, req, served, everHeld>>
  BY DEF TimePasses, catalogue
<1>2. ticket \in [Tickets -> TicketRecord] /\ t \in Minted
  BY DEF Inv, TypeOK, TimePasses, Minted
<1>3. PICK k \in TicketRecord :
        /\ ticket' = [ticket EXCEPT ![t] = k] /\ k.file = ticket[t].file /\ k.free = ticket[t].free
        /\ k.account = ticket[t].account /\ k.state \in {"good", "expired"}
        /\ k.waited \/ (k.waited = ticket[t].waited /\ ticket[t].state = "good")
  <2>1. CASE ticket[t].state = "early" /\ ticket' = [ticket EXCEPT ![t].state = "good", ![t].waited = TRUE]
    <3> DEFINE k == [ticket[t] EXCEPT !.state = "good", !.waited = TRUE]
    <3>1. ticket' = [ticket EXCEPT ![t] = k]
      BY <1>2, <2>1
    <3>2. /\ k \in TicketRecord /\ k.file = ticket[t].file /\ k.free = ticket[t].free /\ k.account = ticket[t].account
          /\ k.state = "good" /\ k.waited
      BY <1>2 DEF TicketRecord
    <3> HIDE DEF k
    <3> QED
      BY <3>1, <3>2
  <2>2. CASE ticket[t].state = "good" /\ ticket' = [ticket EXCEPT ![t].state = "expired"]
    <3> DEFINE k == [ticket[t] EXCEPT !.state = "expired"]
    <3>1. ticket' = [ticket EXCEPT ![t] = k]
      BY <1>2, <2>2
    <3>2. /\ k \in TicketRecord /\ k.file = ticket[t].file /\ k.free = ticket[t].free /\ k.account = ticket[t].account
          /\ k.state = "expired" /\ k.waited = ticket[t].waited
      BY <1>2 DEF TicketRecord
    <3> HIDE DEF k
    <3> QED
      BY <2>2, <3>1, <3>2
  <2> QED
    BY <2>1, <2>2 DEF TimePasses
<1>4. ticket' \in [Tickets -> TicketRecord] /\ ticket'[t] = k /\ \A u \in Tickets : u # t => ticket'[u] = ticket[u]
  BY <1>2, <1>3
<1>5. Minted' = Minted
  BY <1>2, <1>3, <1>4 DEF Minted
<1>6. Entitled(t)'
  <2>1. ticket[t].state = "good" => ticket[t].waited \/ ticket[t].account \in everHeld
    BY <1>2 DEF Inv, TicketsAreGood, Entitled
  <2> QED
    BY <1>1, <1>3, <1>4, <2>1 DEF Entitled
<1>7. TicketsKept
  <2> SUFFICES ASSUME NEW u \in Minted
               PROVE  /\ u \in Minted' /\ ticket'[u].file = ticket[u].file /\ ticket'[u].free = ticket[u].free
                      /\ ticket'[u].account = ticket[u].account /\ (Entitled(u) => Entitled(u)')
    BY <1>1 DEF TicketsKept
  <2>1. CASE u = t
    BY <1>3, <1>4, <1>5, <1>6, <2>1
  <2>2. CASE u # t
    BY <1>1, <1>4, <1>5, <2>2 DEF Minted, Entitled
  <2> QED
    BY <2>1, <2>2
<1>8. TypeOK'
  BY <1>1, <1>4 DEF Inv, TypeOK
<1>9. Locals'
  <2> SUFFICES ASSUME NEW r \in Reqs PROVE Carries(req[r])'
    BY DEF Locals
  <2>1. PICK y \in Request : y = req[r] /\ y = req'[r] /\ Carries(y)
    BY <1>1 DEF Inv, TypeOK, Locals
  <2>2. Carries(y)'
    BY <1>7, <2>1, CarriesKept
  <2> QED
    BY <2>1, <2>2 DEF Carries, Entitled
<1>10. TicketsAreGood' /\ TicketsAreEarned'
  <2>1. \A u \in Minted : u # t => ticket'[u] = ticket[u]
    BY <1>4 DEF Minted
  <2> QED
    BY <1>1, <1>5, <1>6, <1>7, <2>1 DEF Inv, TicketsAreGood, TicketsAreEarned, TicketsKept
<1>11. \A d \in served : d.ticket \in Minted
  BY DEF Inv, TypeOK, Sending, ServedByTickets, Entitled, Minted
<1>12. ServedByTickets'
  BY <1>1, <1>7, <1>11 DEF Inv, ServedByTickets, TicketsKept
<1> QED
  BY <1>1, <1>8, <1>9, <1>10, <1>12 DEF Inv, Remembered, FilesHaveReleases, Exists

\* A download begins with a ticket that is good, and the file it names.
LEMMA BeginServeInv ==
    ASSUME Inv, NEW r \in Reqs, BeginServe(r)
    PROVE  Inv'
<1> PICK t \in Tickets :
      /\ Verified(t) /\ Fetchable(file[ticket[t].file])
      /\ Begin(r, [NoRequest EXCEPT !.kind = "serve", !.stage = "object", !.ticket = t,
                                    !.file = ticket[t].file, !.row = file[ticket[t].file]])
  BY DEF BeginServe
<1> DEFINE f == ticket[t].file
           row == file[f]
           x == [NoRequest EXCEPT !.kind = "serve", !.stage = "object", !.ticket = t, !.file = f, !.row = row]
<1>1. t \in Minted /\ f \in Files /\ Entitled(t)
  BY DEF Verified, Minted, Inv, TicketsAreGood
<1>2. row \in FileRow
  BY <1>1 DEF Inv, TypeOK
<1>3. NoFile \in FileRow /\ NoProduct \in Product
  BY DEF NoFile, FileRow, NoProduct, Product, Modes
<1>4. req' = [req EXCEPT ![r] = x] /\ UNCHANGED <<product, release, file, bucket, holders, ticket, served, everHeld>>
  BY DEF Begin, BeginServe, catalogue
<1> HIDE DEF row
<1>5. x \in Request
  BY <1>1, <1>2, <1>3 DEF NoRequest, Request, Kinds, Stages
<1>6. x.kind = "serve" /\ x.stage = "object" /\ x.ticket = t /\ x.file = ticket[t].file /\ x.row = row
  BY DEF NoRequest
<1> HIDE DEF x
<1>7. Carries(x)
  BY <1>1, <1>2, <1>6 DEF Carries
<1> QED
  BY <1>4, <1>5, <1>7, LocalStep

\* The bytes go out.
LEMMA ServeInv ==
    ASSUME Inv, NEW r \in Reqs, Serve(r)
    PROVE  Inv'
<1> DEFINE q == req[r]
           d == [ticket |-> q.ticket, file |-> q.file, row |-> q.row, bytes |-> bucket[q.file]]
<1>1. /\ q \in Request /\ q.ticket \in Tickets /\ Entitled(q.ticket) /\ q.file \in Files
      /\ q.file = ticket[q.ticket].file
  BY DEF Serve, At, Inv, TypeOK, Locals, Carries
<1>2. UNCHANGED <<product, release, file, bucket, holders, ticket, everHeld>> /\ req' = [req EXCEPT ![r] = NoRequest]
  BY DEF Serve, catalogue, End
<1>3. served' = served \/ (bucket[q.file] # None /\ served' = served \cup {d})
  BY DEF Serve
<1>4. q.row \in FileRow
  BY <1>1 DEF Request
<1>5. bucket[q.file] # None => d \in Sending
  BY <1>1, <1>4 DEF Sending, Inv, TypeOK
<1>6. TicketsKept /\ Carries(NoRequest)'
  BY <1>2 DEF TicketsKept, Minted, Entitled, Carries, NoRequest
<1>7. Locals' /\ req' \in [Reqs -> Request]
  BY <1>2, <1>6, Nothing, LocalsKept DEF NoRequest, NoFile, NoProduct
<1>8. d.ticket = q.ticket /\ d.file = q.file /\ d.row = q.row
  OBVIOUS
<1> HIDE DEF q, d
<1>9. TypeOK'
  BY <1>2, <1>3, <1>5, <1>7 DEF Inv, TypeOK
<1>10. ServedByTickets'
  BY <1>1, <1>2, <1>3, <1>8 DEF Inv, ServedByTickets, Entitled
<1>11. Minted' = Minted /\ TicketsAreGood' /\ TicketsAreEarned' /\ Remembered' /\ FilesHaveReleases'
  BY <1>2 DEF Inv, Minted, TicketsAreGood, TicketsAreEarned, Remembered, FilesHaveReleases, Exists, Entitled
<1> QED
  BY <1>7, <1>9, <1>10, <1>11 DEF Inv

\* An invocation cut short carries nothing.
LEMMA FailInv ==
    ASSUME Inv, NEW r \in Reqs, Fail(r)
    PROVE  Inv'
<1>1. req' = [req EXCEPT ![r] = NoRequest] /\ UNCHANGED <<product, release, file, bucket, holders, ticket, served, everHeld>>
  BY DEF Fail, End, catalogue
<1> QED
  BY <1>1, Nothing, LocalStep

-----------------------------------------------------------------------------
\* Every step keeps the invariant.
LEMMA NextInv ==
    ASSUME Inv, [Next]_vars
    PROVE  Inv'
<1>1. CASE UNCHANGED vars
  BY <1>1 DEF vars, Inv, TypeOK, Locals, Carries, Remembered, FilesHaveReleases, Exists, Minted, TicketsAreGood,
              ServedByTickets, TicketsAreEarned, Entitled
<1>2. ASSUME NEW r \in Reqs, Edit(r)
      PROVE  Inv'
  BY <1>2, CheckInv, BucketInv, RowInv DEF Edit
<1>3. ASSUME NEW r \in Reqs, Download(r)
      PROVE  Inv'
  BY <1>3, ReadsInv, MintInv, BeginServeInv, ServeInv DEF Download
<1> QED
  BY <1>1, <1>2, <1>3, CatalogueInv, FailInv, TimeInv DEF Next

\* The inductive invariant holds in every reachable state.
THEOREM Invariance == Spec => []Inv
<1>1. Init => Inv
  BY InitInv
<1>2. Inv /\ [Next]_vars => Inv'
  BY NextInv
<1> QED
  BY <1>1, <1>2, PTL DEF Spec

\* Types: the tables, the bucket, the tickets and the invocations hold values of their types.
THEOREM TypeCorrect == Spec => []TypeOK
<1>1. Inv => TypeOK
  BY DEF Inv
<1> QED
  BY <1>1, Invariance, PTL

\* The account of a ticket for a build behind the purchase has held an approved purchase, however
\* price, channel and purchase changed while the ticket was decided (services/access.ts).
THEOREM BuildsGoToBuyers == Spec => []TicketsAreEarned
<1>1. Inv => TicketsAreEarned
  BY DEF Inv
<1> QED
  BY <1>1, Invariance, PTL

\* Bytes that went out before the wait was over went to an account that has held a purchase
\* (lib/downloads.ts, routes/downloads.ts).
THEOREM TheWaitIsKept == Spec => []NobodySkipsTheWait
<1>1. Inv => NobodySkipsTheWait
  BY DEF Inv, ServedByTickets, NobodySkipsTheWait, Entitled
<1> QED
  BY <1>1, Invariance, PTL

-----------------------------------------------------------------------------
(* How many files a release carries, whoever registers them *)

\* Where there was room for one more, a list and what is under way to be added to it stay short of the
\* limit and one place for each that may add.
LEMMA RoomLeft ==
    ASSUME NEW M \in Nat, NEW Among, IsFiniteSet(Among), NEW S, IsFiniteSet(S), NEW P \in SUBSET Among, NEW P1 \in SUBSET Among, NEW S1,
           Cardinality(S) + Cardinality(P) < M + Cardinality(Among),
           \/ S1 \subseteq S /\ P1 \subseteq P
           \/ S1 = S /\ Cardinality(S) < M
           \/ \E f, r : S1 \subseteq S \cup {f} /\ r \in P /\ P1 \subseteq P \ {r}
    PROVE  Cardinality(S1) + Cardinality(P1) < M + Cardinality(Among)
<1>1. /\ Cardinality(S) \in Nat /\ Cardinality(Among) \in Nat
      /\ IsFiniteSet(P) /\ Cardinality(P) \in Nat
      /\ Cardinality(P1) \in Nat /\ Cardinality(P1) <= Cardinality(Among)
  BY FS_Subset, FS_CardinalityType
<1>2. CASE S1 \subseteq S /\ P1 \subseteq P
  <2>1. /\ Cardinality(S1) \in Nat /\ Cardinality(S1) <= Cardinality(S)
        /\ Cardinality(P1) <= Cardinality(P)
    BY <1>1, <1>2, FS_Subset, FS_CardinalityType
  <2> QED
    BY <1>1, <2>1
<1>3. CASE S1 = S /\ Cardinality(S) < M
  BY <1>1, <1>3
<1>4. ASSUME NEW f, NEW r, S1 \subseteq S \cup {f}, r \in P, P1 \subseteq P \ {r}
      PROVE  Cardinality(S1) + Cardinality(P1) < M + Cardinality(Among)
  <2>0. IsFiniteSet(S \cup {f}) /\ Cardinality(S \cup {f}) = IF f \in S THEN Cardinality(S) ELSE Cardinality(S) + 1
    BY FS_AddElement
  <2>1. IsFiniteSet(S \cup {f}) /\ Cardinality(S \cup {f}) <= Cardinality(S) + 1
    BY <1>1, <2>0
  <2>2. Cardinality(S1) \in Nat /\ Cardinality(S \cup {f}) \in Nat /\ Cardinality(S1) <= Cardinality(S \cup {f})
    BY <1>4, <2>1, FS_Subset, FS_CardinalityType
  <2>3. IsFiniteSet(P \ {r}) /\ Cardinality(P \ {r}) = Cardinality(P) - 1
    BY <1>1, <1>4, FS_RemoveElement
  <2>4. Cardinality(P1) <= Cardinality(P \ {r})
    BY <1>4, <2>3, FS_Subset
  <2> QED
    BY <1>1, <2>1, <2>2, <2>3, <2>4
<1> QED
  BY <1>2, <1>3, <1>4

\* An invocation does what its request was sent to do.
OnDuty == \A r \in Reqs : req[r].kind # "none" => req[r].kind \in Duty[r]

\* The invocations that counted the files of a release and have not inserted yet.
Adding(l) == {r \in Reqs : req[r].kind = "create" /\ req[r].row.release = l}

\* With the files there are, they keep to the bound.
Room == \A l \in Releases : Cardinality(FilesOf(l)) + Cardinality(Adding(l)) < MaxFiles + Cardinality(Creators)

Bounded == Inv /\ OnDuty /\ Room

\* What may happen to the files of a release and to those that add to them.
Change(l) ==
    \/ FilesOf(l)' \subseteq FilesOf(l) /\ Adding(l)' \subseteq Adding(l)
    \/ FilesOf(l)' = FilesOf(l) /\ Cardinality(FilesOf(l)) < MaxFiles
    \/ \E f, r : FilesOf(l)' \subseteq FilesOf(l) \cup {f} /\ r \in Adding(l) /\ Adding(l)' \subseteq Adding(l) \ {r}

LEMMA RoomKept ==
    ASSUME Bounded, OnDuty', \A l \in Releases : Change(l)
    PROVE  Room'
<1> SUFFICES ASSUME NEW l \in Releases
             PROVE  Cardinality(FilesOf(l)') + Cardinality(Adding(l)') < MaxFiles + Cardinality(Creators)
  BY DEF Room, Creators
<1>1. IsFiniteSet(Creators) /\ IsFiniteSet(FilesOf(l)) /\ MaxFiles \in Nat
  BY DownloadsAssumption, FS_Subset DEF Creators, FilesOf
<1>2. Adding(l) \in SUBSET Creators /\ Adding(l)' \in SUBSET Creators
  BY DEF Bounded, OnDuty, Adding, Creators
<1>3. Cardinality(FilesOf(l)) + Cardinality(Adding(l)) < MaxFiles + Cardinality(Creators)
  BY DEF Bounded, Room
<1>4. Change(l)
  OBVIOUS
<1> DEFINE S == FilesOf(l)  P == Adding(l)  S1 == FilesOf(l)'  P1 == Adding(l)'  D == Creators
<1>5. /\ IsFiniteSet(D) /\ IsFiniteSet(S) /\ P \in SUBSET D /\ P1 \in SUBSET D
      /\ Cardinality(S) + Cardinality(P) < MaxFiles + Cardinality(D)
      /\ \/ S1 \subseteq S /\ P1 \subseteq P
         \/ S1 = S /\ Cardinality(S) < MaxFiles
         \/ \E f, r : S1 \subseteq S \cup {f} /\ r \in P /\ P1 \subseteq P \ {r}
  BY <1>1, <1>2, <1>3, <1>4 DEF Change
<1> HIDE DEF S, P, S1, P1, D
<1>6. Cardinality(S1) + Cardinality(P1) < MaxFiles + Cardinality(D)
  BY <1>1, <1>5, RoomLeft
<1> QED
  BY <1>6 DEF S1, P1, D

\* A step that registers nothing: no release gains a file, and no invocation becomes a registration.
LEMMA NoGain ==
    ASSUME Bounded, Inv', NEW r \in Reqs, \A s \in Reqs : s # r => req'[s] = req[s],
           req'[r].kind # "create", req'[r].kind = "none" \/ req'[r].kind \in Duty[r],
           \A l \in Releases : FilesOf(l)' \subseteq FilesOf(l)
    PROVE  Bounded'
<1>1. OnDuty'
  BY DEF Bounded, OnDuty
<1>2. \A l \in Releases : Change(l)
  BY DEF Change, Adding
<1> QED
  BY <1>1, <1>2, RoomKept DEF Bounded

\* An editor counts, and means to register.
LEMMA CheckCreateBounded ==
    ASSUME Bounded, Inv', NEW r \in Reqs, CheckCreate(r)
    PROVE  Bounded'
<1>1. PICK l \in Releases, status \in {"draft", "published"} :
        /\ Fits(l)
        /\ Begin(r, [NoRequest EXCEPT !.kind = "create", !.stage = "insert",
                                      !.row = [NoFile EXCEPT !.status = status, !.release = l]])
  BY DEF CheckCreate
<1>2. "create" \in Duty[r] /\ UNCHANGED file /\ req[r] = req[r]
  BY DEF CheckCreate, Idle
<1> DEFINE row == [NoFile EXCEPT !.status = status, !.release = l]
           x == [NoRequest EXCEPT !.kind = "create", !.stage = "insert", !.row = row]
<1>3. row.release = l
  BY DEF NoFile
<1> HIDE DEF row
<1>4. x.kind = "create" /\ x.row.release = l
  BY <1>3 DEF NoRequest
<1>5. req' = [req EXCEPT ![r] = x]
  BY <1>1 DEF Begin, row
<1> HIDE DEF x
<1>6. \A s \in Reqs : req'[s] = IF s = r THEN x ELSE req[s]
  BY <1>5 DEF Bounded, Inv, TypeOK
<1>7. \A m : FilesOf(m)' = FilesOf(m)
  BY <1>2 DEF FilesOf, Exists
<1>8. OnDuty'
  BY <1>2, <1>4, <1>6 DEF Bounded, OnDuty
<1>9. \A m \in Releases : Change(m)
  <2> SUFFICES ASSUME NEW m \in Releases PROVE Change(m)
    OBVIOUS
  <2>1. CASE m = l
    BY <1>1, <1>7, <2>1 DEF Change, Fits
  <2>2. CASE m # l
    <3>1. Adding(m)' \subseteq Adding(m)
      BY <1>4, <1>6, <2>2 DEF Adding
    <3> QED
      BY <1>7, <3>1 DEF Change
  <2> QED
    BY <2>1, <2>2
<1> QED
  BY <1>8, <1>9, RoomKept DEF Bounded

\* It registers, whoever else did since it counted: its place was kept.
LEMMA CreateBounded ==
    ASSUME Bounded, Inv', NEW r \in Reqs, CreateFile(r)
    PROVE  Bounded'
<1>1. /\ req[r].kind = "create" /\ req' = [req EXCEPT ![r] = NoRequest]
      /\ file' = file \/ \E f \in Files : file[f].status = "none" /\ file' = [file EXCEPT ![f] = req[r].row]
  BY DEF CreateFile, At, End
<1>2. \A s \in Reqs : req'[s] = IF s = r THEN NoRequest ELSE req[s]
  BY <1>1 DEF Bounded, Inv, TypeOK
<1>3. NoRequest.kind = "none"
  BY DEF NoRequest
<1> HIDE DEF NoRequest
<1>4. OnDuty'
  BY <1>2, <1>3 DEF Bounded, OnDuty
<1>5. \A l : Adding(l)' \subseteq Adding(l) \ {r}
  BY <1>2, <1>3 DEF Adding
<1>6. \A l \in Releases : Change(l)
  <2> SUFFICES ASSUME NEW l \in Releases PROVE Change(l)
    OBVIOUS
  <2>1. CASE FilesOf(l)' \subseteq FilesOf(l)
    BY <1>5, <2>1 DEF Change
  <2>2. CASE file' = file
    BY <2>1, <2>2 DEF FilesOf, Exists
  <2>3. ASSUME NEW f \in Files, file[f].status = "none", file' = [file EXCEPT ![f] = req[r].row]
        PROVE  Change(l)
    <3>1. \A g \in Files : g # f => file'[g] = file[g]
      BY <2>3 DEF Bounded, Inv, TypeOK
    <3>2. file'[f] = req[r].row
      BY <2>3 DEF Bounded, Inv, TypeOK
    <3>3. FilesOf(l)' \subseteq FilesOf(l) \cup {f}
      BY <3>1 DEF FilesOf, Exists
    <3>4. CASE req[r].row.release = l
      <4>1. r \in Adding(l)
        BY <1>1, <3>4 DEF Adding
      <4> QED
        BY <1>5, <3>3, <4>1 DEF Change
    <3>5. CASE req[r].row.release # l
      <4>1. f \notin FilesOf(l)'
        BY <3>2, <3>5 DEF FilesOf
      <4> QED
        BY <2>1, <3>3, <4>1
    <3> QED
      BY <3>4, <3>5
  <2> QED
    BY <1>1, <2>2, <2>3
<1> QED
  BY <1>4, <1>6, RoomKept DEF Bounded

\* What an invocation that does not register does next.
LEMMA KindsKept ==
    ASSUME Bounded, NEW r \in Reqs,
           \/ CheckUpload(r) \/ PutObject(r) \/ RemoveObject(r) \/ RecordUpload(r) \/ CheckPatch(r) \/ PatchFile(r)
           \/ DeleteObject(r) \/ DeleteRow(r) \/ Download(r) \/ Fail(r)
    PROVE  /\ \A s \in Reqs : s # r => req'[s] = req[s]
           /\ req'[r].kind # "create" /\ (req'[r].kind = "none" \/ req'[r].kind \in Duty[r])
<1>1. req \in [Reqs -> Request] /\ req[r] \in Request
  BY DEF Bounded, Inv, TypeOK
<1>2. CASE End(r)
  BY <1>1, <1>2 DEF End, NoRequest
<1>3. ASSUME NEW x, x.kind # "create", x.kind \in Duty[r], Begin(r, x)
      PROVE  /\ \A s \in Reqs : s # r => req'[s] = req[s]
             /\ req'[r].kind # "create" /\ req'[r].kind \in Duty[r]
  BY <1>1, <1>3 DEF Begin
<1>4. CASE CheckUpload(r) \/ CheckPatch(r) \/ DeleteObject(r) \/ BeginMint(r) \/ BeginServe(r)
  <2>1. PICK x : /\ Begin(r, x)
                 /\ \/ CheckUpload(r) /\ x.kind = "upload"
                    \/ CheckPatch(r) /\ x.kind = "patch"
                    \/ DeleteObject(r) /\ x.kind = "delete"
                    \/ BeginMint(r) /\ x.kind = "mint"
                    \/ BeginServe(r) /\ x.kind = "serve"
    <3>1. CASE CheckUpload(r)
      <4> PICK f \in Files, b \in Bytes, check \in BOOLEAN :
            Begin(r, [NoRequest EXCEPT !.kind = "upload", !.stage = "put", !.file = f,
                                     !.row = file[f], !.bytes = b, !.check = check])
        BY <3>1 DEF CheckUpload
      <4> DEFINE x == [NoRequest EXCEPT !.kind = "upload", !.stage = "put", !.file = f,
                                         !.row = file[f], !.bytes = b, !.check = check]
      <4>1. x.kind = "upload"
        BY DEF NoRequest
      <4>2. Begin(r, x)
        OBVIOUS
      <4> HIDE DEF x
      <4> QED
        BY <3>1, <4>1, <4>2
    <3>2. CASE CheckPatch(r)
      <4> PICK f \in Files, status \in {"draft", "published"} :
            Begin(r, [NoRequest EXCEPT !.kind = "patch", !.stage = "write", !.file = f,
                                     !.row = [file[f] EXCEPT !.status = status]])
        BY <3>2 DEF CheckPatch
      <4> DEFINE x == [NoRequest EXCEPT !.kind = "patch", !.stage = "write", !.file = f,
                                         !.row = [file[f] EXCEPT !.status = status]]
      <4>1. x.kind = "patch"
        BY DEF NoRequest
      <4>2. Begin(r, x)
        OBVIOUS
      <4> HIDE DEF x
      <4> QED
        BY <3>2, <4>1, <4>2
    <3>3. CASE DeleteObject(r)
      <4> PICK f \in Files :
            Begin(r, [NoRequest EXCEPT !.kind = "delete", !.stage = "row", !.file = f])
        BY <3>3 DEF DeleteObject
      <4> DEFINE x == [NoRequest EXCEPT !.kind = "delete", !.stage = "row", !.file = f]
      <4>1. x.kind = "delete"
        BY DEF NoRequest
      <4>2. Begin(r, x)
        OBVIOUS
      <4> HIDE DEF x
      <4> QED
        BY <3>3, <4>1, <4>2
    <3>4. CASE BeginMint(r)
      <4> PICK a \in Accounts \cup {None}, f \in Files :
            Begin(r, [NoRequest EXCEPT !.kind = "mint", !.stage = "file", !.product = product,
                                     !.account = a, !.file = f])
        BY <3>4 DEF BeginMint
      <4> DEFINE x == [NoRequest EXCEPT !.kind = "mint", !.stage = "file", !.product = product,
                                         !.account = a, !.file = f]
      <4>1. x.kind = "mint"
        BY DEF NoRequest
      <4>2. Begin(r, x)
        OBVIOUS
      <4> HIDE DEF x
      <4> QED
        BY <3>4, <4>1, <4>2
    <3>5. CASE BeginServe(r)
      <4> PICK t \in Tickets :
            Begin(r, [NoRequest EXCEPT !.kind = "serve", !.stage = "object", !.ticket = t,
                                     !.file = ticket[t].file, !.row = file[ticket[t].file]])
        BY <3>5 DEF BeginServe
      <4> DEFINE x == [NoRequest EXCEPT !.kind = "serve", !.stage = "object", !.ticket = t,
                                         !.file = ticket[t].file, !.row = file[ticket[t].file]]
      <4>1. x.kind = "serve"
        BY DEF NoRequest
      <4>2. Begin(r, x)
        OBVIOUS
      <4> HIDE DEF x
      <4> QED
        BY <3>5, <4>1, <4>2
    <3> QED
      BY <1>4, <3>1, <3>2, <3>3, <3>4, <3>5
  <2>2. x.kind # "create" /\ x.kind \in Duty[r]
    BY <2>1 DEF CheckUpload, CheckPatch, DeleteObject, BeginMint, BeginServe, Idle
  <2> QED
    BY <1>3, <2>1, <2>2
<1>5. CASE /\ req[r].kind \in {"upload", "mint"}
           /\ \A s \in Reqs : s # r => req'[s] = req[s]
           /\ req'[r].kind = req[r].kind
  BY <1>5 DEF Bounded, OnDuty
<1>6. CASE PutObject(r)
  BY <1>1, <1>2, <1>5, <1>6 DEF PutObject, At, Goto, Request
<1>7. CASE ReadFile(r) \/ ReadRelease(r)
  BY <1>1, <1>2, <1>5, <1>7 DEF ReadFile, ReadRelease, At, Begin, Request
<1>8. CASE RemoveObject(r) \/ RecordUpload(r) \/ PatchFile(r) \/ DeleteRow(r) \/ MintDownloadTicket(r) \/ Serve(r) \/ Fail(r)
  BY <1>2, <1>8 DEF RemoveObject, RecordUpload, PatchFile, DeleteRow, MintDownloadTicket, Serve, Fail
<1> QED
  BY <1>4, <1>6, <1>7, <1>8 DEF Download

\* No release gains a file by it.
LEMMA FilesKept ==
    ASSUME Bounded, NEW r \in Reqs, NEW l \in Releases,
           \/ CheckUpload(r) \/ PutObject(r) \/ RemoveObject(r) \/ RecordUpload(r) \/ CheckPatch(r) \/ PatchFile(r)
           \/ DeleteObject(r) \/ DeleteRow(r) \/ Download(r) \/ Fail(r)
    PROVE  FilesOf(l)' \subseteq FilesOf(l)
<1>1. file \in [Files -> FileRow]
  BY DEF Bounded, Inv, TypeOK
<1>2. CASE UNCHANGED file
  BY <1>2 DEF FilesOf, Exists
<1>3. CASE RecordUpload(r)
  <2>1. \A f \in Files : file'[f].status = file[f].status /\ file'[f].release = file[f].release
    BY <1>1, <1>3 DEF RecordUpload, FileRow
  <2> QED
    BY <2>1 DEF FilesOf, Exists
<1>4. CASE PatchFile(r)
  <2>1. \A f \in Files : file'[f].release = file[f].release /\ (Exists(f)' => Exists(f))
    BY <1>1, <1>4 DEF PatchFile, FileRow, Exists
  <2> QED
    BY <2>1 DEF FilesOf
<1>5. CASE DeleteRow(r)
  <2>1. \A f \in Files : file'[f] = file[f] \/ file'[f].status = "gone"
    BY <1>1, <1>5 DEF DeleteRow, NoFile
  <2> QED
    BY <2>1 DEF FilesOf, Exists
<1> QED
  BY <1>2, <1>3, <1>4, <1>5 DEF CheckUpload, PutObject, RemoveObject, CheckPatch, DeleteObject, Fail, Download, BeginMint,
     ReadFile, ReadRelease, MintDownloadTicket, BeginServe, Serve

LEMMA NextBounded ==
    ASSUME Bounded, [Next]_vars
    PROVE  Bounded'
<1>1. Inv'
  BY NextInv DEF Bounded
<1>2. ASSUME NEW r \in Reqs,
             \/ CheckUpload(r) \/ PutObject(r) \/ RemoveObject(r) \/ RecordUpload(r) \/ CheckPatch(r) \/ PatchFile(r)
             \/ DeleteObject(r) \/ DeleteRow(r) \/ Download(r) \/ Fail(r)
      PROVE  Bounded'
  BY <1>1, <1>2, KindsKept, FilesKept, NoGain
<1>3. ASSUME NEW r \in Reqs, CheckCreate(r) \/ CreateFile(r)
      PROVE  Bounded'
  BY <1>1, <1>3, CheckCreateBounded, CreateBounded
<1>4. CASE UNCHANGED <<file, req>>
  BY <1>1, <1>4 DEF Bounded, OnDuty, Room, Adding, FilesOf, Exists
<1> QED
  BY <1>2, <1>3, <1>4 DEF Next, vars, Edit, EditProduct, EditRelease, Entitle, TimePasses

\* A release carries MAX_FILES_PER_RELEASE files, and one more for each further registration that may
\* overlap, whatever else is uploaded, edited, deleted and cut short meanwhile: the files are counted a
\* statement before the insert (routes/admin/files.ts).
THEOREM FilesAreBounded == Spec => []ReleasesAreBounded
<1>1. Init => Bounded
  <2> SUFFICES ASSUME Init PROVE Bounded
    OBVIOUS
  <2>1. \A l : FilesOf(l) = {} /\ Adding(l) = {}
    BY DEF Init, FilesOf, Exists, NoFile, Adding, NoRequest
  <2>2. IsFiniteSet(Creators) /\ Cardinality(Creators) \in Nat
    BY DownloadsAssumption, FS_Subset, FS_CardinalityType DEF Creators
  <2>3. Cardinality({}) = 0 /\ MaxFiles \in Nat \ {0}
    BY FS_EmptySet, DownloadsAssumption
  <2>4. \A l : Cardinality(FilesOf(l)) + Cardinality(Adding(l)) = 0
    BY <2>1, <2>3
  <2>5. Room
    BY <2>2, <2>3, <2>4 DEF Room
  <2>6. OnDuty
    BY DEF Init, OnDuty, NoRequest
  <2> QED
    BY <2>5, <2>6, InitInv DEF Bounded
<1>2. Bounded /\ [Next]_vars => Bounded'
  BY NextBounded
<1>3. Bounded => ReleasesAreBounded
  <2> SUFFICES ASSUME Bounded, NEW l \in Releases
               PROVE  Cardinality(FilesOf(l)) < MaxFiles + Cardinality(Creators)
    BY DEF ReleasesAreBounded
  <2>1. FilesOf(l) \subseteq Files /\ Adding(l) \subseteq Reqs /\ Creators \subseteq Reqs
    BY DEF FilesOf, Adding, Creators
  <2>2. Cardinality(FilesOf(l)) \in Nat /\ Cardinality(Adding(l)) \in Nat /\ Cardinality(Creators) \in Nat
    BY <2>1, DownloadsAssumption, FS_Subset, FS_CardinalityType
  <2> QED
    BY <2>2, DownloadsAssumption DEF Bounded, Room
<1> QED
  BY <1>1, <1>2, <1>3, PTL DEF Spec

-----------------------------------------------------------------------------
(* The requirements of a release *)

EntryFields == {"status", "release", "name", "position"}
ListFields == {"kind", "release", "entry", "name", "todo", "order"}

\* The rows and the requests, and what the unique index keeps.
ListInv ==
    /\ entry = [e \in Entries |-> entry[e]] /\ \A e \in Entries : entry[e] = [f \in EntryFields |-> entry[e][f]]
    /\ job = [r \in Reqs |-> job[r]] /\ \A r \in Reqs : job[r] = [f \in ListFields |-> job[r][f]]
    /\ L!NamesAreUnique

LEMMA NoListRequest == L!NoRequest = [f \in ListFields |-> L!NoRequest[f]] /\ L!NoRequest.kind = "none"
BY DEF L!NoRequest, ListFields

LEMMA BeginList ==
    ASSUME ListInv, NEW r \in Reqs, NEW q, L!Begin(r, q), q = [f \in ListFields |-> q[f]]
    PROVE  /\ job' = [s \in Reqs |-> job'[s]] /\ \A s \in Reqs : job'[s] = [f \in ListFields |-> job'[s][f]]
           /\ job'[r] = q /\ \A s \in Reqs : s # r => job'[s] = job[s]
<1>1. job = [s \in Reqs |-> job[s]] /\ \A s \in Reqs : job[s] = [f \in ListFields |-> job[s][f]]
  BY DEF ListInv
<1>2. job' = [job EXCEPT ![r] = q]
  BY DEF L!Begin
<1>3. \A s \in Reqs : job'[s] = IF s = r THEN q ELSE job[s]
  BY <1>1, <1>2
<1>4. job' = [s \in Reqs |-> job'[s]]
  BY <1>1, <1>2
<1> QED
  BY <1>1, <1>3, <1>4

LEMMA EndList ==
    ASSUME ListInv, NEW r \in Reqs, L!End(r)
    PROVE  /\ job' = [s \in Reqs |-> job'[s]] /\ \A s \in Reqs : job'[s] = [f \in ListFields |-> job'[s][f]]
           /\ job'[r] = L!NoRequest /\ \A s \in Reqs : s # r => job'[s] = job[s]
BY NoListRequest, BeginList DEF L!End, L!Begin

\* What a step does to the list: one row is written, or none.
EntryStep(e, x) == entry' = [entry EXCEPT ![e] = x] /\ x = [f \in EntryFields |-> x[f]]

\* What a row becomes in a step of a request.
Outcome(r, e, x) == LET o == entry[e] IN
    \/ /\ job[r].kind = "create" /\ o.status = "none" /\ x.status = "listed"
       /\ x.release = job[r].release /\ x.name = job[r].name /\ L!NameIsFree(job[r].release, job[r].name, {})
       /\ job'[r].kind # "create"
    \/ /\ x.status = o.status /\ x.release = o.release /\ x.position = o.position
       /\ x.name = o.name \/ (L!Listed(e) /\ L!NameIsFree(o.release, x.name, {e}))
    \/ o.status = "listed" /\ x.status = "gone"
    \/ /\ x.status = o.status /\ x.release = o.release /\ x.name = o.name
       /\ x.position # o.position => job[r].kind = "reorder" /\ L!Reaches(job[r].release, e)

\* How a request goes on.
Onward(r) ==
    /\ job' = [s \in Reqs |-> job'[s]] /\ \A s \in Reqs : job'[s] = [f \in ListFields |-> job'[s][f]]
    /\ \A s \in Reqs : s # r => job'[s] = job[s]
    /\ job'[r].kind = "create" =>
         \/ job'[r] = job[r]
         \/ job[r].kind = "none" /\ "create" \in ListDuty[r] /\ L!Fits(job'[r].release) /\ UNCHANGED entry

LEMMA ListActs ==
    ASSUME ListInv, NEW r \in Reqs,
           \/ L!CheckCreate(r) \/ L!Create(r) \/ L!CheckPatch(r) \/ L!Patch(r) \/ L!Delete(r)
           \/ L!BeginReorder(r) \/ L!Reorder(r)
    PROVE  /\ Onward(r)
           /\ UNCHANGED entry \/ \E e \in Entries : \E x : EntryStep(e, x) /\ Outcome(r, e, x)
<1>0. PICK z : z = L!NoRequest /\ z = [f \in ListFields |-> z[f]] /\ z.kind = "none"
  BY NoListRequest
<1>1. CASE L!CheckCreate(r)
  <2>1. PICK l \in Releases, n \in Names : L!Fits(l) /\ L!Begin(r, [z EXCEPT !.kind = "create", !.release = l, !.name = n])
    BY <1>0, <1>1 DEF L!CheckCreate
  <2>2. PICK q : q = [z EXCEPT !.kind = "create", !.release = l, !.name = n]
    OBVIOUS
  <2>3. q = [f \in ListFields |-> q[f]] /\ q.kind = "create" /\ q.release = l
    BY <1>0, <2>2 DEF ListFields
  <2>4. job[r].kind = "none" /\ "create" \in ListDuty[r] /\ UNCHANGED entry
    BY <1>1 DEF L!CheckCreate, L!Idle
  <2>5. /\ job' = [s \in Reqs |-> job'[s]] /\ \A s \in Reqs : job'[s] = [f \in ListFields |-> job'[s][f]]
        /\ job'[r] = q /\ \A s \in Reqs : s # r => job'[s] = job[s]
    BY <2>1, <2>2, <2>3, BeginList
  <2>6. L!Fits(job'[r].release)
    <3>1. job'[r].release = l
      BY <2>3, <2>5
    <3> QED
      BY <2>1, <3>1
  <2> QED
    BY <2>3, <2>4, <2>5, <2>6 DEF Onward
<1>2. CASE L!Create(r)
  <2>1. Onward(r)
    <3>1. L!End(r)
      BY <1>2 DEF L!Create
    <3>2. job'[r] = z
      BY <1>0, <3>1, EndList
    <3> QED
      BY <1>0, <3>1, <3>2, EndList DEF Onward
  <2>2. CASE UNCHANGED entry
    BY <2>1, <2>2
  <2>3. ASSUME NEW e \in Entries, NEW p \in Positions, entry[e].status = "none", L!NameIsFree(job[r].release, job[r].name, {}),
               entry' = [entry EXCEPT ![e] = [status |-> "listed", release |-> job[r].release, name |-> job[r].name, position |-> p]]
        PROVE  \E d \in Entries : \E x : EntryStep(d, x) /\ Outcome(r, d, x)
    <3>1. PICK x : x = [status |-> "listed", release |-> job[r].release, name |-> job[r].name, position |-> p]
      OBVIOUS
    <3>2. EntryStep(e, x)
      BY <2>3, <3>1 DEF EntryStep, EntryFields
    <3>3. job'[r].kind # "create"
      BY <1>0, <1>2, EndList DEF L!Create
    <3>4. Outcome(r, e, x)
      BY <1>2, <2>3, <3>1, <3>3 DEF Outcome, L!Create
    <3> QED
      BY <3>2, <3>4
  <2> QED
    BY <1>2, <2>1, <2>2, <2>3 DEF L!Create
<1>3. CASE L!CheckPatch(r)
  <2>1. PICK e \in Entries, n \in Names : L!Begin(r, [z EXCEPT !.kind = "patch", !.entry = e, !.name = n])
    BY <1>0, <1>3 DEF L!CheckPatch
  <2>2. PICK q : q = [z EXCEPT !.kind = "patch", !.entry = e, !.name = n]
    OBVIOUS
  <2>3. q = [f \in ListFields |-> q[f]] /\ q.kind = "patch" /\ UNCHANGED entry
    BY <1>0, <1>3, <2>2 DEF ListFields, L!CheckPatch
  <2> QED
    BY <2>1, <2>2, <2>3, BeginList DEF Onward
<1>4. CASE L!Patch(r)
  <2>1. Onward(r)
    <3>1. L!End(r)
      BY <1>4 DEF L!Patch
    <3>2. job'[r] = z
      BY <1>0, <3>1, EndList
    <3> QED
      BY <1>0, <3>1, <3>2, EndList DEF Onward
  <2>2. PICK e : e = job[r].entry
    OBVIOUS
  <2>3. PICK n : n = IF L!Listed(e) /\ L!NameIsFree(entry[e].release, job[r].name, {e}) THEN job[r].name ELSE entry[e].name
    OBVIOUS
  <2>4. entry' = [entry EXCEPT ![e].name = n]
    BY <1>4, <2>2, <2>3 DEF L!Patch
  <2>5. CASE e \in Entries
    <3>1. PICK o : o = entry[e] /\ o = [f \in EntryFields |-> o[f]]
      BY <2>5 DEF ListInv
    <3>2. PICK x : x = [o EXCEPT !.name = n]
      OBVIOUS
    <3>3. /\ x = [f \in EntryFields |-> x[f]] /\ x.name = n /\ x.status = o.status
          /\ x.release = o.release /\ x.position = o.position
      BY <3>1, <3>2 DEF EntryFields
    <3>4. EntryStep(e, x)
      BY <2>4, <3>1, <3>2, <3>3 DEF EntryStep
    <3>5. n = o.name \/ (L!Listed(e) /\ L!NameIsFree(o.release, n, {e}))
      BY <2>3, <3>1
    <3>6. Outcome(r, e, x)
      BY <3>1, <3>3, <3>5 DEF Outcome
    <3> QED
      BY <2>1, <2>5, <3>4, <3>6
  <2>6. CASE e \notin Entries
    <3>1. entry = [d \in Entries |-> entry[d]]
      BY DEF ListInv
    <3>2. UNCHANGED entry
      BY <2>4, <2>6, <3>1
    <3> QED
      BY <2>1, <3>2
  <2> QED
    BY <2>5, <2>6
<1>5. CASE L!Delete(r)
  <2>1. PICK e \in Entries : L!Listed(e) /\ entry' = [entry EXCEPT ![e] = [L!NoEntry EXCEPT !.status = "gone"]]
    BY <1>5 DEF L!Delete
  <2>2. PICK x : x = [L!NoEntry EXCEPT !.status = "gone"]
    OBVIOUS
  <2>3. x = [f \in EntryFields |-> x[f]] /\ x.status = "gone"
    BY <2>2 DEF L!NoEntry, EntryFields
  <2>4. EntryStep(e, x) /\ Outcome(r, e, x)
    BY <2>1, <2>2, <2>3 DEF EntryStep, Outcome, L!Listed
  <2>5. UNCHANGED job
    BY <1>5 DEF L!Delete
  <2>6. Onward(r)
    BY <2>5 DEF Onward, ListInv
  <2> QED
    BY <2>4, <2>6
<1>6. CASE L!BeginReorder(r)
  <2>1. PICK l, t, o : L!Begin(r, [z EXCEPT !.kind = "reorder", !.release = l, !.todo = t, !.order = o])
    BY <1>0, <1>6 DEF L!BeginReorder
  <2>2. PICK q : q = [z EXCEPT !.kind = "reorder", !.release = l, !.todo = t, !.order = o]
    OBVIOUS
  <2>3. q = [f \in ListFields |-> q[f]] /\ q.kind = "reorder" /\ UNCHANGED entry
    BY <1>0, <1>6, <2>2 DEF ListFields, L!BeginReorder
  <2> QED
    BY <2>1, <2>2, <2>3, BeginList DEF Onward
<1>7. CASE L!Reorder(r)
  <2>1. PICK q : q = job[r] /\ q = [f \in ListFields |-> q[f]] /\ q.kind = "reorder"
    BY <1>7 DEF ListInv, L!Reorder
  <2>2. PICK e \in q.todo :
           /\ entry' = [entry EXCEPT ![e] = IF L!Reaches(q.release, e) THEN L!Placed(@, q.order[e]) ELSE @]
           /\ L!End(r) \/ L!Begin(r, [q EXCEPT !.todo = @ \ {e}])
    BY <1>7, <2>1 DEF L!Reorder
  <2>3. Onward(r)
    <3>1. CASE L!End(r)
      <4>1. job'[r] = z
        BY <1>0, <3>1, EndList
      <4> QED
        BY <1>0, <3>1, <4>1, EndList DEF Onward
    <3>2. CASE L!Begin(r, [q EXCEPT !.todo = @ \ {e}])
      <4>1. PICK y : y = [q EXCEPT !.todo = @ \ {e}]
        OBVIOUS
      <4>2. y = [f \in ListFields |-> y[f]] /\ y.kind = "reorder"
        BY <2>1, <4>1 DEF ListFields
      <4> QED
        BY <3>2, <4>1, <4>2, BeginList DEF Onward
    <3> QED
      BY <2>2, <3>1, <3>2
  <2>4. CASE e \in Entries
    <3>1. PICK o : o = entry[e] /\ o = [f \in EntryFields |-> o[f]]
      BY <2>4 DEF ListInv
    <3>2. PICK x : x = IF L!Reaches(q.release, e) THEN [o EXCEPT !.position = q.order[e]] ELSE o
      OBVIOUS
    <3>3. /\ x = [f \in EntryFields |-> x[f]] /\ x.name = o.name /\ x.status = o.status /\ x.release = o.release
          /\ x.position # o.position => L!Reaches(q.release, e)
      BY <3>1, <3>2 DEF EntryFields
    <3>4. EntryStep(e, x)
      BY <2>2, <3>1, <3>2, <3>3 DEF EntryStep, L!Placed
    <3>5. Outcome(r, e, x)
      BY <2>1, <3>1, <3>3 DEF Outcome
    <3> QED
      BY <2>3, <2>4, <3>4, <3>5
  <2>5. CASE e \notin Entries
    <3>1. entry = [d \in Entries |-> entry[d]]
      BY DEF ListInv
    <3>2. UNCHANGED entry
      BY <2>2, <2>5, <3>1
    <3> QED
      BY <2>3, <3>2
  <2> QED
    BY <2>4, <2>5
<1> QED
  BY <1>1, <1>2, <1>3, <1>4, <1>5, <1>6, <1>7

LEMMA ListSame ==
    ASSUME ListInv, UNCHANGED L!vars PROVE ListInv'
<1>1. UNCHANGED <<entry, job>>
  BY DEF L!vars
<1> QED
  BY <1>1 DEF ListInv, L!NamesAreUnique, L!Of, L!Listed

\* A row that is written, and the others.
LEMMA Written ==
    ASSUME ListInv, NEW e \in Entries, NEW x, EntryStep(e, x)
    PROVE  /\ entry' = [d \in Entries |-> entry'[d]] /\ \A d \in Entries : entry'[d] = [f \in EntryFields |-> entry'[d][f]]
           /\ entry'[e] = x /\ \A d \in Entries : d # e => entry'[d] = entry[d]
<1>1. entry = [d \in Entries |-> entry[d]] /\ \A d \in Entries : entry[d] = [f \in EntryFields |-> entry[d][f]]
  BY DEF ListInv
<1>2. entry' = [entry EXCEPT ![e] = x] /\ x = [f \in EntryFields |-> x[f]]
  BY DEF EntryStep
<1>3. \A d \in Entries : entry'[d] = IF d = e THEN x ELSE entry[d]
  BY <1>1, <1>2
<1>4. entry' = [d \in Entries |-> entry'[d]]
  BY <1>1, <1>2
<1> QED
  BY <1>1, <1>2, <1>3, <1>4

LEMMA ListStep ==
    ASSUME ListInv, [L!Next]_L!vars PROVE ListInv'
<1>1. CASE L!List \/ UNCHANGED L!vars
  BY <1>1, ListSame DEF L!List
<1>2. ASSUME NEW r \in Reqs, Onward(r), UNCHANGED entry PROVE ListInv'
  BY <1>2 DEF ListInv, Onward, L!NamesAreUnique, L!Of, L!Listed
<1>3. ASSUME NEW r \in Reqs, Onward(r), NEW e \in Entries, NEW x, EntryStep(e, x), Outcome(r, e, x) PROVE ListInv'
  <2>1. /\ entry' = [d \in Entries |-> entry'[d]] /\ \A d \in Entries : entry'[d] = [f \in EntryFields |-> entry'[d][f]]
        /\ entry'[e] = x /\ \A d \in Entries : d # e => entry'[d] = entry[d]
    BY <1>3, Written
  <2>2. ASSUME NEW l \in Releases, NEW d \in Entries, d # e, d \in L!Of(l)', e \in L!Of(l)' PROVE entry'[d].name # x.name
    <3>1. x.status = "listed" /\ x.release = l /\ d \in L!Of(l)
      BY <2>1, <2>2 DEF L!Of, L!Listed
    <3>2. CASE L!NameIsFree(l, x.name, {}) \/ L!NameIsFree(l, x.name, {e})
      BY <2>1, <2>2, <3>1, <3>2 DEF L!NameIsFree
    <3>3. CASE e \in L!Of(l) /\ x.name = entry[e].name
      <4>1. entry[d].name # entry[e].name
        BY <2>2, <3>1, <3>3 DEF ListInv, L!NamesAreUnique
      <4>2. entry'[d] = entry[d]
        BY <2>1, <2>2
      <4> QED
        BY <3>3, <4>1, <4>2
    <3> QED
      BY <1>3, <3>1, <3>2, <3>3 DEF Outcome, L!Of, L!Listed
  <2>3. L!NamesAreUnique'
    <3> SUFFICES ASSUME NEW l \in Releases, NEW d \in L!Of(l)', NEW f \in L!Of(l)', entry'[d].name = entry'[f].name PROVE d = f
      BY DEF L!NamesAreUnique
    <3>1. d \in Entries /\ f \in Entries
      BY DEF L!Of
    <3>2. CASE d # e /\ f # e
      <4>1. d \in L!Of(l) /\ f \in L!Of(l) /\ entry'[d] = entry[d] /\ entry'[f] = entry[f]
        BY <2>1, <3>1, <3>2 DEF L!Of, L!Listed
      <4> QED
        BY <4>1 DEF ListInv, L!NamesAreUnique
    <3> QED
      BY <2>1, <2>2, <3>1, <3>2
  <2> QED
    BY <1>3, <2>1, <2>3 DEF ListInv, Onward
<1> QED
  BY <1>1, <1>2, <1>3, ListActs DEF L!Next

LEMMA ListInit == L!Init => ListInv
<1> SUFFICES ASSUME L!Init PROVE ListInv
  OBVIOUS
<1>1. entry = [e \in Entries |-> entry[e]] /\ \A e \in Entries : entry[e] = [f \in EntryFields |-> entry[e][f]]
  BY DEF L!Init, L!NoEntry, EntryFields
<1>2. job = [r \in Reqs |-> job[r]] /\ \A r \in Reqs : job[r] = [f \in ListFields |-> job[r][f]]
  BY NoListRequest DEF L!Init
<1>3. \A e \in Entries : ~L!Listed(e)
  BY DEF L!Init, L!NoEntry, L!Listed
<1> QED
  BY <1>1, <1>2, <1>3 DEF ListInv, L!NamesAreUnique, L!Of

\* No kind and name appears twice among the requirements of a release, whatever additions, renames and
\* reorders overlap (NamesAreUnique), and no reorder of one release moves an entry of another
\* (NoForeignMoves): its updates are keyed on the release as well (routes/admin/compatibility.ts).
THEOREM ListsAreInOrder == L!Spec => []L!NamesAreUnique /\ [][L!NoForeignMoves]_L!vars
<1>1. ASSUME ListInv, [L!Next]_L!vars PROVE [L!NoForeignMoves]_L!vars
  <2>1. CASE UNCHANGED L!vars
    BY <2>1
  <2>2. CASE UNCHANGED entry
    BY <2>2 DEF L!NoForeignMoves
  <2>3. ASSUME NEW r \in Reqs, NEW e \in Entries, NEW x, EntryStep(e, x), Outcome(r, e, x) PROVE L!NoForeignMoves
    <3>1. entry'[e] = x /\ \A d \in Entries : d # e => entry'[d] = entry[d]
      BY <1>1, <2>3, Written
    <3>2. ASSUME L!Listed(e), x.position # entry[e].position, x.status = "listed"
          PROVE  job[r].kind = "reorder" /\ job[r].release = entry[e].release
      BY <2>3, <3>2 DEF Outcome, L!Listed, L!Reaches, L!Of
    <3> QED
      BY <3>1, <3>2 DEF L!NoForeignMoves
  <2> QED
    BY <1>1, <2>1, <2>2, <2>3, ListActs DEF L!Next, L!List, L!vars
<1>2. L!Init => ListInv
  BY ListInit
<1>3. ListInv /\ [L!Next]_L!vars => ListInv'
  BY ListStep
<1>4. ListInv => L!NamesAreUnique
  BY DEF ListInv
<1> QED
  BY <1>1, <1>2, <1>3, <1>4, PTL DEF L!Spec

-----------------------------------------------------------------------------
\* The requests that counted the requirements of a release and have not inserted yet.
Asking(l) == {r \in Reqs : job[r].kind = "create" /\ job[r].release = l}

\* With the requirements there are, they keep to the bound.
Roomy ==
    /\ \A r \in Reqs : job[r].kind = "create" => "create" \in ListDuty[r]
    /\ \A l \in Releases : Cardinality(L!Of(l)) + Cardinality(Asking(l)) < MaxEntries + Cardinality(L!Creators)

\* What may happen to the requirements of a release and to those that add to them.
Turn(l) ==
    \/ L!Of(l)' \subseteq L!Of(l) /\ Asking(l)' \subseteq Asking(l)
    \/ L!Of(l)' = L!Of(l) /\ L!Fits(l)
    \/ \E e, r : L!Of(l)' \subseteq L!Of(l) \cup {e} /\ r \in Asking(l) /\ Asking(l)' \subseteq Asking(l) \ {r}

LEMMA ListFinite ==
    ASSUME L!RequirementsAssumption
    PROVE  /\ IsFiniteSet(Entries) /\ IsFiniteSet(Reqs) /\ MaxEntries \in Nat /\ MaxEntries > 0
           /\ \A T : L!Cardinality(T) = Cardinality(T)
           /\ IsFiniteSet(L!Creators) /\ \A l : IsFiniteSet(L!Of(l))
<1>1. IsFiniteSet(Entries) /\ IsFiniteSet(Reqs)
  BY DEF L!RequirementsAssumption, L!IsFiniteSet, IsFiniteSet
<1>2. \A T : L!Cardinality(T) = Cardinality(T)
  BY DEF L!Cardinality, Cardinality, L!IsFiniteSet, IsFiniteSet
<1>3. L!Creators \subseteq Reqs /\ \A l : L!Of(l) \subseteq Entries
  BY DEF L!Creators, L!Of
<1> QED
  BY <1>1, <1>2, <1>3, FS_Subset DEF L!RequirementsAssumption

LEMMA TurnStep ==
    ASSUME L!RequirementsAssumption, Roomy, \A r \in Reqs : job'[r].kind = "create" => "create" \in ListDuty[r],
           \A l \in Releases : Turn(l)
    PROVE  Roomy'
<1> SUFFICES ASSUME NEW l \in Releases
             PROVE  Cardinality(L!Of(l)') + Cardinality(Asking(l)') < MaxEntries + Cardinality(L!Creators)
  BY DEF Roomy, L!Creators
<1> DEFINE S == L!Of(l)  P == Asking(l)  S1 == L!Of(l)'  P1 == Asking(l)'  D == L!Creators
<1>1. IsFiniteSet(D) /\ IsFiniteSet(S) /\ MaxEntries \in Nat
  BY ListFinite
<1>2. P \in SUBSET D /\ P1 \in SUBSET D
  BY DEF Roomy, Asking, L!Creators
<1>3. Cardinality(S) + Cardinality(P) < MaxEntries + Cardinality(D)
  BY DEF Roomy
<1>4. \/ S1 \subseteq S /\ P1 \subseteq P
      \/ S1 = S /\ Cardinality(S) < MaxEntries
      \/ \E f, r : S1 \subseteq S \cup {f} /\ r \in P /\ P1 \subseteq P \ {r}
  BY ListFinite DEF Turn, L!Fits
<1> HIDE DEF S, P, S1, P1, D
<1>5. Cardinality(S1) + Cardinality(P1) < MaxEntries + Cardinality(D)
  BY <1>1, <1>2, <1>3, <1>4, RoomLeft
<1> QED
  BY <1>5 DEF S1, P1, D

LEMMA RoomStep ==
    ASSUME L!RequirementsAssumption, ListInv, Roomy, [L!Next]_L!vars
    PROVE  Roomy'
<1>1. CASE L!List \/ UNCHANGED L!vars
  <2>1. UNCHANGED <<entry, job>>
    BY <1>1 DEF L!List, L!vars
  <2>2. \A l : L!Of(l)' = L!Of(l) /\ Asking(l)' = Asking(l)
    BY <2>1 DEF L!Of, L!Listed, Asking
  <2> QED
    BY <2>1, <2>2 DEF Roomy
<1>2. ASSUME NEW r \in Reqs, Onward(r), \A l \in Releases : L!Of(l)' \subseteq L!Of(l),
             job'[r].kind = "create" => job'[r] = job[r] \/ UNCHANGED entry
      PROVE  Roomy'
  <2>1. \A s \in Reqs : job'[s].kind = "create" => "create" \in ListDuty[s]
    BY <1>2 DEF Onward, Roomy
  <2>2. ASSUME NEW l \in Releases PROVE Turn(l)
    <3>1. CASE job'[r].kind = "create" /\ job'[r] # job[r] /\ job'[r].release = l
      <4>1. L!Fits(l) /\ UNCHANGED entry
        BY <1>2, <3>1 DEF Onward
      <4> QED
        BY <4>1 DEF Turn, L!Of, L!Listed
    <3>2. CASE ~(job'[r].kind = "create" /\ job'[r] # job[r] /\ job'[r].release = l)
      <4>1. Asking(l)' \subseteq Asking(l)
        BY <1>2, <3>2 DEF Onward, Asking
      <4> QED
        BY <1>2, <4>1 DEF Turn
    <3> QED
      BY <3>1, <3>2
  <2> QED
    BY <2>1, <2>2, TurnStep
<1>3. ASSUME NEW r \in Reqs, Onward(r), UNCHANGED entry PROVE Roomy'
  <2>1. \A l \in Releases : L!Of(l)' \subseteq L!Of(l)
    BY <1>3 DEF L!Of, L!Listed
  <2> QED
    BY <1>2, <1>3, <2>1
<1>4. ASSUME NEW r \in Reqs, Onward(r), NEW e \in Entries, NEW x, EntryStep(e, x), Outcome(r, e, x) PROVE Roomy'
  <2>1. entry'[e] = x /\ \A d \in Entries : d # e => entry'[d] = entry[d]
    BY <1>4, Written
  <2>2. CASE \A l \in Releases : L!Of(l)' \subseteq L!Of(l)
    <3>1. job'[r].kind = "create" => job'[r] = job[r] \/ UNCHANGED entry
      BY <1>4 DEF Onward
    <3> QED
      BY <1>2, <1>4, <2>2, <3>1
  <2>3. CASE job[r].kind = "create" /\ x.release = job[r].release /\ job'[r].kind # "create"
    <3>1. \A s \in Reqs : job'[s].kind = "create" => s # r /\ job'[s] = job[s]
      BY <1>4, <2>3 DEF Onward
    <3>2. \A s \in Reqs : job'[s].kind = "create" => "create" \in ListDuty[s]
      BY <3>1 DEF Roomy
    <3>3. ASSUME NEW l \in Releases PROVE Turn(l)
      <4>1. Asking(l)' \subseteq Asking(l) \ {r} /\ L!Of(l)' \subseteq L!Of(l) \cup {e}
        BY <2>1, <3>1 DEF Asking, L!Of, L!Listed
      <4>2. CASE l = job[r].release
        <5>1. r \in Asking(l)
          BY <2>3, <4>2 DEF Asking
        <5> QED
          BY <4>1, <5>1 DEF Turn
      <4>3. CASE l # job[r].release
        <5>1. L!Of(l)' \subseteq L!Of(l)
          BY <2>1, <2>3, <4>3 DEF L!Of, L!Listed
        <5> QED
          BY <4>1, <5>1 DEF Turn
      <4> QED
        BY <4>2, <4>3
    <3> QED
      BY <3>2, <3>3, TurnStep
  <2> QED
    BY <1>4, <2>1, <2>2, <2>3 DEF Outcome, L!Of, L!Listed
<1> QED
  BY <1>1, <1>3, <1>4, ListActs DEF L!Next

\* A release carries MAX_COMPATIBILITY_ENTRIES requirements, and one more for each further addition that may
\* overlap, however they are renamed, deleted and reordered meanwhile: they are counted a statement before
\* the insert (routes/admin/compatibility.ts).
THEOREM ListsStayBounded ==
    ASSUME L!RequirementsAssumption PROVE L!Spec => []L!ListsAreBounded
<1>1. L!Init => ListInv /\ Roomy
  <2> SUFFICES ASSUME L!Init PROVE Roomy
    BY ListInit
  <2>1. \A r \in Reqs : job[r].kind = "none"
    BY NoListRequest DEF L!Init
  <2>2. \A l : L!Of(l) = {} /\ Asking(l) = {}
    BY <2>1 DEF L!Init, L!NoEntry, L!Listed, L!Of, Asking
  <2>3. Cardinality(L!Creators) \in Nat
    BY ListFinite, FS_CardinalityType
  <2> QED
    BY <2>1, <2>2, <2>3, ListFinite, FS_EmptySet DEF Roomy
<1>2. ListInv /\ Roomy /\ [L!Next]_L!vars => ListInv' /\ Roomy'
  BY ListStep, RoomStep
<1>3. Roomy => L!ListsAreBounded
  <2> SUFFICES ASSUME Roomy, NEW l \in Releases
               PROVE  Cardinality(L!Of(l)) < MaxEntries + Cardinality(L!Creators)
    BY ListFinite DEF L!ListsAreBounded
  <2>1. IsFiniteSet(Asking(l))
    BY ListFinite, FS_Subset DEF Asking
  <2>2. Cardinality(L!Of(l)) \in Nat /\ Cardinality(Asking(l)) \in Nat /\ Cardinality(L!Creators) \in Nat
    BY <2>1, ListFinite, FS_CardinalityType
  <2> QED
    BY <2>2, ListFinite DEF Roomy
<1> QED
  BY <1>1, <1>2, <1>3, PTL DEF L!Spec

-----------------------------------------------------------------------------
(* The reviews of a product *)

ReviewFields == {"status", "user", "release", "anchoredAt", "reportCount", "replied"}
VisitFields == {"kind", "stage", "account", "anchor", "stamp", "review", "seen", "total"}
Counting == {"report", "resolve"}
Answering == {"reply", "unreply"}

\* The rows and the requests, and what the unique index keeps.
ReviewInv ==
    /\ review = [i \in Reviews |-> review[i]] /\ \A i \in Reviews : review[i] = [f \in ReviewFields |-> review[i][f]]
    /\ job = [r \in Reqs |-> job[r]] /\ \A r \in Reqs : job[r] = [f \in VisitFields |-> job[r][f]]
    /\ \A i, j \in Reviews : V!Exists(i) /\ V!Exists(j) /\ review[i].user = review[j].user => i = j

LEMMA NoVisit ==
    /\ V!NoRequest = [f \in VisitFields |-> V!NoRequest[f]]
    /\ V!NoRequest.kind = "none" /\ V!NoRequest.stage = "idle" /\ V!NoRequest.review = None
BY DEF V!NoRequest, VisitFields

LEMMA NoReviewRow ==
    /\ V!NoReview = [f \in ReviewFields |-> V!NoReview[f]]
    /\ V!NoReview.status = "none" /\ V!NoReview.reportCount = 0 /\ V!NoReview.replied = FALSE
BY DEF V!NoReview, ReviewFields

LEMMA BeginVisit ==
    ASSUME ReviewInv, NEW r \in Reqs, NEW q, V!Begin(r, q), q = [f \in VisitFields |-> q[f]]
    PROVE  /\ job' = [s \in Reqs |-> job'[s]] /\ \A s \in Reqs : job'[s] = [f \in VisitFields |-> job'[s][f]]
           /\ job'[r] = q /\ \A s \in Reqs : s # r => job'[s] = job[s]
<1>1. job = [s \in Reqs |-> job[s]] /\ \A s \in Reqs : job[s] = [f \in VisitFields |-> job[s][f]]
  BY DEF ReviewInv
<1>2. job' = [job EXCEPT ![r] = q]
  BY DEF V!Begin
<1>3. \A s \in Reqs : job'[s] = IF s = r THEN q ELSE job[s]
  BY <1>1, <1>2
<1>4. job' = [s \in Reqs |-> job'[s]]
  BY <1>1, <1>2
<1> QED
  BY <1>1, <1>3, <1>4

LEMMA EndVisit ==
    ASSUME ReviewInv, NEW r \in Reqs, V!End(r)
    PROVE  /\ job' = [s \in Reqs |-> job'[s]] /\ \A s \in Reqs : job'[s] = [f \in VisitFields |-> job'[s][f]]
           /\ job'[r] = V!NoRequest /\ \A s \in Reqs : s # r => job'[s] = job[s]
BY NoVisit, BeginVisit DEF V!End, V!Begin

\* How a request goes on.
VisitGoes(r) ==
    /\ job' = [s \in Reqs |-> job'[s]] /\ \A s \in Reqs : job'[s] = [f \in VisitFields |-> job'[s][f]]
    /\ \A s \in Reqs : s # r => job'[s] = job[s]

\* One row is written.
ReviewStep(k, x) == review' = [review EXCEPT ![k] = x] /\ x = [f \in ReviewFields |-> x[f]]

\* What a row becomes in a step of a request.
ReviewOutcome(r, k, x) == LET o == review[k] IN
    \/ /\ V!At(r, "put", "write") /\ o.status = "none" /\ x.status = "visible" /\ V!MayInsert(x.user)
       /\ x.reportCount = 0
    \/ x.status = "gone" /\ V!Exists(k) /\ UNCHANGED job
    \/ /\ x.status \in {"visible", "hidden"} /\ V!Exists(k) /\ UNCHANGED job
       /\ x.user = o.user /\ x.reportCount = o.reportCount /\ x.replied = o.replied
    \/ /\ x.status = o.status /\ x.user = o.user
       /\ x.replied # o.replied => job[r].kind \in Answering /\ job[r].stage = "write" /\ k = job[r].review
       /\ x.reportCount # o.reportCount =>
            job[r].kind \in Counting /\ job[r].stage = "total" /\ k = job[r].review /\ x.reportCount = job[r].total

RowsStand(r) == UNCHANGED review \/ \E k \in Reviews : \E x : ReviewStep(k, x) /\ ReviewOutcome(r, k, x)

\* A write of the columns of a row that is there, or of none.
LEMMA ColumnsWritten ==
    ASSUME ReviewInv, NEW r \in Reqs, NEW k, NEW y, review' = [review EXCEPT ![k] = y],
           k \in Reviews => y = [f \in ReviewFields |-> y[f]] /\ ReviewOutcome(r, k, y)
    PROVE  RowsStand(r)
<1>1. review = [i \in Reviews |-> review[i]]
  BY DEF ReviewInv
<1>2. CASE k \notin Reviews
  BY <1>1, <1>2 DEF RowsStand
<1> QED
  BY <1>2 DEF RowsStand, ReviewStep

\* Requests that only read the reviews.
LEMMA VisitReads ==
    ASSUME ReviewInv, NEW r \in Reqs,
           \/ V!ReadAnchor(r) \/ V!ReadOwn(r) \/ V!Report(r) \/ V!Resolve(r) \/ V!Recount(r)
           \/ V!ReadForReply(r, "reply") \/ V!ReadForReply(r, "unreply") \/ V!TellReviewer(r)
    PROVE  VisitGoes(r) /\ UNCHANGED review
<1>0. PICK z : z = V!NoRequest /\ z = [f \in VisitFields |-> z[f]]
  BY NoVisit
<1>1. PICK j : j = job[r] /\ j = [f \in VisitFields |-> j[f]]
  BY DEF ReviewInv
<1>2. UNCHANGED review
  BY DEF V!ReadAnchor, V!ReadOwn, V!Report, V!Resolve, V!Recount, V!ReadForReply, V!TellReviewer
<1>3. \E q : V!Begin(r, q) /\ q = [f \in VisitFields |-> q[f]]
  <2>1. CASE V!ReadAnchor(r)
    <3>1. PICK a, l, t : V!Begin(r, [z EXCEPT !.kind = "put", !.stage = "anchor", !.account = a, !.anchor = l, !.stamp = t])
      BY <1>0, <2>1 DEF V!ReadAnchor
    <3>2. PICK q : q = [z EXCEPT !.kind = "put", !.stage = "anchor", !.account = a, !.anchor = l, !.stamp = t]
      OBVIOUS
    <3>3. q = [f \in VisitFields |-> q[f]]
      BY <1>0, <3>2 DEF VisitFields
    <3> QED
      BY <3>1, <3>2, <3>3
  <2>2. CASE V!ReadOwn(r)
    <3>1. PICK i : V!Begin(r, [j EXCEPT !.stage = "write", !.review = i, !.seen = IF i = None THEN V!NoReview ELSE review[i]])
      BY <1>1, <2>2 DEF V!ReadOwn
    <3>2. PICK y : y = IF i = None THEN V!NoReview ELSE review[i]
      OBVIOUS
    <3>3. V!Begin(r, [j EXCEPT !.stage = "write", !.review = i, !.seen = y])
      BY <3>1, <3>2
    <3>4. PICK q : q = [j EXCEPT !.stage = "write", !.review = i, !.seen = y]
      OBVIOUS
    <3>5. q = [f \in VisitFields |-> q[f]]
      BY <1>1, <3>4 DEF VisitFields
    <3> QED
      BY <3>3, <3>4, <3>5
  <2>3. CASE V!Report(r)
    <3>1. PICK i : V!Begin(r, [z EXCEPT !.kind = "report", !.stage = "count", !.review = i])
      BY <1>0, <2>3 DEF V!Report
    <3>2. PICK q : q = [z EXCEPT !.kind = "report", !.stage = "count", !.review = i]
      OBVIOUS
    <3>3. q = [f \in VisitFields |-> q[f]]
      BY <1>0, <3>2 DEF VisitFields
    <3> QED
      BY <3>1, <3>2, <3>3
  <2>4. CASE V!Resolve(r)
    <3>1. PICK i : V!Begin(r, [z EXCEPT !.kind = "resolve", !.stage = "count", !.review = i])
      BY <1>0, <2>4 DEF V!Resolve
    <3>2. PICK q : q = [z EXCEPT !.kind = "resolve", !.stage = "count", !.review = i]
      OBVIOUS
    <3>3. q = [f \in VisitFields |-> q[f]]
      BY <1>0, <3>2 DEF VisitFields
    <3> QED
      BY <3>1, <3>2, <3>3
  <2>5. CASE V!Recount(r)
    <3>1. PICK n : V!Begin(r, [j EXCEPT !.stage = "total", !.total = n])
      BY <1>1, <2>5 DEF V!Recount
    <3>2. PICK q : q = [j EXCEPT !.stage = "total", !.total = n]
      OBVIOUS
    <3>3. q = [f \in VisitFields |-> q[f]]
      BY <1>1, <3>2 DEF VisitFields
    <3> QED
      BY <3>1, <3>2, <3>3
  <2>6. ASSUME NEW kind, V!ReadForReply(r, kind) PROVE <1>3
    <3>1. PICK i, y : V!Begin(r, [z EXCEPT !.kind = kind, !.stage = "write", !.review = i, !.seen = y])
      BY <1>0, <2>6 DEF V!ReadForReply
    <3>2. PICK q : q = [z EXCEPT !.kind = kind, !.stage = "write", !.review = i, !.seen = y]
      OBVIOUS
    <3>3. q = [f \in VisitFields |-> q[f]]
      BY <1>0, <3>2 DEF VisitFields
    <3> QED
      BY <3>1, <3>2, <3>3
  <2>7. CASE V!TellReviewer(r)
    BY <1>0, <2>7 DEF V!TellReviewer, V!End, V!Begin
  <2> QED
    BY <2>1, <2>2, <2>3, <2>4, <2>5, <2>6, <2>7
<1> QED
  BY <1>2, <1>3, BeginVisit DEF VisitGoes

\* PUT writes the columns of the text and the anchor, or inserts the row.
LEMMA VisitWrites ==
    ASSUME ReviewInv, NEW r \in Reqs, V!WriteReview(r)
    PROVE  VisitGoes(r) /\ RowsStand(r)
<1>1. PICK q : q = job[r] /\ V!At(r, "put", "write")
  BY DEF V!WriteReview
<1>2. VisitGoes(r)
  BY EndVisit DEF V!WriteReview, VisitGoes
<1>3. CASE UNCHANGED review
  BY <1>2, <1>3 DEF RowsStand
<1>4. CASE review' = [review EXCEPT ![q.review] =
                        IF V!Exists(q.review) /\ issue[q.anchor].status # "gone" THEN V!Rewritten(@, q) ELSE @]
  <2>1. PICK k : k = q.review
    OBVIOUS
  <2>2. PICK o : o = review[k]
    OBVIOUS
  <2>3. PICK a : a = IF issue[q.anchor].status = "gone" THEN o.release ELSE q.anchor
    OBVIOUS
  <2>4. PICK y : y = IF V!Exists(k) /\ issue[q.anchor].status # "gone" THEN [o EXCEPT !.anchoredAt = q.stamp, !.release = a] ELSE o
    OBVIOUS
  <2>5. review' = [review EXCEPT ![k] = y]
    <3>1. V!Rewritten(o, q) = [o EXCEPT !.anchoredAt = q.stamp, !.release = a]
      BY <2>3 DEF V!Rewritten
    <3> QED
      BY <1>4, <2>1, <2>2, <2>4, <3>1
  <2>6. ASSUME k \in Reviews PROVE y = [f \in ReviewFields |-> y[f]] /\ ReviewOutcome(r, k, y)
    <3>1. o = [f \in ReviewFields |-> o[f]]
      BY <2>2, <2>6 DEF ReviewInv
    <3>2. /\ y = [f \in ReviewFields |-> y[f]] /\ y.status = o.status /\ y.user = o.user
          /\ y.reportCount = o.reportCount /\ y.replied = o.replied
      BY <2>4, <3>1 DEF ReviewFields
    <3> QED
      BY <2>2, <3>2 DEF ReviewOutcome
  <2> QED
    BY <1>2, <2>5, <2>6, ColumnsWritten
<1>5. ASSUME NEW i \in Reviews, review[i].status = "none", V!MayInsert(q.account),
             review' = [review EXCEPT ![i] = [V!NoReview EXCEPT !.status = "visible", !.user = q.account,
                                                               !.release = q.anchor, !.anchoredAt = q.stamp]]
      PROVE  RowsStand(r)
  <2>1. PICK z : z = V!NoReview /\ z = [f \in ReviewFields |-> z[f]] /\ z.reportCount = 0
    BY NoReviewRow
  <2>2. PICK y : y = [z EXCEPT !.status = "visible", !.user = q.account, !.release = q.anchor, !.anchoredAt = q.stamp]
    OBVIOUS
  <2>3. y = [f \in ReviewFields |-> y[f]] /\ y.status = "visible" /\ y.user = q.account /\ y.reportCount = 0
    BY <2>1, <2>2 DEF ReviewFields
  <2>4. ReviewOutcome(r, i, y)
    BY <1>1, <1>5, <2>3 DEF ReviewOutcome
  <2>5. ReviewStep(i, y)
    BY <1>5, <2>1, <2>2, <2>3 DEF ReviewStep
  <2> QED
    BY <2>4, <2>5 DEF RowsStand
<1> QED
  BY <1>1, <1>2, <1>3, <1>4, <1>5 DEF V!WriteReview

\* What moderators and the reviewer do at once.
LEMMA VisitOnce ==
    ASSUME ReviewInv, NEW r \in Reqs, V!Withdraw(r) \/ V!Hide(r) \/ V!Drop(r)
    PROVE  VisitGoes(r) /\ RowsStand(r)
<1>1. UNCHANGED job
  BY DEF V!Withdraw, V!Hide, V!Drop
<1>2. VisitGoes(r)
  BY <1>1 DEF VisitGoes, ReviewInv
<1>3. ASSUME NEW i \in Reviews, V!Exists(i), V!Delete(i) PROVE RowsStand(r)
  <2>1. PICK y : y = [V!NoReview EXCEPT !.status = "gone"]
    OBVIOUS
  <2>2. y = [f \in ReviewFields |-> y[f]] /\ y.status = "gone" /\ review' = [review EXCEPT ![i] = y]
    BY <1>3, <2>1 DEF V!NoReview, V!Delete, ReviewFields
  <2> QED
    BY <1>1, <1>3, <2>2 DEF RowsStand, ReviewStep, ReviewOutcome
<1>4. CASE V!Hide(r)
  <2>1. PICK i \in Reviews, status \in {"visible", "hidden"} : V!Exists(i) /\ review' = [review EXCEPT ![i].status = status]
    BY <1>4 DEF V!Hide
  <2>2. PICK o : o = review[i] /\ o = [f \in ReviewFields |-> o[f]]
    BY DEF ReviewInv
  <2>3. PICK y : y = [o EXCEPT !.status = status]
    OBVIOUS
  <2>4. /\ y = [f \in ReviewFields |-> y[f]] /\ y.status = status /\ y.user = o.user
        /\ y.reportCount = o.reportCount /\ y.replied = o.replied
    BY <2>2, <2>3 DEF ReviewFields
  <2>5. review' = [review EXCEPT ![i] = y]
    BY <2>1, <2>2, <2>3
  <2>6. ReviewStep(i, y)
    BY <2>4, <2>5 DEF ReviewStep
  <2>7. ReviewOutcome(r, i, y)
    BY <1>1, <2>1, <2>2, <2>4 DEF ReviewOutcome
  <2>8. RowsStand(r)
    BY <2>6, <2>7 DEF RowsStand
  <2> QED
    BY <1>2, <2>8
<1>5. CASE V!Withdraw(r)
  <2>1. PICK i \in Reviews : V!Exists(i) /\ V!Delete(i)
    BY <1>5 DEF V!Withdraw, V!Own
  <2> QED
    BY <1>2, <1>3, <2>1
<1>6. CASE V!Drop(r)
  BY <1>2, <1>3, <1>6 DEF V!Drop
<1> QED
  BY <1>2, <1>4, <1>5, <1>6

\* The count and the answer are written onto the row they were taken for.
LEMMA VisitMarks ==
    ASSUME ReviewInv, NEW r \in Reqs, V!WriteCount(r) \/ V!WriteReply(r)
    PROVE  VisitGoes(r) /\ RowsStand(r)
<1>1. PICK j : j = job[r] /\ j = [f \in VisitFields |-> j[f]]
  BY DEF ReviewInv
<1>2. PICK k : k = j.review
  OBVIOUS
<1>3. PICK o : o = review[k]
  OBVIOUS
<1>4. CASE V!WriteCount(r)
  <2>1. VisitGoes(r)
    BY <1>4, EndVisit DEF V!WriteCount, VisitGoes
  <2>2. PICK n : n = IF V!Exists(k) THEN j.total ELSE o.reportCount
    OBVIOUS
  <2>3. PICK y : y = [o EXCEPT !.reportCount = n]
    OBVIOUS
  <2>4. review' = [review EXCEPT ![k] = y]
    BY <1>1, <1>2, <1>3, <1>4, <2>2, <2>3 DEF V!WriteCount
  <2>5. ASSUME k \in Reviews PROVE y = [f \in ReviewFields |-> y[f]] /\ ReviewOutcome(r, k, y)
    <3>1. o = [f \in ReviewFields |-> o[f]]
      BY <1>3, <2>5 DEF ReviewInv
    <3>2. /\ y = [f \in ReviewFields |-> y[f]] /\ y.status = o.status /\ y.user = o.user
          /\ y.replied = o.replied /\ y.reportCount = n
      BY <2>3, <3>1 DEF ReviewFields
    <3>3. j.kind \in Counting /\ j.stage = "total"
      BY <1>1, <1>4 DEF V!WriteCount, Counting
    <3>4. n # o.reportCount => n = j.total
      BY <2>2
    <3> QED
      BY <1>1, <1>2, <1>3, <3>2, <3>3, <3>4 DEF ReviewOutcome
  <2> QED
    BY <2>1, <2>4, <2>5, ColumnsWritten
<1>5. CASE V!WriteReply(r)
  <2>1. VisitGoes(r)
    <3>1. CASE V!End(r)
      BY <3>1, EndVisit DEF VisitGoes
    <3>2. CASE V!Begin(r, [j EXCEPT !.stage = "tell"])
      <4>1. PICK q : q = [j EXCEPT !.stage = "tell"]
        OBVIOUS
      <4>2. q = [f \in VisitFields |-> q[f]]
        BY <1>1, <4>1 DEF VisitFields
      <4>3. V!Begin(r, q)
        BY <3>2, <4>1, Zenon
      <4> QED
        BY <4>2, <4>3, BeginVisit DEF VisitGoes
    <3> QED
      BY <1>1, <1>5, <3>1, <3>2 DEF V!WriteReply
  <2>2. PICK b : b = (V!Exists(k) /\ j.kind = "reply")
    OBVIOUS
  <2>3. PICK y : y = [o EXCEPT !.replied = b]
    OBVIOUS
  <2>4. review' = [review EXCEPT ![k] = y]
    <3>1. review' = [review EXCEPT ![k].replied = V!Exists(k) /\ j.kind = "reply"]
      BY <1>1, <1>2, <1>5, Zenon DEF V!WriteReply
    <3>2. review' = [review EXCEPT ![k].replied = b]
      BY <2>2, <3>1, Zenon
    <3> QED
      BY <1>3, <2>3, <3>2
  <2>5. ASSUME k \in Reviews PROVE y = [f \in ReviewFields |-> y[f]] /\ ReviewOutcome(r, k, y)
    <3>1. o = [f \in ReviewFields |-> o[f]]
      BY <1>3, <2>5 DEF ReviewInv
    <3>2. /\ y = [f \in ReviewFields |-> y[f]] /\ y.status = o.status /\ y.user = o.user
          /\ y.reportCount = o.reportCount
      BY <2>3, <3>1 DEF ReviewFields
    <3>3. j.kind \in Answering /\ j.stage = "write"
      BY <1>1, <1>5 DEF V!WriteReply, Answering
    <3> QED
      BY <1>1, <1>2, <1>3, <3>2, <3>3 DEF ReviewOutcome
  <2> QED
    BY <2>1, <2>4, <2>5, ColumnsWritten
<1> QED
  BY <1>4, <1>5

LEMMA VisitActs ==
    ASSUME ReviewInv, NEW r \in Reqs, V!Handle(r) PROVE VisitGoes(r) /\ RowsStand(r)
BY VisitReads, VisitWrites, VisitOnce, VisitMarks DEF V!Handle, RowsStand

\* What becomes of the releases leaves the reviews their state, their writer and their counts.
RowsKeep ==
    /\ review' = [i \in Reviews |-> review'[i]] /\ \A i \in Reviews : review'[i] = [f \in ReviewFields |-> review'[i][f]]
    /\ \A i \in Reviews : /\ review'[i].status = review[i].status /\ review'[i].user = review[i].user
                          /\ review'[i].anchoredAt = review[i].anchoredAt
                          /\ review'[i].reportCount = review[i].reportCount /\ review'[i].replied = review[i].replied

LEMMA ReleasesKeep ==
    ASSUME ReviewInv, V!SaveRelease \/ V!DropRelease \/ V!Obtain \/ UNCHANGED V!vars
    PROVE  RowsKeep /\ UNCHANGED <<report, job, notices, answers>>
<1>1. CASE UNCHANGED review
  BY <1>1 DEF RowsKeep, ReviewInv, V!SaveRelease, V!DropRelease, V!Obtain, V!vars
<1>2. CASE V!DropRelease
  <2>1. PICK l : review' = [i \in Reviews |-> V!Unanchored(review[i], l)]
    BY <1>2 DEF V!DropRelease
  <2>2. ASSUME NEW i \in Reviews
        PROVE  /\ review'[i] = [f \in ReviewFields |-> review'[i][f]]
               /\ review'[i].status = review[i].status /\ review'[i].user = review[i].user
               /\ review'[i].anchoredAt = review[i].anchoredAt
               /\ review'[i].reportCount = review[i].reportCount /\ review'[i].replied = review[i].replied
    <3>1. PICK o : o = review[i] /\ o = [f \in ReviewFields |-> o[f]]
      BY DEF ReviewInv
    <3>2. review'[i] = IF o.release = l THEN [o EXCEPT !.release = None] ELSE o
      BY <2>1, <3>1 DEF V!Unanchored
    <3> QED
      BY <3>1, <3>2 DEF ReviewFields
  <2>3. review' = [i \in Reviews |-> review'[i]]
    BY <2>1
  <2> QED
    BY <1>2, <2>2, <2>3 DEF RowsKeep, V!DropRelease
<1> QED
  BY <1>1, <1>2 DEF V!SaveRelease, V!DropRelease, V!Obtain, V!vars

LEMMA ReviewWritten ==
    ASSUME ReviewInv, NEW k \in Reviews, NEW x, ReviewStep(k, x)
    PROVE  /\ review' = [i \in Reviews |-> review'[i]] /\ \A i \in Reviews : review'[i] = [f \in ReviewFields |-> review'[i][f]]
           /\ review'[k] = x /\ \A i \in Reviews : i # k => review'[i] = review[i]
<1>1. review = [i \in Reviews |-> review[i]] /\ \A i \in Reviews : review[i] = [f \in ReviewFields |-> review[i][f]]
  BY DEF ReviewInv
<1>2. review' = [review EXCEPT ![k] = x] /\ x = [f \in ReviewFields |-> x[f]]
  BY DEF ReviewStep
<1>3. \A i \in Reviews : review'[i] = IF i = k THEN x ELSE review[i]
  BY <1>1, <1>2
<1>4. review' = [i \in Reviews |-> review'[i]]
  BY <1>1, <1>2
<1> QED
  BY <1>1, <1>2, <1>3, <1>4

LEMMA ReviewsStep ==
    ASSUME ReviewInv, [V!Next]_V!vars PROVE ReviewInv'
<1>1. CASE V!SaveRelease \/ V!DropRelease \/ V!Obtain \/ UNCHANGED V!vars
  <2>1. RowsKeep /\ UNCHANGED job
    BY <1>1, ReleasesKeep
  <2> QED
    BY <2>1 DEF RowsKeep, ReviewInv, V!Exists
<1>2. ASSUME NEW r \in Reqs, V!Handle(r) PROVE ReviewInv'
  <2>1. VisitGoes(r) /\ RowsStand(r)
    BY <1>2, VisitActs
  <2>2. CASE UNCHANGED review
    BY <2>1, <2>2 DEF VisitGoes, ReviewInv, V!Exists
  <2>3. ASSUME NEW k \in Reviews, NEW x, ReviewStep(k, x), ReviewOutcome(r, k, x) PROVE ReviewInv'
    <3>1. /\ review' = [i \in Reviews |-> review'[i]] /\ \A i \in Reviews : review'[i] = [f \in ReviewFields |-> review'[i][f]]
          /\ review'[k] = x /\ \A i \in Reviews : i # k => review'[i] = review[i]
      BY <2>3, ReviewWritten
    <3>2. ASSUME NEW i \in Reviews, i # k, V!Exists(i)', V!Exists(k)' PROVE review'[i].user # x.user
      <4>1. review'[i] = review[i] /\ V!Exists(i) /\ x.status \in {"visible", "hidden"}
        BY <3>1, <3>2 DEF V!Exists
      <4>2. CASE V!MayInsert(x.user)
        BY <4>1, <4>2 DEF V!MayInsert, V!Own
      <4>3. CASE V!Exists(k) /\ x.user = review[k].user
        <5>1. review[i].user # review[k].user
          BY <3>2, <4>1, <4>3 DEF ReviewInv
        <5> QED
          BY <4>1, <4>3, <5>1
      <4> QED
        BY <2>3, <4>1, <4>2, <4>3 DEF ReviewOutcome, V!Exists
    <3>3. \A i, j \in Reviews : V!Exists(i)' /\ V!Exists(j)' /\ review'[i].user = review'[j].user => i = j
      <4> SUFFICES ASSUME NEW i \in Reviews, NEW j \in Reviews, V!Exists(i)', V!Exists(j)', review'[i].user = review'[j].user
                   PROVE  i = j
        OBVIOUS
      <4>1. CASE i # k /\ j # k
        <5>1. review'[i] = review[i] /\ review'[j] = review[j]
          BY <3>1, <4>1
        <5> QED
          BY <5>1 DEF ReviewInv, V!Exists
      <4> QED
        BY <3>1, <3>2, <4>1
    <3> QED
      BY <2>1, <3>1, <3>3 DEF ReviewInv, VisitGoes
  <2> QED
    BY <2>1, <2>2, <2>3 DEF RowsStand
<1> QED
  BY <1>1, <1>2 DEF V!Next

LEMMA ReviewsInit == V!Init => ReviewInv
<1> SUFFICES ASSUME V!Init PROVE ReviewInv
  OBVIOUS
<1>1. review = [i \in Reviews |-> review[i]] /\ \A i \in Reviews : review[i] = [f \in ReviewFields |-> review[i][f]]
  BY NoReviewRow DEF V!Init
<1>2. job = [r \in Reqs |-> job[r]] /\ \A r \in Reqs : job[r] = [f \in VisitFields |-> job[r][f]]
  BY NoVisit DEF V!Init
<1>3. \A i \in Reviews : ~V!Exists(i)
  BY NoReviewRow DEF V!Init, V!Exists
<1> QED
  BY <1>1, <1>2, <1>3 DEF ReviewInv

\* A person has one review of a product, whatever tabs send at once: the insert is refused by the unique
\* index, and no write changes whose a review is (routes/reviews.ts).
THEOREM OneReviewEach == V!Spec => []V!OneEach
<1>1. ReviewInv => V!OneEach
  <2> SUFFICES ASSUME ReviewInv, NEW a \in Accounts PROVE V!Cardinality(V!Own(a)) <= 1
    BY DEF V!OneEach
  <2>1. V!Cardinality(V!Own(a)) = Cardinality(V!Own(a))
    BY DEF V!Cardinality, Cardinality, V!IsFiniteSet, IsFiniteSet
  <2>2. CASE V!Own(a) = {}
    BY <2>1, <2>2, FS_EmptySet
  <2>3. ASSUME NEW i \in V!Own(a) PROVE Cardinality(V!Own(a)) = 1
    <3>1. V!Own(a) = {i}
      BY <2>3 DEF ReviewInv, V!Own
    <3> QED
      BY <3>1, FS_Singleton
  <2> QED
    BY <2>1, <2>2, <2>3
<1> QED
  BY <1>1, ReviewsInit, ReviewsStep, PTL DEF V!Spec

\* No request but a moderator's brings a hidden review back, from however stale a row (HiddenStaysHidden:
\* routes/reviews.ts writes no status), and no publication, reset or deletion of a release takes a review
\* along or moves one across the rating's window (ResetsDeleteNothing: the anchor's date stays on the row
\* when the foreign key is set null).
THEOREM ReviewsOutliveReleases == V!Spec => [][V!HiddenStaysHidden /\ V!ResetsDeleteNothing]_V!vars
<1>1. ASSUME ReviewInv, [V!Next]_V!vars PROVE [V!HiddenStaysHidden /\ V!ResetsDeleteNothing]_V!vars
  <2>1. CASE UNCHANGED V!vars
    BY <2>1
  <2>2. CASE V!SaveRelease \/ V!DropRelease \/ V!Obtain
    <3>1. RowsKeep
      BY <1>1, <2>2, ReleasesKeep
    <3>2. V!HiddenStaysHidden
      BY <3>1 DEF RowsKeep, V!HiddenStaysHidden
    <3>3. V!Visible' = V!Visible /\ (V!Cutoff' = V!Cutoff => V!Counted' = V!Counted)
      BY <3>1 DEF RowsKeep, V!Visible, V!Counted
    <3> QED
      BY <3>2, <3>3 DEF V!ResetsDeleteNothing
  <2>3. ASSUME NEW r \in Reqs, V!Handle(r) PROVE V!HiddenStaysHidden /\ V!ResetsDeleteNothing
    <3>1. UNCHANGED issue
      BY <2>3 DEF V!Handle, V!ReadAnchor, V!ReadOwn, V!WriteReview, V!Withdraw, V!Report, V!Resolve, V!Recount, V!WriteCount,
                  V!Hide, V!Drop, V!ReadForReply, V!WriteReply, V!TellReviewer, V!table
    <3>2. CASE UNCHANGED review
      BY <3>1, <3>2 DEF V!HiddenStaysHidden, V!ResetsDeleteNothing
    <3>3. ASSUME NEW k \in Reviews, NEW x, ReviewStep(k, x), ReviewOutcome(r, k, x) PROVE V!HiddenStaysHidden
      <4>1. review'[k] = x /\ \A i \in Reviews : i # k => review'[i] = review[i]
        BY <1>1, <3>3, ReviewWritten
      <4>2. ASSUME review[k].status = "hidden", x.status = "visible" PROVE UNCHANGED job
        BY <3>3, <4>2 DEF ReviewOutcome
      <4>3. ASSUME UNCHANGED job, NEW s \in Reqs, V!At(s, "put", "write") PROVE job'[s] # V!NoRequest
        BY <4>3, NoVisit DEF V!At
      <4> QED
        BY <4>1, <4>2, <4>3 DEF V!HiddenStaysHidden
    <3> QED
      BY <1>1, <2>3, <3>1, <3>2, <3>3, VisitActs DEF RowsStand, V!ResetsDeleteNothing
  <2> QED
    BY <1>1, <2>1, <2>2, <2>3 DEF V!Next
<1> QED
  BY <1>1, ReviewsInit, ReviewsStep, PTL DEF V!Spec

-----------------------------------------------------------------------------
(* The catalogue *)

GoodsFields == {"status", "publishedAt", "viewCount"}
IssueFields == {"status", "product", "publishedAt", "viewCount"}
NoteFields == {"kind", "stage", "product", "seen", "release", "before", "after"}

\* What an editor will write is of a row that exists, and a view is of a page that was there.
NoteCarries(q) ==
    /\ C!At(q, "product", "write") => job[q].seen.status \in C!Statuses
    /\ C!At(q, "release", "write") => job[q].after.status \in C!Statuses
    /\ C!At(q, "createRelease", "read") => job[q].product \in Products
    /\ C!At(q, "view", "count") =>
         LET p == job[q].product
             l == job[q].release
         IN  /\ p \in Products /\ goods[p].status # "none"
             /\ l # None => /\ l \in Releases /\ issue[l].status # "none"
                            /\ C!ReleaseExists(l) => issue[l].product = p

NoteShapes ==
    /\ goods = [p \in Products |-> goods[p]] /\ \A p \in Products : goods[p] = [f \in GoodsFields |-> goods[p][f]]
    /\ issue = [l \in Releases |-> issue[l]] /\ \A l \in Releases : issue[l] = [f \in IssueFields |-> issue[l][f]]
    /\ job = [r \in Reqs |-> job[r]] /\ \A r \in Reqs : job[r] = [f \in NoteFields |-> job[r][f]]
    /\ daily = [p \in Products |-> daily[p]] /\ \A p \in Products : daily[p] \in Nat

\* The counters of what exists agree with the daily rows.
NoteInv ==
    /\ NoteShapes
    /\ \A p \in Products : goods[p].status = "none" => daily[p] = 0
    /\ \A p \in Products : C!ProductExists(p) => goods[p].viewCount = daily[p]
    /\ \A l \in Releases : C!ReleaseExists(l) => /\ issue[l].product \in Products /\ issue[l].viewCount \in Nat
                                                 /\ issue[l].viewCount <= daily[issue[l].product]
    /\ \A r \in Reqs : NoteCarries(r)

LEMMA NoNote ==
    /\ C!NoRequest = [f \in NoteFields |-> C!NoRequest[f]] /\ C!NoRequest.kind = "none" /\ C!NoRequest.stage = "idle"
    /\ C!NoRequest.before = C!NoRelease
BY DEF C!NoRequest, NoteFields

LEMMA NoRows ==
    /\ C!NoProduct = [f \in GoodsFields |-> C!NoProduct[f]] /\ C!NoProduct.status = "none"
    /\ C!NoProduct.publishedAt = 0 /\ C!NoProduct.viewCount = 0
    /\ C!NoRelease = [f \in IssueFields |-> C!NoRelease[f]] /\ C!NoRelease.status = "none"
    /\ C!NoRelease.publishedAt = 0 /\ C!NoRelease.viewCount = 0
BY DEF C!NoProduct, C!NoRelease, GoodsFields, IssueFields

LEMMA BeginNote ==
    ASSUME NoteShapes, NEW r \in Reqs, NEW q, C!Begin(r, q), q = [f \in NoteFields |-> q[f]]
    PROVE  /\ job' = [s \in Reqs |-> job'[s]] /\ \A s \in Reqs : job'[s] = [f \in NoteFields |-> job'[s][f]]
           /\ job'[r] = q /\ \A s \in Reqs : s # r => job'[s] = job[s]
<1>1. job = [s \in Reqs |-> job[s]] /\ \A s \in Reqs : job[s] = [f \in NoteFields |-> job[s][f]]
  BY DEF NoteShapes
<1>2. job' = [job EXCEPT ![r] = q]
  BY DEF C!Begin
<1>3. \A s \in Reqs : job'[s] = IF s = r THEN q ELSE job[s]
  BY <1>1, <1>2
<1>4. job' = [s \in Reqs |-> job'[s]]
  BY <1>1, <1>2
<1> QED
  BY <1>1, <1>3, <1>4

LEMMA EndNote ==
    ASSUME NoteShapes, NEW r \in Reqs, C!End(r)
    PROVE  /\ job' = [s \in Reqs |-> job'[s]] /\ \A s \in Reqs : job'[s] = [f \in NoteFields |-> job'[s][f]]
           /\ job'[r] = C!NoRequest /\ \A s \in Reqs : s # r => job'[s] = job[s]
BY NoNote, BeginNote DEF C!End, C!Begin

\* A row that exists goes on existing or goes, one that went stays gone, and none loses views.
GoodsGo == \A p \in Products :
    /\ goods'[p].status = "none" => goods[p].status = "none"
    /\ C!ProductExists(p)' => \/ C!ProductExists(p) /\ goods'[p].viewCount = goods[p].viewCount
                              \/ goods[p].status = "none" /\ goods'[p].viewCount = 0

IssuesGo == \A l \in Releases :
    /\ issue'[l].status = "none" => issue[l].status = "none"
    /\ C!ReleaseExists(l) => C!ReleaseExists(l)' \/ issue'[l].status = "gone"
    /\ C!ReleaseExists(l)' =>
         \/ /\ C!ReleaseExists(l) /\ issue'[l].product = issue[l].product
            /\ issue'[l].viewCount = issue[l].viewCount
         \/ issue[l].status = "none" /\ issue'[l].viewCount = 0 /\ issue'[l].product \in Products

\* A step that counts no view.
LEMMA NoteRests ==
    ASSUME NoteInv, NoteShapes', GoodsGo, IssuesGo, UNCHANGED daily,
           \A r \in Reqs : job'[r] = job[r] \/ NoteCarries(r)'
    PROVE  NoteInv'
<1>1. \A p \in Products : goods'[p].status = "none" => daily[p] = 0
  BY DEF NoteInv, GoodsGo
<1>2. \A p \in Products : C!ProductExists(p)' => goods'[p].viewCount = daily[p]
  BY DEF NoteInv, GoodsGo
<1>3. ASSUME NEW l \in Releases, C!ReleaseExists(l)'
      PROVE  /\ issue'[l].product \in Products /\ issue'[l].viewCount \in Nat
             /\ issue'[l].viewCount <= daily[issue'[l].product]
  <2>1. CASE C!ReleaseExists(l) /\ issue'[l].product = issue[l].product /\ issue'[l].viewCount = issue[l].viewCount
    BY <2>1 DEF NoteInv
  <2>2. CASE issue'[l].viewCount = 0 /\ issue'[l].product \in Products
    BY <2>2 DEF NoteInv, NoteShapes
  <2> QED
    BY <1>3, <2>1, <2>2 DEF IssuesGo
<1>4. ASSUME NEW r \in Reqs, job'[r] = job[r] PROVE NoteCarries(r)'
  <2>1. NoteCarries(r)
    BY DEF NoteInv
  <2>2. /\ C!At(r, "product", "write")' => C!At(r, "product", "write")
        /\ C!At(r, "release", "write")' => C!At(r, "release", "write")
        /\ C!At(r, "createRelease", "read")' => C!At(r, "createRelease", "read")
        /\ C!At(r, "view", "count")' => C!At(r, "view", "count")
    BY <1>4 DEF C!At
  <2>3. ASSUME NEW l \in Releases, issue[l].status # "none"
        PROVE  issue'[l].status # "none" /\ (C!ReleaseExists(l)' => C!ReleaseExists(l) /\ issue'[l].product = issue[l].product)
    BY <2>3 DEF IssuesGo
  <2>4. ASSUME NEW p \in Products, goods[p].status # "none" PROVE goods'[p].status # "none"
    BY <2>4 DEF GoodsGo
  <2> QED
    BY <1>4, <2>1, <2>2, <2>3, <2>4 DEF NoteCarries
<1> QED
  BY <1>1, <1>2, <1>3, <1>4 DEF NoteInv

\* A write of a row, or of none.
LEMMA GoodsWritten ==
    ASSUME NoteShapes, NEW p, NEW y, goods' = [goods EXCEPT ![p] = y], y = [f \in GoodsFields |-> y[f]] \/ p \notin Products
    PROVE  /\ goods' = [o \in Products |-> goods'[o]] /\ \A o \in Products : goods'[o] = [f \in GoodsFields |-> goods'[o][f]]
           /\ \A o \in Products : goods'[o] = IF o = p THEN y ELSE goods[o]
<1>1. goods = [o \in Products |-> goods[o]] /\ \A o \in Products : goods[o] = [f \in GoodsFields |-> goods[o][f]]
  BY DEF NoteShapes
<1>2. \A o \in Products : goods'[o] = IF o = p THEN y ELSE goods[o]
  BY <1>1
<1>3. goods' = [o \in Products |-> goods'[o]]
  BY <1>1
<1> QED
  BY <1>1, <1>2, <1>3

LEMMA IssueWritten ==
    ASSUME NoteShapes, NEW l, NEW y, issue' = [issue EXCEPT ![l] = y], y = [f \in IssueFields |-> y[f]] \/ l \notin Releases
    PROVE  /\ issue' = [o \in Releases |-> issue'[o]] /\ \A o \in Releases : issue'[o] = [f \in IssueFields |-> issue'[o][f]]
           /\ \A o \in Releases : issue'[o] = IF o = l THEN y ELSE issue[o]
<1>1. issue = [o \in Releases |-> issue[o]] /\ \A o \in Releases : issue[o] = [f \in IssueFields |-> issue[o][f]]
  BY DEF NoteShapes
<1>2. \A o \in Releases : issue'[o] = IF o = l THEN y ELSE issue[o]
  BY <1>1
<1>3. issue' = [o \in Releases |-> issue'[o]]
  BY <1>1
<1> QED
  BY <1>1, <1>2, <1>3

LEMMA GoodsRest ==
    ASSUME NoteShapes, UNCHANGED goods
    PROVE  GoodsGo /\ goods' = [o \in Products |-> goods'[o]] /\ \A o \in Products : goods'[o] = [f \in GoodsFields |-> goods'[o][f]]
BY DEF NoteShapes, GoodsGo, C!ProductExists

LEMMA IssuesRest ==
    ASSUME NoteShapes, UNCHANGED issue
    PROVE  IssuesGo /\ issue' = [o \in Releases |-> issue'[o]] /\ \A o \in Releases : issue'[o] = [f \in IssueFields |-> issue'[o][f]]
BY DEF NoteShapes, IssuesGo, C!ReleaseExists

\* The requests go on, one of them by this step.
NoteGoes(r) ==
    /\ job' = [s \in Reqs |-> job'[s]] /\ \A s \in Reqs : job'[s] = [f \in NoteFields |-> job'[s][f]]
    /\ \A s \in Reqs : s # r => job'[s] = job[s]

\* A product: its row is inserted, read, and its columns written.
LEMMA NoteProducts ==
    ASSUME NoteInv, NEW r \in Reqs, C!CreateProduct(r) \/ C!CheckProduct(r) \/ C!UpdateProduct(r) \/ C!DropProduct(r)
    PROVE  NoteInv' /\ IssuesGo
<1>0. NoteShapes /\ daily' = daily /\ daily = [p \in Products |-> daily[p]] /\ \A p \in Products : daily[p] \in Nat
  BY DEF NoteInv, NoteShapes, C!CreateProduct, C!CheckProduct, C!UpdateProduct, C!DropProduct
<1>1. CASE C!CreateProduct(r)
  <2>1. PICK p \in Products, status \in C!Statuses : \E t :
           /\ goods[p].status = "none"
           /\ goods' = [goods EXCEPT ![p] = [C!NoProduct EXCEPT !.status = status, !.publishedAt = t]]
    BY <1>1 DEF C!CreateProduct
  <2>2. PICK t :
           /\ goods[p].status = "none"
           /\ goods' = [goods EXCEPT ![p] = [C!NoProduct EXCEPT !.status = status, !.publishedAt = t]]
    BY <2>1
  <2>z. PICK z : z = C!NoProduct /\ z = [f \in GoodsFields |-> z[f]] /\ z.viewCount = 0
    BY NoRows
  <2>3. PICK y : y = [z EXCEPT !.status = status, !.publishedAt = t]
    OBVIOUS
  <2>4. y = [f \in GoodsFields |-> y[f]] /\ y.status = status /\ y.viewCount = 0
    BY <2>z, <2>3 DEF GoodsFields
  <2>5. goods' = [goods EXCEPT ![p] = y]
    BY <2>2, <2>z, <2>3
  <2>6. /\ goods' = [o \in Products |-> goods'[o]] /\ \A o \in Products : goods'[o] = [f \in GoodsFields |-> goods'[o][f]]
        /\ \A o \in Products : goods'[o] = IF o = p THEN y ELSE goods[o]
    BY <1>0, <2>4, <2>5, GoodsWritten
  <2>7. GoodsGo
    BY <2>2, <2>4, <2>6 DEF GoodsGo, C!ProductExists, C!Statuses
  <2>8. UNCHANGED <<issue, job>>
    BY <1>1 DEF C!CreateProduct
  <2>9. IssuesGo /\ NoteShapes'
    BY <1>0, <2>6, <2>8, IssuesRest DEF NoteShapes
  <2> QED
    BY <1>0, <2>7, <2>8, <2>9, NoteRests
<1>2. CASE C!CheckProduct(r)
  <2>1. PICK p \in Products, status \in C!Statuses :
           C!Begin(r, [C!NoRequest EXCEPT !.kind = "product", !.stage = "write", !.product = p, !.seen = C!Tagged(goods[p], status)])
    BY <1>2 DEF C!CheckProduct
  <2>2. PICK o : o = goods[p] /\ o = [f \in GoodsFields |-> o[f]]
    BY <1>0 DEF NoteShapes
  <2>3. PICK y : y = C!Tagged(o, status)
    OBVIOUS
  <2>4. y.status = status
    BY <2>2, <2>3 DEF C!Tagged, GoodsFields
  <2>5. PICK z : z = C!NoRequest /\ z = [f \in NoteFields |-> z[f]]
    BY NoNote
  <2>6. PICK q : q = [z EXCEPT !.kind = "product", !.stage = "write", !.product = p, !.seen = y]
    OBVIOUS
  <2>7. q = [f \in NoteFields |-> q[f]] /\ q.kind = "product" /\ q.stage = "write" /\ q.seen = y
    BY <2>5, <2>6 DEF NoteFields
  <2>8. C!Begin(r, q)
    BY <2>1, <2>2, <2>3, <2>5, <2>6, Zenon
  <2>9. NoteGoes(r) /\ job'[r] = q
    BY <1>0, <2>7, <2>8, BeginNote DEF NoteGoes
  <2>10. NoteCarries(r)'
    BY <2>4, <2>7, <2>9 DEF NoteCarries, C!At
  <2>11. UNCHANGED <<goods, issue>>
    BY <1>2 DEF C!CheckProduct
  <2>12. GoodsGo /\ IssuesGo /\ NoteShapes'
    BY <1>0, <2>9, <2>11, GoodsRest, IssuesRest DEF NoteShapes, NoteGoes
  <2> QED
    BY <1>0, <2>9, <2>10, <2>12, NoteRests DEF NoteGoes
<1>3. CASE C!UpdateProduct(r)
  <2>1. PICK q : q = job[r] /\ q.kind = "product" /\ q.stage = "write" /\ q.seen.status \in C!Statuses
    BY <1>3 DEF C!UpdateProduct, C!At, NoteInv, NoteCarries
  <2>2. PICK p : p = q.product
    OBVIOUS
  <2>3. PICK o : o = goods[p]
    OBVIOUS
  <2>4. PICK y : y = IF C!ProductExists(p) THEN [o EXCEPT !.status = q.seen.status, !.publishedAt = q.seen.publishedAt] ELSE o
    OBVIOUS
  <2>5. goods' = [goods EXCEPT ![p] = y]
    BY <1>3, <2>1, <2>2, <2>3, <2>4 DEF C!UpdateProduct, C!ProductColumns
  <2>6. ASSUME p \in Products
        PROVE  /\ y = [f \in GoodsFields |-> y[f]] /\ y.viewCount = o.viewCount
               /\ IF C!ProductExists(p) THEN y.status = q.seen.status ELSE y = o
    <3>1. o = [f \in GoodsFields |-> o[f]]
      BY <1>0, <2>3, <2>6 DEF NoteShapes
    <3> QED
      BY <2>4, <3>1 DEF GoodsFields
  <2>7. /\ goods' = [g \in Products |-> goods'[g]] /\ \A g \in Products : goods'[g] = [f \in GoodsFields |-> goods'[g][f]]
        /\ \A g \in Products : goods'[g] = IF g = p THEN y ELSE goods[g]
    BY <1>0, <2>5, <2>6, GoodsWritten
  <2>8. GoodsGo
    BY <2>1, <2>3, <2>6, <2>7 DEF GoodsGo, C!ProductExists, C!Statuses
  <2>9. NoteGoes(r) /\ job'[r].kind = "none" /\ UNCHANGED issue
    BY <1>0, <1>3, EndNote, NoNote DEF C!UpdateProduct, NoteGoes
  <2>10. NoteCarries(r)'
    BY <2>9 DEF NoteCarries, C!At
  <2>11. IssuesGo /\ NoteShapes'
    BY <1>0, <2>7, <2>9, IssuesRest DEF NoteShapes, NoteGoes
  <2> QED
    BY <1>0, <2>8, <2>9, <2>10, <2>11, NoteRests DEF NoteGoes
<1>4. CASE C!DropProduct(r)
  <2>1. PICK p \in Products :
           /\ C!ProductExists(p) /\ goods' = [goods EXCEPT ![p] = [C!NoProduct EXCEPT !.status = "gone"]]
           /\ issue' = [l \in Releases |-> IF issue[l].product = p THEN [C!NoRelease EXCEPT !.status = "gone"] ELSE issue[l]]
    BY <1>4 DEF C!DropProduct
  <2>2. PICK y : y = [C!NoProduct EXCEPT !.status = "gone"]
    OBVIOUS
  <2>3. PICK x : x = [C!NoRelease EXCEPT !.status = "gone"]
    OBVIOUS
  <2>4. y = [f \in GoodsFields |-> y[f]] /\ y.status = "gone"
    BY <2>2 DEF C!NoProduct, GoodsFields
  <2>5. x = [f \in IssueFields |-> x[f]] /\ x.status = "gone"
    BY <2>3 DEF C!NoRelease, IssueFields
  <2>6. /\ goods' = [o \in Products |-> goods'[o]] /\ \A o \in Products : goods'[o] = [f \in GoodsFields |-> goods'[o][f]]
        /\ \A o \in Products : goods'[o] = IF o = p THEN y ELSE goods[o]
    BY <1>0, <2>1, <2>2, <2>4, GoodsWritten
  <2>7. \A l \in Releases : issue'[l] = IF issue[l].product = p THEN x ELSE issue[l]
    BY <2>1, <2>3
  <2>8. GoodsGo
    BY <2>4, <2>6 DEF GoodsGo, C!ProductExists, C!Statuses
  <2>9. IssuesGo
    BY <2>5, <2>7 DEF IssuesGo, C!ReleaseExists, C!Statuses
  <2>10. UNCHANGED job
    BY <1>4 DEF C!DropProduct
  <2>11. NoteShapes'
    <3>1. issue' = [l \in Releases |-> issue'[l]] /\ \A l \in Releases : issue'[l] = [f \in IssueFields |-> issue'[l][f]]
      BY <1>0, <2>1, <2>5, <2>7 DEF NoteShapes
    <3> QED
      BY <1>0, <2>6, <2>10, <3>1 DEF NoteShapes
  <2> QED
    BY <1>0, <2>8, <2>9, <2>10, <2>11, NoteRests
<1> QED
  BY <1>1, <1>2, <1>3, <1>4

\* A release: its product is read, its row inserted or read, and its columns written.
LEMMA NoteReads ==
    ASSUME NoteInv, NEW r \in Reqs, NEW kind, C!ReadProduct(r, kind)
    PROVE  NoteInv' /\ IssuesGo
<1>0. NoteShapes /\ daily' = daily /\ UNCHANGED <<goods, issue>>
  BY DEF NoteInv, C!ReadProduct
<1>1. PICK p \in Products :
         C!Begin(r, [C!NoRequest EXCEPT !.kind = kind, !.stage = "read", !.product = p, !.seen = goods[p]])
  BY DEF C!ReadProduct
<1>2. PICK z : z = C!NoRequest /\ z = [f \in NoteFields |-> z[f]]
  BY NoNote
<1>3. PICK o : o = goods[p]
  OBVIOUS
<1>4. PICK q : q = [z EXCEPT !.kind = kind, !.stage = "read", !.product = p, !.seen = o]
  OBVIOUS
<1>5. q = [f \in NoteFields |-> q[f]] /\ q.stage = "read" /\ q.product = p
  BY <1>2, <1>4 DEF NoteFields
<1>6. C!Begin(r, q)
  BY <1>1, <1>2, <1>3, <1>4, Zenon
<1>7. NoteGoes(r) /\ job'[r] = q
  BY <1>0, <1>5, <1>6, BeginNote DEF NoteGoes
<1>8. NoteCarries(r)'
  BY <1>5, <1>7 DEF NoteCarries, C!At
<1>9. GoodsGo /\ IssuesGo /\ NoteShapes'
  BY <1>0, <1>7, GoodsRest, IssuesRest DEF NoteShapes, NoteGoes
<1> QED
  BY <1>0, <1>7, <1>8, <1>9, NoteRests DEF NoteGoes

LEMMA NoteCreates ==
    ASSUME NoteInv, NEW r \in Reqs, C!CreateRelease(r)
    PROVE  NoteInv' /\ IssuesGo
<1>0. NoteShapes /\ UNCHANGED <<goods, daily>> /\ job[r].product \in Products
  BY DEF NoteInv, NoteCarries, C!CreateRelease
<1>1. ASSUME NEW l \in Releases, NEW status \in C!Statuses, NEW stamp, NEW row,
             row = [C!NoRelease EXCEPT !.status = status, !.product = job[r].product, !.publishedAt = stamp],
             issue[l].status = "none", issue' = [issue EXCEPT ![l] = row],
             C!Begin(r, [job[r] EXCEPT !.stage = "announce", !.release = l, !.after = row])
      PROVE  NoteInv' /\ IssuesGo
  <2>1. PICK z : z = C!NoRelease /\ z = [f \in IssueFields |-> z[f]] /\ z.viewCount = 0
    BY NoRows
  <2>2. PICK p : p = job[r].product
    OBVIOUS
  <2>3. row = [z EXCEPT !.status = status, !.product = p, !.publishedAt = stamp]
    BY <1>1, <2>1, <2>2
  <2>4. row = [f \in IssueFields |-> row[f]] /\ row.status = status /\ row.product = p /\ row.viewCount = 0
    BY <2>1, <2>3 DEF IssueFields
  <2>5. /\ issue' = [o \in Releases |-> issue'[o]] /\ \A o \in Releases : issue'[o] = [f \in IssueFields |-> issue'[o][f]]
        /\ \A o \in Releases : issue'[o] = IF o = l THEN row ELSE issue[o]
    BY <1>0, <1>1, <2>4, IssueWritten
  <2>6. IssuesGo
    BY <1>0, <1>1, <2>2, <2>4, <2>5 DEF IssuesGo, C!ReleaseExists, C!Statuses
  <2>7. PICK o : o = job[r] /\ o = [f \in NoteFields |-> o[f]]
    BY <1>0 DEF NoteShapes
  <2>8. PICK q : q = [o EXCEPT !.stage = "announce", !.release = l, !.after = row]
    OBVIOUS
  <2>9. q = [f \in NoteFields |-> q[f]] /\ q.stage = "announce"
    BY <2>7, <2>8 DEF NoteFields
  <2>10. C!Begin(r, q)
    BY <1>1, <2>7, <2>8, Zenon
  <2>11. NoteGoes(r) /\ job'[r] = q
    BY <1>0, <2>9, <2>10, BeginNote DEF NoteGoes
  <2>12. NoteCarries(r)'
    BY <2>9, <2>11 DEF NoteCarries, C!At
  <2>13. GoodsGo /\ NoteShapes'
    BY <1>0, <2>5, <2>11, GoodsRest DEF NoteShapes, NoteGoes
  <2> QED
    BY <1>0, <2>6, <2>11, <2>12, <2>13, NoteRests DEF NoteGoes
<1>2. CASE C!End(r) /\ UNCHANGED issue
  <2>1. NoteGoes(r) /\ job'[r].kind = "none"
    BY <1>0, <1>2, EndNote, NoNote DEF NoteGoes
  <2>2. NoteCarries(r)'
    BY <2>1 DEF NoteCarries, C!At
  <2>3. GoodsGo /\ IssuesGo /\ NoteShapes'
    BY <1>0, <1>2, <2>1, GoodsRest, IssuesRest DEF NoteShapes, NoteGoes
  <2> QED
    BY <1>0, <2>1, <2>2, <2>3, NoteRests DEF NoteGoes
<1> QED
  BY <1>1, <1>2, Zenon DEF C!CreateRelease

LEMMA NoteChecks ==
    ASSUME NoteInv, NEW r \in Reqs, C!CheckRelease(r)
    PROVE  NoteInv' /\ IssuesGo
<1>0. NoteShapes /\ UNCHANGED <<goods, issue, daily>> /\ job[r].kind = "release"
  BY DEF NoteInv, C!CheckRelease, C!At
<1>1. ASSUME NEW l \in Releases, NEW status \in C!Statuses,
             C!Begin(r, [job[r] EXCEPT !.stage = "write", !.release = l, !.before = issue[l],
                                       !.after = C!Tagged(issue[l], status)])
      PROVE  NoteInv' /\ IssuesGo
  <2>1. PICK b : b = issue[l] /\ b = [f \in IssueFields |-> b[f]]
    BY <1>0 DEF NoteShapes
  <2>2. PICK y : y = C!Tagged(b, status)
    OBVIOUS
  <2>3. y.status = status
    BY <2>1, <2>2 DEF C!Tagged, IssueFields
  <2>4. PICK o : o = job[r] /\ o = [f \in NoteFields |-> o[f]]
    BY <1>0 DEF NoteShapes
  <2>5. PICK q : q = [o EXCEPT !.stage = "write", !.release = l, !.before = b, !.after = y]
    OBVIOUS
  <2>6. q = [f \in NoteFields |-> q[f]] /\ q.kind = "release" /\ q.stage = "write" /\ q.after = y
    BY <1>0, <2>4, <2>5 DEF NoteFields
  <2>7. C!Begin(r, q)
    BY <1>1, <2>1, <2>2, <2>4, <2>5, Zenon
  <2>8. NoteGoes(r) /\ job'[r] = q
    BY <1>0, <2>6, <2>7, BeginNote DEF NoteGoes
  <2>9. NoteCarries(r)'
    BY <2>3, <2>6, <2>8 DEF NoteCarries, C!At
  <2>10. GoodsGo /\ IssuesGo /\ NoteShapes'
    BY <1>0, <2>8, GoodsRest, IssuesRest DEF NoteShapes, NoteGoes
  <2> QED
    BY <1>0, <2>8, <2>9, <2>10, NoteRests DEF NoteGoes
<1>2. CASE C!End(r)
  <2>1. NoteGoes(r) /\ job'[r].kind = "none"
    BY <1>0, <1>2, EndNote, NoNote DEF NoteGoes
  <2>2. NoteCarries(r)'
    BY <2>1 DEF NoteCarries, C!At
  <2>3. GoodsGo /\ IssuesGo /\ NoteShapes'
    BY <1>0, <2>1, GoodsRest, IssuesRest DEF NoteShapes, NoteGoes
  <2> QED
    BY <1>0, <2>1, <2>2, <2>3, NoteRests DEF NoteGoes
<1>3. \/ \E l \in Releases, status \in C!Statuses :
           C!Begin(r, [job[r] EXCEPT !.stage = "write", !.release = l, !.before = issue[l],
                                     !.after = C!Tagged(issue[l], status)])
      \/ C!End(r)
  BY DEF C!CheckRelease
<1> QED
  BY <1>1, <1>2, <1>3

\* The stale row an editor writes back brings its status and its stamp, and no counter.
LEMMA NoteWrites ==
    ASSUME NoteInv, NEW r \in Reqs, C!UpdateRelease(r)
    PROVE  NoteInv' /\ IssuesGo
<1>0. NoteShapes /\ UNCHANGED <<goods, daily>> /\ job[r].kind = "release" /\ job[r].stage = "write" /\ job[r].after.status \in C!Statuses
  BY DEF NoteInv, NoteCarries, C!UpdateRelease, C!At
<1>1. PICK q : q = job[r] /\ q = [f \in NoteFields |-> q[f]]
  BY <1>0 DEF NoteShapes
<1>2. PICK l : l = q.release
  OBVIOUS
<1>3. PICK o : o = issue[l]
  OBVIOUS
<1>4. PICK y : y = [o EXCEPT !.status = q.after.status, !.publishedAt = q.after.publishedAt]
  OBVIOUS
<1>5. \/ C!ReleaseExists(l) /\ issue' = [issue EXCEPT ![l] = y]
      \/ UNCHANGED issue
  BY <1>1, <1>2, <1>3, <1>4 DEF C!UpdateRelease, C!ReleaseColumns
<1>6. ASSUME l \in Releases
      PROVE  /\ y = [f \in IssueFields |-> y[f]] /\ y.status = q.after.status
             /\ y.viewCount = o.viewCount /\ y.product = o.product
  <2>1. o = [f \in IssueFields |-> o[f]]
    BY <1>0, <1>3, <1>6 DEF NoteShapes
  <2> QED
    BY <1>4, <2>1 DEF IssueFields
<1>7. /\ issue' = [g \in Releases |-> issue'[g]] /\ \A g \in Releases : issue'[g] = [f \in IssueFields |-> issue'[g][f]]
      /\ IssuesGo
  <2>1. CASE C!ReleaseExists(l) /\ issue' = [issue EXCEPT ![l] = y]
    <3>1. /\ issue' = [g \in Releases |-> issue'[g]] /\ \A g \in Releases : issue'[g] = [f \in IssueFields |-> issue'[g][f]]
          /\ \A g \in Releases : issue'[g] = IF g = l THEN y ELSE issue[g]
      BY <1>0, <1>6, <2>1, IssueWritten
    <3> QED
      BY <1>0, <1>1, <1>3, <1>6, <2>1, <3>1 DEF IssuesGo, C!ReleaseExists, C!Statuses
  <2>2. CASE UNCHANGED issue
    BY <1>0, <2>2, IssuesRest
  <2> QED
    BY <1>5, <2>1, <2>2
<1>8. PICK n : n = [q EXCEPT !.stage = "announce"]
  OBVIOUS
<1>9. n = [f \in NoteFields |-> n[f]] /\ n.stage = "announce"
  BY <1>1, <1>8 DEF NoteFields
<1>10. C!Begin(r, n)
  BY <1>1, <1>8, Zenon DEF C!UpdateRelease
<1>11. NoteGoes(r) /\ job'[r] = n
  BY <1>0, <1>9, <1>10, BeginNote DEF NoteGoes
<1>12. NoteCarries(r)'
  BY <1>9, <1>11 DEF NoteCarries, C!At
<1>13. GoodsGo /\ NoteShapes'
  BY <1>0, <1>7, <1>11, GoodsRest DEF NoteShapes, NoteGoes
<1> QED
  BY <1>0, <1>7, <1>11, <1>12, <1>13, NoteRests DEF NoteGoes

LEMMA NoteEnds ==
    ASSUME NoteInv, NEW r \in Reqs, C!Announce(r) \/ C!Fail(r)
    PROVE  NoteInv' /\ IssuesGo
<1>1. NoteShapes /\ C!End(r) /\ UNCHANGED <<goods, issue, daily>>
  BY DEF NoteInv, C!Announce, C!Fail
<1>2. NoteGoes(r) /\ job'[r].kind = "none"
  BY <1>1, EndNote, NoNote DEF NoteGoes
<1>3. NoteCarries(r)'
  BY <1>2 DEF NoteCarries, C!At
<1>4. GoodsGo /\ IssuesGo /\ NoteShapes'
  BY <1>1, <1>2, GoodsRest, IssuesRest DEF NoteShapes, NoteGoes
<1> QED
  BY <1>1, <1>2, <1>3, <1>4, NoteRests DEF NoteGoes

LEMMA NoteDrops ==
    ASSUME NoteInv, NEW r \in Reqs, C!DropRelease(r)
    PROVE  NoteInv' /\ IssuesGo
<1>1. NoteShapes /\ UNCHANGED <<goods, daily, job>>
  BY DEF NoteInv, C!DropRelease
<1>2. PICK l \in Releases : C!ReleaseExists(l) /\ issue' = [issue EXCEPT ![l] = [C!NoRelease EXCEPT !.status = "gone"]]
  BY DEF C!DropRelease
<1>3. PICK x : x = [C!NoRelease EXCEPT !.status = "gone"]
  OBVIOUS
<1>4. x = [f \in IssueFields |-> x[f]] /\ x.status = "gone"
  BY <1>3 DEF C!NoRelease, IssueFields
<1>5. /\ issue' = [o \in Releases |-> issue'[o]] /\ \A o \in Releases : issue'[o] = [f \in IssueFields |-> issue'[o][f]]
      /\ \A o \in Releases : issue'[o] = IF o = l THEN x ELSE issue[o]
  BY <1>1, <1>2, <1>3, <1>4, IssueWritten
<1>6. IssuesGo
  BY <1>2, <1>4, <1>5 DEF IssuesGo, C!ReleaseExists, C!Statuses
<1>7. GoodsGo /\ NoteShapes'
  BY <1>1, <1>5, GoodsRest DEF NoteShapes
<1> QED
  BY <1>1, <1>6, <1>7, NoteRests

LEMMA NoteSees ==
    ASSUME NoteInv, NEW r \in Reqs, C!SeePage(r)
    PROVE  NoteInv' /\ IssuesGo
<1>0. NoteShapes /\ UNCHANGED <<goods, issue, daily>>
  BY DEF NoteInv, C!SeePage
<1>1. PICK p \in Products, l \in Releases \cup {None} :
         /\ goods[p].status = "published"
         /\ l # None => issue[l].product = p /\ issue[l].status = "published"
         /\ C!Begin(r, [C!NoRequest EXCEPT !.kind = "view", !.stage = "count", !.product = p, !.release = l])
  BY DEF C!SeePage
<1>2. PICK z : z = C!NoRequest /\ z = [f \in NoteFields |-> z[f]]
  BY NoNote
<1>3. PICK q : q = [z EXCEPT !.kind = "view", !.stage = "count", !.product = p, !.release = l]
  OBVIOUS
<1>4. q = [f \in NoteFields |-> q[f]] /\ q.kind = "view" /\ q.stage = "count" /\ q.product = p /\ q.release = l
  BY <1>2, <1>3 DEF NoteFields
<1>5. C!Begin(r, q)
  BY <1>1, <1>2, <1>3, Zenon
<1>6. NoteGoes(r) /\ job'[r] = q
  BY <1>0, <1>4, <1>5, BeginNote DEF NoteGoes
<1>7. NoteCarries(r)'
  BY <1>0, <1>1, <1>4, <1>6 DEF NoteCarries, C!At
<1>8. GoodsGo /\ IssuesGo /\ NoteShapes'
  BY <1>0, <1>6, GoodsRest, IssuesRest DEF NoteShapes, NoteGoes
<1> QED
  BY <1>0, <1>6, <1>7, <1>8, NoteRests DEF NoteGoes

\* A view moves the day's row and the counters of what is still there, all in one batch.
LEMMA NoteCounts ==
    ASSUME NoteInv, NEW r \in Reqs, C!CountView(r)
    PROVE  NoteInv' /\ C!ViewsOnlyGrow
<1>0. /\ NoteShapes /\ NoteCarries(r) /\ C!At(r, "view", "count")
      /\ NoteGoes(r) /\ job'[r].kind = "none"
  <2>1. NoteShapes /\ C!End(r) /\ NoteCarries(r) /\ C!At(r, "view", "count")
    BY DEF NoteInv, C!CountView
  <2> QED
    BY <2>1, EndNote, NoNote DEF NoteGoes
<1>1. PICK p, l : p = job[r].product /\ l = job[r].release
  OBVIOUS
<1>2. /\ p \in Products /\ goods[p].status # "none"
      /\ l # None => /\ l \in Releases /\ issue[l].status # "none"
                     /\ C!ReleaseExists(l) => issue[l].product = p
  BY <1>0, <1>1, Zenon DEF NoteCarries
<1>3. CASE UNCHANGED <<goods, issue, daily>>
  <2>1. GoodsGo /\ IssuesGo /\ NoteShapes'
    BY <1>0, <1>3, GoodsRest, IssuesRest DEF NoteShapes, NoteGoes
  <2>2. NoteCarries(r)'
    BY <1>0 DEF NoteCarries, C!At
  <2>3. NoteInv'
    BY <1>0, <1>3, <2>1, <2>2, NoteRests DEF NoteGoes
  <2>4. ASSUME NEW k \in Releases, C!ReleaseExists(k) PROVE issue'[k].viewCount >= issue[k].viewCount
    BY <1>3, <2>4 DEF NoteInv
  <2> QED
    BY <2>3, <2>4 DEF C!ViewsOnlyGrow
<1>4. ASSUME daily' = [daily EXCEPT ![p] = @ + 1],
             goods' = IF C!ProductExists(p) THEN [goods EXCEPT ![p].viewCount = @ + 1] ELSE goods,
             issue' = IF l # None /\ C!ReleaseExists(l) THEN [issue EXCEPT ![l].viewCount = @ + 1] ELSE issue
      PROVE  NoteInv' /\ C!ViewsOnlyGrow
  <2>1. /\ daily' = [o \in Products |-> daily'[o]] /\ \A o \in Products : daily'[o] \in Nat
        /\ \A o \in Products : daily'[o] = IF o = p THEN daily[o] + 1 ELSE daily[o]
    BY <1>0, <1>2, <1>4 DEF NoteShapes
  <2>2. /\ goods' = [o \in Products |-> goods'[o]] /\ \A o \in Products : goods'[o] = [f \in GoodsFields |-> goods'[o][f]]
        /\ \A o \in Products : goods'[o].status = goods[o].status
        /\ \A o \in Products : goods'[o].viewCount = IF o = p /\ C!ProductExists(p) THEN goods[o].viewCount + 1 ELSE goods[o].viewCount
    <3>1. CASE ~C!ProductExists(p)
      BY <1>0, <1>4, <3>1 DEF NoteShapes
    <3>2. CASE C!ProductExists(p)
      <4>1. PICK g : g = goods[p] /\ g = [f \in GoodsFields |-> g[f]]
        BY <1>0, <1>2 DEF NoteShapes
      <4>2. PICK y : y = [g EXCEPT !.viewCount = @ + 1]
        OBVIOUS
      <4>3. y = [f \in GoodsFields |-> y[f]] /\ y.status = g.status /\ y.viewCount = g.viewCount + 1
        BY <4>1, <4>2 DEF GoodsFields
      <4>4. goods' = [goods EXCEPT ![p] = y]
        BY <1>4, <3>2, <4>1, <4>2
      <4>5. /\ goods' = [o \in Products |-> goods'[o]] /\ \A o \in Products : goods'[o] = [f \in GoodsFields |-> goods'[o][f]]
            /\ \A o \in Products : goods'[o] = IF o = p THEN y ELSE goods[o]
        BY <1>0, <4>3, <4>4, GoodsWritten
      <4> QED
        BY <3>2, <4>1, <4>3, <4>5
    <3> QED
      BY <3>1, <3>2
  <2>3. /\ issue' = [o \in Releases |-> issue'[o]] /\ \A o \in Releases : issue'[o] = [f \in IssueFields |-> issue'[o][f]]
        /\ \A o \in Releases : issue'[o].status = issue[o].status /\ issue'[o].product = issue[o].product
        /\ \A o \in Releases : issue'[o].viewCount = IF o = l /\ l # None /\ C!ReleaseExists(l) THEN issue[o].viewCount + 1 ELSE issue[o].viewCount
    <3>1. CASE ~(l # None /\ C!ReleaseExists(l))
      BY <1>0, <1>4, <3>1 DEF NoteShapes
    <3>2. CASE l # None /\ C!ReleaseExists(l)
      <4>1. PICK g : g = issue[l] /\ g = [f \in IssueFields |-> g[f]]
        BY <1>0, <1>2, <3>2 DEF NoteShapes
      <4>2. PICK y : y = [g EXCEPT !.viewCount = @ + 1]
        OBVIOUS
      <4>3. /\ y = [f \in IssueFields |-> y[f]] /\ y.status = g.status /\ y.product = g.product
            /\ y.viewCount = g.viewCount + 1
        BY <4>1, <4>2 DEF IssueFields
      <4>4. issue' = [issue EXCEPT ![l] = y]
        BY <1>4, <3>2, <4>1, <4>2
      <4>5. /\ issue' = [o \in Releases |-> issue'[o]] /\ \A o \in Releases : issue'[o] = [f \in IssueFields |-> issue'[o][f]]
            /\ \A o \in Releases : issue'[o] = IF o = l THEN y ELSE issue[o]
        BY <1>0, <4>3, <4>4, IssueWritten
      <4> QED
        BY <3>2, <4>1, <4>3, <4>5
    <3> QED
      BY <3>1, <3>2
  <2>4. NoteShapes'
    BY <1>0, <2>1, <2>2, <2>3 DEF NoteShapes, NoteGoes
  <2>5. ASSUME NEW o \in Products, goods'[o].status = "none" PROVE daily'[o] = 0
    BY <1>2, <2>1, <2>2, <2>5 DEF NoteInv
  <2>6. ASSUME NEW o \in Products, C!ProductExists(o)' PROVE goods'[o].viewCount = daily'[o]
    <3>1. C!ProductExists(o) /\ goods[o].viewCount = daily[o]
      BY <2>2, <2>6 DEF NoteInv, C!ProductExists
    <3> QED
      BY <2>1, <2>2, <3>1
  <2>7. ASSUME NEW k \in Releases, C!ReleaseExists(k)
        PROVE  /\ issue'[k].product \in Products /\ issue'[k].viewCount \in Nat
               /\ issue'[k].viewCount <= daily'[issue'[k].product] /\ issue'[k].viewCount >= issue[k].viewCount
    <3>1. /\ issue[k].product \in Products /\ issue[k].viewCount \in Nat /\ issue[k].viewCount <= daily[issue[k].product]
          /\ daily[issue[k].product] \in Nat
      BY <1>0, <2>7 DEF NoteInv, NoteShapes
    <3>2. CASE k = l /\ l # None
      BY <1>2, <2>1, <2>3, <2>7, <3>1, <3>2
    <3>3. CASE ~(k = l /\ l # None)
      BY <2>1, <2>3, <3>1, <3>3
    <3> QED
      BY <3>2, <3>3
  <2>8. ASSUME NEW k \in Releases, C!ReleaseExists(k)'
        PROVE  /\ issue'[k].product \in Products /\ issue'[k].viewCount \in Nat
               /\ issue'[k].viewCount <= daily'[issue'[k].product]
    BY <2>3, <2>7, <2>8 DEF C!ReleaseExists
  <2>9. ASSUME NEW s \in Reqs PROVE NoteCarries(s)'
    <3>1. CASE s = r
      BY <1>0, <3>1 DEF NoteCarries, C!At
    <3>2. CASE s # r
      <4>1. job'[s] = job[s] /\ NoteCarries(s)
        BY <1>0, <3>2 DEF NoteGoes, NoteInv
      <4>2. \A o \in Releases : C!ReleaseExists(o)' = C!ReleaseExists(o)
        BY <2>3 DEF C!ReleaseExists
      <4> QED
        BY <2>2, <2>3, <4>1, <4>2 DEF NoteCarries, C!At
    <3> QED
      BY <3>1, <3>2
  <2> QED
    BY <2>4, <2>5, <2>6, <2>7, <2>8, <2>9 DEF NoteInv, C!ViewsOnlyGrow
<1> QED
  BY <1>1, <1>3, <1>4 DEF C!CountView

LEMMA NoteStays ==
    ASSUME NoteInv, UNCHANGED C!vars
    PROVE  NoteInv' /\ IssuesGo
<1>1. NoteShapes /\ UNCHANGED <<goods, issue, daily, job>>
  BY DEF NoteInv, C!vars
<1>2. GoodsGo /\ IssuesGo /\ NoteShapes'
  BY <1>1, GoodsRest, IssuesRest DEF NoteShapes
<1> QED
  BY <1>1, <1>2, NoteRests

LEMMA NoteBegins == C!Init => NoteInv
<1> SUFFICES ASSUME C!Init PROVE NoteInv
  OBVIOUS
<1>1. PICK n : n = C!NoRequest /\ n = [f \in NoteFields |-> n[f]] /\ n.kind = "none"
  BY NoNote
<1>2. PICK g : g = C!NoProduct /\ g = [f \in GoodsFields |-> g[f]] /\ g.status = "none"
  BY NoRows
<1>3. PICK i : i = C!NoRelease /\ i = [f \in IssueFields |-> i[f]] /\ i.status = "none"
  BY NoRows
<1>4. goods = [p \in Products |-> g] /\ issue = [l \in Releases |-> i] /\ job = [r \in Reqs |-> n] /\ daily = [p \in Products |-> 0]
  BY <1>1, <1>2, <1>3 DEF C!Init
<1>5. NoteShapes
  BY <1>1, <1>2, <1>3, <1>4 DEF NoteShapes
<1>6. \A r \in Reqs : NoteCarries(r)
  BY <1>1, <1>4 DEF NoteCarries, C!At
<1> QED
  BY <1>2, <1>3, <1>4, <1>5, <1>6 DEF NoteInv, C!ProductExists, C!ReleaseExists, C!Statuses

LEMMA GrowBy == ASSUME NoteInv, IssuesGo PROVE C!ViewsOnlyGrow
<1> SUFFICES ASSUME NEW l \in Releases, C!ReleaseExists(l), issue'[l].status # "gone"
             PROVE  issue'[l].viewCount >= issue[l].viewCount
  BY DEF C!ViewsOnlyGrow
<1>1. issue[l].status # "none" /\ issue[l].viewCount \in Nat
  BY DEF C!ReleaseExists, C!Statuses, NoteInv
<1> QED
  BY <1>1 DEF IssuesGo

LEMMA NoteNext ==
    ASSUME NoteInv, [C!Next]_C!vars
    PROVE  NoteInv' /\ C!ViewsOnlyGrow
<1>1. CASE UNCHANGED C!vars
  BY <1>1, NoteStays, GrowBy
<1>2. CASE C!Browse
  BY <1>2, NoteStays, GrowBy DEF C!Browse
<1>3. ASSUME NEW r \in Reqs, C!Handle(r) \/ C!Fail(r) PROVE NoteInv' /\ C!ViewsOnlyGrow
  <2>1. CASE C!CreateProduct(r) \/ C!CheckProduct(r) \/ C!UpdateProduct(r) \/ C!DropProduct(r)
    BY <2>1, NoteProducts, GrowBy
  <2>2. CASE C!ReadProduct(r, "createRelease") \/ C!ReadProduct(r, "release")
    BY <2>2, NoteReads, GrowBy
  <2>3. CASE C!CreateRelease(r)
    BY <2>3, NoteCreates, GrowBy
  <2>4. CASE C!CheckRelease(r)
    BY <2>4, NoteChecks, GrowBy
  <2>5. CASE C!UpdateRelease(r)
    BY <2>5, NoteWrites, GrowBy
  <2>6. CASE C!Announce(r) \/ C!Fail(r)
    BY <2>6, NoteEnds, GrowBy
  <2>7. CASE C!DropRelease(r)
    BY <2>7, NoteDrops, GrowBy
  <2>8. CASE C!SeePage(r)
    BY <2>8, NoteSees, GrowBy
  <2>9. CASE C!CountView(r)
    BY <2>9, NoteCounts
  <2> QED
    BY <1>3, <2>1, <2>2, <2>3, <2>4, <2>5, <2>6, <2>7, <2>8, <2>9 DEF C!Handle
<1> QED
  BY <1>1, <1>2, <1>3 DEF C!Next

\* However many editors write back rows they read before others wrote, and whichever of them or of the
\* viewers' requests are cut short, the total on a product is the sum of its daily rows, no release has more
\* views than its product (CountersSurviveEdits), and no edit takes a view away from a release
\* (ViewsOnlyGrow): the updates name their columns (services/analytics.ts, routes/admin/products.ts and
\* releases.ts).
THEOREM CountersAgree == C!Spec => []C!CountersSurviveEdits /\ [][C!ViewsOnlyGrow]_C!vars
<1>1. C!Init => NoteInv
  BY NoteBegins
<1>2. NoteInv /\ [C!Next]_C!vars => NoteInv' /\ C!ViewsOnlyGrow
  BY NoteNext
<1>3. NoteInv => C!CountersSurviveEdits
  BY DEF NoteInv, C!CountersSurviveEdits
<1> QED
  BY <1>1, <1>2, <1>3, PTL DEF C!Spec

-----------------------------------------------------------------------------
(* The wiki *)

LEMMA NoPageRow ==
    /\ W!NoPage \in W!PageRow /\ [W!NoPage EXCEPT !.status = "gone"] \in W!PageRow
    /\ W!NoRequest \in W!Request
BY DEF W!NoPage, W!PageRow, W!NoRequest, W!Request, W!Statuses, W!Kinds

\* A request that goes on with a row.
LEMMA PageRequest ==
    ASSUME W!TypeOK, NEW r \in Reqs, NEW kind \in W!Kinds, NEW stage \in {"write", "promoted"}, NEW p \in Pages \cup {None},
           NEW row \in W!PageRow, W!Begin(r, kind, stage, p, row)
    PROVE  job' \in [Reqs -> W!Request] /\ job'[r].page = p
BY DEF W!TypeOK, W!Begin, W!Request

LEMMA PageRequestEnds ==
    ASSUME W!TypeOK, NEW r \in Reqs, W!End(r)
    PROVE  job' \in [Reqs -> W!Request] /\ job'[r] = W!NoRequest
BY NoPageRow DEF W!TypeOK, W!End

\* What a request that checks means to write is a row.
LEMMA PageChecks ==
    ASSUME W!TypeOK, NEW r \in Reqs, W!CheckCreate(r) \/ W!CheckEdit(r) \/ W!CheckMove(r)
    PROVE  W!TypeOK'
<1>1. CASE W!CheckCreate(r)
  <2>1. PICK product0 \in Products, parent \in Pages \cup {None}, status \in W!Statuses :
          W!Begin(r, "create", "write", None,
                  W!Stamped([W!NoPage EXCEPT !.product = product0, !.parent = parent], status))
    BY <1>1 DEF W!CheckCreate
  <2>2. W!Stamped([W!NoPage EXCEPT !.product = product0, !.parent = parent], status) \in W!PageRow
    BY DEF W!Stamped, W!NoPage, W!PageRow, W!Statuses
  <2> QED
    BY <1>1, <2>1, <2>2, PageRequest DEF W!CheckCreate, W!Kinds, W!TypeOK
<1>2. CASE W!CheckEdit(r)
  <2>1. PICK p \in Pages, status \in W!Statuses : W!Begin(r, "edit", "write", p, W!Stamped(page[p], status))
    BY <1>2 DEF W!CheckEdit
  <2>2. W!Stamped(page[p], status) \in W!PageRow
    BY DEF W!TypeOK, W!Stamped, W!PageRow, W!Statuses
  <2> QED
    BY <1>2, <2>1, <2>2, PageRequest DEF W!CheckEdit, W!Kinds, W!TypeOK
<1>3. CASE W!CheckMove(r)
  <2>1. PICK p \in Pages, parent \in Pages \cup {None} :
          W!Begin(r, "move", "write", p, [page[p] EXCEPT !.parent = parent])
    BY <1>3 DEF W!CheckMove
  <2>2. [page[p] EXCEPT !.parent = parent] \in W!PageRow
    BY DEF W!TypeOK, W!PageRow
  <2> QED
    BY <1>3, <2>1, <2>2, PageRequest DEF W!CheckMove, W!Kinds, W!TypeOK
<1> QED
  BY <1>1, <1>2, <1>3

\* What becomes of the pages in a step: a request writes one row and ends, the pages under one that is to be
\* deleted go back to the top level, a page goes, or nothing changes.
PageWritten(r) == /\ job[r].stage = "write" /\ job'[r] = W!NoRequest
                  /\ \E p \in Pages : page' = [page EXCEPT ![p] = job[r].row]
PagesPromoted == \A q \in Pages : page'[q] = page[q] \/ page'[q].parent = None
PageDeleted == \E p \in Pages : page' = [page EXCEPT ![p] = [W!NoPage EXCEPT !.status = "gone"]]
PagesStep == (\E r \in Reqs : PageWritten(r)) \/ PagesPromoted \/ PageDeleted

LEMMA PageActs ==
    ASSUME W!TypeOK, [W!Next]_W!vars
    PROVE  W!TypeOK' /\ PagesStep
<1>1. CASE UNCHANGED W!vars
  BY <1>1 DEF W!vars, W!TypeOK, PagesStep, PagesPromoted
<1>2. ASSUME NEW r \in Reqs, W!CheckCreate(r) \/ W!CheckEdit(r) \/ W!CheckMove(r)
      PROVE  W!TypeOK' /\ PagesStep
  <2>1. UNCHANGED page
    BY <1>2 DEF W!CheckCreate, W!CheckEdit, W!CheckMove
  <2> QED
    BY <1>2, <2>1, PageChecks DEF PagesStep, PagesPromoted
<1>3. ASSUME NEW r \in Reqs, W!CreatePage(r) \/ W!UpdatePage(r)
      PROVE  W!TypeOK' /\ PagesStep
  <2>1. job' \in [Reqs -> W!Request] /\ job'[r] = W!NoRequest /\ job[r].stage = "write"
    BY <1>3, PageRequestEnds DEF W!CreatePage, W!UpdatePage
  <2>2. job[r].row \in W!PageRow
    BY DEF W!TypeOK, W!Request
  <2>3. UNCHANGED page \/ \E p \in Pages : page' = [page EXCEPT ![p] = job[r].row]
    <3>1. CASE W!CreatePage(r)
      BY <3>1 DEF W!CreatePage
    <3>2. CASE W!UpdatePage(r)
      <4>1. UNCHANGED page \/ (W!Exists(job[r].page) /\ page' = [page EXCEPT ![job[r].page] = job[r].row])
        BY <3>2 DEF W!UpdatePage
      <4>2. job[r].page \in Pages \/ page' = page
        <5>1. CASE job[r].page \in Pages
          BY <5>1
        <5>2. CASE job[r].page \notin Pages
          <6> DEFINE new == [page EXCEPT ![job[r].page] = job[r].row]
          <6>1. page = [q \in Pages |-> page[q]]
            BY DEF W!TypeOK
          <6>2. new = [q \in Pages |-> page[q]]
            BY <5>2, <6>1
          <6> QED
            BY <4>1, <6>1, <6>2
        <5> QED
          BY <5>1, <5>2
      <4> QED
        BY <4>1, <4>2
    <3> QED
      BY <1>3, <3>1, <3>2
  <2>4. page' \in [Pages -> W!PageRow]
    BY <2>2, <2>3 DEF W!TypeOK
  <2> QED
    BY <2>1, <2>3, <2>4 DEF W!TypeOK, PagesStep, PageWritten, PagesPromoted
<1>4. ASSUME NEW r \in Reqs, W!BeginDelete(r)
      PROVE  W!TypeOK' /\ PagesStep
  <2>1. PICK p \in Pages : W!Begin(r, "delete", "promoted", p, W!NoPage)
    BY <1>4 DEF W!BeginDelete
  <2>2. job' \in [Reqs -> W!Request]
    BY <2>1, NoPageRow, PageRequest DEF W!Kinds
  <2>3. W!Promote(r)
    BY <1>4 DEF W!BeginDelete
  <2>4. \A q \in Pages : [page[q] EXCEPT !.parent = None] \in W!PageRow /\ [page[q] EXCEPT !.parent = None].parent = None
    BY DEF W!TypeOK, W!PageRow
  <2>5. page' \in [Pages -> W!PageRow] /\ PagesPromoted
    BY <2>3, <2>4 DEF W!Promote, W!TypeOK, PagesPromoted
  <2> QED
    BY <2>2, <2>5 DEF W!TypeOK, PagesStep
<1>5. ASSUME NEW r \in Reqs, W!DeletePage(r)
      PROVE  W!TypeOK' /\ PagesStep
  <2>1. job' \in [Reqs -> W!Request] /\ page' = [page EXCEPT ![job[r].page] = [W!NoPage EXCEPT !.status = "gone"]]
    BY <1>5, PageRequestEnds DEF W!DeletePage
  <2>2. page' \in [Pages -> W!PageRow]
    BY <2>1, NoPageRow DEF W!TypeOK
  <2>3. CASE job[r].page \in Pages
    <3>1. PICK p \in Pages : p = job[r].page
      BY <2>3
    <3>2. page' = [page EXCEPT ![p] = [W!NoPage EXCEPT !.status = "gone"]]
      BY <2>1, <3>1
    <3>3. PageDeleted
      BY <3>2, Zenon DEF PageDeleted
    <3> QED
      BY <2>1, <2>2, <3>3 DEF W!TypeOK, PagesStep
  <2>4. CASE job[r].page \notin Pages
    BY <2>1, <2>4 DEF W!TypeOK, PagesStep, PagesPromoted
  <2> QED
    BY <2>1, <2>2, <2>3, <2>4 DEF W!TypeOK
<1> QED
  BY <1>1, <1>2, <1>3, <1>4, <1>5 DEF W!Next

\* Pages that hang under one another: what the sidebar leaves out.
Ring(T, products) == \A q \in T : /\ q \in Pages /\ W!Exists(q) /\ page[q].product = products
                                  /\ page[q].parent \in T \ {q}

LEMMA LostInRings ==
    ASSUME NEW k, NEW p
    PROVE  p \in W!Lost(k) <=> \E T \in SUBSET Pages : p \in T /\ Ring(T, k)
<1> DEFINE U == W!PagesOf(k)
<1>1. U \subseteq Pages /\ \A q \in Pages : q \in U <=> W!Exists(q) /\ page[q].product = k
  BY DEF W!PagesOf
<1>2. \A q : W!IsRoot(q, U) <=> page[q].parent \notin U \ {q}
  BY DEF W!IsRoot
<1>3. p \in W!Lost(k) <=> p \in U /\ \E S \in SUBSET U :
          /\ \A q \in U : W!IsRoot(q, U) \/ page[q].parent \in S => q \in S
          /\ p \notin S
  BY DEF W!Lost, W!Shown
<1> HIDE DEF U
<1>4. ASSUME NEW S \in SUBSET U, p \in U, p \notin S, \A q \in U : W!IsRoot(q, U) \/ page[q].parent \in S => q \in S
      PROVE  \E T \in SUBSET Pages : p \in T /\ Ring(T, k)
  <2>1. Ring(U \ S, k)
    BY <1>1, <1>2, <1>4 DEF Ring
  <2> QED
    BY <1>1, <1>4, <2>1
<1>5. ASSUME NEW T \in SUBSET Pages, p \in T, Ring(T, k)
      PROVE  p \in U /\ \E S \in SUBSET U :
                /\ \A q \in U : W!IsRoot(q, U) \/ page[q].parent \in S => q \in S
                /\ p \notin S
  <2>1. T \subseteq U
    BY <1>1, <1>5 DEF Ring
  <2>2. \A q \in U : W!IsRoot(q, U) \/ page[q].parent \in U \ T => q \in U \ T
    BY <1>2, <1>5, <2>1 DEF Ring
  <2> QED
    BY <1>5, <2>1, <2>2
<1> QED
  BY <1>3, <1>4, <1>5

\* A ring whose pages were written by no step was there before.
LEMMA RingWasThere ==
    ASSUME NEW k, NEW T \in SUBSET Pages, Ring(T, k)', \A q \in T : page'[q] = page[q]
    PROVE  Ring(T, k)
BY DEF Ring, W!Exists

\* Whatever editors create, edit, move and delete at once, a page drops out of the sidebar only by a write
\* that puts a page under one that is there and under which it could not be put any more
\* (routes/admin/wiki.ts: the parent is read and checked a statement before).
THEOREM LostByCrossing ==
    ASSUME W!WikiAssumption PROVE W!Spec => []W!TypeOK /\ [][W!LostOnlyByCrossing]_W!vars
<1>1. W!Init => W!TypeOK
  BY NoPageRow DEF W!Init, W!TypeOK
<1>2. W!TypeOK /\ [W!Next]_W!vars => W!TypeOK'
  BY PageActs
<1>3. W!TypeOK /\ [W!Next]_W!vars => W!LostOnlyByCrossing
  <2> SUFFICES ASSUME W!TypeOK, [W!Next]_W!vars, NEW k \in Products, ~ (W!Lost(k)' \subseteq W!Lost(k))
               PROVE  \E r \in Reqs :
                         /\ job[r].stage = "write" /\ job'[r] = W!NoRequest
                         /\ job[r].row.parent # None /\ W!Exists(job[r].row.parent)
                         /\ ~ W!MayNest(job[r].row.product, job[r].page, job[r].row.parent)
    BY DEF W!LostOnlyByCrossing
  <2>1. None \notin Pages
    BY DEF W!WikiAssumption
  <2>2. PICK p : p \in W!Lost(k)' /\ p \notin W!Lost(k)
    OBVIOUS
  <2>3. PICK T \in SUBSET Pages : p \in T /\ Ring(T, k)'
    <3>1. (p \in W!Lost(k) <=> \E T \in SUBSET Pages : p \in T /\ Ring(T, k))'
      BY LostInRings, PTL
    <3> QED
      BY <2>2, <3>1
  <2>4. ~ \A q \in T : page'[q] = page[q]
    BY <2>2, <2>3, LostInRings, RingWasThere
  <2>5. \A q \in T : page'[q].parent \in T \ {q} /\ page'[q].parent # None /\ page'[q].status \in W!Statuses
    BY <2>1, <2>3 DEF Ring, W!Exists
  <2>6. PagesStep /\ page \in [Pages -> W!PageRow]
    BY PageActs DEF W!TypeOK
  <2>7. ~PagesPromoted
    BY <2>4, <2>5 DEF PagesPromoted
  <2>8. ~PageDeleted
    <3> SUFFICES ASSUME NEW d \in Pages, page' = [page EXCEPT ![d] = [W!NoPage EXCEPT !.status = "gone"]] PROVE FALSE
      BY DEF PageDeleted
    <3>1. page'[d].status = "gone" /\ \A q \in Pages : q # d => page'[q] = page[q]
      BY <2>6 DEF W!NoPage
    <3> QED
      BY <2>4, <2>5, <3>1 DEF W!Statuses
  <2>9. PICK r \in Reqs : PageWritten(r)
    BY <2>6, <2>7, <2>8 DEF PagesStep
  <2>10. PICK d \in Pages : page' = [page EXCEPT ![d] = job[r].row]
    BY <2>9 DEF PageWritten
  <2>11. page'[d] = job[r].row /\ \A q \in Pages : q # d => page'[q] = page[q]
    BY <2>6, <2>10
  <2>12. d \in T
    BY <2>4, <2>11
  <2> DEFINE up == job[r].row.parent
  <2>13. up \in T /\ up # d /\ up # None
    BY <2>5, <2>11, <2>12
  <2>14. page'[up] = page[up]
    BY <2>11, <2>13
  <2>15. W!Exists(up) /\ page[up].parent # None
    BY <2>5, <2>13, <2>14 DEF W!Exists
  <2>16. ~ W!MayNest(job[r].row.product, job[r].page, up)
    BY <2>13, <2>15 DEF W!MayNest
  <2> QED
    BY <2>9, <2>13, <2>15, <2>16 DEF PageWritten
<1> QED
  BY <1>1, <1>2, <1>3, PTL DEF W!Spec

=============================================================================
