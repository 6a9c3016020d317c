--------------------------- MODULE ReleaseDownloads ---------------------------
(***************************************************************************)
(* The builds of one product of apps/marketplace: their rows, their bytes  *)
(* in the bucket, the signed tickets that say who may fetch them, and the  *)
(* downloads served.  Rows and bytes live in two stores that no            *)
(* transaction spans, and a ticket is minted from four reads.  How an      *)
(* account comes to hold an approved purchase is MarketplaceSales; here    *)
(* `holders` changes at any moment.                                        *)
(***************************************************************************)
EXTENDS Naturals, FiniteSets

CONSTANTS
    Accounts,   \* accounts that may be signed in
    Releases,   \* identifiers of rows of `product_releases`
    Files,      \* identifiers of rows of `product_release_files`
    Tickets,    \* download tickets that may be minted
    Bytes,      \* contents an editor may upload
    Offers,     \* bound: the rows an edit of the product may leave
    Rows,       \* bound: the rows an edit of a release may leave
    Reqs,       \* requests in flight, each served by one invocation
    None,       \* the absent value
    MaxFiles,   \* MAX_FILES_PER_RELEASE
    Duty,       \* bound: the endpoints each request may be sent to
    MayFail     \* bound: the requests whose invocation may be cut short

Kinds == {"create", "upload", "patch", "delete", "mint", "serve"}

VARIABLES
    product,    \* the row of `products`: its status and its pricing
    release,    \* table product_releases
    file,       \* table product_release_files
    bucket,     \* the RELEASES bucket: the object of each file
    holders,    \* the accounts with an approved purchase (findActivePurchase)
    ticket,     \* the tickets minted; they are signed, not stored
    req,        \* the invocations
    served,     \* history: the downloads served, with what was known of them
    everHeld    \* history: the accounts that have been holders

vars == <<product, release, file, bucket, holders, ticket, req, served, everHeld>>
catalogue == <<product, release>>

-----------------------------------------------------------------------------
Modes == {"free", "donation", "paid"}
Product == [published : BOOLEAN, mode : Modes, gatesPre : BOOLEAN]
ReleaseRow == [published : BOOLEAN, pre : BOOLEAN]
FileRow == [status : {"none", "draft", "published", "gone"}, release : Releases \cup {None},
            uploaded : BOOLEAN, checksum : Bytes \cup {None}]
NoFile == [status |-> "none", release |-> None, uploaded |-> FALSE, checksum |-> None]

\* `free` (the build was open to all when the ticket was minted) and `waited` are history.
TicketRecord == [state : {"none", "early", "good", "expired"}, file : Files \cup {None},
                 account : Accounts \cup {None}, paid : BOOLEAN, free : BOOLEAN,
                 waited : BOOLEAN]
NoTicket == [state |-> "none", file |-> None, account |-> None, paid |-> FALSE,
             free |-> FALSE, waited |-> FALSE]

Stages == {"idle", "insert", "put", "record", "remove", "write", "row",
           "file", "release", "access", "object"}
Request == [kind : Kinds \cup {"none"}, stage : Stages, file : Files \cup {None},
            row : FileRow, product : Product, pre : BOOLEAN, account : Accounts \cup {None},
            ticket : Tickets \cup {None}, bytes : Bytes \cup {None}, check : BOOLEAN]
NoProduct == [published |-> FALSE, mode |-> "free", gatesPre |-> FALSE]
NoRequest == [kind |-> "none", stage |-> "idle", file |-> None, row |-> NoFile,
              product |-> NoProduct, pre |-> FALSE, account |-> None, ticket |-> None,
              bytes |-> None, check |-> FALSE]

\* A download that went out, as its ticket and its row were read.
Sending == [ticket : Tickets, file : Files, row : FileRow, bytes : Bytes]

ASSUME DownloadsAssumption ==
    /\ None \notin Accounts \cup Releases \cup Files \cup Tickets \cup Bytes
    /\ IsFiniteSet(Files) /\ IsFiniteSet(Reqs) /\ MaxFiles \in Nat \ {0}
    /\ Duty \in [Reqs -> SUBSET Kinds]
    /\ Offers \subseteq Product /\ Rows \subseteq ReleaseRow

TypeOK ==
    /\ product \in Product
    /\ release \in [Releases -> ReleaseRow]
    /\ file \in [Files -> FileRow]
    /\ bucket \in [Files -> Bytes \cup {None}]
    /\ holders \subseteq Accounts
    /\ ticket \in [Tickets -> TicketRecord]
    /\ req \in [Reqs -> Request]
    /\ served \subseteq Sending /\ everHeld \subseteq Accounts

Exists(f) == file[f].status \in {"draft", "published"}
FilesOf(l) == {f \in Files : Exists(f) /\ file[f].release = l}

Idle(r, kind) == req[r].stage = "idle" /\ kind \in Duty[r]
At(r, kind, stage) == req[r].kind = kind /\ req[r].stage = stage
Begin(r, q) == req' = [req EXCEPT ![r] = q]
Goto(r, stage) == req' = [req EXCEPT ![r].stage = stage]
End(r) == req' = [req EXCEPT ![r] = NoRequest]

-----------------------------------------------------------------------------
(* The editors' endpoints.  An operator Faulty<Name> before <Name> is its definition   *)
(* with a defect, which the properties are checked to detect.                          *)

\* The catalogue is edited, and sales come and go, while everything else is under way.
EditProduct ==
    /\ product' \in Offers
    /\ UNCHANGED <<release, file, bucket, holders, ticket, req, served, everHeld>>
EditRelease ==
    /\ \E l \in Releases, row \in Rows : release' = [release EXCEPT ![l] = row]
    /\ UNCHANGED <<product, file, bucket, holders, ticket, req, served, everHeld>>
Entitle ==
    /\ \E a \in Accounts :
        \/ holders' = holders \cup {a} /\ everHeld' = everHeld \cup {a}
        \/ holders' = holders \ {a} /\ everHeld' = everHeld
    /\ UNCHANGED <<catalogue, file, bucket, ticket, req, served>>

FaultyFits(l) == Cardinality(FilesOf(l)) <= MaxFiles

Fits(l) == Cardinality(FilesOf(l)) < MaxFiles

\* POST .../files registers a row without bytes; the status sent is not looked at.
CheckCreate(r) ==
    /\ Idle(r, "create")
    /\ \E l \in Releases, status \in {"draft", "published"} :
        /\ Fits(l)
        /\ Begin(r, [NoRequest EXCEPT !.kind = "create", !.stage = "insert",
                                      !.row = [NoFile EXCEPT !.status = status, !.release = l]])
    /\ UNCHANGED <<catalogue, file, bucket, holders, ticket, served, everHeld>>

\* The insert, which the unique index on (release, filename) may refuse.
CreateFile(r) ==
    /\ At(r, "create", "insert")
    /\ \/ \E f \in Files : file[f].status = "none" /\ file' = [file EXCEPT ![f] = req[r].row]
       \/ UNCHANGED file
    /\ End(r)
    /\ UNCHANGED <<catalogue, bucket, holders, ticket, served, everHeld>>

\* PUT .../content, up to the upload.  `check` is whether the editor declared a checksum.
CheckUpload(r) ==
    /\ Idle(r, "upload")
    /\ \E f \in Files, b \in Bytes, check \in BOOLEAN :
        /\ Exists(f)
        /\ Begin(r, [NoRequest EXCEPT !.kind = "upload", !.stage = "put", !.file = f,
                                      !.row = file[f], !.bytes = b, !.check = check])
    /\ UNCHANGED <<catalogue, file, bucket, holders, ticket, served, everHeld>>

\* The bucket takes the bytes, or refuses them (a checksum that is not theirs); bytes that turn
\* out empty or too many are taken out again.
PutObject(r) ==
    /\ At(r, "upload", "put")
    /\ \/ bucket' = [bucket EXCEPT ![req[r].file] = req[r].bytes] /\ Goto(r, "record")
       \/ bucket' = [bucket EXCEPT ![req[r].file] = req[r].bytes] /\ Goto(r, "remove")
       \/ UNCHANGED bucket /\ End(r)
    /\ UNCHANGED <<catalogue, file, holders, ticket, served, everHeld>>

RemoveObject(r) ==
    /\ At(r, "upload", "remove")
    /\ bucket' = [bucket EXCEPT ![req[r].file] = None]
    /\ End(r)
    /\ UNCHANGED <<catalogue, file, holders, ticket, served, everHeld>>

FaultyRecordedChecksum(q) == IF q.check THEN q.bytes ELSE q.file

\* Without a declared checksum the row keeps the one it was read with.
RecordedChecksum(q) == IF q.check THEN q.bytes ELSE q.row.checksum

RecordUpload(r) ==
    /\ At(r, "upload", "record")
    /\ LET q == req[r] IN
        file' = [file EXCEPT ![q.file] =
                    IF Exists(q.file)
                    THEN [@ EXCEPT !.uploaded = TRUE,
                                   !.checksum = RecordedChecksum(q)]
                    ELSE @]
    /\ End(r)
    /\ UNCHANGED <<catalogue, bucket, holders, ticket, served, everHeld>>

\* A file with no content cannot be published by an edit.
MayPublish(row, status) == status = "published" => row.uploaded

\* PATCH .../files/:id
CheckPatch(r) ==
    /\ Idle(r, "patch")
    /\ \E f \in Files, status \in {"draft", "published"} :
        /\ Exists(f) /\ MayPublish(file[f], status)
        /\ Begin(r, [NoRequest EXCEPT !.kind = "patch", !.stage = "write", !.file = f,
                                      !.row = [file[f] EXCEPT !.status = status]])
    /\ UNCHANGED <<catalogue, file, bucket, holders, ticket, served, everHeld>>

\* The update sets the columns of the form and leaves those of the upload alone.
PatchFile(r) ==
    /\ At(r, "patch", "write")
    /\ LET q == req[r] IN
        file' = [file EXCEPT ![q.file].status = IF Exists(q.file) THEN q.row.status ELSE @]
    /\ End(r)
    /\ UNCHANGED <<catalogue, bucket, holders, ticket, served, everHeld>>

\* DELETE .../files/:id: the object first, the row second.
DeleteObject(r) ==
    /\ Idle(r, "delete")
    /\ \E f \in Files :
        /\ Exists(f)
        /\ bucket' = [bucket EXCEPT ![f] = None]
        /\ Begin(r, [NoRequest EXCEPT !.kind = "delete", !.stage = "row", !.file = f])
    /\ UNCHANGED <<catalogue, file, holders, ticket, served, everHeld>>

DeleteRow(r) ==
    /\ At(r, "delete", "row")
    /\ file' = [file EXCEPT ![req[r].file] = [NoFile EXCEPT !.status = "gone"]]
    /\ End(r)
    /\ UNCHANGED <<catalogue, bucket, holders, ticket, served, everHeld>>

\* An invocation cut short between two statements.
Fail(r) ==
    /\ r \in MayFail /\ req[r].stage # "idle"
    /\ End(r)
    /\ UNCHANGED <<catalogue, file, bucket, holders, ticket, served, everHeld>>

-----------------------------------------------------------------------------
(* resolveAccess: whether an account may download *)

AcceptsPayment(p) == p.mode # "free"
RequiresPayment(p) == p.mode = "paid"

FaultyChannelGated(p, pre) == p.gatesPre /\ pre /\ p.mode = "paid"

\* The setting means nothing on a free product.
ChannelGated(p, pre) == p.mode # "free" /\ p.gatesPre /\ pre

FaultyHasPaid(p, account) == account \in holders \/ ~RequiresPayment(p)

\* Nobody is looked up for a product that takes no payments.
HasPaid(p, account) == AcceptsPayment(p) /\ account \in holders

MayDownload(p, pre, paid) == (RequiresPayment(p) \/ ChannelGated(p, pre)) => paid

\* A free product makes no offer to read, and who has paid has read it.
Cooldown(p, paid) == AcceptsPayment(p) /\ ~paid

-----------------------------------------------------------------------------
(* POST /products/:slug/files/:fileId/download *)

BeginMint(r) ==
    /\ Idle(r, "mint") /\ product.published
    /\ \E a \in Accounts \cup {None}, f \in Files :
        Begin(r, [NoRequest EXCEPT !.kind = "mint", !.stage = "file", !.product = product,
                                   !.account = a, !.file = f])
    /\ UNCHANGED <<catalogue, file, bucket, holders, ticket, served, everHeld>>

\* A file with no bytes yet is not a file.
Fetchable(row) == row.status = "published" /\ row.uploaded

ReadFile(r) ==
    /\ At(r, "mint", "file")
    /\ IF Fetchable(file[req[r].file])
       THEN Begin(r, [req[r] EXCEPT !.stage = "release", !.row = file[req[r].file]])
       ELSE End(r)
    /\ UNCHANGED <<catalogue, file, bucket, holders, ticket, served, everHeld>>

\* A published file on an unpublished release is still not public.
ReadRelease(r) ==
    /\ At(r, "mint", "release")
    /\ LET l == req[r].row.release IN
        IF release[l].published
        THEN Begin(r, [req[r] EXCEPT !.stage = "access", !.pre = release[l].pre])
        ELSE End(r)
    /\ UNCHANGED <<catalogue, file, bucket, holders, ticket, served, everHeld>>

\* The gate, and the ticket signed with what it decided.
MintDownloadTicket(r) ==
    /\ At(r, "mint", "access")
    /\ LET q == req[r]
           paid == HasPaid(q.product, q.account)
       IN  IF MayDownload(q.product, q.pre, paid)
           THEN \E t \in Tickets :
                  /\ ticket[t].state = "none"
                  /\ ticket' = [ticket EXCEPT ![t] =
                        [state |-> IF Cooldown(q.product, paid) THEN "early" ELSE "good",
                         file |-> q.file, account |-> q.account, paid |-> paid,
                         free |-> ~RequiresPayment(q.product) /\ ~(q.product.gatesPre /\ q.pre
                                                                   /\ AcceptsPayment(q.product)),
                         waited |-> ~AcceptsPayment(q.product)]]
           ELSE UNCHANGED ticket
    /\ End(r)
    /\ UNCHANGED <<catalogue, file, bucket, holders, served, everHeld>>

\* nbf and exp pass.
TimePasses(t) ==
    /\ \/ ticket[t].state = "early"
          /\ ticket' = [ticket EXCEPT ![t].state = "good", ![t].waited = TRUE]
       \/ ticket[t].state = "good" /\ ticket' = [ticket EXCEPT ![t].state = "expired"]
    /\ UNCHANGED <<catalogue, file, bucket, holders, req, served, everHeld>>

-----------------------------------------------------------------------------
(* GET /downloads/:ticket *)

FaultyVerified(t) == ticket[t].state \in {"early", "good"}

\* verifyDownloadTicket
Verified(t) == ticket[t].state = "good"

BeginServe(r) ==
    /\ Idle(r, "serve")
    /\ \E t \in Tickets :
        /\ Verified(t)
        /\ Fetchable(file[ticket[t].file])
        /\ Begin(r, [NoRequest EXCEPT !.kind = "serve", !.stage = "object", !.ticket = t,
                                      !.file = ticket[t].file, !.row = file[ticket[t].file]])
    /\ UNCHANGED <<catalogue, file, bucket, holders, ticket, served, everHeld>>

\* A row whose object is missing answers 404; otherwise the bytes go out with the checksum of
\* the row, and the download is counted and logged.
Serve(r) ==
    /\ At(r, "serve", "object")
    /\ LET q == req[r] IN
        served' = IF bucket[q.file] = None THEN served
                  ELSE served \cup {[ticket |-> q.ticket, file |-> q.file, row |-> q.row,
                                     bytes |-> bucket[q.file]]}
    /\ End(r)
    /\ UNCHANGED <<catalogue, file, bucket, holders, ticket, everHeld>>

-----------------------------------------------------------------------------
Init ==
    /\ product = NoProduct
    /\ release = [l \in Releases |-> [published |-> FALSE, pre |-> FALSE]]
    /\ file = [f \in Files |-> NoFile]
    /\ bucket = [f \in Files |-> None]
    /\ holders = {} /\ everHeld = {}
    /\ ticket = [t \in Tickets |-> NoTicket]
    /\ req = [r \in Reqs |-> NoRequest]
    /\ served = {}

Edit(r) ==
    \/ CheckCreate(r) \/ CreateFile(r)
    \/ CheckUpload(r) \/ PutObject(r) \/ RemoveObject(r) \/ RecordUpload(r)
    \/ CheckPatch(r) \/ PatchFile(r)
    \/ DeleteObject(r) \/ DeleteRow(r)

Download(r) ==
    \/ BeginMint(r) \/ ReadFile(r) \/ ReadRelease(r) \/ MintDownloadTicket(r)
    \/ BeginServe(r) \/ Serve(r)

Next ==
    \/ EditProduct \/ EditRelease \/ Entitle
    \/ \E r \in Reqs : Edit(r) \/ Download(r) \/ Fail(r)
    \/ \E t \in Tickets : TimePasses(t)

Spec == Init /\ [][Next]_vars

-----------------------------------------------------------------------------
(* Properties *)

Minted == {t \in Tickets : ticket[t].state # "none"}

\* A build that is behind the purchase is given to who paid, and to nobody else
\* (services/access.ts): the account of every such ticket has held an approved purchase, however
\* the price, the channel and the purchase changed while the ticket was being decided.
TicketsAreEarned == \A t \in Minted : ticket[t].free \/ ticket[t].account \in everHeld

\* Nobody skips the cooldown but who paid (lib/downloads.ts): bytes that went out before the wait
\* was over went to an account that has held a purchase.
NobodySkipsTheWait == \A d \in served :
    ticket[d.ticket].waited \/ ticket[d.ticket].account \in everHeld

\* A release carries MAX_FILES_PER_RELEASE files, and one more for each further registration that overlapped
\* (routes/admin/files.ts): those who counted before one another inserted all get in, and nobody who
\* counts afterwards does, whatever is uploaded, published, deleted and cut short meanwhile.
Creators == {r \in Reqs : "create" \in Duty[r]}
ReleasesAreBounded == \A l \in Releases : Cardinality(FilesOf(l)) < MaxFiles + Cardinality(Creators)

\* At most MAX_FILES_PER_RELEASE files on one release (lib/files.ts), whoever registers them.
LimitIsKept == \A l \in Releases : Cardinality(FilesOf(l)) <= MaxFiles

\* The comment of DELETE .../files/:id (routes/admin/files.ts) would rather have an object with no
\* row than a row with no object: a row with content whose deletion is not under way has its bytes.
RowsHaveBytes == \A f \in Files :
    Exists(f) /\ file[f].uploaded => \/ bucket[f] # None
                                     \/ \E r \in Reqs : req[r].kind = "delete" /\ req[r].file = f

\* The checksum on a row (db/schema.ts) is that of the object, whenever no upload is under way.
ChecksumIsOfTheBytes == \A f \in Files :
    Exists(f) /\ file[f].checksum # None /\ bucket[f] # None =>
        \/ file[f].checksum = bucket[f]
        \/ \E r \in Reqs : req[r].kind = "upload" /\ req[r].file = f

\* The bytes under one id never change (routes/downloads.ts): two downloads of a file are the same.
BytesNeverChange == \A d, e \in served : d.file = e.file => d.bytes = e.bytes

=============================================================================
