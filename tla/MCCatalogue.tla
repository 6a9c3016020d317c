---------------------------- MODULE MCCatalogue ----------------------------
(***************************************************************************)
(* Instances for TLC of the catalogue of apps/marketplace: wiki pages,     *)
(* downloads, release notes, lists of requirements and reviews.  A         *)
(* behaviour is a behaviour of the instance named by `part`.               *)
(* ReleaseDownloads, about which there are proofs, is extended: while      *)
(* another part runs, its variables stay as they were; the variables of    *)
(* any other component hold None while it does not run.                    *)
(***************************************************************************)
EXTENDS ReleaseDownloads, TLC

CONSTANTS
    x1, x2, x3, \* interchangeable rows
    y1, y2      \* products, releases, or builds

VARIABLES part,
    page,                                    \* WikiPages
    daily, clock, sent, due,                 \* ReleaseCatalog
    obtained, review, report, notices, answers, \* ProductReviews
    entry,                                   \* ReleaseRequirements
    goods, issue, job                        \* of several of these four

Three == {x1, x2, x3}
Two == {y1, y2}
Interchangeable == Permutations(Three)

downloadVars == <<product, release, file, bucket, holders, ticket, req, served, everHeld>>
noteVars == <<daily, clock, sent, due>>
reviewVars == <<obtained, review, report, notices, answers>>
allVars == <<part, downloadVars, page, noteVars, reviewVars, entry, goods, issue, job>>

NoWiki == page = None
NoNotes == daily = None /\ clock = None /\ sent = None /\ due = None
NoReviews == obtained = None /\ review = None /\ report = None /\ notices = None /\ answers = None
NoLists == entry = None
NoGoods == goods = None
NoIssue == issue = None

-----------------------------------------------------------------------------
(* The instances *)

\* One editor who does everything, with the pages of two products.
OnePages == INSTANCE WikiPages WITH req <- job, Products <- Two, Pages <- Three, Reqs <- {"r1"}, Overlap <- TRUE,
                Duty <- "r1" :> {"create", "edit", "move", "delete"}
\* Two editors of one product, both of whom move pages.
ManyPages == INSTANCE WikiPages WITH req <- job, Products <- {"p1"}, Pages <- Three, Reqs <- {"r1", "r2"}, Overlap <- TRUE,
                Duty <- "r1" :> {"edit", "move"} @@ "r2" :> {"create", "move", "delete"}

Offer(mode, gates) == [published |-> TRUE, mode |-> mode, gatesPre |-> gates]
EveryMode == {Offer("free", TRUE), Offer("donation", TRUE), Offer("paid", FALSE)}
EveryRow == {[published |-> TRUE, pre |-> TRUE], [published |-> TRUE, pre |-> FALSE], [published |-> FALSE, pre |-> FALSE]}
\* A visitor fetches a build while it, its release and its price are edited.
Visiting == "r1" :> {"create", "upload", "patch", "delete"} @@ "r2" :> {"mint", "serve"} @@ "r3" :> {}
Visits == INSTANCE ReleaseDownloads WITH Offers <- EveryMode, Rows <- EveryRow, MayFail <- {"r2"}, Duty <- Visiting
OneBuild == file[y2] = NoFile /\ \A r \in Reqs : req[r].bytes # "b2" /\ ~req[r].check
\* Editors register, upload, publish and delete two builds.
Uploading == "r1" :> {"create", "patch", "delete"} @@ "r2" :> {"upload"} @@ "r3" :> {}
Uploads == INSTANCE ReleaseDownloads WITH MayFail <- {"r2"}, Duty <- Uploading
\* Two editors register builds of two releases, and one deletes some.
Registering == "r1" :> {"create", "delete"} @@ "r2" :> {"create"} @@ "r3" :> {}
Limits == INSTANCE ReleaseDownloads WITH Files <- Three, Releases <- {"l1", "l2"}, MayFail <- {"r2"}, Duty <- Registering
EveryDuty == [r \in {"r1", "r2", "r3"} |-> Visiting[r] \cup Uploading[r]]

Editing == {"product", "createRelease", "release"}
\* One editor of two products and two releases.
OneNotes == INSTANCE ReleaseCatalog WITH product <- goods, release <- issue, req <- job, Products <- Two, Releases <- {x1, x2}, Reqs <- {"r1"}, MayFail <- {},
                MaxStamp <- 3, MaxViews <- 0, Duty <- "r1" :> (Editing \cup {"dropProduct", "dropRelease"})
\* Two editors and a visitor of one product.
ManyNotes == INSTANCE ReleaseCatalog WITH product <- goods, release <- issue, req <- job, Products <- {"p1"}, Releases <- {"l1"}, Reqs <- {"r1", "r2", "r3"}, MayFail <- {"r2"},
                MaxStamp <- 1, MaxViews <- 1,
                Duty <- "r1" :> (Editing \cup {"dropProduct", "dropRelease"}) @@ "r2" :> {"product", "release"} @@ "r3" :> {"view"}

\* Two tabs of a reviewer and a moderator, while releases come and go.  No day is set: of the releases that
\* are candidates, any may come first.
Tabs == INSTANCE ProductReviews WITH release <- issue, req <- job, Accounts <- {"a1"}, Reviews <- {x1, x2}, Releases <- Two, Channels <- {"release"},
                Reqs <- {"r1", "r2", "r3"}, Days <- {0}, MaxStamp <- 2, MaxCount <- 1,
                Duty <- "r1" :> {"put", "withdraw"} @@ "r2" :> {"put"} @@ "r3" :> {"hide"}
\* Reports and answers, handled one request at a time.
Desk == INSTANCE ProductReviews WITH release <- issue, req <- job, Accounts <- Two, Reviews <- {"i1"}, Releases <- {"l1"}, Channels <- {"release"},
                Reqs <- {"r1"}, Days <- {0}, MaxStamp <- 1, MaxCount <- 2,
                Duty <- "r1" :> {"put", "hide", "report", "resolve", "reply", "unreply", "drop"}

\* Two editors add; one of them removes, and the other renames and reorders.
Lists == INSTANCE ReleaseRequirements WITH req <- job, Releases <- Two, Entries <- Three, Names <- {"n1", "n2", "n3"}, Positions <- {0, 1},
                Reqs <- {"r1", "r2"}, Max <- 1,
                Duty <- "r1" :> {"create", "delete"} @@ "r2" :> {"create", "patch", "reorder"}

ASSUME OnePages!WikiAssumption /\ ManyPages!WikiAssumption
ASSUME Visits!DownloadsAssumption /\ Limits!DownloadsAssumption /\ Duty = EveryDuty
ASSUME OneNotes!CatalogAssumption /\ ManyNotes!CatalogAssumption
ASSUME Tabs!ReviewsAssumption /\ Desk!ReviewsAssumption /\ Lists!RequirementsAssumption

-----------------------------------------------------------------------------
(* The behaviours *)

MCInit ==
    /\ \/ /\ \/ part = "one wiki" /\ OnePages!Init
             \/ part = "many wiki" /\ ManyPages!Init
          /\ NoNotes /\ NoReviews /\ NoLists /\ NoGoods /\ NoIssue
       \/ /\ part \in {"visits", "uploads", "limits"}
          /\ NoWiki /\ NoNotes /\ NoReviews /\ NoLists /\ NoGoods /\ NoIssue /\ job = None
       \/ /\ \/ part = "one notes" /\ OneNotes!Init
             \/ part = "many notes" /\ ManyNotes!Init
          /\ NoWiki /\ NoReviews /\ NoLists
       \/ /\ \/ part = "tabs" /\ Tabs!Init
             \/ part = "desk" /\ Desk!Init
          /\ NoWiki /\ NoNotes /\ NoLists /\ NoGoods
       \/ /\ part = "lists" /\ Lists!Init
          /\ NoWiki /\ NoNotes /\ NoReviews /\ NoGoods /\ NoIssue
    /\ IF part = "limits" THEN Limits!Init ELSE Init

MCNext ==
    /\ UNCHANGED part
    /\ \/ /\ \/ part = "one wiki" /\ OnePages!Next
             \/ part = "many wiki" /\ ManyPages!Next
          /\ UNCHANGED <<downloadVars, noteVars, reviewVars, entry, goods, issue>>
       \/ /\ \/ part = "visits" /\ Visits!Next /\ OneBuild'
             \/ part = "uploads" /\ Uploads!Next /\ holders' = holders
             \/ part = "limits" /\ Limits!Next /\ holders' = holders
          /\ UNCHANGED <<page, noteVars, reviewVars, entry, goods, issue, job>>
       \/ /\ \/ part = "one notes" /\ OneNotes!Next
             \/ part = "many notes" /\ ManyNotes!Next
          /\ UNCHANGED <<downloadVars, page, reviewVars, entry>>
       \/ /\ \/ part = "tabs" /\ Tabs!Next
             \/ part = "desk" /\ Desk!Next
          /\ UNCHANGED <<downloadVars, page, noteVars, entry, goods>>
       \/ /\ part = "lists" /\ Lists!Next
          /\ UNCHANGED <<downloadVars, page, noteVars, reviewVars, goods, issue>>

MCSpec == MCInit /\ [][MCNext]_allVars

-----------------------------------------------------------------------------
(* Properties, with those of ReleaseDownloads *)

\* What several people write stays and adds up.  With one editor every page is in the editors' sidebar and
\* every published one in the readers', the tree is two levels deep and a page hangs under an existing page
\* of its own product (services/wiki.ts); of one editor too, the holders of a release are told of its first
\* publication once, and of several its counters agree with the daily rows, under edits computed from stale
\* rows (services/analytics.ts); a person has one review whatever two tabs send; one at a time, the report
\* count of a review is its open reports, and the reviewer is told once of each first answer
\* (services/reviews.ts); builds and requirements pass their limits by no more than the additions that
\* overlapped, and requirements are named once (routes/admin/files.ts, routes/admin/compatibility.ts).
CatalogueHolds ==
    /\ part = "one wiki" => OnePages!TypeOK /\ OnePages!NothingLost /\ OnePages!TwoLevels /\ OnePages!ParentsExist
    /\ part = "one notes" => OneNotes!TypeOK /\ OneNotes!AnnouncedOnce
    /\ part = "many notes" => ManyNotes!CountersSurviveEdits
    /\ part \in {"visits", "uploads"} => TypeOK
    /\ part = "limits" => Limits!ReleasesAreBounded
    /\ part = "tabs" => Tabs!OneEach
    /\ part = "desk" => Desk!TypeOK /\ Desk!CountIsOpenReports /\ Desk!ToldOncePerAnswer
    /\ part = "lists" => Lists!TypeOK /\ Lists!ListsAreBounded /\ Lists!NamesAreUnique


=============================================================================
