---------------------------- MODULE ProductReviews ----------------------------
(***************************************************************************)
(* The reviews of one product of apps/marketplace: one per account,        *)
(* anchored to the release the reviewer had, moderated and answered by     *)
(* editors, reported by readers, and averaged over the window that the     *)
(* last release marked `resets_rating` opened.                             *)
(***************************************************************************)
EXTENDS Naturals, FiniteSets, FiniteSetsExt

CONSTANTS
    Accounts,   \* accounts that may write or report
    Reviews,    \* identifiers of rows of `product_reviews`
    Releases,   \* identifiers of rows of `product_releases`
    Channels,   \* the channels releases are on; "release" is the stable one
    Reqs,       \* requests in flight, each served by one invocation
    None,       \* the absent value
    Duty,       \* bound: the endpoints each request may be sent to
    Days,       \* bound: the days an editor may say a release shipped, 0 for none
    MaxStamp,   \* bound: the number of first publications
    MaxCount    \* bound: the answers and the notices about one review

Stable == "release"
Kinds == {"put", "withdraw", "report", "resolve", "hide", "drop", "reply", "unreply"}

ReviewsAssumption ==
    /\ None \notin Accounts \cup Reviews \cup Releases
    /\ Days \subseteq Nat /\ 0 \in Days /\ MaxStamp \in Nat /\ MaxCount \in Nat
    /\ Duty \in [Reqs -> SUBSET Kinds]

VARIABLES
    release,    \* table product_releases
    obtained,   \* the accounts that bought the product or downloaded it signed in
    review,     \* table product_reviews
    report,     \* table product_review_reports: the report of each account on each review
    req,        \* the invocations
    notices,    \* history: how often the reviewer was told of an answer
    answers     \* history: how often a review without an answer got one

vars == <<release, obtained, review, report, req, notices, answers>>

-----------------------------------------------------------------------------
Stamps == 0 .. MaxStamp
ReleaseRow == [status : {"none", "draft", "published", "gone"}, channel : Channels \cup {None},
               resets : BOOLEAN, publishedAt : Stamps, releasedAt : Days]
NoRelease == [status |-> "none", channel |-> None, resets |-> FALSE, publishedAt |-> 0, releasedAt |-> 0]

\* `release` is the anchor, None once it is deleted, and `anchoredAt` its date, which stays.
ReviewRow == [status : {"none", "visible", "hidden", "gone"}, user : Accounts \cup {None},
              release : Releases \cup {None}, anchoredAt : Stamps, reportCount : Nat,
              replied : BOOLEAN]
NoReview == [status |-> "none", user |-> None, release |-> None, anchoredAt |-> 0,
             reportCount |-> 0, replied |-> FALSE]

Request == [kind : Kinds \cup {"none"}, stage : {"idle", "anchor", "write", "count", "total", "tell"},
            account : Accounts \cup {None}, anchor : Releases \cup {None}, stamp : Stamps,
            review : Reviews \cup {None}, seen : ReviewRow, total : Nat]
NoRequest == [kind |-> "none", stage |-> "idle", account |-> None, anchor |-> None, stamp |-> 0,
              review |-> None, seen |-> NoReview, total |-> 0]

TypeOK ==
    /\ release \in [Releases -> ReleaseRow]
    /\ obtained \subseteq Accounts
    /\ review \in [Reviews -> ReviewRow]
    /\ report \in [Reviews -> [Accounts -> {"none", "open", "closed"}]]
    /\ req \in [Reqs -> Request]
    /\ notices \in [Reviews -> Nat] /\ answers \in [Reviews -> Nat]

Exists(i) == review[i].status \in {"visible", "hidden"}
Own(a) == {i \in Reviews : Exists(i) /\ review[i].user = a}
Public(l) == release[l].status = "published"
Stamped == {release[l].publishedAt : l \in Releases}

Idle(r, kind) == req[r].stage = "idle" /\ kind \in Duty[r]
At(r, kind, stage) == req[r].kind = kind /\ req[r].stage = stage
Begin(r, q) == req' = [req EXCEPT ![r] = q]
End(r) == req' = [req EXCEPT ![r] = NoRequest]
table == <<release, obtained>>

-----------------------------------------------------------------------------
(* The rating.  An operator Faulty<Name> before <Name> is its definition with a defect,  *)
(* which the properties are checked to detect.                                           *)

\* ratingCutoff: the window opens with the last published release that resets the rating.
Cutoff == Max({0} \cup {release[l].publishedAt : l \in {x \in Releases : Public(x) /\ release[x].resets}})

\* The reviews the average is over.
Counted == {i \in Reviews : review[i].status = "visible" /\ review[i].anchoredAt >= Cutoff}

\* Every visible review, before the window or not.
Visible == {i \in Reviews : review[i].status = "visible"}

\* The newest release first, by the day it shipped; one without a day comes last.
AnchorAmong(set) == {l \in set : \A o \in set : release[o].releasedAt <= release[l].releasedAt}

\* resolveAnchorRelease: the newest stable release, or the newest there is without one.
AnchorRelease ==
    LET public == {l \in Releases : Public(l)}
        stable == {l \in public : release[l].channel = Stable}
    IN  AnchorAmong(IF stable # {} THEN stable ELSE public)

-----------------------------------------------------------------------------
(* The releases of the product, as routes/admin/releases.ts leaves them (ReleaseCatalog) *)

\* POST and PATCH: an editor may set the mark, the channel and the day it shipped at any time; the date of
\* the first publication is kept.
SaveRelease ==
    /\ \E l \in Releases, status \in {"draft", "published"}, resets \in BOOLEAN, channel \in Channels, day \in Days :
        LET first == status = "published" /\ release[l].publishedAt = 0 IN
        /\ release[l].status # "gone"
        /\ first => Max(Stamped) < MaxStamp
        /\ release' = [release EXCEPT ![l] =
              [status |-> status, channel |-> channel, resets |-> resets, releasedAt |-> day,
               publishedAt |-> IF first THEN Max(Stamped) + 1 ELSE @.publishedAt]]
    /\ UNCHANGED <<obtained, review, report, req, notices, answers>>

FaultyUnanchored(row, l) ==
    IF row.release = l THEN [row EXCEPT !.release = None, !.anchoredAt = 0] ELSE row

DanglingUnanchored(row, l) == IF row.release = l THEN [row EXCEPT !.release = "gone"] ELSE row

\* The reviews of a deleted release outlive it: the foreign key is set null.
Unanchored(row, l) == IF row.release = l THEN [row EXCEPT !.release = None] ELSE row

DropRelease ==
    /\ \E l \in Releases :
        /\ release[l].status \in {"draft", "published"}
        /\ release' = [release EXCEPT ![l] = [NoRelease EXCEPT !.status = "gone", !.publishedAt = release[l].publishedAt]]
        /\ review' = [i \in Reviews |-> Unanchored(review[i], l)]
    /\ UNCHANGED <<obtained, report, req, notices, answers>>

Obtain ==
    /\ \E a \in Accounts : obtained' = obtained \cup {a}
    /\ UNCHANGED <<release, review, report, req, notices, answers>>

-----------------------------------------------------------------------------
(* What an account does with its review *)

\* PUT .../reviews: eligibility and anchor,
ReadAnchor(r) ==
    /\ Idle(r, "put")
    /\ \E a \in obtained, l \in AnchorRelease :
        Begin(r, [NoRequest EXCEPT !.kind = "put", !.stage = "anchor", !.account = a, !.anchor = l,
                                   !.stamp = release[l].publishedAt])
    /\ UNCHANGED <<table, review, report, notices, answers>>

\* then the review there is,
ReadOwn(r) ==
    /\ At(r, "put", "anchor")
    /\ LET own == Own(req[r].account) IN
        \E i \in IF own = {} THEN {None} ELSE own :
            Begin(r, [req[r] EXCEPT !.stage = "write", !.review = i,
                         !.seen = IF i = None THEN NoReview ELSE review[i]])
    /\ UNCHANGED <<table, review, report, notices, answers>>

FaultyRewritten(row, q) == [q.seen EXCEPT !.release = q.anchor, !.anchoredAt = q.stamp]

\* The columns of an edit: those of the text and the anchor, not those of the moderation.
Rewritten(row, q) == [row EXCEPT !.anchoredAt = q.stamp,
                                 !.release = IF release[q.anchor].status = "gone" THEN @ ELSE q.anchor]

FaultyMayInsert(a) == TRUE

\* The unique index on (product, account).
MayInsert(a) == Own(a) = {}

\* and the write.  A reference to a release that is gone by now is refused.
WriteReview(r) ==
    /\ At(r, "put", "write")
    /\ LET q == req[r] IN
        \/ /\ q.review # None
           /\ review' = [review EXCEPT ![q.review] =
                            IF Exists(q.review) /\ release[q.anchor].status # "gone"
                            THEN Rewritten(@, q) ELSE @]
        \/ /\ q.review = None /\ MayInsert(q.account) /\ release[q.anchor].status # "gone"
           /\ \E i \in Reviews :
                /\ review[i].status = "none"
                /\ review' = [review EXCEPT ![i] = [NoReview EXCEPT !.status = "visible",
                                 !.user = q.account, !.release = q.anchor, !.anchoredAt = q.stamp]]
        \/ q.review = None /\ UNCHANGED review
    /\ End(r)
    /\ UNCHANGED <<table, report, notices, answers>>

Delete(i) == /\ review' = [review EXCEPT ![i] = [NoReview EXCEPT !.status = "gone"]]
             /\ report' = [report EXCEPT ![i] = [a \in Accounts |-> "none"]]

\* DELETE .../reviews: the caller's own, whatever its state.
Withdraw(r) ==
    /\ Idle(r, "withdraw")
    /\ \E a \in Accounts : \E i \in Own(a) : Delete(i)
    /\ UNCHANGED <<table, req, notices, answers>>

-----------------------------------------------------------------------------
(* Reports *)

\* POST .../reviews/:id/report: one per reporter, by the unique index.
Report(r) ==
    /\ Idle(r, "report")
    /\ \E a \in Accounts, i \in Visible :
        /\ report[i][a] = "none"
        /\ report' = [report EXCEPT ![i][a] = "open"]
        /\ Begin(r, [NoRequest EXCEPT !.kind = "report", !.stage = "count", !.review = i])
    /\ UNCHANGED <<table, review, notices, answers>>

\* PATCH /admin/reviews/reports/:id
Resolve(r) ==
    /\ Idle(r, "resolve")
    /\ \E i \in Reviews, a \in Accounts :
        /\ report[i][a] # "none"
        /\ report' = [report EXCEPT ![i][a] = "closed"]
        /\ Begin(r, [NoRequest EXCEPT !.kind = "resolve", !.stage = "count", !.review = i])
    /\ UNCHANGED <<table, review, notices, answers>>

FaultyOpenReports(i) == Cardinality({a \in Accounts : report[i][a] # "none"})

\* What a recount counts.
OpenReports(i) == Cardinality({a \in Accounts : report[i][a] = "open"})

\* Both recount the open reports, and then write the number onto the review.
Recount(r) ==
    /\ req[r].kind \in {"report", "resolve"} /\ req[r].stage = "count"
    /\ Begin(r, [req[r] EXCEPT !.stage = "total", !.total = OpenReports(req[r].review)])
    /\ UNCHANGED <<table, review, report, notices, answers>>

WriteCount(r) ==
    /\ req[r].kind \in {"report", "resolve"} /\ req[r].stage = "total"
    /\ LET i == req[r].review IN
        review' = [review EXCEPT ![i].reportCount = IF Exists(i) THEN req[r].total ELSE @]
    /\ End(r)
    /\ UNCHANGED <<table, report, notices, answers>>

-----------------------------------------------------------------------------
(* Moderation and answers *)

\* POST .../hide and .../unhide
Hide(r) ==
    /\ Idle(r, "hide")
    /\ \E i \in Reviews, status \in {"visible", "hidden"} :
        Exists(i) /\ review' = [review EXCEPT ![i].status = status]
    /\ UNCHANGED <<table, report, req, notices, answers>>

\* DELETE /admin/products/:productId/reviews/:id
Drop(r) ==
    /\ Idle(r, "drop")
    /\ \E i \in Reviews : Exists(i) /\ Delete(i)
    /\ UNCHANGED <<table, req, notices, answers>>

\* PUT and DELETE .../reply start from the row.
ReadForReply(r, kind) ==
    /\ Idle(r, kind)
    /\ \E i \in Reviews :
        /\ Exists(i)
        /\ IF kind = "unreply" THEN review[i].replied ELSE answers[i] < MaxCount /\ notices[i] < MaxCount
        /\ Begin(r, [NoRequest EXCEPT !.kind = kind, !.stage = "write", !.review = i,
                                      !.seen = review[i]])
    /\ UNCHANGED <<table, review, report, notices, answers>>

WriteReply(r) ==
    /\ req[r].kind \in {"reply", "unreply"} /\ req[r].stage = "write"
    /\ LET q == req[r]
           first == Exists(q.review) /\ ~review[q.review].replied
       IN  /\ review' = [review EXCEPT ![q.review].replied = Exists(q.review) /\ q.kind = "reply"]
           /\ IF q.kind = "reply"
              THEN /\ Begin(r, [q EXCEPT !.stage = "tell"])
                   /\ answers' = IF first THEN [answers EXCEPT ![q.review] = @ + 1] ELSE answers
              ELSE End(r) /\ UNCHANGED answers
    /\ UNCHANGED <<table, report, notices>>

FaultyFirstAnswer(q) == TRUE

\* The first answer only.
FirstAnswer(q) == ~q.seen.replied

TellReviewer(r) ==
    /\ At(r, "reply", "tell")
    /\ LET q == req[r] IN
        notices' = IF FirstAnswer(q) THEN [notices EXCEPT ![q.review] = @ + 1] ELSE notices
    /\ End(r)
    /\ UNCHANGED <<table, review, report, answers>>

-----------------------------------------------------------------------------
Init ==
    /\ release = [l \in Releases |-> NoRelease]
    /\ obtained = {}
    /\ review = [i \in Reviews |-> NoReview]
    /\ report = [i \in Reviews |-> [a \in Accounts |-> "none"]]
    /\ req = [r \in Reqs |-> NoRequest]
    /\ notices = [i \in Reviews |-> 0]
    /\ answers = [i \in Reviews |-> 0]

Handle(r) ==
    \/ ReadAnchor(r) \/ ReadOwn(r) \/ WriteReview(r) \/ Withdraw(r)
    \/ Report(r) \/ Resolve(r) \/ Recount(r) \/ WriteCount(r)
    \/ Hide(r) \/ Drop(r)
    \/ ReadForReply(r, "reply") \/ ReadForReply(r, "unreply") \/ WriteReply(r) \/ TellReviewer(r)

Next ==
    \/ SaveRelease \/ DropRelease \/ Obtain
    \/ \E r \in Reqs : Handle(r)

Spec == Init /\ [][Next]_vars

-----------------------------------------------------------------------------
(* Properties *)

\* One review per person per product, whatever two tabs of one person send.
OneEach == \A a \in Accounts : Cardinality(Own(a)) <= 1

\* Nothing but a moderator brings a hidden review back: rewriting it does not, from however stale
\* a row (routes/reviews.ts writes no status).
HiddenStaysHidden == \A i \in Reviews :
    review[i].status = "hidden" /\ review'[i].status = "visible" =>
        ~\E r \in Reqs : At(r, "put", "write") /\ req'[r] = NoRequest

\* A reset deletes nothing (services/ratings.ts): whatever happens to the releases, the visible
\* reviews stay, and unless the window moves so do the ones that count.
ResetsDeleteNothing == release' # release =>
    Visible' = Visible /\ (Cutoff' = Cutoff => Counted' = Counted)

\* What a reviewer would be anchored to is inside the current window (services/reviews.ts): a
\* review written or rewritten now counts.  (Not so after a beta that resets the rating, or a stable
\* release that does and is dated back.)
AnchorIsInWindow == \A l \in AnchorRelease : release[l].publishedAt >= Cutoff

\* The report count of a review (routes/reviews.ts, "cannot drift away") is its open reports,
\* whenever nobody is recounting them.
CountIsOpenReports == \A i \in Reviews :
    Exists(i) /\ (\A r \in Reqs : req[r].review = i => req[r].kind \notin {"report", "resolve"})
        => review[i].reportCount = Cardinality({a \in Accounts : report[i][a] = "open"})

\* The reviewer is told once of each first answer, and never of an edit of it.
ToldOncePerAnswer == \A i \in Reviews :
    Exists(i) /\ (\A r \in Reqs : req[r].review # i) => notices[i] = answers[i]

=============================================================================
