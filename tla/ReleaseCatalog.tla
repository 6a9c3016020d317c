---------------------------- MODULE ReleaseCatalog ----------------------------
(***************************************************************************)
(* The catalogue of apps/marketplace: products and their release notes,    *)
(* the stamp of the first publication, the announcement of a release to    *)
(* the holders of its product, and the counters of views and downloads.    *)
(* Every editorial endpoint reads a row, computes the next one from it and *)
(* writes columns back, so two editors work from rows that may be stale.   *)
(***************************************************************************)
EXTENDS Naturals

CONSTANTS
    Products,   \* identifiers of rows of `products`
    Releases,   \* identifiers of rows of `product_releases`
    Reqs,       \* requests in flight, each served by one invocation
    None,       \* the absent value
    Duty,       \* bound: the endpoints each request may be sent to
    MayFail,    \* bound: the requests whose invocation may be cut short
    MaxStamp,   \* bound: the last second at which anything is published
    MaxViews    \* bound: the events counted

Kinds == {"product", "dropProduct", "createRelease", "release", "dropRelease", "view"}

CatalogAssumption ==
    /\ None \notin Products \cup Releases
    /\ MaxStamp \in Nat /\ MaxViews \in Nat
    /\ Duty \in [Reqs -> SUBSET Kinds]

VARIABLES
    product,    \* table products
    release,    \* table product_releases
    daily,      \* table product_daily_stats: the product-wide rows of each product, summed
    clock,      \* seconds, advanced by publications only
    req,        \* the invocations
    sent,       \* history: how often each release was announced to the holders
    due         \* history: the releases first published while their product was public

vars == <<product, release, daily, clock, req, sent, due>>

-----------------------------------------------------------------------------
Statuses == {"draft", "published", "archived"}
Stamps == 0 .. MaxStamp     \* 0 is no date
ProductRow == [status : Statuses \cup {"none", "gone"}, publishedAt : Stamps, viewCount : Nat]
ReleaseRow == [status : Statuses \cup {"none", "gone"}, product : Products \cup {None},
               publishedAt : Stamps, viewCount : Nat]
NoProduct == [status |-> "none", publishedAt |-> 0, viewCount |-> 0]
NoRelease == [status |-> "none", product |-> None, publishedAt |-> 0, viewCount |-> 0]

Request == [kind : Kinds \cup {"none"}, stage : {"idle", "read", "write", "announce", "count"},
            product : Products \cup {None}, seen : ProductRow,
            release : Releases \cup {None}, before : ReleaseRow, after : ReleaseRow]
NoRequest == [kind |-> "none", stage |-> "idle", product |-> None, seen |-> NoProduct,
              release |-> None, before |-> NoRelease, after |-> NoRelease]

TypeOK ==
    /\ product \in [Products -> ProductRow]
    /\ release \in [Releases -> ReleaseRow]
    /\ daily \in [Products -> Nat]
    /\ clock \in Stamps
    /\ req \in [Reqs -> Request]
    /\ sent \in [Releases -> Nat]
    /\ due \subseteq Releases

ProductExists(p) == product[p].status \in Statuses
ReleaseExists(l) == release[l].status \in Statuses

Idle(r, kind) == req[r].stage = "idle" /\ kind \in Duty[r]
At(r, kind, stage) == req[r].kind = kind /\ req[r].stage = stage
Begin(r, q) == req' = [req EXCEPT ![r] = q]
End(r) == req' = [req EXCEPT ![r] = NoRequest]

-----------------------------------------------------------------------------
(* An operator Faulty<Name> before <Name> is its definition with a defect, which the   *)
(* properties are checked to detect.                                                   *)

\* now, when the row is published by this request for the first time
Now == clock + 1

\* `published_at` is stamped once and kept through later unpublishing.
Stamped(row, status) ==
    IF status = "published" /\ row.publishedAt = 0 THEN Now ELSE row.publishedAt

Tick(stamp) == clock' = IF stamp = Now THEN Now ELSE clock
MayPublish(status) == status = "published" => clock < MaxStamp

\* POST /products: the row is built from the body and inserted.
CreateProduct(r) ==
    /\ Idle(r, "product")
    /\ \E p \in Products, status \in Statuses :
        /\ product[p].status = "none" /\ MayPublish(status)
        /\ LET stamp == Stamped(NoProduct, status) IN
            /\ product' = [product EXCEPT ![p] = [NoProduct EXCEPT !.status = status,
                                                                   !.publishedAt = stamp]]
            /\ Tick(stamp)
    /\ UNCHANGED <<release, daily, req, sent, due>>

FaultyTagged(row, status) == [row EXCEPT !.status = "live"]

\* The row an edit computes from the one it read.
Tagged(row, status) == [row EXCEPT !.status = status, !.publishedAt = Stamped(row, status)]

\* PATCH /products/:id, up to the row it computes.
CheckProduct(r) ==
    /\ Idle(r, "product")
    /\ \E p \in Products, status \in Statuses :
        /\ ProductExists(p) /\ MayPublish(status)
        /\ LET stamp == Stamped(product[p], status) IN
            /\ Begin(r, [NoRequest EXCEPT !.kind = "product", !.stage = "write", !.product = p,
                            !.seen = Tagged(product[p], status)])
            /\ Tick(stamp)
    /\ UNCHANGED <<product, release, daily, sent, due>>

FaultyProductColumns(row, q) == q.seen

\* The update names its columns: the counters are not among them.
ProductColumns(row, q) == [row EXCEPT !.status = q.seen.status, !.publishedAt = q.seen.publishedAt]

UpdateProduct(r) ==
    /\ At(r, "product", "write")
    /\ LET q == req[r] IN
        product' = [product EXCEPT ![q.product] = IF ProductExists(q.product)
                                                  THEN ProductColumns(@, q) ELSE @]
    /\ End(r)
    /\ UNCHANGED <<release, daily, clock, sent, due>>

\* DELETE /products/:id: the foreign keys take every release with it, and leave the daily rows.
DropProduct(r) ==
    /\ Idle(r, "dropProduct")
    /\ \E p \in Products :
        /\ ProductExists(p)
        /\ product' = [product EXCEPT ![p] = [NoProduct EXCEPT !.status = "gone"]]
        /\ release' = [l \in Releases |-> IF release[l].product = p
                                          THEN [NoRelease EXCEPT !.status = "gone"] ELSE release[l]]
    /\ UNCHANGED <<daily, clock, req, sent, due>>

-----------------------------------------------------------------------------
(* Release notes *)

\* Every endpoint of a release reads its product first.
ReadProduct(r, kind) ==
    /\ Idle(r, kind)
    /\ \E p \in Products :
        /\ ProductExists(p)
        /\ Begin(r, [NoRequest EXCEPT !.kind = kind, !.stage = "read", !.product = p,
                                      !.seen = product[p]])
    /\ UNCHANGED <<product, release, daily, clock, sent, due>>

\* A release is due an announcement when it goes out for the first time under a public product.
Published(l, row) ==
    due' = IF row.status = "published" /\ release[l].publishedAt = 0
              /\ product[row.product].status = "published"
           THEN due \cup {l} ELSE due

\* POST /products/:productId/releases.  The insert fails when the product is gone by then.
CreateRelease(r) ==
    /\ At(r, "createRelease", "read")
    /\ LET q == req[r] IN
        \/ \E l \in Releases, status \in Statuses :
            LET stamp == Stamped(NoRelease, status)
                row == [NoRelease EXCEPT !.status = status, !.product = q.product,
                                         !.publishedAt = stamp]
            IN  /\ release[l].status = "none" /\ ProductExists(q.product) /\ MayPublish(status)
                /\ release' = [release EXCEPT ![l] = row]
                /\ Tick(stamp)
                /\ Published(l, row)
                /\ Begin(r, [q EXCEPT !.stage = "announce", !.release = l, !.after = row])
        \/ ~ProductExists(q.product) /\ End(r) /\ UNCHANGED <<release, clock, due>>
    /\ UNCHANGED <<product, daily, sent>>

\* PATCH /products/:productId/releases/:id, up to the row it computes.
CheckRelease(r) ==
    /\ At(r, "release", "read")
    /\ LET q == req[r]
           mine == {l \in Releases : ReleaseExists(l) /\ release[l].product = q.product}
       IN \/ \E l \in mine, status \in Statuses :
                LET stamp == Stamped(release[l], status) IN
                /\ MayPublish(status)
                /\ Begin(r, [q EXCEPT !.stage = "write", !.release = l, !.before = release[l],
                                !.after = Tagged(release[l], status)])
                /\ Tick(stamp)
          \/ mine = {} /\ End(r) /\ UNCHANGED clock
    /\ UNCHANGED <<product, release, daily, sent, due>>

FaultyReleaseColumns(row, q) == q.after

\* The columns of the update; as for a product, the counters are not among them.
ReleaseColumns(row, q) == [row EXCEPT !.status = q.after.status, !.publishedAt = q.after.publishedAt]

UpdateRelease(r) ==
    /\ At(r, "release", "write")
    /\ LET q == req[r] IN
        /\ IF ReleaseExists(q.release)
           THEN /\ release' = [release EXCEPT ![q.release] = ReleaseColumns(@, q)]
                /\ Published(q.release, q.after)
           ELSE UNCHANGED <<release, due>>
        /\ Begin(r, [q EXCEPT !.stage = "announce"])
    /\ UNCHANGED <<product, daily, clock, sent>>

FaultyFirstPublication(q) == q.after.status = "published" /\ q.seen.status = "published"

FirstPublication(q) ==
    /\ q.before.publishedAt = 0
    /\ q.after.status = "published"
    /\ q.seen.status = "published"

\* announceIfFirstPublication: the holders are told through the queue, after the write.
Announce(r) ==
    /\ req[r].stage = "announce"
    /\ LET q == req[r] IN
        sent' = IF FirstPublication(q) THEN [sent EXCEPT ![q.release] = @ + 1] ELSE sent
    /\ End(r)
    /\ UNCHANGED <<product, release, daily, clock, due>>

\* DELETE /products/:productId/releases/:id
DropRelease(r) ==
    /\ Idle(r, "dropRelease")
    /\ \E l \in Releases :
        /\ ReleaseExists(l)
        /\ release' = [release EXCEPT ![l] = [NoRelease EXCEPT !.status = "gone"]]
    /\ UNCHANGED <<product, daily, clock, req, sent, due>>

-----------------------------------------------------------------------------
(* Counting *)

\* POST /products/:slug/views: the page of a product, or that of one of its releases.
SeePage(r) ==
    /\ Idle(r, "view")
    /\ \E p \in Products, l \in Releases \cup {None} :
        /\ product[p].status = "published" /\ daily[p] < MaxViews
        /\ l # None => release[l].product = p /\ release[l].status = "published"
        /\ Begin(r, [NoRequest EXCEPT !.kind = "view", !.stage = "count", !.product = p,
                                      !.release = l])
    /\ UNCHANGED <<product, release, daily, clock, sent, due>>

\* bump: the daily rows and the counters move in one batch; a viewer already in the cache, or a
\* batch that fails, counts nothing.  A download is counted the same way.
CountView(r) ==
    /\ At(r, "view", "count")
    /\ LET q == req[r] IN
        \/ /\ daily' = [daily EXCEPT ![q.product] = @ + 1]
           /\ product' = IF ProductExists(q.product)
                         THEN [product EXCEPT ![q.product].viewCount = @ + 1] ELSE product
           /\ release' = IF q.release # None /\ ReleaseExists(q.release)
                         THEN [release EXCEPT ![q.release].viewCount = @ + 1] ELSE release
        \/ UNCHANGED <<product, release, daily>>
    /\ End(r)
    /\ UNCHANGED <<clock, sent, due>>

\* GET /products and the reads of one product show what is public and change nothing.
Visible == {p \in Products : product[p].status = "published"}
Browse == Visible \subseteq Products /\ UNCHANGED vars

\* An invocation cut short between two statements.
Fail(r) ==
    /\ r \in MayFail /\ req[r].stage # "idle"
    /\ End(r)
    /\ UNCHANGED <<product, release, daily, clock, sent, due>>

-----------------------------------------------------------------------------
Init ==
    /\ product = [p \in Products |-> NoProduct]
    /\ release = [l \in Releases |-> NoRelease]
    /\ daily = [p \in Products |-> 0]
    /\ clock = 0
    /\ req = [r \in Reqs |-> NoRequest]
    /\ sent = [l \in Releases |-> 0]
    /\ due = {}

Handle(r) ==
    \/ CreateProduct(r) \/ CheckProduct(r) \/ UpdateProduct(r) \/ DropProduct(r)
    \/ ReadProduct(r, "createRelease") \/ CreateRelease(r)
    \/ ReadProduct(r, "release") \/ CheckRelease(r) \/ UpdateRelease(r) \/ Announce(r)
    \/ DropRelease(r)
    \/ SeePage(r) \/ CountView(r)

Next == Browse \/ \E r \in Reqs : Handle(r) \/ Fail(r)

Spec == Init /\ [][Next]_vars

-----------------------------------------------------------------------------
(* Properties *)

Announcing(l) == \E r \in Reqs : req[r].stage = "announce" /\ req[r].release = l

\* The holders are told that a version went live the first time it does, and never again
\* (routes/admin/releases.ts): a release taken down and put back any number of times was announced
\* once if it first went out under a public product, and not at all otherwise.
AnnouncedOnce == \A l \in Releases :
    ~Announcing(l) => sent[l] = IF l \in due THEN 1 ELSE 0

\* `published_at` dates the first publication: no later edit moves or clears it.
StampIsKept == \A l \in Releases :
    release[l].publishedAt # 0 /\ release'[l].status # "gone" =>
        release'[l].publishedAt = release[l].publishedAt

\* The editors' writes leave the counters alone (services/analytics.ts): however stale the row an
\* edit was computed from, the total on a product is the sum of its daily rows, and no release has
\* more views than its product.
CountersSurviveEdits ==
    /\ \A p \in Products : ProductExists(p) => product[p].viewCount = daily[p]
    /\ \A l \in Releases : ReleaseExists(l) => release[l].viewCount <= daily[release[l].product]

\* A release with views is never reset to fewer by an edit of its note.
ViewsOnlyGrow == \A l \in Releases :
    ReleaseExists(l) /\ release'[l].status # "gone" =>
        release'[l].viewCount >= release[l].viewCount

=============================================================================
