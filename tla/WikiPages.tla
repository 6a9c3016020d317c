------------------------------ MODULE WikiPages ------------------------------
(***************************************************************************)
(* The wiki tab of apps/marketplace: pages that an editor creates, edits,  *)
(* moves and deletes, and the sidebar built from them.  parent_id has no   *)
(* foreign key; that the tree is two levels deep and that no page drops    *)
(* out of it rests on checks made in statements before the write.          *)
(* A request reads (and checks) in one step and writes in another; slots   *)
(* of Reqs are served again and again.                                     *)
(***************************************************************************)
EXTENDS Naturals, FiniteSets

CONSTANTS
    Products,   \* identifiers of rows of `products`
    Pages,      \* identifiers of rows of `product_wiki_pages`
    Reqs,       \* editors' requests in flight, each served by one invocation
    None,       \* the absent value
    Duty,       \* bound: the endpoints each request may be sent to
    Overlap     \* bound: whether requests may run at the same time

Kinds == {"create", "edit", "move", "delete"}

WikiAssumption ==
    /\ None \notin Pages \cup Products
    /\ Duty \in [Reqs -> SUBSET Kinds]
    /\ Overlap \in BOOLEAN

VARIABLES
    page,   \* table product_wiki_pages
    req     \* the invocations: stage and local variables

vars == <<page, req>>

-----------------------------------------------------------------------------
\* "gone" is a row that was deleted: identifiers are not used twice.
\* "draft" stands for archived too: neither is public.
Statuses == {"draft", "published"}
PageRow == [status : Statuses \cup {"none", "gone"}, product : Products \cup {None},
            parent : Pages \cup {None}, publishedAt : BOOLEAN]
NoPage == [status |-> "none", product |-> None, parent |-> None, publishedAt |-> FALSE]

\* `page` is the row being edited, `row` what will be written.
Request == [kind : Kinds \cup {"none"}, stage : {"idle", "write", "promoted"},
            page : Pages \cup {None}, row : PageRow]
NoRequest == [kind |-> "none", stage |-> "idle", page |-> None, row |-> NoPage]

TypeOK ==
    /\ page \in [Pages -> PageRow]
    /\ req \in [Reqs -> Request]

Exists(p) == page[p].status \in Statuses
PagesOf(product) == {p \in Pages : Exists(p) /\ page[p].product = product}

Idle(r, kind) ==
    /\ req[r].stage = "idle" /\ kind \in Duty[r]
    /\ Overlap \/ \A x \in Reqs : req[x].stage = "idle"
Begin(r, kind, stage, p, row) ==
    req' = [req EXCEPT ![r] = [kind |-> kind, stage |-> stage, page |-> p, row |-> row]]
End(r) == req' = [req EXCEPT ![r] = NoRequest]

-----------------------------------------------------------------------------
(* resolveParentId: what a page may be nested under.  An operator Faulty<Name> before  *)
(* <Name> is its definition with a defect, which the properties are checked to detect. *)

FaultyMayNest(product, p, parent) ==
    parent # None => parent # p /\ Exists(parent) /\ page[parent].product = product

\* A parent of the same product that is not nested itself, for a page with nothing under it.
MayNest(product, p, parent) ==
    parent # None =>
        /\ parent # p
        /\ Exists(parent) /\ page[parent].product = product
        /\ page[parent].parent = None
        /\ \A q \in Pages : p # None /\ Exists(q) => page[q].parent # p


\* The date of the first publication is kept through later ones.
Stamped(row, status) == [row EXCEPT !.status = status,
                                    !.publishedAt = @ \/ status = "published"]

-----------------------------------------------------------------------------
(* The editors' endpoints *)

\* POST /products/:productId/wiki, up to the insert.
CheckCreate(r) ==
    /\ Idle(r, "create")
    /\ \E product \in Products, parent \in Pages \cup {None}, status \in Statuses :
        /\ MayNest(product, None, parent)
        /\ Begin(r, "create", "write", None,
                 Stamped([NoPage EXCEPT !.product = product, !.parent = parent], status))
    /\ UNCHANGED page

\* The insert, which the unique index on (product, slug) may refuse.
CreatePage(r) ==
    /\ req[r].stage = "write" /\ req[r].kind = "create"
    /\ \/ \E p \in Pages :
            /\ page[p].status = "none"
            /\ page' = [page EXCEPT ![p] = req[r].row]
       \/ UNCHANGED page
    /\ End(r)

\* PATCH /products/:productId/wiki/:id without a parent_id: the row keeps the one it was read with.
CheckEdit(r) ==
    /\ Idle(r, "edit")
    /\ \E p \in Pages, status \in Statuses :
        /\ Exists(p)
        /\ Begin(r, "edit", "write", p, Stamped(page[p], status))
    /\ UNCHANGED page

\* PATCH /products/:productId/wiki/:id with a parent_id, null included.
CheckMove(r) ==
    /\ Idle(r, "move")
    /\ \E p \in Pages, parent \in Pages \cup {None} :
        /\ Exists(p)
        /\ MayNest(page[p].product, p, parent)
        /\ Begin(r, "move", "write", p, [page[p] EXCEPT !.parent = parent])
    /\ UNCHANGED page

\* The update writes every column; a row deleted meanwhile is not there to be updated, and the
\* slug sent may be taken.
UpdatePage(r) ==
    /\ req[r].stage = "write" /\ req[r].kind \in {"edit", "move"}
    /\ \/ Exists(req[r].page) /\ page' = [page EXCEPT ![req[r].page] = req[r].row]
       \/ UNCHANGED page
    /\ End(r)

FaultyPromote(r) == UNCHANGED page

\* DELETE: the pages nested under it go back to the top level first.
Promote(r) ==
    page' = [q \in Pages |-> IF Exists(q) /\ page[q].parent = req'[r].page
                             THEN [page[q] EXCEPT !.parent = None] ELSE page[q]]

BeginDelete(r) ==
    /\ Idle(r, "delete")
    /\ \E p \in Pages :
        /\ Exists(p)
        /\ Begin(r, "delete", "promoted", p, NoPage)
    /\ Promote(r)

DeletePage(r) ==
    /\ req[r].stage = "promoted"
    /\ page' = [page EXCEPT ![req[r].page] = [NoPage EXCEPT !.status = "gone"]]
    /\ End(r)

-----------------------------------------------------------------------------
Init ==
    /\ page = [p \in Pages |-> NoPage]
    /\ req = [r \in Reqs |-> NoRequest]

Next == \E r \in Reqs :
    \/ CheckCreate(r) \/ CreatePage(r)
    \/ CheckEdit(r) \/ CheckMove(r) \/ UpdatePage(r)
    \/ BeginDelete(r) \/ DeletePage(r)

Spec == Init /\ [][Next]_vars

-----------------------------------------------------------------------------
(* The sidebar: buildWikiTree *)

FaultyIsRoot(p, pages) == page[p].parent = None

\* A page whose parent is not in the list (or is the page itself) is at the top level.
IsRoot(p, pages) == page[p].parent \notin pages \ {p}

\* The pages a reader of the sidebar comes across: the roots, and what hangs under one that is there.
Shown(pages) == {p \in pages : \A S \in SUBSET pages :
    (\A q \in pages : IsRoot(q, pages) \/ page[q].parent \in S => q \in S) => p \in S}

\* GET /products/:slug/wiki lists the published pages.
Published(product) == {p \in PagesOf(product) : page[p].status = "published"}

-----------------------------------------------------------------------------
(* Properties *)

\* No documentation is lost (services/wiki.ts, buildWikiTree): every page of a product is in the
\* editors' sidebar and every published one in the public sidebar, also when its section is a
\* draft.  (Of editors who take turns: a PATCH writes back the parent it read, or checked, earlier.)
NothingLost ==
    \A product \in Products :
        /\ Shown(PagesOf(product)) = PagesOf(product)
        /\ Shown(Published(product)) = Published(product)

\* The pages the editors' sidebar leaves out: they hang under one another.
Lost(product) == PagesOf(product) \ Shown(PagesOf(product))

\* Whatever editors create, edit, move and delete at once, a page drops out of the sidebar by one thing
\* only: a write that puts a page under one that is there, and under which it could not be put any more
\* (routes/admin/wiki.ts: the parent is read and checked a statement before).  A section that is deleted
\* meanwhile, or a draft, loses no page.
LostOnlyByCrossing ==
    (\E product \in Products : ~ (Lost(product)' \subseteq Lost(product))) =>
        \E r \in Reqs :
            LET q == req[r] IN
            /\ q.stage = "write" /\ req'[r] = NoRequest
            /\ q.row.parent # None /\ Exists(q.row.parent)
            /\ ~ MayNest(q.row.product, q.page, q.row.parent)

\* The sidebar is two levels deep (MAX_WIKI_DEPTH): what a page is nested under is not nested.  (Of editors
\* who take turns.)
TwoLevels == \A p, q \in Pages : Exists(p) /\ Exists(q) /\ page[p].parent = q => page[q].parent = None

\* A page is nested under an existing page of its own product: deleting a section first moves
\* its pages to the top level.  (Of editors who take turns: nothing keeps a page from being
\* written under a section that is being deleted.)
ParentsExist ==
    \A p \in Pages : Exists(p) /\ page[p].parent # None =>
        \/ Exists(page[p].parent) /\ page[page[p].parent].product = page[p].product
        \/ \E r \in Reqs : req[r].stage = "promoted" /\ req[r].page = page[p].parent

=============================================================================
