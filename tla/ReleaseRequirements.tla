-------------------------- MODULE ReleaseRequirements --------------------------
(***************************************************************************)
(* What the releases of apps/marketplace run on: the requirements of each  *)
(* release, a list in the editor's order, bounded, one row per (kind,      *)
(* name).                                                                  *)
(***************************************************************************)
EXTENDS Naturals, FiniteSets

CONSTANTS
    Releases,   \* identifiers of rows of `product_releases`
    Entries,    \* identifiers of rows of `product_release_compatibility`
    Names,      \* the pairs (kind, name)
    Positions,  \* the positions an editor may give
    Reqs,       \* requests in flight, each served by one invocation
    None,       \* the absent value
    Max,        \* MAX_COMPATIBILITY_ENTRIES
    Duty        \* bound: the endpoints each request may be sent to

Kinds == {"create", "patch", "delete", "reorder"}

RequirementsAssumption ==
    /\ IsFiniteSet(Entries) /\ IsFiniteSet(Reqs) /\ Max \in Nat \ {0}
    /\ Duty \in [Reqs -> SUBSET Kinds]

VARIABLES entry,    \* table product_release_compatibility
          req       \* the invocations

vars == <<entry, req>>

Entry == [status : {"none", "listed", "gone"}, release : Releases \cup {None},
          name : Names \cup {None}, position : Positions]
NoEntry == [status |-> "none", release |-> None, name |-> None, position |-> 0]
\* `todo` is what a reorder has left to write.
Request == [kind : Kinds \cup {"none"}, release : Releases \cup {None},
            entry : Entries \cup {None}, name : Names \cup {None}, todo : SUBSET Entries,
            order : [Entries -> Positions]]
NoRequest == [kind |-> "none", release |-> None, entry |-> None, name |-> None, todo |-> {},
              order |-> [e \in Entries |-> 0]]

TypeOK == entry \in [Entries -> Entry] /\ req \in [Reqs -> Request]

Listed(e) == entry[e].status = "listed"
Of(l) == {e \in Entries : Listed(e) /\ entry[e].release = l}
Idle(r, kind) == req[r].kind = "none" /\ kind \in Duty[r]
Begin(r, q) == req' = [req EXCEPT ![r] = q]
End(r) == req' = [req EXCEPT ![r] = NoRequest]

-----------------------------------------------------------------------------
FaultyFits(l) == Cardinality(Of(l)) <= Max

Fits(l) == Cardinality(Of(l)) < Max

\* POST: the list is counted,
CheckCreate(r) ==
    /\ Idle(r, "create")
    /\ \E l \in Releases, n \in Names :
        /\ Fits(l)
        /\ Begin(r, [NoRequest EXCEPT !.kind = "create", !.release = l, !.name = n])
    /\ UNCHANGED entry

FaultyNameIsFree(l, n, self) == \A e \in self : entry[e].name # n

\* The unique index on (release, kind, name).
NameIsFree(l, n, self) == \A e \in Of(l) \ self : entry[e].name # n

\* and the row inserted, or refused by the index.
Create(r) ==
    /\ req[r].kind = "create"
    /\ LET q == req[r] IN
        \/ \E e \in Entries, p \in Positions :
            /\ entry[e].status = "none" /\ NameIsFree(q.release, q.name, {})
            /\ entry' = [entry EXCEPT ![e] = [status |-> "listed", release |-> q.release,
                                              name |-> q.name, position |-> p]]
        \/ ~NameIsFree(q.release, q.name, {}) /\ UNCHANGED entry
        \/ (\A e \in Entries : entry[e].status # "none") /\ UNCHANGED entry
    /\ End(r)

\* PATCH: the row read, then its columns written, unless the index refuses.
CheckPatch(r) ==
    /\ Idle(r, "patch")
    /\ \E e \in Entries, n \in Names :
        /\ Listed(e)
        /\ Begin(r, [NoRequest EXCEPT !.kind = "patch", !.entry = e, !.name = n])
    /\ UNCHANGED entry

Patch(r) ==
    /\ req[r].kind = "patch"
    /\ LET q == req[r] IN
        entry' = [entry EXCEPT ![q.entry].name =
                     IF Listed(q.entry) /\ NameIsFree(entry[q.entry].release, q.name, {q.entry})
                     THEN q.name ELSE @]
    /\ End(r)

\* DELETE
Delete(r) ==
    /\ Idle(r, "delete")
    /\ \E e \in Entries : Listed(e) /\ entry' = [entry EXCEPT ![e] = [NoEntry EXCEPT !.status = "gone"]]
    /\ UNCHANGED req

FaultyReaches(l, e) == Listed(e)

\* The update is keyed on the release as well: an id of another list matches nothing.
Reaches(l, e) == e \in Of(l)

FaultyPlaced(row, p) == [row EXCEPT !.position = p + 1]

Placed(row, p) == [row EXCEPT !.position = p]

\* POST .../reorder: any ids, with any positions, one update each.
BeginReorder(r) ==
    /\ Idle(r, "reorder")
    /\ \E l \in Releases, todo \in SUBSET Entries, order \in [Entries -> Positions] :
        /\ todo # {}
        /\ Begin(r, [NoRequest EXCEPT !.kind = "reorder", !.release = l, !.todo = todo,
                                      !.order = order])
    /\ UNCHANGED entry

Reorder(r) ==
    /\ req[r].kind = "reorder"
    /\ LET q == req[r] IN
        \E e \in q.todo :
            /\ entry' = [entry EXCEPT ![e] = IF Reaches(q.release, e) THEN Placed(@, q.order[e]) ELSE @]
            /\ IF q.todo = {e} THEN End(r) ELSE Begin(r, [q EXCEPT !.todo = @ \ {e}])

Init ==
    /\ entry = [e \in Entries |-> NoEntry]
    /\ req = [r \in Reqs |-> NoRequest]

\* GET answers the list and changes nothing.
List == UNCHANGED vars

Next ==
    \/ List
    \/ \E r \in Reqs : \/ CheckCreate(r) \/ Create(r) \/ CheckPatch(r) \/ Patch(r) \/ Delete(r)
                       \/ BeginReorder(r) \/ Reorder(r)

Spec == Init /\ [][Next]_vars

-----------------------------------------------------------------------------
\* A release carries MAX_COMPATIBILITY_ENTRIES requirements, and one more for each further addition that
\* overlapped (routes/admin/compatibility.ts), however they are renamed, deleted and reordered meanwhile.
Creators == {r \in Reqs : "create" \in Duty[r]}
ListsAreBounded == \A l \in Releases : Cardinality(Of(l)) < Max + Cardinality(Creators)

\* At most MAX_COMPATIBILITY_ENTRIES entries on one release (lib/compatibility.ts), whoever adds them.
LimitIsKept == \A l \in Releases : Cardinality(Of(l)) <= Max

\* No (kind, name) appears twice on a release, whatever concurrent renames and additions do.
NamesAreUnique == \A l \in Releases : \A e, f \in Of(l) : entry[e].name = entry[f].name => e = f

\* A reorder of one release never moves an entry of another (routes/admin/compatibility.ts).
NoForeignMoves == \A e \in Entries :
    Listed(e) /\ entry'[e].position # entry[e].position /\ entry'[e].status = "listed" =>
        \E r \in Reqs : req[r].kind = "reorder" /\ req[r].release = entry[e].release

=============================================================================
