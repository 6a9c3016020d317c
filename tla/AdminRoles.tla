----------------------------- MODULE AdminRoles -----------------------------
(***************************************************************************)
(* The roles and permissions of apps/auth: roles with their sets of        *)
(* permissions, who holds them, and the requests of administrators that    *)
(* change them while others are half way through theirs.                   *)
(***************************************************************************)
EXTENDS Integers, FiniteSets

CONSTANTS
    Roles,    \* bound: rows of roles
    Slugs,    \* slugs of roles
    Perms,    \* rows of permissions, each with a slug of its own
    Write,    \* the permission roles:write
    Grants,   \* the permission users:write
    Guarded,  \* GUARDED_PERMISSIONS
    Accounts,
    First,    \* the account and the role a deployment starts with
    Admin,
    Requests,
    None,
    MaxEdits, \* bound: requests
    Together, \* bound: whether requests overlap
    Duties    \* bound: which of them happen

ASSUME RolesAssumption ==
    /\ {Write, Grants} \subseteq Guarded /\ Guarded \subseteq Perms
    /\ First \in Accounts /\ Admin \in Roles /\ MaxEdits \in Nat /\ Together \in BOOLEAN
    /\ Slugs # {} /\ None \notin [slug : Slugs, default : BOOLEAN] /\ \A w \in SUBSET Perms : w # None

VARIABLES role,     \* roles: slug and is_default
          perms,    \* permissions
          attached, \* role_permissions
          held,     \* user_roles
          active,   \* users: status
          asked,    \* history: the sets of permissions last asked for each role
          req, edits

rows == <<role, perms, attached, held, active>>
vars == <<rows, asked, req, edits>>

Role == [slug : Slugs, default : BOOLEAN]
NoReq == [at |-> "none", r |-> None, row |-> None, before |-> None, want |-> None, todo |-> {}, kept |-> {}, a |-> None]

TypeOK ==
    /\ \A r \in Roles : role[r] # None => role[r] \in Role
    /\ perms \subseteq Perms /\ attached \in [Roles -> SUBSET Perms]
    /\ held \in [Accounts -> SUBSET Roles] /\ active \subseteq Accounts /\ edits \in 0 .. MaxEdits
    /\ \A q \in Requests : req[q].at \in {"none", "insert", "update", "check", "clear", "attach", "count", "delete", "grant"}

Idle == \A q \in Requests : req[q].at = "none"
Free(q) == req[q].at = "none" /\ (Together \/ Idle)
At(q, at) == req[q].at = at /\ UNCHANGED edits
Go(q, r) == req' = [req EXCEPT ![q] = r]
End(q) == Go(q, NoReq)

\* requireAuth and requirePermission: an active account one of whose roles carries the permission.
Able(a, p) == a \in active /\ \E r \in held[a] : p \in attached[r]
Edit(what, p) == what \in Duties /\ (\E a \in Accounts : Able(a, p)) /\ edits < MaxEdits /\ edits' = edits + 1

Asked(r, F(_)) == asked' = [asked EXCEPT ![r] = {F(s) : s \in @}]

-----------------------------------------------------------------------------
FaultyTaken(slug) == FALSE

\* The unique index on the slugs of global roles.
Taken(slug) == \E r \in Roles : role[r] # None /\ role[r].slug = slug

\* POST /admin/roles looks for the slug,
BeginCreate(q, slug, want) ==
    /\ Free(q) /\ Edit("create", Write) /\ ~ \E r \in Roles : role[r] # None /\ role[r].slug = slug
    /\ Go(q, [NoReq EXCEPT !.at = "insert", !.row = [slug |-> slug, default |-> FALSE], !.want = want])
    /\ UNCHANGED <<rows, asked>>

\* inserts the role under an identifier nobody has read, which fails when the slug was taken meanwhile,
InsertRole(q) ==
    LET q0 == req[q] IN
    /\ At(q, "insert")
    /\ \/ /\ ~ Taken(q0.row.slug)
          /\ \E r \in Roles :
               /\ role[r] = None /\ attached[r] = {} /\ \A p \in Requests : req[p].r # r
               /\ role' = [role EXCEPT ![r] = q0.row] /\ asked' = [asked EXCEPT ![r] = {{}}]
               /\ IF q0.want = {} THEN End(q) ELSE Go(q, [q0 EXCEPT !.at = "check", !.r = r])
       \/ Taken(q0.row.slug) /\ End(q) /\ UNCHANGED <<role, asked>>
    /\ UNCHANGED <<perms, attached, held, active>>

\* PATCH /admin/roles/:id reads the role,
BeginPatch(q, r, default, want) ==
    /\ Free(q) /\ role[r] # None /\ Edit("patch", Write)
    /\ Go(q, [NoReq EXCEPT !.at = "update", !.r = r, !.row = [role[r] EXCEPT !.default = default], !.before = role[r], !.want = want])
    /\ UNCHANGED <<rows, asked>>

\* and updates it before the permissions it asks for are looked at.
UpdateRole(q) ==
    LET q0 == req[q] IN
    /\ At(q, "update")
    /\ role' = IF role[q0.r] = None THEN role ELSE [role EXCEPT ![q0.r].default = q0.row.default]
    /\ IF q0.want = None THEN End(q) ELSE Go(q, [q0 EXCEPT !.at = "check"])
    /\ UNCHANGED <<perms, attached, held, active, asked>>

Others(q, r) == \E p \in Requests \ {q} : req[p].at \in {"clear", "attach"} /\ req[p].r = r

\* An unknown permission is answered 404, in either request; a new role has no set to clear.
Check(q) ==
    LET q0 == req[q] IN
    /\ At(q, "check")
    /\ \/ ~ q0.want \subseteq perms /\ End(q) /\ UNCHANGED asked
       \/ /\ q0.want \subseteq perms
          /\ Go(q, [q0 EXCEPT !.at = IF @ = "check" /\ q0.before = None THEN "attach" ELSE "clear",
                              !.todo = q0.want, !.kept = attached[q0.r] \cap q0.want])
          /\ asked' = [asked EXCEPT ![q0.r] = IF Others(q, q0.r) THEN @ \cup {q0.want} ELSE {q0.want}]
    /\ UNCHANGED rows

FaultyCleared(r) == attached

Cleared(r) == [attached EXCEPT ![r] = {}]

\* The whole set is dropped
Clear(q) ==
    /\ At(q, "clear") /\ attached' = Cleared(req[q].r) /\ Go(q, [req[q] EXCEPT !.at = "attach"])
    /\ UNCHANGED <<role, perms, held, active, asked>>

\* and inserted row by row; a row of a role or a permission that is gone fails the request.
AttachNext(q) ==
    LET q0 == req[q] IN
    /\ At(q, "attach")
    /\ \/ \E p \in q0.todo :
            \/ /\ p \in perms /\ role[q0.r] # None
               /\ attached' = [attached EXCEPT ![q0.r] = @ \cup {p}] /\ Go(q, [q0 EXCEPT !.todo = @ \ {p}])
               /\ IF q0.want = None THEN Asked(q0.r, LAMBDA s : s \cup {p}) ELSE UNCHANGED asked
            \/ (p \notin perms \/ role[q0.r] = None) /\ End(q) /\ UNCHANGED <<attached, asked>>
       \/ q0.todo = {} /\ End(q) /\ UNCHANGED <<attached, asked>>
    /\ UNCHANGED <<role, perms, held, active>>

\* POST /admin/roles/:id/permissions attaches one.
BeginAttach(q, r, p) ==
    /\ Free(q) /\ role[r] # None /\ p \in perms /\ Edit("attach", Write)
    /\ Go(q, [NoReq EXCEPT !.at = "attach", !.r = r, !.todo = {p}])
    /\ UNCHANGED <<rows, asked>>

\* DELETE /admin/roles/:id/permissions/:slug detaches one.
Detach(q, r, p) ==
    /\ Free(q) /\ p \in perms /\ Edit("detach", Write)
    /\ attached' = [attached EXCEPT ![r] = @ \ {p}] /\ Asked(r, LAMBDA s : s \ {p})
    /\ UNCHANGED <<role, perms, held, active, req>>

-----------------------------------------------------------------------------
\* DELETE /admin/roles/:id reads the role and its permissions,
BeginDelete(q, r) ==
    /\ Free(q) /\ role[r] # None /\ Edit("delete", Write)
    /\ Go(q, [NoReq EXCEPT !.at = IF Write \in attached[r] THEN "count" ELSE "delete", !.r = r])
    /\ UNCHANGED <<rows, asked>>

FaultyHolders(r) == {a \in Accounts : \E s \in held[a] : Write \in attached[s]}

\* The accounts that hold roles:write by another role.
Holders(r) == {a \in Accounts : \E s \in held[a] \ {r} : Write \in attached[s]}

\* counts who is left, for a role that carries roles:write,
CountHolders(q) ==
    /\ At(q, "count")
    /\ \/ Holders(req[q].r) = {} /\ End(q)
       \/ Holders(req[q].r) # {} /\ Go(q, [req[q] EXCEPT !.at = "delete"])
    /\ UNCHANGED <<rows, asked>>

FaultyWithout(r) == held

MangledWithout(r) == [a \in Accounts |-> (held[a] \ {r}) \cup {None}]

Without(r) == [a \in Accounts |-> held[a] \ {r}]

\* and deletes it: what it carried and who held it goes with it.
DeleteRole(q) ==
    LET r == req[q].r IN
    /\ At(q, "delete") /\ role' = [role EXCEPT ![r] = None] /\ held' = Without(r)
    /\ attached' = [attached EXCEPT ![r] = {}] /\ asked' = [asked EXCEPT ![r] = {{}}] /\ End(q)
    /\ UNCHANGED <<perms, active>>

\* POST /admin/permissions
CreatePermission(q, p) ==
    /\ Free(q) /\ p \notin perms /\ Edit("define", Write) /\ perms' = perms \cup {p}
    /\ UNCHANGED <<role, attached, held, active, asked, req>>

\* DELETE /admin/permissions/:id detaches it from every role; those of the routes are refused.
DeletePermission(q, p) ==
    /\ Free(q) /\ p \in perms \ Guarded /\ Edit("undefine", Write) /\ perms' = perms \ {p}
    /\ attached' = [r \in Roles |-> attached[r] \ {p}] /\ asked' = [r \in Roles |-> {s \ {p} : s \in asked[r]}]
    /\ UNCHANGED <<role, held, active, req>>

\* POST /admin/users/:id/roles reads the account and the role,
BeginGrant(q, a, r) ==
    /\ Free(q) /\ role[r] # None /\ Edit("grant", Grants)
    /\ Go(q, [NoReq EXCEPT !.at = "grant", !.r = r, !.a = a])
    /\ UNCHANGED <<rows, asked>>

\* and inserts the grant, which fails when the role is gone.
GrantRole(q) ==
    LET q0 == req[q] IN
    /\ At(q, "grant") /\ End(q)
    /\ \/ role[q0.r] # None /\ held' = [held EXCEPT ![q0.a] = @ \cup {q0.r}]
       \/ role[q0.r] = None /\ UNCHANGED held
    /\ UNCHANGED <<role, perms, attached, active, asked>>

\* DELETE /admin/users/:id/roles/:roleId
RevokeRole(q, a, r) ==
    /\ Free(q) /\ r \in held[a] /\ Edit("revoke", Grants) /\ held' = [held EXCEPT ![a] = @ \ {r}]
    /\ UNCHANGED <<role, perms, attached, active, asked, req>>

\* PATCH /admin/users/:id disables or enables an account.
SetStatus(q, a) ==
    /\ Free(q) /\ Edit("status", Grants) /\ active' = IF a \in active THEN active \ {a} ELSE active \cup {a}
    /\ UNCHANGED <<role, perms, attached, held, asked, req>>

\* The invocation is cut short between two statements.
Cut(q) == "cut" \in Duties /\ req[q].at # "none" /\ End(q) /\ UNCHANGED <<rows, asked, edits>>

\* GET /admin/roles, /admin/permissions, and what is refused before anything is written.
List == UNCHANGED vars

Init ==
    /\ role = [r \in Roles |-> IF r = Admin THEN [slug |-> CHOOSE s \in Slugs : TRUE, default |-> FALSE] ELSE None]
    /\ perms = Guarded /\ attached = [r \in Roles |-> IF r = Admin THEN {Write, Grants} ELSE {}]
    /\ held = [a \in Accounts |-> IF a = First THEN {Admin} ELSE {}] /\ active = Accounts
    /\ asked = [r \in Roles |-> {attached[r]}]
    /\ req = [q \in Requests |-> NoReq] /\ edits = 0

Next ==
    \/ \E q \in Requests :
         \/ InsertRole(q) \/ UpdateRole(q) \/ Check(q) \/ Clear(q) \/ AttachNext(q) \/ CountHolders(q) \/ DeleteRole(q)
         \/ GrantRole(q) \/ Cut(q)
         \/ \E slug \in Slugs, want \in SUBSET Perms : BeginCreate(q, slug, want)
         \/ \E r \in Roles :
              \/ BeginDelete(q, r)
              \/ \E default \in BOOLEAN, want \in (SUBSET Perms) \cup {None} : BeginPatch(q, r, default, want)
              \/ \E p \in Perms : BeginAttach(q, r, p) \/ Detach(q, r, p)
              \/ \E a \in Accounts : BeginGrant(q, a, r) \/ RevokeRole(q, a, r)
         \/ \E p \in Perms : CreatePermission(q, p) \/ DeletePermission(q, p)
         \/ \E a \in Accounts : SetStatus(q, a)
    \/ List

Spec == Init /\ [][Next]_vars

-----------------------------------------------------------------------------
\* No two roles have one slug, whichever registrations overlap.
UniqueSlugs ==
    \A r, s \in Roles : r # s /\ role[r] # None /\ role[s] # None => role[r].slug # role[s].slug

\* Nobody holds a role that is gone, and no role carries a permission that is gone.
NothingDangles ==
    /\ \A a \in Accounts : \A r \in held[a] : role[r] # None
    /\ \A r \in Roles : attached[r] \subseteq perms /\ (role[r] = None => attached[r] = {})

\* Between requests, a role carries one whole set that was asked for.
WholeSet == Idle => \A r \in Roles : attached[r] \in asked[r]

\* The deletion of a role leaves somebody who can administer roles.
DeletionKeeps ==
    [][(\E r \in Roles : role[r] # None /\ (role')[r] = None) => (\E a \in Accounts : Able(a, Write))']_vars

\* What a role carried and is to carry still is not missing in between.
KeptThroughout == \A q \in Requests : req[q].at \in {"clear", "attach"} => req[q].kept \subseteq attached[req[q].r]

\* A request that is answered 404 has changed nothing of the role.
RefusedChangesNothing ==
    [][\A q \in Requests :
         req[q].at = "check" /\ req'[q].at = "none" /\ ~ req[q].want \subseteq perms => role[req[q].r] = req[q].before]_vars
=============================================================================
