----------------------------- MODULE AccountsProofs -----------------------------
(***************************************************************************)
(* Proofs about what apps/auth keeps around its sessions, for every size   *)
(* of the tables and however requests overlap and are cut short.           *)
(* AdminRoles is extended: types, the uniqueness of slugs, that nothing    *)
(* refers to a role or a permission that is gone.  A is the authorization  *)
(* endpoint: what the button grants and how fresh a code is; S the         *)
(* sign-ups: a link works once.  Each theorem is about the specification   *)
(* of one of the three: the constants and variables that they name alike   *)
(* are declared once.                                                      *)
(***************************************************************************)
EXTENDS AdminRoles, FiniteSetTheorems, TLAPS

CONSTANTS
    Browsers, Users, Sessions, Parked, MaxAges, MaxTime, \* Authorize
    Emails, Providers, Links, Invitations, MaxLinks      \* SignUps

VARIABLES
    clock, sso, cookie, parked, codes, shown,                  \* Authorize
    user, linked, roles, inv, open, link, recent, barred, failed \* SignUps, which has codes, too

A == INSTANCE Authorize
S == INSTANCE SignUps

-----------------------------------------------------------------------------
(* Roles and permissions *)

\* What a request carries from one statement to the next.
ReqType == [at : {"none", "insert", "update", "check", "clear", "attach", "count", "delete", "grant"},
            r : Roles \cup {None}, row : Role \cup {None}, before : Role \cup {None},
            want : (SUBSET Perms) \cup {None}, todo : SUBSET Perms, kept : SUBSET Perms,
            a : Accounts \cup {None}]

\* Past its first read, a request names the row it is about.
Names(q) ==
    /\ q.at = "insert" => q.row \in Role /\ q.want \in SUBSET Perms
    /\ q.at = "update" => q.row \in Role
    /\ q.at \in {"update", "check", "clear", "attach", "count", "delete", "grant"} => q.r \in Roles
    /\ q.at = "check" => q.want \in SUBSET Perms
    /\ q.at = "grant" => q.a \in Accounts

\* The inductive invariant.
Inv ==
    /\ TypeOK /\ role \in [Roles -> Role \cup {None}]
    /\ req \in [Requests -> ReqType] /\ \A q \in Requests : Names(req[q])
    /\ UniqueSlugs /\ NothingDangles

-----------------------------------------------------------------------------
LEMMA NoReqType == NoReq \in ReqType /\ Names(NoReq)
BY DEF NoReq, ReqType, Names

\* A deployment starts with one role, held by one account.
LEMMA InitInv == Init => Inv
<1> SUFFICES ASSUME Init PROVE Inv
  OBVIOUS
<1>1. req \in [Requests -> ReqType] /\ \A q \in Requests : Names(req[q]) /\ req[q].at = "none"
  BY NoReqType DEF Init, NoReq
<1>2. role \in [Roles -> Role \cup {None}] /\ \A r \in Roles : role[r] # None <=> r = Admin
  <2> DEFINE slug == CHOOSE s \in Slugs : TRUE
             first == [slug |-> slug, default |-> FALSE]
  <2>1. slug \in Slugs
    BY RolesAssumption
  <2>2. role = [r \in Roles |-> IF r = Admin THEN first ELSE None]
    BY DEF Init
  <2> HIDE DEF slug
  <2>3. first \in Role
    BY <2>1 DEF Role
  <2> HIDE DEF first
  <2>4. first # None
    BY <2>3, RolesAssumption DEF Role
  <2> QED
    BY <2>2, <2>3, <2>4
<1>3. /\ attached = [r \in Roles |-> IF r = Admin THEN {Write, Grants} ELSE {}]
      /\ held = [a \in Accounts |-> IF a = First THEN {Admin} ELSE {}]
      /\ perms = Guarded /\ active = Accounts /\ edits = 0
  BY DEF Init
<1>4. TypeOK
  BY <1>1, <1>2, <1>3, RolesAssumption DEF TypeOK
<1>5. UniqueSlugs
  BY <1>2 DEF UniqueSlugs
<1>6. NothingDangles
  BY <1>2, <1>3, RolesAssumption DEF NothingDangles
<1> QED
  BY <1>1, <1>2, <1>4, <1>5, <1>6 DEF Inv

\* A request that begins or goes on with what it read writes nothing the invariant speaks of.
LEMMA GoesOn ==
    ASSUME Inv, NEW q \in Requests, NEW x \in ReqType, Names(x), Go(q, x), edits' \in 0 .. MaxEdits
    PROVE  /\ req' \in [Requests -> ReqType] /\ \A p \in Requests : Names(req'[p])
           /\ (role' \in [Roles -> Role \cup {None}] /\ perms' \subseteq Perms /\ attached' \in [Roles -> SUBSET Perms]
               /\ held' \in [Accounts -> SUBSET Roles] /\ active' \subseteq Accounts => TypeOK')
<1>1. req' = [req EXCEPT ![q] = x] /\ req \in [Requests -> ReqType] /\ \A p \in Requests : Names(req[p])
  BY DEF Go, Inv
<1>2. req' \in [Requests -> ReqType] /\ \A p \in Requests : Names(req'[p])
  BY <1>1
<1> QED
  BY <1>2 DEF TypeOK, ReqType

\* The bound on requests keeps its type.
LEMMA EditsType ==
    ASSUME Inv, edits' = edits \/ (edits < MaxEdits /\ edits' = edits + 1)
    PROVE  edits' \in 0 .. MaxEdits
BY RolesAssumption DEF Inv, TypeOK

\* The first statements of the requests only read.
LEMMA BeginInv ==
    ASSUME Inv, NEW q \in Requests,
           \/ \E slug \in Slugs, want \in SUBSET Perms : BeginCreate(q, slug, want)
           \/ \E r \in Roles :
                \/ BeginDelete(q, r)
                \/ \E default \in BOOLEAN, want \in (SUBSET Perms) \cup {None} : BeginPatch(q, r, default, want)
                \/ \E p \in Perms : BeginAttach(q, r, p)
                \/ \E a \in Accounts : BeginGrant(q, a, r)
    PROVE  Inv'
<1>1. UNCHANGED rows /\ edits < MaxEdits /\ edits' = edits + 1
  BY DEF BeginCreate, BeginDelete, BeginPatch, BeginAttach, BeginGrant, Edit
<1>2. \E x \in ReqType : Names(x) /\ Go(q, x)
  <2>1. CASE \E slug \in Slugs, want \in SUBSET Perms : BeginCreate(q, slug, want)
    BY <2>1 DEF BeginCreate, ReqType, NoReq, Names, Role
  <2>2. CASE \E r \in Roles : BeginDelete(q, r)
    BY <2>2 DEF BeginDelete, ReqType, NoReq, Names
  <2>3. ASSUME NEW r \in Roles, NEW default \in BOOLEAN, NEW want \in (SUBSET Perms) \cup {None},
               BeginPatch(q, r, default, want)
        PROVE  <1>2
    <3>1. role[r] \in Role /\ Go(q, [NoReq EXCEPT !.at = "update", !.r = r, !.row = [role[r] EXCEPT !.default = default],
                                                 !.before = role[r], !.want = want])
      BY <2>3 DEF BeginPatch, Inv
    <3>2. [role[r] EXCEPT !.default = default] \in Role
      BY <3>1 DEF Role
    <3> QED
      BY <3>1, <3>2 DEF ReqType, NoReq, Names
  <2>4. CASE \E r \in Roles, p \in Perms : BeginAttach(q, r, p)
    BY <2>4 DEF BeginAttach, ReqType, NoReq, Names
  <2>5. CASE \E r \in Roles, a \in Accounts : BeginGrant(q, a, r)
    BY <2>5 DEF BeginGrant, ReqType, NoReq, Names
  <2> QED
    BY <2>1, <2>2, <2>3, <2>4, <2>5
<1>3. req' \in [Requests -> ReqType] /\ (\A p \in Requests : Names(req'[p])) /\ TypeOK'
  BY <1>1, <1>2, EditsType, GoesOn DEF rows, Inv, TypeOK
<1> QED
  BY <1>1, <1>3 DEF Inv, rows, UniqueSlugs, NothingDangles

\* A request that ends, or is cut short, carries nothing.
LEMMA Ends ==
    ASSUME Inv, NEW q \in Requests, End(q)
    PROVE  req' \in [Requests -> ReqType] /\ \A p \in Requests : Names(req'[p])
<1>1. req' = [req EXCEPT ![q] = NoReq] /\ req \in [Requests -> ReqType] /\ \A p \in Requests : Names(req[p])
  BY DEF End, Go, Inv
<1> QED
  BY <1>1, NoReqType

\* The type invariant from its parts.
LEMMA Types ==
    ASSUME Inv, req' \in [Requests -> ReqType], role' \in [Roles -> Role \cup {None}], perms' \subseteq Perms,
           attached' \in [Roles -> SUBSET Perms], held' \in [Accounts -> SUBSET Roles], active' \subseteq Accounts,
           edits' = edits \/ (edits < MaxEdits /\ edits' = edits + 1)
    PROVE  TypeOK'
BY EditsType DEF TypeOK, ReqType

\* A role is inserted under a slug that no role has.
LEMMA InsertInv ==
    ASSUME Inv, NEW q \in Requests, InsertRole(q)
    PROVE  Inv'
<1>0. /\ req[q].at = "insert" /\ req[q] \in ReqType /\ Names(req[q]) /\ UNCHANGED <<perms, attached, held, active, edits>>
  BY DEF InsertRole, At, Inv
<1>1. CASE End(q) /\ UNCHANGED role
  <2>1. req' \in [Requests -> ReqType] /\ \A p \in Requests : Names(req'[p])
    BY <1>1, Ends
  <2> QED
    BY <1>0, <1>1, <2>1, Types DEF Inv, TypeOK, UniqueSlugs, NothingDangles
<1>2. CASE \E r \in Roles :
             /\ ~ Taken(req[q].row.slug) /\ role[r] = None /\ role' = [role EXCEPT ![r] = req[q].row]
             /\ End(q) \/ Go(q, [req[q] EXCEPT !.at = "check", !.r = r])
  <2> PICK r \in Roles :
             /\ ~ Taken(req[q].row.slug) /\ role[r] = None /\ role' = [role EXCEPT ![r] = req[q].row]
             /\ End(q) \/ Go(q, [req[q] EXCEPT !.at = "check", !.r = r])
    BY <1>2
  <2> DEFINE x == [req[q] EXCEPT !.at = "check", !.r = r]
  <2>1. req[q].row \in Role /\ req[q].row # None /\ req[q].want \in SUBSET Perms
    BY <1>0, RolesAssumption DEF Names, Role
  <2>2. x \in ReqType /\ Names(x)
    BY <1>0, <2>1 DEF ReqType, Names
  <2>3. req' \in [Requests -> ReqType] /\ \A p \in Requests : Names(req'[p])
    <3>1. CASE End(q)
      BY <3>1, Ends
    <3>2. CASE Go(q, x)
      BY <1>0, <2>2, <3>2 DEF Go, Inv
    <3> QED
      BY <3>1, <3>2
  <2>4. /\ role' \in [Roles -> Role \cup {None}] /\ role'[r] = req[q].row
        /\ \A s \in Roles : s # r => role'[s] = role[s]
    BY <2>1 DEF Inv
  <2>5. UniqueSlugs'
    BY <2>1, <2>4 DEF Inv, UniqueSlugs, Taken
  <2>6. NothingDangles'
    BY <1>0, <2>1, <2>4 DEF Inv, NothingDangles
  <2> QED
    BY <1>0, <2>3, <2>4, <2>5, <2>6, Types DEF Inv, TypeOK
<1> QED
  BY <1>1, <1>2 DEF InsertRole

\* An edit changes no slug.
LEMMA UpdateInv ==
    ASSUME Inv, NEW q \in Requests, UpdateRole(q)
    PROVE  Inv'
<1>0. /\ req[q].at = "update" /\ req[q] \in ReqType /\ Names(req[q]) /\ UNCHANGED <<perms, attached, held, active, edits>>
  BY DEF UpdateRole, At, Inv
<1>1. req' \in [Requests -> ReqType] /\ \A p \in Requests : Names(req'[p])
  <2> DEFINE x == [req[q] EXCEPT !.at = "check"]
  <2>1. CASE End(q)
    BY <2>1, Ends
  <2>2. CASE req[q].want # None /\ Go(q, x)
    <3>1. x \in ReqType /\ Names(x)
      BY <1>0, <2>2 DEF ReqType, Names
    <3> QED
      BY <2>2, <3>1 DEF Go, Inv
  <2> QED
    BY <2>1, <2>2 DEF UpdateRole
<1>2. /\ role' \in [Roles -> Role \cup {None}]
      /\ \A s \in Roles : /\ role'[s] = None <=> role[s] = None
                          /\ role[s] # None => role'[s].slug = role[s].slug
  <2> DEFINE r == req[q].r
  <2>1. r \in Roles /\ req[q].row.default \in BOOLEAN /\ role \in [Roles -> Role \cup {None}]
    BY <1>0 DEF Names, Role, Inv
  <2>2. CASE role' = role
    BY <2>1, <2>2
  <2>3. CASE role[r] # None /\ role' = [role EXCEPT ![r] = [role[r] EXCEPT !.default = req[q].row.default]]
    <3> DEFINE new == [role[r] EXCEPT !.default = req[q].row.default]
    <3>1. new \in Role /\ new.slug = role[r].slug /\ new # None
      BY <2>1, <2>3, RolesAssumption DEF Role
    <3> HIDE DEF r, new
    <3> QED
      BY <2>1, <2>3, <3>1 DEF new
  <2> QED
    BY <2>2, <2>3 DEF UpdateRole
<1>3. UniqueSlugs' /\ NothingDangles'
  BY <1>0, <1>2 DEF Inv, TypeOK, UniqueSlugs, NothingDangles
<1> QED
  BY <1>0, <1>1, <1>2, <1>3, Types DEF Inv, TypeOK

\* The statements that look something up.
LEMMA LookInv ==
    ASSUME Inv, NEW q \in Requests, Check(q) \/ CountHolders(q) \/ Cut(q)
    PROVE  Inv'
<1>0. UNCHANGED <<rows, edits>> /\ req[q] \in ReqType /\ Names(req[q])
  BY DEF Check, CountHolders, Cut, At, Inv
<1>1. req' \in [Requests -> ReqType] /\ \A p \in Requests : Names(req'[p])
  <2>1. CASE End(q)
    BY <2>1, Ends
  <2>2. CASE Check(q) /\ ~ End(q)
    <3> DEFINE x == [req[q] EXCEPT !.at = IF @ = "check" /\ req[q].before = None THEN "attach" ELSE "clear",
                              !.todo = req[q].want, !.kept = attached[req[q].r] \cap req[q].want]
    <3>1. req[q].at = "check" /\ Go(q, x)
      BY <2>2 DEF Check, At
    <3>2. req[q].want \in SUBSET Perms /\ req[q].r \in Roles
      BY <1>0, <3>1 DEF Names
    <3>3. x \in ReqType /\ Names(x)
      BY <1>0, <3>1, <3>2 DEF ReqType, Names
    <3> HIDE DEF x
    <3> QED
      BY <3>1, <3>3 DEF Go, Inv
  <2>3. CASE CountHolders(q) /\ ~ End(q)
    <3> DEFINE x == [req[q] EXCEPT !.at = "delete"]
    <3>1. req[q].at = "count" /\ Go(q, x)
      BY <2>3 DEF CountHolders, At
    <3>2. x \in ReqType /\ Names(x)
      BY <1>0, <3>1 DEF ReqType, Names
    <3> HIDE DEF x
    <3> QED
      BY <3>1, <3>2 DEF Go, Inv
  <2> QED
    BY <2>1, <2>2, <2>3 DEF Cut
<1> QED
  BY <1>0, <1>1, Types DEF rows, Inv, TypeOK, UniqueSlugs, NothingDangles

\* The permissions of a role change among those there are, and only of a role that is there.
LEMMA AttachedInv ==
    ASSUME Inv, UNCHANGED <<role, perms, held, active>>,
           req' \in [Requests -> ReqType], \A p \in Requests : Names(req'[p]),
           edits' = edits \/ (edits < MaxEdits /\ edits' = edits + 1),
           attached' \in [Roles -> SUBSET Perms],
           \A r \in Roles : attached'[r] \subseteq attached[r] \/ (role[r] # None /\ attached'[r] \subseteq perms)
    PROVE  Inv'
<1>1. TypeOK'
  BY Types DEF Inv, TypeOK
<1>2. NothingDangles'
  BY DEF Inv, NothingDangles
<1> QED
  BY <1>1, <1>2 DEF Inv, UniqueSlugs

LEMMA PermissionsInv ==
    ASSUME Inv, NEW q \in Requests, Clear(q) \/ AttachNext(q) \/ \E r \in Roles, p \in Perms : Detach(q, r, p)
    PROVE  Inv'
<1>0. attached \in [Roles -> SUBSET Perms] /\ req[q] \in ReqType /\ Names(req[q]) /\ perms \subseteq Perms
  BY DEF Inv, TypeOK
<1>1. CASE Clear(q)
  <2> DEFINE x == [req[q] EXCEPT !.at = "attach"]
  <2>1. req[q].at = "clear" /\ Go(q, x) /\ attached' = [attached EXCEPT ![req[q].r] = {}] /\ UNCHANGED <<role, perms, held, active, edits>>
    BY <1>1 DEF Clear, At, Cleared
  <2>2. x \in ReqType /\ Names(x)
    BY <1>0, <2>1 DEF ReqType, Names
  <2> HIDE DEF x
  <2>3. req' \in [Requests -> ReqType] /\ \A p \in Requests : Names(req'[p])
    BY <2>1, <2>2 DEF Go, Inv
  <2>4. attached' \in [Roles -> SUBSET Perms] /\ \A r \in Roles : attached'[r] \subseteq attached[r]
    BY <1>0, <2>1
  <2> QED
    BY <2>1, <2>3, <2>4, AttachedInv
<1>2. CASE AttachNext(q)
  <2>1. UNCHANGED <<role, perms, held, active, edits>> /\ req[q].at = "attach" /\ req[q].r \in Roles
    BY <1>0, <1>2 DEF AttachNext, At, Names
  <2>2. CASE End(q) /\ UNCHANGED attached
    <3>1. req' \in [Requests -> ReqType] /\ \A p \in Requests : Names(req'[p])
      BY <2>2, Ends
    <3> QED
      BY <1>0, <2>1, <2>2, <3>1, AttachedInv
  <2>3. CASE \E p \in req[q].todo :
               /\ p \in perms /\ role[req[q].r] # None
               /\ attached' = [attached EXCEPT ![req[q].r] = @ \cup {p}] /\ Go(q, [req[q] EXCEPT !.todo = @ \ {p}])
    <3> PICK p \in req[q].todo :
               /\ p \in perms /\ role[req[q].r] # None
               /\ attached' = [attached EXCEPT ![req[q].r] = @ \cup {p}] /\ Go(q, [req[q] EXCEPT !.todo = @ \ {p}])
      BY <2>3
    <3> DEFINE x == [req[q] EXCEPT !.todo = @ \ {p}]
               r == req[q].r
    <3>1. x \in ReqType /\ Names(x) /\ Go(q, x)
      BY <1>0, <2>1 DEF ReqType, Names
    <3> HIDE DEF x
    <3>2. req' \in [Requests -> ReqType] /\ \A z \in Requests : Names(req'[z])
      BY <3>1 DEF Go, Inv
    <3>3. r \in Roles /\ role[r] # None /\ attached' = [attached EXCEPT ![r] = attached[r] \cup {p}] /\ p \in perms
      BY <2>1
    <3> HIDE DEF r
    <3>4. attached' \in [Roles -> SUBSET Perms] /\ \A s \in Roles : s # r => attached'[s] = attached[s]
      BY <1>0, <3>3
    <3>5. attached'[r] \subseteq perms
      BY <1>0, <3>3 DEF Inv, NothingDangles
    <3>6. \A s \in Roles : attached'[s] \subseteq attached[s] \/ (role[s] # None /\ attached'[s] \subseteq perms)
      BY <3>3, <3>4, <3>5
    <3> QED
      BY <2>1, <3>2, <3>4, <3>6, AttachedInv
  <2> QED
    BY <1>2, <2>2, <2>3 DEF AttachNext
<1>3. CASE \E r \in Roles, p \in Perms : Detach(q, r, p)
  <2> PICK r \in Roles, p \in Perms : Detach(q, r, p)
    BY <1>3
  <2>1. attached' = [attached EXCEPT ![r] = @ \ {p}] /\ UNCHANGED <<role, perms, held, active, req>> /\ edits < MaxEdits /\ edits' = edits + 1
    BY DEF Detach, Edit
  <2>2. attached' \in [Roles -> SUBSET Perms] /\ \A s \in Roles : attached'[s] \subseteq attached[s]
    BY <1>0, <2>1
  <2> QED
    BY <2>1, <2>2, AttachedInv DEF Inv
<1> QED
  BY <1>1, <1>2, <1>3

\* A role goes with what it carried and with who held it.
LEMMA DeleteInv ==
    ASSUME Inv, NEW q \in Requests, DeleteRole(q)
    PROVE  Inv'
<1> DEFINE r == req[q].r
<1>0. req[q].at = "delete" /\ r \in Roles /\ UNCHANGED <<perms, active, edits>>
  BY DEF DeleteRole, At, Inv, Names
<1>1. /\ role' = [role EXCEPT ![r] = None] /\ attached' = [attached EXCEPT ![r] = {}]
      /\ held' = [a \in Accounts |-> held[a] \ {r}] /\ End(q)
  BY DEF DeleteRole, Without
<1> HIDE DEF r
<1>2. req' \in [Requests -> ReqType] /\ \A p \in Requests : Names(req'[p])
  BY <1>1, Ends
<1>3. /\ role' \in [Roles -> Role \cup {None}] /\ attached' \in [Roles -> SUBSET Perms]
      /\ held' \in [Accounts -> SUBSET Roles]
      /\ role'[r] = None /\ attached'[r] = {}
      /\ \A s \in Roles : s # r => role'[s] = role[s] /\ attached'[s] = attached[s]
      /\ \A a \in Accounts : held'[a] = held[a] \ {r}
  BY <1>0, <1>1 DEF Inv, TypeOK
<1>4. UniqueSlugs' /\ NothingDangles'
  BY <1>0, <1>3 DEF Inv, TypeOK, UniqueSlugs, NothingDangles
<1> QED
  BY <1>0, <1>2, <1>3, <1>4, Types DEF Inv, TypeOK

\* The catalogue grows, or loses a permission together with its attachments.
LEMMA CatalogueInv ==
    ASSUME Inv, NEW q \in Requests, NEW p \in Perms, CreatePermission(q, p) \/ DeletePermission(q, p)
    PROVE  Inv'
<1>0. UNCHANGED <<role, held, active, req>> /\ edits < MaxEdits /\ edits' = edits + 1
  BY DEF CreatePermission, DeletePermission, Edit
<1>1. perms' \subseteq Perms /\ attached' \in [Roles -> SUBSET Perms] /\ NothingDangles'
  <2>1. CASE CreatePermission(q, p)
    BY <1>0, <2>1 DEF CreatePermission, Inv, TypeOK, NothingDangles
  <2>2. CASE DeletePermission(q, p)
    <3>1. perms' = perms \ {p} /\ attached' = [r \in Roles |-> attached[r] \ {p}]
      BY <2>2 DEF DeletePermission
    <3> QED
      BY <1>0, <3>1 DEF Inv, TypeOK, NothingDangles
  <2> QED
    BY <2>1, <2>2
<1> QED
  BY <1>0, <1>1, Types DEF Inv, TypeOK, UniqueSlugs

\* A grant is of a role that is there still; revocations and the status of accounts take nothing away from roles.
LEMMA AccountsInv ==
    ASSUME Inv, NEW q \in Requests,
           \/ GrantRole(q)
           \/ \E a \in Accounts, r \in Roles : RevokeRole(q, a, r)
           \/ \E a \in Accounts : SetStatus(q, a)
    PROVE  Inv'
<1>0. held \in [Accounts -> SUBSET Roles]
  BY DEF Inv, TypeOK
<1>1. CASE GrantRole(q)
  <2>1. /\ req[q].at = "grant" /\ UNCHANGED <<role, perms, attached, active, edits>>
        /\ req[q].r \in Roles /\ req[q].a \in Accounts
        /\ held' = held \/ (role[req[q].r] # None /\ held' = [held EXCEPT ![req[q].a] = @ \cup {req[q].r}])
    BY <1>1 DEF GrantRole, At, Inv, Names
  <2>2. req' \in [Requests -> ReqType] /\ \A p \in Requests : Names(req'[p])
    BY <1>1, Ends DEF GrantRole
  <2>3. /\ held' \in [Accounts -> SUBSET Roles]
        /\ \A a \in Accounts : \A r \in held'[a] : r \in held[a] \/ role[r] # None
    BY <1>0, <2>1
  <2> QED
    BY <2>1, <2>2, <2>3, Types DEF Inv, TypeOK, UniqueSlugs, NothingDangles
<1>2. CASE \E a \in Accounts, r \in Roles : RevokeRole(q, a, r)
  <2> PICK a \in Accounts, r \in Roles : RevokeRole(q, a, r)
    BY <1>2
  <2>1. /\ UNCHANGED <<role, perms, attached, active, req>> /\ edits < MaxEdits /\ edits' = edits + 1
        /\ held' = [held EXCEPT ![a] = @ \ {r}]
    BY DEF RevokeRole, Edit
  <2>2. held' \in [Accounts -> SUBSET Roles] /\ \A b \in Accounts : held'[b] \subseteq held[b]
    BY <1>0, <2>1
  <2> QED
    BY <2>1, <2>2, Types DEF Inv, TypeOK, UniqueSlugs, NothingDangles
<1>3. CASE \E a \in Accounts : SetStatus(q, a)
  <2>1. /\ UNCHANGED <<role, perms, attached, held, req>> /\ edits < MaxEdits /\ edits' = edits + 1
        /\ active' \subseteq Accounts
    BY <1>3 DEF SetStatus, Edit, Inv, TypeOK
  <2> QED
    BY <2>1, Types DEF Inv, TypeOK, UniqueSlugs, NothingDangles
<1> QED
  BY <1>1, <1>2, <1>3

-----------------------------------------------------------------------------
\* Every step keeps the invariant.
LEMMA NextInv == Inv /\ [Next]_vars => Inv'
<1> SUFFICES ASSUME Inv, [Next]_vars PROVE Inv'
  OBVIOUS
<1>1. CASE UNCHANGED vars
  BY <1>1 DEF vars, rows, Inv, TypeOK, UniqueSlugs, NothingDangles
<1>2. CASE \E q \in Requests :
             InsertRole(q) \/ UpdateRole(q) \/ Check(q) \/ Clear(q) \/ AttachNext(q) \/ CountHolders(q)
             \/ DeleteRole(q) \/ GrantRole(q) \/ Cut(q)
  BY <1>2, InsertInv, UpdateInv, LookInv, PermissionsInv, DeleteInv, AccountsInv
<1>3. CASE \E q \in Requests :
             \/ \E slug \in Slugs, want \in SUBSET Perms : BeginCreate(q, slug, want)
             \/ \E r \in Roles :
                  \/ BeginDelete(q, r)
                  \/ \E default \in BOOLEAN, want \in (SUBSET Perms) \cup {None} : BeginPatch(q, r, default, want)
                  \/ \E p \in Perms : BeginAttach(q, r, p)
                  \/ \E a \in Accounts : BeginGrant(q, a, r)
  BY <1>3, BeginInv
<1>4. CASE \E q \in Requests :
             \/ \E r \in Roles : \/ \E p \in Perms : Detach(q, r, p)
                                 \/ \E a \in Accounts : RevokeRole(q, a, r)
             \/ \E p \in Perms : CreatePermission(q, p) \/ DeletePermission(q, p)
             \/ \E a \in Accounts : SetStatus(q, a)
  BY <1>4, PermissionsInv, AccountsInv, CatalogueInv
<1> QED
  BY <1>1, <1>2, <1>3, <1>4 DEF Next, List

LEMMA InvHolds == Spec => []Inv
BY InitInv, NextInv, PTL DEF Spec

\* The tables and the requests have their types.
THEOREM TypeCorrect == Spec => []TypeOK
<1>1. Inv => TypeOK
  BY DEF Inv
<1> QED
  BY InvHolds, <1>1, PTL

\* No two roles have one slug, whichever registrations overlap.
THEOREM SlugsAreUnique == Spec => []UniqueSlugs
<1>1. Inv => UniqueSlugs
  BY DEF Inv
<1> QED
  BY InvHolds, <1>1, PTL

\* Nobody holds, and no role carries, what is gone, wherever a request was when it went.
THEOREM NoneDangles == Spec => []NothingDangles
<1>1. Inv => NothingDangles
  BY DEF Inv
<1> QED
  BY InvHolds, <1>1, PTL

-----------------------------------------------------------------------------
(* The authorization endpoint *)

\* What an HTTP request carries from one statement to the next.
AskType == [at : {"none", "park", "issue", "code", "replace", "start"}, b : Browsers \cup {None}, p : Parked \cup {None},
            user : Users \cup {None}, s : Sessions \cup {None}, prompt : A!Prompts, maxAge : MaxAges \cup {None}, asked : A!Times]

AuthorizeTypes ==
    /\ clock \in A!Times /\ edits \in 0 .. MaxEdits
    /\ sso \in [Sessions -> A!Session \cup {None}] /\ cookie \in [Browsers -> Sessions \cup {None}]
    /\ parked \in [Parked -> A!Park \cup {None}] /\ shown \in [Parked -> SUBSET (Users \cup {None})]
    /\ codes \subseteq A!Code /\ req \in [Requests -> AskType]

\* A parked request was asked for by now, its stamp is a session, and the front-end was told of
\* no account but that session's.
ParkedOK ==
    \A p \in Parked :
        /\ parked[p] # None => parked[p].at <= clock /\ (parked[p].stamp # None => sso[parked[p].stamp] # None)
        /\ \A u \in shown[p] \ {None} :
             parked[p] # None /\ parked[p].stamp # None /\ sso[parked[p].stamp].user = u

\* A request carries sessions that were opened, knows what it was asked and when, and answers at once
\* only from a session that is recent enough, or that the parked request is bound to.
Asks(r) ==
    /\ r.at # "none" => r.b \in Browsers /\ r.asked <= clock /\ (r.s # None => sso[r.s] # None)
    /\ r.at = "park" => r.prompt # "none"
    /\ r.at = "issue" => r.s \in Sessions
    /\ r.at = "issue" /\ r.p = None => r.prompt = "none" /\ (r.maxAge # None => r.asked - sso[r.s].at <= r.maxAge)
    /\ r.at = "issue" /\ r.p # None => /\ "continue" \in Duties /\ parked[r.p] # None
                                       /\ parked[r.p].stamp # None => parked[r.p].stamp = r.s
    /\ r.at \in {"replace", "start", "code"} => r.p \in Parked /\ r.user \in Users
    /\ r.at = "code" => r.s \in Sessions /\ sso[r.s].at >= r.asked

Asking == \A q \in Requests : Asks(req[q])

\* The codes of the past: fresh unless they came of the Authorize button, and as shown if they did.
CodesOK ==
    /\ A!GrantedAsShown
    /\ \A k \in codes : IF k.way = "continue" THEN "continue" \in Duties ELSE A!Fresh(k)

AuthorizeInv == AuthorizeTypes /\ ParkedOK /\ Asking /\ CodesOK

\* No step forgets a session, changes whose it is or when it began, or a parked request but its expiry.
Lasts ==
    /\ clock' \in A!Times /\ clock' >= clock
    /\ \A s \in Sessions : sso[s] # None => /\ sso'[s] # None /\ sso'[s].user = sso[s].user
                                            /\ sso'[s].at = sso[s].at /\ sso'[s].browser = sso[s].browser
    /\ \A p \in Parked : parked[p] # None => /\ parked'[p] # None /\ parked'[p].stamp = parked[p].stamp
                                             /\ parked'[p].at = parked[p].at

\* Nobody has asked for anything.
LEMMA AuthorizeInit == ASSUME A!AuthorizeAssumption, A!Init PROVE AuthorizeInv
<1>1. A!NoReq \in AskType /\ Asks(A!NoReq)
  BY DEF A!AuthorizeAssumption, A!NoReq, AskType, Asks, A!Prompts, A!Times
<1>2. AuthorizeTypes
  BY <1>1 DEF A!AuthorizeAssumption, A!Init, AuthorizeTypes, A!Times
<1>3. ParkedOK /\ Asking /\ CodesOK
  BY <1>1 DEF A!Init, ParkedOK, Asking, CodesOK, A!GrantedAsShown
<1> QED
  BY <1>2, <1>3 DEF AuthorizeInv

\* What a request carries stays true while other requests run.
LEMMA AsksLast ==
    ASSUME A!AuthorizeAssumption, AuthorizeInv, Lasts, NEW x \in AskType, Asks(x)
    PROVE  Asks(x)'
<1>1. clock \in Int /\ clock' \in Int /\ clock' >= clock /\ x.asked \in Int
  BY DEF AuthorizeInv, AuthorizeTypes, A!Times, Lasts, AskType
<1>2. x.at = "none" \/ x.asked <= clock'
  BY <1>1 DEF Asks
<1>3. x.s \in Sessions /\ x.at # "none" => sso[x.s] # None /\ sso'[x.s] # None /\ sso'[x.s].at = sso[x.s].at
  BY DEF A!AuthorizeAssumption, Asks, Lasts
<1>4. x.s # None /\ x.at # "none" => sso'[x.s] # None
  BY <1>3 DEF AskType
<1>5. x.p \in Parked /\ parked[x.p] # None => parked'[x.p] # None /\ parked'[x.p].stamp = parked[x.p].stamp
  BY DEF Lasts
<1>6. x.p # None => x.p \in Parked
  BY DEF AskType
<1> QED
  BY <1>2, <1>3, <1>4, <1>5, <1>6 DEF Asks

\* A request that goes on leaves what the others carry.
LEMMA OneAsks ==
    ASSUME A!AuthorizeAssumption, AuthorizeInv, Lasts, NEW q \in Requests, NEW x \in AskType, Asks(x)', A!Go(q, x)
    PROVE  req' \in [Requests -> AskType] /\ Asking'
<1>1. req' = [req EXCEPT ![q] = x] /\ req \in [Requests -> AskType]
  BY DEF A!Go, AuthorizeInv, AuthorizeTypes
<1>2. ASSUME NEW p \in Requests PROVE Asks(req[p])'
  <2>1. CASE p = q
    <3>1. req'[p] = x
      BY <1>1, <2>1
    <3> QED
      BY <3>1 DEF Asks
  <2>2. CASE p # q
    <3>1. req'[p] = req[p] /\ req[p] \in AskType /\ Asks(req[p])
      BY <1>1, <2>2 DEF AuthorizeInv, Asking
    <3> DEFINE y == req[p]
    <3>2. \A z \in AskType : Asks(z) => Asks(z)'
      BY AsksLast
    <3>3. \A z \in AskType : Asks(z)' /\ req'[p] = z => Asks(req[p])'
      BY DEF Asks
    <3> QED
      BY <3>1, <3>2, <3>3
  <2> QED
    BY <2>1, <2>2
<1> QED
  BY <1>1, <1>2 DEF Asking

\* A request that ends carries nothing.
LEMMA OneEnds ==
    ASSUME A!AuthorizeAssumption, AuthorizeInv, Lasts, NEW q \in Requests, A!End(q)
    PROVE  req' \in [Requests -> AskType] /\ Asking'
<1>1. A!NoReq \in AskType /\ Asks(A!NoReq)'
  BY DEF A!AuthorizeAssumption, A!NoReq, AskType, Asks, A!Prompts, A!Times
<1> QED
  BY <1>1, OneAsks DEF A!End

\* With the tables as they were, everything else stands.
LEMMA SameTables ==
    ASSUME A!AuthorizeAssumption, AuthorizeInv, UNCHANGED <<clock, sso, cookie, parked, codes, shown>>, edits' \in 0 .. MaxEdits,
           NEW q \in Requests, NEW x \in AskType, Asks(x), A!Go(q, x)
    PROVE  AuthorizeInv'
<1>1. Lasts
  BY DEF AuthorizeInv, AuthorizeTypes, A!Times, Lasts
<1>2. Asks(x)'
  BY DEF Asks
<1>3. req' \in [Requests -> AskType] /\ Asking'
  BY <1>1, <1>2, OneAsks
<1> QED
  BY <1>3 DEF AuthorizeInv, AuthorizeTypes, ParkedOK, CodesOK, A!GrantedAsShown, A!Fresh

\* A request is read with the session its browser holds, and goes on.
LEMMA BeginAsk ==
    ASSUME A!AuthorizeAssumption, AuthorizeInv, NEW q \in Requests, NEW b \in Browsers,
           \/ \E prompt \in A!Prompts, age \in MaxAges \cup {None} : A!BeginAuthorize(q, b, prompt, age)
           \/ \E p \in Parked : A!Continue(q, b, p)
           \/ \E p \in Parked, u \in Users : A!BeginSignIn(q, b, u, p)
    PROVE  AuthorizeInv'
<1>0. /\ clock \in A!Times /\ clock <= clock
      /\ edits' \in 0 .. MaxEdits /\ UNCHANGED <<clock, sso, cookie, parked, codes, shown>>
  <2>1. clock \in A!Times /\ edits \in 0 .. MaxEdits /\ MaxEdits \in Nat
    BY DEF AuthorizeInv, AuthorizeTypes, A!AuthorizeAssumption
  <2>2. edits < MaxEdits /\ edits' = edits + 1 /\ UNCHANGED <<clock, sso, cookie, parked, codes, shown>>
    BY DEF A!Edit, A!BeginAuthorize, A!Continue, A!BeginSignIn
  <2> QED
    BY <2>1, <2>2 DEF A!Times
<1>1. A!Held(b) \in Sessions \cup {None} /\ (A!Held(b) # None => sso[A!Held(b)] # None)
  BY DEF A!Held, A!Live, AuthorizeInv, AuthorizeTypes
<1>2. ASSUME NEW prompt \in A!Prompts, NEW age \in MaxAges \cup {None}, A!BeginAuthorize(q, b, prompt, age)
      PROVE  AuthorizeInv'
  <2> DEFINE s == IF A!Acceptable(A!Held(b), prompt, age) THEN A!Held(b) ELSE None
             x == [A!NoReq EXCEPT !.at = IF prompt = "none" THEN "issue" ELSE "park", !.b = b, !.s = s,
                                  !.prompt = prompt, !.maxAge = age, !.asked = clock]
  <2>1. CASE UNCHANGED req
    BY <1>0, <2>1 DEF AuthorizeInv, AuthorizeTypes, ParkedOK, Asking, Asks, CodesOK, A!GrantedAsShown, A!Fresh
  <2>2. CASE ~ (prompt = "none" /\ s = None) /\ A!Go(q, x)
    <3>1. s \in Sessions \cup {None} /\ (s # None => sso[s] # None /\ A!Acceptable(s, prompt, age))
      BY <1>1
    <3> HIDE DEF s
    <3>2. x \in AskType
      BY <1>0, <3>1 DEF AskType, A!NoReq, A!Times
    <3>3. Asks(x)
      BY <1>0, <2>2, <3>1 DEF Asks, A!NoReq, A!Acceptable
    <3> QED
      BY <1>0, <2>2, <3>2, <3>3, SameTables
  <2> QED
    BY <1>2, <2>1, <2>2 DEF A!BeginAuthorize
<1>3. ASSUME NEW p \in Parked, A!Continue(q, b, p)
      PROVE  AuthorizeInv'
  <2> DEFINE x == [at |-> "issue", b |-> b, p |-> p, user |-> None, s |-> A!Held(b), prompt |-> parked[p].prompt,
                   maxAge |-> parked[p].maxAge, asked |-> parked[p].at]
  <2>1. parked[p] \in A!Park /\ parked[p].at <= clock
    BY <1>3 DEF A!Continue, AuthorizeInv, AuthorizeTypes, ParkedOK
  <2>2. A!Go(q, x) /\ A!Held(b) # None /\ parked[p] # None /\ A!Continues(p, A!Held(b)) /\ "continue" \in Duties
    BY <1>3 DEF A!Continue, A!Edit
  <2>3. x \in AskType
    BY <1>1, <2>1 DEF AskType, A!Park
  <2>4. Asks(x)
    BY <1>1, <2>1, <2>2 DEF Asks, A!Continues, A!AuthorizeAssumption
  <2> QED
    BY <1>0, <2>2, <2>3, <2>4, SameTables
<1>4. ASSUME NEW p \in Parked, NEW u \in Users, A!BeginSignIn(q, b, u, p)
      PROVE  AuthorizeInv'
  <2> DEFINE x == [at |-> "replace", b |-> b, p |-> p, user |-> u, s |-> A!Held(b), prompt |-> parked[p].prompt,
                   maxAge |-> parked[p].maxAge, asked |-> parked[p].at]
  <2>1. parked[p] \in A!Park /\ parked[p].at <= clock
    BY <1>4 DEF A!BeginSignIn, AuthorizeInv, AuthorizeTypes, ParkedOK
  <2>2. A!Go(q, x)
    BY <1>4 DEF A!BeginSignIn
  <2>3. x \in AskType
    BY <1>1, <2>1 DEF AskType, A!Park
  <2>4. Asks(x)
    BY <1>1, <2>1, <2>2 DEF Asks
  <2> QED
    BY <1>0, <2>2, <2>3, <2>4, SameTables
<1> QED
  BY <1>2, <1>3, <1>4

\* A request is parked with the session it found, in a row that was free.
LEMMA ParkInv ==
    ASSUME A!AuthorizeAssumption, AuthorizeInv, NEW q \in Requests, NEW p \in Parked, A!ParkRequest(q, p)
    PROVE  AuthorizeInv'
<1> DEFINE r == req[q]
           row == [prompt |-> r.prompt, maxAge |-> r.maxAge, at |-> r.asked, stamp |-> r.s, expired |-> FALSE]
<1>1. r \in AskType /\ Asks(r) /\ r.at = "park"
  BY DEF AuthorizeInv, AuthorizeTypes, Asking, A!ParkRequest, A!At
<1>2. row \in A!Park /\ row.at <= clock /\ (row.stamp # None => sso[row.stamp] # None)
  BY <1>1 DEF A!Park, AskType, Asks
<1>3. row # None
  BY <1>2 DEF A!AuthorizeAssumption
<1>4. /\ parked[p] = None /\ parked' = [parked EXCEPT ![p] = row] /\ A!End(q)
      /\ UNCHANGED <<clock, sso, cookie, codes, shown, edits>>
  BY DEF A!ParkRequest, A!At
<1> HIDE DEF row, r
<1>5. parked' \in [Parked -> A!Park \cup {None}] /\ parked'[p] = row /\ \A y \in Parked : y # p => parked'[y] = parked[y]
  BY <1>2, <1>4 DEF AuthorizeInv, AuthorizeTypes
<1>6. Lasts
  BY <1>4, <1>5 DEF Lasts, AuthorizeInv, AuthorizeTypes, A!Times
<1>7. req' \in [Requests -> AskType] /\ Asking'
  BY <1>4, <1>6, OneEnds
<1>8. ParkedOK'
  BY <1>2, <1>3, <1>4, <1>5 DEF AuthorizeInv, ParkedOK
<1> QED
  BY <1>4, <1>5, <1>7, <1>8 DEF AuthorizeInv, AuthorizeTypes, CodesOK, A!GrantedAsShown, A!Fresh

\* The front-end is told whose the stamped session is.
LEMMA DescribeInv ==
    ASSUME A!AuthorizeAssumption, AuthorizeInv, NEW q \in Requests, NEW p \in Parked, A!Describe(q, p)
    PROVE  AuthorizeInv'
<1> DEFINE t == IF A!Live(parked[p].stamp) THEN sso[parked[p].stamp].user ELSE None
<1>1. /\ parked[p] # None /\ shown' = [shown EXCEPT ![p] = shown[p] \cup {t}]
      /\ UNCHANGED <<clock, sso, cookie, parked, codes, req>>
  BY DEF A!Describe
<1>2. edits' \in 0 .. MaxEdits
  BY DEF A!Describe, A!Edit, A!AuthorizeAssumption, AuthorizeInv, AuthorizeTypes
<1>3. parked[p] \in A!Park /\ sso \in [Sessions -> A!Session \cup {None}]
  BY <1>1 DEF AuthorizeInv, AuthorizeTypes
<1>4. t \in Users \cup {None} /\ (t # None => parked[p].stamp # None /\ sso[parked[p].stamp].user = t)
  BY <1>3 DEF A!Live, A!Park, A!Session
<1> HIDE DEF t
<1>5. shown' \in [Parked -> SUBSET (Users \cup {None})]
  BY <1>1, <1>4 DEF AuthorizeInv, AuthorizeTypes
<1>6. ParkedOK'
  BY <1>1, <1>4, <1>5 DEF AuthorizeInv, AuthorizeTypes, ParkedOK
<1> QED
  BY <1>1, <1>2, <1>5, <1>6 DEF AuthorizeInv, AuthorizeTypes, Asking, Asks, CodesOK, A!GrantedAsShown, A!Fresh

\* A code of a session: recent enough, or of the session the request was bound to, which is the one shown.
LEMMA FromSessionInv ==
    ASSUME A!AuthorizeAssumption, AuthorizeInv, NEW q \in Requests, A!FromSession(q)
    PROVE  AuthorizeInv'
<1> DEFINE r == req[q]
           k == [user |-> sso[r.s].user, auth |-> sso[r.s].at, prompt |-> r.prompt, maxAge |-> r.maxAge,
                 asked |-> r.asked, way |-> IF r.p = None THEN "none" ELSE "continue", parked |-> r.p,
                 told |-> IF r.p = None THEN {} ELSE shown[r.p]]
<1>1. r \in AskType /\ Asks(r) /\ r.at = "issue"
  BY DEF AuthorizeInv, AuthorizeTypes, Asking, A!FromSession, A!At
<1>2. codes' = codes \cup {k} /\ A!End(q) /\ UNCHANGED <<clock, sso, cookie, parked, shown, edits>>
  BY DEF A!FromSession, A!At
<1>3. r.s \in Sessions /\ sso[r.s] # None /\ sso[r.s] \in A!Session
  BY <1>1 DEF Asks, A!AuthorizeAssumption, AuthorizeInv, AuthorizeTypes
<1>4. r.p # None => shown[r.p] \in SUBSET (Users \cup {None})
  BY <1>1 DEF AskType, AuthorizeInv, AuthorizeTypes
<1>5. k \in A!Code
  BY <1>1, <1>3, <1>4 DEF A!Code, AskType, A!Session
<1>6. k.way = "continue" => "continue" \in Duties
  BY <1>1 DEF Asks
<1>7. k.way # "continue" => A!Fresh(k)
  BY <1>1 DEF Asks, A!Fresh
<1>8. k.way = "continue" /\ k.told \cap Users # {} => k.user \in k.told
  <2> SUFFICES ASSUME r.p # None, NEW u \in shown[r.p] \cap Users PROVE sso[r.s].user = u
    BY <1>1
  <2>1. u # None /\ r.p \in Parked
    BY <1>1 DEF A!AuthorizeAssumption, AskType
  <2>2. parked[r.p].stamp # None /\ sso[parked[r.p].stamp].user = u
    BY <2>1 DEF AuthorizeInv, ParkedOK
  <2> QED
    BY <1>1, <2>1, <2>2 DEF Asks
<1> HIDE DEF k, r
<1>9. CodesOK'
  BY <1>2, <1>6, <1>7, <1>8 DEF AuthorizeInv, CodesOK, A!GrantedAsShown, A!Fresh
<1>10. Lasts
  BY <1>2 DEF Lasts, AuthorizeInv, AuthorizeTypes, A!Times
<1>11. req' \in [Requests -> AskType] /\ Asking'
  BY <1>2, <1>10, OneEnds
<1> QED
  BY <1>2, <1>5, <1>9, <1>11 DEF AuthorizeInv, AuthorizeTypes, ParkedOK

\* The session that is replaced, or signed out of, is revoked and is otherwise what it was.
LEMMA RevokedInv ==
    ASSUME A!AuthorizeAssumption, AuthorizeInv, NEW s \in Sessions, sso[s] # None, sso' = [sso EXCEPT ![s].revoked = TRUE],
           UNCHANGED <<clock, parked, codes, shown>>
    PROVE  sso' \in [Sessions -> A!Session \cup {None}] /\ Lasts /\ ParkedOK' /\ CodesOK'
<1>1. sso \in [Sessions -> A!Session \cup {None}] /\ sso[s] \in A!Session
  BY DEF AuthorizeInv, AuthorizeTypes
<1>2. [sso[s] EXCEPT !.revoked = TRUE] \in A!Session
  BY <1>1 DEF A!Session
<1>3. /\ sso' \in [Sessions -> A!Session \cup {None}]
      /\ sso'[s] = [sso[s] EXCEPT !.revoked = TRUE] /\ \A y \in Sessions : y # s => sso'[y] = sso[y]
  BY <1>1, <1>2
<1>4. sso'[s] # None /\ sso'[s].user = sso[s].user /\ sso'[s].at = sso[s].at /\ sso'[s].browser = sso[s].browser
  BY <1>1, <1>2, <1>3 DEF A!Session, A!AuthorizeAssumption
<1>5. Lasts
  BY <1>3, <1>4 DEF Lasts, AuthorizeInv, AuthorizeTypes, A!Times
<1>6. ParkedOK'
  <2>1. \A p \in Parked : parked[p] # None => parked[p].stamp \in Sessions \cup {None}
    BY DEF AuthorizeInv, AuthorizeTypes, A!Park
  <2> QED
    BY <1>3, <1>4, <2>1 DEF AuthorizeInv, ParkedOK
<1> QED
  BY <1>3, <1>5, <1>6 DEF AuthorizeInv, CodesOK, A!GrantedAsShown, A!Fresh

LEMMA ReplaceInv ==
    ASSUME A!AuthorizeAssumption, AuthorizeInv, NEW q \in Requests, A!Replace(q)
    PROVE  AuthorizeInv'
<1> DEFINE r == req[q]
           x == [r EXCEPT !.at = "start"]
<1>1. r \in AskType /\ Asks(r) /\ r.at = "replace"
  BY DEF AuthorizeInv, AuthorizeTypes, Asking, A!Replace, A!At
<1>2. A!Go(q, x) /\ UNCHANGED <<clock, cookie, parked, codes, shown, edits>>
  BY DEF A!Replace, A!At
<1>3. x \in AskType /\ Asks(x)
  BY <1>1 DEF AskType, Asks
<1>4. sso' \in [Sessions -> A!Session \cup {None}] /\ Lasts /\ ParkedOK' /\ CodesOK'
  <2>1. CASE r.s = None
    <3>1. UNCHANGED sso
      BY <2>1 DEF A!Replace
    <3> QED
      BY <1>2, <3>1 DEF AuthorizeInv, AuthorizeTypes, A!Times, Lasts, ParkedOK, CodesOK, A!GrantedAsShown, A!Fresh
  <2>2. CASE r.s # None
    <3>1. r.s \in Sessions /\ sso[r.s] # None /\ sso' = [sso EXCEPT ![r.s].revoked = TRUE]
      BY <1>1, <2>2 DEF AskType, Asks, A!Replace, A!Replaced
    <3> QED
      BY <1>2, <3>1, RevokedInv
  <2> QED
    BY <2>1, <2>2
<1>5. PICK y \in AskType : Asks(y) /\ A!Go(q, y)
  BY <1>2, <1>3
<1>6. req' \in [Requests -> AskType] /\ Asking'
  BY <1>4, <1>5, AsksLast, OneAsks
<1> QED
  BY <1>2, <1>4, <1>6 DEF AuthorizeInv, AuthorizeTypes

LEMMA LogoutInv ==
    ASSUME A!AuthorizeAssumption, AuthorizeInv, NEW q \in Requests, NEW b \in Browsers, A!Logout(q, b)
    PROVE  AuthorizeInv'
<1>1. /\ A!Held(b) # None /\ sso' = [sso EXCEPT ![cookie[b]].revoked = TRUE] /\ cookie' = [cookie EXCEPT ![b] = None]
      /\ UNCHANGED <<clock, parked, codes, shown, req>>
  BY DEF A!Logout
<1>2. edits' \in 0 .. MaxEdits
  BY DEF A!Logout, A!Edit, A!AuthorizeAssumption, AuthorizeInv, AuthorizeTypes
<1>3. cookie[b] \in Sessions /\ sso[cookie[b]] # None
  BY <1>1 DEF A!Held, A!Live, AuthorizeInv, AuthorizeTypes
<1>4. sso' \in [Sessions -> A!Session \cup {None}] /\ Lasts /\ ParkedOK' /\ CodesOK'
  BY <1>1, <1>3, RevokedInv
<1>5. Asking'
  <2>1. \A y \in AskType : Asks(y) => Asks(y)'
    BY <1>4, AsksLast
  <2>2. \A p \in Requests : req[p] \in AskType /\ Asks(req[p])
    BY DEF AuthorizeInv, AuthorizeTypes, Asking
  <2>3. \A y \in AskType, p \in Requests : req'[p] = y /\ Asks(y)' => Asks(req[p])'
    BY DEF Asks
  <2> QED
    BY <1>1, <2>1, <2>2, <2>3 DEF Asking
<1> QED
  BY <1>1, <1>2, <1>4, <1>5 DEF AuthorizeInv, AuthorizeTypes

\* A session begins now, after what was asked.
LEMMA StartInv ==
    ASSUME A!AuthorizeAssumption, AuthorizeInv, NEW q \in Requests, NEW s \in Sessions, A!Start(q, s)
    PROVE  AuthorizeInv'
<1> DEFINE r == req[q]
           row == [user |-> r.user, at |-> clock, browser |-> r.b, revoked |-> FALSE]
           x == [r EXCEPT !.at = "code", !.s = s]
<1>1. r \in AskType /\ Asks(r) /\ r.at = "start"
  BY DEF AuthorizeInv, AuthorizeTypes, Asking, A!Start, A!At
<1>2. /\ sso[s] = None /\ sso' = [sso EXCEPT ![s] = row] /\ A!Go(q, x)
      /\ UNCHANGED <<clock, cookie, parked, codes, shown, edits>>
  BY DEF A!Start, A!At
<1>3. row \in A!Session /\ row # None
  <2>1. r.user \in Users /\ r.b \in Browsers /\ clock \in A!Times
    BY <1>1 DEF Asks, AuthorizeInv, AuthorizeTypes
  <2>2. row \in A!Session
    BY <2>1 DEF A!Session
  <2> QED
    BY <2>2 DEF A!AuthorizeAssumption
<1>4. /\ sso' \in [Sessions -> A!Session \cup {None}] /\ sso'[s] = row
      /\ \A y \in Sessions : y # s => sso'[y] = sso[y]
  BY <1>2, <1>3 DEF AuthorizeInv, AuthorizeTypes
<1>5. Lasts
  BY <1>2, <1>4 DEF Lasts, AuthorizeInv, AuthorizeTypes, A!Times
<1>6. ParkedOK'
  <2>1. \A p \in Parked : parked[p] # None => parked[p].stamp \in Sessions \cup {None}
    BY DEF AuthorizeInv, AuthorizeTypes, A!Park
  <2> QED
    BY <1>2, <1>3, <1>4, <2>1 DEF AuthorizeInv, ParkedOK
<1>7. CodesOK'
  BY <1>2 DEF AuthorizeInv, CodesOK, A!GrantedAsShown, A!Fresh
<1>8. x \in AskType /\ x.at = "code" /\ x.b = r.b /\ x.asked = r.asked /\ x.s = s /\ x.p = r.p /\ x.user = r.user
  BY <1>1 DEF AskType
<1>9. row.at >= r.asked
  BY <1>1 DEF Asks
<1> HIDE DEF x, row, r
<1>10. PICK y \in AskType : y = x
  BY <1>8
<1>11. Asks(y)'
  <2>1. /\ y.at = "code" /\ y.b \in Browsers /\ y.asked <= clock' /\ y.s = s
        /\ y.p \in Parked /\ y.user \in Users /\ sso'[y.s] # None /\ sso'[y.s].at >= y.asked
    BY <1>1, <1>2, <1>3, <1>4, <1>8, <1>9, <1>10 DEF Asks
  <2> QED
    BY <2>1 DEF Asks
<1>12. req' \in [Requests -> AskType] /\ Asking'
  BY <1>2, <1>5, <1>10, <1>11, OneAsks
<1> QED
  BY <1>2, <1>4, <1>6, <1>7, <1>12 DEF AuthorizeInv, AuthorizeTypes

\* The code of a sign-in is of a session that began after it was asked for.
LEMMA SignedInInv ==
    ASSUME A!AuthorizeAssumption, AuthorizeInv, NEW q \in Requests, A!SignedIn(q)
    PROVE  AuthorizeInv'
<1> DEFINE r == req[q]
           k == [user |-> r.user, auth |-> sso[r.s].at, prompt |-> r.prompt, maxAge |-> r.maxAge,
                 asked |-> r.asked, way |-> "sign-in", parked |-> r.p, told |-> shown[r.p]]
<1>1. r \in AskType /\ Asks(r) /\ r.at = "code"
  BY DEF AuthorizeInv, AuthorizeTypes, Asking, A!SignedIn, A!At
<1>2. /\ codes' = codes \cup {k} /\ cookie' = [cookie EXCEPT ![r.b] = r.s] /\ A!End(q)
      /\ UNCHANGED <<clock, sso, parked, shown, edits>>
  BY DEF A!SignedIn, A!At
<1>3. r.s \in Sessions /\ sso[r.s] \in A!Session /\ r.p \in Parked /\ r.user \in Users /\ sso[r.s].at >= r.asked
  BY <1>1 DEF Asks, A!AuthorizeAssumption, AuthorizeInv, AuthorizeTypes
<1>4. k \in A!Code
  BY <1>1, <1>3 DEF A!Code, AskType, A!Session, AuthorizeInv, AuthorizeTypes
<1>5. A!Fresh(k) /\ k.way = "sign-in"
  <2>1. PICK auth \in A!Times, asks \in A!Times, age \in MaxAges \cup {None} :
          auth = sso[r.s].at /\ asks = r.asked /\ age = r.maxAge
    BY <1>1, <1>3 DEF A!Session, AskType
  <2>2. r.maxAge # None => r.asked - sso[r.s].at <= r.maxAge
    <3>1. A!Times \subseteq Int /\ MaxAges \subseteq Nat
      BY DEF A!Times, A!AuthorizeAssumption
    <3>2. age # None => asks - auth <= age
      BY <1>3, <2>1, <3>1
    <3> QED
      BY <2>1, <3>2
  <2>3. k.auth = sso[r.s].at /\ k.asked = r.asked /\ k.maxAge = r.maxAge /\ k.way = "sign-in"
    OBVIOUS
  <2> HIDE DEF k, r
  <2> QED
    BY <1>3, <2>2, <2>3 DEF A!Fresh
<1>6. cookie' \in [Browsers -> Sessions \cup {None}]
  BY <1>2, <1>3 DEF AuthorizeInv, AuthorizeTypes
<1> HIDE DEF k, r
<1>7. CodesOK'
  BY <1>2, <1>5 DEF AuthorizeInv, CodesOK, A!GrantedAsShown, A!Fresh
<1>8. Lasts
  BY <1>2 DEF Lasts, AuthorizeInv, AuthorizeTypes, A!Times
<1>9. req' \in [Requests -> AskType] /\ Asking'
  BY <1>2, <1>8, OneEnds
<1> QED
  BY <1>2, <1>4, <1>6, <1>7, <1>9 DEF AuthorizeInv, AuthorizeTypes, ParkedOK

\* Time passes, a request expires.
LEMMA TimeInv ==
    ASSUME A!AuthorizeAssumption, AuthorizeInv, A!Tick \/ \E p \in Parked : A!Expire(p)
    PROVE  AuthorizeInv'
<1>1. clock' \in A!Times /\ clock' >= clock /\ edits' \in 0 .. MaxEdits
  BY DEF A!Tick, A!Expire, A!Edit, A!Times, AuthorizeInv, AuthorizeTypes, A!AuthorizeAssumption
<1>2. UNCHANGED <<sso, cookie, codes, shown, req>>
  BY DEF A!Tick, A!Expire
<1>3. /\ parked' \in [Parked -> A!Park \cup {None}]
      /\ \A p \in Parked : (parked'[p] # None) = (parked[p] # None)
      /\ \A p \in Parked : parked[p] # None => parked'[p].stamp = parked[p].stamp /\ parked'[p].at = parked[p].at
  <2>1. CASE UNCHANGED parked
    BY <2>1 DEF AuthorizeInv, AuthorizeTypes
  <2>2. ASSUME NEW p \in Parked, A!Expire(p) PROVE <1>3
    <3>1. parked[p] \in A!Park /\ parked' = [parked EXCEPT ![p].expired = TRUE]
      BY <2>2 DEF A!Expire, AuthorizeInv, AuthorizeTypes
    <3>2. [parked[p] EXCEPT !.expired = TRUE] \in A!Park
      BY <3>1 DEF A!Park
    <3>3. [parked[p] EXCEPT !.expired = TRUE] # None
      BY <3>2 DEF A!AuthorizeAssumption
    <3> QED
      BY <2>2, <3>1, <3>2, <3>3 DEF A!Expire, AuthorizeInv, AuthorizeTypes, A!Park
  <2> QED
    BY <2>1, <2>2 DEF A!Tick
<1>4. Lasts
  BY <1>1, <1>2, <1>3 DEF Lasts
<1>5. Asking'
  <2>1. \A y \in AskType : Asks(y) => Asks(y)'
    BY <1>4, AsksLast
  <2>2. \A p \in Requests : req[p] \in AskType /\ Asks(req[p])
    BY DEF AuthorizeInv, AuthorizeTypes, Asking
  <2>3. \A y \in AskType, p \in Requests : req'[p] = y /\ Asks(y)' => Asks(req[p])'
    BY DEF Asks
  <2> QED
    BY <1>2, <2>1, <2>2, <2>3 DEF Asking
<1>6. ParkedOK'
  <2>1. clock \in Int /\ clock' \in Int /\ \A p \in Parked : parked[p] # None => parked[p].at \in Int
    BY <1>1 DEF AuthorizeInv, AuthorizeTypes, A!Times, A!Park
  <2> QED
    BY <1>1, <1>2, <1>3, <2>1 DEF AuthorizeInv, ParkedOK
<1>7. CodesOK'
  BY <1>2 DEF AuthorizeInv, CodesOK, A!GrantedAsShown, A!Fresh
<1> QED
  BY <1>1, <1>2, <1>3, <1>5, <1>6, <1>7 DEF AuthorizeInv, AuthorizeTypes

LEMMA AuthorizeStep == ASSUME A!AuthorizeAssumption, AuthorizeInv, [A!Next]_A!vars PROVE AuthorizeInv'
<1>1. CASE UNCHANGED A!vars
  BY <1>1 DEF A!vars, AuthorizeInv, AuthorizeTypes, ParkedOK, Asking, Asks, CodesOK, A!GrantedAsShown, A!Fresh
<1>2. ASSUME NEW q \in Requests, NEW b \in Browsers,
             \/ \E prompt \in A!Prompts, age \in MaxAges \cup {None} : A!BeginAuthorize(q, b, prompt, age)
             \/ \E p \in Parked : A!Continue(q, b, p)
             \/ \E p \in Parked, u \in Users : A!BeginSignIn(q, b, u, p)
      PROVE  AuthorizeInv'
  BY <1>2, BeginAsk
<1>3. ASSUME NEW q \in Requests, NEW p \in Parked, A!ParkRequest(q, p) \/ A!Describe(q, p) PROVE AuthorizeInv'
  BY <1>3, ParkInv, DescribeInv
<1>4. ASSUME NEW q \in Requests, A!FromSession(q) \/ A!Replace(q) \/ A!SignedIn(q) PROVE AuthorizeInv'
  BY <1>4, FromSessionInv, ReplaceInv, SignedInInv
<1>5. ASSUME NEW q \in Requests, NEW s \in Sessions, A!Start(q, s) PROVE AuthorizeInv'
  BY <1>5, StartInv
<1>6. ASSUME NEW q \in Requests, NEW b \in Browsers, A!Logout(q, b) PROVE AuthorizeInv'
  BY <1>6, LogoutInv
<1>7. CASE A!Tick \/ \E p \in Parked : A!Expire(p)
  BY <1>7, TimeInv
<1> QED
  BY <1>1, <1>2, <1>3, <1>4, <1>5, <1>6, <1>7 DEF A!Next, A!Refuse

LEMMA AuthorizeInvariance == ASSUME A!AuthorizeAssumption PROVE A!Spec => []AuthorizeInv
<1>1. A!Init => AuthorizeInv
  BY AuthorizeInit
<1>2. AuthorizeInv /\ [A!Next]_A!vars => AuthorizeInv'
  BY AuthorizeStep
<1> QED
  BY <1>1, <1>2, PTL DEF A!Spec

\* The Authorize button grants what the front-end showed: however many requests and browsers are at it,
\* and whatever is signed in or out meanwhile, a code that came of it is of the account the front-end
\* was told of, if it was told of one (routes/authorize.ts).
THEOREM ButtonGrantsWhatItShows == ASSUME A!AuthorizeAssumption PROVE A!Spec => []A!GrantedAsShown
<1>1. AuthorizeInv => A!GrantedAsShown
  BY DEF AuthorizeInv, CodesOK
<1> QED
  BY <1>1, AuthorizeInvariance, PTL

\* A code that came of a sign-in or silently of a session is as fresh as the client asked (prompt=login,
\* max_age), however many requests and browsers are at it.
THEOREM CodesAreFresh == ASSUME A!AuthorizeAssumption PROVE A!Spec => []A!FreshUnlessContinued
<1>1. AuthorizeInv => A!FreshUnlessContinued
  BY DEF AuthorizeInv, CodesOK, A!FreshUnlessContinued
<1> QED
  BY <1>1, AuthorizeInvariance, PTL

-----------------------------------------------------------------------------
(* Sign-ups and invitations *)

\* What a request carries from one statement to the next.
CallType == [at : S!Steps, email : Emails \cup {None}, link : Links \cup {None}, inv : Invitations \cup {None},
             role : BOOLEAN, fresh : BOOLEAN]

SignUpTypes ==
    /\ user \in [Emails -> {"none", "active", "disabled"}] /\ linked \in [Emails -> SUBSET Providers]
    /\ roles \in [Emails -> SUBSET {"default", "invited"}] /\ inv \in [Invitations -> S!Invitation \cup {None}]
    /\ link \in [Links -> S!Link \cup {None}] /\ open \in BOOLEAN /\ failed \in BOOLEAN /\ barred \subseteq Emails
    /\ recent \in [Emails -> Nat] /\ codes \in [Links -> Nat] /\ edits \in 0 .. MaxEdits
    /\ req \in [Requests -> CallType]

\* The statements of a callback, which has a link or a state in hand.
Callbacks == {"find", "invited", "create", "link", "grant", "invite role", "accept", "code"}

\* A request names an address; a callback has a link that was consumed and completed nothing yet; the
\* invitation it took is there and is the address's.
Calls(r) ==
    /\ r.at # "none" => r.email \in Emails
    /\ r.at \in Callbacks => r.link \in Links /\ link[r.link] # None /\ link[r.link].used /\ codes[r.link] = 0
    /\ r.inv # None => inv[r.inv] # None /\ inv[r.inv].email = r.email
    /\ r.at \in {"invite role", "accept"} => r.inv # None

Calling == \A q \in Requests : Calls(req[q])

\* A link is in the hands of one callback at most, and completed a sign-in only if it was consumed.
OneHolder == \A p, q \in Requests : req[p].at \in Callbacks /\ req[q].at \in Callbacks /\ req[p].link = req[q].link => p = q
Consumed ==
    /\ OneHolder
    /\ \A k \in Links : codes[k] # 0 => codes[k] = 1 /\ link[k] # None /\ link[k].used

SignUpInv == SignUpTypes /\ Calling /\ Consumed

LEMMA SignUpInit == ASSUME S!SignUpsAssumption, S!Init PROVE SignUpInv
<1>1. S!NoReq \in CallType /\ Calls(S!NoReq) /\ S!NoReq.at = "none"
  BY DEF S!NoReq, CallType, Calls, S!Steps, Callbacks
<1>2. SignUpTypes
  <2>1. /\ user \in [Emails -> {"none", "active", "disabled"}] /\ linked \in [Emails -> SUBSET Providers]
        /\ roles \in [Emails -> SUBSET {"default", "invited"}] /\ recent \in [Emails -> Nat] /\ codes \in [Links -> Nat]
    BY DEF S!Init
  <2>2. inv \in [Invitations -> S!Invitation \cup {None}] /\ link \in [Links -> S!Link \cup {None}]
    BY DEF S!Init
  <2>3. req \in [Requests -> CallType] /\ barred \subseteq Emails
    BY <1>1 DEF S!Init
  <2>4. MaxEdits \in Nat /\ edits = 0 /\ open = FALSE /\ failed = FALSE
    BY DEF S!Init, S!SignUpsAssumption
  <2>5. edits \in 0 .. MaxEdits
    BY <2>4
  <2>6. open \in BOOLEAN /\ failed \in BOOLEAN
    BY <2>4, Zenon
  <2> QED
    BY <2>1, <2>2, <2>3, <2>5, <2>6, Zenon DEF SignUpTypes
<1>3. Calling /\ Consumed
  BY <1>1 DEF S!Init, Calling, Consumed, OneHolder, Callbacks
<1> QED
  BY <1>2, <1>3 DEF SignUpInv

\* No step takes a link back, makes it unused, or takes an invitation back or gives it to another address.
Remains ==
    /\ \A k \in Links : link[k] # None => link'[k] # None /\ (link[k].used => link'[k].used)
    /\ \A i \in Invitations : inv[i] # None => inv'[i] # None /\ inv'[i].email = inv[i].email

\* A request q whose record becomes x, while nothing another callback relies on changes.
LEMMA Becomes ==
    ASSUME S!SignUpsAssumption, SignUpInv, Remains, NEW q \in Requests, NEW x \in CallType, req' = [req EXCEPT ![q] = x], Calls(x)',
           x.at \in Callbacks => \A p \in Requests : p # q /\ req[p].at \in Callbacks => req[p].link # x.link,
           \A p \in Requests : p # q /\ req[p].at \in Callbacks => codes'[req[p].link] = codes[req[p].link]
    PROVE  req' \in [Requests -> CallType] /\ Calling' /\ OneHolder'
<1>1. req \in [Requests -> CallType]
  BY DEF SignUpInv, SignUpTypes
<1>2. req' \in [Requests -> CallType] /\ req'[q] = x /\ \A p \in Requests : p # q => req'[p] = req[p]
  BY <1>1
<1>3. ASSUME NEW p \in Requests PROVE Calls(req[p])'
  <2>1. CASE p = q
    BY <1>2, <2>1 DEF Calls
  <2>2. CASE p # q
    <3>1. req'[p] = req[p] /\ req[p] \in CallType /\ Calls(req[p])
      BY <1>1, <1>2, <2>2 DEF SignUpInv, Calling
    <3>2. req[p].inv # None => inv'[req[p].inv] # None /\ inv'[req[p].inv].email = req[p].email
      BY <3>1 DEF Remains, Calls, CallType
    <3>3. req[p].at \in Callbacks => link'[req[p].link] # None /\ link'[req[p].link].used /\ codes'[req[p].link] = 0
      BY <2>2, <3>1 DEF Remains, Calls
    <3> QED
      BY <3>1, <3>2, <3>3 DEF Calls
  <2> QED
    BY <2>1, <2>2
<1>4. Calling'
  BY <1>3 DEF Calling
<1> QED
  BY <1>2, <1>4 DEF SignUpInv, Consumed, OneHolder

\* A callback goes on with the link it has.
LEMMA CallbackMoves ==
    ASSUME S!SignUpsAssumption, SignUpInv, Remains, UNCHANGED codes, NEW q \in Requests, req[q].at \in Callbacks,
           NEW x \in CallType, req' = [req EXCEPT ![q] = x], x.at \in Callbacks, x.email = req[q].email, x.link = req[q].link,
           x.inv # None => inv'[x.inv] # None /\ inv'[x.inv].email = x.email,
           x.at \in {"invite role", "accept"} => x.inv # None
    PROVE  req' \in [Requests -> CallType] /\ Calling' /\ OneHolder'
<1>1. Calls(req[q]) /\ req[q].at # "none"
  BY DEF SignUpInv, Calling, Callbacks
<1>2. Calls(x)'
  BY <1>1 DEF Calls, Remains
<1>3. \A p \in Requests : p # q /\ req[p].at \in Callbacks => req[p].link # x.link
  BY DEF SignUpInv, Consumed, OneHolder
<1> QED
  BY <1>2, <1>3, Becomes

\* A request that has no link in hand, or ends, leaves those that have one.
LEMMA OthersStay ==
    ASSUME S!SignUpsAssumption, SignUpInv, Remains, NEW q \in Requests, NEW x \in CallType, req' = [req EXCEPT ![q] = x],
           x.at \notin Callbacks, x.inv = None, x.at # "none" => x.email \in Emails,
           \A k \in Links : codes'[k] = codes[k] \/ (req[q].at \in Callbacks /\ req[q].link = k)
    PROVE  req' \in [Requests -> CallType] /\ Calling' /\ OneHolder'
<1>1. Calls(x)'
  BY DEF Calls, Callbacks
<1>2. \A p \in Requests : p # q /\ req[p].at \in Callbacks => codes'[req[p].link] = codes[req[p].link]
  BY DEF SignUpInv, Consumed, OneHolder, Calling, Calls
<1> QED
  BY <1>1, <1>2, Becomes

LEMMA RequestEnds ==
    ASSUME S!SignUpsAssumption, SignUpInv, Remains, NEW q \in Requests, S!End(q),
           \A k \in Links : codes'[k] = codes[k] \/ (req[q].at \in Callbacks /\ req[q].link = k)
    PROVE  req' \in [Requests -> CallType] /\ Calling' /\ OneHolder'
<1>1. S!NoReq \in CallType /\ S!NoReq.at = "none" /\ S!NoReq.inv = None
  BY DEF S!NoReq, CallType, S!Steps
<1>2. S!NoReq.at \notin Callbacks
  BY <1>1 DEF Callbacks
<1> QED
  BY <1>1, <1>2, OthersStay DEF S!End

\* Requests that read, and requests that are cut short, change no table.
LEMMA SignUpReads ==
    ASSUME S!SignUpsAssumption, SignUpInv, NEW q \in Requests,
           \/ S!Find(q) \/ S!FindInvitation(q) \/ S!Cut(q) \/ \E e \in Emails : S!BeginLink(q, e)
           \/ \E e \in Emails, carries \in BOOLEAN : S!BeginInvite(q, e, carries)
    PROVE  SignUpInv'
<1>0. UNCHANGED <<S!store, S!past>>
  BY DEF S!Find, S!FindInvitation, S!Cut, S!BeginLink, S!BeginInvite
<1>1. edits' \in 0 .. MaxEdits
  <2>1. edits \in 0 .. MaxEdits /\ MaxEdits \in Nat
    BY DEF SignUpInv, SignUpTypes, S!SignUpsAssumption
  <2>2. UNCHANGED edits \/ (edits < MaxEdits /\ edits' = edits + 1)
    <3>1. CASE S!Find(q)
      BY <3>1 DEF S!Find, S!At
    <3>5. CASE S!FindInvitation(q)
      BY <3>5 DEF S!FindInvitation, S!At
    <3>2. CASE S!Cut(q)
      BY <3>2 DEF S!Cut, S!Edit
    <3>3. CASE \E e \in Emails : S!BeginLink(q, e)
      BY <3>3 DEF S!BeginLink, S!Edit
    <3>4. CASE \E e \in Emails, carries \in BOOLEAN : S!BeginInvite(q, e, carries)
      BY <3>4 DEF S!BeginInvite, S!Edit
    <3> QED
      BY <3>1, <3>2, <3>3, <3>4, <3>5
  <2> QED
    BY <2>1, <2>2
<1>2. Remains
  BY <1>0 DEF S!store, Remains
<1>3. req[q] \in CallType /\ Calls(req[q])
  BY DEF SignUpInv, SignUpTypes, Calling
<1>4. req' \in [Requests -> CallType] /\ Calling' /\ OneHolder'
  <2>1. ASSUME S!End(q) PROVE <1>4
    BY <1>0, <1>2, <2>1, RequestEnds DEF S!past
  <2>2. ASSUME NEW at \in {"invited", "code", "link", "create"}, S!Move(q, at), req[q].at \in Callbacks PROVE <1>4
    <3>1. PICK x \in CallType : x = [req[q] EXCEPT !.at = at]
      BY <1>3 DEF CallType, S!Steps
    <3>2. x.at = at /\ x.email = req[q].email /\ x.link = req[q].link /\ x.inv = req[q].inv
      BY <1>3, <3>1 DEF CallType
    <3>3. x.at \in Callbacks /\ x.at \notin {"invite role", "accept"}
      BY <3>2 DEF Callbacks
    <3>4. x.inv # None => inv'[x.inv] # None /\ inv'[x.inv].email = x.email
      BY <1>0, <1>3, <3>2 DEF Calls, S!store
    <3>5. req' = [req EXCEPT ![q] = x] /\ UNCHANGED codes
      BY <1>0, <2>2, <3>1 DEF S!Move, S!past
    <3> QED
      BY <1>2, <2>2, <3>2, <3>3, <3>4, <3>5, CallbackMoves
  <2>3. ASSUME NEW i \in Invitations, S!Usable(i, req[q].email), req[q].at = "invited",
               req' = [req EXCEPT ![q].at = "create", ![q].inv = i, ![q].role = inv[i].role]
        PROVE  <1>4
    <3>1. inv[i] \in S!Invitation
      BY <2>3 DEF S!Usable, SignUpInv, SignUpTypes
    <3>2. PICK x \in CallType : x = [req[q] EXCEPT !.at = "create", !.inv = i, !.role = inv[i].role]
      BY <1>3, <3>1 DEF CallType, S!Steps, S!Invitation
    <3>3. x.at = "create" /\ x.email = req[q].email /\ x.link = req[q].link /\ x.inv = i
      BY <1>3, <3>2 DEF CallType
    <3>4. x.at \in Callbacks /\ x.at \notin {"invite role", "accept"} /\ req[q].at \in Callbacks
      BY <2>3, <3>3 DEF Callbacks
    <3>5. inv'[x.inv] # None /\ inv'[x.inv].email = x.email
      BY <1>0, <2>3, <3>3 DEF S!store, S!Usable
    <3>6. req' = [req EXCEPT ![q] = x] /\ UNCHANGED codes
      BY <1>0, <2>3, <3>2 DEF S!past
    <3> QED
      BY <1>2, <3>3, <3>4, <3>5, <3>6, CallbackMoves
  <2>4. ASSUME NEW x \in CallType, x.at \in {"send", "insert"}, x.email \in Emails, x.inv = None, req' = [req EXCEPT ![q] = x]
        PROVE  <1>4
    <3>1. x.at \notin Callbacks /\ UNCHANGED codes
      BY <1>0, <2>4 DEF Callbacks, S!past
    <3> QED
      BY <1>2, <2>4, <3>1, OthersStay
  <2>5. CASE S!Find(q)
    BY <2>1, <2>2, <2>5 DEF S!Find, S!At, Callbacks
  <2>6. CASE S!FindInvitation(q)
    BY <2>1, <2>2, <2>3, <2>6 DEF S!FindInvitation, S!At, Callbacks
  <2>7. CASE S!Cut(q)
    BY <2>1, <2>7 DEF S!Cut
  <2>8. ASSUME NEW e \in Emails, S!BeginLink(q, e) PROVE <1>4
    <3> DEFINE x == [S!NoReq EXCEPT !.at = "send", !.email = e]
    <3>1. x \in CallType /\ x.at = "send" /\ x.email = e /\ x.inv = None
      BY DEF CallType, S!NoReq, S!Steps
    <3> HIDE DEF x
    <3> QED
      BY <2>4, <2>8, <3>1 DEF S!BeginLink, x
  <2>9. ASSUME NEW e \in Emails, NEW carries \in BOOLEAN, S!BeginInvite(q, e, carries) PROVE <1>4
    <3> DEFINE x == [S!NoReq EXCEPT !.at = "insert", !.email = e, !.role = carries]
    <3>1. x \in CallType /\ x.at = "insert" /\ x.email = e /\ x.inv = None
      BY DEF CallType, S!NoReq, S!Steps
    <3> HIDE DEF x
    <3> QED
      BY <2>4, <2>9, <3>1 DEF S!BeginInvite, x
  <2> QED
    BY <2>5, <2>6, <2>7, <2>8, <2>9
<1>5. Consumed'
  BY <1>0, <1>4 DEF S!store, S!past, SignUpInv, Consumed
<1> QED
  BY <1>0, <1>1, <1>4, <1>5 DEF S!store, S!past, SignUpInv, SignUpTypes

LEMMA EditsCounted ==
    ASSUME S!SignUpsAssumption, SignUpInv, UNCHANGED edits \/ \E what \in Duties : S!Edit(what)
    PROVE  edits' \in 0 .. MaxEdits
<1>1. edits \in 0 .. MaxEdits /\ MaxEdits \in Nat
  BY DEF SignUpInv, SignUpTypes, S!SignUpsAssumption
<1> QED
  BY <1>1 DEF S!Edit

\* The link or state is consumed by the one callback that finds it unused.
LEMMA ConsumeInv ==
    ASSUME S!SignUpsAssumption, SignUpInv, NEW q \in Requests, NEW k \in Links, S!Consume(q, k)
    PROVE  SignUpInv'
<1> DEFINE x == [S!NoReq EXCEPT !.at = "find", !.email = link[k].email, !.link = k]
<1>1. /\ link[k] # None /\ ~ link[k].used /\ link' = [link EXCEPT ![k].used = TRUE] /\ req' = [req EXCEPT ![q] = x]
      /\ UNCHANGED <<user, linked, roles, inv, open, recent, codes, barred, failed>>
  BY DEF S!Consume, S!Unused, S!past
<1>2. edits' \in 0 .. MaxEdits
  BY EditsCounted DEF S!Consume, S!Edit
<1>3. link[k] \in S!Link
  BY <1>1 DEF SignUpInv, SignUpTypes
<1>4. [link[k] EXCEPT !.used = TRUE] \in S!Link /\ [link[k] EXCEPT !.used = TRUE] # None
  BY <1>3 DEF S!Link, S!SignUpsAssumption
<1>5. /\ link' \in [Links -> S!Link \cup {None}] /\ link'[k] # None /\ link'[k].used
      /\ \A y \in Links : y # k => link'[y] = link[y]
  BY <1>1, <1>3, <1>4 DEF SignUpInv, SignUpTypes, S!Link
<1>6. Remains
  BY <1>1, <1>5 DEF Remains
<1>7. x \in CallType /\ x.at = "find" /\ x.email \in Emails /\ x.link = k /\ x.inv = None
  BY <1>3 DEF CallType, S!NoReq, S!Steps, S!Link
<1>8. codes[k] = 0
  BY <1>1 DEF SignUpInv, Consumed
<1>9. \A p \in Requests : req[p].at \in Callbacks => req[p].link # k
  BY <1>1 DEF SignUpInv, Calling, Calls
<1> HIDE DEF x
<1>10. PICK y \in CallType : y = x
  BY <1>7
<1>11. Calls(y)'
  BY <1>1, <1>5, <1>7, <1>8, <1>10 DEF Calls
<1>12. req' \in [Requests -> CallType] /\ Calling' /\ OneHolder'
  <2>1. \A p \in Requests : p # q /\ req[p].at \in Callbacks => req[p].link # y.link
    BY <1>7, <1>9, <1>10
  <2> QED
    BY <1>1, <1>6, <1>10, <1>11, <2>1, Becomes
<1>13. Consumed'
  BY <1>1, <1>5, <1>12 DEF SignUpInv, Consumed
<1> QED
  BY <1>1, <1>2, <1>5, <1>12, <1>13 DEF SignUpInv, SignUpTypes

\* A link that is mailed, or a state, is new.
LEMMA NewLinkInv ==
    ASSUME S!SignUpsAssumption, SignUpInv, NEW q \in Requests, NEW k \in Links,
           S!SendLink(q, k) \/ \E e \in Emails : "google" \in Providers /\ S!StartGoogle(q, e, k)
    PROVE  SignUpInv'
<1>1. edits' \in 0 .. MaxEdits
  BY EditsCounted DEF S!SendLink, S!StartGoogle, S!Edit, S!At
<1>2. PICK e \in Emails, provider \in Providers :
         link[k] = None /\ link' = [link EXCEPT ![k] = [email |-> e, provider |-> provider, used |-> FALSE, expired |-> FALSE]]
  <2>1. CASE S!SendLink(q, k)
    BY <2>1 DEF S!SendLink, S!At, SignUpInv, Calling, Calls, S!SignUpsAssumption
  <2> QED
    BY <2>1 DEF S!StartGoogle
<1> DEFINE row == [email |-> e, provider |-> provider, used |-> FALSE, expired |-> FALSE]
<1>3. row \in S!Link /\ row # None
  <2>1. row \in S!Link
    BY DEF S!Link
  <2> QED
    BY <2>1 DEF S!SignUpsAssumption
<1>4. link' \in [Links -> S!Link \cup {None}] /\ link'[k] = row /\ \A y \in Links : y # k => link'[y] = link[y]
  BY <1>2, <1>3 DEF SignUpInv, SignUpTypes
<1> HIDE DEF row
<1>5. UNCHANGED <<user, linked, roles, inv, open, codes, barred, failed>> /\ recent' \in [Emails -> Nat]
  <2>1. CASE S!SendLink(q, k)
    <3>1. req[q].email \in Emails /\ recent \in [Emails -> Nat]
      BY <2>1 DEF S!SendLink, S!At, SignUpInv, SignUpTypes, Calling, Calls
    <3>2. recent' = [recent EXCEPT ![req[q].email] = recent[req[q].email] + 1]
      BY <2>1 DEF S!SendLink
    <3> QED
      BY <2>1, <3>1, <3>2 DEF S!SendLink, S!past
  <2> QED
    BY <2>1 DEF S!StartGoogle, S!past, SignUpInv, SignUpTypes
<1>6. Remains
  BY <1>2, <1>3, <1>4, <1>5 DEF Remains
<1>7. req' \in [Requests -> CallType] /\ Calling' /\ OneHolder'
  <2>1. CASE S!SendLink(q, k)
    BY <1>5, <1>6, <2>1, RequestEnds DEF S!SendLink
  <2>2. CASE UNCHANGED req
    BY <1>2, <1>4, <1>5, <2>2 DEF SignUpInv, SignUpTypes, Calling, Calls, Consumed, OneHolder
  <2> QED
    BY <2>1, <2>2 DEF S!StartGoogle
<1>8. Consumed'
  BY <1>2, <1>4, <1>5, <1>7 DEF SignUpInv, Consumed
<1> QED
  BY <1>1, <1>4, <1>5, <1>7, <1>8 DEF SignUpInv, SignUpTypes

\* The callback makes the account, links its identity, grants its roles, and accepts its invitation.
LEMMA AccountInv ==
    ASSUME S!SignUpsAssumption, SignUpInv, NEW q \in Requests,
           S!CreateUser(q) \/ S!LinkIdentity(q) \/ S!GrantDefaults(q) \/ S!GrantInvited(q) \/ S!Accept(q)
    PROVE  SignUpInv'
<1>0. /\ req[q] \in CallType /\ Calls(req[q]) /\ req[q].at \in Callbacks /\ req[q].email \in Emails /\ req[q].link \in Links
      /\ UNCHANGED <<edits, open, link, recent, codes>>
  <2>1. req[q] \in CallType /\ Calls(req[q])
    BY DEF SignUpInv, SignUpTypes, Calling
  <2>2. req[q].at \in Callbacks /\ UNCHANGED <<edits, open, link, recent, codes>>
    BY DEF S!CreateUser, S!LinkIdentity, S!GrantDefaults, S!GrantInvited, S!Accept, S!At, S!past, Callbacks
  <2> QED
    BY <2>1, <2>2 DEF Calls, Callbacks
<1> DEFINE e == req[q].email
           i == req[q].inv
<1>1. /\ user' \in [Emails -> {"none", "active", "disabled"}] /\ linked' \in [Emails -> SUBSET Providers]
      /\ roles' \in [Emails -> SUBSET {"default", "invited"}] /\ barred' \subseteq Emails
  <2>1. CASE S!CreateUser(q)
    BY <1>0, <2>1 DEF S!CreateUser, SignUpInv, SignUpTypes
  <2>2. CASE S!LinkIdentity(q)
    <3>1. link[req[q].link] \in S!Link
      BY <1>0 DEF Calls, SignUpInv, SignUpTypes
    <3> QED
      BY <1>0, <2>2, <3>1 DEF S!LinkIdentity, SignUpInv, SignUpTypes, S!Link
  <2>3. CASE S!GrantDefaults(q)
    BY <1>0, <2>3 DEF S!GrantDefaults, S!Defaults, SignUpInv, SignUpTypes, S!past
  <2>4. CASE S!GrantInvited(q)
    BY <1>0, <2>4 DEF S!GrantInvited, SignUpInv, SignUpTypes, S!past
  <2>5. CASE S!Accept(q)
    BY <1>0, <2>5 DEF S!Accept, SignUpInv, SignUpTypes, S!past
  <2> QED
    BY <2>1, <2>2, <2>3, <2>4, <2>5
<1>2. failed' \in BOOLEAN
  BY Zenon DEF S!CreateUser, S!LinkIdentity, S!GrantDefaults, S!GrantInvited, S!Accept, S!Fail, S!past, SignUpInv, SignUpTypes
<1>3. /\ inv' \in [Invitations -> S!Invitation \cup {None}]
      /\ \A y \in Invitations : inv[y] # None => inv'[y] # None /\ inv'[y].email = inv[y].email
  <2>1. CASE UNCHANGED inv
    BY <2>1 DEF SignUpInv, SignUpTypes
  <2>2. CASE S!Accept(q) /\ inv' = [inv EXCEPT ![i].state = "accepted"]
    <3>1. i \in Invitations /\ inv[i] \in S!Invitation
      BY <1>0, <2>2 DEF S!Accept, S!At, Calls, CallType, SignUpInv, SignUpTypes
    <3>2. /\ [inv[i] EXCEPT !.state = "accepted"] \in S!Invitation /\ [inv[i] EXCEPT !.state = "accepted"] # None
          /\ [inv[i] EXCEPT !.state = "accepted"].email = inv[i].email
      BY <3>1 DEF S!Invitation, S!SignUpsAssumption
    <3>3. /\ inv' \in [Invitations -> S!Invitation \cup {None}] /\ inv'[i] = [inv[i] EXCEPT !.state = "accepted"]
          /\ \A y \in Invitations : y # i => inv'[y] = inv[y]
      BY <2>2, <3>1, <3>2 DEF SignUpInv, SignUpTypes
    <3> QED
      BY <3>2, <3>3
  <2> QED
    BY <2>1, <2>2 DEF S!CreateUser, S!LinkIdentity, S!GrantDefaults, S!GrantInvited, S!Accept
<1>4. Remains
  BY <1>0, <1>3 DEF Remains
<1>5. req' \in [Requests -> CallType] /\ Calling' /\ OneHolder'
  <2>1. CASE S!End(q)
    BY <1>0, <1>4, <2>1, RequestEnds
  <2>2. ASSUME NEW at \in {"code", "link", "grant", "invite role", "accept"}, NEW fresh \in BOOLEAN,
               req' = [req EXCEPT ![q] = [req[q] EXCEPT !.at = at, !.fresh = fresh]],
               at \in {"invite role", "accept"} => req[q].inv # None
        PROVE  <1>5
    <3>1. PICK x \in CallType : x = [req[q] EXCEPT !.at = at, !.fresh = fresh]
      BY <1>0 DEF CallType, S!Steps
    <3>2. x.at = at /\ x.email = req[q].email /\ x.link = req[q].link /\ x.inv = req[q].inv
      BY <1>0, <3>1 DEF CallType
    <3>3. x.at \in Callbacks
      BY <3>2 DEF Callbacks
    <3>4. x.inv # None => inv'[x.inv] # None /\ inv'[x.inv].email = x.email
      BY <1>0, <1>3, <3>2 DEF Calls, CallType
    <3> QED
      BY <1>0, <1>4, <2>2, <3>1, <3>2, <3>3, <3>4, CallbackMoves
  <2>3. ASSUME NEW at \in {"code", "link", "grant", "invite role", "accept"}, S!Move(q, at),
               at \in {"invite role", "accept"} => req[q].inv # None
        PROVE  <1>5
    <3>1. req[q].fresh \in BOOLEAN /\ [req[q] EXCEPT !.at = at] = [req[q] EXCEPT !.at = at, !.fresh = req[q].fresh]
      BY <1>0 DEF CallType
    <3> QED
      BY <2>2, <2>3, <3>1 DEF S!Move
  <2>4. CASE S!CreateUser(q)
    <3>1. CASE req' = [req EXCEPT ![q].at = "link", ![q].fresh = TRUE]
      <4>1. req' = [req EXCEPT ![q] = [req[q] EXCEPT !.at = "link", !.fresh = TRUE]]
        BY <3>1 DEF SignUpInv, SignUpTypes
      <4> QED
        BY <2>2, <4>1
    <3> QED
      BY <2>1, <2>4, <3>1 DEF S!CreateUser, S!Fail
  <2>5. CASE S!LinkIdentity(q)
    BY <2>1, <2>3, <2>5 DEF S!LinkIdentity, S!Fail
  <2>6. CASE S!GrantDefaults(q)
    BY <2>3, <2>6 DEF S!GrantDefaults
  <2>7. CASE S!GrantInvited(q) \/ S!Accept(q)
    BY <1>0, <2>3, <2>7 DEF S!GrantInvited, S!Accept, S!At, Calls
  <2> QED
    BY <2>4, <2>5, <2>6, <2>7
<1>6. Consumed'
  BY <1>0, <1>5 DEF SignUpInv, Consumed
<1> QED
  BY <1>0, <1>1, <1>2, <1>3, <1>5, <1>6, Zenon DEF SignUpInv, SignUpTypes

\* A sign-in completes with the link the callback has, which is in nobody else's hands.
LEMMA CompleteInv ==
    ASSUME S!SignUpsAssumption, SignUpInv, NEW q \in Requests, S!Complete(q)
    PROVE  SignUpInv'
<1> DEFINE k == req[q].link
<1>1. /\ req[q].at \in Callbacks /\ k \in Links /\ codes[k] = 0 /\ link[k] # None /\ link[k].used
      /\ codes' = [codes EXCEPT ![k] = codes[k] + 1] /\ S!End(q)
      /\ UNCHANGED <<user, linked, roles, inv, open, link, recent, barred, failed, edits>>
  BY DEF S!Complete, S!At, S!store, Callbacks, SignUpInv, Calling, Calls
<1>2. codes' \in [Links -> Nat] /\ codes'[k] = 1 /\ \A y \in Links : y # k => codes'[y] = codes[y]
  BY <1>1 DEF SignUpInv, SignUpTypes
<1>3. Remains
  BY <1>1 DEF Remains
<1>4. req' \in [Requests -> CallType] /\ Calling' /\ OneHolder'
  BY <1>1, <1>2, <1>3, RequestEnds
<1> HIDE DEF k
<1>5. Consumed'
  BY <1>1, <1>2, <1>4 DEF SignUpInv, Consumed
<1> QED
  BY <1>1, <1>2, <1>4, <1>5 DEF SignUpInv, SignUpTypes

\* An invitation that is inserted is new.
LEMMA InviteInv ==
    ASSUME S!SignUpsAssumption, SignUpInv, NEW q \in Requests, NEW i \in Invitations, S!Invite(q, i)
    PROVE  SignUpInv'
<1> DEFINE row == [email |-> req[q].email, role |-> req[q].role, state |-> "pending", expired |-> FALSE]
<1>1. /\ inv[i] = None /\ inv' = [inv EXCEPT ![i] = row] /\ S!End(q)
      /\ UNCHANGED <<user, linked, roles, open, link, recent, codes, barred, failed, edits>>
  BY DEF S!Invite, S!At, S!past
<1>2. req[q].email \in Emails /\ req[q].role \in BOOLEAN
  BY DEF S!Invite, S!At, SignUpInv, SignUpTypes, Calling, Calls, CallType
<1>3. row \in S!Invitation
  BY <1>2 DEF S!Invitation
<1> HIDE DEF row
<1>4. inv' \in [Invitations -> S!Invitation \cup {None}] /\ \A y \in Invitations : inv[y] # None => inv'[y] = inv[y]
  BY <1>1, <1>3 DEF SignUpInv, SignUpTypes
<1>5. Remains
  BY <1>1, <1>4 DEF Remains
<1>6. req' \in [Requests -> CallType] /\ Calling' /\ OneHolder'
  BY <1>1, <1>5, RequestEnds
<1>7. Consumed'
  BY <1>1, <1>6 DEF SignUpInv, Consumed
<1> QED
  BY <1>1, <1>4, <1>6, <1>7 DEF SignUpInv, SignUpTypes

\* What administrators do at once, and what happens by itself, leaves the requests as they are.
LEMMA AtOnceInv ==
    ASSUME S!SignUpsAssumption, SignUpInv,
           \/ \E q \in Requests, i \in Invitations : S!Revoke(q, i) \/ S!Resend(q, i)
           \/ \E q \in Requests : S!SetOpen(q) \/ \E e \in Emails : S!SetStatus(q, e)
           \/ S!Expire
    PROVE  SignUpInv'
<1>1. edits' \in 0 .. MaxEdits
  BY EditsCounted DEF S!Revoke, S!Resend, S!SetOpen, S!SetStatus, S!Expire, S!Edit
<1>2. UNCHANGED <<req, codes, linked, roles, barred, failed>>
  BY DEF S!Revoke, S!Resend, S!SetOpen, S!SetStatus, S!Expire, S!past
<1>3. user' \in [Emails -> {"none", "active", "disabled"}]
  <2>1. CASE UNCHANGED user
    BY <2>1 DEF SignUpInv, SignUpTypes
  <2> QED
    BY <2>1 DEF S!Revoke, S!Resend, S!SetOpen, S!SetStatus, S!Expire, SignUpInv, SignUpTypes
<1>4. open' \in BOOLEAN /\ recent' \in [Emails -> Nat]
  <2>1. open' \in BOOLEAN
    BY Zenon DEF S!Revoke, S!Resend, S!SetOpen, S!SetStatus, S!Expire, SignUpInv, SignUpTypes
  <2>2. recent' \in [Emails -> Nat]
    BY DEF S!Revoke, S!Resend, S!SetOpen, S!SetStatus, S!Expire, SignUpInv, SignUpTypes
  <2> QED
    BY <2>1, <2>2
<1>5. /\ inv' \in [Invitations -> S!Invitation \cup {None}]
      /\ \A y \in Invitations : inv[y] # None => inv'[y] # None /\ inv'[y].email = inv[y].email
  <2>1. CASE UNCHANGED inv
    BY <2>1 DEF SignUpInv, SignUpTypes
  <2>2. ASSUME NEW i \in Invitations, inv[i] # None, NEW row \in S!Invitation, row.email = inv[i].email, inv' = [inv EXCEPT ![i] = row]
        PROVE  <1>5
    <3>1. row # None
      BY DEF S!SignUpsAssumption
    <3> QED
      BY <2>2, <3>1 DEF SignUpInv, SignUpTypes
  <2>3. ASSUME NEW i \in Invitations, inv[i] # None
        PROVE  /\ \A state \in {"revoked"} : [inv[i] EXCEPT !.state = state] \in S!Invitation
                                               /\ [inv[i] EXCEPT !.state = state].email = inv[i].email
               /\ \A x \in BOOLEAN : [inv[i] EXCEPT !.expired = x] \in S!Invitation
                                      /\ [inv[i] EXCEPT !.expired = x].email = inv[i].email
    <3>1. inv[i] \in S!Invitation
      BY <2>3 DEF SignUpInv, SignUpTypes
    <3> QED
      BY <3>1 DEF S!Invitation
  <2>4. ASSUME NEW q \in Requests, NEW i \in Invitations, S!Revoke(q, i) PROVE <1>5
    <3>1. inv[i] # None /\ inv' = [inv EXCEPT ![i] = [inv[i] EXCEPT !.state = "revoked"]]
      BY <2>4 DEF S!Revoke
    <3> QED
      BY <2>2, <2>3, <3>1
  <2>5. ASSUME NEW i \in Invitations, inv[i] # None, NEW x \in BOOLEAN, inv' = [inv EXCEPT ![i].expired = x] PROVE <1>5
    BY <2>2, <2>3, <2>5
  <2>6. ASSUME NEW q \in Requests, NEW i \in Invitations, S!Resend(q, i) PROVE <1>5
    BY <2>5, <2>6 DEF S!Resend
  <2>7. CASE S!Expire
    BY <2>1, <2>5, <2>7 DEF S!Expire
  <2> QED
    BY <2>1, <2>4, <2>6, <2>7 DEF S!SetOpen, S!SetStatus
<1>6. /\ link' \in [Links -> S!Link \cup {None}]
      /\ \A y \in Links : link[y] # None => link'[y] # None /\ link'[y].used = link[y].used
  <2>1. CASE UNCHANGED link
    BY <2>1 DEF SignUpInv, SignUpTypes
  <2>2. ASSUME NEW k \in Links, link[k] # None, link' = [link EXCEPT ![k].expired = TRUE] PROVE <1>6
    <3>1. link[k] \in S!Link
      BY <2>2 DEF SignUpInv, SignUpTypes
    <3>2. /\ [link[k] EXCEPT !.expired = TRUE] \in S!Link /\ [link[k] EXCEPT !.expired = TRUE] # None
          /\ [link[k] EXCEPT !.expired = TRUE].used = link[k].used
      BY <3>1 DEF S!Link, S!SignUpsAssumption
    <3> QED
      BY <2>2, <3>1, <3>2 DEF SignUpInv, SignUpTypes
  <2> QED
    BY <2>1, <2>2 DEF S!Revoke, S!Resend, S!SetOpen, S!SetStatus, S!Expire
<1>7. Remains
  BY <1>5, <1>6 DEF Remains
<1>8. Calling'
  <2>1. ASSUME NEW p \in Requests PROVE Calls(req[p])'
    <3>1. req'[p] = req[p] /\ req[p] \in CallType /\ Calls(req[p])
      BY <1>2 DEF SignUpInv, SignUpTypes, Calling
    <3>2. req[p].inv # None => inv'[req[p].inv] # None /\ inv'[req[p].inv].email = req[p].email
      BY <1>7, <3>1 DEF Remains, Calls, CallType
    <3>3. req[p].at \in Callbacks => link'[req[p].link] # None /\ link'[req[p].link].used /\ codes'[req[p].link] = 0
      BY <1>2, <1>7, <3>1 DEF Remains, Calls
    <3> QED
      BY <3>1, <3>2, <3>3 DEF Calls
  <2> QED
    BY <2>1 DEF Calling
<1>9. Consumed'
  BY <1>2, <1>6 DEF SignUpInv, Consumed, OneHolder
<1> QED
  BY <1>1, <1>2, <1>3, <1>4, <1>5, <1>6, <1>8, <1>9 DEF SignUpInv, SignUpTypes

LEMMA SignUpStep == ASSUME S!SignUpsAssumption, SignUpInv, [S!Next]_S!vars PROVE SignUpInv'
<1>1. CASE UNCHANGED S!vars
  BY <1>1 DEF S!vars, S!store, S!past, SignUpInv, SignUpTypes, Calling, Calls, Consumed, OneHolder
<1>2. ASSUME NEW q \in Requests, S!Callback(q) PROVE SignUpInv'
  BY <1>2, SignUpReads, AccountInv, CompleteInv, ConsumeInv DEF S!Callback
<1>3. ASSUME NEW q \in Requests, S!SignIn(q) PROVE SignUpInv'
  BY <1>3, SignUpReads, NewLinkInv DEF S!SignIn
<1>4. ASSUME NEW q \in Requests, S!Administer(q) PROVE SignUpInv'
  BY <1>4, SignUpReads, InviteInv, AtOnceInv DEF S!Administer
<1>5. ASSUME NEW q \in Requests, S!Cut(q) PROVE SignUpInv'
  BY <1>5, SignUpReads
<1>6. CASE S!Expire
  BY <1>6, AtOnceInv
<1> QED
  BY <1>1, <1>2, <1>3, <1>4, <1>5, <1>6 DEF S!Next, S!List

\* A link that was mailed, or a state of Google, completes one sign-in at most, whoever presents it and
\* however the callbacks overlap or are cut short (providers/magic-link.ts, providers/google.ts).
THEOREM LinksWorkOnce == ASSUME S!SignUpsAssumption PROVE S!Spec => [](S!TypeOK /\ S!LinkOnce)
<1>1. S!Init => SignUpInv
  BY SignUpInit
<1>2. SignUpInv /\ [S!Next]_S!vars => SignUpInv'
  BY SignUpStep
<1>3. SignUpInv => S!TypeOK /\ S!LinkOnce
  <2> SUFFICES ASSUME SignUpInv PROVE S!TypeOK /\ S!LinkOnce
    OBVIOUS
  <2>1. S!TypeOK
    BY Zenon DEF SignUpInv, SignUpTypes, S!TypeOK, CallType
  <2>2. S!LinkOnce
    BY DEF SignUpInv, SignUpTypes, Consumed, S!LinkOnce
  <2> QED
    BY <2>1, <2>2
<1> QED
  BY <1>1, <1>2, <1>3, PTL DEF S!Spec

=============================================================================
