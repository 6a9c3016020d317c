----------------------------- MODULE MCAccounts -----------------------------
(***************************************************************************)
(* Instances for TLC of what apps/auth keeps around its sessions: roles    *)
(* and permissions, client applications and their secrets, sign-ups and    *)
(* invitations, and the authorization endpoint.  A behaviour is a          *)
(* behaviour of the instance named by `part`.  AdminRoles, about which     *)
(* there are proofs, is extended: while another part runs, its variables   *)
(* stay as they were; the variables of any other component hold None while *)
(* it does not run.                                                        *)
(***************************************************************************)
EXTENDS AdminRoles, TLC

CONSTANTS x1, x2, x3, y1, y2, z1, z2, q1, q2  \* rows, accounts and requests

VARIABLES part,
    app, secret, armed, wanted,                                   \* ClientSecrets
    user, linked, roles, inv, open, link, recent, barred, failed, \* SignUps
    sso, cookie, parked, shown,                                   \* Authorize
    clock, codes, job, count                                      \* of several of these three

roleVars == <<role, perms, attached, held, active, asked, req, edits>>
secretVars == <<app, secret, armed, wanted>>
signUpVars == <<user, linked, roles, inv, open, link, recent, barred, failed>>
authorizeVars == <<sso, cookie, parked, shown>>
allVars == <<part, roleVars, secretVars, signUpVars, authorizeVars, clock, codes, job, count>>

Interchangeable ==
    Permutations({x1, x2, x3}) \cup Permutations({y1, y2}) \cup Permutations({z1, z2}) \cup Permutations({q1, q2})

NoSecrets == app = None /\ secret = None /\ armed = None /\ wanted = None
NoSignUps == /\ user = None /\ linked = None /\ roles = None /\ inv = None /\ open = None
             /\ link = None /\ recent = None /\ barred = None /\ failed = None
NoAuthorize == sso = None /\ cookie = None /\ parked = None /\ shown = None

-----------------------------------------------------------------------------
(* The instances *)

\* Requests that overlap, about the roles of one account; they may be cut short.
Overlapping == INSTANCE AdminRoles WITH Together <- TRUE,
                Duties <- {"create", "delete", "grant", "define", "undefine", "status", "cut"}
OneAccount == \A a \in Accounts \ {First} : held[a] = {} /\ a \in active /\ \A q \in Requests : req[q].a # a
\* Every request of the administrators, one at a time, with two roles.
Alone == INSTANCE AdminRoles WITH Together <- FALSE,
                Duties <- {"create", "patch", "attach", "detach", "delete", "grant", "revoke", "define", "undefine"}
TwoRoles == Cardinality({r \in Roles : role[r] # None}) <= 2

\* Edits and rotations that overlap.
Clients == INSTANCE ClientSecrets WITH asked <- wanted, req <- job, edits <- count, Secrets <- {x1, x2},
                Requests <- {q1, q2}, Graces <- {0, 1}, MaxTime <- 1, MaxEdits <- 4, Together <- TRUE,
                Duties <- {"create", "edit", "rotate"}
\* Three secrets, and every request about them, one at a time.
ClientsAlone == INSTANCE ClientSecrets WITH asked <- wanted, req <- job, edits <- count, Secrets <- {x1, x2, x3},
                Requests <- {"q"}, Graces <- {0, 1, 2}, MaxTime <- 3, MaxEdits <- 4, Together <- FALSE,
                Duties <- {"create", "edit", "issue", "expire", "rotate", "revoke"}

\* Two callbacks for one address, invitations, and what administrators do meanwhile.
SigningUp == INSTANCE SignUps WITH req <- job, edits <- count, Emails <- {"e"}, Providers <- {"magic_link", "google"},
                Links <- {y1, y2}, Invitations <- {z1, z2}, Requests <- {q1, q2}, MaxLinks <- 1, MaxEdits <- 6,
                Together <- TRUE, Duties <- {"link", "google", "callback", "invite", "revoke", "disable", "open", "cut"}
\* Two addresses, with one request at a time.
SignUpsAlone == INSTANCE SignUps WITH req <- job, edits <- count, Emails <- {x1, x2}, Providers <- {"magic_link", "google"},
                Links <- {y1, y2}, Invitations <- {z1, z2}, Requests <- {"q"}, MaxLinks <- 1, MaxEdits <- 6,
                Together <- FALSE, Duties <- {"link", "google", "callback", "invite", "revoke", "resend", "open", "expire"}

\* Two requests that overlap, and a client that asks for a recent sign-in.
Fresh == INSTANCE Authorize WITH req <- job, edits <- count, Browsers <- {"b"}, Users <- {"u"}, Sessions <- {x1, x2},
                Parked <- {y1, y2}, Requests <- {q1, q2}, MaxAges <- {1}, MaxTime <- 2, MaxEdits <- 5, Together <- TRUE,
                Duties <- {"authorize", "sign in", "continue", "logout", "expire"}
\* The Authorize button, and sign-ins one at a time.
Shown == INSTANCE Authorize WITH req <- job, edits <- count, Browsers <- {"b"}, Users <- {z1, z2}, Sessions <- {x1, x2, x3},
                Parked <- {y1, y2}, Requests <- {"q"}, MaxAges <- {1}, MaxTime <- 0, MaxEdits <- 6, Together <- TRUE,
                Duties <- {"authorize", "sign in", "describe", "continue", "logout"}

ASSUME Clients!SecretsAssumption /\ ClientsAlone!SecretsAssumption
ASSUME SigningUp!SignUpsAssumption /\ SignUpsAlone!SignUpsAssumption
ASSUME Fresh!AuthorizeAssumption /\ Shown!AuthorizeAssumption

-----------------------------------------------------------------------------
(* The behaviours *)

MCInit ==
    /\ Init
    /\ \/ /\ part \in {"overlapping", "alone"}
          /\ NoSecrets /\ NoSignUps /\ NoAuthorize /\ clock = None /\ codes = None /\ job = None /\ count = None
       \/ /\ \/ part = "secrets" /\ Clients!Init
             \/ part = "secrets alone" /\ ClientsAlone!Init
          /\ NoSignUps /\ NoAuthorize /\ codes = None
       \/ /\ \/ part = "sign ups" /\ SigningUp!Init
             \/ part = "sign ups alone" /\ SignUpsAlone!Init
          /\ NoSecrets /\ NoAuthorize /\ clock = None
       \/ /\ \/ part = "fresh" /\ Fresh!Init
             \/ part = "shown" /\ Shown!Init
          /\ NoSecrets /\ NoSignUps

MCNext ==
    /\ UNCHANGED part
    /\ \/ /\ \/ part = "overlapping" /\ Overlapping!Next /\ OneAccount'
             \/ part = "alone" /\ Alone!Next /\ TwoRoles'
          /\ UNCHANGED <<secretVars, signUpVars, authorizeVars, clock, codes, job, count>>
       \/ /\ \/ part = "secrets" /\ Clients!Next
             \/ part = "secrets alone" /\ ClientsAlone!Next
          /\ UNCHANGED <<roleVars, signUpVars, authorizeVars, codes>>
       \/ /\ \/ part = "sign ups" /\ SigningUp!Next
             \/ part = "sign ups alone" /\ SignUpsAlone!Next
          /\ UNCHANGED <<roleVars, secretVars, authorizeVars, clock>>
       \/ /\ \/ part = "fresh" /\ Fresh!Next
             \/ part = "shown" /\ Shown!Next
          /\ UNCHANGED <<roleVars, secretVars, signUpVars>>

MCSpec == MCInit /\ [][MCNext]_allVars

-----------------------------------------------------------------------------
(* Properties, with NothingDangles of AdminRoles *)

\* Whichever registrations overlap, roles have slugs of their own; where administrators take turns, what a
\* role carries is one set that was asked for (routes/admin/roles.ts); a public client needs PKCE and has no secret left, and an edit
\* stands (routes/admin/applications.ts).  A link completes one sign-in, whoever presents it at once
\* (providers/magic-link.ts, providers/google.ts); of requests one at a time, nobody joins uninvited, and an
\* account has its roles and spends its invitation (services/users.ts).  A code that the Authorize button did
\* not give is as fresh as the client asked, and one that it gave is of the account the front-end showed
\* (routes/authorize.ts); where its requests come one at a time, a browser has one session (services/sso.ts).
AccountsHold ==
    /\ TypeOK /\ UniqueSlugs
    /\ part = "alone" => WholeSet
    /\ part = "secrets" => Clients!PublicNeedsPkce
    /\ part = "secrets alone" => ClientsAlone!TypeOK /\ ClientsAlone!PublicHasNone /\ ClientsAlone!EditsKept
    /\ part = "sign ups" => SigningUp!TypeOK /\ SigningUp!LinkOnce
    /\ part = "sign ups alone" =>
         /\ SignUpsAlone!InvitedOnly /\ SignUpsAlone!RolesGiven /\ SignUpsAlone!InvitationSpent
         /\ SignUpsAlone!OnePending /\ SignUpsAlone!LinksLimited /\ SignUpsAlone!NoneFails
    /\ part = "fresh" => Fresh!TypeOK /\ Fresh!FreshUnlessContinued
    /\ part = "shown" => Shown!GrantedAsShown /\ Shown!OneSessionPerBrowser

\* What no step does: delete the role by which the last administrator of roles is one (routes/admin/roles.ts),
\* take the last secret a client can authenticate with, or postpone the end of one (services/applications.ts).
AccountMoves == [][
    /\ part = "alone" =>
         ((\E r \in Roles : role[r] # None /\ role'[r] = None) => (\E a \in Accounts : Able(a, Write))')
    /\ part = "secrets alone" => ClientsAlone!LastKept /\ ClientsAlone!NeverPostponed]_allVars

=============================================================================
