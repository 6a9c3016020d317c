------------------------------ MODULE SignUps ------------------------------
(***************************************************************************)
(* Who may have an account, in apps/auth: invitations, the switch that     *)
(* opens registration, the single-use links and states a sign-in goes      *)
(* through, and the statements by which the callback of a provider finds   *)
(* or makes the account of an address.                                     *)
(***************************************************************************)
EXTENDS Integers, FiniteSets

CONSTANTS
    Emails,      \* addresses; one account of each provider has each
    Providers,   \* magic_link and google
    Links,       \* bound: the links mailed and the sign-ins begun with Google
    Invitations, \* bound: the invitations
    Requests,    \* callbacks, requests for links and requests of administrators
    None,
    MaxLinks,    \* MAGIC_LINK_RATE_LIMIT.max
    MaxEdits,    \* bound: requests, and what goes wrong
    Together,    \* bound: whether requests overlap
    Duties       \* bound: which of them happen

VARIABLES user,   \* users: None, or the status of the account of an address
          linked, \* identities: the providers each account signs in with
          roles,  \* user_roles: "default" and "invited"
          inv,    \* invitations
          open,   \* the registration_open setting
          link,   \* magic_link_tokens and oauth_states
          recent, \* the links of the rate limit's window, per address
          codes,  \* history: the sign-ins each link completed
          barred, \* history: addresses that got an account while nothing allowed it
          failed, \* history: a callback ended with an error nobody meant
          req,    \* requests, between two statements
          edits   \* counter of the bound

store == <<user, linked, roles, inv, open, link, recent>>
past == <<codes, barred, failed>>
vars == <<store, past, req, edits>>

Invitation == [email : Emails, role : BOOLEAN, state : {"pending", "accepted", "revoked"}, expired : BOOLEAN]
Link == [email : Emails, provider : Providers, used : BOOLEAN, expired : BOOLEAN]
NoReq == [at |-> "none", email |-> None, link |-> None, inv |-> None, role |-> FALSE, fresh |-> FALSE]

SignUpsAssumption ==
    /\ {MaxLinks, MaxEdits} \subseteq Nat /\ Together \in BOOLEAN /\ "magic_link" \in Providers
    /\ None \notin Emails /\ None \notin Links /\ None \notin Invitations /\ None \notin Link /\ None \notin Invitation

Steps == {"none", "send", "find", "invited", "create", "link", "grant", "invite role", "accept", "code", "insert"}

TypeOK ==
    /\ \A e \in Emails : user[e] \in {"none", "active", "disabled"}
    /\ linked \in [Emails -> SUBSET Providers] /\ roles \in [Emails -> SUBSET {"default", "invited"}]
    /\ \A i \in Invitations : inv[i] # None => inv[i] \in Invitation
    /\ \A k \in Links : link[k] # None => link[k] \in Link
    /\ open \in BOOLEAN /\ failed \in BOOLEAN /\ barred \subseteq Emails
    /\ recent \in [Emails -> Nat] /\ codes \in [Links -> Nat] /\ edits \in 0 .. MaxEdits
    /\ \A q \in Requests : req[q].at \in Steps

Free(q) == req[q].at = "none" /\ (Together \/ \A p \in Requests : req[p].at = "none")
Edit(what) == what \in Duties /\ edits < MaxEdits /\ edits' = edits + 1
At(q, at) == req[q].at = at /\ UNCHANGED edits
End(q) == req' = [req EXCEPT ![q] = NoReq]
Move(q, at) == req' = [req EXCEPT ![q].at = at]
Fail(q) == failed' = TRUE /\ End(q)

-----------------------------------------------------------------------------
FaultyUsable(i, e) == inv[i] # None /\ inv[i].email = e /\ inv[i].state # "accepted" /\ ~ inv[i].expired

\* findPendingInvitation: not accepted, not revoked and not expired.
Usable(i, e) == inv[i] # None /\ inv[i].email = e /\ inv[i].state = "pending" /\ ~ inv[i].expired
MayJoin(e) == open \/ \E i \in Invitations : Usable(i, e)

\* Something lets the address in right now: what the administrators decided.
Welcome(e) == open \/ \E i \in Invitations : inv[i] # None /\ inv[i].email = e /\ inv[i].state = "pending" /\ ~ inv[i].expired

FaultyBelow(e) == recent[e] <= MaxLinks

\* countRecentRequests
Below(e) == recent[e] < MaxLinks

\* requestMagicLink: below the rate limit, and an active account, an invitation or open registration;
BeginLink(q, e) ==
    /\ Free(q) /\ Edit("link") /\ Below(e)
    /\ user[e] = "active" \/ (user[e] = "none" /\ MayJoin(e))
    /\ req' = [req EXCEPT ![q] = [NoReq EXCEPT !.at = "send", !.email = e]]
    /\ UNCHANGED <<store, past>>

\* the link is recorded and mailed.
SendLink(q, k) ==
    LET e == req[q].email IN
    /\ At(q, "send") /\ link[k] = None
    /\ link' = [link EXCEPT ![k] = [email |-> e, provider |-> "magic_link", used |-> FALSE, expired |-> FALSE]]
    /\ recent' = [recent EXCEPT ![e] = @ + 1]
    /\ End(q) /\ UNCHANGED <<user, linked, roles, inv, open, past>>

\* startGoogleFlow records a state; whose account it is, Google says later.
StartGoogle(q, e, k) ==
    /\ Free(q) /\ Edit("google") /\ link[k] = None
    /\ link' = [link EXCEPT ![k] = [email |-> e, provider |-> "google", used |-> FALSE, expired |-> FALSE]]
    /\ UNCHANGED <<user, linked, roles, inv, open, recent, past, req>>

FaultyUnused(k) == TRUE

\* The guard of the update that consumes it.
Unused(k) == ~ link[k].used

\* The callback consumes the link or the state, or says that it expired or was used.
Consume(q, k) ==
    /\ Free(q) /\ link[k] # None /\ ~ link[k].expired /\ Unused(k) /\ Edit("callback")
    /\ link' = [link EXCEPT ![k].used = TRUE]
    /\ req' = [req EXCEPT ![q] = [NoReq EXCEPT !.at = "find", !.email = link[k].email, !.link = k]]
    /\ UNCHANGED <<user, linked, roles, inv, open, recent, past>>

FaultyAccount(e, p) == IF p \in linked[e] THEN user[e] ELSE "none"

\* The account of a profile: of its identity, or else of its address.
Account(e, p) == user[e]

\* resolveUserForProfile: the identity is known, or the address is, or this is a sign-up.
Find(q) ==
    LET e == req[q].email
        p == link[req[q].link].provider
    IN  /\ At(q, "find")
        /\ \/ Account(e, p) = "none" /\ Move(q, "invited")
           \/ Account(e, p) = "disabled" /\ End(q)
           \/ Account(e, p) = "active" /\ p \in linked[e] /\ Move(q, "code")
           \/ Account(e, p) = "active" /\ p \notin linked[e] /\ Move(q, "link")
        /\ UNCHANGED <<store, past>>

\* A sign-up takes an invitation if there is one, and is refused when registration is closed otherwise.
FindInvitation(q) ==
    LET e == req[q].email IN
    /\ At(q, "invited")
    /\ \/ \E i \in Invitations :
            Usable(i, e) /\ req' = [req EXCEPT ![q].at = "create", ![q].inv = i, ![q].role = inv[i].role]
       \/ (\A i \in Invitations : ~ Usable(i, e)) /\ open /\ Move(q, "create")
       \/ ~ MayJoin(e) /\ End(q)
    /\ UNCHANGED <<store, past>>

\* users_email_unique
Taken(e) == user[e] # "none"

\* The account is inserted: a second one for the address is an error of the database;
CreateUser(q) ==
    LET e == req[q].email IN
    /\ At(q, "create")
    /\ \/ Taken(e) /\ Fail(q) /\ UNCHANGED <<user, barred>>
       \/ /\ ~ Taken(e) /\ user' = [user EXCEPT ![e] = "active"]
          /\ barred' = IF Welcome(e) THEN barred ELSE barred \cup {e}
          /\ req' = [req EXCEPT ![q].at = "link", ![q].fresh = TRUE] /\ UNCHANGED failed
    /\ UNCHANGED <<linked, roles, inv, open, link, recent, codes>>

\* its identity is linked, which is unique too;
LinkIdentity(q) ==
    LET e == req[q].email
        p == link[req[q].link].provider
    IN  /\ At(q, "link")
        /\ IF p \in linked[e] THEN Fail(q) /\ UNCHANGED linked
           ELSE /\ linked' = [linked EXCEPT ![e] = @ \cup {p}] /\ UNCHANGED failed
                /\ Move(q, IF req[q].fresh THEN "grant" ELSE "code")
        /\ UNCHANGED <<user, roles, inv, open, link, recent, codes, barred>>

FaultyDefaults(r) == r
Misnamed(r) == r \cup {"member"}

Defaults(r) == r \cup {"default"}

\* a new account is granted the default roles,
GrantDefaults(q) ==
    /\ At(q, "grant")
    /\ roles' = [roles EXCEPT ![req[q].email] = Defaults(@)]
    /\ Move(q, IF req[q].inv = None THEN "code" ELSE IF req[q].role THEN "invite role" ELSE "accept")
    /\ UNCHANGED <<user, linked, inv, open, link, recent, past>>

\* and the role of its invitation,
GrantInvited(q) ==
    /\ At(q, "invite role")
    /\ roles' = [roles EXCEPT ![req[q].email] = @ \cup {"invited"}]
    /\ Move(q, "accept")
    /\ UNCHANGED <<user, linked, inv, open, link, recent, past>>

FaultyAcceptable(i) == inv[i].state = "pending" /\ ~ inv[i].role

\* acceptInvitation: unless it was accepted already.
Acceptable(i) == inv[i].state # "accepted"

\* which is accepted.
Accept(q) ==
    LET i == req[q].inv IN
    /\ At(q, "accept")
    /\ inv' = IF Acceptable(i) THEN [inv EXCEPT ![i].state = "accepted"] ELSE inv
    /\ Move(q, "code")
    /\ UNCHANGED <<user, linked, roles, open, link, recent, past>>

\* completeAuthentication: the session starts and the code is issued.
Complete(q) ==
    /\ At(q, "code")
    /\ codes' = [codes EXCEPT ![req[q].link] = @ + 1]
    /\ End(q) /\ UNCHANGED <<store, barred, failed>>

-----------------------------------------------------------------------------
Pending(e) == {i \in Invitations : inv[i] # None /\ inv[i].email = e /\ inv[i].state = "pending"}

FaultyDuplicate(e) == \E i \in Invitations : Usable(i, e)

\* An invitation that is neither accepted nor revoked, expired or not.
Duplicate(e) == Pending(e) # {}

\* POST /admin/invitations: the address has no such invitation,
BeginInvite(q, e, role) ==
    /\ Free(q) /\ Edit("invite") /\ ~ Duplicate(e)
    /\ req' = [req EXCEPT ![q] = [NoReq EXCEPT !.at = "insert", !.email = e, !.role = role]]
    /\ UNCHANGED <<store, past>>

\* and then it is inserted.
Invite(q, i) ==
    /\ At(q, "insert") /\ inv[i] = None
    /\ inv' = [inv EXCEPT ![i] = [email |-> req[q].email, role |-> req[q].role, state |-> "pending", expired |-> FALSE]]
    /\ End(q) /\ UNCHANGED <<user, linked, roles, open, link, recent, past>>

\* DELETE /admin/invitations/:id revokes a pending one, in one update.
Revoke(q, i) ==
    /\ Free(q) /\ inv[i] # None /\ inv[i].state = "pending" /\ Edit("revoke")
    /\ inv' = [inv EXCEPT ![i].state = "revoked"]
    /\ UNCHANGED <<user, linked, roles, open, link, recent, past, req>>

\* POST /admin/invitations/:id/resend may revive one.
Resend(q, i) ==
    /\ Free(q) /\ inv[i] # None /\ inv[i].state = "pending" /\ Edit("resend")
    /\ inv' = [inv EXCEPT ![i].expired = FALSE]
    /\ UNCHANGED <<user, linked, roles, open, link, recent, past, req>>

\* PATCH of the settings opens and closes registration; PATCH of a user disables and enables it.
SetOpen(q) == Free(q) /\ Edit("open") /\ open' = ~ open /\ UNCHANGED <<user, linked, roles, inv, link, recent, past, req>>

SetStatus(q, e) ==
    /\ Free(q) /\ user[e] # "none" /\ Edit("disable")
    /\ user' = [user EXCEPT ![e] = IF @ = "active" THEN "disabled" ELSE "active"]
    /\ UNCHANGED <<linked, roles, inv, open, link, recent, past, req>>

\* The world: links and invitations expire, the window of the rate limit passes, a request is cut short.
Expire ==
    /\ Edit("expire") /\ (Together \/ \A p \in Requests : req[p].at = "none")
    /\ \/ \E k \in Links : link[k] # None /\ link' = [link EXCEPT ![k].expired = TRUE] /\ UNCHANGED <<inv, recent>>
       \/ \E i \in Invitations : inv[i] # None /\ inv' = [inv EXCEPT ![i].expired = TRUE] /\ UNCHANGED <<link, recent>>
       \/ recent' = [e \in Emails |-> 0] /\ UNCHANGED <<link, inv>>
    /\ UNCHANGED <<user, linked, roles, open, past, req>>

Cut(q) == req[q].at # "none" /\ Edit("cut") /\ End(q) /\ UNCHANGED <<store, past>>

\* GET /admin/invitations lists, and changes nothing.
List == UNCHANGED vars

Init ==
    /\ user = [e \in Emails |-> "none"] /\ linked = [e \in Emails |-> {}] /\ roles = [e \in Emails |-> {}]
    /\ inv = [i \in Invitations |-> None] /\ open = FALSE /\ link = [k \in Links |-> None]
    /\ recent = [e \in Emails |-> 0] /\ codes = [k \in Links |-> 0] /\ barred = {} /\ failed = FALSE
    /\ req = [q \in Requests |-> NoReq] /\ edits = 0

Callback(q) ==
    \/ Find(q) \/ FindInvitation(q) \/ CreateUser(q) \/ LinkIdentity(q) \/ GrantDefaults(q) \/ GrantInvited(q)
    \/ Accept(q) \/ Complete(q) \/ \E k \in Links : Consume(q, k)

SignIn(q) ==
    \/ \E e \in Emails : BeginLink(q, e)
    \/ \E k \in Links : SendLink(q, k) \/ \E e \in Emails : "google" \in Providers /\ StartGoogle(q, e, k)

Administer(q) ==
    \/ \E e \in Emails : SetStatus(q, e) \/ \E role \in BOOLEAN : BeginInvite(q, e, role)
    \/ \E i \in Invitations : Invite(q, i) \/ Revoke(q, i) \/ Resend(q, i)
    \/ SetOpen(q)

Next ==
    \/ \E q \in Requests : Callback(q) \/ SignIn(q) \/ Administer(q) \/ Cut(q)
    \/ Expire \/ List

Spec == Init /\ [][Next]_vars

-----------------------------------------------------------------------------
Quiet == \A q \in Requests : req[q].at = "none"

\* A link, or a state of Google, completes one sign-in at most, however many requests carry it.
LinkOnce == \A k \in Links : codes[k] <= 1

\* Nobody gets an account whom nothing lets in at that moment: no open registration and no usable
\* invitation.
InvitedOnly == barred = {}

\* Every account that was made has the default roles, however its making ended.
RolesGiven == Quiet => \A e \in Emails : user[e] # "none" => "default" \in roles[e]

\* The invitation that let an account in is not left pending for somebody else.
InvitationSpent ==
    Quiet => \A e \in Emails : "invited" \in roles[e] => \E i \in Invitations : inv[i] # None /\ inv[i].email = e /\ inv[i].state = "accepted"

\* An address has one pending invitation at most.
OnePending == \A e \in Emails : Cardinality(Pending(e)) <= 1

\* The links mailed to an address in a window stay below the limit.
LinksLimited == \A e \in Emails : recent[e] <= MaxLinks

\* No callback ends with an error of the database: of two concurrent sign-ups for one address, both
\* sign in.
NoneFails == ~ failed
=============================================================================
