--------------------------- MODULE MCAuthSessions ---------------------------
(***************************************************************************)
(* Instances of AuthSessions for TLC.  Each names the requests that are in *)
(* flight and what each of them may be; everything else is left free.  A   *)
(* behaviour is a behaviour of the instance named by `part`.               *)
(***************************************************************************)
EXTENDS AuthSessions, TLC

CONSTANTS Parts, u1, a1, a2, k1, k2, c1, c2, s1, s2, t1, t2, t3, r1, r2, r3, r4, r5, r6

VARIABLE part

\* One sign-in, then exchanges, refreshes, an access and a revocation, interleaved.
RotationDuty ==
    r1 :> {"signIn"} @@ r2 :> {"exchange"} @@ r3 :> {"exchange", "refresh"}
    @@ r4 :> {"refresh", "access"} @@ r5 :> {"refresh", "revoke"} @@ r6 :> {}

\* The administrator and the browser: an account disabled and re-enabled, a sweep, a
\* logout, while the account signs in, authorizes from its cookie and uses its tokens.
AccountDuty ==
    r1 :> {"signIn"} @@ r2 :> {"signIn", "authorize"} @@ r3 :> {"exchange"}
    @@ r4 :> {"exchange", "refresh", "access"} @@ r5 :> {"disable", "logout", "sweep", "prune"} @@ r6 :> {"enable"}

\* Both.
EveryDuty == [r \in Reqs |-> RotationDuty[r] \cup AccountDuty[r]]
Symmetry == Permutations({k1, k2}) \cup Permutations({c1, c2}) \cup Permutations({s1, s2}) \cup Permutations({t2, t3})

\* One exchange and one disable.
DisableDuty == r1 :> {"signIn"} @@ r2 :> {"exchange"} @@ r3 :> {"disable"}

Sent(duty) == \A r \in Reqs : req[r].kind \in duty[r] \cup {"none"}

\* What the bounds of each part leave out of the common ones: in the rotation no SSO session expires;
\* on the account side there is one application, with two refresh tokens, and nothing is cut short.
Rotating == Sent(RotationDuty) /\ \A k \in Ssos : ~ sso[k].expired
Administering ==
    /\ Sent(AccountDuty) /\ ~ Issued(t1)
    /\ \A r \in Reqs : req[r].client # a2 /\ req[r].outcome # "failed"

MCInit == Init /\ part \in Parts

MCNext ==
    /\ Next /\ UNCHANGED part
    /\ part = "rotation" => Rotating'
    /\ part = "account" => Administering'

MCSpec == MCInit /\ [][MCNext]_<<vars, part>>

=============================================================================
