---------------------------- MODULE SessionFamily ----------------------------
(***************************************************************************)
(* What apps/auth promises of a session, whatever happens inside the token *)
(* endpoint: the session is opened once and closed once and for all; while *)
(* it is open at most one refresh token can be spent on it, a spent token  *)
(* is retired for ever, and a closed session has no token left to spend.   *)
(***************************************************************************)
CONSTANTS Sessions, Tokens

VARIABLES
    phase,     \* unopened, open or closed, for each session
    spendable, \* the refresh tokens of the session that can still be spent
    retired    \* tokens that can never be spent again

vars == <<phase, spendable, retired>>

Phases == {"unopened", "open", "closed"}

\* Every session has at most one token that can be spent, none unless it is open,
\* and never one that was retired.
AtMostOneSpendable ==
    /\ phase \in [Sessions -> Phases]
    /\ spendable \in [Sessions -> SUBSET Tokens]
    /\ retired \subseteq Tokens
    /\ \A s \in Sessions : \A t1, t2 \in spendable[s] : t1 = t2
    /\ \A s \in Sessions : phase[s] # "open" => spendable[s] = {}
    /\ \A s \in Sessions : spendable[s] \cap retired = {}

Open(s) ==
    /\ phase[s] = "unopened"
    /\ phase' = [phase EXCEPT ![s] = "open"]
    /\ UNCHANGED <<spendable, retired>>

\* A new token, only where none is left to spend.
Grant(s, t) ==
    /\ phase[s] = "open" /\ spendable[s] = {}
    /\ t \notin retired /\ \A x \in Sessions : t \notin spendable[x]
    /\ spendable' = [spendable EXCEPT ![s] = {t}]
    /\ UNCHANGED <<phase, retired>>

Spend(s, t) ==
    /\ t \in spendable[s]
    /\ spendable' = [spendable EXCEPT ![s] = @ \ {t}]
    /\ retired' = retired \cup {t}
    /\ UNCHANGED phase

Close(s) ==
    /\ phase[s] = "open"
    /\ phase' = [phase EXCEPT ![s] = "closed"]
    /\ spendable' = [spendable EXCEPT ![s] = {}]
    /\ retired' = retired \cup spendable[s]

\* A token born on a session that was closed while it was being minted.
Stillborn(t) ==
    /\ \A x \in Sessions : t \notin spendable[x]
    /\ retired' = retired \cup {t}
    /\ UNCHANGED <<phase, spendable>>

Init ==
    /\ phase = [s \in Sessions |-> "unopened"]
    /\ spendable = [s \in Sessions |-> {}]
    /\ retired = {}

Next ==
    \/ \E s \in Sessions : Open(s) \/ Close(s)
    \/ \E s \in Sessions, t \in Tokens : Grant(s, t) \/ Spend(s, t)
    \/ \E t \in Tokens : Stillborn(t)

Spec == Init /\ [][Next]_vars
=============================================================================
