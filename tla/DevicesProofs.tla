--------------------------- MODULE DevicesProofs ---------------------------
(***************************************************************************)
(* Proofs about the devices of an app of apps/custom-apps, for every       *)
(* number of devices, rows, keys, token pairs, sockets, editors and        *)
(* concurrent requests.  Installations: one row per device, one use per    *)
(* refresh token, no installation without its app, revocation that no      *)
(* request under way undoes, and keys whose successor their own rotation   *)
(* issued.  Presence: one socket.  Configuration: a history that only      *)
(* grows.                                                                  *)
(***************************************************************************)
EXTENDS Installations, FiniteSetTheorems, TLAPS

CONSTANTS
    Sockets, HourLen, Limit, Instant, Jobs,                          \* DevicePresence
    Editors, Fetches, Msgs, MaxVersion, MaxLost, Duties,             \* RemoteConfig
    MaxTime, MaxEdits                                                \* both

VARIABLES
    online, usage, dark, socket, told,                               \* DevicePresence
    history, schema, flags, channel, msgs, receipts, page, beat, fetch, lost, edits,  \* RemoteConfig
    now, job                                                         \* both

P == INSTANCE DevicePresence WITH inst <- online, req <- job, Duty <- Jobs
F == INSTANCE RemoteConfig WITH req <- job

-----------------------------------------------------------------------------
(* Installations and keys *)

\* What an invocation carries from its first statement to its second: the row it read is there.
Carries(q) ==
    /\ q.kind = "enroll" => q.device \in Devices
    /\ q.kind = "enroll" /\ q.stage = "update" => q.row \in Installs
    /\ q.kind = "refresh" => q.row \in Installs /\ q.token \in Pairs
    /\ q.kind = "review" => q.row \in Installs
    /\ q.kind = "revoke" => q.row \in Installs /\ Stored(q.row)
    /\ q.kind \in {"rotate", "dropkey"} => q.key \in Keys

Locals == \A r \in Reqs : Carries(req[r])

\* A pair is held by one row at most, was issued, and was not exchanged while it is held.
HeldOnce ==
    /\ \A i, j \in Installs : inst[i].holds \in Pairs /\ inst[i].holds = inst[j].holds => i = j
    /\ \A i \in Installs : inst[i].holds \in Pairs =>
         pair[inst[i].holds].issued /\ pair[inst[i].holds].exchanged = 0
    /\ \A t \in Pairs : ~pair[t].issued => pair[t].exchanged = 0

\* The inductive invariant.
Inv == TypeOK /\ Locals /\ HeldOnce /\ RefreshWorksOnce /\ OneRowPerDevice /\ InstallationsHaveAnApp

-----------------------------------------------------------------------------
\* The empty tables.
LEMMA InitInv == Init => Inv
<1> SUFFICES ASSUME Init PROVE Inv
  OBVIOUS
<1>1. TypeOK
  <2>1. key \in [Keys -> AppKey]
    BY DEF Init, AppKey, NoKey
  <2>2. inst \in [Installs -> Installation] /\ pair \in [Pairs -> Pair] /\ req \in [Reqs -> Request]
    BY DEF Init, Installation, NoInstallation, Pair, NoPair, Request, NoRequest
  <2> QED
    BY <2>1, <2>2 DEF TypeOK, Init
<1>2. Locals
  BY DEF Init, Locals, Carries, NoRequest
<1>3. HeldOnce /\ RefreshWorksOnce
  BY InstallationsAssumption DEF Init, HeldOnce, RefreshWorksOnce, NoInstallation, NoPair
<1>4. OneRowPerDevice /\ InstallationsHaveAnApp
  BY DEF Init, OneRowPerDevice, InstallationsHaveAnApp, Stored, NoInstallation
<1> QED
  BY <1>1, <1>2, <1>3, <1>4 DEF Inv

\* A request that begins reads, and what it carries was there.
LEMMA BeginInv ==
    ASSUME Inv, NEW r \in Reqs,
           BeginEnroll(r) \/ BeginRefresh(r) \/ BeginDecision(r) \/ BeginKey(r) \/ BeginDelete(r)
    PROVE  Inv'
<1>1. UNCHANGED <<app, key, inst, pair>>
  BY DEF BeginEnroll, BeginRefresh, BeginDecision, BeginKey, BeginDelete
<1>2. \E q \in Request : Carries(q) /\ req' = [req EXCEPT ![r] = q]
  <2>1. CASE BeginEnroll(r)
    BY <2>1 DEF BeginEnroll, Begin, Request, NoRequest, Carries, Kinds, FindByDevice
  <2>2. CASE BeginRefresh(r)
    BY <2>2 DEF BeginRefresh, Begin, Request, NoRequest, Carries, Kinds
  <2>3. CASE BeginDecision(r)
    <3> PICK kind \in {"review", "revoke"}, i \in Installs :
           /\ kind = "review" => inst[i].needsReview
           /\ kind = "revoke" => inst[i].status = "active"
           /\ Begin(r, [NoRequest EXCEPT !.kind = kind, !.stage = "write", !.row = i])
      BY <2>3 DEF BeginDecision
    <3> QED
      BY DEF Begin, Request, NoRequest, Carries, Kinds, Stored
  <2>4. CASE BeginKey(r)
    BY <2>4 DEF BeginKey, Begin, Request, NoRequest, Carries, Kinds
  <2>5. CASE BeginDelete(r)
    BY <2>5 DEF BeginDelete, Begin, Request, NoRequest, Carries, Kinds
  <2> QED
    BY <2>1, <2>2, <2>3, <2>4, <2>5
<1>3. TypeOK' /\ Locals'
  BY <1>1, <1>2 DEF Inv, TypeOK, Locals, Carries, Stored
<1> QED
  BY <1>1, <1>3 DEF Inv, HeldOnce, RefreshWorksOnce, OneRowPerDevice, InstallationsHaveAnApp, Stored

\* An invocation that ends carries nothing, and rows never go: what others carry stays there.
LEMMA EndLocals ==
    ASSUME Inv, NEW r \in Reqs, End(r), \A i \in Installs : Stored(i) => Stored(i)'
    PROVE  Locals' /\ req' \in [Reqs -> Request]
<1>1. NoRequest \in Request /\ Carries(NoRequest)'
  BY DEF NoRequest, Request, Carries
<1>2. req' = [req EXCEPT ![r] = NoRequest] /\ req \in [Reqs -> Request]
  BY DEF End, Inv, TypeOK
<1>3. ASSUME NEW x \in Reqs PROVE Carries(req[x])'
  <2>1. CASE x = r
    <3>1. req'[x] = NoRequest
      BY <1>2, <2>1
    <3> QED
      BY <3>1 DEF Carries, NoRequest
  <2>2. CASE x # r
    <3>1. req'[x] = req[x] /\ Carries(req[x])
      BY <1>2, <2>2 DEF Inv, Locals
    <3> QED
      BY <3>1 DEF Carries
  <2> QED
    BY <2>1, <2>2
<1>4. req' \in [Reqs -> Request]
  BY <1>1, <1>2
<1> QED
  BY <1>3, <1>4 DEF Locals

\* A fresh pair, written to one row, keeps every pair in one hand.
LEMMA FreshPair ==
    ASSUME Inv, NEW i \in Installs, NEW t \in Pairs, ~pair[t].issued,
           inst' \in [Installs -> Installation], inst'[i].holds = t,
           \A j \in Installs : j # i => inst'[j] = inst[j],
           \A u \in Pairs : u # t => pair'[u].issued = pair[u].issued,
           \A u \in Pairs : pair'[u].exchanged = pair[u].exchanged \/ inst[i].holds = u,
           pair'[t].issued, pair'[t].exchanged = pair[t].exchanged
    PROVE  HeldOnce'
<1>1. \A j \in Installs : inst[j].holds # t
  BY DEF Inv, HeldOnce
<1>2. \A j \in Installs : j # i /\ inst[j].holds \in Pairs => inst[j].holds # inst[i].holds
  BY DEF Inv, HeldOnce
<1>3. ASSUME NEW j \in Installs, NEW k \in Installs, inst'[j].holds \in Pairs, inst'[j].holds = inst'[k].holds
      PROVE  j = k
  BY <1>1, <1>3 DEF Inv, HeldOnce
<1>4. ASSUME NEW j \in Installs, inst'[j].holds \in Pairs
      PROVE  pair'[inst'[j].holds].issued /\ pair'[inst'[j].holds].exchanged = 0
  <2>1. CASE j = i
    BY <2>1 DEF Inv, HeldOnce
  <2>2. CASE j # i
    <3>1. inst'[j] = inst[j] /\ inst[j].holds \in Pairs
      BY <1>4, <2>2
    <3>2. inst[j].holds # t /\ inst[j].holds # inst[i].holds
      BY <1>1, <1>2, <2>2, <3>1
    <3>3. pair[inst[j].holds].issued /\ pair[inst[j].holds].exchanged = 0
      BY <3>1 DEF Inv, HeldOnce
    <3> QED
      BY <3>1, <3>2, <3>3
  <2> QED
    BY <2>1, <2>2
<1>5. ASSUME NEW u \in Pairs, ~pair'[u].issued PROVE pair'[u].exchanged = 0
  <2>1. u # t /\ ~pair[u].issued
    BY <1>5
  <2>2. inst[i].holds # u /\ pair[u].exchanged = 0
    BY <2>1 DEF Inv, HeldOnce
  <2> QED
    BY <2>2
<1> QED
  BY <1>3, <1>4, <1>5 DEF HeldOnce

\* A row of a device that is re-enrolled keeps its device and its status.
LEMMA ReenrollInv ==
    ASSUME Inv, NEW r \in Reqs, Reenroll(r)
    PROVE  Inv'
<1> DEFINE i == req[r].row
<1>1. i \in Installs
  BY DEF Reenroll, At, Inv, Locals, Carries
<1>2. PICK t \in Pairs : /\ ~pair[t].issued /\ pair' = [pair EXCEPT ![t].issued = TRUE]
                         /\ inst' = [inst EXCEPT ![i] = [@ EXCEPT !.holds = t]]
  BY DEF Reenroll, IssueTokens, Reenrolled
<1>3. UNCHANGED <<app, key>> /\ End(r)
  BY DEF Reenroll
<1>4. inst' \in [Installs -> Installation] /\ pair' \in [Pairs -> Pair]
  BY <1>1, <1>2 DEF Inv, TypeOK, Installation, Pair
<1>5. \A j \in Installs : Stored(j)' = Stored(j) /\ inst'[j].device = inst[j].device
  BY <1>1, <1>2 DEF Inv, TypeOK, Installation, Stored
<1>6. TypeOK' /\ Locals'
  BY <1>3, <1>4, <1>5, EndLocals DEF Inv, TypeOK
<1>7. /\ inst'[i].holds = t
      /\ \A j \in Installs : j # i => inst'[j] = inst[j]
      /\ \A u \in Pairs : pair'[u].exchanged = pair[u].exchanged
      /\ \A u \in Pairs : u # t => pair'[u].issued = pair[u].issued
      /\ pair'[t].issued
  BY <1>1, <1>2 DEF Inv, TypeOK, Installation, Pair
<1>8. HeldOnce'
  <2>1. \A u \in Pairs : pair'[u].exchanged = pair[u].exchanged \/ inst[i].holds = u
    BY <1>7
  <2>2. t \in Pairs /\ ~pair[t].issued /\ pair'[t].exchanged = pair[t].exchanged
    BY <1>2, <1>7
  <2> HIDE DEF i
  <2> QED
    BY <1>1, <1>4, <1>7, <2>1, <2>2, FreshPair
<1>9. RefreshWorksOnce'
  BY <1>7 DEF Inv, RefreshWorksOnce
<1>10. OneRowPerDevice' /\ InstallationsHaveAnApp'
  BY <1>3, <1>5 DEF Inv, OneRowPerDevice, InstallationsHaveAnApp
<1> QED
  BY <1>6, <1>8, <1>9, <1>10 DEF Inv

\* A row is created for a device without one, while the app is there.
LEMMA EnrollInv ==
    ASSUME Inv, NEW r \in Reqs, Enroll(r)
    PROVE  Inv'
<1> DEFINE d == req[r].device
<1>0. d \in Devices /\ UNCHANGED <<app, key>>
  BY DEF Enroll, At, Inv, Locals, Carries
<1>1. CASE \E i \in Installs, t \in Pairs :
             /\ app = "there" /\ ~Stored(i) /\ DeviceIsFree(d) /\ IssueTokens(t)
             /\ inst' = [inst EXCEPT ![i] = [status |-> "active", device |-> d, holds |-> t, needsReview |-> TRUE]]
             /\ End(r)
  <2> PICK i \in Installs, t \in Pairs :
             /\ app = "there" /\ ~Stored(i) /\ DeviceIsFree(d) /\ ~pair[t].issued
             /\ pair' = [pair EXCEPT ![t].issued = TRUE]
             /\ inst' = [inst EXCEPT ![i] = [status |-> "active", device |-> d, holds |-> t, needsReview |-> TRUE]]
             /\ End(r)
    BY <1>1 DEF IssueTokens
  <2>1. inst' \in [Installs -> Installation] /\ pair' \in [Pairs -> Pair]
    BY <1>0 DEF Inv, TypeOK, Installation, Pair
  <2>2. /\ inst'[i] = [status |-> "active", device |-> d, holds |-> t, needsReview |-> TRUE]
        /\ \A j \in Installs : j # i => inst'[j] = inst[j]
    BY DEF Inv, TypeOK
  <2>3. \A j \in Installs : Stored(j) => Stored(j)'
    BY <2>2 DEF Stored
  <2>4. TypeOK' /\ Locals'
    BY <1>0, <2>1, <2>3, EndLocals DEF Inv, TypeOK
  <2>5. /\ \A u \in Pairs : pair'[u].exchanged = pair[u].exchanged
        /\ \A u \in Pairs : u # t => pair'[u].issued = pair[u].issued
        /\ pair'[t].issued
    BY DEF Inv, TypeOK, Pair
  <2>6. HeldOnce'
    BY <2>1, <2>2, <2>5, FreshPair
  <2>7. RefreshWorksOnce'
    BY <2>5 DEF Inv, RefreshWorksOnce
  <2>8. OneRowPerDevice' /\ InstallationsHaveAnApp'
    BY <1>0, <2>2 DEF Inv, OneRowPerDevice, InstallationsHaveAnApp, Stored, DeviceIsFree, FindByDevice
  <2> QED
    BY <2>4, <2>6, <2>7, <2>8 DEF Inv
<1>2. CASE UNCHANGED <<inst, pair>> /\ End(r)
  BY <1>0, <1>2, EndLocals DEF Inv, TypeOK, HeldOnce, RefreshWorksOnce, OneRowPerDevice, InstallationsHaveAnApp, Stored
<1>3. CASE UNCHANGED <<inst, pair>> /\ \E i \in FindByDevice(d) : Begin(r, [req[r] EXCEPT !.stage = "update", !.row = i])
  <2> PICK i \in Installs : req' = [req EXCEPT ![r] = [req[r] EXCEPT !.stage = "update", !.row = i]]
    BY <1>3 DEF FindByDevice, Begin
  <2> DEFINE q == [req[r] EXCEPT !.stage = "update", !.row = i]
  <2>1. req[r] \in Request /\ req[r].kind = "enroll"
    BY DEF Inv, TypeOK, Enroll, At
  <2>2. q \in Request /\ q.kind = "enroll" /\ q.device \in Devices /\ q.row \in Installs
    BY <1>0, <2>1 DEF Request
  <2>3. Carries(q)
    BY <2>2 DEF Carries
  <2>4. TypeOK' /\ Locals'
    BY <1>0, <1>3, <2>2, <2>3 DEF Inv, TypeOK, Locals, Carries, Stored
  <2> QED
    BY <1>0, <1>3, <2>4 DEF Inv, HeldOnce, RefreshWorksOnce, OneRowPerDevice, InstallationsHaveAnApp, Stored
<1> QED
  BY <1>1, <1>2, <1>3 DEF Enroll

\* A refresh exchanges the pair its row still holds, and the row holds another one then.
LEMMA RefreshInv ==
    ASSUME Inv, NEW r \in Reqs, Refresh(r)
    PROVE  Inv'
<1> DEFINE i == req[r].row
           old == req[r].token
<1>0. i \in Installs /\ old \in Pairs /\ UNCHANGED <<app, key>> /\ End(r)
  BY DEF Refresh, At, Inv, Locals, Carries
<1>1. CASE StillHeld(req[r])
  <2> PICK t \in Pairs :
        /\ ~pair[t].issued
        /\ pair' = [pair EXCEPT ![t].issued = TRUE, ![old].exchanged = @ + 1]
        /\ inst' = [inst EXCEPT ![i].holds = t]
    BY <1>1 DEF Refresh
  <2>1. inst[i].holds = old /\ pair[old].issued /\ pair[old].exchanged = 0 /\ old # t
    BY <1>0, <1>1 DEF StillHeld, Inv, HeldOnce
  <2>2. inst' \in [Installs -> Installation]
    BY <1>0 DEF Inv, TypeOK, Installation
  <2>3. /\ inst'[i].holds = t /\ \A j \in Installs : j # i => inst'[j] = inst[j]
        /\ \A j \in Installs : Stored(j)' = Stored(j) /\ inst'[j].device = inst[j].device
    BY <1>0 DEF Inv, TypeOK, Installation, Stored
  <2>4. /\ \A u \in Pairs : u # old => pair'[u].exchanged = pair[u].exchanged
        /\ pair'[old].exchanged = 1
        /\ \A u \in Pairs : u # t => pair'[u].issued = pair[u].issued
        /\ pair'[t].issued
        /\ \A u \in Pairs : pair'[u] \in Pair
    <3> DEFINE p == [pair EXCEPT ![t].issued = TRUE]
    <3>1. p \in [Pairs -> Pair]
      BY DEF Inv, TypeOK, Pair
    <3>2. pair' = [p EXCEPT ![old].exchanged = p[old].exchanged + 1]
      BY <1>0, <3>1
    <3>3. p[old] = pair[old] /\ p[t].issued /\ p[t].exchanged = pair[t].exchanged /\ \A u \in Pairs : u # t => p[u] = pair[u]
      BY <1>0, <2>1 DEF Inv, TypeOK, Pair
    <3> HIDE DEF p, old
    <3>4. pair'[old].exchanged = 1 /\ pair'[old].issued = p[old].issued /\ pair'[old] \in Pair
      BY <1>0, <2>1, <3>1, <3>2, <3>3 DEF Pair
    <3>5. \A u \in Pairs : u # old => pair'[u] = p[u]
      BY <1>0, <3>1, <3>2
    <3> QED
      BY <1>0, <2>1, <3>1, <3>3, <3>4, <3>5
  <2>5. pair' \in [Pairs -> Pair]
    BY <2>4 DEF Inv, TypeOK
  <2>6. TypeOK' /\ Locals'
    BY <1>0, <2>2, <2>3, <2>5, EndLocals DEF Inv, TypeOK
  <2>7. HeldOnce'
    <3>1. \A u \in Pairs : pair'[u].exchanged = pair[u].exchanged \/ inst[i].holds = u
      BY <2>1, <2>4
    <3>2. t \in Pairs /\ ~pair[t].issued /\ pair'[t].exchanged = pair[t].exchanged
      BY <2>1, <2>4
    <3> HIDE DEF i, old
    <3> QED
      BY <1>0, <2>2, <2>3, <2>4, <3>1, <3>2, FreshPair
  <2>8. RefreshWorksOnce'
    <3> SUFFICES ASSUME NEW u \in Pairs PROVE pair'[u].exchanged <= 1
      BY DEF RefreshWorksOnce
    <3>1. pair[u].exchanged <= 1
      BY DEF Inv, RefreshWorksOnce
    <3>2. CASE u = old
      <4>1. pair'[u].exchanged = 1
        BY <2>4, <3>2
      <4> HIDE DEF old
      <4> QED
        BY <4>1
    <3>3. CASE u # old
      <4>1. pair'[u].exchanged = pair[u].exchanged
        BY <2>4, <3>3
      <4> QED
        BY <3>1, <4>1
    <3> QED
      BY <3>2, <3>3
  <2>9. OneRowPerDevice' /\ InstallationsHaveAnApp'
    BY <1>0, <2>3 DEF Inv, OneRowPerDevice, InstallationsHaveAnApp
  <2> QED
    BY <2>6, <2>7, <2>8, <2>9 DEF Inv
<1>2. CASE ~ StillHeld(req[r])
  <2>1. UNCHANGED <<inst, pair>>
    BY <1>2 DEF Refresh
  <2> QED
    BY <1>0, <2>1, EndLocals DEF Inv, TypeOK, HeldOnce, RefreshWorksOnce, OneRowPerDevice, InstallationsHaveAnApp, Stored
<1> QED
  BY <1>1, <1>2

\* A review and a revocation change neither the device of a row nor whether it is there.
LEMMA DecisionInv ==
    ASSUME Inv, NEW r \in Reqs, Review(r) \/ Revoke(r)
    PROVE  Inv'
<1> DEFINE i == req[r].row
<1>0. i \in Installs /\ UNCHANGED <<app, key, pair>> /\ End(r)
  BY DEF Review, Revoke, At, Inv, Locals, Carries
<1>1. /\ inst' \in [Installs -> Installation]
      /\ \A j \in Installs : /\ Stored(j)' = Stored(j) /\ inst'[j].device = inst[j].device
                             /\ inst'[j].holds \in {inst[j].holds, None}
  <2>1. CASE Review(r)
    BY <1>0, <2>1 DEF Review, Inv, TypeOK, Installation, Stored
  <2>2. CASE Revoke(r)
    <3>1. Stored(i)
      BY <2>2 DEF Revoke, At, Inv, Locals, Carries
    <3>2. /\ inst' = [inst EXCEPT ![i] = [@ EXCEPT !.status = "revoked", !.holds = None, !.needsReview = FALSE]]
          /\ inst \in [Installs -> Installation]
      BY <2>2 DEF Revoke, Revoked, Inv, TypeOK
    <3> HIDE DEF i
    <3>3. /\ inst'[i] \in Installation /\ inst'[i].status = "revoked" /\ inst'[i].holds = None
          /\ inst'[i].device = inst[i].device
          /\ \A j \in Installs : j # i => inst'[j] = inst[j]
      BY <1>0, <3>2 DEF Installation
    <3>4. inst' \in [Installs -> Installation]
      BY <1>0, <3>2, <3>3
    <3> QED
      BY <1>0, <3>1, <3>3, <3>4 DEF Stored
  <2> QED
    BY <2>1, <2>2
<1>2. TypeOK' /\ Locals'
  BY <1>0, <1>1, EndLocals DEF Inv, TypeOK
<1>3. HeldOnce'
  BY <1>0, <1>1, InstallationsAssumption DEF Inv, HeldOnce
<1>4. RefreshWorksOnce' /\ OneRowPerDevice' /\ InstallationsHaveAnApp'
  BY <1>0, <1>1 DEF Inv, RefreshWorksOnce, OneRowPerDevice, InstallationsHaveAnApp
<1> QED
  BY <1>2, <1>3, <1>4 DEF Inv

\* Keys come and go without a row changing; the app goes only when it has none.
LEMMA KeysInv ==
    ASSUME Inv, NEW r \in Reqs, CreateKey(r) \/ RotateKey(r) \/ RevokeKey(r) \/ DeleteApp(r)
    PROVE  Inv'
<1>1. UNCHANGED <<inst, pair>>
  BY DEF CreateKey, RotateKey, RevokeKey, DeleteApp
<1>2. \A i \in Installs : Stored(i)' = Stored(i)
  BY <1>1 DEF Stored
<1>3. key' \in [Keys -> AppKey]
  <2>1. CASE CreateKey(r)
    BY <2>1 DEF CreateKey, Inv, TypeOK, AppKey, NoKey
  <2>2. CASE RotateKey(r)
    <3>1. req[r].key \in Keys
      BY <2>2 DEF RotateKey, At, Inv, Locals, Carries
    <3> DEFINE old == req[r].key
    <3>2. CASE UNCHANGED key
      BY <3>2 DEF Inv, TypeOK
    <3>3. CASE \E k \in Keys : key' = [key EXCEPT ![k] = [status |-> "active", of |-> old, replacedBy |-> None],
                                                 ![old] = Replaced(@, k)]
      <4> PICK k \in Keys : key' = [key EXCEPT ![k] = [status |-> "active", of |-> old, replacedBy |-> None],
                                              ![old] = Replaced(@, k)]
        BY <3>3
      <4> DEFINE mid == [key EXCEPT ![k] = [status |-> "active", of |-> old, replacedBy |-> None]]
      <4>1. mid \in [Keys -> AppKey] /\ old \in Keys
        BY <3>1 DEF Inv, TypeOK, AppKey
      <4>2. key' = [mid EXCEPT ![old] = Replaced(key[old], k)]
        OBVIOUS
      <4> HIDE DEF mid, old
      <4>3. key[old] \in AppKey
        BY <4>1 DEF Inv, TypeOK
      <4>4. Replaced(key[old], k) \in AppKey
        BY <4>3 DEF Replaced, AppKey
      <4> QED
        BY <4>1, <4>2, <4>4
    <3> QED
      BY <2>2, <3>2, <3>3 DEF RotateKey
  <2>3. CASE RevokeKey(r)
    BY <2>3 DEF RevokeKey, Inv, TypeOK, AppKey
  <2>4. CASE DeleteApp(r)
    BY <2>4 DEF DeleteApp, Inv, TypeOK, AppKey, NoKey
  <2> QED
    BY <2>1, <2>2, <2>3, <2>4
<1>4. app' \in {"there", "deleted"} /\ InstallationsHaveAnApp'
  <2>1. CASE DeleteApp(r)
    BY <1>2, <2>1 DEF DeleteApp, MayDrop, Inv, TypeOK, InstallationsHaveAnApp
  <2>2. CASE CreateKey(r) \/ RotateKey(r) \/ RevokeKey(r)
    BY <1>2, <2>2 DEF CreateKey, RotateKey, RevokeKey, Inv, TypeOK, InstallationsHaveAnApp
  <2> QED
    BY <2>1, <2>2
<1>5. Locals' /\ req' \in [Reqs -> Request]
  <2>1. CASE CreateKey(r)
    BY <1>2, <2>1 DEF CreateKey, Inv, TypeOK, Locals, Carries
  <2>2. CASE RotateKey(r) \/ RevokeKey(r) \/ DeleteApp(r)
    BY <1>2, <2>2, EndLocals DEF RotateKey, RevokeKey, DeleteApp
  <2> QED
    BY <2>1, <2>2
<1> QED
  BY <1>1, <1>2, <1>3, <1>4, <1>5 DEF Inv, TypeOK, HeldOnce, RefreshWorksOnce, OneRowPerDevice

\* Time passing, and nothing happening.
LEMMA RestInv ==
    ASSUME Inv, UNCHANGED vars \/ \E t \in Pairs : Expire(t)
    PROVE  Inv'
<1>1. UNCHANGED <<app, key, inst, req>>
  BY DEF vars, Expire
<1>2. /\ pair' \in [Pairs -> Pair]
      /\ \A t \in Pairs : pair'[t].issued = pair[t].issued /\ pair'[t].exchanged = pair[t].exchanged
  <2>1. CASE UNCHANGED vars
    BY <2>1 DEF vars, Inv, TypeOK
  <2>2. ASSUME NEW t \in Pairs, Expire(t) PROVE <1>2!1 /\ <1>2!2
    BY <2>2 DEF Expire, Inv, TypeOK, Pair
  <2> QED
    BY <2>1, <2>2
<1> QED
  BY <1>1, <1>2 DEF Inv, TypeOK, Locals, Carries, Stored, HeldOnce, RefreshWorksOnce, OneRowPerDevice,
     InstallationsHaveAnApp

\* Every step keeps the invariant.
LEMMA NextInv == Inv /\ [Next]_vars => Inv'
<1> SUFFICES ASSUME Inv, [Next]_vars PROVE Inv'
  OBVIOUS
<1>1. CASE \E r \in Reqs : \/ BeginEnroll(r) \/ BeginRefresh(r) \/ BeginDecision(r) \/ BeginKey(r) \/ BeginDelete(r)
  BY <1>1, BeginInv
<1>2. CASE \E r \in Reqs : Reenroll(r) \/ Enroll(r) \/ Refresh(r)
  BY <1>2, ReenrollInv, EnrollInv, RefreshInv
<1>3. CASE \E r \in Reqs : Review(r) \/ Revoke(r)
  BY <1>3, DecisionInv
<1>4. CASE \E r \in Reqs : CreateKey(r) \/ RotateKey(r) \/ RevokeKey(r) \/ DeleteApp(r)
  BY <1>4, KeysInv
<1>5. CASE UNCHANGED vars \/ \E t \in Pairs : Expire(t)
  BY <1>5, RestInv
<1> QED
  BY <1>1, <1>2, <1>3, <1>4, <1>5 DEF Next, List

LEMMA InvHolds == Spec => []Inv
BY InitInv, NextInv, PTL DEF Spec

-----------------------------------------------------------------------------
\* The tables and the invocations have their types.
THEOREM TypeCorrect == Spec => []TypeOK
<1>1. Inv => TypeOK
  BY DEF Inv
<1> QED
  BY InvHolds, <1>1, PTL

\* A refresh token works once, whatever refreshes and enrollments race.
THEOREM WorksOnce == Spec => []RefreshWorksOnce
<1>1. Inv => RefreshWorksOnce
  BY DEF Inv
<1> QED
  BY InvHolds, <1>1, PTL

\* A device has one row, whichever first enrollments race.
THEOREM OneRow == Spec => []OneRowPerDevice
<1>1. Inv => OneRowPerDevice
  BY DEF Inv
<1> QED
  BY InvHolds, <1>1, PTL

\* No row outlives its app, whatever enrolls while it is deleted.
THEOREM RowsHaveAnApp == Spec => []InstallationsHaveAnApp
<1>1. Inv => InstallationsHaveAnApp
  BY DEF Inv
<1> QED
  BY InvHolds, <1>1, PTL

\* A step that changes the status of a row leaves a revoked one revoked.
LEMMA StepRevocation ==
    ASSUME Inv, [Next]_vars, NEW i \in Installs, inst[i].status = "revoked"
    PROVE  inst'[i].status = "revoked"
<1>0. inst \in [Installs -> Installation]
  BY DEF Inv, TypeOK
<1>1. ASSUME NEW r \in Reqs, Reenroll(r) PROVE inst'[i].status = "revoked"
  <2>1. PICK t \in Pairs : inst' = [inst EXCEPT ![req[r].row] = [@ EXCEPT !.holds = t]]
    BY <1>1 DEF Reenroll, Reenrolled
  <2>2. CASE i = req[r].row
    BY <1>0, <2>1, <2>2 DEF Installation
  <2>3. CASE i # req[r].row
    BY <1>0, <2>1, <2>3
  <2> QED
    BY <2>2, <2>3
<1>2. ASSUME NEW r \in Reqs, Enroll(r) PROVE inst'[i].status = "revoked"
  <2>1. CASE UNCHANGED inst
    BY <2>1
  <2>2. CASE \E j \in Installs, t \in Pairs : ~Stored(j) /\ inst' = [inst EXCEPT ![j] =
               [status |-> "active", device |-> req[r].device, holds |-> t, needsReview |-> TRUE]]
    BY <1>0, <2>2 DEF Stored
  <2> QED
    BY <1>2, <2>1, <2>2 DEF Enroll
<1>3. ASSUME NEW r \in Reqs, Refresh(r) PROVE inst'[i].status = "revoked"
  <2>1. CASE UNCHANGED inst
    BY <2>1
  <2>2. CASE \E t \in Pairs : inst' = [inst EXCEPT ![req[r].row].holds = t]
    <3> PICK t \in Pairs : inst' = [inst EXCEPT ![req[r].row].holds = t]
      BY <2>2
    <3>1. CASE i = req[r].row
      BY <1>0, <3>1 DEF Installation
    <3>2. CASE i # req[r].row
      BY <1>0, <3>2
    <3> QED
      BY <3>1, <3>2
  <2> QED
    BY <1>3, <2>1, <2>2 DEF Refresh
<1>4. ASSUME NEW r \in Reqs, Review(r) \/ Revoke(r) PROVE inst'[i].status = "revoked"
  <2>1. CASE i # req[r].row
    BY <1>0, <1>4, <2>1 DEF Review, Revoke
  <2>2. CASE i = req[r].row /\ Review(r)
    BY <1>0, <2>2 DEF Review, Installation
  <2>3. CASE i = req[r].row /\ Revoke(r)
    BY <1>0, <2>3 DEF Revoke, Revoked, Installation
  <2> QED
    BY <1>4, <2>1, <2>2, <2>3
<1>5. ASSUME UNCHANGED inst PROVE inst'[i].status = "revoked"
  BY <1>5
<1> QED
  BY <1>1, <1>2, <1>3, <1>4, <1>5 DEF Next, List, vars, BeginEnroll, BeginRefresh, BeginDecision, CreateKey,
     BeginKey, RotateKey, RevokeKey, BeginDelete, DeleteApp, Expire

\* No request under way brings a revoked installation back.
THEOREM RevocationIsFinal == Spec => RevocationSticks
<1>1. Inv /\ [Next]_vars => [\A i \in Installs : inst[i].status = "revoked" => inst'[i].status = "revoked"]_vars
  BY StepRevocation
<1> QED
  BY InvHolds, <1>1, PTL DEF Spec, RevocationSticks

-----------------------------------------------------------------------------
(* Keys and their successors *)

\* A rotation under way: its key is in the table while the app is there.
Rotates(q) == q.kind = "rotate" => q.key \in Keys /\ (app = "there" => key[q.key].status # "none")

Successors == SuccessorIsOwn /\ \A r \in Reqs : Rotates(req[r])

LEMMA SuccessorsInit == Init => Successors
<1> SUFFICES ASSUME Init PROVE Successors
  OBVIOUS
<1>1. \A k \in Keys : key[k].replacedBy = None
  BY DEF Init, NoKey
<1>2. \A r \in Reqs : req[r].kind = "none"
  BY DEF Init, NoRequest
<1> QED
  BY <1>1, <1>2 DEF Successors, SuccessorIsOwn, Rotates

\* Keys and the app stay; one request may begin or go on, which is no rotation or one that may begin.
LEMMA SuccessorsGo ==
    ASSUME Successors, UNCHANGED <<app, key>>,
           \/ UNCHANGED req
           \/ \E r \in Reqs, q \in Request : req' = [req EXCEPT ![r] = q] /\ Rotates(q),
           req \in [Reqs -> Request]
    PROVE  Successors'
<1>1. ASSUME NEW o \in Reqs PROVE Rotates(req'[o])
  BY <1>1 DEF Successors
<1>2. ASSUME NEW o \in Reqs PROVE Rotates(req[o])'
  BY <1>1, <1>2 DEF Rotates
<1> QED
  BY <1>2 DEF Successors, SuccessorIsOwn

\* A request that writes ends, and what the others carry is in the table if keys stay in it.
LEMMA RotationsGo ==
    ASSUME Inv, Successors, NEW r \in Reqs, End(r) \/ UNCHANGED req,
           app' = "there" => app = "there" /\ \A k \in Keys : key[k].status # "none" => key'[k].status # "none"
    PROVE  \A o \in Reqs : Rotates(req[o])'
<1> SUFFICES ASSUME NEW o \in Reqs PROVE Rotates(req[o])'
  OBVIOUS
<1>1. CASE req'[o] = req[o]
  BY <1>1 DEF Successors, Rotates
<1>2. CASE req'[o] # req[o]
  BY <1>2 DEF Inv, TypeOK, End, NoRequest, Rotates
<1> QED
  BY <1>1, <1>2

\* The replacement is a key that no key names; the old key may have had a successor already.
LEMMA SuccessorsRotate ==
    ASSUME Inv, Successors, NEW r \in Reqs, RotateKey(r)
    PROVE  Successors'
<1>1. PICK old : old = req[r].key
  OBVIOUS
<1>2. /\ End(r) /\ UNCHANGED app /\ old \in Keys /\ key \in [Keys -> AppKey]
      /\ app = "there" => key[old].status # "none"
  BY <1>1 DEF RotateKey, At, Successors, Rotates, Inv, TypeOK
<1>3. CASE UNCHANGED key
  BY <1>2, <1>3, RotationsGo DEF Successors, SuccessorIsOwn
<1>4. CASE ~ UNCHANGED key
  <2>1. PICK k \in Keys :
          /\ app = "there" /\ key[k].status = "none"
          /\ key' = [key EXCEPT ![k] = [status |-> "active", of |-> old, replacedBy |-> None],
                                ![old] = Replaced(@, k)]
    BY <1>1, <1>4 DEF RotateKey
  <2>2. k # old
    BY <1>2, <2>1
  <2>3. PICK new : new = [status |-> "active", of |-> old, replacedBy |-> None]
    OBVIOUS
  <2>4. PICK row : row = Replaced(key[old], k)
    OBVIOUS
  <2>5. key' = [[key EXCEPT ![k] = new] EXCEPT ![old] = row]
    BY <1>2, <2>1, <2>2, <2>3, <2>4
  <2>6. \A j \in Keys : key'[j] = IF j = old THEN row ELSE IF j = k THEN new ELSE key[j]
    BY <1>2, <2>1, <2>2, <2>5
  <2>7. row.status = "revoked" /\ row.replacedBy = k /\ row.of = key[old].of
    BY <1>2, <2>4 DEF Replaced, AppKey
  <2>8. new.of = old /\ new.replacedBy = None /\ new.status = "active"
    BY <2>3
  <2>9. SuccessorIsOwn'
    <3> SUFFICES ASSUME NEW j \in Keys, key'[j].replacedBy # None
                 PROVE  /\ key'[j].status = "revoked"
                        /\ \E o \in Keys : key'[j].replacedBy = o /\ key'[o].of = j /\ key'[o].status # "none"
      BY DEF SuccessorIsOwn
    <3>1. CASE j = old
      BY <2>1, <2>2, <2>6, <2>7, <2>8, <3>1
    <3>2. CASE j # old
      <4>1. j # k /\ key'[j] = key[j]
        BY <2>6, <2>8, <3>2
      <4>2. PICK o \in Keys : key[j].replacedBy = o /\ key[o].of = j /\ key[o].status # "none"
        BY <4>1 DEF Successors, SuccessorIsOwn
      <4>3. o # k /\ key[j].status = "revoked"
        BY <2>1, <4>1, <4>2 DEF Successors, SuccessorIsOwn
      <4> QED
        BY <2>6, <2>7, <4>1, <4>2, <4>3
    <3> QED
      BY <3>1, <3>2
  <2>10. \A j \in Keys : key[j].status # "none" => key'[j].status # "none"
    BY <2>6, <2>7, <2>8
  <2> QED
    BY <1>2, <2>9, <2>10, RotationsGo DEF Successors
<1> QED
  BY <1>3, <1>4

LEMMA SuccessorsStep ==
    ASSUME Inv, Successors, [Next]_vars
    PROVE  Successors'
<1>0. req \in [Reqs -> Request] /\ key \in [Keys -> AppKey]
  BY DEF Inv, TypeOK
<1>1. ASSUME NEW r \in Reqs, BeginEnroll(r) \/ BeginRefresh(r) \/ BeginDelete(r) PROVE Successors'
  <2>1. \E q \in Request : q.kind # "rotate" /\ req' = [req EXCEPT ![r] = q]
    BY <1>1 DEF BeginEnroll, BeginRefresh, BeginDelete, Begin, Request, NoRequest, Kinds, FindByDevice
  <2> QED
    BY <1>0, <1>1, <2>1, SuccessorsGo DEF Rotates, BeginEnroll, BeginRefresh, BeginDelete
<1>2. ASSUME NEW r \in Reqs, BeginDecision(r) PROVE Successors'
  <2>1. PICK kind \in {"review", "revoke"}, i \in Installs :
           Begin(r, [NoRequest EXCEPT !.kind = kind, !.stage = "write", !.row = i])
    BY <1>2 DEF BeginDecision
  <2>2. \E q \in Request : q.kind # "rotate" /\ req' = [req EXCEPT ![r] = q]
    BY <2>1 DEF Begin, Request, NoRequest, Kinds
  <2> QED
    BY <1>0, <1>2, <2>2, SuccessorsGo DEF Rotates, BeginDecision
<1>3. ASSUME NEW r \in Reqs, BeginKey(r) PROVE Successors'
  <2>1. PICK kind \in {"rotate", "dropkey"}, k \in Keys :
           /\ key[k].status = "active"
           /\ req' = [req EXCEPT ![r] = [NoRequest EXCEPT !.kind = kind, !.stage = "write", !.key = k]]
    BY <1>3 DEF BeginKey, Begin
  <2>2. PICK q : q = [NoRequest EXCEPT !.kind = kind, !.stage = "write", !.key = k]
    OBVIOUS
  <2>3. q \in Request /\ q.kind = kind /\ q.key = k
    BY <2>2 DEF Request, NoRequest, Kinds
  <2>4. Rotates(q)
    BY <2>1, <2>3 DEF Rotates
  <2> QED
    BY <1>0, <1>3, <2>1, <2>2, <2>3, <2>4, SuccessorsGo DEF BeginKey
<1>4. ASSUME NEW r \in Reqs, End(r), UNCHANGED <<app, key>> PROVE Successors'
  BY <1>4, RotationsGo DEF Successors, SuccessorIsOwn
<1>5. ASSUME NEW r \in Reqs, Reenroll(r) \/ Refresh(r) \/ Review(r) \/ Revoke(r) PROVE Successors'
  BY <1>4, <1>5 DEF Reenroll, Refresh, Review, Revoke
<1>6. ASSUME NEW r \in Reqs, Enroll(r) PROVE Successors'
  <2>1. UNCHANGED <<app, key>> /\ req[r].kind = "enroll"
    BY <1>6 DEF Enroll, At
  <2>2. CASE End(r)
    BY <1>4, <2>1, <2>2
  <2>3. ASSUME NEW i \in Installs, req' = [req EXCEPT ![r] = [req[r] EXCEPT !.stage = "update", !.row = i]]
        PROVE  Successors'
    <3>1. PICK q : q = [req[r] EXCEPT !.stage = "update", !.row = i]
      OBVIOUS
    <3>2. q \in Request /\ q.kind = "enroll"
      BY <1>0, <2>1, <3>1 DEF Request
    <3>3. Rotates(q)
      BY <3>2 DEF Rotates
    <3> QED
      BY <1>0, <2>1, <2>3, <3>1, <3>2, <3>3, SuccessorsGo
  <2> QED
    BY <1>6, <2>2, <2>3 DEF Enroll, Begin, FindByDevice
<1>7. ASSUME NEW r \in Reqs, CreateKey(r) PROVE Successors'
  <2>1. PICK k \in Keys : key[k].status = "none" /\ key' = [key EXCEPT ![k] = [NoKey EXCEPT !.status = "active"]]
    BY <1>7 DEF CreateKey
  <2>2. PICK new : new = [NoKey EXCEPT !.status = "active"]
    OBVIOUS
  <2>3. new.replacedBy = None /\ new.status = "active"
    BY <2>2 DEF NoKey
  <2>4. \A j \in Keys : key'[j] = IF j = k THEN new ELSE key[j]
    BY <1>0, <2>1, <2>2
  <2>5. SuccessorIsOwn'
    <3> SUFFICES ASSUME NEW j \in Keys, key'[j].replacedBy # None
                 PROVE  /\ key'[j].status = "revoked"
                        /\ \E o \in Keys : key'[j].replacedBy = o /\ key'[o].of = j /\ key'[o].status # "none"
      BY DEF SuccessorIsOwn
    <3>1. j # k /\ key'[j] = key[j]
      BY <2>3, <2>4
    <3>2. PICK o \in Keys : key[j].replacedBy = o /\ key[o].of = j /\ key[o].status # "none"
      BY <3>1 DEF Successors, SuccessorIsOwn
    <3>3. o # k /\ key[j].status = "revoked"
      BY <2>1, <3>1, <3>2 DEF Successors, SuccessorIsOwn
    <3> QED
      BY <2>4, <3>1, <3>2, <3>3
  <2>6. UNCHANGED <<app, req>> /\ \A j \in Keys : key[j].status # "none" => key'[j].status # "none"
    BY <1>7, <2>1, <2>3, <2>4 DEF CreateKey
  <2> QED
    BY <2>5, <2>6, RotationsGo DEF Successors
<1>8. ASSUME NEW r \in Reqs, RevokeKey(r) PROVE Successors'
  <2>1. PICK k : k = req[r].key
    OBVIOUS
  <2>2. key' = [key EXCEPT ![k].status = IF @ = "none" THEN @ ELSE "revoked"] /\ End(r) /\ UNCHANGED app /\ k \in Keys
    BY <1>8, <2>1 DEF RevokeKey, Inv, Locals, Carries, At
  <2>3. PICK state : state = IF key[k].status = "none" THEN "none" ELSE "revoked"
    OBVIOUS
  <2>4. key' = [key EXCEPT ![k].status = state]
    BY <1>0, <2>2, <2>3
  <2>5. \A j \in Keys : /\ key'[j].of = key[j].of /\ key'[j].replacedBy = key[j].replacedBy
                        /\ key'[j].status = IF j = k THEN state ELSE key[j].status
    BY <1>0, <2>2, <2>4 DEF AppKey
  <2>6. SuccessorIsOwn'
    BY <2>3, <2>5 DEF Successors, SuccessorIsOwn
  <2>7. \A j \in Keys : key[j].status # "none" => key'[j].status # "none"
    BY <2>3, <2>5
  <2> QED
    BY <2>2, <2>6, <2>7, RotationsGo DEF Successors
<1>9. ASSUME NEW r \in Reqs, DeleteApp(r) PROVE Successors'
  <2>1. CASE ~ MayDrop
    BY <1>4, <1>9, <2>1 DEF DeleteApp
  <2>2. CASE MayDrop
    <3>1. app' = "deleted" /\ key' = [k \in Keys |-> NoKey] /\ End(r)
      BY <1>9, <2>2 DEF DeleteApp
    <3>2. \A k \in Keys : key'[k].replacedBy = None
      BY <3>1 DEF NoKey
    <3> QED
      BY <3>1, <3>2, RotationsGo DEF Successors, SuccessorIsOwn
  <2> QED
    BY <2>1, <2>2
<1>10. CASE UNCHANGED vars \/ \E t \in Pairs : Expire(t)
  BY <1>0, <1>10, SuccessorsGo DEF vars, Expire
<1> QED
  BY <1>1, <1>2, <1>3, <1>5, <1>6, <1>7, <1>8, <1>9, <1>10, SuccessorsRotate DEF Next, List

\* A rotated key is revoked and names a key its own rotation issued, however many rotations of it overlap,
\* whatever keys are added and revoked and whether the app goes meanwhile (panel/routes/apps.ts: the
\* replacement and the old key's row are written in one batch).
THEOREM SuccessorsAreOwn == Spec => []SuccessorIsOwn
<1>1. Inv /\ Successors /\ [Next]_vars => Successors'
  BY SuccessorsStep
<1>2. Successors => SuccessorIsOwn
  BY DEF Successors
<1> QED
  BY InvHolds, SuccessorsInit, <1>1, <1>2, PTL DEF Spec

-----------------------------------------------------------------------------
(* The sockets of a device *)

\* At most one socket is open.
SocketInv ==
    /\ socket = [s \in Sockets |-> socket[s]]
    /\ \A s, o \in Sockets : socket[s] = "open" /\ socket[o] = "open" => s = o

\* Sockets that are opened by none keep it.
LEMMA SocketsGo ==
    ASSUME SocketInv, socket' = [s \in Sockets |-> socket'[s]],
           \A s \in Sockets : socket'[s] = "open" => socket[s] = "open"
    PROVE  SocketInv'
BY DEF SocketInv

LEMMA SocketClosing ==
    ASSUME SocketInv, NEW s \in Sockets, NEW state \in {"closing", "closed"}, socket' = [socket EXCEPT ![s] = state]
    PROVE  SocketInv'
<1>1. socket' = [o \in Sockets |-> IF o = s THEN state ELSE socket[o]]
  BY DEF SocketInv
<1>2. socket' = [o \in Sockets |-> socket'[o]] /\ \A o \in Sockets : socket'[o] = "open" => socket[o] = "open"
  BY <1>1
<1> QED
  BY <1>2, SocketsGo

LEMMA SocketInit == P!Init => SocketInv
BY DEF P!Init, SocketInv

LEMMA SocketStep ==
    ASSUME SocketInv, [P!Next]_P!vars
    PROVE  SocketInv'
<1>0. ASSUME UNCHANGED socket PROVE SocketInv'
  BY <1>0 DEF SocketInv
<1>1. ASSUME NEW r \in Reqs, P!Accept(r) PROVE SocketInv'
  <2>1. PICK s : s = job[r].socket
    OBVIOUS
  <2>2. socket' = [o \in Sockets |-> IF o = s THEN "open" ELSE IF o \in P!Open THEN "closing" ELSE socket[o]]
    BY <1>1, <2>1 DEF P!Accept, P!Replaced
  <2>3. \A o \in Sockets : socket'[o] = "open" => o = s
    BY <2>2 DEF P!Open
  <2> QED
    BY <2>2, <2>3 DEF SocketInv
<1>2. ASSUME NEW r \in Reqs, P!BeginBeat(r) PROVE SocketInv'
  BY <1>0, <1>2, SocketClosing DEF P!BeginBeat, P!Open
<1>3. ASSUME NEW s \in Sockets, P!Leave(s) PROVE SocketInv'
  BY <1>3, SocketClosing DEF P!Leave
<1>4. ASSUME NEW r \in Reqs, P!Closed(r) PROVE SocketInv'
  BY <1>4, SocketClosing DEF P!Closed
<1>5. ASSUME NEW r \in Reqs, P!Sync(r) PROVE SocketInv'
  BY <1>0, <1>5, SocketClosing DEF P!Sync, P!Open
<1>6. ASSUME NEW r \in Reqs, P!Disconnect(r) PROVE SocketInv'
  <2>1. socket' = [s \in Sockets |-> IF s \in P!Open THEN "closing" ELSE socket[s]]
    BY <1>6 DEF P!Disconnect
  <2>2. socket' = [s \in Sockets |-> socket'[s]] /\ \A s \in Sockets : socket'[s] = "open" => socket[s] = "open"
    BY <2>1
  <2> QED
    BY <2>2, SocketsGo
<1>7. CASE P!Tick \/ P!View \/ UNCHANGED P!vars
  BY <1>0, <1>7 DEF P!Tick, P!View, P!vars
<1>8. ASSUME NEW r \in Reqs,
             \/ P!RecordHeartbeat(r) \/ P!BeginOpen(r) \/ P!MarkOpen(r) \/ P!Hello(r) \/ P!MarkClosed(r)
             \/ P!Edit(r) \/ P!BeginRevoke(r) \/ P!Revoke(r)
      PROVE  SocketInv'
  BY <1>0, <1>8 DEF P!RecordHeartbeat, P!BeginOpen, P!MarkOpen, P!Hello, P!MarkClosed, P!Edit, P!BeginRevoke, P!Revoke
<1> QED
  BY <1>1, <1>2, <1>3, <1>4, <1>5, <1>6, <1>7, <1>8 DEF P!Next

\* An installation holds one socket, however often its device connects and whatever of the panel, of a
\* revocation or of the device closes one meanwhile (services/socket.ts: a new connection closes the ones
\* before it in the step that accepts it).
THEOREM OneSocketEach == P!Spec => []P!OneSocket
<1>1. SocketInv => P!OneSocket
  <2> SUFFICES ASSUME SocketInv PROVE P!OneSocket
    OBVIOUS
  <2>1. P!Cardinality(P!Open) = Cardinality(P!Open)
    BY DEF P!Cardinality, Cardinality, P!IsFiniteSet, IsFiniteSet
  <2>2. CASE P!Open = {}
    BY <2>1, <2>2, FS_EmptySet DEF P!OneSocket
  <2>3. CASE P!Open # {}
    <3>1. PICK s \in P!Open : TRUE
      BY <2>3
    <3>2. P!Open = {s}
      BY <3>1 DEF P!Open, SocketInv
    <3>3. Cardinality(P!Open) = 1
      BY <3>2, FS_Singleton
    <3> QED
      BY <2>1, <3>3 DEF P!OneSocket
  <2> QED
    BY <2>2, <2>3
<1>2. SocketInv /\ [P!Next]_P!vars => SocketInv'
  BY SocketStep
<1> QED
  BY SocketInit, <1>1, <1>2, PTL DEF P!Spec

-----------------------------------------------------------------------------
(* The remote config *)

SaveFields == {"at", "row", "schema", "version"}

\* The versions there are, from the first.
Written(n) == \A v \in F!Versions : history[v] # None <=> v <= n

\* Who is about to insert a version read that the one before was there.
Saves(r) ==
    /\ r = [f \in SaveFields |-> r[f]]
    /\ r.at = "insert" => r.version \in Nat \ {0} /\ \A v \in F!Versions : v < r.version => history[v] # None
    /\ r.at # "none" => r.row \in F!Row

ConfigInv ==
    /\ history \in [F!Versions -> F!Row \cup {None}]
    /\ \E n \in 0 .. MaxVersion : Written(n)
    /\ job = [e \in Editors |-> job[e]] /\ \A e \in Editors : Saves(job[e])

LEMMA Versions == ASSUME F!ConfigAssumption PROVE MaxVersion \in Nat /\ F!Versions = 1 .. MaxVersion
BY DEF F!ConfigAssumption, F!Versions

\* The current version is the number of versions.
LEMMA Currents ==
    ASSUME F!ConfigAssumption, NEW n \in 0 .. MaxVersion, Written(n) PROVE F!Current = n
<1>1. PICK S : S = 1 .. n
  OBVIOUS
<1>2. Cardinality(S) = n
  BY <1>1, FS_Interval, Versions
<1>3. {v \in F!Versions : history[v] # None} = S
  BY <1>1, Versions DEF Written
<1>4. F!Current = Cardinality({v \in F!Versions : history[v] # None})
  BY DEF F!Current, F!Cardinality, Cardinality, F!IsFiniteSet, IsFiniteSet
<1> QED
  BY <1>2, <1>3, <1>4

\* A version that is written stays, and the one written next follows it.
HistoryStep ==
    \/ UNCHANGED history
    \/ \E v \in F!Versions, x \in F!Row :
         /\ history[v] = None /\ history' = [history EXCEPT ![v] = x]
         /\ \A w \in F!Versions : w < v => history[w] # None

LEMMA ConfigGrows ==
    ASSUME F!ConfigAssumption, ConfigInv, HistoryStep
    PROVE  /\ history' \in [F!Versions -> F!Row \cup {None}]
           /\ \E n \in 0 .. MaxVersion : Written(n)'
           /\ \A v \in F!Versions : history[v] # None => history'[v] # None
           /\ F!HistoryGrows
<1>1. PICK n \in 0 .. MaxVersion : Written(n)
  BY DEF ConfigInv
<1>2. CASE UNCHANGED history
  BY <1>1, <1>2, Versions DEF ConfigInv, Written, F!HistoryGrows
<1>3. CASE ~ UNCHANGED history
  <2>1. PICK v \in F!Versions, x \in F!Row :
          /\ history[v] = None /\ history' = [history EXCEPT ![v] = x]
          /\ \A w \in F!Versions : w < v => history[w] # None
    BY <1>3 DEF HistoryStep
  <2>2. history'[v] = x /\ \A w \in F!Versions : w # v => history'[w] = history[w]
    BY <2>1 DEF ConfigInv
  <2>3. v \in 1 .. MaxVersion /\ v \in 0 .. MaxVersion /\ x # None
    BY Versions DEF F!ConfigAssumption
  <2>4. \A w \in F!Versions : history'[w] # None <=> w <= v
    BY <1>1, <2>1, <2>2, <2>3, Versions DEF Written
  <2>5. Written(v)'
    BY <2>4 DEF Written, F!Versions
  <2>6. \A w \in F!Versions : history[w] # None => history'[w] = history[w]
    BY <2>1, <2>2
  <2>7. F!HistoryGrows
    BY <2>4, <2>6, Versions DEF F!HistoryGrows
  <2>8. history' \in [F!Versions -> F!Row \cup {None}]
    BY <2>1 DEF ConfigInv
  <2> QED
    BY <2>1, <2>2, <2>3, <2>5, <2>7, <2>8
<1> QED
  BY <1>2, <1>3

\* What a step of one editor needs.
LEMMA ConfigGo ==
    ASSUME F!ConfigAssumption, ConfigInv, NEW e \in Editors, NEW y, job' = [job EXCEPT ![e] = y], HistoryStep, Saves(y)'
    PROVE  ConfigInv'
<1>1. job' = [p \in Editors |-> job'[p]]
  BY DEF ConfigInv
<1>2. ASSUME NEW p \in Editors PROVE Saves(job[p])'
  <2>1. CASE p = e
    <3>1. job'[p] = y
      BY <2>1 DEF ConfigInv
    <3> QED
      BY <3>1 DEF Saves
  <2>2. CASE p # e
    <3>1. PICK z : z = job[p] /\ job'[p] = z
      BY <2>2 DEF ConfigInv
    <3>2. Saves(z)
      BY <3>1 DEF ConfigInv
    <3>3. Saves(z)'
      BY <3>2, ConfigGrows DEF Saves, F!Versions
    <3> QED
      BY <3>1, <3>3 DEF Saves
  <2> QED
    BY <2>1, <2>2
<1> QED
  BY <1>1, <1>2, ConfigGrows DEF ConfigInv

LEMMA ConfigInit == ASSUME F!ConfigAssumption, F!Init PROVE ConfigInv
<1>1. Written(0)
  BY Versions DEF F!Init, Written
<1>2. F!NoReq = [f \in SaveFields |-> F!NoReq[f]] /\ F!NoReq.at = "none"
  BY DEF F!NoReq, SaveFields
<1>3. Saves(F!NoReq)
  BY <1>2 DEF Saves
<1>4. 0 \in 0 .. MaxVersion
  BY Versions
<1> QED
  BY <1>1, <1>3, <1>4 DEF F!Init, ConfigInv

\* PUT and restore read the current version and what they save.
LEMMA ConfigBegins ==
    ASSUME F!ConfigAssumption, ConfigInv, NEW e \in Editors, F!BeginPut(e) \/ F!BeginRestore(e)
    PROVE  ConfigInv' /\ HistoryStep
<1>0. F!NoReq = [f \in SaveFields |-> F!NoReq[f]]
  BY DEF F!NoReq, SaveFields
<1>1. UNCHANGED history
  BY DEF F!BeginPut, F!BeginRestore
<1>2. ASSUME NEW at \in {"read", "schema"}, NEW x \in F!Row, NEW s,
             job' = [job EXCEPT ![e] = [F!NoReq EXCEPT !.at = at, !.row = x, !.schema = s]]
      PROVE  ConfigInv'
  <2>1. PICK y : y = [F!NoReq EXCEPT !.at = at, !.row = x, !.schema = s]
    OBVIOUS
  <2>2. y = [f \in SaveFields |-> y[f]]
    BY <1>0, <2>1
  <2>3. y.at = at /\ y.row = x
    BY <1>0, <2>1 DEF SaveFields
  <2>4. Saves(y)'
    BY <2>2, <2>3 DEF Saves
  <2> QED
    BY <1>1, <1>2, <2>1, <2>4, ConfigGo DEF HistoryStep
<1>3. CASE F!BeginPut(e)
  <2>1. PICK doc \in F!Docs, s \in F!Schemas, base \in {None, F!Current} :
          job' = [job EXCEPT ![e] = [F!NoReq EXCEPT !.at = IF s = schema THEN "read" ELSE "schema",
                                         !.row = [doc |-> doc, base |-> base], !.schema = s]]
    BY <1>3 DEF F!BeginPut
  <2>2. PICK at \in {"read", "schema"} : at = IF s = schema THEN "read" ELSE "schema"
    OBVIOUS
  <2>3. base \in 0 .. MaxVersion \cup {None}
    BY Currents DEF ConfigInv
  <2>4. PICK x \in F!Row : x = [doc |-> doc, base |-> base]
    <3>1. [doc |-> doc, base |-> base] \in F!Row
      BY <2>1, <2>3 DEF F!Row
    <3> QED
      BY <3>1
  <2>5. job' = [job EXCEPT ![e] = [F!NoReq EXCEPT !.at = at, !.row = x, !.schema = s]]
    BY <2>1, <2>2, <2>4
  <2> QED
    BY <1>1, <1>2, <2>4, <2>5 DEF HistoryStep
<1>4. CASE F!BeginRestore(e)
  <2>1. PICK v \in F!Versions :
          /\ history[v] # None
          /\ job' = [job EXCEPT ![e] = [F!NoReq EXCEPT !.at = "read", !.row = [doc |-> history[v].doc, base |-> None]]]
    BY <1>4 DEF F!BeginRestore
  <2>2. PICK x \in F!Row : x = [doc |-> history[v].doc, base |-> None]
    <3>1. history[v] \in F!Row
      BY <2>1 DEF ConfigInv
    <3>2. [doc |-> history[v].doc, base |-> None] \in F!Row
      BY <3>1 DEF F!Row
    <3> QED
      BY <3>2
  <2>3. F!NoReq.schema = "none"
    BY DEF F!NoReq
  <2>4. PICK y : y = [F!NoReq EXCEPT !.at = "read", !.row = x]
    OBVIOUS
  <2>5. y = [f \in SaveFields |-> y[f]]
    BY <1>0, <2>4
  <2>6. y.at = "read" /\ y.row = x
    BY <1>0, <2>4 DEF SaveFields
  <2>7. Saves(y)'
    BY <2>2, <2>5, <2>6 DEF Saves
  <2> QED
    BY <1>1, <2>1, <2>2, <2>4, <2>7, ConfigGo DEF HistoryStep
<1> QED
  BY <1>3, <1>4

LEMMA ConfigStep == ASSUME F!ConfigAssumption, ConfigInv, [F!Next]_F!vars PROVE ConfigInv' /\ HistoryStep
<1>0. F!NoReq = [f \in SaveFields |-> F!NoReq[f]] /\ F!NoReq.at = "none"
  BY DEF F!NoReq, SaveFields
<1>1. CASE UNCHANGED <<history, job>>
  BY <1>1, Versions DEF ConfigInv, Saves, Written, HistoryStep
<1>2. ASSUME NEW e \in Editors, F!SaveSchema(e) PROVE ConfigInv' /\ HistoryStep
  <2>1. PICK r : r = job[e] /\ Saves(r) /\ r.at # "none"
    BY <1>2 DEF F!SaveSchema, ConfigInv
  <2>2. PICK y : y = [r EXCEPT !.at = "read"]
    OBVIOUS
  <2>3. y = [f \in SaveFields |-> y[f]]
    BY <2>1, <2>2 DEF Saves
  <2>4. y.at = "read" /\ y.row = r.row
    BY <2>1, <2>2 DEF Saves, SaveFields
  <2>5. Saves(y)' /\ job' = [job EXCEPT ![e] = y] /\ UNCHANGED history
    BY <1>2, <2>1, <2>2, <2>3, <2>4 DEF Saves, F!SaveSchema, ConfigInv
  <2> QED
    BY <2>5, ConfigGo DEF HistoryStep
<1>3. ASSUME NEW e \in Editors, F!ReadVersion(e) PROVE ConfigInv' /\ HistoryStep
  <2>1. PICK r : r = job[e] /\ Saves(r) /\ r.at = "read"
    BY <1>3 DEF F!ReadVersion, ConfigInv
  <2>2. PICK n \in 0 .. MaxVersion : Written(n) /\ F!Current = n
    BY Currents DEF ConfigInv
  <2>3. PICK y : y = [r EXCEPT !.at = "insert", !.version = n + 1]
    OBVIOUS
  <2>4. y = [f \in SaveFields |-> y[f]]
    BY <2>1, <2>3 DEF Saves
  <2>5. y.at = "insert" /\ y.row = r.row /\ y.version = n + 1
    BY <2>1, <2>3 DEF Saves, SaveFields
  <2>6. n + 1 \in Nat \ {0} /\ \A v \in F!Versions : v < n + 1 => history[v] # None
    BY <2>2, Versions DEF Written
  <2>7. Saves(y)' /\ job' = [job EXCEPT ![e] = y] /\ UNCHANGED history
    BY <1>3, <2>1, <2>2, <2>3, <2>4, <2>5, <2>6 DEF Saves, F!ReadVersion, ConfigInv, F!Versions
  <2> QED
    BY <2>7, ConfigGo DEF HistoryStep
<1>4. ASSUME NEW e \in Editors, F!Publish(e) PROVE ConfigInv' /\ HistoryStep
  <2>1. PICK r : r = job[e] /\ Saves(r) /\ r.at = "insert"
    BY <1>4 DEF F!Publish, ConfigInv
  <2>2. HistoryStep
    <3>1. CASE F!Taken(r.version)
      BY <1>4, <2>1, <3>1 DEF F!Publish, HistoryStep
    <3>2. CASE ~ F!Taken(r.version)
      <4>1. r.version \in F!Versions /\ history[r.version] = None
        BY <2>1, <3>2, Versions DEF F!Taken, Saves
      <4> QED
        BY <1>4, <2>1, <3>2, <4>1 DEF F!Publish, HistoryStep, Saves
    <3> QED
      BY <3>1, <3>2
  <2>3. Saves(F!NoReq)' /\ job' = [job EXCEPT ![e] = F!NoReq]
    BY <1>0, <1>4 DEF F!Publish, F!End, Saves
  <2> QED
    BY <2>2, <2>3, ConfigGo
<1>5. CASE \/ F!SetFlag \/ F!SetChannel \/ F!SaveMessage \/ F!DeleteMessage
           \/ F!SendBeat \/ F!AnswerBeat \/ F!ApplyBeat \/ F!Lose \/ F!Reload \/ F!Tick \/ UNCHANGED F!vars
  BY <1>1, <1>5 DEF F!SetFlag, F!SetChannel, F!SaveMessage, F!DeleteMessage, F!SendBeat, F!AnswerBeat, F!ApplyBeat,
       F!Lose, F!Reload, F!Tick, F!vars, F!panel
<1>6. ASSUME NEW f \in Fetches, F!Answer(f) \/ F!ApplyFetch(f) PROVE ConfigInv' /\ HistoryStep
  BY <1>1, <1>6 DEF F!Answer, F!ApplyFetch, F!panel
<1>7. ASSUME NEW m \in Msgs, F!MarkSeen(m) PROVE ConfigInv' /\ HistoryStep
  BY <1>1, <1>7 DEF F!MarkSeen, F!panel
<1> QED
  BY <1>2, <1>3, <1>4, <1>5, <1>6, <1>7, ConfigBegins DEF F!Next

\* A version of the config, once saved, never changes, and none is skipped, whichever editors save or
\* restore at once (panel/routes/remote.ts: publishVersion reads the highest and inserts the next).
THEOREM HistoryOnlyGrows == ASSUME F!ConfigAssumption PROVE F!Spec => [][F!HistoryGrows]_F!vars
<1>1. ConfigInv /\ [F!Next]_F!vars => ConfigInv' /\ [F!HistoryGrows]_F!vars
  BY ConfigStep, ConfigGrows
<1> QED
  BY ConfigInit, <1>1, PTL DEF F!Spec

=============================================================================
