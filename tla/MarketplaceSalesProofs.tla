----------------------- MODULE MarketplaceSalesProofs -----------------------
(***************************************************************************)
(* Proofs about MarketplaceSales, in two parts.                            *)
(*   1. What each action does to the request that takes it, field by field.*)
(*      The shapes say what an update of some fields of a request leaves   *)
(*      in all thirteen; the moves say it of the actions, so that the      *)
(*      proofs about the tables never look inside a record.                *)
(*   2. The inductive invariant and the theorems.                          *)
(***************************************************************************)
EXTENDS MarketplaceSales, TLAPS, FiniteSetTheorems

-----------------------------------------------------------------------------
(* Requests as records. *)

\* The fields of an invocation, one by one.
Fields(z, k, st, o, a, p, x, s, w, m, v, n, i, c) ==
    /\ z.kind = k /\ z.stage = st /\ z.outcome = o /\ z.account = a /\ z.purchase = p
    /\ z.payment = x /\ z.status = s /\ z.row = w /\ z.amount = m /\ z.voucher = v
    /\ z.number = n /\ z.tries = i /\ z.count = c

\* An invocation that goes on with only its stage changed, and one that has been answered.
Goes(z, q, stage) ==
    Fields(z, q.kind, stage, q.outcome, q.account, q.purchase, q.payment, q.status, q.row,
           q.amount, q.voucher, q.number, q.tries, q.count)
Answered(z, q, o) ==
    Fields(z, q.kind, "done", o, None, q.purchase, None, "none", NoPurchase,
           None, None, 0, 0, 0)

\* A step of request r: it alone moves.
Frame(r) == req' \in [Reqs -> Request] /\ \A x \in Reqs \ {r} : req'[x] = req[x]

\* Replacing the record of r is a step of r alone.
LEMMA FrameStep ==
    ASSUME TypeOK, NEW r \in Reqs, NEW n \in Request, req' = [req EXCEPT ![r] = n]
    PROVE  Frame(r) /\ req'[r] = n
  BY DEF TypeOK, Frame

\* The fields of an invocation have their types.
LEMMA RequestFields ==
    ASSUME NEW q \in Request
    PROVE  /\ q.kind \in Kinds \cup {"none"} /\ q.stage \in Stages /\ q.outcome \in Outcomes
           /\ q.account \in Accounts \cup {None} /\ q.purchase \in Purchases \cup {None}
           /\ q.payment \in Payments \cup {None} /\ q.status \in Statuses \cup {"none"}
           /\ q.row \in PurchaseRow /\ q.amount \in Amounts \cup {None}
           /\ q.voucher \in Vouchers \cup {None} /\ q.number \in Nat /\ q.tries \in Nat
           /\ q.count \in Nat
  BY DEF Request

\* The absent rows are rows, and the request not yet sent is a request.
LEMMA NothingTyped ==
    /\ NoPurchase \in PurchaseRow /\ NoVoucher \in VoucherRow /\ NoPayment \in PaymentRecord
    /\ NoRequest \in Request
    /\ Fields(NoRequest, "none", "idle", "none", None, None, None, "none", NoPurchase, None,
              None, 0, 0, 0)
<1>1. NoPurchase \in PurchaseRow /\ NoVoucher \in VoucherRow /\ NoPayment \in PaymentRecord
  BY DEF NoPurchase, PurchaseRow, Statuses, Amounts, NoVoucher, VoucherRow, NoPayment, PaymentRecord, ProviderStatuses
<1>2. NoRequest \in Request
  BY <1>1 DEF NoRequest, Request, Stages, Outcomes
<1>3. Fields(NoRequest, "none", "idle", "none", None, None, None, "none", NoPurchase, None, None, 0, 0, 0)
  BY DEF NoRequest, Fields
<1> QED
  BY <1>1, <1>2, <1>3

\* An invocation that goes on with nothing but its stage changed.
LEMMA StageShape ==
    ASSUME NEW q \in Request, NEW st \in Stages
    PROVE  LET z == [q EXCEPT !.stage = st]
           IN  z \in Request /\ Fields(z, q.kind, st, q.outcome, q.account, q.purchase, q.payment, q.status,
                                        q.row, q.amount, q.voucher, q.number, q.tries, q.count)
<1> DEFINE z == [q EXCEPT !.stage = st]
<1>1. z \in Request
  BY Zenon DEF Request
<1>2. Fields(z, q.kind, st, q.outcome, q.account, q.purchase, q.payment, q.status, q.row, q.amount, q.voucher, q.number, q.tries, q.count)
  BY DEF Request, Fields
<1> QED
  BY <1>1, <1>2

\* A checkout as it begins.
LEMMA CheckoutShape ==
    ASSUME NEW q \in Request, NEW k \in Kinds, NEW st \in Stages, NEW a \in Accounts \cup {None}
    PROVE  LET z == [q EXCEPT !.kind = k, !.stage = st, !.account = a]
           IN  z \in Request /\ Fields(z, k, st, q.outcome, a, q.purchase, q.payment, q.status,
                                        q.row, q.amount, q.voucher, q.number, q.tries, q.count)
<1> DEFINE z == [q EXCEPT !.kind = k, !.stage = st, !.account = a]
<1>1. z \in Request
  BY Zenon DEF Request
<1>2. Fields(z, k, st, q.outcome, a, q.purchase, q.payment, q.status, q.row, q.amount, q.voucher, q.number, q.tries, q.count)
  BY DEF Request, Fields
<1> QED
  BY <1>1, <1>2

\* A checkout that has written its sale.
LEMMA PurchaseShape ==
    ASSUME NEW q \in Request, NEW st \in Stages, NEW p \in Purchases \cup {None}
    PROVE  LET z == [q EXCEPT !.stage = st, !.purchase = p]
           IN  z \in Request /\ Fields(z, q.kind, st, q.outcome, q.account, p, q.payment, q.status,
                                        q.row, q.amount, q.voucher, q.number, q.tries, q.count)
<1> DEFINE z == [q EXCEPT !.stage = st, !.purchase = p]
<1>1. z \in Request
  BY Zenon DEF Request
<1>2. Fields(z, q.kind, st, q.outcome, q.account, p, q.payment, q.status, q.row, q.amount, q.voucher, q.number, q.tries, q.count)
  BY DEF Request, Fields
<1> QED
  BY <1>1, <1>2

\* A notification as it begins.
LEMMA NotifyShape ==
    ASSUME NEW q \in Request, NEW k \in Kinds, NEW st \in Stages, NEW x \in Payments \cup {None}, NEW s \in Statuses \cup {"none"}, NEW p \in Purchases \cup {None}
    PROVE  LET z == [q EXCEPT !.kind = k, !.stage = st, !.payment = x, !.status = s, !.purchase = p]
           IN  z \in Request /\ Fields(z, k, st, q.outcome, q.account, p, x, s,
                                        q.row, q.amount, q.voucher, q.number, q.tries, q.count)
<1> DEFINE z == [q EXCEPT !.kind = k, !.stage = st, !.payment = x, !.status = s, !.purchase = p]
<1>1. z \in Request
  BY Zenon DEF Request
<1>2. Fields(z, k, st, q.outcome, q.account, p, x, s, q.row, q.amount, q.voucher, q.number, q.tries, q.count)
  BY DEF Request, Fields
<1> QED
  BY <1>1, <1>2

\* A notification that has found its sale.
LEMMA FoundShape ==
    ASSUME NEW q \in Request, NEW st \in Stages, NEW p \in Purchases \cup {None}, NEW w \in PurchaseRow
    PROVE  LET z == [q EXCEPT !.stage = st, !.purchase = p, !.row = w]
           IN  z \in Request /\ Fields(z, q.kind, st, q.outcome, q.account, p, q.payment, q.status,
                                        w, q.amount, q.voucher, q.number, q.tries, q.count)
<1> DEFINE z == [q EXCEPT !.stage = st, !.purchase = p, !.row = w]
<1>1. z \in Request
  BY Zenon DEF Request
<1>2. Fields(z, q.kind, st, q.outcome, q.account, p, q.payment, q.status, w, q.amount, q.voucher, q.number, q.tries, q.count)
  BY DEF Request, Fields
<1> QED
  BY <1>1, <1>2

\* A refund as it begins.
LEMMA RefundShape ==
    ASSUME NEW q \in Request, NEW k \in Kinds, NEW p \in Purchases \cup {None}, NEW w \in PurchaseRow, NEW m \in Amounts \cup {None}, NEW x \in Payments \cup {None}, NEW st \in Stages
    PROVE  LET z == [q EXCEPT !.kind = k, !.purchase = p, !.row = w, !.amount = m, !.payment = x, !.stage = st]
           IN  z \in Request /\ Fields(z, k, st, q.outcome, q.account, p, x, q.status,
                                        w, m, q.voucher, q.number, q.tries, q.count)
<1> DEFINE z == [q EXCEPT !.kind = k, !.purchase = p, !.row = w, !.amount = m, !.payment = x, !.stage = st]
<1>1. z \in Request
  BY Zenon DEF Request
<1>2. Fields(z, k, st, q.outcome, q.account, p, x, q.status, w, m, q.voucher, q.number, q.tries, q.count)
  BY DEF Request, Fields
<1> QED
  BY <1>1, <1>2

\* A sale by hand as it begins.
LEMMA ManualShape ==
    ASSUME NEW q \in Request, NEW k \in Kinds, NEW p \in Purchases \cup {None}, NEW st \in Stages, NEW o \in Outcomes
    PROVE  LET z == [q EXCEPT !.kind = k, !.purchase = p, !.stage = st, !.outcome = o]
           IN  z \in Request /\ Fields(z, k, st, o, q.account, p, q.payment, q.status,
                                        q.row, q.amount, q.voucher, q.number, q.tries, q.count)
<1> DEFINE z == [q EXCEPT !.kind = k, !.purchase = p, !.stage = st, !.outcome = o]
<1>1. z \in Request
  BY Zenon DEF Request
<1>2. Fields(z, k, st, o, q.account, p, q.payment, q.status, q.row, q.amount, q.voucher, q.number, q.tries, q.count)
  BY DEF Request, Fields
<1> QED
  BY <1>1, <1>2

\* A request for a receipt as it begins.
LEMMA IssueShape ==
    ASSUME NEW q \in Request, NEW k \in Kinds, NEW st \in Stages, NEW p \in Purchases \cup {None}
    PROVE  LET z == [q EXCEPT !.kind = k, !.stage = st, !.purchase = p]
           IN  z \in Request /\ Fields(z, k, st, q.outcome, q.account, p, q.payment, q.status,
                                        q.row, q.amount, q.voucher, q.number, q.tries, q.count)
<1> DEFINE z == [q EXCEPT !.kind = k, !.stage = st, !.purchase = p]
<1>1. z \in Request
  BY Zenon DEF Request
<1>2. Fields(z, k, st, q.outcome, q.account, p, q.payment, q.status, q.row, q.amount, q.voucher, q.number, q.tries, q.count)
  BY DEF Request, Fields
<1> QED
  BY <1>1, <1>2

\* A request to void a receipt as it begins.
LEMMA VoidShape ==
    ASSUME NEW q \in Request, NEW k \in Kinds, NEW st \in Stages, NEW v \in Vouchers \cup {None}
    PROVE  LET z == [q EXCEPT !.kind = k, !.stage = st, !.voucher = v]
           IN  z \in Request /\ Fields(z, k, st, q.outcome, q.account, q.purchase, q.payment, q.status,
                                        q.row, q.amount, v, q.number, q.tries, q.count)
<1> DEFINE z == [q EXCEPT !.kind = k, !.stage = st, !.voucher = v]
<1>1. z \in Request
  BY Zenon DEF Request
<1>2. Fields(z, k, st, q.outcome, q.account, q.purchase, q.payment, q.status, q.row, q.amount, v, q.number, q.tries, q.count)
  BY DEF Request, Fields
<1> QED
  BY <1>1, <1>2

\* A request to send a receipt again as it begins.
LEMMA ResendShape ==
    ASSUME NEW q \in Request, NEW k \in Kinds, NEW st \in Stages, NEW v \in Vouchers \cup {None}, NEW c \in Nat
    PROVE  LET z == [q EXCEPT !.kind = k, !.stage = st, !.voucher = v, !.count = c]
           IN  z \in Request /\ Fields(z, k, st, q.outcome, q.account, q.purchase, q.payment, q.status,
                                        q.row, q.amount, v, q.number, q.tries, c)
<1> DEFINE z == [q EXCEPT !.kind = k, !.stage = st, !.voucher = v, !.count = c]
<1>1. z \in Request
  BY Zenon DEF Request
<1>2. Fields(z, k, st, q.outcome, q.account, q.purchase, q.payment, q.status, q.row, q.amount, v, q.number, q.tries, c)
  BY DEF Request, Fields
<1> QED
  BY <1>1, <1>2

\* An invocation that has found or written a voucher.
LEMMA VoucherShape ==
    ASSUME NEW q \in Request, NEW st \in Stages, NEW v \in Vouchers \cup {None}
    PROVE  LET z == [q EXCEPT !.stage = st, !.voucher = v]
           IN  z \in Request /\ Fields(z, q.kind, st, q.outcome, q.account, q.purchase, q.payment, q.status,
                                        q.row, q.amount, v, q.number, q.tries, q.count)
<1> DEFINE z == [q EXCEPT !.stage = st, !.voucher = v]
<1>1. z \in Request
  BY Zenon DEF Request
<1>2. Fields(z, q.kind, st, q.outcome, q.account, q.purchase, q.payment, q.status, q.row, q.amount, v, q.number, q.tries, q.count)
  BY DEF Request, Fields
<1> QED
  BY <1>1, <1>2

\* An invocation that has counted a number.
LEMMA NumberShape ==
    ASSUME NEW q \in Request, NEW st \in Stages, NEW n \in Nat
    PROVE  LET z == [q EXCEPT !.stage = st, !.number = n]
           IN  z \in Request /\ Fields(z, q.kind, st, q.outcome, q.account, q.purchase, q.payment, q.status,
                                        q.row, q.amount, q.voucher, n, q.tries, q.count)
<1> DEFINE z == [q EXCEPT !.stage = st, !.number = n]
<1>1. z \in Request
  BY Zenon DEF Request
<1>2. Fields(z, q.kind, st, q.outcome, q.account, q.purchase, q.payment, q.status, q.row, q.amount, q.voucher, n, q.tries, q.count)
  BY DEF Request, Fields
<1> QED
  BY <1>1, <1>2

\* An invocation whose number was taken.
LEMMA TriesShape ==
    ASSUME NEW q \in Request, NEW st \in Stages, NEW i \in Nat
    PROVE  LET z == [q EXCEPT !.stage = st, !.tries = i]
           IN  z \in Request /\ Fields(z, q.kind, st, q.outcome, q.account, q.purchase, q.payment, q.status,
                                        q.row, q.amount, q.voucher, q.number, i, q.count)
<1> DEFINE z == [q EXCEPT !.stage = st, !.tries = i]
<1>1. z \in Request
  BY Zenon DEF Request
<1>2. Fields(z, q.kind, st, q.outcome, q.account, q.purchase, q.payment, q.status, q.row, q.amount, q.voucher, q.number, i, q.count)
  BY DEF Request, Fields
<1> QED
  BY <1>1, <1>2

\* What an invocation leaves behind when it is answered or cut short.
LEMMA EndedShape ==
    ASSUME NEW q \in Request, NEW o \in Outcomes
    PROVE  Ended(q, o) \in Request /\ Answered(Ended(q, o), q, o)
<1> DEFINE z == [NoRequest EXCEPT !.kind = q.kind, !.purchase = q.purchase, !.stage = "done", !.outcome = o]
<1>1. /\ q.kind \in Kinds \cup {"none"} /\ q.purchase \in Purchases \cup {None}
      /\ "done" \in Stages /\ NoRequest \in Request
  BY RequestFields, NothingTyped DEF Stages
<1>2. z \in Request
  BY <1>1, ZenonT(60) DEF Request
<1>3. Answered(z, q, o)
  BY NothingTyped DEF Answered, Fields, NoRequest
<1> QED
  BY <1>2, <1>3 DEF Ended

\* Going on is a step of one request.
LEMMA GotoMoves ==
    ASSUME TypeOK, NEW r \in Reqs, NEW stage \in Stages, Goto(r, stage)
    PROVE  Frame(r) /\ Goes(req'[r], req[r], stage)
<1>1. req[r] \in Request
  BY DEF TypeOK
<1>2. [req[r] EXCEPT !.stage = stage] \in Request /\ Goes([req[r] EXCEPT !.stage = stage], req[r], stage)
  BY <1>1, StageShape DEF Goes
<1> QED
  BY <1>2, FrameStep DEF Goto

\* Answering is a step of one request.
LEMMA EndMoves ==
    ASSUME TypeOK, NEW r \in Reqs, NEW o \in Outcomes, End(r, o)
    PROVE  Frame(r) /\ Answered(req'[r], req[r], o)
<1>1. req[r] \in Request
  BY DEF TypeOK
<1>2. Ended(req[r], o) \in Request /\ Answered(Ended(req[r], o), req[r], o)
  BY <1>1, EndedShape
<1> QED
  BY <1>2, FrameStep DEF End

\* Buying: for an account that has not bought.
LEMMA BeginCheckoutMoves ==
    ASSUME TypeOK, NEW r \in Reqs, BeginCheckout(r),
           req[r].stage = "idle" => req[r] = NoRequest
    PROVE  /\ Frame(r)
           /\ \E a \in Accounts :
             /\ ~Entitled(a)
             /\ Fields(req'[r], "checkout", "pend", "none", a, None, None, "none", NoPurchase,
                    None, None, 0, 0, 0)
<1>1. PICK a \in Accounts :
          /\ ~Entitled(a)
          /\ req' = [req EXCEPT ![r] = [req[r] EXCEPT !.kind = "checkout", !.stage = "pend", !.account = a]]
  BY DEF BeginCheckout
<1>2. req[r] \in Request
  BY DEF TypeOK
<1>3. "checkout" \in Kinds /\ "pend" \in Stages
  BY DEF Kinds, Stages
<1> DEFINE n == [req[r] EXCEPT !.kind = "checkout", !.stage = "pend", !.account = a]
<1>4. n \in Request /\ Fields(n, "checkout", "pend", req[r].outcome, a, req[r].purchase, req[r].payment, req[r].status, req[r].row, req[r].amount, req[r].voucher, req[r].number, req[r].tries, req[r].count)
  BY <1>2, <1>3, CheckoutShape
<1>5. Frame(r) /\ req'[r] = n
  BY <1>1, <1>4, FrameStep
<1> HIDE DEF n
<1>6. req[r] = NoRequest
  BY DEF BeginCheckout, Idle
<1>7. Fields(n, "checkout", "pend", "none", a, None, None, "none", NoPurchase, None, None, 0, 0, 0)
  BY <1>4, <1>6, NothingTyped DEF Fields
<1> QED
  BY <1>1, <1>5, <1>7

\* The row comes first, and is new.
LEMMA CreatePendingPurchaseMoves ==
    ASSUME TypeOK, NEW r \in Reqs, CreatePendingPurchase(r)
    PROVE  /\ Frame(r)
           /\ \E p \in Purchases :
             /\ ~Recorded(p)
             /\ purchase' = [purchase EXCEPT ![p] = [NoPurchase EXCEPT !.status = "pending",
                                                                     !.account = req[r].account]]
             /\ Fields(req'[r], req[r].kind, "prefer", req[r].outcome, req[r].account, p,
                    req[r].payment, req[r].status, req[r].row, req[r].amount, req[r].voucher,
                    req[r].number, req[r].tries, req[r].count)
<1>1. PICK p \in Purchases :
          /\ ~Recorded(p)
          /\ purchase' = [purchase EXCEPT ![p] = [NoPurchase EXCEPT !.status = "pending",
                                                                     !.account = req[r].account]]
          /\ req' = [req EXCEPT ![r] = [req[r] EXCEPT !.stage = "prefer", !.purchase = p]]
  BY DEF CreatePendingPurchase
<1>2. req[r] \in Request
  BY DEF TypeOK
<1>3. "prefer" \in Stages
  BY DEF Stages
<1> DEFINE n == [req[r] EXCEPT !.stage = "prefer", !.purchase = p]
<1>4. n \in Request /\ Fields(n, req[r].kind, "prefer", req[r].outcome, req[r].account, p, req[r].payment, req[r].status, req[r].row, req[r].amount, req[r].voucher, req[r].number, req[r].tries, req[r].count)
  BY <1>2, <1>3, PurchaseShape
<1>5. Frame(r) /\ req'[r] = n
  BY <1>1, <1>4, FrameStep
<1> HIDE DEF n
<1> QED
  BY <1>1, <1>4, <1>5

\* What a notification comes to, whichever topic it is of.
Resolves(x, p, status) ==
    ResolvesPayment(x, p, status) \/ ResolvesOrder(x, p, status) \/ ResolvesChargeback(x, p, status)

\* A notification: what it says has been read back.
LEMMA BeginNotifyMoves ==
    ASSUME TypeOK, NEW r \in Reqs, BeginNotify(r),
           req[r].stage = "idle" => req[r] = NoRequest
    PROVE  /\ Frame(r)
           /\ \E x \in Payments \cup {None}, p \in Purchases \cup {None}, s \in Statuses :
             /\ Resolves(x, p, s)
             /\ Fields(req'[r], "notify", "lookup", "none", None, p, x, s, NoPurchase, None,
                    None, 0, 0, 0)
<1>1. PICK x \in Payments \cup {None}, p \in Purchases \cup {None}, s \in Statuses :
          /\ Resolves(x, p, s)
          /\ req' = [req EXCEPT ![r] = [req[r] EXCEPT !.kind = "notify", !.stage = "lookup", !.payment = x, !.status = s, !.purchase = p]]
  BY DEF BeginNotify, Resolves
<1>2. req[r] \in Request
  BY DEF TypeOK
<1>3. "notify" \in Kinds /\ "lookup" \in Stages /\ s \in Statuses \cup {"none"}
  BY DEF Kinds, Stages
<1> DEFINE n == [req[r] EXCEPT !.kind = "notify", !.stage = "lookup", !.payment = x, !.status = s, !.purchase = p]
<1>4. n \in Request /\ Fields(n, "notify", "lookup", req[r].outcome, req[r].account, p, x, s, req[r].row, req[r].amount, req[r].voucher, req[r].number, req[r].tries, req[r].count)
  BY <1>2, <1>3, NotifyShape
<1>5. Frame(r) /\ req'[r] = n
  BY <1>1, <1>4, FrameStep
<1> HIDE DEF n
<1>6. req[r] = NoRequest
  BY DEF BeginNotify, Idle
<1>7. Fields(n, "notify", "lookup", "none", None, p, x, s, NoPurchase, None, None, 0, 0, 0)
  BY <1>4, <1>6, NothingTyped DEF Fields
<1> QED
  BY <1>1, <1>5, <1>7

\* A refund: of an approved sale, whose payment is known if it has one.
LEMMA BeginRefundMoves ==
    ASSUME TypeOK, NEW r \in Reqs, BeginRefund(r),
           req[r].stage = "idle" => req[r] = NoRequest
    PROVE  /\ Frame(r)
           /\ \E p \in Purchases, amount \in Amounts :
             /\ purchase[p].status = "approved"
             /\ purchase[p].source = "manual" \/ purchase[p].payment # None
             /\ Fields(req'[r], "refund", RefundStage(purchase[p]), "none", None, p,
                    purchase[p].payment, "none", purchase[p], amount, None, 0, 0, 0)
<1>1. PICK p \in Purchases, amount \in Amounts :
          /\ purchase[p].status = "approved"
          /\ purchase[p].source = "manual" \/ purchase[p].payment # None
          /\ req' = [req EXCEPT ![r] = [req[r] EXCEPT !.kind = "refund", !.purchase = p, !.row = purchase[p], !.amount = amount, !.payment = purchase[p].payment, !.stage = RefundStage(purchase[p])]]
  BY DEF BeginRefund
<1>2. req[r] \in Request
  BY DEF TypeOK
<1>3. /\ "refund" \in Kinds /\ RefundStage(purchase[p]) \in Stages /\ purchase[p] \in PurchaseRow
      /\ purchase[p].payment \in Payments \cup {None}
  BY <1>1 DEF Kinds, Stages, RefundStage, TypeOK, PurchaseRow
<1> DEFINE n == [req[r] EXCEPT !.kind = "refund", !.purchase = p, !.row = purchase[p], !.amount = amount, !.payment = purchase[p].payment, !.stage = RefundStage(purchase[p])]
<1>4. n \in Request /\ Fields(n, "refund", RefundStage(purchase[p]), req[r].outcome, req[r].account, p, purchase[p].payment, req[r].status, purchase[p], amount, req[r].voucher, req[r].number, req[r].tries, req[r].count)
  BY <1>2, <1>3, RefundShape
<1>5. Frame(r) /\ req'[r] = n
  BY <1>1, <1>4, FrameStep
<1> HIDE DEF n
<1>6. req[r] = NoRequest
  BY DEF BeginRefund, Idle
<1>7. Fields(n, "refund", RefundStage(purchase[p]), "none", None, p, purchase[p].payment, "none", purchase[p], amount, None, 0, 0, 0)
  BY <1>4, <1>6, NothingTyped DEF Fields
<1> QED
  BY <1>1, <1>5, <1>7

\* A sale by hand: a new row, approved as it is written.
LEMMA CreateManualSaleMoves ==
    ASSUME TypeOK, NEW r \in Reqs, CreateManualSale(r),
           req[r].stage = "idle" => req[r] = NoRequest
    PROVE  /\ Frame(r)
           /\ \E p \in Purchases, a \in Accounts \cup {None}, stage \in {"live", "done"} :
             /\ ~Recorded(p)
             /\ purchase' = [purchase EXCEPT ![p] = [NoPurchase EXCEPT !.status = "approved",
                                            !.source = "manual", !.account = a, !.approvedAt = TRUE]]
             /\ Fields(req'[r], "manual", stage, (IF stage = "done" THEN "ok" ELSE "none"),
                    None, p, None, "none", NoPurchase, None, None, 0, 0, 0)
<1>1. PICK p \in Purchases, a \in Accounts \cup {None}, stage \in {"live", "done"} :
          /\ ~Recorded(p)
          /\ purchase' = [purchase EXCEPT ![p] = [NoPurchase EXCEPT !.status = "approved",
                                            !.source = "manual", !.account = a, !.approvedAt = TRUE]]
          /\ req' = [req EXCEPT ![r] = [req[r] EXCEPT !.kind = "manual", !.purchase = p, !.stage = stage, !.outcome = (IF stage = "done" THEN "ok" ELSE "none")]]
  BY DEF CreateManualSale
<1>2. req[r] \in Request
  BY DEF TypeOK
<1>3. "manual" \in Kinds /\ stage \in Stages /\ (IF stage = "done" THEN "ok" ELSE "none") \in Outcomes
  BY <1>1 DEF Kinds, Stages, Outcomes
<1> DEFINE n == [req[r] EXCEPT !.kind = "manual", !.purchase = p, !.stage = stage, !.outcome = (IF stage = "done" THEN "ok" ELSE "none")]
<1>4. n \in Request /\ Fields(n, "manual", stage, (IF stage = "done" THEN "ok" ELSE "none"), req[r].account, p, req[r].payment, req[r].status, req[r].row, req[r].amount, req[r].voucher, req[r].number, req[r].tries, req[r].count)
  BY <1>2, <1>3, ManualShape
<1>5. Frame(r) /\ req'[r] = n
  BY <1>1, <1>4, FrameStep
<1> HIDE DEF n
<1>6. req[r] = NoRequest
  BY DEF CreateManualSale, Idle
<1>7. Fields(n, "manual", stage, (IF stage = "done" THEN "ok" ELSE "none"), None, p, None, "none", NoPurchase, None, None, 0, 0, 0)
  BY <1>4, <1>6, NothingTyped DEF Fields
<1> QED
  BY <1>1, <1>5, <1>7

\* A receipt asked for: of a sale there is.
LEMMA BeginIssueMoves ==
    ASSUME TypeOK, NEW r \in Reqs, BeginIssue(r),
           req[r].stage = "idle" => req[r] = NoRequest
    PROVE  /\ Frame(r)
           /\ \E p \in Purchases :
             /\ Recorded(p)
             /\ Fields(req'[r], "issue", "live", "none", None, p, None, "none", NoPurchase,
                    None, None, 0, 0, 0)
<1>1. PICK p \in Purchases :
          /\ Recorded(p)
          /\ req' = [req EXCEPT ![r] = [req[r] EXCEPT !.kind = "issue", !.stage = "live", !.purchase = p]]
  BY DEF BeginIssue
<1>2. req[r] \in Request
  BY DEF TypeOK
<1>3. "issue" \in Kinds /\ "live" \in Stages
  BY DEF Kinds, Stages
<1> DEFINE n == [req[r] EXCEPT !.kind = "issue", !.stage = "live", !.purchase = p]
<1>4. n \in Request /\ Fields(n, "issue", "live", req[r].outcome, req[r].account, p, req[r].payment, req[r].status, req[r].row, req[r].amount, req[r].voucher, req[r].number, req[r].tries, req[r].count)
  BY <1>2, <1>3, IssueShape
<1>5. Frame(r) /\ req'[r] = n
  BY <1>1, <1>4, FrameStep
<1> HIDE DEF n
<1>6. req[r] = NoRequest
  BY DEF BeginIssue, Idle
<1>7. Fields(n, "issue", "live", "none", None, p, None, "none", NoPurchase, None, None, 0, 0, 0)
  BY <1>4, <1>6, NothingTyped DEF Fields
<1> QED
  BY <1>1, <1>5, <1>7

\* A receipt to be voided: one that is live.
LEMMA BeginVoidMoves ==
    ASSUME TypeOK, NEW r \in Reqs, BeginVoid(r),
           req[r].stage = "idle" => req[r] = NoRequest
    PROVE  /\ Frame(r)
           /\ \E v \in Vouchers :
             /\ voucher[v].status = "issued"
             /\ Fields(req'[r], "void", "void", "none", None, None, None, "none", NoPurchase,
                    None, v, 0, 0, 0)
<1>1. PICK v \in Vouchers :
          /\ voucher[v].status = "issued"
          /\ req' = [req EXCEPT ![r] = [req[r] EXCEPT !.kind = "void", !.stage = "void", !.voucher = v]]
  BY DEF BeginVoid
<1>2. req[r] \in Request
  BY DEF TypeOK
<1>3. "void" \in Kinds /\ "void" \in Stages
  BY DEF Kinds, Stages
<1> DEFINE n == [req[r] EXCEPT !.kind = "void", !.stage = "void", !.voucher = v]
<1>4. n \in Request /\ Fields(n, "void", "void", req[r].outcome, req[r].account, req[r].purchase, req[r].payment, req[r].status, req[r].row, req[r].amount, v, req[r].number, req[r].tries, req[r].count)
  BY <1>2, <1>3, VoidShape
<1>5. Frame(r) /\ req'[r] = n
  BY <1>1, <1>4, FrameStep
<1> HIDE DEF n
<1>6. req[r] = NoRequest
  BY DEF BeginVoid, Idle
<1>7. Fields(n, "void", "void", "none", None, None, None, "none", NoPurchase, None, v, 0, 0, 0)
  BY <1>4, <1>6, NothingTyped DEF Fields
<1> QED
  BY <1>1, <1>5, <1>7

\* A receipt to be sent again: one that is live, counted as it was read.
LEMMA BeginResendMoves ==
    ASSUME TypeOK, NEW r \in Reqs, BeginResend(r),
           req[r].stage = "idle" => req[r] = NoRequest
    PROVE  /\ Frame(r)
           /\ \E v \in Vouchers :
             /\ voucher[v].status = "issued"
             /\ Fields(req'[r], "resend", "send", "none", None, None, None, "none",
                    NoPurchase, None, v, 0, 0, voucher[v].sent)
<1>1. PICK v \in Vouchers :
          /\ voucher[v].status = "issued"
          /\ req' = [req EXCEPT ![r] = [req[r] EXCEPT !.kind = "resend", !.stage = "send", !.voucher = v, !.count = voucher[v].sent]]
  BY DEF BeginResend
<1>2. req[r] \in Request
  BY DEF TypeOK
<1>3. "resend" \in Kinds /\ "send" \in Stages /\ voucher[v].sent \in Nat
  BY DEF Kinds, Stages, TypeOK, VoucherRow
<1> DEFINE n == [req[r] EXCEPT !.kind = "resend", !.stage = "send", !.voucher = v, !.count = voucher[v].sent]
<1>4. n \in Request /\ Fields(n, "resend", "send", req[r].outcome, req[r].account, req[r].purchase, req[r].payment, req[r].status, req[r].row, req[r].amount, v, req[r].number, req[r].tries, voucher[v].sent)
  BY <1>2, <1>3, ResendShape
<1>5. Frame(r) /\ req'[r] = n
  BY <1>1, <1>4, FrameStep
<1> HIDE DEF n
<1>6. req[r] = NoRequest
  BY DEF BeginResend, Idle
<1>7. Fields(n, "resend", "send", "none", None, None, None, "none", NoPurchase, None, v, 0, 0, voucher[v].sent)
  BY <1>4, <1>6, NothingTyped DEF Fields
<1> QED
  BY <1>1, <1>5, <1>7

\* The next number is counted.
LEMMA CountVouchersMoves ==
    ASSUME TypeOK, NEW r \in Reqs, CountVouchers(r),
           NextVoucherNumber \in Nat
    PROVE  /\ Frame(r)
           /\ req[r].stage = "count"
              /\ Fields(req'[r], req[r].kind, "insert", req[r].outcome, req[r].account,
                 req[r].purchase, req[r].payment, req[r].status, req[r].row, req[r].amount,
                 req[r].voucher, NextVoucherNumber, req[r].tries, req[r].count)
<1>1. /\ req[r].stage = "count"
      /\ req' = [req EXCEPT ![r] = [req[r] EXCEPT !.stage = "insert", !.number = NextVoucherNumber]]
  BY DEF CountVouchers, At
<1>2. req[r] \in Request
  BY DEF TypeOK
<1>3. "insert" \in Stages
  BY DEF Stages
<1> DEFINE n == [req[r] EXCEPT !.stage = "insert", !.number = NextVoucherNumber]
<1>4. n \in Request /\ Fields(n, req[r].kind, "insert", req[r].outcome, req[r].account, req[r].purchase, req[r].payment, req[r].status, req[r].row, req[r].amount, req[r].voucher, NextVoucherNumber, req[r].tries, req[r].count)
  BY <1>2, <1>3, NumberShape
<1>5. Frame(r) /\ req'[r] = n
  BY <1>1, <1>4, FrameStep
<1> HIDE DEF n
<1> QED
  BY <1>1, <1>4, <1>5

\* The buyer is sent to the provider, or the pending row stays behind.
LEMMA CreatePreferenceMoves ==
    ASSUME TypeOK, NEW r \in Reqs, CreatePreference(r)
    PROVE  /\ Frame(r)
           /\ Answered(req'[r], req[r], "ok") \/ Answered(req'[r], req[r], "failed")
<1>1. CASE End(r, "ok")
  BY <1>1, EndMoves DEF Outcomes
<1>2. CASE End(r, "failed")
  BY <1>2, EndMoves DEF Outcomes
<1> QED
  BY <1>1, <1>2 DEF CreatePreference

\* The sale is found by its reference or by the id of the payment, or not at all.
LEMMA FindPurchaseMoves ==
    ASSUME TypeOK, NEW r \in Reqs, FindPurchase(r)
    PROVE  /\ Frame(r) /\ req[r].stage = "lookup"
           /\ \/ \E p \in Purchases :
                   /\ IF req[r].purchase # None THEN p = req[r].purchase
                      ELSE purchase[p].payment = req[r].payment
                   /\ Fields(req'[r], req[r].kind, "claim", req[r].outcome, req[r].account, p,
                             req[r].payment, req[r].status, purchase[p], req[r].amount,
                             req[r].voucher, req[r].number, req[r].tries, req[r].count)
              \/ req[r].purchase = None /\ Goes(req'[r], req[r], "claim")
<1> DEFINE byPayment == {p \in Purchases : purchase[p].payment = req[r].payment}
           found == IF req[r].purchase # None THEN {req[r].purchase} ELSE byPayment
<1>1. /\ req[r].stage = "lookup"
      /\ \/ \E p \in found : req' = [req EXCEPT ![r] =
              [req[r] EXCEPT !.stage = "claim", !.purchase = p, !.row = purchase[p]]]
         \/ found = {} /\ Goto(r, "claim")
  BY DEF FindPurchase, At
<1>2. req[r] \in Request /\ req[r].purchase \in Purchases \cup {None} /\ "claim" \in Stages
  BY RequestFields DEF TypeOK, Stages
<1>3. ASSUME NEW p \in found, req' = [req EXCEPT ![r] =
              [req[r] EXCEPT !.stage = "claim", !.purchase = p, !.row = purchase[p]]]
      PROVE  /\ Frame(r) /\ p \in Purchases
             /\ IF req[r].purchase # None THEN p = req[r].purchase
                ELSE purchase[p].payment = req[r].payment
             /\ Fields(req'[r], req[r].kind, "claim", req[r].outcome, req[r].account, p,
                       req[r].payment, req[r].status, purchase[p], req[r].amount,
                       req[r].voucher, req[r].number, req[r].tries, req[r].count)
  <2> DEFINE n == [req[r] EXCEPT !.stage = "claim", !.purchase = p, !.row = purchase[p]]
  <2>1. /\ p \in Purchases
        /\ IF req[r].purchase # None THEN p = req[r].purchase
           ELSE purchase[p].payment = req[r].payment
    BY <1>2
  <2>2. purchase[p] \in PurchaseRow
    BY <2>1 DEF TypeOK
  <2>3. n \in Request /\ Fields(n, req[r].kind, "claim", req[r].outcome, req[r].account, p,
                       req[r].payment, req[r].status, purchase[p], req[r].amount,
                       req[r].voucher, req[r].number, req[r].tries, req[r].count)
    BY <1>2, <2>1, <2>2, FoundShape
  <2>4. Frame(r) /\ req'[r] = n
    BY <1>3, <2>3, FrameStep
  <2> HIDE DEF n
  <2> QED
    BY <2>1, <2>3, <2>4
<1>4. CASE found = {} /\ Goto(r, "claim")
  BY <1>1, <1>2, <1>4, GotoMoves
<1> HIDE DEF found
<1> QED
  BY <1>1, <1>3, <1>4

\* A notification goes on if it claims the transition of a sale it has found.
LEMMA ClaimEventMoves ==
    ASSUME TypeOK, NEW r \in Reqs, ClaimEvent(r)
    PROVE  /\ Frame(r) /\ req[r].stage = "claim"
           /\ \/ /\ <<Subject(req[r]), req[r].status>> \notin events /\ req[r].purchase # None
                 /\ Goes(req'[r], req[r], "apply")
              \/ Answered(req'[r], req[r], "ok")
<1>1. /\ req[r].stage = "claim"
      /\ \/ /\ <<Subject(req[r]), req[r].status>> \notin events /\ req[r].purchase # None
            /\ Goto(r, "apply")
         \/ End(r, "ok")
  BY DEF ClaimEvent, Fresh, At
<1> QED
  BY <1>1, GotoMoves, EndMoves DEF Stages, Outcomes

\* A claim marks what was answered and changes nothing else of any payment.
LEMMA ClaimPayments ==
    ASSUME TypeOK, NEW r \in Reqs, ClaimEvent(r)
    PROVE  /\ payment' \in [Payments -> PaymentRecord]
           /\ \A x \in Payments : /\ payment'[x].purchase = payment[x].purchase
                                  /\ payment'[x].settled = payment[x].settled
                                  /\ payment'[x].status = payment[x].status
           /\ events' = events \cup {<<Subject(req[r]), req[r].status>>}
           /\ UNCHANGED <<purchase, voucher, offered, refunds, mailed>>
<1> DEFINE B(x) == payment[x].answered \/ (x = req[r].payment /\ req[r].status = MapPaymentStatus(payment[x].status))
<1>1. payment' = [x \in Payments |-> [payment[x] EXCEPT !.answered = B(x)]]
  BY DEF ClaimEvent
<1>2. \A x \in Payments : B(x) \in BOOLEAN
  OBVIOUS
<1> HIDE DEF B
<1>3. \A x \in Payments : payment'[x] = [payment[x] EXCEPT !.answered = B(x)]
  BY <1>1
<1>4. \A x \in Payments, b \in BOOLEAN : [payment[x] EXCEPT !.answered = b] \in PaymentRecord
  BY Zenon DEF TypeOK, PaymentRecord
<1>5. payment' \in [Payments -> PaymentRecord]
  <2>1. \A x \in Payments : [payment[x] EXCEPT !.answered = B(x)] \in PaymentRecord
    BY <1>2, <1>4
  <2> QED
    BY <1>1, <2>1
<1>6. \A x \in Payments : /\ payment'[x].purchase = payment[x].purchase
                          /\ payment'[x].settled = payment[x].settled
                          /\ payment'[x].status = payment[x].status
  BY <1>3 DEF TypeOK, PaymentRecord
<1>7. /\ events' = events \cup {<<Subject(req[r]), req[r].status>>}
      /\ UNCHANGED <<purchase, voucher, offered, refunds, mailed>>
  BY DEF ClaimEvent
<1> QED
  BY <1>5, <1>6, <1>7

\* A transition applied: an approval goes on to its receipt.
LEMMA ApplyNotifiedMoves ==
    ASSUME TypeOK, NEW r \in Reqs, ApplyNotified(r)
    PROVE  /\ Frame(r) /\ req[r].stage = "apply"
           /\ \/ req[r].status = "approved" /\ Goes(req'[r], req[r], "existing")
              \/ req[r].status # "approved" /\ Answered(req'[r], req[r], "ok")
  BY GotoMoves, EndMoves DEF ApplyNotified, At, Stages, Outcomes

\* The provider gives money back or refuses.
LEMMA RefundPaymentMoves ==
    ASSUME TypeOK, NEW r \in Reqs, RefundPayment(r)
    PROVE  /\ Frame(r) /\ req[r].stage = "ask"
           /\ \/ /\ <<req[r].payment, req[r].amount>> \in refunds'
                 /\ Goes(req'[r], req[r], "record")
              \/ Answered(req'[r], req[r], "failed")
  BY GotoMoves, EndMoves DEF RefundPayment, At, Stages, Outcomes

\* The row of a refund is written and the editor answered.
LEMMA RecordRefundMoves ==
    ASSUME TypeOK, NEW r \in Reqs, RecordRefund(r)
    PROVE  Frame(r) /\ req[r].stage = "record" /\ Answered(req'[r], req[r], "ok")
  BY EndMoves DEF RecordRefund, At, Outcomes

\* A sale that has a receipt ends the matter.
LEMMA FindExistingVoucherMoves ==
    ASSUME TypeOK, NEW r \in Reqs, FindExistingVoucher(r)
    PROVE  /\ Frame(r) /\ req[r].stage = "existing"
           /\ Goes(req'[r], req[r], "live") \/ Answered(req'[r], req[r], "ok")
  BY GotoMoves, EndMoves DEF FindExistingVoucher, At, Stages, Outcomes

\* A live voucher to be voided first, or none.
LEMMA FindLiveVoucherMoves ==
    ASSUME TypeOK, NEW r \in Reqs, FindLiveVoucher(r)
    PROVE  /\ Frame(r) /\ req[r].stage = "live"
           /\ \/ \E v \in Vouchers :
                   /\ voucher[v].status = "issued"
                   /\ Fields(req'[r], req[r].kind, "void", req[r].outcome, req[r].account,
                             req[r].purchase, req[r].payment, req[r].status, req[r].row,
                             req[r].amount, v, req[r].number, req[r].tries, req[r].count)
              \/ Goes(req'[r], req[r], "count")
<1>1. /\ req[r].stage = "live"
      /\ \/ \E v \in Vouchers :
              /\ voucher[v].status = "issued"
              /\ req' = [req EXCEPT ![r] = [req[r] EXCEPT !.stage = "void", !.voucher = v]]
         \/ Goto(r, "count")
  BY DEF FindLiveVoucher, At, LiveVouchers
<1>2. req[r] \in Request /\ "void" \in Stages /\ "count" \in Stages
  BY DEF TypeOK, Stages
<1>3. ASSUME NEW v \in Vouchers,
             req' = [req EXCEPT ![r] = [req[r] EXCEPT !.stage = "void", !.voucher = v]]
      PROVE  Frame(r) /\ Fields(req'[r], req[r].kind, "void", req[r].outcome, req[r].account,
                             req[r].purchase, req[r].payment, req[r].status, req[r].row,
                             req[r].amount, v, req[r].number, req[r].tries, req[r].count)
  <2> DEFINE n == [req[r] EXCEPT !.stage = "void", !.voucher = v]
  <2>1. n \in Request /\ Fields(n, req[r].kind, "void", req[r].outcome, req[r].account,
                             req[r].purchase, req[r].payment, req[r].status, req[r].row,
                             req[r].amount, v, req[r].number, req[r].tries, req[r].count)
    BY <1>2, VoucherShape
  <2>2. Frame(r) /\ req'[r] = n
    BY <2>1, <1>3, FrameStep
  <2> HIDE DEF n
  <2> QED
    BY <2>1, <2>2
<1> QED
  BY <1>1, <1>2, <1>3, GotoMoves

\* A voucher voided, for its own sake or before the next.
LEMMA VoidVoucherMoves ==
    ASSUME TypeOK, NEW r \in Reqs, VoidVoucher(r)
    PROVE  /\ Frame(r) /\ req[r].stage = "void"
           /\ \/ Answered(req'[r], req[r], "ok")
              \/ req[r].kind # "void" /\ Goes(req'[r], req[r], "count")
  BY GotoMoves, EndMoves DEF VoidVoucher, At, Stages, Outcomes

\* A voucher written under a free number, or the number counted again, or given up.
LEMMA InsertVoucherMoves ==
    ASSUME TypeOK, NEW r \in Reqs, InsertVoucher(r)
    PROVE  /\ Frame(r) /\ req[r].stage = "insert"
           /\ \/ /\ ~Taken(req[r].number)
                 /\ \E v \in Vouchers \ Written :
                      /\ voucher' = [voucher EXCEPT ![v] =
                           [status |-> "issued", number |-> req[r].number,
                            purchase |-> req[r].purchase, by |-> IssuedBy(req[r]), sent |-> 0]]
                      /\ \/ Fields(req'[r], req[r].kind, "send", req[r].outcome, req[r].account,
                                   req[r].purchase, req[r].payment, req[r].status, req[r].row,
                                   req[r].amount, v, req[r].number, req[r].tries, req[r].count)
                         \/ Answered(req'[r], req[r], "ok")
              \/ /\ UNCHANGED voucher
                 /\ \/ Fields(req'[r], req[r].kind, "count", req[r].outcome, req[r].account,
                              req[r].purchase, req[r].payment, req[r].status, req[r].row,
                              req[r].amount, req[r].voucher, req[r].number,
                              req[r].tries + 1, req[r].count)
                    \/ Answered(req'[r], req[r], "failed")
<1>1. /\ req[r] \in Request /\ "send" \in Stages /\ "count" \in Stages /\ req[r].stage = "insert"
      /\ req[r].tries + 1 \in Nat
  <2>1. req[r] \in Request
    BY DEF TypeOK
  <2>2. req[r].tries \in Nat
    BY <2>1, RequestFields
  <2>3. req[r].stage = "insert"
    BY DEF InsertVoucher, At
  <2>4. req[r].tries + 1 \in Nat
    BY <2>2
  <2> QED
    BY <2>1, <2>3, <2>4 DEF Stages
<1>2. ASSUME NEW v \in Vouchers,
             req' = [req EXCEPT ![r] = [req[r] EXCEPT !.stage = "send", !.voucher = v]]
      PROVE  Frame(r) /\ Fields(req'[r], req[r].kind, "send", req[r].outcome, req[r].account,
                             req[r].purchase, req[r].payment, req[r].status, req[r].row,
                             req[r].amount, v, req[r].number, req[r].tries, req[r].count)
  <2> DEFINE n == [req[r] EXCEPT !.stage = "send", !.voucher = v]
  <2>1. n \in Request /\ Fields(n, req[r].kind, "send", req[r].outcome, req[r].account,
                             req[r].purchase, req[r].payment, req[r].status, req[r].row,
                             req[r].amount, v, req[r].number, req[r].tries, req[r].count)
    BY <1>1, VoucherShape
  <2>2. Frame(r) /\ req'[r] = n
    BY <2>1, <1>2, FrameStep
  <2> HIDE DEF n
  <2> QED
    BY <2>1, <2>2
<1>3. ASSUME req' = [req EXCEPT ![r] = [req[r] EXCEPT !.stage = "count", !.tries = req[r].tries + 1]]
      PROVE  Frame(r) /\ Fields(req'[r], req[r].kind, "count", req[r].outcome, req[r].account,
                             req[r].purchase, req[r].payment, req[r].status, req[r].row,
                             req[r].amount, req[r].voucher, req[r].number,
                             req[r].tries + 1, req[r].count)
  <2> DEFINE n == [req[r] EXCEPT !.stage = "count", !.tries = req[r].tries + 1]
  <2>1. n \in Request /\ Fields(n, req[r].kind, "count", req[r].outcome, req[r].account,
                             req[r].purchase, req[r].payment, req[r].status, req[r].row,
                             req[r].amount, req[r].voucher, req[r].number, req[r].tries + 1, req[r].count)
    BY <1>1, TriesShape
  <2>2. Frame(r) /\ req'[r] = n
    BY <2>1, <1>3, FrameStep
  <2> HIDE DEF n
  <2> QED
    BY <2>1, <2>2
<1>4. \/ /\ ~Taken(req[r].number)
         /\ \E v \in Vouchers \ Written :
              /\ voucher' = [voucher EXCEPT ![v] =
                   [status |-> "issued", number |-> req[r].number,
                    purchase |-> req[r].purchase, by |-> IssuedBy(req[r]), sent |-> 0]]
              /\ \/ req' = [req EXCEPT ![r] = [req[r] EXCEPT !.stage = "send", !.voucher = v]]
                 \/ End(r, "ok")
      \/ /\ UNCHANGED voucher
         /\ \/ req' = [req EXCEPT ![r] = [req[r] EXCEPT !.stage = "count",
                                                        !.tries = req[r].tries + 1]]
            \/ End(r, "failed")
  BY DEF InsertVoucher
<1>5. /\ End(r, "ok") => Frame(r) /\ Answered(req'[r], req[r], "ok")
      /\ End(r, "failed") => Frame(r) /\ Answered(req'[r], req[r], "failed")
  BY EndMoves DEF Outcomes
<1> QED
  BY <1>1, <1>2, <1>3, <1>4, <1>5

\* The e-mail is accepted or not.
LEMMA SendVoucherMoves ==
    ASSUME TypeOK, NEW r \in Reqs, SendVoucher(r)
    PROVE  /\ Frame(r) /\ req[r].stage = "send"
           /\ \/ /\ mailed' = [mailed EXCEPT ![req[r].voucher] = @ + 1]
                 /\ Goes(req'[r], req[r], "sent")
              \/ UNCHANGED mailed /\ Answered(req'[r], req[r], "failed")
  BY GotoMoves, EndMoves DEF SendVoucher, Undelivered, At, Stages, Outcomes

\* The delivery is counted and the request answered.
LEMMA RecordSentMoves ==
    ASSUME TypeOK, NEW r \in Reqs, RecordSent(r)
    PROVE  Frame(r) /\ req[r].stage = "sent" /\ Answered(req'[r], req[r], "ok")
  BY EndMoves DEF RecordSent, At, Outcomes

\* An invocation cut short leaves only what it was about.
LEMMA FailMoves ==
    ASSUME TypeOK, NEW r \in Reqs, Fail(r)
    PROVE  Frame(r) /\ Answered(req'[r], req[r], "failed")
  BY EndMoves DEF Fail, Outcomes

-----------------------------------------------------------------------------
(* The inductive invariant. *)

\* What is approved or disputed has settled; a payment not made yet has not, and a payment made
\* is of a sale.
MoneyOK ==
    \A x \in Payments :
        /\ payment[x].status = "none" <=> payment[x].purchase = None
        /\ payment[x].status = "none" => ~payment[x].settled
        /\ payment[x].status \in {"approved", "in_mediation"} => payment[x].settled

\* A payment belongs to the sale it was made for, a row names its own payment, and no buyer
\* is sent to pay for a sale recorded by hand.
Links ==
    /\ \A p \in Purchases : purchase[p].payment # None =>
         payment[purchase[p].payment].purchase = p
    /\ \A p \in offered : Recorded(p) /\ purchase[p].source = "mercadopago"
    /\ \A x \in Payments : payment[x].purchase # None => payment[x].purchase \in offered

\* What a notification knows of the money: it names a payment or a sale that was offered, and
\* what it says happened to one of the payments of that sale.
NotifyInHand(q) ==
    q.stage \in {"lookup", "claim", "apply"} =>
        /\ q.kind = "notify" /\ q.status # "none" /\ q.count = 0 /\ Subject(q) # None
        /\ q.purchase # None => q.purchase \in offered
        /\ q.payment # None => payment[q.payment].purchase # None
        /\ q.payment # None /\ q.purchase # None => payment[q.payment].purchase = q.purchase
        /\ q.status = "approved" => /\ q.purchase # None
                                   /\ \E x \in Payments : payment[x].purchase = q.purchase /\ payment[x].settled
        /\ q.status = "refunded" => /\ q.purchase # None
                                   /\ \E x \in Payments : payment[x].purchase = q.purchase /\ payment[x].status = "refunded"
        /\ q.stage = "lookup" => q.row = NoPurchase
        /\ q.stage = "apply" => q.purchase # None

\* What an invocation knows of the row it has read.
RowInHand(q) ==
    q.stage \in {"claim", "apply", "ask", "record"} =>
        /\ q.row.payment # None =>
             q.purchase # None /\ payment[q.row.payment].purchase = q.purchase
        /\ q.purchase # None => /\ Recorded(q.purchase)
                               /\ purchase[q.purchase].source = q.row.source

\* What a refund knows of the money.
RefundInHand(q) ==
    /\ q.stage \in {"ask", "record"} =>
         /\ q.kind = "refund" /\ q.purchase # None /\ q.amount # None
    /\ q.kind = "refund" => q.purchase # None /\ q.stage \in {"ask", "record", "done"}
    /\ q.stage = "ask" => q.payment # None /\ payment[q.payment].purchase = q.purchase
    /\ q.stage = "record" =>
        \/ q.row.source = "manual"
        \/ /\ q.payment # None /\ payment[q.payment].purchase = q.purchase
           /\ <<q.payment, q.amount>> \in refunds

\* What an invocation knows of the voucher it issues, voids or sends.
VoucherInHand(q) ==
    /\ q.stage \in {"prefer", "existing", "live", "count", "insert"} => q.purchase # None
    /\ q.stage = "void" => q.kind = "void" \/ q.purchase # None
    /\ q.stage \in {"void", "send", "sent"} =>
         q.voucher # None /\ voucher[q.voucher].status # "none"
    /\ q.stage = "insert" => q.number \in 1 .. NextVoucherNumber
    /\ q.stage = "send" => q.count <= mailed[q.voucher]
    /\ q.stage = "sent" => q.count + 1 <= mailed[q.voucher]
    /\ q.stage \notin {"send", "sent"} => q.count = 0
    /\ q.stage = "idle" => q = NoRequest
    /\ q.stage = "prefer" => Recorded(q.purchase) /\ purchase[q.purchase].source = "mercadopago"

\* The invocations that hold the right to issue the receipt of an approval under its key.
MayIssue(q) ==
    /\ q.kind = "notify" /\ Subject(q) # None
    /\ \/ q.stage = "apply" /\ q.status = "approved"
       \/ q.stage \in {"existing", "live", "void", "count", "insert"}

\* It is claimed once, and used once.
RightsOK ==
    /\ \A r \in Reqs : MayIssue(req[r]) =>
         /\ <<Subject(req[r]), "approved">> \in events
         /\ \A v \in Written : voucher[v].by # Subject(req[r])
         /\ \A x \in Reqs \ {r} : MayIssue(req[x]) => Subject(req[x]) # Subject(req[r])
    /\ \A v \in Written : voucher[v].by # None => <<voucher[v].by, "approved">> \in events
    /\ \A x \in Payments : <<x, "approved">> \in events => payment[x].purchase # None

\* Whoever applies the approval under a key to a sale, and whoever gives a sale back.
Approves(q, k) ==
    q.kind = "notify" /\ q.stage = "apply" /\ q.status = "approved" /\ Subject(q) = k
GivesBack(q) == q.kind = "refund" /\ (q.stage \in {"ask", "record"} \/ q.outcome = "ok")

\* The approval under a key has been applied, and nobody will apply it again.
Spent(k) == <<k, "approved">> \in events /\ \A r \in Reqs : ~Approves(req[r], k)

\* An approved sale has spent an approval; a sale given back in the panel had one, and if it
\* came under one key it is spent.
Returned(p) ==
    \/ purchase[p].source = "manual"
    \/ Keys(p) # {} /\ (OneKey(p) => \A k \in Keys(p) : Spent(k))
ApprovalsOK ==
    /\ \A p \in Purchases :
         purchase[p].status = "approved" /\ purchase[p].source = "mercadopago" =>
           \E k \in Keys(p) : Spent(k)
    /\ \A r \in Reqs : GivesBack(req[r]) =>
         Recorded(req[r].purchase) /\ Returned(req[r].purchase)

\* The numbers in use are the first ones.
NumbersOK ==
    /\ IsFiniteSet(Written)
    /\ \A v \in Written : voucher[v].number \in 1 .. Cardinality(Written)
    /\ \A n \in 1 .. Cardinality(Written) : Taken(n)

InHand == \A r \in Reqs : NotifyInHand(req[r]) /\ RowInHand(req[r]) /\ RefundInHand(req[r])
                          /\ VoucherInHand(req[r])

Inv == TypeOK /\ MoneyOK /\ Links /\ InHand /\ RightsOK /\ ApprovalsOK /\ NumbersOK /\ EntitledOnlyIfPaid
       /\ RefundedMeansReturned /\ SentCountNeverLies /\ OneReceiptPerApproval /\ PanelRefundIsFinal

-----------------------------------------------------------------------------
(* Types. *)

Step(r) == Begin(r) \/ Continue(r) \/ Fail(r)

\* What the moves ask of the state: a request not sent yet is blank, and numbers are numbers.
Ready(r) == /\ req[r].stage = "idle" => req[r] = NoRequest
            /\ NextVoucherNumber \in Nat

LEMMA StepFrame ==
    ASSUME TypeOK, NEW r \in Reqs, Ready(r), Step(r)
    PROVE  Frame(r)
<1> USE DEF Ready
<1>1. CASE BeginCheckout(r)
  BY <1>1, BeginCheckoutMoves
<1>2. CASE BeginNotify(r)
  BY <1>2, BeginNotifyMoves
<1>3. CASE BeginRefund(r)
  BY <1>3, BeginRefundMoves
<1>4. CASE CreateManualSale(r)
  BY <1>4, CreateManualSaleMoves
<1>5. CASE BeginIssue(r)
  BY <1>5, BeginIssueMoves
<1>6. CASE BeginVoid(r)
  BY <1>6, BeginVoidMoves
<1>7. CASE BeginResend(r)
  BY <1>7, BeginResendMoves
<1>8. CASE CreatePendingPurchase(r)
  BY <1>8, CreatePendingPurchaseMoves
<1>9. CASE CreatePreference(r)
  BY <1>9, CreatePreferenceMoves
<1>10. CASE FindPurchase(r)
  BY <1>10, FindPurchaseMoves
<1>11. CASE ClaimEvent(r)
  BY <1>11, ClaimEventMoves
<1>12. CASE ApplyNotified(r)
  BY <1>12, ApplyNotifiedMoves
<1>13. CASE RefundPayment(r)
  BY <1>13, RefundPaymentMoves
<1>14. CASE RecordRefund(r)
  BY <1>14, RecordRefundMoves
<1>15. CASE FindExistingVoucher(r)
  BY <1>15, FindExistingVoucherMoves
<1>16. CASE FindLiveVoucher(r)
  BY <1>16, FindLiveVoucherMoves
<1>17. CASE VoidVoucher(r)
  BY <1>17, VoidVoucherMoves
<1>18. CASE CountVouchers(r)
  BY <1>18, CountVouchersMoves
<1>19. CASE InsertVoucher(r)
  BY <1>19, InsertVoucherMoves
<1>20. CASE SendVoucher(r)
  BY <1>20, SendVoucherMoves
<1>21. CASE RecordSent(r)
  BY <1>21, RecordSentMoves
<1>22. CASE Fail(r)
  BY <1>22, FailMoves
<1> QED
  BY <1>1, <1>2, <1>3, <1>4, <1>5, <1>6, <1>7, <1>8, <1>9, <1>10, <1>11, <1>12, <1>13, <1>14, <1>15, <1>16, <1>17, <1>18, <1>19, <1>20, <1>21, <1>22 DEF Step, Begin, Continue

\* The rows the statements write are rows again.
LEMMA AppliedRow ==
    ASSUME NEW row \in PurchaseRow, NEW s \in Statuses, NEW x \in Payments \cup {None},
           NEW m \in Amounts
    PROVE  /\ Applied(row, s, x, m) \in PurchaseRow
           /\ Applied(row, s, x, m).status = s /\ Applied(row, s, x, m).source = row.source
           /\ Applied(row, s, x, m).payment = IF x # None THEN x ELSE row.payment
<1> DEFINE P == IF x # None THEN x ELSE row.payment
           A == row.approvedAt \/ s = "approved"
           R == row.refundedAt \/ s = "refunded"
           C == row.chargedBackAt \/ s = "charged_back"
           T == IF s = "refunded" /\ row.refundedAmount = None THEN m ELSE row.refundedAmount
<1>1. P \in Payments \cup {None} /\ T \in Amounts \cup {None}
  BY DEF PurchaseRow
<1>2. A \in BOOLEAN /\ R \in BOOLEAN /\ C \in BOOLEAN
  OBVIOUS
<1>3. Applied(row, s, x, m) \in PurchaseRow
  <2>1. Applied(row, s, x, m) = [row EXCEPT !.status = s, !.payment = P, !.approvedAt = A,
                                 !.refundedAt = R, !.chargedBackAt = C, !.refundedAmount = T]
    BY Zenon DEF Applied
  <2> HIDE DEF P, A, R, C, T
  <2> QED
    BY <1>1, <1>2, <2>1, Zenon DEF PurchaseRow
<1>4. /\ Applied(row, s, x, m).status = s /\ Applied(row, s, x, m).source = row.source
      /\ Applied(row, s, x, m).payment = IF x # None THEN x ELSE row.payment
  BY DEF Applied, PurchaseRow
<1> QED
  BY <1>3, <1>4

RowsTyped ==
    /\ purchase \in [Purchases -> PurchaseRow] /\ events \subseteq Subjects \X Statuses
    /\ voucher \in [Vouchers -> VoucherRow] /\ offered \subseteq Purchases
    /\ payment \in [Payments -> PaymentRecord] /\ refunds \subseteq Payments \X Amounts
    /\ mailed \in [Vouchers -> Nat]

\* What an invocation has in hand: everything the stages say together.
Hand(q) == NotifyInHand(q) /\ RowInHand(q) /\ RefundInHand(q) /\ VoucherInHand(q)

\* A statement of one invocation keeps the rows well formed.
LEMMA StepTypes ==
    ASSUME TypeOK, NEW r \in Reqs, Hand(req[r]), Step(r)
    PROVE  RowsTyped'
<1> DEFINE q == req[r]
<1> USE DEF RowsTyped
<1>0. /\ q \in Request /\ q.purchase \in Purchases \cup {None} /\ q.payment \in Payments \cup {None}
      /\ q.status \in Statuses \cup {"none"} /\ q.row \in PurchaseRow
      /\ q.amount \in Amounts \cup {None} /\ q.voucher \in Vouchers \cup {None}
      /\ q.number \in Nat /\ q.count \in Nat /\ q.account \in Accounts \cup {None}
  BY RequestFields DEF TypeOK
<1>1. ASSUME UNCHANGED <<tables, provider, mailed>>
      PROVE  RowsTyped'
  BY <1>1 DEF TypeOK, tables, provider
<1>2. CASE CreatePendingPurchase(r)
  <2>1. PICK p \in Purchases : purchase' =
          [purchase EXCEPT ![p] = [NoPurchase EXCEPT !.status = "pending", !.account = q.account]]
    BY <1>2 DEF CreatePendingPurchase
  <2>2. [NoPurchase EXCEPT !.status = "pending", !.account = q.account] \in PurchaseRow
    BY <1>0, NothingTyped DEF PurchaseRow, Statuses
  <2>3. purchase' \in [Purchases -> PurchaseRow]
    BY <2>1, <2>2 DEF TypeOK
  <2>4. UNCHANGED <<events, voucher, offered, payment, refunds, mailed>>
    BY <1>2 DEF CreatePendingPurchase, provider
  <2> QED
    BY <2>3, <2>4 DEF TypeOK
<1>3. CASE CreatePreference(r)
  <2>1. q.purchase \in Purchases
    BY <1>0, <1>3 DEF CreatePreference, At, Hand, VoucherInHand
  <2> QED
    BY <1>3, <2>1 DEF CreatePreference, TypeOK, tables
<1>4. CASE ClaimEvent(r)
  <2>1. Subject(q) \in Subjects /\ q.status \in Statuses
    BY <1>0, <1>4, ClaimEventMoves DEF Hand, NotifyInHand, Subject, Subjects
  <2> QED
    BY <1>4, <2>1, ClaimPayments DEF TypeOK
<1>5. CASE ApplyNotified(r)
  <2>1. q.payment \in Payments \cup {None} /\ q.status \in Statuses /\ "total" \in Amounts
    BY <1>0, <1>5 DEF ApplyNotified, At, Hand, NotifyInHand, Amounts
  <2>2. Applied(q.row, q.status, q.payment, "total") \in PurchaseRow
    BY <1>0, <2>1, AppliedRow
  <2> QED
    BY <1>5, <2>2 DEF ApplyNotified, TypeOK, provider
<1>6. CASE RefundPayment(r)
  <2>1. q.payment \in Payments /\ q.amount \in Amounts
    BY <1>0, <1>6 DEF RefundPayment, At, Hand, RefundInHand
  <2>2. \A s \in ProviderStatuses : [payment[q.payment] EXCEPT !.status = s] \in PaymentRecord
    BY <2>1, Zenon DEF TypeOK, PaymentRecord
  <2>3. payment[q.payment].status \in ProviderStatuses /\ "refunded" \in ProviderStatuses
    BY <2>1 DEF TypeOK, PaymentRecord, ProviderStatuses
  <2>4. \/ UNCHANGED <<refunds, payment>>
        \/ /\ refunds' = refunds \cup {<<q.payment, q.amount>>}
           /\ \/ payment' = [payment EXCEPT ![q.payment] = [payment[q.payment] EXCEPT !.status = "refunded"]]
              \/ payment' = [payment EXCEPT ![q.payment] = [payment[q.payment] EXCEPT !.status = payment[q.payment].status]]
    BY <1>6 DEF RefundPayment
  <2>5. payment' \in [Payments -> PaymentRecord]
    BY <2>2, <2>3, <2>4 DEF TypeOK
  <2> QED
    BY <1>6, <2>1, <2>4, <2>5 DEF RefundPayment, TypeOK, tables
<1>7. CASE RecordRefund(r)
  <2>1. q.amount \in Amounts /\ "refunded" \in Statuses
    BY <1>0, <1>7 DEF RecordRefund, At, Hand, RefundInHand, Statuses
  <2>2. Applied(q.row, "refunded", None, q.amount) \in PurchaseRow
    BY <1>0, <2>1, AppliedRow
  <2> QED
    BY <1>7, <2>2 DEF RecordRefund, TypeOK, provider
<1>8. CASE CreateManualSale(r)
  <2>1. PICK p \in Purchases, a \in Accounts \cup {None} : purchase' =
          [purchase EXCEPT ![p] = [NoPurchase EXCEPT !.status = "approved", !.source = "manual",
                                                     !.account = a, !.approvedAt = TRUE]]
    BY <1>8 DEF CreateManualSale
  <2>2. [NoPurchase EXCEPT !.status = "approved", !.source = "manual",
                           !.account = a, !.approvedAt = TRUE] \in PurchaseRow
    BY NothingTyped DEF PurchaseRow, Statuses
  <2> QED
    BY <1>8, <2>1, <2>2 DEF CreateManualSale, TypeOK, provider
<1>9. CASE VoidVoucher(r)
  <2>1. \A v \in Vouchers : [voucher[v] EXCEPT !.status = "void"] \in VoucherRow
    BY DEF TypeOK, VoucherRow
  <2> QED
    BY <1>9, <2>1 DEF VoidVoucher, TypeOK, provider
<1>10. CASE InsertVoucher(r)
  <2>1. [status |-> "issued", number |-> q.number, purchase |-> q.purchase,
         by |-> IssuedBy(q), sent |-> 0] \in VoucherRow
    BY <1>0 DEF VoucherRow, IssuedBy, Subject, Subjects
  <2> QED
    BY <1>10, <2>1 DEF InsertVoucher, TypeOK, provider
<1>11. CASE SendVoucher(r)
  BY <1>11 DEF SendVoucher, TypeOK, tables, provider
<1>12. CASE RecordSent(r)
  <2>1. \A v \in Vouchers : [voucher[v] EXCEPT !.sent = q.count + 1] \in VoucherRow
    BY <1>0 DEF TypeOK, VoucherRow
  <2> QED
    BY <1>12, <2>1 DEF RecordSent, TypeOK, provider
<1>13. CASE BeginCheckout(r) \/ BeginNotify(r) \/ BeginRefund(r) \/ BeginIssue(r) \/ BeginVoid(r)
            \/ BeginResend(r) \/ FindPurchase(r) \/ FindExistingVoucher(r) \/ FindLiveVoucher(r)
            \/ CountVouchers(r) \/ Fail(r)
  BY <1>1, <1>13 DEF BeginCheckout, BeginNotify, BeginRefund, BeginIssue, BeginVoid, BeginResend, FindPurchase, FindExistingVoucher, FindLiveVoucher, CountVouchers, Fail
<1> QED
  BY <1>2, <1>3, <1>4, <1>5, <1>6, <1>7, <1>8, <1>9, <1>10, <1>11, <1>12, <1>13 DEF Step, Begin, Continue

-----------------------------------------------------------------------------
(* What no step undoes. *)

\* A payment keeps its sale, what settled stays settled and what was given back stays so; a
\* sale keeps its source; refunds, events, vouchers, deliveries and numbers only grow.
Grows ==
    /\ \A x \in Payments :
         /\ payment[x].purchase # None => payment'[x].purchase = payment[x].purchase
         /\ payment[x].settled => payment'[x].settled
         /\ payment[x].status = "refunded" => payment'[x].status = "refunded"
    /\ \A p \in Purchases : Recorded(p) => /\ purchase'[p].status # "none"
                                           /\ purchase'[p].source = purchase[p].source
    /\ refunds \subseteq refunds' /\ events \subseteq events' /\ offered \subseteq offered'
    /\ \A v \in Vouchers : /\ voucher[v].status # "none" => voucher'[v].status # "none"
                           /\ mailed[v] <= mailed'[v]

\* A statement of one invocation undoes none of it.
LEMMA StepGrows ==
    ASSUME TypeOK, NEW r \in Reqs, Hand(req[r]), Step(r)
    PROVE  Grows
<1> DEFINE q == req[r]
<1> USE DEF Grows, Recorded
<1>0. /\ q \in Request /\ q.purchase \in Purchases \cup {None} /\ q.payment \in Payments \cup {None}
      /\ q.status \in Statuses \cup {"none"} /\ q.row \in PurchaseRow
      /\ q.amount \in Amounts \cup {None} /\ q.voucher \in Vouchers \cup {None}
      /\ \A v \in Vouchers : mailed[v] \in Nat
  BY RequestFields DEF TypeOK
<1>1. ASSUME UNCHANGED <<tables, provider, mailed>>
      PROVE  Grows
  BY <1>0, <1>1 DEF tables, provider
<1>2. CASE CreatePendingPurchase(r)
  <2>1. PICK p \in Purchases : ~Recorded(p) /\ purchase' =
          [purchase EXCEPT ![p] = [NoPurchase EXCEPT !.status = "pending", !.account = q.account]]
    BY <1>2 DEF CreatePendingPurchase
  <2>2. \A x \in Purchases \ {p} : purchase'[x] = purchase[x]
    BY <2>1 DEF TypeOK
  <2>3. UNCHANGED <<events, voucher, offered, payment, refunds, mailed>>
    BY <1>2 DEF CreatePendingPurchase, provider
  <2> QED
    BY <1>0, <2>1, <2>2, <2>3
<1>3. CASE CreatePreference(r)
  BY <1>0, <1>3 DEF CreatePreference, tables
<1>4. CASE ClaimEvent(r)
  BY <1>0, <1>4, ClaimPayments
<1>5. CASE ApplyNotified(r)
  <2>1. /\ q.payment \in Payments \cup {None} /\ q.status \in Statuses /\ "total" \in Amounts
        /\ q.purchase \in Purchases /\ purchase[q.purchase].source = q.row.source
    BY <1>0, <1>5 DEF ApplyNotified, At, Hand, NotifyInHand, RowInHand, Amounts
  <2>2. /\ Applied(q.row, q.status, q.payment, "total").source = q.row.source
        /\ Applied(q.row, q.status, q.payment, "total").status = q.status
    <3>1. q.row \in PurchaseRow /\ q.status \in Statuses /\ q.payment \in Payments \cup {None} /\ "total" \in Amounts
      BY <1>0, <2>1
    <3> HIDE DEF q
    <3> QED
      BY <3>1, AppliedRow
  <2>3. /\ purchase' = [purchase EXCEPT ![q.purchase] = Applied(q.row, q.status, q.payment, "total")]
        /\ UNCHANGED <<events, voucher, offered, payment, refunds, mailed>>
    BY <1>5 DEF ApplyNotified, provider
  <2>4. q.status # "none"
    BY <2>1 DEF Statuses
  <2> QED
    BY <1>0, <2>1, <2>2, <2>3, <2>4 DEF TypeOK
<1>6. CASE RefundPayment(r)
  <2>1. /\ UNCHANGED <<purchase, events, voucher, offered, mailed>>
        /\ refunds \subseteq refunds'
        /\ \/ UNCHANGED payment
           \/ payment' = [payment EXCEPT ![q.payment] = [payment[q.payment] EXCEPT !.status = "refunded"]]
           \/ payment' = [payment EXCEPT ![q.payment] = [payment[q.payment] EXCEPT !.status = payment[q.payment].status]]
    BY <1>6 DEF RefundPayment, tables
  <2>2. \A x \in Payments : /\ payment'[x].purchase = payment[x].purchase
                            /\ payment'[x].settled = payment[x].settled
                            /\ payment'[x].status \in {payment[x].status, "refunded"}
    BY <2>1 DEF TypeOK, PaymentRecord
  <2> QED
    BY <1>0, <2>1, <2>2
<1>7. CASE RecordRefund(r)
  <2>1. /\ q.amount \in Amounts /\ "refunded" \in Statuses
        /\ q.purchase \in Purchases /\ purchase[q.purchase].source = q.row.source
    BY <1>0, <1>7 DEF RecordRefund, At, Hand, RefundInHand, RowInHand, Statuses
  <2>2. /\ Applied(q.row, "refunded", None, q.amount).source = q.row.source
        /\ Applied(q.row, "refunded", None, q.amount).status = "refunded"
    BY <1>0 DEF Applied, PurchaseRow
  <2>3. /\ purchase' = [purchase EXCEPT ![q.purchase] = Applied(q.row, "refunded", None, q.amount)]
        /\ UNCHANGED <<events, voucher, offered, payment, refunds, mailed>>
    BY <1>7 DEF RecordRefund, provider
  <2> QED
    BY <1>0, <2>1, <2>2, <2>3 DEF TypeOK
<1>8. CASE CreateManualSale(r)
  <2>1. PICK p \in Purchases, a \in Accounts \cup {None} : ~Recorded(p) /\ purchase' =
          [purchase EXCEPT ![p] = [NoPurchase EXCEPT !.status = "approved", !.source = "manual",
                                                     !.account = a, !.approvedAt = TRUE]]
    BY <1>8 DEF CreateManualSale
  <2>2. \A x \in Purchases \ {p} : purchase'[x] = purchase[x]
    BY <2>1 DEF TypeOK
  <2>3. UNCHANGED <<events, voucher, offered, payment, refunds, mailed>>
    BY <1>8 DEF CreateManualSale, provider
  <2> QED
    BY <1>0, <2>1, <2>2, <2>3
<1>9. CASE VoidVoucher(r)
  BY <1>0, <1>9 DEF VoidVoucher, TypeOK, VoucherRow, provider
<1>10. CASE InsertVoucher(r)
  <2>1. UNCHANGED <<purchase, events, offered, payment, refunds, mailed>>
    BY <1>10 DEF InsertVoucher, provider
  <2>2. \/ UNCHANGED voucher
        \/ \E v \in Vouchers \ Written : voucher' = [voucher EXCEPT ![v] =
             [status |-> "issued", number |-> q.number, purchase |-> q.purchase,
              by |-> IssuedBy(q), sent |-> 0]]
    BY <1>10, InsertVoucherMoves
  <2> QED
    BY <1>0, <2>1, <2>2 DEF Written, TypeOK
<1>11. CASE SendVoucher(r)
  BY <1>0, <1>11 DEF SendVoucher, TypeOK, tables, provider
<1>12. CASE RecordSent(r)
  BY <1>0, <1>12 DEF RecordSent, TypeOK, VoucherRow, provider
<1>13. CASE BeginCheckout(r) \/ BeginNotify(r) \/ BeginRefund(r) \/ BeginIssue(r) \/ BeginVoid(r)
            \/ BeginResend(r) \/ FindPurchase(r) \/ FindExistingVoucher(r) \/ FindLiveVoucher(r)
            \/ CountVouchers(r) \/ Fail(r)
  BY <1>1, <1>13 DEF BeginCheckout, BeginNotify, BeginRefund, BeginIssue, BeginVoid, BeginResend, FindPurchase, FindExistingVoucher, FindLiveVoucher, CountVouchers, Fail
<1> QED
  BY <1>2, <1>3, <1>4, <1>5, <1>6, <1>7, <1>8, <1>9, <1>10, <1>11, <1>12, <1>13 DEF Step, Begin, Continue

\* The provider's own steps undo none of it either.
LEMMA ProviderGrows ==
    ASSUME TypeOK, MoneyOK, Links, NEW x \in Payments, Pay(x) \/ Decide(x)
    PROVE  /\ Grows /\ RowsTyped' /\ MoneyOK' /\ Links' /\ UNCHANGED <<tables, req, offered, refunds, mailed>>
           /\ \A y \in Payments : payment'[y].purchase # payment[y].purchase =>
                payment[y].status = "none" /\ payment'[y].purchase \in offered
<1>0. /\ payment[x] \in PaymentRecord
      /\ \A v \in Vouchers : mailed[v] \in Nat
      /\ \A p \in Purchases : purchase[p].payment \in Payments \cup {None}
  BY DEF TypeOK, PurchaseRow
<1>1. CASE Pay(x)
  <2>1. PICK p \in offered, verdict \in {"in_process", "approved"} :
          payment' = [payment EXCEPT ![x] = [status |-> verdict, purchase |-> p,
                                             settled |-> verdict = "approved",
                                             answered |-> FALSE]]
    BY <1>1 DEF Pay
  <2>2. /\ payment[x].status = "none" /\ payment[x].purchase = None /\ ~payment[x].settled
        /\ UNCHANGED <<tables, req, offered, refunds, mailed>> /\ p \in Purchases /\ p # None
    BY <1>1, SalesAssumption DEF Pay, MoneyOK, TypeOK
  <2>3. /\ payment'[x].purchase = p /\ payment'[x].status = verdict
        /\ verdict = "approved" => payment'[x].settled
        /\ \A y \in Payments \ {x} : payment'[y] = payment[y]
    BY <2>1 DEF TypeOK
  <2>4. payment' \in [Payments -> PaymentRecord]
    <3>1. \A b \in BOOLEAN : [status |-> verdict, purchase |-> p, settled |-> b,
                              answered |-> FALSE] \in PaymentRecord
      BY <2>2 DEF PaymentRecord, ProviderStatuses
    <3>2. (verdict = "approved") \in BOOLEAN
      OBVIOUS
    <3>3. [status |-> verdict, purchase |-> p, settled |-> verdict = "approved",
           answered |-> FALSE] \in PaymentRecord
      BY <3>1, <3>2
    <3> QED
      BY <2>1, <3>3 DEF TypeOK
  <2>5. Grows
    BY <1>0, <2>2, <2>3 DEF Grows, tables, Recorded
  <2>6. Links'
    BY <1>0, <2>2, <2>3, SalesAssumption DEF Links, tables, Recorded
  <2>7. MoneyOK'
    BY <2>2, <2>3 DEF MoneyOK
  <2> QED
    BY <2>2, <2>3, <2>4, <2>5, <2>6, <2>7 DEF RowsTyped, TypeOK, tables
<1>2. CASE Decide(x)
  <2>1. PICK verdict \in Verdicts[payment[x].status], b \in BOOLEAN :
          payment' = [payment EXCEPT ![x] = [payment[x] EXCEPT !.status = verdict,
                                             !.answered = FALSE, !.settled = b]]
                  /\ (payment[x].settled => b) /\ (verdict = "approved" => b)
    <3>1. PICK verdict \in Verdicts[payment[x].status] :
            payment' = [payment EXCEPT ![x] = [payment[x] EXCEPT !.status = verdict,
                          !.answered = FALSE, !.settled = payment[x].settled \/ verdict = "approved"]]
      BY <1>2 DEF Decide
    <3>2. (payment[x].settled \/ verdict = "approved") \in BOOLEAN
      OBVIOUS
    <3>3. /\ payment[x].settled => (payment[x].settled \/ verdict = "approved")
          /\ verdict = "approved" => (payment[x].settled \/ verdict = "approved")
      OBVIOUS
    <3>4. WITNESS verdict \in Verdicts[payment[x].status],
                  (payment[x].settled \/ verdict = "approved") \in BOOLEAN
    <3> QED
      BY <3>1, <3>3, Zenon
  <2>2. /\ payment[x].status \in {"in_process", "approved", "in_mediation"}
        /\ verdict \in ProviderStatuses \ {"none"}
        /\ verdict = "in_mediation" => payment[x].settled
        /\ UNCHANGED <<tables, req, offered, refunds, mailed>>
    <3>1. /\ DOMAIN Verdicts = {"in_process", "approved", "in_mediation"}
          /\ Verdicts["in_process"] = {"approved", "rejected"}
          /\ Verdicts["approved"] = {"in_mediation", "refunded", "charged_back"}
          /\ Verdicts["in_mediation"] = {"approved", "refunded", "charged_back"}
      BY DEF Verdicts
    <3>2. payment[x].status \in DOMAIN Verdicts /\ UNCHANGED <<tables, req, offered, refunds, mailed>>
      BY <1>2 DEF Decide
    <3>3. /\ verdict \in ProviderStatuses \ {"none"}
          /\ verdict = "in_mediation" => payment[x].status = "approved"
      BY <2>1, <3>1, <3>2 DEF ProviderStatuses
    <3> QED
      BY <3>1, <3>2, <3>3 DEF MoneyOK
  <2>3. /\ payment'[x].purchase = payment[x].purchase /\ payment'[x].status = verdict
        /\ payment'[x].settled = b
        /\ \A y \in Payments \ {x} : payment'[y] = payment[y]
    BY <1>0, <2>1, <2>2 DEF TypeOK, PaymentRecord
  <2>4. payment' \in [Payments -> PaymentRecord]
    <3>1. [payment[x] EXCEPT !.status = verdict, !.answered = FALSE, !.settled = b] \in PaymentRecord
      BY <1>0, <2>2, Zenon DEF PaymentRecord
    <3> QED
      BY <2>1, <3>1 DEF TypeOK
  <2>5. Grows
    BY <1>0, <2>1, <2>2, <2>3 DEF Grows, tables, Recorded
  <2>6. Links'
    BY <1>0, <2>2, <2>3 DEF Links, tables, Recorded
  <2>7. MoneyOK'
    BY <2>1, <2>2, <2>3 DEF MoneyOK
  <2> QED
    BY <2>2, <2>3, <2>4, <2>5, <2>6, <2>7 DEF RowsTyped, TypeOK, tables
<1> QED
  BY <1>1, <1>2

-----------------------------------------------------------------------------
(* Vouchers and their numbers. *)

\* What a step leaves of a voucher: it may be voided, and sent once more.
Kept ==
    \A v \in Vouchers :
        /\ voucher'[v].number = voucher[v].number /\ voucher'[v].by = voucher[v].by
        /\ voucher'[v].purchase = voucher[v].purchase
        /\ \/ voucher'[v].status = voucher[v].status
           \/ voucher[v].status = "issued" /\ voucher'[v].status = "void"

\* A voucher is written by one action only, under a number that is free.
Writes(r, v) ==
    /\ v \notin Written /\ req[r].stage = "insert" /\ ~Taken(req[r].number)
    /\ voucher' = [voucher EXCEPT ![v] =
         [status |-> "issued", number |-> req[r].number, purchase |-> req[r].purchase,
          by |-> IssuedBy(req[r]), sent |-> 0]]

\* A step keeps the vouchers there are; only one is changed, and one may be new.
LEMMA StepVouchers ==
    ASSUME TypeOK, NEW r \in Reqs, Hand(req[r]), Step(r)
    PROVE  \/ UNCHANGED voucher
           \/ \E v \in Vouchers : voucher' = [voucher EXCEPT ![v].status = "void"]
                                  /\ voucher[v].status # "none"
           \/ \E v \in Vouchers, n \in Nat : voucher' = [voucher EXCEPT ![v].sent = n]
           \/ \E v \in Vouchers : Writes(r, v)
<1>0. req[r] \in Request /\ req[r].voucher \in Vouchers \cup {None} /\ req[r].count \in Nat
  BY RequestFields DEF TypeOK
<1>1. CASE VoidVoucher(r)
  <2>1. req[r].voucher \in Vouchers /\ voucher[req[r].voucher].status # "none"
    BY <1>0, <1>1 DEF VoidVoucher, At, Hand, VoucherInHand
  <2> QED
    BY <1>1, <2>1 DEF VoidVoucher
<1>2. CASE RecordSent(r)
  <2>1. req[r].voucher \in Vouchers /\ req[r].count + 1 \in Nat
    BY <1>0, <1>2 DEF RecordSent, At, Hand, VoucherInHand
  <2>2. voucher' = [voucher EXCEPT ![req[r].voucher].sent = req[r].count + 1]
    BY <1>2 DEF RecordSent
  <2> QED
    BY <2>1, <2>2
<1>3. CASE InsertVoucher(r)
  BY <1>3, InsertVoucherMoves DEF Writes
<1>4. CASE ~(VoidVoucher(r) \/ RecordSent(r) \/ InsertVoucher(r))
  <2>1. UNCHANGED voucher
    BY <1>4 DEF Step, Begin, Continue, Fail, tables, BeginCheckout, BeginNotify, BeginRefund, CreateManualSale, BeginIssue, BeginVoid, BeginResend, CreatePendingPurchase, CreatePreference, FindPurchase, ClaimEvent, ApplyNotified, RefundPayment, RecordRefund, FindExistingVoucher, FindLiveVoucher, CountVouchers, SendVoucher
  <2> QED
    BY <2>1
<1> QED
  BY <1>1, <1>2, <1>3, <1>4

\* Vouchers that are kept are the same ones.
LEMMA KeptOrWritten ==
    ASSUME TypeOK, NEW r \in Reqs, Hand(req[r]), Step(r)
    PROVE  \/ Kept /\ Written' = Written
           \/ \E v \in Vouchers : /\ Writes(r, v) /\ Written' = Written \cup {v}
                                  /\ voucher'[v].number = req[r].number
                                  /\ voucher'[v].by = IssuedBy(req[r])
                                  /\ voucher'[v].status = "issued" /\ voucher'[v].sent = 0
                                  /\ voucher'[v].purchase = req[r].purchase
                                  /\ \A w \in Vouchers \ {v} : voucher'[w] = voucher[w]
<1>0. \A v \in Vouchers : voucher[v] \in VoucherRow
  BY DEF TypeOK
<1>1. CASE UNCHANGED voucher
  BY <1>1 DEF Kept, Written
<1>2. ASSUME NEW v \in Vouchers, voucher[v].status # "none",
             voucher' = [voucher EXCEPT ![v].status = "void"]
      PROVE  Kept /\ Written' = Written
  <2>1. \A w \in Vouchers \ {v} : voucher'[w] = voucher[w]
    BY <1>2 DEF TypeOK
  <2>2. /\ voucher'[v].number = voucher[v].number /\ voucher'[v].by = voucher[v].by
        /\ voucher'[v].purchase = voucher[v].purchase /\ voucher'[v].status = "void"
        /\ voucher[v].status \in {"issued", "void"}
    BY <1>0, <1>2 DEF TypeOK, VoucherRow
  <2> QED
    BY <1>2, <2>1, <2>2 DEF Kept, Written
<1>3. ASSUME NEW v \in Vouchers, NEW n \in Nat, voucher' = [voucher EXCEPT ![v].sent = n]
      PROVE  Kept /\ Written' = Written
  <2>1. \A w \in Vouchers \ {v} : voucher'[w] = voucher[w]
    BY <1>3 DEF TypeOK
  <2>2. /\ voucher'[v].number = voucher[v].number /\ voucher'[v].by = voucher[v].by
        /\ voucher'[v].purchase = voucher[v].purchase /\ voucher'[v].status = voucher[v].status
    BY <1>0, <1>3 DEF TypeOK, VoucherRow
  <2> QED
    BY <2>1, <2>2 DEF Kept, Written
<1>4. ASSUME NEW v \in Vouchers, Writes(r, v)
      PROVE  /\ Written' = Written \cup {v}
             /\ voucher'[v].number = req[r].number /\ voucher'[v].by = IssuedBy(req[r])
             /\ voucher'[v].status = "issued" /\ voucher'[v].sent = 0
             /\ voucher'[v].purchase = req[r].purchase
             /\ \A w \in Vouchers \ {v} : voucher'[w] = voucher[w]
  <2>1. voucher' = [voucher EXCEPT ![v] =
          [status |-> "issued", number |-> req[r].number, purchase |-> req[r].purchase,
           by |-> IssuedBy(req[r]), sent |-> 0]]
    BY <1>4 DEF Writes
  <2>2. \A w \in Vouchers \ {v} : voucher'[w] = voucher[w]
    BY <2>1 DEF TypeOK
  <2>3. /\ voucher'[v].number = req[r].number /\ voucher'[v].by = IssuedBy(req[r])
        /\ voucher'[v].status = "issued" /\ voucher'[v].sent = 0
        /\ voucher'[v].purchase = req[r].purchase
    BY <2>1 DEF TypeOK
  <2> QED
    BY <2>2, <2>3 DEF Written
<1> QED
  BY <1>1, <1>2, <1>3, <1>4, StepVouchers

\* The numbers in use stay the first ones: what is free and at most the next is the next.
LEMMA NumbersStep ==
    ASSUME TypeOK, NumbersOK, NEW r \in Reqs, Hand(req[r]), Step(r)
    PROVE  NumbersOK' /\ NextVoucherNumber \in Nat /\ NextVoucherNumber' \in Nat
           /\ NextVoucherNumber <= NextVoucherNumber'
<1> DEFINE N == Cardinality(Written)
<1>0. N \in Nat /\ IsFiniteSet(Written)
  BY FS_CardinalityType DEF NumbersOK
<1>1. CASE Kept /\ Written' = Written
  <2>1. \A v \in Written : v \in Vouchers /\ voucher'[v].number = voucher[v].number
    BY <1>1 DEF Written, Kept
  <2> QED
    BY <1>0, <1>1, <2>1 DEF NumbersOK, Taken, NextVoucherNumber
<1>2. ASSUME NEW v \in Vouchers, Writes(r, v), Written' = Written \cup {v},
             voucher'[v].number = req[r].number,
             \A w \in Vouchers \ {v} : voucher'[w] = voucher[w]
      PROVE  NumbersOK' /\ Cardinality(Written') = N + 1
  <2>1. req[r].number \in 1 .. N + 1 /\ v \notin Written
    BY <1>2 DEF Writes, Hand, VoucherInHand, NextVoucherNumber
  <2>2. req[r].number = N + 1
    BY <1>0, <1>2, <2>1 DEF NumbersOK, Writes
  <2>3. IsFiniteSet(Written') /\ Cardinality(Written') = N + 1
    BY <1>0, <1>2, <2>1, FS_AddElement
  <2>4. \A w \in Written : voucher'[w].number = voucher[w].number
    BY <1>2, <2>1 DEF Written
  <2>5. \A w \in Written' : voucher'[w].number \in 1 .. Cardinality(Written')
    BY <1>0, <1>2, <2>2, <2>3, <2>4 DEF NumbersOK
  <2>6. \A n \in 1 .. Cardinality(Written') : Taken(n)'
    <3>1. \A n \in 1 .. N : \E w \in Written : voucher[w].number = n
      BY DEF NumbersOK, Taken
    <3>2. \A n \in 1 .. N + 1 : \E w \in Written' : voucher'[w].number = n
      BY <1>0, <1>2, <2>2, <2>4, <3>1
    <3> QED
      BY <2>3, <3>2 DEF Taken
  <2> QED
    BY <2>3, <2>5, <2>6 DEF NumbersOK
<1> QED
  BY <1>0, <1>1, <1>2, KeptOrWritten DEF NextVoucherNumber

-----------------------------------------------------------------------------
(* What an invocation has in hand. *)

\* What an invocation has in hand stays good while others move.
LEMMA HandStays ==
    ASSUME TypeOK, RowsTyped', Grows, NEW x \in Reqs, Hand(req[x]), req'[x] = req[x],
           NextVoucherNumber \in Nat, NextVoucherNumber' \in Nat,
           NextVoucherNumber <= NextVoucherNumber'
    PROVE  Hand(req[x])'
<1> DEFINE q == req[x]
<1>0. /\ q \in Request /\ q.purchase \in Purchases \cup {None} /\ q.payment \in Payments \cup {None}
      /\ q.row \in PurchaseRow /\ q.row.payment \in Payments \cup {None}
      /\ q.voucher \in Vouchers \cup {None} /\ q.number \in Nat /\ q.count \in Nat
  BY RequestFields DEF TypeOK, PurchaseRow
<1>1. NotifyInHand(req[x])'
  BY <1>0 DEF Hand, NotifyInHand, Grows, Subject
<1>2. RowInHand(req[x])'
  BY <1>0 DEF Hand, RowInHand, Grows, Recorded
<1>3. RefundInHand(req[x])'
  BY <1>0 DEF Hand, RefundInHand, Grows
<1>4. VoucherInHand(req[x])'
  <2>1. \A v \in Vouchers : mailed[v] \in Nat /\ mailed'[v] \in Nat
    BY DEF TypeOK, RowsTyped
  <2>2. /\ q.stage \in {"prefer", "existing", "live", "count", "insert"} => q.purchase # None
        /\ q.stage = "void" => q.kind = "void" \/ q.purchase # None
        /\ q.stage \in {"void", "send", "sent"} =>
             q.voucher # None /\ voucher'[q.voucher].status # "none"
        /\ q.stage \notin {"send", "sent"} => q.count = 0
        /\ q.stage = "idle" => q = NoRequest
        /\ q.stage = "prefer" =>
             purchase'[q.purchase].status # "none" /\ purchase'[q.purchase].source = "mercadopago"
    BY <1>0 DEF Hand, VoucherInHand, Grows, Recorded
  <2>3. q.stage = "insert" => q.number \in 1 .. NextVoucherNumber'
    BY <1>0 DEF Hand, VoucherInHand
  <2>4. /\ q.stage = "send" => q.count <= mailed'[q.voucher]
        /\ q.stage = "sent" => q.count + 1 <= mailed'[q.voucher]
    BY <1>0, <2>1 DEF Hand, VoucherInHand, Grows
  <2> QED
    BY <2>2, <2>3, <2>4 DEF VoucherInHand, Recorded
<1> QED
  BY <1>1, <1>2, <1>3, <1>4 DEF Hand

\* An invocation that has been answered has nothing in hand.
LEMMA AnsweredHand ==
    ASSUME TypeOK, NEW r \in Reqs, Hand(req[r]), NEW o \in Outcomes, Answered(req'[r], req[r], o),
           req[r].stage # "idle"
    PROVE  Hand(req[r])'
<1>1. RefundInHand(req[r])
  BY DEF Hand
<1> QED
  BY <1>1 DEF Answered, Fields, Hand, NotifyInHand, RowInHand, RefundInHand, VoucherInHand

\* What is read back is so: an approval or a refund happened to a payment of the sale named.
LEMMA ResolvedSays ==
    ASSUME TypeOK, MoneyOK, Links, NEW x \in Payments \cup {None}, NEW p \in Purchases \cup {None},
           NEW s \in Statuses, Resolves(x, p, s)
    PROVE  /\ s # "none" /\ (x # None \/ p # None)
           /\ p # None => p \in offered
           /\ x # None => payment[x].purchase # None
           /\ x # None /\ p # None => payment[x].purchase = p
           /\ s = "approved" => p # None /\ \E y \in Payments : payment[y].purchase = p /\ payment[y].settled
           /\ s = "refunded" => p # None /\ \E y \in Payments : payment[y].purchase = p /\ payment[y].status = "refunded"
<1>0. s # "none" /\ None \notin Payments \cup Purchases /\ offered \subseteq Purchases
  BY SalesAssumption DEF Statuses, TypeOK
<1>1. CASE ResolvesPayment(x, p, s)
  <2>1. /\ x \in Payments /\ payment[x].status # "none" /\ p = payment[x].purchase
        /\ s = MapPaymentStatus(payment[x].status)
    BY <1>1 DEF ResolvesPayment
  <2>2. /\ s = "approved" => payment[x].status = "approved"
        /\ s = "refunded" => payment[x].status = "refunded"
    BY <2>1 DEF MapPaymentStatus
  <2> QED
    BY <1>0, <2>1, <2>2 DEF MoneyOK, Links
<1>2. CASE ResolvesOrder(x, p, s)
  <2>1. p \in offered /\ p # None /\ (x # None => x \in Payments /\ payment[x].purchase = p)
    BY <1>0, <1>2 DEF ResolvesOrder, PaymentsOf
  <2>2. PICK state \in OrderStates(p) : s = MapOrderStatus(state)
    BY <1>2 DEF ResolvesOrder
  <2>3. CASE PaymentsOf(p) = {}
    <3>1. state = "created"
      BY <2>2, <2>3 DEF OrderStates
    <3>2. s = "pending"
      BY <2>2, <3>1 DEF MapOrderStatus
    <3> QED
      BY <1>0, <2>1, <3>2
  <2>4. CASE PaymentsOf(p) # {}
    <3> DEFINE words == [in_process |-> "processing", approved |-> "processed",
                  in_mediation |-> "processed", rejected |-> "failed",
                  refunded |-> "refunded", charged_back |-> "charged_back"]
    <3>1. PICK y \in PaymentsOf(p) : state = words[payment[y].status]
      BY <2>2, <2>4 DEF OrderStates
    <3>2. y \in Payments /\ payment[y].purchase = p
      BY <3>1 DEF PaymentsOf
    <3>3. payment[y].status \in ProviderStatuses \ {"none"}
      BY <2>1, <3>2 DEF MoneyOK, TypeOK, PaymentRecord
    <3>4. \/ payment[y].status = "in_process" /\ state = "processing" /\ s = "in_process"
          \/ payment[y].status \in {"approved", "in_mediation"} /\ state = "processed" /\ s = "approved"
          \/ payment[y].status = "rejected" /\ state = "failed" /\ s = "rejected"
          \/ payment[y].status = "refunded" /\ state = "refunded" /\ s = "refunded"
          \/ payment[y].status = "charged_back" /\ state = "charged_back" /\ s = "charged_back"
      BY <2>2, <3>1, <3>3 DEF ProviderStatuses, MapOrderStatus
    <3> QED
      BY <1>0, <2>1, <3>2, <3>4 DEF MoneyOK
  <2> QED
    BY <2>3, <2>4
<1>3. CASE ResolvesChargeback(x, p, s)
  <2>1. x \in Payments /\ payment[x].status = "charged_back" /\ p = None /\ s = "charged_back"
    BY <1>3 DEF ResolvesChargeback
  <2> QED
    BY <1>0, <2>1 DEF MoneyOK
<1> QED
  BY <1>1, <1>2, <1>3 DEF Resolves

\* What the rules say of the invocation that takes a step is true after it.
LEMMA StepHand ==
    ASSUME TypeOK, MoneyOK, Links, SentCountNeverLies, NEW r \in Reqs, Hand(req[r]), Ready(r), Step(r),
           RowsTyped', Grows, NumbersOK, NextVoucherNumber \in Nat,
           NextVoucherNumber <= NextVoucherNumber'
    PROVE  Hand(req[r])'
<1> DEFINE q == req[r]
<1> USE DEF Ready
<1>0. /\ q \in Request /\ q.purchase \in Purchases \cup {None} /\ q.payment \in Payments \cup {None}
      /\ q.row \in PurchaseRow /\ q.row.payment \in Payments \cup {None}
      /\ q.voucher \in Vouchers \cup {None} /\ q.number \in Nat /\ q.count \in Nat
      /\ None \notin Payments \cup Purchases \cup Vouchers
      /\ NoPurchase.payment = None /\ {"ok", "failed"} \subseteq Outcomes
      /\ q.status \in Statuses \cup {"none"}
  BY RequestFields, SalesAssumption DEF TypeOK, PurchaseRow, NoPurchase, Outcomes
<1>1. CASE \E o \in Outcomes : Answered(req'[r], q, o) /\ q.stage # "idle"
  BY <1>1, AnsweredHand
<1>2. CASE BeginCheckout(r)
  BY <1>2, BeginCheckoutMoves DEF Fields, Hand, NotifyInHand, RowInHand, RefundInHand, VoucherInHand
<1>3. CASE BeginNotify(r)
  <2>1. PICK x \in Payments \cup {None}, p \in Purchases \cup {None}, s \in Statuses :
             /\ Resolves(x, p, s)
             /\ Fields(req'[r], "notify", "lookup", "none", None, p, x, s, NoPurchase, None,
                    None, 0, 0, 0)
    BY <1>3, BeginNotifyMoves
  <2>2. UNCHANGED <<payment, offered>>
    BY <1>3 DEF BeginNotify, provider
  <2>3. /\ s # "none" /\ (x # None \/ p # None)
        /\ p # None => p \in offered
        /\ x # None => payment[x].purchase # None
        /\ x # None /\ p # None => payment[x].purchase = p
        /\ s = "approved" => p # None /\ \E y \in Payments : payment[y].purchase = p /\ payment[y].settled
        /\ s = "refunded" => p # None /\ \E y \in Payments : payment[y].purchase = p /\ payment[y].status = "refunded"
    BY <2>1, ResolvedSays
  <2>4. NotifyInHand(req[r])'
    BY <1>0, <2>1, <2>2, <2>3 DEF Fields, NotifyInHand, Subject
  <2>5. RowInHand(req[r])' /\ RefundInHand(req[r])' /\ VoucherInHand(req[r])'
    BY <1>0, <2>1 DEF Fields, RowInHand, RefundInHand, VoucherInHand
  <2> QED
    BY <2>4, <2>5 DEF Hand
<1>4. CASE BeginRefund(r)
  <2>1. PICK p \in Purchases, amount \in Amounts :
             /\ purchase[p].status = "approved"
             /\ purchase[p].source = "manual" \/ purchase[p].payment # None
             /\ Fields(req'[r], "refund", RefundStage(purchase[p]), "none", None, p,
                    purchase[p].payment, "none", purchase[p], amount, None, 0, 0, 0)
    BY <1>4, BeginRefundMoves
  <2>2. UNCHANGED <<payment, purchase>> /\ amount # None
    <3>1. "part" # None /\ "total" # None
      BY SalesAssumption DEF Amounts
    <3> QED
      BY <1>4, <3>1 DEF BeginRefund, provider, tables, Amounts
  <2>3. /\ purchase[p].payment # None => payment[purchase[p].payment].purchase = p
        /\ p # None /\ Recorded(p)
        /\ \/ RefundStage(purchase[p]) = "record" /\ purchase[p].source = "manual"
           \/ RefundStage(purchase[p]) = "ask" /\ purchase[p].source # "manual"
    BY <1>0, <2>1 DEF Links, RefundStage, Recorded
  <2> QED
    BY <2>1, <2>2, <2>3 DEF Fields, Hand, NotifyInHand, RowInHand, RefundInHand, VoucherInHand, Recorded
<1>5. CASE CreateManualSale(r)
  <2>1. PICK p \in Purchases, stage \in {"live", "done"} :
             Fields(req'[r], "manual", stage, (IF stage = "done" THEN "ok" ELSE "none"),
                    None, p, None, "none", NoPurchase, None, None, 0, 0, 0)
    BY <1>5, CreateManualSaleMoves
  <2>2. p # None
    BY <1>0
  <2> QED
    BY <2>1, <2>2 DEF Fields, Hand, NotifyInHand, RowInHand, RefundInHand, VoucherInHand
<1>6. CASE BeginIssue(r)
  BY <1>0, <1>6, BeginIssueMoves DEF Fields, Hand, NotifyInHand, RowInHand, RefundInHand, VoucherInHand
<1>7. CASE BeginVoid(r)
  BY <1>0, <1>7, BeginVoidMoves DEF Fields, Hand, NotifyInHand, RowInHand, RefundInHand, VoucherInHand, Grows
<1>8. CASE BeginResend(r)
  <2>1. PICK v \in Vouchers :
             /\ voucher[v].status = "issued"
             /\ Fields(req'[r], "resend", "send", "none", None, None, None, "none",
                    NoPurchase, None, v, 0, 0, voucher[v].sent)
    BY <1>8, BeginResendMoves
  <2>2. UNCHANGED <<voucher, mailed>> /\ voucher[v].sent <= mailed[v] /\ v # None
    BY <1>0, <1>8, <2>1 DEF BeginResend, tables, SentCountNeverLies, Written
  <2> QED
    BY <2>1, <2>2 DEF Fields, Hand, NotifyInHand, RowInHand, RefundInHand, VoucherInHand
<1>9. CASE CreatePendingPurchase(r)
  <2>1. PICK p \in Purchases :
             /\ purchase' = [purchase EXCEPT ![p] = [NoPurchase EXCEPT !.status = "pending",
                                                                     !.account = req[r].account]]
             /\ Fields(req'[r], req[r].kind, "prefer", req[r].outcome, req[r].account, p,
                    req[r].payment, req[r].status, req[r].row, req[r].amount, req[r].voucher,
                    req[r].number, req[r].tries, req[r].count)
    BY <1>9, CreatePendingPurchaseMoves
  <2>2. purchase'[p].status = "pending" /\ purchase'[p].source = "mercadopago" /\ p # None
    BY <1>0, <2>1 DEF TypeOK, NoPurchase
  <2>3. q.stage = "pend"
    BY <1>9 DEF CreatePendingPurchase, At
  <2> QED
    BY <2>1, <2>2, <2>3 DEF Fields, Hand, NotifyInHand, RowInHand, RefundInHand, VoucherInHand, Recorded
<1>10. CASE FindPurchase(r)
  <2>1. q.stage = "lookup" /\ UNCHANGED <<purchase, payment, offered>>
    BY <1>10 DEF FindPurchase, At, tables, provider
  <2>2. /\ NotifyInHand(q) /\ q.row = NoPurchase
        /\ q.purchase = None => q.payment # None
    BY <2>1 DEF Hand, NotifyInHand, Subject
  <2>3. ASSUME NEW p \in Purchases,
                   IF req[r].purchase # None THEN p = req[r].purchase
                   ELSE purchase[p].payment = req[r].payment,
                   Fields(req'[r], req[r].kind, "claim", req[r].outcome, req[r].account, p,
                             req[r].payment, req[r].status, purchase[p], req[r].amount,
                             req[r].voucher, req[r].number, req[r].tries, req[r].count)
        PROVE  Hand(req[r])'
    <3>1. q.payment # None => payment[q.payment].purchase = p
      BY <2>1, <2>2, <2>3 DEF Links, NotifyInHand
    <3>2. p # None /\ p \in offered /\ Recorded(p)
      BY <1>0, <2>1, <2>2, <2>3, <3>1 DEF Links, NotifyInHand
    <3>3. purchase[p].payment # None => payment[purchase[p].payment].purchase = p
      BY DEF Links
    <3>4. q.status \in {"approved", "refunded"} => p = q.purchase
      BY <2>1, <2>2, <2>3 DEF NotifyInHand
    <3>5. NotifyInHand(req[r])'
      BY <1>0, <2>1, <2>2, <2>3, <3>1, <3>2, <3>4 DEF Fields, NotifyInHand, Subject
    <3>6. RowInHand(req[r])' /\ RefundInHand(req[r])' /\ VoucherInHand(req[r])'
      BY <2>1, <2>2, <2>3, <3>2, <3>3 DEF Fields, Hand, NotifyInHand, RowInHand, RefundInHand, VoucherInHand, Recorded
    <3> QED
      BY <3>5, <3>6 DEF Hand
  <2>4. CASE q.purchase = None /\ Goes(req'[r], req[r], "claim")
    <3>1. NotifyInHand(req[r])'
      BY <1>0, <2>1, <2>2, <2>4 DEF Goes, Fields, NotifyInHand, Subject
    <3> QED
      BY <1>0, <2>1, <2>2, <2>4, <3>1 DEF Goes, Fields, Hand, RowInHand, RefundInHand, VoucherInHand
  <2> QED
    BY <1>10, <2>3, <2>4, FindPurchaseMoves
<1>11. CASE ClaimEvent(r)
  <2>1. CASE q.purchase # None /\ Goes(req'[r], req[r], "apply")
    <3>1. q.stage = "claim"
      BY <1>11, ClaimEventMoves
    <3>2. NotifyInHand(req[r])'
      BY <1>0, <2>1, <3>1 DEF Goes, Fields, Hand, NotifyInHand, Grows, Subject
    <3>3. RowInHand(req[r])'
      BY <1>0, <2>1, <3>1 DEF Goes, Fields, Hand, RowInHand, Grows, Recorded
    <3>4. RefundInHand(req[r])' /\ VoucherInHand(req[r])'
      BY <1>0, <2>1, <3>1 DEF Goes, Fields, Hand, RefundInHand, VoucherInHand
    <3> QED
      BY <3>2, <3>3, <3>4 DEF Hand
  <2> QED
    BY <1>0, <1>1, <1>11, <2>1, ClaimEventMoves
<1>12. CASE ApplyNotified(r)
  <2>1. CASE Goes(req'[r], req[r], "existing")
    BY <1>0, <1>12, <2>1, ApplyNotifiedMoves DEF Goes, Fields, Hand, NotifyInHand, RowInHand, RefundInHand, VoucherInHand
  <2> QED
    BY <1>0, <1>1, <1>12, <2>1, ApplyNotifiedMoves
<1>13. CASE RefundPayment(r)
  <2>1. CASE <<q.payment, q.amount>> \in refunds' /\ Goes(req'[r], req[r], "record")
    BY <1>0, <1>13, <2>1, RefundPaymentMoves DEF Goes, Fields, Hand, NotifyInHand, RowInHand, RefundInHand, VoucherInHand, Grows, Recorded
  <2> QED
    BY <1>0, <1>1, <1>13, <2>1, RefundPaymentMoves
<1>14. CASE FindExistingVoucher(r)
  <2>1. CASE Goes(req'[r], req[r], "live")
    BY <1>0, <1>14, <2>1, FindExistingVoucherMoves DEF Goes, Fields, Hand, NotifyInHand, RowInHand, RefundInHand, VoucherInHand
  <2> QED
    BY <1>0, <1>1, <1>14, <2>1, FindExistingVoucherMoves
<1>15. CASE FindLiveVoucher(r)
  <2>1. CASE Goes(req'[r], req[r], "count")
    BY <1>0, <1>15, <2>1, FindLiveVoucherMoves DEF Goes, Fields, Hand, NotifyInHand, RowInHand, RefundInHand, VoucherInHand
  <2>2. ASSUME NEW v \in Vouchers, voucher[v].status = "issued",
               Fields(req'[r], req[r].kind, "void", req[r].outcome, req[r].account,
                             req[r].purchase, req[r].payment, req[r].status, req[r].row,
                             req[r].amount, v, req[r].number, req[r].tries, req[r].count)
        PROVE  Hand(req[r])'
    BY <1>0, <1>15, <2>2, FindLiveVoucherMoves DEF Fields, Hand, NotifyInHand, RowInHand, RefundInHand, VoucherInHand, Grows
  <2> QED
    BY <1>15, <2>1, <2>2, FindLiveVoucherMoves
<1>16. CASE VoidVoucher(r)
  <2>1. CASE q.kind # "void" /\ Goes(req'[r], req[r], "count")
    BY <1>0, <1>16, <2>1, VoidVoucherMoves DEF Goes, Fields, Hand, NotifyInHand, RowInHand, RefundInHand, VoucherInHand
  <2> QED
    BY <1>0, <1>1, <1>16, <2>1, VoidVoucherMoves
<1>17. CASE CountVouchers(r)
  <2>1. NextVoucherNumber \in 1 .. NextVoucherNumber'
    <3>1. UNCHANGED voucher /\ NextVoucherNumber' = NextVoucherNumber
      BY <1>17 DEF CountVouchers, tables, NextVoucherNumber, Written
    <3>2. NextVoucherNumber >= 1
      BY FS_CardinalityType DEF NumbersOK, NextVoucherNumber
    <3> QED
      BY <3>1, <3>2
  <2> HIDE DEF NextVoucherNumber
  <2> QED
    BY <1>0, <1>17, <2>1, CountVouchersMoves DEF Fields, Hand, NotifyInHand, RowInHand, RefundInHand, VoucherInHand
<1>18. CASE InsertVoucher(r)
  <2>1. q.stage = "insert" /\ q.purchase # None /\ q.count = 0
        /\ \A v \in Vouchers : mailed'[v] \in Nat
    BY <1>18, InsertVoucherMoves DEF Hand, VoucherInHand, RowsTyped
  <2>2. ASSUME NEW v \in Vouchers, voucher'[v].status = "issued",
               Fields(req'[r], req[r].kind, "send", req[r].outcome, req[r].account,
                                   req[r].purchase, req[r].payment, req[r].status, req[r].row,
                                   req[r].amount, v, req[r].number, req[r].tries, req[r].count)
        PROVE  Hand(req[r])'
    BY <1>0, <2>1, <2>2 DEF Fields, Hand, NotifyInHand, RowInHand, RefundInHand, VoucherInHand
  <2>3. CASE Fields(req'[r], req[r].kind, "count", req[r].outcome, req[r].account,
                              req[r].purchase, req[r].payment, req[r].status, req[r].row,
                              req[r].amount, req[r].voucher, req[r].number,
                              req[r].tries + 1, req[r].count)
    BY <1>0, <2>1, <2>3 DEF Fields, Hand, NotifyInHand, RowInHand, RefundInHand, VoucherInHand
  <2>4. \A v \in Vouchers : voucher' = [voucher EXCEPT ![v] =
                           [status |-> "issued", number |-> req[r].number,
                            purchase |-> req[r].purchase, by |-> IssuedBy(req[r]), sent |-> 0]]
                    => voucher'[v].status = "issued"
    BY DEF TypeOK
  <2> QED
    BY <1>0, <1>1, <1>18, <2>1, <2>2, <2>3, <2>4, InsertVoucherMoves
<1>19. CASE SendVoucher(r)
  <2>1. CASE mailed' = [mailed EXCEPT ![q.voucher] = @ + 1] /\ Goes(req'[r], req[r], "sent")
    <3>1. /\ q.stage = "send" /\ q.voucher \in Vouchers /\ q.count <= mailed[q.voucher]
          /\ voucher'[q.voucher].status # "none"
      BY <1>0, <1>19, SendVoucherMoves DEF Hand, VoucherInHand, Grows
    <3>2. q.count + 1 <= mailed'[q.voucher]
      <4>1. mailed'[q.voucher] = mailed[q.voucher] + 1 /\ mailed[q.voucher] \in Nat
        BY <2>1, <3>1 DEF TypeOK
      <4> QED
        BY <1>0, <3>1, <4>1
    <3> QED
      BY <1>0, <2>1, <3>1, <3>2 DEF Goes, Fields, Hand, NotifyInHand, RowInHand, RefundInHand, VoucherInHand
  <2> QED
    BY <1>0, <1>1, <1>19, <2>1, SendVoucherMoves
<1>20. CASE CreatePreference(r) \/ RecordRefund(r) \/ RecordSent(r) \/ Fail(r)
  <2>1. q.stage # "idle"
    BY <1>20 DEF CreatePreference, RecordRefund, RecordSent, Fail, At, Resting
  <2> QED
    BY <1>0, <1>1, <1>20, <2>1, CreatePreferenceMoves, RecordRefundMoves, RecordSentMoves, FailMoves
<1> QED
  BY <1>2, <1>3, <1>4, <1>5, <1>6, <1>7, <1>8, <1>9, <1>10, <1>11, <1>12, <1>13, <1>14, <1>15, <1>16, <1>17, <1>18, <1>19, <1>20 DEF Step, Begin, Continue
-----------------------------------------------------------------------------
(* Money. *)

\* A statement moves no payment to another sale, unsettles none, and gives back only what
\* was approved.
LEMMA StepPayments ==
    ASSUME TypeOK, NEW r \in Reqs, Hand(req[r]), Step(r)
    PROVE  \A x \in Payments :
             /\ payment'[x].purchase = payment[x].purchase
             /\ payment'[x].settled = payment[x].settled
             /\ \/ payment'[x].status = payment[x].status
                \/ payment[x].status = "approved" /\ payment'[x].status = "refunded"
<1> DEFINE q == req[r]
<1>1. CASE ClaimEvent(r)
  BY <1>1, ClaimPayments
<1>2. CASE RefundPayment(r)
  <2>1. \/ UNCHANGED payment
        \/ /\ payment' = [payment EXCEPT ![q.payment] = [payment[q.payment] EXCEPT !.status = "refunded"]]
           /\ payment[q.payment].status = "approved"
        \/ payment' = [payment EXCEPT ![q.payment] = [payment[q.payment] EXCEPT !.status = payment[q.payment].status]]
    BY <1>2 DEF RefundPayment
  <2> QED
    BY <2>1 DEF TypeOK, PaymentRecord
<1>3. CASE ~(ClaimEvent(r) \/ RefundPayment(r))
  <2>1. UNCHANGED payment
    BY <1>3 DEF Step, Begin, Continue, Fail, provider, BeginCheckout, BeginNotify, BeginRefund, CreateManualSale, BeginIssue, BeginVoid, BeginResend, CreatePendingPurchase, CreatePreference, FindPurchase, ApplyNotified, RecordRefund, FindExistingVoucher, FindLiveVoucher, VoidVoucher, CountVouchers, InsertVoucher, SendVoucher, RecordSent
  <2> QED
    BY <2>1
<1> QED
  BY <1>1, <1>2, <1>3

\* A sale is written as new, by a notification that applies, or by a refund that records.
WritesSale(r, p) ==
    \/ /\ ~Recorded(p) /\ purchase'[p].payment = None
       /\ \/ purchase'[p].status = "pending" /\ purchase'[p].source = "mercadopago"
          \/ purchase'[p].status = "approved" /\ purchase'[p].source = "manual"
    \/ /\ req[r].stage = "apply" /\ p = req[r].purchase
       /\ purchase'[p].status = req[r].status
       /\ purchase'[p].payment = IF req[r].payment # None THEN req[r].payment ELSE req[r].row.payment
       /\ purchase'[p].source = req[r].row.source
    \/ /\ req[r].stage = "record" /\ p = req[r].purchase
       /\ purchase'[p].status = "refunded" /\ purchase'[p].payment = req[r].row.payment
       /\ purchase'[p].source = req[r].row.source

\* A statement writes one sale at most.
LEMMA StepPurchases ==
    ASSUME TypeOK, NEW r \in Reqs, Hand(req[r]), Step(r)
    PROVE  \/ UNCHANGED purchase
           \/ \E p \in Purchases : /\ \A y \in Purchases \ {p} : purchase'[y] = purchase[y]
                                   /\ WritesSale(r, p)
<1> DEFINE q == req[r]
<1>0. /\ q \in Request /\ q.purchase \in Purchases \cup {None} /\ q.payment \in Payments \cup {None}
      /\ q.status \in Statuses \cup {"none"} /\ q.row \in PurchaseRow
      /\ q.amount \in Amounts \cup {None} /\ "total" \in Amounts /\ "refunded" \in Statuses
  BY RequestFields DEF TypeOK, Amounts, Statuses
<1>1. CASE CreatePendingPurchase(r)
  <2>1. PICK p \in Purchases : ~Recorded(p) /\ purchase' =
          [purchase EXCEPT ![p] = [NoPurchase EXCEPT !.status = "pending", !.account = q.account]]
    BY <1>1 DEF CreatePendingPurchase
  <2>2. \A y \in Purchases \ {p} : purchase'[y] = purchase[y]
    BY <2>1 DEF TypeOK
  <2>3. /\ purchase'[p].payment = None /\ purchase'[p].status = "pending"
        /\ purchase'[p].source = "mercadopago"
    BY <2>1 DEF TypeOK, NoPurchase
  <2> QED
    BY <2>1, <2>2, <2>3 DEF WritesSale
<1>2. CASE CreateManualSale(r)
  <2>1. PICK p \in Purchases, a \in Accounts \cup {None} : ~Recorded(p) /\ purchase' =
          [purchase EXCEPT ![p] = [NoPurchase EXCEPT !.status = "approved", !.source = "manual",
                                                     !.account = a, !.approvedAt = TRUE]]
    BY <1>2 DEF CreateManualSale
  <2>2. \A y \in Purchases \ {p} : purchase'[y] = purchase[y]
    BY <2>1 DEF TypeOK
  <2>3. /\ purchase'[p].payment = None /\ purchase'[p].status = "approved"
        /\ purchase'[p].source = "manual"
    BY <2>1 DEF TypeOK, NoPurchase
  <2> QED
    BY <2>1, <2>2, <2>3 DEF WritesSale
<1>3. CASE ApplyNotified(r)
  <2>1. /\ q.payment \in Payments \cup {None} /\ q.status \in Statuses /\ q.purchase \in Purchases
        /\ q.stage = "apply"
    BY <1>0, <1>3, SalesAssumption DEF ApplyNotified, At, Hand, NotifyInHand
  <2>2. purchase' = [purchase EXCEPT ![q.purchase] = Applied(q.row, q.status, q.payment, "total")]
    BY <1>3 DEF ApplyNotified
  <2>3. /\ Applied(q.row, q.status, q.payment, "total").status = q.status
        /\ Applied(q.row, q.status, q.payment, "total").source = q.row.source
        /\ Applied(q.row, q.status, q.payment, "total").payment =
             IF q.payment # None THEN q.payment ELSE q.row.payment
    <3>1. q.row \in PurchaseRow /\ q.status \in Statuses /\ q.payment \in Payments \cup {None} /\ "total" \in Amounts
      BY <1>0, <2>1
    <3> HIDE DEF q
    <3>2. /\ Applied(q.row, q.status, q.payment, "total").status = q.status
          /\ Applied(q.row, q.status, q.payment, "total").source = q.row.source
      BY <3>1, AppliedRow
    <3>3. Applied(q.row, q.status, q.payment, "total").payment =
            IF q.payment # None THEN q.payment ELSE q.row.payment
      BY <3>1 DEF Applied, PurchaseRow
    <3> QED
      BY <3>2, <3>3
  <2>4. \A y \in Purchases \ {q.purchase} : purchase'[y] = purchase[y]
    BY <2>2 DEF TypeOK
  <2>5. /\ purchase'[q.purchase].status = q.status
        /\ purchase'[q.purchase].payment = IF q.payment # None THEN q.payment ELSE q.row.payment
        /\ purchase'[q.purchase].source = q.row.source
    BY <2>1, <2>2, <2>3 DEF TypeOK
  <2> QED
    BY <2>1, <2>4, <2>5 DEF WritesSale
<1>4. CASE RecordRefund(r)
  <2>1. q.purchase \in Purchases /\ q.stage = "record"
    BY <1>0, <1>4 DEF RecordRefund, At, Hand, RefundInHand
  <2>2. purchase' = [purchase EXCEPT ![q.purchase] = Applied(q.row, "refunded", None, q.amount)]
    BY <1>4 DEF RecordRefund
  <2>3. /\ Applied(q.row, "refunded", None, q.amount).status = "refunded"
        /\ Applied(q.row, "refunded", None, q.amount).source = q.row.source
        /\ Applied(q.row, "refunded", None, q.amount).payment = q.row.payment
    BY <1>0 DEF Applied, PurchaseRow
  <2>4. \A y \in Purchases \ {q.purchase} : purchase'[y] = purchase[y]
    BY <2>2 DEF TypeOK
  <2>5. /\ purchase'[q.purchase].status = "refunded" /\ purchase'[q.purchase].source = q.row.source
        /\ purchase'[q.purchase].payment = q.row.payment
    BY <2>1, <2>2, <2>3 DEF TypeOK
  <2> QED
    BY <2>1, <2>4, <2>5 DEF WritesSale
<1>5. CASE ~(CreatePendingPurchase(r) \/ CreateManualSale(r) \/ ApplyNotified(r) \/ RecordRefund(r))
  <2>1. UNCHANGED purchase
    BY <1>5 DEF Step, Begin, Continue, Fail, tables, BeginCheckout, BeginNotify, BeginRefund, BeginIssue, BeginVoid, BeginResend, CreatePreference, FindPurchase, ClaimEvent, RefundPayment, FindExistingVoucher, FindLiveVoucher, VoidVoucher, CountVouchers, InsertVoucher, SendVoucher, RecordSent
  <2> QED
    BY <2>1
<1> QED
  BY <1>1, <1>2, <1>3, <1>4, <1>5

\* Sales, payments and preferences stay linked.
LEMMA StepLinks ==
    ASSUME TypeOK, MoneyOK, Links, NEW r \in Reqs, Hand(req[r]), Step(r), Grows
    PROVE  MoneyOK' /\ Links'
<1> DEFINE q == req[r]
<1>0. /\ q \in Request /\ q.purchase \in Purchases \cup {None} /\ q.payment \in Payments \cup {None}
      /\ q.row \in PurchaseRow /\ q.row.payment \in Payments \cup {None}
      /\ \A p \in Purchases : purchase[p].payment \in Payments \cup {None}
      /\ offered \subseteq Purchases /\ None \notin Payments \cup Purchases
  BY RequestFields, SalesAssumption DEF TypeOK, PurchaseRow
<1>1. MoneyOK'
  BY StepPayments DEF MoneyOK
<1>2. \A p \in Purchases : purchase'[p].payment # None =>
         payment'[purchase'[p].payment].purchase = p
  <2>1. \A x \in Payments : payment'[x].purchase = payment[x].purchase
    BY StepPayments
  <2>2. \A p \in Purchases : purchase'[p].payment # None =>
           purchase'[p].payment \in Payments /\ payment[purchase'[p].payment].purchase = p
    <3>1. CASE UNCHANGED purchase
      BY <1>0, <3>1 DEF Links
    <3>2. ASSUME NEW p \in Purchases, \A y \in Purchases \ {p} : purchase'[y] = purchase[y],
                 WritesSale(r, p)
          PROVE  purchase'[p].payment # None =>
                   purchase'[p].payment \in Payments /\ payment[purchase'[p].payment].purchase = p
      BY <1>0, <3>2 DEF WritesSale, Hand, NotifyInHand, RowInHand
    <3> QED
      BY <1>0, <3>1, <3>2, StepPurchases DEF Links
  <2> QED
    BY <2>1, <2>2
<1>3. \A p \in offered' : Recorded(p)' /\ purchase'[p].source = "mercadopago"
  <2>1. \A p \in offered' :
          \/ p \in offered
          \/ Recorded(p) /\ purchase[p].source = "mercadopago" /\ p \in Purchases
    <3>1. CASE CreatePreference(r)
      <4>1. q.stage = "prefer" /\ (offered' = offered \cup {q.purchase} \/ UNCHANGED offered)
        BY <3>1 DEF CreatePreference, At
      <4> QED
        BY <1>0, <4>1 DEF Hand, VoucherInHand
    <3>2. CASE ~CreatePreference(r)
      <4>1. UNCHANGED offered
        BY <3>2 DEF Step, Begin, Continue, Fail, provider, BeginCheckout, BeginNotify, BeginRefund, CreateManualSale, BeginIssue, BeginVoid, BeginResend, CreatePendingPurchase, FindPurchase, ClaimEvent, ApplyNotified, RefundPayment, RecordRefund, FindExistingVoucher, FindLiveVoucher, VoidVoucher, CountVouchers, InsertVoucher, SendVoucher, RecordSent
      <4> QED
        BY <4>1
    <3> QED
      BY <3>1, <3>2
  <2> QED
    BY <1>0, <2>1 DEF Links, Grows, Recorded
<1>4. \A x \in Payments : payment'[x].purchase # None => payment'[x].purchase \in offered'
  BY StepPayments DEF Links, Grows
<1> QED
  BY <1>1, <1>2, <1>3, <1>4 DEF Links
-----------------------------------------------------------------------------
(* Rights. *)

\* Claiming an approval nobody has claimed under the key.
Claims(r, k) ==
    /\ req[r].stage = "claim" /\ Subject(req[r]) = k /\ <<k, "approved">> \notin events
    /\ req[r].status = "approved" /\ events' = events \cup {<<k, "approved">>}
    /\ UNCHANGED voucher

\* The right to issue a receipt is had already or comes from a claim, and writing the
\* voucher gives it up.  To apply an approval one must claim it.
LEMMA StepRights ==
    ASSUME TypeOK, NEW r \in Reqs, Hand(req[r]), Ready(r), Step(r)
    PROVE  /\ MayIssue(req'[r]) => \/ MayIssue(req[r]) /\ Subject(req'[r]) = Subject(req[r])
                                   \/ Claims(r, Subject(req'[r]))
           /\ MayIssue(req'[r]) => \A v \in Vouchers : ~Writes(r, v)
           /\ \A k \in Subjects : Approves(req'[r], k) => Claims(r, k)
<1> DEFINE q == req[r]
           Goal == /\ MayIssue(req'[r]) => \/ MayIssue(req[r]) /\ Subject(req'[r]) = Subject(req[r])
                                           \/ Claims(r, Subject(req'[r]))
                   /\ MayIssue(req'[r]) => \A v \in Vouchers : ~Writes(r, v)
                   /\ \A k \in Subjects : Approves(req'[r], k) => Claims(r, k)
<1> USE DEF Ready
<1>1. ASSUME NEW o \in Outcomes, Answered(req'[r], q, o) PROVE Goal
  BY <1>1 DEF Answered, Fields, MayIssue, Approves
<1>2. CASE BeginCheckout(r)
  BY <1>2, BeginCheckoutMoves DEF Fields, MayIssue, Approves
<1>3. CASE BeginNotify(r)
  <2>1. req'[r].stage = "lookup"
    BY <1>3, BeginNotifyMoves DEF Fields
  <2> QED
    BY <2>1 DEF MayIssue, Approves
<1>4. CASE BeginRefund(r)
  <2>1. req'[r].stage \in {"ask", "record"}
    BY <1>4, BeginRefundMoves DEF Fields, RefundStage
  <2> QED
    BY <2>1 DEF MayIssue, Approves
<1>5. CASE CreateManualSale(r)
  <2>1. req'[r].kind = "manual"
    BY <1>5, CreateManualSaleMoves DEF Fields
  <2> QED
    BY <2>1 DEF MayIssue, Approves
<1>6. CASE BeginIssue(r)
  BY <1>6, BeginIssueMoves DEF Fields, MayIssue, Approves
<1>7. CASE BeginVoid(r)
  BY <1>7, BeginVoidMoves DEF Fields, MayIssue, Approves
<1>8. CASE BeginResend(r)
  BY <1>8, BeginResendMoves DEF Fields, MayIssue, Approves
<1>9. CASE CreatePendingPurchase(r)
  BY <1>9, CreatePendingPurchaseMoves DEF Fields, MayIssue, Approves
<1>10. CASE FindPurchase(r)
  <2>1. req'[r].stage = "claim"
    BY <1>10, FindPurchaseMoves DEF Goes, Fields
  <2> QED
    BY <2>1 DEF MayIssue, Approves
<1>11. CASE ClaimEvent(r)
  <2>1. CASE Goes(req'[r], q, "apply") /\ <<Subject(q), q.status>> \notin events
    <3>1. /\ req'[r].stage = "apply" /\ req'[r].status = q.status /\ Subject(req'[r]) = Subject(q)
          /\ q.stage = "claim" /\ UNCHANGED voucher
          /\ events' = events \cup {<<Subject(q), q.status>>}
      BY <1>11, <2>1, ClaimPayments DEF Goes, Fields, ClaimEvent, At, Subject
    <3> QED
      BY <2>1, <3>1 DEF MayIssue, Approves, Claims, Writes
  <2> QED
    BY <1>1, <1>11, <2>1, ClaimEventMoves DEF Outcomes
<1>12. CASE ApplyNotified(r)
  <2>1. CASE q.status = "approved" /\ Goes(req'[r], q, "existing")
    BY <1>12, <2>1, ApplyNotifiedMoves DEF Goes, Fields, MayIssue, Approves, Writes, Subject
  <2> QED
    BY <1>1, <1>12, <2>1, ApplyNotifiedMoves DEF Outcomes
<1>13. CASE RefundPayment(r)
  <2>1. CASE Goes(req'[r], q, "record")
    BY <2>1 DEF Goes, Fields, MayIssue, Approves
  <2> QED
    BY <1>1, <1>13, <2>1, RefundPaymentMoves DEF Outcomes
<1>14. CASE FindExistingVoucher(r)
  <2>1. CASE Goes(req'[r], q, "live")
    BY <1>14, <2>1, FindExistingVoucherMoves DEF Goes, Fields, MayIssue, Approves, Writes, Subject
  <2> QED
    BY <1>1, <1>14, <2>1, FindExistingVoucherMoves DEF Outcomes
<1>15. CASE FindLiveVoucher(r)
  <2>1. /\ Subject(req'[r]) = Subject(q) /\ req'[r].stage \in {"void", "count"} /\ q.stage = "live"
        /\ req'[r].kind = q.kind
    BY <1>15, FindLiveVoucherMoves DEF Goes, Fields, Subject
  <2> QED
    BY <2>1 DEF MayIssue, Approves, Writes
<1>16. CASE VoidVoucher(r)
  <2>1. CASE Goes(req'[r], q, "count")
    BY <1>16, <2>1, VoidVoucherMoves DEF Goes, Fields, MayIssue, Approves, Writes, Subject
  <2> QED
    BY <1>1, <1>16, <2>1, VoidVoucherMoves DEF Outcomes
<1>17. CASE CountVouchers(r)
  BY <1>17, CountVouchersMoves DEF Fields, MayIssue, Approves, Writes, Subject
<1>18. CASE InsertVoucher(r)
  <2>1. ASSUME NEW v \in Vouchers,
               Fields(req'[r], req[r].kind, "send", req[r].outcome, req[r].account,
                                   req[r].purchase, req[r].payment, req[r].status, req[r].row,
                                   req[r].amount, v, req[r].number, req[r].tries, req[r].count)
        PROVE  Goal
    BY <2>1 DEF Fields, MayIssue, Approves
  <2>2. CASE UNCHANGED voucher /\ Fields(req'[r], req[r].kind, "count", req[r].outcome,
                              req[r].account,
                              req[r].purchase, req[r].payment, req[r].status, req[r].row,
                              req[r].amount, req[r].voucher, req[r].number,
                              req[r].tries + 1, req[r].count)
    <3>1. /\ q.stage = "insert" /\ Subject(req'[r]) = Subject(q) /\ req'[r].stage = "count"
          /\ req'[r].kind = q.kind
      BY <1>18, <2>2, InsertVoucherMoves DEF Fields, Subject
    <3>2. \A v \in Vouchers : ~Writes(r, v)
      <4>1. SUFFICES ASSUME NEW v \in Vouchers, Writes(r, v) PROVE FALSE
        OBVIOUS
      <4>2. voucher'[v].status = "issued"
        BY <4>1 DEF Writes, TypeOK
      <4> QED
        BY <2>2, <4>1, <4>2 DEF Writes, Written
    <3> QED
      BY <3>1, <3>2 DEF MayIssue, Approves
  <2> QED
    BY <1>1, <1>18, <2>1, <2>2, InsertVoucherMoves DEF Outcomes
<1>19. CASE SendVoucher(r)
  <2>1. CASE Goes(req'[r], q, "sent")
    BY <2>1 DEF Goes, Fields, MayIssue, Approves
  <2> QED
    BY <1>1, <1>19, <2>1, SendVoucherMoves DEF Outcomes
<1>20. CASE CreatePreference(r) \/ RecordRefund(r) \/ RecordSent(r) \/ Fail(r)
  BY <1>1, <1>20, CreatePreferenceMoves, RecordRefundMoves, RecordSentMoves, FailMoves DEF Outcomes
<1> QED
  BY <1>2, <1>3, <1>4, <1>5, <1>6, <1>7, <1>8, <1>9, <1>10, <1>11, <1>12, <1>13, <1>14, <1>15, <1>16, <1>17, <1>18, <1>19, <1>20 DEF Step, Begin, Continue

\* Each approval is still claimed once and used once.
LEMMA RightsStep ==
    ASSUME TypeOK, RightsOK, NEW r \in Reqs, Hand(req[r]), Ready(r), Step(r), Frame(r), Grows
    PROVE  RightsOK'
<1>1. ASSUME NEW x \in Reqs, MayIssue(req'[x])
      PROVE  \/ MayIssue(req[x]) /\ Subject(req'[x]) = Subject(req[x])
             \/ x = r /\ Claims(r, Subject(req'[x]))
  BY <1>1, StepRights DEF Frame
<1>2. ASSUME NEW v \in Written'
      PROVE  \/ v \in Written /\ voucher'[v].by = voucher[v].by
             \/ Writes(r, v) /\ voucher'[v].by = IssuedBy(req[r])
  <2>1. CASE Kept /\ Written' = Written
    BY <1>2, <2>1 DEF Kept, Written
  <2>2. ASSUME NEW w \in Vouchers, Writes(r, w), Written' = Written \cup {w},
               voucher'[w].by = IssuedBy(req[r]), \A y \in Vouchers \ {w} : voucher'[y] = voucher[y]
        PROVE  \/ v \in Written /\ voucher'[v].by = voucher[v].by
               \/ Writes(r, v) /\ voucher'[v].by = IssuedBy(req[r])
    BY <1>2, <2>2 DEF Written
  <2> QED
    BY <2>1, <2>2, KeptOrWritten
<1>3. ASSUME NEW v \in Vouchers, Writes(r, v), IssuedBy(req[r]) # None
      PROVE  MayIssue(req[r])
  BY <1>3 DEF Writes, MayIssue, IssuedBy
<1>4. ASSUME NEW x \in Reqs, MayIssue(req'[x])
      PROVE  <<Subject(req'[x]), "approved">> \in events'
  BY <1>1, <1>4 DEF RightsOK, Claims, Grows
<1>5. ASSUME NEW x \in Reqs, MayIssue(req'[x]), NEW v \in Written'
      PROVE  voucher'[v].by # Subject(req'[x])
  <2>0. Subject(req'[x]) # None
    BY <1>5 DEF MayIssue
  <2>1. CASE v \in Written /\ voucher'[v].by = voucher[v].by
    <3>1. CASE MayIssue(req[x]) /\ Subject(req'[x]) = Subject(req[x])
      BY <2>1, <3>1 DEF RightsOK
    <3>2. CASE Claims(r, Subject(req'[x]))
      BY <2>0, <2>1, <3>2 DEF RightsOK, Claims
    <3> QED
      BY <1>1, <1>5, <3>1, <3>2
  <2>2. CASE Writes(r, v) /\ voucher'[v].by = IssuedBy(req[r])
    <3>1. v \in Vouchers
      BY <1>5 DEF Written
    <3>2. x # r
      BY <1>5, <2>2, <3>1, StepRights
    <3>3. MayIssue(req[x]) /\ Subject(req'[x]) = Subject(req[x])
      BY <1>1, <1>5, <3>2
    <3>4. IssuedBy(req[r]) # None => Subject(req[x]) # IssuedBy(req[r])
      BY <1>3, <2>2, <3>1, <3>2, <3>3 DEF RightsOK, IssuedBy
    <3> QED
      BY <2>0, <2>2, <3>3, <3>4
  <2> QED
    BY <1>2, <2>1, <2>2
<1>6. ASSUME NEW x \in Reqs, NEW y \in Reqs \ {x}, MayIssue(req'[x]), MayIssue(req'[y])
      PROVE  Subject(req'[y]) # Subject(req'[x])
  <2>1. CASE /\ MayIssue(req[x]) /\ Subject(req'[x]) = Subject(req[x])
             /\ MayIssue(req[y]) /\ Subject(req'[y]) = Subject(req[y])
    BY <2>1 DEF RightsOK
  <2>2. CASE /\ x = r /\ Claims(r, Subject(req'[x]))
             /\ MayIssue(req[y]) /\ Subject(req'[y]) = Subject(req[y])
    BY <2>2 DEF RightsOK, Claims
  <2>3. CASE /\ y = r /\ Claims(r, Subject(req'[y]))
             /\ MayIssue(req[x]) /\ Subject(req'[x]) = Subject(req[x])
    BY <2>3 DEF RightsOK, Claims
  <2> QED
    BY <1>1, <1>6, <2>1, <2>2, <2>3
<1>7. ASSUME NEW v \in Written', voucher'[v].by # None
      PROVE  <<voucher'[v].by, "approved">> \in events'
  <2>1. CASE v \in Written /\ voucher'[v].by = voucher[v].by
    BY <1>7, <2>1 DEF RightsOK, Grows
  <2>2. CASE Writes(r, v) /\ voucher'[v].by = IssuedBy(req[r])
    BY <1>3, <1>7, <2>2 DEF RightsOK, Grows, Written, IssuedBy
  <2> QED
    BY <1>2, <2>1, <2>2
<1>8. ASSUME NEW x \in Payments, <<x, "approved">> \in events'
      PROVE  payment'[x].purchase # None
  <2>1. CASE <<x, "approved">> \in events
    BY <2>1, StepPayments DEF RightsOK
  <2>2. CASE <<x, "approved">> \notin events
    <3>1. ClaimEvent(r)
      BY <1>8, <2>2 DEF Step, Begin, Continue, Fail, tables, BeginCheckout, BeginNotify, BeginRefund, CreateManualSale, BeginIssue, BeginVoid, BeginResend, CreatePendingPurchase, CreatePreference, FindPurchase, ApplyNotified, RefundPayment, RecordRefund, FindExistingVoucher, FindLiveVoucher, VoidVoucher, CountVouchers, InsertVoucher, SendVoucher, RecordSent
    <3>2. x = Subject(req[r]) /\ req[r].stage = "claim"
      BY <1>8, <2>2, <3>1, ClaimEventMoves, ClaimPayments
    <3>3. req[r].payment = x
      BY <3>2, RequestFields, SalesAssumption DEF Subject, TypeOK
    <3> QED
      BY <3>2, <3>3, StepPayments, SalesAssumption DEF Hand, NotifyInHand
  <2> QED
    BY <2>1, <2>2
<1> QED
  BY <1>4, <1>5, <1>6, <1>7, <1>8 DEF RightsOK, MayIssue
-----------------------------------------------------------------------------
(* What the invariants give the properties. *)

\* Nobody is entitled by a payment that never settled: a notification that approves has read
\* the approval back.
LEMMA EntitledStep ==
    ASSUME TypeOK, EntitledOnlyIfPaid, NEW r \in Reqs, Hand(req[r]), Step(r)
    PROVE  EntitledOnlyIfPaid'
<1>0. /\ req[r].payment \in Payments \cup {None}
      /\ req[r].purchase \in Purchases \cup {None}
  BY RequestFields DEF TypeOK
<1>1. ASSUME NEW p \in Purchases, purchase'[p].status = "approved",
             purchase'[p].source # "manual"
      PROVE  \E x \in Payments : payment'[x].purchase = p /\ payment'[x].settled
  <2>1. CASE purchase'[p] = purchase[p]
    BY <1>1, <2>1, StepPayments DEF EntitledOnlyIfPaid
  <2>2. CASE WritesSale(r, p)
    <3>1. req[r].stage = "apply" /\ p = req[r].purchase /\ req[r].status = "approved"
      BY <1>1, <2>2 DEF WritesSale
    <3>2. \E x \in Payments : payment[x].purchase = p /\ payment[x].settled
      BY <3>1 DEF Hand, NotifyInHand
    <3> QED
      BY <3>2, StepPayments
  <2> QED
    BY <2>1, <2>2, StepPurchases
<1> QED
  BY <1>1 DEF EntitledOnlyIfPaid

\* No sale is marked refunded for money that stayed: whoever writes it has read the refund
\* back or has made it.
LEMMA RefundedStep ==
    ASSUME TypeOK, RefundedMeansReturned, NEW r \in Reqs, Hand(req[r]), Step(r), Grows
    PROVE  RefundedMeansReturned'
<1>0. /\ req[r].payment \in Payments \cup {None} /\ req[r].amount \in Amounts \cup {None}
      /\ req[r].purchase \in Purchases \cup {None}
  BY RequestFields DEF TypeOK
<1>1. \A x \in Payments : /\ payment'[x].purchase = payment[x].purchase
                          /\ payment[x].status = "refunded" => payment'[x].status = "refunded"
  BY StepPayments DEF Grows
<1>2. refunds \subseteq refunds'
  BY DEF Grows
<1>3. ASSUME NEW p \in Purchases, purchase'[p].status = "refunded",
             purchase'[p].source # "manual"
      PROVE  \E x \in Payments :
               /\ payment[x].purchase = p
               /\ \/ payment[x].status = "refunded"
                  \/ \E amount \in Amounts : <<x, amount>> \in refunds
  <2>1. CASE purchase'[p] = purchase[p]
    BY <1>3, <2>1 DEF RefundedMeansReturned
  <2>2. CASE WritesSale(r, p)
    <3>1. CASE /\ req[r].stage = "apply" /\ p = req[r].purchase /\ req[r].status = "refunded"
      <4>1. \E x \in Payments : payment[x].purchase = p /\ payment[x].status = "refunded"
        BY <3>1 DEF Hand, NotifyInHand
      <4> QED
        BY <4>1
    <3>2. CASE /\ req[r].stage = "record" /\ p = req[r].purchase
               /\ req[r].row.source # "manual"
      <4>1. /\ req[r].payment \in Payments /\ payment[req[r].payment].purchase = p
            /\ <<req[r].payment, req[r].amount>> \in refunds /\ req[r].amount \in Amounts
        BY <1>0, <3>2 DEF Hand, RefundInHand
      <4> QED
        BY <4>1
    <3> QED
      BY <1>3, <2>2, <3>1, <3>2 DEF WritesSale
  <2> QED
    BY <2>1, <2>2, StepPurchases
<1> QED
  BY <1>1, <1>2, <1>3 DEF RefundedMeansReturned

\* No voucher claims a delivery there was not.
LEMMA SentStep ==
    ASSUME TypeOK, SentCountNeverLies, NEW r \in Reqs, Hand(req[r]), Step(r), Grows, RowsTyped'
    PROVE  SentCountNeverLies'
<1>0. /\ \A v \in Vouchers : /\ mailed[v] \in Nat /\ mailed'[v] \in Nat /\ mailed[v] <= mailed'[v]
                             /\ voucher[v].sent \in Nat /\ voucher'[v].sent \in Nat
  BY DEF TypeOK, RowsTyped, VoucherRow, Grows
<1>1. CASE RecordSent(r)
  <2>1. /\ req[r].voucher \in Vouchers /\ req[r].count + 1 <= mailed[req[r].voucher]
        /\ voucher[req[r].voucher].status # "none"
    BY <1>1, RequestFields DEF RecordSent, At, Hand, VoucherInHand, TypeOK
  <2>2. voucher' = [voucher EXCEPT ![req[r].voucher] =
                      [voucher[req[r].voucher] EXCEPT !.sent = req[r].count + 1]]
    BY <1>1 DEF RecordSent
  <2>3. /\ \A v \in Vouchers \ {req[r].voucher} : voucher'[v] = voucher[v]
        /\ voucher'[req[r].voucher].sent = req[r].count + 1
    BY <2>1, <2>2 DEF TypeOK, VoucherRow
  <2>4. UNCHANGED mailed
    BY <1>1 DEF RecordSent
  <2> QED
    BY <1>0, <2>1, <2>3, <2>4 DEF SentCountNeverLies, Written
<1>2. CASE ~RecordSent(r)
  <2>1. \/ UNCHANGED voucher
        \/ \E v \in Vouchers : voucher' = [voucher EXCEPT ![v].status = "void"]
                               /\ voucher[v].status # "none"
        \/ \E v \in Vouchers : Writes(r, v)
    <3>1. CASE InsertVoucher(r)
      BY <3>1, InsertVoucherMoves DEF Writes
    <3>2. CASE VoidVoucher(r)
      <4>1. /\ req[r].voucher \in Vouchers /\ voucher[req[r].voucher].status # "none"
        BY <3>2, RequestFields DEF VoidVoucher, At, Hand, VoucherInHand, TypeOK
      <4> QED
        BY <3>2, <4>1 DEF VoidVoucher
    <3>3. CASE ~(InsertVoucher(r) \/ VoidVoucher(r))
      <4>1. UNCHANGED voucher
        BY <1>2, <3>3 DEF Step, Begin, Continue, Fail, tables, BeginCheckout, BeginNotify, BeginRefund, CreateManualSale, BeginIssue, BeginVoid, BeginResend, CreatePendingPurchase, CreatePreference, FindPurchase, ClaimEvent, ApplyNotified, RefundPayment, RecordRefund, FindExistingVoucher, FindLiveVoucher, CountVouchers, SendVoucher
      <4> QED
        BY <4>1
    <3> QED
      BY <3>1, <3>2, <3>3
  <2>2. CASE UNCHANGED voucher
    BY <1>0, <2>2 DEF SentCountNeverLies, Written
  <2>3. ASSUME NEW v \in Vouchers, voucher' = [voucher EXCEPT ![v].status = "void"],
               voucher[v].status # "none"
        PROVE  SentCountNeverLies'
    <3>1. /\ \A w \in Vouchers \ {v} : voucher'[w] = voucher[w]
          /\ voucher'[v].sent = voucher[v].sent
      BY <2>3 DEF TypeOK, VoucherRow
    <3> QED
      BY <1>0, <2>3, <3>1 DEF SentCountNeverLies, Written
  <2>4. ASSUME NEW v \in Vouchers, Writes(r, v)
        PROVE  SentCountNeverLies'
    <3>1. /\ \A w \in Vouchers \ {v} : voucher'[w] = voucher[w]
          /\ voucher'[v].sent = 0
      BY <2>4 DEF Writes, TypeOK
    <3> QED
      BY <1>0, <3>1 DEF SentCountNeverLies, Written
  <2> QED
    BY <2>1, <2>2, <2>3, <2>4
<1> QED
  BY <1>1, <1>2

\* An approval that has issued a receipt issues no other: who writes one still had the right.
LEMMA ReceiptStep ==
    ASSUME TypeOK, RightsOK, OneReceiptPerApproval, NEW r \in Reqs, Hand(req[r]), Step(r)
    PROVE  OneReceiptPerApproval'
<1>1. CASE Kept /\ Written' = Written
  <2>1. \A v \in Written : voucher'[v].by = voucher[v].by
    BY <1>1 DEF Kept, Written
  <2> QED
    BY <1>1, <2>1 DEF OneReceiptPerApproval
<1>2. ASSUME NEW v \in Vouchers, Writes(r, v), Written' = Written \cup {v},
             voucher'[v].by = IssuedBy(req[r]), \A w \in Vouchers \ {v} : voucher'[w] = voucher[w]
      PROVE  OneReceiptPerApproval'
  <2>1. IssuedBy(req[r]) # None => \A w \in Written : voucher[w].by # IssuedBy(req[r])
    BY <1>2 DEF RightsOK, MayIssue, Writes, IssuedBy
  <2>2. \A w \in Written : w # v /\ voucher'[w].by = voucher[w].by
    BY <1>2 DEF Writes, Written
  <2> QED
    BY <1>2, <2>1, <2>2 DEF OneReceiptPerApproval
<1> QED
  BY <1>1, <1>2, KeptOrWritten
-----------------------------------------------------------------------------
(* Refunds from the panel. *)

\* An invocation gives a sale back only if it began as a refund, and is answered so only by
\* the statement that records it.
LEMMA StepGivesBack ==
    ASSUME TypeOK, NEW r \in Reqs, Hand(req[r]), Ready(r), Step(r), req'[r].kind = "refund"
    PROVE  \/ BeginRefund(r)
           \/ /\ req[r].kind = "refund" /\ req[r].stage \in {"ask", "record"}
              /\ req'[r].purchase = req[r].purchase
              /\ \/ req'[r].outcome = "ok" /\ RecordRefund(r)
                 \/ req'[r].outcome # "ok"
                 \/ req[r].outcome = "ok"
<1> USE DEF Ready
<1>1. CASE Begin(r)
  <2>1. req'[r].kind = "checkout" \/ ~BeginCheckout(r)
    BY BeginCheckoutMoves DEF Fields
  <2>2. req'[r].kind = "notify" \/ ~BeginNotify(r)
    BY BeginNotifyMoves DEF Fields
  <2>3. req'[r].kind = "manual" \/ ~CreateManualSale(r)
    BY CreateManualSaleMoves DEF Fields
  <2>4. req'[r].kind = "issue" \/ ~BeginIssue(r)
    BY BeginIssueMoves DEF Fields
  <2>5. req'[r].kind = "void" \/ ~BeginVoid(r)
    BY BeginVoidMoves DEF Fields
  <2>6. req'[r].kind = "resend" \/ ~BeginResend(r)
    BY BeginResendMoves DEF Fields
  <2> QED
    BY <1>1, <2>1, <2>2, <2>3, <2>4, <2>5, <2>6 DEF Begin
<1>2. CASE RefundPayment(r)
  <2>1. req'[r].kind = req[r].kind /\ req'[r].purchase = req[r].purchase /\ req[r].stage = "ask"
    BY <1>2, RefundPaymentMoves DEF Goes, Answered, Fields
  <2>2. req'[r].outcome = req[r].outcome \/ req'[r].outcome = "failed"
    BY <1>2, RefundPaymentMoves DEF Goes, Answered, Fields
  <2> QED
    BY <2>1, <2>2
<1>3. CASE RecordRefund(r)
  BY <1>3, RecordRefundMoves DEF Answered, Fields
<1>4. CASE Fail(r)
  <2>1. /\ req'[r].kind = req[r].kind /\ req'[r].purchase = req[r].purchase
        /\ req'[r].outcome = "failed" /\ req[r].stage \notin {"idle", "done"}
    BY <1>4, FailMoves DEF Answered, Fields, Fail, Resting
  <2> QED
    BY <2>1 DEF Hand, RefundInHand
<1>5. CASE Continue(r) /\ ~RefundPayment(r) /\ ~RecordRefund(r)
  <2>1. req[r].stage \notin {"ask", "record", "done"}
    BY <1>5 DEF Continue, At, CreatePendingPurchase, CreatePreference, FindPurchase, ClaimEvent, ApplyNotified, FindExistingVoucher, FindLiveVoucher, VoidVoucher, CountVouchers, InsertVoucher, SendVoucher, RecordSent
  <2>2. req[r].kind # "refund"
    BY <2>1 DEF Hand, RefundInHand
  <2>3. CASE CreatePendingPurchase(r) \/ CreatePreference(r) \/ FindPurchase(r) \/ ClaimEvent(r)
    <3>1. req'[r].kind = req[r].kind
      BY <2>3, CreatePendingPurchaseMoves, CreatePreferenceMoves, FindPurchaseMoves, ClaimEventMoves DEF Goes, Answered, Fields
    <3> QED
      BY <2>2, <3>1
  <2>4. CASE ApplyNotified(r) \/ FindExistingVoucher(r) \/ FindLiveVoucher(r) \/ VoidVoucher(r)
    <3>1. req'[r].kind = req[r].kind
      BY <2>4, ApplyNotifiedMoves, FindExistingVoucherMoves, FindLiveVoucherMoves, VoidVoucherMoves DEF Goes, Answered, Fields
    <3> QED
      BY <2>2, <3>1
  <2>5. CASE CountVouchers(r) \/ InsertVoucher(r) \/ SendVoucher(r) \/ RecordSent(r)
    <3>1. req'[r].kind = req[r].kind
      BY <2>5, CountVouchersMoves, InsertVoucherMoves, SendVoucherMoves, RecordSentMoves DEF Goes, Answered, Fields
    <3> QED
      BY <2>2, <3>1
  <2> QED
    BY <1>5, <2>3, <2>4, <2>5 DEF Continue
<1> QED
  BY <1>1, <1>2, <1>3, <1>4, <1>5 DEF Step

\* What is spent stays spent: who would apply the approval again would have to claim it.
LEMMA SpentStays ==
    ASSUME TypeOK, NEW r \in Reqs, Hand(req[r]), Ready(r), Step(r), Frame(r), Grows,
           NEW x \in Subjects, Spent(x)
    PROVE  Spent(x)'
<1>1. <<x, "approved">> \in events'
  BY DEF Spent, Grows
<1>2. ASSUME NEW y \in Reqs
      PROVE  ~Approves(req'[y], x)
  <2>1. CASE y = r
    BY <2>1, StepRights DEF Spent, Claims
  <2>2. CASE y # r
    BY <2>2 DEF Spent, Frame
  <2> QED
    BY <2>1, <2>2
<1> QED
  BY <1>1, <1>2 DEF Spent, Approves

\* An approval applied is spent: only one invocation ever had it to apply.
LEMMA AppliedIsSpent ==
    ASSUME TypeOK, RightsOK, NEW r \in Reqs, Hand(req[r]), Ready(r), Step(r), Frame(r), Grows,
           NEW x \in Subjects, Approves(req[r], x), ApplyNotified(r)
    PROVE  Spent(x)'
<1>1. MayIssue(req[r]) /\ Subject(req[r]) = x
  BY SalesAssumption DEF Approves, MayIssue, Subjects
<1>2. <<x, "approved">> \in events'
  BY <1>1 DEF RightsOK, Grows
<1>3. ASSUME NEW y \in Reqs
      PROVE  ~Approves(req'[y], x)
  <2>1. CASE y = r
    BY <1>1, <2>1, StepRights DEF RightsOK, Claims
  <2>2. CASE y # r
    <3>1. req'[y] = req[y]
      BY <2>2 DEF Frame
    <3>2. Approves(req[y], x) => MayIssue(req[y]) /\ Subject(req[y]) = x
      BY SalesAssumption DEF Approves, MayIssue, Subjects
    <3> QED
      BY <1>1, <2>2, <3>1, <3>2 DEF RightsOK
  <2> QED
    BY <2>1, <2>2
<1> QED
  BY <1>2, <1>3 DEF Spent, Approves

\* Only a notification that applies writes a sale at the stage that applies.
LEMMA AppliesAt ==
    ASSUME TypeOK, NEW r \in Reqs, Step(r), req[r].stage = "apply", ~UNCHANGED purchase
    PROVE  ApplyNotified(r)
  BY DEF Step, Begin, Continue, Fail, tables, Idle, At, BeginCheckout, BeginNotify, BeginRefund, CreateManualSale, BeginIssue, BeginVoid, BeginResend, CreatePendingPurchase, CreatePreference, FindPurchase, ClaimEvent, RefundPayment, RecordRefund, FindExistingVoucher, FindLiveVoucher, VoidVoucher, CountVouchers, InsertVoucher, SendVoucher, RecordSent

\* The keys under which a sale was approved only grow; when there was one and there still is
\* only one, it is the same.
LEMMA KeysStay ==
    ASSUME NEW p \in Purchases, events \subseteq events',
           \A x \in Payments : payment[x].purchase = p => payment'[x].purchase = p
    PROVE  /\ Keys(p) \subseteq Keys(p)'
           /\ OneKey(p)' => OneKey(p) /\ (Keys(p) # {} => Keys(p)' = Keys(p))
<1>1. Keys(p) \subseteq Keys(p)'
  BY DEF Keys, PaymentsOf
<1> QED
  BY <1>1 DEF OneKey

\* A statement leaves payments with their sales and forgets no key.
LEMMA StepKeys ==
    ASSUME TypeOK, NEW r \in Reqs, Hand(req[r]), Step(r), Grows, NEW p \in Purchases
    PROVE  /\ Keys(p) \subseteq Keys(p)'
           /\ OneKey(p)' => OneKey(p) /\ (Keys(p) # {} => Keys(p)' = Keys(p))
<1>1. events \subseteq events' /\ \A x \in Payments : payment[x].purchase = p => payment'[x].purchase = p
  BY StepPayments DEF Grows
<1> QED
  BY <1>1, KeysStay

\* What an invocation applies came under a key of the sale it applies it to.
LEMMA ApprovesByKey ==
    ASSUME TypeOK, RightsOK, NEW r \in Reqs, Hand(req[r]), req[r].stage = "apply",
           req[r].status = "approved"
    PROVE  /\ Subject(req[r]) \in Keys(req[r].purchase) /\ req[r].purchase \in Purchases
           /\ Approves(req[r], Subject(req[r]))
<1>1. NotifyInHand(req[r]) /\ req[r].payment \in Payments \cup {None} /\ req[r].purchase \in Purchases \cup {None}
  BY RequestFields DEF Hand, TypeOK
<1>2. /\ req[r].kind = "notify" /\ Subject(req[r]) # None /\ req[r].purchase # None
      /\ req[r].payment # None => payment[req[r].payment].purchase = req[r].purchase
  BY <1>1 DEF NotifyInHand
<1>3. Subject(req[r]) \in Subjects /\ (Subject(req[r]) = req[r].purchase \/ Subject(req[r]) \in PaymentsOf(req[r].purchase))
  BY <1>1, <1>2 DEF Subject, Subjects, PaymentsOf
<1>4. <<Subject(req[r]), "approved">> \in events
  BY <1>2 DEF RightsOK, MayIssue
<1> QED
  BY <1>1, <1>2, <1>3, <1>4 DEF Keys, Approves

\* Approved sales and sales given back have still spent their approvals.
LEMMA ApprovalsStep ==
    ASSUME TypeOK, Links, InHand, RightsOK, ApprovalsOK, NEW r \in Reqs,
           Ready(r), Step(r), Frame(r), Grows
    PROVE  ApprovalsOK'
<1>0. Hand(req[r]) /\ \A y \in Reqs : RefundInHand(req[y])
  BY DEF InHand, Hand
<1>1. ASSUME NEW p \in Purchases, purchase'[p].status = "approved",
             purchase'[p].source = "mercadopago"
      PROVE  \E k \in Keys(p)' : Spent(k)'
  <2>1. CASE purchase'[p] = purchase[p]
    <3>1. PICK k \in Keys(p) : Spent(k)
      BY <1>1, <2>1 DEF ApprovalsOK
    <3>2. k \in Subjects /\ k \in Keys(p)'
      BY <1>0, <3>1, StepKeys DEF Keys
    <3>3. Spent(k)'
      BY <1>0, <3>1, <3>2, SpentStays
    <3> QED
      BY <3>2, <3>3
  <2>2. CASE ~UNCHANGED purchase /\ WritesSale(r, p)
    <3>1. req[r].stage = "apply" /\ p = req[r].purchase /\ req[r].status = "approved"
      BY <1>1, <2>2 DEF WritesSale
    <3>2. PICK k \in Keys(p) : k = Subject(req[r]) /\ Approves(req[r], k)
      BY <1>0, <3>1, ApprovesByKey
    <3>3. k \in Subjects /\ k \in Keys(p)' /\ ApplyNotified(r)
      BY <1>0, <2>2, <3>1, <3>2, StepKeys, AppliesAt DEF Keys
    <3>4. Spent(k)'
      BY <1>0, <3>2, <3>3, AppliedIsSpent
    <3> QED
      BY <3>3, <3>4
  <2> QED
    BY <1>0, <2>1, <2>2, StepPurchases
<1>2. ASSUME NEW p \in Purchases, Recorded(p), Returned(p)
      PROVE  Recorded(p)' /\ Returned(p)'
  <2>1. Recorded(p)' /\ purchase'[p].source = purchase[p].source
    BY <1>2 DEF Grows, Recorded
  <2>2. CASE purchase[p].source = "manual"
    BY <2>1, <2>2 DEF Returned
  <2>3. CASE Keys(p) # {} /\ (OneKey(p) => \A k \in Keys(p) : Spent(k))
    <3>1. Keys(p)' # {}
      BY <1>0, <2>3, StepKeys
    <3>2. ASSUME OneKey(p)', NEW k \in Keys(p)' PROVE Spent(k)'
      <4>1. k \in Keys(p) /\ OneKey(p)
        BY <1>0, <2>3, <3>2, StepKeys
      <4>2. k \in Subjects /\ Spent(k)
        BY <2>3, <4>1 DEF Keys
      <4> QED
        BY <1>0, <4>2, SpentStays
    <3> QED
      BY <2>1, <3>1, <3>2 DEF Returned
  <2> QED
    BY <1>2, <2>2, <2>3 DEF Returned
<1>3. ASSUME NEW y \in Reqs, GivesBack(req'[y])
      PROVE  \E p \in Purchases : p = req'[y].purchase /\ Recorded(p) /\ Returned(p)
  <2>1. ASSUME GivesBack(req[y]), req'[y].purchase = req[y].purchase
        PROVE  \E p \in Purchases : p = req'[y].purchase /\ Recorded(p) /\ Returned(p)
    <3>1. req[y].purchase \in Purchases
      BY <1>0, <2>1, RequestFields DEF GivesBack, RefundInHand, TypeOK
    <3> QED
      BY <2>1, <3>1 DEF ApprovalsOK
  <2>2. CASE y # r
    BY <1>3, <2>1, <2>2 DEF Frame
  <2>3. CASE y = r /\ ~BeginRefund(r)
    <3>1. req'[r].kind = "refund"
      BY <1>3, <2>3 DEF GivesBack
    <3> QED
      BY <1>0, <2>1, <2>3, <3>1, StepGivesBack DEF GivesBack
  <2>4. CASE y = r /\ BeginRefund(r)
    <3>1. PICK p \in Purchases : purchase[p].status = "approved" /\ req'[r].purchase = p
      BY <2>4, BeginRefundMoves DEF Fields, Ready
    <3>2. Recorded(p)
      BY <3>1 DEF Recorded
    <3>3. CASE purchase[p].source = "manual"
      BY <2>4, <3>1, <3>2, <3>3 DEF Returned
    <3>4. CASE purchase[p].source # "manual"
      <4>1. purchase[p].source = "mercadopago"
        BY <3>4 DEF TypeOK, PurchaseRow
      <4>2. \E k \in Keys(p) : Spent(k)
        BY <3>1, <4>1 DEF ApprovalsOK
      <4>3. Returned(p)
        BY <4>2 DEF OneKey, Returned
      <4> QED
        BY <2>4, <3>1, <3>2, <4>3
    <3> QED
      BY <3>3, <3>4
  <2> QED
    BY <2>2, <2>3, <2>4
<1>4. ASSUME NEW y \in Reqs, GivesBack(req'[y])
      PROVE  Recorded(req[y].purchase)' /\ Returned(req[y].purchase)'
  <2>1. PICK p \in Purchases : p = req'[y].purchase /\ Recorded(p) /\ Returned(p)
    BY <1>3, <1>4
  <2>2. Recorded(p)' /\ Returned(p)'
    BY <1>2, <2>1
  <2>3. PaymentsOf(req[y].purchase)' = PaymentsOf(p)'
    BY <2>1 DEF PaymentsOf
  <2>4. Keys(req[y].purchase)' = Keys(p)'
    BY <2>1, <2>3 DEF Keys
  <2>5. Returned(req[y].purchase)' /\ Recorded(req[y].purchase)'
    BY <2>1, <2>2, <2>4 DEF Returned, OneKey, Recorded
  <2> QED
    BY <2>5
<1>5. \A p \in Purchases : purchase'[p].status = "approved" /\ purchase'[p].source = "mercadopago"
        => \E k \in Keys(p)' : Spent(k)'
  BY <1>1
<1> QED
  BY <1>4, <1>5 DEF ApprovalsOK, GivesBack

\* Nothing entitles the buyer of a sale given back: the approval that would is spent.
LEMMA PanelStep ==
    ASSUME TypeOK, Links, InHand, RightsOK, ApprovalsOK, PanelRefundIsFinal, NEW r \in Reqs,
           Ready(r), Step(r), Frame(r), Grows
    PROVE  PanelRefundIsFinal'
<1>0. Hand(req[r]) /\ \A y \in Reqs : RefundInHand(req[y])
  BY DEF InHand, Hand
<1>1. ASSUME NEW y \in Reqs, req[y].kind = "refund", req[y].outcome = "ok",
             req'[y].purchase = req[y].purchase, OneKey(req[y].purchase)'
      PROVE  purchase'[req'[y].purchase].status # "approved"
  <2>1. PICK p \in Purchases : p = req[y].purchase
    BY <1>0, <1>1, RequestFields DEF RefundInHand, TypeOK
  <2>2. OneKey(p)
    <3>1. PaymentsOf(req[y].purchase)' = PaymentsOf(p)'
      BY <1>1, <2>1 DEF PaymentsOf
    <3>2. OneKey(p)'
      BY <1>1, <2>1, <3>1 DEF OneKey, Keys
    <3> QED
      BY <1>0, <3>2, StepKeys
  <2>3. purchase[p].status # "approved" /\ Recorded(p) /\ Returned(p)
    BY <1>1, <2>1, <2>2 DEF PanelRefundIsFinal, ApprovalsOK, GivesBack
  <2>4. CASE purchase'[p] = purchase[p]
    BY <1>1, <2>1, <2>3, <2>4
  <2>5. CASE WritesSale(r, p)
    <3>1. SUFFICES ASSUME purchase'[p].status = "approved" PROVE FALSE
      BY <1>1, <2>1
    <3>2. req[r].stage = "apply" /\ p = req[r].purchase /\ req[r].status = "approved"
      BY <2>3, <2>5, <3>1 DEF WritesSale
    <3>3. PICK k \in Keys(p) : Approves(req[r], k)
      BY <1>0, <3>2, ApprovesByKey
    <3>4. purchase[p].source # "manual"
      BY <1>0, <3>2 DEF Hand, NotifyInHand, Links
    <3> QED
      BY <2>2, <2>3, <3>3, <3>4 DEF Spent, Returned
  <2> QED
    BY <1>0, <2>4, <2>5, StepPurchases
<1>2. ASSUME NEW y \in Reqs, req'[y].kind = "refund", req'[y].outcome = "ok",
             OneKey(req[y].purchase)'
      PROVE  purchase'[req'[y].purchase].status # "approved"
  <2>1. CASE y # r
    <3>1. req'[y] = req[y]
      BY <2>1 DEF Frame
    <3> QED
      BY <1>1, <1>2, <3>1
  <2>2. CASE y = r /\ BeginRefund(r)
    <3>1. req'[r].outcome = "none"
      BY <2>2, BeginRefundMoves DEF Fields, Ready
    <3> QED
      BY <1>2, <2>2, <3>1
  <2>3. CASE y = r /\ RecordRefund(r)
    <3>1. /\ req[r].purchase \in Purchases /\ req'[r].purchase = req[r].purchase
          /\ req[r].row \in PurchaseRow
      BY <1>0, <2>3, RecordRefundMoves, RequestFields DEF Answered, Fields, RefundInHand, TypeOK
    <3>2. purchase' = [purchase EXCEPT ![req[r].purchase] =
                         Applied(req[r].row, "refunded", None, req[r].amount)]
      BY <2>3 DEF RecordRefund
    <3>3. Applied(req[r].row, "refunded", None, req[r].amount).status = "refunded"
      BY <3>1 DEF Applied, PurchaseRow
    <3> QED
      BY <2>3, <3>1, <3>2, <3>3 DEF TypeOK
  <2>4. CASE y = r /\ ~BeginRefund(r) /\ ~RecordRefund(r)
    <3>1. /\ req[r].kind = "refund" /\ req[r].outcome = "ok"
          /\ req'[r].purchase = req[r].purchase
      BY <1>0, <1>2, <2>4, StepGivesBack
    <3> QED
      BY <1>1, <1>2, <2>4, <3>1
  <2> QED
    BY <2>1, <2>2, <2>3, <2>4
<1> QED
  BY <1>2 DEF PanelRefundIsFinal
-----------------------------------------------------------------------------
(* The invariant. *)

\* The service begins with nothing sold and the invariant true.
LEMMA InitInv == Init => Inv
<1> SUFFICES ASSUME Init PROVE Inv
  OBVIOUS
<1>1. TypeOK
  <2>1. /\ \A p \in Purchases : purchase[p] \in PurchaseRow
        /\ \A v \in Vouchers : voucher[v] \in VoucherRow
        /\ \A r \in Reqs : req[r] \in Request
        /\ \A x \in Payments : payment[x] \in PaymentRecord
    BY NothingTyped DEF Init
  <2> QED
    BY NothingTyped DEF Init, TypeOK
<1>2. /\ Written = {} /\ IsFiniteSet(Written) /\ Cardinality(Written) = 0
  BY FS_EmptySet DEF Init, Written, NoVoucher
<1>3. MoneyOK /\ Links
  BY DEF Init, MoneyOK, Links, NoPayment, NoPurchase
<1>4. \A r \in Reqs : Hand(req[r])
  BY DEF Init, Hand, NotifyInHand, RowInHand, RefundInHand, VoucherInHand, NoRequest
<1>5. InHand
  BY <1>4 DEF InHand, Hand
<1>6. RightsOK /\ OneReceiptPerApproval /\ SentCountNeverLies
  BY <1>2 DEF Init, RightsOK, MayIssue, NoRequest, OneReceiptPerApproval, SentCountNeverLies
<1>7. ApprovalsOK /\ PanelRefundIsFinal /\ EntitledOnlyIfPaid /\ RefundedMeansReturned
  BY DEF Init, ApprovalsOK, GivesBack, NoRequest, NoPurchase, PanelRefundIsFinal, EntitledOnlyIfPaid, RefundedMeansReturned
<1>8. NumbersOK
  BY <1>2 DEF NumbersOK
<1> QED
  BY <1>1, <1>3, <1>5, <1>6, <1>7, <1>8 DEF Inv

\* A step of an invocation keeps it.
LEMMA StepInv ==
    ASSUME Inv, NEW r \in Reqs, Step(r)
    PROVE  Inv'
<1> USE DEF Inv
<1>1. \A x \in Reqs : Hand(req[x])
  BY DEF InHand, Hand
<1>2. Ready(r)
  <2>1. NextVoucherNumber \in Nat
    BY FS_CardinalityType DEF NumbersOK, NextVoucherNumber
  <2> QED
    BY <1>1, <2>1 DEF Ready, Hand, VoucherInHand
<1>3. Frame(r) /\ RowsTyped' /\ Grows
  BY <1>1, <1>2, StepFrame, StepTypes, StepGrows
<1>4. TypeOK'
  BY <1>3 DEF Frame, RowsTyped, TypeOK
<1>5. NumbersOK' /\ NextVoucherNumber \in Nat /\ NextVoucherNumber' \in Nat
      /\ NextVoucherNumber <= NextVoucherNumber'
  BY <1>1, NumbersStep
<1>6. \A x \in Reqs : Hand(req[x])'
  <2>1. Hand(req[r])'
    BY <1>1, <1>2, <1>3, <1>5, StepHand
  <2>2. ASSUME NEW x \in Reqs \ {r} PROVE Hand(req[x])'
    BY <1>1, <1>3, <1>5, <2>2, HandStays DEF Frame
  <2> QED
    BY <2>1, <2>2
<1>7. InHand'
  BY <1>6 DEF InHand, Hand
<1>8. MoneyOK' /\ Links'
  BY <1>1, <1>3, StepLinks
<1>9. RightsOK' /\ ApprovalsOK' /\ OneReceiptPerApproval' /\ SentCountNeverLies'
  BY <1>1, <1>2, <1>3, RightsStep, ApprovalsStep, ReceiptStep, SentStep
<1>10. EntitledOnlyIfPaid' /\ RefundedMeansReturned' /\ PanelRefundIsFinal'
  BY <1>1, <1>2, <1>3, EntitledStep, RefundedStep, PanelStep
<1> QED
  BY <1>4, <1>5, <1>7, <1>8, <1>9, <1>10

\* A step of the provider keeps it: what a payment says of itself changes, nothing of ours.
LEMMA ProviderInv ==
    ASSUME Inv, NEW x \in Payments, Pay(x) \/ Decide(x)
    PROVE  Inv'
<1> USE DEF Inv
<1>1. /\ Grows /\ RowsTyped' /\ MoneyOK' /\ Links' /\ UNCHANGED <<tables, req, offered, refunds, mailed>>
      /\ \A y \in Payments : payment'[y].purchase # payment[y].purchase =>
           payment[y].status = "none" /\ payment'[y].purchase \in offered
  BY ProviderGrows
<1>2. UNCHANGED <<purchase, events, voucher, req, offered, refunds, mailed>>
  BY <1>1 DEF tables
<1>3. TypeOK'
  BY <1>1, <1>2 DEF RowsTyped, TypeOK
<1>4. Written' = Written /\ NextVoucherNumber' = NextVoucherNumber /\ NumbersOK'
      /\ NextVoucherNumber \in Nat
  <2>1. Written' = Written
    BY <1>2 DEF Written
  <2>2. NumbersOK'
    BY <1>2, <2>1 DEF NumbersOK, Taken
  <2>3. NextVoucherNumber \in Nat
    BY FS_CardinalityType DEF NumbersOK, NextVoucherNumber
  <2> QED
    BY <2>1, <2>2, <2>3 DEF NextVoucherNumber
<1>5. \A r \in Reqs : Hand(req[r])'
  <2>1. SUFFICES ASSUME NEW r \in Reqs PROVE Hand(req[r])'
    OBVIOUS
  <2>2. Hand(req[r]) /\ req'[r] = req[r] /\ NextVoucherNumber <= NextVoucherNumber'
    BY <1>2, <1>4 DEF InHand, Hand
  <2> QED
    BY <1>1, <1>4, <2>2, HandStays
<1>6. InHand'
  BY <1>5 DEF InHand, Hand
<1>7. RightsOK' /\ OneReceiptPerApproval' /\ SentCountNeverLies'
  <2>1. \A y \in Payments : payment[y].purchase # None => payment'[y].purchase # None
    BY <1>1 DEF Grows
  <2> QED
    BY <1>2, <1>4, <2>1 DEF RightsOK, MayIssue, Subject, OneReceiptPerApproval, SentCountNeverLies
<1>8. EntitledOnlyIfPaid'
  BY <1>1, <1>2, SalesAssumption DEF EntitledOnlyIfPaid, Grows
<1>9. RefundedMeansReturned'
  BY <1>1, <1>2, SalesAssumption DEF RefundedMeansReturned, Grows
<1>10. \A p : Keys(p)' = Keys(p) /\ OneKey(p)' = OneKey(p)
  <2>1. \A y \in Payments : <<y, "approved">> \in events => payment'[y].purchase = payment[y].purchase
    BY <1>1 DEF RightsOK, MoneyOK
  <2>2. \A p : Keys(p)' = Keys(p)
    BY <1>2, <2>1 DEF Keys, PaymentsOf
  <2> QED
    BY <2>2 DEF OneKey
<1>12. PanelRefundIsFinal'
  BY <1>2, <1>10 DEF PanelRefundIsFinal
<1>13. ApprovalsOK'
  <2>1. \A k : Spent(k)' = Spent(k)
    BY <1>2 DEF Spent, Approves
  <2>2. \A p : Returned(p)' = Returned(p) /\ Recorded(p)' = Recorded(p)
    BY <1>2, <1>10, <2>1 DEF Returned, Recorded
  <2>3. \A p \in Purchases : purchase'[p].status = "approved" /\ purchase'[p].source = "mercadopago"
          => \E k \in Keys(p)' : Spent(k)'
    BY <1>2, <1>10, <2>1 DEF ApprovalsOK
  <2>4. \A r \in Reqs : GivesBack(req'[r]) => Recorded(req[r].purchase)' /\ Returned(req[r].purchase)'
    BY <1>2, <2>2 DEF ApprovalsOK
  <2> QED
    BY <1>2, <2>3, <2>4 DEF ApprovalsOK, GivesBack
<1> QED
  BY <1>1, <1>3, <1>4, <1>6, <1>7, <1>8, <1>9, <1>12, <1>13

\* Every step keeps it.
LEMMA NextInv == Inv /\ [Next]_vars => Inv'
<1> SUFFICES ASSUME Inv, [Next]_vars PROVE Inv'
  OBVIOUS
<1>1. CASE UNCHANGED vars
  <2>1. UNCHANGED <<purchase, events, voucher, req, offered, payment, refunds, mailed>>
    BY <1>1 DEF vars, tables, provider
  <2>2. Written' = Written
    BY <2>1 DEF Written
  <2>3. TypeOK' /\ MoneyOK' /\ Links'
    BY <2>1 DEF Inv, TypeOK, MoneyOK, Links, Recorded
  <2>4. InHand'
    BY <2>1, <2>2 DEF Inv, InHand, NotifyInHand, Subject, RowInHand, RefundInHand, VoucherInHand, NextVoucherNumber, Recorded
  <2>5. RightsOK' /\ NumbersOK'
    BY <2>1, <2>2 DEF Inv, RightsOK, MayIssue, Subject, NumbersOK, Taken
  <2>6. ApprovalsOK' /\ PanelRefundIsFinal'
    <3>1. \A p : Keys(p)' = Keys(p)
      BY <2>1 DEF Keys, PaymentsOf
    <3>2. \A p : OneKey(p)' = OneKey(p)
      BY <3>1 DEF OneKey
    <3>3. \A k : Spent(k)' = Spent(k)
      BY <2>1 DEF Spent, Approves, Subject
    <3>4. \A p : Returned(p)' = Returned(p) /\ Recorded(p)' = Recorded(p)
      BY <2>1, <3>1, <3>2, <3>3 DEF Returned, Recorded
    <3>5. PanelRefundIsFinal'
      BY <2>1, <3>2 DEF Inv, PanelRefundIsFinal
    <3>6. \A p \in Purchases : purchase'[p].status = "approved" /\ purchase'[p].source = "mercadopago"
            => \E k \in Keys(p)' : Spent(k)'
      BY <2>1, <3>1, <3>3 DEF Inv, ApprovalsOK
    <3>7. \A r \in Reqs : GivesBack(req'[r]) => Recorded(req[r].purchase)' /\ Returned(req[r].purchase)'
      BY <2>1, <3>4 DEF Inv, ApprovalsOK
    <3> QED
      BY <2>1, <3>5, <3>6, <3>7 DEF ApprovalsOK, GivesBack
  <2>7. EntitledOnlyIfPaid' /\ RefundedMeansReturned'
    BY <2>1 DEF Inv, EntitledOnlyIfPaid, RefundedMeansReturned
  <2>8. SentCountNeverLies' /\ OneReceiptPerApproval'
    BY <2>1, <2>2 DEF Inv, SentCountNeverLies, OneReceiptPerApproval
  <2> QED
    BY <2>3, <2>4, <2>5, <2>6, <2>7, <2>8 DEF Inv
<1>2. ASSUME NEW r \in Reqs, Begin(r) \/ Continue(r) \/ Fail(r)
      PROVE  Inv'
  BY <1>2, StepInv DEF Step
<1>3. ASSUME NEW x \in Payments, Pay(x) \/ Decide(x)
      PROVE  Inv'
  BY <1>3, ProviderInv
<1> QED
  BY <1>1, <1>2, <1>3 DEF Next

\* The invariant holds always: the fact the other theorems are drawn from.
THEOREM Invariance == Spec => []Inv
  BY InitInv, NextInv, PTL DEF Spec

\* Every table, request and record of the provider keeps its type.
THEOREM TypeCorrectness == Spec => []TypeOK
<1>1. Inv => TypeOK
  BY DEF Inv
<1> QED
  BY <1>1, Invariance, PTL

\* Whatever notifications arrive, late, repeated or out of order, a buyer is entitled only by
\* a payment the provider approved or by a sale recorded by hand (payments.ts, webhook).
THEOREM EntitlementsArePaid == Spec => []EntitledOnlyIfPaid
<1>1. Inv => EntitledOnlyIfPaid
  BY DEF Inv
<1> QED
  BY <1>1, Invariance, PTL

\* The unique key of payment_events keeps the repetitions of a notification, whatever runs at
\* the same time, from issuing two receipts under one key: two receipts of the same money came
\* under two keys (payments.ts, claimEvent).
THEOREM ApprovalsIssueOneReceipt == Spec => []OneReceiptPerApproval
<1>1. Inv => OneReceiptPerApproval
  BY DEF Inv
<1> QED
  BY <1>1, Invariance, PTL

\* A sale marked refunded had its money returned, wherever the refund was asked for and
\* whichever invocation was cut short (sales.ts, refundSale).
THEOREM RefundsAreReturned == Spec => []RefundedMeansReturned
<1>1. Inv => RefundedMeansReturned
  BY DEF Inv
<1> QED
  BY <1>1, Invariance, PTL

\* A sale the panel gave back stays given back unless its approval came under two keys
\* (sales.ts, refundSale; payments.ts, webhook).
THEOREM PanelRefundsAreFinal == Spec => []PanelRefundIsFinal
<1>1. Inv => PanelRefundIsFinal
  BY DEF Inv
<1> QED
  BY <1>1, Invariance, PTL

\* A voucher never claims more deliveries than there were (vouchers.ts, sendVoucher).
THEOREM SentCountsAreTrue == Spec => []SentCountNeverLies
<1>1. Inv => SentCountNeverLies
  BY DEF Inv
<1> QED
  BY <1>1, Invariance, PTL

-----------------------------------------------------------------------------
(* The promise about receipts. *)

\* The line of each voucher in the book.
Lines == [v \in Vouchers |-> [receipt |-> v, number |-> voucher[v].number,
                              sale |-> voucher[v].purchase,
                              void |-> voucher[v].status = "void"]]

\* The book is the lines of the vouchers written, each known by its receipt.
LEMMA BookLines ==
    /\ Book = {Lines[v] : v \in Written} /\ Book' = {Lines'[v] : v \in Written'}
    /\ \A v \in Vouchers : Lines[v].receipt = v
  BY DEF Book, Lines, Written

\* The book has one line for every voucher.
LEMMA BookSize ==
    ASSUME IsFiniteSet(Written)
    PROVE  Cardinality(Book) = Cardinality(Written)
<1> DEFINE f == [v \in Written |-> Lines[v]]
<1>1. Written \subseteq Vouchers
  BY DEF Written
<1>2. f \in [Written -> Book] /\ \A v \in Written : f[v].receipt = v
  BY <1>1, BookLines
<1>3. \A b \in Book : \E v \in Written : f[v] = b
  BY BookLines
<1> HIDE DEF f
<1>4. f \in Bijection(Written, Book)
  BY <1>2, <1>3 DEF Bijection, Injection, Surjection, IsInjective
<1>5. ExistsBijection(Written, Book)
  BY <1>4 DEF ExistsBijection
<1> QED
  BY <1>5, FS_Bijection

\* A step that leaves number, sale and validity of every voucher leaves the book.
LEMMA QuietBook ==
    ASSUME Written' = Written,
           \A v \in Written : /\ voucher'[v].number = voucher[v].number
                              /\ voucher'[v].purchase = voucher[v].purchase
                              /\ voucher'[v].status = voucher[v].status
    PROVE  Book' = Book
  BY DEF Book

\* Voiding a voucher that is valid voids its line.
LEMMA VoidBook ==
    ASSUME TypeOK, NEW v \in Written, voucher[v].status # "void",
           voucher' = [voucher EXCEPT ![v].status = "void"]
    PROVE  \E b \in Book : Promise!Void(b)
<1>1. v \in Vouchers /\ voucher[v] \in VoucherRow
  BY DEF Written, TypeOK
<1>2. /\ \A w \in Vouchers \ {v} : voucher'[w] = voucher[w]
      /\ voucher'[v].number = voucher[v].number /\ voucher'[v].purchase = voucher[v].purchase
      /\ voucher'[v].status = "void"
  BY <1>1 DEF TypeOK, VoucherRow
<1>3. Written' = Written
  BY <1>1, <1>2 DEF Written
<1>4. Book' = {Lines'[w] : w \in Written}
  BY <1>3, BookLines
<1>5. \A w \in Written \ {v} : Lines'[w] = Lines[w]
  BY <1>2 DEF Written, Lines
<1>6. Lines'[v] = [Lines[v] EXCEPT !.void = TRUE]
  <2>1. (voucher'[v].status = "void") = TRUE
    BY <1>2
  <2>2. Lines'[v] = [receipt |-> v, number |-> voucher[v].number,
                     sale |-> voucher[v].purchase, void |-> TRUE]
    BY <1>1, <1>2, <2>1, Zenon DEF Lines
  <2> DEFINE n == voucher[v].number
             s == voucher[v].purchase
             b == voucher[v].status = "void"
             t == TRUE
  <2>3. Lines[v] = [receipt |-> v, number |-> n, sale |-> s, void |-> b]
    BY <1>1, Zenon DEF Lines
  <2> HIDE DEF n, s, b
  <2>4. [[receipt |-> v, number |-> n, sale |-> s, void |-> b] EXCEPT !.void = TRUE]
        = [receipt |-> v, number |-> n, sale |-> s, void |-> TRUE]
    <3>1. [[receipt |-> v, number |-> n, sale |-> s, void |-> b] EXCEPT !.void = t]
          = [receipt |-> v, number |-> n, sale |-> s, void |-> t]
      <4> HIDE DEF t
      <4> QED
        OBVIOUS
    <3> QED
      BY <3>1, Zenon
  <2> QED
    BY <2>2, <2>3, <2>4, Zenon DEF n, s
<1>7. \A w \in Written \ {v} : Lines[w] # Lines[v]
  BY <1>1, BookLines DEF Written
<1>8. Book' = (Book \ {Lines[v]}) \cup {Lines'[v]}
  BY <1>4, <1>5, <1>7, BookLines
<1>9. Lines[v] \in Book
  BY BookLines
<1> QED
  BY <1>6, <1>8, <1>9 DEF Promise!Void

\* The book counts as the sales do.
LEMMA SameCount == Promise!Cardinality(Book) = Cardinality(Book)
  BY DEF Promise!Cardinality, Cardinality

\* Writing a voucher adds its line, under the next number.
LEMMA WriteBook ==
    ASSUME Inv, NEW r \in Reqs, NEW v \in Vouchers, Writes(r, v)
    PROVE  \E sale \in Purchases : Promise!Issue(v, sale)
<1>1. /\ voucher' = [voucher EXCEPT ![v] =
           [status |-> "issued", number |-> req[r].number, purchase |-> req[r].purchase,
            by |-> IssuedBy(req[r]), sent |-> 0]]
      /\ v \notin Written /\ req[r].stage = "insert" /\ ~Taken(req[r].number)
  BY DEF Writes
<1>2. /\ \A w \in Vouchers \ {v} : voucher'[w] = voucher[w]
      /\ voucher'[v].number = req[r].number /\ voucher'[v].purchase = req[r].purchase
      /\ voucher'[v].status = "issued"
  BY <1>1 DEF Inv, TypeOK
<1>3. Written' = Written \cup {v}
  BY <1>2 DEF Written
<1>4. req[r].purchase \in Purchases
  BY <1>1, RequestFields DEF Inv, TypeOK, InHand, VoucherInHand
<1>5. IsFiniteSet(Written) /\ Cardinality(Written) \in Nat
  BY FS_CardinalityType DEF Inv, NumbersOK
<1>6. req[r].number = Cardinality(Book) + 1
  <2>1. req[r].number \in 1 .. Cardinality(Written) + 1
    BY <1>1 DEF Inv, InHand, VoucherInHand, NextVoucherNumber
  <2>2. req[r].number = Cardinality(Written) + 1
    BY <1>1, <1>5, <2>1 DEF Inv, NumbersOK
  <2> QED
    BY <1>5, <2>2, BookSize
<1>7. \A w \in Written : Lines'[w] = Lines[w]
  BY <1>1, <1>2 DEF Written, Lines
<1>8. Lines'[v] = [receipt |-> v, number |-> Cardinality(Book) + 1, sale |-> req[r].purchase,
                   void |-> FALSE]
  BY <1>2, <1>6 DEF Lines
<1>9. \A b \in Book : b.receipt # v
  BY <1>1, BookLines DEF Written
<1>10. Book' = Book \cup {Lines'[v]}
  BY <1>3, <1>7, BookLines
<1> QED
  BY <1>4, <1>8, <1>9, <1>10, SameCount DEF Promise!Issue

\* Every step of the sales is a step of the book, or none.
LEMMA BookStep ==
    ASSUME Inv, [Next]_vars
    PROVE  [Promise!Next]_Book
<1>1. CASE UNCHANGED voucher
  <2>1. Book' = Book
    BY <1>1, QuietBook DEF Written
  <2> QED
    BY <2>1
<1>2. ASSUME NEW v \in Vouchers, voucher' = [voucher EXCEPT ![v].status = "void"],
             voucher[v].status # "none"
      PROVE  [Promise!Next]_Book
  <2>1. CASE voucher[v].status = "void"
    <3>1. Written' = Written /\ \A w \in Vouchers :
            /\ voucher'[w].number = voucher[w].number /\ voucher'[w].purchase = voucher[w].purchase
            /\ voucher'[w].status = voucher[w].status
      BY <1>2, <2>1 DEF Inv, TypeOK, VoucherRow, Written
    <3>2. Book' = Book
      BY <3>1, QuietBook DEF Written
    <3> QED
      BY <3>2
  <2>2. CASE voucher[v].status # "void"
    BY <1>2, <2>2, VoidBook DEF Inv, Written, Promise!Next
  <2> QED
    BY <2>1, <2>2
<1>3. ASSUME NEW v \in Vouchers, NEW n \in Nat, voucher' = [voucher EXCEPT ![v].sent = n]
      PROVE  [Promise!Next]_Book
  <2>1. Written' = Written /\ \A w \in Vouchers :
          /\ voucher'[w].number = voucher[w].number /\ voucher'[w].purchase = voucher[w].purchase
          /\ voucher'[w].status = voucher[w].status
    BY <1>3 DEF Inv, TypeOK, VoucherRow, Written
  <2>2. Book' = Book
    BY <2>1, QuietBook DEF Written
  <2> QED
    BY <2>2
<1>4. ASSUME NEW r \in Reqs, NEW v \in Vouchers, Writes(r, v)
      PROVE  [Promise!Next]_Book
  BY <1>4, WriteBook DEF Promise!Next
<1>5. ASSUME NEW r \in Reqs, Begin(r) \/ Continue(r) \/ Fail(r)
      PROVE  [Promise!Next]_Book
  <2>1. TypeOK /\ Hand(req[r]) /\ Step(r)
    BY <1>5 DEF Inv, InHand, Hand, Step
  <2> QED
    BY <1>1, <1>2, <1>3, <1>4, <2>1, StepVouchers
<1>6. CASE UNCHANGED vars \/ \E x \in Payments : Pay(x) \/ Decide(x)
  <2>1. UNCHANGED voucher
    BY <1>6 DEF vars, tables, Pay, Decide
  <2> QED
    BY <1>1, <2>1
<1> QED
  BY <1>5, <1>6 DEF Next

\* However many invocations count and insert at the same time, vouchers are numbered from one
\* without gaps or repetitions, never rewritten and only ever voided (vouchers.ts).
THEOREM BookIsKept == Spec => KeepsTheBook
<1>1. Init => Promise!Init
  BY DEF Init, Promise!Init, Book, Written, NoVoucher
<1>2. Inv /\ [Next]_vars => [Promise!Next]_Book
  BY BookStep
<1> QED
  BY <1>1, <1>2, Invariance, PTL DEF Spec, KeepsTheBook, Promise!Spec
=============================================================================
