--------------------------- MODULE MarketplaceSales ---------------------------
(***************************************************************************)
(* The sales of one paid product of apps/marketplace: checkout, the        *)
(* provider's notifications, refunds from the editors' panel, sales        *)
(* recorded by hand, and the vouchers that are their receipts.  As in      *)
(* AuthSessions an action is one await of one invocation (a D1 statement,  *)
(* a call to the provider, an e-mail) with the pure code after it.  The    *)
(* provider (Mercado Pago) is external: it moves payments along, and it    *)
(* notifies late, repeatedly and in any order.                             *)
(***************************************************************************)
EXTENDS Naturals, FiniteSets

CONSTANTS
    Accounts,       \* buyers
    Purchases,      \* identifiers of rows of `purchases`
    Payments,       \* identifiers of payments at the provider
    Vouchers,       \* identifiers of rows of `sale_vouchers`
    Reqs,           \* HTTP requests, each served by one Worker invocation
    None,           \* the absent value
    NumberAttempts, \* how often a voucher number that is taken is tried again
    Duty,           \* bound: what each request may be: an endpoint, "order" its notifications of orders
    MayFail,        \* bound: the requests whose invocation may be cut short
    Overlap         \* bound: whether requests may run at the same time

Amounts == {"part", "total"}
Kinds == {"checkout", "notify", "order", "refund", "manual", "issue", "void", "resend"}

ASSUME SalesAssumption ==
    /\ None \notin Accounts \cup Purchases \cup Payments \cup Vouchers \cup Amounts
    /\ Payments \cap Purchases = {}
    /\ NumberAttempts \in Nat \ {0}
    /\ Duty \in [Reqs -> SUBSET Kinds]
    /\ Overlap \in BOOLEAN

VARIABLES
    purchase,   \* table purchases
    events,     \* table payment_events: the claimed transitions
    voucher,    \* table sale_vouchers
    req,        \* the invocations
    offered,    \* provider: the purchases whose preference a buyer can pay
    payment,    \* provider: the payments
    refunds,    \* provider: the refunds made through its API, <<payment, amount>>
    mailed      \* history: how many e-mails of each voucher were accepted

tables == <<purchase, events, voucher>>
provider == <<offered, payment, refunds>>
vars == <<tables, req, provider, mailed>>

-----------------------------------------------------------------------------
(* Rows.  Timestamps are reduced to whether they are set. *)

Statuses == {"pending", "in_process", "approved", "rejected", "refunded", "charged_back"}

PurchaseRow == [status : Statuses \cup {"none"}, source : {"mercadopago", "manual"},
                account : Accounts \cup {None}, payment : Payments \cup {None},
                approvedAt : BOOLEAN, refundedAt : BOOLEAN, chargedBackAt : BOOLEAN,
                refundedAmount : Amounts \cup {None}]
NoPurchase == [status |-> "none", source |-> "mercadopago", account |-> None, payment |-> None,
               approvedAt |-> FALSE, refundedAt |-> FALSE, chargedBackAt |-> FALSE,
               refundedAmount |-> None]

\* What an event key names: a payment, or the order of a sale.
Subjects == Payments \cup Purchases

\* `by` is history: what the key of the approval that issued the voucher names, None for an
\* editor's.
VoucherRow == [status : {"none", "issued", "void"}, number : Nat,
               purchase : Purchases \cup {None}, by : Subjects \cup {None}, sent : Nat]
NoVoucher == [status |-> "none", number |-> 0, purchase |-> None, by |-> None, sent |-> 0]

\* What the provider says of a payment.  `settled` (it was approved once) and `answered`
\* (what it says now has been notified, and the notification taken) are history.
ProviderStatuses == {"none", "in_process", "approved", "in_mediation", "rejected",
                     "refunded", "charged_back"}
PaymentRecord == [status : ProviderStatuses, purchase : Purchases \cup {None},
                  settled : BOOLEAN, answered : BOOLEAN]
NoPayment == [status |-> "none", purchase |-> None, settled |-> FALSE, answered |-> FALSE]

Stages == {"idle", "pend", "prefer", "lookup", "claim", "apply", "ask", "record",
           "existing", "live", "void", "count", "insert", "send", "sent", "done"}
Outcomes == {"none", "ok", "failed"}

\* What an invocation has in its local variables; `row` is the purchase as it read it.
Request == [kind : Kinds \cup {"none"}, stage : Stages, outcome : Outcomes,
            account : Accounts \cup {None}, purchase : Purchases \cup {None},
            payment : Payments \cup {None}, status : Statuses \cup {"none"},
            row : PurchaseRow, amount : Amounts \cup {None},
            voucher : Vouchers \cup {None}, number : Nat, tries : Nat, count : Nat]
NoRequest == [kind |-> "none", stage |-> "idle", outcome |-> "none", account |-> None,
              purchase |-> None, payment |-> None, status |-> "none", row |-> NoPurchase,
              amount |-> None, voucher |-> None, number |-> 0, tries |-> 0, count |-> 0]

TypeOK ==
    /\ purchase \in [Purchases -> PurchaseRow]
    /\ events \subseteq Subjects \X Statuses
    /\ voucher \in [Vouchers -> VoucherRow]
    /\ req \in [Reqs -> Request]
    /\ offered \subseteq Purchases
    /\ payment \in [Payments -> PaymentRecord]
    /\ refunds \subseteq Payments \X Amounts
    /\ mailed \in [Vouchers -> Nat]

Recorded(p) == purchase[p].status # "none"
Written == {v \in Vouchers : voucher[v].status # "none"}
LiveVouchers(p) == {v \in Vouchers : voucher[v].status = "issued" /\ voucher[v].purchase = p}

-----------------------------------------------------------------------------
(* Moving an invocation along.  An operator Faulty<Name> before a definition <Name> is *)
(* the definition with a defect: no action uses it, the properties are checked to fail *)
(* when it takes the place of <Name>.                                                 *)

Resting(r) == req[r].stage \in {"idle", "done"}
Idle(r, kind) ==
    /\ req[r].stage = "idle" /\ kind \in Duty[r]
    /\ Overlap \/ \A x \in Reqs : Resting(x)
At(r, stage) == req[r].stage = stage
Goto(r, stage) == req' = [req EXCEPT ![r].stage = stage]
\* The local variables die with the invocation; what it was about is kept as history.
Ended(q, outcome) == [NoRequest EXCEPT !.kind = q.kind, !.purchase = q.purchase,
                                       !.stage = "done", !.outcome = outcome]
End(r, outcome) == req' = [req EXCEPT ![r] = Ended(@, outcome)]

-----------------------------------------------------------------------------
(* POST /products/:slug/checkout *)

Entitled(a) == \E p \in Purchases : purchase[p].status = "approved" /\ purchase[p].account = a

\* A paid product is sold once to an account that has it.
BeginCheckout(r) ==
    /\ Idle(r, "checkout")
    /\ \E a \in Accounts :
        /\ ~Entitled(a)
        /\ req' = [req EXCEPT ![r] = [@ EXCEPT !.kind = "checkout", !.stage = "pend",
                                               !.account = a]]
    /\ UNCHANGED <<tables, provider, mailed>>

\* The row exists before the buyer is sent anywhere: its reference finds it again.
CreatePendingPurchase(r) ==
    /\ At(r, "pend")
    /\ \E p \in Purchases :
        /\ ~Recorded(p)
        /\ purchase' = [purchase EXCEPT ![p] = [NoPurchase EXCEPT !.status = "pending",
                                                                  !.account = req[r].account]]
        /\ req' = [req EXCEPT ![r] = [@ EXCEPT !.stage = "prefer", !.purchase = p]]
    /\ UNCHANGED <<events, voucher, provider, mailed>>

\* The provider is asked for a preference; if it fails the pending row stays behind.
\* attachPreference, which follows, writes a column nothing here reads.
CreatePreference(r) ==
    /\ At(r, "prefer")
    /\ \/ /\ offered' = offered \cup {req[r].purchase}
          /\ End(r, "ok")
       \/ /\ End(r, "failed")
          /\ UNCHANGED offered
    /\ UNCHANGED <<tables, payment, refunds, mailed>>

-----------------------------------------------------------------------------
(* The provider. *)

\* A buyer pays a preference; more than one attempt can be made at it.
Pay(x) ==
    /\ payment[x].status = "none"
    /\ \E p \in offered, verdict \in {"in_process", "approved"} :
        payment' = [payment EXCEPT ![x] = [status |-> verdict, purchase |-> p,
                                           settled |-> verdict = "approved",
                                           answered |-> FALSE]]
    /\ UNCHANGED <<tables, req, offered, refunds, mailed>>

\* A payment is decided, disputed, and given back from the provider's own console.
Verdicts == [in_process |-> {"approved", "rejected"},
             approved |-> {"in_mediation", "refunded", "charged_back"},
             in_mediation |-> {"approved", "refunded", "charged_back"}]
Decide(x) ==
    /\ payment[x].status \in DOMAIN Verdicts
    /\ \E verdict \in Verdicts[payment[x].status] :
        payment' = [payment EXCEPT ![x] =
                      [@ EXCEPT !.status = verdict, !.answered = FALSE,
                                !.settled = payment[x].settled \/ verdict = "approved"]]
    /\ UNCHANGED <<tables, req, offered, refunds, mailed>>

-----------------------------------------------------------------------------
(* POST /payments/mercadopago/webhook *)

FaultyMapPaymentStatus(status) == status
MapPaymentStatus(status) == IF status = "in_mediation" THEN "in_process" ELSE status

PaymentsOf(p) == {x \in Payments : payment[x].purchase = p}

\* The order of a sale is the sum of its payments: what it says is what one of them came to,
\* in its own words, of which it has none for a dispute.
OrderStates(p) ==
    LET state == [in_process |-> "processing", approved |-> "processed",
                  in_mediation |-> "processed", rejected |-> "failed",
                  refunded |-> "refunded", charged_back |-> "charged_back"]
    IN  IF PaymentsOf(p) = {} THEN {"created"} ELSE {state[payment[x].status] : x \in PaymentsOf(p)}

MapOrderStatus(state) ==
    LET words == [created |-> "pending", processing |-> "in_process", processed |-> "approved",
                  failed |-> "rejected"]
    IN  IF state \in DOMAIN words THEN words[state] ELSE state

\* What a notification comes to: the payment x it carries, the sale p it names and a status,
\* which is read back from the provider, never taken from the body.  An order may list no
\* payment, and of several it is the first that is carried.  A chargeback says of itself what
\* it is, and names no sale.
FaultyResolvesPayment(x, p, status) ==
    x # None /\ payment[x].status # "none" /\ p = payment[x].purchase /\ status = "approved"
ResolvesPayment(x, p, status) ==
    /\ x # None /\ payment[x].status # "none"
    /\ p = payment[x].purchase /\ status = MapPaymentStatus(payment[x].status)
ResolvesOrder(x, p, status) ==
    /\ p \in offered /\ x \in PaymentsOf(p) \cup {None}
    /\ status \in {MapOrderStatus(state) : state \in OrderStates(p)}
ResolvesChargeback(x, p, status) ==
    /\ x # None /\ payment[x].status = "charged_back"
    /\ p = None /\ status = "charged_back"

\* Notifications are repeated, delayed and reordered: anything may be notified at any time.
BeginNotify(r) ==
    /\ \E x \in Payments \cup {None}, p \in Purchases \cup {None}, status \in Statuses :
        /\ \/ Idle(r, "notify") /\ (ResolvesPayment(x, p, status) \/ ResolvesChargeback(x, p, status))
           \/ Idle(r, "order") /\ ResolvesOrder(x, p, status)
        /\ req' = [req EXCEPT ![r] = [@ EXCEPT !.kind = "notify", !.stage = "lookup",
                                               !.payment = x, !.status = status,
                                               !.purchase = p]]
    /\ UNCHANGED <<tables, provider, mailed>>

\* By our own reference, which the provider echoes; a chargeback only by the payment's id.
FindPurchase(r) ==
    /\ At(r, "lookup")
    /\ LET byPayment == {p \in Purchases : purchase[p].payment = req[r].payment}
           found == IF req[r].purchase # None THEN {req[r].purchase} ELSE byPayment
       IN  \/ \E p \in found :
                req' = [req EXCEPT ![r] = [@ EXCEPT !.stage = "claim", !.purchase = p,
                                                    !.row = purchase[p]]]
           \/ /\ found = {}
              /\ Goto(r, "claim")
    /\ UNCHANGED <<tables, provider, mailed>>

\* The key of a transition names the payment that was carried, or else the order.
Subject(q) == IF q.payment # None THEN q.payment ELSE q.purchase

FaultyFresh(k, status) == TRUE
Fresh(k, status) == <<k, status>> \notin events

\* The transition is recorded before it is applied, under a unique key.
ClaimEvent(r) ==
    /\ At(r, "claim")
    /\ LET k == Subject(req[r])
           status == req[r].status
           known == req[r].purchase # None
       IN  /\ events' = events \cup {<<k, status>>}
           /\ payment' = [x \in Payments |-> [payment[x] EXCEPT !.answered =
                 @ \/ (x = req[r].payment /\ status = MapPaymentStatus(payment[x].status))]]
           /\ \/ /\ Fresh(k, status) /\ known
                 /\ Goto(r, "apply")
              \/ /\ ~(Fresh(k, status) /\ known)
                 /\ End(r, "ok")
    /\ UNCHANGED <<purchase, voucher, offered, refunds, mailed>>

\* What applyPaymentStatus makes of the row it was given: every stamp is kept if it has one.
Applied(row, status, x, amount) ==
    [row EXCEPT !.status = status,
                !.payment = IF x # None THEN x ELSE row.payment,
                !.approvedAt = row.approvedAt \/ status = "approved",
                !.refundedAt = row.refundedAt \/ status = "refunded",
                !.chargedBackAt = row.chargedBackAt \/ status = "charged_back",
                !.refundedAmount = IF status = "refunded" /\ row.refundedAmount = None
                                   THEN amount ELSE row.refundedAmount]

\* The row is written as it was read, changed; not as it is now.
ApplyNotified(r) ==
    /\ At(r, "apply")
    /\ purchase' = [purchase EXCEPT ![req[r].purchase] =
                      Applied(req[r].row, req[r].status, req[r].payment, "total")]
    /\ \/ /\ req[r].status = "approved"
          /\ Goto(r, "existing")
       \/ /\ req[r].status # "approved"
          /\ End(r, "ok")
    /\ UNCHANGED <<events, voucher, provider, mailed>>

-----------------------------------------------------------------------------
(* POST /products/:productId/sales/:saleId/refund *)

\* The provider is asked first, the row is written second; by hand there is nobody to ask.
FaultyRefundStage(row) == "record"
RefundStage(row) == IF row.source = "manual" THEN "record" ELSE "ask"

\* Only an approved sale is refunded, and a provider's only if its payment is known.
BeginRefund(r) ==
    /\ Idle(r, "refund")
    /\ \E p \in Purchases, amount \in Amounts :
        /\ purchase[p].status = "approved"
        /\ purchase[p].source = "manual" \/ purchase[p].payment # None
        /\ req' = [req EXCEPT ![r] = [@ EXCEPT !.kind = "refund", !.purchase = p,
                                               !.row = purchase[p], !.amount = amount,
                                               !.payment = purchase[p].payment,
                                               !.stage = RefundStage(purchase[p])]]
    /\ UNCHANGED <<tables, provider, mailed>>

\* The idempotency key is the purchase and the amount: asked again, the provider answers
\* with the refund it made.  Otherwise it returns money of an approved payment, or refuses.
RefundPayment(r) ==
    /\ At(r, "ask")
    /\ LET x == req[r].payment
           key == <<x, req[r].amount>>
       IN  \/ /\ key \in refunds \/ payment[x].status = "approved"
              /\ refunds' = refunds \cup {key}
              /\ payment' = [payment EXCEPT ![x].status =
                               IF key \notin refunds /\ req[r].amount = "total"
                               THEN "refunded" ELSE @]
              /\ Goto(r, "record")
           \/ /\ End(r, "failed")
              /\ UNCHANGED <<refunds, payment>>
    /\ UNCHANGED <<tables, offered, mailed>>

RecordRefund(r) ==
    /\ At(r, "record")
    /\ purchase' = [purchase EXCEPT ![req[r].purchase] =
                      Applied(req[r].row, "refunded", None, req[r].amount)]
    /\ End(r, "ok")
    /\ UNCHANGED <<events, voucher, provider, mailed>>

-----------------------------------------------------------------------------
(* POST /products/:productId/sales, and the vouchers. *)

\* A sale for cash is approved as it is written; its voucher can be asked for or not.
CreateManualSale(r) ==
    /\ Idle(r, "manual")
    /\ \E p \in Purchases, a \in Accounts \cup {None}, stage \in {"live", "done"} :
        /\ ~Recorded(p)
        /\ purchase' = [purchase EXCEPT ![p] =
                          [NoPurchase EXCEPT !.status = "approved", !.source = "manual",
                                             !.account = a, !.approvedAt = TRUE]]
        /\ req' = [req EXCEPT ![r] = [@ EXCEPT !.kind = "manual", !.purchase = p,
                                               !.stage = stage,
                                               !.outcome = IF stage = "done" THEN "ok" ELSE "none"]]
    /\ UNCHANGED <<events, voucher, provider, mailed>>

\* POST .../vouchers: of any sale there is, whatever its status.
BeginIssue(r) ==
    /\ Idle(r, "issue")
    /\ \E p \in Purchases :
        /\ Recorded(p)
        /\ req' = [req EXCEPT ![r] = [@ EXCEPT !.kind = "issue", !.stage = "live",
                                               !.purchase = p]]
    /\ UNCHANGED <<tables, provider, mailed>>

\* POST .../vouchers/:voucherId/void: a void one is left alone.
BeginVoid(r) ==
    /\ Idle(r, "void")
    /\ \E v \in Vouchers :
        /\ voucher[v].status = "issued"
        /\ req' = [req EXCEPT ![r] = [@ EXCEPT !.kind = "void", !.stage = "void",
                                               !.voucher = v]]
    /\ UNCHANGED <<tables, provider, mailed>>

\* POST .../vouchers/:voucherId/send
BeginResend(r) ==
    /\ Idle(r, "resend")
    /\ \E v \in Vouchers :
        /\ voucher[v].status = "issued"
        /\ req' = [req EXCEPT ![r] = [@ EXCEPT !.kind = "resend", !.stage = "send",
                                               !.voucher = v, !.count = voucher[v].sent]]
    /\ UNCHANGED <<tables, provider, mailed>>

\* issueVoucherForApproval: a sale that has a receipt gets no other.
FindExistingVoucher(r) ==
    /\ At(r, "existing")
    /\ \/ /\ LiveVouchers(req[r].purchase) # {}
          /\ End(r, "ok")
       \/ /\ LiveVouchers(req[r].purchase) = {}
          /\ Goto(r, "live")
    /\ UNCHANGED <<tables, provider, mailed>>

\* issueVoucher: whatever is live is voided first.
FindLiveVoucher(r) ==
    /\ At(r, "live")
    /\ \/ \E v \in LiveVouchers(req[r].purchase) :
            req' = [req EXCEPT ![r] = [@ EXCEPT !.stage = "void", !.voucher = v]]
       \/ /\ LiveVouchers(req[r].purchase) = {}
          /\ Goto(r, "count")
    /\ UNCHANGED <<tables, provider, mailed>>

VoidVoucher(r) ==
    /\ At(r, "void")
    /\ voucher' = [voucher EXCEPT ![req[r].voucher].status = "void"]
    /\ \/ /\ req[r].kind = "void"
          /\ End(r, "ok")
       \/ /\ req[r].kind # "void"
          /\ Goto(r, "count")
    /\ UNCHANGED <<purchase, events, provider, mailed>>

\* The next number of the year is counted out of the table.
NextVoucherNumber == Cardinality(Written) + 1

CountVouchers(r) ==
    /\ At(r, "count")
    /\ req' = [req EXCEPT ![r] = [@ EXCEPT !.stage = "insert", !.number = NextVoucherNumber]]
    /\ UNCHANGED <<tables, provider, mailed>>

\* What the unique index on the number says.
FaultyTaken(n) == FALSE
Taken(n) == \E v \in Written : voucher[v].number = n

\* Whose approval a voucher is the receipt of, if it is one of a notification.
IssuedBy(q) == IF q.kind = "notify" THEN Subject(q) ELSE None

\* A number somebody took meanwhile is counted again, a bounded number of times.  The
\* receipt is then sent, unless the editor asked for silence.
InsertVoucher(r) ==
    /\ At(r, "insert")
    /\ \/ /\ ~Taken(req[r].number)
          /\ \E v \in Vouchers \ Written :
              /\ voucher' = [voucher EXCEPT ![v] =
                   [status |-> "issued", number |-> req[r].number,
                    purchase |-> req[r].purchase, by |-> IssuedBy(req[r]), sent |-> 0]]
              /\ \/ req' = [req EXCEPT ![r] = [@ EXCEPT !.stage = "send", !.voucher = v]]
                 \/ /\ req[r].kind # "notify"
                    /\ End(r, "ok")
       \/ /\ Taken(req[r].number) /\ req[r].tries + 1 < NumberAttempts
          /\ req' = [req EXCEPT ![r] = [@ EXCEPT !.stage = "count",
                                               !.tries = req[r].tries + 1]]
          /\ UNCHANGED voucher
       \/ /\ Taken(req[r].number) /\ req[r].tries + 1 = NumberAttempts
          /\ End(r, "failed")
          /\ UNCHANGED voucher
    /\ UNCHANGED <<purchase, events, provider, mailed>>

\* Where a receipt goes on that could not be e-mailed: it is not counted as sent.
FaultyUndelivered(r) == Goto(r, "sent")
Undelivered(r) == End(r, "failed")

SendVoucher(r) ==
    /\ At(r, "send")
    /\ \/ /\ mailed' = [mailed EXCEPT ![req[r].voucher] = @ + 1]
          /\ Goto(r, "sent")
       \/ /\ Undelivered(r)
          /\ UNCHANGED mailed
    /\ UNCHANGED <<tables, provider>>

\* The count is written from the row as it was read.
RecordSent(r) ==
    /\ At(r, "sent")
    /\ voucher' = [voucher EXCEPT ![req[r].voucher].sent = req[r].count + 1]
    /\ End(r, "ok")
    /\ UNCHANGED <<purchase, events, provider, mailed>>

Fail(r) ==
    /\ r \in MayFail /\ ~Resting(r)
    /\ End(r, "failed")
    /\ UNCHANGED <<tables, provider, mailed>>

-----------------------------------------------------------------------------
Init ==
    /\ purchase = [p \in Purchases |-> NoPurchase]
    /\ events = {}
    /\ voucher = [v \in Vouchers |-> NoVoucher]
    /\ req = [r \in Reqs |-> NoRequest]
    /\ offered = {}
    /\ payment = [x \in Payments |-> NoPayment]
    /\ refunds = {}
    /\ mailed = [v \in Vouchers |-> 0]

Begin(r) ==
    \/ BeginCheckout(r) \/ BeginNotify(r) \/ BeginRefund(r) \/ CreateManualSale(r)
    \/ BeginIssue(r) \/ BeginVoid(r) \/ BeginResend(r)

Continue(r) ==
    \/ CreatePendingPurchase(r) \/ CreatePreference(r) \/ FindPurchase(r) \/ ClaimEvent(r)
    \/ ApplyNotified(r) \/ RefundPayment(r) \/ RecordRefund(r) \/ FindExistingVoucher(r)
    \/ FindLiveVoucher(r) \/ VoidVoucher(r) \/ CountVouchers(r) \/ InsertVoucher(r)
    \/ SendVoucher(r) \/ RecordSent(r)

Next ==
    \/ \E r \in Reqs : Begin(r) \/ Continue(r) \/ Fail(r)
    \/ \E x \in Payments : Pay(x) \/ Decide(x)

Spec == Init /\ [][Next]_vars

-----------------------------------------------------------------------------
(* Safety. *)

\* Nobody is entitled to a download by money the provider never had: whatever notifications
\* arrive, of payments or of orders, and in whatever order they are applied (payments.ts, webhook).
EntitledOnlyIfPaid ==
    \A p \in Purchases : purchase[p].status = "approved" =>
        \/ purchase[p].source = "manual"
        \/ \E x \in Payments : payment[x].purchase = p /\ payment[x].settled

\* An approval issues at most one receipt under each key, however often it is notified and
\* whatever else is in flight: two receipts of one payment came under two keys, that of the
\* payment and that of the order or of another payment the order lists (payments.ts, claimEvent
\* and the code after it).
OneReceiptPerApproval ==
    \A v1, v2 \in Written : voucher[v1].by = voucher[v2].by /\ voucher[v1].by # None => v1 = v2

\* The keys under which the approval of a sale has been claimed.
Keys(p) == {k \in Subjects : /\ <<k, "approved">> \in events
                             /\ k = p \/ k \in PaymentsOf(p)}
OneKey(p) == \A j, k \in Keys(p) : j = k

\* Once the panel has given a sale back nothing entitles its buyer again, unless its approval
\* came under two keys: no notification in flight or repeated later resurrects it (sales.ts,
\* refundSale; payments.ts, webhook).
PanelRefundIsFinal ==
    \A r \in Reqs :
        req[r].kind = "refund" /\ req[r].outcome = "ok" /\ OneKey(req[r].purchase)
        => purchase[req[r].purchase].status # "approved"

\* No sale is marked refunded for money that never moved, wherever the refund was asked for
\* and even if the invocation is cut short (sales.ts, refundSale).
RefundedMeansReturned ==
    \A p \in Purchases : purchase[p].status = "refunded" =>
        \/ purchase[p].source = "manual"
        \/ \E x \in Payments : /\ payment[x].purchase = p
                               /\ \/ payment[x].status = "refunded"
                                  \/ \E amount \in Amounts : <<x, amount>> \in refunds

\* A voucher never claims more deliveries than there were, although several resends count
\* from rows they read before (vouchers.ts, sendVoucher).
SentCountNeverLies == \A v \in Written : voucher[v].sent <= mailed[v]

\* The third rule of vouchers.ts (21-22): "At most one is live per sale".  Whatever runs at the
\* same time, a sale never has two receipts that are valid.
OneLiveVoucher == \A p \in Purchases : Cardinality(LiveVouchers(p)) <= 1

\* What payments.ts says of the money that "can arrive down two topics with two event keys"
\* (365-368): "The voucher is protected from that by `findLiveVoucher`".  A sale that was paid
\* once and whose receipt nobody voided gets one receipt of its notifications.
OneReceiptPerMoney ==
    \A p \in Purchases :
        /\ \A x, y \in PaymentsOf(p) : payment[x].settled /\ payment[y].settled => x = y
        /\ \A r \in Reqs : req[r].kind \in {"none", "checkout", "notify"}
        => Cardinality({v \in Written : voucher[v].purchase = p /\ voucher[v].by # None}) <= 1

\* What the schema says of the idempotency key (schema.ts:617-622): a retry of the same
\* transition collapses, "while a genuine `pending -> approved` still gets through".  When
\* the provider says of the one payment of a sale that it is approved, has notified so and
\* was answered, and nothing is in flight, the sale is approved.
ApprovalsGetThrough ==
    \A x \in Payments :
        /\ payment[x].status = "approved" /\ payment[x].answered
        /\ \A r \in Reqs : Resting(r) /\ req[r].kind # "refund"
        /\ \A y \in Payments : payment[y].purchase = payment[x].purchase => y = x
        => purchase[payment[x].purchase].status = "approved"

\* lib/config.ts:76 says of a refund and a charge back that "both end the entitlement".  When
\* the provider has taken back the one payment of a sale, has notified so and was answered,
\* and nothing is in flight, the sale entitles nobody.
GivenBackEndsAccess ==
    \A x \in Payments :
        /\ payment[x].status \in {"refunded", "charged_back"} /\ payment[x].answered
        /\ \A r \in Reqs : Resting(r)
        /\ \A y \in Payments : payment[y].purchase = payment[x].purchase => y = x
        => purchase[payment[x].purchase].status # "approved"

-----------------------------------------------------------------------------
(* The promise about receipts. *)

Book == {[receipt |-> v, number |-> voucher[v].number, sale |-> voucher[v].purchase,
          void |-> voucher[v].status = "void"] : v \in Written}

Promise == INSTANCE ReceiptBook WITH Receipts <- Vouchers, Sales <- Purchases, book <- Book

\* Vouchers are numbered without gaps or repetitions and are only ever voided, although
\* several invocations count and insert at the same time.
KeepsTheBook == Promise!Spec
=============================================================================
