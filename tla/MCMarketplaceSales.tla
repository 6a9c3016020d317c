------------------------- MODULE MCMarketplaceSales -------------------------
(***************************************************************************)
(* Instances of MarketplaceSales for TLC.                                  *)
(***************************************************************************)
EXTENDS MarketplaceSales, TLC

CONSTANTS a1, p1, p2, x1, x2, v1, v2, v3, r1, r2, r3, r4

\* One sale, its notifications, and an editor who refunds it and handles its receipts.
SalesDuty ==
    r1 :> {"checkout", "manual"} @@ r2 :> {"notify"} @@ r3 :> {"notify", "order", "refund"}
    @@ r4 :> {"notify", "refund", "issue", "void", "resend"}

\* One sale by the provider, notified three times.
MediationDuty == r1 :> {"checkout"} @@ r2 :> {"notify"} @@ r3 :> {"notify"} @@ r4 :> {"notify"}

\* One sale by the provider, notified twice.
GivenBackDuty == r1 :> {"checkout"} @@ r2 :> {"notify"} @@ r3 :> {"notify"}

\* One sale by hand, and two editors who ask for its receipt.
ReceiptDuty == r1 :> {"manual"} @@ r2 :> {"issue"} @@ r3 :> {"issue"}

SalesSymmetry == Permutations({v1, v2})

=============================================================================
