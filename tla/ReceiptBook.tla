----------------------------- MODULE ReceiptBook -----------------------------
(***************************************************************************)
(* What apps/marketplace promises of its vouchers: they are numbered       *)
(* consecutively in the order they are issued, a receipt is never edited   *)
(* and never removed, and a void one never becomes valid again.            *)
(***************************************************************************)
EXTENDS Naturals, FiniteSets

CONSTANTS Receipts, Sales

VARIABLES book  \* the receipts issued: number, sale, and whether it was voided

Issue(receipt, sale) ==
    /\ \A b \in book : b.receipt # receipt
    /\ book' = book \cup {[receipt |-> receipt, number |-> Cardinality(book) + 1,
                            sale |-> sale, void |-> FALSE]}

Void(b) == book' = (book \ {b}) \cup {[b EXCEPT !.void = TRUE]}

Init == book = {}

Next ==
    \/ \E receipt \in Receipts, sale \in Sales : Issue(receipt, sale)
    \/ \E b \in book : Void(b)

Spec == Init /\ [][Next]_book
=============================================================================
