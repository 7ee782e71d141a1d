------------------------------ MODULE MCPurchase ------------------------------
(***************************************************************************)
(* Instances of PurchaseReceiving.                                         *)
(***************************************************************************)
EXTENDS PurchaseProperties

CONSTANTS r1, r2, b1, b2

L(i, n) == [item |-> i, qty |-> n]

(* Requests interleave freely on an order of one item: both receipts fit   *)
(* the order alone and exceed it together, one of them is confirmed twice, *)
(* and cancel races the automatic close.                                   *)
AnyOrdered == [i \in Items |-> 2]
AnyReceiptLines == [r \in Receipts |-> IF r = r1 THEN <<L(1, 1)>> ELSE <<L(1, 2)>>]
AnyBillLines == [b \in Bills |-> <<L(1, 1)>>]
AnyOp == [issue |-> "issue", cancel |-> "cancel",
          receive1 |-> "createReceipt", confirm1 |-> "confirmReceipt",
          again1 |-> "confirmReceipt",
          receive2 |-> "createReceipt", confirm2 |-> "confirmReceipt",
          bill1 |-> "createBill", approve1 |-> "approveBill",
          short |-> "shortCloseLine"]
AnyTarget == [issue |-> Nobody, cancel |-> Nobody,
              receive1 |-> r1, confirm1 |-> r1, again1 |-> r1,
              receive2 |-> r2, confirm2 |-> r2,
              bill1 |-> b1, approve1 |-> b1, short |-> 1]
AnyRequests == DOMAIN AnyOp
AnyQuantity == [q \in Requests |-> 1]

(* One request at a time, on an order of two items, the second of which is *)
(* added later.  Receipts and bills split the first item, and a receipt of *)
(* both items can leave the second one short.                              *)
SerialOrdered == [i \in Items |-> IF i = 1 THEN 2 ELSE 0]
SerialReceiptLines == [r \in Receipts |->
                         IF r = r1 THEN <<L(1, 1), L(2, 1)>> ELSE <<L(1, 1)>>]
SerialBillLines == [b \in Bills |->
                      IF b = b1 THEN <<L(1, 1)>> ELSE <<L(1, 1), L(2, 1)>>]
SerialOp == [cancel |-> "cancel",
             add |-> "addItem", update |-> "updateItem",
             receive1 |-> "createReceipt", confirm1 |-> "confirmReceipt",
             receive2 |-> "createReceipt", confirm2 |-> "confirmReceipt",
             bill1 |-> "createBill",
             bill2 |-> "createBill", approve2 |-> "approveBill",
             shortAll |-> "shortCloseAll",
             reopen |-> "reopenLine"]
SerialTarget == [cancel |-> Nobody, add |-> 2, update |-> 1,
                 receive1 |-> r1, confirm1 |-> r1,
                 receive2 |-> r2, confirm2 |-> r2,
                 bill1 |-> b1, bill2 |-> b2, approve2 |-> b2,
                 shortAll |-> Nobody, reopen |-> 2]
SerialRequests == DOMAIN SerialOp
SerialQuantity == [q \in Requests |-> IF q = "update" THEN 1 ELSE 3]

(* Two receipts of one item, each drafted and confirmed by itself, one     *)
(* request at a time.                                                      *)
TwoReceiptsOp == [receive1 |-> "createReceipt", confirm1 |-> "confirmReceipt",
                  receive2 |-> "createReceipt", confirm2 |-> "confirmReceipt"]
TwoReceiptsTarget == [receive1 |-> r1, confirm1 |-> r1,
                      receive2 |-> r2, confirm2 |-> r2]
TwoReceiptsRequests == DOMAIN TwoReceiptsOp
TwoReceiptsQuantity == [q \in Requests |-> 1]

\* What the theorems about one request at a time ask of an instance is so in
\* those that run one at a time.
ASSUME SerialAssumption == OneAtATime => OneLinePerItem /\ NoLineIsShortClosed
=============================================================================
