----------------------------- MODULE MCSettlement -----------------------------
(***************************************************************************)
(* Instances of InvoiceSettlement.                                         *)
(***************************************************************************)
EXTENDS SettlementProperties

L(i, n)   == [item |-> i, qty |-> n]
Pays(d, n) == [doc |-> d, amount |-> n]

SetItems      == {1, 2}
SetSaleOf     == <<"s1", "s2">>
SetReserved   == <<2, 1>>
SetDelivLines == [v1 |-> <<L(1, 1)>>, v2 |-> <<L(1, 1)>>]
SetInvSale    == [i1 |-> "s1", i2 |-> "s1", i3 |-> "s2"]
SetInvLines   == [i1 |-> <<L(1, 1)>>, i2 |-> <<L(1, 1)>>, i3 |-> <<>>]
SetAmount     == [i1 |-> 2, i2 |-> 1, i3 |-> 1, b1 |-> 2]

(* Two deliveries and two invoices finish sale s1.  The first invoice is   *)
(* revised, and paid at once or in two parts by payments that may overlap, *)
(* one of which also pays the second invoice; two payments share a bill.   *)
(* Sale s2 has nothing delivered and may be cancelled.                     *)
SettleOp == [deliver1 |-> "deliver", deliver2 |-> "deliver",
             enter1 |-> "createInvoice", enter2 |-> "createInvoice",
             enter3 |-> "createInvoice",
             revise1 |-> "update", approve1 |-> "approveInvoice",
             approve2 |-> "approveInvoice",
             cancel |-> "cancelSale",
             payA |-> "pay", payB |-> "pay", payAll |-> "pay",
             payBillA |-> "pay", payBillB |-> "pay"]
SettleTarget == [deliver1 |-> "v1", deliver2 |-> "v2",
                 enter1 |-> "i1", enter2 |-> "i2", enter3 |-> "i3",
                 revise1 |-> "i1", approve1 |-> "i1", approve2 |-> "i2",
                 cancel |-> "s2",
                 payA |-> Nobody, payB |-> Nobody, payAll |-> Nobody,
                 payBillA |-> Nobody, payBillB |-> Nobody]
SettleRequests == DOMAIN SettleOp
SettleAllocations ==
  [q \in Requests |->
     CASE q = "payA"    -> <<Pays("i1", 1)>>
       [] q = "payB"    -> <<Pays("i1", 1), Pays("i2", 1)>>
       [] q = "payAll"  -> <<Pays("i1", 2)>>
       [] q \in {"payBillA", "payBillB"} -> <<Pays("b1", 1)>>
       [] OTHER         -> <<>>]
SettleNewAmount == [q \in Requests |-> 4]
SettleSeries ==
  [q \in Requests |->
     CASE q \in {"payA", "payB", "payAll"} -> "RECEIPT"
       [] q \in {"payBillA", "payBillB"}     -> "PAYMENT"
       [] OTHER                              -> "INVOICE"]
SettleConflicts == {{"enter1", "enter2"}, {"revise1", "approve1"},
                    {"payA", "payAll"}, {"payB", "payAll"}}

\* What the theorems about this model ask of an instance is so in this one.
ASSUME SettleAssumption ==
  /\ DeliveriesFit /\ OneLineEach /\ InvoicesApart
  /\ OneAllocationEach /\ OverlapsFit /\ OneSeries /\ RevisionsApart
=============================================================================
