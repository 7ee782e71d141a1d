-------------------------- MODULE InvoiceSettlement --------------------------
(***************************************************************************)
(* What happens to a sale after its approval, and to the money (apps/api:  *)
(* modules/sales and modules/purchase).  Deliveries ship what the sale     *)
(* reserved, invoices charge for what was shipped, payments settle         *)
(* invoices (and, by the same code on the other side, supplier bills), and *)
(* a sale whose goods are shipped and invoiced closes by itself.           *)
(*                                                                         *)
(* Only the documents are stored: what is shipped, invoiced or paid is     *)
(* summed by every handler from the documents it sees.  A request is one   *)
(* READ COMMITTED transaction; its actions are its SQL statements, and     *)
(* consecutive statements are one action when nothing another transaction  *)
(* does between them changes the outcome.                                  *)
(*                                                                         *)
(* How a confirmed delivery consumes reservations, statement by statement, *)
(* is the subject of SalesFulfilment; here it is its commit.               *)
(***************************************************************************)
EXTENDS Integers, FiniteSets, FiniteSetsExt, Sequences

CONSTANTS
  Sales, Items, SaleOf,      \* approved sales and their items
  Reserved,                  \* what approval reserved for an item
  Deliveries, DeliveryLines, \* drafted deliveries and their lines
  Invoices, InvoiceSale, InvoiceLines,
  Bills,                     \* supplier bills, approved
  Amount,                    \* a document's amount when it is entered
  Requests, Op, Target,      \* the HTTP calls: operation and document
  Allocations,               \* the lines of a payment, in order
  NewAmount,                 \* the amount in the body of an update
  Series,                    \* the number series a create or payment draws from
  Conflicts,                 \* sets of requests that never overlap
  PoolSize,                  \* open transactions at a time
  Nobody

INSTANCE RowStore

Docs == Invoices \cup Bills

SaleStatus  == {"approved", "closed", "cancelled"}
DelivStatus == {"draft", "confirmed"}
DocStatus   == {"none", "draft", "approved", "paid"}

Operations == {"deliver", "createInvoice", "update", "approveInvoice",
               "cancelSale", "pay"}

\* A request's program counter: the statement it executes next, or its end.
Working == {"checkLines", "number", "insert", "write", "casApproved",
            "sumDelivered", "sumInvoiced", "close", "casCancelled",
            "checkOutstanding", "record", "settle", "commit"}

TargetsOf(op) ==
  CASE op = "deliver"                             -> Deliveries
    [] op \in {"createInvoice", "approveInvoice"} -> Invoices
    [] op = "update"                              -> Docs
    [] op = "cancelSale"                          -> Sales
    [] OTHER                                      -> {Nobody}

Line == [item : Items, qty : Nat \ {0}]
Allocation == [doc : Docs, amount : Nat \ {0}]

ASSUME DocumentsAssumption ==
  /\ IsFiniteSet(Items) /\ IsFiniteSet(Deliveries)
  /\ IsFiniteSet(Invoices) /\ IsFiniteSet(Bills)
  /\ SaleOf \in [Items -> Sales]
  /\ Reserved \in [Items -> Nat \ {0}]
  /\ \A s \in Sales : \E i \in Items : SaleOf[i] = s
  /\ DeliveryLines \in [Deliveries -> Seq(Line)]
  /\ InvoiceSale \in [Invoices -> Sales]
  /\ InvoiceLines \in [Invoices -> Seq(Line)]
  /\ \A d \in Invoices : \A k \in DOMAIN InvoiceLines[d] :
       SaleOf[InvoiceLines[d][k].item] = InvoiceSale[d]
  /\ Invoices \cap Bills = {}
  /\ Amount \in [Docs -> Nat]

ASSUME WorkloadAssumption ==
  /\ IsFiniteSet(Requests)
  /\ Op \in [Requests -> Operations]
  /\ \A q \in Requests : Target[q] \in TargetsOf(Op[q])
  /\ \A q, r \in Requests :        \* a row is inserted, or confirmed, once
       /\ Op[q] \in {"createInvoice", "deliver"}
       /\ Op[r] = Op[q]
       /\ Target[q] = Target[r]
       => q = r
  /\ Allocations \in [Requests -> Seq(Allocation)]
  /\ \A q \in Requests : Op[q] = "pay" =>
       /\ Allocations[q] # <<>>
       /\ \/ \A k \in DOMAIN Allocations[q] : Allocations[q][k].doc \in Invoices
          \/ \A k \in DOMAIN Allocations[q] : Allocations[q][k].doc \in Bills
  /\ NewAmount \in [Requests -> Nat]
  /\ Conflicts \subseteq SUBSET Requests
  /\ PoolSize \in Nat \ {0}
  /\ Nobody \notin Requests

VARIABLES
  sales,       \* sales.status
  deliveries,  \* deliveries.status
  docs,        \* sales_invoices and purchase_bills: status and amount
  payments,    \* per payment request: its payment and allocation rows exist
  series,      \* per number series: the transaction that holds its row
  tx           \* per request: where its handler is, and its local variables

tables == <<sales, deliveries, docs, payments, series>>
vars   == <<sales, deliveries, docs, payments, series, tx>>

Payments == {q \in Requests : Op[q] = "pay"}
AllSeries == {Series[q] : q \in Requests}
DocRow == [status : DocStatus, amount : Nat]

\* The handler's variables: the amounts it has read, the sums of its sale's
\* deliveries, the documents it has to settle and the sales it has to recheck.
TxState ==
  [pc : {"new", "ended"} \cup Working,
   amount : [Docs -> Nat], delivered : [Items -> Nat],
   settle : SUBSET Docs, recheck : SUBSET Sales]

\* A request without local variables: not begun, or ended.
TxAt(pc) == [pc |-> pc, amount |-> [d \in Docs |-> 0],
             delivered |-> [i \in Items |-> 0], settle |-> {}, recheck |-> {}]

Init ==
  /\ sales = [s \in Sales |-> Fresh("approved")]
  /\ deliveries = [v \in Deliveries |-> Fresh("draft")]
  /\ docs = [d \in Docs |-> Fresh([status |-> IF d \in Bills THEN "approved" ELSE "none",
                                   amount |-> Amount[d]])]
  /\ payments = [p \in Payments |-> Fresh(FALSE)]
  /\ series = [n \in AllSeries |-> Nobody]
  /\ tx = [q \in Requests |-> TxAt("new")]

-----------------------------------------------------------------------------
(* Transactions. *)

Open == {q \in Requests : tx[q].pc \in Working}

\* A request begins when the connection pool has a client for it.
CanBegin(q, op) ==
  /\ Op[q] = op
  /\ tx[q].pc = "new"
  /\ Cardinality(Open) < PoolSize
  /\ \A r \in Open : {q, r} \notin Conflicts

At(q, pc) == tx[q].pc = pc

Goto(q, pc) == tx' = [tx EXCEPT ![q].pc = pc]

Finish(q, pc) == tx' = [tx EXCEPT ![q] = TxAt(pc)]

KeepSeries(q) == UNCHANGED series                                  \* mutant
ReleaseSeries(q) ==
  series' = [n \in AllSeries |-> IF series[n] = q THEN Nobody ELSE series[n]]

\* The handler throws, a deadlock is broken at its cost, or its client or
\* connection is lost before COMMIT.  The request can be sent again.
Rollback(q) ==
  /\ sales' = RolledBackAll(q, sales)
  /\ deliveries' = RolledBackAll(q, deliveries)
  /\ docs' = RolledBackAll(q, docs)
  /\ payments' = RolledBackAll(q, payments)
  /\ ReleaseSeries(q)
  /\ Finish(q, "new")

Commit(q) ==
  /\ At(q, "commit")
  /\ sales' = CommittedAll(q, sales)
  /\ deliveries' = CommittedAll(q, deliveries)
  /\ docs' = CommittedAll(q, docs)
  /\ payments' = CommittedAll(q, payments)
  /\ ReleaseSeries(q)
  /\ Finish(q, "ended")

Crash(q) == q \in Open /\ Rollback(q)

SeenAll(q, table) == [k \in DOMAIN table |-> Seen(q, table[k])]

-----------------------------------------------------------------------------
(* Sums over documents, and the axes computed from them. *)

QtyOf(lines, i) ==
  MapThenSumSet(LAMBDA k : lines[k].qty,
                {k \in DOMAIN lines : lines[k].item = i})

AppliedTo(d, lines) ==
  MapThenSumSet(LAMBDA k : lines[k].amount, {k \in DOMAIN lines : lines[k].doc = d})

DeliveryQty == [v \in Deliveries |-> [i \in Items |-> QtyOf(DeliveryLines[v], i)]]
InvoiceQty  == [d \in Invoices |-> [i \in Items |-> QtyOf(InvoiceLines[d], i)]]
Applied     == [p \in Payments |-> [d \in Docs |-> AppliedTo(d, Allocations[p])]]

\* sumDeliveredQuantitiesByItem: only confirmed deliveries count.
SumDelivered(status) ==
  LET counted == {v \in Deliveries : status[v] = "confirmed"} IN
  [i \in Items |-> MapThenSumSet(LAMBDA v : DeliveryQty[v][i], counted)]

\* sumInvoicedQuantitiesByItem: drafts count as much as approved invoices.
SumApproved(rows) ==                                               \* mutant
  LET counted == {d \in Invoices : rows[d].status = "approved"} IN
  [i \in Items |-> MapThenSumSet(LAMBDA d : InvoiceQty[d][i], counted)]
SumInvoiced(rows) ==
  LET counted == {d \in Invoices : rows[d].status # "none"} IN
  [i \in Items |-> MapThenSumSet(LAMBDA d : InvoiceQty[d][i], counted)]

\* sumPaidAmountsByInvoice, sumPaidAmountsByBill: every allocation recorded.
SumPaid(recorded) ==
  LET counted == {p \in Payments : recorded[p]} IN
  [d \in Docs |-> MapThenSumSet(LAMBDA p : Applied[p][d], counted)]

ItemsOf(s) == {i \in Items : SaleOf[i] = s}

\* computeDeliveredStatus is fully_delivered: of every item with a reservation,
\* what was reserved is shipped.
FullyDelivered(s, delivered) ==
  /\ \E i \in ItemsOf(s) : delivered[i] > 0
  /\ \A i \in ItemsOf(s) : delivered[i] >= Reserved[i]

\* computeInvoicedStatus is fully_invoiced: of every item with a delivery, what
\* was shipped is invoiced.
FullyInvoiced(s, delivered, invoiced) ==
  LET shipped == {i \in ItemsOf(s) : delivered[i] > 0} IN
  /\ \E i \in shipped : invoiced[i] > 0
  /\ \A i \in shipped : invoiced[i] >= delivered[i]

-----------------------------------------------------------------------------
(* deliveries.service.ts confirm: everything reserved for its lines is     *)
(* consumed, or nothing is.  One request confirms a delivery here;         *)
(* SalesFulfilment has several.                                            *)

Deliver(q) ==
  LET v == Target[q] IN
  /\ CanBegin(q, "deliver")
  /\ deliveries' = [deliveries EXCEPT ![v] = Fresh("confirmed")]
  /\ Finish(q, "ended")
  /\ UNCHANGED <<sales, docs, payments, series>>

-----------------------------------------------------------------------------
(* sales-invoices.service.ts create. *)

Invoiceable(status) == status \in {"approved", "closed"}

\* The sale, and what was delivered of its items.  An invoice without lines
\* has nothing to check.
CreateInvoice(q) ==
  LET d == Target[q]
      status == Seen(q, sales[InvoiceSale[d]])
  IN
  /\ CanBegin(q, "createInvoice")
  /\ \/ /\ Invoiceable(status)
        /\ tx' = [tx EXCEPT
                    ![q].pc = IF InvoiceLines[d] = <<>> THEN "number" ELSE "checkLines",
                    ![q].delivered = SumDelivered(SeenAll(q, deliveries))]
        /\ UNCHANGED tables
     \/ ~Invoiceable(status) /\ Rollback(q)

\* Each line by itself fits what was delivered and is not yet invoiced.
FitsDelivery(lines, delivered, invoiced) ==
  \A k \in DOMAIN lines :
    LET i == lines[k].item IN
    /\ delivered[i] > 0
    /\ invoiced[i] + lines[k].qty <= delivered[i]

CheckLines(q) ==
  LET fits == FitsDelivery(InvoiceLines[Target[q]], tx[q].delivered,
                           SumInvoiced(SeenAll(q, docs)))
  IN
  /\ At(q, "checkLines")
  /\ \/ fits /\ Goto(q, "number") /\ UNCHANGED tables
     \/ ~fits /\ Rollback(q)

\* nextNumber locks the row of the series until the transaction ends.
Unlocked(q) == TRUE                                                \* mutant
SeriesIsFree(q) == series[Series[q]] \in {Nobody, q}

NextNumber(q) ==
  /\ At(q, "number")
  /\ SeriesIsFree(q)
  /\ series' = [series EXCEPT ![Series[q]] = q]
  /\ Goto(q, IF Op[q] = "pay" THEN "record" ELSE "insert")
  /\ UNCHANGED <<sales, deliveries, docs, payments>>

InsertInvoice(q) ==
  LET d == Target[q] IN
  /\ At(q, "insert")
  /\ docs' = [docs EXCEPT ![d] = Put(q, @, [@.cur EXCEPT !.status = "draft"])]
  /\ Goto(q, "commit")
  /\ UNCHANGED <<sales, deliveries, payments, series>>

-----------------------------------------------------------------------------
(* sales-invoices.service.ts update, purchase-bills.service.ts update.     *)

DraftOnly(q, d) == Seen(q, docs[d]).status = "draft"

Update(q) ==
  LET d == Target[q] IN
  /\ CanBegin(q, "update")
  /\ \/ DraftOnly(q, d) /\ Goto(q, "write") /\ UNCHANGED tables
     \/ ~DraftOnly(q, d) /\ Rollback(q)

\* The UPDATE names the row by its id alone.
UpdateFields(q) ==
  LET d == Target[q] IN
  /\ At(q, "write")
  /\ Lockable(q, docs[d])
  /\ docs' = [docs EXCEPT ![d] = Put(q, @, [@.cur EXCEPT !.amount = NewAmount[q]])]
  /\ Goto(q, "commit")
  /\ UNCHANGED <<sales, deliveries, payments, series>>

-----------------------------------------------------------------------------
(* sales-invoices.service.ts approve. *)

ApproveInvoice(q) ==
  LET found == Seen(q, docs[Target[q]]).status # "none" IN
  /\ CanBegin(q, "approveInvoice")
  /\ \/ found /\ Goto(q, "casApproved") /\ UNCHANGED tables
     \/ ~found /\ Rollback(q)

TransitionToApproved(q) ==
  LET d == Target[q] IN
  /\ At(q, "casApproved")
  /\ \/ /\ Seen(q, docs[d]).status = "draft"
        /\ Lockable(q, docs[d])
        /\ docs' = [docs EXCEPT ![d] = Put(q, @, [@.cur EXCEPT !.status = "approved"])]
        /\ tx' = [tx EXCEPT ![q].pc = "sumDelivered",
                            ![q].recheck = {InvoiceSale[d]}]
        /\ UNCHANGED <<sales, deliveries, payments, series>>
     \/ Seen(q, docs[d]).status # "draft" /\ Rollback(q)

-----------------------------------------------------------------------------
(* The automatic close, at the end of an approval and, for every sale one  *)
(* of its invoices belongs to, of a payment received.                      *)

SumDeliveries(q) ==
  /\ At(q, "sumDelivered")
  /\ tx' = [tx EXCEPT ![q].pc = "sumInvoiced",
                      ![q].delivered = SumDelivered(SeenAll(q, deliveries))]
  /\ UNCHANGED tables

AfterSales(rest) == IF rest = {} THEN "commit" ELSE "sumDelivered"

\* The documents of a request, and their sales, in the order of its lines.
DocsOf(q) ==
  IF Op[q] = "pay" THEN [k \in DOMAIN Allocations[q] |-> Allocations[q][k].doc]
                   ELSE <<Target[q]>>
SalesOf(q) == [k \in DOMAIN DocsOf(q) |-> InvoiceSale[DocsOf(q)[k]]]

\* What is left is taken in the order of the lines, everything once.
FirstOf(lines, left) ==
  CHOOSE x \in left : \E k \in DOMAIN lines :
    lines[k] = x /\ \A j \in 1..(k-1) : lines[j] \notin left

NextSale(q) == FirstOf(SalesOf(q), tx[q].recheck)

DeliveredOrInvoiced(s, delivered, invoiced) ==                     \* mutant
  FullyDelivered(s, delivered) \/ FullyInvoiced(s, delivered, invoiced)
Finished(s, delivered, invoiced) ==
  FullyDelivered(s, delivered) /\ FullyInvoiced(s, delivered, invoiced)

SumInvoices(q) ==
  LET s == NextSale(q)
      rest == tx[q].recheck \ {s}
      finished == Finished(s, tx[q].delivered, SumInvoiced(SeenAll(q, docs)))
  IN
  /\ At(q, "sumInvoiced")
  /\ \/ finished /\ Goto(q, "close")
     \/ /\ ~finished
        /\ tx' = [tx EXCEPT ![q].pc = AfterSales(rest), ![q].recheck = rest]
  /\ UNCHANGED tables

\* A sale that is closed already, or cancelled, is left alone.
MaybeAutoClose(q) ==
  LET s == NextSale(q)
      rest == tx[q].recheck \ {s}
  IN
  /\ At(q, "close")
  /\ \/ /\ Seen(q, sales[s]) = "approved"
        /\ Lockable(q, sales[s])
        /\ sales' = [sales EXCEPT ![s] = Put(q, @, "closed")]
     \/ Seen(q, sales[s]) # "approved" /\ UNCHANGED sales
  /\ tx' = [tx EXCEPT ![q].pc = AfterSales(rest), ![q].recheck = rest]
  /\ UNCHANGED <<deliveries, docs, payments, series>>

-----------------------------------------------------------------------------
(* sales.service.ts cancel, of an approved sale. *)

HasAnyDelivery(q, s) ==
  \E v \in Deliveries : \E k \in DOMAIN DeliveryLines[v] :
    SaleOf[DeliveryLines[v][k].item] = s

HasAnyInvoice(q, s) ==
  \E d \in Invoices : InvoiceSale[d] = s /\ Seen(q, docs[d]).status # "none"

CancelSale(q) ==
  LET s == Target[q]
      cancellable == /\ Seen(q, sales[s]) = "approved"
                     /\ ~HasAnyDelivery(q, s)
                     /\ ~HasAnyInvoice(q, s)
  IN
  /\ CanBegin(q, "cancelSale")
  /\ \/ cancellable /\ Goto(q, "casCancelled") /\ UNCHANGED tables
     \/ ~cancellable /\ Rollback(q)

TransitionToCancelled(q) ==
  LET s == Target[q] IN
  /\ At(q, "casCancelled")
  /\ \/ /\ Seen(q, sales[s]) = "approved"
        /\ Lockable(q, sales[s])
        /\ sales' = [sales EXCEPT ![s] = Put(q, @, "cancelled")]
        /\ Goto(q, "commit")
        /\ UNCHANGED <<deliveries, docs, payments, series>>
     \/ Seen(q, sales[s]) # "approved" /\ Rollback(q)

-----------------------------------------------------------------------------
(* sales-payments-received.service.ts create, purchase-payments.service.ts *)
(* create.                                                                 *)

\* The documents are read, and kept; only approved ones can be paid.
Pay(q) ==
  LET rows == [d \in Docs |-> Seen(q, docs[d])]
      payable == \A k \in DOMAIN Allocations[q] :
                   rows[Allocations[q][k].doc].status = "approved"
  IN
  /\ CanBegin(q, "pay")
  /\ \/ /\ payable
        /\ tx' = [tx EXCEPT ![q].pc = "checkOutstanding",
                            ![q].amount = [d \in Docs |-> rows[d].amount]]
        /\ UNCHANGED tables
     \/ ~payable /\ Rollback(q)

\* Each line by itself fits what is outstanding.
FitsOutstanding(lines, amount, paid) ==
  \A k \in DOMAIN lines :
    lines[k].amount <= amount[lines[k].doc] - paid[lines[k].doc]

CheckOutstanding(q) ==
  LET fits == FitsOutstanding(Allocations[q], tx[q].amount,
                              SumPaid(SeenAll(q, payments)))
  IN
  /\ At(q, "checkOutstanding")
  /\ \/ fits /\ Goto(q, "number") /\ UNCHANGED tables
     \/ ~fits /\ Rollback(q)

\* Settled by the sums that count this payment's own allocations.
Settled(amount, paid) == paid >= amount

AfterDocs(settle, recheck) ==
  CASE settle # {} -> "settle"
    [] settle = {} -> AfterSales(recheck)

\* The payment and its allocations are inserted, and the sums taken again.
RecordPayment(q) ==
  LET recorded == [SeenAll(q, payments) EXCEPT ![q] = TRUE]
      paid == SumPaid(recorded)
      paidFor == {d \in Docs : \E k \in DOMAIN DocsOf(q) : DocsOf(q)[k] = d}
      settle == {d \in paidFor : Settled(tx[q].amount[d], paid[d])}
      recheck == {InvoiceSale[d] : d \in paidFor \cap Invoices}
  IN
  /\ At(q, "record")
  /\ payments' = [payments EXCEPT ![q] = Put(q, @, TRUE)]
  /\ tx' = [tx EXCEPT ![q].pc = AfterDocs(settle, recheck),
                      ![q].settle = settle, ![q].recheck = recheck]
  /\ UNCHANGED <<sales, deliveries, docs, series>>

NextDoc(q) == FirstOf(DocsOf(q), tx[q].settle)

\* A document that is no longer approved is left alone.
TransitionToPaid(q) ==
  LET d == NextDoc(q)
      rest == tx[q].settle \ {d}
  IN
  /\ At(q, "settle")
  /\ \/ /\ Seen(q, docs[d]).status = "approved"
        /\ Lockable(q, docs[d])
        /\ docs' = [docs EXCEPT ![d] = Put(q, @, [@.cur EXCEPT !.status = "paid"])]
     \/ Seen(q, docs[d]).status # "approved" /\ UNCHANGED docs
  /\ tx' = [tx EXCEPT ![q].pc = AfterDocs(rest, tx[q].recheck), ![q].settle = rest]
  /\ UNCHANGED <<sales, deliveries, payments, series>>

-----------------------------------------------------------------------------
InvoiceStep(q) == \/ CreateInvoice(q) \/ CheckLines(q) \/ InsertInvoice(q)
                  \/ Update(q) \/ UpdateFields(q)
                  \/ ApproveInvoice(q) \/ TransitionToApproved(q)
CloseStep(q)   == SumDeliveries(q) \/ SumInvoices(q) \/ MaybeAutoClose(q)
CancelStep(q)  == CancelSale(q) \/ TransitionToCancelled(q)
PaymentStep(q) == \/ Pay(q) \/ CheckOutstanding(q)
                  \/ RecordPayment(q) \/ TransitionToPaid(q)

\* What the server does for a request by itself.
Step(q) == \/ Deliver(q) \/ NextNumber(q) \/ InvoiceStep(q) \/ CloseStep(q)
           \/ CancelStep(q) \/ PaymentStep(q) \/ Commit(q)

Done == /\ \A q \in Requests : tx[q].pc = "ended"
        /\ UNCHANGED vars

Next == (\E q \in Requests : Step(q) \/ Crash(q)) \/ Done

Spec == Init /\ [][Next]_vars
=============================================================================
