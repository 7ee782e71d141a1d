------------------------- MODULE SettlementProperties -------------------------
(***************************************************************************)
(* What the documents of approved sales guarantee, in terms of the         *)
(* committed database, when the requests in Conflicts do not overlap and   *)
(* all others interleave freely.                                           *)
(***************************************************************************)
EXTENDS InvoiceSettlement

(* Committed tables. *)
Sale(s)      == sales[s].com
Doc(d)       == docs[d].com
PaidSums     == SumPaid([p \in Payments |-> payments[p].com])
DeliveredQty == SumDelivered([v \in Deliveries |-> deliveries[v].com])
InvoicedQty  == [i \in Items |->
                   MapThenSumSet(LAMBDA d : InvoiceQty[d][i],
                                 {d \in Invoices : Doc(d).status # "none"})]

\* Everything the sale reserved is shipped, and what is shipped is invoiced.
SaleIsDone(s) ==
  \A i \in ItemsOf(s) : DeliveredQty[i] >= Reserved[i] /\ InvoicedQty[i] >= DeliveredQty[i]

\* Every table and every handler variable has the type the schema and the
\* code give it, and a row or a number series is only locked by a transaction
\* that is still open: nothing is left locked by a request that failed.
TypeOK ==
  /\ sales \in [Sales -> Versioned(SaleStatus, Requests)]
  /\ deliveries \in [Deliveries -> Versioned(DelivStatus, Requests)]
  /\ docs \in [Docs -> Versioned(DocRow, Requests)]
  /\ payments \in [Payments -> Versioned(BOOLEAN, Requests)]
  /\ series \in [AllSeries -> Requests \cup {Nobody}]
  /\ tx \in [Requests -> TxState]
  /\ \A n \in AllSeries : series[n] \in Open \cup {Nobody}
  /\ \A s \in Sales : sales[s].lock \in Open \cup {Nobody}
  /\ \A d \in Docs : docs[d].lock \in Open \cup {Nobody}

\* No item is invoiced beyond what was delivered of it, although a draft is
\* checked before the numbering lock is taken and the sums count drafts.
NeverOverInvoiced == \A i \in Items : InvoicedQty[i] <= DeliveredQty[i]

\* A sale that is shipped and invoiced in full is closed with the commit that
\* finished it: only an invoice that waits for its approval keeps it open.
\* A delivery, which does not look at the invoices, never is that commit.
FinishedSaleIsClosed ==
  \A s \in Sales :
    Sale(s) = "approved" /\ SaleIsDone(s) =>
      \E d \in Invoices : InvoiceSale[d] = s /\ Doc(d).status = "draft"

\* A closed sale is shipped and invoiced in full, however stale the sums were
\* when it was closed, since nothing that was counted is ever taken back.
ClosedSaleIsDone == \A s \in Sales : Sale(s) = "closed" => SaleIsDone(s)

-----------------------------------------------------------------------------
(* The ledger of OpenItems: what is owed of a document is its amount less  *)
(* the payments committed for it.                                          *)

AmountLimit ==
  Max({Amount[d] : d \in Docs} \cup {NewAmount[q] : q \in Requests})

Owed == LET paid == PaidSums IN [d \in Docs |-> Doc(d).amount - paid[d]]

Ledger == INSTANCE OpenItems WITH
  Limit <- AmountLimit,
  state <- [d \in Docs |-> Doc(d).status],
  owed  <- Owed

\* Every commit is a step of the ledger: an amount only changes while its
\* document is a draft, payments take off at most what is owed, and the one
\* that settles a document, and no other, makes it paid.
ImplementsOpenItems == Ledger!Spec

-----------------------------------------------------------------------------
(* What the properties ask of the documents and of the requests that       *)
(* overlap.                                                                *)

\* What is drafted for delivery was reserved: the handlers of SalesFulfilment
\* check it before they draft a delivery.
DeliveriesFit ==
  \A i \in Items :
    MapThenSumSet(LAMBDA v : DeliveryQty[v][i], Deliveries) <= Reserved[i]

\* No invoice has two lines of one item, and no payment two of one document:
\* each line by itself is tested against the same remainder.
OneLineEach ==
  \A d \in Invoices : \A j, k \in DOMAIN InvoiceLines[d] :
    InvoiceLines[d][j].item = InvoiceLines[d][k].item => j = k

OneAllocationEach ==
  \A q \in Payments : \A j, k \in DOMAIN Allocations[q] :
    Allocations[q][j].doc = Allocations[q][k].doc => j = k

\* Invoices of one sale are not entered at the same time.
InvoicesApart ==
  \A q, r \in Requests :
    /\ Op[q] = "createInvoice" /\ Op[r] = "createInvoice" /\ q # r
    /\ InvoiceSale[Target[q]] = InvoiceSale[Target[r]]
    => {q, r} \in Conflicts

\* A document is not revised while it is approved.
RevisionsApart ==
  \A q, r \in Requests :
    Op[q] = "update" /\ Op[r] = "approveInvoice" /\ Target[q] = Target[r] => {q, r} \in Conflicts

\* Payments of one document draw their numbers from one series.
OneSeries ==
  \A q, r \in Payments : \A d \in Docs :
    Applied[q][d] > 0 /\ Applied[r][d] > 0 => Series[q] = Series[r]

PaidBy(P, d) == MapThenSumSet(LAMBDA p : Applied[p][d], P)

\* The amounts a document can have.
AmountsOf(d) ==
  {Amount[d]} \cup {NewAmount[q] : q \in {r \in Requests : Op[r] = "update" /\ Target[r] = d}}

\* Payments that may overlap, and that fit each by itself what is owed of a
\* document whatever was paid of it before, fit it together.
OverlapsFit ==
  \A d \in Docs : \A a \in AmountsOf(d) : \A C, P \in SUBSET Payments :
    /\ P # {}
    /\ \A q, r \in P : q # r => {q, r} \notin Conflicts
    /\ \A p \in P : PaidBy(C \cup {p}, d) <= a
    => PaidBy(C \cup P, d) <= a
=============================================================================
