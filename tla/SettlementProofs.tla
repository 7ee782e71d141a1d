--------------------------- MODULE SettlementProofs ---------------------------
(***************************************************************************)
(* Theorems about InvoiceSettlement, for every set of sales, documents and *)
(* requests.  The first invariant, SettlementInv, assumes nothing of how   *)
(* requests interleave: it says which transaction can hold the lock of a   *)
(* row or a series, and what it has written there.  The others add what    *)
(* the committed documents add up to.                                      *)
(***************************************************************************)
EXTENDS SettlementProperties, SumTheorems

(* From the sums to the commit a handler of an approval or a payment only  *)
(* rechecks sales.                                                         *)
Closing == {"sumDelivered", "sumInvoiced", "close", "commit"}

(* What the holder q of a document's lock, at statement pc, has done to it.*)
HeldDoc(q, pc, d, row) ==
  \/ /\ Op[q] = "createInvoice" /\ Target[q] = d /\ pc = "commit"
     /\ row.com.status = "none" /\ row.cur.status = "draft"
  \/ /\ Op[q] = "update" /\ Target[q] = d /\ pc = "commit"
     /\ row.com.status # "none" /\ row.cur.status = row.com.status
  \/ /\ Op[q] = "approveInvoice" /\ Target[q] = d /\ pc \in Closing
     /\ row.com.status = "draft" /\ row.cur.status = "approved"
  \/ /\ Op[q] = "pay" /\ pc \in Closing \cup {"settle"}
     /\ row.com.status = "approved" /\ row.cur.status = "paid"

(* Likewise for a sale, which is only ever taken out of approved.          *)
HeldSale(q, pc, s, row) ==
  /\ row.com = "approved"
  /\ \/ Op[q] = "pay" /\ pc \in Closing /\ row.cur = "closed"
     \/ /\ Op[q] = "approveInvoice" /\ InvoiceSale[Target[q]] = s
        /\ pc = "commit" /\ row.cur = "closed"
     \/ /\ Op[q] = "cancelSale" /\ Target[q] = s
        /\ pc = "commit" /\ row.cur = "cancelled"

DocOK(d) ==
  IF docs[d].lock = Nobody THEN docs[d].cur = docs[d].com
  ELSE HeldDoc(docs[d].lock, tx[docs[d].lock].pc, d, docs[d])

SaleOK(s) ==
  IF sales[s].lock = Nobody THEN sales[s].cur = sales[s].com
  ELSE HeldSale(sales[s].lock, tx[sales[s].lock].pc, s, sales[s])

PaymentOK(p) ==
  IF payments[p].lock = Nobody THEN payments[p].cur = payments[p].com
  ELSE /\ payments[p].lock = p /\ tx[p].pc \in Closing \cup {"settle"}
       /\ payments[p].cur

SeriesOK(n) ==
  series[n] # Nobody =>
    tx[series[n]].pc \in Closing \cup {"insert", "record", "settle"}

(* Which statements belong to which operation.  An approval rechecks the   *)
(* sale of its own invoice.                                                *)
HandlerOK(q, t) ==
  /\ t.pc \in {"checkLines", "insert"} => Op[q] = "createInvoice"
  /\ t.pc = "number" => Op[q] \in {"createInvoice", "pay"}
  /\ t.pc = "write" => Op[q] = "update"
  /\ t.pc = "casApproved" => Op[q] = "approveInvoice"
  /\ t.pc = "casCancelled" => Op[q] = "cancelSale"
  /\ t.pc \in {"checkOutstanding", "record", "settle"} => Op[q] = "pay"
  /\ t.pc \in {"sumDelivered", "sumInvoiced", "close"} =>
       \/ Op[q] = "pay"
       \/ Op[q] = "approveInvoice" /\ t.recheck = {InvoiceSale[Target[q]]}

(* An invoice is not there, and nobody has it, until its create commits;   *)
(* only a document that is there is updated.                               *)
EntryOK(q, pc) ==
  /\ Op[q] = "createInvoice" /\ pc \notin {"commit", "ended"} =>
       docs[Target[q]].lock = Nobody /\ docs[Target[q]].com.status = "none"
  /\ Op[q] = "createInvoice" /\ pc = "commit" =>
       docs[Target[q]].lock = q /\ docs[Target[q]].com.status = "none"
  /\ pc = "write" => docs[Target[q]].com.status # "none"

RowsTyped ==
  /\ sales \in [Sales -> Versioned(SaleStatus, Requests)]
  /\ deliveries \in [Deliveries -> Versioned(DelivStatus, Requests)]
  /\ docs \in [Docs -> Versioned(DocRow, Requests)]
  /\ payments \in [Payments -> Versioned(BOOLEAN, Requests)]
  /\ series \in [AllSeries -> Requests \cup {Nobody}]
  /\ tx \in [Requests -> TxState]

DeliveriesInv == \A v \in Deliveries :
                   deliveries[v].lock = Nobody /\ deliveries[v].cur = deliveries[v].com
DocsInv     == \A d \in Docs : DocOK(d)
SalesInv    == \A s \in Sales : SaleOK(s)
PaymentsInv == \A p \in Payments : PaymentOK(p)
SeriesInv   == \A n \in AllSeries : SeriesOK(n)
HandlersInv == \A q \in Requests : HandlerOK(q, tx[q])
EntriesInv  == \A q \in Requests : EntryOK(q, tx[q].pc)

SettlementInv ==
  /\ RowsTyped /\ DeliveriesInv /\ DocsInv /\ SalesInv /\ PaymentsInv
  /\ SeriesInv /\ HandlersInv /\ EntriesInv

-----------------------------------------------------------------------------
(* Constants and sums. *)

LEMMA Workload ==
  /\ IsFiniteSet(Items) /\ IsFiniteSet(Deliveries)
  /\ IsFiniteSet(Invoices) /\ IsFiniteSet(Bills)
  /\ SaleOf \in [Items -> Sales]
  /\ Reserved \in [Items -> Nat \ {0}]
  /\ \A s \in Sales : \E i \in Items : SaleOf[i] = s
  /\ DeliveryLines \in [Deliveries -> Seq(Line)]
  /\ InvoiceSale \in [Invoices -> Sales]
  /\ InvoiceLines \in [Invoices -> Seq(Line)]
  /\ \A d \in Invoices : \A k \in DOMAIN InvoiceLines[d] :
       SaleOf[InvoiceLines[d][k].item] = InvoiceSale[d]
  /\ Invoices \cap Bills = {}
  /\ Amount \in [Docs -> Nat]
  /\ IsFiniteSet(Requests)
  /\ Op \in [Requests -> Operations]
  /\ \A q \in Requests : Target[q] \in TargetsOf(Op[q])
  /\ \A q, r \in Requests :
       /\ Op[q] \in {"createInvoice", "deliver"}
       /\ Op[r] = Op[q]
       /\ Target[q] = Target[r]
       => q = r
  /\ Allocations \in [Requests -> Seq(Allocation)]
  /\ \A q \in Requests : Op[q] = "pay" =>
       /\ Allocations[q] # <<>>
       /\ \/ \A k \in DOMAIN Allocations[q] : Allocations[q][k].doc \in Invoices
          \/ \A k \in DOMAIN Allocations[q] : Allocations[q][k].doc \in Bills
  /\ NewAmount \in [Requests -> Nat]
  /\ Conflicts \subseteq SUBSET Requests
  /\ Nobody \notin Requests
BY DocumentsAssumption, WorkloadAssumption

\* A request is about a document, sale or delivery of the right kind.
LEMMA Targets ==
  ASSUME NEW q \in Requests
  PROVE  /\ Op[q] = "deliver" => Target[q] \in Deliveries
         /\ Op[q] \in {"createInvoice", "approveInvoice"} =>
              Target[q] \in Invoices /\ Target[q] \in Docs
         /\ Op[q] = "update" => Target[q] \in Docs
         /\ Op[q] = "cancelSale" => Target[q] \in Sales
<1>1. Target[q] \in TargetsOf(Op[q])
  BY Workload
<1> QED
  BY <1>1 DEF TargetsOf, Docs

LEMMA LinesSum ==
  ASSUME NEW lines \in Seq(Line), NEW i
  PROVE  QtyOf(lines, i) \in Nat
<1> DEFINE S == {k \in DOMAIN lines : lines[k].item = i}
           w == [k \in S |-> lines[k].qty]
<1>1. IsFiniteSet(S)
  <2>1. Len(lines) \in Nat /\ DOMAIN lines = 1..Len(lines)
    OBVIOUS
  <2>2. IsFiniteSet(1..Len(lines))
    BY <2>1, FS_Interval
  <2> QED
    BY <2>1, <2>2, FS_Subset
<1>2. \A k \in S : w[k] \in Nat
  <2>1. \A k \in DOMAIN lines : lines[k] \in Line
    OBVIOUS
  <2> QED
    BY <2>1 DEF Line
<1> HIDE DEF S, w
<1>3. Total(w, S) \in Nat
  BY <1>1, <1>2, TotalType
<1>4. MapThenSumSet(LAMBDA k : lines[k].qty, S) = Total(w, S)
  BY <1>1, TotalOfQuantities DEF w
<1> QED
  BY <1>3, <1>4 DEF QtyOf, S

LEMMA DocumentSums ==
  /\ DeliveryQty \in [Deliveries -> [Items -> Nat]]
  /\ InvoiceQty \in [Invoices -> [Items -> Nat]]
BY Workload, LinesSum DEF DeliveryQty, InvoiceQty

LEMMA DeliveredType ==
  ASSUME NEW status
  PROVE  SumDelivered(status) \in [Items -> Nat]
<1> DEFINE counted == {v \in Deliveries : status[v] = "confirmed"}
<1>1. IsFiniteSet(counted)
  BY Workload, FS_Subset
<1>2. ASSUME NEW i \in Items
      PROVE  MapThenSumSet(LAMBDA v : DeliveryQty[v][i], counted) \in Nat
  <2> HIDE DEF counted
  <2>1. \A v \in counted : [x \in counted |-> DeliveryQty[x][i]][v] \in Nat
    BY <1>2, DocumentSums DEF counted
  <2>2. Total([x \in counted |-> DeliveryQty[x][i]], counted) \in Nat
    BY <1>1, <2>1, TotalType
  <2> QED
    BY <1>1, <2>2, TotalOfEntries
<1> QED
  BY <1>2 DEF SumDelivered

LEMMA RowTypes ==
  ASSUME NEW V, NEW row \in Versioned(V, Requests), NEW q \in Requests
  PROVE  /\ Seen(q, row) \in V
         /\ \A v \in V : Put(q, row, v) \in Versioned(V, Requests)
         /\ Committed(q, row) \in Versioned(V, Requests)
         /\ RolledBack(q, row) \in Versioned(V, Requests)
BY DEF Versioned, Seen, Put, Committed, RolledBack, Fresh

LEMMA FreshType ==
  ASSUME NEW V, NEW v \in V
  PROVE  Fresh(v) \in Versioned(V, Requests)
BY DEF Versioned, Fresh

LEMMA EndedRows ==
  ASSUME NEW V, NEW S, NEW table \in [S -> Versioned(V, Requests)],
         NEW q \in Requests
  PROVE  /\ CommittedAll(q, table) \in [S -> Versioned(V, Requests)]
         /\ RolledBackAll(q, table) \in [S -> Versioned(V, Requests)]
         /\ \A k \in S : CommittedAll(q, table)[k] = Committed(q, table[k])
         /\ \A k \in S : RolledBackAll(q, table)[k] = RolledBack(q, table[k])
BY RowTypes DEF CommittedAll, RolledBackAll

LEMMA NewIdle == \A pc \in {"new", "ended"} : TxAt(pc) \in TxState
BY DEF TxAt, TxState

LEMMA TypesFollow == SettlementInv => TypeOK
<1> SUFFICES ASSUME SettlementInv PROVE TypeOK
  OBVIOUS
<1>1. RowsTyped
  BY DEF SettlementInv
<1>2. \A n \in AllSeries : series[n] \in Open \cup {Nobody}
  <2>1. \A n \in AllSeries : SeriesOK(n)
    BY DEF SettlementInv, SeriesInv
  <2> QED
    BY <1>1, <2>1 DEF RowsTyped, SeriesOK, Open, Working, Closing
<1>3. \A s \in Sales : sales[s].lock \in Open \cup {Nobody}
  <2>1. \A s \in Sales : SaleOK(s) /\ sales[s].lock \in Requests \cup {Nobody}
    BY <1>1 DEF SettlementInv, SalesInv, RowsTyped, Versioned
  <2> QED
    BY <2>1 DEF SaleOK, HeldSale, Open, Working, Closing
<1>4. \A d \in Docs : docs[d].lock \in Open \cup {Nobody}
  <2>1. \A d \in Docs : DocOK(d) /\ docs[d].lock \in Requests \cup {Nobody}
    BY <1>1 DEF SettlementInv, DocsInv, RowsTyped, Versioned
  <2> QED
    BY <2>1 DEF DocOK, HeldDoc, Open, Working, Closing
<1> QED
  BY <1>1, <1>2, <1>3, <1>4 DEF RowsTyped, TypeOK

-----------------------------------------------------------------------------
(* The steps.  A statement changes the variables of its own handler and at *)
(* most one row or one series.                                             *)

LEMMA InitialInv == Init => SettlementInv
<1> SUFFICES ASSUME Init PROVE SettlementInv
  OBVIOUS
<1>1. RowsTyped
  <2>1. docs \in [Docs -> Versioned(DocRow, Requests)]
    <3>1. \A d \in Docs : [status |-> IF d \in Bills THEN "approved" ELSE "none",
                           amount |-> Amount[d]] \in DocRow
      BY Workload DEF DocRow, DocStatus
    <3> QED
      BY <3>1, FreshType DEF Init
  <2>2. TxAt("new") \in TxState
    BY NewIdle
  <2> QED
    BY <2>1, <2>2, FreshType DEF Init, RowsTyped, SaleStatus, DelivStatus
<1>2. DeliveriesInv /\ DocsInv /\ SalesInv /\ PaymentsInv /\ SeriesInv
  BY DEF Init, DeliveriesInv, DocsInv, SalesInv, PaymentsInv, SeriesInv, DocOK,
         SaleOK, PaymentOK, SeriesOK, Fresh
<1>3. HandlersInv
  BY DEF Init, HandlersInv, HandlerOK, TxAt
<1>4. EntriesInv
  <2> SUFFICES ASSUME NEW q \in Requests PROVE EntryOK(q, tx[q].pc)
    BY DEF EntriesInv
  <2>1. Op[q] = "createInvoice" => Target[q] \in Invoices /\ Target[q] \notin Bills /\ Target[q] \in Docs
    BY Targets, Workload
  <2> QED
    BY <2>1 DEF Init, EntryOK, TxAt, Fresh
<1> QED
  BY <1>1, <1>2, <1>3, <1>4 DEF SettlementInv

\* What a handler does not do between two of its statements: forget the row
\* or the series that it has locked, or leave the commit that comes next.
Follows(from, to) ==
  /\ from \notin {"commit", "ended"}
  /\ to \in Working
  /\ from \in Closing => to \in Closing
  /\ from \in {"insert", "record", "settle"} => to \in Closing \cup {"settle"}

LEMMA Quiet ==
  ASSUME SettlementInv, NEW q \in Requests, NEW t \in TxState,
         tx' = [tx EXCEPT ![q] = t], Follows(tx[q].pc, t.pc), HandlerOK(q, t)
  PROVE  /\ tx' \in [Requests -> TxState] /\ HandlersInv'
         /\ tx'[q] = t /\ \A p \in Requests \ {q} : tx'[p] = tx[p]
         /\ docs' = docs => DocsInv'
         /\ sales' = sales => SalesInv'
         /\ payments' = payments => PaymentsInv'
         /\ series' = series => SeriesInv'
<1>1. /\ tx \in [Requests -> TxState] /\ tx' \in [Requests -> TxState]
      /\ tx'[q] = t /\ \A p \in Requests \ {q} : tx'[p] = tx[p]
      /\ Nobody \notin Requests
  BY Workload DEF SettlementInv, RowsTyped
<1>2. HandlersInv'
  <2> SUFFICES ASSUME NEW p \in Requests PROVE HandlerOK(p, tx[p])'
    BY DEF HandlersInv
  <2>1. HandlerOK(p, tx[p])
    BY DEF SettlementInv, HandlersInv
  <2> QED
    BY <1>1, <2>1 DEF HandlerOK
<1>3. ASSUME docs' = docs PROVE DocsInv'
  <2> SUFFICES ASSUME NEW d \in Docs PROVE DocOK(d)'
    BY DEF DocsInv
  <2>1. DocOK(d) /\ docs[d].lock \in Requests \cup {Nobody}
    BY DEF SettlementInv, DocsInv, RowsTyped, Versioned
  <2>2. CASE docs[d].lock # q
    BY <1>1, <1>3, <2>1, <2>2 DEF DocOK, HeldDoc
  <2>3. CASE docs[d].lock = q
    BY <1>1, <1>3, <2>1, <2>3 DEF DocOK, HeldDoc, Follows, Closing
  <2> QED
    BY <2>2, <2>3
<1>4. ASSUME sales' = sales PROVE SalesInv'
  <2> SUFFICES ASSUME NEW s \in Sales PROVE SaleOK(s)'
    BY DEF SalesInv
  <2>1. SaleOK(s) /\ sales[s].lock \in Requests \cup {Nobody}
    BY DEF SettlementInv, SalesInv, RowsTyped, Versioned
  <2>2. CASE sales[s].lock # q
    BY <1>1, <1>4, <2>1, <2>2 DEF SaleOK, HeldSale
  <2>3. CASE sales[s].lock = q
    BY <1>1, <1>4, <2>1, <2>3 DEF SaleOK, HeldSale, Follows
  <2> QED
    BY <2>2, <2>3
<1>5. ASSUME payments' = payments PROVE PaymentsInv'
  <2> SUFFICES ASSUME NEW p \in Payments PROVE PaymentOK(p)'
    BY DEF PaymentsInv
  <2>1. PaymentOK(p) /\ p \in Requests
    BY DEF SettlementInv, PaymentsInv, Payments
  <2>2. CASE p # q
    BY <1>1, <1>5, <2>1, <2>2 DEF PaymentOK
  <2>3. CASE p = q
    BY <1>1, <1>5, <2>1, <2>3 DEF PaymentOK, Follows, Closing
  <2> QED
    BY <2>2, <2>3
<1>6. ASSUME series' = series PROVE SeriesInv'
  <2> SUFFICES ASSUME NEW n \in AllSeries PROVE SeriesOK(n)'
    BY DEF SeriesInv
  <2>1. SeriesOK(n) /\ series[n] \in Requests \cup {Nobody}
    BY DEF SettlementInv, SeriesInv, RowsTyped
  <2>2. CASE series[n] # q
    BY <1>1, <1>6, <2>1, <2>2 DEF SeriesOK
  <2>3. CASE series[n] = q
    BY <1>1, <1>6, <2>1, <2>3 DEF SeriesOK, Follows, Closing
  <2> QED
    BY <2>2, <2>3
<1> QED
  BY <1>1, <1>2, <1>3, <1>4, <1>5, <1>6

\* A handler that only reads, or takes the lock of its series.
LEMMA ReadStep ==
  ASSUME SettlementInv, NEW q \in Requests, NEW t \in TxState,
         tx' = [tx EXCEPT ![q] = t], Follows(tx[q].pc, t.pc), HandlerOK(q, t),
         EntryOK(q, t.pc), UNCHANGED <<sales, deliveries, docs, payments>>,
         \/ UNCHANGED series
         \/ /\ series' = [series EXCEPT ![Series[q]] = q]
            /\ t.pc \in {"insert", "record"}
  PROVE  SettlementInv'
<1>1. /\ tx' \in [Requests -> TxState] /\ HandlersInv'
      /\ tx'[q] = t /\ \A p \in Requests \ {q} : tx'[p] = tx[p]
      /\ DocsInv' /\ SalesInv' /\ PaymentsInv'
      /\ series' = series => SeriesInv'
  BY Quiet
<1>2. SeriesInv' /\ series' \in [AllSeries -> Requests \cup {Nobody}]
  <2>1. CASE UNCHANGED series
    BY <1>1, <2>1 DEF SettlementInv, RowsTyped
  <2>2. CASE /\ series' = [series EXCEPT ![Series[q]] = q]
             /\ t.pc \in {"insert", "record"}
    <3>1. series \in [AllSeries -> Requests \cup {Nobody}] /\ Nobody \notin Requests
      BY Workload DEF SettlementInv, RowsTyped
    <3>2. series' \in [AllSeries -> Requests \cup {Nobody}]
      BY <2>2, <3>1
    <3>3. ASSUME NEW n \in AllSeries PROVE SeriesOK(n)'
      <4>1. SeriesOK(n) /\ series[n] \in Requests \cup {Nobody}
        BY <3>1 DEF SettlementInv, SeriesInv
      <4>2. series'[n] \in {q, series[n]}
        BY <2>2, <3>1
      <4>3. CASE series'[n] = q
        BY <1>1, <2>2, <4>3 DEF SeriesOK
      <4>4. CASE series'[n] # q
        BY <1>1, <4>1, <4>2, <4>4 DEF SeriesOK
      <4> QED
        BY <4>3, <4>4
    <3> QED
      BY <3>2, <3>3 DEF SeriesInv
  <2> QED
    BY <2>1, <2>2
<1>3. RowsTyped' /\ DeliveriesInv'
  BY <1>1, <1>2 DEF SettlementInv, RowsTyped, DeliveriesInv
<1>4. EntriesInv'
  <2> SUFFICES ASSUME NEW p \in Requests PROVE EntryOK(p, tx[p].pc)'
    BY DEF EntriesInv
  <2>1. EntryOK(p, tx[p].pc)
    BY DEF SettlementInv, EntriesInv
  <2> QED
    BY <1>1, <2>1 DEF EntryOK
<1> QED
  BY <1>1, <1>2, <1>3, <1>4 DEF SettlementInv

\* A handler that writes a document it can lock.
LEMMA WriteDoc ==
  ASSUME SettlementInv, NEW q \in Requests, NEW t \in TxState,
         tx' = [tx EXCEPT ![q] = t], Follows(tx[q].pc, t.pc), HandlerOK(q, t),
         NEW d \in Docs, NEW row \in DocRow, Lockable(q, docs[d]),
         docs' = [docs EXCEPT ![d] = Put(q, docs[d], row)],
         HeldDoc(q, t.pc, d, Put(q, docs[d], row)),
         UNCHANGED <<sales, deliveries, payments, series>>
  PROVE  SettlementInv'
<1>1. /\ tx' \in [Requests -> TxState] /\ HandlersInv'
      /\ tx'[q] = t /\ \A p \in Requests \ {q} : tx'[p] = tx[p]
      /\ SalesInv' /\ PaymentsInv' /\ SeriesInv'
      /\ Nobody \notin Requests
  BY Quiet, Workload
<1>2. /\ docs \in [Docs -> Versioned(DocRow, Requests)]
      /\ docs' \in [Docs -> Versioned(DocRow, Requests)]
      /\ docs'[d] = Put(q, docs[d], row)
      /\ \A e \in Docs \ {d} : docs'[e] = docs[e]
      /\ \A e \in Docs : docs'[e].com = docs[e].com
  <2>1. docs \in [Docs -> Versioned(DocRow, Requests)]
    BY DEF SettlementInv, RowsTyped
  <2>2. Put(q, docs[d], row) \in Versioned(DocRow, Requests)
    BY <2>1, RowTypes
  <2> QED
    BY <2>1, <2>2 DEF Put
<1>3. DocsInv'
  <2> SUFFICES ASSUME NEW e \in Docs PROVE DocOK(e)'
    BY DEF DocsInv
  <2>1. CASE e = d
    <3>1. docs'[d].lock = q /\ q # Nobody /\ tx'[q].pc = t.pc
      BY <1>1, <1>2 DEF Put
    <3> QED
      BY <1>2, <2>1, <3>1 DEF DocOK, HeldDoc
  <2>2. CASE e # d
    <3>1. DocOK(e) /\ docs[e].lock \in Requests \cup {Nobody} /\ docs'[e] = docs[e]
      BY <1>2, <2>2 DEF SettlementInv, DocsInv, Versioned
    <3>2. CASE docs[e].lock # q
      BY <1>1, <3>1, <3>2 DEF DocOK, HeldDoc
    <3>3. CASE docs[e].lock = q
      BY <1>1, <3>1, <3>3 DEF DocOK, HeldDoc, Follows, Closing
    <3> QED
      BY <3>2, <3>3
  <2> QED
    BY <2>1, <2>2
<1>4. EntriesInv'
  <2> SUFFICES ASSUME NEW p \in Requests PROVE EntryOK(p, tx[p].pc)'
    BY DEF EntriesInv
  <2>1. EntryOK(p, tx[p].pc) /\ HandlerOK(p, tx[p])
    BY DEF SettlementInv, EntriesInv, HandlersInv
  <2>2. /\ Op[p] = "createInvoice" => Target[p] \in Docs
        /\ tx[p].pc = "write" => Target[p] \in Docs
    BY <2>1, Targets DEF HandlerOK
  <2>3. CASE p = q
    <3>1. Op[q] = "createInvoice" =>
            Target[q] = d /\ t.pc = "commit" /\ docs[d].com.status = "none"
      BY DEF HeldDoc, Put
    <3>2. t.pc # "write"
      BY DEF HeldDoc, Closing
    <3>3. docs'[d].lock = q /\ docs'[d].com = docs[d].com
      BY <1>2 DEF Put
    <3> QED
      BY <1>1, <2>3, <3>1, <3>2, <3>3 DEF EntryOK
  <2>4. CASE p # q
    <3>1. ASSUME Op[p] = "createInvoice", Target[p] = d, tx[p].pc \notin {"commit", "ended"}
          PROVE  FALSE
      <4>1. docs[d].com.status = "none"
        BY <2>1, <3>1 DEF EntryOK
      <4>2. Put(q, docs[d], row).com.status = "none"
        BY <4>1 DEF Put
      <4>3. Op[q] = "createInvoice" /\ Target[q] = d
        BY <4>2 DEF HeldDoc
      <4> QED
        BY <2>4, <3>1, <4>3, Workload
    <3>2. Op[p] = "createInvoice" /\ tx[p].pc = "commit" => Target[p] # d
      BY <1>1, <2>1, <2>4 DEF EntryOK, Lockable
    <3> QED
      BY <1>1, <1>2, <2>1, <2>2, <2>4, <3>1, <3>2 DEF EntryOK
  <2> QED
    BY <2>3, <2>4
<1>5. RowsTyped' /\ DeliveriesInv'
  BY <1>1, <1>2 DEF SettlementInv, RowsTyped, DeliveriesInv
<1> QED
  BY <1>1, <1>3, <1>4, <1>5 DEF SettlementInv

\* A handler that takes a sale it can lock out of approved.
LEMMA WriteSale ==
  ASSUME SettlementInv, NEW q \in Requests, NEW t \in TxState,
         tx' = [tx EXCEPT ![q] = t], Follows(tx[q].pc, t.pc), HandlerOK(q, t),
         EntryOK(q, t.pc),
         NEW s \in Sales, NEW v \in SaleStatus, Lockable(q, sales[s]),
         sales' = [sales EXCEPT ![s] = Put(q, sales[s], v)],
         HeldSale(q, t.pc, s, Put(q, sales[s], v)),
         UNCHANGED <<deliveries, docs, payments, series>>
  PROVE  SettlementInv'
<1>1. /\ tx' \in [Requests -> TxState] /\ HandlersInv'
      /\ tx'[q] = t /\ \A p \in Requests \ {q} : tx'[p] = tx[p]
      /\ DocsInv' /\ PaymentsInv' /\ SeriesInv'
      /\ Nobody \notin Requests
  BY Quiet, Workload
<1>2. /\ sales \in [Sales -> Versioned(SaleStatus, Requests)]
      /\ sales' \in [Sales -> Versioned(SaleStatus, Requests)]
      /\ sales'[s] = Put(q, sales[s], v)
      /\ \A e \in Sales \ {s} : sales'[e] = sales[e]
  <2>1. sales \in [Sales -> Versioned(SaleStatus, Requests)]
    BY DEF SettlementInv, RowsTyped
  <2>2. Put(q, sales[s], v) \in Versioned(SaleStatus, Requests)
    BY <2>1, RowTypes
  <2> QED
    BY <2>1, <2>2
<1>3. SalesInv'
  <2> SUFFICES ASSUME NEW e \in Sales PROVE SaleOK(e)'
    BY DEF SalesInv
  <2>1. CASE e = s
    <3>1. sales'[s].lock = q /\ q # Nobody /\ tx'[q].pc = t.pc
      BY <1>1, <1>2 DEF Put
    <3> QED
      BY <1>2, <2>1, <3>1 DEF SaleOK, HeldSale
  <2>2. CASE e # s
    <3>1. SaleOK(e) /\ sales[e].lock \in Requests \cup {Nobody} /\ sales'[e] = sales[e]
      BY <1>2, <2>2 DEF SettlementInv, SalesInv, Versioned
    <3>2. CASE sales[e].lock # q
      BY <1>1, <3>1, <3>2 DEF SaleOK, HeldSale
    <3>3. CASE sales[e].lock = q
      BY <1>1, <3>1, <3>3 DEF SaleOK, HeldSale, Follows
    <3> QED
      BY <3>2, <3>3
  <2> QED
    BY <2>1, <2>2
<1>4. EntriesInv'
  <2> SUFFICES ASSUME NEW p \in Requests PROVE EntryOK(p, tx[p].pc)'
    BY DEF EntriesInv
  <2>1. EntryOK(p, tx[p].pc)
    BY DEF SettlementInv, EntriesInv
  <2> QED
    BY <1>1, <2>1 DEF EntryOK
<1>5. RowsTyped' /\ DeliveriesInv'
  BY <1>1, <1>2 DEF SettlementInv, RowsTyped, DeliveriesInv
<1> QED
  BY <1>1, <1>3, <1>4, <1>5 DEF SettlementInv

\* What COMMIT and ROLLBACK have in common: the rows the transaction holds are
\* free again, with one version, and the others are as they were.
LEMMA EndStep ==
  ASSUME SettlementInv, NEW q \in Requests, NEW pc \in {"new", "ended"},
         Finish(q, pc), ReleaseSeries(q),
         RowsTyped', DeliveriesInv',
         \A s \in Sales : IF sales[s].lock = q
                          THEN sales'[s].lock = Nobody /\ sales'[s].cur = sales'[s].com
                          ELSE sales'[s] = sales[s],
         \A d \in Docs : IF docs[d].lock = q
                         THEN docs'[d].lock = Nobody /\ docs'[d].cur = docs'[d].com
                         ELSE docs'[d] = docs[d],
         \A p \in Payments : IF payments[p].lock = q
                             THEN payments'[p].lock = Nobody /\ payments'[p].cur = payments'[p].com
                             ELSE payments'[p] = payments[p],
         \A d \in Docs : docs[d].com.status # "none" => docs'[d].com.status # "none",
         \A d \in Docs : docs'[d].com.status = docs[d].com.status \/
              (docs[d].lock = q /\ (pc = "ended" \/ Op[q] # "createInvoice")),
         pc = "new" => tx[q].pc # "ended" /\
              \A d \in Docs : docs'[d].com = docs[d].com
  PROVE  SettlementInv'
<1>1. /\ tx \in [Requests -> TxState] /\ tx' \in [Requests -> TxState]
      /\ tx'[q] = TxAt(pc) /\ tx'[q].pc = pc
      /\ \A p \in Requests \ {q} : tx'[p] = tx[p]
      /\ Nobody \notin Requests
  BY NewIdle, Workload DEF SettlementInv, RowsTyped, Finish, TxAt
<1>2. DocsInv'
  <2> SUFFICES ASSUME NEW d \in Docs PROVE DocOK(d)'
    BY DEF DocsInv
  <2>1. DocOK(d) /\ docs[d].lock \in Requests \cup {Nobody}
    BY DEF SettlementInv, DocsInv, RowsTyped, Versioned
  <2>2. CASE docs[d].lock = q
    BY <2>2 DEF DocOK
  <2>3. CASE docs[d].lock # q
    BY <1>1, <2>1, <2>3 DEF DocOK, HeldDoc
  <2> QED
    BY <2>2, <2>3
<1>3. SalesInv'
  <2> SUFFICES ASSUME NEW s \in Sales PROVE SaleOK(s)'
    BY DEF SalesInv
  <2>1. SaleOK(s) /\ sales[s].lock \in Requests \cup {Nobody}
    BY DEF SettlementInv, SalesInv, RowsTyped, Versioned
  <2>2. CASE sales[s].lock = q
    BY <2>2 DEF SaleOK
  <2>3. CASE sales[s].lock # q
    BY <1>1, <2>1, <2>3 DEF SaleOK, HeldSale
  <2> QED
    BY <2>2, <2>3
<1>4. PaymentsInv'
  <2> SUFFICES ASSUME NEW p \in Payments PROVE PaymentOK(p)'
    BY DEF PaymentsInv
  <2>1. PaymentOK(p) /\ p \in Requests
    BY DEF SettlementInv, PaymentsInv, Payments
  <2>2. CASE payments[p].lock = q
    BY <2>2 DEF PaymentOK
  <2>3. CASE payments[p].lock # q
    BY <1>1, <2>1, <2>3 DEF PaymentOK
  <2> QED
    BY <2>2, <2>3
<1>5. SeriesInv'
  <2> SUFFICES ASSUME NEW n \in AllSeries PROVE SeriesOK(n)'
    BY DEF SeriesInv
  <2>1. SeriesOK(n) /\ series[n] \in Requests \cup {Nobody}
    BY DEF SettlementInv, SeriesInv, RowsTyped
  <2>2. series'[n] = IF series[n] = q THEN Nobody ELSE series[n]
    BY DEF ReleaseSeries
  <2> QED
    BY <1>1, <2>1, <2>2 DEF SeriesOK
<1>6. HandlersInv'
  <2> SUFFICES ASSUME NEW p \in Requests PROVE HandlerOK(p, tx[p])'
    BY DEF HandlersInv
  <2>1. HandlerOK(p, tx[p])
    BY DEF SettlementInv, HandlersInv
  <2> QED
    BY <1>1, <2>1 DEF HandlerOK
<1>7. EntriesInv'
  <2> SUFFICES ASSUME NEW p \in Requests PROVE EntryOK(p, tx[p].pc)'
    BY DEF EntriesInv
  <2>1. EntryOK(p, tx[p].pc) /\ HandlerOK(p, tx[p])
    BY DEF SettlementInv, EntriesInv, HandlersInv
  <2>2. /\ Op[p] = "createInvoice" => Target[p] \in Docs
        /\ tx[p].pc = "write" => Target[p] \in Docs
    BY <2>1, Targets DEF HandlerOK
  <2>3. CASE p = q
    <3>1. CASE pc = "ended"
      BY <1>1, <2>3, <3>1 DEF EntryOK
    <3>2. CASE pc = "new" /\ Op[q] = "createInvoice"
      <4> DEFINE d == Target[q]
      <4>1. d \in Docs /\ DocOK(d) /\ docs[d].lock \in Requests \cup {Nobody}
        BY <2>2, <2>3, <3>2 DEF SettlementInv, DocsInv, RowsTyped, Versioned
      <4>2. docs[d].com.status = "none" /\ docs[d].lock \in {Nobody, q}
        <5>1. CASE tx[q].pc = "commit"
          BY <2>1, <2>3, <3>2, <5>1 DEF EntryOK
        <5>2. CASE tx[q].pc # "commit"
          BY <2>1, <2>3, <3>2, <5>2 DEF EntryOK
        <5> QED
          BY <5>1, <5>2
      <4> QED
        BY <1>1, <2>3, <3>2, <4>1, <4>2 DEF EntryOK
    <3> QED
      BY <1>1, <2>3, <3>1, <3>2 DEF EntryOK
  <2>4. CASE p # q
    <3>1. Op[p] = "createInvoice" /\ tx[p].pc \notin {"commit", "ended"} =>
            docs'[Target[p]] = docs[Target[p]]
      BY <1>1, <2>1, <2>2 DEF EntryOK
    <3>2. Op[p] = "createInvoice" /\ tx[p].pc = "commit" =>
            docs'[Target[p]] = docs[Target[p]]
      BY <1>1, <2>1, <2>2, <2>4 DEF EntryOK
    <3> QED
      BY <1>1, <2>1, <2>2, <2>4, <3>1, <3>2 DEF EntryOK
  <2> QED
    BY <2>3, <2>4
<1> QED
  BY <1>2, <1>3, <1>4, <1>5, <1>6, <1>7 DEF SettlementInv

LEMMA EndedRow ==
  ASSUME NEW row, NEW q
  PROVE  /\ RolledBack(q, row).com = row.com
         /\ IF row.lock = q
            THEN /\ RolledBack(q, row).lock = Nobody
                 /\ RolledBack(q, row).cur = RolledBack(q, row).com
            ELSE RolledBack(q, row) = row
         /\ IF row.lock = q
            THEN /\ Committed(q, row).lock = Nobody
                 /\ Committed(q, row).cur = Committed(q, row).com
                 /\ Committed(q, row).com = row.cur
            ELSE Committed(q, row) = row
<1>1. CASE row.lock = q
  BY <1>1 DEF RolledBack, Committed, Fresh
<1>2. CASE row.lock # q
  BY <1>2 DEF RolledBack, Committed
<1> QED
  BY <1>1, <1>2

LEMMA RollbackRows ==
  ASSUME SettlementInv, NEW q \in Requests, Rollback(q)
  PROVE  /\ \A s \in Sales : sales'[s] = RolledBack(q, sales[s])
         /\ \A d \in Docs : docs'[d] = RolledBack(q, docs[d])
         /\ \A p \in Payments : payments'[p] = RolledBack(q, payments[p])
         /\ deliveries' = deliveries
         /\ RowsTyped'
<1>1. /\ sales \in [Sales -> Versioned(SaleStatus, Requests)]
      /\ deliveries \in [Deliveries -> Versioned(DelivStatus, Requests)]
      /\ docs \in [Docs -> Versioned(DocRow, Requests)]
      /\ payments \in [Payments -> Versioned(BOOLEAN, Requests)]
      /\ series \in [AllSeries -> Requests \cup {Nobody}]
      /\ tx \in [Requests -> TxState]
  BY DEF SettlementInv, RowsTyped
<1>2. /\ sales' = RolledBackAll(q, sales) /\ deliveries' = RolledBackAll(q, deliveries)
      /\ docs' = RolledBackAll(q, docs) /\ payments' = RolledBackAll(q, payments)
  BY DEF Rollback
<1>3. /\ sales' \in [Sales -> Versioned(SaleStatus, Requests)]
      /\ \A s \in Sales : sales'[s] = RolledBack(q, sales[s])
  BY <1>1, <1>2, EndedRows
<1>4. /\ docs' \in [Docs -> Versioned(DocRow, Requests)]
      /\ \A d \in Docs : docs'[d] = RolledBack(q, docs[d])
  BY <1>1, <1>2, EndedRows
<1>5. /\ payments' \in [Payments -> Versioned(BOOLEAN, Requests)]
      /\ \A p \in Payments : payments'[p] = RolledBack(q, payments[p])
  BY <1>1, <1>2, EndedRows
<1>6. deliveries' = deliveries
  <2>1. /\ deliveries' \in [Deliveries -> Versioned(DelivStatus, Requests)]
        /\ \A v \in Deliveries : deliveries'[v] = RolledBack(q, deliveries[v])
    BY <1>1, <1>2, EndedRows
  <2>2. \A v \in Deliveries : deliveries[v].lock # q
    BY Workload DEF SettlementInv, DeliveriesInv
  <2> QED
    BY <1>1, <2>1, <2>2 DEF RolledBack
<1>7. series' \in [AllSeries -> Requests \cup {Nobody}]
  BY <1>1 DEF Rollback, ReleaseSeries
<1>8. tx' \in [Requests -> TxState]
  BY <1>1, NewIdle DEF Rollback, Finish
<1> QED
  BY <1>1, <1>3, <1>4, <1>5, <1>6, <1>7, <1>8 DEF RowsTyped

LEMMA RollbackStep ==
  ASSUME SettlementInv, NEW q \in Requests, Rollback(q), tx[q].pc # "ended"
  PROVE  SettlementInv'
<1>1. /\ \A s \in Sales : sales'[s] = RolledBack(q, sales[s])
      /\ \A d \in Docs : docs'[d] = RolledBack(q, docs[d])
      /\ \A p \in Payments : payments'[p] = RolledBack(q, payments[p])
      /\ deliveries' = deliveries
      /\ RowsTyped'
  BY RollbackRows
<1>2. DeliveriesInv'
  BY <1>1 DEF SettlementInv, DeliveriesInv
<1>3. \A d \in Docs : docs'[d].com = docs[d].com
  BY <1>1, EndedRow
<1>4. /\ \A s \in Sales : IF sales[s].lock = q
                          THEN sales'[s].lock = Nobody /\ sales'[s].cur = sales'[s].com
                          ELSE sales'[s] = sales[s]
      /\ \A d \in Docs : IF docs[d].lock = q
                         THEN docs'[d].lock = Nobody /\ docs'[d].cur = docs'[d].com
                         ELSE docs'[d] = docs[d]
      /\ \A p \in Payments : IF payments[p].lock = q
                             THEN payments'[p].lock = Nobody /\ payments'[p].cur = payments'[p].com
                             ELSE payments'[p] = payments[p]
  BY <1>1, EndedRow
<1>5. Finish(q, "new") /\ ReleaseSeries(q)
  BY DEF Rollback
<1> QED
  BY <1>1, <1>2, <1>3, <1>4, <1>5, EndStep

LEMMA CommitRows ==
  ASSUME SettlementInv, NEW q \in Requests, Commit(q)
  PROVE  /\ \A s \in Sales : sales'[s] = Committed(q, sales[s])
         /\ \A d \in Docs : docs'[d] = Committed(q, docs[d])
         /\ \A p \in Payments : payments'[p] = Committed(q, payments[p])
         /\ deliveries' = deliveries
         /\ RowsTyped'
<1>1. /\ sales \in [Sales -> Versioned(SaleStatus, Requests)]
      /\ deliveries \in [Deliveries -> Versioned(DelivStatus, Requests)]
      /\ docs \in [Docs -> Versioned(DocRow, Requests)]
      /\ payments \in [Payments -> Versioned(BOOLEAN, Requests)]
      /\ series \in [AllSeries -> Requests \cup {Nobody}]
      /\ tx \in [Requests -> TxState]
  BY DEF SettlementInv, RowsTyped
<1>2. /\ sales' = CommittedAll(q, sales) /\ deliveries' = CommittedAll(q, deliveries)
      /\ docs' = CommittedAll(q, docs) /\ payments' = CommittedAll(q, payments)
  BY DEF Commit
<1>3. /\ sales' \in [Sales -> Versioned(SaleStatus, Requests)]
      /\ \A s \in Sales : sales'[s] = Committed(q, sales[s])
  BY <1>1, <1>2, EndedRows
<1>4. /\ docs' \in [Docs -> Versioned(DocRow, Requests)]
      /\ \A d \in Docs : docs'[d] = Committed(q, docs[d])
  BY <1>1, <1>2, EndedRows
<1>5. /\ payments' \in [Payments -> Versioned(BOOLEAN, Requests)]
      /\ \A p \in Payments : payments'[p] = Committed(q, payments[p])
  BY <1>1, <1>2, EndedRows
<1>6. deliveries' = deliveries
  <2>1. /\ deliveries' \in [Deliveries -> Versioned(DelivStatus, Requests)]
        /\ \A v \in Deliveries : deliveries'[v] = Committed(q, deliveries[v])
    BY <1>1, <1>2, EndedRows
  <2>2. \A v \in Deliveries : deliveries[v].lock # q
    BY Workload DEF SettlementInv, DeliveriesInv
  <2> QED
    BY <1>1, <2>1, <2>2 DEF Committed
<1>7. series' \in [AllSeries -> Requests \cup {Nobody}]
  BY <1>1 DEF Commit, ReleaseSeries
<1>8. tx' \in [Requests -> TxState]
  BY <1>1, NewIdle DEF Commit, Finish
<1> QED
  BY <1>1, <1>3, <1>4, <1>5, <1>6, <1>7, <1>8 DEF RowsTyped

LEMMA CommitStep ==
  ASSUME SettlementInv, NEW q \in Requests, Commit(q)
  PROVE  SettlementInv'
<1>1. /\ \A s \in Sales : sales'[s] = Committed(q, sales[s])
      /\ \A d \in Docs : docs'[d] = Committed(q, docs[d])
      /\ \A p \in Payments : payments'[p] = Committed(q, payments[p])
      /\ deliveries' = deliveries
      /\ RowsTyped'
  BY CommitRows
<1>2. DeliveriesInv'
  BY <1>1 DEF SettlementInv, DeliveriesInv
<1>3. /\ \A s \in Sales : IF sales[s].lock = q
                          THEN sales'[s].lock = Nobody /\ sales'[s].cur = sales'[s].com
                          ELSE sales'[s] = sales[s]
      /\ \A d \in Docs : IF docs[d].lock = q
                         THEN docs'[d].lock = Nobody /\ docs'[d].cur = docs'[d].com
                         ELSE docs'[d] = docs[d]
      /\ \A p \in Payments : IF payments[p].lock = q
                             THEN payments'[p].lock = Nobody /\ payments'[p].cur = payments'[p].com
                             ELSE payments'[p] = payments[p]
  BY <1>1, EndedRow
<1>4. \A d \in Docs : docs[d].com.status # "none" => docs'[d].com.status # "none"
  <2> TAKE d \in Docs
  <2>1. DocOK(d) /\ q # Nobody
    BY Workload DEF SettlementInv, DocsInv
  <2>2. docs[d].lock = q => docs'[d].com = docs[d].cur
    BY <1>1, EndedRow
  <2> QED
    BY <1>3, <2>1, <2>2 DEF DocOK, HeldDoc
<1>5. \A d \in Docs : docs'[d].com.status = docs[d].com.status \/ docs[d].lock = q
  BY <1>3
<1>6. Finish(q, "ended") /\ ReleaseSeries(q)
  BY DEF Commit
<1> QED
  BY <1>1, <1>2, <1>3, <1>4, <1>5, <1>6, EndStep

LEMMA DeliverStep ==
  ASSUME SettlementInv, NEW q \in Requests, Deliver(q)
  PROVE  SettlementInv'
<1> DEFINE v == Target[q]
<1>1. /\ Op[q] = "deliver" /\ tx[q].pc = "new" /\ v \in Deliveries
      /\ deliveries' = [deliveries EXCEPT ![v] = Fresh("confirmed")]
      /\ Finish(q, "ended")
      /\ UNCHANGED <<sales, docs, payments, series>>
  BY Targets DEF Deliver, CanBegin
<1>2. /\ deliveries' \in [Deliveries -> Versioned(DelivStatus, Requests)]
      /\ DeliveriesInv'
  <2>1. deliveries \in [Deliveries -> Versioned(DelivStatus, Requests)]
    BY DEF SettlementInv, RowsTyped
  <2>2. Fresh("confirmed") \in Versioned(DelivStatus, Requests)
    BY FreshType DEF DelivStatus
  <2> QED
    BY <1>1, <2>1, <2>2 DEF SettlementInv, DeliveriesInv, Fresh
<1>3. RowsTyped'
  BY <1>1, <1>2, NewIdle DEF SettlementInv, RowsTyped, Finish
<1>4. /\ \A s \in Sales : sales[s].lock # q
      /\ \A d \in Docs : docs[d].lock # q
      /\ \A p \in Payments : payments[p].lock # q
      /\ \A n \in AllSeries : series[n] # q
  <2>1. q # Nobody
    BY Workload
  <2>2. ASSUME NEW s \in Sales PROVE sales[s].lock # q
    BY <1>1, <2>1 DEF SettlementInv, SalesInv, SaleOK, HeldSale, Closing
  <2>3. ASSUME NEW d \in Docs PROVE docs[d].lock # q
    BY <1>1, <2>1 DEF SettlementInv, DocsInv, DocOK, HeldDoc, Closing
  <2>4. ASSUME NEW p \in Payments PROVE payments[p].lock # q
    BY <1>1, <2>1 DEF SettlementInv, PaymentsInv, PaymentOK, Closing
  <2>5. ASSUME NEW n \in AllSeries PROVE series[n] # q
    BY <1>1, <2>1 DEF SettlementInv, SeriesInv, SeriesOK, Closing
  <2> QED
    BY <2>2, <2>3, <2>4, <2>5
<1>5. ReleaseSeries(q)
  <2>1. series \in [AllSeries -> Requests \cup {Nobody}]
    BY DEF SettlementInv, RowsTyped
  <2> QED
    BY <1>1, <1>4, <2>1 DEF ReleaseSeries
<1> QED
  BY <1>1, <1>2, <1>3, <1>4, <1>5, EndStep

\* A handler that goes on to its next statement and remembers nothing more.
LEMMA GotoIs ==
  ASSUME SettlementInv, NEW q \in Requests, NEW pc \in Working, Goto(q, pc)
  PROVE  \E t \in TxState : /\ t = [tx[q] EXCEPT !.pc = pc]
                            /\ t.pc = pc /\ t.recheck = tx[q].recheck
                            /\ t.delivered = tx[q].delivered
                            /\ t.amount = tx[q].amount /\ t.settle = tx[q].settle
                            /\ tx' = [tx EXCEPT ![q] = t]
BY DEF SettlementInv, RowsTyped, TxState, Goto, Working

LEMMA GotoStep ==
  ASSUME SettlementInv, NEW q \in Requests, NEW pc \in Working, Goto(q, pc),
         Follows(tx[q].pc, pc), HandlerOK(q, [tx[q] EXCEPT !.pc = pc]), EntryOK(q, pc),
         UNCHANGED <<sales, deliveries, docs, payments>>,
         \/ UNCHANGED series
         \/ /\ series' = [series EXCEPT ![Series[q]] = q]
            /\ pc \in {"insert", "record"}
  PROVE  SettlementInv'
<1>1. PICK t \in TxState : /\ t = [tx[q] EXCEPT !.pc = pc] /\ t.pc = pc
                           /\ tx' = [tx EXCEPT ![q] = t]
  BY GotoIs
<1>2. HandlerOK(q, t) /\ Follows(tx[q].pc, t.pc) /\ EntryOK(q, t.pc)
  BY <1>1
<1> QED
  BY <1>1, <1>2, ReadStep

\* What holds of a handler between two statements.
LEMMA HandlerNow ==
  ASSUME SettlementInv, NEW q \in Requests
  PROVE  /\ HandlerOK(q, tx[q]) /\ EntryOK(q, tx[q].pc)
         /\ tx \in [Requests -> TxState] /\ tx[q] \in TxState
         /\ tx[q].pc \in {"new", "ended"} \cup Working
BY DEF SettlementInv, HandlersInv, EntriesInv, RowsTyped, TxState

LEMMA CreateStep ==
  ASSUME SettlementInv, NEW q \in Requests, CreateInvoice(q)
  PROVE  SettlementInv'
<1>1. Op[q] = "createInvoice" /\ tx[q].pc = "new"
  BY DEF CreateInvoice, CanBegin
<1>2. CASE Rollback(q)
  BY <1>1, <1>2, RollbackStep
<1>3. CASE ~Rollback(q)
  <2> DEFINE lines == InvoiceLines[Target[q]]
             sums == SumDelivered(SeenAll(q, deliveries))
             t == [tx[q] EXCEPT !.pc = IF lines = <<>> THEN "number" ELSE "checkLines",
                                !.delivered = sums]
  <2>1. /\ tx' = [tx EXCEPT ![q] = t] /\ UNCHANGED tables
        /\ t.pc \in {"number", "checkLines"}
    BY <1>3, HandlerNow DEF CreateInvoice, TxState
  <2>2. t \in TxState
    <3>1. sums \in [Items -> Nat]
      BY DeliveredType
    <3> HIDE DEF sums
    <3> QED
      BY <3>1, HandlerNow DEF TxState, Working
  <2> HIDE DEF t
  <2>3. HandlerOK(q, t) /\ Follows(tx[q].pc, t.pc) /\ EntryOK(q, t.pc)
    <3>1. EntryOK(q, "new")
      BY <1>1, HandlerNow
    <3> QED
      BY <1>1, <2>1, <3>1 DEF HandlerOK, Follows, EntryOK, Working, Closing
  <2> QED
    BY <2>1, <2>2, <2>3, ReadStep DEF tables
<1> QED
  BY <1>2, <1>3

LEMMA CheckLinesStep ==
  ASSUME SettlementInv, NEW q \in Requests, CheckLines(q)
  PROVE  SettlementInv'
<1>1. tx[q].pc = "checkLines" /\ Op[q] = "createInvoice" /\ EntryOK(q, "checkLines")
  BY HandlerNow DEF CheckLines, At, HandlerOK
<1>2. CASE Rollback(q)
  BY <1>1, <1>2, RollbackStep
<1>3. CASE ~Rollback(q)
  <2>1. Goto(q, "number") /\ UNCHANGED tables
    BY <1>3 DEF CheckLines
  <2>2. /\ HandlerOK(q, [tx[q] EXCEPT !.pc = "number"])
        /\ Follows(tx[q].pc, "number") /\ EntryOK(q, "number")
    BY <1>1, HandlerNow DEF HandlerOK, Follows, EntryOK, Working, Closing, TxState
  <2> QED
    BY <2>1, <2>2, GotoStep DEF tables, Working
<1> QED
  BY <1>2, <1>3

LEMMA NumberStep ==
  ASSUME SettlementInv, NEW q \in Requests, NextNumber(q)
  PROVE  SettlementInv'
<1>1. tx[q].pc = "number" /\ Op[q] \in {"createInvoice", "pay"} /\ EntryOK(q, "number")
  BY HandlerNow DEF NextNumber, At, HandlerOK
<1>2. PICK pc \in {"insert", "record"} : pc = IF Op[q] = "pay" THEN "record" ELSE "insert"
  OBVIOUS
<1>3. /\ Goto(q, pc) /\ series' = [series EXCEPT ![Series[q]] = q]
      /\ UNCHANGED <<sales, deliveries, docs, payments>>
  BY <1>2 DEF NextNumber
<1>4. HandlerOK(q, [tx[q] EXCEPT !.pc = pc])
  BY <1>1, <1>2, HandlerNow DEF HandlerOK, TxState
<1>5. Follows(tx[q].pc, pc) /\ EntryOK(q, pc) /\ pc \in Working
  BY <1>1, <1>2 DEF Follows, EntryOK, Working, Closing
<1> QED
  BY <1>2, <1>3, <1>4, <1>5, GotoStep

LEMMA InsertStep ==
  ASSUME SettlementInv, NEW q \in Requests, InsertInvoice(q)
  PROVE  SettlementInv'
<1> DEFINE d == Target[q]
           row == [docs[d].cur EXCEPT !.status = "draft"]
<1>1. /\ tx[q].pc = "insert" /\ Op[q] = "createInvoice" /\ EntryOK(q, "insert")
      /\ d \in Docs
  BY HandlerNow, Targets DEF InsertInvoice, At, HandlerOK
<1>2. /\ Goto(q, "commit") /\ UNCHANGED <<sales, deliveries, payments, series>>
      /\ docs' = [docs EXCEPT ![d] = Put(q, docs[d], row)]
  BY DEF InsertInvoice
<1>3. PICK t \in TxState : /\ t = [tx[q] EXCEPT !.pc = "commit"] /\ t.pc = "commit"
                           /\ tx' = [tx EXCEPT ![q] = t]
  BY <1>2, GotoIs DEF Working
<1>4. HandlerOK(q, t) /\ Follows(tx[q].pc, t.pc)
  BY <1>1, <1>3 DEF HandlerOK, Follows, Working, Closing
<1>5. row \in DocRow /\ row.status = "draft"
  <2>1. docs[d] \in Versioned(DocRow, Requests)
    BY <1>1 DEF SettlementInv, RowsTyped
  <2> QED
    BY <2>1 DEF Versioned, DocRow, DocStatus
<1>6. Lockable(q, docs[d]) /\ docs[d].com.status = "none"
  BY <1>1 DEF EntryOK, Lockable
<1> HIDE DEF row, d
<1>7. HeldDoc(q, t.pc, d, Put(q, docs[d], row))
  BY <1>1, <1>3, <1>5, <1>6 DEF HeldDoc, Put, d
<1> QED
  BY <1>1, <1>2, <1>3, <1>4, <1>5, <1>6, <1>7, WriteDoc

LEMMA UpdateStep ==
  ASSUME SettlementInv, NEW q \in Requests, Update(q)
  PROVE  SettlementInv'
<1>1. Op[q] = "update" /\ tx[q].pc = "new" /\ Target[q] \in Docs
  BY Targets DEF Update, CanBegin
<1>2. CASE Rollback(q)
  BY <1>1, <1>2, RollbackStep
<1>3. CASE ~Rollback(q)
  <2>1. Goto(q, "write") /\ UNCHANGED tables /\ DraftOnly(q, Target[q])
    BY <1>3 DEF Update
  <2>2. docs[Target[q]].com.status = "draft"
    <3>1. docs[Target[q]].lock # q
      <4>1. DocOK(Target[q]) /\ q # Nobody
        BY <1>1, Workload DEF SettlementInv, DocsInv
      <4> QED
        BY <1>1, <4>1 DEF DocOK, HeldDoc, Closing
    <3> QED
      BY <2>1, <3>1 DEF DraftOnly, Seen
  <2>3. /\ HandlerOK(q, [tx[q] EXCEPT !.pc = "write"])
        /\ Follows(tx[q].pc, "write") /\ EntryOK(q, "write")
    BY <1>1, <2>2, HandlerNow DEF HandlerOK, Follows, EntryOK, Working, Closing, TxState
  <2> QED
    BY <2>1, <2>3, GotoStep DEF tables, Working
<1> QED
  BY <1>2, <1>3

LEMMA UpdateFieldsStep ==
  ASSUME SettlementInv, NEW q \in Requests, UpdateFields(q)
  PROVE  SettlementInv'
<1> DEFINE d == Target[q]
           row == [docs[d].cur EXCEPT !.amount = NewAmount[q]]
<1>1. /\ tx[q].pc = "write" /\ Op[q] = "update" /\ EntryOK(q, "write")
      /\ d \in Docs
  BY HandlerNow, Targets DEF UpdateFields, At, HandlerOK
<1>2. /\ Goto(q, "commit") /\ UNCHANGED <<sales, deliveries, payments, series>>
      /\ docs' = [docs EXCEPT ![d] = Put(q, docs[d], row)]
      /\ Lockable(q, docs[d])
  BY DEF UpdateFields
<1>3. PICK t \in TxState : /\ t = [tx[q] EXCEPT !.pc = "commit"] /\ t.pc = "commit"
                           /\ tx' = [tx EXCEPT ![q] = t]
  BY <1>2, GotoIs DEF Working
<1>4. HandlerOK(q, t) /\ Follows(tx[q].pc, t.pc)
  BY <1>1, <1>3 DEF HandlerOK, Follows, Working, Closing
<1>5. row \in DocRow /\ row.status = docs[d].cur.status
  <2>1. docs[d] \in Versioned(DocRow, Requests) /\ NewAmount[q] \in Nat
    BY <1>1, Workload DEF SettlementInv, RowsTyped
  <2> QED
    BY <2>1 DEF Versioned, DocRow
<1>6. docs[d].com.status # "none" /\ docs[d].cur = docs[d].com
  <2>1. DocOK(d) /\ q # Nobody /\ docs[d].lock \in {Nobody, q}
    BY <1>1, <1>2, Workload DEF SettlementInv, DocsInv, Lockable
  <2> QED
    BY <1>1, <2>1 DEF DocOK, HeldDoc, EntryOK, Closing
<1> HIDE DEF row, d
<1>7. HeldDoc(q, t.pc, d, Put(q, docs[d], row))
  BY <1>1, <1>3, <1>5, <1>6 DEF HeldDoc, Put, d
<1> QED
  BY <1>1, <1>2, <1>3, <1>4, <1>5, <1>6, <1>7, WriteDoc

LEMMA ApproveStep ==
  ASSUME SettlementInv, NEW q \in Requests, ApproveInvoice(q)
  PROVE  SettlementInv'
<1>1. Op[q] = "approveInvoice" /\ tx[q].pc = "new"
  BY DEF ApproveInvoice, CanBegin
<1>2. CASE Rollback(q)
  BY <1>1, <1>2, RollbackStep
<1>3. CASE ~Rollback(q)
  <2>1. Goto(q, "casApproved") /\ UNCHANGED tables
    BY <1>3 DEF ApproveInvoice
  <2>2. /\ HandlerOK(q, [tx[q] EXCEPT !.pc = "casApproved"])
        /\ Follows(tx[q].pc, "casApproved") /\ EntryOK(q, "casApproved")
    BY <1>1, HandlerNow DEF HandlerOK, Follows, EntryOK, Working, Closing, TxState
  <2> QED
    BY <2>1, <2>2, GotoStep DEF tables, Working
<1> QED
  BY <1>2, <1>3

LEMMA ApprovedRow ==
  ASSUME SettlementInv, NEW q \in Requests, TransitionToApproved(q), ~Rollback(q)
  PROVE  LET d == Target[q]
             row == [docs[d].cur EXCEPT !.status = "approved"]
         IN
         /\ tx[q].pc = "casApproved" /\ Op[q] = "approveInvoice"
         /\ d \in Invoices /\ d \in Docs
         /\ docs[d].com.status = "draft" /\ docs[d].cur = docs[d].com
         /\ docs[d].lock = Nobody
         /\ row \in DocRow /\ row.status = "approved" /\ row.amount = docs[d].com.amount
         /\ docs' = [docs EXCEPT ![d] = Put(q, docs[d], row)]
         /\ \E t \in TxState :
              /\ t = [tx[q] EXCEPT !.pc = "sumDelivered", !.recheck = {InvoiceSale[d]}]
              /\ t.pc = "sumDelivered" /\ t.recheck = {InvoiceSale[d]}
              /\ tx' = [tx EXCEPT ![q] = t]
         /\ UNCHANGED <<sales, deliveries, payments, series>>
<1> DEFINE d == Target[q]
           row == [docs[d].cur EXCEPT !.status = "approved"]
           t == [tx[q] EXCEPT !.pc = "sumDelivered", !.recheck = {InvoiceSale[d]}]
<1>1. /\ tx[q].pc = "casApproved" /\ Op[q] = "approveInvoice"
      /\ d \in Invoices /\ d \in Docs
  BY HandlerNow, Targets DEF TransitionToApproved, At, HandlerOK
<1>2. /\ Seen(q, docs[d]).status = "draft" /\ Lockable(q, docs[d])
      /\ docs' = [docs EXCEPT ![d] = Put(q, docs[d], row)]
      /\ UNCHANGED <<sales, deliveries, payments, series>>
  BY DEF TransitionToApproved
<1>3. tx' = [tx EXCEPT ![q] = t]
  BY HandlerNow DEF TransitionToApproved, TxState
<1>4. t \in TxState /\ t.pc = "sumDelivered" /\ t.recheck = {InvoiceSale[d]}
  <2>1. InvoiceSale[d] \in Sales
    BY <1>1, Workload
  <2> QED
    BY <2>1, HandlerNow DEF TxState, Working
<1>5. docs[d].com.status = "draft" /\ docs[d].cur = docs[d].com /\ docs[d].lock = Nobody
  <2>1. DocOK(d) /\ q # Nobody /\ docs[d].lock \in {Nobody, q}
    BY <1>1, <1>2, Workload DEF SettlementInv, DocsInv, Lockable
  <2>2. docs[d].lock = Nobody
    BY <1>1, <2>1 DEF DocOK, HeldDoc, Closing
  <2> QED
    BY <1>2, <2>1, <2>2 DEF DocOK, Seen
<1>6. row \in DocRow /\ row.status = "approved" /\ row.amount = docs[d].com.amount
  <2>1. docs[d] \in Versioned(DocRow, Requests)
    BY <1>1 DEF SettlementInv, RowsTyped
  <2> QED
    BY <1>5, <2>1 DEF Versioned, DocRow, DocStatus
<1> QED
  BY <1>1, <1>2, <1>3, <1>4, <1>5, <1>6

LEMMA ApprovedStep ==
  ASSUME SettlementInv, NEW q \in Requests, TransitionToApproved(q)
  PROVE  SettlementInv'
<1>1. CASE Rollback(q)
  <2>1. tx[q].pc = "casApproved"
    BY DEF TransitionToApproved, At
  <2> QED
    BY <1>1, <2>1, RollbackStep
<1>2. CASE ~Rollback(q)
  <2> DEFINE d == Target[q]
             row == [docs[d].cur EXCEPT !.status = "approved"]
  <2>1. /\ tx[q].pc = "casApproved" /\ Op[q] = "approveInvoice"
        /\ d \in Invoices /\ d \in Docs
        /\ docs[d].com.status = "draft" /\ docs[d].lock = Nobody
        /\ row \in DocRow /\ row.status = "approved"
        /\ docs' = [docs EXCEPT ![d] = Put(q, docs[d], row)]
        /\ UNCHANGED <<sales, deliveries, payments, series>>
    BY <1>2, ApprovedRow
  <2>2. PICK t \in TxState : /\ t.pc = "sumDelivered" /\ t.recheck = {InvoiceSale[d]}
                             /\ tx' = [tx EXCEPT ![q] = t]
    BY <1>2, ApprovedRow
  <2>3. HandlerOK(q, t) /\ Follows(tx[q].pc, t.pc)
    BY <2>1, <2>2 DEF HandlerOK, Follows, Working, Closing
  <2>4. HeldDoc(q, t.pc, d, Put(q, docs[d], row)) /\ Lockable(q, docs[d])
    BY <2>1, <2>2 DEF HeldDoc, Put, Closing, Lockable
  <2> HIDE DEF d, row
  <2> QED
    BY <2>1, <2>2, <2>3, <2>4, WriteDoc
<1> QED
  BY <1>1, <1>2

LEMMA SumDeliveriesStep ==
  ASSUME SettlementInv, NEW q \in Requests, SumDeliveries(q)
  PROVE  /\ SettlementInv'
         /\ tx[q].pc = "sumDelivered" /\ UNCHANGED tables
         /\ tx' = [tx EXCEPT ![q] = [tx[q] EXCEPT !.pc = "sumInvoiced",
                         !.delivered = SumDelivered(SeenAll(q, deliveries))]]
<1> DEFINE sums == SumDelivered(SeenAll(q, deliveries))
           t == [tx[q] EXCEPT !.pc = "sumInvoiced", !.delivered = sums]
<1>1. /\ tx[q].pc = "sumDelivered" /\ UNCHANGED tables
      /\ tx' = [tx EXCEPT ![q] = t]
  BY HandlerNow DEF SumDeliveries, At, TxState
<1>2. t \in TxState /\ t.pc = "sumInvoiced" /\ t.recheck = tx[q].recheck
  <2>1. sums \in [Items -> Nat]
    BY DeliveredType
  <2> HIDE DEF sums
  <2> QED
    BY <2>1, HandlerNow DEF TxState, Working
<1>3. SettlementInv'
  <2> HIDE DEF t
  <2>1. HandlerOK(q, t) /\ Follows(tx[q].pc, t.pc) /\ EntryOK(q, t.pc)
    BY <1>1, <1>2, HandlerNow DEF HandlerOK, Follows, EntryOK, Working, Closing
  <2> QED
    BY <1>1, <1>2, <2>1, ReadStep DEF tables
<1> QED
  BY <1>1, <1>3

\* An approval rechecks one sale.
LEMMA SaleOfApproval ==
  ASSUME NEW q \in Requests, Op[q] = "approveInvoice",
         tx[q].recheck = {InvoiceSale[Target[q]]}
  PROVE  NextSale(q) = InvoiceSale[Target[q]]
<1> DEFINE lines == SalesOf(q)
<1>1. lines = <<InvoiceSale[Target[q]]>>
  BY DEF SalesOf, DocsOf
<1>2. 1 \in DOMAIN lines /\ lines[1] = InvoiceSale[Target[q]] /\ 1..(1-1) = {}
  BY <1>1
<1> HIDE DEF lines
<1>3. \E x \in tx[q].recheck : \E k \in DOMAIN lines :
        lines[k] = x /\ \A j \in 1..(k-1) : lines[j] \notin tx[q].recheck
  BY <1>2
<1>4. FirstOf(lines, tx[q].recheck) \in tx[q].recheck
  BY <1>3 DEF FirstOf
<1> QED
  BY <1>4 DEF NextSale, lines

\* Going on to the next sale to recheck, or to the commit.
LEMMA NextSaleStep ==
  ASSUME SettlementInv, NEW q \in Requests,
         tx[q].pc \in {"sumInvoiced", "close"},
         NEW rest, rest = tx[q].recheck \ {NextSale(q)},
         tx' = [tx EXCEPT ![q].pc = AfterSales(rest), ![q].recheck = rest]
  PROVE  \E t \in TxState :
           /\ t = [tx[q] EXCEPT !.pc = AfterSales(rest), !.recheck = rest]
           /\ t.pc \in {"commit", "sumDelivered"}
           /\ tx' = [tx EXCEPT ![q] = t]
           /\ HandlerOK(q, t) /\ Follows(tx[q].pc, t.pc) /\ EntryOK(q, t.pc)
           /\ Op[q] \in {"pay", "approveInvoice"}
           /\ Op[q] = "approveInvoice" => t.pc = "commit" /\ NextSale(q) = InvoiceSale[Target[q]]
<1> DEFINE t == [tx[q] EXCEPT !.pc = AfterSales(rest), !.recheck = rest]
<1>1. tx' = [tx EXCEPT ![q] = t] /\ t.pc = AfterSales(rest)
  BY HandlerNow DEF TxState
<1>2. \/ Op[q] = "pay"
      \/ Op[q] = "approveInvoice" /\ tx[q].recheck = {InvoiceSale[Target[q]]}
  BY HandlerNow DEF HandlerOK
<1>3. Op[q] = "approveInvoice" => rest = {} /\ NextSale(q) = InvoiceSale[Target[q]]
  BY <1>2, SaleOfApproval
<1>4. AfterSales(rest) \in {"commit", "sumDelivered"} /\ (rest = {} => AfterSales(rest) = "commit")
  BY DEF AfterSales
<1>5. t \in TxState
  <2>1. rest \in SUBSET Sales
    BY HandlerNow DEF TxState
  <2> QED
    BY <1>4, <2>1, HandlerNow DEF TxState, Working
<1>6. HandlerOK(q, t) /\ Follows(tx[q].pc, t.pc) /\ EntryOK(q, t.pc)
  <2>1. t.pc = "sumDelivered" => Op[q] = "pay"
    BY <1>1, <1>2, <1>3, <1>4
  <2>2. t.pc \in {"commit", "sumDelivered"} /\ Op[q] # "createInvoice"
    BY <1>1, <1>2, <1>4
  <2> HIDE DEF t
  <2> QED
    BY <2>1, <2>2 DEF HandlerOK, Follows, EntryOK, Working, Closing
<1> QED
  BY <1>1, <1>2, <1>3, <1>4, <1>5, <1>6

LEMMA SumInvoicesStep ==
  ASSUME SettlementInv, NEW q \in Requests, SumInvoices(q)
  PROVE  SettlementInv'
<1>1. tx[q].pc = "sumInvoiced" /\ UNCHANGED tables
  BY DEF SumInvoices, At
<1>2. CASE Goto(q, "close")
  <2>1. /\ HandlerOK(q, [tx[q] EXCEPT !.pc = "close"])
        /\ Follows(tx[q].pc, "close") /\ EntryOK(q, "close")
    BY <1>1, HandlerNow DEF HandlerOK, Follows, EntryOK, Working, Closing, TxState
  <2> QED
    BY <1>1, <1>2, <2>1, GotoStep DEF tables, Working
<1>3. CASE ~Goto(q, "close")
  <2>1. PICK rest : /\ rest = tx[q].recheck \ {NextSale(q)}
                    /\ tx' = [tx EXCEPT ![q].pc = AfterSales(rest), ![q].recheck = rest]
    BY <1>3 DEF SumInvoices
  <2>2. PICK t \in TxState : /\ tx' = [tx EXCEPT ![q] = t]
                             /\ HandlerOK(q, t) /\ Follows(tx[q].pc, t.pc) /\ EntryOK(q, t.pc)
    BY <1>1, <2>1, NextSaleStep
  <2> QED
    BY <1>1, <2>2, ReadStep DEF tables
<1> QED
  BY <1>2, <1>3

\* The close writes nothing, or takes an approved sale.
LEMMA CloseIs ==
  ASSUME SettlementInv, NEW q \in Requests, MaybeAutoClose(q)
  PROVE  LET s == NextSale(q) IN
         /\ tx[q].pc = "close"
         /\ UNCHANGED <<deliveries, docs, payments, series>>
         /\ \/ UNCHANGED sales /\ (s \in Sales => Seen(q, sales[s]) # "approved")
            \/ /\ s \in Sales /\ sales[s].com = "approved" /\ Lockable(q, sales[s])
               /\ sales' = [sales EXCEPT ![s] = Put(q, sales[s], "closed")]
         /\ \E t \in TxState :
              /\ t = [tx[q] EXCEPT !.pc = AfterSales(tx[q].recheck \ {s}),
                                   !.recheck = tx[q].recheck \ {s}]
              /\ t.pc \in {"commit", "sumDelivered"}
              /\ tx' = [tx EXCEPT ![q] = t]
              /\ HandlerOK(q, t) /\ Follows(tx[q].pc, t.pc) /\ EntryOK(q, t.pc)
              /\ Op[q] \in {"pay", "approveInvoice"}
              /\ Op[q] = "approveInvoice" => t.pc = "commit" /\ s = InvoiceSale[Target[q]]
<1> DEFINE s == NextSale(q)
<1>1. /\ tx[q].pc = "close" /\ UNCHANGED <<deliveries, docs, payments, series>>
      /\ \/ /\ Seen(q, sales[s]) = "approved" /\ Lockable(q, sales[s])
            /\ sales' = [sales EXCEPT ![s] = Put(q, sales[s], "closed")]
         \/ Seen(q, sales[s]) # "approved" /\ UNCHANGED sales
  BY DEF MaybeAutoClose, At
<1>2. \E t \in TxState :
        /\ t = [tx[q] EXCEPT !.pc = AfterSales(tx[q].recheck \ {s}),
                             !.recheck = tx[q].recheck \ {s}]
        /\ t.pc \in {"commit", "sumDelivered"}
        /\ tx' = [tx EXCEPT ![q] = t]
        /\ HandlerOK(q, t) /\ Follows(tx[q].pc, t.pc) /\ EntryOK(q, t.pc)
        /\ Op[q] \in {"pay", "approveInvoice"}
        /\ Op[q] = "approveInvoice" => t.pc = "commit" /\ s = InvoiceSale[Target[q]]
  <2>1. PICK rest : /\ rest = tx[q].recheck \ {s}
                    /\ tx' = [tx EXCEPT ![q].pc = AfterSales(rest), ![q].recheck = rest]
    BY DEF MaybeAutoClose
  <2> QED
    BY <1>1, <2>1, NextSaleStep
<1>3. \/ UNCHANGED sales /\ (s \in Sales => Seen(q, sales[s]) # "approved")
      \/ /\ s \in Sales /\ sales[s].com = "approved" /\ Lockable(q, sales[s])
         /\ sales' = [sales EXCEPT ![s] = Put(q, sales[s], "closed")]
  <2>1. sales \in [Sales -> Versioned(SaleStatus, Requests)] /\ q # Nobody
    BY Workload DEF SettlementInv, RowsTyped
  <2>2. CASE s \notin Sales
    <3>1. sales' = sales
      BY <1>1, <2>1, <2>2
    <3> QED
      BY <2>2, <3>1
  <2>3. CASE s \in Sales
    <3>1. SaleOK(s)
      BY <2>3 DEF SettlementInv, SalesInv
    <3>2. CASE Seen(q, sales[s]) # "approved" /\ UNCHANGED sales
      BY <3>2
    <3>3. CASE /\ Seen(q, sales[s]) = "approved" /\ Lockable(q, sales[s])
               /\ sales' = [sales EXCEPT ![s] = Put(q, sales[s], "closed")]
      BY <2>1, <2>3, <3>1, <3>3 DEF SaleOK, HeldSale, Seen, Lockable
    <3> QED
      BY <1>1, <3>2, <3>3
  <2> QED
    BY <2>2, <2>3
<1> QED
  BY <1>1, <1>2, <1>3
LEMMA CloseStepInv ==
  ASSUME SettlementInv, NEW q \in Requests, MaybeAutoClose(q)
  PROVE  SettlementInv'
<1> DEFINE s == NextSale(q)
<1>1. PICK t \in TxState :
        /\ t.pc \in {"commit", "sumDelivered"}
        /\ tx' = [tx EXCEPT ![q] = t]
        /\ HandlerOK(q, t) /\ Follows(tx[q].pc, t.pc) /\ EntryOK(q, t.pc)
        /\ Op[q] \in {"pay", "approveInvoice"}
        /\ Op[q] = "approveInvoice" => t.pc = "commit" /\ s = InvoiceSale[Target[q]]
  BY CloseIs
<1>2. UNCHANGED <<deliveries, docs, payments, series>>
  BY CloseIs
<1>3. CASE UNCHANGED sales
  BY <1>1, <1>2, <1>3, ReadStep
<1>4. CASE /\ s \in Sales /\ sales[s].com = "approved" /\ Lockable(q, sales[s])
           /\ sales' = [sales EXCEPT ![s] = Put(q, sales[s], "closed")]
  <2>1. HeldSale(q, t.pc, s, Put(q, sales[s], "closed"))
    <3>1. Put(q, sales[s], "closed").com = "approved" /\ Put(q, sales[s], "closed").cur = "closed"
      BY <1>4 DEF Put
    <3> HIDE DEF s
    <3> QED
      BY <1>1, <3>1 DEF HeldSale, Closing
  <2>2. "closed" \in SaleStatus
    BY DEF SaleStatus
  <2> HIDE DEF s
  <2> QED
    BY <1>1, <1>2, <1>4, <2>1, <2>2, WriteSale
<1>5. \/ UNCHANGED sales
      \/ /\ s \in Sales /\ sales[s].com = "approved" /\ Lockable(q, sales[s])
         /\ sales' = [sales EXCEPT ![s] = Put(q, sales[s], "closed")]
  BY CloseIs
<1> QED
  BY <1>3, <1>4, <1>5

LEMMA CancelStepInv ==
  ASSUME SettlementInv, NEW q \in Requests, CancelSale(q)
  PROVE  SettlementInv'
<1>1. Op[q] = "cancelSale" /\ tx[q].pc = "new"
  BY DEF CancelSale, CanBegin
<1>2. CASE Rollback(q)
  BY <1>1, <1>2, RollbackStep
<1>3. CASE ~Rollback(q)
  <2>1. Goto(q, "casCancelled") /\ UNCHANGED tables
    BY <1>3 DEF CancelSale
  <2>2. /\ HandlerOK(q, [tx[q] EXCEPT !.pc = "casCancelled"])
        /\ Follows(tx[q].pc, "casCancelled") /\ EntryOK(q, "casCancelled")
    BY <1>1, HandlerNow DEF HandlerOK, Follows, EntryOK, Working, Closing, TxState
  <2> QED
    BY <2>1, <2>2, GotoStep DEF tables, Working
<1> QED
  BY <1>2, <1>3

LEMMA CancelledIs ==
  ASSUME SettlementInv, NEW q \in Requests, TransitionToCancelled(q), ~Rollback(q)
  PROVE  LET s == Target[q] IN
         /\ tx[q].pc = "casCancelled" /\ Op[q] = "cancelSale" /\ s \in Sales
         /\ sales[s].com = "approved" /\ Lockable(q, sales[s])
         /\ sales' = [sales EXCEPT ![s] = Put(q, sales[s], "cancelled")]
         /\ Goto(q, "commit")
         /\ UNCHANGED <<deliveries, docs, payments, series>>
<1> DEFINE s == Target[q]
<1>1. tx[q].pc = "casCancelled" /\ Op[q] = "cancelSale" /\ s \in Sales
  BY HandlerNow, Targets DEF TransitionToCancelled, At, HandlerOK
<1>2. /\ Seen(q, sales[s]) = "approved" /\ Lockable(q, sales[s])
      /\ sales' = [sales EXCEPT ![s] = Put(q, sales[s], "cancelled")]
      /\ Goto(q, "commit")
      /\ UNCHANGED <<deliveries, docs, payments, series>>
  BY DEF TransitionToCancelled
<1>3. sales[s].com = "approved"
  <2>1. SaleOK(s) /\ q # Nobody
    BY <1>1, Workload DEF SettlementInv, SalesInv
  <2> QED
    BY <1>1, <1>2, <2>1 DEF SaleOK, HeldSale, Seen, Lockable
<1> QED
  BY <1>1, <1>2, <1>3

LEMMA CancelledStep ==
  ASSUME SettlementInv, NEW q \in Requests, TransitionToCancelled(q)
  PROVE  SettlementInv'
<1>1. CASE Rollback(q)
  <2>1. tx[q].pc = "casCancelled"
    BY DEF TransitionToCancelled, At
  <2> QED
    BY <1>1, <2>1, RollbackStep
<1>2. CASE ~Rollback(q)
  <2> DEFINE s == Target[q]
  <2>1. /\ tx[q].pc = "casCancelled" /\ Op[q] = "cancelSale" /\ s \in Sales
        /\ sales[s].com = "approved" /\ Lockable(q, sales[s])
        /\ sales' = [sales EXCEPT ![s] = Put(q, sales[s], "cancelled")]
        /\ Goto(q, "commit")
        /\ UNCHANGED <<deliveries, docs, payments, series>>
    BY <1>2, CancelledIs
  <2>2. PICK t \in TxState : /\ t = [tx[q] EXCEPT !.pc = "commit"] /\ t.pc = "commit"
                             /\ tx' = [tx EXCEPT ![q] = t]
    BY <2>1, GotoIs DEF Working
  <2>3. HandlerOK(q, t) /\ Follows(tx[q].pc, t.pc) /\ EntryOK(q, t.pc)
    BY <2>1, <2>2 DEF HandlerOK, Follows, EntryOK, Working, Closing
  <2>4. HeldSale(q, t.pc, s, Put(q, sales[s], "cancelled")) /\ "cancelled" \in SaleStatus
    BY <2>1, <2>2 DEF HeldSale, Put, SaleStatus
  <2> HIDE DEF s
  <2> QED
    BY <2>1, <2>2, <2>3, <2>4, WriteSale
<1> QED
  BY <1>1, <1>2

LEMMA PayIs ==
  ASSUME SettlementInv, NEW q \in Requests, Pay(q), ~Rollback(q)
  PROVE  /\ Op[q] = "pay" /\ tx[q].pc = "new" /\ UNCHANGED tables
         /\ \A k \in DOMAIN Allocations[q] :
              Seen(q, docs[Allocations[q][k].doc]).status = "approved"
         /\ \E t \in TxState :
              /\ t = [tx[q] EXCEPT !.pc = "checkOutstanding",
                        !.amount = [d \in Docs |-> Seen(q, docs[d]).amount]]
              /\ t.pc = "checkOutstanding"
              /\ \A d \in Docs : t.amount[d] = Seen(q, docs[d]).amount
              /\ tx' = [tx EXCEPT ![q] = t]
<1> DEFINE rows == [d \in Docs |-> Seen(q, docs[d])]
           amounts == [d \in Docs |-> Seen(q, docs[d]).amount]
           t == [tx[q] EXCEPT !.pc = "checkOutstanding", !.amount = amounts]
<1>1. \A d \in Docs : rows[d] = Seen(q, docs[d]) /\ rows[d].amount = Seen(q, docs[d]).amount
  OBVIOUS
<1>2. \A k \in DOMAIN Allocations[q] : Allocations[q][k].doc \in Docs
  <2>1. Allocations[q] \in Seq(Allocation)
    BY Workload
  <2>2. \A k \in DOMAIN Allocations[q] : Allocations[q][k] \in Allocation
    BY <2>1
  <2> QED
    BY <2>2 DEF Allocation
<1>3. [d \in Docs |-> rows[d].amount] = amounts
  OBVIOUS
<1>4. /\ Op[q] = "pay" /\ tx[q].pc = "new" /\ UNCHANGED tables
      /\ \A k \in DOMAIN Allocations[q] : rows[Allocations[q][k].doc].status = "approved"
      /\ tx' = [tx EXCEPT ![q].pc = "checkOutstanding",
                          ![q].amount = [d \in Docs |-> rows[d].amount]]
  BY DEF Pay, CanBegin
<1>5. amounts \in [Docs -> Nat]
  <2>1. \A d \in Docs : docs[d] \in Versioned(DocRow, Requests)
    BY DEF SettlementInv, RowsTyped
  <2>2. \A d \in Docs : Seen(q, docs[d]) \in DocRow
    BY <2>1, RowTypes
  <2> QED
    BY <2>2 DEF DocRow
<1>6. tx' = [tx EXCEPT ![q] = t]
  <2> HIDE DEF amounts, rows
  <2> QED
    BY <1>3, <1>4, HandlerNow DEF TxState
<1>7. t \in TxState /\ t.pc = "checkOutstanding" /\ t.amount = amounts
  <2> HIDE DEF amounts
  <2> QED
    BY <1>5, HandlerNow DEF TxState, Working
<1>8. \A k \in DOMAIN Allocations[q] :
        Seen(q, docs[Allocations[q][k].doc]).status = "approved"
  BY <1>1, <1>2, <1>4
<1>9. \A d \in Docs : t.amount[d] = Seen(q, docs[d]).amount
  <2>1. \A d \in Docs : amounts[d] = Seen(q, docs[d]).amount
    OBVIOUS
  <2> HIDE DEF t, amounts
  <2> QED
    BY <1>7, <2>1
<1> QED
  BY <1>4, <1>6, <1>7, <1>8, <1>9

LEMMA PayStep ==
  ASSUME SettlementInv, NEW q \in Requests, Pay(q)
  PROVE  SettlementInv'
<1>1. tx[q].pc = "new"
  BY DEF Pay, CanBegin
<1>2. CASE Rollback(q)
  BY <1>1, <1>2, RollbackStep
<1>3. CASE ~Rollback(q)
  <2>1. Op[q] = "pay" /\ UNCHANGED tables
    BY <1>3, PayIs
  <2>2. PICK t \in TxState : t.pc = "checkOutstanding" /\ tx' = [tx EXCEPT ![q] = t]
    BY <1>3, PayIs
  <2>3. HandlerOK(q, t) /\ Follows(tx[q].pc, t.pc) /\ EntryOK(q, t.pc)
    BY <1>1, <2>1, <2>2 DEF HandlerOK, Follows, EntryOK, Working, Closing
  <2> QED
    BY <2>1, <2>2, <2>3, ReadStep DEF tables
<1> QED
  BY <1>2, <1>3

LEMMA CheckOutstandingStep ==
  ASSUME SettlementInv, NEW q \in Requests, CheckOutstanding(q)
  PROVE  SettlementInv'
<1>1. tx[q].pc = "checkOutstanding" /\ Op[q] = "pay"
  BY HandlerNow DEF CheckOutstanding, At, HandlerOK
<1>2. CASE Rollback(q)
  BY <1>1, <1>2, RollbackStep
<1>3. CASE ~Rollback(q)
  <2>1. Goto(q, "number") /\ UNCHANGED tables
    BY <1>3 DEF CheckOutstanding
  <2>2. /\ HandlerOK(q, [tx[q] EXCEPT !.pc = "number"])
        /\ Follows(tx[q].pc, "number") /\ EntryOK(q, "number")
    BY <1>1, HandlerNow DEF HandlerOK, Follows, EntryOK, Working, Closing, TxState
  <2> QED
    BY <2>1, <2>2, GotoStep DEF tables, Working
<1> QED
  BY <1>2, <1>3
LEMMA AfterDocsIs ==
  ASSUME NEW settle, NEW recheck
  PROVE  /\ AfterDocs(settle, recheck) \in {"settle", "sumDelivered", "commit"}
         /\ AfterDocs(settle, recheck) = "settle" <=> settle # {}
BY DEF AfterDocs, AfterSales

\* The documents of a payment are documents.
LEMMA PaidDocs ==
  ASSUME NEW q \in Requests, Op[q] = "pay"
  PROVE  /\ DOMAIN DocsOf(q) = DOMAIN Allocations[q]
         /\ \A k \in DOMAIN DocsOf(q) : DocsOf(q)[k] \in Docs /\ DocsOf(q)[k] = Allocations[q][k].doc
         /\ Len(Allocations[q]) \in Nat /\ DOMAIN Allocations[q] = 1..Len(Allocations[q])
<1>1. Allocations[q] \in Seq(Allocation)
  BY Workload
<1>2. \A k \in DOMAIN Allocations[q] : Allocations[q][k] \in Allocation
  BY <1>1
<1>3. DocsOf(q) = [k \in DOMAIN Allocations[q] |-> Allocations[q][k].doc]
  BY DEF DocsOf
<1> QED
  BY <1>1, <1>2, <1>3 DEF Allocation

LEMMA RecordIs ==
  ASSUME SettlementInv, NEW q \in Requests, RecordPayment(q)
  PROVE  LET recorded == [SeenAll(q, payments) EXCEPT ![q] = TRUE]
             paid == SumPaid(recorded)
             paidFor == {d \in Docs : \E k \in DOMAIN DocsOf(q) : DocsOf(q)[k] = d}
             settle == {d \in paidFor : Settled(tx[q].amount[d], paid[d])}
             recheck == {InvoiceSale[d] : d \in paidFor \cap Invoices}
         IN
         /\ tx[q].pc = "record" /\ Op[q] = "pay"
         /\ payments' = [payments EXCEPT ![q] = Put(q, payments[q], TRUE)]
         /\ UNCHANGED <<sales, deliveries, docs, series>>
         /\ \E t \in TxState :
              /\ t = [tx[q] EXCEPT !.pc = AfterDocs(settle, recheck),
                                   !.settle = settle, !.recheck = recheck]
              /\ t.pc \in {"settle", "sumDelivered", "commit"}
              /\ t.pc = AfterDocs(settle, recheck) /\ t.settle = settle
              /\ t.amount = tx[q].amount /\ t.recheck = recheck
              /\ tx' = [tx EXCEPT ![q] = t]
<1> DEFINE recorded == [SeenAll(q, payments) EXCEPT ![q] = TRUE]
           paid == SumPaid(recorded)
           paidFor == {d \in Docs : \E k \in DOMAIN DocsOf(q) : DocsOf(q)[k] = d}
           settle == {d \in paidFor : Settled(tx[q].amount[d], paid[d])}
           recheck == {InvoiceSale[d] : d \in paidFor \cap Invoices}
           t == [tx[q] EXCEPT !.pc = AfterDocs(settle, recheck),
                              !.settle = settle, !.recheck = recheck]
<1>1. /\ tx[q].pc = "record" /\ Op[q] = "pay"
      /\ UNCHANGED <<sales, deliveries, docs, series>>
  BY HandlerNow DEF RecordPayment, At, HandlerOK
<1>2. payments' = [payments EXCEPT ![q] = Put(q, payments[q], TRUE)]
  BY DEF RecordPayment
<1>3. tx' = [tx EXCEPT ![q].pc = AfterDocs(settle, recheck),
                       ![q].settle = settle, ![q].recheck = recheck]
  BY DEF RecordPayment
<1>4. settle \in SUBSET Docs /\ recheck \in SUBSET Sales
  BY Workload
<1> HIDE DEF settle, recheck
<1>5. AfterDocs(settle, recheck) \in {"settle", "sumDelivered", "commit"}
  BY AfterDocsIs
<1>6. tx' = [tx EXCEPT ![q] = t]
  BY <1>3, HandlerNow DEF TxState
<1>7. /\ t \in TxState
      /\ t.pc = AfterDocs(settle, recheck) /\ t.settle = settle
      /\ t.amount = tx[q].amount /\ t.recheck = recheck
  BY <1>4, <1>5, HandlerNow DEF TxState, Working
<1>8. \E u \in TxState :
        /\ u = t
        /\ u.pc \in {"settle", "sumDelivered", "commit"}
        /\ u.pc = AfterDocs(settle, recheck) /\ u.settle = settle
        /\ u.amount = tx[q].amount /\ u.recheck = recheck
        /\ tx' = [tx EXCEPT ![q] = u]
  <2> HIDE DEF t
  <2> QED
    BY <1>5, <1>6, <1>7
<1> QED
  BY <1>1, <1>2, <1>8 DEF settle, recheck

LEMMA RecordStep ==
  ASSUME SettlementInv, NEW q \in Requests, RecordPayment(q)
  PROVE  SettlementInv'
<1>1. /\ tx[q].pc = "record" /\ Op[q] = "pay" /\ q \in Payments /\ q # Nobody
      /\ payments' = [payments EXCEPT ![q] = Put(q, payments[q], TRUE)]
      /\ UNCHANGED <<sales, deliveries, docs, series>>
  BY RecordIs, Workload DEF Payments
<1>2. PICK t \in TxState : /\ t.pc \in {"settle", "sumDelivered", "commit"}
                           /\ tx' = [tx EXCEPT ![q] = t]
  BY RecordIs
<1>3. HandlerOK(q, t) /\ Follows(tx[q].pc, t.pc) /\ EntryOK(q, t.pc)
  BY <1>1, <1>2 DEF HandlerOK, Follows, EntryOK, Working, Closing
<1>4. /\ tx' \in [Requests -> TxState] /\ HandlersInv'
      /\ tx'[q] = t /\ \A p \in Requests \ {q} : tx'[p] = tx[p]
      /\ DocsInv' /\ SalesInv' /\ SeriesInv'
  BY <1>1, <1>2, <1>3, Quiet
<1>5. /\ payments \in [Payments -> Versioned(BOOLEAN, Requests)]
      /\ payments' \in [Payments -> Versioned(BOOLEAN, Requests)]
      /\ payments'[q].lock = q /\ payments'[q].cur
      /\ \A p \in Payments \ {q} : payments'[p] = payments[p]
  <2>1. payments \in [Payments -> Versioned(BOOLEAN, Requests)]
    BY DEF SettlementInv, RowsTyped
  <2>2. Put(q, payments[q], TRUE) \in Versioned(BOOLEAN, Requests)
    BY <1>1, <2>1, RowTypes
  <2> QED
    BY <1>1, <2>1, <2>2 DEF Put
<1>6. PaymentsInv'
  <2> SUFFICES ASSUME NEW p \in Payments PROVE PaymentOK(p)'
    BY DEF PaymentsInv
  <2>1. PaymentOK(p) /\ p \in Requests
    BY DEF SettlementInv, PaymentsInv, Payments
  <2>2. CASE p = q
    BY <1>1, <1>2, <1>4, <1>5, <2>2 DEF PaymentOK, Closing
  <2>3. CASE p # q
    BY <1>4, <1>5, <2>1, <2>3 DEF PaymentOK
  <2> QED
    BY <2>2, <2>3
<1>7. RowsTyped' /\ DeliveriesInv'
  BY <1>1, <1>4, <1>5 DEF SettlementInv, RowsTyped, DeliveriesInv
<1>8. EntriesInv'
  <2> SUFFICES ASSUME NEW p \in Requests PROVE EntryOK(p, tx[p].pc)'
    BY DEF EntriesInv
  <2>1. EntryOK(p, tx[p].pc)
    BY DEF SettlementInv, EntriesInv
  <2> QED
    BY <1>1, <1>3, <1>4, <2>1 DEF EntryOK
<1> QED
  BY <1>4, <1>6, <1>7, <1>8 DEF SettlementInv

LEMMA PaidIs ==
  ASSUME SettlementInv, NEW q \in Requests, TransitionToPaid(q)
  PROVE  LET d == NextDoc(q)
             row == [docs[d].cur EXCEPT !.status = "paid"]
         IN
         /\ tx[q].pc = "settle" /\ Op[q] = "pay"
         /\ UNCHANGED <<sales, deliveries, payments, series>>
         /\ \/ UNCHANGED docs /\ (d \in Docs => Seen(q, docs[d]).status # "approved")
            \/ /\ d \in Docs /\ docs[d].lock = Nobody
               /\ docs[d].cur = docs[d].com /\ docs[d].com.status = "approved"
               /\ row \in DocRow /\ row.status = "paid" /\ row.amount = docs[d].com.amount
               /\ docs' = [docs EXCEPT ![d] = Put(q, docs[d], row)]
         /\ \E t \in TxState :
              /\ t = [tx[q] EXCEPT !.pc = AfterDocs(tx[q].settle \ {d}, tx[q].recheck),
                                   !.settle = tx[q].settle \ {d}]
              /\ t.pc \in {"settle", "sumDelivered", "commit"}
              /\ t.pc = AfterDocs(tx[q].settle \ {d}, tx[q].recheck)
              /\ t.settle = tx[q].settle \ {d} /\ t.amount = tx[q].amount
              /\ tx' = [tx EXCEPT ![q] = t]
<1> DEFINE d == NextDoc(q)
           row == [docs[d].cur EXCEPT !.status = "paid"]
           rest == tx[q].settle \ {d}
           t == [tx[q] EXCEPT !.pc = AfterDocs(rest, tx[q].recheck), !.settle = rest]
<1>1. /\ tx[q].pc = "settle" /\ Op[q] = "pay"
      /\ UNCHANGED <<sales, deliveries, payments, series>>
      /\ \/ Seen(q, docs[d]).status # "approved" /\ UNCHANGED docs
         \/ /\ Seen(q, docs[d]).status = "approved" /\ Lockable(q, docs[d])
            /\ docs' = [docs EXCEPT ![d] = Put(q, docs[d], row)]
  BY HandlerNow DEF TransitionToPaid, At, HandlerOK
<1>2. tx' = [tx EXCEPT ![q].pc = AfterDocs(rest, tx[q].recheck), ![q].settle = rest]
  BY DEF TransitionToPaid
<1>3. \E u \in TxState :
        /\ u = t
        /\ u.pc \in {"settle", "sumDelivered", "commit"}
        /\ u.pc = AfterDocs(rest, tx[q].recheck) /\ u.settle = rest
        /\ u.amount = tx[q].amount /\ tx' = [tx EXCEPT ![q] = u]
  <2>1. /\ rest \in SUBSET Docs
        /\ AfterDocs(rest, tx[q].recheck) \in {"settle", "sumDelivered", "commit"}
    BY HandlerNow, AfterDocsIs DEF TxState
  <2>2. tx' = [tx EXCEPT ![q] = t]
    BY <1>2, HandlerNow DEF TxState
  <2>3. /\ t \in TxState /\ t.pc = AfterDocs(rest, tx[q].recheck) /\ t.settle = rest
        /\ t.amount = tx[q].amount
    BY <2>1, HandlerNow DEF TxState, Working
  <2> HIDE DEF t
  <2> QED
    BY <2>1, <2>2, <2>3
<1>4. \/ UNCHANGED docs /\ (d \in Docs => Seen(q, docs[d]).status # "approved")
      \/ /\ d \in Docs /\ docs[d].lock = Nobody
         /\ docs[d].cur = docs[d].com /\ docs[d].com.status = "approved"
         /\ row \in DocRow /\ row.status = "paid" /\ row.amount = docs[d].com.amount
         /\ docs' = [docs EXCEPT ![d] = Put(q, docs[d], row)]
  <2>1. docs \in [Docs -> Versioned(DocRow, Requests)] /\ q # Nobody
    BY Workload DEF SettlementInv, RowsTyped
  <2>2. CASE Seen(q, docs[d]).status # "approved" /\ UNCHANGED docs
    BY <2>2
  <2>3. CASE /\ Seen(q, docs[d]).status = "approved" /\ Lockable(q, docs[d])
             /\ docs' = [docs EXCEPT ![d] = Put(q, docs[d], row)]
    <3>1. CASE d \notin Docs
      <4>1. docs' = docs
        BY <2>1, <2>3, <3>1
      <4> QED
        BY <3>1, <4>1
    <3>2. CASE d \in Docs
      <4>1. DocOK(d) /\ docs[d].lock \in {Nobody, q}
        BY <2>3, <3>2 DEF SettlementInv, DocsInv, Lockable
      <4>2. docs[d].lock = Nobody
        BY <1>1, <2>3, <4>1 DEF DocOK, HeldDoc, Seen
      <4>3. docs[d].cur = docs[d].com /\ docs[d].com.status = "approved"
        BY <2>1, <2>3, <4>1, <4>2 DEF DocOK, Seen
      <4>4. docs[d] \in Versioned(DocRow, Requests)
        BY <2>1, <3>2
      <4>5. row \in DocRow /\ row.status = "paid" /\ row.amount = docs[d].com.amount
        BY <4>3, <4>4 DEF Versioned, DocRow, DocStatus
      <4> QED
        BY <2>3, <3>2, <4>2, <4>3, <4>5
    <3> QED
      BY <3>1, <3>2
  <2> QED
    BY <1>1, <2>2, <2>3
<1> QED
  BY <1>1, <1>3, <1>4

LEMMA PaidStep ==
  ASSUME SettlementInv, NEW q \in Requests, TransitionToPaid(q)
  PROVE  SettlementInv'
<1> DEFINE d == NextDoc(q)
           row == [docs[d].cur EXCEPT !.status = "paid"]
<1>1. /\ tx[q].pc = "settle" /\ Op[q] = "pay"
      /\ UNCHANGED <<sales, deliveries, payments, series>>
  BY PaidIs
<1>2. PICK t \in TxState : /\ t.pc \in {"settle", "sumDelivered", "commit"}
                           /\ tx' = [tx EXCEPT ![q] = t]
  BY PaidIs
<1>3. HandlerOK(q, t) /\ Follows(tx[q].pc, t.pc) /\ EntryOK(q, t.pc)
  BY <1>1, <1>2 DEF HandlerOK, Follows, EntryOK, Working, Closing
<1>4. CASE UNCHANGED docs
  BY <1>1, <1>2, <1>3, <1>4, ReadStep
<1>5. CASE /\ d \in Docs /\ docs[d].lock = Nobody
           /\ docs[d].com.status = "approved"
           /\ row \in DocRow /\ row.status = "paid"
           /\ docs' = [docs EXCEPT ![d] = Put(q, docs[d], row)]
  <2>1. HeldDoc(q, t.pc, d, Put(q, docs[d], row)) /\ Lockable(q, docs[d])
    BY <1>1, <1>2, <1>5 DEF HeldDoc, Put, Closing, Lockable
  <2> HIDE DEF d, row
  <2> QED
    BY <1>1, <1>2, <1>3, <1>5, <2>1, WriteDoc
<1>6. \/ UNCHANGED docs
      \/ /\ d \in Docs /\ docs[d].lock = Nobody
         /\ docs[d].com.status = "approved"
         /\ row \in DocRow /\ row.status = "paid"
         /\ docs' = [docs EXCEPT ![d] = Put(q, docs[d], row)]
  BY PaidIs
<1> QED
  BY <1>4, <1>5, <1>6

LEMMA NextInv == SettlementInv /\ [Next]_vars => SettlementInv'
<1> SUFFICES ASSUME SettlementInv, [Next]_vars PROVE SettlementInv'
  OBVIOUS
<1>1. CASE UNCHANGED vars
  BY <1>1 DEF vars, SettlementInv, RowsTyped, DeliveriesInv, DocsInv, SalesInv,
     PaymentsInv, SeriesInv, HandlersInv, EntriesInv, DocOK, SaleOK, PaymentOK,
     SeriesOK, EntryOK
<1>2. ASSUME NEW q \in Requests, Step(q) PROVE SettlementInv'
  <2>1. CASE Deliver(q)
    BY <2>1, DeliverStep
  <2>2. CASE NextNumber(q)
    BY <2>2, NumberStep
  <2>3. CASE InvoiceStep(q)
    BY <2>3, CreateStep, CheckLinesStep, InsertStep, UpdateStep, UpdateFieldsStep,
       ApproveStep, ApprovedStep DEF InvoiceStep
  <2>4. CASE CloseStep(q)
    BY <2>4, SumDeliveriesStep, SumInvoicesStep, CloseStepInv DEF CloseStep
  <2>5. CASE CancelStep(q)
    BY <2>5, CancelStepInv, CancelledStep DEF CancelStep
  <2>6. CASE PaymentStep(q)
    BY <2>6, PayStep, CheckOutstandingStep, RecordStep, PaidStep DEF PaymentStep
  <2>7. CASE Commit(q)
    BY <2>7, CommitStep
  <2> QED
    BY <1>2, <2>1, <2>2, <2>3, <2>4, <2>5, <2>6, <2>7 DEF Step
<1>3. ASSUME NEW q \in Requests, Crash(q) PROVE SettlementInv'
  <2>1. Rollback(q) /\ tx[q].pc # "ended"
    BY <1>3 DEF Crash, Open, Working
  <2> QED
    BY <2>1, RollbackStep
<1> QED
  BY <1>1, <1>2, <1>3 DEF Next, Done

LEMMA SettlementInvariant == Spec => []SettlementInv
<1>1. Init => SettlementInv
  BY InitialInv
<1>2. SettlementInv /\ [Next]_vars => SettlementInv'
  BY NextInv
<1> QED
  BY <1>1, <1>2, PTL DEF Spec

\* TypeOK: the rows and the handlers' variables keep their types, and no row
\* and no number series stays locked by a request that has ended or failed.
THEOREM SettlementTypes == Spec => []TypeOK
BY SettlementInvariant, TypesFollow, PTL

-----------------------------------------------------------------------------
(* The steps again, by what they do to the handler: where it was, where it *)
(* is then, and which variables it kept.                                   *)

To(q, pc) == tx'[q] = [tx[q] EXCEPT !.pc = pc]

Begins(q) ==
  /\ tx[q].pc = "new" /\ \A r \in Open : {q, r} \notin Conflicts
  /\ UNCHANGED tables /\ ~Rollback(q)
  /\ \/ /\ CreateInvoice(q) /\ Op[q] = "createInvoice"
        /\ tx'[q].pc \in {"number", "checkLines"}
     \/ Update(q) /\ Op[q] = "update" /\ To(q, "write")
     \/ ApproveInvoice(q) /\ Op[q] = "approveInvoice" /\ To(q, "casApproved")
     \/ CancelSale(q) /\ Op[q] = "cancelSale" /\ To(q, "casCancelled")
     \/ Pay(q) /\ Op[q] = "pay" /\ tx'[q].pc = "checkOutstanding"

Checks(q) ==
  \/ /\ UNCHANGED tables /\ ~Rollback(q) /\ To(q, "number")
     /\ \/ CheckLines(q) /\ tx[q].pc = "checkLines"
        \/ CheckOutstanding(q) /\ tx[q].pc = "checkOutstanding"
  \/ /\ NextNumber(q) /\ tx[q].pc = "number"
     /\ UNCHANGED <<sales, deliveries, docs, payments>>
     /\ To(q, IF Op[q] = "pay" THEN "record" ELSE "insert")

Writes(q) ==
  \/ InsertInvoice(q) /\ tx[q].pc = "insert" /\ To(q, "commit")
  \/ UpdateFields(q) /\ tx[q].pc = "write" /\ To(q, "commit")
  \/ /\ TransitionToApproved(q) /\ tx[q].pc = "casApproved" /\ ~Rollback(q)
     /\ tx'[q].pc = "sumDelivered"
  \/ /\ TransitionToCancelled(q) /\ tx[q].pc = "casCancelled" /\ ~Rollback(q)
     /\ To(q, "commit")
  \/ /\ RecordPayment(q) /\ tx[q].pc = "record"
     /\ tx'[q].pc \in {"settle", "sumDelivered", "commit"}
  \/ /\ TransitionToPaid(q) /\ tx[q].pc = "settle"
     /\ tx'[q].pc \in {"settle", "sumDelivered", "commit"}

Rechecks(q) ==
  \/ /\ SumDeliveries(q) /\ tx[q].pc = "sumDelivered" /\ UNCHANGED tables
     /\ tx'[q].pc = "sumInvoiced"
  \/ /\ SumInvoices(q) /\ tx[q].pc = "sumInvoiced" /\ UNCHANGED tables
     /\ To(q, "close") \/ tx'[q].pc \in {"sumDelivered", "commit"}
  \/ /\ MaybeAutoClose(q) /\ tx[q].pc = "close"
     /\ tx'[q].pc \in {"sumDelivered", "commit"}

Ends(q) ==
  \/ Rollback(q) /\ tx[q].pc # "ended" /\ tx'[q] = TxAt("new")
  \/ Commit(q) /\ tx[q].pc = "commit" /\ tx'[q] = TxAt("ended")
  \/ Deliver(q) /\ tx[q].pc = "new" /\ tx'[q] = TxAt("ended")

Moves(q) ==
  /\ \A p \in Requests \ {q} : tx'[p] = tx[p]
  /\ Begins(q) \/ Checks(q) \/ Writes(q) \/ Rechecks(q) \/ Ends(q)

LEMMA Finishes ==
  ASSUME SettlementInv, NEW q \in Requests, NEW pc \in {"new", "ended"}, Finish(q, pc)
  PROVE  tx'[q] = TxAt(pc) /\ \A p \in Requests \ {q} : tx'[p] = tx[p]
BY DEF SettlementInv, RowsTyped, Finish

LEMMA Goes ==
  ASSUME SettlementInv, NEW q \in Requests, NEW pc, Goto(q, pc)
  PROVE  To(q, pc) /\ \A p \in Requests \ {q} : tx'[p] = tx[p]
BY DEF SettlementInv, RowsTyped, Goto, To, TxState

LEMMA Takes ==
  ASSUME SettlementInv, NEW q \in Requests, NEW t, tx' = [tx EXCEPT ![q] = t]
  PROVE  tx'[q] = t /\ \A p \in Requests \ {q} : tx'[p] = tx[p]
BY DEF SettlementInv, RowsTyped

LEMMA RollbackEnds ==
  ASSUME SettlementInv, NEW q \in Requests, Rollback(q), tx[q].pc # "ended"
  PROVE  Moves(q)
BY Finishes DEF Rollback, Moves, Ends

LEMMA EndMoves ==
  ASSUME SettlementInv, NEW q \in Requests, Commit(q) \/ Deliver(q)
  PROVE  Moves(q)
<1>1. CASE Commit(q)
  BY <1>1, Finishes DEF Commit, Moves, Ends, At
<1>2. CASE Deliver(q)
  BY <1>2, Finishes DEF Deliver, CanBegin, Moves, Ends
<1> QED
  BY <1>1, <1>2

LEMMA BeginMoves ==
  ASSUME SettlementInv, NEW q \in Requests,
         CreateInvoice(q) \/ Update(q) \/ ApproveInvoice(q) \/ CancelSale(q) \/ Pay(q)
  PROVE  Moves(q)
<1>1. tx[q].pc = "new" /\ \A r \in Open : {q, r} \notin Conflicts
  BY DEF CreateInvoice, Update, ApproveInvoice, CancelSale, Pay, CanBegin
<1>2. CASE Rollback(q)
  BY <1>1, <1>2, RollbackEnds
<1>3. CASE ~Rollback(q)
  <2>1. CASE CreateInvoice(q)
    <3>1. PICK t : /\ tx' = [tx EXCEPT ![q] = t] /\ t.pc \in {"number", "checkLines"}
      <4> DEFINE u == [tx[q] EXCEPT
                     !.pc = IF InvoiceLines[Target[q]] = <<>> THEN "number" ELSE "checkLines",
                     !.delivered = SumDelivered(SeenAll(q, deliveries))]
      <4>1. tx' = [tx EXCEPT ![q] = u]
        BY <1>3, <2>1, HandlerNow DEF CreateInvoice, TxState
      <4>2. u.pc \in {"number", "checkLines"}
        BY HandlerNow DEF TxState
      <4> HIDE DEF u
      <4> QED
        BY <4>1, <4>2
    <3>2. UNCHANGED tables /\ Op[q] = "createInvoice"
      BY <1>3, <2>1 DEF CreateInvoice, CanBegin
    <3> QED
      BY <1>1, <1>3, <2>1, <3>1, <3>2, Takes DEF Moves, Begins
  <2>2. CASE Update(q)
    <3>1. Goto(q, "write") /\ UNCHANGED tables /\ Op[q] = "update"
      BY <1>3, <2>2 DEF Update, CanBegin
    <3> QED
      BY <1>1, <1>3, <2>2, <3>1, Goes DEF Moves, Begins
  <2>3. CASE ApproveInvoice(q)
    <3>1. Goto(q, "casApproved") /\ UNCHANGED tables /\ Op[q] = "approveInvoice"
      BY <1>3, <2>3 DEF ApproveInvoice, CanBegin
    <3> QED
      BY <1>1, <1>3, <2>3, <3>1, Goes DEF Moves, Begins
  <2>4. CASE CancelSale(q)
    <3>1. Goto(q, "casCancelled") /\ UNCHANGED tables /\ Op[q] = "cancelSale"
      BY <1>3, <2>4 DEF CancelSale, CanBegin
    <3> QED
      BY <1>1, <1>3, <2>4, <3>1, Goes DEF Moves, Begins
  <2>5. CASE Pay(q)
    <3>1. UNCHANGED tables /\ Op[q] = "pay"
      BY <1>3, <2>5, PayIs
    <3>2. PICK t \in TxState : t.pc = "checkOutstanding" /\ tx' = [tx EXCEPT ![q] = t]
      BY <1>3, <2>5, PayIs
    <3> QED
      BY <1>1, <1>3, <2>5, <3>1, <3>2, Takes DEF Moves, Begins
  <2> QED
    BY <2>1, <2>2, <2>3, <2>4, <2>5
<1> QED
  BY <1>2, <1>3

LEMMA CheckMoves ==
  ASSUME SettlementInv, NEW q \in Requests,
         CheckLines(q) \/ CheckOutstanding(q) \/ NextNumber(q)
  PROVE  Moves(q)
<1>1. CASE CheckLines(q)
  <2>1. tx[q].pc = "checkLines"
    BY <1>1 DEF CheckLines, At
  <2>2. CASE ~Rollback(q)
    <3>1. Goto(q, "number") /\ UNCHANGED tables
      BY <1>1, <2>2 DEF CheckLines
    <3> QED
      BY <1>1, <2>1, <2>2, <3>1, Goes DEF Moves, Checks
  <2> QED
    BY <2>1, <2>2, RollbackEnds
<1>2. CASE CheckOutstanding(q)
  <2>1. tx[q].pc = "checkOutstanding"
    BY <1>2 DEF CheckOutstanding, At
  <2>2. CASE ~Rollback(q)
    <3>1. Goto(q, "number") /\ UNCHANGED tables
      BY <1>2, <2>2 DEF CheckOutstanding
    <3> QED
      BY <1>2, <2>1, <2>2, <3>1, Goes DEF Moves, Checks
  <2> QED
    BY <2>1, <2>2, RollbackEnds
<1>3. CASE NextNumber(q)
  <2>1. /\ tx[q].pc = "number" /\ UNCHANGED <<sales, deliveries, docs, payments>>
        /\ Goto(q, IF Op[q] = "pay" THEN "record" ELSE "insert")
    BY <1>3 DEF NextNumber, At
  <2> QED
    BY <1>3, <2>1, Goes DEF Moves, Checks
<1> QED
  BY <1>1, <1>2, <1>3

LEMMA WriteMoves ==
  ASSUME SettlementInv, NEW q \in Requests,
         \/ InsertInvoice(q) \/ UpdateFields(q) \/ TransitionToApproved(q)
         \/ TransitionToCancelled(q) \/ RecordPayment(q) \/ TransitionToPaid(q)
  PROVE  Moves(q)
<1>1. CASE InsertInvoice(q)
  <2>1. tx[q].pc = "insert" /\ Goto(q, "commit")
    BY <1>1 DEF InsertInvoice, At
  <2> QED
    BY <1>1, <2>1, Goes DEF Moves, Writes
<1>2. CASE UpdateFields(q)
  <2>1. tx[q].pc = "write" /\ Goto(q, "commit")
    BY <1>2 DEF UpdateFields, At
  <2> QED
    BY <1>2, <2>1, Goes DEF Moves, Writes
<1>3. CASE TransitionToApproved(q)
  <2>1. tx[q].pc = "casApproved"
    BY <1>3 DEF TransitionToApproved, At
  <2>2. CASE ~Rollback(q)
    <3>1. PICK t \in TxState : t.pc = "sumDelivered" /\ tx' = [tx EXCEPT ![q] = t]
      BY <1>3, <2>2, ApprovedRow
    <3> QED
      BY <1>3, <2>1, <2>2, <3>1, Takes DEF Moves, Writes
  <2> QED
    BY <2>1, <2>2, RollbackEnds
<1>4. CASE TransitionToCancelled(q)
  <2>1. tx[q].pc = "casCancelled"
    BY <1>4 DEF TransitionToCancelled, At
  <2>2. CASE ~Rollback(q)
    <3>1. Goto(q, "commit")
      BY <1>4, <2>2, CancelledIs
    <3> QED
      BY <1>4, <2>1, <2>2, <3>1, Goes DEF Moves, Writes
  <2> QED
    BY <2>1, <2>2, RollbackEnds
<1>5. CASE RecordPayment(q)
  <2>1. PICK t \in TxState : /\ t.pc \in {"settle", "sumDelivered", "commit"}
                             /\ tx' = [tx EXCEPT ![q] = t]
    BY <1>5, RecordIs
  <2>2. tx[q].pc = "record"
    BY <1>5 DEF RecordPayment, At
  <2> QED
    BY <1>5, <2>1, <2>2, Takes DEF Moves, Writes
<1>6. CASE TransitionToPaid(q)
  <2>1. PICK t \in TxState : /\ t.pc \in {"settle", "sumDelivered", "commit"}
                             /\ tx' = [tx EXCEPT ![q] = t]
    BY <1>6, PaidIs
  <2>2. tx[q].pc = "settle"
    BY <1>6 DEF TransitionToPaid, At
  <2> QED
    BY <1>6, <2>1, <2>2, Takes DEF Moves, Writes
<1> QED
  BY <1>1, <1>2, <1>3, <1>4, <1>5, <1>6

LEMMA RecheckMoves ==
  ASSUME SettlementInv, NEW q \in Requests,
         SumDeliveries(q) \/ SumInvoices(q) \/ MaybeAutoClose(q)
  PROVE  Moves(q)
<1>1. CASE SumDeliveries(q)
  <2>1. PICK t : /\ tx' = [tx EXCEPT ![q] = t] /\ t.pc = "sumInvoiced"
    <3> DEFINE u == [tx[q] EXCEPT !.pc = "sumInvoiced",
                                  !.delivered = SumDelivered(SeenAll(q, deliveries))]
    <3>1. tx' = [tx EXCEPT ![q] = u]
      BY <1>1, SumDeliveriesStep
    <3>2. u.pc = "sumInvoiced"
      BY HandlerNow DEF TxState
    <3> HIDE DEF u
    <3> QED
      BY <3>1, <3>2
  <2>2. tx[q].pc = "sumDelivered" /\ UNCHANGED tables
    BY <1>1 DEF SumDeliveries, At
  <2> QED
    BY <1>1, <2>1, <2>2, Takes DEF Moves, Rechecks
<1>2. CASE SumInvoices(q)
  <2>1. tx[q].pc = "sumInvoiced" /\ UNCHANGED tables
    BY <1>2 DEF SumInvoices, At
  <2>2. CASE Goto(q, "close")
    BY <1>2, <2>1, <2>2, Goes DEF Moves, Rechecks
  <2>3. CASE ~Goto(q, "close")
    <3>1. PICK rest : /\ rest = tx[q].recheck \ {NextSale(q)}
                      /\ tx' = [tx EXCEPT ![q].pc = AfterSales(rest), ![q].recheck = rest]
      BY <1>2, <2>3 DEF SumInvoices
    <3>2. PICK t \in TxState : /\ tx' = [tx EXCEPT ![q] = t]
                               /\ t.pc \in {"commit", "sumDelivered"}
      BY <2>1, <3>1, NextSaleStep
    <3> QED
      BY <1>2, <2>1, <3>2, Takes DEF Moves, Rechecks
  <2> QED
    BY <2>2, <2>3
<1>3. CASE MaybeAutoClose(q)
  <2>1. PICK t \in TxState : /\ tx' = [tx EXCEPT ![q] = t]
                             /\ t.pc \in {"commit", "sumDelivered"}
    BY <1>3, CloseIs
  <2>2. tx[q].pc = "close"
    BY <1>3 DEF MaybeAutoClose, At
  <2> QED
    BY <1>3, <2>1, <2>2, Takes DEF Moves, Rechecks
<1> QED
  BY <1>1, <1>2, <1>3

LEMMA StepMoves ==
  ASSUME SettlementInv, NEW q \in Requests, Step(q) \/ Crash(q)
  PROVE  Moves(q)
<1>1. CASE Crash(q)
  <2>1. Rollback(q) /\ tx[q].pc # "ended"
    BY <1>1 DEF Crash, Open, Working
  <2> QED
    BY <2>1, RollbackEnds
<1>2. CASE Step(q)
  BY <1>2, EndMoves, BeginMoves, CheckMoves, WriteMoves, RecheckMoves
     DEF Step, InvoiceStep, CloseStep, CancelStep, PaymentStep
<1> QED
  BY <1>1, <1>2

-----------------------------------------------------------------------------
(* Only a commit, or the commit of a delivery, shows to other requests.    *)

LEMMA OnlyCommitsShow ==
  ASSUME SettlementInv, NEW q \in Requests, Moves(q), ~Commit(q), ~Deliver(q)
  PROVE  /\ deliveries' = deliveries
         /\ \A d \in Docs : docs'[d].com = docs[d].com
         /\ \A s \in Sales : sales'[s].com = sales[s].com
         /\ \A p \in Payments : payments'[p].com = payments[p].com
<1>0. /\ docs \in [Docs -> Versioned(DocRow, Requests)]
      /\ sales \in [Sales -> Versioned(SaleStatus, Requests)]
      /\ payments \in [Payments -> Versioned(BOOLEAN, Requests)]
  BY DEF SettlementInv, RowsTyped
<1>1. CASE Rollback(q)
  BY <1>1, RollbackRows, EndedRow
<1>2. CASE Begins(q) \/ Checks(q)
  BY <1>2 DEF Begins, Checks, tables
<1>3. CASE Writes(q) /\ ~Rollback(q)
  <2>1. CASE InsertInvoice(q)
    BY <1>0, <2>1 DEF InsertInvoice, Put
  <2>2. CASE UpdateFields(q)
    BY <1>0, <2>2 DEF UpdateFields, Put
  <2>3. CASE TransitionToApproved(q)
    <3>1. PICK row : docs' = [docs EXCEPT ![Target[q]] = Put(q, docs[Target[q]], row)]
      BY <1>3, <2>3 DEF TransitionToApproved
    <3>2. UNCHANGED <<sales, deliveries, payments>>
      BY <1>3, <2>3 DEF TransitionToApproved
    <3> QED
      BY <1>0, <3>1, <3>2 DEF Put
  <2>4. CASE TransitionToCancelled(q)
    <3>1. /\ sales' = [sales EXCEPT ![Target[q]] = Put(q, sales[Target[q]], "cancelled")]
          /\ UNCHANGED <<docs, deliveries, payments>>
      BY <1>3, <2>4, CancelledIs
    <3> QED
      BY <1>0, <3>1 DEF Put
  <2>5. CASE RecordPayment(q)
    <3>1. /\ payments' = [payments EXCEPT ![q] = Put(q, payments[q], TRUE)]
          /\ UNCHANGED <<docs, deliveries, sales>>
      BY <2>5 DEF RecordPayment
    <3> QED
      BY <1>0, <3>1 DEF Put
  <2>6. CASE TransitionToPaid(q)
    <3>1. UNCHANGED <<sales, deliveries, payments>>
      BY <2>6 DEF TransitionToPaid
    <3>2. docs' = docs \/ \E row : docs' = [docs EXCEPT ![NextDoc(q)] = Put(q, docs[NextDoc(q)], row)]
      BY <2>6 DEF TransitionToPaid
    <3> QED
      BY <1>0, <3>1, <3>2 DEF Put
  <2> QED
    BY <1>3, <2>1, <2>2, <2>3, <2>4, <2>5, <2>6 DEF Writes
<1>4. CASE Rechecks(q)
  <2>1. CASE UNCHANGED tables
    BY <2>1 DEF tables
  <2>2. CASE MaybeAutoClose(q)
    <3>1. /\ UNCHANGED <<docs, deliveries, payments>>
          /\ \/ sales' = sales
             \/ sales' = [sales EXCEPT ![NextSale(q)] = Put(q, sales[NextSale(q)], "closed")]
      BY <2>2 DEF MaybeAutoClose
    <3> QED
      BY <1>0, <3>1 DEF Put
  <2> QED
    BY <1>4, <2>1, <2>2 DEF Rechecks
<1> QED
  BY <1>1, <1>2, <1>3, <1>4 DEF Moves, Ends

-----------------------------------------------------------------------------
(* What is delivered and invoiced of an item only grows.                   *)

LEMMA DeliveredSum ==
  ASSUME NEW status, NEW i \in Items
  PROVE  LET counted == {v \in Deliveries : status[v] = "confirmed"} IN
         SumDelivered(status)[i] = Total([v \in counted |-> DeliveryQty[v][i]], counted)
<1> DEFINE counted == {v \in Deliveries : status[v] = "confirmed"}
<1>1. IsFiniteSet(counted)
  BY Workload, FS_Subset
<1>2. SumDelivered(status)[i] = MapThenSumSet(LAMBDA v : DeliveryQty[v][i], counted)
  BY DEF SumDelivered
<1> HIDE DEF counted
<1>3. MapThenSumSet(LAMBDA v : DeliveryQty[v][i], counted)
        = Total([v \in counted |-> DeliveryQty[v][i]], counted)
  BY <1>1, TotalOfEntries
<1> QED
  BY <1>2, <1>3 DEF counted

\* More entries of the same numbers do not add up to less.
LEMMA MoreIsMore ==
  ASSUME NEW T, IsFiniteSet(T), NEW S \in SUBSET T, NEW W, NEW i,
         \A x \in T : W[x][i] \in Nat
  PROVE  /\ Total([x \in S |-> W[x][i]], S) \in Nat
         /\ Total([x \in T |-> W[x][i]], T) \in Nat
         /\ Total([x \in S |-> W[x][i]], S) <= Total([x \in T |-> W[x][i]], T)
<1> DEFINE f == [x \in S |-> W[x][i]]
           g == [x \in T |-> W[x][i]]
<1>1. IsFiniteSet(S)
  BY FS_Subset
<1>2. /\ \A x \in S : f[x] = g[x]
      /\ \A x \in T : g[x] \in Nat
      /\ \A x \in S : f[x] \in Nat
  OBVIOUS
<1> HIDE DEF f, g
<1>3. Total(f, S) = Total(g, S) /\ Total(g, S) <= Total(g, T)
  BY <1>1, <1>2, TotalAgrees, TotalMonotone
<1>4. Total(f, S) \in Nat /\ Total(g, T) \in Nat
  BY <1>1, <1>2, TotalType
<1> QED
  BY <1>3, <1>4 DEF f, g

LEMMA DeliveredGrows ==
  ASSUME NEW a, NEW b, \A v \in Deliveries : a[v] = "confirmed" => b[v] = "confirmed"
  PROVE  \A i \in Items : SumDelivered(a)[i] <= SumDelivered(b)[i]
<1> TAKE i \in Items
<1> DEFINE S == {v \in Deliveries : a[v] = "confirmed"}
           T == {v \in Deliveries : b[v] = "confirmed"}
<1>1. IsFiniteSet(T) /\ S \in SUBSET T /\ \A v \in T : DeliveryQty[v][i] \in Nat
  BY Workload, FS_Subset, DocumentSums
<1>2. /\ SumDelivered(a)[i] = Total([v \in S |-> DeliveryQty[v][i]], S)
      /\ SumDelivered(b)[i] = Total([v \in T |-> DeliveryQty[v][i]], T)
  BY DeliveredSum
<1> HIDE DEF S, T
<1> QED
  BY <1>1, <1>2, MoreIsMore

LEMMA DeliveredFits ==
  ASSUME DeliveriesFit, NEW a
  PROVE  \A i \in Items : SumDelivered(a)[i] <= Reserved[i]
<1> TAKE i \in Items
<1> DEFINE S == {v \in Deliveries : a[v] = "confirmed"}
<1>1. /\ IsFiniteSet(Deliveries) /\ S \in SUBSET Deliveries
      /\ \A v \in Deliveries : DeliveryQty[v][i] \in Nat
  BY Workload, DocumentSums
<1>2. SumDelivered(a)[i] = Total([v \in S |-> DeliveryQty[v][i]], S)
  BY DeliveredSum
<1>3. MapThenSumSet(LAMBDA v : DeliveryQty[v][i], Deliveries)
        = Total([v \in Deliveries |-> DeliveryQty[v][i]], Deliveries)
  BY <1>1, TotalOfEntries
<1>4. Total([v \in Deliveries |-> DeliveryQty[v][i]], Deliveries) <= Reserved[i]
  BY <1>3 DEF DeliveriesFit
<1> HIDE DEF S
<1>5. /\ Total([v \in S |-> DeliveryQty[v][i]], S) \in Nat
      /\ Total([v \in Deliveries |-> DeliveryQty[v][i]], Deliveries) \in Nat
      /\ Total([v \in S |-> DeliveryQty[v][i]], S)
           <= Total([v \in Deliveries |-> DeliveryQty[v][i]], Deliveries)
  BY <1>1, MoreIsMore
<1>6. Reserved[i] \in Nat
  BY Workload
<1> QED
  BY <1>2, <1>4, <1>5, <1>6

LEMMA InvoicedSum ==
  ASSUME NEW rows, NEW i \in Items
  PROVE  LET counted == {d \in Invoices : rows[d].status # "none"} IN
         SumInvoiced(rows)[i] = Total([d \in counted |-> InvoiceQty[d][i]], counted)
<1> DEFINE counted == {d \in Invoices : rows[d].status # "none"}
<1>1. IsFiniteSet(counted)
  BY Workload, FS_Subset
<1>2. SumInvoiced(rows)[i] = MapThenSumSet(LAMBDA d : InvoiceQty[d][i], counted)
  BY DEF SumInvoiced
<1> HIDE DEF counted
<1>3. MapThenSumSet(LAMBDA d : InvoiceQty[d][i], counted)
        = Total([d \in counted |-> InvoiceQty[d][i]], counted)
  BY <1>1, TotalOfEntries
<1> QED
  BY <1>2, <1>3 DEF counted

LEMMA InvoicedGrows ==
  ASSUME NEW a, NEW b, \A d \in Invoices : a[d].status # "none" => b[d].status # "none"
  PROVE  \A i \in Items : /\ SumInvoiced(a)[i] \in Nat /\ SumInvoiced(b)[i] \in Nat
                          /\ SumInvoiced(a)[i] <= SumInvoiced(b)[i]
<1> TAKE i \in Items
<1> DEFINE S == {d \in Invoices : a[d].status # "none"}
           T == {d \in Invoices : b[d].status # "none"}
<1>1. IsFiniteSet(T) /\ S \in SUBSET T /\ \A d \in T : InvoiceQty[d][i] \in Nat
  BY Workload, FS_Subset, DocumentSums
<1>2. /\ SumInvoiced(a)[i] = Total([d \in S |-> InvoiceQty[d][i]], S)
      /\ SumInvoiced(b)[i] = Total([d \in T |-> InvoiceQty[d][i]], T)
  BY InvoicedSum
<1> HIDE DEF S, T
<1>3. /\ Total([d \in S |-> InvoiceQty[d][i]], S) \in Nat
      /\ Total([d \in T |-> InvoiceQty[d][i]], T) \in Nat
      /\ Total([d \in S |-> InvoiceQty[d][i]], S) <= Total([d \in T |-> InvoiceQty[d][i]], T)
  BY <1>1, MoreIsMore
<1> QED
  BY <1>2, <1>3

(* The committed documents. *)
ComDocs == [d \in Docs |-> docs[d].com]
ComDeliveries == [v \in Deliveries |-> deliveries[v].com]

LEMMA InvoicedIs == \A i \in Items : InvoicedQty[i] = SumInvoiced(ComDocs)[i]
<1> TAKE i \in Items
<1>1. {d \in Invoices : ComDocs[d].status # "none"} = {d \in Invoices : Doc(d).status # "none"}
  BY DEF ComDocs, Docs, Doc
<1> QED
  BY <1>1 DEF InvoicedQty, SumInvoiced

LEMMA DeliveredIs == DeliveredQty = SumDelivered(ComDeliveries)
BY DEF DeliveredQty, ComDeliveries

LEMMA CommittedSums ==
  /\ DeliveredQty \in [Items -> Nat]
  /\ \A i \in Items : InvoicedQty[i] \in Nat
BY DeliveredType, DeliveredIs, InvoicedIs, InvoicedGrows

\* What every step of the system does to the documents that are counted.
LEMMA Kept ==
  ASSUME SettlementInv, NEW q \in Requests, Moves(q)
  PROVE  /\ \A d \in Docs : docs[d].com.status # "none" => docs'[d].com.status # "none"
         /\ \A v \in Deliveries : deliveries[v].com = "confirmed" => deliveries'[v].com = "confirmed"
<1>1. CASE ~Commit(q) /\ ~Deliver(q)
  BY <1>1, OnlyCommitsShow
<1>2. CASE Commit(q)
  <2>1. /\ \A d \in Docs : docs'[d] = Committed(q, docs[d])
        /\ deliveries' = deliveries
    BY <1>2, CommitRows
  <2>2. \A d \in Docs : docs[d].com.status # "none" => docs'[d].com.status # "none"
    <3> TAKE d \in Docs
    <3>1. DocOK(d) /\ q # Nobody
      BY Workload DEF SettlementInv, DocsInv
    <3>2. /\ docs[d].lock = q => docs'[d].com = docs[d].cur
          /\ docs[d].lock # q => docs'[d] = docs[d]
      BY <2>1, EndedRow
    <3> QED
      BY <3>1, <3>2 DEF DocOK, HeldDoc
  <2> QED
    BY <2>1, <2>2
<1>3. CASE Deliver(q)
  <2>1. /\ deliveries' = [deliveries EXCEPT ![Target[q]] = Fresh("confirmed")]
        /\ docs' = docs /\ deliveries \in [Deliveries -> Versioned(DelivStatus, Requests)]
    BY <1>3 DEF Deliver, SettlementInv, RowsTyped
  <2> QED
    BY <2>1 DEF Fresh
<1> QED
  BY <1>1, <1>2, <1>3

LEMMA QuantitiesGrow ==
  ASSUME SettlementInv, NEW q \in Requests, Moves(q)
  PROVE  \A i \in Items : /\ DeliveredQty[i] <= DeliveredQty'[i]
                          /\ InvoicedQty[i] <= InvoicedQty'[i]
                          /\ InvoicedQty'[i] \in Nat /\ DeliveredQty'[i] \in Nat
<1>1. \A i \in Items : SumDelivered(ComDeliveries)[i] <= SumDelivered(ComDeliveries')[i]
  <2>1. \A v \in Deliveries : ComDeliveries[v] = "confirmed" => ComDeliveries'[v] = "confirmed"
    BY Kept DEF ComDeliveries
  <2> QED
    BY <2>1, DeliveredGrows
<1>2. \A i \in Items : /\ SumInvoiced(ComDocs)[i] <= SumInvoiced(ComDocs')[i]
                       /\ SumInvoiced(ComDocs')[i] \in Nat
  <2>1. \A d \in Invoices : ComDocs[d].status # "none" => ComDocs'[d].status # "none"
    BY Kept DEF ComDocs, Docs
  <2> QED
    BY <2>1, InvoicedGrows
<1>3. DeliveredQty' = SumDelivered(ComDeliveries')
  BY DEF DeliveredQty, ComDeliveries
<1>4. \A i \in Items : InvoicedQty'[i] = SumInvoiced(ComDocs')[i]
  <2>1. (\A i \in Items : InvoicedQty[i] = SumInvoiced(ComDocs)[i])'
    BY InvoicedIs, PTL
  <2> QED
    BY <2>1
<1>5. SumDelivered(ComDeliveries') \in [Items -> Nat]
  BY DeliveredType
<1> QED
  BY <1>1, <1>2, <1>3, <1>4, <1>5, DeliveredIs, InvoicedIs

-----------------------------------------------------------------------------
(* A closed sale is done.  A sum read earlier can only be too small, and   *)
(* what is shipped can never exceed what the sale reserved; so what the    *)
(* handler of the close has found shipped and invoiced still is.           *)

SumsInv ==
  \A q \in Requests :
    tx[q].pc \in {"checkLines", "sumInvoiced"} =>
      \A i \in Items : tx[q].delivered[i] <= DeliveredQty[i]

ClosedInv ==
  /\ \A s \in Sales : "closed" \in {sales[s].com, sales[s].cur} => SaleIsDone(s)
  /\ \A q \in Requests : tx[q].pc = "close" => SaleIsDone(NextSale(q))

LEMMA DoneStays ==
  ASSUME SettlementInv, DeliveriesFit, NEW q \in Requests, Moves(q), NEW s, SaleIsDone(s)
  PROVE  SaleIsDone(s)'
<1>1. \A i \in Items : /\ DeliveredQty[i] <= DeliveredQty'[i]
                       /\ InvoicedQty[i] <= InvoicedQty'[i]
                       /\ InvoicedQty'[i] \in Nat /\ DeliveredQty'[i] \in Nat
  BY QuantitiesGrow
<1>2. \A i \in Items : DeliveredQty'[i] <= Reserved[i]
  <2>1. DeliveredQty' = SumDelivered(ComDeliveries')
    BY DEF DeliveredQty, ComDeliveries
  <2> QED
    BY <2>1, DeliveredFits
<1>3. \A i \in Items : DeliveredQty[i] \in Nat /\ InvoicedQty[i] \in Nat /\ Reserved[i] \in Nat
  BY CommittedSums, Workload
<1>4. \A i \in ItemsOf(s) : i \in Items /\ DeliveredQty[i] >= Reserved[i]
                                        /\ InvoicedQty[i] >= DeliveredQty[i]
  BY DEF SaleIsDone, ItemsOf
<1>5. \A i \in ItemsOf(s) : DeliveredQty'[i] >= Reserved[i] /\ InvoicedQty'[i] >= DeliveredQty'[i]
  BY <1>1, <1>2, <1>3, <1>4
<1> QED
  BY <1>5 DEF SaleIsDone

\* Every value a sale's row has, it had, or it is the one just written.
LEMMA SaleCarries ==
  ASSUME SettlementInv, NEW q \in Requests, Moves(q), NEW s \in Sales
  PROVE  \/ {sales'[s].com, sales'[s].cur} \subseteq {sales[s].com, sales[s].cur, "cancelled"}
         \/ /\ MaybeAutoClose(q) /\ tx[q].pc = "close" /\ s = NextSale(q)
            /\ sales'[s] = Put(q, sales[s], "closed")
<1>0. sales \in [Sales -> Versioned(SaleStatus, Requests)]
  BY DEF SettlementInv, RowsTyped
<1>1. CASE UNCHANGED sales
  BY <1>1
<1>2. CASE Rollback(q)
  <2>1. sales'[s] = RolledBack(q, sales[s])
    BY <1>2, RollbackRows
  <2> QED
    BY <2>1 DEF RolledBack, Fresh
<1>3. CASE Commit(q)
  <2>1. sales'[s] = Committed(q, sales[s])
    BY <1>3, CommitRows
  <2> QED
    BY <2>1 DEF Committed, Fresh
<1>4. CASE TransitionToCancelled(q) /\ ~Rollback(q)
  <2>1. sales' = [sales EXCEPT ![Target[q]] = Put(q, sales[Target[q]], "cancelled")]
    BY <1>4, CancelledIs
  <2> QED
    BY <1>0, <2>1 DEF Put
<1>5. CASE MaybeAutoClose(q)
  <2>1. /\ tx[q].pc = "close"
        /\ \/ UNCHANGED sales
           \/ sales' = [sales EXCEPT ![NextSale(q)] = Put(q, sales[NextSale(q)], "closed")]
    BY <1>5, CloseIs
  <2>2. CASE s = NextSale(q) /\ ~UNCHANGED sales
    BY <1>0, <1>5, <2>1, <2>2
  <2>3. CASE s # NextSale(q) /\ ~UNCHANGED sales
    BY <1>0, <2>1, <2>3
  <2> QED
    BY <1>1, <2>2, <2>3
<1>6. \/ UNCHANGED sales \/ Rollback(q) \/ Commit(q) \/ MaybeAutoClose(q)
      \/ TransitionToCancelled(q) /\ ~Rollback(q)
  <2>1. CASE Begins(q) \/ Checks(q)
    BY <2>1 DEF Begins, Checks, tables
  <2>2. CASE Writes(q)
    BY <2>2 DEF Writes, InsertInvoice, UpdateFields, TransitionToApproved, RecordPayment,
                TransitionToPaid
  <2>3. CASE Rechecks(q)
    BY <2>3 DEF Rechecks, tables
  <2>4. CASE Ends(q)
    BY <2>4 DEF Ends, Deliver
  <2> QED
    BY <2>1, <2>2, <2>3, <2>4 DEF Moves
<1> QED
  BY <1>1, <1>2, <1>3, <1>4, <1>5, <1>6

\* The statements that leave a sum of deliveries, or a finding, to the next.
LEMMA Sums ==
  ASSUME SettlementInv, NEW q \in Requests, Moves(q)
  PROVE  /\ tx'[q].pc = "checkLines" =>
              /\ CreateInvoice(q) /\ ~Rollback(q) /\ UNCHANGED tables
              /\ tx'[q].delivered = SumDelivered(SeenAll(q, deliveries))
         /\ tx'[q].pc = "sumInvoiced" =>
              /\ UNCHANGED tables
              /\ tx'[q].delivered = SumDelivered(SeenAll(q, deliveries))
         /\ tx'[q].pc = "close" =>
              /\ SumInvoices(q) /\ tx[q].pc = "sumInvoiced" /\ To(q, "close")
<1>0. tx \in [Requests -> TxState] /\ tx[q] \in TxState
  BY HandlerNow
<1>1. ASSUME tx'[q].pc = "checkLines"
      PROVE  /\ CreateInvoice(q) /\ ~Rollback(q) /\ UNCHANGED tables
             /\ tx'[q].delivered = SumDelivered(SeenAll(q, deliveries))
  <2>1. CreateInvoice(q) /\ ~Rollback(q) /\ UNCHANGED tables
    BY <1>0, <1>1 DEF Moves, Begins, Checks, Writes, Rechecks, Ends, To, TxAt, TxState
  <2>2. tx' = [tx EXCEPT ![q].pc = IF InvoiceLines[Target[q]] = <<>> THEN "number" ELSE "checkLines",
                         ![q].delivered = SumDelivered(SeenAll(q, deliveries))]
    BY <2>1 DEF CreateInvoice
  <2> QED
    BY <1>0, <2>1, <2>2 DEF TxState
<1>2. ASSUME tx'[q].pc = "sumInvoiced"
      PROVE  UNCHANGED tables /\ tx'[q].delivered = SumDelivered(SeenAll(q, deliveries))
  <2>1. SumDeliveries(q)
    BY <1>0, <1>2 DEF Moves, Begins, Checks, Writes, Rechecks, Ends, To, TxAt, TxState
  <2>2. /\ UNCHANGED tables
        /\ tx' = [tx EXCEPT ![q].pc = "sumInvoiced",
                            ![q].delivered = SumDelivered(SeenAll(q, deliveries))]
    BY <2>1 DEF SumDeliveries
  <2> QED
    BY <1>0, <2>2 DEF TxState
<1>3. ASSUME tx'[q].pc = "close"
      PROVE  SumInvoices(q) /\ tx[q].pc = "sumInvoiced" /\ To(q, "close")
  BY <1>0, <1>3 DEF Moves, Begins, Checks, Writes, Rechecks, Ends, To, TxAt, TxState
<1> QED
  BY <1>1, <1>2, <1>3

\* Nobody has a delivery locked, so everybody sees the same ones.
LEMMA DeliveriesSeen ==
  ASSUME SettlementInv, NEW q \in Requests
  PROVE  SumDelivered(SeenAll(q, deliveries)) = DeliveredQty
<1>1. deliveries \in [Deliveries -> Versioned(DelivStatus, Requests)]
  BY DEF SettlementInv, RowsTyped
<1>2. \A v \in Deliveries : Seen(q, deliveries[v]) = deliveries[v].com
  BY DEF SettlementInv, DeliveriesInv, Seen
<1>3. SeenAll(q, deliveries) = ComDeliveries
  BY <1>1, <1>2 DEF SeenAll, ComDeliveries
<1> QED
  BY <1>3, DeliveredIs

\* What a handler that rechecks a sale finds invoiced has been committed.
LEMMA InvoicesSeen ==
  ASSUME SettlementInv, NEW q \in Requests,
         tx[q].pc \in {"checkLines", "sumInvoiced"}
  PROVE  /\ \A i \in Items : SumInvoiced(SeenAll(q, docs))[i] = InvoicedQty[i]
<1>1. docs \in [Docs -> Versioned(DocRow, Requests)] /\ q # Nobody
  BY Workload DEF SettlementInv, RowsTyped
<1>2. \A d \in Invoices : SeenAll(q, docs)[d].status # "none" <=> ComDocs[d].status # "none"
  <2> TAKE d \in Invoices
  <2>1. DocOK(d) /\ d \in Docs
    BY DEF SettlementInv, DocsInv, Docs
  <2>2. CASE docs[d].lock = q
    BY <1>1, <2>1, <2>2 DEF DocOK, HeldDoc, SeenAll, ComDocs, Seen
  <2>3. CASE docs[d].lock # q
    BY <1>1, <2>1, <2>3 DEF SeenAll, ComDocs, Seen
  <2> QED
    BY <2>2, <2>3
<1>3. {d \in Invoices : SeenAll(q, docs)[d].status # "none"}
        = {d \in Invoices : ComDocs[d].status # "none"}
  BY <1>2
<1>4. SumInvoiced(SeenAll(q, docs)) = SumInvoiced(ComDocs)
  BY <1>3 DEF SumInvoiced
<1> QED
  BY <1>4, InvoicedIs

\* What SumInvoices finds finished is done.
LEMMA FoundDone ==
  ASSUME SettlementInv, SumsInv, DeliveriesFit, NEW q \in Requests,
         SumInvoices(q), To(q, "close")
  PROVE  SaleIsDone(NextSale(q))
<1> DEFINE s == NextSale(q)
           invoiced == SumInvoiced(SeenAll(q, docs))
<1>1. tx[q].pc = "sumInvoiced" /\ tx[q] \in TxState
  BY HandlerNow DEF SumInvoices, At
<1>2. Finished(s, tx[q].delivered, invoiced)
  <2>1. CASE ~Finished(s, tx[q].delivered, invoiced)
    <3>1. tx' = [tx EXCEPT ![q].pc = AfterSales(tx[q].recheck \ {s}),
                           ![q].recheck = tx[q].recheck \ {s}]
      BY <2>1 DEF SumInvoices
    <3>2. tx'[q].pc = AfterSales(tx[q].recheck \ {s})
      BY <3>1, HandlerNow DEF TxState
    <3> QED
      BY <1>1, <3>2 DEF To, TxState, AfterSales
  <2> QED
    BY <2>1
<1>3. \A i \in Items : /\ invoiced[i] = InvoicedQty[i] /\ InvoicedQty[i] \in Nat
                       /\ tx[q].delivered[i] <= DeliveredQty[i] /\ tx[q].delivered[i] \in Nat
                       /\ DeliveredQty[i] \in Nat /\ Reserved[i] \in Nat \ {0}
                       /\ DeliveredQty[i] <= Reserved[i]
  <2>1. \A i \in Items : invoiced[i] = InvoicedQty[i] /\ InvoicedQty[i] \in Nat
    BY <1>1, InvoicesSeen, CommittedSums
  <2>2. \A i \in Items : tx[q].delivered[i] <= DeliveredQty[i] /\ tx[q].delivered[i] \in Nat
    BY <1>1 DEF SumsInv, TxState
  <2>3. \A i \in Items : /\ DeliveredQty[i] \in Nat /\ Reserved[i] \in Nat \ {0}
                         /\ DeliveredQty[i] <= Reserved[i]
    BY CommittedSums, Workload, DeliveredIs, DeliveredFits
  <2> QED
    BY <2>1, <2>2, <2>3
<1> HIDE DEF invoiced, s
<1>4. \A i \in ItemsOf(s) : i \in Items /\ tx[q].delivered[i] >= Reserved[i]
  BY <1>2 DEF Finished, FullyDelivered, ItemsOf
<1>5. \A i \in ItemsOf(s) : tx[q].delivered[i] > 0 => invoiced[i] >= tx[q].delivered[i]
  BY <1>2 DEF Finished, FullyInvoiced
<1>6. \A i \in ItemsOf(s) : DeliveredQty[i] >= Reserved[i] /\ InvoicedQty[i] >= DeliveredQty[i]
  BY <1>3, <1>4, <1>5
<1> QED
  BY <1>6 DEF SaleIsDone, s

LEMMA SumsStep ==
  ASSUME SettlementInv, SumsInv, NEW q \in Requests, Moves(q)
  PROVE  SumsInv'
<1> SUFFICES ASSUME NEW p \in Requests, tx'[p].pc \in {"checkLines", "sumInvoiced"},
                    NEW i \in Items
             PROVE  tx'[p].delivered[i] <= DeliveredQty'[i]
  BY DEF SumsInv
<1>1. CASE p # q
  <2>1. tx'[p] = tx[p] /\ tx[p] \in TxState
    BY <1>1, HandlerNow DEF Moves
  <2>2. tx[p].delivered[i] <= DeliveredQty[i]
    BY <2>1 DEF SumsInv
  <2>3. DeliveredQty[i] <= DeliveredQty'[i] /\ DeliveredQty'[i] \in Nat
    BY QuantitiesGrow
  <2>4. DeliveredQty[i] \in Nat /\ tx[p].delivered[i] \in Nat
    BY <2>1, CommittedSums DEF TxState
  <2> QED
    BY <2>1, <2>2, <2>3, <2>4
<1>2. CASE p = q
  <2>1. UNCHANGED tables /\ tx'[q].delivered = DeliveredQty
    BY <1>2, Sums, DeliveriesSeen
  <2>2. DeliveredQty' = DeliveredQty
    BY <2>1 DEF tables, DeliveredQty
  <2>3. DeliveredQty'[i] \in Nat
    BY QuantitiesGrow
  <2> QED
    BY <1>2, <2>1, <2>2, <2>3
<1> QED
  BY <1>1, <1>2

LEMMA ClosedStep ==
  ASSUME SettlementInv, SumsInv, ClosedInv, DeliveriesFit, NEW q \in Requests, Moves(q)
  PROVE  ClosedInv'
<1>1. \A s : SaleIsDone(s) => SaleIsDone(s)'
  BY DoneStays
<1>2. ASSUME NEW s \in Sales, "closed" \in {sales'[s].com, sales'[s].cur}
      PROVE  SaleIsDone(s)'
  <2>1. CASE {sales'[s].com, sales'[s].cur} \subseteq {sales[s].com, sales[s].cur, "cancelled"}
    <3>1. "closed" \in {sales[s].com, sales[s].cur}
      BY <1>2, <2>1
    <3>2. SaleIsDone(s)
      BY <3>1 DEF ClosedInv
    <3> QED
      BY <1>1, <3>2
  <2>2. CASE tx[q].pc = "close" /\ s = NextSale(q)
    <3>1. SaleIsDone(s)
      BY <2>2 DEF ClosedInv
    <3> QED
      BY <1>1, <3>1
  <2> QED
    BY <1>2, <2>1, <2>2, SaleCarries
<1>3. ASSUME NEW p \in Requests, tx'[p].pc = "close"
      PROVE  SaleIsDone(NextSale(p))'
  <2>1. PICK s : s = NextSale(p)
    OBVIOUS
  <2>2. SaleIsDone(s) /\ NextSale(p)' = NextSale(p)
    <3>1. CASE p # q
      BY <1>3, <2>1, <3>1 DEF Moves, ClosedInv, NextSale, SalesOf, DocsOf
    <3>2. CASE p = q
      <4>1. SumInvoices(q) /\ To(q, "close")
        BY <1>3, <3>2, Sums
      <4>2. SaleIsDone(s)
        BY <2>1, <3>2, <4>1, FoundDone
      <4>3. NextSale(q)' = NextSale(q)
        BY <4>1, HandlerNow DEF To, TxState, NextSale, SalesOf, DocsOf
      <4> QED
        BY <3>2, <4>2, <4>3
    <3> QED
      BY <3>1, <3>2
  <2>3. SaleIsDone(s)'
    BY <1>1, <2>2
  <2> QED
    BY <2>1, <2>2, <2>3 DEF SaleIsDone
<1> QED
  BY <1>2, <1>3 DEF ClosedInv

LEMMA ClosedInitial == Init => SumsInv /\ ClosedInv
BY DEF Init, SumsInv, ClosedInv, Fresh, TxAt

\* Nothing changes when nothing happens.
LEMMA SameQuantities ==
  ASSUME deliveries' = deliveries, docs' = docs
  PROVE  /\ DeliveredQty' = DeliveredQty
         /\ \A i \in Items : InvoicedQty'[i] = InvoicedQty[i]
<1>1. DeliveredQty' = DeliveredQty
  BY DEF DeliveredQty
<1>2. ComDocs' = ComDocs
  BY DEF ComDocs
<1>3. (\A i \in Items : InvoicedQty[i] = SumInvoiced(ComDocs)[i])'
  BY InvoicedIs, PTL
<1> QED
  BY <1>1, <1>2, <1>3, InvoicedIs

LEMMA SumsStutter == SumsInv /\ UNCHANGED vars => SumsInv'
<1> SUFFICES ASSUME SumsInv, UNCHANGED vars PROVE SumsInv'
  OBVIOUS
<1>1. DeliveredQty' = DeliveredQty
  BY SameQuantities DEF vars
<1> QED
  BY <1>1 DEF vars, SumsInv

LEMMA ClosedStutter == ClosedInv /\ UNCHANGED vars => ClosedInv'
<1> SUFFICES ASSUME ClosedInv, UNCHANGED vars PROVE ClosedInv'
  OBVIOUS
<1>1. /\ DeliveredQty' = DeliveredQty
      /\ \A i \in Items : InvoicedQty'[i] = InvoicedQty[i]
  BY SameQuantities DEF vars
<1>2. \A s : SaleIsDone(s)' <=> SaleIsDone(s)
  BY <1>1 DEF SaleIsDone, ItemsOf
<1>3. \A q \in Requests : SaleIsDone(NextSale(q))' <=> SaleIsDone(NextSale(q))
  <2> TAKE q \in Requests
  <2>1. NextSale(q)' = NextSale(q)
    BY DEF vars, NextSale, SalesOf, DocsOf
  <2> QED
    BY <1>1, <2>1 DEF SaleIsDone, ItemsOf
<1> QED
  BY <1>2, <1>3 DEF vars, ClosedInv

LEMMA NextMoves ==
  ASSUME SettlementInv, [Next]_vars
  PROVE  UNCHANGED vars \/ \E q \in Requests : Moves(q)
BY StepMoves DEF Next, Done

LEMMA ClosedInvariant ==
  ASSUME DeliveriesFit
  PROVE  Spec => [](SumsInv /\ ClosedInv)
<1>1. Init => SumsInv /\ ClosedInv
  BY ClosedInitial
<1>2. SettlementInv /\ (SumsInv /\ ClosedInv) /\ [Next]_vars => (SumsInv /\ ClosedInv)'
  BY NextMoves, SumsStep, ClosedStep, SumsStutter, ClosedStutter
<1> QED
  BY <1>1, <1>2, SettlementInvariant, PTL DEF Spec

\* ClosedSaleIsDone: whatever the interleaving, a sale that was closed is
\* shipped and invoiced in full, for deliveries that were drafted within what
\* the sale reserved.
THEOREM ClosedSalesAreDone ==
  ASSUME DeliveriesFit
  PROVE  Spec => []ClosedSaleIsDone
<1>1. ClosedInv => ClosedSaleIsDone
  BY DEF ClosedInv, ClosedSaleIsDone, Sale
<1> QED
  BY <1>1, ClosedInvariant, PTL

-----------------------------------------------------------------------------
(* Requests that exclude each other are never open together.               *)

Apart == \A q, r \in Open : q # r => {q, r} \notin Conflicts

LEMMA ApartStep ==
  ASSUME SettlementInv, Apart, NEW q \in Requests, Moves(q)
  PROVE  Apart'
<1>1. Open' \subseteq Open \cup {q}
  BY DEF Open, Moves
<1>2. q \in Open' => \/ q \in Open
                     \/ \A r \in Open : {q, r} \notin Conflicts
  BY DEF Open, Moves, Begins, Checks, Writes, Rechecks, Ends, TxAt, Working
<1> SUFFICES ASSUME NEW p \in Open', NEW r \in Open', p # r
             PROVE  {p, r} \notin Conflicts
  BY DEF Apart
<1>3. CASE p \in Open /\ r \in Open
  BY <1>3 DEF Apart
<1>4. CASE p \notin Open
  <2>1. p = q /\ r \in Open
    BY <1>1, <1>4
  <2> QED
    BY <1>2, <1>4, <2>1
<1>5. CASE r \notin Open
  <2>1. r = q /\ p \in Open
    BY <1>1, <1>5
  <2>2. {p, r} = {r, p}
    OBVIOUS
  <2> QED
    BY <1>2, <1>5, <2>1, <2>2
<1> QED
  BY <1>3, <1>4, <1>5

LEMMA ApartInitial == Init => Apart
BY DEF Init, Apart, Open, TxAt, Working

-----------------------------------------------------------------------------
(* No item is invoiced beyond what was delivered of it, when creates of    *)
(* invoices for the same sale do not overlap and no invoice has two lines  *)
(* of the same item: each line is tested against the same remainder.       *)

\* What the invoice of q charges for is still there to be charged for.
Fits(q) ==
  \A i \in Items :
    \/ InvoiceQty[Target[q]][i] = 0
    \/ InvoicedQty[i] + InvoiceQty[Target[q]][i] <= DeliveredQty[i]

OverInv ==
  /\ NeverOverInvoiced
  /\ \A q \in Requests :
       Op[q] = "createInvoice" /\ tx[q].pc \in {"number", "insert", "commit"} => Fits(q)

\* An invoice charges for an item what its one line for it says.
LEMMA InvoicedLine ==
  ASSUME OneLineEach, NEW d \in Invoices, NEW i \in Items
  PROVE  \/ InvoiceQty[d][i] = 0
         \/ /\ SaleOf[i] = InvoiceSale[d]
            /\ \E k \in DOMAIN InvoiceLines[d] :
                 /\ InvoiceLines[d][k].item = i
                 /\ InvoiceQty[d][i] = InvoiceLines[d][k].qty
<1> DEFINE lines == InvoiceLines[d]
           S == {k \in DOMAIN lines : lines[k].item = i}
           w == [k \in S |-> lines[k].qty]
<1>1. lines \in Seq(Line) /\ \A k \in DOMAIN lines : lines[k].qty \in Nat
  <2>1. lines \in Seq(Line)
    BY Workload
  <2>2. \A k \in DOMAIN lines : lines[k] \in Line
    BY <2>1
  <2> QED
    BY <2>1, <2>2 DEF Line
<1>2. InvoiceQty[d][i] = MapThenSumSet(LAMBDA k : lines[k].qty, S)
  BY DEF InvoiceQty, QtyOf
<1>3. CASE S = {}
  <2>1. IsFiniteSet(S)
    BY <1>3, FS_EmptySet
  <2> HIDE DEF S
  <2>2. MapThenSumSet(LAMBDA x : lines[x].qty, S) = Total(w, S)
    BY <2>1, TotalOfQuantities
  <2> HIDE DEF w
  <2>3. Total(w, S) = 0
    BY <1>3, TotalEmpty
  <2> QED
    BY <1>2, <2>2, <2>3
<1>4. CASE S # {}
  <2>1. PICK k \in S : TRUE
    BY <1>4
  <2>2. S = {k}
    BY DEF OneLineEach
  <2>3. k \in DOMAIN lines /\ lines[k].item = i /\ SaleOf[i] = InvoiceSale[d]
    BY Workload
  <2>4. w[k] = lines[k].qty /\ w[k] \in Nat
    BY <1>1
  <2>5. IsFiniteSet({k})
    BY FS_Singleton
  <2> HIDE DEF S
  <2>6. MapThenSumSet(LAMBDA x : lines[x].qty, S) = Total(w, S)
    BY <2>2, <2>5, TotalOfQuantities
  <2> HIDE DEF w
  <2>7. Total(w, S) = w[k]
    BY <2>2, <2>4, TotalOfOne
  <2> QED
    BY <1>2, <2>3, <2>4, <2>6, <2>7
<1> QED
  BY <1>3, <1>4

\* A commit adds the invoice it creates to what is invoiced, and nothing else.
LEMMA CommitAdds ==
  ASSUME SettlementInv, NEW q \in Requests, Commit(q)
  PROVE  /\ DeliveredQty' = DeliveredQty
         /\ \A i \in Items :
              InvoicedQty'[i] = IF Op[q] = "createInvoice"
                                THEN InvoicedQty[i] + InvoiceQty[Target[q]][i]
                                ELSE InvoicedQty[i]
<1> DEFINE S == {d \in Invoices : ComDocs[d].status # "none"}
           T == {d \in Invoices : ComDocs'[d].status # "none"}
<1>1. DeliveredQty' = DeliveredQty /\ q # Nobody
  BY CommitRows, Workload DEF DeliveredQty
<1>2. \A d \in Docs : \/ docs[d].lock # q /\ docs'[d].com = docs[d].com
                      \/ docs[d].lock = q /\ docs'[d].com = docs[d].cur
  BY CommitRows, EndedRow
<1>3. \A d \in Invoices :
        (d \in T) <=> d \in S \/ (Op[q] = "createInvoice" /\ d = Target[q])
  <2> TAKE d \in Invoices
  <2>1. d \in Docs /\ DocOK(d)
    BY DEF Docs, SettlementInv, DocsInv
  <2>2. tx[q].pc = "commit" /\ EntryOK(q, tx[q].pc)
    BY HandlerNow DEF Commit, At
  <2>3. CASE docs[d].lock # q
    BY <1>2, <2>1, <2>2, <2>3 DEF EntryOK, ComDocs
  <2>4. CASE docs[d].lock = q
    BY <1>1, <1>2, <2>1, <2>2, <2>4 DEF DocOK, HeldDoc, ComDocs, EntryOK
  <2> QED
    BY <2>3, <2>4
<1>4. \A i \in Items : /\ InvoicedQty[i] = Total([d \in S |-> InvoiceQty[d][i]], S)
                       /\ InvoicedQty'[i] = Total([d \in T |-> InvoiceQty[d][i]], T)
  <2>1. (\A i \in Items : InvoicedQty[i] = SumInvoiced(ComDocs)[i])'
    BY InvoicedIs, PTL
  <2> QED
    BY <2>1, InvoicedIs, InvoicedSum
<1>5. CASE Op[q] # "createInvoice"
  <2>1. T = S
    BY <1>3, <1>5
  <2> HIDE DEF S, T
  <2> QED
    BY <1>1, <1>4, <1>5, <2>1
<1>6. CASE Op[q] = "createInvoice"
  <2> DEFINE e == Target[q]
  <2>1. e \in Invoices /\ e \notin S
    <3>1. tx[q].pc = "commit" /\ EntryOK(q, tx[q].pc) /\ e \in Docs
      BY <1>6, HandlerNow, Targets DEF Commit, At
    <3> QED
      BY <1>6, <3>1, Targets DEF EntryOK, ComDocs
  <2>2. T \ {e} = S /\ e \in T
    BY <1>3, <1>6, <2>1
  <2>3. IsFiniteSet(T) /\ IsFiniteSet(S)
    BY Workload, FS_Subset
  <2>4. T \subseteq Invoices
    OBVIOUS
  <2> HIDE DEF S, T, e
  <2>5. ASSUME NEW i \in Items
        PROVE  InvoicedQty'[i] = InvoicedQty[i] + InvoiceQty[e][i]
    <3> DEFINE f == [d \in T |-> InvoiceQty[d][i]]
               g == [d \in S |-> InvoiceQty[d][i]]
    <3>1. \A d \in T : f[d] \in Nat
      BY <2>4, DocumentSums
    <3>2. f[e] = InvoiceQty[e][i]
      BY <2>2
    <3>3. \A d \in S : g[d] = f[d]
      BY <2>2
    <3>4. InvoicedQty'[i] = Total(f, T) /\ InvoicedQty[i] = Total(g, S)
      BY <1>4
    <3> HIDE DEF f, g
    <3>5. Total(f, T) = f[e] + Total(f, T \ {e})
      BY <2>2, <2>3, <3>1, TotalWithout
    <3>6. Total(g, S) = Total(f, S)
      BY <2>3, <3>3, TotalAgrees
    <3>7. InvoicedQty[i] \in Nat /\ InvoiceQty[e][i] \in Nat
      BY <2>1, CommittedSums, DocumentSums
    <3>8. Total(f, T \ {e}) = InvoicedQty[i]
      BY <2>2, <3>4, <3>6
    <3>9. InvoicedQty'[i] = InvoiceQty[e][i] + InvoicedQty[i]
      BY <3>2, <3>4, <3>5, <3>8
    <3> QED
      BY <3>7, <3>9
  <2> QED
    BY <1>1, <1>6, <2>5 DEF e
<1> QED
  BY <1>5, <1>6

LEMMA OthersAdd ==
  ASSUME SettlementInv, NEW q \in Requests, Moves(q), ~Commit(q)
  PROVE  \A i \in Items : InvoicedQty'[i] = InvoicedQty[i]
<1>1. ComDocs' = ComDocs
  <2>1. CASE Deliver(q)
    BY <2>1 DEF Deliver, ComDocs
  <2>2. CASE ~Deliver(q)
    BY <2>2, OnlyCommitsShow DEF ComDocs
  <2> QED
    BY <2>1, <2>2
<1>2. (\A i \in Items : InvoicedQty[i] = SumInvoiced(ComDocs)[i])'
  BY InvoicedIs, PTL
<1> QED
  BY <1>1, <1>2, InvoicedIs

LEMMA EmptyFits ==
  ASSUME OneLineEach, NEW q \in Requests, Op[q] = "createInvoice",
         InvoiceLines[Target[q]] = <<>>
  PROVE  Fits(q)
<1>1. Target[q] \in Invoices /\ DOMAIN InvoiceLines[Target[q]] = {}
  BY Targets
<1> QED
  BY <1>1, InvoicedLine DEF Fits

LEMMA FoundFits ==
  ASSUME SettlementInv, SumsInv, OneLineEach, NEW q \in Requests,
         CheckLines(q), ~Rollback(q)
  PROVE  Fits(q)
<1> DEFINE d == Target[q]
<1>1. tx[q].pc = "checkLines" /\ tx[q] \in TxState /\ Op[q] = "createInvoice" /\ d \in Invoices
  BY HandlerNow, Targets DEF CheckLines, At, HandlerOK
<1>2. FitsDelivery(InvoiceLines[d], tx[q].delivered, SumInvoiced(SeenAll(q, docs)))
  BY DEF CheckLines
<1>3. \A i \in Items : /\ SumInvoiced(SeenAll(q, docs))[i] = InvoicedQty[i]
                       /\ InvoicedQty[i] \in Nat
                       /\ tx[q].delivered[i] <= DeliveredQty[i]
                       /\ tx[q].delivered[i] \in Nat /\ DeliveredQty[i] \in Nat
                       /\ InvoiceQty[d][i] \in Nat
  BY <1>1, InvoicesSeen, CommittedSums, DocumentSums DEF SumsInv, TxState
<1> HIDE DEF d
<1>4. ASSUME NEW i \in Items, InvoiceQty[d][i] # 0
      PROVE  InvoicedQty[i] + InvoiceQty[d][i] <= DeliveredQty[i]
  <2>1. PICK k \in DOMAIN InvoiceLines[d] :
          /\ InvoiceLines[d][k].item = i
          /\ InvoiceQty[d][i] = InvoiceLines[d][k].qty
    BY <1>1, <1>4, InvoicedLine
  <2>2. InvoicedQty[i] + InvoiceQty[d][i] <= tx[q].delivered[i]
    BY <1>2, <1>3, <2>1 DEF FitsDelivery
  <2> QED
    BY <1>3, <2>2
<1> QED
  BY <1>4 DEF Fits, d

LEMMA OverStep ==
  ASSUME SettlementInv, SumsInv, Apart, OverInv, InvoicesApart, OneLineEach,
         NEW q \in Requests, Moves(q)
  PROVE  OverInv'
<1>1. \A i \in Items : /\ DeliveredQty[i] <= DeliveredQty'[i]
                       /\ DeliveredQty[i] \in Nat /\ DeliveredQty'[i] \in Nat
                       /\ InvoicedQty[i] \in Nat /\ InvoicedQty'[i] \in Nat
                       /\ InvoicedQty[i] <= DeliveredQty[i]
  BY QuantitiesGrow, CommittedSums DEF OverInv, NeverOverInvoiced
<1>2. NeverOverInvoiced'
  <2> SUFFICES ASSUME NEW i \in Items PROVE InvoicedQty'[i] <= DeliveredQty'[i]
    BY DEF NeverOverInvoiced
  <2>1. CASE ~Commit(q)
    BY <1>1, <2>1, OthersAdd
  <2>2. CASE Commit(q) /\ Op[q] # "createInvoice"
    BY <1>1, <2>2, CommitAdds
  <2>3. CASE Commit(q) /\ Op[q] = "createInvoice"
    <3>1. InvoicedQty'[i] = InvoicedQty[i] + InvoiceQty[Target[q]][i]
      BY <2>3, CommitAdds
    <3>2. \/ InvoiceQty[Target[q]][i] = 0
          \/ InvoicedQty[i] + InvoiceQty[Target[q]][i] <= DeliveredQty[i]
      BY <2>3 DEF OverInv, Fits, Commit, At
    <3> QED
      BY <1>1, <3>1, <3>2
  <2> QED
    BY <2>1, <2>2, <2>3
<1>3. ASSUME NEW p \in Requests, p # q, Fits(p), Op[p] = "createInvoice", p \in Open
      PROVE  Fits(p)'
  <2> DEFINE n(i) == InvoiceQty[Target[p]][i]
  <2> SUFFICES ASSUME NEW i \in Items, n(i) # 0
               PROVE  InvoicedQty'[i] + n(i) <= DeliveredQty'[i]
    BY DEF Fits
  <2>0. Target[p] \in Invoices /\ n(i) \in Nat /\ InvoicedQty[i] + n(i) <= DeliveredQty[i]
    BY <1>3, Targets, DocumentSums DEF Fits
  <2>1. InvoicedQty'[i] = InvoicedQty[i]
    <3>1. CASE ~Commit(q)
      BY <3>1, OthersAdd
    <3>2. CASE Commit(q) /\ Op[q] # "createInvoice"
      BY <3>2, CommitAdds
    <3>3. CASE Commit(q) /\ Op[q] = "createInvoice"
      <4>1. q \in Open /\ Target[q] \in Invoices
        BY <3>3, Targets DEF Commit, At, Open, Working
      <4>2. {q, p} \notin Conflicts
        BY <1>3, <4>1 DEF Apart
      <4>3. InvoiceSale[Target[q]] # InvoiceSale[Target[p]]
        BY <1>3, <3>3, <4>2 DEF InvoicesApart
      <4>4. SaleOf[i] = InvoiceSale[Target[p]]
        BY <2>0, InvoicedLine
      <4>5. InvoiceQty[Target[q]][i] = 0
        BY <4>1, <4>3, <4>4, InvoicedLine
      <4> QED
        BY <1>1, <3>3, <4>5, CommitAdds
    <3> QED
      BY <3>1, <3>2, <3>3
  <2> HIDE DEF n
  <2> QED
    BY <1>1, <2>0, <2>1
<1>4. ASSUME NEW p \in Requests, Op[p] = "createInvoice",
             tx'[p].pc \in {"number", "insert", "commit"}
      PROVE  Fits(p)'
  <2>1. CASE p # q
    <3>1. tx[p].pc \in {"number", "insert", "commit"}
      BY <1>4, <2>1 DEF Moves
    <3> QED
      BY <1>3, <1>4, <2>1, <3>1 DEF OverInv, Open, Working
  <2>2. CASE p = q
    <3>1. tx[q] \in TxState /\ HandlerOK(q, tx[q])
      BY HandlerNow
    <3>2. ~Commit(q)
      BY <1>4, <2>2 DEF Commit, Finish, Moves, Ends, TxAt, SettlementInv, RowsTyped
    <3>3. Fits(q)
      <4>1. CASE tx[q].pc \in {"number", "insert"}
        BY <1>4, <2>2, <4>1 DEF OverInv
      <4>2. CASE CheckLines(q) /\ ~Rollback(q)
        BY <4>2, FoundFits
      <4>3. CASE CreateInvoice(q) /\ ~Rollback(q) /\ tx[q].pc = "new"
        <5>1. tx'[q].pc = IF InvoiceLines[Target[q]] = <<>> THEN "number" ELSE "checkLines"
          BY <3>1, <4>3 DEF CreateInvoice, SettlementInv, RowsTyped, TxState
        <5>2. InvoiceLines[Target[q]] = <<>>
          BY <1>4, <2>2, <5>1
        <5> QED
          BY <1>4, <2>2, <5>2, EmptyFits
      <4>4. \/ tx[q].pc \in {"number", "insert"}
            \/ CheckLines(q) /\ ~Rollback(q)
            \/ CreateInvoice(q) /\ ~Rollback(q) /\ tx[q].pc = "new"
        <5>1. CASE Begins(q)
          BY <1>4, <2>2, <5>1 DEF Begins
        <5>2. CASE Checks(q)
          BY <1>4, <2>2, <3>1, <5>2 DEF Checks, HandlerOK
        <5>3. CASE Writes(q)
          BY <1>4, <2>2, <3>1, <5>3 DEF Writes, HandlerOK
        <5>4. CASE Rechecks(q)
          BY <1>4, <2>2, <3>1, <5>4 DEF Rechecks, HandlerOK
        <5>5. CASE Ends(q)
          BY <1>4, <2>2, <5>5 DEF Ends, TxAt
        <5> QED
          BY <5>1, <5>2, <5>3, <5>4, <5>5 DEF Moves
      <4> QED
        BY <4>1, <4>2, <4>3, <4>4
    <3>4. \A i \in Items : InvoicedQty'[i] = InvoicedQty[i] /\ InvoiceQty[Target[q]][i] \in Nat
      BY <1>4, <2>2, <3>2, OthersAdd, Targets, DocumentSums
    <3>5. ASSUME NEW i \in Items, InvoiceQty[Target[q]][i] # 0
          PROVE  InvoicedQty'[i] + InvoiceQty[Target[q]][i] <= DeliveredQty'[i]
      BY <1>1, <3>3, <3>4, <3>5 DEF Fits
    <3> QED
      BY <2>2, <3>5 DEF Fits
  <2> QED
    BY <2>1, <2>2
<1> QED
  BY <1>2, <1>4 DEF OverInv

LEMMA OverInitial == Init => OverInv
<1> SUFFICES ASSUME Init PROVE OverInv
  OBVIOUS
<1>1. \A d \in Invoices : ComDocs[d].status = "none"
  BY Workload DEF Init, ComDocs, Docs, Fresh
<1>2. ASSUME NEW i \in Items PROVE InvoicedQty[i] = 0
  <2> DEFINE S == {d \in Invoices : ComDocs[d].status # "none"}
  <2>1. S = {}
    BY <1>1
  <2>2. SumInvoiced(ComDocs)[i] = Total([d \in S |-> InvoiceQty[d][i]], S)
    BY InvoicedSum
  <2> HIDE DEF S
  <2>3. Total([d \in S |-> InvoiceQty[d][i]], S) = 0
    BY <2>1, TotalEmpty
  <2> QED
    BY <2>2, <2>3, InvoicedIs
<1>3. NeverOverInvoiced
  BY <1>2, CommittedSums DEF NeverOverInvoiced
<1> QED
  BY <1>3 DEF Init, OverInv, TxAt

LEMMA OverStutter == Apart /\ OverInv /\ UNCHANGED vars => Apart' /\ OverInv'
<1> SUFFICES ASSUME Apart, OverInv, UNCHANGED vars PROVE Apart' /\ OverInv'
  OBVIOUS
<1>1. /\ DeliveredQty' = DeliveredQty
      /\ \A i \in Items : InvoicedQty'[i] = InvoicedQty[i]
  BY SameQuantities DEF vars
<1> QED
  BY <1>1 DEF vars, Apart, Open, OverInv, NeverOverInvoiced, Fits

LEMMA OverInvariant ==
  ASSUME InvoicesApart, OneLineEach
  PROVE  Spec => [](SumsInv /\ Apart /\ OverInv)
<1>1. Init => SumsInv /\ Apart /\ OverInv
  BY ClosedInitial, ApartInitial, OverInitial
<1>2. SettlementInv /\ (SumsInv /\ Apart /\ OverInv) /\ [Next]_vars
        => (SumsInv /\ Apart /\ OverInv)'
  <2> SUFFICES ASSUME SettlementInv, SumsInv, Apart, OverInv, [Next]_vars
               PROVE  SumsInv' /\ Apart' /\ OverInv'
    OBVIOUS
  <2>1. CASE UNCHANGED vars
    BY <2>1, SumsStutter, OverStutter
  <2>2. ASSUME NEW q \in Requests, Moves(q)
        PROVE  SumsInv' /\ Apart' /\ OverInv'
    BY <2>2, SumsStep, ApartStep, OverStep
  <2> QED
    BY <2>1, <2>2, NextMoves
<1> QED
  BY <1>1, <1>2, SettlementInvariant, PTL DEF Spec

\* NeverOverInvoiced: no item is invoiced beyond what was delivered, for
\* creates that do not overlap for the same sale and invoices with at most
\* one line of an item.
THEOREM NeverInvoicedTwice ==
  ASSUME InvoicesApart, OneLineEach
  PROVE  Spec => []NeverOverInvoiced
<1>1. OverInv => NeverOverInvoiced
  BY DEF OverInv
<1> QED
  BY <1>1, OverInvariant, PTL

-----------------------------------------------------------------------------
(* A sale that is shipped and invoiced in full is closed with the commit   *)
(* that finished it.  The sale waits for one of its drafts: the approval   *)
(* that has locked it has found, or will find, everything delivered, and   *)
(* commits with the sale closed.                                           *)

Pending(d) ==
  LET s == InvoiceSale[d]
      r == docs[d].lock
  IN
  /\ docs[d].com.status = "draft"
  /\ r \in Requests /\ Op[r] = "approveInvoice" =>
       /\ tx[r].pc = "sumInvoiced" => \A i \in ItemsOf(s) : tx[r].delivered[i] >= Reserved[i]
       /\ tx[r].pc = "commit" => sales[s].lock = r /\ sales[s].cur = "closed"

FinishedInv ==
  \A s \in Sales :
    Sale(s) = "approved" /\ SaleIsDone(s) =>
      \E d \in Invoices : InvoiceSale[d] = s /\ Pending(d)

\* What a step does to a document.
LEMMA DocCarries ==
  ASSUME SettlementInv, NEW q \in Requests, Moves(q), NEW d \in Docs
  PROVE  \/ docs'[d] = docs[d]
         \/ /\ docs[d].lock = q /\ docs'[d].lock = Nobody
            /\ docs'[d].cur = docs'[d].com
            /\ \/ Rollback(q) /\ docs'[d].com = docs[d].com
               \/ Commit(q) /\ docs'[d].com = docs[d].cur
         \/ /\ docs'[d].com = docs[d].com /\ docs'[d].lock = q
            /\ \/ InsertInvoice(q)
               \/ UpdateFields(q)
               \/ TransitionToApproved(q) /\ ~Rollback(q) /\ tx'[q].pc = "sumDelivered"
               \/ TransitionToPaid(q)
<1>0. docs \in [Docs -> Versioned(DocRow, Requests)]
  BY DEF SettlementInv, RowsTyped
<1>1. CASE Rollback(q)
  <2>1. docs'[d] = RolledBack(q, docs[d])
    BY <1>1, RollbackRows
  <2> QED
    BY <1>1, <2>1, EndedRow
<1>2. CASE Commit(q)
  <2>1. docs'[d] = Committed(q, docs[d])
    BY <1>2, CommitRows
  <2> QED
    BY <1>2, <2>1, EndedRow
<1>3. CASE Begins(q) \/ Checks(q) \/ Rechecks(q) \/ Deliver(q)
  BY <1>3 DEF Begins, Checks, Rechecks, Deliver, MaybeAutoClose, tables
<1>4. CASE Writes(q) /\ ~Rollback(q)
  <2>1. CASE InsertInvoice(q)
    <3>1. \E row : docs' = [docs EXCEPT ![Target[q]] = Put(q, docs[Target[q]], row)]
      BY <2>1 DEF InsertInvoice
    <3> QED
      BY <1>0, <2>1, <3>1 DEF Put
  <2>2. CASE UpdateFields(q)
    <3>1. \E row : docs' = [docs EXCEPT ![Target[q]] = Put(q, docs[Target[q]], row)]
      BY <2>2 DEF UpdateFields
    <3> QED
      BY <1>0, <2>2, <3>1 DEF Put
  <2>3. CASE TransitionToApproved(q) /\ tx'[q].pc = "sumDelivered"
    <3>1. \E row : docs' = [docs EXCEPT ![Target[q]] = Put(q, docs[Target[q]], row)]
      BY <1>4, <2>3 DEF TransitionToApproved
    <3> QED
      BY <1>0, <1>4, <2>3, <3>1 DEF Put
  <2>4. CASE TransitionToCancelled(q)
    <3>1. docs' = docs
      BY <1>4, <2>4, CancelledIs
    <3> QED
      BY <3>1
  <2>5. CASE RecordPayment(q)
    BY <2>5 DEF RecordPayment
  <2>6. CASE TransitionToPaid(q)
    <3>1. \/ docs' = docs
          \/ \E row : docs' = [docs EXCEPT ![NextDoc(q)] = Put(q, docs[NextDoc(q)], row)]
      BY <2>6 DEF TransitionToPaid
    <3> QED
      BY <1>0, <2>6, <3>1 DEF Put
  <2> QED
    BY <1>4, <2>1, <2>2, <2>3, <2>4, <2>5, <2>6 DEF Writes
<1> QED
  BY <1>1, <1>2, <1>3, <1>4 DEF Moves, Ends

\* A sale another request has locked stays as it is.
LEMMA SaleStays ==
  ASSUME SettlementInv, NEW q \in Requests, Moves(q), NEW s \in Sales,
         sales[s].lock \notin {Nobody, q}
  PROVE  sales'[s] = sales[s]
<1>0. sales \in [Sales -> Versioned(SaleStatus, Requests)]
  BY DEF SettlementInv, RowsTyped
<1>1. CASE Rollback(q)
  <2>1. sales'[s] = RolledBack(q, sales[s])
    BY <1>1, RollbackRows
  <2> QED
    BY <2>1, EndedRow
<1>2. CASE Commit(q)
  <2>1. sales'[s] = Committed(q, sales[s])
    BY <1>2, CommitRows
  <2> QED
    BY <2>1, EndedRow
<1>3. CASE TransitionToCancelled(q) /\ ~Rollback(q)
  <2>1. /\ Lockable(q, sales[Target[q]])
        /\ sales' = [sales EXCEPT ![Target[q]] = Put(q, sales[Target[q]], "cancelled")]
    BY <1>3, CancelledIs
  <2> QED
    BY <1>0, <2>1 DEF Lockable
<1>4. CASE MaybeAutoClose(q)
  <2>1. \/ sales' = sales
        \/ /\ Lockable(q, sales[NextSale(q)])
           /\ sales' = [sales EXCEPT ![NextSale(q)] = Put(q, sales[NextSale(q)], "closed")]
    BY <1>4, CloseIs
  <2> QED
    BY <1>0, <2>1 DEF Lockable
<1>5. \/ UNCHANGED sales \/ Rollback(q) \/ Commit(q) \/ MaybeAutoClose(q)
      \/ TransitionToCancelled(q) /\ ~Rollback(q)
  <2>1. CASE Begins(q) \/ Checks(q)
    BY <2>1 DEF Begins, Checks, tables
  <2>2. CASE Writes(q)
    BY <2>2 DEF Writes, InsertInvoice, UpdateFields, TransitionToApproved, RecordPayment,
                TransitionToPaid
  <2>3. CASE Rechecks(q)
    BY <2>3 DEF Rechecks, tables
  <2>4. CASE Ends(q)
    BY <2>4 DEF Ends, Deliver
  <2> QED
    BY <2>1, <2>2, <2>3, <2>4 DEF Moves
<1> QED
  BY <1>1, <1>2, <1>3, <1>4, <1>5

\* A sale is only ever taken out of approved.
LEMMA NeverApprovedAgain ==
  ASSUME SettlementInv, NEW q \in Requests, Moves(q), NEW s \in Sales,
         sales'[s].com = "approved"
  PROVE  sales[s].com = "approved" /\ (Commit(q) => sales[s].lock # q)
<1>1. CASE Commit(q)
  <2>1. sales'[s] = Committed(q, sales[s]) /\ SaleOK(s) /\ q # Nobody
    BY <1>1, CommitRows, Workload DEF SettlementInv, SalesInv
  <2>2. sales[s].lock # q
    <3>1. CASE sales[s].lock = q
      <4>1. sales'[s].com = sales[s].cur
        BY <2>1, <3>1, EndedRow
      <4> QED
        BY <2>1, <3>1, <4>1 DEF SaleOK, HeldSale
    <3> QED
      BY <3>1
  <2> QED
    BY <2>1, <2>2, EndedRow
<1>2. CASE Deliver(q)
  BY <1>2 DEF Deliver, Commit, CanBegin, At
<1>3. CASE ~Commit(q) /\ ~Deliver(q)
  BY <1>3, OnlyCommitsShow
<1> QED
  BY <1>1, <1>2, <1>3

\* No step but the commit of one of its invoices finishes a sale: a delivery
\* ships more than was invoiced.
LEMMA WasDone ==
  ASSUME SettlementInv, OverInv, OneLineEach, NEW q \in Requests, Moves(q),
         NEW s \in Sales, SaleIsDone(s)',
         ~(Commit(q) /\ Op[q] = "createInvoice" /\ InvoiceSale[Target[q]] = s)
  PROVE  SaleIsDone(s)
<1>1. \A i \in Items : /\ DeliveredQty[i] <= DeliveredQty'[i]
                       /\ DeliveredQty[i] \in Nat /\ DeliveredQty'[i] \in Nat
                       /\ InvoicedQty[i] \in Nat /\ Reserved[i] \in Nat
                       /\ InvoicedQty[i] <= DeliveredQty[i]
  BY QuantitiesGrow, CommittedSums, Workload DEF OverInv, NeverOverInvoiced
<1>2. \A i \in ItemsOf(s) : i \in Items /\ DeliveredQty'[i] >= Reserved[i]
                                        /\ InvoicedQty'[i] >= DeliveredQty'[i]
  BY DEF SaleIsDone, ItemsOf
<1>3. ASSUME NEW i \in ItemsOf(s) PROVE InvoicedQty'[i] = InvoicedQty[i]
  <2>0. i \in Items /\ SaleOf[i] = s
    BY DEF ItemsOf
  <2>1. CASE ~Commit(q)
    BY <2>0, <2>1, OthersAdd
  <2>2. CASE Commit(q) /\ Op[q] # "createInvoice"
    BY <2>0, <2>2, CommitAdds
  <2>3. CASE Commit(q) /\ Op[q] = "createInvoice"
    <3>1. Target[q] \in Invoices /\ InvoiceSale[Target[q]] # s
      BY <2>3, Targets
    <3>2. InvoiceQty[Target[q]][i] = 0
      BY <2>0, <3>1, InvoicedLine
    <3> QED
      BY <1>1, <2>0, <2>3, <3>2, CommitAdds
  <2> QED
    BY <2>1, <2>2, <2>3
<1>4. \A i \in ItemsOf(s) : DeliveredQty[i] >= Reserved[i] /\ InvoicedQty[i] >= DeliveredQty[i]
  BY <1>1, <1>2, <1>3
<1> QED
  BY <1>4 DEF SaleIsDone

\* An approval that has found everything delivered finds the sale finished.
LEMMA FoundFinished ==
  ASSUME SettlementInv, SumsInv, NEW q \in Requests, SumInvoices(q),
         NEW s \in Sales, s = NextSale(q), SaleIsDone(s),
         \A i \in ItemsOf(s) : tx[q].delivered[i] >= Reserved[i]
  PROVE  tx'[q].pc = "close"
<1> DEFINE invoiced == SumInvoiced(SeenAll(q, docs))
<1>1. tx[q].pc = "sumInvoiced" /\ tx[q] \in TxState
  BY HandlerNow DEF SumInvoices, At
<1>2. \A i \in Items : /\ invoiced[i] = InvoicedQty[i] /\ InvoicedQty[i] \in Nat
                       /\ tx[q].delivered[i] <= DeliveredQty[i]
                       /\ tx[q].delivered[i] \in Nat /\ DeliveredQty[i] \in Nat
                       /\ Reserved[i] \in Nat \ {0}
  BY <1>1, InvoicesSeen, CommittedSums, Workload DEF SumsInv, TxState
<1> HIDE DEF invoiced
<1>3. \A i \in ItemsOf(s) : i \in Items /\ InvoicedQty[i] >= DeliveredQty[i]
  BY DEF SaleIsDone, ItemsOf
<1>4. \A i \in ItemsOf(s) : /\ tx[q].delivered[i] > 0 /\ invoiced[i] > 0
                            /\ invoiced[i] >= tx[q].delivered[i]
  BY <1>2, <1>3
<1>5. ItemsOf(s) # {}
  BY Workload DEF ItemsOf
<1>6. Finished(s, tx[q].delivered, invoiced)
  BY <1>4, <1>5 DEF Finished, FullyDelivered, FullyInvoiced
<1>7. Goto(q, "close")
  BY <1>6 DEF SumInvoices, invoiced
<1>8. To(q, "close")
  BY <1>7, Goes
<1> QED
  BY <1>1, <1>8 DEF To, TxState

\* The draft a finished sale waits for goes on as it should.
LEMMA PendingStays ==
  ASSUME SettlementInv, SettlementInv', SumsInv, NEW q \in Requests, Moves(q),
         NEW d \in Invoices, Pending(d), NEW s \in Sales, s = InvoiceSale[d],
         SaleIsDone(s), sales[s].com = "approved", sales'[s].com = "approved"
  PROVE  Pending(d)'
<1> DEFINE r == docs[d].lock
<1>0. /\ d \in Docs /\ DocOK(d) /\ DocOK(d)' /\ q # Nobody /\ Nobody \notin Requests
      /\ docs[d].com.status = "draft" /\ SaleOK(s)
  BY Workload DEF Docs, SettlementInv, DocsInv, SalesInv, Pending
<1>1. CASE docs'[d] = docs[d] /\ r # q
  <2>1. CASE r \in Requests /\ Op[r] = "approveInvoice"
    <3>1. tx'[r] = tx[r]
      BY <1>1, <2>1 DEF Moves
    <3>2. sales[s].lock = r => sales'[s] = sales[s]
      BY <1>0, <1>1, <2>1, SaleStays
    <3> QED
      BY <1>0, <1>1, <2>1, <3>1, <3>2 DEF Pending
  <2>2. CASE ~(r \in Requests /\ Op[r] = "approveInvoice")
    BY <1>0, <1>1, <2>2 DEF Pending
  <2> QED
    BY <2>1, <2>2
<1>2. CASE docs[d].lock = q /\ docs'[d].lock = Nobody /\ Rollback(q) /\ docs'[d].com = docs[d].com
  BY <1>0, <1>2 DEF Pending
<1>3. CASE docs[d].lock = q /\ docs'[d].lock = Nobody /\ Commit(q) /\ docs'[d].com = docs[d].cur
  <2>1. tx[q].pc = "commit" /\ HeldDoc(q, "commit", d, docs[d])
    BY <1>0, <1>3 DEF Commit, At, DocOK
  <2>2. CASE Op[q] = "approveInvoice"
    <3>1. sales[s].lock = q
      BY <1>3, <2>1, <2>2 DEF Pending
    <3> QED
      BY <1>3, <3>1, NeverApprovedAgain
  <2>3. CASE Op[q] # "approveInvoice"
    <3>1. docs'[d].com.status = "draft"
      BY <1>0, <1>3, <2>1, <2>3 DEF HeldDoc
    <3> QED
      BY <1>0, <1>3, <3>1 DEF Pending
  <2> QED
    BY <2>2, <2>3
<1>4. CASE /\ docs'[d].com = docs[d].com /\ docs'[d].lock = q
           /\ \/ InsertInvoice(q)
              \/ UpdateFields(q)
              \/ TransitionToApproved(q) /\ ~Rollback(q) /\ tx'[q].pc = "sumDelivered"
              \/ TransitionToPaid(q)
  <2>1. CASE InsertInvoice(q) \/ UpdateFields(q) \/ TransitionToPaid(q)
    <3>1. Op[q] # "approveInvoice"
      BY <2>1, HandlerNow DEF InsertInvoice, UpdateFields, TransitionToPaid, At, HandlerOK
    <3> QED
      BY <1>0, <1>4, <3>1 DEF Pending
  <2>2. CASE TransitionToApproved(q) /\ ~Rollback(q) /\ tx'[q].pc = "sumDelivered"
    BY <1>0, <1>4, <2>2 DEF Pending
  <2> QED
    BY <1>4, <2>1, <2>2
<1>5. CASE docs'[d] = docs[d] /\ r = q /\ Op[q] # "approveInvoice"
  BY <1>0, <1>5 DEF Pending
<1>6. CASE docs'[d] = docs[d] /\ r = q /\ Op[q] = "approveInvoice"
  <2>0. HeldDoc(q, tx[q].pc, d, docs[d])
    BY <1>0, <1>6 DEF DocOK
  <2>1. Target[q] = d /\ tx[q].pc \in Closing
    BY <1>6, <2>0 DEF HeldDoc
  <2>2. HandlerOK(q, tx[q]) /\ tx[q] \in TxState
    BY HandlerNow
  <2>3. CASE tx[q].pc = "sumDelivered" /\ tx'[q].pc = "sumInvoiced"
    <3>1. tx'[q].delivered = DeliveredQty
      BY <2>3, Sums, DeliveriesSeen
    <3>2. \A i \in ItemsOf(s) : DeliveredQty[i] >= Reserved[i]
      BY DEF SaleIsDone
    <3> QED
      BY <1>0, <1>6, <2>3, <3>1, <3>2 DEF Pending
  <2>4. CASE SumInvoices(q) /\ tx[q].pc = "sumInvoiced"
    <3>1. NextSale(q) = s
      BY <1>6, <2>1, <2>2, <2>4, SaleOfApproval DEF HandlerOK
    <3>2. \A i \in ItemsOf(s) : tx[q].delivered[i] >= Reserved[i]
      BY <1>6, <2>4 DEF Pending
    <3>3. tx'[q].pc = "close"
      BY <2>4, <3>1, <3>2, FoundFinished
    <3> QED
      BY <1>0, <1>6, <3>3 DEF Pending
  <2>5. CASE MaybeAutoClose(q) /\ tx[q].pc = "close"
    <3>1. NextSale(q) = s
      BY <1>6, <2>1, <2>2, <2>5, SaleOfApproval DEF HandlerOK
    <3>2. sales[s].lock # q
      BY <1>0, <1>6, <2>5 DEF SaleOK, HeldSale
    <3>3. Seen(q, sales[s]) = "approved"
      BY <3>2 DEF Seen
    <3>4. /\ s \in Sales
          /\ sales' = [sales EXCEPT ![s] = Put(q, sales[s], "closed")]
      BY <2>5, <3>1, <3>3 DEF MaybeAutoClose
    <3>5. sales'[s].lock = q /\ sales'[s].cur = "closed"
      BY <3>4 DEF Put, SettlementInv, RowsTyped
    <3>6. tx'[q].pc # "sumInvoiced"
      <4>1. PICK t \in TxState : /\ t.pc \in {"commit", "sumDelivered"}
                                 /\ tx' = [tx EXCEPT ![q] = t]
        BY <2>5, CloseIs
      <4> QED
        BY <4>1, Takes
    <3> QED
      BY <1>0, <1>6, <3>5, <3>6 DEF Pending
  <2>6. CASE Rollback(q) \/ Commit(q)
    <3>1. docs'[d].lock # q
      <4>1. docs'[d] = RolledBack(q, docs[d]) \/ docs'[d] = Committed(q, docs[d])
        BY <1>0, <2>6, RollbackRows, CommitRows
      <4> QED
        BY <1>0, <1>6, <4>1, EndedRow
    <3> QED
      BY <1>6, <3>1
  <2>7. \/ tx[q].pc = "sumDelivered" /\ tx'[q].pc = "sumInvoiced"
        \/ SumInvoices(q) /\ tx[q].pc = "sumInvoiced"
        \/ MaybeAutoClose(q) /\ tx[q].pc = "close"
        \/ Rollback(q) \/ Commit(q)
    <3>1. CASE Begins(q) \/ Checks(q) \/ Writes(q)
      BY <2>1, <3>1 DEF Begins, Checks, Writes, Closing, CheckLines, CheckOutstanding, At
    <3>2. CASE Rechecks(q)
      BY <3>2 DEF Rechecks
    <3>3. CASE Ends(q)
      BY <2>1, <3>3 DEF Ends, Closing
    <3> QED
      BY <3>1, <3>2, <3>3 DEF Moves
  <2> QED
    BY <2>3, <2>4, <2>5, <2>6, <2>7
<1> QED
  BY <1>0, <1>1, <1>2, <1>3, <1>4, <1>5, <1>6, DocCarries

LEMMA FinishedStep ==
  ASSUME SettlementInv, SettlementInv', SumsInv, OverInv, FinishedInv, OneLineEach,
         NEW q \in Requests, Moves(q)
  PROVE  FinishedInv'
<1> SUFFICES ASSUME NEW s \in Sales, Sale(s)' = "approved", SaleIsDone(s)'
             PROVE  \E d \in Invoices : InvoiceSale[d] = s /\ Pending(d)'
  BY DEF FinishedInv
<1>1. sales'[s].com = "approved" /\ sales[s].com = "approved"
  BY NeverApprovedAgain DEF Sale
<1>2. CASE Commit(q) /\ Op[q] = "createInvoice" /\ InvoiceSale[Target[q]] = s
  <2> DEFINE d == Target[q]
  <2>1. d \in Invoices /\ d \in Docs /\ tx[q].pc = "commit" /\ EntryOK(q, tx[q].pc)
    BY <1>2, Targets, HandlerNow DEF Commit, At
  <2>2. docs[d].lock = q /\ DocOK(d) /\ q # Nobody /\ Nobody \notin Requests
    BY <1>2, <2>1, Workload DEF EntryOK, SettlementInv, DocsInv
  <2>3. docs[d].cur.status = "draft"
    BY <1>2, <2>1, <2>2 DEF DocOK, HeldDoc
  <2>4. docs'[d] = Committed(q, docs[d])
    BY <1>2, <2>1, CommitRows
  <2>5. docs'[d].com.status = "draft" /\ docs'[d].lock = Nobody
    BY <2>2, <2>3, <2>4, EndedRow
  <2> QED
    BY <1>2, <2>1, <2>2, <2>5 DEF Pending
<1>3. CASE ~(Commit(q) /\ Op[q] = "createInvoice" /\ InvoiceSale[Target[q]] = s)
  <2>1. SaleIsDone(s)
    BY <1>3, WasDone
  <2>2. PICK d \in Invoices : InvoiceSale[d] = s /\ Pending(d)
    BY <1>1, <2>1 DEF FinishedInv, Sale
  <2> QED
    BY <1>1, <2>1, <2>2, PendingStays
<1> QED
  BY <1>2, <1>3

LEMMA FinishedInitial == Init => FinishedInv
<1> SUFFICES ASSUME Init, NEW s \in Sales PROVE ~SaleIsDone(s)
  BY DEF FinishedInv
<1>1. PICK i \in Items : SaleOf[i] = s
  BY Workload
<1>2. DeliveredQty[i] = 0
  <2> DEFINE S == {v \in Deliveries : ComDeliveries[v] = "confirmed"}
  <2>1. S = {}
    BY DEF Init, ComDeliveries, Fresh
  <2>2. SumDelivered(ComDeliveries)[i] = Total([v \in S |-> DeliveryQty[v][i]], S)
    BY DeliveredSum
  <2> HIDE DEF S
  <2> QED
    BY <2>1, <2>2, TotalEmpty, DeliveredIs
<1>3. Reserved[i] \in Nat \ {0} /\ i \in ItemsOf(s)
  BY <1>1, Workload DEF ItemsOf
<1> QED
  BY <1>2, <1>3 DEF SaleIsDone

LEMMA FinishedStutter == FinishedInv /\ UNCHANGED vars => FinishedInv'
<1> SUFFICES ASSUME FinishedInv, UNCHANGED vars PROVE FinishedInv'
  OBVIOUS
<1>1. /\ DeliveredQty' = DeliveredQty
      /\ \A i \in Items : InvoicedQty'[i] = InvoicedQty[i]
  BY SameQuantities DEF vars
<1>2. \A s : SaleIsDone(s)' <=> SaleIsDone(s)
  BY <1>1 DEF SaleIsDone, ItemsOf
<1>3. \A d : Pending(d)' <=> Pending(d)
  BY DEF vars, Pending
<1> QED
  BY <1>2, <1>3 DEF vars, FinishedInv, Sale

LEMMA FinishedInvariant ==
  ASSUME InvoicesApart, OneLineEach
  PROVE  Spec => []FinishedInv
<1>1. Init => FinishedInv
  BY FinishedInitial
<1>2. SettlementInv /\ SettlementInv' /\ (SumsInv /\ Apart /\ OverInv)
        /\ FinishedInv /\ [Next]_vars => FinishedInv'
  <2> SUFFICES ASSUME SettlementInv, SettlementInv', SumsInv, OverInv, FinishedInv, [Next]_vars
               PROVE  FinishedInv'
    OBVIOUS
  <2>1. CASE UNCHANGED vars
    BY <2>1, FinishedStutter
  <2>2. ASSUME NEW q \in Requests, Moves(q) PROVE FinishedInv'
    BY <2>2, FinishedStep
  <2> QED
    BY <2>1, <2>2, NextMoves
<1> QED
  BY <1>1, <1>2, SettlementInvariant, OverInvariant, PTL DEF Spec

\* FinishedSaleIsClosed: a sale that is shipped and invoiced in full is closed
\* with the commit that finished it, unless one of its drafts waits for its
\* approval.
THEOREM FinishedSalesAreClosed ==
  ASSUME InvoicesApart, OneLineEach
  PROVE  Spec => []FinishedSaleIsClosed
<1>1. FinishedInv => FinishedSaleIsClosed
  BY DEF FinishedInv, FinishedSaleIsClosed, Pending, Doc
<1> QED
  BY <1>1, FinishedInvariant, PTL

-----------------------------------------------------------------------------
(* The ledger.  What payments of a document add up to, whoever sums them.  *)

LEMMA AppliedType == Applied \in [Payments -> [Docs -> Nat]]
<1>1. ASSUME NEW p \in Payments, NEW d \in Docs
      PROVE  AppliedTo(d, Allocations[p]) \in Nat
  <2> DEFINE lines == Allocations[p]
             S == {k \in DOMAIN lines : lines[k].doc = d}
             w == [k \in S |-> lines[k].amount]
  <2>1. lines \in Seq(Allocation)
    BY <1>1, Workload DEF Payments
  <2>2. IsFiniteSet(S)
    <3>1. Len(lines) \in Nat /\ DOMAIN lines = 1..Len(lines)
      BY <2>1
    <3>2. IsFiniteSet(1..Len(lines))
      BY <3>1, FS_Interval
    <3> QED
      BY <3>1, <3>2, FS_Subset
  <2>3. \A k \in S : w[k] \in Nat
    <3>1. \A k \in DOMAIN lines : lines[k] \in Allocation
      BY <2>1
    <3> QED
      BY <3>1 DEF Allocation
  <2> HIDE DEF S, w, lines
  <2>4. Total(w, S) \in Nat
    BY <2>2, <2>3, TotalType
  <2>5. MapThenSumSet(LAMBDA k : lines[k].amount, S) = Total(w, S)
    BY <2>2, TotalOfAmounts DEF w
  <2> QED
    BY <2>4, <2>5 DEF AppliedTo, S, lines
<1> QED
  BY <1>1 DEF Applied

\* The entries of a document, as one table.
EntriesOf(d) == [p \in Payments |-> Applied[p][d]]

LEMMA PaidIsTotal ==
  ASSUME NEW d \in Docs, NEW P \in SUBSET Payments
  PROVE  /\ IsFiniteSet(P) /\ \A p \in P : EntriesOf(d)[p] \in Nat /\ EntriesOf(d)[p] = Applied[p][d]
         /\ PaidBy(P, d) = Total(EntriesOf(d), P)
<1> DEFINE w == [p \in P |-> Applied[p][d]]
<1>1. IsFiniteSet(P)
  BY Workload, FS_Subset DEF Payments
<1>2. \A p \in P : EntriesOf(d)[p] \in Nat /\ EntriesOf(d)[p] = Applied[p][d] /\ w[p] = EntriesOf(d)[p]
  BY AppliedType DEF EntriesOf
<1>3. PaidBy(P, d) = Total(w, P)
  BY <1>1, TotalOfEntries DEF PaidBy
<1> HIDE DEF w
<1>4. Total(w, P) = Total(EntriesOf(d), P)
  BY <1>1, <1>2, TotalAgrees
<1> QED
  BY <1>1, <1>2, <1>3, <1>4

LEMMA PaidTotals ==
  ASSUME NEW d \in Docs
  PROVE  /\ PaidBy({}, d) = 0
         /\ \A P \in SUBSET Payments :
              /\ PaidBy(P, d) \in Nat
              /\ \A q \in P : PaidBy(P, d) = Applied[q][d] + PaidBy(P \ {q}, d)
              /\ \A Q \in SUBSET P :
                   /\ PaidBy(Q, d) <= PaidBy(P, d)
                   /\ (\A p \in P \ Q : Applied[p][d] = 0) => PaidBy(P, d) = PaidBy(Q, d)
<1>1. PaidBy({}, d) = 0
  BY PaidIsTotal, TotalEmpty
<1>2. ASSUME NEW P \in SUBSET Payments
      PROVE  PaidBy(P, d) \in Nat
  BY PaidIsTotal, TotalType
<1>3. ASSUME NEW P \in SUBSET Payments, NEW q \in P
      PROVE  PaidBy(P, d) = Applied[q][d] + PaidBy(P \ {q}, d)
  <2>1. P \ {q} \in SUBSET Payments
    OBVIOUS
  <2> QED
    BY <2>1, PaidIsTotal, TotalWithout
<1>4. ASSUME NEW P \in SUBSET Payments, NEW Q \in SUBSET P
      PROVE  PaidBy(Q, d) <= PaidBy(P, d)
  <2>1. Q \in SUBSET Payments
    OBVIOUS
  <2> QED
    BY <2>1, PaidIsTotal, TotalMonotone
<1>5. ASSUME NEW P \in SUBSET Payments, NEW Q \in SUBSET P,
             \A p \in P \ Q : Applied[p][d] = 0
      PROVE  PaidBy(P, d) = PaidBy(Q, d)
  <2>1. Q \in SUBSET Payments
    OBVIOUS
  <2>2. \A p \in P \ Q : EntriesOf(d)[p] = 0
    BY <1>5, PaidIsTotal
  <2> QED
    BY <2>1, <2>2, PaidIsTotal, TotalPadded
<1> QED
  BY <1>1, <1>2, <1>3, <1>4, <1>5

\* Adding a payment.
LEMMA PaidWith ==
  ASSUME NEW d \in Docs, NEW P \in SUBSET Payments, NEW q \in Payments, q \notin P
  PROVE  PaidBy(P \cup {q}, d) = Applied[q][d] + PaidBy(P, d)
<1>1. /\ P \cup {q} \in SUBSET Payments /\ q \in P \cup {q}
      /\ (P \cup {q}) \ {q} = P
  OBVIOUS
<1> QED
  BY <1>1, PaidTotals

\* The sums the handlers take, and the committed ones, are of this form.
LEMMA SumsPaid ==
  ASSUME NEW recorded, NEW d \in Docs
  PROVE  SumPaid(recorded)[d] = PaidBy({p \in Payments : recorded[p]}, d)
BY DEF SumPaid, PaidBy

(* With at most one line per document a payment applies the amount of that *)
(* line to it, and nothing to the documents it does not name.              *)
LEMMA AppliedLines ==
  ASSUME OneAllocationEach, NEW q \in Payments, NEW d \in Docs
  PROVE  /\ \A k \in DOMAIN Allocations[q] :
              Allocations[q][k].doc = d => Applied[q][d] = Allocations[q][k].amount
         /\ Applied[q][d] > 0 <=> \E k \in DOMAIN Allocations[q] : Allocations[q][k].doc = d
<1> DEFINE lines == Allocations[q]
           S == {k \in DOMAIN lines : lines[k].doc = d}
           w == [k \in S |-> lines[k].amount]
<1>0. /\ \A k \in DOMAIN lines : lines[k].amount \in Nat \ {0}
      /\ q \in Requests
  <2>1. lines \in Seq(Allocation)
    BY Workload DEF Payments
  <2>2. \A k \in DOMAIN lines : lines[k] \in Allocation
    BY <2>1
  <2> QED
    BY <2>2 DEF Allocation, Payments
<1>1. Applied[q][d] = MapThenSumSet(LAMBDA k : lines[k].amount, S)
  BY DEF Applied, AppliedTo
<1>2. ASSUME NEW k \in DOMAIN lines, lines[k].doc = d
      PROVE  Applied[q][d] = lines[k].amount
  <2>1. S = {k} /\ IsFiniteSet(S) /\ w[k] = lines[k].amount /\ w[k] \in Nat
    <3>1. \A j \in DOMAIN lines : lines[j].doc = d => j = k
      BY <1>2 DEF OneAllocationEach
    <3>2. S = {k}
      BY <1>2, <3>1
    <3>3. IsFiniteSet(S)
      BY <3>2, FS_Singleton
    <3>4. k \in S /\ lines[k].amount \in Nat
      BY <1>0, <1>2
    <3> QED
      BY <3>2, <3>3, <3>4
  <2> HIDE DEF S, w, lines
  <2>2. MapThenSumSet(LAMBDA j : lines[j].amount, S) = Total(w, S)
    BY <2>1, TotalOfAmounts DEF w
  <2>3. Total(w, {k}) = w[k]
    BY <2>1, TotalOfOne
  <2> QED
    BY <1>1, <2>1, <2>2, <2>3
<1>3. ASSUME \A k \in DOMAIN lines : lines[k].doc # d
      PROVE  Applied[q][d] = 0
  <2>1. S = {}
    BY <1>3
  <2>0. IsFiniteSet(S)
    BY <2>1, FS_EmptySet
  <2> HIDE DEF S, w, lines
  <2>2. MapThenSumSet(LAMBDA j : lines[j].amount, S) = Total(w, S)
    BY <2>0, TotalOfAmounts DEF w
  <2> QED
    BY <1>1, <2>1, <2>2, TotalEmpty
<1>4. ASSUME NEW k \in DOMAIN lines, lines[k].doc = d PROVE Applied[q][d] > 0
  BY <1>0, <1>2, <1>4
<1>5. Applied[q][d] > 0 => \E k \in DOMAIN lines : lines[k].doc = d
  BY <1>3
<1> HIDE DEF lines
<1>6. Applied[q][d] > 0 <=> \E k \in DOMAIN lines : lines[k].doc = d
  BY <1>4, <1>5
<1> QED
  BY <1>2, <1>6 DEF lines

-----------------------------------------------------------------------------
(* What the payments and the other requests know of the ledger.            *)

\* The payments that are committed, and those that have tested what is owed.
Recorded == {p \in Payments : payments[p].com}
Tested   == {p \in Payments : tx[p].pc \in Closing \cup {"number", "record", "settle"}}

\* A document has one of its amounts, and only updates write another one.
AmountsInv ==
  \A d \in Docs :
    /\ docs[d].com.amount \in AmountsOf(d) /\ docs[d].cur.amount \in AmountsOf(d)
    /\ docs[d].lock \in Requests /\ Op[docs[d].lock] # "update" =>
         docs[d].cur.amount = docs[d].com.amount

\* What is revised is a draft.
RevisionsInv ==
  \A q \in Requests : Op[q] = "update" /\ tx[q].pc \in {"write", "commit"} =>
    docs[Target[q]].com.status = "draft"

\* What is paid was approved, with the amount the payment has read.
PayersInv ==
  \A p \in Payments :
    /\ payments[p].com => tx[p].pc = "ended"
    /\ \A d \in Docs : Applied[p][d] > 0 =>
         /\ payments[p].com \/ tx[p].pc \in Working => docs[d].com.status \in {"approved", "paid"}
         /\ tx[p].pc \in Working => tx[p].amount[d] = docs[d].com.amount

\* The payments that are committed and those that will be fit the amount.
FitInv ==
  \A d \in Docs :
    /\ PaidBy(Recorded \cup Tested, d) <= docs[d].com.amount
    /\ docs[d].com.status = "paid" => PaidBy(Recorded, d) = docs[d].com.amount

\* A payment that was recorded, or will be next, holds the lock of its series.
HoldersInv ==
  \A p \in Payments : tx[p].pc \in Closing \cup {"record", "settle"} => series[Series[p]] = p

\* A payment settles, or has settled, the documents that it leaves without
\* anything owed, and no others.
SettlerOK(p) ==
  /\ payments[p].lock = p
  /\ tx[p].pc = "settle" <=> tx[p].settle # {}
  /\ \A d \in Docs :
       /\ d \in tx[p].settle \/ docs[d].lock = p => Applied[p][d] > 0
       /\ Applied[p][d] > 0 =>
            (PaidBy(Recorded \cup {p}, d) = docs[d].com.amount
               <=> d \in tx[p].settle \/ docs[d].lock = p)

SettlersInv ==
  \A p \in Payments : tx[p].pc \in Closing \cup {"settle"} => SettlerOK(p)

LedgerInv ==
  /\ AmountsInv /\ RevisionsInv /\ PayersInv /\ FitInv /\ HoldersInv /\ SettlersInv

-----------------------------------------------------------------------------
(* What a step does to a document's amount and status, and to a payment.   *)

LEMMA Written ==
  ASSUME SettlementInv, NEW q \in Requests, NEW d \in Docs,
         \/ InsertInvoice(q) \/ UpdateFields(q) \/ TransitionToPaid(q)
         \/ TransitionToApproved(q) /\ ~Rollback(q)
  PROVE  \/ docs'[d] = docs[d]
         \/ /\ docs[d].lock \in {Nobody, q} /\ docs'[d].lock = q
            /\ docs'[d].com = docs[d].com
            /\ IF UpdateFields(q)
               THEN Op[q] = "update" /\ Target[q] = d /\ docs'[d].cur.amount = NewAmount[q]
               ELSE Op[q] # "update" /\ docs'[d].cur.amount = docs[d].com.amount
<1>0. docs \in [Docs -> Versioned(DocRow, Requests)]
  BY DEF SettlementInv, RowsTyped
<1>1. CASE InsertInvoice(q)
  <2>1. /\ tx[q].pc = "insert" /\ Op[q] = "createInvoice" /\ EntryOK(q, "insert")
        /\ Target[q] \in Docs
    BY <1>1, HandlerNow, Targets DEF InsertInvoice, At, HandlerOK
  <2>2. docs[Target[q]].cur = docs[Target[q]].com /\ docs[Target[q]].lock = Nobody
    BY <2>1 DEF SettlementInv, DocsInv, DocOK, EntryOK
  <2>3. PICK row : /\ row = [docs[Target[q]].com EXCEPT !.status = "draft"]
                   /\ docs' = [docs EXCEPT ![Target[q]] = Put(q, docs[Target[q]], row)]
    BY <1>1, <2>2 DEF InsertInvoice
  <2>4. row.amount = docs[Target[q]].com.amount
    BY <1>0, <2>1, <2>3 DEF Versioned, DocRow
  <2>5. ~UpdateFields(q)
    BY <2>1 DEF UpdateFields, At
  <2> QED
    BY <1>0, <2>1, <2>2, <2>3, <2>4, <2>5 DEF Put
<1>2. CASE UpdateFields(q)
  <2>1. Op[q] = "update" /\ Target[q] \in Docs
    BY <1>2, HandlerNow, Targets DEF UpdateFields, At, HandlerOK
  <2>2. PICK row : /\ row = [docs[Target[q]].cur EXCEPT !.amount = NewAmount[q]]
                   /\ docs' = [docs EXCEPT ![Target[q]] = Put(q, docs[Target[q]], row)]
    BY <1>2 DEF UpdateFields
  <2>3. row.amount = NewAmount[q] /\ docs[Target[q]].lock \in {Nobody, q}
    BY <1>0, <1>2, <2>1, <2>2 DEF Versioned, DocRow, UpdateFields, Lockable
  <2> QED
    BY <1>0, <1>2, <2>1, <2>2, <2>3 DEF Put
<1>3. CASE TransitionToApproved(q) /\ ~Rollback(q)
  <2> DEFINE row == [docs[Target[q]].cur EXCEPT !.status = "approved"]
  <2>1. /\ row.amount = docs[Target[q]].com.amount /\ docs[Target[q]].lock = Nobody
        /\ docs' = [docs EXCEPT ![Target[q]] = Put(q, docs[Target[q]], row)]
    BY <1>3, ApprovedRow
  <2>2. tx[q].pc = "casApproved" /\ Op[q] = "approveInvoice"
    BY <1>3, ApprovedRow
  <2>3. ~UpdateFields(q)
    BY <2>2 DEF UpdateFields, At
  <2> HIDE DEF row
  <2> QED
    BY <1>0, <2>1, <2>2, <2>3 DEF Put
<1>4. CASE TransitionToPaid(q)
  <2>1. tx[q].pc = "settle" /\ Op[q] = "pay"
    BY <1>4, PaidIs
  <2> DEFINE row == [docs[NextDoc(q)].cur EXCEPT !.status = "paid"]
  <2>2. \/ UNCHANGED docs
        \/ /\ row.amount = docs[NextDoc(q)].com.amount /\ docs[NextDoc(q)].lock = Nobody
           /\ docs' = [docs EXCEPT ![NextDoc(q)] = Put(q, docs[NextDoc(q)], row)]
    BY <1>4, PaidIs
  <2>3. ~UpdateFields(q)
    BY <2>1 DEF UpdateFields, At
  <2> HIDE DEF row
  <2> QED
    BY <1>0, <2>1, <2>2, <2>3 DEF Put
<1> QED
  BY <1>1, <1>2, <1>3, <1>4

LEMMA AmountsStep ==
  ASSUME SettlementInv, AmountsInv, NEW q \in Requests, Moves(q)
  PROVE  AmountsInv'
<1> SUFFICES ASSUME NEW d \in Docs
    PROVE  /\ docs'[d].com.amount \in AmountsOf(d) /\ docs'[d].cur.amount \in AmountsOf(d)
           /\ docs'[d].lock \in Requests /\ Op[docs'[d].lock] # "update" =>
                docs'[d].cur.amount = docs'[d].com.amount
  BY DEF AmountsInv, AmountsOf
<1>1. /\ docs[d].com.amount \in AmountsOf(d) /\ docs[d].cur.amount \in AmountsOf(d)
      /\ docs[d].lock \in Requests /\ Op[docs[d].lock] # "update" =>
           docs[d].cur.amount = docs[d].com.amount
  BY DEF AmountsInv
<1>2. CASE docs'[d] = docs[d]
  BY <1>1, <1>2
<1>3. CASE /\ docs[d].lock = q /\ docs'[d].lock = Nobody
           /\ docs'[d].cur = docs'[d].com
           /\ docs'[d].com \in {docs[d].com, docs[d].cur}
  BY <1>1, <1>3, Workload
<1>4. CASE /\ docs'[d].lock = q /\ docs'[d].com = docs[d].com
           /\ IF UpdateFields(q)
              THEN Op[q] = "update" /\ Target[q] = d /\ docs'[d].cur.amount = NewAmount[q]
              ELSE Op[q] # "update" /\ docs'[d].cur.amount = docs[d].com.amount
  BY <1>1, <1>4 DEF AmountsOf
<1> QED
  BY <1>2, <1>3, <1>4, DocCarries, Written

\* A document's committed row changes by the commit of the request that has
\* locked it, in the way of that request.
LEMMA RowNext ==
  ASSUME SettlementInv, AmountsInv, NEW q \in Requests, Moves(q), NEW d \in Docs
  PROVE  \/ docs'[d].com = docs[d].com /\ (Commit(q) => docs[d].lock # q)
         \/ /\ Commit(q) /\ docs[d].lock = q /\ docs'[d].com = docs[d].cur
            /\ \/ /\ Op[q] = "createInvoice" /\ Target[q] = d
                  /\ docs[d].com.status = "none" /\ docs'[d].com.status = "draft"
                  /\ docs'[d].com.amount = docs[d].com.amount
               \/ /\ Op[q] = "update" /\ Target[q] = d
                  /\ docs'[d].com.status = docs[d].com.status
               \/ /\ Op[q] = "approveInvoice" /\ Target[q] = d
                  /\ docs[d].com.status = "draft" /\ docs'[d].com.status = "approved"
                  /\ docs'[d].com.amount = docs[d].com.amount
               \/ /\ Op[q] = "pay"
                  /\ docs[d].com.status = "approved" /\ docs'[d].com.status = "paid"
                  /\ docs'[d].com.amount = docs[d].com.amount
<1>1. CASE Commit(q) /\ docs[d].lock = q
  <2>1. docs'[d].com = docs[d].cur
    BY <1>1, CommitRows, EndedRow
  <2>2. /\ HeldDoc(q, tx[q].pc, d, docs[d])
        /\ Op[q] # "update" => docs[d].cur.amount = docs[d].com.amount
    BY <1>1, Workload DEF SettlementInv, DocsInv, DocOK, AmountsInv
  <2> QED
    BY <1>1, <2>1, <2>2 DEF HeldDoc
<1>2. CASE Commit(q) /\ docs[d].lock # q
  BY <1>2, CommitRows, EndedRow
<1>3. CASE ~Commit(q)
  BY <1>3, DocCarries
<1> QED
  BY <1>1, <1>2, <1>3

LEMMA LocksNext ==
  ASSUME SettlementInv, NEW q \in Requests, Moves(q), NEW d \in Docs,
         NEW p \in Requests, p # q
  PROVE  docs'[d].lock = p <=> docs[d].lock = p
<1>0. p # Nobody
  BY Workload
<1>1. CASE docs'[d] = docs[d]
  BY <1>1
<1>2. CASE docs[d].lock = q /\ docs'[d].lock = Nobody
  BY <1>0, <1>2
<1>3. CASE docs[d].lock \in {Nobody, q} /\ docs'[d].lock = q
  BY <1>0, <1>3
<1> QED
  BY <1>1, <1>2, <1>3, DocCarries, Written

\* The row of a payment is its own.
LEMMA PaymentNext ==
  ASSUME SettlementInv, NEW q \in Requests, Moves(q), NEW p \in Payments
  PROVE  \/ payments'[p] = payments[p] /\ ((Rollback(q) \/ Commit(q)) => payments[p].lock # q)
         \/ /\ p = q /\ Rollback(q) /\ payments[p].lock = q
            /\ payments'[p].com = payments[p].com
         \/ /\ p = q /\ Commit(q) /\ payments[p].lock = q /\ payments'[p].com
         \/ /\ p = q /\ RecordPayment(q)
            /\ payments'[p].com = payments[p].com /\ payments'[p].lock = q
<1>0. /\ payments \in [Payments -> Versioned(BOOLEAN, Requests)]
      /\ PaymentOK(p) /\ q # Nobody
  BY Workload DEF SettlementInv, RowsTyped, PaymentsInv
<1>1. CASE Rollback(q)
  <2>1. payments'[p] = RolledBack(q, payments[p])
    BY <1>1, RollbackRows
  <2> QED
    BY <1>0, <1>1, <2>1, EndedRow DEF PaymentOK
<1>2. CASE Commit(q)
  <2>1. payments'[p] = Committed(q, payments[p])
    BY <1>2, CommitRows
  <2>2. payments[p].lock = q => p = q /\ payments[p].cur
    BY <1>0 DEF PaymentOK
  <2> QED
    BY <1>2, <2>1, <2>2, EndedRow
<1>3. CASE RecordPayment(q) /\ ~Rollback(q) /\ ~Commit(q)
  BY <1>0, <1>3 DEF RecordPayment, Put
<1>4. CASE ~RecordPayment(q) /\ ~Rollback(q) /\ ~Commit(q)
  <2>1. CASE Begins(q) \/ Checks(q) \/ Rechecks(q)
    BY <1>4, <2>1 DEF Begins, Checks, Rechecks, tables, MaybeAutoClose
  <2>2. CASE Writes(q)
    BY <1>4, <2>2 DEF Writes, InsertInvoice, UpdateFields, TransitionToApproved,
       TransitionToCancelled, TransitionToPaid
  <2>3. CASE Ends(q)
    BY <1>4, <2>3 DEF Ends, Deliver
  <2> QED
    BY <2>1, <2>2, <2>3 DEF Moves
<1> QED
  BY <1>1, <1>2, <1>3, <1>4

\* The steps of a payment.
LEMMA PayerNext ==
  ASSUME SettlementInv, NEW q \in Requests, Moves(q), Op[q] = "pay"
  PROVE  \/ /\ tx[q].pc = "new" /\ tx'[q].pc = "checkOutstanding"
            /\ Pay(q) /\ ~Rollback(q) /\ UNCHANGED tables
         \/ /\ tx[q].pc = "checkOutstanding" /\ To(q, "number")
            /\ CheckOutstanding(q) /\ ~Rollback(q) /\ UNCHANGED tables
         \/ /\ tx[q].pc = "number" /\ To(q, "record")
            /\ NextNumber(q) /\ UNCHANGED <<docs, payments>>
         \/ RecordPayment(q) /\ tx[q].pc = "record"
         \/ TransitionToPaid(q) /\ tx[q].pc = "settle"
         \/ /\ tx[q].pc \in {"sumDelivered", "sumInvoiced", "close"}
            /\ tx'[q].pc \in Closing
            /\ tx'[q].amount = tx[q].amount /\ tx'[q].settle = tx[q].settle
            /\ UNCHANGED <<docs, payments, series>>
         \/ Rollback(q) /\ tx[q].pc # "ended" /\ tx'[q] = TxAt("new")
         \/ Commit(q) /\ tx[q].pc = "commit" /\ tx'[q] = TxAt("ended")
<1>0. tx \in [Requests -> TxState] /\ HandlerOK(q, tx[q])
  BY HandlerNow
<1>1. CASE Begins(q)
  BY <1>1 DEF Begins
<1>2. CASE Checks(q)
  BY <1>0, <1>2 DEF Checks, HandlerOK
<1>3. CASE Writes(q)
  BY <1>0, <1>3 DEF Writes, HandlerOK
<1>4. CASE SumDeliveries(q)
  <2>1. /\ tx[q].pc = "sumDelivered" /\ UNCHANGED tables
        /\ \E sums : tx' = [tx EXCEPT ![q].pc = "sumInvoiced", ![q].delivered = sums]
    BY <1>4 DEF SumDeliveries, At
  <2> QED
    BY <1>0, <2>1 DEF TxState, Closing, tables
<1>5. CASE SumInvoices(q)
  <2>1. tx[q].pc = "sumInvoiced" /\ UNCHANGED tables
    BY <1>5 DEF SumInvoices, At
  <2>2. CASE Goto(q, "close")
    BY <1>0, <2>1, <2>2 DEF Goto, TxState, Closing, tables
  <2>3. CASE ~Goto(q, "close")
    <3>1. \E rest : tx' = [tx EXCEPT ![q].pc = AfterSales(rest), ![q].recheck = rest]
      BY <1>5, <2>3 DEF SumInvoices
    <3> QED
      BY <1>0, <2>1, <3>1 DEF TxState, Closing, AfterSales, tables
  <2> QED
    BY <2>2, <2>3
<1>6. CASE MaybeAutoClose(q)
  <2>1. /\ tx[q].pc = "close" /\ UNCHANGED <<docs, payments, series>>
        /\ \E rest : tx' = [tx EXCEPT ![q].pc = AfterSales(rest), ![q].recheck = rest]
    BY <1>6 DEF MaybeAutoClose, At
  <2> QED
    BY <1>0, <2>1 DEF TxState, Closing, AfterSales
<1>7. CASE Ends(q)
  BY <1>7 DEF Ends, Deliver, CanBegin
<1> QED
  BY <1>1, <1>2, <1>3, <1>4, <1>5, <1>6, <1>7 DEF Moves, Rechecks

\* A document that was approved keeps its amount, and a paid one stays paid.
LEMMA RowKeeps ==
  ASSUME SettlementInv, AmountsInv, RevisionsInv, NEW q \in Requests, Moves(q),
         NEW d \in Docs, docs[d].com.status \in {"approved", "paid"}
  PROVE  /\ docs'[d].com.status \in {"approved", "paid"}
         /\ docs'[d].com.amount = docs[d].com.amount
         /\ docs[d].com.status = "paid" => docs'[d].com.status = "paid"
<1>1. ~(Commit(q) /\ Op[q] = "update" /\ Target[q] = d)
  BY DEF RevisionsInv, Commit, At
<1> QED
  BY <1>1, RowNext

\* Before its first write a request has locked no document.
LEMMA NothingHeld ==
  ASSUME SettlementInv, NEW q \in Requests, NEW d \in Docs,
         tx[q].pc \notin Closing \cup {"settle"}
  PROVE  docs[d].lock # q
<1>1. DocOK(d) /\ q # Nobody
  BY Workload DEF SettlementInv, DocsInv
<1> QED
  BY <1>1 DEF DocOK, HeldDoc, Closing

LEMMA RevisionsStep ==
  ASSUME RevisionsApart, SettlementInv, Apart, AmountsInv, RevisionsInv,
         NEW q \in Requests, Moves(q)
  PROVE  RevisionsInv'
<1> SUFFICES ASSUME NEW r \in Requests, Op[r] = "update", tx'[r].pc \in {"write", "commit"}
             PROVE  docs'[Target[r]].com.status = "draft"
  BY DEF RevisionsInv
<1>0. Target[r] \in Docs
  BY Targets
<1>1. CASE tx[r].pc \in {"write", "commit"}
  <2>1. docs[Target[r]].com.status = "draft" /\ r \in Open
    BY <1>1 DEF RevisionsInv, Open, Working
  <2>2. ~(Commit(q) /\ Op[q] = "approveInvoice" /\ Target[q] = Target[r])
    <3> SUFFICES ASSUME Commit(q), Op[q] = "approveInvoice", Target[q] = Target[r]
                 PROVE  FALSE
      OBVIOUS
    <3>1. q \in Open /\ q # r /\ {r, q} \in Conflicts
      BY DEF Open, Working, Commit, At, RevisionsApart
    <3> QED
      BY <2>1, <3>1 DEF Apart
  <2> QED
    BY <1>0, <2>1, <2>2, RowNext
<1>2. CASE tx[r].pc \notin {"write", "commit"}
  <2>1. r = q /\ HandlerOK(q, tx[q])
    BY <1>2, HandlerNow DEF Moves
  <2>2. Begins(q)
    BY <1>2, <2>1 DEF Moves, HandlerOK, Checks, Writes, Rechecks, Ends, To, TxAt
  <2>3. Update(q) /\ ~Rollback(q) /\ UNCHANGED tables /\ tx[q].pc = "new"
    BY <2>1, <2>2 DEF Begins
  <2>4. Seen(q, docs[Target[q]]).status = "draft" /\ docs' = docs
    BY <2>3 DEF Update, DraftOnly, tables
  <2>5. docs[Target[q]].lock # q
    BY <1>0, <2>1, <2>3, NothingHeld DEF Closing
  <2> QED
    BY <2>1, <2>4, <2>5 DEF Seen
<1> QED
  BY <1>1, <1>2

LEMMA PayersStep ==
  ASSUME OneAllocationEach, SettlementInv, AmountsInv, RevisionsInv, PayersInv,
         NEW q \in Requests, Moves(q)
  PROVE  PayersInv'
<1> SUFFICES ASSUME NEW p \in Payments
             PROVE  /\ payments'[p].com => tx'[p].pc = "ended"
                    /\ \A d \in Docs : Applied[p][d] > 0 =>
                         /\ payments'[p].com \/ tx'[p].pc \in Working =>
                              docs'[d].com.status \in {"approved", "paid"}
                         /\ tx'[p].pc \in Working => tx'[p].amount[d] = docs'[d].com.amount
  BY DEF PayersInv
<1>0. /\ payments[p].com => tx[p].pc = "ended"
      /\ \A d \in Docs : Applied[p][d] > 0 =>
           /\ payments[p].com \/ tx[p].pc \in Working => docs[d].com.status \in {"approved", "paid"}
           /\ tx[p].pc \in Working => tx[p].amount[d] = docs[d].com.amount
  BY DEF PayersInv
<1>1. CASE p # q
  <2>1. tx'[p] = tx[p] /\ payments'[p].com = payments[p].com
    BY <1>1, PaymentNext DEF Moves, Payments
  <2> QED
    BY <1>0, <2>1, RowKeeps
<1>2. CASE p = q
  <2>0. Op[q] = "pay"
    BY <1>2 DEF Payments
  <2>1. CASE /\ tx[q].pc = "new" /\ tx'[q].pc = "checkOutstanding"
             /\ Pay(q) /\ ~Rollback(q) /\ UNCHANGED tables
    <3>1. ~payments'[p].com
      BY <1>0, <1>2, <2>1 DEF tables
    <3>2. ASSUME NEW d \in Docs, Applied[p][d] > 0
          PROVE  docs[d].com.status = "approved" /\ tx'[q].amount[d] = docs[d].com.amount
      <4>1. PICK k \in DOMAIN Allocations[q] : Allocations[q][k].doc = d
        BY <1>2, <3>2, AppliedLines
      <4>2. Seen(q, docs[d]).status = "approved"
        BY <2>1, <4>1, PayIs
      <4>3. tx'[q].amount[d] = Seen(q, docs[d]).amount
        <5>1. PICK t \in TxState : /\ t.amount[d] = Seen(q, docs[d]).amount
                                   /\ tx' = [tx EXCEPT ![q] = t]
          BY <2>1, PayIs
        <5> QED
          BY <5>1, Takes
      <4>4. docs[d].lock # q
        BY <2>1, NothingHeld DEF Closing
      <4> QED
        BY <4>2, <4>3, <4>4 DEF Seen
    <3> QED
      BY <1>2, <2>1, <3>1, <3>2 DEF tables
  <2>2. CASE tx[q].pc \in Working /\ tx'[q].pc \in Working /\ tx'[q].amount = tx[q].amount /\ ~Commit(q)
    <3>1. payments'[q].com = payments[q].com /\ ~payments[q].com
      BY <1>0, <1>2, <2>2, PaymentNext DEF Working
    <3> QED
      BY <1>0, <1>2, <2>2, <3>1, RowKeeps
  <2>3. CASE Rollback(q) /\ tx[q].pc # "ended" /\ tx'[q] = TxAt("new")
    <3>1. payments'[q].com = payments[q].com /\ ~payments[q].com
      BY <1>0, <1>2, <2>3, RollbackRows, EndedRow
    <3> QED
      BY <1>2, <2>3, <3>1 DEF TxAt, Working
  <2>4. CASE Commit(q) /\ tx[q].pc = "commit" /\ tx'[q] = TxAt("ended")
    <3>1. tx[q].pc \in Working
      BY <2>4 DEF Working
    <3> QED
      BY <1>0, <1>2, <2>4, <3>1, RowKeeps DEF TxAt, Working
  <2>5. CASE \/ tx[q].pc = "checkOutstanding" /\ To(q, "number") /\ CheckOutstanding(q)
             \/ tx[q].pc = "number" /\ To(q, "record") /\ NextNumber(q)
    <3>1. /\ tx'[q].pc \in {"number", "record"} /\ tx'[q].amount = tx[q].amount
          /\ tx[q].pc # "commit"
      BY <2>5, HandlerNow DEF To, TxState
    <3> QED
      BY <2>2, <2>5, <3>1 DEF Working, Commit, At
  <2>6. CASE RecordPayment(q)
    <3>1. tx[q].pc = "record"
      BY <2>6, RecordIs
    <3>2. PICK t \in TxState : /\ t.pc \in {"settle", "sumDelivered", "commit"}
                               /\ t.amount = tx[q].amount /\ tx' = [tx EXCEPT ![q] = t]
      BY <2>6, RecordIs
    <3>3. tx'[q] = t
      BY <3>2, Takes
    <3> QED
      BY <2>2, <3>1, <3>2, <3>3 DEF Working, Commit, At
  <2>7. CASE TransitionToPaid(q)
    <3>1. tx[q].pc = "settle"
      BY <2>7, PaidIs
    <3>2. PICK t \in TxState : /\ t.pc \in {"settle", "sumDelivered", "commit"}
                               /\ t.amount = tx[q].amount /\ tx' = [tx EXCEPT ![q] = t]
      BY <2>7, PaidIs
    <3>3. tx'[q] = t
      BY <3>2, Takes
    <3> QED
      BY <2>2, <3>1, <3>2, <3>3 DEF Working, Commit, At
  <2>8. CASE /\ tx[q].pc \in {"sumDelivered", "sumInvoiced", "close"}
             /\ tx'[q].pc \in Closing /\ tx'[q].amount = tx[q].amount
    BY <2>2, <2>8 DEF Working, Closing, Commit, At
  <2> QED
    BY <2>0, <2>1, <2>3, <2>4, <2>5, <2>6, <2>7, <2>8, PayerNext
<1> QED
  BY <1>1, <1>2

LEMMA RecordedNext ==
  ASSUME SettlementInv, SettlersInv, NEW q \in Requests, Moves(q)
  PROVE  /\ Commit(q) /\ q \in Payments => Recorded' = Recorded \cup {q}
         /\ ~(Commit(q) /\ q \in Payments) => Recorded' = Recorded
<1>0. \A p \in Payments \ {q} : payments'[p].com <=> payments[p].com
  BY PaymentNext
<1>1. ASSUME Commit(q), q \in Payments PROVE payments'[q].com
  <2>1. payments[q].lock = q
    BY <1>1 DEF SettlersInv, SettlerOK, Commit, At, Closing
  <2>2. payments[q].cur /\ payments'[q] = Committed(q, payments[q])
    BY <1>1, <2>1, Workload, CommitRows DEF SettlementInv, PaymentsInv, PaymentOK
  <2> QED
    BY <2>1, <2>2, EndedRow
<1>2. ASSUME ~Commit(q), q \in Payments PROVE payments'[q].com <=> payments[q].com
  BY <1>2, PaymentNext
<1> QED
  BY <1>0, <1>1, <1>2 DEF Recorded

LEMMA TestedNext ==
  ASSUME SettlementInv, NEW q \in Requests, Moves(q)
  PROVE  /\ Tested' \subseteq Tested \cup {q}
         /\ q \in Tested' \ Tested =>
              /\ q \in Payments /\ tx[q].pc = "checkOutstanding"
              /\ CheckOutstanding(q) /\ ~Rollback(q) /\ UNCHANGED tables
         /\ Commit(q) /\ q \in Payments => q \in Tested /\ q \notin Tested'
<1>1. Tested' \subseteq Tested \cup {q}
  BY DEF Tested, Moves, Payments
<1>2. ASSUME q \in Tested', q \notin Tested
      PROVE  /\ q \in Payments /\ tx[q].pc = "checkOutstanding"
             /\ CheckOutstanding(q) /\ ~Rollback(q) /\ UNCHANGED tables
  <2>1. q \in Payments /\ Op[q] = "pay"
    BY <1>2 DEF Tested, Payments
  <2> QED
    BY <1>2, <2>1, PayerNext DEF Tested, Closing, TxAt
<1>3. ASSUME Commit(q), q \in Payments PROVE q \in Tested /\ q \notin Tested'
  <2>1. tx[q].pc = "commit" /\ tx'[q] = TxAt("ended")
    BY <1>3, Finishes DEF Commit, At
  <2> QED
    BY <1>3, <2>1 DEF Tested, Closing, TxAt
<1> QED
  BY <1>1, <1>2, <1>3

\* What a payment has found to fit, fits with everything else that does.
LEMMA FoundOwed ==
  ASSUME OverlapsFit, OneAllocationEach, SettlementInv, Apart, AmountsInv, PayersInv, FitInv,
         NEW q \in Payments, tx[q].pc = "checkOutstanding",
         CheckOutstanding(q), ~Rollback(q), NEW d \in Docs
  PROVE  PaidBy(Recorded \cup Tested \cup {q}, d) <= docs[d].com.amount
<1>0. /\ q \in Requests /\ q \in Open /\ q \notin Recorded
      /\ Recorded \in SUBSET Payments /\ Tested \in SUBSET Payments
      /\ docs[d].com.amount \in AmountsOf(d) /\ docs[d].com.amount \in Nat
  <2>1. docs[d] \in Versioned(DocRow, Requests)
    BY DEF SettlementInv, RowsTyped
  <2> QED
    BY <2>1 DEF Payments, Open, Working, Recorded, PayersInv, Tested, AmountsInv,
       Versioned, DocRow
<1>1. PaidBy(Recorded \cup Tested, d) <= docs[d].com.amount
  BY DEF FitInv
<1>2. CASE Applied[q][d] = 0
  <2>1. PaidBy(Recorded \cup Tested \cup {q}, d) = PaidBy(Recorded \cup Tested, d)
    <3>1. /\ Recorded \cup Tested \cup {q} \in SUBSET Payments
          /\ Recorded \cup Tested \in SUBSET (Recorded \cup Tested \cup {q})
          /\ \A p \in (Recorded \cup Tested \cup {q}) \ (Recorded \cup Tested) :
               Applied[p][d] = 0
      BY <1>0, <1>2
    <3> QED
      BY <3>1, PaidTotals
  <2> QED
    BY <1>1, <2>1
<1>3. CASE Applied[q][d] # 0
  <2>0. Applied[q][d] \in Nat /\ Applied[q][d] > 0
    BY <1>3, AppliedType
  <2>1. PICK k \in DOMAIN Allocations[q] :
          Allocations[q][k].doc = d /\ Applied[q][d] = Allocations[q][k].amount
    BY <2>0, AppliedLines
  <2>2. FitsOutstanding(Allocations[q], tx[q].amount, SumPaid(SeenAll(q, payments)))
    BY DEF CheckOutstanding
  <2>3. Applied[q][d] <= tx[q].amount[d] - SumPaid(SeenAll(q, payments))[d]
    BY <2>1, <2>2 DEF FitsOutstanding
  <2>4. SumPaid(SeenAll(q, payments))[d] = PaidBy(Recorded, d)
    <3>1. ASSUME NEW p \in Payments PROVE SeenAll(q, payments)[p] <=> payments[p].com
      <4>1. payments[p].lock # q
        BY <1>0, Workload DEF SettlementInv, PaymentsInv, PaymentOK, Closing
      <4>2. DOMAIN payments = Payments
        BY DEF SettlementInv, RowsTyped
      <4> QED
        BY <4>1, <4>2 DEF SeenAll, Seen
    <3>2. {p \in Payments : SeenAll(q, payments)[p]} = Recorded
      BY <3>1 DEF Recorded
    <3> QED
      BY <3>2, SumsPaid
  <2>5. tx[q].amount[d] = docs[d].com.amount
    BY <2>0, <1>0 DEF PayersInv, Open
  <2>6. PaidBy(Recorded \cup {q}, d) <= docs[d].com.amount
    <3>1. PaidBy(Recorded \cup {q}, d) = Applied[q][d] + PaidBy(Recorded, d)
      BY <1>0, PaidWith
    <3>2. PaidBy(Recorded, d) \in Nat
      BY <1>0, PaidTotals
    <3> QED
      BY <1>0, <2>0, <2>3, <2>4, <2>5, <3>1, <3>2
  <2> DEFINE P == Tested \cup {q}
  <2>7. ASSUME NEW p \in P PROVE PaidBy(Recorded \cup {p}, d) <= docs[d].com.amount
    <3>1. CASE p = q
      BY <2>6, <3>1
    <3>2. CASE p \in Tested
      <4>1. /\ Recorded \cup Tested \in SUBSET Payments
            /\ Recorded \cup {p} \in SUBSET (Recorded \cup Tested)
            /\ Recorded \cup {p} \in SUBSET Payments
        BY <1>0, <3>2
      <4>2. /\ PaidBy(Recorded \cup {p}, d) <= PaidBy(Recorded \cup Tested, d)
            /\ PaidBy(Recorded \cup {p}, d) \in Nat /\ PaidBy(Recorded \cup Tested, d) \in Nat
        BY <4>1, PaidTotals
      <4> QED
        BY <1>0, <1>1, <4>2
    <3> QED
      BY <3>1, <3>2
  <2>8. \A p, r \in P : p # r => {p, r} \notin Conflicts
    <3>1. P \subseteq Open
      BY <1>0 DEF Tested, Open, Working, Closing, Payments
    <3> QED
      BY <3>1 DEF Apart
  <2>9. P \in SUBSET Payments /\ P # {} /\ Recorded \cup P = Recorded \cup Tested \cup {q}
    BY <1>0
  <2> HIDE DEF P
  <2>10. PaidBy(Recorded \cup P, d) <= docs[d].com.amount
    BY <1>0, <2>7, <2>8, <2>9 DEF OverlapsFit
  <2> QED
    BY <2>9, <2>10
<1> QED
  BY <1>2, <1>3

LEMMA FitStep ==
  ASSUME OverlapsFit, OneAllocationEach, SettlementInv, Apart, AmountsInv, RevisionsInv,
         PayersInv, FitInv, SettlersInv, NEW q \in Requests, Moves(q), SettlementInv'
  PROVE  FitInv'
<1> DEFINE A == Recorded \cup Tested
           B == Recorded' \cup Tested'
<1>0. /\ A \in SUBSET Payments /\ B \in SUBSET Payments
      /\ Recorded \in SUBSET A /\ Recorded' \in SUBSET B /\ Recorded \in SUBSET Recorded'
      /\ Recorded \in SUBSET Payments /\ Recorded' \in SUBSET Payments
  BY RecordedNext DEF Recorded, Tested, Payments
<1> SUFFICES ASSUME NEW d \in Docs
             PROVE  /\ PaidBy(B, d) <= docs'[d].com.amount
                    /\ docs'[d].com.status = "paid" => PaidBy(Recorded', d) = docs'[d].com.amount
  BY DEF FitInv
<1>1. /\ PaidBy(A, d) <= docs[d].com.amount
      /\ docs[d].com.status = "paid" => PaidBy(Recorded, d) = docs[d].com.amount
  BY DEF FitInv
<1>2. docs[d].com.amount \in Nat /\ docs'[d].com.amount \in Nat
  <2>1. docs[d] \in Versioned(DocRow, Requests) /\ docs'[d] \in Versioned(DocRow, Requests)
    BY DEF SettlementInv, RowsTyped
  <2> QED
    BY <2>1 DEF Versioned, DocRow
<1>3. PaidBy(B, d) <= docs'[d].com.amount
  <2>1. CASE q \in Tested' \ Tested
    <3>1. /\ q \in Payments /\ tx[q].pc = "checkOutstanding"
          /\ CheckOutstanding(q) /\ ~Rollback(q) /\ UNCHANGED tables
      BY <2>1, TestedNext
    <3>2. ~Commit(q) /\ docs' = docs
      BY <3>1 DEF Commit, At, tables
    <3>3. B \in SUBSET (A \cup {q})
      BY <3>2, RecordedNext, TestedNext
    <3>4. PaidBy(A \cup {q}, d) <= docs[d].com.amount
      BY <3>1, FoundOwed
    <3>5. A \cup {q} \in SUBSET Payments
      BY <1>0, <3>1
    <3> HIDE DEF A, B
    <3>6. /\ PaidBy(B, d) <= PaidBy(A \cup {q}, d)
          /\ PaidBy(B, d) \in Nat /\ PaidBy(A \cup {q}, d) \in Nat
      BY <1>0, <3>3, <3>5, PaidTotals
    <3> QED
      BY <1>2, <3>2, <3>4, <3>6
  <2>2. CASE q \notin Tested' \ Tested
    <3>1. B \in SUBSET A
      BY <2>2, RecordedNext, TestedNext
    <3>2. CASE docs[d].com.status \in {"approved", "paid"}
      <4>1. docs'[d].com.amount = docs[d].com.amount
        BY <3>2, RowKeeps
      <4> HIDE DEF A, B
      <4>2. PaidBy(B, d) <= PaidBy(A, d) /\ PaidBy(B, d) \in Nat /\ PaidBy(A, d) \in Nat
        BY <1>0, <3>1, PaidTotals
      <4> QED
        BY <1>1, <1>2, <4>1, <4>2
    <3>3. CASE docs[d].com.status \notin {"approved", "paid"}
      <4>1. ASSUME NEW p \in A PROVE Applied[p][d] = 0
        <5>1. p \in Payments /\ Applied[p][d] \in Nat
          BY <1>0, AppliedType
        <5>2. payments[p].com \/ tx[p].pc \in Working
          BY <4>1 DEF Recorded, Tested, Closing, Working
        <5> QED
          BY <3>3, <5>1, <5>2 DEF PayersInv
      <4> HIDE DEF A, B
      <4>2. \A p \in B \ {} : Applied[p][d] = 0
        BY <3>1, <4>1
      <4>3. PaidBy(B, d) = 0
        BY <1>0, <4>2, PaidTotals
      <4> QED
        BY <1>2, <4>3
    <3> QED
      BY <3>2, <3>3
  <2> QED
    BY <2>1, <2>2
<1>4. ASSUME docs'[d].com.status = "paid"
      PROVE  PaidBy(Recorded', d) = docs'[d].com.amount
  <2>1. CASE docs[d].com.status = "paid"
    <3>1. docs'[d].com.amount = docs[d].com.amount
      BY <2>1, RowKeeps
    <3> HIDE DEF B
    <3>2. /\ PaidBy(Recorded, d) <= PaidBy(Recorded', d)
          /\ PaidBy(Recorded', d) <= PaidBy(B, d)
          /\ PaidBy(Recorded, d) \in Nat /\ PaidBy(Recorded', d) \in Nat /\ PaidBy(B, d) \in Nat
      BY <1>0, PaidTotals
    <3> QED
      BY <1>1, <1>2, <1>3, <2>1, <3>1, <3>2
  <2>2. CASE docs[d].com.status # "paid"
    <3>1. /\ Commit(q) /\ docs[d].lock = q /\ Op[q] = "pay"
          /\ docs'[d].com.amount = docs[d].com.amount
      BY <1>4, <2>2, RowNext
    <3>2. q \in Payments /\ SettlerOK(q)
      BY <3>1 DEF Payments, SettlersInv, Commit, At, Closing
    <3>3. PaidBy(Recorded \cup {q}, d) = docs[d].com.amount
      BY <3>1, <3>2 DEF SettlerOK
    <3>4. Recorded' = Recorded \cup {q}
      BY <3>1, <3>2, RecordedNext
    <3> QED
      BY <3>1, <3>3, <3>4
  <2> QED
    BY <2>1, <2>2
<1> QED
  BY <1>3, <1>4

LEMMA SeriesNext ==
  ASSUME SettlementInv, NEW q \in Requests, Moves(q), NEW n \in AllSeries
  PROVE  \/ series'[n] = series[n]
         \/ /\ NextNumber(q) /\ tx[q].pc = "number" /\ n = Series[q]
            /\ series[n] \in {Nobody, q} /\ series'[n] = q
         \/ (Rollback(q) \/ Commit(q)) /\ series[n] = q /\ series'[n] = Nobody
<1>0. series \in [AllSeries -> Requests \cup {Nobody}]
  BY DEF SettlementInv, RowsTyped
<1>1. CASE Rollback(q) \/ Commit(q)
  BY <1>0, <1>1 DEF Rollback, Commit, ReleaseSeries
<1>2. CASE NextNumber(q)
  BY <1>0, <1>2 DEF NextNumber, SeriesIsFree, At
<1>3. CASE ~NextNumber(q) /\ ~Rollback(q) /\ ~Commit(q)
  <2>1. CASE Begins(q) \/ Checks(q) \/ Rechecks(q)
    BY <1>3, <2>1 DEF Begins, Checks, Rechecks, tables, MaybeAutoClose
  <2>2. CASE Writes(q)
    <3>1. TransitionToCancelled(q) /\ ~Rollback(q) => UNCHANGED series
      BY DEF TransitionToCancelled
    <3> QED
      BY <1>3, <2>2, <3>1 DEF Writes, InsertInvoice, UpdateFields, TransitionToApproved,
         RecordPayment, TransitionToPaid
  <2>3. CASE Ends(q)
    BY <1>3, <2>3 DEF Ends, Deliver
  <2> QED
    BY <2>1, <2>2, <2>3 DEF Moves
<1> QED
  BY <1>1, <1>2, <1>3

LEMMA HoldersStep ==
  ASSUME SettlementInv, HoldersInv, NEW q \in Requests, Moves(q)
  PROVE  HoldersInv'
<1> SUFFICES ASSUME NEW p \in Payments, tx'[p].pc \in Closing \cup {"record", "settle"}
             PROVE  series'[Series[p]] = p
  BY DEF HoldersInv
<1>0. p \in Requests /\ p # Nobody /\ Op[p] = "pay" /\ Series[p] \in AllSeries
  BY Workload DEF Payments, AllSeries
<1>1. CASE p # q
  <2>1. series[Series[p]] = p
    BY <1>0, <1>1 DEF HoldersInv, Moves
  <2> QED
    BY <1>0, <1>1, <2>1, SeriesNext
<1>2. CASE p = q
  <2>1. CASE tx[q].pc = "number" /\ To(q, "record") /\ NextNumber(q)
    BY <1>0, <1>2, <2>1 DEF NextNumber, SettlementInv, RowsTyped
  <2>2. CASE tx[q].pc \in Closing \cup {"record", "settle"} /\ ~Rollback(q) /\ ~Commit(q)
    <3>1. series[Series[p]] = p
      BY <1>2, <2>2 DEF HoldersInv
    <3> QED
      BY <1>0, <1>2, <2>2, <3>1, SeriesNext DEF Closing
  <2>3. tx[q].pc \in Closing \cup {"record", "settle"} \/ (tx[q].pc = "number" /\ To(q, "record") /\ NextNumber(q))
    <3>1. To(q, "number") => tx'[q].pc = "number"
      BY <1>0, <1>2, HandlerNow DEF To, TxState
    <3>2. tx'[q] = TxAt("new") \/ tx'[q] = TxAt("ended") => tx'[q].pc \in {"new", "ended"}
      BY DEF TxAt
    <3> QED
      BY <1>0, <1>2, <3>1, <3>2, PayerNext DEF Closing
  <2>4. ~Rollback(q) /\ ~Commit(q)
    BY <1>2, Finishes DEF Rollback, Commit, TxAt, Closing
  <2> QED
    BY <2>1, <2>2, <2>3, <2>4
<1> QED
  BY <1>1, <1>2

\* While a payment closes, nobody else commits a payment of its documents.
LEMMA OwedStays ==
  ASSUME OneSeries, SettlementInv, PayersInv, HoldersInv, SettlersInv,
         NEW q \in Requests, Moves(q), NEW p \in Payments, p # q,
         tx[p].pc \in Closing \cup {"settle"}, NEW d \in Docs, Applied[p][d] > 0
  PROVE  PaidBy(Recorded' \cup {p}, d) = PaidBy(Recorded \cup {p}, d)
<1>1. CASE Commit(q) /\ q \in Payments
  <2>1. Recorded' = Recorded \cup {q}
    BY <1>1, RecordedNext
  <2>2. series[Series[q]] = q /\ series[Series[p]] = p
    BY <1>1 DEF HoldersInv, Commit, At, Closing
  <2>3. Applied[q][d] = 0
    BY <1>1, <2>2, AppliedType DEF OneSeries
  <2>4. /\ Recorded' \cup {p} \in SUBSET Payments
        /\ Recorded \cup {p} \in SUBSET (Recorded' \cup {p})
        /\ \A r \in (Recorded' \cup {p}) \ (Recorded \cup {p}) : Applied[r][d] = 0
    BY <1>1, <2>1, <2>3 DEF Recorded
  <2> QED
    BY <2>4, PaidTotals
<1>2. CASE ~(Commit(q) /\ q \in Payments)
  BY <1>2, RecordedNext
<1> QED
  BY <1>1, <1>2

\* Recording a payment: what it leaves without anything owed is to be settled.
LEMMA RecordSettles ==
  ASSUME OneAllocationEach, SettlementInv, PayersInv, FitInv, SettlersInv,
         NEW q \in Payments, RecordPayment(q), Moves(q)
  PROVE  SettlerOK(q)'
<1>0. /\ q \in Requests /\ tx[q].pc = "record" /\ Op[q] = "pay"
      /\ payments' = [payments EXCEPT ![q] = Put(q, payments[q], TRUE)]
      /\ UNCHANGED docs
      /\ payments \in [Payments -> Versioned(BOOLEAN, Requests)]
  BY RecordIs DEF Payments, SettlementInv, RowsTyped
<1> DEFINE recorded == [SeenAll(q, payments) EXCEPT ![q] = TRUE]
           paid == SumPaid(recorded)
           paidFor == {d \in Docs : \E k \in DOMAIN DocsOf(q) : DocsOf(q)[k] = d}
           settle == {d \in paidFor : Settled(tx[q].amount[d], paid[d])}
           recheck == {InvoiceSale[d] : d \in paidFor \cap Invoices}
<1>1. tx'[q].settle = settle /\ tx'[q].pc = AfterDocs(settle, recheck)
  <2>1. tx' = [tx EXCEPT ![q].pc = AfterDocs(settle, recheck),
                         ![q].settle = settle, ![q].recheck = recheck]
    BY DEF RecordPayment
  <2> HIDE DEF settle, recheck
  <2> QED
    BY <1>0, <2>1, HandlerNow DEF TxState
<1>2. ASSUME NEW d \in Docs PROVE paid[d] = PaidBy(Recorded \cup {q}, d)
  <2>1. ASSUME NEW p \in Payments PROVE recorded[p] <=> payments[p].com \/ p = q
    <3>1. p # q => payments[p].lock # q
      BY <1>0, Workload DEF SettlementInv, PaymentsInv, PaymentOK
    <3> QED
      BY <1>0, <3>1 DEF SeenAll, Seen
  <2> HIDE DEF recorded
  <2>2. {p \in Payments : recorded[p]} = Recorded \cup {q}
    BY <2>1 DEF Recorded
  <2> QED
    BY <2>2, SumsPaid
<1>3. ASSUME NEW d \in Docs PROVE d \in paidFor <=> Applied[q][d] > 0
  BY <1>0, PaidDocs, AppliedLines
<1>4. ASSUME NEW d \in Docs, Applied[q][d] > 0
      PROVE  d \in settle <=> PaidBy(Recorded \cup {q}, d) = docs[d].com.amount
  <2>1. tx[q].amount[d] = docs[d].com.amount
    BY <1>0, <1>4 DEF PayersInv, Working
  <2>2. PaidBy(Recorded \cup {q}, d) <= docs[d].com.amount
    <3>1. /\ Recorded \cup {q} \in SUBSET (Recorded \cup Tested)
          /\ Recorded \cup Tested \in SUBSET Payments
          /\ Recorded \cup {q} \in SUBSET Payments
      BY <1>0 DEF Recorded, Tested
    <3>2. /\ PaidBy(Recorded \cup {q}, d) <= PaidBy(Recorded \cup Tested, d)
          /\ PaidBy(Recorded \cup {q}, d) \in Nat /\ PaidBy(Recorded \cup Tested, d) \in Nat
      BY <3>1, PaidTotals
    <3>3. docs[d] \in Versioned(DocRow, Requests)
      BY DEF SettlementInv, RowsTyped
    <3> QED
      BY <3>2, <3>3 DEF FitInv, Versioned, DocRow
  <2>3. PaidBy(Recorded \cup {q}, d) \in Nat /\ docs[d].com.amount \in Nat
    <3>1. Recorded \cup {q} \in SUBSET Payments
      BY DEF Recorded
    <3>2. docs[d] \in Versioned(DocRow, Requests)
      BY DEF SettlementInv, RowsTyped
    <3> QED
      BY <3>1, <3>2, PaidTotals DEF Versioned, DocRow
  <2>4. d \in settle <=> paid[d] >= docs[d].com.amount
    <3> HIDE DEF paid, paidFor
    <3> QED
      BY <1>3, <1>4, <2>1 DEF Settled
  <2> HIDE DEF settle, paid
  <2> QED
    BY <1>2, <2>2, <2>3, <2>4
<1>5. settle \subseteq Docs /\ \A d \in settle : Applied[q][d] > 0
  <2> HIDE DEF paid
  <2>1. \A d \in settle : d \in Docs /\ d \in paidFor
    OBVIOUS
  <2> HIDE DEF settle, paidFor
  <2> QED
    BY <1>3, <2>1
<1> HIDE DEF settle, recheck, paid, paidFor, recorded
<1>6. Recorded' = Recorded
  <2>1. ~Commit(q)
    BY <1>0 DEF Commit, At
  <2> QED
    BY <1>0, <2>1, RecordedNext
<1>7. \A d \in Docs : docs'[d] = docs[d] /\ docs[d].lock # q
  BY <1>0, NothingHeld DEF Closing
<1>8. payments'[q].lock = q
  BY <1>0 DEF Put
<1>9. tx'[q].pc = "settle" <=> tx'[q].settle # {}
  BY <1>1, AfterDocsIs
<1>10. ASSUME NEW d \in Docs
       PROVE  /\ d \in tx'[q].settle \/ docs'[d].lock = q => Applied[q][d] > 0
              /\ Applied[q][d] > 0 =>
                   (PaidBy(Recorded' \cup {q}, d) = docs'[d].com.amount
                      <=> d \in tx'[q].settle \/ docs'[d].lock = q)
  BY <1>1, <1>4, <1>5, <1>6, <1>7
<1> QED
  BY <1>8, <1>9, <1>10 DEF SettlerOK

\* The first of some lines that is left is one of those left.
LEMMA FirstIsLeft ==
  ASSUME NEW lines, NEW n \in Nat, DOMAIN lines = 1..n, NEW left, left # {},
         \A x \in left : \E k \in DOMAIN lines : lines[k] = x
  PROVE  FirstOf(lines, left) \in left
<1> DEFINE Places == {k \in 1..n : lines[k] \in left}
<1>1. Places \in SUBSET Nat /\ Places # {}
  OBVIOUS
<1>2. PICK k \in Places : \A j \in Places : k <= j
  BY <1>1, LeastNumber
<1>3. \A j \in 1..(k-1) : lines[j] \notin left
  <2> TAKE j \in 1..(k-1)
  <2>1. k \in 1..n
    BY <1>2
  <2>2. j \in 1..n /\ ~(k <= j)
    BY <2>1
  <2> QED
    BY <1>2, <2>2
<1>4. \E x \in left : \E i \in DOMAIN lines :
        lines[i] = x /\ \A j \in 1..(i-1) : lines[j] \notin left
  BY <1>2, <1>3
<1> QED
  BY <1>4 DEF FirstOf

\* Setting a document to paid: it is the one that was to be settled, and it is
\* still only approved, since nobody else can have paid it.
LEMMA PaidSettles ==
  ASSUME OneAllocationEach, SettlementInv, PayersInv, FitInv, SettlersInv,
         NEW q \in Payments, TransitionToPaid(q), Moves(q)
  PROVE  SettlerOK(q)'
<1> DEFINE d == NextDoc(q)
           row == [docs[d].cur EXCEPT !.status = "paid"]
<1>0. /\ q \in Requests /\ tx[q].pc = "settle" /\ Op[q] = "pay" /\ UNCHANGED payments
  BY PaidIs DEF Payments
<1>1. SettlerOK(q)
  BY <1>0 DEF SettlersInv
<1>2. d \in tx[q].settle
  <2>1. tx[q].settle # {}
    BY <1>0, <1>1 DEF SettlerOK
  <2>2. \A x \in tx[q].settle : x \in Docs /\ Applied[q][x] > 0
    BY <1>0, <1>1, HandlerNow DEF SettlerOK, TxState
  <2>3. \A x \in tx[q].settle : \E k \in DOMAIN DocsOf(q) : DocsOf(q)[k] = x
    BY <1>0, <2>2, PaidDocs, AppliedLines
  <2>4. Len(Allocations[q]) \in Nat /\ DOMAIN DocsOf(q) = 1..Len(Allocations[q])
    BY <1>0, PaidDocs
  <2> QED
    BY <2>1, <2>3, <2>4, FirstIsLeft DEF NextDoc
<1>3. /\ d \in Docs /\ Applied[q][d] > 0
      /\ PaidBy(Recorded \cup {q}, d) = docs[d].com.amount
  BY <1>0, <1>1, <1>2, HandlerNow DEF SettlerOK, TxState
<1>4. docs[d].com.status = "approved"
  <2>1. docs[d].com.status \in {"approved", "paid"} /\ q \notin Recorded
    BY <1>0, <1>3 DEF PayersInv, Recorded, Working
  <2>2. PaidBy(Recorded \cup {q}, d) = Applied[q][d] + PaidBy(Recorded, d)
    BY <1>3, <2>1, PaidWith DEF Recorded
  <2>3. PaidBy(Recorded, d) \in Nat /\ Applied[q][d] \in Nat
    BY <1>3, PaidTotals, AppliedType DEF Recorded
  <2>4. docs[d].com.status = "paid" => PaidBy(Recorded, d) = docs[d].com.amount
    BY <1>3 DEF FitInv
  <2> HIDE DEF d
  <2> QED
    BY <1>3, <2>1, <2>2, <2>3, <2>4
<1>5. \/ UNCHANGED docs /\ Seen(q, docs[d]).status # "approved"
      \/ docs' = [docs EXCEPT ![d] = Put(q, docs[d], row)]
  BY DEF TransitionToPaid
<1>6. /\ tx'[q].settle = tx[q].settle \ {d}
      /\ tx'[q].pc = "settle" <=> tx'[q].settle # {}
  <2> DEFINE rest == tx[q].settle \ {d}
             after == AfterDocs(rest, tx[q].recheck)
  <2>1. tx' = [tx EXCEPT ![q].pc = after, ![q].settle = rest]
    BY DEF TransitionToPaid
  <2>2. after = "settle" <=> rest # {}
    <3> HIDE DEF rest
    <3> QED
      BY AfterDocsIs
  <2> HIDE DEF rest, after
  <2>3. tx'[q].settle = rest /\ tx'[q].pc = after
    BY <1>0, <2>1, HandlerNow DEF TxState
  <2> QED
    BY <2>2, <2>3 DEF rest
<1>7. \A e \in Docs : /\ docs'[e].com = docs[e].com
                      /\ e # d => docs'[e] = docs[e]
                      /\ docs'[d].lock = q
  <2>1. docs \in [Docs -> Versioned(DocRow, Requests)]
    BY DEF SettlementInv, RowsTyped
  <2>2. CASE UNCHANGED docs /\ Seen(q, docs[d]).status # "approved"
    <3>1. docs[d].lock = q
      BY <1>4, <2>2 DEF Seen
    <3> QED
      BY <2>2, <3>1
  <2>3. CASE docs' = [docs EXCEPT ![d] = Put(q, docs[d], row)]
    <3> HIDE DEF row, d
    <3> QED
      BY <1>3, <2>1, <2>3 DEF Put
  <2> QED
    BY <1>5, <2>2, <2>3
<1>8. Recorded' = Recorded
  <2>1. ~Commit(q)
    BY <1>0 DEF Commit, At
  <2> QED
    BY <1>0, <2>1, RecordedNext
<1> HIDE DEF d
<1>9. ASSUME NEW e \in Docs
      PROVE  /\ e \in tx'[q].settle \/ docs'[e].lock = q => Applied[q][e] > 0
             /\ Applied[q][e] > 0 =>
                  (PaidBy(Recorded' \cup {q}, e) = docs'[e].com.amount
                     <=> e \in tx'[q].settle \/ docs'[e].lock = q)
  <2>1. /\ e \in tx[q].settle \/ docs[e].lock = q => Applied[q][e] > 0
        /\ Applied[q][e] > 0 =>
             (PaidBy(Recorded \cup {q}, e) = docs[e].com.amount
                <=> e \in tx[q].settle \/ docs[e].lock = q)
    BY <1>1 DEF SettlerOK
  <2>2. CASE e = d
    BY <1>3, <1>7, <1>8, <2>2
  <2>3. CASE e # d
    BY <1>6, <1>7, <1>8, <2>1, <2>3
  <2> QED
    BY <2>2, <2>3
<1>10. payments'[q].lock = q
  BY <1>0, <1>1 DEF SettlerOK
<1> QED
  BY <1>6, <1>9, <1>10 DEF SettlerOK

LEMMA SettlersStep ==
  ASSUME OneSeries, OneAllocationEach, SettlementInv, AmountsInv, RevisionsInv, PayersInv,
         FitInv, HoldersInv, SettlersInv, NEW q \in Requests, Moves(q)
  PROVE  SettlersInv'
<1> SUFFICES ASSUME NEW p \in Payments, tx'[p].pc \in Closing \cup {"settle"}
             PROVE  SettlerOK(p)'
  BY DEF SettlersInv
<1>0. p \in Requests /\ Op[p] = "pay"
  BY DEF Payments
<1>1. CASE p # q
  <2>1. tx'[p] = tx[p] /\ payments'[p] = payments[p]
    BY <1>0, <1>1, PaymentNext DEF Moves
  <2>2. SettlerOK(p) /\ tx[p].pc \in Working
    BY <2>1 DEF SettlersInv, Closing, Working
  <2>3. ASSUME NEW d \in Docs
        PROVE  /\ d \in tx'[p].settle \/ docs'[d].lock = p => Applied[p][d] > 0
               /\ Applied[p][d] > 0 =>
                    (PaidBy(Recorded' \cup {p}, d) = docs'[d].com.amount
                       <=> d \in tx'[p].settle \/ docs'[d].lock = p)
    <3>1. docs'[d].lock = p <=> docs[d].lock = p
      BY <1>0, <1>1, LocksNext
    <3>2. Applied[p][d] > 0 =>
            /\ docs'[d].com.amount = docs[d].com.amount
            /\ PaidBy(Recorded' \cup {p}, d) = PaidBy(Recorded \cup {p}, d)
      BY <1>1, <2>1, <2>2, RowKeeps, OwedStays DEF PayersInv
    <3> QED
      BY <2>1, <2>2, <3>1, <3>2 DEF SettlerOK
  <2> QED
    BY <2>1, <2>2, <2>3 DEF SettlerOK
<1>2. CASE p = q
  <2>1. CASE RecordPayment(q)
    BY <1>2, <2>1, RecordSettles
  <2>2. CASE TransitionToPaid(q)
    BY <1>2, <2>2, PaidSettles
  <2>3. CASE /\ tx[q].pc \in {"sumDelivered", "sumInvoiced", "close"}
             /\ tx'[q].pc \in Closing
             /\ tx'[q].amount = tx[q].amount /\ tx'[q].settle = tx[q].settle
             /\ UNCHANGED <<docs, payments, series>>
    <3>1. SettlerOK(q) /\ tx[q].pc # "settle" /\ tx'[q].pc # "settle" /\ ~Commit(q)
      BY <1>2, <2>3 DEF SettlersInv, Closing, Commit, At
    <3>2. Recorded' = Recorded
      BY <3>1, RecordedNext
    <3> QED
      BY <1>2, <2>3, <3>1, <3>2 DEF SettlerOK
  <2>4. \/ RecordPayment(q) \/ TransitionToPaid(q)
        \/ /\ tx[q].pc \in {"sumDelivered", "sumInvoiced", "close"}
           /\ tx'[q].pc \in Closing
           /\ tx'[q].amount = tx[q].amount /\ tx'[q].settle = tx[q].settle
           /\ UNCHANGED <<docs, payments, series>>
    <3>1. tx[q].pc = "checkOutstanding" /\ To(q, "number") => tx'[q].pc = "number"
      BY <1>0, <1>2, HandlerNow DEF To, TxState
    <3>2. tx[q].pc = "number" /\ To(q, "record") => tx'[q].pc = "record"
      BY <1>0, <1>2, HandlerNow DEF To, TxState
    <3>3. tx'[q] = TxAt("new") \/ tx'[q] = TxAt("ended") => tx'[q].pc \in {"new", "ended"}
      BY DEF TxAt
    <3> QED
      BY <1>0, <1>2, <3>1, <3>2, <3>3, PayerNext DEF Closing
  <2> QED
    BY <2>1, <2>2, <2>3, <2>4
<1> QED
  BY <1>1, <1>2

LEMMA LedgerInitial == Init => LedgerInv
<1> SUFFICES ASSUME Init PROVE LedgerInv
  OBVIOUS
<1>1. /\ \A p \in Requests : tx[p].pc = "new"
      /\ \A p \in Payments : p \in Requests /\ ~payments[p].com
      /\ \A d \in Docs : /\ docs[d].com.amount = Amount[d] /\ docs[d].cur.amount = Amount[d]
                         /\ docs[d].com.status \in {"none", "approved"} /\ docs[d].lock = Nobody
                         /\ Amount[d] \in Nat
  BY Workload DEF Init, TxAt, Fresh, Payments
<1>2. Recorded \cup Tested = {} /\ Recorded = {}
  BY <1>1 DEF Recorded, Tested, Closing
<1>3. \A d \in Docs : PaidBy({}, d) = 0
  BY PaidTotals
<1>4. AmountsInv
  BY <1>1, Workload DEF AmountsInv, AmountsOf
<1>5. RevisionsInv /\ HoldersInv /\ SettlersInv
  BY <1>1 DEF RevisionsInv, HoldersInv, SettlersInv, Closing
<1>6. PayersInv
  BY <1>1 DEF PayersInv, Working
<1>7. FitInv
  <2> SUFFICES ASSUME NEW d \in Docs
               PROVE  /\ PaidBy(Recorded \cup Tested, d) <= docs[d].com.amount
                      /\ docs[d].com.status # "paid"
    BY DEF FitInv
  <2>1. PaidBy(Recorded \cup Tested, d) = 0
    BY <1>2, <1>3
  <2> QED
    BY <1>1, <2>1
<1> QED
  BY <1>4, <1>5, <1>6, <1>7 DEF LedgerInv

LEMMA LedgerStutter == LedgerInv /\ UNCHANGED vars => LedgerInv'
<1> SUFFICES ASSUME LedgerInv, UNCHANGED vars PROVE LedgerInv'
  OBVIOUS
<1>1. docs' = docs /\ payments' = payments /\ series' = series /\ tx' = tx
  BY DEF vars
<1>2. Recorded' = Recorded /\ Tested' = Tested
  BY <1>1 DEF Recorded, Tested
<1>3. AmountsInv'
  BY <1>1 DEF LedgerInv, AmountsInv, AmountsOf
<1>4. RevisionsInv' /\ HoldersInv'
  BY <1>1 DEF LedgerInv, RevisionsInv, HoldersInv
<1>5. PayersInv'
  BY <1>1 DEF LedgerInv, PayersInv
<1>6. FitInv'
  BY <1>1, <1>2 DEF LedgerInv, FitInv
<1>7. SettlersInv'
  BY <1>1, <1>2 DEF LedgerInv, SettlersInv, SettlerOK
<1> QED
  BY <1>3, <1>4, <1>5, <1>6, <1>7 DEF LedgerInv

LEMMA LedgerInvariant ==
  ASSUME OneAllocationEach, OverlapsFit, OneSeries, RevisionsApart
  PROVE  Spec => [](Apart /\ LedgerInv)
<1>1. Init => Apart /\ LedgerInv
  BY ApartInitial, LedgerInitial
<1>2. SettlementInv /\ SettlementInv' /\ (Apart /\ LedgerInv) /\ [Next]_vars
        => (Apart /\ LedgerInv)'
  <2> SUFFICES ASSUME SettlementInv, SettlementInv', Apart, LedgerInv, [Next]_vars
               PROVE  Apart' /\ LedgerInv'
    OBVIOUS
  <2>1. CASE UNCHANGED vars
    BY <2>1, LedgerStutter DEF vars, Apart, Open
  <2>2. ASSUME NEW q \in Requests, Moves(q)
        PROVE  Apart' /\ LedgerInv'
    <3>0. AmountsInv /\ RevisionsInv /\ PayersInv /\ FitInv /\ HoldersInv /\ SettlersInv
      BY DEF LedgerInv
    <3>1. Apart'
      BY <2>2, ApartStep
    <3>2. AmountsInv' /\ RevisionsInv' /\ PayersInv' /\ HoldersInv'
      BY <2>2, <3>0, AmountsStep, RevisionsStep, PayersStep, HoldersStep
    <3>3. FitInv' /\ SettlersInv'
      BY <2>2, <3>0, FitStep, SettlersStep
    <3> QED
      BY <3>1, <3>2, <3>3 DEF LedgerInv
  <2> QED
    BY <2>1, <2>2, NextMoves
<1> QED
  BY <1>1, <1>2, SettlementInvariant, PTL DEF Spec

-----------------------------------------------------------------------------
(* The steps, as steps of the ledger. *)

\* The limit of the ledger bounds every amount a document can have.
LEMMA LimitHolds ==
  ASSUME NEW d \in Docs
  PROVE  AmountLimit \in Nat /\ \A a \in AmountsOf(d) : a \in Nat /\ a <= AmountLimit
<1> DEFINE entered == {Amount[e] : e \in Docs}
           written == {NewAmount[q] : q \in Requests}
<1>0. /\ Amount \in [Docs -> Nat] /\ NewAmount \in [Requests -> Nat]
      /\ IsFiniteSet(Docs) /\ IsFiniteSet(Requests)
  BY Workload, FS_Union DEF Docs
<1>1. IsFiniteSet(entered)
  BY <1>0, FiniteValues
<1>2. IsFiniteSet(written)
  BY <1>0, FiniteValues
<1>3. IsFiniteSet(entered \cup written)
  BY <1>1, <1>2, FS_Union
<1>4. entered \cup written \in SUBSET Nat /\ Amount[d] \in entered \cup written
  BY Workload
<1>5. AmountsOf(d) \subseteq entered \cup written
  BY DEF AmountsOf
<1>6. AmountLimit = Max(entered \cup written)
  BY DEF AmountLimit
<1> HIDE DEF entered, written
<1> QED
  BY <1>3, <1>4, <1>5, <1>6, GreatestNumber

\* The sums of the committed payments.
LEMMA CommittedPaid == PaidSums = [d \in Docs |-> PaidBy(Recorded, d)]
<1> DEFINE recorded == [p \in Payments |-> payments[p].com]
<1>1. {p \in Payments : recorded[p]} = Recorded
  BY DEF Recorded
<1>2. PaidSums = SumPaid(recorded)
  BY DEF PaidSums
<1>3. SumPaid(recorded) = [d \in Docs |-> SumPaid(recorded)[d]]
  BY DEF SumPaid
<1> HIDE DEF recorded
<1> QED
  BY <1>1, <1>2, <1>3, SumsPaid

\* What is owed of a document, within its bounds.
LEMMA OwedIs ==
  ASSUME SettlementInv, LedgerInv, NEW d \in Docs
  PROVE  /\ PaidBy(Recorded, d) \in Nat /\ docs[d].com.amount \in Nat
         /\ Owed[d] = docs[d].com.amount - PaidBy(Recorded, d)
         /\ Owed[d] \in 0..AmountLimit
<1>1. PaidSums[d] = PaidBy(Recorded, d)
  BY CommittedPaid
<1>2. /\ docs[d].com.amount \in Nat /\ docs[d].com.amount <= AmountLimit
      /\ AmountLimit \in Nat
      /\ PaidBy(Recorded \cup Tested, d) <= docs[d].com.amount
  BY LimitHolds DEF LedgerInv, AmountsInv, FitInv
<1>3. /\ PaidBy(Recorded, d) <= PaidBy(Recorded \cup Tested, d)
      /\ PaidBy(Recorded, d) \in Nat /\ PaidBy(Recorded \cup Tested, d) \in Nat
  <2>1. /\ Recorded \cup Tested \in SUBSET Payments /\ Recorded \in SUBSET Payments
        /\ Recorded \in SUBSET (Recorded \cup Tested)
    BY DEF Recorded, Tested
  <2> QED
    BY <2>1, PaidTotals
<1>4. Owed[d] = docs[d].com.amount - PaidBy(Recorded, d)
  BY <1>1 DEF Owed, Doc
<1>5. docs[d].com.amount - PaidBy(Recorded, d) \in 0..AmountLimit
  BY <1>2, <1>3
<1> QED
  BY <1>2, <1>3, <1>4, <1>5

OwedOK ==
  \A d \in Docs : /\ PaidBy(Recorded, d) \in Nat /\ docs[d].com.amount \in Nat
                  /\ Owed[d] = docs[d].com.amount - PaidBy(Recorded, d)
                  /\ Owed[d] \in 0..AmountLimit

LEMMA OwedAll == SettlementInv /\ LedgerInv => OwedOK
BY OwedIs DEF OwedOK

\* The ledger, by its own two variables.
States == [d \in Docs |-> Doc(d).status]

\* A step that changes no committed document and no committed payment, or that
\* leaves both as they were, is none of the ledger's.
LEMMA LedgerStays ==
  ASSUME \A d \in Docs : docs'[d].com = docs[d].com, Recorded' = Recorded
  PROVE  UNCHANGED Ledger!vars
<1>1. \A d \in Docs : Doc(d)' = Doc(d)
  BY DEF Doc
<1>2. PaidSums' = PaidSums
  <2>1. (PaidSums = [d \in Docs |-> PaidBy(Recorded, d)])'
    BY CommittedPaid, PTL
  <2> QED
    BY <2>1, CommittedPaid
<1> QED
  BY <1>1, <1>2 DEF Ledger!vars, Owed

LEMMA LedgerBegins ==
  ASSUME SettlementInv, LedgerInv, Init
  PROVE  Ledger!Init
<1>1. [d \in Docs |-> Doc(d).status] \in [Docs -> {"none", "draft", "approved"}]
  BY DEF Init, Doc, Fresh
<1>2. Owed \in [Docs -> 0..AmountLimit]
  BY OwedIs DEF Owed
<1> QED
  BY <1>1, <1>2 DEF Ledger!Init

\* The commit of a create, an update or an approval that wrote its document.
LEMMA EditCommits ==
  ASSUME SettlementInv, LedgerInv, SettlementInv', LedgerInv',
         NEW q \in Requests, Moves(q), Commit(q), Op[q] # "pay",
         NEW d \in Docs, docs'[d].com # docs[d].com
  PROVE  Ledger!Enter(d) \/ Ledger!Revise(d) \/ Ledger!Approve(d)
<1>0. AmountsInv /\ RevisionsInv /\ PayersInv /\ SettlersInv
  BY DEF LedgerInv
<1>1. q \notin Payments /\ Recorded' = Recorded
  BY <1>0, RecordedNext DEF Payments
<1>2. /\ Target[q] = d /\ docs'[d].com = docs[d].cur
      /\ \/ /\ docs[d].com.status = "none" /\ docs'[d].com.status = "draft"
         \/ Op[q] = "update" /\ docs'[d].com.status = docs[d].com.status
         \/ /\ docs[d].com.status = "draft" /\ docs'[d].com.status = "approved"
            /\ docs'[d].com.amount = docs[d].com.amount
  BY <1>0, RowNext
<1>3. ASSUME NEW e \in Docs, e # d PROVE docs'[e].com = docs[e].com
  BY <1>0, <1>2, <1>3, RowNext
<1>4. \A e \in Docs :
        /\ Owed[e] = docs[e].com.amount - PaidBy(Recorded, e)
        /\ Owed'[e] = docs'[e].com.amount - PaidBy(Recorded, e)
        /\ Owed'[e] \in 0..AmountLimit
  <2>1. (SettlementInv /\ LedgerInv => OwedOK)'
    BY OwedAll, PTL
  <2> QED
    BY <1>1, <2>1, OwedIs DEF OwedOK
<1>5. \A e \in Docs : e # d => Owed'[e] = Owed[e]
  BY <1>3, <1>4
<1>6. Owed' = [Owed EXCEPT ![d] = Owed'[d]]
  BY <1>5 DEF Owed
<1>7. States' = [States EXCEPT ![d] = docs'[d].com.status]
  BY <1>3 DEF States, Doc
<1>8. States[d] = docs[d].com.status
  BY DEF States, Doc
<1>9. CASE docs[d].com.status = "none" /\ docs'[d].com.status = "draft"
  BY <1>4, <1>6, <1>7, <1>8, <1>9 DEF States, Ledger!Enter
<1>10. CASE Op[q] = "update" /\ docs'[d].com.status = docs[d].com.status
  <2>1. docs[d].com.status = "draft"
    BY <1>0, <1>2, <1>10 DEF RevisionsInv, Commit, At
  <2>2. States' = States
    BY <1>7, <1>8, <1>10 DEF States
  <2> QED
    BY <1>4, <1>6, <1>8, <2>1, <2>2 DEF States, Ledger!Revise
<1>11. CASE /\ docs[d].com.status = "draft" /\ docs'[d].com.status = "approved"
            /\ docs'[d].com.amount = docs[d].com.amount
  <2>1. Owed' = Owed
    BY <1>4, <1>6, <1>11 DEF Owed
  <2> QED
    BY <1>7, <1>8, <1>11, <2>1 DEF States, Ledger!Approve
<1> QED
  BY <1>2, <1>9, <1>10, <1>11

\* The commit of a payment.
LEMMA PaymentCommits ==
  ASSUME OneAllocationEach, SettlementInv, LedgerInv, SettlementInv', LedgerInv',
         NEW q \in Payments, Moves(q), Commit(q)
  PROVE  \E paid \in (SUBSET Docs) \ {{}} : Ledger!Receive(paid)
<1> DEFINE paid == {d \in Docs : Applied[q][d] > 0}
           part == [d \in paid |-> Applied[q][d]]
<1>0. /\ AmountsInv /\ RevisionsInv /\ PayersInv /\ FitInv /\ SettlersInv
      /\ q \in Requests /\ Op[q] = "pay" /\ tx[q].pc = "commit"
      /\ Recorded' = Recorded \cup {q}
  <2>1. AmountsInv /\ RevisionsInv /\ PayersInv /\ FitInv /\ SettlersInv /\ q \in Requests
    BY DEF LedgerInv, Payments
  <2> QED
    BY <2>1, RecordedNext DEF Payments, Commit, At
<1>1. SettlerOK(q) /\ tx[q].settle = {} /\ q \notin Recorded
  BY <1>0 DEF SettlersInv, SettlerOK, Closing, PayersInv, Recorded
<1>2. paid \in (SUBSET Docs) \ {{}}
  <2>1. Allocations[q] \in Seq(Allocation) /\ Allocations[q] # <<>>
    BY <1>0, Workload
  <2>2. 1 \in DOMAIN Allocations[q] /\ Allocations[q][1] \in Allocation
    BY <2>1
  <2>3. Allocations[q][1].doc \in Docs
    BY <2>2 DEF Allocation
  <2> QED
    BY <2>2, <2>3, AppliedLines
<1>3. ASSUME NEW d \in Docs
      PROVE  /\ Owed[d] \in Nat /\ Owed'[d] \in Nat /\ Applied[q][d] \in Nat
             /\ Owed[d] <= AmountLimit /\ AmountLimit \in Nat
             /\ Owed'[d] = docs'[d].com.amount - (Applied[q][d] + PaidBy(Recorded, d))
             /\ Owed[d] = docs[d].com.amount - PaidBy(Recorded, d)
             /\ docs[d].com.amount \in Nat /\ docs'[d].com.amount \in Nat
             /\ PaidBy(Recorded, d) \in Nat
  <2>1. /\ PaidBy(Recorded, d) \in Nat /\ docs[d].com.amount \in Nat
        /\ Owed[d] = docs[d].com.amount - PaidBy(Recorded, d)
        /\ Owed[d] \in 0..AmountLimit
    BY OwedIs
  <2>2. (SettlementInv /\ LedgerInv => OwedOK)'
    BY OwedAll, PTL
  <2>3. PaidBy(Recorded \cup {q}, d) = Applied[q][d] + PaidBy(Recorded, d)
    BY <1>1, PaidWith DEF Recorded
  <2>4. AmountLimit \in Nat /\ Applied[q][d] \in Nat
    BY LimitHolds, AppliedType
  <2>5. docs'[d].com.amount \in Nat /\ Owed'[d] \in 0..AmountLimit
    BY <2>2 DEF OwedOK
  <2>6. Owed'[d] = docs'[d].com.amount - (Applied[q][d] + PaidBy(Recorded, d))
    BY <1>0, <2>2, <2>3 DEF OwedOK
  <2> QED
    BY <2>1, <2>4, <2>5, <2>6
<1>4. ASSUME NEW d \in paid
      PROVE  /\ docs[d].com.status = "approved"
             /\ docs'[d].com.amount = docs[d].com.amount
  <2>1. d \in Docs /\ Applied[q][d] > 0
    OBVIOUS
  <2>2. docs[d].com.status \in {"approved", "paid"}
    BY <1>0, <2>1 DEF PayersInv, Working
  <2>3. docs'[d].com.amount = docs[d].com.amount
    BY <1>0, <2>1, <2>2, RowKeeps
  <2>4. docs[d].com.status = "paid" => PaidBy(Recorded, d) = docs[d].com.amount
    BY <1>0, <2>1 DEF FitInv
  <2> QED
    BY <1>3, <2>1, <2>2, <2>3, <2>4
<1>5. ASSUME NEW d \in paid
      PROVE  /\ Owed'[d] = Owed[d] - part[d] /\ part[d] \in 1..AmountLimit
             /\ part[d] <= Owed[d] /\ Owed'[d] < Owed[d]
  <2>1. d \in Docs /\ Applied[q][d] > 0 /\ part[d] = Applied[q][d]
    OBVIOUS
  <2>2. docs'[d].com.amount = docs[d].com.amount
    BY <1>4
  <2> HIDE DEF part, paid
  <2> QED
    BY <1>3, <2>1, <2>2
<1>6. ASSUME NEW d \in Docs, d \notin paid
      PROVE  docs'[d].com = docs[d].com /\ Owed'[d] = Owed[d]
  <2>1. Applied[q][d] = 0
    BY <1>6, AppliedType
  <2>2. docs[d].lock # q
    BY <1>1, <1>6 DEF SettlerOK
  <2>3. docs'[d].com = docs[d].com
    BY <1>0, <2>2, RowNext
  <2> QED
    BY <1>3, <2>1, <2>3
<1>7. ASSUME NEW d \in paid
      PROVE  docs'[d].com.status = IF Owed'[d] = 0 THEN "paid" ELSE "approved"
  <2>1. d \in Docs /\ Applied[q][d] > 0
    OBVIOUS
  <2>2. PaidBy(Recorded \cup {q}, d) = docs[d].com.amount <=> docs[d].lock = q
    BY <1>1, <2>1 DEF SettlerOK
  <2>3. PaidBy(Recorded \cup {q}, d) = Applied[q][d] + PaidBy(Recorded, d)
    BY <1>1, <2>1, PaidWith DEF Recorded
  <2>4. Owed'[d] = 0 <=> docs[d].lock = q
    <3>1. /\ Owed'[d] = docs'[d].com.amount - (Applied[q][d] + PaidBy(Recorded, d))
          /\ docs[d].com.amount \in Nat /\ PaidBy(Recorded, d) \in Nat
          /\ Applied[q][d] \in Nat
      BY <1>3, <2>1
    <3>2. docs'[d].com.amount = docs[d].com.amount
      BY <1>4
    <3> HIDE DEF paid
    <3> QED
      BY <2>2, <2>3, <3>1, <3>2
  <2> HIDE DEF paid
  <2> QED
    BY <1>0, <1>4, <2>1, <2>4, RowNext
<1> HIDE DEF paid
<1>8. Owed' = [d \in Docs |-> IF d \in paid THEN Owed[d] - part[d] ELSE Owed[d]]
  <2> HIDE DEF part
  <2>1. \A d \in Docs : Owed'[d] = IF d \in paid THEN Owed[d] - part[d] ELSE Owed[d]
    BY <1>5, <1>6
  <2> QED
    BY <2>1 DEF Owed
<1>9. States' = [d \in Docs |-> IF d \in paid /\ Owed'[d] = 0 THEN "paid" ELSE States[d]]
  BY <1>4, <1>6, <1>7 DEF States, Doc
<1>10. \A d \in paid : States[d] = "approved" /\ Owed'[d] < Owed[d]
  <2> SUFFICES ASSUME NEW d \in paid PROVE States[d] = "approved" /\ Owed'[d] < Owed[d]
    OBVIOUS
  <2>1. d \in Docs
    BY DEF paid
  <2> QED
    BY <1>4, <1>5, <2>1 DEF States, Doc
<1>11. part \in [paid -> 1..AmountLimit] /\ \A d \in paid : part[d] <= Owed[d]
  BY <1>5
<1>12. Ledger!Receive(paid)
  <2> HIDE DEF part
  <2> QED
    BY <1>8, <1>9, <1>10, <1>11 DEF States, Ledger!Receive
<1> QED
  BY <1>2, <1>12

LEMMA LedgerStep ==
  ASSUME OneAllocationEach, SettlementInv, LedgerInv, SettlementInv', LedgerInv', [Next]_vars
  PROVE  [Ledger!Next]_(Ledger!vars)
<1>1. CASE UNCHANGED vars
  <2>1. \A d \in Docs : docs'[d].com = docs[d].com
    BY <1>1 DEF vars
  <2>2. Recorded' = Recorded
    BY <1>1 DEF vars, Recorded
  <2> QED
    BY <2>1, <2>2, LedgerStays
<1>2. ASSUME NEW q \in Requests, Moves(q)
      PROVE  [Ledger!Next]_(Ledger!vars)
  <2>0. AmountsInv /\ SettlersInv
    BY DEF LedgerInv
  <2>1. CASE Commit(q) /\ Op[q] = "pay"
    BY <1>2, <2>1, PaymentCommits DEF Payments, Ledger!Next
  <2>2. CASE Commit(q) /\ Op[q] # "pay"
    <3>1. CASE \E d \in Docs : docs'[d].com # docs[d].com
      BY <1>2, <2>2, <3>1, EditCommits DEF Ledger!Next
    <3>2. CASE \A d \in Docs : docs'[d].com = docs[d].com
      BY <1>2, <2>0, <2>2, <3>2, RecordedNext, LedgerStays DEF Payments
    <3> QED
      BY <3>1, <3>2
  <2>3. CASE ~Commit(q)
    <3>1. \A d \in Docs : docs'[d].com = docs[d].com
      BY <1>2, <2>0, <2>3, RowNext
    <3>2. Recorded' = Recorded
      BY <1>2, <2>0, <2>3, RecordedNext
    <3> QED
      BY <3>1, <3>2, LedgerStays
  <2> QED
    BY <2>1, <2>2, <2>3
<1> QED
  BY <1>1, <1>2, NextMoves

\* ImplementsOpenItems: every commit is a step of the ledger.  Amounts change
\* only while a document is a draft, payments never take off more than is owed,
\* and a document is paid with the commit that settles it.  This needs payments
\* and edits of a document that overlap only when they cannot do harm, and
\* payments with at most one line per document.
THEOREM LedgerImplemented ==
  ASSUME OneAllocationEach, OverlapsFit, OneSeries, RevisionsApart
  PROVE  Spec => ImplementsOpenItems
<1>1. SettlementInv /\ LedgerInv /\ Init => Ledger!Init
  BY LedgerBegins
<1>2. SettlementInv /\ (Apart /\ LedgerInv) /\ SettlementInv' /\ (Apart /\ LedgerInv)' /\ [Next]_vars
        => [Ledger!Next]_(Ledger!vars)
  BY LedgerStep
<1> QED
  BY <1>1, <1>2, SettlementInvariant, LedgerInvariant, PTL
     DEF Spec, ImplementsOpenItems, Ledger!Spec
=============================================================================
