---------------------------- MODULE PurchaseProofs ----------------------------
(***************************************************************************)
(* Theorems about PurchaseReceiving, for every order, every set of         *)
(* receipts and bills and every workload.  The first part assumes nothing  *)
(* of how the requests interleave.  Its inductive invariant, PurchaseInv,  *)
(* says who can hold the lock of a row and what that transaction has done  *)
(* to it so far.                                                           *)
(***************************************************************************)
EXTENDS PurchaseProperties, SumTheorems

(* A row is locked by an open transaction, and its two versions differ     *)
(* only while it is.                                                       *)
Tidy(row) == /\ row.lock \in Open \cup {Nobody}
             /\ row.lock = Nobody => row.cur = row.com

TidyInv == /\ Tidy(purchase)
           /\ \A i \in Items : Tidy(items[i])
           /\ \A r \in Receipts : Tidy(receipts[r]) /\ Tidy(stock[r])
           /\ \A b \in Bills : Tidy(bills[b])

(* The status is written by the last statement of a transaction, and only  *)
(* over one that is not final.                                             *)
StatusInv == purchase.lock # Nobody =>
               /\ tx[purchase.lock].pc = "commit"
               /\ purchase.com \in {"draft", "issued"}

(* A receipt and its stock: at rest; just inserted; or being confirmed,    *)
(* before and after its lots are written.                                  *)
AtRest(r) ==
  /\ receipts[r].lock = Nobody
  /\ stock[r] = Fresh(IF receipts[r].com = "confirmed" THEN 1 ELSE 0)

BeingInserted(r) ==
  LET q == receipts[r].lock IN
  /\ q \in Requests
  /\ Op[q] = "createReceipt" /\ Target[q] = r /\ tx[q].pc = "commit"
  /\ receipts[r].com = "none" /\ receipts[r].cur = "draft"
  /\ stock[r] = Fresh(0)

Closing == {"sumReceived", "sumBilled", "close", "commit"}

BeingConfirmed(r) ==
  LET q == receipts[r].lock IN
  /\ q \in Requests
  /\ Op[q] = "confirmReceipt" /\ Target[q] = r
  /\ receipts[r].com = "draft" /\ receipts[r].cur = "confirmed"
  /\ \/ tx[q].pc = "bookStock" /\ stock[r] = Fresh(0)
     \/ tx[q].pc \in Closing /\ stock[r] = Put(q, Fresh(0), 1)

ReceiptOK(r) == AtRest(r) \/ BeingInserted(r) \/ BeingConfirmed(r)

ReceiptsInv == \A r \in Receipts : ReceiptOK(r)

(* What a handler with local variables t has established for itself. *)
HandlerOK(q, t) ==
  /\ t.pc = "new" /\ Op[q] = "createReceipt" =>
       receipts[Target[q]] = Fresh("none")
  /\ t.pc = "casCancelled" => t.from \in {"draft", "issued"}
  /\ t.pc = "writeItem" => Op[q] \in {"addItem", "updateItem"}
  /\ t.pc \in {"casConfirmed", "bookStock"} => Op[q] = "confirmReceipt"
  /\ t.pc = "bookStock" => receipts[Target[q]].lock = q
  /\ t.pc = "checkBill" => Op[q] = "createBill"
  /\ t.pc = "casApproved" => Op[q] = "approveBill"
  /\ t.pc \in {"findLine", "reopen"} => Op[q] = "reopenLine"
  /\ t.pc = "sumLine" => /\ Op[q] \in {"shortCloseLine", "reopenLine"}
                         /\ Op[q] = "shortCloseLine" => t.todo # {}
  /\ t.pc = "listLines" => Op[q] = "shortCloseAll"
  /\ t.pc = "shortClose" => /\ Op[q] \in {"shortCloseLine", "shortCloseAll"}
                            /\ t.todo # {}

HandlersInv == \A q \in Requests : HandlerOK(q, tx[q])

PurchaseInv == TypeOK /\ TidyInv /\ StatusInv /\ ReceiptsInv /\ HandlersInv

-----------------------------------------------------------------------------
(* Constants, sums and rows. *)

LEMMA Workload ==
  /\ Items \subseteq Nat /\ IsFiniteSet(Items)
  /\ Ordered \in [Items -> Nat]
  /\ InitialStatus \in {"draft", "issued"}
  /\ ReceiptLines \in [Receipts -> Seq(Line) \ {<<>>}]
  /\ BillLines \in [Bills -> Seq(Line)]
  /\ IsFiniteSet(Receipts) /\ IsFiniteSet(Bills)
  /\ Op \in [Requests -> Operations]
  /\ \A q \in Requests : Target[q] \in TargetsOf(Op[q])
  /\ \A q, r \in Requests :
       /\ Op[q] \in {"addItem", "createReceipt", "createBill"}
       /\ Op[r] = Op[q]
       /\ Target[q] = Target[r]
       => q = r
  /\ Quantity \in [Requests -> Nat \ {0}]
  /\ OneAtATime \in BOOLEAN
  /\ Nobody \notin Requests
BY DocumentsAssumption, WorkloadAssumption

LEMMA LinesSum ==
  ASSUME NEW lines \in Seq(Line), NEW i
  PROVE  QtyOf(lines, i) \in Nat
<1> DEFINE S == {k \in DOMAIN lines : lines[k].item = i}
           w == [k \in S |-> lines[k].qty]
<1>1. IsFiniteSet(S)
  <2>1. Len(lines) \in Nat /\ DOMAIN lines = 1..Len(lines)
    OBVIOUS
  <2>2. IsFiniteSet(1..Len(lines))
    BY <2>1, FS_Interval
  <2> QED
    BY <2>1, <2>2, FS_Subset
<1>2. \A k \in S : w[k] \in Nat
  <2>1. \A k \in DOMAIN lines : lines[k] \in Line
    OBVIOUS
  <2> QED
    BY <2>1 DEF Line
<1> HIDE DEF S, w
<1>3. Total(w, S) \in Nat
  BY <1>1, <1>2, TotalType
<1>4. MapThenSumSet(LAMBDA k : lines[k].qty, S) = Total(w, S)
  BY <1>1, TotalOfQuantities DEF w
<1> QED
  BY <1>3, <1>4 DEF QtyOf, S

LEMMA DocumentSums ==
  /\ ReceiptQty \in [Receipts -> [Items -> Nat]]
  /\ BillQty \in [Bills -> [Items -> Nat]]
BY Workload, LinesSum DEF ReceiptQty, BillQty

LEMMA ReceivedType ==
  ASSUME NEW status
  PROVE  SumReceived(status) \in [Items -> Nat]
<1> DEFINE counted == {r \in Receipts : status[r] = "confirmed"}
<1>1. IsFiniteSet(counted)
  BY Workload, FS_Subset
<1>2. ASSUME NEW i \in Items
      PROVE  MapThenSumSet(LAMBDA r : ReceiptQty[r][i], counted) \in Nat
  <2> HIDE DEF counted
  <2>1. \A r \in counted : [x \in counted |-> ReceiptQty[x][i]][r] \in Nat
    BY <1>2, DocumentSums DEF counted
  <2>2. Total([x \in counted |-> ReceiptQty[x][i]], counted) \in Nat
    BY <1>1, <2>1, TotalType
  <2> QED
    BY <1>1, <2>2, TotalOfEntries
<1> QED
  BY <1>2 DEF SumReceived

LEMMA BilledType ==
  ASSUME NEW status
  PROVE  SumBilled(status) \in [Items -> Nat]
<1> DEFINE counted == {b \in Bills : status[b] # "none"}
<1>1. IsFiniteSet(counted)
  BY Workload, FS_Subset
<1>2. ASSUME NEW i \in Items
      PROVE  MapThenSumSet(LAMBDA b : BillQty[b][i], counted) \in Nat
  <2> HIDE DEF counted
  <2>1. \A b \in counted : [x \in counted |-> BillQty[x][i]][b] \in Nat
    BY <1>2, DocumentSums DEF counted
  <2>2. Total([x \in counted |-> BillQty[x][i]], counted) \in Nat
    BY <1>1, <2>1, TotalType
  <2> QED
    BY <1>1, <2>2, TotalOfEntries
<1> QED
  BY <1>2 DEF SumBilled

LEMMA RowTypes ==
  ASSUME NEW V, NEW row \in Versioned(V, Requests), NEW q \in Requests
  PROVE  /\ Seen(q, row) \in V
         /\ \A v \in V : Put(q, row, v) \in Versioned(V, Requests)
         /\ Committed(q, row) \in Versioned(V, Requests)
         /\ RolledBack(q, row) \in Versioned(V, Requests)
BY DEF Versioned, Seen, Put, Committed, RolledBack, Fresh

LEMMA FreshType ==
  ASSUME NEW V, NEW v \in V
  PROVE  Fresh(v) \in Versioned(V, Requests)
BY DEF Versioned, Fresh

LEMMA SeenItems ==
  ASSUME TypeOK, NEW q \in Requests
  PROVE  SeenAll(q, items) \in [Items -> ItemRow]
BY RowTypes DEF TypeOK, SeenAll

LEMMA NewIdle == \A pc \in {"new", "ended"} : TxAt(pc) \in TxState
BY DEF TxAt, TxState, OrderedRow, ItemRow, LineStatuses, PurchaseStatus

\* The least of some items.
LEMMA FirstItem ==
  ASSUME NEW T \in SUBSET Items, T # {}
  PROVE  Min(T) \in T
<1>1. \E n \in T : \A m \in T : n <= m
  BY Workload, LeastNumber
<1> QED
  BY <1>1 DEF Min

-----------------------------------------------------------------------------
(* The steps.  A statement changes the variables of its own handler, and   *)
(* at most one row of one table.                                           *)

LEMMA InitialInv == Init => PurchaseInv
<1> SUFFICES ASSUME Init PROVE PurchaseInv
  OBVIOUS
<1>1. TypeOK
  <2>1. OrderedRow(0) \in ItemRow /\ \A i \in Items : OrderedRow(Ordered[i]) \in ItemRow
    BY Workload DEF OrderedRow, ItemRow, LineStatuses
  <2>2. TxAt("new") \in TxState
    BY NewIdle
  <2> QED
    BY <2>1, <2>2, FreshType, Workload
    DEF Init, TypeOK, PurchaseStatus, ReceiptStatus, BillStatus
<1>2. TidyInv /\ StatusInv
  BY DEF Init, TidyInv, Tidy, StatusInv, Fresh
<1>3. ReceiptsInv
  BY DEF Init, ReceiptsInv, ReceiptOK, AtRest, Fresh
<1>4. HandlersInv
  BY Workload DEF Init, HandlersInv, HandlerOK, TxAt, TargetsOf
<1> QED
  BY <1>1, <1>2, <1>3, <1>4 DEF PurchaseInv

\* What a handler may not do between two of its statements: forget that it is
\* confirming a receipt, or leave the commit that its write waits for.
Onward(from, to) ==
  /\ from \notin {"commit", "ended"}
  /\ to \in Working
  /\ from \in Closing => to \in Closing

LEMMA OpenGrows ==
  ASSUME NEW q \in Requests, NEW s, tx \in [Requests -> TxState],
         tx' = [tx EXCEPT ![q] = s], s.pc \in Working
  PROVE  Open \subseteq Open' /\ q \in Open'
BY DEF Open

\* What every statement leaves as it was that touches no receipt and no stock.
LEMMA QuietStep ==
  ASSUME PurchaseInv, NEW q \in Requests, NEW s \in TxState,
         tx' = [tx EXCEPT ![q] = s], UNCHANGED <<receipts, stock>>,
         Onward(tx[q].pc, s.pc), tx[q].pc # "bookStock", HandlerOK(q, s)
  PROVE  /\ tx' \in [Requests -> TxState]
         /\ ReceiptsInv' /\ HandlersInv'
         /\ Open \subseteq Open' /\ q \in Open'
<1>0. tx' \in [Requests -> TxState] /\ Open \subseteq Open' /\ q \in Open'
  BY OpenGrows DEF PurchaseInv, TypeOK, Onward
<1>1. ReceiptsInv'
  <2> SUFFICES ASSUME NEW r \in Receipts PROVE ReceiptOK(r)'
    BY DEF ReceiptsInv
  <2>1. ReceiptOK(r)
    BY DEF PurchaseInv, ReceiptsInv
  <2>3. CASE AtRest(r)
    BY <2>3 DEF ReceiptOK, AtRest
  <2>4. CASE BeingInserted(r)
    <3>1. receipts[r].lock # q
      BY <2>4 DEF BeingInserted, Onward
    <3> QED
      BY <2>4, <3>1 DEF ReceiptOK, BeingInserted, PurchaseInv, TypeOK
  <2>5. CASE BeingConfirmed(r)
    <3>1. receipts[r].lock = q => tx[q].pc \in Closing
      BY <2>5 DEF BeingConfirmed
    <3> QED
      BY <2>5, <3>1 DEF ReceiptOK, BeingConfirmed, PurchaseInv, TypeOK, Onward
  <2> QED
    BY <2>1, <2>3, <2>4, <2>5 DEF ReceiptOK
<1>2. HandlersInv'
  <2> SUFFICES ASSUME NEW r \in Requests PROVE HandlerOK(r, tx[r])'
    BY DEF HandlersInv
  <2>1. CASE r = q
    BY <2>1 DEF HandlerOK, PurchaseInv, TypeOK
  <2>2. CASE r # q
    BY <2>2 DEF HandlerOK, PurchaseInv, HandlersInv, TypeOK
  <2> QED
    BY <2>1, <2>2
<1> QED
  BY <1>0, <1>1, <1>2

LEMMA StatusKept ==
  ASSUME PurchaseInv, NEW q \in Requests, NEW s \in TxState,
         tx' = [tx EXCEPT ![q] = s], UNCHANGED purchase, tx[q].pc # "commit"
  PROVE  StatusInv'
BY DEF PurchaseInv, StatusInv, TypeOK, Versioned

LEMMA ReadStep ==
  ASSUME PurchaseInv, NEW q \in Requests, NEW s \in TxState,
         tx' = [tx EXCEPT ![q] = s], UNCHANGED tables,
         Onward(tx[q].pc, s.pc), tx[q].pc # "bookStock", HandlerOK(q, s)
  PROVE  PurchaseInv'
<1>1. /\ tx' \in [Requests -> TxState] /\ ReceiptsInv' /\ HandlersInv'
      /\ Open \subseteq Open' /\ StatusInv'
  BY QuietStep, StatusKept DEF tables, Onward
<1>2. TypeOK' /\ TidyInv'
  BY <1>1 DEF PurchaseInv, TypeOK, TidyInv, Tidy, tables
<1> QED
  BY <1>1, <1>2 DEF PurchaseInv

LEMMA StatusStep ==
  ASSUME PurchaseInv, NEW q \in Requests, NEW v \in PurchaseStatus,
         purchase.lock = Nobody, purchase.com \in {"draft", "issued"},
         purchase' = Put(q, purchase, v),
         Goto(q, "commit"), UNCHANGED <<items, receipts, bills, stock>>,
         tx[q].pc \in Working \ {"commit", "bookStock"}
  PROVE  PurchaseInv'
<1> DEFINE s == [tx[q] EXCEPT !.pc = "commit"]
<1>0. s \in TxState /\ s.pc = "commit" /\ tx' = [tx EXCEPT ![q] = s]
  BY DEF PurchaseInv, TypeOK, TxState, Goto, Working
<1>1. HandlerOK(q, s) /\ Onward(tx[q].pc, s.pc)
  BY <1>0 DEF HandlerOK, Onward, Closing, Working
<1> HIDE DEF s
<1>2. /\ tx' \in [Requests -> TxState] /\ ReceiptsInv' /\ HandlersInv'
      /\ Open \subseteq Open' /\ q \in Open'
  BY <1>0, <1>1, QuietStep
<1>3. StatusInv'
  BY <1>0, <1>2 DEF PurchaseInv, TypeOK, StatusInv, Put
<1>4. TypeOK'
  <2>1. purchase' \in Versioned(PurchaseStatus, Requests)
    BY RowTypes DEF PurchaseInv, TypeOK
  <2> QED
    BY <1>2, <2>1 DEF PurchaseInv, TypeOK
<1>5. TidyInv'
  <2>1. q # Nobody
    BY Workload
  <2> QED
    BY <1>2, <2>1 DEF PurchaseInv, TidyInv, Tidy, Put
<1> QED
  BY <1>2, <1>3, <1>4, <1>5 DEF PurchaseInv

LEMMA ItemStep ==
  ASSUME PurchaseInv, NEW q \in Requests, NEW i \in Items, NEW row \in ItemRow,
         NEW s \in TxState,
         items' = [items EXCEPT ![i] = Put(q, @, row)],
         tx' = [tx EXCEPT ![q] = s], UNCHANGED <<purchase, receipts, bills, stock>>,
         Onward(tx[q].pc, s.pc), tx[q].pc # "bookStock", HandlerOK(q, s)
  PROVE  PurchaseInv'
<1>1. /\ tx' \in [Requests -> TxState] /\ ReceiptsInv' /\ HandlersInv'
      /\ Open \subseteq Open' /\ q \in Open' /\ StatusInv'
  BY QuietStep, StatusKept DEF Onward
<1>2. /\ items' \in [Items -> Versioned(ItemRow, Requests)]
      /\ \A j \in Items : Tidy(items[j])'
  <2>1. items[i] \in Versioned(ItemRow, Requests) /\ items \in [Items -> Versioned(ItemRow, Requests)]
    BY DEF PurchaseInv, TypeOK
  <2>2. Put(q, items[i], row) \in Versioned(ItemRow, Requests)
    BY <2>1, RowTypes
  <2>3. \A j \in Items : items'[j] = IF j = i THEN Put(q, items[i], row) ELSE items[j]
    BY <2>1
  <2>4. q # Nobody
    BY Workload
  <2>5. \A j \in Items : Tidy(items[j])
    BY DEF PurchaseInv, TidyInv
  <2>6. items' \in [Items -> Versioned(ItemRow, Requests)]
    BY <2>1, <2>2
  <2>7. ASSUME NEW j \in Items
        PROVE  Tidy(items[j])'
    <3>1. CASE j = i
      BY <1>1, <2>3, <2>4, <3>1 DEF Tidy, Put
    <3>2. CASE j # i
      BY <1>1, <2>3, <2>5, <3>2 DEF Tidy
    <3> QED
      BY <3>1, <3>2
  <2> QED
    BY <2>6, <2>7
<1>3. TypeOK' /\ TidyInv'
  BY <1>1, <1>2 DEF PurchaseInv, TypeOK, TidyInv, Tidy
<1> QED
  BY <1>1, <1>3 DEF PurchaseInv

LEMMA BillsStep ==
  ASSUME PurchaseInv, NEW q \in Requests, NEW b \in Bills, NEW v \in BillStatus,
         NEW s \in TxState,
         bills' = [bills EXCEPT ![b] = Put(q, @, v)],
         tx' = [tx EXCEPT ![q] = s], UNCHANGED <<purchase, items, receipts, stock>>,
         Onward(tx[q].pc, s.pc), tx[q].pc # "bookStock", HandlerOK(q, s)
  PROVE  PurchaseInv'
<1>1. /\ tx' \in [Requests -> TxState] /\ ReceiptsInv' /\ HandlersInv'
      /\ Open \subseteq Open' /\ q \in Open' /\ StatusInv'
  BY QuietStep, StatusKept DEF Onward
<1>2. /\ bills' \in [Bills -> Versioned(BillStatus, Requests)]
      /\ \A c \in Bills : Tidy(bills[c])'
  <2>1. bills[b] \in Versioned(BillStatus, Requests) /\ bills \in [Bills -> Versioned(BillStatus, Requests)]
    BY DEF PurchaseInv, TypeOK
  <2>2. Put(q, bills[b], v) \in Versioned(BillStatus, Requests)
    BY <2>1, RowTypes
  <2>3. \A c \in Bills : bills'[c] = IF c = b THEN Put(q, bills[b], v) ELSE bills[c]
    BY <2>1
  <2>4. q # Nobody
    BY Workload
  <2>5. \A c \in Bills : Tidy(bills[c])
    BY DEF PurchaseInv, TidyInv
  <2>6. bills' \in [Bills -> Versioned(BillStatus, Requests)]
    BY <2>1, <2>2
  <2>7. ASSUME NEW c \in Bills
        PROVE  Tidy(bills[c])'
    <3>1. CASE c = b
      BY <1>1, <2>3, <2>4, <3>1 DEF Tidy, Put
    <3>2. CASE c # b
      BY <1>1, <2>3, <2>5, <3>2 DEF Tidy
    <3> QED
      BY <3>1, <3>2
  <2> QED
    BY <2>6, <2>7
<1>3. TypeOK' /\ TidyInv'
  BY <1>1, <1>2 DEF PurchaseInv, TypeOK, TidyInv, Tidy
<1> QED
  BY <1>1, <1>3 DEF PurchaseInv

LEMMA InsertStep ==
  ASSUME PurchaseInv, NEW q \in Requests, NEW r \in Receipts,
         Op[q] = "createReceipt", Target[q] = r, tx[q].pc = "new",
         receipts' = [receipts EXCEPT ![r] = Put(q, @, "draft")],
         Goto(q, "commit"), UNCHANGED <<purchase, items, bills, stock>>
  PROVE  PurchaseInv'
<1>0. receipts[r] = Fresh("none") /\ stock[r] = Fresh(0)
  <2>1. receipts[r] = Fresh("none")
    BY DEF PurchaseInv, HandlersInv, HandlerOK
  <2>2. receipts[r].lock = Nobody /\ receipts[r].com = "none" /\ Nobody \notin Requests
    BY <2>1, Workload DEF Fresh
  <2>3. ReceiptOK(r)
    BY DEF PurchaseInv, ReceiptsInv
  <2> QED
    BY <2>1, <2>2, <2>3 DEF ReceiptOK, AtRest, BeingInserted, BeingConfirmed
<1> DEFINE s == [tx[q] EXCEPT !.pc = "commit"]
<1>1. s \in TxState /\ s.pc = "commit" /\ tx' = [tx EXCEPT ![q] = s]
  BY DEF PurchaseInv, TypeOK, TxState, Goto, Working
<1> HIDE DEF s
<1>2. /\ tx' \in [Requests -> TxState] /\ Open \subseteq Open' /\ q \in Open'
      /\ q \notin Open /\ q # Nobody
      /\ \A p \in Requests \ {q} : tx'[p] = tx[p]
      /\ tx'[q] = s
  <2>1. tx \in [Requests -> TxState]
    BY DEF PurchaseInv, TypeOK
  <2>2. "commit" \in Working /\ "new" \notin Working
    BY DEF Working
  <2> QED
    BY <1>1, <2>1, <2>2, OpenGrows, Workload DEF Open
<1>3. /\ receipts' \in [Receipts -> Versioned(ReceiptStatus, Requests)]
      /\ receipts'[r] = [com |-> "none", cur |-> "draft", lock |-> q]
      /\ \A k \in Receipts \ {r} : receipts'[k] = receipts[k]
  <2>1. receipts \in [Receipts -> Versioned(ReceiptStatus, Requests)] /\ "draft" \in ReceiptStatus
    BY DEF PurchaseInv, TypeOK, ReceiptStatus
  <2>2. Put(q, receipts[r], "draft") \in Versioned(ReceiptStatus, Requests)
    BY <2>1, RowTypes
  <2> QED
    BY <1>0, <2>1, <2>2 DEF Put, Fresh
<1>4. TypeOK' /\ StatusInv'
  <2>1. tx[q].pc # "commit"
    OBVIOUS
  <2> QED
    BY <1>1, <1>2, <1>3, <2>1, StatusKept DEF PurchaseInv, TypeOK
<1>5. TidyInv'
  BY <1>2, <1>3 DEF PurchaseInv, TidyInv, Tidy
<1>6. ReceiptsInv'
  <2> SUFFICES ASSUME NEW k \in Receipts PROVE ReceiptOK(k)'
    BY DEF ReceiptsInv
  <2>1. CASE k = r
    BY <1>0, <1>1, <1>2, <1>3, <2>1 DEF ReceiptOK, BeingInserted
  <2>2. CASE k # r
    <3>1. ReceiptOK(k) /\ receipts[k].lock # q /\ receipts'[k] = receipts[k]
      BY <1>2, <1>3, <2>2 DEF PurchaseInv, ReceiptsInv, TidyInv, Tidy
    <3> QED
      BY <1>2, <3>1 DEF ReceiptOK, AtRest, BeingInserted, BeingConfirmed
  <2> QED
    BY <2>1, <2>2
<1>7. HandlersInv'
  <2> SUFFICES ASSUME NEW p \in Requests PROVE HandlerOK(p, tx[p])'
    BY DEF HandlersInv
  <2>1. CASE p = q
    BY <1>1, <1>2, <2>1 DEF HandlerOK
  <2>2. CASE p # q
    <3>1. HandlerOK(p, tx[p]) /\ tx'[p] = tx[p]
      BY <1>2, <2>2 DEF PurchaseInv, HandlersInv
    <3>2. Op[p] = "createReceipt" => Target[p] # r /\ Target[p] \in Receipts
      BY <2>2, Workload DEF TargetsOf
    <3>3. tx[p].pc = "bookStock" => Target[p] # r /\ Target[p] \in Receipts
      <4>1. p # Nobody
        BY Workload
      <4>2. Op[p] = "confirmReceipt" => Target[p] \in Receipts
        BY Workload DEF TargetsOf
      <4> QED
        BY <1>0, <3>1, <4>1, <4>2 DEF HandlerOK, Fresh
    <3> QED
      BY <1>3, <3>1, <3>2, <3>3 DEF HandlerOK
  <2> QED
    BY <2>1, <2>2
<1> QED
  BY <1>4, <1>5, <1>6, <1>7 DEF PurchaseInv

LEMMA ConfirmStep ==
  ASSUME PurchaseInv, NEW q \in Requests, NEW r \in Receipts,
         Target[q] = r, tx[q].pc = "casConfirmed",
         ReceiptIsDraft(q, r), Lockable(q, receipts[r]),
         receipts' = [receipts EXCEPT ![r] = Put(q, @, "confirmed")],
         Goto(q, "bookStock"), UNCHANGED <<purchase, items, bills, stock>>
  PROVE  PurchaseInv'
<1>a. Op[q] = "confirmReceipt" /\ q # Nobody /\ Nobody \notin Requests
  BY Workload DEF PurchaseInv, HandlersInv, HandlerOK
<1>0. /\ receipts[r].lock = Nobody /\ receipts[r].com = "draft"
      /\ stock[r] = Fresh(0)
  <2>1. ReceiptOK(r)
    BY DEF PurchaseInv, ReceiptsInv
  <2>2. ~BeingInserted(r) /\ ~BeingConfirmed(r)
    BY <1>a DEF BeingInserted, BeingConfirmed, Lockable, Closing
  <2> QED
    BY <1>a, <2>1, <2>2 DEF ReceiptOK, AtRest, ReceiptIsDraft, Seen
<1> DEFINE s == [tx[q] EXCEPT !.pc = "bookStock"]
<1>1. s \in TxState /\ s.pc = "bookStock" /\ tx' = [tx EXCEPT ![q] = s]
  BY DEF PurchaseInv, TypeOK, TxState, Goto, Working
<1> HIDE DEF s
<1>2. /\ tx' \in [Requests -> TxState] /\ Open \subseteq Open' /\ q \in Open'
      /\ \A p \in Requests \ {q} : tx'[p] = tx[p]
      /\ tx'[q] = s
  <2>1. tx \in [Requests -> TxState]
    BY DEF PurchaseInv, TypeOK
  <2>2. "bookStock" \in Working
    BY DEF Working
  <2> QED
    BY <1>1, <2>1, <2>2, OpenGrows
<1>3. /\ receipts' \in [Receipts -> Versioned(ReceiptStatus, Requests)]
      /\ receipts'[r] = [com |-> "draft", cur |-> "confirmed", lock |-> q]
      /\ \A k \in Receipts \ {r} : receipts'[k] = receipts[k]
  <2>1. receipts \in [Receipts -> Versioned(ReceiptStatus, Requests)] /\ "confirmed" \in ReceiptStatus
    BY DEF PurchaseInv, TypeOK, ReceiptStatus
  <2>2. Put(q, receipts[r], "confirmed") \in Versioned(ReceiptStatus, Requests)
    BY <2>1, RowTypes
  <2> QED
    BY <1>0, <2>1, <2>2 DEF Put
<1>4. TypeOK' /\ StatusInv'
  <2>1. tx[q].pc # "commit"
    OBVIOUS
  <2> QED
    BY <1>1, <1>2, <1>3, <2>1, StatusKept DEF PurchaseInv, TypeOK
<1>5. TidyInv'
  BY <1>a, <1>2, <1>3 DEF PurchaseInv, TidyInv, Tidy
<1>6. ReceiptsInv'
  <2> SUFFICES ASSUME NEW k \in Receipts PROVE ReceiptOK(k)'
    BY DEF ReceiptsInv
  <2>1. CASE k = r
    BY <1>a, <1>0, <1>1, <1>2, <1>3, <2>1 DEF ReceiptOK, BeingConfirmed
  <2>2. CASE k # r
    <3>1. ReceiptOK(k) /\ receipts'[k] = receipts[k]
      BY <1>3, <2>2 DEF PurchaseInv, ReceiptsInv
    <3>2. AtRest(k) \/ receipts[k].lock # q
      BY <3>1 DEF ReceiptOK, BeingInserted, BeingConfirmed, Closing
    <3> QED
      BY <1>2, <3>1, <3>2 DEF ReceiptOK, AtRest, BeingInserted, BeingConfirmed
  <2> QED
    BY <2>1, <2>2
<1>7. HandlersInv'
  <2> SUFFICES ASSUME NEW p \in Requests PROVE HandlerOK(p, tx[p])'
    BY DEF HandlersInv
  <2>1. CASE p = q
    BY <1>a, <1>1, <1>2, <1>3, <2>1 DEF HandlerOK
  <2>2. CASE p # q
    <3>1. HandlerOK(p, tx[p]) /\ tx'[p] = tx[p]
      BY <1>2, <2>2 DEF PurchaseInv, HandlersInv
    <3>2. Op[p] = "createReceipt" /\ tx[p].pc = "new" =>
            Target[p] # r /\ Target[p] \in Receipts
      <4>1. Op[p] = "createReceipt" => Target[p] \in Receipts
        BY Workload DEF TargetsOf
      <4>2. Fresh("none").com = "none"
        BY DEF Fresh
      <4> QED
        BY <1>0, <3>1, <4>1, <4>2 DEF HandlerOK
    <3>3. tx[p].pc = "bookStock" => Target[p] # r /\ Target[p] \in Receipts
      <4>1. p # Nobody
        BY Workload
      <4>2. Op[p] = "confirmReceipt" => Target[p] \in Receipts
        BY Workload DEF TargetsOf
      <4> QED
        BY <1>0, <3>1, <4>1, <4>2 DEF HandlerOK
    <3> QED
      BY <1>3, <3>1, <3>2, <3>3 DEF HandlerOK
  <2> QED
    BY <2>1, <2>2
<1> QED
  BY <1>4, <1>5, <1>6, <1>7 DEF PurchaseInv

LEMMA BookStep ==
  ASSUME PurchaseInv, NEW q \in Requests, BookStock(q)
  PROVE  PurchaseInv'
<1> DEFINE r == Target[q]
           s == [tx[q] EXCEPT !.pc = "sumReceived", !.ordered = SeenAll(q, items)]
<1>a. Op[q] = "confirmReceipt" /\ q # Nobody /\ r \in Receipts /\ receipts[r].lock = q
  <2>1. Op[q] = "confirmReceipt" /\ receipts[r].lock = q
    BY DEF BookStock, At, PurchaseInv, HandlersInv, HandlerOK
  <2> QED
    BY <2>1, Workload DEF TargetsOf
<1>0. /\ receipts[r].com = "draft" /\ receipts[r].cur = "confirmed"
      /\ stock[r] = Fresh(0)
  <2>1. ReceiptOK(r)
    BY <1>a DEF PurchaseInv, ReceiptsInv
  <2> QED
    BY <1>a, <2>1 DEF ReceiptOK, AtRest, BeingInserted, BeingConfirmed, BookStock, At, Closing
<1>1. s \in TxState /\ s.pc = "sumReceived" /\ tx' = [tx EXCEPT ![q] = s]
  <2>1. SeenAll(q, items) \in [Items -> ItemRow]
    BY SeenItems DEF PurchaseInv
  <2> QED
    BY <2>1 DEF PurchaseInv, TypeOK, TxState, BookStock, Working
<1> HIDE DEF s
<1>2. /\ tx' \in [Requests -> TxState] /\ Open \subseteq Open' /\ q \in Open'
      /\ \A p \in Requests \ {q} : tx'[p] = tx[p]
      /\ tx'[q] = s
  <2>1. tx \in [Requests -> TxState]
    BY DEF PurchaseInv, TypeOK
  <2>2. "sumReceived" \in Working
    BY DEF Working
  <2> QED
    BY <1>1, <2>1, <2>2, OpenGrows
<1>3. /\ stock' \in [Receipts -> Versioned(Nat, Requests)]
      /\ stock'[r] = Put(q, Fresh(0), 1)
      /\ \A k \in Receipts \ {r} : stock'[k] = stock[k]
      /\ UNCHANGED <<purchase, items, receipts, bills>>
  <2>1. stock \in [Receipts -> Versioned(Nat, Requests)]
    BY DEF PurchaseInv, TypeOK
  <2>2. stock' = [stock EXCEPT ![r] = Put(q, Fresh(0), 1)]
    BY <1>a, <1>0, <2>1 DEF BookStock, Fresh
  <2>3. Put(q, Fresh(0), 1) \in Versioned(Nat, Requests)
    BY FreshType, RowTypes
  <2> QED
    BY <1>a, <2>1, <2>2, <2>3 DEF BookStock
<1>4. TypeOK' /\ StatusInv'
  <2>1. tx[q].pc # "commit"
    BY DEF BookStock, At
  <2> QED
    BY <1>1, <1>2, <1>3, <2>1, StatusKept DEF PurchaseInv, TypeOK
<1>5. TidyInv'
  BY <1>a, <1>2, <1>3 DEF PurchaseInv, TidyInv, Tidy, Put
<1>6. ReceiptsInv'
  <2> SUFFICES ASSUME NEW k \in Receipts PROVE ReceiptOK(k)'
    BY DEF ReceiptsInv
  <2>1. CASE k = r
    BY <1>a, <1>0, <1>1, <1>2, <1>3, <2>1 DEF ReceiptOK, BeingConfirmed, Closing
  <2>2. CASE k # r
    <3>1. ReceiptOK(k) /\ receipts'[k] = receipts[k] /\ stock'[k] = stock[k]
      BY <1>3, <2>2 DEF PurchaseInv, ReceiptsInv
    <3>2. AtRest(k) \/ receipts[k].lock # q
      BY <2>2, <3>1 DEF ReceiptOK, BeingInserted, BeingConfirmed, BookStock, At
    <3> QED
      BY <1>2, <3>1, <3>2 DEF ReceiptOK, AtRest, BeingInserted, BeingConfirmed
  <2> QED
    BY <2>1, <2>2
<1>7. HandlersInv'
  <2> SUFFICES ASSUME NEW p \in Requests PROVE HandlerOK(p, tx[p])'
    BY DEF HandlersInv
  <2>1. CASE p = q
    BY <1>1, <1>2, <2>1 DEF HandlerOK
  <2>2. CASE p # q
    BY <1>2, <1>3, <2>2 DEF HandlerOK, PurchaseInv, HandlersInv
  <2> QED
    BY <2>1, <2>2
<1> QED
  BY <1>4, <1>5, <1>6, <1>7 DEF PurchaseInv

LEMMA OpenShrinks ==
  ASSUME NEW q \in Requests, tx \in [Requests -> TxState], Finish(q)
  PROVE  /\ tx' \in [Requests -> TxState]
         /\ Open' = Open \ {q} /\ tx'[q] = TxAt("ended")
         /\ \A p \in Requests \ {q} : tx'[p] = tx[p]
<1>1. tx' = [tx EXCEPT ![q] = TxAt("ended")]
  BY DEF Finish
<1>2. TxAt("ended") \in TxState /\ TxAt("ended").pc = "ended" /\ "ended" \notin Working
  BY NewIdle DEF TxAt, Working
<1> QED
  BY <1>1, <1>2 DEF Open

LEMMA EndedRows ==
  ASSUME NEW V, NEW D, NEW table \in [D -> Versioned(V, Requests)],
         NEW q \in Requests
  PROVE  /\ RolledBackAll(q, table) \in [D -> Versioned(V, Requests)]
         /\ CommittedAll(q, table) \in [D -> Versioned(V, Requests)]
         /\ \A k \in D : /\ RolledBackAll(q, table)[k] = RolledBack(q, table[k])
                         /\ CommittedAll(q, table)[k] = Committed(q, table[k])
BY RowTypes DEF RolledBackAll, CommittedAll

LEMMA TidyEnds ==
  ASSUME NEW q, q # Nobody, NEW open, NEW row,
         row.lock \in open \cup {Nobody}, row.lock = Nobody => row.cur = row.com,
         NEW new \in {RolledBack(q, row), Committed(q, row)}
  PROVE  /\ new.lock \in (open \ {q}) \cup {Nobody}
         /\ new.lock = Nobody => new.cur = new.com
BY DEF RolledBack, Committed, Fresh

LEMMA RollbackStep ==
  ASSUME PurchaseInv, NEW q \in Requests, Rollback(q)
  PROVE  PurchaseInv'
<1>0. /\ tx' \in [Requests -> TxState]
      /\ Open' = Open \ {q} /\ tx'[q] = TxAt("ended")
      /\ \A p \in Requests \ {q} : tx'[p] = tx[p]
      /\ q # Nobody /\ Nobody \notin Requests
  BY OpenShrinks, Workload DEF Rollback, PurchaseInv, TypeOK
<1>1. /\ purchase' = RolledBack(q, purchase)
      /\ \A i \in Items : items'[i] = RolledBack(q, items[i])
      /\ \A r \in Receipts : receipts'[r] = RolledBack(q, receipts[r])
      /\ \A b \in Bills : bills'[b] = RolledBack(q, bills[b])
      /\ \A r \in Receipts : stock'[r] = RolledBack(q, stock[r])
  <2>1. purchase' = RolledBack(q, purchase)
    BY DEF Rollback
  <2>2. \A i \in Items : items'[i] = RolledBack(q, items[i])
    <3>1. items \in [Items -> Versioned(ItemRow, Requests)] /\ items' = RolledBackAll(q, items)
      BY DEF PurchaseInv, TypeOK, Rollback
    <3> QED
      BY <3>1, EndedRows
  <2>3. \A r \in Receipts : receipts'[r] = RolledBack(q, receipts[r])
    <3>1. receipts \in [Receipts -> Versioned(ReceiptStatus, Requests)] /\ receipts' = RolledBackAll(q, receipts)
      BY DEF PurchaseInv, TypeOK, Rollback
    <3> QED
      BY <3>1, EndedRows
  <2>4. \A b \in Bills : bills'[b] = RolledBack(q, bills[b])
    <3>1. bills \in [Bills -> Versioned(BillStatus, Requests)] /\ bills' = RolledBackAll(q, bills)
      BY DEF PurchaseInv, TypeOK, Rollback
    <3> QED
      BY <3>1, EndedRows
  <2>5. \A r \in Receipts : stock'[r] = RolledBack(q, stock[r])
    <3>1. stock \in [Receipts -> Versioned(Nat, Requests)] /\ stock' = RolledBackAll(q, stock)
      BY DEF PurchaseInv, TypeOK, Rollback
    <3> QED
      BY <3>1, EndedRows
  <2> QED
    BY <2>1, <2>2, <2>3, <2>4, <2>5
<1>2. TypeOK'
  <2>1. purchase' \in Versioned(PurchaseStatus, Requests)
    BY <1>1, RowTypes DEF PurchaseInv, TypeOK
  <2>2. items' \in [Items -> Versioned(ItemRow, Requests)]
    BY EndedRows DEF PurchaseInv, TypeOK, Rollback
  <2>3. receipts' \in [Receipts -> Versioned(ReceiptStatus, Requests)]
    BY EndedRows DEF PurchaseInv, TypeOK, Rollback
  <2>4. bills' \in [Bills -> Versioned(BillStatus, Requests)]
    BY EndedRows DEF PurchaseInv, TypeOK, Rollback
  <2>5. stock' \in [Receipts -> Versioned(Nat, Requests)]
    BY EndedRows DEF PurchaseInv, TypeOK, Rollback
  <2> QED
    BY <1>0, <2>1, <2>2, <2>3, <2>4, <2>5 DEF TypeOK
<1>3. TidyInv'
  <2>1. Tidy(purchase)'
    BY <1>0, <1>1 DEF PurchaseInv, TidyInv, Tidy, RolledBack, Fresh
  <2>2. \A i \in Items : Tidy(items[i])'
    <3> TAKE i \in Items
    <3>1. items'[i] = RolledBack(q, items[i])
      BY <1>1
    <3>2. /\ items[i].lock \in Open \cup {Nobody}
          /\ items[i].lock = Nobody => items[i].cur = items[i].com
      BY DEF PurchaseInv, TidyInv, Tidy
    <3>3. /\ items'[i].lock \in (Open \ {q}) \cup {Nobody}
          /\ items'[i].lock = Nobody => items'[i].cur = items'[i].com
      BY <1>0, <3>1, <3>2, TidyEnds
    <3> QED
      BY <1>0, <3>3 DEF Tidy
  <2>3. \A r \in Receipts : Tidy(receipts[r])'
    <3> TAKE r \in Receipts
    <3>1. receipts'[r] = RolledBack(q, receipts[r])
      BY <1>1
    <3>2. /\ receipts[r].lock \in Open \cup {Nobody}
          /\ receipts[r].lock = Nobody => receipts[r].cur = receipts[r].com
      BY DEF PurchaseInv, TidyInv, Tidy
    <3>3. /\ receipts'[r].lock \in (Open \ {q}) \cup {Nobody}
          /\ receipts'[r].lock = Nobody => receipts'[r].cur = receipts'[r].com
      BY <1>0, <3>1, <3>2, TidyEnds
    <3> QED
      BY <1>0, <3>3 DEF Tidy
  <2>4. \A b \in Bills : Tidy(bills[b])'
    <3> TAKE b \in Bills
    <3>1. bills'[b] = RolledBack(q, bills[b])
      BY <1>1
    <3>2. /\ bills[b].lock \in Open \cup {Nobody}
          /\ bills[b].lock = Nobody => bills[b].cur = bills[b].com
      BY DEF PurchaseInv, TidyInv, Tidy
    <3>3. /\ bills'[b].lock \in (Open \ {q}) \cup {Nobody}
          /\ bills'[b].lock = Nobody => bills'[b].cur = bills'[b].com
      BY <1>0, <3>1, <3>2, TidyEnds
    <3> QED
      BY <1>0, <3>3 DEF Tidy
  <2>5. \A r \in Receipts : Tidy(stock[r])'
    <3> TAKE r \in Receipts
    <3>1. stock'[r] = RolledBack(q, stock[r])
      BY <1>1
    <3>2. /\ stock[r].lock \in Open \cup {Nobody}
          /\ stock[r].lock = Nobody => stock[r].cur = stock[r].com
      BY DEF PurchaseInv, TidyInv, Tidy
    <3>3. /\ stock'[r].lock \in (Open \ {q}) \cup {Nobody}
          /\ stock'[r].lock = Nobody => stock'[r].cur = stock'[r].com
      BY <1>0, <3>1, <3>2, TidyEnds
    <3> QED
      BY <1>0, <3>3 DEF Tidy
  <2> QED
    BY <2>1, <2>2, <2>3, <2>4, <2>5 DEF TidyInv
<1>4. StatusInv'
  <2>1. purchase.lock \in Requests \cup {Nobody}
    BY DEF PurchaseInv, TypeOK, Versioned
  <2> QED
    BY <1>0, <1>1, <2>1 DEF PurchaseInv, StatusInv, RolledBack, Fresh
<1>5. ReceiptsInv'
  <2> SUFFICES ASSUME NEW r \in Receipts PROVE ReceiptOK(r)'
    BY DEF ReceiptsInv
  <2>1. ReceiptOK(r) /\ receipts'[r] = RolledBack(q, receipts[r]) /\ stock'[r] = RolledBack(q, stock[r])
    BY <1>1 DEF PurchaseInv, ReceiptsInv
  <2>2. CASE AtRest(r)
    BY <1>0, <2>1, <2>2 DEF ReceiptOK, AtRest, RolledBack, Fresh
  <2>3. CASE BeingInserted(r)
    <3>1. CASE receipts[r].lock = q
      BY <1>0, <2>1, <2>3, <3>1 DEF ReceiptOK, BeingInserted, AtRest, RolledBack, Fresh
    <3>2. CASE receipts[r].lock # q
      BY <1>0, <2>1, <2>3, <3>2 DEF ReceiptOK, BeingInserted, RolledBack, Fresh
    <3> QED
      BY <3>1, <3>2
  <2>4. CASE BeingConfirmed(r)
    <3>1. CASE receipts[r].lock = q
      BY <1>0, <2>1, <2>4, <3>1 DEF ReceiptOK, BeingConfirmed, AtRest, RolledBack, Fresh, Put
    <3>2. CASE receipts[r].lock # q
      BY <1>0, <2>1, <2>4, <3>2 DEF ReceiptOK, BeingConfirmed, RolledBack, Fresh, Put
    <3> QED
      BY <3>1, <3>2
  <2> QED
    BY <2>1, <2>2, <2>3, <2>4 DEF ReceiptOK
<1>6. HandlersInv'
  <2> SUFFICES ASSUME NEW p \in Requests PROVE HandlerOK(p, tx[p])'
    BY DEF HandlersInv
  <2>1. CASE p = q
    BY <1>0, <2>1 DEF HandlerOK, TxAt
  <2>2. CASE p # q
    <3>1. HandlerOK(p, tx[p]) /\ tx'[p] = tx[p]
      BY <1>0, <2>2 DEF PurchaseInv, HandlersInv
    <3>2. Op[p] \in {"createReceipt", "confirmReceipt"} => Target[p] \in Receipts
      BY Workload DEF TargetsOf
    <3>3. Op[p] = "createReceipt" /\ tx[p].pc = "new" =>
            receipts'[Target[p]] = receipts[Target[p]]
      BY <1>0, <1>1, <3>1, <3>2 DEF HandlerOK, RolledBack, Fresh
    <3>4. tx[p].pc = "bookStock" => receipts'[Target[p]] = receipts[Target[p]]
      BY <1>1, <2>2, <3>1, <3>2 DEF HandlerOK, RolledBack
    <3> QED
      BY <3>1, <3>3, <3>4 DEF HandlerOK
  <2> QED
    BY <2>1, <2>2
<1> QED
  BY <1>2, <1>3, <1>4, <1>5, <1>6 DEF PurchaseInv

LEMMA CommitStep ==
  ASSUME PurchaseInv, NEW q \in Requests, Commit(q)
  PROVE  PurchaseInv'
<1>0. /\ tx' \in [Requests -> TxState]
      /\ Open' = Open \ {q} /\ tx'[q] = TxAt("ended")
      /\ \A p \in Requests \ {q} : tx'[p] = tx[p]
      /\ q # Nobody /\ Nobody \notin Requests /\ tx[q].pc = "commit"
  BY OpenShrinks, Workload DEF Commit, At, PurchaseInv, TypeOK
<1>1. /\ purchase' = Committed(q, purchase)
      /\ \A i \in Items : items'[i] = Committed(q, items[i])
      /\ \A r \in Receipts : receipts'[r] = Committed(q, receipts[r])
      /\ \A b \in Bills : bills'[b] = Committed(q, bills[b])
      /\ \A r \in Receipts : stock'[r] = Committed(q, stock[r])
  <2>1. purchase' = Committed(q, purchase)
    BY DEF Commit
  <2>2. \A i \in Items : items'[i] = Committed(q, items[i])
    <3>1. items \in [Items -> Versioned(ItemRow, Requests)] /\ items' = CommittedAll(q, items)
      BY DEF PurchaseInv, TypeOK, Commit
    <3> QED
      BY <3>1, EndedRows
  <2>3. \A r \in Receipts : receipts'[r] = Committed(q, receipts[r])
    <3>1. receipts \in [Receipts -> Versioned(ReceiptStatus, Requests)] /\ receipts' = CommittedAll(q, receipts)
      BY DEF PurchaseInv, TypeOK, Commit
    <3> QED
      BY <3>1, EndedRows
  <2>4. \A b \in Bills : bills'[b] = Committed(q, bills[b])
    <3>1. bills \in [Bills -> Versioned(BillStatus, Requests)] /\ bills' = CommittedAll(q, bills)
      BY DEF PurchaseInv, TypeOK, Commit
    <3> QED
      BY <3>1, EndedRows
  <2>5. \A r \in Receipts : stock'[r] = Committed(q, stock[r])
    <3>1. stock \in [Receipts -> Versioned(Nat, Requests)] /\ stock' = CommittedAll(q, stock)
      BY DEF PurchaseInv, TypeOK, Commit
    <3> QED
      BY <3>1, EndedRows
  <2> QED
    BY <2>1, <2>2, <2>3, <2>4, <2>5
<1>2. TypeOK'
  <2>1. purchase' \in Versioned(PurchaseStatus, Requests)
    BY <1>1, RowTypes DEF PurchaseInv, TypeOK
  <2>2. items' \in [Items -> Versioned(ItemRow, Requests)]
    BY EndedRows DEF PurchaseInv, TypeOK, Commit
  <2>3. receipts' \in [Receipts -> Versioned(ReceiptStatus, Requests)]
    BY EndedRows DEF PurchaseInv, TypeOK, Commit
  <2>4. bills' \in [Bills -> Versioned(BillStatus, Requests)]
    BY EndedRows DEF PurchaseInv, TypeOK, Commit
  <2>5. stock' \in [Receipts -> Versioned(Nat, Requests)]
    BY EndedRows DEF PurchaseInv, TypeOK, Commit
  <2> QED
    BY <1>0, <2>1, <2>2, <2>3, <2>4, <2>5 DEF TypeOK
<1>3. TidyInv'
  <2>1. Tidy(purchase)'
    BY <1>0, <1>1 DEF PurchaseInv, TidyInv, Tidy, Committed, Fresh
  <2>2. \A i \in Items : Tidy(items[i])'
    <3> TAKE i \in Items
    <3>1. items'[i] = Committed(q, items[i])
      BY <1>1
    <3>2. /\ items[i].lock \in Open \cup {Nobody}
          /\ items[i].lock = Nobody => items[i].cur = items[i].com
      BY DEF PurchaseInv, TidyInv, Tidy
    <3>3. /\ items'[i].lock \in (Open \ {q}) \cup {Nobody}
          /\ items'[i].lock = Nobody => items'[i].cur = items'[i].com
      BY <1>0, <3>1, <3>2, TidyEnds
    <3> QED
      BY <1>0, <3>3 DEF Tidy
  <2>3. \A r \in Receipts : Tidy(receipts[r])'
    <3> TAKE r \in Receipts
    <3>1. receipts'[r] = Committed(q, receipts[r])
      BY <1>1
    <3>2. /\ receipts[r].lock \in Open \cup {Nobody}
          /\ receipts[r].lock = Nobody => receipts[r].cur = receipts[r].com
      BY DEF PurchaseInv, TidyInv, Tidy
    <3>3. /\ receipts'[r].lock \in (Open \ {q}) \cup {Nobody}
          /\ receipts'[r].lock = Nobody => receipts'[r].cur = receipts'[r].com
      BY <1>0, <3>1, <3>2, TidyEnds
    <3> QED
      BY <1>0, <3>3 DEF Tidy
  <2>4. \A b \in Bills : Tidy(bills[b])'
    <3> TAKE b \in Bills
    <3>1. bills'[b] = Committed(q, bills[b])
      BY <1>1
    <3>2. /\ bills[b].lock \in Open \cup {Nobody}
          /\ bills[b].lock = Nobody => bills[b].cur = bills[b].com
      BY DEF PurchaseInv, TidyInv, Tidy
    <3>3. /\ bills'[b].lock \in (Open \ {q}) \cup {Nobody}
          /\ bills'[b].lock = Nobody => bills'[b].cur = bills'[b].com
      BY <1>0, <3>1, <3>2, TidyEnds
    <3> QED
      BY <1>0, <3>3 DEF Tidy
  <2>5. \A r \in Receipts : Tidy(stock[r])'
    <3> TAKE r \in Receipts
    <3>1. stock'[r] = Committed(q, stock[r])
      BY <1>1
    <3>2. /\ stock[r].lock \in Open \cup {Nobody}
          /\ stock[r].lock = Nobody => stock[r].cur = stock[r].com
      BY DEF PurchaseInv, TidyInv, Tidy
    <3>3. /\ stock'[r].lock \in (Open \ {q}) \cup {Nobody}
          /\ stock'[r].lock = Nobody => stock'[r].cur = stock'[r].com
      BY <1>0, <3>1, <3>2, TidyEnds
    <3> QED
      BY <1>0, <3>3 DEF Tidy
  <2> QED
    BY <2>1, <2>2, <2>3, <2>4, <2>5 DEF TidyInv
<1>4. StatusInv'
  <2>1. purchase.lock \in Requests \cup {Nobody}
    BY DEF PurchaseInv, TypeOK, Versioned
  <2> QED
    BY <1>0, <1>1, <2>1 DEF PurchaseInv, StatusInv, Committed, Fresh
<1>5. ReceiptsInv'
  <2> SUFFICES ASSUME NEW r \in Receipts PROVE ReceiptOK(r)'
    BY DEF ReceiptsInv
  <2>1. ReceiptOK(r) /\ receipts'[r] = Committed(q, receipts[r]) /\ stock'[r] = Committed(q, stock[r])
    BY <1>1 DEF PurchaseInv, ReceiptsInv
  <2>2. CASE AtRest(r)
    BY <1>0, <2>1, <2>2 DEF ReceiptOK, AtRest, Committed, Fresh
  <2>3. CASE BeingInserted(r)
    <3>1. CASE receipts[r].lock = q
      BY <1>0, <2>1, <2>3, <3>1 DEF ReceiptOK, BeingInserted, AtRest, Committed, Fresh
    <3>2. CASE receipts[r].lock # q
      BY <1>0, <2>1, <2>3, <3>2 DEF ReceiptOK, BeingInserted, Committed, Fresh
    <3> QED
      BY <3>1, <3>2
  <2>4. CASE BeingConfirmed(r)
    <3>1. CASE receipts[r].lock = q
      BY <1>0, <2>1, <2>4, <3>1 DEF ReceiptOK, BeingConfirmed, AtRest, Committed, Fresh, Put
    <3>2. CASE receipts[r].lock # q
      BY <1>0, <2>1, <2>4, <3>2 DEF ReceiptOK, BeingConfirmed, Committed, Fresh, Put
    <3> QED
      BY <3>1, <3>2
  <2> QED
    BY <2>1, <2>2, <2>3, <2>4 DEF ReceiptOK
<1>6. HandlersInv'
  <2> SUFFICES ASSUME NEW p \in Requests PROVE HandlerOK(p, tx[p])'
    BY DEF HandlersInv
  <2>1. CASE p = q
    BY <1>0, <2>1 DEF HandlerOK, TxAt
  <2>2. CASE p # q
    <3>1. HandlerOK(p, tx[p]) /\ tx'[p] = tx[p]
      BY <1>0, <2>2 DEF PurchaseInv, HandlersInv
    <3>2. Op[p] \in {"createReceipt", "confirmReceipt"} => Target[p] \in Receipts
      BY Workload DEF TargetsOf
    <3>3. Op[p] = "createReceipt" /\ tx[p].pc = "new" =>
            receipts'[Target[p]] = receipts[Target[p]]
      BY <1>0, <1>1, <3>1, <3>2 DEF HandlerOK, Committed, Fresh
    <3>4. tx[p].pc = "bookStock" => receipts'[Target[p]] = receipts[Target[p]]
      BY <1>1, <2>2, <3>1, <3>2 DEF HandlerOK, Committed
    <3> QED
      BY <3>1, <3>3, <3>4 DEF HandlerOK
  <2> QED
    BY <2>1, <2>2
<1> QED
  BY <1>2, <1>3, <1>4, <1>5, <1>6 DEF PurchaseInv

-----------------------------------------------------------------------------
(* Every action is one of these steps. *)

\* Goto a statement that has no precondition but the operation.
LEMMA GotoStep ==
  ASSUME PurchaseInv, NEW q \in Requests, NEW pc \in Working,
         Goto(q, pc), UNCHANGED tables,
         Onward(tx[q].pc, pc), tx[q].pc # "bookStock",
         HandlerOK(q, [tx[q] EXCEPT !.pc = pc])
  PROVE  PurchaseInv'
<1> DEFINE s == [tx[q] EXCEPT !.pc = pc]
<1>1. s \in TxState /\ s.pc = pc /\ tx' = [tx EXCEPT ![q] = s]
  BY DEF PurchaseInv, TypeOK, TxState, Goto
<1>2. HandlerOK(q, s)
  OBVIOUS
<1> HIDE DEF s
<1> QED
  BY <1>1, <1>2, ReadStep

\* A handler that has statements left has not written the status.
LEMMA UnwrittenStatus ==
  ASSUME PurchaseInv, NEW q \in Requests, Lockable(q, purchase), tx[q].pc # "commit"
  PROVE  purchase.lock = Nobody /\ Seen(q, purchase) = purchase.com
<1>1. q # Nobody
  BY Workload
<1>2. purchase.lock # q
  BY <1>1 DEF PurchaseInv, StatusInv
<1> QED
  BY <1>2 DEF Lockable, Seen

LEMMA OrderSteps ==
  ASSUME PurchaseInv, NEW q \in Requests, OrderStep(q)
  PROVE  PurchaseInv'
<1>t. tx[q] \in TxState /\ HandlerOK(q, tx[q])
  BY DEF PurchaseInv, TypeOK, HandlersInv
<1>1. CASE Issue(q)
  <2>1. CASE Goto(q, "casIssued") /\ UNCHANGED tables
    <3>1. HandlerOK(q, [tx[q] EXCEPT !.pc = "casIssued"])
      BY <1>t DEF HandlerOK, TxState
    <3>2. "casIssued" \in Working /\ Onward(tx[q].pc, "casIssued")
      BY <1>1 DEF Issue, CanBegin, Onward, Working, Closing
    <3> QED
      BY <1>1, <2>1, <3>1, <3>2, GotoStep DEF Issue, CanBegin
  <2> QED
    BY <1>1, <2>1, RollbackStep DEF Issue
<1>2. CASE TransitionToIssued(q)
  <2>1. CASE Rollback(q)
    BY <2>1, RollbackStep
  <2>2. CASE ~Rollback(q)
    <3>1. purchase.lock = Nobody /\ purchase.com = "draft"
      <4>1. Seen(q, purchase) = "draft" /\ Lockable(q, purchase) /\ tx[q].pc = "casIssued"
        BY <1>2, <2>2 DEF TransitionToIssued, At
      <4> QED
        BY <4>1, UnwrittenStatus
    <3>2. tx[q].pc \in Working \ {"commit", "bookStock"} /\ "issued" \in PurchaseStatus
      BY <1>2 DEF TransitionToIssued, At, Working, PurchaseStatus
    <3> QED
      BY <1>2, <2>2, <3>1, <3>2, StatusStep DEF TransitionToIssued
  <2> QED
    BY <2>1, <2>2
<1>3. CASE Cancel(q)
  <2>1. CASE Rollback(q)
    BY <2>1, RollbackStep
  <2>2. CASE ~Rollback(q)
    <3> DEFINE s == [tx[q] EXCEPT !.pc = "casCancelled", !.from = Seen(q, purchase)]
    <3>1. Seen(q, purchase) \in {"draft", "issued"} /\ tx' = [tx EXCEPT ![q] = s] /\ UNCHANGED tables
      BY <1>3, <2>2 DEF Cancel
    <3>2. s \in TxState /\ s.pc = "casCancelled" /\ s.from \in {"draft", "issued"}
      BY <1>t, <3>1 DEF TxState, Working, PurchaseStatus
    <3> HIDE DEF s
    <3>3. HandlerOK(q, s) /\ Onward(tx[q].pc, s.pc) /\ tx[q].pc # "bookStock"
      BY <1>3, <3>2 DEF HandlerOK, Cancel, CanBegin, Onward, Working, Closing
    <3> QED
      BY <3>1, <3>2, <3>3, ReadStep
  <2> QED
    BY <2>1, <2>2
<1>4. CASE TransitionToCancelled(q)
  <2>1. CASE Rollback(q)
    BY <2>1, RollbackStep
  <2>2. CASE ~Rollback(q)
    <3>1. purchase.lock = Nobody /\ purchase.com \in {"draft", "issued"}
      <4>1. /\ Seen(q, purchase) \in {"draft", "issued"} /\ Lockable(q, purchase)
            /\ tx[q].pc = "casCancelled"
        BY <1>t, <1>4, <2>2 DEF TransitionToCancelled, At, HandlerOK, StatusAsRead
      <4> QED
        BY <4>1, UnwrittenStatus
    <3>2. tx[q].pc \in Working \ {"commit", "bookStock"} /\ "cancelled" \in PurchaseStatus
      BY <1>4 DEF TransitionToCancelled, At, Working, PurchaseStatus
    <3> QED
      BY <1>4, <2>2, <3>1, <3>2, StatusStep DEF TransitionToCancelled
  <2> QED
    BY <2>1, <2>2
<1>5. CASE EditItem(q)
  <2>1. CASE Rollback(q)
    BY <2>1, RollbackStep
  <2>2. CASE ~Rollback(q)
    <3>1. Op[q] \in {"addItem", "updateItem"} /\ tx[q].pc = "new" /\ Goto(q, "writeItem") /\ UNCHANGED tables
      BY <1>5, <2>2 DEF EditItem, CanBegin
    <3>2. HandlerOK(q, [tx[q] EXCEPT !.pc = "writeItem"])
      BY <1>t, <3>1 DEF HandlerOK, TxState
    <3>3. "writeItem" \in Working /\ Onward(tx[q].pc, "writeItem")
      BY <3>1 DEF Onward, Working, Closing
    <3> QED
      BY <3>1, <3>2, <3>3, GotoStep
  <2> QED
    BY <2>1, <2>2
<1>6. CASE WriteItem(q)
  <2> DEFINE i == Target[q]
             row == IF Op[q] = "addItem" THEN OrderedRow(Quantity[q])
                    ELSE [items[i].cur EXCEPT !.quantity = Quantity[q]]
             s == [tx[q] EXCEPT !.pc = "commit"]
  <2>1. i \in Items
    BY <1>t, <1>6, Workload DEF WriteItem, At, HandlerOK, TargetsOf
  <2>2. row \in ItemRow
    <3>1. Quantity[q] \in Nat
      BY Workload
    <3>2. items[i].cur \in ItemRow
      BY <2>1 DEF PurchaseInv, TypeOK, Versioned
    <3> QED
      BY <3>1, <3>2 DEF ItemRow, OrderedRow, LineStatuses
  <2>3. /\ items' = [items EXCEPT ![i] = Put(q, @, row)]
        /\ tx' = [tx EXCEPT ![q] = s] /\ UNCHANGED <<purchase, receipts, bills, stock>>
    BY <1>6 DEF WriteItem, Goto
  <2>4. s \in TxState /\ s.pc = "commit"
    BY <1>t DEF TxState, Working
  <2> HIDE DEF i, row, s
  <2>5. HandlerOK(q, s) /\ Onward(tx[q].pc, s.pc) /\ tx[q].pc # "bookStock"
    BY <1>6, <2>4 DEF HandlerOK, WriteItem, At, Onward, Working, Closing
  <2> QED
    BY <2>1, <2>2, <2>3, <2>4, <2>5, ItemStep
<1> QED
  BY <1>1, <1>2, <1>3, <1>4, <1>5, <1>6 DEF OrderStep

LEMMA ReceiptSteps ==
  ASSUME PurchaseInv, NEW q \in Requests, ReceiptStep(q)
  PROVE  PurchaseInv'
<1>t. tx[q] \in TxState /\ HandlerOK(q, tx[q])
  BY DEF PurchaseInv, TypeOK, HandlersInv
<1>r. Op[q] \in {"createReceipt", "confirmReceipt"} => Target[q] \in Receipts
  BY Workload DEF TargetsOf
<1>1. CASE CreateReceipt(q)
  <2>1. CASE Rollback(q)
    BY <2>1, RollbackStep
  <2>2. CASE ~Rollback(q)
    BY <1>1, <1>r, <2>2, InsertStep DEF CreateReceipt, CanBegin
  <2> QED
    BY <2>1, <2>2
<1>2. CASE ConfirmReceipt(q)
  <2>1. CASE Rollback(q)
    BY <2>1, RollbackStep
  <2>2. CASE ~Rollback(q)
    <3>1. Op[q] = "confirmReceipt" /\ tx[q].pc = "new" /\ Goto(q, "casConfirmed") /\ UNCHANGED tables
      BY <1>2, <2>2 DEF ConfirmReceipt, CanBegin
    <3>2. HandlerOK(q, [tx[q] EXCEPT !.pc = "casConfirmed"])
      BY <1>t, <3>1 DEF HandlerOK, TxState
    <3>3. "casConfirmed" \in Working /\ Onward(tx[q].pc, "casConfirmed")
      BY <3>1 DEF Onward, Working, Closing
    <3> QED
      BY <3>1, <3>2, <3>3, GotoStep
  <2> QED
    BY <2>1, <2>2
<1>3. CASE TransitionToConfirmed(q)
  <2>1. CASE Rollback(q)
    BY <2>1, RollbackStep
  <2>2. CASE ~Rollback(q)
    <3>1. Target[q] \in Receipts
      BY <1>3, <1>r, <1>t DEF TransitionToConfirmed, At, HandlerOK
    <3> QED
      BY <1>3, <2>2, <3>1, ConfirmStep DEF TransitionToConfirmed, At
  <2> QED
    BY <2>1, <2>2
<1>4. CASE BookStock(q)
  BY <1>4, BookStep
<1> QED
  BY <1>1, <1>2, <1>3, <1>4 DEF ReceiptStep

LEMMA BillSteps ==
  ASSUME PurchaseInv, NEW q \in Requests, BillStep(q)
  PROVE  PurchaseInv'
<1>t. tx[q] \in TxState /\ HandlerOK(q, tx[q])
  BY DEF PurchaseInv, TypeOK, HandlersInv
<1>b. Op[q] \in {"createBill", "approveBill"} => Target[q] \in Bills
  BY Workload DEF TargetsOf
<1>1. CASE CreateBill(q)
  <2>1. CASE Rollback(q)
    BY <2>1, RollbackStep
  <2>2. CASE ~Rollback(q)
    <3> DEFINE s == [tx[q] EXCEPT !.pc = "checkBill", !.ordered = SeenAll(q, items),
                                  !.billed = SumBilled(SeenAll(q, bills))]
    <3>1. Op[q] = "createBill" /\ tx[q].pc = "new" /\ tx' = [tx EXCEPT ![q] = s] /\ UNCHANGED tables
      BY <1>1, <2>2 DEF CreateBill, CanBegin
    <3>2. s \in TxState /\ s.pc = "checkBill"
      <4>1. SeenAll(q, items) \in [Items -> ItemRow]
        BY SeenItems DEF PurchaseInv
      <4>2. SumBilled(SeenAll(q, bills)) \in [Items -> Nat]
        BY BilledType
      <4> QED
        BY <1>t, <4>1, <4>2 DEF TxState, Working
    <3> HIDE DEF s
    <3>3. HandlerOK(q, s) /\ Onward(tx[q].pc, s.pc) /\ tx[q].pc # "bookStock"
      BY <3>1, <3>2 DEF HandlerOK, Onward, Working, Closing
    <3> QED
      BY <3>1, <3>2, <3>3, ReadStep
  <2> QED
    BY <2>1, <2>2
<1>2. CASE CheckBill(q)
  <2>1. CASE Rollback(q)
    BY <2>1, RollbackStep
  <2>2. CASE ~Rollback(q)
    <3> DEFINE s == [tx[q] EXCEPT !.pc = "commit"]
               b == Target[q]
    <3>1. /\ b \in Bills /\ bills' = [bills EXCEPT ![b] = Put(q, @, "draft")]
          /\ tx' = [tx EXCEPT ![q] = s] /\ UNCHANGED <<purchase, items, receipts, stock>>
      BY <1>2, <1>b, <1>t, <2>2 DEF CheckBill, Goto, At, HandlerOK
    <3>2. s \in TxState /\ s.pc = "commit" /\ "draft" \in BillStatus
      BY <1>t DEF TxState, Working, BillStatus
    <3> HIDE DEF s, b
    <3>3. HandlerOK(q, s) /\ Onward(tx[q].pc, s.pc) /\ tx[q].pc # "bookStock"
      BY <1>2, <3>2 DEF HandlerOK, CheckBill, At, Onward, Working, Closing
    <3> QED
      BY <3>1, <3>2, <3>3, BillsStep
  <2> QED
    BY <2>1, <2>2
<1>3. CASE ApproveBill(q)
  <2>1. CASE Rollback(q)
    BY <2>1, RollbackStep
  <2>2. CASE ~Rollback(q)
    <3>1. Op[q] = "approveBill" /\ tx[q].pc = "new" /\ Goto(q, "casApproved") /\ UNCHANGED tables
      BY <1>3, <2>2 DEF ApproveBill, CanBegin
    <3>2. HandlerOK(q, [tx[q] EXCEPT !.pc = "casApproved"])
      BY <1>t, <3>1 DEF HandlerOK, TxState
    <3>3. "casApproved" \in Working /\ Onward(tx[q].pc, "casApproved")
      BY <3>1 DEF Onward, Working, Closing
    <3> QED
      BY <3>1, <3>2, <3>3, GotoStep
  <2> QED
    BY <2>1, <2>2
<1>4. CASE TransitionToApproved(q)
  <2>1. CASE Rollback(q)
    BY <2>1, RollbackStep
  <2>2. CASE ~Rollback(q)
    <3> DEFINE s == [tx[q] EXCEPT !.pc = "listItems"]
               b == Target[q]
    <3>1. /\ b \in Bills /\ bills' = [bills EXCEPT ![b] = Put(q, @, "approved")]
          /\ tx' = [tx EXCEPT ![q] = s] /\ UNCHANGED <<purchase, items, receipts, stock>>
      BY <1>4, <1>b, <1>t, <2>2 DEF TransitionToApproved, Goto, At, HandlerOK
    <3>2. s \in TxState /\ s.pc = "listItems" /\ "approved" \in BillStatus
      BY <1>t DEF TxState, Working, BillStatus
    <3> HIDE DEF s, b
    <3>3. HandlerOK(q, s) /\ Onward(tx[q].pc, s.pc) /\ tx[q].pc # "bookStock"
      BY <1>4, <3>2 DEF HandlerOK, TransitionToApproved, At, Onward, Working, Closing
    <3> QED
      BY <3>1, <3>2, <3>3, BillsStep
  <2> QED
    BY <2>1, <2>2
<1> QED
  BY <1>1, <1>2, <1>3, <1>4 DEF BillStep

LEMMA ShortCloseSteps ==
  ASSUME PurchaseInv, NEW q \in Requests, ShortCloseStep(q)
  PROVE  PurchaseInv'
<1>t. tx[q] \in TxState /\ HandlerOK(q, tx[q])
  BY DEF PurchaseInv, TypeOK, HandlersInv
<1>i. Op[q] \in {"shortCloseLine", "reopenLine"} => Target[q] \in Items
  BY Workload DEF TargetsOf
<1>s. /\ SeenAll(q, items) \in [Items -> ItemRow]
      /\ SumReceived(SeenAll(q, receipts)) \in [Items -> Nat]
  BY SeenItems, ReceivedType DEF PurchaseInv
<1>1. CASE ShortCloseLine(q)
  <2>1. CASE Rollback(q)
    BY <2>1, RollbackStep
  <2>2. CASE ~Rollback(q)
    <3> DEFINE s == [tx[q] EXCEPT !.pc = "sumLine", !.ordered = SeenAll(q, items),
                                  !.todo = {Target[q]}]
    <3>1. Op[q] = "shortCloseLine" /\ tx[q].pc = "new" /\ tx' = [tx EXCEPT ![q] = s] /\ UNCHANGED tables
      BY <1>1, <2>2 DEF ShortCloseLine, CanBegin
    <3>2. s \in TxState /\ s.pc = "sumLine" /\ s.todo # {}
      BY <1>t, <1>i, <1>s, <3>1 DEF TxState, Working
    <3> HIDE DEF s
    <3>3. HandlerOK(q, s) /\ Onward(tx[q].pc, s.pc) /\ tx[q].pc # "bookStock"
      BY <3>1, <3>2 DEF HandlerOK, Onward, Working, Closing
    <3> QED
      BY <3>1, <3>2, <3>3, ReadStep
  <2> QED
    BY <2>1, <2>2
<1>2. CASE ShortCloseAll(q)
  <2> DEFINE s == [tx[q] EXCEPT !.pc = "listLines",
                                !.received = SumReceived(SeenAll(q, receipts))]
  <2>1. Op[q] = "shortCloseAll" /\ tx[q].pc = "new" /\ tx' = [tx EXCEPT ![q] = s] /\ UNCHANGED tables
    BY <1>2 DEF ShortCloseAll, CanBegin
  <2>2. s \in TxState /\ s.pc = "listLines"
    BY <1>t, <1>s DEF TxState, Working
  <2> HIDE DEF s
  <2>3. HandlerOK(q, s) /\ Onward(tx[q].pc, s.pc) /\ tx[q].pc # "bookStock"
    BY <2>1, <2>2 DEF HandlerOK, Onward, Working, Closing
  <2> QED
    BY <2>1, <2>2, <2>3, ReadStep
<1>3. CASE ListLines(q)
  <2> DEFINE ordered == SeenAll(q, items)
             partial == {i \in Listed(ordered) :
                           LineStatus(ordered[i].quantity, tx[q].received[i],
                                      ordered[i].shortClosed) = "partial"}
             s == [tx[q] EXCEPT !.pc = IF partial = {} THEN "commit" ELSE "shortClose",
                                !.ordered = ordered, !.todo = partial]
  <2>1. tx[q].pc = "listLines" /\ tx' = [tx EXCEPT ![q] = s] /\ UNCHANGED tables
    BY <1>3 DEF ListLines, At
  <2>2. partial \subseteq Items
    BY DEF Listed
  <2> HIDE DEF partial
  <2>3. /\ s \in TxState /\ s.pc \in {"commit", "shortClose"}
        /\ s.pc = "shortClose" => s.todo # {}
    BY <1>t, <1>s, <2>2 DEF TxState, Working
  <2> HIDE DEF s
  <2>4. HandlerOK(q, s) /\ Onward(tx[q].pc, s.pc) /\ tx[q].pc # "bookStock"
    BY <1>t, <2>1, <2>3 DEF HandlerOK, Onward, Working, Closing
  <2> QED
    BY <2>1, <2>3, <2>4, ReadStep
<1>4. CASE ReopenLine(q)
  <2>1. CASE Rollback(q)
    BY <2>1, RollbackStep
  <2>2. CASE ~Rollback(q)
    <3>1. Op[q] = "reopenLine" /\ tx[q].pc = "new" /\ Goto(q, "findLine") /\ UNCHANGED tables
      BY <1>4, <2>2 DEF ReopenLine, CanBegin
    <3>2. HandlerOK(q, [tx[q] EXCEPT !.pc = "findLine"])
      BY <1>t, <3>1 DEF HandlerOK, TxState
    <3>3. "findLine" \in Working /\ Onward(tx[q].pc, "findLine")
      BY <3>1 DEF Onward, Working, Closing
    <3> QED
      BY <3>1, <3>2, <3>3, GotoStep
  <2> QED
    BY <2>1, <2>2
<1>5. CASE FindLine(q)
  <2>1. CASE Rollback(q)
    BY <2>1, RollbackStep
  <2>2. CASE ~Rollback(q)
    <3> DEFINE s == [tx[q] EXCEPT !.pc = "sumLine", !.ordered = SeenAll(q, items)]
    <3>1. tx[q].pc = "findLine" /\ tx' = [tx EXCEPT ![q] = s] /\ UNCHANGED tables
      BY <1>5, <2>2 DEF FindLine, At
    <3>2. s \in TxState /\ s.pc = "sumLine"
      BY <1>t, <1>s DEF TxState, Working
    <3> HIDE DEF s
    <3>3. HandlerOK(q, s) /\ Onward(tx[q].pc, s.pc) /\ tx[q].pc # "bookStock"
      BY <1>t, <3>1, <3>2 DEF HandlerOK, Onward, Working, Closing
    <3> QED
      BY <3>1, <3>2, <3>3, ReadStep
  <2> QED
    BY <2>1, <2>2
<1>6. CASE SumLine(q)
  <2> DEFINE s == [tx[q] EXCEPT
                     !.pc = IF Op[q] = "reopenLine" THEN "reopen" ELSE "shortClose",
                     !.received = SumReceived(SeenAll(q, receipts))]
  <2>1. tx[q].pc = "sumLine" /\ tx' = [tx EXCEPT ![q] = s] /\ UNCHANGED tables
    BY <1>6 DEF SumLine, At
  <2>2. /\ s \in TxState /\ s.todo = tx[q].todo
        /\ s.pc = IF Op[q] = "reopenLine" THEN "reopen" ELSE "shortClose"
    BY <1>t, <1>s DEF TxState, Working
  <2> HIDE DEF s
  <2>3. HandlerOK(q, s) /\ Onward(tx[q].pc, s.pc) /\ tx[q].pc # "bookStock"
    BY <1>t, <2>1, <2>2 DEF HandlerOK, Onward, Working, Closing
  <2> QED
    BY <2>1, <2>2, <2>3, ReadStep
<1>7. CASE WriteShortClose(q)
  <2>1. CASE Rollback(q)
    BY <2>1, RollbackStep
  <2>2. CASE ~Rollback(q)
    <3> DEFINE i == Min(tx[q].todo)
               qty == tx[q].ordered[i].quantity
               received == tx[q].received[i]
               rest == tx[q].todo \ {i}
               row == [items[i].cur EXCEPT !.shortClosed = WrittenOff(qty, received),
                                           !.lineStatus = "short_closed"]
               s == [tx[q] EXCEPT !.pc = IF rest = {} THEN "listItems" ELSE "shortClose",
                                  !.todo = rest]
    <3>1. /\ tx[q].pc = "shortClose" /\ PartlyReceived(qty, received)
          /\ items' = [items EXCEPT ![i] = Put(q, @, row)]
          /\ tx' = [tx EXCEPT ![q] = s] /\ UNCHANGED <<purchase, receipts, bills, stock>>
      BY <1>7, <2>2 DEF WriteShortClose, At
    <3>2. tx[q].todo \in SUBSET Items /\ tx[q].todo # {}
      BY <1>t, <3>1 DEF TxState, HandlerOK
    <3>3. i \in Items
      BY <3>2, FirstItem
    <3> HIDE DEF i
    <3>4. row \in ItemRow
      <4>1. items[i].cur \in ItemRow
        BY <3>3 DEF PurchaseInv, TypeOK, Versioned
      <4>2. qty \in Nat /\ received \in Nat
        BY <1>t, <3>3 DEF TxState, ItemRow
      <4>3. WrittenOff(qty, received) \in Nat
        BY <3>1, <4>2 DEF WrittenOff, PartlyReceived
      <4> QED
        BY <4>1, <4>3 DEF ItemRow, LineStatuses
    <3>5. /\ s \in TxState /\ s.pc \in {"listItems", "shortClose"}
          /\ s.pc = "shortClose" => s.todo # {}
      BY <1>t, <3>2 DEF TxState, Working
    <3> HIDE DEF s, row, qty, received, rest
    <3>6. HandlerOK(q, s) /\ Onward(tx[q].pc, s.pc) /\ tx[q].pc # "bookStock"
      BY <1>t, <3>1, <3>5 DEF HandlerOK, Onward, Working, Closing
    <3> QED
      BY <3>1, <3>3, <3>4, <3>5, <3>6, ItemStep
  <2> QED
    BY <2>1, <2>2
<1>8. CASE WriteReopened(q)
  <2> DEFINE i == Target[q]
             status == Reopened(tx[q].ordered[i].quantity, tx[q].received[i])
             row == [items[i].cur EXCEPT !.shortClosed = 0, !.lineStatus = status]
             s == [tx[q] EXCEPT !.pc = "commit"]
  <2>1. /\ tx[q].pc = "reopen" /\ items' = [items EXCEPT ![i] = Put(q, @, row)]
        /\ tx' = [tx EXCEPT ![q] = s] /\ UNCHANGED <<purchase, receipts, bills, stock>>
    BY <1>8 DEF WriteReopened, At, Goto
  <2>2. i \in Items
    BY <1>t, <1>i, <2>1 DEF HandlerOK
  <2>3. status \in LineStatuses
    BY DEF Reopened, LineStatus, LineStatuses
  <2> HIDE DEF status
  <2>4. row \in ItemRow
    <3>1. items[i].cur \in ItemRow
      BY <2>2 DEF PurchaseInv, TypeOK, Versioned
    <3> QED
      BY <2>3, <3>1 DEF ItemRow
  <2>5. s \in TxState /\ s.pc = "commit"
    BY <1>t DEF TxState, Working
  <2> HIDE DEF s, row, i
  <2>6. HandlerOK(q, s) /\ Onward(tx[q].pc, s.pc) /\ tx[q].pc # "bookStock"
    BY <2>1, <2>5 DEF HandlerOK, Onward, Working, Closing
  <2> QED
    BY <2>1, <2>2, <2>4, <2>5, <2>6, ItemStep
<1> QED
  BY <1>1, <1>2, <1>3, <1>4, <1>5, <1>6, <1>7, <1>8 DEF ShortCloseStep

LEMMA CloseSteps ==
  ASSUME PurchaseInv, NEW q \in Requests, CloseStep(q)
  PROVE  PurchaseInv'
<1>t. tx[q] \in TxState /\ HandlerOK(q, tx[q])
  BY DEF PurchaseInv, TypeOK, HandlersInv
<1>1. CASE ListItems(q)
  <2> DEFINE s == [tx[q] EXCEPT !.pc = "sumReceived", !.ordered = SeenAll(q, items)]
  <2>1. tx[q].pc = "listItems" /\ tx' = [tx EXCEPT ![q] = s] /\ UNCHANGED tables
    BY <1>1 DEF ListItems, At
  <2>2. s \in TxState /\ s.pc = "sumReceived"
    BY <1>t, SeenItems DEF PurchaseInv, TxState, Working
  <2> HIDE DEF s
  <2>3. HandlerOK(q, s) /\ Onward(tx[q].pc, s.pc) /\ tx[q].pc # "bookStock"
    BY <2>1, <2>2 DEF HandlerOK, Onward, Working, Closing
  <2> QED
    BY <2>1, <2>2, <2>3, ReadStep
<1>2. CASE SumReceipts(q)
  <2> DEFINE s == [tx[q] EXCEPT !.pc = "sumBilled",
                                !.received = SumReceived(SeenAll(q, receipts))]
  <2>1. tx[q].pc = "sumReceived" /\ tx' = [tx EXCEPT ![q] = s] /\ UNCHANGED tables
    BY <1>2 DEF SumReceipts, At
  <2>2. s \in TxState /\ s.pc = "sumBilled"
    BY <1>t, ReceivedType DEF TxState, Working
  <2> HIDE DEF s
  <2>3. HandlerOK(q, s) /\ Onward(tx[q].pc, s.pc) /\ tx[q].pc # "bookStock"
    BY <2>1, <2>2 DEF HandlerOK, Onward, Working, Closing
  <2> QED
    BY <2>1, <2>2, <2>3, ReadStep
<1>3. CASE SumBills(q)
  <2>1. PICK pc \in {"close", "commit"} : Goto(q, pc)
    BY <1>3 DEF SumBills
  <2>2. tx[q].pc = "sumBilled" /\ UNCHANGED tables
    BY <1>3 DEF SumBills, At
  <2>3. HandlerOK(q, [tx[q] EXCEPT !.pc = pc])
    BY <1>t, <2>1 DEF HandlerOK, TxState
  <2>4. pc \in Working /\ Onward(tx[q].pc, pc)
    BY <2>1, <2>2 DEF Onward, Working, Closing
  <2> QED
    BY <2>1, <2>2, <2>3, <2>4, GotoStep
<1>4. CASE MaybeAutoClose(q)
  <2>0. tx[q].pc = "close" /\ Goto(q, "commit") /\ UNCHANGED <<items, receipts, bills, stock>>
    BY <1>4 DEF MaybeAutoClose, At
  <2>1. CASE UNCHANGED purchase
    <3>1. HandlerOK(q, [tx[q] EXCEPT !.pc = "commit"])
      BY <1>t, <2>0 DEF HandlerOK, TxState
    <3>2. "commit" \in Working /\ Onward(tx[q].pc, "commit")
      BY <2>0 DEF Onward, Working, Closing
    <3> QED
      BY <2>0, <2>1, <3>1, <3>2, GotoStep DEF tables
  <2>2. CASE purchase' # purchase
    <3>1. /\ Seen(q, purchase) = "issued" /\ Lockable(q, purchase)
          /\ purchase' = Put(q, purchase, "closed")
      BY <1>4, <2>2 DEF MaybeAutoClose
    <3>2. purchase.lock = Nobody /\ purchase.com = "issued"
      BY <2>0, <3>1, UnwrittenStatus
    <3>3. tx[q].pc \in Working \ {"commit", "bookStock"} /\ "closed" \in PurchaseStatus
      BY <2>0 DEF Working, PurchaseStatus
    <3> QED
      BY <2>0, <3>1, <3>2, <3>3, StatusStep
  <2> QED
    BY <2>1, <2>2
<1> QED
  BY <1>1, <1>2, <1>3, <1>4 DEF CloseStep

LEMMA StutterStep ==
  ASSUME PurchaseInv, UNCHANGED vars
  PROVE  PurchaseInv'
<1>1. UNCHANGED <<purchase, items, receipts, bills, stock, tx>>
  BY DEF vars
<1>2. TypeOK' /\ StatusInv' /\ ReceiptsInv' /\ HandlersInv'
  BY <1>1 DEF PurchaseInv, TypeOK, StatusInv, ReceiptsInv, ReceiptOK, AtRest,
              BeingInserted, BeingConfirmed, HandlersInv, HandlerOK
<1>3. TidyInv'
  BY <1>1 DEF PurchaseInv, TidyInv, Tidy, Open
<1> QED
  BY <1>2, <1>3 DEF PurchaseInv

LEMMA NextInv ==
  ASSUME PurchaseInv, [Next]_vars
  PROVE  PurchaseInv'
<1>1. ASSUME NEW q \in Requests, Step(q) \/ Crash(q)
      PROVE  PurchaseInv'
  BY <1>1, OrderSteps, ReceiptSteps, BillSteps, ShortCloseSteps, CloseSteps,
     CommitStep, RollbackStep DEF Step, Crash
<1>2. CASE UNCHANGED vars
  BY <1>2, StutterStep
<1> QED
  BY <1>1, <1>2 DEF Next, Done

-----------------------------------------------------------------------------
(* Theorems. *)

\* The inductive invariant.
THEOREM PurchaseInvariant == Spec => []PurchaseInv
<1>1. Init => PurchaseInv
  BY InitialInv
<1>2. PurchaseInv /\ [Next]_vars => PurchaseInv'
  BY NextInv
<1> QED
  BY <1>1, <1>2, PTL DEF Spec

\* Every table and every variable of a handler keeps its type: what is written
\* off of a line is never negative, whatever was received meanwhile.
THEOREM NothingIsNegative == Spec => []TypeOK
<1>1. PurchaseInv => TypeOK
  BY DEF PurchaseInv
<1> QED
  BY <1>1, PurchaseInvariant, PTL

\* A confirmed receipt has its lots, once, and no other receipt has any,
\* however many confirmations of it race and wherever one of them fails.
THEOREM ReceiptsBookStockOnce == Spec => []StockFollowsReceipt
<1>1. PurchaseInv => StockFollowsReceipt
  <2> SUFFICES ASSUME PurchaseInv, NEW r \in Receipts
               PROVE  stock[r].com = IF Receipt(r) = "confirmed" THEN 1 ELSE 0
    BY DEF StockFollowsReceipt
  <2>1. ReceiptOK(r)
    BY DEF PurchaseInv, ReceiptsInv
  <2> QED
    BY <2>1 DEF ReceiptOK, AtRest, BeingInserted, BeingConfirmed, Receipt, Fresh, Put
<1> QED
  BY <1>1, PurchaseInvariant, PTL

LEMMA FinalStatusStays ==
  ASSUME PurchaseInv, [Next]_vars, Status \in {"closed", "cancelled"}
  PROVE  Status' = Status
<1>1. ASSUME NEW q \in Requests, Step(q) \/ Crash(q)
      PROVE  purchase'.com = purchase.com
  <2>0. Rollback(q) \/ UNCHANGED purchase => purchase'.com = purchase.com
    BY DEF Rollback, RolledBack, Fresh
  <2>1. CASE OrderStep(q)
    BY <2>1 DEF OrderStep, Issue, TransitionToIssued, Cancel, TransitionToCancelled,
                EditItem, WriteItem, tables, Put, Rollback, RolledBack, Fresh
  <2>2. CASE ReceiptStep(q)
    BY <2>2 DEF ReceiptStep, CreateReceipt, ConfirmReceipt, TransitionToConfirmed,
                BookStock, tables, Rollback, RolledBack, Fresh
  <2>3. CASE BillStep(q)
    <3>1. CreateBill(q) => Rollback(q) \/ UNCHANGED purchase
      BY DEF CreateBill, tables
    <3>2. CheckBill(q) => Rollback(q) \/ UNCHANGED purchase
      BY DEF CheckBill, tables
    <3>3. ApproveBill(q) => Rollback(q) \/ UNCHANGED purchase
      BY DEF ApproveBill, tables
    <3>4. TransitionToApproved(q) => Rollback(q) \/ UNCHANGED purchase
      BY DEF TransitionToApproved, tables
    <3> QED
      BY <2>0, <2>3, <3>1, <3>2, <3>3, <3>4 DEF BillStep
  <2>4. CASE ShortCloseStep(q)
    <3>1. ShortCloseLine(q) => Rollback(q) \/ UNCHANGED purchase
      BY DEF ShortCloseLine, tables
    <3>2. ShortCloseAll(q) => Rollback(q) \/ UNCHANGED purchase
      BY DEF ShortCloseAll, tables
    <3>3. ListLines(q) => Rollback(q) \/ UNCHANGED purchase
      BY DEF ListLines, tables
    <3>4. ReopenLine(q) => Rollback(q) \/ UNCHANGED purchase
      BY DEF ReopenLine, tables
    <3>5. FindLine(q) => Rollback(q) \/ UNCHANGED purchase
      BY DEF FindLine, tables
    <3>6. SumLine(q) => Rollback(q) \/ UNCHANGED purchase
      BY DEF SumLine, tables
    <3>7. WriteShortClose(q) => Rollback(q) \/ UNCHANGED purchase
      BY DEF WriteShortClose, tables
    <3>8. WriteReopened(q) => Rollback(q) \/ UNCHANGED purchase
      BY DEF WriteReopened, tables
    <3> QED
      BY <2>0, <2>4, <3>1, <3>2, <3>3, <3>4, <3>5, <3>6, <3>7, <3>8 DEF ShortCloseStep
  <2>5. CASE CloseStep(q)
    BY <2>5 DEF CloseStep, ListItems, SumReceipts, SumBills, MaybeAutoClose, tables, Put
  <2>6. CASE Commit(q)
    <3>1. q # Nobody /\ purchase.com \notin {"draft", "issued"}
      BY Workload DEF Status
    <3>2. purchase.lock # q
      BY <3>1 DEF PurchaseInv, StatusInv
    <3> QED
      BY <2>6, <3>2 DEF Commit, Committed
  <2>7. CASE Crash(q)
    BY <2>7 DEF Crash, Rollback, RolledBack, Fresh
  <2> QED
    BY <1>1, <2>1, <2>2, <2>3, <2>4, <2>5, <2>6, <2>7 DEF Step
<1>2. CASE UNCHANGED vars
  BY <1>2 DEF vars, Status
<1> QED
  BY <1>1, <1>2 DEF Next, Done, Status

\* A closed or cancelled order keeps its status, whichever handlers had read
\* an earlier one and were about to write.
THEOREM FinalStatus == Spec => TerminalStays
<1>1. PurchaseInv /\ [Next]_vars =>
        [(Status \in {"closed", "cancelled"}) => Status' = Status]_vars
  BY FinalStatusStays
<1> QED
  BY <1>1, PurchaseInvariant, PTL DEF Spec, TerminalStays

-----------------------------------------------------------------------------
(* One request at a time.  What is received and billed is summed from the  *)
(* documents, so that the second invariant is about the tables as a whole: *)
(* as they are committed, and as the only open transaction has made them.  *)

ComItems    == [i \in Items |-> items[i].com]
ComReceipts == [r \in Receipts |-> receipts[r].com]
ComBills    == [b \in Bills |-> bills[b].com]
CurItems    == [i \in Items |-> items[i].cur]
CurReceipts == [r \in Receipts |-> receipts[r].cur]
CurBills    == [b \in Bills |-> bills[b].cur]

Expected(row) == row.quantity - row.shortClosed

\* Of every item, what is expected is received and billed.
Complete(rows, received, billed) ==
  /\ Listed(rows) # {}
  /\ \A i \in Listed(rows) : /\ received[i] >= Expected(rows[i])
                             /\ billed[i] >= Expected(rows[i])

\* What is written off of a line is a part of it, and is not received.
LineOK(row, received) ==
  /\ row.shortClosed > 0 <=> row.lineStatus = "short_closed"
  /\ row.shortClosed > 0 => /\ row.shortClosed < row.quantity
                            /\ received + row.shortClosed >= row.quantity

\* Tables that any statement may leave behind.
Sound(status, rows, rcp, bls) ==
  /\ \A i \in Items : LineOK(rows[i], SumReceived(rcp)[i])
  /\ status = "draft" => \A r \in Receipts : rcp[r] = "none"
  /\ NoLineIsShortClosed /\ status = "closed" =>
       Complete(rows, SumReceived(rcp), SumBilled(bls))

\* Tables that a transaction may commit.
Decided(status, rows, rcp, bls) ==
  status = "issued" /\ Complete(rows, SumReceived(rcp), SumBilled(bls)) =>
    \E b \in Bills : bls[b] = "draft"

Committable == /\ Sound(purchase.com, ComItems, ComReceipts, ComBills)
               /\ Decided(purchase.com, ComItems, ComReceipts, ComBills)

Untouched == /\ purchase.lock = Nobody
             /\ \A i \in Items : items[i].lock = Nobody
             /\ \A r \in Receipts : receipts[r].lock = Nobody
             /\ \A b \in Bills : bills[b].lock = Nobody

Editable == purchase.cur \notin {"closed", "cancelled"}

\* The only open transaction: what its variables t say of the tables.
SerialOK(t) ==
  /\ Sound(purchase.cur, CurItems, CurReceipts, CurBills)
  /\ t.pc \in {"casIssued", "casCancelled", "writeItem", "casConfirmed", "checkBill",
               "casApproved", "findLine", "sumLine", "listLines", "reopen"} => Untouched
  /\ t.pc = "writeItem" => ~HasReceipt /\ Editable
  /\ t.pc = "checkBill" => t.ordered = CurItems /\ t.billed = SumBilled(CurBills)
  /\ t.pc = "findLine" => Editable
  /\ t.pc = "sumLine" => t.ordered = CurItems
  /\ t.pc = "listLines" => t.received = SumReceived(CurReceipts)
  /\ t.pc = "shortClose" =>
       /\ t.received = SumReceived(CurReceipts)
       /\ \A i \in t.todo : /\ t.ordered[i] = CurItems[i]
                            /\ NoLineIsShortClosed => CurItems[i].shortClosed = 0
  /\ t.pc = "reopen" => /\ Editable
                        /\ t.ordered = CurItems
                        /\ t.received = SumReceived(CurReceipts)
  /\ t.pc \in {"sumReceived", "sumBilled"} => t.ordered = CurItems
  /\ t.pc = "sumBilled" => t.received = SumReceived(CurReceipts)
  /\ t.pc = "close" =>
       Complete(CurItems, SumReceived(CurReceipts), SumBilled(CurBills))
  /\ t.pc = "commit" => Decided(purchase.cur, CurItems, CurReceipts, CurBills)

\* A reopenLine that looks for its line found the order editable.
ReopenOK(q, t) == t.pc = "sumLine" /\ Op[q] = "reopenLine" => Editable

\* An ordered quantity that is about to change is not received at all.
QuantitiesKept ==
  HasReceipt => \A i \in Items : items[i].cur.quantity = items[i].com.quantity

\* A bill that is about to be committed fits the ceilings.
BillFits ==
  \A i \in Items : SumBilled(CurBills)[i] > SumBilled(ComBills)[i] =>
    /\ SumBilled(CurBills)[i] <= BillableCeiling(CurItems[i], SumReceived(CurReceipts)[i])
    /\ \A q \in Open : tx[q].pc = "commit"

SerialInv ==
  /\ \A p, q \in Open : p = q
  /\ Committable
  /\ \A q \in Open : SerialOK(tx[q]) /\ ReopenOK(q, tx[q])
  /\ QuantitiesKept
  /\ OneLinePerItem => BillFits

-----------------------------------------------------------------------------
(* Sums over receipts and bills. *)

LEMMA ReceivedTotal ==
  ASSUME NEW status, NEW i \in Items
  PROVE  LET counted == {r \in Receipts : status[r] = "confirmed"}
         IN /\ IsFiniteSet(counted)
            /\ \A r \in counted : [x \in counted |-> ReceiptQty[x][i]][r] \in Nat
            /\ SumReceived(status)[i] = Total([x \in counted |-> ReceiptQty[x][i]], counted)
<1> DEFINE counted == {r \in Receipts : status[r] = "confirmed"}
<1>1. IsFiniteSet(counted)
  BY Workload, FS_Subset
<1>2. \A r \in counted : [x \in counted |-> ReceiptQty[x][i]][r] \in Nat
  BY DocumentSums
<1>3. SumReceived(status)[i] = MapThenSumSet(LAMBDA r : ReceiptQty[r][i], counted)
  BY DEF SumReceived
<1> HIDE DEF counted
<1>4. SumReceived(status)[i] = Total([x \in counted |-> ReceiptQty[x][i]], counted)
  BY <1>1, <1>3, TotalOfEntries
<1> QED
  BY <1>1, <1>2, <1>4 DEF counted

LEMMA BilledTotal ==
  ASSUME NEW status, NEW i \in Items
  PROVE  LET counted == {b \in Bills : status[b] # "none"}
         IN /\ IsFiniteSet(counted)
            /\ \A b \in counted : [x \in counted |-> BillQty[x][i]][b] \in Nat
            /\ SumBilled(status)[i] = Total([x \in counted |-> BillQty[x][i]], counted)
<1> DEFINE counted == {b \in Bills : status[b] # "none"}
<1>1. IsFiniteSet(counted)
  BY Workload, FS_Subset
<1>2. \A b \in counted : [x \in counted |-> BillQty[x][i]][b] \in Nat
  BY DocumentSums
<1>3. SumBilled(status)[i] = MapThenSumSet(LAMBDA b : BillQty[b][i], counted)
  BY DEF SumBilled
<1> HIDE DEF counted
<1>4. SumBilled(status)[i] = Total([x \in counted |-> BillQty[x][i]], counted)
  BY <1>1, <1>3, TotalOfEntries
<1> QED
  BY <1>1, <1>2, <1>4 DEF counted

LEMMA NothingReceived ==
  ASSUME NEW status, \A r \in Receipts : status[r] # "confirmed", NEW i \in Items
  PROVE  SumReceived(status)[i] = 0
<1>1. {r \in Receipts : status[r] = "confirmed"} = {}
  OBVIOUS
<1> QED
  BY <1>1, ReceivedTotal, TotalEmpty

LEMMA ReceivedGrows ==
  ASSUME NEW old, NEW new,
         \A r \in Receipts : old[r] = "confirmed" => new[r] = "confirmed",
         NEW i \in Items
  PROVE  SumReceived(old)[i] <= SumReceived(new)[i]
<1> DEFINE S == {r \in Receipts : old[r] = "confirmed"}
           T == {r \in Receipts : new[r] = "confirmed"}
           v == [x \in S |-> ReceiptQty[x][i]]
           w == [x \in T |-> ReceiptQty[x][i]]
<1>1. /\ IsFiniteSet(S) /\ IsFiniteSet(T) /\ S \in SUBSET T
      /\ \A r \in T : w[r] \in Nat
      /\ SumReceived(old)[i] = Total(v, S) /\ SumReceived(new)[i] = Total(w, T)
      /\ \A r \in S : v[r] = w[r]
  BY ReceivedTotal
<1> HIDE DEF S, T, v, w
<1>2. Total(v, S) = Total(w, S)
  BY <1>1, TotalAgrees
<1>3. Total(w, S) <= Total(w, T)
  BY <1>1, TotalMonotone
<1> QED
  BY <1>1, <1>2, <1>3

LEMMA BilledGrows ==
  ASSUME NEW old, NEW new,
         \A b \in Bills : old[b] # "none" => new[b] # "none",
         NEW i \in Items
  PROVE  SumBilled(old)[i] <= SumBilled(new)[i]
<1> DEFINE S == {b \in Bills : old[b] # "none"}
           T == {b \in Bills : new[b] # "none"}
           v == [x \in S |-> BillQty[x][i]]
           w == [x \in T |-> BillQty[x][i]]
<1>1. /\ IsFiniteSet(S) /\ IsFiniteSet(T) /\ S \in SUBSET T
      /\ \A b \in T : w[b] \in Nat
      /\ SumBilled(old)[i] = Total(v, S) /\ SumBilled(new)[i] = Total(w, T)
      /\ \A b \in S : v[b] = w[b]
  BY BilledTotal
<1> HIDE DEF S, T, v, w
<1>2. Total(v, S) = Total(w, S)
  BY <1>1, TotalAgrees
<1>3. Total(w, S) <= Total(w, T)
  BY <1>1, TotalMonotone
<1> QED
  BY <1>1, <1>2, <1>3

LEMMA SameReceived ==
  ASSUME NEW old, NEW new,
         \A r \in Receipts : old[r] = "confirmed" <=> new[r] = "confirmed"
  PROVE  SumReceived(old) = SumReceived(new)
<1>1. {r \in Receipts : old[r] = "confirmed"} = {r \in Receipts : new[r] = "confirmed"}
  OBVIOUS
<1> QED
  BY <1>1 DEF SumReceived

LEMMA SameBilled ==
  ASSUME NEW old, NEW new,
         \A b \in Bills : old[b] = "none" <=> new[b] = "none"
  PROVE  SumBilled(old) = SumBilled(new)
<1>1. {b \in Bills : old[b] # "none"} = {b \in Bills : new[b] # "none"}
  OBVIOUS
<1> QED
  BY <1>1 DEF SumBilled

\* A new bill adds its own quantities.
LEMMA BilledAdds ==
  ASSUME NEW old, NEW new, NEW b \in Bills, old[b] = "none", new[b] # "none",
         \A c \in Bills \ {b} : new[c] = old[c],
         NEW i \in Items
  PROVE  SumBilled(new)[i] = SumBilled(old)[i] + BillQty[b][i]
<1> DEFINE S == {c \in Bills : old[c] # "none"}
           T == {c \in Bills : new[c] # "none"}
           v == [x \in S |-> BillQty[x][i]]
           w == [x \in T |-> BillQty[x][i]]
<1>1. /\ IsFiniteSet(S) /\ IsFiniteSet(T) /\ b \in T /\ T \ {b} = S
      /\ \A c \in T : w[c] \in Nat
      /\ SumBilled(old)[i] = Total(v, S) /\ SumBilled(new)[i] = Total(w, T)
      /\ \A c \in S : v[c] = w[c]
      /\ w[b] = BillQty[b][i]
  BY BilledTotal
<1>2. Total(v, S) \in Nat
  BY BilledType, <1>1
<1> HIDE DEF S, T, v, w
<1>3. Total(v, S) = Total(w, S)
  BY <1>1, TotalAgrees
<1>4. Total(w, T) = w[b] + Total(w, S)
  BY <1>1, TotalWithout
<1>5. w[b] \in Nat
  BY <1>1
<1> QED
  BY <1>1, <1>2, <1>3, <1>4, <1>5

LEMMA OneLine ==
  ASSUME OneLinePerItem, NEW b \in Bills, NEW i \in Items
  PROVE  \/ BillQty[b][i] = 0
         \/ \E k \in DOMAIN BillLines[b] : /\ BillLines[b][k].item = i
                                           /\ BillQty[b][i] = BillLines[b][k].qty
<1> DEFINE lines == BillLines[b]
           S == {k \in DOMAIN lines : lines[k].item = i}
           w == [k \in S |-> lines[k].qty]
<1>1. /\ lines \in Seq(Line)
      /\ BillQty[b][i] = MapThenSumSet(LAMBDA k : lines[k].qty, S)
  BY Workload DEF BillQty, QtyOf
<1>2. CASE S = {}
  <2>1. IsFiniteSet(S)
    BY <1>2, FS_EmptySet
  <2> HIDE DEF S
  <2>2. BillQty[b][i] = Total(w, S)
    BY <1>1, <2>1, TotalOfQuantities
  <2> QED
    BY <1>2, <2>2, TotalEmpty
<1>3. CASE S # {}
  <2>1. PICK k \in S : TRUE
    BY <1>3
  <2>2. S = {k} /\ k \in DOMAIN lines /\ lines[k].item = i
    BY <2>1 DEF OneLinePerItem
  <2>3. lines[k] \in Line
    BY <1>1, <2>2
  <2>4. IsFiniteSet(S) /\ w[k] = lines[k].qty /\ lines[k].qty \in Nat
    <3>1. lines[k].qty \in Nat
      <4> HIDE DEF lines
      <4> QED
        BY <2>3 DEF Line
    <3>2. IsFiniteSet({k})
      BY FS_Singleton
    <3>3. IsFiniteSet(S)
      BY <2>2, <3>2
    <3> QED
      BY <3>1, <3>3, <2>1
  <2> HIDE DEF S, w
  <2>5. BillQty[b][i] = Total([x \in S |-> lines[x].qty], S)
    BY <1>1, <2>4, TotalOfQuantities
  <2>6. Total(w, {k}) = w[k]
    BY <2>4, TotalOfOne
  <2> QED
    BY <2>2, <2>4, <2>5, <2>6 DEF w
<1> QED
  BY <1>2, <1>3

-----------------------------------------------------------------------------
(* Lines, and orders that are complete. *)

LEMMA MinOfTwo ==
  ASSUME NEW a \in Int, NEW b \in Int
  PROVE  Min({a, b}) = IF a <= b THEN a ELSE b
<1> DEFINE m == IF a <= b THEN a ELSE b
<1>1. m \in {a, b} /\ \A x \in {a, b} : m <= x
  OBVIOUS
<1>2. \A y \in {a, b} : (\A x \in {a, b} : y <= x) => y = m
  OBVIOUS
<1> QED
  BY <1>1, <1>2 DEF Min

\* Billing what is expected and received is billing what is expected, once
\* that is received.
LEMMA DoneIsComplete ==
  ASSUME TypeOK
  PROVE  OrderIsDone <=> Complete(ComItems, SumReceived(ComReceipts), SumBilled(ComBills))
<1> DEFINE R == SumReceived(ComReceipts)
           B == SumBilled(ComBills)
<1>0. /\ R \in [Items -> Nat] /\ B \in [Items -> Nat]
      /\ ComItems \in [Items -> ItemRow]
  BY ReceivedType, BilledType DEF TypeOK, ComItems, Versioned
<1>1. ReceivedQty = R
  BY DEF ReceivedQty, ComReceipts, Receipt
<1>2. BilledQty = B
  <2>1. {b \in Bills : Bill(b) # "none"} = {b \in Bills : ComBills[b] # "none"}
    BY DEF Bill, ComBills
  <2> QED
    BY <2>1 DEF BilledQty, SumBilled
<1>3. [i \in Items |-> Row(i)] = ComItems
  BY DEF Row, ComItems
<1> HIDE DEF R, B
<1>4. ASSUME NEW i \in Items
      PROVE  LET e == Row(i).quantity - Row(i).shortClosed IN
             /\ e = Expected(ComItems[i]) /\ e \in Int
             /\ R[i] >= e => Min({e, R[i]}) = e
  <2>1. Row(i) = ComItems[i] /\ Row(i) \in ItemRow
    BY <1>0, <1>3
  <2>2. Row(i).quantity - Row(i).shortClosed \in Int
    BY <2>1 DEF ItemRow
  <2>3. R[i] \in Int
    BY <1>0
  <2> QED
    BY <2>1, <2>2, <2>3, MinOfTwo DEF Expected
<1>5. Listed(ComItems) \subseteq Items
  BY DEF Listed
<1>6. OrderIsDone <=>
        /\ Listed(ComItems) # {}
        /\ \A i \in Listed(ComItems) :
             LET e == Row(i).quantity - Row(i).shortClosed IN
             R[i] >= e /\ B[i] >= Min({e, R[i]})
  BY <1>1, <1>2, <1>3 DEF OrderIsDone
<1> HIDE DEF R, B
<1>7. \A i \in Listed(ComItems) :
        LET e == Row(i).quantity - Row(i).shortClosed IN
        (R[i] >= e /\ B[i] >= Min({e, R[i]})) <=>
          (R[i] >= Expected(ComItems[i]) /\ B[i] >= Expected(ComItems[i]))
  BY <1>4, <1>5
<1>8. OrderIsDone <=> Complete(ComItems, R, B)
  BY <1>6, <1>7 DEF Complete
<1> QED
  BY <1>8 DEF R, B

\* The axes that the automatic close computes say that the order is complete.
LEMMA FinishedIsComplete ==
  ASSUME NEW rows \in [Items -> ItemRow],
         NEW received \in [Items -> Nat], NEW billed \in [Items -> Nat],
         \A i \in Items : LineOK(rows[i], received[i])
  PROVE  Finished(rows, received, billed) <=> Complete(rows, received, billed)
<1> DEFINE listed == Listed(rows)
           written == {i \in listed : rows[i].shortClosed > 0}
           full(i) == received[i] >= rows[i].quantity
           ceiling(i) == BillableCeiling(rows[i], received[i])
<1>0. ASSUME NEW i \in listed
      PROVE  /\ i \in Items /\ rows[i].quantity \in Nat /\ rows[i].quantity > 0
             /\ rows[i].shortClosed \in Nat
             /\ received[i] \in Nat /\ billed[i] \in Nat
             /\ Expected(rows[i]) = rows[i].quantity - rows[i].shortClosed
             /\ Expected(rows[i]) \in Nat /\ Expected(rows[i]) > 0
             /\ rows[i].shortClosed > 0 => received[i] >= Expected(rows[i])
  BY DEF Listed, ItemRow, LineOK, Expected
<1>1. ASSUME NEW i \in listed, received[i] >= Expected(rows[i])
      PROVE  ceiling(i) = Expected(rows[i])
  <2>1. received[i] > 0
    BY <1>0, <1>1
  <2>2. ceiling(i) = Min({Expected(rows[i]), received[i]})
    BY <1>0, <2>1 DEF BillableCeiling
  <2>3. Min({Expected(rows[i]), received[i]}) = Expected(rows[i])
    BY <1>0, <1>1, MinOfTwo
  <2> QED
    BY <2>2, <2>3
<1> HIDE DEF listed, full, ceiling
<1>2. ASSUME Complete(rows, received, billed)
      PROVE  Finished(rows, received, billed)
  <2>1. /\ listed # {}
        /\ \A i \in listed : /\ received[i] >= Expected(rows[i])
                             /\ billed[i] >= Expected(rows[i])
    BY <1>2 DEF Complete, listed
  <2>2. \A i \in listed : ~full(i) => i \in written
    BY <1>0, <2>1 DEF full
  <2>3. ReceivedStatus(rows, received) \in {"fully_received", "short_closed"}
    <3>1. CASE \A i \in listed : full(i)
      BY <2>1, <3>1 DEF ReceivedStatus, listed, full
    <3>2. CASE ~\A i \in listed : full(i)
      <4>1. written # {} /\ \A i \in listed \ written : full(i)
        BY <2>2, <3>2
      <4> QED
        BY <2>1, <3>2, <4>1 DEF ReceivedStatus, listed, full
    <3> QED
      BY <3>1, <3>2
  <2>4. ~\A i \in listed : billed[i] = 0
    BY <1>0, <2>1
  <2>5. \A i \in listed : billed[i] >= ceiling(i)
    BY <1>1, <2>1
  <2>6. BilledStatus(rows, billed, received) = "fully_billed"
    BY <2>4, <2>5 DEF BilledStatus, listed, ceiling
  <2> QED
    BY <2>3, <2>6 DEF Finished
<1>3. ASSUME Finished(rows, received, billed)
      PROVE  Complete(rows, received, billed)
  <2>1. /\ ReceivedStatus(rows, received) \in {"fully_received", "short_closed"}
        /\ BilledStatus(rows, billed, received) = "fully_billed"
    BY <1>3 DEF Finished
  <2>2. \A i \in listed : billed[i] >= ceiling(i)
    BY <2>1 DEF BilledStatus, listed, ceiling
  <2>3. listed # {}
    BY <2>1 DEF ReceivedStatus, listed
  <2>4. \A i \in listed \ written : full(i)
    <3>1. CASE \A i \in listed : full(i)
      BY <3>1
    <3>2. CASE ~\A i \in listed : full(i)
      <4>1. ReceivedStatus(rows, received) \in {"short_closed", "partial", "not_received"}
        BY <3>2, <2>3 DEF ReceivedStatus, listed, full
      <4>2. ReceivedStatus(rows, received) = "short_closed"
        BY <2>1, <4>1
      <4>3. ~(written # {} /\ \A i \in listed \ written : full(i)) =>
              ReceivedStatus(rows, received) \in {"partial", "not_received"}
        BY <3>2, <2>3 DEF ReceivedStatus, listed, full
      <4> QED
        BY <4>2, <4>3
    <3> QED
      BY <3>1, <3>2
  <2>5. \A i \in listed : received[i] >= Expected(rows[i])
    BY <1>0, <2>4 DEF full
  <2>6. \A i \in listed : billed[i] >= Expected(rows[i])
    BY <1>1, <2>2, <2>5
  <2> QED
    BY <2>3, <2>5, <2>6 DEF Complete, listed
<1> QED
  BY <1>2, <1>3

\* What is complete stays so when more is received or billed.
LEMMA CompleteGrows ==
  ASSUME NEW rows \in [Items -> ItemRow],
         NEW received \in [Items -> Nat], NEW billed \in [Items -> Nat],
         NEW receivedToo \in [Items -> Nat], NEW billedToo \in [Items -> Nat],
         \A i \in Items : received[i] <= receivedToo[i] /\ billed[i] <= billedToo[i],
         Complete(rows, received, billed)
  PROVE  Complete(rows, receivedToo, billedToo)
<1>1. \A i \in Listed(rows) : i \in Items /\ Expected(rows[i]) \in Int
  BY DEF Listed, Expected, ItemRow
<1>2. \A i \in Listed(rows) : /\ received[i] \in Nat /\ receivedToo[i] \in Nat
                              /\ billed[i] \in Nat /\ billedToo[i] \in Nat
                              /\ received[i] <= receivedToo[i]
                              /\ billed[i] <= billedToo[i]
  BY <1>1
<1>3. \A i \in Listed(rows) : /\ received[i] >= Expected(rows[i])
                              /\ billed[i] >= Expected(rows[i])
  BY DEF Complete
<1>4. \A i \in Listed(rows) : /\ receivedToo[i] >= Expected(rows[i])
                              /\ billedToo[i] >= Expected(rows[i])
  BY <1>1, <1>2, <1>3
<1> QED
  BY <1>4 DEF Complete

\* Nothing is complete of which nothing is received.
LEMMA UnreceivedIsIncomplete ==
  ASSUME NEW rows \in [Items -> ItemRow], NEW received, NEW billed,
         \A i \in Items : received[i] = 0 /\ LineOK(rows[i], received[i])
  PROVE  /\ ~Complete(rows, received, billed)
         /\ \A i \in Items : rows[i].shortClosed = 0
<1>1. \A i \in Items : rows[i].quantity \in Nat /\ rows[i].shortClosed \in Nat
  BY DEF ItemRow
<1>2. \A i \in Items : rows[i].shortClosed = 0
  BY <1>1 DEF LineOK
<1>3. \A i \in Listed(rows) : ~(received[i] >= Expected(rows[i]))
  BY <1>1, <1>2 DEF Listed, Expected
<1> QED
  BY <1>2, <1>3 DEF Complete

-----------------------------------------------------------------------------
(* One transaction and the tables.                                         *)

LEMMA Types ==
  ASSUME TypeOK
  PROVE  /\ CurItems \in [Items -> ItemRow] /\ ComItems \in [Items -> ItemRow]
         /\ CurReceipts \in [Receipts -> ReceiptStatus]
         /\ CurBills \in [Bills -> BillStatus]
         /\ purchase.cur \in PurchaseStatus
BY DEF TypeOK, CurItems, ComItems, CurReceipts, CurBills, Versioned

\* The only transaction sees the newest version of every row.
LEMMA SeesNewest ==
  ASSUME PurchaseInv, NEW q \in Requests, Open \subseteq {q}
  PROVE  /\ Seen(q, purchase) = purchase.cur
         /\ SeenAll(q, items) = CurItems
         /\ SeenAll(q, receipts) = CurReceipts
         /\ SeenAll(q, bills) = CurBills
         /\ \A i \in Items : Seen(q, items[i]) = items[i].cur
         /\ \A r \in Receipts : Seen(q, receipts[r]) = receipts[r].cur
         /\ \A b \in Bills : Seen(q, bills[b]) = bills[b].cur
<1>0. q # Nobody
  BY Workload
<1>1. Seen(q, purchase) = purchase.cur
  BY <1>0 DEF PurchaseInv, TidyInv, Tidy, Seen
<1>2. \A i \in Items : Seen(q, items[i]) = items[i].cur
  BY <1>0 DEF PurchaseInv, TidyInv, Tidy, Seen
<1>3. \A r \in Receipts : Seen(q, receipts[r]) = receipts[r].cur
  BY <1>0 DEF PurchaseInv, TidyInv, Tidy, Seen
<1>4. \A b \in Bills : Seen(q, bills[b]) = bills[b].cur
  BY <1>0 DEF PurchaseInv, TidyInv, Tidy, Seen
<1>5. DOMAIN items = Items /\ DOMAIN receipts = Receipts /\ DOMAIN bills = Bills
  BY DEF PurchaseInv, TypeOK
<1> QED
  BY <1>1, <1>2, <1>3, <1>4, <1>5 DEF SeenAll, CurItems, CurReceipts, CurBills

\* What no open transaction has written is as it was committed.
LEMMA UntouchedIsCommitted ==
  ASSUME PurchaseInv, Untouched
  PROVE  /\ purchase.cur = purchase.com /\ CurItems = ComItems
         /\ CurReceipts = ComReceipts /\ CurBills = ComBills
BY DEF PurchaseInv, TidyInv, Tidy, Untouched, CurItems, ComItems,
       CurReceipts, ComReceipts, CurBills, ComBills

LEMMA ClosedIsUntouched ==
  ASSUME PurchaseInv, Open = {}
  PROVE  Untouched
BY DEF PurchaseInv, TidyInv, Tidy, Untouched

LEMMA AtRestSerial == PurchaseInv /\ Open = {} /\ Committable => SerialInv
<1> SUFFICES ASSUME PurchaseInv, Open = {}, Committable PROVE SerialInv
  OBVIOUS
<1>1. CurItems = ComItems /\ CurBills = ComBills
  BY ClosedIsUntouched, UntouchedIsCommitted
<1>2. QuantitiesKept
  BY ClosedIsUntouched DEF PurchaseInv, TidyInv, Tidy, Untouched, QuantitiesKept
<1>3. BillFits
  <2>1. \A i \in Items : SumBilled(ComBills)[i] \in Nat
    BY BilledType
  <2> QED
    BY <1>1, <2>1 DEF BillFits
<1> QED
  BY <1>2, <1>3 DEF SerialInv

LEMMA AtRestNext == (PurchaseInv /\ Open = {} /\ Committable => SerialInv)'
BY AtRestSerial, PTL

LEMMA InitialSerial == Init => SerialInv
<1> SUFFICES ASSUME Init PROVE SerialInv
  OBVIOUS
<1>1. PurchaseInv
  BY InitialInv
<1>2. Open = {}
  BY DEF Init, Open, TxAt, Working
<1>3. Committable
  <2>1. \A r \in Receipts : ComReceipts[r] = "none"
    BY DEF Init, ComReceipts, Fresh
  <2>2. \A i \in Items : SumReceived(ComReceipts)[i] = 0
    BY <2>1, NothingReceived
  <2>3. \A i \in Items : LineOK(ComItems[i], SumReceived(ComReceipts)[i])
    BY <2>2 DEF Init, ComItems, Fresh, OrderedRow, LineOK
  <2>4. ~Complete(ComItems, SumReceived(ComReceipts), SumBilled(ComBills))
    <3>1. ComItems \in [Items -> ItemRow]
      BY <1>1, Types DEF PurchaseInv
    <3> QED
      BY <2>2, <2>3, <3>1, UnreceivedIsIncomplete
  <2>5. purchase.com \in {"draft", "issued"}
    BY Workload DEF Init, Fresh
  <2> QED
    BY <2>1, <2>3, <2>4, <2>5 DEF Committable, Sound, Decided
<1> QED
  BY <1>1, <1>2, <1>3, AtRestSerial

\* A request that begins is the only one, and finds tables to rest.
LEMMA BeginsAlone ==
  ASSUME OneAtATime, PurchaseInv, SerialInv, NEW q \in Requests, NEW op, CanBegin(q, op)
  PROVE  /\ Open = {} /\ Untouched /\ tx[q].pc # "commit"
         /\ Sound(purchase.cur, CurItems, CurReceipts, CurBills)
         /\ Decided(purchase.cur, CurItems, CurReceipts, CurBills)
<1>1. Open = {} /\ tx[q].pc # "commit"
  BY DEF CanBegin
<1>2. Untouched
  BY <1>1, ClosedIsUntouched
<1> QED
  BY <1>1, <1>2, UntouchedIsCommitted DEF SerialInv, Committable

\* One that is at a statement is the only one too.
LEMMA WorksAlone ==
  ASSUME SerialInv, NEW q \in Requests, tx[q].pc \in Working
  PROVE  /\ Open = {q} /\ SerialOK(tx[q]) /\ ReopenOK(q, tx[q])
         /\ Sound(purchase.cur, CurItems, CurReceipts, CurBills)
<1>1. q \in Open
  BY DEF Open
<1> QED
  BY <1>1 DEF SerialInv, SerialOK

\* While a handler has statements left, the tables have no bill that the
\* committed ones do not have.
LEMMA NoBillAdded ==
  ASSUME OneLinePerItem, PurchaseInv, SerialInv, NEW q \in Requests,
         Open \subseteq {q}, tx[q].pc # "commit", NEW i \in Items
  PROVE  ~(SumBilled(CurBills)[i] > SumBilled(ComBills)[i])
<1>1. CASE Open = {}
  <2>1. CurBills = ComBills
    BY <1>1, ClosedIsUntouched, UntouchedIsCommitted
  <2>2. SumBilled(ComBills)[i] \in Nat
    BY BilledType
  <2> QED
    BY <2>1, <2>2
<1>2. CASE q \in Open
  BY <1>2 DEF SerialInv, BillFits
<1> QED
  BY <1>1, <1>2

\* A statement of the only transaction.
LEMMA SerialStep ==
  ASSUME PurchaseInv, SerialInv, NEW q \in Requests, Open \subseteq {q},
         NEW s, s.pc \in Working, tx' = [tx EXCEPT ![q] = s],
         purchase'.com = purchase.com, ComItems' = ComItems,
         ComReceipts' = ComReceipts, ComBills' = ComBills,
         SerialOK(s)', ReopenOK(q, s)', QuantitiesKept',
         OneLinePerItem => BillFits'
  PROVE  SerialInv'
<1>1. \A p \in Open' : p = q
  BY DEF Open, PurchaseInv, TypeOK
<1>2. tx'[q] = s
  BY DEF PurchaseInv, TypeOK
<1>3. Committable'
  BY DEF SerialInv, Committable
<1>4. \A p \in Open' : SerialOK(tx[p])' /\ ReopenOK(p, tx[p])'
  BY <1>1, <1>2
<1> QED
  BY <1>1, <1>3, <1>4 DEF SerialInv

\* It changes no row.
LEMMA SerialRead ==
  ASSUME PurchaseInv, SerialInv, NEW q \in Requests, Open \subseteq {q},
         tx[q].pc # "commit",
         NEW s, s.pc \in Working, tx' = [tx EXCEPT ![q] = s],
         UNCHANGED <<purchase, items, receipts, bills>>,
         SerialOK(s), ReopenOK(q, s)
  PROVE  SerialInv'
<1>1. /\ ComItems' = ComItems /\ ComReceipts' = ComReceipts /\ ComBills' = ComBills
      /\ CurItems' = CurItems /\ CurReceipts' = CurReceipts /\ CurBills' = CurBills
      /\ Untouched' = Untouched /\ Editable' = Editable /\ HasReceipt' = HasReceipt
  BY DEF ComItems, ComReceipts, ComBills, CurItems, CurReceipts, CurBills,
         Untouched, Editable, HasReceipt, Receipt
<1>2. SerialOK(s)' /\ ReopenOK(q, s)'
  BY <1>1 DEF SerialOK, ReopenOK
<1>3. QuantitiesKept'
  BY <1>1 DEF QuantitiesKept, SerialInv
<1>4. OneLinePerItem => BillFits'
  BY <1>1, NoBillAdded DEF BillFits
<1> QED
  BY <1>1, <1>2, <1>3, <1>4, SerialStep

LEMMA BillsKept ==
  ASSUME PurchaseInv, SerialInv, NEW q \in Requests, Open \subseteq {q},
         tx[q].pc # "commit", UNCHANGED bills
  PROVE  /\ CurBills' = CurBills /\ ComBills' = ComBills
         /\ OneLinePerItem => BillFits'
<1>1. CurBills' = CurBills /\ ComBills' = ComBills
  BY DEF CurBills, ComBills
<1> QED
  BY <1>1, NoBillAdded DEF BillFits

\* It changes the status, and nothing is left to do but to commit.
LEMMA SerialStatus ==
  ASSUME PurchaseInv, SerialInv, NEW q \in Requests, Open \subseteq {q},
         tx[q].pc # "commit", NEW v,
         purchase' = Put(q, purchase, v) \/ (UNCHANGED purchase /\ v = purchase.cur),
         UNCHANGED <<items, receipts, bills>>, Goto(q, "commit"),
         Sound(v, CurItems, CurReceipts, CurBills),
         Decided(v, CurItems, CurReceipts, CurBills)
  PROVE  SerialInv'
<1>0. PICK s : s = [tx[q] EXCEPT !.pc = "commit"]
  OBVIOUS
<1>1. s.pc = "commit" /\ tx' = [tx EXCEPT ![q] = s] /\ s.pc \in Working
  BY <1>0 DEF PurchaseInv, TypeOK, TxState, Goto, Working
<1>2. purchase'.com = purchase.com /\ purchase'.cur = v
  BY DEF Put
<1>3. /\ ComItems' = ComItems /\ ComReceipts' = ComReceipts
      /\ CurItems' = CurItems /\ CurReceipts' = CurReceipts
  BY DEF ComItems, ComReceipts, CurItems, CurReceipts
<1>4. /\ CurBills' = CurBills /\ ComBills' = ComBills
      /\ OneLinePerItem => BillFits'
  BY BillsKept
<1>5. SerialOK(s)' /\ ReopenOK(q, s)'
  <2>1. Sound(purchase.cur, CurItems, CurReceipts, CurBills)'
    BY <1>2, <1>3, <1>4
  <2>2. Decided(purchase.cur, CurItems, CurReceipts, CurBills)'
    BY <1>2, <1>3, <1>4
  <2> QED
    BY <1>1, <2>1, <2>2 DEF SerialOK, ReopenOK
<1>6. QuantitiesKept'
  <2>1. items' = items /\ HasReceipt' = HasReceipt
    BY DEF HasReceipt, Receipt
  <2>2. QuantitiesKept
    BY DEF SerialInv
  <2> QED
    BY <2>1, <2>2 DEF QuantitiesKept
<1> QED
  BY <1>1, <1>2, <1>3, <1>4, <1>5, <1>6, SerialStep

\* It changes one item.
LEMMA SerialItem ==
  ASSUME PurchaseInv, SerialInv, NEW q \in Requests, Open \subseteq {q},
         tx[q].pc # "commit", NEW i \in Items, NEW row \in ItemRow,
         items' = [items EXCEPT ![i] = Put(q, @, row)],
         UNCHANGED <<purchase, receipts, bills>>,
         NEW s, s.pc \in Working, tx' = [tx EXCEPT ![q] = s],
         SerialOK(s)', ReopenOK(q, s)',
         HasReceipt => row.quantity = items[i].cur.quantity
  PROVE  SerialInv'
<1>1. /\ ComItems' = ComItems /\ ComReceipts' = ComReceipts
      /\ HasReceipt' = HasReceipt /\ purchase'.com = purchase.com
  BY DEF ComItems, ComReceipts, Put, PurchaseInv, TypeOK, HasReceipt, Receipt
<1>2. ComBills' = ComBills /\ (OneLinePerItem => BillFits')
  BY BillsKept
<1>3. QuantitiesKept'
  <2> SUFFICES ASSUME HasReceipt, NEW j \in Items
               PROVE  items'[j].cur.quantity = items'[j].com.quantity
    BY <1>1 DEF QuantitiesKept
  <2>1. items[j].cur.quantity = items[j].com.quantity
    BY DEF SerialInv, QuantitiesKept
  <2> QED
    BY <2>1 DEF Put, PurchaseInv, TypeOK
<1> QED
  BY <1>1, <1>2, <1>3, SerialStep

\* It changes one receipt.
LEMMA SerialReceipt ==
  ASSUME PurchaseInv, SerialInv, NEW q \in Requests, Open \subseteq {q},
         tx[q].pc # "commit", NEW r \in Receipts, NEW v,
         receipts' = [receipts EXCEPT ![r] = Put(q, @, v)],
         UNCHANGED <<purchase, items, bills>>,
         NEW s, s.pc \in Working, tx' = [tx EXCEPT ![q] = s],
         SerialOK(s)', ReopenOK(q, s)'
  PROVE  SerialInv'
<1>1. /\ ComItems' = ComItems /\ ComReceipts' = ComReceipts
      /\ HasReceipt' = HasReceipt /\ purchase'.com = purchase.com
  BY DEF ComItems, ComReceipts, Put, PurchaseInv, TypeOK, HasReceipt, Receipt
<1>2. ComBills' = ComBills /\ (OneLinePerItem => BillFits')
  BY BillsKept
<1>3. QuantitiesKept'
  BY <1>1 DEF QuantitiesKept, SerialInv
<1> QED
  BY <1>1, <1>2, <1>3, SerialStep

\* It changes one bill.
LEMMA SerialBill ==
  ASSUME PurchaseInv, SerialInv, NEW q \in Requests, Open \subseteq {q},
         tx[q].pc # "commit", NEW b \in Bills, NEW v,
         bills' = [bills EXCEPT ![b] = Put(q, @, v)],
         UNCHANGED <<purchase, items, receipts>>,
         NEW s, s.pc \in Working, tx' = [tx EXCEPT ![q] = s],
         SerialOK(s)', ReopenOK(q, s)', OneLinePerItem => BillFits'
  PROVE  SerialInv'
<1>1. /\ ComItems' = ComItems /\ ComReceipts' = ComReceipts /\ ComBills' = ComBills
      /\ HasReceipt' = HasReceipt /\ purchase'.com = purchase.com
  BY DEF ComItems, ComReceipts, ComBills, Put, PurchaseInv, TypeOK, HasReceipt, Receipt
<1>3. QuantitiesKept'
  BY <1>1 DEF QuantitiesKept, SerialInv
<1> QED
  BY <1>1, <1>3, SerialStep

LEMMA RollbackSerial ==
  ASSUME PurchaseInv, SerialInv, NEW q \in Requests, Open \subseteq {q}, Rollback(q)
  PROVE  SerialInv'
<1>1. PurchaseInv'
  BY RollbackStep
<1>2. Open' = {}
  BY OpenShrinks DEF Rollback, PurchaseInv, TypeOK
<1>3. purchase'.com = purchase.com
  BY DEF Rollback, RolledBack, Fresh
<1>4. ComItems' = ComItems
  <2>1. DOMAIN items = Items /\ items' = RolledBackAll(q, items)
    BY DEF PurchaseInv, TypeOK, Rollback
  <2> QED
    BY <2>1 DEF ComItems, RolledBackAll, RolledBack, Fresh
<1>5. ComReceipts' = ComReceipts
  <2>1. DOMAIN receipts = Receipts /\ receipts' = RolledBackAll(q, receipts)
    BY DEF PurchaseInv, TypeOK, Rollback
  <2> QED
    BY <2>1 DEF ComReceipts, RolledBackAll, RolledBack, Fresh
<1>6. ComBills' = ComBills
  <2>1. DOMAIN bills = Bills /\ bills' = RolledBackAll(q, bills)
    BY DEF PurchaseInv, TypeOK, Rollback
  <2> QED
    BY <2>1 DEF ComBills, RolledBackAll, RolledBack, Fresh
<1>7. Committable'
  BY <1>3, <1>4, <1>5, <1>6 DEF SerialInv, Committable
<1> QED
  BY <1>1, <1>2, <1>7, AtRestNext

LEMMA CommitSerial ==
  ASSUME PurchaseInv, SerialInv, NEW q \in Requests, Commit(q)
  PROVE  SerialInv'
<1>0. tx[q].pc = "commit" /\ tx[q].pc \in Working
  BY DEF Commit, At, Working
<1>1. PurchaseInv'
  BY CommitStep
<1>2. Open = {q} /\ SerialOK(tx[q])
  BY <1>0, WorksAlone
<1>3. Open' = {}
  BY <1>2, OpenShrinks DEF Commit, PurchaseInv, TypeOK
<1>4. /\ purchase.lock \in {q, Nobody}
      /\ \A i \in Items : items[i].lock \in {q, Nobody}
      /\ \A r \in Receipts : receipts[r].lock \in {q, Nobody}
      /\ \A b \in Bills : bills[b].lock \in {q, Nobody}
  BY <1>2 DEF PurchaseInv, TidyInv, Tidy
<1>5. q # Nobody
  BY Workload
<1>6. purchase'.com = purchase.cur
  BY <1>4, <1>5 DEF Commit, Committed, Fresh, PurchaseInv, TidyInv, Tidy
<1>7. ComItems' = CurItems
  <2>1. DOMAIN items = Items /\ items' = CommittedAll(q, items)
    BY DEF PurchaseInv, TypeOK, Commit
  <2>2. \A i \in Items : Committed(q, items[i]).com = items[i].cur
    BY <1>4, <1>5 DEF Committed, Fresh, PurchaseInv, TidyInv, Tidy
  <2> QED
    BY <2>1, <2>2 DEF ComItems, CurItems, CommittedAll
<1>8. ComReceipts' = CurReceipts
  <2>1. DOMAIN receipts = Receipts /\ receipts' = CommittedAll(q, receipts)
    BY DEF PurchaseInv, TypeOK, Commit
  <2>2. \A r \in Receipts : Committed(q, receipts[r]).com = receipts[r].cur
    BY <1>4, <1>5 DEF Committed, Fresh, PurchaseInv, TidyInv, Tidy
  <2> QED
    BY <2>1, <2>2 DEF ComReceipts, CurReceipts, CommittedAll
<1>9. ComBills' = CurBills
  <2>1. DOMAIN bills = Bills /\ bills' = CommittedAll(q, bills)
    BY DEF PurchaseInv, TypeOK, Commit
  <2>2. \A b \in Bills : Committed(q, bills[b]).com = bills[b].cur
    BY <1>4, <1>5 DEF Committed, Fresh, PurchaseInv, TidyInv, Tidy
  <2> QED
    BY <2>1, <2>2 DEF ComBills, CurBills, CommittedAll
<1>10. Committable'
  BY <1>0, <1>2, <1>6, <1>7, <1>8, <1>9 DEF SerialOK, Committable
<1> QED
  BY <1>1, <1>3, <1>10, AtRestNext

-----------------------------------------------------------------------------
(* The actions, one request at a time.                                     *)

\* Confirming a receipt or adding a bill keeps tables sound.
LEMMA SoundGrows ==
  ASSUME NEW status, NEW rows \in [Items -> ItemRow],
         NEW rcp, NEW bls, NEW rcpToo, NEW blsToo,
         Sound(status, rows, rcp, bls),
         \A r \in Receipts : rcp[r] = "confirmed" => rcpToo[r] = "confirmed",
         \A b \in Bills : bls[b] # "none" => blsToo[b] # "none",
         status = "draft" => \A r \in Receipts : rcpToo[r] = "none"
  PROVE  Sound(status, rows, rcpToo, blsToo)
<1>1. /\ SumReceived(rcp) \in [Items -> Nat] /\ SumReceived(rcpToo) \in [Items -> Nat]
      /\ SumBilled(bls) \in [Items -> Nat] /\ SumBilled(blsToo) \in [Items -> Nat]
  BY ReceivedType, BilledType
<1>2. \A i \in Items : /\ SumReceived(rcp)[i] <= SumReceived(rcpToo)[i]
                       /\ SumBilled(bls)[i] <= SumBilled(blsToo)[i]
  BY ReceivedGrows, BilledGrows
<1>3. \A i \in Items : LineOK(rows[i], SumReceived(rcpToo)[i])
  <2> TAKE i \in Items
  <2>1. LineOK(rows[i], SumReceived(rcp)[i])
    BY DEF Sound
  <2>2. /\ rows[i].quantity \in Nat /\ rows[i].shortClosed \in Nat
        /\ SumReceived(rcp)[i] \in Nat /\ SumReceived(rcpToo)[i] \in Nat
    BY <1>1 DEF ItemRow
  <2> QED
    BY <1>2, <2>1, <2>2 DEF LineOK
<1>4. Complete(rows, SumReceived(rcp), SumBilled(bls)) =>
        Complete(rows, SumReceived(rcpToo), SumBilled(blsToo))
  BY <1>1, <1>2, CompleteGrows
<1> QED
  BY <1>3, <1>4 DEF Sound

LEMMA SerialGoto ==
  ASSUME PurchaseInv, SerialInv, NEW q \in Requests, Open \subseteq {q},
         tx[q].pc # "commit", NEW pc \in Working, Goto(q, pc), UNCHANGED tables,
         SerialOK([tx[q] EXCEPT !.pc = pc]), ReopenOK(q, [tx[q] EXCEPT !.pc = pc])
  PROVE  SerialInv'
<1> DEFINE s == [tx[q] EXCEPT !.pc = pc]
<1>1. s.pc \in Working /\ tx' = [tx EXCEPT ![q] = s]
  BY DEF PurchaseInv, TypeOK, TxState, Goto
<1>2. SerialOK(s) /\ ReopenOK(q, s)
  OBVIOUS
<1> HIDE DEF s
<1> QED
  BY <1>1, <1>2, SerialRead DEF tables

LEMMA OrderSerial ==
  ASSUME OneAtATime, PurchaseInv, SerialInv, NEW q \in Requests, OrderStep(q)
  PROVE  SerialInv'
<1>t. tx[q] \in TxState /\ HandlerOK(q, tx[q])
  BY DEF PurchaseInv, TypeOK, HandlersInv
<1>u. /\ CurItems \in [Items -> ItemRow] /\ purchase.cur \in PurchaseStatus
      /\ \A i \in Items : SumReceived(CurReceipts)[i] \in Nat
  BY Types, ReceivedType DEF PurchaseInv
\* Where nothing is received, nothing is complete.
<1>n. ASSUME NEW rows \in [Items -> ItemRow], \A r \in Receipts : CurReceipts[r] = "none",
             \A i \in Items : LineOK(rows[i], SumReceived(CurReceipts)[i])
      PROVE  /\ ~Complete(rows, SumReceived(CurReceipts), SumBilled(CurBills))
             /\ \A i \in Items : rows[i].shortClosed = 0
  <2>1. \A i \in Items : SumReceived(CurReceipts)[i] = 0
    BY <1>n, NothingReceived
  <2> QED
    BY <1>n, <2>1, UnreceivedIsIncomplete
<1>1. CASE Issue(q)
  <2>1. CanBegin(q, "issue")
    BY <1>1 DEF Issue
  <2>2. /\ Open = {} /\ Untouched /\ tx[q].pc # "commit"
        /\ Sound(purchase.cur, CurItems, CurReceipts, CurBills)
    BY <2>1, BeginsAlone
  <2>3. CASE Goto(q, "casIssued") /\ UNCHANGED tables
    <3>1. /\ SerialOK([tx[q] EXCEPT !.pc = "casIssued"]) /\ "casIssued" \in Working
          /\ ReopenOK(q, [tx[q] EXCEPT !.pc = "casIssued"])
      BY <1>t, <2>2 DEF SerialOK, ReopenOK, TxState, Working
    <3> QED
      BY <2>2, <2>3, <3>1, SerialGoto
  <2> QED
    BY <1>1, <2>2, <2>3, RollbackSerial DEF Issue
<1>2. CASE TransitionToIssued(q)
  <2>1. tx[q].pc = "casIssued" /\ tx[q].pc \in Working
    BY <1>2 DEF TransitionToIssued, At, Working
  <2>2. /\ Open = {q} /\ Sound(purchase.cur, CurItems, CurReceipts, CurBills)
    BY <2>1, WorksAlone
  <2>3. CASE Rollback(q)
    BY <2>2, <2>3, RollbackSerial
  <2>4. CASE ~Rollback(q)
    <3>1. /\ purchase.cur = "draft" /\ purchase' = Put(q, purchase, "issued")
          /\ Goto(q, "commit") /\ UNCHANGED <<items, receipts, bills>>
      BY <1>2, <2>2, <2>4, SeesNewest DEF TransitionToIssued
    <3>2. /\ \A r \in Receipts : CurReceipts[r] = "none"
          /\ \A i \in Items : LineOK(CurItems[i], SumReceived(CurReceipts)[i])
      BY <2>2, <3>1 DEF Sound
    <3>3. /\ Sound("issued", CurItems, CurReceipts, CurBills)
          /\ Decided("issued", CurItems, CurReceipts, CurBills)
      BY <1>u, <1>n, <3>2 DEF Sound, Decided
    <3> QED
      BY <2>1, <2>2, <3>1, <3>3, SerialStatus
  <2> QED
    BY <2>3, <2>4
<1>3. CASE Cancel(q)
  <2>1. CanBegin(q, "cancel")
    BY <1>3 DEF Cancel
  <2>2. /\ Open = {} /\ Untouched /\ tx[q].pc # "commit"
        /\ Sound(purchase.cur, CurItems, CurReceipts, CurBills)
    BY <2>1, BeginsAlone
  <2>3. CASE Rollback(q)
    BY <2>2, <2>3, RollbackSerial
  <2>4. CASE ~Rollback(q)
    <3> DEFINE s == [tx[q] EXCEPT !.pc = "casCancelled", !.from = Seen(q, purchase)]
    <3>1. tx' = [tx EXCEPT ![q] = s] /\ UNCHANGED tables
      BY <1>3, <2>4 DEF Cancel
    <3>2. s.pc = "casCancelled" /\ s.pc \in Working
      BY <1>t DEF TxState, Working
    <3> HIDE DEF s
    <3>3. SerialOK(s) /\ ReopenOK(q, s)
      BY <2>2, <3>2 DEF SerialOK, ReopenOK
    <3> QED
      BY <2>2, <3>1, <3>2, <3>3, SerialRead DEF tables
  <2> QED
    BY <2>3, <2>4
<1>4. CASE TransitionToCancelled(q)
  <2>1. tx[q].pc = "casCancelled" /\ tx[q].pc \in Working
    BY <1>4 DEF TransitionToCancelled, At, Working
  <2>2. /\ Open = {q} /\ Sound(purchase.cur, CurItems, CurReceipts, CurBills)
    BY <2>1, WorksAlone
  <2>3. CASE Rollback(q)
    BY <2>2, <2>3, RollbackSerial
  <2>4. CASE ~Rollback(q)
    <3>1. /\ purchase' = Put(q, purchase, "cancelled")
          /\ Goto(q, "commit") /\ UNCHANGED <<items, receipts, bills>>
      BY <1>4, <2>4 DEF TransitionToCancelled
    <3>2. /\ Sound("cancelled", CurItems, CurReceipts, CurBills)
          /\ Decided("cancelled", CurItems, CurReceipts, CurBills)
      BY <2>2 DEF Sound, Decided
    <3> QED
      BY <2>1, <2>2, <3>1, <3>2, SerialStatus
  <2> QED
    BY <2>3, <2>4
<1>5. CASE EditItem(q)
  <2>1. CanBegin(q, "addItem") \/ CanBegin(q, "updateItem")
    BY <1>5 DEF EditItem
  <2>2. /\ Open = {} /\ Untouched /\ tx[q].pc # "commit"
        /\ Sound(purchase.cur, CurItems, CurReceipts, CurBills)
    BY <2>1, BeginsAlone
  <2>3. CASE Rollback(q)
    BY <2>2, <2>3, RollbackSerial
  <2>4. CASE ~Rollback(q)
    <3>1. /\ Seen(q, purchase) \notin {"closed", "cancelled"} /\ ~HasAnyReceipt(q)
          /\ Goto(q, "writeItem") /\ UNCHANGED tables
      BY <1>5, <2>4 DEF EditItem
    <3>2. Editable /\ ~HasReceipt
      <4>1. \A r \in Receipts : Seen(q, receipts[r]) = receipts[r].cur
        BY <2>2, SeesNewest
      <4>2. \A r \in Receipts : receipts[r].cur = receipts[r].com
        BY <2>2 DEF Untouched, PurchaseInv, TidyInv, Tidy
      <4>3. Seen(q, purchase) = purchase.cur
        BY <2>2, SeesNewest
      <4> QED
        BY <3>1, <4>1, <4>2, <4>3 DEF Editable, HasReceipt, HasAnyReceipt, Receipt
    <3>3. /\ SerialOK([tx[q] EXCEPT !.pc = "writeItem"]) /\ "writeItem" \in Working
          /\ ReopenOK(q, [tx[q] EXCEPT !.pc = "writeItem"])
      BY <1>t, <2>2, <3>2 DEF SerialOK, ReopenOK, TxState, Working
    <3> QED
      BY <2>2, <3>1, <3>3, SerialGoto
  <2> QED
    BY <2>3, <2>4
<1>6. CASE WriteItem(q)
  <2>1. tx[q].pc = "writeItem" /\ tx[q].pc \in Working
    BY <1>6 DEF WriteItem, At, Working
  <2>2. /\ Open = {q} /\ Sound(purchase.cur, CurItems, CurReceipts, CurBills)
        /\ Untouched /\ ~HasReceipt /\ Editable
    BY <2>1, WorksAlone DEF SerialOK
  <2>3. PICK i : i = Target[q]
    OBVIOUS
  <2>4. PICK row : row = IF Op[q] = "addItem" THEN OrderedRow(Quantity[q])
                         ELSE [items[i].cur EXCEPT !.quantity = Quantity[q]]
    OBVIOUS
  <2>5. PICK s : s = [tx[q] EXCEPT !.pc = "commit"]
    OBVIOUS
  <2>6. i \in Items
    BY <1>t, <2>1, <2>3, Workload DEF HandlerOK, TargetsOf
  <2>7. \A r \in Receipts : CurReceipts[r] = "none"
    BY <2>2, UntouchedIsCommitted DEF HasReceipt, Receipt, ComReceipts
  <2>8. \A j \in Items : LineOK(CurItems[j], SumReceived(CurReceipts)[j])
    BY <2>2 DEF Sound
  <2>9. \A j \in Items : CurItems[j].shortClosed = 0
    BY <1>u, <1>n, <2>7, <2>8
  <2>10. row \in ItemRow /\ row.shortClosed = 0 /\ row.lineStatus # "short_closed"
    <3>1. Quantity[q] \in Nat
      BY Workload
    <3>2. items[i].cur \in ItemRow /\ items[i].cur = CurItems[i]
      BY <2>6 DEF PurchaseInv, TypeOK, Versioned, CurItems
    <3>3. CurItems[i].lineStatus # "short_closed"
      BY <2>6, <2>8, <2>9 DEF LineOK
    <3> QED
      BY <2>4, <2>6, <2>9, <3>1, <3>2, <3>3 DEF ItemRow, OrderedRow, LineStatuses
  <2>11. /\ items' = [items EXCEPT ![i] = Put(q, @, row)]
         /\ tx' = [tx EXCEPT ![q] = s] /\ s.pc = "commit" /\ s.pc \in Working
         /\ UNCHANGED <<purchase, receipts, bills>>
    BY <1>6, <1>t, <2>3, <2>4, <2>5 DEF WriteItem, Goto, TxState, Working
  <2>12. /\ CurItems' = [CurItems EXCEPT ![i] = row]
         /\ CurReceipts' = CurReceipts /\ CurBills' = CurBills
         /\ purchase'.cur = purchase.cur
    BY <2>6, <2>11 DEF CurItems, CurReceipts, CurBills, Put, PurchaseInv, TypeOK
  <2>13. PICK rows : rows = [CurItems EXCEPT ![i] = row]
    OBVIOUS
  <2>14. /\ rows \in [Items -> ItemRow]
         /\ \A j \in Items : LineOK(rows[j], SumReceived(CurReceipts)[j])
    BY <1>u, <2>6, <2>8, <2>10, <2>13 DEF LineOK
  <2>15. ~Complete(rows, SumReceived(CurReceipts), SumBilled(CurBills))
    BY <1>n, <2>7, <2>14
  <2>16. /\ Sound(purchase.cur, rows, CurReceipts, CurBills)
         /\ Decided(purchase.cur, rows, CurReceipts, CurBills)
    BY <2>2, <2>7, <2>14, <2>15 DEF Sound, Decided, Editable
  <2>17. SerialOK(s)' /\ ReopenOK(q, s)'
    <3>1. /\ Sound(purchase.cur, CurItems, CurReceipts, CurBills)'
          /\ Decided(purchase.cur, CurItems, CurReceipts, CurBills)'
      BY <2>12, <2>13, <2>16
    <3> QED
      BY <2>11, <3>1 DEF SerialOK, ReopenOK
  <2> QED
    BY <2>1, <2>2, <2>6, <2>10, <2>11, <2>17, SerialItem
<1> QED
  BY <1>1, <1>2, <1>3, <1>4, <1>5, <1>6 DEF OrderStep

LEMMA ReceiptSerial ==
  ASSUME OneAtATime, PurchaseInv, SerialInv, NEW q \in Requests, ReceiptStep(q)
  PROVE  SerialInv'
<1>t. tx[q] \in TxState /\ HandlerOK(q, tx[q])
  BY DEF PurchaseInv, TypeOK, HandlersInv
<1>u. CurItems \in [Items -> ItemRow]
  BY Types DEF PurchaseInv
<1>1. CASE CreateReceipt(q)
  <2>1. CanBegin(q, "createReceipt") /\ Op[q] = "createReceipt" /\ tx[q].pc = "new"
    BY <1>1 DEF CreateReceipt, CanBegin
  <2>2. /\ Open = {} /\ Untouched /\ tx[q].pc # "commit"
        /\ Sound(purchase.cur, CurItems, CurReceipts, CurBills)
        /\ Decided(purchase.cur, CurItems, CurReceipts, CurBills)
    BY <2>1, BeginsAlone
  <2>3. CASE Rollback(q)
    BY <2>2, <2>3, RollbackSerial
  <2>4. CASE ~Rollback(q)
    <3>1. PICK r : r = Target[q]
      OBVIOUS
    <3>2. PICK s : s = [tx[q] EXCEPT !.pc = "commit"]
      OBVIOUS
    <3>3. r \in Receipts /\ receipts[r].cur = "none"
      <4>1. r \in Receipts
        BY <2>1, <3>1, Workload DEF TargetsOf
      <4>2. receipts[r] = Fresh("none")
        BY <1>t, <2>1, <3>1 DEF HandlerOK
      <4> QED
        BY <4>1, <4>2 DEF Fresh
    <3>4. /\ purchase.cur # "draft"
          /\ receipts' = [receipts EXCEPT ![r] = Put(q, @, "draft")]
          /\ tx' = [tx EXCEPT ![q] = s] /\ s.pc = "commit" /\ s.pc \in Working
          /\ UNCHANGED <<purchase, items, bills>>
      BY <1>1, <1>t, <2>2, <2>4, <3>1, <3>2, SeesNewest
      DEF CreateReceipt, Receivable, Goto, TxState, Working
    <3>5. /\ CurItems' = CurItems /\ CurBills' = CurBills
          /\ CurReceipts' = [CurReceipts EXCEPT ![r] = "draft"]
      BY <3>3, <3>4 DEF CurItems, CurReceipts, CurBills, Put, PurchaseInv, TypeOK
    <3>6. PICK rcp : rcp = [CurReceipts EXCEPT ![r] = "draft"]
      OBVIOUS
    <3>7. \A x \in Receipts : CurReceipts[x] = "confirmed" <=> rcp[x] = "confirmed"
      BY <3>3, <3>6 DEF CurReceipts
    <3>8. SumReceived(rcp) = SumReceived(CurReceipts)
      BY <3>7, SameReceived
    <3>9. /\ Sound(purchase.cur, CurItems, rcp, CurBills)
          /\ Decided(purchase.cur, CurItems, rcp, CurBills)
      BY <2>2, <3>4, <3>8 DEF Sound, Decided
    <3>10. SerialOK(s)' /\ ReopenOK(q, s)'
      <4>1. /\ Sound(purchase.cur, CurItems, CurReceipts, CurBills)'
            /\ Decided(purchase.cur, CurItems, CurReceipts, CurBills)'
        BY <3>4, <3>5, <3>6, <3>9
      <4> QED
        BY <3>4, <4>1 DEF SerialOK, ReopenOK
    <3> QED
      BY <2>2, <3>3, <3>4, <3>10, SerialReceipt
  <2> QED
    BY <2>3, <2>4
<1>2. CASE ConfirmReceipt(q)
  <2>1. CanBegin(q, "confirmReceipt")
    BY <1>2 DEF ConfirmReceipt
  <2>2. /\ Open = {} /\ Untouched /\ tx[q].pc # "commit"
        /\ Sound(purchase.cur, CurItems, CurReceipts, CurBills)
    BY <2>1, BeginsAlone
  <2>3. CASE Goto(q, "casConfirmed") /\ UNCHANGED tables
    <3>1. /\ SerialOK([tx[q] EXCEPT !.pc = "casConfirmed"]) /\ "casConfirmed" \in Working
          /\ ReopenOK(q, [tx[q] EXCEPT !.pc = "casConfirmed"])
      BY <1>t, <2>2 DEF SerialOK, ReopenOK, TxState, Working
    <3> QED
      BY <2>2, <2>3, <3>1, SerialGoto
  <2> QED
    BY <1>2, <2>2, <2>3, RollbackSerial DEF ConfirmReceipt
<1>3. CASE TransitionToConfirmed(q)
  <2>1. tx[q].pc = "casConfirmed" /\ tx[q].pc \in Working
    BY <1>3 DEF TransitionToConfirmed, At, Working
  <2>2. Open = {q} /\ Sound(purchase.cur, CurItems, CurReceipts, CurBills)
    BY <2>1, WorksAlone
  <2>3. CASE Rollback(q)
    BY <2>2, <2>3, RollbackSerial
  <2>4. CASE ~Rollback(q)
    <3>1. PICK r : r = Target[q]
      OBVIOUS
    <3>2. PICK s : s = [tx[q] EXCEPT !.pc = "bookStock"]
      OBVIOUS
    <3>3. r \in Receipts
      BY <1>t, <2>1, <3>1, Workload DEF TargetsOf, HandlerOK
    <3>4. /\ receipts[r].cur = "draft"
          /\ receipts' = [receipts EXCEPT ![r] = Put(q, @, "confirmed")]
          /\ tx' = [tx EXCEPT ![q] = s] /\ s.pc = "bookStock" /\ s.pc \in Working
          /\ UNCHANGED <<purchase, items, bills>>
      BY <1>3, <1>t, <2>2, <2>4, <3>1, <3>2, <3>3, SeesNewest
      DEF TransitionToConfirmed, ReceiptIsDraft, Goto, TxState, Working
    <3>5. /\ CurItems' = CurItems /\ CurBills' = CurBills
          /\ CurReceipts' = [CurReceipts EXCEPT ![r] = "confirmed"]
      BY <3>3, <3>4 DEF CurItems, CurReceipts, CurBills, Put, PurchaseInv, TypeOK
    <3>6. PICK rcp : rcp = [CurReceipts EXCEPT ![r] = "confirmed"]
      OBVIOUS
    <3>7. \A x \in Receipts : CurReceipts[x] = "confirmed" => rcp[x] = "confirmed"
      BY <3>3, <3>6 DEF CurReceipts
    <3>8. purchase.cur # "draft"
      BY <2>2, <3>3, <3>4 DEF Sound, CurReceipts
    <3>9. Sound(purchase.cur, CurItems, rcp, CurBills)
      BY <1>u, <2>2, <3>7, <3>8, SoundGrows
    <3>10. SerialOK(s)' /\ ReopenOK(q, s)'
      <4>1. Sound(purchase.cur, CurItems, CurReceipts, CurBills)'
        BY <3>4, <3>5, <3>6, <3>9
      <4> QED
        BY <3>4, <4>1 DEF SerialOK, ReopenOK
    <3> QED
      BY <2>1, <2>2, <3>3, <3>4, <3>10, SerialReceipt
  <2> QED
    BY <2>3, <2>4
<1>4. CASE BookStock(q)
  <2>1. tx[q].pc = "bookStock" /\ tx[q].pc \in Working
    BY <1>4 DEF BookStock, At, Working
  <2>2. Open = {q} /\ Sound(purchase.cur, CurItems, CurReceipts, CurBills)
    BY <2>1, WorksAlone
  <2> DEFINE s == [tx[q] EXCEPT !.pc = "sumReceived", !.ordered = SeenAll(q, items)]
  <2>3. /\ tx' = [tx EXCEPT ![q] = s] /\ s.pc = "sumReceived" /\ s.pc \in Working
        /\ s.ordered = CurItems /\ UNCHANGED <<purchase, items, receipts, bills>>
    BY <1>4, <1>t, <2>2, SeesNewest DEF BookStock, TxState, Working
  <2> HIDE DEF s
  <2>4. SerialOK(s) /\ ReopenOK(q, s)
    BY <2>2, <2>3 DEF SerialOK, ReopenOK
  <2> QED
    BY <2>1, <2>2, <2>3, <2>4, SerialRead
<1> QED
  BY <1>1, <1>2, <1>3, <1>4 DEF ReceiptStep

LEMMA BillSerial ==
  ASSUME OneAtATime, PurchaseInv, SerialInv, NEW q \in Requests, BillStep(q)
  PROVE  SerialInv'
<1>t. tx[q] \in TxState /\ HandlerOK(q, tx[q])
  BY DEF PurchaseInv, TypeOK, HandlersInv
<1>u. CurItems \in [Items -> ItemRow]
  BY Types DEF PurchaseInv
<1>1. CASE CreateBill(q)
  <2>1. CanBegin(q, "createBill")
    BY <1>1 DEF CreateBill
  <2>2. /\ Open = {} /\ Untouched /\ tx[q].pc # "commit"
        /\ Sound(purchase.cur, CurItems, CurReceipts, CurBills)
    BY <2>1, BeginsAlone
  <2>3. CASE Rollback(q)
    BY <2>2, <2>3, RollbackSerial
  <2>4. CASE ~Rollback(q)
    <3> DEFINE s == [tx[q] EXCEPT !.pc = "checkBill", !.ordered = SeenAll(q, items),
                                  !.billed = SumBilled(SeenAll(q, bills))]
    <3>1. tx' = [tx EXCEPT ![q] = s] /\ UNCHANGED tables
      BY <1>1, <2>4 DEF CreateBill
    <3>2. /\ s.pc = "checkBill" /\ s.pc \in Working /\ s.ordered = CurItems
          /\ s.billed = SumBilled(CurBills)
      BY <1>t, <2>2, SeesNewest DEF TxState, Working
    <3> HIDE DEF s
    <3>3. SerialOK(s) /\ ReopenOK(q, s)
      BY <2>2, <3>2 DEF SerialOK, ReopenOK
    <3> QED
      BY <2>2, <3>1, <3>2, <3>3, SerialRead DEF tables
  <2> QED
    BY <2>3, <2>4
<1>2. CASE CheckBill(q)
  <2>1. tx[q].pc = "checkBill" /\ tx[q].pc \in Working
    BY <1>2 DEF CheckBill, At, Working
  <2>2. /\ Open = {q} /\ Sound(purchase.cur, CurItems, CurReceipts, CurBills)
        /\ Untouched /\ tx[q].ordered = CurItems /\ tx[q].billed = SumBilled(CurBills)
    BY <2>1, WorksAlone DEF SerialOK
  <2>3. CASE Rollback(q)
    BY <2>2, <2>3, RollbackSerial
  <2>4. CASE ~Rollback(q)
    <3>1. PICK b : b = Target[q]
      OBVIOUS
    <3>2. PICK s : s = [tx[q] EXCEPT !.pc = "commit"]
      OBVIOUS
    <3>3. b \in Bills
      BY <1>t, <2>1, <3>1, Workload DEF TargetsOf, HandlerOK
    <3>4. /\ bills' = [bills EXCEPT ![b] = Put(q, @, "draft")]
          /\ tx' = [tx EXCEPT ![q] = s] /\ s.pc = "commit" /\ s.pc \in Working
          /\ UNCHANGED <<purchase, items, receipts>>
      BY <1>2, <1>t, <2>4, <3>1, <3>2 DEF CheckBill, Goto, TxState, Working
    <3>f. \A k \in DOMAIN BillLines[b] :
            SumBilled(CurBills)[BillLines[b][k].item] + BillLines[b][k].qty
              <= BillableCeiling(CurItems[BillLines[b][k].item],
                                 SumReceived(CurReceipts)[BillLines[b][k].item])
      BY <1>2, <2>2, <2>4, <3>1, SeesNewest DEF CheckBill
    <3>5. /\ CurItems' = CurItems /\ CurReceipts' = CurReceipts
          /\ CurBills' = [CurBills EXCEPT ![b] = "draft"]
          /\ ComBills' = ComBills /\ ComBills = CurBills
      <4>1. /\ CurItems' = CurItems /\ CurReceipts' = CurReceipts
            /\ CurBills' = [CurBills EXCEPT ![b] = "draft"] /\ ComBills' = ComBills
        BY <3>3, <3>4 DEF CurItems, CurReceipts, CurBills, ComBills, Put, PurchaseInv, TypeOK
      <4> QED
        BY <2>2, <4>1, UntouchedIsCommitted
    <3>6. PICK bls : bls = [CurBills EXCEPT ![b] = "draft"]
      OBVIOUS
    <3>7. /\ \A c \in Bills : CurBills[c] # "none" => bls[c] # "none"
          /\ bls[b] = "draft" /\ \A c \in Bills \ {b} : bls[c] = CurBills[c]
      BY <3>3, <3>6 DEF CurBills
    <3>8. Sound(purchase.cur, CurItems, CurReceipts, bls)
      <4>1. purchase.cur = "draft" => \A r \in Receipts : CurReceipts[r] = "none"
        BY <2>2 DEF Sound
      <4> QED
        BY <1>u, <2>2, <3>7, <4>1, SoundGrows
    <3>9. Decided(purchase.cur, CurItems, CurReceipts, bls)
      BY <3>3, <3>7 DEF Decided
    <3>10. SerialOK(s)' /\ ReopenOK(q, s)'
      <4>1. /\ Sound(purchase.cur, CurItems, CurReceipts, CurBills)'
            /\ Decided(purchase.cur, CurItems, CurReceipts, CurBills)'
        BY <3>4, <3>5, <3>6, <3>8, <3>9
      <4> QED
        BY <3>4, <4>1 DEF SerialOK, ReopenOK
    \* What a new bill adds of an item is one line of it, which fits.
    <3>11. ASSUME OneLinePerItem, NEW i \in Items,
                  SumBilled(bls)[i] > SumBilled(CurBills)[i]
           PROVE  SumBilled(bls)[i] <= BillableCeiling(CurItems[i], SumReceived(CurReceipts)[i])
      <4>1. SumBilled(CurBills)[i] \in Nat
        BY BilledType
      <4>2. CurBills[b] = "none"
        <5>1. CASE CurBills[b] # "none"
          <6>1. \A c \in Bills : CurBills[c] = "none" <=> bls[c] = "none"
            BY <3>7, <5>1
          <6>2. SumBilled(bls)[i] = SumBilled(CurBills)[i]
            BY <6>1, SameBilled
          <6> QED
            BY <3>11, <4>1, <6>2
        <5> QED
          BY <5>1
      <4>3. SumBilled(bls)[i] = SumBilled(CurBills)[i] + BillQty[b][i]
        BY <3>3, <3>7, <4>2, BilledAdds
      <4>4. BillQty[b][i] # 0
        BY <3>11, <4>1, <4>3
      <4>5. PICK k \in DOMAIN BillLines[b] : /\ BillLines[b][k].item = i
                                             /\ BillQty[b][i] = BillLines[b][k].qty
        BY <3>3, <3>11, <4>4, OneLine
      <4> QED
        BY <3>f, <4>3, <4>5
    <3>12. OneLinePerItem => BillFits'
      <4> SUFFICES ASSUME OneLinePerItem PROVE BillFits'
        OBVIOUS
      <4>1. \A p \in Open' : tx'[p].pc = "commit"
        BY <2>2, <3>4 DEF Open, PurchaseInv, TypeOK
      <4> QED
        BY <3>5, <3>6, <3>11, <4>1 DEF BillFits
    <3> QED
      BY <2>1, <2>2, <3>3, <3>4, <3>10, <3>12, SerialBill
  <2> QED
    BY <2>3, <2>4
<1>3. CASE ApproveBill(q)
  <2>1. CanBegin(q, "approveBill")
    BY <1>3 DEF ApproveBill
  <2>2. /\ Open = {} /\ Untouched /\ tx[q].pc # "commit"
        /\ Sound(purchase.cur, CurItems, CurReceipts, CurBills)
    BY <2>1, BeginsAlone
  <2>3. CASE Goto(q, "casApproved") /\ UNCHANGED tables
    <3>1. /\ SerialOK([tx[q] EXCEPT !.pc = "casApproved"]) /\ "casApproved" \in Working
          /\ ReopenOK(q, [tx[q] EXCEPT !.pc = "casApproved"])
      BY <1>t, <2>2 DEF SerialOK, ReopenOK, TxState, Working
    <3> QED
      BY <2>2, <2>3, <3>1, SerialGoto
  <2> QED
    BY <1>3, <2>2, <2>3, RollbackSerial DEF ApproveBill
<1>4. CASE TransitionToApproved(q)
  <2>1. tx[q].pc = "casApproved" /\ tx[q].pc \in Working
    BY <1>4 DEF TransitionToApproved, At, Working
  <2>2. Open = {q} /\ Sound(purchase.cur, CurItems, CurReceipts, CurBills)
    BY <2>1, WorksAlone
  <2>3. CASE Rollback(q)
    BY <2>2, <2>3, RollbackSerial
  <2>4. CASE ~Rollback(q)
    <3>1. PICK b : b = Target[q]
      OBVIOUS
    <3>2. PICK s : s = [tx[q] EXCEPT !.pc = "listItems"]
      OBVIOUS
    <3>3. b \in Bills
      BY <1>t, <2>1, <3>1, Workload DEF TargetsOf, HandlerOK
    <3>4. /\ bills[b].cur = "draft"
          /\ bills' = [bills EXCEPT ![b] = Put(q, @, "approved")]
          /\ tx' = [tx EXCEPT ![q] = s] /\ s.pc = "listItems" /\ s.pc \in Working
          /\ UNCHANGED <<purchase, items, receipts>>
      BY <1>4, <1>t, <2>2, <2>4, <3>1, <3>2, <3>3, SeesNewest
      DEF TransitionToApproved, Goto, TxState, Working
    <3>5. /\ CurItems' = CurItems /\ CurReceipts' = CurReceipts
          /\ CurBills' = [CurBills EXCEPT ![b] = "approved"] /\ ComBills' = ComBills
      BY <3>3, <3>4 DEF CurItems, CurReceipts, CurBills, ComBills, Put, PurchaseInv, TypeOK
    <3>6. PICK bls : bls = [CurBills EXCEPT ![b] = "approved"]
      OBVIOUS
    <3>7. \A c \in Bills : CurBills[c] = "none" <=> bls[c] = "none"
      BY <3>3, <3>4, <3>6 DEF CurBills
    <3>8. SumBilled(bls) = SumBilled(CurBills)
      BY <3>7, SameBilled
    <3>9. Sound(purchase.cur, CurItems, CurReceipts, bls)
      BY <2>2, <3>8 DEF Sound
    <3>10. SerialOK(s)' /\ ReopenOK(q, s)'
      <4>1. Sound(purchase.cur, CurItems, CurReceipts, CurBills)'
        BY <3>4, <3>5, <3>6, <3>9
      <4> QED
        BY <3>4, <4>1 DEF SerialOK, ReopenOK
    <3>11. OneLinePerItem => BillFits'
      <4> SUFFICES ASSUME OneLinePerItem PROVE BillFits'
        OBVIOUS
      <4>1. \A i \in Items : ~(SumBilled(bls)[i] > SumBilled(ComBills)[i])
        BY <2>1, <2>2, <3>8, NoBillAdded
      <4> QED
        BY <3>5, <3>6, <4>1 DEF BillFits
    <3> QED
      BY <2>1, <2>2, <3>3, <3>4, <3>10, <3>11, SerialBill
  <2> QED
    BY <2>3, <2>4
<1> QED
  BY <1>1, <1>2, <1>3, <1>4 DEF BillStep

\* The reads of the short-closes.
LEMMA ShortCloseReads ==
  ASSUME OneAtATime, PurchaseInv, SerialInv, NEW q \in Requests,
         \/ ShortCloseLine(q) \/ ShortCloseAll(q) \/ ListLines(q)
         \/ ReopenLine(q) \/ FindLine(q) \/ SumLine(q)
  PROVE  SerialInv'
<1>t. tx[q] \in TxState /\ HandlerOK(q, tx[q])
  BY DEF PurchaseInv, TypeOK, HandlersInv
<1>u. CurItems \in [Items -> ItemRow]
  BY Types DEF PurchaseInv
<1>1. CASE ShortCloseLine(q)
  <2>1. CanBegin(q, "shortCloseLine") /\ Op[q] = "shortCloseLine"
    BY <1>1 DEF ShortCloseLine, CanBegin
  <2>2. /\ Open = {} /\ Untouched /\ tx[q].pc # "commit"
        /\ Sound(purchase.cur, CurItems, CurReceipts, CurBills)
    BY <2>1, BeginsAlone
  <2>3. CASE Rollback(q)
    BY <2>2, <2>3, RollbackSerial
  <2>4. CASE ~Rollback(q)
    <3> DEFINE s == [tx[q] EXCEPT !.pc = "sumLine", !.ordered = SeenAll(q, items),
                                  !.todo = {Target[q]}]
    <3>1. tx' = [tx EXCEPT ![q] = s] /\ UNCHANGED tables
      BY <1>1, <2>4 DEF ShortCloseLine
    <3>2. s.pc = "sumLine" /\ s.pc \in Working /\ s.ordered = CurItems
      BY <1>t, <2>2, SeesNewest DEF TxState, Working
    <3> HIDE DEF s
    <3>3. SerialOK(s) /\ ReopenOK(q, s)
      BY <2>1, <2>2, <3>2 DEF SerialOK, ReopenOK
    <3> QED
      BY <2>2, <3>1, <3>2, <3>3, SerialRead DEF tables
  <2> QED
    BY <2>3, <2>4
<1>2. CASE ShortCloseAll(q)
  <2>1. CanBegin(q, "shortCloseAll")
    BY <1>2 DEF ShortCloseAll
  <2>2. /\ Open = {} /\ Untouched /\ tx[q].pc # "commit"
        /\ Sound(purchase.cur, CurItems, CurReceipts, CurBills)
    BY <2>1, BeginsAlone
  <2> DEFINE s == [tx[q] EXCEPT !.pc = "listLines",
                                !.received = SumReceived(SeenAll(q, receipts))]
  <2>3. tx' = [tx EXCEPT ![q] = s] /\ UNCHANGED tables
    BY <1>2 DEF ShortCloseAll
  <2>4. s.pc = "listLines" /\ s.pc \in Working /\ s.received = SumReceived(CurReceipts)
    BY <1>t, <2>2, SeesNewest DEF TxState, Working
  <2> HIDE DEF s
  <2>5. SerialOK(s) /\ ReopenOK(q, s)
    BY <2>2, <2>4 DEF SerialOK, ReopenOK
  <2> QED
    BY <2>2, <2>3, <2>4, <2>5, SerialRead DEF tables
<1>3. CASE ListLines(q)
  <2>1. tx[q].pc = "listLines" /\ tx[q].pc \in Working
    BY <1>3 DEF ListLines, At, Working
  <2>2. /\ Open = {q} /\ Sound(purchase.cur, CurItems, CurReceipts, CurBills)
        /\ Untouched /\ tx[q].received = SumReceived(CurReceipts)
    BY <2>1, WorksAlone DEF SerialOK
  <2> DEFINE partial == {i \in Listed(CurItems) :
                           LineStatus(CurItems[i].quantity, tx[q].received[i],
                                      CurItems[i].shortClosed) = "partial"}
             s == [tx[q] EXCEPT !.pc = IF partial = {} THEN "commit" ELSE "shortClose",
                                !.ordered = CurItems, !.todo = partial]
  <2>3. tx' = [tx EXCEPT ![q] = s] /\ UNCHANGED tables
    <3>1. SeenAll(q, items) = CurItems
      BY <2>2, SeesNewest
    <3> QED
      BY <1>3, <3>1 DEF ListLines
  <2>4. /\ s.pc \in {"commit", "shortClose"} /\ s.pc \in Working
        /\ s.ordered = CurItems /\ s.todo = partial
        /\ s.received = SumReceived(CurReceipts)
    BY <1>t, <2>2 DEF TxState, Working
  <2>5. \A i \in partial : CurItems[i].shortClosed = 0
    <3> TAKE i \in partial
    <3>1. /\ CurItems[i].quantity \in Nat /\ CurItems[i].shortClosed \in Nat
          /\ tx[q].received[i] \in Nat
      BY <1>t, <1>u DEF Listed, ItemRow, TxState
    <3> QED
      BY <3>1 DEF LineStatus
  <2> HIDE DEF s, partial
  <2>6. Decided(purchase.cur, CurItems, CurReceipts, CurBills)
    BY <2>2, UntouchedIsCommitted DEF SerialInv, Committable
  <2>7. SerialOK(s) /\ ReopenOK(q, s)
    BY <2>2, <2>4, <2>5, <2>6 DEF SerialOK, ReopenOK
  <2> QED
    BY <2>1, <2>2, <2>3, <2>4, <2>7, SerialRead DEF tables
<1>4. CASE ReopenLine(q)
  <2>1. CanBegin(q, "reopenLine")
    BY <1>4 DEF ReopenLine
  <2>2. /\ Open = {} /\ Untouched /\ tx[q].pc # "commit"
        /\ Sound(purchase.cur, CurItems, CurReceipts, CurBills)
    BY <2>1, BeginsAlone
  <2>3. CASE Rollback(q)
    BY <2>2, <2>3, RollbackSerial
  <2>4. CASE ~Rollback(q)
    <3>1. Editable /\ Goto(q, "findLine") /\ UNCHANGED tables
      BY <1>4, <2>2, <2>4, SeesNewest DEF ReopenLine, Editable
    <3>2. /\ SerialOK([tx[q] EXCEPT !.pc = "findLine"]) /\ "findLine" \in Working
          /\ ReopenOK(q, [tx[q] EXCEPT !.pc = "findLine"])
      BY <1>t, <2>2, <3>1 DEF SerialOK, ReopenOK, TxState, Working
    <3> QED
      BY <2>2, <3>1, <3>2, SerialGoto
  <2> QED
    BY <2>3, <2>4
<1>5. CASE FindLine(q)
  <2>1. tx[q].pc = "findLine" /\ tx[q].pc \in Working
    BY <1>5 DEF FindLine, At, Working
  <2>2. /\ Open = {q} /\ Sound(purchase.cur, CurItems, CurReceipts, CurBills)
        /\ Untouched /\ Editable
    BY <2>1, WorksAlone DEF SerialOK
  <2>3. CASE Rollback(q)
    BY <2>2, <2>3, RollbackSerial
  <2>4. CASE ~Rollback(q)
    <3> DEFINE s == [tx[q] EXCEPT !.pc = "sumLine", !.ordered = SeenAll(q, items)]
    <3>1. tx' = [tx EXCEPT ![q] = s] /\ UNCHANGED tables
      BY <1>5, <2>4 DEF FindLine
    <3>2. s.pc = "sumLine" /\ s.pc \in Working /\ s.ordered = CurItems
      BY <1>t, <2>2, SeesNewest DEF TxState, Working
    <3> HIDE DEF s
    <3>3. SerialOK(s) /\ ReopenOK(q, s)
      BY <2>2, <3>2 DEF SerialOK, ReopenOK
    <3> QED
      BY <2>1, <2>2, <3>1, <3>2, <3>3, SerialRead DEF tables
  <2> QED
    BY <2>3, <2>4
<1>6. CASE SumLine(q)
  <2>1. tx[q].pc = "sumLine" /\ tx[q].pc \in Working
    BY <1>6 DEF SumLine, At, Working
  <2>2. /\ Open = {q} /\ Sound(purchase.cur, CurItems, CurReceipts, CurBills)
        /\ Untouched /\ tx[q].ordered = CurItems
        /\ Op[q] = "reopenLine" => Editable
        /\ Op[q] \in {"shortCloseLine", "reopenLine"}
    <3>1. Open = {q} /\ SerialOK(tx[q]) /\ ReopenOK(q, tx[q])
      BY <2>1, WorksAlone
    <3>2. Op[q] \in {"shortCloseLine", "reopenLine"}
      BY <1>t, <2>1 DEF HandlerOK
    <3> QED
      BY <2>1, <3>1, <3>2 DEF SerialOK, ReopenOK
  <2> DEFINE s == [tx[q] EXCEPT
                     !.pc = IF Op[q] = "reopenLine" THEN "reopen" ELSE "shortClose",
                     !.received = SumReceived(SeenAll(q, receipts))]
  <2>3. tx' = [tx EXCEPT ![q] = s] /\ UNCHANGED tables
    BY <1>6 DEF SumLine
  <2>4. /\ s.pc = IF Op[q] = "reopenLine" THEN "reopen" ELSE "shortClose"
        /\ s.pc \in Working /\ s.ordered = CurItems
        /\ s.received = SumReceived(CurReceipts)
    BY <1>t, <2>2, SeesNewest DEF TxState, Working
  <2>5. s.todo \subseteq Items
    BY <1>t DEF TxState
  <2> HIDE DEF s
  <2>6. s.pc = "shortClose" => ~NoLineIsShortClosed
    BY <2>2, <2>4 DEF NoLineIsShortClosed
  <2>7. SerialOK(s) /\ ReopenOK(q, s)
    BY <2>2, <2>4, <2>6 DEF SerialOK, ReopenOK
  <2> QED
    BY <2>1, <2>2, <2>3, <2>4, <2>7, SerialRead DEF tables
<1> QED
  BY <1>1, <1>2, <1>3, <1>4, <1>5, <1>6

\* Writing off what is not received of a line of which something is.
LEMMA ShortCloseSerial ==
  ASSUME PurchaseInv, SerialInv, NEW q \in Requests, WriteShortClose(q)
  PROVE  SerialInv'
<1>t. tx[q] \in TxState /\ HandlerOK(q, tx[q])
  BY DEF PurchaseInv, TypeOK, HandlersInv
<1>u. /\ CurItems \in [Items -> ItemRow]
      /\ SumReceived(CurReceipts) \in [Items -> Nat]
  BY Types, ReceivedType DEF PurchaseInv
<1>1. tx[q].pc = "shortClose" /\ tx[q].pc \in Working
  BY DEF WriteShortClose, At, Working
<1>2. /\ Open = {q} /\ Sound(purchase.cur, CurItems, CurReceipts, CurBills)
      /\ tx[q].received = SumReceived(CurReceipts)
      /\ \A i \in tx[q].todo : /\ tx[q].ordered[i] = CurItems[i]
                               /\ NoLineIsShortClosed => CurItems[i].shortClosed = 0
  BY <1>1, WorksAlone DEF SerialOK
<1>3. CASE Rollback(q)
  BY <1>2, <1>3, RollbackSerial
<1>4. CASE ~Rollback(q)
  <2>1. PICK i : i = Min(tx[q].todo)
    OBVIOUS
  <2>2. tx[q].todo \subseteq Items /\ i \in tx[q].todo
    <3>1. tx[q].todo \in SUBSET Items /\ tx[q].todo # {}
      BY <1>t, <1>1 DEF TxState, HandlerOK
    <3> QED
      BY <2>1, <3>1, FirstItem
  <2>3. PICK row : row = [items[i].cur EXCEPT
                            !.shortClosed = WrittenOff(tx[q].ordered[i].quantity, tx[q].received[i]),
                            !.lineStatus = "short_closed"]
    OBVIOUS
  <2>4. PICK s : s = [tx[q] EXCEPT
                        !.pc = IF tx[q].todo \ {i} = {} THEN "listItems" ELSE "shortClose",
                        !.todo = tx[q].todo \ {i}]
    OBVIOUS
  <2>5. PICK R : R = SumReceived(CurReceipts)[i]
    OBVIOUS
  <2>6. /\ CurItems[i] = items[i].cur /\ items[i].cur \in ItemRow
        /\ tx[q].ordered[i] = CurItems[i] /\ tx[q].received[i] = R
        /\ R \in Nat /\ CurItems[i].quantity \in Nat
    BY <1>u, <1>2, <2>2, <2>5 DEF CurItems, ItemRow
  <2>7. R > 0 /\ R < CurItems[i].quantity
    BY <1>4, <2>1, <2>6 DEF WriteShortClose, PartlyReceived
  <2>8. /\ items' = [items EXCEPT ![i] = Put(q, @, row)]
        /\ tx' = [tx EXCEPT ![q] = s] /\ UNCHANGED <<purchase, receipts, bills>>
    BY <1>4, <2>1, <2>3, <2>4 DEF WriteShortClose
  <2>9. /\ s.pc \in {"listItems", "shortClose"} /\ s.pc \in Working
        /\ s.received = SumReceived(CurReceipts) /\ s.ordered = tx[q].ordered
        /\ s.todo = tx[q].todo \ {i}
    BY <1>t, <1>2, <2>4 DEF TxState, Working
  <2>10. /\ row \in ItemRow /\ row.quantity = CurItems[i].quantity
         /\ row.shortClosed = CurItems[i].quantity - R
         /\ row.lineStatus = "short_closed"
    <3>1. WrittenOff(tx[q].ordered[i].quantity, tx[q].received[i]) = CurItems[i].quantity - R
      BY <2>6 DEF WrittenOff
    <3>2. CurItems[i].quantity - R \in Nat
      BY <2>6, <2>7
    <3>3. row = [items[i].cur EXCEPT !.shortClosed = CurItems[i].quantity - R,
                                     !.lineStatus = "short_closed"]
      BY <2>3, <3>1
    <3>4. "short_closed" \in LineStatuses
      BY DEF LineStatuses
    <3> QED
      BY <2>6, <3>2, <3>3, <3>4 DEF ItemRow
  <2>11. LineOK(row, R)
    BY <2>6, <2>7, <2>10 DEF LineOK
  <2>12. /\ CurItems' = [CurItems EXCEPT ![i] = row]
         /\ CurReceipts' = CurReceipts /\ CurBills' = CurBills
    BY <2>2, <2>8 DEF CurItems, CurReceipts, CurBills, Put, PurchaseInv, TypeOK
  <2>13. PICK rows : rows = [CurItems EXCEPT ![i] = row]
    OBVIOUS
  \* An order that is complete has no line that is received in part.
  <2>14. ~(NoLineIsShortClosed /\ purchase.cur = "closed")
    <3> SUFFICES ASSUME NoLineIsShortClosed, purchase.cur = "closed" PROVE FALSE
      OBVIOUS
    <3>1. CurItems[i].shortClosed = 0 /\ i \in Listed(CurItems)
      BY <1>2, <2>2, <2>6, <2>7 DEF Listed
    <3>2. R >= Expected(CurItems[i])
      BY <1>2, <2>5, <3>1 DEF Sound, Complete
    <3> QED
      BY <2>6, <2>7, <3>1, <3>2 DEF Expected
  <2>15. Sound(purchase.cur, rows, CurReceipts, CurBills)
    <3>1. \A j \in Items : LineOK(rows[j], SumReceived(CurReceipts)[j])
      <4>1. \A j \in Items : LineOK(CurItems[j], SumReceived(CurReceipts)[j])
        BY <1>2 DEF Sound
      <4>2. \A j \in Items : rows[j] = IF j = i THEN row ELSE CurItems[j]
        BY <1>u, <2>2, <2>13
      <4> QED
        BY <2>5, <2>11, <4>1, <4>2
    <3> QED
      BY <1>2, <2>14, <3>1 DEF Sound
  <2>16. \A j \in s.todo : /\ s.ordered[j] = rows[j]
                           /\ NoLineIsShortClosed => rows[j].shortClosed = 0
    BY <1>u, <1>2, <2>2, <2>9, <2>13
  <2>17. SerialOK(s)' /\ ReopenOK(q, s)'
    <3>1. Sound(purchase.cur, CurItems, CurReceipts, CurBills)'
      BY <2>8, <2>12, <2>13, <2>15
    <3>2. CurItems' = rows /\ CurReceipts' = CurReceipts
      BY <2>12, <2>13
    <3> QED
      BY <2>9, <2>16, <3>1, <3>2 DEF SerialOK, ReopenOK
  <2> QED
    BY <1>1, <1>2, <2>2, <2>6, <2>8, <2>9, <2>10, <2>17, SerialItem
<1> QED
  BY <1>3, <1>4

\* A line that is reopened expects its rest again: the order is not complete
\* by it.
LEMMA ReopenSerial ==
  ASSUME PurchaseInv, SerialInv, NEW q \in Requests, WriteReopened(q)
  PROVE  SerialInv'
<1>t. tx[q] \in TxState /\ HandlerOK(q, tx[q])
  BY DEF PurchaseInv, TypeOK, HandlersInv
<1>u. CurItems \in [Items -> ItemRow]
  BY Types DEF PurchaseInv
<1>1. tx[q].pc = "reopen" /\ tx[q].pc \in Working
  BY DEF WriteReopened, At, Working
<1>2. /\ Open = {q} /\ Sound(purchase.cur, CurItems, CurReceipts, CurBills)
      /\ Untouched /\ Editable
  BY <1>1, WorksAlone DEF SerialOK
<1>3. PICK i : i = Target[q]
  OBVIOUS
<1>4. i \in Items
  <2>1. Op[q] = "reopenLine"
    BY <1>t, <1>1 DEF HandlerOK
  <2> QED
    BY <1>3, <2>1, Workload DEF TargetsOf
<1>5. PICK row : row = [items[i].cur EXCEPT
                          !.shortClosed = 0,
                          !.lineStatus = Reopened(tx[q].ordered[i].quantity, tx[q].received[i])]
  OBVIOUS
<1>6. PICK s : s = [tx[q] EXCEPT !.pc = "commit"]
  OBVIOUS
<1>7. /\ items' = [items EXCEPT ![i] = Put(q, @, row)]
      /\ tx' = [tx EXCEPT ![q] = s] /\ UNCHANGED <<purchase, receipts, bills>>
      /\ s.pc = "commit" /\ s.pc \in Working
  BY <1>t, <1>3, <1>5, <1>6 DEF WriteReopened, Goto, TxState, Working
<1>8. /\ CurItems[i] = items[i].cur /\ items[i].cur \in ItemRow
      /\ Reopened(tx[q].ordered[i].quantity, tx[q].received[i])
           \in LineStatuses \ {"short_closed"}
  <2>1. CurItems[i] = items[i].cur /\ items[i].cur \in ItemRow
    BY <1>u, <1>4 DEF CurItems
  <2>2. tx[q].ordered[i].quantity \in Nat /\ tx[q].received[i] \in Nat
    BY <1>t, <1>4 DEF TxState, ItemRow
  <2> QED
    BY <2>1, <2>2 DEF Reopened, LineStatus, LineStatuses
<1>9. /\ row \in ItemRow /\ row.quantity = CurItems[i].quantity
      /\ row.shortClosed = 0 /\ row.lineStatus # "short_closed"
  BY <1>5, <1>8 DEF ItemRow
<1>10. /\ CurItems' = [CurItems EXCEPT ![i] = row]
       /\ CurReceipts' = CurReceipts /\ CurBills' = CurBills
  BY <1>4, <1>7 DEF CurItems, CurReceipts, CurBills, Put, PurchaseInv, TypeOK
<1>11. PICK rows : rows = [CurItems EXCEPT ![i] = row]
  OBVIOUS
<1>12. \A j \in Items : rows[j] = IF j = i THEN row ELSE CurItems[j]
  BY <1>u, <1>4, <1>11
<1>13. Sound(purchase.cur, rows, CurReceipts, CurBills)
  <2>1. \A j \in Items : LineOK(rows[j], SumReceived(CurReceipts)[j])
    BY <1>2, <1>9, <1>12 DEF Sound, LineOK
  <2> QED
    BY <1>2, <2>1 DEF Sound, Editable
<1>14. Decided(purchase.cur, rows, CurReceipts, CurBills)
  <2>1. SUFFICES ASSUME purchase.cur = "issued",
                        Complete(rows, SumReceived(CurReceipts), SumBilled(CurBills))
                 PROVE  \E b \in Bills : CurBills[b] = "draft"
    BY DEF Decided
  <2>2. Decided(purchase.cur, CurItems, CurReceipts, CurBills)
    BY <1>2, UntouchedIsCommitted DEF SerialInv, Committable
  <2>3. Complete(CurItems, SumReceived(CurReceipts), SumBilled(CurBills))
    <3> DEFINE R == SumReceived(CurReceipts)
               B == SumBilled(CurBills)
    <3>1. R \in [Items -> Nat] /\ B \in [Items -> Nat]
      BY ReceivedType, BilledType
    <3> HIDE DEF R, B
    <3>2. Listed(rows) = Listed(CurItems) /\ Listed(rows) \subseteq Items
      BY <1>4, <1>9, <1>12 DEF Listed
    <3>3. \A j \in Items : /\ Expected(CurItems[j]) \in Int /\ Expected(rows[j]) \in Int
                           /\ Expected(CurItems[j]) <= Expected(rows[j])
      <4> TAKE j \in Items
      <4>1. CurItems[j].quantity \in Nat /\ CurItems[j].shortClosed \in Nat
        BY <1>u DEF ItemRow
      <4> QED
        BY <1>9, <1>12, <4>1 DEF Expected
    <3>4. /\ Listed(rows) # {}
          /\ \A j \in Listed(rows) : R[j] >= Expected(rows[j]) /\ B[j] >= Expected(rows[j])
      BY <2>1 DEF Complete, R, B
    <3>5. \A j \in Listed(CurItems) :
            R[j] >= Expected(CurItems[j]) /\ B[j] >= Expected(CurItems[j])
      <4> TAKE j \in Listed(CurItems)
      <4>1. j \in Items /\ R[j] \in Nat /\ B[j] \in Nat
        BY <3>1, <3>2
      <4>2. R[j] >= Expected(rows[j]) /\ B[j] >= Expected(rows[j])
        BY <3>2, <3>4
      <4> QED
        BY <3>3, <4>1, <4>2
    <3>6. Complete(CurItems, R, B)
      BY <3>2, <3>4, <3>5 DEF Complete
    <3> QED
      BY <3>6 DEF R, B
  <2> QED
    BY <2>1, <2>2, <2>3 DEF Decided
<1>15. SerialOK(s)' /\ ReopenOK(q, s)'
  <2>1. /\ Sound(purchase.cur, CurItems, CurReceipts, CurBills)'
        /\ Decided(purchase.cur, CurItems, CurReceipts, CurBills)'
    BY <1>7, <1>10, <1>11, <1>13, <1>14
  <2> QED
    BY <1>7, <2>1 DEF SerialOK, ReopenOK
<1> QED
  BY <1>1, <1>2, <1>4, <1>7, <1>8, <1>9, <1>15, SerialItem

LEMMA CloseSerial ==
  ASSUME PurchaseInv, SerialInv, NEW q \in Requests, CloseStep(q)
  PROVE  SerialInv'
<1>t. tx[q] \in TxState
  BY DEF PurchaseInv, TypeOK
<1>w. /\ tx[q].pc \in {"listItems", "sumReceived", "sumBilled", "close"}
      /\ tx[q].pc \in Working
  BY DEF CloseStep, ListItems, SumReceipts, SumBills, MaybeAutoClose, At, Working
<1>o. /\ Open = {q} /\ SerialOK(tx[q])
      /\ Sound(purchase.cur, CurItems, CurReceipts, CurBills)
  BY <1>w, WorksAlone
<1>1. CASE ListItems(q)
  <2> DEFINE s == [tx[q] EXCEPT !.pc = "sumReceived", !.ordered = SeenAll(q, items)]
  <2>1. tx' = [tx EXCEPT ![q] = s] /\ UNCHANGED tables
    BY <1>1 DEF ListItems
  <2>2. s.pc = "sumReceived" /\ s.pc \in Working /\ s.ordered = CurItems
    BY <1>t, <1>o, SeesNewest DEF TxState, Working
  <2> HIDE DEF s
  <2>3. SerialOK(s) /\ ReopenOK(q, s)
    BY <1>o, <2>2 DEF SerialOK, ReopenOK
  <2> QED
    BY <1>w, <1>o, <2>1, <2>2, <2>3, SerialRead DEF tables
<1>2. CASE SumReceipts(q)
  <2> DEFINE s == [tx[q] EXCEPT !.pc = "sumBilled",
                                !.received = SumReceived(SeenAll(q, receipts))]
  <2>0. tx[q].ordered = CurItems
    BY <1>2, <1>o DEF SumReceipts, At, SerialOK
  <2>1. tx' = [tx EXCEPT ![q] = s] /\ UNCHANGED tables
    BY <1>2 DEF SumReceipts
  <2>2. /\ s.pc = "sumBilled" /\ s.pc \in Working /\ s.ordered = CurItems
        /\ s.received = SumReceived(CurReceipts)
    BY <1>t, <1>o, <2>0, SeesNewest DEF TxState, Working
  <2> HIDE DEF s
  <2>3. SerialOK(s) /\ ReopenOK(q, s)
    BY <1>o, <2>2 DEF SerialOK, ReopenOK
  <2> QED
    BY <1>w, <1>o, <2>1, <2>2, <2>3, SerialRead DEF tables
<1>3. CASE SumBills(q)
  <2> DEFINE finished == Finished(CurItems, SumReceived(CurReceipts), SumBilled(CurBills))
             pc == IF finished THEN "close" ELSE "commit"
             s == [tx[q] EXCEPT !.pc = pc]
  <2>0. tx[q].ordered = CurItems /\ tx[q].received = SumReceived(CurReceipts)
    BY <1>3, <1>o DEF SumBills, At, SerialOK
  <2>1. finished <=> Complete(CurItems, SumReceived(CurReceipts), SumBilled(CurBills))
    <3>1. /\ CurItems \in [Items -> ItemRow]
          /\ SumReceived(CurReceipts) \in [Items -> Nat]
          /\ SumBilled(CurBills) \in [Items -> Nat]
      BY Types, ReceivedType, BilledType DEF PurchaseInv
    <3>2. \A i \in Items : LineOK(CurItems[i], SumReceived(CurReceipts)[i])
      BY <1>o DEF Sound
    <3> QED
      BY <3>1, <3>2, FinishedIsComplete
  <2>2. tx' = [tx EXCEPT ![q] = s] /\ UNCHANGED tables
    <3>1. SeenAll(q, bills) = CurBills
      BY <1>o, SeesNewest
    <3> QED
      BY <1>3, <2>0, <3>1 DEF SumBills, Goto
  <2>3. /\ s.pc \in {"close", "commit"} /\ s.pc \in Working
        /\ s.pc = "close" <=> Complete(CurItems, SumReceived(CurReceipts), SumBilled(CurBills))
    BY <1>t, <2>1 DEF TxState, Working
  <2> HIDE DEF s, pc, finished
  <2>4. s.pc = "commit" => Decided(purchase.cur, CurItems, CurReceipts, CurBills)
    BY <2>3 DEF Decided
  <2>5. SerialOK(s) /\ ReopenOK(q, s)
    BY <1>o, <2>3, <2>4 DEF SerialOK, ReopenOK
  <2> QED
    BY <1>w, <1>o, <2>2, <2>3, <2>5, SerialRead DEF tables
<1>4. CASE MaybeAutoClose(q)
  <2>1. Complete(CurItems, SumReceived(CurReceipts), SumBilled(CurBills))
    BY <1>4, <1>o DEF MaybeAutoClose, At, SerialOK
  <2>2. Seen(q, purchase) = purchase.cur
    BY <1>o, SeesNewest
  <2>3. UNCHANGED <<items, receipts, bills>> /\ Goto(q, "commit") /\ tx[q].pc = "close"
    BY <1>4 DEF MaybeAutoClose, At
  <2>4. CASE purchase' = Put(q, purchase, "closed")
    <3>1. /\ Sound("closed", CurItems, CurReceipts, CurBills)
          /\ Decided("closed", CurItems, CurReceipts, CurBills)
      BY <1>o, <2>1 DEF Sound, Decided
    <3> QED
      BY <1>o, <2>3, <2>4, <3>1, SerialStatus
  <2>5. CASE purchase.cur # "issued" /\ UNCHANGED purchase
    <3>1. Decided(purchase.cur, CurItems, CurReceipts, CurBills)
      BY <2>5 DEF Decided
    <3> QED
      BY <1>o, <2>3, <2>5, <3>1, SerialStatus
  <2> QED
    BY <1>4, <2>2, <2>4, <2>5 DEF MaybeAutoClose
<1> QED
  BY <1>1, <1>2, <1>3, <1>4 DEF CloseStep

LEMMA SerialNext ==
  ASSUME OneAtATime, PurchaseInv, SerialInv, [Next]_vars
  PROVE  SerialInv'
<1>1. ASSUME NEW q \in Requests, Step(q) \/ Crash(q)
      PROVE  SerialInv'
  <2>1. CASE ShortCloseStep(q)
    BY <2>1, ShortCloseReads, ShortCloseSerial, ReopenSerial DEF ShortCloseStep
  <2>2. CASE Crash(q)
    <3>1. Open \subseteq {q} /\ Rollback(q)
      BY <2>2 DEF Crash, SerialInv
    <3> QED
      BY <3>1, RollbackSerial
  <2> QED
    BY <1>1, <2>1, <2>2, OrderSerial, ReceiptSerial, BillSerial, CloseSerial,
       CommitSerial DEF Step
<1>2. CASE UNCHANGED vars
  <2>1. /\ UNCHANGED <<purchase, items, receipts, bills, tx>>
    BY <1>2 DEF vars
  <2>2. /\ ComItems' = ComItems /\ ComReceipts' = ComReceipts /\ ComBills' = ComBills
        /\ CurItems' = CurItems /\ CurReceipts' = CurReceipts /\ CurBills' = CurBills
        /\ Untouched' = Untouched /\ Editable' = Editable /\ HasReceipt' = HasReceipt
        /\ Open' = Open
    BY <2>1 DEF ComItems, ComReceipts, ComBills, CurItems, CurReceipts, CurBills,
                Untouched, Editable, HasReceipt, Receipt, Open
  <2>3. Committable' /\ QuantitiesKept' /\ (OneLinePerItem => BillFits')
    BY <2>1, <2>2 DEF Committable, QuantitiesKept, BillFits, SerialInv
  <2>4. \A p \in Open' : SerialOK(tx[p])' /\ ReopenOK(p, tx[p])'
    BY <2>1, <2>2 DEF SerialOK, ReopenOK, SerialInv
  <2> QED
    BY <2>2, <2>3, <2>4 DEF SerialInv
<1> QED
  BY <1>1, <1>2 DEF Next, Done

\* The second inductive invariant.
THEOREM SerialInvariant ==
  ASSUME OneAtATime
  PROVE  Spec => [](PurchaseInv /\ SerialInv)
<1>1. Init => PurchaseInv /\ SerialInv
  BY InitialInv, InitialSerial
<1>2. PurchaseInv /\ SerialInv /\ [Next]_vars => (PurchaseInv /\ SerialInv)'
  BY NextInv, SerialNext
<1> QED
  BY <1>1, <1>2, PTL DEF Spec

\* What the invariant says of the committed tables.
LEMMA SerialTables ==
  ASSUME PurchaseInv, SerialInv
  PROVE  /\ FinishedOrderIsClosed /\ ShortClosedLineCanBeReopened
         /\ ShortCloseCoversTheRest
         /\ NoLineIsShortClosed => ClosedIsDone
<1>1. /\ Sound(Status, ComItems, ComReceipts, ComBills)
      /\ Decided(Status, ComItems, ComReceipts, ComBills)
  BY DEF SerialInv, Committable, Status
<1>2. OrderIsDone <=> Complete(ComItems, SumReceived(ComReceipts), SumBilled(ComBills))
  BY DoneIsComplete DEF PurchaseInv
<1>3. \A i \in Items : ComItems[i] = Row(i) /\ SumReceived(ComReceipts)[i] = ReceivedQty[i]
  BY DEF ComItems, Row, ReceivedQty, ComReceipts, Receipt
<1>4. FinishedOrderIsClosed
  BY <1>1, <1>2 DEF FinishedOrderIsClosed, Decided, Bill, ComBills
<1>5. ShortCloseCoversTheRest
  BY <1>1, <1>3 DEF ShortCloseCoversTheRest, Sound, LineOK
<1>7. ShortClosedLineCanBeReopened
  <2> SUFFICES ASSUME NEW i \in Items
               PROVE  /\ ShownStatus(i) = "short_closed" => Row(i).lineStatus = "short_closed"
                      /\ Row(i).lineStatus = "short_closed" => Row(i).shortClosed > 0
    BY DEF ShortClosedLineCanBeReopened
  <2>1. Row(i).shortClosed > 0 <=> Row(i).lineStatus = "short_closed"
    BY <1>1, <1>3 DEF Sound, LineOK
  <2>2. ShownStatus(i) = "short_closed" => Row(i).shortClosed > 0
    BY DEF ShownStatus, LineStatus
  <2> QED
    BY <2>1, <2>2
<1>6. NoLineIsShortClosed => ClosedIsDone
  BY <1>1, <1>2 DEF ClosedIsDone, Sound
<1> QED
  BY <1>4, <1>5, <1>6, <1>7

\* When one request at a time works on an order, no commit leaves it issued
\* with everything received and billed, unless a draft bill is left to approve.
THEOREM FinishedOrdersClose ==
  ASSUME OneAtATime
  PROVE  Spec => []FinishedOrderIsClosed
<1>1. PurchaseInv /\ SerialInv => FinishedOrderIsClosed
  BY SerialTables
<1> QED
  BY <1>1, SerialInvariant, PTL

\* A line that is shown as short-closed can be reopened, and only a line of
\* which a quantity is written off.
THEOREM ShortClosedLinesReopen ==
  ASSUME OneAtATime
  PROVE  Spec => []ShortClosedLineCanBeReopened
<1>1. PurchaseInv /\ SerialInv => ShortClosedLineCanBeReopened
  BY SerialTables
<1> QED
  BY <1>1, SerialInvariant, PTL

\* What is written off of a line and what is received of it cover the line,
\* also after more of it is received.
THEOREM ShortClosesCover ==
  ASSUME OneAtATime
  PROVE  Spec => []ShortCloseCoversTheRest
<1>1. PurchaseInv /\ SerialInv => ShortCloseCoversTheRest
  BY SerialTables
<1> QED
  BY <1>1, SerialInvariant, PTL

\* A closed order is received and billed, whatever is confirmed after it was
\* closed; only a line that is short-closed then could change that.
THEOREM ClosedOrdersAreDone ==
  ASSUME OneAtATime, NoLineIsShortClosed
  PROVE  Spec => []ClosedIsDone
<1>1. PurchaseInv /\ SerialInv => ClosedIsDone
  BY SerialTables
<1> QED
  BY <1>1, SerialInvariant, PTL

-----------------------------------------------------------------------------
(* What a step commits.                                                    *)

LEMMA OnlyCommits ==
  ASSUME PurchaseInv, NEW q \in Requests, Step(q) \/ Crash(q), ~Commit(q)
  PROVE  ComItems' = ComItems /\ ComReceipts' = ComReceipts /\ ComBills' = ComBills
<1>r. ASSUME Rollback(q)
      PROVE  ComItems' = ComItems /\ ComReceipts' = ComReceipts /\ ComBills' = ComBills
  <2>1. DOMAIN items = Items /\ DOMAIN receipts = Receipts /\ DOMAIN bills = Bills
    BY DEF PurchaseInv, TypeOK
  <2>2. ComItems' = ComItems
    BY <1>r, <2>1 DEF Rollback, ComItems, RolledBackAll, RolledBack, Fresh
  <2>3. ComReceipts' = ComReceipts
    BY <1>r, <2>1 DEF Rollback, ComReceipts, RolledBackAll, RolledBack, Fresh
  <2>4. ComBills' = ComBills
    BY <1>r, <2>1 DEF Rollback, ComBills, RolledBackAll, RolledBack, Fresh
  <2> QED
    BY <2>2, <2>3, <2>4
<1>i. \A i, row : items' = [items EXCEPT ![i] = Put(q, @, row)] => ComItems' = ComItems
  BY DEF ComItems, Put, PurchaseInv, TypeOK
<1>c. \A r, v : receipts' = [receipts EXCEPT ![r] = Put(q, @, v)] => ComReceipts' = ComReceipts
  BY DEF ComReceipts, Put, PurchaseInv, TypeOK
<1>b. \A b, v : bills' = [bills EXCEPT ![b] = Put(q, @, v)] => ComBills' = ComBills
  BY DEF ComBills, Put, PurchaseInv, TypeOK
<1>u. /\ UNCHANGED items => ComItems' = ComItems
      /\ UNCHANGED receipts => ComReceipts' = ComReceipts
      /\ UNCHANGED bills => ComBills' = ComBills
  BY DEF ComItems, ComReceipts, ComBills
<1>1. CASE OrderStep(q)
  <2>1. Issue(q) \/ TransitionToIssued(q) \/ Cancel(q) \/ TransitionToCancelled(q)
          \/ EditItem(q) => Rollback(q) \/ UNCHANGED <<items, receipts, bills>>
    BY DEF Issue, TransitionToIssued, Cancel, TransitionToCancelled, EditItem, tables
  <2>2. WriteItem(q) => /\ \E i, row : items' = [items EXCEPT ![i] = Put(q, @, row)]
                        /\ UNCHANGED <<receipts, bills>>
    BY DEF WriteItem
  <2> QED
    BY <1>1, <1>r, <1>i, <1>u, <2>1, <2>2 DEF OrderStep
<1>2. CASE ReceiptStep(q)
  <2>1. ConfirmReceipt(q) \/ BookStock(q) =>
          Rollback(q) \/ UNCHANGED <<items, receipts, bills>>
    BY DEF ConfirmReceipt, BookStock, tables
  <2>2. CreateReceipt(q) =>
          \/ Rollback(q)
          \/ /\ \E r, v : receipts' = [receipts EXCEPT ![r] = Put(q, @, v)]
             /\ UNCHANGED <<items, bills>>
    BY DEF CreateReceipt
  <2>3. TransitionToConfirmed(q) =>
          \/ Rollback(q)
          \/ /\ \E r, v : receipts' = [receipts EXCEPT ![r] = Put(q, @, v)]
             /\ UNCHANGED <<items, bills>>
    BY DEF TransitionToConfirmed
  <2> QED
    BY <1>2, <1>r, <1>c, <1>u, <2>1, <2>2, <2>3 DEF ReceiptStep
<1>3. CASE BillStep(q)
  <2>1. CreateBill(q) \/ ApproveBill(q) => Rollback(q) \/ UNCHANGED <<items, receipts, bills>>
    BY DEF CreateBill, ApproveBill, tables
  <2>2. CheckBill(q) =>
          \/ Rollback(q)
          \/ /\ \E b, v : bills' = [bills EXCEPT ![b] = Put(q, @, v)]
             /\ UNCHANGED <<items, receipts>>
    BY DEF CheckBill
  <2>3. TransitionToApproved(q) =>
          \/ Rollback(q)
          \/ /\ \E b, v : bills' = [bills EXCEPT ![b] = Put(q, @, v)]
             /\ UNCHANGED <<items, receipts>>
    BY DEF TransitionToApproved
  <2> QED
    BY <1>3, <1>r, <1>b, <1>u, <2>1, <2>2, <2>3 DEF BillStep
<1>4. CASE ShortCloseStep(q)
  <2>1. ShortCloseLine(q) \/ ShortCloseAll(q) =>
          Rollback(q) \/ UNCHANGED <<items, receipts, bills>>
    BY DEF ShortCloseLine, ShortCloseAll, tables
  <2>2. ListLines(q) \/ ReopenLine(q) => Rollback(q) \/ UNCHANGED <<items, receipts, bills>>
    BY DEF ListLines, ReopenLine, tables
  <2>3. FindLine(q) \/ SumLine(q) => Rollback(q) \/ UNCHANGED <<items, receipts, bills>>
    BY DEF FindLine, SumLine, tables
  <2>4. WriteShortClose(q) =>
          \/ Rollback(q)
          \/ /\ \E i, row : items' = [items EXCEPT ![i] = Put(q, @, row)]
             /\ UNCHANGED <<receipts, bills>>
    BY DEF WriteShortClose
  <2>5. WriteReopened(q) => /\ \E i, row : items' = [items EXCEPT ![i] = Put(q, @, row)]
                            /\ UNCHANGED <<receipts, bills>>
    BY DEF WriteReopened
  <2> QED
    BY <1>4, <1>r, <1>i, <1>u, <2>1, <2>2, <2>3, <2>4, <2>5 DEF ShortCloseStep
<1>5. CASE CloseStep(q)
  <2>1. UNCHANGED <<items, receipts, bills>>
    BY <1>5 DEF CloseStep, ListItems, SumReceipts, SumBills, MaybeAutoClose, tables
  <2> QED
    BY <1>u, <2>1
<1>6. CASE Crash(q)
  BY <1>6, <1>r DEF Crash
<1> QED
  BY <1>1, <1>2, <1>3, <1>4, <1>5, <1>6 DEF Step

\* A commit makes the newest versions the committed ones.
LEMMA CommitsNewest ==
  ASSUME PurchaseInv, SerialInv, NEW q \in Requests, Commit(q)
  PROVE  /\ q \in Open
         /\ ComItems' = CurItems /\ ComReceipts' = CurReceipts /\ ComBills' = CurBills
<1>1. tx[q].pc \in Working
  BY DEF Commit, At, Working
<1>2. Open = {q}
  BY <1>1, WorksAlone
<1>3. /\ \A i \in Items : items[i].lock \in {q, Nobody}
      /\ \A r \in Receipts : receipts[r].lock \in {q, Nobody}
      /\ \A b \in Bills : bills[b].lock \in {q, Nobody}
  BY <1>2 DEF PurchaseInv, TidyInv, Tidy
<1>4. q # Nobody
  BY Workload
<1>5. /\ \A i \in Items : Committed(q, items[i]).com = items[i].cur
      /\ \A r \in Receipts : Committed(q, receipts[r]).com = receipts[r].cur
      /\ \A b \in Bills : Committed(q, bills[b]).com = bills[b].cur
  BY <1>3, <1>4 DEF Committed, Fresh, PurchaseInv, TidyInv, Tidy
<1>6. DOMAIN items = Items /\ DOMAIN receipts = Receipts /\ DOMAIN bills = Bills
  BY DEF PurchaseInv, TypeOK
<1>7. ComItems' = CurItems
  BY <1>5, <1>6 DEF Commit, ComItems, CurItems, CommittedAll
<1>8. ComReceipts' = CurReceipts
  BY <1>5, <1>6 DEF Commit, ComReceipts, CurReceipts, CommittedAll
<1>9. ComBills' = CurBills
  BY <1>5, <1>6 DEF Commit, ComBills, CurBills, CommittedAll
<1> QED
  BY <1>2, <1>7, <1>8, <1>9

LEMMA TableSums ==
  /\ ReceivedQty = SumReceived(ComReceipts)
  /\ BilledQty = SumBilled(ComBills)
  /\ \A i \in Items : ComItems[i] = Row(i)
<1>1. {b \in Bills : Bill(b) # "none"} = {b \in Bills : ComBills[b] # "none"}
  BY DEF Bill, ComBills
<1> QED
  BY <1>1 DEF ReceivedQty, ComReceipts, Receipt, BilledQty, SumBilled, ComItems, Row

LEMMA TableSumsNext ==
  (/\ ReceivedQty = SumReceived(ComReceipts)
   /\ BilledQty = SumBilled(ComBills)
   /\ \A i \in Items : ComItems[i] = Row(i))'
BY TableSums, PTL

LEMMA QuantitiesStay ==
  ASSUME PurchaseInv, SerialInv, [Next]_vars, HasReceipt, NEW i \in Items
  PROVE  Row(i)'.quantity = Row(i).quantity
<1>1. ASSUME NEW q \in Requests, Step(q) \/ Crash(q)
      PROVE  ComItems'[i].quantity = ComItems[i].quantity
  <2>1. CASE ~Commit(q)
    BY <1>1, <2>1, OnlyCommits
  <2>2. CASE Commit(q)
    <3>1. ComItems' = CurItems
      BY <2>2, CommitsNewest
    <3>2. CurItems[i].quantity = ComItems[i].quantity
      BY DEF SerialInv, QuantitiesKept, CurItems, ComItems
    <3> QED
      BY <3>1, <3>2
  <2> QED
    BY <2>1, <2>2
<1>2. CASE UNCHANGED vars
  BY <1>2 DEF vars, Row
<1> QED
  BY <1>1, <1>2, TableSums, TableSumsNext DEF Next, Done

\* Once the order has a receipt, no commit changes an ordered quantity.
THEOREM ReceivedItemsFreeze ==
  ASSUME OneAtATime
  PROVE  Spec => ReceivedItemsAreFrozen
<1>1. PurchaseInv /\ SerialInv /\ [Next]_vars =>
        [HasReceipt => \A i \in Items : Row(i)'.quantity = Row(i).quantity]_vars
  BY QuantitiesStay
<1> QED
  BY <1>1, SerialInvariant, PTL DEF Spec, ReceivedItemsAreFrozen

LEMMA BillsFit ==
  ASSUME OneLinePerItem, PurchaseInv, SerialInv, [Next]_vars,
         NEW i \in Items, BilledQty'[i] > BilledQty[i]
  PROVE  BilledQty'[i] <= BillableCeiling(Row(i)', ReceivedQty'[i])
<1>0. SumBilled(ComBills)[i] \in Nat
  BY BilledType
<1>1. /\ BilledQty = SumBilled(ComBills) /\ BilledQty' = SumBilled(ComBills')
      /\ ReceivedQty' = SumReceived(ComReceipts') /\ ComItems'[i] = Row(i)'
  BY TableSums, TableSumsNext
<1>2. ASSUME NEW q \in Requests, Step(q) \/ Crash(q)
      PROVE  BilledQty'[i] <= BillableCeiling(Row(i)', ReceivedQty'[i])
  <2>1. CASE ~Commit(q)
    <3>1. ComBills' = ComBills
      BY <1>2, <2>1, OnlyCommits
    <3> QED
      BY <1>0, <1>1, <3>1
  <2>2. CASE Commit(q)
    <3>1. ComItems' = CurItems /\ ComReceipts' = CurReceipts /\ ComBills' = CurBills
      BY <2>2, CommitsNewest
    <3>2. SumBilled(CurBills)[i] > SumBilled(ComBills)[i] =>
            SumBilled(CurBills)[i] <= BillableCeiling(CurItems[i], SumReceived(CurReceipts)[i])
      BY DEF SerialInv, BillFits
    <3> QED
      BY <1>1, <3>1, <3>2
  <2> QED
    BY <2>1, <2>2
<1>3. CASE UNCHANGED vars
  <2>1. ComBills' = ComBills
    BY <1>3 DEF vars, ComBills
  <2> QED
    BY <1>0, <1>1, <2>1
<1> QED
  BY <1>2, <1>3 DEF Next, Done

\* What a commit adds to the billed quantity of an item stays within what was
\* received of it, or ordered of it before its first receipt.
THEOREM BillsFitTheCeiling ==
  ASSUME OneAtATime, OneLinePerItem
  PROVE  Spec => BillingWithinCeiling
<1>1. PurchaseInv /\ SerialInv /\ [Next]_vars =>
        [\A i \in Items : BilledQty'[i] > BilledQty[i] =>
            BilledQty'[i] <= BillableCeiling(Row(i)', ReceivedQty'[i])]_vars
  BY BillsFit
<1> QED
  BY <1>1, SerialInvariant, PTL DEF Spec, BillingWithinCeiling
=============================================================================
