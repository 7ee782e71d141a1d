-------------------------- MODULE PurchaseReceiving --------------------------
(***************************************************************************)
(* One purchase order from draft to closed (apps/api: modules/purchase and *)
(* the inventory subscriber).  Receipts book its goods into stock, bills   *)
(* charge for them, a line that will not be delivered in full is           *)
(* short-closed, and the order closes by itself when everything it still   *)
(* expects has been received and billed.                                   *)
(*                                                                         *)
(* What was received and billed is nowhere stored: every handler sums the  *)
(* documents it sees.  A request is one READ COMMITTED transaction, as in  *)
(* SalesFulfilment; its actions are its SQL statements, and consecutive    *)
(* statements are one action when nothing another transaction does between *)
(* them changes the outcome.  Orders share no row, so one is enough.       *)
(***************************************************************************)
EXTENDS Integers, FiniteSets, FiniteSetsExt, Sequences

CONSTANTS
  Items,                   \* purchase items, numbered in order of created_at
  Ordered,                 \* initial quantity; 0 for an item added later
  InitialStatus,           \* the order's status at the start
  Receipts, ReceiptLines,  \* purchase receipts and their lines
  Bills, BillLines,        \* purchase bills and their lines
  Requests, Op, Target,    \* the HTTP calls: operation and document
  Quantity,                \* the quantity in the body of addItem, updateItem
  PoolSize,                \* open transactions at a time
  OneAtATime,              \* one request at a time works on the order
  Nobody

INSTANCE RowStore

PurchaseStatus == {"draft", "issued", "closed", "cancelled"}
ReceiptStatus  == {"none", "draft", "confirmed"}
BillStatus     == {"none", "draft", "approved"}

Operations == {"issue", "cancel", "addItem", "updateItem",
               "createReceipt", "confirmReceipt", "createBill", "approveBill",
               "shortCloseLine", "shortCloseAll", "reopenLine"}

\* A request's program counter: the statement it executes next, or its end.
Working == {"casIssued", "casCancelled", "writeItem",
            "casConfirmed", "bookStock", "checkBill", "casApproved",
            "findLine", "sumLine", "listLines", "shortClose", "reopen",
            "listItems", "sumReceived", "sumBilled", "close",
            "commit"}

TargetsOf(op) ==
  CASE op \in {"createReceipt", "confirmReceipt"} -> Receipts
    [] op \in {"createBill", "approveBill"}       -> Bills
    [] op \in {"issue", "cancel", "shortCloseAll"} -> {Nobody}
    [] OTHER                                       -> Items

Line == [item : Items, qty : Nat \ {0}]

ASSUME DocumentsAssumption ==
  /\ Items \subseteq Nat /\ IsFiniteSet(Items)
  /\ Ordered \in [Items -> Nat]
  /\ InitialStatus \in {"draft", "issued"}
  /\ ReceiptLines \in [Receipts -> Seq(Line) \ {<<>>}]
  /\ BillLines \in [Bills -> Seq(Line)]
  /\ IsFiniteSet(Receipts) /\ IsFiniteSet(Bills)

ASSUME WorkloadAssumption ==
  /\ Op \in [Requests -> Operations]
  /\ \A q \in Requests : Target[q] \in TargetsOf(Op[q])
  /\ \A q, r \in Requests :        \* an insert is the insert of its own row
       /\ Op[q] \in {"addItem", "createReceipt", "createBill"}
       /\ Op[r] = Op[q]
       /\ Target[q] = Target[r]
       => q = r
  /\ \A q \in Requests : Op[q] = "addItem" => Ordered[Target[q]] = 0
  /\ Quantity \in [Requests -> Nat \ {0}]
  /\ PoolSize \in Nat \ {0}
  /\ OneAtATime \in BOOLEAN
  /\ Nobody \notin Requests

VARIABLES
  purchase,  \* purchases.status
  items,     \* purchase_items: quantity, short_closed_qty, line_status
  receipts,  \* purchase_receipts.status
  bills,     \* purchase_bills.status
  stock,     \* how often a receipt's lines were written as lots and movements
  tx         \* per request: where its handler is, and its local variables

tables == <<purchase, items, receipts, bills, stock>>
vars   == <<purchase, items, receipts, bills, stock, tx>>

LineStatuses == {"open", "partial", "short_closed", "fully_received"}
ItemRow == [quantity : Nat, shortClosed : Nat, lineStatus : LineStatuses]

\* The handler's variables: the item rows and the sums per item that it has
\* read, the lines still to short-close, and the status cancel has read.
TxState ==
  [pc : {"new", "ended"} \cup Working,
   ordered : [Items -> ItemRow],
   received : [Items -> Nat], billed : [Items -> Nat],
   todo : SUBSET Items, from : PurchaseStatus]

OrderedRow(qty) == [quantity |-> qty, shortClosed |-> 0, lineStatus |-> "open"]

\* A request without local variables: not begun, or ended.
TxAt(pc) == [pc |-> pc, ordered |-> [i \in Items |-> OrderedRow(0)],
             received |-> [i \in Items |-> 0], billed |-> [i \in Items |-> 0],
             todo |-> {}, from |-> "draft"]

Init ==
  /\ purchase = Fresh(InitialStatus)
  /\ items = [i \in Items |-> Fresh(OrderedRow(Ordered[i]))]
  /\ receipts = [r \in Receipts |-> Fresh("none")]
  /\ bills = [b \in Bills |-> Fresh("none")]
  /\ stock = [r \in Receipts |-> Fresh(0)]
  /\ tx = [q \in Requests |-> TxAt("new")]

-----------------------------------------------------------------------------
(* Transactions. *)

Open == {q \in Requests : tx[q].pc \in Working}

\* A request begins when the connection pool has a client for it.
CanBegin(q, op) ==
  /\ Op[q] = op
  /\ tx[q].pc = "new"
  /\ Cardinality(Open) < PoolSize
  /\ OneAtATime => Open = {}

At(q, pc) == tx[q].pc = pc

Goto(q, pc) == tx' = [tx EXCEPT ![q].pc = pc]

Finish(q) == tx' = [tx EXCEPT ![q] = TxAt("ended")]

\* The handler throws, or its client or connection is lost before COMMIT.
Rollback(q) ==
  /\ purchase' = RolledBack(q, purchase)
  /\ items' = RolledBackAll(q, items)
  /\ receipts' = RolledBackAll(q, receipts)
  /\ bills' = RolledBackAll(q, bills)
  /\ stock' = RolledBackAll(q, stock)
  /\ Finish(q)

Commit(q) ==
  /\ At(q, "commit")
  /\ purchase' = Committed(q, purchase)
  /\ items' = CommittedAll(q, items)
  /\ receipts' = CommittedAll(q, receipts)
  /\ bills' = CommittedAll(q, bills)
  /\ stock' = CommittedAll(q, stock)
  /\ Finish(q)

Crash(q) == q \in Open /\ Rollback(q)

-----------------------------------------------------------------------------
(* Quantities and the axes computed from them. *)

QtyOf(lines, i) ==
  MapThenSumSet(LAMBDA k : lines[k].qty,
                {k \in DOMAIN lines : lines[k].item = i})

ReceiptQty == [r \in Receipts |-> [i \in Items |-> QtyOf(ReceiptLines[r], i)]]
BillQty    == [b \in Bills |-> [i \in Items |-> QtyOf(BillLines[b], i)]]

\* sumConfirmedReceivedQuantitiesByItem: only confirmed receipts count.
SumReceived(status) ==
  LET counted == {r \in Receipts : status[r] = "confirmed"} IN
  [i \in Items |-> MapThenSumSet(LAMBDA r : ReceiptQty[r][i], counted)]

\* sumBilledQuantitiesByItem: drafts count as much as approved bills.
SumApproved(status) ==                                             \* mutant
  LET counted == {b \in Bills : status[b] = "approved"} IN
  [i \in Items |-> MapThenSumSet(LAMBDA b : BillQty[b][i], counted)]
SumBilled(status) ==
  LET counted == {b \in Bills : status[b] # "none"} IN
  [i \in Items |-> MapThenSumSet(LAMBDA b : BillQty[b][i], counted)]

SeenAll(q, table) == [k \in DOMAIN table |-> Seen(q, table[k])]

\* The items of the order; the others have not been added yet.
Listed(ordered) == {i \in Items : ordered[i].quantity > 0}

ReceivedStatus(ordered, received) ==
  LET listed == Listed(ordered)
      full(i) == received[i] >= ordered[i].quantity
      written == {i \in listed : ordered[i].shortClosed > 0}
  IN
  CASE listed = {} -> "not_received"
    [] listed # {} /\ \A i \in listed : full(i) -> "fully_received"
    [] /\ written # {}
       /\ \A i \in listed \ written : full(i)
       /\ ~ \A i \in listed : full(i)
         -> "short_closed"
    [] OTHER -> IF \E i \in listed : received[i] > 0
                THEN "partial" ELSE "not_received"

\* What may be billed: what was received, once anything was, or the ordered
\* quantity while nothing was; never what was short-closed.
BillableCeiling(row, received) ==
  LET orderedLessShortClosed == row.quantity - row.shortClosed IN
  IF received > 0 \/ row.shortClosed > 0
  THEN Min({orderedLessShortClosed, received})
  ELSE row.quantity

BilledStatus(ordered, billed, received) ==
  LET listed == Listed(ordered) IN
  IF \A i \in listed : billed[i] = 0 THEN "not_billed"
  ELSE IF \A i \in listed :
            billed[i] >= BillableCeiling(ordered[i], received[i])
       THEN "fully_billed"
       ELSE "partial"

LineStatus(quantity, received, shortClosed) ==
  CASE received >= quantity -> "fully_received"
    [] received < quantity /\ shortClosed > 0 -> "short_closed"
    [] OTHER -> IF received > 0 THEN "partial" ELSE "open"

\* Both axes are done: maybeAutoClosePurchase goes on to close the order.
ReceivedOrBilled(ordered, received, billed) ==                     \* mutant
  \/ ReceivedStatus(ordered, received) = "fully_received"
  \/ BilledStatus(ordered, billed, received) = "fully_billed"
FullyReceived(ordered, received, billed) ==                        \* mutant
  /\ ReceivedStatus(ordered, received) = "fully_received"
  /\ BilledStatus(ordered, billed, received) = "fully_billed"
Finished(ordered, received, billed) ==
  /\ ReceivedStatus(ordered, received) \in {"fully_received", "short_closed"}
  /\ BilledStatus(ordered, billed, received) = "fully_billed"

HasConfirmedReceipt(q) == \E r \in Receipts : Seen(q, receipts[r]) = "confirmed"  \* mutant
HasAnyReceipt(q) == \E r \in Receipts : Seen(q, receipts[r]) # "none"
HasAnyBill(q)    == \E b \in Bills : Seen(q, bills[b]) # "none"

-----------------------------------------------------------------------------
(* purchase.service.ts issue and cancel. *)

Issue(q) ==
  /\ CanBegin(q, "issue")
  /\ \/ /\ Listed(SeenAll(q, items)) # {}
        /\ Goto(q, "casIssued")
        /\ UNCHANGED tables
     \/ Listed(SeenAll(q, items)) = {} /\ Rollback(q)

TransitionToIssued(q) ==
  /\ At(q, "casIssued")
  /\ \/ /\ Seen(q, purchase) = "draft"
        /\ Lockable(q, purchase)
        /\ purchase' = Put(q, purchase, "issued")
        /\ Goto(q, "commit")
        /\ UNCHANGED <<items, receipts, bills, stock>>
     \/ Seen(q, purchase) # "draft" /\ Rollback(q)

Cancel(q) ==
  LET status == Seen(q, purchase)
      cancellable == /\ status \in {"draft", "issued"}
                     /\ ~HasAnyReceipt(q)
                     /\ ~HasAnyBill(q)
  IN
  /\ CanBegin(q, "cancel")
  /\ \/ /\ cancellable
        /\ tx' = [tx EXCEPT ![q].pc = "casCancelled", ![q].from = status]
        /\ UNCHANGED tables
     \/ ~cancellable /\ Rollback(q)

\* The WHERE clause of the compare-and-set: the status that was read.
AnyStatus(q) == TRUE                                               \* mutant
StatusAsRead(q) == Seen(q, purchase) = tx[q].from

TransitionToCancelled(q) ==
  /\ At(q, "casCancelled")
  /\ \/ /\ StatusAsRead(q)
        /\ Lockable(q, purchase)
        /\ purchase' = Put(q, purchase, "cancelled")
        /\ Goto(q, "commit")
        /\ UNCHANGED <<items, receipts, bills, stock>>
     \/ ~StatusAsRead(q) /\ Rollback(q)

-----------------------------------------------------------------------------
(* purchase-items.service.ts addItem and updatePurchaseItem. *)

EditItem(q) ==
  LET editable == /\ Seen(q, purchase) \notin {"closed", "cancelled"}
                  /\ ~HasAnyReceipt(q)
      found == Target[q] \in Listed(SeenAll(q, items))
      allowed == editable /\ (Op[q] = "updateItem" => found)
  IN
  /\ CanBegin(q, "addItem") \/ CanBegin(q, "updateItem")
  /\ \/ allowed /\ Goto(q, "writeItem") /\ UNCHANGED tables
     \/ ~allowed /\ Rollback(q)

WriteItem(q) ==
  LET i == Target[q]
      row == IF Op[q] = "addItem"
             THEN OrderedRow(Quantity[q])
             ELSE [items[i].cur EXCEPT !.quantity = Quantity[q]]
  IN
  /\ At(q, "writeItem")
  /\ Lockable(q, items[i])
  /\ items' = [items EXCEPT ![i] = Put(q, @, row)]
  /\ Goto(q, "commit")
  /\ UNCHANGED <<purchase, receipts, bills, stock>>

-----------------------------------------------------------------------------
(* purchase-receipts.service.ts create and confirm.                        *)

\* Each line by itself fits what was ordered, less what was short-closed and
\* what confirmed receipts brought.
FitsOrder(lines, ordered, received) ==
  \A k \in DOMAIN lines :
    LET i == lines[k].item IN
    /\ i \in Listed(ordered)
    /\ received[i] + lines[k].qty
         <= ordered[i].quantity - ordered[i].shortClosed

\* The insert waits for nobody and is seen by nobody before COMMIT, so that
\* the check and the insert are one action.
Receivable(q) == Seen(q, purchase) # "draft"

CreateReceipt(q) ==
  LET r == Target[q]
      allowed ==
        /\ Receivable(q)
        /\ FitsOrder(ReceiptLines[r], SeenAll(q, items),
                     SumReceived(SeenAll(q, receipts)))
  IN
  /\ CanBegin(q, "createReceipt")
  /\ \/ /\ allowed
        /\ receipts' = [receipts EXCEPT ![r] = Put(q, @, "draft")]
        /\ Goto(q, "commit")
        /\ UNCHANGED <<purchase, items, bills, stock>>
     \/ ~allowed /\ Rollback(q)

ConfirmReceipt(q) ==
  /\ CanBegin(q, "confirmReceipt")
  /\ \/ /\ Seen(q, receipts[Target[q]]) # "none"
        /\ Goto(q, "casConfirmed")
        /\ UNCHANGED tables
     \/ Seen(q, receipts[Target[q]]) = "none" /\ Rollback(q)

\* The WHERE clause of the compare-and-set.
ReceiptExists(q, r) == Seen(q, receipts[r]) # "none"               \* mutant
ReceiptIsDraft(q, r) == Seen(q, receipts[r]) = "draft"

TransitionToConfirmed(q) ==
  LET r == Target[q] IN
  /\ At(q, "casConfirmed")
  /\ \/ /\ ReceiptIsDraft(q, r)
        /\ Lockable(q, receipts[r])
        /\ receipts' = [receipts EXCEPT ![r] = Put(q, @, "confirmed")]
        /\ Goto(q, "bookStock")
        /\ UNCHANGED <<purchase, items, bills, stock>>
     \/ ~ReceiptIsDraft(q, r) /\ Rollback(q)

\* The subscriber of receipt.confirmed writes a movement and a lot per line.
\* The items read for it are used again to decide whether the order closes.
BookStock(q) ==
  /\ At(q, "bookStock")
  /\ stock' = [stock EXCEPT ![Target[q]] = Put(q, @, @.cur + 1)]
  /\ tx' = [tx EXCEPT ![q].pc = "sumReceived", ![q].ordered = SeenAll(q, items)]
  /\ UNCHANGED <<purchase, items, receipts, bills>>

-----------------------------------------------------------------------------
(* purchase-bills.service.ts create and approve.                           *)

CreateBill(q) ==
  LET ordered == SeenAll(q, items)
      lines == BillLines[Target[q]]
      known == \A k \in DOMAIN lines : lines[k].item \in Listed(ordered)
  IN
  /\ CanBegin(q, "createBill")
  /\ \/ /\ known
        /\ tx' = [tx EXCEPT ![q].pc = "checkBill", ![q].ordered = ordered,
                            ![q].billed = SumBilled(SeenAll(q, bills))]
        /\ UNCHANGED tables
     \/ ~known /\ Rollback(q)

\* Each line by itself fits the billable ceiling; then the bill is inserted.
CheckBill(q) ==
  LET b == Target[q]
      lines == BillLines[b]
      received == SumReceived(SeenAll(q, receipts))
      fits == \A k \in DOMAIN lines :
                LET i == lines[k].item IN
                tx[q].billed[i] + lines[k].qty
                  <= BillableCeiling(tx[q].ordered[i], received[i])
  IN
  /\ At(q, "checkBill")
  /\ \/ /\ fits
        /\ bills' = [bills EXCEPT ![b] = Put(q, @, "draft")]
        /\ Goto(q, "commit")
        /\ UNCHANGED <<purchase, items, receipts, stock>>
     \/ ~fits /\ Rollback(q)

ApproveBill(q) ==
  LET allowed == /\ Seen(q, bills[Target[q]]) # "none"
                 /\ Seen(q, purchase) # "draft"
  IN
  /\ CanBegin(q, "approveBill")
  /\ \/ allowed /\ Goto(q, "casApproved") /\ UNCHANGED tables
     \/ ~allowed /\ Rollback(q)

TransitionToApproved(q) ==
  LET b == Target[q] IN
  /\ At(q, "casApproved")
  /\ \/ /\ Seen(q, bills[b]) = "draft"
        /\ Lockable(q, bills[b])
        /\ bills' = [bills EXCEPT ![b] = Put(q, @, "approved")]
        /\ Goto(q, "listItems")
        /\ UNCHANGED <<purchase, items, receipts, stock>>
     \/ Seen(q, bills[b]) # "draft" /\ Rollback(q)

-----------------------------------------------------------------------------
(* purchase-line-shortclose.service.ts. *)

\* shortCloseLine reads the line and then what was received of it.
ShortCloseLine(q) ==
  LET ordered == SeenAll(q, items)
      found == Target[q] \in Listed(ordered)
  IN
  /\ CanBegin(q, "shortCloseLine")
  /\ \/ /\ found
        /\ tx' = [tx EXCEPT ![q].pc = "sumLine", ![q].ordered = ordered,
                            ![q].todo = {Target[q]}]
        /\ UNCHANGED tables
     \/ ~found /\ Rollback(q)

\* shortCloseAllRemaining reads what was received and then the lines.
ShortCloseAll(q) ==
  /\ CanBegin(q, "shortCloseAll")
  /\ tx' = [tx EXCEPT ![q].pc = "listLines",
                      ![q].received = SumReceived(SeenAll(q, receipts))]
  /\ UNCHANGED tables

ListLines(q) ==
  LET ordered == SeenAll(q, items)
      partial == {i \in Listed(ordered) :
                    LineStatus(ordered[i].quantity, tx[q].received[i],
                               ordered[i].shortClosed) = "partial"}
  IN
  /\ At(q, "listLines")
  /\ tx' = [tx EXCEPT
              ![q].pc = IF partial = {} THEN "commit" ELSE "shortClose",
              ![q].ordered = ordered, ![q].todo = partial]
  /\ UNCHANGED tables

\* Only an order that is neither closed nor cancelled has a line reopened.
ReopenLine(q) ==
  LET editable == Seen(q, purchase) \notin {"closed", "cancelled"} IN
  /\ CanBegin(q, "reopenLine")
  /\ \/ editable /\ Goto(q, "findLine") /\ UNCHANGED tables
     \/ ~editable /\ Rollback(q)

FindLine(q) ==
  LET ordered == SeenAll(q, items)
      found == ordered[Target[q]].lineStatus = "short_closed"
  IN
  /\ At(q, "findLine")
  /\ \/ /\ found
        /\ tx' = [tx EXCEPT ![q].pc = "sumLine", ![q].ordered = ordered]
        /\ UNCHANGED tables
     \/ ~found /\ Rollback(q)

SumLine(q) ==
  /\ At(q, "sumLine")
  /\ tx' = [tx EXCEPT
              ![q].pc = IF Op[q] = "reopenLine" THEN "reopen" ELSE "shortClose",
              ![q].received = SumReceived(SeenAll(q, receipts))]
  /\ UNCHANGED tables

\* requireReceiptExistsForShortClose, requireNotFullyReceivedForShortClose.
SomethingReceived(qty, received) == received > 0                   \* mutant
PartlyReceived(qty, received) == received > 0 /\ received < qty

\* What is still to come of a line is written off.
ReceivedQuantity(qty, received) == received                        \* mutant
WrittenOff(qty, received) == qty - received

\* writeShortClose, for the lines in the order they are listed; what it writes
\* comes from the earlier reads.
WriteShortClose(q) ==
  LET i == Min(tx[q].todo)
      qty == tx[q].ordered[i].quantity
      received == tx[q].received[i]
      rest == tx[q].todo \ {i}
      row == [items[i].cur EXCEPT !.shortClosed = WrittenOff(qty, received),
                                  !.lineStatus = "short_closed"]
  IN
  /\ At(q, "shortClose")
  /\ \/ /\ PartlyReceived(qty, received)
        /\ Lockable(q, items[i])
        /\ items' = [items EXCEPT ![i] = Put(q, @, row)]
        /\ tx' = [tx EXCEPT
                    ![q].pc = IF rest = {} THEN "listItems" ELSE "shortClose",
                    ![q].todo = rest]
        /\ UNCHANGED <<purchase, receipts, bills, stock>>
     \/ ~PartlyReceived(qty, received) /\ Rollback(q)

StillShortClosed(qty, received) == "short_closed"                  \* mutant
Reopened(qty, received) == LineStatus(qty, received, 0)

WriteReopened(q) ==
  LET i == Target[q]
      status == Reopened(tx[q].ordered[i].quantity, tx[q].received[i])
      row == [items[i].cur EXCEPT !.shortClosed = 0, !.lineStatus = status]
  IN
  /\ At(q, "reopen")
  /\ Lockable(q, items[i])
  /\ items' = [items EXCEPT ![i] = Put(q, @, row)]
  /\ Goto(q, "commit")
  /\ UNCHANGED <<purchase, receipts, bills, stock>>

-----------------------------------------------------------------------------
(* The automatic close, at the end of confirmReceipt, approveBill and both *)
(* short-closes: list the items, sum receipts, sum bills, compute the      *)
(* axes, and compare-and-set the status.                                   *)

ListItems(q) ==
  /\ At(q, "listItems")
  /\ tx' = [tx EXCEPT ![q].pc = "sumReceived", ![q].ordered = SeenAll(q, items)]
  /\ UNCHANGED tables

SumReceipts(q) ==
  /\ At(q, "sumReceived")
  /\ tx' = [tx EXCEPT ![q].pc = "sumBilled",
                      ![q].received = SumReceived(SeenAll(q, receipts))]
  /\ UNCHANGED tables

SumBills(q) ==
  LET finished == Finished(tx[q].ordered, tx[q].received,
                           SumBilled(SeenAll(q, bills)))
  IN
  /\ At(q, "sumBilled")
  /\ Goto(q, IF finished THEN "close" ELSE "commit")
  /\ UNCHANGED tables

\* An order that is not issued, or no longer, is left alone.
MaybeAutoClose(q) ==
  /\ At(q, "close")
  /\ \/ /\ Seen(q, purchase) = "issued"
        /\ Lockable(q, purchase)
        /\ purchase' = Put(q, purchase, "closed")
     \/ Seen(q, purchase) # "issued" /\ UNCHANGED purchase
  /\ Goto(q, "commit")
  /\ UNCHANGED <<items, receipts, bills, stock>>

-----------------------------------------------------------------------------
OrderStep(q)      == \/ Issue(q) \/ TransitionToIssued(q)
                     \/ Cancel(q) \/ TransitionToCancelled(q)
                     \/ EditItem(q) \/ WriteItem(q)
ReceiptStep(q)    == \/ CreateReceipt(q) \/ ConfirmReceipt(q)
                     \/ TransitionToConfirmed(q) \/ BookStock(q)
BillStep(q)       == \/ CreateBill(q) \/ CheckBill(q)
                     \/ ApproveBill(q) \/ TransitionToApproved(q)
ShortCloseStep(q) == \/ ShortCloseLine(q) \/ ShortCloseAll(q) \/ ListLines(q)
                     \/ ReopenLine(q) \/ FindLine(q) \/ SumLine(q)
                     \/ WriteShortClose(q) \/ WriteReopened(q)
CloseStep(q)      == \/ ListItems(q) \/ SumReceipts(q) \/ SumBills(q)
                     \/ MaybeAutoClose(q)

\* What the server does for a request by itself.
Step(q) == \/ OrderStep(q) \/ ReceiptStep(q) \/ BillStep(q)
           \/ ShortCloseStep(q) \/ CloseStep(q) \/ Commit(q)

Done == /\ \A q \in Requests : tx[q].pc = "ended"
        /\ UNCHANGED vars

Next == (\E q \in Requests : Step(q) \/ Crash(q)) \/ Done

Spec == Init /\ [][Next]_vars
=============================================================================
