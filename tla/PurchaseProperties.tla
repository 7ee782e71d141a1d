-------------------------- MODULE PurchaseProperties --------------------------
(***************************************************************************)
(* What a purchase order guarantees, in terms of the committed database.   *)
(* The first group holds however the requests interleave; the second when  *)
(* one request at a time works on the order (OneAtATime), because every    *)
(* ceiling, every guard on other documents and the automatic close are     *)
(* computed from rows that no handler locks.                               *)
(***************************************************************************)
EXTENDS PurchaseReceiving

(* Committed tables. *)
Status       == purchase.com
Row(i)       == items[i].com
Receipt(r)   == receipts[r].com
Bill(b)      == bills[b].com
ReceivedQty  == SumReceived([r \in Receipts |-> Receipt(r)])
BilledQty    == [i \in Items |->
                   MapThenSumSet(LAMBDA b : BillQty[b][i],
                                 {b \in Bills : Bill(b) # "none"})]
HasReceipt   == \E r \in Receipts : Receipt(r) # "none"

\* Of every item, what was not written off is received, and that is billed.
OrderIsDone ==
  LET listed == Listed([i \in Items |-> Row(i)]) IN
  /\ listed # {}
  /\ \A i \in listed :
       LET expected == Row(i).quantity - Row(i).shortClosed IN
       /\ ReceivedQty[i] >= expected
       /\ BilledQty[i] >= Min({expected, ReceivedQty[i]})

\* Every table and every handler variable has the type the schema and the
\* code give it; in particular no written-off quantity is ever negative.
TypeOK ==
  /\ purchase \in Versioned(PurchaseStatus, Requests)
  /\ items \in [Items -> Versioned(ItemRow, Requests)]
  /\ receipts \in [Receipts -> Versioned(ReceiptStatus, Requests)]
  /\ bills \in [Bills -> Versioned(BillStatus, Requests)]
  /\ stock \in [Receipts -> Versioned(Nat, Requests)]
  /\ tx \in [Requests -> TxState]

-----------------------------------------------------------------------------
(* Whatever the interleaving. *)

\* Only the confirmation of a receipt moves stock, and it does so once: two
\* confirmations of one receipt, or one that fails, never book it twice or
\* leave it confirmed without its lots.
StockFollowsReceipt ==
  \A r \in Receipts :
    stock[r].com = IF Receipt(r) = "confirmed" THEN 1 ELSE 0

\* An order that is closed or cancelled stays so, whatever was about to change
\* its status when it got there.
TerminalStays ==
  [][(Status \in {"closed", "cancelled"}) => Status' = Status]_vars

-----------------------------------------------------------------------------
(* When one request at a time works on the order. *)

\* A closed order has nothing left to receive or to bill, and it stays that
\* way although receipts that were still drafts can be confirmed after it: a
\* line whose rest was written off has nothing to bill when the rest arrives.
\* It does not stay so when such a line is then short-closed once more.
ClosedIsDone == Status = "closed" => OrderIsDone

\* An issued order with nothing left to receive or to bill is closed with the
\* commit that finished it: only a bill that waits for its approval, which
\* makes the same test, keeps it open.
FinishedOrderIsClosed ==
  Status = "issued" /\ OrderIsDone => \E b \in Bills : Bill(b) = "draft"

\* What is billed of an item only grows within the ceiling: the received
\* quantity, or the ordered one before the first receipt, and in no case what
\* was written off.
BillingWithinCeiling ==
  [][\A i \in Items : BilledQty'[i] > BilledQty[i] =>
        BilledQty'[i] <= BillableCeiling(Row(i)', ReceivedQty'[i])]_vars

\* Once anything was received for the order, no item is added and no ordered
\* quantity changes: the ceiling that a receipt was tested against stands.
ReceivedItemsAreFrozen ==
  [][HasReceipt => \A i \in Items : Row(i)'.quantity = Row(i).quantity]_vars

\* The status of a line that getById answers with: it computes it again, and
\* does not show the one that is stored.
ShownStatus(i) == LineStatus(Row(i).quantity, ReceivedQty[i], Row(i).shortClosed)

\* The screen offers to reopen a line that is shown as short-closed, reopenLine
\* goes by the status that is stored, and the ceilings by the quantity: what
\* is offered is accepted, and what is accepted has a quantity written off.
\* The stored status says nothing of a line that is shown as fully received:
\* no receipt refreshes it.
ShortClosedLineCanBeReopened ==
  \A i \in Items :
    /\ ShownStatus(i) = "short_closed" => Row(i).lineStatus = "short_closed"
    /\ Row(i).lineStatus = "short_closed" => Row(i).shortClosed > 0

\* A short-closed line expects nothing more: received and written-off
\* quantities cover the ordered one until the line is reopened.
ShortCloseCoversTheRest ==
  \A i \in Items :
    Row(i).shortClosed > 0 =>
      ReceivedQty[i] + Row(i).shortClosed >= Row(i).quantity

\* What some of these ask of an order besides: bills have one line of an item,
\* which is tested against the ceiling by itself, and whole orders, never
\* single lines, are short-closed.
OneLinePerItem ==
  \A b \in Bills : \A k, l \in DOMAIN BillLines[b] :
    BillLines[b][k].item = BillLines[b][l].item => k = l

NoLineIsShortClosed == \A q \in Requests : Op[q] # "shortCloseLine"

-----------------------------------------------------------------------------
(* What the documents say of the program and the code does not guarantee;  *)
(* nor does FinishedOrderIsClosed hold when requests interleave.           *)

\* Of no item is more received than was ordered.
NeverOverReceived ==
  \A i \in Items : ReceivedQty[i] <= Row(i).quantity
=============================================================================
