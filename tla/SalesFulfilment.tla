--------------------------- MODULE SalesFulfilment ---------------------------
(***************************************************************************)
(* Lot reservation and fulfilment of sales orders (apps/api: modules/sales *)
(* and core/inventory-lots).  A sale's items pick quantities of stock lots *)
(* while it is a draft; approving the sale reserves every pick on its lot, *)
(* cancelling releases the reservations, and confirming a delivery         *)
(* consumes them and writes the outbound stock movements.                  *)
(*                                                                         *)
(* A request is one HTTP call and one READ COMMITTED transaction.  Its     *)
(* actions are its SQL statements: consecutive statements are one action   *)
(* when nothing another transaction does between them changes the outcome. *)
(* Row versions and row locks are those of RowStore.                       *)
(***************************************************************************)
EXTENDS Integers, FiniteSets, FiniteSetsExt

CONSTANTS
  Lots, Received,             \* stock_lots, and received_qty of each
  Sales, Items, ItemSale,     \* sales orders, their items
  Picks, PickItem, PickLot, PickQty,  \* sales_item_lots rows: item, lot, qty
  InitialItems, InitialPicks, \* those that exist at the start
  Deliveries, DelivSale, DelivQty,    \* delivery documents and their lines
  Requests, Op, Target,       \* the HTTP calls: operation and document
  PoolSize,                   \* open transactions at a time
  OneWriterPerSale,           \* nobody works on a sale somebody else works on
  Nobody

INSTANCE RowStore

SaleStatus  == {"draft", "approved", "cancelled"}
DelivStatus == {"none", "draft", "confirmed"}

Operations == {"approve", "cancel", "addItem", "addLot", "removeLot",
               "create", "confirm"}

\* A request's program counter: the statement it executes next, or its end.
Working == {"casApproved", "reserve", "link",
            "findReservation", "release", "casCancelled",
            "softDelete",
            "casConfirmed", "nextLine", "nextReservation", "consume",
            "commit"}
Ended == {"ended", "checkFailed"}   \* checkFailed: by a CHECK constraint

\* The document an operation names.
TargetsOf(op) ==
  CASE op \in {"approve", "cancel"}     -> Sales
    [] op = "addItem"                   -> Items
    [] op \in {"addLot", "removeLot"}   -> Picks
    [] op \in {"create", "confirm"}     -> Deliveries

ASSUME QuantitiesAssumption ==
  /\ Received \in [Lots -> Nat]
  /\ PickQty \in [Picks -> Nat \ {0}]
  /\ DelivQty \in [Deliveries -> [Items -> Nat]]

ASSUME DocumentsAssumption ==
  /\ IsFiniteSet(Picks) /\ IsFiniteSet(Deliveries)
  /\ ItemSale \in [Items -> Sales]
  /\ PickItem \in [Picks -> Items]
  /\ PickLot \in [Picks -> Lots]
  /\ InitialItems \subseteq Items
  /\ InitialPicks \subseteq {p \in Picks : PickItem[p] \in InitialItems}
  /\ DelivSale \in [Deliveries -> Sales]

ASSUME WorkloadAssumption ==
  /\ Op \in [Requests -> Operations]
  /\ \A q \in Requests : Target[q] \in TargetsOf(Op[q])
  /\ \A q, r \in Requests :        \* an insert is the insert of its own row
       /\ Op[q] \in {"addItem", "addLot", "create"}
       /\ Op[r] = Op[q]
       /\ Target[q] = Target[r]
       => q = r
  /\ \A q \in Requests :
       /\ Op[q] = "addItem" => Target[q] \notin InitialItems
       /\ Op[q] = "addLot" => Target[q] \notin InitialPicks
  /\ PoolSize \in Nat \ {0}
  /\ OneWriterPerSale \in BOOLEAN
  /\ Nobody \notin Requests
  /\ Nobody \notin Picks

VARIABLES
  lots,          \* stock_lots: the counters reserved_qty and delivered_qty
  reservations,  \* stock_lot_reservations: at most one per pick
  picks,         \* sales_item_lots: deleted_at is null, reservation_id is set
  sales,         \* sales.status
  deliveries,    \* deliveries.status
  movements,     \* stock_movements: sale_delivery rows, quantity out
  items,         \* sales_items: the rows that are committed
  tx             \* per request: where its handler is, and its local variables

tables == <<lots, reservations, picks, sales, deliveries, movements>>
vars   == <<lots, reservations, picks, sales, deliveries, movements, items, tx>>

LotRow         == [reserved : Int, delivered : Nat]
ReservationRow == [made : BOOLEAN, consumed : Nat, fully : BOOLEAN,
                   released : BOOLEAN]
PickRow        == [live : BOOLEAN, linked : BOOLEAN]

\* The handler's variables: picks or reservations still to handle and the one
\* at hand, the items an approval read or the delivery lines still to handle,
\* the unaccounted quantity of the line at hand, the quantity being consumed,
\* and what earlier reads returned.
TxState ==
  [pc : {"new"} \cup Working \cup Ended,
   todo : SUBSET Picks, at : Picks \cup {Nobody},
   items : SUBSET Items, left : Nat, qty : Nat,
   read : Nat, listed : [Picks -> Nat], from : SaleStatus]

\* A request without local variables: not begun, or ended.
TxAt(pc) == [pc |-> pc, todo |-> {}, at |-> Nobody,
             items |-> {}, left |-> 0, qty |-> 0,
             read |-> 0, listed |-> [p \in Picks |-> 0], from |-> "draft"]

\* A reservation of which nothing is consumed: absent, or just inserted.
ReservationMade(made) == [made |-> made, consumed |-> 0, fully |-> FALSE,
                          released |-> FALSE]

Init ==
  /\ lots = [l \in Lots |-> Fresh([reserved |-> 0, delivered |-> 0])]
  /\ reservations = [p \in Picks |-> Fresh(ReservationMade(FALSE))]
  /\ picks = [p \in Picks |-> Fresh([live |-> p \in InitialPicks,
                                     linked |-> FALSE])]
  /\ sales = [s \in Sales |-> Fresh("draft")]
  /\ deliveries = [d \in Deliveries |-> Fresh("none")]
  /\ movements = [dp \in Deliveries \X Picks |-> Fresh(0)]
  /\ items = InitialItems
  /\ tx = [q \in Requests |-> TxAt("new")]

-----------------------------------------------------------------------------
(* Transactions. *)

SaleOf(q) ==
  CASE Op[q] \in {"approve", "cancel"}   -> Target[q]
    [] Op[q] = "addItem"                 -> ItemSale[Target[q]]
    [] Op[q] \in {"addLot", "removeLot"} -> ItemSale[PickItem[Target[q]]]
    [] Op[q] \in {"create", "confirm"}   -> DelivSale[Target[q]]

OpenNeverReleased == {q \in Requests : tx[q].pc # "new"}          \* mutant
Open == {q \in Requests : tx[q].pc \in Working}

\* A request begins when the connection pool has a client for it.
CanBegin(q, op) ==
  /\ Op[q] = op
  /\ tx[q].pc = "new"
  /\ Cardinality(Open) < PoolSize
  /\ OneWriterPerSale => \A r \in Open : SaleOf(r) # SaleOf(q)

At(q, pc) == tx[q].pc = pc

Goto(q, pc) == tx' = [tx EXCEPT ![q].pc = pc]

Finish(q, how) == tx' = [tx EXCEPT ![q] = TxAt(how)]

Rollback(q, how) ==
  /\ lots' = RolledBackAll(q, lots)
  /\ reservations' = RolledBackAll(q, reservations)
  /\ picks' = RolledBackAll(q, picks)
  /\ sales' = RolledBackAll(q, sales)
  /\ deliveries' = RolledBackAll(q, deliveries)
  /\ movements' = RolledBackAll(q, movements)
  /\ Finish(q, how)

\* The handler throws: a guard, or a compare-and-set that matched no row.
Reject(q) == Rollback(q, "ended")

\* Rows of sales_items are inserted and never deleted; nobody sees an insert
\* before it commits.
ItemsCommitted(q) ==
  IF Op[q] = "addItem" THEN items \cup {Target[q]} ELSE items

Commit(q) ==
  /\ At(q, "commit")
  /\ lots' = CommittedAll(q, lots)
  /\ reservations' = CommittedAll(q, reservations)
  /\ picks' = CommittedAll(q, picks)
  /\ sales' = CommittedAll(q, sales)
  /\ deliveries' = CommittedAll(q, deliveries)
  /\ movements' = CommittedAll(q, movements)
  /\ items' = ItemsCommitted(q)
  /\ Finish(q, "ended")

\* The client or its connection is lost before COMMIT.
Crash(q) == q \in Open /\ Rollback(q, "ended") /\ UNCHANGED items

-----------------------------------------------------------------------------
(* Reads. *)

\* listItemsWithPricingForSales: the items the sale has at the moment.
ItemsOf(s) == {i \in Items : i \in items /\ ItemSale[i] = s}

\* listLotsForSales: the picks of the sale that are not deleted.
LotPicks(q, s) ==
  {p \in Picks : ItemSale[PickItem[p]] = s /\ Seen(q, picks[p]).live}

\* The unreleased reservations behind an item's live picks.
ActiveReservations(q, i) ==
  {p \in Picks : /\ PickItem[p] = i
                 /\ Seen(q, picks[p]).live
                 /\ Seen(q, picks[p]).linked
                 /\ ~Seen(q, reservations[p]).released}

\* sumReservedAndConsumedBySalesItem: reserved minus consumed.
Undelivered(q, i) ==
  MapThenSumSet(LAMBDA p : PickQty[p] - Seen(q, reservations[p]).consumed,
                ActiveReservations(q, i))

Editable(q, s) == Seen(q, sales[s]) \in {"draft", "approved"}

HasConfirmedDelivery(q, s) ==                                    \* mutant
  \E d \in Deliveries :
    DelivSale[d] = s /\ Seen(q, deliveries[d]) = "confirmed"
HasDelivery(q, s) ==
  \E d \in Deliveries : DelivSale[d] = s /\ Seen(q, deliveries[d]) # "none"

\* A lot's free capacity, and its counters after reserve, release, consume.
UndeliveredInLot(l, lot) == Received[l] - lot.delivered          \* mutant
Available(l, lot) == Received[l] - lot.reserved - lot.delivered
AfterReserve(lot, qty) == [lot EXCEPT !.reserved = @ + qty]
AfterRelease(lot, qty) == [lot EXCEPT !.reserved = @ - qty]
AfterConsumeKeepingReserve(lot, qty) ==                          \* mutant
  [lot EXCEPT !.delivered = @ + qty]
AfterConsume(lot, qty) ==
  [lot EXCEPT !.reserved = @ - qty, !.delivered = @ + qty]

\* addLot's live, unlocked reading of what the item can still pick.
Pickable(q, p) ==
  LET already == {r \in Picks : /\ PickItem[r] = PickItem[p]
                                /\ PickLot[r] = PickLot[p]
                                /\ Seen(q, picks[r]).live}
  IN  Available(PickLot[p], Seen(q, lots[PickLot[p]]))
        - MapThenSumSet(LAMBDA r : PickQty[r], already)

\* The CHECK constraints of stock_lots and stock_lot_reservations.
LotCheck(l, lot) == lot.reserved + lot.delivered <= Received[l]
ReservationCheck(p, reservation) == reservation.consumed <= PickQty[p]

-----------------------------------------------------------------------------
(* sales.service.ts approve: read and guard, compare-and-set the status,   *)
(* then lock the lot of each pick in turn, reserve, and link the pick.     *)

\* The guard requireAtLeastOneValidLine with validateSalesItemForApproval: of
\* the items as they are now.  One that is added later is not looked at again.
HasItems(s, found) == ItemsOf(s) # {}                            \* mutant
EveryItemPicked(s, found) ==
  /\ ItemsOf(s) # {}
  /\ \A i \in ItemsOf(s) : \E p \in found : PickItem[p] = i

\* The items and their picks are two reads.  What is added or removed between
\* them leaves what it leaves before, or after, both of them.
Approve(q) ==
  /\ CanBegin(q, "approve")
  /\ LET s == Target[q]
         found == LotPicks(q, s)
         valid == EveryItemPicked(s, found)
     IN  \/ /\ valid
            /\ tx' = [tx EXCEPT ![q].pc = "casApproved", ![q].todo = found,
                                ![q].items = ItemsOf(s)]
            /\ UNCHANGED tables
         \/ ~valid /\ Reject(q)

\* The reservation loop: the picks come from the database in any order.
NextPick(q, rest) ==
  \/ rest = {} /\ tx' = [tx EXCEPT ![q].pc = "commit", ![q].todo = {}]
  \/ \E p \in rest : tx' = [tx EXCEPT ![q].pc = "reserve",
                                      ![q].at = p, ![q].todo = rest]

TransitionToApproved(q) ==
  LET s == Target[q] IN
  /\ At(q, "casApproved")
  /\ \/ /\ Seen(q, sales[s]) = "draft"
        /\ Lockable(q, sales[s])
        /\ sales' = [sales EXCEPT ![s] = Put(q, @, "approved")]
        /\ NextPick(q, tx[q].todo)
        /\ UNCHANGED <<lots, reservations, picks, deliveries, movements>>
     \/ Seen(q, sales[s]) # "draft" /\ Reject(q)

\* reserveFromLot: lock the lot, then check the capacity of the locked row.
ReserveFromLot(q) ==
  LET p == tx[q].at
      l == PickLot[p]
      lot == lots[l].cur
      available == Available(l, lot)
      reserved == AfterReserve(lot, PickQty[p])
  IN
  /\ At(q, "reserve")
  /\ Lockable(q, lots[l])
  /\ \/ /\ available >= PickQty[p]
        /\ LotCheck(l, reserved)
        /\ lots' = [lots EXCEPT ![l] = Put(q, @, reserved)]
        /\ reservations' =
             [reservations EXCEPT ![p] = Put(q, @, ReservationMade(TRUE))]
        /\ Goto(q, "link")
        /\ UNCHANGED <<picks, sales, deliveries, movements>>
     \/ available < PickQty[p] /\ Reject(q)
     \/ /\ available >= PickQty[p]
        /\ ~LotCheck(l, reserved)
        /\ Rollback(q, "checkFailed")

\* updateSalesItemLot: matches no row, silently, when the pick is deleted.
LinkReservation(q) ==
  LET p == tx[q].at IN
  /\ At(q, "link")
  /\ \/ /\ Seen(q, picks[p]).live
        /\ Lockable(q, picks[p])
        /\ picks' = [picks EXCEPT
                       ![p] = Put(q, @, [@.cur EXCEPT !.linked = TRUE])]
     \/ ~Seen(q, picks[p]).live /\ UNCHANGED picks
  /\ NextPick(q, tx[q].todo \ {p})
  /\ UNCHANGED <<lots, reservations, sales, deliveries, movements>>

-----------------------------------------------------------------------------
(* sales.service.ts cancel: guard, release each linked pick's reservation, *)
(* compare-and-set the status last.                                        *)

CancellableFrom == {"draft", "approved"}

Cancel(q) ==
  /\ CanBegin(q, "cancel")
  /\ LET s == Target[q]
         status == Seen(q, sales[s])
         cancellable == /\ status \in CancellableFrom
                        /\ ~HasDelivery(q, s)
         linked == {p \in LotPicks(q, s) : Seen(q, picks[p]).linked}
     IN  \/ /\ cancellable
            /\ tx' = [tx EXCEPT ![q].pc = "findReservation",
                                ![q].todo = linked, ![q].from = status]
            /\ UNCHANGED tables
         \/ ~cancellable /\ Reject(q)

\* releaseReservation reads and tests the reservation before it locks the lot.
FindReservation(q) ==
  /\ At(q, "findReservation")
  /\ \/ \E p \in tx[q].todo :
          LET found == Seen(q, reservations[p]) IN
          \/ /\ ~found.released
             /\ ~found.fully
             /\ tx' = [tx EXCEPT ![q].pc = "release", ![q].at = p,
                                 ![q].read = found.consumed]
             /\ UNCHANGED tables
          \/ (found.released \/ found.fully) /\ Reject(q)
     \/ tx[q].todo = {} /\ Goto(q, "casCancelled") /\ UNCHANGED tables

ReleaseReservation(q) ==
  LET p == tx[q].at
      l == PickLot[p]
      remaining == PickQty[p] - tx[q].read
      given == AfterRelease(lots[l].cur, remaining)
  IN
  /\ At(q, "release")
  /\ Lockable(q, lots[l])
  /\ \/ /\ LotCheck(l, given)
        /\ lots' = [lots EXCEPT ![l] = Put(q, @, given)]
        /\ Lockable(q, reservations[p])
        /\ reservations' =
             [reservations EXCEPT
                ![p] = Put(q, @, [@.cur EXCEPT !.released = TRUE])]
        /\ tx' = [tx EXCEPT ![q].pc = "findReservation",
                            ![q].todo = @ \ {p}]
        /\ UNCHANGED <<picks, sales, deliveries, movements>>
     \/ ~LotCheck(l, given) /\ Rollback(q, "checkFailed")

TransitionToCancelled(q) ==
  LET s == Target[q]
      from == tx[q].from
  IN
  /\ At(q, "casCancelled")
  /\ \/ /\ Seen(q, sales[s]) = from
        /\ Lockable(q, sales[s])
        /\ sales' = [sales EXCEPT ![s] = Put(q, @, "cancelled")]
        /\ Goto(q, "commit")
        /\ UNCHANGED <<lots, reservations, picks, deliveries, movements>>
     \/ Seen(q, sales[s]) # from /\ Reject(q)

-----------------------------------------------------------------------------
(* sales-items.service.ts addItem, and sales-item-lots.service.ts: items   *)
(* and picks are added, and picks removed, while the sale is a draft or    *)
(* approved; what is added to an approved sale is reserved by nothing.     *)

AddItem(q) ==
  LET editable == Editable(q, ItemSale[Target[q]]) IN
  /\ CanBegin(q, "addItem")
  /\ \/ editable /\ Goto(q, "commit") /\ UNCHANGED tables
     \/ ~editable /\ Reject(q)

AddLot(q) ==
  /\ CanBegin(q, "addLot")
  /\ LET p == Target[q]
         allowed == /\ Editable(q, ItemSale[PickItem[p]])
                    /\ PickItem[p] \in items
                    /\ PickQty[p] <= Pickable(q, p)
     IN  \/ /\ allowed
            /\ picks' = [picks EXCEPT
                           ![p] = Put(q, @, [live |-> TRUE, linked |-> FALSE])]
            /\ Goto(q, "commit")
            /\ UNCHANGED <<lots, reservations, sales, deliveries, movements>>
         \/ ~allowed /\ Reject(q)

NotDeleted(pick) == pick.live                                    \* mutant
Removable(pick) == pick.live /\ ~pick.linked

\* The pick is read, and found unreserved, before the statement that deletes it.
RemoveLot(q) ==
  /\ CanBegin(q, "removeLot")
  /\ LET p == Target[q]
         found == Seen(q, picks[p])
         allowed == /\ Editable(q, ItemSale[PickItem[p]])
                    /\ Removable(found)
     IN  \/ allowed /\ Goto(q, "softDelete") /\ UNCHANGED tables
         \/ ~allowed /\ Reject(q)

SoftDeletePick(q) ==
  LET p == Target[q] IN
  /\ At(q, "softDelete")
  /\ \/ /\ Seen(q, picks[p]).live
        /\ Lockable(q, picks[p])
        /\ picks' = [picks EXCEPT
                       ![p] = Put(q, @, [@.cur EXCEPT !.live = FALSE])]
        /\ Goto(q, "commit")
        /\ UNCHANGED <<lots, reservations, sales, deliveries, movements>>
     \/ ~Seen(q, picks[p]).live /\ Reject(q)

-----------------------------------------------------------------------------
(* deliveries.service.ts. *)

LinesOf(d) == {i \in Items : DelivQty[d][i] > 0}

\* Draft deliveries do not count against what the next one may ask for.
CreateDelivery(q) ==
  /\ CanBegin(q, "create")
  /\ LET d == Target[q]
         allowed ==
           /\ Seen(q, sales[DelivSale[d]]) = "approved"
           /\ \A i \in LinesOf(d) : /\ ItemSale[i] = DelivSale[d]
                                    /\ ActiveReservations(q, i) # {}
                                    /\ DelivQty[d][i] <= Undelivered(q, i)
     IN  \/ /\ allowed
            /\ deliveries' = [deliveries EXCEPT ![d] = Put(q, @, "draft")]
            /\ Goto(q, "commit")
            /\ UNCHANGED <<lots, reservations, picks, sales, movements>>
         \/ ~allowed /\ Reject(q)

ConfirmDelivery(q) ==
  /\ CanBegin(q, "confirm")
  /\ LET found == Seen(q, deliveries[Target[q]]) # "none" IN
     \/ found /\ Goto(q, "casConfirmed") /\ UNCHANGED tables
     \/ ~found /\ Reject(q)

TransitionToConfirmed(q) ==
  LET d == Target[q] IN
  /\ At(q, "casConfirmed")
  /\ \/ /\ Seen(q, deliveries[d]) = "draft"
        /\ Lockable(q, deliveries[d])
        /\ deliveries' = [deliveries EXCEPT ![d] = Put(q, @, "confirmed")]
        /\ tx' = [tx EXCEPT ![q].pc = "nextLine", ![q].items = LinesOf(d)]
        /\ UNCHANGED <<lots, reservations, picks, sales, movements>>
     \/ Seen(q, deliveries[d]) # "draft" /\ Reject(q)

\* Take the next line and list its active reservations, or finish.
NextLine(q) ==
  /\ At(q, "nextLine")
  /\ \/ \E i \in tx[q].items :
          tx' = [tx EXCEPT
                   ![q].pc = "nextReservation",
                   ![q].items = @ \ {i},
                   ![q].left = DelivQty[Target[q]][i],
                   ![q].todo = ActiveReservations(q, i),
                   ![q].listed =
                     [p \in Picks |-> Seen(q, reservations[p]).consumed]]
     \/ tx[q].items = {} /\ Goto(q, "commit")
  /\ UNCHANGED tables

LineDoneOrOutOfStock(q) == tx[q].left = 0 \/ tx[q].todo = {}     \* mutant
LineDone(q) == tx[q].left = 0

WholeReservation(left, remaining) == remaining                   \* mutant
ToConsume(left, remaining) == IF left < remaining THEN left ELSE remaining

\* The reservations of one approval have the same created_at: any order.
\* consumeReservation reads and tests the reservation before it locks the lot.
NextReservation(q) ==
  LET left == tx[q].left IN
  /\ At(q, "nextReservation")
  /\ \/ LineDone(q) /\ Goto(q, "nextLine") /\ UNCHANGED tables
     \/ ~LineDone(q) /\ tx[q].todo = {} /\ Reject(q)
     \/ ~LineDone(q) /\ \E p \in tx[q].todo :
          LET remaining == PickQty[p] - tx[q].listed[p]
              toConsume == ToConsume(left, remaining)
              found == Seen(q, reservations[p])
              allowed == /\ ~found.released
                         /\ toConsume <= PickQty[p] - found.consumed
          IN
          \/ /\ remaining <= 0
             /\ tx' = [tx EXCEPT ![q].todo = @ \ {p}]
             /\ UNCHANGED tables
          \/ /\ remaining > 0
             /\ allowed
             /\ tx' = [tx EXCEPT ![q].pc = "consume", ![q].at = p,
                                 ![q].todo = @ \ {p}, ![q].qty = toConsume,
                                 ![q].read = found.consumed]
             /\ UNCHANGED tables
          \/ remaining > 0 /\ ~allowed /\ Reject(q)

\* The value consumed_qty is set to: what the unlocked read found, plus qty.
LastConsumed(q) == tx[q].qty                                     \* mutant
NewConsumed(q) == tx[q].read + tx[q].qty

MovementOfReservation(q) == PickQty[tx[q].at]                    \* mutant
MovementQty(q) == tx[q].qty

\* The lot is locked now; consumed_qty is written from the earlier read.
ConsumeReservation(q) ==
  LET p == tx[q].at
      l == PickLot[p]
      qty == tx[q].qty
      newConsumed == NewConsumed(q)
      lot == AfterConsume(lots[l].cur, qty)
      reservation == [reservations[p].cur EXCEPT
                        !.consumed = newConsumed,
                        !.fully = @ \/ newConsumed >= PickQty[p]]
      checked == LotCheck(l, lot) /\ ReservationCheck(p, reservation)
  IN
  /\ At(q, "consume")
  /\ Lockable(q, lots[l])
  /\ \/ /\ checked
        /\ Lockable(q, reservations[p])
        /\ lots' = [lots EXCEPT ![l] = Put(q, @, lot)]
        /\ reservations' = [reservations EXCEPT ![p] = Put(q, @, reservation)]
        /\ movements' = [movements EXCEPT ![<<Target[q], p>>] = Put(q, @, MovementQty(q))]
        /\ tx' = [tx EXCEPT ![q].pc = "nextReservation", ![q].left = @ - qty]
        /\ UNCHANGED <<picks, sales, deliveries>>
     \/ ~checked /\ Rollback(q, "checkFailed")

-----------------------------------------------------------------------------
(* Lock waits and the database's deadlock detector. *)

\* The holders of the row lock that the next statement of q has to wait for.
WaitsFor(q) ==
  LET holder(row) == {row.lock} \ {Nobody, q}
      l == PickLot[tx[q].at]
  IN
  CASE At(q, "casApproved") /\ Seen(q, sales[Target[q]]) = "draft"
         -> holder(sales[Target[q]])
    [] At(q, "casCancelled") /\ Seen(q, sales[Target[q]]) = tx[q].from
         -> holder(sales[Target[q]])
    [] At(q, "casConfirmed") /\ Seen(q, deliveries[Target[q]]) = "draft"
         -> holder(deliveries[Target[q]])
    [] tx[q].pc \in {"reserve", "release", "consume"} -> holder(lots[l])
    [] At(q, "link") /\ Seen(q, picks[tx[q].at]).live
         -> holder(picks[tx[q].at])
    [] At(q, "softDelete") /\ Seen(q, picks[Target[q]]).live
         -> holder(picks[Target[q]])
    [] OTHER -> {}

\* q is on a cycle of waiting transactions.
Deadlocked(q) ==
  \E cycle \in SUBSET Open :
    /\ q \in cycle
    /\ \A r \in cycle : /\ WaitsFor(r) \cap cycle # {}
                        /\ \E o \in cycle : r \in WaitsFor(o)

DeadlockVictim(q) ==
  Deadlocked(q) /\ Rollback(q, "ended") /\ UNCHANGED items

-----------------------------------------------------------------------------
ApproveStep(q) == \/ Approve(q) \/ TransitionToApproved(q)
                  \/ ReserveFromLot(q) \/ LinkReservation(q)
CancelStep(q)  == \/ Cancel(q) \/ FindReservation(q)
                  \/ ReleaseReservation(q) \/ TransitionToCancelled(q)
PickStep(q)    == \/ AddItem(q) \/ AddLot(q)
                  \/ RemoveLot(q) \/ SoftDeletePick(q)
DeliverStep(q) == \/ CreateDelivery(q) \/ ConfirmDelivery(q)
                  \/ TransitionToConfirmed(q) \/ NextLine(q)
                  \/ NextReservation(q) \/ ConsumeReservation(q)

\* What the server does for a request by itself.
Step(q) == \/ /\ ApproveStep(q) \/ CancelStep(q) \/ PickStep(q) \/ DeliverStep(q)
              /\ UNCHANGED items
           \/ Commit(q)

Done == /\ \A q \in Requests : tx[q].pc \in Ended
        /\ UNCHANGED vars

Next == \/ \E q \in Requests : Step(q) \/ Crash(q) \/ DeadlockVictim(q)
        \/ Done

Spec == Init /\ [][Next]_vars

\* Handlers run on and PostgreSQL breaks deadlocks: while some request can
\* take a step, some request does.  Nothing more is needed to finish.
Fairness == WF_vars(\E q \in Requests : Step(q) \/ DeadlockVictim(q))

FairSpec == Spec /\ Fairness
=============================================================================
