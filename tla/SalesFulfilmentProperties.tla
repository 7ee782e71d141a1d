---------------------- MODULE SalesFulfilmentProperties ----------------------
(***************************************************************************)
(* What reservation and fulfilment guarantee, in terms of the committed    *)
(* database.  The first group holds whatever the requests and however they *)
(* interleave; the second when no two requests work on one sale at a time  *)
(* (OneWriterPerSale), because releaseReservation, consumeReservation,     *)
(* cancel and removeLot test rows they have not locked yet.                *)
(***************************************************************************)
EXTENDS SalesFulfilment

(* Committed tables. *)
Lot(l)         == lots[l].com
Reservation(p) == reservations[p].com
Shipped(d, p)  == movements[d, p].com

Sum(f(_), S) == MapThenSumSet(f, S)

ShippedOf(p) == Sum(LAMBDA d : Shipped(d, p), Deliveries)

\* The tables whose rows are updated, and the handlers' variables.
RowsOK ==
  /\ lots \in [Lots -> Versioned(LotRow, Requests)]
  /\ reservations \in [Picks -> Versioned(ReservationRow, Requests)]
  /\ picks \in [Picks -> Versioned(PickRow, Requests)]
  /\ sales \in [Sales -> Versioned(SaleStatus, Requests)]
  /\ deliveries \in [Deliveries -> Versioned(DelivStatus, Requests)]
  /\ movements \in [Deliveries \X Picks -> Versioned(Nat, Requests)]
  /\ tx \in [Requests -> TxState]
  /\ \A q \in Requests : tx[q].from \in {"draft", "approved"}

\* Every table and every handler variable has the type the schema and the
\* code give it, and a handler that cancels found a cancellable status.
TypeOK == RowsOK /\ items \subseteq Items

-----------------------------------------------------------------------------
(* Whatever the interleaving. *)

\* The CHECK constraints on the counters are a backstop that no request ever
\* runs into, because reserveFromLot checks the capacity of the locked row
\* and consumption moves quantity between the two counters.
ChecksNeverFire == \A q \in Requests : tx[q].pc # "checkFailed"

\* delivered_qty of a lot is the total of the outbound stock movements that
\* consumption wrote for it: counter and movement commit together.
ShippedMatchesCounter ==
  \A l \in Lots :
    Lot(l).delivered = Sum(ShippedOf, {p \in Picks : PickLot[p] = l})

\* A confirmed delivery has shipped exactly its lines; a draft, or one whose
\* confirmation failed halfway, has shipped nothing.
ConfirmedShipsItsLines ==
  \A d \in Deliveries, i \in Items :
    Sum(LAMBDA p : Shipped(d, p), {p \in Picks : PickItem[p] = i})
      = IF deliveries[d].com = "confirmed" THEN DelivQty[d][i] ELSE 0

\* Approval is all or nothing: no step leaves a draft sale with a reservation,
\* and the step that approves a sale leaves one for each of the items that the
\* approval read when it tested them, whatever was removed or added meanwhile.
\* An item that is added afterwards, to the approved sale, has none.
ApprovalIsAtomic ==
  [][\A s \in Sales :
       LET read == tx[sales[s].lock].items IN
       /\ sales'[s].com = "draft" =>
            \A p \in Picks : ItemSale[PickItem[p]] = s => ~Reservation(p)'.made
       /\ sales[s].com = "draft" /\ sales'[s].com = "approved" =>
            /\ read # {}
            /\ \A i \in read : \E p \in Picks :
                 PickItem[p] = i /\ Reservation(p)'.made]_vars

\* Every request that was sent is answered: no lock wait lasts forever, and a
\* finished transaction gives its connection and its row locks back.
EveryRequestEnds == <>(\A q \in Requests : tx[q].pc \in Ended)

-----------------------------------------------------------------------------
(* When nobody else works on the same sale. *)

\* Deliveries never ship more of a reservation than it holds, and consumed_qty
\* is the total they shipped.
NoOverDelivery ==
  \A p \in Picks : /\ ShippedOf(p) <= PickQty[p]
                   /\ Reservation(p).consumed = ShippedOf(p)

\* A cancelled sale holds no stock and has no delivery that could ship any.
CancelledHoldsNothing ==
  \A s \in Sales : sales[s].com = "cancelled" =>
    /\ \A p \in Picks : ItemSale[PickItem[p]] = s =>
         (Reservation(p).made => Reservation(p).released)
    /\ \A d \in Deliveries :
         DelivSale[d] = s => deliveries[d].com = "none"

\* Capacity is never lost: an open reservation is linked from a pick that is
\* not deleted, of a sale that is approved, so that it can still be delivered
\* or released.
NoLeakedReservation ==
  \A p \in Picks : Reservation(p).made /\ ~Reservation(p).released =>
    /\ picks[p].com.live
    /\ picks[p].com.linked
    /\ sales[ItemSale[PickItem[p]]].com = "approved"

\* The committed reservations and lot counters behave as the ledger promises.
Ledger == INSTANCE SalesLedger WITH
  ledger <- [p \in Picks |-> [made |-> Reservation(p).made,
                              released |-> Reservation(p).released,
                              consumed |-> Reservation(p).consumed]],
  counters <- [l \in Lots |-> Lot(l)]

\* Every commit is one atomic step of the ledger: the counters always equal
\* the sums over the reservations and never exceed what was received.
ImplementsLedger == Ledger!LedgerSpec
=============================================================================
