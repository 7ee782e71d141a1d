------------------------ MODULE SalesFulfilmentProofs ------------------------
(***************************************************************************)
(* Proofs about the fulfilment of sales, for any lots, sales, picks,       *)
(* deliveries and requests, and any interleaving of the requests' SQL      *)
(* statements, crashes and deadlock victims included:                      *)
(*   - the tables keep their types, and no request ever runs into a CHECK  *)
(*     constraint of the counters (Inv);                                   *)
(*   - an approval reserves for every item that it read or for none: from  *)
(*     who can hold the lock of which row at which statement (LockInv);    *)
(*   - a confirmed delivery ships exactly its lines, and nothing else is   *)
(*     shipped (ShipInv, by induction along the consumption loop);         *)
(*   - the delivered counter of a lot is the sum of the movements out of   *)
(*     it (CountInv).                                                      *)
(* When no two requests work on one sale at a time (OneWriterPerSale):     *)
(*   - what a handler read without a lock still holds when it acts on it,  *)
(*     a cancelled sale holds nothing, and no reservation is out of reach  *)
(*     (SerialInv);                                                        *)
(*   - reservations count what was shipped from them, lots what is held of *)
(*     them (BooksInv), and every commit is one step of SalesLedger.       *)
(* Each invariant is inductive relative to the ones before it.             *)
(***************************************************************************)
EXTENDS SalesFulfilmentProperties, SumTheorems, TLAPS

\* What the handler of q knows about its variables t at each statement: the
\* pick at hand, that the quantity it read or chose is within the reservation,
\* and that it cancels a cancellable sale.
HandlerOK(q, t) ==
  /\ t.from \in {"draft", "approved"}
  /\ t.pc \in {"reserve", "link", "release", "consume"} => t.at \in Picks
  /\ t.pc = "release" => t.read <= PickQty[t.at]
  /\ t.pc = "consume" => /\ t.read + t.qty <= PickQty[t.at]
                         /\ t.qty <= t.left
  /\ t.pc \in {"casConfirmed", "nextLine", "nextReservation", "consume"}
       => Op[q] = "confirm"

HandlerInv == \A q \in Requests : HandlerOK(q, tx[q])

\* Both versions of every counter satisfy the CHECK constraints.
CountersInv ==
  /\ \A l \in Lots : /\ LotCheck(l, lots[l].com)
                     /\ LotCheck(l, lots[l].cur)
  /\ \A p \in Picks : /\ ReservationCheck(p, reservations[p].com)
                      /\ ReservationCheck(p, reservations[p].cur)

Inv == RowsOK /\ HandlerInv /\ CountersInv /\ ChecksNeverFire

-----------------------------------------------------------------------------
\* The operations and the documents they name.
LEMMA Workload ==
  ASSUME NEW q \in Requests
  PROVE  /\ Op[q] \in Operations
         /\ Op[q] \in {"approve", "cancel"} => Target[q] \in Sales
         /\ Op[q] = "addItem" => Target[q] \in Items
         /\ Op[q] \in {"addLot", "removeLot"} => Target[q] \in Picks
         /\ Op[q] \in {"create", "confirm"} => Target[q] \in Deliveries
         /\ q # Nobody
BY WorkloadAssumption DEF TargetsOf, Operations

-----------------------------------------------------------------------------
(* Rows. *)

LEMMA PutType ==
  ASSUME NEW V, NEW T, NEW t \in T, NEW row \in Versioned(V, T), NEW v \in V
  PROVE  /\ Put(t, row, v) \in Versioned(V, T)
         /\ Put(t, row, v).cur = v
         /\ Put(t, row, v).com = row.com
BY DEF Put, Versioned

\* Ending a transaction leaves every row with versions it had before.
LEMMA EndedTables ==
  ASSUME NEW K, NEW V, NEW T, NEW t, NEW table \in [K -> Versioned(V, T)]
  PROVE  /\ CommittedAll(t, table) \in [K -> Versioned(V, T)]
         /\ RolledBackAll(t, table) \in [K -> Versioned(V, T)]
         /\ \A k \in K :
              /\ CommittedAll(t, table)[k].com \in {table[k].com, table[k].cur}
              /\ CommittedAll(t, table)[k].cur \in {table[k].com, table[k].cur}
              /\ RolledBackAll(t, table)[k].com = table[k].com
              /\ RolledBackAll(t, table)[k].cur \in {table[k].com, table[k].cur}
BY DEF CommittedAll, RolledBackAll, Committed, RolledBack, Fresh, Versioned

\* A lot that is written stays within what was received.
LEMMA ReserveWithinLot ==
  ASSUME NEW l, Received[l] \in Nat, NEW r \in LotRow, NEW n \in Nat
  PROVE  /\ AfterReserve(r, n) \in LotRow
         /\ Available(l, r) >= n => LotCheck(l, AfterReserve(r, n))
BY DEF AfterReserve, Available, LotCheck, LotRow

LEMMA ReleaseWithinLot ==
  ASSUME NEW l, Received[l] \in Nat, NEW r \in LotRow, NEW n \in Nat,
         LotCheck(l, r)
  PROVE  AfterRelease(r, n) \in LotRow /\ LotCheck(l, AfterRelease(r, n))
BY DEF AfterRelease, LotCheck, LotRow

-----------------------------------------------------------------------------
(* Handlers. *)

LEMMA TxAtType ==
  ASSUME NEW pc \in {"new"} \cup Ended
  PROVE  /\ TxAt(pc) \in TxState
         /\ TxAt(pc).pc = pc
         /\ TxAt(pc).from = "draft"
BY DEF TxAt, TxState, Ended, SaleStatus

\* A handler goes on to its next statement.
LEMMA HandlerStep ==
  ASSUME Inv, NEW q \in Requests, NEW t \in TxState,
         tx' = [tx EXCEPT ![q] = t],
         t.pc \in Working, HandlerOK(q, t)
  PROVE  /\ tx' \in [Requests -> TxState]
         /\ \A r \in Requests : tx'[r].from \in {"draft", "approved"}
         /\ HandlerInv'
         /\ ChecksNeverFire'
<1>1. \A r \in Requests : tx'[r] = IF r = q THEN t ELSE tx[r]
  BY DEF Inv, RowsOK
<1>2. tx' \in [Requests -> TxState]
  BY DEF Inv, RowsOK
<1>3. HandlerInv'
  BY <1>1 DEF Inv, HandlerInv, HandlerOK
<1>4. ChecksNeverFire'
  BY <1>1 DEF Inv, ChecksNeverFire, Working
<1> QED
  BY <1>1, <1>2, <1>3, <1>4 DEF HandlerInv, HandlerOK

\* A statement that only reads.
LEMMA ReadStep ==
  ASSUME Inv, NEW q \in Requests, NEW t \in TxState,
         tx' = [tx EXCEPT ![q] = t], UNCHANGED tables,
         t.pc \in Working, HandlerOK(q, t)
  PROVE  Inv'
<1>1. RowsOK' /\ HandlerInv' /\ ChecksNeverFire'
  BY HandlerStep DEF Inv, RowsOK, tables
<1>2. CountersInv'
  BY DEF Inv, CountersInv, tables
<1> QED
  BY <1>1, <1>2 DEF Inv

\* What Inv says of one request, and of one pick and its lot.
LEMMA HandlerFacts ==
  ASSUME Inv, NEW q \in Requests
  PROVE  /\ tx[q] \in TxState
         /\ tx[q].from \in {"draft", "approved"}
         /\ HandlerOK(q, tx[q])
BY DEF Inv, RowsOK, HandlerInv

LEMMA RowFacts ==
  ASSUME Inv, NEW p \in Picks
  PROVE  /\ PickLot[p] \in Lots
         /\ PickQty[p] \in Nat
         /\ Received[PickLot[p]] \in Nat
         /\ lots[PickLot[p]] \in Versioned(LotRow, Requests)
         /\ lots[PickLot[p]].cur \in LotRow
         /\ LotCheck(PickLot[p], lots[PickLot[p]].cur)
         /\ reservations[p].cur \in ReservationRow
<1>1. PickLot[p] \in Lots /\ PickQty[p] \in Nat
  BY DocumentsAssumption, QuantitiesAssumption
<1>2. Received[PickLot[p]] \in Nat
  BY <1>1, QuantitiesAssumption
<1>3. lots[PickLot[p]] \in Versioned(LotRow, Requests)
  BY <1>1 DEF Inv, RowsOK
<1>4. reservations[p] \in Versioned(ReservationRow, Requests)
  BY DEF Inv, RowsOK
<1>5. LotCheck(PickLot[p], lots[PickLot[p]].cur)
  BY <1>1 DEF Inv, CountersInv
<1> QED
  BY <1>1, <1>2, <1>3, <1>4, <1>5 DEF Versioned

\* Any values for the variables of a handler that its next statement uses.
LEMMA NextStatement ==
  ASSUME NEW q, NEW u \in TxState, u.from \in {"draft", "approved"},
         NEW at \in Picks \cup {Nobody}, NEW todo \in SUBSET Picks,
         NEW pc \in Working \ {"release", "consume"},
         pc \in {"reserve", "link"} => at \in Picks,
         pc \in {"casConfirmed", "nextLine", "nextReservation"}
           => Op[q] = "confirm"
  PROVE  LET t == [u EXCEPT !.pc = pc, !.at = at, !.todo = todo] IN
         t \in TxState /\ HandlerOK(q, t) /\ t.pc \in Working
<1> DEFINE t == [u EXCEPT !.pc = pc, !.at = at, !.todo = todo]
<1>1. /\ t.pc = pc /\ t.at = at /\ t.todo = todo
      /\ t.from = u.from
      /\ t \in TxState
  BY DEF TxState
<1> HIDE DEF t
<1>2. HandlerOK(q, t) /\ t.pc \in Working
  BY <1>1 DEF Working, HandlerOK
<1> QED
  BY <1>1, <1>2 DEF t

\* A statement that changes no variable of the handler.
LEMMA GotoStep ==
  ASSUME Inv, NEW q \in Requests,
         NEW pc \in {"link", "casCancelled", "softDelete", "casConfirmed",
                     "nextLine", "commit"},
         pc \in {"link"} => tx[q].at \in Picks,
         pc \in {"casConfirmed", "nextLine"} => Op[q] = "confirm",
         Goto(q, pc)
  PROVE  \E t \in TxState : /\ tx' = [tx EXCEPT ![q] = t]
                            /\ t.pc \in Working
                            /\ HandlerOK(q, t)
<1>1. PICK t : t = [tx[q] EXCEPT !.pc = pc]
  OBVIOUS
<1>2. /\ t.pc = pc /\ t.at = tx[q].at /\ t.from = tx[q].from
      /\ t \in TxState
  BY <1>1, HandlerFacts DEF TxState, Working
<1>3. t.pc \in Working /\ HandlerOK(q, t)
  BY <1>2, HandlerFacts DEF Working, HandlerOK
<1>4. tx' = [tx EXCEPT ![q] = t]
  BY <1>1 DEF Goto, Inv, RowsOK, TxState
<1> QED
  BY <1>2, <1>3, <1>4

\* A statement that writes one pick, or the sale, or the delivery, and goes on.
LEMMA WriteStep ==
  ASSUME Inv, NEW q \in Requests, NEW t \in TxState,
         tx' = [tx EXCEPT ![q] = t], t.pc \in Working, HandlerOK(q, t),
         UNCHANGED <<lots, reservations, movements>>,
         picks' \in [Picks -> Versioned(PickRow, Requests)],
         sales' \in [Sales -> Versioned(SaleStatus, Requests)],
         deliveries' \in [Deliveries -> Versioned(DelivStatus, Requests)]
  PROVE  Inv'
<1>1. RowsOK' /\ HandlerInv' /\ ChecksNeverFire'
  BY HandlerStep DEF Inv, RowsOK
<1>2. CountersInv'
  BY DEF Inv, CountersInv
<1> QED
  BY <1>1, <1>2 DEF Inv

LEMMA InitInv == Init => Inv
<1> SUFFICES ASSUME Init PROVE Inv
  OBVIOUS
<1>1. /\ tx \in [Requests -> TxState]
      /\ \A q \in Requests : tx[q].from = "draft" /\ tx[q].pc = "new"
  BY TxAtType DEF Init
<1>2. RowsOK
  BY <1>1 DEF Init, RowsOK, LotRow, ReservationRow, ReservationMade, PickRow,
     SaleStatus, DelivStatus, Fresh, Versioned
<1>3. HandlerInv
  BY <1>1 DEF HandlerInv, HandlerOK
<1>4. CountersInv
  BY QuantitiesAssumption, DocumentsAssumption
     DEF Init, CountersInv, Fresh, LotCheck, ReservationCheck, ReservationMade
<1>5. ChecksNeverFire
  BY DEF Init, ChecksNeverFire, TxAt
<1> QED
  BY <1>2, <1>3, <1>4, <1>5 DEF Inv

\* Rolling back, for whatever reason but a CHECK constraint, keeps Inv.
LEMMA RollbackInv ==
  ASSUME Inv, NEW q \in Requests, Rollback(q, "ended")
  PROVE  Inv'
<1> USE DEF Rollback, Finish
<1>1. RowsOK'
  BY EndedTables, TxAtType DEF RowsOK, Inv, Ended
<1>2. tx' \in [Requests -> TxState] /\ tx'[q].pc = "ended"
  BY TxAtType DEF RowsOK, Inv, Ended
<1>3. HandlerInv' /\ ChecksNeverFire'
  BY <1>2, TxAtType DEF HandlerInv, HandlerOK, ChecksNeverFire, RowsOK, Inv, Ended
<1>4. /\ \A l \in Lots : /\ lots'[l].com = lots[l].com
                         /\ lots'[l].cur \in {lots[l].com, lots[l].cur}
  BY DEF RolledBackAll, RolledBack, Fresh, RowsOK, Inv
<1>5. \A p \in Picks :
           /\ reservations'[p].com = reservations[p].com
           /\ reservations'[p].cur \in {reservations[p].com, reservations[p].cur}
  BY DEF RolledBackAll, RolledBack, Fresh, RowsOK, Inv
<1>6. CountersInv'
  BY <1>4, <1>5 DEF CountersInv, Inv
<1> QED
  BY <1>1, <1>3, <1>6 DEF Inv

LEMMA CommitInv ==
  ASSUME Inv, NEW q \in Requests, Commit(q)
  PROVE  Inv'
<1> USE DEF Commit, Finish
<1>1. RowsOK'
  BY EndedTables, TxAtType DEF RowsOK, Inv, Ended
<1>2. tx' \in [Requests -> TxState] /\ tx'[q].pc = "ended"
  BY TxAtType DEF RowsOK, Inv, Ended
<1>3. HandlerInv' /\ ChecksNeverFire'
  BY <1>2, TxAtType DEF HandlerInv, HandlerOK, ChecksNeverFire, RowsOK, Inv, Ended
<1>4. /\ \A l \in Lots : /\ lots'[l].com \in {lots[l].com, lots[l].cur}
                         /\ lots'[l].cur \in {lots[l].com, lots[l].cur}
  BY EndedTables DEF RowsOK, Inv
<1>5. \A p \in Picks :
           /\ reservations'[p].com \in {reservations[p].com, reservations[p].cur}
           /\ reservations'[p].cur \in {reservations[p].com, reservations[p].cur}
  BY EndedTables DEF RowsOK, Inv
<1>6. CountersInv'
  BY <1>4, <1>5 DEF CountersInv, Inv
<1> QED
  BY <1>1, <1>3, <1>6 DEF Inv

-----------------------------------------------------------------------------
(* Approval. *)

LEMMA ApproveInv ==
  ASSUME Inv, NEW q \in Requests, Approve(q)
  PROVE  Inv'
<1> DEFINE s == Target[q]
<1>1. CASE Reject(q)
  BY <1>1, RollbackInv DEF Reject
<1>2. CASE /\ tx' = [tx EXCEPT ![q].pc = "casApproved",
                              ![q].todo = LotPicks(q, s), ![q].items = ItemsOf(s)]
           /\ UNCHANGED tables
  <2>1. PICK t : t = [tx[q] EXCEPT !.pc = "casApproved",
                                   !.todo = LotPicks(q, s), !.items = ItemsOf(s)]
    OBVIOUS
  <2>2. t \in TxState /\ t.pc = "casApproved" /\ t.from = tx[q].from
    <3>1. LotPicks(q, s) \in SUBSET Picks /\ ItemsOf(s) \in SUBSET Items
      BY DEF LotPicks, ItemsOf
    <3>2. tx[q] \in TxState
      BY HandlerFacts
    <3> QED
      BY <2>1, <3>1, <3>2 DEF TxState, Working
  <2>3. HandlerOK(q, t) /\ t.pc \in Working
    BY <2>2, HandlerFacts DEF HandlerOK, Working
  <2>4. tx' = [tx EXCEPT ![q] = t]
    BY <1>2, <2>1 DEF Inv, RowsOK, TxState
  <2> QED
    BY <1>2, <2>2, <2>3, <2>4, ReadStep
<1> QED
  BY <1>1, <1>2 DEF Approve

\* The next turn of the reservation loop, or its end.
LEMMA NextPickType ==
  ASSUME Inv, NEW q \in Requests, NEW rest \in SUBSET Picks, NextPick(q, rest)
  PROVE  /\ tx' \in [Requests -> TxState]
         /\ \A r \in Requests : tx'[r].from \in {"draft", "approved"}
         /\ HandlerInv'
         /\ ChecksNeverFire'
<1>1. CASE tx' = [tx EXCEPT ![q].pc = "commit", ![q].todo = {}]
  <2> DEFINE t == [tx[q] EXCEPT !.pc = "commit", !.todo = {}]
  <2>1. ASSUME NEW u \in TxState, NEW T \in SUBSET Picks
        PROVE  [u EXCEPT !.pc = "commit", !.todo = T] \in TxState
    BY DEF TxState, Working
  <2>2. t \in TxState
    BY <2>1 DEF Inv, RowsOK
  <2>3. HandlerOK(q, t) /\ t.pc \in Working
    BY DEF Inv, RowsOK, TxState, Working, HandlerInv, HandlerOK
  <2>4. tx' = [tx EXCEPT ![q] = t]
    BY <1>1 DEF Inv, RowsOK, TxState
  <2> QED
    BY <2>2, <2>3, <2>4, HandlerStep
<1>2. CASE \E p \in rest : tx' = [tx EXCEPT ![q].pc = "reserve",
                                           ![q].at = p, ![q].todo = rest]
  <2>1. PICK p \in rest : tx' = [tx EXCEPT ![q].pc = "reserve",
                                           ![q].at = p, ![q].todo = rest]
    BY <1>2
  <2> DEFINE t == [tx[q] EXCEPT !.pc = "reserve", !.at = p, !.todo = rest]
  <2>2. t \in TxState /\ HandlerOK(q, t) /\ t.pc \in Working
    BY HandlerFacts, NextStatement DEF Working
  <2>3. tx' = [tx EXCEPT ![q] = t]
    BY <2>1 DEF Inv, RowsOK, TxState
  <2> QED
    BY <2>2, <2>3, HandlerStep
<1> QED
  BY <1>1, <1>2 DEF NextPick

LEMMA TransitionToApprovedInv ==
  ASSUME Inv, NEW q \in Requests, TransitionToApproved(q)
  PROVE  Inv'
<1>1. CASE Reject(q)
  BY <1>1, RollbackInv DEF Reject
<1>2. CASE /\ sales' = [sales EXCEPT ![Target[q]] = Put(q, @, "approved")]
           /\ NextPick(q, tx[q].todo)
           /\ UNCHANGED <<lots, reservations, picks, deliveries, movements>>
  <2>1. tx[q].todo \in SUBSET Picks
    BY DEF Inv, RowsOK, TxState
  <2>2. RowsOK'
    BY <1>2, <2>1, NextPickType
       DEF Inv, RowsOK, Put, Versioned, SaleStatus
  <2>3. CountersInv'
    BY <1>2 DEF Inv, CountersInv
  <2> QED
    BY <1>2, <2>1, <2>2, <2>3, NextPickType DEF Inv
<1> QED
  BY <1>1, <1>2 DEF TransitionToApproved

\* The capacity that was checked is that of the locked row, so reserving it
\* cannot break the lot's CHECK constraint.
LEMMA ReserveFromLotInv ==
  ASSUME Inv, NEW q \in Requests, ReserveFromLot(q)
  PROVE  Inv'
<1> DEFINE p == tx[q].at
           l == PickLot[p]
           reserved == AfterReserve(lots[l].cur, PickQty[p])
<1>1. /\ p \in Picks
      /\ l \in Lots
      /\ PickQty[p] \in Nat
      /\ Received[l] \in Nat
      /\ lots[l] \in Versioned(LotRow, Requests)
      /\ lots[l].cur \in LotRow
  <2>1. p \in Picks
    BY HandlerFacts DEF ReserveFromLot, At, HandlerOK
  <2> QED
    BY <2>1, RowFacts
<1>2. /\ reserved \in LotRow
      /\ Available(l, lots[l].cur) >= PickQty[p] => LotCheck(l, reserved)
  BY <1>1, ReserveWithinLot
<1>3. CASE Reject(q)
  BY <1>3, RollbackInv DEF Reject
<1>4. CASE /\ Available(l, lots[l].cur) >= PickQty[p]
           /\ lots' = [lots EXCEPT ![l] = Put(q, @, reserved)]
           /\ reservations' =
                [reservations EXCEPT ![p] = Put(q, @, ReservationMade(TRUE))]
           /\ Goto(q, "link")
           /\ UNCHANGED <<picks, sales, deliveries, movements>>
  <2>1. ReservationMade(TRUE) \in ReservationRow
    BY DEF ReservationMade, ReservationRow
  <2>2. PICK t \in TxState : /\ tx' = [tx EXCEPT ![q] = t]
                             /\ t.pc \in Working
                             /\ HandlerOK(q, t)
    BY <1>1, <1>4, GotoStep
  <2>3. RowsOK' /\ HandlerInv' /\ ChecksNeverFire'
    <3>1. lots' \in [Lots -> Versioned(LotRow, Requests)]
      <4>1. lots \in [Lots -> Versioned(LotRow, Requests)]
        BY DEF Inv, RowsOK
      <4>2. Put(q, lots[l], reserved) \in Versioned(LotRow, Requests)
        BY <1>1, <1>2, <4>1, PutType
      <4> QED
        BY <1>1, <1>4, <4>1, <4>2
    <3>2. reservations' \in [Picks -> Versioned(ReservationRow, Requests)]
      <4>1. reservations \in [Picks -> Versioned(ReservationRow, Requests)]
        BY DEF Inv, RowsOK
      <4>2. Put(q, reservations[p], ReservationMade(TRUE))
              \in Versioned(ReservationRow, Requests)
        BY <1>1, <2>1, <4>1, PutType
      <4> QED
        BY <1>1, <1>4, <4>1, <4>2
    <3> QED
      BY <1>4, <2>2, <3>1, <3>2, HandlerStep DEF Inv, RowsOK
  <2>4. CountersInv'
    <3>1. /\ lots'[l].com = lots[l].com
          /\ lots'[l].cur = reserved
          /\ \A m \in Lots \ {l} : lots'[m] = lots[m]
      BY <1>1, <1>2, <1>4 DEF Inv, RowsOK, Put
    <3>2. /\ reservations'[p].com = reservations[p].com
          /\ reservations'[p].cur.consumed = 0
          /\ \A r \in Picks \ {p} : reservations'[r] = reservations[r]
      BY <1>1, <1>4 DEF Inv, RowsOK, Put, ReservationMade
    <3>3. \A m \in Lots : LotCheck(m, lots'[m].com) /\ LotCheck(m, lots'[m].cur)
      BY <1>2, <1>4, <3>1 DEF Inv, CountersInv
    <3>4. \A r \in Picks : /\ ReservationCheck(r, reservations'[r].com)
                           /\ ReservationCheck(r, reservations'[r].cur)
      BY <1>1, <3>2 DEF Inv, CountersInv, ReservationCheck
    <3> QED
      BY <3>3, <3>4 DEF CountersInv
  <2> QED
    BY <2>3, <2>4 DEF Inv
<1> QED
  BY <1>2, <1>3, <1>4 DEF ReserveFromLot

LEMMA LinkReservationInv ==
  ASSUME Inv, NEW q \in Requests, LinkReservation(q)
  PROVE  Inv'
<1> DEFINE p == tx[q].at
           linked == [picks[p].cur EXCEPT !.linked = TRUE]
<1>1. p \in Picks /\ tx[q].todo \ {p} \in SUBSET Picks
  BY DEF LinkReservation, At, Inv, HandlerInv, HandlerOK, RowsOK, TxState
<1>2. picks' \in [Picks -> Versioned(PickRow, Requests)]
  <2>1. CASE picks' = [picks EXCEPT ![p] = Put(q, @, [@.cur EXCEPT !.linked = TRUE])]
    <3>1. picks \in [Picks -> Versioned(PickRow, Requests)]
      BY DEF Inv, RowsOK
    <3>2. linked \in PickRow
      BY <1>1, <3>1 DEF Versioned, PickRow
    <3>3. Put(q, picks[p], linked) \in Versioned(PickRow, Requests)
      BY <1>1, <3>1, <3>2, PutType
    <3> QED
      BY <1>1, <2>1, <3>1, <3>2, <3>3
  <2>2. CASE UNCHANGED picks
    BY <2>2 DEF Inv, RowsOK
  <2> QED
    BY <2>1, <2>2 DEF LinkReservation
<1>3. NextPick(q, tx[q].todo \ {p})
  BY DEF LinkReservation
<1>4. UNCHANGED <<lots, reservations, sales, deliveries, movements>>
  BY DEF LinkReservation
<1>5. RowsOK'
  BY <1>1, <1>2, <1>3, <1>4, NextPickType DEF Inv, RowsOK
<1>6. CountersInv'
  BY <1>4 DEF Inv, CountersInv
<1> QED
  BY <1>1, <1>3, <1>5, <1>6, NextPickType DEF Inv

-----------------------------------------------------------------------------
(* Cancellation. *)

LEMMA CancelInv ==
  ASSUME Inv, NEW q \in Requests, Cancel(q)
  PROVE  Inv'
<1> DEFINE status == Seen(q, sales[Target[q]])
           linked == {p \in LotPicks(q, Target[q]) : Seen(q, picks[p]).linked}
<1>1. CASE Reject(q)
  BY <1>1, RollbackInv DEF Reject
<1>2. CASE /\ status \in CancellableFrom
           /\ tx' = [tx EXCEPT ![q].pc = "findReservation",
                              ![q].todo = linked, ![q].from = status]
           /\ UNCHANGED tables
  <2> DEFINE t == [tx[q] EXCEPT !.pc = "findReservation", !.todo = linked,
                                !.from = status]
  <2>1. ASSUME NEW u \in TxState, NEW T \in SUBSET Picks,
               NEW f \in {"draft", "approved"}
        PROVE  LET v == [u EXCEPT !.pc = "findReservation", !.todo = T, !.from = f]
               IN  v \in TxState /\ HandlerOK(q, v) /\ v.pc \in Working
    BY DEF TxState, Working, SaleStatus, HandlerOK
  <2>2. linked \in SUBSET Picks
    BY DEF LotPicks
  <2>3. t \in TxState /\ HandlerOK(q, t) /\ t.pc \in Working
    BY <1>2, <2>1, <2>2 DEF Inv, RowsOK, CancellableFrom
  <2>4. tx' = [tx EXCEPT ![q] = t]
    BY <1>2 DEF Inv, RowsOK, TxState
  <2> QED
    BY <1>2, <2>3, <2>4, ReadStep
<1> QED
  BY <1>1, <1>2 DEF Cancel

\* The reservation as any transaction sees it is within its quantity.
LEMMA SeenReservation ==
  ASSUME Inv, NEW q \in Requests, NEW p \in Picks
  PROVE  /\ Seen(q, reservations[p]).consumed \in Nat
         /\ Seen(q, reservations[p]).consumed <= PickQty[p]
BY DEF Inv, RowsOK, CountersInv, ReservationCheck, Seen, Versioned, ReservationRow

LEMMA FindReservationInv ==
  ASSUME Inv, NEW q \in Requests, FindReservation(q)
  PROVE  Inv'
<1>1. CASE Reject(q)
  BY <1>1, RollbackInv DEF Reject
<1>2. ASSUME NEW p \in tx[q].todo,
             tx' = [tx EXCEPT ![q].pc = "release", ![q].at = p,
                              ![q].read = Seen(q, reservations[p]).consumed],
             UNCHANGED tables
      PROVE  Inv'
  <2> DEFINE found == Seen(q, reservations[p]).consumed
             t == [tx[q] EXCEPT !.pc = "release", !.at = p, !.read = found]
  <2>1. ASSUME NEW u \in TxState, NEW k \in Picks, NEW n \in Nat,
               u.from \in {"draft", "approved"}, n <= PickQty[k]
        PROVE  LET v == [u EXCEPT !.pc = "release", !.at = k, !.read = n]
               IN  v \in TxState /\ HandlerOK(q, v) /\ v.pc \in Working
    BY <2>1 DEF TxState, Working, HandlerOK
  <2>2. p \in Picks
    BY <1>2 DEF Inv, RowsOK, TxState
  <2>3. t \in TxState /\ HandlerOK(q, t) /\ t.pc \in Working
    BY <2>1, <2>2, SeenReservation DEF Inv, RowsOK
  <2>4. tx' = [tx EXCEPT ![q] = t]
    BY <1>2 DEF Inv, RowsOK, TxState
  <2> QED
    BY <1>2, <2>3, <2>4, ReadStep
<1>3. CASE Goto(q, "casCancelled") /\ UNCHANGED tables
  BY <1>3, GotoStep, ReadStep
<1> QED
  BY <1>1, <1>2, <1>3 DEF FindReservation

\* What was read before the lock is at most the quantity, so giving the rest
\* back cannot break the lot's CHECK constraint.
LEMMA ReleaseReservationInv ==
  ASSUME Inv, NEW q \in Requests, ReleaseReservation(q)
  PROVE  Inv'
<1> DEFINE p == tx[q].at
           l == PickLot[p]
           remaining == PickQty[p] - tx[q].read
           given == AfterRelease(lots[l].cur, remaining)
           released == [reservations[p].cur EXCEPT !.released = TRUE]
<1>1. /\ p \in Picks
      /\ l \in Lots
      /\ PickQty[p] \in Nat
      /\ tx[q].read \in Nat
      /\ tx[q].read <= PickQty[p]
      /\ Received[l] \in Nat
      /\ lots[l].cur \in LotRow
      /\ LotCheck(l, lots[l].cur)
      /\ reservations[p].cur \in ReservationRow
  <2>1. p \in Picks /\ tx[q].read \in Nat /\ tx[q].read <= PickQty[p]
    BY HandlerFacts DEF ReleaseReservation, At, HandlerOK, TxState
  <2> QED
    BY <2>1, RowFacts
<1>2. given \in LotRow /\ LotCheck(l, given)
  <2>1. remaining \in Nat
    BY <1>1
  <2> QED
    BY <1>1, <2>1, ReleaseWithinLot
<1>3. /\ released \in ReservationRow
      /\ released.consumed = reservations[p].cur.consumed
  BY <1>1 DEF ReservationRow
<1>4. CASE /\ lots' = [lots EXCEPT ![l] = Put(q, @, given)]
           /\ reservations' =
                [reservations EXCEPT
                   ![p] = Put(q, @, [@.cur EXCEPT !.released = TRUE])]
           /\ tx' = [tx EXCEPT ![q].pc = "findReservation",
                              ![q].todo = @ \ {p}]
           /\ UNCHANGED <<picks, sales, deliveries, movements>>
  <2> DEFINE t == [tx[q] EXCEPT !.pc = "findReservation", !.todo = @ \ {p}]
  <2>1. ASSUME NEW u \in TxState, u.from \in {"draft", "approved"}
        PROVE  LET v == [u EXCEPT !.pc = "findReservation", !.todo = @ \ {p}]
               IN  v \in TxState /\ HandlerOK(q, v) /\ v.pc \in Working
    BY <2>1 DEF TxState, Working, HandlerOK
  <2>2. t \in TxState /\ HandlerOK(q, t) /\ t.pc \in Working
    BY <2>1 DEF Inv, RowsOK
  <2>3. tx' = [tx EXCEPT ![q] = t]
    BY <1>4 DEF Inv, RowsOK, TxState
  <2>4. RowsOK' /\ HandlerInv' /\ ChecksNeverFire'
    <3>1. lots' \in [Lots -> Versioned(LotRow, Requests)]
      <4> HIDE DEF p, l, given
      <4>1. lots \in [Lots -> Versioned(LotRow, Requests)]
        BY DEF Inv, RowsOK
      <4>2. Put(q, lots[l], given) \in Versioned(LotRow, Requests)
        BY <1>1, <1>2, <4>1, PutType
      <4> QED
        BY <1>1, <1>4, <4>1, <4>2
    <3>2. reservations' \in [Picks -> Versioned(ReservationRow, Requests)]
      <4>1. reservations \in [Picks -> Versioned(ReservationRow, Requests)]
        BY DEF Inv, RowsOK
      <4>2. Put(q, reservations[p], released)
              \in Versioned(ReservationRow, Requests)
        BY <1>1, <1>3, <4>1, PutType
      <4> QED
        BY <1>1, <1>4, <4>1, <4>2
    <3> QED
      BY <1>4, <2>2, <2>3, <3>1, <3>2, HandlerStep DEF Inv, RowsOK
  <2>5. CountersInv'
    <3>1. /\ lots'[l].com = lots[l].com
          /\ lots'[l].cur = given
          /\ \A m \in Lots \ {l} : lots'[m] = lots[m]
      BY <1>1, <1>2, <1>4 DEF Inv, RowsOK, Put
    <3>2. /\ reservations'[p].com = reservations[p].com
          /\ reservations'[p].cur = released
          /\ \A r \in Picks \ {p} : reservations'[r] = reservations[r]
      BY <1>1, <1>4 DEF Inv, RowsOK, Put
    <3>3. \A m \in Lots : LotCheck(m, lots'[m].com) /\ LotCheck(m, lots'[m].cur)
      BY <1>2, <3>1 DEF Inv, CountersInv
    <3>4. \A r \in Picks : /\ ReservationCheck(r, reservations'[r].com)
                           /\ ReservationCheck(r, reservations'[r].cur)
      BY <1>1, <1>3, <3>2 DEF Inv, CountersInv, ReservationCheck
    <3> QED
      BY <3>3, <3>4, SMTT(30) DEF CountersInv
  <2> QED
    BY <2>4, <2>5 DEF Inv
<1> QED
  BY <1>2, <1>4 DEF ReleaseReservation

LEMMA TransitionToCancelledInv ==
  ASSUME Inv, NEW q \in Requests, TransitionToCancelled(q)
  PROVE  Inv'
<1>1. CASE Reject(q)
  BY <1>1, RollbackInv DEF Reject
<1>2. CASE /\ sales' = [sales EXCEPT ![Target[q]] = Put(q, @, "cancelled")]
           /\ Goto(q, "commit")
           /\ UNCHANGED <<lots, reservations, picks, deliveries, movements>>
  <2>1. PICK t \in TxState : /\ tx' = [tx EXCEPT ![q] = t]
                             /\ t.pc \in Working
                             /\ HandlerOK(q, t)
    BY <1>2, GotoStep
  <2>2. sales' \in [Sales -> Versioned(SaleStatus, Requests)]
    BY <1>2 DEF Inv, RowsOK, Put, Versioned, SaleStatus
  <2> QED
    BY <1>2, <2>1, <2>2, WriteStep DEF Inv, RowsOK
<1> QED
  BY <1>1, <1>2 DEF TransitionToCancelled

-----------------------------------------------------------------------------
(* Items and picks. *)

LEMMA AddItemInv ==
  ASSUME Inv, NEW q \in Requests, AddItem(q)
  PROVE  Inv'
<1>1. CASE Reject(q)
  BY <1>1, RollbackInv DEF Reject
<1>2. CASE Goto(q, "commit") /\ UNCHANGED tables
  BY <1>2, GotoStep, ReadStep
<1> QED
  BY <1>1, <1>2 DEF AddItem

LEMMA AddLotInv ==
  ASSUME Inv, NEW q \in Requests, AddLot(q)
  PROVE  Inv'
<1>1. CASE Reject(q)
  BY <1>1, RollbackInv DEF Reject
<1>2. CASE /\ picks' = [picks EXCEPT
                         ![Target[q]] = Put(q, @, [live |-> TRUE, linked |-> FALSE])]
           /\ Goto(q, "commit")
           /\ UNCHANGED <<lots, reservations, sales, deliveries, movements>>
  <2>1. picks' \in [Picks -> Versioned(PickRow, Requests)]
    BY <1>2 DEF Inv, RowsOK, Put, Versioned, PickRow
  <2> QED
    BY <1>2, <2>1, GotoStep, WriteStep DEF Inv, RowsOK
<1> QED
  BY <1>1, <1>2 DEF AddLot

LEMMA RemoveLotInv ==
  ASSUME Inv, NEW q \in Requests, RemoveLot(q)
  PROVE  Inv'
<1>1. CASE Reject(q)
  BY <1>1, RollbackInv DEF Reject
<1>2. CASE Goto(q, "softDelete") /\ UNCHANGED tables
  BY <1>2, GotoStep, ReadStep
<1> QED
  BY <1>1, <1>2 DEF RemoveLot

LEMMA SoftDeletePickInv ==
  ASSUME Inv, NEW q \in Requests, SoftDeletePick(q)
  PROVE  Inv'
<1>1. CASE Reject(q)
  BY <1>1, RollbackInv DEF Reject
<1>2. CASE /\ picks' = [picks EXCEPT
                   ![Target[q]] = Put(q, @, [@.cur EXCEPT !.live = FALSE])]
           /\ Goto(q, "commit")
           /\ UNCHANGED <<lots, reservations, sales, deliveries, movements>>
  <2>1. picks' \in [Picks -> Versioned(PickRow, Requests)]
    <3>1. picks \in [Picks -> Versioned(PickRow, Requests)]
      BY DEF Inv, RowsOK
    <3>2. CASE Target[q] \in Picks
      <4> DEFINE deleted == [picks[Target[q]].cur EXCEPT !.live = FALSE]
      <4>1. deleted \in PickRow
        BY <3>1, <3>2 DEF Versioned, PickRow
      <4>2. Put(q, picks[Target[q]], deleted) \in Versioned(PickRow, Requests)
        BY <3>1, <3>2, <4>1, PutType
      <4> QED
        BY <1>2, <3>1, <3>2, <4>2
    <3>3. CASE Target[q] \notin Picks
      BY <1>2, <3>1, <3>3
    <3> QED
      BY <3>2, <3>3
  <2> QED
    BY <1>2, <2>1, GotoStep, WriteStep DEF Inv, RowsOK
<1> QED
  BY <1>1, <1>2 DEF SoftDeletePick

-----------------------------------------------------------------------------
(* Deliveries. *)

LEMMA CreateDeliveryInv ==
  ASSUME Inv, NEW q \in Requests, CreateDelivery(q)
  PROVE  Inv'
<1>1. CASE Reject(q)
  BY <1>1, RollbackInv DEF Reject
<1>2. CASE /\ deliveries' = [deliveries EXCEPT ![Target[q]] = Put(q, @, "draft")]
           /\ Goto(q, "commit")
           /\ UNCHANGED <<lots, reservations, picks, sales, movements>>
  <2>1. deliveries' \in [Deliveries -> Versioned(DelivStatus, Requests)]
    BY <1>2 DEF Inv, RowsOK, Put, Versioned, DelivStatus
  <2> QED
    BY <1>2, <2>1, GotoStep, WriteStep DEF Inv, RowsOK
<1> QED
  BY <1>1, <1>2 DEF CreateDelivery

LEMMA ConfirmDeliveryInv ==
  ASSUME Inv, NEW q \in Requests, ConfirmDelivery(q)
  PROVE  Inv'
<1>1. CASE Reject(q)
  BY <1>1, RollbackInv DEF Reject
<1>2. CASE Goto(q, "casConfirmed") /\ UNCHANGED tables
  BY <1>2, GotoStep, ReadStep DEF ConfirmDelivery, CanBegin
<1> QED
  BY <1>1, <1>2 DEF ConfirmDelivery

LEMMA TransitionToConfirmedInv ==
  ASSUME Inv, NEW q \in Requests, TransitionToConfirmed(q)
  PROVE  Inv'
<1> DEFINE d == Target[q]
<1>1. CASE Reject(q)
  BY <1>1, RollbackInv DEF Reject
<1>2. CASE /\ deliveries' = [deliveries EXCEPT ![d] = Put(q, @, "confirmed")]
           /\ tx' = [tx EXCEPT ![q].pc = "nextLine", ![q].items = LinesOf(d)]
           /\ UNCHANGED <<lots, reservations, picks, sales, movements>>
  <2> DEFINE t == [tx[q] EXCEPT !.pc = "nextLine", !.items = LinesOf(d)]
  <2>1. ASSUME NEW u \in TxState, NEW S \in SUBSET Items,
               u.from \in {"draft", "approved"}, Op[q] = "confirm"
        PROVE  LET v == [u EXCEPT !.pc = "nextLine", !.items = S]
               IN  v \in TxState /\ HandlerOK(q, v) /\ v.pc \in Working
    BY <2>1 DEF TxState, Working, HandlerOK
  <2>2. LinesOf(d) \in SUBSET Items
    BY DEF LinesOf
  <2>3. Op[q] = "confirm"
    BY DEF TransitionToConfirmed, At, Inv, HandlerInv, HandlerOK
  <2>4. t \in TxState /\ HandlerOK(q, t) /\ t.pc \in Working
    BY <2>1, <2>2, <2>3 DEF Inv, RowsOK
  <2>5. tx' = [tx EXCEPT ![q] = t]
    BY <1>2 DEF Inv, RowsOK, TxState
  <2>6. deliveries' \in [Deliveries -> Versioned(DelivStatus, Requests)]
    BY <1>2 DEF Inv, RowsOK, Put, Versioned, DelivStatus
  <2> QED
    BY <1>2, <2>4, <2>5, <2>6, WriteStep DEF Inv, RowsOK
<1> QED
  BY <1>1, <1>2 DEF TransitionToConfirmed

LEMMA NextLineInv ==
  ASSUME Inv, NEW q \in Requests, NextLine(q)
  PROVE  Inv'
<1> DEFINE consumed == [p \in Picks |-> Seen(q, reservations[p]).consumed]
<1>1. Op[q] = "confirm" /\ UNCHANGED tables
  BY DEF NextLine, At, Inv, HandlerInv, HandlerOK
<1>2. CASE Goto(q, "commit")
  BY <1>1, <1>2, GotoStep, ReadStep
<1>3. ASSUME NEW i \in tx[q].items,
             tx' = [tx EXCEPT ![q].pc = "nextReservation",
                              ![q].items = @ \ {i},
                              ![q].left = DelivQty[Target[q]][i],
                              ![q].todo = ActiveReservations(q, i),
                              ![q].listed = consumed]
      PROVE  Inv'
  <2> DEFINE t == [tx[q] EXCEPT !.pc = "nextReservation",
                                !.items = @ \ {i},
                                !.left = DelivQty[Target[q]][i],
                                !.todo = ActiveReservations(q, i),
                                !.listed = consumed]
  <2>1. ASSUME NEW u \in TxState, NEW S \in SUBSET Items, NEW n \in Nat,
               NEW T \in SUBSET Picks, NEW f \in [Picks -> Nat],
               u.from \in {"draft", "approved"}
        PROVE  LET v == [u EXCEPT !.pc = "nextReservation", !.items = S,
                                  !.left = n, !.todo = T, !.listed = f]
               IN  v \in TxState /\ HandlerOK(q, v) /\ v.pc \in Working
    BY <1>1, <2>1 DEF TxState, Working, HandlerOK
  <2>2. i \in Items /\ tx[q].items \ {i} \in SUBSET Items
    BY DEF Inv, RowsOK, TxState
  <2>3. DelivQty[Target[q]][i] \in Nat
    BY <1>1, <2>2, QuantitiesAssumption, WorkloadAssumption DEF TargetsOf
  <2>4. consumed \in [Picks -> Nat]
    BY SeenReservation
  <2>5. ActiveReservations(q, i) \in SUBSET Picks
    BY DEF ActiveReservations
  <2>6. t \in TxState /\ HandlerOK(q, t) /\ t.pc \in Working
    BY <2>1, <2>2, <2>3, <2>4, <2>5 DEF Inv, RowsOK
  <2>7. tx' = [tx EXCEPT ![q] = t]
    BY <1>3 DEF Inv, RowsOK, TxState
  <2> QED
    BY <1>1, <2>6, <2>7, ReadStep
<1> QED
  BY <1>1, <1>2, <1>3 DEF NextLine

\* The quantity chosen from the listed reservations is positive, within the
\* line, and within the reservation as it was read before the lot is locked.
LEMMA NextReservationInv ==
  ASSUME Inv, NEW q \in Requests, NextReservation(q)
  PROVE  Inv'
<1>1. Op[q] = "confirm"
  BY DEF NextReservation, At, Inv, HandlerInv, HandlerOK
<1>2. CASE Reject(q)
  BY <1>2, RollbackInv DEF Reject
<1>3. CASE Goto(q, "nextLine") /\ UNCHANGED tables
  BY <1>1, <1>3, GotoStep, ReadStep
<1>4. ASSUME NEW p \in tx[q].todo,
             tx' = [tx EXCEPT ![q].todo = @ \ {p}],
             UNCHANGED tables
      PROVE  Inv'
  <2> DEFINE t == [tx[q] EXCEPT !.todo = @ \ {p}]
  <2>1. t \in TxState /\ t.pc = tx[q].pc /\ t.from = tx[q].from
    BY HandlerFacts DEF TxState
  <2>2. t.pc \in Working /\ HandlerOK(q, t)
    BY <1>1, <2>1, HandlerFacts DEF NextReservation, At, Working, HandlerOK
  <2>3. tx' = [tx EXCEPT ![q] = t]
    BY <1>4 DEF Inv, RowsOK, TxState
  <2> QED
    BY <1>4, <2>1, <2>2, <2>3, ReadStep
<1>5. ASSUME NEW p \in tx[q].todo,
             PickQty[p] - tx[q].listed[p] > 0,
             LET toConsume == ToConsume(tx[q].left, PickQty[p] - tx[q].listed[p])
                 found == Seen(q, reservations[p])
             IN  /\ toConsume <= PickQty[p] - found.consumed
                 /\ tx' = [tx EXCEPT ![q].pc = "consume", ![q].at = p,
                                     ![q].todo = @ \ {p}, ![q].qty = toConsume,
                                     ![q].read = found.consumed],
             UNCHANGED tables
      PROVE  Inv'
  <2> DEFINE remaining == PickQty[p] - tx[q].listed[p]
             toConsume == ToConsume(tx[q].left, remaining)
             found == Seen(q, reservations[p]).consumed
             t == [tx[q] EXCEPT !.pc = "consume", !.at = p,
                                !.todo = @ \ {p}, !.qty = toConsume,
                                !.read = found]
  <2>1. p \in Picks /\ tx[q].todo \ {p} \in SUBSET Picks
    BY DEF Inv, RowsOK, TxState
  <2>2. /\ PickQty[p] \in Nat
        /\ tx[q].left \in Nat
        /\ tx[q].listed[p] \in Nat
        /\ found \in Nat
    BY <2>1, QuantitiesAssumption, SeenReservation DEF Inv, RowsOK, TxState
  <2>3. toConsume \in Nat /\ toConsume <= tx[q].left
    BY <1>5, <2>2 DEF ToConsume
  <2>4. found + toConsume <= PickQty[p]
    BY <1>5, <2>2, <2>3
  <2>5. ASSUME NEW u \in TxState, NEW k \in Picks, NEW T \in SUBSET Picks,
               NEW n \in Nat, NEW m \in Nat,
               u.from \in {"draft", "approved"}, m + n <= PickQty[k], n <= u.left
        PROVE  LET v == [u EXCEPT !.pc = "consume", !.at = k, !.todo = T,
                                  !.qty = n, !.read = m]
               IN  v \in TxState /\ HandlerOK(q, v) /\ v.pc \in Working
    BY <1>1, <2>5 DEF TxState, Working, HandlerOK
  <2>6. t \in TxState /\ HandlerOK(q, t) /\ t.pc \in Working
    BY <2>1, <2>2, <2>3, <2>4, <2>5 DEF Inv, RowsOK
  <2>7. tx' = [tx EXCEPT ![q] = t]
    BY <1>5, SMTT(30) DEF Inv, RowsOK, TxState
  <2> QED
    BY <1>5, <2>6, <2>7, ReadStep
<1> QED
  BY <1>2, <1>3, <1>4, <1>5 DEF NextReservation

\* Consumption moves quantity from one counter of the locked lot to the other,
\* and writes a consumed_qty that the handler has found to fit.
LEMMA ConsumeReservationInv ==
  ASSUME Inv, NEW q \in Requests, ConsumeReservation(q)
  PROVE  Inv'
<1> DEFINE p == tx[q].at
           l == PickLot[p]
           qty == tx[q].qty
           newConsumed == NewConsumed(q)
           lot == AfterConsume(lots[l].cur, qty)
           reservation == [reservations[p].cur EXCEPT
                             !.consumed = newConsumed,
                             !.fully = @ \/ newConsumed >= PickQty[p]]
<1>1. /\ p \in Picks
      /\ l \in Lots
      /\ PickQty[p] \in Nat
      /\ Received[l] \in Nat
      /\ lots[l].cur \in LotRow
      /\ LotCheck(l, lots[l].cur)
      /\ reservations[p].cur \in ReservationRow
  <2>1. p \in Picks
    BY HandlerFacts DEF ConsumeReservation, At, HandlerOK
  <2> QED
    BY <2>1, RowFacts
<1>2. /\ tx[q].read \in Nat /\ qty \in Nat /\ tx[q].left \in Nat
      /\ newConsumed \in Nat /\ newConsumed <= PickQty[p]
      /\ qty <= tx[q].left
      /\ Op[q] = "confirm"
  <2>1. /\ tx[q] \in TxState
        /\ HandlerOK(q, tx[q])
        /\ tx[q].pc = "consume"
    BY HandlerFacts DEF ConsumeReservation, At
  <2>2. /\ tx[q].read \in Nat /\ qty \in Nat /\ tx[q].left \in Nat
        /\ newConsumed = tx[q].read + qty
    BY <2>1 DEF TxState, NewConsumed
  <2> QED
    BY <2>1, <2>2 DEF HandlerOK
<1>3. lot \in LotRow /\ LotCheck(l, lot)
  <2>1. ASSUME NEW r \in LotRow, NEW n \in Nat
        PROVE  /\ AfterConsume(r, n) \in LotRow
               /\ AfterConsume(r, n).reserved + AfterConsume(r, n).delivered
                    = r.reserved + r.delivered
    <3> DEFINE less == [r EXCEPT !.reserved = @ - n]
    <3>1. /\ less \in LotRow
          /\ less.reserved = r.reserved - n
          /\ less.delivered = r.delivered
      BY DEF LotRow
    <3>2. AfterConsume(r, n) = [less EXCEPT !.delivered = @ + n]
      BY <3>1 DEF AfterConsume, LotRow
    <3>3. less.delivered + n \in Nat
      BY <3>1 DEF LotRow
    <3> HIDE DEF less
    <3> QED
      BY <3>1, <3>2, <3>3 DEF LotRow
  <2> QED
    BY <1>1, <1>2, <2>1 DEF LotCheck
<1>4. reservation \in ReservationRow /\ ReservationCheck(p, reservation)
  BY <1>1, <1>2 DEF ReservationRow, ReservationCheck
<1>5. CASE /\ lots' = [lots EXCEPT ![l] = Put(q, @, lot)]
           /\ reservations' = [reservations EXCEPT ![p] = Put(q, @, reservation)]
           /\ movements' = [movements EXCEPT
                              ![<<Target[q], p>>] = Put(q, @, MovementQty(q))]
           /\ tx' = [tx EXCEPT ![q].pc = "nextReservation", ![q].left = @ - qty]
           /\ UNCHANGED <<picks, sales, deliveries>>
  <2> DEFINE t == [tx[q] EXCEPT !.pc = "nextReservation", !.left = @ - qty]
  <2>1. ASSUME NEW u \in TxState, NEW n \in Nat, u.from \in {"draft", "approved"}
        PROVE  LET v == [u EXCEPT !.pc = "nextReservation", !.left = n]
               IN  v \in TxState /\ HandlerOK(q, v) /\ v.pc \in Working
    BY <1>2, <2>1 DEF TxState, Working, HandlerOK
  <2>2. tx[q].left - qty \in Nat
    BY <1>2
  <2>3. t \in TxState /\ HandlerOK(q, t) /\ t.pc \in Working
    BY <2>1, <2>2 DEF Inv, RowsOK
  <2>4. tx' = [tx EXCEPT ![q] = t]
    BY <1>5 DEF Inv, RowsOK, TxState
  <2>5. RowsOK' /\ HandlerInv' /\ ChecksNeverFire'
    <3>1. lots' \in [Lots -> Versioned(LotRow, Requests)]
      <4>1. lots \in [Lots -> Versioned(LotRow, Requests)]
        BY DEF Inv, RowsOK
      <4>2. Put(q, lots[l], lot) \in Versioned(LotRow, Requests)
        BY <1>1, <1>3, <4>1, PutType
      <4> QED
        BY <1>1, <1>5, <4>1, <4>2
    <3>2. reservations' \in [Picks -> Versioned(ReservationRow, Requests)]
      <4>1. reservations \in [Picks -> Versioned(ReservationRow, Requests)]
        BY DEF Inv, RowsOK
      <4>2. Put(q, reservations[p], reservation)
              \in Versioned(ReservationRow, Requests)
        BY <1>1, <1>4, <4>1, PutType
      <4> QED
        BY <1>1, <1>5, <4>1, <4>2
    <3>3. <<Target[q], p>> \in Deliveries \X Picks
      BY <1>1, <1>2, WorkloadAssumption DEF TargetsOf
    <3>4. movements' \in [Deliveries \X Picks -> Versioned(Nat, Requests)]
      BY <1>2, <1>5, <3>3, PutType DEF Inv, RowsOK, MovementQty
    <3> QED
      BY <1>5, <2>3, <2>4, <3>1, <3>2, <3>4, HandlerStep DEF Inv, RowsOK
  <2>6. CountersInv'
    <3>1. /\ lots'[l].com = lots[l].com
          /\ lots'[l].cur = lot
          /\ \A m \in Lots \ {l} : lots'[m] = lots[m]
      BY <1>1, <1>5 DEF Inv, RowsOK, Put
    <3>2. /\ reservations'[p].com = reservations[p].com
          /\ reservations'[p].cur = reservation
          /\ \A r \in Picks \ {p} : reservations'[r] = reservations[r]
      BY <1>1, <1>5 DEF Inv, RowsOK, Put
    <3>3. \A m \in Lots : LotCheck(m, lots'[m].com) /\ LotCheck(m, lots'[m].cur)
      BY <1>3, <3>1 DEF Inv, CountersInv
    <3>4. \A r \in Picks : /\ ReservationCheck(r, reservations'[r].com)
                           /\ ReservationCheck(r, reservations'[r].cur)
      BY <1>4, <3>2 DEF Inv, CountersInv
    <3> QED
      BY <3>3, <3>4 DEF CountersInv
  <2> QED
    BY <2>5, <2>6 DEF Inv
<1> QED
  BY <1>3, <1>4, <1>5 DEF ConsumeReservation

-----------------------------------------------------------------------------
(* Types and counters. *)

LEMMA NextInv == Inv /\ [Next]_vars => Inv'
<1> SUFFICES ASSUME Inv, [Next]_vars PROVE Inv'
  OBVIOUS
<1>1. CASE UNCHANGED vars
  BY <1>1 DEF vars, Inv, RowsOK, HandlerInv, HandlerOK, CountersInv, ChecksNeverFire
<1>2. ASSUME NEW q \in Requests, Step(q)
      PROVE  Inv'
  <2>1. CASE ApproveStep(q)
    BY <2>1, ApproveInv, TransitionToApprovedInv, ReserveFromLotInv,
       LinkReservationInv DEF ApproveStep
  <2>2. CASE CancelStep(q)
    BY <2>2, CancelInv, FindReservationInv, ReleaseReservationInv,
       TransitionToCancelledInv DEF CancelStep
  <2>3. CASE PickStep(q)
    BY <2>3, AddItemInv, AddLotInv, RemoveLotInv, SoftDeletePickInv DEF PickStep
  <2>4. CASE DeliverStep(q)
    BY <2>4, CreateDeliveryInv, ConfirmDeliveryInv, TransitionToConfirmedInv,
       NextLineInv, NextReservationInv, ConsumeReservationInv DEF DeliverStep
  <2>5. CASE Commit(q)
    BY <2>5, CommitInv
  <2> QED
    BY <1>2, <2>1, <2>2, <2>3, <2>4, <2>5 DEF Step
<1>3. ASSUME NEW q \in Requests, Crash(q) \/ DeadlockVictim(q)
      PROVE  Inv'
  BY <1>3, RollbackInv DEF Crash, DeadlockVictim
<1> QED
  BY <1>1, <1>2, <1>3 DEF Next, Done

\* Types, what the handlers know of the rows they read, and the CHECK
\* constraints of both versions of every counter, at every statement.
THEOREM Invariance == Spec => []Inv
<1>1. Init => Inv
  BY InitInv
<1>2. Inv /\ [Next]_vars => Inv'
  BY NextInv
<1> QED
  BY <1>1, <1>2, PTL DEF Spec

\* The tables and the handlers' variables keep their types.
THEOREM TypeCorrect == Spec => []TypeOK
<1> DEFINE Rows == items \subseteq Items
<1>1. Init => Rows
  BY DocumentsAssumption DEF Init
<1>2. Rows /\ [Next]_vars => Rows'
  <2> SUFFICES ASSUME Rows, [Next]_vars PROVE Rows'
    OBVIOUS
  <2>1. CASE \E q \in Requests : Commit(q)
    BY <2>1, Workload DEF Commit, ItemsCommitted
  <2>2. CASE UNCHANGED items
    BY <2>2
  <2> QED
    BY <2>1, <2>2 DEF Next, Step, Crash, DeadlockVictim, Done, vars
<1>3. Inv /\ Rows => TypeOK
  BY DEF Inv, TypeOK
<1> QED
  BY <1>1, <1>2, <1>3, Invariance, PTL DEF Spec

\* No request ever runs into a CHECK constraint of the counters, whatever the
\* workload and however the transactions interleave, crash or deadlock.
THEOREM NoCheckFires == Spec => []ChecksNeverFire
<1>1. Inv => ChecksNeverFire
  BY DEF Inv
<1> QED
  BY <1>1, Invariance, PTL

-----------------------------------------------------------------------------
(* Who can hold the lock of a row, at which statement, and what he wrote.  *)

SaleOfPick(p) == ItemSale[PickItem[p]]

\* From the compare-and-set on, an approval holds its sale, and a confirmation
\* its delivery.
Reserving == {"reserve", "link", "commit"}
Shipping  == {"nextLine", "nextReservation", "consume", "commit"}

SaleHeld(s) ==
  LET row == sales[s]
      q   == row.lock
  IN
  /\ q = Nobody => row.cur = row.com
  /\ q # Nobody =>
       /\ Target[q] = s
       /\ \/ /\ Op[q] = "approve" /\ tx[q].pc \in Reserving
             /\ row.com = "draft" /\ row.cur = "approved"
          \/ /\ Op[q] = "cancel" /\ tx[q].pc = "commit"
             /\ row.com \in {"draft", "approved"} /\ row.cur = "cancelled"

DeliveryHeld(d) ==
  LET row == deliveries[d]
      q   == row.lock
  IN
  /\ q = Nobody => row.cur = row.com
  /\ q # Nobody =>
       /\ Target[q] = d
       /\ \/ /\ Op[q] = "create" /\ tx[q].pc = "commit"
             /\ row.com = "none" /\ row.cur = "draft"
          \/ /\ Op[q] = "confirm" /\ tx[q].pc \in Shipping
             /\ row.com = "draft" /\ row.cur = "confirmed"

PickHeld(p) ==
  LET row == picks[p]
      q   == row.lock
  IN
  /\ q = Nobody => row.cur = row.com
  /\ q # Nobody =>
       \/ /\ Op[q] = "addLot" /\ Target[q] = p /\ tx[q].pc = "commit"
          /\ row.com = [live |-> FALSE, linked |-> FALSE]
          /\ row.cur = [live |-> TRUE, linked |-> FALSE]
       \/ /\ Op[q] = "approve" /\ tx[q].pc \in Reserving
          /\ row.com.live /\ row.cur.live
          /\ reservations[p].com.made \/ (reservations[p].lock = q /\ reservations[p].cur.made)
       \/ /\ Op[q] = "removeLot" /\ Target[q] = p /\ tx[q].pc = "commit"
          /\ row.com.live /\ row.cur = [row.com EXCEPT !.live = FALSE]

\* A pick that is linked has a reservation.
PickLinked(p) == picks[p].com.linked => reservations[p].com.made

ReservationHeld(p) ==
  LET row == reservations[p]
      q   == row.lock
  IN
  /\ ~row.com.made => row.com = ReservationMade(FALSE)
  /\ q = Nobody => row.cur = row.com
  /\ q # Nobody =>
       /\ lots[PickLot[p]].lock = q
       /\ row.cur.made
       /\ \/ /\ Op[q] = "approve" /\ Target[q] = SaleOfPick(p)
             /\ sales[Target[q]].lock = q
             /\ ~row.com.made /\ row.cur = ReservationMade(TRUE)
          \/ /\ Op[q] = "cancel" /\ row.com.made
             /\ row.cur.released /\ row.cur.consumed = row.com.consumed
          \/ /\ Op[q] = "confirm" /\ row.com.made
             /\ row.cur.released = row.com.released
             /\ deliveries[Target[q]].lock = q

MovementHeld(d, p) ==
  LET row == movements[<<d, p>>]
      q   == row.lock
  IN
  /\ deliveries[d].com # "confirmed" => row.com = 0
  /\ q = Nobody => row.cur = row.com
  /\ q # Nobody => /\ Op[q] = "confirm" /\ deliveries[d].lock = q
                   /\ lots[PickLot[p]].lock = q

LotHeld(l) ==
  /\ lots[l].lock = Nobody => lots[l].cur = lots[l].com
  /\ lots[l].lock # Nobody => lots[l].lock \in Open

HeldInv ==
  /\ \A s \in Sales : SaleHeld(s)
  /\ \A d \in Deliveries : DeliveryHeld(d)
  /\ \A p \in Picks : PickHeld(p) /\ PickLinked(p) /\ ReservationHeld(p)
  /\ \A d \in Deliveries, p \in Picks : MovementHeld(d, p)
  /\ \A l \in Lots : LotHeld(l)

\* The item has, or will have, a reservation made by q.
Covered(q, i) ==
  \E p \in Picks : /\ PickItem[p] = i
                   /\ \/ p \in tx[q].todo
                      \/ reservations[p].lock = q /\ reservations[p].cur.made

\* What the handler of q knows of the tables at each statement.
Knows(q) ==
  LET t == tx[q] IN
  /\ t.pc \in {"casApproved", "reserve", "link"} => Op[q] = "approve"
  /\ t.pc \in {"findReservation", "release", "casCancelled"} => Op[q] = "cancel"
  /\ t.pc = "softDelete" => Op[q] = "removeLot"
  /\ t.pc = "new" /\ Op[q] = "addLot" =>
       picks[Target[q]] = Fresh([live |-> FALSE, linked |-> FALSE])
  /\ t.pc = "new" /\ Op[q] = "create" => deliveries[Target[q]] = Fresh("none")
  /\ Op[q] = "approve" /\ t.pc \in {"casApproved"} \cup Reserving =>
       /\ t.items # {} /\ \A i \in t.items : Covered(q, i)
       /\ \A p \in t.todo : SaleOfPick(p) = Target[q]
  /\ Op[q] = "approve" /\ t.pc \in Reserving => sales[Target[q]].lock = q
  /\ Op[q] = "approve" /\ t.pc = "commit" => t.todo = {}
  /\ t.pc \in {"reserve", "link"} => t.at \in t.todo
  /\ t.pc = "link" => reservations[t.at].lock = q
  /\ t.pc \in {"findReservation", "release"} =>
       \A p \in t.todo : reservations[p].com.made
  /\ t.pc = "release" => t.at \in t.todo
  /\ t.pc \in {"nextReservation", "consume"} =>
       \A p \in t.todo : reservations[p].com.made
  /\ t.pc = "consume" => reservations[t.at].com.made
  /\ Op[q] = "confirm" /\ t.pc \in Shipping => deliveries[Target[q]].lock = q

KnowsInv == \A q \in Requests : Knows(q)

\* A draft sale has no reservation.
DraftUnreserved ==
  \A p \in Picks : sales[SaleOfPick(p)].com = "draft" => ~reservations[p].com.made

LockInv == HeldInv /\ KnowsInv /\ DraftUnreserved

-----------------------------------------------------------------------------
(* Steps of a request that goes on.                                        *)

\* What such a step does to a row: nothing, or it is locked and written.
Writes(q, old, new) ==
  \/ new = old
  \/ old.lock \in {Nobody, q} /\ new.lock = q /\ new.com = old.com

\* The handler of q goes on, with these values of the variables it loops over.
Goes(q, pc, at, todo) ==
  /\ \A r \in Requests \ {q} : tx'[r] = tx[r]
  /\ tx'[q].pc = pc /\ tx'[q].at = at /\ tx'[q].todo = todo
  /\ tx[q].pc \in ({"new"} \cup Working) \ {"commit"}
  /\ tx'[q].pc \in Working
  /\ tx[q].pc \in Reserving => pc \in Reserving
  /\ tx[q].pc \in {"casApproved"} \cup Reserving => tx'[q].items = tx[q].items
  /\ tx[q].pc \in Shipping => pc \in Shipping
  /\ \A s \in Sales : Writes(q, sales[s], sales'[s])
  /\ \A d \in Deliveries : Writes(q, deliveries[d], deliveries'[d])
  /\ \A p \in Picks : Writes(q, picks[p], picks'[p])
  /\ \A p \in Picks : Writes(q, reservations[p], reservations'[p])
  /\ \A d \in Deliveries, p \in Picks : Writes(q, movements[<<d, p>>], movements'[<<d, p>>])
  /\ \A l \in Lots : Writes(q, lots[l], lots'[l])
  /\ \A p \in Picks : reservations[p].cur.made => reservations'[p].cur.made

LEMMA Documents ==
  /\ \A p \in Picks : PickItem[p] \in Items /\ SaleOfPick(p) \in Sales /\ PickLot[p] \in Lots
  /\ \A p \in Picks : PickQty[p] \in Nat \ {0}
  /\ \A d \in Deliveries : DelivSale[d] \in Sales
  /\ \A d \in Deliveries, i \in Items : DelivQty[d][i] \in Nat
  /\ \A i \in Items : ItemSale[i] \in Sales
BY DocumentsAssumption, QuantitiesAssumption DEF SaleOfPick

\* The tables and the handlers, from the invariant.
LEMMA Tables ==
  ASSUME Inv
  PROVE  /\ lots \in [Lots -> Versioned(LotRow, Requests)]
         /\ reservations \in [Picks -> Versioned(ReservationRow, Requests)]
         /\ picks \in [Picks -> Versioned(PickRow, Requests)]
         /\ sales \in [Sales -> Versioned(SaleStatus, Requests)]
         /\ deliveries \in [Deliveries -> Versioned(DelivStatus, Requests)]
         /\ movements \in [Deliveries \X Picks -> Versioned(Nat, Requests)]
         /\ tx \in [Requests -> TxState]
BY DEF Inv, RowsOK

\* A statement that only reads.
LEMMA Quiet ==
  ASSUME NEW q, UNCHANGED tables
  PROVE  /\ \A s \in Sales : Writes(q, sales[s], sales'[s])
         /\ \A d \in Deliveries : Writes(q, deliveries[d], deliveries'[d])
         /\ \A p \in Picks : Writes(q, picks[p], picks'[p])
         /\ \A p \in Picks : Writes(q, reservations[p], reservations'[p])
         /\ \A d \in Deliveries, p \in Picks : Writes(q, movements[<<d, p>>], movements'[<<d, p>>])
         /\ \A l \in Lots : Writes(q, lots[l], lots'[l])
         /\ \A p \in Picks : reservations[p].cur.made => reservations'[p].cur.made
BY DEF tables, Writes

LEMMA CheckPassed ==
  ASSUME Inv, Inv', NEW q \in Requests
  PROVE  ~Rollback(q, "checkFailed")
<1> SUFFICES ASSUME tx' = [tx EXCEPT ![q] = TxAt("checkFailed")] PROVE FALSE
  BY DEF Rollback, Finish
<1>1. tx'[q].pc = "checkFailed"
  BY Tables, TxAtType DEF Ended
<1> QED
  BY <1>1 DEF Inv, ChecksNeverFire

LEMMA ApproveGoes ==
  ASSUME Inv, NEW q \in Requests, Approve(q), ~Rollback(q, "ended")
  PROVE  /\ Goes(q, "casApproved", tx[q].at, LotPicks(q, Target[q]))
         /\ Op[q] = "approve" /\ tx[q].pc = "new"
         /\ tx'[q].items = ItemsOf(Target[q])
         /\ EveryItemPicked(Target[q], LotPicks(q, Target[q]))
         /\ UNCHANGED tables
<1>1. /\ tx' = [tx EXCEPT ![q].pc = "casApproved", ![q].todo = LotPicks(q, Target[q]),
                          ![q].items = ItemsOf(Target[q])]
      /\ EveryItemPicked(Target[q], LotPicks(q, Target[q]))
      /\ UNCHANGED tables
      /\ Op[q] = "approve" /\ tx[q].pc = "new"
  BY DEF Approve, Reject, CanBegin
<1>2. /\ \A r \in Requests \ {q} : tx'[r] = tx[r]
      /\ tx'[q].pc = "casApproved" /\ tx'[q].at = tx[q].at
      /\ tx'[q].todo = LotPicks(q, Target[q]) /\ tx'[q].items = ItemsOf(Target[q])
  BY <1>1, Tables DEF TxState
<1> QED
  BY <1>1, <1>2, Quiet DEF Goes, Working, Reserving, Shipping

\* The next turn of the reservation loop, or its end.
LEMMA NextPickGoes ==
  ASSUME Inv, NEW q \in Requests, NEW rest, NextPick(q, rest)
  PROVE  /\ \A r \in Requests \ {q} : tx'[r] = tx[r]
         /\ tx'[q].todo = rest /\ tx'[q].items = tx[q].items
         /\ \/ rest = {} /\ tx'[q].pc = "commit" /\ tx'[q].at = tx[q].at
            \/ tx'[q].pc = "reserve" /\ tx'[q].at \in rest
<1>1. CASE rest = {} /\ tx' = [tx EXCEPT ![q].pc = "commit", ![q].todo = {}]
  BY <1>1, Tables DEF TxState
<1>2. ASSUME NEW p \in rest,
             tx' = [tx EXCEPT ![q].pc = "reserve", ![q].at = p, ![q].todo = rest]
      PROVE  /\ \A r \in Requests \ {q} : tx'[r] = tx[r]
             /\ tx'[q].pc = "reserve" /\ tx'[q].at = p /\ tx'[q].todo = rest
             /\ tx'[q].items = tx[q].items
  BY <1>2, Tables DEF TxState
<1> QED
  BY <1>1, <1>2 DEF NextPick

LEMMA TransitionToApprovedGoes ==
  ASSUME Inv, NEW q \in Requests, TransitionToApproved(q), ~Rollback(q, "ended")
  PROVE  /\ tx[q].pc = "casApproved"
         /\ Goes(q, tx'[q].pc, tx'[q].at, tx[q].todo)
         /\ \/ tx[q].todo = {} /\ tx'[q].pc = "commit"
            \/ tx'[q].pc = "reserve" /\ tx'[q].at \in tx[q].todo
         /\ Seen(q, sales[Target[q]]) = "draft" /\ Lockable(q, sales[Target[q]])
         /\ sales' = [sales EXCEPT ![Target[q]] = Put(q, @, "approved")]
         /\ UNCHANGED <<lots, reservations, picks, deliveries, movements>>
<1>1. /\ tx[q].pc = "casApproved"
      /\ Seen(q, sales[Target[q]]) = "draft" /\ Lockable(q, sales[Target[q]])
      /\ sales' = [sales EXCEPT ![Target[q]] = Put(q, @, "approved")]
      /\ UNCHANGED <<lots, reservations, picks, deliveries, movements>>
      /\ NextPick(q, tx[q].todo)
  BY DEF TransitionToApproved, Reject, At
<1>2. \A s \in Sales : Writes(q, sales[s], sales'[s])
  BY <1>1, Tables DEF Writes, Put, Lockable
<1> QED
  BY <1>1, <1>2, NextPickGoes DEF Goes, Working, Reserving, Shipping, Writes

LEMMA ReserveFromLotGoes ==
  ASSUME Inv, LockInv, NEW q \in Requests, ReserveFromLot(q), ~Rollback(q, "ended")
  PROVE  LET p   == tx[q].at
             l   == PickLot[p]
             lot == AfterReserve(lots[l].cur, PickQty[p])
         IN
         /\ tx[q].pc = "reserve" /\ p \in Picks /\ l \in Lots
         /\ Goes(q, "link", p, tx[q].todo)
         /\ Lockable(q, lots[l]) /\ Lockable(q, reservations[p])
         /\ ~reservations[p].com.made
         /\ lots' = [lots EXCEPT ![l] = Put(q, @, lot)]
         /\ reservations' = [reservations EXCEPT ![p] = Put(q, @, ReservationMade(TRUE))]
         /\ UNCHANGED <<picks, sales, deliveries, movements>>
<1> DEFINE p   == tx[q].at
           l   == PickLot[p]
           lot == AfterReserve(lots[l].cur, PickQty[p])
<1>1. /\ tx[q].pc = "reserve" /\ p \in Picks /\ l \in Lots
      /\ Op[q] = "approve" /\ SaleOfPick(p) = Target[q] /\ Target[q] \in Sales
      /\ sales[Target[q]].lock = q
  <2>1. tx[q].pc = "reserve" /\ p \in Picks
    BY HandlerFacts DEF ReserveFromLot, At, HandlerOK
  <2>2. /\ Op[q] = "approve" /\ SaleOfPick(p) = Target[q]
        /\ sales[Target[q]].lock = q
    BY <2>1 DEF LockInv, KnowsInv, Knows, Reserving
  <2> QED
    BY <2>1, <2>2, Documents, Workload
<1>2. /\ Lockable(q, lots[l])
      /\ lots' = [lots EXCEPT ![l] = Put(q, @, lot)]
      /\ reservations' = [reservations EXCEPT ![p] = Put(q, @, ReservationMade(TRUE))]
      /\ Goto(q, "link")
      /\ UNCHANGED <<picks, sales, deliveries, movements>>
  <2>1. Inv' /\ ~Rollback(q, "checkFailed")
    BY ReserveFromLotInv, CheckPassed
  <2> QED
    BY <2>1 DEF ReserveFromLot, Reject
<1>3. Lockable(q, reservations[p]) /\ ~reservations[p].com.made
  <2>1. sales[Target[q]].com = "draft"
    BY <1>1, Workload DEF LockInv, HeldInv, SaleHeld
  <2>2. ~reservations[p].com.made
    BY <1>1, <2>1 DEF LockInv, DraftUnreserved
  <2>3. ReservationHeld(p) /\ SaleHeld(Target[q])
    BY <1>1 DEF LockInv, HeldInv
  <2>4. reservations[p].lock \in {Nobody, q}
    BY <1>1, <2>2, <2>3 DEF ReservationHeld
  <2> QED
    BY <2>2, <2>4 DEF Lockable
<1>4. /\ \A r \in Requests \ {q} : tx'[r] = tx[r]
      /\ tx'[q].pc = "link" /\ tx'[q].at = p /\ tx'[q].todo = tx[q].todo
      /\ tx'[q].items = tx[q].items
  BY <1>2, Tables DEF Goto, TxState
<1>5. /\ \A m \in Lots : Writes(q, lots[m], lots'[m])
      /\ \A r \in Picks : Writes(q, reservations[r], reservations'[r])
      /\ \A r \in Picks : reservations[r].cur.made => reservations'[r].cur.made
  BY <1>2, <1>3, Tables DEF Writes, Put, Lockable, ReservationMade
<1> QED
  BY <1>1, <1>2, <1>3, <1>4, <1>5 DEF Goes, Working, Reserving, Shipping, Writes

LEMMA LinkReservationGoes ==
  ASSUME Inv, NEW q \in Requests, LinkReservation(q)
  PROVE  LET p == tx[q].at IN
         /\ tx[q].pc = "link" /\ p \in Picks
         /\ Goes(q, tx'[q].pc, tx'[q].at, tx[q].todo \ {p})
         /\ \/ tx[q].todo \ {p} = {} /\ tx'[q].pc = "commit"
            \/ tx'[q].pc = "reserve" /\ tx'[q].at \in tx[q].todo \ {p}
         /\ \/ /\ Seen(q, picks[p]).live /\ Lockable(q, picks[p])
               /\ picks' = [picks EXCEPT ![p] = Put(q, @, [@.cur EXCEPT !.linked = TRUE])]
            \/ ~Seen(q, picks[p]).live /\ UNCHANGED picks
         /\ UNCHANGED <<lots, reservations, sales, deliveries, movements>>
<1> DEFINE p == tx[q].at
<1>1. /\ tx[q].pc = "link" /\ p \in Picks
      /\ NextPick(q, tx[q].todo \ {p})
      /\ \/ /\ Seen(q, picks[p]).live /\ Lockable(q, picks[p])
            /\ picks' = [picks EXCEPT ![p] = Put(q, @, [@.cur EXCEPT !.linked = TRUE])]
         \/ ~Seen(q, picks[p]).live /\ UNCHANGED picks
      /\ UNCHANGED <<lots, reservations, sales, deliveries, movements>>
  BY HandlerFacts DEF LinkReservation, At, HandlerOK
<1>2. \A r \in Picks : Writes(q, picks[r], picks'[r])
  BY <1>1, Tables DEF Writes, Put, Lockable
<1> QED
  BY <1>1, <1>2, NextPickGoes DEF Goes, Working, Reserving, Shipping, Writes

LEMMA CancelGoes ==
  ASSUME Inv, NEW q \in Requests, Cancel(q), ~Rollback(q, "ended")
  PROVE  /\ Op[q] = "cancel" /\ tx[q].pc = "new"
         /\ Goes(q, "findReservation", tx[q].at,
                 {p \in LotPicks(q, Target[q]) : Seen(q, picks[p]).linked})
         /\ ~HasDelivery(q, Target[q])
         /\ UNCHANGED tables
<1> DEFINE linked == {p \in LotPicks(q, Target[q]) : Seen(q, picks[p]).linked}
<1>1. /\ Op[q] = "cancel" /\ tx[q].pc = "new"
      /\ ~HasDelivery(q, Target[q])
      /\ tx' = [tx EXCEPT ![q].pc = "findReservation", ![q].todo = linked,
                          ![q].from = Seen(q, sales[Target[q]])]
      /\ UNCHANGED tables
  BY DEF Cancel, Reject, CanBegin
<1>2. /\ \A r \in Requests \ {q} : tx'[r] = tx[r]
      /\ tx'[q].pc = "findReservation" /\ tx'[q].at = tx[q].at /\ tx'[q].todo = linked
  BY <1>1, Tables DEF TxState
<1> QED
  BY <1>1, <1>2, Quiet DEF Goes, Working, Reserving, Shipping

LEMMA FindReservationGoes ==
  ASSUME Inv, NEW q \in Requests, FindReservation(q), ~Rollback(q, "ended")
  PROVE  /\ tx[q].pc = "findReservation"
         /\ Goes(q, tx'[q].pc, tx'[q].at, tx[q].todo)
         /\ \/ /\ tx'[q].pc = "release" /\ tx'[q].at \in tx[q].todo
               /\ LET found == Seen(q, reservations[tx'[q].at]) IN
                  /\ ~found.released
                  /\ tx'[q].read = found.consumed
            \/ tx[q].todo = {} /\ tx'[q].pc = "casCancelled"
         /\ UNCHANGED tables
<1>1. tx[q].pc = "findReservation" /\ UNCHANGED tables
  BY DEF FindReservation, At, Reject
<1>2. CASE tx[q].todo = {} /\ Goto(q, "casCancelled")
  <2>1. /\ \A r \in Requests \ {q} : tx'[r] = tx[r]
        /\ tx'[q].pc = "casCancelled" /\ tx'[q].at = tx[q].at /\ tx'[q].todo = tx[q].todo
    BY <1>2, Tables DEF Goto, TxState
  <2> QED
    BY <1>1, <1>2, <2>1, Quiet DEF Goes, Working, Reserving, Shipping
<1>3. ASSUME NEW p \in tx[q].todo,
             LET found == Seen(q, reservations[p]) IN
             /\ ~found.released
             /\ tx' = [tx EXCEPT ![q].pc = "release", ![q].at = p,
                                 ![q].read = found.consumed]
      PROVE  /\ Goes(q, "release", p, tx[q].todo)
             /\ tx'[q].pc = "release" /\ tx'[q].at = p
             /\ ~Seen(q, reservations[p]).released
             /\ tx'[q].read = Seen(q, reservations[p]).consumed
  <2>1. /\ \A r \in Requests \ {q} : tx'[r] = tx[r]
        /\ tx'[q].pc = "release" /\ tx'[q].at = p /\ tx'[q].todo = tx[q].todo
        /\ tx'[q].read = Seen(q, reservations[p]).consumed
    BY <1>3, Tables DEF TxState
  <2> QED
    BY <1>1, <1>3, <2>1, Quiet DEF Goes, Working, Reserving, Shipping
<1> QED
  BY <1>1, <1>2, <1>3 DEF FindReservation, Reject

LEMMA ReleaseReservationGoes ==
  ASSUME Inv, NEW q \in Requests, ReleaseReservation(q)
  PROVE  LET p   == tx[q].at
             l   == PickLot[p]
             lot == AfterRelease(lots[l].cur, PickQty[p] - tx[q].read)
         IN
         /\ tx[q].pc = "release" /\ p \in Picks /\ l \in Lots
         /\ Goes(q, "findReservation", p, tx[q].todo \ {p})
         /\ Lockable(q, lots[l]) /\ Lockable(q, reservations[p])
         /\ lots' = [lots EXCEPT ![l] = Put(q, @, lot)]
         /\ reservations' =
              [reservations EXCEPT ![p] = Put(q, @, [@.cur EXCEPT !.released = TRUE])]
         /\ UNCHANGED <<picks, sales, deliveries, movements>>
<1> DEFINE p   == tx[q].at
           l   == PickLot[p]
           lot == AfterRelease(lots[l].cur, PickQty[p] - tx[q].read)
<1>1. tx[q].pc = "release" /\ p \in Picks /\ l \in Lots
  BY HandlerFacts, Documents DEF ReleaseReservation, At, HandlerOK
<1>2. /\ Lockable(q, lots[l]) /\ Lockable(q, reservations[p])
      /\ lots' = [lots EXCEPT ![l] = Put(q, @, lot)]
      /\ reservations' =
           [reservations EXCEPT ![p] = Put(q, @, [@.cur EXCEPT !.released = TRUE])]
      /\ tx' = [tx EXCEPT ![q].pc = "findReservation", ![q].todo = @ \ {p}]
      /\ UNCHANGED <<picks, sales, deliveries, movements>>
  <2>1. Inv' /\ ~Rollback(q, "checkFailed")
    BY ReleaseReservationInv, CheckPassed
  <2> QED
    BY <2>1 DEF ReleaseReservation
<1>3. /\ \A r \in Requests \ {q} : tx'[r] = tx[r]
      /\ tx'[q].pc = "findReservation" /\ tx'[q].at = p /\ tx'[q].todo = tx[q].todo \ {p}
  BY <1>2, Tables DEF TxState
<1>4. /\ \A m \in Lots : Writes(q, lots[m], lots'[m])
      /\ \A r \in Picks : Writes(q, reservations[r], reservations'[r])
      /\ \A r \in Picks : reservations[r].cur.made => reservations'[r].cur.made
  BY <1>1, <1>2, Tables DEF Writes, Put, Lockable, Versioned, ReservationRow
<1> QED
  BY <1>1, <1>2, <1>3, <1>4 DEF Goes, Working, Reserving, Shipping, Writes

LEMMA TransitionToCancelledGoes ==
  ASSUME Inv, NEW q \in Requests, TransitionToCancelled(q), ~Rollback(q, "ended")
  PROVE  /\ tx[q].pc = "casCancelled"
         /\ Goes(q, "commit", tx[q].at, tx[q].todo)
         /\ Seen(q, sales[Target[q]]) \in {"draft", "approved"}
         /\ Lockable(q, sales[Target[q]])
         /\ sales' = [sales EXCEPT ![Target[q]] = Put(q, @, "cancelled")]
         /\ UNCHANGED <<lots, reservations, picks, deliveries, movements>>
<1>1. /\ tx[q].pc = "casCancelled"
      /\ Seen(q, sales[Target[q]]) \in {"draft", "approved"}
      /\ Lockable(q, sales[Target[q]])
      /\ sales' = [sales EXCEPT ![Target[q]] = Put(q, @, "cancelled")]
      /\ Goto(q, "commit")
      /\ UNCHANGED <<lots, reservations, picks, deliveries, movements>>
  BY HandlerFacts DEF TransitionToCancelled, Reject, At
<1>2. /\ \A r \in Requests \ {q} : tx'[r] = tx[r]
      /\ tx'[q].pc = "commit" /\ tx'[q].at = tx[q].at /\ tx'[q].todo = tx[q].todo
  BY <1>1, Tables DEF Goto, TxState
<1>3. \A s \in Sales : Writes(q, sales[s], sales'[s])
  BY <1>1, Tables DEF Writes, Put, Lockable
<1> QED
  BY <1>1, <1>2, <1>3 DEF Goes, Working, Reserving, Shipping, Writes

LEMMA AddItemGoes ==
  ASSUME Inv, NEW q \in Requests, AddItem(q), ~Rollback(q, "ended")
  PROVE  /\ Op[q] = "addItem" /\ tx[q].pc = "new"
         /\ Goes(q, "commit", tx[q].at, tx[q].todo)
         /\ UNCHANGED tables
<1>1. /\ Op[q] = "addItem" /\ tx[q].pc = "new"
      /\ Goto(q, "commit") /\ UNCHANGED tables
  BY DEF AddItem, Reject, CanBegin
<1>2. /\ \A r \in Requests \ {q} : tx'[r] = tx[r]
      /\ tx'[q].pc = "commit" /\ tx'[q].at = tx[q].at /\ tx'[q].todo = tx[q].todo
  BY <1>1, Tables DEF Goto, TxState
<1> QED
  BY <1>1, <1>2, Quiet DEF Goes, Working, Reserving, Shipping

LEMMA AddLotGoes ==
  ASSUME Inv, LockInv, NEW q \in Requests, AddLot(q), ~Rollback(q, "ended")
  PROVE  LET p == Target[q] IN
         /\ Op[q] = "addLot" /\ tx[q].pc = "new" /\ p \in Picks
         /\ Goes(q, "commit", tx[q].at, tx[q].todo)
         /\ picks[p] = Fresh([live |-> FALSE, linked |-> FALSE])
         /\ picks' = [picks EXCEPT ![p] = Put(q, @, [live |-> TRUE, linked |-> FALSE])]
         /\ UNCHANGED <<lots, reservations, sales, deliveries, movements>>
<1> DEFINE p == Target[q]
<1>1. /\ Op[q] = "addLot" /\ tx[q].pc = "new"
      /\ picks' = [picks EXCEPT ![p] = Put(q, @, [live |-> TRUE, linked |-> FALSE])]
      /\ Goto(q, "commit")
      /\ UNCHANGED <<lots, reservations, sales, deliveries, movements>>
  BY DEF AddLot, Reject, CanBegin
<1>2. p \in Picks /\ picks[p] = Fresh([live |-> FALSE, linked |-> FALSE])
  BY <1>1, Workload DEF LockInv, KnowsInv, Knows
<1>3. /\ \A r \in Requests \ {q} : tx'[r] = tx[r]
      /\ tx'[q].pc = "commit" /\ tx'[q].at = tx[q].at /\ tx'[q].todo = tx[q].todo
  BY <1>1, Tables DEF Goto, TxState
<1>4. \A r \in Picks : Writes(q, picks[r], picks'[r])
  <2>1. picks[p].lock = Nobody /\ picks \in [Picks -> Versioned(PickRow, Requests)]
    BY <1>2, Tables DEF Fresh
  <2>2. \A r \in Picks : picks'[r] = IF r = p
                        THEN Put(q, picks[p], [live |-> TRUE, linked |-> FALSE])
                        ELSE picks[r]
    BY <1>1, <1>2, <2>1
  <2> QED
    BY <2>1, <2>2 DEF Writes, Put
<1> QED
  BY <1>1, <1>2, <1>3, <1>4 DEF Goes, Working, Reserving, Shipping, Writes

LEMMA RemoveLotGoes ==
  ASSUME Inv, NEW q \in Requests, RemoveLot(q), ~Rollback(q, "ended")
  PROVE  /\ Op[q] = "removeLot" /\ tx[q].pc = "new" /\ Target[q] \in Picks
         /\ Goes(q, "softDelete", tx[q].at, tx[q].todo)
         /\ Removable(Seen(q, picks[Target[q]]))
         /\ UNCHANGED tables
<1>1. /\ Op[q] = "removeLot" /\ tx[q].pc = "new"
      /\ Removable(Seen(q, picks[Target[q]]))
      /\ Goto(q, "softDelete") /\ UNCHANGED tables
  BY DEF RemoveLot, Reject, CanBegin
<1>2. /\ \A r \in Requests \ {q} : tx'[r] = tx[r]
      /\ tx'[q].pc = "softDelete" /\ tx'[q].at = tx[q].at /\ tx'[q].todo = tx[q].todo
  BY <1>1, Tables DEF Goto, TxState
<1> QED
  BY <1>1, <1>2, Quiet, Workload DEF Goes, Working, Reserving, Shipping

LEMMA SoftDeletePickGoes ==
  ASSUME Inv, LockInv, NEW q \in Requests, SoftDeletePick(q), ~Rollback(q, "ended")
  PROVE  LET p == Target[q] IN
         /\ Op[q] = "removeLot" /\ tx[q].pc = "softDelete" /\ p \in Picks
         /\ Goes(q, "commit", tx[q].at, tx[q].todo)
         /\ Seen(q, picks[p]).live /\ Lockable(q, picks[p])
         /\ picks' = [picks EXCEPT ![p] = Put(q, @, [@.cur EXCEPT !.live = FALSE])]
         /\ UNCHANGED <<lots, reservations, sales, deliveries, movements>>
<1> DEFINE p == Target[q]
<1>1. /\ tx[q].pc = "softDelete"
      /\ Seen(q, picks[p]).live /\ Lockable(q, picks[p])
      /\ picks' = [picks EXCEPT ![p] = Put(q, @, [@.cur EXCEPT !.live = FALSE])]
      /\ Goto(q, "commit")
      /\ UNCHANGED <<lots, reservations, sales, deliveries, movements>>
  BY DEF SoftDeletePick, Reject, At
<1>2. Op[q] = "removeLot" /\ p \in Picks
  BY <1>1, Workload DEF LockInv, KnowsInv, Knows
<1>3. /\ \A r \in Requests \ {q} : tx'[r] = tx[r]
      /\ tx'[q].pc = "commit" /\ tx'[q].at = tx[q].at /\ tx'[q].todo = tx[q].todo
  BY <1>1, Tables DEF Goto, TxState
<1>4. \A r \in Picks : Writes(q, picks[r], picks'[r])
  BY <1>1, <1>2, Tables DEF Writes, Put, Lockable
<1> QED
  BY <1>1, <1>2, <1>3, <1>4 DEF Goes, Working, Reserving, Shipping, Writes

LEMMA CreateDeliveryGoes ==
  ASSUME Inv, LockInv, NEW q \in Requests, CreateDelivery(q), ~Rollback(q, "ended")
  PROVE  LET d == Target[q] IN
         /\ Op[q] = "create" /\ tx[q].pc = "new" /\ d \in Deliveries
         /\ Goes(q, "commit", tx[q].at, tx[q].todo)
         /\ Seen(q, sales[DelivSale[d]]) = "approved"
         /\ \A i \in LinesOf(d) : ItemSale[i] = DelivSale[d]
         /\ deliveries[d] = Fresh("none")
         /\ deliveries' = [deliveries EXCEPT ![d] = Put(q, @, "draft")]
         /\ UNCHANGED <<lots, reservations, picks, sales, movements>>
<1> DEFINE d == Target[q]
<1>1. /\ Op[q] = "create" /\ tx[q].pc = "new"
      /\ Seen(q, sales[DelivSale[d]]) = "approved"
      /\ \A i \in LinesOf(d) : ItemSale[i] = DelivSale[d]
      /\ deliveries' = [deliveries EXCEPT ![d] = Put(q, @, "draft")]
      /\ Goto(q, "commit")
      /\ UNCHANGED <<lots, reservations, picks, sales, movements>>
  BY DEF CreateDelivery, Reject, CanBegin
<1>2. d \in Deliveries /\ deliveries[d] = Fresh("none")
  BY <1>1, Workload DEF LockInv, KnowsInv, Knows
<1>3. /\ \A r \in Requests \ {q} : tx'[r] = tx[r]
      /\ tx'[q].pc = "commit" /\ tx'[q].at = tx[q].at /\ tx'[q].todo = tx[q].todo
  BY <1>1, Tables DEF Goto, TxState
<1>4. \A e \in Deliveries : Writes(q, deliveries[e], deliveries'[e])
  BY <1>1, <1>2, Tables DEF Writes, Put, Fresh
<1> QED
  BY <1>1, <1>2, <1>3, <1>4 DEF Goes, Working, Reserving, Shipping, Writes

LEMMA ConfirmDeliveryGoes ==
  ASSUME Inv, NEW q \in Requests, ConfirmDelivery(q), ~Rollback(q, "ended")
  PROVE  /\ Op[q] = "confirm" /\ tx[q].pc = "new"
         /\ Goes(q, "casConfirmed", tx[q].at, tx[q].todo)
         /\ UNCHANGED tables
<1>1. /\ Op[q] = "confirm" /\ tx[q].pc = "new"
      /\ Goto(q, "casConfirmed") /\ UNCHANGED tables
  BY DEF ConfirmDelivery, Reject, CanBegin
<1>2. /\ \A r \in Requests \ {q} : tx'[r] = tx[r]
      /\ tx'[q].pc = "casConfirmed" /\ tx'[q].at = tx[q].at /\ tx'[q].todo = tx[q].todo
  BY <1>1, Tables DEF Goto, TxState
<1> QED
  BY <1>1, <1>2, Quiet DEF Goes, Working, Reserving, Shipping

LEMMA TransitionToConfirmedGoes ==
  ASSUME Inv, NEW q \in Requests, TransitionToConfirmed(q), ~Rollback(q, "ended")
  PROVE  LET d == Target[q] IN
         /\ Op[q] = "confirm" /\ tx[q].pc = "casConfirmed" /\ d \in Deliveries
         /\ Goes(q, "nextLine", tx[q].at, tx[q].todo)
         /\ tx'[q].items = LinesOf(d)
         /\ Seen(q, deliveries[d]) = "draft" /\ Lockable(q, deliveries[d])
         /\ deliveries' = [deliveries EXCEPT ![d] = Put(q, @, "confirmed")]
         /\ UNCHANGED <<lots, reservations, picks, sales, movements>>
<1> DEFINE d == Target[q]
<1>1. /\ tx[q].pc = "casConfirmed"
      /\ Seen(q, deliveries[d]) = "draft" /\ Lockable(q, deliveries[d])
      /\ deliveries' = [deliveries EXCEPT ![d] = Put(q, @, "confirmed")]
      /\ tx' = [tx EXCEPT ![q].pc = "nextLine", ![q].items = LinesOf(d)]
      /\ UNCHANGED <<lots, reservations, picks, sales, movements>>
  BY DEF TransitionToConfirmed, Reject, At
<1>2. Op[q] = "confirm" /\ d \in Deliveries
  BY <1>1, HandlerFacts, Workload DEF HandlerOK
<1>3. /\ \A r \in Requests \ {q} : tx'[r] = tx[r]
      /\ tx'[q].pc = "nextLine" /\ tx'[q].at = tx[q].at /\ tx'[q].todo = tx[q].todo
      /\ tx'[q].items = LinesOf(d)
  BY <1>1, Tables DEF TxState
<1>4. \A e \in Deliveries : Writes(q, deliveries[e], deliveries'[e])
  BY <1>1, <1>2, Tables DEF Writes, Put, Lockable
<1> QED
  BY <1>1, <1>2, <1>3, <1>4 DEF Goes, Working, Reserving, Shipping, Writes

LEMMA NextLineGoes ==
  ASSUME Inv, NEW q \in Requests, NextLine(q)
  PROVE  /\ Op[q] = "confirm" /\ tx[q].pc = "nextLine" /\ Target[q] \in Deliveries
         /\ Goes(q, tx'[q].pc, tx'[q].at, tx'[q].todo)
         /\ \/ /\ tx'[q].pc = "nextReservation"
               /\ \E i \in tx[q].items :
                    /\ tx'[q].items = tx[q].items \ {i}
                    /\ tx'[q].left = DelivQty[Target[q]][i]
                    /\ tx'[q].todo = ActiveReservations(q, i)
            \/ tx[q].items = {} /\ tx'[q].pc = "commit" /\ tx'[q].items = {}
         /\ UNCHANGED tables
<1>1. /\ Op[q] = "confirm" /\ tx[q].pc = "nextLine" /\ Target[q] \in Deliveries
      /\ UNCHANGED tables
  BY HandlerFacts, Workload DEF NextLine, At, HandlerOK
<1>2. CASE tx[q].items = {} /\ Goto(q, "commit")
  <2>1. /\ \A r \in Requests \ {q} : tx'[r] = tx[r]
        /\ tx'[q].pc = "commit" /\ tx'[q].items = {}
    BY <1>2, Tables DEF Goto, TxState
  <2> QED
    BY <1>1, <1>2, <2>1, Quiet DEF Goes, Working, Reserving, Shipping
<1>3. ASSUME NEW i \in tx[q].items,
             tx' = [tx EXCEPT ![q].pc = "nextReservation",
                              ![q].items = @ \ {i},
                              ![q].left = DelivQty[Target[q]][i],
                              ![q].todo = ActiveReservations(q, i),
                              ![q].listed =
                                [p \in Picks |-> Seen(q, reservations[p]).consumed]]
      PROVE  /\ Goes(q, tx'[q].pc, tx'[q].at, tx'[q].todo)
             /\ tx'[q].pc = "nextReservation"
             /\ tx'[q].items = tx[q].items \ {i}
             /\ tx'[q].left = DelivQty[Target[q]][i]
             /\ tx'[q].todo = ActiveReservations(q, i)
  <2>1. /\ \A r \in Requests \ {q} : tx'[r] = tx[r]
        /\ tx'[q].pc = "nextReservation"
        /\ tx'[q].items = tx[q].items \ {i}
        /\ tx'[q].left = DelivQty[Target[q]][i]
        /\ tx'[q].todo = ActiveReservations(q, i)
    BY <1>3, Tables DEF TxState
  <2> QED
    BY <1>1, <2>1, Quiet DEF Goes, Working, Reserving, Shipping
<1> QED
  BY <1>1, <1>2, <1>3 DEF NextLine

LEMMA NextReservationGoes ==
  ASSUME Inv, NEW q \in Requests, NextReservation(q), ~Rollback(q, "ended")
  PROVE  /\ Op[q] = "confirm" /\ tx[q].pc = "nextReservation" /\ Target[q] \in Deliveries
         /\ Goes(q, tx'[q].pc, tx'[q].at, tx'[q].todo)
         /\ tx'[q].items = tx[q].items /\ tx'[q].left = tx[q].left
         /\ \/ tx[q].left = 0 /\ tx'[q].pc = "nextLine" /\ tx'[q].todo = tx[q].todo
            \/ /\ tx'[q].pc = "nextReservation"
               /\ \E p \in tx[q].todo : tx'[q].todo = tx[q].todo \ {p}
            \/ /\ tx'[q].pc = "consume"
               /\ tx'[q].at \in tx[q].todo /\ tx'[q].todo = tx[q].todo \ {tx'[q].at}
               /\ tx'[q].qty \in Nat \ {0} /\ tx'[q].qty <= tx[q].left
               /\ LET found == Seen(q, reservations[tx'[q].at]) IN
                  /\ ~found.released
                  /\ tx'[q].read = found.consumed
         /\ UNCHANGED tables
<1>1. /\ Op[q] = "confirm" /\ tx[q].pc = "nextReservation" /\ Target[q] \in Deliveries
      /\ UNCHANGED tables
  BY HandlerFacts, Workload DEF NextReservation, At, HandlerOK, Reject
<1>2. CASE tx[q].left = 0 /\ Goto(q, "nextLine")
  <2>1. /\ \A r \in Requests \ {q} : tx'[r] = tx[r]
        /\ tx'[q].pc = "nextLine" /\ tx'[q].todo = tx[q].todo
        /\ tx'[q].items = tx[q].items /\ tx'[q].left = tx[q].left
    BY <1>2, Tables DEF Goto, TxState
  <2> QED
    BY <1>1, <1>2, <2>1, Quiet DEF Goes, Working, Reserving, Shipping
<1>3. ASSUME NEW p \in tx[q].todo, tx' = [tx EXCEPT ![q].todo = @ \ {p}]
      PROVE  /\ Goes(q, tx'[q].pc, tx'[q].at, tx'[q].todo)
             /\ tx'[q].items = tx[q].items /\ tx'[q].left = tx[q].left
             /\ tx'[q].pc = "nextReservation"
             /\ tx'[q].todo = tx[q].todo \ {p}
  <2>1. /\ \A r \in Requests \ {q} : tx'[r] = tx[r]
        /\ tx'[q].pc = "nextReservation" /\ tx'[q].todo = tx[q].todo \ {p}
        /\ tx'[q].items = tx[q].items /\ tx'[q].left = tx[q].left
    BY <1>1, <1>3, Tables DEF TxState
  <2> QED
    BY <1>1, <2>1, Quiet, SMTT(30) DEF Goes, Working, Reserving, Shipping
<1>4. ASSUME NEW p \in tx[q].todo, tx[q].left # 0,
             LET remaining == PickQty[p] - tx[q].listed[p]
                 found     == Seen(q, reservations[p])
             IN  /\ remaining > 0
                 /\ ~found.released
                 /\ tx' = [tx EXCEPT ![q].pc = "consume", ![q].at = p,
                                     ![q].todo = @ \ {p},
                                     ![q].qty = ToConsume(tx[q].left, remaining),
                                     ![q].read = found.consumed]
      PROVE  /\ Goes(q, tx'[q].pc, tx'[q].at, tx'[q].todo)
             /\ tx'[q].items = tx[q].items /\ tx'[q].left = tx[q].left
             /\ tx'[q].pc = "consume"
             /\ tx'[q].at = p /\ tx'[q].todo = tx[q].todo \ {p}
             /\ tx'[q].qty \in Nat \ {0} /\ tx'[q].qty <= tx[q].left
             /\ ~Seen(q, reservations[p]).released
             /\ tx'[q].read = Seen(q, reservations[p]).consumed
  <2> DEFINE remaining == PickQty[p] - tx[q].listed[p]
  <2>1. /\ \A r \in Requests \ {q} : tx'[r] = tx[r]
        /\ tx'[q].pc = "consume" /\ tx'[q].at = p /\ tx'[q].todo = tx[q].todo \ {p}
        /\ tx'[q].items = tx[q].items /\ tx'[q].left = tx[q].left
        /\ tx'[q].qty = ToConsume(tx[q].left, remaining)
        /\ tx'[q].read = Seen(q, reservations[p]).consumed
    BY <1>4, Tables DEF TxState
  <2>2. tx[q].left \in Nat \ {0} /\ remaining \in Int /\ remaining > 0
    BY <1>4, Tables, Documents DEF TxState
  <2>3. tx'[q].qty \in Nat \ {0} /\ tx'[q].qty <= tx[q].left
    BY <2>1, <2>2 DEF ToConsume
  <2> QED
    BY <1>1, <1>4, <2>1, <2>3, Quiet DEF Goes, Working, Reserving, Shipping
<1> QED
  BY <1>1, <1>2, <1>3, <1>4 DEF NextReservation, Reject, LineDone

LEMMA ConsumeReservationGoes ==
  ASSUME Inv, LockInv, NEW q \in Requests, ConsumeReservation(q)
  PROVE  LET d   == Target[q]
             p   == tx[q].at
             l   == PickLot[p]
             qty == tx[q].qty
             lot == AfterConsume(lots[l].cur, qty)
             new == NewConsumed(q)
         IN
         /\ Op[q] = "confirm" /\ tx[q].pc = "consume"
         /\ d \in Deliveries /\ p \in Picks /\ l \in Lots
         /\ Goes(q, "nextReservation", p, tx[q].todo)
         /\ tx'[q].items = tx[q].items /\ tx'[q].left = tx[q].left - qty
         /\ deliveries[d].lock = q
         /\ Lockable(q, lots[l]) /\ Lockable(q, reservations[p])
         /\ lots' = [lots EXCEPT ![l] = Put(q, @, lot)]
         /\ reservations' =
              [reservations EXCEPT ![p] = Put(q, reservations[p], [reservations[p].cur EXCEPT
                 !.consumed = new, !.fully = @ \/ new >= PickQty[p]])]
         /\ movements' = [movements EXCEPT ![<<d, p>>] = Put(q, @, qty)]
         /\ UNCHANGED <<picks, sales, deliveries>>
<1> DEFINE d   == Target[q]
           p   == tx[q].at
           l   == PickLot[p]
           qty == tx[q].qty
           lot == AfterConsume(lots[l].cur, qty)
           new == NewConsumed(q)
<1>1. /\ Op[q] = "confirm" /\ tx[q].pc = "consume"
      /\ d \in Deliveries /\ p \in Picks /\ l \in Lots
  BY HandlerFacts, Workload, Documents DEF ConsumeReservation, At, HandlerOK
<1>2. deliveries[d].lock = q
  BY <1>1 DEF LockInv, KnowsInv, Knows, Shipping
<1>3. /\ Lockable(q, lots[l]) /\ Lockable(q, reservations[p])
      /\ lots' = [lots EXCEPT ![l] = Put(q, @, lot)]
      /\ reservations' =
           [reservations EXCEPT ![p] = Put(q, reservations[p], [reservations[p].cur EXCEPT
              !.consumed = new, !.fully = @ \/ new >= PickQty[p]])]
      /\ movements' = [movements EXCEPT ![<<d, p>>] = Put(q, @, qty)]
      /\ tx' = [tx EXCEPT ![q].pc = "nextReservation", ![q].left = @ - qty]
      /\ UNCHANGED <<picks, sales, deliveries>>
  <2>1. Inv' /\ ~Rollback(q, "checkFailed")
    BY ConsumeReservationInv, CheckPassed
  <2> QED
    BY <2>1 DEF ConsumeReservation, MovementQty
<1>4. /\ \A r \in Requests \ {q} : tx'[r] = tx[r]
      /\ tx'[q].pc = "nextReservation" /\ tx'[q].at = p /\ tx'[q].todo = tx[q].todo
      /\ tx'[q].items = tx[q].items /\ tx'[q].left = tx[q].left - qty
  BY <1>3, Tables DEF TxState
<1>5. /\ \A m \in Lots : Writes(q, lots[m], lots'[m])
      /\ \A r \in Picks : Writes(q, reservations[r], reservations'[r])
      /\ \A r \in Picks : reservations[r].cur.made => reservations'[r].cur.made
  BY <1>1, <1>3, Tables DEF Writes, Put, Lockable, Versioned, ReservationRow
<1>6. movements[<<d, p>>].lock \in {Nobody, q}
  BY <1>1, <1>2 DEF LockInv, HeldInv, MovementHeld
<1>7. \A e \in Deliveries, r \in Picks : Writes(q, movements[<<e, r>>], movements'[<<e, r>>])
  <2> TAKE e \in Deliveries, r \in Picks
  <2>1. <<e, r>> \in Deliveries \X Picks /\ <<d, p>> \in Deliveries \X Picks
    BY <1>1
  <2>2. CASE e = d /\ r = p
    <3>1. movements'[<<d, p>>] = Put(q, movements[<<d, p>>], qty)
      BY <1>3, <2>1, Tables
    <3> QED
      BY <2>2, <3>1, <1>6 DEF Writes, Put
  <2>3. CASE ~(e = d /\ r = p)
    <3>1. <<e, r>> # <<d, p>>
      BY <2>3
    <3>2. movements'[<<e, r>>] = movements[<<e, r>>]
      BY <1>3, <2>1, <3>1, Tables
    <3> QED
      BY <3>2 DEF Writes
  <2> QED
    BY <2>2, <2>3
<1>8. /\ \A s \in Sales : Writes(q, sales[s], sales'[s])
      /\ \A e \in Deliveries : Writes(q, deliveries[e], deliveries'[e])
      /\ \A r \in Picks : Writes(q, picks[r], picks'[r])
  BY <1>3 DEF Writes
<1>9. Goes(q, "nextReservation", p, tx[q].todo)
  BY <1>1, <1>4, <1>5, <1>7, <1>8 DEF Goes, Working, Reserving, Shipping
<1> QED
  BY <1>1, <1>2, <1>3, <1>4, <1>9, SMTT(30)

-----------------------------------------------------------------------------
(* What a step that goes on leaves true.                                   *)

\* The holder of a row, and its lock, stay what they were.
LEMMA Keeps ==
  ASSUME Inv, LockInv, NEW q \in Requests, NEW pc, NEW at, NEW todo,
         Goes(q, pc, at, todo)
  PROVE  /\ \A s \in Sales : sales[s].lock # Nobody => sales'[s].lock = sales[s].lock
         /\ \A d \in Deliveries : /\ deliveries[d].lock # Nobody => deliveries'[d].lock = deliveries[d].lock
                                  /\ deliveries'[d].com = deliveries[d].com
         /\ \A l \in Lots : lots[l].lock # Nobody => lots'[l].lock = lots[l].lock
         /\ \A p \in Picks : /\ reservations[p].lock # Nobody => reservations'[p].lock = reservations[p].lock
                             /\ reservations'[p].com = reservations[p].com
                             /\ reservations[p].cur.made => reservations'[p].cur.made
         /\ \A p \in Picks : picks'[p].com = picks[p].com
         /\ \A s \in Sales : sales'[s].com = sales[s].com
BY Workload DEF Goes, Writes

LEMMA KeepsSale ==
  ASSUME Inv, LockInv, NEW q \in Requests, NEW pc, NEW at, NEW todo,
         Goes(q, pc, at, todo), NEW s \in Sales, sales'[s] = sales[s]
  PROVE  SaleHeld(s)'
<1>1. SaleHeld(s) /\ (sales[s].lock = Nobody \/ sales[s].lock \in Requests)
  BY Tables DEF LockInv, HeldInv, Versioned
<1>2. CASE sales[s].lock = Nobody
  BY <1>1, <1>2 DEF SaleHeld
<1>3. CASE sales[s].lock = q
  BY <1>1, <1>3, Workload DEF SaleHeld, Goes, Reserving
<1>4. CASE sales[s].lock \in Requests \ {q}
  BY <1>1, <1>4 DEF SaleHeld, Goes
<1> QED
  BY <1>1, <1>2, <1>3, <1>4

LEMMA KeepsDelivery ==
  ASSUME Inv, LockInv, NEW q \in Requests, NEW pc, NEW at, NEW todo,
         Goes(q, pc, at, todo), NEW d \in Deliveries, deliveries'[d] = deliveries[d]
  PROVE  DeliveryHeld(d)'
<1>1. DeliveryHeld(d) /\ (deliveries[d].lock = Nobody \/ deliveries[d].lock \in Requests)
  BY Tables DEF LockInv, HeldInv, Versioned
<1>2. CASE deliveries[d].lock = Nobody
  BY <1>1, <1>2 DEF DeliveryHeld
<1>3. CASE deliveries[d].lock = q
  BY <1>1, <1>3, Workload DEF DeliveryHeld, Goes, Shipping
<1>4. CASE deliveries[d].lock \in Requests \ {q}
  BY <1>1, <1>4 DEF DeliveryHeld, Goes
<1> QED
  BY <1>1, <1>2, <1>3, <1>4

LEMMA KeepsPick ==
  ASSUME Inv, LockInv, NEW q \in Requests, NEW pc, NEW at, NEW todo,
         Goes(q, pc, at, todo), NEW p \in Picks, picks'[p] = picks[p]
  PROVE  PickHeld(p)'
<1>1. /\ PickHeld(p) /\ (picks[p].lock = Nobody \/ picks[p].lock \in Requests)
      /\ Nobody \notin Requests
  BY Tables, Workload DEF LockInv, HeldInv, Versioned
<1>2. /\ reservations[p].lock # Nobody => reservations'[p].lock = reservations[p].lock
      /\ reservations'[p].com = reservations[p].com
      /\ reservations[p].cur.made => reservations'[p].cur.made
  BY Keeps
<1>3. CASE picks[p].lock = Nobody
  BY <1>1, <1>3 DEF PickHeld
<1>4. CASE picks[p].lock = q
  <2>1. tx[q].pc # "commit" /\ (tx[q].pc \in Reserving => tx'[q].pc \in Reserving)
    BY DEF Goes
  <2>2. /\ Op[q] = "approve" /\ tx[q].pc \in Reserving
        /\ picks[p].com.live /\ picks[p].cur.live
        /\ reservations[p].com.made \/ (reservations[p].lock = q /\ reservations[p].cur.made)
    BY <1>1, <1>4, <2>1 DEF PickHeld
  <2> QED
    BY <1>1, <1>2, <1>4, <2>1, <2>2 DEF PickHeld
<1>5. CASE picks[p].lock \in Requests \ {q}
  <2>1. tx'[picks[p].lock] = tx[picks[p].lock]
    BY <1>5 DEF Goes
  <2> QED
    BY <1>1, <1>2, <1>5, <2>1 DEF PickHeld
<1> QED
  BY <1>1, <1>3, <1>4, <1>5

LEMMA KeepsReservation ==
  ASSUME Inv, LockInv, NEW q \in Requests, NEW pc, NEW at, NEW todo,
         Goes(q, pc, at, todo), NEW p \in Picks, reservations'[p] = reservations[p]
  PROVE  ReservationHeld(p)'
<1>1. /\ ReservationHeld(p)
      /\ reservations[p].lock = Nobody \/ reservations[p].lock \in Requests
      /\ PickLot[p] \in Lots /\ SaleOfPick(p) \in Sales
  BY Tables, Documents DEF LockInv, HeldInv, Versioned
<1>2. CASE reservations[p].lock = Nobody
  BY <1>1, <1>2 DEF ReservationHeld
<1>3. CASE reservations[p].lock \in Requests
  <2> DEFINE r == reservations[p].lock
  <2>1. /\ r # Nobody
        /\ Op[r] = "approve" => Target[r] \in Sales
        /\ Op[r] = "confirm" => Target[r] \in Deliveries
    BY <1>3, Workload
  <2>2. /\ lots[PickLot[p]].lock = r => lots'[PickLot[p]].lock = r
        /\ Op[r] = "approve" /\ sales[Target[r]].lock = r => sales'[Target[r]].lock = r
        /\ Op[r] = "confirm" /\ deliveries[Target[r]].lock = r => deliveries'[Target[r]].lock = r
    BY <1>1, <2>1, Keeps
  <2> QED
    BY <1>1, <2>1, <2>2 DEF ReservationHeld, SaleOfPick
<1> QED
  BY <1>1, <1>2, <1>3

LEMMA KeepsMovement ==
  ASSUME Inv, LockInv, NEW q \in Requests, NEW pc, NEW at, NEW todo,
         Goes(q, pc, at, todo), NEW d \in Deliveries, NEW p \in Picks,
         movements'[<<d, p>>] = movements[<<d, p>>]
  PROVE  MovementHeld(d, p)'
<1>1. /\ MovementHeld(d, p) /\ PickLot[p] \in Lots
  BY Documents DEF LockInv, HeldInv
<1>2. /\ deliveries'[d].com = deliveries[d].com
      /\ deliveries[d].lock # Nobody => deliveries'[d].lock = deliveries[d].lock
      /\ lots[PickLot[p]].lock # Nobody => lots'[PickLot[p]].lock = lots[PickLot[p]].lock
  BY <1>1, Keeps
<1> QED
  BY <1>1, <1>2 DEF MovementHeld

\* Whatever was written: lots, links and the committed rows.
LEMMA KeepsRest ==
  ASSUME Inv, LockInv, NEW q \in Requests, NEW pc, NEW at, NEW todo,
         Goes(q, pc, at, todo)
  PROVE  /\ \A l \in Lots : LotHeld(l)'
         /\ \A p \in Picks : PickLinked(p)'
         /\ DraftUnreserved'
<1>1. \A l \in Lots : LotHeld(l)'
  <2> TAKE l \in Lots
  <2>1. LotHeld(l) /\ Writes(q, lots[l], lots'[l])
    BY DEF LockInv, HeldInv, Goes
  <2>2. \A r \in Open : r \in Open'
    BY DEF Open, Goes
  <2>3. q \in Open'
    BY DEF Open, Goes
  <2> QED
    BY <2>1, <2>2, <2>3, Workload DEF LotHeld, Writes
<1>2. \A p \in Picks : PickLinked(p)'
  BY Keeps DEF LockInv, HeldInv, PickLinked
<1>3. DraftUnreserved'
  BY Keeps, Documents DEF LockInv, DraftUnreserved
<1> QED
  BY <1>1, <1>2, <1>3

\* What another handler knows: q inserts only its own rows.
LEMMA OthersKnow ==
  ASSUME Inv, LockInv, NEW q \in Requests, NEW pc, NEW at, NEW todo,
         Goes(q, pc, at, todo),
         \A p \in Picks : \/ picks'[p] = picks[p]
                          \/ picks[p] # Fresh([live |-> FALSE, linked |-> FALSE])
                          \/ Op[q] = "addLot" /\ Target[q] = p,
         \A d \in Deliveries : \/ deliveries'[d] = deliveries[d]
                               \/ deliveries[d] # Fresh("none")
                               \/ Op[q] = "create" /\ Target[q] = d,
         NEW r \in Requests \ {q}
  PROVE  Knows(r)'
<1>1. tx'[r] = tx[r] /\ Knows(r) /\ r # Nobody
  BY Workload DEF LockInv, KnowsInv, Goes
<1>2. /\ Op[r] = "addLot" => Target[r] \in Picks
      /\ Op[r] = "create" => Target[r] \in Deliveries
      /\ Op[r] = "confirm" => Target[r] \in Deliveries
      /\ Op[r] = "approve" => Target[r] \in Sales
  BY Workload
<1>3. /\ Op[r] = "addLot" /\ Op[q] = "addLot" => Target[r] # Target[q]
      /\ Op[r] = "create" /\ Op[q] = "create" => Target[r] # Target[q]
  BY WorkloadAssumption
<1>4. \A p \in Picks :
        /\ reservations[p].lock = r => reservations'[p].lock = r
        /\ reservations'[p].com = reservations[p].com
        /\ reservations[p].cur.made => reservations'[p].cur.made
  BY <1>1, Keeps
<1>5. /\ Op[r] = "approve" /\ sales[Target[r]].lock = r => sales'[Target[r]].lock = r
      /\ Op[r] = "confirm" /\ deliveries[Target[r]].lock = r => deliveries'[Target[r]].lock = r
  BY <1>1, <1>2, Keeps
<1>6. \A i : Covered(r, i) => Covered(r, i)'
  BY <1>1, <1>4 DEF Covered
<1>7. /\ tx[r].pc = "new" /\ Op[r] = "addLot" => picks'[Target[r]] = picks[Target[r]]
      /\ tx[r].pc = "new" /\ Op[r] = "create" => deliveries'[Target[r]] = deliveries[Target[r]]
  BY <1>1, <1>2, <1>3 DEF Knows
<1>8. tx[r] \in TxState /\ HandlerOK(r, tx[r])
  BY HandlerFacts
<1> QED
  BY <1>1, <1>4, <1>5, <1>6, <1>7, <1>8 DEF Knows, HandlerOK, TxState

-----------------------------------------------------------------------------
(* The end of a transaction.                                               *)

\* A row after q ended: if q held it, it is released and both versions are v.
EndsAs(q, old, new, v) ==
  /\ old.lock # q => new = old
  /\ old.lock = q => new.com = v /\ new.cur = v /\ new.lock = Nobody

LEMMA EndedRows ==
  ASSUME NEW K, NEW V, NEW q \in Requests, NEW table \in [K -> Versioned(V, Requests)]
  PROVE  /\ \A k \in K : EndsAs(q, table[k], RolledBackAll(q, table)[k], table[k].com)
         /\ \A k \in K : EndsAs(q, table[k], CommittedAll(q, table)[k], table[k].cur)
BY DEF EndsAs, CommittedAll, RolledBackAll, Committed, RolledBack, Fresh, Versioned

\* All tables after a rollback.
LEMMA RollbackEnds ==
  ASSUME Inv, NEW q \in Requests, NEW how, Rollback(q, how)
  PROVE  /\ \A s \in Sales : EndsAs(q, sales[s], sales'[s], sales[s].com)
         /\ \A d \in Deliveries : EndsAs(q, deliveries[d], deliveries'[d], deliveries[d].com)
         /\ \A l \in Lots : EndsAs(q, lots[l], lots'[l], lots[l].com)
         /\ \A p \in Picks : EndsAs(q, picks[p], picks'[p], picks[p].com)
         /\ \A p \in Picks : EndsAs(q, reservations[p], reservations'[p], reservations[p].com)
         /\ \A k \in Deliveries \X Picks : EndsAs(q, movements[k], movements'[k], movements[k].com)
<1>1. \A s \in Sales : EndsAs(q, sales[s], sales'[s], sales[s].com)
  <2>1. sales \in [Sales -> Versioned(SaleStatus, Requests)] /\ sales' = RolledBackAll(q, sales)
    BY Tables DEF Rollback
  <2> QED
    BY <2>1, EndedRows
<1>2. \A d \in Deliveries : EndsAs(q, deliveries[d], deliveries'[d], deliveries[d].com)
  <2>1. /\ deliveries \in [Deliveries -> Versioned(DelivStatus, Requests)]
        /\ deliveries' = RolledBackAll(q, deliveries)
    BY Tables DEF Rollback
  <2> QED
    BY <2>1, EndedRows
<1>3. \A l \in Lots : EndsAs(q, lots[l], lots'[l], lots[l].com)
  <2>1. lots \in [Lots -> Versioned(LotRow, Requests)] /\ lots' = RolledBackAll(q, lots)
    BY Tables DEF Rollback
  <2> QED
    BY <2>1, EndedRows
<1>4. \A p \in Picks : EndsAs(q, picks[p], picks'[p], picks[p].com)
  <2>1. picks \in [Picks -> Versioned(PickRow, Requests)] /\ picks' = RolledBackAll(q, picks)
    BY Tables DEF Rollback
  <2> QED
    BY <2>1, EndedRows
<1>5. \A p \in Picks : EndsAs(q, reservations[p], reservations'[p], reservations[p].com)
  <2>1. /\ reservations \in [Picks -> Versioned(ReservationRow, Requests)]
        /\ reservations' = RolledBackAll(q, reservations)
    BY Tables DEF Rollback
  <2> QED
    BY <2>1, EndedRows
<1>6. \A k \in Deliveries \X Picks : EndsAs(q, movements[k], movements'[k], movements[k].com)
  <2>1. /\ movements \in [Deliveries \X Picks -> Versioned(Nat, Requests)]
        /\ movements' = RolledBackAll(q, movements)
    BY Tables DEF Rollback
  <2> QED
    BY <2>1, EndedRows
<1> QED
  BY <1>1, <1>2, <1>3, <1>4, <1>5, <1>6

LEMMA FinishedHandler ==
  ASSUME Inv, NEW q \in Requests, NEW how \in Ended, Finish(q, how)
  PROVE  /\ \A r \in Requests \ {q} : tx'[r] = tx[r]
         /\ tx'[q].pc = how /\ how \notin {"new"} \cup Working
         /\ Knows(q)'
<1>1. /\ \A r \in Requests \ {q} : tx'[r] = tx[r]
      /\ tx'[q].pc = how /\ how \notin {"new"} \cup Working
  BY Tables, TxAtType DEF Finish, Ended, Working
<1>2. Knows(q)'
  BY <1>1 DEF Knows, Working, Reserving, Shipping
<1> QED
  BY <1>1, <1>2

LEMMA RollbackLock ==
  ASSUME Inv, LockInv, NEW q \in Requests, NEW how \in Ended, Rollback(q, how)
  PROVE  LockInv'
<1>0. /\ \A r \in Requests \ {q} : tx'[r] = tx[r]
      /\ Knows(q)' /\ tx'[q].pc \notin Working
  BY FinishedHandler DEF Rollback
<1>1. /\ \A s \in Sales : EndsAs(q, sales[s], sales'[s], sales[s].com)
      /\ \A d \in Deliveries : EndsAs(q, deliveries[d], deliveries'[d], deliveries[d].com)
      /\ \A l \in Lots : EndsAs(q, lots[l], lots'[l], lots[l].com)
      /\ \A p \in Picks : EndsAs(q, picks[p], picks'[p], picks[p].com)
      /\ \A p \in Picks : EndsAs(q, reservations[p], reservations'[p], reservations[p].com)
  BY RollbackEnds
<1>2. \A d \in Deliveries, p \in Picks :
        EndsAs(q, movements[<<d, p>>], movements'[<<d, p>>], movements[<<d, p>>].com)
  BY RollbackEnds
<1>3. /\ \A s \in Sales : sales'[s].com = sales[s].com
      /\ \A d \in Deliveries : deliveries'[d].com = deliveries[d].com
      /\ \A p \in Picks : picks'[p].com = picks[p].com
      /\ \A p \in Picks : reservations'[p].com = reservations[p].com
  BY <1>1 DEF EndsAs
<1>4. \A s \in Sales : SaleHeld(s)'
  <2> TAKE s \in Sales
  <2>1. SaleHeld(s) /\ (sales[s].lock = Nobody \/ sales[s].lock \in Requests)
    BY Tables DEF LockInv, HeldInv, Versioned
  <2>2. CASE sales[s].lock = q
    BY <1>1, <2>2 DEF SaleHeld, EndsAs
  <2>3. CASE sales[s].lock # q
    BY <1>0, <1>1, <2>1, <2>3 DEF SaleHeld, EndsAs
  <2> QED
    BY <2>2, <2>3
<1>5. \A d \in Deliveries : DeliveryHeld(d)'
  <2> TAKE d \in Deliveries
  <2>1. DeliveryHeld(d) /\ (deliveries[d].lock = Nobody \/ deliveries[d].lock \in Requests)
    BY Tables DEF LockInv, HeldInv, Versioned
  <2>2. CASE deliveries[d].lock = q
    BY <1>1, <2>2 DEF DeliveryHeld, EndsAs
  <2>3. CASE deliveries[d].lock # q
    BY <1>0, <1>1, <2>1, <2>3 DEF DeliveryHeld, EndsAs
  <2> QED
    BY <2>2, <2>3
<1>6. \A p \in Picks : PickHeld(p)' /\ PickLinked(p)' /\ ReservationHeld(p)'
  <2> TAKE p \in Picks
  <2>1. /\ PickHeld(p) /\ PickLinked(p) /\ ReservationHeld(p)
        /\ picks[p].lock = Nobody \/ picks[p].lock \in Requests
        /\ reservations[p].lock = Nobody \/ reservations[p].lock \in Requests
    BY Tables DEF LockInv, HeldInv, Versioned
  <2>2. PickLinked(p)'
    BY <1>3, <2>1 DEF PickLinked
  <2>3. PickHeld(p)'
    <3>1. CASE picks[p].lock = q
      BY <1>1, <3>1 DEF PickHeld, EndsAs
    <3>2. CASE picks[p].lock # q
      <4>1. picks'[p] = picks[p]
        BY <1>1, <3>2 DEF EndsAs
      <4>2. picks[p].lock # Nobody => tx'[picks[p].lock] = tx[picks[p].lock]
        BY <1>0, <2>1, <3>2
      <4>3. /\ reservations'[p].com = reservations[p].com
            /\ reservations[p].lock = picks[p].lock => reservations'[p] = reservations[p]
        BY <1>1, <1>3, <3>2 DEF EndsAs
      <4> QED
        BY <2>1, <4>1, <4>2, <4>3 DEF PickHeld
    <3> QED
      BY <3>1, <3>2
  <2>4. ReservationHeld(p)'
    <3>1. CASE reservations[p].lock = q
      BY <1>1, <2>1, <3>1 DEF ReservationHeld, EndsAs
    <3>2. CASE reservations[p].lock = Nobody
      BY <1>1, <2>1, <3>2, Workload DEF ReservationHeld, EndsAs
    <3>3. CASE reservations[p].lock \in Requests \ {q}
      <4> DEFINE r == reservations[p].lock
      <4>1. /\ r # Nobody /\ r # q
            /\ Op[r] = "approve" => Target[r] \in Sales
            /\ Op[r] = "confirm" => Target[r] \in Deliveries
        BY <3>3, Workload
      <4>2. /\ lots[PickLot[p]].lock = r => lots'[PickLot[p]].lock = r
            /\ Op[r] = "approve" /\ sales[Target[r]].lock = r => sales'[Target[r]].lock = r
            /\ Op[r] = "confirm" /\ deliveries[Target[r]].lock = r => deliveries'[Target[r]].lock = r
        BY <1>1, <4>1, Documents DEF EndsAs
      <4>3. reservations'[p] = reservations[p]
        BY <1>1, <4>1 DEF EndsAs
      <4> QED
        BY <2>1, <4>1, <4>2, <4>3 DEF ReservationHeld, SaleOfPick
    <3> QED
      BY <2>1, <3>1, <3>2, <3>3
  <2> QED
    BY <2>2, <2>3, <2>4
<1>7. \A d \in Deliveries, p \in Picks : MovementHeld(d, p)'
  <2> TAKE d \in Deliveries, p \in Picks
  <2>1. /\ MovementHeld(d, p) /\ PickLot[p] \in Lots
    BY Documents DEF LockInv, HeldInv
  <2>2. CASE movements[<<d, p>>].lock = q
    BY <1>2, <1>3, <2>1, <2>2 DEF MovementHeld, EndsAs
  <2>3. CASE movements[<<d, p>>].lock # q
    BY <1>1, <1>2, <1>3, <2>1, <2>3 DEF MovementHeld, EndsAs
  <2> QED
    BY <2>2, <2>3
<1>8. \A l \in Lots : LotHeld(l)'
  <2> TAKE l \in Lots
  <2>1. LotHeld(l)
    BY DEF LockInv, HeldInv
  <2>2. CASE lots[l].lock = q
    BY <1>1, <2>2 DEF LotHeld, EndsAs
  <2>3. CASE lots[l].lock # q
    BY <1>0, <1>1, <2>1, <2>3 DEF LotHeld, Open, EndsAs
  <2> QED
    BY <2>2, <2>3
<1>9. DraftUnreserved'
  BY <1>3, Documents DEF LockInv, DraftUnreserved
<1>10. ASSUME NEW r \in Requests \ {q} PROVE Knows(r)'
  <2>1. tx'[r] = tx[r] /\ Knows(r) /\ r # Nobody /\ r # q
    BY <1>0, Workload DEF LockInv, KnowsInv
  <2>2. /\ Op[r] = "addLot" => Target[r] \in Picks
        /\ Op[r] = "create" => Target[r] \in Deliveries
        /\ Op[r] = "confirm" => Target[r] \in Deliveries
        /\ Op[r] = "approve" => Target[r] \in Sales
    BY Workload
  <2>4. \A p \in Picks :
          /\ reservations[p].lock = r => reservations'[p] = reservations[p]
          /\ reservations'[p].com = reservations[p].com
    BY <1>1, <1>3, <2>1 DEF EndsAs
  <2>5. /\ Op[r] = "approve" /\ sales[Target[r]].lock = r => sales'[Target[r]].lock = r
        /\ Op[r] = "confirm" /\ deliveries[Target[r]].lock = r => deliveries'[Target[r]].lock = r
    BY <1>1, <2>1, <2>2 DEF EndsAs
  <2>6. \A i : Covered(r, i) => Covered(r, i)'
    BY <2>1, <2>4 DEF Covered
  <2>7. /\ tx[r].pc = "new" /\ Op[r] = "addLot" => picks'[Target[r]] = picks[Target[r]]
        /\ tx[r].pc = "new" /\ Op[r] = "create" => deliveries'[Target[r]] = deliveries[Target[r]]
    BY <1>1, <2>1, <2>2, Workload DEF Knows, Fresh, EndsAs
  <2>8. tx[r] \in TxState /\ HandlerOK(r, tx[r])
    BY HandlerFacts
  <2> QED
    BY <2>1, <2>4, <2>5, <2>6, <2>7, <2>8 DEF Knows, HandlerOK, TxState
<1> QED
  BY <1>0, <1>4, <1>5, <1>6, <1>7, <1>8, <1>9, <1>10 DEF LockInv, HeldInv, KnowsInv

\* All tables after a commit.
LEMMA CommitEnds ==
  ASSUME Inv, NEW q \in Requests, Commit(q)
  PROVE  /\ \A s \in Sales : EndsAs(q, sales[s], sales'[s], sales[s].cur)
         /\ \A d \in Deliveries : EndsAs(q, deliveries[d], deliveries'[d], deliveries[d].cur)
         /\ \A l \in Lots : EndsAs(q, lots[l], lots'[l], lots[l].cur)
         /\ \A p \in Picks : EndsAs(q, picks[p], picks'[p], picks[p].cur)
         /\ \A p \in Picks : EndsAs(q, reservations[p], reservations'[p], reservations[p].cur)
         /\ \A k \in Deliveries \X Picks : EndsAs(q, movements[k], movements'[k], movements[k].cur)
<1>1. \A s \in Sales : EndsAs(q, sales[s], sales'[s], sales[s].cur)
  <2>1. sales \in [Sales -> Versioned(SaleStatus, Requests)] /\ sales' = CommittedAll(q, sales)
    BY Tables DEF Commit
  <2> QED
    BY <2>1, EndedRows
<1>2. \A d \in Deliveries : EndsAs(q, deliveries[d], deliveries'[d], deliveries[d].cur)
  <2>1. /\ deliveries \in [Deliveries -> Versioned(DelivStatus, Requests)]
        /\ deliveries' = CommittedAll(q, deliveries)
    BY Tables DEF Commit
  <2> QED
    BY <2>1, EndedRows
<1>3. \A l \in Lots : EndsAs(q, lots[l], lots'[l], lots[l].cur)
  <2>1. lots \in [Lots -> Versioned(LotRow, Requests)] /\ lots' = CommittedAll(q, lots)
    BY Tables DEF Commit
  <2> QED
    BY <2>1, EndedRows
<1>4. \A p \in Picks : EndsAs(q, picks[p], picks'[p], picks[p].cur)
  <2>1. picks \in [Picks -> Versioned(PickRow, Requests)] /\ picks' = CommittedAll(q, picks)
    BY Tables DEF Commit
  <2> QED
    BY <2>1, EndedRows
<1>5. \A p \in Picks : EndsAs(q, reservations[p], reservations'[p], reservations[p].cur)
  <2>1. /\ reservations \in [Picks -> Versioned(ReservationRow, Requests)]
        /\ reservations' = CommittedAll(q, reservations)
    BY Tables DEF Commit
  <2> QED
    BY <2>1, EndedRows
<1>6. \A k \in Deliveries \X Picks : EndsAs(q, movements[k], movements'[k], movements[k].cur)
  <2>1. /\ movements \in [Deliveries \X Picks -> Versioned(Nat, Requests)]
        /\ movements' = CommittedAll(q, movements)
    BY Tables DEF Commit
  <2> QED
    BY <2>1, EndedRows
<1> QED
  BY <1>1, <1>2, <1>3, <1>4, <1>5, <1>6

LEMMA CommitLock ==
  ASSUME Inv, LockInv, NEW q \in Requests, Commit(q)
  PROVE  LockInv'
<1>0. /\ \A r \in Requests \ {q} : tx'[r] = tx[r]
      /\ Knows(q)' /\ tx[q].pc = "commit"
  BY FinishedHandler DEF Commit, At, Ended
<1>1. /\ \A s \in Sales : EndsAs(q, sales[s], sales'[s], sales[s].cur)
      /\ \A d \in Deliveries : EndsAs(q, deliveries[d], deliveries'[d], deliveries[d].cur)
      /\ \A l \in Lots : EndsAs(q, lots[l], lots'[l], lots[l].cur)
      /\ \A p \in Picks : EndsAs(q, picks[p], picks'[p], picks[p].cur)
      /\ \A p \in Picks : EndsAs(q, reservations[p], reservations'[p], reservations[p].cur)
  BY CommitEnds
<1>2. \A d \in Deliveries, p \in Picks :
        EndsAs(q, movements[<<d, p>>], movements'[<<d, p>>], movements[<<d, p>>].cur)
  BY CommitEnds
\* A reservation that was made, or that q made, stays made.
<1>3. \A p \in Picks :
        /\ reservations[p].lock = q => reservations'[p].com.made
        /\ reservations[p].com.made => reservations'[p].com.made
  <2> TAKE p \in Picks
  <2>1. ReservationHeld(p) /\ q # Nobody
    BY Workload DEF LockInv, HeldInv
  <2>2. EndsAs(q, reservations[p], reservations'[p], reservations[p].cur)
    BY <1>1
  <2> QED
    BY <2>1, <2>2 DEF ReservationHeld, EndsAs
<1>4. \A s \in Sales : SaleHeld(s)'
  <2> TAKE s \in Sales
  <2>1. SaleHeld(s) /\ (sales[s].lock = Nobody \/ sales[s].lock \in Requests)
    BY Tables DEF LockInv, HeldInv, Versioned
  <2>2. CASE sales[s].lock = q
    BY <1>1, <2>2 DEF SaleHeld, EndsAs
  <2>3. CASE sales[s].lock # q
    BY <1>0, <1>1, <2>1, <2>3 DEF SaleHeld, EndsAs
  <2> QED
    BY <2>2, <2>3
<1>5. \A d \in Deliveries : DeliveryHeld(d)'
  <2> TAKE d \in Deliveries
  <2>1. DeliveryHeld(d) /\ (deliveries[d].lock = Nobody \/ deliveries[d].lock \in Requests)
    BY Tables DEF LockInv, HeldInv, Versioned
  <2>2. CASE deliveries[d].lock = q
    BY <1>1, <2>2 DEF DeliveryHeld, EndsAs
  <2>3. CASE deliveries[d].lock # q
    BY <1>0, <1>1, <2>1, <2>3 DEF DeliveryHeld, EndsAs
  <2> QED
    BY <2>2, <2>3
<1>6. \A p \in Picks : PickHeld(p)' /\ PickLinked(p)' /\ ReservationHeld(p)'
  <2> TAKE p \in Picks
  <2>1. /\ PickHeld(p) /\ PickLinked(p) /\ ReservationHeld(p)
        /\ picks[p].lock = Nobody \/ picks[p].lock \in Requests
        /\ reservations[p].lock = Nobody \/ reservations[p].lock \in Requests
        /\ q # Nobody
    BY Tables, Workload DEF LockInv, HeldInv, Versioned
  <2>2. PickLinked(p)'
    <3>1. CASE picks[p].lock = q
      <4>1. picks'[p].com = picks[p].cur
        BY <1>1, <3>1 DEF EndsAs
      <4>2. picks[p].com \in PickRow
        BY Tables DEF Versioned
      <4>3. picks[p].cur.linked => reservations[p].com.made \/ reservations[p].lock = q
        BY <2>1, <3>1, <4>2 DEF PickHeld, PickLinked, PickRow
      <4> QED
        BY <1>3, <4>1, <4>3 DEF PickLinked
    <3>2. CASE picks[p].lock # q
      BY <1>1, <1>3, <2>1, <3>2 DEF PickLinked, EndsAs
    <3> QED
      BY <3>1, <3>2
  <2>3. PickHeld(p)'
    <3>1. CASE picks[p].lock = q
      BY <1>1, <3>1 DEF PickHeld, EndsAs
    <3>2. CASE picks[p].lock # q
      <4>1. picks'[p] = picks[p]
        BY <1>1, <3>2 DEF EndsAs
      <4>2. picks[p].lock # Nobody => tx'[picks[p].lock] = tx[picks[p].lock]
        BY <1>0, <2>1, <3>2
      <4>3. /\ reservations[p].com.made => reservations'[p].com.made
            /\ reservations[p].lock = picks[p].lock => reservations'[p] = reservations[p]
        BY <1>1, <1>3, <3>2 DEF EndsAs
      <4> QED
        BY <2>1, <4>1, <4>2, <4>3 DEF PickHeld
    <3> QED
      BY <3>1, <3>2
  <2>4. ReservationHeld(p)'
    <3>1. CASE reservations[p].lock = q
      BY <1>1, <1>3, <2>1, <3>1 DEF ReservationHeld, EndsAs
    <3>2. CASE reservations[p].lock = Nobody
      BY <1>1, <2>1, <3>2 DEF ReservationHeld, EndsAs
    <3>3. CASE reservations[p].lock \in Requests \ {q}
      <4> DEFINE r == reservations[p].lock
      <4>1. /\ r # Nobody /\ r # q
            /\ Op[r] = "approve" => Target[r] \in Sales
            /\ Op[r] = "confirm" => Target[r] \in Deliveries
        BY <3>3, Workload
      <4>2. /\ lots[PickLot[p]].lock = r => lots'[PickLot[p]].lock = r
            /\ Op[r] = "approve" /\ sales[Target[r]].lock = r => sales'[Target[r]].lock = r
            /\ Op[r] = "confirm" /\ deliveries[Target[r]].lock = r => deliveries'[Target[r]].lock = r
        BY <1>1, <4>1, Documents DEF EndsAs
      <4>3. reservations'[p] = reservations[p]
        BY <1>1, <4>1 DEF EndsAs
      <4> QED
        BY <2>1, <4>1, <4>2, <4>3 DEF ReservationHeld, SaleOfPick
    <3> QED
      BY <2>1, <3>1, <3>2, <3>3
  <2> QED
    BY <2>2, <2>3, <2>4
<1>7. \A d \in Deliveries, p \in Picks : MovementHeld(d, p)'
  <2> TAKE d \in Deliveries, p \in Picks
  <2>1. /\ MovementHeld(d, p) /\ DeliveryHeld(d) /\ PickLot[p] \in Lots /\ q # Nobody
    BY Documents, Workload DEF LockInv, HeldInv
  <2>2. CASE movements[<<d, p>>].lock = q
    <3>1. deliveries[d].lock = q /\ Op[q] = "confirm"
      BY <2>1, <2>2 DEF MovementHeld
    <3>2. deliveries'[d].com = "confirmed"
      BY <1>1, <2>1, <3>1 DEF DeliveryHeld, EndsAs
    <3> QED
      BY <1>2, <2>2, <3>2 DEF MovementHeld, EndsAs
  <2>3. CASE movements[<<d, p>>].lock # q
    <3>1. movements'[<<d, p>>] = movements[<<d, p>>]
      BY <1>2, <2>3 DEF EndsAs
    <3>2. deliveries[d].com = "confirmed" => deliveries'[d].com = "confirmed"
      BY <1>1, <2>1 DEF DeliveryHeld, EndsAs
    <3>3. movements[<<d, p>>].lock # Nobody =>
            deliveries'[d] = deliveries[d] /\ lots'[PickLot[p]] = lots[PickLot[p]]
      BY <1>1, <2>1, <2>3 DEF MovementHeld, EndsAs
    <3> QED
      BY <2>1, <3>1, <3>2, <3>3 DEF MovementHeld
  <2> QED
    BY <2>2, <2>3
<1>8. \A l \in Lots : LotHeld(l)'
  <2> TAKE l \in Lots
  <2>1. LotHeld(l)
    BY DEF LockInv, HeldInv
  <2>2. CASE lots[l].lock = q
    BY <1>1, <2>2 DEF LotHeld, EndsAs
  <2>3. CASE lots[l].lock # q
    BY <1>0, <1>1, <2>1, <2>3 DEF LotHeld, Open, EndsAs
  <2> QED
    BY <2>2, <2>3
\* Only an approval makes a reservation, and it leaves the sale approved.
<1>9. DraftUnreserved'
  <2> SUFFICES ASSUME NEW p \in Picks, sales'[SaleOfPick(p)].com = "draft",
                      reservations'[p].com.made
               PROVE  FALSE
    BY DEF DraftUnreserved, SaleOfPick
  <2> DEFINE s == SaleOfPick(p)
  <2>1. /\ s \in Sales /\ SaleHeld(s) /\ ReservationHeld(p) /\ q # Nobody
    BY Documents, Workload DEF LockInv, HeldInv
  <2>2. sales[s].lock # q /\ sales[s].com = "draft"
    BY <1>1, <2>1 DEF SaleHeld, EndsAs
  <2>3. ~reservations[p].com.made
    BY <2>2 DEF LockInv, DraftUnreserved
  <2>4. reservations[p].lock = q
    BY <1>1, <2>3 DEF EndsAs
  <2> QED
    BY <2>1, <2>2, <2>3, <2>4 DEF ReservationHeld
<1>10. ASSUME NEW r \in Requests \ {q} PROVE Knows(r)'
  <2>1. tx'[r] = tx[r] /\ Knows(r) /\ r # Nobody /\ r # q
    BY <1>0, Workload DEF LockInv, KnowsInv
  <2>2. /\ Op[r] = "addLot" => Target[r] \in Picks
        /\ Op[r] = "create" => Target[r] \in Deliveries
        /\ Op[r] = "confirm" => Target[r] \in Deliveries
        /\ Op[r] = "approve" => Target[r] \in Sales
    BY Workload
  <2>3. \A p \in Picks :
          /\ reservations[p].lock = r => reservations'[p] = reservations[p]
          /\ reservations[p].com.made => reservations'[p].com.made
    BY <1>1, <1>3, <2>1 DEF EndsAs
  <2>4. /\ Op[r] = "approve" /\ sales[Target[r]].lock = r => sales'[Target[r]].lock = r
        /\ Op[r] = "confirm" /\ deliveries[Target[r]].lock = r => deliveries'[Target[r]].lock = r
    BY <1>1, <2>1, <2>2 DEF EndsAs
  <2>5. \A i : Covered(r, i) => Covered(r, i)'
    BY <2>1, <2>3 DEF Covered
  <2>6. /\ tx[r].pc = "new" /\ Op[r] = "addLot" => picks'[Target[r]] = picks[Target[r]]
        /\ tx[r].pc = "new" /\ Op[r] = "create" => deliveries'[Target[r]] = deliveries[Target[r]]
    BY <1>1, <2>1, <2>2, Workload DEF Knows, Fresh, EndsAs
  <2>7. tx[r] \in TxState /\ HandlerOK(r, tx[r])
    BY HandlerFacts
  <2> QED
    BY <2>1, <2>3, <2>4, <2>5, <2>6, <2>7 DEF Knows, HandlerOK, TxState
<1> QED
  BY <1>0, <1>4, <1>5, <1>6, <1>7, <1>8, <1>9, <1>10 DEF LockInv, HeldInv, KnowsInv

-----------------------------------------------------------------------------
(* Each statement keeps LockInv.                                           *)

\* A statement that only reads and inserts nothing.
LEMMA QuietLock ==
  ASSUME Inv, LockInv, NEW q \in Requests, NEW pc, NEW at, NEW todo,
         Goes(q, pc, at, todo), UNCHANGED tables, Knows(q)'
  PROVE  LockInv'
<1>1. /\ \A s \in Sales : SaleHeld(s)'
      /\ \A d \in Deliveries : DeliveryHeld(d)'
  BY KeepsSale, KeepsDelivery DEF tables
<1>2. \A p \in Picks : PickHeld(p)'
  BY KeepsPick DEF tables
<1>3. \A p \in Picks : ReservationHeld(p)'
  BY KeepsReservation DEF tables
<1>4. \A d \in Deliveries, p \in Picks : MovementHeld(d, p)'
  BY KeepsMovement DEF tables
<1>5. \A r \in Requests \ {q} : Knows(r)'
  BY OthersKnow DEF tables
<1> QED
  BY <1>1, <1>2, <1>3, <1>4, <1>5, KeepsRest DEF LockInv, HeldInv, KnowsInv

\* What a handler that only read something knows next.
LEMMA ApproveLock ==
  ASSUME Inv, LockInv, NEW q \in Requests, Approve(q), ~Rollback(q, "ended")
  PROVE  LockInv'
<1>1. /\ Goes(q, "casApproved", tx[q].at, LotPicks(q, Target[q]))
      /\ Op[q] = "approve"
      /\ tx'[q].items = ItemsOf(Target[q])
      /\ EveryItemPicked(Target[q], LotPicks(q, Target[q]))
      /\ UNCHANGED tables
  BY ApproveGoes
<1>2. tx'[q].pc = "casApproved" /\ tx'[q].todo = LotPicks(q, Target[q])
  BY <1>1 DEF Goes
<1>3. tx'[q].items # {} /\ \A i \in tx'[q].items : Covered(q, i)'
  BY <1>1, <1>2 DEF EveryItemPicked, Covered, LotPicks
<1>4. \A p \in tx'[q].todo : SaleOfPick(p) = Target[q]
  BY <1>2 DEF LotPicks, SaleOfPick
<1>5. Knows(q)'
  BY <1>1, <1>2, <1>3, <1>4 DEF Knows, Reserving, Shipping
<1> QED
  BY <1>1, <1>5, QuietLock

LEMMA CancelLock ==
  ASSUME Inv, LockInv, NEW q \in Requests, Cancel(q), ~Rollback(q, "ended")
  PROVE  LockInv'
<1> DEFINE linked == {p \in LotPicks(q, Target[q]) : Seen(q, picks[p]).linked}
<1>1. /\ Goes(q, "findReservation", tx[q].at, linked)
      /\ Op[q] = "cancel" /\ tx[q].pc = "new" /\ UNCHANGED tables
  BY CancelGoes
<1>2. tx'[q].pc = "findReservation" /\ tx'[q].todo = linked
  BY <1>1 DEF Goes
<1>3. \A p \in linked : reservations[p].com.made
  <2> TAKE p \in linked
  <2>1. p \in Picks /\ Seen(q, picks[p]).linked
    BY DEF LotPicks
  <2>2. PickHeld(p) /\ PickLinked(p) /\ q # Nobody
    BY <2>1, Workload DEF LockInv, HeldInv
  <2>3. picks[p].lock # q
    BY <1>1, <2>2 DEF PickHeld
  <2> QED
    BY <2>1, <2>2, <2>3 DEF Seen, PickLinked
<1>4. \A p \in linked : reservations'[p].com.made
  BY <1>1, <1>3 DEF tables
<1> HIDE DEF linked
<1>5. Knows(q)'
  BY <1>1, <1>2, <1>4 DEF Knows, Reserving, Shipping
<1> QED
  BY <1>1, <1>5, QuietLock

LEMMA FindReservationLock ==
  ASSUME Inv, LockInv, NEW q \in Requests, FindReservation(q), ~Rollback(q, "ended")
  PROVE  LockInv'
<1>1. /\ tx[q].pc = "findReservation" /\ UNCHANGED tables
      /\ Goes(q, tx'[q].pc, tx'[q].at, tx[q].todo)
      /\ \/ tx'[q].pc = "release" /\ tx'[q].at \in tx[q].todo
         \/ tx'[q].pc = "casCancelled"
  BY FindReservationGoes
<1>2. tx'[q].todo = tx[q].todo /\ Knows(q)
  BY <1>1 DEF Goes, LockInv, KnowsInv
<1>3. Knows(q)'
  BY <1>1, <1>2 DEF Knows, Reserving, Shipping, tables
<1> QED
  BY <1>1, <1>3, QuietLock

LEMMA AddItemLock ==
  ASSUME Inv, LockInv, NEW q \in Requests, AddItem(q), ~Rollback(q, "ended")
  PROVE  LockInv'
<1>1. /\ Op[q] = "addItem" /\ UNCHANGED tables
      /\ Goes(q, "commit", tx[q].at, tx[q].todo)
  BY AddItemGoes
<1>2. tx'[q].pc = "commit"
  BY <1>1 DEF Goes
<1>3. Knows(q)'
  BY <1>1, <1>2 DEF Knows, Reserving, Shipping
<1> QED
  BY <1>1, <1>3, QuietLock

LEMMA RemoveLotLock ==
  ASSUME Inv, LockInv, NEW q \in Requests, RemoveLot(q), ~Rollback(q, "ended")
  PROVE  LockInv'
<1>1. /\ Op[q] = "removeLot" /\ UNCHANGED tables
      /\ Goes(q, "softDelete", tx[q].at, tx[q].todo)
  BY RemoveLotGoes
<1>2. tx'[q].pc = "softDelete"
  BY <1>1 DEF Goes
<1>3. Knows(q)'
  BY <1>1, <1>2 DEF Knows, Reserving, Shipping
<1> QED
  BY <1>1, <1>3, QuietLock

LEMMA ConfirmDeliveryLock ==
  ASSUME Inv, LockInv, NEW q \in Requests, ConfirmDelivery(q), ~Rollback(q, "ended")
  PROVE  LockInv'
<1>1. /\ Op[q] = "confirm" /\ UNCHANGED tables
      /\ Goes(q, "casConfirmed", tx[q].at, tx[q].todo)
  BY ConfirmDeliveryGoes
<1>2. tx'[q].pc = "casConfirmed"
  BY <1>1 DEF Goes
<1>3. Knows(q)'
  BY <1>1, <1>2 DEF Knows, Reserving, Shipping
<1> QED
  BY <1>1, <1>3, QuietLock

LEMMA NextLineLock ==
  ASSUME Inv, LockInv, NEW q \in Requests, NextLine(q)
  PROVE  LockInv'
<1>1. /\ Op[q] = "confirm" /\ tx[q].pc = "nextLine" /\ UNCHANGED tables
      /\ Target[q] \in Deliveries
      /\ Goes(q, tx'[q].pc, tx'[q].at, tx'[q].todo)
      /\ \/ /\ tx'[q].pc = "nextReservation"
            /\ \E i \in tx[q].items : tx'[q].todo = ActiveReservations(q, i)
         \/ tx'[q].pc = "commit"
  BY NextLineGoes
<1>2. Knows(q)
  BY DEF LockInv, KnowsInv
<1>3. tx'[q].pc = "nextReservation" => \A p \in tx'[q].todo : reservations'[p].com.made
  <2> SUFFICES ASSUME tx'[q].pc = "nextReservation", NEW p \in tx'[q].todo
               PROVE  reservations'[p].com.made
    OBVIOUS
  <2>1. p \in Picks /\ Seen(q, picks[p]).linked
    BY <1>1 DEF ActiveReservations
  <2>2. PickHeld(p) /\ PickLinked(p) /\ q # Nobody
    BY <2>1, Workload DEF LockInv, HeldInv
  <2>3. picks[p].lock # q
    BY <1>1, <2>2 DEF PickHeld
  <2> QED
    BY <1>1, <2>1, <2>2, <2>3 DEF Seen, PickLinked, tables
<1>4. deliveries'[Target[q]].lock = q
  BY <1>1, <1>2 DEF Knows, Shipping, tables
<1>5. Knows(q)'
  BY <1>1, <1>3, <1>4 DEF Knows, Reserving, Shipping
<1> QED
  BY <1>1, <1>5, QuietLock

LEMMA NextReservationLock ==
  ASSUME Inv, LockInv, NEW q \in Requests, NextReservation(q), ~Rollback(q, "ended")
  PROVE  LockInv'
<1>1. /\ Op[q] = "confirm" /\ tx[q].pc = "nextReservation" /\ UNCHANGED tables
      /\ Target[q] \in Deliveries
      /\ Goes(q, tx'[q].pc, tx'[q].at, tx'[q].todo)
      /\ \/ tx'[q].pc = "nextLine"
         \/ tx'[q].pc = "nextReservation" /\ tx'[q].todo \subseteq tx[q].todo
         \/ /\ tx'[q].pc = "consume" /\ tx'[q].at \in tx[q].todo
            /\ tx'[q].todo \subseteq tx[q].todo
  BY NextReservationGoes
<1>2. Knows(q)
  BY DEF LockInv, KnowsInv
<1>3. /\ deliveries'[Target[q]].lock = q
      /\ \A p \in tx[q].todo : reservations'[p].com.made
  BY <1>1, <1>2 DEF Knows, Shipping, tables
<1>4. Knows(q)'
  BY <1>1, <1>3 DEF Knows, Reserving, Shipping
<1> QED
  BY <1>1, <1>4, QuietLock

\* The compare-and-set of a sale's status.
LEMMA SaleLock ==
  ASSUME Inv, LockInv, NEW q \in Requests, NEW pc, NEW at, NEW todo,
         Goes(q, pc, at, todo), NEW s \in Sales, NEW status,
         sales' = [sales EXCEPT ![s] = Put(q, @, status)],
         UNCHANGED <<lots, reservations, picks, deliveries, movements>>,
         SaleHeld(s)', Knows(q)'
  PROVE  LockInv'
<1>1. \A r \in Sales : SaleHeld(r)'
  <2>1. \A r \in Sales \ {s} : sales'[r] = sales[r]
    BY Tables
  <2> QED
    BY <2>1, KeepsSale
<1>2. \A d \in Deliveries : DeliveryHeld(d)'
  BY KeepsDelivery
<1>3. \A p \in Picks : PickHeld(p)'
  BY KeepsPick
<1>4. \A p \in Picks : ReservationHeld(p)'
  BY KeepsReservation
<1>5. \A d \in Deliveries, p \in Picks : MovementHeld(d, p)'
  BY KeepsMovement
<1>6. \A r \in Requests \ {q} : Knows(r)'
  BY OthersKnow
<1> QED
  BY <1>1, <1>2, <1>3, <1>4, <1>5, <1>6, KeepsRest DEF LockInv, HeldInv, KnowsInv

LEMMA TransitionToApprovedLock ==
  ASSUME Inv, LockInv, NEW q \in Requests, TransitionToApproved(q), ~Rollback(q, "ended")
  PROVE  LockInv'
<1> DEFINE s == Target[q]
<1>1. /\ tx[q].pc = "casApproved"
      /\ Goes(q, tx'[q].pc, tx'[q].at, tx[q].todo)
      /\ \/ tx[q].todo = {} /\ tx'[q].pc = "commit"
         \/ tx'[q].pc = "reserve" /\ tx'[q].at \in tx[q].todo
      /\ Seen(q, sales[s]) = "draft" /\ Lockable(q, sales[s])
      /\ sales' = [sales EXCEPT ![s] = Put(q, @, "approved")]
      /\ UNCHANGED <<lots, reservations, picks, deliveries, movements>>
  BY TransitionToApprovedGoes
<1>2. Knows(q) /\ Op[q] = "approve" /\ s \in Sales /\ q # Nobody
      /\ tx'[q].todo = tx[q].todo /\ tx'[q].items = tx[q].items
  BY <1>1, Workload DEF LockInv, KnowsInv, Knows, Goes
<1>3. sales[s].com = "draft"
  <2>1. SaleHeld(s)
    BY <1>2 DEF LockInv, HeldInv
  <2> QED
    BY <1>1, <1>2, <2>1 DEF SaleHeld, Seen, Reserving
<1>4. sales'[s].com = "draft" /\ sales'[s].cur = "approved" /\ sales'[s].lock = q
  BY <1>1, <1>2, <1>3, Tables DEF Put
<1>5. SaleHeld(s)'
  BY <1>1, <1>2, <1>4 DEF SaleHeld, Reserving
<1>6. tx'[q].items # {} /\ \A i \in tx'[q].items : Covered(q, i)'
  BY <1>1, <1>2 DEF Knows, Covered
<1>7. Knows(q)'
  BY <1>1, <1>2, <1>4, <1>6 DEF Knows, Reserving, Shipping
<1> QED
  BY <1>1, <1>2, <1>5, <1>7, SaleLock

LEMMA TransitionToCancelledLock ==
  ASSUME Inv, LockInv, NEW q \in Requests, TransitionToCancelled(q), ~Rollback(q, "ended")
  PROVE  LockInv'
<1> DEFINE s == Target[q]
<1>1. /\ tx[q].pc = "casCancelled"
      /\ Goes(q, "commit", tx[q].at, tx[q].todo)
      /\ Seen(q, sales[s]) \in {"draft", "approved"} /\ Lockable(q, sales[s])
      /\ sales' = [sales EXCEPT ![s] = Put(q, @, "cancelled")]
      /\ UNCHANGED <<lots, reservations, picks, deliveries, movements>>
  BY TransitionToCancelledGoes
<1>2. Knows(q) /\ Op[q] = "cancel" /\ s \in Sales /\ q # Nobody /\ tx'[q].pc = "commit"
  BY <1>1, Workload DEF LockInv, KnowsInv, Knows, Goes
<1>3. sales[s].com \in {"draft", "approved"}
  <2>1. SaleHeld(s)
    BY <1>2 DEF LockInv, HeldInv
  <2> QED
    BY <1>1, <1>2, <2>1 DEF SaleHeld, Seen, Reserving
<1>4. sales'[s].com = sales[s].com /\ sales'[s].cur = "cancelled" /\ sales'[s].lock = q
  BY <1>1, <1>2, Tables DEF Put
<1>5. SaleHeld(s)'
  BY <1>2, <1>3, <1>4 DEF SaleHeld
<1>6. Knows(q)'
  BY <1>2 DEF Knows, Reserving, Shipping
<1> QED
  BY <1>1, <1>2, <1>5, <1>6, SaleLock

\* A write of a delivery's status.
LEMMA DeliveryLock ==
  ASSUME Inv, LockInv, NEW q \in Requests, NEW pc, NEW at, NEW todo,
         Goes(q, pc, at, todo), NEW d \in Deliveries, NEW status,
         deliveries[d] # Fresh("none") \/ (Op[q] = "create" /\ Target[q] = d),
         deliveries' = [deliveries EXCEPT ![d] = Put(q, @, status)],
         UNCHANGED <<lots, reservations, picks, sales, movements>>,
         DeliveryHeld(d)', Knows(q)'
  PROVE  LockInv'
<1>0. \A e \in Deliveries \ {d} : deliveries'[e] = deliveries[e]
  BY Tables
<1>1. \A s \in Sales : SaleHeld(s)'
  BY KeepsSale
<1>2. \A e \in Deliveries : DeliveryHeld(e)'
  BY <1>0, KeepsDelivery
<1>3. \A p \in Picks : PickHeld(p)'
  BY KeepsPick
<1>4. \A p \in Picks : ReservationHeld(p)'
  BY KeepsReservation
<1>5. \A e \in Deliveries, p \in Picks : MovementHeld(e, p)'
  BY KeepsMovement
<1>6. \A r \in Requests \ {q} : Knows(r)'
  <2>1. \A e \in Deliveries : \/ deliveries'[e] = deliveries[e]
                              \/ deliveries[e] # Fresh("none")
                              \/ Op[q] = "create" /\ Target[q] = e
    BY <1>0
  <2>2. \A p \in Picks : picks'[p] = picks[p]
    OBVIOUS
  <2> QED
    BY <2>1, <2>2, OthersKnow
<1> QED
  BY <1>1, <1>2, <1>3, <1>4, <1>5, <1>6, KeepsRest DEF LockInv, HeldInv, KnowsInv

LEMMA CreateDeliveryLock ==
  ASSUME Inv, LockInv, NEW q \in Requests, CreateDelivery(q), ~Rollback(q, "ended")
  PROVE  LockInv'
<1> DEFINE d == Target[q]
<1>1. /\ Op[q] = "create" /\ d \in Deliveries
      /\ Goes(q, "commit", tx[q].at, tx[q].todo)
      /\ deliveries[d] = Fresh("none")
      /\ deliveries' = [deliveries EXCEPT ![d] = Put(q, @, "draft")]
      /\ UNCHANGED <<lots, reservations, picks, sales, movements>>
  BY CreateDeliveryGoes
<1>2. tx'[q].pc = "commit" /\ deliveries[d].com = "none"
  BY <1>1 DEF Goes, Fresh
<1>3. deliveries'[d].com = "none" /\ deliveries'[d].cur = "draft" /\ deliveries'[d].lock = q
  BY <1>1, <1>2, Tables DEF Put
<1>4. DeliveryHeld(d)'
  BY <1>1, <1>2, <1>3, Workload DEF DeliveryHeld
<1>5. Knows(q)'
  BY <1>1, <1>2 DEF Knows, Reserving, Shipping
<1> QED
  BY <1>1, <1>4, <1>5, DeliveryLock

LEMMA TransitionToConfirmedLock ==
  ASSUME Inv, LockInv, NEW q \in Requests, TransitionToConfirmed(q), ~Rollback(q, "ended")
  PROVE  LockInv'
<1> DEFINE d == Target[q]
<1>1. /\ Op[q] = "confirm" /\ tx[q].pc = "casConfirmed" /\ d \in Deliveries
      /\ Goes(q, "nextLine", tx[q].at, tx[q].todo)
      /\ Seen(q, deliveries[d]) = "draft" /\ Lockable(q, deliveries[d])
      /\ deliveries' = [deliveries EXCEPT ![d] = Put(q, @, "confirmed")]
      /\ UNCHANGED <<lots, reservations, picks, sales, movements>>
  BY TransitionToConfirmedGoes
<1>2. tx'[q].pc = "nextLine"
  BY <1>1 DEF Goes
<1>3. deliveries[d].com = "draft"
  <2>1. DeliveryHeld(d) /\ q # Nobody
    BY <1>1, Workload DEF LockInv, HeldInv
  <2> QED
    BY <1>1, <2>1 DEF DeliveryHeld, Seen, Shipping
<1>4. deliveries'[d].com = "draft" /\ deliveries'[d].cur = "confirmed" /\ deliveries'[d].lock = q
  BY <1>1, <1>3, Tables DEF Put
<1>5. DeliveryHeld(d)'
  BY <1>1, <1>2, <1>4, Workload DEF DeliveryHeld, Shipping
<1>6. Knows(q)'
  BY <1>1, <1>2, <1>4 DEF Knows, Reserving, Shipping
<1>7. deliveries[d] # Fresh("none")
  BY <1>3 DEF Fresh
<1> QED
  BY <1>1, <1>5, <1>6, <1>7, DeliveryLock

\* A write of a pick.
LEMMA PickLock ==
  ASSUME Inv, LockInv, NEW q \in Requests, NEW pc, NEW at, NEW todo,
         Goes(q, pc, at, todo), NEW p \in Picks, NEW pick,
         picks[p] # Fresh([live |-> FALSE, linked |-> FALSE])
           \/ (Op[q] = "addLot" /\ Target[q] = p),
         picks' = [picks EXCEPT ![p] = Put(q, @, pick)],
         UNCHANGED <<lots, reservations, sales, deliveries, movements>>,
         PickHeld(p)', Knows(q)'
  PROVE  LockInv'
<1>0. \A r \in Picks \ {p} : picks'[r] = picks[r]
  BY Tables
<1>1. \A s \in Sales : SaleHeld(s)'
  BY KeepsSale
<1>2. \A d \in Deliveries : DeliveryHeld(d)'
  BY KeepsDelivery
<1>3. \A r \in Picks : PickHeld(r)'
  BY <1>0, KeepsPick
<1>4. \A r \in Picks : ReservationHeld(r)'
  BY KeepsReservation
<1>5. \A d \in Deliveries, r \in Picks : MovementHeld(d, r)'
  BY KeepsMovement
<1>6. \A r \in Requests \ {q} : Knows(r)'
  <2>1. \A r \in Picks : \/ picks'[r] = picks[r]
                         \/ picks[r] # Fresh([live |-> FALSE, linked |-> FALSE])
                         \/ Op[q] = "addLot" /\ Target[q] = r
    BY <1>0
  <2>2. \A d \in Deliveries : deliveries'[d] = deliveries[d]
    OBVIOUS
  <2> QED
    BY <2>1, <2>2, OthersKnow
<1> QED
  BY <1>1, <1>2, <1>3, <1>4, <1>5, <1>6, KeepsRest DEF LockInv, HeldInv, KnowsInv

LEMMA LinkReservationLock ==
  ASSUME Inv, LockInv, NEW q \in Requests, LinkReservation(q)
  PROVE  LockInv'
<1>0. PICK p \in Picks : p = tx[q].at
  BY LinkReservationGoes
<1>1. /\ tx[q].pc = "link"
      /\ Goes(q, tx'[q].pc, tx'[q].at, tx[q].todo \ {p})
      /\ \/ tx[q].todo \ {p} = {} /\ tx'[q].pc = "commit"
         \/ tx'[q].pc = "reserve" /\ tx'[q].at \in tx[q].todo \ {p}
      /\ UNCHANGED <<lots, reservations, sales, deliveries, movements>>
  BY <1>0, LinkReservationGoes
<1>2. /\ Knows(q) /\ Op[q] = "approve" /\ q # Nobody
      /\ tx'[q].todo = tx[q].todo \ {p} /\ tx'[q].items = tx[q].items
      /\ reservations[p].lock = q
  BY <1>0, <1>1, Workload DEF LockInv, KnowsInv, Knows, Goes, Reserving
<1>3. reservations[p].cur.made
  <2>1. ReservationHeld(p)
    BY <1>1 DEF LockInv, HeldInv
  <2> QED
    BY <1>2, <2>1 DEF ReservationHeld
<1>4. tx'[q].items # {} /\ \A i \in tx'[q].items : Covered(q, i)'
  BY <1>1, <1>2, <1>3 DEF Knows, Covered, Reserving
<1>5. Knows(q)'
  BY <1>1, <1>2, <1>4 DEF Knows, Reserving, Shipping
<1>6. CASE UNCHANGED picks
  BY <1>1, <1>5, <1>6, QuietLock DEF tables
<1>7. CASE /\ Seen(q, picks[p]).live /\ Lockable(q, picks[p])
           /\ picks' = [picks EXCEPT ![p] = Put(q, @, [@.cur EXCEPT !.linked = TRUE])]
  <2>1. PickHeld(p) /\ picks[p] \in Versioned(PickRow, Requests)
    BY <1>1, Tables DEF LockInv, HeldInv
  <2>2. picks[p].com.live /\ picks[p].cur.live
    BY <1>1, <1>2, <1>7, <2>1 DEF PickHeld, Seen, Lockable
  <2> DEFINE new == [picks[p].cur EXCEPT !.linked = TRUE]
  <2>3. picks' = [picks EXCEPT ![p] = Put(q, @, new)]
    BY <1>7
  <2>4. new.live
    BY <2>1, <2>2 DEF Versioned, PickRow
  <2> HIDE DEF new
  <2>5. picks'[p].com = picks[p].com /\ picks'[p].cur = new /\ picks'[p].lock = q
    BY <1>1, <2>3, Tables DEF Put
  <2>6. PickHeld(p)'
    BY <1>1, <1>2, <1>3, <2>2, <2>4, <2>5 DEF PickHeld, Reserving
  <2>7. picks[p] # Fresh([live |-> FALSE, linked |-> FALSE])
    BY <2>2 DEF Fresh
  <2> QED
    BY <1>1, <1>5, <2>3, <2>6, <2>7, PickLock
<1> QED
  BY <1>0, <1>6, <1>7, LinkReservationGoes

LEMMA AddLotLock ==
  ASSUME Inv, LockInv, NEW q \in Requests, AddLot(q), ~Rollback(q, "ended")
  PROVE  LockInv'
<1> DEFINE p == Target[q]
           new == [live |-> TRUE, linked |-> FALSE]
<1>1. /\ Op[q] = "addLot" /\ p \in Picks
      /\ Goes(q, "commit", tx[q].at, tx[q].todo)
      /\ picks[p] = Fresh([live |-> FALSE, linked |-> FALSE])
      /\ picks' = [picks EXCEPT ![p] = Put(q, @, new)]
      /\ UNCHANGED <<lots, reservations, sales, deliveries, movements>>
  BY AddLotGoes
<1>2. tx'[q].pc = "commit" /\ q # Nobody
  BY <1>1, Workload DEF Goes
<1>3. /\ picks'[p].com = [live |-> FALSE, linked |-> FALSE]
      /\ picks'[p].cur = new /\ picks'[p].lock = q
  BY <1>1, Tables DEF Put, Fresh
<1>4. PickHeld(p)'
  BY <1>1, <1>2, <1>3 DEF PickHeld
<1>5. Knows(q)'
  BY <1>1, <1>2 DEF Knows, Reserving, Shipping
<1> QED
  BY <1>1, <1>4, <1>5, PickLock

LEMMA SoftDeletePickLock ==
  ASSUME Inv, LockInv, NEW q \in Requests, SoftDeletePick(q), ~Rollback(q, "ended")
  PROVE  LockInv'
<1> DEFINE p == Target[q]
           new == [picks[p].cur EXCEPT !.live = FALSE]
<1>1. /\ Op[q] = "removeLot" /\ tx[q].pc = "softDelete" /\ p \in Picks
      /\ Goes(q, "commit", tx[q].at, tx[q].todo)
      /\ Seen(q, picks[p]).live /\ Lockable(q, picks[p])
      /\ picks' = [picks EXCEPT ![p] = Put(q, @, new)]
      /\ UNCHANGED <<lots, reservations, sales, deliveries, movements>>
  BY SoftDeletePickGoes
<1>2. tx'[q].pc = "commit" /\ q # Nobody
  BY <1>1, Workload DEF Goes
<1>3. picks[p].cur = picks[p].com /\ picks[p].com.live
  <2>1. PickHeld(p)
    BY <1>1 DEF LockInv, HeldInv
  <2> QED
    BY <1>1, <1>2, <2>1 DEF PickHeld, Seen, Lockable
<1>4. new = [picks[p].com EXCEPT !.live = FALSE]
  BY <1>3
<1> HIDE DEF new
<1>5. picks'[p].com = picks[p].com /\ picks'[p].cur = new /\ picks'[p].lock = q
  BY <1>1, Tables DEF Put
<1>6. PickHeld(p)'
  BY <1>1, <1>2, <1>3, <1>4, <1>5 DEF PickHeld
<1>7. Knows(q)'
  BY <1>1, <1>2 DEF Knows, Reserving, Shipping
<1>8. picks[p] # Fresh([live |-> FALSE, linked |-> FALSE])
  BY <1>3 DEF Fresh
<1> QED
  BY <1>1, <1>6, <1>7, <1>8, PickLock

\* A write of a lot and a reservation, and perhaps of movements.
LEMMA ReservationLock ==
  ASSUME Inv, LockInv, NEW q \in Requests, NEW pc, NEW at, NEW todo,
         Goes(q, pc, at, todo), NEW p \in Picks, NEW reservation,
         reservations' = [reservations EXCEPT ![p] = Put(q, @, reservation)],
         UNCHANGED <<picks, sales, deliveries>>,
         \A d \in Deliveries, r \in Picks :
           movements'[<<d, r>>] = movements[<<d, r>>] \/ MovementHeld(d, r)',
         ReservationHeld(p)', Knows(q)'
  PROVE  LockInv'
<1>0. \A r \in Picks \ {p} : reservations'[r] = reservations[r]
  BY Tables
<1>1. \A s \in Sales : SaleHeld(s)'
  BY KeepsSale
<1>2. \A d \in Deliveries : DeliveryHeld(d)'
  BY KeepsDelivery
<1>3. \A r \in Picks : PickHeld(r)'
  BY KeepsPick
<1>4. \A r \in Picks : ReservationHeld(r)'
  BY <1>0, KeepsReservation
<1>5. \A d \in Deliveries, r \in Picks : MovementHeld(d, r)'
  BY KeepsMovement
<1>6. \A r \in Requests \ {q} : Knows(r)'
  <2>1. \A r \in Picks : picks'[r] = picks[r]
    OBVIOUS
  <2>2. \A d \in Deliveries : deliveries'[d] = deliveries[d]
    OBVIOUS
  <2> QED
    BY <2>1, <2>2, OthersKnow
<1> QED
  BY <1>1, <1>2, <1>3, <1>4, <1>5, <1>6, KeepsRest DEF LockInv, HeldInv, KnowsInv

LEMMA ReserveFromLotLock ==
  ASSUME Inv, LockInv, NEW q \in Requests, ReserveFromLot(q), ~Rollback(q, "ended")
  PROVE  LockInv'
<1>0. PICK p \in Picks : p = tx[q].at
  BY ReserveFromLotGoes
<1> DEFINE l == PickLot[p]
<1>1. /\ tx[q].pc = "reserve" /\ l \in Lots
      /\ Goes(q, "link", p, tx[q].todo)
      /\ ~reservations[p].com.made
      /\ lots' = [lots EXCEPT ![l] = Put(q, @, AfterReserve(lots[l].cur, PickQty[p]))]
      /\ reservations' = [reservations EXCEPT ![p] = Put(q, @, ReservationMade(TRUE))]
      /\ UNCHANGED <<picks, sales, deliveries, movements>>
  BY <1>0, ReserveFromLotGoes
<1>2. /\ Knows(q) /\ Op[q] = "approve" /\ q # Nobody
      /\ tx'[q].pc = "link" /\ tx'[q].at = p /\ tx'[q].todo = tx[q].todo
      /\ tx'[q].items = tx[q].items
      /\ p \in tx[q].todo /\ SaleOfPick(p) = Target[q] /\ Target[q] \in Sales
      /\ sales[Target[q]].lock = q
  BY <1>0, <1>1, Workload DEF LockInv, KnowsInv, Knows, Goes, Reserving
<1>3. /\ reservations'[p].com = reservations[p].com
      /\ reservations'[p].cur = ReservationMade(TRUE) /\ reservations'[p].lock = q
      /\ lots'[l].lock = q
  BY <1>1, Tables DEF Put
<1>4. ReservationHeld(p)
  BY <1>1 DEF LockInv, HeldInv
<1>5. ReservationHeld(p)'
  BY <1>1, <1>2, <1>3, <1>4 DEF ReservationHeld, ReservationMade, SaleOfPick
<1>6. tx'[q].items # {} /\ \A i \in tx'[q].items : Covered(q, i)'
  <2>1. \A r \in Picks : /\ reservations[r].lock = q => reservations'[r].lock = q
                         /\ reservations[r].cur.made => reservations'[r].cur.made
    BY <1>1, <1>2, Keeps
  <2>2. tx[q].items # {} /\ \A i \in tx[q].items : Covered(q, i)
    BY <1>1, <1>2 DEF Knows, Reserving
  <2>3. \A i : Covered(q, i) => Covered(q, i)'
    BY <1>2, <2>1 DEF Covered
  <2> QED
    BY <1>2, <2>2, <2>3
<1>7. Knows(q)'
  BY <1>1, <1>2, <1>3, <1>6 DEF Knows, Reserving, Shipping
<1> QED
  BY <1>1, <1>5, <1>7, ReservationLock

LEMMA ReleaseReservationLock ==
  ASSUME Inv, LockInv, NEW q \in Requests, ReleaseReservation(q)
  PROVE  LockInv'
<1>0. PICK p \in Picks : p = tx[q].at
  BY ReleaseReservationGoes
<1> DEFINE l == PickLot[p]
           new == [reservations[p].cur EXCEPT !.released = TRUE]
<1>1. /\ tx[q].pc = "release" /\ l \in Lots
      /\ Goes(q, "findReservation", p, tx[q].todo \ {p})
      /\ Lockable(q, reservations[p])
      /\ lots' = [lots EXCEPT ![l] = Put(q, @, AfterRelease(lots[l].cur, PickQty[p] - tx[q].read))]
      /\ reservations' = [reservations EXCEPT ![p] = Put(q, @, new)]
      /\ UNCHANGED <<picks, sales, deliveries, movements>>
  BY <1>0, ReleaseReservationGoes, SMTT(30)
<1>2. /\ Knows(q) /\ Op[q] = "cancel" /\ q # Nobody
      /\ tx'[q].pc = "findReservation" /\ tx'[q].todo = tx[q].todo \ {p}
      /\ reservations[p].com.made
  BY <1>0, <1>1, Workload DEF LockInv, KnowsInv, Knows, Goes
<1>3. /\ ReservationHeld(p)
      /\ reservations[p].com \in ReservationRow /\ reservations[p].cur \in ReservationRow
  BY <1>1, Tables DEF LockInv, HeldInv, Versioned
<1>4. reservations[p].cur.made /\ reservations[p].cur.consumed = reservations[p].com.consumed
  BY <1>1, <1>2, <1>3 DEF ReservationHeld, Lockable
<1>5. new.made /\ new.released /\ new.consumed = reservations[p].com.consumed
  BY <1>3, <1>4 DEF ReservationRow
<1> HIDE DEF new
<1>6. /\ reservations'[p].com = reservations[p].com
      /\ reservations'[p].cur = new /\ reservations'[p].lock = q
      /\ lots'[l].lock = q
  BY <1>1, Tables DEF Put
<1>7. ReservationHeld(p)'
  BY <1>2, <1>3, <1>5, <1>6 DEF ReservationHeld
<1>8. \A r \in tx'[q].todo : reservations'[r].com.made
  <2>1. tx[q].todo \subseteq Picks
    BY Tables DEF TxState
  <2>2. \A r \in Picks : reservations'[r].com = reservations[r].com
    BY <1>1, Keeps
  <2> QED
    BY <1>1, <1>2, <2>1, <2>2 DEF Knows
<1>9. Knows(q)'
  BY <1>2, <1>8 DEF Knows, Reserving, Shipping
<1> QED
  BY <1>1, <1>7, <1>9, ReservationLock

LEMMA ConsumeReservationLock ==
  ASSUME Inv, LockInv, NEW q \in Requests, ConsumeReservation(q)
  PROVE  LockInv'
<1>0. PICK p \in Picks : p = tx[q].at
  BY ConsumeReservationGoes
<1> DEFINE d == Target[q]
           l == PickLot[p]
           new == [reservations[p].cur EXCEPT
                     !.consumed = NewConsumed(q),
                     !.fully = @ \/ NewConsumed(q) >= PickQty[p]]
<1>1. /\ Op[q] = "confirm" /\ tx[q].pc = "consume"
      /\ d \in Deliveries /\ l \in Lots
      /\ Goes(q, "nextReservation", p, tx[q].todo)
      /\ deliveries[d].lock = q /\ Lockable(q, reservations[p])
      /\ lots' = [lots EXCEPT ![l] = Put(q, @, AfterConsume(lots[l].cur, tx[q].qty))]
      /\ reservations' = [reservations EXCEPT ![p] = Put(q, reservations[p], new)]
      /\ movements' = [movements EXCEPT ![<<d, p>>] = Put(q, @, tx[q].qty)]
      /\ UNCHANGED <<picks, sales, deliveries>>
  BY <1>0, ConsumeReservationGoes
<1>2. /\ Knows(q) /\ q # Nobody
      /\ tx'[q].pc = "nextReservation" /\ tx'[q].todo = tx[q].todo
      /\ reservations[p].com.made
  BY <1>0, <1>1, Workload DEF LockInv, KnowsInv, Knows, Goes
<1>3. /\ ReservationHeld(p)
      /\ reservations[p].com \in ReservationRow /\ reservations[p].cur \in ReservationRow
  BY <1>1, Tables DEF LockInv, HeldInv, Versioned
<1>4. reservations[p].cur.made /\ reservations[p].cur.released = reservations[p].com.released
  BY <1>1, <1>2, <1>3 DEF ReservationHeld, Lockable
<1>5. new.made = reservations[p].cur.made /\ new.released = reservations[p].cur.released
  BY <1>3 DEF ReservationRow
<1> HIDE DEF new
<1>6. /\ reservations'[p].com = reservations[p].com
      /\ reservations'[p].cur = new /\ reservations'[p].lock = q
      /\ lots'[l].lock = q
  BY <1>1, Tables DEF Put
<1>7. ReservationHeld(p)'
  BY <1>1, <1>2, <1>3, <1>4, <1>5, <1>6 DEF ReservationHeld
<1>8. \A r \in tx'[q].todo : reservations'[r].com.made
  <2>1. tx[q].todo \subseteq Picks
    BY Tables DEF TxState
  <2>2. \A r \in Picks : reservations'[r].com = reservations[r].com
    BY <1>1, Keeps
  <2> QED
    BY <1>1, <1>2, <2>1, <2>2 DEF Knows
<1>9. Knows(q)'
  BY <1>1, <1>2, <1>8 DEF Knows, Reserving, Shipping
<1>10. MovementHeld(d, p)'
  <2>1. MovementHeld(d, p) /\ <<d, p>> \in Deliveries \X Picks
    BY <1>1 DEF LockInv, HeldInv
  <2>2. movements'[<<d, p>>].com = movements[<<d, p>>].com /\ movements'[<<d, p>>].lock = q
    BY <1>1, <2>1, Tables DEF Put
  <2> QED
    BY <1>1, <1>2, <1>6, <2>1, <2>2 DEF MovementHeld
<1>11. \A e \in Deliveries, r \in Picks :
         movements'[<<e, r>>] = movements[<<e, r>>] \/ MovementHeld(e, r)'
  <2> TAKE e \in Deliveries, r \in Picks
  <2>1. CASE e = d /\ r = p
    BY <1>10, <2>1
  <2>2. CASE ~(e = d /\ r = p)
    <3>1. <<e, r>> # <<d, p>> /\ <<e, r>> \in Deliveries \X Picks
      BY <2>2
    <3>2. movements'[<<e, r>>] = movements[<<e, r>>]
      BY <1>1, <3>1, Tables
    <3> QED
      BY <3>2
  <2> QED
    BY <2>1, <2>2
<1> QED
  BY <1>1, <1>7, <1>9, <1>11, ReservationLock

-----------------------------------------------------------------------------
(* Locks: the theorems.                                                    *)

LEMMA InitLock == Init => LockInv
<1> SUFFICES ASSUME Init PROVE LockInv
  OBVIOUS
<1>1. /\ \A s \in Sales : sales[s] = Fresh("draft")
      /\ \A d \in Deliveries : deliveries[d] = Fresh("none")
      /\ \A l \in Lots : lots[l] = Fresh([reserved |-> 0, delivered |-> 0])
      /\ \A p \in Picks : picks[p] = Fresh([live |-> p \in InitialPicks, linked |-> FALSE])
      /\ \A p \in Picks : reservations[p] = Fresh(ReservationMade(FALSE))
      /\ \A d \in Deliveries, p \in Picks : movements[<<d, p>>] = Fresh(0)
      /\ \A q \in Requests : tx[q] = TxAt("new")
  BY DEF Init
<1>2. HeldInv
  <2>1. \A s \in Sales : SaleHeld(s)
    BY <1>1 DEF SaleHeld, Fresh
  <2>2. \A d \in Deliveries : DeliveryHeld(d)
    BY <1>1 DEF DeliveryHeld, Fresh
  <2>3. \A p \in Picks : PickHeld(p) /\ PickLinked(p)
    <3>1. \A p \in Picks : /\ picks[p].cur = picks[p].com /\ picks[p].lock = Nobody
                           /\ picks[p].com.linked = FALSE
      <4> TAKE p \in Picks
      <4>1. picks[p] = Fresh([live |-> p \in InitialPicks, linked |-> FALSE])
        BY <1>1
      <4> QED
        BY <4>1 DEF Fresh
    <3> QED
      BY <3>1 DEF PickHeld, PickLinked
  <2>4. \A p \in Picks : ReservationHeld(p)
    <3>1. \A p \in Picks : /\ reservations[p].com = ReservationMade(FALSE)
                           /\ reservations[p].cur = reservations[p].com
                           /\ reservations[p].lock = Nobody
      <4> TAKE p \in Picks
      <4>1. reservations[p] = Fresh(ReservationMade(FALSE))
        BY <1>1
      <4> QED
        BY <4>1 DEF Fresh
    <3> QED
      BY <3>1 DEF ReservationHeld
  <2>5. \A d \in Deliveries, p \in Picks : MovementHeld(d, p)
    <3>1. \A d \in Deliveries, p \in Picks :
            LET row == movements[<<d, p>>] IN
            row.com = 0 /\ row.cur = 0 /\ row.lock = Nobody
      <4> TAKE d \in Deliveries, p \in Picks
      <4>1. movements[<<d, p>>] = Fresh(0)
        BY <1>1
      <4> QED
        BY <4>1 DEF Fresh
    <3> QED
      BY <3>1 DEF MovementHeld
  <2>6. \A l \in Lots : LotHeld(l)
    BY <1>1 DEF LotHeld, Fresh
  <2> QED
    BY <2>1, <2>2, <2>3, <2>4, <2>5, <2>6 DEF HeldInv
<1>3. KnowsInv
  <2> SUFFICES ASSUME NEW q \in Requests PROVE Knows(q)
    BY DEF KnowsInv
  <2>1. tx[q].pc = "new"
    BY <1>1, TxAtType
  <2>2. Op[q] = "addLot" => picks[Target[q]] = Fresh([live |-> FALSE, linked |-> FALSE])
    <3>1. Op[q] = "addLot" => Target[q] \in Picks /\ Target[q] \notin InitialPicks
      BY Workload, WorkloadAssumption
    <3> SUFFICES ASSUME Op[q] = "addLot"
                 PROVE  picks[Target[q]] = Fresh([live |-> FALSE, linked |-> FALSE])
      OBVIOUS
    <3>2. picks[Target[q]] = Fresh([live |-> Target[q] \in InitialPicks, linked |-> FALSE])
      BY <1>1, <3>1
    <3>3. (Target[q] \in InitialPicks) = FALSE
      BY <3>1
    <3> QED
      BY <3>2, <3>3, Zenon
  <2>3. Op[q] = "create" => deliveries[Target[q]] = Fresh("none")
    BY <1>1, Workload
  <2> QED
    BY <2>1, <2>2, <2>3 DEF Knows, Reserving, Shipping
<1>4. DraftUnreserved
  BY <1>1 DEF DraftUnreserved, Fresh, ReservationMade
<1> QED
  BY <1>2, <1>3, <1>4 DEF LockInv

LEMMA NextLock == Inv /\ Inv' /\ LockInv /\ [Next]_vars => LockInv'
<1> SUFFICES ASSUME Inv, Inv', LockInv, [Next]_vars PROVE LockInv'
  OBVIOUS
<1>1. CASE UNCHANGED vars
  <2>1. HeldInv'
    <3>1. \A s \in Sales : SaleHeld(s) <=> SaleHeld(s)'
      BY <1>1 DEF vars, SaleHeld
    <3>2. \A d \in Deliveries : DeliveryHeld(d) <=> DeliveryHeld(d)'
      BY <1>1 DEF vars, DeliveryHeld
    <3>3. \A p \in Picks : /\ PickHeld(p) <=> PickHeld(p)'
                           /\ PickLinked(p) <=> PickLinked(p)'
      BY <1>1 DEF vars, PickHeld, PickLinked
    <3>4. \A p \in Picks : ReservationHeld(p) <=> ReservationHeld(p)'
      BY <1>1 DEF vars, ReservationHeld
    <3>5. \A d \in Deliveries, p \in Picks : MovementHeld(d, p) <=> MovementHeld(d, p)'
      BY <1>1 DEF vars, MovementHeld
    <3>6. \A l \in Lots : LotHeld(l) <=> LotHeld(l)'
      BY <1>1 DEF vars, LotHeld, Open
    <3> QED
      BY <3>1, <3>2, <3>3, <3>4, <3>5, <3>6 DEF LockInv, HeldInv
  <2>2. KnowsInv'
    <3>1. \A q, i : Covered(q, i) <=> Covered(q, i)'
      BY <1>1 DEF vars, Covered
    <3>2. \A q \in Requests : Knows(q) <=> Knows(q)'
      BY <1>1, <3>1 DEF vars, Knows
    <3> QED
      BY <3>2 DEF LockInv, KnowsInv
  <2>3. DraftUnreserved'
    BY <1>1 DEF vars, LockInv, DraftUnreserved
  <2> QED
    BY <2>1, <2>2, <2>3 DEF LockInv
<1>2. CASE Done
  BY <1>1, <1>2 DEF Done
<1>3. ASSUME NEW q \in Requests, Rollback(q, "ended")
      PROVE  LockInv'
  BY <1>3, RollbackLock DEF Ended
<1>4. ASSUME NEW q \in Requests, ~Rollback(q, "ended"), ApproveStep(q) \/ CancelStep(q)
      PROVE  LockInv'
  BY <1>4, ApproveLock, TransitionToApprovedLock, ReserveFromLotLock, LinkReservationLock,
     CancelLock, FindReservationLock, ReleaseReservationLock, TransitionToCancelledLock
  DEF ApproveStep, CancelStep
<1>5. ASSUME NEW q \in Requests, ~Rollback(q, "ended"), PickStep(q)
      PROVE  LockInv'
  BY <1>5, AddItemLock, AddLotLock, RemoveLotLock, SoftDeletePickLock DEF PickStep
<1>6. ASSUME NEW q \in Requests, ~Rollback(q, "ended"), DeliverStep(q)
      PROVE  LockInv'
  BY <1>6, CreateDeliveryLock, ConfirmDeliveryLock, TransitionToConfirmedLock,
     NextLineLock, NextReservationLock, ConsumeReservationLock
  DEF DeliverStep
<1>7. ASSUME NEW q \in Requests, Crash(q) \/ DeadlockVictim(q)
      PROVE  LockInv'
  BY <1>3, <1>7 DEF Crash, DeadlockVictim
<1> QED
  BY <1>1, <1>2, <1>3, <1>4, <1>5, <1>6, <1>7, CommitLock DEF Next, Step

\* At every statement, each locked row is held by a request that may hold it
\* there, with the version it wrote; and a request that works on a sale, a
\* delivery or a pick finds there what it read before.
THEOREM Locking == Spec => [](Inv /\ LockInv)
<1>1. Init => Inv /\ LockInv
  BY InitInv, InitLock
<1>2. Inv /\ LockInv /\ [Next]_vars => (Inv /\ LockInv)'
  BY NextInv, NextLock
<1> QED
  BY <1>1, <1>2, PTL DEF Spec

\* Only its own commit shows an approval to others.
LEMMA ApprovedByCommit ==
  ASSUME Inv, Inv', LockInv, [Next]_vars, NEW s \in Sales,
         sales[s].com = "draft", sales'[s].com = "approved"
  PROVE  LET q == sales[s].lock IN
         q \in Requests /\ Commit(q) /\ Op[q] = "approve" /\ Target[q] = s
<1>1. ~UNCHANGED vars
  BY DEF vars
<1>2. PICK q \in Requests : Step(q) \/ Crash(q) \/ DeadlockVictim(q)
  BY <1>1 DEF Next, Done
<1>3. ~Rollback(q, "ended")
  BY RollbackEnds DEF EndsAs
<1>4. ASSUME NEW pc, NEW at, NEW todo, Goes(q, pc, at, todo) PROVE FALSE
  BY <1>4, Keeps
<1>5. ~ApproveStep(q)
  BY <1>3, <1>4, ApproveGoes, TransitionToApprovedGoes, ReserveFromLotGoes,
     LinkReservationGoes DEF ApproveStep
<1>6. ~CancelStep(q)
  BY <1>3, <1>4, CancelGoes, FindReservationGoes, ReleaseReservationGoes,
     TransitionToCancelledGoes DEF CancelStep
<1>7. ~PickStep(q)
  BY <1>3, <1>4, AddItemGoes, AddLotGoes, RemoveLotGoes, SoftDeletePickGoes DEF PickStep
<1>8. ~DeliverStep(q)
  BY <1>3, <1>4, CreateDeliveryGoes, ConfirmDeliveryGoes, TransitionToConfirmedGoes,
     NextLineGoes, NextReservationGoes, ConsumeReservationGoes DEF DeliverStep
<1>9. Commit(q)
  BY <1>2, <1>3, <1>5, <1>6, <1>7, <1>8 DEF Step, Crash, DeadlockVictim
<1>10. EndsAs(q, sales[s], sales'[s], sales[s].cur) /\ SaleHeld(s) /\ q # Nobody
  BY <1>9, CommitEnds, Workload DEF LockInv, HeldInv
<1> QED
  BY <1>9, <1>10 DEF EndsAs, SaleHeld

\* Whatever interrupts it, the approval of a sale commits a reservation for
\* every item that it read, or leaves the sale a draft without any.
THEOREM AtomicApproval == Spec => ApprovalIsAtomic
<1> DEFINE Atomic(s) ==
             LET read == tx[sales[s].lock].items IN
             /\ sales'[s].com = "draft" =>
                  \A p \in Picks : ItemSale[PickItem[p]] = s => ~Reservation(p)'.made
             /\ sales[s].com = "draft" /\ sales'[s].com = "approved" =>
                  /\ read # {}
                  /\ \A i \in read : \E p \in Picks :
                       PickItem[p] = i /\ Reservation(p)'.made
<1>1. ASSUME Inv, LockInv, Inv', LockInv', [Next]_vars, NEW s \in Sales
      PROVE  Atomic(s)
  <2>1. ASSUME sales'[s].com = "draft", NEW p \in Picks, ItemSale[PickItem[p]] = s
        PROVE  ~Reservation(p)'.made
    BY <1>1, <2>1 DEF LockInv, DraftUnreserved, SaleOfPick, Reservation
  <2>2. ASSUME sales[s].com = "draft", sales'[s].com = "approved"
        PROVE  LET read == tx[sales[s].lock].items IN
               /\ read # {}
               /\ \A i \in read : \E p \in Picks :
                    PickItem[p] = i /\ Reservation(p)'.made
    <3> DEFINE q == sales[s].lock
    <3>1. q \in Requests /\ Commit(q) /\ Op[q] = "approve" /\ Target[q] = s
      BY <1>1, <2>2, ApprovedByCommit
    <3>2. tx[q].items # {} /\ tx[q].todo = {} /\ \A i \in tx[q].items : Covered(q, i)
      BY <1>1, <3>1 DEF LockInv, KnowsInv, Knows, Commit, At, Reserving
    <3>3. ASSUME NEW p \in Picks, reservations[p].lock = q
          PROVE  reservations'[p].com.made
      <4>1. EndsAs(q, reservations[p], reservations'[p], reservations[p].cur)
        BY <1>1, <3>1, CommitEnds
      <4>2. ReservationHeld(p) /\ q # Nobody
        BY <1>1, <3>1, Workload DEF LockInv, HeldInv
      <4> QED
        BY <3>3, <4>1, <4>2 DEF EndsAs, ReservationHeld
    <3>4. \A i \in tx[q].items : \E p \in Picks : PickItem[p] = i /\ reservations'[p].com.made
      BY <3>2, <3>3 DEF Covered
    <3> QED
      BY <3>2, <3>4 DEF Reservation
  <2> QED
    BY <2>1, <2>2
<1>2. Inv /\ LockInv /\ (Inv /\ LockInv)' /\ [Next]_vars => [\A s \in Sales : Atomic(s)]_vars
  BY <1>1
<1> QED
  BY <1>2, Locking, PTL DEF Spec, ApprovalIsAtomic

-----------------------------------------------------------------------------
(* What was shipped, by delivery and line and by lot.                      *)

ComMoves(d) == [p \in Picks |-> movements[<<d, p>>].com]
CurMoves(d) == [p \in Picks |-> movements[<<d, p>>].cur]
PicksOf(i) == {p \in Picks : PickItem[p] = i}
PicksAt(l) == {p \in Picks : PickLot[p] = l}

\* What a confirmation has shipped so far: all of the lines before the one at
\* hand, of that one what is no longer left, and nothing of the others.
LineShipped(q, i) == Total(CurMoves(Target[q]), PicksOf(i))
DoneLines(q, i) == LineShipped(q, i) = DelivQty[Target[q]][i]

\* The loop invariant of confirmDelivery and of the consumption within a line.
ShipOK(q) ==
  LET t == tx[q]
      d == Target[q]
  IN
  Op[q] = "confirm" /\ t.pc \in Shipping =>
    /\ t.items \subseteq LinesOf(d)
    /\ \A i \in t.items : LineShipped(q, i) = 0
    /\ t.pc \in {"nextLine", "commit"} => \A i \in Items \ t.items : DoneLines(q, i)
    /\ t.pc = "commit" => t.items = {}
    /\ t.pc \in {"nextReservation", "consume"} =>
         \E i \in Items \ t.items :
           /\ LineShipped(q, i) + t.left = DelivQty[d][i]
           /\ \A j \in (Items \ t.items) \ {i} : DoneLines(q, j)
           /\ \A p \in t.todo : PickItem[p] = i /\ movements[<<d, p>>].cur = 0
           /\ t.pc = "consume" => /\ PickItem[t.at] = i
                                  /\ movements[<<d, t.at>>].cur = 0
                                  /\ t.at \notin t.todo

\* A confirmed delivery has shipped its lines.
ShippedLines ==
  \A d \in Deliveries, i \in Items :
    deliveries[d].com = "confirmed" => Total(ComMoves(d), PicksOf(i)) = DelivQty[d][i]

ShipInv == ShippedLines /\ \A q \in Requests : ShipOK(q)

\* Shipped from each reservation, over all deliveries.
ComShipped == [p \in Picks |-> Total([d \in Deliveries |-> movements[<<d, p>>].com], Deliveries)]
CurShipped == [p \in Picks |-> Total([d \in Deliveries |-> movements[<<d, p>>].cur], Deliveries)]

\* A lot counts what is shipped from its reservations.
CountInv ==
  \A l \in Lots :
    /\ lots[l].com.delivered = Total(ComShipped, PicksAt(l))
    /\ lots[l].cur.delivered = Total(CurShipped, PicksAt(l))
-----------------------------------------------------------------------------
(* Sums of movements. *)

LEMMA SumOfDelivery ==
  ASSUME NEW S, IsFiniteSet(S), NEW M, NEW d
  PROVE  MapThenSumSet(LAMBDA x : M[d, x].com, S) = Total([x \in S |-> M[d, x].com], S)
<1> DEFINE w == [x \in S |-> M[d, x].com]
           Sums(h) == h = [s \in SUBSET S |->
                             IF s = {} THEN 0
                             ELSE M[d, Pick(s)].com + h[s \ {Pick(s)}]]
<1>1. MapThenSumSet(LAMBDA x : M[d, x].com, S) = (CHOOSE h : Sums(h))[S]
  BY DEF MapThenSumSet, MapThenFoldSet, Pick
<1>2. \A s \in SUBSET S : s # {} => Pick(s) \in S
  BY DEF Pick
<1>3. ASSUME NEW h
      PROVE  Sums(h) <=> SumsUp(h, w, S)
  <2>1. [s \in SUBSET S |-> IF s = {} THEN 0 ELSE M[d, Pick(s)].com + h[s \ {Pick(s)}]]
        = [s \in SUBSET S |-> IF s = {} THEN 0 ELSE w[Pick(s)] + h[s \ {Pick(s)}]]
    BY <1>2
  <2> QED
    BY <2>1 DEF SumsUp
<1> HIDE DEF Sums, w
<1>4. PICK g : SumsUp(g, w, S) /\ Total(w, S) = g[S]
  BY TotalIsPartial
<1>5. Sums(CHOOSE h : Sums(h))
  BY <1>3, <1>4
<1>6. SumsUp(CHOOSE h : Sums(h), w, S)
  BY <1>3, <1>5
<1>7. (CHOOSE h : Sums(h))[S] = g[S]
  BY <1>4, <1>6, SumsAgree
<1>8. MapThenSumSet(LAMBDA x : M[d, x].com, S) = Total(w, S)
  BY <1>1, <1>4, <1>7
<1> QED
  BY <1>8 DEF w

LEMMA SumOfPick ==
  ASSUME NEW S, IsFiniteSet(S), NEW M, NEW p
  PROVE  MapThenSumSet(LAMBDA x : M[x, p].com, S) = Total([x \in S |-> M[x, p].com], S)
<1> DEFINE w == [x \in S |-> M[x, p].com]
           Sums(h) == h = [s \in SUBSET S |->
                             IF s = {} THEN 0
                             ELSE M[Pick(s), p].com + h[s \ {Pick(s)}]]
<1>1. MapThenSumSet(LAMBDA x : M[x, p].com, S) = (CHOOSE h : Sums(h))[S]
  BY DEF MapThenSumSet, MapThenFoldSet, Pick
<1>2. \A s \in SUBSET S : s # {} => Pick(s) \in S
  BY DEF Pick
<1>3. ASSUME NEW h
      PROVE  Sums(h) <=> SumsUp(h, w, S)
  <2>1. [s \in SUBSET S |-> IF s = {} THEN 0 ELSE M[Pick(s), p].com + h[s \ {Pick(s)}]]
        = [s \in SUBSET S |-> IF s = {} THEN 0 ELSE w[Pick(s)] + h[s \ {Pick(s)}]]
    BY <1>2
  <2> QED
    BY <2>1 DEF SumsUp
<1> HIDE DEF Sums, w
<1>4. PICK g : SumsUp(g, w, S) /\ Total(w, S) = g[S]
  BY TotalIsPartial
<1>5. Sums(CHOOSE h : Sums(h))
  BY <1>3, <1>4
<1>6. SumsUp(CHOOSE h : Sums(h), w, S)
  BY <1>3, <1>5
<1>7. (CHOOSE h : Sums(h))[S] = g[S]
  BY <1>4, <1>6, SumsAgree
<1>8. MapThenSumSet(LAMBDA x : M[x, p].com, S) = Total(w, S)
  BY <1>1, <1>4, <1>7
<1> QED
  BY <1>8 DEF w

LEMMA SumOfShipped ==
  ASSUME NEW S, IsFiniteSet(S)
  PROVE  Sum(ShippedOf, S) = Total([x \in S |-> ShippedOf(x)], S)
<1> DEFINE w == [x \in S |-> ShippedOf(x)]
           Sums(h) == h = [s \in SUBSET S |->
                             IF s = {} THEN 0
                             ELSE ShippedOf(Pick(s)) + h[s \ {Pick(s)}]]
<1>1. Sum(ShippedOf, S) = (CHOOSE h : Sums(h))[S]
  BY DEF Sum, MapThenSumSet, MapThenFoldSet, Pick
<1>2. \A s \in SUBSET S : s # {} => Pick(s) \in S
  BY DEF Pick
<1>3. ASSUME NEW h
      PROVE  Sums(h) <=> SumsUp(h, w, S)
  <2>1. [s \in SUBSET S |-> IF s = {} THEN 0 ELSE ShippedOf(Pick(s)) + h[s \ {Pick(s)}]]
        = [s \in SUBSET S |-> IF s = {} THEN 0 ELSE w[Pick(s)] + h[s \ {Pick(s)}]]
    BY <1>2
  <2> QED
    BY <2>1 DEF SumsUp
<1> HIDE DEF Sums, w
<1>4. PICK g : SumsUp(g, w, S) /\ Total(w, S) = g[S]
  BY TotalIsPartial
<1>5. Sums(CHOOSE h : Sums(h))
  BY <1>3, <1>4
<1>6. SumsUp(CHOOSE h : Sums(h), w, S)
  BY <1>3, <1>5
<1>7. (CHOOSE h : Sums(h))[S] = g[S]
  BY <1>4, <1>6, SumsAgree
<1>8. Sum(ShippedOf, S) = Total(w, S)
  BY <1>1, <1>4, <1>7
<1> QED
  BY <1>8 DEF w

LEMMA FiniteParts ==
  /\ IsFiniteSet(Picks) /\ IsFiniteSet(Deliveries)
  /\ \A i : IsFiniteSet(PicksOf(i)) /\ PicksOf(i) \subseteq Picks
  /\ \A l : IsFiniteSet(PicksAt(l)) /\ PicksAt(l) \subseteq Picks
<1>1. IsFiniteSet(Picks) /\ IsFiniteSet(Deliveries)
  BY DocumentsAssumption
<1>2. \A i : PicksOf(i) \in SUBSET Picks
  BY DEF PicksOf
<1>3. \A l : PicksAt(l) \in SUBSET Picks
  BY DEF PicksAt
<1> QED
  BY <1>1, <1>2, <1>3, FS_Subset

\* The sums of the properties module are totals.
LEMMA ShippedTotals ==
  /\ \A d \in Deliveries, i \in Items :
       Sum(LAMBDA p : Shipped(d, p), {p \in Picks : PickItem[p] = i})
         = Total(ComMoves(d), PicksOf(i))
  /\ \A p \in Picks : ShippedOf(p) = ComShipped[p]
  /\ \A l \in Lots : Sum(ShippedOf, {p \in Picks : PickLot[p] = l}) = Total(ComShipped, PicksAt(l))
<1>1. ASSUME NEW d \in Deliveries, NEW i \in Items
      PROVE  Sum(LAMBDA p : Shipped(d, p), {p \in Picks : PickItem[p] = i})
               = Total(ComMoves(d), PicksOf(i))
  <2> DEFINE S == PicksOf(i)
  <2>1. IsFiniteSet(S) /\ S \subseteq Picks
    BY FiniteParts
  <2>2. Sum(LAMBDA p : Shipped(d, p), {p \in Picks : PickItem[p] = i})
          = MapThenSumSet(LAMBDA x : movements[d, x].com, S)
    BY DEF Sum, Shipped, PicksOf
  <2> DEFINE w == [x \in S |-> movements[d, x].com]
             v == ComMoves(d)
  <2>3. \A x \in S : w[x] = v[x]
    BY <2>1 DEF ComMoves
  <2> HIDE DEF S, v
  <2>4. MapThenSumSet(LAMBDA x : movements[d, x].com, S) = Total(w, S)
    BY <2>1, SumOfDelivery
  <2> HIDE DEF w
  <2>5. Total(w, S) = Total(v, S)
    BY <2>1, <2>3, TotalAgrees
  <2> QED
    BY <2>2, <2>4, <2>5 DEF S, v
<1>2. ASSUME NEW p \in Picks PROVE ShippedOf(p) = ComShipped[p]
  <2>1. ShippedOf(p) = MapThenSumSet(LAMBDA x : movements[x, p].com, Deliveries)
    BY DEF ShippedOf, Sum, Shipped
  <2>2. MapThenSumSet(LAMBDA x : movements[x, p].com, Deliveries)
          = Total([x \in Deliveries |-> movements[x, p].com], Deliveries)
    BY FiniteParts, SumOfPick
  <2>3. ComShipped[p] = Total([x \in Deliveries |-> movements[x, p].com], Deliveries)
    BY DEF ComShipped
  <2> QED
    BY <2>1, <2>2, <2>3
<1>3. ASSUME NEW l \in Lots
      PROVE  Sum(ShippedOf, {p \in Picks : PickLot[p] = l}) = Total(ComShipped, PicksAt(l))
  <2> DEFINE S == PicksAt(l)
             w == [x \in S |-> ShippedOf(x)]
             v == ComShipped
  <2>1. IsFiniteSet(S) /\ S \subseteq Picks
    BY FiniteParts
  <2>2. \A x \in S : w[x] = v[x]
    BY <1>2, <2>1
  <2>3. S = {p \in Picks : PickLot[p] = l}
    BY DEF PicksAt
  <2> HIDE DEF S, v
  <2>4. Sum(ShippedOf, S) = Total(w, S)
    BY <2>1, SumOfShipped
  <2> HIDE DEF w
  <2>5. Total(w, S) = Total(v, S)
    BY <2>1, <2>2, TotalAgrees
  <2> QED
    BY <2>3, <2>4, <2>5 DEF S, v
<1> QED
  BY <1>1, <1>2, <1>3

LEMMA CurMovesType ==
  ASSUME Inv, NEW d \in Deliveries
  PROVE  /\ \A p \in Picks : /\ CurMoves(d)[p] = movements[<<d, p>>].cur
                             /\ CurMoves(d)[p] \in Nat
         /\ \A i : Total(CurMoves(d), PicksOf(i)) \in Nat
<1>1. \A p \in Picks : /\ CurMoves(d)[p] = movements[<<d, p>>].cur
                       /\ CurMoves(d)[p] \in Nat
  <2> TAKE p \in Picks
  <2>1. <<d, p>> \in Deliveries \X Picks
    OBVIOUS
  <2>2. movements[<<d, p>>].cur \in Nat
    BY <2>1, Tables DEF Versioned
  <2> QED
    BY <2>2 DEF CurMoves
<1>2. ASSUME NEW i PROVE Total(CurMoves(d), PicksOf(i)) \in Nat
  <2>1. IsFiniteSet(PicksOf(i)) /\ \A x \in PicksOf(i) : CurMoves(d)[x] \in Nat
    BY <1>1, FiniteParts
  <2> QED
    BY <2>1, TotalType
<1> QED
  BY <1>1, <1>2

\* The handler and the movements of its delivery stay.
LEMMA ShipKept ==
  ASSUME Inv, NEW q \in Requests, ShipOK(q), tx'[q] = tx[q],
         Op[q] = "confirm" /\ tx[q].pc \in Shipping =>
           \A p \in Picks : movements'[<<Target[q], p>>] = movements[<<Target[q], p>>]
  PROVE  ShipOK(q)'
<1> SUFFICES ASSUME Op[q] = "confirm", tx[q].pc \in Shipping PROVE ShipOK(q)'
  BY DEF ShipOK
<1>1. \A p \in Picks : movements'[<<Target[q], p>>] = movements[<<Target[q], p>>]
  OBVIOUS
<1>2. CurMoves(Target[q])' = CurMoves(Target[q])
  BY <1>1 DEF CurMoves
<1>3. \A i : LineShipped(q, i)' = LineShipped(q, i)
  BY <1>2 DEF LineShipped
<1>4. \A i : DoneLines(q, i)' <=> DoneLines(q, i)
  BY <1>3 DEF DoneLines
<1>5. tx[q].todo \subseteq Picks /\ (tx[q].pc = "consume" => tx[q].at \in Picks)
  BY HandlerFacts DEF TxState, HandlerOK
<1>6. /\ \A p \in tx[q].todo : movements'[<<Target[q], p>>].cur = movements[<<Target[q], p>>].cur
      /\ tx[q].pc = "consume" =>
           movements'[<<Target[q], tx[q].at>>].cur = movements[<<Target[q], tx[q].at>>].cur
  BY <1>1, <1>5
<1> QED
  BY <1>3, <1>4, <1>6 DEF ShipOK

\* A step that goes on: the committed lines, and what the others have shipped.
LEMMA OthersShip ==
  ASSUME Inv, LockInv, ShipInv, NEW q \in Requests, NEW pc, NEW at, NEW todo,
         Goes(q, pc, at, todo),
         \A d \in Deliveries, p \in Picks :
           movements'[<<d, p>>] = movements[<<d, p>>] \/ deliveries[d].lock = q
  PROVE  ShippedLines' /\ \A r \in Requests \ {q} : ShipOK(r)'
<1>1. ShippedLines'
  <2>1. ASSUME NEW d \in Deliveries
        PROVE  ComMoves(d)' = ComMoves(d) /\ deliveries'[d].com = deliveries[d].com
    <3>1. \A p \in Picks : movements'[<<d, p>>].com = movements[<<d, p>>].com
      BY DEF Goes, Writes
    <3> QED
      BY <3>1, Keeps DEF ComMoves
  <2> QED
    BY <2>1 DEF ShipInv, ShippedLines
<1>2. ASSUME NEW r \in Requests \ {q} PROVE ShipOK(r)'
  <2>1. tx'[r] = tx[r] /\ ShipOK(r) /\ Knows(r)
    BY DEF Goes, ShipInv, LockInv, KnowsInv
  <2>2. Op[r] = "confirm" /\ tx[r].pc \in Shipping =>
          \A p \in Picks : movements'[<<Target[r], p>>] = movements[<<Target[r], p>>]
    BY <2>1, Workload DEF Knows
  <2> QED
    BY <2>1, <2>2, ShipKept
<1> QED
  BY <1>1, <1>2

\* A statement that ships nothing.
LEMMA QuietShip ==
  ASSUME Inv, LockInv, ShipInv, NEW q \in Requests, NEW pc, NEW at, NEW todo,
         Goes(q, pc, at, todo), UNCHANGED movements, ShipOK(q)'
  PROVE  ShipInv'
BY OthersShip DEF ShipInv

\* The steps of approvals, cancellations, and changes of picks, and the
\* creation of a delivery.
LEMMA NoShipping ==
  ASSUME NEW q, Op[q] # "confirm" \/ tx'[q].pc \notin Shipping
  PROVE  ShipOK(q)'
BY DEF ShipOK

LEMMA ApproveShip ==
  ASSUME Inv, LockInv, ShipInv, NEW q \in Requests, ApproveStep(q), ~Rollback(q, "ended")
  PROVE  ShipInv' /\ UNCHANGED movements
<1>1. CASE Approve(q)
  BY <1>1, ApproveGoes, NoShipping, QuietShip DEF tables
<1>2. CASE TransitionToApproved(q)
  <2>1. Op[q] = "approve"
    BY <1>2, TransitionToApprovedGoes DEF LockInv, KnowsInv, Knows
  <2> QED
    BY <1>2, <2>1, TransitionToApprovedGoes, NoShipping, QuietShip
<1>3. CASE ReserveFromLot(q)
  <2>1. Op[q] = "approve"
    BY <1>3, ReserveFromLotGoes DEF LockInv, KnowsInv, Knows
  <2> QED
    BY <1>3, <2>1, ReserveFromLotGoes, NoShipping, QuietShip
<1>4. CASE LinkReservation(q)
  <2>1. Op[q] = "approve"
    BY <1>4, LinkReservationGoes DEF LockInv, KnowsInv, Knows
  <2> QED
    BY <1>4, <2>1, LinkReservationGoes, NoShipping, QuietShip
<1> QED
  BY <1>1, <1>2, <1>3, <1>4 DEF ApproveStep

LEMMA CancelShip ==
  ASSUME Inv, LockInv, ShipInv, NEW q \in Requests, CancelStep(q), ~Rollback(q, "ended")
  PROVE  ShipInv' /\ UNCHANGED movements
<1>1. CASE Cancel(q)
  BY <1>1, CancelGoes, NoShipping, QuietShip DEF tables
<1>2. CASE FindReservation(q)
  <2>1. Op[q] = "cancel"
    BY <1>2, FindReservationGoes DEF LockInv, KnowsInv, Knows
  <2> QED
    BY <1>2, <2>1, FindReservationGoes, NoShipping, QuietShip DEF tables
<1>3. CASE ReleaseReservation(q)
  <2>1. Op[q] = "cancel"
    BY <1>3, ReleaseReservationGoes DEF LockInv, KnowsInv, Knows
  <2> QED
    BY <1>3, <2>1, ReleaseReservationGoes, NoShipping, QuietShip
<1>4. CASE TransitionToCancelled(q)
  <2>1. Op[q] = "cancel"
    BY <1>4, TransitionToCancelledGoes DEF LockInv, KnowsInv, Knows
  <2> QED
    BY <1>4, <2>1, TransitionToCancelledGoes, NoShipping, QuietShip
<1> QED
  BY <1>1, <1>2, <1>3, <1>4 DEF CancelStep

LEMMA PickShip ==
  ASSUME Inv, LockInv, ShipInv, NEW q \in Requests, PickStep(q), ~Rollback(q, "ended")
  PROVE  ShipInv' /\ UNCHANGED movements
<1>1. CASE AddLot(q)
  BY <1>1, AddLotGoes, NoShipping, QuietShip
<1>2. CASE RemoveLot(q)
  BY <1>2, RemoveLotGoes, NoShipping, QuietShip DEF tables
<1>3. CASE SoftDeletePick(q)
  BY <1>3, SoftDeletePickGoes, NoShipping, QuietShip
<1>4. CASE AddItem(q)
  BY <1>4, AddItemGoes, NoShipping, QuietShip DEF tables
<1> QED
  BY <1>1, <1>2, <1>3, <1>4 DEF PickStep

\* A confirmation begins with nothing shipped.
LEMMA TransitionToConfirmedShip ==
  ASSUME Inv, LockInv, ShipInv, NEW q \in Requests, TransitionToConfirmed(q),
         ~Rollback(q, "ended")
  PROVE  ShipInv' /\ UNCHANGED movements
<1> DEFINE d == Target[q]
<1>1. /\ Op[q] = "confirm" /\ tx[q].pc = "casConfirmed" /\ d \in Deliveries
      /\ Goes(q, "nextLine", tx[q].at, tx[q].todo)
      /\ tx'[q].items = LinesOf(d)
      /\ Seen(q, deliveries[d]) = "draft" /\ Lockable(q, deliveries[d])
      /\ UNCHANGED movements
  BY TransitionToConfirmedGoes
<1>2. tx'[q].pc = "nextLine"
  BY <1>1 DEF Goes
<1>3. deliveries[d].com = "draft" /\ deliveries[d].lock = Nobody
  <2>1. DeliveryHeld(d) /\ q # Nobody
    BY <1>1, Workload DEF LockInv, HeldInv
  <2> QED
    BY <1>1, <2>1 DEF DeliveryHeld, Seen, Shipping, Lockable
<1>4. \A p \in Picks : movements[<<d, p>>].cur = 0
  <2> TAKE p \in Picks
  <2>1. MovementHeld(d, p)
    BY <1>1 DEF LockInv, HeldInv
  <2>2. movements[<<d, p>>].lock = Nobody
    BY <1>3, <2>1 DEF MovementHeld
  <2> QED
    BY <1>3, <2>1, <2>2 DEF MovementHeld
<1>5. \A i : LineShipped(q, i)' = 0
  <2> TAKE i
  <2>1. CurMoves(d)' = CurMoves(d)
    BY <1>1 DEF CurMoves
  <2>2. IsFiniteSet(PicksOf(i)) /\ \A p \in PicksOf(i) : CurMoves(d)[p] = 0
    BY <1>1, <1>4, FiniteParts, CurMovesType
  <2>3. Total(CurMoves(d), PicksOf(i)) = 0
    BY <2>2, TotalOfZeros
  <2> QED
    BY <2>1, <2>3 DEF LineShipped
<1>6. \A i \in Items \ LinesOf(d) : DoneLines(q, i)'
  <2> TAKE i \in Items \ LinesOf(d)
  <2>1. DelivQty[d][i] \in Nat /\ ~(DelivQty[d][i] > 0)
    BY <1>1, Documents DEF LinesOf
  <2>2. DelivQty[d][i] = 0
    BY <2>1
  <2> QED
    BY <1>5, <2>2 DEF DoneLines
<1>7. ShipOK(q)'
  <2>1. \A i : LineShipped(q, i)' = 0
    BY <1>5
  <2> QED
    BY <1>1, <1>2, <1>6, <2>1 DEF ShipOK
<1> QED
  BY <1>1, <1>7, QuietShip

\* What ShipOK says at the statements of a confirmation.
LEMMA NextLineShip ==
  ASSUME Inv, LockInv, ShipInv, NEW q \in Requests, NextLine(q)
  PROVE  ShipInv' /\ UNCHANGED movements
<1> DEFINE d == Target[q]
<1>1. /\ Op[q] = "confirm" /\ tx[q].pc = "nextLine" /\ d \in Deliveries
      /\ Goes(q, tx'[q].pc, tx'[q].at, tx'[q].todo)
      /\ UNCHANGED movements
  BY NextLineGoes DEF tables
<1>2. /\ tx[q].items \subseteq LinesOf(d)
      /\ \A i \in tx[q].items : LineShipped(q, i) = 0
      /\ \A i \in Items \ tx[q].items : DoneLines(q, i)
  BY <1>1 DEF ShipInv, ShipOK, Shipping
<1>3. CurMoves(d)' = CurMoves(d)
  BY <1>1 DEF CurMoves
<1>4. \A i : /\ LineShipped(q, i)' = LineShipped(q, i)
             /\ DoneLines(q, i)' <=> DoneLines(q, i)
  BY <1>3 DEF LineShipped, DoneLines
<1>5. CASE tx[q].items = {} /\ tx'[q].pc = "commit" /\ tx'[q].items = {}
  <2>1. ShipOK(q)'
    BY <1>2, <1>4, <1>5 DEF ShipOK
  <2> QED
    BY <1>1, <2>1, QuietShip
<1>6. ASSUME NEW i \in tx[q].items, tx'[q].pc = "nextReservation",
             tx'[q].items = tx[q].items \ {i},
             tx'[q].left = DelivQty[d][i], tx'[q].todo = ActiveReservations(q, i)
      PROVE  ShipOK(q)'
  <2>1. i \in Items \ tx'[q].items /\ DelivQty[d][i] \in Nat
    BY <1>1, <1>2, <1>6, Documents DEF LinesOf
  <2>2. \A p \in ActiveReservations(q, i) : PickItem[p] = i /\ movements[<<d, p>>].cur = 0
    <3> TAKE p \in ActiveReservations(q, i)
    <3>1. p \in Picks /\ PickItem[p] = i
      BY DEF ActiveReservations
    <3>2. p \in PicksOf(i)
      BY <3>1 DEF PicksOf
    <3>3. IsFiniteSet(PicksOf(i)) /\ \A x \in PicksOf(i) : CurMoves(d)[x] \in Nat
      BY <1>1, FiniteParts, CurMovesType
    <3>4. CurMoves(d)[p] <= Total(CurMoves(d), PicksOf(i))
      BY <3>2, <3>3, TotalBounds
    <3>5. Total(CurMoves(d), PicksOf(i)) = 0
      BY <1>2 DEF LineShipped
    <3>6. CurMoves(d)[p] = 0
      BY <3>2, <3>3, <3>4, <3>5
    <3> QED
      BY <1>1, <3>1, <3>6, CurMovesType
  <2>3. LineShipped(q, i)' = 0
    BY <1>2, <1>4
  <2>4. /\ LineShipped(q, i)' + tx'[q].left = DelivQty[d][i]
        /\ \A j \in (Items \ tx'[q].items) \ {i} : DoneLines(q, j)'
        /\ \A p \in tx'[q].todo : PickItem[p] = i /\ movements'[<<d, p>>].cur = 0
    BY <1>1, <1>2, <1>4, <1>6, <2>1, <2>2, <2>3
  <2>5. /\ tx'[q].items \subseteq LinesOf(d)
        /\ \A j \in tx'[q].items : LineShipped(q, j)' = 0
    BY <1>2, <1>4, <1>6
  <2> QED
    BY <1>6, <2>1, <2>4, <2>5 DEF ShipOK
<1> QED
  BY <1>1, <1>5, <1>6, NextLineGoes, QuietShip

LEMMA NextReservationShip ==
  ASSUME Inv, LockInv, ShipInv, NEW q \in Requests, NextReservation(q), ~Rollback(q, "ended")
  PROVE  ShipInv' /\ UNCHANGED movements
<1> DEFINE d == Target[q]
<1>1. /\ Op[q] = "confirm" /\ tx[q].pc = "nextReservation" /\ d \in Deliveries
      /\ Goes(q, tx'[q].pc, tx'[q].at, tx'[q].todo)
      /\ tx'[q].items = tx[q].items /\ tx'[q].left = tx[q].left
      /\ UNCHANGED movements
  BY NextReservationGoes DEF tables
<1>2. /\ tx[q].items \subseteq LinesOf(d)
      /\ \A i \in tx[q].items : LineShipped(q, i) = 0
  BY <1>1 DEF ShipInv, ShipOK, Shipping
<1>3. PICK i \in Items \ tx[q].items :
        /\ LineShipped(q, i) + tx[q].left = DelivQty[d][i]
        /\ \A j \in (Items \ tx[q].items) \ {i} : DoneLines(q, j)
        /\ \A p \in tx[q].todo : PickItem[p] = i /\ movements[<<d, p>>].cur = 0
  BY <1>1 DEF ShipInv, ShipOK, Shipping
<1>4. CurMoves(d)' = CurMoves(d)
  BY <1>1 DEF CurMoves
<1>5. \A j : /\ LineShipped(q, j)' = LineShipped(q, j)
             /\ DoneLines(q, j)' <=> DoneLines(q, j)
  BY <1>4 DEF LineShipped, DoneLines
<1>6. /\ tx'[q].items \subseteq LinesOf(d)
      /\ \A j \in tx'[q].items : LineShipped(q, j)' = 0
      /\ i \in Items \ tx'[q].items
      /\ LineShipped(q, i)' + tx'[q].left = DelivQty[d][i]
      /\ \A j \in (Items \ tx'[q].items) \ {i} : DoneLines(q, j)'
      /\ \A p \in tx[q].todo : PickItem[p] = i /\ movements'[<<d, p>>].cur = 0
  BY <1>1, <1>2, <1>3, <1>5
<1>7. ASSUME tx[q].left = 0, tx'[q].pc = "nextLine"
      PROVE  ShipOK(q)'
  <2>1. DoneLines(q, i)
    BY <1>1, <1>3, <1>7, CurMovesType DEF DoneLines, LineShipped
  <2>2. \A j \in Items \ tx'[q].items : DoneLines(q, j)'
    BY <1>1, <1>3, <1>5, <2>1
  <2> QED
    BY <1>6, <1>7, <2>2 DEF ShipOK
<1>8. ASSUME tx'[q].pc = "nextReservation",
             \E p \in tx[q].todo : tx'[q].todo = tx[q].todo \ {p}
      PROVE  ShipOK(q)'
  <2>1. \A p \in tx'[q].todo : PickItem[p] = i /\ movements'[<<d, p>>].cur = 0
    BY <1>6, <1>8
  <2> QED
    BY <1>6, <1>8, <2>1 DEF ShipOK
<1>9. ASSUME tx'[q].pc = "consume", tx'[q].at \in tx[q].todo,
             tx'[q].todo = tx[q].todo \ {tx'[q].at}
      PROVE  ShipOK(q)'
  <2>1. /\ \A p \in tx'[q].todo : PickItem[p] = i /\ movements'[<<d, p>>].cur = 0
        /\ PickItem[tx'[q].at] = i /\ movements'[<<d, tx'[q].at>>].cur = 0
        /\ tx'[q].at \notin tx'[q].todo
    BY <1>6, <1>9
  <2> QED
    BY <1>6, <1>9, <2>1 DEF ShipOK
<1>10. ShipOK(q)'
  BY <1>7, <1>8, <1>9, NextReservationGoes
<1> QED
  BY <1>1, <1>10, QuietShip

\* Consumption ships qty of the line at hand.
LEMMA ConsumeReservationShip ==
  ASSUME Inv, LockInv, ShipInv, NEW q \in Requests, ConsumeReservation(q)
  PROVE  /\ ShipInv'
         /\ movements[<<Target[q], tx[q].at>>].cur = 0
<1>0. PICK p \in Picks : p = tx[q].at
  BY ConsumeReservationGoes
<1> DEFINE d == Target[q]
           qty == tx[q].qty
<1>1. /\ Op[q] = "confirm" /\ tx[q].pc = "consume" /\ d \in Deliveries
      /\ Goes(q, "nextReservation", p, tx[q].todo)
      /\ tx'[q].items = tx[q].items /\ tx'[q].left = tx[q].left - qty
      /\ deliveries[d].lock = q
      /\ movements' = [movements EXCEPT ![<<d, p>>] = Put(q, @, qty)]
  BY <1>0, ConsumeReservationGoes
<1>2. /\ tx[q].items \subseteq LinesOf(d)
      /\ \A i \in tx[q].items : LineShipped(q, i) = 0
  BY <1>1 DEF ShipInv, ShipOK, Shipping
<1>3. PICK i \in Items \ tx[q].items :
        /\ LineShipped(q, i) + tx[q].left = DelivQty[d][i]
        /\ \A j \in (Items \ tx[q].items) \ {i} : DoneLines(q, j)
        /\ \A r \in tx[q].todo : PickItem[r] = i /\ movements[<<d, r>>].cur = 0
        /\ PickItem[p] = i /\ movements[<<d, p>>].cur = 0 /\ p \notin tx[q].todo
  BY <1>0, <1>1 DEF ShipInv, ShipOK, Shipping
<1>4. /\ \A e \in Deliveries, r \in Picks : <<e, r>> # <<d, p>> =>
           movements'[<<e, r>>] = movements[<<e, r>>]
      /\ movements'[<<d, p>>].cur = qty
  <2>1. <<d, p>> \in Deliveries \X Picks
    BY <1>1
  <2>2. movements'[<<d, p>>].cur = qty
    BY <1>1, <2>1, Tables DEF Put
  <2>3. ASSUME NEW e \in Deliveries, NEW r \in Picks, <<e, r>> # <<d, p>>
        PROVE  movements'[<<e, r>>] = movements[<<e, r>>]
    BY <1>1, <2>1, <2>3, Tables
  <2> QED
    BY <2>2, <2>3
<1>5. qty \in Nat /\ tx[q].left \in Nat /\ qty <= tx[q].left
  BY <1>1, HandlerFacts DEF TxState, HandlerOK
<1>6. CurMoves(d)'[p] = qty /\ \A r \in Picks \ {p} : CurMoves(d)'[r] = CurMoves(d)[r]
  BY <1>1, <1>4 DEF CurMoves
<1>7. LineShipped(q, i)' = LineShipped(q, i) + qty
  <2> DEFINE w == CurMoves(d)
             v == CurMoves(d)'
             S == PicksOf(i)
  <2>1. IsFiniteSet(S) /\ S \subseteq Picks /\ \A x \in S : w[x] \in Nat
    BY <1>1, FiniteParts, CurMovesType
  <2>2. p \in S /\ v[p] = w[p] + qty
    BY <1>1, <1>3, <1>5, <1>6, CurMovesType DEF PicksOf
  <2>3. \A x \in S \ {p} : v[x] = w[x]
    BY <1>6, <2>1
  <2> HIDE DEF w, v, S
  <2>4. Total(v, S) = Total(w, S) + qty
    BY <1>5, <2>1, <2>2, <2>3, TotalRaised
  <2> QED
    BY <2>4 DEF w, v, S, LineShipped
<1>8. \A j : j # i => LineShipped(q, j)' = LineShipped(q, j)
  <2> SUFFICES ASSUME NEW j, j # i PROVE LineShipped(q, j)' = LineShipped(q, j)
    OBVIOUS
  <2> DEFINE w == CurMoves(d)
             v == CurMoves(d)'
             S == PicksOf(j)
  <2>1. IsFiniteSet(S) /\ S \subseteq Picks /\ p \notin S
    BY <1>3, FiniteParts DEF PicksOf
  <2>2. \A x \in S : v[x] = w[x]
    BY <1>6, <2>1
  <2> HIDE DEF w, v, S
  <2>3. Total(v, S) = Total(w, S)
    BY <2>1, <2>2, TotalAgrees
  <2> QED
    BY <2>3 DEF w, v, S, LineShipped
<1>9. \A j : j # i => (DoneLines(q, j)' <=> DoneLines(q, j))
  BY <1>8 DEF DoneLines
<1>10. LineShipped(q, i)' + tx'[q].left = DelivQty[d][i]
  <2>1. LineShipped(q, i) \in Nat
    BY <1>1, CurMovesType DEF LineShipped
  <2> QED
    BY <1>1, <1>3, <1>5, <1>7, <2>1
<1>11. tx'[q].pc = "nextReservation" /\ tx'[q].todo = tx[q].todo
  BY <1>1 DEF Goes
<1>12. \A r \in tx'[q].todo : PickItem[r] = i /\ movements'[<<d, r>>].cur = 0
  <2>1. tx[q].todo \subseteq Picks
    BY Tables DEF TxState
  <2> QED
    BY <1>1, <1>3, <1>4, <1>11, <2>1
<1>13. ShipOK(q)'
  <2>1. /\ tx'[q].items \subseteq LinesOf(d)
        /\ \A j \in tx'[q].items : LineShipped(q, j)' = 0
    BY <1>1, <1>2, <1>3, <1>8
  <2>2. i \in Items \ tx'[q].items
    BY <1>1, <1>3
  <2>3. \A j \in (Items \ tx'[q].items) \ {i} : DoneLines(q, j)'
    BY <1>1, <1>3, <1>9
  <2> QED
    BY <1>10, <1>11, <1>12, <2>1, <2>2, <2>3 DEF ShipOK
<1>14. \A e \in Deliveries, r \in Picks :
         movements'[<<e, r>>] = movements[<<e, r>>] \/ deliveries[e].lock = q
  BY <1>1, <1>4
<1> QED
  BY <1>0, <1>1, <1>3, <1>13, <1>14, OthersShip DEF ShipInv

LEMMA DeliverShip ==
  ASSUME Inv, LockInv, ShipInv, NEW q \in Requests, DeliverStep(q), ~Rollback(q, "ended")
  PROVE  ShipInv' /\ (ConsumeReservation(q) \/ UNCHANGED movements)
<1>1. CASE CreateDelivery(q)
  BY <1>1, CreateDeliveryGoes, NoShipping, QuietShip
<1>2. CASE ConfirmDelivery(q)
  <2>1. /\ Goes(q, "casConfirmed", tx[q].at, tx[q].todo) /\ UNCHANGED movements
        /\ tx'[q].pc = "casConfirmed"
    BY <1>2, ConfirmDeliveryGoes DEF Goes, tables
  <2>2. ShipOK(q)'
    BY <2>1, NoShipping DEF Shipping
  <2> QED
    BY <2>1, <2>2, QuietShip
<1> QED
  BY <1>1, <1>2, TransitionToConfirmedShip, NextLineShip, NextReservationShip,
     ConsumeReservationShip DEF DeliverStep

\* The end of a transaction.
LEMMA RollbackShip ==
  ASSUME Inv, LockInv, ShipInv, NEW q \in Requests, NEW how \in Ended, Rollback(q, how)
  PROVE  ShipInv'
<1>0. /\ \A r \in Requests \ {q} : tx'[r] = tx[r]
      /\ tx'[q].pc = how /\ how \notin Working
  BY FinishedHandler DEF Rollback
<1>1. /\ \A d \in Deliveries : EndsAs(q, deliveries[d], deliveries'[d], deliveries[d].com)
      /\ \A d \in Deliveries, p \in Picks :
           EndsAs(q, movements[<<d, p>>], movements'[<<d, p>>], movements[<<d, p>>].com)
  BY RollbackEnds
<1>2. ShippedLines'
  <2>1. ASSUME NEW d \in Deliveries
        PROVE  ComMoves(d)' = ComMoves(d) /\ deliveries'[d].com = deliveries[d].com
    <3>1. \A p \in Picks : movements'[<<d, p>>].com = movements[<<d, p>>].com
      BY <1>1 DEF EndsAs
    <3> QED
      BY <1>1, <3>1 DEF ComMoves, EndsAs
  <2> QED
    BY <2>1 DEF ShipInv, ShippedLines
<1>3. ASSUME NEW r \in Requests \ {q} PROVE ShipOK(r)'
  <2>1. tx'[r] = tx[r] /\ ShipOK(r) /\ Knows(r)
    BY <1>0 DEF ShipInv, LockInv, KnowsInv
  <2>2. ASSUME Op[r] = "confirm", tx[r].pc \in Shipping, NEW p \in Picks
        PROVE  movements'[<<Target[r], p>>] = movements[<<Target[r], p>>]
    <3>1. Target[r] \in Deliveries /\ deliveries[Target[r]].lock = r /\ q # Nobody
      BY <2>1, <2>2, Workload DEF Knows
    <3>2. MovementHeld(Target[r], p)
      BY <3>1 DEF LockInv, HeldInv
    <3>3. movements[<<Target[r], p>>].lock # q
      BY <3>1, <3>2 DEF MovementHeld
    <3> QED
      BY <1>1, <3>1, <3>3 DEF EndsAs
  <2> QED
    BY <2>1, <2>2, ShipKept
<1>4. ShipOK(q)'
  BY <1>0, NoShipping DEF Shipping, Working
<1> QED
  BY <1>2, <1>3, <1>4 DEF ShipInv

LEMMA CommitShip ==
  ASSUME Inv, LockInv, ShipInv, NEW q \in Requests, Commit(q)
  PROVE  ShipInv'
<1>0. /\ \A r \in Requests \ {q} : tx'[r] = tx[r]
      /\ tx'[q].pc = "ended" /\ tx[q].pc = "commit"
  BY FinishedHandler DEF Commit, At, Ended
<1>1. /\ \A d \in Deliveries : EndsAs(q, deliveries[d], deliveries'[d], deliveries[d].cur)
      /\ \A d \in Deliveries, p \in Picks :
           EndsAs(q, movements[<<d, p>>], movements'[<<d, p>>], movements[<<d, p>>].cur)
  BY CommitEnds
<1>2. ShippedLines'
  <2> SUFFICES ASSUME NEW d \in Deliveries, NEW i \in Items, deliveries'[d].com = "confirmed"
               PROVE  Total(ComMoves(d)', PicksOf(i)) = DelivQty[d][i]
    BY DEF ShippedLines
  <2>1. DeliveryHeld(d) /\ q # Nobody /\ \A p \in Picks : MovementHeld(d, p)
    BY Workload DEF LockInv, HeldInv
  <2>2. CASE deliveries[d].lock = q
    <3>1. Op[q] = "confirm" /\ Target[q] = d
      BY <1>1, <2>1, <2>2 DEF DeliveryHeld, EndsAs
    <3>2. \A p \in Picks : movements'[<<d, p>>].com = movements[<<d, p>>].cur
      BY <1>1, <2>1, <2>2 DEF MovementHeld, EndsAs
    <3>3. ComMoves(d)' = CurMoves(d)
      BY <3>2 DEF ComMoves, CurMoves
    <3>4. DoneLines(q, i)
      BY <1>0, <3>1 DEF ShipInv, ShipOK, Shipping
    <3> QED
      BY <3>1, <3>3, <3>4 DEF DoneLines, LineShipped
  <2>3. CASE deliveries[d].lock # q
    <3>1. \A p \in Picks : movements'[<<d, p>>].com = movements[<<d, p>>].com
      BY <1>1, <2>1, <2>3 DEF MovementHeld, EndsAs
    <3>2. ComMoves(d)' = ComMoves(d) /\ deliveries[d].com = "confirmed"
      BY <1>1, <2>3, <3>1 DEF ComMoves, EndsAs
    <3> QED
      BY <3>2 DEF ShipInv, ShippedLines
  <2> QED
    BY <2>2, <2>3
<1>3. ASSUME NEW r \in Requests \ {q} PROVE ShipOK(r)'
  <2>1. tx'[r] = tx[r] /\ ShipOK(r) /\ Knows(r)
    BY <1>0 DEF ShipInv, LockInv, KnowsInv
  <2>2. ASSUME Op[r] = "confirm", tx[r].pc \in Shipping, NEW p \in Picks
        PROVE  movements'[<<Target[r], p>>] = movements[<<Target[r], p>>]
    <3>1. Target[r] \in Deliveries /\ deliveries[Target[r]].lock = r /\ q # Nobody
      BY <2>1, <2>2, Workload DEF Knows
    <3>2. MovementHeld(Target[r], p)
      BY <3>1 DEF LockInv, HeldInv
    <3>3. movements[<<Target[r], p>>].lock # q
      BY <3>1, <3>2 DEF MovementHeld
    <3> QED
      BY <1>1, <3>1, <3>3 DEF EndsAs
  <2> QED
    BY <2>1, <2>2, ShipKept
<1>4. ShipOK(q)'
  BY <1>0, NoShipping DEF Shipping
<1> QED
  BY <1>2, <1>3, <1>4 DEF ShipInv

LEMMA InitShip == Init => ShipInv
<1> SUFFICES ASSUME Init PROVE ShipInv
  OBVIOUS
<1>1. \A d \in Deliveries : deliveries[d].com # "confirmed"
  BY DEF Init, Fresh
<1>2. \A q \in Requests : tx[q].pc = "new"
  <2>1. \A q \in Requests : tx[q] = TxAt("new")
    BY DEF Init
  <2> QED
    BY <2>1, TxAtType
<1> QED
  BY <1>1, <1>2 DEF ShipInv, ShippedLines, ShipOK, Shipping

LEMMA NextShip == Inv /\ Inv' /\ LockInv /\ ShipInv /\ [Next]_vars => ShipInv'
<1> SUFFICES ASSUME Inv, Inv', LockInv, ShipInv, [Next]_vars PROVE ShipInv'
  OBVIOUS
<1>1. CASE UNCHANGED vars
  <2>1. \A d : ComMoves(d)' = ComMoves(d)
    BY <1>1 DEF vars, ComMoves
  <2>2. ShippedLines'
    BY <1>1, <2>1 DEF vars, ShipInv, ShippedLines
  <2>3. \A q \in Requests : ShipOK(q)'
    BY <1>1, ShipKept DEF vars, ShipInv
  <2> QED
    BY <2>2, <2>3 DEF ShipInv
<1>2. CASE Done
  BY <1>1, <1>2 DEF Done
<1>3. ASSUME NEW q \in Requests, Rollback(q, "ended")
      PROVE  ShipInv'
  BY <1>3, RollbackShip DEF Ended
<1>4. ASSUME NEW q \in Requests, ~Rollback(q, "ended"),
             ApproveStep(q) \/ CancelStep(q) \/ PickStep(q) \/ DeliverStep(q)
      PROVE  ShipInv'
  BY <1>4, ApproveShip, CancelShip, PickShip, DeliverShip
<1>5. ASSUME NEW q \in Requests, Crash(q) \/ DeadlockVictim(q)
      PROVE  ShipInv'
  BY <1>3, <1>5 DEF Crash, DeadlockVictim
<1> QED
  BY <1>1, <1>2, <1>3, <1>4, <1>5, CommitShip DEF Next, Step

\* A confirmation has shipped the lines it is through with in full, of the line
\* at hand all but what is left, and nothing of the others.
THEOREM ShippingSteps == Spec => [](Inv /\ LockInv /\ ShipInv)
<1>1. Init => Inv /\ LockInv /\ ShipInv
  BY InitInv, InitLock, InitShip
<1>2. Inv /\ LockInv /\ ShipInv /\ [Next]_vars => (Inv /\ LockInv /\ ShipInv)'
  BY NextInv, NextLock, NextShip
<1> QED
  BY <1>1, <1>2, PTL DEF Spec

\* Consumption over the reservations of an item, in whatever order and from
\* however many lots, ships the delivered quantity of each line; a delivery that
\* is not confirmed, or whose confirmation failed halfway, has shipped nothing.
THEOREM ShipsItsLines == Spec => []ConfirmedShipsItsLines
<1>1. Inv /\ LockInv /\ ShipInv => ConfirmedShipsItsLines
  <2> SUFFICES ASSUME Inv, LockInv, ShipInv, NEW d \in Deliveries, NEW i \in Items
               PROVE  Total(ComMoves(d), PicksOf(i))
                        = IF deliveries[d].com = "confirmed" THEN DelivQty[d][i] ELSE 0
    BY ShippedTotals DEF ConfirmedShipsItsLines
  <2>1. CASE deliveries[d].com = "confirmed"
    BY <2>1 DEF ShipInv, ShippedLines
  <2>2. CASE deliveries[d].com # "confirmed"
    <3>1. IsFiniteSet(PicksOf(i)) /\ \A p \in PicksOf(i) : ComMoves(d)[p] = 0
      BY <2>2, FiniteParts DEF LockInv, HeldInv, MovementHeld, ComMoves
    <3> QED
      BY <2>2, <3>1, TotalOfZeros
  <2> QED
    BY <2>1, <2>2
<1> QED
  BY <1>1, ShippingSteps, PTL

-----------------------------------------------------------------------------
(* The delivered counters.                                                 *)

LEMMA MoveRow ==
  ASSUME Inv, NEW d \in Deliveries, NEW p \in Picks
  PROVE  movements[<<d, p>>].com \in Nat /\ movements[<<d, p>>].cur \in Nat
<1>1. <<d, p>> \in Deliveries \X Picks
  OBVIOUS
<1> QED
  BY <1>1, Tables DEF Versioned

LEMMA ShippedType ==
  ASSUME Inv, NEW p \in Picks
  PROVE  ComShipped[p] \in Nat /\ CurShipped[p] \in Nat
<1> DEFINE c == [d \in Deliveries |-> movements[<<d, p>>].com]
           n == [d \in Deliveries |-> movements[<<d, p>>].cur]
<1>1. \A d \in Deliveries : c[d] \in Nat /\ n[d] \in Nat
  BY MoveRow
<1>2. ComShipped[p] = Total(c, Deliveries) /\ CurShipped[p] = Total(n, Deliveries)
  BY DEF ComShipped, CurShipped
<1> HIDE DEF c, n
<1>3. Total(c, Deliveries) \in Nat /\ Total(n, Deliveries) \in Nat
  BY <1>1, FiniteParts, TotalType
<1> QED
  BY <1>2, <1>3

\* No movement and no delivered counter changes.
LEMMA QuietCount ==
  ASSUME CountInv, UNCHANGED movements,
         \A l \in Lots : /\ lots'[l].com.delivered = lots[l].com.delivered
                         /\ lots'[l].cur.delivered = lots[l].cur.delivered
  PROVE  CountInv'
<1>1. ComShipped' = ComShipped /\ CurShipped' = CurShipped
  BY DEF ComShipped, CurShipped
<1> QED
  BY <1>1 DEF CountInv

LEMMA ApproveCount ==
  ASSUME Inv, LockInv, ShipInv, CountInv, NEW q \in Requests, ApproveStep(q),
         ~Rollback(q, "ended")
  PROVE  CountInv'
<1>1. UNCHANGED movements
  BY ApproveShip
<1>2. CASE ReserveFromLot(q)
  <2>1. PICK p \in Picks : p = tx[q].at
    BY <1>2, ReserveFromLotGoes
  <2> DEFINE l == PickLot[p]
             new == AfterReserve(lots[l].cur, PickQty[p])
  <2>2. l \in Lots /\ lots' = [lots EXCEPT ![l] = Put(q, @, new)]
    BY <1>2, <2>1, ReserveFromLotGoes
  <2>3. new.delivered = lots[l].cur.delivered
    BY <2>2, Tables DEF AfterReserve, Versioned, LotRow
  <2> HIDE DEF new
  <2>4. \A m \in Lots : /\ lots'[m].com.delivered = lots[m].com.delivered
                        /\ lots'[m].cur.delivered = lots[m].cur.delivered
    BY <2>2, <2>3, Tables DEF Put
  <2> QED
    BY <1>1, <2>4, QuietCount
<1>3. CASE ~ReserveFromLot(q)
  <2>1. UNCHANGED lots
    BY <1>3, ApproveGoes, TransitionToApprovedGoes, LinkReservationGoes DEF ApproveStep, tables
  <2> QED
    BY <1>1, <2>1, QuietCount
<1> QED
  BY <1>2, <1>3

LEMMA CancelCount ==
  ASSUME Inv, LockInv, ShipInv, CountInv, NEW q \in Requests, CancelStep(q),
         ~Rollback(q, "ended")
  PROVE  CountInv'
<1>1. UNCHANGED movements
  BY CancelShip
<1>2. CASE ReleaseReservation(q)
  <2>1. PICK p \in Picks : p = tx[q].at
    BY <1>2, ReleaseReservationGoes
  <2> DEFINE l == PickLot[p]
             new == AfterRelease(lots[l].cur, PickQty[p] - tx[q].read)
  <2>2. l \in Lots /\ lots' = [lots EXCEPT ![l] = Put(q, @, new)]
    BY <1>2, <2>1, ReleaseReservationGoes
  <2>3. new.delivered = lots[l].cur.delivered
    BY <2>2, Tables DEF AfterRelease, Versioned, LotRow
  <2> HIDE DEF new
  <2>4. \A m \in Lots : /\ lots'[m].com.delivered = lots[m].com.delivered
                        /\ lots'[m].cur.delivered = lots[m].cur.delivered
    BY <2>2, <2>3, Tables DEF Put
  <2> QED
    BY <1>1, <2>4, QuietCount
<1>3. CASE ~ReleaseReservation(q)
  <2>1. UNCHANGED lots
    BY <1>3, CancelGoes, FindReservationGoes, TransitionToCancelledGoes DEF CancelStep, tables
  <2> QED
    BY <1>1, <2>1, QuietCount
<1> QED
  BY <1>2, <1>3

LEMMA PickCount ==
  ASSUME Inv, LockInv, ShipInv, CountInv, NEW q \in Requests, PickStep(q),
         ~Rollback(q, "ended")
  PROVE  CountInv'
<1>1. UNCHANGED movements
  BY PickShip
<1>2. UNCHANGED lots
  BY AddItemGoes, AddLotGoes, RemoveLotGoes, SoftDeletePickGoes DEF PickStep, tables
<1> QED
  BY <1>1, <1>2, QuietCount

\* The row of CurShipped that consumption raises.
LEMMA ConsumeShipped ==
  ASSUME Inv, LockInv, ShipInv, NEW q \in Requests, ConsumeReservation(q),
         NEW p \in Picks, p = tx[q].at
  PROVE  /\ ComShipped' = ComShipped
         /\ CurShipped'[p] = CurShipped[p] + tx[q].qty
         /\ \A r \in Picks \ {p} : CurShipped'[r] = CurShipped[r]
         /\ tx[q].qty \in Nat
<1> DEFINE d   == Target[q]
           qty == tx[q].qty
<1>1. /\ d \in Deliveries
      /\ movements' = [movements EXCEPT ![<<d, p>>] = Put(q, @, qty)]
  BY ConsumeReservationGoes
<1>2. qty \in Nat
  BY HandlerFacts DEF TxState
<1>3. <<d, p>> \in Deliveries \X Picks
  BY <1>1
<1>4. movements'[<<d, p>>].com = movements[<<d, p>>].com /\ movements'[<<d, p>>].cur = qty
  BY <1>1, <1>3, Tables DEF Put
<1>5. ASSUME NEW e \in Deliveries, NEW r \in Picks, <<e, r>> # <<d, p>>
      PROVE  movements'[<<e, r>>] = movements[<<e, r>>]
  BY <1>1, <1>3, <1>5, Tables
<1>6. movements[<<d, p>>].cur = 0
  BY ConsumeReservationShip
<1>7. ComShipped' = ComShipped
  <2>1. \A e \in Deliveries, r \in Picks : movements'[<<e, r>>].com = movements[<<e, r>>].com
    BY <1>4, <1>5
  <2> QED
    BY <2>1 DEF ComShipped
<1>8. \A r \in Picks \ {p} : CurShipped'[r] = CurShipped[r]
  BY <1>5 DEF CurShipped
<1>9. CurShipped'[p] = CurShipped[p] + qty
  <2> DEFINE w == [e \in Deliveries |-> movements[<<e, p>>].cur]
             v == [e \in Deliveries |-> movements'[<<e, p>>].cur]
  <2>1. CurShipped[p] = Total(w, Deliveries) /\ CurShipped'[p] = Total(v, Deliveries)
    BY DEF CurShipped
  <2>2. \A e \in Deliveries : w[e] \in Nat
    BY MoveRow
  <2>3. v[d] = w[d] + qty /\ \A e \in Deliveries \ {d} : v[e] = w[e]
    BY <1>1, <1>2, <1>4, <1>5, <1>6
  <2> HIDE DEF w, v
  <2>4. Total(v, Deliveries) = Total(w, Deliveries) + qty
    BY <1>1, <1>2, <2>2, <2>3, FiniteParts, TotalRaised
  <2> QED
    BY <2>1, <2>4
<1> QED
  BY <1>2, <1>7, <1>8, <1>9

LEMMA ConsumeReservationCount ==
  ASSUME Inv, LockInv, ShipInv, CountInv, NEW q \in Requests, ConsumeReservation(q)
  PROVE  CountInv'
<1>0. PICK p \in Picks : p = tx[q].at
  BY ConsumeReservationGoes
<1> DEFINE l   == PickLot[p]
           qty == tx[q].qty
           new == AfterConsume(lots[l].cur, qty)
<1>1. l \in Lots /\ lots' = [lots EXCEPT ![l] = Put(q, @, new)]
  BY <1>0, ConsumeReservationGoes
<1>2. /\ ComShipped' = ComShipped
      /\ CurShipped'[p] = CurShipped[p] + qty
      /\ \A r \in Picks \ {p} : CurShipped'[r] = CurShipped[r]
      /\ qty \in Nat
  BY <1>0, ConsumeShipped
<1>3. new.delivered = lots[l].cur.delivered + qty
  BY <1>1, <1>2, Tables DEF AfterConsume, Versioned, LotRow
<1> HIDE DEF new, qty
<1>4. /\ lots'[l].com = lots[l].com /\ lots'[l].cur = new
      /\ \A m \in Lots \ {l} : lots'[m] = lots[m]
  BY <1>1, Tables DEF Put
<1>5. ASSUME NEW m \in Lots
      PROVE  lots'[m].cur.delivered = Total(CurShipped', PicksAt(m))
  <2> DEFINE S == PicksAt(m)
             w == CurShipped
             v == CurShipped'
  <2>1. IsFiniteSet(S) /\ S \subseteq Picks /\ \A x \in S : w[x] \in Nat
    BY FiniteParts, ShippedType
  <2>2. p \in S <=> m = l
    BY DEF PicksAt
  <2>3. v[p] = w[p] + qty /\ \A x \in S \ {p} : v[x] = w[x]
    BY <1>2, <2>1
  <2>4. lots[m].cur.delivered = Total(w, S)
    BY DEF CountInv
  <2> HIDE DEF S, w, v
  <2>5. CASE m = l
    <3>1. Total(v, S) = Total(w, S) + qty
      BY <1>2, <2>1, <2>2, <2>3, <2>5, TotalRaised
    <3> QED
      BY <1>3, <1>4, <2>4, <2>5, <3>1 DEF v, S
  <2>6. CASE m # l
    <3>1. Total(v, S) = Total(w, S)
      BY <2>1, <2>2, <2>3, <2>6, TotalAgrees
    <3> QED
      BY <1>4, <2>4, <2>6, <3>1 DEF v, S
  <2> QED
    BY <2>5, <2>6
<1>6. \A m \in Lots : lots'[m].com.delivered = Total(ComShipped', PicksAt(m))
  BY <1>1, <1>2, <1>4 DEF CountInv
<1> QED
  BY <1>5, <1>6 DEF CountInv

LEMMA DeliverCount ==
  ASSUME Inv, LockInv, ShipInv, CountInv, NEW q \in Requests, DeliverStep(q),
         ~Rollback(q, "ended")
  PROVE  CountInv'
<1>1. CASE ConsumeReservation(q)
  BY <1>1, ConsumeReservationCount
<1>2. CASE ~ConsumeReservation(q)
  <2>1. UNCHANGED movements
    BY <1>2, DeliverShip
  <2>2. UNCHANGED lots
    BY <1>2, CreateDeliveryGoes, ConfirmDeliveryGoes, TransitionToConfirmedGoes,
       NextLineGoes, NextReservationGoes DEF DeliverStep, tables
  <2> QED
    BY <2>1, <2>2, QuietCount
<1> QED
  BY <1>1, <1>2

\* When q ends, a lot it held takes, with all movements of its picks, the one
\* version or the other.
LEMMA RollbackCount ==
  ASSUME Inv, LockInv, CountInv, NEW q \in Requests, NEW how \in Ended, Rollback(q, how)
  PROVE  CountInv'
<1>1. /\ \A l \in Lots : EndsAs(q, lots[l], lots'[l], lots[l].com)
      /\ \A d \in Deliveries, p \in Picks :
           EndsAs(q, movements[<<d, p>>], movements'[<<d, p>>], movements[<<d, p>>].com)
  BY RollbackEnds
<1>2. ComShipped' = ComShipped
  <2>1. \A d \in Deliveries, p \in Picks : movements'[<<d, p>>].com = movements[<<d, p>>].com
    BY <1>1 DEF EndsAs
  <2> QED
    BY <2>1 DEF ComShipped
<1>3. ASSUME NEW l \in Lots
      PROVE  /\ lots'[l].com.delivered = Total(ComShipped', PicksAt(l))
             /\ lots'[l].cur.delivered = Total(CurShipped', PicksAt(l))
  <2> DEFINE S == PicksAt(l)
             v == CurShipped'
             w == CurShipped
             c == ComShipped
  <2>1. IsFiniteSet(S) /\ S \subseteq Picks
    BY FiniteParts
  <2>2. lots[l].com.delivered = Total(c, S) /\ lots[l].cur.delivered = Total(w, S)
    BY DEF CountInv
  <2>3. ASSUME NEW d \in Deliveries, NEW p \in S
        PROVE  movements[<<d, p>>].lock # Nobody => lots[l].lock = movements[<<d, p>>].lock
    <3>1. MovementHeld(d, p) /\ PickLot[p] = l
      BY <2>1 DEF LockInv, HeldInv, PicksAt
    <3> QED
      BY <3>1 DEF MovementHeld
  <2>4. CASE lots[l].lock = q
    <3>1. \A p \in S : v[p] = c[p]
      <4> TAKE p \in S
      <4>1. \A d \in Deliveries : movements'[<<d, p>>].cur = movements[<<d, p>>].com
        <5> TAKE d \in Deliveries
        <5>1. p \in Picks /\ MovementHeld(d, p)
          BY <2>1 DEF LockInv, HeldInv
        <5>2. movements[<<d, p>>].lock \in {Nobody, q}
          BY <2>3, <2>4
        <5> QED
          BY <1>1, <5>1, <5>2 DEF MovementHeld, EndsAs
      <4> QED
        BY <2>1, <4>1 DEF ComShipped, CurShipped
    <3> HIDE DEF S, v, w, c
    <3>2. Total(v, S) = Total(c, S)
      BY <2>1, <3>1, TotalAgrees
    <3> QED
      BY <1>1, <1>2, <2>2, <2>4, <3>2 DEF EndsAs, S, v, w, c
  <2>5. CASE lots[l].lock # q
    <3>1. \A p \in S : v[p] = w[p]
      <4> TAKE p \in S
      <4>1. \A d \in Deliveries : movements'[<<d, p>>].cur = movements[<<d, p>>].cur
        BY <1>1, <2>1, <2>3, <2>5, Workload DEF EndsAs
      <4> QED
        BY <2>1, <4>1 DEF CurShipped
    <3> HIDE DEF S, v, w, c
    <3>2. Total(v, S) = Total(w, S)
      BY <2>1, <3>1, TotalAgrees
    <3> QED
      BY <1>1, <1>2, <2>2, <2>5, <3>2 DEF EndsAs, S, v, w, c
  <2> QED
    BY <2>4, <2>5
<1> QED
  BY <1>3 DEF CountInv

LEMMA CommitCount ==
  ASSUME Inv, LockInv, CountInv, NEW q \in Requests, Commit(q)
  PROVE  CountInv'
<1>1. /\ \A l \in Lots : EndsAs(q, lots[l], lots'[l], lots[l].cur)
      /\ \A d \in Deliveries, p \in Picks :
           EndsAs(q, movements[<<d, p>>], movements'[<<d, p>>], movements[<<d, p>>].cur)
  BY CommitEnds
<1>2. CurShipped' = CurShipped
  <2>1. \A d \in Deliveries, p \in Picks : movements'[<<d, p>>].cur = movements[<<d, p>>].cur
    BY <1>1 DEF EndsAs
  <2> QED
    BY <2>1 DEF CurShipped
<1>3. ASSUME NEW l \in Lots
      PROVE  /\ lots'[l].com.delivered = Total(ComShipped', PicksAt(l))
             /\ lots'[l].cur.delivered = Total(CurShipped', PicksAt(l))
  <2> DEFINE S == PicksAt(l)
             v == ComShipped'
             w == CurShipped
             c == ComShipped
  <2>1. IsFiniteSet(S) /\ S \subseteq Picks
    BY FiniteParts
  <2>2. lots[l].com.delivered = Total(c, S) /\ lots[l].cur.delivered = Total(w, S)
    BY DEF CountInv
  <2>3. ASSUME NEW d \in Deliveries, NEW p \in S
        PROVE  movements[<<d, p>>].lock # Nobody => lots[l].lock = movements[<<d, p>>].lock
    <3>1. MovementHeld(d, p) /\ PickLot[p] = l
      BY <2>1 DEF LockInv, HeldInv, PicksAt
    <3> QED
      BY <3>1 DEF MovementHeld
  <2>4. CASE lots[l].lock = q
    <3>1. \A p \in S : v[p] = w[p]
      <4> TAKE p \in S
      <4>1. \A d \in Deliveries : movements'[<<d, p>>].com = movements[<<d, p>>].cur
        <5> TAKE d \in Deliveries
        <5>1. p \in Picks /\ MovementHeld(d, p)
          BY <2>1 DEF LockInv, HeldInv
        <5>2. movements[<<d, p>>].lock \in {Nobody, q}
          BY <2>3, <2>4
        <5> QED
          BY <1>1, <5>1, <5>2 DEF MovementHeld, EndsAs
      <4> QED
        BY <2>1, <4>1 DEF ComShipped, CurShipped
    <3> HIDE DEF S, v, w, c
    <3>2. Total(v, S) = Total(w, S)
      BY <2>1, <3>1, TotalAgrees
    <3> QED
      BY <1>1, <1>2, <2>2, <2>4, <3>2 DEF EndsAs, S, v, w, c
  <2>5. CASE lots[l].lock # q
    <3>1. \A p \in S : v[p] = c[p]
      <4> TAKE p \in S
      <4>1. \A d \in Deliveries : movements'[<<d, p>>].com = movements[<<d, p>>].com
        BY <1>1, <2>1, <2>3, <2>5, Workload DEF EndsAs
      <4> QED
        BY <2>1, <4>1 DEF ComShipped
    <3> HIDE DEF S, v, w, c
    <3>2. Total(v, S) = Total(c, S)
      BY <2>1, <3>1, TotalAgrees
    <3> QED
      BY <1>1, <1>2, <2>2, <2>5, <3>2 DEF EndsAs, S, v, w, c
  <2> QED
    BY <2>4, <2>5
<1> QED
  BY <1>3 DEF CountInv

LEMMA InitCount == Init => CountInv
<1> SUFFICES ASSUME Init, NEW l \in Lots
             PROVE  /\ lots[l].com.delivered = Total(ComShipped, PicksAt(l))
                    /\ lots[l].cur.delivered = Total(CurShipped, PicksAt(l))
  BY DEF CountInv
<1>1. lots[l].com.delivered = 0 /\ lots[l].cur.delivered = 0
  BY DEF Init, Fresh
<1>2. ASSUME NEW p \in Picks PROVE ComShipped[p] = 0 /\ CurShipped[p] = 0
  <2> DEFINE c == [d \in Deliveries |-> movements[<<d, p>>].com]
             n == [d \in Deliveries |-> movements[<<d, p>>].cur]
  <2>1. \A d \in Deliveries : c[d] = 0 /\ n[d] = 0
    <3> TAKE d \in Deliveries
    <3>1. movements[<<d, p>>] = Fresh(0)
      BY DEF Init
    <3> QED
      BY <3>1 DEF Fresh
  <2>2. ComShipped[p] = Total(c, Deliveries) /\ CurShipped[p] = Total(n, Deliveries)
    BY DEF ComShipped, CurShipped
  <2> HIDE DEF c, n
  <2> QED
    BY <2>1, <2>2, FiniteParts, TotalOfZeros
<1>3. IsFiniteSet(PicksAt(l)) /\ \A p \in PicksAt(l) : ComShipped[p] = 0 /\ CurShipped[p] = 0
  BY <1>2, FiniteParts
<1>4. Total(ComShipped, PicksAt(l)) = 0 /\ Total(CurShipped, PicksAt(l)) = 0
  BY <1>3, TotalOfZeros
<1> QED
  BY <1>1, <1>4

LEMMA NextCount == Inv /\ Inv' /\ LockInv /\ ShipInv /\ CountInv /\ [Next]_vars => CountInv'
<1> SUFFICES ASSUME Inv, Inv', LockInv, ShipInv, CountInv, [Next]_vars PROVE CountInv'
  OBVIOUS
<1>1. CASE UNCHANGED vars
  BY <1>1, QuietCount DEF vars
<1>2. CASE Done
  BY <1>1, <1>2 DEF Done
<1>3. ASSUME NEW q \in Requests, Rollback(q, "ended")
      PROVE  CountInv'
  BY <1>3, RollbackCount DEF Ended
<1>4. ASSUME NEW q \in Requests, ~Rollback(q, "ended"),
             ApproveStep(q) \/ CancelStep(q) \/ PickStep(q) \/ DeliverStep(q)
      PROVE  CountInv'
  BY <1>4, ApproveCount, CancelCount, PickCount, DeliverCount
<1>5. ASSUME NEW q \in Requests, Crash(q) \/ DeadlockVictim(q)
      PROVE  CountInv'
  BY <1>3, <1>5 DEF Crash, DeadlockVictim
<1> QED
  BY <1>1, <1>2, <1>3, <1>4, <1>5, CommitCount DEF Next, Step

\* In both versions of every lot the delivered counter is the sum of the
\* movements out of it.
THEOREM Counting == Spec => [](Inv /\ LockInv /\ ShipInv /\ CountInv)
<1>1. Init => Inv /\ LockInv /\ ShipInv /\ CountInv
  BY InitInv, InitLock, InitShip, InitCount
<1>2. Inv /\ LockInv /\ ShipInv /\ CountInv /\ [Next]_vars
        => (Inv /\ LockInv /\ ShipInv /\ CountInv)'
  BY NextInv, NextLock, NextShip, NextCount
<1> QED
  BY <1>1, <1>2, PTL DEF Spec

\* What a lot says it delivered is what the deliveries shipped from it: no
\* concurrent confirmation, crash or rollback loses or doubles an increment.
THEOREM ShippedCounted == Spec => []ShippedMatchesCounter
<1>1. CountInv => ShippedMatchesCounter
  BY ShippedTotals DEF CountInv, ShippedMatchesCounter, Lot
<1> QED
  BY <1>1, Counting, PTL

-----------------------------------------------------------------------------
(* One request per sale at a time.                                         *)

\* The row locks of a sale's picks and reservations are with the request that
\* works on the sale, and the lines of a delivery are items of its sale.
Alone == \A q, r \in Open : SaleOf(q) = SaleOf(r) => q = r

PickOwned(p) == picks[p].lock # Nobody => SaleOf(picks[p].lock) = SaleOfPick(p)

\* What a request may do with a reservation: a cancellation and a delivery find
\* it open, and a delivery takes something from it.
ReservationOwned(p) ==
  LET row == reservations[p]
      q   == row.lock
  IN
  q # Nobody => /\ SaleOf(q) = SaleOfPick(p)
                /\ Op[q] \in {"cancel", "confirm"} => ~row.com.released
                /\ Op[q] = "confirm" => row.com.consumed < row.cur.consumed

LinesOwned(d) ==
  deliveries[d].cur # "none" => \A i \in LinesOf(d) : ItemSale[i] = DelivSale[d]

\* An open reservation is linked from a live pick of an approved sale, and only
\* an approved sale has deliveries.
IsOpen(row) == row.made /\ ~row.released

PickSettled(p) ==
  IsOpen(reservations[p].com) => /\ picks[p].com.live
                                 /\ picks[p].com.linked
                                 /\ sales[SaleOfPick(p)].com = "approved"

DeliverySettled(d) ==
  deliveries[d].com # "none" => sales[DelivSale[d]].com = "approved"

\* What the handler of q has read of its sale, and still holds.
ApprovalOK(q) ==
  LET t == tx[q]
      linking(p) == t.pc = "link" /\ t.at = p
  IN
  Op[q] = "approve" /\ t.pc \in {"casApproved"} \cup Reserving =>
    \A p \in Picks : SaleOfPick(p) = SaleOf(q) =>
      /\ p \in t.todo => picks[p].cur.live /\ (linking(p) \/ reservations[p].lock = Nobody)
      /\ reservations[p].lock = q =>
           \/ linking(p)
           \/ picks[p].lock = q /\ picks[p].cur.live /\ picks[p].cur.linked

CancellationOK(q) ==
  LET t == tx[q] IN
  Op[q] = "cancel" /\ t.pc \in Working =>
    /\ \A p \in Picks : SaleOfPick(p) = SaleOf(q) /\ IsOpen(reservations[p].com) =>
         p \in t.todo \/ reservations[p].lock = q
    /\ \A d \in Deliveries : DelivSale[d] = SaleOf(q) => deliveries[d].com = "none"
    /\ t.pc \in {"casCancelled", "commit"} => t.todo = {}

ReadingOK(q) ==
  LET t == tx[q] IN
  /\ t.pc \in {"findReservation", "release", "nextReservation", "consume"} =>
       \A p \in t.todo : SaleOfPick(p) = SaleOf(q)
  /\ t.pc \in {"release", "consume"} =>
       /\ SaleOfPick(t.at) = SaleOf(q)
       /\ ~reservations[t.at].cur.released
       /\ t.read = reservations[t.at].cur.consumed
  /\ t.pc = "consume" => t.qty # 0
  /\ Op[q] = "removeLot" /\ t.pc \in Working => ~picks[Target[q]].com.linked
  /\ Op[q] = "create" /\ t.pc \in Working => sales[SaleOf(q)].com = "approved"

WorksOn(q) == ApprovalOK(q) /\ CancellationOK(q) /\ ReadingOK(q)

SerialInv ==
  /\ Alone
  /\ \A p \in Picks : PickOwned(p) /\ ReservationOwned(p) /\ PickSettled(p)
  /\ \A d \in Deliveries : LinesOwned(d) /\ DeliverySettled(d)
  /\ \A q \in Requests : WorksOn(q)

\* What a reservation still holds of its lot.
Holds(p, row) == IF IsOpen(row) THEN PickQty[p] - row.consumed ELSE 0
ComHeld == [p \in Picks |-> Holds(p, reservations[p].com)]
CurHeld == [p \in Picks |-> Holds(p, reservations[p].cur)]

\* A reservation counts what was shipped from it, a lot what is held of it, and a
\* delivery ships only from reservations that it has locked.
ConsumedOK(p) == /\ reservations[p].com.consumed = ComShipped[p]
                 /\ reservations[p].cur.consumed = CurShipped[p]

ShipperOK(d, p) ==
  movements[<<d, p>>].lock # Nobody => reservations[p].lock = movements[<<d, p>>].lock

ReservedOK(l) == /\ lots[l].com.reserved = Total(ComHeld, PicksAt(l))
                 /\ lots[l].cur.reserved = Total(CurHeld, PicksAt(l))

BooksInv ==
  /\ \A p \in Picks : ConsumedOK(p)
  /\ \A d \in Deliveries, p \in Picks : ShipperOK(d, p)
  /\ \A l \in Lots : ReservedOK(l)

\* Whoever holds a row is at work, on the sale of that row.
LEMMA Holders ==
  ASSUME Inv, LockInv
  PROVE  /\ \A s \in Sales : sales[s].lock # Nobody =>
              sales[s].lock \in Open /\ SaleOf(sales[s].lock) = s
         /\ \A d \in Deliveries : deliveries[d].lock # Nobody =>
              deliveries[d].lock \in Open /\ SaleOf(deliveries[d].lock) = DelivSale[d]
         /\ \A p \in Picks : picks[p].lock # Nobody => picks[p].lock \in Open
         /\ \A p \in Picks : reservations[p].lock # Nobody =>
              /\ reservations[p].lock \in Open
              /\ reservations[p].lock = lots[PickLot[p]].lock
<1>1. /\ \A s \in Sales : sales[s].lock \in Requests \cup {Nobody}
      /\ \A d \in Deliveries : deliveries[d].lock \in Requests \cup {Nobody}
      /\ \A p \in Picks : picks[p].lock \in Requests \cup {Nobody}
  BY Tables DEF Versioned
<1>2. ASSUME NEW s \in Sales, sales[s].lock # Nobody
      PROVE  sales[s].lock \in Open /\ SaleOf(sales[s].lock) = s
  <2>1. SaleHeld(s)
    BY DEF LockInv, HeldInv
  <2> QED
    BY <1>1, <1>2, <2>1 DEF SaleHeld, Open, Working, Reserving, SaleOf
<1>3. ASSUME NEW d \in Deliveries, deliveries[d].lock # Nobody
      PROVE  deliveries[d].lock \in Open /\ SaleOf(deliveries[d].lock) = DelivSale[d]
  <2>1. DeliveryHeld(d)
    BY DEF LockInv, HeldInv
  <2> QED
    BY <1>1, <1>3, <2>1 DEF DeliveryHeld, Open, Working, Shipping, SaleOf
<1>4. ASSUME NEW p \in Picks, picks[p].lock # Nobody
      PROVE  picks[p].lock \in Open
  <2>1. PickHeld(p)
    BY DEF LockInv, HeldInv
  <2> QED
    BY <1>1, <1>4, <2>1 DEF PickHeld, Open, Working, Reserving
<1>5. ASSUME NEW p \in Picks, reservations[p].lock # Nobody
      PROVE  /\ reservations[p].lock \in Open
             /\ reservations[p].lock = lots[PickLot[p]].lock
  <2>1. ReservationHeld(p) /\ LotHeld(PickLot[p])
    BY Documents DEF LockInv, HeldInv
  <2> QED
    BY <1>5, <2>1 DEF ReservationHeld, LotHeld
<1> QED
  BY <1>2, <1>3, <1>4, <1>5

\* The rows of a sale on which nobody but q works.
OwnRow(q, row) == row.lock \in {Nobody, q} /\ Seen(q, row) = row.cur

LEMMA OwnRows ==
  ASSUME Inv, LockInv, SerialInv, NEW q \in Requests,
         \A r \in Open : SaleOf(r) = SaleOf(q) => r = q
  PROVE  /\ \A s \in Sales : s = SaleOf(q) => OwnRow(q, sales[s])
         /\ \A d \in Deliveries : DelivSale[d] = SaleOf(q) => OwnRow(q, deliveries[d])
         /\ \A p \in Picks : SaleOfPick(p) = SaleOf(q) =>
              OwnRow(q, picks[p]) /\ OwnRow(q, reservations[p])
<1>1. /\ \A s \in Sales : sales[s].lock = Nobody => sales[s].cur = sales[s].com
      /\ \A d \in Deliveries : deliveries[d].lock = Nobody => deliveries[d].cur = deliveries[d].com
      /\ \A p \in Picks : picks[p].lock = Nobody => picks[p].cur = picks[p].com
      /\ \A p \in Picks : reservations[p].lock = Nobody => reservations[p].cur = reservations[p].com
  BY DEF LockInv, HeldInv, SaleHeld, DeliveryHeld, PickHeld, ReservationHeld
<1>2. q # Nobody
  BY Workload
<1>3. \A s \in Sales : s = SaleOf(q) => sales[s].lock \in {Nobody, q}
  BY Holders
<1>4. \A d \in Deliveries : DelivSale[d] = SaleOf(q) => deliveries[d].lock \in {Nobody, q}
  BY Holders
<1>5. \A p \in Picks : SaleOfPick(p) = SaleOf(q) =>
        picks[p].lock \in {Nobody, q} /\ reservations[p].lock \in {Nobody, q}
  BY Holders DEF SerialInv, PickOwned, ReservationOwned
<1> QED
  BY <1>1, <1>2, <1>3, <1>4, <1>5 DEF OwnRow, Seen

LEMMA MySale ==
  ASSUME NEW q \in Requests
  PROVE  /\ SaleOf(q) \in Sales
         /\ Op[q] \in {"approve", "cancel"} => SaleOf(q) = Target[q]
         /\ Op[q] = "addItem" => SaleOf(q) = ItemSale[Target[q]]
         /\ Op[q] \in {"addLot", "removeLot"} => SaleOf(q) = SaleOfPick(Target[q])
         /\ Op[q] \in {"create", "confirm"} => SaleOf(q) = DelivSale[Target[q]]
BY Workload, Documents DEF SaleOf, SaleOfPick, Operations

\* Whoever begins finds nobody else at work on his sale.
LEMMA BeginsAlone ==
  ASSUME OneWriterPerSale, Alone, NEW q \in Requests, Step(q)
  PROVE  \A r \in Open : SaleOf(r) = SaleOf(q) => r = q
<1>1. CASE tx[q].pc = "new"
  BY <1>1 DEF Step, ApproveStep, CancelStep, PickStep, DeliverStep, Commit, At, CanBegin,
     Approve, TransitionToApproved, ReserveFromLot, LinkReservation,
     Cancel, FindReservation, ReleaseReservation, TransitionToCancelled,
     AddItem, AddLot, RemoveLot, SoftDeletePick,
     CreateDelivery, ConfirmDelivery, TransitionToConfirmed, NextLine, NextReservation,
     ConsumeReservation
<1>2. CASE tx[q].pc # "new" /\ ~(tx[q].pc \in Working)
  BY <1>2 DEF Step, ApproveStep, CancelStep, PickStep, DeliverStep, Commit, At, CanBegin,
     Approve, TransitionToApproved, ReserveFromLot, LinkReservation,
     Cancel, FindReservation, ReleaseReservation, TransitionToCancelled,
     AddItem, AddLot, RemoveLot, SoftDeletePick, Working,
     CreateDelivery, ConfirmDelivery, TransitionToConfirmed, NextLine, NextReservation,
     ConsumeReservation
<1>3. CASE tx[q].pc \in Working
  BY <1>3 DEF Alone, Open
<1> QED
  BY <1>1, <1>2, <1>3

\* Nothing of the sale changes.
Untouched(s) ==
  /\ sales'[s] = sales[s]
  /\ \A d \in Deliveries : DelivSale[d] = s => deliveries'[d] = deliveries[d]
  /\ \A p \in Picks : SaleOfPick(p) = s => /\ picks'[p] = picks[p]
                                           /\ reservations'[p] = reservations[p]

\* What the handler of r holds, it holds on.
LEMMA OthersWork ==
  ASSUME Inv, SerialInv, NEW r \in Requests, tx'[r] = tx[r], Untouched(SaleOf(r))
  PROVE  WorksOn(r)'
<1>1. ApprovalOK(r)'
  BY DEF SerialInv, WorksOn, ApprovalOK, Untouched
<1>2. CancellationOK(r)'
  BY DEF SerialInv, WorksOn, CancellationOK, Untouched
<1>3. /\ tx[r].pc \in {"release", "consume"} => tx[r].at \in Picks
      /\ Op[r] = "removeLot" => Target[r] \in Picks
  BY HandlerFacts, Workload DEF HandlerOK
<1>4. ReadingOK(r)'
  <2>1. tx[r].pc \in {"release", "consume"} =>
          SaleOfPick(tx[r].at) = SaleOf(r) /\ reservations'[tx[r].at] = reservations[tx[r].at]
    BY <1>3 DEF SerialInv, WorksOn, ReadingOK, Untouched
  <2>2. Op[r] = "removeLot" => picks'[Target[r]] = picks[Target[r]]
    BY <1>3, MySale DEF Untouched
  <2>3. ReadingOK(r)
    BY DEF SerialInv, WorksOn
  <2> QED
    BY <2>1, <2>2, <2>3 DEF ReadingOK, Untouched
<1> QED
  BY <1>1, <1>2, <1>4 DEF WorksOn

LEMMA Idle ==
  ASSUME NEW r, tx'[r].pc \notin Working
  PROVE  WorksOn(r)'
BY DEF WorksOn, ApprovalOK, CancellationOK, ReadingOK, Working, Reserving

\* A step of q that goes on, on rows of its sale.
LEMMA GoesSerial ==
  ASSUME Inv, Inv', LockInv, LockInv', SerialInv, NEW q \in Requests,
         NEW pc, NEW at, NEW todo, Goes(q, pc, at, todo),
         \A r \in Open : SaleOf(r) = SaleOf(q) => r = q,
         \A p \in Picks : picks'[p] = picks[p] \/ SaleOfPick(p) = SaleOf(q),
         \A p \in Picks : \/ reservations'[p] = reservations[p]
                          \/ SaleOfPick(p) = SaleOf(q) /\ ReservationOwned(p)',
         \A d \in Deliveries : deliveries'[d] = deliveries[d] \/ LinesOwned(d)',
         WorksOn(q)'
  PROVE  SerialInv'
<1>1. Open' \subseteq Open \cup {q}
  BY DEF Goes, Open
<1>2. Alone'
  BY <1>1 DEF Alone, SerialInv, SaleOf
<1>3. ASSUME NEW p \in Picks PROVE PickOwned(p)'
  <2>1. CASE picks'[p] = picks[p]
    BY <2>1 DEF SerialInv, PickOwned, SaleOf, SaleOfPick
  <2>2. CASE picks'[p] # picks[p]
    <3>1. picks'[p].lock = q /\ SaleOfPick(p) = SaleOf(q)
      BY <2>2 DEF Goes, Writes
    <3> QED
      BY <3>1 DEF PickOwned, SaleOf, SaleOfPick
  <2> QED
    BY <2>1, <2>2
<1>4. \A p \in Picks : ReservationOwned(p)'
  BY DEF SerialInv, ReservationOwned, SaleOf, SaleOfPick
<1>5. \A d \in Deliveries : LinesOwned(d)'
  BY DEF SerialInv, LinesOwned
<1>6. /\ \A p \in Picks : PickSettled(p)'
      /\ \A d \in Deliveries : DeliverySettled(d)'
  <2>1. /\ \A p \in Picks : /\ reservations'[p].com = reservations[p].com
                            /\ picks'[p].com = picks[p].com
        /\ \A d \in Deliveries : deliveries'[d].com = deliveries[d].com
        /\ \A s \in Sales : sales'[s].com = sales[s].com
    BY Keeps
  <2> QED
    BY <2>1, Documents DEF SerialInv, PickSettled, DeliverySettled, SaleOfPick
<1>7. ASSUME NEW r \in Requests, r # q PROVE WorksOn(r)'
  <2>1. tx'[r] = tx[r]
    BY <1>7 DEF Goes
  <2>2. CASE tx[r].pc \notin Working
    BY <2>1, <2>2, Idle
  <2>3. CASE tx[r].pc \in Working
    <3>1. SaleOf(r) # SaleOf(q) /\ SaleOf(r) \in Sales
      BY <1>7, <2>3, MySale DEF Open
    <3>2. q # Nobody
      BY Workload
    <3>3. ASSUME sales'[SaleOf(r)] # sales[SaleOf(r)] PROVE FALSE
      <4> DEFINE s == SaleOf(r)
      <4>1. s \in Sales /\ sales'[s].lock = q
        BY <3>1, <3>3 DEF Goes, Writes
      <4> HIDE DEF s
      <4>2. SaleHeld(s)'
        BY <4>1 DEF LockInv, HeldInv
      <4>3. Op[q] \in {"approve", "cancel"} /\ Target[q] = s
        BY <3>2, <4>1, <4>2 DEF SaleHeld
      <4> QED
        BY <3>1, <4>3, MySale DEF s
    <3>6. ASSUME NEW d \in Deliveries, DelivSale[d] = SaleOf(r), deliveries'[d] # deliveries[d]
          PROVE  FALSE
      <4>1. deliveries'[d].lock = q
        BY <3>6 DEF Goes, Writes
      <4>2. DeliveryHeld(d)'
        BY DEF LockInv, HeldInv
      <4>3. Op[q] \in {"create", "confirm"} /\ Target[q] = d
        BY <3>2, <4>1, <4>2 DEF DeliveryHeld
      <4> QED
        BY <3>1, <3>6, <4>3, MySale
    <3>7. Untouched(SaleOf(r))
      BY <3>1, <3>3, <3>6 DEF Untouched
    <3> QED
      BY <2>1, <3>7, OthersWork
  <2> QED
    BY <2>2, <2>3
<1> QED
  BY <1>2, <1>3, <1>4, <1>5, <1>6, <1>7 DEF SerialInv

LEMMA QuietSerial ==
  ASSUME Inv, Inv', LockInv, LockInv', SerialInv, NEW q \in Requests,
         NEW pc, NEW at, NEW todo, Goes(q, pc, at, todo),
         \A r \in Open : SaleOf(r) = SaleOf(q) => r = q,
         UNCHANGED tables, WorksOn(q)'
  PROVE  SerialInv'
BY GoesSerial DEF tables

LEMMA HoldsNothing ==
  ASSUME Inv, LockInv, NEW q \in Requests, tx[q].pc = "new"
  PROVE  /\ \A s \in Sales : sales[s].lock # q /\ Seen(q, sales[s]) = sales[s].com
         /\ \A d \in Deliveries : deliveries[d].lock # q /\ Seen(q, deliveries[d]) = deliveries[d].com
         /\ \A p \in Picks : /\ picks[p].lock # q /\ Seen(q, picks[p]) = picks[p].com
                             /\ reservations[p].lock # q
BY Holders, Workload DEF Open, Working, Seen

LEMMA ApproveSerial ==
  ASSUME Inv, Inv', LockInv, LockInv', SerialInv, NEW q \in Requests,
         \A r \in Open : SaleOf(r) = SaleOf(q) => r = q,
         Approve(q), ~Rollback(q, "ended")
  PROVE  SerialInv'
<1>1. /\ Goes(q, "casApproved", tx[q].at, LotPicks(q, Target[q]))
      /\ Op[q] = "approve" /\ tx[q].pc = "new"
      /\ UNCHANGED tables
  BY ApproveGoes
<1>2. tx'[q].pc = "casApproved" /\ tx'[q].todo = LotPicks(q, Target[q])
  BY <1>1 DEF Goes
<1>3. \A p \in Picks : SaleOfPick(p) = SaleOf(q) =>
        /\ p \in LotPicks(q, Target[q]) => picks[p].cur.live
        /\ reservations[p].lock = Nobody
  BY <1>1, OwnRows, HoldsNothing DEF OwnRow, LotPicks
<1>4. ApprovalOK(q)'
  BY <1>1, <1>2, <1>3, Workload DEF ApprovalOK, tables, SaleOf, SaleOfPick
<1>5. WorksOn(q)'
  BY <1>1, <1>2, <1>4 DEF WorksOn, CancellationOK, ReadingOK
<1> QED
  BY <1>1, <1>5, QuietSerial

LEMMA TransitionToApprovedSerial ==
  ASSUME Inv, Inv', LockInv, LockInv', SerialInv, NEW q \in Requests,
         \A r \in Open : SaleOf(r) = SaleOf(q) => r = q,
         TransitionToApproved(q), ~Rollback(q, "ended")
  PROVE  SerialInv'
<1>1. /\ tx[q].pc = "casApproved"
      /\ Goes(q, tx'[q].pc, tx'[q].at, tx[q].todo)
      /\ tx'[q].pc \in {"commit", "reserve"}
      /\ UNCHANGED <<lots, reservations, picks, deliveries, movements>>
  BY TransitionToApprovedGoes
<1>2. Op[q] = "approve" /\ tx'[q].todo = tx[q].todo
  BY <1>1 DEF LockInv, KnowsInv, Knows, Goes
<1>3. ApprovalOK(q)
  BY DEF SerialInv, WorksOn
<1>4. ApprovalOK(q)'
  BY <1>1, <1>2, <1>3 DEF ApprovalOK, SaleOf, SaleOfPick
<1>5. WorksOn(q)'
  BY <1>1, <1>2, <1>4 DEF WorksOn, CancellationOK, ReadingOK
<1> QED
  BY <1>1, <1>5, GoesSerial

\* The pick at hand is of the sale that is approved.
LEMMA AtHand ==
  ASSUME Inv, LockInv, NEW q \in Requests, tx[q].pc \in {"reserve", "link"}
  PROVE  /\ Op[q] = "approve" /\ tx[q].at \in tx[q].todo
         /\ tx[q].at \in Picks /\ SaleOfPick(tx[q].at) = SaleOf(q)
<1>1. Knows(q) /\ tx[q] \in TxState
  BY HandlerFacts DEF LockInv, KnowsInv
<1>2. Op[q] = "approve" /\ tx[q].at \in tx[q].todo /\ tx[q].todo \in SUBSET Picks
  BY <1>1 DEF Knows, TxState
<1>3. \A p \in tx[q].todo : SaleOfPick(p) = Target[q]
  BY <1>1, <1>2 DEF Knows, Reserving
<1> QED
  BY <1>2, <1>3, MySale

LEMMA ReserveFromLotSerial ==
  ASSUME Inv, Inv', LockInv, LockInv', SerialInv, NEW q \in Requests,
         \A r \in Open : SaleOf(r) = SaleOf(q) => r = q,
         ReserveFromLot(q), ~Rollback(q, "ended")
  PROVE  SerialInv'
<1>0. PICK p : p = tx[q].at
  OBVIOUS
<1>1. /\ tx[q].pc = "reserve" /\ p \in Picks
      /\ Goes(q, "link", p, tx[q].todo)
      /\ reservations' = [reservations EXCEPT ![p] = Put(q, @, ReservationMade(TRUE))]
      /\ UNCHANGED <<picks, sales, deliveries, movements>>
  BY <1>0, ReserveFromLotGoes
<1>2. Op[q] = "approve" /\ p \in tx[q].todo /\ SaleOfPick(p) = SaleOf(q)
  BY <1>0, <1>1, AtHand
<1>3. tx'[q].pc = "link" /\ tx'[q].at = p /\ tx'[q].todo = tx[q].todo
  BY <1>1 DEF Goes
<1>4. /\ reservations'[p].lock = q
      /\ \A r \in Picks : r # p => reservations'[r] = reservations[r]
  BY <1>1, Tables DEF Put
<1>5. ReservationOwned(p)'
  BY <1>2, <1>4 DEF ReservationOwned, SaleOf, SaleOfPick
<1>6. ApprovalOK(q)
  BY DEF SerialInv, WorksOn
<1>7. ApprovalOK(q)'
  BY <1>1, <1>2, <1>3, <1>4, <1>6 DEF ApprovalOK, Reserving, SaleOf, SaleOfPick
<1>8. WorksOn(q)'
  BY <1>2, <1>3, <1>7 DEF WorksOn, CancellationOK, ReadingOK
<1> QED
  BY <1>1, <1>2, <1>4, <1>5, <1>8, GoesSerial

LEMMA LinkReservationSerial ==
  ASSUME Inv, Inv', LockInv, LockInv', SerialInv, NEW q \in Requests,
         \A r \in Open : SaleOf(r) = SaleOf(q) => r = q,
         LinkReservation(q)
  PROVE  SerialInv'
<1>0. PICK p : p = tx[q].at
  OBVIOUS
<1>1. /\ tx[q].pc = "link" /\ p \in Picks
      /\ Goes(q, tx'[q].pc, tx'[q].at, tx[q].todo \ {p})
      /\ tx'[q].pc \in {"commit", "reserve"}
      /\ \/ picks' = [picks EXCEPT ![p] = Put(q, @, [@.cur EXCEPT !.linked = TRUE])]
         \/ ~Seen(q, picks[p]).live
      /\ UNCHANGED <<lots, reservations, sales, deliveries, movements>>
  BY <1>0, LinkReservationGoes
<1>2. Op[q] = "approve" /\ p \in tx[q].todo /\ SaleOfPick(p) = SaleOf(q)
  BY <1>0, <1>1, AtHand
<1>3. tx'[q].todo = tx[q].todo \ {p}
  BY <1>1 DEF Goes
<1>4. ApprovalOK(q)
  BY DEF SerialInv, WorksOn
<1>5. picks[p].cur.live /\ Seen(q, picks[p]).live
  BY <1>1, <1>2, <1>4, OwnRows DEF ApprovalOK, Reserving, OwnRow
<1>6. picks[p].cur \in PickRow
  BY <1>1, Tables DEF Versioned
<1>7. /\ picks'[p].lock = q /\ picks'[p].cur.live /\ picks'[p].cur.linked
      /\ \A r \in Picks : r # p => picks'[r] = picks[r]
  BY <1>1, <1>5, <1>6, Tables DEF Put, PickRow
<1>8. ASSUME NEW r \in Picks, SaleOfPick(r) = SaleOf(q)
      PROVE  /\ r \in tx'[q].todo => picks'[r].cur.live /\ reservations'[r].lock = Nobody
             /\ reservations'[r].lock = q =>
                  picks'[r].lock = q /\ picks'[r].cur.live /\ picks'[r].cur.linked
  BY <1>0, <1>1, <1>2, <1>3, <1>4, <1>7, <1>8 DEF ApprovalOK, Reserving
<1>9. ApprovalOK(q)'
  BY <1>8 DEF ApprovalOK, SaleOf, SaleOfPick
<1>10. WorksOn(q)'
  BY <1>1, <1>2, <1>9 DEF WorksOn, CancellationOK, ReadingOK
<1> QED
  BY <1>1, <1>2, <1>7, <1>10, GoesSerial

LEMMA CancelSerial ==
  ASSUME Inv, Inv', LockInv, LockInv', SerialInv, NEW q \in Requests,
         \A r \in Open : SaleOf(r) = SaleOf(q) => r = q,
         Cancel(q), ~Rollback(q, "ended")
  PROVE  SerialInv'
<1> DEFINE linked == {p \in LotPicks(q, Target[q]) : Seen(q, picks[p]).linked}
<1>1. /\ Op[q] = "cancel" /\ tx[q].pc = "new"
      /\ Goes(q, "findReservation", tx[q].at, linked)
      /\ ~HasDelivery(q, Target[q])
      /\ UNCHANGED tables
  BY CancelGoes
<1>2. tx'[q].pc = "findReservation" /\ tx'[q].todo = linked /\ SaleOf(q) = Target[q]
  BY <1>1, MySale DEF Goes
<1>3. ASSUME NEW p \in Picks, SaleOfPick(p) = SaleOf(q), IsOpen(reservations[p].com)
      PROVE  p \in linked
  <2>1. picks[p].com.live /\ picks[p].com.linked
    BY <1>3 DEF SerialInv, PickSettled
  <2> QED
    BY <1>1, <1>2, <1>3, <2>1, HoldsNothing DEF LotPicks, SaleOfPick
<1>4. \A d \in Deliveries : DelivSale[d] = SaleOf(q) => deliveries[d].com = "none"
  BY <1>1, <1>2, HoldsNothing DEF HasDelivery
<1>5. \A p \in linked : SaleOfPick(p) = SaleOf(q)
  BY <1>2 DEF LotPicks, SaleOfPick
<1> HIDE DEF linked
<1>6. CancellationOK(q)'
  BY <1>1, <1>2, <1>3, <1>4 DEF CancellationOK, tables, SaleOf, SaleOfPick
<1>7. WorksOn(q)'
  BY <1>1, <1>2, <1>5, <1>6 DEF WorksOn, ApprovalOK, ReadingOK, SaleOf, SaleOfPick
<1> QED
  BY <1>1, <1>7, QuietSerial

LEMMA FindReservationSerial ==
  ASSUME Inv, Inv', LockInv, LockInv', SerialInv, NEW q \in Requests,
         \A r \in Open : SaleOf(r) = SaleOf(q) => r = q,
         FindReservation(q), ~Rollback(q, "ended")
  PROVE  SerialInv'
<1>1. /\ tx[q].pc = "findReservation"
      /\ Goes(q, tx'[q].pc, tx'[q].at, tx[q].todo)
      /\ \/ /\ tx'[q].pc = "release" /\ tx'[q].at \in tx[q].todo
            /\ ~Seen(q, reservations[tx'[q].at]).released
            /\ tx'[q].read = Seen(q, reservations[tx'[q].at]).consumed
         \/ tx[q].todo = {} /\ tx'[q].pc = "casCancelled"
      /\ UNCHANGED tables
  BY FindReservationGoes
<1>2. tx'[q].todo = tx[q].todo /\ Op[q] = "cancel" /\ tx[q].todo \in SUBSET Picks
  BY <1>1, HandlerFacts DEF LockInv, KnowsInv, Knows, Goes, TxState
<1>3. CancellationOK(q) /\ ReadingOK(q)
  BY DEF SerialInv, WorksOn
<1>4. CancellationOK(q)'
  BY <1>1, <1>2, <1>3 DEF CancellationOK, tables, SaleOf, SaleOfPick, Working
<1>5. \A p \in tx[q].todo : /\ SaleOfPick(p) = SaleOf(q)
                            /\ Seen(q, reservations[p]) = reservations[p].cur
  BY <1>1, <1>2, <1>3, OwnRows DEF ReadingOK, OwnRow
<1>6. ReadingOK(q)'
  BY <1>1, <1>2, <1>5 DEF ReadingOK, tables, SaleOf, SaleOfPick
<1>7. WorksOn(q)'
  BY <1>1, <1>2, <1>4, <1>6 DEF WorksOn, ApprovalOK
<1> QED
  BY <1>1, <1>7, QuietSerial

LEMMA ReleaseReservationSerial ==
  ASSUME Inv, Inv', LockInv, LockInv', SerialInv, NEW q \in Requests,
         \A r \in Open : SaleOf(r) = SaleOf(q) => r = q,
         ReleaseReservation(q), ~Rollback(q, "ended")
  PROVE  SerialInv'
<1>0. PICK p : p = tx[q].at
  OBVIOUS
<1>1. /\ tx[q].pc = "release" /\ p \in Picks
      /\ Goes(q, "findReservation", p, tx[q].todo \ {p})
      /\ Lockable(q, reservations[p])
      /\ reservations' =
           [reservations EXCEPT ![p] = Put(q, @, [@.cur EXCEPT !.released = TRUE])]
      /\ UNCHANGED <<picks, sales, deliveries, movements>>
  BY <1>0, ReleaseReservationGoes
<1>2. /\ tx'[q].pc = "findReservation" /\ tx'[q].todo = tx[q].todo \ {p}
      /\ Op[q] = "cancel" /\ tx[q].todo \in SUBSET Picks
  BY <1>1, HandlerFacts DEF LockInv, KnowsInv, Knows, Goes, TxState
<1>3. CancellationOK(q) /\ ReadingOK(q) /\ ReservationOwned(p)
  BY <1>1 DEF SerialInv, WorksOn
<1>4. SaleOfPick(p) = SaleOf(q) /\ ~reservations[p].cur.released
  BY <1>0, <1>1, <1>3 DEF ReadingOK
<1>5. /\ reservations'[p].lock = q /\ reservations'[p].com = reservations[p].com
      /\ \A r \in Picks : r # p => reservations'[r] = reservations[r]
  BY <1>1, Tables DEF Put
<1>6. ~reservations[p].com.released
  <2>1. CASE reservations[p].lock = Nobody
    <3>1. ReservationHeld(p)
      BY <1>1 DEF LockInv, HeldInv
    <3> QED
      BY <1>4, <2>1, <3>1 DEF ReservationHeld
  <2>2. CASE reservations[p].lock = q
    BY <1>2, <1>3, <2>2, Workload DEF ReservationOwned
  <2> QED
    BY <1>1, <2>1, <2>2 DEF Lockable
<1>7. ReservationOwned(p)'
  BY <1>2, <1>4, <1>5, <1>6 DEF ReservationOwned, SaleOf, SaleOfPick
<1>8. CancellationOK(q)'
  <2>1. \A r \in Picks : reservations'[r].com = reservations[r].com
    BY <1>5
  <2>2. \A r \in Picks : SaleOfPick(r) = SaleOf(q) /\ IsOpen(reservations'[r].com) =>
          r \in tx'[q].todo \/ reservations'[r].lock = q
    BY <1>1, <1>2, <1>3, <1>5, <2>1 DEF CancellationOK, Working
  <2>3. \A d \in Deliveries : DelivSale[d] = SaleOf(q) => deliveries[d].com = "none"
    BY <1>1, <1>2, <1>3 DEF CancellationOK, Working
  <2> QED
    BY <1>1, <1>2, <2>2, <2>3 DEF CancellationOK, SaleOf, SaleOfPick
<1>9. ReadingOK(q)'
  BY <1>1, <1>2, <1>3 DEF ReadingOK, SaleOf, SaleOfPick
<1>10. WorksOn(q)'
  BY <1>2, <1>8, <1>9 DEF WorksOn, ApprovalOK
<1> QED
  BY <1>1, <1>4, <1>5, <1>7, <1>10, GoesSerial

LEMMA TransitionToCancelledSerial ==
  ASSUME Inv, Inv', LockInv, LockInv', SerialInv, NEW q \in Requests,
         \A r \in Open : SaleOf(r) = SaleOf(q) => r = q,
         TransitionToCancelled(q), ~Rollback(q, "ended")
  PROVE  SerialInv'
<1>1. /\ tx[q].pc = "casCancelled"
      /\ Goes(q, "commit", tx[q].at, tx[q].todo)
      /\ UNCHANGED <<lots, reservations, picks, deliveries, movements>>
  BY TransitionToCancelledGoes
<1>2. Op[q] = "cancel" /\ tx'[q].todo = tx[q].todo /\ tx'[q].pc = "commit"
  BY <1>1 DEF LockInv, KnowsInv, Knows, Goes
<1>3. CancellationOK(q)
  BY DEF SerialInv, WorksOn
<1>4. CancellationOK(q)'
  BY <1>1, <1>2, <1>3 DEF CancellationOK, SaleOf, SaleOfPick, Working
<1>5. WorksOn(q)'
  BY <1>1, <1>2, <1>4 DEF WorksOn, ApprovalOK, ReadingOK
<1> QED
  BY <1>1, <1>5, GoesSerial

LEMMA PickSerial ==
  ASSUME Inv, Inv', LockInv, LockInv', SerialInv, NEW q \in Requests,
         \A r \in Open : SaleOf(r) = SaleOf(q) => r = q,
         PickStep(q), ~Rollback(q, "ended")
  PROVE  SerialInv'
<1>0. PICK p : p = Target[q]
  OBVIOUS
<1>1. CASE AddLot(q)
  <2>1. /\ Op[q] = "addLot" /\ p \in Picks
        /\ Goes(q, "commit", tx[q].at, tx[q].todo)
        /\ picks' = [picks EXCEPT ![p] = Put(q, @, [live |-> TRUE, linked |-> FALSE])]
        /\ UNCHANGED <<lots, reservations, sales, deliveries, movements>>
    BY <1>0, <1>1, AddLotGoes
  <2>2. tx'[q].pc = "commit"
    BY <2>1 DEF Goes
  <2>3. WorksOn(q)'
    BY <2>1, <2>2 DEF WorksOn, ApprovalOK, CancellationOK, ReadingOK
  <2>4. SaleOfPick(p) = SaleOf(q) /\ \A r \in Picks : r # p => picks'[r] = picks[r]
    BY <1>0, <2>1, MySale, Tables
  <2> QED
    BY <2>1, <2>3, <2>4, GoesSerial
<1>2. CASE RemoveLot(q)
  <2>1. /\ Op[q] = "removeLot" /\ tx[q].pc = "new" /\ p \in Picks
        /\ Goes(q, "softDelete", tx[q].at, tx[q].todo)
        /\ Removable(Seen(q, picks[p]))
        /\ UNCHANGED tables
    BY <1>0, <1>2, RemoveLotGoes
  <2>2. tx'[q].pc = "softDelete"
    BY <2>1 DEF Goes
  <2>3. ~picks[p].com.linked
    BY <2>1, HoldsNothing DEF Removable
  <2>4. ReadingOK(q)'
    BY <1>0, <2>1, <2>2, <2>3 DEF ReadingOK, tables
  <2>5. WorksOn(q)'
    BY <2>1, <2>2, <2>4 DEF WorksOn, ApprovalOK, CancellationOK
  <2> QED
    BY <2>1, <2>5, QuietSerial
<1>3. CASE SoftDeletePick(q)
  <2>1. /\ Op[q] = "removeLot" /\ tx[q].pc = "softDelete" /\ p \in Picks
        /\ Goes(q, "commit", tx[q].at, tx[q].todo)
        /\ picks' = [picks EXCEPT ![p] = Put(q, @, [@.cur EXCEPT !.live = FALSE])]
        /\ UNCHANGED <<lots, reservations, sales, deliveries, movements>>
    BY <1>0, <1>3, SoftDeletePickGoes
  <2>2. tx'[q].pc = "commit"
    BY <2>1 DEF Goes
  <2>3. /\ picks'[p].com = picks[p].com
        /\ \A r \in Picks : r # p => picks'[r] = picks[r]
    BY <2>1, Tables DEF Put
  <2>4. ReadingOK(q)
    BY DEF SerialInv, WorksOn
  <2>5. ReadingOK(q)'
    BY <1>0, <2>1, <2>2, <2>3, <2>4 DEF ReadingOK, Working
  <2>6. WorksOn(q)'
    BY <2>1, <2>2, <2>5 DEF WorksOn, ApprovalOK, CancellationOK
  <2>7. SaleOfPick(p) = SaleOf(q)
    BY <1>0, <2>1, MySale
  <2> QED
    BY <2>1, <2>3, <2>6, <2>7, GoesSerial
<1>4. CASE AddItem(q)
  <2>1. /\ Op[q] = "addItem" /\ Goes(q, "commit", tx[q].at, tx[q].todo)
        /\ UNCHANGED tables
    BY <1>4, AddItemGoes
  <2>2. WorksOn(q)'
    BY <2>1 DEF Goes, WorksOn, ApprovalOK, CancellationOK, ReadingOK
  <2> QED
    BY <2>1, <2>2, QuietSerial
<1> QED
  BY <1>1, <1>2, <1>3, <1>4 DEF PickStep

LEMMA CreateDeliverySerial ==
  ASSUME Inv, Inv', LockInv, LockInv', SerialInv, NEW q \in Requests,
         \A r \in Open : SaleOf(r) = SaleOf(q) => r = q,
         CreateDelivery(q), ~Rollback(q, "ended")
  PROVE  SerialInv'
<1>0. PICK d : d = Target[q]
  OBVIOUS
<1>1. /\ Op[q] = "create" /\ tx[q].pc = "new" /\ d \in Deliveries
      /\ Goes(q, "commit", tx[q].at, tx[q].todo)
      /\ Seen(q, sales[DelivSale[d]]) = "approved"
      /\ \A i \in LinesOf(d) : ItemSale[i] = DelivSale[d]
      /\ deliveries' = [deliveries EXCEPT ![d] = Put(q, @, "draft")]
      /\ UNCHANGED <<lots, reservations, picks, sales, movements>>
  BY <1>0, CreateDeliveryGoes
<1>2. tx'[q].pc = "commit" /\ SaleOf(q) = DelivSale[d] /\ SaleOf(q) \in Sales
  BY <1>0, <1>1, MySale DEF Goes
<1>3. sales[SaleOf(q)].com = "approved"
  BY <1>1, <1>2, HoldsNothing
<1>4. ReadingOK(q)'
  BY <1>1, <1>2, <1>3 DEF ReadingOK, SaleOf
<1>5. WorksOn(q)'
  BY <1>1, <1>2, <1>4 DEF WorksOn, ApprovalOK, CancellationOK
<1>6. \A e \in Deliveries : e # d => deliveries'[e] = deliveries[e]
  BY <1>1, Tables
<1>7. LinesOwned(d)'
  BY <1>1 DEF LinesOwned, LinesOf
<1> QED
  BY <1>1, <1>5, <1>6, <1>7, GoesSerial

LEMMA TransitionToConfirmedSerial ==
  ASSUME Inv, Inv', LockInv, LockInv', SerialInv, NEW q \in Requests,
         \A r \in Open : SaleOf(r) = SaleOf(q) => r = q,
         TransitionToConfirmed(q), ~Rollback(q, "ended")
  PROVE  SerialInv'
<1>0. PICK d : d = Target[q]
  OBVIOUS
<1>1. /\ Op[q] = "confirm" /\ d \in Deliveries
      /\ Goes(q, "nextLine", tx[q].at, tx[q].todo)
      /\ Seen(q, deliveries[d]) = "draft"
      /\ deliveries' = [deliveries EXCEPT ![d] = Put(q, @, "confirmed")]
      /\ UNCHANGED <<lots, reservations, picks, sales, movements>>
  BY <1>0, TransitionToConfirmedGoes
<1>2. tx'[q].pc = "nextLine" /\ SaleOf(q) = DelivSale[d]
  BY <1>0, <1>1, MySale DEF Goes
<1>3. deliveries[d].cur = "draft"
  BY <1>1, <1>2, OwnRows DEF OwnRow
<1>4. LinesOwned(d)'
  BY <1>1, <1>3 DEF SerialInv, LinesOwned, LinesOf
<1>5. WorksOn(q)'
  BY <1>1, <1>2 DEF WorksOn, ApprovalOK, CancellationOK, ReadingOK
<1>6. \A e \in Deliveries : e # d => deliveries'[e] = deliveries[e]
  BY <1>1, Tables
<1> QED
  BY <1>1, <1>4, <1>5, <1>6, GoesSerial

LEMMA NextLineSerial ==
  ASSUME Inv, Inv', LockInv, LockInv', ShipInv, SerialInv, NEW q \in Requests,
         \A r \in Open : SaleOf(r) = SaleOf(q) => r = q,
         NextLine(q)
  PROVE  SerialInv'
<1>0. PICK d : d = Target[q]
  OBVIOUS
<1>1. /\ Op[q] = "confirm" /\ tx[q].pc = "nextLine" /\ d \in Deliveries
      /\ Goes(q, tx'[q].pc, tx'[q].at, tx'[q].todo)
      /\ \/ /\ tx'[q].pc = "nextReservation"
            /\ \E i \in tx[q].items : tx'[q].todo = ActiveReservations(q, i)
         \/ tx'[q].pc = "commit"
      /\ UNCHANGED tables
  BY <1>0, NextLineGoes
<1>2. deliveries[d].lock = q /\ DeliveryHeld(d) /\ SaleOf(q) = DelivSale[d] /\ q # Nobody
  BY <1>0, <1>1, MySale, Workload DEF LockInv, KnowsInv, HeldInv, Knows, Shipping
<1>3. \A i \in LinesOf(d) : ItemSale[i] = DelivSale[d]
  BY <1>1, <1>2 DEF SerialInv, LinesOwned, DeliveryHeld
<1>4. tx[q].items \subseteq LinesOf(d)
  BY <1>0, <1>1 DEF ShipInv, ShipOK, Shipping
<1>5. tx'[q].pc = "nextReservation" => \A p \in tx'[q].todo : SaleOfPick(p) = SaleOf(q)
  BY <1>1, <1>2, <1>3, <1>4 DEF ActiveReservations, SaleOfPick
<1>6. ReadingOK(q)'
  BY <1>1, <1>5 DEF ReadingOK, SaleOf, SaleOfPick
<1>7. WorksOn(q)'
  BY <1>1, <1>6 DEF WorksOn, ApprovalOK, CancellationOK
<1> QED
  BY <1>1, <1>7, QuietSerial

LEMMA NextReservationSerial ==
  ASSUME Inv, Inv', LockInv, LockInv', SerialInv, NEW q \in Requests,
         \A r \in Open : SaleOf(r) = SaleOf(q) => r = q,
         NextReservation(q), ~Rollback(q, "ended")
  PROVE  SerialInv'
<1>1. /\ Op[q] = "confirm" /\ tx[q].pc = "nextReservation"
      /\ Goes(q, tx'[q].pc, tx'[q].at, tx'[q].todo)
      /\ \/ tx'[q].pc = "nextLine"
         \/ /\ tx'[q].pc = "nextReservation"
            /\ \E p \in tx[q].todo : tx'[q].todo = tx[q].todo \ {p}
         \/ /\ tx'[q].pc = "consume"
            /\ tx'[q].at \in tx[q].todo /\ tx'[q].todo = tx[q].todo \ {tx'[q].at}
            /\ tx'[q].qty \in Nat \ {0}
            /\ ~Seen(q, reservations[tx'[q].at]).released
            /\ tx'[q].read = Seen(q, reservations[tx'[q].at]).consumed
      /\ UNCHANGED tables
  BY NextReservationGoes
<1>2. ReadingOK(q) /\ tx[q].todo \in SUBSET Picks
  BY HandlerFacts DEF SerialInv, WorksOn, TxState
<1>3. \A p \in tx[q].todo : /\ SaleOfPick(p) = SaleOf(q)
                            /\ Seen(q, reservations[p]) = reservations[p].cur
  BY <1>1, <1>2, OwnRows DEF ReadingOK, OwnRow
<1>4. ReadingOK(q)'
  BY <1>1, <1>3 DEF ReadingOK, tables, SaleOf, SaleOfPick
<1>5. WorksOn(q)'
  BY <1>1, <1>4 DEF WorksOn, ApprovalOK, CancellationOK
<1> QED
  BY <1>1, <1>5, QuietSerial

\* What was consumed of the reservation that is at hand is what was read of it.
LEMMA ConsumesFreshly ==
  ASSUME Inv, LockInv, SerialInv, NEW q \in Requests, ConsumeReservation(q)
  PROVE  LET p == tx[q].at IN
         /\ p \in Picks /\ SaleOfPick(p) = SaleOf(q)
         /\ tx[q].read = reservations[p].cur.consumed /\ tx[q].qty \in Nat \ {0}
         /\ reservations[p].com.made /\ reservations[p].cur.made
         /\ ~reservations[p].com.released /\ ~reservations[p].cur.released
         /\ reservations[p].com.consumed <= reservations[p].cur.consumed
         /\ reservations[p].com \in ReservationRow /\ reservations[p].cur \in ReservationRow
<1>0. PICK p : p = tx[q].at
  OBVIOUS
<1>1. /\ Op[q] = "confirm" /\ tx[q].pc = "consume" /\ p \in Picks
      /\ Lockable(q, reservations[p])
  BY <1>0, ConsumeReservationGoes
<1>2. /\ ReadingOK(q) /\ ReservationOwned(p) /\ ReservationHeld(p) /\ Knows(q)
      /\ tx[q].qty \in Nat
      /\ reservations[p].com \in ReservationRow /\ reservations[p].cur \in ReservationRow
  BY <1>1, HandlerFacts, Tables DEF SerialInv, WorksOn, LockInv, HeldInv, KnowsInv, TxState, Versioned
<1>3. /\ SaleOfPick(p) = SaleOf(q) /\ ~reservations[p].cur.released
      /\ tx[q].read = reservations[p].cur.consumed /\ tx[q].qty # 0
      /\ reservations[p].com.made
  BY <1>0, <1>1, <1>2 DEF ReadingOK, Knows
<1>4. CASE reservations[p].lock = Nobody
  <2>1. reservations[p].com = reservations[p].cur
    BY <1>2, <1>4 DEF ReservationHeld
  <2> QED
    BY <1>0, <1>1, <1>2, <1>3, <2>1 DEF ReservationRow
<1>5. CASE reservations[p].lock = q /\ q # Nobody
  <2>1. /\ ~reservations[p].com.released /\ reservations[p].cur.made
        /\ reservations[p].com.consumed < reservations[p].cur.consumed
    BY <1>1, <1>2, <1>5 DEF ReservationOwned, ReservationHeld
  <2> QED
    BY <1>0, <1>1, <1>2, <1>3, <2>1 DEF ReservationRow
<1> QED
  BY <1>1, <1>4, <1>5, Workload DEF Lockable

LEMMA ConsumeReservationSerial ==
  ASSUME Inv, Inv', LockInv, LockInv', SerialInv, NEW q \in Requests,
         \A r \in Open : SaleOf(r) = SaleOf(q) => r = q,
         ConsumeReservation(q), ~Rollback(q, "ended")
  PROVE  SerialInv'
<1>0. PICK p : p = tx[q].at
  OBVIOUS
<1>1. /\ Op[q] = "confirm" /\ tx[q].pc = "consume" /\ p \in Picks
      /\ Goes(q, "nextReservation", p, tx[q].todo)
      /\ reservations' =
           [reservations EXCEPT ![p] = Put(q, reservations[p], [reservations[p].cur EXCEPT
              !.consumed = NewConsumed(q), !.fully = @ \/ NewConsumed(q) >= PickQty[p]])]
      /\ UNCHANGED <<picks, sales, deliveries>>
  BY <1>0, ConsumeReservationGoes
<1>2. /\ SaleOfPick(p) = SaleOf(q)
      /\ tx[q].read = reservations[p].cur.consumed /\ tx[q].qty \in Nat \ {0}
      /\ ~reservations[p].com.released
      /\ reservations[p].com.consumed <= reservations[p].cur.consumed
      /\ reservations[p].com \in ReservationRow /\ reservations[p].cur \in ReservationRow
  BY <1>0, ConsumesFreshly
<1>3. tx'[q].pc = "nextReservation" /\ tx'[q].todo = tx[q].todo
  BY <1>1 DEF Goes
<1>4. /\ reservations'[p].lock = q /\ reservations'[p].com = reservations[p].com
      /\ reservations'[p].cur.consumed = NewConsumed(q)
      /\ \A r \in Picks : r # p => reservations'[r] = reservations[r]
  BY <1>1, <1>2, Tables DEF Put, ReservationRow
<1>5. reservations'[p].com.consumed < reservations'[p].cur.consumed
  BY <1>2, <1>4 DEF NewConsumed, ReservationRow
<1>6. ReservationOwned(p)'
  BY <1>1, <1>2, <1>4, <1>5 DEF ReservationOwned, SaleOf, SaleOfPick
<1>7. ReadingOK(q)
  BY DEF SerialInv, WorksOn
<1>8. ReadingOK(q)'
  BY <1>1, <1>3, <1>7 DEF ReadingOK, SaleOf, SaleOfPick
<1>9. WorksOn(q)'
  BY <1>1, <1>3, <1>8 DEF WorksOn, ApprovalOK, CancellationOK
<1> QED
  BY <1>1, <1>2, <1>4, <1>6, <1>9, GoesSerial

LEMMA DeliverSerial ==
  ASSUME Inv, Inv', LockInv, LockInv', ShipInv, SerialInv, NEW q \in Requests,
         \A r \in Open : SaleOf(r) = SaleOf(q) => r = q,
         DeliverStep(q), ~Rollback(q, "ended")
  PROVE  SerialInv'
<1>1. CASE ConfirmDelivery(q)
  <2>1. /\ Op[q] = "confirm"
        /\ Goes(q, "casConfirmed", tx[q].at, tx[q].todo)
        /\ UNCHANGED tables
    BY <1>1, ConfirmDeliveryGoes
  <2>2. tx'[q].pc = "casConfirmed"
    BY <2>1 DEF Goes
  <2>3. WorksOn(q)'
    BY <2>1, <2>2 DEF WorksOn, ApprovalOK, CancellationOK, ReadingOK
  <2> QED
    BY <2>1, <2>3, QuietSerial
<1> QED
  BY <1>1, CreateDeliverySerial, TransitionToConfirmedSerial, NextLineSerial,
     NextReservationSerial, ConsumeReservationSerial DEF DeliverStep

\* The end of the transaction of q.
LEMMA EndsSerial ==
  ASSUME Inv, LockInv, SerialInv, NEW q \in Requests,
         \A r \in Requests \ {q} : tx'[r] = tx[r], tx'[q].pc \notin Working,
         NEW vs, NEW vd, NEW vp, NEW vr,
         \A s \in Sales : EndsAs(q, sales[s], sales'[s], vs[s]),
         \A d \in Deliveries : EndsAs(q, deliveries[d], deliveries'[d], vd[d]),
         \A p \in Picks : EndsAs(q, picks[p], picks'[p], vp[p]),
         \A p \in Picks : EndsAs(q, reservations[p], reservations'[p], vr[p]),
         \A d \in Deliveries : LinesOwned(d)',
         \A p \in Picks : PickSettled(p)', \A d \in Deliveries : DeliverySettled(d)'
  PROVE  SerialInv'
<1>1. Open' \subseteq Open /\ q \notin Open'
  BY DEF Open
<1>2. Alone'
  BY <1>1 DEF Alone, SerialInv, SaleOf
<1>3. ASSUME NEW p \in Picks PROVE PickOwned(p)' /\ ReservationOwned(p)'
  <2>1. \/ picks'[p] = picks[p]
        \/ picks'[p].lock = Nobody
    BY DEF EndsAs
  <2>2. \/ reservations'[p] = reservations[p]
        \/ reservations'[p].lock = Nobody
    BY DEF EndsAs
  <2>3. PickOwned(p) /\ ReservationOwned(p)
    BY DEF SerialInv
  <2>4. PickOwned(p)'
    BY <2>1, <2>3 DEF PickOwned, SaleOf, SaleOfPick
  <2>5. ReservationOwned(p)'
    BY <2>2, <2>3 DEF ReservationOwned, SaleOf, SaleOfPick
  <2> QED
    BY <2>4, <2>5
<1>4. ASSUME NEW r \in Requests PROVE WorksOn(r)'
  <2>1. CASE r = q
    BY <2>1, Idle
  <2>2. CASE r # q /\ tx[r].pc \notin Working
    BY <2>2, Idle
  <2>3. CASE r # q /\ tx[r].pc \in Working
    <3>1. SaleOf(r) \in Sales
      BY MySale
    <3>2. \A t \in Open : SaleOf(t) = SaleOf(r) => t = r
      BY <2>3 DEF Open, SerialInv, Alone
    <3>3. q # Nobody /\ q # r
      BY <2>3, Workload
    <3>4. sales'[SaleOf(r)] = sales[SaleOf(r)]
      BY <3>1, <3>2, <3>3, OwnRows DEF OwnRow, EndsAs
    <3>5. \A d \in Deliveries : DelivSale[d] = SaleOf(r) => deliveries'[d] = deliveries[d]
      BY <3>2, <3>3, OwnRows DEF OwnRow, EndsAs
    <3>6. \A p \in Picks : SaleOfPick(p) = SaleOf(r) =>
            picks'[p] = picks[p] /\ reservations'[p] = reservations[p]
      BY <3>2, <3>3, OwnRows DEF OwnRow, EndsAs
    <3>7. Untouched(SaleOf(r))
      BY <3>4, <3>5, <3>6 DEF Untouched
    <3> QED
      BY <2>3, <3>7, OthersWork
  <2> QED
    BY <2>1, <2>2, <2>3
<1> QED
  BY <1>2, <1>3, <1>4 DEF SerialInv

LEMMA RollbackSerial ==
  ASSUME Inv, LockInv, SerialInv, NEW q \in Requests, NEW how \in Ended, Rollback(q, how)
  PROVE  SerialInv'
<1> DEFINE vs == [s \in Sales |-> sales[s].com]
           vd == [d \in Deliveries |-> deliveries[d].com]
           vp == [p \in Picks |-> picks[p].com]
           vr == [p \in Picks |-> reservations[p].com]
<1>1. /\ \A r \in Requests \ {q} : tx'[r] = tx[r]
      /\ tx'[q].pc \notin Working
  BY FinishedHandler DEF Rollback
<1>2. /\ \A s \in Sales : EndsAs(q, sales[s], sales'[s], vs[s])
      /\ \A d \in Deliveries : EndsAs(q, deliveries[d], deliveries'[d], vd[d])
      /\ \A p \in Picks : EndsAs(q, picks[p], picks'[p], vp[p])
      /\ \A p \in Picks : EndsAs(q, reservations[p], reservations'[p], vr[p])
  BY RollbackEnds
<1>3. /\ \A s \in Sales : sales'[s].com = sales[s].com
      /\ \A d \in Deliveries : deliveries'[d].com = deliveries[d].com
      /\ \A p \in Picks : picks'[p].com = picks[p].com /\ reservations'[p].com = reservations[p].com
  BY <1>2 DEF EndsAs
<1>4. /\ \A p \in Picks : PickSettled(p)'
      /\ \A d \in Deliveries : DeliverySettled(d)'
  BY <1>3, Documents DEF SerialInv, PickSettled, DeliverySettled, SaleOfPick
<1>5. ASSUME NEW d \in Deliveries PROVE LinesOwned(d)'
  <2>1. LinesOwned(d) /\ DeliveryHeld(d)
    BY DEF SerialInv, LockInv, HeldInv
  <2>2. deliveries'[d].cur # "none" => deliveries[d].cur # "none"
    BY <1>2, <2>1, Workload DEF EndsAs, DeliveryHeld
  <2> QED
    BY <2>1, <2>2 DEF LinesOwned, LinesOf
<1> HIDE DEF vs, vd, vp, vr
<1> QED
  BY <1>1, <1>2, <1>4, <1>5, EndsSerial

LEMMA CommitSerial ==
  ASSUME Inv, LockInv, SerialInv, NEW q \in Requests, Commit(q)
  PROVE  SerialInv'
<1> DEFINE vs == [s \in Sales |-> sales[s].cur]
           vd == [d \in Deliveries |-> deliveries[d].cur]
           vp == [p \in Picks |-> picks[p].cur]
           vr == [p \in Picks |-> reservations[p].cur]
<1>1. /\ \A r \in Requests \ {q} : tx'[r] = tx[r]
      /\ tx'[q].pc \notin Working
      /\ tx[q].pc = "commit" /\ q \in Open /\ q # Nobody
  BY FinishedHandler, Workload DEF Commit, At, Open, Working, Ended
<1>2. /\ \A s \in Sales : EndsAs(q, sales[s], sales'[s], vs[s])
      /\ \A d \in Deliveries : EndsAs(q, deliveries[d], deliveries'[d], vd[d])
      /\ \A p \in Picks : EndsAs(q, picks[p], picks'[p], vp[p])
      /\ \A p \in Picks : EndsAs(q, reservations[p], reservations'[p], vr[p])
  BY CommitEnds
<1>3. /\ \A s \in Sales : sales[s].lock = q => sales'[s].com = sales[s].cur /\ s = SaleOf(q)
      /\ \A s \in Sales : sales[s].lock # q => sales'[s] = sales[s]
      /\ \A d \in Deliveries : deliveries[d].lock = q =>
           deliveries'[d].com = deliveries[d].cur /\ deliveries'[d].cur = deliveries[d].cur
             /\ DelivSale[d] = SaleOf(q)
      /\ \A d \in Deliveries : deliveries[d].lock # q => deliveries'[d] = deliveries[d]
  BY <1>1, <1>2, Holders DEF EndsAs
<1>4. \A p \in Picks :
        /\ picks[p].lock = q => picks'[p].com = picks[p].cur /\ SaleOfPick(p) = SaleOf(q)
        /\ picks[p].lock # q => picks'[p] = picks[p]
        /\ reservations[p].lock = q =>
             reservations'[p].com = reservations[p].cur /\ SaleOfPick(p) = SaleOf(q)
        /\ reservations[p].lock # q => reservations'[p] = reservations[p]
  BY <1>1, <1>2 DEF EndsAs, SerialInv, PickOwned, ReservationOwned
<1>5. \A d \in Deliveries : LinesOwned(d)'
  BY <1>3 DEF SerialInv, LinesOwned, LinesOf
<1>6. ApprovalOK(q) /\ CancellationOK(q) /\ ReadingOK(q) /\ Knows(q)
  BY DEF SerialInv, WorksOn, LockInv, KnowsInv
<1> HIDE DEF vs, vd, vp, vr
<1>7. ASSUME NEW p \in Picks PROVE PickSettled(p)'
  <2> SUFFICES ASSUME IsOpen(reservations'[p].com)
               PROVE  /\ picks'[p].com.live /\ picks'[p].com.linked
                      /\ sales'[SaleOfPick(p)].com = "approved"
    BY DEF PickSettled, SaleOfPick
  <2>1. /\ PickSettled(p) /\ PickHeld(p) /\ ReservationHeld(p) /\ SaleOfPick(p) \in Sales
        /\ SaleHeld(SaleOfPick(p))
    BY Documents DEF SerialInv, LockInv, HeldInv
  <2>2. CASE SaleOfPick(p) # SaleOf(q)
    <3>1. IsOpen(reservations[p].com) /\ picks'[p] = picks[p]
          /\ sales'[SaleOfPick(p)] = sales[SaleOfPick(p)]
      BY <1>3, <1>4, <2>1, <2>2
    <3> QED
      BY <2>1, <3>1 DEF PickSettled
  <2>3. CASE SaleOfPick(p) = SaleOf(q) /\ Op[q] = "approve"
    <3>1. sales[SaleOf(q)].lock = q /\ SaleOf(q) = Target[q]
      BY <1>1, <1>6, <2>3, MySale DEF Knows, Reserving
    <3>2. sales[SaleOf(q)].com = "draft" /\ sales[SaleOf(q)].cur = "approved"
      BY <1>1, <2>1, <2>3, <3>1 DEF SaleHeld
    <3>3. ~reservations[p].com.made
      BY <2>3, <3>2 DEF LockInv, DraftUnreserved
    <3>4. reservations[p].lock = q
      BY <1>4, <3>3 DEF IsOpen
    <3>5. picks[p].lock = q /\ picks[p].cur.live /\ picks[p].cur.linked
      BY <1>1, <1>6, <2>3, <3>4 DEF ApprovalOK, Reserving
    <3> QED
      BY <1>3, <1>4, <2>1, <2>3, <3>1, <3>2, <3>5
  <2>4. CASE SaleOfPick(p) = SaleOf(q) /\ Op[q] = "cancel"
    <3>1. IsOpen(reservations[p].com) => reservations[p].lock = q
      BY <1>1, <1>6, <2>4 DEF CancellationOK, Working
    <3>2. reservations[p].lock = q /\ ~reservations[p].cur.released
      BY <1>4, <3>1 DEF IsOpen
    <3> QED
      BY <1>1, <2>1, <2>4, <3>2 DEF ReservationHeld
  <2>5. CASE SaleOfPick(p) = SaleOf(q) /\ Op[q] \notin {"approve", "cancel"}
    <3>1. /\ IsOpen(reservations[p].com)
          /\ reservations[p].com.made
      BY <1>1, <1>4, <2>1, <2>5 DEF ReservationHeld, IsOpen
    <3>2. /\ picks[p].com.live /\ picks[p].com.linked
          /\ sales[SaleOfPick(p)].com = "approved"
      BY <2>1, <3>1 DEF PickSettled
    <3>3. sales'[SaleOfPick(p)] = sales[SaleOfPick(p)]
      BY <1>1, <1>3, <2>1, <2>5 DEF SaleHeld
    <3>4. picks[p].lock # q
      BY <1>1, <1>6, <2>1, <2>5, <3>2 DEF PickHeld, ReadingOK, Working
    <3> QED
      BY <1>4, <3>2, <3>3, <3>4
  <2> QED
    BY <2>2, <2>3, <2>4, <2>5
<1>8. ASSUME NEW d \in Deliveries PROVE DeliverySettled(d)'
  <2> SUFFICES ASSUME deliveries'[d].com # "none"
               PROVE  sales'[DelivSale[d]].com = "approved"
    BY DEF DeliverySettled
  <2>1. /\ DeliverySettled(d) /\ DeliveryHeld(d) /\ DelivSale[d] \in Sales
        /\ SaleHeld(DelivSale[d])
    BY Documents DEF SerialInv, LockInv, HeldInv
  <2>2. CASE Op[q] \in {"create", "confirm"}
    <3>1. sales'[DelivSale[d]] = sales[DelivSale[d]]
      BY <1>1, <1>3, <2>1, <2>2 DEF SaleHeld
    <3>2. sales[DelivSale[d]].com = "approved"
      BY <1>1, <1>3, <1>6, <2>1, <2>2 DEF DeliveryHeld, DeliverySettled, ReadingOK, Working
    <3> QED
      BY <3>1, <3>2
  <2>3. CASE Op[q] \notin {"create", "confirm"}
    <3>1. deliveries[d].com # "none"
      BY <1>1, <1>3, <2>1, <2>3 DEF DeliveryHeld
    <3>2. sales[DelivSale[d]].com = "approved"
      BY <2>1, <3>1 DEF DeliverySettled
    <3>3. sales[DelivSale[d]].lock = q => Op[q] = "cancel" /\ DelivSale[d] = SaleOf(q)
      BY <1>1, <1>3, <2>1, <3>2 DEF SaleHeld
    <3>4. sales[DelivSale[d]].lock # q
      BY <1>1, <1>6, <3>1, <3>3 DEF CancellationOK, Working
    <3> QED
      BY <1>3, <2>1, <3>2, <3>4
  <2> QED
    BY <2>2, <2>3
<1> QED
  BY <1>1, <1>2, <1>5, <1>7, <1>8, EndsSerial

LEMMA InitSerial == Init => SerialInv
<1> SUFFICES ASSUME Init PROVE SerialInv
  OBVIOUS
<1>1. /\ \A d \in Deliveries : deliveries[d] = Fresh("none")
      /\ \A p \in Picks : picks[p].lock = Nobody
      /\ \A p \in Picks : reservations[p] = Fresh(ReservationMade(FALSE))
      /\ \A q \in Requests : tx[q] = TxAt("new")
  BY DEF Init, Fresh
<1>2. \A p \in Picks : PickOwned(p) /\ ReservationOwned(p)
  BY <1>1 DEF PickOwned, ReservationOwned, Fresh
<1>3. \A p \in Picks : PickSettled(p)
  BY <1>1 DEF PickSettled, Fresh, IsOpen, ReservationMade
<1>4. \A d \in Deliveries : LinesOwned(d) /\ DeliverySettled(d)
  BY <1>1 DEF LinesOwned, DeliverySettled, Fresh
<1>5. \A q \in Requests : tx[q].pc = "new"
  BY <1>1 DEF TxAt
<1>6. Alone /\ \A q \in Requests : WorksOn(q)
  BY <1>5 DEF Alone, Open, Working, WorksOn, ApprovalOK, CancellationOK, ReadingOK, Reserving
<1> QED
  BY <1>2, <1>3, <1>4, <1>6 DEF SerialInv

LEMMA NextSerial ==
  OneWriterPerSale /\ Inv /\ Inv' /\ LockInv /\ LockInv' /\ ShipInv /\ SerialInv /\ [Next]_vars
    => SerialInv'
<1> SUFFICES ASSUME OneWriterPerSale, Inv, Inv', LockInv, LockInv', ShipInv, SerialInv, [Next]_vars
             PROVE  SerialInv'
  OBVIOUS
<1>1. CASE UNCHANGED vars
  <2>1. \A p \in Picks : PickOwned(p)' /\ ReservationOwned(p)' /\ PickSettled(p)'
    BY <1>1 DEF vars, SerialInv, PickOwned, ReservationOwned, PickSettled, SaleOf, SaleOfPick
  <2>2. \A d \in Deliveries : LinesOwned(d)' /\ DeliverySettled(d)'
    BY <1>1 DEF vars, SerialInv, LinesOwned, DeliverySettled
  <2>3. Alone'
    BY <1>1 DEF vars, SerialInv, Alone, Open, SaleOf
  <2>4. ASSUME NEW q \in Requests PROVE WorksOn(q)'
    BY <1>1, OthersWork DEF vars, Untouched
  <2> QED
    BY <2>1, <2>2, <2>3, <2>4 DEF SerialInv
<1>2. CASE Done
  BY <1>1, <1>2 DEF Done
<1>3. ASSUME NEW q \in Requests, Rollback(q, "ended")
      PROVE  SerialInv'
  BY <1>3, RollbackSerial DEF Ended
<1>4. ASSUME NEW q \in Requests, ~Rollback(q, "ended"), Step(q)
      PROVE  SerialInv'
  <2>1. \A r \in Open : SaleOf(r) = SaleOf(q) => r = q
    BY <1>4, BeginsAlone DEF SerialInv
  <2>2. CASE ApproveStep(q)
    BY <1>4, <2>1, <2>2, ApproveSerial, TransitionToApprovedSerial, ReserveFromLotSerial,
       LinkReservationSerial DEF ApproveStep
  <2>3. CASE CancelStep(q)
    BY <1>4, <2>1, <2>3, CancelSerial, FindReservationSerial, ReleaseReservationSerial,
       TransitionToCancelledSerial DEF CancelStep
  <2> QED
    BY <1>4, <2>1, <2>2, <2>3, PickSerial, DeliverSerial, CommitSerial DEF Step
<1>5. ASSUME NEW q \in Requests, Crash(q) \/ DeadlockVictim(q)
      PROVE  SerialInv'
  BY <1>3, <1>5 DEF Crash, DeadlockVictim
<1> QED
  BY <1>1, <1>2, <1>3, <1>4, <1>5 DEF Next

\* When nobody else works on a sale, what its handlers have read without a lock
\* holds until they end, and what they commit is settled.
THEOREM Serial ==
  ASSUME OneWriterPerSale
  PROVE  Spec => [](Inv /\ LockInv /\ ShipInv /\ SerialInv)
<1>1. Init => Inv /\ LockInv /\ ShipInv /\ SerialInv
  BY InitInv, InitLock, InitShip, InitSerial
<1>2. Inv /\ LockInv /\ ShipInv /\ SerialInv /\ [Next]_vars
        => (Inv /\ LockInv /\ ShipInv /\ SerialInv)'
  BY NextInv, NextLock, NextShip, NextSerial
<1> QED
  BY <1>1, <1>2, PTL DEF Spec

\* cancel leaves no stock reserved for the sale and no delivery behind that
\* could ship any, whatever was approved, picked and delivered before.
THEOREM CancelledSalesHoldNothing ==
  ASSUME OneWriterPerSale
  PROVE  Spec => []CancelledHoldsNothing
<1>1. SerialInv => CancelledHoldsNothing
  BY DEF SerialInv, CancelledHoldsNothing, PickSettled, DeliverySettled, IsOpen, Reservation,
         SaleOfPick
<1> QED
  BY <1>1, Serial, PTL

\* A reservation stays reachable: addLot, removeLot and the failures of an
\* approval or a cancellation never leave one that nobody can deliver or release.
THEOREM ReservationsNeverLeak ==
  ASSUME OneWriterPerSale
  PROVE  Spec => []NoLeakedReservation
<1>1. SerialInv => NoLeakedReservation
  BY DEF SerialInv, NoLeakedReservation, PickSettled, IsOpen, Reservation, SaleOfPick
<1> QED
  BY <1>1, Serial, PTL

-----------------------------------------------------------------------------
(* The books of reservations and lots.                                     *)

LEMMA HeldType ==
  ASSUME Inv, NEW p \in Picks
  PROVE  /\ ComHeld[p] \in Nat /\ CurHeld[p] \in Nat
         /\ reservations[p].com \in ReservationRow /\ reservations[p].cur \in ReservationRow
         /\ reservations[p].cur.consumed <= PickQty[p]
<1>1. /\ reservations[p].com \in ReservationRow /\ reservations[p].cur \in ReservationRow
      /\ PickQty[p] \in Nat
  BY Tables, Documents DEF Versioned
<1>2. /\ reservations[p].com.consumed <= PickQty[p]
      /\ reservations[p].cur.consumed <= PickQty[p]
  BY DEF Inv, CountersInv, ReservationCheck
<1> QED
  BY <1>1, <1>2 DEF ComHeld, CurHeld, Holds, ReservationRow

\* No lot, reservation or movement changes.
LEMMA QuietBooks ==
  ASSUME BooksInv, UNCHANGED <<lots, reservations, movements>>
  PROVE  BooksInv'
<1>1. ComHeld' = ComHeld /\ CurHeld' = CurHeld
  BY DEF ComHeld, CurHeld, Holds
<1>2. ComShipped' = ComShipped /\ CurShipped' = CurShipped
  BY DEF ComShipped, CurShipped
<1>3. \A p \in Picks : ConsumedOK(p)'
  BY <1>2 DEF BooksInv, ConsumedOK
<1>4. \A d \in Deliveries, p \in Picks : ShipperOK(d, p)'
  BY DEF BooksInv, ShipperOK
<1>5. \A l \in Lots : ReservedOK(l)'
  BY <1>1 DEF BooksInv, ReservedOK, PicksAt
<1> QED
  BY <1>3, <1>4, <1>5 DEF BooksInv

\* q writes a reservation, of which then n more is held, and the lot.
LEMMA WritesReserved ==
  ASSUME Inv, Inv', BooksInv, NEW q \in Requests, NEW p \in Picks, NEW n \in Int,
         NEW new, NEW row,
         lots' = [lots EXCEPT ![PickLot[p]] = Put(q, @, new)],
         reservations' = [reservations EXCEPT ![p] = Put(q, @, row)],
         new.reserved = lots[PickLot[p]].cur.reserved + n,
         Holds(p, row) = Holds(p, reservations[p].cur) + n
  PROVE  \A l \in Lots : ReservedOK(l)'
<1>0. PickLot[p] \in Lots
  BY Documents
<1>1. /\ reservations'[p].com = reservations[p].com /\ reservations'[p].cur = row
      /\ \A r \in Picks \ {p} : reservations'[r] = reservations[r]
      /\ lots'[PickLot[p]].com = lots[PickLot[p]].com /\ lots'[PickLot[p]].cur = new
      /\ \A m \in Lots \ {PickLot[p]} : lots'[m] = lots[m]
  BY <1>0, Tables DEF Put
<1>2. ComHeld' = ComHeld
  <2>1. \A r \in Picks : reservations'[r].com = reservations[r].com
    BY <1>1
  <2> QED
    BY <2>1 DEF ComHeld, Holds
<1>3. /\ CurHeld'[p] = CurHeld[p] + n
      /\ \A r \in Picks \ {p} : CurHeld'[r] = CurHeld[r]
  BY <1>1 DEF CurHeld, Holds
<1>4. \A r \in Picks : CurHeld[r] \in Nat
  BY HeldType
<1>5. \A r \in Picks : CurHeld'[r] \in Nat
  <2> TAKE r \in Picks
  <2>1. /\ reservations'[r].cur \in ReservationRow /\ PickQty[r] \in Nat
    BY Documents DEF Inv, RowsOK, Versioned
  <2>2. reservations'[r].cur.consumed <= PickQty[r]
    BY DEF Inv, CountersInv, ReservationCheck
  <2> QED
    BY <2>1, <2>2 DEF CurHeld, Holds, ReservationRow
<1>6. ASSUME NEW m \in Lots
      PROVE  lots'[m].cur.reserved = Total(CurHeld', PicksAt(m))
  <2> DEFINE S == PicksAt(m)
             w == CurHeld
             v == CurHeld'
  <2>1. IsFiniteSet(S) /\ S \subseteq Picks
    BY FiniteParts
  <2>2. p \in S <=> m = PickLot[p]
    BY DEF PicksAt
  <2>3. lots[m].cur.reserved = Total(w, S)
    BY DEF BooksInv, ReservedOK
  <2>4. /\ \A x \in S : w[x] \in Nat /\ v[x] \in Nat
        /\ v[p] = w[p] + n /\ \A x \in S \ {p} : v[x] = w[x]
    BY <1>3, <1>4, <1>5, <2>1
  <2> HIDE DEF S, w, v
  <2>5. CASE m = PickLot[p]
    <3>1. Total(v, S) = Total(w, S) + n
      BY <2>1, <2>2, <2>4, <2>5, TotalChanged
    <3> QED
      BY <1>1, <2>3, <2>5, <3>1 DEF v, S
  <2>6. CASE m # PickLot[p]
    <3>1. Total(v, S) = Total(w, S)
      BY <2>1, <2>2, <2>4, <2>6, TotalAgrees
    <3> QED
      BY <1>1, <2>3, <2>6, <3>1 DEF v, S
  <2> QED
    BY <2>5, <2>6
<1>7. \A m \in Lots : lots'[m].com.reserved = Total(ComHeld', PicksAt(m))
  BY <1>0, <1>1, <1>2 DEF BooksInv, ReservedOK
<1> QED
  BY <1>6, <1>7 DEF ReservedOK, PicksAt

\* q writes a reservation of its sale.
LEMMA WritesOwned ==
  ASSUME Inv, BooksInv, NEW q \in Requests, NEW p \in Picks, NEW row,
         Lockable(q, reservations[p]),
         reservations' = [reservations EXCEPT ![p] = Put(q, @, row)],
         \A d \in Deliveries, r \in Picks :
           \/ movements'[<<d, r>>] = movements[<<d, r>>]
           \/ r = p /\ movements'[<<d, r>>].lock = q
  PROVE  \A d \in Deliveries, r \in Picks : ShipperOK(d, r)'
<1>1. /\ reservations'[p].lock = q
      /\ \A r \in Picks \ {p} : reservations'[r] = reservations[r]
  BY Tables DEF Put
<1> TAKE d \in Deliveries, r \in Picks
<1>2. ShipperOK(d, r)
  BY DEF BooksInv
<1>3. CASE r # p
  BY <1>1, <1>2, <1>3 DEF ShipperOK
<1>4. CASE r = p
  BY <1>1, <1>2, <1>4 DEF ShipperOK, Lockable
<1> QED
  BY <1>3, <1>4

LEMMA ReserveFromLotBooks ==
  ASSUME Inv, Inv', LockInv, SerialInv, BooksInv, NEW q \in Requests,
         ReserveFromLot(q), ~Rollback(q, "ended")
  PROVE  BooksInv'
<1>0. PICK p : p = tx[q].at
  OBVIOUS
<1> DEFINE new == AfterReserve(lots[PickLot[p]].cur, PickQty[p])
           row == ReservationMade(TRUE)
<1>1. /\ tx[q].pc = "reserve" /\ p \in Picks /\ PickLot[p] \in Lots
      /\ Lockable(q, reservations[p])
      /\ ~reservations[p].com.made
      /\ lots' = [lots EXCEPT ![PickLot[p]] = Put(q, @, new)]
      /\ reservations' = [reservations EXCEPT ![p] = Put(q, @, row)]
      /\ UNCHANGED movements
  BY <1>0, ReserveFromLotGoes
<1>2. p \in tx[q].todo /\ SaleOfPick(p) = SaleOf(q) /\ Op[q] = "approve"
  BY <1>0, <1>1, AtHand
<1>3. reservations[p].lock = Nobody
  <2>1. ApprovalOK(q)
    BY DEF SerialInv, WorksOn
  <2> QED
    BY <1>1, <1>2, <2>1 DEF ApprovalOK, Reserving
<1>4. reservations[p].com = ReservationMade(FALSE) /\ reservations[p].cur = ReservationMade(FALSE)
  <2>1. ReservationHeld(p)
    BY <1>1 DEF LockInv, HeldInv
  <2> QED
    BY <1>1, <1>3, <2>1 DEF ReservationHeld
<1>5. /\ PickQty[p] \in Int
      /\ new.reserved = lots[PickLot[p]].cur.reserved + PickQty[p]
      /\ Holds(p, row) = Holds(p, reservations[p].cur) + PickQty[p]
      /\ row.consumed = 0 /\ reservations[p].cur.consumed = 0
  BY <1>1, <1>4, Tables, Documents DEF AfterReserve, Holds, IsOpen, ReservationMade, Versioned, LotRow
<1> HIDE DEF new, row
<1>6. \A l \in Lots : ReservedOK(l)'
  BY <1>1, <1>5, WritesReserved
<1>7. \A d \in Deliveries, r \in Picks : ShipperOK(d, r)'
  BY <1>1, WritesOwned
<1>8. \A r \in Picks : ConsumedOK(r)'
  <2>1. ComShipped' = ComShipped /\ CurShipped' = CurShipped
    BY <1>1 DEF ComShipped, CurShipped
  <2>2. \A r \in Picks : /\ reservations'[r].com = reservations[r].com
                         /\ reservations'[r].cur.consumed = reservations[r].cur.consumed
    BY <1>1, <1>5, Tables DEF Put
  <2> QED
    BY <2>1, <2>2 DEF BooksInv, ConsumedOK
<1> QED
  BY <1>6, <1>7, <1>8 DEF BooksInv

LEMMA ReleaseReservationBooks ==
  ASSUME Inv, Inv', LockInv, SerialInv, BooksInv, NEW q \in Requests,
         ReleaseReservation(q), ~Rollback(q, "ended")
  PROVE  BooksInv'
<1>0. PICK p : p = tx[q].at
  OBVIOUS
<1> DEFINE remaining == PickQty[p] - tx[q].read
           new == AfterRelease(lots[PickLot[p]].cur, remaining)
           row == [reservations[p].cur EXCEPT !.released = TRUE]
<1>1. /\ tx[q].pc = "release" /\ p \in Picks /\ PickLot[p] \in Lots
      /\ Lockable(q, reservations[p])
      /\ lots' = [lots EXCEPT ![PickLot[p]] = Put(q, @, new)]
      /\ reservations' = [reservations EXCEPT ![p] = Put(q, @, row)]
      /\ UNCHANGED movements
  BY <1>0, ReleaseReservationGoes
<1>2. ~reservations[p].cur.released /\ tx[q].read = reservations[p].cur.consumed
  BY <1>0, <1>1 DEF SerialInv, WorksOn, ReadingOK
<1>3. reservations[p].cur.made
  <2>1. Knows(q) /\ ReservationHeld(p)
    BY <1>1 DEF LockInv, HeldInv, KnowsInv
  <2>2. reservations[p].com.made
    BY <1>0, <1>1, <2>1 DEF Knows
  <2> QED
    BY <2>1, <2>2 DEF ReservationHeld
<1>4. reservations[p].cur \in ReservationRow /\ PickQty[p] \in Nat
  BY <1>1, HeldType, Documents
<1>5. /\ remaining \in Int
      /\ new.reserved = lots[PickLot[p]].cur.reserved + (-remaining)
      /\ Holds(p, row) = Holds(p, reservations[p].cur) + (-remaining)
      /\ row.consumed = reservations[p].cur.consumed
  BY <1>1, <1>2, <1>3, <1>4, Tables DEF AfterRelease, Holds, IsOpen, Versioned, LotRow, ReservationRow
<1> HIDE DEF new, row, remaining
<1>6. \A l \in Lots : ReservedOK(l)'
  <2>1. -remaining \in Int
    BY <1>5
  <2> QED
    BY <1>1, <1>5, <2>1, WritesReserved
<1>7. \A d \in Deliveries, r \in Picks : ShipperOK(d, r)'
  BY <1>1, WritesOwned
<1>8. \A r \in Picks : ConsumedOK(r)'
  <2>1. ComShipped' = ComShipped /\ CurShipped' = CurShipped
    BY <1>1 DEF ComShipped, CurShipped
  <2>2. \A r \in Picks : /\ reservations'[r].com = reservations[r].com
                         /\ reservations'[r].cur.consumed = reservations[r].cur.consumed
    BY <1>1, <1>5, Tables DEF Put
  <2> QED
    BY <2>1, <2>2 DEF BooksInv, ConsumedOK
<1> QED
  BY <1>6, <1>7, <1>8 DEF BooksInv

LEMMA ConsumeReservationBooks ==
  ASSUME Inv, Inv', LockInv, ShipInv, SerialInv, BooksInv, NEW q \in Requests,
         ConsumeReservation(q), ~Rollback(q, "ended")
  PROVE  BooksInv'
<1>0. PICK p : p = tx[q].at
  OBVIOUS
<1> DEFINE qty == tx[q].qty
           new == AfterConsume(lots[PickLot[p]].cur, qty)
           row == [reservations[p].cur EXCEPT !.consumed = NewConsumed(q),
                     !.fully = @ \/ NewConsumed(q) >= PickQty[p]]
<1>1. /\ p \in Picks /\ PickLot[p] \in Lots /\ Target[q] \in Deliveries
      /\ Lockable(q, reservations[p])
      /\ lots' = [lots EXCEPT ![PickLot[p]] = Put(q, @, new)]
      /\ reservations' = [reservations EXCEPT ![p] = Put(q, reservations[p], row)]
      /\ movements' = [movements EXCEPT ![<<Target[q], p>>] = Put(q, @, qty)]
  BY <1>0, ConsumeReservationGoes
<1>2. /\ tx[q].read = reservations[p].cur.consumed /\ qty \in Nat
      /\ reservations[p].cur.made /\ ~reservations[p].cur.released
      /\ reservations[p].cur \in ReservationRow /\ PickQty[p] \in Nat
  BY <1>0, <1>1, ConsumesFreshly, Documents
<1>3. /\ new.reserved = lots[PickLot[p]].cur.reserved + (-qty)
      /\ Holds(p, row) = Holds(p, reservations[p].cur) + (-qty)
      /\ row.consumed = reservations[p].cur.consumed + qty
  BY <1>1, <1>2, Tables DEF AfterConsume, Holds, IsOpen, Versioned, LotRow, ReservationRow, NewConsumed
<1>4. /\ ComShipped' = ComShipped
      /\ CurShipped'[p] = CurShipped[p] + qty
      /\ \A r \in Picks \ {p} : CurShipped'[r] = CurShipped[r]
  BY <1>0, <1>1, ConsumeShipped
<1> HIDE DEF new, row, qty
<1>5. \A l \in Lots : ReservedOK(l)'
  <2>1. -qty \in Int
    BY <1>2
  <2> QED
    BY <1>1, <1>3, <2>1, WritesReserved
<1>6. \A d \in Deliveries, r \in Picks : ShipperOK(d, r)'
  <2>1. \A d \in Deliveries, r \in Picks :
          \/ movements'[<<d, r>>] = movements[<<d, r>>]
          \/ r = p /\ movements'[<<d, r>>].lock = q
    BY <1>1, Tables DEF Put
  <2> QED
    BY <1>1, <2>1, WritesOwned
<1>7. \A r \in Picks : ConsumedOK(r)'
  <2>1. /\ \A r \in Picks \ {p} : reservations'[r] = reservations[r]
        /\ reservations'[p].com = reservations[p].com /\ reservations'[p].cur = row
    BY <1>1, Tables DEF Put
  <2> QED
    BY <1>1, <1>3, <1>4, <2>1 DEF BooksInv, ConsumedOK
<1> QED
  BY <1>5, <1>6, <1>7 DEF BooksInv

\* When q ends, the rows it held take the one version or the other, all of them
\* the same: a lot with its reservations, a reservation with its movements.
LEMMA EndsBooks ==
  ASSUME Inv, LockInv, BooksInv, NEW q \in Requests, NEW commit \in BOOLEAN,
         \A l \in Lots : EndsAs(q, lots[l], lots'[l],
                                IF commit THEN lots[l].cur ELSE lots[l].com),
         \A p \in Picks : EndsAs(q, reservations[p], reservations'[p],
                                 IF commit THEN reservations[p].cur ELSE reservations[p].com),
         \A d \in Deliveries, p \in Picks :
           EndsAs(q, movements[<<d, p>>], movements'[<<d, p>>],
                  IF commit THEN movements[<<d, p>>].cur ELSE movements[<<d, p>>].com)
  PROVE  BooksInv'
<1>0. q # Nobody
  BY Workload
<1>1. ASSUME NEW p \in Picks
      PROVE  ConsumedOK(p)'
  <2> DEFINE held == IF commit THEN reservations[p].cur ELSE reservations[p].com
  <2>1. /\ reservations[p].com.consumed = ComShipped[p]
        /\ reservations[p].cur.consumed = CurShipped[p]
    BY DEF BooksInv, ConsumedOK
  <2>2. ASSUME NEW d \in Deliveries
        PROVE  /\ MovementHeld(d, p)
               /\ movements[<<d, p>>].lock # Nobody =>
                    reservations[p].lock = movements[<<d, p>>].lock
    BY DEF LockInv, HeldInv, BooksInv, ShipperOK
  <2>3. CASE reservations[p].lock = q
    <3>1. ASSUME NEW d \in Deliveries
          PROVE  /\ movements'[<<d, p>>].com = IF commit THEN movements[<<d, p>>].cur
                                                         ELSE movements[<<d, p>>].com
                 /\ movements'[<<d, p>>].cur = IF commit THEN movements[<<d, p>>].cur
                                                         ELSE movements[<<d, p>>].com
      <4>1. movements[<<d, p>>].lock \in {Nobody, q}
        BY <2>2, <2>3
      <4> QED
        BY <2>2, <4>1 DEF MovementHeld, EndsAs
    <3>2. /\ ComShipped'[p] = IF commit THEN CurShipped[p] ELSE ComShipped[p]
          /\ CurShipped'[p] = IF commit THEN CurShipped[p] ELSE ComShipped[p]
      <4>1. CASE commit
        BY <3>1, <4>1 DEF ComShipped, CurShipped
      <4>2. CASE ~commit
        BY <3>1, <4>2 DEF ComShipped, CurShipped
      <4> QED
        BY <4>1, <4>2
    <3>3. reservations'[p].com = held /\ reservations'[p].cur = held
      BY <2>3 DEF EndsAs
    <3> QED
      BY <2>1, <3>2, <3>3 DEF ConsumedOK
  <2>4. CASE reservations[p].lock # q
    <3>1. \A d \in Deliveries : movements'[<<d, p>>] = movements[<<d, p>>]
      BY <1>0, <2>2, <2>4 DEF EndsAs
    <3>2. ComShipped'[p] = ComShipped[p] /\ CurShipped'[p] = CurShipped[p]
      BY <3>1 DEF ComShipped, CurShipped
    <3>3. reservations'[p] = reservations[p]
      BY <2>4 DEF EndsAs
    <3> QED
      BY <2>1, <3>2, <3>3 DEF ConsumedOK
  <2> QED
    BY <2>3, <2>4
<1>2. ASSUME NEW d \in Deliveries, NEW p \in Picks
      PROVE  ShipperOK(d, p)'
  <2>1. ShipperOK(d, p)
    BY DEF BooksInv
  <2>2. movements'[<<d, p>>].lock # Nobody => movements[<<d, p>>].lock # q
    BY DEF EndsAs
  <2> QED
    BY <2>1, <2>2 DEF ShipperOK, EndsAs
<1>3. ASSUME NEW l \in Lots
      PROVE  ReservedOK(l)'
  <2> DEFINE S == PicksAt(l)
             c == ComHeld
             w == CurHeld
             nc == ComHeld'
             nw == CurHeld'
  <2>1. IsFiniteSet(S) /\ S \subseteq Picks /\ PicksAt(l)' = S
    BY FiniteParts DEF PicksAt
  <2>2. lots[l].com.reserved = Total(c, S) /\ lots[l].cur.reserved = Total(w, S)
    BY DEF BooksInv, ReservedOK
  <2>3. ASSUME NEW p \in S
        PROVE  /\ reservations[p].lock = Nobody => reservations[p].cur = reservations[p].com
               /\ reservations[p].lock # Nobody => lots[l].lock = reservations[p].lock
    <3>1. ReservationHeld(p) /\ PickLot[p] = l
      BY <2>1 DEF LockInv, HeldInv, PicksAt
    <3> QED
      BY <3>1 DEF ReservationHeld
  <2>4. CASE lots[l].lock = q
    <3>1. ASSUME NEW p \in S
          PROVE  /\ reservations'[p].com = IF commit THEN reservations[p].cur ELSE reservations[p].com
                 /\ reservations'[p].cur = IF commit THEN reservations[p].cur ELSE reservations[p].com
      <4>1. reservations[p].lock \in {Nobody, q}
        BY <2>3, <2>4
      <4> QED
        BY <2>1, <2>3, <4>1 DEF EndsAs
    <3>2. \A p \in S : /\ nc[p] = IF commit THEN w[p] ELSE c[p]
                       /\ nw[p] = IF commit THEN w[p] ELSE c[p]
      BY <2>1, <3>1 DEF ComHeld, CurHeld
    <3>3. /\ lots'[l].com = IF commit THEN lots[l].cur ELSE lots[l].com
          /\ lots'[l].cur = IF commit THEN lots[l].cur ELSE lots[l].com
      BY <2>4 DEF EndsAs
    <3> HIDE DEF S, c, w, nc, nw
    <3>4. /\ Total(nc, S) = IF commit THEN Total(w, S) ELSE Total(c, S)
          /\ Total(nw, S) = IF commit THEN Total(w, S) ELSE Total(c, S)
      <4>1. CASE commit
        BY <2>1, <3>2, <4>1, TotalAgrees
      <4>2. CASE ~commit
        BY <2>1, <3>2, <4>2, TotalAgrees
      <4> QED
        BY <4>1, <4>2
    <3>5. lots'[l].com.reserved = Total(nc, S) /\ lots'[l].cur.reserved = Total(nw, S)
      BY <2>2, <3>3, <3>4
    <3> QED
      BY <2>1, <3>5 DEF ReservedOK, nc, nw
  <2>5. CASE lots[l].lock # q
    <3>1. ASSUME NEW p \in S PROVE reservations'[p] = reservations[p]
      BY <1>0, <2>1, <2>3, <2>5 DEF EndsAs
    <3>2. \A p \in S : nc[p] = c[p] /\ nw[p] = w[p]
      BY <2>1, <3>1 DEF ComHeld, CurHeld
    <3>3. lots'[l] = lots[l]
      BY <2>5 DEF EndsAs
    <3> HIDE DEF S, c, w, nc, nw
    <3>4. Total(nc, S) = Total(c, S) /\ Total(nw, S) = Total(w, S)
      BY <2>1, <3>2, TotalAgrees
    <3>5. lots'[l].com.reserved = Total(nc, S) /\ lots'[l].cur.reserved = Total(nw, S)
      BY <2>2, <3>3, <3>4
    <3> QED
      BY <2>1, <3>5 DEF ReservedOK, nc, nw
  <2> QED
    BY <2>4, <2>5
<1> QED
  BY <1>1, <1>2, <1>3 DEF BooksInv

LEMMA InitBooks == Init => BooksInv
<1> SUFFICES ASSUME Init PROVE BooksInv
  OBVIOUS
<1>1. \A p \in Picks : reservations[p] = Fresh(ReservationMade(FALSE))
  BY DEF Init
<1>2. \A d \in Deliveries, p \in Picks : movements[<<d, p>>] = Fresh(0)
  BY DEF Init
<1>3. ASSUME NEW p \in Picks
      PROVE  ComShipped[p] = 0 /\ CurShipped[p] = 0
  <2> DEFINE c == [d \in Deliveries |-> movements[<<d, p>>].com]
             n == [d \in Deliveries |-> movements[<<d, p>>].cur]
  <2>1. \A d \in Deliveries : c[d] = 0 /\ n[d] = 0
    BY <1>2 DEF Fresh
  <2>2. ComShipped[p] = Total(c, Deliveries) /\ CurShipped[p] = Total(n, Deliveries)
    BY DEF ComShipped, CurShipped
  <2> HIDE DEF c, n
  <2> QED
    BY <2>1, <2>2, FiniteParts, TotalOfZeros
<1>4. ASSUME NEW p \in Picks
      PROVE  ConsumedOK(p) /\ ComHeld[p] = 0 /\ CurHeld[p] = 0
  BY <1>1, <1>3 DEF ConsumedOK, ComHeld, CurHeld, Holds, IsOpen, Fresh, ReservationMade
<1>5. ASSUME NEW d \in Deliveries, NEW p \in Picks
      PROVE  ShipperOK(d, p)
  BY <1>2 DEF ShipperOK, Fresh
<1>6. ASSUME NEW l \in Lots
      PROVE  ReservedOK(l)
  <2>1. lots[l].com.reserved = 0 /\ lots[l].cur.reserved = 0
    BY DEF Init, Fresh
  <2>2. IsFiniteSet(PicksAt(l)) /\ \A p \in PicksAt(l) : ComHeld[p] = 0 /\ CurHeld[p] = 0
    BY <1>4, FiniteParts
  <2>3. Total(ComHeld, PicksAt(l)) = 0 /\ Total(CurHeld, PicksAt(l)) = 0
    BY <2>2, TotalOfZeros
  <2> QED
    BY <2>1, <2>3 DEF ReservedOK
<1> QED
  BY <1>4, <1>5, <1>6 DEF BooksInv

LEMMA NextBooks ==
  Inv /\ Inv' /\ LockInv /\ ShipInv /\ SerialInv /\ BooksInv /\ [Next]_vars => BooksInv'
<1> SUFFICES ASSUME Inv, Inv', LockInv, ShipInv, SerialInv, BooksInv, [Next]_vars
             PROVE  BooksInv'
  OBVIOUS
<1>1. CASE UNCHANGED vars
  BY <1>1, QuietBooks DEF vars
<1>2. CASE Done
  BY <1>1, <1>2 DEF Done
<1>3. ASSUME NEW q \in Requests, Rollback(q, "ended")
      PROVE  BooksInv'
  <2>1. /\ \A l \in Lots : EndsAs(q, lots[l], lots'[l], lots[l].com)
        /\ \A p \in Picks : EndsAs(q, reservations[p], reservations'[p], reservations[p].com)
        /\ \A d \in Deliveries, p \in Picks :
             EndsAs(q, movements[<<d, p>>], movements'[<<d, p>>], movements[<<d, p>>].com)
    BY <1>3, RollbackEnds
  <2> QED
    BY <2>1, EndsBooks
<1>4. ASSUME NEW q \in Requests, Commit(q)
      PROVE  BooksInv'
  <2>1. /\ \A l \in Lots : EndsAs(q, lots[l], lots'[l], lots[l].cur)
        /\ \A p \in Picks : EndsAs(q, reservations[p], reservations'[p], reservations[p].cur)
        /\ \A d \in Deliveries, p \in Picks :
             EndsAs(q, movements[<<d, p>>], movements'[<<d, p>>], movements[<<d, p>>].cur)
    BY <1>4, CommitEnds
  <2> QED
    BY <2>1, EndsBooks
<1>5. ASSUME NEW q \in Requests, ~Rollback(q, "ended"), ApproveStep(q)
      PROVE  BooksInv'
  <2>1. CASE ReserveFromLot(q)
    BY <1>5, <2>1, ReserveFromLotBooks
  <2>2. CASE ~ReserveFromLot(q)
    <3>1. UNCHANGED <<lots, reservations, movements>>
      BY <1>5, <2>2, ApproveGoes, TransitionToApprovedGoes, LinkReservationGoes
      DEF ApproveStep, tables
    <3> QED
      BY <3>1, QuietBooks
  <2> QED
    BY <2>1, <2>2
<1>6. ASSUME NEW q \in Requests, ~Rollback(q, "ended"), CancelStep(q)
      PROVE  BooksInv'
  <2>1. CASE ReleaseReservation(q)
    BY <1>6, <2>1, ReleaseReservationBooks
  <2>2. CASE ~ReleaseReservation(q)
    <3>1. UNCHANGED <<lots, reservations, movements>>
      BY <1>6, <2>2, CancelGoes, FindReservationGoes, TransitionToCancelledGoes
      DEF CancelStep, tables
    <3> QED
      BY <3>1, QuietBooks
  <2> QED
    BY <2>1, <2>2
<1>7. ASSUME NEW q \in Requests, ~Rollback(q, "ended"), PickStep(q)
      PROVE  BooksInv'
  <2>1. UNCHANGED <<lots, reservations, movements>>
    BY <1>7, AddItemGoes, AddLotGoes, RemoveLotGoes, SoftDeletePickGoes DEF PickStep, tables
  <2> QED
    BY <2>1, QuietBooks
<1>8. ASSUME NEW q \in Requests, ~Rollback(q, "ended"), DeliverStep(q)
      PROVE  BooksInv'
  <2>1. CASE ConsumeReservation(q)
    BY <1>8, <2>1, ConsumeReservationBooks
  <2>2. CASE ~ConsumeReservation(q)
    <3>1. UNCHANGED <<lots, reservations, movements>>
      BY <1>8, <2>2, CreateDeliveryGoes, ConfirmDeliveryGoes, TransitionToConfirmedGoes,
         NextLineGoes, NextReservationGoes DEF DeliverStep, tables
    <3> QED
      BY <3>1, QuietBooks
  <2> QED
    BY <2>1, <2>2
<1>9. ASSUME NEW q \in Requests, Step(q)
      PROVE  BooksInv'
  BY <1>3, <1>4, <1>5, <1>6, <1>7, <1>8, <1>9 DEF Step
<1>10. ASSUME NEW q \in Requests, Crash(q) \/ DeadlockVictim(q)
       PROVE  BooksInv'
  BY <1>3, <1>10 DEF Crash, DeadlockVictim
<1> QED
  BY <1>1, <1>2, <1>9, <1>10 DEF Next

\* The reserved counter of every lot is what its open reservations still hold,
\* and a reservation counts what was shipped from it, in both versions.
THEOREM Books ==
  ASSUME OneWriterPerSale
  PROVE  Spec => [](Inv /\ LockInv /\ SerialInv /\ CountInv /\ BooksInv)
<1>1. Init => BooksInv
  BY InitBooks
<1>2. (Inv /\ LockInv /\ ShipInv /\ SerialInv /\ BooksInv) /\ Inv' /\ [Next]_vars => BooksInv'
  BY NextBooks
<1> QED
  BY <1>1, <1>2, Serial, Counting, PTL DEF Spec

\* No two deliveries consume the same stock of a reservation: consumed_qty is
\* what they shipped together, and never more than the pick reserved.
THEOREM NothingShippedTwice ==
  ASSUME OneWriterPerSale
  PROVE  Spec => []NoOverDelivery
<1>1. Inv /\ BooksInv => NoOverDelivery
  <2> SUFFICES ASSUME Inv, BooksInv, NEW p \in Picks
               PROVE  /\ ShippedOf(p) <= PickQty[p]
                      /\ Reservation(p).consumed = ShippedOf(p)
    BY DEF NoOverDelivery
  <2>1. reservations[p].com.consumed = ComShipped[p]
    BY DEF BooksInv, ConsumedOK
  <2>2. reservations[p].com.consumed <= PickQty[p]
    BY DEF Inv, CountersInv, ReservationCheck
  <2> QED
    BY <2>1, <2>2, ShippedTotals DEF Reservation
<1> QED
  BY <1>1, Books, PTL

-----------------------------------------------------------------------------
(* The ledger.                                                             *)

\* The sums of the ledger module.
LEMMA SumOfRemaining ==
  ASSUME NEW S, IsFiniteSet(S), NEW f, NEW qty
  PROVE  Ledger!MapThenSumSet(LAMBDA x : qty[x] - f[x].consumed, S) = Total([x \in S |-> qty[x] - f[x].consumed], S)
<1> DEFINE w == [x \in S |-> qty[x] - f[x].consumed]
           Sums(h) == h = [s \in SUBSET S |->
                             IF s = {} THEN 0
                             ELSE (qty[Pick(s)] - f[Pick(s)].consumed) + h[s \ {Pick(s)}]]
<1>1. Ledger!MapThenSumSet(LAMBDA x : qty[x] - f[x].consumed, S) = (CHOOSE h : Sums(h))[S]
  BY DEF Ledger!MapThenSumSet, Ledger!MapThenFoldSet, Pick
<1>2. \A s \in SUBSET S : s # {} => Pick(s) \in S
  BY DEF Pick
<1>3. ASSUME NEW h
      PROVE  Sums(h) <=> SumsUp(h, w, S)
  <2>1. [s \in SUBSET S |-> IF s = {} THEN 0 ELSE (qty[Pick(s)] - f[Pick(s)].consumed) + h[s \ {Pick(s)}]]
        = [s \in SUBSET S |-> IF s = {} THEN 0 ELSE w[Pick(s)] + h[s \ {Pick(s)}]]
    BY <1>2
  <2> QED
    BY <2>1 DEF SumsUp
<1> HIDE DEF Sums, w
<1>4. PICK g : SumsUp(g, w, S) /\ Total(w, S) = g[S]
  BY TotalIsPartial
<1>5. Sums(CHOOSE h : Sums(h))
  BY <1>3, <1>4
<1>6. SumsUp(CHOOSE h : Sums(h), w, S)
  BY <1>3, <1>5
<1>7. (CHOOSE h : Sums(h))[S] = g[S]
  BY <1>4, <1>6, SumsAgree
<1>8. Ledger!MapThenSumSet(LAMBDA x : qty[x] - f[x].consumed, S) = Total(w, S)
  BY <1>1, <1>4, <1>7
<1> QED
  BY <1>8 DEF w

LEMMA SumOfConsumed ==
  ASSUME NEW S, IsFiniteSet(S), NEW f
  PROVE  Ledger!MapThenSumSet(LAMBDA x : f[x].consumed, S) = Total([x \in S |-> f[x].consumed], S)
<1> DEFINE w == [x \in S |-> f[x].consumed]
           Sums(h) == h = [s \in SUBSET S |->
                             IF s = {} THEN 0
                             ELSE (f[Pick(s)].consumed) + h[s \ {Pick(s)}]]
<1>1. Ledger!MapThenSumSet(LAMBDA x : f[x].consumed, S) = (CHOOSE h : Sums(h))[S]
  BY DEF Ledger!MapThenSumSet, Ledger!MapThenFoldSet, Pick
<1>2. \A s \in SUBSET S : s # {} => Pick(s) \in S
  BY DEF Pick
<1>3. ASSUME NEW h
      PROVE  Sums(h) <=> SumsUp(h, w, S)
  <2>1. [s \in SUBSET S |-> IF s = {} THEN 0 ELSE (f[Pick(s)].consumed) + h[s \ {Pick(s)}]]
        = [s \in SUBSET S |-> IF s = {} THEN 0 ELSE w[Pick(s)] + h[s \ {Pick(s)}]]
    BY <1>2
  <2> QED
    BY <2>1 DEF SumsUp
<1> HIDE DEF Sums, w
<1>4. PICK g : SumsUp(g, w, S) /\ Total(w, S) = g[S]
  BY TotalIsPartial
<1>5. Sums(CHOOSE h : Sums(h))
  BY <1>3, <1>4
<1>6. SumsUp(CHOOSE h : Sums(h), w, S)
  BY <1>3, <1>5
<1>7. (CHOOSE h : Sums(h))[S] = g[S]
  BY <1>4, <1>6, SumsAgree
<1>8. Ledger!MapThenSumSet(LAMBDA x : f[x].consumed, S) = Total(w, S)
  BY <1>1, <1>4, <1>7
<1> QED
  BY <1>8 DEF w

\* What the ledger sees of the tables.
Entries == [p \in Picks |-> [made |-> Reservation(p).made,
                             released |-> Reservation(p).released,
                             consumed |-> Reservation(p).consumed]]
Counters == [l \in Lots |-> Lot(l)]

Balanced == Counters = Ledger!CountersOf(Entries)

LEMMA BooksBalance == Inv /\ LockInv /\ CountInv /\ BooksInv => Balanced
<1> SUFFICES ASSUME Inv, LockInv, CountInv, BooksInv, NEW l \in Lots
             PROVE  Counters[l] = Ledger!CountersOf(Entries)[l]
  BY DEF Balanced, Counters, Ledger!CountersOf
<1> DEFINE f == Entries
           at == {p \in Picks : PickLot[p] = l /\ f[p].made}
           open == {p \in at : ~f[p].released}
<1> DEFINE remaining == Ledger!MapThenSumSet(LAMBDA x : PickQty[x] - f[x].consumed, open)
           shipped == Ledger!MapThenSumSet(LAMBDA x : f[x].consumed, at)
<1>1. Ledger!CountersOf(Entries)[l] = [reserved |-> remaining, delivered |-> shipped]
  BY DEF Ledger!CountersOf
<1>2. /\ at \in SUBSET PicksAt(l) /\ open \in SUBSET PicksAt(l)
      /\ IsFiniteSet(at) /\ IsFiniteSet(open) /\ IsFiniteSet(PicksAt(l))
      /\ PicksAt(l) \subseteq Picks
  <2>1. at \in SUBSET PicksAt(l) /\ open \in SUBSET PicksAt(l)
    BY DEF PicksAt
  <2> HIDE DEF at, open
  <2> QED
    BY <2>1, FiniteParts, FS_Subset
<1>3. \A p \in Picks : /\ f[p].made = reservations[p].com.made
                       /\ f[p].released = reservations[p].com.released
                       /\ f[p].consumed = reservations[p].com.consumed
  BY DEF Entries, Reservation
<1>4. ASSUME NEW p \in Picks
      PROVE  /\ ComHeld[p] \in Nat /\ ComShipped[p] \in Nat
             /\ f[p].consumed = ComShipped[p]
             /\ ~f[p].made => ComShipped[p] = 0
  <2>1. ReservationHeld(p) /\ ConsumedOK(p)
    BY DEF LockInv, HeldInv, BooksInv
  <2> HIDE DEF f
  <2> QED
    BY <1>3, <2>1, HeldType, ShippedType DEF ConsumedOK, ReservationHeld, ReservationMade
<1>5. remaining = Total(ComHeld, PicksAt(l))
  <2> DEFINE w == [x \in open |-> PickQty[x] - f[x].consumed]
  <2>1. \A x \in open : w[x] = ComHeld[x]
    BY <1>2, <1>3 DEF ComHeld, Holds, IsOpen
  <2>2. \A x \in PicksAt(l) \ open : ComHeld[x] = 0
    BY <1>2, <1>3 DEF ComHeld, Holds, IsOpen, PicksAt
  <2> HIDE DEF f, open
  <2>3. Ledger!MapThenSumSet(LAMBDA x : PickQty[x] - f[x].consumed, open) = Total(w, open)
    BY <1>2, SumOfRemaining
  <2> HIDE DEF w
  <2>4. Total(w, open) = Total(ComHeld, open)
    BY <1>2, <2>1, TotalAgrees
  <2>5. Total(ComHeld, PicksAt(l)) = Total(ComHeld, open)
    BY <1>2, <1>4, <2>2, TotalPadded
  <2> QED
    BY <2>3, <2>4, <2>5
<1>6. shipped = Total(ComShipped, PicksAt(l))
  <2> DEFINE w == [x \in at |-> f[x].consumed]
  <2>1. \A x \in at : w[x] = ComShipped[x]
    BY <1>2, <1>4
  <2>2. \A x \in PicksAt(l) \ at : ComShipped[x] = 0
    BY <1>2, <1>4 DEF PicksAt
  <2> HIDE DEF f, at
  <2>3. Ledger!MapThenSumSet(LAMBDA x : f[x].consumed, at) = Total(w, at)
    BY <1>2, SumOfConsumed
  <2> HIDE DEF w
  <2>4. Total(w, at) = Total(ComShipped, at)
    BY <1>2, <2>1, TotalAgrees
  <2>5. Total(ComShipped, PicksAt(l)) = Total(ComShipped, at)
    BY <1>2, <1>4, <2>2, TotalPadded
  <2> QED
    BY <2>3, <2>4, <2>5
<1>7. /\ lots[l].com.reserved = Total(ComHeld, PicksAt(l))
      /\ lots[l].com.delivered = Total(ComShipped, PicksAt(l))
  BY DEF BooksInv, ReservedOK, CountInv
<1>8. Counters[l] = [reserved |-> lots[l].com.reserved, delivered |-> lots[l].com.delivered]
  BY Tables DEF Counters, Lot, Versioned, LotRow
<1> HIDE DEF remaining, shipped
<1> QED
  BY <1>1, <1>5, <1>6, <1>7, <1>8

\* No step but a commit changes a committed reservation.
LEMMA EntriesKept ==
  ASSUME Inv, Inv', LockInv, [Next]_vars, \A q \in Requests : ~Commit(q)
  PROVE  \A p \in Picks : reservations'[p].com = reservations[p].com
<1>1. CASE UNCHANGED vars
  BY <1>1 DEF vars
<1>2. CASE Done
  BY <1>1, <1>2 DEF Done
<1>3. ASSUME NEW q \in Requests, Rollback(q, "ended")
      PROVE  \A p \in Picks : reservations'[p].com = reservations[p].com
  BY <1>3, RollbackEnds DEF EndsAs
<1>4. ASSUME NEW q \in Requests, ~Rollback(q, "ended"), Step(q)
      PROVE  \A p \in Picks : reservations'[p].com = reservations[p].com
  <2>1. ASSUME NEW pc, NEW at, NEW todo, Goes(q, pc, at, todo)
        PROVE  \A p \in Picks : reservations'[p].com = reservations[p].com
    BY <2>1, Keeps
  <2>2. CASE ReserveFromLot(q)
    BY <1>4, <2>1, <2>2, ReserveFromLotGoes
  <2>3. CASE ReleaseReservation(q)
    BY <1>4, <2>1, <2>3, ReleaseReservationGoes
  <2>4. CASE ConsumeReservation(q)
    BY <1>4, <2>1, <2>4, ConsumeReservationGoes
  <2>5. CASE Approve(q) \/ TransitionToApproved(q) \/ LinkReservation(q)
    BY <1>4, <2>5, ApproveGoes, TransitionToApprovedGoes, LinkReservationGoes DEF tables
  <2>6. CASE Cancel(q) \/ FindReservation(q) \/ TransitionToCancelled(q)
    BY <1>4, <2>6, CancelGoes, FindReservationGoes, TransitionToCancelledGoes DEF tables
  <2>7. CASE AddItem(q) \/ AddLot(q) \/ RemoveLot(q) \/ SoftDeletePick(q)
    BY <1>4, <2>7, AddItemGoes, AddLotGoes, RemoveLotGoes, SoftDeletePickGoes DEF tables
  <2>8. CASE \/ CreateDelivery(q) \/ ConfirmDelivery(q) \/ TransitionToConfirmed(q)
             \/ NextLine(q) \/ NextReservation(q)
    BY <1>4, <2>8, CreateDeliveryGoes, ConfirmDeliveryGoes, TransitionToConfirmedGoes,
       NextLineGoes, NextReservationGoes DEF tables
  <2> QED
    BY <1>4, <2>2, <2>3, <2>4, <2>5, <2>6, <2>7, <2>8
    DEF Step, ApproveStep, CancelStep, PickStep, DeliverStep
<1>5. ASSUME NEW q \in Requests, Crash(q) \/ DeadlockVictim(q)
      PROVE  \A p \in Picks : reservations'[p].com = reservations[p].com
  BY <1>3, <1>5 DEF Crash, DeadlockVictim
<1> QED
  BY <1>1, <1>2, <1>3, <1>4, <1>5 DEF Next

LEMMA EntriesStay ==
  ASSUME Balanced, Balanced', \A p \in Picks : reservations'[p].com = reservations[p].com
  PROVE  UNCHANGED Ledger!ledgerVars
<1>1. Entries' = Entries
  BY DEF Entries, Reservation
<1>2. Ledger!CountersOf(Entries)' = Ledger!CountersOf(Entries)
  BY <1>1
<1>3. Counters' = Counters
  BY <1>2 DEF Balanced
<1> QED
  BY <1>1, <1>3 DEF Ledger!ledgerVars, Entries, Counters

\* What the commit of q does to the reservations it has locked.
LockedBy(q) == {p \in Picks : reservations[p].lock = q}

LEMMA EntryCommit ==
  ASSUME Inv, LockInv, SerialInv, NEW q \in Requests, Commit(q),
         NEW p \in Picks, reservations[p].lock = q
  PROVE  /\ Entries'[p].made /\ Entries'[p].consumed <= PickQty[p]
         /\ \/ /\ Op[q] = "approve"
               /\ ~Entries[p].made /\ ~Entries'[p].released /\ Entries'[p].consumed = 0
            \/ /\ Op[q] = "cancel"
               /\ Entries[p].made /\ ~Entries[p].released /\ Entries'[p].released
               /\ Entries'[p].consumed = Entries[p].consumed
            \/ /\ Op[q] = "confirm"
               /\ Entries[p].made /\ ~Entries[p].released /\ ~Entries'[p].released
               /\ Entries[p].consumed < Entries'[p].consumed
<1>1. reservations'[p].com = reservations[p].cur /\ q # Nobody
  BY CommitEnds, Workload DEF EndsAs
<1>2. /\ Entries[p].made = reservations[p].com.made
      /\ Entries[p].released = reservations[p].com.released
      /\ Entries[p].consumed = reservations[p].com.consumed
      /\ Entries'[p].made = reservations[p].cur.made
      /\ Entries'[p].released = reservations[p].cur.released
      /\ Entries'[p].consumed = reservations[p].cur.consumed
  BY <1>1 DEF Entries, Reservation
<1>3. ReservationHeld(p) /\ ReservationOwned(p)
  BY DEF LockInv, HeldInv, SerialInv
<1>4. reservations[p].cur.consumed <= PickQty[p]
  BY HeldType
<1>5. /\ reservations[p].cur.made
      /\ \/ /\ Op[q] = "approve"
            /\ ~reservations[p].com.made /\ reservations[p].cur = ReservationMade(TRUE)
         \/ /\ Op[q] = "cancel" /\ reservations[p].com.made
            /\ reservations[p].cur.released
            /\ reservations[p].cur.consumed = reservations[p].com.consumed
         \/ /\ Op[q] = "confirm" /\ reservations[p].com.made
            /\ reservations[p].cur.released = reservations[p].com.released
  BY <1>1, <1>3 DEF ReservationHeld
<1>6. /\ Op[q] \in {"cancel", "confirm"} => ~reservations[p].com.released
      /\ Op[q] = "confirm" => reservations[p].com.consumed < reservations[p].cur.consumed
  BY <1>1, <1>3 DEF ReservationOwned
<1>7. CASE Op[q] = "approve"
  BY <1>2, <1>4, <1>5, <1>7 DEF ReservationMade
<1>8. CASE Op[q] = "cancel"
  BY <1>2, <1>4, <1>5, <1>6, <1>8
<1>9. CASE Op[q] = "confirm"
  BY <1>2, <1>4, <1>5, <1>6, <1>9
<1> QED
  BY <1>5, <1>7, <1>8, <1>9

LEMMA EntriesCommit ==
  ASSUME Inv, LockInv, SerialInv, NEW q \in Requests, Commit(q)
  PROVE  /\ \A p \in Picks \ LockedBy(q) : Entries'[p] = Entries[p]
         /\ \A p \in LockedBy(q) : Entries'[p].made /\ Entries'[p].consumed <= PickQty[p]
         /\ \/ \A p \in LockedBy(q) :
                 ~Entries[p].made /\ ~Entries'[p].released /\ Entries'[p].consumed = 0
            \/ \A p \in LockedBy(q) :
                 /\ Entries[p].made /\ ~Entries[p].released /\ Entries'[p].released
                 /\ Entries'[p].consumed = Entries[p].consumed
            \/ \A p \in LockedBy(q) :
                 /\ Entries[p].made /\ ~Entries[p].released /\ ~Entries'[p].released
                 /\ Entries[p].consumed < Entries'[p].consumed
<1>1. \A p \in Picks \ LockedBy(q) : Entries'[p] = Entries[p]
  BY CommitEnds DEF EndsAs, Entries, Reservation, LockedBy
<1> QED
  BY <1>1, EntryCommit DEF LockedBy

LEMMA EntryType ==
  ASSUME Inv, NEW p \in Picks
  PROVE  Entries[p] \in [made : BOOLEAN, released : BOOLEAN, consumed : Nat]
BY HeldType DEF Entries, Reservation, ReservationRow

\* A commit is one step of the ledger, or none.
LEMMA LedgerCommits ==
  ASSUME Inv, Inv', LockInv, SerialInv, Balanced, Balanced', NEW q \in Requests, Commit(q)
  PROVE  [Ledger!LedgerNext]_(Ledger!ledgerVars)
<1> DEFINE S == LockedBy(q)
           e == Entries
           n == Entries'
<1>1. /\ \A p \in Picks \ S : n[p] = e[p]
      /\ \A p \in S : n[p].made /\ n[p].consumed <= PickQty[p]
      /\ \/ \A p \in S : ~e[p].made /\ ~n[p].released /\ n[p].consumed = 0
         \/ \A p \in S : /\ e[p].made /\ ~e[p].released /\ n[p].released
                         /\ n[p].consumed = e[p].consumed
         \/ \A p \in S : /\ e[p].made /\ ~e[p].released /\ ~n[p].released
                         /\ e[p].consumed < n[p].consumed
  BY EntriesCommit
<1>2. S \in SUBSET Picks
  BY DEF LockedBy
<1>3. \A p \in Picks : /\ e[p] \in [made : BOOLEAN, released : BOOLEAN, consumed : Nat]
                       /\ n[p] \in [made : BOOLEAN, released : BOOLEAN, consumed : Nat]
  <2>1. \A p \in Picks : reservations'[p].com \in ReservationRow
    BY DEF Inv, RowsOK, Versioned
  <2>2. \A p \in Picks : n[p] \in [made : BOOLEAN, released : BOOLEAN, consumed : Nat]
    BY <2>1 DEF Entries, Reservation, ReservationRow
  <2> QED
    BY <2>2, EntryType
<1>4. n = [p \in Picks |-> n[p]] /\ e = [p \in Picks |-> e[p]]
  BY DEF Entries
<1>5. Counters' = Ledger!CountersOf(n)
  BY DEF Balanced
<1>6. \A p \in Picks : PickQty[p] \in Nat
  BY Documents
<1>7. CASE S = {}
  <2>1. n = e
    BY <1>1, <1>4, <1>7
  <2>2. \A p \in Picks : reservations'[p].com = reservations[p].com
    BY <1>7, CommitEnds DEF EndsAs, LockedBy
  <2> QED
    BY <2>2, EntriesStay
<1> HIDE DEF S, e, n
<1>8. CASE /\ S # {}
           /\ \A p \in S : ~e[p].made /\ ~n[p].released /\ n[p].consumed = 0
  <2>1. \A p \in S : n[p] = [Ledger!Unreserved EXCEPT !.made = TRUE]
    <3> TAKE p \in S
    <3>1. n[p] \in [made : BOOLEAN, released : BOOLEAN, consumed : Nat]
      BY <1>2, <1>3
    <3>2. n[p].made = TRUE /\ n[p].released = FALSE /\ n[p].consumed = 0
      BY <1>1, <1>8, <3>1
    <3>3. PICK u : u = Ledger!Unreserved
      OBVIOUS
    <3>4. /\ u \in [made : BOOLEAN, released : BOOLEAN, consumed : Nat]
          /\ u.released = FALSE /\ u.consumed = 0
      BY <3>3 DEF Ledger!Unreserved
    <3>5. n[p] = [u EXCEPT !.made = TRUE]
      BY <3>1, <3>2, <3>4
    <3> QED
      BY <3>3, <3>5
  <2>2. n = [p \in Picks |-> IF p \in S THEN [Ledger!Unreserved EXCEPT !.made = TRUE] ELSE e[p]]
    BY <1>1, <1>2, <1>4, <2>1
  <2>3. \A l \in Lots : Counters'[l].reserved + Counters'[l].delivered <= Received[l]
    BY DEF Counters, Lot, Inv, CountersInv, LotCheck
  <2>4. Ledger!ReserveAll(S)
    BY <1>2, <1>5, <1>8, <2>2, <2>3 DEF Ledger!ReserveAll, e, n, Entries, Counters
  <2> QED
    BY <1>2, <2>4 DEF Ledger!LedgerNext
<1>9. CASE /\ S # {}
           /\ \A p \in S : /\ e[p].made /\ ~e[p].released /\ n[p].released
                           /\ n[p].consumed = e[p].consumed
  <2>1. \A p \in S : n[p] = [e[p] EXCEPT !.released = TRUE]
    <3> TAKE p \in S
    <3>1. /\ n[p] \in [made : BOOLEAN, released : BOOLEAN, consumed : Nat]
          /\ e[p] \in [made : BOOLEAN, released : BOOLEAN, consumed : Nat]
      BY <1>2, <1>3
    <3>2. /\ n[p].made = TRUE /\ n[p].released = TRUE /\ n[p].consumed = e[p].consumed
          /\ e[p].made = TRUE
      BY <1>1, <1>9, <3>1
    <3> QED
      BY <3>1, <3>2
  <2>2. n = [p \in Picks |-> IF p \in S THEN [e[p] EXCEPT !.released = TRUE] ELSE e[p]]
    BY <1>1, <1>2, <1>4, <2>1
  <2>3. S \subseteq {p \in Picks : e[p].made /\ ~e[p].released}
    BY <1>2, <1>9
  <2>4. Ledger!ReleaseAll(S)
    BY <1>5, <1>9, <2>2, <2>3 DEF Ledger!ReleaseAll, Ledger!OpenPicks, e, n, Entries, Counters
  <2> QED
    BY <1>2, <2>4 DEF Ledger!LedgerNext
<1>10. CASE /\ S # {}
            /\ \A p \in S : /\ e[p].made /\ ~e[p].released /\ ~n[p].released
                            /\ e[p].consumed < n[p].consumed
  <2> DEFINE shipped == [p \in S |-> n[p].consumed - e[p].consumed]
             qtys == {PickQty[p] : p \in S}
  <2>1. qtys \in SUBSET Nat /\ IsFiniteSet(qtys) /\ qtys # {}
    <3>1. IsFiniteSet(S)
      BY <1>2, FiniteParts, FS_Subset
    <3> DEFINE qty == [p \in S |-> PickQty[p]]
    <3>2. qty \in [S -> Nat] /\ qtys = {qty[p] : p \in S}
      BY <1>2, <1>6
    <3> HIDE DEF qty
    <3> HIDE DEF qtys
    <3>3. IsFiniteSet({qty[p] : p \in S})
      BY <3>1, <3>2, FiniteValues
    <3>4. qtys \in SUBSET Nat /\ qtys # {}
      BY <1>2, <1>6, <1>10 DEF qtys
    <3> QED
      BY <3>2, <3>3, <3>4
  <2>2. Max(qtys) \in Nat /\ \A p \in S : PickQty[p] <= Max(qtys)
    <3>1. \A p \in S : PickQty[p] \in qtys
      OBVIOUS
    <3> HIDE DEF qtys
    <3> QED
      BY <2>1, <3>1, GreatestNumber
  <2>3. \A p \in S : /\ n[p].consumed - e[p].consumed \in 1 .. Max(qtys)
                     /\ e[p].consumed + shipped[p] <= PickQty[p]
                     /\ n[p] = [e[p] EXCEPT !.consumed = @ + shipped[p]]
    <3> HIDE DEF qtys
    <3> TAKE p \in S
    <3>1. /\ p \in Picks /\ e[p].consumed \in Nat /\ n[p].consumed \in Nat
          /\ n[p].consumed <= PickQty[p] /\ PickQty[p] \in Nat /\ PickQty[p] <= Max(qtys)
          /\ e[p].consumed < n[p].consumed
      BY <1>1, <1>2, <1>3, <1>6, <1>10, <2>2
    <3>2. shipped[p] = n[p].consumed - e[p].consumed
      OBVIOUS
    <3>3. n[p] = [e[p] EXCEPT !.consumed = @ + shipped[p]]
      <4>1. /\ n[p] \in [made : BOOLEAN, released : BOOLEAN, consumed : Nat]
            /\ e[p] \in [made : BOOLEAN, released : BOOLEAN, consumed : Nat]
        BY <1>3, <3>1
      <4>2. /\ n[p].made = TRUE /\ e[p].made = TRUE
            /\ n[p].released = FALSE /\ e[p].released = FALSE
        BY <1>1, <1>10, <4>1
      <4>3. PICK more : more = shipped[p]
        OBVIOUS
      <4>4. n[p].consumed = e[p].consumed + more
        BY <3>1, <3>2, <4>3
      <4>5. n[p] = [e[p] EXCEPT !.consumed = @ + more]
        BY <4>1, <4>2, <4>4
      <4> HIDE DEF shipped
      <4> QED
        BY <4>3, <4>5
    <3> QED
      BY <2>2, <3>1, <3>2, <3>3
  <2>4. shipped \in [S -> 1 .. Max(qtys)]
    BY <2>3
  <2>5. n = [p \in Picks |-> IF p \in S THEN [e[p] EXCEPT !.consumed = @ + shipped[p]] ELSE e[p]]
    <3> HIDE DEF shipped
    <3> QED
      BY <1>1, <1>2, <1>4, <2>3
  <2>6. S \subseteq {p \in Picks : e[p].made /\ ~e[p].released}
    BY <1>2, <1>10
  <2> HIDE DEF shipped
  <2>7. Ledger!Deliver(S)
    BY <1>5, <1>10, <2>3, <2>4, <2>5, <2>6
    DEF Ledger!Deliver, Ledger!OpenPicks, Ledger!Max, Max, e, n, Entries, Counters
  <2> QED
    BY <1>2, <2>7 DEF Ledger!LedgerNext
<1> QED
  BY <1>1, <1>7, <1>8, <1>9, <1>10

LEMMA LedgerBegins == Init /\ Balanced => Ledger!LedgerInit
<1> SUFFICES ASSUME Init, Balanced PROVE Ledger!LedgerInit
  OBVIOUS
<1>1. Entries = [p \in Picks |-> Ledger!Unreserved]
  BY DEF Init, Entries, Reservation, Fresh, ReservationMade, Ledger!Unreserved
<1> QED
  BY <1>1 DEF Balanced, Entries, Counters, Ledger!LedgerInit

LEMMA LedgerStep ==
  Inv /\ Inv' /\ LockInv /\ SerialInv /\ Balanced /\ Balanced' /\ [Next]_vars
    => [Ledger!LedgerNext]_(Ledger!ledgerVars)
<1> SUFFICES ASSUME Inv, Inv', LockInv, SerialInv, Balanced, Balanced', [Next]_vars
             PROVE  [Ledger!LedgerNext]_(Ledger!ledgerVars)
  OBVIOUS
<1>1. CASE \E q \in Requests : Commit(q)
  BY <1>1, LedgerCommits
<1>2. CASE \A q \in Requests : ~Commit(q)
  BY <1>2, EntriesKept, EntriesStay
<1> QED
  BY <1>1, <1>2

\* ImplementsLedger: every commit is one atomic step of the ledger, and nothing
\* else touches it.  An approval reserves all its picks on lots with room for
\* them, a cancellation releases all that is open, a delivery ships at most what
\* the reservations hold, and the counters are always their sums.
THEOREM LedgerImplemented ==
  ASSUME OneWriterPerSale
  PROVE  Spec => ImplementsLedger
<1>1. Inv /\ LockInv /\ CountInv /\ BooksInv => Balanced
  BY BooksBalance
<1>2. Init /\ Balanced => Ledger!LedgerInit
  BY LedgerBegins
<1>3. Inv /\ Inv' /\ LockInv /\ SerialInv /\ Balanced /\ Balanced' /\ [Next]_vars
        => [Ledger!LedgerNext]_(Ledger!ledgerVars)
  BY LedgerStep
<1> QED
  BY <1>1, <1>2, <1>3, Books, PTL DEF Spec, ImplementsLedger, Ledger!LedgerSpec
=============================================================================
