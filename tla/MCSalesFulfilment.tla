-------------------------- MODULE MCSalesFulfilment --------------------------
(***************************************************************************)
(* Instances of SalesFulfilment.  Two sales compete for two lots;          *)
(* deliveries of the first sale split its quantity.                        *)
(***************************************************************************)
EXTENDS SalesFulfilmentProperties

CONSTANTS A, B, s1, s2, i1, i2, i3, i4, a1, b1, a2, b2, d1, d2

MCItemSale  == [i \in Items |-> IF i = i2 THEN s2 ELSE s1]
MCPickLot   == [p \in Picks |-> IF p \in {a1, a2} THEN A ELSE B]
MCDelivSale == [d \in Deliveries |-> s1]

(* Requests interleave freely, two of them on the same document at times.  *)
(* Both sales pick from both lots, the first through two items; lot B has  *)
(* room for one of them only, and the deliveries d1 and d2 together ask    *)
(* for more of item i1 than is reserved.  An item without a pick is added  *)
(* to the first sale at any time.                                          *)
AnyPickItem == [p \in Picks |-> CASE p = a1 -> i1 [] p = b1 -> i3
                                  [] OTHER -> i2]
AnyReceived == [l \in Lots |-> IF l = A THEN 3 ELSE 1]
AnyPickQty  == [p \in Picks |-> IF p = a1 THEN 2 ELSE 1]
AnyDelivQty == [d \in Deliveries |->
                  [i \in Items |-> CASE i = i1 -> IF d = d1 THEN 1 ELSE 2
                                     [] i = i3 /\ d = d1 -> 1
                                     [] OTHER -> 0]]
AnyOp == [approve1 |-> "approve", approve2 |-> "approve",
          cancel1 |-> "cancel", addItem |-> "addItem", remove |-> "removeLot",
          create1 |-> "create", confirm1 |-> "confirm",
          create2 |-> "create", confirm2 |-> "confirm"]
AnyTarget == [approve1 |-> s1, approve2 |-> s2, cancel1 |-> s1,
              addItem |-> i4, remove |-> b1, create1 |-> d1, confirm1 |-> d1,
              create2 |-> d2, confirm2 |-> d2]
AnyRequests == DOMAIN AnyOp

(* One request per sale at a time: the sales compete for the lots only.    *)
(* Item i1 is reserved from two lots, and its deliveries split a           *)
(* reservation.                                                            *)
SerialPickItem == [p \in Picks |-> IF p \in {a1, b1} THEN i1 ELSE i2]
SerialReceived == [l \in Lots |-> 3]
SerialPickQty  == [p \in Picks |-> IF p \in {b1, b2} THEN 1 ELSE 2]
SerialDelivQty == [d \in Deliveries |->
                     [i \in Items |-> CASE i = i1 /\ d = d1 -> 2
                                        [] i = i1 /\ d = d2 -> 1
                                        [] OTHER -> 0]]
SerialOp == [approve1 |-> "approve", approve2 |-> "approve",
             cancel1 |-> "cancel",
             remove |-> "removeLot", add |-> "addLot",
             create1 |-> "create", confirm1 |-> "confirm",
             create2 |-> "create", confirm2 |-> "confirm"]
SerialTarget == [approve1 |-> s1, approve2 |-> s2, cancel1 |-> s1,
                 remove |-> b1, add |-> b2,
                 create1 |-> d1, confirm1 |-> d1,
                 create2 |-> d2, confirm2 |-> d2]
SerialRequests == DOMAIN SerialOp
=============================================================================
