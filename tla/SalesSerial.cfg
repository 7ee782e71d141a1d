SPECIFICATION FairSpec
CONSTANTS
  A = A  B = B  s1 = s1  s2 = s2  i1 = i1  i2 = i2  i3 = i3  i4 = i4
  a1 = a1  b1 = b1  a2 = a2  b2 = b2  d1 = d1  d2 = d2
  Nobody = Nobody
  Lots = {A, B}
  Sales = {s1, s2}
  Items = {i1, i2}
  Picks = {a1, b1, a2, b2}
  InitialItems = {i1, i2}
  InitialPicks = {a1, b1, a2}
  Deliveries = {d1, d2}
  Received <- SerialReceived
  ItemSale <- MCItemSale
  PickItem <- SerialPickItem
  PickLot <- MCPickLot
  PickQty <- SerialPickQty
  DelivSale <- MCDelivSale
  DelivQty <- SerialDelivQty
  Requests <- SerialRequests
  Op <- SerialOp
  Target <- SerialTarget
  PoolSize = 2
  OneWriterPerSale = TRUE
INVARIANTS
  NoOverDelivery CancelledHoldsNothing NoLeakedReservation
PROPERTIES
  ImplementsLedger EveryRequestEnds
