SPECIFICATION Spec
CONSTANTS
  A = A  B = B  s1 = s1  s2 = s2  i1 = i1  i2 = i2  i3 = i3  i4 = i4
  a1 = a1  b1 = b1  a2 = a2  b2 = b2  d1 = d1  d2 = d2
  Nobody = Nobody
  Lots = {A, B}
  Sales = {s1, s2}
  Items = {i1, i2, i3, i4}
  InitialItems = {i1, i2, i3}
  Picks = {a1, b1, a2, b2}
  InitialPicks = {a1, b1, a2, b2}
  Deliveries = {d1, d2}
  Received <- AnyReceived
  ItemSale <- MCItemSale
  PickItem <- AnyPickItem
  PickLot <- MCPickLot
  PickQty <- AnyPickQty
  DelivSale <- MCDelivSale
  DelivQty <- AnyDelivQty
  Requests <- AnyRequests
  Op <- AnyOp
  Target <- AnyTarget
  PoolSize = 2
  OneWriterPerSale = FALSE
INVARIANT NoOverDelivery
