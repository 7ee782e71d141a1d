SPECIFICATION Spec
CONSTANTS
  r1 = r1  r2 = r2  b1 = b1  b2 = b2
  Nobody = Nobody
  Items = {1}
  Receipts = {r1, r2}
  Bills = {b1}
  InitialStatus = "issued"
  Ordered <- AnyOrdered
  ReceiptLines <- AnyReceiptLines
  BillLines <- AnyBillLines
  Requests <- TwoReceiptsRequests
  Op <- TwoReceiptsOp
  Target <- TwoReceiptsTarget
  Quantity <- TwoReceiptsQuantity
  PoolSize = 1
  OneAtATime = TRUE
INVARIANT
  NeverOverReceived
