SPECIFICATION Spec
CONSTANTS
  r1 = r1  r2 = r2  b1 = b1  b2 = b2
  Nobody = Nobody
  Items = {1}
  Receipts = {r1, r2}
  Bills = {b1}
  InitialStatus = "draft"
  Ordered <- AnyOrdered
  ReceiptLines <- AnyReceiptLines
  BillLines <- AnyBillLines
  Requests <- AnyRequests
  Op <- AnyOp
  Target <- AnyTarget
  Quantity <- AnyQuantity
  PoolSize = 2
  OneAtATime = FALSE
INVARIANTS
  TypeOK StockFollowsReceipt
PROPERTIES
  TerminalStays
