SPECIFICATION Spec
CONSTANTS
  r1 = r1  r2 = r2  b1 = b1  b2 = b2
  Nobody = Nobody
  Items = {1, 2}
  Receipts = {r1, r2}
  Bills = {b1, b2}
  InitialStatus = "issued"
  Ordered <- SerialOrdered
  ReceiptLines <- SerialReceiptLines
  BillLines <- SerialBillLines
  Requests <- SerialRequests
  Op <- SerialOp
  Target <- SerialTarget
  Quantity <- SerialQuantity
  PoolSize = 1
  OneAtATime = TRUE
INVARIANTS
  ClosedIsDone FinishedOrderIsClosed ShortClosedLineCanBeReopened ShortCloseCoversTheRest
PROPERTIES
  BillingWithinCeiling ReceivedItemsAreFrozen
