SPECIFICATION Spec
CONSTANTS
  Nobody = Nobody
  Sales = {"s1", "s2"}
  Items <- SetItems
  SaleOf <- SetSaleOf
  Reserved <- SetReserved
  Deliveries = {"v1", "v2"}
  DeliveryLines <- SetDelivLines
  Invoices = {"i1", "i2", "i3"}
  InvoiceSale <- SetInvSale
  InvoiceLines <- SetInvLines
  Bills = {"b1"}
  Amount <- SetAmount
  Requests <- SettleRequests
  Op <- SettleOp
  Target <- SettleTarget
  Allocations <- SettleAllocations
  NewAmount <- SettleNewAmount
  Series <- SettleSeries
  Conflicts <- SettleConflicts
  PoolSize = 2
INVARIANTS
  TypeOK NeverOverInvoiced FinishedSaleIsClosed ClosedSaleIsDone
PROPERTIES
  ImplementsOpenItems
