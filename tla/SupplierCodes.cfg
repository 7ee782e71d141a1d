SPECIFICATION Spec
CONSTANTS
  Nobody = Nobody
  Series = {"SUPPLIER"}
  Years = {2024, 2025}
  StartMonth = 4
  Configured <- SupplierConfigured
  WithFY <- SupplierWithFY
  SeedOrder <- SupplierSeedOrder
  SeedYear = 2025
  Requests <- SupplierRequests
  Op <- SupplierOp
  SeriesOf <- SupplierSeriesOf
  Date <- SupplierDate
INVARIANT NewNumberIsUnused
