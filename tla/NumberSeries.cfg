SPECIFICATION FairSpec
CONSTANTS
  Nobody = Nobody
  Series = {"SO", "DELIVERY"}
  Years = {2024, 2025}
  StartMonth = 4
  Configured <- RolloverConfigured
  WithFY <- RolloverWithFY
  SeedOrder <- RolloverSeedOrder
  SeedYear = 2025
  Requests <- RolloverRequests
  Op <- RolloverOp
  SeriesOf <- RolloverSeriesOf
  Date <- RolloverDate
INVARIANTS
  TypeOK Gapless SeriesNeverDisappears NewNumberIsUnused
PROPERTIES
  CountersNeverReset EveryRequestEnds
