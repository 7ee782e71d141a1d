SPECIFICATION FairLibrarySpec
CONSTANTS
  Nobody = Nobody
  Clauses = {"c"}
  Versions <- LibVersions
  ClauseOf <- LibClauseOf
  EffectiveFrom <- LibEffectiveFrom
  Stored <- LibStored
  StoredStatus <- LibStoredStatus
  Requests <- LibRequests
  Op <- LibOp
  Target <- LibTarget
  After <- LibAfter
  StoredNumber <- LibStoredNumber
  FirstDay = 1
  LastDay = 3
  PoolSize = 2
INVARIANTS
  LibraryTypeOK OneInForce
PROPERTIES
  DueIsPromoted
CHECK_DEADLOCK FALSE
