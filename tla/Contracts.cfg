SPECIFICATION Spec
CONSTANTS
  Nobody = Nobody
  Clauses = {"c", "d", "e"}
  Versions <- LibVersions
  ClauseOf <- LibClauseOf
  EffectiveFrom <- LibEffectiveFrom
  Stored <- LibStored
  StoredStatus <- LibStoredStatus
  Requests <- LibRequests
  Op <- LibOp
  Target <- LibTarget
  After <- LibAfter
  StoredNumber <- LibStoredNumber
  FirstDay = 1
  LastDay = 2
  PoolSize = 2
  Contracts = {"k1", "k2"}
  Template <- ConTemplate
  Calls <- ConCalls
  CallOp <- ConCallOp
  CallContract <- ConContract
  CallClause <- ConClause
  CallParent <- ConParent
  Matches <- ConMatches
  CallAfter <- ConAfter
  Exclusive <- ConExclusive
  MaxLines = 5
  CallPool = 2
INVARIANTS
  TypeOK QuotesWhatWasInForce ApprovedHasClauses
PROPERTIES
  ApprovedIsFrozen
CHECK_DEADLOCK FALSE
