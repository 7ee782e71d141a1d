SPECIFICATION FairSpec
CONSTANTS
  None = None
  Companies = {"c1", "c2"}
  Users = {"u1"}
  CompanyOf <- MCCompanyOf
  Changes <- MCChanges
  Kind <- MCKind
  Owner <- MCOwner
  Readers <- MCReaders
  Reads <- MCReads
  UserOf <- MCUserOf
INVARIANTS
  TypeOK TakesEffectImmediately
PROPERTIES
  EventuallyFresh
