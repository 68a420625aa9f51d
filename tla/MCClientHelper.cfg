SPECIFICATION Spec
CONSTANTS
  c1 = c1
  c2 = c2
  u1 = u1
  u2 = u2
  d1 = d1
  s1 = s1
  Call <- MCCall
  Uid <- MCUid
  Deleter <- MCDeleter
  Shower <- MCShower
  RequestedSchema <- MCSchemas
  MaxRestarts = 1
SYMMETRY Symmetric
INVARIANTS
  ReadyIsBacked
  PreparingHasWorker
  ShowHoldsEntry
  DeletedStaysGone
  SettledStaysUnknown
PROPERTIES
  ImplementsCredStore
CHECK_DEADLOCK FALSE
