SPECIFICATION FairSpec
CONSTANTS
  c1 = c1
  c2 = c2
  u1 = u1
  u2 = u2
  d1 = d1
  s1 = s1
  Call <- MCCall
  Uid <- MCUid
  Deleter <- MCDeleter
  Shower <- MCShower
  RequestedSchema <- MCJwtSchema
  MaxRestarts = 0
PROPERTIES
  LockIsReleased
  PreparingEnds
CHECK_DEADLOCK FALSE
