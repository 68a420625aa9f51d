SPECIFICATION FairSpec
CONSTANTS
  s1 = s1
  s2 = s2
  r1 = r1
  r2 = r2
  i1 = i1
  n1 = n1
  k1 = k1
  k2 = k2
  Session <- MCSessions
  Request <- MCRequests
  Issuer <- MCOneIssuer
  FolderName <- MCOneName
  issuer_uid <- MCUid
  Key <- MCKeys
  SharedKey = k1
  Listing <- MCListing
  RequestedSchema <- MCSchemas
  MaxRestarts = 1
INVARIANTS
  ResultIsEarned
  OneBuilder
  IncompleteHasCause
PROPERTIES
  KeyNeverChanges
  CompleteServes
  ImplementsSessionBook
  VerifyEnds
CHECK_DEADLOCK FALSE
