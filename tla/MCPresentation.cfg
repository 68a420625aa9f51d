SPECIFICATION Spec
CONSTANTS
  s1 = s1
  s2 = s2
  t1 = t1
  t2 = t2
  c1 = c1
  d1 = d1
  d2 = d2
  k1 = k1
  k2 = k2
  f1 = f1
  Session <- MCSessions
  Tab <- MCTabs
  Card <- MCCards
  Click <- MCClicks
  Aged = {}
  Offered <- AllOffered
  Key <- MCKey
  signer <- Signer
  Folder = {f1}
  issuer_folder <- FolderOf
  Found = {k1}
  Validity = 0
  Skew = 1
  MaxAge = 2
INVARIANTS
  ResultIsConsented
  OneProofAtATime
PROPERTIES
  AcceptedInTime
SYMMETRY Symmetric
CHECK_DEADLOCK FALSE
