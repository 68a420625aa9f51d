SPECIFICATION Spec
CONSTANTS
  s1 = s1
  s2 = s2
  t1 = t1
  t2 = t2
  c1 = c1
  d1 = d1
  d2 = d2
  k1 = k1
  k2 = k2
  f1 = f1
  Session <- MCSessions
  Tab <- MCTab
  Card <- MCCards
  Click <- MCClicks
  Aged <- MCCards
  Offered <- OneOffered
  Key <- MCKeys
  signer <- Signer
  Folder = {f1}
  issuer_folder <- FolderOf
  Found = {"none"}
  Validity = 1
  Skew <- Behind
  MaxAge = 1
PROPERTIES
  RefusalHasCause
CHECK_DEADLOCK FALSE
SYMMETRY SymmetricClicks
