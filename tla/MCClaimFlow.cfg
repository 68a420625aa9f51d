SPECIFICATION Spec
CONSTANTS
  Block = 16
  LenBytes = 2
  MaxCredLen = 64
  FieldLen = 6
  Config <- MCConfig
  Header <- MCHeader
  Member <- MCMember
  Separator <- MCSeparator
  MaxClaims = 3
INVARIANTS
  DecodeAligned
  ShownIsClaim
  OutcomeIsExplained
CHECK_DEADLOCK FALSE
