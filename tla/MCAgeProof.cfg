SPECIFICATION Spec
CONSTANTS
  Age <- MCAge
  Birth <- MCBirth
  FirstDay <- MCFirstDay
  LastYear <- MCLastYear
INVARIANTS
  CenturiesAddTwoDays
  CutoffIsBirthday
PROPERTY HonestProofVerifies
CHECK_DEADLOCK FALSE
