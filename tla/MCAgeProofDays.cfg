SPECIFICATION Spec
CONSTANTS
  Age <- MCRetired
  Birth <- MCBirth
  FirstDay <- MCFirstDay2025
  LastYear <- MCLastYear2025
INVARIANT AgeDaysAreElapsed
CHECK_DEADLOCK FALSE
