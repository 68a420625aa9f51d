SPECIFICATION FairSpec
CONSTANTS
  k1 = k1
  u1 = u1
  a1 = a1
  a2 = a2
  Card <- MCOneCard
  Uid <- MCOneUid
  Click <- MCClicks
  MaxStops = 1
  MaxOpens = 2
INVARIANTS
  CardNotLost
  SettledStaysGone
  PreparedWasReady
  PreparedHasData
  BackgroundIsCurrent
PROPERTY PreparationEnds
CHECK_DEADLOCK FALSE
