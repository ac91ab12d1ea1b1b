SPECIFICATION FairSpec
CONSTANTS
  MaxUp = 2
  MaxFragments = 2
  MaxControls = 1
  MaxSends = 1
  MaxFaults = 1
INVARIANT CloseIsLast
PROPERTY ImplementsChannels
PROPERTY Progress
CHECK_DEADLOCK FALSE
