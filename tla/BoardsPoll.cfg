SPECIFICATION FairSpec
CONSTANTS
  NBoards = 2
  Ms = 2
  MaxTime = 4
  MaxUpdates = 2
  MaxFaults = 1
  MaxReboots = 1
INVARIANT SnapshotCovers
INVARIANT OnlyTheSameMs
PROPERTY EventuallyShown
