SPECIFICATION FairSpec
CONSTANTS
  c1 = c1
  c2 = c2
  NoCard = NoCard
  Cards = {c1}
  First <- OneFirst
  Second <- OneSecond
  Sel = {1}
  Logos = {1}
  Replies = {"full", "partial"}
  MaxCalls = 1
  MaxMoves = 1
  MaxFaults = 2
  MaxUpdates = 1
PROPERTY StopEnds
PROPERTY EventuallyServes
CHECK_DEADLOCK FALSE
