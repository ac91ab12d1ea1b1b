SPECIFICATION FairSpec
CONSTANTS
  a = a
  b = b
  c = c
  Nobody = Nobody
  Inputs = {a, b, c}
  Audible = {a, b}
  MaxMoves = 2
  MaxFaults = 1
INVARIANT MonitorsRight
INVARIANT QuietWhenDone
PROPERTY LinkEnds
CHECK_DEADLOCK FALSE
