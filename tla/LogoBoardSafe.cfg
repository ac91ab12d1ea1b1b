SPECIFICATION Spec
CONSTANTS
  c1 = c1
  c2 = c2
  NoCard = NoCard
  Cards = {c1, c2}
  First <- FirstIds
  Second <- SecondIds
  Sel = {1}
  Logos = {1}
  Replies = {"full", "partial", "junk"}
  MaxCalls = 2
  MaxMoves = 2
  MaxFaults = 1
  MaxUpdates = 1
INVARIANT NoStaleCommand
INVARIANT NeverCrashes
INVARIANT Coherent
INVARIANT CommandsAddressed
PROPERTY IdentityStable
CHECK_DEADLOCK FALSE
PROPERTY ImplementsService
