SPECIFICATION PlaySpec
CONSTANTS
  c1 = c1
  c2 = c2
  NoCard = NoCard
  MaxCommands = 2
  NBoards = 2
  Cards = {c1, c2}
  Targets = {c1}
  Logos = {1, 3}
  Buttons = {2}
  Vectors = {{1, 3}}
  MaxPresses = 1
  MaxTroubles = 1
PROPERTY RightCard
PROPERTY InCommandOrder
INVARIANT ActiveLogoTrue
PROPERTY LastOrderListed
CHECK_DEADLOCK FALSE
