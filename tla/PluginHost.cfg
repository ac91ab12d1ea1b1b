SPECIFICATION FairSpec
CONSTANTS
  empty = empty
  one = one
  two = two
  Settings = {empty, one, two}
  Sendable = {one, two}
  MaxCommands = 3
  MaxCalls = 2
INVARIANT SettingsInForce
INVARIANT WakeupPending
PROPERTY ImplementsSender
PROPERTY QuietWhenFinished
PROPERTY CallsTakeEffect
CHECK_DEADLOCK FALSE
