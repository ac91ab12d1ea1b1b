SPECIFICATION FairSpec
CONSTANTS
  Modes = {"service", "console"}
  MaxStarts = 3
  MaxFaults = 2
INVARIANT StoppedIsGone
PROPERTY NoRunningAfterStop
PROPERTY StopsEnd
PROPERTY RemoveEnds
CHECK_DEADLOCK FALSE
