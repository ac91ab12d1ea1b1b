SPECIFICATION FairSpec
CONSTANTS
  t1 = t1
  t2 = t2
  Threads = {t1, t2}
  MaxMsgs = 2
  MaxSwitches = 3
  FileSwitches = {TRUE, FALSE}
PROPERTY ExitServed
CHECK_DEADLOCK FALSE
