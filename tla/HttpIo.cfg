SPECIFICATION FairSpec
CONSTANTS
  NSlots = 2
  q1 = q1
  q2 = q2
  q3 = q3
  r1 = r1
  r2 = r2
  r3 = r3
  IoRequests = {q1, q2, q3}
  IoReplies = {r1, r2, r3}
  NoReply = NoReply
  Kinds = {"api", "file", "big"}
  MaxRequests = 2
  MaxFaults = 1
INVARIANT Owned
INVARIANT NothingLeaks
INVARIANT AnsweredOnce
INVARIANT QuietWhenGone
PROPERTY AllEnds
CHECK_DEADLOCK FALSE
