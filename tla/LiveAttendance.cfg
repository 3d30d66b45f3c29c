CONSTANTS
  s1 = s1 s2 = s2 x1 = x1 x2 = x2
  Sockets <- TwoSockets
  Sessions <- TwoSessions
  Row <- OneMoves
  MaxFaults = 2
SPECIFICATION FairSpec
INVARIANTS TypeOK OpenRowsAreInHand StintsKeepTheirEnd OneStintAtATime
PROPERTIES RowsGetClosed
CHECK_DEADLOCK FALSE
