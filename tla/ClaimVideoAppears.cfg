\* The page of one student, who does nothing but open it.
CONSTANTS
  Viewers <- Student
  Len = 1
  MaxTakes = 1
  MaxRuns = 1
  MaxCodes = 0
  MaxMoves = 1
SPECIFICATION FairSpec
PROPERTY PageAutoRefreshes
CHECK_DEADLOCK FALSE
