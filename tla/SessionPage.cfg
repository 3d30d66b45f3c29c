\* The second take is the one after a reset.
CONSTANTS
  Viewers <- BothRoles
  Len = 3
  MaxTakes = 2
  MaxRuns = 1
  MaxCodes = 1
  MaxMoves = 3
SPECIFICATION FairSpec
INVARIANTS TypeOK SavedSummaryShows
PROPERTIES VideoStays PositionHeld PageCatchesUp
CHECK_DEADLOCK FALSE
