CONSTANTS
  v1 = v1 v2 = v2
  Viewers <- OneViewer
  Items <- TwoItems
  MaxAnswers = 1
  HistoryLimit = 2
  MaxFaults = 2
SPECIFICATION FairSpec
INVARIANTS TypeOK ListIsWhole
PROPERTIES EveryoneSees
CHECK_DEADLOCK FALSE
