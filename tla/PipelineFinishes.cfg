CONSTANTS
  w1 = w1 w2 = w2 r1 = r1 r2 = r2 q1 = q1 q2 = q2 q3 = q3 s1 = s1 s2 = s2
  NoWorker = NoWorker
  NoSession = NoSession
  Workers <- OneWorker
  Runs <- OneRun
  Requests <- TwoRequests
  Tasks <- TwoTasks
  Sessions <- OneSession
  MaxAttempts = 2
  RequestKinds = {"complete", "retry"}
  Faults = {"crash", "cleanup", "restart"}
  MaxFaults = 1
SPECIFICATION FairSpec
CHECK_DEADLOCK FALSE
PROPERTIES TasksFinish StagesRecover
