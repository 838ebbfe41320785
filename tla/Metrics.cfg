CONSTANTS
  Jobs = {j1}
  Workers = {w1, w2}
  Nil = Nil
  FaultKinds = {"restart", "evict", "claimError", "commitReply", "falseDown", "monitorError", "requeueError", "monitorRestart", "spopReply"}
  MaxFaults = 1
  MinUnmarked = 1
  ClaimLandsInTime = TRUE
  SpopCount = 1
SPECIFICATION MetricsSpec
INVARIANTS MetricsTypeOK NoReportLost FinalQueryComplete
PROPERTY ReportsCollected
CHECK_DEADLOCK FALSE
