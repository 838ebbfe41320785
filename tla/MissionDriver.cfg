CONSTANTS
  Jobs = {j1}
  Workers = {w1, w2, w3}
  Nil = Nil
  FaultKinds = {"commitReply", "monitorError", "monitorRestart", "statusLost", "deleteError"}
  MaxFaults = 2
  MinUnmarked = 1
  ClaimLandsInTime = TRUE
  MaxRetiredPerPass = 2
  StatusTimeoutPolls = 2
  StallPolls = 2
SPECIFICATION FairSpec
INVARIANTS TypeOK RetireRespectsOwnership
PROPERTIES CompletesOnlyWhenDone MissionEnds
