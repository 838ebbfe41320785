CONSTANTS
  Jobs = {j1}
  Workers = {w1, w2}
  Nil = Nil
  FaultKinds = {}
  MaxFaults = 0
  MinUnmarked = 1
  ClaimLandsInTime = TRUE
  MaxRetiredPerPass = 1
  StatusTimeoutPolls = 2
  StallPolls = 2
SYMMETRY Symmetry
SPECIFICATION Spec
INVARIANT CompleteMeansNoFailure
