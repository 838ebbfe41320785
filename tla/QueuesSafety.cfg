CONSTANTS
  Jobs = {j1, j2}
  Workers = {w1, w2}
  Nil = Nil
  FaultKinds = {"restart", "evict", "commitReply", "monitorError"}
  MaxFaults = 1
  MinUnmarked = 0
  ClaimLandsInTime = TRUE
SYMMETRY Symmetry
VIEW WithoutFigures
SPECIFICATION QueueSpec
INVARIANTS QueueTypeOK NoJobLost NoDuplicateEntry CleanSnapshotSound RetirableIsQuiet
PROPERTIES MarkingKeepsEnough ImplementsWorkQueue
