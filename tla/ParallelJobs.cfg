CONSTANTS
  Commands = {c1, c2, c3}
  Parallelism = 2
  HttpRetries = 2
  MaxFailed = 1
  BackoffLimit = 1
  PodAges = {0, 59, 150}
  MayMeddle = TRUE
SPECIFICATION FairJobsSpec
INVARIANTS JobsTypeOK SuccessMissesOnlyErrors ActiveWithinQuota LostJobMeansMeddled
PROPERTY LoopEnds
