CONSTANTS
  NumMissions = 3
  SignalAllowed = TRUE
SPECIFICATION CleanupSpec
INVARIANTS CleanupTypeOK LeakOnlyMidCleanup
