CONSTANTS
  Nodes = {1, 2, 3}
  Hash <- NextHash
  Peers <- SortedPeers
  GoodEnd <- MCGoodEnd
  BadIntervals <- MCBadIntervals
  MaxAttempts = 1
  MaxFaults = 0
SPECIFICATION BenchSpec
INVARIANT CreditedToTestedPeer
