CONSTANTS
  Nodes = {1, 2, 3}
  Hash <- EqualHash
  Peers <- LinePeers
  GoodEnd <- MCGoodEnd
  BadIntervals <- MCBadIntervals
  MaxAttempts = 2
  MaxFaults = 1
SPECIFICATION FairBenchSpec
INVARIANTS BenchTypeOK ImbalanceMeansMissingPeer PairCreditedOnce OnlyFinishedTests RttOrdered LeftoversAreFaults
PROPERTY BenchmarkEnds
