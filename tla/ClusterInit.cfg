CONSTANTS
  Instances = {i1, i2, i3, i4, i5, i6, i7, i8}
  Others = {o1}
  NodeCounts = {1, 2}
  MaxRuns = 2
  MaxFaults = 2
SPECIFICATION FairSpec
INVARIANTS InitTypeOK ReadyMeansMounted MismatchMeansLostNode TestedDnsIsLive
PROPERTIES DnsTestEnds
