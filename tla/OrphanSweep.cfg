CONSTANTS
  anchor = anchor
  svc = svc
  s1 = s1
  s2 = s2
  route = route
  tuneMap = tuneMap
  tuneSet = tuneSet
  job = job
  worker = worker
  monitor = monitor
  secret = secret
  Anchor = anchor
  Early = {svc}
  Sets = {s1, s2}
  Proxy = {route}
  TuneMap = tuneMap
  TuneSet = tuneSet
  Jobs = {job}
  Release = {worker, monitor, secret}
  KindOf <- MCKindOf
  MaxErrors = 2
  MayKill = TRUE
  MaySignal = TRUE
SPECIFICATION SweepSpec
INVARIANTS TypeOK LeftoversLoseAnchor SweepLeavesOnlyFailures
