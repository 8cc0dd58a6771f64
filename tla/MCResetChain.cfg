SPECIFICATION ChainsAlone
CONSTANTS
  g1 = g1  g2 = g2  m1 = m1  m2 = m2
  Invokers = {g1}
  Changers = {x1}
  Attempts = 4
  MaxChanges = 3
  NoChain = NoChain
  Deleters = {g1}
  Events = {v1}
  Routes = {m1, m2}
  Capacity = 1
  BatchSize = 1
  MaxPooled = 1
  Requests = {g1, g2}
  MaxFailures = 1
  HalfOpenMaxRequests = 2
  SuccessThreshold = 1
INVARIANT NoOldChainStays
CHECK_DEADLOCK FALSE
