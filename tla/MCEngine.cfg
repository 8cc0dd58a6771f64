SPECIFICATION EngineSpec
CONSTANTS
  g1 = g1  g2 = g2  m1 = m1  m2 = m2
  Invokers = {g1, g2}
  Changers = {x1}
  Attempts = 2
  MaxChanges = 2
  NoChain = NoChain
  Deleters = {g1, g2}
  Events = {v1}
  Routes = {m1, m2}
  Capacity = 1
  BatchSize = 1
  MaxPooled = 1
  Requests = {g1, g2}
  MaxFailures = 1
  HalfOpenMaxRequests = 2
  SuccessThreshold = 1
SYMMETRY Symmetry
INVARIANTS
  RestingCacheCurrent DeletionsNotLost RegistrationsNotLost ShutdownQuiet ShutdownRemovesMarked
  ProbesBounded StatesLeavable
CHECK_DEADLOCK FALSE
