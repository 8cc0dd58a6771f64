SPECIFICATION PoolSpec
CONSTANTS
  Nil = Nil
  Tasks = {t1, t2, t3}
  Drainers = {d1, d2}
  Waiters = {a1}
  MaxConcurrency = 1
  QueueSize = 1
  Sleepers = {w1, w2}
  Chans = {c1, c2, c3, c4}
  Deltas <- SmallDeltas
  MaxCount = 3
  NoChan = NoChan
  Requests = {r1}
  MaxFailures = 2
  HalfOpenMaxRequests = 2
  SuccessThreshold = 2
  Subs = {u1, u2}
  Pubs = {p1, n1}
  Nested = {n1}
  Cancellable = {n1}
  PoolSize = 1
INVARIANTS
  QueuedTaskHasConsumer NoTaskLostOrRunTwice DrainComplete
  NoLostWakeup
PROPERTIES
  AcceptedTaskRuns WaitReturns AdmitsAgain PublishReturns
CHECK_DEADLOCK FALSE
