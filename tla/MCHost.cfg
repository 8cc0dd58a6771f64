SPECIFICATION HostSpec
CONSTANTS
  Parts = {"dispatcher", "manager"}
  a = a  b = b
  t1 = t1  t2 = t2  t3 = t3  t4 = t4
  q1 = q1  q2 = q2  q3 = q3
  k1 = k1
  Nil = Nil
  Chats = {a, b}
  Tasks = {t1, t2, t3, t4}
  ChatOf <- ThreeAndOne
  Queues = {q1, q2, q3}
  QueueChat <- QueuesOfThreeAndOne
  QueueSize = 2
  MaxInflight = 1
  Closers = {k1}
  Comps = {c1, c2}
  Starts = {s1, s2}
  Stops = {e1, e2}
  Subs = {b1}
  Pubs = {p1}
  Nested = {}
  Cancellable = {}
  PoolSize = 1
  Scopes = {root, kid}
  Root = root
  DisposeHooks = {h1}
  Disposers = {d1, d2}
  Limited = {d1}
  Nothing = Nothing
SYMMETRY Symmetry
INVARIANTS
  NoStrandedQueue
  NoTaskLostOrRunTwice ShutdownComplete
  InitPaired OldRunsCancelled CleanStopAfterRun StatusNotStale
PROPERTIES
  ImplementsChatFifo
CHECK_DEADLOCK FALSE
