SPECIFICATION ConversationsSpec
CONSTANTS
  m1 = m1  m2 = m2  c1 = c1  c2 = c2  c3 = c3
  Nil = Nil
  Cleaner = Cleaner
  Matchers = {m1, m2}
  ShardCount = 2
  ShardOf <- TwoShards
  Timed = {m1}
  Calls = {c1, c2, c3}
  WatermarkHigh = 2
  WatermarkLow = 1
  MaxUse = 1
  Kinds <- MostKinds
  k1 = k1  k2 = k2  u1 = u1  u2 = u2
  Callers = {k1, k2}
  Sids = {s1}
  Users = {u1, u2}
  UserOf <- OnePerCall
  Fsms = {"survey", "dialogue"}
  Initial <- MachineInitial
  Events <- MachineEvents
  EndState = ""
  AnyState = "*"
  Expiring = {"survey"}
  Refreshing = {"survey"}
  OwnerScoped = {"survey"}
  Timeout = 1
  MaxNow = 1
  MaxMade = 2
  NoCall = NoCall
  NoSession = NoSession
  NoUser = NoUser
  Untold = Untold
  Subs = {b1}
  Pubs = {p1}
  Nested = {}
  Cancellable = {}
  PoolSize = 1
  Scopes = {root, kid}
  Root = root
  DisposeHooks = {h1, h2}
  Disposers = {d1, d2}
  Limited = {d1}
  Nothing = Nothing
SYMMETRY Symmetry
INVARIANTS
  NoGhost NoneForgotten RoutedOnce CountExact NoZombie
  EndedStaysEnded AnswersHold
  HooksOnce NothingForgotten ChildrenFirst NoneLeftOnBus HandlersOver
PROPERTY ImplementsProtocol
CHECK_DEADLOCK FALSE
