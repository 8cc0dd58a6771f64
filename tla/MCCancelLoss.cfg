SPECIFICATION ScopeSafety
CONSTANTS
  Subs = {b1}
  Pubs = {p1}
  Nested = {}
  Cancellable = {}
  PoolSize = 1
  Scopes = {root, kid}
  Root = root
  DisposeHooks = {h1, h2}
  Disposers = {d1, d2}
  Limited = {d1}
  Nothing = Nothing
INVARIANT CancelIsNotLoss
CHECK_DEADLOCK FALSE
