SPECIFICATION ManagerSpec
CONSTANTS
  Comps = {c1, c2}
  Starts = {s1}
  Stops = {k1}
INVARIANT StopAfterRun
CHECK_DEADLOCK FALSE
