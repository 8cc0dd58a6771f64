SPECIFICATION Spec
CONSTANTS
  m1 = m1  m2 = m2  c1 = c1  c2 = c2  c3 = c3
  Nil = Nil
  Cleaner = Cleaner
  Matchers = {m1, m2}
  ShardCount = 2
  ShardOf <- TwoShards
  Timed = {m1}
  Calls = {c1, c2}
  WatermarkHigh = 2
  WatermarkLow = 1
  MaxUse = 1
  Kinds = {"Reprioritise"}
INVARIANT EveryMatcherRouted
CHECK_DEADLOCK FALSE
