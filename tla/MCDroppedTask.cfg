SPECIFICATION FairSpec
CONSTANTS
  a = a  b = b
  t1 = t1  t2 = t2  t3 = t3  t4 = t4
  q1 = q1  q2 = q2  q3 = q3
  k1 = k1
  Nil = Nil
  Chats = {a}
  Tasks = {t1, t2}
  ChatOf <- TwoOfOne
  Queues = {q1, q2}
  QueueChat <- QueuesOfTwo
  QueueSize = 2
  MaxInflight = 1
  Closers = {k1}
PROPERTY DroppedTaskAnswered
CHECK_DEADLOCK FALSE
