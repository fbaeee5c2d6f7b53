SPECIFICATION Spec
CONSTANTS
  t1 = t1
  t2 = t2
  t3 = t3
  t4 = t4
  t5 = t5
  m1 = m1
  b1 = b1
  NULL = NULL
  Cells = {t1, t2, t3}
  Mutexes = {m1}
  Queues = {m1, b1}
  Barrier = b1
  Team = {t1, t2, t3}
  Lockers = {t1, t2, t3}
  Rounds = 1
CHECK_DEADLOCK FALSE
INVARIANT OneOwner
