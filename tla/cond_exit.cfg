SPECIFICATION Spec
CONSTANTS
  t1 = t1
  t2 = t2
  t3 = t3
  m1 = m1
  m2 = m2
  c1 = c1
  NULL = NULL
  Cells = {t1, t2, t3}
  Mutexes = {m1}
  Queues = {m1, c1}
  Programs <- Broadcasted
  Residue = {0, 1}
CHECK_DEADLOCK FALSE
INVARIANT NoWaiterForgotten
