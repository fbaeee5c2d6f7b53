SPECIFICATION TestSpec
CONSTANTS
  main = main
  t1 = t1
  t2 = t2
  t3 = t3
  NULL = NULL
  m1 = m1
  ca = ca
  cb = cb
  Cells = {main, t1, t2, t3}
  Mutexes = {m1}
  Queues = {m1, ca, cb}
  Programs <- Applications
  Residue = {0}
  Main = main
  Producers = {t1}
  Consumers = {t2, t3}
  Clock = t1
  Workers = {t2, t3}
  TenWaiters = {t1, t2}
  Lockers = {t1, t2, t3}
  Lock = m1
  CondA = ca
  CondB = cb
  Loads <- TestLoads
  Word = 4
CHECK_DEADLOCK FALSE
INVARIANTS NoLostWakeup EndMarkIsTrue RoundsInStep
PROPERTIES ImplementsMonitor CallsReturn ProgramsEnd
