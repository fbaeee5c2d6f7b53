SPECIFICATION FairSpec
CONSTANTS
  t1 = t1
  t2 = t2
  t3 = t3
  m1 = m1
  m2 = m2
  Threads = {t1, t2, t3}
  Mutexes = {m1, m2}
  Rank <- TwoRanks
INVARIANTS
  TypeOK
  OneOwner
  CellsSound
PROPERTIES
  FirstComeFirstServed
  ImplementsMutex
  LockReturns
