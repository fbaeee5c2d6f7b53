SPECIFICATION Spec
CONSTANTS
  main = main
  t1 = t1
  t2 = t2
  NULL = NULL
  Threads = {main, t1, t2}
  Main = main
  Kinds = {"lock"}
  KeysMax = 2
  Calls <- FewCalls
CHECK_DEADLOCK FALSE
INVARIANTS
  TypeOK
  ListSound
  EndDated
  RowsExact
  EverybodyReported
PROPERTY
  EndedKept
