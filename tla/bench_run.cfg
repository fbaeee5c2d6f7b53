SPECIFICATION BenchSpec
CONSTANTS
  N = 2
  B = 2
  Vcpus <- TwoSizes
  Steady = {1}
  Tempfs = {1}
  Busyloops <- TwoThreads
  Frail = {2}
  AllCores = {0, 1}
  Refused = {2}
CHECK_DEADLOCK FALSE
INVARIANTS
  BenchTypeOK
  MeasuredTogether
  OneRunAtATime
  QuietWhenCollected
  FirstRunUnbroken
  KeptBusy
PROPERTY
  BenchEnds
