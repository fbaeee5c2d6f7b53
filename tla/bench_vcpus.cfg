SPECIFICATION FairSpec
CONSTANTS
  N = 3
  B = 2
  Vcpus <- ThreeSizes
  Steady = {1}
  Tempfs = {1}
  Busyloops <- NoBusyloop
  Frail = {2}
CHECK_DEADLOCK FALSE
INVARIANT ReportIsTrue
