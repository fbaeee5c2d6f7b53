CONSTANTS
  c1 = c1
  c2 = c2
  c3 = c3
  c4 = c4
  q1 = q1
  q2 = q2
  q3 = q3
  q4 = q4
  NULL = NULL
  Cells = {c1, c2, c3, c4}
  Queues = {q1, q2, q3, q4}
  Conds = {q1, q2}
  Timed = {q2}
SYMMETRY Symmetry
SPECIFICATION Spec
INVARIANTS
  ListsFaithful
  WaitersReachable
