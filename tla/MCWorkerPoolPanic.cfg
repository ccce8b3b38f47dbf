\* Two calls of Add, one worker.
SPECIFICATION Spec
CONSTANTS
  Tasks = {t1, t2}
  Workers = {w1}
  QueueSize = 1
  None = None
SYMMETRY Symmetry
INVARIANTS
  NoPanic
CHECK_DEADLOCK FALSE
