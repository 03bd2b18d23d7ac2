CONSTANTS
  Tasks = {t1}
  Workers = {w1}
  Owner = owner
  NoTask = NoTask
SPECIFICATION Spec
CHECK_DEADLOCK FALSE
INVARIANT StoppedOwnerCancels
