CONSTANTS
  Tasks = {t1, t2}
  Workers = {w1, w2}
  Owner = owner
  NoTask = NoTask
SPECIFICATION FairSpec
CHECK_DEADLOCK FALSE
INVARIANTS
  TypeOK
  RunnableOwnership
  RetiredIsQuiescent
  SettledBeforeRetired
PROPERTIES
  ImplementsContract
  EveryTaskRetires
