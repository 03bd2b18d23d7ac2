CONSTANTS
  o1 = o1
  o2 = o2
  Tasks = {t1, t2}
  Owners = {o1, o2}
  Home <- EachItsHome
  Pool = pool
  NoTask = NoTask
SPECIFICATION FairSpec
CHECK_DEADLOCK FALSE
INVARIANTS
  TypeOK
  RetiredIsQuiescent
  SettledBeforeRetired
PROPERTIES
  ImplementsContract
  EveryTaskRetires
