CONSTANTS
  o1 = o1
  o2 = o2
  Tasks = {t1, t2, t3}
  Owners = {o1}
  Home <- OneHome
  Pool = pool
  NoTask = NoTask
SPECIFICATION Spec
SYMMETRY AnyTask
CHECK_DEADLOCK FALSE
INVARIANTS
  AdmissionIsExact
PROPERTIES
  ServedInOrder
