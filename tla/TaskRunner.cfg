SPECIFICATION Spec
CONSTANTS
  Workers = {w1, w2}
  Clients = {c1, c2}
  Tasks = {t1, t2, t3}
  EmptyTasks = {t3}
INVARIANTS
  NeverEmpty
  SeenInOrder
PROPERTY AllSeen
CHECK_DEADLOCK FALSE
