CONSTANTS
  t1 = t1
  t2 = t2
  t3 = t3
  Tasks <- MCTasks
SPECIFICATION Spec
INVARIANT SingleOwner
PROPERTY NoLostWakeup
CHECK_DEADLOCK FALSE
