SPECIFICATION Spec
CONSTANTS
  t1 = t1
  t2 = t2
  t3 = t3
  t4 = t4
  Tasks = {t1, t2}
  Size = 1
  MaxQueuedTasks = 1
  Unsendable = {t2}
  None = None
INVARIANT ActiveIsACount
