SPECIFICATION FairSpec
CONSTANTS
  c1 = c1
  c2 = c2
  j1 = j1
  j2 = j2
  j3 = j3
  j4 = j4
  w1 = w1
  w2 = w2
  Clients = {c1, c2}
  Jobs = {j1, j2, j3}
  Workers = {w1, w2}
  Free = Free
  Idle = Idle
  MustRun <- MCMustRun
  QueuedBytes <- MCQueuedBytes
  WorkingBytes <- MCWorkingBytes
  Concurrency <- MCConcurrency
  QueueCapacity <- MCCapacity
  MaxQueued = 2
  MaxQueueBytes = 3
  MaxWorkingBytes = 3
INVARIANTS ReadyExact NoStall Accounting Lifetime
PROPERTIES ImplementsContract JobsFinish
