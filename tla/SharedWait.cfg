SPECIFICATION LiveSpec
CONSTANTS
  main = main
  w1 = w1
  w2 = w2
  r1 = r1
  r2 = r2
  o1 = o1
  o2 = o2
  Agents = {main, w1}
  Interruptible = {w1}
  Records = {r1}
  Owner <- MCOwner
  Offsets = {o1}
  Values = {0, 1}
  Free = Free
INVARIANTS TypeOK NoLostWakeup NoMissedStore OutcomesAgree RefsExact
PROPERTIES FifoNotify WaitsEnd
