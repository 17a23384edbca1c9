CONSTANTS
  i = i
  j = j
  m1 = m1
  Isolates = {i, j}
  Channels = {a, b}
  Messages = {m1, m2}
  NoOne = NoOne
  Node = {b}
  Bytes <- MCEqual
  InitialHome <- MCAcross
  InitialStart <- MCStarted
  Mortal = {i, j}
  MaxCount = 2
  MaxBytes = 1
  MaxMessageBytes = 1
  ProcessMessages = 2
  ProcessBytes = 2
  MaxDepth <- MCNested
  MaxCalls = 3
SPECIFICATION Spec
SYMMETRY MessageSymmetry
INVARIANTS
  MessageOnce
  QuotaExact
  RefsExact
  LeftoversAreCycles
PROPERTIES
  TransferKept
CHECK_DEADLOCK FALSE
