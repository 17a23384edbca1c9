CONSTANTS
  i = i
  j = j
  m1 = m1
  Isolates = {i, j}
  Channels = {a}
  Messages = {m1, m2}
  NoOne = NoOne
  Node = {a}
  Bytes <- MCBytes
  InitialHome <- MCAcross
  InitialStart <- MCUnstarted
  Mortal = {i, j}
  MaxCount = 2
  MaxBytes = 2
  MaxMessageBytes = 2
  ProcessMessages = 2
  ProcessBytes = 3
  MaxDepth <- MCFlat
  MaxCalls = 4
SPECIFICATION FairSpec
INVARIANTS
  TypeOK
  ReadyExact
  CloseIsLast
PROPERTIES
  Dispatched
CHECK_DEADLOCK FALSE
