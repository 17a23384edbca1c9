CONSTANTS
  i = i
  j = j
  m1 = m1
  Isolates = {i, j}
  Channels = {a}
  Messages = {m1, m2}
  NoOne = NoOne
  Node = {}
  Bytes <- MCBytes
  InitialHome <- MCAcross
  InitialStart <- MCUnstarted
  Mortal = {}
  MaxCount = 2
  MaxBytes = 2
  MaxMessageBytes = 2
  ProcessMessages = 2
  ProcessBytes = 3
  MaxDepth <- MCFlat
  MaxCalls = 4
SPECIFICATION Spec
INVARIANTS
  DispatchesToLive
CHECK_DEADLOCK FALSE
