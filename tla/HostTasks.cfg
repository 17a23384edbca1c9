SPECIFICATION LiveSpec
CONSTANTS
  d1 = d1
  d2 = d2
  d3 = d3
  Data = {d1, d2}
  NoData = NoData
  InitialCapacity = 1
  MaxCapacity = 2
  MaxGeneration = 2
  MaxPosts = 2
INVARIANTS TypeOK HandlesExact TerminalIsLast PayloadOnce
PROPERTIES PayloadsSettle
