SPECIFICATION LiveSpec
CONSTANTS
  c1 = c1
  c2 = c2
  Posts = {x}
  Calls = {c1, c2}
  Engine = Engine
  Flights = {f1, f2}
  Kinds <- EngageKinds
  EmptyLists = FALSE
  MaxRev = 2
  MaxEng = 1
  MaxTimers = 2
  HashOf <- SeesAll
INVARIANTS
  NobodyForgotten
PROPERTIES
  CallsSettle
CHECK_DEADLOCK FALSE
