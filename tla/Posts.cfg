SPECIFICATION Spec
CONSTANTS
  c1 = c1
  c2 = c2
  Posts = {x}
  Calls = {c1, c2}
  Engine = Engine
  Flights = {f1, f2}
  Kinds <- EitherKinds
  EmptyLists = FALSE
  MaxRev = 2
  MaxEng = 2
  MaxTimers = 2
  HashOf <- SeesReactions
INVARIANTS
  TypeOK
  EngagementAttended
PROPERTIES
  AnsweredByLaterRequest
CHECK_DEADLOCK FALSE
