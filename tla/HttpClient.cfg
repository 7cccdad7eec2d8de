SPECIFICATION LiveSpec
CONSTANTS
  Reqs = {r1, r2, r3}
  Users = {u1, u2}
  MidCascade = FALSE
  MaxGen = 2
  None = None
INVARIANTS
  TypeOK
  OneCascade
  LatchNeedsVerdict
PROPERTIES
  ReplaySameUser
  RequestsSettle
  SharesOneFlight
