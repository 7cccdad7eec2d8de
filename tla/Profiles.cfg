SPECIFICATION Spec
CONSTANTS
  m1 = m1
  m2 = m2
  c1 = c1
  c2 = c2
  c3 = c3
  Managers = {m1, m2}
  Calls = {c1, c2, c3}
  ManagerOf <- TwoTabs
  Users = {x, y}
  None = None
  Kinds <- TabKinds
  MaxCalls = 3
  OneAtATime = TRUE
  Reloading = {m2}
  SharedCookie = TRUE
  RefreshOnly = TRUE
  Delegating = TRUE
SYMMETRY AnyUser
INVARIANTS
  TypeOK
  ActiveIsListed
  TabsAgree
  RemovedStaysOut
CHECK_DEADLOCK FALSE
