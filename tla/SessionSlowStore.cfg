SPECIFICATION Spec
CONSTANTS
  a = a
  b = b
  p1 = p1
  p2 = p2
  q1 = q1
  s1 = s1
  s2 = s2
  u1 = u1
  u2 = u2
  None = None
  Tabs = {a}
  Ops = {p1, p2}
  TabOf <- OneTabOf
  Threads <- OneThread
  Stores = {s1}
  StoreOf <- OneStoreOf
  Users = {u1}
  Accounts <- OneAccount
  Kinds <- SignsOut
  SlowStore = TRUE
  StoreMayFail = FALSE
  RefreshOnly = FALSE
  CookieMode = FALSE
  Rejections = {"invalid_grant", "unauthenticated"}
  LostReplies = FALSE
  SettleCap = TRUE
  WipeCap = TRUE
  Overlap = FALSE
  MaxEpoch = 1
  MaxGrant = 2
  MaxLogin = 1
  MaxReload = 0
INVARIANTS
  NoResurrection
CHECK_DEADLOCK FALSE
