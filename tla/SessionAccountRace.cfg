SPECIFICATION Spec
CONSTANTS
  a = a
  b = b
  p1 = p1
  p2 = p2
  q1 = q1
  s1 = s1
  s2 = s2
  u1 = u1
  u2 = u2
  None = None
  Tabs = {a}
  Ops = {p1, p2}
  TabOf <- OneTabOf
  Threads <- OneThread
  Stores = {s1}
  StoreOf <- OneStoreOf
  Users = {u1, u2}
  Accounts <- AnyAccount
  Kinds <- SignsIn
  SlowStore = FALSE
  StoreMayFail = FALSE
  RefreshOnly = FALSE
  CookieMode = FALSE
  Rejections = {"invalid_grant", "unauthenticated"}
  LostReplies = FALSE
  SettleCap = TRUE
  WipeCap = FALSE
  Overlap = FALSE
  MaxEpoch = 1
  MaxGrant = 3
  MaxLogin = 2
  MaxReload = 0
PROPERTIES
  RefreshKeepsAccount
CHECK_DEADLOCK FALSE
