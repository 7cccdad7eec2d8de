SPECIFICATION LiveSpec
CONSTANTS
  a = a
  b = b
  p1 = p1
  p2 = p2
  q1 = q1
  s1 = s1
  s2 = s2
  u1 = u1
  u2 = u2
  None = None
  Tabs = {a, b}
  Ops = {p1, p2, q1}
  TabOf <- TwoTabOf
  Threads <- TwoPages
  Stores = {s1, s2}
  StoreOf <- OwnStoreOf
  Users = {u1}
  Accounts <- SameUser
  Kinds <- EitherSignsOut
  SlowStore = TRUE
  StoreMayFail = TRUE
  RefreshOnly = FALSE
  CookieMode = FALSE
  Rejections = {"invalid_grant", "unauthenticated"}
  LostReplies = TRUE
  SettleCap = TRUE
  WipeCap = TRUE
  Overlap = FALSE
  MaxEpoch = 1
  MaxGrant = 2
  MaxLogin = 1
  MaxReload = 0
INVARIANTS
  OnlyTheStoreRevives
PROPERTIES
  SignOutCompletes
CHECK_DEADLOCK FALSE
