SPECIFICATION ClientSpec
CONSTANTS
  a = a
  b = b
  p1 = p1
  p2 = p2
  q1 = q1
  s1 = s1
  s2 = s2
  u1 = u1
  u2 = u2
  None = None
  Tabs = {a, b}
  Ops = {p1, p2, q1}
  TabOf <- TwoTabOf
  Threads <- OnePage
  Stores = {s1}
  StoreOf <- SharedStoreOf
  Users = {u1}
  Accounts <- SameUser
  Kinds <- StaysIn
  SlowStore = FALSE
  StoreMayFail = FALSE
  RefreshOnly = FALSE
  CookieMode = FALSE
  Rejections = {"invalid_grant"}
  LostReplies = FALSE
  SettleCap = TRUE
  WipeCap = FALSE
  Overlap = FALSE
  MaxEpoch = 1
  MaxGrant = 4
  MaxLogin = 1
  MaxReload = 0
  Parts <- EveryPart
  Listed = {1, 2, 3, 4}
  PageSize = 2
  MaxItem = 5
  MaxHidden = 1
  LeastLeft = 3
  MaxAgain = 1
  Endpoints <- EveryList
  c1 = c1
  c2 = c2
  Callers = {c1, c2}
  r1 = r1
  Reqs = {r1}
  MaxSets = 2
  MaxOuts = 1
  MaxReloads = 1
INVARIANTS
  PartsTypeOK
  RoundTrip
  WalkIsWhole
  AcceptedNeverFails
  AnswerShowsWrite
  NothingAcrossSignOut
  SharedSessionSurvives
SYMMETRY Sym
CHECK_DEADLOCK FALSE
