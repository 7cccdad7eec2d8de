SPECIFICATION Spec
CONSTANTS
  c1 = c1
  c2 = c2
  c3 = c3
  u1 = u1
  u2 = u2
  Users = {u1, u2}
  Groups = {g, h}
  Founded = {g}
  Calls = {c1, c2, c3}
  Kinds <- AllKinds
  Background = Background
  Flights = {f1, f2}
  None = None
  userBatchMaxSize = 2
  MaxVersion = 2
  MaxEvents = 1
SYMMETRY Alike
INVARIANTS
  TypeOK
  AnsweredFresh
  NullIsTrue
  NobodyForgotten
CHECK_DEADLOCK FALSE
