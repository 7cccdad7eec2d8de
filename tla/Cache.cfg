SPECIFICATION Spec
CONSTANTS
  a = a
  b = b
  k1 = k1
  k2 = k2
  Tabs = {a, b}
  Tasks = {k1, k2}
  TabOf <- TwoTabOf
  Posts = {x, y}
  Routes = {r1}
  Kinds <- AnyKinds
  Leavers = {a}
  Capacity = 1
INVARIANTS
  TypeOK
  WipeIsFinal
