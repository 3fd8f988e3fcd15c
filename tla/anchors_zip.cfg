CONSTANTS
  Syncs = {s1}
  t1 = t1
  t2 = t2
  Txs = {t1, t2}
  Heights = {1, 2}
  MaxFork = 1
  c1 = c1
  c2 = c2
  c3 = c3
  c4 = c4
  o1 = o1
  o2 = o2
  o3 = o3
  Leaves <- MCLeaves
  BatchSize = 2
  MaxCalls = 2
  None = None
SPECIFICATION Spec
INVARIANTS
  HeadersAligned
CHECK_DEADLOCK FALSE
