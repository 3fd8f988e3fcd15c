CONSTANTS
  r1 = r1
  r2 = r2
  s1 = s1
  Calls = {r1, r2, s1}
  Subscriptions = {s1}
  Lenient = {r2}
  Sizes <- MCSizes
  QueueSize = 2
  MaxPingTimeouts = 2
SPECIFICATION FairSpec
INVARIANTS
  TypeOK
  HandedInOrder
  SaturatedNotSent
  RepliesAligned
PROPERTIES
  CallReturns
  SilentSessionEnds
  QueueDrains
