CONSTANTS
  Callers = {c1, c2}
  Task = Task
  Streams = {s1}
  Capacity = 2
  MaxSent = 5
SPECIFICATION FairSpec
INVARIANTS
  TypeOK
  FollowerAgrees
PROPERTIES
  KeptUpStreamEnds
  ReleasedStreamsEnd
CHECK_DEADLOCK FALSE
