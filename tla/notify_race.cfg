CONSTANTS
  Callers = {c1}
  Task = Task
  Streams = {s1}
  Capacity = 4
  MaxSent = 4
SPECIFICATION FairSpec
PROPERTIES
  ShutdownEndsStreams
CHECK_DEADLOCK FALSE
