CONSTANTS
  Callers = {c1, c2}
  Tasks = {t1, t2}
  NoTask = NoTask
  RuntimeModes = {TRUE, FALSE}
  ReconnectModes = {TRUE, FALSE}
SPECIFICATION FairSpec
INVARIANTS
  TypeOK
  OneLoop
  LockWaitShort
  StatusHasTask
  KeepAlive
  ConnectAgain
PROPERTIES
  StopHonouredOnOneThread
  TerminationTaken
  SpawnedRuns
  ImplementsLoop
