CONSTANTS
  Callers = {c1}
  Tasks = {t1, t2}
  NoTask = NoTask
  RuntimeModes = {FALSE}
  ReconnectModes = {TRUE}
SPECIFICATION Spec
INVARIANTS
  AttemptPromise
