CONSTANTS
  Callers = {c1}
  Tasks = {t1}
  NoTask = NoTask
  RuntimeModes = {TRUE}
  ReconnectModes = {TRUE}
SPECIFICATION FairSpec
PROPERTIES
  ServingStopHonoured
