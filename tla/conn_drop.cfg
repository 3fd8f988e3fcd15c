CONSTANTS
  Callers = {c1}
  Tasks = {t1}
  NoTask = NoTask
  RuntimeModes = {FALSE}
  ReconnectModes = {TRUE}
SPECIFICATION FairSpec
PROPERTIES
  DropStopsTask
