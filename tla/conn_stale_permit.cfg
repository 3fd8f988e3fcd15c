CONSTANTS
  Callers = {c1}
  Tasks = {t1}
  NoTask = NoTask
  RuntimeModes = {FALSE}
  ReconnectModes = {FALSE}
SPECIFICATION Spec
PROPERTIES
  OnlyStopsTerminate
