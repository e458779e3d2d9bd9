SPECIFICATION PolledServiceSpec
CONSTANTS
  Streams = {st1}
  Sessions = {s1}
  None = None
  Configs = {camA}
  RowConfigs = {camA}
  MaxReconnects <- DefaultLimit
  AttemptBound = 2
  Requests = {r1, p1}
  Pollers = {p1}
CHECK_DEADLOCK FALSE
PROPERTIES UpdatesUnlock
