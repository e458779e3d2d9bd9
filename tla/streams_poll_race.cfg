SPECIFICATION SerialServiceSpec
CONSTANTS
  Streams = {st1}
  Sessions = {s1, s2}
  None = None
  Configs = {camA, camB}
  RowConfigs = {camA, camB}
  MaxReconnects <- DefaultLimit
  AttemptBound = 2
  Requests = {r1, p1}
  Pollers = {p1}
CHECK_DEADLOCK FALSE
PROPERTIES UpdateOnlyStopped
