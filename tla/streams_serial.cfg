SPECIFICATION SerialServiceSpec
CONSTANTS
  Streams = {st1}
  Sessions = {s1, s2}
  None = None
  Configs = {camA, camB}
  RowConfigs = {camA, camB}
  MaxReconnects <- DefaultLimit
  AttemptBound = 2
  Requests = {r1}
  Pollers = {}
CHECK_DEADLOCK FALSE
INVARIANTS ConfigInForce
