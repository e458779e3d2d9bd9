SPECIFICATION SerialServiceSpec
CONSTANTS
  Streams = {st1}
  Sessions = {s1, s2}
  None = None
  Configs = {camA}
  RowConfigs = {camA}
  MaxReconnects <- DefaultLimit
  AttemptBound = 2
  Requests = {r1, p1}
  Pollers = {p1}
SYMMETRY SessionSymmetry
CHECK_DEADLOCK FALSE
INVARIANTS ServiceTypeOK RemovedIsQuiet
PROPERTIES UsesIngestionSerially
