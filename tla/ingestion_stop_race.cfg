SPECIFICATION Spec
CONSTANTS
  Streams = {st1}
  Sessions = {s1, s2}
  None = None
  Configs = {"limited"}
  MaxReconnects <- Limits2
  AttemptBound = 3
CHECK_DEADLOCK FALSE
PROPERTIES KilledNeverReconnects
