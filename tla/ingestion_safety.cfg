SPECIFICATION FairSpec
CONSTANTS
  Streams = {st1}
  Sessions = {s1, s2, s3}
  None = None
  Configs = {"unlimited", "limited"}
  MaxReconnects <- Limits1
  AttemptBound = 2
CHECK_DEADLOCK FALSE
INVARIANTS TypeOK MapsAgree RetryBudget ReconnectingIsArmed
PROPERTIES OnlyStartRegisters RetriesEnd
