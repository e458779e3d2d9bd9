SPECIFICATION FairSerialSpec
CONSTANTS
  Streams = {st1, st2}
  Sessions = {s1, s2}
  None = None
  Configs = {"unlimited", "limited"}
  MaxReconnects <- Limits1
  AttemptBound = 2
CHECK_DEADLOCK FALSE
INVARIANTS OneOwner LiveIsTracked NoWedge
PROPERTIES KilledNeverReconnects ImplementsSupervisor StoppedGetsQuiet
