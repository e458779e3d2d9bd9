SPECIFICATION FairSpec
CONSTANTS
  Clients = {c1}
  Streams = {st1}
  Polls = {p1, p2}
  Status = {"active", "inactive"}
  PageLimit = 1
  None = None
CHECK_DEADLOCK FALSE
INVARIANTS PolledIsKnown RegisterFollowsSockets
PROPERTIES PolledWhileWatched
