SPECIFICATION Tables
CONSTANTS
  Users = {u1, u2}
  Sessions = {s1, s2}
  Requests = {w, r}
  Writers = {w}
  None = None
  Servers = {v1, v2, v3}
  Names = {n, m}
  Calls = {e, t}
  Editors = {e}
  Gone = Gone
  Events = {e1, e2}
  Streams = {s}
  Handlers = {h1, h2}
  Nobody = Nobody
SYMMETRY TablesSymmetry
INVARIANTS AdminRemains RemovedHasNoSession NamesUnique
PROPERTIES RevokedIsBlacklisted TestsOnlyRecord OneDefault ClosingIsAnnounced
