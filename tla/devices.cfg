SPECIFICATION MCSpec
CONSTANTS
 Hosts = {h}
 Env = h
 Names = {n}
 Callers = {t, c}
 Ticks = {t}
 Devices = {d}
 Users = {u}
 Operators = {o}
 Nil = Nil
INVARIANTS DevicesTypeOK
PROPERTIES SyncKeepsAssignments FollowsWowza
