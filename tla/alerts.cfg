SPECIFICATION Undisturbed
CONSTANTS
  Rules = {r}
  AlertIds = {x, y}
  Cooldowns = {1, 2}
  Long = 2
  Tasks = {w, k}
  Keepers = {w}
  Nothing = Nothing
INVARIANTS AlertsTypeOK
PROPERTIES CooldownKept StillReported
