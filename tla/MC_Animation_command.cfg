SPECIFICATION Spec
CONSTANTS
  s1 = s1
  s2 = s2
  c1 = c1
  Scripts = {s1, s2}
  Length <- ScriptLength
  Commands = {c1}
  Capacity = 2
  Timeouts = FALSE
  MaxRequests = 4
PROPERTIES CommandIsNotDropped
