CONSTANTS
  x = x
  y = y
  k1 = k1
  k2 = k2
  v1 = v1
  v2 = v2
  b1 = b1
  c1 = c1
  c2 = c2
  Absent = Absent
  EntityKeys = {x, y}
  ArtifactKeys = {k1, k2}
  Values = {v1, v2, b1, c1, c2}
  EventSeqs = {1}
  Timestamps = {0, 7}
  Events <- MCEvents
  Boxes = {b1}
  Contents = {c1, c2}
  Locks <- MCLocks
  MaxLog = 2
  MaxSnaps = 1
  MaxTime = 1
  MaxWrites = 1
SPECIFICATION Spec
PROPERTIES InputStateIsolation
CHECK_DEADLOCK FALSE
