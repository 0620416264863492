CONSTANTS
  x = x
  y = y
  status = status
  color = color
  v1 = v1
  v2 = v2
  Absent = Absent
  NoAnswer = NoAnswer
  EntityKeys = {x, y}
  ArtifactKeys = {status, color}
  Values = {v1, v2}
  EventSeqs = {1, 2, 3}
  Timestamps = {0}
  Events <- MCEvents
  Readers = {r1, r2}
  Indices <- MCIndices
  MaxLog = 2
SPECIFICATION FairSpec
INVARIANTS FoldIsLastWrite CursorComposition
PROPERTIES ImplementsLogQuery ReplayReturns
