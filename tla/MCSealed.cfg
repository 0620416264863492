SPECIFICATION Spec
CONSTANTS
  e1 = e1
  e2 = e2
  abs = abs
  EntityKeys = {e1, e2}
  ArtifactKeys = {"acct:a", "acct:b", "cfg"}
  Values = {"5", "x", "num5"}
  Absent = abs
  EventSeqs = {1}
  Timestamps = {0}
  Events <- MCEvents
  Bytes <- MCBytes
  KeyRank <- MCKeyRank
  Clients = {"proj", "reader"}
  Prefix <- MCPrefix
  Routes <- MCRoutes
  MaxLog = 2
  MaxHeap = 5
INVARIANTS
  TypeOK
  SnapshotFixed
  ClientsSeeOneHeight
  LayersAgree
CHECK_DEADLOCK FALSE
