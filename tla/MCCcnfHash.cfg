SPECIFICATION Spec
CONSTANTS
  Norm <- MCNorm
  ParsedTime <- MCParsedTime
  Lex <- MCLex
  RawEvents <- MCRawEvents
  Versions = {1, 2}
  Orders <- MCOrders
  Draws <- MCDraws
  Variants = {"ann", "ann~"}
  IsoStamps = {"1970", "2024"}
  KeyOrders <- MCKeyOrders
  Suites <- MCSuites
  MaxClock = 2
  MaxRuns = 2
INVARIANTS
  HashAnchored
CHECK_DEADLOCK FALSE
