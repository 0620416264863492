SPECIFICATION FairSpec
CONSTANTS
  ImportPaths <- MCImportPaths
  ProjectionPaths = {"p", "p/I", "q", "q/I", "r", "r/I"}
  RustPaths = {"p", "p/I", "q", "q/I", "r", "r/I", "runtime", "runtime/I", "x", "x/I"}
  Kernel = {"runtime", "runtime/I"}
  Allowed = {}
  Trees <- MCTrees
  RefTrees <- MCRefTrees
  BaselineTree <- MCBaselineTree
  Std = {"fmt"}
  Inside <- MCInside
  MaxStack = 7
INVARIANTS
  TypeOK
  GrayIsThePath
  CyclesExact
  DepthExact
  VerdictIsTheTrees
  BaselineExact
  DiffExact
PROPERTIES
  VerdictIfAcyclic
CHECK_DEADLOCK FALSE
