CONSTANTS
  PullRequests <- MCPullRequests
  MaxApproved = 2
  MaxSurface = 2
SPECIFICATION Spec
INVARIANTS TypeOK
PROPERTIES FrozenSurface GovernedPhaseChange
CHECK_DEADLOCK FALSE
