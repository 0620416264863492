CONSTANTS
  PullRequests <- MCLifecycle
  MaxApproved = 1
  MaxSurface = 1
SPECIFICATION Spec
INVARIANTS CycleCanComplete
CHECK_DEADLOCK FALSE
